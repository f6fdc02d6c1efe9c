------------------------------ MODULE Ed25519 ------------------------------
(***************************************************************************)
(* The signature library, lib/verifier/ed25519, as its callers see it: the *)
(* calls on field elements (fe.c) and scalars (sc.c), the formulas of      *)
(* ge.c with the size of every limb on the way, and sessions of a signer   *)
(* and a verifier (keypair.c, sign.c, verify.c).                           *)
(*                                                                         *)
(* The hash, lib/verifier/sha3, is external: a function of what it is      *)
(* given.                                                                  *)
(***************************************************************************)
EXTENDS Ge25519, Sc25519, FeBounds

CONSTANTS
  Elements, Loaded,          \* inputs of calls on elements: limbs, and bytes
  Scalars, WideScalars,      \* and on scalars: twelve digits, twenty-four
  Factor,                    \* what fe_mul121666 multiplies by: 121666
  Seeds, Messages,
  Hash(_),                   \* sha3 with 64 bytes of output, as a number
  OtherKeys, OtherScalars    \* what a signature's reader may get instead

\* Elements no larger than sums are in fe.h.
ASSUME InputAssumption ==
  /\ Elements \subseteq [Limb -> Int] /\ Loaded \subseteq Nat
  /\ Factor \in Nat
  /\ \A f \in Elements, i \in Limb :
       -(11 * Span(i)) <= 10 * f[i] /\ 10 * f[i] <= 11 * Span(i)
  /\ \A s \in Scalars : IsDigits(s, 12, 16)
  /\ \A s \in WideScalars : IsDigits(s, 24, 256)

VARIABLES
  call,    \* the call on an element or a scalar that returned
  walk,    \* the formula being computed: its calls, and bounds on registers
  key,     \* the signer's keys
  signed,  \* the signature, the message and the public key as they arrive
  answer   \* ed25519_verify's

vars == <<call, walk, key, signed, answer>>
Nothing == [op |-> "none"]

Init ==
  /\ call = Nothing /\ walk = Nothing /\ key = Nothing
  /\ signed = Nothing /\ answer = "none"
Idle == call = Nothing /\ walk = Nothing /\ key = Nothing

-------------------------------------------------------------------------------
(* Calls on elements and scalars *)

FeResult(op, f, g) ==
  CASE op = "add" -> FeAdd(f, g)
    [] op = "sub" -> FeSub(f, g)
    [] op = "mul" -> FeMul(f, g)
    [] op = "sq" -> FeSq(f)
    [] op = "sq2" -> FeSq2(f)
    [] op = "mul121666" -> FeMulSmall(f, Factor)
    [] op = "neg" -> FeNeg(f)
    [] op = "cmov" -> FeCmov(f, g, 1)
    [] op = "cswap" -> FeCswap(f, g, 1)[2]
    [] op = "tobytes" -> FeToBytes(FeMul(f, Fe1))
    [] op = "isnegative" -> FeIsNegative(FeMul(f, Fe1))
    [] op = "isnonzero" -> FeIsNonZero(FeMul(f, Fe1))

FeBinary == {"add", "sub", "mul", "cmov", "cswap"}
FeUnary == {"sq", "sq2", "mul121666", "neg", "tobytes", "isnegative",
            "isnonzero"}
ElementOps == {"add", "sub", "mul", "sq", "sq2", "mul121666", "neg", "cmov",
               "cswap"}

FieldCall(op, f, g) ==
  /\ Idle
  /\ call' = [op |-> op, f |-> f, g |-> g, out |-> FeResult(op, f, g)]
  /\ UNCHANGED <<walk, key, signed, answer>>

LoadCall(s) ==
  /\ Idle
  /\ call' = [op |-> "frombytes", s |-> s, out |-> FeFromBytes(s)]
  /\ UNCHANGED <<walk, key, signed, answer>>

ReduceCall(s) ==
  /\ Idle
  /\ call' = [op |-> "reduce", s |-> s, out |-> ScReduce(s)]
  /\ UNCHANGED <<walk, key, signed, answer>>

MuladdCall(a, b, c) ==
  /\ Idle
  /\ call' = [op |-> "muladd", a |-> a, b |-> b, c |-> c,
              out |-> ScMuladd(a, b, c)]
  /\ UNCHANGED <<walk, key, signed, answer>>

\* fe_invert and fe_pow22523: the power they raise to.
ChainCall(op, power) ==
  /\ Idle
  /\ call' = [op |-> op, out |-> power]
  /\ UNCHANGED <<walk, key, signed, answer>>

-------------------------------------------------------------------------------
(* Formulas, one call at a time, on bounds.  What a caller brings is a       *)
(* product's result, a table's entry or zero; what it takes away must be no  *)
(* larger, so that any number of formulas can follow one another.            *)

Brought == Stated(101, 25)
PointFields == {"X", "Y", "Z", "T"}
Given(name, fs) == [r \in {<<name, f>> : f \in fs} |-> Brought]

Formulas ==
  [add |-> GeP3ToCached \o GeAdd \o GeP1p1ToP3,
   sub |-> GeP3ToCached \o GeSub \o GeP1p1ToP3,
   madd |-> GeMadd \o GeP1p1ToP3,
   msub |-> GeMsub \o GeP1p1ToP2,
   minus |-> GeMinus,
   dbl |-> GeP3Dbl \o GeP1p1ToP2,
   decode |-> <<Do("frombytes", H("Y"), P("X"))>> \o GeRoot \o GeIsRoot \o
              GeIsOtherRoot \o GeOtherRoot \o
              <<Do("isnegative", Check, H("X"))>> \o GeNegate \o GeProduct,
   encode |-> GeAffine \o <<Do("tobytes", Check, H("Y")),
                            Do("isnegative", Check, H("X"))>>]

StartFormula(name) ==
  /\ Idle
  /\ walk' = [op |-> name, left |-> Formulas[name], fits |-> TRUE,
              registers |->
                Given("p", PointFields) @@ Given("a", PointFields) @@
                Given("q", {"yplusx", "yminusx", "xy2d"}) @@
                Given("const", {"d", "d2", "sqrtm1"})]
  /\ UNCHANGED <<call, key, signed, answer>>

FormulaStep ==
  /\ walk # Nothing /\ walk.left # <<>>
  /\ LET c == Head(walk.left)
         f == walk.registers[c.a]
         g == walk.registers[c.b]
         result == BoundOp(c.op, f, g)
     IN walk' = [walk EXCEPT
          !.left = Tail(@),
          !.fits = @ /\ result.fits
                     /\ c.op \notin {"add", "sub"} =>
                          Within(f, StatedBefore(c.op)) /\
                          Within(g, StatedBefore(c.op)),
          !.registers = [r \in DOMAIN @ \union {c.to} |->
            IF r = c.to THEN result.h ELSE @[r]]]
  /\ UNCHANGED <<call, key, signed, answer>>

-------------------------------------------------------------------------------
(* Sessions *)

\* private_key[0] &= 248, [31] &= 63, [31] |= 64.
Clamped(n) ==
  ((n % 2^(ScalarBits - 2)) \div 8) * 8 + 2^(ScalarBits - 2)

CreateKeypair(seed) ==
  /\ Idle
  /\ LET h == Hash(<<"seed", seed>>)
         a == Clamped(h % 2^ScalarBits)
     IN key' = [op |-> "key", scalar |-> a, prefix |-> h \div 2^ScalarBits,
                public |-> Encoded(ScalarmultBase(a))]
  /\ UNCHANGED <<call, walk, signed, answer>>

Hram(first, public, m) == Hash(<<"hram", first, public, m>>) % Order

Sign(m) ==
  /\ key # Nothing /\ signed = Nothing
  /\ LET r == Hash(<<"nonce", key.prefix, m>>) % Order
         first == Encoded(ScalarmultBase(r))
     IN signed' = [op |-> "signed", message |-> m, R |-> first,
                   public |-> key.public,
                   S |-> (Hram(first, key.public, m) * key.scalar + r) % Order,
                   asMade |-> TRUE]
  /\ UNCHANGED <<call, walk, key, answer>>

\* What an encoded public key stands for: none, or one point.
PointsFor(s) ==
  {p \in {<<x, s.y % FieldP>> : x \in 0..(FieldP - 1)} :
     /\ (p[2] * p[2] - p[1] * p[1]) % FieldP
          = (1 + ((CurveD * ((p[1] * p[1]) % FieldP)) % FieldP)
               * ((p[2] * p[2]) % FieldP)) % FieldP
     /\ p[1] = 0 \/ p[1] % 2 = s.sign}
OnCurveEncoded(a) == [y |-> a[2], sign |-> a[1] % 2]

\* R as the equation wants it for the scalar S, the scalar h and the key.
FittingR(S, h, public) ==
  OnCurveEncoded(PlusOnCurve(
    TimesOnCurve(S, BasePoint),
    TimesOnCurve(h, MinusOnCurve(CHOOSE a \in PointsFor(public) : TRUE))))

\* The reader gets one part other than it was.
Arrive(changed) ==
  /\ signed # Nothing /\ signed.asMade /\ answer = "none" /\ changed # signed
  /\ signed' = [changed EXCEPT !.asMade = FALSE]
  /\ UNCHANGED <<call, walk, key, answer>>

\* Or what another library signed with another key, with any scalar that
\* solves the equation.
Foreign(m, public, S, h) ==
  /\ Idle
  /\ PointsFor(public) # {}
  /\ LET first == FittingR(S, h, public) IN
     /\ Hram(first, public, m) = h
     /\ signed' = [op |-> "signed", message |-> m, R |-> first,
                   public |-> public,
                   S |-> S, asMade |-> FALSE]
  /\ key' = [op |-> "other"]
  /\ UNCHANGED <<call, walk, answer>>

Verify ==
  /\ signed # Nothing /\ answer = "none"
  /\ LET minusA == FromBytesNegate(signed.public)
         h == Hram(signed.R, signed.public, signed.message)
         checker == Encoded(DoubleScalarmult(h, minusA, signed.S))
     IN answer' = IF signed.S >= 2^(ScalarBits - 3) THEN "no"
                  ELSE IF minusA = NoPoint THEN "no"
                  ELSE IF checker = signed.R THEN "yes" ELSE "no"
  /\ UNCHANGED <<call, walk, key, signed>>

-------------------------------------------------------------------------------
Next ==
  \/ \E op \in FeBinary, f \in Elements, g \in Elements : FieldCall(op, f, g)
  \/ \E op \in FeUnary, f \in Elements, g \in Elements :
       FieldCall(op, FeAdd(f, g), Fe0)
  \/ \E s \in Loaded : LoadCall(s)
  \/ \E s \in WideScalars : ReduceCall(s)
  \/ \E a \in Scalars, b \in Scalars, c \in Scalars : MuladdCall(a, b, c)
  \/ ChainCall("invert", InvertChain)
  \/ ChainCall("pow22523", Pow22523Chain)
  \/ \E name \in DOMAIN Formulas : StartFormula(name)
  \/ FormulaStep
  \/ \E seed \in Seeds : CreateKeypair(seed)
  \/ \E m \in Messages : Sign(m)
  \/ \E m \in Messages : Arrive([signed EXCEPT !.message = m])
  \/ \E s \in OtherKeys : Arrive([signed EXCEPT !.public = s])
  \/ \E n \in OtherScalars : Arrive([signed EXCEPT !.S = n])
  \/ Arrive([signed EXCEPT !.R.sign = 1 - @])
  \/ \E m \in Messages, s \in OtherKeys, n \in OtherScalars,
        h \in 0..(Order - 1) :
       Foreign(m, s, n, h)
  \/ Verify

Spec == Init /\ [][Next]_vars

-------------------------------------------------------------------------------
(* Properties *)

\* The product modulo the prime, a digit of f at a time.
Digit(f, i) == (f \div Worth[i]) % Span(i)
ModProduct(f, g) ==
  LET from[i \in 0..10] ==
        IF i = 10 THEN 0
        ELSE (from[i + 1] * Span(i) + Digit(f, i) * g) % Prime
  IN from[0]

Expected(c) ==
  LET f == ValueOf(c.f)
      g == ValueOf(c.g)
  IN CASE c.op = "add" -> (f + g) % Prime
       [] c.op = "sub" -> (f - g) % Prime
       [] c.op = "mul" -> ModProduct(f, g)
       [] c.op = "sq" -> ModProduct(f, f)
       [] c.op = "sq2" -> (2 * ModProduct(f, f)) % Prime
       [] c.op = "mul121666" -> ModProduct(f, Factor)
       [] c.op = "neg" -> (-f) % Prime
       [] c.op \in {"cmov", "cswap"} -> IF c.op = "cmov" THEN g ELSE f
       [] c.op = "tobytes" -> f
       [] c.op = "isnegative" -> f % 2
       [] c.op = "isnonzero" -> IF f # 0 THEN 1 ELSE 0

\* Whatever the limbs, every call that returns an element computes what its
\* name says, in the field.
FieldExact ==
  /\ call.op \in ElementOps => ValueOf(call.out) = Expected(call)
  /\ call.op = "frombytes" => ValueOf(call.out) = (call.s % Full) % Prime

\* And so do the calls on elements that return numbers, where the encoding is
\* that of the one representative below the prime, and those on scalars,
\* modulo the order of the base point; fe_invert and fe_pow22523 raise to
\* 2^255 - 21 and to 2^252 - 3.
ArithmeticExact ==
  /\ FieldExact
  /\ call.op \in {"tobytes", "isnegative", "isnonzero"} =>
       call.out = Expected(call)
  /\ call.op = "reduce" => call.out = ScRemainder(call.s)
  /\ call.op = "muladd" =>
       call.out = (ScProduct(call.a, ScRemainder(call.b))
                     + ScRemainder(call.c)) % ScOrder
  /\ call.op = "invert" => call.out = (0..254) \ {2, 4}
  /\ call.op = "pow22523" => call.out = (0..251) \ {1}

\* No sequence of formulas overflows a limb: every sum of products fits an
\* int64_t and every limb an int32_t, products and encodings get no more than
\* the comments of fe.c allow, and the points that come out are no larger
\* than those that went in.
NoOverflow ==
  walk # Nothing =>
    /\ walk.fits
    /\ walk.left = <<>> =>
         \A r \in {H(f) : f \in PointFields} \intersect DOMAIN walk.registers :
           Within(walk.registers[r], Brought)

\* What ed25519_sign makes with a pair of ed25519_create_keypair is accepted
\* with that public key and that message.
SignedVerifies ==
  answer # "none" /\ signed.asMade => answer = "yes"

\* The verifier says yes exactly when the scalar is below 2^253, the public
\* key decodes to a point A and R is the encoding of S * B - h * A: the
\* sliding windows, the tables and the extended coordinates compute the
\* textbook's equation.
VerifyExact ==
  answer # "none" =>
    (answer = "yes") <=>
      /\ signed.S < 2^(ScalarBits - 3)
      /\ PointsFor(signed.public) # {}
      /\ signed.R = FittingR(signed.S,
                             Hram(signed.R, signed.public, signed.message),
                             signed.public)
===============================================================================
