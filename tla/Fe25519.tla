------------------------------- MODULE Fe25519 -------------------------------
(***************************************************************************)
(* The field of the signature library, lib/verifier/ed25519/fe.c: ten      *)
(* limbs of alternating widths, on any such widths.  In the code they are  *)
(* 26 and 25 bits, and 2^255 folds to 19.                                  *)
(*                                                                         *)
(* An element is a function from the limbs to the integers.  The formulas  *)
(* of ge.c are programs, sequences of calls, so that they can be run on    *)
(* more than one kind of value: numbers modulo a prime, and bounds.        *)
(***************************************************************************)
EXTENDS Stepwise

CONSTANTS
  OddSpan,  \* 2^25, of which the limbs with an odd number hold the remainder
  Worth,    \* what one in each limb counts: 2^0, 2^26, 2^51, 2^77, ...
  Wrap,     \* what 2^255 is worth: the prime is 2^255 - Wrap
  Cut       \* what the first bit of each limb's bytes in fe_frombytes counts

Limb == 0..9
Span(i) == IF i % 2 = 0 THEN 2 * OddSpan ELSE OddSpan
Full == Worth[9] * OddSpan
Prime == Full - Wrap

ASSUME WidthAssumption ==
  /\ OddSpan \in Nat \ {0}
  /\ Worth \in [Limb -> Nat] /\ Worth[0] = 1
  /\ \A i \in 0..8 : Worth[i + 1] = Worth[i] * Span(i)
  /\ Wrap \in Nat /\ Wrap < Full

\* A limb's bytes begin inside the limb, and the first limb's with the number.
ASSUME CutAssumption ==
  /\ Cut \in [Limb -> Nat \ {0}] /\ Cut[0] = 1
  /\ \A i \in Limb : Cut[i] % Worth[i] = 0
  /\ \A i \in 0..8 : Cut[i + 1] % Cut[i] = 0
  /\ Full % Cut[9] = 0

\* The ten numbers together.
Total(h) ==
  h[0] + h[1] + h[2] + h[3] + h[4] + h[5] + h[6] + h[7] + h[8] + h[9]

\* The number an element stands for, and what it is modulo the prime.
NumberOf(h) == Total([i \in Limb |-> h[i] * Worth[i]])
ValueOf(h) == NumberOf(h) % Prime

-------------------------------------------------------------------------------
(* Carries *)

Above(i) == (i + 1) % 10

Carry(h, i, c) ==
  [h EXCEPT ![i] = @ - c * Span(i),
            ![Above(i)] = @ + c * (IF i = 9 THEN Wrap ELSE 1)]

\* Mutant: the carry of the last limb comes back as it is.
RoundCarry_NoWrap(h, i) ==
  LET c == (h[i] + Span(i) \div 2) \div Span(i) IN
  [h EXCEPT ![i] = @ - c * Span(i), ![Above(i)] = @ + c]

\* What is carried is rounded to the nearest.
RoundCarry(h, i) == Carry(h, i, (h[i] + Span(i) \div 2) \div Span(i))

AfterProduct == <<0, 4, 1, 5, 2, 6, 3, 7, 4, 8, 9, 0>>
AllLimbs == <<9, 1, 3, 5, 7, 0, 2, 4, 6, 8>>

RoundCarries(h, order) ==
  LET after[n \in 0..Len(order)] ==
        IF n = 0 THEN h ELSE RoundCarry(after[n - 1], order[n])
  IN after[Len(order)]

-------------------------------------------------------------------------------
(* Operations *)

Fe0 == [i \in Limb |-> 0]
Fe1 == [Fe0 EXCEPT ![0] = 1]
FeAdd(f, g) == [i \in Limb |-> f[i] + g[i]]
FeSub(f, g) == [i \in Limb |-> f[i] - g[i]]
FeNeg(f) == [i \in Limb |-> -f[i]]

\* Where the product of two limbs counts twice, and where it folds.
Weight(i, j) == (IF i % 2 = 1 /\ j % 2 = 1 THEN 2 ELSE 1)
                  * (IF i + j > 9 THEN Wrap ELSE 1)

\* The limb whose product with limb i belongs to limb k.
Partner(i, k) == (10 + k - i) % 10

\* The sums h0 to h9 of fe_mul, and those of fe_sq, in which the products of
\* two different limbs are computed once.
ProductLimbs(f, g) ==
  [k \in Limb |-> Total([i \in Limb |->
     Weight(i, Partner(i, k)) * f[i] * g[Partner(i, k)]])]
SquareLimbs(f) ==
  [k \in Limb |-> Total([i \in Limb |->
     (IF i = Partner(i, k) THEN 1 ELSE IF i < Partner(i, k) THEN 2 ELSE 0)
       * Weight(i, Partner(i, k)) * f[i] * f[Partner(i, k)]])]

FeMul(f, g) == RoundCarries(ProductLimbs(f, g), AfterProduct)
FeSq(f) == RoundCarries(SquareLimbs(f), AfterProduct)
FeSq2(f) == RoundCarries(FeAdd(SquareLimbs(f), SquareLimbs(f)), AfterProduct)
FeMulSmall(f, n) == RoundCarries([i \in Limb |-> f[i] * n], AllLimbs)

FeCmov(f, g, b) == IF b = 1 THEN g ELSE f
FeCswap(f, g, b) == IF b = 1 THEN <<g, f>> ELSE <<f, g>>

\* Each limb takes the bits from its first byte to the next limb's, shifted
\* to its offset; the top bit of the bytes is ignored.
Upto(i) == IF i = 9 THEN Full ELSE Cut[i + 1]
FeFromBytes(s) ==
  RoundCarries([i \in Limb |->
    ((s % Upto(i)) \div Cut[i]) * (Cut[i] \div Worth[i])], AllLimbs)

\* How often the prime goes into h.
Quotient(h) ==
  LET q[i \in 0..10] ==
        IF i = 0 THEN (Wrap * h[9] + OddSpan \div 2) \div OddSpan
        ELSE (h[i - 1] + q[i - 1]) \div Span(i - 1)
  IN q[10]

FloorCarry(h, i) == Carry(h, i, h[i] \div Span(i))
CarriedUp(h) ==
  LET up[n \in 0..9] == IF n = 0 THEN h ELSE FloorCarry(up[n - 1], n - 1)
  IN up[9]

\* fe_tobytes: the quotient is folded, the limbs are carried upwards and the
\* last carry is dropped; the bytes hold the limbs side by side.
FeToBytes(h) ==
  LET folded == [h EXCEPT ![0] = @ + Wrap * Quotient(h)]
  IN NumberOf([CarriedUp(folded) EXCEPT ![9] = @ % OddSpan])

FeIsNegative(h) == FeToBytes(h) % 2
FeIsNonZero(h) == IF FeToBytes(h) # 0 THEN 1 ELSE 0

-------------------------------------------------------------------------------
(* Programs: a call is its operation, where the result goes and the          *)
(* arguments, and a register is named by the struct and the field.           *)

Call(op, to, a, b) == [op |-> op, to |-> to, a |-> a, b |-> b]

\* The registers after a program, whose operations are Apply.
Run(program, registers, Apply(_, _, _)) ==
  Stepwise(LAMBDA env, c : (c.to :> Apply(c.op, env[c.a], env[c.b])) @@ env,
           registers, program)

-------------------------------------------------------------------------------
(* The chains of fe_invert and fe_pow22523 on the powers of z.  An exponent, *)
(* of 2^255's size, is the set of its bits.                                  *)

MovedUp(e, n) == {k + n : k \in e}

\* What two exponents carry into bit k of their sum.
CarriesInto(a, b, k) ==
  \E j \in a \intersect b : j < k /\ (j + 1)..(k - 1) \subseteq a \union b
AddBits(a, b) ==
  {k \in a \union b \union MovedUp(a \union b, 1) :
     (k \in a <=> k \in b) <=> CarriesInto(a, b, k)}

Powers == [r \in {"z", "t0", "t1", "t2", "t3", "out"} |->
             IF r = "z" THEN {0} ELSE {}]

\* n squarings of a, the first into to (the loops that start at i = 1).
Square(r, to, a, n) == [r EXCEPT ![to] = MovedUp(r[a], n)]
Multiply(r, to, a, b) == [r EXCEPT ![to] = AddBits(r[a], r[b])]

\* The registers when t1, t0 in fe_pow22523, has the first 50 bits, and the
\* power in the end.
InvertTo50 ==
  LET r1 == Square(Powers, "t0", "z", 1)
      r2 == Square(r1, "t1", "t0", 2)
      r3 == Multiply(r2, "t1", "z", "t1")
      r4 == Multiply(r3, "t0", "t0", "t1")
      r5 == Square(r4, "t2", "t0", 1)
      r6 == Multiply(r5, "t1", "t1", "t2")
      r7 == Square(r6, "t2", "t1", 5)
      r8 == Multiply(r7, "t1", "t2", "t1")
      r9 == Square(r8, "t2", "t1", 10)
      r10 == Multiply(r9, "t2", "t2", "t1")
      r11 == Square(r10, "t3", "t2", 20)
      r12 == Multiply(r11, "t2", "t3", "t2")
      r13 == Square(r12, "t2", "t2", 10)
      r14 == Multiply(r13, "t1", "t2", "t1")
  IN r14
InvertChain ==
  LET r15 == Square(InvertTo50, "t2", "t1", 50)
      r16 == Multiply(r15, "t2", "t2", "t1")
      r17 == Square(r16, "t3", "t2", 100)
      r18 == Multiply(r17, "t2", "t3", "t2")
      r19 == Square(r18, "t2", "t2", 50)
      r20 == Multiply(r19, "t1", "t2", "t1")
      r21 == Square(r20, "t1", "t1", 5)
      r22 == Multiply(r21, "out", "t1", "t0")
  IN r22["out"]

Pow22523To50 ==
  LET r1 == Square(Powers, "t0", "z", 1)
      r2 == Square(r1, "t1", "t0", 2)
      r3 == Multiply(r2, "t1", "z", "t1")
      r4 == Multiply(r3, "t0", "t0", "t1")
      r5 == Square(r4, "t0", "t0", 1)
      r6 == Multiply(r5, "t0", "t1", "t0")
      r7 == Square(r6, "t1", "t0", 5)
      r8 == Multiply(r7, "t0", "t1", "t0")
      r9 == Square(r8, "t1", "t0", 10)
      r10 == Multiply(r9, "t1", "t1", "t0")
      r11 == Square(r10, "t2", "t1", 20)
      r12 == Multiply(r11, "t1", "t2", "t1")
      r13 == Square(r12, "t1", "t1", 10)
      r14 == Multiply(r13, "t0", "t1", "t0")
  IN r14
Pow22523Chain ==
  LET r15 == Square(Pow22523To50, "t1", "t0", 50)
      r16 == Multiply(r15, "t1", "t1", "t0")
      r17 == Square(r16, "t2", "t1", 100)
      r18 == Multiply(r17, "t1", "t2", "t1")
      r19 == Square(r18, "t1", "t1", 50)
      r20 == Multiply(r19, "t0", "t1", "t0")
      r21 == Square(r20, "t0", "t0", 2)
      r22 == Multiply(r21, "out", "t0", "z")
  IN r22["out"]
===============================================================================
