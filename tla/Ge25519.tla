------------------------------ MODULE Ge25519 ------------------------------
(***************************************************************************)
(* The group of the signature library, lib/verifier/ed25519/ge.c, on a     *)
(* curve of the same kind, -x^2 + y^2 = 1 + d x^2 y^2, over a small prime  *)
(* that is 5 modulo 8.  The formulas are the code's, call by call, and the *)
(* loops of the scalar multiplications are those of scalars of ScalarBits  *)
(* bits (256 in the code).                                                 *)
(***************************************************************************)
EXTENDS Fe25519

CONSTANTS
  FieldP, CurveD,  \* the prime, and d
  SqrtM1,          \* a root of -1
  BaseX, BaseY,    \* the base point
  Order,           \* its order
  ScalarBits

ASSUME CurveAssumption ==
  /\ FieldP % 8 = 5 /\ (SqrtM1 * SqrtM1 + 1) % FieldP = 0
  /\ ScalarBits \in Nat /\ ScalarBits % 8 = 0

-------------------------------------------------------------------------------
(* The formulas.  r is the result, p, q and a the arguments.                 *)

R(f) == <<"r", f>>
P(f) == <<"p", f>>
Q(f) == <<"q", f>>
A(f) == <<"a", f>>
H(f) == <<"h", f>>
T0 == <<"t0", "">>
U == <<"u", "">>      V == <<"v", "">>      V3 == <<"v3", "">>
Vxx == <<"vxx", "">>  Check == <<"check", "">>
Recip == <<"recip", "">>
Const(c) == <<"const", c>>

Add(to, x, y) == Call("add", to, x, y)
Sub(to, x, y) == Call("sub", to, x, y)
Mul(to, x, y) == Call("mul", to, x, y)
Do(op, to, x) == Call(op, to, x, x)

\* Y + X and Y - X of p, times two fields of q.
Cross(y1, y2) ==
  <<Add(R("X"), P("Y"), P("X")), Sub(R("Y"), P("Y"), P("X")),
    Mul(R("Z"), R("X"), Q(y1)), Mul(R("Y"), R("Y"), Q(y2))>>

\* Mutant: the signs of the two last results are those of the addition.
GeSub_AsAdd ==
  Cross("YminusX", "YplusX") \o
  <<Mul(R("T"), Q("T2d"), P("T")), Mul(R("X"), P("Z"), Q("Z")),
    Add(T0, R("X"), R("X")), Sub(R("X"), R("Z"), R("Y")),
    Add(R("Y"), R("Z"), R("Y")), Add(R("Z"), T0, R("T")),
    Sub(R("T"), T0, R("T"))>>

GeAdd ==
  Cross("YplusX", "YminusX") \o
  <<Mul(R("T"), Q("T2d"), P("T")), Mul(R("X"), P("Z"), Q("Z")),
    Add(T0, R("X"), R("X")), Sub(R("X"), R("Z"), R("Y")),
    Add(R("Y"), R("Z"), R("Y")), Add(R("Z"), T0, R("T")),
    Sub(R("T"), T0, R("T"))>>

GeSub ==
  Cross("YminusX", "YplusX") \o
  <<Mul(R("T"), Q("T2d"), P("T")), Mul(R("X"), P("Z"), Q("Z")),
    Add(T0, R("X"), R("X")), Sub(R("X"), R("Z"), R("Y")),
    Add(R("Y"), R("Z"), R("Y")), Sub(R("Z"), T0, R("T")),
    Add(R("T"), T0, R("T"))>>

GeMadd ==
  Cross("yplusx", "yminusx") \o
  <<Mul(R("T"), Q("xy2d"), P("T")), Add(T0, P("Z"), P("Z")),
    Sub(R("X"), R("Z"), R("Y")), Add(R("Y"), R("Z"), R("Y")),
    Add(R("Z"), T0, R("T")), Sub(R("T"), T0, R("T"))>>

GeMsub ==
  Cross("yminusx", "yplusx") \o
  <<Mul(R("T"), Q("xy2d"), P("T")), Add(T0, P("Z"), P("Z")),
    Sub(R("X"), R("Z"), R("Y")), Add(R("Y"), R("Z"), R("Y")),
    Sub(R("Z"), T0, R("T")), Add(R("T"), T0, R("T"))>>

\* The completed point r as h.
GeP1p1ToP2 == <<Mul(H("X"), R("X"), R("T")), Mul(H("Y"), R("Y"), R("Z")),
                Mul(H("Z"), R("Z"), R("T"))>>
GeP1p1ToP3 == Append(GeP1p1ToP2, Mul(H("T"), R("X"), R("Y")))

GeP2Dbl ==
  <<Do("sq", R("X"), P("X")), Do("sq", R("Z"), P("Y")),
    Do("sq2", R("T"), P("Z")), Add(R("Y"), P("X"), P("Y")),
    Do("sq", T0, R("Y")), Add(R("Y"), R("Z"), R("X")),
    Sub(R("Z"), R("Z"), R("X")), Sub(R("X"), T0, R("Y")),
    Sub(R("T"), R("T"), R("Z"))>>

\* ge_p3_to_p2 followed by ge_p2_dbl.
GeP3Dbl == <<Do("copy", P("X"), A("X")), Do("copy", P("Y"), A("Y")),
             Do("copy", P("Z"), A("Z"))>> \o GeP2Dbl

GeP3ToCached ==
  <<Add(Q("YplusX"), A("Y"), A("X")), Sub(Q("YminusX"), A("Y"), A("X")),
    Do("copy", Q("Z"), A("Z")), Mul(Q("T2d"), A("T"), Const("d2"))>>

\* ge_frombytes_negate_vartime up to the first check, and between the checks.
GeRoot ==
  <<Do("one", H("Z"), H("Y")), Do("sq", U, H("Y")), Mul(V, U, Const("d")),
    Sub(U, U, H("Z")), Add(V, V, H("Z")), Do("sq", V3, V), Mul(V3, V3, V),
    Do("sq", H("X"), V3), Mul(H("X"), H("X"), V), Mul(H("X"), H("X"), U),
    Do("pow22523", H("X"), H("X")), Mul(H("X"), H("X"), V3),
    Mul(H("X"), H("X"), U), Do("sq", Vxx, H("X")), Mul(Vxx, Vxx, V)>>
GeIsRoot == <<Sub(Check, Vxx, U), Do("isnonzero", Check, Check)>>
GeIsOtherRoot == <<Add(Check, Vxx, U), Do("isnonzero", Check, Check)>>
GeOtherRoot == <<Mul(H("X"), H("X"), Const("sqrtm1"))>>
GeNegate == <<Do("neg", H("X"), H("X"))>>
GeProduct == <<Mul(H("T"), H("X"), H("Y"))>>

\* ge_tobytes and ge_p3_tobytes: x and y of the point p, in h.
GeAffine == <<Do("invert", Recip, P("Z")), Mul(H("X"), P("X"), Recip),
              Mul(H("Y"), P("Y"), Recip)>>

\* The precomputed entry with the given fields, negated.
GeMinus == <<Do("copy", <<"m", "yplusx">>, Q("yminusx")),
             Do("copy", <<"m", "yminusx">>, Q("yplusx")),
             Do("neg", <<"m", "xy2d">>, Q("xy2d"))>>

-------------------------------------------------------------------------------
(* The formulas on numbers *)

Power(x, n) ==
  LET pow[k \in 0..n] ==
        IF k = 0 THEN 1
        ELSE LET half == pow[k \div 2] IN
             (half * half % FieldP) * (IF k % 2 = 1 THEN x ELSE 1) % FieldP
  IN pow[n]

NumberOp(op, x, y) ==
  CASE op = "add" -> (x + y) % FieldP
    [] op = "sub" -> (x - y) % FieldP
    [] op = "mul" -> (x * y) % FieldP
    [] op = "sq" -> (x * x) % FieldP
    [] op = "sq2" -> (2 * x * x) % FieldP
    [] op = "neg" -> (-x) % FieldP
    [] op = "copy" -> x
    [] op = "one" -> 1
    [] op = "invert" -> Power(x, FieldP - 2)
    [] op = "pow22523" -> Power(x, (FieldP - 5) \div 8)
    [] op = "isnonzero" -> IF x # 0 THEN 1 ELSE 0

Struct(name, s) == [r \in {<<name, f>> : f \in DOMAIN s} |-> s[r[2]]]
Constant == Struct("const", [d |-> CurveD % FieldP,
                             d2 |-> (2 * CurveD) % FieldP,
                             sqrtm1 |-> SqrtM1])
Compute(program, registers) ==
  Run(program, registers @@ Constant, NumberOp)

\* The point, the cached point and the table's entry in the registers.
P2In(h, n) == [X |-> h[<<n, "X">>], Y |-> h[<<n, "Y">>], Z |-> h[<<n, "Z">>]]
P3In(h, n) == [X |-> h[<<n, "X">>], Y |-> h[<<n, "Y">>], Z |-> h[<<n, "Z">>],
               T |-> h[<<n, "T">>]]
CachedIn(h) == [YplusX |-> h[Q("YplusX")], YminusX |-> h[Q("YminusX")],
                Z |-> h[Q("Z")], T2d |-> h[Q("T2d")]]
PrecompIn(h) == [yplusx |-> h[<<"m", "yplusx">>],
                 yminusx |-> h[<<"m", "yminusx">>], xy2d |-> h[<<"m", "xy2d">>]]

P2Zero == [X |-> 0, Y |-> 1, Z |-> 1]
P3Zero == [X |-> 0, Y |-> 1, Z |-> 1, T |-> 0]

\* A formula on p and q that gives a completed point.
Combine(formula, p, q) ==
  P3In(Compute(formula, Struct("p", p) @@ Struct("q", q)), "r")
Doubled(p) == P3In(Compute(GeP2Dbl, Struct("p", p)), "r")
DoubledP3(p) == P3In(Compute(GeP3Dbl, Struct("a", p)), "r")
ToP2(r) == P2In(Compute(GeP1p1ToP2, Struct("r", r)), "h")
ToP3(r) == P3In(Compute(GeP1p1ToP3, Struct("r", r)), "h")
ToCached(p) ==
  CachedIn(Compute(GeP3ToCached, Struct("a", p)))

-------------------------------------------------------------------------------
(* Encoded points: y, which fe_frombytes does not reduce, and x's low bit.   *)

Encoded(p) ==
  LET h == Compute(GeAffine, Struct("p", p)) IN
  [y |-> h[H("Y")], sign |-> h[H("X")] % 2]

NoPoint == [X |-> 0, Y |-> 0, Z |-> 0, T |-> 0]

\* ge_frombytes_negate_vartime: minus the point, or none.
FromBytesNegate(s) ==
  LET start == Struct("h", [Y |-> s.y % FieldP])
      root == Compute(GeRoot, start)
      x == IF Compute(GeIsRoot, root)[Check] = 0 THEN root
           ELSE Compute(GeOtherRoot, root)
      signed == IF x[H("X")] % 2 = s.sign THEN Compute(GeNegate, x) ELSE x
  IN IF /\ Compute(GeIsRoot, root)[Check] # 0
        /\ Compute(GeIsOtherRoot, root)[Check] # 0
     THEN NoPoint
     ELSE P3In(Compute(GeProduct, signed), "h")

-------------------------------------------------------------------------------
(* The textbook's group, on pairs <<x, y>>.                                  *)

PlusOnCurve(a, b) ==
  LET xx == a[1] * b[1] % FieldP
      yy == a[2] * b[2] % FieldP
      k == (CurveD * xx % FieldP) * yy % FieldP
      cross == (a[1] * b[2] + a[2] * b[1]) % FieldP
  IN <<cross * Power((1 + k) % FieldP, FieldP - 2) % FieldP,
       ((yy + xx) % FieldP) * Power((1 - k) % FieldP, FieldP - 2) % FieldP>>
MinusOnCurve(a) == <<(-a[1]) % FieldP, a[2]>>

TimesOnCurve(n, a) ==
  LET times[k \in 0..n] ==
        IF k = 0 THEN <<0, 1>>
        ELSE LET half == times[k \div 2]
                 twice == PlusOnCurve(half, half)
             IN IF k % 2 = 1 THEN PlusOnCurve(twice, a) ELSE twice
  IN times[n]

BasePoint == <<BaseX, BaseY>>

-------------------------------------------------------------------------------
(* precomp_data.h: (y+x, y-x, 2dxy) of multiples of the base point.          *)

Precomp(a) == [yplusx |-> (a[2] + a[1]) % FieldP,
               yminusx |-> (a[2] - a[1]) % FieldP,
               xy2d |-> ((2 * CurveD) % FieldP) * (a[1] * a[2] % FieldP)
                          % FieldP]
Bi == [k \in 0..7 |-> Precomp(TimesOnCurve(2 * k + 1, BasePoint))]
BaseTable == [pos \in 0..(ScalarBits \div 8 - 1) |-> [j \in 0..7 |->
  Precomp(TimesOnCurve((j + 1) * 256^pos, BasePoint))]]

-------------------------------------------------------------------------------
(* Scalar multiplication *)

BitOf(a, i) == (a \div 2^i) % 2

\* Adds one at bit k of the sliding digits: the bits that are set become
\* zero up to the first that is not.
Ripple(r, k) ==
  LET clear == {n \in k..(ScalarBits - 1) : r[n] = 0}
      first == IF clear = {} THEN ScalarBits
               ELSE CHOOSE n \in clear : \A m \in clear : n <= m
      upto == IF first = ScalarBits THEN first - 1 ELSE first
  IN [n \in k..upto |-> IF n = first THEN 1 ELSE 0] @@ r

\* The largest digit.
SlideLimit == 15

\* A round of slide's inner loop, which is left when digit i is full.
SlideRound(s, i, b) ==
  LET r == s.digits
      more == r[i + b] * 2^b
  IN IF s.left \/ i + b >= ScalarBits THEN s
     ELSE IF r[i + b] = 0 THEN s
     ELSE IF r[i] + more <= SlideLimit
     THEN [s EXCEPT !.digits[i] = @ + more, !.digits[i + b] = 0]
     ELSE IF r[i] - more >= -SlideLimit
     THEN [s EXCEPT !.digits = Ripple([@ EXCEPT ![i] = @ - more], i + b)]
     ELSE [s EXCEPT !.left = TRUE]

SlideInner(r, i) ==
  Stepwise(LAMBDA s, b : SlideRound(s, i, b),
           [digits |-> r, left |-> FALSE], <<1, 2, 3, 4, 5, 6>>).digits

Slide(a) ==
  Stepwise(LAMBDA r, i : IF r[i] = 0 THEN r ELSE SlideInner(r, i),
           [i \in 0..(ScalarBits - 1) |-> BitOf(a, i)],
           [n \in 1..ScalarBits |-> n - 1])

\* A, 3A, ... 15A.
OddMultiples(p) ==
  LET twice == ToP3(DoubledP3(p)) IN
  Stepwise(LAMBDA s, k :
             Append(s, ToCached(ToP3(Combine(GeAdd, twice, s[k])))),
           <<ToCached(p)>>, <<1, 2, 3, 4, 5, 6, 7>>)

\* One round of the ladder: double, then what the digits of a and b say.
LadderRound(r, x, y, Ai) ==
  LET t0 == Doubled(r)
      t1 == IF x > 0 THEN Combine(GeAdd, ToP3(t0), Ai[x \div 2 + 1])
            ELSE IF x < 0 THEN Combine(GeSub, ToP3(t0), Ai[(-x) \div 2 + 1])
            ELSE t0
      t2 == IF y > 0 THEN Combine(GeMadd, ToP3(t1), Bi[y \div 2])
            ELSE IF y < 0 THEN Combine(GeMsub, ToP3(t1), Bi[(-y) \div 2])
            ELSE t1
  IN ToP2(t2)

\* ge_double_scalarmult_vartime: a * p + b * the base point.
DoubleScalarmult(a, p, b) ==
  LET aslide == Slide(a)
      bslide == Slide(b)
      Ai == OddMultiples(p)
      used == {i \in DOMAIN aslide : aslide[i] # 0 \/ bslide[i] # 0}
      top == IF used = {} THEN -1
             ELSE CHOOSE i \in used : \A k \in used : k <= i
  IN Stepwise(LAMBDA r, n : LET i == top + 1 - n IN
                LadderRound(r, aslide[i], bslide[i], Ai),
              P2Zero, [n \in 1..(top + 1) |-> n])

\* The digits of ge_scalarmult_base, between -8 and 8.
SignedDigits(a) ==
  LET n == ScalarBits \div 4
      carried == FoldLeft(LAMBDA x, i :
        LET e == ((a \div 16^i) % 16) + x.carry
            c == IF i < n - 1 THEN (e + 8) \div 16 ELSE 0
        IN [digits |-> Append(x.digits, e - 16 * c), carry |-> c],
        [digits |-> <<>>, carry |-> 0], [k \in 1..n |-> k - 1])
  IN carried.digits

\* select: the entry of the table for |b|, negated for a negative b.
Select(pos, b) ==
  LET size == IF b < 0 THEN -b ELSE b
      t == IF size \in 1..8 THEN BaseTable[pos][size - 1]
           ELSE [yplusx |-> 1, yminusx |-> 1, xy2d |-> 0]
      minust == PrecompIn(Compute(GeMinus, Struct("q", t)))
  IN IF b < 0 THEN minust ELSE t

\* Mutant: the odd digits are doubled three times only.
SixteenTimes_Eight(h) ==
  ToP3(Doubled(ToP2(Doubled(ToP2(DoubledP3(h))))))

SixteenTimes(h) ==
  ToP3(Doubled(ToP2(Doubled(ToP2(Doubled(ToP2(DoubledP3(h))))))))

\* ge_scalarmult_base: the odd digits, sixteen times that, the even digits.
ScalarmultBase(a) ==
  LET e == SignedDigits(a)
      n == ScalarBits \div 8
      AddDigit(h, pos, digit) == ToP3(Combine(GeMadd, h, Select(pos, digit)))
      odd == Stepwise(LAMBDA h, k : AddDigit(h, k - 1, e[2 * k]), P3Zero,
                      [k \in 1..n |-> k])
  IN Stepwise(LAMBDA h, k : AddDigit(h, k - 1, e[2 * k - 1]), SixteenTimes(odd),
              [k \in 1..n |-> k])
===============================================================================
