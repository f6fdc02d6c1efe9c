------------------------------ MODULE FeBounds ------------------------------
(***************************************************************************)
(* How large the limbs of lib/verifier/ed25519/fe.c can get, at the widths *)
(* of the code: 26 and 25 bits, in int32_t, and in int64_t while they are  *)
(* multiplied.  A bound is m * 2^e, kept to fourteen bits and rounded up.  *)
(* The comments of fe.c give every function a precondition and a           *)
(* postcondition on the bounds of even and odd limbs.                      *)
(***************************************************************************)
EXTENDS Stepwise

BoundLimb == 0..9
LimbWidth(i) == IF i % 2 = 0 THEN 26 ELSE 25
Nineteen == 19

\* m / 2^n, rounded up.
Halved(m, n) == (m + 2^n - 1) \div 2^n
Rounded(m, e) ==
  LET n == CHOOSE n \in 0..16 : /\ Halved(m, n) < 2^14
                                /\ \A k \in 0..(n - 1) : Halved(m, k) >= 2^14
  IN <<Halved(m, n), e + n>>

Zero == <<0, 0>>
PowerOf2(n) == Rounded(2^14, n - 14)
Shifted(a, n) == <<a[1], a[2] + n>>
\* a's m when its exponent is raised to e.
Raised(a, e) ==
  IF a[1] = 0 THEN 0
  ELSE IF e - a[2] > 14 THEN 1
  ELSE (a[1] + 2^(e - a[2]) - 1) \div 2^(e - a[2])

Plus(a, b) ==
  IF a[1] = 0 THEN b ELSE IF b[1] = 0 THEN a
  ELSE LET e == IF a[2] > b[2] THEN a[2] ELSE b[2] IN
       Rounded(Raised(a, e) + Raised(b, e), e)
Times(a, b) == Rounded(a[1] * b[1], a[2] + b[2])
Scaled(a, n) == Times(a, Rounded(n, 0))

AtMost(a, b) ==
  \/ a[1] = 0
  \/ /\ a[2] >= b[2] /\ a[2] - b[2] <= 16
     /\ a[1] * 2^(a[2] - b[2]) <= b[1]
  \/ a[2] < b[2] /\ Raised(a, b[2]) <= b[1]
Smaller(a, b) == IF AtMost(a, b) THEN a ELSE b

\* hundredths * 2^26 / 100 for even limbs and half of it for odd ones: the
\* comments' "1.65*2^26,1.65*2^25,1.65*2^26,1.65*2^25,etc."
Stated(hundredths, bits) == [i \in BoundLimb |->
  <<(hundredths * 2^7) \div 100, bits - 7 - (i % 2)>>]
Within(h, stated) == \A i \in BoundLimb : AtMost(h[i], stated[i])

Int32(a) == AtMost(a, <<2^14 - 1, 17>>)
Int64(a) == AtMost(a, <<2^14 - 1, 49>>)

-------------------------------------------------------------------------------
(* A limb that is carried keeps at most half its width; fits says whether    *)
(* every sum on the way fitted.                                              *)

CarryBound(x, i) ==
  LET half == PowerOf2(LimbWidth(i) - 1)
      sum == Plus(x.h[i], half)
      c == Shifted(sum, -LimbWidth(i))
      back == IF i = 9 THEN Scaled(c, Nineteen) ELSE c
      next == Plus(x.h[(i + 1) % 10], back)
  IN [h |-> (i :> Smaller(x.h[i], half)) @@ ((i + 1) % 10 :> next) @@ x.h,
      fits |-> x.fits /\ Int64(sum) /\ Int64(next)]

\* The limbs after the carries; what is carried last must fit an int32_t.
CarryBounds(h, fits, order) ==
  LET x == Stepwise(CarryBound, [h |-> h, fits |-> fits], order) IN
  [h |-> x.h, fits |-> x.fits /\ \A i \in BoundLimb : Int32(x.h[i])]

\* Mutant: the carries end with the last limb's neighbour.
ProductOrder_Short == <<0, 4, 1, 5, 2, 6, 3, 7, 4, 8>>

ProductOrder == <<0, 4, 1, 5, 2, 6, 3, 7, 4, 8, 9, 0>>

OtherOrder == <<9, 1, 3, 5, 7, 0, 2, 4, 6, 8>>

ProductFactor(op) == IF op = "sq2" THEN 2 ELSE 1

\* fe_mul, fe_sq and fe_sq2: the factors that are premultiplied are int32_t,
\* the products and their sums int64_t.
ProductBounds(op, f, g) ==
  LET w(i, j) == (IF i % 2 = 1 /\ j % 2 = 1 THEN 2 ELSE 1)
                   * (IF i + j > 9 THEN Nineteen ELSE 1)
      sum(k) == FoldSet(LAMBDA i, n : LET j == (k - i) % 10 IN
                  Plus(n, Scaled(Times(f[i], g[j]), w(i, j))), Zero, BoundLimb)
      h == [k \in BoundLimb |-> Scaled(sum(k), ProductFactor(op))]
      early == IF op = "mul"
               THEN /\ \A i \in 1..9 : Int32(Scaled(g[i], Nineteen))
                    /\ \A i \in {1, 3, 5, 7, 9} : Int32(Scaled(f[i], 2))
               ELSE /\ \A i \in 0..7 : Int32(Scaled(f[i], 2))
                    /\ \A i \in {5, 7, 9} : Int32(Scaled(f[i], 2 * Nineteen))
                    /\ \A i \in {6, 8} : Int32(Scaled(f[i], Nineteen))
  IN CarryBounds(h, early /\ \A k \in BoundLimb : Int64(h[k]), ProductOrder)

ZeroBound == [i \in BoundLimb |-> Zero]
OneBound == [ZeroBound EXCEPT ![0] = <<1, 0>>]

\* The bytes of fe_frombytes: up to 32 bits in a limb, and then carried.
LoadedBound == CarryBounds(
  [i \in BoundLimb |-> PowerOf2(IF i \in {0, 5} THEN 32
                                ELSE IF i = 6 THEN 31 ELSE IF i = 1 THEN 30
                                ELSE IF i = 4 THEN 26
                                ELSE IF i = 9 THEN 25
                                ELSE IF i \in {2, 7} THEN 29
                                ELSE IF i = 3 THEN 27 ELSE 28)],
  TRUE, OtherOrder)

\* fe_tobytes: 19 h9, and the quotient that runs up the limbs.
ToBytesFits(h) ==
  /\ Int32(Plus(Scaled(h[9], Nineteen), PowerOf2(24)))
  /\ \A i \in BoundLimb : Int32(Plus(h[i], PowerOf2(8)))

\* A call on bounds: the bound of its result, and whether nothing overflows.
BoundOp(op, f, g) ==
  CASE op \in {"add", "sub"} ->
         LET h == [i \in BoundLimb |-> Plus(f[i], g[i])] IN
         [h |-> h, fits |-> \A i \in BoundLimb : Int32(h[i])]
    [] op = "mul" -> ProductBounds("mul", f, g)
    [] op \in {"sq", "sq2"} -> ProductBounds(op, f, f)
    [] op \in {"neg", "copy", "cmov"} ->
         [h |-> [i \in BoundLimb |-> IF AtMost(f[i], g[i]) THEN g[i] ELSE f[i]],
          fits |-> TRUE]
    [] op = "zero" -> [h |-> ZeroBound, fits |-> TRUE]
    [] op = "one" -> [h |-> OneBound, fits |-> TRUE]
    [] op = "frombytes" -> LoadedBound
    [] op \in {"isnonzero", "isnegative", "tobytes"} ->
         [h |-> OneBound, fits |-> ToBytesFits(f)]
    [] op \in {"pow22523", "invert"} ->      \* a chain that ends in fe_mul
         LET sq == ProductBounds("sq", f, f)
             again == ProductBounds("mul", sq.h, f)
             more == ProductBounds("mul", again.h, again.h)
         IN [h |-> more.h, fits |-> sq.fits /\ again.fits /\ more.fits]

\* What the comment of a function asks of its arguments.
StatedBefore(op) ==
  CASE op \in {"mul", "sq", "sq2", "pow22523", "invert"} -> Stated(165, 26)
    [] op \in {"add", "sub", "neg"} -> Stated(110, 25)
    [] OTHER -> Stated(110, 26)

\* And what it promises of the result.
StatedAfter(op) ==
  CASE op \in {"mul", "sq", "sq2"} -> Stated(101, 25)
    [] op \in {"neg"} -> Stated(110, 25)
    [] OTHER -> Stated(165, 26)
===============================================================================
