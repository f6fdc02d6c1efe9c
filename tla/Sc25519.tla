------------------------------ MODULE Sc25519 ------------------------------
(***************************************************************************)
(* The scalars of the signature library, lib/verifier/ed25519/sc.c:        *)
(* numbers modulo the order of the base point, in twelve limbs that span   *)
(* ScSpan (2^21 in the code), computed in twenty-four.  The order is what  *)
(* the twelve limbs span less the number whose signed digits are Delta     *)
(* (666643, 470296, 654183, -997805, 136657 and -683901 in the code).      *)
(***************************************************************************)
EXTENDS Integers, Sequences

CONSTANTS
  ScSpan,    \* what a limb holds
  ScWorth,   \* what one in each of the twelve counts: 2^0, 2^21, 2^42, ...
  Delta

ScLimb == 0..23
ScFull == ScWorth[11] * ScSpan
ScDelta ==
  Delta[1] * ScWorth[0] + Delta[2] * ScWorth[1] + Delta[3] * ScWorth[2]
    + Delta[4] * ScWorth[3] + Delta[5] * ScWorth[4] + Delta[6] * ScWorth[5]
ScOrder == ScFull - ScDelta

ASSUME ScalarAssumption ==
  /\ ScSpan \in Nat \ {0}
  /\ ScWorth \in [0..11 -> Nat] /\ ScWorth[0] = 1
  /\ \A i \in 0..10 : ScWorth[i + 1] = ScWorth[i] * ScSpan
  /\ Delta \in [1..6 -> Int] /\ ScOrder > 0

\* n digits, as they are read from 32 bytes or 64: the top one has 25 bits or
\* 29, the others 21.
IsDigits(s, n, more) ==
  /\ s \in [1..n -> Nat] /\ s[n] < more * ScSpan
  /\ \A k \in 1..(n - 1) : s[k] < ScSpan

\* Twelve numbers together.
TotalOf12(h) ==
  (h[0] + h[1] + h[2] + h[3] + h[4] + h[5])
    + (h[6] + h[7] + h[8] + h[9] + h[10] + h[11])

\* The limbs of the number whose digits are given, lowest first.
ScLoad(digits) ==
  [i \in ScLimb |-> IF i + 1 \in DOMAIN digits THEN digits[i + 1] ELSE 0]

AddTo(s, i, n) == [s EXCEPT ![i] = @ + n]

\* Limb n is worth Delta twelve limbs further down.
FoldLimb(s, n) == [i \in ScLimb |->
  IF i = n THEN 0
  ELSE IF i \in (n - 12)..(n - 7) THEN s[i] + s[n] * Delta[i - (n - 13)]
  ELSE s[i]]

\* Limb n and the five below it, downwards.
FoldSix(s, n) ==
  FoldLimb(FoldLimb(FoldLimb(FoldLimb(FoldLimb(FoldLimb(s,
    n), n - 1), n - 2), n - 3), n - 4), n - 5)

\* What limb i carries is rounded to the nearest where half is half a span,
\* and down where it is 0.
CarryLimb(s, i, half) ==
  LET c == (s[i] + half) \div ScSpan
  IN AddTo(AddTo(s, i + 1, c), i, -(c * ScSpan))

Carries(s, limbs, half) ==
  LET after[n \in 0..Len(limbs)] ==
        IF n = 0 THEN s ELSE CarryLimb(after[n - 1], limbs[n], half)
  IN after[Len(limbs)]
Rounds(s, limbs) == Carries(s, limbs, ScSpan \div 2)
Floors(s, upto) == Carries(s, [n \in 1..(upto + 1) |-> n - 1], 0)

\* From twenty-four limbs to twelve that are carried once.
ScShrink(s) ==
  LET s1 == FoldSix(s, 23)
      s2 == Rounds(Rounds(s1, <<6, 8, 10, 12, 14, 16>>), <<7, 9, 11, 13, 15>>)
      s3 == FoldSix(s2, 17)
  IN Rounds(Rounds(s3, <<0, 2, 4, 6, 8, 10>>), <<1, 3, 5, 7, 9, 11>>)

\* Mutant: what the floors carry out of the twelve limbs is left there.
ScFinish_Once(s) == Floors(FoldLimb(s, 12), 11)

\* The rest below the order: folded and carried twice.
ScFinish(s) ==
  Floors(FoldLimb(Floors(FoldLimb(s, 12), 11), 12), 10)

\* The number in the twelve limbs, as the bytes hold it.
ScStore(s) == TotalOf12([i \in 0..11 |-> s[i] * ScWorth[i]])

ScReduce(digits) == ScStore(ScFinish(ScShrink(ScLoad(digits))))

ScProducts(a, b, c) == [k \in ScLimb |->
  c[k] + TotalOf12([i \in 0..11 |->
           IF k - i \in 0..11 THEN a[i] * b[k - i] ELSE 0])]

\* a * b + c; the products are carried before they are folded.
ScMuladd(a, b, c) ==
  LET s == ScProducts(ScLoad(a), ScLoad(b), ScLoad(c))
      even == Rounds(s, <<0, 2, 4, 6, 8, 10, 12, 14, 16, 18, 20, 22>>)
      carried == Rounds(even, <<1, 3, 5, 7, 9, 11, 13, 15, 17, 19, 21>>)
  IN ScStore(ScFinish(ScShrink(carried)))

-------------------------------------------------------------------------------
(* What the calls are for, by the school's multiplication. *)

\* The product of the number of digits and b modulo the order.
ScProduct(digits, b) ==
  LET from[i \in 0..Len(digits)] ==
        IF i = Len(digits) THEN 0
        ELSE (from[i + 1] * ScSpan + digits[i + 1] * b) % ScOrder
  IN from[0]

ScRemainder(digits) == ScProduct(digits, 1)
===============================================================================
