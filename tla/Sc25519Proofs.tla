----------------------------- MODULE Sc25519Proofs -----------------------------
(***************************************************************************)
(* Proofs about the scalars: with the limbs and the digits of the order in *)
(* sc.c, sc_reduce and sc_muladd return the one representative below the   *)
(* order.  First what a limb's carry and its folding do to the number that *)
(* the limbs stand for; then how large the limbs are at each carry, and so *)
(* that what is left at the end needs no further one.                      *)
(***************************************************************************)
EXTENDS Sc25519, WellFoundedInduction, TLAPS

-------------------------------------------------------------------------------
(* Numbers. *)

\* A product over a sum.
LEMMA Distribute ==
  ASSUME NEW a \in Int, NEW b \in Int, NEW c \in Int
  PROVE c * (a + b) = c * a + c * b
  BY SMT

\* Quotient and remainder, for a negative dividend too.
LEMMA Division ==
  ASSUME NEW x \in Int, NEW p \in Nat, p > 0
  PROVE /\ x \div p \in Int /\ x % p \in Nat /\ x % p < p
        /\ x = (x \div p) * p + (x % p)
  BY SMT

\* A number written as quotient and remainder has these.
LEMMA ModIs ==
  ASSUME NEW q \in Int, NEW p \in Nat, NEW r \in Nat, p > 0, r < p
  PROVE (q * p + r) % p = r /\ (q * p + r) \div p = q
  BY SMT

\* Multiples of the divisor leave the remainder alone.
LEMMA ModShift ==
  ASSUME NEW x \in Int, NEW k \in Int, NEW p \in Nat, p > 0
  PROVE (x + k * p) % p = x % p
<1>1. PICK q \in Int : q = x \div p BY Division
<1>2. PICK r \in Nat : r = x % p BY Division
<1>3. r < p /\ x = q * p + r BY Division, <1>1, <1>2
<1>4. x + k * p = (q + k) * p + r BY ONLY <1>3, x \in Int, k \in Int, p \in Nat,
  q \in Int, r \in Nat, SMT
<1>5. ((q + k) * p + r) % p = r
  <2>1. PICK t \in Int : t = q + k OBVIOUS
  <2>2. (t * p + r) % p = r BY <1>3, ModIs
  <2> QED BY <2>1, <2>2
<1> QED BY <1>2, <1>4, <1>5

\* A non-empty set of numbers has a least one.
LEMMA HasLeast ==
  ASSUME NEW S, S \subseteq Nat, S # {}
  PROVE  \E x \in S : \A y \in S : x <= y
<1>1. PICK x \in S : \A y \in S : ~ (<<y, x>> \in OpToRel(<, Nat))
  BY WFMin, NatLessThanWellFounded
<1>2. ASSUME NEW y \in S PROVE x <= y
  <2>1. ~(y < x)
    BY <1>1 DEF OpToRel
  <2> QED BY <2>1
<1> QED BY <1>2

\* Induction, for a set.
LEMMA NatLeast ==
  ASSUME NEW S, 0 \in S, \A n \in Nat : n \in S => n + 1 \in S
  PROVE  Nat \subseteq S
<1> DEFINE Bad == Nat \ S
<1> SUFFICES ASSUME Bad # {} PROVE FALSE
  OBVIOUS
<1>1. Bad \subseteq Nat
  OBVIOUS
<1>2. \A n \in Bad : n - 1 \in Bad
  <2> SUFFICES ASSUME NEW n \in Bad PROVE n - 1 \in Bad
    OBVIOUS
  <2>1. n \in Nat /\ n \notin S /\ n # 0
    OBVIOUS
  <2>2. n - 1 \in Nat /\ (n - 1) + 1 = n
    BY <2>1
  <2> QED BY <2>1, <2>2
<1> HIDE DEF Bad
<1>3. PICK m \in Bad : \A y \in Bad : m <= y
  BY <1>1, HasLeast
<1>4. m \in Nat /\ m - 1 \in Bad
  BY ONLY <1>1, <1>2, <1>3
<1>5. m <= m - 1
  BY ONLY <1>3, <1>4
<1> QED BY ONLY <1>4, <1>5

-------------------------------------------------------------------------------
(* Scalars: twenty-four limbs, and the number they stand for. *)

\* A scalar on its way: twenty-four limbs, of any sign.
Wide == [ScLimb -> Int]

\* What one in the n-th limb counts.
Place(n) == IF n < 12 THEN ScWorth[n] ELSE ScFull * ScWorth[n - 12]

Upper(h) == [i \in 0..11 |-> h[i + 12]]
Total24(h) == TotalOf12(h) + TotalOf12(Upper(h))

\* The number that twenty-four limbs stand for.
ScNumber(s) == Total24([i \in ScLimb |-> s[i] * Place(i)])

\* The order and what it is made of are numbers.
LEMMA ScNat ==
  /\ ScSpan \in Nat /\ ScSpan > 0 /\ ScFull \in Nat /\ ScFull > 0
  /\ ScDelta \in Int /\ ScOrder \in Nat /\ ScOrder > 0
  /\ ScFull = ScOrder + ScDelta
  /\ \A i \in 0..11 : ScWorth[i] \in Nat /\ ScWorth[i] > 0
  /\ \A k \in 1..6 : Delta[k] \in Int
<1>1. ScSpan \in Nat /\ ScSpan > 0 BY ScalarAssumption
<1>2. \A i \in 0..11 : ScWorth[i] \in Nat BY ScalarAssumption
<1>3. \A a, b \in Nat : a > 0 /\ b > 0 => a * b \in Nat /\ a * b > 0 BY SMT
<1>4. \A i \in 0..11 : ScWorth[i] > 0
  <2> DEFINE S == {n \in Nat : n <= 11 => ScWorth[n] > 0}
  <2>1. 0 \in S
    <3>1. ScWorth[0] = 1 BY ScalarAssumption
    <3> QED BY <3>1
  <2>2. \A n \in Nat : n \in S => n + 1 \in S
    <3> SUFFICES ASSUME NEW n \in Nat, n \in S, n + 1 <= 11
                 PROVE ScWorth[n + 1] > 0
      OBVIOUS
    <3>1. n \in 0..10 /\ n \in 0..11 /\ n <= 11 BY SMT
    <3>2. ScWorth[n] > 0 BY <3>1
    <3>3. ScWorth[n + 1] = ScWorth[n] * ScSpan BY <3>1, ScalarAssumption
    <3> QED BY <1>1, <1>2, <1>3, <3>1, <3>2, <3>3
  <2> HIDE DEF S
  <2>3. Nat \subseteq S BY <2>1, <2>2, NatLeast
  <2>4. \A i \in 0..11 : i \in Nat /\ i <= 11 BY SMT
  <2> QED BY <2>3, <2>4 DEF S
<1>5. ScFull \in Nat /\ ScFull > 0
  <2>1. 11 \in 0..11 BY SMT
  <2> QED BY <1>1, <1>2, <1>3, <1>4, <2>1 DEF ScFull
<1>6. \A k \in 1..6 : Delta[k] \in Int BY ScalarAssumption
<1>7. ScDelta \in Int
  <2>1. \A a \in Int, b \in Nat : a * b \in Int BY SMT
  <2>2. /\ 1 \in 1..6 /\ 2 \in 1..6 /\ 3 \in 1..6 /\ 4 \in 1..6 /\ 5 \in 1..6
        /\ 6 \in 1..6
        /\ 0 \in 0..11 /\ 1 \in 0..11 /\ 2 \in 0..11 /\ 3 \in 0..11
        /\ 4 \in 0..11 /\ 5 \in 0..11
    BY SMT
  <2>3. /\ Delta[1] * ScWorth[0] \in Int /\ Delta[2] * ScWorth[1] \in Int
        /\ Delta[3] * ScWorth[2] \in Int /\ Delta[4] * ScWorth[3] \in Int
        /\ Delta[5] * ScWorth[4] \in Int /\ Delta[6] * ScWorth[5] \in Int
    BY <1>2, <1>6, <2>1, <2>2
  <2> QED BY <2>3 DEF ScDelta
<1>8. ScOrder \in Int /\ ScFull = ScOrder + ScDelta
  BY <1>5, <1>7, SMT DEF ScOrder
<1>9. ScOrder > 0 BY ScalarAssumption
<1> QED BY <1>1, <1>2, <1>4, <1>5, <1>6, <1>7, <1>8, <1>9

\* Places are positive, and grow by the span.
LEMMA PlaceNat == \A n \in ScLimb : Place(n) \in Nat /\ Place(n) > 0
<1> SUFFICES ASSUME NEW n \in ScLimb PROVE Place(n) \in Nat /\ Place(n) > 0
  OBVIOUS
<1>1. CASE n < 12
  <2>1. n \in 0..11 BY <1>1, SMT DEF ScLimb
  <2> QED BY <1>1, <2>1, ScNat DEF Place
<1>2. CASE ~(n < 12)
  <2>1. n - 12 \in 0..11 BY <1>2, SMT DEF ScLimb
  <2>2. \A a, b \in Nat : a > 0 /\ b > 0 => a * b \in Nat /\ a * b > 0 BY SMT
  <2> QED BY <1>2, <2>1, <2>2, ScNat DEF Place
<1> QED BY <1>1, <1>2

\* Each limb counts a span of the one before it.
LEMMA PlaceNext == \A n \in 0..22 : Place(n + 1) = Place(n) * ScSpan
<1> SUFFICES ASSUME NEW n \in 0..22 PROVE Place(n + 1) = Place(n) * ScSpan
  OBVIOUS
<1>1. CASE n < 11
  <2>1. n \in 0..10 /\ n < 12 /\ n + 1 < 12 BY <1>1, SMT
  <2>2. ScWorth[n + 1] = ScWorth[n] * ScSpan BY <2>1, ScalarAssumption
  <2> QED BY <2>1, <2>2 DEF Place
<1>2. CASE n = 11
  <2>1. Place(11) = ScWorth[11] BY SMT DEF Place
  <2>2. Place(12) = ScFull * ScWorth[0] BY SMT DEF Place
  <2>3. ScFull * 1 = ScFull BY ScNat, SMT
  <2>4. 11 + 1 = 12 BY SMT
  <2>5. ScWorth[0] = 1 BY ScalarAssumption
  <2> QED BY <1>2, <2>1, <2>2, <2>3, <2>4, <2>5 DEF ScFull
<1>3. CASE n > 11
  <2>1. n - 12 \in 0..10 /\ n - 12 \in 0..11 /\ ~(n < 12) /\ ~(n + 1 < 12)
        /\ (n + 1) - 12 = (n - 12) + 1
    BY <1>3, SMT
  <2>2. ScWorth[(n - 12) + 1] = ScWorth[n - 12] * ScSpan
    BY <2>1, ScalarAssumption
  <2>3. \A a, b, c \in Nat : a * (b * c) = (a * b) * c BY SMT
  <2>4. ScFull * (ScWorth[n - 12] * ScSpan)
          = (ScFull * ScWorth[n - 12]) * ScSpan
    BY <2>1, <2>3, ScNat
  <2> QED BY <2>1, <2>2, <2>4 DEF Place
<1> QED BY <1>1, <1>2, <1>3, SMT

\* The places of two factors give that of their product.
LEMMA PlaceProduct ==
  \A i \in 0..11, j \in 0..11 : Place(i + j) = ScWorth[i] * ScWorth[j]
<1> SUFFICES ASSUME NEW j \in 0..11
             PROVE \A i \in 0..11 : Place(i + j) = ScWorth[i] * ScWorth[j]
  OBVIOUS
<1> DEFINE S == {n \in Nat : n <= 11 =>
                   Place(n + j) = ScWorth[n] * ScWorth[j]}
<1>1. 0 \in S
  <2>1. 0 + j = j /\ j < 12 BY SMT
  <2>2. 1 * ScWorth[j] = ScWorth[j] BY ScNat, SMT
  <2>3. ScWorth[0] = 1 BY ScalarAssumption
  <2>4. Place(0 + j) = ScWorth[0] * ScWorth[j] BY <2>1, <2>2, <2>3 DEF Place
  <2> QED BY <2>4
<1>2. \A n \in Nat : n \in S => n + 1 \in S
  <2> SUFFICES ASSUME NEW n \in Nat, n \in S, n + 1 <= 11
               PROVE Place((n + 1) + j) = ScWorth[n + 1] * ScWorth[j]
    OBVIOUS
  <2>1. n \in 0..10 /\ n \in 0..11 /\ n <= 11 /\ n + j \in 0..22
        /\ (n + 1) + j = (n + j) + 1
    BY SMT
  <2>2. Place(n + j) = ScWorth[n] * ScWorth[j] BY <2>1
  <2>3. Place((n + j) + 1) = Place(n + j) * ScSpan BY <2>1, PlaceNext
  <2>4. ScWorth[n + 1] = ScWorth[n] * ScSpan BY <2>1, ScalarAssumption
  <2>5. \A a, b, c \in Nat : (a * b) * c = (a * c) * b BY SMT
  <2>6. (ScWorth[n] * ScWorth[j]) * ScSpan = (ScWorth[n] * ScSpan) * ScWorth[j]
    BY <2>1, <2>5, ScNat
  <2> QED BY ONLY <2>1, <2>2, <2>3, <2>4, <2>6, Zenon
<1> HIDE DEF S
<1>3. Nat \subseteq S BY <1>1, <1>2, NatLeast
<1>4. \A i \in 0..11 : i \in Nat /\ i <= 11 BY SMT
<1> QED BY <1>3, <1>4 DEF S

\* Twelve numbers, and their totals.
Twelve == [0..11 -> Int]

\* The total of two twelves of numbers is the sum of their totals.
LEMMA Total12Add ==
  ASSUME NEW f \in Twelve, NEW g \in Twelve
  PROVE /\ TotalOf12(f) \in Int
        /\ TotalOf12([i \in 0..11 |-> f[i] + g[i]])
             = TotalOf12(f) + TotalOf12(g)
<1> DEFINE low(h) == h[0] + h[1] + h[2] + h[3] + h[4] + h[5]
           high(h) == h[6] + h[7] + h[8] + h[9] + h[10] + h[11]
           sum == [i \in 0..11 |-> f[i] + g[i]]
<1>1. \A i \in 0..11 : f[i] \in Int /\ g[i] \in Int BY DEF Twelve
<1>2. \A i \in 0..11 : sum[i] = f[i] + g[i] OBVIOUS
<1>3. \A h : TotalOf12(h) = low(h) + high(h) BY DEF TotalOf12
<1> HIDE DEF sum
<1>4. /\ low(sum) = low(f) + low(g) /\ low(f) \in Int /\ low(g) \in Int
      /\ high(sum) = high(f) + high(g) /\ high(f) \in Int /\ high(g) \in Int
  BY <1>1, <1>2, SMT
<1> HIDE DEF low, high
<1>5. low(f) + high(f) \in Int
      /\ (low(f) + low(g)) + (high(f) + high(g))
           = (low(f) + high(f)) + (low(g) + high(g))
  BY ONLY <1>4, SMT
<1> QED BY ONLY <1>3, <1>4, <1>5, Zenon DEF sum

\* A factor of all twelve is a factor of their total.
LEMMA Total12Scale ==
  ASSUME NEW f \in Twelve, NEW c \in Int
  PROVE TotalOf12([i \in 0..11 |-> c * f[i]]) = c * TotalOf12(f)
<1> DEFINE s1 == f[0] + f[1]
           s2 == s1 + f[2]
           s3 == s2 + f[3]
           s4 == s3 + f[4]
           s5 == s4 + f[5]
           s6 == f[6] + f[7]
           s7 == s6 + f[8]
           s8 == s7 + f[9]
           s9 == s8 + f[10]
           s10 == s9 + f[11]
<1>1. /\ f[0] \in Int /\ f[1] \in Int /\ f[2] \in Int /\ f[3] \in Int
      /\ f[4] \in Int /\ f[5] \in Int /\ f[6] \in Int /\ f[7] \in Int
      /\ f[8] \in Int /\ f[9] \in Int /\ f[10] \in Int /\ f[11] \in Int
  BY SMT DEF Twelve
<1>2. /\ s1 \in Int /\ s2 \in Int /\ s3 \in Int /\ s4 \in Int /\ s5 \in Int
      /\ s6 \in Int /\ s7 \in Int /\ s8 \in Int /\ s9 \in Int /\ s10 \in Int
  BY ONLY <1>1, SMT
<1>3. TotalOf12(f) = s5 + s10 BY DEF TotalOf12
<1>4. TotalOf12([i \in 0..11 |-> c * f[i]])
        = (c * f[0] + c * f[1] + c * f[2] + c * f[3] + c * f[4] + c * f[5])
          + (c * f[6] + c * f[7] + c * f[8] + c * f[9] + c * f[10]
             + c * f[11])
  BY SMT DEF TotalOf12
<1> HIDE DEF s1, s2, s3, s4, s5, s6, s7, s8, s9, s10
<1>5. c * (s5 + s10) = c * s5 + c * s10 BY <1>2, Distribute
<1>6. c * s5 = c * s4 + c * f[5] BY <1>1, <1>2, Distribute DEF s5
<1>7. c * s4 = c * s3 + c * f[4] BY <1>1, <1>2, Distribute DEF s4
<1>8. c * s3 = c * s2 + c * f[3] BY <1>1, <1>2, Distribute DEF s3
<1>9. c * s2 = c * s1 + c * f[2] BY <1>1, <1>2, Distribute DEF s2
<1>10. c * s1 = c * f[0] + c * f[1] BY <1>1, <1>2, Distribute DEF s1
<1>11. c * s10 = c * s9 + c * f[11] BY <1>1, <1>2, Distribute DEF s10
<1>12. c * s9 = c * s8 + c * f[10] BY <1>1, <1>2, Distribute DEF s9
<1>13. c * s8 = c * s7 + c * f[9] BY <1>1, <1>2, Distribute DEF s8
<1>14. c * s7 = c * s6 + c * f[8] BY <1>1, <1>2, Distribute DEF s7
<1>15. c * s6 = c * f[6] + c * f[7] BY <1>1, <1>2, Distribute DEF s6
<1> QED BY ONLY <1>3, <1>4, <1>5, <1>6, <1>7, <1>8, <1>9, <1>10, <1>11,
           <1>12, <1>13, <1>14, <1>15, Zenon

\* Totals of twenty-four.
LEMMA Total24Add ==
  ASSUME NEW f \in Wide, NEW g \in Wide
  PROVE /\ Total24(f) \in Int
        /\ Total24([i \in ScLimb |-> f[i] + g[i]]) = Total24(f) + Total24(g)
<1> DEFINE sum == [i \in ScLimb |-> f[i] + g[i]]
           low(h) == [i \in 0..11 |-> h[i]]
<1>1. /\ \A i \in 0..11 : i \in ScLimb /\ i + 12 \in ScLimb
      /\ \A i \in ScLimb : f[i] \in Int /\ g[i] \in Int
  BY SMT DEF ScLimb, Wide
<1>2. \A h : TotalOf12(h) = TotalOf12(low(h)) BY SMT DEF TotalOf12
<1>3. /\ low(sum) = [i \in 0..11 |-> low(f)[i] + low(g)[i]]
      /\ Upper(sum) = [i \in 0..11 |-> Upper(f)[i] + Upper(g)[i]]
  BY <1>1 DEF Upper
<1>4. /\ low(f) \in Twelve /\ low(g) \in Twelve
      /\ Upper(f) \in Twelve /\ Upper(g) \in Twelve
  BY <1>1 DEF Upper, Twelve
<1> HIDE DEF sum, low
<1>5. /\ TotalOf12(low(sum)) = TotalOf12(low(f)) + TotalOf12(low(g))
      /\ TotalOf12(Upper(sum)) = TotalOf12(Upper(f)) + TotalOf12(Upper(g))
      /\ TotalOf12(low(f)) \in Int /\ TotalOf12(low(g)) \in Int
      /\ TotalOf12(Upper(f)) \in Int /\ TotalOf12(Upper(g)) \in Int
  BY <1>3, <1>4, Total12Add
<1>6. \A h : Total24(h) = TotalOf12(low(h)) + TotalOf12(Upper(h))
  BY <1>2 DEF Total24
<1>7. \A a, b, c, d \in Int : (a + b) + (c + d) = (a + c) + (b + d) BY SMT
<1> QED BY <1>5, <1>6, <1>7 DEF sum

\* The number that limbs stand for is a number.
LEMMA ScNumberInt == ASSUME NEW s \in Wide PROVE ScNumber(s) \in Int
<1> DEFINE x == [k \in ScLimb |-> s[k] * Place(k)]
<1>1. \A a \in Int, b \in Nat : a * b \in Int BY SMT
<1>2. x \in Wide BY <1>1, PlaceNat DEF Wide
<1> HIDE DEF x
<1>3. Total24(x) \in Int BY <1>2, Total24Add
<1> QED BY <1>3 DEF ScNumber, x

\* A change in one limb changes the number by so many of its places.
LEMMA ScPut ==
  ASSUME NEW s \in Wide, NEW i \in ScLimb, NEW d \in Int
  PROVE /\ AddTo(s, i, d) \in Wide
        /\ ScNumber(AddTo(s, i, d)) = ScNumber(s) + d * Place(i)
<1> DEFINE t == AddTo(s, i, d)
           x == [k \in ScLimb |-> s[k] * Place(k)]
           y == [k \in ScLimb |-> t[k] * Place(k)]
           e == d * Place(i)
           o == [k \in ScLimb |-> IF k = i THEN e ELSE 0]
<1>1. \A k \in ScLimb : s[k] \in Int BY DEF Wide
<1>2. t \in Wide /\ t[i] = s[i] + d /\ \A k \in ScLimb : k # i => t[k] = s[k]
  BY <1>1 DEF Wide, AddTo
<1>3. \A a, b \in Int, c \in Nat : (a + b) * c = a * c + b * c BY SMT
<1>4. \A a \in Int, b \in Nat : a * b \in Int BY SMT
<1>5. \A k \in ScLimb : x[k] \in Int BY <1>1, <1>4, PlaceNat
<1>6. e \in Int BY <1>4, PlaceNat
<1>7. y[i] = x[i] + e BY <1>1, <1>2, <1>3, PlaceNat
<1>8. \A k \in ScLimb : k # i => y[k] = x[k] BY <1>2
<1>9. x \in Wide /\ o \in Wide BY <1>5, <1>6 DEF Wide
<1>10. Total24(o) = e
  <2> HIDE DEF e
  <2> QED BY <1>6, i \in ScLimb, SMTT(30)
          DEF ScLimb, Total24, TotalOf12, Upper
<1> HIDE DEF t, x, e
<1>11. y = [k \in ScLimb |-> x[k] + o[k]] BY <1>5, <1>6, <1>7, <1>8
<1> HIDE DEF y, o
<1>12. Total24(y) = Total24(x) + e /\ Total24(x) \in Int
  BY <1>9, <1>10, <1>11, Total24Add
<1> QED BY <1>2, <1>12 DEF ScNumber, t, x, y, e

\* The limbs after a fold (sc.c:82-90): the limb is worth the same number
\* modulo the order twelve limbs further down.
LEMMA ScFold ==
  ASSUME NEW s \in Wide, NEW n \in 12..23
  PROVE /\ FoldLimb(s, n) \in Wide
        /\ FoldLimb(s, n)[n] = 0
        /\ \A k \in 1..6 :
             FoldLimb(s, n)[n - 13 + k] = s[n - 13 + k] + s[n] * Delta[k]
        /\ \A j \in ScLimb : j # n /\ j \notin (n - 12)..(n - 7) =>
             FoldLimb(s, n)[j] = s[j]
        /\ ScNumber(FoldLimb(s, n))
             = ScNumber(s) - (s[n] * ScWorth[n - 12]) * ScOrder
<1> DEFINE e(k) == s[n] * Delta[k]
           s0 == AddTo(s, n, -s[n])
           s1 == AddTo(s0, n - 12, e(1))
           s2 == AddTo(s1, n - 11, e(2))
           s3 == AddTo(s2, n - 10, e(3))
           s4 == AddTo(s3, n - 9, e(4))
           s5 == AddTo(s4, n - 8, e(5))
           s6 == AddTo(s5, n - 7, e(6))
<1>1. /\ n \in ScLimb /\ n - 12 \in ScLimb /\ n - 11 \in ScLimb
      /\ n - 10 \in ScLimb /\ n - 9 \in ScLimb /\ n - 8 \in ScLimb
      /\ n - 7 \in ScLimb /\ n - 12 \in 0..11
      /\ n - 13 + 1 = n - 12 /\ n - 13 + 2 = n - 11 /\ n - 13 + 3 = n - 10
      /\ n - 13 + 4 = n - 9 /\ n - 13 + 5 = n - 8 /\ n - 13 + 6 = n - 7
      /\ n # n - 12 /\ n # n - 11 /\ n # n - 10 /\ n # n - 9 /\ n # n - 8
      /\ n # n - 7
  BY SMT DEF ScLimb
<1>2. s[n] \in Int /\ -s[n] \in Int /\ s[n] + (-s[n]) = 0
  BY <1>1, SMT DEF Wide
<1>3. \A k \in 1..6 : e(k) \in Int
  <2>1. \A a, b \in Int : a * b \in Int BY SMT
  <2> QED BY <1>2, <2>1, ScNat
<1>5. /\ e(1) \in Int /\ e(2) \in Int /\ e(3) \in Int /\ e(4) \in Int
      /\ e(5) \in Int /\ e(6) \in Int
  BY <1>3, SMT
<1> HIDE DEF e
<1>6. /\ s6 \in Wide
      /\ s6[n] = 0
      /\ s6[n - 12] = s[n - 12] + e(1) /\ s6[n - 11] = s[n - 11] + e(2)
      /\ s6[n - 10] = s[n - 10] + e(3) /\ s6[n - 9] = s[n - 9] + e(4)
      /\ s6[n - 8] = s[n - 8] + e(5) /\ s6[n - 7] = s[n - 7] + e(6)
      /\ \A j \in ScLimb : j # n /\ j \notin (n - 12)..(n - 7) => s6[j] = s[j]
  <2>1. /\ n - 12 # n - 11 /\ n - 12 # n - 10 /\ n - 12 # n - 9
        /\ n - 12 # n - 8 /\ n - 12 # n - 7 /\ n - 11 # n - 10
        /\ n - 11 # n - 9 /\ n - 11 # n - 8 /\ n - 11 # n - 7
        /\ n - 10 # n - 9 /\ n - 10 # n - 8 /\ n - 10 # n - 7
        /\ n - 9 # n - 8 /\ n - 9 # n - 7 /\ n - 8 # n - 7
    BY SMT
  <2>2. /\ s0 \in Wide /\ s0[n] = 0 /\ \A j \in ScLimb : j # n => s0[j] = s[j]
    BY <1>1, <1>2 DEF Wide, AddTo
  <2> HIDE DEF s0
  <2>3. /\ s1 \in Wide /\ s1[n - 12] = s0[n - 12] + e(1)
        /\ \A j \in ScLimb : j # n - 12 => s1[j] = s0[j]
    BY <1>1, <1>5, <2>2 DEF Wide, AddTo
  <2> HIDE DEF s1
  <2>4. /\ s2 \in Wide /\ s2[n - 11] = s1[n - 11] + e(2)
        /\ \A j \in ScLimb : j # n - 11 => s2[j] = s1[j]
    BY <1>1, <1>5, <2>3 DEF Wide, AddTo
  <2> HIDE DEF s2
  <2>5. /\ s3 \in Wide /\ s3[n - 10] = s2[n - 10] + e(3)
        /\ \A j \in ScLimb : j # n - 10 => s3[j] = s2[j]
    BY <1>1, <1>5, <2>4 DEF Wide, AddTo
  <2> HIDE DEF s3
  <2>6. /\ s4 \in Wide /\ s4[n - 9] = s3[n - 9] + e(4)
        /\ \A j \in ScLimb : j # n - 9 => s4[j] = s3[j]
    BY <1>1, <1>5, <2>5 DEF Wide, AddTo
  <2> HIDE DEF s4
  <2>7. /\ s5 \in Wide /\ s5[n - 8] = s4[n - 8] + e(5)
        /\ \A j \in ScLimb : j # n - 8 => s5[j] = s4[j]
    BY <1>1, <1>5, <2>6 DEF Wide, AddTo
  <2> HIDE DEF s5
  <2>8. /\ s6 \in Wide /\ s6[n - 7] = s5[n - 7] + e(6)
        /\ \A j \in ScLimb : j # n - 7 => s6[j] = s5[j]
    BY <1>1, <1>5, <2>7 DEF Wide, AddTo
  <2> HIDE DEF s6
  <2>9. \A j \in ScLimb : j \notin (n - 12)..(n - 7) =>
          /\ j # n - 12 /\ j # n - 11 /\ j # n - 10 /\ j # n - 9
          /\ j # n - 8 /\ j # n - 7
    BY SMT DEF ScLimb
  <2>10. /\ s6[n] = 0
         /\ \A j \in ScLimb : j # n /\ j \notin (n - 12)..(n - 7) =>
              s6[j] = s[j]
    BY ONLY <1>1, <2>2, <2>3, <2>4, <2>5, <2>6, <2>7, <2>8, <2>9
  <2>11. s6[n - 12] = s[n - 12] + e(1) /\ s6[n - 11] = s[n - 11] + e(2)
    BY ONLY <1>1, <2>1, <2>2, <2>3, <2>4, <2>5, <2>6, <2>7, <2>8
  <2>12. s6[n - 10] = s[n - 10] + e(3) /\ s6[n - 9] = s[n - 9] + e(4)
    BY ONLY <1>1, <2>1, <2>2, <2>3, <2>4, <2>5, <2>6, <2>7, <2>8
  <2>13. s6[n - 8] = s[n - 8] + e(5) /\ s6[n - 7] = s[n - 7] + e(6)
    BY ONLY <1>1, <2>1, <2>2, <2>3, <2>4, <2>5, <2>6, <2>7, <2>8
  <2> QED BY ONLY <2>8, <2>10, <2>11, <2>12, <2>13
<1>7. \A k \in 1..6 : s6[n - 13 + k] = s[n - 13 + k] + s[n] * Delta[k]
  <2>1. \A k \in 1..6 : k = 1 \/ k = 2 \/ k = 3 \/ k = 4 \/ k = 5 \/ k = 6
    BY SMT
  <2> HIDE DEF s6
  <2>2. \A k \in 1..6 : s6[n - 13 + k] = s[n - 13 + k] + e(k)
    BY ONLY <1>1, <1>6, <2>1
  <2> QED BY <2>2 DEF e
<1>4. FoldLimb(s, n) = s6
  <2> DEFINE z == FoldLimb(s, n)
  <2> HIDE DEF s6
  <2>1. z[n] = 0 BY <1>1 DEF FoldLimb
  <2>2. ASSUME NEW j \in ScLimb, j \in (n - 12)..(n - 7) PROVE z[j] = s6[j]
    <3>1. PICK k \in 1..6 : k = j - (n - 13) /\ j = n - 13 + k /\ j # n
      BY <2>2, SMT DEF ScLimb
    <3>2. z[j] = s[j] + s[n] * Delta[j - (n - 13)]
      BY ONLY <2>2, <3>1, Zenon DEF FoldLimb
    <3>3. s6[j] = s[j] + s[n] * Delta[k] BY <1>7, <3>1
    <3> QED BY ONLY <3>1, <3>2, <3>3, Zenon
  <2>3. ASSUME NEW j \in ScLimb, j # n, j \notin (n - 12)..(n - 7)
        PROVE  z[j] = s6[j]
    <3>1. z[j] = s[j] BY ONLY <2>3, Zenon DEF FoldLimb
    <3> QED BY <1>6, <2>3, <3>1
  <2>4. \A j \in ScLimb : z[j] = s6[j] BY <1>6, <2>1, <2>2, <2>3
  <2>5. z = [j \in ScLimb |-> z[j]] BY DEF FoldLimb
  <2>6. s6 = [j \in ScLimb |-> s6[j]] BY <1>6 DEF Wide
  <2> QED BY ONLY <2>4, <2>5, <2>6, Zenon
<1>8. ScNumber(s6) =
        ScNumber(s) + (-s[n]) * Place(n) + e(1) * Place(n - 12)
          + e(2) * Place(n - 11) + e(3) * Place(n - 10) + e(4) * Place(n - 9)
          + e(5) * Place(n - 8) + e(6) * Place(n - 7)
  <2>1. s0 \in Wide /\ ScNumber(s0) = ScNumber(s) + (-s[n]) * Place(n)
    <3>1. PICK d \in Int : d = -s[n] BY <1>2
    <3>2. AddTo(s, n, d) \in Wide
          /\ ScNumber(AddTo(s, n, d)) = ScNumber(s) + d * Place(n)
      BY <1>1, ScPut
    <3> QED BY ONLY <3>1, <3>2, Zenon
  <2> HIDE DEF s0
  <2>2. s1 \in Wide /\ ScNumber(s1) = ScNumber(s0) + e(1) * Place(n - 12)
    BY <1>1, <1>5, <2>1, ScPut
  <2> HIDE DEF s1
  <2>3. s2 \in Wide /\ ScNumber(s2) = ScNumber(s1) + e(2) * Place(n - 11)
    BY <1>1, <1>5, <2>2, ScPut
  <2> HIDE DEF s2
  <2>4. s3 \in Wide /\ ScNumber(s3) = ScNumber(s2) + e(3) * Place(n - 10)
    BY <1>1, <1>5, <2>3, ScPut
  <2> HIDE DEF s3
  <2>5. s4 \in Wide /\ ScNumber(s4) = ScNumber(s3) + e(4) * Place(n - 9)
    BY <1>1, <1>5, <2>4, ScPut
  <2> HIDE DEF s4
  <2>6. s5 \in Wide /\ ScNumber(s5) = ScNumber(s4) + e(5) * Place(n - 8)
    BY <1>1, <1>5, <2>5, ScPut
  <2> HIDE DEF s5
  <2>7. s6 \in Wide /\ ScNumber(s6) = ScNumber(s5) + e(6) * Place(n - 7)
    BY <1>1, <1>5, <2>6, ScPut
  <2> QED BY ONLY <2>1, <2>2, <2>3, <2>4, <2>5, <2>6, <2>7, Zenon
<1>9. /\ Place(n) = ScFull * ScWorth[n - 12]
      /\ Place(n - 12) = ScWorth[0] * ScWorth[n - 12]
      /\ Place(n - 11) = ScWorth[1] * ScWorth[n - 12]
      /\ Place(n - 10) = ScWorth[2] * ScWorth[n - 12]
      /\ Place(n - 9) = ScWorth[3] * ScWorth[n - 12]
      /\ Place(n - 8) = ScWorth[4] * ScWorth[n - 12]
      /\ Place(n - 7) = ScWorth[5] * ScWorth[n - 12]
  <2>1. /\ 0 \in 0..11 /\ 1 \in 0..11 /\ 2 \in 0..11 /\ 3 \in 0..11
        /\ 4 \in 0..11 /\ 5 \in 0..11 /\ ~(n < 12)
        /\ 0 + (n - 12) = n - 12 /\ 1 + (n - 12) = n - 11
        /\ 2 + (n - 12) = n - 10 /\ 3 + (n - 12) = n - 9
        /\ 4 + (n - 12) = n - 8 /\ 5 + (n - 12) = n - 7
    BY SMT
  <2>2. \A i \in 0..11 : Place(i + (n - 12)) = ScWorth[i] * ScWorth[n - 12]
    BY <1>1, PlaceProduct
  <2>3. Place(n) = ScFull * ScWorth[n - 12] BY <2>1 DEF Place
  <2> QED BY ONLY <2>1, <2>2, <2>3, Zenon
<1>10. PICK v \in Int, w \in Nat, f \in Nat, d1 \in Int, d2 \in Int,
            d3 \in Int, d4 \in Int, d5 \in Int, d6 \in Int, w0 \in Nat,
            w1 \in Nat, w2 \in Nat, w3 \in Nat, w4 \in Nat, w5 \in Nat,
            r \in Int :
         /\ v = s[n] /\ w = ScWorth[n - 12] /\ f = ScFull
         /\ d1 = Delta[1] /\ d2 = Delta[2] /\ d3 = Delta[3] /\ d4 = Delta[4]
         /\ d5 = Delta[5] /\ d6 = Delta[6] /\ w0 = ScWorth[0]
         /\ w1 = ScWorth[1] /\ w2 = ScWorth[2] /\ w3 = ScWorth[3]
         /\ w4 = ScWorth[4] /\ w5 = ScWorth[5] /\ r = ScNumber(s)
  <2>1. /\ 0 \in 0..11 /\ 1 \in 0..11 /\ 2 \in 0..11 /\ 3 \in 0..11
        /\ 4 \in 0..11 /\ 5 \in 0..11
        /\ 1 \in 1..6 /\ 2 \in 1..6 /\ 3 \in 1..6 /\ 4 \in 1..6 /\ 5 \in 1..6
        /\ 6 \in 1..6
    BY SMT
  <2>2. ScNumber(s) \in Int BY ScNumberInt
  <2> QED BY <1>1, <1>2, <2>1, <2>2, ScNat
<1>11. ScNumber(s6) =
         r + (-v) * (f * w) + (v * d1) * (w0 * w) + (v * d2) * (w1 * w)
           + (v * d3) * (w2 * w) + (v * d4) * (w3 * w) + (v * d5) * (w4 * w)
           + (v * d6) * (w5 * w)
  <2> HIDE DEF s6
  <2> QED BY ONLY <1>8, <1>9, <1>10, Zenon DEF e
<1>12. ScOrder = f - (d1 * w0 + d2 * w1 + d3 * w2 + d4 * w3 + d5 * w4
                        + d6 * w5)
  BY ONLY <1>10, Zenon DEF ScOrder, ScDelta
<1>13. \A d \in Int, a \in Nat : (v * d) * (a * w) = (v * w) * (d * a)
  BY SMT
<1>14. (-v) * (f * w) = -((v * w) * f) BY SMT
<1>15. PICK b \in Int : b = v * w BY SMT
<1>16. PICK p1 \in Int, p2 \in Int, p3 \in Int, p4 \in Int, p5 \in Int,
            p6 \in Int :
         /\ p1 = d1 * w0 /\ p2 = d2 * w1 /\ p3 = d3 * w2 /\ p4 = d4 * w3
         /\ p5 = d5 * w4 /\ p6 = d6 * w5
  BY SMT
<1>17. ScNumber(s6) =
         r + (-(b * f)) + b * p1 + b * p2 + b * p3 + b * p4 + b * p5 + b * p6
  <2>1. /\ (v * d1) * (w0 * w) = b * p1 /\ (v * d2) * (w1 * w) = b * p2
        /\ (v * d3) * (w2 * w) = b * p3 /\ (v * d4) * (w3 * w) = b * p4
        /\ (v * d5) * (w4 * w) = b * p5 /\ (v * d6) * (w5 * w) = b * p6
        /\ (-v) * (f * w) = -(b * f)
    BY ONLY <1>13, <1>14, <1>15, <1>16, d1 \in Int, d2 \in Int, d3 \in Int,
       d4 \in Int, d5 \in Int, d6 \in Int, w0 \in Nat, w1 \in Nat, w2 \in Nat,
       w3 \in Nat, w4 \in Nat, w5 \in Nat, ZenonT(30)
  <2> HIDE DEF s6
  <2> QED BY ONLY <1>11, <2>1, Zenon
<1>18. b * (f - (p1 + p2 + p3 + p4 + p5 + p6))
         = b * f - (b * p1 + b * p2 + b * p3 + b * p4 + b * p5 + b * p6)
  BY ONLY b \in Int, f \in Nat, p1 \in Int, p2 \in Int, p3 \in Int,
     p4 \in Int, p5 \in Int, p6 \in Int, SMT
<1>19. b * ScOrder
         = b * f - (b * p1 + b * p2 + b * p3 + b * p4 + b * p5 + b * p6)
  BY ONLY <1>12, <1>16, <1>18, Zenon
<1>20. ScNumber(s6) = r - b * ScOrder
  <2>1. PICK x \in Int, x1 \in Int, x2 \in Int, x3 \in Int, x4 \in Int,
             x5 \in Int, x6 \in Int :
          /\ x = b * f /\ x1 = b * p1 /\ x2 = b * p2 /\ x3 = b * p3
          /\ x4 = b * p4 /\ x5 = b * p5 /\ x6 = b * p6
    BY SMT
  <2>2. r + (-x) + x1 + x2 + x3 + x4 + x5 + x6
          = r - (x - (x1 + x2 + x3 + x4 + x5 + x6))
    BY SMT
  <2> HIDE DEF s6
  <2> QED BY ONLY <1>17, <1>19, <2>1, <2>2, Zenon
<1> HIDE DEF s6
<1> QED BY ONLY <1>4, <1>6, <1>7, <1>10, <1>15, <1>20, Zenon

\* The limbs after a carry (sc.c:140-152): what the limb holds is within the
\* span, and the number is the same.
LEMMA ScCarry ==
  ASSUME NEW s \in Wide, NEW i \in 0..22, NEW half \in Nat
  PROVE /\ CarryLimb(s, i, half) \in Wide
        /\ ScNumber(CarryLimb(s, i, half)) = ScNumber(s)
        /\ \A j \in ScLimb : j # i /\ j # i + 1 =>
             CarryLimb(s, i, half)[j] = s[j]
        /\ \E c \in Int :
             /\ CarryLimb(s, i, half)[i] = s[i] - c * ScSpan
             /\ CarryLimb(s, i, half)[i + 1] = s[i + 1] + c
             /\ -half <= s[i] - c * ScSpan /\ s[i] - c * ScSpan < ScSpan - half
<1> DEFINE c == (s[i] + half) \div ScSpan
<1>1. i \in ScLimb /\ i + 1 \in ScLimb /\ i # i + 1 BY SMT DEF ScLimb
<1>2. PICK x \in Int, p \in Nat : x = s[i] /\ p = ScSpan /\ p > 0
  BY <1>1, ScNat DEF Wide
<1>3. PICK y \in Int : y = x + half OBVIOUS
<1>4. /\ y \div p \in Int /\ y % p \in Nat /\ y % p < p
      /\ y = (y \div p) * p + (y % p)
  BY <1>2, Division
<1>5. c = y \div p BY ONLY <1>2, <1>3, Zenon
<1>6. c \in Int BY <1>4, <1>5
<1>7. PICK m \in Int : m = c * p BY <1>6, SMT
<1>8. PICK r \in Nat : r = y % p /\ r < p /\ y = m + r
  BY ONLY <1>4, <1>5, <1>7, Zenon
<1>9. -half <= x - m /\ x - m < p - half
  BY ONLY <1>3, <1>8, half \in Nat, x \in Int, m \in Int, r \in Nat,
     p \in Nat, y \in Int, SMT
<1> DEFINE s0 == AddTo(s, i + 1, c)
           s1 == AddTo(s0, i, -m)
<1>10. CarryLimb(s, i, half) = s1
  BY ONLY <1>2, <1>7, Zenon DEF CarryLimb
<1> HIDE DEF c
<1>11. -m \in Int OBVIOUS
<1>12. /\ s0[i + 1] = s[i + 1] + c
       /\ \A j \in ScLimb : j # i + 1 => s0[j] = s[j]
  BY <1>1, <1>6 DEF Wide, AddTo
<1>13. s0 \in Wide /\ ScNumber(s0) = ScNumber(s) + c * Place(i + 1)
  BY <1>1, <1>6, ScPut
<1> HIDE DEF s0
<1>21. PICK mm \in Int : mm = -m BY <1>11
<1>14. /\ s1[i] = s0[i] + (-m)
       /\ \A j \in ScLimb : j # i => s1[j] = s0[j]
  BY <1>1, <1>11, <1>13 DEF Wide, AddTo
<1>22. s1 \in Wide /\ ScNumber(s1) = ScNumber(s0) + (-m) * Place(i)
  <2>1. /\ AddTo(s0, i, mm) \in Wide
        /\ ScNumber(AddTo(s0, i, mm)) = ScNumber(s0) + mm * Place(i)
    BY <1>1, <1>13, ScPut
  <2> QED BY ONLY <1>21, <2>1, Zenon
<1> HIDE DEF s1
<1>15. x + (-m) = x - m OBVIOUS
<1>16. ScNumber(s1) = ScNumber(s)
  <2>1. PICK w \in Nat : w = Place(i) BY <1>1, PlaceNat
  <2>2. Place(i + 1) = w * p BY <1>2, <2>1, PlaceNext
  <2>3. (-m) * w + c * (w * p) = 0
    <3>1. (-(c * p)) * w + c * (w * p) = 0 BY <1>6, SMT
    <3> QED BY ONLY <1>7, <3>1, Zenon
  <2>4. PICK a \in Int, b \in Int, r0 \in Int :
          a = (-m) * w /\ b = c * (w * p) /\ r0 = ScNumber(s)
    <3>1. (-m) * w \in Int /\ c * (w * p) \in Int BY <1>6, SMT
    <3> QED BY <3>1, ScNumberInt
  <2>5. ScNumber(s1) = r0 + b + a
    BY ONLY <1>13, <1>22, <2>1, <2>2, <2>4, Zenon
  <2>6. a + b = 0 BY ONLY <2>3, <2>4, Zenon
  <2>7. r0 + b + a = r0 BY ONLY <2>6, a \in Int, b \in Int, r0 \in Int, SMT
  <2> QED BY ONLY <2>4, <2>5, <2>7, Zenon
<1>17. s[i] - c * ScSpan = x - m BY ONLY <1>2, <1>7, Zenon
<1>18. -half <= s[i] - c * ScSpan /\ s[i] - c * ScSpan < ScSpan - half
  BY ONLY <1>2, <1>9, <1>17, Zenon
<1>19. s1[i] = s[i] - c * ScSpan /\ s1[i + 1] = s[i + 1] + c
  BY ONLY <1>1, <1>2, <1>12, <1>14, <1>15, <1>17
<1>20. \A j \in ScLimb : j # i /\ j # i + 1 => s1[j] = s[j]
  BY ONLY <1>12, <1>14
<1> QED BY ONLY <1>6, <1>10, <1>16, <1>18, <1>19, <1>20, <1>22, Zenon
\* The limbs after each of the first n carries.
CarryPasses(s, limbs, half, n, a) ==
  /\ a \in [0..n -> Wide] /\ a[0] = s
  /\ \A i \in 1..n : a[i] = CarryLimb(a[i - 1], limbs[i], half)
  /\ ScNumber(a[n]) = ScNumber(s)

\* There are such limbs,
LEMMA CarryPassesExist ==
  ASSUME NEW s \in Wide, NEW limbs \in Seq(0..22), NEW half \in Nat
  PROVE \E a : CarryPasses(s, limbs, half, Len(limbs), a)
<1> DEFINE L == Len(limbs)
           S == {n \in Nat : n <= L => \E a : CarryPasses(s, limbs, half, n, a)}
<1>1. L \in Nat OBVIOUS
<1>2. \A n \in 1..L : limbs[n] \in 0..22 BY SMTT(30)
<1> HIDE DEF L
<1>3. 0 \in S
  <2> DEFINE a == [n \in 0..0 |-> s]
  <2>1. a[0] = s BY SMT
  <2>2. a \in [0..0 -> Wide] OBVIOUS
  <2>3. 1..0 = {} BY SMT
  <2> HIDE DEF a
  <2>4. CarryPasses(s, limbs, half, 0, a)
    BY <2>1, <2>2, <2>3, Zenon DEF CarryPasses
  <2> QED BY <2>4
<1>4. \A n \in Nat : n \in S => n + 1 \in S
  <2> SUFFICES ASSUME NEW n \in Nat, n \in S, n + 1 <= L
               PROVE \E b : CarryPasses(s, limbs, half, n + 1, b)
    OBVIOUS
  <2>1. PICK a : CarryPasses(s, limbs, half, n, a) BY <1>1, SMT
  <2>2. n + 1 \in 1..L /\ limbs[n + 1] \in 0..22 BY <1>1, <1>2, SMT
  <2> DEFINE next == CarryLimb(a[n], limbs[n + 1], half)
             b == [i \in 0..(n + 1) |-> IF i = n + 1 THEN next ELSE a[i]]
  <2>3. a[n] \in Wide BY <2>1, SMT DEF CarryPasses
  <2>4. next \in Wide /\ ScNumber(next) = ScNumber(a[n])
    BY <2>2, <2>3, ScCarry, ZenonT(30)
  <2> HIDE DEF next
  <2>5. b \in [0..(n + 1) -> Wide] BY <2>1, <2>4, SMT DEF CarryPasses
  <2>6. b[0] = s BY <2>1, SMT DEF CarryPasses
  <2>7. \A i \in 1..(n + 1) : b[i] = CarryLimb(b[i - 1], limbs[i], half)
    <3> SUFFICES ASSUME NEW i \in 1..(n + 1)
                 PROVE b[i] = CarryLimb(b[i - 1], limbs[i], half)
      OBVIOUS
    <3>1. i - 1 \in 0..n /\ i - 1 \in 0..(n + 1) /\ i - 1 # n + 1 BY SMT
    <3>2. b[i - 1] = a[i - 1] BY <3>1
    <3>3. CASE i = n + 1
      <4>1. b[i] = next /\ i - 1 = n BY <3>3, SMT
      <4> QED BY ONLY <3>2, <3>3, <4>1, Zenon DEF next
    <3>4. CASE i # n + 1
      <4>1. i \in 1..n /\ b[i] = a[i] BY <3>4, SMT
      <4>2. a[i] = CarryLimb(a[i - 1], limbs[i], half)
        BY <4>1, <2>1 DEF CarryPasses
      <4> QED BY ONLY <3>2, <4>1, <4>2, Zenon
    <3> QED BY <3>3, <3>4
  <2>8. b[n + 1] = next BY SMT
  <2>9. ScNumber(b[n + 1]) = ScNumber(s)
    BY <2>1, <2>4, <2>8, Zenon DEF CarryPasses
  <2> HIDE DEF b
  <2>10. CarryPasses(s, limbs, half, n + 1, b)
    BY <2>5, <2>6, <2>7, <2>9, Zenon DEF CarryPasses
  <2> QED BY <2>10
<1> HIDE DEF S
<1>5. Nat \subseteq S BY <1>3, <1>4, NatLeast
<1>6. L \in S BY <1>1, <1>5
<1> QED BY <1>1, <1>6 DEF S, L

\* and Carries computes them.
LEMMA CarriesAre ==
  ASSUME NEW s \in Wide, NEW limbs \in Seq(0..22), NEW half \in Nat
  PROVE \E a : /\ CarryPasses(s, limbs, half, Len(limbs), a)
               /\ Carries(s, limbs, half) = a[Len(limbs)]
<1> DEFINE L == Len(limbs)
           F(a) == [n \in 0..L |-> IF n = 0 THEN s
                                   ELSE CarryLimb(a[n - 1], limbs[n], half)]
           after == CHOOSE a : a = F(a)
<1>1. L \in Nat OBVIOUS
<1>2. Carries(s, limbs, half) = after[L] BY Zenon DEF Carries
<1>3. PICK a : CarryPasses(s, limbs, half, L, a) BY CarryPassesExist
<1>4. a = F(a)
  <2>1. \A n \in 0..L : a[n] = F(a)[n]
    <3> SUFFICES ASSUME NEW n \in 0..L PROVE a[n] = F(a)[n]
      OBVIOUS
    <3>1. F(a)[n] = IF n = 0 THEN s ELSE CarryLimb(a[n - 1], limbs[n], half)
      OBVIOUS
    <3>2. n # 0 => n \in 1..L BY <1>1, SMT
    <3> HIDE DEF F, L
    <3> QED BY <1>3, <3>1, <3>2 DEF CarryPasses
  <2>2. a \in [0..L -> Wide] BY <1>3 DEF CarryPasses
  <2> QED BY <2>1, <2>2
<1>5. after = F(after) BY <1>4
<1> HIDE DEF after
<1>6. \A n \in 0..L : after[n] = a[n]
  <2> DEFINE S == {n \in Nat : n <= L => after[n] = a[n]}
  <2>1. \A n \in 0..L : after[n] =
          IF n = 0 THEN s ELSE CarryLimb(after[n - 1], limbs[n], half)
    <3>1. \A n \in 0..L : F(after)[n] =
            IF n = 0 THEN s ELSE CarryLimb(after[n - 1], limbs[n], half)
      OBVIOUS
    <3> HIDE DEF F, L
    <3> QED BY <1>5, <3>1
  <2>2. 0 \in S
    <3>1. 0 \in 0..L BY <1>1, SMT
    <3> HIDE DEF L
    <3> QED BY <2>1, <3>1, <1>3 DEF CarryPasses
  <2>3. \A n \in Nat : n \in S => n + 1 \in S
    <3> HIDE DEF L
    <3> SUFFICES ASSUME NEW n \in Nat, n \in S, n + 1 <= L
                 PROVE after[n + 1] = a[n + 1]
      OBVIOUS
    <3>1. n + 1 \in 0..L /\ n + 1 # 0 /\ n + 1 \in 1..L /\ (n + 1) - 1 = n
          /\ n <= L
      BY <1>1, SMT
    <3>2. after[n + 1] = CarryLimb(after[n], limbs[n + 1], half)
      BY <2>1, <3>1
    <3>3. a[n + 1] = CarryLimb(a[n], limbs[n + 1], half)
      BY <1>3, <3>1 DEF CarryPasses
    <3>4. after[n] = a[n] BY <3>1
    <3> QED BY <3>2, <3>3, <3>4
  <2> HIDE DEF S
  <2>4. Nat \subseteq S BY <2>2, <2>3, NatLeast
  <2> HIDE DEF L
  <2>5. \A n \in 0..L : n \in Nat /\ n <= L BY <1>1, SMT
  <2> QED BY <2>4, <2>5 DEF S
<1>7. L \in 0..L BY <1>1, SMT
<1>8. after[L] = a[L] BY <1>6, <1>7
<1> QED BY <1>2, <1>3, <1>8

\* Carries keep the number.
LEMMA CarriesKeep ==
  ASSUME NEW s \in Wide, NEW limbs \in Seq(0..22), NEW half \in Nat
  PROVE /\ Carries(s, limbs, half) \in Wide
        /\ ScNumber(Carries(s, limbs, half)) = ScNumber(s)
<1>1. PICK a : /\ CarryPasses(s, limbs, half, Len(limbs), a)
               /\ Carries(s, limbs, half) = a[Len(limbs)]
  BY CarriesAre
<1>2. Len(limbs) \in 0..Len(limbs)
  <2>1. Len(limbs) \in Nat OBVIOUS
  <2> QED BY <2>1, SMT
<1> QED BY <1>1, <1>2 DEF CarryPasses

\* No limb of which one is carried into another.
Apart(limbs) ==
  \A a \in 1..Len(limbs), b \in 1..Len(limbs) :
    a # b => limbs[a] # limbs[b] /\ limbs[a] + 1 # limbs[b]

\* What a limb of at most m carries is at most k.
LEMMA CarryAtMost ==
  ASSUME NEW x \in Int, NEW half \in Nat, NEW m \in Nat, NEW k \in Nat,
         NEW c \in Int, -m <= x, x <= m, m + half <= k * ScSpan,
         -half <= x - c * ScSpan, x - c * ScSpan < ScSpan - half
  PROVE  -k <= c /\ c <= k
<1>1. PICK p \in Nat : p = ScSpan /\ p > 0 BY ScNat
<1>2. PICK y \in Int, z \in Nat : y = c * p /\ z = k * p
  <2>1. c * p \in Int /\ k * p \in Nat BY SMT
  <2> QED BY <2>1
<1>3. y <= x + half /\ x + half < y + p /\ m + half <= z
  <2>1. /\ -half <= x - y /\ x - y < p - half /\ m + half <= z
    BY ONLY <1>1, <1>2, m + half <= k * ScSpan, -half <= x - c * ScSpan,
       x - c * ScSpan < ScSpan - half, Zenon
  <2> QED BY ONLY <2>1, x \in Int, y \in Int, z \in Nat, half \in Nat,
             m \in Nat, p \in Nat, SMT
<1>4. y <= z /\ -(z + p) < y
  BY ONLY <1>3, -m <= x, x <= m, x \in Int, y \in Int, z \in Nat,
     half \in Nat, m \in Nat, p \in Nat, SMT
<1>5. \A i, j \in Int : i < j => i * p + p <= j * p
  <2>1. \A i, j \in Int : i < j => (i + 1) * p <= j * p
    <3>1. \A i, j \in Int : i <= j => i * p <= j * p BY <1>1, SMT
    <3>2. \A i, j \in Int : i < j => i + 1 <= j /\ i + 1 \in Int OBVIOUS
    <3> QED BY ONLY <3>1, <3>2
  <2>2. \A i \in Int : (i + 1) * p = i * p + p BY SMT
  <2> QED BY ONLY <2>1, <2>2
<1>6. c <= k
  <2> SUFFICES ASSUME k < c PROVE FALSE BY SMT
  <2>1. z + p <= y BY ONLY <1>2, <1>5, k < c, c \in Int, k \in Nat
  <2> QED BY ONLY <1>1, <1>4, <2>1, y \in Int, z \in Nat, p \in Nat, SMT
<1>7. -k <= c
  <2> SUFFICES ASSUME c < -k PROVE FALSE BY SMT
  <2>1. -k \in Int OBVIOUS
  <2>2. c * p + p <= (-k) * p BY <1>5, <2>1
  <2>3. (-k) * p = -(k * p) BY SMT
  <2>4. y + p <= -z BY ONLY <1>2, <2>2, <2>3, Zenon
  <2> QED BY ONLY <1>1, <1>4, <2>4, y \in Int, z \in Nat, p \in Nat, SMT
<1> QED BY <1>6, <1>7

\* What n carries out of limbs that are apart leave.
LeavesApart(s, limbs, half, k, n, t) ==
  /\ \A a \in 1..n : -half <= t[limbs[a]] /\ t[limbs[a]] < ScSpan - half
  /\ \A a \in 1..n : /\ s[limbs[a] + 1] - k <= t[limbs[a] + 1]
                     /\ t[limbs[a] + 1] <= s[limbs[a] + 1] + k
  /\ \A j \in ScLimb :
       (\A a \in 1..n : j # limbs[a] /\ j # limbs[a] + 1) => t[j] = s[j]

\* Carries out of limbs that are apart: these end up within the span, those
\* above grow by what is carried, and the others stay.
LEMMA CarriesApart ==
  ASSUME NEW s \in Wide, NEW limbs \in Seq(0..22), Apart(limbs),
         NEW half \in Nat,
         NEW m \in Nat, NEW k \in Nat, m + half <= k * ScSpan,
         \A a \in 1..Len(limbs) : -m <= s[limbs[a]] /\ s[limbs[a]] <= m
  PROVE LeavesApart(s, limbs, half, k, Len(limbs), Carries(s, limbs, half))
<1> DEFINE L == Len(limbs)
<1>1. \A n \in 1..L : limbs[n] \in 0..22 BY ONLY limbs \in Seq(0..22), SMTT(30)
<1>11. L \in Nat OBVIOUS
<1>2. L \in Nat /\ \A n \in 1..L : limbs[n] \in 0..22 BY ONLY <1>1, <1>11
<1>3. PICK r : /\ CarryPasses(s, limbs, half, L, r)
               /\ Carries(s, limbs, half) = r[L]
  BY CarriesAre
<1>4. \A x \in 1..L, y \in 1..L :
        x # y => limbs[x] # limbs[y] /\ limbs[x] + 1 # limbs[y]
  BY DEF Apart
<1>5. \A x \in 1..L : -m <= s[limbs[x]] /\ s[limbs[x]] <= m OBVIOUS
<1> HIDE DEF L
<1> DEFINE S == {n \in Nat : n <= L => LeavesApart(s, limbs, half, k, n, r[n])}
<1>6. 0 \in S
  <2>1. r[0] = s BY <1>3 DEF CarryPasses
  <2>2. 1..0 = {} BY SMT
  <2>3. LeavesApart(s, limbs, half, k, 0, s)
    BY ONLY <2>2, Zenon DEF LeavesApart
  <2> QED BY <2>1, <2>3
<1>7. \A n \in Nat : n \in S => n + 1 \in S
  <2> SUFFICES ASSUME NEW n \in Nat, n \in S, n + 1 <= L
               PROVE LeavesApart(s, limbs, half, k, n + 1, r[n + 1])
    OBVIOUS
  <2>1. /\ n <= L /\ n + 1 \in 1..L /\ (n + 1) - 1 = n /\ n \in 0..L
        /\ n + 1 \in 0..L
    BY <1>2, SMT
  <2>2. LeavesApart(s, limbs, half, k, n, r[n]) BY <2>1
  <2> DEFINE t == r[n]
             z == r[n + 1]
             i == limbs[n + 1]
  <2>3. t \in Wide BY <1>3, <2>1 DEF CarryPasses
  <2>4. i \in 0..22 /\ i \in ScLimb /\ i + 1 \in ScLimb /\ i # i + 1
    <3>1. i \in 0..22 BY <1>2, <2>1
    <3> HIDE DEF i
    <3> QED BY <3>1, SMT DEF ScLimb
  <2>5. z = CarryLimb(t, i, half) BY <1>3, <2>1 DEF CarryPasses
  <2>6. \A x \in 1..n : x \in 1..L /\ x # n + 1 BY <1>2, <2>1, SMT
  <2>7. t[i] = s[i] /\ -m <= s[i] /\ s[i] <= m /\ t[i + 1] = s[i + 1]
    <3>1. \A x \in 1..n : /\ limbs[x] # i /\ limbs[x] + 1 # i
                          /\ i + 1 # limbs[x]
      BY <1>4, <2>1, <2>6
    <3>2. \A x \in 1..n : i + 1 # limbs[x] + 1
      <4>1. \A x \in 1..n : limbs[x] \in 0..22 BY <1>2, <2>6
      <4>2. \A u, v \in 0..22 : u # v => v + 1 # u + 1 BY SMT
      <4> HIDE DEF i
      <4> QED BY ONLY <2>4, <3>1, <4>1, <4>2, Zenon
    <3>3. -m <= s[i] /\ s[i] <= m BY <1>5, <2>1
    <3> HIDE DEF i, t
    <3> QED BY <2>2, <2>4, <3>1, <3>2, <3>3, Zenon DEF LeavesApart, t
  <2>9. PICK c \in Int :
          /\ z[i] = t[i] - c * ScSpan /\ z[i + 1] = t[i + 1] + c
          /\ \A j \in ScLimb : j # i /\ j # i + 1 => z[j] = t[j]
          /\ -half <= t[i] - c * ScSpan /\ t[i] - c * ScSpan < ScSpan - half
    <3> HIDE DEF i, t, z
    <3> QED BY ONLY <2>3, <2>4, <2>5, ScCarry, half \in Nat
  <2>10. t[i] \in Int /\ t[i + 1] \in Int /\ -m <= t[i] /\ t[i] <= m
    <3> HIDE DEF i, t
    <3> QED BY <2>3, <2>4, <2>7 DEF Wide
  <2> HIDE DEF i, t, z
  <2>11. -k <= c /\ c <= k
    <3>1. PICK x \in Int : x = t[i] BY <2>10
    <3>2. -half <= x - c * ScSpan /\ x - c * ScSpan < ScSpan - half
          /\ -m <= x /\ x <= m
      BY ONLY <2>9, <2>10, <3>1, Zenon
    <3> QED BY <3>2, CarryAtMost
  <2>12. s[i + 1] - k <= z[i + 1] /\ z[i + 1] <= s[i + 1] + k
    <3>1. PICK y \in Int : y = s[i + 1] BY <2>7, <2>10
    <3>2. z[i + 1] = y + c BY ONLY <2>7, <2>9, <3>1, Zenon
    <3>3. y - k <= y + c /\ y + c <= y + k
      BY ONLY <2>9, <2>11, y \in Int, k \in Nat, SMT
    <3> QED BY ONLY <3>1, <3>2, <3>3, Zenon
  <2>13. -half <= z[i] /\ z[i] < ScSpan - half BY ONLY <2>9, Zenon
  <2>14. \A x \in 1..(n + 1) : x = n + 1 \/ x \in 1..n BY SMT
  <2>15. \A x \in 1..n : /\ limbs[x] # i /\ limbs[x] # i + 1
                         /\ limbs[x] + 1 # i /\ limbs[x] + 1 # i + 1
                         /\ limbs[x] \in ScLimb /\ limbs[x] + 1 \in ScLimb
    <3>1. \A x \in 1..n : /\ limbs[x] # i /\ limbs[x] + 1 # i
                          /\ limbs[x] # i + 1
      BY <1>4, <2>1, <2>6 DEF i
    <3>2. \A x \in 1..n : limbs[x] \in 0..22 BY <1>2, <2>6
    <3>3. \A u, v \in 0..22 :
            u # v => u + 1 # v + 1 /\ u \in ScLimb /\ u + 1 \in ScLimb
      BY SMT DEF ScLimb
    <3> QED BY ONLY <2>4, <3>1, <3>2, <3>3, Zenon
  <2>16. \A x \in 1..(n + 1) :
           -half <= z[limbs[x]] /\ z[limbs[x]] < ScSpan - half
    <3>1. \A x \in 1..n : -half <= t[limbs[x]] /\ t[limbs[x]] < ScSpan - half
      BY ONLY <2>2, Zenon DEF LeavesApart, t
    <3>2. \A x \in 1..n : z[limbs[x]] = t[limbs[x]]
      BY ONLY <2>9, <2>15, Zenon
    <3>3. \A x \in 1..n : -half <= z[limbs[x]] /\ z[limbs[x]] < ScSpan - half
      BY ONLY <3>1, <3>2, Zenon
    <3> QED BY ONLY <2>13, <2>14, <3>3, Zenon DEF i
  <2>17. \A x \in 1..(n + 1) : /\ s[limbs[x] + 1] - k <= z[limbs[x] + 1]
                               /\ z[limbs[x] + 1] <= s[limbs[x] + 1] + k
    <3>1. \A x \in 1..n : /\ s[limbs[x] + 1] - k <= t[limbs[x] + 1]
                          /\ t[limbs[x] + 1] <= s[limbs[x] + 1] + k
      BY ONLY <2>2, Zenon DEF LeavesApart, t
    <3>2. \A x \in 1..n : z[limbs[x] + 1] = t[limbs[x] + 1]
      BY ONLY <2>9, <2>15, Zenon
    <3>3. \A x \in 1..n : /\ s[limbs[x] + 1] - k <= z[limbs[x] + 1]
                          /\ z[limbs[x] + 1] <= s[limbs[x] + 1] + k
      BY ONLY <3>1, <3>2, Zenon
    <3> QED BY ONLY <2>12, <2>14, <3>3, Zenon DEF i
  <2>18. \A j \in ScLimb :
           (\A x \in 1..(n + 1) : j # limbs[x] /\ j # limbs[x] + 1)
             => z[j] = s[j]
    <3> SUFFICES ASSUME NEW j \in ScLimb,
                   \A x \in 1..(n + 1) : j # limbs[x] /\ j # limbs[x] + 1
                 PROVE z[j] = s[j]
      OBVIOUS
    <3>1. \A x \in 1..n : x \in 1..(n + 1) BY SMT
    <3>2. n + 1 \in 1..(n + 1) BY SMT
    <3>3. j # i /\ j # i + 1 BY <3>2 DEF i
    <3>4. z[j] = t[j] BY ONLY <2>9, <3>3, j \in ScLimb, Zenon
    <3>5. \A x \in 1..n : j # limbs[x] /\ j # limbs[x] + 1 BY <3>1
    <3>6. t[j] = s[j]
      BY ONLY <2>2, <3>5, j \in ScLimb, Zenon DEF LeavesApart, t
    <3> QED BY <3>4, <3>6
  <2> QED BY ONLY <2>16, <2>17, <2>18, Zenon DEF LeavesApart, z
<1> HIDE DEF S
<1>8. Nat \subseteq S BY <1>6, <1>7, NatLeast
<1>9. LeavesApart(s, limbs, half, k, L, r[L])
  <2>1. L \in S /\ L <= L BY <1>2, <1>8
  <2> QED BY <2>1 DEF S
<1> QED BY <1>3, <1>9 DEF L

\* Floors, from the lowest limb upwards: every limb passed holds a digit.
LEMMA FloorsAre ==
  ASSUME NEW s \in Wide, NEW upto \in 0..22
  PROVE /\ Floors(s, upto) \in Wide
        /\ ScNumber(Floors(s, upto)) = ScNumber(s)
        /\ \A j \in 0..upto :
             0 <= Floors(s, upto)[j] /\ Floors(s, upto)[j] < ScSpan
        /\ \A j \in ScLimb : j > upto + 1 => Floors(s, upto)[j] = s[j]
<1> DEFINE limbs == [n \in 1..(upto + 1) |-> n - 1]
<1>1. limbs \in Seq(0..22) /\ Len(limbs) = upto + 1
  <2>1. upto + 1 \in Nat OBVIOUS
  <2>2. \A n \in 1..(upto + 1) : n - 1 \in 0..22 BY SMT
  <2>3. limbs \in [1..(upto + 1) -> 0..22] BY <2>2
  <2> HIDE DEF limbs
  <2> QED BY <2>1, <2>3
<1>2. \A n \in 1..(upto + 1) : limbs[n] = n - 1 OBVIOUS
<1>3. Floors(s, upto) = Carries(s, limbs, 0) BY Zenon DEF Floors
<1> HIDE DEF limbs
<1>4. PICK r : /\ CarryPasses(s, limbs, 0, upto + 1, r)
               /\ Carries(s, limbs, 0) = r[upto + 1]
  BY <1>1, CarriesAre, 0 \in Nat
<1> DEFINE S == {n \in Nat : n <= upto + 1 =>
                   /\ \A j \in 0..(n - 1) : 0 <= r[n][j] /\ r[n][j] < ScSpan
                   /\ \A j \in ScLimb : j > n => r[n][j] = s[j]}
<1>5. 0 \in S
  <2>1. r[0] = s BY <1>4 DEF CarryPasses
  <2>2. 0..(0 - 1) = {} BY SMT
  <2> QED BY <2>1, <2>2
<1>6. \A n \in Nat : n \in S => n + 1 \in S
  <2> SUFFICES ASSUME NEW n \in Nat, n \in S, n + 1 <= upto + 1
               PROVE n + 1 \in S
    OBVIOUS
  <2>1. /\ n <= upto + 1 /\ n + 1 \in 1..(upto + 1) /\ (n + 1) - 1 = n
        /\ n \in 0..(upto + 1) /\ n \in 0..22 /\ n \in ScLimb
        /\ n + 1 \in ScLimb
    BY SMT DEF ScLimb
  <2> DEFINE t == r[n]
             z == r[n + 1]
  <2>2. t \in Wide BY <1>4, <2>1 DEF CarryPasses
  <2>3. z = CarryLimb(t, n, 0)
    <3>1. limbs[n + 1] = n BY <1>2, <2>1
    <3>2. r[n + 1] = CarryLimb(r[(n + 1) - 1], limbs[n + 1], 0)
      BY <1>4, <2>1 DEF CarryPasses
    <3> QED BY <2>1, <3>1, <3>2
  <2>4. /\ \A j \in 0..(n - 1) : 0 <= t[j] /\ t[j] < ScSpan
        /\ \A j \in ScLimb : j > n => t[j] = s[j]
    BY <2>1
  <2> HIDE DEF t, z
  <2>10. PICK zero \in Nat : zero = 0 OBVIOUS
  <2>6. PICK c \in Int :
        /\ z[n] = t[n] - c * ScSpan
        /\ \A j \in ScLimb : j # n /\ j # n + 1 => z[j] = t[j]
        /\ -zero <= t[n] - c * ScSpan /\ t[n] - c * ScSpan < ScSpan - zero
    <3>1. z = CarryLimb(t, n, zero) BY <2>3, <2>10
    <3> QED BY ONLY <2>1, <2>2, <3>1, ScCarry, ZenonT(30)
  <2>7. 0 <= z[n] /\ z[n] < ScSpan
    <3>1. PICK p \in Nat : p = ScSpan BY ScNat
    <3>2. PICK v \in Int : v = t[n] - c * ScSpan
      <4>1. PICK u \in Int : u = t[n] BY <2>1, <2>2 DEF Wide
      <4>2. u - c * p \in Int BY SMT
      <4> QED BY <3>1, <4>1, <4>2
    <3>3. -zero <= v /\ v < p - zero /\ z[n] = v
      BY ONLY <2>6, <3>1, <3>2, Zenon
    <3>4. 0 <= v /\ v < p
      BY ONLY <2>10, <3>3, v \in Int, p \in Nat, zero \in Nat, SMT
    <3> QED BY ONLY <3>1, <3>3, <3>4, Zenon
  <2>8. \A j \in 0..((n + 1) - 1) : 0 <= z[j] /\ z[j] < ScSpan
    <3>1. \A j \in 0..((n + 1) - 1) :
            j = n \/ (j \in 0..(n - 1) /\ j \in ScLimb /\ j # n /\ j # n + 1)
      BY <2>1, SMT DEF ScLimb
    <3> QED BY ONLY <2>4, <2>6, <2>7, <3>1, Zenon
  <2>9. \A j \in ScLimb : j > n + 1 => z[j] = s[j]
    <3>1. \A j \in ScLimb : j > n + 1 => j # n /\ j # n + 1 /\ j > n
      BY SMT DEF ScLimb
    <3> QED BY ONLY <2>4, <2>6, <3>1, Zenon
  <2> QED BY <2>8, <2>9 DEF z
<1> HIDE DEF S
<1>7. Nat \subseteq S BY <1>5, <1>6, NatLeast
<1>8. /\ \A j \in 0..upto : 0 <= r[upto + 1][j] /\ r[upto + 1][j] < ScSpan
      /\ \A j \in ScLimb : j > upto + 1 => r[upto + 1][j] = s[j]
  <2>1. upto + 1 \in S /\ upto + 1 <= upto + 1 /\ (upto + 1) - 1 = upto
    BY <1>7
  <2> QED BY <2>1 DEF S
<1>9. /\ Carries(s, limbs, 0) \in Wide
      /\ ScNumber(Carries(s, limbs, 0)) = ScNumber(s)
  BY <1>1, CarriesKeep, 0 \in Nat
<1> QED BY ONLY <1>3, <1>4, <1>8, <1>9, Zenon

\* a and b are the same modulo the order.
ScSame(a, b) == \E k \in Int : a = b + k * ScOrder

\* Equality modulo the order is transitive.
LEMMA ScSameTrans ==
  ASSUME NEW a \in Int, NEW b \in Int, NEW c \in Int,
         ScSame(a, b), ScSame(b, c)
  PROVE ScSame(a, c)
<1>1. PICK p \in Nat : p = ScOrder BY ScNat
<1>2. PICK k \in Int : a = b + k * p BY <1>1 DEF ScSame
<1>3. PICK m \in Int : b = c + m * p BY <1>1 DEF ScSame
<1>4. a = c + (m + k) * p
  BY ONLY <1>2, <1>3, a \in Int, b \in Int, c \in Int, k \in Int, m \in Int,
  p \in Nat, SMT
<1>5. m + k \in Int OBVIOUS
<1> QED BY <1>1, <1>4, <1>5 DEF ScSame

\* Factors within bounds have a product within the bounds' product.
LEMMA ProductWithin ==
  ASSUME NEW a \in Int, NEW b \in Int, NEW d \in Nat, NEW e \in Nat,
         -d <= a, a <= d, -e <= b, b <= e
  PROVE  -(d * e) <= a * b /\ a * b <= d * e
<1>1. \A x, y \in Nat : x <= d /\ y <= e => x * y <= d * e /\ x * y \in Nat
  <2> SUFFICES ASSUME NEW x \in Nat, NEW y \in Nat, x <= d, y <= e
               PROVE x * y <= d * e /\ x * y \in Nat
    OBVIOUS
  <2>1. x * y <= d * y BY SMT
  <2>2. d * y <= d * e BY SMT
  <2>3. x * y \in Nat /\ d * y \in Nat /\ d * e \in Nat BY SMT
  <2> QED BY <2>1, <2>2, <2>3
<1>2. d * e \in Nat BY SMT
<1>3. CASE a >= 0 /\ b >= 0
  <2>1. a \in Nat /\ b \in Nat BY <1>3
  <2>2. a * b <= d * e /\ a * b \in Nat BY <1>1, <2>1
  <2> QED BY <1>2, <2>2
<1>4. CASE a < 0 /\ b >= 0
  <2>1. PICK x \in Nat : x = -a /\ a = -x /\ x <= d BY <1>4
  <2>2. b \in Nat BY <1>4
  <2>3. x * b <= d * e /\ x * b \in Nat BY <1>1, <2>1, <2>2
  <2>4. a * b = -(x * b) BY <2>1, SMT
  <2> QED BY <1>2, <2>3, <2>4
<1>5. CASE a >= 0 /\ b < 0
  <2>1. PICK y \in Nat : y = -b /\ b = -y /\ y <= e BY <1>5
  <2>2. a \in Nat BY <1>5
  <2>3. a * y <= d * e /\ a * y \in Nat BY <1>1, <2>1, <2>2
  <2>4. a * b = -(a * y) BY <2>1, SMT
  <2> QED BY <1>2, <2>3, <2>4
<1>6. CASE a < 0 /\ b < 0
  <2>1. PICK x \in Nat : x = -a /\ a = -x /\ x <= d BY <1>6
  <2>2. PICK y \in Nat : y = -b /\ b = -y /\ y <= e BY <1>6
  <2>3. x * y <= d * e /\ x * y \in Nat BY <1>1, <2>1, <2>2
  <2>4. a * b = x * y BY <2>1, <2>2, SMT
  <2> QED BY <1>2, <2>3, <2>4
<1> QED BY <1>3, <1>4, <1>5, <1>6

\* What n folds of the limbs up from limb l leave: these are gone, those below
\* the seventh from the top change by at most n times g.
FoldedFrom(s, l, g, n, t) ==
  /\ t \in Wide /\ ScSame(ScNumber(t), ScNumber(s))
  /\ \A j \in ScLimb :
       j <= l - 7 => s[j] - n * g <= t[j] /\ t[j] <= s[j] + n * g
  /\ \A j \in ScLimb : l - 7 < j /\ (j <= l - n \/ j > l) => t[j] = s[j]
  /\ \A j \in ScLimb : l - n < j /\ j <= l => t[j] = 0

\* One more limb is folded, and the limbs it goes to grow by no more than it
\* times a digit of the order.
LEMMA FoldOnce ==
  ASSUME NEW s \in Wide, NEW l \in {17, 23}, NEW g \in Nat, NEW n \in 0..5,
         NEW t, FoldedFrom(s, l, g, n, t),
         \A k \in 1..6 : -g <= s[l - n] * Delta[k] /\ s[l - n] * Delta[k] <= g
  PROVE  FoldedFrom(s, l, g, n + 1, FoldLimb(t, l - n))
<1> DEFINE i == l - n
           z == FoldLimb(t, i)
<1>1. i \in 12..23 /\ i \in ScLimb /\ i - 12 \in 0..11 BY SMT DEF ScLimb
<1>2. t \in Wide /\ t[i] = s[i]
  <2>1. t \in Wide BY DEF FoldedFrom
  <2>2. l - 7 < i /\ i <= l - n BY SMT
  <2>3. i \in ScLimb BY <1>1
  <2> HIDE DEF i
  <2> QED BY <2>1, <2>2, <2>3 DEF FoldedFrom
<1>3. \A k \in 1..6 : -g <= s[i] * Delta[k] /\ s[i] * Delta[k] <= g OBVIOUS
<1> HIDE DEF i
<1>4. /\ z \in Wide /\ z[i] = 0
      /\ \A k \in 1..6 : z[i - 13 + k] = t[i - 13 + k] + t[i] * Delta[k]
      /\ \A j \in ScLimb : j # i /\ j \notin (i - 12)..(i - 7) => z[j] = t[j]
      /\ ScNumber(z) = ScNumber(t) - (t[i] * ScWorth[i - 12]) * ScOrder
  BY <1>1, <1>2, ScFold
<1> HIDE DEF z
<1>5. ScSame(ScNumber(z), ScNumber(s))
  <2>1. ScNumber(z) \in Int /\ ScNumber(t) \in Int /\ ScNumber(s) \in Int
    BY <1>2, <1>4, ScNumberInt
  <2>2. PICK a \in Int, w \in Nat, p \in Nat, u \in Int :
          a = t[i] /\ w = ScWorth[i - 12] /\ p = ScOrder /\ u = ScNumber(t)
    BY <1>1, <1>2, <2>1, ScNat DEF Wide
  <2>3. PICK k \in Int : k = -(a * w)
    <3>1. -(a * w) \in Int BY SMT
    <3> QED BY <3>1
  <2>4. u - (a * w) * p = u + (-(a * w)) * p BY SMT
  <2>5. ScNumber(z) = u + k * p BY ONLY <1>4, <2>2, <2>3, <2>4, Zenon
  <2>6. ScSame(ScNumber(z), ScNumber(t)) BY <2>2, <2>5 DEF ScSame
  <2>7. ScSame(ScNumber(t), ScNumber(s)) BY DEF FoldedFrom
  <2> QED BY <2>1, <2>6, <2>7, ScSameTrans
<1>6. PICK m \in Nat : m = n * g /\ (n + 1) * g = m + g
  <2>1. n * g \in Nat /\ (n + 1) * g = n * g + g BY SMT
  <2> QED BY <2>1
<1>7. \A j \in ScLimb : s[j] \in Int /\ t[j] \in Int
  BY <1>2 DEF Wide
<1>8. \A j \in ScLimb : j <= l - 7 => s[j] - m <= t[j] /\ t[j] <= s[j] + m
  BY ONLY <1>6, FoldedFrom(s, l, g, n, t), Zenon DEF FoldedFrom
<1>9. ASSUME NEW j \in ScLimb, j <= l - 7
      PROVE s[j] - (n + 1) * g <= z[j] /\ z[j] <= s[j] + (n + 1) * g
  <2>1. j # i BY <1>9, SMT DEF i
  <2>2. PICK x \in Int, y \in Int : x = s[j] /\ y = t[j] /\ x - m <= y
                                    /\ y <= x + m
    BY <1>7, <1>8, <1>9
  <2>3. CASE j \in (i - 12)..(i - 7)
    <3>1. PICK k \in 1..6 : j = i - 13 + k
      <4>1. j - i + 13 \in 1..6 /\ j = i - 13 + (j - i + 13)
        BY <1>1, <2>3, SMT
      <4> QED BY <4>1
    <3>2. z[j] = y + s[i] * Delta[k] BY <1>2, <1>4, <2>2, <3>1
    <3>3. PICK v \in Int : v = s[i] * Delta[k]
      <4>1. \A a, b \in Int : a * b \in Int BY SMT
      <4> QED BY <1>1, <1>7, <4>1, ScNat
    <3>4. -g <= v /\ v <= g BY <1>3, <3>3
    <3>5. x - (m + g) <= y + v /\ y + v <= x + (m + g)
      BY ONLY <2>2, <3>4, x \in Int, y \in Int, v \in Int, m \in Nat,
         g \in Nat, SMT
    <3> QED BY ONLY <1>6, <2>2, <3>2, <3>3, <3>5, Zenon
  <2>4. CASE j \notin (i - 12)..(i - 7)
    <3>1. z[j] = y BY <1>4, <2>1, <2>2, <2>4
    <3>2. x - (m + g) <= y /\ y <= x + (m + g)
      BY ONLY <2>2, x \in Int, y \in Int, m \in Nat, g \in Nat, SMT
    <3> QED BY ONLY <1>6, <2>2, <3>1, <3>2, Zenon
  <2> QED BY <2>3, <2>4
<1>10. ASSUME NEW j \in ScLimb, l - 7 < j, j <= l - (n + 1) \/ j > l
       PROVE z[j] = s[j]
  <2>1. j # i /\ j \notin (i - 12)..(i - 7) /\ (j <= l - n \/ j > l)
    BY <1>10, SMT DEF i, ScLimb
  <2>2. z[j] = t[j] BY <1>4, <2>1
  <2>3. t[j] = s[j]
    BY ONLY <2>1, <1>10, FoldedFrom(s, l, g, n, t), j \in ScLimb, Zenon
       DEF FoldedFrom
  <2> QED BY <2>2, <2>3
<1>11. ASSUME NEW j \in ScLimb, l - (n + 1) < j, j <= l
       PROVE z[j] = 0
  <2>1. CASE j = i BY <1>4, <2>1
  <2>2. CASE j # i
    <3>1. l - n < j /\ j \notin (i - 12)..(i - 7)
      BY <1>11, <2>2, SMT DEF i, ScLimb
    <3>2. z[j] = t[j] BY <1>4, <2>2, <3>1
    <3>3. t[j] = 0
      BY ONLY <3>1, <1>11, FoldedFrom(s, l, g, n, t), j \in ScLimb, Zenon
         DEF FoldedFrom
    <3> QED BY <3>2, <3>3
  <2> QED BY <2>1, <2>2
<1> QED BY <1>4, <1>5, <1>9, <1>10, <1>11 DEF FoldedFrom, z, i

\* The folds of sc_reduce and sc_muladd: the number stays the same modulo the
\* order, and the lower limbs grow by no more than six products.
LEMMA FoldSixAre ==
  ASSUME NEW s \in Wide, NEW l \in {17, 23}, NEW g \in Nat,
         \A j \in ScLimb : l - 6 < j /\ j <= l =>
           \A k \in 1..6 : -g <= s[j] * Delta[k] /\ s[j] * Delta[k] <= g
  PROVE  FoldedFrom(s, l, g, 6, FoldSix(s, l))
<1>1. \A n \in 0..5 : \A k \in 1..6 :
        -g <= s[l - n] * Delta[k] /\ s[l - n] * Delta[k] <= g
  <2>1. \A n \in 0..5 : l - n \in ScLimb /\ l - 6 < l - n /\ l - n <= l
    BY SMT DEF ScLimb
  <2> QED BY <2>1
<1>2. FoldedFrom(s, l, g, 0, s)
  <2>1. ScSame(ScNumber(s), ScNumber(s))
    <3>1. PICK x \in Int : x = ScNumber(s) BY ScNumberInt
    <3>2. PICK p \in Nat : p = ScOrder BY ScNat
    <3>3. x = x + 0 * p BY SMT
    <3> QED BY ONLY <3>1, <3>2, <3>3, 0 \in Int DEF ScSame
  <2>2. \A j \in ScLimb : s[j] - 0 * g <= s[j] /\ s[j] <= s[j] + 0 * g
    <3>1. 0 * g = 0 BY SMT
    <3>2. \A j \in ScLimb : s[j] \in Int BY DEF Wide
    <3>3. \A x \in Int : x - 0 <= x /\ x <= x + 0 OBVIOUS
    <3> QED BY ONLY <3>1, <3>2, <3>3, Zenon
  <2>3. \A j \in ScLimb : ~(l - 0 < j /\ j <= l) BY SMT DEF ScLimb
  <2> QED BY <2>1, <2>2, <2>3 DEF FoldedFrom
<1> DEFINE s1 == FoldLimb(s, l)
           s2 == FoldLimb(s1, l - 1)
           s3 == FoldLimb(s2, l - 2)
           s4 == FoldLimb(s3, l - 3)
           s5 == FoldLimb(s4, l - 4)
           s6 == FoldLimb(s5, l - 5)
<1>3. FoldSix(s, l) = s6 BY DEF FoldSix
<1>4. /\ 0 \in 0..5 /\ 1 \in 0..5 /\ 2 \in 0..5 /\ 3 \in 0..5 /\ 4 \in 0..5
      /\ 5 \in 0..5 /\ 0 + 1 = 1 /\ 1 + 1 = 2 /\ 2 + 1 = 3 /\ 3 + 1 = 4
      /\ 4 + 1 = 5 /\ 5 + 1 = 6 /\ l - 0 = l
  BY SMT
<1> HIDE DEF s1, s2, s3, s4, s5, s6
<1>5. FoldedFrom(s, l, g, 1, s1)
  <2>1. FoldedFrom(s, l, g, 0 + 1, FoldLimb(s, l - 0))
    BY <1>1, <1>2, <1>4, FoldOnce
  <2> QED BY ONLY <1>4, <2>1, Zenon DEF s1
<1>6. FoldedFrom(s, l, g, 2, s2)
  <2>1. FoldedFrom(s, l, g, 1 + 1, FoldLimb(s1, l - 1))
    BY <1>1, <1>4, <1>5, FoldOnce
  <2> QED BY ONLY <1>4, <2>1, Zenon DEF s2
<1>7. FoldedFrom(s, l, g, 3, s3)
  <2>1. FoldedFrom(s, l, g, 2 + 1, FoldLimb(s2, l - 2))
    BY <1>1, <1>4, <1>6, FoldOnce
  <2> QED BY ONLY <1>4, <2>1, Zenon DEF s3
<1>8. FoldedFrom(s, l, g, 4, s4)
  <2>1. FoldedFrom(s, l, g, 3 + 1, FoldLimb(s3, l - 3))
    BY <1>1, <1>4, <1>7, FoldOnce
  <2> QED BY ONLY <1>4, <2>1, Zenon DEF s4
<1>9. FoldedFrom(s, l, g, 5, s5)
  <2>1. FoldedFrom(s, l, g, 4 + 1, FoldLimb(s4, l - 4))
    BY <1>1, <1>4, <1>8, FoldOnce
  <2> QED BY ONLY <1>4, <2>1, Zenon DEF s5
<1>10. FoldedFrom(s, l, g, 6, s6)
  <2>1. FoldedFrom(s, l, g, 5 + 1, FoldLimb(s5, l - 5))
    BY <1>1, <1>4, <1>9, FoldOnce
  <2> QED BY ONLY <1>4, <2>1, Zenon DEF s6
<1> QED BY <1>3, <1>10

\* Every second limb from p on, n of them.
EverySecond(limbs, p, n) ==
  Len(limbs) = n /\ \A a \in 1..n : limbs[a] = p + 2 * a - 2

\* No two carries of one sweep over every second limb touch the same limb.
LEMMA EverySecondApart ==
  ASSUME NEW limbs \in Seq(0..22), NEW p \in Int, NEW n \in Nat,
         EverySecond(limbs, p, n)
  PROVE Apart(limbs)
<1>1. Len(limbs) = n /\ \A a \in 1..n : limbs[a] = p + 2 * a - 2
  BY DEF EverySecond
<1>2. ASSUME NEW a \in 1..n, NEW b \in 1..n, a # b
      PROVE  limbs[a] # limbs[b] /\ limbs[a] + 1 # limbs[b]
  <2>1. PICK u \in Int, v \in Int : u = limbs[a] /\ v = limbs[b]
                                  /\ u = p + 2 * a - 2 /\ v = p + 2 * b - 2
    BY ONLY <1>1, a \in 1..n, b \in 1..n, p \in Int, SMT
  <2>2. u # v /\ u + 1 # v
    BY ONLY <1>2, <2>1, a \in 1..n, b \in 1..n, p \in Int, SMT
  <2> QED BY ONLY <2>1, <2>2, Zenon
<1> QED BY ONLY <1>1, <1>2, Zenon DEF Apart

\* Within m, whatever the sign.
Within0(x, m) == -m <= x /\ x <= m

\* What rounding the even limbs from p on and then the odd ones leaves: l even
\* limbs, n odd ones, of which the first carry at most k and the others r.
RoundedTwice(s, p, l, n, h, k, r, t) ==
  /\ t \in Wide /\ ScNumber(t) = ScNumber(s)
  /\ Within0(t[p], h)
  /\ \A a \in 1..n : Within0(t[p + 2 * a - 1], h)
  /\ \A a \in 1..(l - 1) : Within0(t[p + 2 * a], h + r)
  /\ n = l - 1 => Within0(t[p + 2 * l - 1] - s[p + 2 * l - 1], k)
  /\ n = l => Within0(t[p + 2 * l] - s[p + 2 * l], r)
  /\ \A j \in ScLimb : j < p \/ j > p + l + n => t[j] = s[j]

\* Two sweeps of rounded carries, over the even limbs and then the odd ones or
\* the other way around, leave half a span and a small carry in each limb.
LEMMA RoundsTwice ==
  ASSUME NEW s \in Wide, NEW p \in 0..6, NEW l \in 1..12, NEW n \in 1..12,
         n = l \/ n = l - 1, p + l + n <= 23,
         NEW first \in Seq(0..22), EverySecond(first, p, l),
         NEW second \in Seq(0..22), EverySecond(second, p + 1, n),
         NEW h \in Nat, ScSpan = 2 * h, NEW m \in Nat, NEW k \in Nat,
         NEW r \in Nat, m + h <= k * ScSpan, m + k + h <= r * ScSpan,
         \A j \in ScLimb : p <= j /\ j < p + l + n => Within0(s[j], m)
  PROVE RoundedTwice(s, p, l, n, h, k, r, Rounds(Rounds(s, first), second))
<1> DEFINE e == Carries(s, first, h)
           t == Carries(e, second, h)
<1>1. ScSpan \div 2 = h BY SMT
<1>2. Rounds(Rounds(s, first), second) = t BY <1>1 DEF Rounds
<1>3. Apart(first) /\ Apart(second)
  <2>1. p \in Int /\ p + 1 \in Int /\ l \in Nat /\ n \in Nat OBVIOUS
  <2> QED BY <2>1, EverySecondApart
<1>4. /\ Len(first) = l /\ \A a \in 1..l : first[a] = p + 2 * a - 2
      /\ Len(second) = n /\ \A a \in 1..n : second[a] = p + 1 + 2 * a - 2
  BY DEF EverySecond
<1>5. \A a \in 1..l : -m <= s[first[a]] /\ s[first[a]] <= m
  <2>1. \A a \in 1..l : p + 2 * a - 2 \in ScLimb /\ p <= p + 2 * a - 2
                        /\ p + 2 * a - 2 < p + l + n
    BY SMTT(30) DEF ScLimb
  <2> QED BY <1>4, <2>1, Zenon DEF Within0
<1>6. LeavesApart(s, first, h, k, l, e)
  <2>1. \A a \in 1..Len(first) : -m <= s[first[a]] /\ s[first[a]] <= m
    BY ONLY <1>4, <1>5, Zenon
  <2>2. LeavesApart(s, first, h, k, Len(first), Carries(s, first, h))
    BY <1>3, <2>1, CarriesApart
  <2> QED BY ONLY <1>4, <2>2, Zenon
<1>7. e \in Wide /\ ScNumber(e) = ScNumber(s) BY CarriesKeep
<1> HIDE DEF e
<1>8. ScSpan - h = h BY SMT
<1>9. /\ \A a \in 1..l : Within0(e[p + 2 * a - 2], h)
      /\ \A a \in 1..l : /\ s[p + 2 * a - 1] - k <= e[p + 2 * a - 1]
                         /\ e[p + 2 * a - 1] <= s[p + 2 * a - 1] + k
      /\ \A j \in ScLimb : j < p \/ j > p + 2 * l - 1 => e[j] = s[j]
  <2>1. \A a \in 1..l : /\ p + 2 * a - 2 + 1 = p + 2 * a - 1
                        /\ p + 2 * a - 2 \in ScLimb
    BY SMT DEF ScLimb
  <2>2. \A a \in 1..l : -h <= e[p + 2 * a - 2] /\ e[p + 2 * a - 2] < h
    BY ONLY <1>4, <1>6, <1>8, Zenon DEF LeavesApart
  <2>3. \A a \in 1..l : Within0(e[p + 2 * a - 2], h)
    <3>1. \A x \in Int : x < h => x <= h OBVIOUS
    <3>2. \A a \in 1..l : e[p + 2 * a - 2] \in Int BY <1>7, <2>1 DEF Wide
    <3> QED BY ONLY <2>2, <3>1, <3>2, Zenon DEF Within0
  <2>4. \A a \in 1..l : /\ s[p + 2 * a - 1] - k <= e[p + 2 * a - 1]
                        /\ e[p + 2 * a - 1] <= s[p + 2 * a - 1] + k
    BY ONLY <1>4, <1>6, <2>1, Zenon DEF LeavesApart
  <2>5. \A j \in ScLimb : j < p \/ j > p + 2 * l - 1 =>
          \A a \in 1..l : j # p + 2 * a - 2 /\ j # p + 2 * a - 2 + 1
    BY SMT DEF ScLimb
  <2>6. \A j \in ScLimb : j < p \/ j > p + 2 * l - 1 => e[j] = s[j]
    <3>1. ASSUME NEW j \in ScLimb, j < p \/ j > p + 2 * l - 1
          PROVE  \A a \in 1..l : j # first[a] /\ j # first[a] + 1
      <4>1. ASSUME NEW a \in 1..l
            PROVE  j # first[a] /\ j # first[a] + 1
        <5>1. j # p + 2 * a - 2 /\ j # p + 2 * a - 2 + 1
          BY ONLY <2>5, <3>1, j \in ScLimb, a \in 1..l, Zenon
        <5>2. first[a] = p + 2 * a - 2 BY ONLY <1>4, a \in 1..l, Zenon
        <5> QED BY ONLY <5>1, <5>2, Zenon
      <4> QED BY ONLY <4>1, Zenon
    <3> QED BY ONLY <1>6, <3>1, Zenon DEF LeavesApart
  <2> QED BY <2>3, <2>4, <2>6
<1>10. \A j \in ScLimb : s[j] \in Int /\ e[j] \in Int BY <1>7 DEF Wide
<1>11. \A a \in 1..n : a \in 1..l BY SMT
<1>12. \A a \in 1..n : -(m + k) <= e[second[a]] /\ e[second[a]] <= m + k
  <2> SUFFICES ASSUME NEW a \in 1..n
               PROVE -(m + k) <= e[second[a]] /\ e[second[a]] <= m + k
    OBVIOUS
  <2>1. /\ p + 2 * a - 1 \in ScLimb /\ p <= p + 2 * a - 1
        /\ p + 2 * a - 1 < p + l + n /\ p + 1 + 2 * a - 2 = p + 2 * a - 1
    BY SMT DEF ScLimb
  <2>2. PICK j \in ScLimb : j = p + 2 * a - 1 BY <2>1
  <2>3. PICK x \in Int, y \in Int : x = s[j] /\ y = e[j] BY <1>10
  <2>4. x - k <= y /\ y <= x + k BY ONLY <1>9, <1>11, <2>2, <2>3, Zenon
  <2>5. -m <= x /\ x <= m
    <3>1. Within0(s[j], m) BY <2>1, <2>2
    <3> QED BY ONLY <2>3, <3>1, Zenon DEF Within0
  <2>6. -(m + k) <= y /\ y <= m + k
    BY ONLY <2>4, <2>5, x \in Int, y \in Int, m \in Nat, k \in Nat, SMT
  <2>7. second[a] = j BY <1>4, <2>1, <2>2
  <2> QED BY <2>3, <2>6, <2>7
<1>13. LeavesApart(e, second, h, r, n, t)
  <2>1. \A a \in 1..Len(second) :
          -(m + k) <= e[second[a]] /\ e[second[a]] <= m + k
    BY ONLY <1>4, <1>12, Zenon
  <2>2. m + k \in Nat OBVIOUS
  <2>3. LeavesApart(e, second, h, r, Len(second), Carries(e, second, h))
    BY <1>3, <1>7, <2>1, <2>2, CarriesApart
  <2> QED BY ONLY <1>4, <2>3, Zenon
<1>14. t \in Wide /\ ScNumber(t) = ScNumber(s) BY <1>7, CarriesKeep
<1> HIDE DEF t
<1>15. \A j \in ScLimb : t[j] \in Int BY <1>14 DEF Wide
<1>16. \A a \in 1..n : Within0(t[p + 2 * a - 1], h)
  <2>1. \A a \in 1..n : /\ p + 1 + 2 * a - 2 = p + 2 * a - 1
                        /\ p + 2 * a - 1 \in ScLimb
    BY SMT DEF ScLimb
  <2>2. \A a \in 1..n : -h <= t[p + 2 * a - 1] /\ t[p + 2 * a - 1] < h
    BY ONLY <1>4, <1>8, <1>13, <2>1, ZenonT(30) DEF LeavesApart
  <2>3. \A x \in Int : x < h => x <= h OBVIOUS
  <2>4. \A a \in 1..n : t[p + 2 * a - 1] \in Int BY <1>15, <2>1
  <2> QED BY ONLY <2>2, <2>3, <2>4, Zenon DEF Within0
<1>17. \A a \in 1..n : /\ e[p + 2 * a] - r <= t[p + 2 * a]
                       /\ t[p + 2 * a] <= e[p + 2 * a] + r
                       /\ p + 2 * a \in ScLimb
  <2>1. \A a \in 1..n : /\ p + 1 + 2 * a - 2 + 1 = p + 2 * a
                        /\ p + 2 * a \in ScLimb
    BY SMT DEF ScLimb
  <2> QED BY ONLY <1>4, <1>13, <2>1, Zenon DEF LeavesApart
<1>18. \A j \in ScLimb : j <= p \/ j > p + 2 * n => t[j] = e[j]
  <2>1. \A j \in ScLimb : j <= p \/ j > p + 2 * n =>
          \A a \in 1..n : /\ j # p + 1 + 2 * a - 2
                          /\ j # p + 1 + 2 * a - 2 + 1
    BY SMT DEF ScLimb
  <2>2. ASSUME NEW j \in ScLimb, j <= p \/ j > p + 2 * n
        PROVE  \A a \in 1..n : j # second[a] /\ j # second[a] + 1
    <3>1. ASSUME NEW a \in 1..n
          PROVE  j # second[a] /\ j # second[a] + 1
      <4>1. j # p + 1 + 2 * a - 2 /\ j # p + 1 + 2 * a - 2 + 1
        BY ONLY <2>1, <2>2, j \in ScLimb, a \in 1..n, Zenon
      <4>2. second[a] = p + 1 + 2 * a - 2 BY ONLY <1>4, a \in 1..n, Zenon
      <4> QED BY ONLY <4>1, <4>2, Zenon
    <3> QED BY ONLY <3>1, Zenon
  <2> QED BY ONLY <1>13, <2>2, Zenon DEF LeavesApart
<1>19. Within0(t[p], h)
  <2>1. p \in ScLimb /\ p <= p /\ 1 \in 1..l /\ p + 2 * 1 - 2 = p
    BY SMT DEF ScLimb
  <2> QED BY ONLY <1>9, <1>18, <2>1, Zenon
<1>20. \A a \in 1..(l - 1) : Within0(t[p + 2 * a], h + r)
  <2> SUFFICES ASSUME NEW a \in 1..(l - 1) PROVE Within0(t[p + 2 * a], h + r)
    OBVIOUS
  <2>1. a \in 1..n /\ a + 1 \in 1..l /\ p + 2 * (a + 1) - 2 = p + 2 * a
    BY SMT
  <2>2. PICK x \in Int, y \in Int : x = e[p + 2 * a] /\ y = t[p + 2 * a]
    BY <1>10, <1>15, <1>17, <2>1
  <2>3. x - r <= y /\ y <= x + r BY ONLY <1>17, <2>1, <2>2, Zenon
  <2>4. -h <= x /\ x <= h BY ONLY <1>9, <2>1, <2>2, Zenon DEF Within0
  <2>5. -(h + r) <= y /\ y <= h + r
    BY ONLY <2>3, <2>4, x \in Int, y \in Int, h \in Nat, r \in Nat, SMT
  <2> QED BY <2>2, <2>5 DEF Within0
<1>21. ASSUME n = l - 1
       PROVE Within0(t[p + 2 * l - 1] - s[p + 2 * l - 1], k)
  <2>1. p + 2 * l - 1 \in ScLimb /\ p + 2 * l - 1 > p + 2 * n /\ l \in 1..l
    BY <1>21, SMT DEF ScLimb
  <2>2. PICK x \in Int, y \in Int :
          x = s[p + 2 * l - 1] /\ y = t[p + 2 * l - 1]
    BY <1>10, <1>15, <2>1
  <2>3. x - k <= y /\ y <= x + k
    BY ONLY <1>9, <1>18, <2>1, <2>2, Zenon
  <2>4. -k <= y - x /\ y - x <= k
    BY ONLY <2>3, x \in Int, y \in Int, k \in Nat, SMT
  <2> QED BY <2>2, <2>4 DEF Within0
<1>22. ASSUME n = l
       PROVE Within0(t[p + 2 * l] - s[p + 2 * l], r)
  <2>1. l \in 1..n /\ p + 2 * l > p + 2 * l - 1 BY <1>22, SMT
  <2>2. p + 2 * l \in ScLimb BY <1>17, <2>1
  <2>3. PICK x \in Int, y \in Int : x = s[p + 2 * l] /\ y = t[p + 2 * l]
    BY <1>10, <1>15, <2>2
  <2>4. x - r <= y /\ y <= x + r
    BY ONLY <1>9, <1>17, <2>1, <2>2, <2>3, Zenon
  <2>5. -r <= y - x /\ y - x <= r
    BY ONLY <2>4, x \in Int, y \in Int, r \in Nat, SMT
  <2> QED BY <2>3, <2>5 DEF Within0
<1>23. \A j \in ScLimb : j < p \/ j > p + l + n => t[j] = s[j]
  <2>1. \A j \in ScLimb : j < p \/ j > p + l + n =>
          /\ j <= p \/ j > p + 2 * n
          /\ j < p \/ j > p + 2 * l - 1
    BY SMT DEF ScLimb
  <2> QED BY ONLY <1>9, <1>18, <2>1, Zenon
<1>24. RoundedTwice(s, p, l, n, h, k, r, t)
  BY ONLY <1>14, <1>16, <1>19, <1>20, <1>21, <1>22, <1>23, Zenon
     DEF RoundedTwice
<1> QED BY <1>2, <1>24

\* Bounds on limbs and what they carry.
Two20 == 1048576
Two33 == 8589934592
Two35 == 34359738368
Two36 == 68719476736
Two37 == 137438953472
Two53 == 9007199254740992
Two56 == 72057594037927936

\* The limbs of 21 bits and the digits of the order as sc.c has them.
CodeScalars ==
  /\ ScSpan = 2097152
  /\ Delta = <<666643, 470296, 654183, -997805, 136657, -683901>>

\* Twenty-four limbs of at most m.
LimbsWithin(s, m) == s \in Wide /\ \A j \in ScLimb : Within0(s[j], m)

\* The six digits of the code fit 20 bits and a sign.
LEMMA DeltaWithin ==
  ASSUME CodeScalars
  PROVE  \A k \in 1..6 : Delta[k] \in Int /\ -Two20 <= Delta[k]
                         /\ Delta[k] <= Two20
<1>1. /\ Delta[1] = 666643 /\ Delta[2] = 470296 /\ Delta[3] = 654183
      /\ Delta[4] = -997805 /\ Delta[5] = 136657 /\ Delta[6] = -683901
  BY SMT DEF CodeScalars
<1>2. \A k \in 1..6 : k = 1 \/ k = 2 \/ k = 3 \/ k = 4 \/ k = 5 \/ k = 6
  BY SMT
<1> QED BY ONLY <1>1, <1>2, SMT DEF Two20

\* What a fold adds to a limb where the folded one is at most m.
LEMMA FoldedWithin ==
  ASSUME CodeScalars, NEW x \in Int, NEW m \in Nat, -m <= x, x <= m,
         NEW g \in Nat, m * Two20 = g, NEW k \in 1..6
  PROVE  -g <= x * Delta[k] /\ x * Delta[k] <= g
<1>1. Delta[k] \in Int /\ -Two20 <= Delta[k] /\ Delta[k] <= Two20
  BY DeltaWithin
<1>2. PICK y \in Int : y = Delta[k] /\ -Two20 <= y /\ y <= Two20 BY <1>1
<1>3. PICK b \in Nat : b = Two20 BY SMT DEF Two20
<1>4. -(m * b) <= x * y /\ x * y <= m * b
  <2>1. -b <= y /\ y <= b BY ONLY <1>2, <1>3
  <2> QED BY ONLY <2>1, ProductWithin, x \in Int, y \in Int, m \in Nat,
             b \in Nat, -m <= x, x <= m
<1> QED BY ONLY <1>2, <1>3, <1>4, m * Two20 = g, Zenon

\* The limbs after the upper six are folded (sc.c:82-135).
LEMMA FirstFolds ==
  ASSUME CodeScalars, NEW s, LimbsWithin(s, Two33)
  PROVE  LET t == FoldSix(s, 23)
         IN /\ t \in Wide /\ ScSame(ScNumber(t), ScNumber(s))
            /\ \A j \in 0..16 : Within0(t[j], Two56)
            /\ Within0(t[17], Two33)
            /\ \A j \in 18..23 : t[j] = 0
<1> DEFINE t == FoldSix(s, 23)
<1>1. PICK g \in Nat, m \in Nat : g = Two53 /\ m = Two33
  BY SMT DEF Two33, Two53
<1>2. s \in Wide /\ \A j \in ScLimb : s[j] \in Int /\ -m <= s[j] /\ s[j] <= m
  BY <1>1 DEF LimbsWithin, Within0, Wide
<1>3. \A j \in ScLimb : \A k \in 1..6 :
        -g <= s[j] * Delta[k] /\ s[j] * Delta[k] <= g
  <2>1. m * Two20 = g BY ONLY <1>1, SMT DEF Two20, Two33, Two53
  <2> QED BY <1>2, <2>1, FoldedWithin
<1>4. FoldedFrom(s, 23, g, 6, t)
  <2>1. 23 \in {17, 23} OBVIOUS
  <2> QED BY <1>2, <1>3, <2>1, FoldSixAre
<1> HIDE DEF t
<1>5. t \in Wide /\ ScSame(ScNumber(t), ScNumber(s)) BY <1>4 DEF FoldedFrom
<1>6. ASSUME NEW j \in 0..16 PROVE Within0(t[j], Two56)
  <2>1. j \in ScLimb /\ j <= 23 - 7 BY SMT DEF ScLimb
  <2>2. s[j] - 6 * g <= t[j] /\ t[j] <= s[j] + 6 * g
    BY ONLY <1>4, <2>1, Zenon DEF FoldedFrom
  <2>3. PICK x \in Int, y \in Int : x = s[j] /\ y = t[j]
    BY <1>2, <1>5, <2>1 DEF Wide
  <2>4. x - 6 * g <= y /\ y <= x + 6 * g /\ -m <= x /\ x <= m
    BY ONLY <1>2, <2>1, <2>2, <2>3, Zenon
  <2>5. -Two56 <= y /\ y <= Two56
    BY ONLY <1>1, <2>4, x \in Int, y \in Int, g \in Nat, m \in Nat, SMT
       DEF Two33, Two53, Two56
  <2> QED BY <2>3, <2>5 DEF Within0
<1>7. Within0(t[17], Two33)
  <2>1. 17 \in ScLimb /\ 23 - 7 < 17 /\ 17 <= 23 - 6 BY SMT DEF ScLimb
  <2>2. t[17] = s[17] BY ONLY <1>4, <2>1, Zenon DEF FoldedFrom
  <2> QED BY <2>1, <2>2 DEF LimbsWithin
<1>8. ASSUME NEW j \in 18..23 PROVE t[j] = 0
  <2>1. j \in ScLimb /\ 23 - 6 < j /\ j <= 23 BY SMT DEF ScLimb
  <2> QED BY ONLY <1>4, <2>1, Zenon DEF FoldedFrom
<1> QED BY <1>5, <1>6, <1>7, <1>8 DEF t

\* The limbs after the rounds in the middle (sc.c:137-170).
LEMMA FirstRounds ==
  ASSUME CodeScalars, NEW s \in Wide,
         \A j \in 0..16 : Within0(s[j], Two56),
         Within0(s[17], Two33), \A j \in 18..23 : s[j] = 0
  PROVE  LET t == Rounds(Rounds(s, <<6, 8, 10, 12, 14, 16>>),
                         <<7, 9, 11, 13, 15>>)
         IN /\ t \in Wide /\ ScNumber(t) = ScNumber(s)
            /\ \A j \in 0..5 : Within0(t[j], Two56)
            /\ \A j \in 6..17 : Within0(t[j], Two37)
            /\ \A j \in 18..23 : t[j] = 0
<1> DEFINE first == <<6, 8, 10, 12, 14, 16>>
           second == <<7, 9, 11, 13, 15>>
           t == Rounds(Rounds(s, first), second)
<1>1. first \in Seq(0..22) /\ second \in Seq(0..22) OBVIOUS
<1>2. EverySecond(first, 6, 6)
  <2>1. Len(first) = 6 OBVIOUS
  <2>2. \A a \in 1..6 : first[a] = 6 + 2 * a - 2 OBVIOUS
  <2> QED BY <2>1, <2>2 DEF EverySecond
<1>3. EverySecond(second, 6 + 1, 5)
  <2>1. Len(second) = 5 OBVIOUS
  <2>2. \A a \in 1..5 : second[a] = 6 + 1 + 2 * a - 2 OBVIOUS
  <2> QED BY <2>1, <2>2 DEF EverySecond
<1> HIDE DEF first, second
<1>4. PICK h \in Nat, m \in Nat, k \in Nat, r \in Nat :
        h = Two20 /\ m = Two56 /\ k = Two35 + 1 /\ r = Two36
  BY SMT DEF Two20, Two35, Two36, Two56
<1>5. ScSpan = 2 * h /\ m + h <= k * ScSpan /\ m + k + h <= r * ScSpan
  BY ONLY <1>4, CodeScalars, SMT
     DEF CodeScalars, Two20, Two35, Two36, Two56
<1>6. \A j \in ScLimb : 6 <= j /\ j < 6 + 6 + 5 => Within0(s[j], m)
  <2>1. \A j \in ScLimb : 6 <= j /\ j < 6 + 6 + 5 => j \in 0..16
    BY SMT DEF ScLimb
  <2> QED BY <1>4, <2>1
<1>7. RoundedTwice(s, 6, 6, 5, h, k, r, t)
  <2>1. /\ 6 \in 0..6 /\ 6 \in 1..12 /\ 5 \in 1..12 /\ 5 = 6 - 1
        /\ 6 + 6 + 5 <= 23
    BY SMT
  <2> QED BY ONLY <1>1, <1>2, <1>3, <1>5, <1>6, <2>1, s \in Wide, h \in Nat,
             m \in Nat, k \in Nat, r \in Nat, RoundsTwice
<1> HIDE DEF t
<1>8. t \in Wide /\ ScNumber(t) = ScNumber(s) BY <1>7 DEF RoundedTwice
<1>9. \A j \in ScLimb : t[j] \in Int BY <1>8 DEF Wide
<1>10. ASSUME NEW j \in 0..5 PROVE Within0(t[j], Two56)
  <2>1. j \in ScLimb /\ j < 6 /\ j \in 0..16 BY SMT DEF ScLimb
  <2>2. t[j] = s[j] BY ONLY <1>7, <2>1, Zenon DEF RoundedTwice
  <2> QED BY <2>1, <2>2
<1>11. ASSUME NEW j \in 18..23 PROVE t[j] = 0
  <2>1. j \in ScLimb /\ j > 6 + 6 + 5 BY SMT DEF ScLimb
  <2>2. t[j] = s[j] BY ONLY <1>7, <2>1, Zenon DEF RoundedTwice
  <2> QED BY <2>2
<1>12. ASSUME NEW j \in 6..17 PROVE Within0(t[j], Two37)
  <2>1. j \in ScLimb BY SMT DEF ScLimb
  <2>2. PICK x \in Int : x = t[j] BY <1>9, <2>1
  <2>3. CASE j = 6
    <3>1. Within0(t[6], h) BY ONLY <1>7, Zenon DEF RoundedTwice
    <3>2. -h <= x /\ x <= h BY ONLY <2>2, <2>3, <3>1, Zenon DEF Within0
    <3>3. -Two37 <= x /\ x <= Two37
      BY ONLY <1>4, <3>2, x \in Int, SMT
         DEF Two20, Two36, Two37
    <3> QED BY <2>2, <3>3 DEF Within0
  <2>4. CASE \E a \in 1..5 : j = 6 + 2 * a - 1
    <3>1. PICK a \in 1..5 : j = 6 + 2 * a - 1 BY <2>4
    <3>2. Within0(t[6 + 2 * a - 1], h)
      BY ONLY <1>7, a \in 1..5, Zenon DEF RoundedTwice
    <3>3. -h <= x /\ x <= h BY ONLY <2>2, <3>1, <3>2, Zenon DEF Within0
    <3>4. -Two37 <= x /\ x <= Two37
      BY ONLY <1>4, <3>3, x \in Int, SMT
         DEF Two20, Two36, Two37
    <3> QED BY <2>2, <3>4 DEF Within0
  <2>5. CASE \E a \in 1..(6 - 1) : j = 6 + 2 * a
    <3>1. PICK a \in 1..(6 - 1) : j = 6 + 2 * a BY <2>5
    <3>2. Within0(t[6 + 2 * a], h + r)
      BY ONLY <1>7, a \in 1..(6 - 1), Zenon DEF RoundedTwice
    <3>3. -(h + r) <= x /\ x <= h + r
      BY ONLY <2>2, <3>1, <3>2, Zenon DEF Within0
    <3>4. -Two37 <= x /\ x <= Two37
      BY ONLY <1>4, <3>3, x \in Int, SMT
         DEF Two20, Two36, Two37
    <3> QED BY <2>2, <3>4 DEF Within0
  <2>6. CASE j = 17
    <3>1. Within0(t[6 + 2 * 6 - 1] - s[6 + 2 * 6 - 1], k)
      <4>1. 5 = 6 - 1 BY SMT
      <4> QED BY ONLY <1>7, <4>1, Zenon DEF RoundedTwice
    <3>2. 6 + 2 * 6 - 1 = 17 BY SMT
    <3>3. PICK y \in Int : y = s[17]
      <4>1. 17 \in ScLimb BY SMT DEF ScLimb
      <4> QED BY <4>1 DEF Wide
    <3>4. -k <= x - y /\ x - y <= k
      BY ONLY <2>2, <2>6, <3>1, <3>2, <3>3, Zenon DEF Within0
    <3>5. -Two33 <= y /\ y <= Two33 BY <3>3 DEF Within0
    <3>6. -Two37 <= x /\ x <= Two37
      BY ONLY <1>4, <3>4, <3>5, x \in Int, y \in Int, SMT
         DEF Two33, Two35, Two37
    <3> QED BY <2>2, <3>6 DEF Within0
  <2>7. \/ j = 6 \/ j = 17 \/ \E a \in 1..5 : j = 6 + 2 * a - 1
        \/ \E a \in 1..(6 - 1) : j = 6 + 2 * a
    <3>1. \/ j = 6 \/ j = 17
          \/ j = 7 \/ j = 9 \/ j = 11 \/ j = 13 \/ j = 15
          \/ j = 8 \/ j = 10 \/ j = 12 \/ j = 14 \/ j = 16
      BY SMT
    <3>2. /\ 1 \in 1..5 /\ 2 \in 1..5 /\ 3 \in 1..5 /\ 4 \in 1..5
          /\ 5 \in 1..5 /\ 1..(6 - 1) = 1..5
          /\ 7 = 6 + 2 * 1 - 1 /\ 9 = 6 + 2 * 2 - 1 /\ 11 = 6 + 2 * 3 - 1
          /\ 13 = 6 + 2 * 4 - 1 /\ 15 = 6 + 2 * 5 - 1
          /\ 8 = 6 + 2 * 1 /\ 10 = 6 + 2 * 2 /\ 12 = 6 + 2 * 3
          /\ 14 = 6 + 2 * 4 /\ 16 = 6 + 2 * 5
      BY SMT
    <3> QED BY ONLY <3>1, <3>2, Zenon
  <2> QED BY <2>3, <2>4, <2>5, <2>6, <2>7
<1> QED BY <1>8, <1>10, <1>11, <1>12 DEF t, first, second

Two39 == 549755813888
Two40 == 1099511627776
Two57 == 144115188075855872
Two60 == 1152921504606846976

\* The limbs after the next six are folded (sc.c:172-225).
LEMMA SecondFolds ==
  ASSUME CodeScalars, NEW s \in Wide,
         \A j \in 0..5 : Within0(s[j], Two56),
         \A j \in 6..17 : Within0(s[j], Two37), \A j \in 18..23 : s[j] = 0
  PROVE  LET t == FoldSix(s, 17)
         IN /\ t \in Wide /\ ScSame(ScNumber(t), ScNumber(s))
            /\ \A j \in 0..10 : Within0(t[j], Two60)
            /\ Within0(t[11], Two37)
            /\ \A j \in 12..23 : t[j] = 0
<1> DEFINE t == FoldSix(s, 17)
<1>1. PICK g \in Nat, m \in Nat, u \in Nat :
        g = Two57 /\ m = Two37 /\ u = Two56
  BY SMT DEF Two37, Two56, Two57
<1>2. \A j \in ScLimb : s[j] \in Int BY DEF Wide
<1>3. \A j \in ScLimb : 17 - 6 < j /\ j <= 17 =>
        \A k \in 1..6 : -g <= s[j] * Delta[k] /\ s[j] * Delta[k] <= g
  <2> SUFFICES ASSUME NEW j \in ScLimb, 17 - 6 < j, j <= 17, NEW k \in 1..6
               PROVE  -g <= s[j] * Delta[k] /\ s[j] * Delta[k] <= g
    OBVIOUS
  <2>1. m * Two20 = g BY ONLY <1>1, SMT DEF Two20, Two37, Two57
  <2>2. j \in 6..17 BY SMT DEF ScLimb
  <2>3. -m <= s[j] /\ s[j] <= m BY ONLY <1>1, <2>2,
    \A x \in 6..17 : Within0(s[x], Two37), Zenon DEF Within0
  <2> QED BY <1>2, <2>1, <2>3, FoldedWithin
<1>4. FoldedFrom(s, 17, g, 6, t)
  <2>1. 17 \in {17, 23} OBVIOUS
  <2> QED BY <1>3, <2>1, FoldSixAre
<1> HIDE DEF t
<1>5. t \in Wide /\ ScSame(ScNumber(t), ScNumber(s)) BY <1>4 DEF FoldedFrom
<1>6. ASSUME NEW j \in 0..10 PROVE Within0(t[j], Two60)
  <2>1. j \in ScLimb /\ j <= 17 - 7 /\ (j \in 0..5 \/ j \in 6..17)
    BY SMT DEF ScLimb
  <2>2. s[j] - 6 * g <= t[j] /\ t[j] <= s[j] + 6 * g
    BY ONLY <1>4, <2>1, Zenon DEF FoldedFrom
  <2>3. PICK x \in Int, y \in Int : x = s[j] /\ y = t[j]
    BY <1>2, <1>5, <2>1 DEF Wide
  <2>4. x - 6 * g <= y /\ y <= x + 6 * g BY ONLY <2>2, <2>3, Zenon
  <2>5. (-u <= x /\ x <= u) \/ (-m <= x /\ x <= m)
    BY ONLY <1>1, <2>1, <2>3, \A i \in 0..5 : Within0(s[i], Two56),
       \A i \in 6..17 : Within0(s[i], Two37), Zenon DEF Within0
  <2>6. -Two60 <= y /\ y <= Two60
    BY ONLY <1>1, <2>4, <2>5, x \in Int, y \in Int, g \in Nat, m \in Nat,
       u \in Nat, SMT DEF Two37, Two56, Two57, Two60
  <2> QED BY <2>3, <2>6 DEF Within0
<1>7. Within0(t[11], Two37)
  <2>1. 11 \in ScLimb /\ 17 - 7 < 11 /\ 11 <= 17 - 6 /\ 11 \in 6..17
    BY SMT DEF ScLimb
  <2>2. t[11] = s[11] BY ONLY <1>4, <2>1, Zenon DEF FoldedFrom
  <2> QED BY <2>1, <2>2
<1>8. ASSUME NEW j \in 12..23 PROVE t[j] = 0
  <2>1. j \in ScLimb /\ j \in 12..17 => 17 - 6 < j /\ j <= 17
    BY SMT DEF ScLimb
  <2>2. j \in ScLimb /\ (j \in 12..17 \/ (j > 17 /\ 17 - 7 < j /\ j \in 18..23))
    BY SMT DEF ScLimb
  <2>3. CASE j \in 12..17
    BY ONLY <1>4, <2>1, <2>2, <2>3, Zenon DEF FoldedFrom
  <2>4. CASE j > 17 /\ 17 - 7 < j /\ j \in 18..23
    <3>1. t[j] = s[j] BY ONLY <1>4, <2>2, <2>4, Zenon DEF FoldedFrom
    <3> QED BY <2>4, <3>1
  <2> QED BY <2>2, <2>3, <2>4
<1> QED BY <1>5, <1>6, <1>7, <1>8 DEF t

\* Twelve limbs that are carried once: what sc_reduce and sc_muladd have
\* before they take the rest.
Shrunk(t) ==
  /\ t \in Wide
  /\ \A j \in 0..10 : Within0(t[j], Two40)
  /\ Within0(t[11], Two20) /\ Within0(t[12], Two40)
  /\ \A j \in 13..23 : t[j] = 0

\* The sweeps at the end of ScShrink, over twelve limbs.
LEMMA SecondRounds ==
  ASSUME CodeScalars, NEW s \in Wide,
         \A j \in 0..10 : Within0(s[j], Two60),
         Within0(s[11], Two37), \A j \in 12..23 : s[j] = 0
  PROVE  LET t == Rounds(Rounds(s, <<0, 2, 4, 6, 8, 10>>),
                         <<1, 3, 5, 7, 9, 11>>)
         IN ScNumber(t) = ScNumber(s) /\ Shrunk(t)
<1> DEFINE first == <<0, 2, 4, 6, 8, 10>>
           second == <<1, 3, 5, 7, 9, 11>>
           t == Rounds(Rounds(s, first), second)
<1>1. first \in Seq(0..22) /\ second \in Seq(0..22) OBVIOUS
<1>2. EverySecond(first, 0, 6)
  <2>1. Len(first) = 6 OBVIOUS
  <2>2. \A a \in 1..6 : first[a] = 0 + 2 * a - 2 OBVIOUS
  <2> QED BY <2>1, <2>2 DEF EverySecond
<1>3. EverySecond(second, 0 + 1, 6)
  <2>1. Len(second) = 6 OBVIOUS
  <2>2. \A a \in 1..6 : second[a] = 0 + 1 + 2 * a - 2 OBVIOUS
  <2> QED BY <2>1, <2>2 DEF EverySecond
<1> HIDE DEF first, second
<1>4. PICK h \in Nat, m \in Nat, k \in Nat, r \in Nat :
        h = Two20 /\ m = Two60 /\ k = Two39 + 1 /\ r = Two39 + Two20
  BY SMT DEF Two20, Two39, Two60
<1>5. ScSpan = 2 * h /\ m + h <= k * ScSpan /\ m + k + h <= r * ScSpan
  BY ONLY <1>4, CodeScalars, SMT DEF CodeScalars, Two20, Two39, Two60
<1>6. \A j \in ScLimb : 0 <= j /\ j < 0 + 6 + 6 => Within0(s[j], m)
  <2>1. \A j \in ScLimb : 0 <= j /\ j < 0 + 6 + 6 => j \in 0..10 \/ j = 11
    BY SMT DEF ScLimb
  <2>2. Within0(s[11], m)
    <3>1. PICK x \in Int : x = s[11]
      <4>1. 11 \in ScLimb BY SMT DEF ScLimb
      <4> QED BY <4>1 DEF Wide
    <3>2. -Two37 <= x /\ x <= Two37 BY <3>1 DEF Within0
    <3>3. -m <= x /\ x <= m
      BY ONLY <1>4, <3>2, x \in Int, SMT DEF Two37, Two60
    <3> QED BY <3>1, <3>3 DEF Within0
  <2>3. \A j \in 0..10 : Within0(s[j], m) BY <1>4
  <2> QED BY ONLY <2>1, <2>2, <2>3, Zenon
<1>7. RoundedTwice(s, 0, 6, 6, h, k, r, t)
  <2>1. /\ 0 \in 0..6 /\ 6 \in 1..12 /\ 6 = 6 /\ 0 + 6 + 6 <= 23
    BY SMT
  <2> QED BY ONLY <1>1, <1>2, <1>3, <1>5, <1>6, <2>1, s \in Wide, h \in Nat,
             m \in Nat, k \in Nat, r \in Nat, RoundsTwice
<1> HIDE DEF t
<1>8. t \in Wide /\ ScNumber(t) = ScNumber(s) BY <1>7 DEF RoundedTwice
<1>9. \A j \in ScLimb : t[j] \in Int BY <1>8 DEF Wide
<1>10. ASSUME NEW j \in 13..23 PROVE t[j] = 0
  <2>1. j \in ScLimb /\ j > 0 + 6 + 6 /\ j \in 12..23 BY SMT DEF ScLimb
  <2>2. t[j] = s[j] BY ONLY <1>7, <2>1, Zenon DEF RoundedTwice
  <2> QED BY <2>1, <2>2
<1>11. Within0(t[12], Two40)
  <2>1. 12 \in ScLimb /\ 12 \in 12..23 /\ 0 + 2 * 6 = 12 BY SMT DEF ScLimb
  <2>2. PICK x \in Int : x = t[12] BY <1>9, <2>1
  <2>3. Within0(t[0 + 2 * 6] - s[0 + 2 * 6], r)
    <3>1. 6 = 6 OBVIOUS
    <3> QED BY ONLY <1>7, <3>1, Zenon DEF RoundedTwice
  <2>4. s[12] = 0 BY <2>1
  <2>5. x - 0 = x BY SMT
  <2>6. -r <= x /\ x <= r
    BY ONLY <2>1, <2>2, <2>3, <2>4, <2>5, Zenon DEF Within0
  <2>7. -Two40 <= x /\ x <= Two40
    BY ONLY <1>4, <2>6, x \in Int, SMT DEF Two20, Two39, Two40
  <2> QED BY <2>2, <2>7 DEF Within0
<1>12. \A a \in 1..6 : Within0(t[0 + 2 * a - 1], h)
  BY ONLY <1>7, Zenon DEF RoundedTwice
<1>13. Within0(t[11], Two20)
  <2>1. 6 \in 1..6 /\ 0 + 2 * 6 - 1 = 11 BY SMT
  <2> QED BY ONLY <1>4, <1>12, <2>1, Zenon
<1>14. ASSUME NEW j \in 0..10 PROVE Within0(t[j], Two40)
  <2>1. j \in ScLimb BY SMT DEF ScLimb
  <2>2. PICK x \in Int : x = t[j] BY <1>9, <2>1
  <2>3. Within0(x, h) \/ Within0(x, h + r)
    <3>1. CASE j = 0
      BY ONLY <1>7, <2>2, <3>1, Zenon DEF RoundedTwice
    <3>2. CASE \E a \in 1..6 : j = 0 + 2 * a - 1
      BY ONLY <1>12, <2>2, <3>2, Zenon
    <3>3. CASE \E a \in 1..(6 - 1) : j = 0 + 2 * a
      <4>1. \A a \in 1..(6 - 1) : Within0(t[0 + 2 * a], h + r)
        BY ONLY <1>7, Zenon DEF RoundedTwice
      <4> QED BY ONLY <2>2, <3>3, <4>1, Zenon
    <3>4. \/ j = 0 \/ \E a \in 1..6 : j = 0 + 2 * a - 1
          \/ \E a \in 1..(6 - 1) : j = 0 + 2 * a
      <4>1. \/ j = 0
            \/ j = 1 \/ j = 3 \/ j = 5 \/ j = 7 \/ j = 9
            \/ j = 2 \/ j = 4 \/ j = 6 \/ j = 8 \/ j = 10
        BY SMT
      <4>2. /\ 1 \in 1..6 /\ 2 \in 1..6 /\ 3 \in 1..6 /\ 4 \in 1..6
            /\ 5 \in 1..6
            /\ 1 \in 1..(6 - 1) /\ 2 \in 1..(6 - 1) /\ 3 \in 1..(6 - 1)
            /\ 4 \in 1..(6 - 1) /\ 5 \in 1..(6 - 1)
            /\ 1 = 0 + 2 * 1 - 1 /\ 3 = 0 + 2 * 2 - 1 /\ 5 = 0 + 2 * 3 - 1
            /\ 7 = 0 + 2 * 4 - 1 /\ 9 = 0 + 2 * 5 - 1
            /\ 2 = 0 + 2 * 1 /\ 4 = 0 + 2 * 2 /\ 6 = 0 + 2 * 3
            /\ 8 = 0 + 2 * 4 /\ 10 = 0 + 2 * 5
        BY SMT
      <4> QED BY ONLY <4>1, <4>2, Zenon
    <3> QED BY <3>1, <3>2, <3>3, <3>4
  <2>4. (-h <= x /\ x <= h) \/ (-(h + r) <= x /\ x <= h + r)
    BY ONLY <2>3, Zenon DEF Within0
  <2>5. -Two40 <= x /\ x <= Two40
    BY ONLY <1>4, <2>4, x \in Int, SMT DEF Two20, Two39, Two40
  <2> QED BY <2>2, <2>5 DEF Within0
<1> QED BY <1>8, <1>10, <1>11, <1>13, <1>14 DEF Shrunk, t, first, second

\* What ScShrink leaves of limbs of at most 2^33.
LEMMA ShrinkLeaves ==
  ASSUME CodeScalars, NEW s, LimbsWithin(s, Two33)
  PROVE  /\ Shrunk(ScShrink(s))
         /\ ScSame(ScNumber(ScShrink(s)), ScNumber(s))
<1> DEFINE s1 == FoldSix(s, 23)
           s2 == Rounds(Rounds(s1, <<6, 8, 10, 12, 14, 16>>),
                        <<7, 9, 11, 13, 15>>)
           s3 == FoldSix(s2, 17)
           s4 == Rounds(Rounds(s3, <<0, 2, 4, 6, 8, 10>>),
                        <<1, 3, 5, 7, 9, 11>>)
<1>1. ScShrink(s) = s4 BY DEF ScShrink
<1>2. /\ s1 \in Wide /\ ScSame(ScNumber(s1), ScNumber(s))
      /\ \A j \in 0..16 : Within0(s1[j], Two56)
      /\ Within0(s1[17], Two33)
      /\ \A j \in 18..23 : s1[j] = 0
  BY FirstFolds, Zenon
<1> HIDE DEF s1
<1>3. /\ s2 \in Wide /\ ScNumber(s2) = ScNumber(s1)
      /\ \A j \in 0..5 : Within0(s2[j], Two56)
      /\ \A j \in 6..17 : Within0(s2[j], Two37)
      /\ \A j \in 18..23 : s2[j] = 0
  BY <1>2, FirstRounds, Zenon
<1> HIDE DEF s2
<1>4. /\ s3 \in Wide /\ ScSame(ScNumber(s3), ScNumber(s2))
      /\ \A j \in 0..10 : Within0(s3[j], Two60)
      /\ Within0(s3[11], Two37)
      /\ \A j \in 12..23 : s3[j] = 0
  BY <1>3, SecondFolds, Zenon
<1> HIDE DEF s3
<1>5. ScNumber(s4) = ScNumber(s3) /\ Shrunk(s4)
  BY <1>4, SecondRounds, Zenon
<1> HIDE DEF s4
<1>6. ScNumber(s3) \in Int /\ ScNumber(s2) \in Int /\ ScNumber(s) \in Int
  <2>1. s \in Wide BY DEF LimbsWithin
  <2> QED BY <1>3, <1>4, <2>1, ScNumberInt
<1>7. ScSame(ScNumber(s3), ScNumber(s))
  <2>1. ScSame(ScNumber(s2), ScNumber(s)) BY ONLY <1>2, <1>3, Zenon
  <2> QED BY <1>4, <1>6, <2>1, ScSameTrans
<1> QED BY ONLY <1>1, <1>5, <1>7, Zenon

\* Twelve limbs and no more than one above: the bytes' number and the rest.
LEMMA ScNumberLow ==
  ASSUME NEW s \in Wide, \A j \in 13..23 : s[j] = 0
  PROVE  /\ ScNumber(s) = ScStore(s) + s[12] * ScFull
         /\ ScStore(s) \in Int
<1> DEFINE x == [i \in ScLimb |-> s[i] * Place(i)]
           y == [i \in 0..11 |-> s[i] * ScWorth[i]]
           u == Upper(x)
<1>1. \A i \in 0..11 : /\ i \in ScLimb /\ i + 12 \in ScLimb /\ i < 12
                       /\ i # 0 => i + 12 \in 13..23
  BY SMT DEF ScLimb
<1>2. \A a \in Int, b \in Nat : a * b \in Int /\ 0 * b = 0 BY SMT
<1>3. \A j \in ScLimb : s[j] \in Int BY DEF Wide
<1>4. y \in Twelve BY <1>1, <1>2, <1>3, ScNat DEF Twelve
<1>5. \A i \in 0..11 : x[i] = y[i] BY <1>1 DEF Place
<1>6. u[0] = s[12] * ScFull
  <2>1. 12 \in ScLimb /\ 0 \in 0..11 /\ ~(12 < 12) /\ 0 + 12 = 12
        /\ 12 - 12 = 0
    BY SMT DEF ScLimb
  <2>2. ScWorth[0] = 1 BY ScalarAssumption
  <2>3. ScFull * 1 = ScFull BY ScNat, SMT
  <2>4. Place(12) = ScFull BY <2>1, <2>2, <2>3 DEF Place
  <2>5. x[12] = s[12] * Place(12) BY <2>1
  <2>6. u[0] = x[12] BY <2>1 DEF Upper
  <2> QED BY ONLY <2>4, <2>5, <2>6, Zenon
<1>7. \A i \in 1..11 : u[i] = 0
  <2> SUFFICES ASSUME NEW i \in 1..11 PROVE u[i] = 0
    OBVIOUS
  <2>1. i \in 0..11 /\ i # 0 BY SMT
  <2>2. s[i + 12] = 0 /\ i + 12 \in ScLimb BY <1>1, <2>1
  <2>3. x[i + 12] = 0 * Place(i + 12) BY <2>2
  <2>4. Place(i + 12) \in Nat BY <2>2, PlaceNat
  <2>5. u[i] = x[i + 12] BY <2>1 DEF Upper
  <2> QED BY <1>2, <2>3, <2>4, <2>5
<1>8. ScNumber(s) = TotalOf12(x) + TotalOf12(u) BY DEF ScNumber, Total24
<1>9. ScStore(s) = TotalOf12(y) BY DEF ScStore
<1> HIDE DEF x, y, u
<1>10. TotalOf12(y) \in Int BY <1>4, Total12Add
<1>11. TotalOf12(x) = TotalOf12(y)
  <2>1. /\ x[0] = y[0] /\ x[1] = y[1] /\ x[2] = y[2] /\ x[3] = y[3]
        /\ x[4] = y[4] /\ x[5] = y[5] /\ x[6] = y[6] /\ x[7] = y[7]
        /\ x[8] = y[8] /\ x[9] = y[9] /\ x[10] = y[10] /\ x[11] = y[11]
    BY <1>5, SMT
  <2> QED BY ONLY <2>1, Zenon DEF TotalOf12
<1>12. TotalOf12(u) = s[12] * ScFull
  <2>1. PICK q \in Int : q = u[0] /\ q = s[12] * ScFull
    <3>1. 12 \in ScLimb BY SMT DEF ScLimb
    <3> QED BY <1>2, <1>3, <1>6, <3>1, ScNat
  <2>2. /\ u[1] = 0 /\ u[2] = 0 /\ u[3] = 0 /\ u[4] = 0 /\ u[5] = 0
        /\ u[6] = 0 /\ u[7] = 0 /\ u[8] = 0 /\ u[9] = 0 /\ u[10] = 0
        /\ u[11] = 0
    BY ONLY <1>7, SMT
  <2>3. TotalOf12(u) = (q + 0 + 0 + 0 + 0 + 0) + (0 + 0 + 0 + 0 + 0 + 0)
    BY ONLY <2>1, <2>2, Zenon DEF TotalOf12
  <2>4. (q + 0 + 0 + 0 + 0 + 0) + (0 + 0 + 0 + 0 + 0 + 0) = q BY SMT
  <2> QED BY ONLY <2>1, <2>3, <2>4, Zenon
<1> QED BY ONLY <1>8, <1>9, <1>10, <1>11, <1>12, Zenon

\* Totals of numbers within bounds.
LEMMA Total12Within ==
  ASSUME NEW f \in Twelve, NEW g \in Twelve, NEW e \in Twelve,
         \A i \in 0..11 : g[i] <= f[i] /\ f[i] <= e[i]
  PROVE  TotalOf12(g) <= TotalOf12(f) /\ TotalOf12(f) <= TotalOf12(e)
<1> DEFINE low(h) == h[0] + h[1] + h[2] + h[3] + h[4] + h[5]
           high(h) == h[6] + h[7] + h[8] + h[9] + h[10] + h[11]
<1>1. \A i \in 0..11 : f[i] \in Int /\ g[i] \in Int /\ e[i] \in Int
  BY DEF Twelve
<1>2. low(g) <= low(f) /\ low(f) <= low(e) BY <1>1, SMT
<1>3. high(g) <= high(f) /\ high(f) <= high(e) BY <1>1, SMT
<1>4. /\ low(f) \in Int /\ low(g) \in Int /\ low(e) \in Int
      /\ high(f) \in Int /\ high(g) \in Int /\ high(e) \in Int
  BY <1>1, SMT
<1>5. \A h : TotalOf12(h) = low(h) + high(h) BY DEF TotalOf12
<1> HIDE DEF low, high
<1>6. /\ low(g) + high(g) <= low(f) + high(f)
      /\ low(f) + high(f) <= low(e) + high(e)
  BY ONLY <1>2, <1>3, <1>4, SMT
<1> QED BY ONLY <1>5, <1>6, Zenon

\* Twelve digits are a number below what twelve limbs span.
LEMMA DigitsWithin ==
  ASSUME NEW s \in Wide,
         \A j \in 0..11 : 0 <= s[j] /\ s[j] < ScSpan
  PROVE  0 <= ScStore(s) /\ ScStore(s) < ScFull
<1> DEFINE y == [i \in 0..11 |-> s[i] * ScWorth[i]]
           low == [i \in 0..11 |-> 0]
           top == [i \in 0..11 |->
                    (IF i = 11 THEN ScFull ELSE ScWorth[i + 1]) - ScWorth[i]]
<1>1. \A i \in 0..11 : s[i] \in Int
  <2>1. \A i \in 0..11 : i \in ScLimb BY SMT DEF ScLimb
  <2> QED BY <2>1 DEF Wide
<1>2. \A i \in 0..11 :
        y[i] \in Int /\ 0 <= y[i] /\ y[i] <= top[i] /\ top[i] \in Int
  <2> SUFFICES ASSUME NEW i \in 0..11
               PROVE y[i] \in Int /\ 0 <= y[i] /\ y[i] <= top[i]
                     /\ top[i] \in Int
    OBVIOUS
  <2>1. PICK d \in Nat : d = s[i] BY <1>1
  <2>2. PICK w \in Nat, p \in Nat : w = ScWorth[i] /\ p = ScSpan BY ScNat
  <2>3. (IF i = 11 THEN ScFull ELSE ScWorth[i + 1]) = w * p
    <3>1. CASE i = 11 BY <2>2, <3>1 DEF ScFull
    <3>2. CASE i # 11
      <4>1. i \in 0..10 BY <3>2, SMT
      <4> QED BY <2>2, <3>2, <4>1, ScalarAssumption
    <3> QED BY <3>1, <3>2
  <2>4. d < p BY <2>1, <2>2
  <2>5. d * w \in Nat /\ w * p \in Nat BY SMT
  <2>6. d * w <= w * p - w
    <3>1. d + 1 <= p BY <2>4
    <3>2. (d + 1) * w <= p * w BY <3>1, SMT
    <3>3. (d + 1) * w = d * w + w /\ p * w = w * p BY SMT
    <3> QED BY <2>5, <3>2, <3>3
  <2>7. y[i] = d * w /\ top[i] = w * p - w BY <2>1, <2>2, <2>3
  <2>8. w * p - w \in Int BY <2>5
  <2> HIDE DEF y, top
  <2> QED BY <2>5, <2>6, <2>7, <2>8
<1>3. y \in Twelve /\ low \in Twelve /\ top \in Twelve
  BY <1>2 DEF Twelve
<1>4. ScStore(s) = TotalOf12(y) BY DEF ScStore
<1>5. TotalOf12(low) <= TotalOf12(y) /\ TotalOf12(y) <= TotalOf12(top)
  <2>1. \A i \in 0..11 : low[i] <= y[i] /\ y[i] <= top[i] BY <1>2
  <2> HIDE DEF low, y, top
  <2> QED BY <1>3, <2>1, Total12Within
<1>6. TotalOf12(low) = 0 BY SMT DEF TotalOf12
<1>7. TotalOf12(top) = ScFull - 1
  <2>1. /\ top[0] = ScWorth[1] - ScWorth[0]
        /\ top[1] = ScWorth[2] - ScWorth[1]
        /\ top[2] = ScWorth[3] - ScWorth[2]
        /\ top[3] = ScWorth[4] - ScWorth[3]
        /\ top[4] = ScWorth[5] - ScWorth[4]
        /\ top[5] = ScWorth[6] - ScWorth[5]
        /\ top[6] = ScWorth[7] - ScWorth[6]
        /\ top[7] = ScWorth[8] - ScWorth[7]
        /\ top[8] = ScWorth[9] - ScWorth[8]
        /\ top[9] = ScWorth[10] - ScWorth[9]
        /\ top[10] = ScWorth[11] - ScWorth[10]
        /\ top[11] = ScFull - ScWorth[11]
    BY SMT
  <2>2. \A i \in 0..11 : ScWorth[i] \in Nat BY ScNat
  <2>3. ScFull \in Nat BY ScNat
  <2>4. ScWorth[0] = 1 BY ScalarAssumption
  <2> HIDE DEF top
  <2>5. top[0] + top[1] + top[2] + top[3] + top[4] + top[5]
          = ScWorth[6] - ScWorth[0]
    BY ONLY <2>1, <2>2, SMT
  <2>6. top[6] + top[7] + top[8] + top[9] + top[10] + top[11]
          = ScFull - ScWorth[6]
    BY ONLY <2>1, <2>2, <2>3, SMT
  <2>7. (ScWorth[6] - ScWorth[0]) + (ScFull - ScWorth[6]) = ScFull - 1
    BY ONLY <2>2, <2>3, <2>4, SMT
  <2> QED BY ONLY <2>5, <2>6, <2>7, Zenon DEF TotalOf12
<1>8. TotalOf12(y) \in Int BY <1>3, Total12Add
<1> QED BY <1>4, <1>5, <1>6, <1>7, <1>8, ScNat

Two61 == 2305843009213693952

\* What the twelve limbs count, one after the other.
LEMMA WorthChain ==
  ASSUME CodeScalars
  PROVE  /\ ScWorth[1] = 2097152 * ScWorth[0]
         /\ ScWorth[2] = 2097152 * ScWorth[1]
         /\ ScWorth[3] = 2097152 * ScWorth[2]
         /\ ScWorth[4] = 2097152 * ScWorth[3]
         /\ ScWorth[5] = 2097152 * ScWorth[4]
         /\ ScWorth[6] = 2097152 * ScWorth[5]
         /\ ScWorth[7] = 2097152 * ScWorth[6]
         /\ ScWorth[8] = 2097152 * ScWorth[7]
         /\ ScWorth[9] = 2097152 * ScWorth[8]
         /\ ScWorth[10] = 2097152 * ScWorth[9]
         /\ ScWorth[11] = 2097152 * ScWorth[10]
         /\ ScFull = 2097152 * ScWorth[11]
<1>1. \A i \in 0..10 : ScWorth[i + 1] = 2097152 * ScWorth[i]
  <2>1. \A i \in 0..10 : ScWorth[i + 1] = ScWorth[i] * ScSpan
    BY SMT, ScalarAssumption
  <2>2. \A i \in 0..10 : ScWorth[i] \in Nat
    <3>1. \A i \in 0..10 : i \in 0..11 BY SMT
    <3> QED BY SMT, <3>1, ScNat
  <2>3. ScSpan = 2097152 BY SMT DEF CodeScalars
  <2> QED BY ONLY <2>1, <2>2, <2>3, SMT
<1>2. ScFull = 2097152 * ScWorth[11]
  <2>1. ScWorth[11] \in Nat
    <3>1. 11 \in 0..11 BY SMT
    <3> QED BY SMT, <3>1, ScNat
  <2>2. ScFull = ScWorth[11] * ScSpan BY SMT DEF ScFull
  <2>3. ScSpan = 2097152 BY SMT DEF CodeScalars
  <2> QED BY ONLY <2>1, <2>2, <2>3, SMT
<1>3. /\ ScWorth[0 + 1] = 2097152 * ScWorth[0]
      /\ ScWorth[1 + 1] = 2097152 * ScWorth[1]
      /\ ScWorth[2 + 1] = 2097152 * ScWorth[2]
      /\ ScWorth[3 + 1] = 2097152 * ScWorth[3]
      /\ ScWorth[4 + 1] = 2097152 * ScWorth[4]
      /\ ScWorth[5 + 1] = 2097152 * ScWorth[5]
  BY ONLY <1>1, SMT
<1>4. /\ ScWorth[6 + 1] = 2097152 * ScWorth[6]
      /\ ScWorth[7 + 1] = 2097152 * ScWorth[7]
      /\ ScWorth[8 + 1] = 2097152 * ScWorth[8]
      /\ ScWorth[9 + 1] = 2097152 * ScWorth[9]
      /\ ScWorth[10 + 1] = 2097152 * ScWorth[10]
  BY ONLY <1>1, SMT
<1> QED BY ONLY <1>2, <1>3, <1>4, SMT

\* The order is more than seven eighths of what the limbs span.
LEMMA OrderIsLarge ==
  ASSUME CodeScalars
  PROVE  7 * ScFull < 8 * ScOrder
<1>1. PICK w0 \in Nat, w1 \in Nat, w2 \in Nat, w3 \in Nat, w4 \in Nat,
           w5 \in Nat, w6 \in Nat :
        /\ w0 = ScWorth[0] /\ w1 = ScWorth[1] /\ w2 = ScWorth[2]
        /\ w3 = ScWorth[3] /\ w4 = ScWorth[4] /\ w5 = ScWorth[5]
        /\ w6 = ScWorth[6]
  <2>1. /\ 0 \in 0..11 /\ 1 \in 0..11 /\ 2 \in 0..11 /\ 3 \in 0..11
        /\ 4 \in 0..11 /\ 5 \in 0..11 /\ 6 \in 0..11
    BY SMT
  <2> QED BY <2>1, ScNat
<1>2. PICK w7 \in Nat, w8 \in Nat, w9 \in Nat, w10 \in Nat, w11 \in Nat,
           full \in Nat :
        /\ w7 = ScWorth[7] /\ w8 = ScWorth[8] /\ w9 = ScWorth[9]
        /\ w10 = ScWorth[10] /\ w11 = ScWorth[11] /\ full = ScFull
  <2>1. /\ 7 \in 0..11 /\ 8 \in 0..11 /\ 9 \in 0..11 /\ 10 \in 0..11
        /\ 11 \in 0..11
    BY SMT
  <2> QED BY <2>1, ScNat
<1>3. PICK delta \in Int, order \in Nat :
        delta = ScDelta /\ order = ScOrder /\ full = order + delta
  BY <1>2, ScNat
<1>4. full > 0 BY <1>2, ScNat
<1>5. delta = 666643 * w0 + 470296 * w1 + 654183 * w2 + (-997805) * w3
                + 136657 * w4 + (-683901) * w5
  <2>1. /\ Delta[1] = 666643 /\ Delta[2] = 470296 /\ Delta[3] = 654183
        /\ Delta[4] = -997805 /\ Delta[5] = 136657 /\ Delta[6] = -683901
    BY SMT DEF CodeScalars
  <2>2. delta = Delta[1] * w0 + Delta[2] * w1 + Delta[3] * w2
                  + Delta[4] * w3 + Delta[5] * w4 + Delta[6] * w5
    BY ONLY <1>1, <1>3, Zenon DEF ScDelta
  <2> QED BY ONLY <2>1, <2>2, SMT
<1>6. /\ w1 = 2097152 * w0 /\ w2 = 2097152 * w1 /\ w3 = 2097152 * w2
      /\ w4 = 2097152 * w3 /\ w5 = 2097152 * w4 /\ w6 = 2097152 * w5
  BY ONLY <1>1, WorthChain, CodeScalars, SMT
<1>7. /\ w7 = 2097152 * w6 /\ w8 = 2097152 * w7 /\ w9 = 2097152 * w8
      /\ w10 = 2097152 * w9 /\ w11 = 2097152 * w10 /\ full = 2097152 * w11
  BY ONLY <1>1, <1>2, WorthChain, CodeScalars, SMT
<1>8. 8 * delta < full
  <2>1. 8 * delta <= 48000000 * w5
    BY ONLY <1>5, <1>6, w0 \in Nat, w1 \in Nat, w2 \in Nat, w3 \in Nat,
       w4 \in Nat, w5 \in Nat, SMT
  <2>2. 48000000 * w5 <= 48 * w6
    BY ONLY <1>6, w5 \in Nat, w6 \in Nat, SMT
  <2>3. 48 * w6 < full
    BY ONLY <1>4, <1>7, w6 \in Nat, w7 \in Nat, w8 \in Nat, w9 \in Nat,
       w10 \in Nat, w11 \in Nat, full \in Nat, SMT
  <2> QED BY ONLY <2>1, <2>2, <2>3, delta \in Int, w5 \in Nat, w6 \in Nat,
             full \in Nat, SMT
<1>9. 7 * full < 8 * order
  BY ONLY <1>3, <1>8, full \in Nat, order \in Nat, delta \in Int, SMT
<1> QED BY ONLY <1>2, <1>3, <1>9, Zenon

\* What twelve limbs of the given sizes stand for is less than seven eighths of
\* what they span.
LEMMA FinishWithin ==
  ASSUME CodeScalars, NEW s \in Wide,
         \A j \in 0..5 : Within0(s[j], Two61),
         \A j \in 6..10 : Within0(s[j], Two40), Within0(s[11], Two20)
  PROVE  -7 * ScFull <= 8 * ScStore(s) /\ 8 * ScStore(s) <= 7 * ScFull
<1> DEFINE size(i) == IF i <= 5 THEN Two61 ELSE IF i = 11 THEN Two20 ELSE Two40
           y == [i \in 0..11 |-> s[i] * ScWorth[i]]
           g == [i \in 0..11 |-> -(size(i) * ScWorth[i])]
           e == [i \in 0..11 |-> size(i) * ScWorth[i]]
<1>1. /\ Two61 \in Nat /\ Two20 \in Nat /\ Two40 \in Nat
  BY SMT DEF Two20, Two40, Two61
<1>2. \A i \in 0..11 : s[i] \in Int
  <2>1. \A i \in 0..11 : i \in ScLimb BY SMT DEF ScLimb
  <2> QED BY <2>1 DEF Wide
<1>3. \A i \in 0..11 : size(i) \in Nat /\ Within0(s[i], size(i))
  <2> SUFFICES ASSUME NEW i \in 0..11
               PROVE size(i) \in Nat /\ Within0(s[i], size(i))
    OBVIOUS
  <2>1. size(i) \in Nat BY <1>1
  <2>2. CASE i <= 5
    <3>1. i \in 0..5 BY <2>2, SMT
    <3>2. size(i) = Two61 BY <2>2
    <3> HIDE DEF size
    <3> QED BY <2>1, <3>1, <3>2
  <2>3. CASE i = 11
    <3>1. size(i) = Two20
      <4>1. ~(11 <= 5) BY SMT
      <4> QED BY <2>3, <4>1
    <3> HIDE DEF size
    <3> QED BY <2>1, <2>3, <3>1
  <2>4. CASE ~(i <= 5) /\ i # 11
    <3>1. i \in 6..10 BY <2>4, SMT
    <3>2. size(i) = Two40 BY <2>4
    <3> HIDE DEF size
    <3> QED BY <2>1, <3>1, <3>2
  <2> QED BY <2>2, <2>3, <2>4
<1>4. /\ e[0] = Two61 * ScWorth[0] /\ e[1] = Two61 * ScWorth[1]
      /\ e[2] = Two61 * ScWorth[2] /\ e[3] = Two61 * ScWorth[3]
      /\ e[4] = Two61 * ScWorth[4] /\ e[5] = Two61 * ScWorth[5]
  BY SMT
<1>5. /\ e[6] = Two40 * ScWorth[6] /\ e[7] = Two40 * ScWorth[7]
      /\ e[8] = Two40 * ScWorth[8] /\ e[9] = Two40 * ScWorth[9]
      /\ e[10] = Two40 * ScWorth[10] /\ e[11] = Two20 * ScWorth[11]
  BY SMT
<1> HIDE DEF size
<1>6. \A i \in 0..11 : g[i] = (-1) * e[i] /\ e[i] \in Int
  <2> SUFFICES ASSUME NEW i \in 0..11 PROVE g[i] = (-1) * e[i] /\ e[i] \in Int
    OBVIOUS
  <2>1. PICK n \in Nat, w \in Nat : n = size(i) /\ w = ScWorth[i]
    BY <1>3, ScNat
  <2>2. n * w \in Int /\ -(n * w) = (-1) * (n * w) BY SMT
  <2> QED BY <2>1, <2>2
<1>7. \A i \in 0..11 : y[i] \in Int /\ g[i] <= y[i] /\ y[i] <= e[i]
  <2> SUFFICES ASSUME NEW i \in 0..11
               PROVE y[i] \in Int /\ g[i] <= y[i] /\ y[i] <= e[i]
    OBVIOUS
  <2>1. PICK n \in Nat, w \in Nat, x \in Int :
          n = size(i) /\ w = ScWorth[i] /\ x = s[i] /\ -n <= x /\ x <= n
    BY <1>2, <1>3, ScNat DEF Within0
  <2>2. w \in Int /\ -w <= w /\ w <= w BY SMT
  <2>3. -(n * w) <= x * w /\ x * w <= n * w
    BY ONLY <2>1, <2>2, ProductWithin, n \in Nat, w \in Nat, x \in Int
  <2>4. x * w \in Int BY SMT
  <2>5. y[i] = x * w /\ g[i] = -(n * w) /\ e[i] = n * w BY <2>1
  <2> QED BY ONLY <2>3, <2>4, <2>5, Zenon
<1>8. ScStore(s) = TotalOf12(y) BY DEF ScStore
<1>9. g = [i \in 0..11 |-> (-1) * e[i]] BY <1>6
<1>10. y \in Twelve /\ g \in Twelve /\ e \in Twelve
  <2>1. \A n \in Int : (-1) * n \in Int BY SMT
  <2>2. \A i \in 0..11 : g[i] \in Int BY <1>6, <2>1
  <2> QED BY <1>6, <1>7, <2>2 DEF Twelve
<1> HIDE DEF y, g, e
<1>11. TotalOf12(g) <= TotalOf12(y) /\ TotalOf12(y) <= TotalOf12(e)
  BY <1>7, <1>10, Total12Within
<1>12. TotalOf12(g) = (-1) * TotalOf12(e)
  BY <1>9, <1>10, Total12Scale, -1 \in Int
<1>13. TotalOf12(y) \in Int /\ TotalOf12(e) \in Int BY <1>10, Total12Add
<1>14. \A i \in 0..11 : ScWorth[i] \in Nat BY ScNat
<1>15. e[0] + e[1] + e[2] + e[3] + e[4] + e[5] <= Two20 * ScWorth[8]
  <2>1. PICK w0 \in Nat, w1 \in Nat, w2 \in Nat, w3 \in Nat, w4 \in Nat,
             w5 \in Nat :
          /\ w0 = ScWorth[0] /\ w1 = ScWorth[1] /\ w2 = ScWorth[2]
          /\ w3 = ScWorth[3] /\ w4 = ScWorth[4] /\ w5 = ScWorth[5]
    <3>1. /\ 0 \in 0..11 /\ 1 \in 0..11 /\ 2 \in 0..11 /\ 3 \in 0..11
          /\ 4 \in 0..11 /\ 5 \in 0..11
      BY SMT
    <3> QED BY <1>14, <3>1
  <2>2. PICK w6 \in Nat, w7 \in Nat, w8 \in Nat :
          w6 = ScWorth[6] /\ w7 = ScWorth[7] /\ w8 = ScWorth[8]
    <3>1. 6 \in 0..11 /\ 7 \in 0..11 /\ 8 \in 0..11 BY SMT
    <3> QED BY <1>14, <3>1
  <2>3. /\ w1 = 2097152 * w0 /\ w2 = 2097152 * w1 /\ w3 = 2097152 * w2
        /\ w4 = 2097152 * w3 /\ w5 = 2097152 * w4 /\ w6 = 2097152 * w5
        /\ w7 = 2097152 * w6 /\ w8 = 2097152 * w7
    BY ONLY <2>1, <2>2, WorthChain, CodeScalars, SMT
  <2>4. Two61 * w0 + Two61 * w1 + Two61 * w2 + Two61 * w3 + Two61 * w4
          + Two61 * w5 <= Two20 * w8
    BY ONLY <2>3, w0 \in Nat, w1 \in Nat, w2 \in Nat, w3 \in Nat,
       w4 \in Nat, w5 \in Nat, w6 \in Nat, w7 \in Nat, w8 \in Nat, SMT
       DEF Two20, Two61
  <2> QED BY ONLY <1>4, <2>1, <2>2, <2>4, Zenon
<1>16. e[6] + e[7] + e[8] + e[9] + e[10] + e[11]
         <= (Two20 + 600000) * ScWorth[11]
  BY ONLY <1>5, <1>14, WorthChain, CodeScalars, SMT DEF Two20, Two40
<1>17. ScFull \in Nat BY ScNat
<1>18. PICK a \in Int, b \in Int :
         /\ a = e[0] + e[1] + e[2] + e[3] + e[4] + e[5]
         /\ b = e[6] + e[7] + e[8] + e[9] + e[10] + e[11]
  <2>1. \A i \in 0..11 : e[i] \in Int BY <1>10 DEF Twelve
  <2>2. e[0] + e[1] + e[2] + e[3] + e[4] + e[5] \in Int BY ONLY <2>1, SMT
  <2>3. e[6] + e[7] + e[8] + e[9] + e[10] + e[11] \in Int BY ONLY <2>1, SMT
  <2> QED BY ONLY <2>2, <2>3
<1>19. TotalOf12(e) = a + b BY ONLY <1>18, Zenon DEF TotalOf12
<1>20. a <= Two20 * ScWorth[8] /\ b <= (Two20 + 600000) * ScWorth[11]
  BY ONLY <1>15, <1>16, <1>18, SMT
<1>21. 8 * (a + b) <= 7 * ScFull
  <2>1. Two20 * ScWorth[8] <= ScWorth[11]
    BY ONLY <1>14, WorthChain, CodeScalars, SMT DEF Two20
  <2>2. PICK w \in Nat : w = ScWorth[11] BY <1>14, SMT
  <2>3. ScFull = 2097152 * w BY ONLY <2>2, WorthChain, CodeScalars, SMT
  <2>4. a <= w /\ b <= (Two20 + 600000) * w
    <3>1. PICK v \in Int : v = Two20 * ScWorth[8]
      <4>1. \A x, z \in Nat : x * z \in Int BY SMT
      <4>2. ScWorth[8] \in Nat BY <1>14, SMT
      <4> QED BY <1>1, <4>1, <4>2
    <3> QED BY ONLY <1>20, <2>1, <2>2, <3>1, a \in Int, w \in Nat, SMT
  <2> QED BY ONLY <2>3, <2>4, a \in Int, b \in Int, w \in Nat, SMT DEF Two20
<1>22. PICK z \in Int, v \in Int, f \in Nat :
         z = TotalOf12(y) /\ v = a + b /\ f = ScFull
  BY <1>13, <1>17
<1>23. (-1) * v <= z /\ z <= v /\ 8 * v <= 7 * f
  BY ONLY <1>11, <1>12, <1>19, <1>21, <1>22, Zenon
<1>24. -7 * f <= 8 * z /\ 8 * z <= 7 * f
  BY ONLY <1>23, z \in Int, v \in Int, f \in Nat, SMT
<1> QED BY ONLY <1>8, <1>22, <1>24, Zenon

\* What remains of a number after a multiple of the order.
LEMMA SameRemainder ==
  ASSUME NEW a \in Int, NEW b \in Int, ScSame(a, b)
  PROVE  a % ScOrder = b % ScOrder
<1>1. PICK p \in Nat : p = ScOrder /\ p > 0 BY ScNat
<1>2. PICK k \in Int : a = b + k * p BY <1>1 DEF ScSame
<1>3. (b + k * p) % p = b % p BY <1>1, ModShift
<1> QED BY ONLY <1>1, <1>2, <1>3, Zenon

\* The first fold of sc.c:288: the number hardly leaves what the twelve limbs
\* span.
LEMMA FirstFinish ==
  ASSUME CodeScalars, NEW u, Shrunk(u)
  PROVE  LET t == FoldLimb(u, 12)
         IN /\ t \in Wide /\ ScSame(ScNumber(t), ScNumber(u))
            /\ \A j \in 12..23 : t[j] = 0
            /\ -7 * ScFull <= 8 * ScNumber(t) /\ 8 * ScNumber(t) <= 7 * ScFull
<1> DEFINE t == FoldLimb(u, 12)
<1>1. u \in Wide BY DEF Shrunk
<1>2. \A j \in ScLimb : u[j] \in Int BY <1>1 DEF Wide
<1>3. /\ t \in Wide /\ t[12] = 0
      /\ \A k \in 1..6 : t[12 - 13 + k] = u[12 - 13 + k] + u[12] * Delta[k]
      /\ \A j \in ScLimb : j # 12 /\ j \notin (12 - 12)..(12 - 7) =>
           t[j] = u[j]
      /\ ScNumber(t) = ScNumber(u) - (u[12] * ScWorth[12 - 12]) * ScOrder
  <2>1. 12 \in 12..23 BY SMT
  <2> QED BY <1>1, <2>1, ScFold
<1> HIDE DEF t
<1>4. ScSame(ScNumber(t), ScNumber(u))
  <2>1. PICK p \in Nat, n \in Int, a \in Int, w \in Nat :
          /\ p = ScOrder /\ n = ScNumber(u) /\ a = u[12]
          /\ w = ScWorth[12 - 12]
    <3>1. 12 - 12 \in 0..11 /\ 12 \in ScLimb BY SMT DEF ScLimb
    <3> QED BY <1>1, <1>2, <3>1, ScNat, ScNumberInt
  <2>2. ScNumber(t) = n - (a * w) * p BY ONLY <1>3, <2>1, Zenon
  <2>3. PICK k \in Int : k = -(a * w)
    <3>1. -(a * w) \in Int BY SMT
    <3> QED BY <3>1
  <2>4. n - (a * w) * p = n + (-(a * w)) * p BY SMT
  <2>5. ScNumber(t) = n + k * p BY ONLY <2>2, <2>3, <2>4, Zenon
  <2> QED BY ONLY <2>1, <2>5, k \in Int, Zenon DEF ScSame
<1>5. ASSUME NEW j \in 12..23 PROVE t[j] = 0
  <2>1. CASE j = 12 BY <1>3, <2>1
  <2>2. CASE j # 12
    <3>1. j \in 13..23 /\ j \in ScLimb /\ j \notin (12 - 12)..(12 - 7)
      BY <2>2, SMT DEF ScLimb
    <3>2. t[j] = u[j] BY <1>3, <2>2, <3>1
    <3> QED BY <3>1, <3>2 DEF Shrunk
  <2> QED BY <2>1, <2>2
<1>6. ASSUME NEW j \in 0..5 PROVE Within0(t[j], Two61)
  <2>1. PICK k \in 1..6 : k = j + 1 /\ 12 - 13 + k = j
    <3>1. j + 1 \in 1..6 /\ 12 - 13 + (j + 1) = j BY SMT
    <3> QED BY <3>1
  <2>2. j \in ScLimb /\ 12 \in ScLimb /\ j \in 0..10 BY SMT DEF ScLimb
  <2>3. PICK x \in Int, y \in Int : x = u[j] /\ y = u[12] BY <1>2, <2>2
  <2>4. PICK d \in Int : d = y * Delta[k]
    <3>1. \A a, b \in Int : a * b \in Int BY SMT
    <3> QED BY <3>1, ScNat
  <2>5. Within0(x, Two40) /\ Within0(y, Two40)
    BY ONLY <2>2, <2>3, Shrunk(u), Zenon DEF Shrunk
  <2>6. PICK m \in Nat, g \in Nat : m = Two40 /\ g = Two60
    BY SMT DEF Two40, Two60
  <2>7. -m <= y /\ y <= m BY ONLY <2>5, <2>6, Zenon DEF Within0
  <2>8. m * Two20 = g BY ONLY <2>6, SMT DEF Two20, Two40, Two60
  <2>9. -g <= d /\ d <= g BY <2>4, <2>7, <2>8, FoldedWithin
  <2>10. t[j] = x + d BY ONLY <1>3, <2>1, <2>3, <2>4, Zenon
  <2>11. -Two61 <= x + d /\ x + d <= Two61
    <3>1. -m <= x /\ x <= m BY ONLY <2>5, <2>6, Zenon DEF Within0
    <3> QED BY ONLY <2>6, <2>9, <3>1, x \in Int, d \in Int, m \in Nat,
               g \in Nat, SMT DEF Two40, Two60, Two61
  <2> QED BY ONLY <2>10, <2>11, Zenon DEF Within0
<1>7. \A j \in 6..11 : t[j] = u[j]
  <2>1. \A j \in 6..11 : j \in ScLimb /\ j # 12
                         /\ j \notin (12 - 12)..(12 - 7)
    BY SMT DEF ScLimb
  <2> QED BY <1>3, <2>1
<1>8. (\A j \in 6..10 : Within0(t[j], Two40)) /\ Within0(t[11], Two20)
  <2>1. \A j \in 6..10 : j \in 6..11 /\ j \in 0..10 BY SMT
  <2>2. 11 \in 6..11 BY SMT
  <2> QED BY ONLY <1>7, <2>1, <2>2, Shrunk(u), Zenon DEF Shrunk
<1>9. -7 * ScFull <= 8 * ScStore(t) /\ 8 * ScStore(t) <= 7 * ScFull
  BY <1>3, <1>6, <1>8, FinishWithin
<1>10. ScNumber(t) = ScStore(t)
  <2>1. \A j \in 13..23 : j \in 12..23 BY SMT
  <2>2. ScNumber(t) = ScStore(t) + t[12] * ScFull /\ ScStore(t) \in Int
    BY <1>3, <1>5, <2>1, ScNumberLow
  <2>3. PICK n \in Int, f \in Nat : n = ScStore(t) /\ f = ScFull
    BY <2>2, ScNat
  <2>4. n + 0 * f = n BY SMT
  <2> QED BY ONLY <1>3, <2>2, <2>3, <2>4, Zenon
<1> QED BY ONLY <1>3, <1>4, <1>5, <1>9, <1>10, Zenon DEF t

\* The floors and the second fold of sc.c:302-329: a number below the order.
LEMMA SecondFinish ==
  ASSUME CodeScalars, NEW s \in Wide, \A j \in 12..23 : s[j] = 0,
         -7 * ScFull <= 8 * ScNumber(s), 8 * ScNumber(s) <= 7 * ScFull
  PROVE  LET t == FoldLimb(Floors(s, 11), 12)
         IN /\ t \in Wide /\ ScSame(ScNumber(t), ScNumber(s))
            /\ \A j \in 12..23 : t[j] = 0
            /\ 0 <= ScNumber(t) /\ ScNumber(t) < ScOrder
<1> DEFINE q == Floors(s, 11)
           t == FoldLimb(q, 12)
<1>1. /\ q \in Wide /\ ScNumber(q) = ScNumber(s)
      /\ \A j \in 0..11 : 0 <= q[j] /\ q[j] < ScSpan
      /\ \A j \in ScLimb : j > 11 + 1 => q[j] = s[j]
  <2>1. 11 \in 0..22 BY SMT
  <2> QED BY <2>1, FloorsAre
<1> HIDE DEF q
<1>2. \A j \in 13..23 : q[j] = 0
  <2>1. \A j \in 13..23 : j \in ScLimb /\ j > 11 + 1 /\ j \in 12..23
    BY SMT DEF ScLimb
  <2> QED BY <1>1, <2>1
<1>3. PICK d \in Int, f \in Nat, n \in Int, c \in Int, o \in Nat :
        /\ d = ScStore(q) /\ f = ScFull /\ n = ScNumber(s) /\ c = q[12]
        /\ o = ScOrder /\ n = d + c * f
  <2>1. ScNumber(q) = ScStore(q) + q[12] * ScFull /\ ScStore(q) \in Int
    BY <1>1, <1>2, ScNumberLow
  <2>2. q[12] \in Int
    <3>1. 12 \in ScLimb BY SMT DEF ScLimb
    <3> QED BY <1>1, <3>1 DEF Wide
  <2> QED BY <1>1, <2>1, <2>2, ScNat, ScNumberInt
<1>4. 0 <= d /\ d < f
  <2>1. 0 <= ScStore(q) /\ ScStore(q) < ScFull BY <1>1, DigitsWithin
  <2> QED BY ONLY <1>3, <2>1, Zenon
<1>5. -7 * f <= 8 * n /\ 8 * n <= 7 * f /\ 7 * f < 8 * o
  BY ONLY <1>3, -7 * ScFull <= 8 * ScNumber(s), 8 * ScNumber(s) <= 7 * ScFull,
     CodeScalars, OrderIsLarge, Zenon
<1>6. c = 0 \/ c = -1
  <2>1. CASE c >= 1
    <3>1. c * f >= f BY <2>1, SMT
    <3>2. PICK v \in Int : v = c * f
      <4>1. c * f \in Int BY SMT
      <4> QED BY <4>1
    <3>3. n = d + v /\ v >= f BY ONLY <1>3, <3>1, <3>2, Zenon
    <3> QED BY ONLY <1>4, <1>5, <3>3, n \in Int, d \in Int, v \in Int,
               f \in Nat, SMT
  <2>2. CASE c <= -2
    <3>1. c * f <= (-2) * f BY <2>2, SMT
    <3>2. PICK v \in Int : v = c * f
      <4>1. c * f \in Int BY SMT
      <4> QED BY <4>1
    <3>3. n = d + v /\ v <= (-2) * f BY ONLY <1>3, <3>1, <3>2, Zenon
    <3> QED BY ONLY <1>4, <1>5, <3>3, n \in Int, d \in Int, v \in Int,
               f \in Nat, SMT
  <2>3. c >= 1 \/ c <= -2 \/ c = 0 \/ c = -1 BY ONLY c \in Int, SMT
  <2> QED BY <2>1, <2>2, <2>3
<1>7. /\ t \in Wide /\ t[12] = 0
      /\ \A j \in ScLimb : j # 12 /\ j \notin (12 - 12)..(12 - 7) =>
           t[j] = q[j]
      /\ ScNumber(t) = ScNumber(q) - (q[12] * ScWorth[12 - 12]) * ScOrder
  <2>1. 12 \in 12..23 BY SMT
  <2> QED BY <1>1, <2>1, ScFold
<1> HIDE DEF t
<1>8. ScNumber(t) = n - c * o
  <2>1. 12 - 12 = 0 /\ c * 1 = c BY SMT
  <2>2. ScWorth[0] = 1 BY ScalarAssumption
  <2>3. ScNumber(t) = n - (c * 1) * o
    BY ONLY <1>1, <1>3, <1>7, <2>1, <2>2, Zenon
  <2> QED BY ONLY <2>1, <2>3, Zenon
<1>9. 0 <= n - c * o /\ n - c * o < o
  <2>1. CASE c = 0
    <3>1. n = d + 0 * f /\ n - c * o = n - 0 * o BY ONLY <1>3, <2>1, Zenon
    <3>2. n = d /\ n - 0 * o = n BY ONLY <3>1, d \in Int, f \in Nat,
      o \in Nat, n \in Int, SMT
    <3>3. 0 <= n /\ n < o
      BY ONLY <1>4, <1>5, <3>2, n \in Int, d \in Int, f \in Nat, o \in Nat, SMT
    <3> QED BY ONLY <3>1, <3>2, <3>3, Zenon
  <2>2. CASE c = -1
    <3>1. n = d + (-1) * f /\ n - c * o = n - (-1) * o
      BY ONLY <1>3, <2>2, Zenon
    <3>2. 0 <= n - (-1) * o /\ n - (-1) * o < o
      BY ONLY <1>4, <1>5, <3>1, n \in Int, d \in Int, f \in Nat, o \in Nat, SMT
    <3> QED BY ONLY <3>1, <3>2, Zenon
  <2> QED BY <1>6, <2>1, <2>2
<1>10. ScSame(ScNumber(t), ScNumber(s))
  <2>1. PICK k \in Int : k = -c
    <3>1. -c \in Int OBVIOUS
    <3> QED BY <3>1
  <2>2. n - c * o = n + k * o
    <3>1. n - c * o = n + (-c) * o BY SMT
    <3> QED BY <2>1, <3>1
  <2>3. ScNumber(t) = ScNumber(s) + k * ScOrder
    BY ONLY <1>3, <1>8, <2>2, Zenon
  <2> QED BY <2>3 DEF ScSame
<1>11. ASSUME NEW j \in 12..23 PROVE t[j] = 0
  <2>1. CASE j = 12 BY <1>7, <2>1
  <2>2. CASE j # 12
    <3>1. j \in 13..23 /\ j \in ScLimb /\ j \notin (12 - 12)..(12 - 7)
      BY <2>2, SMT DEF ScLimb
    <3> QED BY <1>2, <1>7, <2>2, <3>1
  <2> QED BY <2>1, <2>2
<1>12. 0 <= ScNumber(t) /\ ScNumber(t) < ScOrder
  BY ONLY <1>3, <1>8, <1>9, Zenon
<1> QED BY ONLY <1>7, <1>10, <1>11, <1>12, Zenon DEF t, q

\* The rest that sc_reduce and sc_muladd store is what remains of the number
\* modulo the order; the limbs below the top one are digits.
LEMMA FinishIs ==
  ASSUME CodeScalars, NEW u, Shrunk(u)
  PROVE  LET t == ScFinish(u)
         IN /\ ScStore(t) = ScNumber(u) % ScOrder
            /\ \A j \in 0..10 : 0 <= t[j] /\ t[j] < ScSpan
<1> DEFINE a == FoldLimb(u, 12)
           b == FoldLimb(Floors(a, 11), 12)
           t == Floors(b, 10)
<1>1. ScFinish(u) = t BY DEF ScFinish
<1>2. /\ a \in Wide /\ ScSame(ScNumber(a), ScNumber(u))
      /\ \A j \in 12..23 : a[j] = 0
      /\ -7 * ScFull <= 8 * ScNumber(a) /\ 8 * ScNumber(a) <= 7 * ScFull
  BY FirstFinish, Zenon
<1> HIDE DEF a
<1>3. /\ b \in Wide /\ ScSame(ScNumber(b), ScNumber(a))
      /\ \A j \in 12..23 : b[j] = 0
      /\ 0 <= ScNumber(b) /\ ScNumber(b) < ScOrder
  BY <1>2, SecondFinish, Zenon
<1> HIDE DEF b
<1>4. /\ t \in Wide /\ ScNumber(t) = ScNumber(b)
      /\ \A j \in 0..10 : 0 <= t[j] /\ t[j] < ScSpan
      /\ \A j \in ScLimb : j > 10 + 1 => t[j] = b[j]
  <2>1. 10 \in 0..22 BY SMT
  <2> QED BY <1>3, <2>1, FloorsAre
<1> HIDE DEF t
<1>5. \A j \in 12..23 : t[j] = 0
  <2>1. \A j \in 12..23 : j \in ScLimb /\ j > 10 + 1 BY SMT DEF ScLimb
  <2> QED BY <1>3, <1>4, <2>1
<1>6. ScNumber(t) = ScStore(t) /\ ScStore(t) \in Int
  <2>1. \A j \in 13..23 : j \in 12..23 BY SMT
  <2>2. ScNumber(t) = ScStore(t) + t[12] * ScFull /\ ScStore(t) \in Int
    BY <1>4, <1>5, <2>1, ScNumberLow
  <2>3. PICK n \in Int, f \in Nat : n = ScStore(t) /\ f = ScFull
    BY <2>2, ScNat
  <2>4. n + 0 * f = n BY SMT
  <2>5. t[12] = 0
    <3>1. 12 \in 12..23 BY SMT
    <3> QED BY <1>5, <3>1
  <2> QED BY ONLY <2>2, <2>3, <2>4, <2>5, Zenon
<1>7. ScNumber(u) % ScOrder = ScStore(t)
  <2>1. PICK r \in Nat : r = ScStore(t) /\ r = ScNumber(b) /\ r < ScOrder
    <3>1. ScStore(t) \in Nat
      <4>1. PICK x \in Int : x = ScStore(t) BY <1>6
      <4>2. 0 <= x BY ONLY <1>3, <1>4, <1>6, <4>1, Zenon
      <4> QED BY <4>1, <4>2
    <3> QED BY ONLY <1>3, <1>4, <1>6, <3>1, Zenon
  <2>2. ScNumber(u) \in Int /\ ScNumber(a) \in Int
    <3>1. u \in Wide BY DEF Shrunk
    <3> QED BY <1>2, <3>1, ScNumberInt
  <2>3. r % ScOrder = ScNumber(a) % ScOrder
    <3>1. ScSame(r, ScNumber(a)) BY ONLY <1>3, <2>1, Zenon
    <3> QED BY <2>2, <3>1, SameRemainder
  <2>4. ScNumber(a) % ScOrder = ScNumber(u) % ScOrder
    BY <1>2, <2>2, SameRemainder
  <2>5. r % ScOrder = r
    <3>1. PICK p \in Nat : p = ScOrder /\ p > 0 BY ScNat
    <3>2. r < p BY <2>1, <3>1
    <3>3. (0 * p + r) % p = r BY <3>1, <3>2, ModIs
    <3>4. 0 * p + r = r BY SMT
    <3> QED BY ONLY <3>1, <3>3, <3>4, Zenon
  <2> QED BY ONLY <2>1, <2>3, <2>4, <2>5, Zenon
<1> QED BY ONLY <1>1, <1>4, <1>7, Zenon

\* The limbs of a number from the i-th on.
Tail24(s, i) == [j \in ScLimb |-> IF j >= i THEN s[j] ELSE 0]

\* What is loaded has the digits in its first limbs and zeros behind them.
LEMMA ScLoadWide ==
  ASSUME NEW n \in 1..24, NEW digits \in [1..n -> Nat]
  PROVE  /\ ScLoad(digits) \in Wide
         /\ \A j \in 0..(n - 1) : ScLoad(digits)[j] = digits[j + 1]
         /\ \A j \in n..23 : ScLoad(digits)[j] = 0
<1> DEFINE t == ScLoad(digits)
<1>1. \A j \in ScLimb :
        t[j] = IF j + 1 \in DOMAIN digits THEN digits[j + 1] ELSE 0
  BY DEF ScLoad
<1>2. DOMAIN digits = 1..n OBVIOUS
<1>3. \A j \in ScLimb : t[j] \in Int
  <2> SUFFICES ASSUME NEW j \in ScLimb PROVE t[j] \in Int
    OBVIOUS
  <2>1. CASE j + 1 \in 1..n
    <3>1. t[j] = digits[j + 1] BY <1>1, <1>2, <2>1
    <3>2. digits[j + 1] \in Nat BY <2>1
    <3> HIDE DEF t
    <3> QED BY <3>1, <3>2
  <2>2. CASE j + 1 \notin 1..n
    <3>1. t[j] = 0 BY <1>1, <1>2, <2>2
    <3> HIDE DEF t
    <3> QED BY <3>1
  <2> QED BY <2>1, <2>2
<1>4. t \in Wide
  <2>1. t = [j \in ScLimb |-> t[j]] BY DEF ScLoad
  <2> HIDE DEF t
  <2> QED BY <1>3, <2>1 DEF Wide
<1>5. \A j \in 0..(n - 1) : j \in ScLimb /\ j + 1 \in 1..n BY SMT DEF ScLimb
<1>6. \A j \in n..23 : j \in ScLimb /\ j + 1 \notin 1..n BY SMT DEF ScLimb
<1> HIDE DEF t
<1> QED BY <1>1, <1>2, <1>4, <1>5, <1>6 DEF t

\* From the top: what the limbs from the i-th on stand for, in units of the
\* i-th limb, times b is what ScProduct has there modulo the order.
Horner(digits, b, from, i) ==
  /\ from[i] \in Int
  /\ \E h \in Int : /\ ScNumber(Tail24(ScLoad(digits), i)) = h * Place(i)
                    /\ ScSame(from[i], h * b)

\* One more digit of the school's multiplication.
LEMMA HornerStep ==
  ASSUME NEW n \in {12, 24}, NEW digits \in [1..n -> Nat], NEW b \in Int,
         NEW from, NEW i \in 0..(n - 1), from[i + 1] \in Int, NEW h \in Int,
         ScNumber(Tail24(ScLoad(digits), i + 1)) = h * (Place(i) * ScSpan),
         ScSame(from[i + 1], h * b),
         from[i] = (from[i + 1] * ScSpan + digits[i + 1] * b) % ScOrder
  PROVE  /\ Horner(digits, b, from, i)
         /\ from[i] \in Nat /\ from[i] < ScOrder
<1> DEFINE s == ScLoad(digits)
           u == Tail24(s, i + 1)
           t == Tail24(s, i)
<1>1. i \in ScLimb /\ i + 1 \in 1..n /\ n \in 1..24 BY SMT DEF ScLimb
<1>2. s \in Wide /\ s[i] = digits[i + 1] BY <1>1, ScLoadWide
<1> HIDE DEF s
<1>3. PICK d \in Nat : d = digits[i + 1] BY <1>1
<1>4. u \in Wide
  <2>1. \A j \in ScLimb : s[j] \in Int BY <1>2 DEF Wide
  <2> QED BY <2>1 DEF Tail24, Wide
<1>5. t = AddTo(u, i, d)
  <2>1. \A j \in ScLimb : t[j] = AddTo(u, i, d)[j]
    <3> SUFFICES ASSUME NEW j \in ScLimb PROVE t[j] = AddTo(u, i, d)[j]
      OBVIOUS
    <3>1. t[j] = (IF j >= i THEN s[j] ELSE 0)
          /\ u[j] = (IF j >= i + 1 THEN s[j] ELSE 0)
      BY DEF Tail24
    <3>2. DOMAIN u = ScLimb BY DEF Tail24
    <3> HIDE DEF u, t
    <3>3. CASE j = i
      <4>1. AddTo(u, i, d)[j] = u[j] + d BY <3>2, <3>3 DEF AddTo
      <4>2. u[j] = 0 /\ t[j] = d
        <5>1. j >= i /\ ~(j >= i + 1) BY <3>3, SMT
        <5> QED BY <1>2, <1>3, <3>1, <3>3, <5>1
      <4> QED BY <4>1, <4>2
    <3>4. CASE j # i
      <4>1. AddTo(u, i, d)[j] = u[j] BY <3>2, <3>4 DEF AddTo
      <4>2. j >= i <=> j >= i + 1 BY <3>4, SMT DEF ScLimb
      <4> QED BY <3>1, <4>1, <4>2
    <3> QED BY <3>3, <3>4
  <2>2. /\ t = [j \in ScLimb |-> t[j]]
        /\ AddTo(u, i, d) = [j \in ScLimb |-> AddTo(u, i, d)[j]]
    BY DEF Tail24, AddTo
  <2> HIDE DEF t, u
  <2> QED BY ONLY <2>1, <2>2
<1>6. ScNumber(t) = ScNumber(u) + d * Place(i)
  <2>1. d \in Int OBVIOUS
  <2> HIDE DEF t, u
  <2>2. ScNumber(AddTo(u, i, d)) = ScNumber(u) + d * Place(i)
    BY ONLY <1>1, <1>4, <2>1, ScPut
  <2> QED BY ONLY <1>5, <2>2, Zenon
<1>7. PICK m \in Int, w \in Nat, p \in Nat, o \in Nat, x \in Int :
        /\ m = ScNumber(u) /\ w = Place(i) /\ p = ScSpan /\ o = ScOrder
        /\ x = from[i + 1] /\ o > 0
  <2>1. ScNumber(u) \in Int BY <1>4, ScNumberInt
  <2> HIDE DEF u
  <2> QED BY <1>1, <2>1, PlaceNat, ScNat
<1>8. m = h * (w * p)
  BY ONLY <1>7, Zenon,
     ScNumber(Tail24(ScLoad(digits), i + 1)) = h * (Place(i) * ScSpan)
     DEF u, s
<1> HIDE DEF t, u
<1>9. PICK g \in Int : g = h * p + d
  <2>1. h * p + d \in Int BY SMT
  <2> QED BY <2>1
<1>10. ScNumber(t) = g * Place(i)
  <2>1. ScNumber(t) = m + d * w BY ONLY <1>6, <1>7, Zenon
  <2>2. h * (w * p) + d * w = (h * p + d) * w BY SMT
  <2> QED BY ONLY <1>7, <1>8, <1>9, <2>1, <2>2, Zenon
<1>11. PICK k \in Int : x = h * b + k * o
  BY <1>7 DEF ScSame
<1>12. PICK y \in Int : y = x * p + d * b
  <2>1. x * p + d * b \in Int BY SMT
  <2> QED BY <2>1
<1>13. from[i] = y % o
  BY ONLY <1>3, <1>7, <1>12,
     from[i] = (from[i + 1] * ScSpan + digits[i + 1] * b) % ScOrder, Zenon
<1>14. y % o \in Nat /\ y % o < o /\ y \div o \in Int
       /\ y = (y \div o) * o + (y % o)
  BY <1>7, Division
<1>15. PICK q \in Int, r \in Nat : /\ q = y \div o /\ r = y % o
                                   /\ y = q * o + r
  BY <1>14
<1>16. y = g * b + (k * p) * o
  <2>1. (h * b + k * o) * p + d * b = (h * p + d) * b + (k * p) * o BY SMT
  <2> QED BY ONLY <1>9, <1>11, <1>12, <2>1, Zenon
<1>17. r = g * b + (k * p - q) * o
  <2>1. PICK v \in Int, c \in Int : v = g * b /\ c = k * p
    <3>1. g * b \in Int /\ k * p \in Int BY SMT
    <3> QED BY <3>1
  <2>2. (c - q) * o = c * o - q * o /\ c * o \in Int /\ q * o \in Int
        /\ (c - q) * o \in Int
    BY SMT
  <2>3. PICK a1 \in Int, a2 \in Int, a3 \in Int :
          a1 = c * o /\ a2 = q * o /\ a3 = (c - q) * o
    BY <2>2
  <2>4. y = v + a1 /\ y = a2 + r /\ a3 = a1 - a2
    BY ONLY <1>15, <1>16, <2>1, <2>2, <2>3, Zenon
  <2>5. r = v + a3
    BY ONLY <2>4, y \in Int, v \in Int, r \in Nat, a1 \in Int, a2 \in Int,
       a3 \in Int, SMT
  <2> QED BY ONLY <2>1, <2>3, <2>5, Zenon
<1>18. PICK e \in Int : e = k * p - q
  <2>1. k * p - q \in Int BY SMT
  <2> QED BY <2>1
<1>19. ScSame(from[i], g * b)
  BY ONLY <1>7, <1>13, <1>15, <1>17, <1>18, e \in Int, Zenon DEF ScSame
<1>20. from[i] \in Nat /\ from[i] < ScOrder BY ONLY <1>7, <1>13, <1>14, Zenon
<1>21. from[i] \in Int
  <2>1. \A z \in Nat : z \in Int OBVIOUS
  <2> QED BY ONLY <1>20, <2>1, Zenon
<1> QED BY ONLY <1>10, <1>19, <1>20, <1>21, g \in Int, Zenon
           DEF Horner, t, s

\* ScProduct is the product modulo the order.
LEMMA ScProductIs ==
  ASSUME NEW n \in {12, 24}, NEW digits \in [1..n -> Nat], NEW b \in Int
  PROVE  ScProduct(digits, b) = (ScNumber(ScLoad(digits)) * b) % ScOrder
<1> DEFINE L == Len(digits)
           F(a) == [i \in 0..L |->
                      IF i = L THEN 0
                      ELSE (a[i + 1] * ScSpan + digits[i + 1] * b) % ScOrder]
           from == CHOOSE a : a = F(a)
           s == ScLoad(digits)
<1>1. ScProduct(digits, b) = from[0] BY Zenon DEF ScProduct
<1>2. n \in 1..24 /\ n \in Nat /\ n - 1 \in 0..23 BY SMT
<1>3. L = n
  <2>1. digits \in Seq(Nat) BY <1>2
  <2>2. DOMAIN digits = 1..Len(digits) BY <2>1
  <2>3. DOMAIN digits = 1..n OBVIOUS
  <2>4. Len(digits) \in Nat BY <2>1
  <2>5. 1..Len(digits) = 1..n BY ONLY <2>2, <2>3, Zenon
  <2>6. PICK l \in Nat : l = Len(digits) BY <2>4
  <2>7. 1..l = 1..n BY ONLY <2>5, <2>6, Zenon
  <2>8. l = n
    <3>1. n \in 1..n BY <1>2, SMT
    <3>2. n <= l BY ONLY <2>7, <3>1, l \in Nat, n \in {12, 24}, SMT
    <3>3. l \in 1..l BY ONLY <3>2, l \in Nat, n \in {12, 24}, SMT
    <3>4. l <= n BY ONLY <2>7, <3>3, l \in Nat, n \in {12, 24}, SMT
    <3> QED BY ONLY <3>2, <3>4, l \in Nat, n \in {12, 24}, SMT
  <2> QED BY <2>6, <2>8
\* The values there are, from the top.
<1> DEFINE Have(k, a) ==
             /\ a \in [(n - k)..n -> Int] /\ a[n] = 0
             /\ \A i \in (n - k)..(n - 1) :
                  a[i] = (a[i + 1] * ScSpan + digits[i + 1] * b) % ScOrder
           S == {k \in Nat : k <= n => \E a : Have(k, a)}
<1>4. \A i \in 0..(n - 1) : digits[i + 1] \in Nat
  <2>1. \A i \in 0..(n - 1) : i + 1 \in 1..n BY <1>2, SMT
  <2> QED BY <2>1
<1>5. 0 \in S
  <2> DEFINE a == [i \in n..n |-> 0]
  <2>1. n - 0 = n /\ n \in n..n /\ n..(n - 1) = {} BY <1>2, SMT
  <2>2. a[n] = 0 /\ a \in [n..n -> Int] BY <2>1
  <2> HIDE DEF a
  <2>3. Have(0, a) BY ONLY <2>1, <2>2, Zenon
  <2> HIDE DEF Have
  <2> QED BY <2>3
<1>6. \A k \in Nat : k \in S => k + 1 \in S
  <2> SUFFICES ASSUME NEW k \in Nat, k \in S, k + 1 <= n
               PROVE \E e : Have(k + 1, e)
    <3> HIDE DEF Have
    <3> QED OBVIOUS
  <2>1. PICK a : Have(k, a) BY <1>2, SMT
  <2> DEFINE i0 == n - (k + 1)
  <2>2. i0 \in 0..(n - 1) /\ i0 + 1 = n - k /\ i0 + 1 \in (n - k)..n
    BY <1>2, SMT
  <2>3. a[i0 + 1] \in Int BY <2>1, <2>2
  <2>4. digits[i0 + 1] \in Nat BY <1>4, <2>2
  <2> DEFINE v == (a[i0 + 1] * ScSpan + digits[i0 + 1] * b) % ScOrder
             e == [i \in i0..n |-> IF i = i0 THEN v ELSE a[i]]
  <2>5. v \in Int
    <3>1. PICK x \in Int, y \in Nat, p \in Nat, o \in Nat :
            x = a[i0 + 1] /\ y = digits[i0 + 1] /\ p = ScSpan
            /\ o = ScOrder /\ o > 0
      BY <2>3, <2>4, ScNat
    <3>2. x * p + y * b \in Int BY SMT
    <3>3. (x * p + y * b) % o \in Nat BY <3>1, <3>2, Division
    <3>4. v = (x * p + y * b) % o BY ONLY <3>1, Zenon
    <3> HIDE DEF v
    <3> QED BY <3>3, <3>4
  <2> HIDE DEF v
  <2>6. \A i \in i0..n : i = i0 \/ i \in (n - k)..n BY <1>2, <2>2, SMT
  <2>7. e \in [i0..n -> Int]
    <3>1. \A i \in (n - k)..n : a[i] \in Int BY <2>1
    <3> HIDE DEF i0
    <3> QED BY <2>5, <2>6, <3>1
  <2>8. e[n] = 0
    <3>1. n \in i0..n /\ n # i0 BY <1>2, <2>2, SMT
    <3> HIDE DEF i0
    <3> QED BY <2>1, <3>1
  <2>9. ASSUME NEW i \in i0..(n - 1)
        PROVE  e[i] = (e[i + 1] * ScSpan + digits[i + 1] * b) % ScOrder
    <3>1. i \in i0..n /\ i + 1 \in i0..n /\ i + 1 # i0
          /\ (i = i0 \/ i \in (n - k)..(n - 1))
      BY <1>2, <2>2, SMT
    <3>2. e[i + 1] = a[i + 1] BY <3>1
    <3>3. CASE i = i0
      <4>1. e[i] = v BY <3>1, <3>3
      <4> HIDE DEF i0, e
      <4> QED BY ONLY <3>2, <3>3, <4>1, Zenon DEF v
    <3>4. CASE i # i0
      <4>1. e[i] = a[i] /\ i \in (n - k)..(n - 1) BY <3>1, <3>4
      <4> HIDE DEF i0, e
      <4> QED BY <2>1, <3>2, <4>1
    <3> QED BY <3>3, <3>4
  <2> HIDE DEF e
  <2>10. Have(k + 1, e) BY ONLY <2>7, <2>8, <2>9, Zenon DEF i0
  <2> HIDE DEF Have
  <2> QED BY <2>10
<1>7. PICK a : Have(n, a)
  <2> HIDE DEF S
  <2>1. Nat \subseteq S BY <1>5, <1>6, NatLeast
  <2>2. n \in S /\ n <= n BY <1>2, <2>1
  <2> HIDE DEF Have
  <2> QED BY <2>2 DEF S
<1> HIDE DEF S
<1>8. a = F(a)
  <2>1. n - n = 0 BY <1>2
  <2>2. a \in [0..n -> Int] BY <1>7, <2>1
  <2>3. \A i \in 0..n : a[i] = F(a)[i]
    <3> SUFFICES ASSUME NEW i \in 0..n PROVE a[i] = F(a)[i]
      OBVIOUS
    <3>1. F(a)[i] = IF i = n THEN 0
                    ELSE (a[i + 1] * ScSpan + digits[i + 1] * b) % ScOrder
      BY <1>3
    <3>2. i # n => i \in 0..(n - 1) BY <1>2, SMT
    <3> HIDE DEF F
    <3> QED BY <1>7, <2>1, <3>1, <3>2
  <2>4. F(a) = [i \in 0..n |-> F(a)[i]] BY <1>3
  <2> HIDE DEF F
  <2> QED BY <2>2, <2>3, <2>4
<1>9. from = F(from) BY <1>8
<1> HIDE DEF Have
<1>10. /\ from[n] = 0
       /\ \A i \in 0..(n - 1) :
            from[i] = (from[i + 1] * ScSpan + digits[i + 1] * b) % ScOrder
  <2>1. \A i \in 0..n : F(from)[i] =
          IF i = n THEN 0
          ELSE (from[i + 1] * ScSpan + digits[i + 1] * b) % ScOrder
    BY <1>3
  <2>2. n \in 0..n /\ \A i \in 0..(n - 1) : i \in 0..n /\ i # n
    BY <1>2, SMT
  <2> HIDE DEF F, from
  <2> QED BY <1>9, <2>1, <2>2, Zenon
<1> HIDE DEF from
<1>11. s \in Wide /\ \A j \in n..23 : s[j] = 0 BY <1>2, ScLoadWide
<1>12. ScNumber(Tail24(s, n)) = 0
  <2> DEFINE x == [j \in ScLimb |-> Tail24(s, n)[j] * Place(j)]
             none == [j \in ScLimb |-> 0]
  <2>1. \A j \in ScLimb : Tail24(s, n)[j] = 0
    <3>1. \A j \in ScLimb : j >= n => j \in n..23 BY <1>2, SMT DEF ScLimb
    <3> HIDE DEF s
    <3> QED BY <1>11, <3>1 DEF Tail24
  <2>2. \A w \in Nat : 0 * w = 0 BY SMT
  <2>3. \A j \in ScLimb : Tail24(s, n)[j] * Place(j) = 0
    BY <2>1, <2>2, PlaceNat
  <2>4. x = none BY <2>3
  <2>5. Total24(none) = 0 BY SMT DEF Total24, TotalOf12, Upper, ScLimb
  <2> HIDE DEF none
  <2> QED BY <2>4, <2>5 DEF ScNumber
<1> DEFINE G == {k \in Nat : k <= n - 1 =>
                   /\ Horner(digits, b, from, n - 1 - k)
                   /\ from[n - 1 - k] \in Nat
                   /\ from[n - 1 - k] < ScOrder}
<1>13. 0 \in G
  <2>1. PICK i \in 0..(n - 1) : i = n - 1 /\ i + 1 = n
    <3>1. n - 1 \in 0..(n - 1) /\ (n - 1) + 1 = n BY <1>2, SMT
    <3> QED BY <3>1
  <2>2. PICK w \in Nat, p \in Nat : w = Place(i) /\ p = ScSpan
    <3>1. i \in ScLimb BY <1>2, SMT DEF ScLimb
    <3> QED BY <3>1, PlaceNat, ScNat
  <2>3. ScNumber(Tail24(ScLoad(digits), i + 1)) = 0 * (Place(i) * ScSpan)
    <3>1. 0 * (w * p) = 0 BY SMT
    <3> QED BY ONLY <1>12, <2>1, <2>2, <3>1, Zenon
  <2>4. ScSame(from[i + 1], 0 * b)
    <3>1. PICK o \in Nat : o = ScOrder BY ScNat
    <3>2. 0 = 0 * b + 0 * o BY SMT
    <3> QED BY ONLY <1>10, <2>1, <3>1, <3>2, 0 \in Int, Zenon DEF ScSame
  <2>5. from[i + 1] \in Int /\ 0 \in Int BY <1>10, <2>1
  <2>6. from[i] = (from[i + 1] * ScSpan + digits[i + 1] * b) % ScOrder
    BY <1>10
  <2>7. /\ Horner(digits, b, from, i) /\ from[i] \in Nat
        /\ from[i] < ScOrder
    <3>1. PICK zero \in Int : zero = 0 OBVIOUS
    <3>2. ScNumber(Tail24(ScLoad(digits), i + 1)) = zero * (Place(i) * ScSpan)
          /\ ScSame(from[i + 1], zero * b)
      BY ONLY <2>3, <2>4, <3>1, Zenon
    <3> QED BY ONLY <2>5, <2>6, <3>2, n \in {12, 24}, b \in Int,
               digits \in [1..n -> Nat], i \in 0..(n - 1), HornerStep
  <2>8. n - 1 - 0 = i BY <1>2, <2>1
  <2> QED BY ONLY <2>7, <2>8, 0 \in Nat, Zenon
<1>14. \A k \in Nat : k \in G => k + 1 \in G
  <2> SUFFICES ASSUME NEW k \in Nat, k \in G, k + 1 <= n - 1
               PROVE /\ Horner(digits, b, from, n - 1 - (k + 1))
                     /\ from[n - 1 - (k + 1)] \in Nat
                     /\ from[n - 1 - (k + 1)] < ScOrder
    OBVIOUS
  <2>1. PICK i \in 0..(n - 1) : /\ i = n - 1 - (k + 1) /\ i + 1 = n - 1 - k
                                /\ i \in 0..22 /\ k <= n - 1
    <3>1. /\ n - 1 - (k + 1) \in 0..(n - 1) /\ n - 1 - (k + 1) \in 0..22
          /\ (n - 1 - (k + 1)) + 1 = n - 1 - k /\ k <= n - 1
      BY <1>2, SMT
    <3> QED BY <3>1
  <2>2. Horner(digits, b, from, i + 1) BY <2>1
  <2>3. from[i + 1] \in Int BY <2>2 DEF Horner
  <2>4. PICK h \in Int :
          /\ ScNumber(Tail24(ScLoad(digits), i + 1)) = h * Place(i + 1)
          /\ ScSame(from[i + 1], h * b)
    BY <2>2 DEF Horner
  <2>5. Place(i + 1) = Place(i) * ScSpan BY <2>1, PlaceNext
  <2>6. ScNumber(Tail24(ScLoad(digits), i + 1)) = h * (Place(i) * ScSpan)
    BY ONLY <2>4, <2>5, Zenon
  <2>7. from[i] = (from[i + 1] * ScSpan + digits[i + 1] * b) % ScOrder
    BY <1>10
  <2>8. /\ Horner(digits, b, from, i) /\ from[i] \in Nat
        /\ from[i] < ScOrder
    BY ONLY <2>3, <2>4, <2>6, <2>7, n \in {12, 24}, b \in Int,
       digits \in [1..n -> Nat], i \in 0..(n - 1), HornerStep
  <2> QED BY ONLY <2>1, <2>8, Zenon
<1> HIDE DEF G
<1>15. Nat \subseteq G BY <1>13, <1>14, NatLeast
<1>16. Horner(digits, b, from, 0) /\ from[0] \in Nat /\ from[0] < ScOrder
  <2>1. n - 1 \in Nat /\ n - 1 <= n - 1 /\ n - 1 - (n - 1) = 0
    BY <1>2, SMT
  <2>2. n - 1 \in G BY <1>15, <2>1
  <2> QED BY ONLY <2>1, <2>2, Zenon DEF G
<1>17. PICK h \in Int : /\ ScNumber(Tail24(s, 0)) = h * Place(0)
                        /\ ScSame(from[0], h * b)
  BY <1>16 DEF Horner
<1>18. Tail24(s, 0) = s
  <2>1. \A j \in ScLimb : j >= 0 BY SMT DEF ScLimb
  <2>2. s = [j \in ScLimb |-> s[j]] BY <1>11 DEF Wide
  <2> HIDE DEF s
  <2> QED BY <2>1, <2>2 DEF Tail24
<1>19. ScNumber(s) = h
  <2>1. Place(0) = ScWorth[0] BY SMT DEF Place
  <2>2. ScWorth[0] = 1 BY ScalarAssumption
  <2>3. h * 1 = h BY SMT
  <2> QED BY ONLY <1>17, <1>18, <2>1, <2>2, <2>3, Zenon
<1>20. PICK r \in Nat, g \in Int : r = from[0] /\ g = h * b
  <2>1. h * b \in Int BY SMT
  <2> QED BY <1>16, <2>1
<1>21. r % ScOrder = g % ScOrder
  <2>1. ScSame(r, g) BY ONLY <1>17, <1>20, Zenon
  <2> QED BY <2>1, SameRemainder
<1>22. r % ScOrder = r
  <2>1. PICK p \in Nat : p = ScOrder /\ p > 0 BY ScNat
  <2>2. r < p BY ONLY <1>16, <1>20, <2>1, Zenon
  <2>3. (0 * p + r) % p = r BY <2>1, <2>2, ModIs
  <2>4. 0 * p + r = r BY SMT
  <2> QED BY ONLY <2>1, <2>3, <2>4, Zenon
<1> QED BY ONLY <1>1, <1>19, <1>20, <1>21, <1>22, Zenon DEF s

\* Limbs added one by one add up to the sum of the numbers.
LEMMA ScNumberAdd ==
  ASSUME NEW f \in Wide, NEW g \in Wide, NEW t,
         t = [k \in ScLimb |-> f[k] + g[k]]
  PROVE  t \in Wide /\ ScNumber(t) = ScNumber(f) + ScNumber(g)
<1> DEFINE x == [k \in ScLimb |-> f[k] * Place(k)]
           y == [k \in ScLimb |-> g[k] * Place(k)]
           z == [k \in ScLimb |-> t[k] * Place(k)]
<1>1. \A k \in ScLimb : f[k] \in Int /\ g[k] \in Int BY DEF Wide
<1>2. \A k \in ScLimb : t[k] = f[k] + g[k] OBVIOUS
<1>3. t \in Wide BY <1>1 DEF Wide
<1>4. \A a \in Int, b \in Int, w \in Nat :
        (a + b) * w = a * w + b * w /\ a * w \in Int
  BY SMT
<1>5. \A k \in ScLimb : /\ x[k] \in Int /\ y[k] \in Int
                        /\ z[k] = x[k] + y[k]
  BY <1>1, <1>2, <1>4, PlaceNat
<1>6. x \in Wide /\ y \in Wide BY <1>5 DEF Wide
<1>7. z = [k \in ScLimb |-> x[k] + y[k]] BY <1>5
<1>8. ScNumber(t) = Total24(z) /\ ScNumber(f) = Total24(x)
      /\ ScNumber(g) = Total24(y)
  BY DEF ScNumber
<1> HIDE DEF x, y, z
<1>9. Total24(z) = Total24(x) + Total24(y) BY <1>6, <1>7, Total24Add
<1> QED BY <1>3, <1>8, <1>9

\* Limb i of one factor times the other.
Row(x, b, i) ==
  [k \in ScLimb |-> IF k - i \in 0..11 THEN x * b[k - i] ELSE 0]

\* A limb times the limbs of b, moved up, stands for the product.
LEMMA RowIs ==
  ASSUME NEW x \in Int, NEW b \in Wide, NEW i \in 0..11,
         \A j \in 12..23 : b[j] = 0
  PROVE  /\ Row(x, b, i) \in Wide
         /\ ScNumber(Row(x, b, i)) = (x * ScWorth[i]) * ScNumber(b)
<1> DEFINE row(m) == [k \in ScLimb |->
                        IF k - i \in 0..(m - 1) THEN x * b[k - i] ELSE 0]
           head(m) == [k \in ScLimb |-> IF k < m THEN b[k] ELSE 0]
           S == {m \in Nat : m <= 12 =>
                   /\ row(m) \in Wide /\ head(m) \in Wide
                   /\ ScNumber(row(m)) = (x * ScWorth[i]) * ScNumber(head(m))}
<1>1. \A k \in ScLimb : b[k] \in Int BY DEF Wide
<1>2. PICK w \in Nat : w = ScWorth[i] BY ScNat
<1>3. 0 \in S
  <2> DEFINE none == [k \in ScLimb |-> 0]
             y == [k \in ScLimb |-> none[k] * Place(k)]
  <2>1. row(0) = none
    <3>1. 0..(0 - 1) = {} BY SMT
    <3> QED BY <3>1
  <2>2. head(0) = none
    <3>1. \A k \in ScLimb : ~(k < 0) BY SMT DEF ScLimb
    <3> QED BY <3>1
  <2>3. none \in Wide BY DEF Wide
  <2>4. ScNumber(none) = 0
    <3>1. \A v \in Nat : 0 * v = 0 BY SMT
    <3>2. \A k \in ScLimb : none[k] = 0 OBVIOUS
    <3>3. y = none BY <3>1, PlaceNat
    <3>4. Total24(none) = 0 BY SMT DEF Total24, TotalOf12, Upper, ScLimb
    <3>5. ScNumber(none) = Total24(y) BY DEF ScNumber
    <3> HIDE DEF none, y
    <3> QED BY <3>3, <3>4, <3>5
  <2>5. PICK c \in Int : c = x * w
    <3>1. x * w \in Int BY SMT
    <3> QED BY <3>1
  <2>6. c * 0 = 0 BY SMT
  <2> HIDE DEF none, row, head
  <2>7. ScNumber(row(0)) = (x * ScWorth[i]) * ScNumber(head(0))
    BY ONLY <1>2, <2>1, <2>2, <2>4, <2>5, <2>6, Zenon
  <2> QED BY ONLY <2>1, <2>2, <2>3, <2>7, 0 \in Nat, Zenon
<1>4. \A m \in Nat : m \in S => m + 1 \in S
  <2> SUFFICES ASSUME NEW m \in Nat, m \in S, m + 1 <= 12
               PROVE /\ row(m + 1) \in Wide /\ head(m + 1) \in Wide
                     /\ ScNumber(row(m + 1))
                          = (x * ScWorth[i]) * ScNumber(head(m + 1))
    <3> HIDE DEF row, head
    <3> QED OBVIOUS
  <2>1. m <= 12 /\ m \in 0..11 /\ m \in ScLimb /\ i + m \in ScLimb
        /\ (m + 1) - 1 = m /\ (i + m) - i = m
    BY SMT DEF ScLimb
  <2>2. /\ row(m) \in Wide /\ head(m) \in Wide
        /\ ScNumber(row(m)) = (x * ScWorth[i]) * ScNumber(head(m))
    <3> HIDE DEF row, head
    <3> QED BY <2>1
  <2>3. PICK d \in Int, e \in Int : d = b[m] /\ e = x * d
    <3>1. b[m] \in Int BY <1>1, <2>1
    <3>2. \A a \in Int : x * a \in Int BY SMT
    <3> QED BY <3>1, <3>2
  <2>4. head(m + 1) = AddTo(head(m), m, d)
    <3>1. \A k \in ScLimb : head(m + 1)[k] = AddTo(head(m), m, d)[k]
      <4> SUFFICES ASSUME NEW k \in ScLimb
                   PROVE head(m + 1)[k] = AddTo(head(m), m, d)[k]
        OBVIOUS
      <4>1. CASE k = m
        <5>1. k < m + 1 /\ ~(k < m) BY <4>1, SMT
        <5>2. head(m + 1)[k] = d /\ head(m)[k] = 0 BY <2>3, <4>1, <5>1
        <5>3. AddTo(head(m), m, d)[k] = head(m)[k] + d
          BY <4>1 DEF AddTo
        <5>4. 0 + d = d BY SMT
        <5> HIDE DEF head
        <5> QED BY ONLY <5>2, <5>3, <5>4, Zenon
      <4>2. CASE k # m
        <5>1. k < m + 1 <=> k < m BY <4>2, SMT DEF ScLimb
        <5>2. head(m + 1)[k] = head(m)[k] BY <5>1
        <5>3. AddTo(head(m), m, d)[k] = head(m)[k] BY <4>2 DEF AddTo
        <5> HIDE DEF head
        <5> QED BY ONLY <5>2, <5>3, Zenon
      <4> QED BY <4>1, <4>2
    <3>2. /\ head(m + 1) = [k \in ScLimb |-> head(m + 1)[k]]
          /\ AddTo(head(m), m, d)
               = [k \in ScLimb |-> AddTo(head(m), m, d)[k]]
      BY DEF AddTo
    <3> HIDE DEF head
    <3> QED BY ONLY <3>1, <3>2
  <2>5. row(m + 1) = AddTo(row(m), i + m, e)
    <3>1. \A k \in ScLimb : row(m + 1)[k] = AddTo(row(m), i + m, e)[k]
      <4> SUFFICES ASSUME NEW k \in ScLimb
                   PROVE row(m + 1)[k] = AddTo(row(m), i + m, e)[k]
        OBVIOUS
      <4>1. CASE k = i + m
        <5>1. /\ k - i = m /\ k - i \in 0..((m + 1) - 1)
              /\ k - i \notin 0..(m - 1)
          BY <4>1, SMT
        <5>2. row(m + 1)[k] = e /\ row(m)[k] = 0 BY <2>3, <5>1
        <5>3. AddTo(row(m), i + m, e)[k] = row(m)[k] + e
          BY <4>1 DEF AddTo
        <5>4. 0 + e = e BY SMT
        <5> HIDE DEF row
        <5> QED BY ONLY <5>2, <5>3, <5>4, Zenon
      <4>2. CASE k # i + m
        <5>1. k - i \in 0..((m + 1) - 1) <=> k - i \in 0..(m - 1)
          BY <4>2, SMT DEF ScLimb
        <5>2. row(m + 1)[k] = row(m)[k] BY <5>1
        <5>3. AddTo(row(m), i + m, e)[k] = row(m)[k] BY <4>2 DEF AddTo
        <5> HIDE DEF row
        <5> QED BY ONLY <5>2, <5>3, Zenon
      <4> QED BY <4>1, <4>2
    <3>2. /\ row(m + 1) = [k \in ScLimb |-> row(m + 1)[k]]
          /\ AddTo(row(m), i + m, e)
               = [k \in ScLimb |-> AddTo(row(m), i + m, e)[k]]
      BY DEF AddTo
    <3> HIDE DEF row
    <3> QED BY ONLY <3>1, <3>2
  <2> HIDE DEF row, head
  <2>6. head(m + 1) \in Wide
        /\ ScNumber(head(m + 1)) = ScNumber(head(m)) + d * Place(m)
    <3>1. /\ AddTo(head(m), m, d) \in Wide
          /\ ScNumber(AddTo(head(m), m, d)) = ScNumber(head(m)) + d * Place(m)
      BY <2>1, <2>2, ScPut
    <3> QED BY ONLY <2>4, <3>1, Zenon
  <2>7. row(m + 1) \in Wide
        /\ ScNumber(row(m + 1)) = ScNumber(row(m)) + e * Place(i + m)
    <3>1. /\ AddTo(row(m), i + m, e) \in Wide
          /\ ScNumber(AddTo(row(m), i + m, e))
               = ScNumber(row(m)) + e * Place(i + m)
      BY <2>1, <2>2, ScPut
    <3> QED BY ONLY <2>5, <3>1, Zenon
  <2>8. PICK v \in Nat : v = Place(m) /\ Place(i + m) = w * v
    <3>1. Place(m) = ScWorth[m] BY <2>1, SMT DEF Place
    <3>2. Place(i + m) = ScWorth[i] * ScWorth[m] BY <2>1, PlaceProduct
    <3>3. Place(m) \in Nat BY <2>1, PlaceNat
    <3> QED BY <1>2, <3>1, <3>2, <3>3
  <2>9. PICK n \in Int : n = ScNumber(head(m)) BY <2>2, ScNumberInt
  <2>10. (x * w) * n + (x * d) * (w * v) = (x * w) * (n + d * v)
    <3>1. PICK c \in Int, g \in Int : c = x * w /\ g = d * v
      <4>1. x * w \in Int /\ d * v \in Int BY SMT
      <4> QED BY <4>1
    <3>2. c * (n + g) = c * n + c * g BY Distribute
    <3>3. (x * w) * (d * v) = (x * d) * (w * v) BY SMT
    <3> QED BY ONLY <3>1, <3>2, <3>3, Zenon
  <2>11. ScNumber(row(m + 1)) = (x * ScWorth[i]) * ScNumber(head(m + 1))
    BY ONLY <1>2, <2>2, <2>3, <2>6, <2>7, <2>8, <2>9, <2>10, Zenon
  <2> QED BY <2>6, <2>7, <2>11
<1>5. row(12) = Row(x, b, i)
  <2>1. 12 - 1 = 11 BY SMT
  <2> QED BY <2>1 DEF Row
<1>6. head(12) = b
  <2>1. \A k \in ScLimb : ~(k < 12) => k \in 12..23 BY SMT DEF ScLimb
  <2>2. b = [k \in ScLimb |-> b[k]] BY DEF Wide
  <2> QED BY <2>1, <2>2
<1> HIDE DEF S
<1>7. Nat \subseteq S BY <1>3, <1>4, NatLeast
<1>8. 12 \in S /\ 12 <= 12 BY <1>7
<1>9. row(12) \in Wide
      /\ ScNumber(row(12)) = (x * ScWorth[i]) * ScNumber(head(12))
  <2> HIDE DEF row, head
  <2> QED BY <1>8 DEF S
<1> HIDE DEF row, head
<1> QED BY ONLY <1>5, <1>6, <1>9, Zenon

\* Twelve numbers of limbs together.
LEMMA SixRows ==
  ASSUME NEW r, \A i \in 0..5 : r[i] \in Wide, NEW t,
         t = [k \in ScLimb |-> r[0][k] + r[1][k] + r[2][k] + r[3][k]
                                 + r[4][k] + r[5][k]]
  PROVE  /\ t \in Wide
         /\ ScNumber(t) = ScNumber(r[0]) + ScNumber(r[1]) + ScNumber(r[2])
                            + ScNumber(r[3]) + ScNumber(r[4]) + ScNumber(r[5])
<1> DEFINE t1 == [k \in ScLimb |-> r[0][k] + r[1][k]]
           t2 == [k \in ScLimb |-> t1[k] + r[2][k]]
           t3 == [k \in ScLimb |-> t2[k] + r[3][k]]
           t4 == [k \in ScLimb |-> t3[k] + r[4][k]]
           t5 == [k \in ScLimb |-> t4[k] + r[5][k]]
<1>1. /\ r[0] \in Wide /\ r[1] \in Wide /\ r[2] \in Wide /\ r[3] \in Wide
      /\ r[4] \in Wide /\ r[5] \in Wide
  BY SMT
<1>2. t = t5 OBVIOUS
<1>3. t1 \in Wide /\ ScNumber(t1) = ScNumber(r[0]) + ScNumber(r[1])
  BY <1>1, ScNumberAdd
<1> HIDE DEF t1
<1>4. t2 \in Wide /\ ScNumber(t2) = ScNumber(t1) + ScNumber(r[2])
  BY <1>1, <1>3, ScNumberAdd
<1> HIDE DEF t2
<1>5. t3 \in Wide /\ ScNumber(t3) = ScNumber(t2) + ScNumber(r[3])
  BY <1>1, <1>4, ScNumberAdd
<1> HIDE DEF t3
<1>6. t4 \in Wide /\ ScNumber(t4) = ScNumber(t3) + ScNumber(r[4])
  BY <1>1, <1>5, ScNumberAdd
<1> HIDE DEF t4
<1>7. t5 \in Wide /\ ScNumber(t5) = ScNumber(t4) + ScNumber(r[5])
  BY <1>1, <1>6, ScNumberAdd
<1> HIDE DEF t5
<1> QED BY ONLY <1>2, <1>3, <1>4, <1>5, <1>6, <1>7, Zenon

\* The products of sc_muladd (sc.c:395-421) stand for a * b + c.
LEMMA ProductsAre ==
  ASSUME NEW a \in Wide, NEW b \in Wide, NEW c \in Wide,
         \A j \in 12..23 : a[j] = 0 /\ b[j] = 0
  PROVE  /\ ScProducts(a, b, c) \in Wide
         /\ ScNumber(ScProducts(a, b, c))
              = ScNumber(a) * ScNumber(b) + ScNumber(c)
<1> DEFINE r == [i \in 0..11 |-> Row(a[i], b, i)]
           q == [i \in 0..5 |-> r[i + 6]]
           t == [k \in ScLimb |-> r[0][k] + r[1][k] + r[2][k] + r[3][k]
                                    + r[4][k] + r[5][k]]
           u == [k \in ScLimb |-> q[0][k] + q[1][k] + q[2][k] + q[3][k]
                                    + q[4][k] + q[5][k]]
           v == [k \in ScLimb |-> t[k] + u[k]]
           p == [k \in ScLimb |-> c[k] + v[k]]
           f == [i \in 0..11 |-> a[i] * ScWorth[i]]
<1>1. \A i \in 0..11 : a[i] \in Int
  <2>1. \A i \in 0..11 : i \in ScLimb BY SMT DEF ScLimb
  <2> QED BY <2>1 DEF Wide
<1>2. \A i \in 0..11 : r[i] \in Wide /\ ScNumber(r[i]) = f[i] * ScNumber(b)
  <2> SUFFICES ASSUME NEW i \in 0..11
               PROVE r[i] \in Wide /\ ScNumber(r[i]) = f[i] * ScNumber(b)
    OBVIOUS
  <2>1. PICK x \in Int : x = a[i] BY <1>1
  <2>2. /\ Row(x, b, i) \in Wide
        /\ ScNumber(Row(x, b, i)) = (x * ScWorth[i]) * ScNumber(b)
    BY RowIs
  <2>3. r[i] = Row(x, b, i) /\ f[i] = x * ScWorth[i] BY <2>1
  <2> HIDE DEF r, f
  <2> QED BY ONLY <2>2, <2>3, Zenon
<1>3. ScProducts(a, b, c) = p
  <2> SUFFICES ASSUME NEW k \in ScLimb
      PROVE TotalOf12([i \in 0..11 |->
              IF k - i \in 0..11 THEN a[i] * b[k - i] ELSE 0]) = v[k]
    BY DEF ScProducts
  <2> DEFINE g == [i \in 0..11 |->
                     IF k - i \in 0..11 THEN a[i] * b[k - i] ELSE 0]
  <2>1. \A i \in 0..11 : g[i] = r[i][k] BY DEF Row
  <2>2. /\ q[0] = r[6] /\ q[1] = r[7] /\ q[2] = r[8] /\ q[3] = r[9]
        /\ q[4] = r[10] /\ q[5] = r[11]
    <3>1. \A i \in 0..5 : q[i] = r[i + 6] OBVIOUS
    <3> HIDE DEF q, r
    <3> QED BY ONLY <3>1, SMT
  <2>3. /\ g[0] = r[0][k] /\ g[1] = r[1][k] /\ g[2] = r[2][k]
        /\ g[3] = r[3][k] /\ g[4] = r[4][k] /\ g[5] = r[5][k]
        /\ g[6] = q[0][k] /\ g[7] = q[1][k] /\ g[8] = q[2][k]
        /\ g[9] = q[3][k] /\ g[10] = q[4][k] /\ g[11] = q[5][k]
    <3>1. /\ 0 \in 0..11 /\ 1 \in 0..11 /\ 2 \in 0..11 /\ 3 \in 0..11
          /\ 4 \in 0..11 /\ 5 \in 0..11 /\ 6 \in 0..11 /\ 7 \in 0..11
          /\ 8 \in 0..11 /\ 9 \in 0..11 /\ 10 \in 0..11 /\ 11 \in 0..11
      BY SMT
    <3> HIDE DEF g, q, r
    <3> QED BY ONLY <2>1, <2>2, <3>1, Zenon
  <2>4. v[k] = t[k] + u[k] OBVIOUS
  <2>5. t[k] = r[0][k] + r[1][k] + r[2][k] + r[3][k] + r[4][k] + r[5][k]
    OBVIOUS
  <2>6. u[k] = q[0][k] + q[1][k] + q[2][k] + q[3][k] + q[4][k] + q[5][k]
    OBVIOUS
  <2> HIDE DEF g, q, r, t, u, v
  <2>7. TotalOf12(g) = v[k]
    BY ONLY <2>3, <2>4, <2>5, <2>6, Zenon DEF TotalOf12
  <2> QED BY <2>7 DEF g
<1>4. \A i \in 0..5 : /\ r[i] \in Wide /\ q[i] \in Wide
                      /\ ScNumber(r[i]) = f[i] * ScNumber(b)
                      /\ ScNumber(q[i]) = f[i + 6] * ScNumber(b)
  <2>1. \A i \in 0..5 : i \in 0..11 /\ i + 6 \in 0..11 BY SMT
  <2>2. \A i \in 0..5 : q[i] = r[i + 6] OBVIOUS
  <2> HIDE DEF q, r, f
  <2> QED BY ONLY <1>2, <2>1, <2>2, Zenon
<1> HIDE DEF q, r
<1>5. /\ t \in Wide
      /\ ScNumber(t) = ScNumber(r[0]) + ScNumber(r[1]) + ScNumber(r[2])
                         + ScNumber(r[3]) + ScNumber(r[4]) + ScNumber(r[5])
  BY <1>4, SixRows
<1>6. /\ u \in Wide
      /\ ScNumber(u) = ScNumber(q[0]) + ScNumber(q[1]) + ScNumber(q[2])
                         + ScNumber(q[3]) + ScNumber(q[4]) + ScNumber(q[5])
  BY <1>4, SixRows
<1> HIDE DEF t, u
<1>7. v \in Wide /\ ScNumber(v) = ScNumber(t) + ScNumber(u)
  BY <1>5, <1>6, ScNumberAdd
<1> HIDE DEF v
<1>8. p \in Wide /\ ScNumber(p) = ScNumber(c) + ScNumber(v)
  BY <1>7, ScNumberAdd
<1> HIDE DEF p
<1>9. PICK n \in Int, m \in Int : n = ScNumber(b) /\ m = ScNumber(c)
  BY ScNumberInt
<1>10. f \in Twelve
  <2>1. \A x \in Int, w \in Nat : x * w \in Int BY SMT
  <2> QED BY <1>1, <2>1, ScNat DEF Twelve
<1>11. ScNumber(a) = TotalOf12(f) /\ TotalOf12(f) \in Int
  <2>1. \A j \in 13..23 : j \in 12..23 BY SMT
  <2>2. ScNumber(a) = ScStore(a) + a[12] * ScFull /\ ScStore(a) \in Int
    BY <2>1, ScNumberLow
  <2>3. a[12] = 0
    <3>1. 12 \in 12..23 BY SMT
    <3> QED BY <3>1
  <2>4. PICK x \in Int, y \in Nat : x = ScStore(a) /\ y = ScFull
    BY <2>2, ScNat
  <2>5. x + 0 * y = x BY SMT
  <2>6. ScStore(a) = TotalOf12(f) BY DEF ScStore
  <2> HIDE DEF f
  <2> QED BY ONLY <2>2, <2>3, <2>4, <2>5, <2>6, Zenon
<1>12. TotalOf12([i \in 0..11 |-> n * f[i]]) = n * TotalOf12(f)
  BY <1>10, Total12Scale
<1>13. ScNumber(v) = TotalOf12([i \in 0..11 |-> n * f[i]])
  <2> DEFINE e == [i \in 0..11 |-> n * f[i]]
  <2>1. \A i \in 0..11 : f[i] \in Int BY <1>10 DEF Twelve
  <2>2. \A x \in Int : x * n = n * x BY SMT
  <2>3. \A i \in 0..11 : e[i] = f[i] * n BY <2>1, <2>2
  <2>4. \A i \in 0..5 : ScNumber(r[i]) = e[i] /\ ScNumber(q[i]) = e[i + 6]
    <3>1. \A i \in 0..5 : i \in 0..11 /\ i + 6 \in 0..11 BY SMT
    <3> HIDE DEF e, f
    <3> QED BY ONLY <1>4, <1>9, <2>3, <3>1, Zenon
  <2>5. /\ ScNumber(r[0]) = e[0] /\ ScNumber(r[1]) = e[1]
        /\ ScNumber(r[2]) = e[2] /\ ScNumber(r[3]) = e[3]
        /\ ScNumber(r[4]) = e[4] /\ ScNumber(r[5]) = e[5]
        /\ ScNumber(q[0]) = e[6] /\ ScNumber(q[1]) = e[7]
        /\ ScNumber(q[2]) = e[8] /\ ScNumber(q[3]) = e[9]
        /\ ScNumber(q[4]) = e[10] /\ ScNumber(q[5]) = e[11]
    <3>1. /\ 0 \in 0..5 /\ 1 \in 0..5 /\ 2 \in 0..5 /\ 3 \in 0..5
          /\ 4 \in 0..5 /\ 5 \in 0..5 /\ 0 + 6 = 6 /\ 1 + 6 = 7 /\ 2 + 6 = 8
          /\ 3 + 6 = 9 /\ 4 + 6 = 10 /\ 5 + 6 = 11
      BY SMT
    <3> HIDE DEF e, f
    <3> QED BY ONLY <2>4, <3>1, Zenon
  <2> HIDE DEF e, f
  <2>6. ScNumber(v) = TotalOf12(e)
    BY ONLY <1>5, <1>6, <1>7, <2>5, Zenon DEF TotalOf12
  <2> QED BY <2>6 DEF e
<1>14. PICK x \in Int : x = ScNumber(a) BY <1>11
<1> HIDE DEF f
<1>15. ScNumber(p) = m + n * x
  BY ONLY <1>8, <1>9, <1>11, <1>12, <1>13, <1>14, Zenon
<1>16. m + n * x = x * n + m BY SMT
<1> QED BY ONLY <1>3, <1>8, <1>9, <1>14, <1>15, <1>16, Zenon

\* Digits as they are read are loaded into limbs that are not negative and stay
\* below what the top digit may have.
LEMMA ReadWithin ==
  ASSUME NEW n \in {12, 24}, NEW more \in Nat, more > 0,
         NEW s, IsDigits(s, n, more)
  PROVE  /\ s \in [1..n -> Nat] /\ ScLoad(s) \in Wide
         /\ \A j \in ScLimb :
              0 <= ScLoad(s)[j] /\ ScLoad(s)[j] < more * ScSpan
         /\ \A j \in n..23 : ScLoad(s)[j] = 0
<1>1. n \in 1..24 BY SMT
<1>2. s \in [1..n -> Nat] BY DEF IsDigits
<1> DEFINE t == ScLoad(s)
<1>3. /\ t \in Wide
      /\ \A j \in 0..(n - 1) : t[j] = s[j + 1]
      /\ \A j \in n..23 : t[j] = 0
  BY <1>1, <1>2, ScLoadWide
<1> HIDE DEF t
<1>4. PICK p \in Nat, m \in Nat : p = ScSpan /\ m = more * p /\ p <= m /\ m > 0
  <2>1. PICK p \in Nat : p = ScSpan /\ p > 0 BY ScNat
  <2>2. more * p \in Nat BY SMT
  <2>3. 1 * p <= more * p
    <3>1. 1 <= more BY SMT
    <3> QED BY <3>1, SMT
  <2>4. 1 * p = p BY SMT
  <2> QED BY <2>1, <2>2, <2>3, <2>4
<1>5. \A k \in 1..n : s[k] \in Nat /\ s[k] < m
  <2> SUFFICES ASSUME NEW k \in 1..n PROVE s[k] \in Nat /\ s[k] < m
    OBVIOUS
  <2>1. PICK x \in Nat : x = s[k] BY <1>2
  <2>2. k = n \/ k \in 1..(n - 1) BY <1>1, SMT
  <2>3. s[n] < m /\ \A i \in 1..(n - 1) : s[i] < p
    BY ONLY <1>4, IsDigits(s, n, more), Zenon DEF IsDigits
  <2>4. x < m \/ x < p BY ONLY <2>1, <2>2, <2>3, Zenon
  <2>5. x < m BY ONLY <1>4, <2>4, x \in Nat, p \in Nat, m \in Nat, SMT
  <2> QED BY <2>1, <2>5
<1>6. ASSUME NEW j \in ScLimb PROVE 0 <= t[j] /\ t[j] < m
  <2>1. j \in n..23 \/ (j \in 0..(n - 1) /\ j + 1 \in 1..n)
    BY <1>1, SMT DEF ScLimb
  <2>2. CASE j \in n..23
    <3>1. t[j] = 0 BY <1>3, <2>2
    <3> QED BY <1>4, <3>1
  <2>3. CASE j \in 0..(n - 1) /\ j + 1 \in 1..n
    <3>1. t[j] = s[j + 1] BY <1>3, <2>3
    <3>2. PICK x \in Nat : x = s[j + 1] /\ x < m BY <1>5, <2>3
    <3> QED BY <3>1, <3>2
  <2> QED BY <2>1, <2>2, <2>3
<1> QED BY ONLY <1>2, <1>3, <1>4, <1>6, Zenon DEF t

\* What a call stores is the remainder of what its limbs stand for.
LEMMA StoredIs ==
  ASSUME CodeScalars, NEW s, LimbsWithin(s, Two33)
  PROVE  ScStore(ScFinish(ScShrink(s))) = ScNumber(s) % ScOrder
<1> DEFINE u == ScShrink(s)
<1>1. Shrunk(u) /\ ScSame(ScNumber(u), ScNumber(s)) BY ShrinkLeaves
<1> HIDE DEF u
<1>2. ScStore(ScFinish(u)) = ScNumber(u) % ScOrder BY <1>1, FinishIs, Zenon
<1>3. ScNumber(u) \in Int /\ ScNumber(s) \in Int
  <2>1. u \in Wide /\ s \in Wide BY <1>1 DEF Shrunk, LimbsWithin
  <2> QED BY <2>1, ScNumberInt
<1>4. ScNumber(u) % ScOrder = ScNumber(s) % ScOrder
  BY <1>1, <1>3, SameRemainder
<1> QED BY ONLY <1>2, <1>4, Zenon DEF u

\* With the limbs and the order of sc.c, sc_reduce writes the one number below
\* the order that is the 512 bits modulo it: no carry and no fold loses
\* anything, and folding twice at the end is enough.
THEOREM ReduceIsExact ==
  ASSUME CodeScalars, NEW s, IsDigits(s, 24, 256)
  PROVE  ScReduce(s) = ScRemainder(s)
<1>1. PICK n \in {12, 24}, more \in Nat :
        n = 24 /\ more = 256 /\ more > 0 /\ IsDigits(s, n, more)
  <2>1. 24 \in {12, 24} /\ 256 \in Nat /\ 256 > 0 BY SMT
  <2> QED BY <2>1
<1>2. /\ s \in [1..n -> Nat] /\ ScLoad(s) \in Wide
      /\ \A j \in ScLimb :
           0 <= ScLoad(s)[j] /\ ScLoad(s)[j] < more * ScSpan
  BY <1>1, ReadWithin
<1>3. LimbsWithin(ScLoad(s), Two33)
  <2> SUFFICES ASSUME NEW j \in ScLimb PROVE Within0(ScLoad(s)[j], Two33)
    BY <1>2 DEF LimbsWithin
  <2>1. PICK x \in Int : x = ScLoad(s)[j] BY <1>2 DEF Wide
  <2>2. 0 <= x /\ x < 256 * ScSpan BY ONLY <1>1, <1>2, <2>1, j \in ScLimb, Zenon
  <2>3. ScSpan = 2097152 BY SMT DEF CodeScalars
  <2>4. -Two33 <= x /\ x <= Two33
    BY ONLY <2>2, <2>3, x \in Int, SMT DEF Two33
  <2> QED BY ONLY <2>1, <2>4, Zenon DEF Within0
<1>4. ScReduce(s) = ScNumber(ScLoad(s)) % ScOrder
  BY <1>3, StoredIs, Zenon DEF ScReduce
<1>5. PICK one \in Int : one = 1 OBVIOUS
<1>6. ScProduct(s, one) = (ScNumber(ScLoad(s)) * one) % ScOrder
  BY <1>2, ScProductIs
<1>7. PICK m \in Int : m = ScNumber(ScLoad(s)) BY <1>2, ScNumberInt
<1>8. m * one = m BY <1>5, SMT
<1> QED BY ONLY <1>4, <1>5, <1>6, <1>7, <1>8, Zenon DEF ScRemainder

Two50 == 1125899906842624
ProductSize == 13515196928196608  \* 3 * 2^52 + 2^42

\* The products of limbs as they are read.
LEMMA ProductsWithin ==
  ASSUME CodeScalars, NEW a \in Wide, NEW b \in Wide, NEW c \in Wide,
         \A j \in ScLimb : 0 <= a[j] /\ a[j] < 16 * ScSpan,
         \A j \in ScLimb : 0 <= b[j] /\ b[j] < 16 * ScSpan,
         \A j \in ScLimb : 0 <= c[j] /\ c[j] < 16 * ScSpan
  PROVE  \A k \in ScLimb : Within0(ScProducts(a, b, c)[k], ProductSize)
<1> SUFFICES ASSUME NEW k \in ScLimb
             PROVE Within0(ScProducts(a, b, c)[k], ProductSize)
  OBVIOUS
<1> DEFINE g == [i \in 0..11 |->
                   IF k - i \in 0..11 THEN a[i] * b[k - i] ELSE 0]
           low == [i \in 0..11 |-> 0]
           top == [i \in 0..11 |-> Two50]
<1>1. PICK m \in Nat : m = 16 * ScSpan /\ m * m = Two50
  <2>1. ScSpan = 2097152 BY SMT DEF CodeScalars
  <2> QED BY <2>1, SMT DEF Two50
<1>2. Two50 \in Nat BY SMT DEF Two50
<1>3. \A j \in ScLimb : /\ a[j] \in Int /\ 0 <= a[j] /\ a[j] < m
                        /\ b[j] \in Int /\ 0 <= b[j] /\ b[j] < m
                        /\ c[j] \in Int /\ 0 <= c[j] /\ c[j] < m
  BY <1>1 DEF Wide
<1>4. \A i \in 0..11 : g[i] \in Int /\ low[i] <= g[i] /\ g[i] <= top[i]
  <2> SUFFICES ASSUME NEW i \in 0..11
               PROVE g[i] \in Int /\ low[i] <= g[i] /\ g[i] <= top[i]
    OBVIOUS
  <2>1. low[i] = 0 /\ top[i] = Two50
        /\ g[i] = IF k - i \in 0..11 THEN a[i] * b[k - i] ELSE 0
    OBVIOUS
  <2> HIDE DEF low, top, g
  <2>2. CASE k - i \in 0..11
    <3>1. i \in ScLimb /\ k - i \in ScLimb BY <2>2, SMT DEF ScLimb
    <3>2. PICK x \in Nat, y \in Nat :
            x = a[i] /\ y = b[k - i] /\ x < m /\ y < m
      <4>1. \A j \in ScLimb : a[j] \in Nat /\ b[j] \in Nat BY <1>3
      <4> QED BY <1>3, <3>1, <4>1
    <3>3. -m <= x /\ x <= m /\ -m <= y /\ y <= m /\ x \in Int /\ y \in Int
      BY <3>2
    <3>4. x * y <= m * m BY ONLY <3>3, m \in Nat, ProductWithin
    <3>5. x * y \in Nat BY SMT
    <3>6. g[i] = x * y BY <2>1, <2>2, <3>2
    <3>7. 0 <= x * y /\ x * y \in Int BY <3>5
    <3> QED BY ONLY <1>1, <2>1, <3>4, <3>6, <3>7, Zenon
  <2>3. CASE ~(k - i \in 0..11)
    <3>1. g[i] = 0 BY <2>1, <2>3
    <3> QED BY <1>2, <2>1, <3>1
  <2> QED BY <2>2, <2>3
<1>5. g \in Twelve /\ low \in Twelve /\ top \in Twelve
  BY <1>2, <1>4 DEF Twelve
<1>6. TotalOf12(low) = 0 BY SMT DEF TotalOf12
<1>7. TotalOf12(top) = 12 * Two50
  <2>1. \A i \in 0..11 : top[i] = Two50 OBVIOUS
  <2> HIDE DEF top
  <2> QED BY ONLY <1>2, <2>1, SMT DEF TotalOf12
<1>8. ScProducts(a, b, c)[k] = c[k] + TotalOf12(g) BY DEF ScProducts
<1> HIDE DEF g, low, top
<1>9. TotalOf12(low) <= TotalOf12(g) /\ TotalOf12(g) <= TotalOf12(top)
      /\ TotalOf12(g) \in Int
  BY <1>4, <1>5, Total12Within, Total12Add
<1>10. PICK x \in Int, y \in Int : x = c[k] /\ y = TotalOf12(g)
  BY <1>3, <1>9
<1>11. 0 <= x /\ x < m BY ONLY <1>3, <1>10, k \in ScLimb, Zenon
<1>12. 0 <= y /\ y <= 12 * Two50
  BY ONLY <1>6, <1>7, <1>9, <1>10, Zenon
<1>13. m = 33554432
  <2>1. ScSpan = 2097152 BY SMT DEF CodeScalars
  <2> QED BY ONLY <1>1, <2>1, SMT
<1>14. -ProductSize <= x + y /\ x + y <= ProductSize
  BY ONLY <1>11, <1>12, <1>13, x \in Int, y \in Int, SMT DEF Two50, ProductSize
<1> QED BY ONLY <1>8, <1>10, <1>14, Zenon DEF Within0

\* The rounds before the folds (sc.c:423-490): they keep the number and leave
\* limbs that the folds can take.
LEMMA ProductRounds ==
  ASSUME CodeScalars, NEW s \in Wide,
         \A j \in ScLimb : Within0(s[j], ProductSize), s[23] = 0
  PROVE  LET even == Rounds(s, <<0, 2, 4, 6, 8, 10, 12, 14, 16, 18, 20, 22>>)
             t == Rounds(even, <<1, 3, 5, 7, 9, 11, 13, 15, 17, 19, 21>>)
         IN ScNumber(t) = ScNumber(s) /\ LimbsWithin(t, Two33)
<1> DEFINE first == <<0, 2, 4, 6, 8, 10, 12, 14, 16, 18, 20, 22>>
           second == <<1, 3, 5, 7, 9, 11, 13, 15, 17, 19, 21>>
           t == Rounds(Rounds(s, first), second)
<1>1. first \in Seq(0..22) /\ second \in Seq(0..22) OBVIOUS
<1>2. EverySecond(first, 0, 12)
  <2>1. Len(first) = 12 OBVIOUS
  <2>2. \A a \in 1..12 : first[a] = 0 + 2 * a - 2 OBVIOUS
  <2> QED BY <2>1, <2>2 DEF EverySecond
<1>3. EverySecond(second, 0 + 1, 11)
  <2>1. Len(second) = 11 OBVIOUS
  <2>2. \A a \in 1..11 : second[a] = 0 + 1 + 2 * a - 2 OBVIOUS
  <2> QED BY <2>1, <2>2 DEF EverySecond
<1> HIDE DEF first, second
<1>4. PICK h \in Nat, m \in Nat, k \in Nat, r \in Nat :
        /\ h = 1048576 /\ m = ProductSize /\ k = 6444548097 /\ r = 6445596673
  BY SMT DEF ProductSize
<1>5. ScSpan = 2 * h /\ m + h <= k * ScSpan /\ m + k + h <= r * ScSpan
  BY ONLY <1>4, CodeScalars, SMT DEF CodeScalars, ProductSize
<1>6. \A j \in ScLimb : 0 <= j /\ j < 0 + 12 + 11 => Within0(s[j], m)
  BY SMT, <1>4
<1>7. RoundedTwice(s, 0, 12, 11, h, k, r, t)
  <2>1. /\ 0 \in 0..6 /\ 12 \in 1..12 /\ 11 \in 1..12 /\ 11 = 12 - 1
        /\ 0 + 12 + 11 <= 23
    BY SMT
  <2> QED BY ONLY <1>1, <1>2, <1>3, <1>5, <1>6, <2>1, s \in Wide,
             h \in Nat, m \in Nat, k \in Nat, r \in Nat, RoundsTwice
<1> HIDE DEF t
<1>8. t \in Wide /\ ScNumber(t) = ScNumber(s) BY <1>7 DEF RoundedTwice
<1>9. \A j \in ScLimb : t[j] \in Int BY <1>8 DEF Wide
<1>10. \A j \in ScLimb : \/ j = 0 \/ j = 23
                         \/ \E a \in 1..11 : j = 0 + 2 * a - 1
                         \/ \E a \in 1..(12 - 1) : j = 0 + 2 * a
  <2> SUFFICES ASSUME NEW j \in ScLimb, j # 0, j # 23
               PROVE  \/ \E a \in 1..11 : j = 0 + 2 * a - 1
                      \/ \E a \in 1..(12 - 1) : j = 0 + 2 * a
    OBVIOUS
  <2>1. CASE j % 2 = 0
    <3>1. j \div 2 \in 1..(12 - 1) /\ j = 0 + 2 * (j \div 2)
      BY <2>1, SMT DEF ScLimb
    <3> QED BY <3>1
  <2>2. CASE j % 2 = 1
    <3>1. (j + 1) \div 2 \in 1..11 /\ j = 0 + 2 * ((j + 1) \div 2) - 1
      BY <2>2, SMT DEF ScLimb
    <3> QED BY <3>1
  <2>3. j % 2 = 0 \/ j % 2 = 1 BY SMT DEF ScLimb
  <2> QED BY <2>1, <2>2, <2>3
<1>11. ASSUME NEW j \in ScLimb PROVE Within0(t[j], Two33)
  <2>1. PICK x \in Int : x = t[j] BY <1>9
  <2>2. Within0(x, h) \/ Within0(x, h + r) \/ Within0(x, k)
    <3>1. CASE j = 0
      BY ONLY <1>7, <2>1, <3>1, Zenon DEF RoundedTwice
    <3>2. CASE \E a \in 1..11 : j = 0 + 2 * a - 1
      <4>1. \A a \in 1..11 : Within0(t[0 + 2 * a - 1], h)
        BY ONLY <1>7, Zenon DEF RoundedTwice
      <4> QED BY ONLY <2>1, <3>2, <4>1, Zenon
    <3>3. CASE \E a \in 1..(12 - 1) : j = 0 + 2 * a
      <4>1. \A a \in 1..(12 - 1) : Within0(t[0 + 2 * a], h + r)
        BY ONLY <1>7, Zenon DEF RoundedTwice
      <4> QED BY ONLY <2>1, <3>3, <4>1, Zenon
    <3>4. CASE j = 23
      <4>1. Within0(t[0 + 2 * 12 - 1] - s[0 + 2 * 12 - 1], k)
        <5>1. 11 = 12 - 1 BY SMT
        <5> QED BY ONLY <1>7, <5>1, Zenon DEF RoundedTwice
      <4>2. 0 + 2 * 12 - 1 = 23 /\ x - 0 = x BY SMT
      <4> QED BY ONLY <2>1, <3>4, <4>1, <4>2, s[23] = 0, Zenon
    <3> QED BY <1>10, <3>1, <3>2, <3>3, <3>4
  <2>3. (-h <= x /\ x <= h) \/ (-(h + r) <= x /\ x <= h + r)
        \/ (-k <= x /\ x <= k)
    BY ONLY <2>2, Zenon DEF Within0
  <2>4. -Two33 <= x /\ x <= Two33
    BY ONLY <1>4, <2>3, x \in Int, SMT DEF Two33
  <2> QED BY ONLY <2>1, <2>4, Zenon DEF Within0
<1>12. LimbsWithin(t, Two33) BY ONLY <1>8, <1>11, Zenon DEF LimbsWithin
<1> QED BY ONLY <1>8, <1>12, Zenon DEF t, first, second

\* With the limbs and the order of sc.c, sc_muladd writes a * b + c modulo the
\* order, for all a, b and c of 256 bits, whether they are reduced or not.
THEOREM MuladdIsExact ==
  ASSUME CodeScalars, NEW a, NEW b, NEW c,
         IsDigits(a, 12, 16), IsDigits(b, 12, 16), IsDigits(c, 12, 16)
  PROVE  ScMuladd(a, b, c)
           = (ScProduct(a, ScRemainder(b)) + ScRemainder(c)) % ScOrder
<1> DEFINE x == ScLoad(a)
           y == ScLoad(b)
           z == ScLoad(c)
           s == ScProducts(x, y, z)
           even == Rounds(s, <<0, 2, 4, 6, 8, 10, 12, 14, 16, 18, 20, 22>>)
           t == Rounds(even, <<1, 3, 5, 7, 9, 11, 13, 15, 17, 19, 21>>)
<1>1. PICK n \in {12, 24}, more \in Nat :
        /\ n = 12 /\ more = 16 /\ more > 0
        /\ IsDigits(a, n, more) /\ IsDigits(b, n, more) /\ IsDigits(c, n, more)
  <2>1. 12 \in {12, 24} /\ 16 \in Nat /\ 16 > 0 BY SMT
  <2> QED BY <2>1
<1>2. /\ a \in [1..n -> Nat] /\ x \in Wide
      /\ \A j \in ScLimb : 0 <= x[j] /\ x[j] < 16 * ScSpan
      /\ \A j \in 12..23 : x[j] = 0
  <2>1. /\ a \in [1..n -> Nat] /\ x \in Wide
        /\ \A j \in ScLimb : 0 <= x[j] /\ x[j] < more * ScSpan
        /\ \A j \in n..23 : x[j] = 0
    BY <1>1, ReadWithin
  <2> HIDE DEF x
  <2> QED BY ONLY <1>1, <2>1, Zenon
<1>3. /\ b \in [1..n -> Nat] /\ y \in Wide
      /\ \A j \in ScLimb : 0 <= y[j] /\ y[j] < 16 * ScSpan
      /\ \A j \in 12..23 : y[j] = 0
  <2>1. /\ b \in [1..n -> Nat] /\ y \in Wide
        /\ \A j \in ScLimb : 0 <= y[j] /\ y[j] < more * ScSpan
        /\ \A j \in n..23 : y[j] = 0
    BY <1>1, ReadWithin
  <2> HIDE DEF y
  <2> QED BY ONLY <1>1, <2>1, Zenon
<1>4. /\ c \in [1..n -> Nat] /\ z \in Wide
      /\ \A j \in ScLimb : 0 <= z[j] /\ z[j] < 16 * ScSpan
      /\ \A j \in 12..23 : z[j] = 0
  <2>1. /\ c \in [1..n -> Nat] /\ z \in Wide
        /\ \A j \in ScLimb : 0 <= z[j] /\ z[j] < more * ScSpan
        /\ \A j \in n..23 : z[j] = 0
    BY <1>1, ReadWithin
  <2> HIDE DEF z
  <2> QED BY ONLY <1>1, <2>1, Zenon
<1> HIDE DEF x, y, z
<1>5. s \in Wide /\ ScNumber(s) = ScNumber(x) * ScNumber(y) + ScNumber(z)
  BY <1>2, <1>3, <1>4, ProductsAre
<1>6. \A k \in ScLimb : Within0(s[k], ProductSize)
  BY <1>2, <1>3, <1>4, ProductsWithin
<1>7. s[23] = 0
  <2> DEFINE g == [i \in 0..11 |->
                     IF 23 - i \in 0..11 THEN x[i] * y[23 - i] ELSE 0]
  <2>1. 23 \in ScLimb /\ 23 \in 12..23 BY SMT DEF ScLimb
  <2>2. \A i \in 0..11 : 23 - i \notin 0..11 BY SMT
  <2>3. \A i \in 0..11 : g[i] = 0 BY <2>2
  <2>4. s[23] = z[23] + TotalOf12(g) BY <2>1 DEF ScProducts
  <2> HIDE DEF g, s
  <2>5. TotalOf12(g) = 0 BY ONLY <2>3, SMT DEF TotalOf12
  <2>6. z[23] = 0 BY <1>4, <2>1
  <2> QED BY ONLY <2>4, <2>5, <2>6, SMT
<1>8. ScMuladd(a, b, c) = ScStore(ScFinish(ScShrink(t)))
  BY DEF ScMuladd, x, y, z
<1> HIDE DEF s
<1>9. ScNumber(t) = ScNumber(s) /\ LimbsWithin(t, Two33)
  BY <1>5, <1>6, <1>7, ProductRounds, Zenon
<1> HIDE DEF t
<1>10. ScMuladd(a, b, c) = ScNumber(s) % ScOrder
  <2>1. ScStore(ScFinish(ScShrink(t))) = ScNumber(t) % ScOrder
    BY <1>9, StoredIs
  <2> QED BY ONLY <1>8, <1>9, <2>1, Zenon
<1>11. PICK p \in Int, q \in Int, r \in Int, o \in Nat :
         /\ p = ScNumber(x) /\ q = ScNumber(y) /\ r = ScNumber(z)
         /\ o = ScOrder /\ o > 0
  BY <1>2, <1>3, <1>4, ScNat, ScNumberInt
<1>12. PICK one \in Int : one = 1 OBVIOUS
<1>13. q * one = q /\ r * one = r BY <1>12, SMT
<1>14. ScRemainder(b) = q % o
  <2>1. ScProduct(b, one) = (ScNumber(ScLoad(b)) * one) % ScOrder
    BY <1>3, ScProductIs
  <2> QED BY ONLY <1>11, <1>12, <1>13, <2>1, Zenon DEF ScRemainder, y
<1>15. ScRemainder(c) = r % o
  <2>1. ScProduct(c, one) = (ScNumber(ScLoad(c)) * one) % ScOrder
    BY <1>4, ScProductIs
  <2> QED BY ONLY <1>11, <1>12, <1>13, <2>1, Zenon DEF ScRemainder, z
<1>16. PICK u \in Nat, i \in Int : u = q % o /\ q = i * o + u
  <2>1. q \div o \in Int /\ q % o \in Nat /\ q = (q \div o) * o + (q % o)
    BY <1>11, Division
  <2> QED BY <2>1
<1>17. PICK v \in Nat, j \in Int : v = r % o /\ r = j * o + v
  <2>1. r \div o \in Int /\ r % o \in Nat /\ r = (r \div o) * o + (r % o)
    BY <1>11, Division
  <2> QED BY <2>1
<1>18. ScProduct(a, u) = (p * u) % o
  <2>1. u \in Int OBVIOUS
  <2>2. ScProduct(a, u) = (ScNumber(ScLoad(a)) * u) % ScOrder
    BY <1>2, <2>1, ScProductIs
  <2> QED BY ONLY <1>11, <2>2, Zenon DEF x
<1>19. PICK w \in Nat, l \in Int, pu \in Int :
         w = (p * u) % o /\ pu = p * u /\ pu = l * o + w
  <2>1. p * u \in Int BY SMT
  <2>2. /\ (p * u) \div o \in Int /\ (p * u) % o \in Nat
        /\ p * u = ((p * u) \div o) * o + ((p * u) % o)
    BY <1>11, <2>1, Division
  <2> QED BY <2>1, <2>2
<1>20. PICK k \in Int : p * q + r = (w + v) + k * o
  <2>1. p * q = (p * i) * o + p * u
    <3>1. p * (i * o + u) = (p * i) * o + p * u BY SMT
    <3> QED BY ONLY <1>16, <3>1, Zenon
  <2>2. PICK d \in Int : d = p * i
    <3>1. p * i \in Int BY SMT
    <3> QED BY <3>1
  <2>3. p * q = d * o + (l * o + w) BY ONLY <1>19, <2>1, <2>2, Zenon
  <2>4. (d * o + (l * o + w)) + (j * o + v) = (w + v) + (d + l + j) * o BY SMT
  <2>5. d + l + j \in Int OBVIOUS
  <2>6. p * q + r = (w + v) + (d + l + j) * o
    BY ONLY <1>17, <2>3, <2>4, Zenon
  <2> QED BY <2>5, <2>6
<1>21. PICK e \in Int : e = w + v OBVIOUS
<1>22. (e + k * o) % o = e % o BY <1>11, ModShift
<1>23. ScMuladd(a, b, c) = (w + v) % o
  BY ONLY <1>5, <1>10, <1>11, <1>20, <1>21, <1>22, Zenon
<1> QED BY ONLY <1>11, <1>14, <1>15, <1>16, <1>17, <1>18, <1>19, <1>23, Zenon
===============================================================================
