---------------------------- MODULE Ed25519Proofs ----------------------------
(***************************************************************************)
(* Proofs about the arithmetic of Ed25519.  First the field, for limbs of  *)
(* any size and spans of any width: the calls that return an element are   *)
(* exact modulo the prime, and fe_tobytes writes the one representative    *)
(* below it.  Then the chains of fe_invert and fe_pow22523, and with what  *)
(* Sc25519Proofs says of the scalars, every call of fe.c and sc.c.         *)
(***************************************************************************)
EXTENDS Ed25519, Sc25519Proofs

-------------------------------------------------------------------------------
(* The limbs, totals of ten numbers, and numbers modulo the prime. *)

\* An element of the field: ten limbs, of any sign.
Element == [Limb -> Int]

\* The ten limbs, one by one.
LEMMA LimbCases == Limb = {0, 1, 2, 3, 4, 5, 6, 7, 8, 9}
  BY SMT DEF Limb

\* Every limb spans a positive number of values.
LEMMA SpanNat ==
  \A i \in Limb : Span(i) \in Nat /\ Span(i) > 0
  BY SMT, WidthAssumption DEF Limb, Span

\* What a limb's unit is worth is a natural number.
LEMMA WorthNat == \A i \in Limb : Worth[i] \in Nat
  BY WidthAssumption

\* The prime is what all ten limbs span, less the wrap.
LEMMA PrimeNat ==
  /\ Full \in Nat /\ Prime \in Nat /\ Prime > 0
  /\ Wrap \in Nat /\ Full = Prime + Wrap
<1>1. Worth[9] \in Nat /\ OddSpan \in Nat  BY WidthAssumption, LimbCases
<1>2. Full \in Nat
  <2>1. \A a, b \in Nat : a * b \in Nat  BY SMT
  <2> QED BY <1>1, <2>1 DEF Full
<1>3. Wrap \in Nat /\ Wrap < Full BY WidthAssumption
<1> QED BY <1>2, <1>3, SMT DEF Prime

\* A total of ten numbers is a number.
LEMMA TotalInt ==
  ASSUME NEW h \in Element PROVE Total(h) \in Int
<1>1. \A i \in Limb : h[i] \in Int BY DEF Element
<1> QED BY <1>1, SMT DEF Total, Limb

\* Totals add,
LEMMA TotalAdd ==
  ASSUME NEW f \in Element, NEW g \in Element
  PROVE Total([i \in Limb |-> f[i] + g[i]]) = Total(f) + Total(g)
<1>1. \A i \in Limb : f[i] \in Int /\ g[i] \in Int BY DEF Element
<1> QED BY <1>1, SMT DEF Total, Limb

\* subtract,
LEMMA TotalSub ==
  ASSUME NEW f \in Element, NEW g \in Element
  PROVE Total([i \in Limb |-> f[i] - g[i]]) = Total(f) - Total(g)
<1>1. \A i \in Limb : f[i] \in Int /\ g[i] \in Int BY DEF Element
<1> QED BY <1>1, SMT DEF Total, Limb

\* and scale.
LEMMA TotalScale ==
  ASSUME NEW f \in Element, NEW c \in Int
  PROVE Total([i \in Limb |-> c * f[i]]) = c * Total(f)
<1>1. \A i \in Limb : f[i] \in Int BY DEF Element
<1> DEFINE s1 == f[0] + f[1]
           s2 == s1 + f[2]
           s3 == s2 + f[3]
           s4 == s3 + f[4]
           s5 == s4 + f[5]
           s6 == s5 + f[6]
           s7 == s6 + f[7]
           s8 == s7 + f[8]
           s9 == s8 + f[9]
<1>2. /\ s1 \in Int /\ s2 \in Int /\ s3 \in Int /\ s4 \in Int /\ s5 \in Int
      /\ s6 \in Int /\ s7 \in Int /\ s8 \in Int
  BY <1>1, SMT DEF Limb
<1>3. Total(f) = s9 BY DEF Total
<1>4. Total([i \in Limb |-> c * f[i]])
        = c * f[0] + c * f[1] + c * f[2] + c * f[3] + c * f[4] + c * f[5]
          + c * f[6] + c * f[7] + c * f[8] + c * f[9]
  BY SMT DEF Total, Limb
<1>5. f[0] \in Int /\ f[1] \in Int /\ f[2] \in Int /\ f[3] \in Int
      /\ f[4] \in Int /\ f[5] \in Int /\ f[6] \in Int /\ f[7] \in Int
      /\ f[8] \in Int /\ f[9] \in Int
  BY <1>1, SMT DEF Limb
<1> HIDE DEF s1, s2, s3, s4, s5, s6, s7, s8
<1>6. c * s9 = c * s8 + c * f[9] BY <1>2, <1>5, Distribute
<1>7. c * s8 = c * s7 + c * f[8] BY <1>2, <1>5, Distribute DEF s8
<1>8. c * s7 = c * s6 + c * f[7] BY <1>2, <1>5, Distribute DEF s7
<1>9. c * s6 = c * s5 + c * f[6] BY <1>2, <1>5, Distribute DEF s6
<1>10. c * s5 = c * s4 + c * f[5] BY <1>2, <1>5, Distribute DEF s5
<1>11. c * s4 = c * s3 + c * f[4] BY <1>2, <1>5, Distribute DEF s4
<1>12. c * s3 = c * s2 + c * f[3] BY <1>2, <1>5, Distribute DEF s3
<1>13. c * s2 = c * s1 + c * f[2] BY <1>2, <1>5, Distribute DEF s2
<1>14. c * s1 = c * f[0] + c * f[1] BY <1>2, <1>5, Distribute DEF s1
<1> QED BY <1>3, <1>4, <1>6, <1>7, <1>8, <1>9, <1>10, <1>11, <1>12, <1>13,
           <1>14

\* fe_add adds the totals.
LEMMA FeAddTotal ==
  ASSUME NEW f \in Element, NEW g \in Element
  PROVE FeAdd(f, g) \in Element /\ Total(FeAdd(f, g)) = Total(f) + Total(g)
<1>1. \A i \in Limb : f[i] \in Int /\ g[i] \in Int BY DEF Element
<1>2. \A i \in Limb : f[i] + g[i] \in Int BY <1>1
<1> QED BY <1>2, TotalAdd DEF FeAdd, Element

\* The total of the rows is the total of the columns.
LEMMA TotalExchange ==
  ASSUME NEW M \in [Limb -> Element]
  PROVE Total([k \in Limb |-> Total(M[k])])
          = Total([i \in Limb |-> Total([k \in Limb |-> M[k][i]])])
<1> DEFINE S1 == FeAdd(M[0], M[1])
           S2 == FeAdd(S1, M[2])
           S3 == FeAdd(S2, M[3])
           S4 == FeAdd(S3, M[4])
           S5 == FeAdd(S4, M[5])
           S6 == FeAdd(S5, M[6])
           S7 == FeAdd(S6, M[7])
           S8 == FeAdd(S7, M[8])
           S9 == FeAdd(S8, M[9])
<1>1. [i \in Limb |-> Total([k \in Limb |-> M[k][i]])] = S9
  BY SMT DEF Total, FeAdd, Limb
<1>2. /\ M[0] \in Element /\ M[1] \in Element /\ M[2] \in Element
      /\ M[3] \in Element /\ M[4] \in Element /\ M[5] \in Element
      /\ M[6] \in Element /\ M[7] \in Element /\ M[8] \in Element
      /\ M[9] \in Element
  BY SMT DEF Limb
<1> HIDE DEF S1, S2, S3, S4, S5, S6, S7, S8, S9
<1>3. S1 \in Element /\ Total(S1) = Total(M[0]) + Total(M[1])
  BY <1>2, FeAddTotal DEF S1
<1>4. S2 \in Element /\ Total(S2) = Total(S1) + Total(M[2])
  BY <1>2, <1>3, FeAddTotal DEF S2
<1>5. S3 \in Element /\ Total(S3) = Total(S2) + Total(M[3])
  BY <1>2, <1>4, FeAddTotal DEF S3
<1>6. S4 \in Element /\ Total(S4) = Total(S3) + Total(M[4])
  BY <1>2, <1>5, FeAddTotal DEF S4
<1>7. S5 \in Element /\ Total(S5) = Total(S4) + Total(M[5])
  BY <1>2, <1>6, FeAddTotal DEF S5
<1>8. S6 \in Element /\ Total(S6) = Total(S5) + Total(M[6])
  BY <1>2, <1>7, FeAddTotal DEF S6
<1>9. S7 \in Element /\ Total(S7) = Total(S6) + Total(M[7])
  BY <1>2, <1>8, FeAddTotal DEF S7
<1>10. S8 \in Element /\ Total(S8) = Total(S7) + Total(M[8])
  BY <1>2, <1>9, FeAddTotal DEF S8
<1>11. S9 \in Element /\ Total(S9) = Total(S8) + Total(M[9])
  BY <1>2, <1>10, FeAddTotal DEF S9
<1>12. Total([k \in Limb |-> Total(M[k])]) =
         Total(M[0]) + Total(M[1]) + Total(M[2]) + Total(M[3]) + Total(M[4])
           + Total(M[5]) + Total(M[6]) + Total(M[7]) + Total(M[8])
           + Total(M[9])
  <2> DEFINE r == [k \in Limb |-> Total(M[k])]
  <2>1. \A k \in Limb : r[k] = Total(M[k]) OBVIOUS
  <2>2. 0 \in Limb /\ 1 \in Limb /\ 2 \in Limb /\ 3 \in Limb /\ 4 \in Limb
        /\ 5 \in Limb /\ 6 \in Limb /\ 7 \in Limb /\ 8 \in Limb
        /\ 9 \in Limb
    BY SMT DEF Limb
  <2>3. Total(r) = r[0] + r[1] + r[2] + r[3] + r[4] + r[5] + r[6] + r[7]
                     + r[8] + r[9]
    BY DEF Total
  <2> HIDE DEF r
  <2>4. /\ r[0] = Total(M[0]) /\ r[1] = Total(M[1]) /\ r[2] = Total(M[2])
        /\ r[3] = Total(M[3]) /\ r[4] = Total(M[4]) /\ r[5] = Total(M[5])
        /\ r[6] = Total(M[6]) /\ r[7] = Total(M[7]) /\ r[8] = Total(M[8])
        /\ r[9] = Total(M[9])
    BY <2>1, <2>2
  <2>5. Total(r) = Total(M[0]) + Total(M[1]) + Total(M[2]) + Total(M[3])
                     + Total(M[4]) + Total(M[5]) + Total(M[6]) + Total(M[7])
                     + Total(M[8]) + Total(M[9])
    BY ONLY <2>3, <2>4
  <2> QED BY <2>5 DEF r
<1>13. Total(S9) =
         Total(M[0]) + Total(M[1]) + Total(M[2]) + Total(M[3]) + Total(M[4])
           + Total(M[5]) + Total(M[6]) + Total(M[7]) + Total(M[8])
           + Total(M[9])
  BY ONLY <1>3, <1>4, <1>5, <1>6, <1>7, <1>8, <1>9, <1>10, <1>11, Zenon
<1> QED BY <1>1, <1>12, <1>13, Zenon

\* Taking the limbs in the order of the partners leaves the total alone.
LEMMA TotalShift ==
  ASSUME NEW h \in Element, NEW i \in Limb
  PROVE Total([k \in Limb |-> h[Partner(i, k)]]) = Total(h)
<1>1. \A k \in Limb : h[k] \in Int BY DEF Element
<1>2. Total([k \in Limb |-> h[Partner(i, k)]]) =
        h[(10 + 0 - i) % 10] + h[(10 + 1 - i) % 10] + h[(10 + 2 - i) % 10]
          + h[(10 + 3 - i) % 10]
          + h[(10 + 4 - i) % 10] + h[(10 + 5 - i) % 10] + h[(10 + 6 - i) % 10]
          + h[(10 + 7 - i) % 10] + h[(10 + 8 - i) % 10] + h[(10 + 9 - i) % 10]
  BY SMT DEF Total, Limb, Partner
<1>3. /\ h[0] \in Int /\ h[1] \in Int /\ h[2] \in Int /\ h[3] \in Int
      /\ h[4] \in Int /\ h[5] \in Int /\ h[6] \in Int /\ h[7] \in Int
      /\ h[8] \in Int /\ h[9] \in Int
  BY <1>1, SMT DEF Limb
<1>4. CASE i = 0
  <2>1. /\ (10 + 0 - 0) % 10 = 0 /\ (10 + 1 - 0) % 10 = 1
        /\ (10 + 2 - 0) % 10 = 2 /\ (10 + 3 - 0) % 10 = 3
        /\ (10 + 4 - 0) % 10 = 4 /\ (10 + 5 - 0) % 10 = 5
        /\ (10 + 6 - 0) % 10 = 6 /\ (10 + 7 - 0) % 10 = 7
        /\ (10 + 8 - 0) % 10 = 8 /\ (10 + 9 - 0) % 10 = 9
    BY SMT
  <2> QED BY <1>2, <1>3, <1>4, <2>1, SMTT(30) DEF Total
<1>5. CASE i = 1
  <2>1. /\ (10 + 0 - 1) % 10 = 9 /\ (10 + 1 - 1) % 10 = 0
        /\ (10 + 2 - 1) % 10 = 1 /\ (10 + 3 - 1) % 10 = 2
        /\ (10 + 4 - 1) % 10 = 3 /\ (10 + 5 - 1) % 10 = 4
        /\ (10 + 6 - 1) % 10 = 5 /\ (10 + 7 - 1) % 10 = 6
        /\ (10 + 8 - 1) % 10 = 7 /\ (10 + 9 - 1) % 10 = 8
    BY SMT
  <2> QED BY <1>2, <1>3, <1>5, <2>1, SMTT(30) DEF Total
<1>6. CASE i = 2
  <2>1. /\ (10 + 0 - 2) % 10 = 8 /\ (10 + 1 - 2) % 10 = 9
        /\ (10 + 2 - 2) % 10 = 0 /\ (10 + 3 - 2) % 10 = 1
        /\ (10 + 4 - 2) % 10 = 2 /\ (10 + 5 - 2) % 10 = 3
        /\ (10 + 6 - 2) % 10 = 4 /\ (10 + 7 - 2) % 10 = 5
        /\ (10 + 8 - 2) % 10 = 6 /\ (10 + 9 - 2) % 10 = 7
    BY SMT
  <2> QED BY <1>2, <1>3, <1>6, <2>1, SMTT(30) DEF Total
<1>7. CASE i = 3
  <2>1. /\ (10 + 0 - 3) % 10 = 7 /\ (10 + 1 - 3) % 10 = 8
        /\ (10 + 2 - 3) % 10 = 9 /\ (10 + 3 - 3) % 10 = 0
        /\ (10 + 4 - 3) % 10 = 1 /\ (10 + 5 - 3) % 10 = 2
        /\ (10 + 6 - 3) % 10 = 3 /\ (10 + 7 - 3) % 10 = 4
        /\ (10 + 8 - 3) % 10 = 5 /\ (10 + 9 - 3) % 10 = 6
    BY SMT
  <2> QED BY <1>2, <1>3, <1>7, <2>1, SMTT(30) DEF Total
<1>8. CASE i = 4
  <2>1. /\ (10 + 0 - 4) % 10 = 6 /\ (10 + 1 - 4) % 10 = 7
        /\ (10 + 2 - 4) % 10 = 8 /\ (10 + 3 - 4) % 10 = 9
        /\ (10 + 4 - 4) % 10 = 0 /\ (10 + 5 - 4) % 10 = 1
        /\ (10 + 6 - 4) % 10 = 2 /\ (10 + 7 - 4) % 10 = 3
        /\ (10 + 8 - 4) % 10 = 4 /\ (10 + 9 - 4) % 10 = 5
    BY SMT
  <2> QED BY <1>2, <1>3, <1>8, <2>1, SMTT(30) DEF Total
<1>9. CASE i = 5
  <2>1. /\ (10 + 0 - 5) % 10 = 5 /\ (10 + 1 - 5) % 10 = 6
        /\ (10 + 2 - 5) % 10 = 7 /\ (10 + 3 - 5) % 10 = 8
        /\ (10 + 4 - 5) % 10 = 9 /\ (10 + 5 - 5) % 10 = 0
        /\ (10 + 6 - 5) % 10 = 1 /\ (10 + 7 - 5) % 10 = 2
        /\ (10 + 8 - 5) % 10 = 3 /\ (10 + 9 - 5) % 10 = 4
    BY SMT
  <2> QED BY <1>2, <1>3, <1>9, <2>1, SMTT(30) DEF Total
<1>10. CASE i = 6
  <2>1. /\ (10 + 0 - 6) % 10 = 4 /\ (10 + 1 - 6) % 10 = 5
        /\ (10 + 2 - 6) % 10 = 6 /\ (10 + 3 - 6) % 10 = 7
        /\ (10 + 4 - 6) % 10 = 8 /\ (10 + 5 - 6) % 10 = 9
        /\ (10 + 6 - 6) % 10 = 0 /\ (10 + 7 - 6) % 10 = 1
        /\ (10 + 8 - 6) % 10 = 2 /\ (10 + 9 - 6) % 10 = 3
    BY SMT
  <2> QED BY <1>2, <1>3, <1>10, <2>1, SMTT(30) DEF Total
<1>11. CASE i = 7
  <2>1. /\ (10 + 0 - 7) % 10 = 3 /\ (10 + 1 - 7) % 10 = 4
        /\ (10 + 2 - 7) % 10 = 5 /\ (10 + 3 - 7) % 10 = 6
        /\ (10 + 4 - 7) % 10 = 7 /\ (10 + 5 - 7) % 10 = 8
        /\ (10 + 6 - 7) % 10 = 9 /\ (10 + 7 - 7) % 10 = 0
        /\ (10 + 8 - 7) % 10 = 1 /\ (10 + 9 - 7) % 10 = 2
    BY SMT
  <2> QED BY <1>2, <1>3, <1>11, <2>1, SMTT(30) DEF Total
<1>12. CASE i = 8
  <2>1. /\ (10 + 0 - 8) % 10 = 2 /\ (10 + 1 - 8) % 10 = 3
        /\ (10 + 2 - 8) % 10 = 4 /\ (10 + 3 - 8) % 10 = 5
        /\ (10 + 4 - 8) % 10 = 6 /\ (10 + 5 - 8) % 10 = 7
        /\ (10 + 6 - 8) % 10 = 8 /\ (10 + 7 - 8) % 10 = 9
        /\ (10 + 8 - 8) % 10 = 0 /\ (10 + 9 - 8) % 10 = 1
    BY SMT
  <2> QED BY <1>2, <1>3, <1>12, <2>1, SMTT(30) DEF Total
<1>13. CASE i = 9
  <2>1. /\ (10 + 0 - 9) % 10 = 1 /\ (10 + 1 - 9) % 10 = 2
        /\ (10 + 2 - 9) % 10 = 3 /\ (10 + 3 - 9) % 10 = 4
        /\ (10 + 4 - 9) % 10 = 5 /\ (10 + 5 - 9) % 10 = 6
        /\ (10 + 6 - 9) % 10 = 7 /\ (10 + 7 - 9) % 10 = 8
        /\ (10 + 8 - 9) % 10 = 9 /\ (10 + 9 - 9) % 10 = 0
    BY SMT
  <2> QED BY <1>2, <1>3, <1>13, <2>1, SMTT(30) DEF Total
<1> QED BY <1>4, <1>5, <1>6, <1>7, <1>8, <1>9, <1>10, <1>11, <1>12, <1>13,
           LimbCases

\* a and b are the same modulo the prime.
Same(a, b) == \E k \in Int : a = b + k * Prime

\* Same numbers have the same remainder,
LEMMA SameMod ==
  ASSUME NEW a \in Int, NEW b \in Int, Same(a, b)
  PROVE a % Prime = b % Prime
<1>1. PICK k \in Int : a = b + k * Prime BY DEF Same
<1>2. (b + k * Prime) % Prime = b % Prime BY PrimeNat, ModShift
<1> QED BY <1>1, <1>2

\* and a remainder is the same as its number.
LEMMA ModSame ==
  ASSUME NEW a \in Int PROVE Same(a % Prime, a) /\ Same(a, a % Prime)
<1>1. PICK p \in Nat : p = Prime /\ p > 0 BY PrimeNat
<1>2. PICK q \in Int : q = a \div p BY <1>1, Division
<1>3. PICK r \in Nat : r = a % p BY <1>1, Division
<1>4. a = q * p + r BY <1>1, <1>2, <1>3, Division
<1>5. r = a + (-q) * p /\ a = r + q * p
  BY ONLY <1>4, a \in Int, q \in Int, r \in Nat, p \in Nat, SMT
<1>6. -q \in Int OBVIOUS
<1> QED BY <1>1, <1>3, <1>5, <1>6 DEF Same

\* Being the same is reflexive
LEMMA SameRefl == ASSUME NEW a \in Int PROVE Same(a, a)
<1>1. a = a + 0 * Prime BY PrimeNat, SMT
<1> QED BY <1>1 DEF Same

\* and transitive, and kept by
LEMMA SameTrans ==
  ASSUME NEW a \in Int, NEW b \in Int, NEW c \in Int, Same(a, b), Same(b, c)
  PROVE Same(a, c)
<1>1. PICK p \in Nat : p = Prime BY PrimeNat
<1>2. PICK k \in Int : a = b + k * p BY <1>1 DEF Same
<1>3. PICK m \in Int : b = c + m * p BY <1>1 DEF Same
<1>4. a = c + (m + k) * p
  BY ONLY <1>2, <1>3, a \in Int, b \in Int, c \in Int, k \in Int, m \in Int,
  p \in Nat, SMT
<1>5. m + k \in Int OBVIOUS
<1> QED BY <1>1, <1>4, <1>5 DEF Same

\* sums and differences,
LEMMA SameSum ==
  ASSUME NEW a \in Int, NEW b \in Int, NEW c \in Int, NEW d \in Int,
         Same(a, b), Same(c, d)
  PROVE Same(a + c, b + d) /\ Same(a - c, b - d)
<1>1. PICK p \in Nat : p = Prime BY PrimeNat
<1>2. PICK k \in Int : a = b + k * p BY <1>1 DEF Same
<1>3. PICK m \in Int : c = d + m * p BY <1>1 DEF Same
<1>4. a + c = (b + d) + (k + m) * p /\ a - c = (b - d) + (k - m) * p
  BY ONLY <1>2, <1>3, a \in Int, b \in Int, c \in Int, d \in Int, k \in Int,
  m \in Int, p \in Nat, SMT
<1>5. k + m \in Int /\ k - m \in Int OBVIOUS
<1> QED BY <1>1, <1>4, <1>5 DEF Same

\* multiples
LEMMA SameTimes ==
  ASSUME NEW a \in Int, NEW b \in Int, NEW c \in Int, Same(a, b)
  PROVE Same(a * c, b * c) /\ Same(c * a, c * b)
<1>1. PICK p \in Nat : p = Prime BY PrimeNat
<1>2. PICK k \in Int : a = b + k * p BY <1>1 DEF Same
<1>4. a * c = b * c + (k * c) * p /\ c * a = c * b + (k * c) * p
  BY ONLY <1>2, a \in Int, b \in Int, c \in Int, k \in Int, p \in Nat, SMT
<1>5. k * c \in Int BY SMT
<1> QED BY <1>1, <1>4, <1>5 DEF Same

\* and products.
LEMMA SameProduct ==
  ASSUME NEW a \in Int, NEW b \in Int, NEW c \in Int, NEW d \in Int,
         Same(a, b), Same(c, d)
  PROVE Same(a * c, b * d)
<1>1. Same(a * c, b * c) BY SameTimes
<1>2. Same(b * c, b * d) BY SameTimes
<1>3. a * c \in Int /\ b * c \in Int /\ b * d \in Int BY SMT
<1> QED BY <1>1, <1>2, <1>3, SameTrans

-------------------------------------------------------------------------------
(* What a carry does to the number an element stands for. *)

\* The number an element stands for is a number.
LEMMA NumberInt ==
  ASSUME NEW h \in Element
  PROVE NumberOf(h) \in Int /\ [i \in Limb |-> h[i] * Worth[i]] \in Element
<1>1. \A i \in Limb : h[i] * Worth[i] \in Int
  <2>1. \A a \in Int, b \in Nat : a * b \in Int BY SMT
  <2> QED BY <2>1, WorthNat DEF Element
<1> QED BY <1>1, TotalInt DEF NumberOf, Element

\* fe_add adds the numbers (fe.c:81-123),
LEMMA NumberAdd ==
  ASSUME NEW f \in Element, NEW g \in Element
  PROVE NumberOf(FeAdd(f, g)) = NumberOf(f) + NumberOf(g)
<1> DEFINE fw == [i \in Limb |-> f[i] * Worth[i]]
           gw == [i \in Limb |-> g[i] * Worth[i]]
<1>1. \A i \in Limb :
        (f[i] + g[i]) * Worth[i] = f[i] * Worth[i] + g[i] * Worth[i]
  <2>1. \A a, b \in Int, c \in Nat : (a + b) * c = a * c + b * c BY SMT
  <2> QED BY <2>1, WorthNat DEF Element
<1>2. [i \in Limb |-> FeAdd(f, g)[i] * Worth[i]]
        = [i \in Limb |-> fw[i] + gw[i]]
  BY <1>1 DEF FeAdd
<1>3. fw \in Element /\ gw \in Element BY NumberInt
<1> HIDE DEF fw, gw
<1>4. NumberOf(FeAdd(f, g)) = Total(fw) + Total(gw)
  BY <1>2, <1>3, TotalAdd DEF NumberOf
<1> QED BY <1>4 DEF NumberOf, fw, gw

\* fe_sub subtracts them (fe.c:1315-1357),
LEMMA NumberSub ==
  ASSUME NEW f \in Element, NEW g \in Element
  PROVE NumberOf(FeSub(f, g)) = NumberOf(f) - NumberOf(g)
<1> DEFINE fw == [i \in Limb |-> f[i] * Worth[i]]
           gw == [i \in Limb |-> g[i] * Worth[i]]
<1>1. \A i \in Limb :
        (f[i] - g[i]) * Worth[i] = f[i] * Worth[i] - g[i] * Worth[i]
  <2>1. \A a, b \in Int, c \in Nat : (a - b) * c = a * c - b * c BY SMT
  <2> QED BY <2>1, WorthNat DEF Element
<1>2. [i \in Limb |-> FeSub(f, g)[i] * Worth[i]]
        = [i \in Limb |-> fw[i] - gw[i]]
  BY <1>1 DEF FeSub
<1>3. fw \in Element /\ gw \in Element BY NumberInt
<1> HIDE DEF fw, gw
<1>4. NumberOf(FeSub(f, g)) = Total(fw) - Total(gw)
  BY <1>2, <1>3, TotalSub DEF NumberOf
<1> QED BY <1>4 DEF NumberOf, fw, gw

\* and scaling every limb scales the number.
LEMMA NumberScale ==
  ASSUME NEW f \in Element, NEW c \in Int
  PROVE /\ NumberOf([i \in Limb |-> f[i] * c]) = NumberOf(f) * c
        /\ [i \in Limb |-> f[i] * c] \in Element
<1> DEFINE fw == [i \in Limb |-> f[i] * Worth[i]]
           g == [i \in Limb |-> f[i] * c]
<1>1. \A i \in Limb :
        (f[i] * c) * Worth[i] = c * (f[i] * Worth[i]) /\ f[i] * c \in Int
  <2>1. \A a, b \in Int, d \in Nat : (a * b) * d = b * (a * d) /\ a * b \in Int
    BY SMT
  <2> QED BY <2>1, WorthNat DEF Element
<1>2. [i \in Limb |-> g[i] * Worth[i]] = [i \in Limb |-> c * fw[i]]
  BY <1>1
<1>3. fw \in Element BY NumberInt
<1>5. g \in Element BY <1>1 DEF Element
<1> HIDE DEF fw, g
<1>4. NumberOf(g) = c * Total(fw)
  BY <1>2, <1>3, TotalScale DEF NumberOf
<1>6. Total(fw) \in Int BY <1>3, TotalInt
<1>7. c * Total(fw) = Total(fw) * c BY <1>6, SMT
<1> QED BY <1>4, <1>5, <1>7 DEF NumberOf, fw, g

\* The total of limbs of which only a neighbouring pair is not zero.
LEMMA TwoTerms ==
  ASSUME NEW h \in Element, NEW i \in Limb,
         \A j \in Limb : j # i /\ j # Above(i) => h[j] = 0
  PROVE Total(h) = h[i] + h[Above(i)]
<1>1. /\ \A j \in Limb : h[j] \in Int
      /\ \A j \in Limb : j # i /\ j # Above(i) => h[j] = 0
      /\ 0 \in Limb /\ 1 \in Limb /\ 2 \in Limb /\ 3 \in Limb /\ 4 \in Limb
      /\ 5 \in Limb /\ 6 \in Limb /\ 7 \in Limb /\ 8 \in Limb /\ 9 \in Limb
  BY SMT DEF Element, Limb
<1>2. CASE i = 0
  BY <1>1, <1>2, SMT DEF Total, Above
<1>3. CASE i = 1
  BY <1>1, <1>3, SMT DEF Total, Above
<1>4. CASE i = 2
  BY <1>1, <1>4, SMT DEF Total, Above
<1>5. CASE i = 3
  BY <1>1, <1>5, SMT DEF Total, Above
<1>6. CASE i = 4
  BY <1>1, <1>6, SMT DEF Total, Above
<1>7. CASE i = 5
  BY <1>1, <1>7, SMT DEF Total, Above
<1>8. CASE i = 6
  BY <1>1, <1>8, SMT DEF Total, Above
<1>9. CASE i = 7
  BY <1>1, <1>9, SMT DEF Total, Above
<1>10. CASE i = 8
  BY <1>1, <1>10, SMT DEF Total, Above
<1>11. CASE i = 9
  BY <1>1, <1>11, SMT DEF Total, Above
<1> QED BY <1>2, <1>3, <1>4, <1>5, <1>6, <1>7, <1>8, <1>9, <1>10, <1>11,
           LimbCases

\* Whatever is carried from a limb to the one above, the number stays the
\* same modulo the prime; below the top limb it does not change at all.
LEMMA CarryKeeps ==
  ASSUME NEW h \in Element, NEW i \in Limb, NEW c \in Int
  PROVE /\ Carry(h, i, c) \in Element
        /\ Same(NumberOf(Carry(h, i, c)), NumberOf(h))
        /\ i # 9 => NumberOf(Carry(h, i, c)) = NumberOf(h)
<1> DEFINE up == c * (IF i = 9 THEN Wrap ELSE 1)
           down == c * Span(i)
           d == [j \in Limb |-> IF j = i THEN -down
                                ELSE IF j = Above(i) THEN up ELSE 0]
           dw == [j \in Limb |-> d[j] * Worth[j]]
<1>1. up \in Int /\ down \in Int
  <2>1. \A a \in Int, b \in Nat : a * b \in Int BY SMT
  <2> QED BY <2>1, SpanNat, PrimeNat, SMT
<1>2. d \in Element BY <1>1, SMT DEF Element
<1>3. Above(i) \in Limb /\ Above(i) # i BY SMT DEF Above, Limb
<1>4. Carry(h, i, c) = FeAdd(h, d) /\ FeAdd(h, d) \in Element
  <2>1. \A j \in Limb : h[j] \in Int /\ d[j] \in Int BY <1>2 DEF Element
  <2>2. h \in [Limb -> Int] BY DEF Element
  <2>3. Carry(h, i, c) = [j \in Limb |->
          IF j = i THEN h[j] - down ELSE IF j = Above(i) THEN h[j] + up
          ELSE h[j]]
    BY <2>2, <1>3 DEF Carry
  <2>4. \A j \in Limb : h[j] + d[j] =
          IF j = i THEN h[j] - down ELSE IF j = Above(i) THEN h[j] + up
          ELSE h[j]
    <3> HIDE DEF up, down
    <3> QED BY <1>1, <2>1, SMT
  <2>5. \A j \in Limb : h[j] + d[j] \in Int
    <3> HIDE DEF d
    <3> QED BY <2>1, SMT
  <2> HIDE DEF up, down, d
  <2> QED BY <2>3, <2>4, <2>5 DEF FeAdd, Element
<1>5. NumberOf(FeAdd(h, d)) = NumberOf(h) + NumberOf(d)
  BY <1>2, NumberAdd
<1>6. NumberOf(d) = dw[i] + dw[Above(i)]
  <2>1. dw \in Element BY <1>2, NumberInt
  <2>2. \A j \in Limb : j # i /\ j # Above(i) => dw[j] = 0
    <3>1. \A j \in Limb : j # i /\ j # Above(i) => dw[j] = 0 * Worth[j]
      OBVIOUS
    <3>2. \A j \in Limb : 0 * Worth[j] = 0 BY WorthNat, SMT
    <3> QED BY <3>1, <3>2
  <2> HIDE DEF dw
  <2>3. Total(dw) = dw[i] + dw[Above(i)] BY <2>1, <2>2, TwoTerms
  <2> QED BY <2>3 DEF NumberOf, dw
<1>7. dw[i] = (-down) * Worth[i] /\ dw[Above(i)] = up * Worth[Above(i)]
  BY <1>3
<1> HIDE DEF d, dw
<1>8. \E k \in Int : dw[i] + dw[Above(i)] = k * Prime /\ (i # 9 => k = 0)
  <2>1. PICK s \in Nat : s = Span(i) BY SpanNat
  <2>2. PICK w \in Nat : w = Worth[i] BY WorthNat
  <2>3. PICK v \in Nat : v = Worth[Above(i)] BY <1>3, WorthNat
  <2>4. CASE i # 9
    <3>1. v = w * s
      <4>1. i \in 0..8 /\ Above(i) = i + 1 BY <2>4, SMT DEF Limb, Above
      <4> QED BY <4>1, <2>1, <2>2, <2>3, WidthAssumption
    <3>2. dw[i] = (-(c * s)) * w /\ dw[Above(i)] = (c * 1) * v
      BY <1>7, <2>1, <2>2, <2>3, <2>4
    <3>3. (-(c * s)) * w + (c * 1) * v = 0
      BY ONLY <3>1, c \in Int, s \in Nat, w \in Nat, v \in Nat, SMT
    <3>4. 0 * Prime = 0 BY PrimeNat, SMT
    <3>5. dw[i] + dw[Above(i)] = 0 * Prime BY ONLY <3>2, <3>3, <3>4, Zenon
    <3>6. 0 \in Int OBVIOUS
    <3> QED BY ONLY <3>5, <3>6, Zenon
  <2>5. CASE i = 9
    <3>1. v = 1 /\ Full = w * s
      <4>1. Above(i) = 0 BY <2>5, SMT DEF Above
      <4>2. s = OddSpan BY <2>1, <2>5, SMT DEF Span
      <4> QED BY <4>1, <4>2, <2>2, <2>3, <2>5, WidthAssumption DEF Full
    <3>2. PICK p \in Nat : p = Prime BY PrimeNat
    <3>3. PICK m \in Nat : m = Wrap BY PrimeNat
    <3>4. w * s = p + m BY <3>1, <3>2, <3>3, PrimeNat
    <3>5. dw[i] = (-(c * s)) * w /\ dw[Above(i)] = (c * m) * v
      BY <1>7, <2>1, <2>2, <2>3, <2>5, <3>3
    <3>6. (-(c * s)) * w + (c * m) * v = (-c) * p
      BY ONLY <3>1, <3>4, c \in Int, s \in Nat, w \in Nat, v \in Nat,
      p \in Nat, m \in Nat, SMT
    <3>7. -c \in Int OBVIOUS
    <3>8. dw[i] + dw[Above(i)] = (-c) * Prime
      BY ONLY <3>2, <3>5, <3>6, Zenon
    <3> QED BY ONLY <2>5, <3>7, <3>8, Zenon
  <2> QED BY <2>4, <2>5
<1>9. NumberOf(h) \in Int BY NumberInt
<1>10. PICK k \in Int : dw[i] + dw[Above(i)] = k * Prime /\ (i # 9 => k = 0)
  BY ONLY <1>8, Zenon
<1>11. NumberOf(Carry(h, i, c)) = NumberOf(h) + k * Prime
  BY ONLY <1>4, <1>5, <1>6, <1>10, Zenon
<1>12. NumberOf(h) + 0 * Prime = NumberOf(h) BY <1>9, PrimeNat, SMT
<1>13. i # 9 => NumberOf(Carry(h, i, c)) = NumberOf(h)
  BY ONLY <1>10, <1>11, <1>12, Zenon
<1> QED BY ONLY <1>4, <1>11, <1>13, k \in Int, Zenon DEF Same

\* The code's rounding carry (fe.c:811-821) keeps the value.
LEMMA RoundCarryKeeps ==
  ASSUME NEW h \in Element, NEW i \in Limb
  PROVE /\ RoundCarry(h, i) \in Element
        /\ Same(NumberOf(RoundCarry(h, i)), NumberOf(h))
<1>1. PICK s \in Nat : s = Span(i) /\ s > 0 BY SpanNat
<1>2. PICK x \in Int : x = h[i] BY DEF Element
<1>3. s \div 2 \in Int BY SMT
<1>4. PICK y \in Int : y = x + s \div 2 BY <1>3
<1>5. y \div s \in Int BY <1>1, Division
<1>6. (h[i] + Span(i) \div 2) \div Span(i) \in Int
  BY <1>1, <1>2, <1>4, <1>5
<1> QED BY <1>6, CarryKeeps DEF RoundCarry

\* The states of the loop of carries.
Passes(h, order, n, a) ==
  /\ a \in [0..n -> Element]
  /\ a[0] = h
  /\ \A i \in 1..n : a[i] = RoundCarry(a[i - 1], order[i])
  /\ Same(NumberOf(a[n]), NumberOf(h))

\* Such states exist, for carries in any order.
LEMMA PassesExist ==
  ASSUME NEW h \in Element, NEW order \in Seq(Limb)
  PROVE \E a : Passes(h, order, Len(order), a)
<1> DEFINE L == Len(order)
           S == {n \in Nat : n <= L => \E a : Passes(h, order, n, a)}
<1>1. L \in Nat OBVIOUS
<1>2. \A n \in 1..L : order[n] \in Limb OBVIOUS
<1> HIDE DEF L
<1>3. 0 \in S
  <2> DEFINE a == [n \in 0..0 |-> h]
  <2>1. a[0] = h BY SMT
  <2>2. a \in [0..0 -> Element] OBVIOUS
  <2>3. Same(NumberOf(h), NumberOf(h)) BY NumberInt, SameRefl
  <2>4. 1..0 = {} BY SMT
  <2> HIDE DEF a
  <2>5. Passes(h, order, 0, a)
    BY <2>1, <2>2, <2>3, <2>4, Zenon DEF Passes
  <2> QED BY <2>5
<1>4. \A n \in Nat : n \in S => n + 1 \in S
  <2> SUFFICES ASSUME NEW n \in Nat, n \in S, n + 1 <= L
               PROVE \E b : Passes(h, order, n + 1, b)
    OBVIOUS
  <2>1. PICK a : Passes(h, order, n, a) BY <1>1, SMT
  <2>2. n + 1 \in 1..L /\ order[n + 1] \in Limb BY <1>1, <1>2, SMT
  <2> DEFINE b == [i \in 0..(n + 1) |->
                    IF i = n + 1 THEN RoundCarry(a[n], order[n + 1]) ELSE a[i]]
  <2>3. a[n] \in Element BY <2>1, SMT DEF Passes
  <2>4. RoundCarry(a[n], order[n + 1]) \in Element
        /\ Same(NumberOf(RoundCarry(a[n], order[n + 1])), NumberOf(a[n]))
    BY <2>2, <2>3, RoundCarryKeeps
  <2>5. b \in [0..(n + 1) -> Element] BY <2>1, <2>4, SMT DEF Passes
  <2>6. b[0] = h BY <2>1, SMT DEF Passes
  <2>7. \A i \in 1..(n + 1) : b[i] = RoundCarry(b[i - 1], order[i])
    <3> SUFFICES ASSUME NEW i \in 1..(n + 1)
                 PROVE b[i] = RoundCarry(b[i - 1], order[i])
      OBVIOUS
    <3>1. i - 1 \in 0..n /\ i - 1 \in 0..(n + 1) /\ i - 1 # n + 1 BY SMT
    <3>2. b[i - 1] = a[i - 1] BY <3>1
    <3>3. CASE i = n + 1
      <4>1. b[i] = RoundCarry(a[n], order[n + 1]) /\ i - 1 = n BY <3>3, SMT
      <4> QED BY <3>2, <3>3, <4>1
    <3>4. CASE i # n + 1
      <4>1. i \in 1..n /\ b[i] = a[i] BY <3>4, SMT
      <4>2. a[i] = RoundCarry(a[i - 1], order[i]) BY <4>1, <2>1 DEF Passes
      <4> QED BY <3>2, <4>1, <4>2
    <3> QED BY <3>3, <3>4
  <2>8. b[n + 1] = RoundCarry(a[n], order[n + 1]) BY SMT
  <2>9. Same(NumberOf(b[n + 1]), NumberOf(h))
    <3>1. Same(NumberOf(a[n]), NumberOf(h)) BY <2>1 DEF Passes
    <3> QED BY <2>3, <2>4, <2>8, <3>1, NumberInt, SameTrans
  <2> HIDE DEF b
  <2>10. Passes(h, order, n + 1, b) BY <2>5, <2>6, <2>7, <2>9 DEF Passes
  <2> QED BY <2>10
<1> HIDE DEF S
<1>5. Nat \subseteq S BY <1>3, <1>4, NatLeast
<1>6. L \in S BY <1>1, <1>5
<1> QED BY <1>1, <1>6 DEF S, L

\* The loop of carries goes through them.
LEMMA RoundCarriesAre ==
  ASSUME NEW h \in Element, NEW order \in Seq(Limb)
  PROVE \E a : /\ Passes(h, order, Len(order), a)
               /\ RoundCarries(h, order) = a[Len(order)]
<1> DEFINE L == Len(order)
           F(a) == [n \in 0..L |-> IF n = 0 THEN h
                                   ELSE RoundCarry(a[n - 1], order[n])]
           after == CHOOSE a : a = F(a)
<1>1. L \in Nat OBVIOUS
<1>2. RoundCarries(h, order) = after[L]
  BY Zenon DEF RoundCarries
<1>3. PICK a : Passes(h, order, L, a) BY PassesExist
<1>4. a = F(a)
  <2>1. \A n \in 0..L : a[n] = F(a)[n]
    <3> SUFFICES ASSUME NEW n \in 0..L PROVE a[n] = F(a)[n]
      OBVIOUS
    <3>1. F(a)[n] = IF n = 0 THEN h ELSE RoundCarry(a[n - 1], order[n])
      OBVIOUS
    <3>2. n # 0 => n \in 1..L BY <1>1, SMT
    <3> HIDE DEF F, L
    <3> QED BY <1>3, <3>1, <3>2 DEF Passes
  <2>2. a \in [0..L -> Element] BY <1>3 DEF Passes
  <2> QED BY <2>1, <2>2
<1>5. after = F(after) BY <1>4
<1> HIDE DEF after
<1>6. after \in [0..L -> Element] /\ \A n \in 0..L : after[n] = a[n]
  <2> DEFINE S == {n \in Nat : n <= L => after[n] = a[n]}
  <2>1. \A n \in 0..L : after[n] =
          IF n = 0 THEN h ELSE RoundCarry(after[n - 1], order[n])
    <3>1. \A n \in 0..L : F(after)[n] =
            IF n = 0 THEN h ELSE RoundCarry(after[n - 1], order[n])
      OBVIOUS
    <3> HIDE DEF F, L
    <3> QED BY <1>5, <3>1
  <2>2. 0 \in S
    <3>1. 0 \in 0..L BY <1>1, SMT
    <3> HIDE DEF L
    <3> QED BY <2>1, <3>1, <1>3 DEF Passes
  <2>3. \A n \in Nat : n \in S => n + 1 \in S
    <3> HIDE DEF L
    <3> SUFFICES ASSUME NEW n \in Nat, n \in S, n + 1 <= L
                 PROVE after[n + 1] = a[n + 1]
      OBVIOUS
    <3>1. n + 1 \in 0..L /\ n + 1 # 0 /\ n + 1 \in 1..L /\ (n + 1) - 1 = n
          /\ n <= L
      BY <1>1, SMT
    <3>2. after[n + 1] = RoundCarry(after[n], order[n + 1])
      BY <2>1, <3>1
    <3>3. a[n + 1] = RoundCarry(a[n], order[n + 1])
      BY <1>3, <3>1 DEF Passes
    <3>4. after[n] = a[n] BY <3>1
    <3> QED BY <3>2, <3>3, <3>4
  <2> HIDE DEF S
  <2>4. Nat \subseteq S BY <2>2, <2>3, NatLeast
  <2>5. \A n \in 0..L : after[n] = a[n]
    <3> HIDE DEF L
    <3>1. \A n \in 0..L : n \in Nat /\ n <= L BY <1>1, SMT
    <3> QED BY <2>4, <3>1 DEF S
  <2>6. after = [n \in 0..L |-> IF n = 0 THEN h
                                ELSE RoundCarry(after[n - 1], order[n])]
    BY <1>5
  <2>7. a \in [0..L -> Element] BY <1>3 DEF Passes
  <2> HIDE DEF L
  <2> QED BY <2>5, <2>6, <2>7
<1>7. L \in 0..L BY <1>1, SMT
<1>8. after[L] = a[L] BY <1>6, <1>7
<1> QED BY <1>2, <1>3, <1>8

\* So carries in any order keep the value.
LEMMA RoundCarriesKeep ==
  ASSUME NEW h \in Element, NEW order \in Seq(Limb)
  PROVE /\ RoundCarries(h, order) \in Element
        /\ Same(NumberOf(RoundCarries(h, order)), NumberOf(h))
<1>1. PICK L \in Nat : L = Len(order) OBVIOUS
<1>2. PICK a : Passes(h, order, L, a) /\ RoundCarries(h, order) = a[L]
  BY <1>1, RoundCarriesAre
<1>3. L \in 0..L BY SMT
<1>4. a[L] \in Element /\ Same(NumberOf(a[L]), NumberOf(h))
  BY <1>2, <1>3 DEF Passes
<1> QED BY <1>2, <1>4

\* What the n-th limb position counts, the folded ones included.
Position(n) == IF n < 10 THEN Worth[n] ELSE Full * Worth[n - 10]

\* Two odd limbs' product counts twice.
Twice(i, j) == IF i % 2 = 1 /\ j % 2 = 1 THEN 2 ELSE 1

\* From one position to the next the worth grows by the limb's span.
LEMMA PositionNext ==
  ASSUME NEW n \in 0..17
  PROVE Position(n) \in Nat /\ Position(n + 1) = Position(n) * Span(n)
<1>1. \A a, b \in Nat : a * b \in Nat BY SMT
<1>2. CASE n < 9
  <2>1. n \in 0..8 /\ n \in Limb /\ n < 10 /\ n + 1 < 10 BY <1>2, SMT DEF Limb
  <2> QED BY <2>1, WidthAssumption DEF Position
<1>3. CASE n = 9
  <2>1. Position(9) = Worth[9] /\ Position(10) = Full * Worth[0] /\ 9 \in Limb
    BY SMT DEF Position, Limb
  <2>2. Span(9) = OddSpan BY SMT DEF Span
  <2>3. Full * 1 = Full BY PrimeNat, SMT
  <2> QED BY <1>3, <2>1, <2>2, <2>3, WidthAssumption DEF Full
<1>4. CASE n > 9
  <2>1. PICK m \in 0..7 : n = m + 10 BY <1>4, SMT
  <2>2. /\ m \in 0..8 /\ m \in Limb /\ ~(m + 10 < 10) /\ ~((m + 10) + 1 < 10)
        /\ ((m + 10) + 1) - 10 = m + 1 /\ (m + 10) - 10 = m
        /\ (m + 10) % 2 = m % 2
    BY SMT DEF Limb
  <2>3. /\ Position(m + 10) = Full * Worth[m]
        /\ Position((m + 10) + 1) = Full * Worth[m + 1]
        /\ Span(m + 10) = Span(m)
    BY <2>2 DEF Position, Span
  <2>4. PICK a \in Nat, b \in Nat, c \in Nat :
          a = Full /\ b = Worth[m] /\ c = Span(m)
    BY <2>2, PrimeNat, WorthNat, SpanNat
  <2>5. Worth[m + 1] = b * c BY <2>2, <2>4, WidthAssumption
  <2>6. a * (b * c) = (a * b) * c BY SMT
  <2> QED BY <1>1, <2>1, <2>3, <2>4, <2>5, <2>6
<1> QED BY <1>2, <1>3, <1>4, SMT

\* What the product of two limbs' units is worth.
LEMMA WorthProduct ==
  ASSUME NEW i \in Limb
  PROVE \A j \in Limb : Worth[i] * Worth[j] = Twice(i, j) * Position(i + j)
<1> DEFINE S == {j \in Nat : j <= 9 =>
                  Worth[i] * Worth[j] = Twice(i, j) * Position(i + j)}
<1>1. 0 \in S
  <2>1. Worth[0] = 1 BY WidthAssumption
  <2>2. i + 0 = i /\ i < 10 BY SMT DEF Limb
  <2>3. Twice(i, 0) = 1 BY SMT DEF Twice
  <2>4. Worth[i] * 1 = 1 * Worth[i] BY WorthNat, SMT
  <2> QED BY <2>1, <2>2, <2>3, <2>4 DEF Position
<1>2. \A j \in Nat : j \in S => j + 1 \in S
  <2> SUFFICES ASSUME NEW j \in Nat, j \in S, j + 1 <= 9
      PROVE Worth[i] * Worth[j + 1] = Twice(i, j + 1) * Position(i + (j + 1))
    OBVIOUS
  <2>1. j \in 0..8 /\ j \in Limb /\ i + j \in 0..17 /\ i + (j + 1) = (i + j) + 1
        /\ j <= 9
    BY SMT DEF Limb
  <2>2. Worth[i] * Worth[j] = Twice(i, j) * Position(i + j) BY <2>1
  <2>3. Worth[j + 1] = Worth[j] * Span(j) BY <2>1, WidthAssumption
  <2>4. Position(i + (j + 1)) = Position(i + j) * Span(i + j)
        /\ Position(i + j) \in Nat
    BY <2>1, PositionNext
  <2>5. Twice(i, j) * Span(j) = Twice(i, j + 1) * Span(i + j)
    <3>1. PICK o \in Nat : o = OddSpan BY WidthAssumption
    <3>2. i \in Nat /\ j \in Nat BY <2>1, SMT DEF Limb
    <3>3. i % 2 \in {0, 1} /\ j % 2 \in {0, 1} BY <3>2, SMT
    <3>4. CASE i % 2 = 0
      <4>1. (i + j) % 2 = j % 2 BY <3>2, <3>4, SMT
      <4> QED BY <3>4, <4>1 DEF Twice, Span
    <3>5. CASE i % 2 = 1 /\ j % 2 = 0
      <4>1. (i + j) % 2 = 1 /\ (j + 1) % 2 = 1 BY <3>2, <3>5, SMT
      <4>2. Twice(i, j) = 1 /\ Span(j) = 2 * o /\ Twice(i, j + 1) = 2
            /\ Span(i + j) = o
        BY <3>1, <3>5, <4>1 DEF Twice, Span
      <4>3. 1 * (2 * o) = 2 * o BY SMT
      <4> QED BY <4>2, <4>3
    <3>6. CASE i % 2 = 1 /\ j % 2 = 1
      <4>1. (i + j) % 2 = 0 /\ (j + 1) % 2 = 0 BY <3>2, <3>6, SMT
      <4>2. Twice(i, j) = 2 /\ Span(j) = o /\ Twice(i, j + 1) = 1
            /\ Span(i + j) = 2 * o
        BY <3>1, <3>6, <4>1 DEF Twice, Span
      <4>3. 1 * (2 * o) = 2 * o BY SMT
      <4> QED BY <4>2, <4>3
    <3> QED BY <3>3, <3>4, <3>5, <3>6
  <2>6. PICK t \in Nat, u \in Nat : t = Twice(i, j) /\ u = Twice(i, j + 1)
    BY DEF Twice
  <2>7. PICK s \in Nat, r \in Nat : s = Span(j) /\ r = Span(i + j)
    <3>1. \A n \in Nat : Span(n) \in Nat
      BY WidthAssumption, SMT DEF Span
    <3> QED BY <2>1, <3>1, SMT
  <2>8. PICK p \in Nat : p = Position(i + j) BY <2>4
  <2>9. PICK a \in Nat, b \in Nat : a = Worth[i] /\ b = Worth[j]
    BY <2>1, WorthNat
  <2>10. a * b = t * p /\ t * s = u * r BY <2>2, <2>5, <2>6, <2>7, <2>8, <2>9
  <2>11. a * (b * s) = u * (p * r)
    <3>1. a * (b * s) = (a * b) * s BY SMT
    <3>2. (t * p) * s = (t * s) * p BY SMT
    <3>3. (u * r) * p = u * (p * r) BY SMT
    <3> QED BY ONLY <2>10, <3>1, <3>2, <3>3, Zenon
  <2> QED BY <2>3, <2>4, <2>6, <2>7, <2>8, <2>9, <2>11
<1> HIDE DEF S
<1>3. Nat \subseteq S BY <1>1, <1>2, NatLeast
<1>4. \A j \in Limb : j \in Nat /\ j <= 9 BY SMT DEF Limb
<1> QED BY <1>3, <1>4 DEF S

-------------------------------------------------------------------------------
(* Products. *)

\* Totals of ten numbers that are the same, one by one, are the same.
LEMMA TotalSame ==
  ASSUME NEW f \in Element, NEW g \in Element,
         \A i \in Limb : Same(f[i], g[i])
  PROVE Same(Total(f), Total(g))
<1>1. \A i \in Limb : f[i] \in Int /\ g[i] \in Int /\ Same(f[i], g[i])
  BY DEF Element
<1>2. 0 \in Limb /\ 1 \in Limb /\ 2 \in Limb /\ 3 \in Limb /\ 4 \in Limb
      /\ 5 \in Limb /\ 6 \in Limb /\ 7 \in Limb /\ 8 \in Limb /\ 9 \in Limb
  BY SMT DEF Limb
<1> DEFINE Near(x, y) == x \in Int /\ y \in Int /\ Same(x, y)
<1>3. \A i \in Limb : Near(f[i], g[i]) BY <1>1
<1>4. ASSUME NEW x, NEW y, Near(x, y), NEW i \in Limb
      PROVE  Near(x + f[i], y + g[i])
  <2>1. x + f[i] \in Int /\ y + g[i] \in Int BY <1>1, <1>4
  <2>2. Same(x + f[i], y + g[i]) BY <1>1, <1>4, SameSum
  <2> QED BY <2>1, <2>2
<1> HIDE DEF Near
<1> DEFINE f1 == f[0] + f[1]
           g1 == g[0] + g[1]
           f2 == f1 + f[2]
           g2 == g1 + g[2]
           f3 == f2 + f[3]
           g3 == g2 + g[3]
           f4 == f3 + f[4]
           g4 == g3 + g[4]
           f5 == f4 + f[5]
           g5 == g4 + g[5]
           f6 == f5 + f[6]
           g6 == g5 + g[6]
           f7 == f6 + f[7]
           g7 == g6 + g[7]
           f8 == f7 + f[8]
           g8 == g7 + g[8]
           f9 == f8 + f[9]
           g9 == g8 + g[9]
<1>5. Total(f) = f9 /\ Total(g) = g9 BY DEF Total
<1>6. Near(f1, g1) BY <1>2, <1>3, <1>4
<1> HIDE DEF f1, g1
<1>7. Near(f2, g2) BY <1>2, <1>4, <1>6
<1> HIDE DEF f2, g2
<1>8. Near(f3, g3) BY <1>2, <1>4, <1>7
<1> HIDE DEF f3, g3
<1>9. Near(f4, g4) BY <1>2, <1>4, <1>8
<1> HIDE DEF f4, g4
<1>10. Near(f5, g5) BY <1>2, <1>4, <1>9
<1> HIDE DEF f5, g5
<1>11. Near(f6, g6) BY <1>2, <1>4, <1>10
<1> HIDE DEF f6, g6
<1>12. Near(f7, g7) BY <1>2, <1>4, <1>11
<1> HIDE DEF f7, g7
<1>13. Near(f8, g8) BY <1>2, <1>4, <1>12
<1> HIDE DEF f8, g8
<1>14. Near(f9, g9) BY <1>2, <1>4, <1>13
<1> QED BY <1>5, <1>14 DEF Near

\* The limbs whose product lands in limb k, folded back or not.
LEMMA PartnerLimb ==
  ASSUME NEW i \in Limb, NEW k \in Limb
  PROVE /\ Partner(i, k) \in Limb /\ Partner(Partner(i, k), k) = i
        /\ IF i + Partner(i, k) > 9 THEN (i + Partner(i, k)) - 10 = k
           ELSE i + Partner(i, k) = k
  BY SMT DEF Partner, Limb

\* One term of fe_mul: its factors of two and of nineteen make it worth what
\* the two limbs' product is worth, modulo the prime.
LEMMA ProductTerm ==
  ASSUME NEW i \in Limb, NEW k \in Limb, NEW x \in Int, NEW y \in Int,
         NEW j, j = Partner(i, k)
  PROVE /\ Weight(i, j) * x * y \in Int
        /\ Weight(i, j) * x * y * Worth[k] \in Int
        /\ (x * Worth[i]) * (y * Worth[j]) \in Int
        /\ Same(Weight(i, j) * x * y * Worth[k],
                (x * Worth[i]) * (y * Worth[j]))
<1>1. j \in Limb BY PartnerLimb
<1>2. PICK a \in Nat, b \in Nat, c \in Nat :
        a = Worth[i] /\ b = Worth[j] /\ c = Worth[k]
  BY <1>1, WorthNat
<1>3. PICK t \in Nat : t = Twice(i, j) BY DEF Twice
<1>4. PICK p \in Nat, m \in Nat : p = Prime /\ m = Wrap BY PrimeNat
<1>5. a * b = t * Position(i + j) BY <1>1, <1>2, <1>3, WorthProduct
<1>6. (x * a) * (y * b) \in Int
  <2>1. \A u, v \in Int : u * v \in Int BY SMT
  <2>2. x * a \in Int /\ y * b \in Int BY <2>1
  <2> QED BY <2>1, <2>2
<1>7. \A w \in Nat : w * x * y \in Int /\ w * x * y * c \in Int BY SMT
<1>8. CASE i + j > 9
  <2>1. (i + j) - 10 = k /\ ~(i + j < 10)
    <3>1. (i + j) - 10 = k BY <1>8, PartnerLimb
    <3>2. ~(i + j < 10) BY <1>1, <1>8, SMT DEF Limb
    <3> QED BY <3>1, <3>2
  <2>2. Position(i + j) = (p + m) * c
    <3>1. Position(i + j) = Full * Worth[(i + j) - 10] BY <2>1 DEF Position
    <3>2. Full = p + m BY <1>4, PrimeNat
    <3>3. Worth[(i + j) - 10] = c BY ONLY <1>2, <2>1, Zenon
    <3> QED BY <3>1, <3>2, <3>3
  <2>3. Weight(i, j) = t * m BY <1>3, <1>4, <1>8 DEF Weight, Twice
  <2>4. t * m \in Nat BY SMT
  <2>5. a * b = t * ((p + m) * c) BY <1>5, <2>2
  <2>6. (t * m) * x * y * c = (x * a) * (y * b) + (-(t * x * y * c)) * p
    <3>1. (x * a) * (y * b) = (x * y) * (a * b) BY SMT
    <3>2. (x * y) * (t * ((p + m) * c))
            = (t * m) * x * y * c + (t * x * y * c) * p BY SMT
    <3>3. PICK u \in Int, v \in Int, w \in Int :
            u = (x * a) * (y * b) /\ v = (t * m) * x * y * c
            /\ w = t * x * y * c
      BY <1>6, <1>7, <2>4
    <3>4. u = v + w * p BY ONLY <2>5, <3>1, <3>2, <3>3, Zenon
    <3>5. v = u + (-w) * p BY ONLY <3>4, u \in Int, v \in Int, w \in Int,
      p \in Nat, SMT
    <3> QED BY <3>3, <3>5
  <2>7. -(t * x * y * c) \in Int BY <1>7, SMT
  <2>8. Same((t * m) * x * y * c, (x * a) * (y * b))
    BY <1>4, <2>6, <2>7 DEF Same
  <2> QED BY <1>2, <1>6, <1>7, <2>3, <2>4, <2>8
<1>9. CASE ~(i + j > 9)
  <2>1. i + j = k /\ i + j < 10 BY <1>1, <1>9, PartnerLimb, SMT DEF Limb
  <2>2. Position(i + j) = c BY <1>2, <2>1 DEF Position
  <2>3. Weight(i, j) = t
    <3>1. Weight(i, j) = t * 1 BY <1>3, <1>9 DEF Weight, Twice
    <3> QED BY <3>1, SMT
  <2>5. a * b = t * c BY <1>5, <2>2
  <2>6. t * x * y * c = (x * a) * (y * b)
    <3>1. (x * a) * (y * b) = (x * y) * (a * b) BY SMT
    <3>2. (x * y) * (t * c) = t * x * y * c BY SMT
    <3> QED BY ONLY <2>5, <3>1, <3>2, Zenon
  <2> QED BY <1>2, <1>6, <1>7, <2>3, <2>6, SameRefl
<1> QED BY <1>8, <1>9

\* The ten sums of fe_mul stand for the product of the two numbers.
LEMMA ProductNumber ==
  ASSUME NEW f \in Element, NEW g \in Element
  PROVE /\ ProductLimbs(f, g) \in Element
        /\ Same(NumberOf(ProductLimbs(f, g)), NumberOf(f) * NumberOf(g))
<1> DEFINE fw == [i \in Limb |-> f[i] * Worth[i]]
           gw == [i \in Limb |-> g[i] * Worth[i]]
           T == [k \in Limb |-> [i \in Limb |->
                  Weight(i, Partner(i, k)) * f[i] * g[Partner(i, k)]]]
           N == [k \in Limb |-> [i \in Limb |-> T[k][i] * Worth[k]]]
           C == [k \in Limb |-> [i \in Limb |-> fw[i] * gw[Partner(i, k)]]]
<1>1. fw \in Element /\ gw \in Element /\ NumberOf(f) = Total(fw)
      /\ NumberOf(g) = Total(gw)
  BY NumberInt DEF NumberOf
<1>2. \A k \in Limb, i \in Limb :
        /\ T[k][i] \in Int /\ N[k][i] \in Int /\ C[k][i] \in Int
        /\ Same(N[k][i], C[k][i])
  <2> SUFFICES ASSUME NEW k \in Limb, NEW i \in Limb
               PROVE /\ T[k][i] \in Int /\ N[k][i] \in Int /\ C[k][i] \in Int
                     /\ Same(N[k][i], C[k][i])
    OBVIOUS
  <2>1. PICK j \in Limb : j = Partner(i, k) BY PartnerLimb
  <2>2. f[i] \in Int /\ g[j] \in Int BY DEF Element
  <2>3. /\ T[k][i] = Weight(i, j) * f[i] * g[j]
        /\ N[k][i] = Weight(i, j) * f[i] * g[j] * Worth[k]
        /\ C[k][i] = (f[i] * Worth[i]) * (g[j] * Worth[j])
    BY <2>1
  <2> HIDE DEF T, N, C
  <2>4. PICK x \in Int, y \in Int : x = f[i] /\ y = g[j] BY <2>2
  <2>5. /\ Weight(i, j) * x * y \in Int
        /\ Weight(i, j) * x * y * Worth[k] \in Int
        /\ (x * Worth[i]) * (y * Worth[j]) \in Int
        /\ Same(Weight(i, j) * x * y * Worth[k],
                (x * Worth[i]) * (y * Worth[j]))
    BY <2>1, ProductTerm
  <2> QED BY ONLY <2>3, <2>4, <2>5, Zenon
<1>3. \A k \in Limb : T[k] \in Element /\ N[k] \in Element /\ C[k] \in Element
  BY <1>2 DEF Element
<1>4. C \in [Limb -> Element] BY <1>3
<1>5. ProductLimbs(f, g) = [k \in Limb |-> Total(T[k])] BY DEF ProductLimbs
<1>6. \A k \in Limb : Total(T[k]) * Worth[k] = Total(N[k])
                     /\ Total(T[k]) \in Int /\ Total(N[k]) \in Int
                     /\ Total(C[k]) \in Int
  <2> SUFFICES ASSUME NEW k \in Limb
      PROVE Total(T[k]) * Worth[k] = Total(N[k])
            /\ Total(T[k]) \in Int /\ Total(N[k]) \in Int
            /\ Total(C[k]) \in Int
    OBVIOUS
  <2>1. Total(T[k]) \in Int /\ Total(N[k]) \in Int /\ Total(C[k]) \in Int
    BY <1>3, TotalInt
  <2>2. PICK w \in Nat : w = Worth[k] BY WorthNat
  <2>3. \A i \in Limb : T[k][i] * w = w * T[k][i]
    <3>1. \A a \in Int : a * w = w * a BY SMT
    <3>2. \A i \in Limb : T[k][i] \in Int BY <1>2
    <3> HIDE DEF T
    <3> QED BY <3>1, <3>2
  <2>4. N[k] = [i \in Limb |-> w * T[k][i]] BY <2>2, <2>3
  <2> HIDE DEF T, N
  <2>7. PICK t \in Element : t = T[k] BY <1>3
  <2>8. Total([i \in Limb |-> w * t[i]]) = w * Total(t) BY TotalScale
  <2>5. Total(N[k]) = w * Total(T[k]) BY ONLY <2>4, <2>7, <2>8, Zenon
  <2>6. w * Total(T[k]) = Total(T[k]) * w BY <2>1, SMT
  <2> QED BY <2>1, <2>2, <2>5, <2>6
<1>7. NumberOf(ProductLimbs(f, g)) = Total([k \in Limb |-> Total(N[k])])
  <2>1. [k \in Limb |-> ProductLimbs(f, g)[k] * Worth[k]]
          = [k \in Limb |-> Total(N[k])]
    <3> HIDE DEF T, N
    <3> QED BY <1>5, <1>6
  <2> QED BY <2>1 DEF NumberOf
<1>8. ProductLimbs(f, g) \in Element
  <2> HIDE DEF T
  <2> QED BY <1>5, <1>6 DEF Element
<1>9. Same(Total([k \in Limb |-> Total(N[k])]),
           Total([k \in Limb |-> Total(C[k])]))
  <2> DEFINE n == [k \in Limb |-> Total(N[k])]
             c == [k \in Limb |-> Total(C[k])]
  <2>1. n \in Element /\ c \in Element
    <3> HIDE DEF N, C
    <3> QED BY <1>6 DEF Element
  <2>2. \A k \in Limb : Same(n[k], c[k])
    <3> SUFFICES ASSUME NEW k \in Limb PROVE Same(Total(N[k]), Total(C[k]))
      OBVIOUS
    <3> HIDE DEF N, C
    <3> QED BY <1>2, <1>3, TotalSame
  <2> HIDE DEF n, c
  <2>3. Same(Total(n), Total(c)) BY <2>1, <2>2, TotalSame
  <2> QED BY <2>3 DEF n, c
<1>10. Total([k \in Limb |-> Total(C[k])]) = Total(fw) * Total(gw)
  <2> DEFINE row == [i \in Limb |-> Total([k \in Limb |-> C[k][i]])]
  <2>1. Total([k \in Limb |-> Total(C[k])]) = Total(row)
    <3> HIDE DEF C
    <3> QED BY <1>4, TotalExchange
  <2>2. PICK G \in Int : G = Total(gw) BY <1>1, TotalInt
  <2>3. \A i \in Limb : row[i] = G * fw[i]
    <3> SUFFICES ASSUME NEW i \in Limb PROVE row[i] = G * fw[i]
      OBVIOUS
    <3> DEFINE s == [k \in Limb |-> gw[Partner(i, k)]]
    <3>1. [k \in Limb |-> C[k][i]] = [k \in Limb |-> fw[i] * s[k]]
      <4> HIDE DEF fw, gw
      <4> QED OBVIOUS
    <3>2. s \in Element
      <4>1. \A k \in Limb : Partner(i, k) \in Limb BY PartnerLimb
      <4> HIDE DEF gw
      <4> QED BY <1>1, <4>1 DEF Element
    <3>3. Total(s) = G
      <4> HIDE DEF gw
      <4> QED BY <1>1, <2>2, TotalShift
    <3>4. PICK x \in Int : x = fw[i]
      <4> HIDE DEF fw
      <4> QED BY <1>1 DEF Element
    <3> HIDE DEF s, C, fw
    <3>5. Total([k \in Limb |-> x * s[k]]) = x * G BY <3>2, <3>3, TotalScale
    <3>6. x * G = G * x BY SMT
    <3> QED BY <3>1, <3>4, <3>5, <3>6
  <2>4. row = [i \in Limb |-> G * fw[i]] BY <2>3
  <2> HIDE DEF row, fw
  <2>5. Total(row) = G * Total(fw) BY <1>1, <2>4, TotalScale
  <2>6. G * Total(fw) = Total(fw) * G BY <1>1, TotalInt, SMT
  <2> QED BY <2>1, <2>2, <2>5, <2>6
<1> HIDE DEF N, C, fw, gw, T
<1> QED BY <1>1, <1>7, <1>8, <1>9, <1>10

-------------------------------------------------------------------------------
(* Squares, and what an element is loaded from. *)

\* fe_sq's doubled terms (fe.c:982-1070) are fe_mul's of the same element.
LEMMA SquareIsProduct ==
  ASSUME NEW f \in Element
  PROVE SquareLimbs(f) = ProductLimbs(f, f)
<1> SUFFICES ASSUME NEW k \in Limb
    PROVE SquareLimbs(f)[k] = ProductLimbs(f, f)[k]
  BY DEF SquareLimbs, ProductLimbs
<1> DEFINE t == [i \in Limb |->
                  Weight(i, Partner(i, k)) * f[i] * f[Partner(i, k)]]
           m(i) == IF i = Partner(i, k) THEN 1
                   ELSE IF i < Partner(i, k) THEN 2 ELSE 0
           s == [i \in Limb |->
                  m(i) * Weight(i, Partner(i, k)) * f[i] * f[Partner(i, k)]]
<1>1. /\ ProductLimbs(f, f)[k] = Total(t) /\ SquareLimbs(f)[k] = Total(s)
  BY DEF ProductLimbs, SquareLimbs
<1>2. \A i \in Limb : /\ t[i] \in Int /\ s[i] = m(i) * t[i]
                      /\ t[Partner(i, k)] = t[i]
  <2> SUFFICES ASSUME NEW i \in Limb
               PROVE /\ t[i] \in Int /\ s[i] = m(i) * t[i]
                     /\ t[Partner(i, k)] = t[i]
    OBVIOUS
  <2>1. PICK j \in Limb : j = Partner(i, k) BY PartnerLimb
  <2>2. Partner(j, k) = i BY <2>1, PartnerLimb
  <2>3. PICK x \in Int, y \in Int : x = f[i] /\ y = f[j] BY DEF Element
  <2>4. PICK w \in Nat : w = Weight(i, j)
    <3>1. \A a, b \in Nat : a * b \in Nat BY SMT
    <3> QED BY <3>1, PrimeNat DEF Weight
  <2>5. Weight(j, i) = w
    <3>1. j + i = i + j BY SMT DEF Limb
    <3> QED BY <2>4, <3>1 DEF Weight
  <2>6. PICK n \in Nat : n = m(i) OBVIOUS
  <2>7. /\ t[i] = w * x * y /\ t[j] = w * y * x /\ s[i] = n * w * x * y
    BY <2>1, <2>2, <2>3, <2>4, <2>5, <2>6
  <2>8. /\ w * x * y \in Int /\ w * y * x = w * x * y
        /\ n * w * x * y = n * (w * x * y)
    BY SMT
  <2> HIDE DEF t, s, m
  <2> QED BY ONLY <2>1, <2>6, <2>7, <2>8, Zenon
<1>3. /\ 0 \in Limb /\ 1 \in Limb /\ 2 \in Limb /\ 3 \in Limb /\ 4 \in Limb
      /\ 5 \in Limb /\ 6 \in Limb /\ 7 \in Limb /\ 8 \in Limb /\ 9 \in Limb
  BY SMT DEF Limb
<1> HIDE DEF t, s
<1>4. /\ t[0] \in Int /\ t[1] \in Int /\ t[2] \in Int /\ t[3] \in Int
      /\ t[4] \in Int /\ t[5] \in Int /\ t[6] \in Int /\ t[7] \in Int
      /\ t[8] \in Int /\ t[9] \in Int
  BY <1>2, <1>3
<1>5. \A i \in Limb : s[i] =
         IF i = Partner(i, k) THEN t[i]
         ELSE IF i < Partner(i, k) THEN t[i] + t[Partner(i, k)] ELSE 0
  <2> SUFFICES ASSUME NEW i \in Limb
               PROVE s[i] = IF i = Partner(i, k) THEN t[i]
                            ELSE IF i < Partner(i, k)
                                 THEN t[i] + t[Partner(i, k)] ELSE 0
    OBVIOUS
  <2>1. PICK x \in Int : x = t[i] BY <1>2
  <2>2. 1 * x = x /\ 2 * x = x + x /\ 0 * x = 0 BY SMT
  <2>3. s[i] = m(i) * x /\ t[Partner(i, k)] = x BY <1>2, <2>1
  <2> QED BY <2>1, <2>2, <2>3
<1> SUFFICES Total(s) = Total(t) BY <1>1
<1>6. CASE k = 0
  <2>1. /\ Partner(0, 0) = 0 /\ Partner(1, 0) = 9 /\ Partner(2, 0) = 8
        /\ Partner(3, 0) = 7 /\ Partner(4, 0) = 6 /\ Partner(5, 0) = 5
        /\ Partner(6, 0) = 4 /\ Partner(7, 0) = 3 /\ Partner(8, 0) = 2
        /\ Partner(9, 0) = 1
    BY SMT DEF Partner
  <2>2. /\ s[0] = t[0] /\ s[1] = t[1] + t[9] /\ s[2] = t[2] + t[8]
        /\ s[3] = t[3] + t[7] /\ s[4] = t[4] + t[6] /\ s[5] = t[5]
        /\ s[6] = 0 /\ s[7] = 0 /\ s[8] = 0
        /\ s[9] = 0
    BY <1>3, <1>5, <1>6, <2>1, SMT
  <2> QED BY <1>4, <2>2, SMT DEF Total
<1>7. CASE k = 1
  <2>1. /\ Partner(0, 1) = 1 /\ Partner(1, 1) = 0 /\ Partner(2, 1) = 9
        /\ Partner(3, 1) = 8 /\ Partner(4, 1) = 7 /\ Partner(5, 1) = 6
        /\ Partner(6, 1) = 5 /\ Partner(7, 1) = 4 /\ Partner(8, 1) = 3
        /\ Partner(9, 1) = 2
    BY SMT DEF Partner
  <2>2. /\ s[0] = t[0] + t[1] /\ s[1] = 0 /\ s[2] = t[2] + t[9]
        /\ s[3] = t[3] + t[8] /\ s[4] = t[4] + t[7] /\ s[5] = t[5] + t[6]
        /\ s[6] = 0 /\ s[7] = 0 /\ s[8] = 0
        /\ s[9] = 0
    BY <1>3, <1>5, <1>7, <2>1, SMT
  <2> QED BY <1>4, <2>2, SMT DEF Total
<1>8. CASE k = 2
  <2>1. /\ Partner(0, 2) = 2 /\ Partner(1, 2) = 1 /\ Partner(2, 2) = 0
        /\ Partner(3, 2) = 9 /\ Partner(4, 2) = 8 /\ Partner(5, 2) = 7
        /\ Partner(6, 2) = 6 /\ Partner(7, 2) = 5 /\ Partner(8, 2) = 4
        /\ Partner(9, 2) = 3
    BY SMT DEF Partner
  <2>2. /\ s[0] = t[0] + t[2] /\ s[1] = t[1] /\ s[2] = 0
        /\ s[3] = t[3] + t[9] /\ s[4] = t[4] + t[8] /\ s[5] = t[5] + t[7]
        /\ s[6] = t[6] /\ s[7] = 0 /\ s[8] = 0
        /\ s[9] = 0
    BY <1>3, <1>5, <1>8, <2>1, SMT
  <2> QED BY <1>4, <2>2, SMT DEF Total
<1>9. CASE k = 3
  <2>1. /\ Partner(0, 3) = 3 /\ Partner(1, 3) = 2 /\ Partner(2, 3) = 1
        /\ Partner(3, 3) = 0 /\ Partner(4, 3) = 9 /\ Partner(5, 3) = 8
        /\ Partner(6, 3) = 7 /\ Partner(7, 3) = 6 /\ Partner(8, 3) = 5
        /\ Partner(9, 3) = 4
    BY SMT DEF Partner
  <2>2. /\ s[0] = t[0] + t[3] /\ s[1] = t[1] + t[2] /\ s[2] = 0
        /\ s[3] = 0 /\ s[4] = t[4] + t[9] /\ s[5] = t[5] + t[8]
        /\ s[6] = t[6] + t[7] /\ s[7] = 0 /\ s[8] = 0
        /\ s[9] = 0
    BY <1>3, <1>5, <1>9, <2>1, SMT
  <2> QED BY <1>4, <2>2, SMT DEF Total
<1>10. CASE k = 4
  <2>1. /\ Partner(0, 4) = 4 /\ Partner(1, 4) = 3 /\ Partner(2, 4) = 2
        /\ Partner(3, 4) = 1 /\ Partner(4, 4) = 0 /\ Partner(5, 4) = 9
        /\ Partner(6, 4) = 8 /\ Partner(7, 4) = 7 /\ Partner(8, 4) = 6
        /\ Partner(9, 4) = 5
    BY SMT DEF Partner
  <2>2. /\ s[0] = t[0] + t[4] /\ s[1] = t[1] + t[3] /\ s[2] = t[2]
        /\ s[3] = 0 /\ s[4] = 0 /\ s[5] = t[5] + t[9]
        /\ s[6] = t[6] + t[8] /\ s[7] = t[7] /\ s[8] = 0
        /\ s[9] = 0
    BY <1>3, <1>5, <1>10, <2>1, SMT
  <2> QED BY <1>4, <2>2, SMT DEF Total
<1>11. CASE k = 5
  <2>1. /\ Partner(0, 5) = 5 /\ Partner(1, 5) = 4 /\ Partner(2, 5) = 3
        /\ Partner(3, 5) = 2 /\ Partner(4, 5) = 1 /\ Partner(5, 5) = 0
        /\ Partner(6, 5) = 9 /\ Partner(7, 5) = 8 /\ Partner(8, 5) = 7
        /\ Partner(9, 5) = 6
    BY SMT DEF Partner
  <2>2. /\ s[0] = t[0] + t[5] /\ s[1] = t[1] + t[4] /\ s[2] = t[2] + t[3]
        /\ s[3] = 0 /\ s[4] = 0 /\ s[5] = 0
        /\ s[6] = t[6] + t[9] /\ s[7] = t[7] + t[8] /\ s[8] = 0
        /\ s[9] = 0
    BY <1>3, <1>5, <1>11, <2>1, SMT
  <2> QED BY <1>4, <2>2, SMT DEF Total
<1>12. CASE k = 6
  <2>1. /\ Partner(0, 6) = 6 /\ Partner(1, 6) = 5 /\ Partner(2, 6) = 4
        /\ Partner(3, 6) = 3 /\ Partner(4, 6) = 2 /\ Partner(5, 6) = 1
        /\ Partner(6, 6) = 0 /\ Partner(7, 6) = 9 /\ Partner(8, 6) = 8
        /\ Partner(9, 6) = 7
    BY SMT DEF Partner
  <2>2. /\ s[0] = t[0] + t[6] /\ s[1] = t[1] + t[5] /\ s[2] = t[2] + t[4]
        /\ s[3] = t[3] /\ s[4] = 0 /\ s[5] = 0
        /\ s[6] = 0 /\ s[7] = t[7] + t[9] /\ s[8] = t[8]
        /\ s[9] = 0
    BY <1>3, <1>5, <1>12, <2>1, SMT
  <2> QED BY <1>4, <2>2, SMT DEF Total
<1>13. CASE k = 7
  <2>1. /\ Partner(0, 7) = 7 /\ Partner(1, 7) = 6 /\ Partner(2, 7) = 5
        /\ Partner(3, 7) = 4 /\ Partner(4, 7) = 3 /\ Partner(5, 7) = 2
        /\ Partner(6, 7) = 1 /\ Partner(7, 7) = 0 /\ Partner(8, 7) = 9
        /\ Partner(9, 7) = 8
    BY SMT DEF Partner
  <2>2. /\ s[0] = t[0] + t[7] /\ s[1] = t[1] + t[6] /\ s[2] = t[2] + t[5]
        /\ s[3] = t[3] + t[4] /\ s[4] = 0 /\ s[5] = 0
        /\ s[6] = 0 /\ s[7] = 0 /\ s[8] = t[8] + t[9]
        /\ s[9] = 0
    BY <1>3, <1>5, <1>13, <2>1, SMT
  <2> QED BY <1>4, <2>2, SMT DEF Total
<1>14. CASE k = 8
  <2>1. /\ Partner(0, 8) = 8 /\ Partner(1, 8) = 7 /\ Partner(2, 8) = 6
        /\ Partner(3, 8) = 5 /\ Partner(4, 8) = 4 /\ Partner(5, 8) = 3
        /\ Partner(6, 8) = 2 /\ Partner(7, 8) = 1 /\ Partner(8, 8) = 0
        /\ Partner(9, 8) = 9
    BY SMT DEF Partner
  <2>2. /\ s[0] = t[0] + t[8] /\ s[1] = t[1] + t[7] /\ s[2] = t[2] + t[6]
        /\ s[3] = t[3] + t[5] /\ s[4] = t[4] /\ s[5] = 0
        /\ s[6] = 0 /\ s[7] = 0 /\ s[8] = 0
        /\ s[9] = t[9]
    BY <1>3, <1>5, <1>14, <2>1, SMT
  <2> QED BY <1>4, <2>2, SMT DEF Total
<1>15. CASE k = 9
  <2>1. /\ Partner(0, 9) = 9 /\ Partner(1, 9) = 8 /\ Partner(2, 9) = 7
        /\ Partner(3, 9) = 6 /\ Partner(4, 9) = 5 /\ Partner(5, 9) = 4
        /\ Partner(6, 9) = 3 /\ Partner(7, 9) = 2 /\ Partner(8, 9) = 1
        /\ Partner(9, 9) = 0
    BY SMT DEF Partner
  <2>2. /\ s[0] = t[0] + t[9] /\ s[1] = t[1] + t[8] /\ s[2] = t[2] + t[7]
        /\ s[3] = t[3] + t[6] /\ s[4] = t[4] + t[5] /\ s[5] = 0
        /\ s[6] = 0 /\ s[7] = 0 /\ s[8] = 0
        /\ s[9] = 0
    BY <1>3, <1>5, <1>15, <2>1, SMT
  <2> QED BY <1>4, <2>2, SMT DEF Total
<1> QED
  BY <1>6, <1>7, <1>8, <1>9, <1>10, <1>11, <1>12, <1>13, <1>14, <1>15,
     LimbCases

\* A remainder modulo a multiple of c, modulo c.
LEMMA ModMod ==
  ASSUME NEW s \in Int, NEW u \in Nat, NEW c \in Nat, u > 0, c > 0, u % c = 0
  PROVE (s % u) % c = s % c
<1>1. PICK m \in Int : m = u \div c BY Division
<1>2. u = m * c
  <2>1. u = (u \div c) * c + (u % c) BY Division
  <2>2. m * c \in Int BY SMT
  <2> QED BY <1>1, <2>1, <2>2
<1>3. PICK q \in Int : q = s \div u BY Division
<1>4. PICK r \in Nat : r = s % u BY Division
<1>5. s = q * u + r BY <1>3, <1>4, Division
<1>6. PICK k \in Int : k = q * m BY SMT
<1>7. s = r + k * c
  <2>1. q * (m * c) = (q * m) * c BY SMT
  <2>2. s = q * (m * c) + r BY ONLY <1>2, <1>5, Zenon
  <2>3. PICK z \in Int : z = k * c BY SMT
  <2>4. s = z + r BY ONLY <2>1, <2>2, <2>3, <1>6, Zenon
  <2>5. z + r = r + z BY SMT
  <2> QED BY ONLY <2>3, <2>4, <2>5, Zenon
<1>8. (r + k * c) % c = r % c
  <2>1. r \in Int /\ c \in Nat /\ c > 0 OBVIOUS
  <2> QED BY ONLY <2>1, k \in Int, ModShift
<1> QED BY <1>4, <1>7, <1>8

\* A multiple's quotient times the divisor.
LEMMA Exact ==
  ASSUME NEW a \in Int, NEW b \in Nat, b > 0, a % b = 0
  PROVE (a \div b) * b = a
<1>1. a = (a \div b) * b + (a % b) /\ a \div b \in Int BY Division
<1>2. (a \div b) * b \in Int BY <1>1, SMT
<1> QED BY <1>1, <1>2, SMT

\* No limb's unit is worth nothing.
LEMMA WorthPositive == \A i \in Limb : Worth[i] > 0
<1>1. \A a, b \in Nat : a > 0 /\ b > 0 => a * b > 0 BY SMT
<1>2. Worth[0] > 0 BY WidthAssumption
<1> DEFINE S == {n \in Nat : n <= 9 => Worth[n] > 0}
<1>3. 0 \in S BY <1>2
<1>4. \A n \in Nat : n \in S => n + 1 \in S
  <2> SUFFICES ASSUME NEW n \in Nat, n \in S, n + 1 <= 9
               PROVE  Worth[n + 1] > 0
    OBVIOUS
  <2>1. n \in 0..8 /\ n \in Limb /\ n <= 9 BY SMT DEF Limb
  <2>2. Worth[n + 1] = Worth[n] * Span(n) BY <2>1, WidthAssumption
  <2> QED BY <1>1, <2>1, <2>2, WorthNat, SpanNat
<1> HIDE DEF S
<1>5. Nat \subseteq S BY <1>3, <1>4, NatLeast
<1>6. \A i \in Limb : i \in Nat /\ i <= 9 BY SMT DEF Limb
<1> QED BY <1>5, <1>6 DEF S

\* A limb fe_frombytes loads counts the bits between two cuts.
LEMMA LoadedLimb ==
  ASSUME NEW s \in Nat, NEW i \in Limb
  PROVE /\ ((s % Upto(i)) \div Cut[i]) * (Cut[i] \div Worth[i]) \in Int
        /\ ((s % Upto(i)) \div Cut[i]) * (Cut[i] \div Worth[i]) * Worth[i]
             = (s % Upto(i)) - (s % Cut[i])
        /\ s % Upto(i) \in Nat /\ s % Cut[i] \in Nat
<1>1. PICK c \in Nat : c = Cut[i] /\ c > 0
  <2>1. Cut[i] \in Nat \ {0} BY CutAssumption
  <2> QED BY <2>1
<1>2. PICK w \in Nat : w = Worth[i] /\ w > 0 BY WorthNat, WorthPositive
<1>3. PICK u \in Nat : u = Upto(i) /\ u > 0 /\ u % c = 0
  <2>1. CASE i = 9
    <3>1. Full \in Nat /\ Full > 0
      <4>1. Wrap \in Nat /\ Wrap < Full BY WidthAssumption
      <4> QED BY <4>1, PrimeNat
    <3> QED BY <1>1, <2>1, <3>1, CutAssumption DEF Upto
  <2>2. CASE i # 9
    <3>1. i \in 0..8 /\ i + 1 \in Limb BY <2>2, SMT DEF Limb
    <3>2. Cut[i + 1] \in Nat \ {0} BY <3>1, CutAssumption
    <3> QED BY <1>1, <2>2, <3>1, <3>2, CutAssumption DEF Upto
  <2> QED BY <2>1, <2>2
<1>4. PICK v \in Int : v = c \div w BY <1>2, Division
<1>5. v * w = c
  <2>1. c % w = 0 BY <1>1, <1>2, CutAssumption
  <2>2. (c \div w) * w = c BY <1>2, <2>1, Exact
  <2> QED BY ONLY <1>4, <2>2, Zenon
<1>6. PICK r \in Nat : r = s % u BY <1>3, Division
<1>7. PICK q \in Int : q = r \div c BY <1>1, Division
<1>8. PICK d \in Nat : d = r % c BY <1>1, Division
<1>9. r = q * c + d
  <2>2. c > 0 /\ r \in Int BY <1>1
  <2>1. r = (r \div c) * c + (r % c)
    BY ONLY <2>2, c \in Nat, Division, Zenon
  <2> QED BY ONLY <1>7, <1>8, <2>1, Zenon
<1>10. d = s % c
  <2>2. c > 0 /\ u > 0 /\ u % c = 0 /\ s \in Int BY <1>1, <1>3
  <2>1. (s % u) % c = s % c
    BY ONLY <2>2, u \in Nat, c \in Nat, ModMod, Zenon
  <2> QED BY ONLY <1>6, <1>8, <2>1, Zenon
<1>11. q * v \in Int BY SMT
<1>12. q * v * w = r - d
  <2>1. q * v * w = q * (v * w) BY SMT
  <2>2. q * c = r - d
    <3>1. PICK z \in Int : z = q * c BY SMT
    <3> QED BY <1>9, <3>1
  <2> QED BY ONLY <1>5, <2>1, <2>2, Zenon
<1> QED BY <1>1, <1>2, <1>3, <1>4, <1>6, <1>7, <1>8, <1>10, <1>11, <1>12

\* The limbs as loaded, before their carries, stand for the number read.
LEMMA LoadedNumber ==
  ASSUME NEW s \in Nat
  PROVE LET h == [i \in Limb |->
                   ((s % Upto(i)) \div Cut[i]) * (Cut[i] \div Worth[i])]
        IN h \in Element /\ NumberOf(h) = s % Full
<1> DEFINE h == [i \in Limb |->
                  ((s % Upto(i)) \div Cut[i]) * (Cut[i] \div Worth[i])]
           top == [i \in Limb |-> s % Upto(i)]
           low == [i \in Limb |-> s % Cut[i]]
<1>1. h \in Element /\ top \in Element /\ low \in Element
  BY LoadedLimb DEF Element
<1>2. \A i \in Limb : h[i] * Worth[i] = top[i] - low[i] BY LoadedLimb
<1>3. NumberOf(h) = Total(top) - Total(low)
  <2>1. [i \in Limb |-> h[i] * Worth[i]] = [i \in Limb |-> top[i] - low[i]]
    BY <1>2
  <2> HIDE DEF h, top, low
  <2> QED BY <1>1, <2>1, TotalSub DEF NumberOf
<1>4. \A i \in 0..8 : top[i] = low[i + 1]
  <2> SUFFICES ASSUME NEW i \in 0..8 PROVE top[i] = low[i + 1]
    OBVIOUS
  <2>1. i \in Limb /\ i + 1 \in Limb /\ i # 9 BY SMT DEF Limb
  <2> QED BY <2>1 DEF Upto
<1>5. top[9] = s % Full BY SMT DEF Upto, Limb
<1>6. low[0] = 0
  <2>1. s % 1 = 0 BY SMT
  <2>2. 0 \in Limb BY SMT DEF Limb
  <2> QED BY <2>1, <2>2, CutAssumption
<1>7. \A i \in Limb : top[i] \in Int /\ low[i] \in Int
  BY LoadedLimb
<1>8. PICK x \in Int : x = s % Full
  <2>1. 9 \in Limb BY SMT DEF Limb
  <2> QED BY <1>5, <1>7, <2>1
<1> HIDE DEF top, low, h
<1>9. Total(top) - Total(low) = x
  <2>1. /\ top[0] = low[1] /\ top[1] = low[2] /\ top[2] = low[3]
        /\ top[3] = low[4] /\ top[4] = low[5] /\ top[5] = low[6]
        /\ top[6] = low[7] /\ top[7] = low[8] /\ top[8] = low[9]
    <3>1. /\ 0 \in 0..8 /\ 1 \in 0..8 /\ 2 \in 0..8 /\ 3 \in 0..8 /\ 4 \in 0..8
          /\ 5 \in 0..8 /\ 6 \in 0..8 /\ 7 \in 0..8 /\ 8 \in 0..8
          /\ 0 + 1 = 1 /\ 1 + 1 = 2 /\ 2 + 1 = 3 /\ 3 + 1 = 4 /\ 4 + 1 = 5
          /\ 5 + 1 = 6 /\ 6 + 1 = 7 /\ 7 + 1 = 8 /\ 8 + 1 = 9
      BY SMT
    <3> QED BY <1>4, <3>1
  <2>2. /\ low[1] \in Int /\ low[2] \in Int /\ low[3] \in Int
        /\ low[4] \in Int /\ low[5] \in Int /\ low[6] \in Int
        /\ low[7] \in Int /\ low[8] \in Int /\ low[9] \in Int
    <3>1. /\ 1 \in Limb /\ 2 \in Limb /\ 3 \in Limb /\ 4 \in Limb
          /\ 5 \in Limb /\ 6 \in Limb /\ 7 \in Limb /\ 8 \in Limb /\ 9 \in Limb
      BY SMT DEF Limb
    <3> QED BY <1>7, <3>1
  <2>3. top[9] = x BY <1>5, <1>8
  <2> QED BY <2>1, <2>2, <2>3, <1>6, SMT DEF Total
<1>10. NumberOf(h) = s % Full BY <1>3, <1>8, <1>9
<1> QED BY <1>1, <1>10 DEF h

-------------------------------------------------------------------------------
(* Every call of the field computes what its name says. *)

\* Dividing by one factor, then by the other.
LEMMA DivideTwice ==
  ASSUME NEW f \in Int, NEW w \in Nat, NEW s \in Nat, w > 0, s > 0
  PROVE /\ w * s \in Nat /\ w * s > 0
        /\ f \div w \in Int /\ (f \in Nat => f \div w \in Nat)
        /\ (f \div w) \div s = f \div (w * s)
        /\ f \div w = (f \div (w * s)) * s + ((f \div w) % s)
<1>1. PICK q \in Int : q = f \div w BY Division
<1>2. PICK r \in Nat : r = f % w BY Division
<1>3. f = q * w + r /\ r < w
  <2>1. f \in Int OBVIOUS
  <2>2. f = (f \div w) * w + (f % w) /\ f % w < w BY <2>1, Division
  <2> QED BY ONLY <1>1, <1>2, <2>2, Zenon
<1>4. f \in Nat => q \in Nat BY <1>1, SMT
<1>5. PICK p \in Int : p = q \div s BY Division
<1>6. PICK d \in Nat : d = q % s BY Division
<1>7. q = p * s + d /\ d < s
  <2>2. q = (q \div s) * s + (q % s) /\ q % s < s BY Division
  <2> QED BY ONLY <1>5, <1>6, <2>2, Zenon
<1>8. w * s \in Nat /\ w * s > 0
  <2>1. w \in Nat /\ s \in Nat /\ w > 0 /\ s > 0 OBVIOUS
  <2> QED BY ONLY <2>1, SMT
<1>9. PICK e \in Nat : e = d * w + r BY SMT
<1>10. e < w * s
  <2>1. d + 1 <= s BY <1>7
  <2>2. (d + 1) * w <= s * w BY ONLY <2>1, d \in Nat, s \in Nat, w \in Nat, SMT
  <2>3. (d + 1) * w = d * w + w BY SMT
  <2>4. s * w = w * s BY SMT
  <2>5. PICK x \in Nat, y \in Nat : x = d * w /\ y = w * s BY SMT
  <2>6. x + w <= y BY ONLY <2>2, <2>3, <2>4, <2>5, Zenon
  <2>7. e = x + r BY <1>9, <2>5, Zenon
  <2>8. e < y BY ONLY <2>6, <2>7, <1>3, x \in Nat, y \in Nat, w \in Nat,
    r \in Nat, SMT
  <2> QED BY <2>5, <2>8
<1>11. f = p * (w * s) + e
  <2>1. (p * s + d) * w = p * (w * s) + d * w BY SMT
  <2>2. f = (p * s + d) * w + r BY ONLY <1>3, <1>7, Zenon
  <2>3. PICK x \in Int, y \in Int : x = p * (w * s) /\ y = d * w BY SMT
  <2>4. f = (x + y) + r BY ONLY <2>1, <2>2, <2>3, Zenon
  <2>5. (x + y) + r = x + (y + r) BY SMT
  <2> QED BY ONLY <1>9, <2>3, <2>4, <2>5, Zenon
<1>12. (p * (w * s) + e) \div (w * s) = p
  <2>1. PICK n \in Nat : n = w * s /\ n > 0 BY <1>8
  <2>2. e < n BY <1>10, <2>1
  <2>3. n > 0 BY <2>1
  <2>4. (p * n + e) \div n = p BY ONLY <2>2, <2>3, p \in Int, n \in Nat,
    e \in Nat, ModIs, Zenon
  <2> QED BY ONLY <2>1, <2>4, Zenon
<1>13. f \div (w * s) = p BY ONLY <1>11, <1>12, Zenon
<1> QED BY ONLY <1>1, <1>4, <1>5, <1>6, <1>7, <1>8, <1>13, q \in Int, Zenon

\* The positions up to the tenth count something.
LEMMA PositionPositive ==
  \A n \in 0..10 : Position(n) \in Nat /\ Position(n) > 0
<1> SUFFICES ASSUME NEW n \in 0..10
             PROVE Position(n) \in Nat /\ Position(n) > 0
  OBVIOUS
<1>1. CASE n < 10
  <2>1. n \in Limb BY <1>1, SMT DEF Limb
  <2> QED BY <1>1, <2>1, WorthNat, WorthPositive DEF Position
<1>2. CASE n = 10
  <2>1. Position(n) = Full * Worth[0] BY <1>2, SMT DEF Position
  <2>2. Full * 1 = Full BY PrimeNat, SMT
  <2>3. Full > 0 BY PrimeNat
  <2> QED BY <2>1, <2>2, <2>3, PrimeNat, WidthAssumption
<1> QED BY <1>1, <1>2

\* The product a digit at a time is the product.
LEMMA ModProductIs ==
  ASSUME NEW f \in Nat, f < Full, NEW g \in Int
  PROVE ModProduct(f, g) = (f * g) % Prime
<1> DEFINE F(a) == [i \in 0..10 |->
             IF i = 10 THEN 0
             ELSE (a[i + 1] * Span(i) + Digit(f, i) * g) % Prime]
           from == CHOOSE a : a = F(a)
           high(i) == (f \div Position(i)) * g
           a == [i \in 0..10 |-> high(i) % Prime]
<1>1. ModProduct(f, g) = from[0] BY Zenon DEF ModProduct
<1>2. a[10] = 0
  <2>1. Position(10) = Full
    <3>1. Position(10) = Full * Worth[0] BY SMT DEF Position
    <3>2. Full * 1 = Full BY PrimeNat, SMT
    <3> QED BY <3>1, <3>2, WidthAssumption
  <2>2. PICK u \in Nat : u = Full /\ u > 0 BY PrimeNat
  <2>3. f \div u = 0 BY <2>2, SMT
  <2>4. 0 * g = 0 BY SMT
  <2>5. 0 % Prime = 0 BY PrimeNat, SMT
  <2>6. high(10) = 0 BY ONLY <2>1, <2>2, <2>3, <2>4, Zenon
  <2>7. a[10] = high(10) % Prime BY SMT
  <2> QED BY <2>5, <2>6, <2>7
<1>3. \A i \in 0..10 : high(i) \in Int
  <2> SUFFICES ASSUME NEW i \in 0..10 PROVE high(i) \in Int
    OBVIOUS
  <2>1. PICK w \in Nat : w = Position(i) /\ w > 0 BY PositionPositive
  <2>2. PICK q \in Int : q = f \div w BY <2>1, Division
  <2>3. q * g \in Int BY SMT
  <2> QED BY ONLY <2>1, <2>2, <2>3, Zenon
<1>4. \A i \in 0..9 :
        a[i] = (a[i + 1] * Span(i) + Digit(f, i) * g) % Prime
  <2> SUFFICES ASSUME NEW i \in 0..9
      PROVE a[i] = (a[i + 1] * Span(i) + Digit(f, i) * g) % Prime
    OBVIOUS
  <2>1. i \in 0..10 /\ i + 1 \in 0..10 /\ i \in 0..17 /\ i < 10 /\ i \in Limb
    BY SMT DEF Limb
  <2>2. PICK w \in Nat : w = Position(i) /\ w > 0 BY <2>1, PositionPositive
  <2>3. PICK s \in Nat : s = Span(i) /\ s > 0 BY <2>1, SpanNat
  <2>4. Position(i + 1) = w * s BY <2>1, <2>2, <2>3, PositionNext
  <2>5. PICK q \in Nat, p \in Int, d \in Nat :
          q = f \div w /\ p = f \div (w * s) /\ d = q % s /\ q = p * s + d
    <3>1. w > 0 /\ s > 0 BY <2>2, <2>3
    <3>2. /\ w * s \in Nat /\ w * s > 0 /\ f \div w \in Nat
          /\ f \div w = (f \div (w * s)) * s + ((f \div w) % s)
      <4>1. f \in Int OBVIOUS
      <4> QED BY ONLY <3>1, <4>1, f \in Nat, w \in Nat, s \in Nat,
              DivideTwice, Zenon
    <3>3. f \div (w * s) \in Int
      <4>1. f \in Int OBVIOUS
      <4> QED BY ONLY <3>2, <4>1, Division, Zenon
    <3>4. (f \div w) % s \in Nat
      <4>1. f \div w \in Int BY <3>2
      <4> QED BY ONLY <3>1, <4>1, s \in Nat, Division, Zenon
    <3> QED BY ONLY <3>2, <3>3, <3>4, Zenon
  <2>6. Digit(f, i) = d
    <3>1. w = Worth[i] BY <2>1, <2>2 DEF Position
    <3> QED BY ONLY <2>3, <2>5, <3>1, Zenon DEF Digit
  <2>7. high(i) = q * g /\ high(i + 1) = p * g
    BY ONLY <2>2, <2>4, <2>5, Zenon
  <2>8. q * g \in Int /\ p * g \in Int BY SMT
  <2>9. PICK x \in Int : x = a[i + 1] /\ Same(x, p * g)
    <3>1. a[i + 1] = (p * g) % Prime BY <2>1, <2>7
    <3>2. (p * g) % Prime \in Int BY <2>8, PrimeNat, Division
    <3> QED BY <2>8, <3>1, <3>2, ModSame
  <2>10. Same(x * s + d * g, q * g)
    <3>5. PICK y \in Int : y = p * g BY <2>8
    <3>6. Same(x, y) BY ONLY <2>9, <3>5, Zenon
    <3>7. Same(x * s, y * s)
      <4>1. s \in Int OBVIOUS
      <4> QED BY ONLY <3>6, <4>1, x \in Int, y \in Int, SameTimes, Zenon
    <3>1. Same(x * s, p * g * s) BY ONLY <3>5, <3>7, Zenon
    <3>2. d * g \in Int /\ x * s \in Int /\ p * g * s \in Int BY SMT
    <3>3. Same(x * s + d * g, p * g * s + d * g)
      BY <3>1, <3>2, SameRefl, SameSum
    <3>4. (p * s + d) * g = p * g * s + d * g BY SMT
    <3> QED BY ONLY <2>5, <3>3, <3>4, Zenon
  <2>11. x * s + d * g \in Int BY SMT
  <2>12. (x * s + d * g) % Prime = (q * g) % Prime
    BY <2>8, <2>10, <2>11, SameMod
  <2>13. a[i] = (q * g) % Prime BY <2>1, <2>7
  <2> HIDE DEF a
  <2> QED BY ONLY <2>3, <2>6, <2>9, <2>12, <2>13, Zenon
<1>5. from = F(from)
  <2>1. \A i \in 0..10 : a[i] = F(a)[i]
    <3> SUFFICES ASSUME NEW i \in 0..10 PROVE a[i] = F(a)[i]
      OBVIOUS
    <3>1. i = 10 \/ i \in 0..9 BY SMT
    <3>2. F(a)[i] = IF i = 10 THEN 0
                    ELSE (a[i + 1] * Span(i) + Digit(f, i) * g) % Prime
      OBVIOUS
    <3>3. i \in 0..9 => i # 10 BY SMT
    <3> HIDE DEF a, F
    <3> QED BY <1>2, <1>4, <3>1, <3>2, <3>3, Zenon
  <2>2. a = F(a)
    <3> DEFINE b == F(a)
    <3>1. a = [i \in 0..10 |-> a[i]] /\ b = [i \in 0..10 |-> b[i]] OBVIOUS
    <3> QED BY <2>1
  <2> QED BY <2>2
<1>6. /\ from[10] = 0
      /\ \A i \in 0..9 :
           from[i] = (from[i + 1] * Span(i) + Digit(f, i) * g) % Prime
  <2>1. \A i \in 0..10 : F(from)[i] =
          IF i = 10 THEN 0
          ELSE (from[i + 1] * Span(i) + Digit(f, i) * g) % Prime
    OBVIOUS
  <2>2. 10 \in 0..10 /\ \A i \in 0..9 : i \in 0..10 /\ i # 10 BY SMT
  <2> HIDE DEF F, from
  <2> QED BY <1>5, <2>1, <2>2, Zenon
<1> HIDE DEF from, a, high
<1>7. from[0] = a[0]
  <2> DEFINE S == {n \in Nat : n <= 10 => from[10 - n] = a[10 - n]}
  <2>1. 0 \in S
    <3>1. 10 - 0 = 10 BY SMT
    <3> QED BY <1>2, <1>6, <3>1
  <2>2. \A n \in Nat : n \in S => n + 1 \in S
    <3> SUFFICES ASSUME NEW n \in Nat, n \in S, n + 1 <= 10
                 PROVE from[10 - (n + 1)] = a[10 - (n + 1)]
      OBVIOUS
    <3>1. n <= 10 /\ 10 - (n + 1) \in 0..9 /\ (10 - (n + 1)) + 1 = 10 - n
      BY SMT
    <3>2. from[10 - n] = a[10 - n] BY <3>1
    <3> QED BY <1>4, <1>6, <3>1, <3>2, Zenon
  <2> HIDE DEF S
  <2>3. Nat \subseteq S BY <2>1, <2>2, NatLeast
  <2>4. 10 \in S /\ 10 <= 10 /\ 10 - 10 = 0 BY <2>3
  <2> QED BY <2>4 DEF S
<1>8. a[0] = (f * g) % Prime
  <2>1. Position(0) = 1
    <3>1. 0 < 10 BY SMT
    <3> QED BY <3>1, WidthAssumption DEF Position
  <2>2. f \div 1 = f BY SMT
  <2>3. a[0] = high(0) % Prime BY SMT DEF a
  <2> QED BY <2>1, <2>2, <2>3, Zenon DEF high
<1> QED BY <1>1, <1>7, <1>8

\* The value of an element, and products of values.
LEMMA Values ==
  ASSUME NEW h \in Element
  PROVE /\ ValueOf(h) \in Nat /\ ValueOf(h) < Prime /\ ValueOf(h) < Full
        /\ Same(ValueOf(h), NumberOf(h)) /\ Same(NumberOf(h), ValueOf(h))
<1>1. NumberOf(h) \in Int BY NumberInt
<1>2. Same(ValueOf(h), NumberOf(h)) /\ Same(NumberOf(h), ValueOf(h))
  BY <1>1, ModSame DEF ValueOf
<1>3. ValueOf(h) \in Nat /\ ValueOf(h) < Prime
  BY <1>1, PrimeNat, Division DEF ValueOf
<1>4. Prime <= Full BY PrimeNat, SMT
<1> QED BY <1>2, <1>3, <1>4, PrimeNat

\* An element whose number is that of the carried limbs.
LEMMA CarriedValue ==
  ASSUME NEW h \in Element, NEW order \in Seq(Limb), NEW n \in Int,
         Same(NumberOf(h), n)
  PROVE /\ RoundCarries(h, order) \in Element
        /\ ValueOf(RoundCarries(h, order)) = n % Prime
<1> DEFINE r == RoundCarries(h, order)
<1>1. r \in Element /\ Same(NumberOf(r), NumberOf(h)) BY RoundCarriesKeep
<1> HIDE DEF r
<1>2. NumberOf(r) \in Int /\ NumberOf(h) \in Int BY <1>1, NumberInt
<1>3. Same(NumberOf(r), n) BY <1>1, <1>2, SameTrans
<1>4. ValueOf(r) = n % Prime BY <1>2, <1>3, SameMod DEF ValueOf
<1> QED BY <1>1, <1>4 DEF r

\* The orders of the carries name limbs.
LEMMA Orders == AfterProduct \in Seq(Limb) /\ AllLimbs \in Seq(Limb)
  BY SMT DEF AfterProduct, AllLimbs, Limb

\* fe_mul multiplies,
LEMMA FeMulExact ==
  ASSUME NEW f \in Element, NEW g \in Element
  PROVE /\ FeMul(f, g) \in Element
        /\ ValueOf(FeMul(f, g)) = (ValueOf(f) * ValueOf(g)) % Prime
<1> DEFINE h == ProductLimbs(f, g)
<1>1. h \in Element /\ Same(NumberOf(h), NumberOf(f) * NumberOf(g))
  BY ProductNumber
<1>2. PICK a \in Int, b \in Int : a = NumberOf(f) /\ b = NumberOf(g)
  BY NumberInt
<1>3. PICK u \in Int, v \in Int : u = ValueOf(f) /\ v = ValueOf(g) BY Values
<1>4. Same(a, u) /\ Same(b, v) BY <1>2, <1>3, Values
<1>5. Same(a * b, u * v) BY <1>4, SameProduct
<1>6. a * b \in Int /\ u * v \in Int /\ NumberOf(h) \in Int
  <2>1. NumberOf(h) \in Int BY <1>1, NumberInt
  <2>2. a * b \in Int /\ u * v \in Int BY SMT
  <2> QED BY <2>1, <2>2
<1> HIDE DEF h
<1>7. Same(NumberOf(h), u * v) BY <1>1, <1>2, <1>5, <1>6, SameTrans
<1>8. /\ RoundCarries(h, AfterProduct) \in Element
      /\ ValueOf(RoundCarries(h, AfterProduct)) = (u * v) % Prime
  BY <1>1, <1>6, <1>7, Orders, CarriedValue
<1> QED BY <1>3, <1>8 DEF FeMul, h

\* fe_sq squares,
LEMMA FeSqExact ==
  ASSUME NEW f \in Element
  PROVE ValueOf(FeSq(f)) = (ValueOf(f) * ValueOf(f)) % Prime
<1>1. FeSq(f) = FeMul(f, f) BY SquareIsProduct DEF FeSq, FeMul
<1> QED BY <1>1, FeMulExact

\* fe_sq2 doubles the square,
LEMMA FeSq2Exact ==
  ASSUME NEW f \in Element
  PROVE ValueOf(FeSq2(f)) = (2 * ((ValueOf(f) * ValueOf(f)) % Prime)) % Prime
<1> DEFINE h == ProductLimbs(f, f)
           hh == FeAdd(h, h)
<1>1. h \in Element /\ Same(NumberOf(h), NumberOf(f) * NumberOf(f))
  BY ProductNumber
<1>2. FeSq2(f) = RoundCarries(hh, AfterProduct)
  BY SquareIsProduct DEF FeSq2
<1> HIDE DEF h
<1>3. hh \in Element /\ NumberOf(hh) = NumberOf(h) + NumberOf(h)
  BY <1>1, FeAddTotal, NumberAdd
<1> HIDE DEF hh
<1>4. PICK a \in Int, u \in Int, n \in Int :
        a = NumberOf(f) /\ u = ValueOf(f) /\ n = NumberOf(h)
  <2>1. NumberOf(f) \in Int /\ NumberOf(h) \in Int BY <1>1, NumberInt
  <2>2. ValueOf(f) \in Int BY Values
  <2> QED BY <2>1, <2>2
<1>5. Same(a, u) BY <1>4, Values
<1>6. PICK p \in Int : p = u * u BY SMT
<1>7. PICK r \in Int : r = p % Prime /\ Same(p, r)
  <2>1. p % Prime \in Int BY PrimeNat, Division
  <2> QED BY <2>1, ModSame
<1>8. Same(n, r)
  <2>1. Same(a * a, p) BY <1>5, <1>6, SameProduct
  <2>2. a * a \in Int BY SMT
  <2>3. Same(n, a * a) BY <1>1, <1>4
  <2> QED BY <1>7, <2>1, <2>2, <2>3, SameTrans
<1>9. Same(n + n, r + r) BY <1>8, SameSum
<1>10. 2 * r = r + r /\ 2 * r \in Int BY SMT
<1>11. Same(NumberOf(hh), 2 * r) BY <1>3, <1>4, <1>9, <1>10
<1>12. ValueOf(RoundCarries(hh, AfterProduct)) = (2 * r) % Prime
  BY <1>3, <1>10, <1>11, Orders, CarriedValue
<1> QED BY ONLY <1>2, <1>4, <1>6, <1>7, <1>12, Zenon

\* fe_mul121666 multiplies by its constant,
LEMMA FeMulSmallExact ==
  ASSUME NEW f \in Element, NEW n \in Int
  PROVE ValueOf(FeMulSmall(f, n)) = (ValueOf(f) * n) % Prime
<1> DEFINE h == [i \in Limb |-> f[i] * n]
<1>1. h \in Element /\ NumberOf(h) = NumberOf(f) * n BY NumberScale
<1>2. PICK a \in Int, u \in Int : a = NumberOf(f) /\ u = ValueOf(f)
  <2>1. NumberOf(f) \in Int BY NumberInt
  <2>2. ValueOf(f) \in Int BY Values
  <2> QED BY <2>1, <2>2
<1>3. Same(a, u) BY <1>2, Values
<1>4. Same(a * n, u * n) BY <1>3, SameTimes
<1>5. u * n \in Int BY SMT
<1> HIDE DEF h
<1>6. Same(NumberOf(h), u * n) BY <1>1, <1>2, <1>4
<1>7. ValueOf(RoundCarries(h, AllLimbs)) = (u * n) % Prime
  BY <1>1, <1>5, <1>6, Orders, CarriedValue
<1> QED BY <1>2, <1>7 DEF FeMulSmall, h

\* fe_add adds and fe_sub subtracts, without a carry,
LEMMA FeAddExact ==
  ASSUME NEW f \in Element, NEW g \in Element
  PROVE /\ ValueOf(FeAdd(f, g)) = (ValueOf(f) + ValueOf(g)) % Prime
        /\ ValueOf(FeSub(f, g)) = (ValueOf(f) - ValueOf(g)) % Prime
<1>1. PICK a \in Int, b \in Int : a = NumberOf(f) /\ b = NumberOf(g)
  BY NumberInt
<1>2. PICK u \in Int, v \in Int : u = ValueOf(f) /\ v = ValueOf(g) BY Values
<1>3. Same(a, u) /\ Same(b, v) BY <1>1, <1>2, Values
<1>4. Same(a + b, u + v) /\ Same(a - b, u - v) BY <1>3, SameSum
<1>5. /\ a + b \in Int /\ u + v \in Int /\ a - b \in Int /\ u - v \in Int
  OBVIOUS
<1>6. (a + b) % Prime = (u + v) % Prime /\ (a - b) % Prime = (u - v) % Prime
  BY <1>4, <1>5, SameMod
<1>7. NumberOf(FeAdd(f, g)) = a + b /\ NumberOf(FeSub(f, g)) = a - b
  BY <1>1, NumberAdd, NumberSub
<1> QED BY ONLY <1>2, <1>6, <1>7, Zenon DEF ValueOf

\* fe_neg negates,
LEMMA FeNegExact ==
  ASSUME NEW f \in Element
  PROVE ValueOf(FeNeg(f)) = (-ValueOf(f)) % Prime
<1>1. FeNeg(f) = [i \in Limb |-> f[i] * (-1)]
  <2>1. \A x \in Int : -x = x * (-1) BY SMT
  <2>2. \A i \in Limb : f[i] \in Int BY DEF Element
  <2> QED BY <2>1, <2>2 DEF FeNeg
<1>2. PICK a \in Int, u \in Int : a = NumberOf(f) /\ u = ValueOf(f)
  <2>1. NumberOf(f) \in Int BY NumberInt
  <2>2. ValueOf(f) \in Int BY Values
  <2> QED BY <2>1, <2>2
<1>3. Same(a, u) BY <1>2, Values
<1>4. PICK n \in Int : n = -1 OBVIOUS
<1>5. NumberOf([i \in Limb |-> f[i] * n]) = a * n BY <1>2, NumberScale
<1>6. Same(a * n, u * n) BY <1>3, SameTimes
<1>7. a * n \in Int /\ u * n \in Int BY SMT
<1>8. (a * n) % Prime = (u * n) % Prime BY <1>6, <1>7, SameMod
<1>9. u * n = -u BY <1>4, SMT
<1>10. FeNeg(f) = [i \in Limb |-> f[i] * n] BY ONLY <1>1, <1>4, Zenon
<1> QED BY ONLY <1>2, <1>5, <1>8, <1>9, <1>10, Zenon DEF ValueOf

\* and fe_frombytes loads, modulo the prime.
LEMMA FeFromBytesExact ==
  ASSUME NEW s \in Nat
  PROVE ValueOf(FeFromBytes(s)) = (s % Full) % Prime
<1> DEFINE h == [i \in Limb |->
                  ((s % Upto(i)) \div Cut[i]) * (Cut[i] \div Worth[i])]
<1>1. h \in Element /\ NumberOf(h) = s % Full BY LoadedNumber
<1>2. NumberOf(h) \in Int BY <1>1, NumberInt
<1>3. FeFromBytes(s) = RoundCarries(h, AllLimbs) BY DEF FeFromBytes
<1> HIDE DEF h
<1>4. PICK n \in Int : n = NumberOf(h) /\ Same(NumberOf(h), n)
  BY <1>2, SameRefl
<1>5. ValueOf(RoundCarries(h, AllLimbs)) = n % Prime
  BY <1>1, <1>4, Orders, CarriedValue
<1> QED BY ONLY <1>1, <1>3, <1>4, <1>5, Zenon

\* A call on elements gives what its name says.
LEMMA CallExact ==
  ASSUME NEW op \in ElementOps, NEW f \in Element, NEW g \in Element
  PROVE ValueOf(FeResult(op, f, g)) = Expected([op |-> op, f |-> f, g |-> g,
                                               out |-> FeResult(op, f, g)])
<1> DEFINE c == [op |-> op, f |-> f, g |-> g, out |-> FeResult(op, f, g)]
<1>1. c.op = op /\ c.f = f /\ c.g = g OBVIOUS
<1>2. PICK u \in Nat, v \in Nat :
        u = ValueOf(f) /\ v = ValueOf(g) /\ u < Full /\ v < Full
  BY Values
<1>3. ModProduct(u, v) = (u * v) % Prime /\ ModProduct(u, u) = (u * u) % Prime
      /\ ModProduct(u, Factor) = (u * Factor) % Prime
  <2>1. u < Full BY <1>2
  <2>2. u \in Int /\ v \in Int /\ Factor \in Int BY InputAssumption
  <2> QED BY ONLY <2>1, <2>2, u \in Nat, ModProductIs, Zenon
<1>4. u % Prime = u /\ v % Prime = v BY <1>2, Values, PrimeNat, SMT
<1> HIDE DEF c
<1> SUFFICES ValueOf(FeResult(op, f, g)) = Expected(c) BY DEF c
<1>5. CASE op = "add"
  <2>1. FeResult(op, f, g) = FeAdd(f, g) BY <1>5 DEF FeResult
  <2>2. Expected(c) = (u + v) % Prime BY <1>1, <1>2, <1>5 DEF Expected
  <2> QED BY <1>2, <2>1, <2>2, FeAddExact
<1>6. CASE op = "sub"
  <2>1. FeResult(op, f, g) = FeSub(f, g) BY <1>6 DEF FeResult
  <2>2. Expected(c) = (u - v) % Prime BY <1>1, <1>2, <1>6 DEF Expected
  <2> QED BY <1>2, <2>1, <2>2, FeAddExact
<1>7. CASE op = "mul"
  <2>1. FeResult(op, f, g) = FeMul(f, g) BY <1>7 DEF FeResult
  <2>2. Expected(c) = ModProduct(u, v) BY <1>1, <1>2, <1>7 DEF Expected
  <2>3. ValueOf(FeMul(f, g)) = (u * v) % Prime BY <1>2, FeMulExact
  <2> QED BY ONLY <1>3, <2>1, <2>2, <2>3, Zenon
<1>8. CASE op = "sq"
  <2>1. FeResult(op, f, g) = FeSq(f) BY <1>8 DEF FeResult
  <2>2. Expected(c) = ModProduct(u, u) BY <1>1, <1>2, <1>8 DEF Expected
  <2>3. ValueOf(FeSq(f)) = (u * u) % Prime BY <1>2, FeSqExact
  <2> QED BY ONLY <1>3, <2>1, <2>2, <2>3, Zenon
<1>9. CASE op = "sq2"
  <2>1. FeResult(op, f, g) = FeSq2(f) BY <1>9 DEF FeResult
  <2>2. Expected(c) = (2 * ModProduct(u, u)) % Prime
    BY <1>1, <1>2, <1>9 DEF Expected
  <2>3. ValueOf(FeSq2(f)) = (2 * ((u * u) % Prime)) % Prime
    BY <1>2, FeSq2Exact
  <2> QED BY ONLY <1>3, <2>1, <2>2, <2>3, Zenon
<1>10. CASE op = "mul121666"
  <2>1. FeResult(op, f, g) = FeMulSmall(f, Factor) BY <1>10 DEF FeResult
  <2>2. Expected(c) = ModProduct(u, Factor) BY <1>1, <1>2, <1>10 DEF Expected
  <2>3. ValueOf(FeMulSmall(f, Factor)) = (u * Factor) % Prime
    BY <1>2, InputAssumption, FeMulSmallExact
  <2> QED BY ONLY <1>3, <2>1, <2>2, <2>3, Zenon
<1>11. CASE op = "neg"
  <2>1. FeResult(op, f, g) = FeNeg(f) BY <1>11 DEF FeResult
  <2>2. Expected(c) = (-u) % Prime BY <1>1, <1>2, <1>11 DEF Expected
  <2> QED BY <1>2, <2>1, <2>2, FeNegExact
<1>12. CASE op = "cmov"
  <2>1. FeResult(op, f, g) = FeCmov(f, g, 1) BY <1>12 DEF FeResult
  <2>2. Expected(c) = v BY <1>1, <1>2, <1>12 DEF Expected
  <2> QED BY <1>2, <2>1, <2>2 DEF FeCmov
<1>13. CASE op = "cswap"
  <2>1. FeResult(op, f, g) = FeCswap(f, g, 1)[2] BY <1>13 DEF FeResult
  <2>2. Expected(c) = u BY <1>1, <1>2, <1>13 DEF Expected
  <2> QED BY <1>2, <2>1, <2>2 DEF FeCswap
<1> QED BY <1>5, <1>6, <1>7, <1>8, <1>9, <1>10, <1>11, <1>12, <1>13
        DEF ElementOps

\* Whatever the limbs of its arguments, every function of fe.c that returns an
\* element (fe_add, fe_sub, fe_neg, fe_mul, fe_sq, fe_sq2, fe_mul121666,
\* fe_cmov, fe_cswap, fe_frombytes) computes what its name says modulo the
\* prime, whatever widths the limbs have: the orders of the carries, the factors
\* of two and of nineteen, and the shifts of the loads lose nothing.
THEOREM FieldIsExact == Spec => []FieldExact
<1>1. Init => FieldExact
  BY DEF Init, FieldExact, Nothing, ElementOps
<1>2. FieldExact /\ [Next]_vars => FieldExact'
  <2> SUFFICES ASSUME FieldExact, [Next]_vars PROVE FieldExact'
    OBVIOUS
  <2>1. ASSUME call' = call PROVE FieldExact'
    BY <2>1 DEF FieldExact
  <2>2. ASSUME NEW op, NEW f \in Element, NEW g \in Element,
               FieldCall(op, f, g), op \in FeBinary \union FeUnary
        PROVE FieldExact'
    <3>1. call' = [op |-> op, f |-> f, g |-> g, out |-> FeResult(op, f, g)]
      BY <2>2 DEF FieldCall
    <3>2. op # "frombytes" BY <2>2 DEF FeBinary, FeUnary
    <3>3. op \in ElementOps =>
            ValueOf(FeResult(op, f, g)) =
              Expected([op |-> op, f |-> f, g |-> g,
                        out |-> FeResult(op, f, g)])
      BY CallExact
    <3>4. call'.op = op /\ call'.out = FeResult(op, f, g) BY <3>1
    <3>5. op \in ElementOps => ValueOf(call'.out) = Expected(call')
      BY ONLY <3>1, <3>3, <3>4, Zenon
    <3> QED BY <3>2, <3>4, <3>5 DEF FieldExact
  <2>3. ASSUME NEW op \in FeBinary, NEW f \in Elements, NEW g \in Elements,
               FieldCall(op, f, g)
        PROVE FieldExact'
    <3>1. f \in Element /\ g \in Element BY InputAssumption DEF Element
    <3> QED BY <2>2, <2>3, <3>1
  <2>4. ASSUME NEW op \in FeUnary, NEW f \in Elements, NEW g \in Elements,
               FieldCall(op, FeAdd(f, g), Fe0)
        PROVE FieldExact'
    <3>1. f \in Element /\ g \in Element BY InputAssumption DEF Element
    <3>2. FeAdd(f, g) \in Element BY <3>1, FeAddTotal
    <3>3. Fe0 \in Element BY DEF Fe0, Element
    <3> QED BY <2>2, <2>4, <3>2, <3>3
  <2>5. ASSUME NEW s \in Loaded, LoadCall(s) PROVE FieldExact'
    <3>1. call' = [op |-> "frombytes", s |-> s, out |-> FeFromBytes(s)]
      BY <2>5 DEF LoadCall
    <3>2. s \in Nat BY InputAssumption
    <3>3. ValueOf(FeFromBytes(s)) = (s % Full) % Prime
      BY <3>2, FeFromBytesExact
    <3>4. call'.op = "frombytes" /\ call'.s = s
          /\ call'.out = FeFromBytes(s)
      BY <3>1
    <3> QED BY <3>3, <3>4 DEF FieldExact, ElementOps
  <2>6. ASSUME NEW s \in WideScalars, ReduceCall(s) PROVE FieldExact'
    BY <2>6 DEF ReduceCall, FieldExact, ElementOps
  <2>7. ASSUME NEW a \in Scalars, NEW b \in Scalars, NEW c \in Scalars,
               MuladdCall(a, b, c)
        PROVE FieldExact'
    BY <2>7 DEF MuladdCall, FieldExact, ElementOps
  <2>8. CASE ChainCall("invert", InvertChain)
    BY <2>8 DEF ChainCall, FieldExact, ElementOps
  <2>9. CASE ChainCall("pow22523", Pow22523Chain)
    BY <2>9 DEF ChainCall, FieldExact, ElementOps
  <2>10. CASE \E name \in DOMAIN Formulas : StartFormula(name)
    BY <2>1, <2>10 DEF StartFormula
  <2>11. CASE FormulaStep
    BY <2>1, <2>11 DEF FormulaStep
  <2>12. CASE \E seed \in Seeds : CreateKeypair(seed)
    BY <2>1, <2>12 DEF CreateKeypair
  <2>13. CASE \E m \in Messages : Sign(m)
    BY <2>1, <2>13 DEF Sign
  <2>14. ASSUME NEW x, Arrive(x) PROVE FieldExact'
    BY <2>1, <2>14 DEF Arrive
  <2>15. CASE \E m \in Messages, s \in OtherKeys, n \in OtherScalars,
                h \in 0..(Order - 1) : Foreign(m, s, n, h)
    BY <2>1, <2>15 DEF Foreign
  <2>16. CASE Verify
    BY <2>1, <2>16 DEF Verify
  <2>17. CASE UNCHANGED vars
    BY <2>1, <2>17 DEF vars
  <2> QED
    BY <2>3, <2>4, <2>5, <2>6, <2>7, <2>8, <2>9, <2>10, <2>11, <2>12, <2>13,
       <2>14, <2>15, <2>16, <2>17 DEF Next
<1> QED BY <1>1, <1>2, PTL DEF Spec

-------------------------------------------------------------------------------
(* fe_tobytes: the quotient. *)

\* A limb added to what the carry brings: one division by what both count.
LEMMA AddThenDivide ==
  ASSUME NEW x \in Int, NEW h \in Int, NEW w \in Nat, w > 0
  PROVE h + (x \div w) = (x + h * w) \div w /\ x + h * w \in Int
<1>1. PICK q \in Int : q = x \div w BY Division
<1>2. PICK r \in Nat : r = x % w BY Division
<1>3. x = q * w + r /\ r < w
  <2>1. x = (x \div w) * w + (x % w) /\ x % w < w BY Division
  <2> QED BY ONLY <1>1, <1>2, <2>1, Zenon
<1>4. q * w + r + h * w = (h + q) * w + r BY SMT
<1>5. PICK p \in Int : p = h + q OBVIOUS
<1>6. w > 0 /\ r < w BY <1>3
<1>7. (p * w + r) \div w = p
  BY ONLY <1>6, p \in Int, w \in Nat, r \in Nat, ModIs, Zenon
<1>8. x + h * w \in Int BY SMT
<1> QED BY ONLY <1>1, <1>3, <1>4, <1>5, <1>7, <1>8, Zenon

\* One step of fe_tobytes' quotient (fe.c:1408-1418).
LEMMA QuotientStep ==
  ASSUME NEW h \in Element, NEW i \in 1..10, NEW x \in Int
  PROVE /\ x + h[i - 1] * Position(i - 1) \in Int
        /\ (h[i - 1] + (x \div Position(i - 1))) \div Span(i - 1)
             = (x + h[i - 1] * Position(i - 1)) \div Position(i)
<1>1. /\ i - 1 \in 0..17 /\ i - 1 \in 0..10 /\ i - 1 \in Limb
      /\ (i - 1) + 1 = i
  BY SMT DEF Limb
<1>2. PICK w \in Nat : w = Position(i - 1) /\ w > 0
  BY <1>1, PositionPositive
<1>3. PICK s \in Nat : s = Span(i - 1) /\ s > 0 BY <1>1, SpanNat
<1>4. Position(i) = w * s BY <1>1, <1>2, <1>3, PositionNext
<1>5. PICK a \in Int : a = h[i - 1] BY <1>1 DEF Element
<1>6. w > 0 /\ s > 0 BY <1>2, <1>3
<1>7. a + (x \div w) = (x + a * w) \div w /\ x + a * w \in Int
  BY ONLY <1>6, x \in Int, a \in Int, w \in Nat, AddThenDivide, Zenon
<1>8. PICK y \in Int : y = x + a * w BY <1>7
<1>9. (y \div w) \div s = y \div (w * s)
  BY ONLY <1>6, y \in Int, w \in Nat, s \in Nat, DivideTwice, Zenon
<1> QED BY ONLY <1>2, <1>3, <1>4, <1>5, <1>7, <1>8, <1>9, Zenon

\* The first guess at the quotient.
Guess(h) == (Wrap * h[9] + OddSpan \div 2) \div OddSpan

\* The ten steps of the quotient divide the guess plus the whole number.
LEMMA QuotientIs ==
  ASSUME NEW h \in Element, Guess(h) \in Int
  PROVE Quotient(h) = (Guess(h) + NumberOf(h)) \div Full
<1> DEFINE F(q) == [i \in 0..10 |->
             IF i = 0 THEN (Wrap * h[9] + OddSpan \div 2) \div OddSpan
             ELSE (h[i - 1] + q[i - 1]) \div Span(i - 1)]
           q == CHOOSE q : q = F(q)
           x0 == Guess(h)
           x1 == x0 + h[0] * Position(0)
           x2 == x1 + h[1] * Position(1)
           x3 == x2 + h[2] * Position(2)
           x4 == x3 + h[3] * Position(3)
           x5 == x4 + h[4] * Position(4)
           x6 == x5 + h[5] * Position(5)
           x7 == x6 + h[6] * Position(6)
           x8 == x7 + h[7] * Position(7)
           x9 == x8 + h[8] * Position(8)
           x10 == x9 + h[9] * Position(9)
           x == [i \in 0..10 |->
                  IF i = 0 THEN x0
                  ELSE IF i = 1 THEN x1
                  ELSE IF i = 2 THEN x2
                  ELSE IF i = 3 THEN x3
                  ELSE IF i = 4 THEN x4
                  ELSE IF i = 5 THEN x5
                  ELSE IF i = 6 THEN x6
                  ELSE IF i = 7 THEN x7
                  ELSE IF i = 8 THEN x8
                  ELSE IF i = 9 THEN x9
                  ELSE x10]
           a == [i \in 0..10 |-> x[i] \div Position(i)]
<1>1. Quotient(h) = q[10] BY Zenon DEF Quotient
<1>2. /\ x[0] = x0 /\ \A i \in 1..10 :
           x[i] = x[i - 1] + h[i - 1] * Position(i - 1)
  <2> HIDE DEF x0, x1, x2, x3, x4, x5, x6, x7, x8, x9, x10
  <2>1. /\ x[0] = x0 /\ x[1] = x1 /\ x[2] = x2 /\ x[3] = x3 /\ x[4] = x4
        /\ x[5] = x5 /\ x[6] = x6 /\ x[7] = x7 /\ x[8] = x8 /\ x[9] = x9
        /\ x[10] = x10
    BY SMT
  <2> HIDE DEF x
  <2>2. x[1] = x[1 - 1] + h[1 - 1] * Position(1 - 1)
    <3>1. 1 - 1 = 0 BY SMT
    <3> QED BY ONLY <2>1, <3>1, Zenon DEF x1
  <2>3. x[2] = x[2 - 1] + h[2 - 1] * Position(2 - 1)
    <3>1. 2 - 1 = 1 BY SMT
    <3> QED BY ONLY <2>1, <3>1, Zenon DEF x2
  <2>4. x[3] = x[3 - 1] + h[3 - 1] * Position(3 - 1)
    <3>1. 3 - 1 = 2 BY SMT
    <3> QED BY ONLY <2>1, <3>1, Zenon DEF x3
  <2>5. x[4] = x[4 - 1] + h[4 - 1] * Position(4 - 1)
    <3>1. 4 - 1 = 3 BY SMT
    <3> QED BY ONLY <2>1, <3>1, Zenon DEF x4
  <2>6. x[5] = x[5 - 1] + h[5 - 1] * Position(5 - 1)
    <3>1. 5 - 1 = 4 BY SMT
    <3> QED BY ONLY <2>1, <3>1, Zenon DEF x5
  <2>7. x[6] = x[6 - 1] + h[6 - 1] * Position(6 - 1)
    <3>1. 6 - 1 = 5 BY SMT
    <3> QED BY ONLY <2>1, <3>1, Zenon DEF x6
  <2>8. x[7] = x[7 - 1] + h[7 - 1] * Position(7 - 1)
    <3>1. 7 - 1 = 6 BY SMT
    <3> QED BY ONLY <2>1, <3>1, Zenon DEF x7
  <2>9. x[8] = x[8 - 1] + h[8 - 1] * Position(8 - 1)
    <3>1. 8 - 1 = 7 BY SMT
    <3> QED BY ONLY <2>1, <3>1, Zenon DEF x8
  <2>10. x[9] = x[9 - 1] + h[9 - 1] * Position(9 - 1)
    <3>1. 9 - 1 = 8 BY SMT
    <3> QED BY ONLY <2>1, <3>1, Zenon DEF x9
  <2>11. x[10] = x[10 - 1] + h[10 - 1] * Position(10 - 1)
    <3>1. 10 - 1 = 9 BY SMT
    <3> QED BY ONLY <2>1, <3>1, Zenon DEF x10
  <2>12. \A i \in 1..10 : i \in {1, 2, 3, 4, 5, 6, 7, 8, 9, 10} BY SMT
  <2> DEFINE G(i) == x[i] = x[i - 1] + h[i - 1] * Position(i - 1)
  <2>13. /\ G(1) /\ G(2) /\ G(3) /\ G(4) /\ G(5)
         /\ G(6) /\ G(7) /\ G(8) /\ G(9) /\ G(10)
    BY ONLY <2>2, <2>3, <2>4, <2>5, <2>6, <2>7, <2>8, <2>9, <2>10, <2>11, Zenon
  <2> HIDE DEF G
  <2>14. \A i \in 1..10 : G(i) BY ONLY <2>12, <2>13, Zenon
  <2> QED BY <2>1, <2>14 DEF G
<1> HIDE DEF x
<1>3. \A i \in 0..10 : x[i] \in Int
  <2> DEFINE S == {n \in Nat : n <= 10 => x[n] \in Int}
  <2>1. 0 \in S BY <1>2
  <2>2. \A n \in Nat : n \in S => n + 1 \in S
    <3> SUFFICES ASSUME NEW n \in Nat, n \in S, n + 1 <= 10
                 PROVE  x[n + 1] \in Int
      OBVIOUS
    <3>1. n + 1 \in 1..10 /\ (n + 1) - 1 = n /\ n <= 10 BY SMT
    <3>2. x[n] \in Int BY <3>1
    <3> QED BY <1>2, <3>1, <3>2, QuotientStep
  <2> HIDE DEF S
  <2>3. Nat \subseteq S BY <2>1, <2>2, NatLeast
  <2>4. \A n \in 0..10 : n \in Nat /\ n <= 10 BY SMT
  <2> QED BY <2>3, <2>4 DEF S
<1>4. a[0] = (Wrap * h[9] + OddSpan \div 2) \div OddSpan
  <2>1. Position(0) = 1
    <3>1. 0 < 10 BY SMT
    <3> QED BY <3>1, WidthAssumption DEF Position
  <2>2. \A n \in Int : n \div 1 = n BY SMT
  <2>3. a[0] = x[0] \div Position(0) BY SMT
  <2>4. a[0] = Guess(h) BY ONLY <1>2, <2>1, <2>2, <2>3, Guess(h) \in Int, Zenon
  <2> QED BY <2>4 DEF Guess
<1>5. \A i \in 1..10 : a[i] = (h[i - 1] + a[i - 1]) \div Span(i - 1)
  <2> SUFFICES ASSUME NEW i \in 1..10
               PROVE a[i] = (h[i - 1] + a[i - 1]) \div Span(i - 1)
    OBVIOUS
  <2>1. i \in 0..10 /\ i - 1 \in 0..10 BY SMT
  <2>2. a[i] = x[i] \div Position(i)
        /\ a[i - 1] = x[i - 1] \div Position(i - 1)
    BY <2>1
  <2>3. PICK y \in Int : y = x[i - 1] BY <1>3, <2>1
  <2>4. (h[i - 1] + (y \div Position(i - 1))) \div Span(i - 1)
          = (y + h[i - 1] * Position(i - 1)) \div Position(i)
    BY QuotientStep
  <2>5. x[i] = x[i - 1] + h[i - 1] * Position(i - 1) BY <1>2
  <2> HIDE DEF a
  <2> QED BY ONLY <2>2, <2>3, <2>4, <2>5, Zenon
<1>6. q = F(q)
  <2>1. \A i \in 0..10 : a[i] = F(a)[i]
    <3> SUFFICES ASSUME NEW i \in 0..10 PROVE a[i] = F(a)[i]
      OBVIOUS
    <3>1. i = 0 \/ i \in 1..10 BY SMT
    <3>2. F(a)[i] = IF i = 0
                    THEN (Wrap * h[9] + OddSpan \div 2) \div OddSpan
                    ELSE (h[i - 1] + a[i - 1]) \div Span(i - 1)
      OBVIOUS
    <3>3. i \in 1..10 => i # 0 BY SMT
    <3> HIDE DEF a, F
    <3> QED BY <1>4, <1>5, <3>1, <3>2, <3>3, Zenon
  <2>2. a = F(a)
    <3> DEFINE b == F(a)
    <3>1. a = [i \in 0..10 |-> a[i]] /\ b = [i \in 0..10 |-> b[i]] OBVIOUS
    <3> QED BY <2>1
  <2> QED BY <2>2
<1>7. /\ q[0] = (Wrap * h[9] + OddSpan \div 2) \div OddSpan
      /\ \A i \in 1..10 : q[i] = (h[i - 1] + q[i - 1]) \div Span(i - 1)
  <2>1. \A i \in 0..10 : F(q)[i] =
          IF i = 0 THEN (Wrap * h[9] + OddSpan \div 2) \div OddSpan
          ELSE (h[i - 1] + q[i - 1]) \div Span(i - 1)
    OBVIOUS
  <2>2. 0 \in 0..10 /\ \A i \in 1..10 : i \in 0..10 /\ i # 0 BY SMT
  <2> HIDE DEF F, q
  <2> QED BY <1>6, <2>1, <2>2, Zenon
<1> HIDE DEF q, a
<1>8. q[10] = a[10]
  <2> DEFINE S == {n \in Nat : n <= 10 => q[n] = a[n]}
  <2>1. 0 \in S BY <1>4, <1>7
  <2>2. \A n \in Nat : n \in S => n + 1 \in S
    <3> SUFFICES ASSUME NEW n \in Nat, n \in S, n + 1 <= 10
                 PROVE q[n + 1] = a[n + 1]
      OBVIOUS
    <3>1. n <= 10 /\ n + 1 \in 1..10 /\ (n + 1) - 1 = n BY SMT
    <3>2. q[n] = a[n] BY <3>1
    <3> QED BY <1>5, <1>7, <3>1, <3>2, Zenon
  <2> HIDE DEF S
  <2>3. Nat \subseteq S BY <2>1, <2>2, NatLeast
  <2>4. 10 \in S /\ 10 <= 10 BY <2>3
  <2> QED BY <2>4 DEF S
<1>9. a[10] = x10 \div Full
  <2>1. Position(10) = Full
    <3>1. Position(10) = Full * Worth[0] BY SMT DEF Position
    <3>2. Full * 1 = Full BY PrimeNat, SMT
    <3> QED BY <3>1, <3>2, WidthAssumption
  <2>2. a[10] = x[10] \div Position(10) BY SMT DEF a
  <2>3. x[10] = x10
    <3> HIDE DEF x0, x1, x2, x3, x4, x5, x6, x7, x8, x9, x10
    <3> QED BY SMT DEF x
  <2> QED BY ONLY <2>1, <2>2, <2>3, Zenon
<1>10. x10 = Guess(h) + NumberOf(h)
  <2> DEFINE hw == [i \in Limb |-> h[i] * Worth[i]]
  <2>1. hw \in Element /\ NumberOf(h) = Total(hw) BY NumberInt DEF NumberOf
  <2>2. \A i \in Limb : hw[i] = h[i] * Position(i) /\ hw[i] \in Int
    <3>1. \A i \in Limb : i < 10 BY SMT DEF Limb
    <3> QED BY <2>1, <3>1 DEF Position, Element
  <2> HIDE DEF hw
  <2>3. /\ 0 \in Limb /\ 1 \in Limb /\ 2 \in Limb /\ 3 \in Limb /\ 4 \in Limb
        /\ 5 \in Limb /\ 6 \in Limb /\ 7 \in Limb /\ 8 \in Limb /\ 9 \in Limb
    BY SMT DEF Limb
  <2>4. x10 = x0 + hw[0] + hw[1] + hw[2] + hw[3] + hw[4] + hw[5] + hw[6]
                 + hw[7] + hw[8] + hw[9]
    BY <2>2, <2>3, Zenon
  <2>5. /\ hw[0] \in Int /\ hw[1] \in Int /\ hw[2] \in Int /\ hw[3] \in Int
        /\ hw[4] \in Int /\ hw[5] \in Int /\ hw[6] \in Int /\ hw[7] \in Int
        /\ hw[8] \in Int /\ hw[9] \in Int
    BY <2>2, <2>3
  <2>6. x0 \in Int OBVIOUS
  <2> HIDE DEF x0, x10
  <2>7. x10 = x0 + Total(hw) BY <2>4, <2>5, <2>6, SMT DEF Total
  <2> QED BY <2>1, <2>7 DEF x0
<1> QED BY ONLY <1>1, <1>8, <1>9, <1>10, Zenon

-------------------------------------------------------------------------------
(* fe_tobytes: the floor carries. *)

\* A floor carry below the top limb keeps the number and leaves its limb in
\* its width.
LEMMA FloorCarryKeeps ==
  ASSUME NEW h \in Element, NEW i \in 0..8
  PROVE /\ FloorCarry(h, i) \in Element
        /\ NumberOf(FloorCarry(h, i)) = NumberOf(h)
        /\ FloorCarry(h, i)[i] \in 0..(Span(i) - 1)
        /\ \A j \in 0..(i - 1) : FloorCarry(h, i)[j] = h[j]
<1>1. i \in Limb /\ i # 9 /\ Above(i) = i + 1 BY SMT DEF Limb, Above
<1>2. PICK s \in Nat : s = Span(i) /\ s > 0 BY <1>1, SpanNat
<1>3. PICK x \in Int : x = h[i] BY <1>1 DEF Element
<1>4. PICK c \in Int : c = x \div s BY <1>2, Division
<1>5. FloorCarry(h, i) = Carry(h, i, c)
  BY ONLY <1>2, <1>3, <1>4, Zenon DEF FloorCarry
<1>6. /\ Carry(h, i, c) \in Element
      /\ NumberOf(Carry(h, i, c)) = NumberOf(h)
  BY <1>1, CarryKeeps
<1>7. Carry(h, i, c)[i] = x - c * s
  <2>1. i # i + 1 BY SMT
  <2>2. Carry(h, i, c)[i] = h[i] - c * Span(i)
    BY <1>1, <2>1 DEF Carry, Element
  <2> QED BY ONLY <1>2, <1>3, <2>2, Zenon
<1>8. x - c * s \in 0..(s - 1)
  <2>1. PICK r \in Nat : r = x % s BY <1>2, Division
  <2>2. s > 0 BY <1>2
  <2>3. x = (x \div s) * s + (x % s) /\ x % s < s
    BY ONLY <2>2, x \in Int, s \in Nat, Division, Zenon
  <2>4. x = c * s + r /\ r < s BY ONLY <1>4, <2>1, <2>3, Zenon
  <2>5. PICK z \in Int : z = c * s BY SMT
  <2> QED BY <2>4, <2>5
<1>9. \A j \in 0..(i - 1) : Carry(h, i, c)[j] = h[j]
  <2> SUFFICES ASSUME NEW j \in 0..(i - 1) PROVE Carry(h, i, c)[j] = h[j]
    OBVIOUS
  <2>1. j \in Limb /\ j # i /\ j # i + 1 BY SMT DEF Limb
  <2> QED BY <1>1, <2>1 DEF Carry, Element
<1> QED BY ONLY <1>2, <1>5, <1>6, <1>7, <1>8, <1>9, Zenon

\* The states of the loop that carries upwards.
UpPasses(h, n, a) ==
  /\ a \in [0..n -> Element]
  /\ a[0] = h
  /\ \A i \in 1..n : a[i] = FloorCarry(a[i - 1], i - 1)
  /\ NumberOf(a[n]) = NumberOf(h)
  /\ \A j \in 0..(n - 1) : a[n][j] \in 0..(Span(j) - 1)

\* Such states exist.
LEMMA UpPassesExist ==
  ASSUME NEW h \in Element
  PROVE \E a : UpPasses(h, 9, a)
<1> DEFINE S == {n \in Nat : n <= 9 => \E a : UpPasses(h, n, a)}
<1>1. 0 \in S
  <2> DEFINE a == [n \in 0..0 |-> h]
  <2>1. a[0] = h BY SMT
  <2>2. a \in [0..0 -> Element] OBVIOUS
  <2>3. 1..0 = {} /\ 0..(0 - 1) = {} BY SMT
  <2> HIDE DEF a
  <2>4. UpPasses(h, 0, a) BY <2>1, <2>2, <2>3, Zenon DEF UpPasses
  <2> QED BY <2>4
<1>2. \A n \in Nat : n \in S => n + 1 \in S
  <2> SUFFICES ASSUME NEW n \in Nat, n \in S, n + 1 <= 9
               PROVE \E b : UpPasses(h, n + 1, b)
    OBVIOUS
  <2>1. n <= 9 /\ n \in 0..8 BY SMT
  <2>2. PICK a : UpPasses(h, n, a) BY <2>1
  <2> DEFINE b == [i \in 0..(n + 1) |->
                    IF i = n + 1 THEN FloorCarry(a[n], n) ELSE a[i]]
  <2>3. a[n] \in Element BY <2>2, SMT DEF UpPasses
  <2>4. /\ FloorCarry(a[n], n) \in Element
        /\ NumberOf(FloorCarry(a[n], n)) = NumberOf(a[n])
        /\ FloorCarry(a[n], n)[n] \in 0..(Span(n) - 1)
        /\ \A j \in 0..(n - 1) : FloorCarry(a[n], n)[j] = a[n][j]
    BY <2>1, <2>3, FloorCarryKeeps
  <2>5. b \in [0..(n + 1) -> Element] BY <2>2, <2>4, SMT DEF UpPasses
  <2>6. b[0] = h BY <2>2, SMT DEF UpPasses
  <2>7. \A i \in 1..(n + 1) : b[i] = FloorCarry(b[i - 1], i - 1)
    <3> SUFFICES ASSUME NEW i \in 1..(n + 1)
                 PROVE b[i] = FloorCarry(b[i - 1], i - 1)
      OBVIOUS
    <3>1. i - 1 \in 0..n /\ i - 1 \in 0..(n + 1) /\ i - 1 # n + 1 BY SMT
    <3>2. b[i - 1] = a[i - 1] BY <3>1
    <3>3. CASE i = n + 1
      <4>1. b[i] = FloorCarry(a[n], n) /\ i - 1 = n BY <3>3, SMT
      <4> QED BY ONLY <3>2, <4>1, Zenon
    <3>4. CASE i # n + 1
      <4>1. i \in 1..n /\ b[i] = a[i] BY <3>4, SMT
      <4>2. a[i] = FloorCarry(a[i - 1], i - 1) BY <4>1, <2>2 DEF UpPasses
      <4> QED BY ONLY <3>2, <4>1, <4>2, Zenon
    <3> QED BY <3>3, <3>4
  <2>8. b[n + 1] = FloorCarry(a[n], n) BY SMT
  <2>9. NumberOf(b[n + 1]) = NumberOf(h)
    <3>1. NumberOf(a[n]) = NumberOf(h) BY <2>2 DEF UpPasses
    <3> QED BY ONLY <2>4, <2>8, <3>1, Zenon
  <2>10. \A j \in 0..((n + 1) - 1) : b[n + 1][j] \in 0..(Span(j) - 1)
    <3> SUFFICES ASSUME NEW j \in 0..((n + 1) - 1)
                 PROVE FloorCarry(a[n], n)[j] \in 0..(Span(j) - 1)
      BY <2>8
    <3>1. j = n \/ j \in 0..(n - 1) BY SMT
    <3>2. \A m \in 0..(n - 1) : a[n][m] \in 0..(Span(m) - 1)
      BY <2>2 DEF UpPasses
    <3> QED BY ONLY <2>4, <3>1, <3>2, Zenon
  <2> HIDE DEF b
  <2>11. UpPasses(h, n + 1, b)
    BY ONLY <2>5, <2>6, <2>7, <2>9, <2>10, Zenon DEF UpPasses
  <2> QED BY <2>11
<1> HIDE DEF S
<1>3. Nat \subseteq S BY <1>1, <1>2, NatLeast
<1>4. 9 \in S /\ 9 <= 9 BY <1>3
<1> QED BY <1>4 DEF S

\* The nine floor carries keep the number and leave nine limbs in width.
LEMMA CarriedUpIs ==
  ASSUME NEW h \in Element
  PROVE /\ CarriedUp(h) \in Element
        /\ NumberOf(CarriedUp(h)) = NumberOf(h)
        /\ \A j \in 0..8 : CarriedUp(h)[j] \in 0..(Span(j) - 1)
<1> DEFINE F(a) == [n \in 0..9 |-> IF n = 0 THEN h
                                  ELSE FloorCarry(a[n - 1], n - 1)]
           up == CHOOSE a : a = F(a)
<1>1. CarriedUp(h) = up[9] BY Zenon DEF CarriedUp
<1>2. PICK a : UpPasses(h, 9, a) BY UpPassesExist
<1>3. /\ a \in [0..9 -> Element] /\ a[0] = h
      /\ \A i \in 1..9 : a[i] = FloorCarry(a[i - 1], i - 1)
      /\ NumberOf(a[9]) = NumberOf(h)
      /\ \A j \in 0..8 : a[9][j] \in 0..(Span(j) - 1)
  <2>1. 9 - 1 = 8 BY SMT
  <2> QED BY ONLY <1>2, <2>1, Zenon DEF UpPasses
<1>4. a = F(a)
  <2>1. \A n \in 0..9 : a[n] = F(a)[n]
    <3> SUFFICES ASSUME NEW n \in 0..9 PROVE a[n] = F(a)[n]
      OBVIOUS
    <3>1. F(a)[n] = IF n = 0 THEN h ELSE FloorCarry(a[n - 1], n - 1)
      OBVIOUS
    <3>2. n = 0 \/ n \in 1..9 BY SMT
    <3>3. n \in 1..9 => n # 0 BY SMT
    <3> HIDE DEF F
    <3>4. CASE n = 0
      <4>1. F(a)[n] = h BY ONLY <3>1, <3>4, Zenon
      <4>2. a[n] = h BY ONLY <1>3, <3>4, Zenon
      <4> QED BY ONLY <4>1, <4>2, Zenon
    <3>5. CASE n \in 1..9
      <4>1. F(a)[n] = FloorCarry(a[n - 1], n - 1)
        BY ONLY <3>1, <3>3, <3>5, Zenon
      <4>2. a[n] = FloorCarry(a[n - 1], n - 1) BY ONLY <1>3, <3>5, Zenon
      <4> QED BY ONLY <4>1, <4>2, Zenon
    <3> QED BY ONLY <3>2, <3>4, <3>5, Zenon
  <2>2. a = [n \in 0..9 |-> a[n]] BY <1>3
  <2> QED BY <2>1, <2>2
<1>5. up = F(up) BY <1>4
<1>6. /\ up[0] = h
      /\ \A i \in 1..9 : up[i] = FloorCarry(up[i - 1], i - 1)
  <2>1. \A n \in 0..9 : F(up)[n] =
          IF n = 0 THEN h ELSE FloorCarry(up[n - 1], n - 1)
    OBVIOUS
  <2>2. 0 \in 0..9 /\ \A i \in 1..9 : i \in 0..9 /\ i # 0 BY SMT
  <2> HIDE DEF F, up
  <2> QED BY ONLY <1>5, <2>1, <2>2, Zenon
<1> HIDE DEF up
<1>7. up[9] = a[9]
  <2> DEFINE S == {n \in Nat : n <= 9 => up[n] = a[n]}
  <2>1. 0 \in S BY <1>3, <1>6
  <2>2. \A n \in Nat : n \in S => n + 1 \in S
    <3> SUFFICES ASSUME NEW n \in Nat, n \in S, n + 1 <= 9
                 PROVE up[n + 1] = a[n + 1]
      OBVIOUS
    <3>1. n <= 9 /\ n + 1 \in 1..9 /\ (n + 1) - 1 = n BY SMT
    <3>2. up[n] = a[n] BY <3>1
    <3> QED BY ONLY <1>3, <1>6, <3>1, <3>2, Zenon
  <2> HIDE DEF S
  <2>3. Nat \subseteq S BY <2>1, <2>2, NatLeast
  <2>4. 9 \in S /\ 9 <= 9 BY <2>3
  <2> QED BY <2>4 DEF S
<1>8. a[9] \in Element
  <2>1. 9 \in 0..9 BY SMT
  <2> QED BY <1>3, <2>1
<1> QED BY ONLY <1>1, <1>3, <1>7, <1>8, Zenon

\* An element whose limbs are all in their width is below what they span.
LEMMA InWidth ==
  ASSUME NEW h \in Element, \A j \in Limb : h[j] \in 0..(Span(j) - 1)
  PROVE NumberOf(h) \in 0..(Full - 1)
<1> DEFINE hw == [i \in Limb |-> h[i] * Worth[i]]
<1>1. \A i \in 0..9 : hw[i] \in Nat /\ hw[i] <= Position(i + 1) - Position(i)
                     /\ Position(i) \in Nat /\ Position(i + 1) \in Nat
  <2> SUFFICES ASSUME NEW i \in 0..9
      PROVE hw[i] \in Nat /\ hw[i] <= Position(i + 1) - Position(i)
            /\ Position(i) \in Nat /\ Position(i + 1) \in Nat
    OBVIOUS
  <2>1. i \in Limb /\ i \in 0..17 /\ i < 10 /\ i + 1 \in 0..10
    BY SMT DEF Limb
  <2>2. PICK s \in Nat : s = Span(i) /\ s > 0 BY <2>1, SpanNat
  <2>3. PICK w \in Nat : w = Worth[i] BY <2>1, WorthNat
  <2>4. Position(i) = w BY <2>1, <2>3 DEF Position
  <2>5. Position(i + 1) = w * s BY <2>1, <2>2, <2>4, PositionNext
  <2>6. PICK x \in Nat : x = h[i] /\ x + 1 <= s
    <3>1. h[i] \in 0..(Span(i) - 1) BY <2>1
    <3>2. h[i] \in 0..(s - 1) BY ONLY <2>2, <3>1, Zenon
    <3> QED BY <3>2
  <2>7. hw[i] = x * w BY <2>1, <2>3, <2>6
  <2>8. (x + 1) * w <= w * s
    <3>1. x + 1 <= s BY <2>6
    <3> QED BY ONLY <3>1, x \in Nat, s \in Nat, w \in Nat, SMT
  <2>9. (x + 1) * w = x * w + w BY SMT
  <2>10. PICK y \in Nat, z \in Nat : y = x * w /\ z = w * s BY SMT
  <2>11. y + w <= z BY ONLY <2>8, <2>9, <2>10, Zenon
  <2>12. y <= z - w BY <2>11
  <2> HIDE DEF hw
  <2> QED BY ONLY <2>4, <2>5, <2>7, <2>10, <2>12, w \in Nat, Zenon
<1>2. NumberOf(h) = Total(hw) BY DEF NumberOf
<1>3. Position(0) = 1 /\ Position(10) = Full
  <2>1. Position(10) = Full * Worth[0] BY SMT DEF Position
  <2>2. Full * 1 = Full BY PrimeNat, SMT
  <2>3. 0 < 10 BY SMT
  <2> QED BY <2>1, <2>2, <2>3, WidthAssumption DEF Position
<1> HIDE DEF hw
<1>4. Total(hw) \in Nat /\ Total(hw) <= Position(10) - Position(0)
  <2>1. /\ 0 \in 0..9 /\ 1 \in 0..9 /\ 2 \in 0..9 /\ 3 \in 0..9 /\ 4 \in 0..9
        /\ 5 \in 0..9 /\ 6 \in 0..9 /\ 7 \in 0..9 /\ 8 \in 0..9 /\ 9 \in 0..9
        /\ 0 + 1 = 1 /\ 1 + 1 = 2 /\ 2 + 1 = 3 /\ 3 + 1 = 4 /\ 4 + 1 = 5
        /\ 5 + 1 = 6 /\ 6 + 1 = 7 /\ 7 + 1 = 8 /\ 8 + 1 = 9 /\ 9 + 1 = 10
    BY SMT
  <2>2. /\ hw[0] <= Position(1) - Position(0)
        /\ hw[1] <= Position(2) - Position(1)
        /\ hw[2] <= Position(3) - Position(2)
        /\ hw[3] <= Position(4) - Position(3)
        /\ hw[4] <= Position(5) - Position(4)
        /\ hw[5] <= Position(6) - Position(5)
        /\ hw[6] <= Position(7) - Position(6)
        /\ hw[7] <= Position(8) - Position(7)
        /\ hw[8] <= Position(9) - Position(8)
        /\ hw[9] <= Position(10) - Position(9)
    BY ONLY <1>1, <2>1, Zenon
  <2>3. /\ hw[0] \in Nat /\ hw[1] \in Nat /\ hw[2] \in Nat /\ hw[3] \in Nat
        /\ hw[4] \in Nat /\ hw[5] \in Nat /\ hw[6] \in Nat /\ hw[7] \in Nat
        /\ hw[8] \in Nat /\ hw[9] \in Nat
    BY ONLY <1>1, <2>1, Zenon
  <2>4. /\ Position(0) \in Nat /\ Position(1) \in Nat /\ Position(2) \in Nat
        /\ Position(3) \in Nat /\ Position(4) \in Nat /\ Position(5) \in Nat
        /\ Position(6) \in Nat /\ Position(7) \in Nat /\ Position(8) \in Nat
        /\ Position(9) \in Nat /\ Position(10) \in Nat
    BY ONLY <1>1, <2>1, Zenon
  <2> QED BY ONLY <2>2, <2>3, <2>4, SMT DEF Total
<1> QED BY <1>2, <1>3, <1>4, PrimeNat

\* What fe_tobytes writes, given its quotient.
LEMMA FeToBytesIs ==
  ASSUME NEW h \in Element, Quotient(h) \in Int
  PROVE FeToBytes(h) = (NumberOf(h) + Wrap * Quotient(h)) % Full
<1>1. PICK q \in Int : q = Quotient(h) OBVIOUS
<1>2. PICK m \in Nat : m = Wrap BY PrimeNat
<1>3. PICK e \in Int : e = m * q BY SMT
<1> DEFINE d == [Fe0 EXCEPT ![0] = e]
           folded == [h EXCEPT ![0] = @ + Wrap * Quotient(h)]
<1>4. d \in Element
  <2>1. d = [i \in Limb |-> IF i = 0 THEN e ELSE 0] BY DEF Fe0
  <2>2. \A i \in Limb : (IF i = 0 THEN e ELSE 0) \in Int OBVIOUS
  <2> HIDE DEF d
  <2> QED BY ONLY <2>1, <2>2, Zenon DEF Element
<1>5. folded = FeAdd(h, d)
  <2>1. \A i \in Limb : h[i] \in Int BY DEF Element
  <2>2. \A i \in Limb : d[i] = IF i = 0 THEN e ELSE 0 BY DEF Fe0
  <2>3. folded = [i \in Limb |-> IF i = 0 THEN h[i] + e ELSE h[i]]
    BY <1>1, <1>2, <1>3 DEF Element
  <2> HIDE DEF d, folded
  <2>4. \A i \in Limb : h[i] + d[i] = IF i = 0 THEN h[i] + e ELSE h[i]
    BY <2>1, <2>2
  <2> QED BY <2>3, <2>4 DEF FeAdd
<1>6. NumberOf(d) = e
  <2> DEFINE dw == [i \in Limb |-> d[i] * Worth[i]]
  <2>1. dw[0] = e
    <3>1. e * 1 = e BY SMT
    <3>2. 0 \in Limb BY SMT DEF Limb
    <3> QED BY <3>1, <3>2, WidthAssumption DEF Fe0
  <2>2. \A i \in Limb : i # 0 => dw[i] = 0
    <3>1. \A i \in Limb : 0 * Worth[i] = 0 BY WorthNat, SMT
    <3> QED BY <3>1 DEF Fe0
  <2>3. /\ 1 \in Limb /\ 2 \in Limb /\ 3 \in Limb /\ 4 \in Limb /\ 5 \in Limb
        /\ 6 \in Limb /\ 7 \in Limb /\ 8 \in Limb /\ 9 \in Limb
    BY SMT DEF Limb
  <2> HIDE DEF dw, d
  <2>4. /\ dw[1] = 0 /\ dw[2] = 0 /\ dw[3] = 0 /\ dw[4] = 0 /\ dw[5] = 0
        /\ dw[6] = 0 /\ dw[7] = 0 /\ dw[8] = 0 /\ dw[9] = 0
    BY <2>2, <2>3, SMT
  <2>5. Total(dw) = e BY ONLY <2>1, <2>4, e \in Int, SMT DEF Total
  <2> QED BY <2>5 DEF NumberOf, dw
<1> HIDE DEF d
<1>7. folded \in Element /\ NumberOf(folded) = NumberOf(h) + e
  BY <1>4, <1>5, <1>6, FeAddTotal, NumberAdd
<1> DEFINE up == CarriedUp(folded)
           final == [up EXCEPT ![9] = @ % OddSpan]
<1>8. FeToBytes(h) = NumberOf(final) BY Zenon DEF FeToBytes
<1>9. up \in Element /\ NumberOf(up) = NumberOf(h) + e
      /\ \A j \in 0..8 : up[j] \in 0..(Span(j) - 1)
  BY <1>7, CarriedUpIs
<1>10. 9 \in Limb /\ 0..8 = Limb \ {9} BY SMT DEF Limb
<1> HIDE DEF up, folded
<1>11. PICK x \in Int : x = up[9] BY <1>9, <1>10 DEF Element
<1>12. PICK o \in Nat : o = OddSpan /\ o > 0 BY WidthAssumption
<1>13. PICK r \in Nat : r = x % o /\ r < o BY <1>12, Division
<1>14. PICK t \in Int : t = x \div o BY <1>12, Division
<1>15. x = t * o + r
  <2>1. o > 0 BY <1>12
  <2>2. x = (x \div o) * o + (x % o)
    BY ONLY <2>1, x \in Int, o \in Nat, Division, Zenon
  <2> QED BY ONLY <1>13, <1>14, <2>2, Zenon
<1>16. final = [up EXCEPT ![9] = r]
  BY ONLY <1>11, <1>12, <1>13, Zenon
<1>17. final \in Element /\ \A j \in Limb : final[j] \in 0..(Span(j) - 1)
  <2>1. final \in Element BY <1>9, <1>16, <1>10 DEF Element
  <2>2. final[9] = r BY <1>9, <1>16, <1>10 DEF Element
  <2>3. r \in 0..(Span(9) - 1)
    <3>1. Span(9) = o BY <1>12, SMT DEF Span
    <3>2. r \in 0..(o - 1) BY <1>13
    <3> QED BY ONLY <3>1, <3>2, Zenon
  <2>4. \A j \in Limb : j # 9 => final[j] = up[j]
    BY <1>9, <1>16 DEF Element
  <2> HIDE DEF final
  <2> QED BY ONLY <1>9, <1>10, <2>1, <2>2, <2>3, <2>4, Zenon
<1>18. NumberOf(final) \in 0..(Full - 1)
  <2> HIDE DEF final
  <2> QED BY <1>17, InWidth
<1>19. NumberOf(up) = NumberOf(final) + t * Full
  <2> DEFINE c == [i \in Limb |-> IF i = 9 THEN t * o ELSE 0]
  <2>1. t * o \in Int BY SMT
  <2>2. c \in Element BY <2>1 DEF Element
  <2>3. up = FeAdd(final, c)
    <3>1. \A i \in Limb : final[i] + c[i] = up[i]
      <4> SUFFICES ASSUME NEW i \in Limb PROVE final[i] + c[i] = up[i]
        OBVIOUS
      <4>1. CASE i = 9
        <5>1. final[9] = r /\ c[9] = t * o
          BY <1>9, <1>10, <1>16 DEF Element
        <5>2. r + t * o = t * o + r BY <2>1
        <5> QED BY ONLY <4>1, <5>1, <5>2, <1>11, <1>15, Zenon
      <4>2. CASE i # 9
        <5>1. final[i] = up[i] /\ c[i] = 0 BY <4>2, <1>9, <1>16 DEF Element
        <5>2. up[i] \in Int BY <1>9 DEF Element
        <5>3. up[i] + 0 = up[i] BY <5>2
        <5> QED BY ONLY <5>1, <5>3, Zenon
      <4> QED BY <4>1, <4>2
    <3>2. up = [i \in Limb |-> up[i]] BY <1>9 DEF Element
    <3> HIDE DEF c, final
    <3> QED BY <3>1, <3>2 DEF FeAdd
  <2>4. NumberOf(c) = t * Full
    <3> DEFINE cw == [i \in Limb |-> c[i] * Worth[i]]
    <3>1. PICK w \in Nat : w = Worth[9] BY <1>10, WorthNat
    <3>2. cw[9] = (t * o) * w BY <1>10, <3>1
    <3>3. \A i \in Limb : i # 9 => cw[i] = 0
      <4>1. \A i \in Limb : 0 * Worth[i] = 0 BY WorthNat, SMT
      <4> QED BY <4>1
    <3>4. /\ 0 \in Limb /\ 1 \in Limb /\ 2 \in Limb /\ 3 \in Limb /\ 4 \in Limb
          /\ 5 \in Limb /\ 6 \in Limb /\ 7 \in Limb /\ 8 \in Limb
      BY SMT DEF Limb
    <3> HIDE DEF cw, c
    <3>5. /\ cw[1] = 0 /\ cw[2] = 0 /\ cw[3] = 0 /\ cw[4] = 0 /\ cw[5] = 0
          /\ cw[6] = 0 /\ cw[7] = 0 /\ cw[8] = 0 /\ cw[0] = 0
      BY <3>3, <3>4, SMT
    <3>6. PICK y \in Int : y = (t * o) * w BY SMT
    <3>7. cw[9] = y BY ONLY <3>2, <3>6, Zenon
    <3>8. Total(cw) = y BY ONLY <3>5, <3>7, y \in Int, SMT DEF Total
    <3>9. (t * o) * w = t * (w * o) BY SMT
    <3>10. Full = w * o BY ONLY <3>1, <1>12, Zenon DEF Full
    <3>11. NumberOf(c) = Total(cw) BY DEF NumberOf, cw
    <3> QED BY ONLY <3>6, <3>8, <3>9, <3>10, <3>11, Zenon
  <2> HIDE DEF c, final
  <2>5. NumberOf(up) = NumberOf(final) + NumberOf(c)
    <3>1. NumberOf(FeAdd(final, c)) = NumberOf(final) + NumberOf(c)
      BY <1>17, <2>2, NumberAdd
    <3> QED BY ONLY <2>3, <3>1, Zenon
  <2> QED BY ONLY <2>4, <2>5, Zenon
<1> HIDE DEF final
<1>20. PICK u \in Nat, f \in Nat : u = NumberOf(final) /\ f = Full /\ u < f
  BY <1>18, PrimeNat
<1>21. NumberOf(h) + e = u + t * f
  BY ONLY <1>9, <1>19, <1>20, Zenon
<1>22. (u + t * f) % f = u
  <2>1. u + t * f = t * f + u BY SMT
  <2>2. u < f /\ f > 0 BY <1>20
  <2>3. (t * f + u) % f = u
    BY ONLY <2>2, u \in Nat, f \in Nat, t \in Int, ModIs, Zenon
  <2> QED BY ONLY <2>1, <2>3, Zenon
<1> QED BY ONLY <1>1, <1>2, <1>3, <1>8, <1>20, <1>21, <1>22, Zenon

-------------------------------------------------------------------------------
(* fe_tobytes writes the one representative below the prime. *)

\* The ranges of fe_tobytes' precondition.
Small(h) == \A i \in Limb : 10 * h[i] <= 11 * Span(i)
                           /\ -(11 * Span(i)) <= 10 * h[i]

\* The nine lower limbs of a small element are worth at most two of the top
\* limb's units.
LEMMA LowPart ==
  ASSUME NEW h \in Element, Small(h), OddSpan >= 8
  PROVE \E l \in Int :
          /\ NumberOf(h) = h[9] * Worth[9] + l
          /\ l <= 2 * Worth[9] /\ -(2 * Worth[9]) <= l
          /\ Worth[9] >= OddSpan
<1> DEFINE hw == [i \in Limb |-> h[i] * Worth[i]]
<1>1. hw \in Element /\ NumberOf(h) = Total(hw) BY NumberInt DEF NumberOf
<1>2. \A i \in 0..8 :
        /\ 10 * hw[i] <= 11 * Worth[i + 1]
        /\ -(11 * Worth[i + 1]) <= 10 * hw[i]
        /\ 8 * Worth[i] <= Worth[i + 1]
  <2> SUFFICES ASSUME NEW i \in 0..8
               PROVE /\ 10 * hw[i] <= 11 * Worth[i + 1]
                     /\ -(11 * Worth[i + 1]) <= 10 * hw[i]
                     /\ 8 * Worth[i] <= Worth[i + 1]
    OBVIOUS
  <2>1. i \in Limb BY SMT DEF Limb
  <2>2. PICK s \in Nat : s = Span(i) /\ s >= 8
    <3>1. Span(i) \in Nat BY <2>1, SpanNat
    <3>2. Span(i) >= 8 BY WidthAssumption, SMT DEF Span
    <3> QED BY <3>1, <3>2
  <2>3. PICK w \in Nat : w = Worth[i] BY <2>1, WorthNat
  <2>4. PICK x \in Int : x = h[i] BY <2>1 DEF Element
  <2>5. Worth[i + 1] = w * s BY ONLY <2>2, <2>3, WidthAssumption, Zenon
  <2>6. 10 * x <= 11 * s /\ -(11 * s) <= 10 * x
    <3>1. 10 * h[i] <= 11 * Span(i) /\ -(11 * Span(i)) <= 10 * h[i]
      BY <2>1 DEF Small
    <3> QED BY ONLY <2>2, <2>4, <3>1, Zenon
  <2>7. (10 * x) * w <= (11 * s) * w /\ (-(11 * s)) * w <= (10 * x) * w
    <3>1. \A a, b \in Int, c \in Nat : a <= b => a * c <= b * c BY SMT
    <3>2. 10 * x \in Int /\ 11 * s \in Int /\ -(11 * s) \in Int OBVIOUS
    <3> QED BY ONLY <2>6, <3>1, <3>2, w \in Nat, Zenon
  <2>8. PICK y \in Int, z \in Nat : y = x * w /\ z = w * s BY SMT
  <2>9. (10 * x) * w = 10 * (x * w) /\ (11 * s) * w = 11 * (w * s)
        /\ (-(11 * s)) * w = -(11 * (w * s))
    BY SMT
  <2>10. 10 * y <= 11 * z /\ -(11 * z) <= 10 * y
    BY ONLY <2>7, <2>8, <2>9, Zenon
  <2>11. 8 * w <= z
    <3>1. s >= 8 BY <2>2
    <3>2. 8 * w <= w * s BY ONLY <3>1, s \in Nat, w \in Nat, SMT
    <3> QED BY ONLY <2>8, <3>2, Zenon
  <2>12. hw[i] = y BY <2>1, <2>3, <2>4, <2>8
  <2> HIDE DEF hw
  <2> QED BY ONLY <2>3, <2>5, <2>8, <2>10, <2>11, <2>12, Zenon
<1>3. hw[9] = h[9] * Worth[9] BY SMT DEF Limb
<1> HIDE DEF hw
<1>4. /\ 0 \in Limb /\ 1 \in Limb /\ 2 \in Limb /\ 3 \in Limb /\ 4 \in Limb
      /\ 5 \in Limb /\ 6 \in Limb /\ 7 \in Limb /\ 8 \in Limb /\ 9 \in Limb
  BY SMT DEF Limb
<1>5. /\ hw[0] \in Int /\ hw[1] \in Int /\ hw[2] \in Int /\ hw[3] \in Int
      /\ hw[4] \in Int /\ hw[5] \in Int /\ hw[6] \in Int /\ hw[7] \in Int
      /\ hw[8] \in Int /\ hw[9] \in Int
  BY <1>1, <1>4 DEF Element
<1>6. /\ Worth[0] \in Nat /\ Worth[1] \in Nat /\ Worth[2] \in Nat
      /\ Worth[3] \in Nat /\ Worth[4] \in Nat /\ Worth[5] \in Nat
      /\ Worth[6] \in Nat /\ Worth[7] \in Nat /\ Worth[8] \in Nat
      /\ Worth[9] \in Nat
  BY <1>4, WorthNat
<1> DEFINE Fits(i, j) == /\ 10 * hw[i] <= 11 * Worth[j]
                         /\ -(11 * Worth[j]) <= 10 * hw[i]
                         /\ 8 * Worth[i] <= Worth[j]
<1>7. /\ Fits(0, 1) /\ Fits(1, 2) /\ Fits(2, 3) /\ Fits(3, 4) /\ Fits(4, 5)
      /\ Fits(5, 6) /\ Fits(6, 7) /\ Fits(7, 8) /\ Fits(8, 9)
  <2>1. /\ 0 \in 0..8 /\ 1 \in 0..8 /\ 2 \in 0..8 /\ 3 \in 0..8 /\ 4 \in 0..8
        /\ 5 \in 0..8 /\ 6 \in 0..8 /\ 7 \in 0..8 /\ 8 \in 0..8
        /\ 0 + 1 = 1 /\ 1 + 1 = 2 /\ 2 + 1 = 3 /\ 3 + 1 = 4 /\ 4 + 1 = 5
        /\ 5 + 1 = 6 /\ 6 + 1 = 7 /\ 7 + 1 = 8 /\ 8 + 1 = 9
    BY SMT
  <2>2. \A i \in 0..8 : Fits(i, i + 1) BY <1>2
  <2> HIDE DEF Fits
  <2> QED BY ONLY <2>1, <2>2, Zenon
<1> DEFINE l == hw[0] + hw[1] + hw[2] + hw[3] + hw[4] + hw[5] + hw[6] + hw[7]
                  + hw[8]
<1>8. l \in Int /\ Total(hw) = hw[9] + l
  BY ONLY <1>5, SMT DEF Total
<1>9. l <= 2 * Worth[9] /\ -(2 * Worth[9]) <= l
  BY ONLY <1>5, <1>6, <1>7, SMT
<1>10. Worth[9] >= OddSpan
  <2>1. PICK o \in Nat, w \in Nat : o = OddSpan /\ w = Worth[8] /\ w > 0
    BY <1>4, WidthAssumption, WorthNat, WorthPositive
  <2>2. Worth[9] = w * (2 * o)
    <3>1. 8 \in 0..8 /\ 8 + 1 = 9 BY SMT
    <3>2. Span(8) = 2 * o BY <2>1, SMT DEF Span
    <3>3. Worth[8 + 1] = Worth[8] * Span(8) BY <3>1, WidthAssumption
    <3> QED BY ONLY <2>1, <3>1, <3>2, <3>3, Zenon
  <2>3. w * (2 * o) >= o
    <3>1. w > 0 BY <2>1
    <3> QED BY ONLY <3>1, w \in Nat, o \in Nat, SMT
  <2> QED BY ONLY <2>1, <2>2, <2>3, Zenon
<1> HIDE DEF l
<1> QED BY <1>1, <1>3, <1>8, <1>9, <1>10

\* What is known of the numbers of fe_tobytes when it guesses the quotient: N
\* is the value of the limbs, t the top one and w its worth, r the guess.
Guessing(N, t, l, w, o, m, f, p, k, v, r, c) ==
  /\ f = w * o /\ f = p + m /\ 8 * m <= o /\ 8 <= o /\ o <= w
  /\ N = t * w + l /\ l <= 2 * w /\ -(2 * w) <= l
  /\ 10 * t <= 11 * o /\ -(11 * o) <= 10 * t
  /\ N = k * p + v /\ v < p
  /\ 2 * c <= o /\ o <= 2 * c + 1
  /\ r * o <= m * t + c /\ m * t + c + 1 <= r * o + o

\* The claim over fe_tobytes, on numbers: the guess gives the quotient.
LEMMA GuessIsEnough ==
  ASSUME NEW N \in Int, NEW t \in Int, NEW l \in Int,
         NEW w \in Nat, NEW o \in Nat, NEW m \in Nat, NEW f \in Nat,
         NEW p \in Nat, NEW k \in Int, NEW v \in Nat, NEW r \in Int,
         NEW c \in Nat, Guessing(N, t, l, w, o, m, f, p, k, v, r, c)
  PROVE  (r + N) \div f = k
<1> SUFFICES
      ASSUME f = w * o, f = p + m, 8 * m <= o, 8 <= o, o <= w,
             N = t * w + l, l <= 2 * w, -(2 * w) <= l,
             10 * t <= 11 * o, -(11 * o) <= 10 * t,
             N = k * p + v, v < p,
             2 * c <= o, o <= 2 * c + 1,
             r * o <= m * t + c, m * t + c + 1 <= r * o + o
      PROVE  (r + N) \div f = k
  BY Zenon DEF Guessing
<1> DEFINE M == m * f
           FR == f * r
           C == w * c
           D == m * v
           E == m * l
           G == m * m
           J == f * v
           FF == f * f
           T == t * w
           B == m * T
<1>1. /\ M \in Nat /\ FR \in Int /\ C \in Nat /\ D \in Nat /\ E \in Int
      /\ G \in Nat /\ J \in Nat /\ FF \in Nat /\ T \in Int /\ B \in Int
  <2>1. \A a, b \in Nat : a * b \in Nat BY SMT
  <2>2. \A a, b \in Int : a * b \in Int BY SMT
  <2>3. m \in Int /\ f \in Int /\ w \in Int /\ t * w \in Int BY SMT
  <2> QED BY <2>1, <2>2, <2>3
<1>2. 8 * w <= f
  BY ONLY f = w * o, 8 <= o, w \in Nat, o \in Nat, SMT
<1>3. 10 * T <= 11 * f /\ -(11 * f) <= 10 * T
  <2>1. \A a, b \in Int, n \in Nat : a <= b => a * n <= b * n BY SMT
  <2>2. 10 * t \in Int /\ 11 * o \in Int /\ -(11 * o) \in Int OBVIOUS
  <2>3. (10 * t) * w <= (11 * o) * w /\ (-(11 * o)) * w <= (10 * t) * w
    BY <2>1, <2>2
  <2>4. (10 * t) * w = 10 * T /\ (11 * o) * w = 11 * (w * o)
        /\ (-(11 * o)) * w = -(11 * (w * o))
    BY SMT
  <2> QED BY ONLY <2>3, <2>4, f = w * o, Zenon
<1>4. 8 * m <= f
  <2>1. o <= w * o BY ONLY 8 <= o, o <= w, o \in Nat, w \in Nat, SMT
  <2>2. o <= f BY ONLY <2>1, f = w * o, Zenon
  <2> QED BY <2>2
<1>5. k \in {-2, -1, 0, 1}
  <2>1. N = T + l OBVIOUS
  <2> HIDE DEF T
  <2>2. N < 2 * p /\ -(2 * p) < N
    BY ONLY <1>1, <1>2, <1>3, <1>4, <2>1, f = p + m, l <= 2 * w,
      -(2 * w) <= l, N \in Int, l \in Int, w \in Nat, p \in Nat, m \in Nat,
      f \in Nat, 8 <= o, o <= w, o \in Nat, SMT
  <2>3. ~(k >= 2)
    <3>1. k >= 2 => k * p >= 2 * p BY ONLY k \in Int, p \in Nat, SMT
    <3>2. PICK x \in Int : x = k * p BY SMT
    <3>3. N = x + v BY ONLY <3>2, N = k * p + v, Zenon
    <3>4. k >= 2 => x >= 2 * p BY ONLY <3>1, <3>2, Zenon
    <3> QED BY ONLY <2>2, <3>3, <3>4, N \in Int, x \in Int, v \in Nat,
          p \in Nat, k \in Int, SMT
  <2>4. ~(k <= -3)
    <3>1. k <= -3 => k * p <= (-3) * p BY ONLY k \in Int, p \in Nat, SMT
    <3>2. PICK x \in Int : x = k * p BY SMT
    <3>3. N = x + v BY ONLY <3>2, N = k * p + v, Zenon
    <3>4. k <= -3 => x <= (-3) * p BY ONLY <3>1, <3>2, Zenon
    <3> QED BY ONLY <2>2, <3>3, <3>4, v < p, N \in Int, x \in Int, v \in Nat,
          p \in Nat, k \in Int, SMT
  <2> QED BY <2>3, <2>4
<1>6. FR <= B + C /\ B + C + w <= FR + f
  <2>1. \A a, b \in Int, n \in Nat : a <= b => n * a <= n * b BY SMT
  <2>2. r * o \in Int /\ m * t + c \in Int /\ m * t + c + 1 \in Int
        /\ r * o + o \in Int
    BY SMT
  <2>3. w * (r * o) <= w * (m * t + c)
        /\ w * (m * t + c + 1) <= w * (r * o + o)
    BY ONLY <2>1, <2>2, w \in Nat, r * o <= m * t + c,
      m * t + c + 1 <= r * o + o, Zenon
  <2>4. /\ w * (r * o) = (w * o) * r
        /\ w * (m * t + c) = m * (t * w) + w * c
        /\ w * (m * t + c + 1) = m * (t * w) + w * c + w
        /\ w * (r * o + o) = (w * o) * r + w * o
    BY SMT
  <2> QED BY ONLY <2>3, <2>4, f = w * o, Zenon
<1>7. B = m * (k * p + v) - E
  <2>1. m * (T + l) = m * T + m * l BY <1>1, Distribute
  <2>2. T + l = k * p + v OBVIOUS
  <2>3. PICK x \in Int : x = m * (T + l) BY <1>1, SMT
  <2> HIDE DEF T
  <2>4. x = B + E BY ONLY <2>1, <2>3, Zenon
  <2>5. x = m * (k * p + v) BY ONLY <2>2, <2>3, Zenon
  <2> HIDE DEF B, E
  <2>6. B = x - E BY ONLY <1>1, <2>4, x \in Int, SMT
  <2> QED BY ONLY <2>5, <2>6, Zenon
<1>8. m * (k * p + v) = k * M - k * G + D
  <2>1. p = f - m OBVIOUS
  <2>2. m * (k * (f - m) + v) = k * (m * f) - k * (m * m) + m * v BY SMT
  <2> QED BY ONLY <2>1, <2>2, Zenon
<1>9. 4 * E <= f /\ -f <= 4 * E
  <2>1. \A a, b \in Int, n \in Nat : a <= b => n * a <= n * b BY SMT
  <2>2. 2 * w \in Int /\ -(2 * w) \in Int OBVIOUS
  <2>3. m * l <= m * (2 * w) /\ m * (-(2 * w)) <= m * l
    BY ONLY <2>1, <2>2, l \in Int, m \in Nat, l <= 2 * w, -(2 * w) <= l, Zenon
  <2>4. PICK x \in Nat : x = m * w BY SMT
  <2>5. m * (2 * w) = 2 * (m * w) /\ m * (-(2 * w)) = -(2 * (m * w)) BY SMT
  <2>6. E <= 2 * x /\ -(2 * x) <= E BY ONLY <2>3, <2>4, <2>5, Zenon
  <2>7. 8 * x <= f
    <3>1. w * (8 * m) <= w * o
      BY ONLY 8 * m <= o, w \in Nat, m \in Nat, o \in Nat, SMT
    <3>2. w * (8 * m) = 8 * (m * w) BY SMT
    <3> QED BY ONLY <2>4, <3>1, <3>2, f = w * o, Zenon
  <2> HIDE DEF E
  <2> QED BY ONLY <1>1, <2>6, <2>7, x \in Nat, f \in Nat, SMT
<1>10. 64 * G <= f
  <2>1. (8 * m) * (8 * m) <= o * o
    BY ONLY 8 * m <= o, m \in Nat, o \in Nat, SMT
  <2>2. o * o <= w * o BY ONLY o <= w, o \in Nat, w \in Nat, SMT
  <2>3. (8 * m) * (8 * m) = 64 * (m * m) BY SMT
  <2>4. PICK x \in Nat, y \in Nat : x = o * o /\ y = m * m BY SMT
  <2>5. 64 * y <= x /\ x <= f
    BY ONLY <2>1, <2>2, <2>3, <2>4, f = w * o, Zenon
  <2>6. 64 * y <= f BY <2>5
  <2> QED BY ONLY <2>4, <2>6, Zenon
<1>11. 2 * C <= f /\ f - w <= 2 * C
  <2>1. w * (2 * c) <= w * o
    BY ONLY 2 * c <= o, w \in Nat, c \in Nat, o \in Nat, SMT
  <2>2. w * o <= w * (2 * c + 1)
    BY ONLY o <= 2 * c + 1, w \in Nat, c \in Nat, o \in Nat, SMT
  <2>3. w * (2 * c) = 2 * (w * c) /\ w * (2 * c + 1) = 2 * (w * c) + w
    BY SMT
  <2>4. 2 * C <= f /\ f <= 2 * C + w
    BY ONLY <2>1, <2>2, <2>3, f = w * o, Zenon
  <2> HIDE DEF C
  <2> QED BY ONLY <1>1, <2>4, f \in Nat, w \in Nat, SMT
<1>12. J + D <= FF - f
  <2>1. v + 1 + m <= f OBVIOUS
  <2>2. (f + m) * (v + 1 + m) <= (f + m) * f
    BY ONLY <2>1, f \in Nat, m \in Nat, v \in Nat, SMT
  <2>3. (f + m) * (v + 1 + m)
          = f * v + m * v + f + m * f + m + m * m
    BY SMT
  <2>4. (f + m) * f = f * f + m * f BY SMT
  <2>5. J + D + f + M + m + G <= FF + M BY ONLY <2>2, <2>3, <2>4, Zenon
  <2> HIDE DEF J, D, M, G, FF
  <2> QED BY ONLY <1>1, <2>5, f \in Nat, m \in Nat, SMT
<1> DEFINE z == v + r - k * m
<1>13. f * z = J + FR - k * M
  <2>1. f * (v + r - k * m) = f * v + f * r - k * (m * f) BY SMT
  <2> QED BY ONLY <2>1, Zenon
<1>14. z \in Int BY SMT
<1>15. -f < J + FR - k * M /\ J + FR - k * M < FF
  <2>1. B = (k * M - k * G + D) - E BY ONLY <1>7, <1>8, Zenon
  <2>2. f > 0
    <3>1. w >= 8 BY SMT
    <3> QED BY <1>2, <3>1
  <2> HIDE DEF M, FR, C, D, E, G, J, FF, T, B
  <2>3. CASE k = -2
    BY ONLY <1>1, <1>2, <1>6, <1>9, <1>10, <1>11, <1>12, <2>1, <2>2, <2>3,
      f \in Nat, w \in Nat, SMT
  <2>4. CASE k = -1
    BY ONLY <1>1, <1>2, <1>6, <1>9, <1>10, <1>11, <1>12, <2>1, <2>2, <2>4,
      f \in Nat, w \in Nat, SMT
  <2>5. CASE k = 0
    BY ONLY <1>1, <1>2, <1>6, <1>9, <1>10, <1>11, <1>12, <2>1, <2>2, <2>5,
      f \in Nat, w \in Nat, SMT
  <2>6. CASE k = 1
    BY ONLY <1>1, <1>2, <1>6, <1>9, <1>10, <1>11, <1>12, <2>1, <2>2, <2>6,
      f \in Nat, w \in Nat, SMT
  <2> QED BY ONLY <1>5, <2>3, <2>4, <2>5, <2>6, Zenon
<1>16. -f < f * z /\ f * z < FF BY ONLY <1>13, <1>15, Zenon
<1> HIDE DEF z
<1>17. 0 <= z /\ z < f
  <2>1. z <= -1 => f * z <= -f BY ONLY z \in Int, f \in Nat, <1>14, SMT
  <2>2. z >= f => f * z >= f * f BY ONLY <1>14, f \in Nat, SMT
  <2>3. PICK x \in Int : x = f * z BY <1>14, SMT
  <2>4. z <= -1 => x <= -f BY ONLY <2>1, <2>3, Zenon
  <2>5. z >= f => x >= FF BY ONLY <2>2, <2>3, Zenon
  <2>6. -f < x /\ x < FF BY ONLY <1>16, <2>3, Zenon
  <2> HIDE DEF FF
  <2> QED BY ONLY <1>1, <1>14, <2>4, <2>5, <2>6, x \in Int, f \in Nat, SMT
<1>18. r + N = k * f + z
  <2>1. p = f - m OBVIOUS
  <2>2. r + (k * (f - m) + v) = k * f + (v + r - k * m) BY SMT
  <2>3. N = k * (f - m) + v BY ONLY <2>1, N = k * p + v, Zenon
  <2> QED BY ONLY <2>2, <2>3, Zenon DEF z
<1>19. PICK u \in Nat : u = z /\ u < f BY <1>14, <1>17
<1>20. (k * f + u) \div f = k
  <2>1. u < f /\ f > 0 BY <1>19
  <2> QED BY ONLY <2>1, u \in Nat, f \in Nat, k \in Int, ModIs, Zenon
<1> QED BY ONLY <1>18, <1>19, <1>20, Zenon

\* The claim in the comment over fe_tobytes (fe.c:1362-1383): for limbs within
\* the precondition stated there, the guess made from the top limb alone,
\* carried through the ten limbs, is the quotient by the prime, so that the
\* 32 bytes are those of the one representative below the prime. The
\* code's constants, a wrap of 19 and spans of 2^25, satisfy both inequalities.
THEOREM EncodesTheRepresentative ==
  ASSUME NEW h \in Element, Small(h), 8 * Wrap <= OddSpan, 8 <= OddSpan
  PROVE  FeToBytes(h) = ValueOf(h)
<1>1. PICK o \in Nat : o = OddSpan /\ 8 <= o BY WidthAssumption
<1>2. PICK m \in Nat : m = Wrap BY PrimeNat
<1>3. PICK p \in Nat : p = Prime /\ p > 0 BY PrimeNat
<1>4. PICK w \in Nat : w = Worth[9]
  <2>1. 9 \in Limb BY SMT DEF Limb
  <2> QED BY <2>1, WorthNat
<1>5. PICK t \in Int : t = h[9]
  <2>1. 9 \in Limb BY SMT DEF Limb
  <2> QED BY <2>1 DEF Element
<1>6. PICK f \in Nat : f = Full BY PrimeNat
<1>7. f = w * o /\ f = p + m
  BY ONLY <1>1, <1>2, <1>3, <1>4, <1>6, PrimeNat, Zenon DEF Full
<1>8. PICK N \in Int : N = NumberOf(h) BY NumberInt
<1>9. PICK l \in Int : /\ N = t * w + l /\ l <= 2 * w /\ -(2 * w) <= l
                       /\ o <= w
  <2>1. OddSpan >= 8 BY <1>1
  <2>2. \E l \in Int :
          /\ NumberOf(h) = h[9] * Worth[9] + l
          /\ l <= 2 * Worth[9] /\ -(2 * Worth[9]) <= l
          /\ Worth[9] >= OddSpan
    BY <2>1, LowPart
  <2>3. \E l \in Int :
          /\ N = t * w + l /\ l <= 2 * w /\ -(2 * w) <= l /\ w >= o
    BY ONLY <1>1, <1>4, <1>5, <1>8, <2>2, Zenon
  <2> QED BY <2>3
<1>10. 10 * t <= 11 * o /\ -(11 * o) <= 10 * t
  <2>1. 9 \in Limb BY SMT DEF Limb
  <2>2. Span(9) = o BY <1>1, SMT DEF Span
  <2>3. 10 * h[9] <= 11 * Span(9) /\ -(11 * Span(9)) <= 10 * h[9]
    BY <2>1 DEF Small
  <2> QED BY ONLY <1>5, <2>2, <2>3, Zenon
<1>11. PICK k \in Int : k = N \div p BY <1>3, Division
<1>12. PICK v \in Nat : v = N % p BY <1>3, Division
<1>13. N = k * p + v /\ v < p
  <2>1. p > 0 BY <1>3
  <2>2. N = (N \div p) * p + (N % p) /\ N % p < p
    BY ONLY <2>1, N \in Int, p \in Nat, Division, Zenon
  <2> QED BY ONLY <1>11, <1>12, <2>2, Zenon
<1>14. PICK c \in Nat : c = o \div 2 /\ 2 * c <= o /\ o <= 2 * c + 1 BY SMT
<1>15. PICK x \in Int : x = m * t + c BY SMT
<1>16. PICK r \in Int : r = x \div o BY <1>1, Division
<1>17. r * o <= x /\ x + 1 <= r * o + o
  <2>1. o > 0 BY <1>1
  <2>2. PICK y \in Nat : y = x % o BY <2>1, Division
  <2>3. x = (x \div o) * o + (x % o) /\ x % o < o
    BY ONLY <2>1, x \in Int, o \in Nat, Division, Zenon
  <2>4. x = r * o + y /\ y < o BY ONLY <1>16, <2>2, <2>3, Zenon
  <2>5. PICK n \in Int : n = r * o BY SMT
  <2>6. x = n + y BY ONLY <2>4, <2>5, Zenon
  <2>7. n <= x /\ x + 1 <= n + o
    BY ONLY <2>4, <2>6, n \in Int, y \in Nat, o \in Nat, x \in Int, SMT
  <2> QED BY ONLY <2>5, <2>7, Zenon
<1>18. Guess(h) = r
  BY ONLY <1>1, <1>2, <1>5, <1>14, <1>15, <1>16, Zenon DEF Guess
<1>19. (r + N) \div f = k
  <2>1. 8 * m <= o /\ 8 <= o BY <1>1, <1>2
  <2>2. l <= 2 * w /\ -(2 * w) <= l /\ o <= w /\ N = t * w + l BY <1>9
  <2>3. 2 * c <= o /\ o <= 2 * c + 1 BY <1>14
  <2>4. r * o <= m * t + c /\ m * t + c + 1 <= r * o + o
    BY ONLY <1>15, <1>17, Zenon
  <2>5. Guessing(N, t, l, w, o, m, f, p, k, v, r, c)
    BY ONLY <1>7, <1>10, <1>13, <2>1, <2>2, <2>3, <2>4, Zenon DEF Guessing
  <2> QED
    BY ONLY <2>5, GuessIsEnough, N \in Int, t \in Int, l \in Int, w \in Nat,
      o \in Nat, m \in Nat, f \in Nat, p \in Nat, k \in Int, v \in Nat,
      r \in Int, c \in Nat, Zenon
<1>20. Quotient(h) = k
  <2>1. Guess(h) \in Int BY <1>18
  <2>2. Quotient(h) = (Guess(h) + NumberOf(h)) \div Full
    BY <2>1, QuotientIs
  <2> QED BY ONLY <1>6, <1>8, <1>18, <1>19, <2>2, Zenon
<1>21. FeToBytes(h) = (N + m * k) % f
  <2>1. Quotient(h) \in Int BY <1>20
  <2>2. FeToBytes(h) = (NumberOf(h) + Wrap * Quotient(h)) % Full
    BY <2>1, FeToBytesIs
  <2> QED BY ONLY <1>2, <1>6, <1>8, <1>20, <2>2, Zenon
<1>22. N + m * k = k * f + v
  <2>1. (k * p + v) + m * k = k * (p + m) + v BY SMT
  <2> QED BY ONLY <1>7, <1>13, <2>1, Zenon
<1>23. (k * f + v) % f = v
  <2>1. v < f /\ f > 0 BY <1>3, <1>7, <1>13
  <2> QED BY ONLY <2>1, v \in Nat, f \in Nat, k \in Int, ModIs, Zenon
<1> QED BY ONLY <1>3, <1>8, <1>12, <1>21, <1>22, <1>23, Zenon DEF ValueOf

-------------------------------------------------------------------------------
(* The chains of fe_invert and fe_pow22523 *)

\* The registers' names.
Registers == {"z", "t0", "t1", "t2", "t3", "out"}

\* Exponents that share no bit are added without a carry.
LEMMA AddApart ==
  ASSUME NEW a, NEW b, a \intersect b = {}
  PROVE  AddBits(a, b) = a \union b
<1>1. \A k : ~CarriesInto(a, b, k)
  BY DEF CarriesInto
<1> QED BY <1>1 DEF AddBits

\* fe_invert when the power has fifty bits.
LEMMA InvertTo50Is ==
  /\ InvertTo50 \in [Registers -> SUBSET Int]
  /\ InvertTo50["t0"] = {0, 1, 3} /\ InvertTo50["t1"] = 0..49
<1> DEFINE r1 == Square(Powers, "t0", "z", 1)
           r2 == Square(r1, "t1", "t0", 2)
           r3 == Multiply(r2, "t1", "z", "t1")
           r4 == Multiply(r3, "t0", "t0", "t1")
           r5 == Square(r4, "t2", "t0", 1)
           r6 == Multiply(r5, "t1", "t1", "t2")
           r7 == Square(r6, "t2", "t1", 5)
           r8 == Multiply(r7, "t1", "t2", "t1")
           r9 == Square(r8, "t2", "t1", 10)
           r10 == Multiply(r9, "t2", "t2", "t1")
           r11 == Square(r10, "t3", "t2", 20)
           r12 == Multiply(r11, "t2", "t3", "t2")
           r13 == Square(r12, "t2", "t2", 10)
           r14 == Multiply(r13, "t1", "t2", "t1")
<1>0. InvertTo50 = r14
  BY Zenon DEF InvertTo50
<1> HIDE DEF r1, r2, r3, r4, r5, r6, r7, r8, r9, r10,
            r11, r12, r13, r14
<1>i. Powers \in [Registers -> SUBSET Int] /\ Powers["z"] = {0}
  BY DEF Powers, Registers
<1>1. /\ r1 \in [Registers -> SUBSET Int]
      /\ r1["t0"] = 1..1
      /\ r1["z"] = {0}
  <2>1. MovedUp({0}, 1) = 1..1
    BY DEF MovedUp
  <2> QED BY ONLY <1>i, <2>1 DEF r1, Square, Registers
<1>2. /\ r2 \in [Registers -> SUBSET Int]
      /\ r2["t0"] = 1..1
      /\ r2["t1"] = 3..3
      /\ r2["z"] = {0}
  <2>1. MovedUp(1..1, 2) = 3..3
    BY DEF MovedUp
  <2> QED BY ONLY <1>1, <2>1 DEF r2, Square, Registers
<1>3. /\ r3 \in [Registers -> SUBSET Int]
      /\ r3["t0"] = 1..1
      /\ r3["t1"] = {0, 3}
  <2>1. AddBits({0}, 3..3) = {0, 3}
    <3>1. ({0}) \intersect (3..3) = {} OBVIOUS
    <3>2. ({0}) \union (3..3) = {0, 3} OBVIOUS
    <3> QED BY <3>1, <3>2, AddApart
  <2>2. AddBits(r2["z"], r2["t1"]) = {0, 3}
    BY ONLY <1>2, <2>1, Zenon
  <2>3. r3 = [r2 EXCEPT !["t1"] = {0, 3}]
    BY ONLY <2>2, SMT DEF r3, Multiply
  <2> QED BY ONLY <1>2, <2>3 DEF Registers
<1>4. /\ r4 \in [Registers -> SUBSET Int]
      /\ r4["t0"] = {0, 1, 3}
      /\ r4["t1"] = {0, 3}
  <2>1. AddBits(1..1, {0, 3}) = {0, 1, 3}
    <3>1. (1..1) \intersect ({0, 3}) = {} OBVIOUS
    <3>2. (1..1) \union ({0, 3}) = {0, 1, 3} OBVIOUS
    <3> QED BY <3>1, <3>2, AddApart
  <2>2. AddBits(r3["t0"], r3["t1"]) = {0, 1, 3}
    BY ONLY <1>3, <2>1, Zenon
  <2>3. r4 = [r3 EXCEPT !["t0"] = {0, 1, 3}]
    BY ONLY <2>2, SMT DEF r4, Multiply
  <2> QED BY ONLY <1>3, <2>3 DEF Registers
<1>5. /\ r5 \in [Registers -> SUBSET Int]
      /\ r5["t0"] = {0, 1, 3}
      /\ r5["t1"] = {0, 3}
      /\ r5["t2"] = {1, 2, 4}
  <2>1. MovedUp({0, 1, 3}, 1) = {1, 2, 4}
    BY DEF MovedUp
  <2> QED BY ONLY <1>4, <2>1 DEF r5, Square, Registers
<1>6. /\ r6 \in [Registers -> SUBSET Int]
      /\ r6["t0"] = {0, 1, 3}
      /\ r6["t1"] = 0..4
  <2>1. AddBits({0, 3}, {1, 2, 4}) = 0..4
    <3>1. ({0, 3}) \intersect ({1, 2, 4}) = {} OBVIOUS
    <3>2. ({0, 3}) \union ({1, 2, 4}) = 0..4 OBVIOUS
    <3> QED BY <3>1, <3>2, AddApart
  <2>2. AddBits(r5["t1"], r5["t2"]) = 0..4
    BY ONLY <1>5, <2>1, Zenon
  <2>3. r6 = [r5 EXCEPT !["t1"] = 0..4]
    BY ONLY <2>2, SMT DEF r6, Multiply
  <2> QED BY ONLY <1>5, <2>3 DEF Registers
<1>7. /\ r7 \in [Registers -> SUBSET Int]
      /\ r7["t0"] = {0, 1, 3}
      /\ r7["t1"] = 0..4
      /\ r7["t2"] = 5..9
  <2>1. MovedUp(0..4, 5) = 5..9
    BY DEF MovedUp
  <2> QED BY ONLY <1>6, <2>1 DEF r7, Square, Registers
<1>8. /\ r8 \in [Registers -> SUBSET Int]
      /\ r8["t0"] = {0, 1, 3}
      /\ r8["t1"] = 0..9
  <2>1. AddBits(5..9, 0..4) = 0..9
    <3>1. (5..9) \intersect (0..4) = {} OBVIOUS
    <3>2. (5..9) \union (0..4) = 0..9 OBVIOUS
    <3> QED BY <3>1, <3>2, AddApart
  <2>2. AddBits(r7["t2"], r7["t1"]) = 0..9
    BY ONLY <1>7, <2>1, Zenon
  <2>3. r8 = [r7 EXCEPT !["t1"] = 0..9]
    BY ONLY <2>2, SMT DEF r8, Multiply
  <2> QED BY ONLY <1>7, <2>3 DEF Registers
<1>9. /\ r9 \in [Registers -> SUBSET Int]
      /\ r9["t0"] = {0, 1, 3}
      /\ r9["t1"] = 0..9
      /\ r9["t2"] = 10..19
  <2>1. MovedUp(0..9, 10) = 10..19
    BY DEF MovedUp
  <2> QED BY ONLY <1>8, <2>1 DEF r9, Square, Registers
<1>10. /\ r10 \in [Registers -> SUBSET Int]
      /\ r10["t0"] = {0, 1, 3}
      /\ r10["t1"] = 0..9
      /\ r10["t2"] = 0..19
  <2>1. AddBits(10..19, 0..9) = 0..19
    <3>1. (10..19) \intersect (0..9) = {} OBVIOUS
    <3>2. (10..19) \union (0..9) = 0..19 OBVIOUS
    <3> QED BY <3>1, <3>2, AddApart
  <2>2. AddBits(r9["t2"], r9["t1"]) = 0..19
    BY ONLY <1>9, <2>1, Zenon
  <2>3. r10 = [r9 EXCEPT !["t2"] = 0..19]
    BY ONLY <2>2, SMT DEF r10, Multiply
  <2> QED BY ONLY <1>9, <2>3 DEF Registers
<1>11. /\ r11 \in [Registers -> SUBSET Int]
      /\ r11["t0"] = {0, 1, 3}
      /\ r11["t1"] = 0..9
      /\ r11["t2"] = 0..19
      /\ r11["t3"] = 20..39
  <2>1. MovedUp(0..19, 20) = 20..39
    BY DEF MovedUp
  <2> QED BY ONLY <1>10, <2>1 DEF r11, Square, Registers
<1>12. /\ r12 \in [Registers -> SUBSET Int]
      /\ r12["t0"] = {0, 1, 3}
      /\ r12["t1"] = 0..9
      /\ r12["t2"] = 0..39
  <2>1. AddBits(20..39, 0..19) = 0..39
    <3>1. (20..39) \intersect (0..19) = {} OBVIOUS
    <3>2. (20..39) \union (0..19) = 0..39 OBVIOUS
    <3> QED BY <3>1, <3>2, AddApart
  <2>2. AddBits(r11["t3"], r11["t2"]) = 0..39
    BY ONLY <1>11, <2>1, Zenon
  <2>3. r12 = [r11 EXCEPT !["t2"] = 0..39]
    BY ONLY <2>2, SMT DEF r12, Multiply
  <2> QED BY ONLY <1>11, <2>3 DEF Registers
<1>13. /\ r13 \in [Registers -> SUBSET Int]
      /\ r13["t0"] = {0, 1, 3}
      /\ r13["t1"] = 0..9
      /\ r13["t2"] = 10..49
  <2>1. MovedUp(0..39, 10) = 10..49
    BY DEF MovedUp
  <2> QED BY ONLY <1>12, <2>1 DEF r13, Square, Registers
<1>14. /\ r14 \in [Registers -> SUBSET Int]
      /\ r14["t0"] = {0, 1, 3}
      /\ r14["t1"] = 0..49
  <2>1. AddBits(10..49, 0..9) = 0..49
    <3>1. (10..49) \intersect (0..9) = {} OBVIOUS
    <3>2. (10..49) \union (0..9) = 0..49 OBVIOUS
    <3> QED BY <3>1, <3>2, AddApart
  <2>2. AddBits(r13["t2"], r13["t1"]) = 0..49
    BY ONLY <1>13, <2>1, Zenon
  <2>3. r14 = [r13 EXCEPT !["t1"] = 0..49]
    BY ONLY <2>2, SMT DEF r14, Multiply
  <2> QED BY ONLY <1>13, <2>3 DEF Registers
<1> QED BY ONLY <1>0, <1>14, Zenon

\* fe_invert ends with the bits of 2^255 - 21.
LEMMA InvertRaises == InvertChain = (0..254) \ {2, 4}
<1> DEFINE r15 == Square(InvertTo50, "t2", "t1", 50)
           r16 == Multiply(r15, "t2", "t2", "t1")
           r17 == Square(r16, "t3", "t2", 100)
           r18 == Multiply(r17, "t2", "t3", "t2")
           r19 == Square(r18, "t2", "t2", 50)
           r20 == Multiply(r19, "t1", "t2", "t1")
           r21 == Square(r20, "t1", "t1", 5)
           r22 == Multiply(r21, "out", "t1", "t0")
<1>0. InvertChain = r22["out"]
  BY Zenon DEF InvertChain
<1> HIDE DEF r15, r16, r17, r18, r19, r20, r21, r22
<1>15. /\ r15 \in [Registers -> SUBSET Int]
      /\ r15["t0"] = {0, 1, 3}
      /\ r15["t1"] = 0..49
      /\ r15["t2"] = 50..99
  <2>1. MovedUp(0..49, 50) = 50..99
    BY DEF MovedUp
  <2> QED BY ONLY InvertTo50Is, <2>1 DEF r15, Square, Registers
<1>16. /\ r16 \in [Registers -> SUBSET Int]
      /\ r16["t0"] = {0, 1, 3}
      /\ r16["t1"] = 0..49
      /\ r16["t2"] = 0..99
  <2>1. AddBits(50..99, 0..49) = 0..99
    <3>1. (50..99) \intersect (0..49) = {} OBVIOUS
    <3>2. (50..99) \union (0..49) = 0..99 OBVIOUS
    <3> QED BY <3>1, <3>2, AddApart
  <2>2. AddBits(r15["t2"], r15["t1"]) = 0..99
    BY ONLY <1>15, <2>1, Zenon
  <2>3. r16 = [r15 EXCEPT !["t2"] = 0..99]
    BY ONLY <2>2, SMT DEF r16, Multiply
  <2> QED BY ONLY <1>15, <2>3 DEF Registers
<1>17. /\ r17 \in [Registers -> SUBSET Int]
      /\ r17["t0"] = {0, 1, 3}
      /\ r17["t1"] = 0..49
      /\ r17["t2"] = 0..99
      /\ r17["t3"] = 100..199
  <2>1. MovedUp(0..99, 100) = 100..199
    BY DEF MovedUp
  <2> QED BY ONLY <1>16, <2>1 DEF r17, Square, Registers
<1>18. /\ r18 \in [Registers -> SUBSET Int]
      /\ r18["t0"] = {0, 1, 3}
      /\ r18["t1"] = 0..49
      /\ r18["t2"] = 0..199
  <2>1. AddBits(100..199, 0..99) = 0..199
    <3>1. (100..199) \intersect (0..99) = {} OBVIOUS
    <3>2. (100..199) \union (0..99) = 0..199 OBVIOUS
    <3> QED BY <3>1, <3>2, AddApart
  <2>2. AddBits(r17["t3"], r17["t2"]) = 0..199
    BY ONLY <1>17, <2>1, Zenon
  <2>3. r18 = [r17 EXCEPT !["t2"] = 0..199]
    BY ONLY <2>2, SMT DEF r18, Multiply
  <2> QED BY ONLY <1>17, <2>3 DEF Registers
<1>19. /\ r19 \in [Registers -> SUBSET Int]
      /\ r19["t0"] = {0, 1, 3}
      /\ r19["t1"] = 0..49
      /\ r19["t2"] = 50..249
  <2>1. MovedUp(0..199, 50) = 50..249
    BY DEF MovedUp
  <2> QED BY ONLY <1>18, <2>1 DEF r19, Square, Registers
<1>20. /\ r20 \in [Registers -> SUBSET Int]
      /\ r20["t0"] = {0, 1, 3}
      /\ r20["t1"] = 0..249
  <2>1. AddBits(50..249, 0..49) = 0..249
    <3>1. (50..249) \intersect (0..49) = {} OBVIOUS
    <3>2. (50..249) \union (0..49) = 0..249 OBVIOUS
    <3> QED BY <3>1, <3>2, AddApart
  <2>2. AddBits(r19["t2"], r19["t1"]) = 0..249
    BY ONLY <1>19, <2>1, Zenon
  <2>3. r20 = [r19 EXCEPT !["t1"] = 0..249]
    BY ONLY <2>2, SMT DEF r20, Multiply
  <2> QED BY ONLY <1>19, <2>3 DEF Registers
<1>21. /\ r21 \in [Registers -> SUBSET Int]
      /\ r21["t0"] = {0, 1, 3}
      /\ r21["t1"] = 5..254
  <2>1. MovedUp(0..249, 5) = 5..254
    BY DEF MovedUp
  <2> QED BY ONLY <1>20, <2>1 DEF r21, Square, Registers
<1>22. /\ r22 \in [Registers -> SUBSET Int]
      /\ r22["out"] = (0..254) \ {2, 4}
  <2>1. AddBits(5..254, {0, 1, 3}) = (0..254) \ {2, 4}
    <3>1. (5..254) \intersect ({0, 1, 3}) = {} OBVIOUS
    <3>2. (5..254) \union ({0, 1, 3}) = (0..254) \ {2, 4} OBVIOUS
    <3> QED BY <3>1, <3>2, AddApart
  <2>2. AddBits(r21["t1"], r21["t0"]) = (0..254) \ {2, 4}
    BY ONLY <1>21, <2>1, Zenon
  <2>3. r22 = [r21 EXCEPT !["out"] = (0..254) \ {2, 4}]
    BY ONLY <2>2, SMT DEF r22, Multiply
  <2> QED BY ONLY <1>21, <2>3 DEF Registers
<1> QED BY ONLY <1>0, <1>22, Zenon

\* fe_pow22523 when the power has fifty bits.
LEMMA Pow22523To50Is ==
  /\ Pow22523To50 \in [Registers -> SUBSET Int]
  /\ Pow22523To50["t0"] = 0..49 /\ Pow22523To50["z"] = {0}
<1> DEFINE r1 == Square(Powers, "t0", "z", 1)
           r2 == Square(r1, "t1", "t0", 2)
           r3 == Multiply(r2, "t1", "z", "t1")
           r4 == Multiply(r3, "t0", "t0", "t1")
           r5 == Square(r4, "t0", "t0", 1)
           r6 == Multiply(r5, "t0", "t1", "t0")
           r7 == Square(r6, "t1", "t0", 5)
           r8 == Multiply(r7, "t0", "t1", "t0")
           r9 == Square(r8, "t1", "t0", 10)
           r10 == Multiply(r9, "t1", "t1", "t0")
           r11 == Square(r10, "t2", "t1", 20)
           r12 == Multiply(r11, "t1", "t2", "t1")
           r13 == Square(r12, "t1", "t1", 10)
           r14 == Multiply(r13, "t0", "t1", "t0")
<1>0. Pow22523To50 = r14
  BY Zenon DEF Pow22523To50
<1> HIDE DEF r1, r2, r3, r4, r5, r6, r7, r8, r9, r10,
            r11, r12, r13, r14
<1>i. Powers \in [Registers -> SUBSET Int] /\ Powers["z"] = {0}
  BY DEF Powers, Registers
<1>1. /\ r1 \in [Registers -> SUBSET Int]
      /\ r1["t0"] = 1..1
      /\ r1["z"] = {0}
  <2>1. MovedUp({0}, 1) = 1..1
    BY DEF MovedUp
  <2> QED BY ONLY <1>i, <2>1 DEF r1, Square, Registers
<1>2. /\ r2 \in [Registers -> SUBSET Int]
      /\ r2["t0"] = 1..1
      /\ r2["t1"] = 3..3
      /\ r2["z"] = {0}
  <2>1. MovedUp(1..1, 2) = 3..3
    BY DEF MovedUp
  <2> QED BY ONLY <1>1, <2>1 DEF r2, Square, Registers
<1>3. /\ r3 \in [Registers -> SUBSET Int]
      /\ r3["t0"] = 1..1
      /\ r3["t1"] = {0, 3}
      /\ r3["z"] = {0}
  <2>1. AddBits({0}, 3..3) = {0, 3}
    <3>1. ({0}) \intersect (3..3) = {} OBVIOUS
    <3>2. ({0}) \union (3..3) = {0, 3} OBVIOUS
    <3> QED BY <3>1, <3>2, AddApart
  <2>2. AddBits(r2["z"], r2["t1"]) = {0, 3}
    BY ONLY <1>2, <2>1, Zenon
  <2>3. r3 = [r2 EXCEPT !["t1"] = {0, 3}]
    BY ONLY <2>2, SMT DEF r3, Multiply
  <2> QED BY ONLY <1>2, <2>3 DEF Registers
<1>4. /\ r4 \in [Registers -> SUBSET Int]
      /\ r4["t0"] = {0, 1, 3}
      /\ r4["t1"] = {0, 3}
      /\ r4["z"] = {0}
  <2>1. AddBits(1..1, {0, 3}) = {0, 1, 3}
    <3>1. (1..1) \intersect ({0, 3}) = {} OBVIOUS
    <3>2. (1..1) \union ({0, 3}) = {0, 1, 3} OBVIOUS
    <3> QED BY <3>1, <3>2, AddApart
  <2>2. AddBits(r3["t0"], r3["t1"]) = {0, 1, 3}
    BY ONLY <1>3, <2>1, Zenon
  <2>3. r4 = [r3 EXCEPT !["t0"] = {0, 1, 3}]
    BY ONLY <2>2, SMT DEF r4, Multiply
  <2> QED BY ONLY <1>3, <2>3 DEF Registers
<1>5. /\ r5 \in [Registers -> SUBSET Int]
      /\ r5["t0"] = {1, 2, 4}
      /\ r5["t1"] = {0, 3}
      /\ r5["z"] = {0}
  <2>1. MovedUp({0, 1, 3}, 1) = {1, 2, 4}
    BY DEF MovedUp
  <2> QED BY ONLY <1>4, <2>1 DEF r5, Square, Registers
<1>6. /\ r6 \in [Registers -> SUBSET Int]
      /\ r6["t0"] = 0..4
      /\ r6["z"] = {0}
  <2>1. AddBits({0, 3}, {1, 2, 4}) = 0..4
    <3>1. ({0, 3}) \intersect ({1, 2, 4}) = {} OBVIOUS
    <3>2. ({0, 3}) \union ({1, 2, 4}) = 0..4 OBVIOUS
    <3> QED BY <3>1, <3>2, AddApart
  <2>2. AddBits(r5["t1"], r5["t0"]) = 0..4
    BY ONLY <1>5, <2>1, Zenon
  <2>3. r6 = [r5 EXCEPT !["t0"] = 0..4]
    BY ONLY <2>2, SMT DEF r6, Multiply
  <2> QED BY ONLY <1>5, <2>3 DEF Registers
<1>7. /\ r7 \in [Registers -> SUBSET Int]
      /\ r7["t0"] = 0..4
      /\ r7["t1"] = 5..9
      /\ r7["z"] = {0}
  <2>1. MovedUp(0..4, 5) = 5..9
    BY DEF MovedUp
  <2> QED BY ONLY <1>6, <2>1 DEF r7, Square, Registers
<1>8. /\ r8 \in [Registers -> SUBSET Int]
      /\ r8["t0"] = 0..9
      /\ r8["z"] = {0}
  <2>1. AddBits(5..9, 0..4) = 0..9
    <3>1. (5..9) \intersect (0..4) = {} OBVIOUS
    <3>2. (5..9) \union (0..4) = 0..9 OBVIOUS
    <3> QED BY <3>1, <3>2, AddApart
  <2>2. AddBits(r7["t1"], r7["t0"]) = 0..9
    BY ONLY <1>7, <2>1, Zenon
  <2>3. r8 = [r7 EXCEPT !["t0"] = 0..9]
    BY ONLY <2>2, SMT DEF r8, Multiply
  <2> QED BY ONLY <1>7, <2>3 DEF Registers
<1>9. /\ r9 \in [Registers -> SUBSET Int]
      /\ r9["t0"] = 0..9
      /\ r9["t1"] = 10..19
      /\ r9["z"] = {0}
  <2>1. MovedUp(0..9, 10) = 10..19
    BY DEF MovedUp
  <2> QED BY ONLY <1>8, <2>1 DEF r9, Square, Registers
<1>10. /\ r10 \in [Registers -> SUBSET Int]
      /\ r10["t0"] = 0..9
      /\ r10["t1"] = 0..19
      /\ r10["z"] = {0}
  <2>1. AddBits(10..19, 0..9) = 0..19
    <3>1. (10..19) \intersect (0..9) = {} OBVIOUS
    <3>2. (10..19) \union (0..9) = 0..19 OBVIOUS
    <3> QED BY <3>1, <3>2, AddApart
  <2>2. AddBits(r9["t1"], r9["t0"]) = 0..19
    BY ONLY <1>9, <2>1, Zenon
  <2>3. r10 = [r9 EXCEPT !["t1"] = 0..19]
    BY ONLY <2>2, SMT DEF r10, Multiply
  <2> QED BY ONLY <1>9, <2>3 DEF Registers
<1>11. /\ r11 \in [Registers -> SUBSET Int]
      /\ r11["t0"] = 0..9
      /\ r11["t1"] = 0..19
      /\ r11["t2"] = 20..39
      /\ r11["z"] = {0}
  <2>1. MovedUp(0..19, 20) = 20..39
    BY DEF MovedUp
  <2> QED BY ONLY <1>10, <2>1 DEF r11, Square, Registers
<1>12. /\ r12 \in [Registers -> SUBSET Int]
      /\ r12["t0"] = 0..9
      /\ r12["t1"] = 0..39
      /\ r12["z"] = {0}
  <2>1. AddBits(20..39, 0..19) = 0..39
    <3>1. (20..39) \intersect (0..19) = {} OBVIOUS
    <3>2. (20..39) \union (0..19) = 0..39 OBVIOUS
    <3> QED BY <3>1, <3>2, AddApart
  <2>2. AddBits(r11["t2"], r11["t1"]) = 0..39
    BY ONLY <1>11, <2>1, Zenon
  <2>3. r12 = [r11 EXCEPT !["t1"] = 0..39]
    BY ONLY <2>2, SMT DEF r12, Multiply
  <2> QED BY ONLY <1>11, <2>3 DEF Registers
<1>13. /\ r13 \in [Registers -> SUBSET Int]
      /\ r13["t0"] = 0..9
      /\ r13["t1"] = 10..49
      /\ r13["z"] = {0}
  <2>1. MovedUp(0..39, 10) = 10..49
    BY DEF MovedUp
  <2> QED BY ONLY <1>12, <2>1 DEF r13, Square, Registers
<1>14. /\ r14 \in [Registers -> SUBSET Int]
      /\ r14["t0"] = 0..49
      /\ r14["z"] = {0}
  <2>1. AddBits(10..49, 0..9) = 0..49
    <3>1. (10..49) \intersect (0..9) = {} OBVIOUS
    <3>2. (10..49) \union (0..9) = 0..49 OBVIOUS
    <3> QED BY <3>1, <3>2, AddApart
  <2>2. AddBits(r13["t1"], r13["t0"]) = 0..49
    BY ONLY <1>13, <2>1, Zenon
  <2>3. r14 = [r13 EXCEPT !["t0"] = 0..49]
    BY ONLY <2>2, SMT DEF r14, Multiply
  <2> QED BY ONLY <1>13, <2>3 DEF Registers
<1> QED BY ONLY <1>0, <1>14, Zenon

\* fe_pow22523 ends with the bits of 2^252 - 3.
LEMMA Pow22523Raises == Pow22523Chain = (0..251) \ {1}
<1> DEFINE r15 == Square(Pow22523To50, "t1", "t0", 50)
           r16 == Multiply(r15, "t1", "t1", "t0")
           r17 == Square(r16, "t2", "t1", 100)
           r18 == Multiply(r17, "t1", "t2", "t1")
           r19 == Square(r18, "t1", "t1", 50)
           r20 == Multiply(r19, "t0", "t1", "t0")
           r21 == Square(r20, "t0", "t0", 2)
           r22 == Multiply(r21, "out", "t0", "z")
<1>0. Pow22523Chain = r22["out"]
  BY Zenon DEF Pow22523Chain
<1> HIDE DEF r15, r16, r17, r18, r19, r20, r21, r22
<1>15. /\ r15 \in [Registers -> SUBSET Int]
      /\ r15["t0"] = 0..49
      /\ r15["t1"] = 50..99
      /\ r15["z"] = {0}
  <2>1. MovedUp(0..49, 50) = 50..99
    BY DEF MovedUp
  <2> QED BY ONLY Pow22523To50Is, <2>1 DEF r15, Square, Registers
<1>16. /\ r16 \in [Registers -> SUBSET Int]
      /\ r16["t0"] = 0..49
      /\ r16["t1"] = 0..99
      /\ r16["z"] = {0}
  <2>1. AddBits(50..99, 0..49) = 0..99
    <3>1. (50..99) \intersect (0..49) = {} OBVIOUS
    <3>2. (50..99) \union (0..49) = 0..99 OBVIOUS
    <3> QED BY <3>1, <3>2, AddApart
  <2>2. AddBits(r15["t1"], r15["t0"]) = 0..99
    BY ONLY <1>15, <2>1, Zenon
  <2>3. r16 = [r15 EXCEPT !["t1"] = 0..99]
    BY ONLY <2>2, SMT DEF r16, Multiply
  <2> QED BY ONLY <1>15, <2>3 DEF Registers
<1>17. /\ r17 \in [Registers -> SUBSET Int]
      /\ r17["t0"] = 0..49
      /\ r17["t1"] = 0..99
      /\ r17["t2"] = 100..199
      /\ r17["z"] = {0}
  <2>1. MovedUp(0..99, 100) = 100..199
    BY DEF MovedUp
  <2> QED BY ONLY <1>16, <2>1 DEF r17, Square, Registers
<1>18. /\ r18 \in [Registers -> SUBSET Int]
      /\ r18["t0"] = 0..49
      /\ r18["t1"] = 0..199
      /\ r18["z"] = {0}
  <2>1. AddBits(100..199, 0..99) = 0..199
    <3>1. (100..199) \intersect (0..99) = {} OBVIOUS
    <3>2. (100..199) \union (0..99) = 0..199 OBVIOUS
    <3> QED BY <3>1, <3>2, AddApart
  <2>2. AddBits(r17["t2"], r17["t1"]) = 0..199
    BY ONLY <1>17, <2>1, Zenon
  <2>3. r18 = [r17 EXCEPT !["t1"] = 0..199]
    BY ONLY <2>2, SMT DEF r18, Multiply
  <2> QED BY ONLY <1>17, <2>3 DEF Registers
<1>19. /\ r19 \in [Registers -> SUBSET Int]
      /\ r19["t0"] = 0..49
      /\ r19["t1"] = 50..249
      /\ r19["z"] = {0}
  <2>1. MovedUp(0..199, 50) = 50..249
    BY DEF MovedUp
  <2> QED BY ONLY <1>18, <2>1 DEF r19, Square, Registers
<1>20. /\ r20 \in [Registers -> SUBSET Int]
      /\ r20["t0"] = 0..249
      /\ r20["z"] = {0}
  <2>1. AddBits(50..249, 0..49) = 0..249
    <3>1. (50..249) \intersect (0..49) = {} OBVIOUS
    <3>2. (50..249) \union (0..49) = 0..249 OBVIOUS
    <3> QED BY <3>1, <3>2, AddApart
  <2>2. AddBits(r19["t1"], r19["t0"]) = 0..249
    BY ONLY <1>19, <2>1, Zenon
  <2>3. r20 = [r19 EXCEPT !["t0"] = 0..249]
    BY ONLY <2>2, SMT DEF r20, Multiply
  <2> QED BY ONLY <1>19, <2>3 DEF Registers
<1>21. /\ r21 \in [Registers -> SUBSET Int]
      /\ r21["t0"] = 2..251
      /\ r21["z"] = {0}
  <2>1. MovedUp(0..249, 2) = 2..251
    BY DEF MovedUp
  <2> QED BY ONLY <1>20, <2>1 DEF r21, Square, Registers
<1>22. /\ r22 \in [Registers -> SUBSET Int]
      /\ r22["out"] = (0..251) \ {1}
  <2>1. AddBits(2..251, {0}) = (0..251) \ {1}
    <3>1. (2..251) \intersect ({0}) = {} OBVIOUS
    <3>2. (2..251) \union ({0}) = (0..251) \ {1} OBVIOUS
    <3> QED BY <3>1, <3>2, AddApart
  <2>2. AddBits(r21["t0"], r21["z"]) = (0..251) \ {1}
    BY ONLY <1>21, <2>1, Zenon
  <2>3. r22 = [r21 EXCEPT !["out"] = (0..251) \ {1}]
    BY ONLY <2>2, SMT DEF r22, Multiply
  <2> QED BY ONLY <1>21, <2>3 DEF Registers
<1> QED BY ONLY <1>0, <1>22, Zenon

-------------------------------------------------------------------------------
(* What fe_mul returns for a sum and one is small enough for fe_tobytes. *)

\* How large the limbs are on the way: those in near have been carried, those
\* in plus got a carry since.
Sized(h, near, plus) ==
  \A i \in Limb :
    LET room == IF i \in plus THEN 30 ELSE 0 IN
    IF i \in near
    THEN /\ 10 * h[i] <= 5 * Span(i) + room
         /\ -(5 * Span(i) + room) <= 10 * h[i]
    ELSE /\ 10 * h[i] <= 22 * Span(i) + room
         /\ -(22 * Span(i) + room) <= 10 * h[i]

\* A rounding carry out of a limb of three spans at most.
LEMMA RoundedCarry ==
  ASSUME NEW x \in Int, NEW s \in Nat, s >= 8,
         10 * x <= 22 * s + 30, -(22 * s + 30) <= 10 * x
  PROVE \E c \in Int :
          /\ c = (x + s \div 2) \div s /\ c <= 3 /\ -3 <= c
          /\ 10 * (x - c * s) <= 5 * s /\ -(5 * s) <= 10 * (x - c * s)
<1>1. PICK d \in Nat : d = s \div 2 /\ 2 * d <= s /\ s <= 2 * d + 1 BY SMT
<1>2. PICK y \in Int : y = x + d OBVIOUS
<1>3. PICK c \in Int : c = y \div s BY Division
<1>4. PICK r \in Nat : r = y % s BY Division
<1>5. y = c * s + r /\ r < s
  <2>1. s > 0 OBVIOUS
  <2>2. y = (y \div s) * s + (y % s) /\ y % s < s
    BY ONLY <2>1, y \in Int, s \in Nat, Division, Zenon
  <2> QED BY ONLY <1>3, <1>4, <2>2, Zenon
<1>6. PICK w \in Int : w = c * s BY SMT
<1>7. x + d = w + r BY ONLY <1>2, <1>5, <1>6, Zenon
<1>8. 10 * (x - w) <= 5 * s /\ -(5 * s) <= 10 * (x - w)
  BY ONLY <1>1, <1>5, <1>7, x \in Int, w \in Int, d \in Nat, r \in Nat,
          s \in Nat, SMT
<1>9. w < 4 * s /\ -(4 * s) < w
  BY ONLY <1>1, <1>5, <1>7, x \in Int, w \in Int, d \in Nat, r \in Nat,
          s \in Nat, s >= 8, 10 * x <= 22 * s + 30, -(22 * s + 30) <= 10 * x,
          SMT
<1>10. c <= 3
  <2>1. ASSUME c >= 4 PROVE FALSE
    <3>1. c * s >= 4 * s BY ONLY <2>1, c \in Int, s \in Nat, SMT
    <3>2. w >= 4 * s BY ONLY <1>6, <3>1, Zenon
    <3> QED BY ONLY <1>9, <3>2, w \in Int, s \in Nat, SMT
  <2> QED BY <2>1
<1>11. -3 <= c
  <2>1. ASSUME c <= -4 PROVE FALSE
    <3>1. PICK e \in Int : e = -c /\ e >= 4 BY <2>1
    <3>2. e * s >= 4 * s BY ONLY <3>1, e \in Int, s \in Nat, SMT
    <3>3. e * s = -(c * s) BY ONLY <3>1, c \in Int, e \in Int, s \in Nat, SMT
    <3>4. PICK v \in Int : v = e * s BY SMT
    <3>5. v >= 4 * s /\ v = -w BY ONLY <1>6, <3>2, <3>3, <3>4, Zenon
    <3> QED BY ONLY <1>9, <3>5, v \in Int, w \in Int, s \in Nat, SMT
  <2> QED BY <2>1
<1>12. c = (x + s \div 2) \div s BY ONLY <1>1, <1>2, <1>3, Zenon
<1> QED BY ONLY <1>6, <1>8, <1>10, <1>11, <1>12, c \in Int, Zenon

\* One of them, of limbs that are sized.
LEMMA SizedStep ==
  ASSUME NEW h \in Element, NEW near, NEW plus, NEW i \in Limb,
         8 * Wrap <= OddSpan, 8 <= OddSpan,
         Sized(h, near, plus), Above(i) \notin plus,
         i = 9 => Above(i) \in near
  PROVE Sized(RoundCarry(h, i),
              (near \union {i}) \ (IF i = 9 THEN {0} ELSE {}),
              (plus \ {i}) \union {Above(i)})
<1>1. PICK o \in Nat, m \in Nat :
        o = OddSpan /\ m = Wrap /\ 8 <= o /\ 8 * m <= o
  BY WidthAssumption
<1>2. \A j \in Limb : Span(j) \in Nat /\ o <= Span(j)
  <2>1. \A j \in Limb : Span(j) = 2 * o \/ Span(j) = o BY <1>1, SMT DEF Span
  <2> QED BY <2>1, SMT
<1>3. PICK s \in Nat : s = Span(i) /\ 8 <= s BY <1>1, <1>2
<1>4. PICK x \in Int : x = h[i] BY DEF Element
<1>5. 10 * x <= 22 * s + 30 /\ -(22 * s + 30) <= 10 * x
  <2>1. \/ 10 * x <= 5 * s + 30 /\ -(5 * s + 30) <= 10 * x
        \/ 10 * x <= 5 * s + 0 /\ -(5 * s + 0) <= 10 * x
        \/ 10 * x <= 22 * s + 30 /\ -(22 * s + 30) <= 10 * x
        \/ 10 * x <= 22 * s + 0 /\ -(22 * s + 0) <= 10 * x
    BY ONLY <1>3, <1>4, i \in Limb, Sized(h, near, plus), Zenon DEF Sized
  <2> QED BY ONLY <2>1, x \in Int, s \in Nat, SMT
<1>6. PICK c \in Int :
        /\ c = (x + s \div 2) \div s /\ c <= 3 /\ -3 <= c
        /\ 10 * (x - c * s) <= 5 * s /\ -(5 * s) <= 10 * (x - c * s)
  <2>1. s >= 8 BY <1>3
  <2> QED BY ONLY <1>5, <2>1, x \in Int, s \in Nat, RoundedCarry, Zenon
<1>7. RoundCarry(h, i) = Carry(h, i, c)
  BY ONLY <1>3, <1>4, <1>6, Zenon DEF RoundCarry
<1>8. PICK w \in Int : w = c * s BY SMT
<1>9. PICK b \in Limb : b = Above(i) /\ b # i /\ (i = 9 <=> b = 0)
  BY SMT DEF Above, Limb
<1>10. PICK y \in Int : y = h[b] BY DEF Element
<1>11. PICK e \in Int : /\ e = c * (IF i = 9 THEN m ELSE 1)
                        /\ i # 9 => e <= 3 /\ -3 <= e
                        /\ i = 9 => 10 * e <= 5 * o /\ -(5 * o) <= 10 * e
  <2>1. CASE i = 9
    <3>1. PICK e \in Int : e = c * m BY SMT
    <3>2. e <= 3 * m /\ -(3 * m) <= e
      BY ONLY <1>6, <3>1, c \in Int, m \in Nat, SMT
    <3>3. 10 * e <= 5 * o /\ -(5 * o) <= 10 * e
      BY ONLY <1>1, <3>2, e \in Int, m \in Nat, o \in Nat, SMT
    <3> QED BY ONLY <2>1, <3>1, <3>3, Zenon
  <2>2. CASE i # 9
    <3>1. c * 1 = c BY SMT
    <3> QED BY ONLY <2>2, <3>1, <1>6, c \in Int, Zenon
  <2> QED BY ONLY <2>1, <2>2, Zenon
<1> DEFINE k == RoundCarry(h, i)
<1>12. /\ k[i] = x - w /\ k[b] = y + e
       /\ \A j \in Limb : j # i /\ j # b => k[j] = h[j]
  <2>1. Carry(h, i, c) = [h EXCEPT ![i] = @ - c * Span(i),
            ![b] = @ + c * (IF i = 9 THEN Wrap ELSE 1)]
    BY ONLY <1>9, Zenon DEF Carry
  <2>2. c * Span(i) = w BY ONLY <1>3, <1>8, Zenon
  <2>3. c * (IF i = 9 THEN Wrap ELSE 1) = e BY ONLY <1>1, <1>11, Zenon
  <2>4. k = [h EXCEPT ![i] = @ - w, ![b] = @ + e]
    BY ONLY <1>7, <2>1, <2>2, <2>3, Zenon
  <2> HIDE DEF k
  <2> QED BY ONLY <1>4, <1>9, <1>10, <2>4, h \in Element, i \in Limb, SMT
          DEF Element
<1> HIDE DEF k
<1> DEFINE NearNow == (near \union {i}) \ (IF i = 9 THEN {0} ELSE {})
           PlusNow == (plus \ {i}) \union {Above(i)}
<1>13. i \in NearNow /\ i \notin PlusNow
  BY <1>9, SMT DEF Limb
<1>14. /\ b \in PlusNow /\ b \notin plus
       /\ (i # 9 => (b \in NearNow <=> b \in near))
       /\ (i = 9 => b \in near /\ b \notin NearNow)
  BY <1>9, SMT
<1>15. \A j \in Limb : j # i /\ j # b =>
         (j \in NearNow <=> j \in near) /\ (j \in PlusNow <=> j \in plus)
  BY <1>9, SMT
<1> HIDE DEF NearNow, PlusNow
<1>16. Sized(k, NearNow, PlusNow)
  <2> SUFFICES ASSUME NEW j \in Limb
               PROVE LET room == IF j \in PlusNow THEN 30 ELSE 0 IN
                 IF j \in NearNow
                 THEN /\ 10 * k[j] <= 5 * Span(j) + room
                      /\ -(5 * Span(j) + room) <= 10 * k[j]
                 ELSE /\ 10 * k[j] <= 22 * Span(j) + room
                      /\ -(22 * Span(j) + room) <= 10 * k[j]
    BY DEF Sized
  <2>1. CASE j = i
    <3>1. 10 * (x - w) <= 5 * s + 0 /\ -(5 * s + 0) <= 10 * (x - w)
      <4>1. 10 * (x - w) <= 5 * s /\ -(5 * s) <= 10 * (x - w)
        BY ONLY <1>6, <1>8, Zenon
      <4>2. 5 * s + 0 = 5 * s OBVIOUS
      <4> QED BY ONLY <4>1, <4>2, Zenon
    <3> QED BY ONLY <1>3, <1>12, <1>13, <2>1, <3>1, Zenon
  <2>2. CASE j = b
    <3>1. PICK t \in Nat : t = Span(b) /\ o <= t BY <1>2
    <3>2. k[j] = y + e BY <1>12, <2>2
    <3>3. CASE i = 9
      <4>1. 10 * y <= 5 * t + 0 /\ -(5 * t + 0) <= 10 * y
        BY ONLY <1>10, <1>14, <3>1, <3>3, b \in Limb, Sized(h, near, plus),
                Zenon DEF Sized
      <4>2. 10 * (y + e) <= 22 * t + 30 /\ -(22 * t + 30) <= 10 * (y + e)
        BY ONLY <1>11, <3>1, <3>3, <4>1, y \in Int, e \in Int, t \in Nat,
                o \in Nat, SMT
      <4> QED BY ONLY <1>14, <2>2, <3>1, <3>2, <3>3, <4>2, Zenon
    <3>4. CASE i # 9 /\ b \in near
      <4>1. 10 * y <= 5 * t + 0 /\ -(5 * t + 0) <= 10 * y
        BY ONLY <1>10, <1>14, <3>1, <3>4, b \in Limb, Sized(h, near, plus),
                Zenon DEF Sized
      <4>2. 10 * (y + e) <= 5 * t + 30 /\ -(5 * t + 30) <= 10 * (y + e)
        BY ONLY <1>11, <3>4, <4>1, y \in Int, e \in Int, t \in Nat, SMT
      <4> QED BY ONLY <1>14, <2>2, <3>1, <3>2, <3>4, <4>2, Zenon
    <3>5. CASE i # 9 /\ b \notin near
      <4>1. 10 * y <= 22 * t + 0 /\ -(22 * t + 0) <= 10 * y
        BY ONLY <1>10, <1>14, <3>1, <3>5, b \in Limb, Sized(h, near, plus),
                Zenon DEF Sized
      <4>2. 10 * (y + e) <= 22 * t + 30 /\ -(22 * t + 30) <= 10 * (y + e)
        BY ONLY <1>11, <3>5, <4>1, y \in Int, e \in Int, t \in Nat, SMT
      <4> QED BY ONLY <1>14, <2>2, <3>1, <3>2, <3>5, <4>2, Zenon
    <3> QED BY <3>3, <3>4, <3>5
  <2>3. CASE j # i /\ j # b
    <3>1. k[j] = h[j] BY <1>12, <2>3
    <3>2. (j \in NearNow <=> j \in near) /\ (j \in PlusNow <=> j \in plus)
      BY <1>15, <2>3
    <3> QED BY ONLY <3>1, <3>2, j \in Limb, Sized(h, near, plus), Zenon
            DEF Sized
  <2> QED BY <2>1, <2>2, <2>3
<1> QED BY ONLY <1>16, Zenon DEF k, NearNow, PlusNow

\* So the carries of fe_mul leave what fe_tobytes takes, from limbs no larger
\* than those of the sum of two elements.
LEMMA CarriedIsSmall ==
  ASSUME NEW h \in Element, 8 * Wrap <= OddSpan, 8 <= OddSpan,
         \A i \in Limb : 10 * h[i] <= 22 * Span(i)
                         /\ -(22 * Span(i)) <= 10 * h[i]
  PROVE  Small(RoundCarries(h, AfterProduct))
<1>1. AfterProduct \in Seq(Limb) BY Orders
<1>2. PICK a : /\ Passes(h, AfterProduct, Len(AfterProduct), a)
               /\ RoundCarries(h, AfterProduct) = a[Len(AfterProduct)]
  BY <1>1, RoundCarriesAre
<1>3. Len(AfterProduct) = 12 BY DEF AfterProduct
<1>4. /\ a \in [0..12 -> Element] /\ a[0] = h
      /\ \A n \in 1..12 : a[n] = RoundCarry(a[n - 1], AfterProduct[n])
  BY ONLY <1>2, <1>3, Zenon DEF Passes
<1>5. /\ 0 \in 0..12 /\ 1 \in 0..12 /\ 2 \in 0..12 /\ 3 \in 0..12
      /\ 4 \in 0..12 /\ 5 \in 0..12 /\ 6 \in 0..12 /\ 7 \in 0..12
      /\ 8 \in 0..12 /\ 9 \in 0..12 /\ 10 \in 0..12 /\ 11 \in 0..12
      /\ 12 \in 0..12
  OBVIOUS
<1>6. /\ a[1] = RoundCarry(a[0], 0)
      /\ a[2] = RoundCarry(a[1], 4)
      /\ a[3] = RoundCarry(a[2], 1)
      /\ a[4] = RoundCarry(a[3], 5)
      /\ a[5] = RoundCarry(a[4], 2)
      /\ a[6] = RoundCarry(a[5], 6)
      /\ a[7] = RoundCarry(a[6], 3)
      /\ a[8] = RoundCarry(a[7], 7)
      /\ a[9] = RoundCarry(a[8], 4)
      /\ a[10] = RoundCarry(a[9], 8)
      /\ a[11] = RoundCarry(a[10], 9)
      /\ a[12] = RoundCarry(a[11], 0)
  <2>1. /\ 1 \in 1..12 /\ 2 \in 1..12 /\ 3 \in 1..12 /\ 4 \in 1..12
        /\ 5 \in 1..12 /\ 6 \in 1..12 /\ 7 \in 1..12 /\ 8 \in 1..12
        /\ 9 \in 1..12 /\ 10 \in 1..12 /\ 11 \in 1..12 /\ 12 \in 1..12
    OBVIOUS
  <2>2. /\ 1 - 1 = 0 /\ 2 - 1 = 1 /\ 3 - 1 = 2 /\ 4 - 1 = 3 /\ 5 - 1 = 4
        /\ 6 - 1 = 5 /\ 7 - 1 = 6 /\ 8 - 1 = 7 /\ 9 - 1 = 8 /\ 10 - 1 = 9
        /\ 11 - 1 = 10 /\ 12 - 1 = 11
    OBVIOUS
  <2>3. /\ AfterProduct[1] = 0 /\ AfterProduct[2] = 4 /\ AfterProduct[3] = 1
        /\ AfterProduct[4] = 5 /\ AfterProduct[5] = 2 /\ AfterProduct[6] = 6
        /\ AfterProduct[7] = 3 /\ AfterProduct[8] = 7 /\ AfterProduct[9] = 4
        /\ AfterProduct[10] = 8 /\ AfterProduct[11] = 9 /\ AfterProduct[12] = 0
    BY DEF AfterProduct
  <2> QED BY ONLY <1>4, <2>1, <2>2, <2>3, ZenonT(30)
<1>7. /\ 0 \in Limb /\ 1 \in Limb /\ 2 \in Limb /\ 3 \in Limb /\ 4 \in Limb
      /\ 5 \in Limb /\ 6 \in Limb /\ 7 \in Limb /\ 8 \in Limb /\ 9 \in Limb
  BY DEF Limb
<1>8. /\ Above(0) = 1 /\ Above(1) = 2 /\ Above(2) = 3 /\ Above(3) = 4
      /\ Above(4) = 5 /\ Above(5) = 6 /\ Above(6) = 7 /\ Above(7) = 8
      /\ Above(8) = 9 /\ Above(9) = 0
  BY DEF Above
<1>9. Sized(a[0], {}, {})
  <2>1. \A i \in Limb : Span(i) \in Nat /\ a[0][i] = h[i] BY <1>4, SpanNat
  <2>2. \A i \in Limb : 22 * Span(i) + 0 = 22 * Span(i) BY <2>1
  <2> QED BY ONLY <2>1, <2>2, Zenon,
            \A i \in Limb : 10 * h[i] <= 22 * Span(i)
                            /\ -(22 * Span(i)) <= 10 * h[i] DEF Sized
<1>10. Sized(a[1], {0}, {1})
  <2>1. 0 \in Limb /\ a[0] \in Element BY <1>4, <1>5, <1>7
  <2>2. Above(0) \notin {} /\ (0 = 9 => Above(0) \in {})
    BY <1>8
  <2>3. ({} \union {0}) \ (IF 0 = 9 THEN {0} ELSE {})
          = {0}
    OBVIOUS
  <2>4. ({} \ {0}) \union {Above(0)} = {1}
    BY <1>8
  <2>5. Sized(RoundCarry(a[0], 0),
          ({} \union {0}) \ (IF 0 = 9 THEN {0} ELSE {}),
          ({} \ {0}) \union {Above(0)})
    BY ONLY <1>9, <2>1, <2>2, 8 * Wrap <= OddSpan, 8 <= OddSpan,
            SizedStep, Zenon
  <2> QED BY ONLY <1>6, <2>3, <2>4, <2>5, Zenon
<1>11. Sized(a[2], {0, 4}, {1, 5})
  <2>1. 4 \in Limb /\ a[1] \in Element BY <1>4, <1>5, <1>7
  <2>2. Above(4) \notin {1} /\ (4 = 9 => Above(4) \in {0})
    BY <1>8
  <2>3. ({0} \union {4}) \ (IF 4 = 9 THEN {0} ELSE {})
          = {0, 4}
    OBVIOUS
  <2>4. ({1} \ {4}) \union {Above(4)} = {1, 5}
    BY <1>8
  <2>5. Sized(RoundCarry(a[1], 4),
          ({0} \union {4}) \ (IF 4 = 9 THEN {0} ELSE {}),
          ({1} \ {4}) \union {Above(4)})
    BY ONLY <1>10, <2>1, <2>2, 8 * Wrap <= OddSpan, 8 <= OddSpan,
            SizedStep, Zenon
  <2> QED BY ONLY <1>6, <2>3, <2>4, <2>5, Zenon
<1>12. Sized(a[3], {0, 1, 4}, {2, 5})
  <2>1. 1 \in Limb /\ a[2] \in Element BY <1>4, <1>5, <1>7
  <2>2. Above(1) \notin {1, 5} /\ (1 = 9 => Above(1) \in {0, 4})
    BY <1>8
  <2>3. ({0, 4} \union {1}) \ (IF 1 = 9 THEN {0} ELSE {})
          = {0, 1, 4}
    OBVIOUS
  <2>4. ({1, 5} \ {1}) \union {Above(1)} = {2, 5}
    BY <1>8
  <2>5. Sized(RoundCarry(a[2], 1),
          ({0, 4} \union {1}) \ (IF 1 = 9 THEN {0} ELSE {}),
          ({1, 5} \ {1}) \union {Above(1)})
    BY ONLY <1>11, <2>1, <2>2, 8 * Wrap <= OddSpan, 8 <= OddSpan,
            SizedStep, Zenon
  <2> QED BY ONLY <1>6, <2>3, <2>4, <2>5, Zenon
<1>13. Sized(a[4], {0, 1, 4, 5}, {2, 6})
  <2>1. 5 \in Limb /\ a[3] \in Element BY <1>4, <1>5, <1>7
  <2>2. Above(5) \notin {2, 5} /\ (5 = 9 => Above(5) \in {0, 1, 4})
    BY <1>8
  <2>3. ({0, 1, 4} \union {5}) \ (IF 5 = 9 THEN {0} ELSE {})
          = {0, 1, 4, 5}
    OBVIOUS
  <2>4. ({2, 5} \ {5}) \union {Above(5)} = {2, 6}
    BY <1>8
  <2>5. Sized(RoundCarry(a[3], 5),
          ({0, 1, 4} \union {5}) \ (IF 5 = 9 THEN {0} ELSE {}),
          ({2, 5} \ {5}) \union {Above(5)})
    BY ONLY <1>12, <2>1, <2>2, 8 * Wrap <= OddSpan, 8 <= OddSpan,
            SizedStep, Zenon
  <2> QED BY ONLY <1>6, <2>3, <2>4, <2>5, Zenon
<1>14. Sized(a[5], {0, 1, 2, 4, 5}, {3, 6})
  <2>1. 2 \in Limb /\ a[4] \in Element BY <1>4, <1>5, <1>7
  <2>2. Above(2) \notin {2, 6} /\ (2 = 9 => Above(2) \in {0, 1, 4, 5})
    BY <1>8
  <2>3. ({0, 1, 4, 5} \union {2}) \ (IF 2 = 9 THEN {0} ELSE {})
          = {0, 1, 2, 4, 5}
    OBVIOUS
  <2>4. ({2, 6} \ {2}) \union {Above(2)} = {3, 6}
    BY <1>8
  <2>5. Sized(RoundCarry(a[4], 2),
          ({0, 1, 4, 5} \union {2}) \ (IF 2 = 9 THEN {0} ELSE {}),
          ({2, 6} \ {2}) \union {Above(2)})
    BY ONLY <1>13, <2>1, <2>2, 8 * Wrap <= OddSpan, 8 <= OddSpan,
            SizedStep, Zenon
  <2> QED BY ONLY <1>6, <2>3, <2>4, <2>5, Zenon
<1>15. Sized(a[6], {0, 1, 2, 4, 5, 6}, {3, 7})
  <2>1. 6 \in Limb /\ a[5] \in Element BY <1>4, <1>5, <1>7
  <2>2. Above(6) \notin {3, 6} /\ (6 = 9 => Above(6) \in {0, 1, 2, 4, 5})
    BY <1>8
  <2>3. ({0, 1, 2, 4, 5} \union {6}) \ (IF 6 = 9 THEN {0} ELSE {})
          = {0, 1, 2, 4, 5, 6}
    OBVIOUS
  <2>4. ({3, 6} \ {6}) \union {Above(6)} = {3, 7}
    BY <1>8
  <2>5. Sized(RoundCarry(a[5], 6),
          ({0, 1, 2, 4, 5} \union {6}) \ (IF 6 = 9 THEN {0} ELSE {}),
          ({3, 6} \ {6}) \union {Above(6)})
    BY ONLY <1>14, <2>1, <2>2, 8 * Wrap <= OddSpan, 8 <= OddSpan,
            SizedStep, Zenon
  <2> QED BY ONLY <1>6, <2>3, <2>4, <2>5, Zenon
<1>16. Sized(a[7], {0, 1, 2, 3, 4, 5, 6}, {4, 7})
  <2>1. 3 \in Limb /\ a[6] \in Element BY <1>4, <1>5, <1>7
  <2>2. Above(3) \notin {3, 7} /\ (3 = 9 => Above(3) \in {0, 1, 2, 4, 5, 6})
    BY <1>8
  <2>3. ({0, 1, 2, 4, 5, 6} \union {3}) \ (IF 3 = 9 THEN {0} ELSE {})
          = {0, 1, 2, 3, 4, 5, 6}
    OBVIOUS
  <2>4. ({3, 7} \ {3}) \union {Above(3)} = {4, 7}
    BY <1>8
  <2>5. Sized(RoundCarry(a[6], 3),
          ({0, 1, 2, 4, 5, 6} \union {3}) \ (IF 3 = 9 THEN {0} ELSE {}),
          ({3, 7} \ {3}) \union {Above(3)})
    BY ONLY <1>15, <2>1, <2>2, 8 * Wrap <= OddSpan, 8 <= OddSpan,
            SizedStep, Zenon
  <2> QED BY ONLY <1>6, <2>3, <2>4, <2>5, Zenon
<1>17. Sized(a[8], {0, 1, 2, 3, 4, 5, 6, 7}, {4, 8})
  <2>1. 7 \in Limb /\ a[7] \in Element BY <1>4, <1>5, <1>7
  <2>2. Above(7) \notin {4, 7} /\ (7 = 9 => Above(7) \in {0, 1, 2, 3, 4, 5, 6})
    BY <1>8
  <2>3. ({0, 1, 2, 3, 4, 5, 6} \union {7}) \ (IF 7 = 9 THEN {0} ELSE {})
          = {0, 1, 2, 3, 4, 5, 6, 7}
    OBVIOUS
  <2>4. ({4, 7} \ {7}) \union {Above(7)} = {4, 8}
    BY <1>8
  <2>5. Sized(RoundCarry(a[7], 7),
          ({0, 1, 2, 3, 4, 5, 6} \union {7}) \ (IF 7 = 9 THEN {0} ELSE {}),
          ({4, 7} \ {7}) \union {Above(7)})
    BY ONLY <1>16, <2>1, <2>2, 8 * Wrap <= OddSpan, 8 <= OddSpan,
            SizedStep, Zenon
  <2> QED BY ONLY <1>6, <2>3, <2>4, <2>5, Zenon
<1>18. Sized(a[9], {0, 1, 2, 3, 4, 5, 6, 7}, {5, 8})
  <2>1. 4 \in Limb /\ a[8] \in Element BY <1>4, <1>5, <1>7
  <2>2. Above(4) \notin {4, 8}
        /\ (4 = 9 => Above(4) \in {0, 1, 2, 3, 4, 5, 6, 7})
    BY <1>8
  <2>3. ({0, 1, 2, 3, 4, 5, 6, 7} \union {4}) \ (IF 4 = 9 THEN {0} ELSE {})
          = {0, 1, 2, 3, 4, 5, 6, 7}
    OBVIOUS
  <2>4. ({4, 8} \ {4}) \union {Above(4)} = {5, 8}
    BY <1>8
  <2>5. Sized(RoundCarry(a[8], 4),
          ({0, 1, 2, 3, 4, 5, 6, 7} \union {4}) \ (IF 4 = 9 THEN {0} ELSE {}),
          ({4, 8} \ {4}) \union {Above(4)})
    BY ONLY <1>17, <2>1, <2>2, 8 * Wrap <= OddSpan, 8 <= OddSpan,
            SizedStep, Zenon
  <2> QED BY ONLY <1>6, <2>3, <2>4, <2>5, Zenon
<1>19. Sized(a[10], {0, 1, 2, 3, 4, 5, 6, 7, 8}, {5, 9})
  <2>1. 8 \in Limb /\ a[9] \in Element BY <1>4, <1>5, <1>7
  <2>2. Above(8) \notin {5, 8}
        /\ (8 = 9 => Above(8) \in {0, 1, 2, 3, 4, 5, 6, 7})
    BY <1>8
  <2>3. ({0, 1, 2, 3, 4, 5, 6, 7} \union {8}) \ (IF 8 = 9 THEN {0} ELSE {})
          = {0, 1, 2, 3, 4, 5, 6, 7, 8}
    OBVIOUS
  <2>4. ({5, 8} \ {8}) \union {Above(8)} = {5, 9}
    BY <1>8
  <2>5. Sized(RoundCarry(a[9], 8),
          ({0, 1, 2, 3, 4, 5, 6, 7} \union {8}) \ (IF 8 = 9 THEN {0} ELSE {}),
          ({5, 8} \ {8}) \union {Above(8)})
    BY ONLY <1>18, <2>1, <2>2, 8 * Wrap <= OddSpan, 8 <= OddSpan,
            SizedStep, Zenon
  <2> QED BY ONLY <1>6, <2>3, <2>4, <2>5, Zenon
<1>20. Sized(a[11], {1, 2, 3, 4, 5, 6, 7, 8, 9}, {0, 5})
  <2>1. 9 \in Limb /\ a[10] \in Element BY <1>4, <1>5, <1>7
  <2>2. Above(9) \notin {5, 9}
        /\ (9 = 9 => Above(9) \in {0, 1, 2, 3, 4, 5, 6, 7, 8})
    BY <1>8
  <2>3. ({0, 1, 2, 3, 4, 5, 6, 7, 8} \union {9}) \ (IF 9 = 9 THEN {0} ELSE {})
          = {1, 2, 3, 4, 5, 6, 7, 8, 9}
    OBVIOUS
  <2>4. ({5, 9} \ {9}) \union {Above(9)} = {0, 5}
    BY <1>8
  <2>5. Sized(RoundCarry(a[10], 9),
          ({0, 1, 2, 3, 4, 5, 6, 7, 8} \union {9})
            \ (IF 9 = 9 THEN {0} ELSE {}),
          ({5, 9} \ {9}) \union {Above(9)})
    BY ONLY <1>19, <2>1, <2>2, 8 * Wrap <= OddSpan, 8 <= OddSpan,
            SizedStep, Zenon
  <2> QED BY ONLY <1>6, <2>3, <2>4, <2>5, Zenon
<1>21. Sized(a[12], {0, 1, 2, 3, 4, 5, 6, 7, 8, 9}, {1, 5})
  <2>1. 0 \in Limb /\ a[11] \in Element BY <1>4, <1>5, <1>7
  <2>2. Above(0) \notin {0, 5}
        /\ (0 = 9 => Above(0) \in {1, 2, 3, 4, 5, 6, 7, 8, 9})
    BY <1>8
  <2>3. ({1, 2, 3, 4, 5, 6, 7, 8, 9} \union {0}) \ (IF 0 = 9 THEN {0} ELSE {})
          = {0, 1, 2, 3, 4, 5, 6, 7, 8, 9}
    OBVIOUS
  <2>4. ({0, 5} \ {0}) \union {Above(0)} = {1, 5}
    BY <1>8
  <2>5. Sized(RoundCarry(a[11], 0),
          ({1, 2, 3, 4, 5, 6, 7, 8, 9} \union {0})
            \ (IF 0 = 9 THEN {0} ELSE {}),
          ({0, 5} \ {0}) \union {Above(0)})
    BY ONLY <1>20, <2>1, <2>2, 8 * Wrap <= OddSpan, 8 <= OddSpan,
            SizedStep, Zenon
  <2> QED BY ONLY <1>6, <2>3, <2>4, <2>5, Zenon
<1> DEFINE out == a[12]
<1>22. out \in Element BY <1>4, <1>5
<1>23. RoundCarries(h, AfterProduct) = out BY ONLY <1>2, <1>3, Zenon
<1>24. Sized(out, {0, 1, 2, 3, 4, 5, 6, 7, 8, 9}, {1, 5}) BY <1>21
<1> HIDE DEF out
<1>25. Small(out)
  <2> SUFFICES ASSUME NEW i \in Limb
               PROVE /\ 10 * out[i] <= 11 * Span(i)
                     /\ -(11 * Span(i)) <= 10 * out[i]
    BY DEF Small
  <2>1. PICK x \in Int : x = out[i] BY <1>22 DEF Element
  <2>2. PICK s \in Nat : s = Span(i) /\ 8 <= s
    <3>1. OddSpan \in Nat BY WidthAssumption
    <3>2. Span(i) >= 8 BY <3>1, SMT DEF Span
    <3> QED BY <3>2, SpanNat
  <2>3. i \in {0, 1, 2, 3, 4, 5, 6, 7, 8, 9} BY SMT DEF Limb
  <2>4. \/ 10 * x <= 5 * s + 30 /\ -(5 * s + 30) <= 10 * x
        \/ 10 * x <= 5 * s + 0 /\ -(5 * s + 0) <= 10 * x
    BY ONLY <1>24, <2>1, <2>2, <2>3, i \in Limb, Zenon DEF Sized
  <2>5. 10 * x <= 11 * s /\ -(11 * s) <= 10 * x
    BY ONLY <2>2, <2>4, x \in Int, s \in Nat, SMT
  <2> QED BY ONLY <2>1, <2>2, <2>5, Zenon
<1> QED BY ONLY <1>23, <1>25, Zenon

\* Multiplying by one leaves the sums of fe_mul as they were.
LEMMA ProductByOne ==
  ASSUME NEW f \in Element PROVE ProductLimbs(f, Fe1) = f
<1> SUFFICES ASSUME NEW k \in Limb
             PROVE Total([i \in Limb |-> Weight(i, Partner(i, k)) * f[i]
                                           * Fe1[Partner(i, k)]]) = f[k]
  BY Zenon DEF ProductLimbs, Element
<1> DEFINE T == [i \in Limb |-> Weight(i, Partner(i, k)) * f[i]
                                  * Fe1[Partner(i, k)]]
<1>1. \A i \in Limb : T[i] = IF i = k THEN f[k] ELSE 0
  <2> SUFFICES ASSUME NEW i \in Limb
               PROVE Weight(i, Partner(i, k)) * f[i] * Fe1[Partner(i, k)]
                       = IF i = k THEN f[k] ELSE 0
    OBVIOUS
  <2>1. PICK x \in Int : x = f[i] BY DEF Element
  <2>2. PICK j \in Limb : j = Partner(i, k) /\ (j = 0 <=> i = k)
    <3>1. i \in 0..9 /\ k \in 0..9 BY DEF Limb
    <3>2. (10 + k - i) % 10 \in 0..9
          /\ ((10 + k - i) % 10 = 0 <=> i = k)
      BY ONLY <3>1, SMT
    <3> QED BY ONLY <3>2, Zenon DEF Partner, Limb
  <2>3. Fe1[j] = IF j = 0 THEN 1 ELSE 0 BY DEF Fe1, Fe0, Limb
  <2>4. PICK w \in Nat : w = Weight(i, j) /\ (j = 0 => w = 1)
    <3>1. PICK m \in Nat : m = Wrap BY PrimeNat
    <3>2. 0 % 2 = 0 /\ (j = 0 => ~(i + j > 9)) BY SMT DEF Limb
    <3>3. Weight(i, j) = (IF i % 2 = 1 /\ j % 2 = 1 THEN 2 ELSE 1)
                           * (IF i + j > 9 THEN m ELSE 1)
      BY ONLY <3>1, Zenon DEF Weight
    <3>4. /\ Weight(i, j) \in Nat
          /\ j = 0 => Weight(i, j) = 1
      BY ONLY <3>2, <3>3, m \in Nat, SMT
    <3> QED BY <3>4
  <2>5. w * x * (IF j = 0 THEN 1 ELSE 0) = IF j = 0 THEN x ELSE 0
    <3>1. CASE j = 0
      <4>1. 1 * x * 1 = x BY SMT
      <4> QED BY ONLY <2>4, <3>1, <4>1, Zenon
    <3>2. CASE j # 0
      <4>1. w * x * 0 = 0 BY SMT
      <4> QED BY ONLY <3>2, <4>1, Zenon
    <3> QED BY ONLY <3>1, <3>2, Zenon
  <2> QED BY ONLY <2>1, <2>2, <2>3, <2>4, <2>5, Zenon
<1> HIDE DEF T
<1>2. /\ 0 \in Limb /\ 1 \in Limb /\ 2 \in Limb /\ 3 \in Limb /\ 4 \in Limb
      /\ 5 \in Limb /\ 6 \in Limb /\ 7 \in Limb /\ 8 \in Limb /\ 9 \in Limb
  BY DEF Limb
<1>3. PICK x \in Int : x = f[k] BY DEF Element
<1>4. Total(T) = x
  <2>1. /\ T[0] = (IF 0 = k THEN x ELSE 0) /\ T[1] = (IF 1 = k THEN x ELSE 0)
        /\ T[2] = (IF 2 = k THEN x ELSE 0) /\ T[3] = (IF 3 = k THEN x ELSE 0)
        /\ T[4] = (IF 4 = k THEN x ELSE 0) /\ T[5] = (IF 5 = k THEN x ELSE 0)
        /\ T[6] = (IF 6 = k THEN x ELSE 0) /\ T[7] = (IF 7 = k THEN x ELSE 0)
        /\ T[8] = (IF 8 = k THEN x ELSE 0) /\ T[9] = (IF 9 = k THEN x ELSE 0)
    BY ONLY <1>1, <1>2, <1>3, Zenon
  <2>2. k \in 0..9 BY DEF Limb
  <2> QED BY ONLY <2>1, <2>2, x \in Int, SMT DEF Total
<1> QED BY ONLY <1>3, <1>4, Zenon DEF T

\* So the 32 bytes of such a product are the sum's own value, below the prime.
LEMMA EncodesTheSum ==
  ASSUME NEW f \in Element, 8 * Wrap <= OddSpan, 8 <= OddSpan,
         \A i \in Limb : 10 * f[i] <= 22 * Span(i)
                         /\ -(22 * Span(i)) <= 10 * f[i]
  PROVE  FeToBytes(FeMul(f, Fe1)) = ValueOf(f)
<1> DEFINE h == RoundCarries(f, AfterProduct)
<1>1. FeMul(f, Fe1) = h BY ProductByOne DEF FeMul
<1>2. h \in Element /\ Same(NumberOf(h), NumberOf(f))
  BY Orders, RoundCarriesKeep
<1>3. Small(h) BY CarriedIsSmall
<1> HIDE DEF h
<1>4. FeToBytes(h) = ValueOf(h) BY <1>2, <1>3, EncodesTheRepresentative
<1>5. ValueOf(h) = ValueOf(f)
  <2>1. NumberOf(h) \in Int /\ NumberOf(f) \in Int BY <1>2, NumberInt
  <2> QED BY <1>2, <2>1, SameMod DEF ValueOf
<1> QED BY ONLY <1>1, <1>4, <1>5, Zenon

-------------------------------------------------------------------------------
(* The calls on elements that return numbers, those on scalars, the chains. *)

\* ArithmeticExact without the calls that return elements.
NumbersExact ==
  /\ call.op \in {"tobytes", "isnegative", "isnonzero"} =>
       call.out = Expected(call)
  /\ call.op = "reduce" => call.out = ScRemainder(call.s)
  /\ call.op = "muladd" =>
       call.out = (ScProduct(call.a, ScRemainder(call.b))
                     + ScRemainder(call.c)) % ScOrder
  /\ call.op = "invert" => call.out = (0..254) \ {2, 4}
  /\ call.op = "pow22523" => call.out = (0..251) \ {1}

\* fe_tobytes, fe_isnegative and fe_isnonzero as they are called, on what
\* fe_mul returns for a sum.
LEMMA NumberCallExact ==
  ASSUME NEW op \in {"tobytes", "isnegative", "isnonzero"},
         NEW a \in Elements, NEW b \in Elements,
         8 * Wrap <= OddSpan, 8 <= OddSpan
  PROVE  LET f == FeAdd(a, b) IN
         FeResult(op, f, Fe0) =
           Expected([op |-> op, f |-> f, g |-> Fe0,
                     out |-> FeResult(op, f, Fe0)])
<1> DEFINE f == FeAdd(a, b)
           c == [op |-> op, f |-> f, g |-> Fe0, out |-> FeResult(op, f, Fe0)]
<1>1. a \in Element /\ b \in Element BY InputAssumption DEF Element
<1>2. f \in Element BY <1>1, FeAddTotal
<1>3. \A i \in Limb : 10 * f[i] <= 22 * Span(i)
                      /\ -(22 * Span(i)) <= 10 * f[i]
  <2> SUFFICES ASSUME NEW i \in Limb
               PROVE /\ 10 * f[i] <= 22 * Span(i)
                     /\ -(22 * Span(i)) <= 10 * f[i]
    OBVIOUS
  <2>1. PICK x \in Int, y \in Int, s \in Nat :
          x = a[i] /\ y = b[i] /\ s = Span(i)
    BY <1>1, SpanNat DEF Element
  <2>2. /\ -(11 * s) <= 10 * x /\ 10 * x <= 11 * s
        /\ -(11 * s) <= 10 * y /\ 10 * y <= 11 * s
    BY ONLY <2>1, InputAssumption, a \in Elements, b \in Elements, i \in Limb,
            Zenon
  <2>3. f[i] = x + y BY <2>1 DEF FeAdd
  <2>4. 10 * (x + y) <= 22 * s /\ -(22 * s) <= 10 * (x + y)
    BY ONLY <2>2, x \in Int, y \in Int, s \in Nat, SMT
  <2> HIDE DEF f
  <2> QED BY ONLY <2>1, <2>3, <2>4, Zenon
<1>4. c.op = op /\ c.f = f OBVIOUS
<1> HIDE DEF c, f
<1>5. FeToBytes(FeMul(f, Fe1)) = ValueOf(f) BY <1>2, <1>3, EncodesTheSum
<1> SUFFICES FeResult(op, f, Fe0) = Expected(c) BY DEF c, f
<1>6. CASE op = "tobytes"
  <2>1. FeResult(op, f, Fe0) = FeToBytes(FeMul(f, Fe1))
    BY <1>6 DEF FeResult
  <2>2. Expected(c) = ValueOf(f) BY <1>4, <1>6 DEF Expected
  <2> QED BY ONLY <1>5, <2>1, <2>2, Zenon
<1>7. CASE op = "isnegative"
  <2>1. FeResult(op, f, Fe0) = FeIsNegative(FeMul(f, Fe1))
    BY <1>7 DEF FeResult
  <2>2. Expected(c) = ValueOf(f) % 2 BY <1>4, <1>7 DEF Expected
  <2> QED BY ONLY <1>5, <2>1, <2>2, Zenon DEF FeIsNegative
<1>8. CASE op = "isnonzero"
  <2>1. FeResult(op, f, Fe0) = FeIsNonZero(FeMul(f, Fe1))
    BY <1>8 DEF FeResult
  <2>2. Expected(c) = IF ValueOf(f) # 0 THEN 1 ELSE 0
    BY <1>4, <1>8 DEF Expected
  <2>3. FeIsNonZero(FeMul(f, Fe1)) = IF ValueOf(f) # 0 THEN 1 ELSE 0
    BY <1>5 DEF FeIsNonZero
  <2> QED BY ONLY <2>1, <2>2, <2>3, Zenon
<1> QED BY <1>6, <1>7, <1>8

\* Every call of fe.c and sc.c that a run makes computes what it is for: those
\* that return elements (FieldIsExact); fe_tobytes, fe_isnegative and
\* fe_isnonzero, on the one representative below the prime; sc_reduce and
\* sc_muladd modulo the order of the base point, with the code's limbs and
\* digits of the order; and the chains of fe_invert and fe_pow22523, which
\* raise to 2^255 - 21 and to 2^252 - 3. The inequalities are fe_tobytes'
\* need; the code's wrap of 19 and spans of 2^25 satisfy them.
THEOREM ArithmeticIsExact ==
  ASSUME 8 * Wrap <= OddSpan, 8 <= OddSpan, CodeScalars
  PROVE  Spec => []ArithmeticExact
<1>1. Init => NumbersExact
  BY DEF Init, NumbersExact, Nothing
<1>2. NumbersExact /\ [Next]_vars => NumbersExact'
  <2> SUFFICES ASSUME NumbersExact, [Next]_vars PROVE NumbersExact'
    OBVIOUS
  <2>1. ASSUME call' = call PROVE NumbersExact'
    BY <2>1 DEF NumbersExact
  <2>2. ASSUME NEW op \in FeBinary, NEW f \in Elements, NEW g \in Elements,
               FieldCall(op, f, g)
        PROVE NumbersExact'
    BY <2>2 DEF FieldCall, NumbersExact, FeBinary
  <2>3. ASSUME NEW op \in FeUnary, NEW f \in Elements, NEW g \in Elements,
               FieldCall(op, FeAdd(f, g), Fe0)
        PROVE NumbersExact'
    <3> DEFINE c == [op |-> op, f |-> FeAdd(f, g), g |-> Fe0,
                     out |-> FeResult(op, FeAdd(f, g), Fe0)]
    <3>1. call' = c BY <2>3 DEF FieldCall
    <3>2. op \notin {"reduce", "muladd", "invert", "pow22523"}
      BY DEF FeUnary
    <3>3. op \in {"tobytes", "isnegative", "isnonzero"} =>
            FeResult(op, FeAdd(f, g), Fe0) = Expected(c)
      BY NumberCallExact
    <3>4. c.op = op /\ c.out = FeResult(op, FeAdd(f, g), Fe0) OBVIOUS
    <3> HIDE DEF c
    <3>5. call'.op \in {"tobytes", "isnegative", "isnonzero"} =>
            call'.out = Expected(call')
      BY ONLY <3>1, <3>3, <3>4, Zenon
    <3>6. call'.op \notin {"reduce", "muladd", "invert", "pow22523"}
      BY <3>1, <3>2, <3>4
    <3> QED BY <3>5, <3>6 DEF NumbersExact
  <2>4. ASSUME NEW s \in Loaded, LoadCall(s) PROVE NumbersExact'
    BY <2>4 DEF LoadCall, NumbersExact
  <2>5. ASSUME NEW s \in WideScalars, ReduceCall(s) PROVE NumbersExact'
    <3>1. call'.op = "reduce" /\ call'.s = s /\ call'.out = ScReduce(s)
      BY <2>5 DEF ReduceCall
    <3>2. IsDigits(s, 24, 256) BY InputAssumption
    <3>3. ScReduce(s) = ScRemainder(s) BY <3>2, ReduceIsExact
    <3> QED BY <3>1, <3>3 DEF NumbersExact
  <2>6. ASSUME NEW a \in Scalars, NEW b \in Scalars, NEW c \in Scalars,
               MuladdCall(a, b, c)
        PROVE NumbersExact'
    <3>1. /\ call'.op = "muladd" /\ call'.a = a /\ call'.b = b /\ call'.c = c
          /\ call'.out = ScMuladd(a, b, c)
      BY <2>6 DEF MuladdCall
    <3>2. IsDigits(a, 12, 16) /\ IsDigits(b, 12, 16) /\ IsDigits(c, 12, 16)
      BY InputAssumption
    <3>3. ScMuladd(a, b, c) =
            (ScProduct(a, ScRemainder(b)) + ScRemainder(c)) % ScOrder
      BY <3>2, MuladdIsExact
    <3>4. call'.out = (ScProduct(call'.a, ScRemainder(call'.b))
                         + ScRemainder(call'.c)) % ScOrder
      BY ONLY <3>1, <3>3, Zenon
    <3> QED BY <3>1, <3>4 DEF NumbersExact
  <2>7. CASE ChainCall("invert", InvertChain)
    BY <2>7, InvertRaises DEF ChainCall, NumbersExact
  <2>8. CASE ChainCall("pow22523", Pow22523Chain)
    BY <2>8, Pow22523Raises DEF ChainCall, NumbersExact
  <2>9. CASE \E name \in DOMAIN Formulas : StartFormula(name)
    BY <2>1, <2>9 DEF StartFormula
  <2>10. CASE FormulaStep
    BY <2>1, <2>10 DEF FormulaStep
  <2>11. CASE \E seed \in Seeds : CreateKeypair(seed)
    BY <2>1, <2>11 DEF CreateKeypair
  <2>12. CASE \E m \in Messages : Sign(m)
    BY <2>1, <2>12 DEF Sign
  <2>13. ASSUME NEW x, Arrive(x) PROVE NumbersExact'
    BY <2>1, <2>13 DEF Arrive
  <2>14. CASE \E m \in Messages, s \in OtherKeys, n \in OtherScalars,
                h \in 0..(Order - 1) : Foreign(m, s, n, h)
    BY <2>1, <2>14 DEF Foreign
  <2>15. CASE Verify
    BY <2>1, <2>15 DEF Verify
  <2>16. CASE UNCHANGED vars
    BY <2>1, <2>16 DEF vars
  <2> QED
    BY <2>2, <2>3, <2>4, <2>5, <2>6, <2>7, <2>8, <2>9, <2>10, <2>11, <2>12,
       <2>13, <2>14, <2>15, <2>16 DEF Next
<1>3. FieldExact /\ NumbersExact => ArithmeticExact
  BY DEF NumbersExact, ArithmeticExact
<1> QED BY <1>1, <1>2, <1>3, FieldIsExact, PTL DEF Spec
===============================================================================
