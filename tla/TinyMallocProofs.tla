--------------------------- MODULE TinyMallocProofs ---------------------------
(***************************************************************************)
(* Proofs about TinyMalloc, for words, heaps, stacks and requests of any   *)
(* size.  First what they rest on: the arithmetic of words, the free list  *)
(* as a sequence, the blocks as a set that tiles the heap, and what each   *)
(* write of the library leaves alone.  Then what each function of the      *)
(* library does to a heap whose blocks are in order.  At last the          *)
(* invariant of the specification, and what follows from it: the library   *)
(* keeps its list in order, gives the client what it asked for, stays away *)
(* from the stack, and implements Heap.                                    *)
(***************************************************************************)
EXTENDS TinyMalloc, SequenceTheorems, FiniteSetTheorems,
        WellFoundedInduction, TLAPS

-------------------------------------------------------------------------------
(* Arithmetic. *)

\* A non-empty set of numbers has a least one, which is Min of it.
LEMMA MinIsLeast ==
  ASSUME NEW S, S \subseteq Nat, S # {}
  PROVE  Min(S) \in S /\ \A y \in S : Min(S) <= y
<1>1. \E x \in S : \A y \in S : ~ (<<y, x>> \in OpToRel(<, Nat))
  BY WFMin, NatLessThanWellFounded
<1>2. \E x \in S : \A y \in S : x <= y
  <2>1. PICK x \in S : \A y \in S : ~ (<<y, x>> \in OpToRel(<, Nat))
    BY <1>1
  <2>2. ASSUME NEW y \in S PROVE x <= y
    <3>1. ~(y < x)
      BY <2>1 DEF OpToRel
    <3> QED BY <3>1
  <2> QED BY <2>2
<1> QED BY <1>2 DEF Min

\* A multiple of d is d times something.
LEMMA Multiple ==
  ASSUME NEW d \in Nat \ {0}
  PROVE  /\ \A n \in Int : n % d = 0 => n \div d \in Int /\ n = d * (n \div d)
         /\ \A q \in Int : (d * q) % d = 0
BY SMT

\* Sums and differences of multiples are multiples.
LEMMA Multiples ==
  ASSUME NEW d \in Nat \ {0}, NEW a \in Int, NEW b \in Int,
         a % d = 0, b % d = 0
  PROVE  (a + b) % d = 0 /\ (a - b) % d = 0
<1> DEFINE p == a \div d  q == b \div d
<1>1. p \in Int /\ q \in Int /\ a = d * p /\ b = d * q
  BY Multiple
<1> HIDE DEF p, q
<1>2. a + b = d * (p + q) /\ a - b = d * (p - q)
  BY <1>1, SMT
<1>3. p + q \in Int /\ p - q \in Int
  BY <1>1
<1> QED BY <1>2, <1>3, Multiple, Zenon

\* A multiple of a multiple of d is a multiple of d.
LEMMA MultipleOfMultiple ==
  ASSUME NEW d \in Nat \ {0}, NEW a \in Nat \ {0}, NEW n \in Int,
         n % a = 0, a % d = 0
  PROVE  n % d = 0
<1> DEFINE p == n \div a  q == a \div d
<1>1. p \in Int /\ q \in Int /\ n = a * p /\ a = d * q
  BY Multiple
<1> HIDE DEF p, q
<1>2. n = d * (q * p)
  BY <1>1, SMT
<1>3. q * p \in Int
  BY <1>1, SMT
<1> QED BY <1>2, <1>3, Multiple, Zenon

\* MALLOC_ALIGN makes a multiple, by less than one more.
LEMMA AlignsUp ==
  ASSUME NEW x \in Int, NEW a \in Nat \ {0}
  PROVE  /\ MAlign(x, a) \in 0..(a - 1) /\ (x + MAlign(x, a)) % a = 0
         /\ MAlign(x, a) = 0 <=> x % a = 0
<1> DEFINE y == -x
<1>1. y \in Int /\ x = -y
  OBVIOUS
<1> HIDE DEF y
<1> DEFINE r == y % a  k == y \div a  t == a * k
<1>2. r \in 0..(a - 1) /\ k \in Int /\ t \in Int
  BY <1>1, SMT
<1>3. r = y - t
  BY <1>1, SMT
<1>4. MAlign(x, a) = r
  BY DEF MAlign, y
<1>5. t % a = 0
  BY <1>2, Multiple, Zenon
<1> HIDE DEF r, t
<1>6. x + r = -t
  BY <1>1, <1>2, <1>3
<1>7. -t = a * (-k) /\ -k \in Int
  BY <1>2, SMT DEF t
<1>8. (x + r) % a = 0
  BY <1>6, <1>7, Multiple, Zenon
<1>9. r = 0 => x % a = 0
  BY <1>8
<1>10. ASSUME x % a = 0 PROVE r = 0
  <2>1. (x + r - x) % a = 0
    BY <1>2, <1>8, <1>10, Multiples
  <2>2. x + r - x = r
    BY <1>2
  <2>3. r % a = r
    BY <1>2, SMT
  <2> QED BY <2>1, <2>2, <2>3
<1> QED BY <1>2, <1>4, <1>8, <1>9, <1>10

USE WordAssumption, HeapAssumption, ClientAssumption

Words == {n \in Nat : n % W = 0}

\* Sums and differences of multiples of the word are multiples of it.
LEMMA SumsOfWords ==
  \A a, b \in Words : a + b \in Words /\ (b <= a => a - b \in Words)
<1> SUFFICES ASSUME NEW a \in Words, NEW b \in Words
             PROVE  a + b \in Words /\ (b <= a => a - b \in Words)
  OBVIOUS
<1>1. a \in Nat /\ b \in Nat /\ a % W = 0 /\ b % W = 0
  BY DEF Words
<1>2. a \in Int /\ b \in Int /\ W \in Nat \ {0}
  BY <1>1
<1>3. (a + b) % W = 0 /\ (a - b) % W = 0
  BY <1>1, <1>2, Multiples, Zenon
<1> QED BY <1>1, <1>3 DEF Words

\* The word, a list entry and the start of the heap are word-aligned.
LEMMA SmallWords == W \in Words /\ Entry \in Words /\ Start \in Words
<1>1. W * 1 = W
  OBVIOUS
<1>2. W \in Words
  BY <1>1, Multiple DEF Words
<1>3. Entry = W + W
  BY DEF Entry
<1> QED BY <1>2, <1>3, SumsOfWords DEF Words

\* What a client may ask for: sizes the macros do not wrap.
Modest(n) == n \in Nat /\ n + 4 * W < WordSpan

\* REAL_SIZE makes words, room for the header and what was asked for, and the
\* entry of a rest.
LEMMA RealSizes ==
  ASSUME NEW n, Modest(n)
  PROVE  /\ RealSize(n) \in Words /\ RealSize(n) >= Entry
         /\ RealSize(n) >= n + W /\ RealSize(n) + Entry < WordSpan
<1>1. n \in Nat /\ n + 4 * W < WordSpan
  BY DEF Modest
<1>2. CASE n < Entry - W
  <2>1. RealSize(n) = Entry
    BY <1>2 DEF RealSize
  <2>2. Entry = 2 * W
    BY DEF Entry
  <2>3. Entry \in Words /\ Entry \in Nat
    BY <2>2, SmallWords
  <2> QED BY <1>1, <1>2, <2>1, <2>2, <2>3
<1>3. CASE ~(n < Entry - W)
  <2> DEFINE up == MAlign(n, W)  real == n + W + up
  <2>1. up \in 0..(W - 1) /\ (n + up) % W = 0
    BY <1>1, AlignsUp
  <2> HIDE DEF up
  <2>2. real \in 0..(WordSpan - 1) /\ real < n + 2 * W
    BY <1>1, <2>1
  <2>3. real % WordSpan = real
    BY <2>2, SMT
  <2>4. n + up \in Words
    BY <1>1, <2>1 DEF Words
  <2>5. real = (n + up) + W
    BY <1>1, <2>1
  <2>6. real \in Words
    BY <2>4, <2>5, SmallWords, SumsOfWords
  <2>7. RealSize(n) = real
    BY <1>3, <2>3 DEF RealSize, up
  <2>8. Entry = 2 * W
    BY DEF Entry
  <2> QED BY <1>1, <1>3, <2>1, <2>2, <2>6, <2>7, <2>8
<1> QED BY <1>2, <1>3

-------------------------------------------------------------------------------
(* The free list: a sequence of addresses in ascending order. *)

Ascending(F) ==
  /\ F \in Seq(Nat)
  /\ \A i, j \in 1..Len(F) : i < j => F[i] < F[j]

\* The free list as a sequence of addresses.
LEMMA ListOf ==
  ASSUME NEW F, Ascending(F)
  PROVE  /\ Len(F) \in Nat /\ DOMAIN F = 1..Len(F)
         /\ Range(F) = {F[i] : i \in 1..Len(F)}
         /\ \A i \in 1..Len(F) : F[i] \in Nat
BY LenProperties, ElementOfSeq DEF Ascending, Range

\* Replacing an entry.
LEMMA Relink ==
  ASSUME NEW F, Ascending(F), NEW i \in 1..Len(F), NEW v \in Nat,
         \A k \in 1..Len(F) : (k < i => F[k] < v) /\ (k > i => v < F[k]),
         NEW G, G = [F EXCEPT ![i] = v]
  PROVE  /\ Ascending(G)
         /\ Range(G) = (Range(F) \ {F[i]}) \union {v}
<1>1. /\ G \in Seq(Nat) /\ Len(G) = Len(F)
      /\ \A j \in 1..Len(F) : G[j] = IF j = i THEN v ELSE F[j]
  BY ExceptSeq DEF Ascending
<1>2. Ascending(G)
  BY <1>1, ListOf DEF Ascending
<1>3. Range(G) = {G[j] : j \in 1..Len(F)}
  BY <1>1, <1>2, ListOf
<1>4. \A j \in 1..Len(F) : F[j] = F[i] => j = i
  BY ListOf DEF Ascending
<1>5. Range(F) = {F[j] : j \in 1..Len(F)}
  BY ListOf
<1>6. Range(G) = (Range(F) \ {F[i]}) \union {v}
  <2>1. ASSUME NEW x PROVE x \in Range(G) <=>
                             x = v \/ (x \in Range(F) /\ x # F[i])
    BY ONLY <1>1, <1>3, <1>4, <1>5, i \in 1..Len(F)
  <2> QED BY <2>1
<1> QED BY <1>2, <1>6

\* What stands where after an entry is removed.
LEMMA RemoveAtIs ==
  ASSUME NEW F \in Seq(Nat), NEW i \in 1..Len(F)
  PROVE  /\ RemoveAt(F, i) \in Seq(Nat)
         /\ Len(RemoveAt(F, i)) = Len(F) - 1
         /\ \A k \in 1..(Len(F) - 1) :
              RemoveAt(F, i)[k] = IF k < i THEN F[k] ELSE F[k + 1]
<1> DEFINE A == SubSeq(F, 1, i - 1)  B == SubSeq(F, i + 1, Len(F))
<1>1. Len(F) \in Nat /\ \A j \in 1..Len(F) : F[j] \in Nat
  BY LenProperties, ElementOfSeq
<1>2. /\ A \in Seq(Nat) /\ Len(A) = i - 1
      /\ \A k \in 1..(i - 1) : A[k] = F[k]
  BY <1>1, SubSeqProperties
<1>3. /\ B \in Seq(Nat) /\ Len(B) = Len(F) - i
      /\ \A k \in 1..(Len(F) - i) : B[k] = F[k + i]
  BY <1>1, SubSeqProperties
<1> HIDE DEF A, B
<1>4. /\ A \o B \in Seq(Nat) /\ Len(A \o B) = Len(A) + Len(B)
      /\ \A k \in 1..(Len(A) + Len(B)) :
           (A \o B)[k] = IF k <= Len(A) THEN A[k] ELSE B[k - Len(A)]
  BY <1>2, <1>3, ConcatProperties
<1>5. RemoveAt(F, i) = A \o B
  BY DEF RemoveAt, A, B
<1>6. ASSUME NEW k \in 1..(Len(F) - 1)
      PROVE  (A \o B)[k] = IF k < i THEN F[k] ELSE F[k + 1]
  <2>1. CASE k < i
    BY <1>1, <1>2, <1>3, <1>4, <2>1
  <2>2. CASE ~(k < i)
    <3>1. (A \o B)[k] = B[k - (i - 1)]
      <4>1. k \in 1..(Len(A) + Len(B)) /\ ~(k <= Len(A))
        BY <1>1, <1>2, <1>3, <2>2
      <4> QED BY <1>2, <1>4, <4>1
    <3>2. k - (i - 1) \in 1..(Len(F) - i) /\ k - (i - 1) + i = k + 1
      BY <1>1, <2>2
    <3> QED BY <1>3, <2>2, <3>1, <3>2
  <2> QED BY <2>1, <2>2
<1>7. Len(A \o B) = Len(F) - 1
  <2>1. Len(A) + Len(B) = Len(F) - 1
    BY <1>1, <1>2, <1>3
  <2> QED BY <1>4, <2>1
<1> QED BY <1>4, <1>5, <1>6, <1>7

\* Removing an entry keeps the list ascending and drops that block.
LEMMA Unlink ==
  ASSUME NEW F, Ascending(F), NEW i \in 1..Len(F),
         NEW G, G = RemoveAt(F, i)
  PROVE  /\ Ascending(G)
         /\ Range(G) = Range(F) \ {F[i]}
<1>1. PICK n \in Nat : n = Len(F)
  BY ListOf
<1>2. /\ G \in Seq(Nat) /\ Len(G) = n - 1
      /\ \A k \in 1..(n - 1) : G[k] = IF k < i THEN F[k] ELSE F[k + 1]
  <2>1. F \in Seq(Nat)
    BY DEF Ascending
  <2>2. /\ RemoveAt(F, i) \in Seq(Nat) /\ Len(RemoveAt(F, i)) = Len(F) - 1
        /\ \A k \in 1..(Len(F) - 1) :
             RemoveAt(F, i)[k] = IF k < i THEN F[k] ELSE F[k + 1]
    BY ONLY <2>1, RemoveAtIs, i \in 1..Len(F)
  <2> QED BY <1>1, <2>2
<1>3. /\ i \in 1..n /\ \A k \in 1..n : F[k] \in Nat
      /\ \A j, k \in 1..n : j < k => F[j] < F[k]
      /\ Range(F) = {F[k] : k \in 1..n}
  BY <1>1, ListOf DEF Ascending
<1>4. Ascending(G)
  <2> SUFFICES ASSUME NEW j \in 1..(n - 1), NEW k \in 1..(n - 1), j < k
               PROVE  G[j] < G[k]
    BY <1>2 DEF Ascending
  <2>1. /\ j \in 1..n /\ j + 1 \in 1..n /\ k \in 1..n /\ k + 1 \in 1..n
        /\ j < k /\ j < k + 1 /\ j + 1 < k + 1
    OBVIOUS
  <2>2. /\ F[j] < F[k] /\ F[j] < F[k + 1] /\ F[j + 1] < F[k + 1]
    BY <1>3, <2>1
  <2>3. G[j] = F[j] \/ (~(j < i) /\ G[j] = F[j + 1])
    BY <1>2
  <2>4. (k < i /\ G[k] = F[k]) \/ G[k] = F[k + 1]
    BY <1>2
  <2>5. k < i => j < i
    BY <1>3
  <2> QED BY <2>2, <2>3, <2>4, <2>5
<1>5. Range(G) = {G[k] : k \in 1..(n - 1)}
  BY <1>2, <1>4, ListOf
<1>6. \A j \in 1..n : F[j] = F[i] => j = i
  BY <1>3
<1>7. ASSUME NEW k \in 1..(n - 1) PROVE G[k] \in Range(F) \ {F[i]}
  <2>1. CASE k < i
    <3>1. k \in 1..n /\ k # i /\ G[k] = F[k]
      BY <1>2, <1>3, <2>1
    <3> QED BY <1>3, <1>6, <3>1
  <2>2. CASE ~(k < i)
    <3>1. k + 1 \in 1..n /\ k + 1 # i /\ G[k] = F[k + 1]
      BY <1>2, <1>3, <2>2
    <3> QED BY <1>3, <1>6, <3>1
  <2> QED BY <2>1, <2>2
<1>8. ASSUME NEW j \in 1..n, j # i PROVE F[j] \in Range(G)
  <2>1. CASE j < i
    <3>1. j \in 1..(n - 1) /\ G[j] = F[j]
      BY <1>2, <1>3, <2>1
    <3> QED BY <1>5, <3>1
  <2>2. CASE j > i
    <3>1. j - 1 \in 1..(n - 1) /\ ~(j - 1 < i) /\ j - 1 + 1 = j
      BY <1>3, <2>2
    <3>2. G[j - 1] = F[j]
      BY <1>2, <3>1
    <3> QED BY <1>5, <3>1, <3>2
  <2> QED BY <1>3, <1>8, <2>1, <2>2
<1>9. Range(G) = Range(F) \ {F[i]}
  <2>1. \A x \in Range(G) : x \in Range(F) \ {F[i]}
    BY ONLY <1>5, <1>7
  <2>2. \A x \in Range(F) \ {F[i]} : x \in Range(G)
    BY ONLY <1>3, <1>8
  <2> QED BY ONLY <2>1, <2>2
<1> QED BY <1>4, <1>9

\* What stands where after an entry is inserted.
LEMMA InsertAtIs ==
  ASSUME NEW F \in Seq(Nat), NEW i \in 1..(Len(F) + 1), NEW v \in Nat
  PROVE  /\ InsertAt(F, i, v) \in Seq(Nat)
         /\ Len(InsertAt(F, i, v)) = Len(F) + 1
         /\ \A k \in 1..(Len(F) + 1) :
              InsertAt(F, i, v)[k] = IF k < i THEN F[k]
                                     ELSE IF k = i THEN v ELSE F[k - 1]
<1> DEFINE A == SubSeq(F, 1, i - 1)  B == SubSeq(F, i, Len(F))
           C == A \o <<v>>
<1>1. Len(F) \in Nat /\ \A j \in 1..Len(F) : F[j] \in Nat
  BY LenProperties, ElementOfSeq
<1>2. /\ A \in Seq(Nat) /\ Len(A) = i - 1
      /\ \A k \in 1..(i - 1) : A[k] = F[k]
  BY <1>1, SubSeqProperties
<1>3. /\ B \in Seq(Nat) /\ Len(B) = Len(F) - i + 1
      /\ \A k \in 1..(Len(F) - i + 1) : B[k] = F[k + i - 1]
  BY <1>1, SubSeqProperties
<1>4. <<v>> \in Seq(Nat) /\ Len(<<v>>) = 1 /\ <<v>>[1] = v
  OBVIOUS
<1>5. InsertAt(F, i, v) = C \o B
  BY DEF InsertAt
<1> HIDE DEF A, B
<1>6. /\ C \in Seq(Nat) /\ Len(C) = Len(A) + Len(<<v>>)
      /\ \A k \in 1..(Len(A) + Len(<<v>>)) :
           C[k] = IF k <= Len(A) THEN A[k] ELSE <<v>>[k - Len(A)]
  BY <1>2, <1>4, ConcatProperties
<1> HIDE DEF C
<1>7. /\ C \o B \in Seq(Nat) /\ Len(C \o B) = Len(C) + Len(B)
      /\ \A k \in 1..(Len(C) + Len(B)) :
           (C \o B)[k] = IF k <= Len(C) THEN C[k] ELSE B[k - Len(C)]
  BY <1>3, <1>6, ConcatProperties, ZenonT(60)
<1>8. /\ Len(C) = i /\ C[i] = v /\ \A k \in 1..(i - 1) : C[k] = F[k]
  <2>1. Len(C) = i
    BY <1>1, <1>2, <1>4, <1>6
  <2>2. C[i] = <<v>>[i - (i - 1)]
    BY <1>1, <1>2, <1>4, <1>6
  <2>3. i - (i - 1) = 1
    BY <1>1
  <2>4. \A k \in 1..(i - 1) : C[k] = A[k]
    BY <1>1, <1>2, <1>4, <1>6
  <2> QED BY <1>2, <1>4, <2>1, <2>2, <2>3, <2>4
<1>9. Len(C \o B) = Len(F) + 1
  BY <1>1, <1>3, <1>7, <1>8
<1>10. ASSUME NEW k \in 1..(Len(F) + 1)
       PROVE  (C \o B)[k] = IF k < i THEN F[k]
                            ELSE IF k = i THEN v ELSE F[k - 1]
  <2>1. CASE k <= i
    <3>1. k \in 1..(Len(C) + Len(B)) /\ k <= Len(C)
      BY <1>1, <1>3, <1>8, <2>1
    <3>2. (C \o B)[k] = C[k]
      BY <1>7, <3>1
    <3> QED BY <1>1, <1>8, <2>1, <3>2
  <2>2. CASE k > i
    <3>1. (C \o B)[k] = B[k - i]
      <4>1. k \in 1..(Len(C) + Len(B)) /\ ~(k <= Len(C))
        BY <1>1, <1>3, <1>8, <2>2
      <4> QED BY <1>7, <1>8, <4>1
    <3>2. k - i \in 1..(Len(F) - i + 1) /\ k - i + i - 1 = k - 1
      BY <1>1, <2>2
    <3> QED BY <1>3, <2>2, <3>1, <3>2
  <2>3. k <= i \/ k > i
    BY <1>1
  <2> QED BY <2>1, <2>2, <2>3
<1> QED BY <1>5, <1>7, <1>9, <1>10

\* Inserting a block at its place keeps the list ascending.
LEMMA LinkIn ==
  ASSUME NEW F, Ascending(F), NEW i \in 1..(Len(F) + 1), NEW v \in Nat,
         \A k \in 1..Len(F) : (k < i => F[k] < v) /\ (k >= i => v < F[k]),
         NEW G, G = InsertAt(F, i, v)
  PROVE  /\ Ascending(G)
         /\ Range(G) = Range(F) \union {v}
<1>1. PICK n \in Nat : n = Len(F)
  BY ListOf
<1>2. /\ G \in Seq(Nat) /\ Len(G) = n + 1
      /\ \A k \in 1..(n + 1) :
           G[k] = IF k < i THEN F[k] ELSE IF k = i THEN v ELSE F[k - 1]
  <2>1. F \in Seq(Nat)
    BY DEF Ascending
  <2>2. /\ InsertAt(F, i, v) \in Seq(Nat)
        /\ Len(InsertAt(F, i, v)) = Len(F) + 1
        /\ \A k \in 1..(Len(F) + 1) :
             InsertAt(F, i, v)[k] = IF k < i THEN F[k]
                                    ELSE IF k = i THEN v ELSE F[k - 1]
    <3>1. i \in 1..(Len(F) + 1) /\ v \in Nat
      OBVIOUS
    <3>2. InsertAt(F, i, v) \in Seq(Nat)
      BY ONLY <2>1, <3>1, InsertAtIs, SMTT(30)
    <3>3. Len(InsertAt(F, i, v)) = Len(F) + 1
      BY ONLY <2>1, <3>1, InsertAtIs, SMTT(30)
    <3>4. \A k \in 1..(Len(F) + 1) :
             InsertAt(F, i, v)[k] = IF k < i THEN F[k]
                                    ELSE IF k = i THEN v ELSE F[k - 1]
      BY ONLY <2>1, <3>1, InsertAtIs, SMTT(30)
    <3> QED BY <3>2, <3>3, <3>4, Zenon
  <2> QED BY <1>1, <2>2
<1>3. /\ i \in 1..(n + 1) /\ \A k \in 1..n : F[k] \in Nat
      /\ \A j, k \in 1..n : j < k => F[j] < F[k]
      /\ Range(F) = {F[k] : k \in 1..n}
      /\ \A k \in 1..n : (k < i => F[k] < v) /\ (k >= i => v < F[k])
  BY <1>1, ListOf DEF Ascending
<1>4. \A k \in 1..(n + 1) :
        \/ k < i /\ k \in 1..n /\ G[k] = F[k]
        \/ k = i /\ G[k] = v
        \/ k > i /\ k - 1 \in 1..n /\ k - 1 >= i /\ G[k] = F[k - 1]
  BY <1>2, <1>3
<1>5. Ascending(G)
  <2> SUFFICES ASSUME NEW j \in 1..(n + 1), NEW k \in 1..(n + 1), j < k
               PROVE  G[j] < G[k]
    BY <1>2 DEF Ascending
  <2>1. CASE k < i
    BY <1>3, <1>4, <2>1
  <2>2. CASE k = i
    BY <1>3, <1>4, <2>2
  <2>3. CASE k > i
    <3>1. k - 1 \in 1..n /\ k - 1 >= i /\ G[k] = F[k - 1]
      BY <1>4, <2>3
    <3>2. CASE j < i
      <4>1. G[j] = F[j] /\ j \in 1..n /\ j < k - 1
        BY <1>3, <1>4, <3>1, <3>2
      <4> QED BY <1>3, <3>1, <4>1
    <3>3. CASE j = i
      BY <1>3, <1>4, <3>1, <3>3
    <3>4. CASE j > i
      <4>1. G[j] = F[j - 1] /\ j - 1 \in 1..n /\ j - 1 < k - 1
        BY <1>4, <3>4
      <4> QED BY <1>3, <3>1, <4>1
    <3> QED BY <1>3, <3>2, <3>3, <3>4
  <2> QED BY <1>3, <2>1, <2>2, <2>3
<1>6. Range(G) = {G[k] : k \in 1..(n + 1)}
  BY <1>2, <1>5, ListOf
<1>7. \A k \in 1..(n + 1) : G[k] \in Range(F) \union {v}
  BY <1>3, <1>4
<1>8. ASSUME NEW j \in 1..n PROVE F[j] \in Range(G)
  <2>1. CASE j < i
    <3>1. j \in 1..(n + 1) /\ G[j] = F[j]
      BY <1>2, <2>1
    <3> QED BY <1>6, <3>1
  <2>2. CASE ~(j < i)
    <3>1. j + 1 \in 1..(n + 1) /\ j + 1 > i /\ j + 1 - 1 = j
      BY <1>3, <2>2
    <3>2. G[j + 1] = F[j]
      BY <1>3, <1>4, <3>1
    <3> QED BY <1>6, <3>1, <3>2
  <2> QED BY <2>1, <2>2
<1>9. v \in Range(G)
  <2>1. i \in 1..(n + 1) /\ G[i] = v
    BY <1>3, <1>4
  <2> QED BY <1>6, <2>1
<1>10. Range(G) = Range(F) \union {v}
  BY <1>3, <1>6, <1>7, <1>8, <1>9
<1> QED BY <1>5, <1>10

\* Appending a block behind all others keeps the list ascending.
LEMMA LinkLast ==
  ASSUME NEW F, Ascending(F), NEW v \in Nat, \A k \in 1..Len(F) : F[k] < v,
         NEW G, G = Append(F, v)
  PROVE  /\ Ascending(G)
         /\ Range(G) = Range(F) \union {v}
         /\ G[Len(F) + 1] = v /\ Len(G) = Len(F) + 1
<1>1. PICK n \in Nat : n = Len(F)
  BY ListOf
<1>2. /\ G \in Seq(Nat) /\ Len(G) = n + 1 /\ G[n + 1] = v
      /\ \A k \in 1..n : G[k] = F[k]
  BY <1>1, AppendProperties DEF Ascending
<1>3. /\ \A k \in 1..n : F[k] \in Nat /\ F[k] < v
      /\ \A j, k \in 1..n : j < k => F[j] < F[k]
      /\ Range(F) = {F[k] : k \in 1..n}
  BY <1>1, ListOf DEF Ascending
<1>4. \A k \in 1..(n + 1) : k \in 1..n \/ k = n + 1
  OBVIOUS
<1>5. Ascending(G)
  <2> SUFFICES ASSUME NEW j \in 1..(n + 1), NEW k \in 1..(n + 1), j < k
               PROVE  G[j] < G[k]
    BY <1>2 DEF Ascending
  <2>1. j \in 1..n
    OBVIOUS
  <2>2. CASE k \in 1..n
    BY <1>2, <1>3, <2>1, <2>2
  <2>3. CASE k = n + 1
    BY <1>2, <1>3, <2>1, <2>3
  <2> QED BY <1>4, <2>2, <2>3
<1>6. Range(G) = {G[k] : k \in 1..(n + 1)}
  <2>1. Range(G) = {G[k] : k \in 1..Len(G)}
    BY ONLY <1>5, ListOf
  <2> QED BY <1>2, <2>1
<1>7. \A k \in 1..n : k \in 1..(n + 1)
  OBVIOUS
<1>8. n + 1 \in 1..(n + 1)
  OBVIOUS
<1>9. \A k \in 1..n : F[k] \in Range(G)
  BY <1>2, <1>6, <1>7
<1>10. v \in Range(G)
  BY <1>2, <1>6, <1>8
<1>11. \A k \in 1..(n + 1) : G[k] \in Range(F) \union {v}
  BY <1>2, <1>3, <1>4
<1>12. Range(G) = Range(F) \union {v}
  BY <1>3, <1>6, <1>9, <1>10, <1>11
<1> QED BY <1>1, <1>2, <1>5, <1>12

\* Taking the last entry off.
LEMMA UnlinkLast ==
  ASSUME NEW F, Ascending(F), F # <<>>,
         NEW G, G = Front(F)
  PROVE  /\ Len(F) \in 1..Len(F) /\ Last(F) = F[Len(F)]
         /\ Ascending(G) /\ Range(G) = Range(F) \ {Last(F)}
<1>1. PICK n \in Nat \ {0} : n = Len(F)
  BY EmptySeq DEF Ascending
<1>2. /\ \A k \in 1..n : F[k] \in Nat
      /\ \A j, k \in 1..n : j < k => F[j] < F[k]
      /\ Range(F) = {F[k] : k \in 1..n}
  BY <1>1, ListOf DEF Ascending
<1>3. /\ G \in Seq(Nat) /\ Len(G) = n - 1
      /\ \A k \in 1..(n - 1) : G[k] = F[k]
  <2>1. \A k \in 1..(n - 1) : F[k] \in Nat
    BY <1>2
  <2> QED BY <1>1, <2>1, SubSeqProperties DEF Front
<1>4. \A k \in 1..n : k = n \/ k \in 1..(n - 1)
  OBVIOUS
<1>5. \A k \in 1..(n - 1) : k \in 1..n /\ k < n
  OBVIOUS
<1>6. Ascending(G)
  BY <1>2, <1>3, <1>5 DEF Ascending
<1>7. Range(G) = {G[k] : k \in 1..(n - 1)}
  BY <1>3, <1>6, ListOf
<1>8. n \in 1..n
  OBVIOUS
<1>9. \A k \in 1..(n - 1) : G[k] \in Range(F) /\ G[k] # F[n]
  BY <1>2, <1>3, <1>5, <1>8
<1>10. \A k \in 1..n : F[k] = F[n] \/ F[k] \in Range(G)
  BY <1>3, <1>4, <1>7
<1>11. Range(G) = Range(F) \ {F[n]}
  BY <1>2, <1>7, <1>9, <1>10
<1>12. Last(F) = F[n] /\ Len(F) \in 1..Len(F)
  BY <1>1, <1>8 DEF Last
<1> QED BY <1>1, <1>6, <1>11, <1>12

-------------------------------------------------------------------------------
(* The blocks: S maps the address of each to its size. *)

\* The blocks are whole words, large enough for an entry, and tile the memory
\* from Start to e.
Tiles(S, e) ==
  /\ \A b \in DOMAIN S : /\ b \in Words /\ S[b] \in Words
                         /\ Start <= b /\ Entry <= S[b] /\ b + S[b] <= e
  /\ \A a, b \in DOMAIN S : a < b => a + S[a] <= b
  /\ \A x \in Start..(e - 1) : \E b \in DOMAIN S : b <= x /\ x < b + S[b]

\* No two of the blocks in P touch.
Apart(P, S) == \A a, b \in P : a < b => a + S[a] < b

\* The block at b is next to the one at a.
Behind(S, a, b) == a + S[a] = b

\* T is S but for the blocks in C.
SameBut(S, T, C) == \A x \in DOMAIN S \ C : T[x] = S[x]

\* What the arithmetic below needs to know of words.
LEMMA WordsAreNumbers == /\ \A n \in Words : n \in Nat
                         /\ Entry \in Nat /\ Entry > W /\ Entry = W + W
BY DEF Words, Entry

\* No block starts inside another.
LEMMA NoneInside ==
  ASSUME NEW S, NEW e, Tiles(S, e), NEW b \in DOMAIN S, NEW z \in Nat,
         b < z, z < b + S[b]
  PROVE  z \notin DOMAIN S
BY WordsAreNumbers DEF Tiles

\* A block is cut in two.
LEMMA Cut ==
  ASSUME NEW S, NEW T, NEW e \in Nat, Tiles(S, e), NEW b \in DOMAIN S,
         NEW n \in Words, Entry <= n, n + Entry <= S[b],
         DOMAIN T = DOMAIN S \union {b + n}, SameBut(S, T, {b}),
         T[b] = n, T[b + n] = S[b] - n
  PROVE  Tiles(T, e) /\ b + n \notin DOMAIN S
<1> USE WordsAreNumbers
<1>1. /\ b \in Nat /\ S[b] \in Nat /\ n \in Nat /\ n > 0 /\ n < S[b]
      /\ b + S[b] <= e /\ Start <= b
  BY DEF Tiles
<1>2. ASSUME NEW x \in DOMAIN S, x < b + S[b], b < x + S[x] PROVE x = b
  <2>1. x \in Nat /\ S[x] \in Nat
    BY DEF Tiles
  <2>2. ~(x < b)
    BY <1>1, <1>2, <2>1 DEF Tiles
  <2>3. ~(b < x)
    BY <1>1, <1>2, <2>1 DEF Tiles
  <2> QED BY <1>1, <2>1, <2>2, <2>3
<1>3. b + n \notin DOMAIN S
  BY <1>1, <1>2 DEF Tiles
<1>4. ASSUME NEW x \in DOMAIN T
      PROVE  /\ x \in Words /\ T[x] \in Words
             /\ Start <= x /\ Entry <= T[x] /\ x + T[x] <= e
  <2>1. CASE x = b
    BY <1>1, <2>1 DEF Tiles
  <2>2. CASE x = b + n
    <3>1. b + n \in Words /\ S[b] - n \in Words
      BY <1>1, SumsOfWords DEF Tiles
    <3> QED BY <1>1, <2>2, <3>1
  <2>3. CASE x \in DOMAIN S \ {b}
    BY <2>3 DEF Tiles, SameBut
  <2> QED BY <2>1, <2>2, <2>3
<1>5. ASSUME NEW x \in DOMAIN T, NEW y \in DOMAIN T, x < y
      PROVE  x + T[x] <= y
  <2>1. CASE x \in DOMAIN S \ {b} /\ y \in DOMAIN S
    BY <1>5, <2>1 DEF Tiles, SameBut
  <2>2. CASE x \in DOMAIN S \ {b} /\ y = b + n
    <3>1. x \in Nat /\ S[x] \in Nat /\ T[x] = S[x]
      BY <2>2 DEF Tiles, SameBut
    <3>2. x + S[x] <= b
      BY <1>1, <1>2, <1>5, <2>2, <3>1
    <3> QED BY <1>1, <2>2, <3>1, <3>2
  <2>3. CASE x = b /\ y \in DOMAIN S
    <3>1. b + S[b] <= y /\ y \in Nat
      BY <1>5, <2>3 DEF Tiles
    <3> QED BY <1>1, <2>3, <3>1
  <2>4. CASE x = b /\ y = b + n
    BY <1>1, <2>4
  <2>5. CASE x = b + n /\ y \in DOMAIN S
    <3>1. y \in Nat /\ S[y] \in Nat /\ S[y] > 0
      BY <2>5 DEF Tiles
    <3>2. b < y
      BY <1>1, <1>5, <2>5, <3>1
    <3> QED BY <1>1, <2>5, <3>1, <3>2 DEF Tiles
  <2> QED BY <1>1, <1>5, <2>1, <2>2, <2>3, <2>4, <2>5
<1>6. ASSUME NEW x \in Start..(e - 1)
      PROVE  \E a \in DOMAIN T : a <= x /\ x < a + T[a]
  <2>1. PICK a \in DOMAIN S : a <= x /\ x < a + S[a]
    BY DEF Tiles
  <2>2. CASE a # b
    BY <2>1, <2>2 DEF SameBut
  <2>3. CASE a = b /\ x < b + n
    BY <1>1, <2>1, <2>3
  <2>4. CASE a = b /\ ~(x < b + n)
    <3>1. b + n <= x /\ x < b + n + (S[b] - n)
      BY <1>1, <2>1, <2>4
    <3> QED BY <3>1
  <2> QED BY <2>2, <2>3, <2>4
<1> QED BY <1>3, <1>4, <1>5, <1>6 DEF Tiles

\* A block takes in the one behind it.
LEMMA Join ==
  ASSUME NEW S, NEW T, NEW e \in Nat, Tiles(S, e), NEW a \in DOMAIN S,
         NEW b \in DOMAIN S, Behind(S, a, b),
         DOMAIN T = DOMAIN S \ {b}, SameBut(S, T, {a, b}), T[a] = S[a] + S[b]
  PROVE  Tiles(T, e) /\ a \in DOMAIN T
<1> USE WordsAreNumbers
<1>1. /\ a \in Nat /\ S[a] \in Nat /\ S[a] > 0 /\ b \in Nat /\ S[b] \in Nat
      /\ S[b] > 0 /\ a < b /\ b + S[b] <= e /\ Start <= a
      /\ a + S[a] <= b /\ b <= a + S[a]
  <2>1. /\ a \in Nat /\ S[a] \in Nat /\ S[a] > 0 /\ b \in Nat /\ S[b] \in Nat
        /\ S[b] > 0 /\ b + S[b] <= e /\ Start <= a
    BY DEF Tiles
  <2>2. a < b /\ a + S[a] <= b /\ b <= a + S[a]
    BY <2>1 DEF Behind
  <2> QED BY <2>1, <2>2
<1>2. a \in DOMAIN T
  BY <1>1
<1>3. ASSUME NEW x \in DOMAIN T
      PROVE  /\ x \in Words /\ T[x] \in Words
             /\ Start <= x /\ Entry <= T[x] /\ x + T[x] <= e
  <2>1. CASE x = a
    <3>1. S[a] + S[b] \in Words
      BY SumsOfWords DEF Tiles
    <3> QED BY <1>1, <2>1, <3>1 DEF Tiles
  <2>2. CASE x # a
    BY <2>2 DEF Tiles, SameBut
  <2> QED BY <2>1, <2>2
<1>4. ASSUME NEW x \in DOMAIN T, NEW y \in DOMAIN T, x < y
      PROVE  x + T[x] <= y
  <2>1. x \in DOMAIN S /\ y \in DOMAIN S /\ y # b /\ y \in Nat
    BY DEF Tiles
  <2>2. CASE x # a
    BY <1>4, <2>1, <2>2 DEF Tiles, SameBut
  <2>3. CASE x = a
    <3>1. a + S[a] <= y
      BY <1>4, <2>1, <2>3 DEF Tiles
    <3>2. b < y
      BY <1>1, <2>1, <3>1
    <3>3. b + S[b] <= y
      BY <2>1, <3>2 DEF Tiles
    <3> QED BY <1>1, <2>1, <2>3, <3>3
  <2> QED BY <2>2, <2>3
<1>5. ASSUME NEW x \in Start..(e - 1)
      PROVE  \E c \in DOMAIN T : c <= x /\ x < c + T[c]
  <2>1. PICK c \in DOMAIN S : c <= x /\ x < c + S[c]
    BY DEF Tiles
  <2>2. CASE c \notin {a, b}
    BY <2>1, <2>2 DEF SameBut
  <2>3. CASE c \in {a, b}
    <3>1. a <= x /\ x < a + (S[a] + S[b])
      BY <1>1, <2>1, <2>3
    <3> QED BY <1>2, <3>1
  <2> QED BY <2>2, <2>3
<1> QED BY <1>2, <1>3, <1>4, <1>5 DEF Tiles

\* The last block grows.
LEMMA Grow ==
  ASSUME NEW S, NEW T, NEW e \in Nat, Tiles(S, e), NEW b \in DOMAIN S,
         b + S[b] = e, NEW n \in Words, S[b] <= n,
         DOMAIN T = DOMAIN S, SameBut(S, T, {b}), T[b] = n
  PROVE  Tiles(T, b + n)
<1> USE WordsAreNumbers
<1>1. /\ b \in Nat /\ S[b] \in Nat /\ S[b] > 0 /\ n \in Nat /\ e <= b + n
      /\ Start <= b
  BY DEF Tiles
<1>2. ASSUME NEW x \in DOMAIN T
      PROVE  /\ x \in Words /\ T[x] \in Words
             /\ Start <= x /\ Entry <= T[x] /\ x + T[x] <= b + n
  <2>1. CASE x = b
    BY <1>1, <2>1 DEF Tiles
  <2>2. CASE x # b
    <3>1. /\ x \in Words /\ S[x] \in Words /\ T[x] = S[x]
          /\ Start <= x /\ Entry <= S[x] /\ x + S[x] <= e
      BY <2>2 DEF Tiles, SameBut
    <3>2. x \in Nat /\ S[x] \in Nat
      BY <3>1
    <3>3. x + S[x] <= b + n
      BY <1>1, <3>1, <3>2
    <3> QED BY <3>1, <3>3
  <2> QED BY <2>1, <2>2
<1>3. ASSUME NEW x \in DOMAIN T, NEW y \in DOMAIN T, x < y
      PROVE  x + T[x] <= y
  <2>1. CASE x # b
    BY <1>3, <2>1 DEF Tiles, SameBut
  <2>2. CASE x = b
    <3>1. y \in Nat /\ S[y] \in Nat /\ S[y] > 0 /\ y + S[y] <= e
      BY DEF Tiles
    <3>2. b + S[b] <= y
      BY <1>3, <2>2 DEF Tiles
    <3> QED BY <1>1, <3>1, <3>2
  <2> QED BY <2>1, <2>2
<1>4. ASSUME NEW x \in Start..(b + n - 1)
      PROVE  \E c \in DOMAIN T : c <= x /\ x < c + T[c]
  <2>1. CASE x < b
    <3>1. x \in Start..(e - 1)
      BY <1>1, <2>1
    <3>2. PICK c \in DOMAIN S : c <= x /\ x < c + S[c]
      BY <3>1 DEF Tiles
    <3>3. c # b
      BY <1>1, <2>1, <3>2
    <3> QED BY <3>2, <3>3 DEF SameBut
  <2>2. CASE ~(x < b)
    BY <1>1, <2>2
  <2> QED BY <2>1, <2>2
<1> QED BY <1>2, <1>3, <1>4 DEF Tiles

\* A new last block.
LEMMA Extend ==
  ASSUME NEW S, NEW T, NEW e \in Words, Tiles(S, e), Start <= e,
         NEW n \in Words, Entry <= n,
         DOMAIN T = DOMAIN S \union {e}, SameBut(S, T, {e}), T[e] = n
  PROVE  Tiles(T, e + n) /\ e \notin DOMAIN S
<1> USE WordsAreNumbers
<1>1. e \in Nat /\ n \in Nat /\ n > 0 /\ Start \in Nat
  OBVIOUS
<1>2. ASSUME NEW x \in DOMAIN S
      PROVE  /\ x \in Words /\ S[x] \in Words /\ x \in Nat /\ S[x] \in Nat
             /\ Start <= x /\ Entry <= S[x] /\ x + S[x] <= e /\ x < e
  <2>1. /\ x \in Words /\ S[x] \in Words
        /\ Start <= x /\ Entry <= S[x] /\ x + S[x] <= e
    BY DEF Tiles
  <2>2. x \in Nat /\ S[x] \in Nat /\ S[x] > 0
    BY <2>1
  <2> QED BY <1>1, <2>1, <2>2
<1>3. e \notin DOMAIN S
  BY <1>1, <1>2
<1>4. ASSUME NEW x \in DOMAIN T
      PROVE  /\ x \in Words /\ T[x] \in Words
             /\ Start <= x /\ Entry <= T[x] /\ x + T[x] <= e + n
  <2>1. CASE x = e
    BY <1>1, <2>1
  <2>2. CASE x # e
    <3>1. x \in DOMAIN S /\ T[x] = S[x]
      BY <2>2 DEF SameBut
    <3> QED BY <1>1, <1>2, <3>1
  <2> QED BY <2>1, <2>2
<1>5. ASSUME NEW x \in DOMAIN T, NEW y \in DOMAIN T, x < y
      PROVE  x + T[x] <= y
  <2>1. x \in DOMAIN S /\ T[x] = S[x]
    BY <1>1, <1>2, <1>5 DEF SameBut
  <2>2. CASE y \in DOMAIN S
    BY <1>5, <2>1, <2>2 DEF Tiles
  <2>3. CASE y = e
    BY <1>2, <2>1, <2>3
  <2> QED BY <2>2, <2>3
<1>6. ASSUME NEW x \in Start..(e + n - 1)
      PROVE  \E c \in DOMAIN T : c <= x /\ x < c + T[c]
  <2>1. CASE x < e
    <3>1. x \in Start..(e - 1)
      BY <1>1, <2>1
    <3>2. PICK c \in DOMAIN S : c <= x /\ x < c + S[c]
      BY <3>1 DEF Tiles
    <3> QED BY <1>3, <3>2 DEF SameBut
  <2>2. CASE ~(x < e)
    BY <1>1, <2>2
  <2> QED BY <2>1, <2>2
<1> QED BY <1>3, <1>4, <1>5, <1>6 DEF Tiles

\* What is cut off a free block, or left of it, touches no other free one.
LEMMA ApartInside ==
  ASSUME NEW S, NEW T, NEW e \in Nat, Tiles(S, e), NEW P, P \subseteq DOMAIN S,
         Apart(P, S), NEW b \in P, NEW r \in Nat,
         NEW Q, Q \subseteq P \union {r},
         b <= r, r < b + S[b], SameBut(S, T, {b}),
         r \in Q => T[r] \in Nat /\ r + T[r] <= b + S[b],
         b \in Q => /\ T[b] \in Nat /\ T[b] <= S[b]
                    /\ r \in Q \ {b} => b + T[b] < r
  PROVE  Apart(Q, T)
<1> USE WordsAreNumbers
<1>1. /\ b \in Nat /\ S[b] \in Nat /\ S[b] > 0
  BY DEF Tiles
<1>2. ASSUME NEW x \in Q, x # b, x # r
      PROVE  /\ x \in Nat /\ S[x] \in Nat /\ S[x] > 0 /\ T[x] = S[x] /\ x \in P
             /\ x < b => x + S[x] < b
             /\ b < x => b + S[b] < x
  BY <1>2 DEF Tiles, Apart, SameBut
<1> SUFFICES ASSUME NEW x \in Q, NEW y \in Q, x < y
             PROVE  x + T[x] < y
  BY DEF Apart
<1>3. CASE x # b /\ x # r /\ y # b /\ y # r
  BY <1>2, <1>3 DEF Apart
<1>4. CASE x # b /\ x # r /\ (y = b \/ y = r)
  <2>1. x < b
    BY <1>1, <1>2, <1>4
  <2> QED BY <1>1, <1>2, <1>4, <2>1
<1>5. CASE (x = b \/ x = r) /\ y # b /\ y # r
  <2>1. b < y
    BY <1>1, <1>2, <1>5
  <2>2. b + S[b] < y
    BY <1>2, <1>5, <2>1
  <2>3. T[x] \in Nat /\ x + T[x] <= b + S[b]
    BY <1>1, <1>5
  <2> QED BY <1>1, <1>2, <1>5, <2>2, <2>3
<1>6. CASE (x = b \/ x = r) /\ (y = b \/ y = r)
  BY <1>1, <1>6
<1> QED BY <1>3, <1>4, <1>5, <1>6

-------------------------------------------------------------------------------
(* The memory a call works on, and what its writes spare. *)

IsMemory(m) == DOMAIN m = {"free", "size", "end", "brk", "data", "bad"}

\* From m to r the bytes at C stay what they are, and nothing was written
\* behind lim, or before Start.
Spares(m, r, C, lim) ==
  /\ IsMemory(r) /\ r.brk \in Nat /\ m.brk <= r.brk
  /\ \A a \in C : a \in DOMAIN m.data =>
       a \in DOMAIN r.data /\ r.data[a] = m.data[a]
  /\ lim <= m.brk /\ ~m.bad => ~r.bad

\* What a step from m to r does to the blocks: nothing, give the one at y the
\* size s, forget the one at y, or give the free list and the end.
Rewritten(m, r) == r.free = m.free /\ r.size = m.size /\ r.end = m.end

Resized(m, r, y, s) ==
  /\ r.free = m.free /\ r.end = m.end
  /\ DOMAIN r.size = DOMAIN m.size \union {y} /\ r.size[y] = s
  /\ SameBut(m.size, r.size, {y})

Forgotten(m, r, y) ==
  /\ r.free = m.free /\ r.end = m.end
  /\ DOMAIN r.size = DOMAIN m.size \ {y} /\ SameBut(m.size, r.size, {y})

Relisted(m, r, F, e) == r.free = F /\ r.size = m.size /\ r.end = e

\* n bytes at y may be written.
Open(C, lim, y, n) ==
  /\ C \subseteq Nat /\ y \in Nat /\ Start <= y /\ y + n <= lim
  /\ \A a \in C : a < y \/ y + n <= a

\* A part of a range that may be written may be written.
LEMMA OpenParts ==
  ASSUME NEW C, NEW lim \in Nat, NEW y \in Nat, NEW n \in Nat,
         Open(C, lim, y, n), NEW z \in Nat, NEW k \in Nat,
         y <= z, z + k <= y + n
  PROVE  Open(C, lim, z, k)
<1>1. \A a \in C : a \in Nat
  BY DEF Open
<1>2. \A a \in C : a < z \/ z + k <= a
  BY <1>1 DEF Open
<1>3. Start <= z /\ z + k <= lim
  BY DEF Open
<1> QED BY <1>2, <1>3 DEF Open

\* Writing where it is allowed changes no byte of C.
LEMMA PokeIs ==
  ASSUME NEW o, NEW m, NEW C, NEW lim \in Nat, o.brk \in Nat,
         Spares(o, m, C, lim), NEW y, NEW n \in Nat, Open(C, lim, y, n),
         NEW r, r = Poke(m, y, n)
  PROVE  Rewritten(m, r) /\ Spares(o, r, C, lim)
<1> DEFINE hit == y..(y + n - 1)
<1>1. IsMemory(m) /\ m.brk \in Nat /\ o.brk <= m.brk
  BY DEF Spares
<1>2. /\ IsMemory(r) /\ r.free = m.free /\ r.size = m.size
      /\ r.end = m.end /\ r.brk = m.brk
      /\ r.data = [x \in DOMAIN m.data \ hit |-> m.data[x]]
      /\ r.bad = (m.bad \/ y < Start \/ y + n > m.brk)
  BY <1>1 DEF IsMemory, Poke
<1>3. \A a \in C : a \notin hit
  BY DEF Open
<1>4. ~(y < Start) /\ (lim <= o.brk => ~(y + n > m.brk))
  BY <1>1 DEF Open
<1> HIDE DEF hit
<1>5. \A a \in C : a \in DOMAIN o.data =>
        a \in DOMAIN r.data /\ r.data[a] = o.data[a]
  BY <1>2, <1>3 DEF Spares
<1>6. lim <= o.brk /\ ~o.bad => ~r.bad
  BY <1>2, <1>4 DEF Spares
<1> QED BY <1>1, <1>2, <1>5, <1>6 DEF Spares, Rewritten

\* Writing the size of a block changes that size and no byte of C.
LEMMA SetSizeIs ==
  ASSUME NEW o, NEW m, NEW C, NEW lim \in Nat, o.brk \in Nat,
         Spares(o, m, C, lim), NEW y, NEW s, Open(C, lim, y, W),
         NEW r, r = SetSize(m, y, s)
  PROVE  Resized(m, r, y, s) /\ Spares(o, r, C, lim)
<1>1. PICK p : p = Poke(m, y, W)
  OBVIOUS
<1>2. Rewritten(m, p) /\ Spares(o, p, C, lim)
  BY <1>1, PokeIs
<1>3. r = [p EXCEPT !.size =
             [x \in DOMAIN @ \union {y} |-> IF x = y THEN s ELSE @[x]]]
  BY <1>1 DEF SetSize
<1>4. /\ IsMemory(r) /\ r.free = p.free /\ r.end = p.end /\ r.brk = p.brk
      /\ r.data = p.data /\ r.bad = p.bad
      /\ r.size = [x \in DOMAIN p.size \union {y} |->
                     IF x = y THEN s ELSE p.size[x]]
  BY <1>2, <1>3 DEF IsMemory, Spares
<1>5. Spares(o, r, C, lim)
  BY <1>2, <1>4 DEF Spares
<1>6. /\ DOMAIN r.size = DOMAIN m.size \union {y} /\ r.size[y] = s
      /\ SameBut(m.size, r.size, {y})
  BY <1>2, <1>4 DEF SameBut, Rewritten
<1> QED BY <1>2, <1>4, <1>5, <1>6 DEF Resized, Rewritten

\* Writing the next pointer of a free block changes no size.
LEMMA SetNextIs ==
  ASSUME NEW o, NEW m, NEW C, NEW lim \in Nat, o.brk \in Nat,
         Spares(o, m, C, lim), NEW y, Open(C, lim, y, Entry),
         NEW r, r = SetNext(m, y)
  PROVE  Rewritten(m, r) /\ Spares(o, r, C, lim)
<1>1. y \in Nat
  BY DEF Open
<1>2. Open(C, lim, y + W, W)
  BY <1>1, OpenParts, WordsAreNumbers
<1> QED BY <1>2, PokeIs DEF SetNext

\* A header that is merged away is the only one to go.
LEMMA ForgetIs ==
  ASSUME NEW o, NEW m, NEW C, NEW lim, Spares(o, m, C, lim), NEW y,
         NEW r, r = Forget(m, y)
  PROVE  Forgotten(m, r, y) /\ Spares(o, r, C, lim)
<1>1. /\ IsMemory(r) /\ r.free = m.free /\ r.end = m.end /\ r.brk = m.brk
      /\ r.data = m.data /\ r.bad = m.bad
      /\ r.size = [x \in DOMAIN m.size \ {y} |-> m.size[x]]
  BY DEF IsMemory, Forget, Spares
<1>2. Spares(o, r, C, lim)
  BY <1>1 DEF Spares
<1>3. DOMAIN r.size = DOMAIN m.size \ {y} /\ SameBut(m.size, r.size, {y})
  BY <1>1 DEF SameBut
<1> QED BY <1>1, <1>2, <1>3 DEF Forgotten

\* The free list is changed, or __malloc_end is moved.
LEMMA FreeIs ==
  ASSUME NEW o, NEW m, NEW C, NEW lim, Spares(o, m, C, lim), NEW F,
         NEW r, r = [m EXCEPT !.free = F]
  PROVE  Relisted(m, r, F, m.end) /\ Spares(o, r, C, lim)
<1>1. /\ IsMemory(r) /\ r.free = F /\ r.end = m.end /\ r.brk = m.brk
      /\ r.data = m.data /\ r.bad = m.bad /\ r.size = m.size
  BY DEF IsMemory, Spares
<1> QED BY <1>1 DEF Spares, Relisted

\* Moving __malloc_end together with the list changes no size.
LEMMA EndIs ==
  ASSUME NEW o, NEW m, NEW C, NEW lim, Spares(o, m, C, lim), NEW F, NEW e,
         NEW r, r = [m EXCEPT !.free = F, !.end = e]
  PROVE  Relisted(m, r, F, e) /\ Spares(o, r, C, lim)
<1>1. /\ IsMemory(r) /\ r.free = F /\ r.end = e /\ r.brk = m.brk
      /\ r.data = m.data /\ r.bad = m.bad /\ r.size = m.size
  BY DEF IsMemory, Spares
<1> QED BY <1>1 DEF Spares, Relisted

\* A memory whose blocks tile the heap: L are those in use, the others are on
\* the free list, in order, and no two of them touch.
Good(m, L) ==
  /\ IsMemory(m) /\ m.brk \in Nat
  /\ m.end \in Words /\ Start <= m.end /\ Tiles(m.size, m.end)
  /\ Ascending(m.free) /\ Apart(Range(m.free), m.size)
  /\ Range(m.free) \union L = DOMAIN m.size
  /\ Range(m.free) \intersect L = {}

\* The chunks of the blocks in L.
Chunks(L, S) == {a \in Nat : \E x \in L : x + W <= a /\ a < x + S[x]}

\* The blocks in L keep their sizes and their bytes.
Keeps(m, r, L) ==
  /\ \A x \in L : r.size[x] = m.size[x]
  /\ Spares(m, r, Chunks(L, m.size), m.end + W)

\* Sizes and places of the blocks of a good heap.
LEMMA GoodSizes ==
  ASSUME NEW m, NEW L, Good(m, L)
  PROVE  /\ m.end \in Nat /\ Start <= m.end
         /\ \A b \in DOMAIN m.size :
              /\ b \in Words /\ m.size[b] \in Words
              /\ b \in Nat /\ m.size[b] \in Nat
              /\ Start <= b /\ Entry <= m.size[b] /\ b + m.size[b] <= m.end
         /\ \A a, b \in DOMAIN m.size : a < b => a + m.size[a] <= b
         /\ \A i \in 1..Len(m.free) :
              m.free[i] \in DOMAIN m.size /\ m.free[i] \notin L
         /\ L \subseteq DOMAIN m.size
<1>1. Tiles(m.size, m.end) /\ Ascending(m.free)
  BY DEF Good
<1>2. \A n \in Words : n \in Nat
  BY WordsAreNumbers
<1>3. \A i \in 1..Len(m.free) : m.free[i] \in Range(m.free)
  BY <1>1, ListOf
<1> QED BY <1>1, <1>2, <1>3 DEF Good, Tiles

\* A header, or a block that is not in use, is no part of a chunk in use.
LEMMA OutsideChunks ==
  ASSUME NEW m, NEW L, Good(m, L), NEW K, K \subseteq DOMAIN m.size,
         NEW y \in DOMAIN m.size, NEW a \in Chunks(K, m.size)
  PROVE  /\ a \in Nat
         /\ a < y \/ y + W <= a
         /\ y \notin K => a < y \/ y + m.size[y] <= a
<1>1. PICK x \in K : a \in Nat /\ x + W <= a /\ a < x + m.size[x]
  BY DEF Chunks
<1>2. /\ x \in Nat /\ y \in Nat /\ m.size[x] \in Nat /\ m.size[y] \in Nat
      /\ Entry <= m.size[y] /\ x \in DOMAIN m.size
  BY GoodSizes
<1>3. CASE x = y
  BY <1>1, <1>2, <1>3
<1>4. CASE x < y
  <2>1. x + m.size[x] <= y
    BY <1>2, <1>4, GoodSizes
  <2> QED BY <1>1, <1>2, <2>1
<1>5. CASE y < x
  <2>1. y + m.size[y] <= x
    BY <1>2, <1>5, GoodSizes
  <2> QED BY <1>1, <1>2, <2>1, WordsAreNumbers
<1> QED BY <1>2, <1>3, <1>4, <1>5

\* The bytes from lo to hi, of blocks not in K, may be written.
LEMMA OpenBlock ==
  ASSUME NEW m, NEW L, Good(m, L), NEW K, K \subseteq DOMAIN m.size,
         NEW y \in DOMAIN m.size
  PROVE  /\ Open(Chunks(K, m.size), m.end + W, y, W)
         /\ y \notin K => Open(Chunks(K, m.size), m.end + W, y, m.size[y])
         /\ Spares(m, m, Chunks(K, m.size), m.end + W)
         /\ m.end + W \in Nat
<1>1. /\ y \in Nat /\ m.size[y] \in Nat /\ Start <= y /\ Entry <= m.size[y]
      /\ y + m.size[y] <= m.end /\ m.end \in Nat
  BY GoodSizes
<1>2. y + W <= m.end + W /\ y + m.size[y] <= m.end + W /\ m.end + W \in Nat
  BY <1>1, WordsAreNumbers
<1>3. Chunks(K, m.size) \subseteq Nat
  BY DEF Chunks
<1>4. Spares(m, m, Chunks(K, m.size), m.end + W)
  BY DEF Spares, Good
<1> QED BY <1>1, <1>2, <1>3, <1>4, OutsideChunks DEF Open

\* What Good says, and what there is to write to for a block b that is free.
LEMMA GoodParts ==
  ASSUME NEW m, NEW L, Good(m, L)
  PROVE  /\ IsMemory(m) /\ m.brk \in Nat /\ Ascending(m.free)
         /\ Tiles(m.size, m.end) /\ Apart(Range(m.free), m.size)
         /\ m.end \in Words /\ m.end \in Nat /\ Start <= m.end
         /\ m.end + W \in Nat /\ L \subseteq DOMAIN m.size
         /\ Range(m.free) \union L = DOMAIN m.size
         /\ Range(m.free) \intersect L = {}
         /\ Spares(m, m, Chunks(L, m.size), m.end + W)
<1>1. m.end \in Nat /\ m.end + W \in Nat /\ L \subseteq DOMAIN m.size
  BY GoodSizes, WordsAreNumbers
<1>2. IsMemory(m) /\ m.brk \in Nat
  BY DEF Good
<1>3. Spares(m, m, Chunks(L, m.size), m.end + W)
  BY <1>2 DEF Spares
<1> QED BY <1>1, <1>3 DEF Good

\* A block on the free list, which the allocator may write.
LEMMA FreeBlock ==
  ASSUME NEW m, NEW L, Good(m, L), NEW i \in 1..Len(m.free),
         NEW b, b = m.free[i]
  PROVE  /\ b \in DOMAIN m.size /\ b \notin L /\ b \in Range(m.free)
         /\ b \in Words /\ b \in Nat /\ m.size[b] \in Words
         /\ m.size[b] \in Nat /\ Start <= b /\ Entry <= m.size[b]
         /\ b + m.size[b] <= m.end
         /\ Open(Chunks(L, m.size), m.end + W, b, m.size[b])
         /\ Open(Chunks(L, m.size), m.end + W, b, W)
<1>1. b \in DOMAIN m.size /\ b \notin L /\ L \subseteq DOMAIN m.size
  BY GoodSizes
<1>2. /\ b \in Words /\ b \in Nat /\ m.size[b] \in Words
      /\ m.size[b] \in Nat /\ Start <= b /\ Entry <= m.size[b]
      /\ b + m.size[b] <= m.end
  BY <1>1, GoodSizes
<1>3. b \in Range(m.free)
  BY ListOf DEF Good
<1>4. /\ Open(Chunks(L, m.size), m.end + W, b, m.size[b])
      /\ Open(Chunks(L, m.size), m.end + W, b, W)
  BY <1>1, OpenBlock
<1> QED BY <1>1, <1>2, <1>3, <1>4

\* Part of the list, and blocks whose sizes did not change, stay apart.
LEMMA ApartStays ==
  ASSUME NEW P, NEW Q, NEW S, NEW T, Apart(P, S), Q \subseteq P,
         \A x \in Q : T[x] = S[x]
  PROVE  Apart(Q, T)
BY DEF Apart

-------------------------------------------------------------------------------
(* malloc *)

\* What a call that found or made the block b for real bytes leaves.
Gave(m, r, L, b, real) ==
  /\ Good(r, L \union {b}) /\ b \in Nat \ L /\ real <= r.size[b]
  /\ Keeps(m, r, L)

\* A block of the free list is cut: the first part is taken, the rest stays.
LEMMA SplitGives ==
  ASSUME NEW m, NEW L, Good(m, L), NEW i \in 1..Len(m.free),
         NEW b, b = m.free[i],
         NEW real \in Words, Entry <= real, real + Entry <= m.size[b],
         NEW r, r = SetSize(Split(m, i, real), b, real)
  PROVE  Gave(m, r, L, b, real) /\ r.end = m.end
<1> DEFINE C == Chunks(L, m.size)
           lim == m.end + W
<1> USE WordsAreNumbers
<1>1. /\ IsMemory(m) /\ m.brk \in Nat /\ Ascending(m.free)
      /\ Tiles(m.size, m.end) /\ Apart(Range(m.free), m.size)
      /\ m.end \in Words /\ Start <= m.end
      /\ Range(m.free) \union L = DOMAIN m.size
      /\ Range(m.free) \intersect L = {}
  BY DEF Good
<1>2. /\ b \in DOMAIN m.size /\ b \notin L /\ b \in Words /\ b \in Nat
      /\ m.size[b] \in Words /\ m.size[b] \in Nat /\ Start <= b
      /\ b + m.size[b] <= m.end /\ m.end \in Nat /\ real \in Nat
      /\ L \subseteq DOMAIN m.size
  BY GoodSizes
<1>3. PICK rest \in Nat : rest = b + real
  BY <1>2
<1>4. /\ Open(C, lim, b, m.size[b]) /\ Open(C, lim, b, W)
      /\ Spares(m, m, C, lim) /\ lim \in Nat
  BY <1>2, OpenBlock
<1> HIDE DEF C, lim
<1>5. Open(C, lim, rest, W) /\ Open(C, lim, rest, Entry)
  <2>1. W \in Nat /\ Entry \in Nat /\ W < Entry
    OBVIOUS
  <2>2. /\ b <= rest /\ rest + W <= b + m.size[b]
        /\ rest + Entry <= b + m.size[b]
    BY ONLY <1>2, <1>3, <2>1, real + Entry <= m.size[b], SMTT(30)
  <2> QED BY ONLY <1>2, <1>3, <1>4, <2>1, <2>2, OpenParts
<1>6. PICK F : F = [m.free EXCEPT ![i] = rest]
  OBVIOUS
<1>7. PICK m1 : m1 = [m EXCEPT !.free = F]
  OBVIOUS
<1>8. PICK m2 : m2 = SetSize(m1, rest, m.size[b] - real)
  OBVIOUS
<1>9. PICK m3 : m3 = SetNext(m2, rest)
  OBVIOUS
<1>10. r = SetSize(m3, b, real)
  BY <1>1, <1>3, <1>6, <1>7, <1>8, <1>9 DEF Split, IsMemory
<1>11. Relisted(m, m1, F, m.end) /\ Spares(m, m1, C, lim)
  BY <1>4, <1>7, FreeIs, Zenon
<1>12. Resized(m1, m2, rest, m.size[b] - real) /\ Spares(m, m2, C, lim)
  BY <1>1, <1>4, <1>5, <1>8, <1>11, SetSizeIs, Zenon
<1>13. Rewritten(m2, m3) /\ Spares(m, m3, C, lim)
  BY <1>1, <1>4, <1>5, <1>9, <1>12, SetNextIs, Zenon
<1>14. Resized(m3, r, b, real) /\ Spares(m, r, C, lim)
  BY <1>1, <1>4, <1>10, <1>13, SetSizeIs, Zenon
<1>15. rest # b
  BY <1>2, <1>3
<1>16. /\ r.free = F /\ r.end = m.end
       /\ DOMAIN r.size = DOMAIN m.size \union {rest}
       /\ r.size[b] = real /\ r.size[rest] = m.size[b] - real
  BY <1>2, <1>11, <1>12, <1>13, <1>14, <1>15
     DEF SameBut, Relisted, Resized, Rewritten
<1>17. rest \notin DOMAIN m.size
  BY <1>1, <1>2, <1>3, NoneInside, SMTT(30)
<1>18. SameBut(m.size, r.size, {b})
  BY <1>11, <1>12, <1>13, <1>14, <1>17
     DEF SameBut, Relisted, Resized, Rewritten
<1>19. Tiles(r.size, r.end)
  BY <1>1, <1>2, <1>3, <1>16, <1>18, Cut
<1>20. Ascending(r.free) /\ Range(r.free) = (Range(m.free) \ {b}) \union {rest}
  <2>1. ASSUME NEW k \in 1..Len(m.free)
        PROVE  (k < i => m.free[k] < rest) /\ (k > i => rest < m.free[k])
    <3>1. m.free[k] \in DOMAIN m.size /\ m.free[k] \in Nat
      BY GoodSizes
    <3>2. (k < i => m.free[k] < b) /\ (k > i => b < m.free[k])
      BY <1>1 DEF Ascending
    <3>3. k > i => b + m.size[b] <= m.free[k]
      BY <1>2, <3>1, <3>2, GoodSizes
    <3>4. b < rest /\ rest < b + m.size[b]
      BY <1>2, <1>3
    <3>5. k < i => m.free[k] < rest
      BY <1>2, <3>1, <3>2, <3>4
    <3>6. k > i => rest < m.free[k]
      BY <1>2, <3>1, <3>3, <3>4, SMTT(30)
    <3> QED BY <3>5, <3>6
  <2>2. /\ Ascending(F)
        /\ Range(F) = (Range(m.free) \ {m.free[i]}) \union {rest}
    <3>1. \A k \in 1..Len(m.free) :
            (k < i => m.free[k] < rest) /\ (k > i => rest < m.free[k])
      BY <2>1
    <3>2. Ascending(m.free)
      BY <1>1
    <3>3. rest \in Nat /\ i \in 1..Len(m.free)
      BY <1>3
    <3>4. PICK H : H = m.free
      OBVIOUS
    <3>5. Ascending(F) /\ Range(F) = (Range(H) \ {H[i]}) \union {rest}
      BY ONLY <1>6, <3>1, <3>2, <3>3, <3>4, Relink
    <3> QED BY <3>4, <3>5
  <2> QED BY <1>16, <2>2
<1>21. b \in Range(m.free) /\ Range(m.free) \subseteq DOMAIN m.size
  BY <1>1, ListOf
<1>22. Apart(Range(r.free), r.size)
  <2>1. b \notin Range(r.free)
    BY <1>15, <1>20
  <2>2. b <= rest /\ rest < b + m.size[b]
    BY <1>2, <1>3
  <2>3. r.size[rest] \in Nat /\ rest + r.size[rest] <= b + m.size[b]
    BY <1>2, <1>3, <1>16, SMTT(30)
  <2> QED BY <1>1, <1>2, <1>18, <1>20, <1>21, <2>1, <2>2, <2>3, ApartInside
<1>23. /\ Range(r.free) \union (L \union {b}) = DOMAIN r.size
       /\ Range(r.free) \intersect (L \union {b}) = {}
  BY <1>1, <1>2, <1>15, <1>16, <1>17, <1>20, <1>21
<1>24. Good(r, L \union {b})
  BY <1>1, <1>14, <1>16, <1>19, <1>20, <1>22, <1>23 DEF Good, Spares
<1>25. Keeps(m, r, L)
  BY <1>2, <1>14, <1>18 DEF Keeps, SameBut, C, lim
<1> QED BY <1>2, <1>16, <1>24, <1>25 DEF Gave

\* All of a free block is taken.
LEMMA RemoveGives ==
  ASSUME NEW m, NEW L, Good(m, L), NEW i \in 1..Len(m.free),
         NEW b, b = m.free[i], NEW real, real <= m.size[b],
         NEW r, r = [m EXCEPT !.free = RemoveAt(m.free, i)]
  PROVE  Gave(m, r, L, b, real) /\ r.end = m.end
<1> DEFINE C == Chunks(L, m.size)
           lim == m.end + W
<1>1. PICK F : F = RemoveAt(m.free, i)
  OBVIOUS
<1>2. Ascending(m.free) /\ Spares(m, m, C, lim)
  BY GoodParts
<1>3. Ascending(F) /\ Range(F) = Range(m.free) \ {b}
  <2>1. PICK H : H = m.free
    OBVIOUS
  <2>2. Ascending(H) /\ i \in 1..Len(H) /\ F = RemoveAt(H, i)
    BY <1>1, <1>2, <2>1
  <2>3. Ascending(F) /\ Range(F) = Range(H) \ {H[i]}
    BY ONLY <2>2, Unlink
  <2> QED BY <2>1, <2>3
<1> HIDE DEF C, lim
<1>4. r = [m EXCEPT !.free = F]
  BY <1>1
<1>5. Relisted(m, r, F, m.end) /\ Spares(m, r, C, lim)
  BY ONLY <1>2, <1>4, FreeIs
<1>6. r.free = F /\ r.size = m.size /\ r.end = m.end
  BY <1>5 DEF Relisted
<1>7. b \in DOMAIN m.size /\ b \notin L /\ b \in Range(m.free) /\ b \in Nat
  BY FreeBlock
<1>8. Good(r, L \union {b})
  <2>1. Apart(Range(r.free), r.size)
    BY <1>3, <1>6, ApartStays DEF Good
  <2>2. /\ Range(r.free) \union (L \union {b}) = DOMAIN r.size
        /\ Range(r.free) \intersect (L \union {b}) = {}
    BY <1>3, <1>6, <1>7 DEF Good
  <2> QED BY <1>3, <1>5, <1>6, <2>1, <2>2 DEF Good, Spares
<1>9. Keeps(m, r, L)
  BY <1>5, <1>6 DEF Keeps, C, lim
<1> QED BY <1>6, <1>7, <1>8, <1>9 DEF Gave

\* The first-fit branch of malloc.
LEMMA TakeFreeGives ==
  ASSUME NEW m, NEW L, Good(m, L), NEW i \in 1..Len(m.free),
         NEW b, b = m.free[i], NEW real \in Words, Entry <= real,
         real + Entry < WordSpan, real <= m.size[b],
         NEW r, r = TakeFree(m, i, real)
  PROVE  Gave(m, r, L, b, real) /\ r.end = m.end
<1>1. real \in Nat /\ m.size[b] \in Nat /\ Entry \in Nat
  BY FreeBlock, WordsAreNumbers
<1>2. Add(real, Entry) = real + Entry
  BY ONLY <1>1, real + Entry < WordSpan, WordAssumption, SMT DEF Add
<1>3. CASE m.size[b] < Add(real, Entry)
  <2>1. r = [m EXCEPT !.free = RemoveAt(m.free, i)]
    BY <1>3 DEF TakeFree, Good, IsMemory
  <2> QED BY <2>1, RemoveGives
<1>4. CASE ~(m.size[b] < Add(real, Entry))
  <2>1. r = SetSize(Split(m, i, real), b, real)
    BY <1>4 DEF TakeFree
  <2>2. real + Entry <= m.size[b]
    BY <1>1, <1>2, <1>4
  <2> QED BY <2>1, <2>2, SplitGives
<1> QED BY <1>3, <1>4

\* A new block is made at the end of the heap.
LEMMA NewLastGives ==
  ASSUME NEW m, NEW L, Good(m, L), NEW real \in Words, Entry <= real,
         NEW r, r = SetSize([m EXCEPT !.free = m.free, !.end = m.end + real],
                            m.end, real)
  PROVE  /\ Gave(m, r, L, m.end, real) /\ r.end = m.end + real
         /\ r.free = m.free /\ m.end \notin DOMAIN m.size
<1> DEFINE C == Chunks(L, m.size)
           lim == m.end + W
<1> USE WordsAreNumbers
<1>1. PICK b : b = m.end
  OBVIOUS
<1>2. /\ m.brk \in Nat /\ Ascending(m.free) /\ Tiles(m.size, b)
      /\ Apart(Range(m.free), m.size) /\ b \in Words /\ b \in Nat
      /\ Start <= b /\ lim \in Nat /\ L \subseteq DOMAIN m.size
      /\ Range(m.free) \union L = DOMAIN m.size
      /\ Range(m.free) \intersect L = {}
      /\ Spares(m, m, C, lim)
  BY <1>1, GoodParts
<1>3. Open(C, lim, b, W)
  <2>1. ASSUME NEW a \in C PROVE a \in Nat /\ a < b
    <3>1. PICK x \in L : a \in Nat /\ a < x + m.size[x]
      BY DEF Chunks
    <3>2. x \in Nat /\ m.size[x] \in Nat /\ x + m.size[x] <= b
      BY <1>1, <1>2, GoodSizes
    <3> QED BY <1>2, <3>1, <3>2
  <2>2. b + W <= lim
    BY <1>1, <1>2
  <2> QED BY <1>2, <2>1, <2>2 DEF Open
<1>4. PICK m1 : m1 = [m EXCEPT !.free = m.free, !.end = b + real]
  OBVIOUS
<1>5. r = SetSize(m1, b, real)
  BY <1>1, <1>4
<1> HIDE DEF C, lim
<1>6. Relisted(m, m1, m.free, b + real) /\ Spares(m, m1, C, lim)
  BY ONLY <1>2, <1>4, EndIs
<1>7. Resized(m1, r, b, real) /\ Spares(m, r, C, lim)
  BY ONLY <1>2, <1>3, <1>5, <1>6, SetSizeIs
<1>8. /\ r.free = m.free /\ r.end = b + real
      /\ DOMAIN r.size = DOMAIN m.size \union {b} /\ r.size[b] = real
      /\ SameBut(m.size, r.size, {b})
  BY <1>6, <1>7 DEF Relisted, Resized
<1>9. Tiles(r.size, b + real) /\ b \notin DOMAIN m.size
  BY ONLY <1>2, <1>8, Extend, real \in Words, Entry <= real
<1>10. Good(r, L \union {b})
  <2>1. Apart(Range(r.free), r.size)
    <3>1. \A x \in Range(m.free) : r.size[x] = m.size[x]
      BY <1>2, <1>8, <1>9 DEF SameBut
    <3> QED BY <1>2, <1>8, <3>1, ApartStays
  <2>2. /\ Range(r.free) \union (L \union {b}) = DOMAIN r.size
        /\ Range(r.free) \intersect (L \union {b}) = {}
    BY <1>2, <1>8, <1>9
  <2>3. b + real \in Words /\ Start <= b + real
    BY <1>2, SumsOfWords
  <2>4. IsMemory(r) /\ r.brk \in Nat
    BY <1>7 DEF Spares
  <2> QED BY <1>2, <1>8, <1>9, <2>1, <2>2, <2>3, <2>4 DEF Good
<1>11. Keeps(m, r, L)
  BY <1>2, <1>7, <1>8, <1>9 DEF Keeps, SameBut, C, lim
<1> QED BY <1>1, <1>2, <1>8, <1>9, <1>10, <1>11 DEF Gave

\* The last block is free and reaches the end: it grows.
LEMMA LastGrows ==
  ASSUME NEW m, NEW L, Good(m, L), NEW b \in Range(m.free),
         b + m.size[b] = m.end,
         NEW real \in Words, m.size[b] <= real,
         NEW F, Ascending(F), Range(F) = Range(m.free) \ {b},
         NEW m1, Relisted(m, m1, F, b + real),
         Spares(m, m1, Chunks(L, m.size), m.end + W),
         NEW r, r = SetSize(m1, b, real)
  PROVE  Gave(m, r, L, b, real) /\ r.end = b + real
<1> DEFINE C == Chunks(L, m.size)
           lim == m.end + W
<1> USE WordsAreNumbers
<1>1. /\ m.brk \in Nat /\ Ascending(m.free) /\ Tiles(m.size, m.end)
      /\ Apart(Range(m.free), m.size) /\ m.end \in Words /\ m.end \in Nat
      /\ Start <= m.end /\ lim \in Nat /\ L \subseteq DOMAIN m.size
      /\ Range(m.free) \union L = DOMAIN m.size
      /\ Range(m.free) \intersect L = {}
      /\ Spares(m, m, C, lim)
  BY GoodParts
<1>4. /\ b \in DOMAIN m.size /\ b \notin L /\ b \in Range(m.free)
      /\ b \in Words /\ b \in Nat /\ m.size[b] \in Nat /\ Start <= b
      /\ Open(C, lim, b, W)
  <2>1. PICK i \in 1..Len(m.free) : b = m.free[i]
    BY <1>1, ListOf
  <2> QED BY <2>1, FreeBlock
<1>7. Relisted(m, m1, F, b + real) /\ Spares(m, m1, C, lim)
  OBVIOUS
<1> HIDE DEF C, lim
<1>8. Resized(m1, r, b, real) /\ Spares(m, r, C, lim)
  <2>1. r = SetSize(m1, b, real)
    OBVIOUS
  <2> QED BY ONLY <1>1, <1>4, <1>7, <2>1, SetSizeIs
<1>9. /\ r.free = F /\ r.end = b + real
      /\ DOMAIN r.size = DOMAIN m.size /\ r.size[b] = real
      /\ SameBut(m.size, r.size, {b})
  BY <1>4, <1>7, <1>8 DEF Relisted, Resized
<1>10. Tiles(r.size, b + real)
  BY <1>1, <1>4, <1>9, Grow
<1>11. Good(r, L \union {b})
  <2>1. Apart(Range(r.free), r.size)
    <3>1. /\ Range(F) \subseteq Range(m.free)
          /\ \A x \in Range(F) : r.size[x] = m.size[x]
      BY <1>1, <1>9 DEF SameBut
    <3> QED BY <1>1, <1>9, <3>1, ApartStays
  <2>2. /\ Range(r.free) \union (L \union {b}) = DOMAIN r.size
        /\ Range(r.free) \intersect (L \union {b}) = {}
    BY <1>1, <1>4, <1>9
  <2>3. b + real \in Words /\ Start <= b + real
    BY <1>4, SumsOfWords
  <2>4. IsMemory(r) /\ r.brk \in Nat
    BY <1>8 DEF Spares
  <2> QED BY <1>9, <1>10, <2>1, <2>2, <2>3, <2>4 DEF Good
<1>12. Keeps(m, r, L)
  BY <1>1, <1>4, <1>8, <1>9 DEF Keeps, SameBut, C, lim
<1> QED BY <1>4, <1>9, <1>11, <1>12 DEF Gave

\* The runtime refuses no break that the allocator can ask for.
Granting == WordSpan <= BrkLimit

\* Then the break is behind the word after the heap, and nothing was written
\* behind it.
HasBreak(m) == Granting => m.end + W <= m.brk /\ ~m.bad

\* The heap as malloc finds it: the first call sets __malloc_end.
Awake(m) == [m EXCEPT !.end = IF @ = Null THEN Start ELSE @]

\* What CAN_ALLOC_P grants leaves the gap.
LEMMA CanAllocIs ==
  ASSUME NEW m, m.end \in Nat, NEW f \in Frames, m.end + Gap <= f,
         NEW n \in Nat, CanAlloc(m, f, n)
  PROVE  m.end + n + Gap <= f
<1>1. PICK e \in Nat : e = m.end
  OBVIOUS
<1>2. f \in 0..(WordSpan - 1) /\ f - (e + Gap) \in 0..(WordSpan - 1)
  BY <1>1
<1>3. PICK d \in 0..(WordSpan - 1) : d = f - (e + Gap)
  BY <1>2
<1>4. d % WordSpan = d
  BY <1>3, SMT
<1>5. d >= n
  BY <1>1, <1>3, <1>4 DEF CanAlloc, Sub
<1> QED BY <1>1, <1>2, <1>3, <1>5

\* CHECK_RANGE asks for the block and the word behind it.
LEMMA CheckRangeGives ==
  ASSUME NEW m, NEW L, Good(m, L), NEW g, NEW b, NEW real \in Nat,
         Gave(m, g, L, b, real), g.end + W < WordSpan,
         g.end = m.end \/ g.end = b + real,
         NEW r, r = CheckRange(g, b + W, real)
  PROVE  /\ Gave(m, r, L, b, real) /\ r.end = g.end
         /\ HasBreak(m) => HasBreak(r)
<1> DEFINE C == Chunks(L, m.size)
           lim == m.end + W
<1> USE WordsAreNumbers
<1>1. /\ Good(g, L \union {b}) /\ b \in Nat \ L /\ real <= g.size[b]
      /\ \A x \in L : g.size[x] = m.size[x]
      /\ Spares(m, g, C, lim)
  BY DEF Gave, Keeps
<1>2. /\ b \in DOMAIN g.size /\ g.size[b] \in Nat /\ g.end \in Nat
      /\ b + g.size[b] <= g.end /\ g.brk \in Nat /\ IsMemory(g)
      /\ m.end \in Nat /\ m.brk \in Nat
  <2>1. L \union {b} \subseteq DOMAIN g.size /\ g.end \in Nat
    BY <1>1, GoodSizes
  <2>2. /\ b \in DOMAIN g.size /\ g.size[b] \in Nat
        /\ b + g.size[b] <= g.end
    BY <1>1, <2>1, GoodSizes
  <2>3. g.brk \in Nat /\ IsMemory(g)
    BY <1>1 DEF Good
  <2>4. m.brk \in Nat /\ m.end \in Nat
    BY GoodParts
  <2> QED BY <2>1, <2>2, <2>3, <2>4
<1> HIDE DEF C, lim
<1>3. b + W + real \in 0..(WordSpan - 1)
  BY <1>1, <1>2
<1>4. Add(b + W, real) = b + W + real
  BY <1>1, <1>3, SMT DEF Add
<1>5. r = [g EXCEPT !.brk = IF b + W + real > g.brk /\ b + W + real <= BrkLimit
                            THEN b + W + real ELSE g.brk]
  BY <1>2, <1>4 DEF CheckRange, IsMemory
<1>6. /\ IsMemory(r) /\ r.free = g.free /\ r.size = g.size /\ r.end = g.end
      /\ r.data = g.data /\ r.bad = g.bad
      /\ r.brk = IF b + W + real > g.brk /\ b + W + real <= BrkLimit
                 THEN b + W + real ELSE g.brk
  BY <1>2, <1>5 DEF IsMemory
<1>7. /\ r.brk \in Nat /\ g.brk <= r.brk
      /\ Granting => b + W + real <= r.brk
  <2>1. BrkLimit \in Nat
    BY HeapAssumption
  <2>2. Granting => b + W + real <= BrkLimit
    BY <1>3, <2>1 DEF Granting
  <2> QED BY <1>1, <1>2, <1>6, <2>2
<1>8. Good(r, L \union {b})
  BY <1>1, <1>6, <1>7 DEF Good
<1>9. Spares(m, r, C, lim)
  BY <1>1, <1>2, <1>6, <1>7 DEF Spares
<1>10. Keeps(m, r, L)
  BY <1>1, <1>6, <1>9 DEF Keeps, C, lim
<1>11. ASSUME HasBreak(m), Granting PROVE r.end + W <= r.brk /\ ~r.bad
  <2>1. ~r.bad /\ m.brk <= r.brk /\ m.end + W <= m.brk
    BY <1>9, <1>11 DEF HasBreak, Spares, lim
  <2>2. r.end + W <= r.brk
    BY <1>1, <1>2, <1>6, <1>7, <1>11, <2>1
  <2> QED BY <2>1, <2>2
<1>12. HasBreak(m) => HasBreak(r)
  BY <1>11 DEF HasBreak
<1> QED BY <1>1, <1>6, <1>8, <1>10, <1>12 DEF Gave

\* Where malloc takes the block from.
Fits(m, real) == {i \in DOMAIN m.free : m.size[m.free[i]] >= real}

\* malloc answers NULL and changes nothing, or hands out a block no one has.
LEMMA MallocGives ==
  ASSUME NEW m0, NEW m, m = Awake(m0), NEW L, Good(m, L),
         NEW f \in Frames, m.end + Gap <= f, NEW sz, Modest(sz),
         NEW r, r = Malloc(m0, sz, f)
  PROVE  /\ r.ptr = Null => r.mem = m
         /\ r.ptr # Null => \E b :
              r.ptr = b + W /\ Gave(m, r.mem, L, b, RealSize(sz))
         /\ r.mem.end = m.end \/ r.mem.end + Gap <= f
         /\ HasBreak(m) => HasBreak(r.mem)
<1> USE WordsAreNumbers
<1>1. PICK real : real = RealSize(sz)
  OBVIOUS
<1>2. /\ real \in Words /\ real \in Nat /\ Entry <= real
      /\ real + Entry < WordSpan
  BY <1>1, RealSizes
<1>3. /\ Ascending(m.free) /\ m.end \in Nat /\ m.end + W < WordSpan
      /\ f \in 0..(WordSpan - 1)
  BY GoodParts
<1>4. /\ Len(m.free) \in Nat /\ DOMAIN m.free = 1..Len(m.free)
      /\ \A i \in 1..Len(m.free) : m.size[m.free[i]] \in Nat
  BY <1>3, ListOf, GoodSizes
<1>5. ASSUME NEW b, NEW g, Gave(m, g, L, b, real),
             g.end = m.end \/ (g.end = b + real /\ g.end + Gap <= f),
             r = Answer(b + W, CheckRange(g, b + W, real))
      PROVE  /\ r.ptr # Null
             /\ r.ptr = b + W /\ Gave(m, r.mem, L, b, real)
             /\ r.mem.end = m.end \/ r.mem.end + Gap <= f
             /\ HasBreak(m) => HasBreak(r.mem)
  <2>1. r.ptr = b + W /\ r.mem = CheckRange(g, b + W, real)
    BY <1>5 DEF Answer
  <2>2. g.end \in Nat /\ b \in Nat
    BY <1>5, GoodParts DEF Gave
  <2>3. g.end + W < WordSpan
    BY <1>3, <1>5, <2>2
  <2>4. PICK c : c = CheckRange(g, b + W, real)
    OBVIOUS
  <2>5. /\ Gave(m, c, L, b, real) /\ c.end = g.end
        /\ HasBreak(m) => HasBreak(c)
    <3>1. /\ Good(m, L) /\ real \in Nat /\ Gave(m, g, L, b, real)
          /\ g.end = m.end \/ g.end = b + real
      BY <1>2, <1>5
    <3> QED BY ONLY <3>1, <2>3, <2>4, CheckRangeGives
  <2>6. b + W # Null
    BY <2>2 DEF Null
  <2> QED BY <1>5, <2>1, <2>4, <2>5, <2>6
<1>6. CASE Fits(m, real) # {}
  <2>1. PICK i : i = Min(Fits(m, real))
    OBVIOUS
  <2>2. i \in 1..Len(m.free) /\ real <= m.size[m.free[i]]
    <3>1. Fits(m, real) \subseteq Nat
      BY <1>4 DEF Fits
    <3>2. i \in Fits(m, real)
      BY <1>6, <2>1, <3>1, MinIsLeast
    <3> QED BY <1>2, <1>4, <3>2 DEF Fits
  <2>3. PICK g : g = TakeFree(m, i, real)
    OBVIOUS
  <2>4. r = Answer(m.free[i] + W, CheckRange(g, m.free[i] + W, real))
    BY <1>1, <1>6, <2>1, <2>3, Zenon DEF Malloc, Awake, Fits
  <2>5. PICK b : b = m.free[i]
    OBVIOUS
  <2>6. Gave(m, g, L, b, real) /\ g.end = m.end
    BY <1>2, <2>2, <2>3, <2>5, TakeFreeGives
  <2>7. r = Answer(b + W, CheckRange(g, b + W, real))
    BY <2>4, <2>5
  <2> QED BY <1>1, <1>5, <2>6, <2>7
<1>7. CASE Fits(m, real) = {} /\ LastIsAtEnd(m)
  <2>1. PICK b : b = Last(m.free)
    OBVIOUS
  <2>2. /\ m.free # <<>> /\ b + m.size[b] = m.end
        /\ Len(m.free) \in 1..Len(m.free) /\ b = m.free[Len(m.free)]
    <3>1. m.free # <<>> /\ b + m.size[b] = m.end
      BY <1>7, <2>1 DEF LastIsAtEnd
    <3>2. PICK G : G = Front(m.free)
      OBVIOUS
    <3>3. Len(m.free) \in 1..Len(m.free) /\ b = m.free[Len(m.free)]
      BY <1>3, <2>1, <3>1, <3>2, UnlinkLast
    <3> QED BY <3>1, <3>3
  <2>3. b \in Nat /\ m.size[b] \in Nat /\ m.size[b] < real
    <3>1. b \in Nat /\ m.size[b] \in Nat
      BY <2>2, FreeBlock
    <3>2. ~(m.size[b] >= real)
      BY <1>4, <1>7, <2>2 DEF Fits
    <3> QED BY <1>2, <3>1, <3>2
  <2>4. PICK more : more = Sub(real, m.size[b])
    OBVIOUS
  <2>5. more \in Nat /\ more = real - m.size[b]
    <3>1. PICK d \in 0..(WordSpan - 1) : d = real - m.size[b]
      BY <1>2, <2>3
    <3>2. d % WordSpan = d
      BY <3>1, SMT
    <3> QED BY <2>4, <3>1, <3>2 DEF Sub
  <2>6. CASE ~CanAlloc(m, f, more)
    <3>1. r = Answer(Null, m)
      BY <1>1, <1>7, <2>1, <2>4, <2>6, Zenon DEF Malloc, Awake, Fits
    <3> QED BY <3>1 DEF Answer
  <2>7. CASE CanAlloc(m, f, more)
    <3>6. PICK F : F = Front(m.free)
      OBVIOUS
    <3>7. PICK m1 : m1 = [m EXCEPT !.free = F, !.end = b + real]
      OBVIOUS
    <3>1. PICK g : g = SetSize(m1, b, real)
      OBVIOUS
    <3>2. r = Answer(b + W, CheckRange(g, b + W, real))
      BY <1>1, <1>7, <2>1, <2>4, <2>7, <3>1, <3>6, <3>7 DEF Malloc, Awake, Fits
    <3>3. m.end + more + Gap <= f
      BY <1>3, <2>5, <2>7, CanAllocIs
    <3>4. Gave(m, g, L, b, real) /\ g.end = b + real
      <4>1. /\ Good(m, L) /\ real \in Words /\ m.size[b] <= real
            /\ b + m.size[b] = m.end
        BY <1>2, <2>2, <2>3
      <4>2. b \in Range(m.free)
        BY <1>3, <2>2, ListOf
      <4>3. Ascending(F) /\ Range(F) = Range(m.free) \ {b}
        BY <1>3, <2>1, <2>2, <3>6, UnlinkLast
      <4>4. /\ Relisted(m, m1, F, b + real)
            /\ Spares(m, m1, Chunks(L, m.size), m.end + W)
        <5>1. Spares(m, m, Chunks(L, m.size), m.end + W)
          BY GoodParts
        <5> QED BY <3>7, <5>1, EndIs, Zenon
      <4> QED BY ONLY <3>1, <4>1, <4>2, <4>3, <4>4, LastGrows
    <3>5. g.end + Gap <= f
      BY <1>2, <2>2, <2>3, <2>5, <3>3, <3>4, SMTT(30)
    <3> QED BY <1>1, <1>5, <3>2, <3>4, <3>5
  <2> QED BY <2>6, <2>7
<1>8. CASE Fits(m, real) = {} /\ ~LastIsAtEnd(m)
  <2>1. CASE ~CanAlloc(m, f, real)
    <3>1. r = Answer(Null, m)
      BY <1>1, <1>8, <2>1, Zenon DEF Malloc, Awake, Fits
    <3> QED BY <3>1 DEF Answer
  <2>2. CASE CanAlloc(m, f, real)
    <3>1. PICK b : b = m.end
      OBVIOUS
    <3>2. PICK g : g = SetSize([m EXCEPT !.free = m.free, !.end = b + real],
                               b, real)
      OBVIOUS
    <3>3. r = Answer(b + W, CheckRange(g, b + W, real))
      BY <1>1, <1>8, <2>2, <3>1, <3>2 DEF Malloc, Awake, Fits
    <3>4. Gave(m, g, L, b, real) /\ g.end = b + real
      BY ONLY <1>2, <3>1, <3>2, Good(m, L), NewLastGives
    <3>5. g.end + Gap <= f
      BY <1>2, <1>3, <2>2, <3>1, <3>4, CanAllocIs
    <3> QED BY <1>1, <1>5, <3>3, <3>4, <3>5
  <2> QED BY <2>1, <2>2
<1> QED BY <1>6, <1>7, <1>8

-------------------------------------------------------------------------------
(* free *)

\* What a call that gave up the block b leaves.
TookBack(m, r, L, b) ==
  Good(r, L \ {b}) /\ Keeps(m, r, L \ {b}) /\ r.end = m.end

\* The block b that is given up, and what may be written while the others
\* keep their bytes.
LEMMA LiveBlock ==
  ASSUME NEW m, NEW L, Good(m, L), NEW b \in L
  PROVE  /\ b \in DOMAIN m.size /\ b \notin Range(m.free)
         /\ b \in Words /\ b \in Nat /\ m.size[b] \in Words
         /\ m.size[b] \in Nat /\ Start <= b /\ Entry <= m.size[b]
         /\ b + m.size[b] <= m.end
         /\ L \ {b} \subseteq DOMAIN m.size
         /\ Spares(m, m, Chunks(L \ {b}, m.size), m.end + W)
         /\ Open(Chunks(L \ {b}, m.size), m.end + W, b, m.size[b])
         /\ Open(Chunks(L \ {b}, m.size), m.end + W, b, Entry)
         /\ \A y \in DOMAIN m.size :
              Open(Chunks(L \ {b}, m.size), m.end + W, y, W)
<1> DEFINE K == L \ {b}
<1>1. L \subseteq DOMAIN m.size /\ m.end + W \in Nat
  BY GoodParts
<1>2. K \subseteq DOMAIN m.size /\ b \in DOMAIN m.size /\ b \notin K
  BY <1>1
<1>3. b \notin Range(m.free)
  BY GoodParts
<1>4. /\ b \in Words /\ b \in Nat /\ m.size[b] \in Words
      /\ m.size[b] \in Nat /\ Start <= b /\ Entry <= m.size[b]
      /\ b + m.size[b] <= m.end
  BY <1>2, GoodSizes
<1> HIDE DEF K
<1>5. \A y \in DOMAIN m.size : Open(Chunks(K, m.size), m.end + W, y, W)
  BY <1>2, OpenBlock
<1>6. /\ Open(Chunks(K, m.size), m.end + W, b, m.size[b])
      /\ Spares(m, m, Chunks(K, m.size), m.end + W)
  BY <1>2, OpenBlock
<1>7. Open(Chunks(K, m.size), m.end + W, b, Entry)
  <2>1. Entry \in Nat
    BY WordsAreNumbers
  <2>2. b <= b /\ b + Entry <= b + m.size[b]
    BY <1>4, <2>1
  <2> QED BY ONLY <1>1, <1>4, <1>6, <2>1, <2>2, OpenParts
<1> QED BY <1>2, <1>3, <1>4, <1>5, <1>6, <1>7 DEF K

\* The block becomes an entry of its own.
LEMMA LinkedGives ==
  ASSUME NEW m, NEW L, Good(m, L), NEW b \in L,
         \A x \in Range(m.free) : /\ x < b => x + m.size[x] # b
                                  /\ x # b + m.size[b],
         NEW F, Ascending(F), Range(F) = Range(m.free) \union {b},
         NEW m1, Relisted(m, m1, F, m.end),
         Spares(m, m1, Chunks(L \ {b}, m.size), m.end + W),
         NEW r, r = SetNext(m1, b)
  PROVE  TookBack(m, r, L, b)
<1> DEFINE C == Chunks(L \ {b}, m.size)
           lim == m.end + W
<1>1. /\ m.brk \in Nat /\ Tiles(m.size, m.end)
      /\ Apart(Range(m.free), m.size) /\ m.end \in Words
      /\ Start <= m.end /\ lim \in Nat
      /\ Range(m.free) \union L = DOMAIN m.size
      /\ Range(m.free) \intersect L = {}
  BY GoodParts
<1>2. /\ b \in DOMAIN m.size /\ b \in Nat /\ m.size[b] \in Nat
      /\ Open(C, lim, b, Entry)
  BY LiveBlock
<1> HIDE DEF C, lim
<1>3. Spares(m, m1, C, lim)
  BY DEF C, lim
<1>4. Rewritten(m1, r) /\ Spares(m, r, C, lim)
  <2>1. r = SetNext(m1, b)
    OBVIOUS
  <2> QED BY ONLY <1>1, <1>2, <1>3, <2>1, SetNextIs
<1>5. r.free = F /\ r.size = m.size /\ r.end = m.end
  BY <1>4 DEF Rewritten, Relisted
<1>6. Apart(Range(r.free), r.size)
  <2>1. ASSUME NEW x \in Range(m.free), NEW y \in Range(m.free), x < y
        PROVE  x + m.size[x] < y
    BY <1>1, <2>1 DEF Apart
  <2>2. ASSUME NEW x \in Range(m.free)
        PROVE  /\ x < b => x + m.size[x] < b
               /\ b < x => b + m.size[b] < x
    <3>1. x \in DOMAIN m.size /\ x \in Nat /\ m.size[x] \in Nat
      BY <1>1, GoodSizes
    <3>2. /\ x < b => x + m.size[x] <= b
          /\ b < x => b + m.size[b] <= x
      BY <1>2, <3>1, GoodSizes
    <3> QED BY <1>2, <3>1, <3>2
  <2> QED BY <1>2, <1>5, <2>1, <2>2 DEF Apart
<1>7. Good(r, L \ {b})
  <2>1. /\ Range(r.free) \union (L \ {b}) = DOMAIN r.size
        /\ Range(r.free) \intersect (L \ {b}) = {}
    BY <1>1, <1>2, <1>5
  <2> QED BY <1>1, <1>4, <1>5, <1>6, <2>1 DEF Good, Spares
<1>8. Keeps(m, r, L \ {b})
  BY <1>4, <1>5 DEF Keeps, C, lim
<1> QED BY <1>5, <1>7, <1>8 DEF TookBack

\* The block in front takes it in.
LEMMA JoinedBefore ==
  ASSUME NEW m, NEW L, Good(m, L), NEW b \in L,
         NEW t \in Range(m.free), Behind(m.size, t, b),
         \A x \in Range(m.free) : x # b + m.size[b],
         NEW r, r = Forget(SetSize(m, t, m.size[t] + m.size[b]), b)
  PROVE  TookBack(m, r, L, b)
<1> DEFINE C == Chunks(L \ {b}, m.size)
           lim == m.end + W
<1>1. /\ m.brk \in Nat /\ Tiles(m.size, m.end)
      /\ Apart(Range(m.free), m.size) /\ m.end \in Words /\ m.end \in Nat
      /\ Start <= m.end /\ lim \in Nat /\ Ascending(m.free)
      /\ Range(m.free) \union L = DOMAIN m.size
      /\ Range(m.free) \intersect L = {}
  BY GoodParts
<1>2. /\ b \in DOMAIN m.size /\ b \in Nat /\ m.size[b] \in Nat
      /\ Spares(m, m, C, lim)
  BY LiveBlock
<1>3. /\ t \in DOMAIN m.size /\ t \in Nat /\ m.size[t] \in Nat
      /\ Entry <= m.size[t] /\ t # b /\ t \notin L
  BY <1>1, <1>2, GoodSizes
<1>14. t + m.size[t] <= b /\ b <= t + m.size[t]
  BY <1>2, <1>3 DEF Behind
<1>4. Open(C, lim, t, W)
  BY <1>3, LiveBlock
<1> HIDE DEF C, lim
<1>5. PICK s : s = m.size[t] + m.size[b]
  OBVIOUS
<1>6. PICK m1 : m1 = SetSize(m, t, s)
  OBVIOUS
<1>7. Resized(m, m1, t, s) /\ Spares(m, m1, C, lim)
  BY ONLY <1>1, <1>2, <1>4, <1>6, SetSizeIs
<1>8. Forgotten(m1, r, b) /\ Spares(m, r, C, lim)
  <2>1. r = Forget(m1, b)
    BY <1>5, <1>6
  <2> QED BY ONLY <1>7, <2>1, ForgetIs
<1>9. /\ r.free = m.free /\ r.end = m.end
      /\ DOMAIN r.size = DOMAIN m.size \ {b}
      /\ r.size[t] = m.size[t] + m.size[b]
      /\ SameBut(m.size, r.size, {t, b})
  BY <1>3, <1>5, <1>7, <1>8 DEF Resized, Forgotten, SameBut
<1>10. Tiles(r.size, r.end)
  BY <1>1, <1>2, <1>3, <1>9, Join
<1>11. Apart(Range(r.free), r.size)
  <2>1. ASSUME NEW x \in Range(m.free), NEW y \in Range(m.free), x < y
        PROVE  x + r.size[x] < y
    <3>1. x + m.size[x] < y
      BY <1>1, <2>1 DEF Apart
    <3>2. CASE x = t
      <4>1. y \in DOMAIN m.size /\ y \in Nat /\ y # b
        BY <1>1, <1>2, GoodSizes
      <4>2. b < y
        BY <1>2, <1>3, <1>14, <3>1, <3>2, <4>1
      <4>3. b + m.size[b] <= y /\ y # b + m.size[b]
        BY <1>2, <4>1, <4>2, GoodSizes
      <4> QED BY <1>2, <1>3, <1>9, <1>14, <3>2, <4>1, <4>3
    <3>3. CASE x # t
      <4>1. r.size[x] = m.size[x]
        BY <1>1, <1>2, <1>9, <3>3 DEF SameBut
      <4> QED BY <3>1, <4>1
    <3> QED BY <3>2, <3>3
  <2> QED BY <1>9, <2>1 DEF Apart
<1>12. Good(r, L \ {b})
  <2>1. /\ Range(r.free) \union (L \ {b}) = DOMAIN r.size
        /\ Range(r.free) \intersect (L \ {b}) = {}
    BY <1>1, <1>2, <1>9
  <2> QED BY <1>1, <1>8, <1>9, <1>10, <1>11, <2>1 DEF Good, Spares
<1>13. Keeps(m, r, L \ {b})
  <2>1. \A x \in L \ {b} : r.size[x] = m.size[x]
    BY <1>1, <1>3, <1>9 DEF SameBut
  <2> QED BY <1>8, <2>1 DEF Keeps, C, lim
<1> QED BY <1>9, <1>12, <1>13 DEF TookBack

\* The block in front takes in the block and the one behind it.
LEMMA JoinedBoth ==
  ASSUME NEW m, NEW L, Good(m, L), NEW b \in L,
         NEW t \in Range(m.free), Behind(m.size, t, b),
         NEW n \in Range(m.free), Behind(m.size, b, n),
         NEW F, Ascending(F), Range(F) = Range(m.free) \ {n},
         NEW m1, m1 = Forget(SetSize(m, t, m.size[t] + m.size[b]), b),
         NEW m2, m2 = SetSize(m1, t, m1.size[t] + m.size[n]),
         NEW m3, Relisted(m2, m3, F, m2.end),
         Spares(m, m2, Chunks(L \ {b}, m.size), m.end + W)
           => Spares(m, m3, Chunks(L \ {b}, m.size), m.end + W),
         NEW r, r = Forget(m3, n)
  PROVE  TookBack(m, r, L, b)
<1> DEFINE C == Chunks(L \ {b}, m.size)
           lim == m.end + W
<1>1. /\ m.brk \in Nat /\ Tiles(m.size, m.end)
      /\ Apart(Range(m.free), m.size) /\ m.end \in Words /\ m.end \in Nat
      /\ Start <= m.end /\ lim \in Nat /\ Ascending(m.free)
      /\ Range(m.free) \union L = DOMAIN m.size
      /\ Range(m.free) \intersect L = {}
  BY GoodParts
<1>2. /\ b \in DOMAIN m.size /\ b \in Nat /\ m.size[b] \in Nat
      /\ Entry <= m.size[b] /\ Spares(m, m, C, lim)
  BY LiveBlock
<1>3. /\ t \in DOMAIN m.size /\ t \in Nat /\ m.size[t] \in Nat
      /\ Entry <= m.size[t] /\ t # b /\ t \notin L
      /\ n \in DOMAIN m.size /\ n \in Nat /\ m.size[n] \in Nat
      /\ n # b /\ n \notin L
  BY <1>1, <1>2, GoodSizes
<1>23. /\ t + m.size[t] <= b /\ b <= t + m.size[t]
       /\ b + m.size[b] <= n /\ n <= b + m.size[b]
  BY <1>2, <1>3 DEF Behind
<1>4. Open(C, lim, t, W)
  BY <1>3, LiveBlock
<1>21. t < n /\ (Spares(m, m2, C, lim) => Spares(m, m3, C, lim))
  BY <1>2, <1>3, <1>23, WordsAreNumbers
<1> HIDE DEF C, lim
<1>5. PICK s : s = m.size[t] + m.size[b]
  OBVIOUS
<1>6. PICK m0 : m0 = SetSize(m, t, s)
  OBVIOUS
<1>7. Resized(m, m0, t, s) /\ Spares(m, m0, C, lim)
  BY ONLY <1>1, <1>2, <1>4, <1>6, SetSizeIs
<1>8. Forgotten(m0, m1, b) /\ Spares(m, m1, C, lim)
  <2>1. m1 = Forget(m0, b)
    BY <1>5, <1>6
  <2> QED BY ONLY <1>7, <2>1, ForgetIs
<1>9. /\ m1.free = m.free /\ m1.end = m.end
      /\ DOMAIN m1.size = DOMAIN m.size \ {b}
      /\ m1.size[t] = m.size[t] + m.size[b]
      /\ SameBut(m.size, m1.size, {t, b})
  BY <1>3, <1>5, <1>7, <1>8 DEF Resized, Forgotten, SameBut
<1>10. Tiles(m1.size, m.end)
  BY <1>1, <1>2, <1>3, <1>9, Join
<1>11. PICK s2 : s2 = m1.size[t] + m.size[n]
  OBVIOUS
<1>12. Resized(m1, m2, t, s2) /\ Spares(m, m2, C, lim)
  <2>1. m2 = SetSize(m1, t, s2)
    BY <1>11
  <2> QED BY ONLY <1>1, <1>4, <1>8, <2>1, SetSizeIs
<1>13. Forgotten(m3, r, n) /\ Spares(m, r, C, lim)
  <2>1. Spares(m, m3, C, lim)
    BY <1>12, <1>21
  <2>2. r = Forget(m3, n)
    OBVIOUS
  <2> QED BY ONLY <2>1, <2>2, ForgetIs
<1>22. t \in DOMAIN m1.size /\ t # n
  <2>1. t # n BY ONLY <1>3, <1>21, SMT
  <2>2. t \in DOMAIN m1.size BY ONLY <1>3, <1>9, Zenon
  <2> QED BY ONLY <2>1, <2>2, Zenon
<1>14. /\ r.free = F /\ r.end = m.end
       /\ DOMAIN r.size = DOMAIN m1.size \ {n}
       /\ r.size[t] = m1.size[t] + m.size[n]
       /\ SameBut(m1.size, r.size, {t, n})
  <2>1. m3.free = F /\ m3.size = m2.size /\ m3.end = m1.end
    BY <1>12 DEF Resized, Relisted
  <2>2. /\ DOMAIN m2.size = DOMAIN m1.size /\ m2.size[t] = s2
        /\ SameBut(m1.size, m2.size, {t})
    BY <1>12, <1>22 DEF Resized
  <2>3. /\ r.free = m3.free /\ r.end = m3.end
        /\ DOMAIN r.size = DOMAIN m3.size \ {n}
        /\ SameBut(m3.size, r.size, {n})
    BY <1>13 DEF Forgotten
  <2>4. r.size[t] = s2
    BY <1>22, <2>1, <2>2, <2>3 DEF SameBut
  <2>5. SameBut(m1.size, r.size, {t, n})
    BY <2>1, <2>2, <2>3, ZenonT(30) DEF SameBut
  <2> QED BY <1>9, <1>11, <2>1, <2>2, <2>3, <2>4, <2>5
<1>15. /\ t \in DOMAIN m1.size /\ n \in DOMAIN m1.size
       /\ m1.size[n] = m.size[n] /\ Behind(m1.size, t, n)
  <2>1. m1.size[n] = m.size[n]
    <3>1. n # t
      BY <1>3, <1>21
    <3>2. n \in DOMAIN m.size \ {t, b}
      BY <1>3, <3>1
    <3> QED BY ONLY <1>9, <3>2 DEF SameBut
  <2>2. t + (m.size[t] + m.size[b]) = n
    <3>1. \A x, u, y, v, z \in Nat :
            x + u <= y /\ y <= x + u /\ y + v <= z /\ z <= y + v
              => x + (u + v) = z
      BY SMT
    <3> QED BY ONLY <1>2, <1>3, <1>23, <3>1
  <2> QED BY <1>3, <1>9, <1>22, <2>1, <2>2 DEF Behind
<1>16. Tiles(r.size, r.end)
  BY <1>1, <1>10, <1>14, <1>15, Join
<1>17. \A x \in DOMAIN m.size \ {t, b, n} : r.size[x] = m.size[x]
  BY <1>9, <1>14 DEF SameBut
<1>18. Apart(Range(r.free), r.size)
  <2>1. ASSUME NEW x \in Range(F), NEW y \in Range(F), x < y
        PROVE  x + r.size[x] < y
    <3>1. x + m.size[x] < y /\ x \in DOMAIN m.size /\ x # n /\ x # b
      BY <1>1, <1>2, <2>1 DEF Apart
    <3>2. CASE x = t
      <4>1. y \in DOMAIN m.size /\ y \in Nat /\ y # b /\ y # n
        BY <1>1, <1>2, GoodSizes
      <4>2. b < y
        BY <1>2, <1>3, <1>23, <3>1, <3>2, <4>1
      <4>3. n < y
        <5>1. b + m.size[b] <= y
          BY <1>2, <4>1, <4>2, GoodSizes
        <5> QED BY ONLY <1>2, <1>3, <1>23, <4>1, <5>1
      <4>4. n + m.size[n] < y
        BY <1>1, <4>3 DEF Apart
      <4>5. r.size[x] = m.size[t] + m.size[b] + m.size[n]
        BY <1>2, <1>3, <1>9, <1>14, <3>2
      <4> QED BY <1>2, <1>3, <1>23, <3>2, <4>1, <4>4, <4>5
    <3>3. CASE x # t
      <4>1. r.size[x] = m.size[x]
        BY <1>17, <3>1, <3>3
      <4> QED BY <3>1, <4>1
    <3> QED BY <3>2, <3>3
  <2> QED BY <1>14, <2>1 DEF Apart
<1>19. Good(r, L \ {b})
  <2>1. /\ Range(r.free) \union (L \ {b}) = DOMAIN r.size
        /\ Range(r.free) \intersect (L \ {b}) = {}
    BY <1>1, <1>2, <1>3, <1>9, <1>14, ZenonT(30)
  <2> QED BY <1>1, <1>13, <1>14, <1>16, <1>18, <2>1 DEF Good, Spares
<1>20. Keeps(m, r, L \ {b})
  <2>1. \A x \in L \ {b} : r.size[x] = m.size[x]
    BY <1>1, <1>3, <1>17
  <2> QED BY <1>13, <2>1 DEF Keeps, C, lim
<1> QED BY <1>14, <1>19, <1>20 DEF TookBack

\* It takes in the block behind it, and takes its place in the list.
LEMMA JoinedBehind ==
  ASSUME NEW m, NEW L, Good(m, L), NEW b \in L,
         NEW t \in Range(m.free), Behind(m.size, b, t),
         \A x \in Range(m.free) : x < b => x + m.size[x] # b,
         NEW F, Ascending(F), Range(F) = (Range(m.free) \ {t}) \union {b},
         NEW m1, Relisted(m, m1, F, m.end),
         Spares(m, m1, Chunks(L \ {b}, m.size), m.end + W),
         NEW r, r = SetNext(Forget(SetSize(m1, b, m.size[b] + m.size[t]), t), b)
  PROVE  TookBack(m, r, L, b)
<1> DEFINE C == Chunks(L \ {b}, m.size)
           lim == m.end + W
<1>1. /\ m.brk \in Nat /\ Tiles(m.size, m.end)
      /\ Apart(Range(m.free), m.size) /\ m.end \in Words /\ m.end \in Nat
      /\ Start <= m.end /\ lim \in Nat
      /\ Range(m.free) \union L = DOMAIN m.size
      /\ Range(m.free) \intersect L = {}
  BY GoodParts
<1>2. /\ b \in DOMAIN m.size /\ b \in Nat /\ m.size[b] \in Nat
      /\ Entry <= m.size[b] /\ b \notin Range(m.free)
      /\ Open(C, lim, b, W) /\ Open(C, lim, b, Entry)
  BY LiveBlock
<1>3. /\ t \in DOMAIN m.size /\ t \in Nat /\ m.size[t] \in Nat
      /\ t # b /\ t \notin L
  BY <1>1, <1>2, GoodSizes
<1>17. b + m.size[b] <= t /\ t <= b + m.size[b]
  BY <1>2, <1>3 DEF Behind
<1> HIDE DEF C, lim
<1>4. Spares(m, m1, C, lim)
  BY DEF C, lim
<1>5. PICK s : s = m.size[b] + m.size[t]
  OBVIOUS
<1>6. PICK m2 : m2 = SetSize(m1, b, s)
  OBVIOUS
<1>7. Resized(m1, m2, b, s) /\ Spares(m, m2, C, lim)
  BY ONLY <1>1, <1>2, <1>4, <1>6, SetSizeIs
<1>8. PICK m3 : m3 = Forget(m2, t)
  OBVIOUS
<1>9. Forgotten(m2, m3, t) /\ Spares(m, m3, C, lim)
  BY ONLY <1>7, <1>8, ForgetIs
<1>10. Rewritten(m3, r) /\ Spares(m, r, C, lim)
  <2>1. r = SetNext(m3, b)
    BY <1>5, <1>6, <1>8
  <2> QED BY ONLY <1>1, <1>2, <1>9, <2>1, SetNextIs
<1>11. /\ r.free = F /\ r.end = m.end
       /\ DOMAIN r.size = DOMAIN m.size \ {t}
       /\ r.size[b] = m.size[b] + m.size[t]
       /\ SameBut(m.size, r.size, {b, t})
  BY <1>2, <1>3, <1>5, <1>7, <1>9, <1>10
     DEF Relisted, Resized, Forgotten, Rewritten, SameBut
<1>12. Tiles(r.size, r.end)
  BY <1>1, <1>2, <1>3, <1>11, Join
<1>13. \A x \in DOMAIN m.size \ {b, t} : r.size[x] = m.size[x]
  BY <1>11 DEF SameBut
<1>14. Apart(Range(r.free), r.size)
  <2>1. ASSUME NEW x \in Range(F), NEW y \in Range(F), x < y
        PROVE  x + r.size[x] < y
    <3>1. x \in DOMAIN m.size /\ y \in DOMAIN m.size /\ x # t /\ y # t
      BY <1>1, <1>2, <1>3
    <3>2. x \in Nat /\ y \in Nat /\ m.size[x] \in Nat
      BY <3>1, GoodSizes
    <3>3. CASE x = b
      <4>1. y \in Range(m.free) /\ t < y
        <5>1. b + m.size[b] <= y
          BY <1>2, <2>1, <3>1, <3>3, GoodSizes
        <5> QED BY <1>2, <1>3, <1>17, <2>1, <3>1, <3>2, <3>3, <5>1
      <4>2. t + m.size[t] < y
        BY <1>1, <4>1 DEF Apart
      <4> QED BY <1>2, <1>3, <1>11, <1>17, <3>2, <3>3, <4>2
    <3>4. CASE x # b
      <4>1. r.size[x] = m.size[x] /\ x \in Range(m.free)
        BY <1>13, <3>1, <3>4
      <4>2. CASE y = b
        <5>1. x + m.size[x] <= b /\ x + m.size[x] # b
          BY <1>2, <2>1, <3>1, <4>1, <4>2, GoodSizes
        <5> QED BY <1>2, <3>2, <4>1, <4>2, <5>1
      <4>3. CASE y # b
        BY <1>1, <2>1, <4>1, <4>3 DEF Apart
      <4> QED BY <4>2, <4>3
    <3> QED BY <3>3, <3>4
  <2> QED BY <1>11, <2>1 DEF Apart
<1>15. Good(r, L \ {b})
  <2>1. /\ Range(r.free) \union (L \ {b}) = DOMAIN r.size
        /\ Range(r.free) \intersect (L \ {b}) = {}
    BY <1>1, <1>2, <1>3, <1>11
  <2>2. Ascending(r.free)
    BY <1>11
  <2> QED BY <1>1, <1>10, <1>11, <1>12, <1>14, <2>1, <2>2 DEF Good, Spares
<1>16. Keeps(m, r, L \ {b})
  <2>1. \A x \in L \ {b} : r.size[x] = m.size[x]
    BY <1>1, <1>3, <1>13
  <2> QED BY <1>10, <2>1 DEF Keeps, C, lim
<1> QED BY <1>11, <1>15, <1>16 DEF TookBack

\* Writing headers changes neither the list nor __malloc_end.
LEMMA WritesKeep ==
  ASSUME NEW m, IsMemory(m), NEW y, NEW s, NEW r,
         r = SetSize(m, y, s) \/ r = Forget(m, y) \/ r = SetNext(m, y)
  PROVE  IsMemory(r) /\ r.free = m.free /\ r.end = m.end
<1>1. ASSUME NEW x, NEW n
      PROVE  /\ IsMemory(Poke(m, x, n)) /\ Poke(m, x, n).free = m.free
             /\ Poke(m, x, n).end = m.end
  BY DEF IsMemory, Poke
<1>2. CASE r = SetSize(m, y, s)
  <2>1. PICK q : q = Poke(m, y, W)
    OBVIOUS
  <2>2. IsMemory(q) /\ q.free = m.free /\ q.end = m.end
    BY <1>1, <2>1
  <2>3. r = [q EXCEPT !.size =
               [x \in DOMAIN @ \union {y} |-> IF x = y THEN s ELSE @[x]]]
    BY <1>2, <2>1 DEF SetSize
  <2> QED BY <2>2, <2>3 DEF IsMemory
<1>3. CASE r = Forget(m, y)
  BY <1>3 DEF Forget, IsMemory
<1>4. CASE r = SetNext(m, y)
  BY <1>1, <1>4 DEF SetNext
<1> QED BY <1>2, <1>3, <1>4

\* Where the walk of free() stops.
Stops(m, b) == {i \in DOMAIN m.free : LET t == m.free[i] IN
                  \/ t + m.size[t] = b
                  \/ t > b}

\* Where free() stops walking the list: the first block that ends at b or
\* lies behind it.
LEMMA StopIs ==
  ASSUME NEW m, NEW L, Good(m, L), NEW b \in L
  PROVE  /\ Stops(m, b) = {} => \A k \in 1..Len(m.free) :
              m.free[k] < b /\ ~Behind(m.size, m.free[k], b)
         /\ Stops(m, b) # {} =>
              /\ Min(Stops(m, b)) \in 1..Len(m.free)
              /\ Min(Stops(m, b)) \in Stops(m, b)
              /\ \A k \in 1..Len(m.free) : k < Min(Stops(m, b)) =>
                   m.free[k] < b /\ ~Behind(m.size, m.free[k], b)
<1>1. /\ Len(m.free) \in Nat /\ DOMAIN m.free = 1..Len(m.free)
      /\ \A k \in 1..Len(m.free) : m.free[k] \in Nat
  BY ListOf, GoodParts
<1>2. b \in Nat /\ \A k \in 1..Len(m.free) : m.free[k] # b
  BY LiveBlock, FreeBlock
<1>3. \A k \in 1..Len(m.free) : k \notin Stops(m, b) =>
        m.free[k] < b /\ ~Behind(m.size, m.free[k], b)
  BY <1>1, <1>2 DEF Stops, Behind
<1>4. Stops(m, b) \subseteq 1..Len(m.free)
  BY <1>1 DEF Stops
<1>5. CASE Stops(m, b) # {}
  <2>1. Stops(m, b) \subseteq Nat
    BY <1>1, <1>4
  <2>2. PICK i : i = Min(Stops(m, b))
    OBVIOUS
  <2>3. i \in Stops(m, b) /\ \A y \in Stops(m, b) : i <= y
    BY <1>5, <2>1, <2>2, MinIsLeast
  <2>4. \A k \in 1..Len(m.free) : k < i => k \notin Stops(m, b)
    BY <1>4, <2>3
  <2> QED BY <1>3, <1>4, <1>5, <2>2, <2>3, <2>4
<1> QED BY <1>3, <1>5

\* free() takes the block back, merged with the free blocks it touches.
LEMMA FreeGives ==
  ASSUME NEW m, NEW L, Good(m, L), NEW b \in L, NEW r, r = Free(m, b + W)
  PROVE  TookBack(m, r, L, b)
<1> DEFINE C == Chunks(L \ {b}, m.size)
           lim == m.end + W
<1>1. /\ IsMemory(m) /\ Ascending(m.free) /\ Spares(m, m, C, lim)
      /\ b \in Nat /\ b \in DOMAIN m.size /\ m.size[b] \in Nat
      /\ Entry <= m.size[b]
      /\ Len(m.free) \in Nat /\ DOMAIN m.free = 1..Len(m.free)
      /\ Range(m.free) = {m.free[k] : k \in 1..Len(m.free)}
  <2>1. IsMemory(m) /\ Ascending(m.free)
    BY GoodParts
  <2>2. /\ Spares(m, m, C, lim) /\ b \in Nat /\ b \in DOMAIN m.size
        /\ m.size[b] \in Nat /\ Entry <= m.size[b]
    BY LiveBlock
  <2>3. /\ Len(m.free) \in Nat /\ DOMAIN m.free = 1..Len(m.free)
        /\ Range(m.free) = {m.free[k] : k \in 1..Len(m.free)}
    BY <2>1, ListOf
  <2> QED BY <2>1, <2>2, <2>3
<1>2. \A k \in 1..Len(m.free) :
        /\ m.free[k] \in Nat /\ m.free[k] \in DOMAIN m.size
        /\ m.size[m.free[k]] \in Nat /\ m.free[k] \in Range(m.free)
        /\ m.free[k] # b
  BY LiveBlock, FreeBlock
<1> HIDE DEF C, lim
<1>3. PICK p : p = b + W
  OBVIOUS
<1>4. p - W = b /\ p # Null
  BY <1>1, <1>3 DEF Null
<1>5. CASE Stops(m, b) = {}
  <2>1. PICK F : F = Append(m.free, b)
    OBVIOUS
  <2>2. \A k \in 1..Len(m.free) :
          m.free[k] < b /\ ~Behind(m.size, m.free[k], b)
    BY <1>5, StopIs
  <2>3. Ascending(F) /\ Range(F) = Range(m.free) \union {b}
    BY <1>1, <2>1, <2>2, LinkLast
  <2>4. PICK m1 : m1 = [m EXCEPT !.free = F]
    OBVIOUS
  <2>5. r = SetNext(m1, b)
    BY <1>3, <1>4, <1>5, <2>1, <2>4, Zenon DEF Free, Stops
  <2>6. Relisted(m, m1, F, m.end) /\ Spares(m, m1, C, lim)
    BY <1>1, <2>4, FreeIs, Zenon
  <2>7. \A x \in Range(m.free) : /\ x < b => x + m.size[x] # b
                                 /\ x # b + m.size[b]
    <3>1. ASSUME NEW k \in 1..Len(m.free)
          PROVE  /\ m.free[k] + m.size[m.free[k]] # b
                 /\ m.free[k] # b + m.size[b]
      BY <1>1, <1>2, <2>2 DEF Behind
    <3> QED BY <1>1, <3>1
  <2> QED BY <2>3, <2>5, <2>6, <2>7, LinkedGives DEF C, lim
<1>6. CASE Stops(m, b) # {}
  <2>1. PICK i : i = Min(Stops(m, b))
    OBVIOUS
  <2>2. /\ i \in 1..Len(m.free) /\ i \in Stops(m, b)
        /\ \A k \in 1..Len(m.free) : k < i =>
             m.free[k] < b /\ ~Behind(m.size, m.free[k], b)
    BY <1>6, <2>1, StopIs
  <2>3. PICK t : t = m.free[i]
    OBVIOUS
  <2>4. /\ t \in Nat /\ t \in DOMAIN m.size /\ m.size[t] \in Nat
        /\ t \in Range(m.free) /\ t # b
        /\ t + m.size[t] = b \/ t > b
        /\ \A k \in 1..Len(m.free) :
             (k < i => m.free[k] < t) /\ (k > i => t < m.free[k])
    <3>1. t + m.size[t] = b \/ t > b
      BY <2>2, <2>3 DEF Stops
    <3>2. \A k \in 1..Len(m.free) :
             (k < i => m.free[k] < t) /\ (k > i => t < m.free[k])
      BY <1>1, <2>2, <2>3 DEF Ascending
    <3> QED BY <1>2, <2>2, <2>3, <3>1, <3>2
  <2>5. CASE t + m.size[t] = b
    <3>1. r = MergeBefore(m, i, b)
      BY <1>3, <1>4, <1>6, <2>1, <2>3, <2>5, Zenon DEF Free, Stops
    <3>2. Behind(m.size, t, b)
      BY <2>5 DEF Behind
    <3>7. t + m.size[t] <= b /\ b <= t + m.size[t] /\ t < b
      BY <1>1, <2>4, <2>5
    <3>3. PICK n : n = IF i < Len(m.free) THEN m.free[i + 1] ELSE Null
      OBVIOUS
    <3>4. PICK m1 : m1 = Forget(SetSize(m, t, m.size[t] + m.size[b]), b)
      OBVIOUS
    <3>5. CASE n = b + m.size[b]
      <4>1. i + 1 \in 1..Len(m.free) /\ n = m.free[i + 1]
        <5>1. b + m.size[b] # Null
          BY <1>1, WordsAreNumbers DEF Null
        <5>2. i < Len(m.free)
          BY <3>3, <3>5, <5>1
        <5> QED BY <1>1, <2>2, <3>3, <5>2
      <4>2. Behind(m.size, b, n) /\ n \in Range(m.free)
        BY <1>2, <3>5, <4>1 DEF Behind
      <4>3. PICK m2 : m2 = SetSize(m1, t, m1.size[t] + m.size[n])
        OBVIOUS
      <4>4. PICK F : F = RemoveAt(m.free, i + 1)
        OBVIOUS
      <4>5. Ascending(F) /\ Range(F) = Range(m.free) \ {n}
        <5>1. PICK k \in 1..Len(m.free) : k = i + 1
          BY <4>1
        <5>2. F = RemoveAt(m.free, k) /\ n = m.free[k]
          BY <4>1, <4>4, <5>1
        <5> QED BY <1>1, <5>2, Unlink, Zenon
      <4>6. m2.free = m.free /\ IsMemory(m2)
        <5>1. PICK q : q = SetSize(m, t, m.size[t] + m.size[b])
          OBVIOUS
        <5>2. IsMemory(q) /\ q.free = m.free
          BY <1>1, <5>1, WritesKeep
        <5>3. IsMemory(m1) /\ m1.free = q.free
          BY <3>4, <5>1, <5>2, WritesKeep
        <5> QED BY <4>3, <5>2, <5>3, WritesKeep
      <4>7. PICK m3 : m3 = [m2 EXCEPT !.free = F]
        OBVIOUS
      <4>8. r = Forget(m3, n)
        <5>1. r = Forget([m2 EXCEPT !.free = RemoveAt(m2.free, i + 1)], n)
          BY <2>3, <3>1, <3>3, <3>4, <3>5, <4>3, Zenon DEF MergeBefore
        <5> QED BY <4>4, <4>6, <4>7, <5>1
      <4>9. Relisted(m2, m3, F, m2.end)
        BY <4>6, <4>7 DEF Relisted, IsMemory
      <4>10. Spares(m, m2, C, lim) => Spares(m, m3, C, lim)
        BY <4>7, FreeIs, Zenon
      <4> QED BY <2>4, <3>2, <3>4, <4>2, <4>3, <4>5, <4>8, <4>9, <4>10,
                 JoinedBoth DEF C, lim
    <3>6. CASE n # b + m.size[b]
      <4>1. r = m1
        BY <2>3, <3>1, <3>3, <3>4, <3>6, Zenon DEF MergeBefore
      <4>2. ASSUME NEW k \in 1..Len(m.free) PROVE m.free[k] # b + m.size[b]
        <5>1. CASE k <= i
          <6>1. PICK x : x = m.free[k]
            OBVIOUS
          <6>2. x \in Nat /\ (x = t \/ x < t)
            BY <1>2, <2>2, <2>3, <2>4, <5>1, <6>1
          <6>3. x < b + m.size[b]
            BY ONLY <1>1, <2>4, <3>7, <6>2
          <6> QED BY <1>1, <6>1, <6>2, <6>3
        <5>2. CASE k > i
          <6>1. i + 1 \in 1..Len(m.free) /\ n = m.free[i + 1] /\ n \in Nat
            BY <1>1, <1>2, <2>2, <3>3, <5>2
          <6>2. CASE k = i + 1
            BY <3>6, <6>1, <6>2
          <6>3. CASE k # i + 1
            <7>1. k > i + 1
              BY <2>2, <5>2, <6>3
            <7>2. n < m.free[k] /\ t < n
              <8>1. PICK j \in 1..Len(m.free) : j = i + 1
                BY <6>1
              <8>2. n = m.free[j] /\ j > i /\ j < k
                BY <2>2, <6>1, <7>1, <8>1
              <8> QED BY <1>1, <2>4, <8>2 DEF Ascending
            <7>3. n \in DOMAIN m.size /\ n # b
              BY <1>2, <6>1
            <7>4. t + m.size[t] <= n
              BY ONLY <2>4, <7>2, <7>3, GoodSizes, Good(m, L)
            <7>5. b < n
              <8>1. n \in Nat
                BY <6>1
              <8> QED BY ONLY <1>1, <2>4, <3>7, <7>3, <7>4, <8>1
            <7>6. b + m.size[b] <= n
              BY <1>1, <7>3, <7>5, GoodSizes
            <7> QED BY <1>1, <1>2, <6>1, <7>2, <7>6
          <6> QED BY <6>2, <6>3
        <5> QED BY <2>2, <5>1, <5>2
      <4>3. \A x \in Range(m.free) : x # b + m.size[b]
        BY <1>1, <4>2
      <4> QED BY <2>4, <3>2, <3>4, <4>1, <4>3, JoinedBefore
    <3> QED BY <3>5, <3>6
  <2>6. CASE t + m.size[t] # b
    <3>1. /\ b < t
          /\ \A k \in 1..Len(m.free) :
               (k < i => m.free[k] < b) /\ (k >= i => b < m.free[k])
      <4>1. b < t
        BY <2>4, <2>6
      <4>2. \A k \in 1..Len(m.free) : k >= i => b < m.free[k]
        <5>1. ASSUME NEW k \in 1..Len(m.free), k >= i PROVE b < m.free[k]
          <6>1. CASE k = i
            BY <2>3, <4>1, <6>1
          <6>2. CASE k # i
            <7>1. t < m.free[k]
              BY <2>2, <2>4, <5>1, <6>2
            <7> QED BY <1>1, <1>2, <2>4, <4>1, <7>1
          <6> QED BY <6>1, <6>2
        <5> QED BY <5>1
      <4> QED BY <2>2, <4>1, <4>2
    <3>2. b + m.size[b] <= t
      BY <1>1, <2>4, <3>1, GoodSizes
    <3>3. \A x \in Range(m.free) : x < b => x + m.size[x] # b
      <4>1. ASSUME NEW k \in 1..Len(m.free), m.free[k] < b
            PROVE  m.free[k] + m.size[m.free[k]] # b
        <5>1. k < i
          BY <1>1, <1>2, <2>2, <3>1, <4>1, SMTT(30)
        <5> QED BY <2>2, <5>1 DEF Behind
      <4> QED BY <1>1, <4>1
    <3>4. CASE t = b + m.size[b]
      <4>1. r = MergeBehind(m, i, b)
        BY <1>3, <1>4, <1>6, <2>1, <2>3, <2>6, <3>4, Zenon DEF Free, Stops
      <4>2. PICK F : F = [m.free EXCEPT ![i] = b]
        OBVIOUS
      <4>3. Ascending(F) /\ Range(F) = (Range(m.free) \ {t}) \union {b}
        <5>1. \A k \in 1..Len(m.free) :
                (k < i => m.free[k] < b) /\ (k > i => b < m.free[k])
          BY <2>2, <3>1
        <5>2. PICK H : H = m.free
          OBVIOUS
        <5>3. Ascending(m.free) /\ b \in Nat /\ i \in 1..Len(m.free)
          BY <1>1, <2>2
        <5>4. Ascending(F) /\ Range(F) = (Range(H) \ {H[i]}) \union {b}
          BY ONLY <4>2, <5>1, <5>2, <5>3, Relink
        <5> QED BY <2>3, <5>2, <5>4
      <4>4. PICK m1 : m1 = [m EXCEPT !.free = F]
        OBVIOUS
      <4>5. Relisted(m, m1, F, m.end) /\ Spares(m, m1, C, lim)
        BY <1>1, <4>4, FreeIs, Zenon
      <4>6. m1 = [m EXCEPT !.free[i] = b]
        BY <1>1, <4>2, <4>4 DEF IsMemory
      <4>7. r = SetNext(Forget(SetSize(m1, b, m.size[b] + m.size[t]), t), b)
        BY <2>3, <4>1, <4>6, Zenon DEF MergeBehind
      <4>8. Behind(m.size, b, t)
        BY <3>4 DEF Behind
      <4> QED BY <2>4, <3>3, <4>3, <4>5, <4>7, <4>8, JoinedBehind DEF C, lim
    <3>5. CASE t # b + m.size[b]
      <4>1. PICK F : F = InsertAt(m.free, i, b)
        OBVIOUS
      <4>2. PICK m1 : m1 = [m EXCEPT !.free = F]
        OBVIOUS
      <4>3. r = SetNext(m1, b)
        BY <1>3, <1>4, <1>6, <2>1, <2>3, <2>6, <3>5, <4>1, <4>2, Zenon
           DEF Free, Stops
      <4>4. Ascending(F) /\ Range(F) = Range(m.free) \union {b}
        <5>1. i \in 1..(Len(m.free) + 1)
          BY <1>1, <2>2
        <5> QED BY <1>1, <3>1, <4>1, <5>1, LinkIn, Zenon
      <4>5. Relisted(m, m1, F, m.end) /\ Spares(m, m1, C, lim)
        BY <1>1, <4>2, FreeIs, Zenon
      <4>6. \A x \in Range(m.free) : x # b + m.size[b]
        <5>1. ASSUME NEW k \in 1..Len(m.free) PROVE m.free[k] # b + m.size[b]
          <6>1. CASE k < i
            BY <1>1, <1>2, <3>1, <6>1
          <6>2. CASE k = i
            BY <2>3, <3>5, <6>2
          <6>3. CASE k > i
            BY <1>1, <1>2, <2>4, <3>2, <6>3
          <6> QED BY <2>2, <6>1, <6>2, <6>3
        <5> QED BY <1>1, <5>1
      <4> QED BY <3>3, <4>3, <4>4, <4>5, <4>6, LinkedGives DEF C, lim
    <3> QED BY <3>4, <3>5
  <2> QED BY <2>5, <2>6
<1> QED BY <1>5, <1>6

-------------------------------------------------------------------------------
(* calloc and realloc *)

\* The blocks in K keep their sizes, and the bytes of their chunks.
Kept(m, r, K) ==
  /\ \A x \in K : r.size[x] = m.size[x]
  /\ \A a \in Chunks(K, m.size) : a \in DOMAIN m.data =>
       a \in DOMAIN r.data /\ r.data[a] = m.data[a]

\* A client has n bytes in the block b, and those of the blocks in K have kept
\* theirs.
Gives(m, r, K, b, n) ==
  /\ Good(r, K \union {b}) /\ b \in Nat \ K /\ n + W <= r.size[b]
  /\ Kept(m, r, K)

\* Blocks kept within a heap whose end did not move.
LEMMA KeepsIsKept ==
  ASSUME NEW m, NEW r, NEW K, Keeps(m, r, K)
  PROVE  /\ Kept(m, r, K)
         /\ r.end = m.end /\ HasBreak(m) /\ m.brk \in Nat /\ m.end \in Nat
              => HasBreak(r)
<1>1. Kept(m, r, K)
  BY DEF Keeps, Kept, Spares
<1>2. ASSUME r.end = m.end, HasBreak(m), m.brk \in Nat, m.end \in Nat, Granting
      PROVE  r.end + W <= r.brk /\ ~r.bad
  <2>1. r.brk \in Nat /\ m.brk <= r.brk /\ ~r.bad /\ m.end + W <= m.brk
    BY <1>2 DEF Keeps, Spares, HasBreak
  <2>2. m.end + W <= r.brk
    BY <1>2, <2>1, WordsAreNumbers
  <2> QED BY <1>2, <2>1, <2>2
<1>3. r.end = m.end /\ HasBreak(m) /\ m.brk \in Nat /\ m.end \in Nat
        => HasBreak(r)
  BY <1>2 DEF HasBreak
<1> QED BY <1>1, <1>3

\* Blocks that keep their sizes keep their bytes' addresses.
LEMMA ChunksStay ==
  ASSUME NEW S, NEW T, NEW K, NEW J, K \subseteq J,
         \A x \in K : T[x] = S[x]
  PROVE  Chunks(K, S) \subseteq Chunks(J, T)
BY DEF Chunks

\* Two calls after each other keep what both keep.
LEMMA KeptThen ==
  ASSUME NEW m, NEW g, NEW r, NEW K, NEW J, K \subseteq J,
         Kept(m, g, K), Kept(g, r, J)
  PROVE  Kept(m, r, K)
<1>1. Chunks(K, m.size) \subseteq Chunks(J, g.size)
  BY ChunksStay DEF Kept
<1> QED BY <1>1 DEF Kept

\* Nothing is lost where nothing happens.
LEMMA KeptStill == \A m, K : Kept(m, m, K)
BY DEF Kept

\* The n bytes at y are in the chunk of the block b.
Into(m, b, y, n) == b + W <= y /\ y + n <= b + m.size[b]

\* The bytes of a chunk are written.
LEMMA ScribbleGives ==
  ASSUME NEW m, NEW J, Good(m, J), NEW b \in J,
         NEW K, K \subseteq J, b \notin K,
         NEW y \in Nat, NEW n \in Nat, Into(m, b, y, n),
         NEW r, r = Poke(m, y, n)
  PROVE  /\ Good(r, J) /\ Kept(m, r, K)
         /\ r.size = m.size /\ r.end = m.end
         /\ HasBreak(m) => HasBreak(r)
<1> DEFINE C == Chunks(K, m.size)
           lim == m.end + W
<1>1. /\ K \subseteq DOMAIN m.size /\ b \in DOMAIN m.size /\ b \notin K
      /\ m.brk \in Nat /\ m.end \in Nat
  BY GoodParts
<1>2. /\ Open(C, lim, b, m.size[b]) /\ Spares(m, m, C, lim) /\ lim \in Nat
  BY <1>1, OpenBlock
<1>3. m.size[b] \in Nat /\ b \in Nat
  BY <1>1, GoodSizes
<1> HIDE DEF C, lim
<1>5. b <= y /\ y + n <= b + m.size[b] /\ b \in Nat
  BY <1>3 DEF Into
<1>6. Open(C, lim, y, n)
  BY ONLY <1>2, <1>3, <1>5, n \in Nat, y \in Nat, OpenParts
<1>7. r = Poke(m, y, n)
  OBVIOUS
<1>8. Rewritten(m, r) /\ Spares(m, r, C, lim)
  BY ONLY <1>1, <1>2, <1>6, <1>7, n \in Nat, PokeIs
<1>9. r.free = m.free /\ r.size = m.size /\ r.end = m.end
  BY <1>8 DEF Rewritten
<1>10. Good(r, J)
  BY <1>8, <1>9 DEF Good, Spares
<1>11. Keeps(m, r, K)
  BY <1>8, <1>9 DEF Keeps, C, lim
<1> QED BY <1>1, <1>9, <1>10, <1>11, KeepsIsKept

\* The n bytes at from in m are those at to in r.
Moved(m, from, r, to, n) ==
  \A j \in 0..(n - 1) : from + j \in DOMAIN m.data =>
    /\ to + j \in DOMAIN r.data
    /\ r.data[to + j] = m.data[from + j]

\* Bytes are copied into a chunk.
LEMMA CopyGives ==
  ASSUME NEW m, NEW J, Good(m, J), NEW b \in J,
         NEW K, K \subseteq J, b \notin K,
         NEW to \in Nat, NEW n \in Nat, Into(m, b, to, n),
         NEW from \in Nat, NEW r, r = Copy(m, to, from, n)
  PROVE  /\ Good(r, J) /\ Kept(m, r, K)
         /\ r.size = m.size /\ r.end = m.end
         /\ HasBreak(m) => HasBreak(r)
         /\ Moved(m, from, r, to, n)
<1>2. PICK g : g = Poke(m, to, n)
  OBVIOUS
<1>3. /\ Good(g, J) /\ Kept(m, g, K)
      /\ g.size = m.size /\ g.end = m.end /\ (HasBreak(m) => HasBreak(g))
  BY <1>2, ScribbleGives
<1>4. PICK moved : moved =
        {to + i : i \in {j \in 0..(n - 1) : from + j \in DOMAIN m.data}}
  OBVIOUS
<1>5. r = [g EXCEPT !.data = [x \in DOMAIN @ \union moved |->
             IF x \in moved THEN m.data[x - to + from] ELSE @[x]]]
  BY <1>2, <1>4 DEF Copy
<1>6. IsMemory(g)
  BY <1>3 DEF Good
<1>7. /\ IsMemory(r) /\ r.free = g.free /\ r.size = g.size /\ r.end = g.end
      /\ r.brk = g.brk /\ r.bad = g.bad
      /\ r.data = [x \in DOMAIN g.data \union moved |->
           IF x \in moved THEN m.data[x - to + from] ELSE g.data[x]]
  BY <1>5, <1>6 DEF IsMemory
<1>8. Good(r, J)
  BY <1>3, <1>7 DEF Good
<1>9. \A a \in Chunks(K, m.size) : a \notin moved
  <2>1. ASSUME NEW a \in Chunks(K, m.size) PROVE a \notin moved
    <3>1. /\ K \subseteq DOMAIN m.size /\ b \in DOMAIN m.size /\ b \notin K
      BY GoodParts
    <3>2. /\ a \in Nat /\ m.size[b] \in Nat /\ b \in Nat
          /\ a < b \/ b + m.size[b] <= a
      BY <3>1, OutsideChunks, GoodSizes
    <3>3. \A i \in 0..(n - 1) : a # to + i
      BY <3>2 DEF Into
    <3> QED BY <1>4, <3>3
  <2> QED BY <2>1
<1>10. Kept(m, r, K)
  BY <1>3, <1>7, <1>9 DEF Kept
<1>11. ASSUME NEW j \in 0..(n - 1), from + j \in DOMAIN m.data
       PROVE  /\ to + j \in DOMAIN r.data
              /\ r.data[to + j] = m.data[from + j]
  <2>1. PICK x : x = to + j
    OBVIOUS
  <2>2. x \in moved
    BY <1>4, <1>11, <2>1
  <2>3. x - to + from = from + j
    BY <2>1
  <2>4. x \in DOMAIN r.data /\ r.data[x] = m.data[from + j]
    BY <1>7, <2>2, <2>3
  <2> QED BY <2>1, <2>4
<1>12. HasBreak(m) => HasBreak(r)
  BY <1>3, <1>7 DEF HasBreak
<1> QED BY <1>3, <1>7, <1>8, <1>10, <1>11, <1>12 DEF Moved

\* A block of REAL_SIZE(n) bytes is a chunk of n bytes.
LEMMA GaveGives ==
  ASSUME NEW m, NEW r, NEW L, NEW b, NEW n, Modest(n),
         Gave(m, r, L, b, RealSize(n))
  PROVE  Gives(m, r, L, b, n)
<1>1. RealSize(n) \in Nat /\ RealSize(n) >= n + W /\ n \in Nat
  BY RealSizes, WordsAreNumbers DEF Modest
<1>2. b \in DOMAIN r.size /\ RealSize(n) <= r.size[b]
  BY GoodParts DEF Gave
<1>3. r.size[b] \in Nat
  BY <1>2, GoodSizes DEF Gave
<1>4. n + W <= r.size[b]
  BY <1>1, <1>2, <1>3
<1> QED BY <1>4, KeepsIsKept DEF Gave, Gives

\* What an allocation of n bytes leaves, of which the client may ask less.
Allocated(m, ans, L, n, f) ==
  /\ ans.ptr = Null => Good(ans.mem, L) /\ Kept(m, ans.mem, L)
  /\ ans.ptr # Null => \E b : ans.ptr = b + W /\ Gives(m, ans.mem, L, b, n)
  /\ ans.mem.end = m.end \/ ans.mem.end + Gap <= f

\* malloc(n) as the callers within the library see it.
LEMMA MallocAllocates ==
  ASSUME NEW m0, NEW m, m = Awake(m0), NEW L, Good(m, L),
         NEW f \in Frames, m.end + Gap <= f, NEW n, Modest(n),
         NEW r, r = Malloc(m0, n, f)
  PROVE  /\ Allocated(m, r, L, n, f)
         /\ r.ptr = Null => r.mem = m
         /\ HasBreak(m) => HasBreak(r.mem)
<1>1. /\ r.ptr = Null => r.mem = m
      /\ r.ptr # Null => \E b :
           r.ptr = b + W /\ Gave(m, r.mem, L, b, RealSize(n))
      /\ r.mem.end = m.end \/ r.mem.end + Gap <= f
      /\ HasBreak(m) => HasBreak(r.mem)
  BY MallocGives
<1>2. r.ptr # Null => \E b : r.ptr = b + W /\ Gives(m, r.mem, L, b, n)
  BY <1>1, GaveGives
<1> QED BY <1>1, <1>2, KeptStill DEF Allocated

\* calloc(q, size) is malloc(q * size), with the bytes set.
LEMMA CallocAllocates ==
  ASSUME NEW m0, NEW m, m = Awake(m0), NEW L, Good(m, L),
         NEW f \in Frames, m.end + Gap <= f,
         NEW q, NEW size, Modest(q * size),
         NEW r, r = Calloc(m0, q, size, f)
  PROVE  /\ Allocated(m, r, L, q * size, f)
         /\ HasBreak(m) => HasBreak(r.mem)
<1>1. PICK n : n = q * size
  OBVIOUS
<1>2. n \in 0..(WordSpan - 1) /\ Modest(n)
  BY <1>1 DEF Modest
<1>3. n % WordSpan = n
  BY <1>2, SMT
<1>4. PICK new : new = Malloc(m0, n, f)
  OBVIOUS
<1>5. r = IF new.ptr = Null THEN new
          ELSE Answer(new.ptr, Poke(new.mem, new.ptr, n))
  BY <1>1, <1>3, <1>4 DEF Calloc
<1>6. /\ Allocated(m, new, L, n, f)
      /\ HasBreak(m) => HasBreak(new.mem)
  BY <1>2, <1>4, MallocAllocates, Zenon
<1>7. CASE new.ptr = Null
  BY <1>1, <1>5, <1>6, <1>7
<1>8. CASE new.ptr # Null
  <2>1. PICK b : new.ptr = b + W /\ Gives(m, new.mem, L, b, n)
    BY <1>6, <1>8 DEF Allocated
  <2>2. PICK g : g = new.mem
    OBVIOUS
  <2>11. PICK y : y = b + W
    OBVIOUS
  <2>3. PICK w : w = Poke(g, y, n)
    OBVIOUS
  <2>4. r.ptr = b + W /\ r.mem = w
    BY <1>5, <1>8, <2>1, <2>2, <2>3, <2>11 DEF Answer
  <2>5. /\ Good(g, L \union {b}) /\ b \in Nat \ L /\ n + W <= g.size[b]
        /\ Kept(m, g, L) /\ n \in Nat
    BY <1>2, <2>1, <2>2 DEF Gives
  <2>6. /\ Good(w, L \union {b}) /\ Kept(g, w, L)
        /\ w.size = g.size /\ w.end = g.end
        /\ HasBreak(g) => HasBreak(w)
    <3>1. y \in Nat /\ Into(g, b, y, n)
      <4>1. b \in DOMAIN g.size
        BY <2>5, GoodParts
      <4>2. g.size[b] \in Nat
        BY <2>5, <4>1, GoodSizes
      <4> QED BY <2>5, <2>11, <4>2 DEF Into
    <3>2. PICK J : J = L \union {b}
      OBVIOUS
    <3>3. Good(g, J) /\ b \in J /\ L \subseteq J /\ b \notin L /\ n \in Nat
      BY <2>5, <3>2
    <3>4. /\ Good(w, J) /\ Kept(g, w, L)
          /\ w.size = g.size /\ w.end = g.end
          /\ HasBreak(g) => HasBreak(w)
      BY <2>3, <3>1, <3>3, ScribbleGives
    <3> QED BY <3>2, <3>4
  <2>7. Kept(m, w, L)
    BY <2>5, <2>6, KeptThen
  <2>8. Gives(m, w, L, b, n)
    BY <2>5, <2>6, <2>7 DEF Gives
  <2>9. w.end = m.end \/ w.end + Gap <= f
    BY <1>6, <2>2, <2>6 DEF Allocated
  <2>10. r.ptr # Null
    BY <1>8, <2>1, <2>4
  <2> QED BY <1>1, <1>6, <2>2, <2>4, <2>6, <2>8, <2>9, <2>10 DEF Allocated
<1> QED BY <1>7, <1>8

\* What is cut off a chunk is a block of its own.
Sized(m, b, n) == m.size[b] = n

SameBytes(m, r, lo, hi) ==
  \A a \in lo..hi : a \in DOMAIN m.data =>
    a \in DOMAIN r.data /\ r.data[a] = m.data[a]

CutOff(m, b, real, z, r) ==
  /\ real \in Words /\ Entry <= real /\ real + Entry <= m.size[b]
  /\ z = b + real
  /\ r = SetSize(SetSize(m, b, real), z, m.size[b] - real)

\* The second part of a block that is cut is a block of its own.
LEMMA CutGives ==
  ASSUME NEW m, NEW L, Good(m, L), NEW b \in L, NEW real, NEW z, NEW r,
         CutOff(m, b, real, z, r)
  PROVE  /\ Good(r, L \union {z}) /\ z \in Nat \ L
         /\ Kept(m, r, L \ {b}) /\ r.end = m.end
         /\ Sized(r, b, real)
         /\ SameBytes(m, r, b + W, z - 1)
         /\ HasBreak(m) => HasBreak(r)
<1> DEFINE C == Chunks(L \ {b}, m.size) \union ((b + W)..(b + real - 1))
           lim == m.end + W
<1> USE WordsAreNumbers
<1>25. /\ real \in Words /\ Entry <= real /\ real + Entry <= m.size[b]
       /\ z = b + real
       /\ r = SetSize(SetSize(m, b, real), z, m.size[b] - real)
  BY DEF CutOff
<1>1. /\ m.brk \in Nat /\ Tiles(m.size, m.end) /\ Ascending(m.free)
      /\ Apart(Range(m.free), m.size) /\ m.end \in Words /\ m.end \in Nat
      /\ Start <= m.end /\ lim \in Nat /\ L \subseteq DOMAIN m.size
      /\ Range(m.free) \union L = DOMAIN m.size
      /\ Range(m.free) \intersect L = {} /\ IsMemory(m)
  BY GoodParts
<1>2. /\ b \in DOMAIN m.size /\ b \in Nat /\ m.size[b] \in Nat
      /\ Open(Chunks(L \ {b}, m.size), lim, b, m.size[b])
      /\ b + m.size[b] <= m.end /\ Start <= b /\ real \in Nat
  BY <1>25, LiveBlock
<1>3. Spares(m, m, C, lim)
  BY <1>1 DEF Spares
<1>20. /\ b + m.size[b] <= lim
       /\ \A a \in Chunks(L \ {b}, m.size) :
            a \in Nat /\ (a < b \/ b + m.size[b] <= a)
  BY <1>2 DEF Open
<1>5. PICK y \in Nat : y = b + real
  BY <1>2
<1>21. /\ b <= y /\ b + W <= y /\ y + W <= b + m.size[b]
  BY ONLY <1>2, <1>5, <1>25, WordsAreNumbers, W \in Nat
<1>22. ASSUME NEW a \in C
       PROVE  /\ a \in Nat /\ (a < b \/ b + W <= a)
              /\ a < y \/ y + W <= a
  <2>1. CASE a \in Chunks(L \ {b}, m.size)
    <3>1. a \in Nat /\ (a < b \/ b + m.size[b] <= a)
      BY <1>20, <2>1
    <3> QED BY ONLY <1>2, <1>5, <1>21, <3>1, W \in Nat
  <2>2. CASE a \in (b + W)..(b + real - 1)
    BY <1>2, <1>5, <2>2
  <2> QED BY <2>1, <2>2
<1>7. \A a \in (b + W)..(z - 1) : a \in C
  BY <1>2, <1>25 DEF C
<1>8. Chunks(L \ {b}, m.size) \subseteq C
  OBVIOUS
<1> HIDE DEF C, lim
<1>24. Start <= y /\ b + W <= lim /\ y + W <= lim
  BY <1>1, <1>2, <1>5, <1>20, <1>21
<1>4. Open(C, lim, b, W)
  BY <1>2, <1>22, <1>24 DEF Open
<1>6. Open(C, lim, y, W)
  BY <1>22, <1>24 DEF Open
<1>9. PICK m1 : m1 = SetSize(m, b, real)
  OBVIOUS
<1>10. PICK s : s = m.size[b] - real
  OBVIOUS
<1>11. Resized(m, m1, b, real) /\ Spares(m, m1, C, lim)
  BY ONLY <1>1, <1>3, <1>4, <1>9, SetSizeIs
<1>12. Resized(m1, r, y, s) /\ Spares(m, r, C, lim)
  <2>1. r = SetSize(m1, y, s)
    BY <1>5, <1>9, <1>10, <1>25
  <2> QED BY ONLY <1>1, <1>6, <1>11, <2>1, SetSizeIs
<1>13. y # b /\ y \notin DOMAIN m.size
  <2>1. b < y /\ y < b + m.size[b]
    BY <1>2, <1>5, <1>25
  <2> QED BY <1>1, <1>2, <2>1, NoneInside
<1>14. /\ r.free = m.free /\ r.end = m.end
       /\ DOMAIN r.size = DOMAIN m.size \union {y}
       /\ r.size[b] = real /\ r.size[y] = m.size[b] - real
       /\ SameBut(m.size, r.size, {b})
  BY <1>2, <1>10, <1>11, <1>12, <1>13 DEF Resized, SameBut
<1>15. Tiles(r.size, r.end)
  BY <1>1, <1>2, <1>5, <1>14, <1>25, Cut
<1>16. Apart(Range(r.free), r.size)
  <2>1. \A x \in Range(m.free) : r.size[x] = m.size[x]
    BY <1>1, <1>14 DEF SameBut
  <2> QED BY <1>1, <1>14, <2>1, ApartStays
<1>17. Good(r, L \union {y}) /\ y \in Nat \ L
  <2>1. /\ Range(r.free) \union (L \union {y}) = DOMAIN r.size
        /\ Range(r.free) \intersect (L \union {y}) = {}
    BY <1>1, <1>13, <1>14
  <2> QED BY <1>1, <1>12, <1>13, <1>14, <1>15, <1>16, <2>1 DEF Good, Spares
<1>18. Kept(m, r, L \ {b})
  <2>1. \A x \in L \ {b} : r.size[x] = m.size[x]
    BY <1>1, <1>14 DEF SameBut
  <2> QED BY <1>8, <1>12, <2>1 DEF Kept, Spares
<1>19. HasBreak(m) => HasBreak(r)
  <2>1. ASSUME HasBreak(m), Granting PROVE r.end + W <= r.brk /\ ~r.bad
    <3>1. r.brk \in Nat /\ m.brk <= r.brk /\ ~r.bad /\ lim <= m.brk
      BY <1>12, <2>1 DEF Spares, HasBreak, lim
    <3>2. lim <= r.brk
      BY <1>1, <3>1
    <3> QED BY <1>14, <3>1, <3>2 DEF lim
  <2> QED BY <2>1 DEF HasBreak
<1> QED BY <1>5, <1>7, <1>25, <1>12, <1>14, <1>17, <1>18, <1>19
       DEF Spares, SameBytes, Sized

\* The bytes of b that both sizes have are those of c now.
Copied(m, b, r, c, n) ==
  \A j \in Nat : j < n /\ j + W < m.size[b] /\ b + W + j \in DOMAIN m.data =>
    /\ c + W + j \in DOMAIN r.data
    /\ r.data[c + W + j] = m.data[b + W + j]

\* The chunk stays where it is.
LEMMA StaysGives ==
  ASSUME NEW m, NEW L, Good(m, L), NEW b \in L, NEW n, Modest(n),
         RealSize(n) <= m.size[b]
  PROVE  Gives(m, m, L \ {b}, b, n) /\ Copied(m, b, m, b, n)
<1>1. b \in Nat /\ m.size[b] \in Nat
  BY LiveBlock
<1>2. n + W <= RealSize(n) /\ n \in Nat /\ RealSize(n) \in Nat
  BY RealSizes, WordsAreNumbers DEF Modest
<1>3. n + W <= m.size[b]
  BY <1>1, <1>2
<1>4. (L \ {b}) \union {b} = L
  OBVIOUS
<1> QED BY <1>1, <1>3, <1>4, KeptStill DEF Gives, Copied

\* r ends where g does, and is within the break if m was.
EndsAs(m, g, r) == r.end = g.end /\ (HasBreak(m) => HasBreak(r))

\* What does not fit is given back.
LEMMA ShrinkGives ==
  ASSUME NEW m, NEW L, Good(m, L), NEW b \in L, NEW n, Modest(n),
         NEW real, real = RealSize(n), real + Entry <= m.size[b],
         NEW z, z = b + real,
         NEW g, g = SetSize(SetSize(m, b, real), z, m.size[b] - real),
         NEW r, r = Free(g, z + W)
  PROVE  /\ Gives(m, r, L \ {b}, b, n) /\ Copied(m, b, r, b, n)
         /\ EndsAs(m, m, r)
<1>1. /\ real \in Words /\ Entry <= real /\ n + W <= real /\ n \in Nat
      /\ real \in Nat
  BY RealSizes, WordsAreNumbers DEF Modest
<1>2. /\ b \in Nat /\ m.size[b] \in Nat
  BY LiveBlock
<1>3. /\ Good(g, L \union {z}) /\ z \in Nat \ L
      /\ Kept(m, g, L \ {b}) /\ g.end = m.end /\ g.size[b] = real
      /\ SameBytes(m, g, b + W, z - 1)
      /\ HasBreak(m) => HasBreak(g)
  <2>1. CutOff(m, b, real, z, g)
    BY <1>1 DEF CutOff
  <2>2. Good(m, L) /\ b \in L
    OBVIOUS
  <2>3. Good(g, L \union {z})
    BY ONLY <2>1, <2>2, CutGives
  <2>4. z \in Nat \ L
    BY ONLY <2>1, <2>2, CutGives
  <2>5. HasBreak(m) => HasBreak(g)
    BY ONLY <2>1, <2>2, CutGives
  <2>6. Kept(m, g, L \ {b})
    BY ONLY <2>1, <2>2, CutGives
  <2>7. SameBytes(m, g, b + W, z - 1)
    BY ONLY <2>1, <2>2, CutGives
  <2>8. g.end = m.end
    BY ONLY <2>1, <2>2, CutGives, ZenonT(60)
  <2>9. Sized(g, b, real)
    BY ONLY <2>1, <2>2, CutGives
  <2> QED BY <2>3, <2>4, <2>5, <2>6, <2>7, <2>8, <2>9 DEF Sized
<1>4. PICK J : J = L \union {z}
  OBVIOUS
<1>5. Good(g, J) /\ z \in J /\ J \ {z} = L
  BY <1>3, <1>4
<1>6. TookBack(g, r, J, z)
  BY <1>5, FreeGives
<1>7. Good(r, L) /\ Keeps(g, r, L) /\ r.end = g.end
  BY <1>5, <1>6 DEF TookBack
<1>8. /\ Kept(g, r, L)
      /\ HasBreak(g) => HasBreak(r)
  <2>1. g.brk \in Nat /\ g.end \in Nat
    BY <1>5, GoodParts
  <2> QED BY <1>7, <2>1, KeepsIsKept
<1>9. Kept(m, r, L \ {b})
  BY <1>3, <1>8, KeptThen
<1>10. r.size[b] = real
  BY <1>3, <1>8 DEF Kept
<1>11. Copied(m, b, r, b, n)
  <2>1. ASSUME NEW j \in Nat, j < n, b + W + j \in DOMAIN m.data
        PROVE  /\ b + W + j \in DOMAIN r.data
               /\ r.data[b + W + j] = m.data[b + W + j]
    <3>1. PICK a : a = b + W + j
      OBVIOUS
    <3>2. a \in Nat /\ b + W <= a /\ a < b + real
      BY <1>1, <1>2, <2>1, <3>1
    <3>3. a \in (b + W)..(z - 1)
      BY <1>1, <1>2, <3>2
    <3>4. a \in Chunks(L, g.size)
      BY <1>3, <3>2 DEF Chunks
    <3> QED BY <1>3, <1>8, <2>1, <3>1, <3>3, <3>4 DEF Kept, SameBytes
  <2> QED BY <2>1 DEF Copied
<1>12. Gives(m, r, L \ {b}, b, n)
  <2>1. (L \ {b}) \union {b} = L
    OBVIOUS
  <2> QED BY <1>1, <1>2, <1>7, <1>9, <1>10, <2>1 DEF Gives
<1>13. EndsAs(m, m, r)
  BY <1>3, <1>7, <1>8 DEF EndsAs
<1> QED BY <1>11, <1>12, <1>13

\* The chunk moves to a block of malloc's.
LEMMA MoveGives ==
  ASSUME NEW m, NEW L, Good(m, L), NEW b \in L, NEW n, Modest(n),
         NEW g, NEW c, Gives(m, g, L, c, n), HasBreak(m) => HasBreak(g),
         NEW lesser \in Nat, lesser <= n, lesser + W <= m.size[b],
         lesser = n \/ lesser + W = m.size[b],
         NEW to, to = c + W, NEW from, from = b + W,
         NEW d, d = Copy(g, to, from, lesser),
         NEW r, r = Free(d, from)
  PROVE  /\ Gives(m, r, L \ {b}, c, n) /\ Copied(m, b, r, c, n)
         /\ EndsAs(m, g, r)
<1>1. /\ Good(g, L \union {c}) /\ c \in Nat /\ c \notin L
      /\ n + W <= g.size[c] /\ Kept(m, g, L)
  BY DEF Gives
<1>2. /\ b \in Nat /\ m.size[b] \in Nat /\ n \in Nat
  BY LiveBlock DEF Modest
<1>3. PICK J : J = L \union {c}
  OBVIOUS
<1>4. Good(g, J) /\ c \in J /\ L \subseteq J /\ b \in J /\ b # c
  BY <1>1, <1>3
<1>5. g.size[c] \in Nat
  <2>1. c \in DOMAIN g.size
    BY <1>4, GoodParts
  <2> QED BY <1>4, <2>1, GoodSizes
<1>6. to \in Nat /\ c + W <= to /\ to + lesser <= c + g.size[c] /\ from \in Nat
  BY <1>1, <1>2, <1>5
<1>7. d = Copy(g, to, from, lesser)
  OBVIOUS
<1>8. /\ Good(d, J) /\ Kept(g, d, L)
      /\ d.size = g.size /\ d.end = g.end
      /\ HasBreak(g) => HasBreak(d)
      /\ Moved(g, from, d, to, lesser)
  <2>1. Into(g, c, to, lesser)
    BY <1>6 DEF Into
  <2>2. /\ Good(g, J) /\ c \in J /\ L \subseteq J /\ c \notin L
        /\ to \in Nat /\ from \in Nat /\ lesser \in Nat
    BY <1>1, <1>4, <1>6
  <2>3. Good(d, J) /\ Kept(g, d, L)
    BY ONLY <1>7, <2>1, <2>2, CopyGives
  <2>4. d.size = g.size
    BY ONLY <1>7, <2>1, <2>2, CopyGives
  <2>5. d.end = g.end
    BY ONLY <1>7, <2>1, <2>2, CopyGives
  <2>6. HasBreak(g) => HasBreak(d)
    BY ONLY <1>7, <2>1, <2>2, CopyGives
  <2>7. Moved(g, from, d, to, lesser)
    BY ONLY <1>7, <2>1, <2>2, CopyGives
  <2> QED BY <2>3, <2>4, <2>5, <2>6, <2>7
<1>9. TookBack(d, r, J, b)
  BY <1>4, <1>8, FreeGives
<1>10. Good(r, J \ {b}) /\ Keeps(d, r, J \ {b}) /\ r.end = g.end
  BY <1>8, <1>9 DEF TookBack
<1>11. /\ Kept(d, r, J \ {b})
       /\ HasBreak(m) => HasBreak(r)
  <2>1. d.brk \in Nat /\ d.end \in Nat
    BY <1>8, GoodParts
  <2> QED BY <1>8, <1>10, <2>1, KeepsIsKept
<1>12. Kept(m, r, L \ {b})
  <2>1. Kept(m, d, L)
    BY <1>1, <1>8, KeptThen
  <2>2. Kept(m, d, L \ {b})
    BY <2>1, KeptStill, KeptThen
  <2>3. L \ {b} \subseteq J \ {b}
    BY <1>4
  <2> QED BY <1>11, <2>2, <2>3, KeptThen
<1>13. r.size[c] = g.size[c]
  BY <1>4, <1>8, <1>11 DEF Kept
<1>14. Copied(m, b, r, c, n)
  <2>1. ASSUME NEW j \in Nat, j < n, j + W < m.size[b],
               b + W + j \in DOMAIN m.data
        PROVE  /\ c + W + j \in DOMAIN r.data
               /\ r.data[c + W + j] = m.data[b + W + j]
    <3>1. j \in 0..(lesser - 1)
      BY <1>2, <2>1
    <3>2. PICK x : x = from + j
      OBVIOUS
    <3>3. PICK y : y = to + j
      OBVIOUS
    <3>4. x = b + W + j /\ y = c + W + j
      BY <3>2, <3>3
    <3>5. x \in Chunks(L, m.size)
      BY <1>2, <2>1, <3>4 DEF Chunks
    <3>6. x \in DOMAIN g.data /\ g.data[x] = m.data[x]
      BY <1>1, <2>1, <3>4, <3>5 DEF Kept
    <3>7. y \in DOMAIN d.data /\ d.data[y] = g.data[x]
      BY <1>8, <3>1, <3>2, <3>3, <3>6 DEF Moved
    <3>8. y \in Chunks(J \ {b}, d.size)
      BY <1>1, <1>2, <1>4, <1>5, <1>8, <2>1, <3>4 DEF Chunks
    <3>9. y \in DOMAIN r.data /\ r.data[y] = d.data[y]
      BY <1>11, <3>7, <3>8 DEF Kept
    <3> QED BY <3>4, <3>6, <3>7, <3>9
  <2> QED BY <2>1 DEF Copied
<1>15. Gives(m, r, L \ {b}, c, n)
  <2>1. (L \ {b}) \union {c} = J \ {b}
    BY <1>3, <1>4
  <2>2. Good(r, (L \ {b}) \union {c})
    BY <1>10, <2>1
  <2> QED BY <1>1, <1>12, <1>13, <2>2 DEF Gives
<1>16. EndsAs(m, g, r)
  BY <1>10, <1>11 DEF EndsAs
<1> QED BY <1>14, <1>15, <1>16

\* realloc() leaves the chunk alone and answers NULL, or answers a chunk that
\* begins with the bytes of the old one.
LEMMA ReallocMoves ==
  ASSUME NEW m, NEW L, Good(m, L), NEW b \in L,
         NEW f \in Frames, m.end + Gap <= f, NEW n, Modest(n),
         NEW r, r = Realloc(m, b + W, n, f)
  PROVE  /\ r.ptr = Null => Good(r.mem, L) /\ Kept(m, r.mem, L)
         /\ r.ptr # Null => \E c : /\ r.ptr = c + W
                                   /\ Gives(m, r.mem, L \ {b}, c, n)
                                   /\ Copied(m, b, r.mem, c, n)
         /\ r.mem.end = m.end \/ r.mem.end + Gap <= f
         /\ HasBreak(m) => HasBreak(r.mem)
<1>1. /\ b \in Nat /\ m.size[b] \in Nat /\ Entry <= m.size[b]
      /\ m.end \in Nat /\ Start <= m.end /\ IsMemory(m)
  BY LiveBlock, GoodParts
<1>2. PICK p : p = b + W
  OBVIOUS
<1>3. p - W = b /\ p # Null
  BY <1>1, <1>2 DEF Null
<1>4. PICK real : real = RealSize(n)
  OBVIOUS
<1>5. real \in Nat /\ n \in Nat /\ n + W <= real /\ Entry \in Nat
  BY <1>4, RealSizes, WordsAreNumbers DEF Modest
<1>6. CASE m.size[b] < real
  <2>1. PICK lesser : lesser = Min({m.size[b] - W, n})
    OBVIOUS
  <2>2. /\ lesser \in Nat /\ lesser <= n /\ lesser + W <= m.size[b]
        /\ lesser = n \/ lesser + W = m.size[b]
    <3>1. PICK k \in Nat : k = m.size[b] - W
      BY <1>1, WordsAreNumbers
    <3>2. PICK S : S = {k, n}
      OBVIOUS
    <3>3. S \subseteq Nat /\ S # {} /\ k \in S /\ n \in S
      BY <1>5, <3>1, <3>2
    <3>4. lesser = Min(S)
      BY <2>1, <3>1, <3>2
    <3>5. lesser \in S /\ lesser <= k /\ lesser <= n
      BY <3>3, <3>4, MinIsLeast
    <3>6. lesser = k \/ lesser = n
      BY <3>2, <3>5
    <3>7. \A x \in Nat : x <= k => x + W <= m.size[b]
      BY <1>1, <3>1
    <3>8. k + W = m.size[b]
      BY <1>1, <3>1
    <3> QED BY <3>1, <3>3, <3>5, <3>6, <3>7, <3>8
  <2>3. PICK new : new = Malloc(m, n, f)
    OBVIOUS
  <2>4. PICK w : w = Awake(m)
    OBVIOUS
  <2>9. /\ IsMemory(w) /\ w.free = m.free /\ w.size = m.size
        /\ w.end = m.end /\ w.brk = m.brk /\ w.data = m.data
        /\ w.bad = m.bad
    BY <1>1, <2>4 DEF Awake, IsMemory, Null
  <2>10. Good(w, L) /\ w.end + Gap <= f /\ (HasBreak(m) => HasBreak(w))
    BY <2>9 DEF Good, HasBreak
  <2>11. /\ Allocated(w, new, L, n, f)
         /\ HasBreak(w) => HasBreak(new.mem)
    BY <2>3, <2>4, <2>10, MallocAllocates
  <2>12. \A x, K : Kept(w, x, K) => Kept(m, x, K)
    BY <2>9 DEF Kept
  <2>5. /\ Allocated(m, new, L, n, f)
        /\ HasBreak(m) => HasBreak(new.mem)
    BY <2>9, <2>10, <2>11, <2>12 DEF Allocated, Gives
  <2>6. r = IF new.ptr = Null THEN new
            ELSE Answer(new.ptr, Free(Copy(new.mem, new.ptr, p, lesser), p))
    BY <1>2, <1>3, <1>4, <1>6, <2>1, <2>3, Zenon DEF Realloc
  <2>7. CASE new.ptr = Null
    BY <2>5, <2>6, <2>7 DEF Allocated
  <2>8. CASE new.ptr # Null
    <3>1. PICK c : new.ptr = c + W /\ Gives(m, new.mem, L, c, n)
      BY <2>5, <2>8 DEF Allocated
    <3>2. PICK g : g = new.mem
      OBVIOUS
    <3>3. PICK to : to = c + W
      OBVIOUS
    <3>4. PICK d : d = Copy(g, to, p, lesser)
      OBVIOUS
    <3>5. PICK e : e = Free(d, p)
      OBVIOUS
    <3>6. r.ptr = to /\ r.mem = e
      BY <2>6, <2>8, <3>1, <3>2, <3>3, <3>4, <3>5 DEF Answer
    <3>7. /\ Gives(m, e, L \ {b}, c, n) /\ Copied(m, b, e, c, n)
          /\ e.end = g.end
          /\ HasBreak(m) => HasBreak(e)
      <4>1. Gives(m, g, L, c, n) /\ (HasBreak(m) => HasBreak(g))
        BY <2>5, <3>1, <3>2
      <4>2. Good(m, L) /\ b \in L /\ Modest(n)
        OBVIOUS
      <4>3. Gives(m, e, L \ {b}, c, n)
        BY ONLY <1>2, <2>2, <3>3, <3>4, <3>5, <4>1, <4>2, MoveGives
      <4>4. Copied(m, b, e, c, n)
        BY ONLY <1>2, <2>2, <3>3, <3>4, <3>5, <4>1, <4>2, MoveGives
      <4>5. EndsAs(m, g, e)
        BY ONLY <1>2, <2>2, <3>3, <3>4, <3>5, <4>1, <4>2, MoveGives
      <4> QED BY <4>3, <4>4, <4>5 DEF EndsAs
    <3>8. e.end = m.end \/ e.end + Gap <= f
      BY <2>5, <3>2, <3>7 DEF Allocated
    <3> QED BY <2>8, <3>1, <3>3, <3>6, <3>7, <3>8
  <2> QED BY <2>7, <2>8
<1>7. CASE m.size[b] >= real /\ m.size[b] - real >= Entry
  <2>1. PICK z : z = b + real
    OBVIOUS
  <2>2. PICK g : g = SetSize(SetSize(m, b, real), z, m.size[b] - real)
    OBVIOUS
  <2>3. PICK e : e = Free(g, z + W)
    OBVIOUS
  <2>4. ~(m.size[b] < real)
    BY <1>1, <1>5, <1>7
  <2>5. r = Answer(p, e)
    BY <1>2, <1>3, <1>4, <1>7, <2>1, <2>2, <2>3, <2>4, Zenon DEF Realloc
  <2>6. real + Entry <= m.size[b]
    BY <1>1, <1>5, <1>7
  <2>7. /\ Gives(m, e, L \ {b}, b, n) /\ Copied(m, b, e, b, n)
        /\ e.end = m.end
        /\ HasBreak(m) => HasBreak(e)
    <3>1. Good(m, L) /\ b \in L /\ Modest(n)
      OBVIOUS
    <3>2. Gives(m, e, L \ {b}, b, n)
      BY ONLY <1>4, <2>1, <2>2, <2>3, <2>6, <3>1, ShrinkGives
    <3>3. Copied(m, b, e, b, n)
      BY ONLY <1>4, <2>1, <2>2, <2>3, <2>6, <3>1, ShrinkGives
    <3>4. EndsAs(m, m, e)
      BY ONLY <1>4, <2>1, <2>2, <2>3, <2>6, <3>1, ShrinkGives
    <3> QED BY <3>2, <3>3, <3>4 DEF EndsAs
  <2>8. r.ptr = p /\ r.mem = e
    BY <2>5 DEF Answer
  <2> QED BY <1>2, <1>3, <2>7, <2>8
<1>8. CASE m.size[b] >= real /\ ~(m.size[b] - real >= Entry)
  <2>1. ~(m.size[b] < real)
    BY <1>1, <1>5, <1>8
  <2>2. r = Answer(p, m)
    BY <1>2, <1>3, <1>4, <1>8, <2>1, Zenon DEF Realloc
  <2>3. Gives(m, m, L \ {b}, b, n) /\ Copied(m, b, m, b, n)
    BY <1>1, <1>4, <1>5, <1>8, StaysGives
  <2>4. r.ptr = p /\ r.mem = m
    BY <2>2 DEF Answer
  <2> QED BY <1>2, <1>3, <2>3, <2>4
<1>9. m.size[b] < real \/ m.size[b] >= real
  BY <1>1, <1>5
<1> QED BY <1>6, <1>7, <1>8, <1>9

-------------------------------------------------------------------------------
(* memalign *)

\* The sizes after a block is cut in two at z.
Halved(m, r, b, front, z) ==
  /\ DOMAIN r.size = DOMAIN m.size \union {z}
  /\ r.size[b] = front /\ r.size[z] = m.size[b] - front
  /\ SameBut(m.size, r.size, {b})

\* The front of a free block stays on the list, the rest of it is taken.
LEMMA TailGives ==
  ASSUME NEW m, NEW L, Good(m, L), NEW b \in Range(m.free),
         NEW front \in Words, Entry <= front,
         NEW real \in Words, Entry <= real, front + real <= m.size[b],
         NEW z, z = b + front,
         NEW r, r.free = m.free, r.end = m.end, Halved(m, r, b, front, z),
         Spares(m, r, Chunks(L, m.size), m.end + W)
  PROVE  Gave(m, r, L, z, real)
<1> USE WordsAreNumbers
<1>1. /\ m.brk \in Nat /\ Tiles(m.size, m.end) /\ Ascending(m.free)
      /\ Apart(Range(m.free), m.size) /\ m.end \in Words /\ m.end \in Nat
      /\ Start <= m.end /\ L \subseteq DOMAIN m.size
      /\ Range(m.free) \union L = DOMAIN m.size
      /\ Range(m.free) \intersect L = {}
  BY GoodParts
<1>2. b \in DOMAIN m.size /\ b \in Nat /\ m.size[b] \in Nat /\ b \notin L
  BY <1>1, GoodSizes
<1>3. /\ DOMAIN r.size = DOMAIN m.size \union {z}
      /\ r.size[b] = front /\ r.size[z] = m.size[b] - front
      /\ SameBut(m.size, r.size, {b})
  BY DEF Halved
<1>4. PICK y \in Nat : y = b + front
  BY <1>2
<1>5. b < y /\ y < b + m.size[b] /\ front + Entry <= m.size[b]
  BY <1>2, <1>4
<1>6. y \notin DOMAIN m.size
  BY <1>1, <1>2, <1>5, NoneInside
<1>7. Tiles(r.size, r.end)
  BY <1>1, <1>2, <1>3, <1>4, <1>5, Cut
<1>8. Apart(Range(r.free), r.size)
  <2>1. y \notin Range(m.free) /\ b <= y
    BY <1>1, <1>2, <1>5, <1>6
  <2>2. Range(r.free) \subseteq Range(m.free) \union {y}
    OBVIOUS
  <2>3. r.size[b] \in Nat /\ r.size[b] <= m.size[b]
    BY <1>2, <1>3, <1>5
  <2>4. PICK P : P = Range(m.free)
    OBVIOUS
  <2>5. P \subseteq DOMAIN m.size /\ Apart(P, m.size) /\ b \in P
        /\ P \subseteq P \union {y} /\ y \notin P
    BY <1>1, <2>1, <2>4
  <2>6. Apart(P, r.size)
    BY <1>1, <1>3, <1>5, <2>1, <2>3, <2>5, ApartInside
  <2> QED BY <2>4, <2>6
<1>9. Good(r, L \union {z})
  <2>1. /\ Range(r.free) \union (L \union {z}) = DOMAIN r.size
        /\ Range(r.free) \intersect (L \union {z}) = {}
    BY <1>1, <1>3, <1>4, <1>6
  <2> QED BY <1>1, <1>7, <1>8, <2>1 DEF Good, Spares
<1>10. Keeps(m, r, L)
  BY <1>1, <1>2, <1>3 DEF Keeps, SameBut
<1>11. real <= r.size[z]
  BY <1>2, <1>3
<1> QED BY <1>1, <1>4, <1>6, <1>9, <1>10, <1>11 DEF Gave

\* The sizes after a block is cut in three at z and at y.
Thirds(m, r, b, front, z, real, y) ==
  /\ DOMAIN r.size = (DOMAIN m.size \union {z}) \union {y}
  /\ r.size[b] = front /\ r.size[z] = real
  /\ r.size[y] = m.size[b] - front - real
  /\ SameBut(m.size, r.size, {b})

\* The front and the back of a free block stay on the list, the middle is
\* taken.
LEMMA MiddleGives ==
  ASSUME NEW m, NEW L, Good(m, L), NEW b \in Range(m.free),
         NEW front \in Words, Entry <= front,
         NEW real \in Words, Entry <= real,
         front + real + Entry <= m.size[b],
         NEW z, z = b + front, NEW y, y = z + real,
         NEW F, Ascending(F), Range(F) = Range(m.free) \union {y},
         NEW r, r.free = F, r.end = m.end,
         Thirds(m, r, b, front, z, real, y),
         Spares(m, r, Chunks(L, m.size), m.end + W)
  PROVE  Gave(m, r, L, z, real)
<1> USE WordsAreNumbers
<1>1. /\ m.brk \in Nat /\ Tiles(m.size, m.end) /\ Ascending(m.free)
      /\ Apart(Range(m.free), m.size) /\ m.end \in Words /\ m.end \in Nat
      /\ Start <= m.end /\ L \subseteq DOMAIN m.size
      /\ Range(m.free) \union L = DOMAIN m.size
      /\ Range(m.free) \intersect L = {}
  BY GoodParts
<1>2. b \in DOMAIN m.size /\ b \in Nat /\ m.size[b] \in Nat /\ b \notin L
  BY <1>1, GoodSizes
<1>3. /\ DOMAIN r.size = (DOMAIN m.size \union {z}) \union {y}
      /\ r.size[b] = front /\ r.size[z] = real
      /\ r.size[y] = m.size[b] - front - real
      /\ SameBut(m.size, r.size, {b})
  BY DEF Thirds
<1>4. PICK u \in Nat : u = b + front
  BY <1>2
<1>5. PICK v \in Nat : v = u + real
  BY <1>2, <1>4
<1>6. /\ b < u /\ u < v /\ v < b + m.size[b] /\ u < b + m.size[b]
      /\ b < v /\ front + Entry <= m.size[b] /\ z = u /\ y = v
  BY <1>2, <1>4, <1>5
<1>7. u \notin DOMAIN m.size /\ v \notin DOMAIN m.size
  BY <1>1, <1>2, <1>6, NoneInside
<1>8. PICK T : T = [x \in DOMAIN m.size \union {u} |->
                      IF x = b THEN front
                      ELSE IF x = u THEN m.size[b] - front ELSE m.size[x]]
  OBVIOUS
<1>9. /\ DOMAIN T = DOMAIN m.size \union {u}
      /\ T[b] = front /\ T[u] = m.size[b] - front /\ u \in DOMAIN T
      /\ SameBut(m.size, T, {b})
  BY <1>2, <1>6, <1>7, <1>8 DEF SameBut
<1>10. Tiles(T, m.end)
  BY <1>1, <1>2, <1>4, <1>6, <1>9, Cut
<1>11. Tiles(r.size, m.end)
  <2>1. SameBut(T, r.size, {u})
    BY <1>2, <1>3, <1>6, <1>7, <1>9 DEF SameBut
  <2>2. real + Entry <= T[u]
    BY <1>2, <1>9
  <2>3. DOMAIN r.size = DOMAIN T \union {u + real}
    BY <1>3, <1>5, <1>6, <1>9
  <2>4. r.size[u] = real /\ r.size[u + real] = T[u] - real
    BY <1>3, <1>5, <1>6, <1>9
  <2> QED BY <1>1, <1>9, <1>10, <2>1, <2>2, <2>3, <2>4, Cut
<1>12. Apart(Range(r.free), r.size)
  <2>1. PICK P : P = Range(m.free)
    OBVIOUS
  <2>2. PICK Q : Q = Range(F)
    OBVIOUS
  <2>3. /\ P \subseteq DOMAIN m.size /\ Apart(P, m.size) /\ b \in P
        /\ Q \subseteq P \union {v}
    BY <1>1, <1>6, <2>1, <2>2
  <2>4. b <= v /\ v < b + m.size[b]
    BY <1>2, <1>6
  <2>5. /\ r.size[v] \in Nat /\ v + r.size[v] <= b + m.size[b]
        /\ r.size[b] \in Nat /\ r.size[b] <= m.size[b]
        /\ b + r.size[b] < v
    BY <1>2, <1>3, <1>4, <1>5, <1>6
  <2>6. Apart(Q, r.size)
    BY <1>1, <1>3, <2>3, <2>4, <2>5, ApartInside
  <2> QED BY <2>2, <2>6
<1>13. Good(r, L \union {z})
  <2>1. /\ Range(r.free) \union (L \union {z}) = DOMAIN r.size
        /\ Range(r.free) \intersect (L \union {z}) = {}
    BY <1>1, <1>3, <1>6, <1>7
  <2> QED BY <1>1, <1>11, <1>12, <2>1 DEF Good, Spares
<1>14. Keeps(m, r, L)
  BY <1>1, <1>2, <1>3 DEF Keeps, SameBut
<1>15. real <= r.size[z]
  BY <1>3
<1> QED BY <1>1, <1>6, <1>7, <1>13, <1>14, <1>15 DEF Gave

\* Alignments that divide the word, or that it divides: powers of two do.
Aligning(a) == a \in Nat \ {0} /\ (a % W = 0 \/ W % a = 0)

\* Aligning a word to such an alignment gives a word.
LEMMA WordAligns ==
  ASSUME NEW a, Aligning(a), NEW x \in Words
  PROVE  MAlign(x, a) \in Words /\ (x + MAlign(x, a)) % a = 0
<1>1. /\ a \in Nat \ {0} /\ x \in Nat /\ x % W = 0 /\ W \in Nat \ {0}
      /\ a % W = 0 \/ W % a = 0
  BY DEF Aligning, Words
<1>2. PICK k \in Nat : k = MAlign(x, a)
  BY <1>1, AlignsUp
<1>3. (x + k) % a = 0 /\ (x % a = 0 => k = 0)
  BY <1>1, <1>2, AlignsUp
<1>4. CASE a % W = 0
  <2>1. PICK y \in Nat : y = x + k
    BY <1>1
  <2>2. y % W = 0
    <3>1. y \in Int /\ y % a = 0
      BY <1>3, <2>1
    <3> QED BY <1>1, <1>4, <3>1, MultipleOfMultiple, Zenon
  <2>3. (y - x) % W = 0
    <3>1. y \in Int /\ x \in Int
      BY <1>1, <2>1
    <3> QED BY <1>1, <2>2, <3>1, Multiples, Zenon
  <2>4. y - x = k
    BY <1>1, <2>1
  <2> QED BY <1>2, <1>3, <2>3, <2>4 DEF Words
<1>5. CASE W % a = 0
  <2>1. x % a = 0
    <3>1. x \in Int
      BY <1>1
    <3> QED BY <1>1, <1>5, <3>1, MultipleOfMultiple, Zenon
  <2>2. k = 0 /\ 0 \in Words
    <3>1. 0 % W = 0
      BY SMT
    <3> QED BY <1>3, <2>1, <3>1 DEF Words
  <2> QED BY <1>2, <1>3, <2>2
<1> QED BY <1>1, <1>4, <1>5

\* What memalign leaves in front of a chunk is nothing, or a block.
LEMMA BeforeIs ==
  ASSUME NEW a, Aligning(a), NEW b \in Words
  PROVE  /\ Before(b, a) \in Words
         /\ Before(b, a) = 0 \/ Entry <= Before(b, a)
         /\ (b + Before(b, a) + W) % a = 0
<1> USE WordsAreNumbers
<1>1. PICK x \in Words : x = b + W
  BY SmallWords, SumsOfWords
<1>2. MAlign(x, a) \in Words /\ (x + MAlign(x, a)) % a = 0
  BY WordAligns
<1>3. b \in Nat /\ x \in Nat /\ Entry \in Nat /\ Entry \in Words
  BY SmallWords
<1>4. CASE MAlign(b + W, a) = 0
  <2>1. Before(b, a) = 0
    BY <1>4 DEF Before
  <2>2. x % a = 0
    BY <1>1, <1>2, <1>3, <1>4
  <2>3. 0 \in Words
    BY <1>1, <1>2, <1>4
  <2> QED BY <1>1, <1>3, <2>1, <2>2, <2>3
<1>5. CASE MAlign(b + W, a) # 0
  <2>1. PICK y \in Words : y = b + Entry + W
    <3>1. b + Entry \in Words
      BY <1>3, SumsOfWords
    <3> QED BY <3>1, SmallWords, SumsOfWords
  <2>2. PICK k \in Words : k = MAlign(y, a) /\ (y + k) % a = 0
    BY WordAligns
  <2>3. k \in Nat /\ y \in Nat
    OBVIOUS
  <2>4. Before(b, a) = Entry + k
    BY <1>5, <2>1, <2>2 DEF Before
  <2>5. Entry + k \in Words
    BY <1>3, SumsOfWords
  <2>6. b + (Entry + k) + W = y + k
    BY <1>3, <2>1, <2>3
  <2> QED BY <1>3, <2>2, <2>3, <2>4, <2>5, <2>6
<1> QED BY <1>4, <1>5

\* r answers a block for real bytes whose chunk is aligned to a.
AlignedTo(m, r, L, real, a) ==
  /\ \E c \in Nat : /\ r.ptr = c + W /\ Gave(m, r.mem, L, c, real)
                    /\ (c + W) % a = 0
  /\ r.mem.end = m.end

\* memalign takes an aligned block out of one on the free list.
LEMMA TakeAlignedGives ==
  ASSUME NEW m, NEW L, Good(m, L), NEW i \in 1..Len(m.free),
         NEW b, b = m.free[i], NEW a, Aligning(a),
         NEW real \in Words, Entry <= real,
         real + Before(b, a) <= m.size[b],
         NEW r, r = TakeAligned(m, i, real, a)
  PROVE  AlignedTo(m, r, L, real, a)
<1> DEFINE C == Chunks(L, m.size)
           lim == m.end + W
<1>1. /\ b \in DOMAIN m.size /\ b \notin L /\ b \in Range(m.free)
      /\ b \in Words /\ b \in Nat /\ m.size[b] \in Nat
      /\ Open(C, lim, b, m.size[b]) /\ Open(C, lim, b, W)
  BY FreeBlock
<1>2. /\ m.brk \in Nat /\ Ascending(m.free) /\ lim \in Nat
      /\ Spares(m, m, C, lim) /\ IsMemory(m)
  BY GoodParts
<1>3. PICK front : front = Before(b, a)
  OBVIOUS
<1>4. front \in Words /\ front \in Nat /\ (front = 0 \/ Entry <= front)
  BY <1>1, <1>3, BeforeIs, WordsAreNumbers
<1>9. (b + front + W) % a = 0
  BY <1>1, <1>3, BeforeIs
<1>5. /\ real \in Nat /\ Entry \in Nat /\ W \in Nat /\ W < Entry
      /\ front + real <= m.size[b] /\ Entry <= real
  BY <1>1, <1>3, <1>4, WordsAreNumbers
<1> HIDE DEF C, lim
<1>6. CASE front = 0 /\ m.size[b] <= real + Entry
  <2>1. PICK g : g = [m EXCEPT !.free = RemoveAt(m.free, i)]
    OBVIOUS
  <2>2. r = Answer(b + W, g)
    BY <1>2, <1>3, <1>6, <2>1 DEF TakeAligned, IsMemory
  <2>4. real <= m.size[b]
    BY <1>1, <1>4, <1>5, <1>6
  <2>3. Gave(m, g, L, b, real) /\ g.end = m.end
    BY <2>1, <2>4, RemoveGives
  <2> QED BY <1>1, <1>9, <1>6, <2>2, <2>3 DEF Answer, AlignedTo
<1>7. CASE front = 0 /\ ~(m.size[b] <= real + Entry)
  <2>1. PICK g : g = SetSize(Split(m, i, real), b, real)
    OBVIOUS
  <2>2. r = Answer(b + W, g)
    BY <1>3, <1>7, <2>1 DEF TakeAligned
  <2>3. real + Entry <= m.size[b]
    BY <1>1, <1>5, <1>7
  <2>4. Gave(m, g, L, b, real) /\ g.end = m.end
    BY <2>1, <2>3, SplitGives
  <2> QED BY <1>1, <1>9, <1>7, <2>2, <2>4 DEF Answer, AlignedTo
<1>8. ASSUME front # 0
      PROVE  AlignedTo(m, r, L, real, a)
  <2>1. Entry <= front
    BY <1>4, <1>8
  <2>2. PICK z \in Nat : z = b + front
    BY <1>1, <1>4
  <2>3. b # z /\ b + W <= z
    BY <1>1, <1>4, <1>5, <2>1, <2>2
  <2>4. Open(C, lim, z, W)
    <3>1. b <= z /\ z + W <= b + m.size[b]
      BY ONLY <1>1, <1>4, <1>5, <2>2
    <3> QED BY ONLY <1>1, <1>2, <1>5, <2>2, <3>1, OpenParts
  <2>5. PICK m1 : m1 = SetSize(m, b, front)
    OBVIOUS
  <2>6. Resized(m, m1, b, front) /\ Spares(m, m1, C, lim)
    BY ONLY <1>1, <1>2, <2>5, SetSizeIs
  <2>7. z \notin DOMAIN m.size
    <3>1. b < z /\ z < b + m.size[b]
      BY ONLY <1>1, <1>4, <1>5, <2>1, <2>2
    <3> QED BY <1>1, <3>1, NoneInside DEF Good
  <2>8. (z + W) % a = 0
    BY <1>9, <2>2
  <2>9. CASE m.size[b] - front <= real + Entry
    <3>1. PICK s : s = m.size[b] - front
      OBVIOUS
    <3>2. PICK g : g = SetSize(m1, z, s)
      OBVIOUS
    <3>3. r = Answer(z + W, g)
      BY <1>3, <1>8, <2>2, <2>5, <2>9, <3>1, <3>2 DEF TakeAligned
    <3>4. Resized(m1, g, z, s) /\ Spares(m, g, C, lim)
      BY ONLY <1>2, <2>4, <2>6, <3>2, SetSizeIs
    <3>5. /\ g.free = m.free /\ g.end = m.end
          /\ DOMAIN g.size = DOMAIN m.size \union {z}
          /\ g.size[b] = front /\ g.size[z] = s
          /\ SameBut(m.size, g.size, {b})
      BY <1>1, <2>3, <2>6, <2>7, <3>4 DEF Resized, SameBut
    <3>6. Halved(m, g, b, front, z)
      BY <3>1, <3>5 DEF Halved
    <3>7. Gave(m, g, L, z, real)
      <4>1. Spares(m, g, Chunks(L, m.size), m.end + W)
        BY <3>4 DEF C, lim
      <4> QED BY <1>1, <1>4, <1>5, <2>1, <2>2, <3>5, <3>6, <4>1, TailGives
    <3> QED BY <2>2, <2>8, <3>3, <3>5, <3>7 DEF Answer, AlignedTo
  <2>10. CASE ~(m.size[b] - front <= real + Entry)
    <3>1. PICK y \in Nat : y = z + real
      BY <1>5
    <3>2. front + real + Entry <= m.size[b]
      BY <1>1, <1>4, <1>5, <2>10
    <3>3. PICK s : s = m.size[b] - front - real
      OBVIOUS
    <3>4. PICK F : F = InsertAt(m.free, i + 1, y)
      OBVIOUS
    <3>5. PICK m2 : m2 = [m1 EXCEPT !.free = F]
      OBVIOUS
    <3>6. PICK m3 : m3 = SetSize(m2, y, s)
      OBVIOUS
    <3>7. PICK m4 : m4 = SetNext(m3, y)
      OBVIOUS
    <3>8. PICK g : g = SetSize(m4, z, real)
      OBVIOUS
    <3>9. m1.free = m.free /\ IsMemory(m1)
      BY <2>6 DEF Resized, Spares
    <3>10. r = Answer(z + W, g)
      BY <1>3, <1>8, <2>2, <2>5, <2>10, <3>1, <3>3, <3>4, <3>5, <3>6, <3>7,
         <3>8, <3>9 DEF TakeAligned, IsMemory
    <3>30. PICK len \in Nat : len = m.size[b]
      BY <1>1
    <3>31. /\ front \in Nat /\ real \in Nat /\ b \in Nat /\ len \in Nat
           /\ Entry \in Nat /\ W \in Nat /\ W < Entry /\ Entry <= real
           /\ z = b + front /\ y = z + real /\ front + real + Entry <= len
      BY <1>1, <1>4, <1>5, <2>2, <3>1, <3>2, <3>30
    <3>32. b < y /\ z < y /\ y + Entry <= b + len /\ y < b + len
      BY ONLY <3>31
    <3>11. b < y /\ z < y /\ y < b + m.size[b]
      BY ONLY <3>30, <3>32
    <3>12. Open(C, lim, y, W) /\ Open(C, lim, y, Entry)
      <4>1. y + Entry <= b + m.size[b]
        BY ONLY <3>30, <3>32
      <4>2. b <= y /\ y + W <= b + m.size[b]
        BY ONLY <1>1, <1>5, <3>1, <3>11, <4>1
      <4> QED BY ONLY <1>1, <1>2, <1>5, <3>1, <4>1, <4>2, OpenParts
    <3>13. Relisted(m1, m2, F, m1.end) /\ Spares(m, m2, C, lim)
      BY <2>6, <3>5, FreeIs, Zenon
    <3>14. Resized(m2, m3, y, s) /\ Spares(m, m3, C, lim)
      BY ONLY <1>2, <3>6, <3>12, <3>13, SetSizeIs
    <3>15. Rewritten(m3, m4) /\ Spares(m, m4, C, lim)
      BY ONLY <1>2, <3>7, <3>12, <3>14, SetNextIs
    <3>16. Resized(m4, g, z, real) /\ Spares(m, g, C, lim)
      BY ONLY <1>2, <2>4, <3>8, <3>15, SetSizeIs
    <3>17. y \notin DOMAIN m.size
      BY <1>1, <3>1, <3>11, GoodParts, NoneInside
    <3>18. /\ g.free = F /\ g.end = m.end
           /\ DOMAIN g.size = (DOMAIN m.size \union {z}) \union {y}
           /\ g.size[z] = real
      BY <1>1, <2>6, <3>13, <3>14, <3>15, <3>16
         DEF Resized, Relisted, Rewritten
    <3>19. g.size[b] = front /\ g.size[y] = s /\ SameBut(m.size, g.size, {b})
      <4>1. /\ b # y /\ b # z /\ y # z
            /\ \A x \in DOMAIN m.size : x # y /\ x # z
        BY <1>1, <2>3, <2>7, <3>11, <3>17
      <4>2. m3.size[y] = s /\ g.size[y] = m3.size[y]
        BY ONLY <3>14, <3>15, <3>16, <4>1
           DEF Resized, Rewritten, SameBut
      <4>3. \A x \in DOMAIN m.size : g.size[x] = m1.size[x]
        <5>1. ASSUME NEW x \in DOMAIN m.size PROVE g.size[x] = m1.size[x]
          <6>1. x \in DOMAIN m1.size
            BY ONLY <2>6, <5>1 DEF Resized
          <6>2. x # y /\ x # z
            BY ONLY <4>1, <5>1
          <6>3. m2.size = m1.size
            BY ONLY <3>13 DEF Relisted
          <6>4. x \in DOMAIN m3.size /\ m3.size[x] = m1.size[x]
            BY ONLY <3>14, <6>1, <6>2, <6>3 DEF Resized, SameBut
          <6> QED BY ONLY <3>15, <3>16, <6>2, <6>4
                  DEF Resized, Rewritten, SameBut
        <5> QED BY <5>1
      <4>4. m1.size[b] = front /\ SameBut(m.size, m1.size, {b})
        BY ONLY <2>6 DEF Resized
      <4> QED BY ONLY <1>1, <4>2, <4>3, <4>4 DEF SameBut
    <3>20. Thirds(m, g, b, front, z, real, y)
      BY <3>3, <3>18, <3>19 DEF Thirds
    <3>21. Ascending(F) /\ Range(F) = Range(m.free) \union {y}
      <4>1. PICK H : H = m.free
        OBVIOUS
      <4>2. ASSUME NEW k \in 1..Len(H)
            PROVE  (k < i + 1 => H[k] < y) /\ (k >= i + 1 => y < H[k])
        <5>1. H[k] \in DOMAIN m.size /\ H[k] \in Nat
          BY <4>1, GoodSizes
        <5>2. (k < i => H[k] < b) /\ (k > i => b < H[k])
          BY <1>2, <4>1 DEF Ascending
        <5>3. k > i => b + m.size[b] <= H[k]
          BY <1>1, <5>1, <5>2, GoodSizes
        <5>4. k = i => H[k] = b
          BY <4>1
        <5>5. k < i + 1 => H[k] < y
          BY <1>1, <3>11, <5>1, <5>2, <5>4, SMTT(30)
        <5>6. k >= i + 1 => y < H[k]
          BY <1>1, <3>11, <5>1, <5>3
        <5> QED BY <5>5, <5>6
      <4>3. PICK j : j = i + 1
        OBVIOUS
      <4>4. Ascending(H) /\ j \in 1..(Len(H) + 1) /\ F = InsertAt(H, j, y)
        BY <1>2, <3>4, <4>1, <4>3, ListOf
      <4>5. \A k \in 1..Len(H) : (k < j => H[k] < y) /\ (k >= j => y < H[k])
        BY <4>2, <4>3
      <4>6. Ascending(F) /\ Range(F) = Range(H) \union {y}
        BY ONLY <3>1, <4>4, <4>5, LinkIn
      <4> QED BY <4>1, <4>6
    <3>22. Gave(m, g, L, z, real)
      <4>1. Spares(m, g, Chunks(L, m.size), m.end + W)
        BY <3>16 DEF C, lim
      <4>2. g.free = F /\ g.end = m.end
        BY <3>18
      <4> QED BY <1>1, <1>4, <1>5, <2>1, <2>2, <3>1, <3>2, <3>20, <3>21, <4>1,
                 <4>2, MiddleGives
    <3> QED BY <2>2, <2>8, <3>10, <3>18, <3>22 DEF Answer, AlignedTo
  <2> QED BY <2>9, <2>10
<1> QED BY <1>6, <1>7, <1>8

\* The free list ends with b, which reaches the end of the heap.
EndsWith(m, b) ==
  /\ Len(m.free) \in 1..Len(m.free) /\ m.free[Len(m.free)] = b
  /\ Last(m.free) = b /\ b \in Range(m.free)
  /\ Behind(m.size, b, m.end)

\* The last block on the list when it touches __malloc_end.
LEMMA LastIs ==
  ASSUME NEW m, NEW L, Good(m, L), LastIsAtEnd(m)
  PROVE  \E b \in Nat : EndsWith(m, b)
<1>1. m.free # <<>> /\ Ascending(m.free)
  BY GoodParts DEF LastIsAtEnd
<1>2. PICK b : b = Last(m.free)
  OBVIOUS
<1>3. PICK F : F = Front(m.free)
  OBVIOUS
<1>4. Len(m.free) \in 1..Len(m.free) /\ b = m.free[Len(m.free)]
  BY <1>1, <1>2, <1>3, UnlinkLast
<1>5. b \in Range(m.free) /\ b \in Nat
  BY <1>1, <1>4, ListOf
<1>6. Behind(m.size, b, m.end)
  BY <1>2 DEF LastIsAtEnd, Behind
<1> QED BY <1>2, <1>4, <1>5, <1>6 DEF EndsWith

\* memalign makes a free block at the end.
LEMMA NewLastFree ==
  ASSUME NEW m, NEW L, Good(m, L), ~LastIsAtEnd(m),
         NEW first \in Words, Entry <= first,
         NEW r, r = SetNext(SetSize([m EXCEPT !.free = Append(m.free, m.end),
                                              !.end = m.end + first],
                                    m.end, first), m.end)
  PROVE  /\ Good(r, L) /\ Kept(m, r, L) /\ r.end = m.end + first
         /\ EndsWith(r, m.end) /\ Sized(r, m.end, first)
<1> USE WordsAreNumbers
<1> DEFINE C == Chunks(L, m.size)
           lim == m.end + first
<1>1. PICK b : b = m.end
  OBVIOUS
<1>2. /\ m.brk \in Nat /\ Ascending(m.free) /\ Tiles(m.size, b)
      /\ Apart(Range(m.free), m.size) /\ b \in Words /\ b \in Nat
      /\ Start <= b /\ lim \in Nat /\ L \subseteq DOMAIN m.size
      /\ Range(m.free) \union L = DOMAIN m.size
      /\ Range(m.free) \intersect L = {} /\ first \in Nat
      /\ Spares(m, m, C, lim)
  BY <1>1, GoodParts DEF Spares
<1>3. Open(C, lim, b, W) /\ Open(C, lim, b, Entry)
  <2>1. ASSUME NEW a \in C PROVE a \in Nat /\ a < b
    <3>1. PICK x \in L : a \in Nat /\ a < x + m.size[x]
      BY DEF Chunks
    <3>2. x \in Nat /\ m.size[x] \in Nat /\ x + m.size[x] <= b
      BY <1>1, <1>2, GoodSizes
    <3> QED BY <1>2, <3>1, <3>2
  <2>2. b + W <= lim /\ b + Entry <= lim
    BY <1>1, <1>2
  <2> QED BY <1>2, <2>1, <2>2 DEF Open
<1>4. PICK F : F = Append(m.free, b)
  OBVIOUS
<1>5. PICK m1 : m1 = [m EXCEPT !.free = F, !.end = b + first]
  OBVIOUS
<1>6. PICK m2 : m2 = SetSize(m1, b, first)
  OBVIOUS
<1>7. r = SetNext(m2, b)
  BY <1>1, <1>4, <1>5, <1>6
<1> HIDE DEF C, lim
<1>8. Relisted(m, m1, F, b + first) /\ Spares(m, m1, C, lim)
  BY <1>2, <1>5, EndIs, Zenon
<1>9. Resized(m1, m2, b, first) /\ Spares(m, m2, C, lim)
  BY ONLY <1>2, <1>3, <1>6, <1>8, SetSizeIs
<1>10. Rewritten(m2, r) /\ Spares(m, r, C, lim)
  BY ONLY <1>2, <1>3, <1>7, <1>9, SetNextIs
<1>11. /\ r.free = F /\ r.end = b + first
       /\ DOMAIN r.size = DOMAIN m.size \union {b} /\ r.size[b] = first
       /\ SameBut(m.size, r.size, {b})
  BY <1>8, <1>9, <1>10 DEF Relisted, Resized, Rewritten
<1>12. Tiles(r.size, b + first) /\ b \notin DOMAIN m.size
  BY ONLY <1>2, <1>11, Extend, first \in Words, Entry <= first
<1>13. /\ Ascending(F) /\ Range(F) = Range(m.free) \union {b}
       /\ F[Len(F)] = b /\ Len(F) \in 1..Len(F)
  <2>1. \A k \in 1..Len(m.free) : m.free[k] < b
    <3>1. ASSUME NEW k \in 1..Len(m.free) PROVE m.free[k] < b
      <4>1. /\ m.free[k] \in Nat /\ m.size[m.free[k]] \in Nat
            /\ Entry <= m.size[m.free[k]]
            /\ m.free[k] + m.size[m.free[k]] <= b
        BY <1>1, GoodSizes
      <4> QED BY <1>2, <4>1, SMTT(30)
    <3> QED BY <3>1
  <2>2. PICK H : H = m.free
    OBVIOUS
  <2>3. /\ Ascending(F) /\ Range(F) = Range(H) \union {b}
        /\ F[Len(H) + 1] = b /\ Len(F) = Len(H) + 1
    BY <1>2, <1>4, <2>1, <2>2, LinkLast
  <2>4. Len(H) \in Nat
    BY <1>2, <2>2, ListOf
  <2> QED BY <2>2, <2>3, <2>4
<1>14. ASSUME NEW x \in Range(m.free) PROVE x + m.size[x] < b
  <2>1. PICK i \in 1..Len(m.free) : x = m.free[i]
    BY <1>2, ListOf, SMTT(30)
  <2>2. PICK n \in Nat : n = Len(m.free)
    BY <1>2, ListOf
  <2>3. x \in Nat /\ m.size[x] \in Nat /\ x + m.size[x] <= b
    BY <1>1, <1>2, GoodSizes
  <2>6. b \in Nat
    BY <1>2
  <2>4. CASE i = n
    <3>1. m.free # <<>>
      BY <1>2, <2>1, ListOf, SMTT(30)
    <3>2. PICK G : G = Front(m.free)
      OBVIOUS
    <3>3. Last(m.free) = x
      BY <1>2, <2>1, <2>2, <2>4, <3>1, <3>2, UnlinkLast
    <3>4. x + m.size[x] # b
      BY <1>1, <3>1, <3>3 DEF LastIsAtEnd
    <3> QED BY ONLY <2>3, <2>6, <3>4
  <2>5. CASE i # n
    <3>1. PICK y : y = m.free[n]
      OBVIOUS
    <3>2. n \in 1..Len(m.free) /\ i < n
      BY ONLY <2>1, <2>2, <2>5
    <3>3. x < y
      BY <1>2, <2>1, <3>1, <3>2 DEF Ascending
    <3>4. y \in Range(m.free) /\ y \in Nat /\ m.size[y] \in Nat
          /\ y + m.size[y] <= b
      BY <1>1, <1>2, <3>1, <3>2, ListOf, GoodSizes
    <3>5. x + m.size[x] < y
      BY <1>2, <3>3, <3>4 DEF Apart
    <3> QED BY ONLY <2>3, <2>6, <3>4, <3>5
  <2> QED BY <2>4, <2>5
<1>15. Apart(Range(r.free), r.size)
  <2>1. ASSUME NEW x \in Range(F), NEW y \in Range(F), x < y
        PROVE  x + r.size[x] < y
    <3>1. \A w \in Range(m.free) : /\ w \in Nat /\ w < b /\ w # b
                                   /\ r.size[w] = m.size[w]
      <4>1. ASSUME NEW w \in Range(m.free)
            PROVE  w \in Nat /\ w < b /\ w # b /\ r.size[w] = m.size[w]
        <5>1. w \in Nat /\ m.size[w] \in Nat
          BY <1>2, GoodSizes
        <5>2. w + m.size[w] < b
          BY <1>14
        <5> QED BY <1>2, <1>11, <5>1, <5>2 DEF SameBut
      <4> QED BY <4>1
    <3>2. x \in Range(m.free)
      BY <1>2, <1>13, <2>1, <3>1
    <3>3. CASE y = b
      BY <1>14, <3>1, <3>2, <3>3
    <3>4. CASE y \in Range(m.free)
      BY <1>2, <2>1, <3>1, <3>2, <3>4 DEF Apart
    <3> QED BY <1>13, <3>3, <3>4
  <2> QED BY <1>11, <2>1 DEF Apart
<1>16. Good(r, L)
  <2>1. /\ Range(r.free) \union L = DOMAIN r.size
        /\ Range(r.free) \intersect L = {}
    BY <1>2, <1>11, <1>12, <1>13, SMTT(30)
  <2>2. b + first \in Words /\ Start <= b + first
    BY <1>2, SumsOfWords
  <2>3. IsMemory(r) /\ r.brk \in Nat
    BY <1>10 DEF Spares
  <2> QED BY <1>11, <1>12, <1>13, <1>15, <2>1, <2>2, <2>3, SMTT(30)
    DEF Good
<1>17. Kept(m, r, L)
  BY <1>2, <1>10, <1>11, <1>12 DEF Kept, SameBut, Spares, C
<1>18. EndsWith(r, b)
  <2>1. Last(F) = b
    BY <1>13 DEF Last
  <2> QED BY <1>11, <1>13, <2>1 DEF EndsWith, Behind
<1> QED BY <1>1, <1>11, <1>16, <1>17, <1>18 DEF Sized

\* memalign stretches the free block at the end.
LEMMA LastStretched ==
  ASSUME NEW m, NEW L, Good(m, L), NEW b, EndsWith(m, b),
         NEW need \in Words, m.size[b] <= need,
         NEW r, r = SetSize([m EXCEPT !.end = b + need], b, need)
  PROVE  /\ Good(r, L) /\ Kept(m, r, L) /\ r.end = b + need
         /\ r.free = m.free /\ Sized(r, b, need)
<1> USE WordsAreNumbers
<1> DEFINE C == Chunks(L, m.size)
           lim == m.end + W
<1>1. /\ m.brk \in Nat /\ Ascending(m.free) /\ Tiles(m.size, m.end)
      /\ Apart(Range(m.free), m.size) /\ m.end \in Words /\ m.end \in Nat
      /\ Start <= m.end /\ lim \in Nat /\ L \subseteq DOMAIN m.size
      /\ Range(m.free) \union L = DOMAIN m.size
      /\ Range(m.free) \intersect L = {}
      /\ Spares(m, m, C, lim) /\ IsMemory(m)
  BY GoodParts
<1>2. /\ Len(m.free) \in 1..Len(m.free) /\ b = m.free[Len(m.free)]
      /\ b \in Range(m.free) /\ b + m.size[b] = m.end
  BY DEF EndsWith, Behind
<1>3. /\ b \in DOMAIN m.size /\ b \notin L
      /\ b \in Words /\ b \in Nat /\ m.size[b] \in Nat /\ Start <= b
      /\ Open(C, lim, b, W)
  BY <1>2, FreeBlock
<1>4. PICK e : e = b + need
  OBVIOUS
<1>5. PICK m1 : m1 = [m EXCEPT !.free = m.free, !.end = e]
  OBVIOUS
<1>6. r = SetSize(m1, b, need)
  BY <1>1, <1>4, <1>5 DEF IsMemory, SetSize, Poke
<1> HIDE DEF C, lim
<1>7. Relisted(m, m1, m.free, e) /\ Spares(m, m1, C, lim)
  BY ONLY <1>1, <1>5, EndIs
<1>8. Resized(m1, r, b, need) /\ Spares(m, r, C, lim)
  BY ONLY <1>1, <1>3, <1>6, <1>7, SetSizeIs
<1>9. /\ r.free = m.free /\ r.end = e
      /\ DOMAIN r.size = DOMAIN m.size /\ r.size[b] = need
      /\ SameBut(m.size, r.size, {b})
  BY <1>3, <1>7, <1>8 DEF Relisted, Resized
<1>10. Tiles(r.size, b + need)
  BY <1>1, <1>2, <1>3, <1>9, Grow
<1>11. Apart(Range(r.free), r.size)
  <2>1. ASSUME NEW x \in Range(m.free), NEW y \in Range(m.free), x < y
        PROVE  x + r.size[x] < y
    <3>1. x # b
      <4>1. PICK j \in 1..Len(m.free) : y = m.free[j]
        BY <1>1, ListOf, SMTT(30)
      <4>2. Len(m.free) \in Nat /\ y \in Nat
        BY <1>1, <4>1, ListOf
      <4>3. j = Len(m.free) \/ j < Len(m.free)
        BY <4>2
      <4>5. \A i, k \in 1..Len(m.free) : i < k => m.free[i] < m.free[k]
        BY <1>1 DEF Ascending
      <4>6. j < Len(m.free) => y < b
        BY <1>2, <4>1, <4>5, Zenon
      <4>7. j = Len(m.free) => y = b
        BY <1>2, <4>1, Zenon
      <4>4. y <= b
        BY <1>3, <4>2, <4>3, <4>6, <4>7
      <4> QED BY <1>3, <2>1, <4>2, <4>4
    <3>2. x + m.size[x] < y
      BY <1>1, <2>1 DEF Apart
    <3> QED BY <1>1, <1>9, <3>1, <3>2 DEF SameBut
  <2> QED BY <1>9, <2>1 DEF Apart
<1>12. Good(r, L)
  <2>1. b + need \in Words /\ Start <= b + need
    BY <1>3, SumsOfWords
  <2>2. IsMemory(r) /\ r.brk \in Nat
    BY <1>8 DEF Spares
  <2> QED BY <1>1, <1>4, <1>9, <1>10, <1>11, <2>1, <2>2 DEF Good
<1>13. Kept(m, r, L)
  BY <1>1, <1>3, <1>8, <1>9 DEF Kept, SameBut, Spares, C
<1> QED BY <1>4, <1>9, <1>12, <1>13 DEF Sized

\* The heap may have grown, but never nearer to the stack than the gap, and it
\* is within the break unless it has.
Onward(m, r, f) ==
  /\ r.end = m.end \/ r.end + Gap <= f
  /\ r.end = m.end /\ HasBreak(m) => HasBreak(r)

\* What a call of memalign may answer.
Answers(m, r, L, n, a, f) ==
  /\ r.ptr = Null => Good(r.mem, L) /\ Kept(m, r.mem, L)
  /\ r.ptr # Null => \E c \in Nat : /\ r.ptr = c + W
                                    /\ Gives(m, r.mem, L, c, n)
                                    /\ (c + W) % a = 0
  /\ Onward(m, r.mem, f)

\* An aligned block is a chunk of the bytes asked for.
LEMMA AlignedAnswers ==
  ASSUME NEW m, NEW L, NEW n, Modest(n), NEW a, NEW f,
         NEW g, Good(g, L), Kept(m, g, L), Onward(m, g, f),
         NEW r, AlignedTo(g, r, L, RealSize(n), a)
  PROVE  Answers(m, r, L, n, a, f)
<1>1. PICK c \in Nat : /\ r.ptr = c + W
                       /\ Gave(g, r.mem, L, c, RealSize(n))
                       /\ (c + W) % a = 0
  BY DEF AlignedTo
<1>2. PICK e : e = r.mem
  OBVIOUS
<1>3. e.end = g.end
  BY <1>2 DEF AlignedTo
<1>4. Gave(g, e, L, c, RealSize(n))
  BY <1>1, <1>2
<1>5. Gives(g, e, L, c, n)
  BY <1>4, GaveGives
<1>6. Gives(m, e, L, c, n)
  <2>1. Kept(g, e, L)
    BY <1>5 DEF Gives
  <2>2. Kept(m, e, L)
    BY <2>1, KeptThen
  <2> QED BY <1>5, <2>2 DEF Gives
<1>7. HasBreak(g) => HasBreak(e)
  <2>1. Keeps(g, e, L)
    BY <1>4 DEF Gave
  <2>2. g.brk \in Nat /\ g.end \in Nat
    BY GoodParts
  <2> QED BY <1>3, <2>1, <2>2, KeepsIsKept
<1>8. Onward(m, e, f)
  BY <1>3, <1>7 DEF Onward
<1>9. r.ptr # Null
  <2>1. W \in Nat \ {0}
    OBVIOUS
  <2> QED BY <1>1, <2>1 DEF Null
<1>10. r.ptr = c + W /\ (c + W) % a = 0
  BY <1>1
<1> QED BY <1>2, <1>6, <1>8, <1>9, <1>10 DEF Answers

\* What fits a chunk of real bytes at a multiple of a.
FitsAligned(m, real, a) ==
  {i \in DOMAIN m.free : m.size[m.free[i]] >= real + Before(m.free[i], a)}

\* What memalign does with the last block, b, of a heap that has one.
AtEnd(m, b, real, a, f) ==
  LET need == Before(b, a) + real IN
  IF m.size[b] >= need THEN TakeAligned(m, Len(m.free), real, a)
  ELSE IF ~CanAlloc(m, f, need - m.size[b]) THEN Answer(Null, m)
  ELSE TakeAligned(SetSize([m EXCEPT !.end = b + need], b, need),
                   Len(m.free), real, a)

\* memalign from the last free block, extended when it is too small.
LEMMA AtEndAnswers ==
  ASSUME NEW o, NEW L, NEW n, Modest(n), NEW a, Aligning(a), NEW f \in Frames,
         NEW m, Good(m, L), Kept(o, m, L), Onward(o, m, f),
         o.end \in Nat, o.end <= m.end, m.end + Gap <= f,
         NEW b, EndsWith(m, b),
         NEW r, r = AtEnd(m, b, RealSize(n), a, f)
  PROVE  Answers(o, r, L, n, a, f)
<1> USE WordsAreNumbers
<1>1. PICK real : real = RealSize(n)
  OBVIOUS
<1>2. real \in Words /\ real \in Nat /\ Entry <= real
  BY <1>1, RealSizes
<1>3. PICK front : front = Before(b, a)
  OBVIOUS
<1>4. /\ Len(m.free) \in 1..Len(m.free) /\ b = m.free[Len(m.free)]
      /\ b + m.size[b] = m.end
  BY DEF EndsWith, Behind
<1>5. b \in Words /\ b \in Nat /\ m.size[b] \in Nat
  BY <1>4, FreeBlock
<1>6. front \in Words /\ front \in Nat
  BY <1>3, <1>5, BeforeIs
<1>7. PICK need : need = front + real
  OBVIOUS
<1>8. need \in Words /\ need \in Nat /\ m.end \in Nat
  BY <1>2, <1>6, <1>7, SumsOfWords, GoodParts
<1>9. CASE m.size[b] >= need
  <2>1. r = TakeAligned(m, Len(m.free), real, a)
    BY <1>1, <1>3, <1>7, <1>9 DEF AtEnd
  <2>2. real + Before(b, a) <= m.size[b]
    BY <1>2, <1>3, <1>5, <1>6, <1>7, <1>9
  <2>3. AlignedTo(m, r, L, real, a)
    BY <1>2, <1>4, <2>1, <2>2, TakeAlignedGives
  <2> QED BY <1>1, <2>3, AlignedAnswers
<1>10. CASE ~(m.size[b] >= need) /\ ~CanAlloc(m, f, need - m.size[b])
  <2>1. r = Answer(Null, m)
    BY <1>1, <1>3, <1>7, <1>10, Zenon DEF AtEnd
  <2>2. r.ptr = Null /\ r.mem = m
    BY <2>1 DEF Answer
  <2> QED BY <2>2 DEF Answers
<1>11. CASE ~(m.size[b] >= need) /\ CanAlloc(m, f, need - m.size[b])
  <2>1. PICK more \in Nat : more = need - m.size[b]
    BY <1>5, <1>8, <1>11
  <2>2. m.end + more + Gap <= f
    BY <1>8, <1>11, <2>1, CanAllocIs
  <2>3. PICK g : g = SetSize([m EXCEPT !.end = b + need], b, need)
    OBVIOUS
  <2>4. r = TakeAligned(g, Len(m.free), real, a)
    BY <1>1, <1>3, <1>7, <1>11, <2>3, Zenon DEF AtEnd
  <2>5. Good(g, L) /\ Kept(m, g, L) /\ g.end = b + need
    BY <1>5, <1>8, <1>11, <2>3, LastStretched
  <2>6. g.free = m.free /\ Sized(g, b, need)
    BY <1>5, <1>8, <1>11, <2>3, LastStretched
  <2>7. o.end < g.end /\ g.end + Gap <= f
    <3>1. PICK e \in Nat : e = m.end
      BY <1>8
    <3>2. PICK k \in Nat : k = m.size[b]
      BY <1>5
    <3>3. b + k = e /\ k < need /\ need = k + more
      BY <1>4, <1>8, <1>11, <2>1, <3>1, <3>2, SMTT(30)
    <3>4. e + more + Gap <= f /\ o.end <= e /\ o.end \in Nat
      BY <2>2, <3>1
    <3>5. g.end = e + more /\ 0 < more
      BY ONLY <1>5, <1>8, <2>5, <3>1, <3>2, <3>3
    <3> QED BY ONLY <3>1, <3>4, <3>5
  <2>8. Kept(o, g, L)
    BY <2>5, KeptThen
  <2>9. Onward(o, g, f)
    BY <2>7 DEF Onward
  <2>10. /\ Len(m.free) \in 1..Len(g.free) /\ b = g.free[Len(m.free)]
         /\ g.size[b] = need
    BY <1>4, <2>6 DEF Sized
  <2>11. real + Before(b, a) <= g.size[b]
    BY <1>2, <1>3, <1>6, <1>7, <2>10
  <2>12. PICK i : i = Len(m.free)
    OBVIOUS
  <2>13. AlignedTo(g, r, L, real, a)
    BY <1>2, <2>4, <2>5, <2>10, <2>11, <2>12, TakeAlignedGives
  <2> QED BY <1>1, <2>5, <2>8, <2>9, <2>13, AlignedAnswers
<1> QED BY <1>9, <1>10, <1>11

\* memalign answers NULL, or an aligned chunk no one has.
LEMMA MemalignAnswers ==
  ASSUME NEW m, NEW L, Good(m, L), NEW a, PowerOfTwo(a) => Aligning(a),
         NEW f \in Frames, m.end + Gap <= f, NEW n, Modest(n),
         NEW r, r = Memalign(m, a, n, f)
  PROVE  Answers(m, r, L, n, a, f)
<1> USE WordsAreNumbers
<1>1. PICK real : real = RealSize(n)
  OBVIOUS
<1>2. real \in Words /\ real \in Nat /\ Entry <= real
  BY <1>1, RealSizes
<1>3. /\ m.end \in Words /\ m.end \in Nat /\ Ascending(m.free)
      /\ Kept(m, m, L) /\ Onward(m, m, f) /\ IsMemory(m)
  BY GoodParts, KeptStill DEF Onward
<1>4. CASE ~PowerOfTwo(a)
  <2>1. r = Answer(Null, m)
    BY <1>4, Zenon DEF Memalign
  <2>2. r.ptr = Null /\ r.mem = m
    BY <2>1 DEF Answer
  <2> QED BY <1>3, <2>2 DEF Answers
<1>5. CASE PowerOfTwo(a) /\ FitsAligned(m, real, a) # {}
  <2>20. Aligning(a)
    BY <1>5
  <2>1. PICK i : i = Min(FitsAligned(m, real, a))
    OBVIOUS
  <2>2. DOMAIN m.free = 1..Len(m.free) /\ Len(m.free) \in Nat
    BY <1>3, ListOf
  <2>3. i \in FitsAligned(m, real, a)
    <3>1. FitsAligned(m, real, a) \subseteq Nat
      BY <2>2 DEF FitsAligned
    <3> QED BY <1>5, <2>1, <3>1, MinIsLeast
  <2>4. PICK b : b = m.free[i]
    OBVIOUS
  <2>5. i \in 1..Len(m.free) /\ m.size[b] >= real + Before(b, a)
    BY <2>2, <2>3, <2>4 DEF FitsAligned
  <2>6. real + Before(b, a) <= m.size[b]
    <3>1. b \in Words /\ m.size[b] \in Nat
      BY <2>4, <2>5, FreeBlock
    <3>2. Before(b, a) \in Nat
      BY <2>20, <3>1, BeforeIs
    <3> QED BY <1>2, <2>5, <3>1, <3>2
  <2>7. r = TakeAligned(m, i, real, a)
    BY <1>1, <1>5, <2>1, Zenon DEF Memalign, FitsAligned
  <2>8. AlignedTo(m, r, L, real, a)
    BY <1>2, <2>4, <2>5, <2>6, <2>7, <2>20, TakeAlignedGives
  <2> QED BY <1>1, <1>3, <2>8, AlignedAnswers
<1>6. CASE PowerOfTwo(a) /\ FitsAligned(m, real, a) = {} /\ LastIsAtEnd(m)
  <2>20. Aligning(a)
    BY <1>6
  <2>1. PICK b \in Nat : EndsWith(m, b)
    BY <1>6, LastIs
  <2>2. Last(m.free) = b
    BY <2>1 DEF EndsWith
  <2>3. r = AtEnd(m, b, real, a, f)
    BY <1>1, <1>6, <2>2, Zenon DEF Memalign, FitsAligned, AtEnd
  <2>4. r = AtEnd(m, b, RealSize(n), a, f)
    BY <1>1, <2>3
  <2> QED BY ONLY <1>3, <2>1, <2>4, AtEndAnswers, Good(m, L), Modest(n),
                  <2>20, f \in Frames, m.end + Gap <= f, m.end <= m.end
<1>7. CASE PowerOfTwo(a) /\ FitsAligned(m, real, a) = {} /\ ~LastIsAtEnd(m)
  <2>20. Aligning(a)
    BY <1>7
  <2>1. PICK first : first = real + MAlign(m.end + W, a)
    OBVIOUS
  <2>2. first \in Words /\ first \in Nat /\ Entry <= first
    <3>1. PICK x \in Words : x = m.end + W
      BY <1>3, SmallWords, SumsOfWords
    <3>2. MAlign(x, a) \in Words
      BY <2>20, WordAligns
    <3>3. PICK k \in Words : k = MAlign(x, a)
      BY <3>2
    <3>4. first = real + k /\ k \in Nat
      BY <2>1, <3>1, <3>3
    <3> QED BY <1>2, <3>4, SumsOfWords
  <2>3. CASE ~CanAlloc(m, f, first)
    <3>1. r = Answer(Null, m)
      BY <1>1, <1>7, <2>1, <2>3, Zenon DEF Memalign, FitsAligned
    <3>2. r.ptr = Null /\ r.mem = m
      BY <3>1 DEF Answer
    <3> QED BY <1>3, <3>2 DEF Answers
  <2>4. CASE CanAlloc(m, f, first)
    <3>1. m.end + first + Gap <= f
      BY <1>3, <2>2, <2>4, CanAllocIs
    <3>2. PICK b : b = m.end
      OBVIOUS
    <3>3. PICK g : g = SetNext(SetSize([m EXCEPT !.free = Append(m.free, m.end),
                                                 !.end = m.end + first],
                                       m.end, first), m.end)
      OBVIOUS
    <3>4. Good(g, L) /\ Kept(m, g, L) /\ g.end = m.end + first
      BY <1>7, <2>2, <3>3, NewLastFree
    <3>5. EndsWith(g, b)
      BY <1>7, <2>2, <3>2, <3>3, NewLastFree
    <3>6. Last(g.free) = b
      BY <3>5 DEF EndsWith
    <3>7. r = AtEnd(g, b, real, a, f)
      BY <1>1, <1>3, <1>7, <2>1, <2>4, <3>3, <3>6
         DEF Memalign, FitsAligned, AtEnd, IsMemory
    <3>8. /\ m.end <= g.end /\ g.end + Gap <= f /\ m.end < g.end
          /\ m.end \in Nat
      BY <1>3, <2>2, <3>1, <3>4
    <3>9. Onward(m, g, f)
      BY <3>8 DEF Onward
    <3>10. r = AtEnd(g, b, RealSize(n), a, f)
      BY <1>1, <3>7
    <3> QED BY ONLY <3>4, <3>5, <3>8, <3>9, <3>10, AtEndAnswers, Modest(n),
                    <2>20, f \in Frames
  <2> QED BY <2>3, <2>4
<1> QED BY <1>4, <1>5, <1>6, <1>7

-------------------------------------------------------------------------------
(* The client's side of a call, for any memory. *)

\* The blocks of the chunks at the addresses p.
BlocksOf(p) == {p[c] - W : c \in {d \in Chunk : p[d] # Null}}

\* d holds n bytes of c from a on.
HoldsAt(d, c, a, n) ==
  \A i \in 0..(n - 1) : a + i \in DOMAIN d /\ d[a + i] = <<c, i>>

\* The chunks at p, of q bytes aligned to g, are in blocks of s, one each, and
\* d holds what their clients stored in them.
Satisfied(p, q, g, d, s) ==
  /\ p \in [Chunk -> Nat] /\ q \in [Chunk -> Nat] /\ DOMAIN g = Chunk
  /\ \A c \in Chunk : p[c] = Null => q[c] = 0
  /\ \A c, e \in Chunk : p[c] # Null /\ p[c] = p[e] => c = e
  /\ \A c \in Chunk : p[c] # Null =>
       /\ W <= p[c] /\ q[c] + W <= s[p[c] - W]
       /\ p[c] % g[c] = 0
       /\ HoldsAt(d, c, p[c], q[c])

\* What the client writes into d when c gets n bytes at a, of which it has k
\* already: what it stored elsewhere stays.
Written(d, r, c, a, n, k) ==
  /\ \A i \in k..(n - 1) : a + i \in DOMAIN r /\ r[a + i] = <<c, i>>
  /\ \A i \in 0..(k - 1) : a + i \in DOMAIN d =>
       a + i \in DOMAIN r /\ r[a + i] = d[a + i]
  /\ \A x \in DOMAIN d : (x < a \/ a + n <= x) /\ d[x][1] # c =>
       x \in DOMAIN r /\ r[x] = d[x]

\* Two blocks in use lie apart, and so do the chunks in them.
LEMMA ChunksApart ==
  ASSUME NEW m, NEW L, Good(m, L), NEW x \in L, NEW y \in L, x # y
  PROVE  /\ x \in Nat /\ y \in Nat /\ m.size[x] \in Nat /\ m.size[y] \in Nat
         /\ x + m.size[x] <= y \/ y + m.size[y] <= x
<1>1. /\ x \in DOMAIN m.size /\ y \in DOMAIN m.size
      /\ x \in Nat /\ y \in Nat /\ m.size[x] \in Nat /\ m.size[y] \in Nat
  BY LiveBlock
<1>2. x < y \/ y < x
  BY <1>1
<1> QED BY <1>1, <1>2, GoodSizes

\* p1 is p but for c, whose chunk is at a, and K holds the blocks of the
\* others.
Updates(p, c, a, p1) == p1 = [p EXCEPT ![c] = a]
BlocksBut(p, c) == BlocksOf(p) \ {p[c] - W}
BlockOf(a, b) == a = b + W
TakesUp(p, K, b) == BlocksOf(p) = K \union {b}
Leaves(p, K) == BlocksOf(p) = K

\* The chunks of the others are in blocks of their own.
LEMMA OthersStay ==
  ASSUME NEW p, NEW q, NEW g, NEW m, NEW d,
         Satisfied(p, q, g, m.data, m.size),
         NEW c \in Chunk, NEW e \in Chunk, e # c, p[e] # Null
  PROVE  /\ p[e] - W \in BlocksBut(p, c) /\ p[e] - W \in Nat /\ p[e] \in Nat
         /\ p[e] = (p[e] - W) + W
<1>1. p[e] \in Nat /\ W <= p[e] /\ p[c] \in Nat
  BY DEF Satisfied
<1>2. p[e] - W \in BlocksOf(p)
  BY DEF BlocksOf
<1>3. p[e] # p[c]
  BY DEF Satisfied
<1>4. p[e] - W # p[c] - W
  BY <1>1, <1>3
<1> QED BY <1>1, <1>2, <1>4 DEF BlocksBut

\* What a call leaves to the chunks in K it leaves to their owners.
LEMMA OwnersKeep ==
  ASSUME NEW p, NEW q, NEW g, NEW m, Satisfied(p, q, g, m.data, m.size),
         Good(m, BlocksOf(p)), NEW K, NEW r, Kept(m, r, K),
         NEW e \in Chunk, p[e] # Null, NEW b, b = p[e] - W, b \in K
  PROVE  /\ b \in Nat /\ p[e] = b + W /\ q[e] \in Nat
         /\ q[e] + W <= r.size[b] /\ r.size[b] = m.size[b]
         /\ HoldsAt(r.data, e, p[e], q[e])
<1>1. /\ p[e] \in Nat /\ q[e] \in Nat /\ W <= p[e] /\ q[e] + W <= m.size[b]
      /\ HoldsAt(m.data, e, p[e], q[e])
  BY DEF Satisfied
<1>2. b \in Nat /\ p[e] = b + W
  BY <1>1
<1>3. b \in BlocksOf(p)
  BY DEF BlocksOf
<1>4. m.size[b] \in Nat
  BY <1>3, LiveBlock
<1>5. r.size[b] = m.size[b]
  BY DEF Kept
<1>6. ASSUME NEW i \in 0..(q[e] - 1)
      PROVE  p[e] + i \in DOMAIN r.data /\ r.data[p[e] + i] = <<e, i>>
  <2>1. PICK x \in Nat : x = p[e] + i
    BY <1>1
  <2>2. b + W <= x /\ x < b + m.size[b]
    BY <1>1, <1>2, <1>4, <2>1
  <2>3. x \in Chunks(K, m.size)
    BY <2>2 DEF Chunks
  <2>4. x \in DOMAIN m.data /\ m.data[x] = <<e, i>>
    BY <1>1, <2>1 DEF HoldsAt
  <2>5. x \in DOMAIN r.data /\ r.data[x] = <<e, i>>
    BY <2>3, <2>4 DEF Kept
  <2> QED BY <2>1, <2>5
<1> QED BY <1>1, <1>2, <1>5, <1>6 DEF HoldsAt

\* The call failed, or did nothing the client sees.
LEMMA NothingGiven ==
  ASSUME NEW p, NEW q, NEW g, NEW m, Satisfied(p, q, g, m.data, m.size),
         Good(m, BlocksOf(p)), NEW r, Kept(m, r, BlocksOf(p))
  PROVE  Satisfied(p, q, g, r.data, r.size)
<1>1. ASSUME NEW e \in Chunk, p[e] # Null
      PROVE  q[e] + W <= r.size[p[e] - W] /\ HoldsAt(r.data, e, p[e], q[e])
  <2>1. PICK b : b = p[e] - W
    OBVIOUS
  <2>2. b \in BlocksOf(p)
    BY <1>1, <2>1 DEF BlocksOf
  <2>3. q[e] + W <= r.size[b] /\ HoldsAt(r.data, e, p[e], q[e])
    <3>1. /\ Satisfied(p, q, g, m.data, m.size) /\ Good(m, BlocksOf(p))
          /\ Kept(m, r, BlocksOf(p))
      OBVIOUS
    <3> QED BY ONLY <1>1, <2>1, <2>2, <3>1, OwnersKeep, ZenonT(60)
  <2> QED BY <2>1, <2>3
<1> QED BY <1>1 DEF Satisfied

\* The others keep what they have when c writes what it was given.
LEMMA OthersHold ==
  ASSUME NEW r, NEW J, Good(r, J), NEW b \in J, NEW x \in J, x # b,
         NEW c \in Chunk, NEW n \in Nat, n + W <= r.size[b], NEW k,
         NEW d, Written(r.data, d, c, b + W, n, k),
         NEW e \in Chunk, e # c, NEW j \in Nat, j + W <= r.size[x],
         NEW a, a = x + W, HoldsAt(r.data, e, a, j)
  PROVE  HoldsAt(d, e, a, j)
<1>1. /\ x \in Nat /\ b \in Nat /\ r.size[x] \in Nat /\ r.size[b] \in Nat
      /\ x + r.size[x] <= b \/ b + r.size[b] <= x
  BY ChunksApart
<1>2. ASSUME NEW i \in 0..(j - 1)
      PROVE  a + i \in DOMAIN d /\ d[a + i] = <<e, i>>
  <2>1. PICK y \in Nat : y = a + i
    BY <1>1
  <2>2. y \in DOMAIN r.data /\ r.data[y] = <<e, i>>
    BY <2>1 DEF HoldsAt
  <2>3. y < b + W \/ (b + W) + n <= y
    BY <1>1, <2>1
  <2>4. r.data[y][1] # c
    BY <2>2
  <2>5. y \in DOMAIN d /\ d[y] = r.data[y]
    BY <2>2, <2>3, <2>4 DEF Written
  <2> QED BY <2>1, <2>2, <2>5
<1> QED BY <1>2 DEF HoldsAt

\* c has what it was given.
LEMMA OwnerHolds ==
  ASSUME NEW d, NEW r, NEW c, NEW a \in Nat, NEW n \in Nat, NEW k \in 0..n,
         HoldsAt(r, c, a, k), Written(r, d, c, a, n, k)
  PROVE  HoldsAt(d, c, a, n)
<1>1. ASSUME NEW i \in 0..(n - 1)
      PROVE  a + i \in DOMAIN d /\ d[a + i] = <<c, i>>
  <2>1. CASE i \in k..(n - 1)
    BY <2>1 DEF Written
  <2>2. CASE i \in 0..(k - 1)
    BY <2>2 DEF Written, HoldsAt
  <2> QED BY <2>1, <2>2
<1> QED BY <1>1 DEF HoldsAt

\* c gets n bytes in the block b, k of which hold what it stored already.
LEMMA OwnGives ==
  ASSUME NEW p, NEW q, NEW g, NEW m, Satisfied(p, q, g, m.data, m.size),
         Good(m, BlocksOf(p)), NEW c \in Chunk,
         NEW K, K = BlocksBut(p, c),
         NEW r, NEW b, NEW n, Gives(m, r, K, b, n), n \in Nat,
         NEW k \in 0..n, NEW a, BlockOf(a, b), HoldsAt(r.data, c, a, k),
         NEW d, Written(r.data, d, c, a, n, k),
         NEW h, a % h = 0,
         NEW p1, Updates(p, c, a, p1), NEW q1, Updates(q, c, n, q1),
         NEW g1, Updates(g, c, h, g1)
  PROVE  Satisfied(p1, q1, g1, d, r.size) /\ TakesUp(p1, K, b)
<1>1. /\ p \in [Chunk -> Nat] /\ q \in [Chunk -> Nat] /\ DOMAIN g = Chunk
      /\ \A e \in Chunk : p[e] = Null => q[e] = 0
      /\ \A e, f \in Chunk : p[e] # Null /\ p[e] = p[f] => e = f
      /\ \A e \in Chunk : p[e] # Null => p[e] % g[e] = 0
  BY DEF Satisfied
<1>15. /\ p1 = [p EXCEPT ![c] = a] /\ q1 = [q EXCEPT ![c] = n]
       /\ g1 = [g EXCEPT ![c] = h]
       /\ K = BlocksOf(p) \ {p[c] - W} /\ a = b + W
  BY DEF Updates, BlocksBut, BlockOf
<1>2. /\ Good(r, K \union {b}) /\ b \in Nat /\ b \notin K
      /\ n + W <= r.size[b] /\ Kept(m, r, K)
  BY DEF Gives
<1>3. PICK J : J = K \union {b}
  OBVIOUS
<1>4. Good(r, J) /\ b \in J
  BY <1>2, <1>3
<1>5. a \in Nat /\ W <= a /\ a # Null /\ a - W = b
  BY <1>2, <1>15 DEF Null
<1>6. /\ p1 \in [Chunk -> Nat] /\ q1 \in [Chunk -> Nat] /\ DOMAIN g1 = Chunk
      /\ p1[c] = a /\ q1[c] = n /\ g1[c] = h
  BY <1>1, <1>5, <1>15
<1>7. \A e \in Chunk : e # c => p1[e] = p[e] /\ q1[e] = q[e] /\ g1[e] = g[e]
  BY <1>1, <1>15
<1>8. ASSUME NEW e \in Chunk, e # c, p[e] # Null
      PROVE  /\ p[e] - W \in K /\ p[e] # a /\ W <= p[e]
             /\ q[e] + W <= r.size[p[e] - W]
             /\ HoldsAt(d, e, p[e], q[e])
  <2>1. PICK x : x = p[e] - W
    OBVIOUS
  <2>2. x \in K
    BY <1>8, <2>1, OthersStay
  <2>3. /\ x \in Nat /\ p[e] = x + W /\ q[e] \in Nat
        /\ q[e] + W <= r.size[x] /\ HoldsAt(r.data, e, p[e], q[e])
    <3>1. /\ Satisfied(p, q, g, m.data, m.size) /\ Good(m, BlocksOf(p))
      OBVIOUS
    <3>2. q[e] + W <= r.size[x] /\ HoldsAt(r.data, e, p[e], q[e])
      BY ONLY <1>2, <1>8, <2>1, <2>2, <3>1, OwnersKeep, ZenonT(60)
    <3>3. q[e] \in Nat
      BY <1>1
    <3>4. x \in Nat /\ p[e] = x + W
      BY <1>8, <2>1, OthersStay
    <3> QED BY <3>2, <3>3, <3>4
  <2>4. x # b /\ x \in J
    BY <1>2, <1>3, <2>2
  <2>5. Written(r.data, d, c, b + W, n, k)
    BY <1>15
  <2>6. PICK y : y = p[e]
    OBVIOUS
  <2>7. PICK j \in Nat : j = q[e]
    BY <2>3
  <2>8. HoldsAt(d, e, y, j)
    <3>1. y = x + W /\ j + W <= r.size[x] /\ HoldsAt(r.data, e, y, j)
      BY <2>3, <2>6, <2>7
    <3>2. c \in Chunk /\ n \in Nat
      OBVIOUS
    <3> QED BY ONLY <1>2, <1>4, <1>8, <2>4, <2>5, <2>7, <3>1, <3>2, OthersHold
  <2> QED BY <1>2, <1>5, <2>1, <2>2, <2>3, <2>4, <2>6, <2>7, <2>8
<1>9. HoldsAt(d, c, a, n)
  BY <1>5, OwnerHolds
<1>10. \A e \in Chunk : p1[e] = Null => q1[e] = 0
  BY <1>1, <1>5, <1>6, <1>7
<1>11. \A e, f \in Chunk : p1[e] # Null /\ p1[e] = p1[f] => e = f
  BY <1>1, <1>5, <1>6, <1>7, <1>8
<1>12. \A e \in Chunk : p1[e] # Null =>
         /\ W <= p1[e] /\ q1[e] + W <= r.size[p1[e] - W]
         /\ p1[e] % g1[e] = 0
         /\ HoldsAt(d, e, p1[e], q1[e])
  <2>1. ASSUME NEW e \in Chunk, p1[e] # Null, e # c
        PROVE  /\ W <= p1[e] /\ q1[e] + W <= r.size[p1[e] - W]
               /\ p1[e] % g1[e] = 0
               /\ HoldsAt(d, e, p1[e], q1[e])
    BY <1>1, <1>7, <1>8, <2>1, Zenon
  <2>2. /\ W <= p1[c] /\ q1[c] + W <= r.size[p1[c] - W]
        /\ p1[c] % g1[c] = 0
        /\ HoldsAt(d, c, p1[c], q1[c])
    BY <1>2, <1>5, <1>6, <1>9, Zenon
  <2> QED BY <2>1, <2>2, Zenon
<1>13. Satisfied(p1, q1, g1, d, r.size)
  BY <1>6, <1>10, <1>11, <1>12, Zenon DEF Satisfied
<1>14. BlocksOf(p1) = K \union {b}
  <2>1. ASSUME NEW x \in BlocksOf(p1) PROVE x \in K \union {b}
    <3>1. PICK e \in Chunk : p1[e] # Null /\ x = p1[e] - W
      BY <2>1 DEF BlocksOf
    <3>2. CASE e = c
      BY <1>5, <1>6, <3>1, <3>2
    <3>3. CASE e # c
      BY <1>7, <1>8, <3>1, <3>3
    <3> QED BY <3>2, <3>3
  <2>2. b \in BlocksOf(p1)
    BY <1>5, <1>6 DEF BlocksOf
  <2>3. ASSUME NEW x \in K PROVE x \in BlocksOf(p1)
    <3>1. PICK e \in Chunk : p[e] # Null /\ x = p[e] - W /\ x # p[c] - W
      BY <1>15, <2>3 DEF BlocksOf
    <3>2. e # c
      BY <3>1
    <3> QED BY <1>7, <3>1, <3>2 DEF BlocksOf
  <2> QED BY <2>1, <2>2, <2>3
<1> QED BY <1>13, <1>14 DEF TakesUp

\* c gives its chunk back.
LEMMA GiveUp ==
  ASSUME NEW p, NEW q, NEW g, NEW m, Satisfied(p, q, g, m.data, m.size),
         Good(m, BlocksOf(p)), NEW c \in Chunk, p[c] # Null,
         NEW K, K = BlocksBut(p, c),
         NEW r, Kept(m, r, K), NEW d, Written(r.data, d, c, 0, 0, 0), NEW h,
         NEW p1, Updates(p, c, Null, p1), NEW q1, Updates(q, c, 0, q1),
         NEW g1, Updates(g, c, h, g1)
  PROVE  Satisfied(p1, q1, g1, d, r.size) /\ Leaves(p1, K)
<1>1. /\ p \in [Chunk -> Nat] /\ q \in [Chunk -> Nat] /\ DOMAIN g = Chunk
      /\ \A e \in Chunk : p[e] = Null => q[e] = 0
      /\ \A e, f \in Chunk : p[e] # Null /\ p[e] = p[f] => e = f
      /\ \A e \in Chunk : p[e] # Null => p[e] % g[e] = 0
  BY DEF Satisfied
<1>2. /\ p1 \in [Chunk -> Nat] /\ q1 \in [Chunk -> Nat] /\ DOMAIN g1 = Chunk
      /\ p1[c] = Null /\ q1[c] = 0
  BY <1>1 DEF Null, Updates
<1>3. \A e \in Chunk : e # c => p1[e] = p[e] /\ q1[e] = q[e] /\ g1[e] = g[e]
  BY <1>1 DEF Updates
<1>4. ASSUME NEW e \in Chunk, e # c, p[e] # Null
      PROVE  /\ p[e] - W \in K /\ W <= p[e]
             /\ q[e] + W <= r.size[p[e] - W]
             /\ HoldsAt(d, e, p[e], q[e])
  <2>1. PICK x : x = p[e] - W
    OBVIOUS
  <2>2. x \in K
    BY <1>4, <2>1, OthersStay
  <2>3. /\ x \in Nat /\ p[e] = x + W /\ q[e] \in Nat
        /\ q[e] + W <= r.size[x] /\ HoldsAt(r.data, e, p[e], q[e])
    <3>1. /\ Satisfied(p, q, g, m.data, m.size) /\ Good(m, BlocksOf(p))
          /\ Kept(m, r, K)
      OBVIOUS
    <3>2. q[e] + W <= r.size[x] /\ HoldsAt(r.data, e, p[e], q[e])
      BY ONLY <1>4, <2>1, <2>2, <3>1, OwnersKeep, ZenonT(60)
    <3>3. q[e] \in Nat
      BY <1>1
    <3>4. x \in Nat /\ p[e] = x + W
      BY <1>4, <2>1, OthersStay
    <3> QED BY <3>2, <3>3, <3>4
  <2>4. ASSUME NEW i \in 0..(q[e] - 1)
        PROVE  p[e] + i \in DOMAIN d /\ d[p[e] + i] = <<e, i>>
    <3>1. PICK y \in Nat : y = p[e] + i
      BY <1>1, <2>3
    <3>2. y \in DOMAIN r.data /\ r.data[y] = <<e, i>>
      BY <2>3, <3>1 DEF HoldsAt
    <3>3. r.data[y][1] # c /\ (y < 0 \/ 0 + 0 <= y)
      BY <1>4, <3>2
    <3>4. y \in DOMAIN d /\ d[y] = r.data[y]
      BY <3>2, <3>3 DEF Written
    <3> QED BY <3>1, <3>2, <3>4
  <2> QED BY <2>1, <2>2, <2>3, <2>4 DEF HoldsAt
<1>5. \A e \in Chunk : p1[e] = Null => q1[e] = 0
  BY <1>1, <1>2, <1>3
<1>6. \A e, f \in Chunk : p1[e] # Null /\ p1[e] = p1[f] => e = f
  BY <1>1, <1>2, <1>3
<1>7. \A e \in Chunk : p1[e] # Null =>
        /\ W <= p1[e] /\ q1[e] + W <= r.size[p1[e] - W]
        /\ p1[e] % g1[e] = 0
        /\ HoldsAt(d, e, p1[e], q1[e])
  BY <1>1, <1>2, <1>3, <1>4, Zenon
<1>8. Satisfied(p1, q1, g1, d, r.size)
  BY <1>2, <1>5, <1>6, <1>7, Zenon DEF Satisfied
<1>9. BlocksOf(p1) = K
  <2>1. ASSUME NEW x \in BlocksOf(p1) PROVE x \in K
    <3>1. PICK e \in Chunk : p1[e] # Null /\ x = p1[e] - W
      BY <2>1 DEF BlocksOf
    <3>2. e # c
      BY <1>2, <3>1
    <3> QED BY <1>3, <1>4, <3>1, <3>2
  <2>2. ASSUME NEW x \in K PROVE x \in BlocksOf(p1)
    <3>1. PICK e \in Chunk : p[e] # Null /\ x = p[e] - W /\ x # p[c] - W
      BY <2>2 DEF BlocksOf, BlocksBut
    <3>2. e # c
      BY <3>1
    <3> QED BY <1>3, <3>1, <3>2 DEF BlocksOf
  <2> QED BY <2>1, <2>2
<1> QED BY <1>8, <1>9 DEF Leaves

\* What Own does to the bytes.
LEMMA OwnWrites ==
  ASSUME NEW m, NEW c \in Chunk, NEW a \in Nat, NEW n \in Nat, NEW k \in 0..n,
         NEW h, Own(c, a, n, h, k, m)
  PROVE  Written(m.data, data', c, a, n, k)
<1> DEFINE lost == {x \in DOMAIN m.data : m.data[x][1] = c} \ (a..(a + n - 1))
           mine == (a + k)..(a + n - 1)
<1>1. data' = [x \in (DOMAIN m.data \ lost) \union mine |->
                 IF x \in mine THEN <<c, x - a>> ELSE m.data[x]]
  BY Zenon DEF Own
<1>2. \A i \in k..(n - 1) : a + i \in mine /\ (a + i) - a = i
  OBVIOUS
<1>3. \A i \in 0..(k - 1) : a + i \notin mine /\ a + i \notin lost
  OBVIOUS
<1>4. \A x \in DOMAIN m.data : (x < a \/ a + n <= x) /\ m.data[x][1] # c =>
        x \notin mine /\ x \notin lost
  OBVIOUS
<1> HIDE DEF lost, mine
<1>5. \A x \in mine : x \in DOMAIN data' /\ data'[x] = <<c, x - a>>
  BY <1>1
<1>6. \A x \in DOMAIN m.data : x \notin mine /\ x \notin lost =>
        x \in DOMAIN data' /\ data'[x] = m.data[x]
  BY <1>1
<1>7. \A i \in k..(n - 1) : a + i \in DOMAIN data' /\ data'[a + i] = <<c, i>>
  BY <1>2, <1>5
<1> QED BY <1>3, <1>4, <1>6, <1>7 DEF Written

-------------------------------------------------------------------------------
(* The invariant. *)

\* The memory of the heap, once it has been set up, is in order, the clients
\* have what they asked for, and the break is behind the heap unless memalign
\* has moved its end.
HeapInv ==
  /\ Good(Awake(Memory), LiveBlocks)
  /\ Satisfied(ptr, req, align, data, sizes)
  /\ ~stretched => HasBreak(Awake(Memory))

\* What the variables hold, as a memory.
LEMMA AwakeIs ==
  ASSUME NEW F, NEW S, NEW e, NEW k, NEW d, NEW u,
         NEW w, w = Awake([free |-> F, size |-> S, end |-> e, brk |-> k,
                           data |-> d, bad |-> u])
  PROVE  /\ IsMemory(w) /\ w.free = F /\ w.size = S
         /\ w.end = IF e = Null THEN Start ELSE e
         /\ w.brk = k /\ w.data = d /\ w.bad = u
BY DEF Awake, IsMemory

\* A memory in order stays so in the variables.
LEMMA StoreIs ==
  ASSUME NEW m, NEW J, Good(m, J), Store(m)
  PROVE  /\ Good(Awake(Memory)', J)
         /\ HasBreak(m) => HasBreak(Awake(Memory)')
         /\ sizes' = m.size /\ end' = m.end
<1>1. /\ freelist' = m.free /\ sizes' = m.size /\ end' = m.end
      /\ brk' = m.brk /\ unbacked' = m.bad
  BY DEF Store
<1>2. m.end # Null
  BY GoodParts DEF Null
<1>3. PICK w : w = Awake([free |-> freelist', size |-> sizes', end |-> end',
                          brk |-> brk', data |-> data', bad |-> unbacked'])
  OBVIOUS
<1>4. /\ IsMemory(w) /\ w.free = m.free /\ w.size = m.size /\ w.end = m.end
      /\ w.brk = m.brk /\ w.bad = m.bad
  BY <1>1, <1>2, <1>3, AwakeIs
<1>5. Awake(Memory)' = w
  BY <1>3 DEF Memory, Awake, Null
<1>6. Good(w, J) /\ (HasBreak(m) => HasBreak(w))
  BY <1>4 DEF Good, HasBreak
<1> QED BY <1>1, <1>5, <1>6

\* The memory of the variables.
LEMMA MemoryIs ==
  ASSUME HeapInv, NEW w, w = Awake(Memory)
  PROVE  /\ Good(w, BlocksOf(ptr)) /\ w.size = sizes /\ w.data = data
         /\ Satisfied(ptr, req, align, w.data, w.size)
         /\ end # Null => w.end = end /\ Memory = w
         /\ end = Null => w.end = Start /\ BlocksOf(ptr) = {}
<1>1. w = Awake([free |-> freelist, size |-> sizes, end |-> end, brk |-> brk,
                 data |-> data, bad |-> unbacked])
  BY DEF Memory
<1>2. /\ w.size = sizes /\ w.data = data
      /\ w.end = IF end = Null THEN Start ELSE end
  BY <1>1, AwakeIs
<1>3. Good(w, BlocksOf(ptr))
  BY DEF HeapInv, LiveBlocks, BlocksOf
<1>4. end # Null => Memory = w
  BY DEF Memory, Awake
<1>5. ASSUME end = Null PROVE BlocksOf(ptr) = {}
  <2>1. w.end = Start
    BY <1>2, <1>5
  <2>2. \A b \in BlocksOf(ptr) : FALSE
    <3>1. ASSUME NEW b \in BlocksOf(ptr) PROVE FALSE
      <4>1. /\ b \in Nat /\ w.size[b] \in Nat /\ Start <= b
            /\ Entry <= w.size[b] /\ b + w.size[b] <= Start
        BY <1>3, <2>1, LiveBlock
      <4> QED BY <4>1, WordsAreNumbers
    <3> QED BY <3>1
  <2> QED BY <2>2
<1> QED BY <1>2, <1>3, <1>4, <1>5 DEF HeapInv

\* A client that asks for sizes that, rounded up, are sizes, for alignments
\* that are whole words or divide one, calls malloc before memalign, and keeps
\* its stack away from the heap.
KnownClient ==
  /\ ~AlignFirst /\ ~StackMayReach
  /\ \A f \in Frames : Start + Gap <= f
  /\ PageSize \in Nat \ {0}
  /\ \A n \in Sizes : /\ Modest(n) /\ Modest(n + MAlign(n, PageSize))
                      /\ \A q \in Quantities : Modest(q * n)
  /\ \A a \in Alignments \union {PageSize} : PowerOfTwo(a) => Aligning(a)

\* The heap before the first call.
LEMMA InitHeap == Init => HeapInv
<1> SUFFICES ASSUME Init PROVE HeapInv
  OBVIOUS
<1>1. PICK w : w = Awake(Memory)
  OBVIOUS
<1>2. w = Awake([free |-> freelist, size |-> sizes, end |-> end, brk |-> brk,
                 data |-> data, bad |-> unbacked])
  BY <1>1 DEF Memory
<1>3. /\ IsMemory(w) /\ w.free = <<>> /\ DOMAIN w.size = {} /\ w.end = Start
      /\ w.brk = Start + Zone /\ w.bad = FALSE
  BY <1>2, AwakeIs DEF Init
<1>4. BlocksOf(ptr) = {}
  BY DEF Init, BlocksOf
<1>5. Good(w, BlocksOf(ptr))
  <2>1. Tiles(w.size, Start)
    BY <1>3 DEF Tiles
  <2>2. Ascending(<<>>) /\ Range(<<>>) = {}
    BY DEF Ascending, Range
  <2>3. Apart(Range(w.free), w.size)
    BY <1>3, <2>2 DEF Apart
  <2>4. Start \in Words
    BY SmallWords
  <2> QED BY <1>3, <1>4, <2>1, <2>2, <2>3, <2>4 DEF Good
<1>6. HasBreak(w)
  BY <1>3 DEF HasBreak
<1>7. Satisfied(ptr, req, align, data, sizes)
  BY DEF Init, Satisfied, Null
<1> QED BY <1>1, <1>5, <1>6, <1>7 DEF HeapInv, LiveBlocks, BlocksOf

\* c owns what it was given.
LEMMA OwnStep ==
  ASSUME HeapInv, NEW c \in Chunk, NEW w, w = Awake(Memory),
         NEW K, K = BlocksBut(ptr, c), NEW m, NEW b, NEW n \in Nat,
         Gives(w, m, K, b, n), NEW p \in Nat, BlockOf(p, b),
         NEW k \in 0..n, HoldsAt(m.data, c, p, k), NEW a, p % a = 0,
         Own(c, p, n, a, k, m), Store(m), ~stretched' => HasBreak(m)
  PROVE  HeapInv'
<1>1. /\ Good(w, BlocksOf(ptr))
      /\ Satisfied(ptr, req, align, w.data, w.size)
  BY MemoryIs
<1>2. PICK d : d = data'
  OBVIOUS
<1>3. Written(m.data, d, c, p, n, k)
  BY <1>2, OwnWrites
<1>4. PICK p1, q1, g1 : /\ p1 = [ptr EXCEPT ![c] = p]
                        /\ q1 = [req EXCEPT ![c] = n]
                        /\ g1 = [align EXCEPT ![c] = a]
  OBVIOUS
<1>5. ptr' = p1 /\ req' = q1 /\ align' = g1
  BY <1>4, Zenon DEF Own
<1>6. /\ Updates(ptr, c, p, p1) /\ Updates(req, c, n, q1)
      /\ Updates(align, c, a, g1)
  BY <1>4 DEF Updates
<1>7. /\ Gives(w, m, K, b, n) /\ HoldsAt(m.data, c, p, k) /\ p % a = 0
      /\ BlockOf(p, b) /\ K = BlocksBut(ptr, c)
      /\ c \in Chunk /\ n \in Nat /\ k \in 0..n
  OBVIOUS
<1>8. Satisfied(p1, q1, g1, d, m.size)
  BY ONLY <1>1, <1>3, <1>6, <1>7, OwnGives
<1>9. TakesUp(p1, K, b)
  BY ONLY <1>1, <1>3, <1>6, <1>7, OwnGives
<1>10. Good(m, BlocksOf(p1))
  BY <1>7, <1>9 DEF Gives, TakesUp
<1>11. /\ Good(Awake(Memory)', BlocksOf(p1)) /\ sizes' = m.size
       /\ HasBreak(m) => HasBreak(Awake(Memory)')
  BY <1>10, StoreIs
<1>12. LiveBlocks' = BlocksOf(p1)
  BY <1>5 DEF LiveBlocks, BlocksOf
<1> QED BY <1>2, <1>5, <1>8, <1>11, <1>12 DEF HeapInv

\* An allocation.
LEMMA GivenGives ==
  ASSUME HeapInv, NEW c \in Chunk, ptr[c] = Null, NEW n \in Nat,
         NEW w, w = Awake(Memory), NEW a, NEW f,
         NEW r, Answers(w, r, BlocksOf(ptr), n, a, f), Given(c, r, n, a),
         ~stretched' => ~stretched /\ (HasBreak(w) => HasBreak(r.mem))
  PROVE  HeapInv'
<1> DEFINE L == BlocksOf(ptr)
<1>1. /\ Good(w, L) /\ w.size = sizes /\ w.data = data
      /\ Satisfied(ptr, req, align, w.data, w.size)
  BY MemoryIs
<1>2. Store(r.mem)
  BY DEF Given
<1>3. ~stretched' => HasBreak(r.mem)
  BY DEF HeapInv
<1>4. CASE r.ptr = Null
  <2>1. data' = r.mem.data /\ ptr' = ptr /\ req' = req /\ align' = align
    BY <1>4 DEF Given
  <2>2. Good(r.mem, L) /\ Kept(w, r.mem, L)
    BY <1>4 DEF Answers
  <2>3. Satisfied(ptr, req, align, r.mem.data, r.mem.size)
    BY <1>1, <2>2, NothingGiven
  <2>4. /\ Good(Awake(Memory)', L) /\ sizes' = r.mem.size
        /\ HasBreak(r.mem) => HasBreak(Awake(Memory)')
    BY <1>2, <2>2, StoreIs
  <2>5. LiveBlocks' = L
    BY <2>1 DEF LiveBlocks, BlocksOf
  <2> QED BY <1>3, <2>1, <2>3, <2>4, <2>5 DEF HeapInv
<1>5. CASE r.ptr # Null
  <2>1. PICK b \in Nat : /\ r.ptr = b + W /\ Gives(w, r.mem, L, b, n)
                         /\ (b + W) % a = 0
    BY <1>5 DEF Answers
  <2>2. PICK p \in Nat : p = b + W
    BY <2>1
  <2>3. Own(c, p, n, a, 0, r.mem)
    BY <1>5, <2>1, <2>2 DEF Given
  <2>4. PICK K : K = BlocksBut(ptr, c)
    OBVIOUS
  <2>5. K = L
    <3>1. \A x \in L : x \in Nat
      BY <1>1, LiveBlock
    <3>2. ptr[c] - W \notin Nat
      BY DEF Null
    <3> QED BY <2>4, <3>1, <3>2 DEF BlocksBut
  <2>6. PICK g : g = r.mem
    OBVIOUS
  <2>7. /\ HoldsAt(g.data, c, p, 0) /\ p % a = 0 /\ BlockOf(p, b)
        /\ Gives(w, g, K, b, n) /\ Own(c, p, n, a, 0, g) /\ Store(g)
        /\ ~stretched' => HasBreak(g)
    BY <1>2, <1>3, <2>1, <2>2, <2>3, <2>5, <2>6 DEF HoldsAt, BlockOf
  <2>8. HeapInv /\ w = Awake(Memory) /\ c \in Chunk /\ n \in Nat /\ 0 \in 0..n
    OBVIOUS
  <2> QED BY ONLY <2>2, <2>4, <2>7, <2>8, OwnStep
<1> QED BY <1>4, <1>5

\* What a step may do to the end of the heap.
GapStep == end' # end => end' + Gap <= frame'

\* A call finds the heap away from its frame, and leaves it there.
LEMMA CallFinds ==
  ASSUME HeapInv, KnownClient, NEW f \in Frames, CallFrom(f),
         NEW w, w = Awake(Memory)
  PROVE  Good(w, BlocksOf(ptr)) /\ w.end + Gap <= f /\ frame' = f
<1>1. frame' = f /\ end + Gap <= f /\ Start + Gap <= f
  BY DEF CallFrom, KnownClient
<1> QED BY <1>1, MemoryIs

\* What a call does to __malloc_end keeps the gap to its frame.
LEMMA CallLeaves ==
  ASSUME NEW w, NEW m, NEW f, Onward(w, m, f), w.end + Gap <= f, frame' = f,
         Store(m)
  PROVE  GapStep
BY DEF Onward, Store, GapStep

\* What malloc and calloc answer suits a client that asked for no alignment.
LEMMA AllocatedAnswers ==
  ASSUME NEW m, NEW L, NEW n, NEW f, NEW r, Allocated(m, r, L, n, f),
         HasBreak(m) => HasBreak(r.mem)
  PROVE  Answers(m, r, L, n, 1, f)
<1>1. ASSUME r.ptr # Null
      PROVE  \E c \in Nat : /\ r.ptr = c + W /\ Gives(m, r.mem, L, c, n)
                            /\ (c + W) % 1 = 0
  <2>1. PICK c : r.ptr = c + W /\ Gives(m, r.mem, L, c, n)
    BY <1>1 DEF Allocated
  <2>2. c \in Nat
    BY <2>1 DEF Gives
  <2>3. (c + W) % 1 = 0
    BY <2>2
  <2> QED BY <2>1, <2>2, <2>3
<1> QED BY <1>1 DEF Answers, Allocated, Onward

\* A larger answer suits a smaller request.
LEMMA AnswersLess ==
  ASSUME NEW m, NEW L, NEW n \in Nat, NEW k \in Nat, k <= n, NEW a, NEW f,
         NEW r, Answers(m, r, L, n, a, f)
  PROVE  Answers(m, r, L, k, a, f)
<1>1. ASSUME NEW c \in Nat, Gives(m, r.mem, L, c, n)
      PROVE  Gives(m, r.mem, L, c, k)
  <2>1. PICK J : J = L \union {c}
    OBVIOUS
  <2>2. Good(r.mem, J) /\ c \in J
    BY <1>1, <2>1 DEF Gives
  <2>3. r.mem.size[c] \in Nat
    BY <2>2, LiveBlock
  <2> QED BY <1>1, <2>3 DEF Gives
<1> QED BY <1>1 DEF Answers

\* malloc keeps the invariant.
LEMMA StepDoMalloc ==
  ASSUME HeapInv, KnownClient, NEW c \in Chunk, DoMalloc(c)
  PROVE  HeapInv' /\ GapStep
<1>1. PICK n \in Sizes, f \in Frames :
        /\ ptr[c] = Null /\ CallFrom(f)
        /\ Given(c, Malloc(Memory, n, f), n, 1) /\ stretched' = stretched
  BY DEF DoMalloc
<1>2. PICK w : w = Awake(Memory)
  OBVIOUS
<1>3. Good(w, BlocksOf(ptr)) /\ w.end + Gap <= f /\ frame' = f
  BY <1>1, <1>2, CallFinds
<1>4. PICK r : r = Malloc(Memory, n, f)
  OBVIOUS
<1>5. Modest(n) /\ n \in Nat
  BY DEF KnownClient, Modest
<1>6. /\ Allocated(w, r, BlocksOf(ptr), n, f)
      /\ HasBreak(w) => HasBreak(r.mem)
  BY <1>2, <1>3, <1>4, <1>5, MallocAllocates
<1>7. Answers(w, r, BlocksOf(ptr), n, 1, f)
  BY <1>6, AllocatedAnswers
<1>8. Given(c, r, n, 1)
  BY <1>1, <1>4
<1>9. HeapInv'
  BY <1>1, <1>2, <1>5, <1>6, <1>7, <1>8, GivenGives
<1>10. Onward(w, r.mem, f) /\ Store(r.mem)
  BY <1>7, <1>8 DEF Answers, Given
<1> QED BY <1>3, <1>9, <1>10, CallLeaves

\* calloc keeps the invariant.
LEMMA StepDoCalloc ==
  ASSUME HeapInv, KnownClient, NEW c \in Chunk, DoCalloc(c)
  PROVE  HeapInv' /\ GapStep
<1>1. PICK q \in Quantities, n \in Sizes, f \in Frames :
        /\ ptr[c] = Null /\ CallFrom(f)
        /\ Given(c, Calloc(Memory, q, n, f), q * n, 1)
        /\ stretched' = stretched
  BY DEF DoCalloc
<1>2. PICK w : w = Awake(Memory)
  OBVIOUS
<1>3. Good(w, BlocksOf(ptr)) /\ w.end + Gap <= f /\ frame' = f
  BY <1>1, <1>2, CallFinds
<1>4. PICK r : r = Calloc(Memory, q, n, f)
  OBVIOUS
<1>11. PICK k : k = q * n
  OBVIOUS
<1>5. Modest(q * n) /\ k \in Nat
  BY <1>11, Zenon DEF KnownClient, Modest
<1>6. /\ Allocated(w, r, BlocksOf(ptr), q * n, f)
      /\ HasBreak(w) => HasBreak(r.mem)
  BY <1>2, <1>3, <1>4, <1>5, CallocAllocates, Zenon
<1>7. Answers(w, r, BlocksOf(ptr), k, 1, f)
  BY <1>6, <1>11, AllocatedAnswers, Zenon
<1>8. Given(c, r, k, 1)
  BY <1>1, <1>4, <1>11, Zenon
<1>9. HeapInv'
  BY <1>1, <1>2, <1>5, <1>6, <1>7, <1>8, GivenGives
<1>10. Onward(w, r.mem, f) /\ Store(r.mem)
  BY <1>7, <1>8 DEF Answers, Given
<1> QED BY <1>3, <1>9, <1>10, CallLeaves

\* memalign, valloc and pvalloc
LEMMA StepAlign ==
  ASSUME HeapInv, KnownClient, NEW c \in Chunk,
         NEW a, PowerOfTwo(a) => Aligning(a),
         NEW asked, Modest(asked), NEW n \in Nat, n <= asked,
         Align(c, a, n, asked)
  PROVE  HeapInv' /\ GapStep
<1>1. PICK f \in Frames :
        /\ ptr[c] = Null /\ CallFrom(f)
        /\ AlignFirst \/ end # Null
        /\ Given(c, Memalign(Memory, a, asked, f), n, a)
        /\ stretched' =
             (stretched \/ Memalign(Memory, a, asked, f).mem.end # end)
  BY DEF Align
<1>2. PICK w : w = Awake(Memory)
  OBVIOUS
<1>3. Good(w, BlocksOf(ptr)) /\ w.end + Gap <= f /\ frame' = f
  BY <1>1, <1>2, CallFinds
<1>4. end # Null /\ w.end = end /\ Memory = w
  BY <1>1, <1>2, MemoryIs DEF KnownClient
<1>5. PICK r : r = Memalign(Memory, a, asked, f)
  OBVIOUS
<1>6. r = Memalign(w, a, asked, f)
  BY <1>4, <1>5, Zenon
<1>7. Answers(w, r, BlocksOf(ptr), asked, a, f)
  BY <1>3, <1>6, MemalignAnswers
<1>8. asked \in Nat
  BY DEF Modest
<1>9. Answers(w, r, BlocksOf(ptr), n, a, f)
  BY <1>7, <1>8, AnswersLess
<1>10. Given(c, r, n, a) /\ stretched' = (stretched \/ r.mem.end # end)
  BY <1>1, <1>5, Zenon
<1>11. Onward(w, r.mem, f) /\ Store(r.mem)
  BY <1>7, <1>10 DEF Answers, Given
<1>12. ~stretched' => ~stretched /\ (HasBreak(w) => HasBreak(r.mem))
  BY <1>4, <1>10, <1>11 DEF Onward
<1>13. HeapInv'
  <2>1. ptr[c] = Null /\ Given(c, r, n, a)
    BY <1>1, <1>10
  <2> QED BY ONLY <1>2, <1>9, <1>12, <2>1, GivenGives, HeapInv, c \in Chunk,
                  n \in Nat
<1> QED BY <1>3, <1>11, <1>13, CallLeaves

\* realloc keeps the invariant.
LEMMA StepDoRealloc ==
  ASSUME HeapInv, KnownClient, NEW c \in Chunk, DoRealloc(c)
  PROVE  HeapInv' /\ GapStep
<1>1. PICK n \in Sizes, f \in Frames :
        LET r == Realloc(Memory, ptr[c], n, f) IN
        /\ ptr[c] # Null
        /\ CallFrom(f)
        /\ Store(r.mem)
        /\ IF r.ptr = Null
           THEN data' = r.mem.data /\ UNCHANGED <<ptr, req, align>>
           ELSE Own(c, r.ptr, n, 1, Min({n, req[c]}), r.mem)
        /\ UNCHANGED stretched
  BY DEF DoRealloc
<1>2. PICK w : w = Awake(Memory)
  OBVIOUS
<1>3. PICK r : r = Realloc(Memory, ptr[c], n, f)
  OBVIOUS
<1>4. ptr[c] # Null /\ CallFrom(f) /\ Store(r.mem) /\ stretched' = stretched
  BY <1>1, <1>3, Zenon
<1>5. r.ptr = Null => data' = r.mem.data /\ UNCHANGED <<ptr, req, align>>
  BY <1>1, <1>3, Zenon
<1>6. r.ptr # Null => Own(c, r.ptr, n, 1, Min({n, req[c]}), r.mem)
  BY <1>1, <1>3, Zenon
<1>7. Good(w, BlocksOf(ptr)) /\ w.end + Gap <= f /\ frame' = f
  BY <1>2, <1>4, CallFinds
<1>8. PICK b : b = ptr[c] - W
  OBVIOUS
<1>9. b \in BlocksOf(ptr)
  BY <1>4, <1>8 DEF BlocksOf
<1>10. /\ Memory = w /\ w.data = data
       /\ Satisfied(ptr, req, align, w.data, w.size)
  BY <1>2, <1>9, MemoryIs
<1>11. /\ ptr[c] = b + W /\ b \in Nat /\ req[c] \in Nat
       /\ req[c] + W <= w.size[b] /\ HoldsAt(w.data, c, ptr[c], req[c])
  <2>1. ptr[c] \in Nat /\ W <= ptr[c] /\ req[c] \in Nat
    BY <1>4, <1>10 DEF Satisfied
  <2>2. req[c] + W <= w.size[b] /\ HoldsAt(w.data, c, ptr[c], req[c])
    BY <1>4, <1>8, <1>10 DEF Satisfied
  <2> QED BY <1>8, <2>1, <2>2
<1>12. Modest(n) /\ n \in Nat
  BY DEF KnownClient, Modest
<1>13. r = Realloc(w, b + W, n, f)
  BY <1>3, <1>10, <1>11, Zenon
<1>14. PICK L : L = BlocksOf(ptr)
  OBVIOUS
<1>15. /\ r.ptr = Null => Good(r.mem, L) /\ Kept(w, r.mem, L)
       /\ r.ptr # Null => \E e : /\ r.ptr = e + W
                                 /\ Gives(w, r.mem, L \ {b}, e, n)
                                 /\ Copied(w, b, r.mem, e, n)
       /\ r.mem.end = w.end \/ r.mem.end + Gap <= f
       /\ HasBreak(w) => HasBreak(r.mem)
  <2>1. Good(w, L) /\ b \in L /\ w.end + Gap <= f /\ Modest(n)
    BY <1>7, <1>9, <1>12, <1>14
  <2> QED BY ONLY <1>13, <2>1, f \in Frames, ReallocMoves
<1>16. ~stretched' => HasBreak(r.mem)
  BY <1>2, <1>4, <1>15 DEF HeapInv
<1>17. HeapInv'
  <2>1. CASE r.ptr = Null
    <3>1. data' = r.mem.data /\ ptr' = ptr /\ req' = req /\ align' = align
      BY <1>5, <2>1
    <3>2. Good(r.mem, L) /\ Kept(w, r.mem, L)
      BY <1>15, <2>1
    <3>3. Satisfied(ptr, req, align, r.mem.data, r.mem.size)
      BY <1>7, <1>10, <1>14, <3>2, NothingGiven
    <3>4. /\ Good(Awake(Memory)', L) /\ sizes' = r.mem.size
          /\ HasBreak(r.mem) => HasBreak(Awake(Memory)')
      BY <1>4, <3>2, StoreIs
    <3>5. LiveBlocks' = L
      BY <1>14, <3>1 DEF LiveBlocks, BlocksOf
    <3> QED BY <1>16, <3>1, <3>3, <3>4, <3>5 DEF HeapInv
  <2>2. CASE r.ptr # Null
    <3>1. PICK e : /\ r.ptr = e + W /\ Gives(w, r.mem, L \ {b}, e, n)
                   /\ Copied(w, b, r.mem, e, n)
      BY <1>15, <2>2
    <3>2. e \in Nat
      BY <3>1 DEF Gives
    <3>3. PICK p \in Nat : p = e + W
      BY <3>2
    <3>4. PICK k : k = Min({n, req[c]})
      OBVIOUS
    <3>5. k \in 0..n /\ k <= req[c]
      <4>1. PICK S : S = {n, req[c]}
        OBVIOUS
      <4>2. S \subseteq Nat /\ S # {} /\ n \in S /\ req[c] \in S
        BY <1>11, <1>12, <4>1
      <4>3. k \in Nat /\ k <= n /\ k <= req[c]
        BY <3>4, <4>1, <4>2, MinIsLeast
      <4> QED BY <1>12, <4>3
    <3>6. PICK g : g = r.mem
      OBVIOUS
    <3>7. HoldsAt(g.data, c, p, k)
      <4>1. ASSUME NEW j \in 0..(k - 1)
            PROVE  p + j \in DOMAIN g.data /\ g.data[p + j] = <<c, j>>
        <5>1. j \in Nat /\ j < n /\ j + W < w.size[b] /\ j \in 0..(req[c] - 1)
          <6>1. w.size[b] \in Nat
            BY <1>7, <1>9, LiveBlock
          <6> QED BY <1>11, <1>12, <3>5, <6>1
        <5>2. PICK x \in Nat : x = b + W + j
          BY <1>11, <5>1
        <5>3. x \in DOMAIN w.data /\ w.data[x] = <<c, j>>
          BY <1>11, <5>1, <5>2 DEF HoldsAt
        <5>4. /\ e + W + j \in DOMAIN g.data
              /\ g.data[e + W + j] = w.data[b + W + j]
          BY <3>1, <3>6, <5>1, <5>2, <5>3 DEF Copied
        <5> QED BY <3>3, <5>2, <5>3, <5>4
      <4> QED BY <4>1 DEF HoldsAt
    <3>8. PICK K : K = BlocksBut(ptr, c)
      OBVIOUS
    <3>9. K = L \ {b}
      BY <1>8, <1>14, <3>8 DEF BlocksBut
    <3>10. p % 1 = 0
      OBVIOUS
    <3>11. /\ Gives(w, g, K, e, n) /\ Own(c, p, n, 1, k, g) /\ Store(g)
           /\ BlockOf(p, e) /\ (~stretched' => HasBreak(g))
      BY <1>4, <1>6, <1>16, <2>2, <3>1, <3>3, <3>4, <3>6, <3>9 DEF BlockOf
    <3>12. HeapInv /\ c \in Chunk /\ n \in Nat
      BY <1>12
    <3> QED BY ONLY <1>2, <3>3, <3>5, <3>7, <3>8, <3>10, <3>11, <3>12, OwnStep
  <2> QED BY <2>1, <2>2
<1>18. Onward(w, r.mem, f)
  BY <1>15 DEF Onward
<1> QED BY <1>4, <1>7, <1>17, <1>18, CallLeaves

\* free keeps the invariant.
LEMMA StepDoFree ==
  ASSUME HeapInv, NEW c \in Chunk, DoFree(c)
  PROVE  HeapInv' /\ GapStep
<1>1. PICK m : m = Free(Memory, ptr[c])
  OBVIOUS
<1>2. /\ ptr[c] # Null /\ Store(m) /\ Own(c, Null, 0, 1, 0, m)
      /\ stretched' = stretched
  BY <1>1, Zenon DEF DoFree
<1>3. PICK w : w = Awake(Memory)
  OBVIOUS
<1>4. PICK b : b = ptr[c] - W
  OBVIOUS
<1>5. b \in BlocksOf(ptr)
  BY <1>2, <1>4 DEF BlocksOf
<1>6. /\ Memory = w /\ w.end = end
      /\ Good(w, BlocksOf(ptr))
      /\ Satisfied(ptr, req, align, w.data, w.size)
  BY <1>3, <1>5, MemoryIs
<1>7. ptr[c] = b + W
  <2>1. ptr[c] \in Nat
    BY <1>6 DEF Satisfied
  <2> QED BY <1>4, <2>1
<1>8. m = Free(w, b + W)
  BY <1>1, <1>6, <1>7, Zenon
<1>9. TookBack(w, m, BlocksOf(ptr), b)
  BY <1>5, <1>6, <1>8, FreeGives
<1>10. PICK K : K = BlocksBut(ptr, c)
  OBVIOUS
<1>11. Good(m, K) /\ Keeps(w, m, K) /\ m.end = w.end
  BY <1>4, <1>9, <1>10 DEF TookBack, BlocksBut
<1>12. Kept(w, m, K) /\ (HasBreak(w) => HasBreak(m))
  <2>1. w.brk \in Nat /\ w.end \in Nat
    BY <1>6, GoodParts
  <2> QED BY <1>11, <2>1, KeepsIsKept
<1>13. PICK d : d = data'
  OBVIOUS
<1>14. Written(m.data, d, c, 0, 0, 0)
  <2>1. Own(c, 0, 0, 1, 0, m)
    BY <1>2 DEF Null
  <2> QED BY <1>13, <2>1, OwnWrites
<1>15. PICK p1, q1, g1 : /\ p1 = [ptr EXCEPT ![c] = Null]
                         /\ q1 = [req EXCEPT ![c] = 0]
                         /\ g1 = [align EXCEPT ![c] = 1]
  OBVIOUS
<1>16. ptr' = p1 /\ req' = q1 /\ align' = g1
  BY <1>2, <1>15, Zenon DEF Own
<1>17. Satisfied(p1, q1, g1, d, m.size) /\ BlocksOf(p1) = K
  <2>1. /\ Updates(ptr, c, Null, p1) /\ Updates(req, c, 0, q1)
        /\ Updates(align, c, 1, g1)
    BY <1>15 DEF Updates
  <2>2. Satisfied(p1, q1, g1, d, m.size)
    BY ONLY <1>2, <1>6, <1>10, <1>12, <1>14, <2>1, GiveUp, c \in Chunk
  <2>3. Leaves(p1, K)
    BY ONLY <1>2, <1>6, <1>10, <1>12, <1>14, <2>1, GiveUp, c \in Chunk
  <2> QED BY <2>2, <2>3 DEF Leaves
<1>18. /\ Good(Awake(Memory)', K) /\ sizes' = m.size /\ end' = m.end
       /\ HasBreak(m) => HasBreak(Awake(Memory)')
  BY <1>2, <1>11, StoreIs
<1>19. LiveBlocks' = K
  BY <1>16, <1>17 DEF LiveBlocks, BlocksOf
<1>20. ~stretched' => HasBreak(m)
  BY <1>2, <1>3, <1>12 DEF HeapInv
<1>21. HeapInv'
  BY <1>13, <1>16, <1>17, <1>18, <1>19, <1>20 DEF HeapInv
<1>22. GapStep
  BY <1>6, <1>11, <1>18 DEF GapStep
<1> QED BY <1>21, <1>22

\* Every step keeps the invariant and the gap.
LEMMA NextKeeps ==
  ASSUME HeapInv, KnownClient, [Next]_vars
  PROVE  HeapInv' /\ GapStep
<1>1. CASE UNCHANGED vars
  <2>1. Awake(Memory)' = Awake(Memory) /\ LiveBlocks' = LiveBlocks
    BY <1>1 DEF vars, Awake, Memory, LiveBlocks
  <2>2. HeapInv'
    BY <1>1, <2>1 DEF vars, HeapInv
  <2>3. GapStep
    BY <1>1 DEF vars, GapStep
  <2> QED BY <2>2, <2>3
<1>2. ASSUME NEW c \in Chunk,
             \/ DoMalloc(c) \/ DoCalloc(c) \/ DoRealloc(c) \/ DoFree(c)
             \/ DoMemalign(c) \/ DoValloc(c) \/ DoPvalloc(c)
      PROVE  HeapInv' /\ GapStep
  <2>1. CASE DoMalloc(c)
    BY <2>1, StepDoMalloc
  <2>2. CASE DoCalloc(c)
    BY <2>2, StepDoCalloc
  <2>3. CASE DoRealloc(c)
    BY <2>3, StepDoRealloc
  <2>4. CASE DoFree(c)
    BY <2>4, StepDoFree
  <2>5. /\ PageSize \in Nat \ {0}
        /\ PowerOfTwo(PageSize) => Aligning(PageSize)
        /\ \A a \in Alignments : PowerOfTwo(a) => Aligning(a)
        /\ \A n \in Sizes : Modest(n) /\ Modest(n + MAlign(n, PageSize))
    BY DEF KnownClient
  <2>6. \A n \in Sizes : n \in Nat
    BY <2>5 DEF Modest
  <2>7. CASE DoMemalign(c)
    <3>1. PICK a \in Alignments, n \in Sizes : Align(c, a, n, n)
      BY <2>7 DEF DoMemalign
    <3>2. n \in Nat /\ n <= n
      BY <2>6
    <3> QED BY <2>5, <3>1, <3>2, StepAlign
  <2>8. CASE DoValloc(c)
    <3>1. PICK n \in Sizes : Align(c, PageSize, n, n)
      BY <2>8 DEF DoValloc
    <3>2. n \in Nat /\ n <= n
      BY <2>6
    <3> QED BY <2>5, <3>1, <3>2, StepAlign
  <2>9. CASE DoPvalloc(c)
    <3>1. PICK n \in Sizes :
            Align(c, PageSize, n, n + MAlign(n, PageSize))
      BY <2>9 DEF DoPvalloc
    <3>2. PICK asked : asked = n + MAlign(n, PageSize)
      OBVIOUS
    <3>3. n \in Nat /\ n <= asked
      <4>1. n \in Nat
        BY <2>6
      <4>2. MAlign(n, PageSize) \in Nat
        BY <2>5, <4>1, AlignsUp
      <4> QED BY <3>2, <4>1, <4>2
    <3>4. Modest(asked) /\ Align(c, PageSize, n, asked)
      BY <2>5, <3>1, <3>2
    <3> QED BY <2>5, <3>3, <3>4, StepAlign
  <2> QED BY <1>2, <2>1, <2>2, <2>3, <2>4, <2>7, <2>8, <2>9
<1> QED BY <1>1, <1>2 DEF Next

\* The invariant holds.
LEMMA HeapInvariant ==
  ASSUME KnownClient
  PROVE  Spec => []HeapInv
<1>1. HeapInv /\ [Next]_vars => HeapInv'
  BY NextKeeps
<1> QED BY <1>1, InitHeap, PTL DEF Spec

-------------------------------------------------------------------------------
(* What follows. *)

\* The free list of a heap in order is sorted and merged.
LEMMA FreeListIs ==
  ASSUME HeapInv
  PROVE  FreeListMerged
<1>1. PICK w : w = Awake(Memory)
  OBVIOUS
<1>2. Good(w, BlocksOf(ptr)) /\ w.size = sizes
  BY <1>1, MemoryIs
<1>3. w.free = freelist
  BY <1>1, AwakeIs DEF Memory
<1>4. /\ Ascending(freelist) /\ Apart(Range(freelist), sizes)
      /\ Len(freelist) \in Nat
      /\ \A i \in 1..Len(freelist) : freelist[i] \in Range(freelist)
  BY <1>2, <1>3, GoodParts, ListOf
<1>5. \A i \in 1..(Len(freelist) - 1) :
        freelist[i] + sizes[freelist[i]] < freelist[i + 1]
  <2>1. ASSUME NEW i \in 1..(Len(freelist) - 1)
        PROVE  freelist[i] + sizes[freelist[i]] < freelist[i + 1]
    <3>1. PICK j : j = i + 1
      OBVIOUS
    <3>2. i \in 1..Len(freelist) /\ j \in 1..Len(freelist) /\ i < j
      BY <1>4, <3>1
    <3>3. freelist[i] < freelist[j]
      BY <1>4, <3>2 DEF Ascending
    <3>4. freelist[i] + sizes[freelist[i]] < freelist[j]
      BY <1>4, <3>2, <3>3 DEF Apart
    <3> QED BY <3>1, <3>4
  <2> QED BY <2>1
<1>6. \A b \in DOMAIN sizes : sizes[b] >= Entry /\ sizes[b] % W = 0
  <2>1. ASSUME NEW b \in DOMAIN sizes
        PROVE  sizes[b] >= Entry /\ sizes[b] % W = 0
    <3>1. sizes[b] \in Words /\ Entry <= sizes[b] /\ sizes[b] \in Nat
      BY <1>2, GoodSizes
    <3> QED BY <3>1, WordsAreNumbers DEF Words
  <2> QED BY <2>1
<1> QED BY <1>5, <1>6 DEF FreeListMerged

\* The blocks of a heap in order tile it.
LEMMA BlocksAre ==
  ASSUME HeapInv
  PROVE  NoByteLost
<1>1. PICK w : w = Awake(Memory)
  OBVIOUS
<1>2. PICK L : L = BlocksOf(ptr)
  OBVIOUS
<1>3. /\ Good(w, L) /\ w.size = sizes
      /\ end # Null => w.end = end
      /\ end = Null => w.end = Start
  BY <1>1, <1>2, MemoryIs
<1>4. w.free = freelist
  BY <1>1, AwakeIs DEF Memory
<1>5. /\ Range(freelist) \union L = DOMAIN sizes
      /\ Range(freelist) \intersect L = {}
      /\ Tiles(sizes, w.end) /\ w.end \in Nat /\ Start <= w.end
  BY <1>3, <1>4, GoodParts
<1>6. LiveBlocks = L /\ FreeBlocks = Range(freelist)
  BY <1>2 DEF LiveBlocks, BlocksOf, FreeBlocks
<1>7. ASSUME NEW b \in DOMAIN sizes
      PROVE  /\ b \in Nat /\ sizes[b] \in Nat /\ Start <= b
             /\ Entry <= sizes[b] /\ b + sizes[b] <= w.end
             /\ \A a \in DOMAIN sizes : a < b => a + sizes[a] <= b
  BY <1>3, GoodSizes
<1>8. \A x \in Start..(w.end - 1) :
        \E b \in DOMAIN sizes : b <= x /\ x < b + sizes[b]
  BY <1>5 DEF Tiles
<1>9. ASSUME NEW z \in Nat, Start < z, z <= w.end
      PROVE  \E a \in DOMAIN sizes : a < z /\ z <= a + sizes[a]
  <2>1. PICK x \in Nat : x = z - 1
    BY <1>9
  <2>2. x \in Start..(w.end - 1)
    BY <1>5, <1>9, <2>1
  <2>3. PICK a \in DOMAIN sizes : a <= x /\ x < a + sizes[a]
    BY <1>8, <2>2
  <2>4. a \in Nat /\ sizes[a] \in Nat
    BY <1>7
  <2>5. a < z /\ z <= a + sizes[a]
    BY ONLY <2>1, <2>3, <2>4, z \in Nat
  <2> QED BY <2>5
<1>10. ASSUME NEW b \in DOMAIN sizes
       PROVE  b = Start \/ \E a \in DOMAIN sizes : a + sizes[a] = b
  <2>1. /\ b \in Nat /\ sizes[b] \in Nat /\ Start <= b /\ Entry <= sizes[b]
        /\ b + sizes[b] <= w.end /\ b <= w.end
    BY <1>5, <1>7, WordsAreNumbers
  <2>2. CASE Start < b
    <3>1. PICK a \in DOMAIN sizes : a < b /\ b <= a + sizes[a]
      BY <1>9, <2>1, <2>2
    <3>2. a + sizes[a] <= b /\ a \in Nat /\ sizes[a] \in Nat
      BY <1>7, <3>1
    <3>3. a + sizes[a] = b
      BY <2>1, <3>1, <3>2
    <3> QED BY <3>3
  <2> QED BY <2>1, <2>2
<1>11. ASSUME end \notin {Null, Start}
       PROVE  \E b \in DOMAIN sizes : b + sizes[b] = end
  <2>1. w.end = end /\ end \in Nat /\ Start < end
    BY <1>3, <1>5, <1>11
  <2>2. PICK b \in DOMAIN sizes : b < end /\ end <= b + sizes[b]
    BY <1>9, <2>1
  <2>3. b + sizes[b] = end
    BY <1>7, <2>1, <2>2
  <2> QED BY <2>3
<1>12. ASSUME NEW b \in DOMAIN sizes
       PROVE  b + sizes[b] <= end
  <2>1. /\ b \in Nat /\ sizes[b] \in Nat /\ Start <= b /\ Entry <= sizes[b]
        /\ b + sizes[b] <= w.end
    BY <1>7
  <2>2. w.end # Start
    BY <2>1, WordsAreNumbers
  <2>3. w.end = end
    BY <1>3, <2>2
  <2> QED BY <2>1, <2>3
<1>13. \A b \in DOMAIN sizes :
         /\ b = Start \/ \E a \in DOMAIN sizes : a + sizes[a] = b
         /\ \A a \in DOMAIN sizes : a < b => a + sizes[a] <= b
         /\ b + sizes[b] <= end
  BY <1>7, <1>10, <1>12
<1> QED BY <1>5, <1>6, <1>11, <1>13 DEF NoByteLost

-------------------------------------------------------------------------------
(* What mallinfo() adds up. *)

\* The bytes of the heap that lie in a block of P.
Covered(P) ==
  {x \in Start..(end - 1) : \E b \in P : b <= x /\ x < b + sizes[b]}

\* The sum of the sizes on the list up to each entry.
IsSum(g) ==
  g = [n \in 0..Len(freelist) |-> IF n = 0 THEN 0
                                  ELSE g[n - 1] + sizes[freelist[n]]]

\* The blocks of a heap that is in use.
LEMMA HeapBlocks ==
  ASSUME HeapInv, end # Null
  PROVE  /\ end \in Nat /\ Start \in Nat /\ Start <= end
         /\ Ascending(freelist)
         /\ FreeBlocks = Range(freelist)
         /\ FreeBlocks \intersect LiveBlocks = {}
         /\ FreeBlocks \union LiveBlocks = DOMAIN sizes
         /\ \A b \in DOMAIN sizes :
              /\ b \in Nat /\ sizes[b] \in Nat
              /\ Start <= b /\ b + sizes[b] <= end
              /\ \A a \in DOMAIN sizes : a < b => a + sizes[a] <= b
         /\ \A x \in Start..(end - 1) :
              \E b \in DOMAIN sizes : b <= x /\ x < b + sizes[b]
<1>1. PICK w : w = Awake(Memory)
  OBVIOUS
<1>2. PICK L : L = BlocksOf(ptr)
  OBVIOUS
<1>3. Good(w, L) /\ w.size = sizes /\ w.end = end
  BY <1>1, <1>2, MemoryIs
<1>4. w.free = freelist
  BY <1>1, AwakeIs DEF Memory
<1>5. /\ Range(freelist) \union L = DOMAIN sizes
      /\ Range(freelist) \intersect L = {}
      /\ Tiles(sizes, end) /\ end \in Nat /\ Start <= end
      /\ Ascending(freelist)
  BY <1>3, <1>4, GoodParts
<1>6. LiveBlocks = L /\ FreeBlocks = Range(freelist)
  BY <1>2 DEF LiveBlocks, BlocksOf, FreeBlocks
<1>7. \A b \in DOMAIN sizes :
        /\ b \in Nat /\ sizes[b] \in Nat
        /\ Start <= b /\ b + sizes[b] <= end
        /\ \A a \in DOMAIN sizes : a < b => a + sizes[a] <= b
  BY <1>3, GoodSizes
<1>8. \A x \in Start..(end - 1) :
        \E b \in DOMAIN sizes : b <= x /\ x < b + sizes[b]
  BY <1>5 DEF Tiles
<1> QED BY <1>5, <1>6, <1>7, <1>8, HeapAssumption

\* Bytes of a heap are finitely many.
LEMMA CoveredFinite ==
  ASSUME HeapInv, end # Null, NEW P
  PROVE  IsFiniteSet(Covered(P)) /\ Cardinality(Covered(P)) \in Nat
<1>1. end \in Nat /\ Start \in Nat
  BY HeapBlocks
<1>2. IsFiniteSet(Start..(end - 1))
  BY <1>1, FS_Interval
<1>3. Covered(P) \in SUBSET (Start..(end - 1))
  BY DEF Covered
<1> QED BY <1>2, <1>3, FS_Subset, FS_CardinalityType

\* Blocks of different sets share no byte.
LEMMA CoveredApart ==
  ASSUME HeapInv, end # Null,
         NEW P \in SUBSET DOMAIN sizes, NEW Q \in SUBSET DOMAIN sizes,
         P \intersect Q = {}
  PROVE  /\ Covered(P) \intersect Covered(Q) = {}
         /\ Covered(P \union Q) = Covered(P) \union Covered(Q)
         /\ Cardinality(Covered(P \union Q)) =
              Cardinality(Covered(P)) + Cardinality(Covered(Q))
<1>1. Covered(P \union Q) = Covered(P) \union Covered(Q)
  BY DEF Covered
<1>2. ASSUME NEW x \in Covered(P), x \in Covered(Q)
      PROVE  FALSE
  <2>1. PICK a \in P : a <= x /\ x < a + sizes[a]
    BY DEF Covered
  <2>2. PICK b \in Q : b <= x /\ x < b + sizes[b]
    BY <1>2 DEF Covered
  <2>3. a \in DOMAIN sizes /\ b \in DOMAIN sizes /\ a # b
    OBVIOUS
  <2>4. /\ a \in Nat /\ sizes[a] \in Nat /\ b \in Nat /\ sizes[b] \in Nat
        /\ a < b => a + sizes[a] <= b
        /\ b < a => b + sizes[b] <= a
    BY <2>3, HeapBlocks
  <2>5. x \in Int
    BY HeapBlocks DEF Covered
  <2> QED BY ONLY <2>1, <2>2, <2>3, <2>4, <2>5
<1>3. Covered(P) \intersect Covered(Q) = {}
  BY <1>2
<1>4. Cardinality(Covered(P) \union Covered(Q)) =
        Cardinality(Covered(P)) + Cardinality(Covered(Q))
  <2>1. /\ IsFiniteSet(Covered(P)) /\ Cardinality(Covered(P)) \in Nat
        /\ IsFiniteSet(Covered(Q)) /\ Cardinality(Covered(Q)) \in Nat
    BY CoveredFinite
  <2>2. Cardinality(Covered(P) \union Covered(Q)) =
          Cardinality(Covered(P)) + Cardinality(Covered(Q)) - Cardinality({})
    BY <1>3, <2>1, FS_Union
  <2>3. Cardinality({}) = 0
    BY FS_EmptySet
  <2> QED BY ONLY <2>1, <2>2, <2>3
<1> QED BY <1>1, <1>3, <1>4

\* One block has the bytes its header says, all of them the whole heap, and
\* none has none.
LEMMA CoveredSizes ==
  ASSUME HeapInv, end # Null
  PROVE  /\ Cardinality(Covered({})) = 0
         /\ \A b \in DOMAIN sizes : Cardinality(Covered({b})) = sizes[b]
         /\ Cardinality(Covered(DOMAIN sizes)) = end - Start
<1>1. end \in Nat /\ Start \in Nat /\ Start <= end
  BY HeapBlocks
<1>2. Cardinality(Covered({})) = 0
  <2>1. Covered({}) = {}
    BY DEF Covered
  <2> QED BY <2>1, FS_EmptySet
<1>3. ASSUME NEW b \in DOMAIN sizes
      PROVE  Cardinality(Covered({b})) = sizes[b]
  <2>1. PICK n : n = sizes[b]
    OBVIOUS
  <2>2. b \in Nat /\ n \in Nat /\ Start <= b /\ b + n <= end
    BY <2>1, HeapBlocks
  <2>3. Covered({b}) = b..(b + n - 1)
    <3>1. Covered({b}) = {x \in Start..(end - 1) : b <= x /\ x < b + n}
      BY <2>1 DEF Covered
    <3>2. \A x : x \in Covered({b}) <=> x \in b..(b + n - 1)
      BY ONLY <1>1, <2>2, <3>1
    <3> QED BY <3>2
  <2>4. PICK c \in Int : c = b + n - 1
    BY <2>2
  <2>5. Cardinality(b..c) = IF b > c THEN 0 ELSE c - b + 1
    <3>1. b \in Int /\ c \in Int
      BY <2>2
    <3> QED BY ONLY <3>1, FS_Interval
  <2>6. Cardinality(b..c) = n
    BY ONLY <2>2, <2>4, <2>5
  <2> QED BY <2>1, <2>3, <2>4, <2>6
<1>4. Covered(DOMAIN sizes) = Start..(end - 1)
  BY HeapBlocks DEF Covered
<1>5. Cardinality(Start..(end - 1)) =
        IF Start > end - 1 THEN 0 ELSE end - 1 - Start + 1
  BY <1>1, FS_Interval
<1> QED BY <1>1, <1>2, <1>3, <1>4, <1>5

\* The first n blocks of the free list.
First(n) == {freelist[i] : i \in 1..n}

\* The next block of the list adds its size.
LEMMA FirstMore ==
  ASSUME HeapInv, end # Null, NEW n \in 1..Len(freelist)
  PROVE  Cardinality(Covered(First(n))) =
           Cardinality(Covered(First(n - 1))) + sizes[freelist[n]]
<1>1. /\ Len(freelist) \in Nat
      /\ Range(freelist) = {freelist[i] : i \in 1..Len(freelist)}
      /\ \A i \in 1..Len(freelist) : freelist[i] \in Nat
  BY HeapBlocks, ListOf
<1>2. \A i \in 1..Len(freelist) : freelist[i] \in DOMAIN sizes
  BY <1>1, HeapBlocks
<1>3. PICK b : b = freelist[n]
  OBVIOUS
<1>4. b \in DOMAIN sizes
  BY <1>2, <1>3
<1>5. First(n - 1) \in SUBSET DOMAIN sizes
  BY <1>1, <1>2 DEF First
<1>6. b \notin First(n - 1)
  <2>1. SUFFICES ASSUME NEW i \in 1..(n - 1) PROVE freelist[i] # b
    BY DEF First
  <2>2. i \in 1..Len(freelist) /\ i < n
    BY <1>1
  <2>3. freelist[i] < freelist[n] /\ freelist[i] \in Nat
    BY <1>1, <2>2, HeapBlocks DEF Ascending
  <2> QED BY <1>3, <2>3
<1>7. First(n) = First(n - 1) \union {b}
  <2>1. 1..n = 1..(n - 1) \union {n}
    BY <1>1
  <2> QED BY <1>3, <2>1 DEF First
<1>8. Cardinality(Covered(First(n - 1) \union {b})) =
        Cardinality(Covered(First(n - 1))) + Cardinality(Covered({b}))
  BY <1>4, <1>5, <1>6, CoveredApart
<1>9. Cardinality(Covered({b})) = sizes[b]
  BY <1>4, CoveredSizes
<1> QED BY <1>3, <1>7, <1>8, <1>9

\* The walk of mallinfo() adds up the bytes in the blocks it has passed.
LEMMA SumsAre ==
  ASSUME HeapInv, end # Null
  PROVE  /\ \E g : IsSum(g)
         /\ \A g : IsSum(g) =>
              \A n \in 0..Len(freelist) : g[n] = Cardinality(Covered(First(n)))
<1>1. Len(freelist) \in Nat
  BY HeapBlocks, ListOf
<1>2. Cardinality(Covered(First(0))) = 0
  <2>1. First(0) = {}
    BY DEF First
  <2> QED BY <2>1, CoveredSizes
<1> DEFINE h == [n \in 0..Len(freelist) |-> Cardinality(Covered(First(n)))]
<1>3. ASSUME NEW n \in 0..Len(freelist)
      PROVE  h[n] = IF n = 0 THEN 0 ELSE h[n - 1] + sizes[freelist[n]]
  <2>1. CASE n = 0
    BY <1>2, <2>1
  <2>2. CASE n # 0
    <3>1. n \in 1..Len(freelist) /\ n - 1 \in 0..Len(freelist)
      BY <1>1, <2>2
    <3>2. h[n] = Cardinality(Covered(First(n)))
          /\ h[n - 1] = Cardinality(Covered(First(n - 1)))
      BY <3>1
    <3> HIDE DEF h
    <3> QED BY <2>2, <3>1, <3>2, FirstMore
  <2> QED BY <2>1, <2>2
<1>4. IsSum(h)
  <2>1. h = [n \in 0..Len(freelist) |-> h[n]]
    OBVIOUS
  <2> HIDE DEF h
  <2> QED BY <1>3, <2>1 DEF IsSum
<1>5. ASSUME NEW g, IsSum(g), NEW m \in 0..Len(freelist),
             g[m] # Cardinality(Covered(First(m)))
      PROVE  FALSE
  <2> DEFINE Bad == {n \in 0..Len(freelist) :
                       g[n] # Cardinality(Covered(First(n)))}
  <2>1. Bad \subseteq Nat /\ Bad # {}
    BY <1>1, <1>5
  <2>2. PICK k : k = Min(Bad)
    OBVIOUS
  <2>3. k \in Bad /\ \A y \in Bad : k <= y
    <3> HIDE DEF Bad
    <3> QED BY <2>1, <2>2, MinIsLeast
  <2>4. k \in 0..Len(freelist) /\ g[k] # Cardinality(Covered(First(k)))
    BY <2>3
  <2>5. \A n \in 0..Len(freelist) :
          g[n] = IF n = 0 THEN 0 ELSE g[n - 1] + sizes[freelist[n]]
    BY <1>5 DEF IsSum
  <2>6. k # 0
    BY <1>2, <2>4, <2>5
  <2>7. k \in 1..Len(freelist) /\ k - 1 \in 0..Len(freelist) /\ ~(k <= k - 1)
    BY <1>1, <2>4, <2>6
  <2>8. g[k - 1] = Cardinality(Covered(First(k - 1)))
    BY <2>3, <2>7
  <2>9. g[k] = g[k - 1] + sizes[freelist[k]]
    BY <2>4, <2>5, <2>6
  <2> QED BY <2>4, <2>7, <2>8, <2>9, FirstMore
<1> QED BY <1>4, <1>5

\* The blocks in use hold the bytes mallinfo() says are in use, and the last
\* one is among those it has added up.
LEMMA InfoIs ==
  ASSUME HeapInv, end # Null
  PROVE  /\ Mallinfo.uordblks =
              Cardinality(UNION {BlockAt(b) : b \in LiveBlocks})
         /\ Mallinfo.keepcost <= Mallinfo.fordblks
<1> DEFINE sum == CHOOSE g : g =
             [n \in 0..Len(freelist) |-> IF n = 0 THEN 0
                                         ELSE g[n - 1] + sizes[freelist[n]]]
<1>1. /\ Mallinfo.fordblks = sum[Len(freelist)]
      /\ Mallinfo.uordblks = end - Start - sum[Len(freelist)]
      /\ Mallinfo.keepcost = IF LastIsAtEnd(Memory) THEN sizes[Last(freelist)]
                             ELSE 0
  BY DEF Mallinfo
<1>2. IsSum(sum)
  BY SumsAre DEF IsSum
<1> HIDE DEF sum
<1>3. PICK l \in Nat : l = Len(freelist)
  BY HeapBlocks, ListOf
<1>4. \A n \in 0..l : sum[n] = Cardinality(Covered(First(n)))
  BY <1>2, <1>3, SumsAre
<1>5. First(l) = FreeBlocks
  BY <1>3, HeapBlocks, ListOf DEF First
<1>6. PICK s : s = sum[l]
  OBVIOUS
<1>7. s = Cardinality(Covered(FreeBlocks))
  BY <1>4, <1>5, <1>6
<1>8. end - Start = s + Cardinality(Covered(LiveBlocks))
  <2>1. /\ FreeBlocks \in SUBSET DOMAIN sizes
        /\ LiveBlocks \in SUBSET DOMAIN sizes
        /\ FreeBlocks \intersect LiveBlocks = {}
        /\ FreeBlocks \union LiveBlocks = DOMAIN sizes
    BY HeapBlocks
  <2>2. Cardinality(Covered(FreeBlocks \union LiveBlocks)) =
          Cardinality(Covered(FreeBlocks)) + Cardinality(Covered(LiveBlocks))
    BY <2>1, CoveredApart
  <2> QED BY <1>7, <2>1, <2>2, CoveredSizes
<1>9. Covered(LiveBlocks) = UNION {BlockAt(b) : b \in LiveBlocks}
  <2>1. LiveBlocks \subseteq DOMAIN sizes
    BY HeapBlocks
  <2>2. ASSUME NEW b \in LiveBlocks, NEW x
        PROVE  x \in BlockAt(b) <=>
                 x \in Start..(end - 1) /\ b <= x /\ x < b + sizes[b]
    <3>1. PICK n : n = sizes[b]
      OBVIOUS
    <3>2. /\ b \in Nat /\ n \in Nat /\ Start <= b /\ b + n <= end
          /\ end \in Nat /\ Start \in Nat
      BY <2>1, <3>1, HeapBlocks
    <3>3. x \in b..(b + n - 1) <=>
            x \in Start..(end - 1) /\ b <= x /\ x < b + n
      BY ONLY <3>2
    <3> QED BY <3>1, <3>3 DEF BlockAt
  <2> QED BY <2>2 DEF Covered
<1>10. /\ s \in Nat /\ Cardinality(Covered(LiveBlocks)) \in Nat
       /\ end \in Nat /\ Start \in Nat
  BY <1>7, CoveredFinite, HeapBlocks
<1>11. end - Start - s = Cardinality(Covered(LiveBlocks))
  BY ONLY <1>8, <1>10
<1>12. CASE freelist # <<>>
  <2>1. l # 0 /\ l \in 0..l /\ l - 1 \in 0..l /\ l \in 1..l
    BY <1>3, <1>12, HeapBlocks, EmptySeq DEF Ascending
  <2>2. PICK b : b = freelist[l]
    OBVIOUS
  <2>3. PICK r : r = sum[l - 1]
    OBVIOUS
  <2>4. s = r + sizes[b]
    BY <1>2, <1>3, <1>6, <2>1, <2>2, <2>3 DEF IsSum
  <2>5. r \in Nat
    BY <1>4, <2>1, <2>3, CoveredFinite
  <2>6. b \in DOMAIN sizes
    BY <1>3, <2>1, <2>2, HeapBlocks, ListOf
  <2>7. sizes[b] \in Nat
    BY <2>6, HeapBlocks
  <2>8. Last(freelist) = b
    BY <1>3, <2>2 DEF Last
  <2>9. sizes[b] <= s /\ 0 <= s
    BY ONLY <2>4, <2>5, <2>7, <1>10
  <2> QED BY <1>1, <1>3, <1>6, <1>9, <1>11, <2>8, <2>9
<1>13. CASE freelist = <<>>
  <2>1. ~LastIsAtEnd(Memory)
    BY <1>13 DEF LastIsAtEnd, Memory
  <2>2. 0 <= s
    BY <1>10
  <2> QED BY <1>1, <1>3, <1>6, <1>9, <1>11, <2>1, <2>2
<1> QED BY <1>12, <1>13

-------------------------------------------------------------------------------
(* What clients see. *)

\* The chunks of satisfied clients are what they asked for.
LEMMA AsAsked ==
  ASSUME HeapInv, Granting
  PROVE  ChunksAsAsked
<1>1. PICK w : w = Awake(Memory)
  OBVIOUS
<1>2. /\ Good(w, BlocksOf(ptr)) /\ w.size = sizes
      /\ Satisfied(ptr, req, align, data, sizes)
      /\ end # Null => w.end = end
  BY <1>1, MemoryIs DEF HeapInv
<1>3. w.brk = brk /\ w.bad = unbacked
  BY <1>1, AwakeIs DEF Memory
<1>4. ASSUME NEW c \in Chunk, ptr[c] # Null
      PROVE  /\ req[c] <= MallocUsableSize(ptr[c])
             /\ ptr[c] % W = 0 /\ ptr[c] % align[c] = 0
             /\ ~stretched => ptr[c] + req[c] <= brk
  <2>1. PICK b : b = ptr[c] - W
    OBVIOUS
  <2>2. b \in BlocksOf(ptr)
    BY <1>4, <2>1 DEF BlocksOf
  <2>3. /\ b \in Words /\ b \in Nat /\ sizes[b] \in Nat
        /\ b + sizes[b] <= w.end
    BY <1>2, <2>2, LiveBlock
  <2>4. ptr[c] \in Nat /\ req[c] \in Nat
    BY <1>2 DEF Satisfied
  <2>5. req[c] + W <= sizes[b] /\ ptr[c] % align[c] = 0
    BY <1>2, <1>4, <2>1 DEF Satisfied
  <2>6. ptr[c] = b + W
    BY <2>1, <2>4
  <2>7. ptr[c] % W = 0
    <3>1. b + W \in Words
      BY <2>3, SmallWords, SumsOfWords
    <3> QED BY <2>6, <3>1 DEF Words
  <2>8. req[c] <= MallocUsableSize(ptr[c])
    BY <2>1, <2>3, <2>4, <2>5 DEF MallocUsableSize
  <2>9. ASSUME ~stretched PROVE ptr[c] + req[c] <= brk
    <3>1. w.end + W <= brk /\ w.end \in Nat /\ brk \in Nat
      BY <1>1, <1>2, <1>3, <2>9, GoodParts DEF HeapInv, HasBreak
    <3> QED BY <2>3, <2>4, <2>5, <2>6, <3>1
  <2> QED BY <2>5, <2>7, <2>8, <2>9
<1>5. ~stretched => ~unbacked
  BY <1>1, <1>3 DEF HeapInv, HasBreak
<1> QED BY <1>4, <1>5 DEF ChunksAsAsked, Backed

-------------------------------------------------------------------------------
(* The abstract heap. *)

\* What each chunk holds, as the abstract heap sees it.
Contents ==
  [c \in Chunk |-> LET p == ptr[c] IN
     [i \in 0..(req[c] - 1) |->
        IF p + i \in DOMAIN data THEN data[p + i] ELSE <<>>]]

\* A chunk of n bytes as its client filled it.
Filled(c, n) == [i \in 0..(n - 1) |-> <<c, i>>]

\* A satisfied client reads what it wrote.
LEMMA ContentsAre ==
  ASSUME NEW p, NEW q, NEW g, NEW d, NEW s, Satisfied(p, q, g, d, s),
         NEW c \in Chunk
  PROVE  [i \in 0..(q[c] - 1) |->
            IF p[c] + i \in DOMAIN d THEN d[p[c] + i] ELSE <<>>]
           = Filled(c, q[c])
<1>1. CASE p[c] = Null
  <2>1. q[c] = 0
    BY <1>1 DEF Satisfied
  <2> QED BY <2>1 DEF Filled
<1>2. CASE p[c] # Null
  <2>1. HoldsAt(d, c, p[c], q[c])
    BY <1>2 DEF Satisfied
  <2> QED BY <2>1 DEF HoldsAt, Filled
<1> QED BY <1>1, <1>2

\* The bytes of a chunk before a step.
LEMMA ContentsNow ==
  ASSUME HeapInv, NEW c \in Chunk
  PROVE  Contents[c] = Filled(c, req[c])
<1>1. Satisfied(ptr, req, align, data, sizes)
  BY DEF HeapInv
<1> QED BY <1>1, ContentsAre DEF Contents

\* The bytes of a chunk after it.
LEMMA ContentsThen ==
  ASSUME HeapInv', NEW c \in Chunk
  PROVE  Contents'[c] = Filled(c, req'[c])
<1>1. Satisfied(ptr', req', align', data', sizes')
  BY DEF HeapInv
<1>2. [i \in 0..(req'[c] - 1) |->
         IF ptr'[c] + i \in DOMAIN data' THEN data'[ptr'[c] + i] ELSE <<>>]
        = Filled(c, req'[c])
  BY ONLY <1>1, ContentsAre
<1> QED BY ONLY <1>2 DEF Contents

\* Two chunks have no byte in common.
LEMMA ExtentsApart ==
  ASSUME NEW p, NEW q, NEW g, NEW d, NEW m, Satisfied(p, q, g, d, m.size),
         Good(m, BlocksOf(p)), NEW c \in Chunk, NEW e \in Chunk, c # e,
         p[c] # Null, p[e] # Null
  PROVE  /\ p[c] # p[e]
         /\ {p[c] + i : i \in 0..(q[c] - 1)}
              \intersect {p[e] + i : i \in 0..(q[e] - 1)} = {}
<1>1. /\ p[c] \in Nat /\ p[e] \in Nat /\ q[c] \in Nat /\ q[e] \in Nat
      /\ W <= p[c] /\ W <= p[e] /\ p[c] # p[e]
  BY DEF Satisfied
<1>2. PICK x \in Nat : x = p[c] - W
  BY <1>1
<1>3. PICK y \in Nat : y = p[e] - W
  BY <1>1
<1>4. q[c] + W <= m.size[x] /\ q[e] + W <= m.size[y]
  BY <1>2, <1>3 DEF Satisfied
<1>5. x \in BlocksOf(p) /\ y \in BlocksOf(p) /\ x # y
  BY <1>1, <1>2, <1>3 DEF BlocksOf
<1>6. /\ m.size[x] \in Nat /\ m.size[y] \in Nat
      /\ x + m.size[x] <= y \/ y + m.size[y] <= x
  BY <1>5, ChunksApart
<1>7. p[c] + q[c] <= p[e] \/ p[e] + q[e] <= p[c]
  BY <1>1, <1>2, <1>3, <1>4, <1>6
<1>8. \A i \in 0..(q[c] - 1), j \in 0..(q[e] - 1) : p[c] + i # p[e] + j
  BY <1>1, <1>7
<1> QED BY <1>1, <1>8

\* A step moves the chunk of one client, or of none.
LEMMA OneMoves ==
  ASSUME [Next]_vars
  PROVE  \/ ptr' = ptr /\ req' = req
         \/ \E c \in Chunk : \E p, n : /\ ptr' = [ptr EXCEPT ![c] = p]
                                       /\ req' = [req EXCEPT ![c] = n]
<1>1. ASSUME NEW c \in Chunk, NEW r, NEW n, NEW a, Given(c, r, n, a)
      PROVE  \/ ptr' = ptr /\ req' = req
             \/ \E p, k : /\ ptr' = [ptr EXCEPT ![c] = p]
                          /\ req' = [req EXCEPT ![c] = k]
  <2>1. CASE r.ptr = Null
    BY <1>1, <2>1 DEF Given
  <2>2. CASE r.ptr # Null
    BY <1>1, <2>2 DEF Given, Own
  <2> QED BY <2>1, <2>2
<1>2. CASE UNCHANGED vars
  BY <1>2 DEF vars
<1>3. ASSUME NEW c \in Chunk, DoMalloc(c)
      PROVE  \/ ptr' = ptr /\ req' = req
             \/ \E p, k : /\ ptr' = [ptr EXCEPT ![c] = p]
                          /\ req' = [req EXCEPT ![c] = k]
  BY <1>1, <1>3 DEF DoMalloc
<1>4. ASSUME NEW c \in Chunk, DoCalloc(c)
      PROVE  \/ ptr' = ptr /\ req' = req
             \/ \E p, k : /\ ptr' = [ptr EXCEPT ![c] = p]
                          /\ req' = [req EXCEPT ![c] = k]
  BY <1>1, <1>4 DEF DoCalloc
<1>5. ASSUME NEW c \in Chunk, NEW a, NEW n, NEW asked, Align(c, a, n, asked)
      PROVE  \/ ptr' = ptr /\ req' = req
             \/ \E p, k : /\ ptr' = [ptr EXCEPT ![c] = p]
                          /\ req' = [req EXCEPT ![c] = k]
  BY <1>1, <1>5 DEF Align
<1>6. ASSUME NEW c \in Chunk, DoRealloc(c)
      PROVE  \/ ptr' = ptr /\ req' = req
             \/ \E p, k : /\ ptr' = [ptr EXCEPT ![c] = p]
                          /\ req' = [req EXCEPT ![c] = k]
  BY <1>6, Zenon DEF DoRealloc, Own
<1>7. ASSUME NEW c \in Chunk, DoFree(c)
      PROVE  \/ ptr' = ptr /\ req' = req
             \/ \E p, k : /\ ptr' = [ptr EXCEPT ![c] = p]
                          /\ req' = [req EXCEPT ![c] = k]
  BY <1>7, Zenon DEF DoFree, Own
<1>8. CASE Next
  <2>1. PICK c \in Chunk :
          \/ DoMalloc(c) \/ DoCalloc(c) \/ DoRealloc(c) \/ DoFree(c)
          \/ DoMemalign(c) \/ DoValloc(c) \/ DoPvalloc(c)
    BY <1>8 DEF Next
  <2>2. CASE DoMemalign(c) \/ DoValloc(c) \/ DoPvalloc(c)
    BY <1>5, <2>2 DEF DoMemalign, DoValloc, DoPvalloc
  <2> QED BY <1>3, <1>4, <1>6, <1>7, <2>1, <2>2
<1> QED BY <1>2, <1>8

\* Every step is one of the abstract heap, or leaves it unchanged.
LEMMA NextIsAbstract ==
  ASSUME HeapInv, HeapInv', [Next]_vars
  PROVE  [Abstract!Next]_<<ptr, Contents>>
<1>1. /\ Satisfied(ptr, req, align, data, sizes)
      /\ Satisfied(ptr', req', align', data', sizes')
  BY DEF HeapInv
<1>2. /\ ptr \in [Chunk -> Nat] /\ req \in [Chunk -> Nat]
      /\ ptr' \in [Chunk -> Nat] /\ req' \in [Chunk -> Nat]
      /\ \A c \in Chunk : ptr[c] = Null => req[c] = 0
      /\ \A c \in Chunk : ptr'[c] = Null => req'[c] = 0
  BY <1>1 DEF Satisfied
<1>3. /\ \A c \in Chunk : Contents[c] = Filled(c, req[c])
      /\ \A c \in Chunk : Contents'[c] = Filled(c, req'[c])
  BY ContentsNow, ContentsThen
<1>4. CASE ptr' = ptr /\ req' = req
  <2>1. Contents' = Contents
    <3>1. \A c \in Chunk : Contents'[c] = Contents[c]
      BY <1>3, <1>4
    <3>2. /\ Contents = [c \in Chunk |-> Contents[c]]
          /\ Contents' = [c \in Chunk |-> Contents'[c]]
      BY DEF Contents
    <3> QED BY <3>1, <3>2
  <2> QED BY <1>4, <2>1
<1>5. ASSUME NEW c \in Chunk, NEW p, NEW n, ptr' = [ptr EXCEPT ![c] = p],
             req' = [req EXCEPT ![c] = n]
      PROVE  [Abstract!Next]_<<ptr, Contents>>
  <2>1. \A e \in Chunk \ {c} : ptr'[e] = ptr[e] /\ req'[e] = req[e]
    BY <1>2, <1>5
  <2>2. \A e \in Chunk \ {c} : ptr'[e] = ptr[e] /\ Contents'[e] = Contents[e]
    BY <1>3, <2>1
  <2>3. Abstract!OthersUntouched(c)
    BY <2>2 DEF Abstract!OthersUntouched, Contents
  <2>4. \A e \in Chunk : DOMAIN Filled(e, req[e]) = 0..(req[e] - 1)
    BY DEF Filled
  <2>5. ASSUME ptr'[c] # Null PROVE Abstract!OwnPlace(c)
    <3>1. ASSUME NEW e \in Chunk \ {c}, ptr[e] # Null
          PROVE  /\ ptr'[c] # ptr[e]
                 /\ Abstract!Extent(ptr'[c], Contents'[c])
                      \intersect Abstract!Extent(ptr[e], Contents[e]) = {}
      <4>1. PICK w : w = Awake(Memory)'
        OBVIOUS
      <4>2. /\ Good(w, BlocksOf(ptr')) /\ w.size = sizes'
        <5>1. Good(w, BlocksOf(ptr'))
          BY <4>1 DEF HeapInv, LiveBlocks, BlocksOf
        <5>2. w = Awake([free |-> freelist', size |-> sizes', end |-> end',
                         brk |-> brk', data |-> data', bad |-> unbacked'])
          BY <4>1 DEF Memory, Awake, Null
        <5> QED BY <5>1, <5>2, AwakeIs
      <4>3. Satisfied(ptr', req', align', data', w.size)
        BY <1>1, <4>2
      <4>4. ptr'[e] = ptr[e] /\ req'[e] = req[e]
        BY <2>1, <3>1
      <4>5. /\ ptr'[c] # ptr'[e]
            /\ {ptr'[c] + i : i \in 0..(req'[c] - 1)}
                 \intersect {ptr'[e] + i : i \in 0..(req'[e] - 1)} = {}
        BY <2>5, <3>1, <4>2, <4>3, <4>4, ExtentsApart
      <4>6. /\ DOMAIN Contents'[c] = 0..(req'[c] - 1)
            /\ DOMAIN Contents[e] = 0..(req[e] - 1)
        BY <1>3 DEF Filled
      <4> QED BY <4>4, <4>5, <4>6 DEF Abstract!Extent
    <3> QED BY <3>1 DEF Abstract!OwnPlace, Contents
  <2>6. CASE ptr[c] = Null /\ ptr'[c] # Null
    <3>1. Abstract!Alloc(c)
      BY <2>3, <2>5, <2>6 DEF Abstract!Alloc
    <3> QED BY <3>1 DEF Abstract!Next
  <2>7. CASE ptr[c] # Null /\ ptr'[c] = Null
    <3>1. Contents'[c] = [i \in {} |-> i]
      <4>1. req'[c] = 0
        BY <1>2, <2>7
      <4>2. Contents'[c] = Filled(c, 0)
        BY <1>3, <4>1
      <4>3. 0..(0 - 1) = {}
        OBVIOUS
      <4>4. Filled(c, 0) = [i \in {} |-> i]
        BY <4>3 DEF Filled
      <4> QED BY <4>2, <4>4
    <3>2. Abstract!Free(c)
      BY <2>3, <2>7, <3>1 DEF Abstract!Free, Abstract!Nothing, Contents
    <3> QED BY <3>2 DEF Abstract!Next
  <2>8. CASE ptr[c] # Null /\ ptr'[c] # Null
    <3>1. \A i \in DOMAIN Contents[c] \intersect DOMAIN Contents'[c] :
            Contents'[c][i] = Contents[c][i]
      <4>1. \A k : \A i \in DOMAIN Filled(c, k) : Filled(c, k)[i] = <<c, i>>
        BY DEF Filled
      <4>2. PICK k : Contents[c] = Filled(c, k)
        BY <1>3
      <4>3. PICK j : Contents'[c] = Filled(c, j)
        BY <1>3
      <4> QED BY <4>1, <4>2, <4>3
    <3>2. Abstract!Realloc(c)
      BY <2>3, <2>5, <2>8, <3>1 DEF Abstract!Realloc, Contents
    <3> QED BY <3>2 DEF Abstract!Next
  <2>9. CASE ptr[c] = Null /\ ptr'[c] = Null
    <3>1. ptr' = ptr /\ req' = req
      BY <1>2, <1>5, <2>9
    <3> QED BY <1>4, <3>1
  <2> QED BY <2>6, <2>7, <2>8, <2>9
<1> QED BY <1>4, <1>5, OneMoves

-------------------------------------------------------------------------------
(* The theorems, for a client that is known to behave. *)

\* free() and malloc() keep the free list sorted by address, with no two
\* neighbours unmerged, and every block whole words, large enough for the
\* entry that links it.
THEOREM ListStaysMerged ==
  ASSUME KnownClient
  PROVE  Spec => []FreeListMerged
BY HeapInvariant, FreeListIs, PTL

\* The blocks of the clients and those on the free list tile the heap: no
\* call of malloc, calloc, realloc, free or memalign loses a byte of it or
\* gives one to two blocks.
THEOREM HeapIsTiled ==
  ASSUME KnownClient
  PROVE  Spec => []NoByteLost
BY HeapInvariant, BlocksAre, PTL

\* And mallinfo() adds up: the bytes it reports as in use are those in the
\* clients' blocks, and what it says could be given back is free.
THEOREM BlocksTileTheHeap ==
  ASSUME KnownClient
  PROVE  Spec => []BlocksTile
<1>1. HeapInv => BlocksTile
  BY BlocksAre, InfoIs DEF BlocksTile
<1> QED BY <1>1, HeapInvariant, PTL

\* Every chunk has the bytes that were asked for, at the alignment that was
\* asked for, and lies within the break until memalign has grown the heap,
\* when the runtime grants every break it is asked for.
THEOREM ChunksAreAsAsked ==
  ASSUME KnownClient, Granting
  PROVE  Spec => []ChunksAsAsked
BY HeapInvariant, AsAsked, PTL

\* A call that moves __malloc_end leaves MALLOC_MINIMUM_GAP bytes up to the
\* stack frame it was made from.
THEOREM GapIsKept ==
  ASSUME KnownClient
  PROVE  Spec => GapKept
<1>1. HeapInv /\ [Next]_vars => [end' # end => end' + Gap <= frame']_vars
  BY NextKeeps DEF GapStep
<1> QED BY <1>1, HeapInvariant, PTL DEF Spec, GapKept

\* The client sees the abstract heap: its chunks are its own, keep what it
\* stored in them, and carry it along when realloc moves them.
THEOREM RefinesHeap ==
  ASSUME KnownClient
  PROVE  Spec => ImplementsHeap
<1>1. Init => Abstract!Init
  <2>1. ASSUME Init, NEW c \in Chunk PROVE Contents[c] = [i \in {} |-> i]
    <3>1. req[c] = 0
      BY <2>1 DEF Init
    <3>2. 0..(0 - 1) = {}
      OBVIOUS
    <3> QED BY <3>1, <3>2 DEF Contents
  <2> QED BY <2>1 DEF Init, Abstract!Init, Abstract!Nothing, Contents
<1>2. HeapInv /\ HeapInv' /\ [Next]_vars => [Abstract!Next]_<<ptr, Contents>>
  BY NextIsAbstract
<1> QED BY <1>1, <1>2, HeapInvariant, PTL
        DEF Spec, ImplementsHeap, Abstract!Spec, Abstract!vars, Contents
===============================================================================
