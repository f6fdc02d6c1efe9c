----------------------------- MODULE ReportProofs -----------------------------
(***************************************************************************)
(* Theorems about the attestation report: what verify() accepts, whatever  *)
(* the parser made of a text, and that a report arrives whole when the     *)
(* parser reads back what was printed.                                     *)
(***************************************************************************)
EXTENDS Report, SequenceTheorems, TLAPS

\* The parser reads back what the printer wrote of a report.
Memories == [0..(SizeOfReport - 1) -> 0..255]
ParserReadsBack == \A len \in 0..ATTEST_DATA_MAXLEN, mem \in Memories :
  LET json == ReportJson([data_len |-> len, mem |-> mem])
  IN  JsonParse(JsonDump(json), FALSE).r = json

-------------------------------------------------------------------------------
(* The layout of the struct *)

\* The fields lie one behind the other.
LEMMA Layout ==
  /\ MDSIZE \in Nat /\ PUBLIC_KEY_SIZE \in Nat /\ SIGNATURE_SIZE \in Nat
  /\ ATTEST_DATA_MAXLEN \in Nat /\ SizeOfReport \in Nat
  /\ EnclaveHash = 0 /\ EnclaveData = MDSIZE
  /\ EnclaveSignature = EnclaveData + ATTEST_DATA_MAXLEN
  /\ SmHash = EnclaveSignature + SIGNATURE_SIZE
  /\ SmKey = SmHash + MDSIZE
  /\ SmSignature = SmKey + PUBLIC_KEY_SIZE
  /\ DevKey = SmSignature + SIGNATURE_SIZE
  /\ SizeOfReport = DevKey + PUBLIC_KEY_SIZE
  /\ EnclaveData \in Nat /\ EnclaveSignature \in Nat /\ SmHash \in Nat
  /\ SmKey \in Nat /\ SmSignature \in Nat /\ DevKey \in Nat
<1>1. /\ MDSIZE \in Nat /\ PUBLIC_KEY_SIZE \in Nat /\ SIGNATURE_SIZE \in Nat
      /\ ATTEST_DATA_MAXLEN \in Nat
  BY SizeAssumption
<1> QED BY <1>1 DEF EnclaveHash, EnclaveData, EnclaveSignature, SmHash, SmKey,
                    SmSignature, DevKey, SizeOfReport

\* The n bytes at an offset are those of another report.
Alike(r, g, at, n) == \A x \in at..(at + n - 1) : r.mem[x] = g.mem[x]

\* BytesAt are these bytes.
LEMMA BytesEqual ==
  ASSUME NEW r, NEW g, NEW at \in Nat, NEW n \in Nat, at + n <= SizeOfReport
  PROVE  BytesAt(r, at, n) = BytesAt(g, at, n) <=> Alike(r, g, at, n)
<1>1. SizeOfReport \in Nat
  BY Layout
<1>2. ASSUME NEW k \in 1..n, NEW s
      PROVE  BytesAt(s, at, n)[k] = s.mem[at + k - 1]
  <2>1. at + k <= SizeOfReport
    BY <1>1
  <2> QED BY <2>1 DEF BytesAt
<1>3. ASSUME BytesAt(r, at, n) = BytesAt(g, at, n),
             NEW x \in at..(at + n - 1)
      PROVE  r.mem[x] = g.mem[x]
  <2>1. PICK k \in 1..n : k = x - at + 1
    OBVIOUS
  <2>2. at + k - 1 = x
    BY <2>1
  <2>3. BytesAt(r, at, n)[k] = r.mem[x] /\ BytesAt(g, at, n)[k] = g.mem[x]
    BY <1>2, <2>2
  <2> QED BY <1>3, <2>3
<1>4. ASSUME \A x \in at..(at + n - 1) : r.mem[x] = g.mem[x]
      PROVE  BytesAt(r, at, n) = BytesAt(g, at, n)
  <2>1. \A k \in 1..n : at + k - 1 \in at..(at + n - 1)
    OBVIOUS
  <2>2. \A k \in 1..n : BytesAt(r, at, n)[k] = BytesAt(g, at, n)[k]
    BY <1>2, <1>4, <2>1
  <2>3. /\ BytesAt(r, at, n) = [k \in 1..n |-> BytesAt(r, at, n)[k]]
        /\ BytesAt(g, at, n) = [k \in 1..n |-> BytesAt(g, at, n)[k]]
    BY DEF BytesAt
  <2> QED BY <2>2, <2>3
<1> QED BY <1>3, <1>4 DEF Alike

-------------------------------------------------------------------------------
(* What verify() accepts *)

\* A report whose signatures hold says what was signed, under the keys of
\* different monitors.
LEMMA AcceptedIsGenuine ==
  ASSUME OneMonitorPerKey, NEW r, CheckSignaturesOnly(r, DeviceKey)
  PROVE  \E g \in Genuine : SaysTheSame(r, g)
<1>1. PICK d \in Genuine : SmMessage(r) = SmMessage(d)
  BY DEF CheckSignaturesOnly, IssuedByDevice
<1>2. PICK g \in Genuine :
        /\ BytesAt(r, SmKey, PUBLIC_KEY_SIZE) =
             BytesAt(g, SmKey, PUBLIC_KEY_SIZE)
        /\ EnclaveMessage(r) = EnclaveMessage(g)
  BY DEF CheckSignaturesOnly, IssuedBySm
<1>3. /\ BytesAt(r, EnclaveHash, MDSIZE) = BytesAt(g, EnclaveHash, MDSIZE)
      /\ r.data_len = g.data_len
      /\ BytesAt(r, EnclaveData, g.data_len) =
           BytesAt(g, EnclaveData, g.data_len)
  BY <1>2 DEF EnclaveMessage
<1>4. PICK n : n = g.data_len
  OBVIOUS
<1>5. n \in Nat /\ n <= ATTEST_DATA_MAXLEN
  BY <1>4, GenuineAssumption, Layout
<1>6. Alike(r, d, SmHash, MDSIZE + PUBLIC_KEY_SIZE)
  <2>1. /\ SmHash \in Nat /\ MDSIZE + PUBLIC_KEY_SIZE \in Nat
        /\ SmHash + (MDSIZE + PUBLIC_KEY_SIZE) <= SizeOfReport
    BY Layout
  <2>2. BytesAt(r, SmHash, MDSIZE + PUBLIC_KEY_SIZE) =
          BytesAt(d, SmHash, MDSIZE + PUBLIC_KEY_SIZE)
    BY <1>1 DEF SmMessage
  <2> QED BY ONLY <2>1, <2>2, BytesEqual
<1>7. BytesAt(r, SmKey, PUBLIC_KEY_SIZE) = BytesAt(d, SmKey, PUBLIC_KEY_SIZE)
  <2>1. /\ SmKey \in Nat /\ PUBLIC_KEY_SIZE \in Nat
        /\ SmKey + PUBLIC_KEY_SIZE <= SizeOfReport
        /\ SmKey..(SmKey + PUBLIC_KEY_SIZE - 1) \subseteq
             SmHash..(SmHash + (MDSIZE + PUBLIC_KEY_SIZE) - 1)
    BY Layout
  <2>2. Alike(r, d, SmKey, PUBLIC_KEY_SIZE)
    BY <1>6, <2>1 DEF Alike
  <2> QED BY ONLY <2>1, <2>2, BytesEqual
<1>8. SmMessage(r) = SmMessage(g)
  BY <1>1, <1>2, <1>7 DEF OneMonitorPerKey
<1>9. /\ Alike(r, g, EnclaveHash, MDSIZE) /\ Alike(r, g, EnclaveData, n)
      /\ Alike(r, g, SmHash, MDSIZE + PUBLIC_KEY_SIZE)
  <2>1. /\ EnclaveHash \in Nat /\ EnclaveData \in Nat /\ SmHash \in Nat
        /\ MDSIZE \in Nat /\ MDSIZE + PUBLIC_KEY_SIZE \in Nat
        /\ EnclaveHash + MDSIZE <= SizeOfReport
        /\ SmHash + (MDSIZE + PUBLIC_KEY_SIZE) <= SizeOfReport
    BY Layout
  <2>2. n \in Nat /\ EnclaveData + n <= SizeOfReport
    BY ONLY <1>5, Layout
  <2>3. BytesAt(r, SmHash, MDSIZE + PUBLIC_KEY_SIZE) =
          BytesAt(g, SmHash, MDSIZE + PUBLIC_KEY_SIZE)
    BY <1>8 DEF SmMessage
  <2>4. BytesAt(r, EnclaveData, n) = BytesAt(g, EnclaveData, n)
    BY <1>3, <1>4
  <2> QED BY ONLY <1>3, <2>1, <2>2, <2>3, <2>4, BytesEqual
<1>10. ASSUME NEW x \in Signed(g)
       PROVE  r.mem[x] = g.mem[x]
  <2>1. x \in (0..(EnclaveData + n - 1)) \union (SmHash..(SmSignature - 1))
    BY <1>4, <1>10 DEF Signed
  <2>2. \/ x \in EnclaveHash..(EnclaveHash + MDSIZE - 1)
        \/ x \in EnclaveData..(EnclaveData + n - 1)
        \/ x \in SmHash..(SmHash + (MDSIZE + PUBLIC_KEY_SIZE) - 1)
    BY ONLY <1>5, <2>1, Layout
  <2> QED BY <1>9, <2>2 DEF Alike
<1> QED BY <1>3, <1>10 DEF SaysTheSame

\* A verdict is about the report that is there.
VerdictInv ==
  /\ state = "new" => verdict = "none"
  /\ verdict = "valid" =>
       Verifies(report, BytesAt(origin, EnclaveHash, MDSIZE),
                BytesAt(origin, SmHash, MDSIZE), DeviceKey)

LEMMA VerdictHolds == Spec => []VerdictInv
<1>1. Init => VerdictInv
  BY DEF Init, VerdictInv
<1>2. VerdictInv /\ [Next]_vars => VerdictInv'
  <2> SUFFICES ASSUME VerdictInv, [Next]_vars PROVE VerdictInv'
    OBVIOUS
  <2>1. CASE FromBytes
    BY <2>1 DEF VerdictInv, FromBytes
  <2>2. CASE Stringfy \/ Damage \/ UNCHANGED vars
    <3>1. UNCHANGED <<report, origin, state, verdict>>
      BY <2>2 DEF Stringfy, Damage, vars
    <3> QED BY <3>1 DEF VerdictInv
  <2>3. CASE FromJson
    <3>1. verdict' = "none"
      BY <2>3 DEF FromJson
    <3> QED BY <3>1 DEF VerdictInv
  <2>4. CASE Verify
    <3>1. /\ UNCHANGED <<report, origin, state>> /\ state # "new"
          /\ verdict' = "valid" =>
               Verifies(report, BytesAt(origin, EnclaveHash, MDSIZE),
                        BytesAt(origin, SmHash, MDSIZE), DeviceKey)
      BY <2>4 DEF Verify
    <3> QED BY <3>1 DEF VerdictInv
  <2> QED BY <2>1, <2>2, <2>3, <2>4 DEF Next
<1> QED BY <1>1, <1>2, PTL DEF Spec

\* Whatever the printer and the parser do, and whatever buffers and texts
\* arrive: what verify() accepts says what a device and its monitor signed, of
\* an enclave and a monitor with the hashes that were expected.
THEOREM OnlyGenuineVerify ==
  ASSUME OneMonitorPerKey
  PROVE  Spec => []VerifiesOnlyGenuine
<1>1. VerdictInv => VerifiesOnlyGenuine
  <2> SUFFICES ASSUME VerdictInv, verdict = "valid"
               PROVE  \E g \in Genuine :
                 /\ SaysTheSame(report, g)
                 /\ BytesAt(g, EnclaveHash, MDSIZE) =
                      BytesAt(origin, EnclaveHash, MDSIZE)
                 /\ BytesAt(g, SmHash, MDSIZE) = BytesAt(origin, SmHash, MDSIZE)
    BY DEF VerifiesOnlyGenuine
  <2>1. /\ BytesAt(report, EnclaveHash, MDSIZE) =
             BytesAt(origin, EnclaveHash, MDSIZE)
        /\ BytesAt(report, SmHash, MDSIZE) = BytesAt(origin, SmHash, MDSIZE)
        /\ CheckSignaturesOnly(report, DeviceKey)
    BY DEF VerdictInv, Verifies
  <2>2. PICK g \in Genuine : SaysTheSame(report, g)
    BY <2>1, AcceptedIsGenuine
  <2>3. PICK n \in Nat : n = g.data_len
    BY GenuineAssumption, Layout
  <2>4. PICK S : S = Signed(g)
    OBVIOUS
  <2>5. S = (0..(EnclaveData + n - 1)) \union (SmHash..(SmSignature - 1))
    BY <2>3, <2>4 DEF Signed
  <2>6. /\ EnclaveHash..(EnclaveHash + MDSIZE - 1) \subseteq S
        /\ SmHash..(SmHash + MDSIZE - 1) \subseteq S
        /\ EnclaveHash \in Nat /\ SmHash \in Nat /\ MDSIZE \in Nat
        /\ EnclaveHash + MDSIZE <= SizeOfReport
        /\ SmHash + MDSIZE <= SizeOfReport
    BY ONLY <2>5, n \in Nat, Layout
  <2>7. /\ Alike(report, g, EnclaveHash, MDSIZE)
        /\ Alike(report, g, SmHash, MDSIZE)
    BY <2>2, <2>4, <2>6 DEF SaysTheSame, Alike
  <2>8. /\ BytesAt(report, EnclaveHash, MDSIZE) =
             BytesAt(g, EnclaveHash, MDSIZE)
        /\ BytesAt(report, SmHash, MDSIZE) = BytesAt(g, SmHash, MDSIZE)
    BY ONLY <2>6, <2>7, BytesEqual
  <2> QED BY <2>1, <2>2, <2>8
<1> QED BY <1>1, VerdictHolds, PTL

-------------------------------------------------------------------------------
(* Hexadecimal digits *)

\* Two digits of a byte are read as the byte.
LEMMA DigitsAreRead ==
  ASSUME NEW b \in 0..255, NEW s, Len(s) = 2, s # <<>>,
         s[1] = HexDigits(b)[1], s[2] = HexDigits(b)[2]
  PROVE  HexByte(s) = b
<1>1. PICK h \in 0..15, l \in 0..15 : h = b \div 16 /\ l = b % 16
  BY SMT
<1>2. b = h * 16 + l
  BY <1>1, SMT
<1>3. \A n \in 0..15 : IsHex(HexOf(n)) /\ HexValue(HexOf(n)) = n
  <2> SUFFICES ASSUME NEW n \in 0..15
               PROVE  IsHex(HexOf(n)) /\ HexValue(HexOf(n)) = n
    OBVIOUS
  <2>1. CASE n < 10
    BY <2>1 DEF IsHex, HexOf, HexValue, HexDigit, Digit
  <2>2. CASE n \in {10, 11, 12, 13, 14, 15}
    <3>1. HexOf(n) = 87 + n
      BY <2>2 DEF HexOf
    <3>2. 97 % 32 = 1 /\ 98 % 32 = 2 /\ 99 % 32 = 3
          /\ 100 % 32 = 4 /\ 101 % 32 = 5 /\ 102 % 32 = 6
      OBVIOUS
    <3> QED BY <2>2, <3>1, <3>2 DEF IsHex, HexValue, HexDigit, Digit
  <2> QED BY <2>1, <2>2
<1>4. s[1] = HexOf(h) /\ s[2] = HexOf(l)
  BY <1>1 DEF HexDigits
<1>5. /\ IsHex(s[1]) /\ HexValue(s[1]) = h
      /\ IsHex(s[2]) /\ HexValue(s[2]) = l
  BY <1>3, <1>4
<1>6. HexByte(s) = HexValue(s[1]) * 16 + HexValue(s[2])
  <2>1. Len(s) > 1
    OBVIOUS
  <2>2. PICK x, y : x = s[1] /\ y = s[2]
    OBVIOUS
  <2>3. IsHex(x) /\ IsHex(y)
    BY <1>5, <2>2
  <2>4. PICK v : v = HexValue(x) * 16 + HexValue(y)
    OBVIOUS
  <2>5. HexByte(s) = v
    <3>1. /\ (IF s # <<>> THEN s[1] ELSE NUL) = x
          /\ (IF Len(s) > 1 THEN s[2] ELSE NUL) = y
      BY ONLY <2>1, <2>2, s # <<>>
    <3>2. x \notin Skipped \union {PLUS} /\ x # MINUS
      BY ONLY <2>3 DEF IsHex, HexDigit, Digit, Skipped, PLUS, MINUS
    <3> QED BY ONLY <2>3, <2>4, <3>1, <3>2 DEF HexByte
  <2> QED BY <2>2, <2>4, <2>5
<1> QED BY <1>2, <1>5, <1>6

\* The text of n bytes has two digits for each.
LEMMA TextOfBytes ==
  ASSUME NEW bytes \in Seq(0..255), NEW hex, hex = BytesToHex(bytes)
  PROVE  /\ hex \in Seq(Int) /\ Len(hex) = 2 * Len(bytes)
         /\ \A k \in 0..(Len(bytes) - 1) :
              HexByte(SubSeq(hex, 2 * k + 1, 2 * k + 2)) = bytes[k + 1]
<1>1. PICK m \in Nat : m = Len(bytes)
  OBVIOUS
<1>2. \A k \in 1..m : bytes[k] \in 0..255
  BY <1>1
<1>3. hex = [n \in 1..(2 * m) |->
               HexDigits(bytes[(n + 1) \div 2])[IF n % 2 = 1 THEN 1 ELSE 2]]
  BY <1>1 DEF BytesToHex
<1>4. ASSUME NEW n \in 1..(2 * m)
      PROVE  hex[n] \in Int
  <2>1. (n + 1) \div 2 \in 1..m
    BY SMT
  <2>2. PICK b \in 0..255 : b = bytes[(n + 1) \div 2]
    BY <1>2, <2>1
  <2>3. b \div 16 \in Int /\ b % 16 \in Int
    BY SMT
  <2>4. HexOf(b \div 16) \in Int /\ HexOf(b % 16) \in Int
    BY <2>3 DEF HexOf
  <2>5. HexDigits(b)[1] \in Int /\ HexDigits(b)[2] \in Int
    BY <2>4 DEF HexDigits
  <2> QED BY <1>3, <2>2, <2>5
<1>5. hex \in Seq(Int) /\ Len(hex) = 2 * m
  <2>1. 2 * m \in Nat
    OBVIOUS
  <2>2. hex \in [1..(2 * m) -> Int]
    <3>1. hex = [n \in 1..(2 * m) |-> hex[n]]
      BY <1>3
    <3> QED BY ONLY <1>4, <3>1
  <2> QED BY ONLY <2>1, <2>2
<1>6. ASSUME NEW k \in 0..(m - 1)
      PROVE  HexByte(SubSeq(hex, 2 * k + 1, 2 * k + 2)) = bytes[k + 1]
  <2>1. PICK i \in 1..(2 * m), j \in 1..(2 * m) :
          i = 2 * k + 1 /\ j = 2 * k + 2
    OBVIOUS
  <2>2. /\ (i + 1) \div 2 = k + 1 /\ i % 2 = 1
        /\ (j + 1) \div 2 = k + 1 /\ j % 2 = 0
    BY <2>1, SMT
  <2>3. PICK b \in 0..255 : b = bytes[k + 1]
    <3>1. k + 1 \in 1..m
      BY ONLY m \in Nat, k \in 0..(m - 1)
    <3> QED BY ONLY <1>2, <3>1
  <2>4. hex[i] = HexDigits(b)[1] /\ hex[j] = HexDigits(b)[2]
    BY <1>3, <2>2, <2>3
  <2>5. PICK s : s = SubSeq(hex, i, j)
    OBVIOUS
  <2>6. /\ i \in 1..(Len(hex) + 1) /\ j \in (i - 1)..Len(hex)
        /\ j - i + 1 = 2 /\ i + 1 - 1 = i /\ i + 2 - 1 = j /\ i <= j
    BY <1>5, <2>1
  <2>7. /\ s \in Seq(Int) /\ Len(s) = 2
        /\ s[1] = hex[i] /\ s[2] = hex[j]
    <3>1. \A x \in i..j : hex[x] \in Int
      BY <1>4
    <3>2. i \in Int /\ j \in Int
      OBVIOUS
    <3>3. /\ s \in Seq(Int) /\ Len(s) = IF i <= j THEN j - i + 1 ELSE 0
          /\ \A x \in 1 .. j - i + 1 : s[x] = hex[i + x - 1]
      BY ONLY <2>5, <3>1, <3>2, SubSeqProperties
    <3>4. Len(s) = 2
      BY ONLY <2>6, <3>3
    <3>5. 1 \in 1 .. j - i + 1 /\ 2 \in 1 .. j - i + 1
      BY ONLY <2>6
    <3>6. s[1] = hex[i + 1 - 1] /\ s[2] = hex[i + 2 - 1]
      BY ONLY <3>3, <3>5
    <3> QED BY ONLY <2>6, <3>3, <3>4, <3>6
  <2>8. s # <<>>
    <3> SUFFICES ASSUME s = <<>> PROVE FALSE
      OBVIOUS
    <3>1. Len(<<>>) = 0
      BY EmptySeq
    <3>2. Len(s) = Len(<<>>)
      OBVIOUS
    <3> QED BY <2>7, <3>1, <3>2
  <2>9. HexByte(s) = b
    BY ONLY <2>3, <2>4, <2>7, <2>8, DigitsAreRead
  <2> QED BY <2>1, <2>3, <2>5, <2>9
<1> QED BY <1>1, <1>5, <1>6

\* What is printed of the n bytes at an offset.
Text(r, at, n) == BytesToHex(BytesAt(r, at, n))

\* A report object, with no exception thrown.
IsStruct(r) ==
  /\ DOMAIN r = {"data_len", "top", "thrown", "mem"}
  /\ r.thrown = FALSE /\ r.mem \in Memories

\* q is r with the n bytes of src from an offset on.
Arrived(q, r, src, at, n) ==
  /\ IsStruct(q) /\ q.data_len = r.data_len
  /\ \A x \in 0..(SizeOfReport - 1) :
       q.mem[x] = IF x \in at..(at + n - 1) THEN src.mem[x] ELSE r.mem[x]

\* Bytes that were written as a text are read as these bytes.
LEMMA TextIsRead ==
  ASSUME NEW r, IsStruct(r), NEW src, src.mem \in Memories,
         NEW at \in Nat, NEW n \in Nat, at + n <= SizeOfReport,
         NEW q, q = HexToBytes(r, at, n, Text(src, at, n))
  PROVE  Arrived(q, r, src, at, n)
<1>1. SizeOfReport \in Nat
  BY Layout
<1>2. PICK bytes : bytes = BytesAt(src, at, n)
  OBVIOUS
<1>3. PICK hex : hex = BytesToHex(bytes)
  OBVIOUS
<1>4. ASSUME NEW k \in 1..n
      PROVE  bytes[k] = src.mem[at + k - 1] /\ bytes[k] \in 0..255
  <2>1. at + k <= SizeOfReport /\ at + k - 1 \in 0..(SizeOfReport - 1)
    BY <1>1
  <2>2. bytes[k] = src.mem[at + k - 1]
    BY <1>2, <2>1 DEF BytesAt
  <2>3. src.mem[at + k - 1] \in 0..255
    BY <2>1 DEF Memories
  <2> QED BY <2>2, <2>3
<1>5. bytes \in Seq(0..255) /\ Len(bytes) = n
  <2>1. bytes = [k \in 1..n |-> bytes[k]]
    BY <1>2 DEF BytesAt
  <2>2. bytes \in [1..n -> 0..255]
    BY ONLY <1>4, <2>1
  <2> QED BY ONLY <2>2, n \in Nat
<1>6. /\ Len(hex) = 2 * n
      /\ \A k \in 0..(n - 1) :
           HexByte(SubSeq(hex, 2 * k + 1, 2 * k + 2)) = bytes[k + 1]
  BY ONLY <1>3, <1>5, TextOfBytes
<1>7. Len(hex) \div 2 + 1 = n + 1
  <2>1. PICK m : m = Len(hex)
    OBVIOUS
  <2>2. m = 2 * n
    BY <1>6, <2>1
  <2>3. m \div 2 = n
    BY ONLY <2>2, n \in Nat
  <2> QED BY <2>1, <2>3
<1>8. /\ DOMAIN q = DOMAIN r /\ q.mem = Written(r.mem, at, n, hex)
      /\ q.data_len = r.data_len /\ q.thrown = FALSE
  <2>1. There(hex) = n + 1
    BY <1>7 DEF There
  <2>2. Smaller(n, There(hex)) = n /\ (n > There(hex)) = FALSE
    BY ONLY <2>1, n \in Nat DEF Smaller
  <2>3. q = HexToBytes(r, at, n, hex) /\ r.thrown = FALSE
    <3>1. r.thrown = FALSE
      BY ONLY IsStruct(r) DEF IsStruct
    <3>2. hex = Text(src, at, n)
      BY <1>2, <1>3 DEF Text
    <3> QED BY <3>1, <3>2
  <2>4. HexToBytes(r, at, n, hex) =
          IF r.thrown THEN r
          ELSE [Filled(r, at, Smaller(n, There(hex)), hex)
                  EXCEPT !.thrown = n > There(hex)]
    BY ONLY DEF HexToBytes
  <2>5. PICK f : f = Filled(r, at, n, hex)
    OBVIOUS
  <2>6. q = [f EXCEPT !.thrown = FALSE]
    BY ONLY <2>2, <2>3, <2>4, <2>5
  <2>7. PICK mem, top : mem = Written(r.mem, at, n, hex)
                        /\ top = Larger(at + n, r.top)
    OBVIOUS
  <2>8. f = [r EXCEPT !.mem = mem, !.top = top]
    BY ONLY <2>5, <2>7 DEF Filled
  <2> QED BY ONLY <2>6, <2>7, <2>8, IsStruct(r) DEF IsStruct
<1>9. ASSUME NEW x \in at..(at + n - 1)
      PROVE  HexByte(Pair(hex, x - at)) = src.mem[x]
  <2>1. PICK k \in 0..(n - 1) : k = x - at
    OBVIOUS
  <2>2. ~(2 * k + 2 > Len(hex))
    BY <1>6
  <2>3. HexByte(Pair(hex, k)) = bytes[k + 1]
    BY <1>6, <2>2 DEF Pair
  <2>4. k + 1 \in 1..n /\ at + (k + 1) - 1 = x
    BY <2>1
  <2>5. bytes[k + 1] = src.mem[x]
    BY <1>4, <2>4
  <2> QED BY <2>1, <2>3, <2>5
<1>10. DOMAIN r.mem = 0..(SizeOfReport - 1)
  BY DEF IsStruct, Memories
<1>11. ASSUME NEW x \in 0..(SizeOfReport - 1)
       PROVE  q.mem[x] = IF x \in at..(at + n - 1) THEN src.mem[x]
                         ELSE r.mem[x]
  <2>1. Written(r.mem, at, n, hex)[x] =
          IF x \in at..(at + n - 1) THEN HexByte(Pair(hex, x - at))
          ELSE r.mem[x]
    BY <1>10 DEF Written
  <2> QED BY <1>8, <1>9, <2>1
<1>12. q.mem \in Memories
  <2>1. q.mem = [x \in 0..(SizeOfReport - 1) |-> q.mem[x]]
    BY <1>8, <1>10 DEF Written
  <2>2. \A x \in 0..(SizeOfReport - 1) :
          src.mem[x] \in 0..255 /\ r.mem[x] \in 0..255
    BY DEF IsStruct, Memories
  <2>3. ASSUME NEW x \in 0..(SizeOfReport - 1)
        PROVE  q.mem[x] \in 0..255
    <3>1. CASE x \in at..(at + n - 1)
      BY <1>11, <2>2, <3>1
    <3>2. CASE x \notin at..(at + n - 1)
      BY <1>11, <2>2, <3>2
    <3> QED BY <3>1, <3>2
  <2> QED BY ONLY <2>1, <2>3 DEF Memories
<1> QED BY <1>8, <1>11, <1>12 DEF Arrived, IsStruct

-------------------------------------------------------------------------------
(* The JSON of a report *)

Names == {"device_pubkey", "enclave", "security_monitor", "data", "datalen",
          "hash", "pubkey", "signature", "error"}

\* The names of the members are different.
LEMMA NamesApart ==
  /\ DOMAIN Name = Names
  /\ \A a, b \in Names : Name[a] = Name[b] => a = b
<1> DEFINE Code == [device_pubkey |-> 100, enclave |-> 101,
                    security_monitor |-> 109, data |-> 97, datalen |-> 98,
                    hash |-> 104, pubkey |-> 107, signature |-> 115,
                    error |-> 111]
<1>1. DOMAIN Name = Names
  BY DEF Name, Names
<1>2. \A a \in Names : Name[a] = <<Code[a]>>
  BY DEF Name, Names
<1>3. \A a, b \in Names : Code[a] = Code[b] => a = b
  BY DEF Names
<1> HIDE DEF Code
<1>4. \A x, y : <<x>> = <<y>> => x = y
  OBVIOUS
<1> QED BY <1>1, <1>2, <1>3, <1>4

\* A member of an object is found under its name.
LEMMA FieldOfObject ==
  ASSUME NEW f, DOMAIN f \subseteq Names, NEW n \in DOMAIN f
  PROVE  Field(Object(f), Name[n]) = f[n]
<1>1. PICK map : map = [k \in {Name[a] : a \in DOMAIN f} |->
                          f[CHOOSE a \in DOMAIN f : Name[a] = k]]
  OBVIOUS
<1>2. Name[n] \in DOMAIN map /\ map[Name[n]] = f[n]
  <2>1. Name[n] \in {Name[a] : a \in DOMAIN f}
    OBVIOUS
  <2>2. PICK b : b = CHOOSE a \in DOMAIN f : Name[a] = Name[n]
    OBVIOUS
  <2>3. b \in DOMAIN f /\ Name[b] = Name[n]
    BY ONLY <2>2, n \in DOMAIN f
  <2>4. b = n
    BY <2>3, NamesApart
  <2>5. map[Name[n]] = f[b]
    BY <1>1, <2>1, <2>2
  <2>6. DOMAIN map = {Name[a] : a \in DOMAIN f}
    BY <1>1
  <2> QED BY <2>1, <2>4, <2>5, <2>6
<1>3. Object(f) = JObject(map)
  BY <1>1 DEF Object
<1>4. JObject(map).type = "OBJECT" /\ JObject(map).map = map
  BY DEF JObject
<1> QED BY <1>2, <1>3, <1>4 DEF Field, ObjectItems

\* What ReadJson looks for is what ReportJson printed.
LEMMA FieldsOfReport ==
  ASSUME NEW r, NEW json, json = ReportJson(r)
  PROVE  /\ Field(json, Name["device_pubkey"]) =
              Hex(r, DevKey, PUBLIC_KEY_SIZE)
         /\ Field(Field(json, Name["security_monitor"]), Name["hash"]) =
              Hex(r, SmHash, MDSIZE)
         /\ Field(Field(json, Name["security_monitor"]), Name["pubkey"]) =
              Hex(r, SmKey, PUBLIC_KEY_SIZE)
         /\ Field(Field(json, Name["security_monitor"]), Name["signature"]) =
              Hex(r, SmSignature, SIGNATURE_SIZE)
         /\ Field(Field(json, Name["enclave"]), Name["hash"]) =
              Hex(r, EnclaveHash, MDSIZE)
         /\ Field(Field(json, Name["enclave"]), Name["datalen"]) =
              JInt(r.data_len)
         /\ Field(Field(json, Name["enclave"]), Name["data"]) =
              Hex(r, EnclaveData, r.data_len)
         /\ Field(Field(json, Name["enclave"]), Name["signature"]) =
              Hex(r, EnclaveSignature, SIGNATURE_SIZE)
<1>1. PICK a, b, c, d, e, g, h :
        /\ a = Hex(r, DevKey, PUBLIC_KEY_SIZE)
        /\ b = Hex(r, SmHash, MDSIZE)
        /\ c = Hex(r, SmKey, PUBLIC_KEY_SIZE)
        /\ d = Hex(r, SmSignature, SIGNATURE_SIZE)
        /\ e = Hex(r, EnclaveHash, MDSIZE)
        /\ g = Hex(r, EnclaveData, r.data_len)
        /\ h = Hex(r, EnclaveSignature, SIGNATURE_SIZE)
  OBVIOUS
<1>2. PICK len : len = JInt(r.data_len)
  OBVIOUS
<1>3. PICK sm, enclave, whole :
        /\ sm = [hash |-> b, pubkey |-> c, signature |-> d]
        /\ enclave = [hash |-> e, datalen |-> len, data |-> g, signature |-> h]
        /\ whole = [device_pubkey |-> a, security_monitor |-> Object(sm),
                    enclave |-> Object(enclave)]
  OBVIOUS
<1>4. json = Object(whole)
  BY ONLY <1>1, <1>2, <1>3, json = ReportJson(r), Zenon
     DEF ReportJson
<1>5. /\ DOMAIN sm = {"hash", "pubkey", "signature"}
      /\ sm["hash"] = b /\ sm["pubkey"] = c /\ sm["signature"] = d
      /\ DOMAIN enclave = {"hash", "datalen", "data", "signature"}
      /\ enclave["hash"] = e /\ enclave["datalen"] = len
      /\ enclave["data"] = g /\ enclave["signature"] = h
  BY ONLY <1>3
<1>6. /\ DOMAIN whole = {"device_pubkey", "security_monitor", "enclave"}
      /\ whole["device_pubkey"] = a
      /\ whole["security_monitor"] = Object(sm)
      /\ whole["enclave"] = Object(enclave)
  BY ONLY <1>3
<1>7. /\ DOMAIN sm \subseteq Names /\ DOMAIN enclave \subseteq Names
      /\ DOMAIN whole \subseteq Names
  BY ONLY <1>5, <1>6 DEF Names
<1>8. /\ Field(json, Name["device_pubkey"]) = a
      /\ Field(json, Name["security_monitor"]) = Object(sm)
      /\ Field(json, Name["enclave"]) = Object(enclave)
  <2>1. \A n \in DOMAIN whole : Field(Object(whole), Name[n]) = whole[n]
    BY ONLY <1>7, FieldOfObject
  <2> QED BY ONLY <2>1, <1>4, <1>6
<1>9. /\ Field(Object(sm), Name["hash"]) = b
      /\ Field(Object(sm), Name["pubkey"]) = c
      /\ Field(Object(sm), Name["signature"]) = d
  <2>1. \A n \in DOMAIN sm : Field(Object(sm), Name[n]) = sm[n]
    BY ONLY <1>7, FieldOfObject
  <2> QED BY ONLY <2>1, <1>5
<1>10. /\ Field(Object(enclave), Name["hash"]) = e
       /\ Field(Object(enclave), Name["datalen"]) = len
       /\ Field(Object(enclave), Name["data"]) = g
       /\ Field(Object(enclave), Name["signature"]) = h
  <2>1. \A n \in DOMAIN enclave : Field(Object(enclave), Name[n]) = enclave[n]
    BY ONLY <1>7, FieldOfObject
  <2> QED BY ONLY <2>1, <1>5
<1> QED BY ONLY <1>1, <1>2, <1>8, <1>9, <1>10

\* The text and the number are what they were made of.
LEMMA ValuesAreRead ==
  /\ \A r, at, n :
       StringValue(Hex(r, at, n)) = Text(r, at, n)
  /\ \A n \in Nat : IntValue(JInt(n)) = n
<1>1. ASSUME NEW r, NEW at, NEW n
      PROVE  StringValue(Hex(r, at, n)) = Text(r, at, n)
  <2>1. PICK s : s = Text(r, at, n)
    OBVIOUS
  <2>2. StringValue(JString(s)) = s
    BY ONLY DEF StringValue, JString
  <2> QED BY ONLY <2>1, <2>2 DEF Hex, Text
<1>2. ASSUME NEW n \in Nat
      PROVE  IntValue(JInt(n)) = n
  BY ONLY DEF IntValue, JInt
<1> QED BY <1>1, <1>2

\* The report that ReadJson makes of what ReportJson printed.
LEMMA ReadsBack ==
  ASSUME NEW r, IsStruct(r), NEW src, src.mem \in Memories,
         src.data_len \in 0..ATTEST_DATA_MAXLEN,
         NEW q, q = ReadJson(r, ReportJson(src))
  PROVE  IsStruct(q) /\ Same(q, src)
<1>1. PICK n \in Nat : n = src.data_len
  BY Layout
<1>2. n <= ATTEST_DATA_MAXLEN
  BY <1>1, Layout
<1>3. PICK json : json = ReportJson(src)
  OBVIOUS
<1>4. /\ StringValue(Field(json, Name["device_pubkey"])) =
           Text(src, DevKey, PUBLIC_KEY_SIZE)
      /\ StringValue(Field(Field(json, Name["security_monitor"]),
                           Name["hash"])) =
           Text(src, SmHash, MDSIZE)
      /\ StringValue(Field(Field(json, Name["security_monitor"]),
                           Name["pubkey"])) =
           Text(src, SmKey, PUBLIC_KEY_SIZE)
      /\ StringValue(Field(Field(json, Name["security_monitor"]),
                           Name["signature"])) =
           Text(src, SmSignature, SIGNATURE_SIZE)
      /\ StringValue(Field(Field(json, Name["enclave"]), Name["hash"])) =
           Text(src, EnclaveHash, MDSIZE)
      /\ IntValue(Field(Field(json, Name["enclave"]), Name["datalen"])) = n
      /\ StringValue(Field(Field(json, Name["enclave"]), Name["data"])) =
           Text(src, EnclaveData, n)
      /\ StringValue(Field(Field(json, Name["enclave"]), Name["signature"])) =
           Text(src, EnclaveSignature, SIGNATURE_SIZE)
  BY ONLY <1>1, <1>3, FieldsOfReport, ValuesAreRead
<1>5. PICK r1, r2, r3, r4, r5, r6, r7 :
        /\ r1 = HexToBytes(r, DevKey, PUBLIC_KEY_SIZE,
                           Text(src, DevKey, PUBLIC_KEY_SIZE))
        /\ r2 = HexToBytes(r1, SmHash, MDSIZE,
                           Text(src, SmHash, MDSIZE))
        /\ r3 = HexToBytes(r2, SmKey, PUBLIC_KEY_SIZE,
                           Text(src, SmKey, PUBLIC_KEY_SIZE))
        /\ r4 = HexToBytes(r3, SmSignature, SIGNATURE_SIZE,
                   Text(src, SmSignature, SIGNATURE_SIZE))
        /\ r5 = HexToBytes(r4, EnclaveHash, MDSIZE,
                           Text(src, EnclaveHash, MDSIZE))
        /\ r6 = SetDataLen(r5, n)
        /\ r7 = HexToBytes(r6, EnclaveData, n,
                           Text(src, EnclaveData, n))
  OBVIOUS
<1>6. q = HexToBytes(r7, EnclaveSignature, SIGNATURE_SIZE,
             Text(src, EnclaveSignature, SIGNATURE_SIZE))
  <2>1. (IF n < 0 THEN WordSpan + n ELSE n) = n
    BY ONLY n \in Nat
  <2>2. q = ReadJson(r, json)
    BY <1>3
  <2> QED BY ONLY <1>4, <1>5, <2>1, <2>2 DEF ReadJson
<1>7. /\ EnclaveHash \in Nat /\ EnclaveData \in Nat /\ EnclaveSignature \in Nat
      /\ SmHash \in Nat /\ SmKey \in Nat /\ SmSignature \in Nat
      /\ DevKey \in Nat /\ MDSIZE \in Nat /\ PUBLIC_KEY_SIZE \in Nat
      /\ SIGNATURE_SIZE \in Nat
      /\ EnclaveHash + MDSIZE <= SizeOfReport
      /\ EnclaveData + n <= SizeOfReport
      /\ EnclaveSignature + SIGNATURE_SIZE <= SizeOfReport
      /\ SmHash + MDSIZE <= SizeOfReport
      /\ SmKey + PUBLIC_KEY_SIZE <= SizeOfReport
      /\ SmSignature + SIGNATURE_SIZE <= SizeOfReport
      /\ DevKey + PUBLIC_KEY_SIZE <= SizeOfReport
  BY ONLY <1>2, n \in Nat, Layout
<1>8. Arrived(r1, r, src, DevKey, PUBLIC_KEY_SIZE)
  BY ONLY <1>5, <1>7, IsStruct(r), src.mem \in Memories, TextIsRead
<1>9. Arrived(r2, r1, src, SmHash, MDSIZE)
  <2>1. IsStruct(r1)
    BY ONLY <1>8 DEF Arrived
  <2> QED BY ONLY <1>5, <1>7, <2>1, src.mem \in Memories, TextIsRead
<1>10. Arrived(r3, r2, src, SmKey, PUBLIC_KEY_SIZE)
  <2>1. IsStruct(r2)
    BY ONLY <1>9 DEF Arrived
  <2> QED BY ONLY <1>5, <1>7, <2>1, src.mem \in Memories, TextIsRead
<1>11. Arrived(r4, r3, src, SmSignature, SIGNATURE_SIZE)
  <2>1. IsStruct(r3)
    BY ONLY <1>10 DEF Arrived
  <2> QED BY ONLY <1>5, <1>7, <2>1, src.mem \in Memories, TextIsRead
<1>12. Arrived(r5, r4, src, EnclaveHash, MDSIZE)
  <2>1. IsStruct(r4)
    BY ONLY <1>11 DEF Arrived
  <2> QED BY ONLY <1>5, <1>7, <2>1, src.mem \in Memories, TextIsRead
<1>13. IsStruct(r6) /\ r6.data_len = n /\ r6.mem = r5.mem
  <2>1. IsStruct(r5)
    BY ONLY <1>12 DEF Arrived
  <2> QED BY ONLY <1>5, <2>1 DEF SetDataLen, IsStruct
<1>14. Arrived(r7, r6, src, EnclaveData, n)
  BY ONLY <1>5, <1>7, <1>13, n \in Nat, src.mem \in Memories, TextIsRead
<1>15. Arrived(q, r7, src, EnclaveSignature, SIGNATURE_SIZE)
  <2>1. IsStruct(r7)
    BY ONLY <1>14 DEF Arrived
  <2> QED BY ONLY <1>6, <1>7, <2>1, src.mem \in Memories, TextIsRead
<1>16. q.data_len = n
  BY ONLY <1>13, <1>14, <1>15 DEF Arrived
<1>17. ASSUME NEW x \in 0..(DevKey - 1),
              x \notin (EnclaveData + n)..(EnclaveSignature - 1)
       PROVE  q.mem[x] = src.mem[x]
  <2>1. x \in 0..(SizeOfReport - 1)
    BY ONLY Layout
  <2>2. /\ q.mem[x] = IF x \in EnclaveSignature..(EnclaveSignature +
                                                  SIGNATURE_SIZE - 1)
                      THEN src.mem[x] ELSE r7.mem[x]
        /\ r7.mem[x] = IF x \in EnclaveData..(EnclaveData + n - 1)
                       THEN src.mem[x] ELSE r6.mem[x]
        /\ r5.mem[x] = IF x \in EnclaveHash..(EnclaveHash + MDSIZE - 1)
                       THEN src.mem[x] ELSE r4.mem[x]
        /\ r4.mem[x] = IF x \in SmSignature..(SmSignature + SIGNATURE_SIZE - 1)
                       THEN src.mem[x] ELSE r3.mem[x]
        /\ r3.mem[x] = IF x \in SmKey..(SmKey + PUBLIC_KEY_SIZE - 1)
                       THEN src.mem[x] ELSE r2.mem[x]
        /\ r2.mem[x] = IF x \in SmHash..(SmHash + MDSIZE - 1)
                       THEN src.mem[x] ELSE r1.mem[x]
    BY ONLY <1>9, <1>10, <1>11, <1>12, <1>14, <1>15, <2>1 DEF Arrived
  <2>3. \/ x \in EnclaveHash..(EnclaveHash + MDSIZE - 1)
        \/ x \in EnclaveData..(EnclaveData + n - 1)
        \/ x \in EnclaveSignature..(EnclaveSignature + SIGNATURE_SIZE - 1)
        \/ x \in SmHash..(SmHash + MDSIZE - 1)
        \/ x \in SmKey..(SmKey + PUBLIC_KEY_SIZE - 1)
        \/ x \in SmSignature..(SmSignature + SIGNATURE_SIZE - 1)
    BY ONLY <1>2, <1>17, n \in Nat, Layout
  <2>4. PICK y, y1, y2, y3, y4, y5, y7, z :
          /\ y = q.mem[x] /\ y1 = r1.mem[x] /\ y2 = r2.mem[x]
          /\ y3 = r3.mem[x] /\ y4 = r4.mem[x] /\ y5 = r5.mem[x]
          /\ y7 = r7.mem[x] /\ z = src.mem[x]
    OBVIOUS
  <2>5. r6.mem[x] = y5
    BY ONLY <1>13, <2>4
  <2> QED BY ONLY <2>2, <2>3, <2>4, <2>5
<1> QED BY ONLY <1>1, <1>15, <1>16, <1>17 DEF Same, Arrived

\* What is printed depends on nothing but the length and the bytes.
LEMMA PrintsItsBytes ==
  ASSUME NEW r, NEW s, s.data_len = r.data_len, s.mem = r.mem
  PROVE  ReportJson(s) = ReportJson(r)
<1>1. \A at, n : BytesAt(s, at, n) = BytesAt(r, at, n)
  BY DEF BytesAt
<1>2. \A at, n : Hex(s, at, n) = Hex(r, at, n)
  BY ONLY <1>1 DEF Hex
<1>3. /\ Hex(s, DevKey, PUBLIC_KEY_SIZE) = Hex(r, DevKey, PUBLIC_KEY_SIZE)
      /\ Hex(s, SmHash, MDSIZE) = Hex(r, SmHash, MDSIZE)
      /\ Hex(s, SmKey, PUBLIC_KEY_SIZE) = Hex(r, SmKey, PUBLIC_KEY_SIZE)
      /\ Hex(s, SmSignature, SIGNATURE_SIZE) =
           Hex(r, SmSignature, SIGNATURE_SIZE)
      /\ Hex(s, EnclaveHash, MDSIZE) = Hex(r, EnclaveHash, MDSIZE)
      /\ Hex(s, EnclaveData, s.data_len) = Hex(r, EnclaveData, r.data_len)
      /\ Hex(s, EnclaveSignature, SIGNATURE_SIZE) =
           Hex(r, EnclaveSignature, SIGNATURE_SIZE)
  BY ONLY <1>2, s.data_len = r.data_len
<1>4. JInt(s.data_len) = JInt(r.data_len)
  BY ONLY s.data_len = r.data_len
<1> QED BY ONLY <1>3, <1>4, Zenon DEF ReportJson

\* Two reports that are the same but for the device's key have the same fields.
LEMMA SameFields ==
  ASSUME NEW r, NEW g, Same(r, g), g.data_len \in 0..ATTEST_DATA_MAXLEN
  PROVE  /\ BytesAt(r, EnclaveHash, MDSIZE) = BytesAt(g, EnclaveHash, MDSIZE)
         /\ BytesAt(r, SmHash, MDSIZE) = BytesAt(g, SmHash, MDSIZE)
         /\ BytesAt(r, SmKey, PUBLIC_KEY_SIZE) =
              BytesAt(g, SmKey, PUBLIC_KEY_SIZE)
         /\ BytesAt(r, SmSignature, SIGNATURE_SIZE) =
              BytesAt(g, SmSignature, SIGNATURE_SIZE)
         /\ BytesAt(r, EnclaveSignature, SIGNATURE_SIZE) =
              BytesAt(g, EnclaveSignature, SIGNATURE_SIZE)
         /\ SmMessage(r) = SmMessage(g) /\ EnclaveMessage(r) = EnclaveMessage(g)
<1>1. PICK n \in Nat : n = g.data_len
  BY Layout
<1>2. n <= ATTEST_DATA_MAXLEN
  BY <1>1, Layout
<1>3. ASSUME NEW at \in Nat, NEW m \in Nat, at + m <= DevKey,
             \/ at + m <= EnclaveData + n
             \/ at >= EnclaveSignature
      PROVE  BytesAt(r, at, m) = BytesAt(g, at, m)
  <2>1. \A x \in at..(at + m - 1) :
          x \in 0..(DevKey - 1) /\ x \notin (EnclaveData + n)..
                                             (EnclaveSignature - 1)
    BY ONLY <1>3, n \in Nat, Layout
  <2>2. Alike(r, g, at, m)
    BY ONLY <1>1, <2>1, Same(r, g) DEF Same, Alike
  <2>3. at + m <= SizeOfReport
    BY ONLY <1>3, Layout
  <2> QED BY ONLY <2>2, <2>3, at \in Nat, m \in Nat, BytesEqual
<1>4. /\ EnclaveHash \in Nat /\ EnclaveData \in Nat /\ EnclaveSignature \in Nat
      /\ SmHash \in Nat /\ SmKey \in Nat /\ SmSignature \in Nat
      /\ MDSIZE \in Nat /\ PUBLIC_KEY_SIZE \in Nat /\ SIGNATURE_SIZE \in Nat
      /\ MDSIZE + PUBLIC_KEY_SIZE \in Nat
      /\ EnclaveHash + MDSIZE <= DevKey
      /\ EnclaveHash + MDSIZE <= EnclaveData + n
      /\ EnclaveData + n <= DevKey
      /\ EnclaveSignature + SIGNATURE_SIZE <= DevKey
      /\ SmHash + MDSIZE <= DevKey /\ SmHash >= EnclaveSignature
      /\ SmHash + (MDSIZE + PUBLIC_KEY_SIZE) <= DevKey
      /\ SmKey + PUBLIC_KEY_SIZE <= DevKey /\ SmKey >= EnclaveSignature
      /\ SmSignature + SIGNATURE_SIZE <= DevKey
      /\ SmSignature >= EnclaveSignature
      /\ EnclaveSignature >= EnclaveSignature
      /\ EnclaveData + n <= EnclaveData + n
  BY ONLY <1>2, n \in Nat, Layout
<1>5. /\ BytesAt(r, EnclaveHash, MDSIZE) = BytesAt(g, EnclaveHash, MDSIZE)
      /\ BytesAt(r, SmHash, MDSIZE) = BytesAt(g, SmHash, MDSIZE)
      /\ BytesAt(r, SmKey, PUBLIC_KEY_SIZE) =
           BytesAt(g, SmKey, PUBLIC_KEY_SIZE)
      /\ BytesAt(r, SmSignature, SIGNATURE_SIZE) =
           BytesAt(g, SmSignature, SIGNATURE_SIZE)
  BY ONLY <1>3, <1>4
<1>6. /\ BytesAt(r, EnclaveSignature, SIGNATURE_SIZE) =
           BytesAt(g, EnclaveSignature, SIGNATURE_SIZE)
      /\ BytesAt(r, EnclaveData, n) = BytesAt(g, EnclaveData, n)
      /\ BytesAt(r, SmHash, MDSIZE + PUBLIC_KEY_SIZE) =
           BytesAt(g, SmHash, MDSIZE + PUBLIC_KEY_SIZE)
  BY ONLY <1>3, <1>4, n \in Nat
<1>7. r.data_len = n
  BY <1>1 DEF Same
<1>8. SmMessage(r) = SmMessage(g) /\ EnclaveMessage(r) = EnclaveMessage(g)
  BY ONLY <1>1, <1>5, <1>6, <1>7 DEF SmMessage, EnclaveMessage
<1> QED BY <1>5, <1>6, <1>8

\* A genuine report is accepted, whatever bytes the data not in use has.
LEMMA GenuineIsAccepted ==
  ASSUME NEW r, NEW g \in Genuine, Same(r, g)
  PROVE  Verifies(r, BytesAt(g, EnclaveHash, MDSIZE),
                  BytesAt(g, SmHash, MDSIZE), DeviceKey)
<1>1. g.data_len \in 0..ATTEST_DATA_MAXLEN
  BY GenuineAssumption
<1>2. /\ IssuedByDevice(DeviceKey, SmMessage(g),
                        BytesAt(g, SmSignature, SIGNATURE_SIZE))
      /\ IssuedBySm(BytesAt(g, SmKey, PUBLIC_KEY_SIZE), EnclaveMessage(g),
                    BytesAt(g, EnclaveSignature, SIGNATURE_SIZE))
  BY DEF IssuedByDevice, IssuedBySm, Forms
<1> QED BY ONLY <1>1, <1>2, Same(r, g), SameFields
           DEF Verifies, CheckSignaturesOnly

-------------------------------------------------------------------------------
(* A report arrives whole *)

\* While nothing was changed the report is the one it was, and a text is the
\* text of it.
WholeInv ==
  /\ damage \in Nat /\ origin \in Genuine
  /\ state = "new" => IsStruct(report) /\ verdict = "none"
  /\ damage = 0 =>
       /\ state \in {"new", "loaded"} /\ verdict # "invalid"
       /\ state = "new" => text = NoText
       /\ state = "loaded" =>
            /\ IsStruct(report) /\ Same(report, origin)
            /\ text # NoText => text = JsonDump(ReportJson(report))

\* It holds at the start.
LEMMA WholeInit == Init => WholeInv
<1> SUFFICES ASSUME Init PROVE WholeInv
  OBVIOUS
<1>1. PICK b \in {0, 255} :
        report = [data_len |-> 0, top |-> 0, thrown |-> FALSE,
                  mem |-> [x \in 0..(SizeOfReport - 1) |-> b]]
  BY DEF Init
<1>2. [x \in 0..(SizeOfReport - 1) |-> b] \in Memories
  BY DEF Memories
<1>3. IsStruct(report)
  BY <1>1, <1>2 DEF IsStruct
<1> QED BY <1>3 DEF Init, WholeInv

\* Copying the report that was written keeps it; another buffer is a change.
LEMMA WholeFromBytes == ASSUME WholeInv, FromBytes PROVE WholeInv'
<1>1. PICK bin \in {origin} \union OtherReports :
        /\ damage' = IF bin = origin THEN damage ELSE damage + 1
        /\ report' = [report EXCEPT !.data_len = bin.data_len, !.mem = bin.mem]
  BY DEF FromBytes
<1>2. /\ state = "new" /\ state' = "loaded"
      /\ UNCHANGED <<text, origin, verdict>>
  BY DEF FromBytes
<1>3. /\ IsStruct(report) /\ verdict = "none" /\ origin \in Genuine
      /\ damage \in Nat
  BY <1>2 DEF WholeInv
<1>4. CASE bin # origin
  <2>1. damage' \in Nat /\ damage' # 0
    BY <1>1, <1>3, <1>4
  <2> QED BY <1>2, <1>3, <2>1 DEF WholeInv
<1>5. CASE bin = origin
  <2>1. origin.mem \in Memories
    BY <1>3, GenuineAssumption DEF Memories
  <2>2. /\ DOMAIN report' = DOMAIN report /\ report'.thrown = report.thrown
        /\ report'.data_len = origin.data_len /\ report'.mem = origin.mem
    BY ONLY <1>1, <1>3, <1>5 DEF IsStruct
  <2>3. IsStruct(report)' /\ Same(report, origin)'
    BY ONLY <1>2, <1>3, <2>1, <2>2 DEF IsStruct, Same, Memories
  <2> QED BY <1>1, <1>2, <1>3, <1>5, <2>3 DEF WholeInv
<1> QED BY <1>4, <1>5

\* Printing keeps it: the length fits, so the text is of the report.
LEMMA WholeStringfy == ASSUME WholeInv, Stringfy PROVE WholeInv'
<1>1. /\ state = "loaded" /\ text' = Printed(report)
      /\ UNCHANGED <<report, damage, origin, state, verdict>>
  BY DEF Stringfy
<1>2. ASSUME damage = 0
      PROVE  text' = JsonDump(ReportJson(report))
  <2>1. Same(report, origin) /\ origin \in Genuine
    BY <1>1, <1>2 DEF WholeInv
  <2>2. ~(report.data_len > ATTEST_DATA_MAXLEN)
    BY <2>1, GenuineAssumption, Layout DEF Same
  <2> QED BY <1>1, <2>2 DEF Printed
<1> QED BY <1>1, <1>2 DEF WholeInv

\* A change ends what it says.
LEMMA WholeDamage == ASSUME WholeInv, Damage PROVE WholeInv'
<1>1. damage' = damage + 1 /\ UNCHANGED <<report, origin, state, verdict>>
  BY DEF Damage
<1>2. damage \in Nat
  BY DEF WholeInv
<1>3. damage' \in Nat /\ damage' # 0
  BY <1>1, <1>2
<1> QED BY <1>1, <1>3 DEF WholeInv

\* Reading keeps it, whatever bytes the object had before.
LEMMA WholeFromJson ==
  ASSUME ParserReadsBack, WholeInv, FromJson
  PROVE  WholeInv'
<1>1. PICK old \in {report.mem, [x \in DOMAIN report.mem |-> 0]} :
        report' = Read([report EXCEPT !.mem = old], text)
  BY DEF FromJson
<1>2. /\ text # NoText /\ state = "loaded"
      /\ state' = IF report'.thrown THEN "thrown" ELSE "loaded"
      /\ verdict' = "none" /\ text' = NoText /\ UNCHANGED <<damage, origin>>
  BY DEF FromJson
<1>3. ASSUME damage = 0
      PROVE  state' = "loaded" /\ IsStruct(report)' /\ Same(report, origin)'
  <2>1. /\ IsStruct(report) /\ Same(report, origin) /\ origin \in Genuine
        /\ text = JsonDump(ReportJson(report))
    BY <1>2, <1>3 DEF WholeInv
  <2>2. report.mem \in Memories /\ report.data_len \in 0..ATTEST_DATA_MAXLEN
    BY <2>1, GenuineAssumption DEF IsStruct, Same
  <2>3. JsonParse(text, FALSE).r = ReportJson(report)
    <3>1. PICK s : s = [data_len |-> report.data_len, mem |-> report.mem]
      OBVIOUS
    <3>2. s.data_len = report.data_len /\ s.mem = report.mem
      BY <3>1
    <3>3. ReportJson(s) = ReportJson(report)
      BY ONLY <3>2, PrintsItsBytes
    <3>4. JsonParse(JsonDump(ReportJson(s)), FALSE).r = ReportJson(s)
      BY ONLY <2>2, <3>1, ParserReadsBack DEF ParserReadsBack
    <3> QED BY ONLY <2>1, <3>3, <3>4
  <2>4. PICK r : r = [report EXCEPT !.mem = old]
    OBVIOUS
  <2>5. old \in Memories
    <3>1. [x \in DOMAIN report.mem |-> 0] \in Memories
      BY <2>2 DEF Memories
    <3> QED BY <2>2, <3>1
  <2>6. IsStruct(r)
    BY ONLY <2>1, <2>4, <2>5 DEF IsStruct
  <2>7. report' = ReadJson(r, ReportJson(report))
    BY ONLY <1>1, <2>3, <2>4 DEF Read
  <2>8. PICK q : q = report'
    OBVIOUS
  <2>9. IsStruct(q) /\ Same(q, report)
    BY ONLY <2>2, <2>6, <2>7, <2>8, ReadsBack
  <2>10. Same(q, origin)
    BY ONLY <2>1, <2>9 DEF Same
  <2>11. state' = "loaded"
    BY ONLY <1>2, <2>8, <2>9 DEF IsStruct
  <2> QED BY ONLY <1>2, <2>8, <2>9, <2>10, <2>11
          DEF IsStruct, Same, Memories
<1> QED BY <1>2, <1>3 DEF WholeInv

\* Verifying keeps it: the report is accepted.
LEMMA WholeVerify == ASSUME WholeInv, Verify PROVE WholeInv'
<1>1. /\ state = "loaded" /\ UNCHANGED <<report, text, damage, origin, state>>
      /\ verdict' = IF Verifies(report, BytesAt(origin, EnclaveHash, MDSIZE),
                                BytesAt(origin, SmHash, MDSIZE), DeviceKey)
                    THEN "valid" ELSE "invalid"
  BY DEF Verify
<1>2. ASSUME damage = 0
      PROVE  verdict' = "valid"
  <2>1. Same(report, origin) /\ origin \in Genuine
    BY <1>1, <1>2 DEF WholeInv
  <2> QED BY ONLY <1>1, <2>1, GenuineIsAccepted
<1> QED BY <1>1, <1>2 DEF WholeInv

\* A report that nothing was changed in is the same report and is valid, into a
\* new object or a used one, when the parser reads back what was printed.
THEOREM ArrivesIntact ==
  ASSUME ParserReadsBack
  PROVE  Spec => []ArrivesWhole
<1>1. WholeInv /\ [Next]_vars => WholeInv'
  <2>1. ASSUME WholeInv, UNCHANGED vars PROVE WholeInv'
    BY <2>1 DEF vars, WholeInv, IsStruct, Same, Memories
  <2> QED BY <2>1, WholeFromBytes, WholeStringfy, WholeDamage, WholeFromJson,
             WholeVerify DEF Next
<1>2. WholeInv => ArrivesWhole
  BY DEF WholeInv, ArrivesWhole
<1> QED BY <1>1, <1>2, WholeInit, PTL DEF Spec
===============================================================================
