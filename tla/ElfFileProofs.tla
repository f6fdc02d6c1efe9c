----------------------------- MODULE ElfFileProofs -----------------------------
(***************************************************************************)
(* Proofs about ElfFile, for headers, fields and files of any size.        *)
(***************************************************************************)
EXTENDS ElfFile, WellFoundedInduction, TLAPS

USE WidthAssumption, HeaderAssumption

-------------------------------------------------------------------------------
(* Arithmetic. *)

\* A sum of two words that is not below the first one did not wrap.
LEMMA NoWrapBack ==
  ASSUME NEW m \in Nat, NEW a \in 0..(m - 1), NEW n \in 0..(m - 1)
  PROVE  /\ (a + n) % m \in 0..(m - 1)
         /\ (a + n) % m >= a <=> a + n < m
         /\ a + n < m => (a + n) % m = a + n
<1>1. m > 0
  OBVIOUS
<1>2. CASE a + n < m
  <2>1. (a + n) % m = a + n
    BY <1>1, <1>2, SMT
  <2> QED BY <2>1, <1>2
<1>3. CASE a + n >= m
  <2>1. (a + n) % m = a + n - m
    BY <1>1, <1>3, SMT
  <2> QED BY <2>1, <1>3
<1> QED BY <1>2, <1>3

\* An entry of a table ends where the table does, or before.
LEMMA EntryInTable ==
  ASSUME NEW n \in Nat, NEW d \in Nat, NEW i \in 0..(n - 1)
  PROVE  i * d \in Nat /\ i * d + d <= n * d
<1>1. PICK k \in Nat : n = i + 1 + k
  <2>1. n - i - 1 \in Nat /\ n = i + 1 + (n - i - 1)
    OBVIOUS
  <2> QED BY <2>1
<1>2. i * d \in Nat /\ k * d \in Nat
  BY SMT
<1>3. n * d = i * d + d + k * d
  BY <1>1, SMT
<1> QED BY <1>2, <1>3

\* A set of offsets has a smallest one.
LEMMA MinIsLeast ==
  ASSUME NEW S, S \subseteq Nat, S # {}
  PROVE  Min(S) \in S /\ \A y \in S : Min(S) <= y
<1>1. \E x \in S : \A y \in S : ~ (<<y, x>> \in OpToRel(<, Nat))
  BY WFMin, NatLessThanWellFounded
<1>2. \E x \in S : \A y \in S : x <= y
  <2>1. PICK x \in S : \A y \in S : ~ (<<y, x>> \in OpToRel(<, Nat))
    BY <1>1
  <2>2. ASSUME NEW y \in S PROVE x <= y
    <3>1. ~(y < x)
      BY <2>1 DEF OpToRel
    <3> QED BY <3>1
  <2> QED BY <2>2
<1> QED BY <1>2 DEF Min

-------------------------------------------------------------------------------
(* What a file that elf_newFile accepts is like. *)

\* The fields of a file, as the assumption on Files gives them.
LEMMA Fields ==
  ASSUME NEW f \in Files
  PROVE  /\ f.size \in 0..(Span64 - 1) /\ f.nul \subseteq Bytes(0, f.size)
         /\ f.phnum \in Nat /\ f.shnum \in Nat /\ f.shstrndx \in Nat
         /\ \A i \in 0..(f.phnum - 1) : /\ Ph(f, i).off \in 0..(Span64 - 1)
                                        /\ Ph(f, i).filesz \in 0..(Span64 - 1)
         /\ \A s \in 0..(f.shnum - 1) : /\ Sh(f, s).off \in 0..(Span64 - 1)
                                        /\ Sh(f, s).size \in 0..(Span64 - 1)
                                        /\ Sh(f, s).name \in 0..(Span64 - 1)
<1>1. FieldWidths(f)
  BY FilesAssumption
<1> QED BY <1>1 DEF FieldWidths

\* The tables of a file of either class begin and end in words of that class.
LEMMA Tables ==
  ASSUME NEW f \in Files, f.class \in {32, 64}
  PROVE  LET span == IF f.class = 32 THEN Span32 ELSE Span64 IN
         /\ f.phoff \in 0..(span - 1) /\ f.shoff \in 0..(span - 1)
         /\ f.phentsize * f.phnum \in 0..(span - 1)
         /\ f.shentsize * f.shnum \in 0..(span - 1)
<1>1. FieldWidths(f)
  BY FilesAssumption
<1>2. CASE f.class = 32
  BY <1>1, <1>2 DEF FieldWidths
<1>3. CASE f.class = 64
  <2>1. f.class # 32
    BY <1>3
  <2> QED BY <1>1, <1>3, <2>1 DEF FieldWidths
<1> QED BY <1>2, <1>3

\* The test of a table accepts only tables that lie in the file, and all of
\* them in a file whose size is a word.
LEMMA TableFits ==
  ASSUME NEW f \in Files, NEW span \in Nat,
         NEW off \in 0..(span - 1), NEW n \in 0..(span - 1)
  PROVE  /\ TableOK(f, off, n, span) => off + n <= f.size
         /\ f.size < span /\ off + n <= f.size => TableOK(f, off, n, span)
<1>1. f.size \in Nat
  BY Fields
<1>2. /\ (off + n) % span \in 0..(span - 1)
      /\ (off + n) % span >= off <=> off + n < span
      /\ off + n < span => (off + n) % span = off + n
  BY NoWrapBack
<1> DEFINE e == (off + n) % span
<1>3. TableOK(f, off, n, span) <=> f.size >= e /\ e >= off
  BY DEF TableOK
<1> HIDE DEF e
<1> QED BY <1>1, <1>2, <1>3 DEF e

\* An entry of a table in the file.
LEMMA EntryInFile ==
  ASSUME NEW size \in Nat, NEW off \in Nat, NEW n \in Nat, NEW d \in Nat,
         off + d * n <= size, NEW i \in 0..(n - 1)
  PROVE  Bytes(off + i * d, d) \subseteq Bytes(0, size)
<1>1. i * d \in Nat /\ i * d + d <= n * d
  BY EntryInTable
<1>2. d * n = n * d /\ n * d \in Nat
  BY SMT
<1> QED BY <1>1, <1>2 DEF Bytes

\* elf_newFile tells the class, and everything the accessors read of the header
\* and the tables is in the file.
LEMMA Accepted ==
  ASSUME NEW f \in Files, NewFile(f) # 0
  PROVE  /\ Header(NewFile(f)) \subseteq Bytes(0, f.size)
         /\ f.shstrndx \in 0..(f.shnum - 1)
         /\ \A s \in 0..(f.shnum - 1) :
              Section(f, NewFile(f), s) \subseteq Bytes(0, f.size)
         /\ \A i \in 0..(f.phnum - 1) :
              ProgramHeader(f, NewFile(f), i) \subseteq Bytes(0, f.size)
<1> DEFINE c == NewFile(f)
<1>1. /\ c = CheckFile(f) /\ c # 0
      /\ CheckProgramHeaderTable(f, c) /\ CheckSectionTable(f, c)
  BY DEF NewFile
<1>2. \/ c = 32 /\ CheckFile32(f)
      \/ c = 64 /\ CheckFile64(f)
  BY <1>1 DEF CheckFile
<1>3. /\ f.size \in Nat /\ f.shnum \in Nat /\ f.phnum \in Nat
      /\ f.shstrndx \in Nat
  BY Fields
<1> HIDE DEF c
<1>4. CASE c = 32 /\ CheckFile32(f)
  <2>1. /\ f.size >= Ehdr32 /\ f.class = 32 /\ f.shstrndx < f.shnum
        /\ f.phentsize = Phdr32 /\ f.shentsize = Shdr32
    BY <1>4 DEF CheckFile32, HeaderOK
  <2>2. /\ f.phoff \in 0..(Span32 - 1) /\ f.shoff \in 0..(Span32 - 1)
        /\ f.phentsize * f.phnum \in 0..(Span32 - 1)
        /\ f.shentsize * f.shnum \in 0..(Span32 - 1)
    BY Tables, <2>1
  <2>3. /\ TableOK(f, f.phoff, f.phentsize * f.phnum, Span32)
        /\ TableOK(f, f.shoff, f.shentsize * f.shnum, Span32)
    BY <1>1, <1>4 DEF CheckProgramHeaderTable, CheckSectionTable,
                      CheckProgramHeaderTable32, CheckSectionTable32
  <2>4. /\ f.phoff + Phdr32 * f.phnum <= f.size
        /\ f.shoff + Shdr32 * f.shnum <= f.size
    BY <2>1, <2>2, <2>3, TableFits
  <2>5. Header(c) \subseteq Bytes(0, f.size)
    BY <1>3, <1>4, <2>1 DEF Header, Header32, Bytes
  <2>6. ASSUME NEW s \in 0..(f.shnum - 1)
        PROVE  Section(f, c, s) \subseteq Bytes(0, f.size)
    <3>1. f.shoff \in Nat /\ Shdr32 \in Nat
      BY <2>2
    <3>2. Bytes(f.shoff + s * Shdr32, Shdr32) \subseteq Bytes(0, f.size)
      BY <1>3, <2>4, <3>1, EntryInFile
    <3>3. Section32(f, s) \subseteq Bytes(0, f.size)
      BY <3>2 DEF Section32
    <3> QED BY <3>3, <2>5, <1>4 DEF Section
  <2>7. ASSUME NEW i \in 0..(f.phnum - 1)
        PROVE  ProgramHeader(f, c, i) \subseteq Bytes(0, f.size)
    <3>1. f.phoff \in Nat /\ Phdr32 \in Nat
      BY <2>2
    <3>2. Bytes(f.phoff + i * Phdr32, Phdr32) \subseteq Bytes(0, f.size)
      BY <1>3, <2>4, <3>1, EntryInFile
    <3>3. ProgramHeader32(f, i) \subseteq Bytes(0, f.size)
      BY <3>2 DEF ProgramHeader32
    <3> QED BY <3>3, <2>5, <1>4 DEF ProgramHeader
  <2> QED BY <1>3, <2>1, <2>5, <2>6, <2>7 DEF c
<1>5. CASE c = 64 /\ CheckFile64(f)
  <2>1. /\ f.size >= Ehdr64 /\ f.class = 64 /\ f.shstrndx < f.shnum
        /\ f.phentsize = Phdr64 /\ f.shentsize = Shdr64
    BY <1>5 DEF CheckFile64, HeaderOK
  <2>2. /\ f.phoff \in 0..(Span64 - 1) /\ f.shoff \in 0..(Span64 - 1)
        /\ f.phentsize * f.phnum \in 0..(Span64 - 1)
        /\ f.shentsize * f.shnum \in 0..(Span64 - 1)
    BY Tables, <2>1
  <2>3. /\ TableOK(f, f.phoff, f.phentsize * f.phnum, Span64)
        /\ TableOK(f, f.shoff, f.shentsize * f.shnum, Span64)
    BY <1>1, <1>5 DEF CheckProgramHeaderTable, CheckSectionTable,
                      CheckProgramHeaderTable64, CheckSectionTable64
  <2>4. /\ f.phoff + Phdr64 * f.phnum <= f.size
        /\ f.shoff + Shdr64 * f.shnum <= f.size
    BY <2>1, <2>2, <2>3, TableFits
  <2>5. Header(c) \subseteq Bytes(0, f.size)
    BY <1>3, <1>5, <2>1 DEF Header, Header64, Bytes
  <2>6. ASSUME NEW s \in 0..(f.shnum - 1)
        PROVE  Section(f, c, s) \subseteq Bytes(0, f.size)
    <3>1. f.shoff \in Nat /\ Shdr64 \in Nat
      BY <2>2
    <3>2. Bytes(f.shoff + s * Shdr64, Shdr64) \subseteq Bytes(0, f.size)
      BY <1>3, <2>4, <3>1, EntryInFile
    <3>3. Section64(f, s) \subseteq Bytes(0, f.size)
      BY <3>2 DEF Section64
    <3> QED BY <3>3, <2>5, <1>5 DEF Section
  <2>7. ASSUME NEW i \in 0..(f.phnum - 1)
        PROVE  ProgramHeader(f, c, i) \subseteq Bytes(0, f.size)
    <3>1. f.phoff \in Nat /\ Phdr64 \in Nat
      BY <2>2
    <3>2. Bytes(f.phoff + i * Phdr64, Phdr64) \subseteq Bytes(0, f.size)
      BY <1>3, <2>4, <3>1, EntryInFile
    <3>3. ProgramHeader64(f, i) \subseteq Bytes(0, f.size)
      BY <3>2 DEF ProgramHeader64
    <3> QED BY <3>3, <2>5, <1>5 DEF ProgramHeader
  <2> QED BY <1>3, <2>1, <2>5, <2>6, <2>7 DEF c
<1> QED BY <1>2, <1>4, <1>5

-------------------------------------------------------------------------------
(* What the accessors read and return. *)

\* A section that elf_getSection returns lies in the file.
LEMMA SectionIn ==
  ASSUME NEW f \in Files, NewFile(f) # 0, NEW s \in Nat
  PROVE  LET r == GetSection(f, NewFile(f), s) IN
         /\ r.reads \subseteq Bytes(0, f.size)
         /\ r.ptr # NullPtr =>
              /\ s \in 0..(f.shnum - 1) /\ Sh(f, s).size > 0
              /\ r.ptr = Sh(f, s).off
              /\ r.ptr \in Nat /\ r.ptr + Sh(f, s).size <= f.size
<1> DEFINE c == NewFile(f)  r == GetSection(f, c, s)
<1>1. /\ Header(c) \subseteq Bytes(0, f.size)
      /\ \A t \in 0..(f.shnum - 1) : Section(f, c, t) \subseteq Bytes(0, f.size)
  BY Accepted
<1>2. /\ f.shnum \in Nat /\ f.size \in 0..(Span64 - 1)
      /\ \A t \in 0..(f.shnum - 1) : /\ Sh(f, t).off \in 0..(Span64 - 1)
                                     /\ Sh(f, t).size \in 0..(Span64 - 1)
  BY Fields
<1> HIDE DEF c
<1>3. CASE s = 0 \/ s >= f.shnum
  <2>1. r = Result(NullPtr, Header(c))
    BY <1>3 DEF GetSection
  <2>2. r.ptr = NullPtr /\ r.reads = Header(c)
    BY <2>1 DEF Result
  <2> HIDE DEF r
  <2> QED BY <1>1, <2>2 DEF r, c
<1>4. CASE ~(s = 0 \/ s >= f.shnum)
  <2> DEFINE e == (Sh(f, s).off + Sh(f, s).size) % Span64
  <2>1. s \in 0..(f.shnum - 1)
    BY <1>2, <1>4
  <2>2. /\ Sh(f, s).off \in 0..(Span64 - 1)
        /\ Sh(f, s).size \in 0..(Span64 - 1)
    BY <1>2, <2>1
  <2>3. /\ e >= Sh(f, s).off <=> Sh(f, s).off + Sh(f, s).size < Span64
        /\ Sh(f, s).off + Sh(f, s).size < Span64 =>
             e = Sh(f, s).off + Sh(f, s).size
        /\ e \in 0..(Span64 - 1)
    BY <2>2, NoWrapBack
  <2>4. /\ r.reads = Section(f, c, s)
        /\ r.ptr = IF Sh(f, s).size = 0 \/ e > f.size \/ e < Sh(f, s).off
                   THEN NullPtr ELSE Sh(f, s).off
    BY <1>4 DEF GetSection, Result
  <2> HIDE DEF e, r
  <2>5. r.reads \subseteq Bytes(0, f.size)
    BY <1>1, <2>1, <2>4
  <2>6. ASSUME r.ptr # NullPtr
        PROVE  /\ r.ptr = Sh(f, s).off /\ Sh(f, s).size > 0
               /\ r.ptr \in Nat /\ r.ptr + Sh(f, s).size <= f.size
    BY <1>2, <2>2, <2>3, <2>4, <2>6
  <2> QED BY <2>1, <2>5, <2>6 DEF r, c
<1> QED BY <1>3, <1>4 DEF c

\* A string table lies in the file and ends in a NUL.
LEMMA StringTableIn ==
  ASSUME NEW f \in Files, NewFile(f) # 0, NEW s \in Nat
  PROVE  LET r == GetStringTable(f, NewFile(f), s) IN
         /\ r.reads \subseteq Bytes(0, f.size)
         /\ r.ptr # NullPtr =>
              /\ Sh(f, s).size > 0 /\ Sh(f, s).size \in Nat /\ r.ptr \in Nat
              /\ r.ptr + Sh(f, s).size <= f.size
              /\ r.ptr + Sh(f, s).size - 1 \in f.nul
<1> DEFINE c == NewFile(f)
           table == GetSection(f, c, s)
           r == GetStringTable(f, c, s)
           lastByte == table.ptr + Sh(f, s).size - 1
<1>1. /\ table.reads \subseteq Bytes(0, f.size)
      /\ table.ptr # NullPtr =>
           /\ s \in 0..(f.shnum - 1) /\ Sh(f, s).size > 0
           /\ table.ptr \in Nat /\ table.ptr + Sh(f, s).size <= f.size
  BY SectionIn
<1>2. /\ f.size \in Nat
      /\ \A t \in 0..(f.shnum - 1) : Sh(f, t).size \in Nat
  BY Fields
<1>3. CASE table.ptr = NullPtr \/ Sh(f, s).type # "STRTAB"
  <2>1. r = Result(NullPtr, table.reads)
    BY <1>3 DEF GetStringTable
  <2> QED BY <1>1, <2>1 DEF Result
<1>4. CASE ~(table.ptr = NullPtr \/ Sh(f, s).type # "STRTAB")
  <2>1. r = Result(IF lastByte \in f.nul THEN table.ptr ELSE NullPtr,
                   table.reads \union {lastByte})
    BY <1>4 DEF GetStringTable
  <2>2. /\ r.reads = table.reads \union {lastByte}
        /\ r.ptr # NullPtr => r.ptr = table.ptr /\ lastByte \in f.nul
    BY <2>1 DEF Result
  <2> HIDE DEF table, r, c
  <2>3. /\ Sh(f, s).size \in Nat /\ Sh(f, s).size > 0
        /\ table.ptr \in Nat /\ table.ptr + Sh(f, s).size <= f.size
    BY <1>1, <1>2, <1>4
  <2>4. lastByte \in Bytes(0, f.size)
    BY <1>2, <2>3 DEF Bytes
  <2>5. r.reads \subseteq Bytes(0, f.size)
    BY <1>1, <2>2, <2>4
  <2> QED BY <2>2, <2>3, <2>5 DEF c, r
<1> QED BY <1>3, <1>4

\* A string with a NUL at or behind its start ends there or before.
LEMMA StringEnds ==
  ASSUME NEW f \in Files, NEW a \in Nat, NEW z \in f.nul, a <= z
  PROVE  StringAt(f, a) \subseteq Bytes(0, f.size)
<1> DEFINE Z == {y \in f.nul : y >= a}
<1>1. f.size \in Nat /\ f.nul \subseteq Bytes(0, f.size)
  BY Fields
<1>2. z \in Z /\ Z \subseteq Bytes(0, f.size)
  BY <1>1 DEF Bytes
<1>3. Z \subseteq Nat /\ Z # {}
  BY <1>2 DEF Bytes
<1> HIDE DEF Z
<1>4. Min(Z) \in Z
  BY <1>3, MinIsLeast
<1>5. StringAt(f, a) = a..Min(Z)
  BY DEF StringAt, Z
<1>6. Min(Z) \in 0..(f.size - 1)
  <2>1. Bytes(0, f.size) = 0..(f.size - 1)
    BY <1>1 DEF Bytes
  <2> QED BY <1>2, <1>4, <2>1
<1>7. a..Min(Z) \subseteq 0..(f.size - 1)
  <2> DEFINE z0 == Min(Z)
  <2>1. z0 \in 0..(f.size - 1)
    BY <1>6
  <2> HIDE DEF z0
  <2>2. a..z0 \subseteq 0..(f.size - 1)
    BY <1>1, <2>1
  <2> QED BY <2>2 DEF z0
<1>8. Bytes(0, f.size) = 0..(f.size - 1)
  BY <1>1 DEF Bytes
<1> QED BY <1>5, <1>7, <1>8

\* A section name other than "<corrupted>" lies in the file to its NUL.
LEMMA NameIn ==
  ASSUME NEW f \in Files, NewFile(f) # 0, NamesInTable(f),
         NEW s \in 0..(f.shnum - 1)
  PROVE  LET r == GetSectionName(f, NewFile(f), s) IN
         /\ r.reads \subseteq Bytes(0, f.size)
         /\ r.ptr # Corrupted => StringAt(f, r.ptr) \subseteq Bytes(0, f.size)
<1> DEFINE c == NewFile(f)
           x == f.shstrndx
           table == GetStringTable(f, c, x)
           r == GetSectionName(f, c, s)
<1>1. x \in 0..(f.shnum - 1) /\ x \in Nat
  BY Accepted, Fields
<1>2. /\ table.reads \subseteq Bytes(0, f.size)
      /\ table.ptr # NullPtr =>
           /\ Sh(f, x).size > 0 /\ Sh(f, x).size \in Nat /\ table.ptr \in Nat
           /\ table.ptr + Sh(f, x).size <= f.size
           /\ table.ptr + Sh(f, x).size - 1 \in f.nul
  BY <1>1, StringTableIn
<1>3. /\ Section(f, c, s) \subseteq Bytes(0, f.size)
      /\ Section(f, c, x) \subseteq Bytes(0, f.size)
  BY <1>1, Accepted
<1>4. Sh(f, s).name \in Nat
  BY Fields
<1>5. /\ r.reads = table.reads \union Section(f, c, s) \union Section(f, c, x)
      /\ r.ptr = IF table.ptr = NullPtr \/ Sh(f, s).name > Sh(f, x).size
                 THEN Corrupted ELSE table.ptr + Sh(f, s).name
  BY DEF GetSectionName, Result
<1>6. table.ptr # NullPtr => x # 0
  BY DEF GetStringTable, GetSection, Result
<1> HIDE DEF c, table, r
<1>7. ASSUME r.ptr # Corrupted
      PROVE  StringAt(f, r.ptr) \subseteq Bytes(0, f.size)
  <2> DEFINE z == table.ptr + Sh(f, x).size - 1
  <2>1. /\ table.ptr # NullPtr /\ r.ptr = table.ptr + Sh(f, s).name
        /\ ~(Sh(f, s).name > Sh(f, x).size)
    BY <1>5, <1>7
  <2>2. Sh(f, s).name # Sh(f, x).size
    BY <1>6, <2>1 DEF NamesInTable
  <2>3. r.ptr \in Nat /\ z \in f.nul /\ r.ptr <= z
    BY <1>2, <1>4, <2>1, <2>2
  <2> QED BY <2>3, StringEnds
<1> QED BY <1>2, <1>3, <1>5, <1>7 DEF c, r

\* Looking for a name reads names up to the one that is found.
LEMMA NamedIn ==
  ASSUME NEW f \in Files, NewFile(f) # 0, NamesInTable(f), NEW name
  PROVE  GetSectionNamed(f, NewFile(f), name).reads \subseteq Bytes(0, f.size)
<1> DEFINE c == NewFile(f)
           At(s) == GetSectionName(f, c, s).ptr
           Is(s) == /\ At(s) # Corrupted
                    /\ Cardinality(StringAt(f, At(s))) - 1 = name
           found == {s \in 0..(f.shnum - 1) : Is(s)}
           upTo == 0..(IF found = {} THEN f.shnum - 1 ELSE Min(found))
           X(s) == GetSectionName(f, c, s).reads \union
                     (IF At(s) = Corrupted THEN {} ELSE StringAt(f, At(s)))
           reads == UNION {X(s) : s \in upTo}
           r == GetSection(f, c, Min(found))
<1>1. GetSectionNamed(f, c, name) =
        IF found = {} THEN Result(NullPtr, reads)
        ELSE Result(r.ptr, reads \union r.reads)
  BY DEF GetSectionNamed
<1>2. f.shnum \in Nat
  BY Fields
<1>3. found \subseteq 0..(f.shnum - 1)
  OBVIOUS
<1>4. ASSUME NEW s \in 0..(f.shnum - 1)
      PROVE  X(s) \subseteq Bytes(0, f.size)
  BY NameIn
<1> HIDE DEF found, X, r, c
<1>5. found # {} => Min(found) \in 0..(f.shnum - 1)
  <2>1. found \subseteq Nat
    BY <1>3
  <2> QED BY <1>3, <2>1, MinIsLeast
<1>6. upTo \subseteq 0..(f.shnum - 1)
  BY <1>2, <1>5
<1> HIDE DEF upTo
<1>7. reads \subseteq Bytes(0, f.size)
  BY <1>4, <1>6
<1>8. found # {} => r.reads \subseteq Bytes(0, f.size)
  BY <1>5, SectionIn DEF r, c
<1> HIDE DEF reads
<1> QED BY <1>1, <1>7, <1>8 DEF Result, c

\* A segment that elf_getProgramSegment returns lies in the file.
LEMMA SegmentIn ==
  ASSUME NEW f \in Files, NewFile(f) # 0, NEW i \in 0..(f.phnum - 1)
  PROVE  LET r == GetProgramSegment(f, NewFile(f), i) IN
         /\ r.reads \subseteq Bytes(0, f.size)
         /\ r.ptr # NullPtr =>
              Bytes(r.ptr, Ph(f, i).filesz) \subseteq Bytes(0, f.size)
<1> DEFINE c == NewFile(f)
           p == Ph(f, i)
           e == (p.off + p.filesz) % Span64
           r == GetProgramSegment(f, c, i)
<1>1. /\ p.off \in 0..(Span64 - 1) /\ p.filesz \in 0..(Span64 - 1)
      /\ f.size \in 0..(Span64 - 1)
  BY Fields
<1>2. /\ e \in 0..(Span64 - 1)
      /\ e >= p.off <=> p.off + p.filesz < Span64
      /\ p.off + p.filesz < Span64 => e = p.off + p.filesz
  BY <1>1, NoWrapBack
<1>3. /\ r.reads = ProgramHeader(f, c, i)
      /\ r.ptr = IF f.size < e \/ e < p.off THEN NullPtr ELSE p.off
  BY DEF GetProgramSegment, Result
<1>4. ProgramHeader(f, c, i) \subseteq Bytes(0, f.size)
  BY Accepted
<1> HIDE DEF e, p, r, c
<1>5. ASSUME r.ptr # NullPtr
      PROVE  Bytes(r.ptr, p.filesz) \subseteq Bytes(0, f.size)
  <2>1. r.ptr = p.off /\ p.off + p.filesz <= f.size
    BY <1>1, <1>2, <1>3, <1>5
  <2> QED BY <1>1, <2>1 DEF Bytes
<1> QED BY <1>3, <1>4, <1>5 DEF r, c, p

-------------------------------------------------------------------------------
(* The invariant: an elf_t that is set was accepted, an object that is ready  *)
(* is open and mapped, and the last call stayed in the file.                  *)

Opened ==
  /\ filep \in {-1, 0, 3} /\ fileSize \in Nat
  /\ ptr \in {"null", "mapped", "failed"}
  /\ ptr = "failed" => fileSize = 0
  /\ ready => filep >= 0 /\ ptr = "mapped" /\ fileSize > 0
  /\ last.call = "none" => ~ready

StaysInside ==
  /\ last.reads \subseteq Bytes(0, file.size)
  /\ last.given \subseteq Bytes(0, file.size)

Inv == file \in Files /\ elf \in {0, NewFile(file)} /\ Opened /\ StaysInside

LEMMA InitInv == Init => Inv
<1> SUFFICES ASSUME Init PROVE Inv
  OBVIOUS
<1>1. last = Nothing /\ last.reads = {} /\ last.given = {}
  BY DEF Init, Nothing
<1>2. Opened
  BY DEF Init, Opened
<1> QED BY <1>1, <1>2 DEF Init, Inv, StaysInside

\* A call of the library on an accepted file needs only its bytes looked at.
LEMMA CallKeeps ==
  ASSUME Inv, NEW name, NEW reads, NEW given, Call(name, reads, given),
         name # "none",
         reads \subseteq Bytes(0, file.size),
         given \subseteq Bytes(0, file.size)
  PROVE  Inv'
<1>1. /\ last'.call = name /\ last'.reads = reads /\ last'.given = given
      /\ UNCHANGED <<file, filep, fileSize, ptr, elf, bounds, ready>>
  BY DEF Call
<1>2. Opened'
  BY <1>1 DEF Inv, Opened
<1>3. StaysInside'
  BY <1>1 DEF StaysInside
<1> QED BY <1>1, <1>2, <1>3 DEF Inv

\* The names that sections may have are in the string table, and the file was
\* mapped if mmap was asked to.
THEOREM InvHolds ==
  ASSUME ~MmapMayFail, \A f \in Files : NamesInTable(f)
  PROVE  Spec => []Inv
<1>1. Init => Inv
  BY InitInv
<1>2. Inv /\ [Next]_vars => Inv'
  <2> SUFFICES ASSUME Inv, [Next]_vars PROVE Inv'
    OBVIOUS
  <2> USE DEF Inv
  <2> DEFINE B == Bytes(0, file.size)
  <2>0. file.size \in Nat /\ file.shnum \in Nat /\ file.phnum \in Nat
    BY Fields
  <2>1. CASE Construct
    <3>1. /\ last = Nothing /\ UNCHANGED <<file, elf, bounds, ready>>
          /\ last' = [Nothing EXCEPT !.call = "ELFFile"]
      BY <2>1 DEF Construct
    <3>2. last.call = "none" /\ ~ready
      BY <3>1 DEF Nothing, Opened
    <3>3. last'.call = "ELFFile" /\ last'.reads = {} /\ last'.given = {}
      BY <3>1 DEF Nothing
    <3>4. Opened'
      <4>1. CASE filep' = -1 /\ UNCHANGED <<fileSize, ptr>>
        BY <3>1, <3>2, <3>3, <4>1 DEF Opened
      <4>2. CASE /\ filep' \in {0, 3}
                 /\ fileSize' \in {0, file.size}
                 /\ ptr' \in (IF fileSize' = 0 THEN {} ELSE {"mapped"})
                       \union (IF MmapMayFail \/ fileSize' = 0
                               THEN {"failed"} ELSE {})
        BY <2>0, <3>1, <3>2, <3>3, <4>2 DEF Opened
      <4> QED BY <2>1, <4>1, <4>2 DEF Construct
    <3> QED BY <3>1, <3>3, <3>4 DEF StaysInside
  <2>2. CASE Initialize
    <3>1. /\ elf' = IF IsValid THEN NewFile(file) ELSE 0
          /\ UNCHANGED <<file, filep, fileSize, ptr>>
          /\ ready' => elf' # 0
          /\ last'.call = "initialize" /\ last'.given = {}
      BY <2>2 DEF Initialize
    <3>2. last'.reads = IF ~IsValid THEN {} ELSE NewFileReads \union
            UNION {ProgramHeader(file, elf', i) :
                     i \in IF elf' = 0 THEN {} ELSE 0..(file.phnum - 1)}
      BY <2>2 DEF Initialize
    <3>3. NewFileReads \subseteq B
      BY <2>0 DEF NewFileReads, Header32, Header64, Bytes
    <3>4. elf' # 0 => \A i \in 0..(file.phnum - 1) :
                        ProgramHeader(file, elf', i) \subseteq B
      BY <3>1, Accepted
    <3>5. last'.reads \subseteq B
      <4>1. CASE ~IsValid \/ elf' = 0
        BY <3>2, <3>3, <4>1
      <4>2. CASE IsValid /\ elf' # 0
        BY <3>2, <3>3, <3>4, <4>2
      <4> QED BY <4>1, <4>2
    <3>6. Opened'
      BY <3>1 DEF Opened, IsValid
    <3> QED BY <3>1, <3>5, <3>6 DEF StaysInside
  <2>3. CASE Destruct
    <3>1. /\ filep' = -1 /\ fileSize' = 0 /\ ptr' = "null" /\ elf' = 0
          /\ ready' = FALSE /\ file' = file
          /\ last'.reads = {} /\ last'.given = {}
      BY <2>3 DEF Destruct, Nothing
    <3>2. Opened'
      BY <3>1 DEF Opened
    <3> QED BY <3>1, <3>2 DEF StaysInside
  <2>4. CASE CallGetSection
    <3>1. PICK s \in 0..file.shnum :
            LET r == GetSection(file, elf, s) IN
            Call("getSection", r.reads, IF r.ptr = NullPtr THEN {}
                                        ELSE Bytes(r.ptr, Sh(file, s).size))
      BY <2>4 DEF CallGetSection
    <3> DEFINE r == GetSection(file, elf, s)
    <3>2. elf # 0 /\ NewFile(file) # 0 /\ elf = NewFile(file)
      BY <3>1 DEF Call
    <3>3. /\ r.reads \subseteq B
          /\ r.ptr # NullPtr => /\ s \in 0..(file.shnum - 1) /\ r.ptr \in Nat
                                /\ r.ptr + Sh(file, s).size <= file.size
      BY <2>0, <3>2, SectionIn
    <3>4. r.ptr # NullPtr => Sh(file, s).size \in Nat
      BY <3>3, Fields
    <3>5. r.ptr # NullPtr => Bytes(r.ptr, Sh(file, s).size) \subseteq B
      BY <2>0, <3>3, <3>4 DEF Bytes
    <3> QED BY <3>1, <3>3, <3>5, CallKeeps
  <2>5. CASE CallGetStringTable
    <3> DEFINE x == file.shstrndx
               r == GetStringTable(file, elf, x)
    <3>1. Call("getStringTable", r.reads, Extent(r.ptr, Sh(file, x).size))
      BY <2>5 DEF CallGetStringTable, GetSectionStringTable
    <3>2. elf # 0 /\ NewFile(file) # 0 /\ elf = NewFile(file)
      BY <3>1 DEF Call
    <3>3. x \in Nat
      BY Fields
    <3>4. /\ r.reads \subseteq B
          /\ r.ptr # NullPtr => /\ Sh(file, x).size \in Nat /\ r.ptr \in Nat
                                /\ r.ptr + Sh(file, x).size <= file.size
      BY <3>2, <3>3, StringTableIn
    <3>5. Extent(r.ptr, Sh(file, x).size) \subseteq B
      BY <2>0, <3>4 DEF Extent, Bytes
    <3> QED BY <3>1, <3>4, <3>5, CallKeeps
  <2>6. CASE CallGetSectionName
    <3>1. PICK s \in 0..(file.shnum - 1) :
            LET r == GetSectionName(file, elf, s) IN
            Call("getSectionName", r.reads,
                 IF r.ptr = Corrupted THEN {} ELSE StringAt(file, r.ptr))
      BY <2>6 DEF CallGetSectionName
    <3> DEFINE r == GetSectionName(file, elf, s)
    <3>2. elf # 0 /\ NewFile(file) # 0 /\ elf = NewFile(file)
      BY <3>1 DEF Call
    <3>3. /\ r.reads \subseteq B
          /\ r.ptr # Corrupted => StringAt(file, r.ptr) \subseteq B
      BY <3>2, NameIn
    <3> QED BY <3>1, <3>3, CallKeeps
  <2>7. CASE CallGetSectionNamed
    <3>1. PICK name \in Strings :
            Call("getSectionNamed", GetSectionNamed(file, elf, name).reads, {})
      BY <2>7 DEF CallGetSectionNamed
    <3>2. elf # 0 /\ NewFile(file) # 0 /\ elf = NewFile(file)
      BY <3>1 DEF Call
    <3>3. GetSectionNamed(file, elf, name).reads \subseteq B
      BY <3>2, NamedIn
    <3> QED BY <3>1, <3>3, CallKeeps
  <2>8. CASE CallGetProgramSegment
    <3>1. PICK i \in 0..(file.phnum - 1) :
            LET r == GetProgramSegment(file, elf, i) IN
            Call("getProgramSegment", r.reads,
                 Extent(r.ptr, Ph(file, i).filesz))
      BY <2>8 DEF CallGetProgramSegment
    <3> DEFINE r == GetProgramSegment(file, elf, i)
    <3>2. elf # 0 /\ NewFile(file) # 0 /\ elf = NewFile(file)
      BY <3>1 DEF Call
    <3>3. /\ r.reads \subseteq B
          /\ r.ptr # NullPtr => Bytes(r.ptr, Ph(file, i).filesz) \subseteq B
      BY <3>2, SegmentIn
    <3>4. Extent(r.ptr, Ph(file, i).filesz) \subseteq B
      BY <3>3 DEF Extent
    <3> QED BY <3>1, <3>3, <3>4, CallKeeps
  <2>9. CASE UNCHANGED vars
    BY <2>9 DEF vars, Opened, StaysInside
  <2> QED BY <2>1, <2>2, <2>3, <2>4, <2>5, <2>6, <2>7, <2>8, <2>9 DEF Next
<1> QED BY <1>1, <1>2, PTL DEF Spec

\* No call on an accepted file reads outside of it, and an ELFFile that is
\* ready has its file open and mapped: elf_newFile is enough of a check.
THEOREM ReadsStayInFile ==
  ASSUME ~MmapMayFail, \A f \in Files : NamesInTable(f)
  PROVE  Spec => []ReadsInFile
<1>1. Inv => ReadsInFile
  <2> SUFFICES ASSUME Inv PROVE ReadsInFile
    OBVIOUS
  <2>1. file.size \in Nat
    BY Fields DEF Inv
  <2>2. Bytes(0, file.size) = InFile
    BY <2>1 DEF Bytes, InFile
  <2> QED BY <2>2 DEF Inv, Opened, StaysInside, ReadsInFile
<1> QED BY <1>1, InvHolds, PTL

\* No section, segment, string table or name that the library hands out leads
\* outside of the file.
THEOREM PointersStayInFile ==
  ASSUME ~MmapMayFail, \A f \in Files : NamesInTable(f)
  PROVE  Spec => []PointersInFile
<1>1. Inv => PointersInFile
  <2> SUFFICES ASSUME Inv PROVE PointersInFile
    OBVIOUS
  <2>1. file.size \in Nat
    BY Fields DEF Inv
  <2>2. Bytes(0, file.size) = InFile
    BY <2>1 DEF Bytes, InFile
  <2> QED BY <2>2 DEF Inv, StaysInside, PointersInFile
<1> QED BY <1>1, InvHolds, PTL

-------------------------------------------------------------------------------
(* Which files are accepted. *)

\* One class: given its header, the tests of the tables are exact.
LEMMA TablesExact ==
  ASSUME NEW f \in Files, f.class \in {32, 64},
         NEW span \in Nat, span = (IF f.class = 32 THEN Span32 ELSE Span64),
         f.size < span
  PROVE  /\ TableOK(f, f.phoff, f.phentsize * f.phnum, span)
              <=> f.phoff + f.phentsize * f.phnum <= f.size
         /\ TableOK(f, f.shoff, f.shentsize * f.shnum, span)
              <=> f.shoff + f.shentsize * f.shnum <= f.size
<1>1. /\ f.phoff \in 0..(span - 1) /\ f.shoff \in 0..(span - 1)
      /\ f.phentsize * f.phnum \in 0..(span - 1)
      /\ f.shentsize * f.shnum \in 0..(span - 1)
  BY Tables
<1> DEFINE p == f.phentsize * f.phnum  s == f.shentsize * f.shnum
<1>2. p \in 0..(span - 1) /\ s \in 0..(span - 1)
  BY <1>1
<1> HIDE DEF p, s
<1>3. /\ TableOK(f, f.phoff, p, span) <=> f.phoff + p <= f.size
      /\ TableOK(f, f.shoff, s, span) <=> f.shoff + s <= f.size
  BY <1>1, <1>2, TableFits
<1> QED BY <1>3 DEF p, s

\* Whatever the widths and sizes, elf_newFile accepts a file exactly if its
\* header is one of the two kinds and its tables lie in it; a 32-bit file has
\* a size of 32 bits.
THEOREM AcceptsThose ==
  ASSUME \A f \in Files : f.class = 32 => f.size < Span32
  PROVE  Spec => []AcceptsExactly
<1> DEFINE Fits(off, n) == off + n <= file.size
           Good(class, ehdr, phdr, shdr) ==
             /\ file.size >= ehdr /\ file.magic /\ file.class = class
             /\ file.phentsize = phdr /\ file.shentsize = shdr
             /\ file.shstrndx \in 0..(file.shnum - 1)
             /\ Fits(file.phoff, phdr * file.phnum)
             /\ Fits(file.shoff, shdr * file.shnum)
           Good32 == Good(32, Ehdr32, Phdr32, Shdr32)
           Good64 == Good(64, Ehdr64, Phdr64, Shdr64)
<1>1. ASSUME file \in Files PROVE AcceptsExactly
  <2>1. /\ file.size \in 0..(Span64 - 1) /\ file.shnum \in Nat
        /\ file.shstrndx \in Nat
    BY <1>1, Fields
  <2>2. file.shstrndx < file.shnum <=> file.shstrndx \in 0..(file.shnum - 1)
    BY <2>1
  <2>3. CheckFile32(file) /\ NewFile(file) # 0 <=> Good32
    <3>1. ASSUME CheckFile32(file)
          PROVE  NewFile(file) # 0 <=>
                   /\ TableOK(file, file.phoff, file.phentsize * file.phnum,
                              Span32)
                   /\ TableOK(file, file.shoff, file.shentsize * file.shnum,
                              Span32)
      BY <3>1 DEF NewFile, CheckFile, CheckProgramHeaderTable,
                  CheckSectionTable, CheckProgramHeaderTable32,
                  CheckSectionTable32
    <3>2. ASSUME file.class = 32
          PROVE  /\ TableOK(file, file.phoff, file.phentsize * file.phnum,
                            Span32)
                      <=> Fits(file.phoff, file.phentsize * file.phnum)
                 /\ TableOK(file, file.shoff, file.shentsize * file.shnum,
                            Span32)
                      <=> Fits(file.shoff, file.shentsize * file.shnum)
      BY <1>1, <3>2, TablesExact
    <3> HIDE DEF Fits
    <3> QED BY <2>2, <3>1, <3>2 DEF CheckFile32, HeaderOK
  <2>4. CheckFile64(file) /\ NewFile(file) # 0 <=> Good64
    <3>1. ASSUME CheckFile64(file)
          PROVE  NewFile(file) # 0 <=>
                   /\ TableOK(file, file.phoff, file.phentsize * file.phnum,
                              Span64)
                   /\ TableOK(file, file.shoff, file.shentsize * file.shnum,
                              Span64)
      <4>1. ~CheckFile32(file)
        BY <3>1 DEF CheckFile32, CheckFile64, HeaderOK
      <4> QED BY <3>1, <4>1 DEF NewFile, CheckFile, CheckProgramHeaderTable,
                  CheckSectionTable, CheckProgramHeaderTable64,
                  CheckSectionTable64
    <3>2. ASSUME file.class = 64
          PROVE  /\ TableOK(file, file.phoff, file.phentsize * file.phnum,
                            Span64)
                      <=> Fits(file.phoff, file.phentsize * file.phnum)
                 /\ TableOK(file, file.shoff, file.shentsize * file.shnum,
                            Span64)
                      <=> Fits(file.shoff, file.shentsize * file.shnum)
      BY <1>1, <2>1, <3>2, TablesExact
    <3> HIDE DEF Fits
    <3> QED BY <2>2, <3>1, <3>2 DEF CheckFile64, HeaderOK
  <2>5. NewFile(file) \in {0, CheckFile(file)}
    BY DEF NewFile
  <2>6. /\ CheckFile32(file) => CheckFile(file) = 32
        /\ CheckFile64(file) => CheckFile(file) = 64
        /\ ~CheckFile32(file) /\ ~CheckFile64(file) => CheckFile(file) = 0
    BY DEF CheckFile, CheckFile32, CheckFile64, HeaderOK
  <2>7. AcceptsExactly <=> NewFile(file) = CASE Good32 -> 32
                                             [] Good64 -> 64
                                             [] OTHER -> 0
    BY DEF AcceptsExactly
  <2>8. ~(Good32 /\ Good64)
    OBVIOUS
  <2> HIDE DEF Good32, Good64
  <2> QED BY <2>3, <2>4, <2>5, <2>6, <2>7, <2>8
<1>2. Init => file \in Files
  BY DEF Init
<1>3. file \in Files /\ [Next]_vars => (file \in Files)'
  BY DEF Next, vars, Construct, Initialize, Destruct, CallGetSection,
         CallGetStringTable, CallGetSectionName, CallGetSectionNamed,
         CallGetProgramSegment, Call
<1>4. Spec => [](file \in Files)
  BY <1>2, <1>3, PTL DEF Spec
<1>5. file \in Files => AcceptsExactly
  BY <1>1
<1> QED BY <1>4, <1>5, PTL

-------------------------------------------------------------------------------
(* The bounds reported to the loader. *)

\* A set of offsets that is bounded has a largest one.
LEMMA MaxIsGreatest ==
  ASSUME NEW m \in Nat, NEW S, S \subseteq 0..m, S # {}
  PROVE  Max(S) \in S /\ \A y \in S : y <= Max(S)
<1> DEFINE T == {m - x : x \in S}
<1>1. T \subseteq Nat /\ T # {}
  <2>1. ASSUME NEW x \in S PROVE m - x \in Nat
    <3>1. x \in 0..m
      OBVIOUS
    <3> QED BY <3>1
  <2> QED BY <2>1
<1> HIDE DEF T
<1>2. Min(T) \in T /\ \A y \in T : Min(T) <= y
  BY <1>1, MinIsLeast
<1>3. PICK x \in S : Min(T) = m - x
  BY <1>2 DEF T
<1>4. ASSUME NEW y \in S PROVE x >= y
  <2>1. m - x <= m - y
    BY <1>2, <1>3 DEF T
  <2> QED BY <2>1
<1>5. \E z \in S : \A y \in S : z >= y
  BY <1>4
<1>6. Max(S) \in S /\ \A y \in S : Max(S) >= y
  BY <1>5 DEF Max
<1> QED BY <1>6

\* ROUND_UP of an address a page away from the wrap.
LEMMA RoundUpNear ==
  ASSUME NEW a \in Nat, a + PageSize < Span64
  PROVE  RoundUp(a) - a \in 0..(PageSize - 1)
<1> USE PageAssumption
<1>1. a + PageSize - 1 \in 0..(Span64 - 1)
  OBVIOUS
<1>2. (a + PageSize - 1) % Span64 = a + PageSize - 1
  BY <1>1, SMT
<1> DEFINE n == a + PageSize - 1
<1>3. n \in Nat
  BY <1>1
<1> HIDE DEF n
<1>4. \A k \in Nat, d \in Nat \ {0} :
        /\ k \div d \in Nat
        /\ (k \div d) * d <= k /\ k < (k \div d) * d + d
  BY SMT
<1>5. /\ (n \div PageSize) * PageSize <= n
      /\ n < (n \div PageSize) * PageSize + PageSize
      /\ n \div PageSize \in Nat
  BY <1>3, <1>4
<1> DEFINE r == (n \div PageSize) * PageSize
<1>6. r \in Nat
  BY <1>5, SMT
<1>7. r <= n /\ n < r + PageSize
  BY <1>5
<1> HIDE DEF r
<1>8. r - a \in 0..(PageSize - 1)
  BY <1>6, <1>7 DEF n
<1> QED BY <1>2, <1>8 DEF RoundUp, r, n

\* elf_getMemoryBounds of segments that do not wrap: from the lowest address
\* to the highest one behind a segment.
LEMMA BoundsOfSegments ==
  ASSUME file \in Files, NoWrap, Segments # {},
         NEW b, b = MemoryBounds(file, FALSE)
  PROVE  /\ \A p \in Segments : b[1] <= p.vaddr /\ p.vaddr + p.memsz <= b[2]
         /\ \E p \in Segments : b[1] = p.vaddr
         /\ \E p \in Segments : b[2] = p.vaddr + p.memsz
         /\ b[2] \in Nat /\ b[2] + PageSize < Span64
<1> USE PageAssumption
<1> DEFINE used == {p \in {Ph(file, i) : i \in 0..(file.phnum - 1)} :
                      p.memsz # 0}
           Above(p) == (Address(p, FALSE) + p.memsz) % Span64
           lows == {Address(p, FALSE) : p \in used} \union {Span64 - 1}
           highs == {Above(p) : p \in used} \union {0}
<1>1. used = Segments
  BY DEF Segments
<1>2. FieldWidths(file)
  BY FilesAssumption
<1>3. ASSUME NEW p \in Segments
      PROVE  /\ p.vaddr \in Nat /\ p.memsz \in Nat /\ p.memsz > 0
             /\ p.vaddr + p.memsz + PageSize < Span64
  <2>1. PICK i \in 0..(file.phnum - 1) : p = Ph(file, i) /\ p.memsz # 0
    BY DEF Segments
  <2>2. p.vaddr \in 0..(Span64 - 1) /\ p.memsz \in 0..(Span64 - 1)
    BY <1>2, <2>1 DEF FieldWidths
  <2> QED BY <2>1, <2>2 DEF NoWrap
<1>4. ASSUME NEW p \in Segments
      PROVE  Address(p, FALSE) = p.vaddr /\ Above(p) = p.vaddr + p.memsz
  <2>1. p.vaddr + p.memsz \in 0..(Span64 - 1)
    BY <1>3
  <2>2. (p.vaddr + p.memsz) % Span64 = p.vaddr + p.memsz
    BY <2>1, SMT
  <2> QED BY <2>2 DEF Address
<1>5. b = <<Min(lows), Max(highs)>>
  BY DEF MemoryBounds
<1> HIDE DEF used, Above
<1>6. /\ \A p \in Segments : p.vaddr \in lows /\ p.vaddr + p.memsz \in highs
      /\ \A y \in lows : y = Span64 - 1 \/ \E p \in Segments : y = p.vaddr
      /\ \A y \in highs :
           y = 0 \/ \E p \in Segments : y = p.vaddr + p.memsz
      /\ Span64 - 1 \in lows /\ 0 \in highs
  BY <1>1, <1>4
<1> HIDE DEF lows, highs
<1>7. Span64 - 1 \in Nat
  BY <1>3
<1>8. /\ Min(lows) \in lows /\ \A y \in lows : Min(lows) <= y
  <2>1. lows \subseteq Nat /\ lows # {}
    BY <1>3, <1>6, <1>7
  <2> QED BY <2>1, MinIsLeast
<1>9. /\ Max(highs) \in highs /\ \A y \in highs : y <= Max(highs)
  <2>1. highs \subseteq 0..(Span64 - 1) /\ highs # {}
    BY <1>3, <1>6, <1>7
  <2> QED BY <1>7, <2>1, MaxIsGreatest
<1>10. PICK q \in Segments : TRUE
  OBVIOUS
<1>11. \E p \in Segments : Min(lows) = p.vaddr
  <2>1. Min(lows) <= q.vaddr /\ q.vaddr < Span64 - 1
    BY <1>3, <1>6, <1>8, <1>10
  <2>2. Min(lows) # Span64 - 1
    BY <1>3, <1>7, <1>10, <2>1
  <2> QED BY <1>6, <1>8, <2>2
<1>12. \E p \in Segments : Max(highs) = p.vaddr + p.memsz
  <2>1. q.vaddr + q.memsz <= Max(highs) /\ q.vaddr + q.memsz > 0
    BY <1>3, <1>6, <1>9, <1>10
  <2>2. Max(highs) # 0
    BY <1>3, <1>10, <2>1
  <2> QED BY <1>6, <1>9, <2>2
<1>13. \A p \in Segments :
         Min(lows) <= p.vaddr /\ p.vaddr + p.memsz <= Max(highs)
  BY <1>6, <1>8, <1>9
<1>14. Max(highs) \in Nat /\ Max(highs) + PageSize < Span64
  BY <1>3, <1>12
<1> DEFINE lo == Min(lows)  hi == Max(highs)
<1>15. b = <<lo, hi>>
  BY <1>5
<1>16. /\ \A p \in Segments : lo <= p.vaddr /\ p.vaddr + p.memsz <= hi
       /\ \E p \in Segments : lo = p.vaddr
       /\ \E p \in Segments : hi = p.vaddr + p.memsz
       /\ hi \in Nat /\ hi + PageSize < Span64
  BY <1>11, <1>12, <1>13, <1>14
<1> HIDE DEF lo, hi
<1>17. b[1] = lo /\ b[2] = hi
  BY ONLY <1>15
<1> QED BY <1>16, <1>17

\* The bounds of an ELFFile that is ready are those initialize() computed.
BoundsInv ==
  /\ file \in Files
  /\ ready => LET b == MemoryBounds(file, FALSE) IN
                bounds = <<b[1], RoundUp(b[2])>>

LEMMA BoundsInvHolds == Spec => []BoundsInv
<1>1. Init => BoundsInv
  BY DEF Init, BoundsInv
<1>2. BoundsInv /\ [Next]_vars => BoundsInv'
  <2> SUFFICES ASSUME BoundsInv, [Next]_vars PROVE BoundsInv'
    OBVIOUS
  <2>1. file' = file
    BY DEF Next, vars, Construct, Initialize, Destruct, CallGetSection,
           CallGetStringTable, CallGetSectionName, CallGetSectionNamed,
           CallGetProgramSegment, Call
  <2>2. CASE Initialize
    <3> DEFINE b == MemoryBounds(file, FALSE)
    <3> HIDE DEF b
    <3>1. ready' => bounds' = <<b[1], RoundUp(b[2])>>
      BY <2>2 DEF Initialize, b
    <3> QED BY <2>1, <3>1 DEF BoundsInv, b
  <2>3. CASE Destruct
    BY <2>1, <2>3 DEF Destruct, BoundsInv
  <2>4. CASE ~Initialize /\ ~Destruct
    <3>1. bounds' = bounds /\ ready' = ready
      BY <2>4 DEF Next, vars, Construct, CallGetSection,
           CallGetStringTable, CallGetSectionName, CallGetSectionNamed,
           CallGetProgramSegment, Call
    <3> QED BY <2>1, <3>1 DEF BoundsInv
  <2> QED BY <2>2, <2>3, <2>4
<1> QED BY <1>1, <1>2, PTL DEF Spec

\* Whatever segments a file names, as long as none comes within a page of the
\* wrap: the addresses the loader allocates pages for hold all of them, begin
\* with the first one and end in the page of the last.
THEOREM BoundsAreTight == Spec => []BoundsTight
<1>1. BoundsInv => BoundsTight
  <2> SUFFICES ASSUME BoundsInv, ready, NoWrap, Segments # {}
               PROVE  /\ \A p \in Segments :
                           /\ bounds[1] <= p.vaddr
                           /\ p.vaddr + p.memsz <= bounds[2]
                      /\ \E p \in Segments : bounds[1] = p.vaddr
                      /\ \E p \in Segments :
                           bounds[2] - (p.vaddr + p.memsz) \in 0..(PageSize - 1)
    BY DEF BoundsTight
  <2> DEFINE b == MemoryBounds(file, FALSE)
  <2>1. bounds = <<b[1], RoundUp(b[2])>>
    BY DEF BoundsInv
  <2>2. /\ \A p \in Segments : b[1] <= p.vaddr /\ p.vaddr + p.memsz <= b[2]
        /\ \E p \in Segments : b[1] = p.vaddr
        /\ \E p \in Segments : b[2] = p.vaddr + p.memsz
        /\ b[2] \in Nat /\ b[2] + PageSize < Span64
    BY BoundsOfSegments DEF BoundsInv
  <2> HIDE DEF b
  <2>3. RoundUp(b[2]) - b[2] \in 0..(PageSize - 1)
    BY <2>2, RoundUpNear
  <2>4. RoundUp(b[2]) \in Int
    BY PageAssumption, <2>2, SMT DEF RoundUp
  <2>5. bounds[1] = b[1] /\ bounds[2] = RoundUp(b[2])
    BY <2>1
  <2>6. ASSUME NEW p \in Segments
        PROVE  p.vaddr \in Nat /\ p.memsz \in Nat
    <3>1. PICK i \in 0..(file.phnum - 1) : p = Ph(file, i)
      BY DEF Segments
    <3>2. FieldWidths(file)
      BY FilesAssumption DEF BoundsInv
    <3>3. p.vaddr \in 0..(Span64 - 1) /\ p.memsz \in 0..(Span64 - 1)
      BY <3>1, <3>2 DEF FieldWidths
    <3> QED BY <3>3
  <2>7. ASSUME NEW p \in Segments PROVE p.vaddr + p.memsz <= bounds[2]
    BY <2>2, <2>3, <2>4, <2>5, <2>6, PageAssumption
  <2>8. \E p \in Segments :
          bounds[2] - (p.vaddr + p.memsz) \in 0..(PageSize - 1)
    BY <2>2, <2>3, <2>5
  <2> QED BY <2>2, <2>5, <2>7, <2>8
<1> QED BY <1>1, BoundsInvHolds, PTL

-------------------------------------------------------------------------------
(* The memory elf_loadFile leaves. *)

\* What loading one more segment makes of the memory.
Load(f, mem, n) ==
  LET p == Ph(f, n - 1) IN LoadSegment(mem, p, Address(p, TRUE))

\* The memory after each number of segments up to n.
IsLoading(f, g, n) ==
  g = [k \in 0..n |-> IF k = 0 THEN [a \in {} |-> 0] ELSE Load(f, g[k - 1], k)]

\* What holds of 0 and of n + 1 when it holds of n holds of every number: the
\* numbers that are not in S have no least one.
LEMMA NatLeast ==
  ASSUME NEW S, 0 \in S, \A n \in Nat : n \in S => n + 1 \in S
  PROVE  Nat \subseteq S
<1> DEFINE Bad == Nat \ S
<1> SUFFICES ASSUME Bad # {} PROVE FALSE
  OBVIOUS
<1>1. Bad \subseteq Nat
  OBVIOUS
<1>2. \A n \in Bad : n - 1 \in Bad
  <2> SUFFICES ASSUME NEW n \in Bad PROVE n - 1 \in Bad
    OBVIOUS
  <2>1. n \in Nat /\ n \notin S /\ n # 0
    OBVIOUS
  <2>2. n - 1 \in Nat /\ (n - 1) + 1 = n
    BY <2>1
  <2> QED BY <2>1, <2>2
<1> HIDE DEF Bad
<1>3. Min(Bad) \in Bad /\ \A y \in Bad : Min(Bad) <= y
  BY <1>1, MinIsLeast
<1>4. PICK m : m = Min(Bad)
  OBVIOUS
<1>5. m \in Nat /\ m - 1 \in Bad
  BY ONLY <1>1, <1>2, <1>3, <1>4
<1>6. m <= m - 1
  BY ONLY <1>3, <1>4, <1>5
<1> QED BY ONLY <1>5, <1>6

\* The loop of elf_loadFile is defined: it has gone through any number of
\* segments.
LEMMA LoadingExists ==
  ASSUME NEW f, NEW n \in Nat
  PROVE  \E g : IsLoading(f, g, n)
<1> DEFINE S == {k \in Nat : \E g : IsLoading(f, g, k)}
<1>1. 0 \in S
  <2> DEFINE g == [k \in 0..0 |-> [a \in {} |-> 0]]
  <2>1. g = [k \in 0..0 |-> IF k = 0 THEN [a \in {} |-> 0]
                            ELSE Load(f, g[k - 1], k)]
    OBVIOUS
  <2> QED BY <2>1 DEF IsLoading
<1>2. ASSUME NEW k \in Nat, k \in S
      PROVE  k + 1 \in S
  <2>1. PICK g : IsLoading(f, g, k)
    BY <1>2
  <2>2. /\ DOMAIN g = 0..k
        /\ \A j \in 0..k : g[j] = IF j = 0 THEN [a \in {} |-> 0]
                                  ELSE Load(f, g[j - 1], j)
    BY <2>1 DEF IsLoading
  <2> DEFINE h == [j \in 0..(k + 1) |-> IF j <= k THEN g[j]
                                        ELSE Load(f, g[k], j)]
  <2>3. ASSUME NEW j \in 0..(k + 1)
        PROVE  h[j] = IF j = 0 THEN [a \in {} |-> 0] ELSE Load(f, h[j - 1], j)
    <3>1. CASE j = 0
      BY <2>2, <3>1
    <3>2. CASE j # 0 /\ j <= k
      <4>1. h[j] = g[j] /\ h[j - 1] = g[j - 1]
        BY <3>2
      <4> QED BY <2>2, <3>2, <4>1
    <3>3. CASE j = k + 1
      <4>1. h[j] = Load(f, g[k], j) /\ h[j - 1] = g[k]
        BY <3>3
      <4> QED BY <3>3, <4>1
    <3> QED BY <3>1, <3>2, <3>3
  <2>4. IsLoading(f, h, k + 1)
    <3>1. h = [j \in 0..(k + 1) |-> h[j]]
      OBVIOUS
    <3> HIDE DEF h
    <3> QED BY <2>3, <3>1 DEF IsLoading
  <2> QED BY <2>4
<1> HIDE DEF S
<1>3. Nat \subseteq S
  BY <1>1, <1>2, NatLeast
<1> QED BY <1>3 DEF S

\* It ends with the last segment.
LEMMA LoadingEnds ==
  ASSUME NEW f, f.phnum \in Nat
  PROVE  \E g : IsLoading(f, g, f.phnum) /\ LoadFile(f, TRUE) = g[f.phnum]
<1> DEFINE load == CHOOSE g : g =
             [n \in 0..f.phnum |->
                IF n = 0 THEN [a \in {} |-> 0]
                ELSE LoadSegment(g[n - 1], Ph(f, n - 1),
                                 Address(Ph(f, n - 1), TRUE))]
<1>1. LoadFile(f, TRUE) = load[f.phnum]
  BY DEF LoadFile
<1>2. IsLoading(f, load, f.phnum)
  BY LoadingExists DEF IsLoading, Load
<1> QED BY <1>1, <1>2

\* Segment i of the file is in memory, with zeroes behind its file bytes.
InMemory(f, mem, i) == LET p == Ph(f, i) IN
  \A k \in 0..(p.memsz - 1) :
    /\ p.paddr + k \in DOMAIN mem
    /\ mem[p.paddr + k] = IF k < p.filesz THEN p.off + k ELSE ZeroByte

\* Loading a segment puts it in memory, and leaves those it does not overlap.
LEMMA LoadsOne ==
  ASSUME file \in Files, Disjoint, Sound,
         NEW mem, NEW n \in 0..(file.phnum - 1),
         \A i \in 0..(n - 1) : InMemory(file, mem, i)
  PROVE  \A i \in 0..n : InMemory(file, Load(file, mem, n + 1), i)
<1>1. FieldWidths(file) /\ file.phnum \in Nat
  BY FilesAssumption, Fields
<1>2. \A i \in 0..(file.phnum - 1) :
        /\ Ph(file, i).paddr \in Nat /\ Ph(file, i).memsz \in Nat
        /\ Ph(file, i).filesz \in Nat /\ Ph(file, i).off \in Nat
        /\ Ph(file, i).filesz <= Ph(file, i).memsz
  BY <1>1 DEF FieldWidths, Sound
<1>3. PICK p : p = Ph(file, n)
  OBVIOUS
<1>4. PICK d, fs, ms : d = p.paddr /\ fs = p.filesz /\ ms = p.memsz
  OBVIOUS
<1>5. d \in Nat /\ fs \in Nat /\ ms \in Nat /\ fs <= ms /\ p.off \in Nat
  BY <1>2, <1>3, <1>4
<1>6. (n + 1) - 1 = n
  OBVIOUS
<1>7. PICK new : new = Load(file, mem, n + 1)
  OBVIOUS
<1>8. new = LoadSegment(mem, p, d)
  BY <1>3, <1>4, <1>6, <1>7 DEF Load, Address
<1>9. /\ DOMAIN new = DOMAIN mem \union Bytes(d, fs)
                                \union Bytes(d + fs, ms - fs)
      /\ \A a \in DOMAIN new :
           new[a] = IF a \in Bytes(d + fs, ms - fs) THEN ZeroByte
                    ELSE IF a \in Bytes(d, fs) THEN p.off + a - d ELSE mem[a]
  BY <1>4, <1>8 DEF LoadSegment
<1>10. InMemory(file, new, n)
  <2> SUFFICES ASSUME NEW k \in 0..(ms - 1)
               PROVE  /\ d + k \in DOMAIN new
                      /\ new[d + k] = IF k < fs THEN p.off + k ELSE ZeroByte
    BY <1>3, <1>4 DEF InMemory
  <2>1. CASE k < fs
    <3>1. d + k \in Bytes(d, fs) /\ d + k \notin Bytes(d + fs, ms - fs)
      BY <1>5, <2>1 DEF Bytes
    <3>2. p.off + (d + k) - d = p.off + k
      BY <1>5
    <3> QED BY <1>9, <2>1, <3>1, <3>2
  <2>2. CASE ~(k < fs)
    <3>1. d + k \in Bytes(d + fs, ms - fs)
      BY <1>5, <2>2 DEF Bytes
    <3> QED BY <1>9, <2>2, <3>1
  <2> QED BY <2>1, <2>2
<1>11. ASSUME NEW i \in 0..(n - 1)
       PROVE  InMemory(file, new, i)
  <2>1. PICK q : q = Ph(file, i)
    OBVIOUS
  <2>2. i \in 0..(file.phnum - 1) /\ i # n
    BY <1>1
  <2>3. Bytes(q.paddr, q.memsz) \intersect Bytes(d, ms) = {}
    BY <1>3, <1>4, <2>1, <2>2 DEF Disjoint
  <2> SUFFICES ASSUME NEW k \in 0..(q.memsz - 1)
               PROVE  /\ q.paddr + k \in DOMAIN new
                      /\ new[q.paddr + k] =
                           IF k < q.filesz THEN q.off + k ELSE ZeroByte
    BY <2>1 DEF InMemory
  <2>4. q.paddr \in Nat /\ q.memsz \in Nat
    BY <1>2, <2>1, <2>2
  <2>5. PICK a : a = q.paddr + k
    OBVIOUS
  <2>6. a \in Bytes(q.paddr, q.memsz)
    BY <2>4, <2>5 DEF Bytes
  <2>7. a \notin Bytes(d, fs) /\ a \notin Bytes(d + fs, ms - fs)
    <3>1. a \notin Bytes(d, ms)
      BY <2>3, <2>6
    <3> QED BY <1>5, <3>1 DEF Bytes
  <2>8. /\ a \in DOMAIN mem
        /\ mem[a] = IF k < q.filesz THEN q.off + k ELSE ZeroByte
    BY <2>1, <2>5 DEF InMemory
  <2> QED BY <1>9, <2>5, <2>7, <2>8
<1>12. \A i \in 0..n : i = n \/ i \in 0..(n - 1)
  OBVIOUS
<1> QED BY <1>7, <1>10, <1>11, <1>12

\* All segments are in memory in the end.
LEMMA LoadsAll ==
  ASSUME file \in Files, Disjoint, Sound
  PROVE  \A i \in 0..(file.phnum - 1) : InMemory(file, LoadFile(file, TRUE), i)
<1>1. file.phnum \in Nat
  BY Fields
<1>2. PICK g : IsLoading(file, g, file.phnum)
               /\ LoadFile(file, TRUE) = g[file.phnum]
  BY <1>1, LoadingEnds
<1>3. \A n \in 0..file.phnum : n # 0 => g[n] = Load(file, g[n - 1], n)
  BY <1>2 DEF IsLoading
<1> DEFINE Good(n) == \A i \in 0..(n - 1) : InMemory(file, g[n], i)
           S == {n \in Nat : n <= file.phnum => Good(n)}
<1>4. 0 \in S
  OBVIOUS
<1>5. ASSUME NEW n \in Nat, n \in S
      PROVE  n + 1 \in S
  <2> SUFFICES ASSUME n + 1 <= file.phnum
               PROVE  Good(n + 1)
    OBVIOUS
  <2>1. n \in 0..(file.phnum - 1) /\ n + 1 \in 0..file.phnum /\ n + 1 # 0
    BY <1>1
  <2>2. \A i \in 0..(n - 1) : InMemory(file, g[n], i)
    BY <1>1, <1>5
  <2>3. \A i \in 0..n : InMemory(file, Load(file, g[n], n + 1), i)
    BY <2>1, <2>2, LoadsOne
  <2>4. (n + 1) - 1 = n
    OBVIOUS
  <2>5. g[n + 1] = Load(file, g[n], n + 1)
    BY <1>3, <2>1, <2>4
  <2> QED BY <2>3, <2>4, <2>5
<1> HIDE DEF S
<1>6. file.phnum \in S
  BY <1>1, <1>4, <1>5, NatLeast
<1>7. Good(file.phnum)
  BY <1>1, <1>6 DEF S
<1> QED BY <1>2, <1>7

\* For every file whose segments do not overlap, wrap or have less memory than
\* bytes in the file: elf_loadFile puts each byte of each segment where
\* elf_vtopProgramHeader says its virtual address is, and zeroes behind them.
THEOREM LoadsTheImage == Spec => []LoadsImage
<1>1. file \in Files => LoadsImage
  <2> SUFFICES ASSUME file \in Files, NoWrap, Disjoint, Sound,
                      NEW i \in 0..(file.phnum - 1),
                      NEW v \in 0..(Span64 - 1)
               PROVE  LET p == Ph(file, i) IN
                 /\ VaddrInProgramHeader(file, i, v)
                      <=> v \in Bytes(p.vaddr, p.memsz)
                 /\ VaddrInProgramHeader(file, i, v) =>
                      LET k == v - p.vaddr IN
                      LoadFile(file, TRUE)[VtopProgramHeader(file, i, v)] =
                        IF k < p.filesz THEN p.off + k ELSE ZeroByte
    BY DEF LoadsImage
  <2>1. PICK p : p = Ph(file, i)
    OBVIOUS
  <2>2. PICK va, pa, ms : va = p.vaddr /\ pa = p.paddr /\ ms = p.memsz
    OBVIOUS
  <2>3. /\ va \in 0..(Span64 - 1) /\ pa \in 0..(Span64 - 1)
        /\ ms \in 0..(Span64 - 1)
    <3>1. FieldWidths(file)
      BY FilesAssumption
    <3> QED BY <2>1, <2>2, <3>1 DEF FieldWidths
  <2>4. ms # 0 => va + ms < Span64 /\ pa + ms < Span64
    <3>1. ms # 0 => p \in Segments
      BY <2>1, <2>2 DEF Segments
    <3> QED BY <2>2, <2>3, <3>1, PageAssumption DEF NoWrap
  <2>5. \A m, d \in Nat : m < d => m % d = m
    BY SMT
  <2>6. (va + ms) % Span64 = va + ms
    <3>1. va + ms \in Nat /\ va + ms < Span64 /\ Span64 \in Nat
      <4>1. CASE ms = 0
        BY <2>3, <4>1, PageAssumption
      <4>2. CASE ms # 0
        BY <2>3, <2>4, <4>2, PageAssumption
      <4> QED BY <4>1, <4>2
    <3>2. PICK m \in Nat, d \in Nat :
            m = va + ms /\ d = Span64 /\ m < d
      BY <3>1
    <3> QED BY <2>5, <3>2
  <2>7. VaddrInProgramHeader(file, i, v) <=> v >= va /\ v < va + ms
    BY <2>1, <2>2, <2>6 DEF VaddrInProgramHeader
  <2>8. VaddrInProgramHeader(file, i, v) <=> v \in Bytes(va, ms)
    BY <2>3, <2>7 DEF Bytes
  <2>9. ASSUME VaddrInProgramHeader(file, i, v)
        PROVE  LoadFile(file, TRUE)[VtopProgramHeader(file, i, v)] =
                 IF v - va < p.filesz THEN p.off + (v - va) ELSE ZeroByte
    <3>1. PICK k : k = v - va
      OBVIOUS
    <3>2. k \in 0..(ms - 1) /\ pa + k \in Nat /\ pa + k < Span64
      BY <2>3, <2>4, <2>7, <2>9, <3>1
    <3>3. VtopProgramHeader(file, i, v) = (k + pa) % Span64
      BY <2>1, <2>2, <3>1 DEF VtopProgramHeader
    <3>4. (k + pa) % Span64 = pa + k
      BY <2>3, <2>5, <3>2
    <3>5. InMemory(file, LoadFile(file, TRUE), i)
      BY LoadsAll
    <3>6. LoadFile(file, TRUE)[pa + k] =
            IF k < p.filesz THEN p.off + k ELSE ZeroByte
      BY <2>1, <2>2, <3>2, <3>5 DEF InMemory
    <3> QED BY <3>1, <3>3, <3>4, <3>6
  <2> QED BY <2>1, <2>2, <2>8, <2>9
<1>2. Init => file \in Files
  BY DEF Init
<1>3. file \in Files /\ [Next]_vars => (file \in Files)'
  BY DEF Next, vars, Construct, Initialize, Destruct, CallGetSection,
         CallGetStringTable, CallGetSectionName, CallGetSectionNamed,
         CallGetProgramSegment, Call
<1> QED BY <1>1, <1>2, <1>3, PTL DEF Spec
================================================================================
