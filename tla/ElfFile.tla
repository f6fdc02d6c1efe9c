-------------------------------- MODULE ElfFile --------------------------------
(***************************************************************************)
(* The ELF parser of the host (lib/host/src/elf.cpp with elf32 and elf64)  *)
(* and the object around it, ELFFile (elffile.cpp).                        *)
(*                                                                         *)
(* A file is a record: its size, the fields of its header, the entries of  *)
(* its two tables, and its text, which tells for each byte whether it is a *)
(* NUL; a string of the file is known by its length.  Offsets in the file  *)
(* are pointers minus the address of the mapping.  Fields of a class have  *)
(* the width of that class, so sums of two wrap at Span32 or Span64, and   *)
(* the library computes with size_t, which wraps at Span64.                *)
(*                                                                         *)
(* Every call of the library records which bytes of the mapping it read,   *)
(* and which bytes its caller may read through the pointer it returned.    *)
(***************************************************************************)
EXTENDS Integers, FiniteSets, SequencesExt

CONSTANTS
  Files,           \* the files there may be
  Ehdr32, Phdr32, Shdr32,   \* sizeof of the headers, 32-bit
  Ehdr64, Phdr64, Shdr64,   \* and 64-bit
  Span32, Span64,  \* where 32-bit and 64-bit values wrap
  PageSize,        \* PAGE_SIZE
  Strings,         \* the section names looked for, by length
  MmapMayFail      \* mmap of the file may return MAP_FAILED

ASSUME WidthAssumption == Span32 \in Nat /\ Span64 \in Nat /\ Span32 <= Span64
ASSUME HeaderAssumption ==
  {Ehdr32, Phdr32, Shdr32, Ehdr64, Phdr64, Shdr64} \subseteq Nat
ASSUME PageAssumption == PageSize \in Nat \ {0} /\ Span64 % PageSize = 0
ASSUME MmapAssumption == MmapMayFail \in BOOLEAN

VARIABLES
  file,      \* the file behind the name, never changed
  filep,     \* the descriptor: -1, or what open returned
  fileSize,
  ptr,       \* "null", "mapped" or MAP_FAILED, "failed"
  elf,       \* the elf_t: its class, or 0 while elf_newFile has not accepted it
  bounds,    \* <<minVaddr, maxVaddr>>
  ready,     \* what initialize() returned
  last       \* the last call of the library

vars == <<file, filep, fileSize, ptr, elf, bounds, ready, last>>

NullPtr == -1
Corrupted == -2            \* the string "<corrupted>", not in the file
ZeroByte == -1             \* a byte memset wrote, not from the file
Bytes(a, n) == a..(a + n - 1)

-------------------------------------------------------------------------------
(* The checks of elf_newFile. *)

HeaderOK(f, class, ehdr, phdr, shdr) ==
  /\ f.size >= ehdr
  /\ f.magic
  /\ f.class = class
  /\ f.phentsize = phdr
  /\ f.shentsize = shdr
  /\ f.shstrndx < f.shnum

CheckFile32(f) == HeaderOK(f, 32, Ehdr32, Phdr32, Shdr32)
CheckFile64(f) == HeaderOK(f, 64, Ehdr64, Phdr64, Shdr64)

CheckFile(f) ==
  IF CheckFile32(f) THEN 32 ELSE IF CheckFile64(f) THEN 64 ELSE 0

\* Mutant: an end that wrapped is not noticed.
TableOK_MayWrap(f, off, size, span) == f.size >= (off + size) % span

\* The end of a table, computed in the width of its class.
TableOK(f, off, size, span) == LET tableEnd == (off + size) % span IN
  f.size >= tableEnd /\ tableEnd >= off

CheckProgramHeaderTable32(f) ==
  TableOK(f, f.phoff, f.phentsize * f.phnum, Span32)
CheckProgramHeaderTable64(f) ==
  TableOK(f, f.phoff, f.phentsize * f.phnum, Span64)
CheckSectionTable32(f) == TableOK(f, f.shoff, f.shentsize * f.shnum, Span32)
CheckSectionTable64(f) == TableOK(f, f.shoff, f.shentsize * f.shnum, Span64)

CheckProgramHeaderTable(f, class) ==
  IF class = 32 THEN CheckProgramHeaderTable32(f)
  ELSE CheckProgramHeaderTable64(f)

CheckSectionTable(f, class) ==
  IF class = 32 THEN CheckSectionTable32(f) ELSE CheckSectionTable64(f)

\* Mutant: sections are not checked.
NewFile_NoSections(f) == LET class == CheckFile(f) IN
  IF class # 0 /\ CheckProgramHeaderTable(f, class) THEN class ELSE 0

\* The class of a file elf_newFile accepts, 0 for one it refuses.
NewFile(f) == LET class == CheckFile(f) IN
  IF /\ class # 0
     /\ CheckProgramHeaderTable(f, class)
     /\ CheckSectionTable(f, class)
  THEN class ELSE 0

-------------------------------------------------------------------------------
(* Reading header fields and table entries: the bytes of the file read. *)

Header32 == Bytes(0, Ehdr32)
Header64 == Bytes(0, Ehdr64)
Header(class) == IF class = 32 THEN Header32 ELSE Header64

Section32(f, s) == Bytes(f.shoff + s * Shdr32, Shdr32)
Section64(f, s) == Bytes(f.shoff + s * Shdr64, Shdr64)
Section(f, class, s) ==
  Header(class) \union
    (IF class = 32 THEN Section32(f, s) ELSE Section64(f, s))

ProgramHeader32(f, i) == Bytes(f.phoff + i * Phdr32, Phdr32)
ProgramHeader64(f, i) == Bytes(f.phoff + i * Phdr64, Phdr64)
ProgramHeader(f, class, i) ==
  Header(class) \union
    (IF class = 32 THEN ProgramHeader32(f, i) ELSE ProgramHeader64(f, i))

\* The entry itself; the caller keeps to s < NumSections.
Sh(f, s) == f.sh[s + 1]
Ph(f, i) == f.ph[i + 1]

\* Fields are words of the class the header names, the size of a table is
\* one, and the bytes of the file are those of the mapping.
FieldWidths(f) ==
  LET word == 0..(Span64 - 1)
      field == IF f.class = 32 THEN 0..(Span32 - 1) ELSE word
  IN /\ f.size \in word /\ f.nul \subseteq Bytes(0, f.size)
     /\ {f.phoff, f.shoff} \subseteq field
     /\ {f.phnum, f.shnum, f.shstrndx, f.phentsize, f.shentsize} \subseteq Nat
     /\ f.phentsize * f.phnum \in field /\ f.shentsize * f.shnum \in field
     /\ \A i \in 0..(f.phnum - 1) : LET p == Ph(f, i) IN
          {p.off, p.filesz, p.vaddr, p.paddr, p.memsz} \subseteq word
     /\ \A s \in 0..(f.shnum - 1) :
          {Sh(f, s).off, Sh(f, s).size, Sh(f, s).name} \subseteq word
ASSUME FilesAssumption == \A f \in Files : FieldWidths(f)

\* No name of a section starts right behind the string table.
NamesInTable(f) == \A s \in 0..(f.shnum - 1) :
  f.shstrndx # 0 => Sh(f, s).name # Sh(f, f.shstrndx).size

\* What a call returns, and the bytes it read.
Result(r, reads) == [ptr |-> r, reads |-> reads]

-------------------------------------------------------------------------------
(* Sections *)

GetSection(f, class, s) ==
  IF s = 0 \/ s >= f.shnum THEN Result(NullPtr, Header(class))
  ELSE LET off == Sh(f, s).off
           sectionEnd == (off + Sh(f, s).size) % Span64
       IN Result(IF \/ Sh(f, s).size = 0
                    \/ sectionEnd > f.size
                    \/ sectionEnd < off
                 THEN NullPtr ELSE off,
                 Section(f, class, s))

GetStringTable(f, class, s) == LET table == GetSection(f, class, s) IN
  IF table.ptr = NullPtr \/ Sh(f, s).type # "STRTAB"
  THEN Result(NullPtr, table.reads)
  ELSE LET lastByte == table.ptr + Sh(f, s).size - 1 IN
       Result(IF lastByte \in f.nul THEN table.ptr ELSE NullPtr,
              table.reads \union {lastByte})

GetSectionStringTable(f, class) == GetStringTable(f, class, f.shstrndx)

GetSectionName(f, class, s) ==
  LET table == GetStringTable(f, class, f.shstrndx)
      reads == table.reads \union Section(f, class, s)
               \union Section(f, class, f.shstrndx)
  IN IF table.ptr = NullPtr \/ Sh(f, s).name > Sh(f, f.shstrndx).size
     THEN Result(Corrupted, reads)
     ELSE Result(table.ptr + Sh(f, s).name, reads)

\* The bytes of the string at a: up to its NUL, or past the end of the file.
StringAt(f, a) ==
  IF \E z \in f.nul : z >= a
  THEN a..Min({z \in f.nul : z >= a}) ELSE a..f.size

\* The first section of that name; strcmp reads the names on the way.
GetSectionNamed(f, class, name) ==
  LET At(s) == GetSectionName(f, class, s).ptr
      Is(s) == At(s) # Corrupted /\ Cardinality(StringAt(f, At(s))) - 1 = name
      found == {s \in 0..(f.shnum - 1) : Is(s)}
      upTo == 0..(IF found = {} THEN f.shnum - 1 ELSE Min(found))
      reads == UNION {GetSectionName(f, class, s).reads \union
                        (IF At(s) = Corrupted THEN {} ELSE StringAt(f, At(s)))
                      : s \in upTo}
  IN IF found = {} THEN Result(NullPtr, reads)
     ELSE LET r == GetSection(f, class, Min(found)) IN
          Result(r.ptr, reads \union r.reads)

-------------------------------------------------------------------------------
(* Segments *)

\* Mutant: a segment end that wraps is not noticed.
GetProgramSegment_MayWrap(f, class, i) ==
  LET p == Ph(f, i) IN
  Result(IF f.size < (p.off + p.filesz) % Span64 THEN NullPtr ELSE p.off,
         ProgramHeader(f, class, i))

GetProgramSegment(f, class, i) ==
  LET p == Ph(f, i)  segmentEnd == (p.off + p.filesz) % Span64 IN
  Result(IF f.size < segmentEnd \/ segmentEnd < p.off THEN NullPtr ELSE p.off,
         ProgramHeader(f, class, i))

Address(p, physical) == IF physical THEN p.paddr ELSE p.vaddr

\* Mutant: segments without memory count.
MemoryBounds_Empty(f, physical) ==
  LET all == {Ph(f, i) : i \in 0..(f.phnum - 1)}
      Above(p) == (Address(p, physical) + p.memsz) % Span64
  IN <<Min({Address(p, physical) : p \in all} \union {Span64 - 1}),
       Max({Above(p) : p \in all} \union {0})>>

MemoryBounds(f, physical) ==
  LET used == {p \in {Ph(f, i) : i \in 0..(f.phnum - 1)} : p.memsz # 0}
      Above(p) == (Address(p, physical) + p.memsz) % Span64
  IN <<Min({Address(p, physical) : p \in used} \union {Span64 - 1}),
       Max({Above(p) : p \in used} \union {0})>>

VaddrInProgramHeader(f, i, v) ==
  v >= Ph(f, i).vaddr /\ v < (Ph(f, i).vaddr + Ph(f, i).memsz) % Span64

VtopProgramHeader(f, i, v) == (v - Ph(f, i).vaddr + Ph(f, i).paddr) % Span64

\* Mutant: the rest of the segment is cleared from its start.
LoadSegment_ClearsStart(mem, p, dest) ==
  [a \in DOMAIN mem \union Bytes(dest, p.memsz) |->
     IF a \in Bytes(dest, p.memsz - p.filesz) THEN ZeroByte
     ELSE IF a \in Bytes(dest, p.filesz) THEN p.off + a - dest
     ELSE IF a \in DOMAIN mem THEN mem[a] ELSE ZeroByte]

\* memcpy of the file's bytes and memset of the rest.
LoadSegment(mem, p, dest) ==
  [a \in DOMAIN mem \union Bytes(dest, p.filesz)
                    \union Bytes(dest + p.filesz, p.memsz - p.filesz) |->
     IF a \in Bytes(dest + p.filesz, p.memsz - p.filesz) THEN ZeroByte
     ELSE IF a \in Bytes(dest, p.filesz) THEN p.off + a - dest ELSE mem[a]]

\* The memory after the first n segments, in the order of the table.
LoadFile(f, physical) ==
  LET load[n \in 0..f.phnum] ==
        IF n = 0 THEN [a \in {} |-> 0]
        ELSE LET p == Ph(f, n - 1) IN
             LoadSegment(load[n - 1], p, Address(p, physical))
  IN load[f.phnum]

-------------------------------------------------------------------------------
(* ELFFile, and a client of the library *)

Nothing == [call |-> "none", reads |-> {}, given |-> {}]

Init ==
  /\ file \in Files
  /\ filep = -1 /\ fileSize = 0 /\ ptr = "null"
  /\ elf = 0 /\ bounds = <<0, 0>> /\ ready = FALSE
  /\ last = Nothing

\* The constructor.  open may fail, or return any descriptor; the size is 0
\* when fstat fails, and mmap of nothing fails.
Construct ==
  /\ last = Nothing /\ filep = -1
  /\ \/ filep' = -1 /\ UNCHANGED <<fileSize, ptr>>
     \/ /\ filep' \in {0, 3}
        /\ fileSize' \in {0, file.size}
        /\ ptr' \in (IF fileSize' = 0 THEN {} ELSE {"mapped"})
              \union (IF MmapMayFail \/ fileSize' = 0 THEN {"failed"} ELSE {})
  /\ last' = [Nothing EXCEPT !.call = "ELFFile"]
  /\ UNCHANGED <<file, elf, bounds, ready>>

IsValid == filep > 0 /\ fileSize > 0 /\ ptr # "null"

RoundUp(a) == (((a + PageSize - 1) % Span64) \div PageSize) * PageSize

\* The header and the tables are read while newFile decides.
NewFileReads ==
  IF file.size >= Ehdr64 THEN Header64
  ELSE IF file.size >= Ehdr32 THEN Header32 ELSE {}

Initialize ==
  /\ last.call = "ELFFile"
  /\ elf' = IF IsValid THEN NewFile(file) ELSE 0
  /\ IF elf' = 0 THEN bounds' = bounds /\ ready' = FALSE
     ELSE LET b == MemoryBounds(file, FALSE) IN
          /\ bounds' = IF b[1] % PageSize # 0 THEN b
                       ELSE <<b[1], RoundUp(b[2])>>
          /\ ready' = (b[1] % PageSize = 0)
  /\ last' = [call |-> "initialize", given |-> {},
              reads |-> IF ~IsValid THEN {} ELSE NewFileReads \union
                UNION {ProgramHeader(file, elf', i) :
                         i \in IF elf' = 0 THEN {} ELSE 0..(file.phnum - 1)}]
  /\ UNCHANGED <<file, filep, fileSize, ptr>>

\* elf_newFile must come first: the library is used on a file it accepted.
Call(name, reads, given) ==
  /\ elf # 0
  /\ last' = [call |-> name, reads |-> reads, given |-> given]
  /\ UNCHANGED <<file, filep, fileSize, ptr, elf, bounds, ready>>

Extent(a, n) == IF a = NullPtr THEN {} ELSE Bytes(a, n)

CallGetSection == \E s \in 0..file.shnum :
  LET r == GetSection(file, elf, s) IN
  Call("getSection", r.reads,
       IF r.ptr = NullPtr THEN {} ELSE Bytes(r.ptr, Sh(file, s).size))

CallGetStringTable ==
  LET r == GetSectionStringTable(file, elf) IN
  Call("getStringTable", r.reads,
       Extent(r.ptr, Sh(file, file.shstrndx).size))

CallGetSectionName == \E s \in 0..(file.shnum - 1) :
  LET r == GetSectionName(file, elf, s) IN
  Call("getSectionName", r.reads,
       IF r.ptr = Corrupted THEN {} ELSE StringAt(file, r.ptr))

CallGetSectionNamed == \E name \in Strings :
  LET r == GetSectionNamed(file, elf, name) IN
  Call("getSectionNamed", r.reads, {})

CallGetProgramSegment == \E i \in 0..(file.phnum - 1) :
  LET r == GetProgramSegment(file, elf, i) IN
  Call("getProgramSegment", r.reads, Extent(r.ptr, Ph(file, i).filesz))

\* The destructor closes and unmaps, whatever the constructor managed to do.
Destruct ==
  /\ last.call # "none" /\ filep # -1
  /\ filep' = -1 /\ fileSize' = 0 /\ ptr' = "null"
  /\ elf' = 0 /\ ready' = FALSE /\ bounds' = <<0, 0>>
  /\ last' = [Nothing EXCEPT !.call = "~ELFFile"]
  /\ UNCHANGED file

Next ==
  \/ Construct \/ Initialize \/ Destruct
  \/ CallGetSection \/ CallGetStringTable \/ CallGetSectionName
  \/ CallGetSectionNamed \/ CallGetProgramSegment

Spec == Init /\ [][Next]_vars

-------------------------------------------------------------------------------
(* Properties. *)

InFile == 0..(file.size - 1)

\* Once elf_newFile has accepted a file, no call reads outside of it, whatever
\* offsets and counts the file names: "must be called to validate the ELF
\* before any other function" is enough.  Nothing is read without a mapping:
\* an ELFFile that initialised is open and mapped.
ReadsInFile ==
  /\ last.reads \subseteq InFile
  /\ ready => filep >= 0 /\ ptr = "mapped" /\ fileSize > 0

\* Nor does a pointer the library returned lead its caller outside, over the
\* whole section, segment, string table or name.
PointersInFile == last.given \subseteq InFile

\* elf_newFile accepts exactly the files whose header is one of the two kinds
\* and whose tables, computed without overflow, lie in the file.
AcceptsExactly ==
  LET Fits(off, n) == off + n <= file.size
      Good(class, ehdr, phdr, shdr) ==
        /\ file.size >= ehdr /\ file.magic /\ file.class = class
        /\ file.phentsize = phdr /\ file.shentsize = shdr
        /\ file.shstrndx \in 0..(file.shnum - 1)
        /\ Fits(file.phoff, phdr * file.phnum)
        /\ Fits(file.shoff, shdr * file.shnum)
  IN NewFile(file) = CASE Good(32, Ehdr32, Phdr32, Shdr32) -> 32
                       [] Good(64, Ehdr64, Phdr64, Shdr64) -> 64
                       [] OTHER -> 0

\* The bounds an initialised ELFFile reports to the loader hold every byte of
\* every segment that does not wrap, from the page the first one starts in.
Segments == {Ph(file, i) : i \in {j \in 0..(file.phnum - 1) :
                                      Ph(file, j).memsz # 0}}
NoWrap == \A p \in Segments :
  p.vaddr + p.memsz + PageSize < Span64 /\ p.paddr + p.memsz < Span64

BoundsTight == ready /\ NoWrap /\ file.phnum > 0 /\ Segments # {} =>
  /\ \A p \in Segments : bounds[1] <= p.vaddr /\ p.vaddr + p.memsz <= bounds[2]
  /\ \E p \in Segments : bounds[1] = p.vaddr
  /\ \E p \in Segments : bounds[2] - (p.vaddr + p.memsz) \in 0..(PageSize - 1)

\* elf_loadFile leaves every segment's bytes of the file where elf_vtop says
\* its addresses are, and zeros behind them, as long as segments do not
\* overlap.
Disjoint == \A i, j \in 0..(file.phnum - 1) : i # j =>
  Bytes(Ph(file, i).paddr, Ph(file, i).memsz) \intersect
  Bytes(Ph(file, j).paddr, Ph(file, j).memsz) = {}
Sound == \A i \in 0..(file.phnum - 1) : Ph(file, i).filesz <= Ph(file, i).memsz

LoadsImage == elf # 0 /\ NoWrap /\ Disjoint /\ Sound =>
  LET mem == LoadFile(file, TRUE) IN
  \A i \in 0..(file.phnum - 1) : LET p == Ph(file, i) IN
    \A v \in 0..(Span64 - 1) :
      /\ VaddrInProgramHeader(file, i, v) <=> v \in Bytes(p.vaddr, p.memsz)
      /\ VaddrInProgramHeader(file, i, v) =>
           LET k == v - p.vaddr IN
           mem[VtopProgramHeader(file, i, v)] =
             IF k < p.filesz THEN p.off + k ELSE ZeroByte
===============================================================================
