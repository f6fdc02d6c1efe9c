--------------------------------- MODULE MCElf ---------------------------------
(***************************************************************************)
(* Files of at most twelve bytes, with headers of two bytes.  One family   *)
(* varies the header and where the tables are, one the sections, one the   *)
(* segments.                                                               *)
(***************************************************************************)
EXTENDS ElfFile

Plain == [size |-> 12, magic |-> TRUE, class |-> 64, phoff |-> 2,
          phentsize |-> 3, phnum |-> 1, shoff |-> 5, shentsize |-> 2,
          shnum |-> 2, shstrndx |-> 1, nul |-> {11},
          ph |-> <<[off |-> 9, filesz |-> 1, vaddr |-> 4, paddr |-> 8,
                    memsz |-> 2]>>,
          sh |-> <<[type |-> "NULL", off |-> 0, size |-> 0, name |-> 0],
                   [type |-> "STRTAB", off |-> 9, size |-> 3, name |-> 1]>>]

Headers ==
  {[Plain EXCEPT !.size = s, !.magic = g, !.class = c, !.phoff = po,
                 !.phnum = pn, !.shoff = so, !.shnum = sn, !.shstrndx = x,
                 !.phentsize = pe, !.shentsize = se,
                 !.nul = @ \intersect Bytes(0, s)] :
     s \in {1, 9, 12}, g \in BOOLEAN, c \in {32, 64, 1},
     po \in {0, 9, 10, 14, 61}, pn \in {0, 1}, so \in {0, 8, 9, 15, 60, 63},
     sn \in {0, 1, 2}, x \in {0, 1}, pe \in {2, 3}, se \in {2}}

Sections ==
  {[Plain EXCEPT !.class = c, !.phentsize = IF c = 32 THEN 2 ELSE 3,
                 !.nul = z, !.sh[1].name = n0,
                 !.sh[2] = [type |-> t, off |-> o, size |-> s, name |-> n1]] :
     c \in {32, 64}, z \in {{11}, {9}, {}}, n0 \in {0, 1},
     t \in {"STRTAB", "PROGBITS"}, o \in {0, 9, 11, 12, 63},
     s \in {0, 1, 3, 60}, n1 \in {0, 2, 4}}

Segs == [off : {0, 10, 63}, filesz : {0, 2, 60}, vaddr : {0, 5, 60},
         paddr : {8}, memsz : {0, 1, 3}]

TwoSegments ==
  {[Plain EXCEPT !.phoff = 0, !.shoff = 6, !.phnum = 2,
                 !.ph = <<p, [q EXCEPT !.paddr = a, !.vaddr = v]>>] :
     p \in Segs, q \in {r \in Segs : r.vaddr = 0}, a \in {11, 16},
     v \in {2, 8}}

\* The fields of a 32-bit file have 32 bits.
Narrow(f) == f.class = 32 => f.phoff < Span32 /\ f.shoff < Span32

MCFiles == {f \in Headers : Narrow(f)} \union TwoSegments
             \union {f \in Sections : NamesInTable(f)}
AllFiles == Sections
===============================================================================
