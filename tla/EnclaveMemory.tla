----------------------------- MODULE EnclaveMemory -----------------------------
(***************************************************************************)
(* How Keystone::init builds the enclave's address space: the page tables  *)
(* of lib/host/include/page.h, the bump allocator behind epm_free_list,    *)
(* and the loops of loadELF, initStack and loadUntrusted in                *)
(* lib/host/src/keystone.cpp that place every page.                        *)
(*                                                                         *)
(* Addresses count bytes, PageBytes to a page; an address space has        *)
(* Fanout^3 pages, three levels of tables as VA_BITS = 39 gives.  Frames   *)
(* of the enclave's private memory (EPM) are numbered from the root table, *)
(* frame 0, upwards, and frames of the untrusted memory (UTM) from -1      *)
(* downwards.  Table memory holds a valid entry for each record in ptes    *)
(* and invalid entries elsewhere, as the driver hands out zeroed memory.   *)
(***************************************************************************)
EXTENDS Integers, Sequences

CONSTANTS
  Fanout,      \* entries of a table (2^RISCV_PGLEVEL_BITS)
  PageBytes,   \* bytes of a page (PAGE_SIZE)
  TablePages,  \* pages calculate_required_pages() adds for tables (15)
  Layouts      \* the files and parameters init() may be called with

File == {"runtime", "eapp"}
Segment ==
  [load : BOOLEAN, vaddr : Nat, offset : Nat, filesz : Nat, memsz : Nat]
Layout == [runtime : Seq(Segment), eapp : Seq(Segment), stack : Nat,
           stackSize : Nat, untrusted : Nat, untrustedSize : Nat,
           freemem : Nat]

ASSUME SizeAssumption ==
  /\ Fanout \in Nat \ {0}
  /\ PageBytes \in Nat \ {0}
  /\ TablePages \in Nat

VARIABLES
  layout,   \* the files, the stack and the untrusted region of this init()
  pc,       \* the loop init() is in
  file,     \* the ELF file being loaded
  seg,      \* its program header being loaded
  va,       \* the next virtual address of the loop
  ptes,     \* the valid page table entries
  free,     \* epm_free_list, as a frame number
  utmFree,  \* utm_free_list, as a frame number
  memory,   \* what WriteMem put into frames
  start,    \* data_start of each file: the first frame after its tables
  hashed    \* hash_enclave.runtime_paddr and user_paddr: where init() stood
            \* in the free list when it set each of them

vars ==
  <<layout, pc, file, seg, va, ptes, free, utmFree, memory, start, hashed>>

-------------------------------------------------------------------------------
(* Arithmetic on addresses (common.h, page.h). *)

AddressSpace == Fanout * Fanout * Fanout * PageBytes
PageDown(a) == (a \div PageBytes) * PageBytes
PageUp(a) == ((a - 1) \div PageBytes + 1) * PageBytes
IsAligned(a) == a % PageBytes = 0

\* pt_idx(): the index of address a in the table of a level.
Index(a, level) ==
  LET page == a \div PageBytes
  IN  CASE level = 0 -> page % Fanout
        [] level = 1 -> (page \div Fanout) % Fanout
        [] level = 2 -> (page \div (Fanout * Fanout)) % Fanout

(* The bounds of an ELF file over its nonempty headers of any type:
   elf_getMemoryBounds() and initialize(), which rounds the maximum up. *)
Nonempty(segs) == {s \in 1 .. Len(segs) : segs[s].memsz # 0}
MinVaddr(segs) ==
  LET lows == {segs[s].vaddr : s \in Nonempty(segs)}
  IN  CHOOSE m \in lows : \A n \in lows : m <= n
MaxVaddr(segs) ==
  LET highs == {segs[s].vaddr + segs[s].memsz : s \in Nonempty(segs)}
  IN  PageUp(CHOOSE m \in highs : \A n \in highs : m >= n)

Segs(f) == layout[f]

\* min_pages: the size of the EPM, from prepareEnclave() and
\* calculate_required_pages().
MinPages ==
  LET Pages(f) == (MaxVaddr(Segs(f)) - MinVaddr(Segs(f))) \div PageBytes
  IN  PageUp(layout.freemem) \div PageBytes + Pages("eapp") + Pages("runtime")
        + TablePages

\* initialize() refuses a file whose lowest address is inside a page.
ASSUME LayoutAssumption ==
  /\ Layouts \subseteq Layout
  /\ \A l \in Layouts : \A f \in File :
       Nonempty(l[f]) # {} /\ IsAligned(MinVaddr(l[f]))

-------------------------------------------------------------------------------
(* The page table walk. *)

Modes == {"table", "USER_FULL", "RT_FULL", "USER_NOEXEC", "UTM_FULL"}
Entry(tab, idx, to, mode) ==
  [tab |-> tab, idx |-> idx, to |-> to, mode |-> mode]

Slot(entries, tab, idx) == {e \in entries : e.tab = tab /\ e.idx = idx}

\* Mutant: the free list stays where it was.
Descend_NoAdvance(w, idx) ==
  LET slot == Slot(w.ptes, w.at, idx)
  IN  IF slot = {}
      THEN [ptes |-> w.ptes \union {Entry(w.at, idx, w.free, "table")},
            free |-> w.free,
            at |-> w.free]
      ELSE [w EXCEPT !.at = (CHOOSE e \in slot : TRUE).to]

\* One level of the walk: to the table entry idx of w.at points to, which
\* __ept_continue_walk_create() takes from the free list when there is none.
Descend(w, idx) ==
  LET slot == Slot(w.ptes, w.at, idx)
  IN  IF slot = {}
      THEN [ptes |-> w.ptes \union {Entry(w.at, idx, w.free, "table")},
            free |-> w.free + 1,
            at |-> w.free]
      ELSE [w EXCEPT !.at = (CHOOSE e \in slot : TRUE).to]

\* __ept_walk_create(): down to the last table on the way to address a.
WalkCreate(a) ==
  Descend(Descend([ptes |-> ptes, free |-> free, at |-> 0], Index(a, 2)),
          Index(a, 1))

\* Where the last page table entry for address a is, among entries.
Leaf(w, a) == Slot(w.ptes, w.at, Index(a, 0))

\* One iteration of epm_alloc_vspace(): tables for address a, but no page.
AllocTables(a) ==
  LET w == WalkCreate(a)
  IN  /\ ptes' = w.ptes
      /\ free' = w.free
      /\ UNCHANGED <<utmFree, memory>>

\* Mutant: the page is read from the free list before the walk takes its tables.
AllocPage_ReadsFirst(a, mode, bytes) ==
  LET w == WalkCreate(a)
      to == IF mode = "UTM_FULL" THEN utmFree ELSE free
  IN  IF Leaf(w, a) # {}
      THEN /\ ptes' = w.ptes
           /\ free' = w.free
           /\ UNCHANGED <<utmFree, memory>>
      ELSE /\ ptes' = w.ptes \union {Entry(w.at, Index(a, 0), to, mode)}
           /\ free' = IF mode = "UTM_FULL" THEN w.free ELSE w.free + 1
           /\ utmFree' = IF mode = "UTM_FULL" THEN utmFree - 1 ELSE utmFree
           /\ memory' = IF mode = "USER_NOEXEC" THEN memory
                        ELSE memory \union {[frame |-> to, bytes |-> bytes]}

\* Mutant: every region's pages advance the EPM's free list.
AllocPage_OneList(a, mode, bytes) ==
  LET w == WalkCreate(a)
      to == IF mode = "UTM_FULL" THEN utmFree ELSE w.free
  IN  IF Leaf(w, a) # {}
      THEN /\ ptes' = w.ptes
           /\ free' = w.free
           /\ UNCHANGED <<utmFree, memory>>
      ELSE /\ ptes' = w.ptes \union {Entry(w.at, Index(a, 0), to, mode)}
           /\ free' = w.free + 1
           /\ memory' = IF mode = "USER_NOEXEC" THEN memory
                        ELSE memory \union {[frame |-> to, bytes |-> bytes]}
           /\ UNCHANGED utmFree

\* allocPage(): an address that is already mapped keeps its page, and what it
\* holds; otherwise a page is taken from the free list of its region.
AllocPage(a, mode, bytes) ==
  LET w == WalkCreate(a)
      to == IF mode = "UTM_FULL" THEN utmFree ELSE w.free
  IN  IF Leaf(w, a) # {}
      THEN /\ ptes' = w.ptes
           /\ free' = w.free
           /\ UNCHANGED <<utmFree, memory>>
      ELSE /\ ptes' = w.ptes \union {Entry(w.at, Index(a, 0), to, mode)}
           /\ free' = IF mode = "UTM_FULL" THEN w.free ELSE w.free + 1
           /\ utmFree' = IF mode = "UTM_FULL" THEN utmFree - 1 ELSE utmFree
           /\ memory' = IF mode = "USER_NOEXEC" THEN memory
                        ELSE memory \union {[frame |-> to, bytes |-> bytes]}

-------------------------------------------------------------------------------
(* The contents of pages.  A byte of a file is known by its offset. *)

Zero == <<>>
FileByte(f, n) == <<f, n>>
NullPage == [k \in 0 .. PageBytes - 1 |-> Zero]

\* The byte of the file that loadELF takes for address a of segment s.
Source(f, s, a) == FileByte(f, s.offset + (a - s.vaddr))

\* The page at address a: file bytes from address from up to address to.
PageOf(f, s, a, from, to) ==
  [k \in 0 .. PageBytes - 1 |->
     IF from <= a + k /\ a + k < to THEN Source(f, s, a + k) ELSE Zero]

\* getPageMode().
Mode == IF file = "runtime" THEN "RT_FULL" ELSE "USER_FULL"

-------------------------------------------------------------------------------
(* The loops.  loadELF() runs for the runtime and then for the eapp. *)

\* prepareEnclave() has set the root table and the free list behind it.
Init ==
  /\ layout \in Layouts
  /\ pc = "vspace"
  /\ file = "runtime"
  /\ seg = 1
  /\ va = MinVaddr(Segs("runtime"))
  /\ ptes = {}
  /\ free = 1
  /\ utmFree = -1
  /\ memory = {}
  /\ start = [f \in File |-> 0]
  /\ hashed = [f \in File |-> 0]

\* The call of epm_alloc_vspace().
VspacePage ==
  /\ pc = "vspace"
  /\ va < MaxVaddr(Segs(file))
  /\ AllocTables(va)
  /\ va' = va + PageBytes
  /\ UNCHANGED <<layout, pc, file, seg, start, hashed>>

\* Mutant: the data starts behind the first page.
EndVspace_Late ==
  /\ pc = "vspace"
  /\ va >= MaxVaddr(Segs(file))
  /\ start' = [start EXCEPT ![file] = free + 1]
  /\ pc' = "header"
  /\ seg' = 1
  /\ UNCHANGED <<layout, file, va, ptes, free, utmFree, memory, hashed>>

EndVspace ==
  /\ pc = "vspace"
  /\ va >= MaxVaddr(Segs(file))
  /\ start' = [start EXCEPT ![file] = free]
  /\ pc' = "header"
  /\ seg' = 1
  /\ UNCHANGED <<layout, file, va, ptes, free, utmFree, memory, hashed>>

Header == Segs(file)[seg]
FileEnd == Header.vaddr + Header.filesz
MemoryEnd == Header.vaddr + Header.memsz

\* A header that is not PT_LOAD is skipped; a segment that starts on a page
\* boundary goes straight to the loops below.
BeginSegment ==
  /\ pc = "header"
  /\ seg <= Len(Segs(file))
  /\ \/ /\ ~Header.load
        /\ seg' = seg + 1
        /\ UNCHANGED <<pc, va>>
     \/ /\ Header.load
        /\ IsAligned(Header.vaddr)
        /\ va' = Header.vaddr
        /\ pc' = "pages"
        /\ UNCHANGED seg
  /\ UNCHANGED <<layout, file, ptes, free, utmFree, memory, start, hashed>>

\* The page a misaligned segment starts in is filled to its end from the file,
\* whatever the file size.
BeginMisaligned ==
  /\ pc = "header"
  /\ seg <= Len(Segs(file))
  /\ Header.load
  /\ ~IsAligned(Header.vaddr)
  /\ LET a == PageDown(Header.vaddr)
     IN  AllocPage(a, Mode,
                   PageOf(file, Header, a, Header.vaddr, a + PageBytes))
  /\ va' = PageUp(Header.vaddr)
  /\ pc' = "pages"
  /\ UNCHANGED <<layout, file, seg, start, hashed>>

\* Mutant: the last page of the file is loaded whole.
FilePage_Whole ==
  /\ pc = "pages"
  /\ va < FileEnd
  /\ AllocPage(va, Mode, PageOf(file, Header, va, va, va + PageBytes))
  /\ va' = va + PageBytes
  /\ UNCHANGED <<layout, pc, file, seg, start, hashed>>

\* Pages with no .bss, then the page with the last bytes of the file.
FilePage ==
  /\ pc = "pages"
  /\ va < FileEnd
  /\ AllocPage(va, Mode, PageOf(file, Header, va, va, FileEnd))
  /\ va' = va + PageBytes
  /\ UNCHANGED <<layout, pc, file, seg, start, hashed>>

\* The remaining pages of .bss.
BssPage ==
  /\ pc = "pages"
  /\ va >= FileEnd
  /\ va < MemoryEnd
  /\ AllocPage(va, Mode, NullPage)
  /\ va' = va + PageBytes
  /\ UNCHANGED <<layout, pc, file, seg, start, hashed>>

\* Mutant: the loop stays on its header.
EndSegment_SameHeader ==
  /\ pc = "pages"
  /\ va >= FileEnd
  /\ va >= MemoryEnd
  /\ pc' = "header"
  /\ UNCHANGED <<layout, file, seg, va, ptes, free, utmFree, memory, start,
                 hashed>>

EndSegment ==
  /\ pc = "pages"
  /\ va >= FileEnd
  /\ va >= MemoryEnd
  /\ pc' = "header"
  /\ seg' = seg + 1
  /\ UNCHANGED <<layout, file, va, ptes, free, utmFree, memory, start, hashed>>

StackHigh == PageUp(layout.stack)
StackLow == PageDown(StackHigh - layout.stackSize)

\* loadELF() returns: next the eapp, then initStack().
EndFile ==
  /\ pc = "header"
  /\ seg > Len(Segs(file))
  /\ hashed' = [hashed EXCEPT ![file] = free]
  /\ \/ /\ file = "runtime"
        /\ file' = "eapp"
        /\ pc' = "vspace"
        /\ va' = MinVaddr(Segs("eapp"))
     \/ /\ file = "eapp"
        /\ pc' = "stack"
        /\ va' = StackLow
        /\ UNCHANGED file
  /\ UNCHANGED <<layout, seg, ptes, free, utmFree, memory, start>>

StackPage ==
  /\ pc = "stack"
  /\ va < StackHigh
  /\ AllocPage(va, "USER_NOEXEC", NullPage)
  /\ va' = va + PageBytes
  /\ UNCHANGED <<layout, pc, file, seg, start, hashed>>

\* Mutant: the end is that of the region's last whole page.
UntrustedEnd_Short ==
  PageDown(layout.untrusted + layout.untrustedSize - 1) % AddressSpace

\* The end of the untrusted region wraps around at the top of the space.
UntrustedEnd ==
  PageUp(layout.untrusted + layout.untrustedSize) % AddressSpace

EndStack ==
  /\ pc = "stack"
  /\ va >= StackHigh
  /\ pc' = "untrusted"
  /\ va' = PageDown(layout.untrusted)
  /\ UNCHANGED <<layout, file, seg, ptes, free, utmFree, memory, start, hashed>>

\* loadUntrusted(), whose tables come from the EPM.
UntrustedPage ==
  /\ pc = "untrusted"
  /\ va < UntrustedEnd
  /\ AllocPage(va, "UTM_FULL", NullPage)
  /\ va' = va + PageBytes
  /\ UNCHANGED <<layout, pc, file, seg, start, hashed>>

EndUntrusted ==
  /\ pc = "untrusted"
  /\ va >= UntrustedEnd
  /\ pc' = "done"
  /\ UNCHANGED <<layout, file, seg, va, ptes, free, utmFree, memory, start,
                 hashed>>

Next ==
  \/ VspacePage
  \/ EndVspace
  \/ BeginSegment
  \/ BeginMisaligned
  \/ FilePage
  \/ BssPage
  \/ EndSegment
  \/ EndFile
  \/ StackPage
  \/ EndStack
  \/ UntrustedPage
  \/ EndUntrusted

Spec == Init /\ [][Next]_vars /\ WF_vars(Next)

-------------------------------------------------------------------------------
(* Properties. *)

\* The variables keep to their types; a table is a frame of the EPM below the
\* free list, and a slot of it holds one entry.
TypeOK ==
  /\ layout \in Layouts
  /\ pc \in {"vspace", "header", "pages", "stack", "untrusted", "done"}
  /\ file \in File
  /\ seg \in Nat \ {0}
  /\ va \in Int
  /\ ptes \subseteq [tab : 0 .. free - 1, idx : 0 .. Fanout - 1, to : Int,
                     mode : Modes]
  /\ \A e, d \in ptes : e.tab = d.tab /\ e.idx = d.idx => e = d
  /\ free \in Nat \ {0}
  /\ utmFree \in Int
  /\ start \in [File -> Nat]
  /\ hashed \in [File -> Nat]

\* Every frame is mapped at most once: no frame, table or page, is the target of
\* two entries, and the root table of none.
AtMostOnce ==
  /\ \A e, d \in ptes : e.to = d.to => e = d
  /\ \A e \in ptes : e.to # 0

\* A page the enclave can write is never one of its page tables.
PagesAreNotTables ==
  \A e, d \in ptes : e.mode # "table" => d.tab # e.to

\* The entry, the frame and the contents the page tables give address a.
Child(tab, idx) == {e.to : e \in Slot(ptes, tab, idx)}
Leaves(a) ==
  UNION {UNION {Slot(ptes, t0, Index(a, 0)) : t0 \in Child(t1, Index(a, 1))} :
           t1 \in Child(0, Index(a, 2))}
Frames(a) == {e.to : e \in Leaves(a)}
Byte(a) ==
  {m.bytes[a % PageBytes] : m \in {m \in memory : m.frame \in Frames(a)}}

\* Every byte of every PT_LOAD segment is where its address says: the bytes of
\* the file, and zeroes up to the memory size.
SegmentsLoaded ==
  pc = "done" =>
    \A f \in File : \A i \in 1 .. Len(Segs(f)) :
      LET s == Segs(f)[i]
      IN  s.load =>
            \A a \in s.vaddr .. s.vaddr + s.memsz - 1 :
              Byte(a) =
                {IF a < s.vaddr + s.filesz THEN Source(f, s, a) ELSE Zero}

\* The untrusted region is mapped onto the host's shared buffer in order.
UntrustedInOrder ==
  pc = "done" =>
    \A k \in 0 .. layout.untrustedSize - 1 :
      Frames(layout.untrusted + k) =
        {-1 - ((layout.untrusted + k) \div PageBytes
                 - layout.untrusted \div PageBytes)}

(* What validate_and_hash_epm() of hash_util.h accepts, given the frames the
   runtime, the eapp and the free memory start at: every frame that is not of
   the UTM is in the EPM, every page is in one of three regions, only pages of
   the user are in the user's, the untrusted addresses map the UTM alone, and in
   the runtime's and in the user's region a page of a higher address has a
   higher frame. *)
PageAddresses == {p * PageBytes : p \in 0 .. Fanout * Fanout * Fanout - 1}
Mapped == UNION {{<<a, e>> : e \in Leaves(a)} : a \in PageAddresses}
InUntrusted(a) ==
  layout.untrusted <= a /\ a < layout.untrusted + layout.untrustedSize
InUtm(frame) == frame < 0 /\ (-1 - frame) * PageBytes < layout.untrustedSize

ValidMappings(runtime, user, end) ==
  LET InRuntime(frame) == runtime <= frame /\ frame < user
      InUser(frame) == user <= frame /\ frame < end
      Ascending(In(_)) ==
        \A m, n \in Mapped :
          m[1] < n[1] /\ In(m[2].to) /\ In(n[2].to) => m[2].to < n[2].to
  IN  /\ \A e \in ptes : e.to < MinPages
      /\ \A m \in Mapped :
           LET frame == m[2].to
           IN  /\ InRuntime(frame) \/ InUser(frame) \/ InUtm(frame)
               /\ InUser(frame) => m[2].mode \in {"USER_FULL", "USER_NOEXEC"}
               /\ InUntrusted(m[1]) => InUtm(frame)
      /\ Ascending(InRuntime)
      /\ Ascending(InUser)

\* The regions init() names when it finalizes the enclave validate: a driver and
\* a monitor that check as hash_util.h does accept every enclave that is loaded.
RegionsValidate ==
  pc = "done" => ValidMappings(start["runtime"], start["eapp"], free)

\* "This will walk the entire vaddr space in the enclave, validating linear
\* at-most-once paddr mappings, and then hashing valid pages"
\* (hash_util.h:33-34): the regions init() names when the enclave is simulated
\* validate, for some end that pt_ptr, which is never set, makes of free_paddr.
SimulationValidates ==
  pc = "done" =>
    \E end \in 0 .. free : ValidMappings(hashed["runtime"], hashed["eapp"], end)

\* init() is over: the loops come to an end.
LoadingEnds == <>(pc = "done")
================================================================================
