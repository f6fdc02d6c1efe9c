------------------------- MODULE EnclaveMemoryProofs -------------------------
(***************************************************************************)
(* Proofs about EnclaveMemory for address spaces of any size and for any   *)
(* files.  The page tables are a tree of three levels: entries of the root *)
(* and of the tables it points to are never pages.  For layouts whose      *)
(* regions share no page, what init() leaves in memory follows, and for    *)
(* those that also are in order and fit, that the regions it names when it *)
(* finalizes the enclave pass the check of hash_util.h.                    *)
(***************************************************************************)
EXTENDS EnclaveMemory, TLAPS, WellFoundedInduction, FiniteSetTheorems

\* Slots hold one entry, and frames are taken from the free lists and mapped
\* once.
Placed(entries, bound, low) ==
  /\ entries \subseteq [tab : 0 .. bound - 1, idx : 0 .. Fanout - 1, to : Int,
                        mode : Modes]
  /\ \A e, d \in entries : e.tab = d.tab /\ e.idx = d.idx => e = d
  /\ \A e \in entries : e.mode = "UTM_FULL" => low < e.to /\ e.to < 0
  /\ \A e \in entries : e.mode # "UTM_FULL" => 0 < e.to /\ e.to < bound
  /\ \A e, d \in entries : e.to = d.to => e = d

\* The tables built so far are a tree: one that is not the root is pointed to,
\* and pages are only entered two levels below the root.
Tree(entries, bound, low) ==
  /\ Placed(entries, bound, low)
  /\ \A e \in entries :
       e.tab # 0 => \E d \in entries : d.to = e.tab /\ d.mode = "table"
  /\ \A e \in entries : e.tab = 0 => e.mode = "table"
  /\ \A e, d \in entries : e.tab = 0 /\ d.tab = e.to => d.mode = "table"

\* Frame t is a table the root points to, or one such a table points to.
MiddleTable(entries, t) == \E e \in entries : e.tab = 0 /\ e.to = t
LastTable(entries, t) ==
  \E e \in entries : e.to = t /\ e.mode = "table" /\ MiddleTable(entries, e.tab)

TreeInv == TypeOK /\ utmFree < 0 /\ Tree(ptes, free, utmFree)

-------------------------------------------------------------------------------
(* Arithmetic. *)

\* pt_idx() stays within a table.
LEMMA IndexRange ==
  ASSUME NEW a \in Int, NEW level \in 0 .. 2
  PROVE  Index(a, level) \in 0 .. Fanout - 1
<1> DEFINE page == a \div PageBytes
<1>1. page \in Int
  BY SizeAssumption
<1>2. \A n \in Int : n % Fanout \in 0 .. Fanout - 1
  BY SizeAssumption
<1>3. Fanout * Fanout \in Nat /\ Fanout * Fanout > 0
  BY SizeAssumption
<1>4. page \div Fanout \in Int /\ page \div (Fanout * Fanout) \in Int
  BY <1>1, <1>3, SizeAssumption
<1> HIDE DEF page
<1>5. CASE level = 0
  BY <1>1, <1>2, <1>5 DEF Index, page
<1>6. CASE level = 1
  BY <1>4, <1>2, <1>6 DEF Index, page
<1>7. CASE level = 2
  BY <1>4, <1>2, <1>7 DEF Index, page
<1>8. QED
  BY <1>5, <1>6, <1>7

\* Rounding yields an address.
LEMMA RoundingType ==
  ASSUME NEW a \in Int
  PROVE  PageDown(a) \in Int /\ PageUp(a) \in Int
<1>1. a \div PageBytes \in Int /\ (a - 1) \div PageBytes \in Int
  BY SizeAssumption
<1>2. QED
  BY <1>1, SizeAssumption DEF PageDown, PageUp

\* Loadable files have a lowest address.
LEMMA MinVaddrType ==
  ASSUME NEW l \in Layouts, NEW f \in File
  PROVE  l[f] \in Seq(Segment) /\ MinVaddr(l[f]) \in Nat
<1>1. l[f] \in Seq(Segment)
  BY LayoutAssumption DEF Layout, File
<1> DEFINE lows == {l[f][s].vaddr : s \in Nonempty(l[f])}
<1>2. \A s \in 1 .. Len(l[f]) : l[f][s] \in Segment
  BY <1>1
<1>3. lows \subseteq Nat
  BY <1>2 DEF Nonempty, Segment
<1>4. lows # {}
  BY LayoutAssumption DEF Nonempty
<1>5. \E m \in lows : \A n \in lows : m <= n
  <2> HIDE DEF lows
  <2> QED
    <3>1. PICK m \in lows : \A n \in lows : <<n, m>> \notin OpToRel(<, Nat)
      BY <1>3, <1>4, WFMin, NatLessThanWellFounded, Zenon
    <3>2. \A n \in lows : ~(n < m)
      BY <1>3, <3>1, Zenon DEF OpToRel
    <3>3. QED
      BY <1>3, <3>2
<1>6. QED
  BY <1>1, <1>3, <1>5 DEF MinVaddr

-------------------------------------------------------------------------------
(* The walk. *)

\* An entry for the next free frame in an empty slot is well placed.
LEMMA NewEntry ==
  ASSUME NEW p, NEW f \in Nat \ {0}, NEW low \in Int, low < 0,
         Placed(p, f, low),
         NEW tab \in 0 .. f - 1, NEW idx \in 0 .. Fanout - 1,
         Slot(p, tab, idx) = {}, NEW mode \in Modes, NEW new,
         NEW g \in Nat, NEW l \in Int,
         \/ /\ mode = "UTM_FULL"
            /\ new = Entry(tab, idx, low, mode)
            /\ g = f
            /\ l = low - 1
         \/ /\ mode # "UTM_FULL"
            /\ new = Entry(tab, idx, f, mode)
            /\ g = f + 1
            /\ l = low
  PROVE  Placed(p \union {new}, g, l)
<1>1. \A e \in p :
        e \in [tab : 0 .. f - 1, idx : 0 .. Fanout - 1, to : Int, mode : Modes]
  BY DEF Placed
<1>2. \A e \in p : e.tab \in 0 .. g - 1 /\ e.to # new.to /\ e.to \in Int
  BY <1>1 DEF Placed, Entry
<1>3. new \in [tab : 0 .. g - 1, idx : 0 .. Fanout - 1, to : Int, mode : Modes]
  BY DEF Entry
<1>4. \A e \in p :
        e \in [tab : 0 .. g - 1, idx : 0 .. Fanout - 1, to : Int, mode : Modes]
  BY <1>1
<1>5. \A e \in p : ~(e.tab = new.tab /\ e.idx = new.idx)
  BY DEF Slot, Entry
<1>6. \A e, d \in p \union {new} : e.tab = d.tab /\ e.idx = d.idx => e = d
  BY <1>5 DEF Placed
<1>7. \A e, d \in p \union {new} : e.to = d.to => e = d
  BY <1>2 DEF Placed
<1>8. \A e \in p \union {new} : e.mode = "UTM_FULL" => l < e.to /\ e.to < 0
  BY <1>2 DEF Placed, Entry
<1>9. \A e \in p \union {new} : e.mode # "UTM_FULL" => 0 < e.to /\ e.to < g
  BY <1>2 DEF Placed, Entry
<1>10. QED
  BY <1>3, <1>4, <1>6, <1>7, <1>8, <1>9 DEF Placed

\* The step of the walk from the root leaves a tree and ends in a table the root
\* points to.
LEMMA DescendFromRoot ==
  ASSUME NEW p, NEW f \in Nat \ {0}, NEW low \in Int, low < 0,
         Tree(p, f, low), NEW idx \in 0 .. Fanout - 1, NEW w,
         w = Descend([ptes |-> p, free |-> f, at |-> 0], idx)
  PROVE  /\ w = [ptes |-> w.ptes, free |-> w.free, at |-> w.at]
         /\ w.free \in Nat \ {0}
         /\ Tree(w.ptes, w.free, low)
         /\ MiddleTable(w.ptes, w.at)
<1>1. CASE Slot(p, 0, idx) = {}
  <2> DEFINE new == Entry(0, idx, f, "table")
             q == p \union {new}
  <2>1. w = [ptes |-> q, free |-> f + 1, at |-> f]
    BY <1>1 DEF Descend
  <2>2. Tree(q, f + 1, low)
    <3>1. \A e \in q :
            e.tab # 0 => \E d \in q : d.to = e.tab /\ d.mode = "table"
      BY DEF Tree, Placed, Entry
    <3>2. \A e \in q : e.tab = 0 => e.mode = "table"
      BY DEF Tree, Placed, Entry
    <3>3. \A d \in q : d.tab # new.to
      BY DEF Tree, Placed, Entry
    <3>4. \A e, d \in q : e.tab = 0 /\ d.tab = e.to => d.mode = "table"
      BY <3>3 DEF Tree, Placed, Entry
    <3>5. "table" \in Modes /\ "table" # "UTM_FULL" /\ 0 \in 0 .. f - 1
            /\ f + 1 \in Nat
      BY DEF Modes
    <3>6. new = Entry(0, idx, f, "table") /\ Placed(p, f, low)
      BY DEF Tree
    <3> HIDE DEF new
    <3>7. Placed(p \union {new}, f + 1, low)
      BY <1>1, <3>5, <3>6, NewEntry, Zenon
    <3>8. QED
      BY <3>1, <3>2, <3>4, <3>7 DEF Tree
  <2>3. MiddleTable(q, f)
    <3>1. new \in q /\ new.tab = 0 /\ new.to = f
      BY DEF Entry
    <3> HIDE DEF new, q
    <3>2. QED
      BY <3>1 DEF MiddleTable
  <2>4. QED
    <3> HIDE DEF q
    <3>1. QED
      BY <2>1, <2>2, <2>3
<1>2. CASE Slot(p, 0, idx) # {}
  <2>1. PICK e \in Slot(p, 0, idx) :
          w = [ptes |-> p, free |-> f, at |-> e.to]
    BY <1>2 DEF Descend
  <2>2. e \in p /\ e.tab = 0
    BY <2>1 DEF Slot
  <2>3. QED
    BY <2>1, <2>2 DEF MiddleTable
<1>3. QED
  BY <1>1, <1>2

\* The step from such a table leaves a tree and ends in a last table.
LEMMA DescendFromMiddle ==
  ASSUME NEW p, NEW f \in Nat \ {0}, NEW low \in Int, low < 0,
         Tree(p, f, low), NEW t, MiddleTable(p, t),
         NEW idx \in 0 .. Fanout - 1, NEW w,
         w = Descend([ptes |-> p, free |-> f, at |-> t], idx)
  PROVE  /\ w.free \in Nat \ {0}
         /\ Tree(w.ptes, w.free, low)
         /\ LastTable(w.ptes, w.at)
<1>1. PICK c \in p : c.tab = 0 /\ c.to = t
  BY DEF MiddleTable
<1>2. t \in 1 .. f - 1 /\ c.mode = "table"
  BY <1>1 DEF Tree, Placed
<1>3. CASE Slot(p, t, idx) = {}
  <2> DEFINE new == Entry(t, idx, f, "table")
             q == p \union {new}
  <2>1. w = [ptes |-> q, free |-> f + 1, at |-> f]
    BY <1>3 DEF Descend
  <2>2. Tree(q, f + 1, low)
    <3>1. \A e \in q :
            e.tab # 0 => \E d \in q : d.to = e.tab /\ d.mode = "table"
      BY <1>1, <1>2 DEF Tree, Placed, Entry
    <3>2. \A e \in q : e.tab = 0 => e.mode = "table"
      BY DEF Tree, Placed, Entry
    <3>3. \A e, d \in q : e.tab = 0 /\ d.tab = e.to => d.mode = "table"
      BY <1>2 DEF Tree, Placed, Entry
    <3>4. "table" \in Modes /\ "table" # "UTM_FULL" /\ t \in 0 .. f - 1
            /\ f + 1 \in Nat
      BY <1>2 DEF Modes
    <3>5. new = Entry(t, idx, f, "table") /\ Placed(p, f, low)
      BY DEF Tree
    <3> HIDE DEF new
    <3>6. Placed(p \union {new}, f + 1, low)
      BY <1>3, <3>4, <3>5, NewEntry, Zenon
    <3>7. QED
      BY <3>1, <3>2, <3>3, <3>6 DEF Tree
  <2>3. LastTable(q, f)
    <3>1. new \in q /\ new.to = f /\ new.mode = "table" /\ new.tab = t
      BY DEF Entry
    <3>2. MiddleTable(q, t)
      BY <1>1 DEF MiddleTable
    <3> HIDE DEF q, new
    <3>3. QED
      BY <3>1, <3>2 DEF LastTable
  <2>4. QED
    <3> HIDE DEF q
    <3>1. QED
      BY <2>1, <2>2, <2>3
<1>4. CASE Slot(p, t, idx) # {}
  <2>1. PICK e \in Slot(p, t, idx) :
          w = [ptes |-> p, free |-> f, at |-> e.to]
    BY <1>4 DEF Descend
  <2>2. e \in p /\ e.tab = t
    BY <2>1 DEF Slot
  <2>3. e.mode = "table"
    BY <1>1, <2>2 DEF Tree, Placed
  <2>4. QED
    BY <2>1, <2>2, <2>3 DEF LastTable
<1>5. QED
  BY <1>3, <1>4

\* __ept_walk_create() leaves a tree and ends in a last table.
LEMMA WalkKeepsTree ==
  ASSUME TreeInv, NEW a \in Int, NEW w, w = WalkCreate(a)
  PROVE  /\ w.free \in Nat \ {0}
         /\ Tree(w.ptes, w.free, utmFree)
         /\ LastTable(w.ptes, w.at)
<1> DEFINE v == Descend([ptes |-> ptes, free |-> free, at |-> 0], Index(a, 2))
<1>1. Index(a, 1) \in 0 .. Fanout - 1 /\ Index(a, 2) \in 0 .. Fanout - 1
  BY IndexRange
<1>2. /\ free \in Nat \ {0}
      /\ utmFree \in Int
      /\ utmFree < 0
      /\ Tree(ptes, free, utmFree)
  BY DEF TreeInv, TypeOK
<1> HIDE DEF v
<1>3. /\ v = [ptes |-> v.ptes, free |-> v.free, at |-> v.at]
      /\ v.free \in Nat \ {0}
      /\ Tree(v.ptes, v.free, utmFree)
      /\ MiddleTable(v.ptes, v.at)
  BY <1>1, <1>2, DescendFromRoot DEF v
<1>4. w = Descend(v, Index(a, 1))
  BY DEF WalkCreate, v
<1>5. QED
  BY <1>1, <1>2, <1>3, <1>4, DescendFromMiddle

\* A page entered in an empty slot of a last table keeps the tree.
LEMMA NewPage ==
  ASSUME NEW p, NEW f \in Nat \ {0}, NEW low \in Int, low < 0,
         Tree(p, f, low), NEW tab, LastTable(p, tab),
         NEW idx \in 0 .. Fanout - 1, Slot(p, tab, idx) = {},
         NEW mode \in Modes \ {"table"}, NEW new,
         NEW g \in Nat, NEW l \in Int,
         \/ /\ mode = "UTM_FULL"
            /\ new = Entry(tab, idx, low, mode)
            /\ g = f
            /\ l = low - 1
         \/ /\ mode # "UTM_FULL"
            /\ new = Entry(tab, idx, f, mode)
            /\ g = f + 1
            /\ l = low
  PROVE  Tree(p \union {new}, g, l)
<1> DEFINE q == p \union {new}
<1>1. PICK e \in p : e.to = tab /\ e.mode = "table" /\ MiddleTable(p, e.tab)
  BY DEF LastTable
<1>2. PICK c \in p : c.tab = 0 /\ c.to = e.tab
  BY <1>1 DEF MiddleTable
<1>3. tab \in 1 .. f - 1 /\ e.tab # 0
  BY <1>1, <1>2 DEF Tree, Placed, Modes
<1>4. new.tab = tab /\ new.mode = mode
  BY DEF Entry
<1>5. Placed(q, g, l)
  <2>1. tab \in 0 .. f - 1 /\ mode \in Modes /\ Placed(p, f, low)
    BY <1>3 DEF Tree
  <2>2. QED
    BY <2>1, NewEntry, Zenon
<1>6. \A b \in q : b.tab # 0 => \E d \in q : d.to = b.tab /\ d.mode = "table"
  BY <1>1, <1>4 DEF Tree
<1>7. \A b \in q : b.tab = 0 => b.mode = "table"
  BY <1>3, <1>4 DEF Tree
<1>8. \A b \in p : b.tab = 0 => b.to # new.tab
  BY <1>1, <1>3, <1>4 DEF Tree, Placed
<1>9. \A b, d \in q : b.tab = 0 /\ d.tab = b.to => d.mode = "table"
  BY <1>3, <1>4, <1>8 DEF Tree
<1>10. QED
  <2> HIDE DEF q
  <2>1. QED
    BY <1>5, <1>6, <1>7, <1>9 DEF Tree, q

\* What a tree says of the type of its entries.
LEMMA TreeTyped ==
  ASSUME NEW p, NEW f \in Nat \ {0}, NEW low \in Int, Tree(p, f, low)
  PROVE  /\ p \subseteq [tab : 0 .. f - 1, idx : 0 .. Fanout - 1, to : Int,
                         mode : Modes]
         /\ \A e, d \in p : e.tab = d.tab /\ e.idx = d.idx => e = d
BY DEF Tree, Placed

\* What an iteration of a loop does to the tree; the rest of the state is typed.
TreeStep ==
  /\ free' \in Nat \ {0}
  /\ utmFree' \in Int
  /\ utmFree' < 0
  /\ Tree(ptes', free', utmFree')

\* An iteration of epm_alloc_vspace() keeps the tree.
LEMMA AllocTablesKeepsTree ==
  ASSUME TreeInv, NEW a \in Int, AllocTables(a)
  PROVE  TreeStep
<1> DEFINE w == WalkCreate(a)
<1>1. w.free \in Nat \ {0} /\ Tree(w.ptes, w.free, utmFree)
  BY WalkKeepsTree
<1>2. ptes' = w.ptes /\ free' = w.free /\ utmFree' = utmFree
  BY DEF AllocTables
<1>3. QED
  BY <1>1, <1>2 DEF TreeStep, TreeInv, TypeOK

\* allocPage() keeps the tree.
LEMMA AllocPageKeepsTree ==
  ASSUME TreeInv, NEW a \in Int, NEW mode \in Modes \ {"table"}, NEW bytes,
         AllocPage(a, mode, bytes)
  PROVE  TreeStep
<1> DEFINE w == WalkCreate(a)
           to == IF mode = "UTM_FULL" THEN utmFree ELSE w.free
           new == Entry(w.at, Index(a, 0), to, mode)
<1>1. /\ w.free \in Nat \ {0}
      /\ Tree(w.ptes, w.free, utmFree)
      /\ LastTable(w.ptes, w.at)
  BY WalkKeepsTree
<1>2. utmFree \in Int /\ utmFree < 0
  BY DEF TreeInv, TypeOK
<1>3. CASE Leaf(w, a) # {}
  <2>1. ptes' = w.ptes /\ free' = w.free /\ utmFree' = utmFree
    BY <1>3 DEF AllocPage
  <2>2. QED
    BY <1>1, <1>2, <2>1 DEF TreeStep
<1>4. CASE Leaf(w, a) = {}
  <2>1. /\ ptes' = w.ptes \union {new}
        /\ free' = IF mode = "UTM_FULL" THEN w.free ELSE w.free + 1
        /\ utmFree' = IF mode = "UTM_FULL" THEN utmFree - 1 ELSE utmFree
    BY <1>4 DEF AllocPage
  <2>2. Index(a, 0) \in 0 .. Fanout - 1
    BY IndexRange
  <2>3. Slot(w.ptes, w.at, Index(a, 0)) = {}
    BY <1>4 DEF Leaf
  <2> HIDE DEF w
  <2>4. CASE mode = "UTM_FULL"
    <3>1. /\ free' = w.free
          /\ utmFree' = utmFree - 1
          /\ new = Entry(w.at, Index(a, 0), utmFree, mode)
          /\ w.free \in Nat /\ utmFree - 1 \in Int /\ utmFree - 1 < 0
      BY <1>1, <1>2, <2>1, <2>4
    <3> HIDE DEF new
    <3>2. Tree(w.ptes \union {new}, free', utmFree')
      BY <1>1, <1>2, <2>2, <2>3, <2>4, <3>1, NewPage, Zenon
    <3>3. QED
      BY <1>1, <1>2, <2>1, <3>1, <3>2 DEF TreeStep
  <2>5. CASE mode # "UTM_FULL"
    <3>1. /\ free' = w.free + 1
          /\ utmFree' = utmFree
          /\ new = Entry(w.at, Index(a, 0), w.free, mode)
          /\ w.free + 1 \in Nat /\ w.free + 1 # 0
      BY <1>1, <2>1, <2>5
    <3> HIDE DEF new
    <3>2. Tree(w.ptes \union {new}, free', utmFree')
      BY <1>1, <1>2, <2>2, <2>3, <2>5, <3>1, NewPage, Zenon
    <3>3. QED
      BY <1>1, <1>2, <2>1, <3>1, <3>2 DEF TreeStep
  <2>6. QED
    BY <2>4, <2>5
<1>5. QED
  BY <1>3, <1>4

-------------------------------------------------------------------------------
(* The loops. *)

\* The part of the type invariant that does not speak of the page tables.
Rest ==
  /\ layout \in Layouts
  /\ pc \in {"vspace", "header", "pages", "stack", "untrusted", "done"}
  /\ file \in File
  /\ seg \in Nat \ {0}
  /\ va \in Int
  /\ start \in [File -> Nat]
  /\ hashed \in [File -> Nat]

\* The addresses the loops start from are addresses.
LEMMA AddressTypes ==
  ASSUME TypeOK
  PROVE  /\ \A f \in File : MinVaddr(Segs(f)) \in Int
         /\ seg <= Len(Segs(file)) => Header.vaddr \in Int
         /\ StackLow \in Int
         /\ PageDown(layout.untrusted) \in Int
<1>1. \A f \in File : MinVaddr(Segs(f)) \in Int /\ Segs(f) \in Seq(Segment)
  BY MinVaddrType DEF TypeOK, Segs
<1>2. seg <= Len(Segs(file)) => Header \in Segment
  BY <1>1 DEF TypeOK, Header
<1>3. /\ layout.stack \in Int
      /\ layout.stackSize \in Int
      /\ layout.untrusted \in Int
  BY LayoutAssumption DEF TypeOK, Layout
<1>4. StackHigh \in Int
  BY <1>3, RoundingType DEF StackHigh
<1>5. StackLow \in Int
  <2>1. StackHigh - layout.stackSize \in Int
    BY <1>3, <1>4
  <2>2. QED
    BY <2>1, RoundingType DEF StackLow
<1>6. seg <= Len(Segs(file)) => Header.vaddr \in Int
  BY <1>2 DEF Segment
<1>7. PageDown(layout.untrusted) \in Int
  BY <1>3, RoundingType
<1>8. QED
  BY <1>1, <1>5, <1>6, <1>7

\* prepareEnclave() leaves an empty root table.
LEMMA TreeInvInit == Init => TreeInv
<1> SUFFICES ASSUME Init PROVE TreeInv
  OBVIOUS
<1>1. MinVaddr(Segs("runtime")) \in Int
  BY MinVaddrType DEF Init, Segs, File
<1>2. TypeOK
  BY <1>1 DEF Init, TypeOK, File
<1>3. Tree(ptes, free, utmFree)
  BY DEF Init, Tree, Placed
<1>4. QED
  BY <1>2, <1>3 DEF Init, TreeInv

\* Only the loops' bodies touch the page tables; a step of any of them or of the
\* code between them keeps the tree and the types.
LEMMA TreeInvStep == TreeInv /\ [Next]_vars => TreeInv'
<1> SUFFICES ASSUME TreeInv, [Next]_vars PROVE TreeInv'
  OBVIOUS
<1>1. TypeOK /\ va \in Int /\ PageBytes \in Nat /\ va + PageBytes \in Int
  BY SizeAssumption DEF TreeInv, TypeOK
<1>2. Mode \in Modes \ {"table"}
  BY DEF Mode, Modes
<1>3. ASSUME UNCHANGED <<ptes, free, utmFree>>
      PROVE  TreeStep
  BY <1>3 DEF TreeStep, TreeInv, TypeOK
<1>4. ASSUME TreeStep, Rest'
      PROVE  TreeInv'
  BY <1>4, TreeTyped DEF TreeStep, Rest, TreeInv, TypeOK
<1>5. CASE VspacePage
  <2>1. TreeStep
    BY <1>1, <1>5, AllocTablesKeepsTree DEF VspacePage
  <2>2. Rest'
    BY <1>1, <1>5 DEF VspacePage, TypeOK, Rest
  <2>3. QED
    BY <2>1, <2>2, <1>4
<1>6. CASE EndVspace
  <2>1. Rest'
    BY <1>1, <1>6 DEF EndVspace, TypeOK, Rest
  <2>2. QED
    BY <1>6, <2>1, <1>3, <1>4 DEF EndVspace
<1>7. CASE BeginSegment
  <2>1. Rest'
    <3>1. seg <= Len(Segs(file)) => Header.vaddr \in Int
      BY ONLY <1>1, AddressTypes
    <3>2. Rest
      BY ONLY <1>1 DEF TypeOK, Rest
    <3>3. UNCHANGED <<layout, file, start, hashed>>
      BY ONLY <1>7 DEF BeginSegment
    <3>4. /\ pc' \in {"vspace", "header", "pages", "stack", "untrusted",
                      "done"}
          /\ seg' \in Nat \ {0} /\ va' \in Int
      BY ONLY <1>7, <3>1, <3>2 DEF BeginSegment, Rest
    <3> QED BY ONLY <3>2, <3>3, <3>4 DEF Rest
  <2>2. QED
    BY <1>7, <2>1, <1>3, <1>4 DEF BeginSegment
<1>8. CASE BeginMisaligned
  <2>1. PageDown(Header.vaddr) \in Int /\ PageUp(Header.vaddr) \in Int
    BY <1>1, <1>8, AddressTypes, RoundingType DEF BeginMisaligned
  <2>2. TreeStep
    BY <1>2, <1>8, <2>1, AllocPageKeepsTree DEF BeginMisaligned
  <2>3. Rest'
    BY <1>1, <1>8, <2>1 DEF BeginMisaligned, TypeOK, Rest
  <2>4. QED
    BY <2>2, <2>3, <1>4
<1>9. CASE FilePage
  <2>1. TreeStep
    BY <1>1, <1>2, <1>9, AllocPageKeepsTree DEF FilePage
  <2>2. Rest'
    BY <1>1, <1>9 DEF FilePage, TypeOK, Rest
  <2>3. QED
    BY <2>1, <2>2, <1>4
<1>10. CASE BssPage
  <2>1. TreeStep
    BY <1>1, <1>2, <1>10, AllocPageKeepsTree DEF BssPage
  <2>2. Rest'
    BY <1>1, <1>10 DEF BssPage, TypeOK, Rest
  <2>3. QED
    BY <2>1, <2>2, <1>4
<1>11. CASE EndSegment
  <2>1. Rest'
    BY <1>1, <1>11 DEF EndSegment, TypeOK, Rest
  <2>2. QED
    BY <1>11, <2>1, <1>3, <1>4 DEF EndSegment
<1>12. CASE EndFile
  <2>1. "eapp" \in File
    BY DEF File
  <2>2. Rest'
    BY <1>1, <1>12, <2>1, AddressTypes DEF EndFile, TypeOK, Rest
  <2>3. QED
    BY <1>12, <2>2, <1>3, <1>4 DEF EndFile
<1>13. CASE StackPage
  <2>1. TreeStep
    BY <1>1, <1>13, AllocPageKeepsTree DEF StackPage, Modes
  <2>2. Rest'
    BY <1>1, <1>13 DEF StackPage, TypeOK, Rest
  <2>3. QED
    BY <2>1, <2>2, <1>4
<1>14. CASE EndStack
  <2>1. Rest'
    BY <1>1, <1>14, AddressTypes DEF EndStack, TypeOK, Rest
  <2>2. QED
    BY <1>14, <2>1, <1>3, <1>4 DEF EndStack
<1>15. CASE UntrustedPage
  <2>1. TreeStep
    BY <1>1, <1>15, AllocPageKeepsTree DEF UntrustedPage, Modes
  <2>2. Rest'
    BY <1>1, <1>15 DEF UntrustedPage, TypeOK, Rest
  <2>3. QED
    BY <2>1, <2>2, <1>4
<1>16. CASE EndUntrusted
  <2>1. Rest'
    BY <1>1, <1>16 DEF EndUntrusted, TypeOK, Rest
  <2>2. QED
    BY <1>16, <2>1, <1>3, <1>4 DEF EndUntrusted
<1>17. CASE UNCHANGED vars
  BY <1>17, <1>1, <1>3, <1>4 DEF vars, Rest, TypeOK
<1>18. QED
  BY <1>5, <1>6, <1>7, <1>8, <1>9, <1>10, <1>11, <1>12, <1>13, <1>14, <1>15,
     <1>16, <1>17 DEF Next

\* The page tables are a tree throughout.
LEMMA AlwaysTree == Spec => []TreeInv
BY TreeInvInit, TreeInvStep, PTL DEF Spec

-------------------------------------------------------------------------------
(* The address space as a function from page numbers to entries. *)

\* Pages by number: PageDown(a) is Address(PageNo(a)).
PageNo(a) == a \div PageBytes
Address(n) == n * PageBytes
PageNos == 0 .. Fanout * Fanout * Fanout - 1

\* The entry of a last table for the indices of the three levels.
Reach(p, i2, i1, i0) ==
  {e \in p : \E c, d \in p :
     /\ c.tab = 0 /\ c.idx = i2
     /\ d.tab = c.to /\ d.idx = i1
     /\ e.tab = d.to /\ e.idx = i0}

\* The entries of page n.
EntriesOf(p, n) ==
  Reach(p, (n \div (Fanout * Fanout)) % Fanout, (n \div Fanout) % Fanout,
        n % Fanout)

\* Page n is frame t.
PageIs(p, n, t) == \E e : EntriesOf(p, n) = {e} /\ e.to = t

\* Frame t was written once, with the bytes b.
Written(mem, t, b) ==
  \A m \in mem \union {[frame |-> t, bytes |-> b]} :
    m \in mem /\ (m.frame = t => m = [frame |-> t, bytes |-> b])

\* Page n holds the bytes b.
PageHolds(p, mem, n, b) == \E t : PageIs(p, n, t) /\ Written(mem, t, b)

\* What was written went to frames taken from the free lists.
Fresh(mem, bound, low) ==
  \A m \in mem : /\ m.frame \in Int
                 /\ m.frame < bound /\ low < m.frame

\* The pages of a segment, of the stack and of the untrusted region.
SegmentPages(s) ==
  {n \in Int : PageNo(s.vaddr) <= n /\ Address(n) < s.vaddr + s.memsz}
StackPages(l) ==
  {n \in Int : /\ PageDown(PageUp(l.stack) - l.stackSize) <= Address(n)
               /\ Address(n) < PageUp(l.stack)}
UntrustedPages(l) ==
  {n \in Int : /\ PageNo(l.untrusted) <= n
               /\ Address(n) < PageUp(l.untrusted + l.untrustedSize)}

\* A segment that has memory, within the address space, and whose first page,
\* if it starts inside one, is full of the file or has no .bss behind it.
PlainSegment(s) ==
  /\ 0 < s.memsz /\ s.filesz <= s.memsz
  /\ s.vaddr + s.memsz <= AddressSpace
  /\ \/ IsAligned(s.vaddr)
     \/ s.filesz = s.memsz
     \/ PageUp(s.vaddr) <= s.vaddr + s.filesz

\* Segments, stack and untrusted region that share no page.
PlainLayout(l) ==
  /\ \A f \in File : \A i \in 1 .. Len(l[f]) :
       l[f][i].load =>
         /\ PlainSegment(l[f][i])
         /\ SegmentPages(l[f][i]) \intersect StackPages(l) = {}
         /\ SegmentPages(l[f][i]) \intersect UntrustedPages(l) = {}
  /\ \A f, g \in File : \A i \in 1 .. Len(l[f]) : \A j \in 1 .. Len(l[g]) :
       l[f][i].load /\ l[g][j].load /\ (f # g \/ i # j) =>
         SegmentPages(l[f][i]) \intersect SegmentPages(l[g][j]) = {}
  /\ StackPages(l) \subseteq PageNos
  /\ StackPages(l) \intersect UntrustedPages(l) = {}
  /\ PageUp(l.untrusted + l.untrustedSize) < AddressSpace

PlainLayouts == \A l \in Layouts : PlainLayout(l)

\* Segment i of file f was loaded, or is being loaded.
Past(f, i) ==
  \/ pc \in {"stack", "untrusted", "done"}
  \/ f = "runtime" /\ file = "eapp"
  \/ f = file /\ pc \in {"header", "pages"} /\ i < seg
Current(f, i) == pc = "pages" /\ f = file /\ i = seg

\* Page n of segment i of file f is there.
Reached(f, i, n) ==
  /\ i \in 1 .. Len(Segs(f)) /\ Segs(f)[i].load
  /\ n \in SegmentPages(Segs(f)[i])
  /\ Past(f, i) \/ (Current(f, i) /\ Address(n) < va)
StackReached(n) ==
  /\ n \in StackPages(layout)
  /\ pc \in {"untrusted", "done"} \/ (pc = "stack" /\ Address(n) < va)
UntrustedReached(n) ==
  /\ n \in UntrustedPages(layout)
  /\ pc = "done" \/ (pc = "untrusted" /\ Address(n) < va)

\* The bytes b are those of segment s of file f where page n is its memory.
RightBytes(f, s, n, b) ==
  \A k \in 0 .. PageBytes - 1 : LET a == Address(n) + k IN
    s.vaddr <= a /\ a < s.vaddr + s.memsz =>
      b[k] = IF a < s.vaddr + s.filesz THEN Source(f, s, a) ELSE Zero

\* Where the loops are.
LoopInv ==
  /\ va = Address(PageNo(va)) \/ pc \notin {"pages", "stack", "untrusted"}
  /\ pc = "pages" =>
       seg <= Len(Segs(file)) /\ Header.load /\ Header.vaddr <= va
  /\ pc = "stack" => StackLow <= va
  /\ pc = "untrusted" =>
       /\ PageNo(layout.untrusted) <= PageNo(va)
       /\ utmFree = -1 - (PageNo(va) - PageNo(layout.untrusted))
  /\ pc \notin {"untrusted", "done"} => utmFree = -1

\* Only pages the loops went over are mapped.
NothingElse ==
  \A n \in PageNos : EntriesOf(ptes, n) # {} =>
    \/ \E f \in File, i \in Nat : Reached(f, i, n)
    \/ StackReached(n)
    \/ UntrustedReached(n)

SegmentsRight ==
  \A f \in File, i \in Nat, n \in Int : Reached(f, i, n) =>
    \E b : PageHolds(ptes, memory, n, b) /\ RightBytes(f, Segs(f)[i], n, b)

UntrustedRight ==
  \A n \in Int : UntrustedReached(n) =>
    PageIs(ptes, n, -1 - (n - PageNo(layout.untrusted)))

LoadInv ==
  /\ TreeInv /\ Fresh(memory, free, utmFree)
  /\ LoopInv /\ NothingElse /\ SegmentsRight /\ UntrustedRight

-------------------------------------------------------------------------------
(* Arithmetic of pages. *)

\* The place of an address in its page.
Within(a) == a % PageBytes

\* Page addresses are in the order of their numbers, a page apart.
LEMMA Addresses ==
  /\ \A n \in Int : Address(n) \in Int
  /\ \A n \in Int : Address(n + 1) = Address(n) + PageBytes
  /\ \A m, n \in Int : m <= n => Address(m) <= Address(n)
  /\ \A m, n \in Int : Address(m) < Address(n) => m < n
<1>1. PageBytes \in Nat \ {0}
  BY SizeAssumption
<1>2. \A n \in Int : n * PageBytes \in Int
  BY <1>1, SMT
<1>3. \A n \in Int : (n + 1) * PageBytes = n * PageBytes + PageBytes
  BY <1>1, SMT
<1>4. ASSUME NEW m \in Int, NEW n \in Int, m <= n
      PROVE  m * PageBytes <= n * PageBytes
  <2>1. PICK k \in Nat : n = m + k
    <3>1. n - m \in Nat /\ n = m + (n - m)
      BY <1>4
    <3> QED BY <3>1
  <2>2. n * PageBytes = m * PageBytes + k * PageBytes /\ k * PageBytes \in Nat
    BY <1>1, <2>1, SMT
  <2> QED BY <1>2, <2>2
<1>5. ASSUME NEW m \in Int, NEW n \in Int, m * PageBytes < n * PageBytes
      PROVE  m < n
  <2>1. CASE n <= m
    BY <1>2, <1>4, <1>5, <2>1
  <2> QED BY <2>1
<1> QED BY <1>2, <1>3, <1>4, <1>5 DEF Address

\* Division with remainder.
LEMMA Division ==
  ASSUME NEW d \in Nat \ {0}, NEW a \in Int
  PROVE  /\ a \div d \in Int /\ a % d \in 0 .. d - 1
         /\ a = d * (a \div d) + (a % d)
<1>1. a \div d \in Int /\ a % d \in 0 .. d - 1
  BY SMT
<1>2. a = d * (a \div d) + (a % d)
  BY SMT
<1> QED BY <1>1, <1>2

\* The page of an address, and the place in it.
LEMMA PageOfAddress ==
  ASSUME NEW a \in Int
  PROVE  /\ PageNo(a) \in Int
         /\ Within(a) \in 0 .. PageBytes - 1
         /\ a = Address(PageNo(a)) + Within(a)
<1>1. PICK d \in Nat \ {0} : d = PageBytes
  BY SizeAssumption
<1>2. PICK q \in Int : q = a \div d
  BY Division
<1>3. PICK r \in 0 .. d - 1 : r = a % d /\ a = d * q + r
  BY <1>2, Division, Zenon
<1>4. d * q = q * d
  BY SMT
<1> QED BY <1>1, <1>2, <1>3, <1>4 DEF PageNo, Address, Within

\* An address within a page is of that page.
LEMMA WithinPage ==
  ASSUME NEW a \in Int, NEW n \in Int,
         Address(n) <= a, a < Address(n) + PageBytes
  PROVE  PageNo(a) = n
<1>1. PICK q \in Int : q = PageNo(a)
  BY PageOfAddress
<1>2. PICK r \in 0 .. PageBytes - 1 : a = Address(q) + r
  BY <1>1, PageOfAddress
<1>3. PageBytes \in Nat \ {0}
  BY SizeAssumption
<1>8. q + 1 \in Int /\ n + 1 \in Int
  OBVIOUS
<1>4. /\ Address(q) \in Int /\ Address(n) \in Int
      /\ Address(q + 1) = Address(q) + PageBytes
      /\ Address(n + 1) = Address(n) + PageBytes
  BY ONLY Addresses, q \in Int, n \in Int
<1>5. Address(q) < Address(n + 1) /\ Address(n) < Address(q + 1)
  BY <1>2, <1>3, <1>4
<1>6. q < n + 1 /\ n < q + 1
  BY ONLY <1>5, <1>8, Addresses, q \in Int, n \in Int
<1> QED BY <1>1, <1>6

\* The page numbers below and at an address are those of its page and below.
LEMMA PagesBelow ==
  ASSUME NEW a \in Int, NEW n \in Int
  PROVE  /\ Address(n) <= a <=> n <= PageNo(a)
         /\ PageNo(Address(n)) = n
<1>1. PICK q \in Int : q = PageNo(a)
  BY PageOfAddress
<1>2. PICK r \in 0 .. PageBytes - 1 : a = Address(q) + r
  BY <1>1, PageOfAddress
<1>3. PageBytes \in Nat \ {0}
  BY SizeAssumption
<1>4. /\ Address(q) \in Int /\ Address(n) \in Int /\ q + 1 \in Int
      /\ Address(q + 1) = Address(q) + PageBytes
  BY ONLY Addresses, q \in Int, n \in Int
<1>5. n <= q => Address(n) <= a
  <2>1. n <= q => Address(n) <= Address(q)
    BY Addresses
  <2> QED BY <1>2, <1>3, <1>4, <2>1
<1>6. Address(n) <= a => n <= q
  <2>1. Address(n) <= a => Address(n) < Address(q + 1)
    BY <1>2, <1>3, <1>4
  <2>2. Address(n) < Address(q + 1) => n < q + 1
    BY <1>4, Addresses
  <2> QED BY <2>1, <2>2
<1>7. PageNo(Address(n)) = n
  <2>1. Address(n) < Address(n) + PageBytes /\ Address(n) <= Address(n)
    BY <1>3, <1>4
  <2> QED BY <1>4, <2>1, WithinPage
<1> QED BY <1>1, <1>5, <1>6, <1>7

\* PAGE_DOWN and PAGE_UP.
LEMMA Rounding ==
  ASSUME NEW a \in Int
  PROVE  /\ PageDown(a) = Address(PageNo(a))
         /\ PageUp(a) = Address(PageNo(a - 1) + 1)
         /\ IsAligned(a) <=> a = Address(PageNo(a))
         /\ a <= PageUp(a)
         /\ ~IsAligned(a) => PageNo(a - 1) = PageNo(a)
<1>1. PICK q \in Int : q = PageNo(a)
  BY PageOfAddress
<1>2. PICK r \in 0 .. PageBytes - 1 : r = Within(a)
  BY PageOfAddress
<1>3. a = Address(q) + r /\ Address(q) \in Int
  BY <1>1, <1>2, PageOfAddress, Addresses
<1>4. IsAligned(a) <=> a = Address(q)
  BY <1>2, <1>3 DEF IsAligned, Within
<1>5. ASSUME ~IsAligned(a) PROVE PageNo(a - 1) = q
  <2>1. r # 0
    BY <1>2, <1>5 DEF IsAligned, Within
  <2>2. PageBytes \in Nat /\ r \in Nat /\ r < PageBytes
    BY SizeAssumption
  <2>3. Address(q) <= a - 1 /\ a - 1 < Address(q) + PageBytes
    BY <1>3, <2>1, <2>2
  <2>4. a - 1 \in Int
    OBVIOUS
  <2> QED BY ONLY <2>3, <2>4, q \in Int, WithinPage
<1>6. a <= PageUp(a)
  <2>1. PICK x \in Int : x = a - 1
    OBVIOUS
  <2>2. PICK p \in Int : p = PageNo(x)
    BY PageOfAddress
  <2>3. PICK t \in 0 .. PageBytes - 1 : x = Address(p) + t
    BY <2>2, PageOfAddress
  <2>4. Address(p) \in Int /\ Address(p + 1) = Address(p) + PageBytes
    BY Addresses
  <2>5. PageUp(a) = Address(p + 1)
    BY <2>1, <2>2 DEF PageUp, Address, PageNo
  <2> QED BY <2>1, <2>3, <2>4, <2>5, SizeAssumption
<1> QED BY <1>1, <1>4, <1>5, <1>6 DEF PageDown, PageUp, Address, PageNo

-------------------------------------------------------------------------------
(* The indices of a page tell it from all others. *)

\* A quotient is the only number that leaves such a remainder.
LEMMA Quotient ==
  ASSUME NEW d \in Nat \ {0}, NEW s \in Int, NEW u \in 0 .. d - 1
  PROVE  (d * s + u) \div d = s
<1>1. PICK x \in Int : x = d * s + u
  BY SMT
<1>2. PICK q \in Int : q = x \div d
  BY SMT
<1>3. PICK r \in 0 .. d - 1 : x = d * q + r
  <2>1. x % d \in 0 .. d - 1 /\ x = d * (x \div d) + (x % d)
    BY <1>1, SMT
  <2> QED BY <1>2, <2>1
<1>4. q < s => FALSE
  <2> SUFFICES ASSUME q < s PROVE FALSE
    OBVIOUS
  <2>1. PICK k \in Nat : s = q + 1 + k
    <3>1. s - q - 1 \in Nat /\ s = q + 1 + (s - q - 1)
      OBVIOUS
    <3> QED BY <3>1
  <2>2. d * s = d * q + d + d * k /\ d * k \in Nat /\ d * q \in Int
    BY <2>1, SMT
  <2> QED BY <1>1, <1>3, <2>2
<1>5. s < q => FALSE
  <2> SUFFICES ASSUME s < q PROVE FALSE
    OBVIOUS
  <2>1. PICK k \in Nat : q = s + 1 + k
    <3>1. q - s - 1 \in Nat /\ q = s + 1 + (q - s - 1)
      OBVIOUS
    <3> QED BY <3>1
  <2>2. d * q = d * s + d + d * k /\ d * k \in Nat /\ d * s \in Int
    BY <2>1, SMT
  <2> QED BY <1>1, <1>3, <2>2
<1> QED BY <1>1, <1>2, <1>4, <1>5

\* A page number is made of its indices.
LEMMA PageIndices ==
  ASSUME NEW n \in PageNos
  PROVE  LET F == Fanout IN
         n = F * (F * ((n \div (F * F)) % F) + ((n \div F) % F)) + (n % F)
<1> DEFINE F == Fanout
<1>1. F \in Nat \ {0} /\ n \in Nat
  BY SizeAssumption DEF PageNos
<1>10. \A x \in Nat : x \div F \in Nat
  BY <1>1, SMT
<1>11. \A x \in Nat : x % F \in 0 .. F - 1 /\ x = F * (x \div F) + (x % F)
  BY <1>1, Division
<1>2. PICK q \in Nat, r \in 0 .. F - 1 :
        q = n \div F /\ r = n % F /\ n = F * q + r
  BY ONLY <1>1, <1>10, <1>11
<1>3. PICK s \in Nat, t \in 0 .. F - 1 : t = q % F /\ q = F * s + t
  BY ONLY <1>1, <1>10, <1>11, q \in Nat
<1>4. F * F \in Nat \ {0} /\ F * t + r \in 0 .. F * F - 1
  <2>1. PICK k \in Nat : F = t + 1 + k
    <3>1. F - t - 1 \in Nat /\ F = t + 1 + (F - t - 1)
      BY <1>1
    <3> QED BY <3>1
  <2>2. F * F = F * t + F + F * k /\ F * k \in Nat /\ F * t \in Nat
    BY <1>1, <2>1, SMT
  <2> QED BY <1>1, <2>2
<1>5. n = (F * F) * s + (F * t + r)
  <2>1. F * (F * s + t) = (F * F) * s + F * t
    BY <1>1, SMT
  <2>2. (F * F) * s \in Int /\ F * t \in Int
    BY <1>1, SMT
  <2> QED BY <1>2, <1>3, <2>1, <2>2
<1>6. n \div (F * F) = s
  BY <1>4, <1>5, Quotient
<1>7. s < F
  <2>1. CASE F <= s
    <3>1. PICK k \in Nat : s = F + k
      <4>1. s - F \in Nat /\ s = F + (s - F)
        BY <1>1, <2>1
      <4> QED BY <4>1
    <3>2. (F * F) * s = F * F * F + (F * F) * k /\ (F * F) * k \in Nat
      BY <1>1, <3>1, SMT
    <3>3. n < F * F * F
      BY <1>1 DEF PageNos
    <3>4. F * t + r \in Nat /\ F * F * F \in Nat
      BY <1>1, <1>4, SMT
    <3> QED BY <1>5, <3>2, <3>3, <3>4
  <2> QED BY <1>1, <2>1
<1>8. s % F = s
  BY <1>1, <1>7, SMT
<1>9. n = F * (F * s + t) + r
  BY <1>2, <1>3
<1> QED BY <1>2, <1>3, <1>6, <1>8, <1>9

-------------------------------------------------------------------------------
(* What the walk and a new page change of the mapping. *)

\* The root has an entry i2 for a table that has an entry i1 for table t.
Path(p, i2, i1, t) ==
  \E c, d \in p : /\ c.tab = 0 /\ c.idx = i2
                  /\ d.tab = c.to /\ d.idx = i1
                  /\ d.to = t

\* A table that is entered in the root or below it maps no page yet.
LEMMA TableMapsNothing ==
  ASSUME NEW p, NEW f \in Nat \ {0}, NEW low \in Int, low < 0,
         Tree(p, f, low), NEW t, t = 0 \/ MiddleTable(p, t),
         NEW new, new.tab = t, new.to = f,
         NEW i2, NEW i1, NEW i0
  PROVE  Reach(p \union {new}, i2, i1, i0) = Reach(p, i2, i1, i0)
<1> DEFINE q == p \union {new}
<1>1. /\ \A e \in p : e.tab # f /\ e.to # 0
      /\ \A e, d \in p : e.to = d.to => e = d
      /\ f # 0
  BY DEF Tree, Placed
<1>2. new.tab # f
  <2>1. CASE t = 0
    BY <1>1, <2>1
  <2>2. CASE MiddleTable(p, t)
    <3>1. PICK c \in p : c.tab = 0 /\ c.to = t
      BY <2>2 DEF MiddleTable
    <3>2. c.mode = "table" /\ c.to # f
      BY <3>1 DEF Tree, Placed
    <3> QED BY <3>1, <3>2
  <2> QED BY <2>1, <2>2
<1>3. ASSUME NEW c \in q, NEW d \in q, NEW e \in q,
             c.tab = 0, d.tab = c.to, e.tab = d.to
      PROVE  c \in p /\ d \in p /\ e \in p
  <2>1. \A b \in q : b.tab # new.to
    BY <1>1, <1>2
  <2>2. c \in p /\ d \in p
    BY <1>3, <2>1
  <2>3. e # new
    <3>1. CASE t = 0
      BY <1>1, <1>3, <2>2, <3>1
    <3>2. CASE MiddleTable(p, t)
      <4>1. PICK b \in p : b.tab = 0 /\ b.to = t
        BY <3>2 DEF MiddleTable
      <4>2. e = new => b = d
        BY <1>1, <1>3, <2>2, <4>1
      <4>3. c.to # 0
        BY <1>1, <2>2
      <4> QED BY <1>3, <4>1, <4>2, <4>3
    <3> QED BY <3>1, <3>2
  <2> QED BY <1>3, <2>2, <2>3
<1>4. \A x : x \in Reach(q, i2, i1, i0) => x \in Reach(p, i2, i1, i0)
  <2> SUFFICES ASSUME NEW x \in Reach(q, i2, i1, i0)
               PROVE  x \in Reach(p, i2, i1, i0)
    OBVIOUS
  <2>1. PICK c \in q, d \in q : /\ x \in q
                                /\ c.tab = 0 /\ c.idx = i2
                                /\ d.tab = c.to /\ d.idx = i1
                                /\ x.tab = d.to /\ x.idx = i0
    BY DEF Reach
  <2>2. c \in p /\ d \in p /\ x \in p
    BY <1>3, <2>1
  <2> QED BY <2>1, <2>2 DEF Reach
<1>5. \A x : x \in Reach(p, i2, i1, i0) => x \in Reach(q, i2, i1, i0)
  BY DEF Reach
<1> QED BY <1>4, <1>5

\* A level of the walk ends where its entry points, and keeps all others.
LEMMA DescendEnds ==
  ASSUME NEW p, NEW f \in Nat, NEW at, NEW idx, NEW w,
         w = Descend([ptes |-> p, free |-> f, at |-> at], idx)
  PROVE  /\ w = [ptes |-> w.ptes, free |-> w.free, at |-> w.at]
         /\ p \subseteq w.ptes /\ f <= w.free /\ w.free \in Nat
         /\ \E e \in w.ptes : e.tab = at /\ e.idx = idx /\ e.to = w.at
         /\ w.ptes = p \/ w.ptes = p \union {Entry(at, idx, f, "table")}
<1>1. CASE Slot(p, at, idx) = {}
  <2> DEFINE new == Entry(at, idx, f, "table")
  <2>1. w = [ptes |-> p \union {new}, free |-> f + 1, at |-> f]
    BY <1>1 DEF Descend
  <2>2. new.tab = at /\ new.idx = idx /\ new.to = f
    BY DEF Entry
  <2> HIDE DEF new
  <2>3. w.ptes = p \union {new} /\ w.free = f + 1 /\ w.at = f
    BY <2>1
  <2>4. \E e \in w.ptes : e.tab = at /\ e.idx = idx /\ e.to = w.at
    BY <2>2, <2>3
  <2> QED BY <2>1, <2>3, <2>4 DEF new
<1>2. CASE Slot(p, at, idx) # {}
  <2>1. PICK e \in Slot(p, at, idx) :
          w = [ptes |-> p, free |-> f, at |-> e.to]
    BY <1>2 DEF Descend
  <2>2. e \in p /\ e.tab = at /\ e.idx = idx
    BY <2>1 DEF Slot
  <2> QED BY <2>1, <2>2
<1> QED BY <1>1, <1>2

\* __ept_walk_create() maps nothing, and ends in the table of its address.
LEMMA WalkMapsNothing ==
  ASSUME TreeInv, NEW a \in Int, NEW w, w = WalkCreate(a)
  PROVE  /\ \A i2, i1, i0 : Reach(w.ptes, i2, i1, i0) = Reach(ptes, i2, i1, i0)
         /\ Path(w.ptes, Index(a, 2), Index(a, 1), w.at)
         /\ free <= w.free
<1>1. /\ free \in Nat \ {0} /\ utmFree \in Int /\ utmFree < 0
      /\ Tree(ptes, free, utmFree)
  BY DEF TreeInv, TypeOK
<1>2. Index(a, 1) \in 0 .. Fanout - 1 /\ Index(a, 2) \in 0 .. Fanout - 1
  BY IndexRange
<1>3. PICK v :
        v = Descend([ptes |-> ptes, free |-> free, at |-> 0], Index(a, 2))
  OBVIOUS
<1>4. /\ v = [ptes |-> v.ptes, free |-> v.free, at |-> v.at]
      /\ v.free \in Nat \ {0}
      /\ Tree(v.ptes, v.free, utmFree)
      /\ MiddleTable(v.ptes, v.at)
  BY <1>1, <1>2, <1>3, DescendFromRoot
<1>5. /\ free <= v.free
      /\ \E c \in v.ptes : c.tab = 0 /\ c.idx = Index(a, 2) /\ c.to = v.at
      /\ \/ v.ptes = ptes
         \/ v.ptes = ptes \union {Entry(0, Index(a, 2), free, "table")}
  BY <1>1, <1>3, DescendEnds
<1>6. w = Descend([ptes |-> v.ptes, free |-> v.free, at |-> v.at], Index(a, 1))
  BY <1>3, <1>4 DEF WalkCreate
<1>7. /\ v.ptes \subseteq w.ptes /\ v.free <= w.free /\ w.free \in Nat
      /\ \E d \in w.ptes : d.tab = v.at /\ d.idx = Index(a, 1) /\ d.to = w.at
      /\ \/ w.ptes = v.ptes
         \/ w.ptes = v.ptes \union {Entry(v.at, Index(a, 1), v.free, "table")}
  <2>1. v.free \in Nat
    BY <1>4
  <2> QED BY <1>6, <2>1, DescendEnds
<1>8. \A i2, i1, i0 : Reach(v.ptes, i2, i1, i0) = Reach(ptes, i2, i1, i0)
  <2>1. PICK new : new = Entry(0, Index(a, 2), free, "table")
    OBVIOUS
  <2>2. new.tab = 0 /\ new.to = free
    BY <2>1 DEF Entry
  <2>3. \A i2, i1, i0 :
          Reach(ptes \union {new}, i2, i1, i0) = Reach(ptes, i2, i1, i0)
    BY <1>1, <2>2, TableMapsNothing
  <2> QED BY <1>5, <2>1, <2>3
<1>9. \A i2, i1, i0 : Reach(w.ptes, i2, i1, i0) = Reach(v.ptes, i2, i1, i0)
  <2>1. PICK new : new = Entry(v.at, Index(a, 1), v.free, "table")
    OBVIOUS
  <2>2. new.tab = v.at /\ new.to = v.free
    BY <2>1 DEF Entry
  <2>3. \A i2, i1, i0 :
          Reach(v.ptes \union {new}, i2, i1, i0) = Reach(v.ptes, i2, i1, i0)
    BY <1>1, <1>4, <2>2, TableMapsNothing
  <2> QED BY <1>7, <2>1, <2>3
<1>10. Path(w.ptes, Index(a, 2), Index(a, 1), w.at)
  BY <1>5, <1>7 DEF Path
<1>11. free <= w.free
  BY <1>1, <1>4, <1>5, <1>7
<1> QED BY <1>8, <1>9, <1>10, <1>11

\* The entries at the end of a path are those of its last table.
LEMMA PathEnds ==
  ASSUME NEW p, NEW f, NEW low, Placed(p, f, low),
         NEW i2, NEW i1, NEW t, Path(p, i2, i1, t), NEW i0
  PROVE  Reach(p, i2, i1, i0) = Slot(p, t, i0)
<1>1. PICK c \in p, d \in p : /\ c.tab = 0 /\ c.idx = i2
                              /\ d.tab = c.to /\ d.idx = i1
                              /\ d.to = t
  BY DEF Path
<1>2. \A x, y \in p : x.tab = y.tab /\ x.idx = y.idx => x = y
  BY DEF Placed
<1>3. ASSUME NEW e \in Reach(p, i2, i1, i0)
      PROVE  e \in Slot(p, t, i0)
  <2>1. PICK x \in p, y \in p : /\ e \in p
                                /\ x.tab = 0 /\ x.idx = i2
                                /\ y.tab = x.to /\ y.idx = i1
                                /\ e.tab = y.to /\ e.idx = i0
    BY <1>3 DEF Reach
  <2>2. x = c
    BY <1>1, <1>2, <2>1
  <2>3. y = d
    BY <1>1, <1>2, <2>1, <2>2
  <2> QED BY <1>1, <2>1, <2>3 DEF Slot
<1>4. ASSUME NEW e \in Slot(p, t, i0)
      PROVE  e \in Reach(p, i2, i1, i0)
  BY <1>1, <1>4 DEF Slot, Reach
<1> QED BY <1>3, <1>4

\* An entry new of the last table of i2 and i1 is reached by these indices and
\* its own, and by no others.
MapsOnce(p, new, i2, i1, j2, j1, j0) ==
  LET q == p \union {new} IN
  IF j2 = i2 /\ j1 = i1 /\ j0 = new.idx
  THEN Reach(q, j2, j1, j0) = Reach(p, j2, j1, j0) \union {new}
  ELSE Reach(q, j2, j1, j0) = Reach(p, j2, j1, j0)

\* A page entered there is mapped at these indices and at no others.
LEMMA PageMapsOnce ==
  ASSUME NEW p, NEW f \in Nat \ {0}, NEW low \in Int, low < 0,
         Tree(p, f, low), NEW i2, NEW i1, NEW new, Path(p, i2, i1, new.tab),
         new.to = f \/ new.to = low, NEW j2, NEW j1, NEW j0
  PROVE  MapsOnce(p, new, i2, i1, j2, j1, j0)
<1> DEFINE q == p \union {new}
<1>1. PICK c \in p, d \in p : /\ c.tab = 0 /\ c.idx = i2
                              /\ d.tab = c.to /\ d.idx = i1
                              /\ d.to = new.tab
  BY DEF Path
<1>2. /\ \A e \in p : e.tab \in 0 .. f - 1
      /\ \A x, y \in p : x.to = y.to => x = y
  BY DEF Tree, Placed
<1>3. new.tab \in 0 .. f - 1
  <2>1. c.mode = "table"
    BY <1>1 DEF Tree
  <2>2. d.mode = "table"
    BY <1>1 DEF Tree
  <2> QED BY <1>1, <2>2 DEF Tree, Placed
<1>4. \A e \in q : e.tab # new.to
  BY <1>2, <1>3
<1>5. ASSUME NEW e \in Reach(q, j2, j1, j0)
      PROVE  \/ e \in Reach(p, j2, j1, j0)
             \/ e = new /\ j2 = i2 /\ j1 = i1 /\ j0 = new.idx
  <2>1. PICK x \in q, y \in q : /\ e \in q
                                /\ x.tab = 0 /\ x.idx = j2
                                /\ y.tab = x.to /\ y.idx = j1
                                /\ e.tab = y.to /\ e.idx = j0
    BY <1>5 DEF Reach
  <2>2. x \in p /\ y \in p
    BY <1>4, <2>1
  <2>3. CASE e = new
    <3>1. y = d
      BY <1>1, <1>2, <2>1, <2>2, <2>3
    <3>2. x = c
      BY <1>1, <1>2, <2>1, <2>2, <3>1
    <3> QED BY <1>1, <2>1, <2>3, <3>1, <3>2
  <2>4. CASE e # new
    BY <2>1, <2>2, <2>4 DEF Reach
  <2> QED BY <2>3, <2>4
<1>6. \A e \in Reach(p, j2, j1, j0) : e \in Reach(q, j2, j1, j0)
  BY DEF Reach
<1>7. j2 = i2 /\ j1 = i1 /\ j0 = new.idx => new \in Reach(q, j2, j1, j0)
  BY <1>1 DEF Reach
<1> QED BY <1>5, <1>6, <1>7 DEF MapsOnce

\* The walk to an address uses the indices of its page.
LEMMA IndicesOf ==
  ASSUME NEW a \in Int, NEW p
  PROVE  EntriesOf(p, PageNo(a)) =
           Reach(p, Index(a, 2), Index(a, 1), Index(a, 0))
<1>1. Index(a, 0) = PageNo(a) % Fanout
  BY DEF Index, PageNo
<1>2. Index(a, 1) = (PageNo(a) \div Fanout) % Fanout
  BY DEF Index, PageNo
<1>3. Index(a, 2) = (PageNo(a) \div (Fanout * Fanout)) % Fanout
  BY DEF Index, PageNo
<1> QED BY <1>1, <1>2, <1>3 DEF EntriesOf

\* What one iteration of allocPage() does that maps page n.
PageAdded(n, mode, bytes) ==
  /\ \E t : /\ PageIs(ptes', n, t)
            /\ IF mode = "UTM_FULL" THEN t = utmFree
               ELSE t \in free .. free' - 1
            /\ memory' = IF mode = "USER_NOEXEC" THEN memory
                         ELSE memory \union {[frame |-> t, bytes |-> bytes]}
  /\ \A e \in EntriesOf(ptes', n) : e.mode = mode
  /\ \A m \in PageNos \ {n} : EntriesOf(ptes', m) = EntriesOf(ptes, m)
  /\ utmFree' = IF mode = "UTM_FULL" THEN utmFree - 1 ELSE utmFree
  /\ free' \in Nat /\ free <= free'

\* epm_alloc_vspace() maps no page.
LEMMA AllocTablesAdds ==
  ASSUME TreeInv, NEW a \in Int, AllocTables(a)
  PROVE  /\ \A m : EntriesOf(ptes', m) = EntriesOf(ptes, m)
         /\ free <= free' /\ UNCHANGED <<utmFree, memory>>
<1>1. PICK w : w = WalkCreate(a)
  OBVIOUS
<1>2. /\ \A i2, i1, i0 : Reach(w.ptes, i2, i1, i0) = Reach(ptes, i2, i1, i0)
      /\ free <= w.free
  BY <1>1, WalkMapsNothing
<1>3. /\ ptes' = w.ptes /\ free' = w.free
      /\ UNCHANGED <<utmFree, memory>>
  BY <1>1 DEF AllocTables
<1> QED BY <1>2, <1>3 DEF EntriesOf

\* allocPage() for a page that is not mapped maps it, and nothing else.
LEMMA AllocPageAdds ==
  ASSUME TreeInv, NEW a \in Int, NEW n \in PageNos, PageNo(a) = n,
         EntriesOf(ptes, n) = {}, NEW mode \in Modes \ {"table"}, NEW bytes,
         AllocPage(a, mode, bytes)
  PROVE  PageAdded(n, mode, bytes)
<1>1. PICK w : w = WalkCreate(a)
  OBVIOUS
<1>2. /\ \A i2, i1, i0 : Reach(w.ptes, i2, i1, i0) = Reach(ptes, i2, i1, i0)
      /\ Path(w.ptes, Index(a, 2), Index(a, 1), w.at)
      /\ free <= w.free
  BY <1>1, WalkMapsNothing
<1>3. w.free \in Nat \ {0} /\ Tree(w.ptes, w.free, utmFree)
  BY <1>1, WalkKeepsTree
<1>4. free \in Nat /\ utmFree \in Int /\ utmFree < 0
  BY DEF TreeInv, TypeOK
<1>5. \A m : EntriesOf(w.ptes, m) = EntriesOf(ptes, m)
  BY <1>2 DEF EntriesOf
<1>6. Leaf(w, a) = {}
  <2>1. Reach(w.ptes, Index(a, 2), Index(a, 1), Index(a, 0)) =
          Slot(w.ptes, w.at, Index(a, 0))
    BY <1>2, <1>3, PathEnds DEF Tree
  <2>2. EntriesOf(w.ptes, n) =
          Reach(w.ptes, Index(a, 2), Index(a, 1), Index(a, 0))
    BY IndicesOf
  <2> QED BY <1>5, <2>1, <2>2 DEF Leaf
<1>7. PICK t : t = IF mode = "UTM_FULL" THEN utmFree ELSE w.free
  OBVIOUS
<1>8. PICK new : new = Entry(w.at, Index(a, 0), t, mode)
  OBVIOUS
<1>9. /\ ptes' = w.ptes \union {new}
      /\ free' = IF mode = "UTM_FULL" THEN w.free ELSE w.free + 1
      /\ utmFree' = IF mode = "UTM_FULL" THEN utmFree - 1 ELSE utmFree
      /\ memory' = IF mode = "USER_NOEXEC" THEN memory
                   ELSE memory \union {[frame |-> t, bytes |-> bytes]}
  BY <1>1, <1>6, <1>7, <1>8, Zenon DEF AllocPage
<1>10. /\ new.tab = w.at /\ new.idx = Index(a, 0) /\ new.to = t
       /\ new.mode = mode
  BY <1>8 DEF Entry
<1>11. ASSUME NEW j2, NEW j1, NEW j0
       PROVE  IF j2 = Index(a, 2) /\ j1 = Index(a, 1) /\ j0 = Index(a, 0)
              THEN Reach(ptes', j2, j1, j0) =
                     Reach(w.ptes, j2, j1, j0) \union {new}
              ELSE Reach(ptes', j2, j1, j0) = Reach(w.ptes, j2, j1, j0)
  <2>1. new.to = w.free \/ new.to = utmFree
    BY <1>7, <1>10
  <2>2. MapsOnce(w.ptes, new, Index(a, 2), Index(a, 1), j2, j1, j0)
    BY <1>2, <1>3, <1>4, <1>10, <2>1, PageMapsOnce
  <2> QED BY <1>9, <1>10, <2>2, Zenon DEF MapsOnce
<1>12. PageIs(ptes', n, t) /\ \A e \in EntriesOf(ptes', n) : e.mode = mode
  <2>1. EntriesOf(ptes', n) =
          Reach(ptes', Index(a, 2), Index(a, 1), Index(a, 0))
    BY IndicesOf
  <2>2. EntriesOf(w.ptes, n) =
          Reach(w.ptes, Index(a, 2), Index(a, 1), Index(a, 0))
    BY IndicesOf
  <2>3. EntriesOf(ptes', n) = {new}
    BY <1>5, <1>11, <2>1, <2>2
  <2> QED BY <1>10, <2>3 DEF PageIs
<1>13. ASSUME NEW m \in PageNos \ {n}
       PROVE  EntriesOf(ptes', m) = EntriesOf(ptes, m)
  <2>1. PICK j2, j1, j0 : /\ j2 = (m \div (Fanout * Fanout)) % Fanout
                          /\ j1 = (m \div Fanout) % Fanout
                          /\ j0 = m % Fanout
    OBVIOUS
  <2>2. /\ Index(a, 2) = (n \div (Fanout * Fanout)) % Fanout
        /\ Index(a, 1) = (n \div Fanout) % Fanout
        /\ Index(a, 0) = n % Fanout
    BY DEF Index, PageNo
  <2>3. ~(j2 = Index(a, 2) /\ j1 = Index(a, 1) /\ j0 = Index(a, 0))
    <3>1. m = Fanout * (Fanout * j2 + j1) + j0
      BY <2>1, PageIndices
    <3>2. n = Fanout * (Fanout * Index(a, 2) + Index(a, 1)) + Index(a, 0)
      BY <2>2, PageIndices
    <3> QED BY ONLY <1>13, <3>1, <3>2
  <2>4. /\ EntriesOf(ptes', m) = Reach(ptes', j2, j1, j0)
        /\ EntriesOf(w.ptes, m) = Reach(w.ptes, j2, j1, j0)
    BY <2>1 DEF EntriesOf
  <2> QED BY <1>5, <1>11, <2>3, <2>4
<1>14. free' \in Nat /\ free <= free'
  BY <1>2, <1>3, <1>4, <1>9
<1>15. mode # "UTM_FULL" => t \in free .. free' - 1
  BY <1>2, <1>3, <1>4, <1>7, <1>9
<1> QED BY <1>7, <1>9, <1>12, <1>13, <1>14, <1>15 DEF PageAdded

\* A page that is added is in a frame nothing was written to: it holds what it
\* is given, and no other page changes.
LEMMA PageAddedHolds ==
  ASSUME TreeInv, Fresh(memory, free, utmFree), NEW n, NEW mode, NEW bytes,
         PageAdded(n, mode, bytes)
  PROVE  /\ Fresh(memory', free', utmFree')
         /\ mode # "USER_NOEXEC" => PageHolds(ptes', memory', n, bytes)
         /\ \A m \in PageNos \ {n} : \A b :
              PageHolds(ptes, memory, m, b) => PageHolds(ptes', memory', m, b)
<1>1. free \in Nat \ {0} /\ utmFree \in Int /\ utmFree < 0
  BY DEF TreeInv, TypeOK
<1>2. PICK t : /\ PageIs(ptes', n, t)
               /\ IF mode = "UTM_FULL" THEN t = utmFree
                  ELSE t \in free .. free' - 1
               /\ memory' = IF mode = "USER_NOEXEC" THEN memory
                            ELSE memory \union {[frame |-> t, bytes |-> bytes]}
  BY DEF PageAdded
<1>3. /\ free' \in Nat /\ free <= free'
      /\ utmFree' = IF mode = "UTM_FULL" THEN utmFree - 1 ELSE utmFree
  BY DEF PageAdded
<1>4. t \in Int /\ t < free' /\ utmFree' < t
  BY <1>1, <1>2, <1>3
<1>5. \A m \in memory : m.frame # t
  BY <1>1, <1>2 DEF Fresh
<1>6. PICK r : r = [frame |-> t, bytes |-> bytes]
  OBVIOUS
<1>7. r.frame = t
  BY <1>6
<1>8. memory' = memory \/ memory' = memory \union {r}
  BY <1>2, <1>6
<1>9. Fresh(memory', free', utmFree')
  <2>1. \A m \in memory :
          m.frame \in Int /\ m.frame < free' /\ utmFree' < m.frame
    BY <1>1, <1>3 DEF Fresh
  <2> QED BY <1>4, <1>7, <1>8, <2>1 DEF Fresh
<1>10. ASSUME mode # "USER_NOEXEC" PROVE PageHolds(ptes', memory', n, bytes)
  <2>1. memory' = memory \union {r}
    BY <1>2, <1>6, <1>10
  <2>2. Written(memory', t, bytes)
    BY <1>5, <1>6, <1>7, <2>1 DEF Written
  <2> QED BY <1>2, <2>2 DEF PageHolds
<1>11. ASSUME NEW m \in PageNos \ {n}, NEW b, PageHolds(ptes, memory, m, b)
       PROVE  PageHolds(ptes', memory', m, b)
  <2>1. PICK u : PageIs(ptes, m, u) /\ Written(memory, u, b)
    BY <1>11 DEF PageHolds
  <2>2. PageIs(ptes', m, u)
    <3>1. EntriesOf(ptes', m) = EntriesOf(ptes, m)
      BY <1>11 DEF PageAdded
    <3> QED BY <2>1, <3>1 DEF PageIs
  <2>3. PICK s : s = [frame |-> u, bytes |-> b]
    OBVIOUS
  <2>4. s \in memory /\ s.frame = u /\ \A x \in memory : x.frame = u => x = s
    BY <2>1, <2>3 DEF Written
  <2>5. u # t
    BY <1>5, <2>4
  <2>6. \A x \in memory' : x.frame = u => x = s
    BY <1>7, <1>8, <2>4, <2>5
  <2>7. Written(memory', u, b)
    BY <1>8, <2>3, <2>4, <2>6 DEF Written
  <2> QED BY <2>2, <2>7 DEF PageHolds
<1> QED BY <1>9, <1>10, <1>11

-------------------------------------------------------------------------------
(* The pages of a layout. *)

\* A page after another, and the number of the page an address starts.
LEMMA NextPage ==
  ASSUME NEW a \in Int, NEW n \in Int, a = Address(n)
  PROVE  a + PageBytes = Address(n + 1) /\ PageNo(a) = n
         /\ PageNo(a + PageBytes) = n + 1
<1>1. Address(n + 1) = Address(n) + PageBytes
  BY Addresses
<1>2. PageNo(Address(n)) = n /\ PageNo(Address(n + 1)) = n + 1
  BY PagesBelow
<1> QED BY <1>1, <1>2

\* Below the end of the address space, page numbers are below its last.
LEMMA InSpace ==
  ASSUME NEW n \in Int, 0 <= n, Address(n) < AddressSpace
  PROVE  n \in PageNos
<1>1. Fanout * Fanout * Fanout \in Int
  BY SizeAssumption
<1>2. AddressSpace = Address(Fanout * Fanout * Fanout)
  BY DEF AddressSpace, Address
<1>3. n < Fanout * Fanout * Fanout
  BY <1>1, <1>2, Addresses
<1> QED BY <1>1, <1>3 DEF PageNos

\* Addresses that are not negative are of such pages.
LEMMA NatPage ==
  ASSUME NEW a \in Nat
  PROVE  PageNo(a) \in Nat
<1>1. Address(0) = 0
  BY SizeAssumption DEF Address
<1>2. PageNo(a) \in Int /\ 0 <= PageNo(a)
  BY <1>1, PageOfAddress, PagesBelow
<1> QED BY <1>2

\* The pages of a segment are within the address space.
LEMMA SegmentInSpace ==
  ASSUME NEW s \in Segment, PlainSegment(s), NEW n \in SegmentPages(s)
  PROVE  n \in PageNos
<1>1. /\ n \in Int /\ PageNo(s.vaddr) <= n
      /\ Address(n) < s.vaddr + s.memsz
  BY DEF SegmentPages
<1>2. s.vaddr \in Nat /\ s.memsz \in Nat
  BY DEF Segment
<1>3. PageNo(s.vaddr) \in Nat
  BY <1>2, NatPage
<1>4. s.vaddr + s.memsz <= AddressSpace
  BY DEF PlainSegment
<1>5. Address(n) \in Int /\ AddressSpace \in Int
  BY <1>1, Addresses, SizeAssumption DEF AddressSpace
<1> QED BY <1>1, <1>2, <1>3, <1>4, <1>5, InSpace

\* What init() is called with.
LEMMA LayoutTypes ==
  ASSUME TypeOK
  PROVE  /\ layout \in Layout
         /\ layout.stack \in Nat /\ layout.stackSize \in Nat
         /\ layout.untrusted \in Nat /\ layout.untrustedSize \in Nat
         /\ \A f \in File : /\ Segs(f) \in Seq(Segment)
                            /\ Len(Segs(f)) \in Nat
                            /\ \A i \in 1 .. Len(Segs(f)) :
                                 Segs(f)[i] \in Segment
<1>1. layout \in Layout
  BY LayoutAssumption DEF TypeOK
<1>2. \A f \in File : Segs(f) \in Seq(Segment)
  BY MinVaddrType DEF TypeOK, Segs
<1> QED BY <1>1, <1>2 DEF Layout

\* The header loadELF() is at.
LEMMA HeaderTypes ==
  ASSUME TypeOK, seg <= Len(Segs(file))
  PROVE  /\ seg \in 1 .. Len(Segs(file)) /\ Header = Segs(file)[seg]
         /\ Header \in Segment /\ Header.vaddr \in Nat
         /\ Header.filesz \in Nat /\ Header.memsz \in Nat
<1>1. file \in File /\ seg \in Nat \ {0}
  BY DEF TypeOK
<1>2. Len(Segs(file)) \in Nat
  BY <1>1, LayoutTypes
<1>3. seg \in 1 .. Len(Segs(file))
  BY <1>1, <1>2
<1>4. Segs(file)[seg] \in Segment
  BY <1>1, <1>3, LayoutTypes
<1>5. Header = Segs(file)[seg]
  BY DEF Header
<1>6. PICK s : s = Segs(file)[seg]
  OBVIOUS
<1>7. s.vaddr \in Nat /\ s.filesz \in Nat /\ s.memsz \in Nat
  BY <1>4, <1>6 DEF Segment
<1> QED BY <1>3, <1>4, <1>5, <1>6, <1>7

\* The pages of the untrusted region are within the address space.
LEMMA UntrustedInSpace ==
  ASSUME PlainLayouts, TypeOK, NEW n \in UntrustedPages(layout)
  PROVE  n \in PageNos
<1>1. /\ n \in Int /\ PageNo(layout.untrusted) <= n
      /\ Address(n) < PageUp(layout.untrusted + layout.untrustedSize)
  BY DEF UntrustedPages
<1>2. PageUp(layout.untrusted + layout.untrustedSize) < AddressSpace
  BY DEF TypeOK, PlainLayouts, PlainLayout
<1>3. layout.untrusted + layout.untrustedSize \in Int
  BY LayoutTypes
<1>4. PageUp(layout.untrusted + layout.untrustedSize) \in Int
  BY <1>3, RoundingType
<1>5. PageNo(layout.untrusted) \in Nat
  BY LayoutTypes, NatPage
<1>6. Address(n) \in Int /\ AddressSpace \in Int
  BY <1>1, Addresses, SizeAssumption DEF AddressSpace
<1> QED BY <1>1, <1>2, <1>4, <1>5, <1>6, InSpace

\* The pages the loops went over are within the address space.
LEMMA ReachedInSpace ==
  ASSUME PlainLayouts, TypeOK
  PROVE  /\ \A f \in File : \A i, n : Reached(f, i, n) => n \in PageNos
         /\ \A n : StackReached(n) => n \in PageNos
         /\ \A n : UntrustedReached(n) => n \in PageNos
<1>1. ASSUME NEW f \in File, NEW i, NEW n, Reached(f, i, n)
      PROVE  n \in PageNos
  <2>1. /\ i \in 1 .. Len(Segs(f)) /\ Segs(f)[i].load
        /\ n \in SegmentPages(Segs(f)[i])
    BY <1>1 DEF Reached
  <2>2. PlainSegment(Segs(f)[i])
    BY <2>1 DEF TypeOK, PlainLayouts, PlainLayout, Segs
  <2>3. Segs(f)[i] \in Segment
    BY <2>1, LayoutTypes
  <2> QED BY <2>1, <2>2, <2>3, SegmentInSpace
<1>2. ASSUME NEW n, StackReached(n)
      PROVE  n \in PageNos
  BY <1>2 DEF StackReached, TypeOK, PlainLayouts, PlainLayout
<1>3. ASSUME NEW n, UntrustedReached(n)
      PROVE  n \in PageNos
  BY <1>3, UntrustedInSpace DEF UntrustedReached
<1> QED BY <1>1, <1>2, <1>3

-------------------------------------------------------------------------------
(* What a step does to the pages. *)

\* The loops went over the same pages as before, and none was mapped.
SamePages ==
  /\ layout' = layout
  /\ \A m : EntriesOf(ptes', m) = EntriesOf(ptes, m)
  /\ memory' = memory /\ utmFree' = utmFree
  /\ free' \in Nat /\ free <= free'
  /\ \A f \in File, i \in Nat, n \in Int :
       Reached(f, i, n)' <=> Reached(f, i, n)
  /\ \A n \in Int : StackReached(n)' <=> StackReached(n)
  /\ \A n \in Int : UntrustedReached(n)' <=> UntrustedReached(n)

\* A step that leaves the pages as they are keeps what was loaded.
LEMMA SamePagesLoad ==
  ASSUME LoadInv, TreeInv', LoopInv', SamePages
  PROVE  LoadInv'
<1>1. Fresh(memory', free', utmFree')
  <2>1. free \in Nat
    BY DEF LoadInv, TreeInv, TypeOK
  <2> QED BY <2>1 DEF LoadInv, Fresh, SamePages
<1>2. \A n, t : PageIs(ptes, n, t) => PageIs(ptes', n, t)
  BY DEF SamePages, PageIs
<1>3. \A n, b : PageHolds(ptes, memory, n, b) => PageHolds(ptes', memory', n, b)
  BY <1>2 DEF SamePages, PageHolds
<1>4. \A f : Segs(f)' = Segs(f)
  BY DEF SamePages, Segs
<1>5. NothingElse'
  <2> SUFFICES ASSUME NEW n \in PageNos, EntriesOf(ptes', n) # {}
               PROVE  \/ \E f \in File, i \in Nat : Reached(f, i, n)'
                      \/ StackReached(n)'
                      \/ UntrustedReached(n)'
    BY DEF NothingElse
  <2>1. EntriesOf(ptes, n) # {}
    BY DEF SamePages
  <2>2. n \in Int
    BY SizeAssumption DEF PageNos
  <2> QED BY <2>1, <2>2 DEF LoadInv, NothingElse, SamePages
<1>6. SegmentsRight'
  <2> SUFFICES ASSUME NEW f \in File, NEW i \in Nat, NEW n \in Int,
                      Reached(f, i, n)'
               PROVE  \E b : PageHolds(ptes', memory', n, b)
                          /\ RightBytes(f, Segs(f)'[i], n, b)
    BY DEF SegmentsRight
  <2>1. Reached(f, i, n)
    BY DEF SamePages
  <2>2. PICK b : /\ PageHolds(ptes, memory, n, b)
                 /\ RightBytes(f, Segs(f)[i], n, b)
    BY <2>1 DEF LoadInv, SegmentsRight
  <2> QED BY <1>3, <1>4, <2>2
<1>7. UntrustedRight'
  <2> SUFFICES ASSUME NEW n \in Int, UntrustedReached(n)'
               PROVE  PageIs(ptes', n, -1 - (n - PageNo(layout'.untrusted)))
    BY DEF UntrustedRight
  <2>1. UntrustedReached(n) /\ layout' = layout
    BY DEF SamePages
  <2> QED BY <1>2, <2>1 DEF LoadInv, UntrustedRight
<1> QED BY <1>1, <1>5, <1>6, <1>7 DEF LoadInv

\* Page n was mapped, the last one its loop went over and the only one since.
OnePage(n, mode, bytes) ==
  /\ layout' = layout /\ UNCHANGED <<file, start>>
  /\ PageAdded(n, mode, bytes)
  /\ va' = Address(n + 1)
  /\ \A f \in File, i \in Nat, m \in Int : Reached(f, i, m) => Reached(f, i, m)'
  /\ \A m \in Int : StackReached(m) => StackReached(m)'
  /\ \A m \in Int : UntrustedReached(m) => UntrustedReached(m)'
  /\ \/ pc' = "pages" /\ mode = Mode /\ Reached(file, seg, n)'
     \/ pc' = "stack" /\ mode = "USER_NOEXEC" /\ StackReached(n)'
     \/ pc' = "untrusted" /\ mode = "UTM_FULL" /\ UntrustedReached(n)'
  /\ \A m \in Int : StackReached(m)' => StackReached(m) \/ m = n
  /\ \A f \in File, i \in Nat, m \in Int : Reached(f, i, m)' =>
       \/ Reached(f, i, m)
       \/ /\ m = n /\ mode # "USER_NOEXEC"
          /\ RightBytes(f, Segs(f)[i], n, bytes)
  /\ \A m \in Int : UntrustedReached(m)' =>
       \/ UntrustedReached(m)
       \/ /\ m = n /\ mode = "UTM_FULL"
          /\ utmFree = -1 - (n - PageNo(layout.untrusted))

\* A step that maps a page maps one no table had an entry for.
MapsOne ==
  \E n \in PageNos, mode \in Modes : \E bytes :
    EntriesOf(ptes, n) = {} /\ OnePage(n, mode, bytes)

\* A step that maps one page with what it should hold keeps the rest.
LEMMA OnePageLoad ==
  ASSUME PlainLayouts, LoadInv, TreeInv', LoopInv',
         NEW n \in PageNos, EntriesOf(ptes, n) = {}, NEW mode, NEW bytes,
         OnePage(n, mode, bytes)
  PROVE  LoadInv'
<1>1. n \in Int
  BY SizeAssumption DEF PageNos
<1>2. PageAdded(n, mode, bytes)
  BY DEF OnePage
<1>3. /\ Fresh(memory', free', utmFree')
      /\ mode # "USER_NOEXEC" => PageHolds(ptes', memory', n, bytes)
      /\ \A m \in PageNos \ {n} : \A b :
           PageHolds(ptes, memory, m, b) => PageHolds(ptes', memory', m, b)
  BY <1>2, PageAddedHolds DEF LoadInv
<1>4. \A f : Segs(f)' = Segs(f)
  BY DEF OnePage, Segs
<1>5. \A t : ~PageIs(ptes, n, t)
  BY DEF PageIs
<1>6. \A b : ~PageHolds(ptes, memory, n, b)
  BY <1>5 DEF PageHolds
<1>7. TypeOK
  BY DEF LoadInv, TreeInv
<1>8. NothingElse'
  <2> SUFFICES ASSUME NEW m \in PageNos, EntriesOf(ptes', m) # {}
               PROVE  \/ \E f \in File, i \in Nat : Reached(f, i, m)'
                      \/ StackReached(m)'
                      \/ UntrustedReached(m)'
    BY DEF NothingElse
  <2>1. CASE m = n
    <3>1. file' \in File /\ seg' \in Nat
      BY DEF TreeInv, TypeOK
    <3> QED BY <2>1, <3>1 DEF OnePage
  <2>2. CASE m # n
    <3>1. EntriesOf(ptes, m) # {}
      BY <1>2, <2>2 DEF PageAdded
    <3>2. m \in Int
      BY SizeAssumption DEF PageNos
    <3> QED BY <3>1, <3>2 DEF LoadInv, NothingElse, OnePage
  <2> QED BY <2>1, <2>2
<1>9. SegmentsRight'
  <2> SUFFICES ASSUME NEW f \in File, NEW i \in Nat, NEW m \in Int,
                      Reached(f, i, m)'
               PROVE  \E b : PageHolds(ptes', memory', m, b)
                          /\ RightBytes(f, Segs(f)'[i], m, b)
    BY DEF SegmentsRight
  <2>1. CASE Reached(f, i, m)
    <3>1. PICK b : /\ PageHolds(ptes, memory, m, b)
                   /\ RightBytes(f, Segs(f)[i], m, b)
      BY <2>1 DEF LoadInv, SegmentsRight
    <3>2. m \in PageNos \ {n}
      BY <1>6, <1>7, <2>1, <3>1, ReachedInSpace
    <3> QED BY <1>3, <1>4, <3>1, <3>2
  <2>2. CASE ~Reached(f, i, m)
    <3>1. /\ m = n /\ mode # "USER_NOEXEC"
          /\ RightBytes(f, Segs(f)[i], n, bytes)
      BY <2>2 DEF OnePage
    <3> QED BY <1>3, <1>4, <3>1
  <2> QED BY <2>1, <2>2
<1>10. UntrustedRight'
  <2> SUFFICES ASSUME NEW m \in Int, UntrustedReached(m)'
               PROVE  PageIs(ptes', m, -1 - (m - PageNo(layout'.untrusted)))
    BY DEF UntrustedRight
  <2>1. layout' = layout
    BY DEF OnePage
  <2>2. CASE UntrustedReached(m)
    <3>1. PageIs(ptes, m, -1 - (m - PageNo(layout.untrusted)))
      BY <2>2 DEF LoadInv, UntrustedRight
    <3>2. m \in PageNos \ {n}
      BY <1>5, <1>7, <2>2, <3>1, ReachedInSpace
    <3>3. EntriesOf(ptes', m) = EntriesOf(ptes, m)
      BY <1>2, <3>2 DEF PageAdded
    <3> QED BY <2>1, <3>1, <3>3 DEF PageIs
  <2>3. CASE ~UntrustedReached(m)
    <3>1. /\ m = n /\ mode = "UTM_FULL"
          /\ utmFree = -1 - (n - PageNo(layout.untrusted))
      BY <2>3 DEF OnePage
    <3>2. PageIs(ptes', n, utmFree)
      BY <1>2, <3>1 DEF PageAdded
    <3> QED BY <2>1, <3>1, <3>2
  <2> QED BY <2>2, <2>3
<1> QED BY <1>3, <1>8, <1>9, <1>10 DEF LoadInv

-------------------------------------------------------------------------------
(* The steps that map no page. *)

\* A step that changes neither tables nor memory maps no page.
LEMMA QuietMemory ==
  ASSUME LoadInv, UNCHANGED <<layout, ptes, free, utmFree, memory>>
  PROVE  /\ layout' = layout
         /\ \A m : EntriesOf(ptes', m) = EntriesOf(ptes, m)
         /\ memory' = memory /\ utmFree' = utmFree
         /\ free' \in Nat /\ free <= free'
         /\ \A f : Segs(f)' = Segs(f)
BY DEF LoadInv, TreeInv, TypeOK, Segs

\* epm_alloc_vspace() maps no page.
LEMMA VspacePageLoads ==
  ASSUME LoadInv, TreeInv', VspacePage
  PROVE  LoadInv' /\ SamePages
<1>1. TreeInv /\ va \in Int /\ LoopInv
  BY DEF LoadInv, TreeInv, TypeOK
<1>2. AllocTables(va) /\ UNCHANGED <<layout, pc, file, seg>> /\ pc = "vspace"
  BY DEF VspacePage
<1>3. /\ \A m : EntriesOf(ptes', m) = EntriesOf(ptes, m)
      /\ free <= free' /\ UNCHANGED <<utmFree, memory>>
  BY <1>1, <1>2, AllocTablesAdds
<1>4. free' \in Nat
  BY DEF TreeInv, TypeOK
<1>5. LoopInv'
  BY <1>1, <1>2, <1>3 DEF LoopInv
<1>6. SamePages
  BY <1>2, <1>3, <1>4
  DEF SamePages, Reached, StackReached, UntrustedReached, Past, Current, Segs
<1> QED BY <1>5, <1>6, SamePagesLoad

\* Behind the tables, loadELF() has not begun a segment.
LEMMA EndVspaceLoads ==
  ASSUME LoadInv, TreeInv', EndVspace
  PROVE  LoadInv' /\ SamePages
<1>1. /\ UNCHANGED <<layout, file, va, ptes, free, utmFree, memory>>
      /\ pc = "vspace" /\ pc' = "header" /\ seg' = 1
  BY DEF EndVspace
<1>2. LoopInv'
  BY <1>1 DEF LoadInv, LoopInv
<1>3. ASSUME NEW f \in File, NEW i \in Nat, NEW n \in Int
      PROVE  Reached(f, i, n)' <=> Reached(f, i, n)
  <2>1. CASE i \in 1 .. Len(Segs(f))
    <3>1. Past(f, i)' = Past(f, i) /\ ~Current(f, i)' /\ ~Current(f, i)
      BY <1>1, <2>1 DEF Past, Current
    <3> QED BY <1>1, <3>1 DEF Reached, Segs
  <2>2. CASE i \notin 1 .. Len(Segs(f))
    BY <1>1, <2>2 DEF Reached, Segs
  <2> QED BY <2>1, <2>2
<1>4. SamePages
  BY <1>1, <1>3, QuietMemory
  DEF SamePages, StackReached, UntrustedReached
<1> QED BY <1>2, <1>4, SamePagesLoad

\* A header passed over has no page to map, and a segment that begins none yet.
LEMMA BeginSegmentLoads ==
  ASSUME LoadInv, TreeInv', BeginSegment
  PROVE  LoadInv' /\ SamePages
<1>1. /\ UNCHANGED <<layout, file, ptes, free, utmFree, memory>>
      /\ pc = "header" /\ seg <= Len(Segs(file))
  BY DEF BeginSegment
<1>2. TypeOK /\ seg \in Nat \ {0} /\ file \in File
  BY DEF LoadInv, TreeInv, TypeOK
<1>3. Header \in Segment /\ Header.vaddr \in Nat
  BY <1>1, <1>2, HeaderTypes
<1>4. Segs(file)' = Segs(file)
  BY <1>1 DEF Segs
<1>5. CASE ~Header.load /\ seg' = seg + 1 /\ UNCHANGED <<pc, va>>
  <2>1. LoopInv'
    BY <1>1, <1>5 DEF LoadInv, LoopInv
  <2>2. ASSUME NEW f \in File, NEW i \in Nat, NEW n \in Int
        PROVE  Reached(f, i, n)' <=> Reached(f, i, n)
    <3>1. CASE f = file /\ i = seg
      <4>1. ~Segs(f)[i].load
        BY <1>5, <3>1 DEF Header
      <4> QED BY <1>1, <3>1, <4>1 DEF Reached, Segs
    <3>2. CASE ~(f = file /\ i = seg)
      <4>1. Past(f, i)' = Past(f, i) /\ ~Current(f, i)' /\ ~Current(f, i)
        BY <1>1, <1>2, <1>5, <3>2 DEF Past, Current
      <4> QED BY <1>1, <4>1 DEF Reached, Segs
    <3> QED BY <3>1, <3>2
  <2>3. SamePages
    BY <1>1, <1>5, <2>2, QuietMemory
    DEF SamePages, StackReached, UntrustedReached
  <2> QED BY <2>1, <2>3, SamePagesLoad
<1>6. CASE /\ Header.load /\ IsAligned(Header.vaddr)
           /\ va' = Header.vaddr /\ pc' = "pages" /\ UNCHANGED seg
  <2>1. va' = Address(PageNo(Header.vaddr)) /\ va' \in Int
    BY <1>3, <1>6, Rounding
  <2>2. (va = Address(PageNo(va)))'
    BY <1>6, <2>1
  <2>3. Header' = Header
    BY <1>1, <1>6 DEF Header, Segs
  <2>4. LoopInv'
    <3>1. utmFree' = -1
      BY <1>1 DEF LoadInv, LoopInv
    <3>2. pc' = "pages"
      BY <1>6
    <3>3. (seg <= Len(Segs(file)))'
      BY <1>1, <1>4, <1>6
    <3>4. (Header.load /\ Header.vaddr <= va)'
      BY <1>3, <1>6, <2>3
    <3> QED BY <2>2, <3>1, <3>2, <3>3, <3>4, Zenon DEF LoopInv
  <2>5. ASSUME NEW f \in File, NEW i \in Nat, NEW n \in Int
        PROVE  Reached(f, i, n)' <=> Reached(f, i, n)
    <3>1. Past(f, i)' = Past(f, i) /\ ~Current(f, i)
      BY <1>1, <1>6 DEF Past, Current
    <3>2. ASSUME n \in SegmentPages(Segs(f)[i]), Current(f, i)'
          PROVE  ~(Address(n) < va')
      <4>1. f = file /\ i = seg
        BY <1>1, <1>6, <3>2 DEF Current
      <4>2. PageNo(Header.vaddr) <= n
        BY <3>2, <4>1 DEF SegmentPages, Header
      <4>3. PageNo(Header.vaddr) \in Int
        BY <1>3, PageOfAddress
      <4>4. Address(PageNo(Header.vaddr)) <= Address(n)
        BY <4>2, <4>3, Addresses
      <4>5. Address(n) \in Int
        BY Addresses
      <4> QED BY <2>1, <4>4, <4>5
    <3> QED BY <1>1, <3>1, <3>2 DEF Reached, Segs
  <2>6. SamePages
    BY <1>1, <1>6, <2>5, QuietMemory
    DEF SamePages, StackReached, UntrustedReached
  <2> QED BY <2>4, <2>6, SamePagesLoad
<1> QED BY <1>5, <1>6 DEF BeginSegment

\* The loops over a segment end with its last page.
LEMMA EndSegmentLoads ==
  ASSUME LoadInv, TreeInv', EndSegment
  PROVE  LoadInv' /\ SamePages
<1>1. /\ UNCHANGED <<layout, file, va, ptes, free, utmFree, memory>>
      /\ pc = "pages" /\ pc' = "header" /\ seg' = seg + 1 /\ va >= MemoryEnd
  BY DEF EndSegment
<1>2. TypeOK /\ seg \in Nat \ {0} /\ file \in File /\ va \in Int
  BY DEF LoadInv, TreeInv, TypeOK
<1>3. LoopInv'
  BY <1>1 DEF LoadInv, LoopInv
<1>4. seg <= Len(Segs(file))
  BY <1>1 DEF LoadInv, LoopInv
<1>5. ASSUME NEW f \in File, NEW i \in Nat, NEW n \in Int
      PROVE  Reached(f, i, n)' <=> Reached(f, i, n)
  <2>1. CASE f = file /\ i = seg
    <3>1. Past(f, i)' /\ Current(f, i)
      BY <1>1, <1>2, <2>1 DEF Past, Current
    <3>2. n \in SegmentPages(Segs(f)[i]) => Address(n) < va
      <4>1. MemoryEnd \in Int
        BY <1>2, <1>4, HeaderTypes DEF MemoryEnd
      <4>2. Address(n) \in Int
        BY Addresses
      <4> QED BY <1>1, <1>2, <2>1, <4>1, <4>2
              DEF SegmentPages, MemoryEnd, Header
    <3> QED BY <1>1, <3>1, <3>2 DEF Reached, Segs
  <2>2. CASE ~(f = file /\ i = seg)
    <3>1. Past(f, i)' = Past(f, i) /\ ~Current(f, i)' /\ ~Current(f, i)
      BY <1>1, <1>2, <2>2 DEF Past, Current
    <3> QED BY <1>1, <3>1 DEF Reached, Segs
  <2> QED BY <2>1, <2>2
<1>6. SamePages
  BY <1>1, <1>5, QuietMemory
  DEF SamePages, StackReached, UntrustedReached
<1> QED BY <1>3, <1>6, SamePagesLoad

\* The ends of the stack are addresses.
LEMMA StackEnds ==
  ASSUME TypeOK
  PROVE  StackHigh \in Int /\ StackHigh - layout.stackSize \in Int
<1>1. layout.stack \in Int /\ layout.stackSize \in Int
  BY LayoutTypes
<1>2. PageUp(layout.stack) \in Int
  BY <1>1, RoundingType
<1> QED BY <1>1, <1>2 DEF StackHigh

\* loadELF() returns when every segment of the file was loaded.
LEMMA EndFileLoads ==
  ASSUME LoadInv, TreeInv', EndFile
  PROVE  LoadInv' /\ SamePages
<1>1. /\ UNCHANGED <<layout, seg, ptes, free, utmFree, memory>>
      /\ pc = "header" /\ seg > Len(Segs(file))
  BY DEF EndFile
<1>2. TypeOK /\ seg \in Nat \ {0} /\ file \in File /\ va \in Int
  BY DEF LoadInv, TreeInv, TypeOK
<1>3. utmFree' = -1
  BY <1>1 DEF LoadInv, LoopInv
<1>4. \A f \in File : Len(Segs(f)) \in Nat
  BY <1>2, LayoutTypes
<1>5. CASE /\ file = "runtime" /\ file' = "eapp" /\ pc' = "vspace"
  <2>1. LoopInv'
    BY <1>3, <1>5 DEF LoopInv
  <2>2. ASSUME NEW f \in File, NEW i \in Nat, NEW n \in Int
        PROVE  Reached(f, i, n)' <=> Reached(f, i, n)
    <3>1. ~Current(f, i)' /\ ~Current(f, i)
      BY <1>1, <1>5 DEF Current
    <3>2. i \in 1 .. Len(Segs(f)) => Past(f, i)' = Past(f, i)
      BY <1>1, <1>2, <1>4, <1>5 DEF Past, File
    <3> QED BY <1>1, <3>1, <3>2 DEF Reached, Segs
  <2>3. SamePages
    BY <1>1, <1>5, <2>2, QuietMemory
    DEF SamePages, StackReached, UntrustedReached
  <2> QED BY <2>1, <2>3, SamePagesLoad
<1>6. CASE /\ file = "eapp" /\ pc' = "stack" /\ va' = StackLow /\ UNCHANGED file
  <2>1. StackHigh - layout.stackSize \in Int
    BY <1>2, StackEnds
  <2>2. StackLow = Address(PageNo(StackHigh - layout.stackSize))
        /\ PageNo(StackHigh - layout.stackSize) \in Int
    BY <2>1, Rounding, PageOfAddress DEF StackLow
  <2>3. StackLow = Address(PageNo(StackLow)) /\ StackLow \in Int
    BY <2>2, PagesBelow, Addresses
  <2>4. StackLow' = StackLow
    BY <1>1 DEF StackLow, StackHigh
  <2>5. LoopInv'
    BY <1>3, <1>6, <2>3, <2>4 DEF LoopInv
  <2>6. ASSUME NEW f \in File, NEW i \in Nat, NEW n \in Int
        PROVE  Reached(f, i, n)' <=> Reached(f, i, n)
    <3>1. ~Current(f, i)' /\ ~Current(f, i)
      BY <1>1, <1>6 DEF Current
    <3>2. i \in 1 .. Len(Segs(f)) => Past(f, i)' = Past(f, i)
      BY <1>1, <1>2, <1>4, <1>6 DEF Past, File
    <3> QED BY <1>1, <3>1, <3>2 DEF Reached, Segs
  <2>7. ASSUME NEW n \in Int
        PROVE  StackReached(n)' <=> StackReached(n)
    <3>1. ~StackReached(n)
      BY <1>1 DEF StackReached
    <3>2. n \in StackPages(layout) => StackLow <= Address(n)
      BY DEF StackPages, StackLow, StackHigh
    <3>3. Address(n) \in Int
      BY Addresses
    <3>4. ~StackReached(n)'
      BY <1>1, <1>6, <2>3, <3>2, <3>3 DEF StackReached
    <3> QED BY <3>1, <3>4
  <2>8. SamePages
    BY <1>1, <1>6, <2>6, <2>7, QuietMemory DEF SamePages, UntrustedReached
  <2> QED BY <2>5, <2>8, SamePagesLoad
<1> QED BY <1>5, <1>6 DEF EndFile

\* initStack() ends above the stack, and loadUntrusted() begins.
LEMMA EndStackLoads ==
  ASSUME LoadInv, TreeInv', EndStack
  PROVE  LoadInv' /\ SamePages
<1>1. /\ UNCHANGED <<layout, file, seg, ptes, free, utmFree, memory>>
      /\ pc = "stack" /\ pc' = "untrusted" /\ va >= StackHigh
      /\ va' = PageDown(layout.untrusted)
  BY DEF EndStack
<1>2. TypeOK /\ va \in Int /\ layout.untrusted \in Int
  <2>1. TypeOK /\ va \in Int
    BY DEF LoadInv, TreeInv, TypeOK
  <2> QED BY <2>1, LayoutTypes
<1>3. StackHigh \in Int
  BY <1>2, StackEnds
<1>4. /\ va' = Address(PageNo(layout.untrusted))
      /\ PageNo(layout.untrusted) \in Int
  BY <1>1, <1>2, Rounding, PageOfAddress
<1>5. PageNo(va') = PageNo(layout.untrusted)
  BY <1>4, PagesBelow
<1>6. LoopInv'
  <2>1. utmFree' = -1
    BY <1>1 DEF LoadInv, LoopInv
  <2> QED BY <1>1, <1>4, <1>5, <2>1 DEF LoopInv
<1>7. \A f, i, n : Reached(f, i, n)' <=> Reached(f, i, n)
  BY <1>1 DEF Reached, Past, Current, Segs
<1>8. ASSUME NEW n \in Int
      PROVE  /\ StackReached(n)' <=> StackReached(n)
             /\ UntrustedReached(n)' <=> UntrustedReached(n)
  <2>1. Address(n) \in Int
    BY Addresses
  <2>2. n \in StackPages(layout) => Address(n) < va
    BY <1>1, <1>2, <1>3, <2>1 DEF StackPages, StackHigh
  <2>3. n \in UntrustedPages(layout) => ~(Address(n) < va')
    <3>1. n \in UntrustedPages(layout) =>
            Address(PageNo(layout.untrusted)) <= Address(n)
      BY <1>4, Addresses DEF UntrustedPages
    <3> QED BY <1>4, <2>1, <3>1, Addresses
  <2> QED BY <1>1, <2>2, <2>3 DEF StackReached, UntrustedReached
<1>9. SamePages
  BY <1>1, <1>7, <1>8, QuietMemory DEF SamePages
<1> QED BY <1>6, <1>9, SamePagesLoad

\* A region below the end of the address space ends where it should.
LEMMA UntrustedEnds ==
  ASSUME PlainLayouts, TypeOK
  PROVE  UntrustedEnd = PageUp(layout.untrusted + layout.untrustedSize)
<1>1. PICK a : a = layout.untrusted + layout.untrustedSize
  OBVIOUS
<1>2. a \in Nat
  BY <1>1, LayoutTypes
<1>3. PageUp(a) \in Int /\ a <= PageUp(a)
  BY <1>2, Rounding, RoundingType
<1>4. PageUp(a) < AddressSpace
  BY <1>1 DEF TypeOK, PlainLayouts, PlainLayout
<1>5. AddressSpace \in Int
  BY SizeAssumption DEF AddressSpace
<1>6. \A m, d \in Int : 0 <= m /\ m < d => m % d = m
  BY SMT
<1>7. PageUp(a) % AddressSpace = PageUp(a)
  BY <1>2, <1>3, <1>4, <1>5, <1>6
<1> QED BY <1>1, <1>7 DEF UntrustedEnd

\* loadUntrusted() ends when the whole region is mapped.
LEMMA EndUntrustedLoads ==
  ASSUME PlainLayouts, LoadInv, TreeInv', EndUntrusted
  PROVE  LoadInv' /\ SamePages
<1>1. /\ UNCHANGED <<layout, file, seg, va, ptes, free, utmFree, memory>>
      /\ pc = "untrusted" /\ pc' = "done" /\ va >= UntrustedEnd
  BY DEF EndUntrusted
<1>2. TypeOK /\ va \in Int
  BY DEF LoadInv, TreeInv, TypeOK
<1>3. UntrustedEnd = PageUp(layout.untrusted + layout.untrustedSize)
  BY <1>2, UntrustedEnds
<1>4. LoopInv'
  BY <1>1 DEF LoopInv
<1>5. \A f, i, n : Reached(f, i, n)' <=> Reached(f, i, n)
  BY <1>1 DEF Reached, Past, Current, Segs
<1>6. ASSUME NEW n \in Int
      PROVE  /\ StackReached(n)' <=> StackReached(n)
             /\ UntrustedReached(n)' <=> UntrustedReached(n)
  <2>1. Address(n) \in Int /\ UntrustedEnd \in Int
    <3>1. layout.untrusted + layout.untrustedSize \in Int
      BY <1>2, LayoutTypes
    <3> QED BY <1>3, <3>1, Addresses, RoundingType
  <2>2. n \in UntrustedPages(layout) => Address(n) < va
    BY <1>1, <1>2, <1>3, <2>1 DEF UntrustedPages
  <2> QED BY <1>1, <2>2 DEF StackReached, UntrustedReached
<1>7. SamePages
  BY <1>1, <1>5, <1>6, QuietMemory DEF SamePages
<1> QED BY <1>4, <1>7, SamePagesLoad

-------------------------------------------------------------------------------
(* The steps that map a page. *)

\* What a layout says of a page of a segment.
LEMMA PlainPages ==
  ASSUME PlainLayouts, TypeOK, NEW f \in File, NEW i \in 1 .. Len(Segs(f)),
         Segs(f)[i].load
  PROVE  /\ PlainSegment(Segs(f)[i])
         /\ SegmentPages(Segs(f)[i]) \intersect StackPages(layout) = {}
         /\ SegmentPages(Segs(f)[i]) \intersect UntrustedPages(layout) = {}
         /\ \A g \in File : \A j \in 1 .. Len(Segs(g)) :
              Segs(g)[j].load /\ (f # g \/ i # j) =>
                SegmentPages(Segs(f)[i])
                  \intersect SegmentPages(Segs(g)[j]) = {}
BY DEF TypeOK, PlainLayouts, PlainLayout, Segs

\* loadELF() maps the next page of a segment.
LEMMA SegmentPageLoads ==
  ASSUME PlainLayouts, LoadInv, TreeInv',
         pc \in {"header", "pages"}, seg <= Len(Segs(file)), Header.load,
         NEW n \in SegmentPages(Header),
         pc = "pages" => va = Address(n),
         pc = "header" => n = PageNo(Header.vaddr),
         pc' = "pages", va' = Address(n + 1),
         UNCHANGED <<layout, file, seg, start>>,
         NEW bytes, AllocPage(Address(n), Mode, bytes),
         RightBytes(file, Header, n, bytes)
  PROVE  LoadInv' /\ MapsOne
<1>1. TypeOK /\ TreeInv /\ LoopInv /\ file \in File /\ seg \in Nat \ {0}
  BY DEF LoadInv, TreeInv, TypeOK
<1>2. /\ seg \in 1 .. Len(Segs(file)) /\ Header = Segs(file)[seg]
      /\ Header \in Segment /\ Header.vaddr \in Int
  <2>1. Header.vaddr \in Nat
    BY <1>1, HeaderTypes
  <2> QED BY <1>1, <2>1, HeaderTypes
<1>3. /\ n \in Int /\ PageNo(Header.vaddr) <= n
      /\ Address(n) < Header.vaddr + Header.memsz
  BY DEF SegmentPages
<1>4. n \in PageNos
  BY <1>1, <1>2, PlainPages, SegmentInSpace
<1>5. /\ ~Past(file, seg)
      /\ ~(Current(file, seg) /\ Address(n) < va)
  <2>1. Address(n) \in Int
    BY <1>3, Addresses
  <2> QED BY <1>1, <2>1 DEF Past, Current, File
<1>6. EntriesOf(ptes, n) = {}
  <2>1. ASSUME NEW f \in File, NEW i \in Nat, Reached(f, i, n)
        PROVE  FALSE
    <3>1. /\ i \in 1 .. Len(Segs(f)) /\ Segs(f)[i].load
          /\ n \in SegmentPages(Segs(f)[i])
          /\ Past(f, i) \/ (Current(f, i) /\ Address(n) < va)
      BY <2>1 DEF Reached
    <3>2. f # file \/ i # seg
      BY <1>5, <3>1
    <3>3. SegmentPages(Segs(f)[i]) \intersect SegmentPages(Header) = {}
      BY <1>1, <1>2, <3>1, <3>2, PlainPages
    <3> QED BY <3>1, <3>3
  <2>2. ~StackReached(n) /\ ~UntrustedReached(n)
    BY DEF StackReached, UntrustedReached
  <2> QED BY <1>4, <2>1, <2>2 DEF LoadInv, NothingElse
<1>7. PageAdded(n, Mode, bytes)
  <2>1. Address(n) \in Int /\ PageNo(Address(n)) = n
    BY <1>3, Addresses, PagesBelow
  <2>2. Mode \in Modes \ {"table"}
    BY DEF Mode, Modes
  <2> QED BY <1>1, <1>4, <1>6, <2>1, <2>2, AllocPageAdds
<1>8. Mode # "UTM_FULL" /\ Mode # "USER_NOEXEC"
  BY DEF Mode
<1>9. Segs(file)' = Segs(file) /\ Header' = Header
  BY DEF Segs, Header
<1>10. LoopInv'
  <2>1. (va = Address(PageNo(va)))'
    BY <1>3, PagesBelow
  <2>2. utmFree' = -1
    BY <1>1, <1>7, <1>8 DEF PageAdded, LoopInv
  <2>3. (seg <= Len(Segs(file)))'
    BY <1>9
  <2>4. (Header.load /\ Header.vaddr <= va)'
    <3>1. Header.vaddr <= Address(n + 1)
      <4>1. PageNo(Header.vaddr) \in Int
        BY <1>2, PageOfAddress
      <4>2. /\ Header.vaddr =
                 Address(PageNo(Header.vaddr)) + Within(Header.vaddr)
            /\ Within(Header.vaddr) \in 0 .. PageBytes - 1
        BY <1>2, PageOfAddress
      <4>3. /\ Address(PageNo(Header.vaddr)) \in Int /\ Address(n) \in Int
            /\ Address(PageNo(Header.vaddr)) <= Address(n)
            /\ Address(n + 1) = Address(n) + PageBytes
        BY <1>3, <4>1, Addresses
      <4> QED BY <4>2, <4>3, SizeAssumption
    <3> QED BY <1>9, <3>1
  <2> QED BY <2>1, <2>2, <2>3, <2>4, Zenon DEF LoopInv
<1>11. ASSUME NEW f \in File, NEW i \in Nat, NEW m \in Int
       PROVE  /\ Reached(f, i, m) => Reached(f, i, m)'
              /\ Reached(f, i, m)' => \/ Reached(f, i, m)
                                      \/ m = n /\ f = file /\ i = seg
  <2>1. Past(f, i)' = Past(f, i)
    BY DEF Past
  <2>2. CASE f = file /\ i = seg
    <3>1. Current(f, i)'
      BY <2>2 DEF Current
    <3>2. pc = "pages" => Current(f, i)
      BY <2>2 DEF Current
    <3>3. pc = "header" => ~Current(f, i)
      BY DEF Current
    <3>4. Address(m) < va' <=> m <= n
      <4>1. Address(m) < va' => m < n + 1
        BY <1>3, Addresses
      <4>2. m <= n => Address(m) <= Address(n)
        BY <1>3, Addresses
      <4>3. /\ Address(n + 1) = Address(n) + PageBytes
            /\ Address(n) \in Int /\ Address(m) \in Int
        BY <1>3, Addresses
      <4> QED BY <1>3, <4>1, <4>2, <4>3, SizeAssumption
    <3>5. m < n => Address(m) < Address(n)
      <4>1. m < n => Address(m + 1) <= Address(n)
        BY <1>3, Addresses
      <4>2. /\ Address(m + 1) = Address(m) + PageBytes
            /\ Address(n) \in Int /\ Address(m) \in Int
        BY <1>3, Addresses
      <4> QED BY <4>1, <4>2, SizeAssumption
    <3>6. Reached(f, i, m)' <=> m \in SegmentPages(Header) /\ m <= n
      BY <1>2, <1>5, <1>9, <2>1, <2>2, <3>1, <3>4 DEF Reached, Segs
    <3>7. Reached(f, i, m) => m < n
      <4>1. Address(m) \in Int /\ Address(n) \in Int
        BY <1>3, Addresses
      <4>2. Reached(f, i, m) => pc = "pages" /\ Address(m) < va
        BY <1>5, <2>2, <3>3 DEF Reached
      <4> QED BY <1>3, <4>2, Addresses
    <3>8. Reached(f, i, m) => m \in SegmentPages(Header)
      BY <1>2, <2>2 DEF Reached
    <3>9. pc = "pages" /\ m \in SegmentPages(Header) /\ m < n
            => Reached(f, i, m)
      BY <1>2, <2>2, <3>2, <3>5 DEF Reached
    <3>10. pc = "pages" \/ n = PageNo(Header.vaddr)
      OBVIOUS
    <3>11. ~(n = PageNo(Header.vaddr) /\ m \in SegmentPages(Header) /\ m < n)
      <4>1. PageNo(Header.vaddr) \in Int
        BY <1>2, PageOfAddress
      <4> QED BY <1>3, <4>1 DEF SegmentPages
    <3> QED BY <1>3, <2>2, <3>6, <3>7, <3>8, <3>9, <3>10, <3>11
  <2>3. CASE ~(f = file /\ i = seg)
    <3>1. ~Current(f, i)' /\ ~Current(f, i)
      BY <2>3 DEF Current
    <3> QED BY <2>1, <3>1 DEF Reached, Segs
  <2> QED BY <2>2, <2>3
<1>12. Reached(file, seg, n)'
  <2>1. Current(file, seg)'
    BY DEF Current
  <2>2. Address(n) < va'
    <3>1. Address(n + 1) = Address(n) + PageBytes /\ Address(n) \in Int
      BY <1>3, Addresses
    <3> QED BY <3>1, SizeAssumption
  <2> QED BY <1>2, <1>9, <2>1, <2>2 DEF Reached, Segs
<1>13. \A m : /\ ~StackReached(m) /\ ~StackReached(m)'
              /\ ~UntrustedReached(m) /\ ~UntrustedReached(m)'
  BY DEF StackReached, UntrustedReached
<1>14. OnePage(n, Mode, bytes)
  <2>1. \A f \in File, i \in Nat, m \in Int : Reached(f, i, m)' =>
          \/ Reached(f, i, m)
          \/ /\ m = n /\ Mode # "USER_NOEXEC"
             /\ RightBytes(f, Segs(f)[i], n, bytes)
    BY <1>2, <1>8, <1>11
  <2> QED BY <1>7, <1>11, <1>12, <1>13, <2>1 DEF OnePage
<1>15. Mode \in Modes
  BY DEF Mode, Modes
<1> QED BY <1>4, <1>6, <1>10, <1>14, <1>15, OnePageLoad DEF MapsOne

\* The page a misaligned segment starts in holds the bytes it should.
LEMMA BeginMisalignedLoads ==
  ASSUME PlainLayouts, LoadInv, TreeInv', BeginMisaligned
  PROVE  LoadInv' /\ MapsOne
<1>1. /\ pc = "header" /\ seg <= Len(Segs(file)) /\ Header.load
      /\ ~IsAligned(Header.vaddr)
      /\ va' = PageUp(Header.vaddr) /\ pc' = "pages"
      /\ UNCHANGED <<layout, file, seg, start>>
  BY DEF BeginMisaligned
<1>2. TypeOK /\ file \in File /\ seg \in 1 .. Len(Segs(file))
  <2>1. TypeOK
    BY DEF LoadInv, TreeInv
  <2> QED BY <1>1, <2>1, LayoutTypes DEF TypeOK
<1>3. PICK s : s = Header
  OBVIOUS
<1>4. PICK v : v = s.vaddr
  OBVIOUS
<1>5. s = Segs(file)[seg] /\ s \in Segment /\ v \in Int
  <2>1. s = Segs(file)[seg]
    BY <1>3 DEF Header
  <2>2. s \in Segment
    BY <1>2, <2>1, LayoutTypes
  <2> QED BY <1>4, <2>1, <2>2 DEF Segment
<1>6. PlainSegment(s) /\ s.memsz \in Int /\ s.filesz \in Int
  <2>1. PlainSegment(s)
    BY <1>1, <1>2, <1>3, <1>5, PlainPages
  <2> QED BY <1>5, <2>1 DEF Segment
<1>7. PICK n : n = PageNo(v)
  OBVIOUS
<1>8. /\ n \in Int /\ PageDown(v) = Address(n) /\ PageUp(v) = Address(n + 1)
  <2>1. PageNo(v) \in Int
    BY <1>5, PageOfAddress
  <2>2. PageNo(v - 1) = PageNo(v)
    BY <1>1, <1>3, <1>4, <1>5, Rounding
  <2> QED BY <1>5, <1>7, <2>1, <2>2, Rounding
<1>9. /\ Address(n) \in Int /\ Address(n) <= v
      /\ Address(n + 1) = Address(n) + PageBytes
  BY <1>5, <1>7, <1>8, PagesBelow, Addresses
<1>10. n \in SegmentPages(s)
  <2>1. Address(n) < v + s.memsz
    BY <1>5, <1>6, <1>9 DEF PlainSegment
  <2> QED BY <1>4, <1>7, <1>8, <2>1 DEF SegmentPages
<1>11. PICK bytes :
         bytes = PageOf(file, s, Address(n), v, Address(n) + PageBytes)
  OBVIOUS
<1>12. AllocPage(Address(n), Mode, bytes)
  BY <1>3, <1>4, <1>8, <1>11 DEF BeginMisaligned
<1>13. RightBytes(file, s, n, bytes)
  <2> SUFFICES ASSUME NEW k \in 0 .. PageBytes - 1, NEW a,
                      a = Address(n) + k, v <= a, a < v + s.memsz
               PROVE  bytes[k] = IF a < v + s.filesz THEN Source(file, s, a)
                                 ELSE Zero
    BY <1>4 DEF RightBytes
  <2>1. a \in Int /\ a < Address(n) + PageBytes
    BY <1>9, SizeAssumption
  <2>2. a < v + s.filesz
    <3>1. s.filesz = s.memsz \/ PageUp(v) <= v + s.filesz
      BY <1>1, <1>3, <1>4, <1>6 DEF PlainSegment
    <3>2. CASE s.filesz = s.memsz
      BY <3>2
    <3>3. CASE PageUp(v) <= v + s.filesz
      <4>1. PageUp(v) = Address(n) + PageBytes
        BY <1>8, <1>9
      <4>2. Address(n) + PageBytes \in Int /\ v + s.filesz \in Int
        BY <1>5, <1>6, <1>9, SizeAssumption
      <4> QED BY <2>1, <3>3, <4>1, <4>2
    <3> QED BY <3>1, <3>2, <3>3
  <2>3. bytes[k] = Source(file, s, a)
    BY <1>11, <2>1 DEF PageOf
  <2> QED BY <2>2, <2>3
<1> QED
  BY <1>1, <1>3, <1>4, <1>7, <1>8, <1>10, <1>12, <1>13, SegmentPageLoads

\* Where the loops over a segment stand.
LEMMA SegmentLoop ==
  ASSUME PlainLayouts, LoadInv, pc = "pages", NEW s, s = Header
  PROVE  /\ TypeOK /\ file \in File /\ va \in Int
         /\ seg <= Len(Segs(file)) /\ s.load /\ PlainSegment(s)
         /\ s \in Segment /\ s.vaddr \in Int /\ s.filesz \in Int
         /\ s.memsz \in Int /\ s.vaddr <= va
         /\ \E n \in Int : /\ va = Address(n) /\ va + PageBytes = Address(n + 1)
                           /\ va < s.vaddr + s.memsz => n \in SegmentPages(s)
<1>1. TypeOK /\ file \in File /\ va \in Int /\ seg \in Nat \ {0}
  BY DEF LoadInv, TreeInv, TypeOK
<1>2. /\ seg <= Len(Segs(file)) /\ s.load /\ s.vaddr <= va
      /\ va = Address(PageNo(va))
  BY DEF LoadInv, LoopInv
<1>3. seg \in 1 .. Len(Segs(file)) /\ s = Segs(file)[seg]
  BY <1>1, <1>2, LayoutTypes DEF Header
<1>4. s \in Segment /\ PlainSegment(s)
  BY <1>1, <1>2, <1>3, LayoutTypes, PlainPages
<1>5. s.vaddr \in Int /\ s.filesz \in Int /\ s.memsz \in Int
  BY <1>4 DEF Segment
<1>6. PICK n : n = PageNo(va)
  OBVIOUS
<1>7. /\ n \in Int /\ va = Address(n)
      /\ va + PageBytes = Address(n + 1)
  BY <1>1, <1>2, <1>6, PageOfAddress, NextPage
<1>8. PageNo(s.vaddr) <= n
  <2>1. PageNo(s.vaddr) \in Int
    BY <1>5, PageOfAddress
  <2>2. Address(PageNo(s.vaddr)) <= s.vaddr /\ Address(PageNo(s.vaddr)) \in Int
    <3>1. PageNo(s.vaddr) <= PageNo(s.vaddr)
      BY <2>1
    <3> QED BY <1>5, <2>1, <3>1, PagesBelow, Addresses
  <2>3. Address(PageNo(s.vaddr)) <= va
    BY <1>1, <1>2, <1>5, <2>2
  <2> QED BY <1>1, <1>6, <2>1, <2>3, PagesBelow
<1>9. va < s.vaddr + s.memsz => n \in SegmentPages(s)
  BY <1>7, <1>8 DEF SegmentPages
<1> QED BY <1>1, <1>2, <1>4, <1>5, <1>7, <1>9

\* A page with bytes of the file holds these, then zeroes.
LEMMA FilePageLoads ==
  ASSUME PlainLayouts, LoadInv, TreeInv', FilePage
  PROVE  LoadInv' /\ MapsOne
<1>1. /\ pc = "pages" /\ pc' = "pages" /\ va' = va + PageBytes
      /\ UNCHANGED <<layout, file, seg, start>>
  BY DEF FilePage
<1>2. PICK s : s = Header
  OBVIOUS
<1>3. /\ va \in Int /\ seg <= Len(Segs(file)) /\ s.load /\ PlainSegment(s)
      /\ s.vaddr \in Int /\ s.filesz \in Int /\ s.memsz \in Int /\ s.vaddr <= va
  BY <1>1, <1>2, SegmentLoop
<1>4. PICK n \in Int : /\ va = Address(n) /\ va + PageBytes = Address(n + 1)
                       /\ va < s.vaddr + s.memsz => n \in SegmentPages(s)
  BY <1>1, <1>2, SegmentLoop
<1>5. PICK end : end = s.vaddr + s.filesz
  OBVIOUS
<1>6. PICK bytes : bytes = PageOf(file, s, va, va, end)
  OBVIOUS
<1>7. va < end /\ AllocPage(va, Mode, bytes)
  BY <1>2, <1>5, <1>6 DEF FilePage, FileEnd
<1>8. n \in SegmentPages(s)
  BY <1>3, <1>4, <1>5, <1>7 DEF PlainSegment
<1>9. RightBytes(file, s, n, bytes)
  <2> SUFFICES ASSUME NEW k \in 0 .. PageBytes - 1, NEW a,
                      a = Address(n) + k
               PROVE  bytes[k] = IF a < s.vaddr + s.filesz
                                 THEN Source(file, s, a) ELSE Zero
    BY DEF RightBytes
  <2>1. a = va + k /\ va <= a
    BY <1>3, <1>4
  <2> QED BY <1>5, <1>6, <2>1 DEF PageOf
<1> QED BY <1>1, <1>2, <1>3, <1>4, <1>7, <1>8, <1>9, SegmentPageLoads

\* A page of .bss holds zeroes.
LEMMA BssPageLoads ==
  ASSUME PlainLayouts, LoadInv, TreeInv', BssPage
  PROVE  LoadInv' /\ MapsOne
<1>1. /\ pc = "pages" /\ pc' = "pages" /\ va' = va + PageBytes
      /\ UNCHANGED <<layout, file, seg, start>>
  BY DEF BssPage
<1>2. PICK s : s = Header
  OBVIOUS
<1>3. /\ va \in Int /\ seg <= Len(Segs(file)) /\ s.load
      /\ s.vaddr \in Int /\ s.filesz \in Int /\ s.memsz \in Int /\ s.vaddr <= va
  BY <1>1, <1>2, SegmentLoop
<1>4. PICK n \in Int : /\ va = Address(n) /\ va + PageBytes = Address(n + 1)
                       /\ va < s.vaddr + s.memsz => n \in SegmentPages(s)
  BY <1>1, <1>2, SegmentLoop
<1>5. /\ va >= s.vaddr + s.filesz /\ va < s.vaddr + s.memsz
      /\ AllocPage(va, Mode, NullPage)
  BY <1>2 DEF BssPage, FileEnd, MemoryEnd
<1>6. RightBytes(file, s, n, NullPage)
  <2> SUFFICES ASSUME NEW k \in 0 .. PageBytes - 1, NEW a,
                      a = Address(n) + k
               PROVE  NullPage[k] = IF a < s.vaddr + s.filesz
                                    THEN Source(file, s, a) ELSE Zero
    BY DEF RightBytes
  <2>1. ~(a < s.vaddr + s.filesz)
    BY <1>3, <1>4, <1>5
  <2> QED BY <2>1 DEF NullPage
<1> QED BY <1>1, <1>2, <1>3, <1>4, <1>5, <1>6, SegmentPageLoads

\* initStack() maps a page no segment has.
LEMMA StackPageLoads ==
  ASSUME PlainLayouts, LoadInv, TreeInv', StackPage
  PROVE  LoadInv' /\ MapsOne
<1>1. /\ pc = "stack" /\ pc' = "stack" /\ va < StackHigh
      /\ AllocPage(va, "USER_NOEXEC", NullPage)
      /\ va' = va + PageBytes /\ UNCHANGED <<layout, file, seg, start>>
  BY DEF StackPage
<1>2. TypeOK /\ TreeInv /\ va \in Int
  BY DEF LoadInv, TreeInv, TypeOK
<1>3. StackLow <= va /\ va = Address(PageNo(va)) /\ utmFree = -1
  BY <1>1 DEF LoadInv, LoopInv
<1>4. PICK n : n = PageNo(va)
  OBVIOUS
<1>5. n \in Int /\ va = Address(n) /\ va' = Address(n + 1)
  BY <1>1, <1>2, <1>3, <1>4, PageOfAddress, NextPage
<1>6. n \in StackPages(layout)
  BY <1>1, <1>3, <1>5 DEF StackPages, StackLow, StackHigh
<1>7. n \in PageNos
  BY <1>2, <1>6 DEF TypeOK, PlainLayouts, PlainLayout
<1>8. Address(n) \in Int /\ Address(n + 1) = Address(n) + PageBytes
  BY <1>5, Addresses
<1>9. EntriesOf(ptes, n) = {}
  <2>1. ASSUME NEW f \in File, NEW i \in Nat, Reached(f, i, n)
        PROVE  FALSE
    <3>1. /\ i \in 1 .. Len(Segs(f)) /\ Segs(f)[i].load
          /\ n \in SegmentPages(Segs(f)[i])
      BY <2>1 DEF Reached
    <3>2. SegmentPages(Segs(f)[i]) \intersect StackPages(layout) = {}
      BY <1>2, <3>1, PlainPages
    <3> QED BY <1>6, <3>1, <3>2
  <2>2. ~StackReached(n) /\ ~UntrustedReached(n)
    BY <1>1, <1>5, <1>8 DEF StackReached, UntrustedReached
  <2> QED BY <1>7, <2>1, <2>2 DEF LoadInv, NothingElse
<1>10. PageAdded(n, "USER_NOEXEC", NullPage)
  <2>1. AllocPage(Address(n), "USER_NOEXEC", NullPage)
    BY <1>1, <1>5
  <2>2. "USER_NOEXEC" \in Modes \ {"table"}
    BY DEF Modes
  <2>3. PageNo(Address(n)) = n
    BY <1>5, PagesBelow
  <2> QED BY <1>2, <1>7, <1>8, <1>9, <2>1, <2>2, <2>3, AllocPageAdds
<1>11. LoopInv'
  <2>1. (va = Address(PageNo(va)))'
    BY <1>5, PagesBelow
  <2>2. utmFree' = -1
    BY <1>3, <1>10 DEF PageAdded
  <2>3. (StackLow <= va)'
    <3>1. StackLow' = StackLow
      BY <1>1 DEF StackLow, StackHigh
    <3>2. StackLow \in Int
      BY <1>2, StackEnds, RoundingType DEF StackLow
    <3> QED BY <1>1, <1>2, <1>3, <3>1, <3>2, SizeAssumption
  <2> QED BY <1>1, <2>1, <2>2, <2>3 DEF LoopInv
<1>12. \A f, i, m : Reached(f, i, m)' <=> Reached(f, i, m)
  BY <1>1 DEF Reached, Past, Current, Segs
<1>13. \A m : ~UntrustedReached(m) /\ ~UntrustedReached(m)'
  BY <1>1 DEF UntrustedReached
<1>14. ASSUME NEW m \in Int, StackReached(m)
       PROVE  StackReached(m)'
  <2>1. Address(m) \in Int
    BY Addresses
  <2> QED BY <1>1, <1>5, <1>8, <1>14, <2>1, SizeAssumption DEF StackReached
<1>15. StackReached(n)'
  BY <1>1, <1>5, <1>6, <1>8, SizeAssumption DEF StackReached
<1>16. ASSUME NEW m \in Int, StackReached(m)'
       PROVE  StackReached(m) \/ m = n
  <2>1. Address(m) \in Int
    BY Addresses
  <2>2. Address(m) < Address(n + 1)
    BY <1>1, <1>5, <1>16 DEF StackReached
  <2>3. m < n + 1
    BY <1>5, <2>2, Addresses
  <2>4. m < n => Address(m) < Address(n)
    <3>1. m < n => Address(m + 1) <= Address(n)
      BY <1>5, Addresses
    <3>2. Address(m + 1) = Address(m) + PageBytes
      BY Addresses
    <3> QED BY <1>8, <2>1, <3>1, <3>2, SizeAssumption
  <2> QED BY <1>1, <1>5, <1>16, <2>3, <2>4 DEF StackReached
<1>17. OnePage(n, "USER_NOEXEC", NullPage)
  BY <1>1, <1>5, <1>10, <1>12, <1>13, <1>14, <1>15, <1>16 DEF OnePage
<1>18. "USER_NOEXEC" \in Modes
  BY DEF Modes
<1> QED BY <1>7, <1>9, <1>11, <1>17, <1>18, OnePageLoad DEF MapsOne

\* loadUntrusted() maps the next page to the next frame of the UTM.
LEMMA UntrustedPageLoads ==
  ASSUME PlainLayouts, LoadInv, TreeInv', UntrustedPage
  PROVE  LoadInv' /\ MapsOne
<1>1. /\ pc = "untrusted" /\ pc' = "untrusted" /\ va < UntrustedEnd
      /\ AllocPage(va, "UTM_FULL", NullPage)
      /\ va' = va + PageBytes /\ UNCHANGED <<layout, file, seg, start>>
  BY DEF UntrustedPage
<1>2. TypeOK /\ TreeInv /\ va \in Int
  BY DEF LoadInv, TreeInv, TypeOK
<1>3. PICK first : first = PageNo(layout.untrusted)
  OBVIOUS
<1>4. PICK n : n = PageNo(va)
  OBVIOUS
<1>5. /\ first <= n /\ va = Address(n) /\ utmFree = -1 - (n - first)
  BY <1>1, <1>3, <1>4 DEF LoadInv, LoopInv
<1>6. /\ n \in Int /\ va' = Address(n + 1)
      /\ first \in Int
  <2>1. n \in Int
    BY <1>2, <1>4, PageOfAddress
  <2>2. layout.untrusted \in Int
    BY <1>2, LayoutTypes
  <2> QED BY <1>1, <1>2, <1>3, <1>5, <2>1, <2>2, PageOfAddress, NextPage
<1>7. UntrustedEnd = PageUp(layout.untrusted + layout.untrustedSize)
  BY <1>2, UntrustedEnds
<1>8. n \in UntrustedPages(layout)
  BY <1>1, <1>3, <1>5, <1>6, <1>7 DEF UntrustedPages
<1>9. n \in PageNos
  BY <1>2, <1>8, UntrustedInSpace
<1>10. Address(n) \in Int /\ Address(n + 1) = Address(n) + PageBytes
  BY <1>6, Addresses
<1>11. EntriesOf(ptes, n) = {}
  <2>1. ASSUME NEW f \in File, NEW i \in Nat, Reached(f, i, n)
        PROVE  FALSE
    <3>1. /\ i \in 1 .. Len(Segs(f)) /\ Segs(f)[i].load
          /\ n \in SegmentPages(Segs(f)[i])
      BY <2>1 DEF Reached
    <3>2. SegmentPages(Segs(f)[i]) \intersect UntrustedPages(layout) = {}
      BY <1>2, <3>1, PlainPages
    <3> QED BY <1>8, <3>1, <3>2
  <2>2. ~StackReached(n)
    <3>1. StackPages(layout) \intersect UntrustedPages(layout) = {}
      BY <1>2 DEF TypeOK, PlainLayouts, PlainLayout
    <3> QED BY <1>8, <3>1 DEF StackReached
  <2>3. ~UntrustedReached(n)
    BY <1>1, <1>5, <1>10 DEF UntrustedReached
  <2> QED BY <1>9, <2>1, <2>2, <2>3 DEF LoadInv, NothingElse
<1>12. PageAdded(n, "UTM_FULL", NullPage)
  <2>1. AllocPage(Address(n), "UTM_FULL", NullPage)
    BY <1>1, <1>5
  <2>2. "UTM_FULL" \in Modes \ {"table"}
    BY DEF Modes
  <2>3. PageNo(Address(n)) = n
    BY <1>6, PagesBelow
  <2> QED BY <1>2, <1>9, <1>10, <1>11, <2>1, <2>2, <2>3, AllocPageAdds
<1>13. LoopInv'
  <2>1. (va = Address(PageNo(va)))'
    BY <1>6, PagesBelow
  <2>2. PageNo(va') = n + 1
    BY <1>6, PagesBelow
  <2>3. utmFree' = -1 - (n + 1 - first)
    <3>1. utmFree' = utmFree - 1
      BY <1>12 DEF PageAdded
    <3> QED BY <1>5, <1>6, <3>1
  <2>4. PageNo(layout'.untrusted) = first
    BY <1>1, <1>3
  <2>5. first <= n + 1
    BY <1>5, <1>6
  <2>6. n \in Int /\ first \in Int
    BY <1>6
  <2>7. /\ PageNo(layout'.untrusted) <= PageNo(va')
        /\ utmFree' = -1 - (PageNo(va') - PageNo(layout'.untrusted))
    BY ONLY <2>3, <2>4, <2>5, <2>2, <2>6
  <2>8. pc' # "pages" /\ pc' # "stack" /\ pc' = "untrusted"
    BY <1>1
  <2> QED BY <2>1, <2>7, <2>8, Zenon DEF LoopInv
<1>14. \A f, i, m : Reached(f, i, m)' <=> Reached(f, i, m)
  BY <1>1 DEF Reached, Past, Current, Segs
<1>15. \A m : StackReached(m)' <=> StackReached(m)
  BY <1>1 DEF StackReached
<1>16. ASSUME NEW m \in Int
       PROVE  /\ UntrustedReached(m) => UntrustedReached(m)'
              /\ UntrustedReached(m)' => UntrustedReached(m) \/ m = n
  <2>1. Address(m) \in Int
    BY Addresses
  <2>2. Address(m) < va' => m = n \/ Address(m) < va
    <3>1. Address(m) < va' => m < n + 1
      BY <1>6, Addresses
    <3>2. m < n => Address(m + 1) <= Address(n)
      BY <1>6, Addresses
    <3>3. Address(m + 1) = Address(m) + PageBytes
      BY Addresses
    <3>4. m < n => Address(m) < Address(n)
      BY <1>10, <2>1, <3>2, <3>3, SizeAssumption
    <3> QED BY <1>5, <1>6, <3>1, <3>4
  <2>3. Address(m) < va => Address(m) < va'
    BY <1>1, <1>2, <2>1, SizeAssumption
  <2> QED BY <1>1, <2>2, <2>3 DEF UntrustedReached
<1>17. UntrustedReached(n)'
  BY <1>1, <1>6, <1>8, <1>10, SizeAssumption DEF UntrustedReached
<1>18. OnePage(n, "UTM_FULL", NullPage)
  BY <1>1, <1>3, <1>5, <1>6, <1>12, <1>14, <1>15, <1>16, <1>17 DEF OnePage
<1>19. "UTM_FULL" \in Modes
  BY DEF Modes
<1> QED BY <1>9, <1>11, <1>13, <1>18, <1>19, OnePageLoad DEF MapsOne

-------------------------------------------------------------------------------
(* The invariant of the loops. *)

\* Nothing is mapped when prepareEnclave() returns.
LEMMA LoadInvInit ==
  ASSUME Init
  PROVE  LoadInv
<1>1. TreeInv
  BY TreeInvInit
<1>2. /\ pc = "vspace" /\ ptes = {} /\ memory = {} /\ utmFree = -1
      /\ file = "runtime"
  BY DEF Init
<1>3. \A f, i, n : ~Reached(f, i, n)
  BY <1>2 DEF Reached, Past, Current
<1>4. \A n : ~UntrustedReached(n)
  BY <1>2 DEF UntrustedReached
<1>5. Fresh(memory, free, utmFree) /\ LoopInv
  BY <1>2 DEF Fresh, LoopInv
<1>6. \A n : EntriesOf(ptes, n) = {}
  BY <1>2 DEF EntriesOf, Reach
<1>7. NothingElse
  BY <1>6 DEF NothingElse
<1>8. SegmentsRight /\ UntrustedRight
  BY <1>3, <1>4 DEF SegmentsRight, UntrustedRight
<1> QED BY <1>1, <1>5, <1>7, <1>8 DEF LoadInv

\* Every step of init() keeps the invariant of its loops.
LEMMA LoadInvStep ==
  ASSUME PlainLayouts, LoadInv, [Next]_vars
  PROVE  LoadInv' /\ (SamePages \/ MapsOne)
<1>1. TreeInv'
  BY TreeInvStep DEF LoadInv
<1>2. CASE VspacePage
  BY <1>1, <1>2, VspacePageLoads
<1>3. CASE EndVspace
  BY <1>1, <1>3, EndVspaceLoads
<1>4. CASE BeginSegment
  BY <1>1, <1>4, BeginSegmentLoads
<1>5. CASE BeginMisaligned
  BY <1>1, <1>5, BeginMisalignedLoads
<1>6. CASE FilePage
  BY <1>1, <1>6, FilePageLoads
<1>7. CASE BssPage
  BY <1>1, <1>7, BssPageLoads
<1>8. CASE EndSegment
  BY <1>1, <1>8, EndSegmentLoads
<1>9. CASE EndFile
  BY <1>1, <1>9, EndFileLoads
<1>10. CASE StackPage
  BY <1>1, <1>10, StackPageLoads
<1>11. CASE EndStack
  BY <1>1, <1>11, EndStackLoads
<1>12. CASE UntrustedPage
  BY <1>1, <1>12, UntrustedPageLoads
<1>13. CASE EndUntrusted
  BY <1>1, <1>13, EndUntrustedLoads
<1>14. CASE UNCHANGED vars
  <2>1. UNCHANGED <<layout, pc, file, seg, va, ptes, free, utmFree, memory>>
    BY <1>14 DEF vars
  <2>2. LoopInv'
    BY <2>1 DEF LoadInv, LoopInv, Header, Segs, StackLow, StackHigh
  <2>3. SamePages
    BY <2>1, QuietMemory
    DEF SamePages, Reached, StackReached, UntrustedReached, Past, Current, Segs
  <2> QED BY <1>1, <2>2, <2>3, SamePagesLoad
<1> QED
  BY <1>2, <1>3, <1>4, <1>5, <1>6, <1>7, <1>8, <1>9, <1>10, <1>11, <1>12,
     <1>13, <1>14 DEF Next

\* The invariant of the loops holds throughout.
LEMMA AlwaysLoad == ASSUME PlainLayouts PROVE Spec => []LoadInv
<1>1. Init => LoadInv
  BY LoadInvInit
<1>2. LoadInv /\ [Next]_vars => LoadInv'
  BY LoadInvStep
<1> QED BY <1>1, <1>2, PTL DEF Spec

-------------------------------------------------------------------------------
(* What the page tables say when init() is over. *)

\* The entries an address reaches are those of its page.
LEMMA LeavesOfPage ==
  ASSUME NEW a \in Int
  PROVE  Leaves(a) = EntriesOf(ptes, PageNo(a))
<1> DEFINE i2 == Index(a, 2)
           i1 == Index(a, 1)
           i0 == Index(a, 0)
<1>2. EntriesOf(ptes, PageNo(a)) = Reach(ptes, i2, i1, i0)
  BY IndicesOf
<1>3. Leaves(a) =
        UNION {UNION {Slot(ptes, t0, i0) : t0 \in Child(t1, i1)} :
                 t1 \in Child(0, i2)}
  BY DEF Leaves
<1> HIDE DEF i2, i1, i0
<1>4. ASSUME NEW e \in Leaves(a)
      PROVE  e \in Reach(ptes, i2, i1, i0)
  <2>1. PICK t1 \in Child(0, i2) :
          e \in UNION {Slot(ptes, t0, i0) : t0 \in Child(t1, i1)}
    BY <1>3
  <2>2. PICK t0 \in Child(t1, i1) : e \in Slot(ptes, t0, i0)
    BY <2>1
  <2>3. PICK c \in ptes : c.tab = 0 /\ c.idx = i2 /\ c.to = t1
    BY DEF Child, Slot
  <2>4. PICK d \in ptes : d.tab = t1 /\ d.idx = i1 /\ d.to = t0
    BY DEF Child, Slot
  <2> QED BY <2>2, <2>3, <2>4 DEF Slot, Reach
<1>5. ASSUME NEW e \in Reach(ptes, i2, i1, i0)
      PROVE  e \in Leaves(a)
  <2>1. PICK c \in ptes, d \in ptes :
          /\ e \in ptes /\ c.tab = 0 /\ c.idx = i2
          /\ d.tab = c.to /\ d.idx = i1 /\ e.tab = d.to /\ e.idx = i0
    BY DEF Reach
  <2>2. c.to \in Child(0, i2)
    BY <2>1 DEF Child, Slot
  <2>3. d.to \in Child(c.to, i1)
    BY <2>1 DEF Child, Slot
  <2>4. e \in Slot(ptes, d.to, i0)
    BY <2>1 DEF Slot
  <2>5. e \in UNION {Slot(ptes, t0, i0) : t0 \in Child(c.to, i1)}
    BY <2>3, <2>4
  <2> QED BY <1>3, <2>2, <2>5
<1> QED BY <1>2, <1>4, <1>5

\* An address of a page that is frame t maps to t alone.
LEMMA FramesOfPage ==
  ASSUME NEW a \in Int, NEW t, PageIs(ptes, PageNo(a), t)
  PROVE  Frames(a) = {t}
<1>1. PICK e : Leaves(a) = {e} /\ e.to = t
  BY LeavesOfPage DEF PageIs
<1> QED BY <1>1 DEF Frames

\* A byte of a page that holds b is that of b.
LEMMA ByteOfPage ==
  ASSUME NEW a \in Int, NEW b, PageHolds(ptes, memory, PageNo(a), b)
  PROVE  Byte(a) = {b[Within(a)]}
<1>1. PICK t : PageIs(ptes, PageNo(a), t) /\ Written(memory, t, b)
  BY DEF PageHolds
<1>2. PICK r : r = [frame |-> t, bytes |-> b]
  OBVIOUS
<1>3. r \in memory /\ r.frame = t /\ r.bytes = b
      /\ \A m \in memory : m.frame = t => m = r
  BY <1>1, <1>2 DEF Written
<1>4. Frames(a) = {t}
  BY <1>1, FramesOfPage
<1>5. {m \in memory : m.frame \in Frames(a)} = {r}
  BY <1>3, <1>4
<1>6. Byte(a) = {m.bytes[Within(a)] : m \in {r}}
  BY <1>5, Zenon DEF Byte, Within
<1> QED BY <1>3, <1>6

-------------------------------------------------------------------------------
(* The frames of the runtime's and of the user's pages. *)

\* Segments in the order of their addresses, as the ELF format has loadable
\* segments, a stack above the eapp, and an untrusted region of whole pages.
OrderedLayout(l) ==
  /\ \A f \in File : \A i, j \in 1 .. Len(l[f]) :
       i < j /\ l[f][i].load /\ l[f][j].load =>
         \A m \in SegmentPages(l[f][i]), n \in SegmentPages(l[f][j]) : m < n
  /\ \A i \in 1 .. Len(l["eapp"]) : l["eapp"][i].load =>
       \A m \in SegmentPages(l["eapp"][i]), n \in StackPages(l) : m < n
  /\ IsAligned(l.untrusted)

OrderedLayouts == \A l \in Layouts : OrderedLayout(l)

\* Page n is there, a page of the runtime or one of the user: of the eapp or of
\* its stack.
RegionReached(f, n) ==
  \/ \E i \in Nat : Reached(f, i, n)
  \/ f = "eapp" /\ StackReached(n)

\* loadELF() has begun with the eapp's pages: the runtime's are all there.
EappBegun == file = "eapp" /\ pc # "vspace"

\* The pages of a region are in frames from its start on, the runtime's below
\* the user's, and the user's are the user's.
InRegion(f, e) ==
  /\ start[f] <= e.to
  /\ f = "runtime" /\ EappBegun => e.to < start["eapp"]
  /\ f = "eapp" => e.mode \in {"USER_FULL", "USER_NOEXEC"}

RegionsRight ==
  \A f \in File, n \in PageNos : RegionReached(f, n) =>
    \A e \in EntriesOf(ptes, n) : InRegion(f, e)

\* A page of a higher address has a higher frame.
Ascends ==
  \A f \in File, m, n \in PageNos :
    m < n /\ RegionReached(f, m) /\ RegionReached(f, n) =>
      \A d \in EntriesOf(ptes, m), e \in EntriesOf(ptes, n) : d.to < e.to

RegionInv ==
  /\ \A f \in File : start[f] <= free
  /\ RegionsRight /\ Ascends

\* A frame that is mapped was taken from one of the free lists.
LEMMA MappedFrames ==
  ASSUME LoadInv, NEW n, NEW e \in EntriesOf(ptes, n)
  PROVE  e.to \in Int /\ e.to < free
<1>1. e \in ptes /\ Tree(ptes, free, utmFree)
  BY DEF EntriesOf, Reach, LoadInv, TreeInv
<1>2. free \in Nat \ {0}
  BY DEF LoadInv, TreeInv, TypeOK
<1> QED BY <1>1, <1>2 DEF Tree, Placed

\* The pages of a region that are there are within the address space, and
\* there.
LEMMA RegionMapped ==
  ASSUME PlainLayouts, LoadInv, NEW f \in File, NEW n, RegionReached(f, n)
  PROVE  n \in PageNos /\ n \in Int
<1>1. TypeOK
  BY DEF LoadInv, TreeInv
<1>2. n \in PageNos
  BY <1>1, ReachedInSpace DEF RegionReached
<1> QED BY <1>2, SizeAssumption DEF PageNos

\* Only EndVspace sets the start of a region.
LEMMA StartSet ==
  ASSUME [Next]_vars
  PROVE  start' = start \/ EndVspace
BY DEF Next, vars, VspacePage, EndVspace, BeginSegment, BeginMisaligned,
       FilePage, BssPage, EndSegment, EndFile, StackPage, EndStack,
       UntrustedPage, EndUntrusted

\* Once the eapp's pages begin, they have begun.
LEMMA EappBegins ==
  ASSUME [Next]_vars, EappBegun', ~EappBegun
  PROVE  EndVspace /\ file = "eapp"
BY DEF Next, vars, VspacePage, EndVspace, BeginSegment, BeginMisaligned,
       FilePage, BssPage, EndSegment, EndFile, StackPage, EndStack,
       UntrustedPage, EndUntrusted, EappBegun

\* A step that maps no page keeps the regions.
LEMMA SamePagesRegions ==
  ASSUME PlainLayouts, LoadInv, LoadInv', RegionInv, [Next]_vars, SamePages
  PROVE  RegionInv'
<1>1. TypeOK /\ free \in Nat /\ start \in [File -> Nat] /\ file \in File
  BY DEF LoadInv, TreeInv, TypeOK
<1>2. free' \in Nat /\ free <= free'
  BY DEF SamePages
<1>3. \A n : EntriesOf(ptes', n) = EntriesOf(ptes, n)
  BY DEF SamePages
<1>4. ASSUME NEW f \in File, NEW n \in PageNos, RegionReached(f, n)'
      PROVE  RegionReached(f, n)
  <2>1. n \in Int
    BY SizeAssumption DEF PageNos
  <2> QED BY <1>4, <2>1 DEF RegionReached, SamePages
<1>5. Ascends'
  BY <1>3, <1>4 DEF Ascends, RegionInv
<1>6. CASE start' = start
  <2>1. \A f \in File : start'[f] <= free'
    BY <1>1, <1>2, <1>6 DEF RegionInv
  <2>2. RegionsRight'
    <3> SUFFICES ASSUME NEW f \in File, NEW n \in PageNos,
                        RegionReached(f, n)', NEW e \in EntriesOf(ptes', n)
                 PROVE  InRegion(f, e)'
      BY DEF RegionsRight
    <3>1. InRegion(f, e) /\ e \in EntriesOf(ptes, n)
      BY <1>3, <1>4 DEF RegionsRight, RegionInv
    <3>2. CASE EappBegun' => EappBegun
      BY <1>6, <3>1, <3>2 DEF InRegion
    <3>3. CASE EappBegun' /\ ~EappBegun
      <4>1. EndVspace /\ file = "eapp"
        BY <3>3, EappBegins
      <4>2. start'["eapp"] = free
        BY <1>1, <4>1 DEF EndVspace
      <4>3. e.to < free
        BY <3>1, MappedFrames
      <4> QED BY <1>6, <3>1, <4>2, <4>3 DEF InRegion
    <3> QED BY <3>2, <3>3
  <2> QED BY <1>5, <2>1, <2>2 DEF RegionInv
<1>7. CASE EndVspace
  <2>1. /\ start' = [start EXCEPT ![file] = free] /\ pc = "vspace"
        /\ file' = file
    BY <1>7 DEF EndVspace
  <2>2. \A f \in File : start'[f] <= free'
    BY <1>1, <1>2, <2>1 DEF RegionInv
  <2>3. \A f \in File : start'[f] = IF f = file THEN free ELSE start[f]
    BY <1>1, <2>1
  <2>4. RegionsRight'
    <3> SUFFICES ASSUME NEW f \in File, NEW n \in PageNos,
                        RegionReached(f, n)', NEW e \in EntriesOf(ptes', n)
                 PROVE  InRegion(f, e)'
      BY DEF RegionsRight
    <3>1. InRegion(f, e) /\ RegionReached(f, n) /\ e \in EntriesOf(ptes, n)
      BY <1>3, <1>4 DEF RegionsRight, RegionInv
    <3>2. f = "runtime" /\ file = "eapp"
      BY <1>1, <2>1, <3>1
      DEF RegionReached, Reached, StackReached, Past, Current, File
    <3>3. e.to < free /\ start'["eapp"] = free /\ start'[f] = start[f]
      BY <2>3, <3>1, <3>2, MappedFrames DEF File
    <3> QED BY <3>1, <3>2, <3>3 DEF InRegion
  <2> QED BY <1>5, <2>2, <2>4 DEF RegionInv
<1> QED BY <1>6, <1>7, StartSet

\* The pages a loop went over are those up to its last one.
LEMMA PagesInOrder ==
  ASSUME PlainLayouts, OrderedLayouts, LoadInv', NEW n \in Int,
         va' = Address(n + 1), NEW f \in File, NEW m \in Int,
         RegionReached(f, m)', RegionReached(f, n)',
         \/ pc' = "pages" /\ f = file' /\ Reached(file, seg, n)'
         \/ pc' = "stack" /\ f = "eapp" /\ StackReached(n)'
  PROVE  m <= n
<1>1. /\ layout' \in Layouts /\ file' \in File /\ seg' \in Nat \ {0}
  BY DEF LoadInv, TreeInv, TypeOK
<1>2. ASSUME Address(m) < va' PROVE m <= n
  <2>1. n + 1 \in Int
    OBVIOUS
  <2>2. m < n + 1
    BY <1>2, <2>1, Addresses
  <2> QED BY <2>2
<1>3. CASE pc' = "pages" /\ f = file'
  <2>1. ~StackReached(m)'
    BY <1>3 DEF StackReached
  <2>2. PICK i \in Nat : Reached(f, i, m)'
    BY <2>1 DEF RegionReached
  <2>3. CASE Current(f, i)'
    <3>1. ~Past(f, i)'
      BY <1>1, <1>3, <2>3 DEF Past, Current, File
    <3> QED BY <1>2, <2>2, <3>1 DEF Reached
  <2>4. CASE ~Current(f, i)'
    <3>1. /\ i \in 1 .. Len(layout'[f]) /\ layout'[f][i].load
          /\ m \in SegmentPages(layout'[f][i]) /\ Past(f, i)'
      BY <2>2, <2>4 DEF Reached, Segs
    <3>2. i \in 1 .. Len(layout'[f]) /\ i < seg' /\ seg' \in Int
      BY <1>1, <1>3, <3>1 DEF Past, File
    <3>3. /\ seg' \in 1 .. Len(layout'[f]) /\ layout'[f][seg'].load
          /\ n \in SegmentPages(layout'[f][seg'])
      BY <1>3 DEF Reached, Segs
    <3>4. m < n
      BY <1>1, <3>1, <3>2, <3>3 DEF OrderedLayouts, OrderedLayout
    <3> QED BY <3>4
  <2> QED BY <2>3, <2>4
<1>4. CASE pc' = "stack" /\ f = "eapp" /\ StackReached(n)'
  <2>1. CASE StackReached(m)'
    BY <1>2, <1>4, <2>1 DEF StackReached
  <2>2. CASE ~StackReached(m)'
    <3>1. PICK i \in Nat : Reached(f, i, m)'
      BY <2>2 DEF RegionReached
    <3>2. /\ i \in 1 .. Len(layout'["eapp"]) /\ layout'["eapp"][i].load
          /\ m \in SegmentPages(layout'["eapp"][i])
      BY <1>4, <3>1 DEF Reached, Segs
    <3>3. n \in StackPages(layout')
      BY <1>4 DEF StackReached
    <3>4. m < n
      BY <1>1, <3>2, <3>3 DEF OrderedLayouts, OrderedLayout
    <3> QED BY <3>4
  <2> QED BY <2>1, <2>2
<1> QED BY <1>3, <1>4

\* A page of a region is in a higher frame than all that were there before.
LEMMA NewFrame ==
  ASSUME LoadInv, NEW n, NEW mode, mode # "UTM_FULL", NEW bytes,
         PageAdded(n, mode, bytes), NEW e \in EntriesOf(ptes', n)
  PROVE  free <= e.to /\ e.mode = mode /\ e.to \in Int
<1>1. PICK t : PageIs(ptes', n, t) /\ t \in free .. free' - 1
  BY DEF PageAdded
<1>2. e.to = t /\ e.mode = mode
  BY <1>1 DEF PageIs, PageAdded
<1>3. free \in Int /\ free' \in Int
  BY DEF PageAdded, LoadInv, TreeInv, TypeOK
<1> QED BY <1>1, <1>2, <1>3

\* A step that maps a page keeps the regions.
LEMMA MapsOneRegions ==
  ASSUME PlainLayouts, OrderedLayouts, LoadInv, LoadInv', RegionInv,
         [Next]_vars, NEW n \in PageNos, NEW mode \in Modes,
         NEW bytes, EntriesOf(ptes, n) = {}, OnePage(n, mode, bytes)
  PROVE  RegionInv'
<1>1. /\ TypeOK /\ free \in Nat /\ start \in [File -> Nat] /\ file \in File
      /\ layout \in Layouts /\ n \in Int
  BY SizeAssumption DEF LoadInv, TreeInv, TypeOK, PageNos
<1>2. /\ file' = file /\ start' = start /\ layout' = layout
      /\ PageAdded(n, mode, bytes) /\ free' \in Nat /\ free <= free'
      /\ va' = Address(n + 1)
  BY DEF OnePage, PageAdded
<1>3. \A m \in PageNos \ {n} : EntriesOf(ptes', m) = EntriesOf(ptes, m)
  BY <1>2 DEF PageAdded
<1>4. ASSUME NEW f \in File, NEW m \in PageNos, RegionReached(f, m)', m # n
      PROVE  RegionReached(f, m)
  <2>1. m \in Int
    BY SizeAssumption DEF PageNos
  <2> QED BY <1>4, <2>1 DEF RegionReached, OnePage
<1>5. ASSUME NEW i \in Nat, NEW f \in File, Reached(f, i, n)
      PROVE  FALSE
  <2>1. \E b : PageHolds(ptes, memory, n, b)
    BY <1>1, <1>5 DEF LoadInv, SegmentsRight
  <2> QED BY <2>1 DEF PageHolds, PageIs
<1>6. ASSUME NEW f \in File, RegionReached(f, n)'
      PROVE  /\ f = file \/ (f = "eapp" /\ pc' = "stack")
             /\ mode # "UTM_FULL"
             /\ f = "eapp" => mode \in {"USER_FULL", "USER_NOEXEC"}
             /\ \/ pc' = "pages" /\ f = file' /\ Reached(file, seg, n)'
                \/ pc' = "stack" /\ f = "eapp" /\ StackReached(n)'
  <2>1. \A i \in Nat : Reached(f, i, n)' =>
          /\ i \in 1 .. Len(Segs(f)) /\ Segs(f)[i].load
          /\ n \in SegmentPages(Segs(f)[i])
    BY <1>2 DEF Reached, Segs
  <2>2. CASE pc' = "pages" /\ mode = Mode /\ Reached(file, seg, n)'
    <3>1. PICK i \in Nat : Reached(f, i, n)'
      BY <1>6, <2>2 DEF RegionReached, StackReached
    <3>2. f = file
      <4>1. CASE f = "runtime" /\ file = "eapp"
        <5>1. Reached(f, i, n)
          BY <2>1, <3>1, <4>1 DEF Reached, Past
        <5> QED BY <1>5, <5>1
      <4>2. CASE f = "eapp" /\ file = "runtime"
        <5>1. ~Past(f, i)' /\ ~Current(f, i)'
          BY <1>2, <2>2, <4>2 DEF Past, Current
        <5> QED BY <3>1, <5>1 DEF Reached
      <4> QED BY <1>1, <4>1, <4>2 DEF File
    <3>3. mode # "UTM_FULL" /\ (f = "eapp" => mode = "USER_FULL")
      BY <2>2, <3>2 DEF Mode
    <3> QED BY <1>2, <2>2, <3>2, <3>3
  <2>3. CASE pc' = "stack" /\ mode = "USER_NOEXEC" /\ StackReached(n)'
    <3>1. n \in StackPages(layout)
      BY <1>2, <2>3 DEF StackReached
    <3>2. \A i \in Nat : ~Reached(f, i, n)'
      BY <1>1, <2>1, <3>1, PlainPages
    <3> QED BY <1>6, <2>3, <3>2 DEF RegionReached
  <2>4. CASE pc' = "untrusted" /\ mode = "UTM_FULL" /\ UntrustedReached(n)'
    <3>1. n \in UntrustedPages(layout)
      BY <1>2, <2>4 DEF UntrustedReached
    <3>2. \A i \in Nat : ~Reached(f, i, n)'
      BY <1>1, <2>1, <3>1, PlainPages
    <3>3. ~StackReached(n)'
      BY <1>1, <1>2, <3>1 DEF StackReached, PlainLayouts, PlainLayout
    <3> QED BY <1>6, <3>2, <3>3 DEF RegionReached
  <2> QED BY <2>2, <2>3, <2>4 DEF OnePage
<1>7. \A f \in File : start'[f] <= free'
  BY <1>1, <1>2 DEF RegionInv
<1>8. EappBegun' => EappBegun
  <2>1. ptes' # ptes
    BY <1>2 DEF PageAdded, PageIs
  <2> QED BY <2>1, EappBegins DEF EndVspace
<1>9. RegionsRight'
  <2> SUFFICES ASSUME NEW f \in File, NEW m \in PageNos,
                      RegionReached(f, m)', NEW e \in EntriesOf(ptes', m)
               PROVE  InRegion(f, e)'
    BY DEF RegionsRight
  <2>1. CASE m # n
    <3>1. RegionReached(f, m) /\ e \in EntriesOf(ptes, m)
      BY <1>3, <1>4, <2>1
    <3>2. InRegion(f, e)
      BY <3>1 DEF RegionInv, RegionsRight
    <3> QED BY <1>2, <1>8, <3>2 DEF InRegion
  <2>2. CASE m = n
    <3>1. free <= e.to /\ e.mode = mode /\ e.to \in Int
      BY <1>2, <1>6, <2>2, NewFrame
    <3>2. start[f] \in Nat /\ start[f] <= free
      BY <1>1 DEF RegionInv
    <3>3. start[f] <= e.to
      BY <1>1, <3>1, <3>2
    <3>4. ~(f = "runtime" /\ EappBegun')
      BY <1>2, <1>6, <2>2 DEF EappBegun
    <3> QED BY <1>2, <1>6, <2>2, <3>1, <3>3, <3>4 DEF InRegion
  <2> QED BY <2>1, <2>2
<1>10. Ascends'
  <2> SUFFICES ASSUME NEW f \in File, NEW k \in PageNos, NEW m \in PageNos,
                      k < m, RegionReached(f, k)', RegionReached(f, m)',
                      NEW d \in EntriesOf(ptes', k),
                      NEW e \in EntriesOf(ptes', m)
               PROVE  d.to < e.to
    BY DEF Ascends
  <2>1. k \in Int /\ m \in Int
    BY SizeAssumption DEF PageNos
  <2>2. CASE k # n /\ m # n
    <3>1. /\ RegionReached(f, k) /\ d \in EntriesOf(ptes, k)
          /\ RegionReached(f, m) /\ e \in EntriesOf(ptes, m)
      BY <1>3, <1>4, <2>2
    <3> QED BY <3>1 DEF RegionInv, Ascends
  <2>3. CASE m = n
    <3>1. free <= e.to /\ e.to \in Int
      BY <1>2, <1>6, <2>3, NewFrame
    <3>2. d \in EntriesOf(ptes, k)
      BY <1>3, <2>1, <2>3
    <3>3. d.to \in Int /\ d.to < free
      BY <3>2, MappedFrames
    <3> QED BY <1>1, <3>1, <3>3
  <2>4. CASE k = n
    <3>1. m <= n
      BY <1>1, <1>2, <1>6, <2>1, <2>4, PagesInOrder
    <3> QED BY <2>1, <2>4, <3>1
  <2> QED BY <2>2, <2>3, <2>4
<1> QED BY <1>7, <1>9, <1>10 DEF RegionInv

\* Every step keeps the regions.
LEMMA RegionInvStep ==
  ASSUME PlainLayouts, OrderedLayouts, LoadInv, RegionInv, [Next]_vars
  PROVE  RegionInv'
<1>1. LoadInv' /\ (SamePages \/ MapsOne)
  BY LoadInvStep
<1>2. CASE SamePages
  BY <1>1, <1>2, SamePagesRegions
<1>3. CASE MapsOne
  BY <1>1, <1>3, MapsOneRegions DEF MapsOne
<1> QED BY <1>1, <1>2, <1>3

\* No region has a page when init() begins.
LEMMA RegionInvInit ==
  ASSUME Init
  PROVE  RegionInv
<1>1. /\ pc = "vspace" /\ file = "runtime" /\ free = 1
      /\ start = [f \in File |-> 0]
  BY DEF Init
<1>2. \A f, n : ~RegionReached(f, n)
  BY <1>1 DEF RegionReached, Reached, StackReached, Past, Current
<1>3. \A f \in File : start[f] <= free
  BY <1>1
<1> QED BY <1>2, <1>3 DEF RegionInv, RegionsRight, Ascends

\* The regions keep to their frames throughout.
LEMMA AlwaysRegions ==
  ASSUME PlainLayouts, OrderedLayouts
  PROVE  Spec => []RegionInv
<1>1. Init => RegionInv
  BY RegionInvInit
<1>2. LoadInv /\ RegionInv /\ [Next]_vars => RegionInv'
  BY RegionInvStep
<1> QED BY <1>1, <1>2, AlwaysLoad, PTL DEF Spec

-------------------------------------------------------------------------------
(* How many frames the tables and the pages take. *)

\* The pages whose tables init() may need: those between the bounds of a file,
\* those of the stack and those of the untrusted region.
FilePages(l, f) == PageNo(MinVaddr(l[f])) .. PageNo(MaxVaddr(l[f])) - 1
WalkedPages(l) ==
  FilePages(l, "runtime") \union FilePages(l, "eapp") \union StackPages(l)
    \union UntrustedPages(l)

\* The root, a table for every group of Fanout pages, and one for every group of
\* Fanout such tables.
LastGroup(n) == n \div Fanout
MiddleGroup(n) == n \div (Fanout * Fanout)
TablesFor(pages) ==
  1 + Cardinality({LastGroup(n) : n \in pages})
    + Cardinality({MiddleGroup(n) : n \in pages})

\* How many more they are for one page more.
MoreTables(pages, n) ==
  (IF \E m \in pages : LastGroup(m) = LastGroup(n) THEN 0 ELSE 1)
    + (IF \E m \in pages : MiddleGroup(m) = MiddleGroup(n) THEN 0 ELSE 1)

\* The tables to page n are there.
HasTables(p, n) ==
  \E t : Path(p, MiddleGroup(n) % Fanout, LastGroup(n) % Fanout, t)

\* A group of last tables is of the middle group of its pages.
LEMMA Groups ==
  ASSUME NEW n \in Int
  PROVE  /\ LastGroup(n) \in Int /\ MiddleGroup(n) \in Int
         /\ MiddleGroup(n) = LastGroup(n) \div Fanout
<1>1. PICK d \in Nat \ {0} : d = Fanout
  BY SizeAssumption
<1>2. PICK q \in Int, r \in 0 .. d - 1 : q = n \div d /\ n = d * q + r
  BY Division
<1>3. PICK s \in Int, t \in 0 .. d - 1 : s = q \div d /\ q = d * s + t
  BY Division
<1>4. d * d \in Nat \ {0} /\ d * t + r \in 0 .. d * d - 1
  <2>1. PICK k \in Nat : d = t + 1 + k
    <3>1. d - t - 1 \in Nat /\ d = t + 1 + (d - t - 1)
      OBVIOUS
    <3> QED BY <3>1
  <2>2. d * d = d * t + d + d * k /\ d * k \in Nat /\ d * t \in Nat
    BY <2>1, SMT
  <2> QED BY <2>2
<1>5. n = (d * d) * s + (d * t + r)
  <2>1. d * (d * s + t) = (d * d) * s + d * t
    BY SMT
  <2>2. PICK x, y, z : x = (d * d) * s /\ y = d * t /\ z = d * q
    OBVIOUS
  <2>3. x \in Int /\ y \in Int /\ z \in Int /\ r \in Int
    BY ONLY <2>2, d \in Nat, s \in Int, t \in 0 .. d - 1, q \in Int,
            r \in 0 .. d - 1, SMT
  <2>4. z = x + y
    BY ONLY <1>3, <2>1, <2>2
  <2>5. n = z + r
    BY ONLY <1>2, <2>2
  <2>6. n = x + (y + r)
    BY ONLY <2>3, <2>4, <2>5
  <2> QED BY ONLY <2>2, <2>6
<1>6. n \div (d * d) = s
  BY <1>4, <1>5, Quotient
<1> QED BY <1>1, <1>2, <1>3, <1>6 DEF LastGroup, MiddleGroup

\* The groups of finitely many pages are finitely many.
LEMMA FiniteGroups ==
  ASSUME NEW pages, IsFiniteSet(pages)
  PROVE  /\ IsFiniteSet({LastGroup(n) : n \in pages})
         /\ IsFiniteSet({MiddleGroup(n) : n \in pages})
<1> DEFINE L == {LastGroup(n) : n \in pages}
           M == {MiddleGroup(n) : n \in pages}
           l == [n \in pages |-> LastGroup(n)]
           m == [n \in pages |-> MiddleGroup(n)]
<1>1. l \in Surjection(pages, L) /\ m \in Surjection(pages, M)
  BY DEF Surjection
<1> HIDE DEF L, M, l, m
<1>2. IsFiniteSet(L) /\ IsFiniteSet(M)
  BY <1>1, FS_Surjection
<1> QED BY <1>2 DEF L, M

\* More pages need no fewer tables.
LEMMA TablesGrow ==
  ASSUME NEW more, IsFiniteSet(more), NEW pages \in SUBSET more
  PROVE  /\ TablesFor(pages) <= TablesFor(more)
         /\ TablesFor(pages) \in Nat /\ TablesFor(more) \in Nat
<1> DEFINE L(s) == {LastGroup(n) : n \in s}
           M(s) == {MiddleGroup(n) : n \in s}
<1>1. L(pages) \in SUBSET L(more) /\ M(pages) \in SUBSET M(more)
  OBVIOUS
<1>2. IsFiniteSet(L(more)) /\ IsFiniteSet(M(more))
  BY FiniteGroups
<1> HIDE DEF L, M
<1>3. /\ IsFiniteSet(L(pages)) /\ IsFiniteSet(M(pages))
      /\ Cardinality(L(pages)) <= Cardinality(L(more))
      /\ Cardinality(M(pages)) <= Cardinality(M(more))
  BY <1>1, <1>2, FS_Subset
<1>4. /\ Cardinality(L(pages)) \in Nat /\ Cardinality(L(more)) \in Nat
      /\ Cardinality(M(pages)) \in Nat /\ Cardinality(M(more)) \in Nat
  BY <1>2, <1>3, FS_CardinalityType
<1>5. /\ TablesFor(pages) = 1 + Cardinality(L(pages)) + Cardinality(M(pages))
      /\ TablesFor(more) = 1 + Cardinality(L(more)) + Cardinality(M(more))
  BY Zenon DEF TablesFor, L, M
<1> QED BY <1>3, <1>4, <1>5

\* One more page needs a table for each of its groups that is new.
LEMMA TablesForOneMore ==
  ASSUME NEW pages, IsFiniteSet(pages), NEW n
  PROVE  /\ TablesFor(pages \union {n}) =
              TablesFor(pages) + MoreTables(pages, n)
         /\ MoreTables(pages, n) \in Nat
<1> DEFINE L(s) == {LastGroup(m) : m \in s}
           M(s) == {MiddleGroup(m) : m \in s}
<1>1. /\ L(pages \union {n}) = L(pages) \union {LastGroup(n)}
      /\ M(pages \union {n}) = M(pages) \union {MiddleGroup(n)}
  OBVIOUS
<1>2. IsFiniteSet(L(pages)) /\ IsFiniteSet(M(pages))
  BY FiniteGroups
<1>3. /\ LastGroup(n) \in L(pages)
           <=> \E m \in pages : LastGroup(m) = LastGroup(n)
      /\ MiddleGroup(n) \in M(pages)
           <=> \E m \in pages : MiddleGroup(m) = MiddleGroup(n)
  OBVIOUS
<1>4. \A s : TablesFor(s) = 1 + Cardinality(L(s)) + Cardinality(M(s))
  BY Zenon DEF TablesFor, L, M
<1> HIDE DEF L, M
<1>5. /\ Cardinality(L(pages) \union {LastGroup(n)}) =
           IF LastGroup(n) \in L(pages) THEN Cardinality(L(pages))
           ELSE Cardinality(L(pages)) + 1
      /\ Cardinality(M(pages) \union {MiddleGroup(n)}) =
           IF MiddleGroup(n) \in M(pages) THEN Cardinality(M(pages))
           ELSE Cardinality(M(pages)) + 1
  BY <1>2, FS_AddElement
<1>6. Cardinality(L(pages)) \in Nat /\ Cardinality(M(pages)) \in Nat
  BY <1>2, FS_CardinalityType
<1>7. PICK x \in Nat, y \in Nat :
        x = Cardinality(L(pages)) /\ y = Cardinality(M(pages))
  BY <1>6
<1>8. TablesFor(pages) = 1 + x + y
  BY <1>4, <1>7
<1>9. TablesFor(pages \union {n}) =
        1 + (IF LastGroup(n) \in L(pages) THEN x ELSE x + 1)
          + (IF MiddleGroup(n) \in M(pages) THEN y ELSE y + 1)
  BY <1>1, <1>4, <1>5, <1>7, Zenon
<1> QED BY ONLY <1>3, <1>7, <1>8, <1>9 DEF MoreTables

\* A level of the walk takes a frame only where there was no table.
LEMMA DescendTakes ==
  ASSUME NEW p, NEW f \in Nat, NEW at, NEW idx, NEW w,
         w = Descend([ptes |-> p, free |-> f, at |-> at], idx)
  PROVE  /\ w.free <= f + 1
         /\ \A e \in p : e.tab = at /\ e.idx = idx => w.free = f /\ w.ptes = p
<1>1. CASE Slot(p, at, idx) = {}
  <2>1. w.free = f + 1
    BY <1>1 DEF Descend
  <2>2. \A e \in p : ~(e.tab = at /\ e.idx = idx)
    BY <1>1 DEF Slot
  <2> QED BY <2>1, <2>2
<1>2. CASE Slot(p, at, idx) # {}
  <2>1. w.free = f /\ w.ptes = p
    BY <1>2 DEF Descend
  <2> QED BY <2>1
<1> QED BY <1>1, <1>2

\* The walk to a page leaves its tables, and keeps those of the others; it takes
\* a frame for each of its groups that no other page has.
LEMMA WalkTakes ==
  ASSUME TreeInv, NEW a \in Int, NEW w, w = WalkCreate(a),
         NEW n \in Int, n = PageNo(a), NEW pages \in SUBSET Int,
         \A m \in pages : HasTables(ptes, m)
  PROVE  /\ ptes \subseteq w.ptes /\ HasTables(w.ptes, n)
         /\ w.free \in Nat /\ w.free <= free + MoreTables(pages, n)
<1>1. /\ free \in Nat \ {0} /\ utmFree \in Int /\ utmFree < 0
      /\ Tree(ptes, free, utmFree)
  BY DEF TreeInv, TypeOK
<1>2. /\ Index(a, 2) = MiddleGroup(n) % Fanout
      /\ Index(a, 1) = LastGroup(n) % Fanout
  BY DEF Index, PageNo, MiddleGroup, LastGroup
<1>3. PICK i2, i1 : i2 = Index(a, 2) /\ i1 = Index(a, 1)
  OBVIOUS
<1>4. PICK v : v = Descend([ptes |-> ptes, free |-> free, at |-> 0], i2)
  OBVIOUS
<1>5. /\ v = [ptes |-> v.ptes, free |-> v.free, at |-> v.at]
      /\ ptes \subseteq v.ptes /\ free <= v.free /\ v.free \in Nat
      /\ \E c \in v.ptes : c.tab = 0 /\ c.idx = i2 /\ c.to = v.at
  BY <1>1, <1>4, DescendEnds
<1>6. /\ v.free <= free + 1
      /\ \A e \in ptes :
           e.tab = 0 /\ e.idx = i2 => v.free = free /\ v.ptes = ptes
  BY <1>1, <1>4, DescendTakes
<1>7. w = Descend([ptes |-> v.ptes, free |-> v.free, at |-> v.at], i1)
  BY <1>3, <1>4, <1>5 DEF WalkCreate
<1>8. /\ v.ptes \subseteq w.ptes /\ w.free \in Nat
      /\ \E d \in w.ptes : d.tab = v.at /\ d.idx = i1 /\ d.to = w.at
  BY <1>5, <1>7, DescendEnds
<1>9. /\ w.free <= v.free + 1
      /\ \A e \in v.ptes : e.tab = v.at /\ e.idx = i1 => w.free = v.free
  BY <1>5, <1>7, DescendTakes
<1>10. HasTables(w.ptes, n)
  <2>1. Path(w.ptes, i2, i1, w.at)
    BY <1>5, <1>8 DEF Path
  <2> QED BY <1>2, <1>3, <2>1 DEF HasTables
<1>11. ASSUME NEW m \in pages, MiddleGroup(m) = MiddleGroup(n)
       PROVE  v.free = free /\ v.ptes = ptes
  <2>1. PICK t : Path(ptes, i2, LastGroup(m) % Fanout, t)
    BY <1>2, <1>3, <1>11 DEF HasTables
  <2>2. PICK c \in ptes : c.tab = 0 /\ c.idx = i2
    BY <2>1 DEF Path
  <2> QED BY <1>6, <2>2
<1>12. ASSUME NEW m \in pages, LastGroup(m) = LastGroup(n)
       PROVE  w.free = free /\ MiddleGroup(m) = MiddleGroup(n)
  <2>1. MiddleGroup(m) = MiddleGroup(n)
    <3>1. m \in Int
      OBVIOUS
    <3> QED BY <1>12, <3>1, Groups
  <2>2. PICK t : Path(ptes, i2, i1, t)
    BY <1>2, <1>3, <1>12, <2>1 DEF HasTables
  <2>3. PICK c \in ptes, d \in ptes :
          /\ c.tab = 0 /\ c.idx = i2
          /\ d.tab = c.to /\ d.idx = i1
    BY <2>2 DEF Path
  <2>4. v.free = free /\ v.ptes = ptes
    BY <1>11, <2>1
  <2>5. PICK b \in ptes : b.tab = 0 /\ b.idx = i2 /\ b.to = v.at
    BY <1>5, <2>4
  <2>6. b = c
    BY <1>1, <2>3, <2>5 DEF Tree, Placed
  <2>7. w.free = v.free
    BY <1>9, <2>3, <2>4, <2>5, <2>6
  <2> QED BY <2>1, <2>4, <2>7
<1> QED
  <2>1. ptes \subseteq w.ptes
    BY <1>5, <1>8
  <2>2. CASE \E m \in pages : LastGroup(m) = LastGroup(n)
    <3>1. w.free = free
      BY <1>12, <2>2
    <3> QED BY <1>1, <1>8, <1>10, <2>1, <3>1 DEF MoreTables
  <2>3. CASE ~\E m \in pages : LastGroup(m) = LastGroup(n)
    <3>1. CASE \E m \in pages : MiddleGroup(m) = MiddleGroup(n)
      <4>1. v.free = free
        BY <1>11, <3>1
      <4> QED BY <1>1, <1>8, <1>9, <1>10, <2>1, <2>3, <3>1, <4>1
             DEF MoreTables
    <3>2. CASE ~\E m \in pages : MiddleGroup(m) = MiddleGroup(n)
      BY <1>1, <1>5, <1>6, <1>8, <1>9, <1>10, <2>1, <2>3, <3>2
         DEF MoreTables
    <3> QED BY <3>1, <3>2
  <2> QED BY <2>2, <2>3

\* A finite set of numbers has a greatest one.
LEMMA GreatestExists ==
  ASSUME NEW S \in SUBSET Nat, IsFiniteSet(S), S # {}
  PROVE  \E m \in S : \A n \in S : m >= n
<1> DEFINE Top(T) == \E m \in T : \A n \in T : m >= n
           Bad == {k \in Nat : \E T \in SUBSET S :
                     T # {} /\ Cardinality(T) = k /\ ~Top(T)}
<1>1. CASE Bad = {}
  <2>1. Cardinality(S) \in Nat
    BY FS_CardinalityType
  <2>2. Cardinality(S) \notin Bad
    BY <1>1
  <2> QED BY <2>1, <2>2
<1>2. CASE Bad # {}
  <2>1. Bad \subseteq Nat
    OBVIOUS
  <2>2. \E k \in Bad : \A j \in Bad : <<j, k>> \notin OpToRel(<, Nat)
    <3> HIDE DEF Bad
    <3> QED BY <1>2, <2>1, WFMin, NatLessThanWellFounded, Zenon
  <2>3. PICK k \in Bad : \A j \in Bad : <<j, k>> \notin OpToRel(<, Nat)
    BY <2>2
  <2>4. \A j \in Bad : ~(j < k)
    <3> HIDE DEF Bad
    <3> QED BY <2>1, <2>3, Zenon DEF OpToRel
  <2>5. PICK T \in SUBSET S : T # {} /\ Cardinality(T) = k /\ ~Top(T)
    BY <2>3
  <2>6. PICK x : x \in T
    BY <2>5
  <2>7. IsFiniteSet(T) /\ T \subseteq Nat
    BY FS_Subset
  <2>8. Cardinality(T \ {x}) = k - 1 /\ Cardinality(T \ {x}) \in Nat
    BY <2>5, <2>6, <2>7, FS_RemoveElement, FS_CardinalityType
  <2>9. T \ {x} # {}
    <3>1. x >= x
      BY <2>6, <2>7
    <3> QED BY <2>5, <2>6, <3>1
  <2>10. k - 1 \notin Bad
    <3> HIDE DEF Bad
    <3>1. k \in Nat
      BY <2>1
    <3>2. k - 1 < k
      BY <3>1
    <3> QED BY <2>4, <3>2
  <2>11. Top(T \ {x})
    <3>1. T \ {x} \in SUBSET S
      OBVIOUS
    <3> HIDE DEF Top
    <3> QED BY <2>8, <2>9, <2>10, <3>1
  <2>12. PICK m \in T \ {x} : \A n \in T \ {x} : m >= n
    BY <2>11
  <2>13. CASE x <= m
    <3>1. \A n \in T : m >= n
      BY <2>6, <2>7, <2>12, <2>13
    <3> QED BY <2>5, <3>1
  <2>14. CASE ~(x <= m)
    <3>1. \A n \in T : x >= n
      BY <2>6, <2>7, <2>12, <2>14
    <3> QED BY <2>5, <2>6, <3>1
  <2> QED BY <2>13, <2>14
<1> QED BY <1>1, <1>2

\* The bounds of a file hold every segment that has memory.
LEMMA FileBounds ==
  ASSUME NEW l \in Layouts, NEW f \in File
  PROVE  /\ MinVaddr(l[f]) = Address(PageNo(MinVaddr(l[f])))
         /\ MaxVaddr(l[f]) = Address(PageNo(MaxVaddr(l[f])))
         /\ PageNo(MinVaddr(l[f])) \in Int /\ PageNo(MaxVaddr(l[f])) \in Int
         /\ MinVaddr(l[f]) \in Nat /\ MaxVaddr(l[f]) \in Int
         /\ MinVaddr(l[f]) <= MaxVaddr(l[f])
         /\ \A i \in 1 .. Len(l[f]) : 0 < l[f][i].memsz =>
              /\ MinVaddr(l[f]) <= l[f][i].vaddr
              /\ l[f][i].vaddr + l[f][i].memsz <= MaxVaddr(l[f])
<1>1. PICK s : s = l[f]
  OBVIOUS
<1>2. s \in Seq(Segment) /\ MinVaddr(s) \in Nat
  BY <1>1, MinVaddrType
<1>3. Len(s) \in Nat /\ \A i \in 1 .. Len(s) : s[i] \in Segment
  BY <1>2
<1>4. \A i \in 1 .. Len(s) : s[i].vaddr \in Nat /\ s[i].memsz \in Nat
  BY <1>3 DEF Segment
<1>5. Nonempty(s) # {} /\ IsAligned(MinVaddr(s))
  BY <1>1, LayoutAssumption
<1>6. /\ MinVaddr(s) = Address(PageNo(MinVaddr(s)))
      /\ PageNo(MinVaddr(s)) \in Int
  BY <1>2, <1>5, Rounding, PageOfAddress
<1> DEFINE highs == {s[i].vaddr + s[i].memsz : i \in Nonempty(s)}
           lows == {s[i].vaddr : i \in Nonempty(s)}
<1>7. IsFiniteSet(highs) /\ highs # {} /\ highs \subseteq Nat
  <2>1. IsFiniteSet(1 .. Len(s))
    BY <1>3, FS_Interval
  <2>2. Nonempty(s) \in SUBSET (1 .. Len(s))
    BY DEF Nonempty
  <2>3. IsFiniteSet(Nonempty(s))
    BY <2>1, <2>2, FS_Subset
  <2> DEFINE h == [i \in Nonempty(s) |-> s[i].vaddr + s[i].memsz]
  <2>4. h \in Surjection(Nonempty(s), highs)
    BY DEF Surjection
  <2>5. IsFiniteSet(highs)
    <3> HIDE DEF h, highs
    <3> QED BY <2>3, <2>4, FS_Surjection
  <2>6. highs \subseteq Nat
    BY <1>4, <2>2
  <2> QED BY <1>5, <2>5, <2>6
<1>8. \E m \in highs : \A n \in highs : m >= n
  <2> HIDE DEF highs
  <2> QED BY <1>7, GreatestExists
<1>9. PICK m : m = CHOOSE k \in highs : \A n \in highs : k >= n
  OBVIOUS
<1>10. m \in highs /\ \A n \in highs : m >= n
  <2> HIDE DEF highs
  <2> QED BY <1>8, <1>9
<1>11. MaxVaddr(s) = PageUp(m)
  BY <1>9 DEF MaxVaddr
<1>12. m \in Nat
  BY <1>7, <1>10
<1>13. /\ MaxVaddr(s) = Address(PageNo(m - 1) + 1)
       /\ m <= MaxVaddr(s) /\ PageNo(m - 1) + 1 \in Int
  <2>1. m \in Int /\ m - 1 \in Int
    BY <1>12
  <2>2. PageNo(m - 1) \in Int
    BY <2>1, PageOfAddress
  <2> QED BY <1>11, <2>1, <2>2, Rounding
<1>14. /\ MaxVaddr(s) = Address(PageNo(MaxVaddr(s)))
       /\ PageNo(MaxVaddr(s)) \in Int /\ MaxVaddr(s) \in Int
  BY <1>13, PagesBelow, Addresses
<1>15. \A n \in lows : MinVaddr(s) <= n
  <2>1. lows \subseteq Nat /\ lows # {}
    BY <1>4, <1>5 DEF Nonempty
  <2>2. \E k \in lows : \A n \in lows : k <= n
    <3> HIDE DEF lows
    <3>1. PICK k \in lows : \A n \in lows : <<n, k>> \notin OpToRel(<, Nat)
      BY <2>1, WFMin, NatLessThanWellFounded, Zenon
    <3>2. \A n \in lows : ~(n < k)
      BY <2>1, <3>1, Zenon DEF OpToRel
    <3> QED BY <2>1, <3>2
  <2>3. MinVaddr(s) = CHOOSE k \in lows : \A n \in lows : k <= n
    BY DEF MinVaddr
  <2> HIDE DEF lows
  <2> QED BY <2>2, <2>3
<1>16. ASSUME NEW i \in Nonempty(s)
       PROVE  /\ MinVaddr(s) <= s[i].vaddr
              /\ s[i].vaddr + s[i].memsz <= MaxVaddr(s)
  <2>1. s[i].vaddr + s[i].memsz \in highs /\ s[i].vaddr \in lows
    OBVIOUS
  <2>2. s[i].vaddr + s[i].memsz <= m /\ s[i].vaddr + s[i].memsz \in Nat
    BY <1>7, <1>10, <1>12, <2>1
  <2>3. s[i].vaddr + s[i].memsz <= MaxVaddr(s)
    BY <1>12, <1>13, <1>14, <2>2
  <2> QED BY <1>15, <2>1, <2>3
<1>17. MinVaddr(s) <= MaxVaddr(s)
  <2>1. PICK i \in Nonempty(s) : TRUE
    BY <1>5
  <2>2. s[i].vaddr \in Nat /\ s[i].memsz \in Nat
    BY <1>4 DEF Nonempty
  <2> QED BY <1>2, <1>14, <1>16, <2>2
<1>18. \A i \in 1 .. Len(s) : 0 < s[i].memsz => i \in Nonempty(s)
  BY DEF Nonempty
<1> QED BY <1>1, <1>2, <1>6, <1>14, <1>16, <1>17, <1>18

\* The pages of a file between its bounds, and those of the stack.
FirstPage(f) == PageNo(MinVaddr(Segs(f)))
EndPage(f) == PageNo(MaxVaddr(Segs(f)))
StackFirst(l) == PageNo(PageDown(PageUp(l.stack) - l.stackSize))
StackEnd(l) == PageNo(PageUp(l.stack))

\* Tables and stack fit in the free memory and the pages for tables: the pages
\* of the files are counted for themselves.
WithinBudget(l) ==
  TablesFor(WalkedPages(l)) + (StackEnd(l) - StackFirst(l)) <=
    PageUp(l.freemem) \div PageBytes + TablePages

WithinBudgets == \A l \in Layouts : WithinBudget(l)

\* The pages of the files before f, and of both.
Before(f) ==
  IF f = "runtime" THEN 0 ELSE EndPage("runtime") - FirstPage("runtime")
Loaded == Before("eapp") + (EndPage("eapp") - FirstPage("eapp"))

\* The pages whose tables are there, and the frames that are no such tables.
Opened == {n \in WalkedPages(layout) : HasTables(ptes, n)}
Spent == free - TablesFor(Opened)

\* No more frames than the pages the loops went over, all that are still to
\* come being above them.
SpentFits ==
  /\ pc = "vspace" => Spent <= Before(file)
  /\ pc = "header" =>
       /\ Spent <= Before(file) + (EndPage(file) - FirstPage(file))
       /\ \A j \in seg .. Len(Segs(file)) : Segs(file)[j].load =>
            Spent <= Before(file)
                       + (PageNo(Segs(file)[j].vaddr) - FirstPage(file))
  /\ pc = "pages" => Spent <= Before(file) + (PageNo(va) - FirstPage(file))
  /\ pc = "stack" => Spent <= Loaded + (PageNo(va) - StackFirst(layout))
  /\ pc \in {"untrusted", "done"} =>
       Spent <= Loaded + (StackEnd(layout) - StackFirst(layout))

\* The loops do not step over their ends.
PlaceInv ==
  /\ pc = "vspace" => va = Address(PageNo(va)) /\ FirstPage(file) <= PageNo(va)
  /\ pc = "pages" => Address(PageNo(va) - 1) < MemoryEnd
  /\ pc = "stack" => PageNo(va) <= StackEnd(layout)
  /\ pc \in {"stack", "untrusted", "done"} => file = "eapp"

BudgetInv == PlaceInv /\ SpentFits

\* The numbers of a layout.
LEMMA LayoutNumbers ==
  ASSUME TypeOK
  PROVE  /\ \A f \in File :
              /\ FirstPage(f) \in Int /\ EndPage(f) \in Int
              /\ FirstPage(f) <= EndPage(f) /\ Before(f) \in Int
              /\ MinVaddr(Segs(f)) = Address(FirstPage(f))
              /\ MaxVaddr(Segs(f)) = Address(EndPage(f))
         /\ Loaded \in Int
         /\ StackFirst(layout) \in Int /\ StackEnd(layout) \in Int
         /\ StackHigh = Address(StackEnd(layout))
         /\ StackLow = Address(StackFirst(layout))
         /\ StackFirst(layout) <= StackEnd(layout)
<1>1. ASSUME NEW f \in File
      PROVE  /\ FirstPage(f) \in Int /\ EndPage(f) \in Int
             /\ FirstPage(f) <= EndPage(f)
             /\ MinVaddr(Segs(f)) = Address(FirstPage(f))
             /\ MaxVaddr(Segs(f)) = Address(EndPage(f))
  <2>1. layout \in Layouts
    BY DEF TypeOK
  <2>2. /\ FirstPage(f) \in Int /\ EndPage(f) \in Int
        /\ MinVaddr(Segs(f)) = Address(FirstPage(f))
        /\ MaxVaddr(Segs(f)) = Address(EndPage(f))
        /\ MinVaddr(Segs(f)) <= MaxVaddr(Segs(f))
        /\ MaxVaddr(Segs(f)) \in Int
    BY <2>1, FileBounds DEF FirstPage, EndPage, Segs
  <2>3. FirstPage(f) <= EndPage(f)
    <3>1. FirstPage(f) <= PageNo(MaxVaddr(Segs(f)))
      BY <2>2, PagesBelow
    <3> QED BY <3>1 DEF EndPage
  <2> QED BY <2>2, <2>3
<1>2. Before("runtime") \in Int /\ Before("eapp") \in Int /\ Loaded \in Int
  BY <1>1 DEF Before, Loaded, File
<1>3. /\ StackHigh = Address(StackEnd(layout)) /\ StackEnd(layout) \in Int
      /\ StackHigh \in Int /\ layout.stackSize \in Nat
  <2>1. layout.stack \in Int /\ layout.stack - 1 \in Int
        /\ layout.stackSize \in Nat
    BY LayoutTypes
  <2>2. PageNo(layout.stack - 1) + 1 \in Int
    BY <2>1, PageOfAddress
  <2>3. StackHigh = Address(PageNo(layout.stack - 1) + 1)
    BY <2>1, Rounding DEF StackHigh
  <2>4. PageNo(StackHigh) = PageNo(layout.stack - 1) + 1
    BY <2>2, <2>3, PagesBelow
  <2> QED BY <2>1, <2>2, <2>3, <2>4, Addresses DEF StackEnd, StackHigh
<1>4. /\ StackLow = Address(StackFirst(layout)) /\ StackFirst(layout) \in Int
      /\ StackFirst(layout) <= StackEnd(layout)
  <2>1. PICK x : x = StackHigh - layout.stackSize
    OBVIOUS
  <2>2. x \in Int /\ x <= StackHigh
    BY <1>3, <2>1
  <2>3. StackLow = Address(PageNo(x)) /\ PageNo(x) \in Int
    BY <2>1, <2>2, Rounding, PageOfAddress DEF StackLow
  <2>4. StackFirst(layout) = PageNo(x)
    BY <2>1, <2>3, PagesBelow DEF StackFirst, StackLow, StackHigh
  <2>5. PageNo(x) <= StackEnd(layout)
    <3>1. PageNo(x) <= PageNo(x)
      BY <2>3
    <3>2. Address(PageNo(x)) <= x /\ Address(PageNo(x)) \in Int
      BY <2>2, <2>3, <3>1, PagesBelow, Addresses
    <3>3. Address(PageNo(x)) <= StackHigh
      BY <1>3, <2>2, <3>2
    <3>4. PageNo(x) <= PageNo(StackHigh)
      BY <1>3, <2>3, <3>3, PagesBelow
    <3>5. PageNo(StackHigh) = StackEnd(layout)
      BY <1>3, PagesBelow
    <3> QED BY <3>4, <3>5
  <2> QED BY <2>3, <2>4, <2>5
<1>5. \A f \in File : Before(f) \in Int
  BY <1>2 DEF File
<1> QED BY <1>1, <1>2, <1>3, <1>4, <1>5

\* They stay what they are.
LEMMA SameNumbers ==
  ASSUME layout' = layout
  PROVE  /\ \A f : /\ Segs(f)' = Segs(f)
                   /\ FirstPage(f)' = FirstPage(f) /\ EndPage(f)' = EndPage(f)
                   /\ Before(f)' = Before(f)
         /\ Loaded' = Loaded
BY DEF Segs, FirstPage, EndPage, Before, Loaded

\* Finitely many pages may need tables.
LEMMA WalkedFinite ==
  ASSUME PlainLayouts, TypeOK
  PROVE  IsFiniteSet(WalkedPages(layout)) /\ WalkedPages(layout) \subseteq Int
<1>1. \A f \in File : FilePages(layout, f) = FirstPage(f) .. EndPage(f) - 1
  BY DEF FilePages, FirstPage, EndPage, Segs
<1>2. \A f \in File : FirstPage(f) \in Int /\ EndPage(f) - 1 \in Int
  BY LayoutNumbers
<1>3. \A f \in File : IsFiniteSet(FilePages(layout, f))
                      /\ FilePages(layout, f) \subseteq Int
  BY <1>1, <1>2, FS_Interval
<1>4. IsFiniteSet(PageNos) /\ PageNos \subseteq Int
  <2>1. Fanout * Fanout * Fanout - 1 \in Int
    BY SizeAssumption
  <2> QED BY <2>1, FS_Interval DEF PageNos
<1>5. StackPages(layout) \in SUBSET PageNos
      /\ UntrustedPages(layout) \in SUBSET PageNos
  <2>1. StackPages(layout) \subseteq PageNos
    BY DEF TypeOK, PlainLayouts, PlainLayout
  <2> QED BY <2>1, UntrustedInSpace
<1>6. IsFiniteSet(StackPages(layout)) /\ IsFiniteSet(UntrustedPages(layout))
  BY <1>4, <1>5, FS_Subset
<1>7. "runtime" \in File /\ "eapp" \in File
  BY DEF File
<1>8. IsFiniteSet(WalkedPages(layout))
  <2>1. PICK A, B, C, D : /\ A = FilePages(layout, "runtime")
                          /\ B = FilePages(layout, "eapp")
                          /\ C = StackPages(layout)
                          /\ D = UntrustedPages(layout)
    OBVIOUS
  <2>2. IsFiniteSet(A) /\ IsFiniteSet(B) /\ IsFiniteSet(C) /\ IsFiniteSet(D)
    BY <1>3, <1>6, <1>7, <2>1
  <2>3. IsFiniteSet(A \union B)
    BY ONLY <2>2, FS_Union
  <2>4. IsFiniteSet(A \union B \union C)
    BY ONLY <2>2, <2>3, FS_Union
  <2>5. IsFiniteSet(A \union B \union C \union D)
    BY ONLY <2>2, <2>4, FS_Union
  <2> QED BY <2>1, <2>5 DEF WalkedPages
<1> QED BY <1>3, <1>4, <1>5, <1>7, <1>8 DEF WalkedPages

-------------------------------------------------------------------------------
(* What a step takes. *)

\* The frames that are no tables are a number.
LEMMA SpentType ==
  ASSUME PlainLayouts, TypeOK
  PROVE  /\ IsFiniteSet(Opened) /\ Opened \in SUBSET WalkedPages(layout)
         /\ TablesFor(Opened) \in Nat /\ Spent \in Int
<1>1. Opened \in SUBSET WalkedPages(layout)
  BY DEF Opened
<1>2. IsFiniteSet(WalkedPages(layout))
  BY WalkedFinite
<1>3. IsFiniteSet(Opened)
  BY <1>1, <1>2, FS_Subset
<1>4. TablesFor(Opened) \in Nat
  BY <1>1, <1>2, TablesGrow
<1> QED BY <1>1, <1>3, <1>4 DEF Spent, TypeOK

\* A step that takes no frame spends none.
LEMMA NothingSpent ==
  ASSUME PlainLayouts, TypeOK, UNCHANGED <<layout, ptes, free>>
  PROVE  Spent' = Spent /\ Spent \in Int
BY SpentType DEF Spent, Opened

\* A walk spends no frame: the tables it takes are counted for themselves.
LEMMA WalkSpends ==
  ASSUME PlainLayouts, TreeInv, TypeOK', layout' = layout,
         NEW a \in Int, NEW w, w = WalkCreate(a),
         PageNo(a) \in WalkedPages(layout),
         w.ptes \subseteq ptes', NEW k \in Int, free' = w.free + k
  PROVE  Spent' <= Spent + k /\ Spent \in Int /\ Spent' \in Int
<1>1. TypeOK /\ free \in Int /\ free' \in Int
  BY DEF TreeInv, TypeOK
<1>2. IsFiniteSet(WalkedPages(layout)) /\ WalkedPages(layout) \subseteq Int
  BY <1>1, WalkedFinite
<1>3. PICK n \in Int : n = PageNo(a) /\ n \in WalkedPages(layout)
  BY <1>2
<1>4. /\ IsFiniteSet(Opened) /\ Opened \in SUBSET WalkedPages(layout)
      /\ TablesFor(Opened) \in Nat /\ Spent \in Int
  BY <1>1, SpentType
<1>5. PICK old, new : old = Opened /\ new = Opened'
  OBVIOUS
<1>6. old \in SUBSET Int /\ \A m \in old : HasTables(ptes, m)
  BY <1>2, <1>4, <1>5 DEF Opened
<1>7. /\ ptes \subseteq w.ptes /\ HasTables(w.ptes, n) /\ w.free \in Nat
      /\ w.free <= free + MoreTables(old, n)
  BY ONLY TreeInv, a \in Int, w = WalkCreate(a), <1>3, <1>6, WalkTakes
<1>8. new \in SUBSET WalkedPages(layout)
  BY <1>5 DEF Opened
<1>9. IsFiniteSet(new)
  BY <1>2, <1>8, FS_Subset
<1>10. old \union {n} \in SUBSET new
  <2>1. \A m : HasTables(ptes, m) => HasTables(ptes', m)
    BY <1>7 DEF HasTables, Path
  <2>2. HasTables(ptes', n)
    BY <1>7 DEF HasTables, Path
  <2> QED BY <1>3, <1>5, <2>1, <2>2 DEF Opened
<1>11. TablesFor(old \union {n}) <= TablesFor(new) /\ TablesFor(new) \in Nat
  BY <1>9, <1>10, TablesGrow
<1>12. /\ TablesFor(old \union {n}) = TablesFor(old) + MoreTables(old, n)
       /\ MoreTables(old, n) \in Nat
  BY <1>4, <1>5, TablesForOneMore
<1>13. Spent = free - TablesFor(old) /\ Spent' = free' - TablesFor(new)
  BY <1>5, Zenon DEF Spent
<1>14. PICK x \in Nat : x = MoreTables(old, n)
  BY <1>12
<1>15. w.free <= free + x /\ w.free \in Nat
       /\ TablesFor(old \union {n}) = TablesFor(old) + x
  BY ONLY <1>7, <1>12, <1>14
<1>16. PICK t, u : t = TablesFor(old) /\ u = TablesFor(new)
  OBVIOUS
<1>17. t \in Nat /\ u \in Nat /\ t + x <= u
  BY ONLY <1>4, <1>5, <1>11, <1>15, <1>16
<1>18. Spent = free - t /\ Spent' = free' - u
  BY ONLY <1>13, <1>16
<1> QED
  BY ONLY <1>1, <1>4, <1>15, <1>17, <1>18, k \in Int, free' = w.free + k

\* epm_alloc_vspace() takes tables alone.
LEMMA AllocTablesSpends ==
  ASSUME PlainLayouts, TreeInv, TypeOK', layout' = layout, NEW a \in Int,
         PageNo(a) \in WalkedPages(layout), AllocTables(a)
  PROVE  Spent' <= Spent /\ Spent \in Int /\ Spent' \in Int
<1>1. PICK w : w = WalkCreate(a)
  OBVIOUS
<1>2. ptes' = w.ptes /\ free' = w.free
  BY <1>1 DEF AllocTables
<1>3. free' = w.free + 0
  BY <1>2 DEF TypeOK
<1>4. Spent' <= Spent + 0 /\ Spent \in Int /\ Spent' \in Int
  BY <1>1, <1>2, <1>3, WalkSpends
<1> QED BY <1>4

\* allocPage() takes a frame more for a page, but none for one of the UTM.
LEMMA AllocPageSpends ==
  ASSUME PlainLayouts, TreeInv, TypeOK', layout' = layout, NEW a \in Int,
         PageNo(a) \in WalkedPages(layout), NEW mode, NEW bytes,
         AllocPage(a, mode, bytes)
  PROVE  /\ Spent' <= Spent + 1 /\ Spent \in Int /\ Spent' \in Int
         /\ mode = "UTM_FULL" => Spent' <= Spent
<1>1. PICK w : w = WalkCreate(a)
  OBVIOUS
<1>2. w.ptes \subseteq ptes'
      /\ (free' = w.free \/ (mode # "UTM_FULL" /\ free' = w.free + 1))
  BY <1>1 DEF AllocPage
<1>3. w.free \in Int
  BY <1>1, WalkKeepsTree
<1>4. CASE free' = w.free
  <2>1. free' = w.free + 0
    BY <1>3, <1>4
  <2>2. Spent' <= Spent + 0 /\ Spent \in Int /\ Spent' \in Int
    BY <1>1, <1>2, <2>1, WalkSpends
  <2> QED BY <2>2
<1>5. CASE mode # "UTM_FULL" /\ free' = w.free + 1
  <2>1. Spent' <= Spent + 1 /\ Spent \in Int /\ Spent' \in Int
    BY <1>1, <1>2, <1>5, WalkSpends
  <2> QED BY <1>5, <2>1
<1> QED BY <1>2, <1>4, <1>5

\* The pages of a segment are between the bounds of its file.
LEMMA SegmentWithin ==
  ASSUME PlainLayouts, TypeOK, NEW f \in File, NEW j \in 1 .. Len(Segs(f)),
         Segs(f)[j].load
  PROVE  /\ PageNo(Segs(f)[j].vaddr) \in SegmentPages(Segs(f)[j])
         /\ \A n \in SegmentPages(Segs(f)[j]) :
              /\ n \in Int /\ FirstPage(f) <= n /\ n < EndPage(f)
              /\ n \in WalkedPages(layout)
<1>1. PICK s : s = Segs(f)[j]
  OBVIOUS
<1>2. s \in Segment /\ PlainSegment(s)
  BY <1>1, LayoutTypes DEF TypeOK, PlainLayouts, PlainLayout, Segs
<1>3. PICK v, m : v = s.vaddr /\ m = s.memsz
  OBVIOUS
<1>4. v \in Int /\ m \in Int /\ 0 < m
  BY <1>2, <1>3 DEF Segment, PlainSegment
<1>5. PICK first, end : first = FirstPage(f) /\ end = EndPage(f)
  OBVIOUS
<1>6. /\ first \in Int /\ end \in Int
      /\ MinVaddr(Segs(f)) = Address(first) /\ MaxVaddr(Segs(f)) = Address(end)
  BY <1>5, LayoutNumbers
<1>7. Address(first) <= v /\ v + m <= Address(end)
  <2>1. layout \in Layouts
    BY DEF TypeOK
  <2> QED BY <1>1, <1>3, <1>4, <1>6, <2>1, FileBounds DEF Segs
<1>8. PICK p \in Int : p = PageNo(v)
  BY <1>4, PageOfAddress
<1>9. Address(p) <= v /\ first <= p /\ Address(p) \in Int
  <2>1. p <= p
    OBVIOUS
  <2>2. Address(p) <= v
    BY <1>4, <1>8, <2>1, PagesBelow
  <2>3. first <= p
    BY <1>4, <1>6, <1>7, <1>8, PagesBelow
  <2> QED BY <2>2, <2>3, Addresses
<1>10. p \in SegmentPages(s)
  BY <1>3, <1>4, <1>8, <1>9 DEF SegmentPages
<1>11. ASSUME NEW n \in SegmentPages(s)
       PROVE  n \in Int /\ first <= n /\ n < end
  <2>1. n \in Int /\ p <= n /\ Address(n) < v + m
    BY <1>3, <1>8 DEF SegmentPages
  <2>2. Address(n) \in Int /\ Address(end) \in Int
    BY <1>6, <2>1, Addresses
  <2>3. Address(n) < Address(end)
    BY <1>4, <1>7, <2>1, <2>2
  <2> QED BY <1>6, <1>9, <2>1, <2>3, Addresses
<1>12. \A n \in Int : first <= n /\ n < end => n \in WalkedPages(layout)
  <2>1. FilePages(layout, f) = first .. end - 1
    BY <1>5 DEF FilePages, FirstPage, EndPage, Segs
  <2>2. FilePages(layout, f) \subseteq WalkedPages(layout)
    BY DEF WalkedPages, File
  <2>3. \A n \in Int : first <= n /\ n < end => n \in first .. end - 1
    BY <1>6
  <2> QED BY <2>1, <2>2, <2>3
<1> QED BY <1>1, <1>3, <1>5, <1>8, <1>10, <1>11, <1>12

\* epm_alloc_vspace() takes tables for a page of the file.
LEMMA VspacePageBudget ==
  ASSUME PlainLayouts, LoadInv, TypeOK', BudgetInv, VspacePage
  PROVE  BudgetInv'
<1>1. /\ TypeOK /\ TreeInv /\ va \in Int /\ file \in File
  BY DEF LoadInv, TreeInv, TypeOK
<1>2. /\ pc = "vspace" /\ pc' = "vspace" /\ layout' = layout /\ file' = file
      /\ va < MaxVaddr(Segs(file)) /\ AllocTables(va) /\ va' = va + PageBytes
  BY DEF VspacePage
<1>3. PICK n, first, end :
        n = PageNo(va) /\ first = FirstPage(file) /\ end = EndPage(file)
  OBVIOUS
<1>4. /\ n \in Int /\ first \in Int /\ end \in Int
      /\ va = Address(n) /\ first <= n /\ va < Address(end)
      /\ Spent <= Before(file)
  BY <1>1, <1>2, <1>3, PageOfAddress, LayoutNumbers
  DEF BudgetInv, PlaceInv, SpentFits
<1>5. n < end
  BY <1>4, Addresses
<1>6. n \in WalkedPages(layout)
  BY <1>1, <1>3, <1>4, <1>5
  DEF FirstPage, EndPage, WalkedPages, FilePages, Segs, File
<1>7. Spent' <= Spent /\ Spent \in Int /\ Spent' \in Int
  BY <1>1, <1>2, <1>3, <1>6, AllocTablesSpends
<1>8. Spent' <= Before(file)
  BY <1>1, <1>4, <1>7, LayoutNumbers
<1>9. va' = Address(n + 1) /\ PageNo(va') = n + 1
  BY ONLY <1>1, <1>2, <1>4, NextPage
<1>10. Before(file)' = Before(file) /\ FirstPage(file)' = FirstPage(file)
  BY <1>2, SameNumbers DEF Before, FirstPage, Segs
<1>11. first <= n + 1
  BY <1>4
<1> QED BY <1>2, <1>3, <1>8, <1>9, <1>10, <1>11
        DEF BudgetInv, PlaceInv, SpentFits

\* The pages of the file are still to come, all above its lowest address.
LEMMA EndVspaceBudget ==
  ASSUME PlainLayouts, LoadInv, BudgetInv, EndVspace
  PROVE  BudgetInv'
<1>1. TypeOK /\ file \in File
  BY DEF LoadInv, TreeInv, TypeOK
<1>2. /\ pc = "vspace" /\ pc' = "header" /\ seg' = 1
      /\ UNCHANGED <<layout, file, ptes, free>>
  BY DEF EndVspace
<1>3. Spent' = Spent /\ Spent \in Int
  BY <1>1, <1>2, NothingSpent
<1>4. PICK before, first, end : /\ before = Before(file)
                                /\ first = FirstPage(file)
                                /\ end = EndPage(file)
  OBVIOUS
<1>5. /\ before \in Int /\ first \in Int /\ end \in Int /\ first <= end
      /\ Spent <= before
  BY <1>1, <1>2, <1>4, LayoutNumbers DEF BudgetInv, SpentFits
<1>6. Spent <= before + (end - first)
  BY <1>3, <1>5
<1>7. ASSUME NEW j \in 1 .. Len(Segs(file)), Segs(file)[j].load
      PROVE  Spent <= before + (PageNo(Segs(file)[j].vaddr) - first)
  <2>1. PICK p : p = PageNo(Segs(file)[j].vaddr)
    OBVIOUS
  <2>2. p \in Int /\ first <= p
    BY <1>1, <1>4, <1>7, <2>1, SegmentWithin
  <2>3. Spent <= before + (p - first)
    BY ONLY <1>3, <1>5, <2>2
  <2> QED BY <2>1, <2>3
<1>8. /\ Before(file)' = before /\ FirstPage(file)' = first
      /\ EndPage(file)' = end /\ Segs(file)' = Segs(file)
  BY <1>2, <1>4 DEF Before, FirstPage, EndPage, Segs
<1>9. PlaceInv'
  BY <1>2 DEF PlaceInv
<1>10. SpentFits'
  BY <1>2, <1>3, <1>6, <1>7, <1>8 DEF SpentFits
<1> QED BY <1>9, <1>10 DEF BudgetInv

\* A header is skipped, or its segment begins at its address.
LEMMA BeginSegmentBudget ==
  ASSUME PlainLayouts, LoadInv, BudgetInv, BeginSegment
  PROVE  BudgetInv'
<1>1. TypeOK /\ file \in File /\ seg \in Nat \ {0}
  BY DEF LoadInv, TreeInv, TypeOK
<1>2. /\ pc = "header" /\ seg <= Len(Segs(file))
      /\ UNCHANGED <<layout, file, ptes, free>>
  BY DEF BeginSegment
<1>3. Spent' = Spent /\ Spent \in Int
  BY <1>1, <1>2, NothingSpent
<1>4. PICK before, first, end : /\ before = Before(file)
                                /\ first = FirstPage(file)
                                /\ end = EndPage(file)
  OBVIOUS
<1>5. /\ Spent <= before + (end - first)
      /\ \A j \in seg .. Len(Segs(file)) : Segs(file)[j].load =>
           Spent <= before + (PageNo(Segs(file)[j].vaddr) - first)
  BY <1>2, <1>4 DEF BudgetInv, SpentFits
<1>6. /\ Before(file)' = before /\ FirstPage(file)' = first
      /\ EndPage(file)' = end /\ Segs(file)' = Segs(file)
  BY <1>2, <1>4 DEF Before, FirstPage, EndPage, Segs
<1>7. Len(Segs(file)) \in Nat
  BY <1>1, LayoutTypes
<1>8. CASE seg' = seg + 1 /\ pc' = pc
  <2>1. \A j \in seg' .. Len(Segs(file)) : j \in seg .. Len(Segs(file))
    BY <1>1, <1>7, <1>8
  <2>2. SpentFits'
    BY <1>2, <1>3, <1>5, <1>6, <1>8, <2>1 DEF SpentFits
  <2>3. PlaceInv'
    BY <1>2, <1>8 DEF PlaceInv
  <2> QED BY <2>2, <2>3 DEF BudgetInv
<1>9. CASE Header.load /\ va' = Header.vaddr /\ pc' = "pages" /\ seg' = seg
  <2>1. PICK v, m : v = Header.vaddr /\ m = Header.memsz
    OBVIOUS
  <2>2. Header = Segs(file)[seg] /\ v \in Int /\ m \in Nat
    BY <1>1, <1>2, <2>1, HeaderTypes
  <2>3. seg \in seg .. Len(Segs(file))
    BY <1>1, <1>2, <1>7
  <2>4. Spent <= before + (PageNo(v) - first)
    BY <1>5, <1>9, <2>1, <2>2, <2>3
  <2>5. SpentFits'
    BY <1>3, <1>6, <1>9, <2>1, <2>4 DEF SpentFits
  <2>6. MemoryEnd' = v + m
    BY <1>2, <1>6, <1>9, <2>1, <2>2 DEF MemoryEnd, Header
  <2>7. Address(PageNo(v) - 1) < v + m
    <3>1. PICK p \in Int : p = PageNo(v)
      BY <2>2, PageOfAddress
    <3>2. p <= p /\ p - 1 \in Int /\ (p - 1) + 1 = p
      OBVIOUS
    <3>3. Address(p) <= v /\ Address(p) \in Int /\ Address(p - 1) \in Int
      BY <2>2, <3>1, <3>2, PagesBelow, Addresses
    <3>4. Address(p) = Address(p - 1) + PageBytes
      BY <3>2, Addresses
    <3>5. Address(p - 1) < v + m
      BY ONLY <2>2, <3>3, <3>4, SizeAssumption
    <3> QED BY <3>1, <3>5
  <2>8. PlaceInv'
    BY <1>9, <2>1, <2>6, <2>7 DEF PlaceInv
  <2> QED BY <2>5, <2>8 DEF BudgetInv
<1> QED BY <1>8, <1>9 DEF BeginSegment

\* loadELF() takes a page for the next page of a segment.
LEMMA SegmentPageBudget ==
  ASSUME PlainLayouts, LoadInv, TypeOK', BudgetInv,
         pc \in {"header", "pages"}, seg <= Len(Segs(file)), Header.load,
         NEW n \in SegmentPages(Header),
         pc = "pages" => va = Address(n),
         pc = "header" => n = PageNo(Header.vaddr),
         pc' = "pages", va' = Address(n + 1),
         UNCHANGED <<layout, file, seg>>,
         NEW mode, NEW bytes, AllocPage(Address(n), mode, bytes)
  PROVE  BudgetInv'
<1>1. TypeOK /\ TreeInv /\ file \in File /\ seg \in Nat \ {0}
  BY DEF LoadInv, TreeInv, TypeOK
<1>2. seg \in 1 .. Len(Segs(file)) /\ Header = Segs(file)[seg]
  BY <1>1, HeaderTypes
<1>3. /\ n \in Int /\ n \in WalkedPages(layout)
      /\ Address(n) < MemoryEnd
  BY <1>1, <1>2, SegmentWithin DEF SegmentPages, MemoryEnd
<1>4. Address(n) \in Int /\ PageNo(Address(n)) = n
      /\ PageNo(Address(n + 1)) = n + 1
  BY <1>3, Addresses, PagesBelow
<1>5. Spent' <= Spent + 1 /\ Spent \in Int /\ Spent' \in Int
  BY <1>1, <1>3, <1>4, AllocPageSpends
<1>6. PICK before, first : before = Before(file) /\ first = FirstPage(file)
  OBVIOUS
<1>7. before \in Int /\ first \in Int
  BY <1>1, <1>6, LayoutNumbers
<1>8. Spent <= before + (n - first)
  <2>1. CASE pc = "pages"
    BY <1>4, <1>6, <2>1 DEF BudgetInv, SpentFits
  <2>2. CASE pc = "header"
    <3>1. seg \in seg .. Len(Segs(file))
      BY <1>2
    <3> QED BY <1>2, <1>6, <2>2, <3>1 DEF BudgetInv, SpentFits
  <2> QED BY <2>1, <2>2
<1>9. Spent' <= before + ((n + 1) - first)
  BY ONLY <1>3, <1>5, <1>7, <1>8
<1>10. /\ Before(file)' = before /\ FirstPage(file)' = first
       /\ MemoryEnd' = MemoryEnd
  BY <1>6 DEF Before, FirstPage, EndPage, Segs, MemoryEnd, Header
<1>11. (n + 1) - 1 = n
  BY <1>3
<1>12. PlaceInv'
  BY <1>3, <1>4, <1>10, <1>11 DEF PlaceInv
<1>13. SpentFits'
  BY <1>4, <1>9, <1>10 DEF SpentFits
<1> QED BY <1>12, <1>13 DEF BudgetInv

\* The page a segment begins in is one of the segment.
LEMMA BeginMisalignedBudget ==
  ASSUME PlainLayouts, LoadInv, TypeOK', BudgetInv, BeginMisaligned
  PROVE  BudgetInv'
<1>1. /\ pc = "header" /\ seg <= Len(Segs(file)) /\ Header.load
      /\ ~IsAligned(Header.vaddr)
      /\ va' = PageUp(Header.vaddr) /\ pc' = "pages"
      /\ UNCHANGED <<layout, file, seg>>
  BY DEF BeginMisaligned
<1>2. TypeOK /\ file \in File
  BY DEF LoadInv, TreeInv, TypeOK
<1>3. seg \in 1 .. Len(Segs(file)) /\ Header = Segs(file)[seg]
      /\ Header.vaddr \in Int
  BY <1>1, <1>2, HeaderTypes
<1>4. PICK v : v = Header.vaddr
  OBVIOUS
<1>5. PICK n : n = PageNo(v)
  OBVIOUS
<1>6. /\ n \in Int /\ PageDown(v) = Address(n) /\ PageUp(v) = Address(n + 1)
  <2>1. PageNo(v) \in Int
    BY <1>3, <1>4, PageOfAddress
  <2>2. PageNo(v - 1) = PageNo(v)
    BY <1>1, <1>3, <1>4, Rounding
  <2> QED BY <1>3, <1>4, <1>5, <2>1, <2>2, Rounding
<1>7. n \in SegmentPages(Header)
  BY <1>1, <1>2, <1>3, <1>4, <1>5, SegmentWithin
<1>8. PICK bytes :
        bytes = PageOf(file, Header, Address(n), v, Address(n) + PageBytes)
  OBVIOUS
<1>9. AllocPage(Address(n), Mode, bytes)
  BY <1>4, <1>6, <1>8 DEF BeginMisaligned
<1> QED
  BY <1>1, <1>4, <1>5, <1>6, <1>7, <1>9, SegmentPageBudget

\* Neither loop over a segment leaves it.
LEMMA SegmentLoopBudget ==
  ASSUME PlainLayouts, LoadInv, TypeOK', BudgetInv, FilePage \/ BssPage
  PROVE  BudgetInv'
<1>1. /\ pc = "pages" /\ pc' = "pages" /\ va' = va + PageBytes
      /\ UNCHANGED <<layout, file, seg>>
  BY DEF FilePage, BssPage
<1>2. PICK s : s = Header
  OBVIOUS
<1>3. /\ va \in Int /\ seg <= Len(Segs(file)) /\ s.load /\ PlainSegment(s)
      /\ s.vaddr \in Int /\ s.filesz \in Int /\ s.memsz \in Int /\ s.vaddr <= va
  BY <1>1, <1>2, SegmentLoop
<1>4. PICK n \in Int : /\ va = Address(n) /\ va + PageBytes = Address(n + 1)
                       /\ va < s.vaddr + s.memsz => n \in SegmentPages(s)
  BY <1>1, <1>2, SegmentLoop
<1>5. PICK bytes : /\ va < s.vaddr + s.filesz \/ va < s.vaddr + s.memsz
                   /\ AllocPage(va, Mode, bytes)
  BY <1>2 DEF FilePage, BssPage, FileEnd, MemoryEnd
<1>6. n \in SegmentPages(s)
  BY <1>3, <1>4, <1>5 DEF PlainSegment
<1> QED BY <1>1, <1>2, <1>3, <1>4, <1>5, <1>6, SegmentPageBudget

\* The segments behind the one that was loaded are above it.
LEMMA EndSegmentBudget ==
  ASSUME PlainLayouts, OrderedLayouts, LoadInv, BudgetInv, EndSegment
  PROVE  BudgetInv'
<1>1. /\ UNCHANGED <<layout, file, ptes, free>>
      /\ pc = "pages" /\ pc' = "header" /\ seg' = seg + 1 /\ va >= MemoryEnd
  BY DEF EndSegment
<1>2. PICK s : s = Header
  OBVIOUS
<1>3. /\ TypeOK /\ file \in File /\ va \in Int
      /\ seg <= Len(Segs(file)) /\ s.load
      /\ s.vaddr \in Int /\ s.memsz \in Int
  BY <1>1, <1>2, SegmentLoop
<1>4. seg \in 1 .. Len(Segs(file)) /\ s = Segs(file)[seg]
  BY <1>2, <1>3, HeaderTypes
<1>5. PICK n, before, first, end :
        /\ n = PageNo(va) - 1 /\ before = Before(file)
        /\ first = FirstPage(file) /\ end = EndPage(file)
  OBVIOUS
<1>6. n \in Int /\ before \in Int /\ first \in Int /\ end \in Int
      /\ PageNo(va) = n + 1 /\ va = Address(n + 1)
  <2>1. PageNo(va) \in Int
    BY <1>3, PageOfAddress
  <2>2. va = Address(PageNo(va))
    BY <1>1 DEF LoadInv, LoopInv
  <2>3. n \in Int /\ PageNo(va) = n + 1
    BY ONLY <1>5, <2>1
  <2> QED BY <1>3, <1>5, <2>2, <2>3, LayoutNumbers
<1>7. n \in SegmentPages(s)
  <2>1. PICK v, m : v = s.vaddr /\ m = s.memsz
    OBVIOUS
  <2>2. Address(n) < v + m
    BY <1>1, <1>2, <1>5, <2>1 DEF BudgetInv, PlaceInv, MemoryEnd
  <2>3. v + m <= va /\ v \in Int /\ m \in Int
    BY <1>1, <1>2, <1>3, <2>1 DEF MemoryEnd
  <2>4. 0 < m
    BY <1>3, <1>4, <2>1, PlainPages DEF PlainSegment
  <2>5. PICK p \in Int : p = PageNo(v)
    BY <2>3, PageOfAddress
  <2>6. Address(p) <= v /\ Address(p) \in Int
    <3>1. p <= p
      OBVIOUS
    <3> QED BY <2>3, <2>5, <3>1, PagesBelow, Addresses
  <2>7. Address(p) < Address(n + 1) /\ n + 1 \in Int
    BY <1>3, <1>6, <2>3, <2>4, <2>6
  <2>8. p < n + 1
    BY <2>7, Addresses
  <2>9. p <= n
    BY ONLY <1>6, <2>8, p \in Int
  <2> QED BY <1>6, <2>1, <2>2, <2>5, <2>9 DEF SegmentPages
<1>8. n < end
  BY <1>3, <1>4, <1>5, <1>7, SegmentWithin
<1>9. Spent' = Spent /\ Spent \in Int
  BY <1>1, <1>3, NothingSpent
<1>10. Spent <= before + ((n + 1) - first)
  BY <1>1, <1>5, <1>6 DEF BudgetInv, SpentFits
<1>11. Spent <= before + (end - first)
  BY ONLY <1>6, <1>8, <1>9, <1>10
<1>12. ASSUME NEW j \in seg + 1 .. Len(Segs(file)), Segs(file)[j].load
       PROVE  Spent <= before + (PageNo(Segs(file)[j].vaddr) - first)
  <2>1. PICK p : p = PageNo(Segs(file)[j].vaddr)
    OBVIOUS
  <2>2. j \in 1 .. Len(Segs(file)) /\ seg < j
    BY <1>4
  <2>3. p \in SegmentPages(Segs(file)[j]) /\ p \in Int
    BY <1>3, <1>12, <2>1, <2>2, SegmentWithin
  <2>4. n < p
    <3>1. OrderedLayout(layout)
      BY <1>3 DEF OrderedLayouts, TypeOK
    <3> QED BY <1>3, <1>4, <1>7, <1>12, <2>2, <2>3, <3>1
            DEF OrderedLayout, Segs
  <2>5. Spent <= before + (p - first)
    BY ONLY <1>6, <1>9, <1>10, <2>3, <2>4
  <2> QED BY <2>1, <2>5
<1>13. /\ Before(file)' = before /\ FirstPage(file)' = first
       /\ EndPage(file)' = end /\ Segs(file)' = Segs(file)
  BY <1>1, <1>5 DEF Before, FirstPage, EndPage, Segs
<1>14. PlaceInv'
  BY <1>1 DEF PlaceInv
<1>15. SpentFits'
  BY <1>1, <1>9, <1>11, <1>12, <1>13 DEF SpentFits
<1> QED BY <1>14, <1>15 DEF BudgetInv

\* The pages of a file that was loaded are counted.
LEMMA EndFileBudget ==
  ASSUME PlainLayouts, LoadInv, BudgetInv, EndFile
  PROVE  BudgetInv'
<1>1. /\ UNCHANGED <<layout, ptes, free>> /\ pc = "header"
  BY DEF EndFile
<1>2. TypeOK
  BY DEF LoadInv, TreeInv
<1>3. Spent' = Spent /\ Spent \in Int
  BY <1>1, <1>2, NothingSpent
<1>4. Spent <= Before(file) + (EndPage(file) - FirstPage(file))
  BY <1>1 DEF BudgetInv, SpentFits
<1>5. "eapp" \in File /\ "runtime" \in File
  BY DEF File
<1>6. CASE /\ file = "runtime" /\ file' = "eapp" /\ pc' = "vspace"
           /\ va' = MinVaddr(Segs("eapp"))
  <2>1. PICK first, end, begin :
          /\ first = FirstPage("runtime") /\ end = EndPage("runtime")
          /\ begin = FirstPage("eapp")
    OBVIOUS
  <2>2. first \in Int /\ end \in Int /\ begin \in Int
    BY <1>2, <1>5, <2>1, LayoutNumbers
  <2>3. Spent <= 0 + (end - first)
    BY <1>4, <1>6, <2>1 DEF Before
  <2>4. Spent <= end - first
    BY ONLY <1>3, <2>2, <2>3
  <2>5. Before("eapp")' = end - first
    BY <1>1, <2>1 DEF Before, EndPage, FirstPage, Segs
  <2>6. SpentFits'
    BY <1>3, <1>6, <2>4, <2>5 DEF SpentFits
  <2>7. va' = Address(begin)
    BY <1>2, <1>5, <1>6, <2>1, LayoutNumbers
  <2>8. PageNo(va') = begin /\ begin <= begin
    BY <2>2, <2>7, PagesBelow
  <2>9. FirstPage("eapp")' = begin
    BY <1>1, <2>1 DEF FirstPage, Segs
  <2>10. PlaceInv'
    BY <1>6, <2>7, <2>8, <2>9 DEF PlaceInv
  <2> QED BY <2>6, <2>10 DEF BudgetInv
<1>7. CASE /\ file = "eapp" /\ file' = file /\ pc' = "stack"
           /\ va' = StackLow
  <2>1. PICK loaded, low, high :
          /\ loaded = Loaded /\ low = StackFirst(layout)
          /\ high = StackEnd(layout)
    OBVIOUS
  <2>2. /\ loaded \in Int /\ low \in Int /\ high \in Int /\ low <= high
        /\ StackLow = Address(low)
    BY <1>2, <2>1, LayoutNumbers
  <2>3. va' = Address(low) /\ PageNo(va') = low
    BY <1>7, <2>2, PagesBelow
  <2>4. Spent <= loaded
    BY <1>4, <1>7, <2>1 DEF Loaded
  <2>5. Spent <= loaded + (low - low)
    BY ONLY <1>3, <2>2, <2>4
  <2>6. /\ Loaded' = loaded /\ StackFirst(layout)' = low
        /\ StackEnd(layout)' = high
    BY <1>1, <2>1 DEF Loaded, Before, EndPage, FirstPage, Segs
  <2>7. SpentFits'
    BY <1>1, <1>3, <1>7, <2>1, <2>3, <2>5, <2>6 DEF SpentFits
  <2>8. PlaceInv'
    BY <1>1, <1>7, <2>1, <2>2, <2>3 DEF PlaceInv
  <2> QED BY <2>7, <2>8 DEF BudgetInv
<1> QED BY <1>6, <1>7 DEF EndFile

\* initStack() takes a page for each page of the stack.
LEMMA StackPageBudget ==
  ASSUME PlainLayouts, LoadInv, TypeOK', BudgetInv, StackPage
  PROVE  BudgetInv'
<1>1. /\ pc = "stack" /\ pc' = "stack" /\ va < StackHigh
      /\ AllocPage(va, "USER_NOEXEC", NullPage)
      /\ va' = va + PageBytes /\ UNCHANGED <<layout, file>>
  BY DEF StackPage
<1>2. TypeOK /\ TreeInv /\ va \in Int
  BY DEF LoadInv, TreeInv, TypeOK
<1>3. StackLow <= va /\ va = Address(PageNo(va))
  BY <1>1 DEF LoadInv, LoopInv
<1>4. PICK n, loaded, low, high :
        /\ n = PageNo(va) /\ loaded = Loaded
        /\ low = StackFirst(layout) /\ high = StackEnd(layout)
  OBVIOUS
<1>5. /\ loaded \in Int /\ low \in Int /\ high \in Int
      /\ StackHigh = Address(high)
  BY <1>2, <1>4, LayoutNumbers
<1>6. n \in Int /\ va = Address(n)
  BY <1>2, <1>3, <1>4, PageOfAddress
<1>7. va' = Address(n + 1) /\ PageNo(va') = n + 1
  BY ONLY <1>1, <1>2, <1>6, NextPage
<1>8. n < high
  BY <1>1, <1>5, <1>6, Addresses
<1>9. n \in WalkedPages(layout)
  BY <1>1, <1>3, <1>6 DEF WalkedPages, StackPages, StackLow, StackHigh
<1>10. Spent' <= Spent + 1 /\ Spent \in Int /\ Spent' \in Int
  BY <1>1, <1>2, <1>4, <1>9, AllocPageSpends
<1>11. Spent <= loaded + (n - low)
  BY <1>1, <1>4 DEF BudgetInv, SpentFits
<1>12. Spent' <= loaded + ((n + 1) - low) /\ n + 1 <= high
  BY ONLY <1>5, <1>6, <1>8, <1>10, <1>11
<1>13. Loaded' = loaded
  BY <1>1, <1>4 DEF Loaded, Before, EndPage, FirstPage, Segs
<1>14. SpentFits'
  BY <1>1, <1>4, <1>7, <1>12, <1>13 DEF SpentFits
<1>15. PlaceInv'
  BY <1>1, <1>4, <1>7, <1>12 DEF PlaceInv, BudgetInv
<1> QED BY <1>14, <1>15 DEF BudgetInv

\* The stack is counted to its end.
LEMMA EndStackBudget ==
  ASSUME PlainLayouts, LoadInv, BudgetInv, EndStack
  PROVE  BudgetInv'
<1>1. /\ pc = "stack" /\ pc' = "untrusted"
      /\ UNCHANGED <<layout, file, ptes, free>>
  BY DEF EndStack
<1>2. TypeOK /\ va \in Int
  BY DEF LoadInv, TreeInv, TypeOK
<1>3. Spent' = Spent /\ Spent \in Int
  BY <1>1, <1>2, NothingSpent
<1>4. PICK n, loaded, low, high :
        /\ n = PageNo(va) /\ loaded = Loaded
        /\ low = StackFirst(layout) /\ high = StackEnd(layout)
  OBVIOUS
<1>5. /\ loaded \in Int /\ low \in Int /\ high \in Int /\ n \in Int
      /\ n <= high /\ Spent <= loaded + (n - low)
  BY <1>1, <1>2, <1>4, LayoutNumbers, PageOfAddress
  DEF BudgetInv, PlaceInv, SpentFits
<1>6. Spent <= loaded + (high - low)
  BY ONLY <1>3, <1>5
<1>7. Loaded' = loaded
  BY <1>1, <1>4 DEF Loaded, Before, EndPage, FirstPage, Segs
<1> QED BY <1>1, <1>3, <1>4, <1>6, <1>7 DEF BudgetInv, PlaceInv, SpentFits

\* The pages of the untrusted region are not of the EPM.
LEMMA UntrustedPageBudget ==
  ASSUME PlainLayouts, LoadInv, TypeOK', BudgetInv, UntrustedPage
  PROVE  BudgetInv'
<1>1. /\ pc = "untrusted" /\ pc' = "untrusted" /\ va < UntrustedEnd
      /\ AllocPage(va, "UTM_FULL", NullPage) /\ UNCHANGED <<layout, file>>
  BY DEF UntrustedPage
<1>2. TypeOK /\ TreeInv /\ va \in Int
  BY DEF LoadInv, TreeInv, TypeOK
<1>3. PageNo(layout.untrusted) <= PageNo(va) /\ va = Address(PageNo(va))
  BY <1>1 DEF LoadInv, LoopInv
<1>4. PageNo(va) \in UntrustedPages(layout)
  BY <1>1, <1>2, <1>3, PageOfAddress, UntrustedEnds DEF UntrustedPages
<1>5. PageNo(va) \in WalkedPages(layout)
  BY <1>4 DEF WalkedPages
<1>6. Spent' <= Spent /\ Spent \in Int /\ Spent' \in Int
  BY <1>1, <1>2, <1>5, AllocPageSpends
<1>7. PICK bound : bound = Loaded + (StackEnd(layout) - StackFirst(layout))
  OBVIOUS
<1>8. bound \in Int /\ Spent <= bound
  BY <1>1, <1>2, <1>7, LayoutNumbers DEF BudgetInv, SpentFits
<1>9. Spent' <= bound
  BY ONLY <1>6, <1>8
<1>10. Loaded' = Loaded
  BY <1>1 DEF Loaded, Before, EndPage, FirstPage, Segs
<1> QED BY <1>1, <1>7, <1>9, <1>10 DEF BudgetInv, PlaceInv, SpentFits

\* Nothing is taken when the loop over the untrusted region ends.
LEMMA EndUntrustedBudget ==
  ASSUME PlainLayouts, LoadInv, BudgetInv, EndUntrusted
  PROVE  BudgetInv'
<1>1. /\ pc = "untrusted" /\ pc' = "done"
      /\ UNCHANGED <<layout, file, ptes, free>>
  BY DEF EndUntrusted
<1>2. TypeOK
  BY DEF LoadInv, TreeInv
<1>3. Spent' = Spent
  BY <1>1, <1>2, NothingSpent
<1>4. Loaded' = Loaded
  BY <1>1 DEF Loaded, Before, EndPage, FirstPage, Segs
<1> QED BY <1>1, <1>3, <1>4 DEF BudgetInv, PlaceInv, SpentFits

\* Every step keeps to the budget.
LEMMA BudgetInvStep ==
  ASSUME PlainLayouts, OrderedLayouts, LoadInv, BudgetInv, [Next]_vars
  PROVE  BudgetInv'
<1>1. TypeOK /\ TypeOK'
  BY LoadInvStep DEF LoadInv, TreeInv
<1>2. CASE VspacePage
  BY <1>1, <1>2, VspacePageBudget
<1>3. CASE EndVspace
  BY <1>3, EndVspaceBudget
<1>4. CASE BeginSegment
  BY <1>4, BeginSegmentBudget
<1>5. CASE BeginMisaligned
  BY <1>1, <1>5, BeginMisalignedBudget
<1>6. CASE FilePage \/ BssPage
  BY <1>1, <1>6, SegmentLoopBudget
<1>7. CASE EndSegment
  BY <1>7, EndSegmentBudget
<1>8. CASE EndFile
  BY <1>8, EndFileBudget
<1>9. CASE StackPage
  BY <1>1, <1>9, StackPageBudget
<1>10. CASE EndStack
  BY <1>10, EndStackBudget
<1>11. CASE UntrustedPage
  BY <1>1, <1>11, UntrustedPageBudget
<1>12. CASE EndUntrusted
  BY <1>12, EndUntrustedBudget
<1>13. CASE UNCHANGED vars
  <2>1. UNCHANGED <<layout, pc, file, seg, va, ptes, free>>
    BY <1>13 DEF vars
  <2>2. Spent' = Spent
    BY <1>1, <2>1, NothingSpent
  <2>3. Loaded' = Loaded
    BY <2>1 DEF Loaded, Before, EndPage, FirstPage, Segs
  <2> QED BY <2>1, <2>2, <2>3
          DEF BudgetInv, PlaceInv, SpentFits, Before, FirstPage, EndPage, Segs,
              MemoryEnd, Header
<1> QED
  BY <1>2, <1>3, <1>4, <1>5, <1>6, <1>7, <1>8, <1>9, <1>10, <1>11, <1>12,
     <1>13 DEF Next

\* prepareEnclave() has taken the root table.
LEMMA BudgetInvInit ==
  ASSUME PlainLayouts, Init
  PROVE  BudgetInv
<1>1. /\ pc = "vspace" /\ file = "runtime" /\ free = 1 /\ layout \in Layouts
      /\ va = MinVaddr(Segs("runtime")) /\ TypeOK
  BY TreeInvInit DEF Init, TreeInv
<1>2. TablesFor(Opened) \in Nat /\ TablesFor(Opened) >= 1
  <2>1. IsFiniteSet(Opened) /\ TablesFor(Opened) \in Nat
    BY <1>1, SpentType
  <2>2. {} \in SUBSET Opened
    OBVIOUS
  <2>3. TablesFor({}) <= TablesFor(Opened)
    BY <2>1, <2>2, TablesGrow
  <2>4. TablesFor({}) = 1
    <3>1. {LastGroup(n) : n \in {}} = {} /\ {MiddleGroup(n) : n \in {}} = {}
      OBVIOUS
    <3>2. Cardinality({}) = 0
      BY FS_EmptySet
    <3> QED BY <3>1, <3>2 DEF TablesFor
  <2> QED BY <2>1, <2>3, <2>4
<1>3. Spent <= 0
  BY <1>1, <1>2 DEF Spent
<1>4. PICK first : first = FirstPage("runtime")
  OBVIOUS
<1>5. first \in Int /\ va = Address(first)
  BY <1>1, <1>4, LayoutNumbers DEF File
<1>6. PageNo(va) = first /\ first <= first
  BY <1>5, PagesBelow
<1> QED BY <1>1, <1>3, <1>4, <1>5, <1>6
        DEF BudgetInv, PlaceInv, SpentFits, Before

\* init() keeps to the budget throughout.
LEMMA AlwaysBudget ==
  ASSUME PlainLayouts, OrderedLayouts
  PROVE  Spec => []BudgetInv
<1>1. Init => BudgetInv
  BY BudgetInvInit
<1>2. LoadInv /\ BudgetInv /\ [Next]_vars => BudgetInv'
  BY BudgetInvStep
<1> QED BY <1>1, <1>2, AlwaysLoad, PTL DEF Spec

-------------------------------------------------------------------------------
(* What the monitor accepts. *)

\* What was taken is within what prepareEnclave() asks the driver for.
LEMMA WithinMemory ==
  ASSUME PlainLayouts, WithinBudgets, LoadInv, BudgetInv, pc = "done"
  PROVE  free <= MinPages /\ MinPages \in Int
<1>1. TypeOK /\ free \in Int
  BY DEF LoadInv, TreeInv, TypeOK
<1>2. PICK t, w : t = TablesFor(Opened) /\ w = TablesFor(WalkedPages(layout))
  OBVIOUS
<1>3. t \in Nat /\ w \in Nat /\ t <= w /\ Spent = free - t /\ Spent \in Int
  <2>1. /\ Opened \in SUBSET WalkedPages(layout) /\ Spent \in Int
        /\ IsFiniteSet(WalkedPages(layout))
    BY <1>1, SpentType, WalkedFinite
  <2>2. /\ TablesFor(Opened) \in Nat /\ TablesFor(WalkedPages(layout)) \in Nat
        /\ TablesFor(Opened) <= TablesFor(WalkedPages(layout))
    BY <2>1, TablesGrow
  <2> QED BY <1>2, <2>1, <2>2 DEF Spent
<1>4. PICK low, high, mem, loaded :
        /\ low = StackFirst(layout) /\ high = StackEnd(layout)
        /\ mem = PageUp(layout.freemem) \div PageBytes /\ loaded = Loaded
  OBVIOUS
<1>5. w + (high - low) <= mem + TablePages
  BY <1>1, <1>2, <1>4 DEF WithinBudgets, WithinBudget, TypeOK
<1>6. Spent <= loaded + (high - low)
  BY <1>4 DEF BudgetInv, SpentFits
<1>7. low \in Int /\ high \in Int /\ loaded \in Int /\ TablePages \in Nat
  BY <1>1, <1>4, LayoutNumbers, SizeAssumption
<1>8. mem \in Int
  <2>1. layout.freemem \in Int
    BY <1>1, LayoutTypes DEF Layout
  <2>2. PageUp(layout.freemem) \in Int
    BY <2>1, RoundingType
  <2>3. PageNo(PageUp(layout.freemem)) \in Int
    BY <2>2, PageOfAddress
  <2> QED BY <1>4, <2>3 DEF PageNo
<1>9. ASSUME NEW f \in File
      PROVE  (MaxVaddr(Segs(f)) - MinVaddr(Segs(f))) \div PageBytes =
               EndPage(f) - FirstPage(f)
             /\ EndPage(f) - FirstPage(f) \in Int
  <2>1. PICK first, end : first = FirstPage(f) /\ end = EndPage(f)
    OBVIOUS
  <2>2. /\ first \in Int /\ end \in Int
        /\ MinVaddr(Segs(f)) = Address(first)
        /\ MaxVaddr(Segs(f)) = Address(end)
    BY <1>1, <2>1, LayoutNumbers
  <2>3. Address(end) - Address(first) = Address(end - first)
    BY <2>2, SizeAssumption, SMT DEF Address
  <2>4. end - first \in Int
    BY <2>2
  <2>5. PageNo(Address(end - first)) = end - first
    BY <2>4, PagesBelow
  <2>6. PageNo(MaxVaddr(Segs(f)) - MinVaddr(Segs(f))) = end - first
    BY <2>2, <2>3, <2>5, Zenon
  <2> QED BY <2>1, <2>4, <2>6 DEF PageNo
<1>10. PICK x, y : /\ x = EndPage("runtime") - FirstPage("runtime")
                   /\ y = EndPage("eapp") - FirstPage("eapp")
  OBVIOUS
<1>11. x \in Int /\ y \in Int
  BY <1>9, <1>10 DEF File
<1>12. MinPages = mem + y + x + TablePages
  BY <1>4, <1>9, <1>10, Zenon DEF MinPages, File
<1>13. loaded = x + y
  BY <1>4, <1>10 DEF Loaded, Before
<1> QED
  BY ONLY <1>1, <1>3, <1>5, <1>6, <1>7, <1>8, <1>11, <1>12, <1>13

\* What validate_and_hash_epm() reads for page n is right.
Accepted(n, e) ==
  \/ /\ RegionReached("runtime", n)
     /\ start["runtime"] <= e.to /\ e.to < start["eapp"]
  \/ /\ RegionReached("eapp", n)
     /\ start["eapp"] <= e.to /\ e.to < free
     /\ e.mode \in {"USER_FULL", "USER_NOEXEC"}
  \/ e.to < start["runtime"] /\ InUtm(e.to)

\* The frame of a page of the untrusted region is one of the UTM.
LEMMA UntrustedFrames ==
  ASSUME PlainLayouts, OrderedLayouts, LoadInv, NEW n \in Int,
         UntrustedReached(n), NEW e \in EntriesOf(ptes, n)
  PROVE  e.to \in Int /\ e.to < 0 /\ InUtm(e.to)
<1>1. TypeOK
  BY DEF LoadInv, TreeInv
<1>2. PICK u, size, first : /\ u = layout.untrusted
                            /\ size = layout.untrustedSize
                            /\ first = PageNo(u)
  OBVIOUS
<1>3. u \in Int /\ size \in Int /\ first \in Int
  <2>1. u \in Int /\ size \in Int
    BY <1>1, <1>2, LayoutTypes
  <2> QED BY <1>2, <2>1, PageOfAddress
<1>4. u = Address(first)
  <2>1. IsAligned(u)
    BY <1>1, <1>2 DEF TypeOK, OrderedLayouts, OrderedLayout
  <2> QED BY <1>2, <1>3, <2>1, Rounding
<1>5. first <= n /\ Address(n) < PageUp(u + size)
  BY <1>2 DEF UntrustedReached, UntrustedPages
<1>6. PageIs(ptes, n, -1 - (n - first))
  BY <1>2 DEF LoadInv, UntrustedRight
<1>7. e.to = -1 - (n - first)
  BY <1>6 DEF PageIs
<1>8. Address(n) < u + size
  <2>1. PICK a : a = u + size
    OBVIOUS
  <2>2. a \in Int /\ a - 1 \in Int /\ Address(n) \in Int
    BY <1>3, <2>1, Addresses
  <2>3. PICK p \in Int : p = PageNo(a - 1)
    BY <2>2, PageOfAddress
  <2>4. Address(n) < Address(p + 1) /\ p + 1 \in Int
    BY <1>5, <2>1, <2>2, <2>3, Rounding
  <2>5. n <= p
    <3>1. n < p + 1
      BY <2>4, Addresses
    <3> QED BY <3>1
  <2>6. Address(n) <= a - 1
    BY <2>2, <2>3, <2>5, PagesBelow
  <2> QED BY ONLY <2>1, <2>2, <2>6
<1>9. (n - first) * PageBytes < size
  <2>1. (n - first) * PageBytes = Address(n) - Address(first)
    BY <1>3, SizeAssumption, SMT DEF Address
  <2>2. PICK x : x = (n - first) * PageBytes
    OBVIOUS
  <2>3. Address(n) \in Int
    BY Addresses
  <2>4. x = Address(n) - u
    BY <1>4, <2>1, <2>2
  <2>5. x < size
    BY ONLY <1>3, <1>8, <2>3, <2>4
  <2> QED BY <2>2, <2>5
<1>10. -1 - e.to = n - first /\ e.to \in Int /\ e.to < 0
  BY <1>3, <1>5, <1>7
<1> QED BY <1>2, <1>9, <1>10 DEF InUtm

\* Every page is in one of the three regions.
LEMMA AcceptsPage ==
  ASSUME PlainLayouts, OrderedLayouts, LoadInv, RegionInv, BudgetInv,
         pc = "done", NEW n \in PageNos, NEW e \in EntriesOf(ptes, n)
  PROVE  Accepted(n, e)
<1>1. TypeOK /\ file \in File /\ start \in [File -> Nat] /\ n \in Int
      /\ "runtime" \in File /\ "eapp" \in File
  BY SizeAssumption DEF LoadInv, TreeInv, TypeOK, PageNos, File
<1>2. \/ \E f \in File, i \in Nat : Reached(f, i, n)
      \/ StackReached(n)
      \/ UntrustedReached(n)
  BY DEF LoadInv, NothingElse
<1>3. CASE RegionReached("runtime", n)
  <2>1. InRegion("runtime", e)
    BY <1>1, <1>3 DEF RegionInv, RegionsRight
  <2>2. EappBegun
    BY DEF EappBegun, BudgetInv, PlaceInv
  <2> QED BY <1>3, <2>1, <2>2 DEF InRegion, Accepted
<1>4. CASE RegionReached("eapp", n)
  <2>1. InRegion("eapp", e)
    BY <1>1, <1>4 DEF RegionInv, RegionsRight
  <2>2. e.to < free
    BY MappedFrames
  <2> QED BY <1>4, <2>1, <2>2 DEF InRegion, Accepted
<1>5. CASE UntrustedReached(n)
  <2>1. e.to \in Int /\ e.to < 0 /\ InUtm(e.to)
    BY <1>1, <1>5, UntrustedFrames
  <2>2. start["runtime"] \in Nat
    BY <1>1
  <2> QED BY <2>1, <2>2 DEF Accepted
<1> QED BY <1>2, <1>3, <1>4, <1>5 DEF RegionReached, File

\* The page of an untrusted address is one of the untrusted pages.
LEMMA UntrustedAddresses ==
  ASSUME TypeOK, NEW n \in Int, InUntrusted(Address(n))
  PROVE  n \in UntrustedPages(layout)
<1>1. PICK u, size : u = layout.untrusted /\ size = layout.untrustedSize
  OBVIOUS
<1>2. u \in Int /\ size \in Int /\ u + size \in Int
  BY <1>1, LayoutTypes
<1>3. u <= Address(n) /\ Address(n) < u + size /\ Address(n) \in Int
  BY <1>1, Addresses DEF InUntrusted
<1>4. PICK p \in Int : p = PageNo(u)
  BY <1>2, PageOfAddress
<1>5. p <= n
  <2>1. p <= p
    OBVIOUS
  <2>2. Address(p) <= u /\ Address(p) \in Int
    BY <1>2, <1>4, <2>1, PagesBelow, Addresses
  <2>3. Address(p) <= Address(n)
    BY <1>2, <1>3, <2>2
  <2>4. p <= PageNo(Address(n))
    BY <1>3, <2>3, PagesBelow
  <2> QED BY <2>4, PagesBelow
<1>6. Address(n) < PageUp(u + size)
  <2>1. u + size <= PageUp(u + size) /\ PageUp(u + size) \in Int
    BY <1>2, Rounding, RoundingType
  <2> QED BY <1>2, <1>3, <2>1
<1> QED BY <1>1, <1>4, <1>5, <1>6 DEF UntrustedPages

\* What is mapped is what the pages' tables have.
LEMMA MappedPages ==
  ASSUME NEW m \in Mapped
  PROVE  \E n \in PageNos : \E e \in EntriesOf(ptes, n) :
           m = <<Address(n), e>>
<1>1. PICK a \in PageAddresses : m \in {<<a, e>> : e \in Leaves(a)}
  BY DEF Mapped
<1>2. PICK e \in Leaves(a) : m = <<a, e>>
  BY <1>1
<1>3. PICK n \in PageNos : a = Address(n)
  BY DEF PageAddresses, PageNos, Address
<1>4. n \in Int /\ a \in Int
  <2>1. n \in Int
    BY SizeAssumption DEF PageNos
  <2> QED BY <1>3, <2>1, Addresses
<1>5. PageNo(a) = n
  BY <1>3, <1>4, PagesBelow
<1>6. e \in EntriesOf(ptes, n)
  BY <1>4, <1>5, LeavesOfPage
<1> QED BY <1>2, <1>3, <1>6

\* The check of hash_util.h in terms of pages.
LEMMA ValidPages ==
  ASSUME NEW runtime, NEW user, NEW end,
         \A e \in ptes : e.to < MinPages,
         \A n \in PageNos : \A e \in EntriesOf(ptes, n) :
           /\ \/ runtime <= e.to /\ e.to < user
              \/ user <= e.to /\ e.to < end
              \/ InUtm(e.to)
           /\ user <= e.to /\ e.to < end =>
                e.mode \in {"USER_FULL", "USER_NOEXEC"}
           /\ InUntrusted(Address(n)) => InUtm(e.to),
         \A k, n \in PageNos : k < n =>
           \A d \in EntriesOf(ptes, k), e \in EntriesOf(ptes, n) :
             \/ /\ runtime <= d.to /\ d.to < user
                /\ runtime <= e.to /\ e.to < user
             \/ /\ user <= d.to /\ d.to < end
                /\ user <= e.to /\ e.to < end
             => d.to < e.to
  PROVE  ValidMappings(runtime, user, end)
<1> DEFINE InRuntime(frame) == runtime <= frame /\ frame < user
           InUser(frame) == user <= frame /\ frame < end
<1>1. ASSUME NEW m \in Mapped
      PROVE  /\ InRuntime(m[2].to) \/ InUser(m[2].to) \/ InUtm(m[2].to)
             /\ InUser(m[2].to) => m[2].mode \in {"USER_FULL", "USER_NOEXEC"}
             /\ InUntrusted(m[1]) => InUtm(m[2].to)
  <2>1. PICK n \in PageNos : \E e \in EntriesOf(ptes, n) : m = <<Address(n), e>>
    BY MappedPages
  <2>2. PICK e \in EntriesOf(ptes, n) : m = <<Address(n), e>>
    BY <2>1
  <2>3. m[1] = Address(n) /\ m[2] = e
    BY <2>2
  <2> QED BY <2>3
<1>2. ASSUME NEW c \in Mapped, NEW m \in Mapped, c[1] < m[1],
             \/ InRuntime(c[2].to) /\ InRuntime(m[2].to)
             \/ InUser(c[2].to) /\ InUser(m[2].to)
      PROVE  c[2].to < m[2].to
  <2>1. PICK k \in PageNos : \E e \in EntriesOf(ptes, k) : c = <<Address(k), e>>
    BY MappedPages
  <2>2. PICK d \in EntriesOf(ptes, k) : c = <<Address(k), d>>
    BY <2>1
  <2>3. PICK n \in PageNos : \E e \in EntriesOf(ptes, n) : m = <<Address(n), e>>
    BY MappedPages
  <2>4. PICK e \in EntriesOf(ptes, n) : m = <<Address(n), e>>
    BY <2>3
  <2>5. c[1] = Address(k) /\ c[2] = d /\ m[1] = Address(n) /\ m[2] = e
    BY <2>2, <2>4
  <2>6. k < n
    <3>1. k \in Int /\ n \in Int
      BY SizeAssumption DEF PageNos
    <3>2. Address(k) < Address(n)
      BY <1>2, <2>5
    <3> QED BY <3>1, <3>2, Addresses
  <2> QED BY <1>2, <2>5, <2>6
<1> QED BY <1>1, <1>2 DEF ValidMappings

-------------------------------------------------------------------------------
(* Theorems. *)

\* The types of the loader: every table is a frame that was taken from the free
\* list of the EPM, and no slot of a table has two entries.
THEOREM TypeCorrect == Spec => []TypeOK
<1>1. TreeInv => TypeOK
  BY DEF TreeInv
<1>2. QED
  BY <1>1, AlwaysTree, PTL

\* allocPage() and the page table walk, taking frames from one free list in
\* turn, never map a frame twice: the at-most-once rule of hash_util.h.
THEOREM MapsAtMostOnce == Spec => []AtMostOnce
<1>1. TreeInv => AtMostOnce
  BY DEF TreeInv, Tree, Placed, AtMostOnce, TypeOK
<1>2. QED
  BY <1>1, AlwaysTree, PTL

\* No page the enclave can write is one of its own page tables.
THEOREM TablesOutOfReach == Spec => []PagesAreNotTables
<1>1. TreeInv => PagesAreNotTables
  <2> SUFFICES ASSUME TreeInv, NEW e \in ptes, NEW d \in ptes,
                      e.mode # "table", d.tab = e.to
               PROVE  FALSE
    BY DEF PagesAreNotTables
  <2>1. Tree(ptes, free, utmFree) /\ free \in Nat \ {0} /\ utmFree \in Int
    BY DEF TreeInv, TypeOK
  <2>2. d.tab # 0
    BY <2>1 DEF Tree, Placed
  <2>3. PICK c \in ptes : c.to = d.tab /\ c.mode = "table"
    BY <2>1, <2>2 DEF Tree
  <2>4. c = e
    BY <2>1, <2>3 DEF Tree, Placed
  <2>5. QED
    BY <2>3, <2>4
<1>2. QED
  BY <1>1, AlwaysTree, PTL

\* loadUntrusted() maps the untrusted region onto the host's buffer in order,
\* whatever the segments and the tables took from the free list before it.
THEOREM UntrustedMapped ==
  ASSUME PlainLayouts
  PROVE  Spec => []UntrustedInOrder
<1>1. LoadInv => UntrustedInOrder
  <2> SUFFICES ASSUME LoadInv, pc = "done",
                      NEW k \in 0 .. layout.untrustedSize - 1
               PROVE  Frames(layout.untrusted + k) =
                        {-1 - (PageNo(layout.untrusted + k)
                                 - PageNo(layout.untrusted))}
    BY DEF UntrustedInOrder, PageNo
  <2>1. TypeOK
    BY DEF LoadInv, TreeInv
  <2>2. PICK u, size : u = layout.untrusted /\ size = layout.untrustedSize
    OBVIOUS
  <2>3. u \in Int /\ size \in Int /\ k \in Int
    BY <2>1, <2>2, LayoutTypes
  <2>4. PICK a : a = u + k
    OBVIOUS
  <2>5. a \in Int /\ u <= a /\ a < u + size
    BY <2>2, <2>3, <2>4
  <2>6. PICK n : n = PageNo(a)
    OBVIOUS
  <2>7. n \in Int /\ PageNo(u) \in Int /\ Address(n) \in Int
    BY <2>3, <2>5, <2>6, PageOfAddress, Addresses
  <2>8. PageNo(u) <= n
    <3>1. PageNo(u) <= PageNo(u)
      BY <2>7
    <3>2. Address(PageNo(u)) <= u /\ Address(PageNo(u)) \in Int
      BY <2>3, <2>7, <3>1, PagesBelow, Addresses
    <3>3. Address(PageNo(u)) <= a
      BY <2>3, <2>5, <3>2
    <3> QED BY <2>5, <2>6, <2>7, <3>3, PagesBelow
  <2>9. Address(n) < PageUp(u + size)
    <3>1. Address(n) <= a
      <4>1. n <= PageNo(a)
        BY <2>6, <2>7
      <4> QED BY <2>5, <2>7, <4>1, PagesBelow
    <3>2. u + size \in Int
      BY <2>3
    <3>3. u + size <= PageUp(u + size) /\ PageUp(u + size) \in Int
      BY <3>2, Rounding, RoundingType
    <3> QED BY <2>5, <2>7, <3>1, <3>2, <3>3
  <2>10. UntrustedReached(n)
    BY <2>2, <2>7, <2>8, <2>9 DEF UntrustedReached, UntrustedPages
  <2>11. PageIs(ptes, PageNo(a), -1 - (n - PageNo(u)))
    BY <2>2, <2>6, <2>7, <2>10 DEF LoadInv, UntrustedRight
  <2>12. Frames(a) = {-1 - (n - PageNo(u))}
    BY <2>5, <2>11, FramesOfPage
  <2> QED BY <2>2, <2>4, <2>6, <2>12
<1> QED BY <1>1, AlwaysLoad, PTL

\* In a layout whose segments, stack and untrusted region share no page, every
\* byte of every segment that loadELF() copies is at its address when init() is
\* over, and every byte of .bss is zero.
THEOREM SegmentsInPlace ==
  ASSUME PlainLayouts
  PROVE  Spec => []SegmentsLoaded
<1>1. LoadInv => SegmentsLoaded
  <2> SUFFICES ASSUME LoadInv, pc = "done",
                      NEW f \in File, NEW i \in 1 .. Len(Segs(f)),
                      NEW s, s = Segs(f)[i], s.load,
                      NEW a \in s.vaddr .. s.vaddr + s.memsz - 1
               PROVE  Byte(a) = {IF a < s.vaddr + s.filesz
                                 THEN Source(f, s, a) ELSE Zero}
    BY DEF SegmentsLoaded
  <2>1. TypeOK
    BY DEF LoadInv, TreeInv
  <2>2. PICK v, size : v = s.vaddr /\ size = s.memsz
    OBVIOUS
  <2>3. v \in Int /\ size \in Int /\ i \in Nat
    BY <2>1, <2>2, LayoutTypes DEF Segment
  <2>4. a \in Int /\ v <= a /\ a < v + size
    BY <2>2, <2>3
  <2>5. PICK n : n = PageNo(a)
    OBVIOUS
  <2>6. n \in Int /\ PageNo(v) \in Int /\ Address(n) \in Int
    BY <2>3, <2>4, <2>5, PageOfAddress, Addresses
  <2>7. PageNo(v) <= n
    <3>1. PageNo(v) <= PageNo(v)
      BY <2>6
    <3>2. Address(PageNo(v)) <= v /\ Address(PageNo(v)) \in Int
      BY <2>3, <2>6, <3>1, PagesBelow, Addresses
    <3>3. Address(PageNo(v)) <= a
      BY <2>3, <2>4, <3>2
    <3> QED BY <2>4, <2>5, <2>6, <3>3, PagesBelow
  <2>8. Address(n) < v + size
    <3>1. n <= PageNo(a)
      BY <2>5, <2>6
    <3>2. Address(n) <= a
      BY <2>4, <2>6, <3>1, PagesBelow
    <3> QED BY <2>3, <2>4, <2>6, <3>2
  <2>9. n \in SegmentPages(Segs(f)[i])
    BY <2>2, <2>6, <2>7, <2>8 DEF SegmentPages
  <2>10. Reached(f, i, n)
    BY <2>9 DEF Reached, Past
  <2>11. PICK b : PageHolds(ptes, memory, n, b) /\ RightBytes(f, s, n, b)
    BY <2>3, <2>6, <2>10 DEF LoadInv, SegmentsRight
  <2>12. Byte(a) = {b[Within(a)]}
    BY <2>4, <2>5, <2>11, ByteOfPage
  <2>13. Within(a) \in 0 .. PageBytes - 1 /\ Address(n) + Within(a) = a
    BY <2>4, <2>5, PageOfAddress
  <2>14. b[Within(a)] = IF a < s.vaddr + s.filesz
                        THEN Source(f, s, a) ELSE Zero
    BY <2>2, <2>4, <2>11, <2>13 DEF RightBytes
  <2> QED BY <2>12, <2>14
<1> QED BY <1>1, AlwaysLoad, PTL

\* An enclave whose files are laid out in order and whose tables and stack fit
\* in its free memory is accepted: the regions that init() names when it
\* finalizes the enclave pass validate_and_hash_epm(), whatever the layout.
THEOREM RegionsAccepted ==
  ASSUME PlainLayouts, OrderedLayouts, WithinBudgets
  PROVE  Spec => []RegionsValidate
<1>1. ASSUME LoadInv, RegionInv, BudgetInv
      PROVE  RegionsValidate
  <2> SUFFICES ASSUME pc = "done"
               PROVE  ValidMappings(start["runtime"], start["eapp"], free)
    BY DEF RegionsValidate
  <2>1. PICK r, u : r = start["runtime"] /\ u = start["eapp"]
    OBVIOUS
  <2>2. r \in Nat /\ u \in Nat /\ free \in Nat \ {0} /\ TypeOK
    BY <1>1, <2>1 DEF LoadInv, TreeInv, TypeOK, File
  <2>3. ASSUME NEW e \in ptes
        PROVE  e.to < MinPages
    <3>1. Placed(ptes, free, utmFree)
      BY <1>1 DEF LoadInv, TreeInv, Tree
    <3>2. e.to \in Int /\ (e.to < 0 \/ e.to < free)
      BY <3>1 DEF Placed
    <3>3. free <= MinPages /\ MinPages \in Int
      BY <1>1, WithinMemory
    <3> QED BY ONLY <2>2, <3>2, <3>3
  <2>4. \A n \in PageNos : \A e \in EntriesOf(ptes, n) :
          e.to \in Int /\ Accepted(n, e)
    BY <1>1, AcceptsPage, MappedFrames
  <2>5. \A frame : InUtm(frame) => frame < 0
    BY DEF InUtm
  <2>6. ASSUME NEW n \in PageNos, NEW e \in EntriesOf(ptes, n)
        PROVE  /\ \/ r <= e.to /\ e.to < u
                  \/ u <= e.to /\ e.to < free
                  \/ InUtm(e.to)
               /\ u <= e.to /\ e.to < free =>
                    e.mode \in {"USER_FULL", "USER_NOEXEC"}
               /\ InUntrusted(Address(n)) => InUtm(e.to)
    <3>1. e.to \in Int /\ Accepted(n, e)
      BY <2>4
    <3>2. /\ \/ r <= e.to /\ e.to < u
             \/ u <= e.to /\ e.to < free
             \/ InUtm(e.to)
          /\ u <= e.to /\ e.to < free =>
               e.mode \in {"USER_FULL", "USER_NOEXEC"}
      BY <2>1, <2>2, <2>5, <3>1 DEF Accepted
    <3>3. ASSUME InUntrusted(Address(n))
          PROVE  InUtm(e.to)
      <4>1. n \in Int
        BY SizeAssumption DEF PageNos
      <4>2. UntrustedReached(n)
        BY <2>2, <3>3, <4>1, UntrustedAddresses DEF UntrustedReached
      <4> QED BY <1>1, <4>1, <4>2, UntrustedFrames
    <3> QED BY <3>2, <3>3
  <2>7. ASSUME NEW k \in PageNos, NEW n \in PageNos, k < n,
               NEW d \in EntriesOf(ptes, k), NEW e \in EntriesOf(ptes, n),
               \/ /\ r <= d.to /\ d.to < u
                  /\ r <= e.to /\ e.to < u
               \/ /\ u <= d.to /\ d.to < free
                  /\ u <= e.to /\ e.to < free
        PROVE  d.to < e.to
    <3>1. /\ d.to \in Int /\ Accepted(k, d)
          /\ e.to \in Int /\ Accepted(n, e)
      BY <2>4
    <3>2. \/ RegionReached("runtime", k) /\ RegionReached("runtime", n)
          \/ RegionReached("eapp", k) /\ RegionReached("eapp", n)
      BY <2>1, <2>2, <2>5, <2>7, <3>1 DEF Accepted
    <3> QED BY <1>1, <2>7, <3>2 DEF RegionInv, Ascends, File
  <2>8. ValidMappings(r, u, free)
    BY <2>3, <2>6, <2>7, ValidPages
  <2> QED BY <2>1, <2>8
<1> QED BY <1>1, AlwaysLoad, AlwaysRegions, AlwaysBudget, PTL
================================================================================
