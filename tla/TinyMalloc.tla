------------------------------ MODULE TinyMalloc ------------------------------
(***************************************************************************)
(* The heap of enclave applications, lib/app/src/tiny-malloc.c, built with *)
(* MALLOC_DIRECTION > 0.                                                   *)
(*                                                                         *)
(* Memory is byte addressed, W bytes to a word, and size_t wraps at        *)
(* WordSpan.  A block is a header of one word, its size, and behind it the *)
(* chunk the client gets; in a free block the next word is the link.  The  *)
(* free list is the sequence of the blocks the links lead through, and     *)
(* sizes holds the headers of the blocks of the heap.  What the client     *)
(* stored in its chunks is kept byte by byte, and a header, a link or a    *)
(* copy that is written over it destroys it.                               *)
(*                                                                         *)
(* The program break is the runtime's: s_brk(0) reads it, s_brk(n) moves   *)
(* it by n bytes.  It starts at the end of the zone the linker script      *)
(* leaves behind __malloc_start (examples/tests/app.lds).                  *)
(***************************************************************************)
EXTENDS Integers, FiniteSets, SequencesExt

CONSTANTS
  Chunk,         \* what the client keeps in memory, one chunk each
  W,             \* sizeof(size_t), which is sizeof(void*)
  WordSpan,      \* size_t wraps here
  Start,         \* &__malloc_start
  Zone,          \* bytes between __malloc_start and the first break
  BrkLimit,      \* the runtime refuses a break above it
  Gap,           \* MALLOC_MINIMUM_GAP
  Frames,        \* the stack frames allocator calls may have
  Sizes,         \* the sizes clients ask for
  Quantities,    \* the numbers of elements they ask calloc for
  Alignments,    \* the alignments they ask memalign for
  PageSize,      \* the 128 of valloc and pvalloc
  AlignFirst,    \* memalign may be called before any malloc
  StackMayReach  \* the stack may come within Gap of the heap

ASSUME WordAssumption ==
  W \in Nat \ {0} /\ WordSpan \in Nat \ {0} /\ WordSpan % W = 0
ASSUME HeapAssumption ==
  /\ Start \in Nat \ {0} /\ Start % W = 0 /\ Zone \in Nat /\ Zone >= W
  /\ BrkLimit \in Nat /\ Gap \in Nat /\ Gap >= W
  /\ Frames \subseteq 0..(WordSpan - 1)
ASSUME ClientAssumption == AlignFirst \in BOOLEAN /\ StackMayReach \in BOOLEAN

Null == 0
Entry == 2 * W                       \* sizeof(struct freelist_entry)
Add(a, b) == (a + b) % WordSpan
Sub(a, b) == (a - b) % WordSpan

VARIABLES
  freelist,  \* the blocks on __malloc_freelist, in its order
  sizes,     \* the size in the header of each block
  end,       \* __malloc_end
  brk,       \* runtime: the program break
  data,      \* client: the bytes stored, by address
  ptr,       \* client: the address of each chunk
  req,       \* client: the size it asked for
  align,     \* client: the alignment it asked for
  frame,     \* the stack frame of the last allocator call
  unbacked,  \* the allocator wrote outside Start..(brk - 1)
  stretched  \* memalign moved __malloc_end

vars == <<freelist, sizes, end, brk, data, ptr, req, align, frame, unbacked,
          stretched>>

\* What a call of the allocator works on; calls that call each other pass it.
Memory == [free |-> freelist, size |-> sizes, end |-> end, brk |-> brk,
           data |-> data, bad |-> unbacked]

-------------------------------------------------------------------------------
(* The macros and the writes to memory. *)

\* Bytes to add to x to align it; a is a power of two.
MAlign(x, a) == (-x) % a

\* Mutant: sizes are not rounded up to words.
RealSize_Unaligned(sz) == IF sz < Entry - W THEN Entry ELSE sz + W

RealSize(sz) ==
  IF sz < Entry - W THEN Entry ELSE (sz + W + MAlign(sz, W)) % WordSpan

\* Mutant: the gap is forgotten.
CanAlloc_NoGap(m, f, required) == Sub(f, m.end) >= required

CanAlloc(m, f, required) == Sub(f, m.end + Gap) >= required

\* n bytes at a are overwritten by the allocator.
Poke(m, a, n) == LET hit == a..(a + n - 1) IN
  [m EXCEPT !.data = [x \in DOMAIN @ \ hit |-> @[x]],
            !.bad = @ \/ a < Start \/ a + n > m.brk]

SetSize(m, b, s) ==
  [Poke(m, b, W) EXCEPT
     !.size = [x \in DOMAIN @ \union {b} |-> IF x = b THEN s ELSE @[x]]]

SetNext(m, b) == Poke(m, b + W, W)

\* The headers of blocks that are merged away are forgotten.
Forget(m, b) == [m EXCEPT !.size = [x \in DOMAIN @ \ {b} |-> @[x]]]

\* s_brk moves the break up to the end of the block, or refuses; the answer is
\* not looked at, and the block is handed out in either case.
CheckRange(m, addr, sz) == LET to == Add(addr, sz) IN
  [m EXCEPT !.brk = IF to > @ /\ to <= BrkLimit THEN to ELSE @]

Answer(p, m) == [ptr |-> p, mem |-> m]

-------------------------------------------------------------------------------
(* malloc *)

\* The rest of a block, from real bytes on, takes its place at i in the list.
Split(m, i, real) == LET b == m.free[i] IN
  SetNext(SetSize([m EXCEPT !.free[i] = b + real],
                  b + real, m.size[b] - real), b + real)

\* The first block that is large enough: all of it when the rest could not
\* hold an entry, else its first part.
TakeFree(m, i, real) == LET b == m.free[i] IN
  IF m.size[b] < Add(real, Entry)
  THEN [m EXCEPT !.free = RemoveAt(@, i)]
  ELSE SetSize(Split(m, i, real), b, real)

LastIsAtEnd(m) ==
  m.free # <<>> /\ LET b == Last(m.free) IN b + m.size[b] = m.end

Malloc(m0, sz, f) ==
  LET m == [m0 EXCEPT !.end = IF @ = Null THEN Start ELSE @]
      real == RealSize(sz)
      fits == {i \in DOMAIN m.free : m.size[m.free[i]] >= real}
      Done(b, m1) == Answer(b + W, CheckRange(m1, b + W, real))
  IN IF fits # {} THEN
       LET i == Min(fits) IN Done(m.free[i], TakeFree(m, i, real))
     ELSE LET atEnd == LastIsAtEnd(m)
              b == IF atEnd THEN Last(m.free) ELSE m.end
              more == IF atEnd THEN Sub(real, m.size[b]) ELSE real
          IN IF ~CanAlloc(m, f, more) THEN Answer(Null, m)
             ELSE Done(b, SetSize(
                    [m EXCEPT !.free = IF atEnd THEN Front(@) ELSE @,
                              !.end = b + real], b, real))

-------------------------------------------------------------------------------
(* free *)

\* Mutant: a block that joins its two neighbours is merged with one only.
MergeBefore_One(m, i, b) == LET t == m.free[i] IN
  Forget(SetSize(m, t, m.size[t] + m.size[b]), b)

\* The block in front, at i, takes in b, and the block behind b if that is
\* free as well.
MergeBefore(m, i, b) ==
  LET t == m.free[i]
      m1 == Forget(SetSize(m, t, m.size[t] + m.size[b]), b)
      n == IF i < Len(m.free) THEN m.free[i + 1] ELSE Null
  IN IF n = b + m.size[b]
     THEN Forget([SetSize(m1, t, m1.size[t] + m.size[n]) EXCEPT
                    !.free = RemoveAt(@, i + 1)], n)
     ELSE m1

\* b takes in the block behind it, which is at i.
MergeBehind(m, i, b) == LET t == m.free[i] IN
  SetNext(Forget(SetSize([m EXCEPT !.free[i] = b], b, m.size[b] + m.size[t]),
                 t), b)

Free(m, p) ==
  LET b == p - W
      stop == {i \in DOMAIN m.free : LET t == m.free[i] IN
                 \/ t + m.size[t] = b
                 \/ t > b}
  IN IF p = Null THEN m
     ELSE IF stop = {} THEN SetNext([m EXCEPT !.free = Append(@, b)], b)
     ELSE LET i == Min(stop) t == m.free[i] IN
       IF t + m.size[t] = b THEN MergeBefore(m, i, b)
       ELSE IF t = b + m.size[b] THEN MergeBehind(m, i, b)
       ELSE SetNext([m EXCEPT !.free = InsertAt(@, i, b)], b)

-------------------------------------------------------------------------------
(* realloc, calloc and memalign *)

\* memcpy of n bytes.
Copy(m, to, from, n) ==
  LET m1 == Poke(m, to, n)
      moved == {to + i : i \in {j \in 0..(n - 1) : from + j \in DOMAIN m.data}}
  IN [m1 EXCEPT !.data = [x \in DOMAIN @ \union moved |->
        IF x \in moved THEN m.data[x - to + from] ELSE @[x]]]

\* Mutant: the chunk is moved without its bytes.
Realloc_NoCopy(m, p, sz, f) ==
  IF m.size[p - W] < RealSize(sz)
  THEN LET new == Malloc(m, sz, f) IN
       IF new.ptr = Null THEN new ELSE Answer(new.ptr, Free(new.mem, p))
  ELSE Answer(p, m)

\* Mutant: what is cut off a chunk starts where the client's bytes end.
Realloc_CutsEarly(m, p, sz, f) ==
  LET b == p - W  real == RealSize(sz)  old == m.size[b] IN
  IF old < real THEN Realloc_NoCopy(m, p, sz, f)
  ELSE IF old - real >= Entry
  THEN Answer(p, Free(SetSize(SetSize(m, b, real), b + W + sz,
                              old - real), b + sz + 2 * W))
  ELSE Answer(p, m)

Realloc(m, p, sz, f) ==
  LET b == p - W  real == RealSize(sz)  old == m.size[b]
      Lesser == Min({old - W, sz})
  IN IF p = Null THEN Malloc(m, sz, f)
     ELSE IF old < real
     THEN LET new == Malloc(m, sz, f) IN
          IF new.ptr = Null THEN new
          ELSE Answer(new.ptr, Free(Copy(new.mem, new.ptr, p, Lesser), p))
     ELSE IF old - real >= Entry
     THEN LET m1 == SetSize(SetSize(m, b, real), b + real, old - real) IN
          Answer(p, Free(m1, b + real + W))
     ELSE Answer(p, m)

Calloc(m, n, size, f) ==
  LET sz == (n * size) % WordSpan  new == Malloc(m, sz, f) IN
  IF new.ptr = Null THEN new ELSE Answer(new.ptr, Poke(new.mem, new.ptr, sz))

PowerOfTwo(a) == \E k \in 0..a : a = 2^k

\* What has to stay in front of b to align its chunk.
Before(b, a) ==
  IF MAlign(b + W, a) = 0 THEN 0 ELSE Entry + MAlign(b + Entry + W, a)

\* The block at i, large enough, is cut to an aligned chunk.
TakeAligned(m, i, real, a) ==
  LET b == m.free[i]  old == m.size[b]  front == Before(b, a)
      new == b + front
  IN IF front = 0 THEN
       IF old <= real + Entry
       THEN Answer(b + W, [m EXCEPT !.free = RemoveAt(@, i)])
       ELSE Answer(b + W, SetSize(Split(m, i, real), b, real))
     ELSE LET m1 == SetSize(m, b, front) IN
       IF old - front <= real + Entry
       THEN Answer(new + W, SetSize(m1, new, old - front))
       ELSE LET rest == new + real
                m2 == SetSize([m1 EXCEPT !.free = InsertAt(@, i + 1, rest)],
                              rest, old - front - real)
            IN Answer(new + W, SetSize(SetNext(m2, rest), new, real))

Memalign(m, a, sz, f) ==
  LET real == RealSize(sz)
      fits == {i \in DOMAIN m.free :
                 m.size[m.free[i]] >= real + Before(m.free[i], a)}
      \* a new last block, which the next round may have to enlarge
      first == real + MAlign(m.end + W, a)
      m1 == IF LastIsAtEnd(m) THEN m
            ELSE SetNext(SetSize([m EXCEPT !.free = Append(@, m.end),
                                           !.end = @ + first], m.end, first),
                         m.end)
      last == Last(m1.free)
      need == Before(last, a) + real
  IN IF ~PowerOfTwo(a) THEN Answer(Null, m)
     ELSE IF fits # {} THEN TakeAligned(m, Min(fits), real, a)
     ELSE IF ~LastIsAtEnd(m) /\ ~CanAlloc(m, f, first) THEN Answer(Null, m)
     ELSE IF m1.size[last] >= need
     THEN TakeAligned(m1, Len(m1.free), real, a)
     ELSE IF ~CanAlloc(m1, f, need - m1.size[last]) THEN Answer(Null, m1)
     ELSE TakeAligned(SetSize([m1 EXCEPT !.end = last + need], last, need),
                      Len(m1.free), real, a)

\* mallinfo() walks the free list.
Mallinfo ==
  LET sum[n \in 0..Len(freelist)] ==
        IF n = 0 THEN 0 ELSE sum[n - 1] + sizes[freelist[n]]
      free == sum[Len(freelist)]
  IN
  [arena |-> end - Start, fordblks |-> free, uordblks |-> end - Start - free,
   ordblks |-> Len(freelist),
   keepcost |-> IF LastIsAtEnd(Memory) THEN sizes[Last(freelist)] ELSE 0]

MallocUsableSize(p) == sizes[p - W] - W

-------------------------------------------------------------------------------
(* The client: it fills what it is given, and reads it back. *)

Init ==
  /\ freelist = <<>>
  /\ sizes = [b \in {} |-> 0]
  /\ end = Null
  /\ brk = Start + Zone
  /\ data = [a \in {} |-> 0]
  /\ ptr = [c \in Chunk |-> Null]
  /\ req = [c \in Chunk |-> 0]
  /\ align = [c \in Chunk |-> 1]
  /\ frame \in Frames
  /\ unbacked = FALSE
  /\ stretched = FALSE

\* A call from a stack frame; heap and stack apart unless StackMayReach.
CallFrom(f) ==
  /\ frame' = f
  /\ StackMayReach \/ end + Gap <= f

Store(m) ==
  /\ freelist' = m.free
  /\ sizes' = m.size
  /\ end' = m.end
  /\ brk' = m.brk
  /\ unbacked' = m.bad

\* c now has n bytes at p, of which the client has yet to write those from k
\* on; what it no longer asks for is given up.
Own(c, p, n, a, k, m) ==
  LET lost == {x \in DOMAIN m.data : m.data[x][1] = c} \ (p..(p + n - 1))
      mine == (p + k)..(p + n - 1)
  IN /\ ptr' = [ptr EXCEPT ![c] = p]
     /\ req' = [req EXCEPT ![c] = n]
     /\ align' = [align EXCEPT ![c] = a]
     /\ data' = [x \in (DOMAIN m.data \ lost) \union mine |->
                   IF x \in mine THEN <<c, x - p>> ELSE m.data[x]]

\* The client's side of an allocation of n bytes that answered r.
Given(c, r, n, a) ==
  /\ Store(r.mem)
  /\ IF r.ptr = Null
     THEN data' = r.mem.data /\ UNCHANGED <<ptr, req, align>>
     ELSE Own(c, r.ptr, n, a, 0, r.mem)

DoMalloc(c) == \E n \in Sizes, f \in Frames :
  /\ ptr[c] = Null
  /\ CallFrom(f)
  /\ Given(c, Malloc(Memory, n, f), n, 1)
  /\ UNCHANGED stretched

DoCalloc(c) == \E q \in Quantities, n \in Sizes, f \in Frames :
  /\ ptr[c] = Null
  /\ CallFrom(f)
  /\ Given(c, Calloc(Memory, q, n, f), q * n, 1)
  /\ UNCHANGED stretched

DoRealloc(c) == \E n \in Sizes, f \in Frames :
  LET r == Realloc(Memory, ptr[c], n, f) IN
  /\ ptr[c] # Null
  /\ CallFrom(f)
  /\ Store(r.mem)
  /\ IF r.ptr = Null
     THEN data' = r.mem.data /\ UNCHANGED <<ptr, req, align>>
     ELSE Own(c, r.ptr, n, 1, Min({n, req[c]}), r.mem)
  /\ UNCHANGED stretched

\* free and cfree
DoFree(c) ==
  /\ ptr[c] # Null
  /\ LET m == Free(Memory, ptr[c]) IN Store(m) /\ Own(c, Null, 0, 1, 0, m)
  /\ UNCHANGED <<frame, stretched>>

Align(c, a, n, asked) == \E f \in Frames :
  LET r == Memalign(Memory, a, asked, f) IN
  /\ ptr[c] = Null
  /\ AlignFirst \/ end # Null
  /\ CallFrom(f)
  /\ Given(c, r, n, a)
  /\ stretched' = (stretched \/ r.mem.end # end)

DoMemalign(c) == \E a \in Alignments, n \in Sizes : Align(c, a, n, n)

DoValloc(c) == \E n \in Sizes : Align(c, PageSize, n, n)

DoPvalloc(c) == \E n \in Sizes :
  Align(c, PageSize, n, n + MAlign(n, PageSize))

Next == \E c \in Chunk :
  \/ DoMalloc(c) \/ DoCalloc(c) \/ DoRealloc(c) \/ DoFree(c)
  \/ DoMemalign(c) \/ DoValloc(c) \/ DoPvalloc(c)

Spec == Init /\ [][Next]_vars

-------------------------------------------------------------------------------
(* Properties. *)

LiveBlocks == {ptr[c] - W : c \in {d \in Chunk : ptr[d] # Null}}
FreeBlocks == Range(freelist)
BlockAt(b) == b..(b + sizes[b] - 1)

\* The blocks on the free list and those of the client tile the heap from
\* __malloc_start to __malloc_end.
NoByteLost ==
  /\ FreeBlocks \union LiveBlocks = DOMAIN sizes
  /\ \A b \in DOMAIN sizes :
       /\ b = Start \/ \E a \in DOMAIN sizes : a + sizes[a] = b
       /\ \A a \in DOMAIN sizes : a < b => a + sizes[a] <= b
       /\ b + sizes[b] <= end
  /\ end \notin {Null, Start} =>
       \E b \in DOMAIN sizes : b + sizes[b] = end
  /\ FreeBlocks \intersect LiveBlocks = {}

\* Splitting, merging, aligning and growing neither lose a byte of the heap
\* nor give one to two blocks, and mallinfo() adds up.
BlocksTile ==
  /\ NoByteLost
  /\ end # Null => LET info == Mallinfo IN
       /\ info.uordblks = Cardinality(UNION {BlockAt(b) : b \in LiveBlocks})
       /\ info.keepcost <= info.fordblks

\* free() leaves the list sorted by address, with no two neighbours unmerged,
\* and every block on it can hold the entry that links it: what the walk of
\* free() and the split of malloc() rely on.
FreeListMerged ==
  /\ \A i \in 1..(Len(freelist) - 1) :
       freelist[i] + sizes[freelist[i]] < freelist[i + 1]
  /\ \A b \in DOMAIN sizes : sizes[b] >= Entry /\ sizes[b] % W = 0

\* What malloc, realloc and free write, and what they return, is memory s_brk
\* has granted; memalign moves __malloc_end without asking.
Backed ==
  /\ ~unbacked
  /\ \A c \in Chunk : ptr[c] # Null => ptr[c] + req[c] <= brk

\* A chunk has the bytes its client asked for, aligned as it asked, and
\* malloc_usable_size() never reports less; until memalign has grown the heap,
\* all of it is memory s_brk has granted.
ChunksAsAsked ==
  /\ ~stretched => Backed
  /\ \A c \in Chunk : ptr[c] # Null =>
       /\ req[c] <= MallocUsableSize(ptr[c])
       /\ ptr[c] % W = 0 /\ ptr[c] % align[c] = 0

\* CAN_ALLOC_P keeps the heap MALLOC_MINIMUM_GAP away from the frame of the
\* call that grew it (for a client that keeps its stack away from the heap).
GapKept == [][end' # end => end' + Gap <= frame']_vars

\* The client sees the abstract heap: nobody moves, shares or overwrites its
\* chunks, and realloc keeps what both sizes hold.
Abstract == INSTANCE Heap WITH
  place <- ptr,
  bytes <- [c \in Chunk |-> LET p == ptr[c] IN
              [i \in 0..(req[c] - 1) |->
                 IF p + i \in DOMAIN data THEN data[p + i] ELSE <<>>]]

ImplementsHeap == Abstract!Spec
===============================================================================
