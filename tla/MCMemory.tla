------------------------------ MODULE MCMemory ------------------------------
(***************************************************************************)
(* Instances of EnclaveMemory: an address space of 64 pages, with the eapp *)
(* at the bottom, the stack above it, the untrusted region and the runtime *)
(* at the top, as the defaults of params.h lay them out.                   *)
(***************************************************************************)
EXTENDS EnclaveMemory

Page(n) == n * PageBytes

Load(vaddr, filesz, memsz) ==
  [load |-> TRUE, vaddr |-> vaddr, offset |-> vaddr % PageBytes,
   filesz |-> filesz, memsz |-> memsz]
Note(vaddr, size) ==
  [load |-> FALSE, vaddr |-> vaddr, offset |-> 0, filesz |-> size,
   memsz |-> size]

WithEapp(segs, untrustedSize) ==
  [runtime |-> <<Load(Page(60), 5, 6), Load(Page(62) + 1, 4, 7)>>,
   eapp |-> segs,
   stack |-> Page(33) - 1,
   stackSize |-> Page(2),
   untrusted |-> Page(55),
   untrustedSize |-> untrustedSize,
   freemem |-> 0]

\* A text segment of one to three pages, whose tables run from one table into
\* the next; a header that is not loaded; and a data segment on one of the next
\* pages, from one of its first bytes, with or without .bss.
Texts == {Load(Page(3), n, n) : n \in {1, 4, 6, 9}}
Datas ==
  {Load(Page(p) + d, n, n + bss) :
     p \in 5 .. 6, d \in 0 .. 2, n \in {1, 4, 5}, bss \in {0, 4, 6}}

\* What ld gives an eapp: segments share no page, and a segment that starts
\* inside a page reaches the end of it with bytes of the file.
Pagewise(text, data) ==
  /\ text.vaddr + text.memsz <= PageDown(data.vaddr)
  /\ IsAligned(data.vaddr) \/ data.vaddr + data.filesz >= PageUp(data.vaddr)
PagewiseEapps ==
  {<<p[1], Note(Page(3), 1), p[2]>> :
     p \in {q \in Texts \X Datas : Pagewise(q[1], q[2])}}
PagewiseLayouts ==
  {WithEapp(segs, size) :
     segs \in PagewiseEapps, size \in {Page(1), Page(2)}}

\* A data segment whose few initialized bytes are followed by .bss in the page
\* it starts in the middle of.
SharedPageLayouts ==
  {WithEapp(<<Load(Page(3), 4, 4), Load(Page(4) + 1, n, n + 2)>>, Page(1)) :
     n \in {1, 2}}
================================================================================
