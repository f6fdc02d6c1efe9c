# A verification development for keystone-sdk

This directory holds TLA+ models of the Keystone SDK, the TLC configurations
that check them and proofs that TLAPS checks. Paths such as
`lib/host/src/keystone.cpp` are relative to the repository's sources.

## 1. The system

The SDK is what a program links to create and run enclaves, and what the code
inside an enclave links to talk to its host.

| Part | State | Operations |
|---|---|---|
| Host object, class `Keystone` (`lib/host/src/keystone.cpp`) | `eid`, `fd`, two `ELFFile` pointers, shared buffer, dispatch function, free lists | constructor, destructor, `registerOcallDispatch`, `init`, `run`, `destroy` |
| Memory builder (`keystone.cpp`, `include/page.h`) | page tables in enclave memory (EPM), `epm_free_list`, `utm_free_list` | `epm_alloc_vspace`, `allocPage`, `loadELF`, `initStack`, `loadUntrusted` |
| Measurement (`include/hash_util.h`) | two "highest frame seen" marks, the hash | `validate_and_hash_epm` |
| `ELFFile`, libelf (`elffile.cpp`, `elf*.cpp`) | descriptor, mapping, accepted class, bounds | constructor, `initialize`, destructor; `elf_newFile`, accessors of sections and segments, `elf_loadFile` |
| `Memory` (`memory.cpp`) | device file, physical base | `AllocMem`, `ReadMem`, `WriteMem` |
| Driver and security monitor (outside the repository) | the enclaves and their states | the ioctls CREATE, UTM_INIT, FINALIZE, RUN, RESUME, DESTROY, and `mmap` |
| Edge calls (`lib/edge`) | globals `_shared_start`, `_shared_len`, `edge_call_table`; the call record in the shared buffer | pointer checks, `setup_*`, `register_call`, `incoming_call_dispatch` |
| Enclave library (`lib/app`) | heap free list, block headers, `__malloc_end` | `ocall`, `malloc` family, string functions |
| Page stores (`examples/tests/edge_wrapper.cpp`) | maps and arrays of evicted pages, ORAM trees | one wrapper per ocall |
| Report verifier (`lib/verifier/report.cpp`) | `struct report_t` | `fromBytes`, `fromJson`, `stringfy`, `verify` |
| JSON library (`json11.cpp`) | a parser's index and error | `parse`, `parse_multi`, `dump`, equality |
| Signatures (`lib/verifier/ed25519`) | none | `ed25519_create_keypair`, `ed25519_sign`, `ed25519_verify`, and the field, scalar and group arithmetic below them |

How they interact. A host thread calls `init`: the object opens the device, asks
the driver for an enclave, builds page tables and contents through mappings of
the device, hands the untrusted region over, and finalizes. `run` issues RUN and
then loops on RESUME; when the enclave stopped in an edge call it calls the
registered dispatch function with the shared buffer first. The enclave side waits
in `ocall` until it is resumed. All objects of all processes share one driver,
which knows an enclave only by the `eid` of the request.

What is hard. Several objects interleave in the driver between any two ioctls;
every step of `init` may fail after the driver has allocated something; `eid` and
the pointers outlive what they name; the destructor, a failing `run`, a failing
`init` and the program may all destroy; tables and pages come from one free list
while a walk is in progress; the loader's page arithmetic has boundaries at page
ends, at the file size and at the top of the address space; one buffer carries
requests, replies and status of successive calls; the allocator cuts and joins
blocks in whatever order its client asks; the ELF and JSON parsers move through
input they have not checked yet; the signatures add limbs whose room for carries
is only in comments.

What makes each part correct:

- host object: it only works on enclaves it created, in the state it assumes;
  nothing is freed twice, nothing stays behind; success of `init` means a usable
  enclave, whose edge calls are answered exactly once;
- memory builder: no frame is used twice, no table is a page, every byte of the
  file is at its address, .bss is zero, the untrusted region follows the host's
  buffer, and the regions told to the driver satisfy the measurement's rules;
- edge calls: every pointer handed out lies in the buffer, the handler of a call
  is the one registered for it, status and reply belong to the call;
- heap: blocks tile the heap, the free list is sorted and merged, a chunk keeps
  its bytes until its owner gives them up, memory is used only below the break;
- ELF: nothing outside the file is read, nothing outside is handed out, the bounds
  hold every segment;
- JSON: the accepted texts are those of the grammar, and what was printed is read
  back; report: what verifies says what a device signed, however it arrived, and
  reading it stays in the struct;
- signatures: the arithmetic is exact for all limbs, no limb overflows, and
  `ed25519_verify` says yes exactly when the textbook's equation holds;
- page stores: a fetch returns what was stored under the address, in the array
  what was stored last, in the map what was stored first.

## 2. Plan

In order of importance:

1. `KeystoneHost`, with the abstract `OcallService` and its refinement, and
   `KeystoneHostProofs` (done);
2. `EnclaveMemory` and `EnclaveMemoryProofs` (done);
3. `EdgeCall`, with the abstract `EdgeService`, and `EdgeCallProofs`: the pointer
   checks with words that wrap, the table with its bound, plain and wrapped replies, `call_status`, system calls, the two page
   stores, and the refinement (done);
4. `TinyMalloc` with the abstract `Heap`, its refinement, and the proofs of both in
   `TinyMallocProofs` (done);
5. `ElfFile` and `ElfFileProofs`: the checks of a file and every accessor (done);
6. the verifier: `Json11` with the grammar beside it, `Report` checked on top of the
   library's own parser and printer, and `ReportProofs` for any (done);
7. the signatures: `Fe25519`, `Sc25519`, `Ge25519`, `FeBounds`, composed by
   `Ed25519`; the scalars in `Sc25519Proofs`, the field and the chains of powers in
   `Ed25519Proofs` (done);
8. the loader's result, `SegmentsLoaded` and `UntrustedInOrder`, for any layout whose
   regions share no page, and that the monitor's walk accepts it, `RegionsValidate`
   (done, in `EnclaveMemoryProofs`);
9. left: `KeystoneHost` composed with `EdgeCall`, two objects over the two globals
   they share; `NoOverflow` for every sequence of calls, with the sizes of limbs that
   the two proof modules now carry along.

## 3. KeystoneHost

One module, because the objects are only interesting together. Each member of
`Obj` is a `Keystone` object with a thread; `pc` is where its current method is.
A method is cut exactly at its ioctls, the points where other objects can tell.

| Code | Actions |
|---|---|
| constructor, destructor, `registerOcallDispatch`, `destroy` | `Construct`, `Destruct`, `RegisterOcallDispatch`, `DestroyCall` |
| `init` | `InitFiles`, `InitDevice`, `PrepareEnclave`, `LoadELF`, `UtmInit`, `Finalize`, `MapUntrusted`, `InitFailed` |
| `run` | `Run`, `EnclaveReturns`, `Dispatch`, `Resume`, `RunFailed` |

`Destroy(o, f)` is the body of `destroy()`, used by every caller; `f` is what the
file pointers hold when it is entered, since the destructor deletes the files
first and leaves them dangling. The two file pointers are always set and cleared
together and are one variable. A member the constructor does not set (`fd`, the
shared buffer, the dispatch function) starts as "unset" or "none", and a use of it
may crash. The driver variables are `enclave` (free, created, loaded, ready,
running, edgeCall, interrupted, exited), `owner` (who created the id last) and
`served` (dispatches of the current edge call). An ioctl either takes an enclave
from the state it requires to the next one or fails; it may fail at any time.

Parameters of the environment: `ReuseEids` (the driver hands out ids of
destroyed enclaves), `DestroyMayFail`, `MmapMayFail`. `MaxInits` bounds the calls of
`init` on each object; it is not code. `result` is what the last `init` or `run`
returned, and "none" while one is under way.

`OcallService` is what the code in an enclave may rely on: a call made while the
host has a dispatch function is answered exactly once before the enclave goes on;
without one it is dropped; losing the enclave ends it; the function only changes
while no enclave of the object runs. The mapping takes the phase of an enclave
from the driver's state alone.

## 4. EnclaveMemory

One `init()` call. Addresses count bytes, `PageBytes` to a page, three levels of
tables of `Fanout` entries. Frames of the EPM are numbered from the root table, 0,
upwards; frames of the untrusted memory from -1 downwards, so the two regions
never meet. `ptes` is the set of valid entries (table, index, target, mode),
`memory` what `WriteMem` put where: a byte of a file is the file and its offset.

`Descend` is one level of the walk including the table it takes from the free
list, `WalkCreate` the walk, `AllocPage` the whole of `allocPage()`, early return
for a mapped page included. Every iteration of a loop is a step: `VspacePage`,
`BeginMisaligned`, `FilePage`, `BssPage`, `StackPage`, `UntrustedPage`; the code
between the loops is `EndVspace`, `BeginSegment`, `EndSegment`, `EndFile`,
`EndStack`, `EndUntrusted`. The layouts `init` may be called with are the
constant `Layouts`; the assumption on them is what `initialize()` checks.

`ValidMappings` states what the recursive walk of `hash_util.h` accepts, as a
condition on the finished tables. `RegionsValidate` applies it to the regions
given to the driver, `SimulationValidates` to those of the simulated path.

`KeystoneHost` sees all of this as the one step `LoadELF`, and `loadUntrusted` as
part of `UtmInit`: both only touch memory of the object's own enclave.

## 5. EdgeCall

One host object after `init`, and the enclave it runs. The shared buffer is mapped
twice, at `host` and at `enclave`, each with a start and a length: the enclave's
may be longer, because the size is rounded up to pages for it and not for
`getSharedBufferSize()`. All words are below `WordMax + 1` and wrap (`Plus`,
`Minus`). `record` is the `edge_call_t` at the front; `mem` holds the objects
behind it, keyed by offset, and a write removes every object it touches. `table`
has `MaxEdgeCall` entries and, at `MaxEdgeCall`, the word behind them, which both
`register_call` and the dispatcher can reach.

| Code | Actions |
|---|---|
| `edge_init`, `register_call`, `edge_call_init_internals` | `EdgeInit` |
| `edge_call_setup_call` as `ocall` uses it | `Ocall` |
| `incoming_call_dispatch` | `Dispatch`, `BadCallId` |
| the check at the head of every wrapper | `BadOffset` |
| `print_value_wrapper` and `print_double_wrapper`; `print_buffer_wrapper`; `get_host_string_wrapper`; `full_trace` | `PrintValue`, `PrintBuffer`, `GetHostString`, `FullTrace` |
| `get_enclave_content_from_epm_wrapper`, `get_host_content_from_utm_wrapper` | `StorePage`, `FetchPage` |
| `store_content_to_utm_enc_pfh`, `get_host_content_from_utm_wrapper_enc_pfh` | `InsertPage`, `FindPage` |
| `incoming_syscall` | `IncomingSyscall` |
| `call_exit`, and a call or a read of what is not there | `Die` |
| reading the reply in the enclave (`edge_call_ret_ptr`, `copy_from_shared`) | `Outcome`, `Return` |

`IncomingSyscall` keeps the order of checks and of the writes to the record. Of the
calls it passes on, one that moves data stands for all that do: its `read` always
returns the length asked for. A short read or -1 would write the same places with other
contents, which the library passes on as they are.

A whole wrapper is one step: while it runs the enclave is stopped, and
`KeystoneHost` shows that it is dispatched once before the enclave is resumed.
The enclave's half is code of the runtime, outside the repository; it is
modelled as the use of the same functions over the enclave's mapping.

`EdgeService` is the contract: the host's function is applied once to the
arguments of the call, and the caller sees its result; arguments the host's side
of the buffer cannot hold are refused. The array `p_arr` returns what was stored
last, `pages_store` what was stored first (`std::map::insert`). Where the code
has no defined outcome the contract lists those the build can produce: bytes of
`malloc` for a page never stored, the end of the process for `end()` of the map
and for the word behind the table, an earlier status for `full_trace`. The
mapping takes the abstract answer from what the record and the buffer say when
the enclave is resumed.

Left out of the wrappers: the branches that only run with page tracing on, which
append to a file, and the failing `fopen` of `full_trace`, which leaves the status
alone just as its success does.

## 6. TinyMalloc and Heap

The allocator of enclave applications over byte addresses, `W` bytes to a word,
sizes that wrap at `WordSpan`. `freelist` is the list as the links lead through it,
`sizes` the header of every block, `end` is `__malloc_end`, `brk` the break the
runtime keeps. The operators `Malloc`, `Free`, `Realloc`, `Calloc`, `Memalign` are
the functions of `tiny-malloc.c`, each from memory to memory, so that a function
that calls another uses its operator; every header, link and copy is a write
(`Poke`), which destroys whatever bytes of the client lie there and notes a
write outside the granted memory. The client (`DoMalloc` and so on) fills what it
is given. `valloc` and `pvalloc` are `memalign` with a page, `cfree` is `free`.

`Heap` is the promise of the comment at the head of the file: a chunk has a place
of its own and its bytes change only by its owner. The refinement reads each
chunk's bytes out of the simulated memory, so a header written over a chunk is a
step that the abstract heap does not have.

Three constants say what is outside. `BrkLimit` is the highest break the runtime
grants: `CheckRange` moves `brk` only up to there, and like `check_range_and_call_sbrk`
does not look at what `s_brk` returned. `AlignFirst` lets the client call
`memalign` before any `malloc`; `StackMayReach` lets the stack come within
`MALLOC_MINIMUM_GAP` of the heap, where the unsigned difference of `CAN_ALLOC_P`
wraps. The last two are off in `heap`, and its runtime grants all there is. The variable `stretched` notes that `memalign` has
moved `__malloc_end`, since it never asks for memory: what lies above the break
from then on is the subject of `heap_memalign` and not of `ChunksAsAsked`.

`BlocksTile` has two parts. `NoByteLost` says that the blocks of the clients and of
the free list lie one behind the other from `__malloc_start` to `__malloc_end`;
the rest compares `mallinfo`, which walks the free list and subtracts, with the bytes
of the clients' blocks.

## 7. ElfFile

A file is a record of its size, header fields, table entries, and where its bytes
are NUL. Offsets in it are pointers less the address of the mapping; every
call of the library says which bytes it read (`reads`) and which bytes its result
lets the caller read (`given`). Sums of 32-bit fields wrap at `Span32`, those of
64-bit fields and of `size_t` at `Span64`. `Construct`, `Initialize`
and `Destruct` are `ELFFile`; the `Call...` actions are clients of the accessors,
which only exist once `elf_newFile` has accepted the file, as the header demands.
`LoadFile` is `elf_loadFile`: the bytes of each segment in the order of the program
headers. `elf` leaves out files where a section's name starts right behind the
string table (`NamesInTable`), for the reason in section 12.

## 8. Json11, JsonTexts and Report

`JsonValues` has the values of the library and its accessors, `Json11` the library
itself as operators over sequences of bytes. A parser is a record
with the text, the index, and whether it failed; `top` is the largest index, so that
moving beyond the end of the text can be seen. The functions are followed call by
call: `parse_json` is cut where it reads a token, because what is read next
depends on it. Numbers are decimal fractions `m * 10^e`.

`JsonGrammar` states the grammar of RFC 7159, with the library's depth limit and its
comments, as predicates on whole texts, without any index. `JsonTexts` writes
texts piece by piece, and prints values, and compares the two.

`Report` is `report.cpp` over the bytes of `struct report_t`. It leaves the printer
and the parser open, as the constants `JsonDump` and `JsonParse`, since what `verify` accepts
does not depend on them. `MCReport` takes those of `Json11`, so a damaged text is read
as the code reads it: the parser's error is ignored, missing members are empty, and
`HexByte` is what `std::stringstream` makes of two characters that need not be
digits. Member names are single letters, in the order of the real ones.

What arrives need not come from a device. `FromBytes` takes the buffer of a genuine
report or one of `OtherReports`, with whatever `data_len` it holds; `Damage` changes a
byte of a text or puts one of `OtherTexts` in its place. In `MCReport` these are reports
nobody signed, with a length beyond `ATTEST_DATA_MAXLEN`, or of one monitor with the
other's hash, their texts, and texts with members missing. `top` is the end of what `fromJson` wrote.

Verification is ideal in one respect only: a signature holds for a message and a key
when it was issued for them, or is one of the `OtherForms` of one that was.
`ed25519_verify` looks at three bits of the upper half (`verify.c:54`), so it also
accepts `S + L` in place of `S`, and `MCReport` offers that form. Hence
`VerifiesOnlyGenuine` is about what is signed (`Signed`) and not about the bytes of the
signatures. That no signature can be made without the key is assumed; section 9 checks
which equation `ed25519_verify` decides, and `VerifyExact` there has signatures that
satisfy it without coming from `ed25519_sign`.

## 9. Ed25519

`Fe25519`, `Sc25519` and `Ge25519` follow `fe.c`, `sc.c` and `ge.c` limb by limb and
call by call. TLC's integers have 32 bits, so the same algorithms run on smaller
parameters of the same shape: limbs of 3 and 2 bits in place of 26 and 25 and a
prime `2^25 - 3` in place of `2^255 - 19`; scalars of twelve limbs of 2 bits with
an order given by six signed digits; a curve over a prime of ten bits that is 5
modulo 8 like the real one, with a base point of prime order. `Fe25519` knows a width
only by the numbers that fit it: `Span` of a limb is `2^26` or `2^25` in the code, `Worth`
what its unit counts, `Cut` what the first bit of its bytes counts in `fe_frombytes`.
`Factor` is the 121666 of `fe_mul121666`; in the run it is 11, since the products of the
real one do not fit TLC's integers. The proofs then need no powers of two, and hold for any widths. The chains of
`fe_invert` and `fe_pow22523` are run as they are, on exponents.

The sizes of limbs are a matter of the real widths, and `FeBounds` keeps them:
a value is a bound `m * 2^e` on the magnitude of a limb, every formula of `ge.c` is
run on bounds with 26 and 25 bits, `int32_t` limbs and `int64_t` products. A formula
is a sequence of calls (`GeAdd`, `GeP2Dbl`, ...), so the very same definition is
run on numbers and on bounds. `StartFormula` assumes of its arguments what
formulas leave behind, and `NoOverflow` shows that they do.

`Ed25519` composes these: calls on elements and scalars, formulas, and sessions in
which a signer's signature, or one with some part changed, reaches `ed25519_verify`.
`Foreign` signatures solve the verification equation without coming from
`ed25519_sign`. The hash is external, a function of its input. `Stepwise` only
orders the evaluation of long folds.

## 10. Runs

| Run | Instance | Shows |
|---|---|---|
| `host` | 2 objects, 2 ids never reused, one object initialised up to twice, mmap may fail, fair threads | all properties of `KeystoneHost` but `InitMapsBuffer` |
| `host_stale_eid` | ids are reused, expected violation | `InStepWithDriver` fails: `destroy` keeps `eid` |
| `memory_load` | 64 pages of 4 bytes, 294 layouts | all properties of `EnclaveMemory` but the last |
| `memory_simulated` | the layouts of `memory_load`, expected violation | `SimulationValidates` fails |
| `edge_calls` | 10 table entries, 9 handlers, words of 5 bits, 2 pages, 2 versions | `TypeOK`, `StaysInBuffer`, `PointerChecksExact`, `ImplementsEdgeService` |
| `heap` | 3 chunks, 20 bytes of heap, words of 2 bytes, 2 sizes, 3 alignments, 2 stack frames | `BlocksTile`, `FreeListMerged`, `ChunksAsAsked`, `GapKept`, `ImplementsHeap` |
| `heap_memalign` | the instance of `heap`, `memalign` may come first, expected violation | `Backed` fails |
| `elf` | 20712 files of up to 12 bytes, spans 16 and 64 | `ReadsInFile`, `PointersInFile`, `AcceptsExactly`, `BoundsTight`, `LoadsImage` |
| `json` | seven families of texts of up to 5 pieces, some two dozen values, both strategies | `AcceptsGrammar`, `EscapesMeanTheirUnits`, `ReadsWhatWasBuilt`, `MultiStopsBehindLast` |
| `report` | 4 reports of 2 monitors, other buffers, and every text with one damaged byte or replaced by another | `VerifiesOnlyGenuine`, `ArrivesWhole` |
| `report_long` | the texts of `report`, genuine buffers only, expected violation | `StaysInStruct` fails: the text decides how much is copied |
| `ed25519` | the parameters of section 9, 3 seeds, 2 messages, changed keys, scalars and signatures | `ArithmeticExact`, `NoOverflow`, `SignedVerifies`, `VerifyExact` |

Bounds. Two objects are enough for every way one object can disturb another: the
driver's state is per id, and an id is shared by at most the object that held it
and the one that holds it. Two inits reach every state an object can be in
before an `init` (never initialised, initialised, destroyed, failed, run), and the
other object, initialised once, interleaves with all of them; two ids let each object
hold one or one of them hold both, and when they are used up the next CREATE fails. What
the proofs say holds for any number of either. The page-level instance
has tables of four entries so that segments run over the end of a table and the
untrusted region starts in one and ends in the next; pages of four bytes leave
room for a misaligned start, a partial last page and .bss in one page. Segment
sizes are just below, at and above a page. The layouts follow `params.h`: eapp low, stack in the
middle, untrusted region and runtime at the top. `TablePages` is the code's 15.

The edge instance has two buffers: one whose enclave mapping is longer than the
host's, so that arguments exist which only the enclave can reach, and one that
ends at the last address before the wrap. Lengths are a short one, one between
and the longest the enclave's mapping admits in the second buffer. Two versions of
two pages are what it takes to tell first from last and one page from the other.
`PointerChecksExact` compares the checks with the ranges they stand for at every
mapping, pointer and length of five bits. In `edge_calls` the longest wrapped
reply fits exactly.

The heap has room for the client's three chunks and not much more, so every
shape of the free list occurs around a block that is freed: nothing, a neighbour
in front, behind, on both sides, and one that is not adjacent. The first break is
inside the heap, so chunks have to ask for more. Alignments are a word or less, two words,
and one that is no power of two; the page of `valloc` is larger than any.

The files vary one part at a time: the header with the place and size of both
tables, so that a table ends inside, at and behind the end of the file and at the
wrap of either class; one section with its string table; two segments. The texts
of `json` are all sequences of a few pieces over the bytes that matter to one
routine each (numbers, strings, escapes with surrogates and separators,
structures, comments, what stands behind a value, words); depth is limited to 2.
The reports have lengths of data from none to all there is, the other buffers one length
that ends within the struct and one that does not, and bytes whose
hexadecimal forms begin and end in letters, digits and zeros. The elements given to
`ed25519` have each limb alone and all limbs at the largest a carry leaves,
and the scalars those on both sides of every carry; keys include the points whose
encodings are special: the neutral element, the point of order two, a y that is
no point, and a y above the prime.

`heap` uses the symmetry of its chunks; its properties besides invariants are of single
steps and treat chunks alike. No run with liveness uses symmetry. Deadlock is
not checked: a program may stop calling methods (bounded inits, destructed
objects), the loader ends, a text is complete, and a session ends with an answer.

`memory_load` restricts its layouts: segments share no page, and a segment that
starts inside a page reaches the end of that page with bytes of the file. Section 12
says what happens without the second condition; without the first, `allocPage` returns early and drops the second segment's bytes.

## 11. Fairness and proofs

### Fairness

`FairSpec` gives weak fairness to the steps a thread takes by itself once a
method has been called (`Thread(o)`): the operating system schedules the thread
and an ioctl returns. Neither the program (`Caller`) nor the enclave
(`EnclaveReturns`) has to do anything: an enclave may compute for ever. The loader
is sequential code, so `EnclaveMemory` has weak fairness on `Next`. `EdgeCall`
states safety only and assumes none: that a stopped enclave is resumed is
`EnclaveNotStranded` of `KeystoneHost`, which `host` checks under `FairSpec`. The allocator, the parsers and the signatures are
functions that return; their loops are operators, and no fairness is involved.

### Proofs

`KeystoneHostProofs`, for any sets of objects and ids:

- `TypeCorrect`, `StaysInStep`, `InitMakesReady`: assume only that the driver
  does not reuse ids. The run `host_stale_eid` shows that the assumption is needed.
- `DeletesOnce`: also that DESTROY fails only on an enclave it cannot destroy.
- `LeaksNothing`: under the same assumptions. The property itself speaks of objects
  initialised at most once; section 12 says why.
- `RefinesOcallService`: initial states map to initial states and every step to a
  step of the contract or a stutter.

The heart is `StepInv`: `InStepWithDriver` is not inductive, since another
object might hold the same id. It becomes so with `EidIsOwn` (the id an object
holds, stale or not, is one it created), `UnusedIsFree` (an id never handed out
names no enclave), `RealSteps` and `CallIsFresh`. The later theorems add to it
what each needs: where files can be non-NULL, which objects hold no enclave yet,
and that an object's only enclave is the one its `eid` names.

`EnclaveMemoryProofs`, for tables and pages of any size and any layouts that
satisfy the assumption: `TypeCorrect`, `MapsAtMostOnce`, `TablesOutOfReach`. Frames
being fresh is not enough for an inductive invariant, because the walk follows
whatever an entry points to; `Tree` adds the shape of the tables: every table
other than the root is pointed to by a table entry, and the entries of the root and
of its children are never pages. `WalkKeepsTree` shows that the walk keeps it and
ends in a last-level table, `NewPage` that a page entered there keeps it, and
`TreeInvStep` goes through the loops.

`SegmentsInPlace` and `UntrustedMapped` assume `PlainLayouts` as well: segments, stack
and untrusted region share no page and end below the top of the address space, no
segment has more bytes in the file than in memory, and the page a segment starts in
the middle of is full of the file or has no .bss behind it. The layouts of
`memory_load` satisfy it; section 12 says what happens without its last part, and
without the first `allocPage` keeps the page that is already there and what it holds.
`EntriesOf` reads the tables as a function of page numbers, which `PageIndices` and
`PageMapsOnce` justify: three indices make a page number, and an entry is reached by
its own indices alone. So an iteration of `allocPage` is `PageAdded`: one more page, in
a frame nothing was written to, and no other page touched. `LoadInv` says that the
pages the loops went over hold the right bytes (`SegmentsRight`) or frames
(`UntrustedRight`), and, so that no page is ever found mapped, that these are all
there are (`NothingElse`). Every step of `init` is then one of two kinds,
`SamePages` or `OnePage`.

`RegionsAccepted` is that what `init` builds is what `validate_and_hash_epm` accepts.
It needs an order and a count. The order is `OrderedLayouts`: the loaded segments of a
file come in the order of their addresses, as ELF demands of them, the stack is above
the eapp, and the untrusted region starts at a page; then the frames of a region go up
with its pages, since both are taken in the order of the program headers (`RegionInv`:
`RegionsRight` and `Ascends`). The count is `WithinBudgets`: the tables for all pages
between the bounds of each file, of the stack and of the untrusted region (`TablesFor`:
the root and, on both levels below it, one for every table's worth of addresses that
holds one of them) and the stack's pages are at most the pages of the free memory and
the `TablePages` that `calculate_required_pages` adds to the pages of the files. Nothing
counts them in the code. With real sizes, 512 entries to a table, 15 pages for tables and
32 pages of stack, four parts of less than 2 MB that each start a table's worth of
addresses take at most nine tables, and the 256 pages of the default free memory are
ample; an enclave with next to no free memory need not fit. The invariant `BudgetInv`
says that the frames taken so far, less the tables that were opened (`Spent`), are no
more than the pages the loops have gone over. `WalkTakes` shows that a walk takes a table
only for a page whose table's worth of addresses has none yet (`MoreTables`). All the
layouts of `memory_load` satisfy the three conditions, some with equality in the third.

`EdgeCallProofs`, for words of any size, any mappings and handlers that satisfy
the two assumptions: `ChecksAreExact`, `TypeCorrect`, and `AllStaysInBuffer`,
which also assumes `RepliesFit`; section 12 says what happens without it.
`StaysInBuffer` says nothing of where the record points, so it is not inductive:
`Inv` adds that the mappings are those of one buffer (`Mapped`), that the table
holds what was registered (`Registry`), that objects in the buffer are disjoint
and have sizes (`MemOK`), and that the record describes the arguments lying behind
it (`CallInBuffer`). The last two give `ArgsAreThose`: a wrapper that can reach
its arguments sees the ones of this call. `WrappedReply` and `PlainReply` say once
what a reply leaves in the buffer, `DispatchEffect` what any handler may change.

Its last part builds `RefinesEdgeService` on that, under the same assumptions:
the initial state is one of the service, and every step is a step of the service or
a stutter. `Inv` alone is not enough, since the service answers from the arguments
and the library from the bytes in the buffer. `ServeInv` adds what the id of a call
says of its function and arguments (`Asked`, `Meant`), that no reply is there before
the dispatch (`Empty`), and that the record of an answered call leads to the outcome
of that call (`Answered`). `PlainArrives` and `WrappedArrives` follow the two kinds of
reply from the handler to the enclave's read, `CallsAreMeant` the way in.

`ElfFileProofs`, for headers of any size, spans of any width and any files whose
fields are words of their class: `ReadsStayInFile`, `PointersStayInFile`,
`AcceptsThose`, `BoundsAreTight` and `LoadsTheImage`. The arithmetic of the first three is one fact,
`NoWrapBack`: a sum of two words that is not below the first has not wrapped, which
is how every check of the library is written. `TableFits` makes the table check exact with it, `Accepted` derives what
a file is like once `elf_newFile` took it, and the lemmas after it go through the
accessors in the order in which they call each other. The invariant says that an
`elf_t` that is set was accepted, that an object that is ready is mapped, and that
the last call stayed inside. The first two theorems assume that mmap succeeded
(the constructor compares with NULL, not MAP_FAILED) and `NamesInTable`; the third that
a 32-bit file has a size of 32 bits, beyond which the 32-bit sum rejects tables
that would fit. The fourth, `BoundsAreTight`, assumes nothing more: minima and maxima
of non-empty finite sets of numbers exist (`MaxIsGreatest`), rounding up moves an end
by less than a page (`RoundUpNear`), and `BoundsOfSegments` puts them together. The
fifth, `LoadsTheImage`, is about the loop of `elf_loadFile`, whose memory after each
number of segments `LoadFile` gives by recursion: such a function exists
(`LoadingExists`), one more segment is put in place and disturbs none of those before it
(`LoadsOne`), so all are there in the end (`LoadsAll`). The prover cannot instantiate
the library's induction theorems, whose parameter is an operator. Where a loop or a finite
set needs one, the proof goes through a least counterexample instead (`NatLeast`,
`MinIsLeast`, `GreatestExists`): a set of numbers is well founded, and a set is a
parameter the prover can take.

`TinyMallocProofs` has the arithmetic of words, the free list as a sequence and one
lemma per function of the library, then the invariant of the specification and its
six theorems:
`ListStaysMerged`, `HeapIsTiled` (that is `NoByteLost`), `BlocksTileTheHeap`,
`ChunksAreAsAsked`, `GapIsKept` and `RefinesHeap`. They hold for words, heaps, frames and clients of any
size under `KnownClient`: sizes, products and sizes rounded up to a page stay four
words below the wrap, an alignment that is a power of two divides the word or is
divided by it, `malloc` comes before `memalign`, and the stack stays a gap away
from the heap. `ChunksAreAsAsked` says that chunks are backed, so it also asks for a
runtime that grants every break below the wrap (`Granting`); the others do not. The
instance of `heap` satisfies all of it. Each condition is one the
code relies on without a check: `REAL_SIZE` and the product of `calloc` wrap, the
unsigned difference of `CAN_ALLOC_P` wraps, and `heap_memalign` shows what comes of
the one about `memalign`.

None of the six is inductive. `Good(m, L)` is what the functions need and restore:
the blocks tile the memory (`Tiles`), the list is ascending (`Ascending`), no two of
its blocks touch (`Apart`), and a block is either on the list or one of the clients'
(`L`). `MallocGives` shows that `malloc` hands out a block that is in nobody's hands
(`Gave`), `FreeGives` that `free` takes one back whichever neighbours it joins
(`TookBack`), and `CallocAllocates`, `ReallocMoves` and `MemalignAnswers` build on
these as the code does. Every lemma carries along that no byte of another client's
chunk was written (`Kept`, from `Spares`): headers and links go into blocks nobody
holds. `HeapInv` adds what the clients were promised (`Satisfied`) and, until
`memalign` has grown the heap, that the break is above it (`HasBreak`). The
refinement follows: chunks lie in different blocks (`ExtentsApart`), and what a
client reads is what it wrote (`ContentsAre`). For `BlocksTileTheHeap` the bytes are
counted: those that a set of blocks covers (`Covered`) are as many as the sizes say
(`CoveredSizes`), and disjoint blocks cover disjoint bytes (`CoveredApart`). So the sum
over the first `n` blocks of the list is the number of bytes they cover, or there is a
least `n` for which it is not, which one more block excludes (`FirstMore`, `SumsAre`).
What the free blocks leave of the heap is then the bytes of the clients' (`InfoIs`).

`ReportProofs` has two theorems, for fields and data of any size, any genuine reports
(with a length that fits and bytes that are bytes, `GenuineAssumption`), any other
buffers and texts, any noise and any amount of damage.

- `OnlyGenuineVerify` holds for every printer and every parser: what reading made of a
  text is not looked at, only what is then verified, and any other forms of signatures
  may be accepted. Its assumption is about the devices, `OneMonitorPerKey`: reports with
  the same monitor key carry the same monitor hash, since the device makes the key when
  it boots the monitor. Without it the device's signature of one report and the
  monitor's of another may both hold of a third. `VerifiesOnlyGenuine` is not inductive,
  as it does not say why a verdict was given; `VerdictInv` does (the report that is
  there verifies against the hashes of `origin`). `AcceptedIsGenuine` puts the signed
  parts together: the device's signature covers the monitor's hash and key, the
  monitor's the enclave's hash, the length and the data in use; `SaysTheSame` is that
  these bytes agree (`Signed`), and the hashes that were compared are among them. `BytesEqual` says
  once that two messages are equal exactly when their bytes are.
- `ArrivesIntact` assumes `ParserReadsBack`: the parser reads what was printed of a
  report as the value it was printed from. The run `json` checks this of the library
  on its own values (`ReadsWhatWasBuilt`). `WholeInv` says that while no byte is damaged
  the report is the same as `origin` and a text is the text of it. `DigitsAreRead`,
  `TextOfBytes` and `TextIsRead` take a field from bytes to digits and back, through
  `std::stringstream` as `HexByte` models it; `FieldsOfReport` finds each member under
  its name; `ReadsBack` chains the eight assignments of `fromJson` and shows that no
  later one overwrites an earlier, whatever the object held before, and that `substr`
  never throws. `SameFields` and `GenuineIsAccepted` give the verdict.

Both assumptions hold in the instance of `report`, where TLC evaluates them:
`OneMonitorPerKey` of its reports, `ParserReadsBack` of `Json11` on all lengths and
memories of four repeated bytes, each 0, 10, 127 or 255 (`MonitorAssumption` and
`ParserAssumption` of `MCReport`).

The signatures have two modules: `Sc25519Proofs` is about the scalars,
`Ed25519Proofs`, which extends it, about the field and about the calls of the
specification. Its last theorem is `ArithmeticIsExact`, that `ArithmeticExact` is an
invariant; the others are its parts.

- `FieldIsExact` (`FieldExact`): every function of `fe.c` that returns an element
  computes what its name says modulo the prime, for limbs that are any integers and any
  spans and cuts that fit together as `WidthAssumption` and `CutAssumption` say.
  `ElementOps` lists them, and the loads are among them (`InputAssumption`: loaded numbers
  are not negative). Everything rests on `Same`, equality
  modulo the prime. A carry keeps the number an element stands for, exactly below the top
  limb and up to `Same` at the top (`CarryKeeps`), so any order of carries keeps the value
  (`RoundCarriesKeep`). `PositionNext` and `WorthProduct` say why the products of two odd
  limbs count twice and the upper ones fold, and `ProductNumber` exchanges the order of
  the hundred products. `SquareIsProduct` compares `fe_sq` with `fe_mul`, `LoadedNumber`
  adds up the shifted bytes of `fe_frombytes`, and `ModProductIs` shows that the
  product `Expected` names, computed a digit at a time for TLC's sake, is the product.
- `EncodesTheRepresentative`: `fe_tobytes` writes the one representative below the prime,
  for limbs within the precondition over it (`Small`, 1.1 times the span) when eight wraps
  fit a span and a span is at least 8, as 19 and `2^25` do. This is the claim the comment
  at `fe.c:1365` argues for: a guess at the quotient from the top limb alone, carried
  through the ten limbs (`QuotientIs`), gives the quotient by the prime
  (`GuessIsEnough`). The comment takes `|h| <= p` from the precondition, which allows a
  little more, so the quotient is not always between -1 and 1; the proof goes
  through with -2 as well. `CarriedUpIs` and `InWidth` then show that the bytes hold
  the limbs side by side.
- `ReduceIsExact` and `MuladdIsExact`: `sc_reduce` and `sc_muladd` return the one number
  below the order, for all 512 bits, and for all `a`, `b` and `c` of 256 bits, reduced or
  not. A carry keeps the number in the limbs (`CarriesKeep`), a fold of a limb by the six
  digits of the order keeps it modulo the order (`ScFold`), and a row of products is a
  digit times the other factor (`RowIs`). What is hard is the end of `ScFinish`, where
  two folds of limb 12 have to be enough and nothing may be left above it. That is a
  matter of sizes: `RoundsTwice` says what two sweeps of rounded carries leave in each
  limb, and bounds follow one another from the products (`ProductSize`, below `2^54`)
  through the folds (`2^56`, `2^60`, `2^61`, all below the `2^63` of `int64_t`). So the
  first of the two folds leaves a number of at most seven eighths of what the limbs span,
  positive or negative (`FirstFinish`); the floors then carry 0 or -1 out of the top, and
  folding that gives the remainder (`SecondFinish`, with `OrderIsLarge`). These bounds are
  for the code's limbs and order, so both theorems
  assume `CodeScalars`: limbs of 21 bits and the digits 666643 to -683901.
- `ArithmeticIsExact` adds the calls the two parts leave out. `fe_tobytes`, `fe_isnegative`
  and `fe_isnonzero` are called on the product of a sum and one, as the code calls them
  after `fe_mul`: `ProductByOne` and `CarriedIsSmall` follow the sizes of the limbs
  (`Sized`: which limbs are within half a span, which within 2.2) through the carries of
  `fe_mul` to the precondition of `fe_tobytes`, so `EncodesTheSum` needs no assumption but
  that `Elements` are within the 1.1 spans that `fe_mul` is specified for. The chains of
  `fe_invert` and `fe_pow22523` keep the exponent as the set of bits that are one:
  multiplying adds sets that share no bit (`AddApart`), squaring moves a set up, and
  `InvertRaises` and `Pow22523Raises` give the bits of `2^255 - 21` and `2^252 - 3`.

The hypotheses of `ArithmeticIsExact` are the real parameters (a wrap of 19, spans of `2^25`,
`CodeScalars`), and with limbs of 21 bits TLC cannot compute: the run and the theorem
complement each other. The run has parameters of the same shape, smaller than the
theorem asks, and finds the mutants; the theorem is about the program's own numbers.

None of these says that a limb of the field fits its 32 bits or a product its 64: that is
`NoOverflow`, which the run checks at the real widths.

Model-checked only: the liveness properties `EnclaveNotStranded` and `LoadingEnds`,
which are out of the prover's reach; `Json11`, whose parser is a set of
recursive operators, over which the prover has no induction; of the signatures `NoOverflow`,
`SignedVerifies` and `VerifyExact`, whose group and curve are facts about particular
numbers.

## 12. What the runs found

Four expected violations, each at a line of the code, are runs and are listed under
"findings" in `PROJECT.json`: the stale `eid`, the region starts of simulated
enclaves, `memalign` without an initialised or extended heap, and a report whose text
or buffer says how many bytes to write and to hash. The last has several ways:
`report_long` shows `fromJson` writing behind the struct; with the `OtherReports` of
`report` in its cfg TLC finds the shorter one, a buffer whose `data_len` sends `verify`
beyond the end.

More properties are false without a condition on the program's surroundings. No
run repeats them, but each takes one change to see:

- Without its condition `inits[o] <= 1`, `NoEnclaveLeak` fails in `host`: a second
  `init` overwrites the `eid` of an enclave that still exists (`keystone.cpp:377`).
- With `DestroyMayFail = TRUE` in `host.cfg`, `NoDoubleDelete` fails: an `init` fails after
  CREATE, the DESTROY of its `destroy` fails too, which returns with the files kept
  (`keystone.cpp:521`); the destructor deletes them, and the `destroy` it calls, whose
  DESTROY goes through, deletes them again (`keystone.cpp:63-69`, `526-534`).
- With the invariant `InitMapsBuffer` in `host.cfg`, TLC finds an `init` that
  succeeds without a buffer: the result of `mmap` is compared with NULL
  (`keystone.cpp:503`).
- With `Layouts <- SharedPageLayouts` in `memory_load.cfg`, `SegmentsLoaded` fails: a
  segment that starts inside a page is copied to the end of that page whatever its
  file size (`keystone.cpp:210`), and the bytes behind it in the file stand where
  zeros belong.
- With `TextBytes = 11` in `edge_calls.cfg`, `StaysInBuffer` fails: only the header of
  a wrapped reply is checked against the buffer (`edge_call.c:116`). The test
  programs can reach it: the string has 18100 bytes, the default buffer 8192.
- `EdgeService` lets the process end at a call with the id `MaxEdgeCall`: the check lets
  it through (`edge_dispatch.c:26`) and the word behind the table is called, which is
  part of `Die`. Without that outcome in the contract, `ImplementsEdgeService` fails.
- With `BrkLimit = 20` in `heap.cfg`, `ChunksAsAsked` fails: `malloc` hands out memory
  above the break when the runtime refused to move it (`tiny-malloc.c:142`).
- With `StackMayReach = TRUE` in `heap.cfg`, `GapKept` fails: the difference in
  `CAN_ALLOC_P` wraps when the frame is closer than the gap (`tiny-malloc.c:119`).
- With the property `StatusTellsHowItWent` in `edge_calls.cfg`, TLC finds the status of
  an earlier call where `full_trace` returns without setting its own
  (`edge_wrapper.cpp:1114`).
- With `Files <- AllFiles` in `elf.cfg`, `PointersInFile` fails: a name whose offset
  equals the size of the string table passes the check `offset > size`
  (`elf.cpp:292`) and starts behind the table.
- The comment of `fe_add` and `fe_sub` asks for arguments up to `1.1*2^25`; `ge_add` and
  `ge_p2_dbl` give them sums of sums. `NoOverflow` asks for the weaker thing
  that matters, that nothing overflows and products get what they ask for, and
  holds.

## 13. Not modelled

- Several host objects over the globals of the edge library: planned, section 2.
- The ORAM bucket wrappers, the readers of files, `copy_report` and the arithmetic
  wrappers: the scheme of the wrappers in `EdgeCall` over data of their own.
- The field `data_va` of a wrapped reply, which no code reads.
- `string.c` beyond `memcpy` and `memset`: loops over bytes without state.
- SHA3: its state is 25 words of 64 bits, beyond TLC's integers; it is a function of its
  input for everything that uses it. The built-in keys are constants.
- `has_shape` and `operator<` of json11, which nothing calls; the 53 bits of a double.
- `malloc_stats`, which prints, and `mallopt`, which does nothing.
- The constant-time shape of the signature code, and its tables of multiples as
  numbers: the model computes the entries from the base point.
- The driver, the monitor and the runtime beyond what the SDK's use of them says.
- Failures of the mappings in `memory.cpp`, which the code does not look at, and
  the mappings it never releases.
- `loadELF` failing for a segment outside the file (a NULL that is not checked);
  that the parser returns NULL there is `PointersInFile`.
- The test runner, which is one order of the calls `KeystoneHost` allows, the example
  applications and scripts.
