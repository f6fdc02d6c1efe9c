-------------------------------- MODULE EdgeCall -------------------------------
(***************************************************************************)
(* Edge calls: lib/edge/src/edge_call.c, edge_dispatch.c, edge_syscall.c   *)
(* and the wrappers of examples/tests/edge_wrapper.cpp, for one host       *)
(* object and its enclave.                                                 *)
(*                                                                         *)
(* A call lives in a buffer both sides map, each at an address and with a  *)
(* length of its own: the driver rounds the host's length up to pages.     *)
(* The call record, edge_call_t, is at the front; mem holds the objects    *)
(* behind it, keyed by their offset in the buffer.                         *)
(***************************************************************************)
EXTENDS Integers

CONSTANTS
  WordMax,        \* UINTPTR_MAX
  MaxEdgeCall,    \* MAX_EDGE_CALL, the length of edge_call_table
  RecordBytes,    \* sizeof(edge_call_t)
  HeaderBytes,    \* sizeof(edge_data_t)
  WordBytes,      \* sizeof(unsigned long)
  SyscallBytes,   \* an edge_syscall_t up to the bytes read or written
  PageBytes,      \* sizeof(pages), what a page store keeps
  TextBytes,      \* the reply of get_host_string_wrapper
  Buffers,        \* how host and enclave may map the buffer
  Page,           \* pages the enclave keeps in the host's page stores
  MaxVersion,     \* how often pages are written out
  Lengths,        \* lengths of strings and files
  Registered,     \* the handler edge_init registers for each id it registers
  Behind,         \* what the word after edge_call_table may hold
  WrapSyscalls    \* whether the host is built with IO_SYSCALL_WRAPPING

Word == 0..WordMax
Null == "NULL"
Handler == {"print_value", "print_buffer", "get_string", "store_page",
            "fetch_page", "insert_page", "find_page", "full_trace",
            "call_exit"}
Status == {"OK", "BAD_CALL_ID", "BAD_OFFSET", "BAD_PTR", "SYSCALL_FAILED"}

\* A mapping of the buffer: where it starts and how long it is.  It does not
\* end at the very top of the address space.
Mapping == {b \in [start : Word, len : Word] : b.start + b.len <= WordMax}

\* The buffer has at least room for a wrapped word: it is a page or more.
ASSUME SizeAssumption ==
  /\ WordMax \in Nat /\ MaxEdgeCall \in Nat
  /\ {RecordBytes, HeaderBytes, WordBytes, PageBytes, TextBytes, SyscallBytes}
       \subseteq Nat \ {0}
  /\ WordBytes <= HeaderBytes /\ WordBytes <= SyscallBytes
  /\ \A b \in Buffers :
       /\ {b.host, b.enclave} \subseteq Mapping
       /\ RecordBytes + 2 * HeaderBytes <= b.host.len
       /\ b.host.len <= b.enclave.len
ASSUME CallAssumption ==
  /\ Lengths \subseteq Nat \ {0}   \* a string counts its terminating NUL
  /\ MaxVersion \in Nat
  /\ DOMAIN Registered \subseteq 0..(MaxEdgeCall - 1)
  /\ \A id \in DOMAIN Registered : Registered[id] \in Handler
  /\ WrapSyscalls \in BOOLEAN
  /\ Behind \subseteq {Null, "wild"}

\* Whether every wrapped reply fits: edge_call_setup_wrapped_ret() relies on
\* it, since it checks the header only.
RepliesFit ==
  \A b \in Buffers, bytes \in {WordBytes, PageBytes, TextBytes} :
    RecordBytes + HeaderBytes + bytes <= b.host.len

VARIABLES
  host,      \* _shared_start and _shared_len of the host
  enclave,   \* the same two in the enclave's runtime
  table,     \* edge_call_table and the word behind it
  pc,        \* who runs: "enclave", "stopped", "handled", or "gone"
  record,    \* the edge_call_t at the front of the buffer
  mem,       \* the objects behind it
  pArr,      \* p_arr: the version kept of each page, 0 for malloc's bytes
  pagesStore,\* pages_store: the same for the map, 0 for no element
  versions,  \* how many versions of pages were written out
  asked      \* the call the enclave has made

vars == <<host, enclave, table, pc, record, mem, pArr, pagesStore, versions,
          asked>>

-------------------------------------------------------------------------------
(* Words and pointers (edge_call.c). *)

Plus(a, b) == IF a + b > WordMax THEN a + b - (WordMax + 1) ELSE a + b
Minus(a, b) == IF a >= b THEN a - b ELSE a - b + (WordMax + 1)

\* edge_call_get_ptr_from_offset(): the tests, and the pointer.
OffsetOK(b, offset, len) ==
  /\ offset <= Minus(WordMax, b.start)
  /\ offset <= b.len
  /\ len <= Minus(WordMax, Plus(b.start, offset))
  /\ len <= Minus(b.len, offset)

PtrFromOffset(b, offset) == Plus(b.start, offset)

\* A mutant: without the test that ptr + data_len does not wrap.
CheckPtrMayWrap(b, ptr, len) ==
  IF ptr > Plus(b.start, b.len) \/ ptr < b.start THEN 1
  ELSE IF Plus(ptr, len) > Plus(b.start, b.len) THEN 3
  ELSE 0

\* edge_call_check_ptr_valid()
CheckPtr(b, ptr, len) ==
  IF ptr > Plus(b.start, b.len) \/ ptr < b.start THEN 1
  ELSE IF len > Minus(WordMax, ptr) THEN 2
  ELSE IF Plus(ptr, len) > Plus(b.start, b.len) THEN 3
  ELSE 0

\* edge_call_get_offset_from_ptr(), for a pointer that is valid.
OffsetFromPtr(b, ptr) == Minus(ptr, b.start)

\* A mutant: the data section starts where the call record does.
DataPtrAtRecord(b) == b.start

\* edge_call_data_ptr()
DataPtr(b) == Plus(b.start, RecordBytes)

-------------------------------------------------------------------------------
(* The bytes of the buffer, and the call record in front of them. *)

Garbage == [kind |-> "garbage"]
Text == [kind |-> "text"]
Number(n) == [kind |-> "number", n |-> n]
Content(p, v) == [kind |-> "page", page |-> p, ver |-> v]
FileBytes(n) == [kind |-> "file", n |-> n]

\* memcpy() to an offset; objects it overlaps are no longer what they were.
Put(m, at, size, value) ==
  {o \in m : o.at + o.size <= at \/ at + size <= o.at}
    \cup {o \in {[at |-> at, size |-> size, value |-> value]} : size > 0}

\* What size bytes read at an offset are.
Get(m, at, size) ==
  IF \E o \in m : o.at = at /\ size <= o.size
    THEN (CHOOSE o \in m : o.at = at /\ size <= o.size).value ELSE Garbage

\* edge_call_setup_ret() by the host, and the status that follows from it.
SetupRet(ptr, size, ifBad) ==
  LET valid == CheckPtr(host, ptr, size) = 0 IN
  record' = [record EXCEPT
               !.retSize = size,
               !.retOffset = IF valid THEN OffsetFromPtr(host, ptr) ELSE @,
               !.status = IF valid THEN "OK" ELSE ifBad]

\* edge_call_setup_wrapped_ret(): the data, the header that describes it in
\* front of it, and the header as what is returned.
SetupWrappedRet(value, size) ==
  LET header == DataPtr(host)
      data == OffsetFromPtr(host, Plus(header, HeaderBytes)) IN
  /\ mem' = Put(Put(mem, data, size, value),
                OffsetFromPtr(host, header), HeaderBytes,
                [kind |-> "header", offset |-> data, size |-> size])
  /\ SetupRet(header, HeaderBytes, "BAD_PTR")

SetStatus(status) == record' = [record EXCEPT !.status = status]

\* edge_call_args_ptr(), and what it points to.
ArgsOK == OffsetOK(host, record.argOffset, record.argSize)
Args == Get(mem, OffsetFromPtr(host, PtrFromOffset(host, record.argOffset)),
            record.argSize)

-------------------------------------------------------------------------------
(* The enclave. *)

NoCall == [to |-> "none"]

Call(id, to, arg, bytes, wants) ==
  [id |-> id, to |-> to, arg |-> arg, bytes |-> bytes, wants |-> wants,
   fits |-> bytes <= host.len - RecordBytes]

NoArgs == [kind |-> "args"]
Arg(n) == [kind |-> "args", n |-> n]
PageArg(p, v) == [kind |-> "args", page |-> p, ver |-> v]
SyscallArg(num, n) == [kind |-> "args", num |-> num, n |-> n]

\* The calls an enclave makes of a registered handler.
HandlerCalls(id, f) ==
  CASE f = "print_buffer" -> {Call(id, f, Arg(n), n, "reply") : n \in Lengths}
    [] f = "store_page" ->
         {Call(id, f, PageArg(p, versions + 1), PageBytes, "wrapped") :
            p \in {q \in Page : versions < MaxVersion}}
    [] f = "insert_page" ->
         {Call(id, f, PageArg(p, versions + 1), PageBytes, "nothing") :
            p \in {q \in Page : versions < MaxVersion}}
    [] f \in {"fetch_page", "find_page"} ->
         {Call(id, f, PageArg(p, 0), WordBytes, "wrapped") : p \in Page}
    [] f = "get_string" -> {Call(id, f, NoArgs, 0, "wrapped")}
    [] OTHER -> {Call(id, f, NoArgs, WordBytes, "nothing")}

Calls ==
  (UNION {HandlerCalls(id, Registered[id]) : id \in DOMAIN Registered})
  \cup {Call(id, "nobody", NoArgs, WordBytes, "nothing") :
          id \in (0..(MaxEdgeCall - 1) \ DOMAIN Registered)
                 \cup {MaxEdgeCall + 2}}
  \cup {Call(MaxEdgeCall, "behind the table", NoArgs, WordBytes, "nothing")}
  \cup (IF WrapSyscalls
          THEN {Call(MaxEdgeCall + 1, "read", SyscallArg("read", n),
                     SyscallBytes + n, "file") : n \in Lengths}
               \cup {Call(MaxEdgeCall + 1, call, SyscallArg(call, 0),
                          SyscallBytes, "reply") :
                       call \in {"sync", "other syscall"}}
          ELSE {Call(MaxEdgeCall + 1, "nobody", NoArgs, WordBytes, "nothing")})

\* ocall(): the runtime copies the arguments behind the record, sets the call
\* up (edge_call_setup_call()) and stops the enclave.
Ocall ==
  /\ pc = "enclave"
  /\ \E c \in Calls :
       LET ptr == DataPtr(enclave)
           at == OffsetFromPtr(enclave, ptr) IN
       /\ CheckPtr(enclave, ptr, c.bytes) = 0
       /\ asked' = c
       /\ mem' = Put(mem, at, c.bytes, c.arg)
       /\ record' = [record EXCEPT !.id = c.id, !.argOffset = at,
                                   !.argSize = c.bytes]
       /\ versions' = IF c.to \in {"store_page", "insert_page"}
                        THEN versions + 1 ELSE versions
  /\ pc' = "stopped"
  /\ UNCHANGED <<host, enclave, table, pArr, pagesStore>>

\* What the runtime hands to the caller after RESUME: an error unless the
\* status is OK, or what it finds where the record says; a wrapped reply is
\* then fetched with copy_from_shared().
Outcome ==
  LET at(offset) == OffsetFromPtr(enclave, PtrFromOffset(enclave, offset))
      reply == Get(mem, at(record.retOffset), record.retSize) IN
  IF record.status # "OK" THEN [kind |-> "failed"]
  ELSE IF asked.wants = "nothing" THEN [kind |-> "done"]
  ELSE IF ~OffsetOK(enclave, record.retOffset, record.retSize)
    THEN [kind |-> "failed"]
  ELSE IF asked.wants = "reply" THEN reply
  ELSE IF asked.wants = "file"
    THEN Get(mem, RecordBytes + SyscallBytes, asked.arg.n)
  ELSE IF reply.kind # "header" THEN Garbage
  ELSE IF ~OffsetOK(enclave, reply.offset, reply.size) THEN [kind |-> "failed"]
  ELSE Get(mem, at(reply.offset), reply.size)

Return ==
  /\ pc = "handled"
  /\ pc' = "enclave" /\ asked' = NoCall
  /\ UNCHANGED <<host, enclave, table, record, mem, pArr, pagesStore, versions>>

-------------------------------------------------------------------------------
(* The host. *)

\* register_call(): an id up to MAX_EDGE_CALL writes behind the table.
RegisterCall(t, id, f) == IF id > MaxEdgeCall THEN t ELSE [t EXCEPT ![id] = f]

\* A mutant: the end of the buffer is passed for its length.
EdgeInitWithEnd ==
  /\ pc = "setup"
  /\ \E b \in Buffers :
       /\ host' = [b.host EXCEPT !.len = b.host.start + b.host.len]
       /\ enclave' = b.enclave
  /\ table' = [id \in DOMAIN table |->
                 IF id \in DOMAIN Registered
                   THEN RegisterCall(table, id, Registered[id])[id]
                   ELSE table[id]]
  /\ pc' = "enclave"
  /\ UNCHANGED <<record, mem, pArr, pagesStore, versions, asked>>

\* edge_init(): every registration, and edge_call_init_internals().
EdgeInit ==
  /\ pc = "setup"
  /\ \E b \in Buffers : host' = b.host /\ enclave' = b.enclave
  /\ table' = [id \in DOMAIN table |->
                 IF id \in DOMAIN Registered
                   THEN RegisterCall(table, id, Registered[id])[id]
                   ELSE table[id]]
  /\ pc' = "enclave"
  /\ UNCHANGED <<record, mem, pArr, pagesStore, versions, asked>>

IsSyscall == WrapSyscalls /\ record.id = MaxEdgeCall + 1

\* The entry incoming_call_dispatch() finds; one id too many gets through.
Callee == IF record.id > MaxEdgeCall THEN Null ELSE table[record.id]

\* incoming_syscall()
IncomingSyscall ==
  /\ IsSyscall
  /\ IF ~ArgsOK \/ Args.num = "other syscall"
       THEN SetStatus("SYSCALL_FAILED") /\ UNCHANGED mem
       ELSE LET at == OffsetFromPtr(host, PtrFromOffset(host, record.argOffset))
                done == IF Args.num # "read" THEN mem
                        ELSE Put(mem, at + SyscallBytes, Args.n,
                                 FileBytes(Args.n)) IN
            /\ mem' = Put(done, OffsetFromPtr(host, DataPtr(host)), WordBytes,
                          Number(Args.n))
            /\ SetupRet(DataPtr(host), WordBytes, "SYSCALL_FAILED")
  /\ UNCHANGED <<pArr, pagesStore>>

\* fatal_error of incoming_call_dispatch()
BadCallId ==
  /\ ~IsSyscall /\ Callee = Null
  /\ SetStatus("BAD_CALL_ID")
  /\ UNCHANGED <<mem, pArr, pagesStore>>

\* The first thing every wrapper does.
BadOffset ==
  /\ ~IsSyscall /\ Callee \in Handler /\ ~ArgsOK
  /\ SetStatus("BAD_OFFSET")
  /\ UNCHANGED <<mem, pArr, pagesStore>>

Runs(f) == ~IsSyscall /\ Callee = f /\ ArgsOK

\* print_value_wrapper(), print_double_wrapper(): they only read.
PrintValue ==
  /\ Runs("print_value")
  /\ SetStatus("OK")
  /\ UNCHANGED <<mem, pArr, pagesStore>>

\* print_buffer_wrapper(): the number of characters printed replaces the
\* arguments.
PrintBuffer ==
  /\ Runs("print_buffer")
  /\ mem' = Put(mem, OffsetFromPtr(host, DataPtr(host)), WordBytes,
                Number(Args.n))
  /\ SetupRet(DataPtr(host), WordBytes, "BAD_PTR")
  /\ UNCHANGED <<pArr, pagesStore>>

\* get_host_string_wrapper()
GetHostString ==
  /\ Runs("get_string")
  /\ SetupWrappedRet(Text, TextBytes)
  /\ UNCHANGED <<pArr, pagesStore>>

\* A mutant: the page is kept as pages_store.insert() would keep it.
StorePageOnce ==
  /\ Runs("store_page")
  /\ pArr' = [pArr EXCEPT ![Args.page] = IF @ = 0 THEN Args.ver ELSE @]
  /\ SetupWrappedRet(Number(1), WordBytes)
  /\ UNCHANGED pagesStore

\* get_enclave_content_from_epm_wrapper(): p_arr[p.address>>12]=p.
StorePage ==
  /\ Runs("store_page")
  /\ pArr' = [pArr EXCEPT ![Args.page] = Args.ver]
  /\ SetupWrappedRet(Number(1), WordBytes)
  /\ UNCHANGED pagesStore

\* get_host_content_from_utm_wrapper()
FetchPage ==
  /\ Runs("fetch_page")
  /\ SetupWrappedRet(IF pArr[Args.page] = 0 THEN Garbage
                     ELSE Content(Args.page, pArr[Args.page]), PageBytes)
  /\ UNCHANGED <<pArr, pagesStore>>

\* store_content_to_utm_enc_pfh(): insert() keeps an element that is there.
InsertPage ==
  /\ Runs("insert_page")
  /\ pagesStore' = [pagesStore EXCEPT
                      ![Args.page] = IF @ = 0 THEN Args.ver ELSE @]
  /\ SetStatus("OK")
  /\ UNCHANGED <<mem, pArr>>

\* get_host_content_from_utm_wrapper_enc_pfh(); find() may return end(), which
\* is read all the same.
FindPage ==
  /\ Runs("find_page")
  /\ SetupWrappedRet(IF pagesStore[Args.page] = 0 THEN Garbage
                     ELSE Content(Args.page, pagesStore[Args.page]), PageBytes)
  /\ UNCHANGED <<pArr, pagesStore>>

\* full_trace() and print_counters() leave the status alone.
FullTrace ==
  /\ Runs("full_trace")
  /\ UNCHANGED <<record, mem, pArr, pagesStore>>

\* incoming_call_dispatch() with the handler it calls.
Dispatch ==
  /\ pc = "stopped"
  /\ \/ IncomingSyscall \/ BadCallId \/ BadOffset
     \/ PrintValue \/ PrintBuffer \/ GetHostString \/ FullTrace
     \/ StorePage \/ FetchPage \/ InsertPage \/ FindPage
  /\ pc' = "handled"
  /\ UNCHANGED <<host, enclave, table, versions, asked>>

\* The process ends: call_exit(), a jump to what lies behind the table, or
\* the element behind the last one of the map.
Die ==
  /\ pc = "stopped"
  /\ \/ Runs("call_exit")
     \/ ~IsSyscall /\ Callee = "wild"
     \/ Runs("find_page") /\ pagesStore[Args.page] = 0
  /\ pc' = "gone"
  /\ UNCHANGED <<host, enclave, table, record, mem, pArr, pagesStore, versions,
                 asked>>

Init ==
  /\ host = [start |-> 0, len |-> 0] /\ enclave = host
  /\ \E b \in Behind :
       table = [id \in 0..MaxEdgeCall |-> IF id < MaxEdgeCall THEN Null ELSE b]
  /\ pc = "setup"
  /\ record = [id |-> 0, argOffset |-> 0, argSize |-> 0, status |-> "OK",
               retOffset |-> 0, retSize |-> 0]
  /\ mem = {}
  /\ pArr = [p \in Page |-> 0] /\ pagesStore = [p \in Page |-> 0]
  /\ versions = 0
  /\ asked = NoCall

Next == EdgeInit \/ Ocall \/ Dispatch \/ Die \/ Return

Spec == Init /\ [][Next]_vars

-------------------------------------------------------------------------------
(* Properties. *)

RecordType == [id : 0..(MaxEdgeCall + 2), argOffset : Word, argSize : Nat,
               status : Status, retOffset : Word, retSize : Nat]
StoreType == [Page -> 0..MaxVersion]

\* The two mappings are mappings, the table has MAX_EDGE_CALL entries and a
\* word behind it, and every field of a call record has its type.
TypeOK ==
  /\ {host, enclave} \subseteq Mapping
  /\ table \in [0..MaxEdgeCall -> Handler \cup {Null, "wild"}]
  /\ pc \in {"setup", "enclave", "stopped", "handled", "gone"}
  /\ record \in RecordType
  /\ \A o \in mem : o.at \in Nat /\ o.size \in Nat
  /\ pArr \in StoreType /\ pagesStore \in StoreType
  /\ versions \in 0..MaxVersion

\* Nothing is written outside the buffer or over the call record: arguments lie
\* in what the enclave maps of it, and what the host writes (the result of
\* edge_call_setup_wrapped_ret, a plain reply, bytes read from a file) in what
\* the host maps.
StaysInBuffer ==
  \A o \in mem :
    /\ RecordBytes <= o.at
    /\ o.at + o.size <= IF o.value.kind = "args" THEN enclave.len ELSE host.len

\* The comparisons of edge_call.c, made to avoid wrapping, let through exactly
\* the ranges that lie in the buffer, and an offset taken from a pointer leads
\* back to it.
ExactFor(b, x, len) ==
  /\ OffsetOK(b, x, len) <=> x + len <= b.len
  /\ CheckPtr(b, x, len) = 0 <=> b.start <= x /\ x + len <= b.start + b.len
  /\ CheckPtr(b, x, len) = 0 => PtrFromOffset(b, OffsetFromPtr(b, x)) = x

\* It is a fact about constants; a run needs to see it in one state only.
PointerChecksExact ==
  pc = "setup" => \A b \in Mapping, x, len \in Word : ExactFor(b, x, len)

\* Whatever call follows whatever other in the one buffer, the enclave sees the
\* answer of the handler registered for this call to the arguments of this call
\* (incoming_call_dispatch and every wrapper it calls).
Service == INSTANCE EdgeService WITH
  call <- asked,
  answer <- IF pc = "handled" THEN Outcome
            ELSE IF pc = "gone" THEN [kind |-> "gone"] ELSE [kind |-> "none"],
  pages <- pArr,
  kept <- pagesStore
ImplementsEdgeService == Service!Spec

\* "Call status indicates if the wrapper code, pointers, offsets, etc went OK"
\* (edge_common.h:24): after a handler that ran to its end on arguments it could
\* reach, the status is CALL_STATUS_OK.  full_trace does not set it.
StatusTellsHowItWent ==
  pc = "handled" /\ asked.to \in Handler /\ asked.fits => record.status = "OK"

===============================================================================
