----------------------------- MODULE EdgeCallProofs ----------------------------
(***************************************************************************)
(* Proofs about EdgeCall, for words of any size, any buffers of a page or  *)
(* more and any registrations: its checks, that both sides stay inside the *)
(* buffer, and that it implements EdgeService.                             *)
(***************************************************************************)
EXTENDS EdgeCall, TLAPS

-------------------------------------------------------------------------------
(* Pointers and offsets. *)

\* The tests of edge_call.c on one range: no sum or difference they form wraps
\* when it is compared, and they accept the ranges in the buffer only.
LEMMA ExactForAll ==
  ASSUME NEW b \in Mapping, NEW x \in Word, NEW len \in Word
  PROVE  ExactFor(b, x, len)
<1>1. /\ b.start \in Word /\ b.len \in Word /\ b.start + b.len <= WordMax
      /\ WordMax \in Nat
  BY SizeAssumption DEF Mapping
<1>2. OffsetOK(b, x, len) <=> x + len <= b.len
  BY <1>1, SMT DEF OffsetOK, Plus, Minus, Word
<1>3. CheckPtr(b, x, len) = 0
        <=> b.start <= x /\ x + len <= b.start + b.len
  BY <1>1, SMT DEF CheckPtr, Plus, Minus, Word
<1>4. ASSUME b.start <= x /\ x + len <= b.start + b.len
      PROVE  PtrFromOffset(b, OffsetFromPtr(b, x)) = x
  BY <1>1, <1>4, SMT DEF PtrFromOffset, OffsetFromPtr, Plus, Minus, Word
<1> QED BY <1>2, <1>3, <1>4 DEF ExactFor

\* What edge_call_check_ptr_valid and edge_call_get_ptr_from_offset accept, for
\* every word size and every buffer: exactly the ranges in the buffer.
THEOREM ChecksAreExact == Spec => []PointerChecksExact
<1>1. PointerChecksExact
  BY ExactForAll DEF PointerChecksExact
<1> QED BY <1>1, PTL

\* An offset in the buffer survives the way to a pointer and back.
LEMMA ThereAndBack ==
  ASSUME NEW b \in Mapping, NEW off \in Nat, off <= b.len
  PROVE  /\ Plus(b.start, off) = b.start + off
         /\ OffsetFromPtr(b, Plus(b.start, off)) = off
<1>1. /\ b.start \in Word /\ b.len \in Word /\ b.start + b.len <= WordMax
      /\ WordMax \in Nat
  BY SizeAssumption DEF Mapping
<1> QED BY <1>1, SMT DEF OffsetFromPtr, Plus, Minus, Word

-------------------------------------------------------------------------------
(* The bytes of the buffer. *)

Sized(m) == \A o \in m : o.at \in Nat /\ o.size \in Nat \ {0}
Disjoint(m) ==
  \A o, q \in m : o = q \/ o.at + o.size <= q.at \/ q.at + q.size <= o.at
Object(at, size, value) == [at |-> at, size |-> size, value |-> value]

\* A write leaves disjoint objects, the new one among them, and invents none.
LEMMA PutKeeps ==
  ASSUME NEW m, Sized(m), Disjoint(m),
         NEW at \in Nat, NEW size \in Nat, NEW value
  PROVE  /\ Sized(Put(m, at, size, value))
         /\ Disjoint(Put(m, at, size, value))
         /\ size > 0 => Object(at, size, value) \in Put(m, at, size, value)
         /\ \A o \in Put(m, at, size, value) :
              o \in m \/ (o = Object(at, size, value) /\ size > 0)
<1> DEFINE new == Object(at, size, value)
           P == Put(m, at, size, value)
<1>1. new.at = at /\ new.size = size
  BY DEF Object
<1>2. \A o \in P : \/ o \in m /\ (o.at + o.size <= at \/ at + size <= o.at)
                   \/ o = new /\ size > 0
  BY DEF Put, Object
<1>3. size > 0 => new \in P
  BY DEF Put, Object
<1> HIDE DEF new, P
<1>4. Sized(P)
  BY <1>1, <1>2 DEF Sized
<1>5. Disjoint(P)
  <2> SUFFICES ASSUME NEW o \in P, NEW q \in P
               PROVE  o = q \/ o.at + o.size <= q.at \/ q.at + q.size <= o.at
    BY DEF Disjoint
  <2>1. CASE o \in m /\ q \in m
    BY <2>1 DEF Disjoint
  <2>2. CASE o = new /\ q \in m
    BY <2>2, <1>1, <1>2
  <2>3. CASE q = new /\ o \in m
    BY <2>3, <1>1, <1>2
  <2> QED BY <2>1, <2>2, <2>3, <1>2
<1> QED BY <1>2, <1>3, <1>4, <1>5 DEF new, P

\* Reading an object where it lies gives its value: no other starts there.
LEMMA GetFinds ==
  ASSUME NEW m, Sized(m), Disjoint(m), NEW o \in m, NEW size \in Nat,
         size <= o.size
  PROVE  Get(m, o.at, size) = o.value
<1> DEFINE q == CHOOSE p \in m : p.at = o.at /\ size <= p.size
<1>1. q \in m /\ q.at = o.at /\ size <= q.size
  OBVIOUS
<1>2. Get(m, o.at, size) = q.value
  BY DEF Get
<1> HIDE DEF q
<1>3. q = o
  BY <1>1 DEF Sized, Disjoint
<1> QED BY <1>2, <1>3

-------------------------------------------------------------------------------
(* The invariant: while the host is asked, the record and the bytes it points *)
(* to are those of the call, and the table holds what was registered.         *)

Mapped ==
  /\ pc # "setup" => \E b \in Buffers : host = b.host /\ enclave = b.enclave
  /\ pc = "setup" => mem = {}

Registry ==
  /\ pc # "setup" => \A id \in DOMAIN Registered : table[id] = Registered[id]
  /\ \A id \in 0..MaxEdgeCall \ DOMAIN Registered : table[id] \notin Handler

\* What the enclave asks of a handler of pages, and of read().
CallShape(c) ==
  /\ c.id \in 0..(MaxEdgeCall + 2) /\ c.bytes \in Nat /\ c.arg.kind = "args"
  /\ c.id \in DOMAIN Registered =>
       /\ Registered[c.id] \in {"store_page", "insert_page"} =>
            c.bytes > 0 /\ c.arg.ver \in 0..MaxVersion
  /\ WrapSyscalls /\ c.id = MaxEdgeCall + 1 =>
       /\ c.bytes > 0
       /\ c.arg.num = "read" =>
            c.arg.n \in Nat /\ c.bytes = SyscallBytes + c.arg.n

CallInBuffer ==
  pc = "stopped" =>
    /\ CallShape(asked)
    /\ record.id = asked.id
    /\ record.argOffset = RecordBytes /\ record.argSize = asked.bytes
    /\ asked.bytes > 0 =>
         Object(RecordBytes, asked.bytes, asked.arg) \in mem

MemOK == Sized(mem) /\ Disjoint(mem)

Inv == TypeOK /\ Mapped /\ Registry /\ MemOK /\ CallInBuffer

USE SizeAssumption, CallAssumption

\* What the invariant says of the two mappings.
LEMMA MappedFacts ==
  ASSUME Mapped, pc # "setup"
  PROVE  /\ host \in Mapping /\ enclave \in Mapping
         /\ RecordBytes + 2 * HeaderBytes <= host.len
         /\ host.len <= enclave.len
         /\ host.len \in Nat /\ enclave.len \in Nat
BY DEF Mapped, Mapping, Word

\* Where the host's data section, and the data of a wrapped reply, lie.
LEMMA DataSection ==
  ASSUME Mapped, pc # "setup"
  PROVE  /\ DataPtr(host) = host.start + RecordBytes
         /\ DataPtr(host) \in Word
         /\ OffsetFromPtr(host, DataPtr(host)) = RecordBytes
         /\ OffsetFromPtr(host, Plus(DataPtr(host), HeaderBytes))
              = RecordBytes + HeaderBytes
         /\ DataPtr(enclave) \in Word
         /\ OffsetFromPtr(enclave, DataPtr(enclave)) = RecordBytes
         /\ OffsetFromPtr(host, PtrFromOffset(host, RecordBytes)) = RecordBytes
<1>1. /\ host \in Mapping /\ enclave \in Mapping
      /\ RecordBytes + 2 * HeaderBytes <= host.len
      /\ host.len <= enclave.len /\ host.len \in Nat /\ enclave.len \in Nat
  BY MappedFacts
<1>2. /\ RecordBytes \in Nat /\ RecordBytes <= host.len
      /\ RecordBytes <= enclave.len
      /\ HeaderBytes \in Nat /\ RecordBytes + HeaderBytes \in Nat
      /\ RecordBytes + HeaderBytes <= host.len
  BY <1>1
<1>3. /\ DataPtr(host) = host.start + RecordBytes
      /\ OffsetFromPtr(host, DataPtr(host)) = RecordBytes
      /\ OffsetFromPtr(enclave, DataPtr(enclave)) = RecordBytes
      /\ DataPtr(enclave) = enclave.start + RecordBytes
  BY <1>1, <1>2, ThereAndBack DEF DataPtr
<1>4. Plus(DataPtr(host), HeaderBytes)
        = Plus(host.start, RecordBytes + HeaderBytes)
  BY <1>1, <1>2, <1>3, ThereAndBack, SMT DEF Plus, Mapping, Word
<1>5. OffsetFromPtr(host, Plus(host.start, RecordBytes + HeaderBytes))
        = RecordBytes + HeaderBytes
  BY <1>1, <1>2, ThereAndBack
<1>6. DataPtr(host) \in Word /\ DataPtr(enclave) \in Word
  BY <1>1, <1>2, <1>3, SMT DEF Mapping, Word
<1> QED BY <1>3, <1>4, <1>5, <1>6 DEF PtrFromOffset, DataPtr

\* What a handler finds behind the pointer of edge_call_args_ptr.
LEMMA ArgsAreThose ==
  ASSUME Inv, pc = "stopped", asked.bytes > 0
  PROVE  Args = asked.arg
<1> DEFINE o == Object(RecordBytes, asked.bytes, asked.arg)
<1>1. o \in mem /\ record.argOffset = RecordBytes
      /\ record.argSize = asked.bytes /\ asked.bytes \in Nat
  BY DEF Inv, CallInBuffer, CallShape
<1>2. o.at = RecordBytes /\ o.size = asked.bytes /\ o.value = asked.arg
  BY DEF Object
<1> HIDE DEF o
<1>3. Args = Get(mem, o.at, asked.bytes)
  BY <1>1, <1>2, DataSection DEF Args, Inv
<1> QED BY <1>1, <1>2, <1>3, GetFinds DEF Inv, MemOK

\* The handler that runs is the one registered for the id of the call.
LEMMA RunsRegistered ==
  ASSUME Inv, pc = "stopped", NEW f \in Handler, Callee = f
  PROVE  asked.id \in DOMAIN Registered /\ Registered[asked.id] = f
<1>1. record.id = asked.id /\ asked.id \in 0..(MaxEdgeCall + 2)
  BY DEF Inv, CallInBuffer, CallShape
<1>2. Null \notin Handler
  BY DEF Null, Handler
<1>3. asked.id \in 0..MaxEdgeCall /\ table[asked.id] = f
  BY <1>1, <1>2 DEF Callee
<1> QED BY <1>3 DEF Inv, Registry

-------------------------------------------------------------------------------
(* What one dispatch does. *)

InHostBuffer(o) == RecordBytes <= o.at /\ o.at + o.size <= host.len

\* edge_call_setup_ret keeps the record a record.
LEMMA SetupRetTyped ==
  ASSUME Inv, pc = "stopped", NEW ptr \in Word, NEW size \in Nat,
         NEW ifBad \in Status, SetupRet(ptr, size, ifBad)
  PROVE  record' \in RecordType
<1>1. OffsetFromPtr(host, ptr) \in Word
  <2>1. host.start \in Word /\ WordMax \in Nat
    BY MappedFacts DEF Inv, Mapping
  <2> QED BY <2>1, SMT DEF OffsetFromPtr, Minus, Word
<1>2. record \in RecordType /\ "OK" \in Status
  BY DEF Inv, TypeOK, Status
<1> QED BY <1>1, <1>2 DEF SetupRet, RecordType

\* edge_call_setup_wrapped_ret writes two objects, in the buffer if they fit.
LEMMA WrappedReply ==
  ASSUME Inv, pc = "stopped", NEW value, NEW size \in Nat,
         SetupWrappedRet(value, size)
  PROVE  /\ record' \in RecordType /\ MemOK'
         /\ RecordBytes + HeaderBytes + size <= host.len =>
              \A o \in mem' : o \in mem \/ InHostBuffer(o)
<1> DEFINE at == RecordBytes + HeaderBytes
           header == [kind |-> "header", offset |-> at, size |-> size]
           inner == Put(mem, at, size, value)
<1>1. /\ OffsetFromPtr(host, DataPtr(host)) = RecordBytes
      /\ OffsetFromPtr(host, Plus(DataPtr(host), HeaderBytes)) = at
      /\ DataPtr(host) \in Word
  BY DataSection DEF Inv
<1>2. mem' = Put(inner, RecordBytes, HeaderBytes, header)
  BY <1>1 DEF SetupWrappedRet
<1>3. record' \in RecordType
  <2>1. SetupRet(DataPtr(host), HeaderBytes, "BAD_PTR")
    BY DEF SetupWrappedRet
  <2>2. "BAD_PTR" \in Status /\ HeaderBytes \in Nat
    BY DEF Status
  <2> QED BY <1>1, <2>1, <2>2, SetupRetTyped
<1>4. at \in Nat /\ RecordBytes \in Nat /\ HeaderBytes \in Nat
  OBVIOUS
<1> HIDE DEF at, header, inner
<1>5. /\ Sized(inner) /\ Disjoint(inner)
      /\ \A o \in inner : o \in mem \/ o = Object(at, size, value)
  BY <1>4, PutKeeps DEF Inv, MemOK, inner
<1>6. /\ Sized(mem') /\ Disjoint(mem')
      /\ \A o \in mem' :
           o \in inner \/ o = Object(RecordBytes, HeaderBytes, header)
  BY <1>2, <1>4, <1>5, PutKeeps
<1>7. ASSUME at + size <= host.len, NEW o \in mem'
      PROVE  o \in mem \/ InHostBuffer(o)
  <2>1. CASE o = Object(at, size, value)
    BY <1>4, <1>7, <2>1 DEF InHostBuffer, Object, at
  <2>2. CASE o = Object(RecordBytes, HeaderBytes, header)
    <3>1. host.len \in Nat /\ HeaderBytes > 0
      BY MappedFacts DEF Inv
    <3> QED BY <1>4, <1>7, <2>2, <3>1 DEF InHostBuffer, Object, at
  <2> QED BY <1>5, <1>6, <2>1, <2>2
<1> QED BY <1>3, <1>6, <1>7 DEF MemOK, at

\* A reply that is written over the arguments.
LEMMA PlainReply ==
  ASSUME Inv, pc = "stopped", NEW m, Sized(m), Disjoint(m), NEW value,
         NEW ifBad \in Status,
         mem' = Put(m, OffsetFromPtr(host, DataPtr(host)), WordBytes, value),
         SetupRet(DataPtr(host), WordBytes, ifBad),
         \A o \in m : o \in mem \/ InHostBuffer(o)
  PROVE  /\ record' \in RecordType /\ MemOK'
         /\ \A o \in mem' : o \in mem \/ InHostBuffer(o)
<1>1. OffsetFromPtr(host, DataPtr(host)) = RecordBytes /\ DataPtr(host) \in Word
  BY DataSection DEF Inv
<1>2. record' \in RecordType
  BY <1>1, SetupRetTyped
<1>3. RecordBytes \in Nat /\ WordBytes \in Nat
  OBVIOUS
<1>4. /\ Sized(mem') /\ Disjoint(mem')
      /\ \A o \in mem' : o \in m \/ o = Object(RecordBytes, WordBytes, value)
  BY <1>1, <1>3, PutKeeps
<1>5. InHostBuffer(Object(RecordBytes, WordBytes, value))
  BY MappedFacts DEF Inv, InHostBuffer, Object
<1> QED BY <1>2, <1>4, <1>5 DEF MemOK

\* The effect of every handler, and of the two error paths before it.
LEMMA DispatchEffect ==
  ASSUME Inv, Dispatch
  PROVE  /\ record' \in RecordType /\ MemOK'
         /\ pArr' \in StoreType /\ pagesStore' \in StoreType
         /\ RepliesFit => \A o \in mem' : o \in mem \/ InHostBuffer(o)
<1> DEFINE Effect == /\ record' \in RecordType /\ MemOK'
                     /\ RepliesFit =>
                          \A o \in mem' : o \in mem \/ InHostBuffer(o)
           Stores == pArr' \in StoreType /\ pagesStore' \in StoreType
<1>1. /\ pc = "stopped"
      /\ pArr \in StoreType /\ pagesStore \in StoreType
      /\ record \in RecordType
  BY DEF Dispatch, Inv, TypeOK
<1>2. ASSUME NEW s \in Status, SetStatus(s), UNCHANGED mem PROVE Effect
  <2>1. record' \in RecordType
    BY <1>1, <1>2 DEF SetStatus, RecordType
  <2> QED BY <1>2, <2>1 DEF Inv, MemOK
<1>3. ASSUME NEW value, NEW size \in {WordBytes, PageBytes, TextBytes},
             SetupWrappedRet(value, size)
      PROVE  Effect
  <2>1. size \in Nat
    OBVIOUS
  <2>2. RepliesFit => RecordBytes + HeaderBytes + size <= host.len
    BY <1>1 DEF RepliesFit, Inv, Mapped
  <2> QED BY <1>1, <1>3, <2>1, <2>2, WrappedReply
<1> HIDE DEF Effect
<1>4. CASE IncomingSyscall
  <2>1. ASSUME ~ArgsOK \/ Args.num = "other syscall" PROVE Effect
    BY <1>2, <1>4, <2>1, <1>1 DEF IncomingSyscall, Status
  <2>2. ASSUME ArgsOK, Args.num # "other syscall" PROVE Effect
    <3> DEFINE at == OffsetFromPtr(host, PtrFromOffset(host, record.argOffset))
               done == IF Args.num # "read" THEN mem
                       ELSE Put(mem, at + SyscallBytes, Args.n,
                                FileBytes(Args.n))
    <3>1. /\ mem' = Put(done, OffsetFromPtr(host, DataPtr(host)), WordBytes,
                        Number(Args.n))
          /\ SetupRet(DataPtr(host), WordBytes, "SYSCALL_FAILED")
      BY <1>4, <2>2 DEF IncomingSyscall
    <3>2. at = RecordBytes /\ record.argOffset = RecordBytes
          /\ record.argSize = asked.bytes
      BY <1>1, DataSection DEF Inv, CallInBuffer
    <3>3. /\ asked.bytes > 0 /\ asked.bytes \in Nat
          /\ asked.arg.num = "read" =>
               asked.arg.n \in Nat /\ asked.bytes = SyscallBytes + asked.arg.n
      BY <1>1, <1>4 DEF IncomingSyscall, IsSyscall, Inv, CallInBuffer, CallShape
    <3>4. Args = asked.arg
      BY <1>1, <3>3, ArgsAreThose
    <3>5. asked.bytes <= Minus(host.len, RecordBytes)
      BY <2>2, <3>2 DEF ArgsOK, OffsetOK
    <3>6. RecordBytes + asked.bytes <= host.len
      BY <1>1, <3>3, <3>5, MappedFacts, SMT DEF Minus, Inv
    <3> HIDE DEF at
    <3>7. /\ Sized(done) /\ Disjoint(done)
          /\ \A o \in done : o \in mem \/ InHostBuffer(o)
      <4>1. CASE Args.num # "read"
        BY <4>1 DEF Inv, MemOK
      <4>2. CASE Args.num = "read"
        <5> DEFINE n == Args.n
                   off == RecordBytes + SyscallBytes
                   new == Object(off, n, FileBytes(n))
        <5>1. n \in Nat /\ off \in Nat /\ off + n <= host.len
          BY <4>2, <3>3, <3>4, <3>6
        <5>2. done = Put(mem, off, n, FileBytes(n))
          BY <4>2, <3>2
        <5>3. InHostBuffer(new)
          BY <5>1 DEF InHostBuffer, Object
        <5> HIDE DEF n, off, done
        <5>4. /\ Sized(done) /\ Disjoint(done)
              /\ \A o \in done : o \in mem \/ o = new
          BY <5>1, <5>2, PutKeeps DEF Inv, MemOK
        <5> QED BY <5>3, <5>4
      <4> QED BY <4>1, <4>2
    <3>8. "SYSCALL_FAILED" \in Status
      BY DEF Status
    <3> HIDE DEF done
    <3> QED BY <1>1, <3>1, <3>7, <3>8, PlainReply DEF Effect
  <2>3. Effect
    BY <2>1, <2>2
  <2> QED BY <1>1, <1>4, <2>3 DEF IncomingSyscall, Effect
<1>5. CASE BadCallId \/ BadOffset \/ PrintValue
  <2>1. Effect
    BY <1>2, <1>5 DEF BadCallId, BadOffset, PrintValue, Status
  <2> QED BY <1>1, <1>5, <2>1 DEF BadCallId, BadOffset, PrintValue, Effect
<1>6. CASE PrintBuffer
  <2>1. "BAD_PTR" \in Status
    BY DEF Status
  <2>2. Effect
    BY <1>1, <1>6, <2>1, PlainReply DEF PrintBuffer, Effect, Inv, MemOK
  <2> QED BY <1>1, <1>6, <2>2 DEF PrintBuffer, Effect
<1>7. CASE GetHostString \/ FetchPage \/ FindPage
  <2>1. Effect
    BY <1>3, <1>7 DEF GetHostString, FetchPage, FindPage
  <2> QED BY <1>1, <1>7, <2>1 DEF GetHostString, FetchPage, FindPage, Effect
<1>8. CASE StorePage \/ InsertPage
  <2>1. Effect
    BY <1>2, <1>3, <1>8 DEF StorePage, InsertPage, Status
  <2>2. \/ Callee = "store_page" \/ Callee = "insert_page"
    BY <1>8 DEF StorePage, InsertPage, Runs
  <2>3. asked.id \in DOMAIN Registered
        /\ Registered[asked.id] \in {"store_page", "insert_page"}
    BY <1>1, <2>2, RunsRegistered DEF Handler
  <2>4. asked.bytes > 0 /\ asked.arg.ver \in 0..MaxVersion
    BY <1>1, <2>3 DEF Inv, CallInBuffer, CallShape
  <2>5. Args.ver \in 0..MaxVersion
    BY <1>1, <2>4, ArgsAreThose
  <2>6. Stores
    BY <1>1, <1>8, <2>5 DEF StorePage, InsertPage, StoreType
  <2> QED BY <2>1, <2>6 DEF Effect
<1>9. CASE FullTrace
  <2>1. UNCHANGED <<record, mem, pArr, pagesStore>>
    BY <1>9 DEF FullTrace
  <2> QED BY <1>1, <2>1 DEF Inv, MemOK
<1> QED BY <1>4, <1>5, <1>6, <1>7, <1>8, <1>9 DEF Dispatch

-------------------------------------------------------------------------------
(* Every step keeps the invariant. *)

\* The calls the enclave makes have the shape the handlers read.
LEMMA CallsHaveShape ==
  ASSUME TypeOK, NEW c \in Calls
  PROVE  /\ CallShape(c)
         /\ c.to \in {"store_page", "insert_page"} => versions < MaxVersion
<1>1. versions \in Nat /\ MaxVersion \in Nat /\ MaxEdgeCall \in Nat
  BY DEF TypeOK
<1>2. ASSUME NEW id \in DOMAIN Registered,
             c \in HandlerCalls(id, Registered[id])
      PROVE  /\ CallShape(c)
             /\ c.to \in {"store_page", "insert_page"} => versions < MaxVersion
  <2> DEFINE f == Registered[id]
  <2>1. f \in Handler /\ id \in 0..(MaxEdgeCall - 1)
    OBVIOUS
  <2> HIDE DEF f
  <2>2. c.id = id /\ c.to = f /\ c.bytes \in Nat /\ c.arg.kind = "args"
    BY <1>2, <2>1 DEF HandlerCalls, Call, f, NoArgs, Arg, PageArg
  <2>3. CASE f \in {"store_page", "insert_page"}
    <3>1. PICK p \in {q \in Page : versions < MaxVersion} :
            c.bytes = PageBytes /\ c.arg = PageArg(p, versions + 1)
      BY <1>2, <2>3 DEF HandlerCalls, Call, f
    <3>2. versions < MaxVersion /\ c.arg.ver = versions + 1
      BY <3>1 DEF PageArg
    <3> QED BY <1>1, <2>1, <2>2, <3>1, <3>2 DEF CallShape
  <2>4. CASE f \notin {"store_page", "insert_page"}
    BY <1>1, <2>1, <2>2, <2>4 DEF CallShape, f
  <2> QED BY <2>3, <2>4
<1>3. ASSUME c.id \in 0..(MaxEdgeCall + 2) \ DOMAIN Registered,
             c.id = MaxEdgeCall + 1 => ~WrapSyscalls,
             c.bytes = WordBytes, c.arg = NoArgs,
             c.to \in {"nobody", "behind the table"}
      PROVE  /\ CallShape(c)
             /\ c.to \in {"store_page", "insert_page"} => versions < MaxVersion
  <2>1. c.bytes \in Nat /\ c.arg.kind = "args"
    <3>1. WordBytes \in Nat /\ NoArgs.kind = "args"
      BY DEF NoArgs
    <3> QED BY <1>3, <3>1
  <2>2. CallShape(c)
    BY <1>3, <2>1, Zenon DEF CallShape
  <2> QED BY <1>3, <2>2
<1>4. ASSUME c.id = MaxEdgeCall + 1, c.bytes \in Nat \ {0},
             c.to \in {"read", "sync", "other syscall"}, c.arg.kind = "args",
             c.arg.num = "read" =>
               c.arg.n \in Nat /\ c.bytes = SyscallBytes + c.arg.n
      PROVE  /\ CallShape(c)
             /\ c.to \in {"store_page", "insert_page"} => versions < MaxVersion
  <2> DEFINE id == c.id
             n == c.bytes
  <2>1. id = MaxEdgeCall + 1 /\ n \in Nat \ {0}
    BY <1>4
  <2> HIDE DEF id, n
  <2>2. /\ id \in 0..(MaxEdgeCall + 2) /\ id \notin DOMAIN Registered
        /\ n \in Nat /\ n > 0
    BY <1>1, <2>1
  <2>3. /\ c.id \in 0..(MaxEdgeCall + 2) /\ c.id \notin DOMAIN Registered
        /\ c.bytes \in Nat /\ c.bytes > 0
    BY <2>2 DEF id, n
  <2>4. CallShape(c)
    BY <1>4, <2>3, Zenon DEF CallShape
  <2> QED BY <1>4, <2>4
<1>5. CASE \E id \in DOMAIN Registered : c \in HandlerCalls(id, Registered[id])
  BY <1>2, <1>5
<1>6. CASE c \in {Call(id, "nobody", NoArgs, WordBytes, "nothing") :
                    id \in (0..(MaxEdgeCall - 1) \ DOMAIN Registered)
                           \cup {MaxEdgeCall + 2}}
  <2>1. PICK id \in (0..(MaxEdgeCall - 1) \ DOMAIN Registered)
                    \cup {MaxEdgeCall + 2} :
          c = Call(id, "nobody", NoArgs, WordBytes, "nothing")
    BY <1>6
  <2>2. c.id = id /\ c.bytes = WordBytes /\ c.to = "nobody"
        /\ c.arg = NoArgs
    BY <2>1 DEF Call
  <2>3. id \in 0..(MaxEdgeCall + 2) \ DOMAIN Registered /\ id # MaxEdgeCall + 1
    BY <1>1
  <2> QED BY <1>3, <2>2, <2>3
<1>7. CASE c = Call(MaxEdgeCall, "behind the table", NoArgs, WordBytes,
                    "nothing")
  <2>1. c.id = MaxEdgeCall /\ c.bytes = WordBytes /\ c.to = "behind the table"
        /\ c.arg = NoArgs
    BY <1>7 DEF Call
  <2>2. /\ MaxEdgeCall \in 0..(MaxEdgeCall + 2) \ DOMAIN Registered
        /\ MaxEdgeCall # MaxEdgeCall + 1
    BY <1>1
  <2> QED BY <1>3, <2>1, <2>2
<1>8. CASE /\ ~WrapSyscalls
           /\ c = Call(MaxEdgeCall + 1, "nobody", NoArgs, WordBytes, "nothing")
  <2>1. c.id = MaxEdgeCall + 1 /\ c.bytes = WordBytes /\ c.to = "nobody"
        /\ c.arg = NoArgs
    BY <1>8 DEF Call
  <2>2. MaxEdgeCall + 1 \in 0..(MaxEdgeCall + 2) \ DOMAIN Registered
    BY <1>1
  <2> QED BY <1>3, <1>8, <2>1, <2>2
<1>9. CASE WrapSyscalls /\ \E n \in Lengths :
             c = Call(MaxEdgeCall + 1, "read", SyscallArg("read", n),
                      SyscallBytes + n, "file")
  <2>1. PICK n \in Lengths : c = Call(MaxEdgeCall + 1, "read",
                               SyscallArg("read", n), SyscallBytes + n, "file")
    BY <1>9
  <2>2. n \in Nat /\ SyscallBytes \in Nat \ {0}
    OBVIOUS
  <2>3. /\ c.id = MaxEdgeCall + 1 /\ c.to = "read"
        /\ c.bytes = SyscallBytes + n /\ c.arg.n = n /\ c.arg.kind = "args"
    BY <2>1 DEF Call, SyscallArg
  <2>4. c.bytes \in Nat \ {0} /\ c.arg.n \in Nat
    BY <2>2, <2>3
  <2> QED BY <1>4, <2>3, <2>4
<1>10. CASE WrapSyscalls /\ \E call \in {"sync", "other syscall"} :
              c = Call(MaxEdgeCall + 1, call, SyscallArg(call, 0),
                       SyscallBytes, "reply")
  <2>1. PICK call \in {"sync", "other syscall"} :
          c = Call(MaxEdgeCall + 1, call, SyscallArg(call, 0), SyscallBytes,
                   "reply")
    BY <1>10
  <2>2. /\ c.id = MaxEdgeCall + 1 /\ c.to = call
        /\ c.bytes = SyscallBytes /\ c.arg.num = call /\ c.arg.kind = "args"
    BY <2>1 DEF Call, SyscallArg
  <2>3. SyscallBytes \in Nat \ {0}
    OBVIOUS
  <2> QED BY <1>4, <2>2, <2>3
<1>11. \/ \E id \in DOMAIN Registered : c \in HandlerCalls(id, Registered[id])
       \/ c \in {Call(id, "nobody", NoArgs, WordBytes, "nothing") :
                   id \in (0..(MaxEdgeCall - 1) \ DOMAIN Registered)
                          \cup {MaxEdgeCall + 2}}
       \/ c = Call(MaxEdgeCall, "behind the table", NoArgs, WordBytes,
                   "nothing")
       \/ /\ ~WrapSyscalls
          /\ c = Call(MaxEdgeCall + 1, "nobody", NoArgs, WordBytes, "nothing")
       \/ WrapSyscalls /\ \E n \in Lengths :
            c = Call(MaxEdgeCall + 1, "read", SyscallArg("read", n),
                     SyscallBytes + n, "file")
       \/ WrapSyscalls /\ \E call \in {"sync", "other syscall"} :
            c = Call(MaxEdgeCall + 1, call, SyscallArg(call, 0), SyscallBytes,
                     "reply")
  BY Zenon DEF Calls
<1> QED BY <1>5, <1>6, <1>7, <1>8, <1>9, <1>10, <1>11

LEMMA InitInv == Init => Inv
<1> SUFFICES ASSUME Init PROVE Inv
  OBVIOUS
<1>1. TypeOK
  <2>1. {host, enclave} \subseteq Mapping
    BY DEF Init, Mapping, Word
  <2>2. table \in [0..MaxEdgeCall -> Handler \cup {Null, "wild"}]
    BY DEF Init
  <2>3. record \in RecordType
    BY DEF Init, RecordType, Status, Word
  <2>4. pArr \in StoreType /\ pagesStore \in StoreType
    BY DEF Init, StoreType
  <2> QED BY <2>1, <2>2, <2>3, <2>4 DEF Init, TypeOK
<1>2. Registry
  BY DEF Init, Registry, Handler, Null
<1>3. MemOK
  BY DEF Init, MemOK, Sized, Disjoint
<1> QED BY <1>1, <1>2, <1>3 DEF Init, Inv, Mapped, CallInBuffer

LEMMA StepInv == Inv /\ [Next]_vars => Inv'
<1> SUFFICES ASSUME Inv, [Next]_vars PROVE Inv'
  OBVIOUS
<1> USE DEF Inv
<1>1. CASE EdgeInit
  <2>1. PICK b \in Buffers : host' = b.host /\ enclave' = b.enclave
    BY <1>1 DEF EdgeInit
  <2>2. {host', enclave'} \subseteq Mapping
    BY <2>1
  <2>3. \A id \in DOMAIN Registered :
          id \in 0..MaxEdgeCall /\ ~(id > MaxEdgeCall)
    OBVIOUS
  <2>4. /\ \A id \in DOMAIN Registered : table'[id] = Registered[id]
        /\ \A id \in 0..MaxEdgeCall \ DOMAIN Registered :
             table'[id] = table[id]
        /\ table' \in [0..MaxEdgeCall -> Handler \cup {Null, "wild"}]
    BY <1>1, <2>3 DEF EdgeInit, RegisterCall, TypeOK
  <2>5. TypeOK'
    BY <1>1, <2>2, <2>4 DEF EdgeInit, TypeOK
  <2>6. Registry'
    BY <2>4 DEF Registry
  <2> QED BY <1>1, <2>1, <2>5, <2>6 DEF EdgeInit, Mapped, MemOK, CallInBuffer
<1>2. CASE Ocall
  <2>1. pc = "enclave" /\ pc' = "stopped"
        /\ UNCHANGED <<host, enclave, table, pArr, pagesStore>>
    BY <1>2 DEF Ocall
  <2>2. PICK c \in Calls :
          /\ asked' = c
          /\ mem' = Put(mem, RecordBytes, c.bytes, c.arg)
          /\ record' = [record EXCEPT !.id = c.id, !.argOffset = RecordBytes,
                                      !.argSize = c.bytes]
          /\ versions' = IF c.to \in {"store_page", "insert_page"}
                           THEN versions + 1 ELSE versions
    BY <1>2, <2>1, DataSection DEF Ocall
  <2>3. /\ CallShape(c)
        /\ c.to \in {"store_page", "insert_page"} => versions < MaxVersion
    BY CallsHaveShape
  <2>4. c.bytes \in Nat /\ c.id \in 0..(MaxEdgeCall + 2)
    BY <2>3 DEF CallShape
  <2>5. RecordBytes \in Nat /\ RecordBytes \in Word
    BY <2>1, MappedFacts DEF Mapping, Word
  <2>6. /\ Sized(mem') /\ Disjoint(mem')
        /\ c.bytes > 0 => Object(RecordBytes, c.bytes, c.arg) \in mem'
    BY <2>2, <2>4, <2>5, PutKeeps DEF MemOK
  <2>7. record' \in RecordType
        /\ record'.id = c.id /\ record'.argOffset = RecordBytes
        /\ record'.argSize = c.bytes
    BY <2>2, <2>4, <2>5 DEF TypeOK, RecordType
  <2>8. versions' \in 0..MaxVersion
    BY <2>2, <2>3 DEF TypeOK
  <2>9. TypeOK'
    BY <2>1, <2>6, <2>7, <2>8 DEF TypeOK, Sized
  <2>10. CallInBuffer'
    BY <2>2, <2>3, <2>6, <2>7 DEF CallInBuffer
  <2> QED BY <2>1, <2>6, <2>9, <2>10 DEF Mapped, Registry, MemOK
<1>3. CASE Dispatch
  <2>1. /\ record' \in RecordType /\ MemOK'
        /\ pArr' \in StoreType /\ pagesStore' \in StoreType
    BY <1>3, DispatchEffect
  <2>2. pc = "stopped" /\ pc' = "handled"
        /\ UNCHANGED <<host, enclave, table, versions, asked>>
    BY <1>3 DEF Dispatch
  <2>3. TypeOK'
    BY <2>1, <2>2 DEF TypeOK, MemOK, Sized
  <2> QED BY <2>1, <2>2, <2>3 DEF Mapped, Registry, CallInBuffer
<1>4. CASE Die
  <2>1. /\ pc = "stopped" /\ pc' = "gone"
        /\ UNCHANGED <<host, enclave, table, record, mem, pArr, pagesStore,
                       versions, asked>>
    BY <1>4 DEF Die
  <2> QED BY <2>1 DEF TypeOK, Mapped, Registry, MemOK, CallInBuffer
<1>5. CASE Return
  <2>1. /\ pc = "handled" /\ pc' = "enclave"
        /\ UNCHANGED <<host, enclave, table, record, mem, pArr, pagesStore,
                       versions>>
    BY <1>5 DEF Return
  <2> QED BY <2>1 DEF TypeOK, Mapped, Registry, MemOK, CallInBuffer
<1>6. CASE UNCHANGED vars
  BY <1>6 DEF vars, TypeOK, Mapped, Registry, MemOK, CallInBuffer
<1> QED BY <1>1, <1>2, <1>3, <1>4, <1>5, <1>6 DEF Next

LEMMA InvHolds == Spec => []Inv
BY InitInv, StepInv, PTL DEF Spec

\* The record, the table and the page stores have their types whatever call
\* follows whatever other: register_call, ocall and every handler.
THEOREM TypeCorrect == Spec => []TypeOK
<1>1. Inv => TypeOK
  BY DEF Inv
<1> QED BY <1>1, InvHolds, PTL

\* Replies that fit behind the header stay in the buffer: arguments, plain and
\* wrapped replies and the bytes of read() (edge_call_setup_wrapped_ret,
\* incoming_syscall), for every length of call and every order of calls.
THEOREM AllStaysInBuffer ==
  ASSUME RepliesFit
  PROVE  Spec => []StaysInBuffer
<1>1. Init => StaysInBuffer
  BY DEF Init, StaysInBuffer
<1>2. Inv /\ StaysInBuffer /\ [Next]_vars => StaysInBuffer'
  <2> SUFFICES ASSUME Inv, StaysInBuffer, [Next]_vars PROVE StaysInBuffer'
    OBVIOUS
  <2>1. CASE EdgeInit
    BY <2>1 DEF EdgeInit, Inv, Mapped, StaysInBuffer
  <2>2. CASE Ocall
    <3>1. pc = "enclave" /\ host' = host /\ enclave' = enclave
      BY <2>2 DEF Ocall
    <3>2. PICK c \in Calls :
            /\ CheckPtr(enclave, DataPtr(enclave), c.bytes) = 0
            /\ mem' = Put(mem, RecordBytes, c.bytes, c.arg)
      BY <2>2, <3>1, DataSection DEF Ocall, Inv
    <3>3. c.bytes \in Nat /\ c.arg.kind = "args"
      BY CallsHaveShape DEF Inv, CallShape
    <3>4. /\ enclave.start \in Nat /\ enclave.len \in Nat /\ WordMax \in Nat
          /\ enclave.start + enclave.len <= WordMax
          /\ RecordBytes \in Nat /\ RecordBytes <= enclave.len
      BY <3>1, MappedFacts, SMT DEF Inv, Mapping, Word
    <3>5. DataPtr(enclave) = enclave.start + RecordBytes
      BY <3>1, <3>4, SMT DEF DataPtr, Plus
    <3>6. RecordBytes + c.bytes <= enclave.len
      BY <3>2, <3>3, <3>4, <3>5, SMT DEF CheckPtr, Plus, Minus
    <3>7. \A o \in mem' :
            o \in mem \/ o = Object(RecordBytes, c.bytes, c.arg)
      BY <3>2, <3>3, <3>4, PutKeeps DEF Inv, MemOK
    <3> QED BY <3>1, <3>3, <3>6, <3>7 DEF StaysInBuffer, Object
  <2>3. CASE Dispatch
    <3>1. \A o \in mem' : o \in mem \/ InHostBuffer(o)
      BY <2>3, DispatchEffect
    <3>2. /\ host' = host /\ enclave' = enclave
          /\ host.len \in Nat /\ enclave.len \in Nat /\ host.len <= enclave.len
      BY <2>3, MappedFacts DEF Dispatch, Inv
    <3>3. \A o \in mem' : o.at \in Nat /\ o.size \in Nat
      BY <2>3, DispatchEffect DEF MemOK, Sized
    <3> QED BY <3>1, <3>2, <3>3 DEF StaysInBuffer, InHostBuffer
  <2>4. CASE Die \/ Return \/ UNCHANGED vars
    BY <2>4 DEF Die, Return, vars, StaysInBuffer
  <2> QED BY <2>1, <2>2, <2>3, <2>4 DEF Next
<1> QED BY <1>1, <1>2, InvHolds, PTL DEF Spec

-------------------------------------------------------------------------------
(* EdgeCall implements EdgeService, for words of any size, any buffers and   *)
(* any registrations: the answer an enclave sees is that of the function it  *)
(* called.  First what the enclave makes of a record and of the bytes behind *)
(* it.                                                                       *)

USE SizeAssumption, CallAssumption

\* Outcome, of any enclave's mapping, call, record and bytes.
OutcomeOf(e, c, r, m) ==
  LET at(offset) == OffsetFromPtr(e, PtrFromOffset(e, offset))
      reply == Get(m, at(r.retOffset), r.retSize) IN
  IF r.status # "OK" THEN [kind |-> "failed"]
  ELSE IF c.wants = "nothing" THEN [kind |-> "done"]
  ELSE IF ~OffsetOK(e, r.retOffset, r.retSize) THEN [kind |-> "failed"]
  ELSE IF c.wants = "reply" THEN reply
  ELSE IF c.wants = "file" THEN Get(m, RecordBytes + SyscallBytes, c.arg.n)
  ELSE IF reply.kind # "header" THEN Garbage
  ELSE IF ~OffsetOK(e, reply.offset, reply.size) THEN [kind |-> "failed"]
  ELSE Get(m, at(reply.offset), reply.size)

LEMMA OutcomeIsThat ==
  /\ Outcome = OutcomeOf(enclave, asked, record, mem)
  /\ Outcome' = OutcomeOf(enclave', asked', record', mem')
BY DEF Outcome, OutcomeOf

\* A range of the buffer can be read, and holds the object that lies there.
LEMMA ReadsObject ==
  ASSUME NEW e \in Mapping, NEW m, Sized(m), Disjoint(m),
         NEW at \in Nat, NEW size \in Nat, at + size <= e.len,
         NEW value, Object(at, size, value) \in m
  PROVE  /\ OffsetOK(e, at, size)
         /\ Get(m, OffsetFromPtr(e, PtrFromOffset(e, at)), size) = value
         /\ Get(m, at, size) = value
<1> DEFINE o == Object(at, size, value)
<1>1. o.at = at /\ o.size = size /\ o.value = value /\ o \in m
  BY DEF Object
<1> HIDE DEF o
<1>2. Get(m, at, size) = value
  BY <1>1, GetFinds
<1>3. e.len \in Word /\ WordMax \in Nat
  BY DEF Mapping
<1>4. at \in Word /\ size \in Word /\ at <= e.len
  BY <1>3 DEF Word
<1>5. OffsetOK(e, at, size)
  BY <1>4, ExactForAll DEF ExactFor
<1>6. OffsetFromPtr(e, PtrFromOffset(e, at)) = at
  BY <1>4, ThereAndBack DEF PtrFromOffset
<1> QED BY <1>2, <1>5, <1>6

\* A reply at the front of the data section is what a caller of it sees.
LEMMA SeesPlain ==
  ASSUME NEW e \in Mapping, NEW m, Sized(m), Disjoint(m), NEW c, NEW r,
         NEW value, Object(RecordBytes, WordBytes, value) \in m,
         RecordBytes + WordBytes <= e.len, c.wants = "reply",
         r.status = "OK", r.retOffset = RecordBytes, r.retSize = WordBytes
  PROVE  OutcomeOf(e, c, r, m) = value
<1>1. RecordBytes \in Nat /\ WordBytes \in Nat
  OBVIOUS
<1>2. /\ OffsetOK(e, RecordBytes, WordBytes)
      /\ Get(m, OffsetFromPtr(e, PtrFromOffset(e, RecordBytes)), WordBytes)
           = value
  BY <1>1, ReadsObject
<1> QED BY <1>2 DEF OutcomeOf

\* So is what a header there leads to.
LEMMA SeesWrapped ==
  ASSUME NEW e \in Mapping, NEW m, Sized(m), Disjoint(m), NEW c, NEW r,
         NEW value, NEW size \in Nat,
         Object(RecordBytes, HeaderBytes,
                [kind |-> "header", offset |-> RecordBytes + HeaderBytes,
                 size |-> size]) \in m,
         Object(RecordBytes + HeaderBytes, size, value) \in m,
         RecordBytes + HeaderBytes + size <= e.len, c.wants = "wrapped",
         r.status = "OK", r.retOffset = RecordBytes, r.retSize = HeaderBytes
  PROVE  OutcomeOf(e, c, r, m) = value
<1> DEFINE at == RecordBytes + HeaderBytes
           header == [kind |-> "header", offset |-> at, size |-> size]
<1>1. RecordBytes \in Nat /\ HeaderBytes \in Nat /\ at \in Nat
  OBVIOUS
<1>2. e.len \in Nat
  BY DEF Mapping, Word
<1>3. /\ OffsetOK(e, RecordBytes, HeaderBytes)
      /\ Get(m, OffsetFromPtr(e, PtrFromOffset(e, RecordBytes)), HeaderBytes)
           = header
  BY <1>1, <1>2, ReadsObject
<1>4. /\ OffsetOK(e, at, size)
      /\ Get(m, OffsetFromPtr(e, PtrFromOffset(e, at)), size) = value
  BY <1>1, <1>2, ReadsObject
<1>5. header.kind = "header" /\ header.offset = at /\ header.size = size
  OBVIOUS
<1> HIDE DEF header, at
<1> QED BY <1>3, <1>4, <1>5 DEF OutcomeOf

\* And the bytes read into the arguments.
LEMMA SeesFile ==
  ASSUME NEW e \in Mapping, NEW m, Sized(m), Disjoint(m), NEW c, NEW r,
         NEW reply, Object(RecordBytes, WordBytes, reply) \in m,
         NEW value, c.arg.n \in Nat,
         Object(RecordBytes + SyscallBytes, c.arg.n, value) \in m,
         RecordBytes + SyscallBytes + c.arg.n <= e.len, c.wants = "file",
         r.status = "OK", r.retOffset = RecordBytes, r.retSize = WordBytes
  PROVE  OutcomeOf(e, c, r, m) = value
<1>1. /\ RecordBytes \in Nat /\ WordBytes \in Nat
      /\ RecordBytes + SyscallBytes \in Nat /\ e.len \in Nat
      /\ RecordBytes + WordBytes <= RecordBytes + SyscallBytes
  BY DEF Mapping, Word
<1>2. RecordBytes + WordBytes <= e.len
  BY <1>1
<1>3. OffsetOK(e, RecordBytes, WordBytes)
  BY <1>1, <1>2, ReadsObject
<1>4. Get(m, RecordBytes + SyscallBytes, c.arg.n) = value
  BY <1>1, ReadsObject
<1> QED BY <1>3, <1>4 DEF OutcomeOf

-------------------------------------------------------------------------------
(* The invariant: who is called follows from the id. *)

Wrapped == {"get_string", "store_page", "fetch_page", "find_page"}
Silent == {"print_value", "insert_page", "full_trace", "call_exit"}
Paged == {"store_page", "insert_page", "fetch_page", "find_page"}
Syscalls == {"read", "sync", "other syscall"}

\* What a call of a handler is for, and of the wrapped system calls.
ForHandler(c) ==
  /\ c.to = Registered[c.id]
  /\ c.to # "get_string" => c.bytes > 0
  /\ c.to = "print_buffer" => c.wants = "reply"
  /\ c.to \in Wrapped => c.wants = "wrapped"
  /\ c.to \in Silent => c.wants = "nothing"
  /\ c.to \in Paged => c.arg.page \in Page

ForSyscall(c) ==
  /\ c.to \in Syscalls /\ c.arg.num = c.to
  /\ c.to = "read" => c.wants = "file" /\ c.arg.n > 0
  /\ c.to # "read" => c.wants = "reply" /\ c.arg.n = 0

IsSyscallId(id) == WrapSyscalls /\ id = MaxEdgeCall + 1

Meant(c) ==
  /\ c.to # "none"
  /\ c.fits <=> c.bytes <= host.len - RecordBytes
  /\ c.id \in DOMAIN Registered => ForHandler(c)
  /\ c.id = MaxEdgeCall => c.to = "behind the table" /\ c.bytes = WordBytes
  /\ IsSyscallId(c.id) => ForSyscall(c)
  /\ \/ c.id \in DOMAIN Registered \/ c.id = MaxEdgeCall \/ IsSyscallId(c.id)
     \/ c.to = "nobody"

Asked ==
  /\ pc \in {"setup", "enclave"} => asked = NoCall
  /\ pc \in {"stopped", "handled", "gone"} => Meant(asked)

Empty == \A id \in 0..(MaxEdgeCall - 1) \ DOMAIN Registered : table[id] = Null

Answered ==
  pc = "handled" => Outcome \notin {[kind |-> "none"], [kind |-> "gone"]}

ServeInv == Inv /\ Asked /\ Empty /\ Answered

\* The fields of a call.
LEMMA CallFields ==
  ASSUME NEW id, NEW to, NEW arg, NEW bytes, NEW wants, NEW c,
         c = Call(id, to, arg, bytes, wants)
  PROVE  /\ c.id = id /\ c.to = to /\ c.arg = arg /\ c.bytes = bytes
         /\ c.wants = wants
         /\ c.fits <=> c.bytes <= host.len - RecordBytes
BY DEF Call

\* Every call the enclave makes says what it is for.
LEMMA CallsAreMeant ==
  ASSUME Mapped, pc # "setup", NEW c \in Calls
  PROVE  Meant(c)
<1>0. host.len \in Nat /\ RecordBytes \in Nat /\ MaxEdgeCall \in Nat
  BY MappedFacts
<1>1. ASSUME NEW id \in DOMAIN Registered,
             c \in HandlerCalls(id, Registered[id])
      PROVE  Meant(c)
  <2> DEFINE f == Registered[id]
  <2>1. f \in Handler /\ id \in 0..(MaxEdgeCall - 1)
    OBVIOUS
  <2>2. id # MaxEdgeCall /\ id # MaxEdgeCall + 1
    BY <1>0, <2>1
  <2> HIDE DEF f
  <2>3. c.id = id /\ c.to = f /\ (c.fits <=> c.bytes <= host.len - RecordBytes)
    <3>1. \E arg, bytes, wants : c = Call(id, f, arg, bytes, wants)
      BY <1>1, <2>1 DEF HandlerCalls, f
    <3> QED BY <3>1, CallFields
  <2>4. /\ c.to # "get_string" => c.bytes > 0
        /\ c.to = "print_buffer" => c.wants = "reply"
        /\ c.to \in Wrapped => c.wants = "wrapped"
        /\ c.to \in Silent => c.wants = "nothing"
        /\ c.to \in Paged => c.arg.page \in Page
    <3>1. CASE f = "print_buffer"
      <4>1. PICK n \in Lengths : c = Call(id, f, Arg(n), n, "reply")
        BY <1>1, <3>1 DEF HandlerCalls, f
      <4> QED BY <2>3, <3>1, <4>1 DEF Call, Wrapped, Silent, Paged
    <3>2. CASE f = "store_page"
      <4>1. PICK p \in Page : c = Call(id, f, PageArg(p, versions + 1),
                                       PageBytes, "wrapped")
        BY <1>1, <3>2 DEF HandlerCalls, f
      <4> QED BY <2>3, <3>2, <4>1 DEF Call, PageArg, Wrapped, Silent, Paged
    <3>3. CASE f = "insert_page"
      <4>1. PICK p \in Page : c = Call(id, f, PageArg(p, versions + 1),
                                       PageBytes, "nothing")
        BY <1>1, <3>3 DEF HandlerCalls, f
      <4> QED BY <2>3, <3>3, <4>1 DEF Call, PageArg, Wrapped, Silent, Paged
    <3>4. CASE f \in {"fetch_page", "find_page"}
      <4>1. PICK p \in Page : c = Call(id, f, PageArg(p, 0), WordBytes,
                                       "wrapped")
        BY <1>1, <3>4 DEF HandlerCalls, f
      <4> QED BY <2>3, <3>4, <4>1 DEF Call, PageArg, Wrapped, Silent, Paged
    <3>5. CASE f = "get_string"
      <4>1. c = Call(id, f, NoArgs, 0, "wrapped")
        BY <1>1, <3>5 DEF HandlerCalls, f
      <4> QED BY <2>3, <3>5, <4>1 DEF Call, Wrapped, Silent, Paged
    <3>6. CASE f \in {"print_value", "full_trace", "call_exit"}
      <4>1. c = Call(id, f, NoArgs, WordBytes, "nothing")
        BY <1>1, <3>6 DEF HandlerCalls, f
      <4> QED BY <2>3, <3>6, <4>1 DEF Call, Wrapped, Silent, Paged
    <3> QED BY <2>1, <3>1, <3>2, <3>3, <3>4, <3>5, <3>6 DEF Handler
  <2> QED BY <2>1, <2>2, <2>3, <2>4
          DEF Meant, ForHandler, IsSyscallId, Handler, f
<1>2. ASSUME NEW id \in (0..(MaxEdgeCall - 1) \ DOMAIN Registered)
                        \cup {MaxEdgeCall + 2},
             c = Call(id, "nobody", NoArgs, WordBytes, "nothing")
      PROVE  Meant(c)
  <2>1. /\ id \notin DOMAIN Registered
        /\ id # MaxEdgeCall /\ id # MaxEdgeCall + 1
    BY <1>0
  <2> QED BY <1>2, <2>1 DEF Meant, Call, IsSyscallId
<1>3. ASSUME c = Call(MaxEdgeCall, "behind the table", NoArgs, WordBytes,
                      "nothing")
      PROVE  Meant(c)
  <2>1. MaxEdgeCall \notin DOMAIN Registered /\ MaxEdgeCall # MaxEdgeCall + 1
    BY <1>0
  <2> QED BY <1>3, <2>1 DEF Meant, Call, IsSyscallId
<1>4. ASSUME ~WrapSyscalls,
             c = Call(MaxEdgeCall + 1, "nobody", NoArgs, WordBytes, "nothing")
      PROVE  Meant(c)
  <2>1. /\ MaxEdgeCall + 1 \notin DOMAIN Registered
        /\ MaxEdgeCall # MaxEdgeCall + 1
    BY <1>0
  <2> QED BY <1>4, <2>1 DEF Meant, Call, IsSyscallId
<1>5. ASSUME WrapSyscalls, c.id = MaxEdgeCall + 1, ForSyscall(c),
             c.fits <=> c.bytes <= host.len - RecordBytes
      PROVE  Meant(c)
  <2>1. /\ MaxEdgeCall + 1 \notin DOMAIN Registered
        /\ MaxEdgeCall # MaxEdgeCall + 1
    BY <1>0
  <2> QED BY <1>5, <2>1 DEF Meant, IsSyscallId, ForSyscall, Syscalls
<1>6. ASSUME WrapSyscalls, NEW n \in Lengths,
             c = Call(MaxEdgeCall + 1, "read", SyscallArg("read", n),
                      SyscallBytes + n, "file")
      PROVE  Meant(c)
  <2>1. ForSyscall(c) /\ c.id = MaxEdgeCall + 1
        /\ (c.fits <=> c.bytes <= host.len - RecordBytes)
    <3>1. n \in Nat \ {0}
      BY Zenon
    <3>2. /\ c.id = MaxEdgeCall + 1 /\ c.to = "read" /\ c.wants = "file"
          /\ c.arg = SyscallArg("read", n)
          /\ c.fits <=> c.bytes <= host.len - RecordBytes
      BY <1>6, CallFields
    <3> QED BY <3>1, <3>2 DEF ForSyscall, SyscallArg, Syscalls
  <2> QED BY <1>5, <1>6, <2>1
<1>7. ASSUME WrapSyscalls, NEW call \in {"sync", "other syscall"},
             c = Call(MaxEdgeCall + 1, call, SyscallArg(call, 0),
                      SyscallBytes, "reply")
      PROVE  Meant(c)
  <2>1. ForSyscall(c) /\ c.id = MaxEdgeCall + 1
        /\ (c.fits <=> c.bytes <= host.len - RecordBytes)
    BY <1>7 DEF ForSyscall, Call, SyscallArg, Syscalls
  <2> QED BY <1>5, <1>7, <2>1
<1>8. \/ \E id \in DOMAIN Registered : c \in HandlerCalls(id, Registered[id])
      \/ \E id \in (0..(MaxEdgeCall - 1) \ DOMAIN Registered)
                   \cup {MaxEdgeCall + 2} :
           c = Call(id, "nobody", NoArgs, WordBytes, "nothing")
      \/ c = Call(MaxEdgeCall, "behind the table", NoArgs, WordBytes,
                  "nothing")
      \/ /\ ~WrapSyscalls
         /\ c = Call(MaxEdgeCall + 1, "nobody", NoArgs, WordBytes, "nothing")
      \/ WrapSyscalls /\ \E n \in Lengths :
           c = Call(MaxEdgeCall + 1, "read", SyscallArg("read", n),
                    SyscallBytes + n, "file")
      \/ WrapSyscalls /\ \E call \in {"sync", "other syscall"} :
           c = Call(MaxEdgeCall + 1, call, SyscallArg(call, 0), SyscallBytes,
                    "reply")
  BY Zenon DEF Calls
<1> QED BY <1>1, <1>2, <1>3, <1>4, <1>6, <1>7, <1>8

-------------------------------------------------------------------------------
(* What one dispatch answers. *)

\* The host refuses exactly the arguments that do not fit its buffer.
LEMMA ArgsFit ==
  ASSUME ServeInv, pc = "stopped"
  PROVE  ArgsOK <=> asked.fits
<1>1. /\ host \in Mapping /\ host.len \in Nat /\ RecordBytes \in Nat
      /\ RecordBytes <= host.len
  BY MappedFacts DEF ServeInv, Inv
<1>2. /\ record.argOffset = RecordBytes /\ record.argSize = asked.bytes
      /\ asked.bytes \in Nat
  BY DEF ServeInv, Inv, CallInBuffer, CallShape
<1>3. asked.fits <=> asked.bytes <= host.len - RecordBytes
  BY DEF ServeInv, Asked, Meant
<1> DEFINE n == asked.bytes
<1>4. n \in Nat
  BY <1>2
<1> HIDE DEF n
<1>5. OffsetOK(host, RecordBytes, n) <=> n <= host.len - RecordBytes
  <2>1. /\ host.start \in Nat /\ host.start + host.len <= WordMax
        /\ WordMax \in Nat
    BY <1>1 DEF Mapping, Word
  <2> QED BY <1>1, <1>4, <2>1, SMT DEF OffsetOK, Plus, Minus
<1> QED BY <1>2, <1>3, <1>5 DEF ArgsOK, n

\* A reply in the data section is announced there.
LEMMA Announced ==
  ASSUME ServeInv, pc = "stopped", NEW size \in Nat, size <= HeaderBytes,
         NEW ifBad, SetupRet(DataPtr(host), size, ifBad)
  PROVE  /\ record'.status = "OK" /\ record'.retOffset = RecordBytes
         /\ record'.retSize = size
<1>1. /\ host \in Mapping /\ host.len \in Nat /\ RecordBytes \in Nat
      /\ RecordBytes + 2 * HeaderBytes <= host.len /\ HeaderBytes \in Nat
  BY MappedFacts DEF ServeInv, Inv
<1>2. /\ DataPtr(host) = host.start + RecordBytes /\ DataPtr(host) \in Word
      /\ OffsetFromPtr(host, DataPtr(host)) = RecordBytes
  BY DataSection DEF ServeInv, Inv
<1>3. /\ host.start \in Nat /\ host.start + host.len <= WordMax
      /\ WordMax \in Nat
  BY <1>1 DEF Mapping, Word
<1>4. /\ size \in Word /\ host.start <= DataPtr(host)
      /\ DataPtr(host) + size <= host.start + host.len
  BY <1>1, <1>2, <1>3 DEF Word
<1>5. CheckPtr(host, DataPtr(host), size) = 0
  BY <1>1, <1>2, <1>4, ExactForAll DEF ExactFor
<1>6. record \in RecordType
  BY DEF ServeInv, Inv, TypeOK
<1> QED BY <1>2, <1>5, <1>6 DEF SetupRet, RecordType

\* The two sides of a step that answers: refused, or served.
Failed == [kind |-> "failed"]

StoresServed ==
  /\ pArr' = IF asked.to = "store_page"
               THEN [pArr EXCEPT ![asked.arg.page] = asked.arg.ver] ELSE pArr
  /\ pagesStore' =
       IF asked.to = "insert_page" /\ pagesStore[asked.arg.page] = 0
         THEN [pagesStore EXCEPT ![asked.arg.page] = asked.arg.ver]
         ELSE pagesStore

Refused == ~asked.fits /\ Outcome' = Failed /\ UNCHANGED <<pArr, pagesStore>>
Served == asked.fits /\ Outcome' \in Service!Answers(asked) /\ StoresServed
Sees == Outcome' \notin {[kind |-> "none"], [kind |-> "gone"]}

\* A status other than OK is all the caller sees.
LEMMA BadStatus ==
  ASSUME record'.status # "OK"
  PROVE  Outcome' = Failed
BY OutcomeIsThat DEF OutcomeOf, Failed

\* A wrapped reply arrives.
LEMMA WrappedArrives ==
  ASSUME ServeInv, pc = "stopped", RepliesFit, UNCHANGED <<enclave, asked>>,
         asked.wants = "wrapped", NEW value,
         NEW size \in {WordBytes, PageBytes, TextBytes},
         SetupWrappedRet(value, size)
  PROVE  Outcome' = value
<1> DEFINE at == RecordBytes + HeaderBytes
           header == [kind |-> "header", offset |-> at, size |-> size]
           inner == Put(mem, at, size, value)
<1>1. /\ OffsetFromPtr(host, DataPtr(host)) = RecordBytes
      /\ OffsetFromPtr(host, Plus(DataPtr(host), HeaderBytes)) = at
  BY DataSection DEF ServeInv, Inv
<1>2. /\ mem' = Put(inner, RecordBytes, HeaderBytes, header)
      /\ SetupRet(DataPtr(host), HeaderBytes, "BAD_PTR")
  BY <1>1 DEF SetupWrappedRet
<1>3. /\ record'.status = "OK" /\ record'.retOffset = RecordBytes
      /\ record'.retSize = HeaderBytes
  BY <1>2, Announced
<1>4. /\ RecordBytes \in Nat /\ HeaderBytes \in Nat /\ HeaderBytes > 0
      /\ size \in Nat /\ size > 0 /\ at \in Nat
  OBVIOUS
<1>5. /\ enclave \in Mapping /\ host.len \in Nat /\ enclave.len \in Nat
      /\ host.len <= enclave.len
  BY MappedFacts DEF ServeInv, Inv
<1>6. at + size <= enclave.len
  <2>1. at + size <= host.len
    BY DEF RepliesFit, ServeInv, Inv, Mapped
  <2> QED BY <1>4, <1>5, <2>1
<1> HIDE DEF inner, header, at
<1>7. /\ Sized(inner) /\ Disjoint(inner) /\ Object(at, size, value) \in inner
  BY <1>4, PutKeeps DEF inner, ServeInv, Inv, MemOK
<1>8. /\ Sized(mem') /\ Disjoint(mem')
      /\ Object(RecordBytes, HeaderBytes, header) \in mem'
  BY <1>2, <1>4, <1>7, PutKeeps
<1>9. Object(at, size, value) \in mem'
  <2>1. Object(at, size, value).at = at /\ RecordBytes + HeaderBytes <= at
    BY <1>4 DEF Object, at
  <2> QED BY <1>2, <1>7, <2>1 DEF Put
<1>10. OutcomeOf(enclave, asked, record', mem') = value
  BY <1>3, <1>4, <1>5, <1>6, <1>8, <1>9, SeesWrapped DEF at, header
<1> QED BY <1>10, OutcomeIsThat

\* A plain reply arrives.
LEMMA PlainArrives ==
  ASSUME ServeInv, pc = "stopped", UNCHANGED <<enclave, asked>>,
         asked.wants = "reply", NEW value, NEW ifBad,
         mem' = Put(mem, OffsetFromPtr(host, DataPtr(host)), WordBytes, value),
         SetupRet(DataPtr(host), WordBytes, ifBad)
  PROVE  Outcome' = value
<1>1. OffsetFromPtr(host, DataPtr(host)) = RecordBytes
  BY DataSection DEF ServeInv, Inv
<1>2. /\ RecordBytes \in Nat /\ WordBytes \in Nat /\ WordBytes > 0
      /\ WordBytes <= HeaderBytes /\ HeaderBytes \in Nat
  OBVIOUS
<1>3. /\ record'.status = "OK" /\ record'.retOffset = RecordBytes
      /\ record'.retSize = WordBytes
  BY <1>2, Announced
<1>4. /\ Sized(mem') /\ Disjoint(mem')
      /\ Object(RecordBytes, WordBytes, value) \in mem'
  BY <1>1, <1>2, PutKeeps DEF ServeInv, Inv, MemOK
<1>5. enclave \in Mapping /\ RecordBytes + WordBytes <= enclave.len
  <2>1. /\ enclave \in Mapping /\ host.len \in Nat /\ enclave.len \in Nat
        /\ host.len <= enclave.len /\ RecordBytes + 2 * HeaderBytes <= host.len
    BY MappedFacts DEF ServeInv, Inv
  <2> QED BY <1>2, <2>1
<1>6. OutcomeOf(enclave, asked, record', mem') = value
  BY <1>3, <1>4, <1>5, SeesPlain
<1> QED BY <1>6, OutcomeIsThat

\* A handler that runs is the one that was asked for, and sees its arguments.
LEMMA RunsAsked ==
  ASSUME ServeInv, pc = "stopped", NEW f \in Handler, Runs(f)
  PROVE  /\ asked.to = f /\ asked.fits /\ ForHandler(asked)
         /\ f # "get_string" => Args = asked.arg
<1>1. asked.id \in DOMAIN Registered /\ Registered[asked.id] = f
  BY RunsRegistered DEF ServeInv, Runs
<1>2. ForHandler(asked)
  BY <1>1 DEF ServeInv, Asked, Meant
<1>3. asked.to = f /\ (f # "get_string" => asked.bytes > 0)
  BY <1>1, <1>2 DEF ForHandler
<1>4. asked.fits
  BY ArgsFit DEF Runs
<1> QED BY <1>2, <1>3, <1>4, ArgsAreThose DEF ServeInv

\* The wrapped system calls.
LEMMA SyscallServes ==
  ASSUME ServeInv, pc = "stopped", IncomingSyscall,
         UNCHANGED <<host, enclave, asked>>
  PROVE  (Refused \/ Served) /\ Sees
<1>1. /\ IsSyscallId(asked.id) /\ asked.id \notin DOMAIN Registered
      /\ WrapSyscalls /\ asked.id = MaxEdgeCall + 1
  <2>1. IsSyscall /\ record.id = asked.id /\ MaxEdgeCall \in Nat
    BY DEF IncomingSyscall, ServeInv, Inv, CallInBuffer
  <2> QED BY <2>1 DEF IsSyscall, IsSyscallId
<1>2. ForSyscall(asked)
  BY <1>1 DEF ServeInv, Asked, Meant
<1>3. /\ asked.bytes > 0 /\ asked.bytes \in Nat
      /\ asked.to = "read" =>
           asked.arg.n \in Nat /\ asked.bytes = SyscallBytes + asked.arg.n
  BY <1>1, <1>2 DEF ServeInv, Inv, CallInBuffer, CallShape, ForSyscall
<1>4. Args = asked.arg
  BY <1>3, ArgsAreThose DEF ServeInv
<1>5. StoresServed /\ UNCHANGED <<pArr, pagesStore>>
  BY <1>2 DEF IncomingSyscall, StoresServed, ForSyscall, Syscalls
<1>6. CASE ~ArgsOK
  <2>1. SetStatus("SYSCALL_FAILED") /\ record \in RecordType
    BY <1>6 DEF IncomingSyscall, ServeInv, Inv, TypeOK
  <2>2. Outcome' = Failed
    BY <2>1, BadStatus DEF SetStatus, RecordType
  <2> QED BY <1>5, <1>6, <2>2, ArgsFit DEF Refused, Sees, Failed
<1>7. CASE ArgsOK /\ asked.to = "other syscall"
  <2>1. SetStatus("SYSCALL_FAILED") /\ record \in RecordType
    BY <1>2, <1>4, <1>7 DEF IncomingSyscall, ServeInv, Inv, TypeOK, ForSyscall
  <2>2. Outcome' = Failed
    BY <2>1, BadStatus DEF SetStatus, RecordType
  <2>3. Failed \in Service!Answers(asked)
    BY <1>7 DEF Service!Answers, Service!Failed, Failed
  <2> QED BY <1>5, <1>7, <2>2, <2>3, ArgsFit DEF Served, Sees, Failed
<1>8. CASE ArgsOK /\ asked.to = "sync"
  <2>1. /\ mem' = Put(mem, OffsetFromPtr(host, DataPtr(host)), WordBytes,
                      Number(asked.arg.n))
        /\ SetupRet(DataPtr(host), WordBytes, "SYSCALL_FAILED")
    BY <1>2, <1>4, <1>8 DEF IncomingSyscall, ForSyscall
  <2>2. asked.wants = "reply" /\ asked.arg.n = 0
    BY <1>2, <1>8 DEF ForSyscall
  <2>3. Outcome' = Number(0)
    BY <2>1, <2>2, PlainArrives
  <2>4. Number(0) \in Service!Answers(asked)
    BY <1>8 DEF Service!Answers, Service!Number, Number
  <2> QED BY <1>5, <1>8, <2>3, <2>4, ArgsFit DEF Served, Sees, Number
<1>9. CASE ArgsOK /\ asked.to = "read"
  <2> DEFINE n == asked.arg.n
             inner == Put(mem, RecordBytes + SyscallBytes, n, FileBytes(n))
  <2>1. OffsetFromPtr(host, PtrFromOffset(host, record.argOffset))
          = RecordBytes
    BY DataSection DEF ServeInv, Inv, CallInBuffer
  <2>2. OffsetFromPtr(host, DataPtr(host)) = RecordBytes
    BY DataSection DEF ServeInv, Inv
  <2>3. /\ mem' = Put(inner, RecordBytes, WordBytes, Number(n))
        /\ SetupRet(DataPtr(host), WordBytes, "SYSCALL_FAILED")
    BY <1>2, <1>4, <1>9, <2>1, <2>2 DEF IncomingSyscall, ForSyscall
  <2>4. /\ asked.wants = "file" /\ n \in Nat /\ n > 0
        /\ asked.bytes = SyscallBytes + n
    BY <1>2, <1>3, <1>9 DEF ForSyscall
  <2>5. /\ RecordBytes \in Nat /\ WordBytes \in Nat /\ WordBytes > 0
        /\ SyscallBytes \in Nat /\ WordBytes <= SyscallBytes
        /\ WordBytes <= HeaderBytes /\ RecordBytes + SyscallBytes \in Nat
    OBVIOUS
  <2>6. /\ record'.status = "OK" /\ record'.retOffset = RecordBytes
        /\ record'.retSize = WordBytes
    BY <2>3, <2>5, Announced
  <2> HIDE DEF n, inner
  <2>7. /\ Sized(inner) /\ Disjoint(inner)
        /\ Object(RecordBytes + SyscallBytes, n, FileBytes(n)) \in inner
    BY <2>4, <2>5, PutKeeps DEF inner, ServeInv, Inv, MemOK
  <2>8. /\ Sized(mem') /\ Disjoint(mem')
        /\ Object(RecordBytes, WordBytes, Number(n)) \in mem'
    BY <2>3, <2>5, <2>7, PutKeeps
  <2>9. Object(RecordBytes + SyscallBytes, n, FileBytes(n)) \in mem'
    <3> DEFINE o == Object(RecordBytes + SyscallBytes, n, FileBytes(n))
    <3>1. o.at = RecordBytes + SyscallBytes
      BY DEF Object
    <3> HIDE DEF o
    <3>2. RecordBytes + WordBytes <= o.at /\ o \in inner
      BY <2>5, <2>7, <3>1 DEF o
    <3>3. o \in mem'
      BY <2>3, <3>2 DEF Put
    <3> QED BY <3>3 DEF o
  <2>10. /\ enclave \in Mapping /\ enclave.len \in Nat
         /\ host.len <= enclave.len /\ host.len \in Nat
    BY MappedFacts DEF ServeInv, Inv
  <2>11. asked.bytes <= host.len - RecordBytes
    BY <1>9, ArgsFit DEF ServeInv, Asked, Meant
  <2>12. RecordBytes + SyscallBytes + n <= enclave.len
    BY <2>4, <2>5, <2>10, <2>11
  <2>13. OutcomeOf(enclave, asked, record', mem') = FileBytes(n)
    BY <2>4, <2>6, <2>8, <2>9, <2>10, <2>12, SeesFile DEF n
  <2>14. Outcome' = FileBytes(n)
    BY <2>13, OutcomeIsThat
  <2>15. FileBytes(n) \in Service!Answers(asked)
    BY <1>9 DEF Service!Answers, Service!FileBytes, FileBytes, n
  <2> QED BY <1>5, <1>9, <2>14, <2>15, ArgsFit DEF Served, Sees, FileBytes
<1> QED BY <1>2, <1>6, <1>7, <1>8, <1>9 DEF ForSyscall, Syscalls

\* incoming_call_dispatch and every handler: a call is refused, or served as
\* its function is defined.
LEMMA DispatchServes ==
  ASSUME ServeInv, RepliesFit, Dispatch
  PROVE  (Refused \/ Served) /\ Sees
<1>1. /\ pc = "stopped" /\ UNCHANGED <<host, enclave, asked>>
      /\ record \in RecordType /\ pArr \in StoreType /\ pagesStore \in StoreType
  BY DEF Dispatch, ServeInv, Inv, TypeOK
<1>2. CASE IncomingSyscall
  BY <1>1, <1>2, SyscallServes
<1>3. CASE BadCallId
  <2>1. Outcome' = Failed
    BY <1>1, <1>3, BadStatus DEF BadCallId, SetStatus, RecordType
  <2>2. asked.id \notin DOMAIN Registered /\ ~IsSyscallId(asked.id)
    <3>1. record.id = asked.id
      BY <1>1 DEF ServeInv, Inv, CallInBuffer
    <3>2. ASSUME asked.id \in DOMAIN Registered PROVE FALSE
      <4>1. /\ table[asked.id] = Registered[asked.id]
            /\ asked.id \in 0..MaxEdgeCall
        BY <1>1, <3>2 DEF ServeInv, Inv, Registry
      <4>2. Callee = Registered[asked.id]
        BY <3>1, <4>1 DEF Callee
      <4> QED BY <1>3, <3>2, <4>2 DEF BadCallId, Null, Handler
    <3>3. ~IsSyscallId(asked.id)
      BY <1>3, <3>1 DEF BadCallId, IsSyscall, IsSyscallId
    <3> QED BY <3>2, <3>3
  <2>3. asked.to \in {"nobody", "behind the table"}
    BY <1>1, <2>2 DEF ServeInv, Asked, Meant
  <2>4. Failed \in Service!Answers(asked)
    BY <2>3 DEF Service!Answers, Service!Failed, Failed
  <2>5. StoresServed /\ UNCHANGED <<pArr, pagesStore>>
    BY <1>3, <2>3 DEF BadCallId, StoresServed
  <2> QED BY <2>1, <2>4, <2>5 DEF Served, Refused, Sees, Failed
<1>4. CASE BadOffset
  <2>1. Outcome' = Failed
    BY <1>1, <1>4, BadStatus DEF BadOffset, SetStatus, RecordType
  <2> QED BY <1>1, <1>4, <2>1, ArgsFit DEF BadOffset, Refused, Sees, Failed
<1>5. CASE PrintValue \/ FullTrace
  <2>1. PICK f \in {"print_value", "full_trace"} : Runs(f)
    BY <1>5 DEF PrintValue, FullTrace
  <2>2. asked.to = f /\ asked.fits /\ asked.wants = "nothing"
    BY <1>1, <2>1, RunsAsked DEF Handler, ForHandler, Silent
  <2>3. UNCHANGED <<pArr, pagesStore>>
    BY <1>5 DEF PrintValue, FullTrace
  <2>4. Outcome' \in {Failed, [kind |-> "done"]}
    BY <1>1, <2>2, OutcomeIsThat DEF OutcomeOf, Failed
  <2>5. PrintValue => Outcome' = [kind |-> "done"]
    BY <1>1, <2>2, OutcomeIsThat
       DEF OutcomeOf, PrintValue, SetStatus, RecordType
  <2>6. Outcome' \in Service!Answers(asked)
    <3>1. CASE PrintValue
      <4>1. asked.to = "print_value"
        BY <1>1, <3>1, RunsAsked DEF PrintValue, Handler
      <4> QED BY <2>5, <3>1, <4>1 DEF Service!Answers, Service!Done
    <3>2. CASE FullTrace
      <4>1. asked.to = "full_trace"
        BY <1>1, <3>2, RunsAsked DEF FullTrace, Handler
      <4> QED BY <2>4, <4>1 DEF Service!Answers, Service!Done, Service!Failed,
                                Failed
    <3> QED BY <1>5, <3>1, <3>2
  <2>7. StoresServed
    BY <2>2, <2>3 DEF StoresServed
  <2> QED BY <2>2, <2>4, <2>6, <2>7 DEF Served, Sees, Failed
<1>6. CASE PrintBuffer
  <2>1. /\ asked.to = "print_buffer" /\ asked.fits /\ asked.wants = "reply"
        /\ Args = asked.arg
    BY <1>1, <1>6, RunsAsked DEF PrintBuffer, Handler, ForHandler
  <2>2. Outcome' = Number(asked.arg.n)
    BY <1>1, <1>6, <2>1, PlainArrives DEF PrintBuffer
  <2>3. Outcome' \in Service!Answers(asked)
    BY <2>1, <2>2 DEF Service!Answers, Service!Number, Number
  <2>4. StoresServed
    BY <1>6, <2>1 DEF PrintBuffer, StoresServed
  <2> QED BY <2>1, <2>2, <2>3, <2>4 DEF Served, Sees, Number
<1>7. CASE GetHostString
  <2>1. asked.to = "get_string" /\ asked.fits /\ asked.wants = "wrapped"
    BY <1>1, <1>7, RunsAsked DEF GetHostString, Handler, ForHandler, Wrapped
  <2>2. Outcome' = Text
    BY <1>1, <1>7, <2>1, WrappedArrives DEF GetHostString
  <2>3. Outcome' \in Service!Answers(asked)
    BY <2>1, <2>2 DEF Service!Answers, Service!Text, Text
  <2>4. StoresServed
    BY <1>7, <2>1 DEF GetHostString, StoresServed
  <2> QED BY <2>1, <2>2, <2>3, <2>4 DEF Served, Sees, Text
<1>8. CASE StorePage
  <2>1. /\ asked.to = "store_page" /\ asked.fits /\ asked.wants = "wrapped"
        /\ Args = asked.arg
    BY <1>1, <1>8, RunsAsked DEF StorePage, Handler, ForHandler, Wrapped
  <2>2. Outcome' = Number(1)
    BY <1>1, <1>8, <2>1, WrappedArrives DEF StorePage
  <2>3. Outcome' \in Service!Answers(asked)
    BY <2>1, <2>2 DEF Service!Answers, Service!Number, Number
  <2>4. StoresServed
    BY <1>8, <2>1 DEF StorePage, StoresServed
  <2> QED BY <2>1, <2>2, <2>3, <2>4 DEF Served, Sees, Number
<1>9. CASE FetchPage
  <2>1. /\ asked.to = "fetch_page" /\ asked.fits /\ asked.wants = "wrapped"
        /\ Args = asked.arg
    BY <1>1, <1>9, RunsAsked DEF FetchPage, Handler, ForHandler, Wrapped
  <2> DEFINE p == asked.arg.page
             reply == IF pArr[p] = 0 THEN Garbage ELSE Content(p, pArr[p])
  <2>2. SetupWrappedRet(reply, PageBytes)
    BY <1>9, <2>1 DEF FetchPage
  <2>3. Outcome' = reply
    BY <1>1, <2>1, <2>2, WrappedArrives
  <2>4. Outcome' \in Service!Answers(asked)
    BY <2>1, <2>3 DEF Service!Answers, Service!Garbage, Service!Content,
                      Garbage, Content
  <2>5. StoresServed
    BY <1>9, <2>1 DEF FetchPage, StoresServed
  <2> QED BY <2>1, <2>3, <2>4, <2>5 DEF Served, Sees, Garbage, Content
<1>10. CASE InsertPage
  <2>1. /\ asked.to = "insert_page" /\ asked.fits /\ asked.wants = "nothing"
        /\ Args = asked.arg
    BY <1>1, <1>10, RunsAsked DEF InsertPage, Handler, ForHandler, Silent
  <2>2. Outcome' = [kind |-> "done"]
    BY <1>1, <1>10, <2>1, OutcomeIsThat
       DEF OutcomeOf, InsertPage, SetStatus, RecordType
  <2>3. Outcome' \in Service!Answers(asked)
    BY <2>1, <2>2 DEF Service!Answers, Service!Done
  <2>4. asked.arg.page \in Page
    BY <1>1, <1>10, <2>1, RunsAsked DEF InsertPage, Handler, ForHandler, Paged
  <2>5. StoresServed
    BY <1>1, <1>10, <2>1, <2>4 DEF InsertPage, StoresServed, StoreType
  <2> QED BY <2>1, <2>2, <2>3, <2>5 DEF Served, Sees
<1>11. CASE FindPage
  <2>1. /\ asked.to = "find_page" /\ asked.fits /\ asked.wants = "wrapped"
        /\ Args = asked.arg
    BY <1>1, <1>11, RunsAsked DEF FindPage, Handler, ForHandler, Wrapped
  <2> DEFINE p == asked.arg.page
             reply == IF pagesStore[p] = 0 THEN Garbage
                      ELSE Content(p, pagesStore[p])
  <2>2. SetupWrappedRet(reply, PageBytes)
    BY <1>11, <2>1 DEF FindPage
  <2>3. Outcome' = reply
    BY <1>1, <2>1, <2>2, WrappedArrives
  <2>4. Outcome' \in Service!Answers(asked)
    BY <2>1, <2>3 DEF Service!Answers, Service!Garbage, Service!Content,
                      Garbage, Content
  <2>5. StoresServed
    BY <1>11, <2>1 DEF FindPage, StoresServed
  <2> QED BY <2>1, <2>3, <2>4, <2>5 DEF Served, Sees, Garbage, Content
<1> QED BY <1>2, <1>3, <1>4, <1>5, <1>6, <1>7, <1>8, <1>9, <1>10, <1>11
        DEF Dispatch

-------------------------------------------------------------------------------
(* The refinement. *)

LEMMA ServeInvInit == Init => ServeInv
<1> SUFFICES ASSUME Init PROVE ServeInv
  OBVIOUS
<1>1. Inv
  BY InitInv
<1>2. Asked /\ Answered
  BY DEF Init, Asked, Answered
<1>3. Empty
  <2>1. \A id \in 0..(MaxEdgeCall - 1) :
          id \in 0..MaxEdgeCall /\ id < MaxEdgeCall
    OBVIOUS
  <2> QED BY <2>1 DEF Init, Empty
<1> QED BY <1>1, <1>2, <1>3 DEF ServeInv

LEMMA ServeInvStep ==
  ASSUME RepliesFit
  PROVE  ServeInv /\ [Next]_vars => ServeInv'
<1> SUFFICES ASSUME ServeInv, [Next]_vars PROVE ServeInv'
  OBVIOUS
<1>1. Inv'
  BY StepInv DEF ServeInv
<1>2. CASE EdgeInit
  <2>1. pc = "setup" /\ pc' = "enclave" /\ asked' = asked
    BY <1>2 DEF EdgeInit
  <2>2. Asked' /\ Answered'
    BY <2>1 DEF ServeInv, Asked, Answered
  <2>3. Empty'
    <3>1. table \in [0..MaxEdgeCall -> Handler \cup {Null, "wild"}]
      BY DEF ServeInv, Inv, TypeOK
    <3>2. ASSUME NEW id \in 0..(MaxEdgeCall - 1) \ DOMAIN Registered
          PROVE  table'[id] = table[id]
      <4>1. id \in 0..MaxEdgeCall
        OBVIOUS
      <4> QED BY <1>2, <3>1, <4>1 DEF EdgeInit
    <3> QED BY <3>2 DEF ServeInv, Empty
  <2> QED BY <1>1, <2>2, <2>3 DEF ServeInv
<1>3. CASE Ocall
  <2>1. /\ pc = "enclave" /\ pc' = "stopped"
        /\ UNCHANGED <<host, enclave, table, pArr, pagesStore>>
        /\ asked' \in Calls
    BY <1>3 DEF Ocall
  <2>2. Meant(asked')
    BY <2>1, CallsAreMeant DEF ServeInv, Inv
  <2>3. Asked'
    BY <2>1, <2>2 DEF Asked, Meant
  <2> QED BY <1>1, <2>1, <2>3 DEF ServeInv, Empty, Answered
<1>4. CASE Dispatch
  <2>1. /\ pc = "stopped" /\ pc' = "handled"
        /\ UNCHANGED <<host, enclave, table, versions, asked>>
    BY <1>4 DEF Dispatch
  <2>2. Answered'
    BY <1>4, DispatchServes DEF Sees, Answered
  <2>3. Asked'
    BY <2>1 DEF ServeInv, Asked, Meant
  <2> QED BY <1>1, <2>1, <2>2, <2>3 DEF ServeInv, Empty
<1>5. CASE Die
  <2>1. /\ pc = "stopped" /\ pc' = "gone"
        /\ UNCHANGED <<host, enclave, table, record, mem, pArr, pagesStore,
                       versions, asked>>
    BY <1>5 DEF Die
  <2>2. Asked' /\ Answered'
    BY <2>1 DEF ServeInv, Asked, Meant, Answered
  <2> QED BY <1>1, <2>1, <2>2 DEF ServeInv, Empty
<1>6. CASE Return
  <2>1. pc' = "enclave" /\ asked' = NoCall /\ table' = table
    BY <1>6 DEF Return
  <2>2. Asked' /\ Answered'
    BY <2>1 DEF Asked, Answered
  <2> QED BY <1>1, <2>1, <2>2 DEF ServeInv, Empty
<1>7. CASE UNCHANGED vars
  <2>1. Outcome' = Outcome
    BY <1>7 DEF vars, Outcome
  <2>2. Asked' /\ Answered'
    BY <1>7, <2>1 DEF vars, ServeInv, Asked, Meant, Answered
  <2> QED BY <1>1, <1>7, <2>2 DEF vars, ServeInv, Empty
<1> QED BY <1>2, <1>3, <1>4, <1>5, <1>6, <1>7 DEF Next

\* What the caller sees: an answer once the host has handled the call.
AnswerOf ==
  IF pc = "handled" THEN Outcome
  ELSE IF pc = "gone" THEN [kind |-> "gone"] ELSE [kind |-> "none"]

\* A process that ends while it serves a call was asked to, or read an element
\* the map does not have.
LEMMA DieServes ==
  ASSUME ServeInv, Die
  PROVE  /\ asked.fits /\ [kind |-> "gone"] \in Service!Answers(asked)
         /\ StoresServed
<1>1. pc = "stopped" /\ UNCHANGED <<pArr, pagesStore>>
  BY DEF Die
<1>2. CASE Runs("call_exit")
  <2>1. asked.to = "call_exit" /\ asked.fits
    BY <1>1, <1>2, RunsAsked DEF Handler
  <2> QED BY <1>1, <2>1 DEF Service!Answers, Service!Gone, StoresServed
<1>3. CASE ~IsSyscall /\ Callee = "wild"
  <2>1. record.id = asked.id /\ asked.id \in 0..(MaxEdgeCall + 2)
    BY <1>1 DEF ServeInv, Inv, CallInBuffer, CallShape
  <2>2. asked.id \in 0..MaxEdgeCall /\ table[asked.id] = "wild"
    BY <1>3, <2>1 DEF Callee, Null
  <2>3. asked.id \notin DOMAIN Registered
    BY <1>1, <2>2 DEF ServeInv, Inv, Registry, Handler
  <2>4. asked.id \notin 0..(MaxEdgeCall - 1)
    BY <2>2, <2>3 DEF ServeInv, Empty, Null
  <2>5. asked.id = MaxEdgeCall
    BY <2>2, <2>4
  <2>6. /\ asked.to = "behind the table" /\ asked.bytes = WordBytes
        /\ asked.fits <=> asked.bytes <= host.len - RecordBytes
    BY <1>1, <2>5 DEF ServeInv, Asked, Meant
  <2>7. WordBytes <= host.len - RecordBytes
    <3>1. RecordBytes + 2 * HeaderBytes <= host.len /\ host.len \in Nat
      BY <1>1, MappedFacts DEF ServeInv, Inv
    <3>2. /\ WordBytes \in Nat /\ HeaderBytes \in Nat /\ RecordBytes \in Nat
          /\ WordBytes <= HeaderBytes
      OBVIOUS
    <3> QED BY <3>1, <3>2
  <2> QED BY <1>1, <2>6, <2>7 DEF Service!Answers, Service!Gone, StoresServed
<1>4. CASE Runs("find_page") /\ pagesStore[Args.page] = 0
  <2>1. asked.to = "find_page" /\ asked.fits /\ Args = asked.arg
    BY <1>1, <1>4, RunsAsked DEF Handler
  <2> QED BY <1>1, <1>4, <2>1 DEF Service!Answers, Service!Gone, StoresServed
<1> QED BY <1>2, <1>3, <1>4 DEF Die

\* Every step is a step of the service or none.
LEMMA NextIsService ==
  ASSUME RepliesFit, ServeInv, [Next]_vars
  PROVE  [Service!Next]_<<asked, AnswerOf, pArr, pagesStore>>
<1>1. CASE EdgeInit
  BY <1>1 DEF EdgeInit, AnswerOf
<1>2. CASE Ocall
  <2>1. /\ pc = "enclave" /\ pc' = "stopped" /\ asked' \in Calls
        /\ UNCHANGED <<host, enclave, table, pArr, pagesStore>>
    BY <1>2 DEF Ocall
  <2>2. asked = NoCall
    BY <2>1 DEF ServeInv, Asked
  <2>3. asked'.to # "none"
    BY <2>1, CallsAreMeant DEF ServeInv, Inv, Meant
  <2>4. asked' # NoCall
    BY <2>3 DEF NoCall
  <2>5. Service!Ask
    BY <2>1, <2>2, <2>4 DEF Service!Ask, Service!NoCall, NoCall
  <2> QED BY <2>5 DEF Service!Next
<1>3. CASE Dispatch
  <2>1. /\ pc = "stopped" /\ pc' = "handled" /\ asked' = asked
        /\ asked.to # "none"
    BY <1>3 DEF Dispatch, ServeInv, Asked, Meant
  <2>2. asked # NoCall
    BY <2>1 DEF NoCall
  <2>3. Refused => Service!Refuse
    BY <2>1, <2>2 DEF Refused, Service!Refuse, Service!NoCall, NoCall,
                      Service!NoAnswer, Service!Failed, Failed
  <2>4. Served => Service!Serve
    BY <2>1, <2>2 DEF Served, StoresServed, Service!Serve, Service!NoCall,
                      NoCall, Service!NoAnswer
  <2> QED BY <1>3, <2>3, <2>4, DispatchServes DEF Service!Next
<1>4. CASE Die
  <2>1. /\ pc = "stopped" /\ pc' = "gone" /\ asked' = asked
        /\ asked.to # "none"
    BY <1>4 DEF Die, ServeInv, Asked, Meant
  <2>2. asked # NoCall
    BY <2>1 DEF NoCall
  <2>3. Service!Serve
    BY <1>4, <2>1, <2>2, DieServes
       DEF StoresServed, Service!Serve, Service!NoCall, NoCall,
           Service!NoAnswer
  <2> QED BY <2>3 DEF Service!Next
<1>5. CASE Return
  <2>1. /\ pc = "handled" /\ pc' = "enclave" /\ asked' = NoCall
        /\ UNCHANGED <<pArr, pagesStore>>
    BY <1>5 DEF Return
  <2>2. Outcome \notin {[kind |-> "none"], [kind |-> "gone"]}
    BY <2>1 DEF ServeInv, Answered
  <2>3. Service!Take
    BY <2>1, <2>2 DEF Service!Take, Service!NoCall, NoCall,
                      Service!NoAnswer, Service!Gone
  <2> QED BY <2>3 DEF Service!Next
<1>6. CASE UNCHANGED vars
  <2>1. Outcome' = Outcome
    BY <1>6 DEF vars, Outcome
  <2> QED BY <1>6, <2>1 DEF vars, AnswerOf
<1> QED BY <1>1, <1>2, <1>3, <1>4, <1>5, <1>6 DEF Next

\* Whatever call follows whatever other in the one buffer, the enclave sees what
\* the function it asked for answers to the arguments it gave, once, or that the
\* arguments do not fit; replies are assumed to fit, which
\* edge_call_setup_wrapped_ret does not check.
THEOREM RefinesEdgeService ==
  ASSUME RepliesFit
  PROVE  Spec => ImplementsEdgeService
<1>1. Init => Service!Init
  BY DEF Init, Service!Init, Service!NoCall, NoCall, Service!NoAnswer
<1>2. ASSUME ServeInv, [Next]_vars
      PROVE  [Service!Next]_<<asked, AnswerOf, pArr, pagesStore>>
  BY <1>2, NextIsService
<1> QED BY <1>1, <1>2, ServeInvInit, ServeInvStep, PTL
        DEF Spec, ImplementsEdgeService, Service!Spec, AnswerOf
================================================================================
