----------------------------- MODULE KeystoneHost -----------------------------
(***************************************************************************)
(* The life of host-side Keystone objects (lib/host/src/keystone.cpp) and  *)
(* the kernel driver they share.                                           *)
(*                                                                         *)
(* Each member of Obj is a Keystone object, used by one thread of its own, *)
(* whose public methods may be called in any order: registerOcallDispatch, *)
(* init, run, destroy and the destructor.  A method runs as a sequence of  *)
(* steps, one for each ioctl, so the methods of different objects          *)
(* interleave wherever the driver can tell.  The driver is outside src/:   *)
(* it is modelled by what the SDK passes to it and expects from it, and it *)
(* knows an enclave by nothing but the eid in the request.                 *)
(*                                                                         *)
(* The two ELFFile pointers are always set and cleared together, so they   *)
(* are one variable, files.  Loading the enclave memory is one step here   *)
(* and is detailed in EnclaveMemory.                                       *)
(***************************************************************************)
EXTENDS Integers

CONSTANTS
  Obj,             \* the Keystone objects of the host programs
  Eid,             \* the enclave ids the driver hands out
  NoEid,           \* eid = -1
  NoObj,           \* the creator of an eid never handed out
  MaxInits,        \* bound: calls of init of each object
  ReuseEids,       \* the driver may hand out the id of a destroyed enclave
  DestroyMayFail,  \* the DESTROY ioctl may fail on an enclave it could destroy
  MmapMayFail      \* mmap of the untrusted buffer may return MAP_FAILED

ASSUME NoEidAssumption == NoEid \notin Eid
ASSUME NoObjAssumption == NoObj \notin Obj
ASSUME BoundAssumption == MaxInits \in [Obj -> Nat]
ASSUME EnvironmentAssumption ==
  /\ ReuseEids \in BOOLEAN
  /\ DestroyMayFail \in BOOLEAN
  /\ MmapMayFail \in BOOLEAN

VARIABLES
  pc,             \* where each object's thread stands
  files,          \* both ELFFile pointers: NULL, live, or deleted but not NULL
  fd,             \* the driver's file descriptor, -1 or not set being "none"
  eid,            \* member eid
  simulated,      \* params.isSimulated()
  shared_buffer,  \* what the member points to
  oFuncDispatch,  \* the constructor leaves it unset
  result,         \* what the last call returned, "none" while one is under way
  inits,          \* calls of init so far (bounded by MaxInits)
  badDelete,      \* some thread deleted an ELFFile twice
  enclave,        \* driver: the state of each enclave
  owner,          \* driver: the object that last created this eid
  served          \* dispatches of the enclave's current edge call

objVars == <<pc, files, fd, eid, simulated, shared_buffer, oFuncDispatch,
             result, inits, badDelete>>
driverVars == <<enclave, owner, served>>
vars == <<pc, files, fd, eid, simulated, shared_buffer, oFuncDispatch, result,
          inits, badDelete, enclave, owner, served>>

InitPcs == {"initDevice", "prepareEnclave", "loadELF", "utmInit", "finalize",
            "mapUntrusted", "initFailed"}
RunPcs == {"running", "edgeCall", "resume", "runFailed"}
Pcs == {"unborn", "idle", "dead", "crashed"} \union InitPcs \union RunPcs

Init ==
  /\ pc = [o \in Obj |-> "unborn"]
  /\ files = [o \in Obj |-> "null"]
  /\ fd = [o \in Obj |-> "none"]
  /\ eid = [o \in Obj |-> NoEid]
  /\ simulated = [o \in Obj |-> FALSE]
  /\ shared_buffer = [o \in Obj |-> "unset"]
  /\ oFuncDispatch = [o \in Obj |-> "unset"]
  /\ result = [o \in Obj |-> "none"]
  /\ inits = [o \in Obj |-> 0]
  /\ badDelete = FALSE
  /\ enclave = [e \in Eid |-> "free"]
  /\ owner = [e \in Eid |-> NoObj]
  /\ served = [e \in Eid |-> 0]

Goto(o, to) == pc' = [pc EXCEPT ![o] = to]

\* The public call under way returns r to its caller.
Return(o, r) ==
  /\ Goto(o, "idle")
  /\ result' = [result EXCEPT ![o] = r]

-------------------------------------------------------------------------------
(* The constructor, registerOcallDispatch and destroy. *)

\* Mutant: the constructor forgets the eid.
Construct_EidUnset(o) ==
  /\ pc[o] = "unborn"
  /\ Goto(o, "idle")
  /\ \E e \in Eid : eid' = [eid EXCEPT ![o] = e]
  /\ UNCHANGED <<files, fd, simulated, shared_buffer, oFuncDispatch, result,
                 inits, badDelete, driverVars>>

\* The constructor sets eid and the files; fd, the shared buffer and the
\* dispatch function keep what the memory held.
Construct(o) ==
  /\ pc[o] = "unborn"
  /\ Goto(o, "idle")
  /\ files' = [files EXCEPT ![o] = "null"]
  /\ eid' = [eid EXCEPT ![o] = NoEid]
  /\ UNCHANGED <<fd, simulated, shared_buffer, oFuncDispatch, result, inits,
                 badDelete, driverVars>>

RegisterOcallDispatch(o) ==
  /\ pc[o] = "idle"
  /\ \E f \in {"null", "set"} :
       oFuncDispatch' = [oFuncDispatch EXCEPT ![o] = f]
  /\ UNCHANGED <<pc, files, fd, eid, simulated, shared_buffer, result, inits,
                 badDelete, driverVars>>

\* The DESTROY ioctl can succeed: there is such an enclave, not on a hart.
Destroyable(o) ==
  /\ fd[o] = "open"
  /\ enclave[eid[o]] \notin {"free", "running"}

\* Mutant: the pointers are not cleared.
DeleteFiles_KeepPointers(o, f) ==
  /\ files' = [files EXCEPT ![o] = IF f = "null" THEN "null" ELSE "dangling"]
  /\ badDelete' = (badDelete \/ f = "dangling")

\* delete through both pointers, then NULL them; f is what they hold before.
DeleteFiles(o, f) ==
  /\ files' = [files EXCEPT ![o] = "null"]
  /\ badDelete' = (badDelete \/ f = "dangling")

\* destroy(): with an eid, the ioctl; when it fails nothing else happens.
\* The member eid is left as it was in every case.
Destroy(o, f) ==
  \/ /\ eid[o] = NoEid
     /\ DeleteFiles(o, f)
     /\ UNCHANGED enclave
  \/ /\ eid[o] # NoEid
     /\ Destroyable(o)
     /\ enclave' = [enclave EXCEPT ![eid[o]] = "free"]
     /\ DeleteFiles(o, f)
  \/ /\ eid[o] # NoEid
     /\ ~Destroyable(o) \/ DestroyMayFail
     /\ files' = [files EXCEPT ![o] = f]
     /\ UNCHANGED <<enclave, badDelete>>

DestroyCall(o) ==
  /\ pc[o] = "idle"
  /\ Destroy(o, files[o])
  /\ Return(o, "destroyed")
  /\ UNCHANGED <<fd, eid, simulated, shared_buffer, oFuncDispatch, inits,
                 owner, served>>

\* Mutant: the destructor does not call destroy().
Destruct_NoDestroy(o) ==
  /\ pc[o] = "idle"
  /\ Goto(o, "dead")
  /\ DeleteFiles(o, files[o])
  /\ UNCHANGED <<fd, eid, simulated, shared_buffer, oFuncDispatch, result,
                 inits, driverVars>>

\* The destructor deletes the files without clearing the pointers, and then
\* calls destroy(), which deletes through whatever is not NULL.
Destruct(o) ==
  /\ pc[o] = "idle"
  /\ Goto(o, "dead")
  /\ Destroy(o, IF files[o] = "null" THEN "null" ELSE "dangling")
  /\ UNCHANGED <<fd, eid, simulated, shared_buffer, oFuncDispatch, result,
                 inits, owner, served>>

-------------------------------------------------------------------------------
(* init. *)

\* init() up to initFiles(): refuses when an object still has its files, else
\* opens both; sound is whether both are valid ELF files.
InitFiles(o) ==
  /\ pc[o] = "idle"
  /\ inits[o] < MaxInits[o]
  /\ inits' = [inits EXCEPT ![o] = @ + 1]
  /\ \E sim \in BOOLEAN : simulated' = [simulated EXCEPT ![o] = sim]
  /\ \/ /\ files[o] # "null"
        /\ Return(o, "error")
        /\ UNCHANGED files
     \/ /\ files[o] = "null"
        /\ files' = [files EXCEPT ![o] = "live"]
        /\ \E sound \in BOOLEAN :
             Goto(o, IF sound THEN "initDevice" ELSE "initFailed")
        /\ result' = [result EXCEPT ![o] = "none"]
  /\ UNCHANGED <<fd, eid, shared_buffer, oFuncDispatch, badDelete, driverVars>>

\* initDevice(): a failed open() leaves -1 in fd.
InitDevice(o) ==
  /\ pc[o] = "initDevice"
  /\ \/ /\ simulated[o]
        /\ Goto(o, "prepareEnclave")
        /\ UNCHANGED fd
     \/ /\ ~simulated[o]
        /\ fd' = [fd EXCEPT ![o] = "open"]
        /\ Goto(o, "prepareEnclave")
     \/ /\ ~simulated[o]
        /\ fd' = [fd EXCEPT ![o] = "none"]
        /\ Goto(o, "initFailed")
  /\ UNCHANGED <<files, eid, simulated, shared_buffer, oFuncDispatch, result,
                 inits, badDelete, driverVars>>

\* The ids the driver can hand out.
Available ==
  {e \in Eid : enclave[e] = "free" /\ (ReuseEids \/ owner[e] = NoObj)}

\* prepareEnclave(): the CREATE ioctl, and the eid it returns.
PrepareEnclave(o) ==
  /\ pc[o] = "prepareEnclave"
  /\ \/ /\ simulated[o]
        /\ eid' = [eid EXCEPT ![o] = NoEid]
        /\ Goto(o, "loadELF")
        /\ UNCHANGED <<enclave, owner>>
     \/ /\ ~simulated[o]
        /\ \E e \in Available :
             /\ enclave' = [enclave EXCEPT ![e] = "created"]
             /\ owner' = [owner EXCEPT ![e] = o]
             /\ eid' = [eid EXCEPT ![o] = e]
        /\ Goto(o, "loadELF")
     \/ /\ ~simulated[o]
        /\ Goto(o, "initFailed")
        /\ UNCHANGED <<eid, enclave, owner>>
  /\ UNCHANGED <<files, fd, simulated, shared_buffer, oFuncDispatch, result,
                 inits, badDelete, served>>

\* Both loadELF() calls and initStack(); a simulated init is over after them
\* (loadUntrusted and the hash have no effect here) and deletes the files.
LoadELF(o) ==
  /\ pc[o] = "loadELF"
  /\ \/ /\ simulated[o]
        /\ DeleteFiles(o, files[o])
        /\ Return(o, "init")
     \/ /\ ~simulated[o]
        /\ Goto(o, "utmInit")
        /\ UNCHANGED <<files, result, badDelete>>
     \/ /\ Goto(o, "initFailed")
        /\ UNCHANGED <<files, result, badDelete>>
  /\ UNCHANGED <<fd, eid, simulated, shared_buffer, oFuncDispatch, inits,
                 driverVars>>

\* An ioctl that takes the enclave from one state to the next, and may fail.
InitIoctl(o, at, from, to, next) ==
  /\ pc[o] = at
  /\ \/ /\ enclave[eid[o]] = from
        /\ enclave' = [enclave EXCEPT ![eid[o]] = to]
        /\ Goto(o, next)
     \/ /\ Goto(o, "initFailed")
        /\ UNCHANGED enclave
  /\ UNCHANGED <<files, fd, eid, simulated, shared_buffer, oFuncDispatch,
                 result, inits, badDelete, owner, served>>

\* The UTM_INIT ioctl, then loadUntrusted().
UtmInit(o) == InitIoctl(o, "utmInit", "created", "loaded", "finalize")

\* Mutant: the result of the FINALIZE ioctl is not looked at.
Finalize_Unchecked(o) ==
  /\ pc[o] = "finalize"
  /\ \E st \in {"loaded", "ready"} :
       enclave' = [enclave EXCEPT ![eid[o]] = st]
  /\ Goto(o, "mapUntrusted")
  /\ UNCHANGED <<files, fd, eid, simulated, shared_buffer, oFuncDispatch,
                 result, inits, badDelete, owner, served>>

\* The FINALIZE_ENCLAVE ioctl.
Finalize(o) == InitIoctl(o, "finalize", "loaded", "ready", "mapUntrusted")

\* mapUntrusted(): size 0 keeps the old pointer; mmap fails with MAP_FAILED,
\* which is not the NULL that is tested; then init() deletes the files.
MapUntrusted(o) ==
  /\ pc[o] = "mapUntrusted"
  /\ \/ UNCHANGED shared_buffer
     \/ shared_buffer' = [shared_buffer EXCEPT ![o] = "mapped"]
     \/ /\ MmapMayFail
        /\ shared_buffer' = [shared_buffer EXCEPT ![o] = "MAP_FAILED"]
  /\ DeleteFiles(o, files[o])
  /\ Return(o, "init")
  /\ UNCHANGED <<fd, eid, simulated, oFuncDispatch, inits, driverVars>>

\* Every failure after initFiles has checked the pointers calls destroy().
InitFailed(o) ==
  /\ pc[o] = "initFailed"
  /\ Destroy(o, files[o])
  /\ Return(o, "error")
  /\ UNCHANGED <<fd, eid, simulated, shared_buffer, oFuncDispatch, inits,
                 owner, served>>

-------------------------------------------------------------------------------
(* run. *)

\* run() up to the return of a failed RUN ioctl, or the enclave's first step.
Run(o) ==
  /\ pc[o] = "idle"
  /\ \/ /\ simulated[o]
        /\ Return(o, "run")
        /\ UNCHANGED enclave
     \/ /\ ~simulated[o]
        /\ fd[o] = "open"
        /\ eid[o] # NoEid
        /\ enclave[eid[o]] = "ready"
        /\ enclave' = [enclave EXCEPT ![eid[o]] = "running"]
        /\ Goto(o, "running")
        /\ result' = [result EXCEPT ![o] = "none"]
     \/ /\ ~simulated[o]
        /\ Goto(o, "runFailed")
        /\ result' = [result EXCEPT ![o] = "none"]
        /\ UNCHANGED enclave
  /\ UNCHANGED <<files, fd, eid, simulated, shared_buffer, oFuncDispatch,
                 inits, badDelete, owner, served>>

\* The RUN or RESUME ioctl returns: the enclave stopped in an edge call, was
\* interrupted, exited, or failed.
EnclaveReturns(o) ==
  /\ pc[o] = "running"
  /\ enclave[eid[o]] = "running"
  /\ \/ /\ enclave' = [enclave EXCEPT ![eid[o]] = "edgeCall"]
        /\ served' = [served EXCEPT ![eid[o]] = 0]
        /\ Goto(o, "edgeCall")
        /\ UNCHANGED result
     \/ /\ enclave' = [enclave EXCEPT ![eid[o]] = "interrupted"]
        /\ Goto(o, "resume")
        /\ UNCHANGED <<served, result>>
     \/ /\ enclave' = [enclave EXCEPT ![eid[o]] = "exited"]
        /\ Return(o, "run")
        /\ UNCHANGED served
     \/ /\ enclave' = [enclave EXCEPT ![eid[o]] = "exited"]
        /\ Goto(o, "runFailed")
        /\ UNCHANGED <<served, result>>
  /\ UNCHANGED <<files, fd, eid, simulated, shared_buffer, oFuncDispatch,
                 inits, badDelete, owner>>

\* Mutant: the enclave is resumed without a dispatch.
Dispatch_Skipped(o) ==
  /\ pc[o] = "edgeCall"
  /\ Goto(o, "resume")
  /\ UNCHANGED <<files, fd, eid, simulated, shared_buffer, oFuncDispatch,
                 result, inits, badDelete, driverVars>>

\* The edge call is dispatched when oFuncDispatch is not NULL.  A pointer the
\* program never set is either zero or wild, and a handler given a buffer that
\* is not mapped faults.
Dispatch(o) ==
  /\ pc[o] = "edgeCall"
  /\ \/ /\ oFuncDispatch[o] = "set"
        /\ shared_buffer[o] = "mapped"
        /\ served' = [served EXCEPT ![eid[o]] = @ + 1]
        /\ Goto(o, "resume")
     \/ /\ oFuncDispatch[o] = "set"
        /\ shared_buffer[o] # "mapped"
        /\ Goto(o, "crashed")
        /\ UNCHANGED served
     \/ /\ oFuncDispatch[o] # "set"
        /\ Goto(o, "resume")
        /\ UNCHANGED served
     \/ /\ oFuncDispatch[o] = "unset"
        /\ Goto(o, "crashed")
        /\ UNCHANGED served
  /\ UNCHANGED <<files, fd, eid, simulated, shared_buffer, oFuncDispatch,
                 result, inits, badDelete, enclave, owner>>

\* Mutant: a failed RESUME is tried again from the top of the loop.
Resume_Retries(o) ==
  /\ pc[o] = "resume"
  /\ Goto(o, "edgeCall")
  /\ UNCHANGED <<files, fd, eid, simulated, shared_buffer, oFuncDispatch,
                 result, inits, badDelete, driverVars>>

\* The RESUME ioctl.
Resume(o) ==
  /\ pc[o] = "resume"
  /\ \/ /\ fd[o] = "open"
        /\ enclave[eid[o]] \in {"edgeCall", "interrupted"}
        /\ enclave' = [enclave EXCEPT ![eid[o]] = "running"]
        /\ Goto(o, "running")
     \/ /\ Goto(o, "runFailed")
        /\ UNCHANGED enclave
  /\ UNCHANGED <<files, fd, eid, simulated, shared_buffer, oFuncDispatch,
                 result, inits, badDelete, owner, served>>

\* Mutant: a failed run() does not destroy the enclave.
RunFailed_NoDestroy(o) ==
  /\ pc[o] = "runFailed"
  /\ Return(o, "error")
  /\ UNCHANGED <<files, fd, eid, simulated, shared_buffer, oFuncDispatch,
                 inits, badDelete, driverVars>>

\* A nonzero return other than the two the loop knows ends in destroy().
RunFailed(o) ==
  /\ pc[o] = "runFailed"
  /\ Destroy(o, files[o])
  /\ Return(o, "error")
  /\ UNCHANGED <<fd, eid, simulated, shared_buffer, oFuncDispatch, inits,
                 owner, served>>

-------------------------------------------------------------------------------
(* The steps a thread takes by itself once a method is called. *)
Thread(o) ==
  \/ InitDevice(o)
  \/ PrepareEnclave(o)
  \/ LoadELF(o)
  \/ UtmInit(o)
  \/ Finalize(o)
  \/ MapUntrusted(o)
  \/ InitFailed(o)
  \/ Dispatch(o)
  \/ Resume(o)
  \/ RunFailed(o)

(* The calls the program may make, in any order. *)
Caller(o) ==
  \/ Construct(o)
  \/ RegisterOcallDispatch(o)
  \/ InitFiles(o)
  \/ Run(o)
  \/ DestroyCall(o)
  \/ Destruct(o)

Next == \E o \in Obj : Caller(o) \/ Thread(o) \/ EnclaveReturns(o)

Spec == Init /\ [][Next]_vars

(* A thread inside a method is scheduled and its ioctls return; neither the
   program nor the enclave has to do anything. *)
FairSpec == Spec /\ \A o \in Obj : WF_vars(Thread(o))

-------------------------------------------------------------------------------
(* Properties. *)

\* The variables keep to the values the code gives them; in particular no edge
\* call is dispatched a second time.
TypeOK ==
  /\ pc \in [Obj -> Pcs]
  /\ files \in [Obj -> {"null", "live", "dangling"}]
  /\ fd \in [Obj -> {"none", "open"}]
  /\ eid \in [Obj -> Eid \union {NoEid}]
  /\ simulated \in [Obj -> BOOLEAN]
  /\ shared_buffer \in [Obj -> {"unset", "mapped", "MAP_FAILED"}]
  /\ oFuncDispatch \in [Obj -> {"unset", "null", "set"}]
  /\ result \in [Obj -> {"none", "init", "run", "error", "destroyed"}]
  /\ inits \in [Obj -> Nat]
  /\ \A o \in Obj : inits[o] <= MaxInits[o]
  /\ badDelete \in BOOLEAN
  /\ enclave \in [Eid -> {"free", "created", "loaded", "ready", "running",
                          "edgeCall", "interrupted", "exited"}]
  /\ owner \in [Eid -> Obj \union {NoObj}]
  /\ served \in [Eid -> 0 .. 1]

\* No ELFFile is deleted twice, although the destructor deletes both files and
\* then calls destroy(), which deletes whatever the pointers still hold.
NoDoubleDelete == ~badDelete

\* The state of the driver in which an object at a given step believes its
\* enclave to be.
Believes(p) ==
  CASE p \in {"loadELF", "utmInit"} -> {"created"}
    [] p = "finalize" -> {"loaded"}
    [] p = "mapUntrusted" -> {"ready"}
    [] p = "running" -> {"running"}
    [] p = "edgeCall" -> {"edgeCall"}
    [] p = "resume" -> {"edgeCall", "interrupted"}

UsesEnclave == {"loadELF", "utmInit", "finalize", "mapUntrusted", "running",
                "edgeCall", "resume"}

\* While init() or run() works on an enclave, the eid it holds names an enclave
\* this object created, in the state the method believes it in: nobody else
\* finalizes, runs, resumes or destroys it in between.
InStepWithDriver ==
  \A o \in Obj :
    pc[o] \in UsesEnclave /\ ~simulated[o] =>
      /\ eid[o] \in Eid
      /\ owner[eid[o]] = o
      /\ enclave[eid[o]] \in Believes(pc[o])

\* When the last thing an object did is an init() that returned success, its
\* enclave is finalized and never run, the device is open and the ELF files
\* are gone.
InitReturnsReady ==
  \A o \in Obj :
    pc[o] = "idle" /\ result[o] = "init" =>
      /\ files[o] = "null"
      /\ ~simulated[o] => /\ fd[o] = "open"
                          /\ eid[o] \in Eid
                          /\ enclave[eid[o]] = "ready"
                          /\ owner[eid[o]] = o

\* A destructed object leaves no enclave it created in the driver, "if the
\* enclave has ever created, we destroy it" (keystone.cpp:514), whichever step
\* of its init() or run() failed, when init() was called no more than once: a
\* second init() writes over the eid of an enclave that is still there.
NoEnclaveLeak ==
  \A e \in Eid, o \in Obj :
    pc[o] = "dead" /\ inits[o] <= 1 /\ owner[e] = o => enclave[e] = "free"

\* An init() that could not map the untrusted buffer does not report success
\* (keystone.cpp:479-483).  Size 0, for which nothing is mapped, leaves "unset".
InitMapsBuffer ==
  \A o \in Obj :
    pc[o] = "idle" /\ result[o] = "init" => shared_buffer[o] # "MAP_FAILED"

\* run() answers each edge call as the code inside the enclave expects.  What
\* the enclave sees follows from the driver's state alone, not from pc.
PhaseFor(st, n) ==
  CASE st \in {"running", "interrupted"} -> "computing"
    [] st = "edgeCall" -> IF n = 0 THEN "calling"
                          ELSE IF n = 1 THEN "answered" ELSE "answered twice"
    [] OTHER -> "off"

Phase(e) == PhaseFor(enclave[e], served[e])

Handled(e) == \E o \in Obj : eid[o] = e /\ oFuncDispatch[o] = "set"

Service == INSTANCE OcallService
             WITH Enclave <- Eid,
                  phase <- [e \in Eid |-> Phase(e)],
                  handled <- [e \in Eid |-> Handled(e)]

\* The host implements the ocall contract of the enclave.
ImplementsOcallService == Service!Spec

\* An enclave that stopped for its host is resumed, loses its edge call to a
\* failed run() that destroys it, or is destroyed by somebody; it stays stopped
\* only when the thread that serves it crashed in its handler.
EnclaveNotStranded ==
  \A e \in Eid :
    enclave[e] \in {"edgeCall", "interrupted"} ~>
      \/ enclave[e] \notin {"edgeCall", "interrupted"}
      \/ \E o \in Obj : pc[o] = "crashed" /\ eid[o] = e
===============================================================================
