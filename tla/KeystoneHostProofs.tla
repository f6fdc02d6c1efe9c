-------------------------- MODULE KeystoneHostProofs --------------------------
(***************************************************************************)
(* Proofs about KeystoneHost for any objects and ids.  Without reuse of    *)
(* ids a stale eid can only ever name the object's own, destroyed enclave; *)
(* that is the heart of every proof here.                                  *)
(***************************************************************************)
EXTENDS KeystoneHost, TLAPS

\* An eid an object holds, stale or not, is one it created.
EidIsOwn == \A o \in Obj : eid[o] # NoEid => owner[eid[o]] = o

\* An id that was never handed out names no enclave.
UnusedIsFree == \A e \in Eid : owner[e] = NoObj => enclave[e] = "free"

\* The steps that use the enclave are not reached by a simulated init or run.
RealSteps ==
  \A o \in Obj :
    pc[o] \in UsesEnclave \ {"loadELF"} => ~simulated[o] /\ eid[o] # NoEid

\* An edge call that is about to be dispatched has not been dispatched.
CallIsFresh == \A o \in Obj : pc[o] = "edgeCall" => served[eid[o]] = 0

StepInv == TypeOK /\ EidIsOwn /\ UnusedIsFree /\ RealSteps /\ CallIsFresh
             /\ InStepWithDriver

LEMMA StepInvInit == Init => StepInv
<1> SUFFICES ASSUME Init PROVE StepInv
  OBVIOUS
<1>1. TypeOK
  <2>1. inits \in [Obj -> Nat] /\ \A o \in Obj : inits[o] <= MaxInits[o]
    BY BoundAssumption DEF Init
  <2>2. pc \in [Obj -> Pcs]
    BY DEF Init, Pcs
  <2>3. served \in [Eid -> 0 .. 1]
    BY DEF Init
  <2>4. QED
    BY <2>1, <2>2, <2>3 DEF Init, TypeOK
<1>2. EidIsOwn /\ UnusedIsFree
  BY DEF Init, EidIsOwn, UnusedIsFree
<1>3. RealSteps /\ CallIsFresh /\ InStepWithDriver
  BY DEF Init, RealSteps, CallIsFresh, InStepWithDriver, UsesEnclave
<1>4. QED
  BY <1>1, <1>2, <1>3 DEF StepInv

\* What destroy() can have done, whatever it was called with.
LEMMA DestroyCases ==
  ASSUME TypeOK, NEW o \in Obj, NEW f \in {"null", "live", "dangling"},
         Destroy(o, f)
  PROVE  /\ \/ enclave' = enclave
            \/ /\ eid[o] \in Eid
               /\ enclave[eid[o]] # "running"
               /\ enclave' = [enclave EXCEPT ![eid[o]] = "free"]
         /\ files' \in [Obj -> {"null", "live", "dangling"}]
         /\ badDelete' \in BOOLEAN
<1>1. /\ files' \in [Obj -> {"null", "live", "dangling"}]
      /\ badDelete' \in BOOLEAN
  BY DEF Destroy, DeleteFiles, TypeOK
<1>2. \/ enclave' = enclave
      \/ /\ eid[o] \in Eid
         /\ enclave[eid[o]] # "running"
         /\ enclave' = [enclave EXCEPT ![eid[o]] = "free"]
  BY DEF Destroy, Destroyable, TypeOK
<1>3. QED
  BY <1>1, <1>2

LEMMA StepInvNext ==
  ASSUME ReuseEids = FALSE, StepInv, [Next]_vars
  PROVE  StepInv'
<1> USE NoEidAssumption, NoObjAssumption, BoundAssumption
        DEF StepInv, TypeOK, EidIsOwn, UnusedIsFree, RealSteps, CallIsFresh,
            InStepWithDriver, UsesEnclave, Believes, Pcs, InitPcs, RunPcs,
            Goto, Return
<1>1. CASE UNCHANGED vars
  BY <1>1 DEF vars
<1>2. ASSUME NEW o \in Obj, Construct(o)
      PROVE  StepInv'
  BY <1>2 DEF Construct, driverVars
<1>3. ASSUME NEW o \in Obj, RegisterOcallDispatch(o)
      PROVE  StepInv'
  BY <1>3 DEF RegisterOcallDispatch, driverVars
<1>4. ASSUME NEW o \in Obj, InitFiles(o)
      PROVE  StepInv'
  <2>1. /\ inits' \in [Obj -> Nat]
        /\ \A x \in Obj : inits'[x] <= MaxInits[x]
    BY <1>4 DEF InitFiles
  <2>2. /\ pc' \in [Obj -> Pcs] /\ result' \in [Obj -> {"none", "init", "run",
                                                     "error", "destroyed"}]
        /\ files' \in [Obj -> {"null", "live", "dangling"}]
        /\ simulated' \in [Obj -> BOOLEAN]
    BY <1>4 DEF InitFiles
  <2>3. TypeOK'
    BY <1>4, <2>1, <2>2 DEF InitFiles, driverVars
  <2>4. (EidIsOwn /\ UnusedIsFree /\ RealSteps /\ CallIsFresh)'
    BY <1>4 DEF InitFiles, driverVars
  <2>5. InStepWithDriver'
    BY <1>4 DEF InitFiles, driverVars
  <2> QED BY ONLY <2>3, <2>4, <2>5 DEF StepInv
<1>5. ASSUME NEW o \in Obj, Run(o)
      PROVE  StepInv'
  BY <1>5 DEF Run
<1>6. ASSUME NEW o \in Obj, DestroyCall(o)
      PROVE  StepInv'
  BY <1>6, DestroyCases DEF DestroyCall
<1>7. ASSUME NEW o \in Obj, Destruct(o)
      PROVE  StepInv'
  BY <1>7, DestroyCases DEF Destruct
<1>8. ASSUME NEW o \in Obj, InitDevice(o)
      PROVE  StepInv'
  BY <1>8 DEF InitDevice, driverVars
<1>9. ASSUME NEW o \in Obj, PrepareEnclave(o)
      PROVE  StepInv'
  BY <1>9, SMTT(30) DEF PrepareEnclave, Available
<1>10. ASSUME NEW o \in Obj, LoadELF(o)
       PROVE  StepInv'
  BY <1>10 DEF LoadELF, DeleteFiles, driverVars
<1>11. ASSUME NEW o \in Obj, UtmInit(o)
       PROVE  StepInv'
  BY <1>11 DEF UtmInit, InitIoctl
<1>12. ASSUME NEW o \in Obj, Finalize(o)
       PROVE  StepInv'
  BY <1>12 DEF Finalize, InitIoctl
<1>13. ASSUME NEW o \in Obj, MapUntrusted(o)
       PROVE  StepInv'
  BY <1>13 DEF MapUntrusted, DeleteFiles, driverVars
<1>14. ASSUME NEW o \in Obj, InitFailed(o)
       PROVE  StepInv'
  BY <1>14, DestroyCases DEF InitFailed
<1>15. ASSUME NEW o \in Obj, Dispatch(o)
       PROVE  StepInv'
  BY <1>15 DEF Dispatch
<1>16. ASSUME NEW o \in Obj, Resume(o)
       PROVE  StepInv'
  BY <1>16 DEF Resume
<1>17. ASSUME NEW o \in Obj, RunFailed(o)
       PROVE  StepInv'
  BY <1>17, DestroyCases DEF RunFailed
<1>18. ASSUME NEW o \in Obj, EnclaveReturns(o)
       PROVE  StepInv'
  BY <1>18 DEF EnclaveReturns
<1>19. QED
  BY <1>1, <1>2, <1>3, <1>4, <1>5, <1>6, <1>7, <1>8, <1>9, <1>10, <1>11,
     <1>12, <1>13, <1>14, <1>15, <1>16, <1>17, <1>18
     DEF Next, Caller, Thread

\* The variables keep to their types and no edge call is dispatched twice.
THEOREM TypeCorrect == ASSUME ReuseEids = FALSE PROVE Spec => []TypeOK
<1>1. StepInv => TypeOK
  BY DEF StepInv
<1>2. QED
  BY <1>1, StepInvInit, StepInvNext, PTL DEF Spec

\* While init() or run() works on an enclave, it is the object's own and in the
\* state the method believes it in, however many objects share the driver.
THEOREM StaysInStep == ASSUME ReuseEids = FALSE PROVE Spec => []InStepWithDriver
<1>1. StepInv => InStepWithDriver
  BY DEF StepInv
<1>2. QED
  BY <1>1, StepInvInit, StepInvNext, PTL DEF Spec

-------------------------------------------------------------------------------
(* No ELFFile is deleted twice. *)

\* The pointers dangle in a destructed object only.
DanglesWhenDead == \A o \in Obj : files[o] = "dangling" => pc[o] = "dead"

\* Files an object still has between two calls are there because destroy() could
\* not destroy its enclave, and it never will: without this the destructor's
\* destroy() could get past the ioctl and delete the files again.
StuckFiles ==
  \A o \in Obj : pc[o] = "idle" /\ files[o] = "live" =>
                  eid[o] # NoEid /\ ~Destroyable(o)

\* An object that got as far as running its enclave has no files.
RunsWithoutFiles ==
  \A o \in Obj :
    pc[o] \in {"running", "edgeCall", "resume"} => files[o] = "null"

DeleteInv == StepInv /\ NoDoubleDelete /\ DanglesWhenDead /\ StuckFiles
               /\ RunsWithoutFiles

LEMMA DeleteInvInit == Init => DeleteInv
  BY StepInvInit DEF Init, DeleteInv, NoDoubleDelete, DanglesWhenDead,
                     StuckFiles, RunsWithoutFiles

LEMMA DeleteInvNext ==
  ASSUME ReuseEids = FALSE, DestroyMayFail = FALSE, DeleteInv, [Next]_vars
  PROVE  DeleteInv'
<1>0. StepInv'
  BY StepInvNext DEF DeleteInv
<1> DEFINE Rest == NoDoubleDelete /\ DanglesWhenDead /\ StuckFiles
                     /\ RunsWithoutFiles
<1>a. Rest'
<2> USE NoEidAssumption, NoObjAssumption
        DEF DeleteInv, NoDoubleDelete, DanglesWhenDead, StuckFiles,
            RunsWithoutFiles, Destroyable, StepInv, TypeOK, EidIsOwn,
            InStepWithDriver, UsesEnclave, Believes, RealSteps, Goto, Return
<2>1. CASE UNCHANGED vars
  BY <2>1 DEF vars
<2>2. ASSUME NEW o \in Obj, Construct(o)
      PROVE  Rest'
  BY <2>2 DEF Construct, driverVars
<2>3. ASSUME NEW o \in Obj, RegisterOcallDispatch(o)
      PROVE  Rest'
  BY <2>3 DEF RegisterOcallDispatch, driverVars
<2>4. ASSUME NEW o \in Obj, InitFiles(o)
      PROVE  Rest'
  BY <2>4 DEF InitFiles, driverVars
<2>5. ASSUME NEW o \in Obj, Run(o)
      PROVE  Rest'
  BY <2>5 DEF Run
<2>6. ASSUME NEW o \in Obj, DestroyCall(o)
      PROVE  Rest'
  BY <2>6 DEF DestroyCall, Destroy, Destroyable, DeleteFiles
<2>7. ASSUME NEW o \in Obj, Destruct(o)
      PROVE  Rest'
  BY <2>7 DEF Destruct, Destroy, Destroyable, DeleteFiles
<2>8. ASSUME NEW o \in Obj, InitDevice(o)
      PROVE  Rest'
  BY <2>8 DEF InitDevice, driverVars
<2>9. ASSUME NEW o \in Obj, PrepareEnclave(o)
      PROVE  Rest'
  BY <2>9 DEF PrepareEnclave, Available
<2>10. ASSUME NEW o \in Obj, LoadELF(o)
       PROVE  Rest'
  BY <2>10 DEF LoadELF, DeleteFiles, driverVars
<2>11. ASSUME NEW o \in Obj, UtmInit(o)
       PROVE  Rest'
  BY <2>11 DEF UtmInit, InitIoctl
<2>12. ASSUME NEW o \in Obj, Finalize(o)
       PROVE  Rest'
  BY <2>12 DEF Finalize, InitIoctl
<2>13. ASSUME NEW o \in Obj, MapUntrusted(o)
       PROVE  Rest'
  BY <2>13 DEF MapUntrusted, DeleteFiles, driverVars
<2>14. ASSUME NEW o \in Obj, InitFailed(o)
       PROVE  Rest'
  BY <2>14 DEF InitFailed, Destroy, Destroyable, DeleteFiles
<2>15. ASSUME NEW o \in Obj, Dispatch(o)
       PROVE  Rest'
  BY <2>15 DEF Dispatch
<2>16. ASSUME NEW o \in Obj, Resume(o)
       PROVE  Rest'
  BY <2>16 DEF Resume
<2>17. ASSUME NEW o \in Obj, RunFailed(o)
       PROVE  Rest'
  BY <2>17 DEF RunFailed, Destroy, Destroyable, DeleteFiles
<2>18. ASSUME NEW o \in Obj, EnclaveReturns(o)
       PROVE  Rest'
  BY <2>18 DEF EnclaveReturns
<2>19. QED
  BY <2>1, <2>2, <2>3, <2>4, <2>5, <2>6, <2>7, <2>8, <2>9, <2>10, <2>11,
     <2>12, <2>13, <2>14, <2>15, <2>16, <2>17, <2>18
     DEF Next, Caller, Thread
<1>b. QED
  BY <1>0, <1>a DEF DeleteInv

\* No ELFFile is deleted twice, provided the DESTROY ioctl succeeds whenever the
\* enclave exists and is not running.
THEOREM DeletesOnce ==
  ASSUME ReuseEids = FALSE, DestroyMayFail = FALSE
  PROVE  Spec => []NoDoubleDelete
<1>1. DeleteInv => NoDoubleDelete
  BY DEF DeleteInv
<1>2. QED
  BY <1>1, DeleteInvInit, DeleteInvNext, PTL DEF Spec

-------------------------------------------------------------------------------
(* An init() that returned success leaves the enclave ready to run. *)

\* A real init() or run() past open() has the device open.
FdOpen == \A o \in Obj :
            /\ pc[o] \in UsesEnclave /\ ~simulated[o] => fd[o] = "open"
            /\ pc[o] = "prepareEnclave" /\ ~simulated[o] => fd[o] = "open"

\* An object that does not exist has returned nothing.
UnbornSilent == \A o \in Obj : pc[o] = "unborn" => result[o] = "none"

ReadyInv == StepInv /\ FdOpen /\ UnbornSilent /\ InitReturnsReady

LEMMA ReadyInvInit == Init => ReadyInv
<1>1. Init => FdOpen /\ UnbornSilent /\ InitReturnsReady
  BY DEF Init, FdOpen, UnbornSilent, InitReturnsReady, UsesEnclave
<1>2. QED
  BY <1>1, StepInvInit DEF ReadyInv

LEMMA ReadyInvNext ==
  ASSUME ReuseEids = FALSE, ReadyInv, [Next]_vars
  PROVE  ReadyInv'
<1>0. StepInv'
  BY StepInvNext DEF ReadyInv
<1> DEFINE Rest == FdOpen /\ UnbornSilent /\ InitReturnsReady
<1>a. Rest'
<2>1. CASE UNCHANGED vars
  BY <2>1 DEF vars, ReadyInv, FdOpen, UnbornSilent, InitReturnsReady
<2> USE NoEidAssumption, NoObjAssumption
        DEF ReadyInv, FdOpen, UnbornSilent, InitReturnsReady, StepInv, TypeOK,
            EidIsOwn, InStepWithDriver, UsesEnclave, Believes, RealSteps,
            Goto, Return
<2>2. ASSUME NEW o \in Obj, Construct(o)
      PROVE  Rest'
  BY <2>2 DEF Construct, driverVars
<2>3. ASSUME NEW o \in Obj, RegisterOcallDispatch(o)
      PROVE  Rest'
  BY <2>3 DEF RegisterOcallDispatch, driverVars
<2>4. ASSUME NEW o \in Obj, InitFiles(o)
      PROVE  Rest'
  BY <2>4 DEF InitFiles, driverVars
<2>5. ASSUME NEW o \in Obj, Run(o)
      PROVE  Rest'
  BY <2>5 DEF Run
<2>6. ASSUME NEW o \in Obj, DestroyCall(o)
      PROVE  Rest'
  BY <2>6 DEF DestroyCall, Destroy, Destroyable, DeleteFiles
<2>7. ASSUME NEW o \in Obj, Destruct(o)
      PROVE  Rest'
  BY <2>7 DEF Destruct, Destroy, Destroyable, DeleteFiles
<2>8. ASSUME NEW o \in Obj, InitDevice(o)
      PROVE  Rest'
  BY <2>8 DEF InitDevice, driverVars
<2>9. ASSUME NEW o \in Obj, PrepareEnclave(o)
      PROVE  Rest'
  BY <2>9 DEF PrepareEnclave, Available
<2>10. ASSUME NEW o \in Obj, LoadELF(o)
       PROVE  Rest'
  BY <2>10 DEF LoadELF, DeleteFiles, driverVars
<2>11. ASSUME NEW o \in Obj, UtmInit(o)
       PROVE  Rest'
  BY <2>11 DEF UtmInit, InitIoctl
<2>12. ASSUME NEW o \in Obj, Finalize(o)
       PROVE  Rest'
  BY <2>12 DEF Finalize, InitIoctl
<2>13. ASSUME NEW o \in Obj, MapUntrusted(o)
       PROVE  Rest'
  BY <2>13 DEF MapUntrusted, DeleteFiles, driverVars
<2>14. ASSUME NEW o \in Obj, InitFailed(o)
       PROVE  Rest'
  BY <2>14 DEF InitFailed, Destroy, Destroyable, DeleteFiles
<2>15. ASSUME NEW o \in Obj, Dispatch(o)
       PROVE  Rest'
  BY <2>15 DEF Dispatch
<2>16. ASSUME NEW o \in Obj, Resume(o)
       PROVE  Rest'
  BY <2>16 DEF Resume
<2>17. ASSUME NEW o \in Obj, RunFailed(o)
       PROVE  Rest'
  BY <2>17 DEF RunFailed, Destroy, Destroyable, DeleteFiles
<2>18. ASSUME NEW o \in Obj, EnclaveReturns(o)
       PROVE  Rest'
  BY <2>18 DEF EnclaveReturns
<2>19. QED
  BY <2>1, <2>2, <2>3, <2>4, <2>5, <2>6, <2>7, <2>8, <2>9, <2>10, <2>11,
     <2>12, <2>13, <2>14, <2>15, <2>16, <2>17, <2>18
     DEF Next, Caller, Thread
<1>b. QED
  BY <1>0, <1>a DEF ReadyInv

\* Between an init() that succeeded and the next call, the object's enclave is
\* finalized, never run, and its own.
THEOREM InitMakesReady ==
  ASSUME ReuseEids = FALSE PROVE Spec => []InitReturnsReady
<1>1. ReadyInv => InitReturnsReady
  BY DEF ReadyInv
<1>2. QED
  BY <1>1, ReadyInvInit, ReadyInvNext, PTL DEF Spec

-------------------------------------------------------------------------------
(* An object whose init() was called once leaves no enclave behind. *)

\* Before the CREATE ioctl of its first init() an object created nothing.
NothingBeforeCreate ==
  \A o \in Obj :
    \/ inits[o] = 0
    \/ inits[o] <= 1 /\ pc[o] \in {"unborn", "initDevice", "prepareEnclave"}
    => \A e \in Eid : owner[e] # o

\* init() is counted before it does anything.
Counted == \A o \in Obj : pc[o] \in InitPcs => inits[o] # 0

\* The enclave an object created in its first init() is the one its destructor
\* would destroy, and only run() has it running.
HeldEnclave ==
  \A e \in Eid, o \in Obj :
    inits[o] <= 1 /\ owner[e] = o /\ enclave[e] # "free" =>
      /\ eid[o] = e /\ fd[o] = "open"
      /\ enclave[e] = "running" => pc[o] = "running"

LeakInv == StepInv /\ Counted /\ NothingBeforeCreate /\ HeldEnclave /\ FdOpen
             /\ NoEnclaveLeak

LEMMA LeakInvInit == Init => LeakInv
<1>1. Init => /\ Counted /\ NothingBeforeCreate /\ HeldEnclave
              /\ FdOpen /\ NoEnclaveLeak
  BY NoObjAssumption
     DEF Init, Counted, InitPcs, NothingBeforeCreate, HeldEnclave, FdOpen,
         NoEnclaveLeak, UsesEnclave
<1>2. QED
  BY <1>1, StepInvInit DEF LeakInv

LEMMA LeakInvNext ==
  ASSUME ReuseEids = FALSE, DestroyMayFail = FALSE, LeakInv, [Next]_vars
  PROVE  LeakInv'
<1>0. StepInv'
  BY StepInvNext DEF LeakInv
<1> DEFINE Rest == /\ Counted /\ NothingBeforeCreate /\ HeldEnclave
                   /\ FdOpen /\ NoEnclaveLeak
<1>a. Rest'
<2> USE NoEidAssumption, NoObjAssumption
        DEF LeakInv, Counted, InitPcs, NothingBeforeCreate, HeldEnclave,
            FdOpen, NoEnclaveLeak,
            StepInv, TypeOK, EidIsOwn, InStepWithDriver, UsesEnclave, Believes,
            RealSteps, Goto, Return
<2>1. CASE UNCHANGED vars
  BY <2>1 DEF vars
<2>2. ASSUME NEW o \in Obj, Construct(o)
      PROVE  Rest'
  BY <2>2 DEF Construct, driverVars
<2>3. ASSUME NEW o \in Obj, RegisterOcallDispatch(o)
      PROVE  Rest'
  BY <2>3 DEF RegisterOcallDispatch, driverVars
<2>4. ASSUME NEW o \in Obj, InitFiles(o)
      PROVE  Rest'
  BY <2>4 DEF InitFiles, driverVars
<2>5. ASSUME NEW o \in Obj, Run(o)
      PROVE  Rest'
  BY <2>5 DEF Run
<2>6. ASSUME NEW o \in Obj, DestroyCall(o)
      PROVE  Rest'
  BY <2>6 DEF DestroyCall, Destroy, Destroyable, DeleteFiles
<2>7. ASSUME NEW o \in Obj, Destruct(o)
      PROVE  Rest'
  BY <2>7 DEF Destruct, Destroy, Destroyable, DeleteFiles
<2>8. ASSUME NEW o \in Obj, InitDevice(o)
      PROVE  Rest'
  BY <2>8 DEF InitDevice, driverVars
<2>9. ASSUME NEW o \in Obj, PrepareEnclave(o)
      PROVE  Rest'
  BY <2>9 DEF PrepareEnclave, Available
<2>10. ASSUME NEW o \in Obj, LoadELF(o)
       PROVE  Rest'
  BY <2>10 DEF LoadELF, DeleteFiles, driverVars
<2>11. ASSUME NEW o \in Obj, UtmInit(o)
       PROVE  Rest'
  BY <2>11 DEF UtmInit, InitIoctl
<2>12. ASSUME NEW o \in Obj, Finalize(o)
       PROVE  Rest'
  BY <2>12 DEF Finalize, InitIoctl
<2>13. ASSUME NEW o \in Obj, MapUntrusted(o)
       PROVE  Rest'
  BY <2>13 DEF MapUntrusted, DeleteFiles, driverVars
<2>14. ASSUME NEW o \in Obj, InitFailed(o)
       PROVE  Rest'
  BY <2>14 DEF InitFailed, Destroy, Destroyable, DeleteFiles
<2>15. ASSUME NEW o \in Obj, Dispatch(o)
       PROVE  Rest'
  BY <2>15 DEF Dispatch
<2>16. ASSUME NEW o \in Obj, Resume(o)
       PROVE  Rest'
  BY <2>16 DEF Resume
<2>17. ASSUME NEW o \in Obj, RunFailed(o)
       PROVE  Rest'
  BY <2>17 DEF RunFailed, Destroy, Destroyable, DeleteFiles
<2>18. ASSUME NEW o \in Obj, EnclaveReturns(o)
       PROVE  Rest'
  BY <2>18 DEF EnclaveReturns
<2>19. QED
  BY <2>1, <2>2, <2>3, <2>4, <2>5, <2>6, <2>7, <2>8, <2>9, <2>10, <2>11,
     <2>12, <2>13, <2>14, <2>15, <2>16, <2>17, <2>18
     DEF Next, Caller, Thread
<1>b. QED
  BY <1>0, <1>a DEF LeakInv

\* An object initialised no more than once leaves no enclave behind when it is
\* destructed, whatever the others do and however often they are initialised.
THEOREM LeaksNothing ==
  ASSUME ReuseEids = FALSE, DestroyMayFail = FALSE
  PROVE  Spec => []NoEnclaveLeak
<1>1. LeakInv => NoEnclaveLeak
  BY DEF LeakInv
<1>2. QED
  BY <1>1, LeakInvInit, LeakInvNext, PTL DEF Spec

-------------------------------------------------------------------------------
(* The host implements the ocall contract. *)

Active == {"running", "edgeCall", "interrupted"}

\* An enclave that has begun and not ended keeps its object inside run().
ActiveInRun ==
  \A o \in Obj :
    eid[o] # NoEid /\ enclave[eid[o]] \in Active =>
      /\ pc[o] \in RunPcs \union {"crashed"}
      /\ enclave[eid[o]] = "running" => pc[o] = "running"
      /\ fd[o] = "open"

\* A call that is resumed without an answer had no dispatch function.
DroppedUnset ==
  \A o \in Obj :
    /\ pc[o] = "resume" /\ enclave[eid[o]] = "edgeCall" /\ served[eid[o]] = 0
    => oFuncDispatch[o] # "set"

ServeInv == StepInv /\ ActiveInRun /\ DroppedUnset

LEMMA ServeInvInit == Init => ServeInv
<1>1. Init => ActiveInRun /\ DroppedUnset
  BY DEF Init, ActiveInRun, DroppedUnset
<1>2. QED
  BY <1>1, StepInvInit DEF ServeInv

LEMMA ServeInvNext ==
  ASSUME ReuseEids = FALSE, DestroyMayFail = FALSE, ServeInv, [Next]_vars
  PROVE  ServeInv'
<1>0. StepInv'
  BY StepInvNext DEF ServeInv
<1> DEFINE Rest == ActiveInRun /\ DroppedUnset
<1>a. Rest'
<2> USE NoEidAssumption, NoObjAssumption
        DEF ServeInv, ActiveInRun, DroppedUnset, Active, StepInv, TypeOK,
            EidIsOwn, InStepWithDriver, UsesEnclave, Believes, RealSteps,
            CallIsFresh, RunPcs, InitPcs, Goto, Return
<2>1. CASE UNCHANGED vars
  BY <2>1 DEF vars
<2>2. ASSUME NEW o \in Obj, Construct(o)
      PROVE  Rest'
  BY <2>2 DEF Construct, driverVars
<2>3. ASSUME NEW o \in Obj, RegisterOcallDispatch(o)
      PROVE  Rest'
  BY <2>3 DEF RegisterOcallDispatch, driverVars
<2>4. ASSUME NEW o \in Obj, InitFiles(o)
      PROVE  Rest'
  BY <2>4 DEF InitFiles, driverVars
<2>5. ASSUME NEW o \in Obj, Run(o)
      PROVE  Rest'
  BY <2>5 DEF Run
<2>6. ASSUME NEW o \in Obj, DestroyCall(o)
      PROVE  Rest'
  BY <2>6 DEF DestroyCall, Destroy, Destroyable, DeleteFiles
<2>7. ASSUME NEW o \in Obj, Destruct(o)
      PROVE  Rest'
  BY <2>7 DEF Destruct, Destroy, Destroyable, DeleteFiles
<2>8. ASSUME NEW o \in Obj, InitDevice(o)
      PROVE  Rest'
  BY <2>8 DEF InitDevice, driverVars
<2>9. ASSUME NEW o \in Obj, PrepareEnclave(o)
      PROVE  Rest'
  BY <2>9 DEF PrepareEnclave, Available
<2>10. ASSUME NEW o \in Obj, LoadELF(o)
       PROVE  Rest'
  BY <2>10 DEF LoadELF, DeleteFiles, driverVars
<2>11. ASSUME NEW o \in Obj, UtmInit(o)
       PROVE  Rest'
  BY <2>11 DEF UtmInit, InitIoctl
<2>12. ASSUME NEW o \in Obj, Finalize(o)
       PROVE  Rest'
  BY <2>12 DEF Finalize, InitIoctl
<2>13. ASSUME NEW o \in Obj, MapUntrusted(o)
       PROVE  Rest'
  BY <2>13 DEF MapUntrusted, DeleteFiles, driverVars
<2>14. ASSUME NEW o \in Obj, InitFailed(o)
       PROVE  Rest'
  BY <2>14 DEF InitFailed, Destroy, Destroyable, DeleteFiles
<2>15. ASSUME NEW o \in Obj, Dispatch(o)
       PROVE  Rest'
  BY <2>15 DEF Dispatch
<2>16. ASSUME NEW o \in Obj, Resume(o)
       PROVE  Rest'
  BY <2>16 DEF Resume
<2>17. ASSUME NEW o \in Obj, RunFailed(o)
       PROVE  Rest'
  BY <2>17 DEF RunFailed, Destroy, Destroyable, DeleteFiles
<2>18. ASSUME NEW o \in Obj, EnclaveReturns(o)
       PROVE  Rest'
  BY <2>18 DEF EnclaveReturns
<2>19. QED
  BY <2>1, <2>2, <2>3, <2>4, <2>5, <2>6, <2>7, <2>8, <2>9, <2>10, <2>11,
     <2>12, <2>13, <2>14, <2>15, <2>16, <2>17, <2>18
     DEF Next, Caller, Thread
<1>b. QED
  BY <1>0, <1>a DEF ServeInv

LEMMA PhaseValues ==
  ASSUME NEW st, NEW n
  PROVE  /\ st \in {"running", "interrupted"} => PhaseFor(st, n) = "computing"
         /\ st = "edgeCall" /\ n = 0 => PhaseFor(st, n) = "calling"
         /\ st = "edgeCall" /\ n = 1 => PhaseFor(st, n) = "answered"
         /\ st \notin Active => PhaseFor(st, n) = "off"
  BY DEF PhaseFor, Active

\* The steps OcallService lets the enclave e take.
PhaseStep(e) ==
  \/ Phase(e) = "off" /\ Phase(e)' = "computing"
  \/ Phase(e) = "computing" /\ Phase(e)' = "calling"
  \/ Phase(e) = "calling" /\ Phase(e)' = "answered" /\ Handled(e)
  \/ Phase(e) = "answered" /\ Phase(e)' = "computing"
  \/ Phase(e) = "calling" /\ Phase(e)' = "computing" /\ ~Handled(e)
  \/ Phase(e) # "off" /\ Phase(e)' = "off"

SamePhase(S) == \A e \in S : Phase(e)' = Phase(e)

\* Either the dispatch function changes, for enclaves that are off, or at most
\* one enclave takes a step.
ServiceStep ==
  \/ /\ SamePhase(Eid)
     /\ \A e \in Eid : Handled(e)' # Handled(e) => Phase(e) = "off"
  \/ /\ \A e \in Eid : Handled(e)' = Handled(e)
     /\ \E e \in Eid : SamePhase(Eid \ {e}) /\ PhaseStep(e)

LEMMA HandledKept ==
  ASSUME UNCHANGED <<eid, oFuncDispatch>>
  PROVE  \A e \in Eid : Handled(e)' = Handled(e)
  BY DEF Handled

LEMMA SameStep ==
  ASSUME UNCHANGED <<enclave, served, eid, oFuncDispatch>>
  PROVE  ServiceStep
<1>1. SamePhase(Eid)
  BY DEF SamePhase, Phase
<1>2. QED
  BY <1>1, HandledKept DEF ServiceStep

\* A change of one enclave and nothing else is a step if it is one for it.
LEMMA OneEnclave ==
  ASSUME NEW e \in Eid, UNCHANGED <<eid, oFuncDispatch>>,
         \A d \in Eid \ {e} :
           enclave'[d] = enclave[d] /\ served'[d] = served[d],
         PhaseStep(e) \/ Phase(e)' = Phase(e)
  PROVE  ServiceStep
<1>1. SamePhase(Eid \ {e})
  BY DEF SamePhase, Phase
<1>2. CASE PhaseStep(e)
  BY <1>1, <1>2, HandledKept DEF ServiceStep
<1>3. CASE Phase(e)' = Phase(e)
  <2>1. SamePhase(Eid)
    BY <1>1, <1>3 DEF SamePhase
  <2>2. QED
    BY <2>1, HandledKept DEF ServiceStep
<1>4. QED
  BY <1>2, <1>3

\* destroy() turns its enclave off or does nothing to it.
LEMMA DestroyStep ==
  ASSUME TypeOK, NEW o \in Obj, NEW f \in {"null", "live", "dangling"},
         Destroy(o, f), UNCHANGED <<eid, oFuncDispatch, served>>
  PROVE  ServiceStep
<1>1. CASE enclave' = enclave
  BY <1>1, SameStep
<1>2. CASE /\ eid[o] \in Eid
           /\ enclave' = [enclave EXCEPT ![eid[o]] = "free"]
  <2>1. Phase(eid[o])' = "off"
    BY <1>2, PhaseValues DEF Phase, Active, TypeOK
  <2>2. PhaseStep(eid[o]) \/ Phase(eid[o])' = Phase(eid[o])
    BY <2>1 DEF PhaseStep
  <2>3. \A d \in Eid \ {eid[o]} :
          enclave'[d] = enclave[d] /\ served'[d] = served[d]
    BY <1>2 DEF TypeOK
  <2>4. QED
    BY <1>2, <2>2, <2>3, OneEnclave
<1>3. QED
  BY <1>1, <1>2, DestroyCases

LEMMA NextIsServiceStep ==
  ASSUME ReuseEids = FALSE, DestroyMayFail = FALSE, ServeInv, [Next]_vars
  PROVE  ServiceStep
<1> USE NoEidAssumption, NoObjAssumption
<1>1. CASE UNCHANGED vars
  BY <1>1, SameStep DEF vars
<1>2. ASSUME NEW o \in Obj,
             \/ InitFiles(o) \/ InitDevice(o) \/ LoadELF(o) \/ MapUntrusted(o)
      PROVE  ServiceStep
  BY <1>2, SameStep
     DEF InitFiles, InitDevice, LoadELF, MapUntrusted, driverVars
<1>3. ASSUME NEW o \in Obj,
             DestroyCall(o) \/ Destruct(o) \/ InitFailed(o) \/ RunFailed(o)
      PROVE  ServiceStep
  <2>1. TypeOK
    BY DEF ServeInv, StepInv
  <2>2. /\ UNCHANGED <<eid, oFuncDispatch, served>>
        /\ \E f \in {"null", "live", "dangling"} : Destroy(o, f)
    BY <1>3, <2>1 DEF DestroyCall, Destruct, InitFailed, RunFailed, TypeOK
  <2>3. QED
    BY <2>1, <2>2, DestroyStep
<1>4. ASSUME NEW o \in Obj, \/ UtmInit(o) \/ Finalize(o)
      PROVE  ServiceStep
  <2>1. eid[o] \in Eid
    BY <1>4 DEF UtmInit, Finalize, InitIoctl, ServeInv, StepInv, RealSteps,
                UsesEnclave, TypeOK
  <2>2. Phase(eid[o])' = Phase(eid[o])
    BY <1>4, <2>1, PhaseValues
       DEF UtmInit, Finalize, InitIoctl, Phase, Active, ServeInv, StepInv,
           TypeOK
  <2>3. QED
    BY <1>4, <2>1, <2>2, OneEnclave
       DEF UtmInit, Finalize, InitIoctl, ServeInv, StepInv, TypeOK
<1>5. ASSUME NEW o \in Obj, Run(o)
      PROVE  ServiceStep
  <2>1. CASE enclave' = enclave
    BY <1>5, <2>1, SameStep DEF Run
  <2>2. CASE eid[o] # NoEid /\ enclave[eid[o]] = "ready"
             /\ enclave' = [enclave EXCEPT ![eid[o]] = "running"]
    <3>1. eid[o] \in Eid
      BY <2>2 DEF ServeInv, StepInv, TypeOK
    <3>2. PhaseStep(eid[o])
      BY <1>5, <2>2, <3>1, PhaseValues
         DEF Run, PhaseStep, Phase, Active, ServeInv, StepInv, TypeOK
    <3>3. QED
      BY <1>5, <2>2, <3>1, <3>2, OneEnclave
         DEF Run, ServeInv, StepInv, TypeOK
  <2>3. QED
    BY <1>5, <2>1, <2>2 DEF Run
<1>6. ASSUME NEW o \in Obj, EnclaveReturns(o)
      PROVE  ServiceStep
  <2>1. eid[o] \in Eid
    BY <1>6 DEF EnclaveReturns, ServeInv, StepInv, RealSteps, UsesEnclave,
                TypeOK
  <2>2. PhaseStep(eid[o]) \/ Phase(eid[o])' = Phase(eid[o])
    BY <1>6, <2>1, PhaseValues
       DEF EnclaveReturns, PhaseStep, Phase, Active, ServeInv, StepInv, TypeOK
  <2>3. QED
    BY <1>6, <2>1, <2>2, OneEnclave
       DEF EnclaveReturns, ServeInv, StepInv, TypeOK
<1>7. ASSUME NEW o \in Obj, Dispatch(o)
      PROVE  ServiceStep
  <2>1. eid[o] \in Eid
    BY <1>7 DEF Dispatch, ServeInv, StepInv, RealSteps, UsesEnclave, TypeOK
  <2>2. CASE served' = served
    BY <1>7, <2>2, SameStep DEF Dispatch
  <2>3. CASE /\ oFuncDispatch[o] = "set"
             /\ served' = [served EXCEPT ![eid[o]] = @ + 1]
    <3>1. enclave[eid[o]] = "edgeCall" /\ served[eid[o]] = 0
      BY <1>7 DEF Dispatch, ServeInv, StepInv, RealSteps, UsesEnclave,
                  InStepWithDriver, Believes, CallIsFresh
    <3>2. Handled(eid[o])
      BY <2>3 DEF Handled
    <3>3. Phase(eid[o]) = "calling" /\ Phase(eid[o])' = "answered"
      BY <1>7, <2>1, <2>3, <3>1, PhaseValues
         DEF Dispatch, Phase, ServeInv, StepInv, TypeOK
    <3>4. QED
      BY <1>7, <2>1, <2>3, <3>2, <3>3, OneEnclave
         DEF Dispatch, PhaseStep, ServeInv, StepInv, TypeOK
  <2>4. QED
    BY <1>7, <2>2, <2>3 DEF Dispatch
<1>8. ASSUME NEW o \in Obj, Resume(o)
      PROVE  ServiceStep
  <2>1. eid[o] \in Eid
    BY <1>8 DEF Resume, ServeInv, StepInv, RealSteps, UsesEnclave, TypeOK
  <2>2. CASE enclave' = enclave
    BY <1>8, <2>2, SameStep DEF Resume
  <2>3. CASE enclave' = [enclave EXCEPT ![eid[o]] = "running"]
    <3>1. enclave[eid[o]] \in {"edgeCall", "interrupted"}
      BY <1>8 DEF Resume, ServeInv, StepInv, RealSteps, UsesEnclave,
                  InStepWithDriver, Believes
    <3>2. Phase(eid[o])' = "computing"
      BY <1>8, <2>1, <2>3, PhaseValues
         DEF Resume, Phase, ServeInv, StepInv, TypeOK
    <3>3. CASE enclave[eid[o]] = "interrupted"
      <4>1. Phase(eid[o]) = "computing"
        BY <3>3, PhaseValues DEF Phase
      <4>2. QED
        BY <1>8, <2>1, <2>3, <3>2, <4>1, OneEnclave
           DEF Resume, ServeInv, StepInv, TypeOK
    <3>4. CASE enclave[eid[o]] = "edgeCall" /\ served[eid[o]] = 1
      <4>1. Phase(eid[o]) = "answered"
        BY <3>4, PhaseValues DEF Phase
      <4>2. QED
        BY <1>8, <2>1, <2>3, <3>2, <4>1, OneEnclave
           DEF Resume, PhaseStep, ServeInv, StepInv, TypeOK
    <3>5. CASE enclave[eid[o]] = "edgeCall" /\ served[eid[o]] = 0
      <4>1. Phase(eid[o]) = "calling"
        BY <3>5, PhaseValues DEF Phase
      <4>2. ~Handled(eid[o])
        BY <1>8, <2>1, <3>5
           DEF Resume, Handled, ServeInv, StepInv, EidIsOwn, DroppedUnset
      <4>3. QED
        BY <1>8, <2>1, <2>3, <3>2, <4>1, <4>2, OneEnclave
           DEF Resume, PhaseStep, ServeInv, StepInv, TypeOK
    <3>6. QED
      BY <2>1, <3>1, <3>3, <3>4, <3>5 DEF ServeInv, StepInv, TypeOK
  <2>4. QED
    BY <1>8, <2>2, <2>3 DEF Resume
<1>9. ASSUME NEW o \in Obj,
             Construct(o) \/ RegisterOcallDispatch(o) \/ PrepareEnclave(o)
      PROVE  ServiceStep
  <2>1. SamePhase(Eid)
    BY <1>9, PhaseValues
       DEF Construct, RegisterOcallDispatch, PrepareEnclave, Available,
           driverVars, SamePhase, Phase, Active, ServeInv, StepInv, TypeOK
  <2>2. ASSUME NEW e \in Eid, Handled(e)' # Handled(e)
        PROVE  Phase(e) = "off"
    <3>1. eid[o] = e \/ eid'[o] = e
      BY <1>9, <2>2 DEF Construct, RegisterOcallDispatch, PrepareEnclave,
                        Handled, ServeInv, StepInv, TypeOK
    <3>2. enclave[e] \notin Active
      BY <1>9, <3>1 DEF Construct, RegisterOcallDispatch, PrepareEnclave,
                        Available, Active, ServeInv, StepInv, TypeOK,
                        ActiveInRun, RunPcs
    <3>3. QED
      BY <3>2, PhaseValues DEF Phase, Active, ServeInv, StepInv, TypeOK
  <2>3. QED
    BY <2>1, <2>2 DEF ServiceStep
<1>10. QED
  BY <1>1, <1>2, <1>3, <1>4, <1>5, <1>6, <1>7, <1>8, <1>9
     DEF Next, Caller, Thread

PhaseOf == [e \in Eid |-> Phase(e)]
HandledOf == [e \in Eid |-> Handled(e)]

LEMMA ServiceStepRefines ==
  ASSUME ServiceStep
  PROVE  Service!Next \/ UNCHANGED <<PhaseOf, HandledOf>>
<1>1. CASE /\ SamePhase(Eid)
           /\ \A e \in Eid : Handled(e)' # Handled(e) => Phase(e) = "off"
  <2>1. PhaseOf' = PhaseOf
    BY <1>1 DEF SamePhase, PhaseOf
  <2>2. Service!SetHandler
    BY <1>1, <2>1 DEF Service!SetHandler, PhaseOf
  <2>3. QED
    BY <2>2 DEF Service!Next
<1>2. ASSUME NEW e \in Eid, \A d \in Eid : Handled(d)' = Handled(d),
             SamePhase(Eid \ {e}), PhaseStep(e)
      PROVE  Service!Next
  <2>1. HandledOf' = HandledOf
    BY <1>2 DEF HandledOf
  <2>2. PhaseOf' = [PhaseOf EXCEPT ![e] = Phase(e)']
    BY <1>2 DEF SamePhase, PhaseOf
  <2>3. Service!Work(e)
    BY <1>2, <2>2
       DEF PhaseStep, PhaseOf, Service!Work, Service!Start, Service!Call,
           Service!Answer, Service!Continue, Service!Drop, Service!Finish,
           Service!Lose, Service!Step
  <2>4. QED
    BY <2>1, <2>3 DEF Service!Next, HandledOf
<1>3. QED
  BY <1>1, <1>2 DEF ServiceStep

\* The host implements the ocall contract: every edge call made while there is
\* a dispatch function is answered exactly once before the enclave goes on.
THEOREM RefinesOcallService ==
  ASSUME ReuseEids = FALSE, DestroyMayFail = FALSE
  PROVE  Spec => ImplementsOcallService
<1>1. Init => Service!Init
  <2>1. ASSUME Init PROVE \A e \in Eid : Phase(e) = "off"
    BY <2>1, PhaseValues DEF Init, Phase, Active
  <2>2. ASSUME NEW e \in Eid PROVE Handled(e) \in BOOLEAN
    BY DEF Handled
  <2>3. QED
    BY <2>1, <2>2 DEF Service!Init
<1>2. ASSUME ServeInv, [Next]_vars
      PROVE  [Service!Next]_<<PhaseOf, HandledOf>>
  BY <1>2, NextIsServiceStep, ServiceStepRefines
<1>3. QED
  BY <1>1, <1>2, ServeInvInit, ServeInvNext, PTL
     DEF Spec, ImplementsOcallService, Service!Spec, PhaseOf, HandledOf
===============================================================================
