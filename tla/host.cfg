\* Two objects, one of them initialised up to twice, the driver never reusing an
\* id: safety, the ocall contract and liveness.
SPECIFICATION FairSpec
CONSTANTS
  k1 = k1
  k2 = k2
  e1 = e1
  e2 = e2
  Obj = {k1, k2}
  Eid = {e1, e2}
  NoEid = NoEid
  NoObj = NoObj
  MaxInits <- FirstTwice
  ReuseEids = FALSE
  DestroyMayFail = FALSE
  MmapMayFail = TRUE
INVARIANTS
  TypeOK
  NoDoubleDelete
  InStepWithDriver
  InitReturnsReady
  NoEnclaveLeak
PROPERTIES
  ImplementsOcallService
  EnclaveNotStranded
CHECK_DEADLOCK FALSE
