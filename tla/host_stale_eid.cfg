\* The driver reuses ids, as an id allocator does.
SPECIFICATION Spec
CONSTANTS
  k1 = k1
  k2 = k2
  e1 = e1
  e2 = e2
  Obj = {k1, k2}
  Eid = {e1}
  NoEid = NoEid
  NoObj = NoObj
  MaxInits <- OnceEach
  ReuseEids = TRUE
  DestroyMayFail = FALSE
  MmapMayFail = FALSE
CHECK_DEADLOCK FALSE
INVARIANT InStepWithDriver
