SPECIFICATION Spec
CONSTANTS
  OddSpan = 4
  Worth <- MCWorth
  Wrap = 3
  Cut <- MCCut
  ScSpan = 4
  ScWorth <- MCScWorth
  Delta <- MCDelta
  FieldP = 1021
  CurveD = 649
  SqrtM1 = 374
  BaseX = 408
  BaseY = 205
  Order = 131
  ScalarBits = 16
  Elements <- MCElements
  Loaded <- MCLoaded
  Scalars <- MCScalars
  WideScalars <- MCWideScalars
  Factor = 11
  Seeds = {1, 2, 3}
  Messages = {1, 2}
  Hash <- MCHash
  OtherKeys <- MCOtherKeys
  OtherScalars <- MCOtherScalars
INVARIANTS
  ArithmeticExact
  NoOverflow
  SignedVerifies
  VerifyExact
CHECK_DEADLOCK FALSE
