\* Every handler, with replies the buffer can hold.
SPECIFICATION Spec
CONSTANTS
  WordMax = 31
  MaxEdgeCall = 10
  RecordBytes = 4
  HeaderBytes = 2
  WordBytes = 1
  SyscallBytes = 2
  PageBytes = 3
  TextBytes = 10
  Buffers <- SmallBuffers
  Page = {p1, p2}
  MaxVersion = 2
  Lengths = {2, 5, 13}
  Registered <- Handlers
  Behind = {"NULL", "wild"}
  WrapSyscalls = TRUE
INVARIANTS TypeOK StaysInBuffer PointerChecksExact
PROPERTY ImplementsEdgeService
CHECK_DEADLOCK FALSE
