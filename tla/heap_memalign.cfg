\* The first call may be memalign, which neither sets __malloc_end nor asks
\* for memory.
SPECIFICATION Spec
CONSTANTS
  c1 = c1
  c2 = c2
  c3 = c3
  Chunk = {c1, c2, c3}
  W = 2
  WordSpan = 128
  Start = 6
  Zone = 8
  BrkLimit = 128
  Gap = 4
  Frames = {26, 30}
  Sizes = {1, 3}
  Quantities = {2}
  Alignments = {1, 4, 6}
  PageSize = 8
  AlignFirst = TRUE
  StackMayReach = FALSE
INVARIANT
  Backed
CHECK_DEADLOCK FALSE
