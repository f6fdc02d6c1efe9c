\* Files with every kind of header, section and segment, tables that wrap and
\* names and segments that leave the file.
SPECIFICATION Spec
CONSTANTS
  Files <- MCFiles
  Ehdr32 = 2
  Phdr32 = 2
  Shdr32 = 2
  Ehdr64 = 2
  Phdr64 = 3
  Shdr64 = 2
  Span32 = 16
  Span64 = 64
  PageSize = 4
  Strings = {0, 1, 2}
  MmapMayFail = FALSE
INVARIANTS
  ReadsInFile
  PointersInFile
  AcceptsExactly
  BoundsTight
  LoadsImage
CHECK_DEADLOCK FALSE
