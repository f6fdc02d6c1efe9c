SPECIFICATION Spec
CHECK_DEADLOCK FALSE
CONSTANTS
  Fanout = 4
  PageBytes = 4
  TablePages = 15
  Layouts <- PagewiseLayouts
INVARIANTS
  TypeOK
  AtMostOnce
  PagesAreNotTables
  SegmentsLoaded
  UntrustedInOrder
  RegionsValidate
PROPERTY LoadingEnds
