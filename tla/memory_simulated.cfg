SPECIFICATION Spec
CHECK_DEADLOCK FALSE
CONSTANTS
  Fanout = 4
  PageBytes = 4
  TablePages = 15
  Layouts <- PagewiseLayouts
INVARIANT SimulationValidates
