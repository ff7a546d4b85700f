SPECIFICATION Spec
CONSTANTS
  N = 4
  HwDepth = 3
  MaxFrames = 9
INVARIANTS
  TypeOK
  DeliveredInOrder
  BusOrderKept
PROPERTIES
  ReadUnlessStarved
  ImplementsQueue
\* The bus falls silent after MaxFrames frames.
CHECK_DEADLOCK FALSE
