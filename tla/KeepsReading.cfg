SPECIFICATION Spec
CONSTANTS
  N = 4
  HwDepth = 3
  MaxFrames = 9
PROPERTIES
  KeepsReading
CHECK_DEADLOCK FALSE
