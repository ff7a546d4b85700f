SPECIFICATION Spec
CONSTANTS
  TimeLimit = 5
  BootTimeout = 2
  DatagramTimeout = 2
  MaxLag = 1
  Frames = 2
  Images = {1, 2}
  Lengths = {1, 256}
INVARIANTS
  TypeOK
PROPERTIES
  StartJustified
  TimeoutJustified
  GivenUpInTime
  LeavesBootloader
  DatagramEnds
