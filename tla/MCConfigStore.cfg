SPECIFICATION Spec
CONSTANTS
  builtin = builtin
  custom = custom
  Body <- MCBody
  DefaultBody = builtin
  CountLimit = 3
  Blank = Blank
  Corrupt = Corrupt
  None = None
INVARIANTS
  TypeOK
  OnlyCandidatesStored
  ErasedMarkSound
PROPERTIES
  SomePageStaysValid
  SaveReplyRight
  ImplementsDurable
