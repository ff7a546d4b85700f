SPECIFICATION Spec
CONSTANTS
  Boards = {1, 2}
  NewId = 3
  Jobs <- MCJobs
  Pages = 2
  ENUMERATION_RETRIES = 2
  EraseRetries = 1
  ConfigRetries = 1
  MaxFaults = 3
INVARIANTS
  TypeOK
  VerifiedMeansStored
  SavedWhenDone
  WrongClassKeepsConfig
  CleanRunSucceeds
PROPERTIES
  OnlyVerificationHangs
CHECK_DEADLOCK FALSE
