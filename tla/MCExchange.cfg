SPECIFICATION Spec
CONSTANTS
  Crc <- MCCrc
  InputSize = 4
  AddressSize = 2
  NoPayload <- MCNoPayload
  SendRetries = 1
  Polls = 1
  CounterLimit = 4
  Board = 1
  OtherBoard = 2
  Requests <- MCRequests
  Reply <- MCReply
  OtherReply <- MCOtherReply
  MaxTransmissions = 5
  FifoDepth = 1
  MaxRequests = 2
  MaxFaults = 2
INVARIANTS
  TypeOK
  MailboxFree
  WholeAccepted
  OthersRefused
  RepliesIntact
  AnswersInTurn
PROPERTIES
  NeverOvertaken
  TrueMeansSent
  StaysInBounds
  Answered
CHECK_DEADLOCK FALSE
