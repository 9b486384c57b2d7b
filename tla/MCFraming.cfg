SPECIFICATION FairSpec
CONSTANTS
  Streams <- TwoMessages
  Window = 7
  TlsModes = {TRUE, FALSE}
  Intervals = {0, 1}
  Faults = TRUE
INVARIANTS
  ReaderInStep
  FramingInv
PROPERTIES
  RefinesChannel
  MessageArrives
  SendReturns
CHECK_DEADLOCK FALSE
