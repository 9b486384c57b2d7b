SPECIFICATION AnswersSpec
CONSTANTS
  Users = {s1}
  Conns = {c1, c2}
  NoConn = NoConn
  Timeout = 1
  MaxTime = 1
  HasInterceptor = TRUE
  Kinds = {"query", "exhaust", "getmore", "command", "msg", "oneway", "write", "kill"}
  MaxRequests = 2
  MaxBatches = 3
INVARIANTS
  AnsweredInKind
  AnsweredInFull
PROPERTIES
  RequestFinishes
CHECK_DEADLOCK FALSE
