SPECIFICATION Spec
CONSTANTS
  Users = {s1, s2}
  Conns = {c1, c2}
  NoConn = NoConn
  Timeout = 1
  MaxTime = 0
  HasInterceptor = TRUE
  Kinds = {"query", "exhaust"}
  MaxRequests = 1
  MaxBatches = 2
SYMMETRY SymmetricConns
INVARIANT
  ReplyMatches
CHECK_DEADLOCK FALSE
