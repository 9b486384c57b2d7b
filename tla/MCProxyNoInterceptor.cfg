SPECIFICATION Spec
CONSTANTS
  Users = {s1, s2}
  Conns = {c1, c2}
  NoConn = NoConn
  Timeout = 1
  MaxTime = 0
  HasInterceptor = FALSE
  Kinds = {"query"}
  MaxRequests = 1
  MaxBatches = 1
SYMMETRY SymmetricConns
INVARIANT
  NoPanic
CHECK_DEADLOCK FALSE
