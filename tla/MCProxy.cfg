SPECIFICATION Spec
CONSTANTS
  Users = {s1, s2}
  Conns = {c1, c2}
  NoConn = NoConn
  Timeout = 1
  MaxTime = 1
  HasInterceptor = TRUE
  Kinds = {"query", "write", "oneway"}
  MaxRequests = 2
  MaxBatches = 1
SYMMETRY SymmetricConns
INVARIANTS
  TypeOK
  NoPanic
  ReplyMatches
  PoolQuiet
  NothingKept
  ProxyInv
PROPERTIES
  OrderKept
  ObeysPool
CHECK_DEADLOCK FALSE
