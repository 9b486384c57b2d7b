SPECIFICATION FairPoolSpec
CONSTANTS
  Users = {u1, u2}
  Conns = {c1, c2, c3}
  NoConn = NoConn
  Timeout = 1
  MaxTime = 2
INVARIANTS
  PoolTypeOK
  Exclusive
  PoolHealthy
  NoSocketLost
  NoDoubleClose
  SocketBound
  CreatedCounted
PROPERTIES
  GetTerminates
  RefinesLease
