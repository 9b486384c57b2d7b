SPECIFICATION Spec
CONSTANTS
  Clients = {a}
  Configs <- MCProxyServer
  MaxLoads = 0
  Failed = Failed
INVARIANTS
  NoPanic
CHECK_DEADLOCK FALSE
