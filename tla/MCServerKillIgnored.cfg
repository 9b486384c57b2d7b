SPECIFICATION FairSpec
CONSTANTS
  Clients = {a}
  Configs <- MCContextual
  MaxLoads = 0
  Failed = Failed
PROPERTIES
  KillStopsSessions
CHECK_DEADLOCK FALSE
