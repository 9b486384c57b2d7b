SPECIFICATION FairSpec
CONSTANTS
  Clients = {a, b}
  Configs <- MCConfigs
  MaxLoads = 2
  Failed = Failed
INVARIANTS
  TypeOK
  NoPanic
  DoneMeansEnded
  OneAcceptor
  TlsReady
PROPERTIES
  AcceptorEnds
  EveryClientServed
  CloseTerminates
  RefinesLife
CHECK_DEADLOCK FALSE
