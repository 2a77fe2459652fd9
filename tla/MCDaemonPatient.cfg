CONSTANTS
  MaxId = 3
  MaxPendingEvents = 9
  MaxSessionResults = 2
  Backends <- TwoBackends
  Configs <- OneConfig
  MaxHistory = 1
  MaxStarts = 2
  Headroom = 7
SPECIFICATION FairSpec
PROPERTIES SessionsEnd LoopServes
CHECK_DEADLOCK FALSE
