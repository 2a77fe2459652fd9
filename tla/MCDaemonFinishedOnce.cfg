CONSTANTS
  MaxId = 3
  MaxPendingEvents = 9
  MaxSessionResults = 2
  Backends <- OnlyFcitx
  Configs <- OneConfig
  MaxHistory = 1
  MaxStarts = 2
  Headroom = 7
SPECIFICATION Spec
PROPERTIES FinishedOnce
CHECK_DEADLOCK FALSE
