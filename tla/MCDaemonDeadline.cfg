CONSTANTS
  MaxId = 3
  MaxPendingEvents = 4
  MaxSessionResults = 2
  Backends <- OnlyFcitx
  Configs <- OneConfig
  MaxHistory = 1
  MaxStarts = 2
  Headroom = 0
SPECIFICATION FairSpec
PROPERTIES DeadlineStopsRecording
CHECK_DEADLOCK FALSE
