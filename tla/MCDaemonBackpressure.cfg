CONSTANTS
  MaxId = 3
  MaxPendingEvents = 4
  MaxSessionResults = 2
  Backends <- OnlyFcitx
  Configs <- PrivateConfigs
  MaxHistory = 1
  MaxStarts = 2
  Headroom = 0
SPECIFICATION Spec
INVARIANTS MicrophoneOnlyInCapture NoOrphanWorker EndedHasResult NothingIsLeftBehind NoLostWakeup
PROPERTIES NoTextAfterTheEnd ImplementsDictation
\* After Quit the daemon has exited.
CHECK_DEADLOCK FALSE
