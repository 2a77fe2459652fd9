CONSTANTS
  MaxId = 3
  MaxPendingEvents = 4
  MaxSessionResults = 2
SPECIFICATION AppSpec
INVARIANTS NewestStateIsCurrent PollersAgreeWithSignals
CHECK_DEADLOCK FALSE
