CONSTANTS
  d1 = d1
  d2 = d2
  probe = probe
  old = old
  kate = kate
  shell = shell
  Clients = {d1, d2}
  Daemon = {d1, d2}
  OldClients = {}
  NoClient = NoClient
  Contexts = {kate, shell}
  NoContext = NoContext
  QueueLimit = 3
  DeferredFirst = FALSE
  MaxRestarts = 1
SPECIFICATION FairSpec
INVARIANTS AnswersAreTrue ArmHolds
PROPERTIES CancelIsFinal ExchangesEnd
CHECK_DEADLOCK FALSE
