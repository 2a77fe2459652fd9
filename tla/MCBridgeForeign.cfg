CONSTANTS
  d1 = d1
  d2 = d2
  probe = probe
  old = old
  kate = kate
  shell = shell
  Clients = {d1, old}
  Daemon = {d1}
  OldClients = {old}
  NoClient = NoClient
  Contexts = {kate, shell}
  NoContext = NoContext
  QueueLimit = 2
  DeferredFirst = TRUE
  MaxRestarts = 1
SPECIFICATION Spec
INVARIANTS OnlyInArmedContext AtMostOnce
CHECK_DEADLOCK FALSE
