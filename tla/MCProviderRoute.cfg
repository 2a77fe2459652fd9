CONSTANTS
  cloud = cloud
  backup = backup
  first = first
  second = second
  Providers = {cloud, backup}
  Registries <- WithAndWithoutCloud
  Policies <- BothProfiles
  Jobs = {first, second}
  NoJob = NoJob
  MaxFailures = 1
  Cooldown = 1
SPECIFICATION FairSpec
INVARIANTS ConsentRespected AccountsBalance
PROPERTIES CoolingIsRespected JobsEnd
CHECK_DEADLOCK FALSE
