SPECIFICATION Spec
CONSTANTS
  t1 = t1  t2 = t2  n1 = n1  n2 = n2
  Ids = {t1, t2}
  Names = {n1, n2}
  Null = Null
  Unset = Unset
  MaxQueue = 3
  Workers = {w1}
  DefaultTasks <- NoDefaults
  Api = {p1}
  PostTasks <- OnePost
  Patches <- MixedPatches
  IdLists <- Pairs
  MaxRequests = 4
  MaxDeaths = 1
  MaxCrashes = 1
INVARIANTS TypeOK Agreement JobsAgree
CHECK_DEADLOCK FALSE
