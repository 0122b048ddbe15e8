SPECIFICATION Spec
CONSTANTS
  t1 = t1  t2 = t2  n1 = n1  n2 = n2
  Ids = {t1, t2}
  Names = {n1, n2}
  Null = Null
  Unset = Unset
  MaxQueue = 3
  Workers = {w1}
  DefaultTasks <- NoDefaults
  Api = {p1, p2}
  PostTasks <- CronPosts
  Patches <- NoPatches
  IdLists <- Singles
  MaxRequests = 2
  MaxDeaths = 0
  MaxCrashes = 0
INVARIANT UniqueNames
CHECK_DEADLOCK FALSE
