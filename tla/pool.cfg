SPECIFICATION Spec
CONSTANTS
  t1 = t1  t2 = t2  n1 = n1  n2 = n2
  Ids = {t1, t2}
  Names = {n1, n2}
  Null = Null
  Unset = Unset
  MaxQueue = 3
  Workers = {w1, w2}
  DefaultTasks <- NoDefaults
  Api = {p1, p2}
  PostTasks <- CronPosts
  Patches <- RenamesAndBad
  IdLists <- Singles
  MaxRequests = 3
  MaxDeaths = 1
  MaxCrashes = 1
SYMMETRY Symmetry
INVARIANTS NoOrphanJob
PROPERTIES GoneForGood ImplementsJobManager
CHECK_DEADLOCK FALSE
