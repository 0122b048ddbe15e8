SPECIFICATION ProcFairSpec
CONSTANTS
  t1 = t1  t2 = t2  n1 = n1  n2 = n2
  Ids = {t1, t2}
  Names = {n1, n2}
  Null = Null
  Unset = Unset
  MaxQueue = 1
  Workers = {w1}
  DefaultTasks <- OneDefault
  Api = {p1}
  PostTasks <- Posts
  Patches <- Renames
  IdLists <- Singles
  MaxRequests = 3
  MaxDeaths = 0
  MaxCrashes = 1
  MaxSignals = 2
INVARIANTS OnlyTheCut
PROPERTIES SignalsAnswered ScheduledUnlessCut PoisonPinsAgentDown
CHECK_DEADLOCK FALSE
