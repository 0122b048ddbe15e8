SPECIFICATION Spec
CONSTANTS
  a1 = a1  a2 = a2  m1 = m1  m2 = m2  h1 = h1  h2 = h2
  Tasks = {a1, a2, m1, m2, h1, h2}
  Info <- TaskInfo
  Runs = {r1, r2}
  Null = Null
  MaxBuilds = 2
  MaxBegins = 3
  Together = {m1, m2}
  TopN = 2
  AlarmAnswers <- AlarmLists
  Machine <- Machines
  MeterAnswers <- EventLists
  FlavorKey <- FlavorNames
  MonitorAnswers <- MonitorData
INVARIANTS ChartsTell CountsAgree FailuresExplained Complete OneLanguage
CHECK_DEADLOCK FALSE
