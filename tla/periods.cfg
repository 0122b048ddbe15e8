SPECIFICATION Spec
CONSTANTS
  FirstYear = 2015
  LastYear = 2017
  None = None
  FirstWeekday = 3
  MonthDays <- EveryMonthHas
  WeekDays <- AnyWeekday
  AuditUnits <- EachUnit
  AuditTimes <- EachTime
INVARIANTS WholePeriods
PROPERTIES Contiguous MonthIsLastMonth
CHECK_DEADLOCK FALSE
