SPECIFICATION Spec
CONSTANTS
  FirstYear = 2015
  LastYear = 2017
  None = None
  FirstWeekday = 3
  MonthDays <- AnyDay
  WeekDays <- AnyWeekday
  AuditUnits <- EachUnit
  AuditTimes <- EachTime
PROPERTY MonthIsLastMonth
CHECK_DEADLOCK FALSE
