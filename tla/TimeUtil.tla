------------------------------ MODULE TimeUtil ------------------------------
(***************************************************************************)
(* The time ranges of the reports: TimeUtil.get_period as the runs of a    *)
(* recurring task call it, day after day, with the trigger of each period. *)
(* A range starts with the day time_s and ends before the day time_e.      *)
(* Beside them, utils.last_completed_audit_period, which nothing calls yet. *)
(***************************************************************************)
EXTENDS Naturals

CONSTANTS
  FirstYear, LastYear,   \* bound: the years the calendar runs through
  None,                  \* a task that has not reported yet
  FirstWeekday,          \* weekday of 1 January FirstYear, Monday = 0
  MonthDays,             \* days of the month a monthly task may be set to
  WeekDays,              \* weekdays a weekly task may be set to
  AuditUnits,            \* units of audit periods, each with its offset
  AuditTimes             \* hours and minutes of the day to ask at

ASSUME CalendarAssumption ==
  /\ FirstYear \in Nat /\ LastYear \in Nat /\ FirstYear <= LastYear
  /\ FirstWeekday \in 0 .. 6
  /\ MonthDays \subseteq 1 .. 31 /\ WeekDays \subseteq 0 .. 6

Leap(y) == y % 4 = 0 /\ (y % 100 # 0 \/ y % 400 = 0)

\* calendar.monthrange(y, m)[1]
MonthLength(y, m) ==
  CASE m = 2 -> IF Leap(y) THEN 29 ELSE 28
    [] m \in {4, 6, 9, 11} -> 30
    [] OTHER -> 31

Date == [y : FirstYear - 2 .. LastYear + 1, m : 1 .. 12, d : 1 .. 31]

\* A day, and an hour and a minute of it.
Instant == [day : Date, hour : 0 .. 23, minute : 0 .. 59]

\* datetime has no other month, hour or minute an offset could ask for.
ASSUME AuditAssumption ==
  /\ AuditUnits \subseteq
       ({"month"} \X (0 .. 31)) \cup ({"year"} \X (0 .. 12))
       \cup ({"day"} \X (0 .. 23)) \cup ({"hour"} \X (0 .. 59))
  /\ AuditTimes \subseteq (0 .. 23) \X (0 .. 59)

\* None is a value of its own.
ASSUME NoneAssumption ==
  /\ None \notin [time_s : Date, time_e : Date]
  /\ None \notin [begin : Instant, end : Instant]

FirstOfMonth(t) == [t EXCEPT !.d = 1]

FirstOfNext(t) == IF t.m = 12 THEN [y |-> t.y + 1, m |-> 1, d |-> 1]
                              ELSE [y |-> t.y, m |-> t.m + 1, d |-> 1]

FirstOfLast(t) == IF t.m = 1 THEN [y |-> t.y - 1, m |-> 12, d |-> 1]
                             ELSE [y |-> t.y, m |-> t.m - 1, d |-> 1]

Tomorrow(t) == IF t.d = MonthLength(t.y, t.m) THEN FirstOfNext(t)
                                              ELSE [t EXCEPT !.d = @ + 1]

\* t - timedelta(days=n), for an n that does not reach behind last month.
MinusDays(t, n) ==
  LET last == FirstOfLast(t) IN
  IF n < t.d THEN [t EXCEPT !.d = @ - n]
             ELSE [last EXCEPT !.d = MonthLength(last.y, last.m) + t.d - n]

-----------------------------------------------------------------------------

DayPeriod(t) == [time_s |-> MinusDays(t, 1), time_e |-> t]

\* Faulty: the week ends with today.
WeekUpToToday(t, weekday) ==
  [time_s |-> MinusDays(t, weekday + 7), time_e |-> t]

WeekPeriod(t, weekday) ==
  [time_s |-> MinusDays(t, weekday + 7), time_e |-> MinusDays(t, weekday)]

\* Faulty: the last day of the month is taken for the end of the range.
MonthPeriodShort(t) ==
  LET last == FirstOfLast(t)
  IN [time_s |-> last,
      time_e |-> [last EXCEPT !.d = MonthLength(last.y, last.m)]]

\* Faulty: today is not moved back.
MonthPeriodOfToday(t) ==
  [time_s |-> FirstOfMonth(t),
   time_e |-> Tomorrow([t EXCEPT !.d = MonthLength(t.y, t.m)])]

\* Today is moved back by the length of last month, and the begin and the end
\* are set within the month it lands in. The length is looked up with this
\* year's calendar, which matters to no January.
MonthPeriod(t) ==
  LET lastMonth == IF t.m = 1 THEN 12 ELSE t.m - 1
      length == MonthLength(t.y, lastMonth)
      then == MinusDays(t, length)
  IN [time_s |-> FirstOfMonth(then),
      time_e |-> Tomorrow([then EXCEPT !.d = length])]

-----------------------------------------------------------------------------
(* Audit periods.                                                          *)

At(t, h, n) == [day |-> t, hour |-> h, minute |-> n]

DayBefore(s, t) == \/ s.y < t.y
                   \/ s.y = t.y /\ s.m < t.m
                   \/ s.y = t.y /\ s.m = t.m /\ s.d < t.d

Before(a, b) ==
  \/ DayBefore(a.day, b.day)
  \/ a.day = b.day /\ 60 * a.hour + a.minute < 60 * b.hour + b.minute

OneIfNone(offset) == IF offset = 0 THEN 1 ELSE offset

\* The end of a period in the month, year, day or hour of an instant.
EndAround(unit, offset, a) ==
  CASE unit = "month" -> At([a.day EXCEPT !.d = OneIfNone(offset)], 0, 0)
    [] unit = "year"  -> At([a.day EXCEPT !.m = OneIfNone(offset), !.d = 1], 0, 0)
    [] unit = "day"   -> At(a.day, offset, 0)
    [] unit = "hour"  -> At(a.day, a.hour, offset)

OneBack(unit, a) ==
  CASE unit = "month" -> [a EXCEPT !.day = [FirstOfLast(@) EXCEPT !.d = a.day.d]]
    [] unit = "year"  -> [a EXCEPT !.day.y = @ - 1]
    [] unit = "day"   -> [a EXCEPT !.day = MinusDays(@, 1)]
    [] unit = "hour"  -> IF a.hour > 0 THEN [a EXCEPT !.hour = @ - 1]
                         ELSE At(MinusDays(a.day, 1), 23, a.minute)

\* datetime raises for a day the month lacks.
IsDate(a) == a.day.d <= MonthLength(a.day.y, a.day.m)

LastCompletedAuditPeriod(unit, offset, rightnow) ==
  LET around == EndAround(unit, offset, rightnow)
      end == IF Before(around, rightnow) THEN around ELSE OneBack(unit, around)
      begin == OneBack(unit, end)
  IN IF IsDate(around) /\ IsDate(end) /\ IsDate(begin)
     THEN [begin |-> begin, end |-> end] ELSE None

-----------------------------------------------------------------------------

VARIABLES
  today, weekday,      \* the date
  monthDay, weekDay,   \* when the monthly and the weekly task run
  range                \* the range each task reported on last, or None

vars == <<today, weekday, monthDay, weekDay, range>>

Periods == {"day", "week", "month"}

Init ==
  /\ today = [y |-> FirstYear, m |-> 1, d |-> 1]
  /\ weekday = FirstWeekday
  /\ monthDay \in MonthDays
  /\ weekDay \in WeekDays
  /\ range = [k \in Periods |-> None]

\* The triggers: every day, on a weekday, on a day of the month. Months that
\* lack the day are skipped.
Due(k, t, w) ==
  \/ k = "day"
  \/ k = "week" /\ w = weekDay
  \/ k = "month" /\ t.d = monthDay

GetPeriod(k, t, w) ==
  CASE k = "day" -> DayPeriod(t)
    [] k = "week" -> WeekPeriod(t, w)
    [] k = "month" -> MonthPeriod(t)

\* A day begins and the tasks that are due report.
NewDay ==
  LET t == Tomorrow(today)
      w == (weekday + 1) % 7
  IN /\ t.y <= LastYear
     /\ today' = t /\ weekday' = w
     /\ range' = [k \in Periods |-> IF Due(k, t, w) THEN GetPeriod(k, t, w)
                                                    ELSE range[k]]
     /\ UNCHANGED <<monthDay, weekDay>>

Spec == Init /\ [][NewDay]_vars

-----------------------------------------------------------------------------

(***************************************************************************)
(* Successive reports of a task cover time without gap and without         *)
(* overlap: each range begins where the one before it ended.               *)
(***************************************************************************)
Contiguous ==
  [][\A k \in Periods :
       range[k] # None /\ range'[k] # range[k]
         => range'[k].time_s = range[k].time_e]_vars

\* The day after t, n times.
DaysAfter(t, n) ==
  LET day[i \in 0 .. n] == IF i = 0 THEN t ELSE Tomorrow(day[i - 1])
  IN day[n]

\* The end of the period that begins at an instant.
OneOn(unit, a) ==
  CASE unit = "month" -> [a EXCEPT !.day = [FirstOfNext(@) EXCEPT !.d = a.day.d]]
    [] unit = "year"  -> [a EXCEPT !.day.y = @ + 1]
    [] unit = "day"   -> [a EXCEPT !.day = Tomorrow(@)]
    [] unit = "hour"  -> IF a.hour < 23 THEN [a EXCEPT !.hour = @ + 1]
                         ELSE At(Tomorrow(a.day), 0, a.minute)

\* An audit period is one that is over, the last such; there is none only if a
\* month about lacks the day it is to begin on.
AuditPeriodsWhole ==
  \A u \in AuditUnits, c \in AuditTimes :
    LET now == At(today, c[1], c[2])
        p == LastCompletedAuditPeriod(u[1], u[2], now)
    IN IF p = None THEN u[1] = "month" /\ u[2] > 28
       ELSE /\ p.end = OneOn(u[1], p.begin)
            /\ Before(p.end, now) /\ ~Before(OneOn(u[1], p.end), now)

(***************************************************************************)
(* A range is a whole period that is over: one day, seven days, or a month *)
(* from its first day to the first day of the next; and so is an audit     *)
(* period, at any time of any day.                                         *)
(***************************************************************************)
WholePeriods ==
  /\ AuditPeriodsWhole
  /\ range["day"] # None =>
       range["day"].time_e = Tomorrow(range["day"].time_s)
  /\ range["week"] # None =>
       range["week"].time_e = DaysAfter(range["week"].time_s, 7)
  /\ range["month"] # None =>
       /\ range["month"].time_s.d = 1
       /\ range["month"].time_e = FirstOfNext(range["month"].time_s)

(***************************************************************************)
(* "Calculate the begin and end time according to period": the range of a  *)
(* monthly task is the month before the one it runs in.                    *)
(***************************************************************************)
MonthIsLastMonth ==
  [][today'.d = monthDay =>
       range'["month"] = [time_s |-> FirstOfLast(today'),
                          time_e |-> FirstOfMonth(today')]]_vars

=============================================================================
