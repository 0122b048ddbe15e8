---------------------------- MODULE AlarmReport -----------------------------
(***************************************************************************)
(* AlarmTask.create_report_file.  The alarms of the period are one list of *)
(* records, which the steps sort in place and one of them rewrites, and    *)
(* the charts are drawn from it in whatever order the task names them.     *)
(***************************************************************************)
EXTENDS ReportTask

CONSTANTS
  AlarmAnswers,  \* lists of alarms zeus may answer with
  Machine        \* the machine a resource belongs to: [uuid, name, user]

\* An alarm as zeus gives it: the machine is found by its resource.
Alarms ==
  [resource : DOMAIN Machine, type : STRING, severity : STRING, status : STRING,
   time : {"first", "middle", "end"}, stamp : {"text"}]

Severities == {"low", "moderate", "critical"}
Statuses == {"processed", "unprocessed", "ignored"}
ChartOpts == ToSet(Defaults.alarm)

\* The columns of the table take severities and statuses for distinct words.
ASSUME AlarmAssumption ==
  /\ AlarmAnswers \subseteq Seq(Alarms)
  /\ \A x \in DOMAIN Machine : x \in Nat /\ Machine[x].uuid \in Nat /\ Machine[x].user \in Nat
  /\ \A es \in AlarmAnswers : \A i \in DOMAIN es :
       es[i].severity \notin Statuses /\ es[i].status \notin Severities

\* Where an alarm falls on the axis: its hour, or the day of the month.  The
\* query includes the end of the period (op=le), midnight or the day after.
Label ==
  [day   |-> [first |-> 0, middle |-> 13, end |-> 0],
   week  |-> [first |-> 28, middle |-> 2, end |-> 4],
   month |-> [first |-> 1, middle |-> 20, end |-> 1]]

\* The keys a list can be grouped by: for each alarm its key.
Resource(s) == [i \in DOMAIN s |-> s[i].resource]
Uuid(s) == [i \in DOMAIN s |-> Machine[s[i].resource].uuid]
User(s) == [i \in DOMAIN s |-> Machine[s[i].resource].user]
Axis(s, period) == [i \in DOMAIN s |-> Label[period][s[i].time]]

\* Faulty: groupby of a list that was not sorted first.
GroupsUnsorted(s, key) ==
  LET starts == Ascending({i \in DOMAIN s : i = 1 \/ key[i] # key[i - 1]})
      ends == Ascending({i \in DOMAIN s : i = Len(s) \/ key[i] # key[i + 1]})
  IN  [n \in DOMAIN starts |-> SubSeq(s, starts[n], ends[n])]

\* _group_by_argue: sort the list by a key and group what is equal.
Groups(s, key) ==
  LET values == Ascending(ToSet(key))
  IN  [n \in DOMAIN values |-> Pick(s, {i \in DOMAIN s : key[i] = values[n]})]

\* How the list is left: sorted, and equal keys as they stood.
Sorted(s, key) ==
  LET order == Arranged(DOMAIN s,
        [i \in DOMAIN s |-> {j \in DOMAIN s : key[j] < key[i] \/ (key[j] = key[i] /\ j < i)}])
  IN  [n \in DOMAIN order |-> s[order[n]]]

CountOf(s, Test(_)) == Cardinality({i \in DOMAIN s : Test(s[i])})

-----------------------------------------------------------------------------

\* _attach_hostinfo: alarms whose machine zeus finds and the task asks for.
Attached(es, hosts, found) ==
  LET s == Sorted(es, Resource(es))
  IN  Pick(s, {i \in DOMAIN s : /\ s[i].resource \in found
                                /\ hosts = {} \/ Machine[s[i].resource].uuid \in hosts})

Fetched(given) ==
  [given |-> given, alarms |-> given, rows |-> <<>>, charts |-> Nothing, left |-> <<>>]

\* _all_alarm_event: one request for the alarms, one for the users, and one
\* or two for the machine of each resource.
AllAlarmEvent(r) ==
  /\ IsAt(r, "alarm", "fetch")
  /\ \/ Goes(r, "table", FALSE, Nothing, Fetched(<<>>))
     \/ <<>> \in AlarmAnswers /\ Goes(r, "table", TRUE, Nothing, Fetched(<<>>))
     \/ \E es \in AlarmAnswers \ {<<>>} :
          \/ Fails(r, FALSE)
          \/ LET asked == {es[i].resource : i \in DOMAIN es} IN
             \E found \in SUBSET asked :
               Goes(r, "table", found = asked, Nothing,
                    Fetched(Attached(es, Info[TaskOf(r)].hosts, found)))
  /\ UNCHANGED <<objects, translation, begins>>

StartsWithV(type) == type \in {"vm", "vpartition"}

TypeOf(a) == IF StartsWithV(a.type) THEN "vm" ELSE "physical"

\* _table_data: a row for each machine, and the columns get_table_data shows.
Row(g) ==
  [name |-> Machine[g[1].resource].name, sum |-> Len(g),
   type |-> TypeOf(g[1]),
   of |-> [v \in Severities \cup Statuses |->
             CountOf(g, LAMBDA a : v \in {a.severity, a.status})]]

Rows(s) == LET groups == Groups(s, Uuid(s)) IN [n \in DOMAIN groups |-> Row(groups[n])]

\* Titles and table; without alarms that is the report.
TableData(r) ==
  /\ IsAt(r, "alarm", "table")
  /\ LET w == run[r].work
         summary == Updated(Titled({"Contents", "name"}), Entry("summary", Rows(w.given)))
     IN  IF w.given = <<>>
         THEN Goes(r, "filed", TRUE, summary, w)
         ELSE Goes(r, "chart", TRUE, summary,
                [given |-> w.given, alarms |-> Sorted(w.given, Uuid(w.given)),
                 rows |-> Rows(w.given), charts |-> Nothing,
                 left |-> objects[run[r].object].content])
  /\ UNCHANGED <<objects, translation, begins>>

-----------------------------------------------------------------------------
(* The charts: what each shows, and how it leaves the list.                *)

Counts(s, keys, Key(_)) == [k \in keys |-> CountOf(s, LAMBDA a : Key(a) = k)]

\* _type_distribute rewrites the types it counts.
Retype(a) == [a EXCEPT !.type = TypeOf(a)]
Retyped(s) == [i \in DOMAIN s |-> Retype(s[i])]

TypeDistribute(s) ==
  LET t == Retyped(s) IN Counts(t, {t[i].type : i \in DOMAIN t}, LAMBDA a : a.type)

\* _host_distribute: a dictionary by name, so the later of two equal names wins.
HostDistribute(rows) ==
  LET Name(i) == IF rows[i].name = "" THEN "Host" \o ToString(i) ELSE rows[i].name
  IN  [n \in {Name(i) : i \in DOMAIN rows} |->
         rows[CHOOSE i \in DOMAIN rows :
                Name(i) = n /\ \A j \in DOMAIN rows : Name(j) = n => j <= i].sum]

UserDistribute(s) ==
  LET groups == Groups(s, User(s))
  IN  [n \in DOMAIN groups |-> [user |-> User(groups[n])[1], count |-> Len(groups[n])]]

TimeDistribute(s, period) ==
  LET groups == Groups(s, Axis(s, period))
  IN  [n \in DOMAIN groups |->
         [label |-> Axis(groups[n], period)[1], count |-> Len(groups[n])]]

\* Faulty: _convert_time2tuple without the deep copy.
ConvertedInPlace(s) == [i \in DOMAIN s |-> [s[i] EXCEPT !.stamp = "parsed"]]

\* _convert_time2tuple works on a deep copy: the list stays as it was.
AfterConversion(s) == s

\* The loop goes on, with one more chart or none.
Continues(r, charts, alarms) ==
  LET w == run[r].work
  IN  Goes(r, "chart", TRUE, Nothing,
        [given |-> w.given, alarms |-> alarms, rows |-> w.rows,
         charts |-> Updated(w.charts, charts), left |-> Tail(w.left)])

Draws(r, value, alarms) == Continues(r, Entry(Head(run[r].work.left), value), alarms)

\* What makes a chart raise: a value its dictionary lacks, a time that is
\* no text.
Raises(c, s) ==
  \E i \in DOMAIN s :
    \/ c = "status" /\ s[i].status \notin Statuses
    \/ c = "severity" /\ s[i].severity \notin Severities
    \/ c \in {"time", "response"} /\ s[i].stamp # "text"

\* One round of the loop over countlist.
Chart(r) ==
  /\ IsAt(r, "alarm", "chart") /\ run[r].work.left # <<>>
  /\ LET w == run[r].work
         c == Head(w.left)
         s == w.alarms
     IN  \/ c \notin ChartOpts /\ Continues(r, Nothing, s)
         \/ Raises(c, s) /\ Fails(r, TRUE)
         \/ /\ ~Raises(c, s)
            /\ \/ c = "host" /\ Draws(r, HostDistribute(w.rows), s)
               \/ c = "user" /\ Draws(r, UserDistribute(s), Sorted(s, User(s)))
               \/ c = "status" /\ Draws(r, Counts(s, Statuses, LAMBDA a : a.status), s)
               \/ c = "severity" /\ Draws(r, Counts(s, Severities, LAMBDA a : a.severity), s)
               \/ c = "type" /\ Draws(r, TypeDistribute(s), Retyped(s))
               \/ c = "time" /\ Draws(r, TimeDistribute(s, Info[TaskOf(r)].period), AfterConversion(s))
               \/ c = "response" /\ Draws(r, Len(s), AfterConversion(s))
  /\ UNCHANGED <<objects, translation, begins>>

\* The pictures, and flush.
FileAlarms(r) ==
  /\ IsAt(r, "alarm", "chart") /\ run[r].work.left = <<>>
  /\ Goes(r, "filed", TRUE, run[r].work.charts, run[r].work)
  /\ UNCHANGED <<objects, translation, begins>>

AlarmStep(r) == AllAlarmEvent(r) \/ TableData(r) \/ Chart(r) \/ FileAlarms(r)

=============================================================================
