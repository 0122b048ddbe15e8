------------------------------ MODULE Reports -------------------------------
(***************************************************************************)
(* The agent making reports: Task objects are built and rebuilt while the  *)
(* scheduler's threads run them, a task perhaps in several threads.        *)
(***************************************************************************)
EXTENDS AlarmReport, MeterReport, MonitorReport

Step(r) == AlarmStep(r) \/ MeterStep(r) \/ MonitorStep(r)

Next ==
  \/ \E t \in Tasks : Build(t)
  \/ \E r \in Runs, t \in Tasks : Begin(r, t)
  \/ \E r \in Runs : Step(r)

Spec == TaskInit /\ [][Next]_vars

-----------------------------------------------------------------------------

Filed(r, type) == IsAt(r, type, "filed")

\* The sum of the numbers f[x].
Total(f) == Cardinality(UNION {{x} \X (1 .. f[x]) : x \in DOMAIN f})

TableTells(summary, given) ==
  /\ Len(summary) = Cardinality(ToSet(Uuid(given)))
  /\ Total([n \in DOMAIN summary |-> summary[n].sum]) = Len(given)

TypesTell(types, given) ==
  \A ty \in DOMAIN types :
    types[ty] = CountOf(given, LAMBDA a : StartsWithV(a.type) = (ty = "vm"))

StatusesTell(statuses, summary, given) ==
  \A v \in Statuses :
    /\ statuses[v] = CountOf(given, LAMBDA a : a.status = v)
    /\ statuses[v] = Total([n \in DOMAIN summary |-> summary[n].of[v]])

UsersTell(users, given) ==
  /\ \A i \in DOMAIN users :
       users[i].count = CountOf(given, LAMBDA a : Machine[a.resource].user = users[i].user)
  /\ Total([i \in DOMAIN users |-> users[i].count]) = Len(given)

TimesTell(times, given) ==
  /\ Total([i \in DOMAIN times |-> times[i].count]) = Len(given)
  /\ \A i, j \in DOMAIN times : times[i].label = times[j].label => i = j

HostsTell(hosts, given) ==
  Cardinality(DOMAIN hosts) = Cardinality(ToSet(Uuid(given))) <=> Total(hosts) = Len(given)

(***************************************************************************)
(* In an alarm report the table and every chart count the alarms as they   *)
(* were fetched, each once, in whatever order and however often the charts *)
(* are drawn from the list that some of them sort and rewrite.  (The host  *)
(* chart does so only if the machines have different names, and an alarm   *)
(* of the moment the period ends is counted with its first hour or day.)   *)
(***************************************************************************)
ChartsTell ==
  \A r \in Runs : Filed(r, "alarm") =>
    LET d == run[r].drawn
        given == run[r].work.given
    IN
    /\ TableTells(d["summary"], given)
    /\ "type" \in DOMAIN d => TypesTell(d["type"], given)
    /\ "status" \in DOMAIN d => StatusesTell(d["status"], d["summary"], given)
    /\ "user" \in DOMAIN d => UsersTell(d["user"], given)
    /\ "time" \in DOMAIN d => TimesTell(d["time"], given)
    /\ "host" \in DOMAIN d => HostsTell(d["host"], given)

\* The dictionary lists these days in ascending order: there are more than
\* five, or their remainders by the eight slots of its table ascend too.
ListedInOrder(labels) ==
  \/ Len(labels) > 5
  \/ \A i, j \in DOMAIN labels : i < j => labels[i] % 8 < labels[j] % 8

\* Each bar stands at its day.
BarsTell(days, es) ==
  \A i \in DOMAIN days.labels :
    LET On(e) == e.day = days.labels[i] IN
    /\ days.create[i] = CountEvents(es, "create", On)
    /\ days.delete[i] = CountEvents(es, "delete", On)

(***************************************************************************)
(* The charts of a meter report agree: the machines created are those of   *)
(* the flavors and those of the days, and each bar stands at its day if    *)
(* the dictionary lists the days in ascending order.  (Two to five days    *)
(* across the 8th, 16th or 24th of the month it may list otherwise, and    *)
(* then bars stand at other days.)                                         *)
(***************************************************************************)
CountsAgree ==
  \A r \in Runs : Filed(r, "meter") /\ "vm_statistics" \in DOMAIN run[r].drawn =>
    LET d == run[r].drawn
        created == d["vm_statistics"].success
        days == d["days"]
    IN
    /\ Total(d["flavors"]) = created
    /\ "days" \in DOMAIN d =>
         /\ Total(days.create) = created
         /\ Len(days.create) = Len(days.labels)
         /\ Len(days.delete) = Len(days.labels)
         /\ ListedInOrder(days.labels) => BarsTell(days, run[r].work)

\* A host lacks the metric, and less than TopN hosts have a mean above 0.
Wanting(answer, m) ==
  /\ \E h \in DOMAIN answer : m \notin DOMAIN answer[h]
  /\ Cardinality({h \in DOMAIN answer : m \in DOMAIN answer[h] /\ answer[h][m] > 0}) < TopN

(***************************************************************************)
(* A run fails only if it cannot start (another period, an Excel file), if *)
(* a service did not answer, if an alarm has a status or severity the      *)
(* asked chart does not know, or if a host that lacks a metric, and counts *)
(* as 0, may be among the top hosts because too few have a higher mean.    *)
(***************************************************************************)
FailuresExplained ==
  \A r \in Runs : run[r] # Null /\ run[r].stage = "failed" =>
    \/ ~CanStart(TaskOf(r))
    \/ ~run[r].answered
    \/ /\ Info[TaskOf(r)].type = "alarm"
       /\ \E i \in DOMAIN run[r].work.given :
            LET a == run[r].work.given[i] IN
            \/ "status" \in ContentOf(r) /\ a.status \notin Statuses
            \/ "severity" \in ContentOf(r) /\ a.severity \notin Severities
    \/ /\ Info[TaskOf(r)].type = "monitor"
       /\ \E m \in Metrics(r) : Wanting(run[r].work.answer, m)

(***************************************************************************)
(* A report for which every service answered has the sections its task     *)
(* asks for.  A meter report may lack them if there were no events, or if  *)
(* a run of the same object, this one or another, had no user to list: it  *)
(* takes the sections from the object for good.                            *)
(***************************************************************************)
Complete ==
  \A r \in Runs :
    LET asked == ToSet(Content(TaskOf(r)))
        d == DOMAIN run[r].drawn
    IN
    /\ Filed(r, "alarm") /\ run[r].answered /\ run[r].work.given # <<>> =>
         asked \cap ChartOpts \subseteq d
    /\ Filed(r, "meter") /\ run[r].answered =>
         \/ objects[run[r].object].nobody
         \/ /\ "user_statistics" \in asked => "user_statistics" \in d
            /\ "vm_statistics" \in asked /\ run[r].work # <<>> => "vm_statistics" \in d
    /\ Filed(r, "monitor") /\ run[r].answered =>
         \A s \in {"physical", "virtual"}, m \in asked \cap ToSet(Defaults.monitor) :
           Titling(s, m) \in d

\* The languages of the objects of one type, from the one at i on.
LanguagesFrom(i) ==
  {Info[objects[p].task].language :
     p \in {q \in DOMAIN objects :
             q >= i /\ Info[objects[q].task].type = Info[objects[i].task].type}}

(***************************************************************************)
(* A report is in the language of its task, or, as far as a task of the    *)
(* same type was built after it, before or while it ran, in the language   *)
(* of that one: tasks of other types and objects replaced before change    *)
(* nothing.                                                                *)
(***************************************************************************)
OneLanguage ==
  \A r \in Runs : run[r] # Null => run[r].langs \subseteq LanguagesFrom(run[r].object)

=============================================================================
