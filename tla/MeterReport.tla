---------------------------- MODULE MeterReport -----------------------------
(***************************************************************************)
(* MeterTask.create_report_file: who created virtual machines, and how     *)
(* many of them failed, of which flavor and on which day.  The list of     *)
(* sections belongs to the Task object and outlives a run.                 *)
(***************************************************************************)
EXTENDS ReportTask

CONSTANTS
  MeterAnswers,  \* lists of events zeus may answer with
  FlavorKey      \* what a flavor is called: its size; one size for unknown ones

ASSUME MeterAssumption ==
  MeterAnswers \subseteq Seq([kind : STRING, user : STRING, flavor : DOMAIN FlavorKey, day : 1 .. 31])

CountEvents(es, kind, Test(_)) ==
  Cardinality({i \in DOMAIN es : es[i].kind = kind /\ Test(es[i])})

Count(es, kind) == CountEvents(es, kind, LAMBDA e : TRUE)

-----------------------------------------------------------------------------
(* The values() of a CPython 2 dictionary whose keys are days of a month,  *)
(* in the order they were put in: with at most five keys a table of eight  *)
(* slots, where a taken slot sends a key on; with more, a table that is    *)
(* large enough for all of them to be in order.                            *)

Probe(d) ==
  LET slot[k \in 0 .. 8] == IF k = 0 THEN d % 8
                            ELSE IF k = 1 THEN (5 * (d % 8) + d + 1) % 8
                            ELSE (5 * slot[k - 1] + 1) % 8
  IN  slot

PutDay(table, d) ==
  LET free == {k \in 0 .. 8 : table[Probe(d)[k]] = 0}
  IN  IF \E i \in 0 .. 7 : table[i] = d THEN table
      ELSE [table EXCEPT ![Probe(d)[CHOOSE k \in free : \A j \in free : k <= j]] = d]

Table(days) ==
  LET after[n \in 0 .. Len(days)] ==
        IF n = 0 THEN [i \in 0 .. 7 |-> 0] ELSE PutDay(after[n - 1], days[n])
  IN  after[Len(days)]

DictOrder(days) ==
  IF Cardinality(ToSet(days)) > 5
  THEN Ascending(ToSet(days))
  ELSE Pick(Table(days), {i \in 0 .. 7 : Table(days)[i] # 0})

Days(es) == [i \in DOMAIN es |-> es[i].day]
DaysOf(es, kind) == Days(Pick(es, {i \in DOMAIN es : es[i].kind = kind}))
XDays(es) == Ascending(ToSet(Days(es)))

\* Faulty: days without an event of the kind are not filled in.
CountedDaysOnly(es, kind) == DaysOf(es, kind)

\* The keys of create_day_count or delete_day_count, in the order they get in.
CountedDays(es, kind) == DaysOf(es, kind) \o XDays(es)

\* The bars of one kind, as values() lists them.
Bars(es, kind) ==
  LET order == DictOrder(CountedDays(es, kind))
  IN  [i \in DOMAIN order |-> CountEvents(es, kind, LAMBDA e : e.day = order[i])]

TimeDistribution(es) ==
  [labels |-> XDays(es), create |-> Bars(es, "create"), delete |-> Bars(es, "delete")]

StateDistribution(es) == [success |-> Count(es, "create"), fail |-> Count(es, "fail")]

FlavorDistribution(es) ==
  LET created == {i \in DOMAIN es : es[i].kind = "create"}
  IN  [f \in {FlavorKey[es[i].flavor] : i \in created} |->
         CountEvents(es, "create", LAMBDA e : FlavorKey[e.flavor] = f)]

-----------------------------------------------------------------------------

\* Titles, then the request for the events of the period.
GetEvents(r) ==
  /\ IsAt(r, "meter", "fetch")
  /\ \/ Goes(r, "users", FALSE, Titled({"Contents", "name"}), <<>>)
     \/ \E es \in MeterAnswers : Goes(r, "users", TRUE, Titled({"Contents", "name"}), es)
  /\ UNCHANGED <<objects, translation, begins>>

\* user_statistics up to the requests of user_resource_statistics; whatever
\* they bring, it draws its table.
UserStatistics(r) ==
  /\ IsAt(r, "meter", "users")
  /\ IF "user_statistics" \in ContentOf(r)
     THEN Goes(r, "user_vms", TRUE, Titled({"user_statistics"}), run[r].work)
     ELSE Goes(r, "vms", TRUE, Nothing, run[r].work)
  /\ UNCHANGED <<objects, translation, begins>>

\* The users the table lists: all they did was create.
Listed(es) ==
  LET Of(u, kind) == CountEvents(es, kind, LAMBDA e : e.user = u)
  IN  {u \in {es[i].user : i \in DOMAIN es} :
         Of(u, "create") > 0 /\ Of(u, "fail") = 0 /\ Of(u, "delete") = 0}

\* Faulty: del self.contentlist[:], which empties the list of the module for
\* every object that uses it.
EmptiedInPlace(o) ==
  [p \in DOMAIN objects |->
     IF p = o THEN [objects[p] EXCEPT !.content = <<>>, !.nobody = TRUE]
     ELSE IF objects[p].content = Defaults.meter THEN [objects[p] EXCEPT !.content = <<>>]
     ELSE objects[p]]

\* A table without users empties the list of sections, which is the object's.
Emptied(o) == [objects EXCEPT ![o] = [task |-> @.task, content |-> <<>>, nobody |-> TRUE]]

\* user_vm_statistics, which returns early without events.
UserVmStatistics(r) ==
  /\ IsAt(r, "meter", "user_vms")
  /\ LET es == run[r].work IN
     IF es = <<>>
     THEN Goes(r, "vms", TRUE, Nothing, es) /\ UNCHANGED objects
     ELSE /\ Goes(r, "vms", TRUE, Entry("User VM Creation", Listed(es)), es)
          /\ objects' = IF Listed(es) = {} THEN Emptied(run[r].object) ELSE objects
  /\ UNCHANGED <<translation, begins>>

\* The charts, if asked for still, and flush.
VmStatistics(r) ==
  /\ IsAt(r, "meter", "vms")
  /\ LET es == run[r].work
         month == Info[TaskOf(r)].period = "month"
     IN  IF "vm_statistics" \in ContentOf(r) /\ es # <<>>
         THEN Goes(r, "filed", TRUE,
                Updated(IF month THEN Entry("days", TimeDistribution(es)) ELSE Nothing,
                        [vm_statistics |-> StateDistribution(es),
                         flavors |-> FlavorDistribution(es)]), es)
         ELSE Goes(r, "filed", TRUE, Nothing, es)
  /\ UNCHANGED <<objects, translation, begins>>

MeterStep(r) == GetEvents(r) \/ UserStatistics(r) \/ UserVmStatistics(r) \/ VmStatistics(r)

=============================================================================
