----------------------------- MODULE ReportTask -----------------------------
(***************************************************************************)
(* The Task objects of the jobs and the runs that make their reports, as   *)
(* far as the three types of report have them in common.  A run fetches,   *)
(* draws section after section and writes the file, and yields to others   *)
(* wherever it asks another service.  The function _ that translates a     *)
(* title is a global of the type's module, set by whatever Task of that    *)
(* type was built last.                                                    *)
(***************************************************************************)
EXTENDS Integers, Sequences, FiniteSets, SequencesExt

CONSTANTS
  Tasks,      \* ids of tasks
  Info,       \* the row of a task, as generator_task gets it
  Runs,       \* threads of the scheduler's pool
  MaxBuilds,  \* bound: Task objects built
  MaxBegins,  \* bound: runs begun
  Together,   \* bound: tasks that are run in several threads at once
  Null

Types == {"alarm", "meter", "monitor"}

ASSUME InfoAssumption ==
  Info \in [Tasks -> [type : Types, language : {"Chinese", "English"},
                      period : {"day", "week", "month", "year", "once"},
                      filetype : {"pdf", "excel"},
                      hosts : SUBSET Nat, content : Seq(STRING)]]

VARIABLES
  objects,      \* the Task objects in the order they were built
  translation,  \* the global _ of each type's module
  run,          \* what each thread runs or ran last
  begins

vars == <<objects, translation, run, begins>>

-----------------------------------------------------------------------------

\* The members of a set one after the other, where before[x] is what comes
\* before x; a set of numbers in ascending order.
Arranged(S, before) ==
  [n \in 1 .. Cardinality(S) |-> CHOOSE x \in S : Cardinality(before[x]) = n - 1]

Ascending(S) == Arranged(S, [k \in S |-> {j \in S : j < k}])

\* What stands at some places of a sequence.
Pick(s, places) ==
  LET order == Ascending(places) IN [n \in DOMAIN order |-> s[order[n]]]

\* d.update(more), and a dictionary of one entry.
Updated(d, more) ==
  [x \in DOMAIN more \cup DOMAIN d |-> IF x \in DOMAIN more THEN more[x] ELSE d[x]]

Entry(key, value) == [x \in {key} |-> value]

\* The lists of the modules, which stand in for an empty meterlist.
Defaults ==
  [alarm   |-> <<"host", "user", "status", "type", "severity", "time", "response">>,
   meter   |-> <<"user_statistics", "vm_statistics">>,
   monitor |-> <<"cpu", "mem", "swap", "partition">>]

Content(t) ==
  IF Info[t].content = <<>> THEN Defaults[Info[t].type] ELSE Info[t].content

\* Faulty: one _ for all types, as if the base class kept it.
TranslatedForAll(t) == [ty \in Types |-> Info[t].language]

Translated(t) == [translation EXCEPT ![Info[t].type] = Info[t].language]

\* The constructors.
Build(t) ==
  /\ Len(objects) < MaxBuilds
  /\ objects' = Append(objects, [task |-> t, content |-> Content(t), nobody |-> FALSE])
  /\ translation' = Translated(t)
  /\ UNCHANGED <<run, begins>>

\* The object the job of a task holds, 0 if there is none.
ObjectOf(t) == SelectLastInSeq(objects, LAMBDA o : o.task = t)

Ended == {"filed", "failed"}

Nothing == [x \in {} |-> Null]

\* What a run works on before the first request.
Idle == [server |-> "physical"]

\* get_period knows three periods, and the file drivers differ: only
\* PdfReport has add_catalog_title and draw_title.
CanStart(t) ==
  Info[t].period \in {"day", "week", "month"} /\ Info[t].filetype = "pdf"

TaskOf(r) == objects[run[r].object].task

Running(r) == run[r] # Null /\ run[r].stage \notin Ended

Started(t) ==
  [object |-> ObjectOf(t), stage |-> IF CanStart(t) THEN "fetch" ELSE "failed",
   drawn |-> Nothing, langs |-> {}, answered |-> TRUE, work |-> Idle]

\* Task.start.  A job may be started again while it runs (max_instances), and
\* jobs of several tasks may run at once; these share nothing but _, so that
\* it is enough to let runs of one task overlap.  Runs that ended are
\* forgotten.
Begin(r, t) ==
  /\ begins < MaxBegins
  /\ begins' = begins + 1
  /\ ~Running(r)
  /\ \A q \in Runs : Running(q) => t \in Together /\ TaskOf(q) = t
  /\ ObjectOf(t) # 0
  /\ run' = [q \in Runs |-> IF q = r THEN Started(t)
                            ELSE IF Running(q) THEN run[q] ELSE Null]
  /\ UNCHANGED <<objects, translation>>

-----------------------------------------------------------------------------
(* What the steps of a run are made of.                                    *)

IsAt(r, type, stage) ==
  run[r] # Null /\ run[r].stage = stage /\ Info[TaskOf(r)].type = type

ContentOf(r) == ToSet(objects[run[r].object].content)

\* Run r goes on to another stage; answered says whether the services did,
\* parts is what it draws on the way: titles and what is shown under them.
Goes(r, stage, answered, parts, work) ==
  run' = [run EXCEPT ![r] =
            [object |-> @.object, stage |-> stage, work |-> work,
             drawn |-> Updated(@.drawn, parts), answered |-> @.answered /\ answered,
             langs |-> IF DOMAIN parts = {} THEN @.langs
                       ELSE @.langs \cup {translation[Info[TaskOf(r)].type]}]]

Titled(titles) == [x \in titles |-> Null]

Fails(r, answered) == Goes(r, "failed", answered, Nothing, run[r].work)

TaskInit ==
  /\ objects = <<>> /\ begins = 0
  /\ translation = [ty \in Types |-> Null]
  /\ run = [r \in Runs |-> Null]

=============================================================================
