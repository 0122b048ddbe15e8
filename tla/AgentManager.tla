---------------------------- MODULE AgentManager ----------------------------
(***************************************************************************)
(* The report agent: AgentManager over its JobManager, the report_tasks    *)
(* table and the RPC server.                                               *)
(*                                                                         *)
(* The RPC server runs each message in a greenthread of an eventlet pool,  *)
(* Workers.  Greenthreads give way to each other where they do I/O, so a   *)
(* handler is several steps: it starts with what it does up to its first   *)
(* I/O, and then                                                           *)
(*   "schedule"    generator_task (the driver's constructor may call other *)
(*                 services), then add_job                                 *)
(*   "save"        update_rpttask                                          *)
(*   "delrow"      del_rpttask                                             *)
(*   "unschedule"  delete_job after the row is gone                        *)
(* A handler that raises just ends: it was a cast, nobody gets the error.  *)
(*                                                                         *)
(* The constructor adds the missing default tasks, then passes every row   *)
(* through _add_task, and only then is the RPC server started.             *)
(***************************************************************************)
EXTENDS JobManager, TaskStore, AgentRpc

CONSTANTS
  Workers,      \* greenthreads of the RPC server's pool
  DefaultTasks  \* default_tasks.py: a function from some ids to tasks

ASSUME DefaultsAssumption ==
  /\ DOMAIN DefaultTasks \subseteq Ids
  /\ \A t \in DOMAIN DefaultTasks : DefaultTasks[t] \in Task

VARIABLES
  agent,     \* "down", "init" (in the constructor) or "up"
  todo,      \* ids inittasks has still to pass through _add_task
  workers    \* the handler a greenthread runs, or Null

agentVars == <<agent, todo, workers>>

Handler == [pc : {"schedule", "save", "delrow", "unschedule"},
            op : Ops, id : Ids, task : Task]

ASSUME NullIsNoHandler == Null \notin Handler

AgentTypeOK ==
  /\ agent \in {"down", "init", "up"}
  /\ todo \subseteq Ids
  /\ workers \in [Workers -> Handler \cup {Null}]

AgentInit ==
  /\ agent = "down"
  /\ todo = {}
  /\ workers = [w \in Workers |-> Null]

-----------------------------------------------------------------------------
(* The constructor and the end of the process.                             *)

\* Faulty: the constructor without inittasks.
AgentStartBare ==
  /\ agent = "down"
  /\ agent' = "init"
  /\ UNCHANGED <<todo, workers, rows, jobVars, queue>>

\* add_default_tasks inserts the defaults that have no row, and inittasks
\* reads all rows. Nobody but the agent changes or deletes a row, so what it
\* read is still in the table when its turn comes.
AgentStart ==
  LET missing == DOMAIN DefaultTasks \ Stored IN
  /\ agent = "down"
  /\ agent' = "init"
  /\ rows' = [t \in Ids |-> IF t \in missing
                            THEN DefaultTasks[t] ELSE rows[t]]
  /\ todo' = Stored \cup missing
  /\ UNCHANGED <<workers, jobVars, queue>>

\* Faulty: a job store that outlives the process, beside a dictionary that
\* does not.
ExitWithJobStore ==
  /\ agent' = "down"
  /\ todo' = {}
  /\ workers' = [w \in Workers |-> Null]
  /\ jobs' = [t \in Ids |-> Null]
  /\ UNCHANGED sched

Exit ==
  /\ agent' = "down"
  /\ todo' = {}
  /\ workers' = [w \in Workers |-> Null]
  /\ LoseJobs

\* Faulty: inittasks that skips a row it cannot schedule.
InitTaskSkips(t) ==
  LET task == rows[t] IN
  /\ agent = "init" /\ t \in todo
  /\ todo' = todo \ {t}
  /\ \/ /\ task.status = "Active" /\ Fires(task)
        /\ AddJob(t, task)
        /\ UpdateRpttask(t, task)
     \/ /\ task.status # "Active" \/ ~Fires(task)
        /\ UNCHANGED <<jobVars, rows>>
  /\ UNCHANGED <<agent, workers, queue>>

\* One round of inittasks: _add_task of a row. If it raises the constructor
\* does, and the process ends.
InitTask(t) ==
  LET task == rows[t] IN
  /\ agent = "init" /\ t \in todo
  /\ \/ /\ task.status # "Active"
        /\ UpdateRpttask(t, task)
        /\ todo' = todo \ {t}
        /\ UNCHANGED <<agent, workers, jobVars>>
     \/ /\ task.status = "Active" /\ Fires(task)
        /\ AddJob(t, task)
        /\ UpdateRpttask(t, task)
        /\ todo' = todo \ {t}
        /\ UNCHANGED <<agent, workers>>
     \/ /\ task.status = "Active" /\ ~Fires(task)
        /\ Exit
        /\ UNCHANGED rows
  /\ UNCHANGED queue

\* Service.start: the RPC server begins to take messages.
ServeRpc ==
  /\ agent = "init" /\ todo = {}
  /\ agent' = "up"
  /\ UNCHANGED <<todo, workers, jobVars, rows, queue>>

Crash ==
  /\ agent # "down"
  /\ Exit
  /\ UNCHANGED <<rows, queue>>

-----------------------------------------------------------------------------
(* The handlers.                                                           *)

\* A free greenthread takes the first message.
Takes(w, op) ==
  /\ agent = "up" /\ workers[w] = Null
  /\ queue # <<>> /\ Head(queue).op = op
  /\ queue' = Tail(queue)
  /\ UNCHANGED <<agent, todo, rows>>

Goes(w, pc, op, t, task) ==
  workers' = [workers EXCEPT ![w] = [pc |-> pc, op |-> op,
                                     id |-> t, task |-> task]]

Ends(w) == workers' = [workers EXCEPT ![w] = Null]

\* _add_task: an Active task is scheduled before its row is written.
EntersAddTask(w, op, t, task) ==
  Goes(w, IF task.status = "Active" THEN "schedule" ELSE "save", op, t, task)

AddTask(w) ==
  LET m == Head(queue) IN
  /\ Takes(w, "add")
  /\ EntersAddTask(w, "add", m.id, m.task)
  /\ UNCHANGED jobVars

UpdateTask(w) ==
  LET m == Head(queue) IN
  /\ Takes(w, "update")
  /\ \/ LookupRaises(m.id) /\ UNCHANGED <<workers, jobVars>>
     \/ DeleteJob(m.id) /\ EntersAddTask(w, "update", m.id, m.task)

EnableTask(w) ==
  LET m == Head(queue) IN
  /\ Takes(w, "enable")
  /\ \/ LookupRaises(m.id) /\ UNCHANGED <<workers, jobVars>>
     \/ /\ DeleteJob(m.id)
        /\ EntersAddTask(w, "enable", m.id,
                         [m.task EXCEPT !.status = "Active"])

\* Faulty: disable_task without disable_job.
DisableRowOnly(w) ==
  LET m == Head(queue) IN
  /\ Takes(w, "disable")
  /\ Goes(w, "save", "disable", m.id, [m.task EXCEPT !.status = "Inactive"])
  /\ UNCHANGED jobVars

DisableTask(w) ==
  LET m == Head(queue) IN
  /\ Takes(w, "disable")
  /\ \/ LookupRaises(m.id) /\ UNCHANGED <<workers, jobVars>>
     \/ /\ DisableJob(m.id)
        /\ Goes(w, "save", "disable", m.id,
                [m.task EXCEPT !.status = "Inactive"])

DelTask(w) ==
  LET m == Head(queue) IN
  /\ Takes(w, "del")
  /\ Goes(w, "delrow", "del", m.id, m.task)
  /\ UNCHANGED jobVars

\* A greenthread resumes at pc.
At(w, pc) ==
  /\ agent = "up"
  /\ workers[w] # Null /\ workers[w].pc = pc
  /\ UNCHANGED <<agent, todo, queue>>

\* generator_task and add_task_toJob; either may raise, the latter also once the
\* job is added, if that has no next run time to format.
ScheduleTask(w) ==
  LET h == workers[w] IN
  /\ At(w, "schedule")
  /\ UNCHANGED rows
  /\ \/ /\ ~Builds(h.task) \/ AddJobRaises(h.id)
        /\ Ends(w)
        /\ UNCHANGED jobVars
     \/ /\ Builds(h.task)
        /\ AddJob(h.id, h.task)
        /\ IF Fires(h.task) THEN Goes(w, "save", h.op, h.id, h.task) ELSE Ends(w)

SaveTask(w) ==
  LET h == workers[w] IN
  /\ At(w, "save")
  /\ UpdateRpttask(h.id, h.task)
  /\ Ends(w)
  /\ UNCHANGED jobVars

DelRow(w) ==
  LET h == workers[w] IN
  /\ At(w, "delrow")
  /\ DelRpttask(h.id)
  /\ Goes(w, "unschedule", h.op, h.id, h.task)
  /\ UNCHANGED jobVars

UnscheduleTask(w) ==
  /\ At(w, "unschedule")
  /\ \/ LookupRaises(workers[w].id) /\ UNCHANGED jobVars
     \/ DeleteJob(workers[w].id)
  /\ Ends(w)
  /\ UNCHANGED rows

\* The scheduler's thread runs a date job for the last time.
RunOnce(t) ==
  /\ FinishOnce(t)
  /\ UNCHANGED <<agentVars, rows, queue>>

HandlerStep(w) ==
  \/ ScheduleTask(w) \/ SaveTask(w) \/ DelRow(w) \/ UnscheduleTask(w)

Take(w) ==
  \/ AddTask(w) \/ UpdateTask(w) \/ EnableTask(w)
  \/ DisableTask(w) \/ DelTask(w)

AgentNext ==
  \/ AgentStart \/ ServeRpc
  \/ \E t \in Ids : InitTask(t) \/ RunOnce(t)
  \/ \E w \in Workers : Take(w) \/ HandlerStep(w)

=============================================================================
