---------------------------- MODULE ReportService ----------------------------
(***************************************************************************)
(* The task service as deployed: API processes and one agent, coupled by   *)
(* the report_tasks table and the queue of casts.  A task lives in three   *)
(* places that no transaction spans: its row, the agent's scheduler, and   *)
(* the copies of the row that casts and running handlers carry.  The       *)
(* properties say how far apart the three can drift.                       *)
(***************************************************************************)
EXTENDS AgentManager, RptTasksController

CONSTANT MaxCrashes    \* bound: crashes of the agent

ASSUME CrashAssumption == MaxCrashes \in Nat

VARIABLE crashes       \* crashes of the agent so far

vars == <<jobVars, rows, queue, agentVars, apiVars, crashes>>

TypeOK ==
  /\ JobTypeOK /\ StoreTypeOK /\ RpcTypeOK /\ AgentTypeOK /\ ApiTypeOK
  /\ crashes \in Nat

Init ==
  /\ JobInit /\ StoreInit /\ RpcInit /\ AgentInit
  /\ ApiInit(DOMAIN DefaultTasks)
  /\ crashes = 0

AgentCrashes ==
  /\ crashes < MaxCrashes
  /\ crashes' = crashes + 1
  /\ Crash

Next ==
  \/ AgentNext /\ UNCHANGED <<apiVars, crashes>>
  \/ AgentCrashes /\ UNCHANGED apiVars
  \/ ApiNext /\ UNCHANGED <<agentVars, jobVars, crashes>>

Spec == Init /\ [][Next]_vars

-----------------------------------------------------------------------------
(* How far the row, the job and the copies in flight can drift apart.      *)

\* The scheduler will fire t again.
Live(t) == sched[t] # Null /\ ~sched[t].paused

Handling(t, pc) ==
  \E w \in Workers : workers[w] # Null /\ workers[w].id = t
                                       /\ workers[w].pc = pc

(***************************************************************************)
(* A job that can fire has a row, unless a handler is about to write the   *)
(* row or to remove the job.  So a deleted task never stays scheduled, however its   *)
(* handlers interleave: del_task removes the row before the job,           *)
(* _add_task adds the job before it writes the row, and that order is what *)
(* makes it so.                                                            *)
(***************************************************************************)
NoOrphanJob ==
  \A t \in Ids :
    sched[t] # Null /\ Fires(sched[t].task) => \/ rows[t] # Null
                                               \/ Handling(t, "save")
                                               \/ Handling(t, "unschedule")

\* The add_task of t is still to come: its POST is being served, or its cast
\* waits in the queue.
AddPending(t) ==
  \/ \E p \in Api : api[p] # Null /\ api[p].op = "add" /\ api[p].id = t
  \/ \E i \in DOMAIN queue : queue[i].op = "add" /\ queue[i].id = t

(***************************************************************************)
(* With a pool of one greenthread, between handlers, table and scheduler   *)
(* agree: what the scheduler will fire is an Active row with the same      *)
(* contents; and an Active row that recurs has a job, unless it is new, or *)
(* an API process died between the insert of a row and its cast.           *)
(***************************************************************************)
Agreement ==
  agent = "up" /\ (\A w \in Workers : workers[w] = Null) =>
    \A t \in Ids :
      /\ Live(t) => /\ rows[t] = sched[t].task
                    /\ rows[t].status = "Active"
      /\ rows[t] # Null /\ rows[t].status = "Active" /\ rows[t].kind = "cron"
           => Live(t) \/ AddPending(t) \/ deaths > 0

\* A copy of task t that may still be written to the table.
Copied(t) ==
  \/ \E i \in DOMAIN queue : queue[i].id = t /\ queue[i].op # "del"
  \/ \E w \in Workers :
       workers[w] # Null /\ workers[w].id = t /\ workers[w].op # "del"
  \/ \E p \in Api :
       /\ api[p] # Null /\ api[p].id = t
       /\ api[p].pc # "sleep" /\ api[p].op # "del"

Gone(t) == t \in drawn /\ rows[t] = Null /\ ~Copied(t)

\* Ids that no default task and no body of a PUT brings back by name.
Ordinary == Ids \ (DOMAIN DefaultTasks \cup {patch.id : patch \in Patches})

(***************************************************************************)
(* A deleted task can come back: update_rpttask inserts a missing row, so  *)
(* any copy read before the deletion restores it. But once no copy is in   *)
(* flight it is gone for good: no endpoint makes a copy of a task that has *)
(* no row.                                                                 *)
(***************************************************************************)
GoneForGood == [][\A t \in Ordinary : Gone(t) => Gone(t)']_vars

\* A row inittasks cannot pass.
Poisoned ==
  \E t \in Stored : rows[t].status = "Active" /\ ~Fires(rows[t])

(***************************************************************************)
(* An Active row that cannot be scheduled is accepted while the agent runs,*)
(* where only its own handler fails. An agent that is down while such a    *)
(* row exists never comes up again: inittasks raises in the constructor,   *)
(* and every change of the row, its deletion included, is the agent's to   *)
(* make.                                                                   *)
(***************************************************************************)
PoisonPinsAgentDown == [](agent = "down" /\ Poisoned => [](agent # "up"))

-----------------------------------------------------------------------------
(* What the comments of the code say, and the abstract specification.      *)

(***************************************************************************)
(* "The unique name of the task": no two rows have the same name.          *)
(***************************************************************************)
UniqueNames ==
  \A t, u \in Stored : rows[t].name = rows[u].name => t = u

(***************************************************************************)
(* The agent's use of its JobManager is a behaviour of JobManager alone.   *)
(***************************************************************************)
ImplementsJobManager == JobSpec

=============================================================================
