----------------------------- MODULE JobManager -----------------------------
(***************************************************************************)
(* The agent's JobManager and the APScheduler BackgroundScheduler it wraps.*)
(*                                                                         *)
(* The manager keeps a dictionary of its own, self.jobs, beside the        *)
(* scheduler's job store.  jobs[t] is the dictionary's entry, sched[t] the *)
(* store's; they are separate state because the scheduler also drops jobs  *)
(* by itself, when a date trigger has no further fire time.  The store is  *)
(* in memory: both start empty with the process.                           *)
(*                                                                         *)
(* An operation that raises changes nothing; its condition is the operator *)
(* named ...Raises.                                                        *)
(***************************************************************************)
EXTENDS TaskTypes

VARIABLES
  jobs,    \* self.jobs: the task an id was scheduled for, or Null
  sched    \* the job store: the job with that id, or Null

jobVars == <<jobs, sched>>

\* A job without a next run time is paused: after pause_job, or from the start
\* if its trigger has none.
Job == [task : Task, paused : BOOLEAN]

ASSUME NullIsNoJob == Null \notin Job

JobTypeOK ==
  /\ jobs \in [Ids -> Task \cup {Null}]
  /\ sched \in [Ids -> Job \cup {Null}]

-----------------------------------------------------------------------------

JobInit ==
  /\ jobs = [t \in Ids |-> Null]
  /\ sched = [t \in Ids |-> Null]

\* The scheduler refuses a second job with the same id (ConflictingIdError).
AddJobRaises(t) == sched[t] # Null

AddJob(t, task) ==
  /\ ~AddJobRaises(t)
  /\ sched' = [sched EXCEPT ![t] = [task |-> task, paused |-> ~Fires(task)]]
  /\ jobs' = [jobs EXCEPT ![t] = task]

\* remove_job, pause_job and resume_job of a job the scheduler no longer has
\* (JobLookupError); an id self.jobs does not know never gets that far.
LookupRaises(t) == jobs[t] # Null /\ sched[t] = Null

Unknown(t) == jobs[t] = Null /\ UNCHANGED jobVars

\* Faulty: delete_job without its last line.
DeleteJobHalf(t) ==
  \/ Unknown(t)
  \/ /\ jobs[t] # Null /\ sched[t] # Null
     /\ sched' = [sched EXCEPT ![t] = Null]
     /\ UNCHANGED jobs

DeleteJob(t) ==
  \/ Unknown(t)
  \/ /\ jobs[t] # Null /\ sched[t] # Null
     /\ sched' = [sched EXCEPT ![t] = Null]
     /\ jobs' = [jobs EXCEPT ![t] = Null]

DisableJob(t) ==
  \/ Unknown(t)
  \/ /\ jobs[t] # Null /\ sched[t] # Null
     /\ sched' = [sched EXCEPT ![t].paused = TRUE]
     /\ UNCHANGED jobs

\* The scheduler removes a job it cannot resume.
EnableJob(t) ==
  \/ Unknown(t)
  \/ /\ jobs[t] # Null /\ sched[t] # Null
     /\ sched' = [sched EXCEPT ![t] =
                     IF Fires(@.task) THEN [@ EXCEPT !.paused = FALSE] ELSE Null]
     /\ UNCHANGED jobs

\* The scheduler's thread runs a due job. A cron job stays; a date job has no
\* next fire time and leaves the store, but not self.jobs.
FinishOnce(t) ==
  /\ sched[t] # Null /\ ~sched[t].paused
  /\ sched[t].task.kind = "once"
  /\ sched' = [sched EXCEPT ![t] = Null]
  /\ UNCHANGED jobs

\* The process ends and a new one builds its JobManager.
LoseJobs ==
  /\ jobs' = [t \in Ids |-> Null]
  /\ sched' = [t \in Ids |-> Null]

-----------------------------------------------------------------------------

JobNext ==
  \/ \E t \in Ids :
       \/ \E task \in Task : Builds(task) /\ AddJob(t, task)
       \/ DeleteJob(t)
       \/ DisableJob(t)
       \/ EnableJob(t)
       \/ FinishOnce(t)
  \/ LoseJobs

JobSpec == JobInit /\ [][JobNext]_jobVars

-----------------------------------------------------------------------------

(***************************************************************************)
(* Every job the scheduler can still fire is in self.jobs, with the task   *)
(* it was built for: delete_job and disable_job look there first, and a    *)
(* job they do not find there could never be stopped.                      *)
(***************************************************************************)
Tracked == \A t \in Ids : sched[t] # Null => jobs[t] = sched[t].task

(***************************************************************************)
(* An entry of self.jobs whose job the scheduler has dropped belongs to a  *)
(* task that ran once, or could not be resumed. Only those make delete_job *)
(* and disable_job raise.                                                  *)
(***************************************************************************)
OnlyOnceJobsVanish ==
  \A t \in Ids : LookupRaises(t) => jobs[t].kind # "cron"

(***************************************************************************)
(* What delete_job, disable_job and enable_job rely on: they reach every   *)
(* job that can still fire, and raise for none but one that has ended.     *)
(***************************************************************************)
JobsAgree == Tracked /\ OnlyOnceJobsVanish

(***************************************************************************)
(* A job is never replaced in place: the task object a job id runs changes *)
(* only through a state in which the id has no job, since add_job of a     *)
(* known id raises instead of taking over.                                 *)
(***************************************************************************)
NeverReplaced ==
  [][\A t \in Ids : sched[t] # Null /\ sched'[t] # Null
                      => sched'[t].task = sched[t].task]_jobVars

=============================================================================
