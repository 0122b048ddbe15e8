------------------------------ MODULE TaskTypes ------------------------------
(***************************************************************************)
(* The data every component shares: report tasks as the report_tasks table,*)
(* the RPC messages and the scheduler's jobs carry them.                   *)
(*                                                                         *)
(* A task is reduced to what the control flow looks at: its name, its      *)
(* status, and its kind, which stands for period, time, content and        *)
(* metadata together:                                                      *)
(*   "cron"    Task.__init__ succeeds and get_trigger gives a cron trigger *)
(*   "once"    Task.__init__ succeeds and get_trigger gives a date trigger *)
(*   "spent"   a cron trigger whose times are over (a year gone by)        *)
(*   "broken"  Task.__init__ raises: content or metadata that json.loads   *)
(*             accepts and ast.literal_eval does not (true, null), or a    *)
(*             period default_trigger has no entry for; or a time that     *)
(*             get_trigger or CronTrigger rejects                          *)
(* A kind does not change: a cron trigger that runs out while the agent    *)
(* runs is left out.                                                       *)
(* "Other" is a status PUT wrote that is neither of the two the API knows. *)
(***************************************************************************)

CONSTANTS
  Ids,     \* task ids: the uuids POST draws and the fixed ids of the defaults
  Names,   \* task names
  Null,    \* no row, no job, no request, nobody
  Unset    \* a key the body of a PUT does not have

Statuses == {"Active", "Inactive", "Other"}

Kinds == {"cron", "once", "spent", "broken"}

Task == [name : Names, status : Statuses, kind : Kinds]

\* Null is a value of its own.
ASSUME NullIsNoTask == Null \notin Task

\* Task.generator_task returns an object, and does not raise.
Builds(task) == task.kind # "broken"

\* A job for the task gets a next run time.
Fires(task) == task.kind \in {"cron", "once"}

=============================================================================
