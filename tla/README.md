# Report service: TLA+ models, checks and proofs

The report service keeps *report tasks*: what to report on, how often, and whom
to mail it to. A REST API takes tasks, a report agent schedules them, and each
run of a task writes a report file that the API offers for download. This
directory holds TLA+ modules that model how the parts work together, the TLC
configurations that check them on small instances, and proofs for TLAPS.

    tlc -config pool.cfg MCReportService      # one run
    tlapm ReportService_proof.tla             # one proof module

`PROJECT.json` lists the runs, the source lines each definition stands for, the
mutations every property was tried against, the hazards and the theorems.

## 1. Inventory

Paths are relative to `src/report/`. The repository has no tests.

| Component | State | Operations | Correct when |
|---|---|---|---|
| Task endpoints, `api/controller/v1/rpttasks.py` | none of its own; a request holds a copy of a row | post, put, dels, enable, disable (casts to the agent), get, get_all | names are unique; answers show what the agent did; a list operation refuses what it cannot do |
| File endpoints, `api/controller/v1/rptfiles.py` | none | delete (file, then row), get_all | file and row go together |
| Agent RPC, `agent/rpcapi.py`, `rpc.py` | the broker's queue | five casts, one call | each cast is handled at most once, in a greenthread of its own |
| AgentManager, `agent/manager.py`, `agent/default_tasks.py` | its JobManager and a storage connection | constructor (default tasks, all rows), add, update, del, enable, disable | rows and jobs agree |
| JobManager, `jobutil.py` | `self.jobs`, the APScheduler job store | add_job, delete_job, disable_job, enable_job, get_job_next_run_time | the dictionary knows every job the scheduler can fire |
| Tables, `storage/impl_sqlalchemy.py`, `storage/sqlalchemy/` | `report_tasks`, `report_files` | get, add, update (merge), del | each operation is one transaction |
| Task, `agent/tasks.py` | the parsed task | constructor, get_trigger, start, _save_report, _send_mail | a file on disk has a row, a mail carries its own report |
| TimeUtil, `agent/tasks.py`; `utils.py` 290-379 | none | get_period, last_completed_audit_period | successive reports cover time without gap or overlap |
| Report generation, `agent/task/*.py` | the Task object, its list of sections, the module's translation function, the list of alarms a run shares among its charts | create_report_file of alarm, meter and monitor tasks | counts and groups add up; a report has the sections asked for, in the language asked for |
| MailUtil, `utils.py` 1381-1441 | an SMTP connection | send_mail | |
| Token cache and clients, `client/`, `utils.py` 1335-1462 | cached token, headers of a client | token, get, set, request | an expired token is not used; three attempts |
| Process launcher, `openstack/common/service.py` 184-406 | `children`, `running`, `sigcaught`, the handler installed; the children's processes and the pipe they share | launch_service, wait, stop, signal handlers | no child is lost; the dead are replaced; stop ends; a reload reaches all |
| Service framework, `service.py`, `wsgi.py`, rest of `openstack/common/service.py`, `threadgroup.py`, `loopingcall.py` | launchers, greenthreads, timers, the pool of a server | launch, wait, stop, restart, signals | stop ends; nothing runs after it; a restart serves again |
| Agent base, `agent/base.py` | the thread group of its tasks | start, stop | as above |
| Policy, `openstack/common/policy.py`, `policy.py`, `openstack/common/fileutils.py` | the Enforcer's rules, the file cache | load_rules, parse, enforce | the parser keeps operator precedence; rules are those of the files |
| Request contexts, `context.py` | a context and its list of roles | to_dict, from_dict, elevated, the require_ and authorize_ checks | a context says what it was made with; making an administrator of one leaves the others alone |
| HBase storage, `storage/impl_hbase.py`, `storage/hbase/` | resource and meter tables | record_metering_data, upgrade, get_resources, get_meters, get_samples; not registered in `setup.cfg` | samples in any order, or twice, give one view of a resource |
| Drawing, WSGI plumbing, discovery, nova copies, commands, migrations, locale | | | no state the service depends on |

### How the parts interact

                 insert, read                     read, merge, delete
    API process --------------> report_tasks <------------------------ agent
         |                                                              ^ |
         |   cast(row as last read)         queue of the broker         | | add, remove,
         +------------------------------------------------------------->+ | pause a job
                                                                          v
    API process --remove--> report files <--write, then add row-- APScheduler thread
                            report_files                          (Task.start)
                                                                        |
                     keystone, zeus, nova <--requests with a token------+

An API process is a `wsgiref` simple server (`api/app.py` 98-123): one request at a
time. Only POST writes `report_tasks` itself; put, enable, disable and dels read
rows and send casts. The agent (`cmd/agent.py`) builds its manager first, which
passes all rows through `_add_task`, and only then starts the RPC server
(`service.py` 88-111). That server runs each message in an eventlet greenthread
(`rpc.py` 133-140). The scheduler's threads fire jobs on their own, several runs
of one task at once if they last. `ServiceLauncher.wait` is the main greenthread
of the agent: a signal is an exception raised in whatever greenthread it lands in.

### What is hard here

* A task exists as a row, as a job, and as copies of the row that requests,
  queued casts and running handlers carry. Nothing spans the three.
* Handlers interleave at their I/O: `_add_task` schedules, then writes the row;
  `del_task` removes the row, then the job; `update_task` deletes the job, may
  yield while a Task is built, and then adds one.
* `update_rpttask` is a merge: a copy taken before a deletion re-inserts the row.
* The scheduler drops date jobs by itself; `self.jobs` keeps them, and then
  `remove_job` and `pause_job` raise.
* Casts are acknowledged before they are handled: a crash, or a signal that lands
  in the handler, loses it. The start of the agent repairs what it can, and can be
  stopped for ever by one row.
* File and row of a report are written and removed one after the other, in two
  processes, and the file's name repeats within a day.
* The charts of a report are drawn from one list that some of them sort, in an
  order the task chooses; the sections of a report are a list of the Task object,
  the language a global of its module.
* A token is cached by age, its headers are shared by the requests of a client,
  and nobody drops a token that was refused.
* Rules are merged over those in force, from files that change between the stat
  and the read.
* Samples come late, twice and while a reader or an upgrade is at work.
* The arithmetic of months.
* Signals that reach the launcher, a child just forked, or a service being
  stopped or restarted, between any two steps.

The full list, with lines, is under "hazards" in `PROJECT.json`.

## 2. Modules

| Module | Models | State and actions |
|---|---|---|
| `TaskTypes` | the data of a task | `Task`: name, status, and a kind that stands for period, time, content and metadata: *cron*, *once*, *spent* (a cron trigger without a time to come: `add_job` stores the job, and formatting its next run time raises), or *broken* (the constructor or the trigger raises) |
| `JobManager` | `jobutil.py` with the scheduler | `jobs` is `self.jobs`, `sched` the job store; `AddJob`, `DeleteJob`, `DisableJob`, `EnableJob`, `FinishOnce` (a date job leaves the store), `LoseJobs` (new process) |
| `TaskStore` | `report_tasks` | `rows`; `AddRpttask`, `UpdateRpttask` (merge), `DelRpttask` |
| `AgentRpc` | `AgentAPI` and its topic | `queue`; `Cast` |
| `AgentManager` | `manager.py` over the four above | `agent` (down, init, up), `todo` (rows inittasks has left), `workers` (greenthreads). `AgentStart`, `InitTask`, `ServeRpc`, `Crash`; `AddTask`, `UpdateTask`, `EnableTask`, `DisableTask`, `DelTask` run a handler up to its first I/O, `ScheduleTask`, `SaveTask`, `DelRow`, `UnscheduleTask` the rest |
| `RptTasksController` | the endpoints | `api` (the request of each process), `drawn` (ids ever used). `Post`, `Insert`, `Put`, `ListRequest`, `SendCast`, `Wake`, `Die` |
| `ReportService` | the deployed whole | composes `AgentManager` and `RptTasksController` over table and queue; the properties |
| `AgentProcess` | the agent's process around `ReportService`: `ServiceLauncher`, `Services`, `Service` | `launcher`, `server`, `caught`, `cut`. `EntersWait`, `RunService`, `Signal` (which cuts the handler it lands in, `CutHandler`), `StoppedAtOnce`, `Stopped`, `Restart` |
| `ReportFiles` | `Task.start`, the file endpoint, disk and `report_files` | `disk`, `records`, `runs`, `mailed`, `deletes`. `BeginRun`, `CreateReportFile`, `SaveReport`, `SendMail`; `DeleteLookup`, `DeleteRemove`, `DelRptfiles`; crashes, `NextDay` |
| `ReportTask` | Task objects and their runs, what the three types share | `objects`, `run`, `translation`; `Build`, `Begin` |
| `AlarmReport`, `MeterReport`, `MonitorReport` | `create_report_file` of the three types, a step per section | `AllAlarmEvent`, `TableData`, `Chart`, `FileAlarms`; `GetEvents`, `UserStatistics`, `UserVmStatistics`, `VmStatistics`; `ServerStatistics`, `ServerHosts`, `MetricDetails`, `DiskDetails` |
| `Reports` | the agent making reports | composes the three; the properties |
| `TimeUtil` | `TimeUtil.get_period` and the triggers that call it; `last_completed_audit_period` | a calendar that runs day by day; `MonthPeriod` and the others |
| `Clients` | `utils.token`, the cache, `HttpClient.request` and the clients of keystone, zeus and nova | `cached`, `header` (of each client), `call` (of each caller), times as ages. `Begin`, `Issue`, `Receive`, `NoToken`, `Retry`, `Answer`, `Fail`; `Revoke`, `Tick` |
| `ProcessLauncher` | `ProcessLauncher` of `openstack/common/service.py` and the processes it forks | `pc` and the launcher's attributes, `handled` (the signals with a handler of the launcher), `proc` (what runs under each pid), `config` and `disk` (editions of the configuration). `Launch`, `StartChild`, `HandleSignal`, `Poll`, `Respawn`, `After`, `Reload`, `HupChildren`, `ForgetSignal`, `Stop`, `Reap`; `ChildProcess`, `ChildWaits`, `ChildRestarts`, `PipeWatcher`, `ChildDies`; `Signal` |
| `HostedService` | the one service a process hosts under `Services`: `agent.base.AgentManager` with `ThreadGroup` and `FixedIntervalLoopingCall`, or `WSGIService` with `wsgi.Server` | `kind`, `host`, `loop`, `timers`, `live`, `server`, `pool`, `conn`. `RunService`, `Wakes`, `CallEnds`; `Arrives`, `Accept`, `Unblock`, `Respond`; `Caught`, `SignalLost`, `StopPoller`, `StopApi`, `WaitApi`, `Restart`, `End` |
| `PolicyRules` | tokens to Checks: `ParseState` and its reducers | operators only |
| `PolicyChecks` | Checks to answers: the walk over a tree of Checks, the three kinds of check | operators only; recursive, and apart so that what loads rules can be proved about |
| `PolicyLanguage` | `_parse_text_rule` at work, beside a grammar that knows nothing of stacks | `text`, `stack`; `ShiftToken` |
| `PolicyEnforcer` | `report.policy`'s Enforcer, `fileutils` and the files an administrator edits | `disk`, `cache`, `enforcer`, `call`. `EnforceCall`, `ForceLoad`, `StatFile`, `ReadFile`, `ListDir`, `GiveAnswer`, `SetRules`, `Reset`; `Edit`, `Tick` |
| `Contexts` | `context.py`, over any rules (`Grants`; those of `PolicyChecks` in the run) | `contexts`, and `lists` of roles as the objects they are; `KeystoneContext`, `HandlerContext`, `GetAdminContext`, `Cast`, `Elevated` |
| `ResourceView` | what the resource table is for: the abstract specification | `view`; `Learn` |
| `HBaseStore` | `impl_hbase.Connection`, `hbase/inmemory.py`, row keys, `hbase/migration.py` | `resource` and `meter` tables of versioned columns, `puts`, readers. `PutResource`, `PutMeter`, the `Migrate` actions, `UpgradeCut`, `Scan`, `Yield`, `Done` |
| `HBaseReads` | `get_samples` and `get_meters` | operators on the tables; `GetSamples` is the set of results a call may have |
| `ReportService_proof` (with `AgentProcess`), `ReportFiles_proof`, `Reports_proof`, `ProcessLauncher_proof` (with `HostedService`), `Clients_proof`, `HBaseStore_proof` (with `HBaseReads`), `TimeUtil_proof`, `PolicyEnforcer_proof` (with `Contexts`) | | theorems, section 5 |
| `MC...` | | values of the constants for TLC |

`JobManager` is both a part of `AgentManager` and the abstract specification the
service is shown to implement (`ImplementsJobManager`, with the identity as the
refinement mapping: the variables are the same). What is proved of `JobManager`
alone therefore holds in the service. `ResourceView` is what `HBaseStore`
implements: `ViewOf` maps the columns of a row, the metadata by the stamp of the
put that wrote them, to what is known of a resource, and every put, cut or not,
is a `Learn` or leaves the view alone.

Operators whose comment begins with *Faulty* are not part of the specification.
Each is a plausible mistake in the definition that follows it and is used only to
see that a property notices it.

### Modelling decisions

* **Where a handler can be interrupted.** Greenthreads switch at I/O: a storage
  operation, and `generator_task`, whose driver may call other services
  (`MeterTask` asks nova for flavors). JobManager operations and everything
  between two I/O calls are one step. If the MySQL driver does not yield, real
  executions are a subset of the modelled ones.
* **The table** does not fail, apart from an INSERT of an id it has: `AddRpttask`
  is disabled and `Die` is the way out of the request. merge (SELECT, then INSERT
  or UPDATE) is one step.
* **The constructor** inserts the default tasks one by one and then reads all
  rows. Nothing but POST can touch the table meanwhile, and a crash in between
  leaves rows that the next start treats alike, so both are one step,
  `AgentStart`. The rounds of `inittasks` are steps of their own, in any order
  (a query without ORDER BY).
* **The sleep.** There is no clock: the second after a cast is a step, `Wake`,
  that may come before or after anything the agent does.
* **`task_next_rtime`** has no column and is not modelled; neither are
  `task_createtime` and `task_updatetime`.
* **PUT** replaces the keys the body has. It validates nothing, so a patch may
  hold a status or a kind no POST could, or another `task_id`. A PUT of a row
  whose content is no JSON raises before anything happens and is left out, as is
  a key that is empty in the row, which PUT silently skips.
* **Restart in place** (SIGHUP, `AgentProcess`) keeps the manager and its jobs. A
  signal is an exception that ends the greenthread it lands in: the main one,
  which waits for it, or a handler, at its I/O or between the two stores of
  `add_job` and `delete_job`. That the RPC server's `wait` waits for the handlers
  that are left is how the library is used and is assumed. SIGHUP counts as
  SIGTERM where the process is no daemon (`_is_daemon`); that is SIGTERM in the
  model.
* **The hosted service** (`HostedService`) is one of the two services of the
  repository that have timers or a server. No entry point of `setup.cfg` reaches
  them (the API of this commit is the `wsgiref` server of `build_server`). The
  second signal, which kills, is in `AgentProcess` and not repeated.
* **Report runs.** In `ReportFiles`, `create_report_file` is one step that writes
  the file over whatever has the name, or fails and writes nothing; a run is named
  by the `file_id` it will give its row. `Reports` looks inside that step: a step
  ends where a run asks another service, and what is drawn is a record of counts
  by section. A run may overlap with every other; two runs of one object do so for
  the tasks in `Together` only, which bounds the states. The user resource table
  and the response time chart are drawn or fail; their numbers, and the layout of
  all of them, are left out.
* **Lists of a report.** What the code gets by sorting and grouping is given by what
  stands before what: `Arranged` lists a set whose members know what comes before
  them, `Sorted` is that for a stable sort, and `Pick` takes the places of a list
  that pass a test. A count is the number of places that do (`CountOf`). The table of
  a small CPython dictionary is filled key by key (`Table`, `PutDay`), with the probes
  of its hash.
* **Clients.** Steps take no time and an attempt lasts at most the session's
  timeout; `Tick` is not enabled while an attempt is overdue. Which client a caller
  uses is chosen at the start. Times are ages, so no clock grows.
* **Policy.** A text is the sequence of tokens `_parse_tokenize` makes of it. The
  i-th check of a text asks for role i, so that no two checks can be confused.
  Checks that ask a server over http are left out. The clock with which files are
  stamped may stand still between edits.
* **HBase.** Some helpers the storage needs are not in the repository, and nothing
  is recorded at this commit (section 4). The module is of the storage with them
  supplied. Rows of different meters have keys in an order no property is about, so
  what a limit leaves of a scan is any set of rows that has with each row those of
  its meter before it (`First`). A put of the upgrade brings no stamp and gets the
  server's time, which is taken from `ServerTimes`, any integers, since recorders stamp
  whole seconds of their own. `Second` takes the stamp of a sample
  (`impl_hbase.py` 175) to grow with its time: in a zone with daylight saving time
  `mktime` of a time in UTC does not for one hour a year, and then the metadata of the
  older sample may stay on top.
* **Contexts and rules.** A context asks the rules by their names, and `Contexts`
  knows of the rules only `PolicyAssumption`: one without "not" grants an
  administrator what it grants another, and `context_is_admin` is granted to the role
  *admin*. `policy` gives it the rules of `MCPolicy`, evaluated by `PolicyChecks`, for
  which TLC checks the assumption.
* **The launcher.** What a signal does depends on the handler a process has at
  that moment, so the handlers are state, of the parent and of each child. The
  parent installs those of SIGTERM and SIGHUP one after the other (82-86), and the
  end of a reload sets `running` and forgets the signal in two statements (385,
  386): a signal may come between them. A child is
  *forked* (its parent's handler), *starting* (its own, outside the try of its
  loop, where SIGHUP ends it), *serving*, *restarting* (SIGHUP back to its
  default), or a *zombie*. The check of `running` and the fork are two steps. The
  parent ends through `stop` (*exited*), by a `wait` that returns without it
  (*returned*), or is *killed*. SIGHUP
  comes with a new edition of the configuration. No entry point of the repository
  asks for more than one worker; the model is of the class as it stands.

## 3. Runs

| Run | Asks | Bounds | Distinct states, about |
|---|---|---|---|
| `one_worker` | With a pool of one, do table and scheduler agree between handlers, and scheduler and dictionary always? `TypeOK`, `Agreement`, `JobsAgree` | 1 greenthread, 1 API process, 4 requests, 1 death, 1 crash; patches that rename, make a task once-only, set a strange status, and change `task_id` | 243,000 |
| `pool` | With handlers interleaving: no job without a row, no return of the deleted, JobManager used as specified. `NoOrphanJob`, `GoneForGood`, `ImplementsJobManager` | 2 greenthreads, 2 API processes, 3 requests, 1 death, 1 crash; patches that rename and that make a task *spent* or *broken* | 514,000 |
| `in_place` | What do signals and rows that cannot be scheduled do? `OnlyTheCut`, `SignalsAnswered`, `ScheduledUnlessCut`, `PoisonPinsAgentDown` | 1 greenthread, a default task, *cron* or *spent* POSTs, 3 requests, 1 crash, 2 signals | 194,000 |
| `report_files` | Files, rows and mails. `FileHasRecord`, `RecordHasFile`, `MailsOwnReport` | 3 runs of 2 tasks of one name, 2 days, 2 API processes, 1 crash, 1 death | 468,000 |
| `reports` | What do reports count, when do they fail or lack a section, in which language are they? `ChartsTell`, `CountsAgree`, `FailuresExplained`, `Complete`, `OneLanguage` | 2 tasks of each type, 2 builds, 3 runs, 2 at a time, two of the meter tasks also with themselves; answers of up to eight events with machines shared, repeated names and unknown ones; of up to three hosts, some without a metric | 97,000 |
| `clients` | How old can a token get, why is a request refused, does a call end? `CachedWithinLife`, `RefusalsExplained`, `CallsEnd` | 2 callers, 2 clients, caching time 2, timeout 1, life 6 | 454,000 |
| `periods` | Time ranges over 2015-2017. `WholePeriods`, `Contiguous`, `MonthIsLastMonth` | every day of three years with a leap day, weekly tasks on any weekday, monthly ones on days 1, 2, 15, 27, 28; audit periods of every unit with several offsets, at several hours of each day | 38,000 |
| `launcher` | What the launcher guarantees among signals and deaths, and a hosted service among restarts. `Accounted`, `WorkersReplaced`, `HupReachesChildren`, `TermEnds`, `ChildrenFollow`; `StopLeavesNothing`, `ServesOn` | 2 workers, 2 pids (which are used again), 2 signals of three kinds, 2 deaths; or one service with a task or a pool of one and three connections, 2 restarts | 52,000 |
| `policy` | Does a rule mean what the language says, are the rules in force those of the files, do contexts tell what they were made of? `ParsesTheLanguage`, `StaleIsReread`, `DirectoryOverMain`, `ContextsTell` | all texts of up to 6 tokens; 3 files, 3 edits, 1 tick of the clock; 3 contexts | 997,000 |
| `hbase` | Do the tables keep every sample and show each resource as it is? `SampleHasMeter`, `SamplesStay`, `ReadsTell`, `YieldedCoherent`, `ImplementsResourceView` | 2 resources, 3 puts of samples that are late, of one second, or twice; old rows with an upgrade cut anywhere; the upgrade puts under the stamp of a later sample; 1 reader | 87,000 |
| `unique_names`, `month_end` | what the code's documentation says; violated, section 4 | | |

Why the bounds are enough for what they ask. Two ids are one task and an
independent one, and let PUT re-key one onto the other. Two greenthreads let any
two handlers of one task interleave; three requests give a task a creation, a
change and a deletion, in which every stale copy can be made, and the fourth in
`one_worker` adds a list operation after them. The queue (`MaxQueue` 3) never
fills before the requests do; in `in_place` it holds one cast, and the next request
keeps its copy until the agent has taken it. One crash at any step covers a lost handler and a
restart. In `in_place` a signal and a second one let a signal come while the first
is handled, or a restart be followed by another or by a stop, and the crash comes
before, between or after them.

`in_place` asks its liveness question, `ScheduledUnlessCut`, with one greenthread.
With more, two handlers of a task can leave an Active row without a job until the
next start of the agent: `update_task` deletes the job and yields, another handler
adds one, and the first then fails with ConflictingIdError. `Agreement` fails with
more than one greenthread for the same reason, and with a body of a PUT that makes
a task *broken* or *spent*: the job is deleted, the handler raises, and the row is not
written. Both are consequences of the code as it is and are not claimed otherwise
by any comment of it. The size of the pool is an option of the executor, 64 by
default.

In `launcher` two signals are a SIGHUP and one more at any point after it (the one
its reload forgets included), or a second one that kills; two deaths let a child die while another is replaced. Two
pids suffice: a new child takes one whose last owner was waited for. The launcher
and the hosted service run side by side in one state space and never in one
behaviour: a parent of workers hosts nothing. With a pool of one the server is
held by its second connection, and the third waits in the backlog.

In `clients` the life of a token is `Oldest`, the caching time and four attempts,
the least for which `RefusalsExplained` promises anything: a limit that is off by one
shows. In `reports` the lists of answers hold machines that share a name, unknown
ones and statuses, events out of order, and six days of events, since the table of a
small dictionary grows with the sixth. Texts of six tokens are all the sequences of
brackets, `and`, `or`, `not`, checks and quoted strings of that length, enough for
two operators with one of them negated or in brackets. Three puts of four samples
with one of a former release give every order of a late, an equal and a new sample.

Deadlock checking is off where requests are bounded or runs are used up: the
system may then stop, and where a process that has exited does.

### Fairness

`ProcFairSpec` of `AgentProcess` assumes weak fairness of the start of the agent, of
the rounds of `inittasks`, of each greenthread taking and finishing messages, of
the launcher entering its wait, stopping and restarting the service, and of each
API process finishing its request. The eventlet hub runs every ready greenthread,
and a WSGI process does nothing but serve its request. That a stopped agent is
started again is an assumption about the operator: `etc/report-agent.service` has
no `Restart=`. Requests, signals, crashes, deaths and the scheduler's own thread get
no fairness.

The `Fairness` of `ProcessLauncher` has weak fairness of the parent's next step and
of each child's: they are processes the system runs. Signals and deaths have none.
`HostFairness` has weak fairness of the greenthreads of a hosted service; that a
report or the handling of a request ends is assumed. `Accept` is strongly fair for
each connection: the backlog is served in order, and without strong fairness one
connection could be passed over for ever.

`FairSpec` of `Clients` has weak fairness of each call's next step: an attempt ends
in an answer or at the session's timeout.

No liveness is asked of report runs, policy or HBase: a run waits for services
that may not answer, and the others do what they are called for and return.

## 4. Where comments and code differ

* `UniqueNames`: "The unique name of the task" (`rpttasks.py` 42). Two concurrent
  POSTs of one name both succeed; so does a PUT that renames a task to a name
  another one has. There is no constraint in the table.
* `MonthIsLastMonth`: "Calculate the begin and end time according to period."
  (`tasks.py` 86). Going back by the length of last month from a later day of this
  one stays in this one. On 29, 30 and 31 March the monthly report covers 1 to 28
  March (1 to 29 in a leap year on 30 and 31 March) and not February; on the 31st of
  May, July, October and December it covers the first 30 days of the current month.

The models also show behaviour that no run states as a failed property, since no
comment claims otherwise or the property that is checked names it as an exception.

*The service and its agent.*

* "sleep 1s and wait for agent update db" (`rpttasks.py` 212): nothing waits for the
  agent, and the message may still be queued when POST answers.
* A row whose Task cannot be built, or whose cron trigger has no time left so that
  `strftime` of its next run time raises (`jobutil.py` 91-93), ends every start of
  the agent (`PoisonPinsAgentDown` says it stays so), and only a running agent could
  change it. In a handler the second kind leaves a job that never fires in the
  scheduler, and its row as it was.
* A signal that lands in a handler ends it, and the process goes on with a job
  without its row or the other way round until it ends (`OnlyTheCut`).

*The process launcher and the services.*

* "Loop waiting on children to die and respawning as necessary."
  (`openstack/common/service.py` 358): a SIGHUP after a dead child was waited for and
  before its successor is forked makes `running` false, and after the reload the
  launcher forks only when another child dies. A SIGHUP before the first fork leaves
  it without any worker and nothing that could die. `WorkersReplaced` says what
  holds: once a death has been waited for, all that are missing are forked.
* "Terminate child processes and wait on each." (393): a child that was forked and
  has not reached its first line yet handles SIGTERM with the handler of its parent,
  which sets two flags; then it serves, and `stop` waits. `TermEnds` names the
  states from which SIGTERM is obeyed.
* `wait` installs its handlers again even if a signal caught in `launch_service` has
  not been handled. If that one is SIGHUP, a SIGTERM caught before the reload sets
  `running` (385) is forgotten and the launcher goes on. One caught between 385 and
  `self.sigcaught = None` (386) is forgotten with `running` left false:
  `_respawn_children` returns at once, and so does `wait` (369-370), without `stop`.
  "No signal means that stop was called. Don't clean up here." (368) does not hold
  then: the parent ends with children it never waits for, which end by the pipe
  (`ChildrenFollow`). `Accounted` names this return and says what it takes.
* A report of `agent.base` that is running when its service is stopped goes on
  beside those of the next start; one that raises ends its looping call for good. A
  signal that lands in the accepting greenthread of `wsgi.Server` ends the server and
  not the process. With TLS `wsgi.Server` asks for an attribute `_uses_ssl` it does
  not have (172; it is `_use_ssl`).

*Reports.*

* Tasks of the periods *once* and *year* have no time range (`get_period` answers
  None), so their reports fail; so do all Excel files, whose driver lacks the
  `draw_title` and `add_catalog_title` the tasks call (`FailuresExplained`).
* Zeus is asked for alarms up to and with the end of the period, so an alarm at
  midnight is in two reports. Two machines of one name are one bar of the host
  chart. The axis of a week is sorted by the day of the month.
* The bars of the days of a meter report are the values of a dictionary beside
  sorted labels: two to five days across the 8th, 16th or 24th of the month may be
  listed in another order, and bars then stand at another day. The table of
  users leaves out a user with any failure or deletion; a run in which that leaves
  none empties the section list of its Task object for all later runs (`Complete`).
* A host without a metric is counted with zeros and may then be a top host, for
  which the query of details finds nothing and the run raises. Means that nobody
  answers give a report of titles without disks; disks alone that nobody answers
  raise. A query without a result is taken to answer None: an answer of InfluxDB
  then has no `series` at all (`client/influx.py`:32); an empty list of series would
  make `get_detail_data` raise too.
* The language of a report is that of whatever task of its type was built last, so a
  task built after the object of a running or waiting one changes its reports to
  come (`LanguagesFrom`).

*Clients.*

* A refused token stays in the cache until its time is over. A run may lose the
  token of its request between two attempts to another run of its task
  (`RefusalsExplained` names both).

*Policy and contexts.*

* Rules of a directory's file stay in force when the file is removed or drops them,
  until the main file is read again (`overlaid` in `DirectoryOverMain`); an edit in
  the tick of the modification time of the last read is never seen (`again` in
  `StaleIsReread`).
* `is_admin` of a context may be None, for which neither `is_admin:True` nor
  `is_admin:False` holds; two values that are absent are equal in a generic check.
* `project_id` of a request's context is never set by the middleware, so
  `is_user_context` is false and the `authorize_` functions refuse nobody
  (`context.py` 203-244).
* `last_completed_audit_period` raises for a unit `month@29` and above when a month
  about lacks the day. It has no caller.

*HBase.*

* Helpers the storage takes from `utils` (`update_nested`, `dict_to_keyval`,
  `sanitize_timestamp`) are not there, so at this commit the module cannot even be
  imported; the model supplies them.
* `get_meter_statistics` always raises: its query sets the meter to None and
  demands one. `get_samples` yields the rows' dictionaries and not the `Sample`
  models its docstring names, and fetches columns that leave out source and message
  id, so a filter on those finds nothing in HBase (`ReadsTell`, `InReach`) contrary to
  what `get_meter_columns` says; in memory it finds them.
* `get_meters` of a source yields the meters any source has of a resource that
  matches. The flattened metadata keys of an older sample stay and still match a
  query (`Passes`). Of two samples in one second the later put wins.

## 5. Proofs

The theorems hold for every value of the constants that satisfies the named
assumptions of the modules: any sets of ids, names, greenthreads, API processes,
callers, clients, files, samples, queries and texts, finite or not, and any bounds.
The assumptions say that bounds and times are integers, that what a run gives the
model (tasks, patches, lists of ids, samples, audit units) has the right shape, and
that `None` and the other marks are not among the values they stand beside. Four say
more: a directory's files have each a place of its own (`DirAssumption`); a
resource has at most one sample of a former release (`OldSamplesAssumption`), a
bound on what the upgrade finds; no severity zeus gives is the name of a status or
the other way round (`AlarmAssumption`), since a row of the alarm table counts both in
one dictionary; and `PolicyAssumption` (section 2). A theorem that needs more has it as
a hypothesis.

| Theorem | States |
|---|---|
| `ReportService_proof!JobsConsistent` | `JobSpec => []JobsAgree` |
| `ReportService_proof!JobsNeverReplaced` | `JobSpec => NeverReplaced` |
| `ReportService_proof!TypeCorrect` | `Spec => []TypeOK` |
| `ReportService_proof!AgentImplementsJobManager` | `Spec => ImplementsJobManager` |
| `ReportService_proof!NoOrphans` | `Spec => []NoOrphanJob` |
| `ReportService_proof!DeletedStaysGone` | `Spec => GoneForGood` |
| `ReportService_proof!RowAndJobAgree` | `OnePool /\ PlainTasks /\ Spec => []Agreement` |
| `ReportService_proof!CutHurtsNoOther` | `ProcSpec => []OnlyTheCut` |
| `ReportService_proof!PoisonStays` | `ProcSpec => PoisonPinsAgentDown` |
| `ReportFiles_proof!FilesHaveRecords` | `Spec => []FileHasRecord` |
| `ReportFiles_proof!RecordsHaveFiles` | `Spec => []RecordHasFile` |
| `ReportFiles_proof!MailsAreOwn` | `Spec => []MailsOwnReport` |
| `Reports_proof!ReportsKept` | `Spec => []Inv` |
| `Reports_proof!LanguagesApart` | `Spec => []OneLanguage` |
| `Reports_proof!FailuresHaveReasons` | `Spec => []FailuresExplained` |
| `Reports_proof!SectionsComplete` | `Spec => []Complete` |
| `Reports_proof!ChartsCountAlarms` | `Spec => []ChartsTell` |
| `Reports_proof!MeterCountsAgree` | `Spec => []CountsAgree` |
| `ProcessLauncher_proof!ChildrenAccounted` | `Spec => [](TypeOK /\ Accounted)` |
| `ProcessLauncher_proof!WaitsWithAllWorkers` | `Spec => []AllWorkers` |
| `ProcessLauncher_proof!StopsLeaveNothing` | `HostSpec => []StopLeavesNothing` |
| `Clients_proof!TypeCorrect` | `Spec => []TypeOK` |
| `Clients_proof!CacheBounded` | `Spec => []CachedWithinLife` |
| `Clients_proof!RefusalsHaveReasons` | `Spec => []RefusalsExplained` |
| `HBaseStore_proof!SamplesHaveMeters` | `Spec => []SampleHasMeter` |
| `HBaseStore_proof!NoSampleIsLost` | `Spec => SamplesStay` |
| `HBaseStore_proof!YieldsCohere` | `Spec => []YieldedCoherent` |
| `HBaseStore_proof!StoreImplementsView` | `Spec => ImplementsResourceView` |
| `HBaseStore_proof!ReadsAgree` | `Spec => []ReadsTell` |
| `TimeUtil_proof!PeriodsAreWhole` | `EveryMonthHasThem /\ Spec => []WholePeriods` |
| `TimeUtil_proof!RangesAreContiguous` | `EveryMonthHasThem /\ Spec => Contiguous` |
| `TimeUtil_proof!MonthsAreLastMonths` | `EveryMonthHasThem /\ Spec => MonthIsLastMonth` |
| `PolicyEnforcer_proof!EditsAreSeen` | `EnforcerSpec => []StaleIsReread` |
| `PolicyEnforcer_proof!DirectoryHasItsSay` | `EnforcerSpec => []DirectoryOverMain` |
| `PolicyEnforcer_proof!ContextsKeepWhatTheySaid` | `CtxSpec => []ContextsTell` |

**JobManager.** `JobInv` adds to `JobsAgree` the types of both variables. The
second half of `JobsAgree` is not inductive alone: a job of the scheduler vanishes
only if its kind is not *cron*, and what is left in `self.jobs` must still show that,
which needs `Tracked`, the first half, in the state before.

**The service.** `Base` is `JobInv` with an agent part and an API part. Besides
the types it says that a row `inittasks` has left to do is still in the table
(otherwise `InitTask` would read no task), that only handlers which write reach
"save" or "schedule", and that what a request holds is a row's worth of data.
Under `Base` every step of the service is a `JobNext` step or leaves the
JobManager alone: the handlers never schedule a task that cannot be built. That
is `AgentImplementsJobManager`.

**Deleted tasks.** `NoOrphanJob` is not inductive without knowing that an agent
that is initialising has no handlers and schedules only stored rows, both in
`Base`. The argument follows the order inside the handlers: adding a job moves
the handler to "save", which writes the row; removing the row moves the handler
to "unschedule". A handler that ends in "unschedule" because `delete_job` raised
leaves no job behind, since it raises only when the scheduler has none.
`DeletedStaysGone` goes through every way a copy of a task is made and shows that
it starts from a row, from a new id, or from another copy.

**Row and job.** `Agreement` says nothing while a handler runs, so the invariant
`AgreeInv` says what a handler owes: a task that no handler has in hand is
`Settled`, and one in hand is as the step the handler has reached needs it to be
(`InHand`, by "pc"). At "schedule" the job is gone, at "save" the job is that of
the row about to be written, at "unschedule" the row is gone. The hypotheses are
those without which it is false. `OnePool`: a second greenthread can come between
the steps of the first. `PlainTasks`: a task that cannot be scheduled loses its job in
`update_task` and keeps its row (section 3); and a task posted Inactive can be
enabled by a second API process after its row is inserted and before its `add_task`
is cast, and then has the row of the one and the job of the other. With the
hypotheses the numbers of tasks, API processes, requests, deaths and crashes are
free. A crash of the agent needs no hypothesis, because the start
schedules what is Active.

**Signals and rows that pin.** `ProcInv` is what `Spec` keeps of every task, kept by
`ProcSpec` of those outside `cut`: a signal changes only the handler it lands in, whose
task joins `cut`, and the end of the process clears both. This holds for a pool of
any size. `PoisonStays` rests on `PinnedBy`: with the agent down or starting, the
Active row stays, since only handlers change rows that are there, and it
stays before `inittasks`, which cannot pass it.

**Files, rows and mails.** `FileHasRecord`, `RecordHasFile` and `MailsOwnReport` lean on each other
through the name of the file, which two runs of a day can share. `Links` ties the
three parties to the run: a file under a name was written by a run of that name past
`create_report_file`; a row was added by a run past `_save_report`; a delete works on
the path a row had; and once a delete has removed a file no file of its run can
come, since a run writes once (`Removed`). What a second run of the name may do is
what `Shared` excepts.

**Reports.** `Inv` says of each run, by its type and stage, what it works on, what it
has drawn and what is left to draw, in terms of its Task object; of the objects, that
only one of a meter task has lost its sections; and of each module's global, that the
object it was set by is no older than any other of the type (`TranslationKept`), which
a run needs of the object it works with (`LanguagesFrom`). A host without a metric is
drawn only if it is among the top hosts; since `Arranged` puts an element where the
number of those before it says (`ArrangedLists`), fewer than `TopN` hosts are then
above it (`TopHostsThere`), which is what `FailuresExplained` says. What lets it be kept while others run is that a step changes
its own run alone, an object only by emptying it (`EmptiedKeeps`), and the globals
only by a constructor. The charts are the hard part. `Permutes` relates the list
as the charts before have left it to the alarms as they were fetched: a one-to-one
mapping of places under which alarms differ at most in their type, and there only as
`_type_distribute` has it. Sorting (`Rearranged`) and retyping (`RetypedPermutes`)
keep it, and under it every count a chart makes is the count of the fetched list
(`SameCount`). Grouping needs that the groups of a sorted list are the classes of its
key (`GroupsAre`), so that their sizes add up (`TotalOfGroups`). That the sum over a
family of sets is the number of pairs in it (`TotalOfParts`) stands in for induction:
the sums are cardinalities of disjoint unions, and all the steps are bijections.

`CountsAgree` needs the one place of the model that is computed step by step, the
table of a CPython dictionary. Its recursive function is unfolded to a chain of tables
(`ChainSteps`), along which the keys so far are exactly the taken slots
(`ChainTables`, by the least counterexample, `UpTo`); a key finds a slot because the
eight probes reach every slot (`Probes`) and at most five keys are put in (`SlotFree`).
So the listed days are the days of the events, each once, in whatever order; when
their remainders by eight ascend, each day has the slot of its remainder
(`PutDayInPlace`), and as a set has one ascending list (`AscendingOnly`) the bars
stand at their days (`DictOrderLists`).

**The launcher.** `Accounted` alone is not inductive: `StartChild` adds a child
without looking. `Checked` says that what was checked before a fork still holds
(nothing else adds to the children), `Drained` that no signalling loop is left
half way while children are waited for, without which the type of `tosignal`
would not be kept, and the children are a finite set, since `Cardinality` means
nothing otherwise. Any set of pids and any number of workers will do. `AllWorkers` is
the safety half of what the launcher does before any SIGHUP: a parent that goes into `os.waitpid` while no
SIGHUP has come has as many children as workers. `Hupped` says where a SIGHUP is still
to be acted on, without which the reload could set `running` again over a check that
was made while it was false; after a SIGHUP `AllWorkers` fails, as section 4 shows.
`Forgetful` counts the signals behind a `wait` that returns without `stop`: the SIGHUP
of the reload, and the one its last statement forgets.

**The hosted service.** `GoesOnNow` says that a looping call that goes on is of the
last start and still in the thread group's list, which is what `stop` walks over;
`ServesNow` that a held connection needs a server that accepts, and that requests
outlive the server only up to its wait. A report that runs at the stop may still return
after it; its loop is over then, so `StopLeavesNothing` promises that no loop begins
another report and not that none runs.

**The clients.** The invariant `Inv` bounds the age of a token wherever it is: on
its way from keystone, in the cache, in a call, among the headers of a client
(`GivenYoung`, `CachedWithinLife`, `SentYoung`). The bound of a call grows with its
attempts (`AgeAt`). The headers are the hard part: the next attempt takes them as
they are, and another caller may have changed them; `SentYoung` holds for them since
whoever changes them puts in a token that is younger still. `OwnHeader` says that a
caller with a client to itself keeps its token. No bound on callers, clients or
times is needed.

**HBase.** `RowOK` says what a row of versioned columns looks like: each version has
columns that each name a sample of the resource, in one format or the other, and is
the second of one whose metadata it has, unless only the upgrade has put there;
every meter, wherever the upgrade has put it, has its second among the recorders'
stamps (`Stamps`). The view takes maxima of stamps
and minima of times; that they exist is `Ordered`, a set of integers each part of
which has a greatest and a least member, which every `Put` keeps, so that no induction
over the finite set of puts is needed. `MetersThere` adds to `SampleHasMeter` the samples
whose second put is still to come, and `MovingPut` says that the upgrade deletes only
what it has put in the new format: from the two follow `SampleHasMeter` and
`SamplesStay`. `ReaderOK` says of a reader under way that recorders' stamps still have
the seconds it saw. For the refinement, a put shows as the `Learn` of its sample, and the
upgrade as a stutter (`Same`: the view of a row reads names, sources and times, and not the
format or the stamp of a column). `ReadsAgree` adds `SourcesThere`: a
row that has a meter has the source the meter is of, which is what `get_meters`
of a source looks for. What `get_samples` cuts off is older because the rows it leaves
are closed under `RowBefore`, which counts times down.

**Periods.** The invariant `TimeInv` gives the range of each task as a function of
today alone: the last day, the seven days that ended at the last weekday of the task,
the month before the one it last ran in. It is inductive because a
range moves by a day at a time; that seven days after a day is what the code computes
as seven days before another needs the recursive function `DaysAfter` at 7 only. The
three instants an audit period can begin or end at are a chain each step of which is
one unit (`Chain`), and the time asked at lies between the second of them and one unit
after the first, for every unit and offset that a `datetime` has. `EveryMonthHasThem`
(`MonthDays \subseteq 1 .. 28`) is needed: a task set to a later day skips months
and, in March and on a 31st that follows a month of 30 days, reports on the wrong
one, which is what `month_end` shows. Any first and last year will do.

**The enforcer.** The enforcer shares no variable with the contexts and the parser it
is checked beside, so its theorems are of `EnforcerSpec`, its part of that
specification. `StaleIsReread` is inductive with `InTime`, no time is ahead of the
clock: an edit between the stat and the read of a load leaves a cached text that is
newer than its stamp, and an edit after the read has a later stamp or falls in the
same tick. `DirectoryOverMain` needs the state of a walk (`WalkInv`): after each file
the last file so far that says something of a name has its say, and the files come in
the order of their places (`InOrder`), so the next one is the last. `InForce` keeps,
between loads as well, what the main file says below what the directories have said
since, unless there are no rules or the main file is not in the cache, and the next
load applies it anew.

**Contexts.** `CtxInv` says that each context has a list of roles and was made from an
earlier one, and that its dictionary is, under the lists as they are now, what it was
when made, that of its source if it was cast, and that of its source with the role
added if it was elevated. Every step makes one context and one list (`OneMore`), so
nothing that was said changes; with a shallow copy this is where the proof would fail.
What an elevated context passes follows from `PolicyAssumption` and its dictionary
(`ElevatedPasses`). Like the enforcer's, the theorem is of `CtxSpec`, the part of the
specification that has the contexts' variables.

Only model-checked:

* The leads-to properties: `CallsEnd`, `SignalsAnswered`, `ScheduledUnlessCut`, `ServesOn`,
  and of `ProcessLauncher` `WorkersReplaced`, `HupReachesChildren`, `TermEnds` and
  `ChildrenFollow`. They need fairness and ENABLED.
* `ParsesTheLanguage`: what the parser makes of every text is induction over the text,
  and the evaluation of Checks is a RECURSIVE operator. That the rules in force satisfy
  `PolicyAssumption` is checked by TLC for the rules of `MCPolicy` for the same reason.

## 6. Not modelled, and the plan

Not modelled, or only in part; the components in `PROJECT.json` give the reason for
each:

* `api/wsgi.py`, `exception.py`, `api/auth.py`, hooks and most of `utils.py`: copies of
  nova's library, of which the service calls little and which keep no state.
* Drawing: layout, fonts and pictures; only which parts of a report are drawn and
  which driver can.
* The SMTP exchange, TLS, systemd notification, the backdoor, loading of paste
  configurations, sockets: I/O.
* Discovery, commands, migrations of the SQL tables, locale, the mistral client:
  no state of their own, or no caller.
* `get_meter_statistics`, `clear` and the event and alarm queries of the HBase
  storage, which raise or have no caller.
* Dynamic looping calls, the `interval` trigger, `add`, `incr` and `delete` of the token
  cache: no caller.
* A PUT that makes a task unbuildable is left out of the runs that check `Agreement`,
  which it breaks (section 3).

What is left to do: an abstract specification of a task's life (created, active,
inactive, deleted) that `ReportService` refines under the hypotheses of `RowAndJobAgree`.
