------------------------- MODULE ReportService_proof -------------------------
(***************************************************************************)
(* What JobManager keeps true of its two views of a job, for any set of    *)
(* ids and names; what the service built on it keeps true for any number   *)
(* of tasks, greenthreads, API processes, crashes and requests; what       *)
(* becomes there of a task that is deleted; and how far row, job and       *)
(* dictionary agree: with one greenthread, and in a process that signals   *)
(* restart in place, with a pool of any size.                              *)
(***************************************************************************)
EXTENDS AgentProcess, TLAPS

-----------------------------------------------------------------------------
(* JobManager.                                                             *)

\* The two views of one id agree. The second part is what the first needs: a
\* job that leaves the store by itself, after its last run or because it cannot
\* be resumed, was not entered in self.jobs as "cron".
Consistent(t) ==
  /\ sched[t] # Null => jobs[t] = sched[t].task
  /\ LookupRaises(t) => jobs[t].kind # "cron"

\* The inductive invariant.
JobInv == JobTypeOK /\ \A t \in Ids : Consistent(t)

LEMMA JobInitInv == JobInit => JobInv
  BY NullIsNoJob DEF JobInit, JobInv, JobTypeOK, Consistent, LookupRaises

(***************************************************************************)
(* Each operation keeps the types, and the two views of every id for which *)
(* they agree: callers of a JobManager that change jobs and sched by these *)
(* operations alone can rely on it, and so can those of one that something *)
(* else has put out of step for some other id.                             *)
(***************************************************************************)
JobKeeps == JobTypeOK' /\ \A t \in Ids : Consistent(t) => Consistent(t)'

LEMMA AddJobKeeps ==
  ASSUME JobTypeOK, NEW u \in Ids, NEW task \in Task, AddJob(u, task)
  PROVE  JobKeeps
<1> DEFINE new == [task |-> task, paused |-> ~Fires(task)]
<1>1. new \in Job /\ new.task = task
  BY DEF Job, Fires
<1>2. /\ sched' = [sched EXCEPT ![u] = new]
      /\ jobs' = [jobs EXCEPT ![u] = task]
  BY DEF AddJob
<1> HIDE DEF new
<1>3. new # Null /\ task # Null
  BY <1>1, NullIsNoJob, NullIsNoTask
<1>4. JobTypeOK'
  BY <1>1, <1>2 DEF JobTypeOK
<1>5. \A t \in Ids : Consistent(t) => Consistent(t)'
  BY <1>1, <1>2, <1>3 DEF JobTypeOK, Consistent, LookupRaises
<1>6. QED
  BY <1>4, <1>5 DEF JobKeeps

LEMMA DeleteJobKeeps ==
  ASSUME JobTypeOK, NEW u \in Ids, DeleteJob(u)
  PROVE  JobKeeps
  BY DEF JobKeeps, JobTypeOK, Consistent, LookupRaises, DeleteJob, Unknown, jobVars

LEMMA SetPausedKeeps ==
  ASSUME JobTypeOK, NEW u \in Ids, NEW b \in BOOLEAN,
         sched[u] # Null, sched' = [sched EXCEPT ![u].paused = b],
         UNCHANGED jobs
  PROVE  JobKeeps
<1>1. JobTypeOK'
  BY DEF JobTypeOK, Job
<1>2. \A t \in Ids : Consistent(t) => Consistent(t)'
  BY NullIsNoJob DEF JobTypeOK, Consistent, LookupRaises, Job
<1>3. QED
  BY <1>1, <1>2 DEF JobKeeps

LEMMA FinishOnceKeeps ==
  ASSUME JobTypeOK, NEW u \in Ids, FinishOnce(u)
  PROVE  JobKeeps
  BY DEF JobKeeps, JobTypeOK, Consistent, LookupRaises, FinishOnce, Job

LEMMA LoseJobsKeeps ==
  ASSUME LoseJobs
  PROVE  JobKeeps
  BY DEF JobKeeps, JobTypeOK, Consistent, LookupRaises, LoseJobs

LEMMA JobNextKeeps == JobTypeOK /\ [JobNext]_jobVars => JobKeeps
<1> SUFFICES ASSUME JobTypeOK, [JobNext]_jobVars PROVE JobKeeps
  OBVIOUS
<1>1. ASSUME NEW u \in Ids, NEW task \in Task, AddJob(u, task) PROVE JobKeeps
  BY <1>1, AddJobKeeps
<1>2. ASSUME NEW u \in Ids, DeleteJob(u) PROVE JobKeeps
  BY <1>2, DeleteJobKeeps
<1>3. CASE UNCHANGED jobVars
  BY <1>3 DEF JobKeeps, JobTypeOK, Consistent, LookupRaises, jobVars
<1>4. ASSUME NEW u \in Ids, DisableJob(u) \/ EnableJob(u) PROVE JobKeeps
  <2>1. CASE sched[u] # Null /\ sched' = [sched EXCEPT ![u].paused = TRUE]
             /\ UNCHANGED jobs
    BY <2>1, SetPausedKeeps
  <2>2. CASE EnableJob(u) /\ sched[u] # Null /\ ~Fires(sched[u].task)
    BY <2>2 DEF JobKeeps, JobTypeOK, Consistent, LookupRaises, EnableJob, Unknown,
                jobVars, Fires
  <2>3. CASE EnableJob(u) /\ sched[u] # Null /\ Fires(sched[u].task)
    <3>1. CASE sched' = [sched EXCEPT ![u].paused = FALSE] /\ UNCHANGED jobs
      BY <2>3, <3>1, SetPausedKeeps
    <3>2. QED
      BY <1>3, <2>3, <3>1 DEF EnableJob, Unknown
  <2>4. QED
    BY <1>3, <1>4, <2>1, <2>2, <2>3 DEF DisableJob, EnableJob, Unknown
<1>5. ASSUME NEW u \in Ids, FinishOnce(u) PROVE JobKeeps
  BY <1>5, FinishOnceKeeps
<1>6. CASE LoseJobs
  BY <1>6, LoseJobsKeeps
<1>7. QED
  BY <1>1, <1>2, <1>3, <1>4, <1>5, <1>6 DEF JobNext

LEMMA JobNextInv == JobInv /\ [JobNext]_jobVars => JobInv'
  BY JobNextKeeps DEF JobInv, JobKeeps

(***************************************************************************)
(* The two views stay well typed and consistent: every job that can still  *)
(* fire is in self.jobs under the task it runs, and only one-time jobs     *)
(* leave a stale entry behind.                                             *)
(***************************************************************************)
THEOREM JobsConsistent == JobSpec => []JobsAgree
<1>1. JobInv => JobsAgree
  BY DEF JobInv, JobsAgree, Consistent, Tracked, OnlyOnceJobsVanish
<1>2. QED
  BY <1>1, JobInitInv, JobNextInv, PTL DEF JobSpec

(***************************************************************************)
(* The task object behind a job id never changes while the job exists.     *)
(***************************************************************************)
THEOREM JobsNeverReplaced == JobSpec => NeverReplaced
<1> DEFINE Keeps == \A t \in Ids : sched[t] # Null /\ sched'[t] # Null
                                     => sched'[t].task = sched[t].task
<1>1. JobInv /\ JobNext => Keeps
  <2> SUFFICES ASSUME JobInv, JobNext PROVE Keeps
    OBVIOUS
  <2> USE DEF JobInv, JobTypeOK
  <2>1. ASSUME NEW u \in Ids, NEW task \in Task, AddJob(u, task) PROVE Keeps
    BY <2>1 DEF AddJob, AddJobRaises
  <2>2. ASSUME NEW u \in Ids, DeleteJob(u) PROVE Keeps
    BY <2>2 DEF DeleteJob, Unknown, jobVars
  <2>3. ASSUME NEW u \in Ids, DisableJob(u) \/ EnableJob(u) PROVE Keeps
    <3> USE DEF Job
    <3>1. CASE UNCHANGED jobVars
      BY <3>1 DEF jobVars
    <3>2. CASE sched[u] # Null /\ sched' = [sched EXCEPT ![u].paused = TRUE]
      BY <3>2
    <3>3. CASE sched[u] # Null /\ sched' = [sched EXCEPT ![u].paused = FALSE]
      BY <3>3
    <3>4. QED
      BY <2>3, <3>1, <3>2, <3>3 DEF DisableJob, EnableJob, Unknown
  <2>4. ASSUME NEW u \in Ids, FinishOnce(u) PROVE Keeps
    BY <2>4 DEF FinishOnce
  <2>5. CASE LoseJobs
    BY <2>5 DEF LoseJobs
  <2>6. QED
    BY <2>1, <2>2, <2>3, <2>4, <2>5 DEF JobNext
<1>2. QED
  BY <1>1, JobInitInv, JobNextInv, PTL DEF JobSpec, NeverReplaced

-----------------------------------------------------------------------------
(* The types of the service, and the jobs as JobManager keeps them.        *)

\* Rows that inittasks has still to pass are in the table.
TodoStored ==
  /\ agent # "init" => todo = {}
  /\ todo \subseteq Stored

\* A handler or a request at a step that writes a row is not a deletion.
HandlersWrite ==
  \A w \in Workers :
    workers[w] # Null /\ workers[w].pc \in {"schedule", "save"}
      => workers[w].op # "del"

RequestsWrite ==
  \A p \in Api : api[p] # Null /\ api[p].pc = "insert" => api[p].op # "del"

AgentPart ==
  StoreTypeOK /\ RpcTypeOK /\ AgentTypeOK /\ TodoStored /\ HandlersWrite

ApiPart == ApiTypeOK /\ RequestsWrite

\* The types, and what they need. No step of the service needs more of the
\* jobs to keep them.
Typed == JobTypeOK /\ AgentPart /\ ApiPart /\ crashes \in Nat

\* The inductive invariant.
Base == Typed /\ \A t \in Ids : Consistent(t)

USE DEF Ops

-----------------------------------------------------------------------------
(* Types of what the operators build.                                      *)

LEMMA TaskNotNull == \A task \in Task : task # Null
  BY NullIsNoTask

LEMMA HandlerNotNull == \A h \in Handler : h # Null
  BY NullIsNoHandler

LEMMA RequestNotNull == \A r \in Request : r # Null
  BY NullIsNoRequest

LEMMA HeadOfQueue ==
  ASSUME RpcTypeOK, queue # <<>>
  PROVE  Head(queue) \in Message /\ Tail(queue) \in Seq(Message)
  BY DEF RpcTypeOK

LEMMA SetStatusType ==
  ASSUME NEW task \in Task, NEW s \in Statuses
  PROVE  /\ [task EXCEPT !.status = s] \in Task
         /\ [task EXCEPT !.status = s].kind = task.kind
  BY DEF Task

LEMMA PatchedType ==
  ASSUME NEW task \in Task, NEW patch \in Patch
  PROVE  Patched(task, patch) \in Task
  BY DEF Patch, Patched, Pick, Task

LEMMA GoesType ==
  ASSUME AgentTypeOK, NEW w \in Workers,
         NEW pc \in {"schedule", "save", "delrow", "unschedule"},
         NEW op \in Ops, NEW t \in Ids, NEW task \in Task,
         Goes(w, pc, op, t, task)
  PROVE  /\ workers' \in [Workers -> Handler \cup {Null}]
         /\ workers'[w] # Null
         /\ workers'[w].pc = pc /\ workers'[w].op = op
         /\ workers'[w].id = t /\ workers'[w].task = task
         /\ \A v \in Workers \ {w} : workers'[v] = workers[v]
<1> DEFINE h == [pc |-> pc, op |-> op, id |-> t, task |-> task]
<1>1. h \in Handler
  BY DEF Handler
<1>2. workers' = [workers EXCEPT ![w] = h]
  BY DEF Goes
<1> HIDE DEF h
<1>3. /\ workers' \in [Workers -> Handler \cup {Null}]
      /\ workers'[w] = h /\ workers'[w] # Null
      /\ \A v \in Workers \ {w} : workers'[v] = workers[v]
  BY <1>1, <1>2, HandlerNotNull DEF AgentTypeOK
<1>4. QED
  BY <1>3 DEF h

LEMMA ServesType ==
  ASSUME ApiTypeOK, NEW p \in Api, NEW pc \in {"insert", "cast", "sleep"},
         NEW op \in Ops, NEW t \in Ids, NEW task \in Task,
         NEW rest \in Seq(Ids), Serves(p, pc, op, t, task, rest)
  PROVE  /\ api' \in [Api -> Request \cup {Null}]
         /\ api'[p] # Null
         /\ api'[p].pc = pc /\ api'[p].op = op
         /\ api'[p].id = t /\ api'[p].task = task /\ api'[p].rest = rest
         /\ \A q \in Api \ {p} : api'[q] = api[q]
<1> DEFINE r == [pc |-> pc, op |-> op, id |-> t, task |-> task, rest |-> rest]
<1>1. r \in Request
  BY DEF Request
<1>2. api' = [api EXCEPT ![p] = r]
  BY DEF Serves
<1> HIDE DEF r
<1>3. /\ api' \in [Api -> Request \cup {Null}]
      /\ api'[p] = r /\ api'[p] # Null
      /\ \A q \in Api \ {p} : api'[q] = api[q]
  BY <1>1, <1>2, RequestNotNull DEF ApiTypeOK
<1>4. QED
  BY <1>3 DEF r

LEMMA AnswersType ==
  ASSUME ApiTypeOK, NEW p \in Api, Answers(p)
  PROVE  /\ api' \in [Api -> Request \cup {Null}]
         /\ api'[p] = Null
         /\ \A q \in Api \ {p} : api'[q] = api[q]
  BY DEF ApiTypeOK, Answers

LEMMA EndsType ==
  ASSUME AgentTypeOK, NEW w \in Workers, Ends(w)
  PROVE  /\ workers' \in [Workers -> Handler \cup {Null}]
         /\ workers'[w] = Null
         /\ \A v \in Workers \ {w} : workers'[v] = workers[v]
  BY DEF AgentTypeOK, Ends

-----------------------------------------------------------------------------
(* Every step of the service is a step of its JobManager.                  *)

LEMMA HandlerType ==
  ASSUME AgentTypeOK, NEW w \in Workers, workers[w] # Null
  PROVE  workers[w] \in Handler
  BY DEF AgentTypeOK

LEMMA InitTaskType ==
  ASSUME AgentPart, NEW t \in todo
  PROVE  t \in Ids /\ rows[t] \in Task /\ rows[t] # Null
  BY DEF AgentPart, TodoStored, Stored, StoreTypeOK

LEMMA AgentJobStep == Typed /\ AgentNext => [JobNext]_jobVars
<1> SUFFICES ASSUME Typed, AgentNext PROVE [JobNext]_jobVars
  OBVIOUS
<1> USE DEF Typed, AgentPart
<1>1. CASE AgentStart \/ ServeRpc
  BY <1>1 DEF AgentStart, ServeRpc
<1>2. ASSUME NEW t \in Ids, InitTask(t) PROVE [JobNext]_jobVars
  <2>1. CASE AddJob(t, rows[t]) /\ Fires(rows[t])
    <3>1. rows[t] \in Task
      BY <1>2, InitTaskType DEF InitTask
    <3>2. QED
      BY <2>1, <3>1 DEF JobNext, Builds, Fires
  <2>2. CASE UNCHANGED jobVars \/ LoseJobs
    BY <2>2 DEF JobNext
  <2>3. QED
    BY <1>2, <2>1, <2>2 DEF InitTask, Exit
<1>3. ASSUME NEW t \in Ids, RunOnce(t) PROVE [JobNext]_jobVars
  BY <1>3 DEF RunOnce, JobNext
<1>4. ASSUME NEW w \in Workers, Take(w) PROVE [JobNext]_jobVars
  <2>1. Head(queue).id \in Ids
    BY <1>4, HeadOfQueue
       DEF Take, AddTask, UpdateTask, EnableTask, DisableTask, DelTask, Takes,
           Message
  <2>2. \/ UNCHANGED jobVars
        \/ DeleteJob(Head(queue).id)
        \/ DisableJob(Head(queue).id)
    BY <1>4 DEF Take, AddTask, UpdateTask, EnableTask, DisableTask, DelTask
  <2>3. QED
    BY <2>1, <2>2 DEF JobNext
<1>5. ASSUME NEW w \in Workers, HandlerStep(w) PROVE [JobNext]_jobVars
  <2>1. workers[w] \in Handler
    BY <1>5, HandlerType
       DEF HandlerStep, ScheduleTask, SaveTask, DelRow, UnscheduleTask, At
  <2>2. workers[w].id \in Ids /\ workers[w].task \in Task
    BY <2>1 DEF Handler
  <2>3. \/ UNCHANGED jobVars
        \/ Builds(workers[w].task) /\ AddJob(workers[w].id, workers[w].task)
        \/ DeleteJob(workers[w].id)
    BY <1>5 DEF HandlerStep, ScheduleTask, SaveTask, DelRow, UnscheduleTask
  <2>4. QED
    BY <2>2, <2>3 DEF JobNext
<1>6. QED
  BY <1>1, <1>2, <1>3, <1>4, <1>5 DEF AgentNext

LEMMA JobStep == Typed /\ [Next]_vars => [JobNext]_jobVars
<1> SUFFICES ASSUME Typed, [Next]_vars PROVE [JobNext]_jobVars
  OBVIOUS
<1>1. CASE AgentNext
  BY <1>1, AgentJobStep
<1>2. CASE AgentCrashes
  BY <1>2 DEF AgentCrashes, Crash, Exit, JobNext
<1>3. CASE UNCHANGED jobVars
  BY <1>3
<1>4. QED
  BY <1>1, <1>2, <1>3 DEF Next, vars

-----------------------------------------------------------------------------
(* The agent's steps.                                                      *)

LEMMA InitTaskKeeps ==
  ASSUME Typed, NEW t \in Ids, InitTask(t)
  PROVE  AgentPart'
<1> USE DEF Typed, AgentPart
<1>1. rows[t] \in Task /\ rows[t] # Null
  BY InitTaskType DEF InitTask
<1>2. CASE UpdateRpttask(t, rows[t]) /\ todo' = todo \ {t}
           /\ UNCHANGED <<agent, workers>>
  BY <1>1, <1>2
     DEF InitTask, UpdateRpttask, StoreTypeOK, RpcTypeOK, AgentTypeOK,
         TodoStored, Stored, HandlersWrite
<1>3. CASE Exit /\ UNCHANGED rows
  BY <1>3
     DEF InitTask, Exit, StoreTypeOK, RpcTypeOK, AgentTypeOK, TodoStored,
         Stored, HandlersWrite
<1>4. QED
  BY <1>2, <1>3 DEF InitTask

LEMMA StartKeeps ==
  ASSUME Typed, AgentStart
  PROVE  AgentPart'
<1> USE DEF Typed, AgentPart
<1>1. rows' \in [Ids -> Task \cup {Null}]
  BY DefaultsAssumption DEF AgentStart, StoreTypeOK, Stored
<1>2. todo' \subseteq Stored'
  BY DefaultsAssumption, TaskNotNull DEF AgentStart, Stored
<1>3. QED
  BY <1>1, <1>2
     DEF AgentStart, StoreTypeOK, RpcTypeOK, AgentTypeOK, TodoStored, Stored,
         HandlersWrite

LEMMA TakeKeeps ==
  ASSUME Typed, NEW w \in Workers, Take(w)
  PROVE  AgentPart'
<1> USE DEF Typed, AgentPart
<1> DEFINE m == Head(queue)
<1>1. /\ m \in Message /\ Tail(queue) \in Seq(Message)
      /\ queue' = Tail(queue) /\ UNCHANGED <<agent, todo, rows>>
  BY HeadOfQueue
     DEF Take, AddTask, UpdateTask, EnableTask, DisableTask, DelTask, Takes
<1>2. m.id \in Ids /\ m.task \in Task /\ m.op \in Ops
  BY <1>1 DEF Message
<1>3. /\ [m.task EXCEPT !.status = "Active"] \in Task
      /\ [m.task EXCEPT !.status = "Inactive"] \in Task
  BY <1>2, SetStatusType DEF Statuses
<1>4. \/ UNCHANGED workers
      \/ \E pc \in {"schedule", "save"}, op \in Ops \ {"del"}, task \in Task :
           Goes(w, pc, op, m.id, task)
      \/ Goes(w, "delrow", "del", m.id, m.task)
  <2> HIDE DEF m
  <2>1. \/ UNCHANGED workers
        \/ EntersAddTask(w, "add", m.id, m.task)
        \/ EntersAddTask(w, "update", m.id, m.task)
        \/ EntersAddTask(w, "enable", m.id, [m.task EXCEPT !.status = "Active"])
        \/ Goes(w, "save", "disable", m.id, [m.task EXCEPT !.status = "Inactive"])
        \/ Goes(w, "delrow", "del", m.id, m.task)
    BY DEF Take, AddTask, UpdateTask, EnableTask, DisableTask, DelTask, m
  <2>2. QED
    BY <2>1, <1>2, <1>3 DEF EntersAddTask
<1> HIDE DEF m
<1>5. workers' \in [Workers -> Handler \cup {Null}] /\ HandlersWrite'
  <2>1. CASE UNCHANGED workers
    BY <2>1 DEF AgentTypeOK, HandlersWrite
  <2>2. ASSUME NEW pc \in {"schedule", "save"}, NEW op \in Ops \ {"del"},
               NEW task \in Task, Goes(w, pc, op, m.id, task)
        PROVE  workers' \in [Workers -> Handler \cup {Null}] /\ HandlersWrite'
    BY <1>2, <2>2, GoesType DEF HandlersWrite
  <2>3. CASE Goes(w, "delrow", "del", m.id, m.task)
    BY <1>2, <2>3, GoesType DEF HandlersWrite
  <2>4. QED
    BY <1>4, <2>1, <2>2, <2>3
<1>6. QED
  BY <1>1, <1>5 DEF StoreTypeOK, RpcTypeOK, AgentTypeOK, TodoStored, Stored

LEMMA HandlerStepKeeps ==
  ASSUME Typed, NEW w \in Workers, HandlerStep(w)
  PROVE  AgentPart'
<1> USE DEF Typed, AgentPart
<1> DEFINE h == workers[w]
<1>1. /\ h \in Handler /\ agent = "up" /\ todo = {}
      /\ UNCHANGED <<agent, todo, queue>>
  BY HandlerType
     DEF HandlerStep, ScheduleTask, SaveTask, DelRow, UnscheduleTask, At,
         TodoStored
<1>2. h.id \in Ids /\ h.task \in Task /\ h.op \in Ops
  BY <1>1 DEF Handler
<1>3. \/ Ends(w)
      \/ h.pc = "schedule" /\ Goes(w, "save", h.op, h.id, h.task)
      \/ Goes(w, "unschedule", h.op, h.id, h.task)
  BY DEF HandlerStep, ScheduleTask, SaveTask, DelRow, UnscheduleTask, At
<1>4. \/ UNCHANGED rows
      \/ UpdateRpttask(h.id, h.task)
      \/ DelRpttask(h.id)
  BY DEF HandlerStep, ScheduleTask, SaveTask, DelRow, UnscheduleTask, At
<1>5. h # Null
  BY DEF HandlerStep, ScheduleTask, SaveTask, DelRow, UnscheduleTask, At
<1>6. h.pc = "schedule" => h.op # "del"
  BY <1>5 DEF HandlersWrite
<1> HIDE DEF h
<1>7. workers' \in [Workers -> Handler \cup {Null}] /\ HandlersWrite'
  <2>1. CASE Ends(w)
    BY <2>1, EndsType DEF HandlersWrite
  <2>2. CASE h.op # "del" /\ Goes(w, "save", h.op, h.id, h.task)
    BY <1>2, <2>2, GoesType DEF HandlersWrite
  <2>3. CASE Goes(w, "unschedule", h.op, h.id, h.task)
    BY <1>2, <2>3, GoesType DEF HandlersWrite
  <2>4. QED
    BY <1>3, <1>6, <2>1, <2>2, <2>3
<1>8. StoreTypeOK'
  BY <1>2, <1>4 DEF StoreTypeOK, UpdateRpttask, DelRpttask
<1>9. QED
  BY <1>1, <1>7, <1>8 DEF RpcTypeOK, AgentTypeOK, TodoStored

LEMMA AgentKeeps == Typed /\ (AgentNext \/ AgentCrashes) => AgentPart'
<1> SUFFICES ASSUME Typed, AgentNext \/ AgentCrashes PROVE AgentPart'
  OBVIOUS
<1> USE DEF Typed, AgentPart
<1>1. CASE AgentStart
  BY <1>1, StartKeeps
<1>2. CASE ServeRpc
  BY <1>2 DEF ServeRpc, StoreTypeOK, RpcTypeOK, AgentTypeOK, TodoStored,
              Stored, HandlersWrite
<1>3. ASSUME NEW t \in Ids, InitTask(t) PROVE AgentPart'
  BY <1>3, InitTaskKeeps
<1>4. ASSUME NEW t \in Ids, RunOnce(t) PROVE AgentPart'
  BY <1>4 DEF RunOnce, agentVars, StoreTypeOK, RpcTypeOK, AgentTypeOK,
              TodoStored, Stored, HandlersWrite
<1>5. ASSUME NEW w \in Workers, Take(w) PROVE AgentPart'
  BY <1>5, TakeKeeps
<1>6. ASSUME NEW w \in Workers, HandlerStep(w) PROVE AgentPart'
  BY <1>6, HandlerStepKeeps
<1>7. CASE AgentCrashes
  BY <1>7 DEF AgentCrashes, Crash, Exit, StoreTypeOK, RpcTypeOK, AgentTypeOK,
              TodoStored, Stored, HandlersWrite
<1>8. QED
  BY <1>1, <1>2, <1>3, <1>4, <1>5, <1>6, <1>7 DEF AgentNext

-----------------------------------------------------------------------------
(* The steps of the API.                                                   *)

LEMMA NextOfListCases ==
  ASSUME StoreTypeOK, NEW p \in Api, NEW op, NEW ids \in Seq(Ids),
         NextOfList(p, op, ids)
  PROVE  \/ Answers(p)
         \/ \E t \in Ids, rest \in Seq(Ids) :
              /\ rows[t] # Null /\ rows[t] \in Task
              /\ Serves(p, "cast", op, t, rows[t], rest)
<1>1. CASE ids = <<>> \/ Refused(op, Head(ids))
  BY <1>1 DEF NextOfList
<1>2. CASE ids # <<>> /\ ~Refused(op, Head(ids))
  <2>1. Head(ids) \in Ids /\ Tail(ids) \in Seq(Ids)
    BY <1>2
  <2>2. rows[Head(ids)] # Null /\ rows[Head(ids)] \in Task
    BY <1>2, <2>1 DEF Refused, StoreTypeOK
  <2>3. Serves(p, "cast", op, Head(ids), rows[Head(ids)], Tail(ids))
    BY <1>2 DEF NextOfList
  <2>4. QED
    BY <2>1, <2>2, <2>3
<1>3. QED
  BY <1>1, <1>2

LEMMA RequestType ==
  ASSUME ApiTypeOK, NEW p \in Api, api[p] # Null
  PROVE  /\ api[p] \in Request
         /\ api[p].id \in Ids /\ api[p].task \in Task /\ api[p].op \in Ops
         /\ api[p].rest \in Seq(Ids)
  BY DEF ApiTypeOK, Request

\* What a step of the API does to the request of its process.
ApiMoves(p) ==
  \/ Answers(p)
  \/ \E pc \in {"insert", "cast", "sleep"}, op \in Ops, t \in Ids,
        task \in Task, rest \in Seq(Ids) :
       /\ pc = "insert" => op # "del"
       /\ Serves(p, pc, op, t, task, rest)

LEMMA ApiMovesKeeps ==
  ASSUME ApiPart, NEW p \in Api, ApiMoves(p), drawn' \subseteq Ids,
         requests' \in Nat, deaths' \in Nat
  PROVE  ApiPart'
<1>1. CASE Answers(p)
  BY <1>1, AnswersType DEF ApiPart, ApiTypeOK, RequestsWrite
<1>2. ASSUME NEW pc \in {"insert", "cast", "sleep"}, NEW op \in Ops,
             NEW t \in Ids, NEW task \in Task, NEW rest \in Seq(Ids),
             pc = "insert" => op # "del",
             Serves(p, pc, op, t, task, rest)
      PROVE  ApiPart'
  BY <1>2, ServesType DEF ApiPart, ApiTypeOK, RequestsWrite
<1>3. QED
  BY <1>1, <1>2 DEF ApiMoves

LEMMA NextOfListMoves ==
  ASSUME StoreTypeOK, NEW p \in Api, NEW op \in Ops, NEW ids \in Seq(Ids),
         NextOfList(p, op, ids)
  PROVE  ApiMoves(p)
  BY NextOfListCases DEF ApiMoves

LEMMA PostKeeps ==
  ASSUME Typed, NEW p \in Api, Post(p)
  PROVE  ApiPart' /\ UNCHANGED <<rows, queue>>
<1>1. PICK task \in PostTasks, t \in Ids \ drawn :
        /\ Serves(p, "insert", "add", t, task, <<>>)
        /\ drawn' = drawn \cup {t}
  BY DEF Post
<1>2. task \in Task /\ <<>> \in Seq(Ids)
  BY ApiAssumption
<1>3. ApiMoves(p)
  BY <1>1, <1>2 DEF ApiMoves
<1>4. QED
  BY <1>1, <1>3, ApiMovesKeeps DEF Post, Accepts, Typed, ApiPart, ApiTypeOK

LEMMA PutKeeps ==
  ASSUME Typed, NEW p \in Api, Put(p)
  PROVE  ApiPart' /\ UNCHANGED <<rows, queue>>
<1>1. PICK t \in Stored, patch \in Patches :
        /\ Serves(p, "cast", "update", Pick(patch.id, t),
                  Patched(rows[t], patch), <<>>)
        /\ drawn' = drawn \cup {Pick(patch.id, t)}
  BY DEF Put
<1>2. /\ t \in Ids /\ rows[t] \in Task /\ patch \in Patch
      /\ <<>> \in Seq(Ids)
  BY ApiAssumption DEF Typed, AgentPart, StoreTypeOK, Stored
<1>3. Pick(patch.id, t) \in Ids
  BY <1>2 DEF Patch, Pick
<1>4. Patched(rows[t], patch) \in Task
  BY <1>2, PatchedType
<1>5. ApiMoves(p)
  BY <1>1, <1>2, <1>3, <1>4 DEF ApiMoves
<1>6. QED
  BY <1>1, <1>3, <1>5, ApiMovesKeeps
     DEF Put, Accepts, Typed, ApiPart, ApiTypeOK

LEMMA ListRequestKeeps ==
  ASSUME Typed, NEW p \in Api, ListRequest(p)
  PROVE  ApiPart' /\ UNCHANGED <<rows, queue>>
<1>1. PICK op \in {"enable", "disable", "del"}, ids \in IdLists :
        NextOfList(p, op, ids)
  BY DEF ListRequest
<1>2. ApiMoves(p)
  BY <1>1, NextOfListMoves, ApiAssumption DEF Typed, AgentPart
<1>3. QED
  BY <1>2, ApiMovesKeeps DEF ListRequest, Accepts, Typed, ApiPart, ApiTypeOK

LEMMA InsertKeeps ==
  ASSUME Typed, NEW p \in Api, Insert(p)
  PROVE  /\ ApiPart' /\ StoreTypeOK' /\ Stored \subseteq Stored'
         /\ UNCHANGED queue
<1>1. api[p] \in Request /\ api[p].id \in Ids /\ api[p].task \in Task
  BY RequestType DEF Insert, Typed, ApiPart
<1>2. rows' \in [Ids -> Task \cup {Null}] /\ Stored \subseteq Stored'
  BY <1>1 DEF Insert, AddRpttask, Stored, Typed, AgentPart, StoreTypeOK
<1>3. [api[p] EXCEPT !.pc = "cast"] \in Request
  BY <1>1 DEF Request
<1>4. api' \in [Api -> Request \cup {Null}]
  BY <1>3 DEF Insert, Typed, ApiPart, ApiTypeOK
<1>5. RequestsWrite'
  BY <1>1 DEF Insert, Typed, ApiPart, ApiTypeOK, RequestsWrite, Request
<1>6. QED
  BY <1>2, <1>4, <1>5 DEF Insert, Typed, ApiPart, ApiTypeOK, StoreTypeOK

LEMMA SendCastKeeps ==
  ASSUME Typed, NEW p \in Api, SendCast(p)
  PROVE  ApiPart' /\ RpcTypeOK' /\ UNCHANGED rows
<1>1. /\ api[p].id \in Ids /\ api[p].task \in Task /\ api[p].op \in Ops
      /\ api[p].rest \in Seq(Ids)
  BY RequestType DEF SendCast, Typed, ApiPart
<1>2. RpcTypeOK'
  BY <1>1 DEF SendCast, Cast, RpcTypeOK, Message, Typed, AgentPart
<1>3. ApiMoves(p)
  <2>1. CASE api[p].op = "del"
    BY <1>1, <2>1, NextOfListMoves DEF SendCast, Typed, AgentPart
  <2>2. CASE api[p].op # "del"
    BY <1>1, <2>2 DEF SendCast, ApiMoves
  <2>3. QED
    BY <2>1, <2>2
<1>4. QED
  BY <1>2, <1>3, ApiMovesKeeps DEF SendCast, Typed, ApiPart, ApiTypeOK

LEMMA WakeOrDieKeeps ==
  ASSUME Typed, NEW p \in Api, Wake(p) \/ Die(p)
  PROVE  ApiPart' /\ UNCHANGED <<rows, queue>>
<1>1. CASE Wake(p)
  <2>1. api[p].op \in Ops /\ api[p].rest \in Seq(Ids)
    BY <1>1, RequestType DEF Wake, Typed, ApiPart
  <2>2. ApiMoves(p)
    BY <1>1, <2>1, NextOfListMoves DEF Wake, Typed, AgentPart
  <2>3. QED
    BY <1>1, <2>2, ApiMovesKeeps DEF Wake, Typed, ApiPart, ApiTypeOK
<1>2. CASE Die(p)
  <2>1. ApiMoves(p)
    BY <1>2 DEF Die, ApiMoves
  <2>2. QED
    BY <1>2, <2>1, ApiMovesKeeps DEF Die, Typed, ApiPart, ApiTypeOK
<1>3. QED
  BY <1>1, <1>2

LEMMA ApiKeeps ==
  ASSUME Typed, ApiNext, UNCHANGED agentVars
  PROVE  ApiPart' /\ AgentPart'
<1>1. StoreTypeOK' /\ RpcTypeOK' /\ Stored \subseteq Stored' => AgentPart'
  BY DEF Typed, AgentPart, agentVars, AgentTypeOK, TodoStored, HandlersWrite
<1>2. UNCHANGED <<rows, queue>> => AgentPart'
  BY <1>1 DEF Typed, AgentPart, StoreTypeOK, RpcTypeOK, Stored
<1>3. PICK p \in Api :
        Post(p) \/ Put(p) \/ ListRequest(p) \/ ApiStep(p) \/ Die(p)
  BY DEF ApiNext
<1>4. CASE Post(p) \/ Put(p) \/ ListRequest(p) \/ Wake(p) \/ Die(p)
  BY <1>2, <1>4, PostKeeps, PutKeeps, ListRequestKeeps, WakeOrDieKeeps
<1>5. CASE Insert(p)
  BY <1>1, <1>5, InsertKeeps DEF Typed, AgentPart, RpcTypeOK
<1>6. CASE SendCast(p)
  BY <1>1, <1>6, SendCastKeeps DEF Typed, AgentPart, StoreTypeOK, Stored
<1>7. QED
  BY <1>3, <1>4, <1>5, <1>6 DEF ApiStep

-----------------------------------------------------------------------------

LEMMA TypedInit == Init => Typed
<1> SUFFICES ASSUME Init PROVE Typed
  OBVIOUS
<1>1. JobTypeOK
  BY JobInitInv DEF Init, JobInv
<1>2. AgentPart
  BY NullIsNoHandler
     DEF Init, StoreInit, RpcInit, AgentInit, AgentPart, StoreTypeOK,
         RpcTypeOK, AgentTypeOK, TodoStored, HandlersWrite
<1>3. ApiPart
  BY DefaultsAssumption
     DEF Init, ApiInit, ApiPart, ApiTypeOK, RequestsWrite
<1>4. QED
  BY <1>1, <1>2, <1>3 DEF Typed, Init

LEMMA ApiPartSame == ApiPart /\ UNCHANGED apiVars => ApiPart'
  BY DEF ApiPart, ApiTypeOK, RequestsWrite, apiVars

LEMMA TypedNext == Typed /\ [Next]_vars => Typed'
<1> SUFFICES ASSUME Typed, [Next]_vars PROVE Typed'
  OBVIOUS
<1>1. JobTypeOK'
  BY JobStep, JobNextKeeps DEF Typed, JobKeeps
<1>2. CASE AgentNext /\ UNCHANGED <<apiVars, crashes>>
  BY <1>1, <1>2, AgentKeeps, ApiPartSame DEF Typed
<1>3. CASE AgentCrashes /\ UNCHANGED apiVars
  BY <1>1, <1>3, AgentKeeps, ApiPartSame DEF Typed, AgentCrashes
<1>4. CASE ApiNext /\ UNCHANGED <<agentVars, jobVars, crashes>>
  BY <1>1, <1>4, ApiKeeps DEF Typed
<1>5. CASE UNCHANGED vars
  BY <1>1, <1>5
     DEF Typed, AgentPart, ApiPart, StoreTypeOK, RpcTypeOK, AgentTypeOK,
         TodoStored, Stored, HandlersWrite, ApiTypeOK, RequestsWrite, vars,
         agentVars, apiVars
<1>6. QED
  BY <1>2, <1>3, <1>4, <1>5 DEF Next

LEMMA BaseInit == Init => Base
  BY TypedInit, JobInitInv DEF Base, Init, JobInv

LEMMA BaseNext == Base /\ [Next]_vars => Base'
  BY TypedNext, JobStep, JobNextKeeps DEF Base, Typed, JobKeeps

LEMMA BaseAlways == Spec => []Base
  BY BaseInit, BaseNext, PTL DEF Spec

(***************************************************************************)
(* Rows, queue, handlers, requests and jobs keep their types.              *)
(***************************************************************************)
THEOREM TypeCorrect == Spec => []TypeOK
<1>1. Base => TypeOK
  BY DEF Base, Typed, AgentPart, ApiPart, TypeOK
<1>2. QED
  BY <1>1, BaseAlways, PTL

(***************************************************************************)
(* However constructor, handlers, scheduler and crashes interleave, the    *)
(* agent uses its JobManager as the specification of JobManager allows.    *)
(***************************************************************************)
THEOREM AgentImplementsJobManager == Spec => ImplementsJobManager
<1>1. Init => JobInit
  BY DEF Init
<1>2. Base => Typed
  BY DEF Base
<1>3. QED
  BY <1>1, <1>2, BaseAlways, JobStep, PTL
     DEF Spec, ImplementsJobManager, JobSpec

-----------------------------------------------------------------------------
(* A task that is deleted does not stay scheduled, and once no copy of it  *)
(* is in flight it does not come back.                                     *)

\* Others keep their handler while the one of w changes.
OnlyHandlerOf(w) ==
  /\ workers' \in [Workers -> Handler \cup {Null}]
  /\ \A v \in Workers \ {w} : workers'[v] = workers[v]

OnlyRequestOf(p) == \A q \in Api \ {p} : api'[q] = api[q]

LEMMA HandlingKept ==
  ASSUME NEW w \in Workers, OnlyHandlerOf(w), NEW t, NEW pc, Handling(t, pc),
         workers[w] = Null \/ workers[w].id # t \/ workers[w].pc # pc
  PROVE  Handling(t, pc)'
  BY DEF OnlyHandlerOf, Handling

LEMMA TakeOnly ==
  ASSUME Typed, NEW w \in Workers, Take(w)
  PROVE  OnlyHandlerOf(w)
<1> DEFINE m == Head(queue)
<1>1. m \in Message
  BY HeadOfQueue
     DEF Take, AddTask, UpdateTask, EnableTask, DisableTask, DelTask, Takes,
         Typed, AgentPart
<1>2. /\ m.id \in Ids /\ m.task \in Task
      /\ [m.task EXCEPT !.status = "Active"] \in Task
      /\ [m.task EXCEPT !.status = "Inactive"] \in Task
  BY <1>1, SetStatusType DEF Message, Statuses
<1> HIDE DEF m
<1>3. \/ UNCHANGED workers
      \/ \E pc \in {"schedule", "save", "delrow"}, op \in Ops, task \in Task :
           Goes(w, pc, op, m.id, task)
  <2>1. \/ UNCHANGED workers
        \/ EntersAddTask(w, "add", m.id, m.task)
        \/ EntersAddTask(w, "update", m.id, m.task)
        \/ EntersAddTask(w, "enable", m.id, [m.task EXCEPT !.status = "Active"])
        \/ Goes(w, "save", "disable", m.id, [m.task EXCEPT !.status = "Inactive"])
        \/ Goes(w, "delrow", "del", m.id, m.task)
    BY DEF Take, AddTask, UpdateTask, EnableTask, DisableTask, DelTask, m
  <2>2. ASSUME NEW op \in Ops, NEW task \in Task,
               EntersAddTask(w, op, m.id, task)
        PROVE  \E pc \in {"schedule", "save", "delrow"} :
                 Goes(w, pc, op, m.id, task)
    BY <2>2 DEF EntersAddTask
  <2>3. QED
    BY <2>1, <2>2, <1>2 DEF Ops
<1>4. QED
  BY <1>2, <1>3, GoesType DEF OnlyHandlerOf, Typed, AgentPart, AgentTypeOK

LEMMA HandlerStepOnly ==
  ASSUME Typed, NEW w \in Workers, HandlerStep(w)
  PROVE  /\ OnlyHandlerOf(w)
         /\ workers[w] # Null /\ workers[w] \in Handler
         /\ workers[w].id \in Ids /\ workers[w].task \in Task
         /\ \/ workers'[w] = Null
            \/ /\ workers'[w].id = workers[w].id
               /\ workers'[w].op = workers[w].op
               /\ workers'[w].task = workers[w].task
<1> DEFINE h == workers[w]
<1>1. h \in Handler /\ h # Null
  BY HandlerType
     DEF HandlerStep, ScheduleTask, SaveTask, DelRow, UnscheduleTask, At, Typed,
         AgentPart
<1>2. h.id \in Ids /\ h.task \in Task /\ h.op \in Ops
  BY <1>1 DEF Handler
<1>3. \/ Ends(w)
      \/ \E pc \in {"save", "unschedule"} : Goes(w, pc, h.op, h.id, h.task)
  BY DEF HandlerStep, ScheduleTask, SaveTask, DelRow, UnscheduleTask
<1> HIDE DEF h
<1>4. /\ OnlyHandlerOf(w)
      /\ workers'[w] = Null
           \/ /\ workers'[w].id = h.id /\ workers'[w].op = h.op
              /\ workers'[w].task = h.task
  BY <1>2, <1>3, GoesType, EndsType DEF OnlyHandlerOf, Typed, AgentPart
<1>5. QED
  BY <1>1, <1>2, <1>4 DEF h

-----------------------------------------------------------------------------
(* No job without a row.                                                   *)

\* A job that can fire, left without a row and without a handler that would
\* mend it.
Orphan(t) == /\ sched[t] # Null /\ Fires(sched[t].task) /\ rows[t] = Null
             /\ ~Handling(t, "save") /\ ~Handling(t, "unschedule")

LEMMA NoOrphanEach == NoOrphanJob <=> \A t \in Ids : ~Orphan(t)
  BY DEF NoOrphanJob, Orphan

\* A step that takes no row away, gives no job and leaves the handlers.
LEMMA OrphanCalm ==
  ASSUME NEW t \in Ids, ~Orphan(t), rows[t] # Null => rows'[t] # Null,
         sched'[t] # Null => sched[t] # Null /\ sched'[t].task = sched[t].task,
         UNCHANGED workers \/ rows[t] # Null \/ sched[t] = Null
  PROVE  ~Orphan(t)'
  BY DEF Orphan, Handling

LEMMA OrphanInitTask ==
  ASSUME Typed, NEW t \in Ids, ~Orphan(t), NEW u \in Ids, InitTask(u)
  PROVE  ~Orphan(t)'
<1>1. rows[u] # Null /\ rows[u] \in Task
  BY InitTaskType DEF InitTask, Typed
<1>2. CASE AddJob(u, rows[u]) /\ UpdateRpttask(u, rows[u])
           /\ UNCHANGED workers
  BY <1>1, <1>2
     DEF AddJob, UpdateRpttask, Orphan, Handling, Typed, AgentPart,
         StoreTypeOK, JobTypeOK
<1>3. CASE UpdateRpttask(u, rows[u]) /\ UNCHANGED <<workers, jobVars>>
  BY <1>1, <1>3
     DEF UpdateRpttask, Orphan, Handling, Typed, AgentPart, StoreTypeOK,
         jobVars
<1>4. CASE Exit
  BY <1>4 DEF Exit, LoseJobs, Orphan
<1>5. QED
  BY <1>2, <1>3, <1>4 DEF InitTask

LEMMA OrphanTake ==
  ASSUME Typed, NEW t \in Ids, ~Orphan(t), NEW w \in Workers, Take(w)
  PROVE  ~Orphan(t)'
<1>1. OnlyHandlerOf(w) /\ workers[w] = Null /\ UNCHANGED rows
  BY TakeOnly
     DEF Take, AddTask, UpdateTask, EnableTask, DisableTask, DelTask, Takes
<1>2. sched'[t] # Null => sched[t] # Null /\ sched'[t].task = sched[t].task
  BY DEF Take, AddTask, UpdateTask, EnableTask, DisableTask, DelTask,
         DeleteJob, DisableJob, Unknown, jobVars, Typed, JobTypeOK, Job
<1>3. QED
  BY <1>1, <1>2, HandlingKept DEF Orphan

\* Of the task in hand, the end of del_task needs the two views of the job to
\* agree: delete_job does nothing for a job that self.jobs does not know.
LEMMA OrphanHandlerStep ==
  ASSUME Typed, NEW t \in Ids, Consistent(t), ~Orphan(t),
         NEW w \in Workers, HandlerStep(w)
  PROVE  ~Orphan(t)'
<1>1. PICK h \in Handler : h = workers[w]
  BY HandlerStepOnly
<1>2. /\ OnlyHandlerOf(w) /\ workers[w] = h /\ h # Null
      /\ h.id \in Ids /\ h.task \in Task /\ h.op \in Ops
  BY <1>1, HandlerStepOnly DEF Handler
<1>3. h.task # Null
  BY <1>2, TaskNotNull
<1> USE DEF Typed, JobTypeOK, AgentPart, StoreTypeOK
<1>4. ASSUME NEW pc \in {"save", "unschedule"}, Goes(w, pc, h.op, h.id, h.task)
      PROVE  Handling(h.id, pc)'
  BY <1>2, <1>4, GoesType DEF Handling
<1>5. CASE t # h.id
  <2>1. sched'[t] = sched[t] /\ rows'[t] = rows[t]
    BY <1>2, <1>5
       DEF HandlerStep, ScheduleTask, SaveTask, DelRow, UnscheduleTask, AddJob,
           DeleteJob, Unknown, jobVars, UpdateRpttask, DelRpttask
  <2>2. /\ Handling(t, "save") => Handling(t, "save")'
        /\ Handling(t, "unschedule") => Handling(t, "unschedule")'
    BY <1>2, <1>5, HandlingKept
  <2>3. QED
    BY <2>1, <2>2 DEF Orphan
<1>6. CASE t = h.id /\ ScheduleTask(w)
  <2>1. h.pc = "schedule" /\ UNCHANGED rows
    BY <1>2, <1>6 DEF ScheduleTask, At
  <2>2. CASE UNCHANGED sched
    <3>1. /\ Handling(t, "save") => Handling(t, "save")'
          /\ Handling(t, "unschedule") => Handling(t, "unschedule")'
      BY <1>2, <2>1, HandlingKept
    <3>2. QED
      BY <2>1, <2>2, <3>1 DEF Orphan
  <2>3. CASE Goes(w, "save", h.op, h.id, h.task)
    BY <1>4, <1>6, <2>3 DEF Orphan
  <2>4. CASE AddJob(h.id, h.task) /\ ~Fires(h.task)
    BY <1>2, <1>6, <2>4 DEF AddJob, Orphan
  <2>5. QED
    BY <1>2, <1>6, <2>2, <2>3, <2>4 DEF ScheduleTask, jobVars
<1>7. CASE t = h.id /\ SaveTask(w)
  BY <1>2, <1>3, <1>7 DEF SaveTask, UpdateRpttask, Orphan
<1>8. CASE t = h.id /\ DelRow(w)
  <2>1. Goes(w, "unschedule", h.op, h.id, h.task)
    BY <1>2, <1>8 DEF DelRow
  <2>2. QED
    BY <1>4, <1>8, <2>1 DEF Orphan
<1>9. CASE t = h.id /\ UnscheduleTask(w)
  <2>1. jobs[t] = Null => sched[t] = Null
    BY TaskNotNull DEF Consistent, Job
  <2>2. sched'[t] = Null
    BY <1>2, <1>9, <2>1
       DEF UnscheduleTask, DeleteJob, Unknown, LookupRaises, jobVars
  <2>3. QED
    BY <2>2 DEF Orphan
<1>10. QED
  BY <1>5, <1>6, <1>7, <1>8, <1>9 DEF HandlerStep

\* No step of the API takes a row away.
LEMMA ApiKeepsRows ==
  ASSUME Typed, ApiNext, NEW t \in Ids, rows[t] # Null
  PROVE  rows'[t] # Null
<1>1. PICK p \in Api :
        Post(p) \/ Put(p) \/ ListRequest(p) \/ ApiStep(p) \/ Die(p)
  BY DEF ApiNext
<1>2. CASE Insert(p)
  BY <1>2, InsertKeeps DEF Stored
<1>3. CASE UNCHANGED rows
  BY <1>3
<1>4. QED
  BY <1>1, <1>2, <1>3
     DEF Post, Put, ListRequest, Accepts, ApiStep, SendCast, Wake, Die

LEMMA OrphanNext ==
  ASSUME Typed, [Next]_vars, NEW t \in Ids, Consistent(t), ~Orphan(t)
  PROVE  ~Orphan(t)'
<1>1. CASE AgentStart
  BY <1>1, OrphanCalm, DefaultsAssumption, TaskNotNull
     DEF AgentStart, jobVars, Stored
<1>2. CASE ServeRpc
  BY <1>2, OrphanCalm DEF ServeRpc, jobVars
<1>3. ASSUME NEW u \in Ids, InitTask(u) PROVE ~Orphan(t)'
  BY <1>3, OrphanInitTask
<1>4. ASSUME NEW u \in Ids, RunOnce(u) PROVE ~Orphan(t)'
  BY <1>4, OrphanCalm DEF RunOnce, FinishOnce, agentVars, Typed, JobTypeOK
<1>5. ASSUME NEW w \in Workers, Take(w) PROVE ~Orphan(t)'
  BY <1>5, OrphanTake
<1>6. ASSUME NEW w \in Workers, HandlerStep(w) PROVE ~Orphan(t)'
  BY <1>6, OrphanHandlerStep
<1>7. CASE AgentCrashes
  BY <1>7 DEF AgentCrashes, Crash, Exit, LoseJobs, Orphan
<1>8. CASE ApiNext /\ UNCHANGED <<agentVars, jobVars, crashes>>
  BY <1>8, OrphanCalm, ApiKeepsRows DEF agentVars, jobVars
<1>9. CASE UNCHANGED vars
  BY <1>9, OrphanCalm DEF vars, agentVars, jobVars
<1>10. QED
  BY <1>1, <1>2, <1>3, <1>4, <1>5, <1>6, <1>7, <1>8, <1>9
     DEF Next, AgentNext

(***************************************************************************)
(* The order of the two halves of del_task and of _add_task keeps every    *)
(* scheduled job tied to a row, or to a handler about to write the row or  *)
(* to remove the job.                                                      *)
(***************************************************************************)
THEOREM NoOrphans == Spec => []NoOrphanJob
<1>1. Init => NoOrphanJob
  BY DEF Init, JobInit, NoOrphanJob
<1>2. Base /\ NoOrphanJob /\ [Next]_vars => NoOrphanJob'
  <2> SUFFICES ASSUME Base, NoOrphanJob, [Next]_vars PROVE NoOrphanJob'
    OBVIOUS
  <2>1. \A t \in Ids : ~Orphan(t)'
    BY NoOrphanEach, OrphanNext DEF Base
  <2>2. QED
    BY <2>1 DEF NoOrphanJob, Orphan
<1>3. QED
  BY <1>1, <1>2, BaseAlways, PTL DEF Spec

-----------------------------------------------------------------------------
(* A task that is gone stays gone.                                         *)

QueueCopy(t) == \E i \in DOMAIN queue : queue[i].id = t /\ queue[i].op # "del"

HandlerCopy(t) ==
  \E w \in Workers :
    workers[w] # Null /\ workers[w].id = t /\ workers[w].op # "del"

RequestCopy(t) ==
  \E p \in Api : /\ api[p] # Null /\ api[p].id = t
                 /\ api[p].pc # "sleep" /\ api[p].op # "del"

LEMMA GoneParts ==
  \A t : Gone(t) <=> /\ t \in drawn /\ rows[t] = Null
                     /\ ~QueueCopy(t) /\ ~HandlerCopy(t) /\ ~RequestCopy(t)
  BY DEF Gone, Copied, QueueCopy, HandlerCopy, RequestCopy

LEMMA NoHandlerCopy ==
  ASSUME NEW w \in Workers, OnlyHandlerOf(w), NEW t, ~HandlerCopy(t),
         \/ workers'[w] = Null
         \/ workers'[w].id # t
         \/ workers'[w].op = "del"
  PROVE  ~HandlerCopy(t)'
  BY DEF OnlyHandlerOf, HandlerCopy

LEMMA NoRequestCopy ==
  ASSUME NEW p \in Api, OnlyRequestOf(p), NEW t, ~RequestCopy(t),
         \/ api'[p] = Null
         \/ api'[p].id # t
         \/ api'[p].pc = "sleep"
         \/ api'[p].op = "del"
  PROVE  ~RequestCopy(t)'
  BY DEF OnlyRequestOf, RequestCopy

LEMMA GoneTake ==
  ASSUME Typed, NEW w \in Workers, Take(w), NEW t \in Ids, Gone(t)
  PROVE  ~QueueCopy(t)' /\ ~HandlerCopy(t)' /\ UNCHANGED rows
<1> DEFINE m == Head(queue)
<1>1. /\ OnlyHandlerOf(w) /\ UNCHANGED rows
      /\ queue # <<>> /\ queue' = Tail(queue) /\ queue \in Seq(Message)
  BY TakeOnly
     DEF Take, AddTask, UpdateTask, EnableTask, DisableTask, DelTask, Takes,
         Typed, AgentPart, RpcTypeOK
<1>2. ~QueueCopy(t) /\ ~HandlerCopy(t)
  BY GoneParts
<1>3. ~QueueCopy(t)'
  <2>1. \A i \in DOMAIN Tail(queue) :
          i + 1 \in DOMAIN queue /\ Tail(queue)[i] = queue[i + 1]
    BY <1>1
  <2>2. QED
    BY <1>1, <1>2, <2>1 DEF QueueCopy
<1>4. m.id # t \/ m.op = "del"
  <2>1. 1 \in DOMAIN queue /\ m = queue[1]
    BY <1>1
  <2>2. QED
    BY <1>2, <2>1 DEF QueueCopy
<1>5. m \in Message /\ m.id \in Ids /\ m.task \in Task
  BY <1>1, HeadOfQueue DEF Message, RpcTypeOK
<1>6. /\ [m.task EXCEPT !.status = "Active"] \in Task
      /\ [m.task EXCEPT !.status = "Inactive"] \in Task
  BY <1>5, SetStatusType DEF Statuses
<1> HIDE DEF m
<1>7. \/ UNCHANGED workers
      \/ \E pc \in {"schedule", "save"}, op \in Ops, task \in Task :
           Goes(w, pc, op, m.id, task) /\ m.op # "del"
      \/ Goes(w, "delrow", "del", m.id, m.task)
  <2>1. \/ UNCHANGED workers
        \/ EntersAddTask(w, "add", m.id, m.task) /\ m.op = "add"
        \/ EntersAddTask(w, "update", m.id, m.task) /\ m.op = "update"
        \/ /\ EntersAddTask(w, "enable", m.id,
                            [m.task EXCEPT !.status = "Active"])
           /\ m.op = "enable"
        \/ /\ Goes(w, "save", "disable", m.id,
                   [m.task EXCEPT !.status = "Inactive"])
           /\ m.op = "disable"
        \/ Goes(w, "delrow", "del", m.id, m.task)
    BY DEF Take, AddTask, UpdateTask, EnableTask, DisableTask, DelTask, Takes,
           m
  <2>2. ASSUME NEW op \in Ops, NEW task \in Task,
               EntersAddTask(w, op, m.id, task)
        PROVE  \E pc \in {"schedule", "save"} : Goes(w, pc, op, m.id, task)
    BY <2>2 DEF EntersAddTask
  <2>3. QED
    BY <2>1, <2>2, <1>5, <1>6 DEF Ops
<1>8. ~HandlerCopy(t)'
  <2>1. CASE UNCHANGED workers
    BY <1>2, <2>1 DEF HandlerCopy
  <2>2. ASSUME NEW pc \in {"schedule", "save"}, NEW op \in Ops,
               NEW task \in Task, Goes(w, pc, op, m.id, task), m.op # "del"
        PROVE  ~HandlerCopy(t)'
    <3>1. workers'[w].id = m.id
      BY <1>5, <2>2, GoesType DEF Typed, AgentPart
    <3>2. QED
      BY <1>1, <1>2, <1>4, <2>2, <3>1, NoHandlerCopy
  <2>3. CASE Goes(w, "delrow", "del", m.id, m.task)
    <3>1. workers'[w].op = "del"
      BY <1>5, <2>3, GoesType DEF Typed, AgentPart, Ops
    <3>2. QED
      BY <1>1, <1>2, <3>1, NoHandlerCopy
  <2>4. QED
    BY <1>7, <2>1, <2>2, <2>3
<1>9. QED
  BY <1>1, <1>3, <1>8

LEMMA GoneHandlerStep ==
  ASSUME Typed, NEW w \in Workers, HandlerStep(w), NEW t \in Ids, Gone(t)
  PROVE  rows'[t] = Null /\ ~HandlerCopy(t)' /\ UNCHANGED queue
<1>1. ~HandlerCopy(t) /\ rows[t] = Null
  BY GoneParts
<1>2. workers[w].id # t \/ workers[w].op = "del"
  BY <1>1, HandlerStepOnly DEF HandlerCopy
<1>3. ~HandlerCopy(t)'
  BY <1>1, <1>2, HandlerStepOnly, NoHandlerCopy
<1>4. CASE UNCHANGED rows
  BY <1>1, <1>3, <1>4 DEF HandlerStep, ScheduleTask, SaveTask, DelRow,
                          UnscheduleTask, At
<1>5. CASE SaveTask(w)
  <2>1. workers[w].id # t
    BY <1>2, <1>5, HandlerStepOnly
       DEF SaveTask, At, Typed, AgentPart, HandlersWrite
  <2>2. QED
    BY <1>1, <1>3, <1>5, <2>1
       DEF SaveTask, At, UpdateRpttask, Typed, AgentPart, StoreTypeOK
<1>6. CASE DelRow(w)
  BY <1>1, <1>3, <1>6
     DEF DelRow, At, DelRpttask, Typed, AgentPart, StoreTypeOK
<1>7. QED
  BY <1>4, <1>5, <1>6 DEF HandlerStep, ScheduleTask, UnscheduleTask

LEMMA GoneAgent ==
  ASSUME Typed, AgentNext \/ AgentCrashes, UNCHANGED apiVars,
         NEW t \in Ordinary, Gone(t)
  PROVE  Gone(t)'
<1>1. /\ t \in Ids /\ t \notin DOMAIN DefaultTasks
      /\ t \in drawn /\ rows[t] = Null
      /\ ~QueueCopy(t) /\ ~HandlerCopy(t) /\ ~RequestCopy(t)
  BY GoneParts DEF Ordinary
<1>2. t \in drawn' /\ ~RequestCopy(t)'
  BY <1>1 DEF apiVars, RequestCopy
<1>3. ASSUME rows'[t] = Null, ~QueueCopy(t)', ~HandlerCopy(t)'
      PROVE  Gone(t)'
  BY <1>2, <1>3 DEF Gone, Copied, QueueCopy, HandlerCopy, RequestCopy
<1> USE DEF Typed, AgentPart, StoreTypeOK
<1>4. CASE AgentStart
  <2>1. rows'[t] = Null
    BY <1>1, <1>4 DEF AgentStart
  <2>2. ~QueueCopy(t)' /\ ~HandlerCopy(t)'
    BY <1>1, <1>4 DEF AgentStart, QueueCopy, HandlerCopy
  <2>3. QED
    BY <1>3, <2>1, <2>2
<1>5. CASE ServeRpc \/ (\E u \in Ids : RunOnce(u))
  <2>1. UNCHANGED <<rows, queue, workers>>
    BY <1>5 DEF ServeRpc, RunOnce, agentVars
  <2>2. QED
    BY <1>1, <1>3, <2>1 DEF QueueCopy, HandlerCopy
<1>6. ASSUME NEW u \in Ids, InitTask(u) PROVE Gone(t)'
  <2>1. t # u
    BY <1>1, <1>6, InitTaskType DEF InitTask
  <2>2. rows'[t] = Null
    BY <1>1, <1>6, <2>1 DEF InitTask, UpdateRpttask
  <2>3. UNCHANGED queue
    BY <1>6 DEF InitTask
  <2>4. UNCHANGED workers \/ \A w \in Workers : workers'[w] = Null
    BY <1>6 DEF InitTask, Exit
  <2>5. ~QueueCopy(t)' /\ ~HandlerCopy(t)'
    BY <1>1, <2>3, <2>4 DEF QueueCopy, HandlerCopy
  <2>6. QED
    BY <1>3, <2>2, <2>5
<1>7. ASSUME NEW w \in Workers, Take(w) PROVE Gone(t)'
  BY <1>1, <1>3, <1>7, GoneTake
<1>8. ASSUME NEW w \in Workers, HandlerStep(w) PROVE Gone(t)'
  <2>1. rows'[t] = Null /\ ~HandlerCopy(t)' /\ UNCHANGED queue
    BY <1>1, <1>8, GoneHandlerStep
  <2>2. QED
    BY <1>1, <1>3, <2>1 DEF QueueCopy
<1>9. CASE AgentCrashes
  <2>1. UNCHANGED <<rows, queue>> /\ \A w \in Workers : workers'[w] = Null
    BY <1>9 DEF AgentCrashes, Crash, Exit
  <2>2. QED
    BY <1>1, <1>3, <2>1 DEF QueueCopy, HandlerCopy
<1>10. QED
  BY <1>4, <1>5, <1>6, <1>7, <1>8, <1>9 DEF AgentNext

LEMMA GoneNextOfList ==
  ASSUME Typed, NEW p \in Api, NEW op \in Ops, NEW ids \in Seq(Ids),
         NextOfList(p, op, ids), NEW t \in Ids, Gone(t)
  PROVE  ~RequestCopy(t)'
<1>1. rows[t] = Null /\ ~RequestCopy(t)
  BY GoneParts
<1>2. CASE Answers(p)
  BY <1>1, <1>2, AnswersType, NoRequestCopy
     DEF OnlyRequestOf, Typed, ApiPart
<1>3. ASSUME NEW u \in Ids, NEW rest \in Seq(Ids), rows[u] # Null,
             rows[u] \in Task, Serves(p, "cast", op, u, rows[u], rest)
      PROVE  ~RequestCopy(t)'
  <2>1. OnlyRequestOf(p) /\ api'[p].id = u
    BY <1>3, ServesType DEF OnlyRequestOf, Typed, ApiPart
  <2>2. QED
    BY <1>1, <1>3, <2>1, NoRequestCopy
<1>4. QED
  BY <1>2, <1>3, NextOfListCases DEF Typed, AgentPart

LEMMA GoneRequest ==
  ASSUME Typed, NEW p \in Api, Post(p) \/ Put(p) \/ ListRequest(p),
         NEW t \in Ordinary, Gone(t)
  PROVE  t \in drawn' /\ ~RequestCopy(t)' /\ UNCHANGED <<rows, queue>>
<1>1. /\ t \in Ids /\ t \in drawn /\ rows[t] = Null /\ ~RequestCopy(t)
      /\ \A patch \in Patches : patch.id # t
  BY GoneParts DEF Ordinary
<1>2. ASSUME NEW pc \in {"insert", "cast"}, NEW op \in Ops, NEW u \in Ids,
             u # t, NEW task \in Task, NEW rest \in Seq(Ids),
             Serves(p, pc, op, u, task, rest)
      PROVE  ~RequestCopy(t)'
  <2>1. ApiTypeOK /\ pc \in {"insert", "cast", "sleep"}
    BY <1>2 DEF Typed, ApiPart
  <2>2. OnlyRequestOf(p) /\ api'[p].id = u
    BY <1>2, <2>1, ServesType DEF OnlyRequestOf
  <2>3. QED
    BY <1>1, <1>2, <2>2, NoRequestCopy
<1>3. <<>> \in Seq(Ids)
  OBVIOUS
<1>4. CASE Post(p)
  <2>1. PICK task \in PostTasks, u \in Ids \ drawn :
          /\ Serves(p, "insert", "add", u, task, <<>>)
          /\ drawn' = drawn \cup {u}
    BY <1>4 DEF Post
  <2>2. ~RequestCopy(t)'
    <3>1. task \in Task /\ u \in Ids /\ u # t /\ "add" \in Ops
      BY <1>1, <2>1, ApiAssumption DEF Ops
    <3>2. QED
      BY <1>2, <1>3, <2>1, <3>1
  <2>3. QED
    BY <1>1, <1>4, <2>1, <2>2 DEF Post, Accepts
<1>5. CASE Put(p)
  <2>1. PICK u \in Stored, patch \in Patches :
          /\ Serves(p, "cast", "update", Pick(patch.id, u),
                    Patched(rows[u], patch), <<>>)
          /\ drawn' = drawn \cup {Pick(patch.id, u)}
    BY <1>5 DEF Put
  <2>2. patch \in Patch /\ u \in Ids /\ u # t /\ rows[u] \in Task
    BY <1>1, <2>1, ApiAssumption
       DEF Stored, Typed, AgentPart, StoreTypeOK
  <2>3. Pick(patch.id, u) # t /\ Pick(patch.id, u) \in Ids
    BY <1>1, <2>1, <2>2 DEF Pick, Patch
  <2>4. Patched(rows[u], patch) \in Task
    BY <2>2, PatchedType
  <2>5. ~RequestCopy(t)'
    BY <1>2, <1>3, <2>1, <2>3, <2>4 DEF Ops
  <2>6. QED
    BY <1>1, <1>5, <2>1, <2>5 DEF Put, Accepts
<1>6. CASE ListRequest(p)
  <2>1. PICK op \in {"enable", "disable", "del"}, ids \in IdLists :
          NextOfList(p, op, ids)
    BY <1>6 DEF ListRequest
  <2>2. ~RequestCopy(t)'
    BY <1>1, <2>1, GoneNextOfList, ApiAssumption DEF Ops
  <2>3. QED
    BY <1>1, <1>6, <2>2 DEF ListRequest, Accepts
<1>7. QED
  BY <1>4, <1>5, <1>6

LEMMA GoneSendCast ==
  ASSUME Typed, NEW p \in Api, SendCast(p), NEW t \in Ids, Gone(t)
  PROVE  ~RequestCopy(t)' /\ ~QueueCopy(t)'
<1> DEFINE m == [op |-> api[p].op, id |-> api[p].id, task |-> api[p].task]
<1>1. ~RequestCopy(t) /\ ~QueueCopy(t)
  BY GoneParts
<1>2. /\ api[p] # Null /\ api[p].pc = "cast"
      /\ api[p].id \in Ids /\ api[p].task \in Task /\ api[p].op \in Ops
      /\ api[p].rest \in Seq(Ids)
  BY RequestType DEF SendCast, Typed, ApiPart
<1>3. api[p].id # t \/ api[p].op = "del"
  BY <1>1, <1>2 DEF RequestCopy
<1>4. ~QueueCopy(t)'
  <2>1. m \in Message /\ queue \in Seq(Message) /\ (m.id # t \/ m.op = "del")
    BY <1>2, <1>3 DEF Message, Typed, AgentPart, RpcTypeOK
  <2>2. queue' = Append(queue, m)
    BY DEF SendCast, Cast
  <2> HIDE DEF m
  <2>3. \A i \in DOMAIN queue' :
          (i \in DOMAIN queue /\ queue'[i] = queue[i]) \/ queue'[i] = m
    BY <2>1, <2>2
  <2>4. QED
    BY <1>1, <2>1, <2>3 DEF QueueCopy
<1>5. CASE api[p].op = "del"
  BY <1>2, <1>4, <1>5, GoneNextOfList DEF SendCast
<1>6. CASE api[p].op # "del"
  <2>1. OnlyRequestOf(p) /\ api'[p].pc = "sleep"
    BY <1>2, <1>6, ServesType DEF SendCast, OnlyRequestOf, Typed, ApiPart
  <2>2. QED
    BY <1>1, <1>4, <2>1, NoRequestCopy
<1>7. QED
  BY <1>5, <1>6

LEMMA GoneApi ==
  ASSUME Typed, ApiNext, UNCHANGED <<agentVars, jobVars, crashes>>,
         NEW t \in Ordinary, Gone(t)
  PROVE  Gone(t)'
<1>1. /\ t \in Ids /\ t \in drawn /\ rows[t] = Null
      /\ ~QueueCopy(t) /\ ~HandlerCopy(t) /\ ~RequestCopy(t)
  BY GoneParts DEF Ordinary
<1>2. ~HandlerCopy(t)'
  BY <1>1 DEF HandlerCopy, agentVars
<1>3. ASSUME t \in drawn', rows'[t] = Null, ~QueueCopy(t)', ~RequestCopy(t)'
      PROVE  Gone(t)'
  BY <1>2, <1>3 DEF Gone, Copied, QueueCopy, HandlerCopy, RequestCopy
<1>4. UNCHANGED queue => ~QueueCopy(t)'
  BY <1>1 DEF QueueCopy
<1>5. PICK p \in Api :
        Post(p) \/ Put(p) \/ ListRequest(p) \/ ApiStep(p) \/ Die(p)
  BY DEF ApiNext
<1>6. CASE Post(p) \/ Put(p) \/ ListRequest(p)
  BY <1>1, <1>3, <1>4, <1>6, GoneRequest
<1>7. CASE Insert(p)
  <2>1. api[p].id # t
    BY <1>1, <1>7 DEF Insert, RequestCopy, Typed, ApiPart, RequestsWrite
  <2>2. rows'[t] = Null
    BY <1>1, <1>7, <2>1
       DEF Insert, AddRpttask, Typed, AgentPart, StoreTypeOK
  <2>3. OnlyRequestOf(p) /\ api'[p].id # t
    <3>1. api[p] \in Request
      BY <1>7, RequestType DEF Insert, Typed, ApiPart
    <3>2. QED
      BY <1>7, <2>1, <3>1
         DEF Insert, OnlyRequestOf, Typed, ApiPart, ApiTypeOK, Request
  <2>4. ~RequestCopy(t)'
    BY <1>1, <2>3, NoRequestCopy
  <2>5. QED
    BY <1>1, <1>3, <1>4, <1>7, <2>2, <2>4 DEF Insert
<1>8. CASE SendCast(p)
  BY <1>1, <1>3, <1>8, GoneSendCast DEF SendCast
<1>9. CASE Wake(p)
  <2>1. api[p].op \in Ops /\ api[p].rest \in Seq(Ids)
    BY <1>9, RequestType DEF Wake, Typed, ApiPart
  <2>2. ~RequestCopy(t)'
    BY <1>1, <1>9, <2>1, GoneNextOfList DEF Wake
  <2>3. QED
    BY <1>1, <1>3, <1>4, <1>9, <2>2 DEF Wake
<1>10. CASE Die(p)
  <2>1. OnlyRequestOf(p) /\ api'[p] = Null
    BY <1>10, AnswersType DEF Die, OnlyRequestOf, Typed, ApiPart
  <2>2. ~RequestCopy(t)'
    BY <1>1, <2>1, NoRequestCopy
  <2>3. QED
    BY <1>1, <1>3, <1>4, <1>10, <2>2 DEF Die
<1>11. QED
  BY <1>5, <1>6, <1>7, <1>8, <1>9, <1>10 DEF ApiStep

LEMMA GoneNext ==
  ASSUME Typed, [Next]_vars, NEW t \in Ordinary, Gone(t)
  PROVE  Gone(t)'
<1>1. CASE AgentNext /\ UNCHANGED <<apiVars, crashes>>
  BY <1>1, GoneAgent
<1>2. CASE AgentCrashes /\ UNCHANGED apiVars
  BY <1>2, GoneAgent
<1>3. CASE ApiNext /\ UNCHANGED <<agentVars, jobVars, crashes>>
  BY <1>3, GoneApi
<1>4. CASE UNCHANGED vars
  BY <1>4 DEF vars, agentVars, apiVars, Gone, Copied
<1>5. QED
  BY <1>1, <1>2, <1>3, <1>4 DEF Next

(***************************************************************************)
(* Once a deleted task has no row and no copy in flight, no interleaving   *)
(* of requests, handlers, restarts and one-time runs brings it back.       *)
(***************************************************************************)
THEOREM DeletedStaysGone == Spec => GoneForGood
<1>1. Base /\ [Next]_vars => [\A t \in Ordinary : Gone(t) => Gone(t)']_vars
  BY GoneNext DEF Base
<1>2. QED
  BY <1>1, BaseAlways, PTL DEF Spec, GoneForGood

-----------------------------------------------------------------------------
(* A process that restarts in place.                                       *)

\* Between processes there is no job, and only the RPC server runs handlers.
Quiet ==
  /\ agent = "down" => \A t \in Ids : jobs[t] = Null /\ sched[t] = Null
  /\ agent # "up" => \A w \in Workers : workers[w] = Null

\* The inductive invariant of OnlyTheCut: what Spec keeps of every task,
\* ProcSpec keeps of those whose handler was left alone.
ProcInv ==
  /\ Typed /\ Quiet
  /\ \A t \in Ids \ cut : Consistent(t) /\ ~Orphan(t)

LEMMA ExitQuiet ==
  ASSUME Exit
  PROVE  Quiet' /\ \A t \in Ids : Consistent(t)' /\ ~Orphan(t)'
  BY DEF Exit, LoseJobs, Quiet, Consistent, LookupRaises, Orphan

LEMMA DownQuiet ==
  ASSUME Quiet, agent = "down", NEW t \in Ids
  PROVE  Consistent(t) /\ ~Orphan(t)
  BY DEF Quiet, Consistent, LookupRaises, Orphan

LEMMA ExitTyped ==
  ASSUME Typed, Exit, UNCHANGED <<rows, queue, apiVars>>, crashes' \in Nat
  PROVE  Typed'
<1>1. JobTypeOK'
  BY LoseJobsKeeps DEF Exit, JobKeeps
<1>2. AgentPart'
  BY DEF Typed, Exit, AgentPart, StoreTypeOK, RpcTypeOK, AgentTypeOK,
         TodoStored, Stored, HandlersWrite
<1>3. QED
  BY <1>1, <1>2, ApiPartSame DEF Typed

LEMMA QuietNext == Typed /\ Quiet /\ [Next]_vars => Quiet'
<1> SUFFICES ASSUME Typed, Quiet, [Next]_vars PROVE Quiet'
  OBVIOUS
<1>1. CASE Exit
  BY <1>1, ExitQuiet
<1>2. CASE AgentStart \/ ServeRpc
  BY <1>2 DEF AgentStart, ServeRpc, Quiet
<1>3. ASSUME NEW t \in Ids, InitTask(t), ~Exit PROVE Quiet'
  BY <1>3 DEF InitTask, Quiet
<1>4. ASSUME NEW t \in Ids, RunOnce(t) PROVE Quiet'
  BY <1>4 DEF RunOnce, FinishOnce, agentVars, Quiet, Typed, JobTypeOK
<1>5. ASSUME NEW w \in Workers, Take(w) \/ HandlerStep(w) PROVE Quiet'
  <2>1. agent = "up" /\ agent' = "up"
    BY <1>5 DEF Take, AddTask, UpdateTask, EnableTask, DisableTask, DelTask,
                Takes, HandlerStep, ScheduleTask, SaveTask, DelRow,
                UnscheduleTask, At
  <2>2. QED
    BY <2>1 DEF Quiet
<1>6. CASE UNCHANGED <<agentVars, jobVars>>
  BY <1>6 DEF agentVars, jobVars, Quiet
<1>7. QED
  BY <1>1, <1>2, <1>3, <1>4, <1>5, <1>6
     DEF Next, AgentNext, AgentCrashes, Crash, vars

LEMMA ProcStep ==
  ASSUME ProcInv, [Next]_vars, agent' = "down" \/ cut' = cut
  PROVE  ProcInv'
<1>1. Typed' /\ Quiet'
  BY TypedNext, QuietNext DEF ProcInv
<1>2. ASSUME NEW t \in Ids, t \notin cut PROVE Consistent(t)' /\ ~Orphan(t)'
  BY <1>2, JobStep, JobNextKeeps, OrphanNext DEF ProcInv, Typed, JobKeeps
<1>3. ASSUME agent' = "down", NEW t \in Ids
      PROVE  Consistent(t)' /\ ~Orphan(t)'
  BY <1>1, <1>3 DEF Quiet, Consistent, LookupRaises, Orphan
<1>4. QED
  BY <1>1, <1>2, <1>3 DEF ProcInv

LEMMA ProcExit ==
  ASSUME ProcInv, Exit, UNCHANGED <<rows, queue, apiVars>>, crashes' \in Nat
  PROVE  ProcInv'
  BY ExitQuiet, ExitTyped DEF ProcInv

\* A signal in a handler touches the job of the task it had in hand, if any,
\* and that task is in cut from now on.
CutsOnly(t) ==
  /\ t \in cut' /\ cut \subseteq cut'
  /\ \A u \in Ids \ {t} : sched'[u] = sched[u]
  /\ \A u \in Ids \ {t} : \A pc \in {"save", "unschedule"} :
       Handling(u, pc) => Handling(u, pc)'

LEMMA CutKeeps ==
  ASSUME ProcInv, NEW t \in Ids, CutsOnly(t), UNCHANGED <<jobs, rows>>,
         Typed', Quiet'
  PROVE  ProcInv'
  BY DEF ProcInv, CutsOnly, Consistent, LookupRaises, Orphan

LEMMA CutHandlerKeeps ==
  ASSUME ProcInv, NEW w \in Workers, CutHandler(w),
         UNCHANGED <<agent, todo, rows, apiVars, crashes>>
  PROVE  ProcInv'
<1> DEFINE h == workers[w]
<1>1. h \in Handler /\ h.id \in Ids /\ h.task \in Task /\ agent = "up"
  BY HandlerType
     DEF CutHandler, ProcInv, Quiet, Typed, AgentPart, Handler
<1>2. /\ workers' = [workers EXCEPT ![w] = Null]
      /\ cut' = cut \cup {h.id} /\ UNCHANGED <<queue, jobs>>
  BY DEF CutHandler
<1> DEFINE new == [task |-> h.task, paused |-> ~Fires(h.task)]
<1>3. /\ new \in Job
      /\ \/ UNCHANGED sched
         \/ sched' = [sched EXCEPT ![h.id] = new]
         \/ sched' = [sched EXCEPT ![h.id] = Null]
  BY <1>1 DEF CutHandler, Job, Fires
<1> HIDE DEF h, new
<1>4. sched' \in [Ids -> Job \cup {Null}]
      /\ \A u \in Ids \ {h.id} : sched'[u] = sched[u]
  BY <1>1, <1>3 DEF ProcInv, Typed, JobTypeOK
<1>5. workers' \in [Workers -> Handler \cup {Null}]
      /\ workers'[w] = Null
      /\ \A v \in Workers \ {w} : workers'[v] = workers[v]
  BY <1>2 DEF ProcInv, Typed, AgentPart, AgentTypeOK
<1>6. AgentPart'
  BY <1>2, <1>5
     DEF ProcInv, Typed, AgentPart, StoreTypeOK, RpcTypeOK, AgentTypeOK,
         TodoStored, Stored, HandlersWrite
<1>7. Typed'
  BY <1>2, <1>4, <1>6, ApiPartSame DEF ProcInv, Typed, JobTypeOK
<1>8. Quiet'
  BY <1>1 DEF Quiet
<1>9. CutsOnly(h.id)
  BY <1>2, <1>4, <1>5 DEF CutsOnly, Handling, h
<1>10. QED
  BY <1>1, <1>2, <1>7, <1>8, <1>9, CutKeeps

LEMMA CutAtOnceKeeps ==
  ASSUME ProcInv, NEW w \in Workers, CutAtOnce(w),
         UNCHANGED <<agent, todo, rows, apiVars, crashes>>
  PROVE  ProcInv'
<1> DEFINE m == Head(queue)
<1>1. /\ m \in Message /\ m.id \in Ids /\ queue' \in Seq(Message)
      /\ cut' = cut \cup {m.id} /\ UNCHANGED <<workers, jobs>>
  BY HeadOfQueue DEF CutAtOnce, ProcInv, Typed, AgentPart, Message
<1>2. \/ UNCHANGED sched
      \/ sched' = [sched EXCEPT ![m.id] = Null]
  BY DEF CutAtOnce
<1> HIDE DEF m
<1>3. /\ sched' \in [Ids -> Job \cup {Null}]
      /\ \A u \in Ids : sched'[u] # Null => sched[u] # Null
      /\ \A u \in Ids \ {m.id} : sched'[u] = sched[u]
  BY <1>1, <1>2 DEF ProcInv, Typed, JobTypeOK
<1>4. AgentPart'
  BY <1>1
     DEF ProcInv, Typed, AgentPart, StoreTypeOK, RpcTypeOK, AgentTypeOK,
         TodoStored, Stored, HandlersWrite
<1>5. Typed'
  BY <1>1, <1>3, <1>4, ApiPartSame DEF ProcInv, Typed, JobTypeOK
<1>6. Quiet'
  BY <1>1, <1>3 DEF ProcInv, Quiet
<1>7. CutsOnly(m.id)
  BY <1>1, <1>3 DEF CutsOnly, Handling
<1>8. QED
  BY <1>1, <1>5, <1>6, <1>7, CutKeeps

LEMMA ProcSame ==
  ASSUME ProcInv, UNCHANGED <<vars, cut>>
  PROVE  ProcInv'
  BY ProcStep DEF ProcInv

LEMMA SignalKeeps ==
  ASSUME ProcInv, NEW s, Signal(s)
  PROVE  ProcInv'
<1>1. CASE Kills
  BY <1>1, ProcExit DEF Signal, Kills, Crash, ProcInv, Typed
<1>2. CASE Caught(s)
  <2>1. CASE UNCHANGED <<workers, sched, jobs, queue, cut>>
    BY <1>2, <2>1, ProcSame DEF Caught, Signal, vars, agentVars, jobVars
  <2>2. ASSUME NEW w \in Workers, CutHandler(w) \/ CutAtOnce(w) PROVE ProcInv'
    BY <1>2, <2>2, CutHandlerKeeps, CutAtOnceKeeps DEF Caught, Signal
  <2>3. QED
    BY <1>2, <2>1, <2>2 DEF Caught
<1>3. QED
  BY <1>1, <1>2 DEF Signal

LEMMA ProcInvInit == ProcInit => ProcInv
  BY TypedInit
     DEF ProcInit, Init, JobInit, AgentInit, ProcInv, Quiet, Consistent,
         LookupRaises, Orphan

LEMMA ProcInvNext == ProcInv /\ [ProcNext]_<<vars, procVars>> => ProcInv'
<1> SUFFICES ASSUME ProcInv, [ProcNext]_<<vars, procVars>> PROVE ProcInv'
  OBVIOUS
<1>1. CASE ServiceStep
  <2>1. Next
    BY <1>1 DEF ServiceStep, Next, AgentNext
  <2>2. agent' = "down" \/ cut' = cut
    BY <1>1 DEF ServiceStep
  <2>3. QED
    BY <2>1, <2>2, ProcStep
<1>2. CASE RunService
  <2>1. CASE ServeRpc
    BY <1>2, <2>1, ProcStep DEF RunService, Next, AgentNext
  <2>2. CASE UNCHANGED <<agentVars, jobVars, rows, queue>>
    BY <1>2, <2>2, ProcSame DEF RunService, vars
  <2>3. QED
    BY <1>2, <2>1, <2>2 DEF RunService
<1>3. CASE EntersWait \/ Restart
  BY <1>3, ProcSame DEF EntersWait, Restart
<1>4. ASSUME NEW s, Signal(s) PROVE ProcInv'
  BY <1>4, SignalKeeps
<1>5. CASE Stopped
  <2>1. CASE UNCHANGED <<cut, agentVars, jobVars>>
    BY <1>5, <2>1, ProcSame DEF Stopped, vars
  <2>2. CASE Exit
    BY <1>5, <2>2, ProcExit DEF Stopped, ProcInv, Typed
  <2>3. QED
    BY <1>5, <2>1, <2>2 DEF Stopped
<1>6. CASE AgentCrashes /\ UNCHANGED apiVars
  BY <1>6, ProcStep DEF Next, AgentCrashes, Crash, Exit
<1>7. CASE ApiNext /\ UNCHANGED <<agentVars, jobVars, crashes, procVars>>
  BY <1>7, ProcStep DEF Next, procVars
<1>8. CASE UNCHANGED <<vars, procVars>>
  BY <1>8, ProcSame DEF procVars
<1>9. QED
  BY <1>1, <1>2, <1>3, <1>4, <1>5, <1>6, <1>7, <1>8 DEF ProcNext

(***************************************************************************)
(* However often signals stop and restart the agent in place, a task whose *)
(* handlers they left alone has its job, its entry in self.jobs and its    *)
(* row as in an agent that is never signalled.                             *)
(***************************************************************************)
THEOREM CutHurtsNoOther == ProcSpec => []OnlyTheCut
<1>1. ProcInv => OnlyTheCut
  <2> SUFFICES ASSUME ProcInv, NEW t \in Ids \ cut
      PROVE /\ sched[t] # Null => jobs[t] = sched[t].task
            /\ sched[t] # Null /\ Fires(sched[t].task) =>
                 \/ rows[t] # Null
                 \/ Handling(t, "save")
                 \/ Handling(t, "unschedule")
            /\ jobs[t] # Null /\ jobs[t].kind = "cron" => sched[t] # Null
    BY DEF OnlyTheCut
  <2>1. Consistent(t) /\ ~Orphan(t)
    BY DEF ProcInv
  <2>2. jobs[t] # Null /\ sched[t] = Null => jobs[t].kind # "cron"
    BY <2>1 DEF Consistent, LookupRaises
  <2>3. QED
    BY <2>1, <2>2 DEF Consistent, Orphan
<1>2. QED
  BY <1>1, ProcInvInit, ProcInvNext, PTL DEF ProcSpec

(***************************************************************************)
(* A row that inittasks cannot pass, and that is still before it while the *)
(* constructor runs, keeps the agent from coming up.                       *)
(***************************************************************************)
PinnedBy(t) ==
  /\ agent # "up"
  /\ rows[t] # Null /\ rows[t].status = "Active" /\ ~Fires(rows[t])
  /\ agent = "init" => t \in todo

LEMMA PinnedNext ==
  ASSUME ProcInv, [Next]_vars, NEW t \in Ids, PinnedBy(t)
  PROVE  PinnedBy(t)'
<1> USE DEF ProcInv, Typed, AgentPart, StoreTypeOK
<1>1. CASE AgentStart
  BY <1>1 DEF AgentStart, PinnedBy, Stored, Fires
<1>2. CASE ServeRpc
  BY <1>2 DEF ServeRpc, PinnedBy
<1>3. ASSUME NEW u \in Ids, InitTask(u) PROVE PinnedBy(t)'
  <2>1. CASE Exit /\ UNCHANGED rows
    BY <2>1 DEF Exit, PinnedBy
  <2>2. CASE UpdateRpttask(u, rows[u]) /\ todo' = todo \ {u}
             /\ UNCHANGED agent /\ (rows[u].status # "Active" \/ Fires(rows[u]))
    BY <2>2 DEF UpdateRpttask, PinnedBy, Fires
  <2>3. QED
    BY <1>3, <2>1, <2>2 DEF InitTask
<1>4. ASSUME NEW u \in Ids, RunOnce(u) PROVE PinnedBy(t)'
  BY <1>4 DEF RunOnce, agentVars, PinnedBy
<1>5. ASSUME NEW w \in Workers, Take(w) \/ HandlerStep(w) PROVE FALSE
  BY <1>5 DEF Take, AddTask, UpdateTask, EnableTask, DisableTask, DelTask,
              Takes, HandlerStep, ScheduleTask, SaveTask, DelRow,
              UnscheduleTask, At, PinnedBy
<1>6. CASE AgentCrashes
  BY <1>6 DEF AgentCrashes, Crash, Exit, PinnedBy
<1>7. CASE ApiNext /\ UNCHANGED <<agentVars, jobVars, crashes>>
  <2>1. rows'[t] = rows[t]
    BY <1>7 DEF ApiNext, Post, Put, ListRequest, Accepts, ApiStep, Insert,
                AddRpttask, SendCast, Wake, Die, PinnedBy
  <2>2. QED
    BY <1>7, <2>1 DEF agentVars, PinnedBy, Fires
<1>8. CASE UNCHANGED vars
  BY <1>8 DEF vars, agentVars, PinnedBy
<1>9. QED
  BY <1>1, <1>2, <1>3, <1>4, <1>5, <1>6, <1>7, <1>8 DEF Next, AgentNext

LEMMA PinnedProcNext ==
  ASSUME ProcInv, [ProcNext]_<<vars, procVars>>, NEW t \in Ids, PinnedBy(t)
  PROVE  PinnedBy(t)'
<1>1. CASE [Next]_vars
  BY <1>1, PinnedNext
<1>2. CASE UNCHANGED <<agent, todo, rows>>
  BY <1>2 DEF PinnedBy
<1>3. CASE Exit /\ UNCHANGED rows
  BY <1>3 DEF Exit, PinnedBy
<1>4. CASE ServiceStep
  BY <1>1, <1>4 DEF ServiceStep, Next, AgentNext
<1>5. CASE RunService
  BY <1>2, <1>5 DEF RunService, ServeRpc, PinnedBy, agentVars
<1>6. CASE EntersWait \/ Restart
  BY <1>1, <1>6 DEF EntersWait, Restart
<1>7. ASSUME NEW s, Signal(s) PROVE PinnedBy(t)'
  BY <1>2, <1>3, <1>7 DEF Signal, Caught, Kills, Crash
<1>8. CASE Stopped
  BY <1>2, <1>3, <1>8 DEF Stopped, agentVars
<1>9. CASE AgentCrashes
  BY <1>3, <1>9 DEF AgentCrashes, Crash
<1>10. CASE ApiNext /\ UNCHANGED <<agentVars, jobVars, crashes>>
  BY <1>1, <1>10 DEF Next
<1>11. QED
  BY <1>1, <1>4, <1>5, <1>6, <1>7, <1>8, <1>9, <1>10 DEF ProcNext

(***************************************************************************)
(* An agent that goes down over an Active row that it cannot schedule (its *)
(* object raises, or its trigger has no time left) never serves again,     *)
(* however often it is started, stopped or signalled: each start raises at *)
(* that row, and nobody else takes the row away.                           *)
(***************************************************************************)
THEOREM PoisonStays == ProcSpec => PoisonPinsAgentDown
<1> DEFINE Pinned == \E t \in Ids : PinnedBy(t)
<1>1. ProcInv /\ agent = "down" /\ Poisoned => Pinned
  BY DEF Poisoned, Stored, PinnedBy
<1>2. ProcInv /\ Pinned /\ [ProcNext]_<<vars, procVars>> => Pinned'
  <2> SUFFICES ASSUME ProcInv, [ProcNext]_<<vars, procVars>>,
                      NEW t \in Ids, PinnedBy(t)
      PROVE PinnedBy(t)'
    OBVIOUS
  <2>1. QED
    BY PinnedProcNext
<1>3. Pinned => agent # "up"
  BY DEF PinnedBy
<1> HIDE DEF Pinned
<1>4. QED
  BY <1>1, <1>2, <1>3, ProcInvInit, ProcInvNext, PTL
     DEF ProcSpec, PoisonPinsAgentDown

-----------------------------------------------------------------------------
(* Row, job and copies between handlers.                                   *)

(***************************************************************************)
(* What Agreement needs of the deployment.  A second greenthread           *)
(* interleaves the handlers of one task.  A task that cannot be scheduled  *)
(* loses its job and keeps its row.  A task posted Inactive may be enabled *)
(* by a second API process before the first one casts its add_task, which  *)
(* then writes Inactive under a job that goes on.                          *)
(***************************************************************************)
OnePool == \E w \in Workers : Workers = {w}

PlainTasks ==
  /\ \A task \in PostTasks : Fires(task) /\ task.status = "Active"
  /\ \A patch \in Patches : patch.kind \notin {"spent", "broken"}
  /\ \A t \in DOMAIN DefaultTasks : Fires(DefaultTasks[t])

\* So every copy of a task can be scheduled, and an add_task is of an Active one.
Plain(copy) ==
  /\ Fires(copy.task)
  /\ copy.op = "add" => copy.task.status = "Active"

PlainRequest(r) ==
  /\ Plain(r)
  /\ r.op = "add" => r.rest = <<>>
  /\ r.pc = "insert" => r.op = "add"

CopiesPlain ==
  /\ \A t \in Ids : rows[t] # Null => Fires(rows[t])
  /\ \A i \in DOMAIN queue : Plain(queue[i])
  /\ \A w \in Workers : workers[w] # Null => Plain(workers[w])
  /\ \A p \in Api : api[p] # Null => PlainRequest(api[p])

(***************************************************************************)
(* The inductive invariant.  A task no handler has in hand is settled; one *)
(* in hand is as the step the handler is at needs it to be in order to     *)
(* settle it.                                                              *)
(***************************************************************************)
AddCast(t) == \E p \in Api : /\ api[p] # Null /\ api[p].op = "add"
                             /\ api[p].id = t /\ api[p].pc = "cast"

AddQueued(t) == \E i \in DOMAIN queue : queue[i].op = "add" /\ queue[i].id = t

Awaits(t) == AddCast(t) \/ AddQueued(t) \/ deaths > 0

Recurs(t) == rows[t] # Null /\ rows[t].status = "Active" /\ rows[t].kind = "cron"

JobHasRow(t) ==
  sched[t] # Null =>
    /\ rows[t] # Null
    /\ sched[t].paused => rows[t].status # "Active"
    /\ ~sched[t].paused => rows[t] = sched[t].task /\ rows[t].status = "Active"

RowHasJob(t) == Recurs(t) => Live(t) \/ Awaits(t) \/ t \in todo

Settled(t) == JobHasRow(t) /\ RowHasJob(t)

InHand(h) ==
  /\ h.pc = "schedule" =>
       /\ h.task.status = "Active"
       /\ h.op = "add" => JobHasRow(h.id)
       /\ h.op # "add" => sched[h.id] = Null
  /\ h.pc = "save" =>
       IF h.task.status = "Active"
       THEN \/ Live(h.id) /\ sched[h.id].task = h.task
            \/ sched[h.id] = Null /\ h.task.kind = "once"
       ELSE ~Live(h.id)
  /\ h.pc = "delrow" => Settled(h.id)
  /\ h.pc = "unschedule" => (Recurs(h.id) => Awaits(h.id))

Busy(t) == \E w \in Workers : workers[w] # Null /\ workers[w].id = t

Hands ==
  /\ agent # "up" => \A w \in Workers : workers[w] = Null
  /\ agent = "down" => \A t \in Ids : sched[t] = Null
  /\ agent # "down" => \A t \in Ids : Busy(t) \/ Settled(t)
  /\ \A w \in Workers : workers[w] # Null => InHand(workers[w])

AgreeInv == Base /\ OnePool /\ PlainTasks /\ CopiesPlain /\ Hands

LEMMA AddJobGives ==
  ASSUME Typed, NEW u \in Ids, NEW task \in Task, Fires(task), AddJob(u, task)
  PROVE  /\ sched[u] = Null /\ Live(u)' /\ sched'[u].task = task
         /\ \A t \in Ids \ {u} : sched'[t] = sched[t]
<1> DEFINE new == [task |-> task, paused |-> ~Fires(task)]
<1>1. new \in Job /\ new.task = task /\ new.paused = FALSE
  BY DEF Job, Fires
<1>2. sched[u] = Null /\ sched' = [sched EXCEPT ![u] = new]
  BY DEF AddJob, AddJobRaises
<1> HIDE DEF new
<1>3. new # Null
  BY <1>1, NullIsNoJob
<1>4. QED
  BY <1>1, <1>2, <1>3 DEF Typed, JobTypeOK, Live

LEMMA DeleteJobGives ==
  ASSUME Typed, NEW u \in Ids, Consistent(u), DeleteJob(u)
  PROVE  /\ sched'[u] = Null
         /\ \A t \in Ids \ {u} : sched'[t] = sched[t]
<1>1. jobs[u] = Null => sched[u] = Null
  BY TaskNotNull DEF Consistent, Typed, JobTypeOK, Job
<1>2. QED
  BY <1>1 DEF DeleteJob, Unknown, jobVars, Typed, JobTypeOK

LEMMA DisableJobGives ==
  ASSUME Typed, NEW u \in Ids, Consistent(u), DisableJob(u)
  PROVE  /\ ~Live(u)'
         /\ \A t \in Ids \ {u} : sched'[t] = sched[t]
<1>1. jobs[u] = Null => sched[u] = Null
  BY TaskNotNull DEF Consistent, Typed, JobTypeOK, Job
<1>2. QED
  BY <1>1 DEF DisableJob, Unknown, jobVars, Typed, JobTypeOK, Job, Live

\* A task that a step leaves alone.
LEMMA SettledSame ==
  ASSUME NEW t, Settled(t), rows'[t] = rows[t], sched'[t] = sched[t],
         Awaits(t) => Awaits(t)', t \in todo => t \in todo'
  PROVE  Settled(t)'
  BY DEF Settled, JobHasRow, RowHasJob, Recurs, Live

LEMMA AwaitsSame ==
  ASSUME UNCHANGED <<queue, apiVars>>, NEW t, Awaits(t)
  PROVE  Awaits(t)'
  BY DEF Awaits, AddCast, AddQueued, apiVars

-----------------------------------------------------------------------------
(* The API: a row it writes is new and has its add_task to come, and what  *)
(* else it does takes no add_task away.                                    *)

ApiGives ==
  /\ CopiesPlain'
  /\ \A t \in Ids :
       /\ Awaits(t) => Awaits(t)'
       /\ rows'[t] = rows[t] \/ (rows[t] = Null /\ Awaits(t)')

\* A request that is no add_task about to be cast gives way to another.
LEMMA RequestGives ==
  ASSUME CopiesPlain, NEW p \in Api, OnlyRequestOf(p),
         api[p] # Null => api[p].op # "add" \/ api[p].pc # "cast",
         api'[p] # Null => PlainRequest(api[p])',
         UNCHANGED <<rows, queue, workers, deaths>>
  PROVE  ApiGives
<1>1. \A q \in Api : api'[q] # Null => PlainRequest(api[q])'
  <2> SUFFICES ASSUME NEW q \in Api, api'[q] # Null PROVE PlainRequest(api[q])'
    OBVIOUS
  <2>1. CASE q # p
    BY <2>1 DEF CopiesPlain, OnlyRequestOf, PlainRequest, Plain
  <2>2. QED
    BY <2>1
<1>2. CopiesPlain'
  BY <1>1 DEF CopiesPlain, Plain
<1>3. \A t : Awaits(t) => Awaits(t)'
  BY DEF Awaits, AddCast, AddQueued, OnlyRequestOf
<1>4. QED
  BY <1>2, <1>3 DEF ApiGives

LEMMA NextOfListPlain ==
  ASSUME StoreTypeOK, ApiTypeOK, CopiesPlain, NEW p \in Api,
         NEW op \in Ops \ {"add"}, NEW ids \in Seq(Ids), NextOfList(p, op, ids)
  PROVE  OnlyRequestOf(p) /\ (api'[p] # Null => PlainRequest(api[p])')
<1>1. CASE Answers(p)
  BY <1>1, AnswersType DEF OnlyRequestOf
<1>2. ASSUME NEW t \in Ids, NEW rest \in Seq(Ids), rows[t] # Null,
             rows[t] \in Task, Serves(p, "cast", op, t, rows[t], rest)
      PROVE  OnlyRequestOf(p) /\ PlainRequest(api[p])'
  <2>1. OnlyRequestOf(p) /\ api'[p].pc = "cast" /\ api'[p].op = op
        /\ api'[p].task = rows[t]
    BY <1>2, ServesType DEF OnlyRequestOf
  <2>2. Fires(rows[t])
    BY <1>2 DEF CopiesPlain
  <2>3. QED
    BY <2>1, <2>2 DEF PlainRequest, Plain, Fires
<1>3. QED
  BY <1>1, <1>2, NextOfListCases

LEMMA ServesAlone ==
  ASSUME ApiTypeOK, NEW p \in Api, NEW pc \in {"insert", "cast", "sleep"},
         NEW op \in Ops, NEW t \in Ids, NEW task \in Task,
         Serves(p, pc, op, t, task, <<>>)
  PROVE  /\ OnlyRequestOf(p)
         /\ api'[p].pc = pc /\ api'[p].op = op
         /\ api'[p].task = task /\ api'[p].rest = <<>>
<1>1. ASSUME NEW rest \in Seq(Ids), Serves(p, pc, op, t, task, rest)
      PROVE  /\ OnlyRequestOf(p)
             /\ api'[p].pc = pc /\ api'[p].op = op
             /\ api'[p].task = task /\ api'[p].rest = rest
  BY <1>1, ServesType DEF OnlyRequestOf
<1>2. <<>> \in Seq(Ids)
  OBVIOUS
<1>3. QED
  BY <1>1, <1>2

LEMMA PostGives ==
  ASSUME Typed, PlainTasks, CopiesPlain, NEW p \in Api, Post(p),
         UNCHANGED agentVars
  PROVE  ApiGives
<1>1. PICK task \in PostTasks, t \in Ids \ drawn :
        Serves(p, "insert", "add", t, task, <<>>)
  BY DEF Post
<1>2. /\ task \in Task /\ Fires(task) /\ task.status = "Active"
      /\ t \in Ids /\ "add" \in Ops /\ ApiTypeOK
  BY ApiAssumption DEF PlainTasks, Ops, Typed, ApiPart
<1>3. /\ OnlyRequestOf(p) /\ api'[p].pc = "insert" /\ api'[p].op = "add"
      /\ api'[p].task = task /\ api'[p].rest = <<>>
  BY <1>1, <1>2, ServesAlone
<1>4. PlainRequest(api[p])'
  BY <1>2, <1>3 DEF PlainRequest, Plain, Fires
<1>5. QED
  BY <1>3, <1>4, RequestGives DEF Post, Accepts, agentVars

LEMMA PutGives ==
  ASSUME Typed, PlainTasks, CopiesPlain, NEW p \in Api, Put(p),
         UNCHANGED agentVars
  PROVE  ApiGives
<1>1. PICK t \in Stored, patch \in Patches :
        Serves(p, "cast", "update", Pick(patch.id, t),
               Patched(rows[t], patch), <<>>)
  BY DEF Put
<1>2. /\ t \in Ids /\ rows[t] # Null /\ rows[t] \in Task /\ patch \in Patch
      /\ "update" \in Ops /\ ApiTypeOK
  BY ApiAssumption
     DEF Typed, AgentPart, ApiPart, StoreTypeOK, Stored, Ops
<1>3. Patched(rows[t], patch) \in Task /\ Pick(patch.id, t) \in Ids
  BY <1>2, PatchedType DEF Patch, Pick
<1>4. Fires(Patched(rows[t], patch))
  <2>1. patch.kind = Unset \/ patch.kind \in {"cron", "once"}
    BY <1>2 DEF PlainTasks, Patch, Kinds
  <2>2. QED
    BY <1>2, <2>1 DEF CopiesPlain, Fires, Patched, Pick
<1>5. /\ OnlyRequestOf(p) /\ api'[p].pc = "cast" /\ api'[p].op = "update"
      /\ api'[p].task = Patched(rows[t], patch)
  BY <1>1, <1>2, <1>3, ServesAlone
<1>6. PlainRequest(api[p])'
  BY <1>4, <1>5 DEF PlainRequest, Plain, Fires
<1>7. QED
  BY <1>5, <1>6, RequestGives DEF Put, Accepts, agentVars

LEMMA ListRequestGives ==
  ASSUME Typed, CopiesPlain, NEW p \in Api, ListRequest(p),
         UNCHANGED agentVars
  PROVE  ApiGives
<1>1. PICK op \in {"enable", "disable", "del"}, ids \in IdLists :
        NextOfList(p, op, ids)
  BY DEF ListRequest
<1>2. OnlyRequestOf(p) /\ (api'[p] # Null => PlainRequest(api[p])')
  BY <1>1, NextOfListPlain, ApiAssumption
     DEF Typed, AgentPart, ApiPart, Ops
<1>3. QED
  BY <1>2, RequestGives DEF ListRequest, Accepts, agentVars

LEMMA InsertGives ==
  ASSUME Typed, CopiesPlain, NEW p \in Api, Insert(p), UNCHANGED agentVars
  PROVE  ApiGives
<1>0. PICK t \in Ids : t = api[p].id
  BY RequestType DEF Insert, Typed, ApiPart
<1>1. /\ api[p] \in Request /\ api[p] # Null /\ api[p].task \in Task
      /\ PlainRequest(api[p]) /\ api[p].op = "add"
  BY RequestType DEF Insert, Typed, ApiPart, CopiesPlain, PlainRequest
<1>2. /\ api' = [api EXCEPT ![p].pc = "cast"] /\ UNCHANGED <<queue, deaths>>
      /\ rows[t] = Null /\ rows' = [rows EXCEPT ![t] = api[p].task]
  BY <1>0 DEF Insert, AddRpttask
<1>3. /\ api'[p] \in Request /\ api'[p].pc = "cast" /\ api'[p].op = "add"
      /\ api'[p].id = t /\ api'[p].task = api[p].task
      /\ api'[p].rest = api[p].rest
      /\ \A q \in Api \ {p} : api'[q] = api[q]
  BY <1>0, <1>1, <1>2 DEF Typed, ApiPart, ApiTypeOK, Request
<1>4. Awaits(t)'
  BY <1>3, RequestNotNull DEF Awaits, AddCast
<1>5. ASSUME NEW u \in Ids, Awaits(u) PROVE Awaits(u)'
  BY <1>0, <1>2, <1>3, <1>4, <1>5, RequestNotNull
     DEF Awaits, AddCast, AddQueued
<1>6. \A u \in Ids \ {t} : rows'[u] = rows[u]
  BY <1>2
<1>7. CopiesPlain'
  <2>1. \A u \in Ids : rows'[u] # Null => Fires(rows'[u])
    BY <1>1, <1>2
       DEF CopiesPlain, PlainRequest, Plain, Typed, AgentPart, StoreTypeOK
  <2>2. \A q \in Api : api'[q] # Null => PlainRequest(api[q])'
    BY <1>1, <1>3 DEF CopiesPlain, PlainRequest, Plain
  <2>3. QED
    BY <1>2, <2>1, <2>2 DEF CopiesPlain, Plain, Fires, agentVars
<1>8. QED
  BY <1>1, <1>2, <1>4, <1>5, <1>6, <1>7 DEF ApiGives

LEMMA SendCastGives ==
  ASSUME Typed, CopiesPlain, NEW p \in Api, SendCast(p), UNCHANGED agentVars
  PROVE  ApiGives
<1> DEFINE r == api[p]
           m == [op |-> r.op, id |-> r.id, task |-> r.task]
<1>1. /\ r \in Request /\ r # Null /\ r.pc = "cast" /\ r.rest \in Seq(Ids)
      /\ r.task \in Task /\ r.id \in Ids /\ r.op \in Ops
      /\ PlainRequest(r)
  BY RequestType DEF SendCast, Typed, ApiPart, CopiesPlain
<1>2. m \in Message /\ m.op = r.op /\ m.id = r.id /\ m.task = r.task
  BY <1>1 DEF Message
<1>3. queue' = Append(queue, m) /\ UNCHANGED <<deaths, rows>>
  BY DEF SendCast, Cast
<1>4. OnlyRequestOf(p) /\ (api'[p] # Null => PlainRequest(api[p])')
  <2>1. CASE r.op = "del"
    BY <1>1, <2>1, NextOfListPlain
       DEF SendCast, Typed, AgentPart, ApiPart
  <2>2. CASE r.op # "del"
    <3>1. /\ OnlyRequestOf(p) /\ api'[p].pc = "sleep" /\ api'[p].op = r.op
          /\ api'[p].task = r.task /\ api'[p].rest = r.rest
      BY <1>1, <2>2, ServesType
         DEF SendCast, OnlyRequestOf, Typed, ApiPart
    <3>2. QED
      BY <1>1, <3>1 DEF PlainRequest, Plain, Fires
  <2>3. QED
    BY <2>1, <2>2
<1> HIDE DEF m, r
<1>5. /\ \A i \in DOMAIN queue : i \in DOMAIN queue' /\ queue'[i] = queue[i]
      /\ \A i \in DOMAIN queue' :
           (i \in DOMAIN queue /\ queue'[i] = queue[i]) \/ queue'[i] = m
      /\ \E i \in DOMAIN queue' : queue'[i] = m
  <2>1. queue \in Seq(Message)
    BY DEF Typed, AgentPart, RpcTypeOK
  <2>2. Len(queue) + 1 \in DOMAIN queue' /\ queue'[Len(queue) + 1] = m
    BY <1>2, <1>3, <2>1
  <2>3. QED
    BY <1>2, <1>3, <2>1, <2>2
<1>6. ASSUME NEW t, Awaits(t) PROVE Awaits(t)'
  <2>1. CASE AddQueued(t) \/ deaths > 0
    BY <1>3, <1>5, <2>1 DEF Awaits, AddQueued
  <2>2. CASE AddCast(t)
    <3>1. PICK q \in Api : api[q] # Null /\ api[q].op = "add"
                           /\ api[q].id = t /\ api[q].pc = "cast"
      BY <2>2 DEF AddCast
    <3>2. CASE q = p
      <4>1. m.op = "add" /\ m.id = t
        BY <1>2, <3>1, <3>2 DEF r
      <4>2. QED
        BY <1>5, <4>1 DEF Awaits, AddQueued
    <3>3. CASE q # p
      BY <1>4, <3>1, <3>3 DEF OnlyRequestOf, Awaits, AddCast
    <3>4. QED
      BY <3>2, <3>3
  <2>3. QED
    BY <1>6, <2>1, <2>2 DEF Awaits
<1>7. CopiesPlain'
  <2>1. Plain(m)
    BY <1>1, <1>2 DEF PlainRequest, Plain
  <2>2. \A i \in DOMAIN queue' : Plain(queue'[i])
    BY <1>5, <2>1 DEF CopiesPlain
  <2>3. \A q \in Api : api'[q] # Null => PlainRequest(api[q])'
    <3> SUFFICES ASSUME NEW q \in Api, api'[q] # Null
        PROVE PlainRequest(api[q])'
      OBVIOUS
    <3>1. CASE q # p
      BY <1>4, <3>1 DEF CopiesPlain, OnlyRequestOf, PlainRequest, Plain
    <3>2. QED
      BY <1>4, <3>1
  <2>4. QED
    BY <1>3, <2>2, <2>3 DEF CopiesPlain, Plain, Fires, agentVars
<1>8. QED
  BY <1>3, <1>6, <1>7 DEF ApiGives

LEMMA WakeGives ==
  ASSUME Typed, CopiesPlain, NEW p \in Api, Wake(p), UNCHANGED agentVars
  PROVE  ApiGives
<1>1. /\ api[p] # Null /\ api[p].pc = "sleep" /\ PlainRequest(api[p])
      /\ api[p].op \in Ops /\ api[p].rest \in Seq(Ids)
  BY RequestType DEF Wake, Typed, ApiPart, CopiesPlain
<1>2. OnlyRequestOf(p) /\ (api'[p] # Null => PlainRequest(api[p])')
  <2>1. CASE api[p].op = "add"
    <3>1. Answers(p)
      BY <1>1, <2>1 DEF Wake, NextOfList, PlainRequest
    <3>2. QED
      BY <3>1, AnswersType DEF OnlyRequestOf, Typed, ApiPart
  <2>2. CASE api[p].op # "add"
    BY <1>1, <2>2, NextOfListPlain DEF Wake, Typed, AgentPart, ApiPart
  <2>3. QED
    BY <2>1, <2>2
<1>3. QED
  BY <1>1, <1>2, RequestGives DEF Wake, agentVars

LEMMA DieGives ==
  ASSUME Typed, CopiesPlain, NEW p \in Api, Die(p), UNCHANGED agentVars
  PROVE  ApiGives
<1>1. OnlyRequestOf(p) /\ api'[p] = Null /\ UNCHANGED <<rows, queue>>
  BY AnswersType DEF Die, OnlyRequestOf, Typed, ApiPart
<1>2. \A t : Awaits(t)'
  BY DEF Die, Awaits, Typed, ApiPart, ApiTypeOK
<1>3. CopiesPlain'
  BY <1>1 DEF CopiesPlain, PlainRequest, Plain, Fires, agentVars, OnlyRequestOf
<1>4. QED
  BY <1>1, <1>2, <1>3 DEF ApiGives

LEMMA ApiNextGives ==
  ASSUME Typed, PlainTasks, CopiesPlain, ApiNext, UNCHANGED agentVars
  PROVE  ApiGives
  BY PostGives, PutGives, ListRequestGives, InsertGives, SendCastGives,
     WakeGives, DieGives
     DEF ApiNext, ApiStep

LEMMA SettledGrows ==
  ASSUME ApiGives, UNCHANGED <<sched, todo>>, NEW t \in Ids, Settled(t)
  PROVE  Settled(t)'
<1>1. CASE rows'[t] = rows[t]
  BY <1>1, SettledSame DEF ApiGives
<1>2. CASE rows[t] = Null /\ Awaits(t)'
  BY <1>2 DEF Settled, JobHasRow, RowHasJob
<1>3. QED
  BY <1>1, <1>2 DEF ApiGives

LEMMA InHandGrows ==
  ASSUME ApiGives, UNCHANGED <<sched, todo, workers>>, NEW w \in Workers,
         workers[w].id \in Ids, InHand(workers[w])
  PROVE  InHand(workers[w])'
<1> DEFINE t == workers[w].id
<1>1. Settled(t) => Settled(t)'
  BY SettledGrows
<1>2. JobHasRow(t) => JobHasRow(t)'
  BY DEF JobHasRow, ApiGives
<1>3. (Recurs(t) => Awaits(t)) => (Recurs(t) => Awaits(t))'
  BY DEF Recurs, ApiGives
<1>4. QED
  BY <1>1, <1>2, <1>3 DEF InHand, Live

LEMMA AgreeApi ==
  ASSUME AgreeInv, ApiNext, UNCHANGED <<agentVars, jobVars, crashes>>
  PROVE  CopiesPlain' /\ Hands'
<1>1. ApiGives
  BY ApiNextGives DEF AgreeInv, Base
<1>2. UNCHANGED <<agent, todo, workers, sched>>
  BY DEF agentVars, jobVars
<1>3. \A t \in Ids : Settled(t) => Settled(t)'
  BY <1>1, <1>2, SettledGrows
<1>4. \A w \in Workers : workers[w] # Null => InHand(workers[w])'
  <2> SUFFICES ASSUME NEW w \in Workers, workers[w] # Null
      PROVE InHand(workers[w])'
    OBVIOUS
  <2>1. workers[w].id \in Ids
    BY HandlerType DEF AgreeInv, Base, Typed, AgentPart, Handler
  <2>2. QED
    BY <1>1, <1>2, <2>1, InHandGrows DEF AgreeInv, Hands
<1>5. QED
  BY <1>1, <1>2, <1>3, <1>4 DEF AgreeInv, Hands, Busy, ApiGives

-----------------------------------------------------------------------------
(* The scheduler, the constructor and the end of the process.              *)

LEMMA CopiesPlainSame ==
  ASSUME CopiesPlain, UNCHANGED <<rows, queue, apiVars>>,
         UNCHANGED workers \/ \A w \in Workers : workers'[w] = Null
  PROVE  CopiesPlain'
  BY DEF CopiesPlain, PlainRequest, Plain, Fires, apiVars

LEMMA AgreeRunOnce ==
  ASSUME AgreeInv, NEW u \in Ids, RunOnce(u), UNCHANGED apiVars
  PROVE  CopiesPlain' /\ Hands'
<1>1. /\ UNCHANGED <<rows, queue, agent, todo, workers>>
      /\ Live(u) /\ sched[u] # Null /\ sched[u].task.kind = "once"
      /\ sched'[u] = Null /\ \A t \in Ids \ {u} : sched'[t] = sched[t]
  BY DEF RunOnce, FinishOnce, agentVars, Live, AgreeInv, Base, Typed, JobTypeOK
<1>2. \A t : Awaits(t) => Awaits(t)'
  BY <1>1, AwaitsSame
<1>3. ASSUME NEW t \in Ids, Settled(t) PROVE Settled(t)'
  <2>1. CASE t # u
    BY <1>1, <1>2, <1>3, <2>1, SettledSame
  <2>2. CASE t = u
    BY <1>1, <1>3, <2>2 DEF Settled, JobHasRow, RowHasJob, Recurs, Live
  <2>3. QED
    BY <2>1, <2>2
<1>4. ASSUME NEW w \in Workers, workers[w] # Null PROVE InHand(workers[w])'
  <2> DEFINE h == workers[w]
  <2>1. h.id \in Ids /\ InHand(h)
    BY <1>4, HandlerType
       DEF AgreeInv, Hands, Base, Typed, AgentPart, Handler
  <2>2. Settled(h.id) => Settled(h.id)'
    BY <1>3, <2>1, <1>1
  <2>3. JobHasRow(h.id) => JobHasRow(h.id)'
    BY <1>1, <2>1 DEF JobHasRow
  <2>4. (Recurs(h.id) => Awaits(h.id)) => (Recurs(h.id) => Awaits(h.id))'
    BY <1>1, <1>2 DEF Recurs
  <2>5. CASE h.id # u
    BY <1>1, <2>1, <2>2, <2>3, <2>4, <2>5 DEF InHand, Live
  <2>6. CASE h.id = u
    BY <1>1, <2>1, <2>2, <2>3, <2>4, <2>6 DEF InHand, Live
  <2>7. QED
    BY <2>5, <2>6
<1>5. Hands'
  <2>1. \A t \in Ids : sched[t] = Null => sched'[t] = Null
    BY <1>1
  <2>2. QED
    BY <1>1, <1>3, <1>4, <2>1 DEF AgreeInv, Hands, Busy
<1>6. QED
  BY <1>1, <1>5, CopiesPlainSame DEF AgreeInv

LEMMA AgreeExit ==
  ASSUME AgreeInv, Exit, UNCHANGED <<rows, queue, apiVars>>
  PROVE  CopiesPlain' /\ Hands'
<1>1. /\ agent' = "down" /\ \A w \in Workers : workers'[w] = Null
      /\ \A t \in Ids : sched'[t] = Null
  BY DEF Exit, LoseJobs
<1>2. QED
  BY <1>1, CopiesPlainSame DEF Hands, AgreeInv

LEMMA AgreeStart ==
  ASSUME AgreeInv, AgentStart, UNCHANGED apiVars
  PROVE  CopiesPlain' /\ Hands'
<1>1. /\ agent = "down" /\ agent' = "init"
      /\ UNCHANGED <<workers, sched, queue>>
      /\ todo' = Stored'
      /\ \A t \in Ids : rows'[t] = rows[t] \/ (t \in DOMAIN DefaultTasks
                                               /\ rows'[t] = DefaultTasks[t])
  BY DefaultsAssumption, TaskNotNull DEF AgentStart, jobVars, Stored
<1>2. ASSUME NEW t \in Ids PROVE Settled(t)'
  <2>1. sched'[t] = Null
    BY <1>1 DEF AgreeInv, Hands
  <2>2. rows'[t] # Null => t \in todo'
    BY <1>1 DEF Stored
  <2>3. QED
    BY <2>1, <2>2 DEF Settled, JobHasRow, RowHasJob, Recurs
<1>3. CopiesPlain'
  BY <1>1
     DEF AgreeInv, PlainTasks, CopiesPlain, PlainRequest, Plain, Fires, apiVars
<1>4. QED
  BY <1>1, <1>2, <1>3 DEF AgreeInv, Hands

LEMMA AgreeInitTask ==
  ASSUME AgreeInv, NEW u \in Ids, InitTask(u), UNCHANGED apiVars
  PROVE  CopiesPlain' /\ Hands'
<1>1. /\ rows[u] \in Task /\ rows[u] # Null /\ agent = "init"
      /\ UNCHANGED queue
  BY InitTaskType DEF InitTask, AgreeInv, Base, Typed
<1>2. CASE Exit /\ UNCHANGED rows
  BY <1>1, <1>2, AgreeExit
<1>3. ASSUME UpdateRpttask(u, rows[u]), todo' = todo \ {u},
             UNCHANGED <<agent, workers>>,
             \A t \in Ids \ {u} : sched'[t] = sched[t], Settled(u)'
      PROVE  CopiesPlain' /\ Hands'
  <2>1. UNCHANGED rows
    BY <1>3 DEF UpdateRpttask, AgreeInv, Base, Typed, AgentPart, StoreTypeOK
  <2>2. ASSUME NEW t \in Ids PROVE Settled(t)'
    <3>1. CASE t # u
      <4>1. Settled(t)
        BY <1>1 DEF AgreeInv, Hands, Busy
      <4>2. QED
        BY <1>1, <1>3, <2>1, <3>1, <4>1, SettledSame, AwaitsSame
    <3>2. QED
      BY <1>3, <3>1
  <2>3. QED
    BY <1>1, <1>3, <2>1, <2>2, CopiesPlainSame DEF AgreeInv, Hands
<1>4. CASE /\ rows[u].status # "Active" /\ UpdateRpttask(u, rows[u])
           /\ todo' = todo \ {u} /\ UNCHANGED <<agent, workers, jobVars>>
  <2>1. rows'[u] = rows[u] /\ UNCHANGED sched
    BY <1>4 DEF UpdateRpttask, jobVars, AgreeInv, Base, Typed, AgentPart,
                StoreTypeOK
  <2>2. Settled(u)
    BY <1>1 DEF AgreeInv, Hands, Busy
  <2>3. Settled(u)'
    BY <1>4, <2>1, <2>2 DEF Settled, JobHasRow, RowHasJob, Recurs
  <2>4. QED
    BY <1>3, <1>4, <2>1, <2>3
<1>5. CASE /\ rows[u].status = "Active" /\ AddJob(u, rows[u])
           /\ UpdateRpttask(u, rows[u])
           /\ todo' = todo \ {u} /\ UNCHANGED <<agent, workers>>
  <2>1. /\ Live(u)' /\ sched'[u].task = rows[u]
        /\ \A t \in Ids \ {u} : sched'[t] = sched[t]
    BY <1>1, <1>5, AddJobGives DEF AgreeInv, Base, CopiesPlain
  <2>2. rows'[u] = rows[u]
    BY <1>5 DEF UpdateRpttask, AgreeInv, Base, Typed, AgentPart, StoreTypeOK
  <2>3. Settled(u)'
    BY <1>1, <1>5, <2>1, <2>2 DEF Settled, JobHasRow, RowHasJob, Live
  <2>4. QED
    BY <1>3, <1>5, <2>1, <2>3
<1>6. QED
  BY <1>2, <1>4, <1>5 DEF InitTask

LEMMA AgreeServeRpc ==
  ASSUME AgreeInv, ServeRpc, UNCHANGED apiVars
  PROVE  CopiesPlain' /\ Hands'
<1>1. /\ agent = "init" /\ agent' = "up"
      /\ UNCHANGED <<todo, workers, sched, rows, queue>>
  BY DEF ServeRpc, jobVars
<1>2. \A t \in Ids : Settled(t)'
  BY <1>1, SettledSame, AwaitsSame DEF AgreeInv, Hands, Busy
<1>3. QED
  BY <1>1, <1>2, CopiesPlainSame DEF AgreeInv, Hands

-----------------------------------------------------------------------------
(* The handlers, one at a time.                                            *)

LEMMA EntersGives ==
  ASSUME AgentTypeOK, NEW w \in Workers, NEW op \in Ops, NEW t \in Ids,
         NEW task \in Task, EntersAddTask(w, op, t, task)
  PROVE  /\ OnlyHandlerOf(w) /\ workers'[w] # Null
         /\ workers'[w].pc = IF task.status = "Active"
                             THEN "schedule" ELSE "save"
         /\ workers'[w].op = op /\ workers'[w].id = t
         /\ workers'[w].task = task
  BY GoesType DEF EntersAddTask, OnlyHandlerOf

LEMMA GoesGives ==
  ASSUME AgentTypeOK, NEW w \in Workers,
         NEW pc \in {"schedule", "save", "delrow", "unschedule"},
         NEW op \in Ops, NEW t \in Ids, NEW task \in Task,
         Goes(w, pc, op, t, task)
  PROVE  /\ OnlyHandlerOf(w) /\ workers'[w] # Null
         /\ workers'[w].pc = pc /\ workers'[w].op = op
         /\ workers'[w].id = t /\ workers'[w].task = task
  BY GoesType DEF OnlyHandlerOf

LEMMA AgreeTake ==
  ASSUME AgreeInv, NEW w \in Workers, Take(w), UNCHANGED apiVars
  PROVE  CopiesPlain' /\ Hands'
<1>1. /\ agent = "up" /\ workers[w] = Null /\ queue # <<>>
      /\ queue' = Tail(queue) /\ UNCHANGED <<agent, todo, rows>>
  BY DEF Take, AddTask, UpdateTask, EnableTask, DisableTask, DelTask, Takes
<1>2. /\ AgentTypeOK /\ queue \in Seq(Message) /\ Typed
      /\ \A t \in Ids : Consistent(t)
  BY DEF AgreeInv, Base, Typed, AgentPart, RpcTypeOK
<1>3. PICK m \in Message : m = Head(queue) /\ m = queue[1]
  BY <1>1, <1>2, HeadOfQueue DEF RpcTypeOK
<1>4. m.id \in Ids /\ m.task \in Task /\ m.op \in Ops /\ Plain(m)
  BY <1>1, <1>2, <1>3 DEF Message, AgreeInv, CopiesPlain
<1>5. /\ \A i \in DOMAIN queue' : i + 1 \in DOMAIN queue
                                  /\ queue'[i] = queue[i + 1]
      /\ \A i \in DOMAIN queue : i = 1 \/ (i - 1 \in DOMAIN queue'
                                           /\ queue'[i - 1] = queue[i])
  BY <1>1, <1>2
<1>6. \A v \in Workers : v = w
  BY DEF AgreeInv, OnePool
<1>7. \A t \in Ids : Settled(t)
  BY <1>1, <1>6 DEF AgreeInv, Hands, Busy
<1>8. ASSUME NEW t, t # m.id \/ m.op # "add", Awaits(t) PROVE Awaits(t)'
  BY <1>3, <1>5, <1>8 DEF Awaits, AddCast, AddQueued, apiVars
<1>9. ASSUME workers'[w] # Null => Plain(workers[w])' PROVE CopiesPlain'
  BY <1>1, <1>5, <1>6, <1>9
     DEF AgreeInv, CopiesPlain, PlainRequest, Plain, Fires, apiVars
<1>10. CASE UNCHANGED <<workers, jobVars>> /\ m.op # "add"
  <2>1. \A t \in Ids : Settled(t)'
    BY <1>1, <1>7, <1>8, <1>10, SettledSame DEF jobVars
  <2>2. QED
    BY <1>1, <1>6, <1>9, <1>10, <2>1 DEF Hands
<1>11. ASSUME \A t \in Ids \ {m.id} : sched'[t] = sched[t],
              workers'[w] # Null, workers'[w].id = m.id, Plain(workers[w])',
              InHand(workers[w])'
       PROVE  CopiesPlain' /\ Hands'
  <2>1. \A t \in Ids \ {m.id} : Settled(t)'
    BY <1>1, <1>7, <1>8, <1>11, SettledSame
  <2>2. Busy(m.id)'
    BY <1>11 DEF Busy
  <2>3. QED
    BY <1>1, <1>6, <1>9, <1>11, <2>1, <2>2 DEF Hands
<1>12. CASE AddTask(w)
  <2>1. /\ m.op = "add" /\ m.task.status = "Active" /\ UNCHANGED sched
        /\ EntersAddTask(w, "add", m.id, m.task)
    BY <1>3, <1>4, <1>12 DEF AddTask, Takes, Plain, jobVars
  <2>2. /\ workers'[w] # Null /\ workers'[w].pc = "schedule"
        /\ workers'[w].op = "add" /\ workers'[w].id = m.id
        /\ workers'[w].task = m.task
    BY <1>2, <1>4, <2>1, EntersGives
  <2>3. JobHasRow(m.id)'
    BY <1>1, <1>4, <1>7, <2>1 DEF Settled, JobHasRow
  <2>4. InHand(workers[w])'
    BY <2>1, <2>2, <2>3 DEF InHand, JobHasRow
  <2>5. Plain(workers[w])'
    BY <1>4, <2>1, <2>2 DEF Plain, Fires
  <2>6. QED
    BY <1>11, <2>1, <2>2, <2>4, <2>5
<1>13. ASSUME NEW op \in {"update", "enable"}, NEW task \in Task,
              Fires(task), DeleteJob(m.id), EntersAddTask(w, op, m.id, task)
       PROVE  CopiesPlain' /\ Hands'
  <2>1. op \in Ops
    BY DEF Ops
  <2>2. /\ workers'[w] # Null
        /\ workers'[w].pc = IF task.status = "Active" THEN "schedule" ELSE "save"
        /\ workers'[w].op = op /\ workers'[w].id = m.id
        /\ workers'[w].task = task
    BY <1>2, <1>4, <1>13, <2>1, EntersGives
  <2>3. sched'[m.id] = Null /\ \A t \in Ids \ {m.id} : sched'[t] = sched[t]
    BY <1>2, <1>4, <1>13, DeleteJobGives
  <2>4. InHand(workers[w])'
    BY <2>2, <2>3 DEF InHand, Live
  <2>5. Plain(workers[w])'
    BY <1>13, <2>2 DEF Plain, Fires
  <2>6. QED
    BY <1>11, <2>2, <2>3, <2>4, <2>5
<1>14. CASE UpdateTask(w)
  <2>1. m.op = "update" /\ Fires(m.task)
    BY <1>3, <1>4, <1>14 DEF UpdateTask, Takes, Plain
  <2>2. CASE UNCHANGED <<workers, jobVars>>
    BY <1>10, <2>1, <2>2
  <2>3. CASE DeleteJob(m.id) /\ EntersAddTask(w, "update", m.id, m.task)
    BY <1>4, <1>13, <2>1, <2>3
  <2>4. QED
    BY <1>3, <1>14, <2>2, <2>3 DEF UpdateTask
<1>15. CASE EnableTask(w)
  <2> DEFINE task == [m.task EXCEPT !.status = "Active"]
  <2>1. m.op = "enable" /\ task \in Task /\ Fires(task)
    BY <1>3, <1>4, <1>15, SetStatusType
       DEF EnableTask, Takes, Plain, Fires, Statuses
  <2>2. CASE UNCHANGED <<workers, jobVars>>
    BY <1>10, <2>1, <2>2
  <2>3. CASE DeleteJob(m.id) /\ EntersAddTask(w, "enable", m.id, task)
    <3> HIDE DEF task
    <3>1. QED
      BY <1>13, <2>1, <2>3
  <2>4. QED
    BY <1>3, <1>15, <2>2, <2>3 DEF EnableTask
<1>16. CASE DisableTask(w)
  <2> DEFINE task == [m.task EXCEPT !.status = "Inactive"]
  <2>1. /\ m.op = "disable" /\ task \in Task /\ Fires(task)
        /\ task.status = "Inactive"
    BY <1>3, <1>4, <1>16, SetStatusType
       DEF DisableTask, Takes, Plain, Fires, Statuses, Task
  <2>2. CASE UNCHANGED <<workers, jobVars>>
    BY <1>10, <2>1, <2>2
  <2>3. CASE DisableJob(m.id) /\ Goes(w, "save", "disable", m.id, task)
    <3> HIDE DEF task
    <3>1. "disable" \in Ops
      BY DEF Ops
    <3>2. /\ workers'[w] # Null /\ workers'[w].pc = "save"
          /\ workers'[w].op = "disable" /\ workers'[w].id = m.id
          /\ workers'[w].task = task
      BY <1>2, <1>4, <2>1, <2>3, <3>1, GoesGives
    <3>3. ~Live(m.id)' /\ \A t \in Ids \ {m.id} : sched'[t] = sched[t]
      BY <1>2, <1>4, <2>3, DisableJobGives
    <3>4. InHand(workers[w])'
      BY <2>1, <3>2, <3>3 DEF InHand, Live
    <3>5. Plain(workers[w])'
      BY <2>1, <3>2 DEF Plain, Fires
    <3>6. QED
      BY <1>11, <3>2, <3>3, <3>4, <3>5
  <2>4. QED
    BY <1>3, <1>16, <2>2, <2>3 DEF DisableTask
<1>17. CASE DelTask(w)
  <2>1. /\ m.op = "del" /\ UNCHANGED sched
        /\ Goes(w, "delrow", "del", m.id, m.task)
    BY <1>3, <1>17 DEF DelTask, Takes, jobVars
  <2>2. /\ workers'[w] # Null /\ workers'[w].pc = "delrow"
        /\ workers'[w].op = "del" /\ workers'[w].id = m.id
        /\ workers'[w].task = m.task
    BY <1>2, <1>4, <2>1, GoesGives DEF Ops
  <2>3. Settled(m.id)'
    BY <1>1, <1>4, <1>7, <1>8, <2>1, SettledSame
  <2>4. InHand(workers[w])'
    BY <2>2, <2>3 DEF InHand, Settled, JobHasRow, RowHasJob, Recurs, Awaits,
                      AddCast, AddQueued, Live
  <2>5. Plain(workers[w])'
    BY <1>4, <2>1, <2>2 DEF Plain, Fires
  <2>6. QED
    BY <1>11, <2>1, <2>2, <2>4, <2>5
<1>18. QED
  BY <1>12, <1>14, <1>15, <1>16, <1>17 DEF Take

LEMMA AgreeHandlerStep ==
  ASSUME AgreeInv, NEW w \in Workers, HandlerStep(w), UNCHANGED apiVars
  PROVE  CopiesPlain' /\ Hands'
<1>1. PICK h \in Handler : h = workers[w]
  BY HandlerStepOnly DEF AgreeInv, Base
<1>2. /\ h # Null /\ h.id \in Ids /\ h.task \in Task /\ h.op \in Ops
      /\ OnlyHandlerOf(w) /\ Plain(h) /\ InHand(h)
      /\ \/ workers'[w] = Null
         \/ /\ workers'[w].id = h.id /\ workers'[w].op = h.op
            /\ workers'[w].task = h.task
  BY <1>1, HandlerStepOnly DEF AgreeInv, Base, Handler, CopiesPlain, Hands
<1>3. /\ agent = "up" /\ UNCHANGED <<agent, todo, queue>>
      /\ AgentTypeOK /\ Typed /\ StoreTypeOK
      /\ \A t \in Ids : Consistent(t)
  BY DEF HandlerStep, ScheduleTask, SaveTask, DelRow, UnscheduleTask, At,
         AgreeInv, Base, Typed, AgentPart
<1>4. \A v \in Workers : v = w
  BY DEF AgreeInv, OnePool
<1>5. \A t \in Ids \ {h.id} : Settled(t)
  BY <1>1, <1>3, <1>4 DEF AgreeInv, Hands, Busy
<1>6. \A t : Awaits(t) <=> Awaits(t)'
  BY <1>3 DEF Awaits, AddCast, AddQueued, apiVars
<1>7. ASSUME UNCHANGED rows \/ rows' = [rows EXCEPT ![h.id] = h.task]
                            \/ rows' = [rows EXCEPT ![h.id] = Null]
      PROVE  CopiesPlain'
  <2>1. \A t \in Ids : rows'[t] # Null => Fires(rows'[t])
    BY <1>2, <1>3, <1>7 DEF AgreeInv, CopiesPlain, Plain, StoreTypeOK
  <2>2. \A v \in Workers : workers'[v] # Null => Plain(workers'[v])
    BY <1>2, <1>4 DEF Plain
  <2>3. QED
    BY <1>3, <2>1, <2>2
       DEF AgreeInv, CopiesPlain, PlainRequest, Plain, Fires, apiVars
<1>8. ASSUME \A t \in Ids \ {h.id} : sched'[t] = sched[t] /\ rows'[t] = rows[t],
             \/ workers'[w] = Null /\ Settled(h.id)'
             \/ workers'[w] # Null /\ InHand(workers[w])'
      PROVE  Hands'
  <2>1. \A t \in Ids \ {h.id} : Settled(t)'
    BY <1>3, <1>5, <1>6, <1>8, SettledSame
  <2>2. Busy(h.id)' \/ Settled(h.id)'
    BY <1>2, <1>8 DEF Busy
  <2>3. QED
    BY <1>3, <1>4, <1>8, <2>1, <2>2 DEF Hands
<1>9. CASE ScheduleTask(w)
  <2>1. h.pc = "schedule" /\ h.task.status = "Active" /\ UNCHANGED rows
    BY <1>1, <1>2, <1>9 DEF ScheduleTask, At, InHand
  <2>2. CASE AddJobRaises(h.id) /\ Ends(w) /\ UNCHANGED jobVars
    <3>1. JobHasRow(h.id) /\ sched[h.id] # Null
      BY <1>2, <2>1, <2>2 DEF InHand, AddJobRaises
    <3>2. Settled(h.id)'
      BY <2>1, <2>2, <3>1
         DEF Settled, JobHasRow, RowHasJob, Recurs, Live, jobVars
    <3>3. workers'[w] = Null
      BY <1>3, <2>2, EndsType
    <3>4. QED
      BY <1>7, <1>8, <2>1, <2>2, <3>2, <3>3 DEF jobVars
  <2>3. CASE AddJob(h.id, h.task) /\ Goes(w, "save", h.op, h.id, h.task)
    <3>1. /\ Live(h.id)' /\ sched'[h.id].task = h.task
          /\ \A t \in Ids \ {h.id} : sched'[t] = sched[t]
      BY <1>2, <1>3, <2>3, AddJobGives DEF Plain
    <3>2. /\ workers'[w] # Null /\ workers'[w].pc = "save"
          /\ workers'[w].id = h.id /\ workers'[w].task = h.task
      BY <1>2, <1>3, <2>3, GoesGives
    <3>3. InHand(workers[w])'
      BY <2>1, <3>1, <3>2 DEF InHand, Live
    <3>4. QED
      BY <1>7, <1>8, <2>1, <3>1, <3>2, <3>3
  <2>4. QED
    BY <1>1, <1>2, <1>9, <2>2, <2>3 DEF ScheduleTask, Plain, Builds, Fires
<1>10. CASE SaveTask(w)
  <2>1. /\ h.pc = "save" /\ UNCHANGED sched /\ workers'[w] = Null
        /\ rows' = [rows EXCEPT ![h.id] = h.task]
    BY <1>1, <1>3, <1>10, EndsType DEF SaveTask, At, UpdateRpttask, jobVars
  <2>2. rows'[h.id] = h.task /\ h.task # Null
        /\ \A t \in Ids \ {h.id} : rows'[t] = rows[t]
    BY <1>2, <1>3, <2>1, TaskNotNull DEF StoreTypeOK
  <2>3. Settled(h.id)'
    <3>1. CASE h.task.status = "Active"
      BY <1>2, <2>1, <2>2, <3>1
         DEF InHand, Settled, JobHasRow, RowHasJob, Recurs, Live
    <3>2. CASE h.task.status # "Active"
      BY <1>2, <2>1, <2>2, <3>2
         DEF InHand, Settled, JobHasRow, RowHasJob, Recurs, Live
    <3>3. QED
      BY <3>1, <3>2
  <2>4. QED
    BY <1>7, <1>8, <2>1, <2>2, <2>3
<1>11. CASE DelRow(w)
  <2>1. /\ UNCHANGED sched /\ rows' = [rows EXCEPT ![h.id] = Null]
        /\ Goes(w, "unschedule", h.op, h.id, h.task)
    BY <1>1, <1>11 DEF DelRow, DelRpttask, jobVars
  <2>2. /\ workers'[w] # Null /\ workers'[w].pc = "unschedule"
        /\ workers'[w].id = h.id
    BY <1>2, <1>3, <2>1, GoesGives
  <2>3. rows'[h.id] = Null /\ \A t \in Ids \ {h.id} : rows'[t] = rows[t]
    BY <1>2, <1>3, <2>1 DEF StoreTypeOK
  <2>4. InHand(workers[w])'
    BY <2>2, <2>3 DEF InHand, Recurs
  <2>5. QED
    BY <1>7, <1>8, <2>1, <2>2, <2>3, <2>4
<1>12. CASE UnscheduleTask(w)
  <2>1. /\ h.pc = "unschedule" /\ UNCHANGED rows /\ workers'[w] = Null
        /\ \/ LookupRaises(h.id) /\ UNCHANGED jobVars
           \/ DeleteJob(h.id)
    BY <1>1, <1>3, <1>12, EndsType DEF UnscheduleTask, At
  <2>2. sched'[h.id] = Null /\ \A t \in Ids \ {h.id} : sched'[t] = sched[t]
    BY <1>2, <1>3, <2>1, DeleteJobGives DEF LookupRaises, jobVars
  <2>3. Recurs(h.id)' => Awaits(h.id)'
    BY <1>2, <1>6, <2>1 DEF InHand, Recurs
  <2>4. Settled(h.id)'
    BY <2>2, <2>3 DEF Settled, JobHasRow, RowHasJob
  <2>5. QED
    BY <1>7, <1>8, <2>1, <2>2, <2>4
<1>13. QED
  BY <1>9, <1>10, <1>11, <1>12 DEF HandlerStep

-----------------------------------------------------------------------------

LEMMA AgreeInit == Init /\ OnePool /\ PlainTasks => AgreeInv
<1> SUFFICES ASSUME Init, OnePool, PlainTasks PROVE AgreeInv
  OBVIOUS
<1>1. CopiesPlain
  BY DEF Init, StoreInit, RpcInit, AgentInit, ApiInit, CopiesPlain
<1>2. Hands
  BY DEF Init, JobInit, AgentInit, Hands
<1>3. QED
  BY <1>1, <1>2, BaseInit DEF AgreeInv

LEMMA AgreeNext == AgreeInv /\ [Next]_vars => AgreeInv'
<1> SUFFICES ASSUME AgreeInv, [Next]_vars PROVE AgreeInv'
  OBVIOUS
<1>1. Base' /\ OnePool /\ PlainTasks
  BY BaseNext DEF AgreeInv
<1>2. CASE AgentNext /\ UNCHANGED apiVars
  BY <1>1, <1>2, AgreeStart, AgreeServeRpc, AgreeInitTask, AgreeRunOnce,
     AgreeTake, AgreeHandlerStep
     DEF AgentNext, AgreeInv, OnePool, PlainTasks
<1>3. CASE AgentCrashes /\ UNCHANGED apiVars
  BY <1>1, <1>3, AgreeExit
     DEF AgentCrashes, Crash, AgreeInv, OnePool, PlainTasks
<1>4. CASE ApiNext /\ UNCHANGED <<agentVars, jobVars, crashes>>
  BY <1>1, <1>4, AgreeApi DEF AgreeInv, OnePool, PlainTasks
<1>5. CASE UNCHANGED vars
  <2>1. UNCHANGED <<rows, sched, queue, agent, todo, workers, apiVars>>
    BY <1>5 DEF vars, agentVars, jobVars
  <2>2. CopiesPlain'
    BY <2>1, CopiesPlainSame DEF AgreeInv
  <2>3. \A t : Awaits(t) <=> Awaits(t)'
    BY <2>1 DEF Awaits, AddCast, AddQueued, apiVars
  <2>4. \A t : Settled(t) <=> Settled(t)'
    BY <2>1, <2>3 DEF Settled, JobHasRow, RowHasJob, Recurs, Live
  <2>5. \A w \in Workers : InHand(workers[w]) => InHand(workers[w])'
    BY <2>1, <2>3, <2>4 DEF InHand, JobHasRow, Recurs, Live
  <2>6. QED
    BY <1>1, <2>1, <2>2, <2>4, <2>5 DEF AgreeInv, Hands, Busy, OnePool, PlainTasks
<1>6. QED
  BY <1>2, <1>3, <1>4, <1>5 DEF Next

(***************************************************************************)
(* With one greenthread and tasks that can be built, whatever the requests *)
(* of whatever number of API processes, between handlers everything that   *)
(* will fire is an Active row with the same contents, and every Active row *)
(* that recurs has its job or an add_task on the way to give it one.       *)
(***************************************************************************)
THEOREM RowAndJobAgree == OnePool /\ PlainTasks /\ Spec => []Agreement
<1>1. AgreeInv => Agreement
  <2> SUFFICES ASSUME AgreeInv, agent = "up",
                      \A w \in Workers : workers[w] = Null, NEW t \in Ids
      PROVE /\ Live(t) => /\ rows[t] = sched[t].task
                          /\ rows[t].status = "Active"
            /\ rows[t] # Null /\ rows[t].status = "Active"
                 /\ rows[t].kind = "cron"
                 => Live(t) \/ AddPending(t) \/ deaths > 0
    BY DEF Agreement
  <2>1. Settled(t) /\ todo = {}
    BY DEF AgreeInv, Hands, Busy, Base, Typed, AgentPart, TodoStored
  <2>2. Awaits(t) => AddPending(t) \/ deaths > 0
    BY DEF Awaits, AddCast, AddQueued, AddPending
  <2>3. QED
    BY <2>1, <2>2 DEF Settled, JobHasRow, RowHasJob, Recurs, Live
<1>2. QED
  BY <1>1, AgreeInit, AgreeNext, PTL DEF Spec

=============================================================================
