---------------------------- MODULE AgentProcess ----------------------------
(***************************************************************************)
(* The agent as a process: ServiceLauncher.wait around the service, and    *)
(* the signals it lives with.  A signal is an exception that ends whatever *)
(* greenthread it lands in.  SIGHUP then stops the RPC server and starts   *)
(* it again in the same process, which keeps its manager and its jobs;     *)
(* SIGTERM stops it and ends the process.                                  *)
(***************************************************************************)
EXTENDS ReportService

CONSTANT MaxSignals    \* bound: signals sent to the agent

ASSUME SignalAssumption == MaxSignals \in Nat

VARIABLES
  launcher,   \* "out" (not in wait yet), "waiting", "stopping", "restarting"
  server,     \* the RPC server of Service: "none", "serving", "stopped"
  caught,     \* the signal _wait_for_exit_or_signal returns with, or Null
  signals,
  cut         \* history: tasks whose handler a signal ended in this process

procVars == <<launcher, server, caught, signals, cut>>

\* Whoever ends the process ends all of this.
ProcessEnds ==
  /\ launcher' = "out" /\ server' = "none" /\ caught' = Null /\ cut' = {}

ProcessInit ==
  /\ launcher = "out" /\ server = "none" /\ caught = Null /\ cut = {}
  /\ signals = 0

-----------------------------------------------------------------------------
(* The service, while the launcher waits.                                  *)

\* service.serve and the first lines of wait: run_service is spawned, and
\* runs when the launcher waits with its handler installed.
EntersWait ==
  /\ agent = "init" /\ todo = {} /\ launcher = "out"
  /\ launcher' = "waiting"
  /\ UNCHANGED <<vars, server, caught, signals, cut>>

\* Faulty: run_service is spawned once and for all.
RunServiceOnce ==
  /\ launcher = "waiting" /\ server = "none"
  /\ server' = "serving"
  /\ ServeRpc
  /\ UNCHANGED <<apiVars, crashes, launcher, caught, signals, cut>>

\* Services.run_service: Service.start makes an RPC server and starts it.
RunService ==
  /\ launcher = "waiting" /\ server # "serving"
  /\ server' = "serving"
  /\ IF agent = "init" THEN ServeRpc ELSE UNCHANGED <<agentVars, jobVars, rows, queue>>
  /\ UNCHANGED <<apiVars, crashes, launcher, caught, signals, cut>>

ServiceStep ==
  /\ \/ AgentStart
     \/ \E t \in Ids : InitTask(t) \/ RunOnce(t)
     \/ \E w \in Workers : HandlerStep(w) \/ (Take(w) /\ server = "serving")
  /\ IF agent' = "down" THEN ProcessEnds ELSE UNCHANGED <<launcher, server, caught, cut>>
  /\ UNCHANGED <<apiVars, crashes, signals>>

-----------------------------------------------------------------------------
(* Signals.                                                                *)

\* A handler ends where it is: at the I/O it waits for, or between the two
\* stores of add_job or delete_job; the message of one that had just begun
\* is lost.
CutHandler(w) ==
  /\ workers[w] # Null
  /\ workers' = [workers EXCEPT ![w] = Null]
  /\ cut' = cut \cup {workers[w].id}
  /\ LET h == workers[w] IN
     \/ UNCHANGED sched
     \/ /\ h.pc = "schedule" /\ Builds(h.task) /\ ~AddJobRaises(h.id)
        /\ sched' = [sched EXCEPT ![h.id] = [task |-> h.task, paused |-> ~Fires(h.task)]]
     \/ /\ h.pc = "unschedule" /\ jobs[h.id] # Null
        /\ sched' = [sched EXCEPT ![h.id] = Null]
  /\ UNCHANGED <<queue, jobs>>

CutAtOnce(w) ==
  /\ workers[w] = Null /\ server = "serving" /\ queue # <<>>
  /\ LET m == Head(queue) IN
     /\ cut' = cut \cup {m.id}
     /\ \/ UNCHANGED sched
        \/ /\ m.op \in {"update", "enable"} /\ jobs[m.id] # Null
           /\ sched' = [sched EXCEPT ![m.id] = Null]
  /\ queue' = Tail(queue)
  /\ UNCHANGED <<workers, jobs>>

\* ServiceLauncher._handle_signal: the default action is back, and SignalExit
\* is raised in the hub, which nobody notices, or in a handler.
Caught(s) ==
  /\ launcher = "waiting"
  /\ launcher' = "stopping" /\ caught' = s
  /\ \/ UNCHANGED <<workers, sched, jobs, queue, cut>>
     \/ \E w \in Workers : CutHandler(w) \/ CutAtOnce(w)
  /\ UNCHANGED <<agent, todo, rows, server>>

\* Outside wait, and once a signal was caught, the default action ends the
\* process.
Kills == launcher # "waiting" /\ Crash /\ ProcessEnds

Signal(s) ==
  /\ signals < MaxSignals
  /\ signals' = signals + 1
  /\ Caught(s) \/ Kills
  /\ UNCHANGED <<apiVars, crashes>>

-----------------------------------------------------------------------------
(* Launcher.stop and Launcher.restart.                                     *)

\* Faulty: stop kills the handlers instead of waiting for them.
StoppedAtOnce ==
  /\ launcher = "stopping"
  /\ IF caught = "hup"
     THEN /\ launcher' = "restarting" /\ server' = "stopped"
          /\ workers' = [w \in Workers |-> Null]
          /\ UNCHANGED <<caught, cut, agent, todo, jobVars>>
     ELSE Exit /\ ProcessEnds
  /\ UNCHANGED <<apiVars, rows, queue, crashes, signals>>

\* rpcserver.stop takes no more messages and rpcserver.wait returns when the
\* handlers have ended.  (SIGHUP to a process that is no daemon ends it, too;
\* that is "term" here.)
Stopped ==
  /\ launcher = "stopping"
  /\ \A w \in Workers : workers[w] = Null
  /\ IF caught = "hup"
     THEN /\ launcher' = "restarting" /\ server' = "stopped"
          /\ UNCHANGED <<caught, cut, agentVars, jobVars>>
     ELSE Exit /\ ProcessEnds
  /\ UNCHANGED <<apiVars, rows, queue, crashes, signals>>

\* Services.restart stops once more, which finds nothing to do, and spawns
\* run_service; wait installs its handler.
Restart ==
  /\ launcher = "restarting"
  /\ launcher' = "waiting" /\ caught' = Null
  /\ UNCHANGED <<vars, server, signals, cut>>

-----------------------------------------------------------------------------

ProcInit == Init /\ ProcessInit

ProcNext ==
  \/ ServiceStep \/ EntersWait \/ RunService
  \/ \E s \in {"hup", "term"} : Signal(s)
  \/ Stopped \/ Restart
  \/ AgentCrashes /\ ProcessEnds /\ UNCHANGED <<apiVars, signals>>
  \/ ApiNext /\ UNCHANGED <<agentVars, jobVars, crashes, procVars>>

ProcSpec == ProcInit /\ [][ProcNext]_<<vars, procVars>>

(***************************************************************************)
(* Fairness: a greenthread that can run does, the main one included, the   *)
(* API finishes what it began, and the service is started again after it   *)
(* went down.  Requests, signals, deaths and crashes need not happen.      *)
(***************************************************************************)
ProcFairness ==
  LET all == <<vars, procVars>>
      Alone(A) == A /\ UNCHANGED <<apiVars, crashes, procVars>>
  IN
  /\ WF_all(Alone(AgentStart))
  /\ WF_all(ServiceStep /\ \E t \in todo : InitTask(t))
  /\ \A w \in Workers :
       /\ WF_all(Alone(HandlerStep(w)))
       /\ WF_all(Alone(Take(w) /\ server = "serving"))
  /\ WF_all(EntersWait) /\ WF_all(RunService)
  /\ WF_all(Stopped) /\ WF_all(Restart)
  /\ \A p \in Api :
       WF_all(ApiStep(p) /\ UNCHANGED <<agentVars, jobVars, crashes, procVars>>)

ProcFairSpec == ProcSpec /\ ProcFairness

-----------------------------------------------------------------------------

(***************************************************************************)
(* Restarting in place hurts no task but the one whose handler the signal  *)
(* ended: of every other task, job and dictionary agree, and a job that    *)
(* can fire has a row unless its handler is about to write the row or      *)
(* remove the job. The damage to the one task lasts as long as the process.*)
(***************************************************************************)
OnlyTheCut ==
  \A t \in Ids \ cut :
    /\ sched[t] # Null => jobs[t] = sched[t].task
    /\ sched[t] # Null /\ Fires(sched[t].task) => \/ rows[t] # Null
                                                  \/ Handling(t, "save")
                                                  \/ Handling(t, "unschedule")
    /\ jobs[t] # Null /\ jobs[t].kind = "cron" => sched[t] # Null

(***************************************************************************)
(* A caught SIGHUP leads to a service that serves again, and a caught      *)
(* SIGTERM to the end of the process, whatever handlers were running; a    *)
(* second signal on the way ends it as well.                               *)
(***************************************************************************)
SignalsAnswered ==
  /\ caught = "hup" ~> (server = "serving" /\ launcher = "waiting") \/ agent = "down"
  /\ caught = "term" ~> agent = "down"

(***************************************************************************)
(* An Active task that recurs gets its job in the end, through crashes,    *)
(* restarts in place and a stop; or it is disabled or deleted first, a     *)
(* signal ended one of its handlers in this process, or a row that cannot  *)
(* be built keeps the agent from coming up.                                *)
(***************************************************************************)
ScheduledUnlessCut ==
  \A t \in Ids :
    (rows[t] # Null /\ rows[t].status = "Active" /\ rows[t].kind = "cron") ~>
    \/ Live(t) \/ rows[t] = Null \/ rows[t].status # "Active"
    \/ t \in cut
    \/ agent = "down" /\ Poisoned

=============================================================================
