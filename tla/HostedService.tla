---------------------------- MODULE HostedService ----------------------------
(***************************************************************************)
(* The one service a process hosts, under Services of                      *)
(* report.openstack.common.service: what of it goes on when it is stopped, *)
(* and what comes back when it is restarted in place.  The service is of   *)
(* one of the two kinds the source has:                                    *)
(*   "poller": agent.base.AgentManager, whose ThreadGroup has a            *)
(*             FixedIntervalLoopingCall for each of its tasks;             *)
(*   "api":    service.WSGIService, whose wsgi.Server accepts connections  *)
(*             in one greenthread and handles them in a pool of others.    *)
(* The process has two greenthreads more: the one of the launcher and, in  *)
(* the ThreadGroup of Services, the one of run_service.                    *)
(* A loop is named by the start of the service it is from and its task.    *)
(* No entry point of setup.cfg reaches the two services; a second signal,  *)
(* which kills the process, is in AgentProcess.                            *)
(***************************************************************************)
EXTENDS Naturals, FiniteSets

CONSTANTS
  PollTasks,   \* the tasks of the poller (its extensions)
  Conns,       \* connections of the server's clients, each of one request
  PoolSize,    \* wsgi_default_pool_size
  MaxReloads   \* bound on the signals that restart the service

ASSUME PoolSizeAssumption == PoolSize \in Nat \ {0}

VARIABLES
  kind,     \* of the service, or "none" if the process hosts none
  host,     \* the launcher: "serving" while it waits for a signal
  reload,   \* the signal was SIGHUP
  reloads,  \* restarts so far
  thread,   \* run_service: "spawned", "waiting" for done, or "reaped"
  loop,     \* where each looping call is
  live,     \* the looping calls whose _running is true
  timers,   \* tg.timers
  server,   \* the greenthread of wsgi.Server
  pool,     \* the size its pool is set to
  conn      \* where each connection is

hostVars == <<kind, host, reload, reloads, thread, loop, live, timers, server,
              pool, conn>>
launcherVars == <<kind, host, reload, reloads, thread>>
pollerVars == <<loop, live, timers>>
apiVars == <<server, pool, conn>>

Loops == (1 .. MaxReloads + 1) \X PollTasks

\* The looping calls the next start makes.
Started == {l \in Loops : l[1] = reloads + 1}

In(stage) == {c \in Conns : conn[c] = stage}

HostInit ==
  /\ kind \in {"poller", "api"}
  /\ host = "serving" /\ reload = FALSE /\ reloads = 0
  /\ thread = "spawned"
  /\ loop = [l \in Loops |-> "none"] /\ live = {} /\ timers = {}
  /\ server = "none" /\ pool = PoolSize
  /\ conn = [c \in Conns |-> "none"]

-----------------------------------------------------------------------------
(* The greenthread of run_service. A stop that finds it not yet run does   *)
(* not wait for anything, so it comes to run only while the launcher waits.*)

StartPoller ==
  /\ kind = "poller"
  /\ loop' = [l \in Loops |-> IF l \in Started THEN "delay" ELSE loop[l]]
  /\ live' = live \cup Started /\ timers' = timers \cup Started
  /\ UNCHANGED apiVars

StartApi ==
  /\ kind = "api"
  /\ server' = "accepting"
  /\ UNCHANGED <<pool, conn, pollerVars>>

RunService ==
  /\ host = "serving" /\ thread = "spawned"
  /\ thread' = "waiting"
  /\ StartPoller \/ StartApi
  /\ UNCHANGED <<kind, host, reload, reloads>>

-----------------------------------------------------------------------------
(* The greenthread of a FixedIntervalLoopingCall.                          *)

(* The delay is over: the call begins, or the loop ends, as it was stopped. *)
Wakes(l) ==
  /\ host # "ended"
  /\ loop[l] \in {"delay", "resting"}
  /\ loop' = [loop EXCEPT ![l] = IF l \in live THEN "calling" ELSE "over"]
  /\ UNCHANGED <<launcherVars, live, timers, apiVars>>

(* task.report returns, stops its loop (LoopingCallDone), or raises, which  *)
(* ends the loop though it counts as running.                               *)
CallEnds(l) ==
  /\ host # "ended"
  /\ loop[l] = "calling"
  /\ \/ /\ loop' = [loop EXCEPT ![l] = IF l \in live THEN "resting" ELSE "over"]
        /\ UNCHANGED live
     \/ loop' = [loop EXCEPT ![l] = "over"] /\ live' = live \ {l}
     \/ loop' = [loop EXCEPT ![l] = "over"] /\ UNCHANGED live
  /\ UNCHANGED <<launcherVars, timers, apiVars>>

-----------------------------------------------------------------------------
(* The server and its pool; the backlog is that of the bound socket, which *)
(* lives as long as the process, for start serves on a copy of it.         *)

Arrives(c) ==
  /\ kind = "api" /\ host # "ended"
  /\ conn[c] = "none"
  /\ conn' = [conn EXCEPT ![c] = "backlog"]
  /\ UNCHANGED <<launcherVars, pollerVars, server, pool>>

(* A server that finds its pool full holds the connection until a           *)
(* greenthread is free.                                                     *)
Accept(c) ==
  /\ host # "ended" /\ server = "accepting" /\ In("held") = {}
  /\ conn[c] = "backlog"
  /\ conn' = [conn EXCEPT ![c] =
                IF Cardinality(In("handled")) < pool THEN "handled" ELSE "held"]
  /\ UNCHANGED <<launcherVars, pollerVars, server, pool>>

Unblock(c) ==
  /\ host # "ended" /\ server = "accepting"
  /\ conn[c] = "held" /\ Cardinality(In("handled")) < pool
  /\ conn' = [conn EXCEPT ![c] = "handled"]
  /\ UNCHANGED <<launcherVars, pollerVars, server, pool>>

Respond(c) ==
  /\ host # "ended"
  /\ conn[c] = "handled"
  /\ conn' = [conn EXCEPT ![c] = "answered"]
  /\ UNCHANGED <<launcherVars, pollerVars, server, pool>>

-----------------------------------------------------------------------------
(* The launcher.                                                           *)

(* SignalExit is raised in the greenthread that runs: the launcher's, one   *)
(* that calls a task's report, whose loop does not catch it, or one that    *)
(* handles a request.                                                       *)
Caught(hup) ==
  /\ host = "serving" /\ kind # "none"
  /\ hup => reloads < MaxReloads
  /\ host' = "stopping" /\ reload' = hup
  /\ \/ UNCHANGED <<loop, conn>>
     \/ \E l \in Loops : /\ loop[l] = "calling"
                         /\ loop' = [loop EXCEPT ![l] = "over"]
                         /\ UNCHANGED conn
     \/ \E c \in Conns : /\ conn[c] = "handled"
                         /\ conn' = [conn EXCEPT ![c] = "cut"]
                         /\ UNCHANGED loop
  /\ UNCHANGED <<kind, reloads, thread, live, timers, server, pool>>

(* A SignalExit raised in the greenthread that accepts stays there: the     *)
(* loop of eventlet.wsgi takes it as its own end.                           *)
SignalLost ==
  /\ host = "serving" /\ server = "accepting"
  /\ server' = "exited"
  /\ conn' = [c \in Conns |-> IF conn[c] = "held" THEN "dropped" ELSE conn[c]]
  /\ UNCHANGED <<launcherVars, pollerVars, pool>>

\* Faulty: the timers are dropped and not stopped.
StopTimersHalf == timers' = {} /\ UNCHANGED live

(* ThreadGroup.stop_timers. With the list empty, ThreadGroup.wait waits for *)
(* none of them, and a report that is running goes on.                      *)
StopTimers == timers' = {} /\ live' = live \ timers

StopPoller ==
  /\ host = "stopping" /\ kind = "poller"
  /\ StopTimers
  /\ host' = "stopped"
  /\ UNCHANGED <<kind, reload, reloads, thread, loop, apiVars>>

(* Server.stop: no more requests, and what the server held is lost.         *)
StopApi ==
  /\ host = "stopping" /\ kind = "api"
  /\ IF server = "none"
     THEN UNCHANGED apiVars
     ELSE /\ pool' = 0 /\ server' = "killed"
          /\ conn' = [c \in Conns |-> IF conn[c] = "held" THEN "dropped" ELSE conn[c]]
  /\ host' = "waiting"
  /\ UNCHANGED <<kind, reload, reloads, thread, pollerVars>>

(* Server.wait.                                                             *)
WaitApi ==
  /\ host = "waiting"
  /\ In("handled") = {}
  /\ host' = "stopped"
  /\ UNCHANGED <<kind, reload, reloads, thread, pollerVars, apiVars>>

\* Faulty: the service is started again as it was stopped.
ResetNothing == UNCHANGED pool

(* WSGIService.reset; that of the poller only renews its event.             *)
Reset == pool' = PoolSize

(* Services.restart, once the service has stopped.                          *)
Restart ==
  /\ host = "stopped" /\ reload
  /\ Reset
  /\ thread' = "spawned"
  /\ host' = "serving" /\ reloads' = reloads + 1
  /\ UNCHANGED <<kind, reload, pollerVars, server, conn>>

(* Launcher.stop, at the end of wait; the process exits.                    *)
End ==
  /\ host = "stopped" /\ ~reload
  /\ host' = "ended" /\ thread' = "reaped"
  /\ UNCHANGED <<kind, reload, reloads, pollerVars, apiVars>>

LauncherGoes == StopPoller \/ StopApi \/ WaitApi \/ Restart \/ End

HostNext ==
  \/ RunService
  \/ \E l \in Loops : Wakes(l) \/ CallEnds(l)
  \/ \E c \in Conns : Arrives(c) \/ Accept(c) \/ Unblock(c) \/ Respond(c)
  \/ \E hup \in BOOLEAN : Caught(hup)
  \/ SignalLost
  \/ LauncherGoes

HostSpec == HostInit /\ [][HostNext]_hostVars

(***************************************************************************)
(* The hub runs every greenthread that can run; that a report and the      *)
(* handling of a request end is assumed (client_socket_timeout ends the    *)
(* latter if the client is the reason), and a server takes what waits.     *)
(***************************************************************************)
HostFairness ==
  /\ WF_hostVars(RunService)
  /\ WF_hostVars(LauncherGoes)
  /\ \A l \in Loops : WF_hostVars(Wakes(l)) /\ WF_hostVars(CallEnds(l))
  /\ \A c \in Conns : SF_hostVars(Accept(c)) /\ WF_hostVars(Unblock(c))
                      /\ WF_hostVars(Respond(c))

-----------------------------------------------------------------------------

(***************************************************************************)
(* Nothing outlives a stop but the reports that were running when it came: *)
(* once Services.stop has returned no looping call will begin another and  *)
(* no request is handled, held or accepted; so after any number of         *)
(* restarts, with late reports of starts before, a task has one loop that  *)
(* goes on.                                                                *)
(***************************************************************************)
StopLeavesNothing ==
  /\ host \in {"stopped", "ended"} =>
       /\ live \cap {l \in Loops : loop[l] # "over"} = {}
       /\ server # "accepting" /\ In("held") = {} /\ In("handled") = {}
  /\ \A l, m \in live : l[2] = m[2] /\ loop[l] # "over" /\ loop[m] # "over" => l = m

(***************************************************************************)
(* A restart gives back what the stop took: every connection that reaches  *)
(* the backlog is answered, across restarts, unless a signal cut its       *)
(* request or found it held by a full pool, the server has taken a signal  *)
(* as its end, or the process ended; and the poller of a process that goes *)
(* on calls each task, unless the loop of its last start is over, which a  *)
(* report or a signal ended.                                               *)
(***************************************************************************)
ServesOn ==
  /\ \A c \in Conns :
       conn[c] = "backlog" ~> conn[c] \in {"answered", "cut", "dropped"}
                              \/ server = "exited" \/ host = "ended"
  /\ \A t \in PollTasks :
       kind = "poller" ~> \/ loop[<<reloads + 1, t>>] \in {"calling", "over"}
                          \/ host = "ended"

=============================================================================
