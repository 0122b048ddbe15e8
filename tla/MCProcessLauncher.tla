-------------------------- MODULE MCProcessLauncher --------------------------
(* A process of the launcher on a small instance: it is the parent of its     *)
(* workers and hosts no service, or it hosts one and has launched nothing.    *)
EXTENDS ProcessLauncher, HostedService, TLC

HostsNone ==
  /\ kind = "none" /\ host = "ended" /\ reload = FALSE /\ reloads = 0
  /\ thread = "reaped"
  /\ loop = [l \in Loops |-> "none"] /\ live = {} /\ timers = {}
  /\ server = "none" /\ pool = PoolSize /\ conn = [c \in Conns |-> "none"]

LaunchesNone ==
  /\ pc = "exited" /\ running = FALSE /\ sigcaught = None
  /\ handled = {} /\ forking = FALSE
  /\ children = {} /\ tosignal = {} /\ disk = 0 /\ config = 0
  /\ proc = [p \in Pids |-> NoProcess]
  /\ signals = 0 /\ deaths = 0

MCInit == (Init /\ HostsNone) \/ (HostInit /\ LaunchesNone)

MCNext ==
  \/ Next /\ UNCHANGED hostVars
  \/ HostNext /\ UNCHANGED vars

MCSpec == MCInit /\ [][MCNext]_<<vars, hostVars>> /\ Fairness /\ HostFairness

=============================================================================
