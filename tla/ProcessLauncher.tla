--------------------------- MODULE ProcessLauncher ---------------------------
(***************************************************************************)
(* ProcessLauncher: a parent that keeps a number of worker processes and   *)
(* follows the signals it is sent.                                         *)
(*                                                                         *)
(* A signal may arrive between any two steps of the parent or of a child.  *)
(* What it does depends on the handler installed at that moment, and a     *)
(* child has its parent's until it installs its own.                       *)
(*                                                                         *)
(* Left out: the second that _start_child may sleep, which only delays a   *)
(* fork (the fork is a step of its own, after the check of running); stop  *)
(* called by another greenthread, which nothing does; SIGINT, which is     *)
(* SIGTERM for the parent and ignored by the children. _handle_signal is   *)
(* one step: a signal that arrives inside it counts as one after it.       *)
(***************************************************************************)
EXTENDS Naturals, FiniteSets

CONSTANTS
  Pids,        \* process ids a child can have
  Workers,     \* wrap.workers
  Daemon,      \* _is_daemon(): SIGHUP reloads rather than ends
  MaxSignals,  \* bound on the signals sent to the parent
  MaxDeaths,   \* bound on the children that die by themselves
  None         \* no signal caught

ASSUME WorkersAssumption == Workers \in Nat \ {0}
ASSUME BoundsAssumption == MaxSignals \in Nat /\ MaxDeaths \in Nat
ASSUME DaemonAssumption == Daemon \in BOOLEAN

Signals == {"TERM", "HUP", "KILL"}

ASSUME NoneIsNoSignal == None \notin Signals

VARIABLES
  pc,         \* where the parent is
  running,    \* self.running
  sigcaught,  \* self.sigcaught
  handled,    \* signals with the parent's handler, _handle_class_signals
  forking,    \* running and the number of children are checked, fork is next
  children,   \* the keys of self.children (and of wrap.children: one service)
  tosignal,   \* children the signalling loop has left
  disk,       \* the edition of the configuration files
  config,     \* the edition the parent has loaded
  proc,       \* what runs under each process id
  signals,    \* signals the parent has been sent
  deaths      \* children that have died by themselves

parentVars == <<pc, running, sigcaught, handled, forking, children, tosignal,
                disk, config>>
vars == <<pc, running, sigcaught, handled, forking, children, tosignal, disk,
          config, proc, signals, deaths>>

Steps == {"launch", "arm", "rearm", "poll", "respawn", "after", "reload", "hup",
          "forget", "stop", "reap"}

\* Ended by way of stop, by a wait that returned without it, or by a signal.
Ended == {"exited", "returned", "killed"}

\* Where a child is: just forked, outside the try of its loop, waiting on its
\* service, on its way through a restart, dead but not waited for.
Stages == {"none", "forked", "starting", "serving", "restarting", "zombie"}

\* "own" is the child's handler of SIGHUP, with SIGTERM left to kill.
Process == [at : Stages, handler : {"catch", "default", "own"}, config : Nat]

NoProcess == [at |-> "none", handler |-> "default", config |-> 0]

TypeOK ==
  /\ pc \in Steps \cup Ended
  /\ running \in BOOLEAN
  /\ sigcaught \in {None, "TERM", "HUP"}
  /\ handled \in SUBSET {"TERM", "HUP"}
  /\ forking \in BOOLEAN
  /\ children \in SUBSET Pids
  /\ tosignal \in SUBSET children
  /\ disk \in Nat /\ config \in Nat
  /\ proc \in [Pids -> Process]
  /\ signals \in 0..MaxSignals
  /\ deaths \in 0..MaxDeaths

-----------------------------------------------------------------------------

(* ProcessLauncher.__init__, on the way to launch_service. *)
Init ==
  /\ pc = "launch"
  /\ running = TRUE /\ sigcaught = None /\ handled = {"TERM", "HUP"}
  /\ forking = FALSE /\ children = {} /\ tosignal = {}
  /\ disk = 0 /\ config = 0
  /\ proc = [p \in Pids |-> NoProcess]
  /\ signals = 0 /\ deaths = 0

Exists(p) == proc[p].at \notin {"none", "zombie"}

Dead(p) == [proc[p] EXCEPT !.at = "zombie"]

-----------------------------------------------------------------------------
(* What a signal does to a child.                                          *)

(* _handle_signal, inherited: the child's copies of running and sigcaught  *)
(* are set and never read again, and the next signal will kill. A SIGHUP   *)
(* restarts a child that waits on its service; outside the try it ends it. *)
Signalled(p, signo) ==
  IF ~Exists(p) THEN proc[p]
  ELSE IF proc[p].handler = "catch" THEN [proc[p] EXCEPT !.handler = "default"]
  ELSE IF /\ signo = "HUP" /\ Daemon
          /\ proc[p].handler = "own" /\ proc[p].at = "serving"
       THEN [proc[p] EXCEPT !.at = "restarting", !.handler = "default"]
  ELSE Dead(p)

-----------------------------------------------------------------------------
(* The parent.                                                             *)

\* Faulty: one worker short.
WantsFewer == running /\ Cardinality(children) < Workers - 1

WantsChild == running /\ Cardinality(children) < Workers

(* The while loop of launch_service; then wait. *)
Launch ==
  /\ pc = "launch" /\ ~forking
  /\ forking' = WantsChild
  /\ pc' = IF WantsChild THEN "launch" ELSE "arm"
  /\ UNCHANGED <<running, sigcaught, handled, children, tosignal, disk, config,
                 proc, signals, deaths>>

\* What a fork inherits: all handlers or none, as the second half of
\* handle_signal is over when a fork is next.
Inherited == IF handled = {} THEN "default" ELSE "catch"

(* _start_child in the parent. *)
StartChild ==
  /\ forking
  /\ \E p \in Pids :
       /\ proc[p].at = "none"
       /\ proc' = [proc EXCEPT
            ![p] = [at |-> "forked", handler |-> Inherited, config |-> config]]
       /\ children' = children \cup {p}
  /\ forking' = FALSE
  /\ UNCHANGED <<pc, running, sigcaught, handled, tosignal, disk, config,
                 signals, deaths>>

(* The head of the loop of wait: handle_signal, which installs the handler *)
(* of SIGTERM, then that of SIGHUP.                                        *)
HandleSignal ==
  /\ \/ /\ pc = "arm" /\ pc' = "rearm"
        /\ handled' = handled \cup {"TERM"}
     \/ /\ pc = "rearm" /\ pc' = "poll"
        /\ handled' = handled \cup {"HUP"}
  /\ UNCHANGED <<running, sigcaught, forking, children, tosignal, disk, config,
                 proc, signals, deaths>>

\* Faulty: the child stays in wrap.children.
WaitChildKeeps(p) ==
  /\ p \in children /\ proc[p].at = "zombie"
  /\ proc' = [proc EXCEPT ![p] = NoProcess]
  /\ UNCHANGED children

(* _wait_child, when it finds one. *)
WaitChild(p) ==
  /\ p \in children /\ proc[p].at = "zombie"
  /\ proc' = [proc EXCEPT ![p] = NoProcess]
  /\ children' = children \ {p}

(* The head of the loop of _respawn_children. *)
Poll ==
  /\ pc = "poll"
  /\ \/ /\ running
        /\ \E p \in Pids : WaitChild(p)
        /\ pc' = "respawn"
     \/ /\ ~running
        /\ pc' = "after"
        /\ UNCHANGED <<children, proc>>
  /\ UNCHANGED <<running, sigcaught, handled, forking, tosignal, disk, config,
                 signals, deaths>>

(* The inner loop of _respawn_children. *)
Respawn ==
  /\ pc = "respawn" /\ ~forking
  /\ forking' = WantsChild
  /\ pc' = IF WantsChild THEN "respawn" ELSE "poll"
  /\ UNCHANGED <<running, sigcaught, handled, children, tosignal, disk, config,
                 proc, signals, deaths>>

(* What wait does once _respawn_children is back: return if no signal is   *)
(* known, reload for SIGHUP, else stop.                                    *)
After ==
  /\ pc = "after"
  /\ \/ /\ sigcaught = None
        /\ pc' = "returned"
        /\ UNCHANGED tosignal
     \/ /\ sigcaught = "HUP" /\ Daemon
        /\ pc' = "reload"
        /\ UNCHANGED tosignal
     \/ /\ sigcaught \in {"TERM", "HUP"}
        /\ ~(sigcaught = "HUP" /\ Daemon)
        /\ pc' = "stop"
        /\ tosignal' = children
  /\ UNCHANGED <<running, sigcaught, handled, forking, children, disk, config,
                 proc, signals, deaths>>

Reload ==
  /\ pc = "reload"
  /\ config' = disk
  /\ tosignal' = children
  /\ pc' = "hup"
  /\ UNCHANGED <<running, sigcaught, handled, forking, children, disk, proc,
                 signals, deaths>>

SignalNext(signo) ==
  \E p \in tosignal :
    /\ proc' = [proc EXCEPT ![p] = Signalled(p, signo)]
    /\ tosignal' = tosignal \ {p}

(* os.kill(pid, SIGHUP) for each child, then running is set. *)
HupChildren ==
  /\ pc = "hup"
  /\ \/ /\ SignalNext("HUP")
        /\ UNCHANGED <<pc, running>>
     \/ /\ tosignal = {}
        /\ running' = TRUE
        /\ pc' = "forget"
        /\ UNCHANGED <<proc, tosignal>>
  /\ UNCHANGED <<sigcaught, handled, forking, children, disk, config, signals,
                 deaths>>

(* The last statement of the reload, on its own: a signal that has come    *)
(* since running was set is forgotten, and running stays FALSE.            *)
ForgetSignal ==
  /\ pc = "forget"
  /\ sigcaught' = None
  /\ pc' = "arm"
  /\ UNCHANGED <<running, handled, forking, children, tosignal, disk, config,
                 proc, signals, deaths>>

\* Faulty: stop waits without having signalled.
StopOnlyWaits ==
  /\ pc = "stop"
  /\ running' = FALSE
  /\ pc' = "reap" /\ tosignal' = {}
  /\ UNCHANGED <<sigcaught, handled, forking, children, disk, config, proc,
                 signals, deaths>>

(* stop: SIGTERM for each child, then wait for all of them. *)
Stop ==
  /\ pc = "stop"
  /\ running' = FALSE
  /\ \/ SignalNext("TERM") /\ UNCHANGED pc
     \/ tosignal = {} /\ pc' = "reap" /\ UNCHANGED <<proc, tosignal>>
  /\ UNCHANGED <<sigcaught, handled, forking, children, disk, config, signals,
                 deaths>>

Reap ==
  /\ pc = "reap"
  /\ \/ \E p \in Pids : WaitChild(p) /\ UNCHANGED pc
     \/ children = {} /\ pc' = "exited" /\ UNCHANGED <<children, proc>>
  /\ UNCHANGED <<running, sigcaught, handled, forking, tosignal, disk, config,
                 signals, deaths>>

ParentStep ==
  \/ Launch \/ HandleSignal \/ Poll \/ Respawn \/ After \/ Reload
  \/ HupChildren \/ ForgetSignal \/ Stop \/ Reap
  \/ StartChild /\ pc \notin Ended

-----------------------------------------------------------------------------
(* The children.                                                           *)

\* Faulty: _child_process without os.close(self.writepipe).
PipeShared == pc \in Ended /\ \A p \in Pids : ~Exists(p)

PipeClosed == pc \in Ended /\ \A p \in Pids : proc[p].at # "forked"

(* _child_process, once its first line has installed the child's handlers; *)
(* the write end of the pipe is closed.                                    *)
ChildProcess(p) ==
  /\ proc[p].at = "forked"
  /\ proc' = [proc EXCEPT ![p].at = "starting", ![p].handler = "own"]

(* The child enters the try of _child_wait_for_exit_or_signal. *)
ChildWaits(p) ==
  /\ proc[p].at = "starting"
  /\ proc' = [proc EXCEPT ![p].at = "serving"]

\* Faulty: the loop of the child goes on without launcher.restart().
ChildGoesOn(p) ==
  /\ proc[p].at = "restarting"
  /\ proc' = [proc EXCEPT ![p].at = "starting", ![p].handler = "own"]

(* launcher.restart(), and the head of the child's loop. *)
ChildRestarts(p) ==
  /\ proc[p].at = "restarting"
  /\ proc' = [proc EXCEPT ![p] =
                [at |-> "starting", handler |-> "own", config |-> disk]]

(* _pipe_watcher: the write end is closed, by the parent and by every copy *)
(* a child holds until it has started.                                     *)
PipeWatcher(p) ==
  /\ proc[p].at = "serving" /\ PipeClosed
  /\ proc' = [proc EXCEPT ![p] = Dead(p)]

ChildStep(p) ==
  /\ ChildProcess(p) \/ ChildWaits(p) \/ ChildRestarts(p) \/ PipeWatcher(p)
  /\ UNCHANGED <<parentVars, signals, deaths>>

(* A child ends by an error of its own, or is killed from outside. *)
ChildDies(p) ==
  /\ Exists(p)
  /\ deaths < MaxDeaths /\ deaths' = deaths + 1
  /\ proc' = [proc EXCEPT ![p] = Dead(p)]
  /\ UNCHANGED <<parentVars, signals>>

-----------------------------------------------------------------------------
(* Signals to the parent. SIGHUP comes with a new edition of the           *)
(* configuration files.                                                    *)

(* _handle_signal, or the default of a second signal and of SIGKILL. *)
Signal(signo) ==
  /\ pc \notin Ended
  /\ signals < MaxSignals /\ signals' = signals + 1
  /\ \/ /\ signo \in handled
        /\ sigcaught' = signo
        /\ running' = FALSE
        /\ handled' = {}
        /\ UNCHANGED pc
     \/ /\ signo \notin handled
        /\ pc' = "killed"
        /\ UNCHANGED <<running, sigcaught, handled>>
  /\ disk' = IF signo = "HUP" THEN disk + 1 ELSE disk
  /\ UNCHANGED <<forking, children, tosignal, config, proc, deaths>>

Next ==
  \/ ParentStep
  \/ \E p \in Pids : ChildStep(p) \/ ChildDies(p)
  \/ \E signo \in Signals : Signal(signo)

Spec == Init /\ [][Next]_vars

\* The parent's loops and the children are processes the system runs; nobody
\* has to send a signal and no child has to die.
Fairness == WF_vars(ParentStep) /\ \A p \in Pids : WF_vars(ChildStep(p))

FairSpec == Spec /\ Fairness

-----------------------------------------------------------------------------
(* Properties.                                                             *)

Unreaped == {p \in Pids : proc[p].at # "none"}

\* The parent knows every process it has started and not yet waited for, and
\* never has more of them than workers: _start_child, _wait_child and stop lose
\* and invent no child, whatever signals and deaths come in between. It has none
\* left when it has exited through stop. wait can also return without stop, and
\* leave its children to the pipe (ChildrenFollow), only if a SIGHUP and another
\* signal have come. (A killed parent knows nothing.)
Accounted ==
  pc # "killed" =>
    /\ children = Unreaped
    /\ Cardinality(children) <= Workers
    /\ pc = "exited" => Unreaped = {}
    /\ pc = "returned" => disk > 0 /\ signals > 1

\* A parent that has waited for a child while it runs comes to have all its
\* workers again, those a SIGHUP left unforked included (_respawn_children),
\* unless another signal comes.
WorkersReplaced ==
  (pc = "respawn" /\ running /\ Cardinality(children) < Workers)
    ~> (Cardinality(children) = Workers \/ ~running \/ pc \in Ended)

\* When wait passes SIGHUP on, each child that has left its parent's handler
\* behind ends, or comes to run with the configuration the parent has (or a
\* later one).
HupReachesChildren ==
  \A p \in Pids :
    (pc = "hup" /\ p \in tosignal /\ proc[p].handler # "catch")
      ~> (proc[p].config >= config \/ ~Exists(p) \/ pc \in Ended)

NoneInherits == \A p \in Pids : proc[p].handler # "catch"

\* SIGTERM caught by a parent in wait ends it through stop, and with it
\* (Accounted) its children, or a later signal kills it; also if a child is being
\* replaced, as long as no child still has its parent's handler. Not so for one
\* caught while the workers are launched or the handlers are installed, which a
\* SIGHUP can still replace, or caught in a reload, which forgets it.
TermEnds ==
  (/\ sigcaught = "TERM" /\ handled = {}
   /\ pc \in {"poll", "respawn", "after"} /\ NoneInherits)
    ~> pc \in {"exited", "killed"}

\* Once the parent is gone, however it ended, no child outlives it for ever:
\* each watches the pipe only the parent keeps open.
ChildrenFollow == pc \in Ended ~> \A p \in Pids : ~Exists(p)

=============================================================================
