------------------------ MODULE ProcessLauncher_proof ------------------------
(***************************************************************************)
(* ProcessLauncher never loses count of its children, for any number of    *)
(* workers, process ids, signals and deaths; and the service a process     *)
(* hosts leaves nothing behind when it is stopped, for any number of tasks *)
(* and connections, restarts and any size of the pool.                     *)
(***************************************************************************)
EXTENDS ProcessLauncher, HostedService, FiniteSetTheorems, TLAPS

(***************************************************************************)
(* The inductive invariant. StartChild adds a child without looking: what  *)
(* keeps the count is that forking is set only by a check that still       *)
(* holds, since nothing else adds to children. A child is waited for only  *)
(* when no signalling loop is on its way, which would have a dead entry    *)
(* left to signal. The set is finite because it starts empty; Cardinality  *)
(* says nothing of other sets. Forgetful follows a signal that the end of  *)
(* a reload forgets, up to the return of wait.                             *)
(***************************************************************************)
Checked ==
  (forking /\ pc # "killed") =>
    pc \in {"launch", "respawn"} /\ Cardinality(children) < Workers

Drained == pc \notin {"hup", "stop", "killed"} => tosignal = {}

\* Where a SIGHUP is still to be acted on.
Hupped ==
  /\ sigcaught = "HUP" => disk > 0
  /\ pc \in {"reload", "hup", "forget"} => disk > 0
  /\ pc = "after" => ~running

\* A reload is in hand, or the end of one has forgotten a signal: the SIGHUP
\* was one, and the signal that cleared running after it another.
Forgetful ==
  /\ disk > 0 => signals > 0
  /\ pc = "forget" /\ ~running => signals > 1
  /\ sigcaught = None /\ ~running => disk > 0 /\ signals > 1
  /\ pc = "stop" => sigcaught # None

Counted ==
  TypeOK /\ IsFiniteSet(children) /\ Checked /\ Drained /\ Accounted

Inv == Counted /\ Hupped /\ Forgetful

LEMMA InitInv == Init => Inv
<1> SUFFICES ASSUME Init PROVE Inv
  OBVIOUS
<1>1. NoProcess \in Process
  BY DEF NoProcess, Process, Stages
<1> HIDE DEF NoProcess
<1>2. proc \in [Pids -> Process]
  BY <1>1 DEF Init
<1>3. signals \in 0..MaxSignals /\ deaths \in 0..MaxDeaths
  BY BoundsAssumption DEF Init
<1>4. TypeOK
  BY <1>2, <1>3 DEF Init, TypeOK, Steps
<1>5. IsFiniteSet({}) /\ Cardinality({}) = 0
  BY FS_EmptySet
<1>6. Unreaped = {}
  BY DEF Init, Unreaped, NoProcess
<1>7. Accounted /\ Checked /\ Drained
  BY <1>5, <1>6, WorkersAssumption DEF Init, Accounted, Checked, Drained
<1>8. Hupped /\ Forgetful
  BY NoneIsNoSignal DEF Init, Hupped, Forgetful, Signals
<1>9. QED
  BY <1>4, <1>5, <1>7, <1>8 DEF Inv, Counted, Init

\* A child that is signalled stays a process of its parent.
LEMMA SignalledKeeps ==
  ASSUME Inv, NEW p \in Pids, NEW signo
  PROVE  /\ Signalled(p, signo) \in Process
         /\ Signalled(p, signo).at = "none" <=> proc[p].at = "none"
<1>1. proc[p] \in Process
  BY DEF Inv, Counted, TypeOK
<1>2. QED
  BY <1>1 DEF Signalled, Dead, Exists, Process, Stages

LEMMA SignalNextKeeps ==
  ASSUME Inv, NEW signo, SignalNext(signo), UNCHANGED children
  PROVE  /\ proc' \in [Pids -> Process]
         /\ tosignal' \in SUBSET children'
         /\ \A p \in Pids : proc'[p].at = "none" <=> proc[p].at = "none"
<1>1. PICK p \in tosignal : /\ proc' = [proc EXCEPT ![p] = Signalled(p, signo)]
                            /\ tosignal' = tosignal \ {p}
  BY DEF SignalNext
<1>2. p \in Pids /\ proc \in [Pids -> Process]
  BY DEF Inv, Counted, TypeOK
<1>3. /\ Signalled(p, signo) \in Process
      /\ Signalled(p, signo).at = "none" <=> proc[p].at = "none"
  BY <1>2, SignalledKeeps
<1> HIDE DEF Signalled
<1>4. QED
  BY <1>1, <1>2, <1>3 DEF Inv, Counted, TypeOK

\* A child that is waited for leaves the dictionary and the process table.
LEMMA WaitChildCounts ==
  ASSUME Inv, pc # "killed", NEW p \in Pids, WaitChild(p)
  PROVE  /\ proc' \in [Pids -> Process]
         /\ children' \in SUBSET Pids
         /\ IsFiniteSet(children') /\ children' = Unreaped'
         /\ Cardinality(children') < Workers
<1>1. /\ p \in children /\ children' = children \ {p}
      /\ proc' = [proc EXCEPT ![p] = NoProcess]
  BY DEF WaitChild
<1>2. NoProcess \in Process /\ NoProcess.at = "none"
  BY DEF NoProcess, Process, Stages
<1> HIDE DEF NoProcess
<1>3. proc \in [Pids -> Process] /\ children = Unreaped
  BY DEF Inv, Counted, TypeOK, Accounted
<1>4. /\ proc' \in [Pids -> Process]
      /\ children' = Unreaped'
  BY <1>1, <1>2, <1>3 DEF Unreaped
<1>5. IsFiniteSet(children) /\ Cardinality(children) \in Nat
      /\ Cardinality(children) <= Workers
  BY FS_CardinalityType DEF Inv, Counted, Accounted
<1>6. IsFiniteSet(children') /\ Cardinality(children') = Cardinality(children) - 1
  BY <1>1, <1>5, FS_RemoveElement
<1>7. QED
  BY <1>1, <1>4, <1>5, <1>6, WorkersAssumption DEF Inv, Counted, TypeOK

(***************************************************************************)
(* The steps of the parent.                                                *)
(***************************************************************************)

\* The two loops that check before a fork.
LEMMA CheckInv ==
  ASSUME Inv, Launch \/ Respawn
  PROVE  Counted'
<1>1. WantsChild \in BOOLEAN
  BY DEF WantsChild
<1>2. WantsChild => Cardinality(children) < Workers
  BY DEF WantsChild
<1>3. /\ pc \in {"launch", "respawn"} /\ forking' = WantsChild
      /\ WantsChild => pc' = pc
      /\ pc' \in {"launch", "arm", "respawn", "poll"}
      /\ UNCHANGED <<running, sigcaught, handled, children, tosignal, disk,
                     config, proc, signals, deaths>>
  BY DEF Launch, Respawn
<1> HIDE DEF WantsChild
<1>4. TypeOK'
  BY <1>1, <1>3 DEF Inv, Counted, TypeOK, Steps
<1>5. Checked' /\ Drained'
  BY <1>2, <1>3 DEF Inv, Counted, Checked, Drained
<1>6. Accounted'
  BY <1>3 DEF Inv, Counted, Accounted, Unreaped
<1>7. QED
  BY <1>3, <1>4, <1>5, <1>6 DEF Inv, Counted

LEMMA StartChildInv ==
  ASSUME Inv, StartChild, pc \notin Ended
  PROVE  Counted'
<1>1. PICK p \in Pids :
        /\ proc[p].at = "none"
        /\ proc' = [proc EXCEPT
             ![p] = [at |-> "forked", handler |-> Inherited, config |-> config]]
        /\ children' = children \cup {p}
  BY DEF StartChild
<1>2. /\ forking /\ forking' = FALSE
      /\ UNCHANGED <<pc, running, sigcaught, handled, tosignal, disk, config,
                     signals, deaths>>
  BY DEF StartChild
<1>3. pc \notin {"killed", "returned", "exited"}
  BY DEF Ended
<1>4. proc \in [Pids -> Process] /\ children = Unreaped
      /\ Inherited \in {"catch", "default"} /\ config \in Nat
  BY <1>3 DEF Inv, Counted, TypeOK, Accounted, Inherited
<1> DEFINE new == [at |-> "forked", handler |-> Inherited, config |-> config]
<1>5. new \in Process /\ new.at # "none"
  BY <1>4 DEF Process, Stages
<1>6. proc' = [proc EXCEPT ![p] = new]
  BY <1>1
<1> HIDE DEF new
<1>7. proc' \in [Pids -> Process]
  BY <1>4, <1>5, <1>6
<1>8. TypeOK'
  BY <1>1, <1>2, <1>7 DEF Inv, Counted, TypeOK
<1>9. p \notin children /\ children' = Unreaped'
  BY <1>1, <1>4, <1>5, <1>6 DEF Unreaped
<1>10. /\ IsFiniteSet(children')
      /\ Cardinality(children') = Cardinality(children) + 1
  BY <1>1, <1>9, FS_AddElement DEF Inv, Counted
<1>11. Cardinality(children) \in Nat /\ Cardinality(children) < Workers
  BY <1>2, <1>3, FS_CardinalityType DEF Inv, Counted, Checked
<1>12. Cardinality(children') <= Workers
  BY <1>10, <1>11, WorkersAssumption
<1>13. QED
  BY <1>2, <1>3, <1>8, <1>9, <1>10, <1>12
     DEF Inv, Counted, Checked, Drained, Accounted

\* The two places that wait for a child.
LEMMA WaitInv ==
  ASSUME Inv, Poll \/ Reap
  PROVE  Counted'
<1>1. /\ pc \in {"poll", "reap"}
      /\ UNCHANGED <<running, sigcaught, handled, forking, tosignal, disk,
                     config, signals, deaths>>
  BY DEF Poll, Reap
<1>2. ~forking /\ tosignal = {}
  BY <1>1 DEF Inv, Counted, Checked, Drained
<1>3. ASSUME NEW p \in Pids, WaitChild(p), pc' \in {"respawn", "reap"}
      PROVE  Counted'
  <2>1. /\ proc' \in [Pids -> Process]
        /\ children' \in SUBSET Pids
        /\ IsFiniteSet(children') /\ children' = Unreaped'
        /\ Cardinality(children') < Workers
    BY <1>1, <1>3, WaitChildCounts
  <2>2. Cardinality(children') <= Workers
    BY <2>1, FS_CardinalityType, WorkersAssumption
  <2>3. TypeOK'
    BY <1>1, <1>2, <1>3, <2>1 DEF Inv, Counted, TypeOK, Steps
  <2>4. QED
    BY <1>1, <1>2, <1>3, <2>1, <2>2, <2>3
       DEF Inv, Counted, Checked, Drained, Accounted
<1>4. ASSUME UNCHANGED <<children, proc>>, pc' \in {"after", "exited"},
             pc' = "exited" => children = {}
      PROVE  Counted'
  <2>1. TypeOK'
    BY <1>1, <1>4 DEF Inv, Counted, TypeOK, Steps, Ended
  <2>2. Unreaped' = Unreaped
    BY <1>4 DEF Unreaped
  <2>3. QED
    BY <1>1, <1>2, <1>4, <2>1, <2>2 DEF Inv, Counted, Checked, Drained, Accounted
<1>5. QED
  BY <1>3, <1>4 DEF Poll, Reap

\* The steps that leave children and processes alone.
LEMMA QuietInv ==
  ASSUME Inv, HandleSignal \/ After \/ Reload \/ ForgetSignal
  PROVE  Counted'
<1>1. /\ pc \in {"arm", "rearm", "after", "reload", "forget"}
      /\ pc' \in {"arm", "rearm", "poll", "reload", "hup", "returned", "stop"}
      /\ \/ tosignal' = tosignal
         \/ tosignal' = children /\ pc' \in {"hup", "stop"}
      /\ pc' = "returned" => pc = "after" /\ sigcaught = None
      /\ handled' \in SUBSET {"TERM", "HUP"} /\ config' \in {config, disk}
      /\ sigcaught' \in {sigcaught, None}
      /\ UNCHANGED <<running, forking, children, disk, proc, signals, deaths>>
  BY DEF Inv, Counted, TypeOK, HandleSignal, After, Reload, ForgetSignal
<1>2. TypeOK'
  BY <1>1 DEF Inv, Counted, TypeOK, Steps, Ended
<1>3. Unreaped' = Unreaped
  BY <1>1 DEF Unreaped
<1>4. Drained'
  BY <1>1 DEF Inv, Counted, Drained
<1>5. pc' = "returned" => disk > 0 /\ signals > 1
  BY <1>1 DEF Inv, Hupped, Forgetful
<1>6. Accounted'
  BY <1>1, <1>3, <1>5 DEF Inv, Counted, Accounted
<1>7. QED
  BY <1>1, <1>2, <1>4, <1>6 DEF Inv, Counted, Checked

\* The two loops that signal the children.
LEMMA SignallingInv ==
  ASSUME Inv, HupChildren \/ Stop
  PROVE  Counted'
<1>1. /\ pc \in {"hup", "stop"}
      /\ running' \in BOOLEAN /\ sigcaught' \in {sigcaught, None}
      /\ UNCHANGED <<handled, forking, children, disk, config, signals, deaths>>
  BY DEF Inv, Counted, TypeOK, HupChildren, Stop
<1>2. \/ pc' = pc /\ \E signo \in Signals : SignalNext(signo)
      \/ /\ pc' \in {"forget", "reap"} /\ tosignal = {}
         /\ UNCHANGED <<proc, tosignal>>
  BY DEF HupChildren, Stop, Signals
<1>3. /\ proc' \in [Pids -> Process]
      /\ tosignal' \in SUBSET children'
      /\ \A p \in Pids : proc'[p].at = "none" <=> proc[p].at = "none"
  BY <1>1, <1>2, SignalNextKeeps DEF Inv, Counted, TypeOK
<1>4. TypeOK'
  BY <1>1, <1>2, <1>3 DEF Inv, Counted, TypeOK, Steps
<1>5. Unreaped' = Unreaped
  BY <1>3 DEF Unreaped
<1>6. Drained'
  BY <1>1, <1>2 DEF Drained
<1>7. QED
  BY <1>1, <1>2, <1>4, <1>5, <1>6 DEF Inv, Counted, Checked, Accounted

(***************************************************************************)
(* Children and signals.                                                   *)
(***************************************************************************)
LEMMA ChildInv ==
  ASSUME Inv, NEW p \in Pids, ChildStep(p) \/ ChildDies(p)
  PROVE  Counted'
<1>1. /\ UNCHANGED <<pc, running, sigcaught, handled, forking, children,
                     tosignal, disk, config, signals>>
      /\ deaths' \in 0..MaxDeaths
  BY BoundsAssumption DEF Inv, Counted, TypeOK, ChildStep, ChildDies, parentVars
<1>2. PICK q \in Process :
        q.at # "none" /\ proc[p].at # "none" /\ proc' = [proc EXCEPT ![p] = q]
  <2>1. proc[p] \in Process /\ proc \in [Pids -> Process] /\ disk \in Nat
    BY DEF Inv, Counted, TypeOK
  <2>2. CASE ChildProcess(p)
    <3>1. proc' = [proc EXCEPT ![p] =
                     [proc[p] EXCEPT !.at = "starting", !.handler = "own"]]
      BY <2>1, <2>2 DEF ChildProcess, Process
    <3>2. QED
      BY <2>1, <2>2, <3>1 DEF ChildProcess, Process, Stages
  <2>3. CASE ChildWaits(p)
    <3>1. proc' = [proc EXCEPT ![p] = [proc[p] EXCEPT !.at = "serving"]]
      BY <2>1, <2>3 DEF ChildWaits, Process
    <3>2. QED
      BY <2>1, <2>3, <3>1 DEF ChildWaits, Process, Stages
  <2>4. CASE ChildRestarts(p)
    BY <2>1, <2>4 DEF ChildRestarts, Process, Stages
  <2>5. CASE PipeWatcher(p) \/ ChildDies(p)
    BY <2>1, <2>5 DEF PipeWatcher, ChildDies, Dead, Exists, Process, Stages
  <2>6. QED
    BY <2>2, <2>3, <2>4, <2>5 DEF ChildStep
<1>3. TypeOK'
  BY <1>1, <1>2 DEF Inv, Counted, TypeOK
<1>4. Unreaped' = Unreaped
  BY <1>2 DEF Unreaped, Inv, Counted, TypeOK
<1>5. QED
  BY <1>1, <1>3, <1>4 DEF Inv, Counted, Checked, Drained, Accounted

LEMMA SignalInv ==
  ASSUME Inv, NEW signo \in Signals, Signal(signo)
  PROVE  Counted'
<1>1. /\ pc \notin {"exited", "returned"} /\ pc' \in {pc, "killed"}
      /\ sigcaught' \in {sigcaught, "TERM", "HUP"} /\ running' \in {running, FALSE}
      /\ handled' \in SUBSET {"TERM", "HUP"}
      /\ UNCHANGED <<forking, children, tosignal, config, proc, deaths>>
  BY DEF Inv, Counted, TypeOK, Signal, Signals, Ended
<1>2. disk' \in Nat /\ signals' \in 0..MaxSignals
  BY BoundsAssumption DEF Inv, Counted, TypeOK, Signal
<1>3. TypeOK'
  BY <1>1, <1>2 DEF Inv, Counted, TypeOK, Ended
<1>4. Unreaped' = Unreaped
  BY <1>1 DEF Unreaped
<1>5. QED
  BY <1>1, <1>3, <1>4 DEF Inv, Counted, Checked, Drained, Accounted

-----------------------------------------------------------------------------

LEMMA CountedStep ==
  ASSUME Inv, [Next]_vars
  PROVE  Counted'
<1>1. CASE ParentStep
  BY <1>1, CheckInv, StartChildInv, WaitInv, QuietInv, SignallingInv
     DEF ParentStep
<1>2. ASSUME NEW p \in Pids, ChildStep(p) \/ ChildDies(p) PROVE Counted'
  BY <1>2, ChildInv
<1>3. ASSUME NEW signo \in Signals, Signal(signo) PROVE Counted'
  BY <1>3, SignalInv
<1>4. CASE UNCHANGED vars
  BY <1>4 DEF Inv, Counted, TypeOK, Checked, Drained, Accounted, Unreaped, vars
<1>5. QED
  BY <1>1, <1>2, <1>3, <1>4 DEF Next

\* What is known of the signals that have come.
LEMMA SignalsStep ==
  ASSUME Inv, [Next]_vars
  PROVE  Hupped' /\ Forgetful'
<1>1. disk \in Nat /\ signals \in Nat
  BY BoundsAssumption DEF Inv, Counted, TypeOK
<1>2. CASE Launch \/ Respawn \/ Poll
  BY <1>2 DEF Launch, Respawn, Poll, Inv, Hupped, Forgetful
<1>3. CASE StartChild
  BY <1>3 DEF StartChild, Inv, Hupped, Forgetful
<1>4. CASE HandleSignal \/ Reload
  BY <1>4 DEF HandleSignal, Reload, Inv, Hupped, Forgetful
<1>5. CASE After
  BY <1>5, NoneIsNoSignal DEF After, Inv, Hupped, Forgetful, Signals
<1>6. CASE HupChildren \/ ForgetSignal
  BY <1>6, NoneIsNoSignal
     DEF HupChildren, ForgetSignal, Inv, Hupped, Forgetful, Signals
<1>7. CASE Stop \/ Reap
  BY <1>7 DEF Stop, Reap, Inv, Hupped, Forgetful
<1>8. ASSUME NEW p \in Pids, ChildStep(p) \/ ChildDies(p)
      PROVE  Hupped' /\ Forgetful'
  BY <1>8 DEF ChildStep, ChildDies, parentVars, Inv, Hupped, Forgetful
<1>9. ASSUME NEW signo \in Signals, Signal(signo)
      PROVE  Hupped' /\ Forgetful'
  <2>1. /\ disk' = IF signo = "HUP" THEN disk + 1 ELSE disk
        /\ signals' = signals + 1
    BY <1>9 DEF Signal
  <2>2. /\ signals' > 0 /\ (signals > 0 => signals' > 1)
        /\ (signals > 1 => signals' > 1)
        /\ (disk > 0 \/ signo = "HUP") => disk' > 0
    BY <1>1, <2>1
  <2>3. CASE UNCHANGED <<sigcaught, running>> /\ pc' = "killed" /\ disk' > 0
    BY <2>2, <2>3 DEF Inv, Hupped, Forgetful
  <2>4. CASE UNCHANGED <<sigcaught, running>> /\ pc' = "killed" /\ disk' = disk
    BY <2>2, <2>4 DEF Inv, Hupped, Forgetful
  <2>5. CASE /\ sigcaught' = signo /\ running' = FALSE /\ pc' = pc
    BY <2>2, <2>5, NoneIsNoSignal DEF Inv, Hupped, Forgetful
  <2>6. QED
    BY <1>9, <2>1, <2>2, <2>3, <2>4, <2>5 DEF Signal
<1>10. CASE UNCHANGED vars
  BY <1>10 DEF vars, Inv, Hupped, Forgetful
<1>11. QED
  BY <1>2, <1>3, <1>4, <1>5, <1>6, <1>7, <1>8, <1>9, <1>10 DEF Next, ParentStep

LEMMA InvStep == Inv /\ [Next]_vars => Inv'
  BY CountedStep, SignalsStep DEF Inv

\* Types, and the count of children: whatever signals arrive and children die
\* between any two steps of launch_service, _respawn_children, wait and stop,
\* the parent of a ProcessLauncher knows exactly the children it has not waited
\* for, never has more than its number of workers, and has none when it exits
\* through stop; and wait does not return without stop unless a SIGHUP and
\* another signal have come (the end of the reload forgets the last one).
THEOREM ChildrenAccounted == Spec => [](TypeOK /\ Accounted)
<1>1. Inv => TypeOK /\ Accounted
  BY DEF Inv, Counted
<1>2. QED
  BY InitInv, InvStep, <1>1, PTL DEF Spec

\* A parent that waits has all its workers, unless a SIGHUP has come.
AllWorkers ==
  pc \in {"arm", "rearm", "poll"} /\ running /\ disk = 0 => Cardinality(children) = Workers

LEMMA AllWorkersStep ==
  ASSUME Inv, AllWorkers, [Next]_vars
  PROVE  AllWorkers'
<1>1. /\ disk \in Nat
      /\ pc # "killed" => Cardinality(children) <= Workers
      /\ IsFiniteSet(children) /\ Cardinality(children) \in Nat
  BY FS_CardinalityType DEF Inv, Counted, TypeOK, Accounted
<1>2. CASE Launch \/ Respawn
  <2>1. /\ UNCHANGED <<running, sigcaught, children, disk>>
        /\ pc' \in {"launch", "respawn"} \/ (pc' \in {"arm", "poll"} /\ ~WantsChild)
        /\ pc # "killed"
    BY <1>2 DEF Launch, Respawn
  <2>2. PICK n \in Nat : n = Cardinality(children)
    BY <1>1
  <2>3. n <= Workers /\ (running /\ ~WantsChild => ~(n < Workers))
    BY <1>1, <2>1, <2>2 DEF WantsChild
  <2>4. running /\ ~WantsChild => n = Workers
    BY <2>3, WorkersAssumption
  <2>5. QED
    BY <2>1, <2>2, <2>4 DEF AllWorkers
<1>3. CASE StartChild /\ pc \notin Ended
  <2>1. pc \in {"launch", "respawn"} /\ UNCHANGED <<pc, running, sigcaught, disk>>
    BY <1>3 DEF StartChild, Inv, Counted, Checked, Ended
  <2>2. QED
    BY <2>1 DEF AllWorkers
<1>4. CASE HandleSignal \/ Reload
  BY <1>4 DEF HandleSignal, Reload, AllWorkers
<1>5. CASE Poll \/ After
  BY <1>5 DEF Poll, After, AllWorkers
<1>6. CASE HupChildren \/ ForgetSignal
  <2>1. (disk' = 0) => (disk = 0)
    BY <1>6 DEF HupChildren, ForgetSignal
  <2>2. pc = "forget" => disk # 0
    BY <1>1 DEF Inv, Hupped
  <2>3. QED
    BY <1>6, <2>1, <2>2 DEF HupChildren, ForgetSignal, AllWorkers
<1>7. CASE Stop \/ Reap
  BY <1>7 DEF Stop, Reap, AllWorkers
<1>8. ASSUME NEW p \in Pids, ChildStep(p) \/ ChildDies(p)
      PROVE  AllWorkers'
  BY <1>8 DEF ChildStep, ChildDies, parentVars, AllWorkers
<1>9. ASSUME NEW signo \in Signals, Signal(signo)
      PROVE  AllWorkers'
  <2>1. /\ disk' = disk \/ disk' = disk + 1
        /\ signo = "HUP" => disk' = disk + 1
        /\ children' = children
    BY <1>9 DEF Signal
  <2>2. /\ pc' = pc \/ pc' = "killed"
        /\ UNCHANGED <<sigcaught, running>> \/ (sigcaught' = signo /\ running' = FALSE)
    BY <1>9 DEF Signal
  <2>3. (disk' = 0) => (disk = 0 /\ signo # "HUP")
    BY <1>1, <2>1
  <2>4. AllWorkers'
    BY <2>1, <2>2, <2>3 DEF AllWorkers
  <2>5. QED
    BY <2>4
<1>10. CASE UNCHANGED vars
  BY <1>10 DEF vars, AllWorkers
<1>11. QED
  BY <1>2, <1>3, <1>4, <1>5, <1>6, <1>7, <1>8, <1>9, <1>10 DEF Next, ParentStep

\* launch_service and _respawn_children fork until no worker is missing: a parent
\* that goes into os.waitpid while it runs and no SIGHUP has come has as many
\* children as workers, whatever died while it forked.  (A SIGHUP cuts the
\* forking short, and the reload sets running without looking again.)
THEOREM WaitsWithAllWorkers == Spec => []AllWorkers
<1>1. Init => Inv /\ AllWorkers
  BY InitInv DEF Init, AllWorkers
<1>2. Inv /\ AllWorkers /\ [Next]_vars => (Inv /\ AllWorkers)'
  BY InvStep, AllWorkersStep
<1>3. QED
  BY <1>1, <1>2, PTL DEF Spec

-----------------------------------------------------------------------------
(* The service of the process.                                             *)

Places == {"none", "delay", "calling", "resting", "over"}

HostTypeOK ==
  /\ kind \in {"poller", "api"}
  /\ host \in {"serving", "stopping", "waiting", "stopped", "ended"}
  /\ reload \in BOOLEAN /\ reloads \in Nat
  /\ thread \in {"spawned", "waiting", "reaped"}
  /\ loop \in [Loops -> Places]
  /\ live \in SUBSET Loops /\ timers \in SUBSET Loops
  /\ server \in {"none", "accepting", "exited", "killed"}
  /\ conn \in [Conns -> {"none", "backlog", "held", "handled", "answered",
                         "cut", "dropped"}]

(***************************************************************************)
(* What of the poller goes on is of its last start and still in the timers,*)
(* which StopPoller empties; between a stop and the next run_service       *)
(* nothing goes on.                                                        *)
(***************************************************************************)
GoesOnNow ==
  \A l \in live : loop[l] # "over" =>
    /\ l[1] = reloads + 1 /\ l \in timers
    /\ thread # "spawned" /\ host \in {"serving", "stopping"}

\* What the server does it does between run_service and StopApi; only the
\* requests it has begun outlive it, until WaitApi.
ServesNow ==
  /\ server = "accepting" => host \in {"serving", "stopping"}
  /\ In("held") # {} => server = "accepting"
  /\ host \in {"stopped", "ended"} => In("handled") = {}

\* A process has one kind of service, the other leaves no trace in it.
OneKind ==
  /\ kind = "api" => live = {}
  /\ kind = "poller" => server = "none" /\ \A c \in Conns : conn[c] = "none"

HostInv == HostTypeOK /\ GoesOnNow /\ ServesNow /\ OneKind

LEMMA HostInitInv == HostInit => HostInv
<1> SUFFICES ASSUME HostInit PROVE HostInv
  OBVIOUS
<1>1. HostTypeOK
  BY DEF HostInit, HostTypeOK, Places
<1>2. GoesOnNow
  BY DEF HostInit, GoesOnNow
<1>3. ServesNow /\ OneKind
  BY DEF HostInit, ServesNow, OneKind, In
<1>4. QED
  BY <1>1, <1>2, <1>3 DEF HostInv

\* run_service adds loops of this start only, and finds none that go on.
LEMMA RunServiceInv ==
  ASSUME HostInv, RunService
  PROVE  HostInv'
<1>1. CASE StartPoller
  <2>1. HostTypeOK'
    BY <1>1 DEF HostInv, HostTypeOK, RunService, StartPoller, apiVars, Started,
                Places
  <2>2. GoesOnNow'
    <3> SUFFICES ASSUME NEW l \in live', loop'[l] # "over"
                 PROVE  /\ l[1] = reloads' + 1 /\ l \in timers'
                        /\ thread' # "spawned"
                        /\ host' \in {"serving", "stopping"}
      BY DEF GoesOnNow
    <3>1. l \in Started
      BY <1>1 DEF HostInv, HostTypeOK, GoesOnNow, RunService, StartPoller, Started
    <3>2. QED
      BY <1>1, <3>1 DEF RunService, StartPoller, Started
  <2>3. ServesNow' /\ OneKind'
    BY <1>1 DEF HostInv, ServesNow, OneKind, In, RunService, StartPoller, apiVars
  <2>4. QED
    BY <2>1, <2>2, <2>3 DEF HostInv
<1>2. CASE StartApi
  BY <1>2 DEF HostInv, HostTypeOK, GoesOnNow, ServesNow, OneKind, In, RunService,
              StartApi, pollerVars
<1>3. QED
  BY <1>1, <1>2 DEF RunService

LEMMA LoopInv ==
  ASSUME HostInv, NEW l \in Loops, Wakes(l) \/ CallEnds(l)
  PROVE  HostInv'
<1>1. /\ loop' = [loop EXCEPT ![l] = loop'[l]] /\ loop'[l] \in Places
      /\ loop[l] # "over"
      /\ live' \subseteq live
      /\ UNCHANGED <<kind, host, reload, reloads, thread, timers, server, pool, conn>>
  BY DEF HostInv, HostTypeOK, Wakes, CallEnds, launcherVars, apiVars, Places
<1>2. HostTypeOK'
  BY <1>1 DEF HostInv, HostTypeOK
<1>3. GoesOnNow'
  BY <1>1 DEF HostInv, HostTypeOK, GoesOnNow
<1>4. ServesNow' /\ OneKind'
  BY <1>1 DEF HostInv, ServesNow, OneKind, In
<1>5. QED
  BY <1>2, <1>3, <1>4 DEF HostInv

LEMMA ConnInv ==
  ASSUME HostInv, NEW c \in Conns,
         Arrives(c) \/ Accept(c) \/ Unblock(c) \/ Respond(c)
  PROVE  HostInv'
<1>1. UNCHANGED <<kind, host, reload, reloads, thread, loop, live, timers, server, pool>>
  BY DEF Arrives, Accept, Unblock, Respond, launcherVars, pollerVars
<1>2. /\ conn' = [conn EXCEPT ![c] = conn'[c]]
      /\ conn'[c] \in {"backlog", "held", "handled", "answered"}
      /\ conn'[c] \in {"held", "handled"} => server = "accepting"
      /\ kind = "api"
  BY DEF HostInv, HostTypeOK, OneKind, Arrives, Accept, Unblock, Respond
<1>3. HostTypeOK' /\ GoesOnNow'
  BY <1>1, <1>2 DEF HostInv, HostTypeOK, GoesOnNow
<1>4. ServesNow' /\ OneKind'
  BY <1>1, <1>2 DEF HostInv, HostTypeOK, ServesNow, OneKind, In
<1>5. QED
  BY <1>3, <1>4 DEF HostInv

LEMMA HostSignalInv ==
  ASSUME HostInv, (\E hup \in BOOLEAN : Caught(hup)) \/ SignalLost
  PROVE  HostInv'
<1>1. CASE SignalLost
  BY <1>1 DEF HostInv, HostTypeOK, GoesOnNow, ServesNow, OneKind, In, SignalLost,
              launcherVars, pollerVars
<1>2. ASSUME NEW hup \in BOOLEAN, Caught(hup) PROVE HostInv'
  <2>1. /\ host = "serving" /\ host' = "stopping" /\ reload' = hup
        /\ UNCHANGED <<kind, reloads, thread, live, timers, server, pool>>
    BY <1>2 DEF Caught
  <2>2. /\ loop' \in [Loops -> Places]
        /\ \A l \in Loops : loop'[l] = loop[l] \/ loop'[l] = "over"
    BY <1>2 DEF Caught, HostInv, HostTypeOK, Places
  <2>3. /\ conn' \in [Conns -> {"none", "backlog", "held", "handled", "answered",
                                "cut", "dropped"}]
        /\ \A c \in Conns : \/ conn'[c] = conn[c]
                            \/ conn[c] = "handled" /\ conn'[c] = "cut"
    BY <1>2 DEF Caught, HostInv, HostTypeOK
  <2>4. HostTypeOK' /\ GoesOnNow'
    BY <2>1, <2>2, <2>3 DEF HostInv, HostTypeOK, GoesOnNow
  <2>5. ServesNow' /\ OneKind'
    BY <2>1, <2>3 DEF HostInv, ServesNow, OneKind, In
  <2>6. QED
    BY <2>4, <2>5 DEF HostInv
<1>3. QED
  BY <1>1, <1>2

LEMMA HostLauncherInv ==
  ASSUME HostInv, LauncherGoes
  PROVE  HostInv'
<1>1. CASE StopPoller
  <2>1. ServesNow' /\ OneKind'
    BY <1>1 DEF HostInv, ServesNow, OneKind, In, StopPoller, apiVars
  <2>2. HostTypeOK' /\ GoesOnNow'
    BY <1>1 DEF HostInv, HostTypeOK, GoesOnNow, StopPoller, StopTimers, apiVars
  <2>3. QED
    BY <2>1, <2>2 DEF HostInv
<1>2. CASE StopApi
  BY <1>2 DEF HostInv, HostTypeOK, GoesOnNow, ServesNow, OneKind, In, StopApi,
              pollerVars, apiVars
<1>3. CASE WaitApi \/ End
  BY <1>3 DEF HostInv, HostTypeOK, GoesOnNow, ServesNow, OneKind, In, WaitApi, End,
              pollerVars, apiVars
<1>4. CASE Restart
  BY <1>4 DEF HostInv, HostTypeOK, GoesOnNow, ServesNow, OneKind, In, Restart, Reset,
              pollerVars
<1>5. QED
  BY <1>1, <1>2, <1>3, <1>4 DEF LauncherGoes

\* Services.stop and Services.restart: whatever a report does meanwhile and
\* wherever a signal lands, once the stop has returned no looping call begins
\* another and the server neither accepts, holds nor handles anything; and
\* after any number of restarts a task has one loop that goes on.
THEOREM StopsLeaveNothing == HostSpec => []StopLeavesNothing
<1>1. HostInit => HostInv
  BY HostInitInv
<1>2. HostInv /\ [HostNext]_hostVars => HostInv'
  <2> SUFFICES ASSUME HostInv, [HostNext]_hostVars PROVE HostInv'
    OBVIOUS
  <2>1. CASE UNCHANGED hostVars
    BY <2>1 DEF HostInv, HostTypeOK, GoesOnNow, ServesNow, OneKind, In, hostVars
  <2>2. QED
    BY <2>1, RunServiceInv, LoopInv, ConnInv, HostSignalInv, HostLauncherInv
       DEF HostNext
<1>3. HostInv => StopLeavesNothing
  <2> SUFFICES ASSUME HostInv PROVE StopLeavesNothing
    OBVIOUS
  <2>1. ASSUME host \in {"stopped", "ended"}
        PROVE  /\ live \cap {l \in Loops : loop[l] # "over"} = {}
               /\ server # "accepting" /\ In("held") = {} /\ In("handled") = {}
    BY <2>1 DEF HostInv, GoesOnNow, ServesNow
  <2>2. ASSUME NEW l \in live, NEW m \in live, l[2] = m[2],
               loop[l] # "over", loop[m] # "over"
        PROVE  l = m
    <3>1. l[1] = m[1]
      BY <2>2 DEF HostInv, GoesOnNow
    <3>2. /\ l \in (1 .. MaxReloads + 1) \X PollTasks
          /\ m \in (1 .. MaxReloads + 1) \X PollTasks
      BY DEF HostInv, HostTypeOK, Loops
    <3>3. QED
      BY <2>2, <3>1, <3>2
  <2>3. QED
    BY <2>1, <2>2 DEF StopLeavesNothing
<1>4. QED
  BY <1>1, <1>2, <1>3, PTL DEF HostSpec

=============================================================================
