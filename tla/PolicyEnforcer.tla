---------------------------- MODULE PolicyEnforcer ----------------------------
(* The rules in force: report.policy's one Enforcer, the file cache of        *)
(* fileutils it reads through, and the policy files an administrator edits    *)
(* meanwhile.  A load reads the main file and then the files of the policy    *)
(* directory in the order of their names; between the stat and the read of a  *)
(* file, and between two files, the disk may change.                          *)
EXTENDS PolicyRules

CONSTANTS Main, DirFiles,       \* policy_file; the names policy_dirs may hold
          Place,                \* where each of DirFiles comes when sorted
          Texts,                \* what a file may say: rule names to raw rules
          Malformed,            \* a text that is no JSON
          Absent, NotCached, NoEnforcer, Idle,
          Names,                \* the rule names the files and callers use
          MaxTime, MaxEdits     \* bounds: ticks of the clock, edits of files

ASSUME DirAssumption ==
    /\ Main \notin DirFiles
    /\ Place \in [DirFiles -> Nat]
    /\ \A f, g \in DirFiles : Place[f] = Place[g] => f = g

Files == {Main} \cup DirFiles
DefaultRule == "default"        \* CONF.policy_default_rule

VARIABLES disk,         \* each file's [mtime, text], or Absent
          now, edits,   \* the clock files are stamped with; edits made
          cache,        \* fileutils._FILE_CACHE
          enforcer,     \* policy._ENFORCER: its rules, their default and use_conf
          call,         \* the call of load_rules that is running
          \* history, for the properties:
          again,        \* files written in the very tick their cached text is of
          overlaid      \* names the directory has given since Main was applied

filesVars   == <<disk, now, edits>>
historyVars == <<again, overlaid>>
enforcerVars == <<disk, now, edits, cache, enforcer, call, again, overlaid>>

Parsed(t) == [n \in DOMAIN t |-> IF t[n].list THEN ParseList(t[n].raw) ELSE ParseText(t[n].raw)]
Over(new, old) == [n \in DOMAIN new \cup DOMAIN old |-> IF n \in DOMAIN new THEN new[n] ELSE old[n]]
NoRules == [n \in {} |-> TrueCheck]

New(use_conf) == [rules |-> NoRules, dflt |-> DefaultRule, use_conf |-> use_conf]
Inited(use_conf) == IF enforcer = NoEnforcer THEN New(use_conf) ELSE enforcer

(* Enforcer.set_rules                                                          *)
WithRules(e, rules, overwrite, use_conf) ==
    [e EXCEPT !.rules = IF overwrite THEN rules ELSE Over(rules, @), !.use_conf = use_conf]

EnforcerInit ==
    /\ disk \in [Files -> {Absent}] \cup { [f \in Files |-> IF f = Main THEN [mtime |-> 0, text |-> t] ELSE Absent] : t \in Texts }
    /\ now = 0 /\ edits = 0
    /\ cache = [f \in Files |-> NotCached]
    /\ enforcer = NoEnforcer
    /\ call = Idle
    /\ again = {} /\ overlaid = {}

-----------------------------------------------------------------------------
(* The administrator and the clock (external).                                *)

SameTick(f) == \/ cache[f] # NotCached /\ cache[f].mtime = now
               \/ call # Idle /\ call.file = f /\ call.mtime = now

Edit(f) ==
    /\ edits < MaxEdits /\ edits' = edits + 1
    /\ \E d \in { [mtime |-> now, text |-> t] : t \in Texts } \cup {Absent} :
          /\ d # disk[f]
          /\ disk' = [disk EXCEPT ![f] = d]
    /\ again' = IF SameTick(f) THEN again \cup {f} ELSE again
    /\ UNCHANGED <<now, cache, enforcer, call, overlaid>>

Tick == now < MaxTime /\ now' = now + 1 /\ UNCHANGED <<disk, edits, cache, enforcer, call, historyVars>>

-----------------------------------------------------------------------------
(* enforce, check_is_admin and load_rules.                                    *)

(* the call of load_rules: the file it is at, the mtime it has found, the     *)
(* files of the directory still to do ("listed" is all of them, for the       *)
(* properties)                                                                *)
At(stage) == [stage |-> stage, file |-> Main, mtime |-> -1, force |-> FALSE,
              todo |-> {}, listed |-> {}]

EnforceCall ==
    /\ call = Idle
    /\ enforcer' = Inited(TRUE)
    /\ call' = At(IF enforcer'.use_conf THEN "stat" ELSE "answer")
    /\ UNCHANGED <<filesVars, cache, historyVars>>

(* load_rules(True)                                                           *)
ForceLoad ==
    /\ call = Idle /\ enforcer # NoEnforcer
    /\ enforcer' = [enforcer EXCEPT !.use_conf = TRUE]
    /\ call' = [At("stat") EXCEPT !.force = TRUE]
    /\ UNCHANGED <<filesVars, cache, historyVars>>

Raise == call' = Idle

(* read_cached_file up to getmtime, which raises when there is no such file   *)
StatFile ==
    /\ call # Idle /\ call.stage = "stat"
    /\ cache' = IF call.force THEN [cache EXCEPT ![call.file] = NotCached] ELSE cache
    /\ IF disk[call.file] = Absent THEN Raise
       ELSE call' = [call EXCEPT !.stage = "read", !.mtime = disk[call.file].mtime]
    /\ UNCHANGED <<filesVars, enforcer, historyVars>>

(* Faulty: the text of a file is kept once it is cached, only its mtime renewed *)
EntryKept(f) == [mtime |-> call.mtime,
                 text |-> IF cache[f] = NotCached THEN disk[f].text ELSE cache[f].text]
Entry(f) == [mtime |-> call.mtime, text |-> disk[f].text]
Reloads(f) == cache[f] = NotCached \/ call.mtime > cache[f].mtime
(* Faulty: a directory file is applied only when it was reread, like the main one *)
AppliesWhenReread(f) == Reloads(f) \/ enforcer.rules = NoRules
Applies(f) == Reloads(f) \/ enforcer.rules = NoRules \/ f # Main

First(names) == { f \in names : \A g \in names : Place[f] <= Place[g] }

(* on to the first of the files left                                          *)
WalkOn(left) ==
    \/ left = {} /\ call' = [call EXCEPT !.stage = "answer"]
    \/ \E f \in First(left) :
          call' = [call EXCEPT !.stage = "stat", !.file = f, !.todo = left \ {f}]

Advance(f) == IF f = Main THEN call' = [call EXCEPT !.stage = "list"]
              ELSE WalkOn(call.todo)

(* the rest of read_cached_file and of _load_policy_file.  The text is in the *)
(* cache before it is parsed, and stays there when parsing raises.            *)
ReadFile ==
    /\ call # Idle /\ call.stage = "read"
    /\ LET f == call.file
           t == cache'[f].text
       IN  /\ IF Reloads(f) /\ disk[f] # Absent
              THEN /\ cache' = [cache EXCEPT ![f] = Entry(f)]
                   /\ again' = again \ {f}
              ELSE UNCHANGED <<cache, again>>
           /\ IF \/ Reloads(f) /\ disk[f] = Absent
                 \/ Applies(f) /\ t = Malformed
              THEN Raise /\ UNCHANGED <<enforcer, overlaid>>
              ELSE /\ Advance(f)
                   /\ IF ~ Applies(f) THEN UNCHANGED <<enforcer, overlaid>>
                      ELSE /\ enforcer' = WithRules(enforcer, Parsed(t), f = Main, TRUE)
                           /\ overlaid' = IF f = Main THEN {} ELSE overlaid \cup DOMAIN t
    /\ UNCHANGED filesVars

(* a listing, from then on the one to walk through                            *)
ListDir ==
    /\ call # Idle /\ call.stage = "list"
    /\ LET there == { f \in DirFiles : disk[f] # Absent }
       IN  \/ there = {} /\ call' = [call EXCEPT !.stage = "answer"]
           \/ \E f \in First(there) :
                 call' = [call EXCEPT !.stage = "stat", !.file = f,
                                      !.todo = there \ {f}, !.listed = there]
    /\ UNCHANGED <<filesVars, cache, enforcer, historyVars>>

(* the answer changes nothing the enforcer keeps                              *)
GiveAnswer ==
    /\ call # Idle /\ call.stage = "answer"
    /\ call' = Idle
    /\ UNCHANGED <<filesVars, cache, enforcer, historyVars>>

-----------------------------------------------------------------------------
(* report.policy.set_rules and reset.                                         *)

SetRules(t, overwrite, use_conf) ==
    /\ call = Idle
    /\ t # Malformed
    /\ enforcer' = WithRules(Inited(FALSE), Parsed(t), overwrite, use_conf)
    /\ overlaid' = overlaid \cup Names
    /\ UNCHANGED <<filesVars, cache, call, again>>

(* clear empties the rules of an enforcer that reset then drops; of the cache *)
(* only the main file goes, and only if it was ever looked for                *)
Reset ==
    /\ call = Idle /\ enforcer # NoEnforcer
    /\ enforcer' = NoEnforcer
    /\ cache' = [cache EXCEPT ![Main] = NotCached]
    /\ again' = again \ {Main}
    /\ UNCHANGED <<filesVars, call, overlaid>>

EnforcerNext ==
    \/ \E f \in Files : Edit(f)
    \/ Tick
    \/ EnforceCall \/ ForceLoad \/ StatFile \/ ReadFile \/ ListDir \/ GiveAnswer
    \/ \E t \in Texts, o \in BOOLEAN, u \in BOOLEAN : SetRules(t, o, u)
    \/ Reset

EnforcerSpec == EnforcerInit /\ [][EnforcerNext]_enforcerVars

-----------------------------------------------------------------------------
(* The cache (fileutils.read_cached_file) never hides an edit for good: when  *)
(* what it holds of a file is not what the file says, the file's mtime makes  *)
(* the next load read it again, however edits fell between the stat and the   *)
(* read of a load, whatever raised, and over resets.  The one exception is a  *)
(* file written twice in one tick of its mtime.                               *)
StaleIsReread ==
    \A f \in Files \ again :
       cache[f] # NotCached /\ disk[f] # Absent /\ cache[f].text # disk[f].text =>
          disk[f].mtime > cache[f].mtime

Says(f, n) == cache[f].text # Malformed /\ n \in DOMAIN cache[f].text

(* When a load from files has come through, every name a file of the          *)
(* directory defines has the check of the last of those files, also when only *)
(* the main file was new; a name of the main file that no directory file has  *)
(* defined since has the main file's check; and no other name is left.        *)
(* The loads before, also those that raised half-way, leave no trace.         *)
DirectoryOverMain ==
    call # Idle /\ call.stage = "answer" /\ enforcer.use_conf =>
      \A n \in Names :
        LET by == { f \in call.listed : Says(f, n) }
            check(f) == n \in DOMAIN enforcer.rules /\ enforcer.rules[n] = Parsed(cache[f].text)[n]
        IN  CASE by # {} -> check(CHOOSE f \in by : \A g \in by : Place[g] <= Place[f])
              [] by = {} /\ n \notin overlaid /\ cache[Main].text # Malformed ->
                    IF Says(Main, n) THEN check(Main) ELSE n \notin DOMAIN enforcer.rules
              [] OTHER -> TRUE

(* "Policy file is cached and will be reloaded if modified" (load_rules): what *)
(* the cache holds of the main file is what the file says, or the next load    *)
(* will read it.                                                               *)
ReloadedIfModified ==
    cache[Main] # NotCached /\ disk[Main] # Absent /\ cache[Main].text # disk[Main].text =>
       disk[Main].mtime > cache[Main].mtime
=============================================================================
