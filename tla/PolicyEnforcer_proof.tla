------------------------ MODULE PolicyEnforcer_proof ------------------------
(***************************************************************************)
(* The cache of the policy files and the rules in force, for any texts, any*)
(* files in the directory and any number of edits, loads and resets; and   *)
(* the contexts of requests, for any rules PolicyAssumption holds of.      *)
(***************************************************************************)
EXTENDS PolicyEnforcer, Contexts, TLAPS

Entries == [mtime : Int, text : Texts]

Calls == [stage : {"stat", "read", "list", "answer"}, file : Files, mtime : Int,
          force : BOOLEAN, todo : SUBSET DirFiles, listed : SUBSET DirFiles]

\* A record of rules, their default and use_conf.
IsEnforcer(e) ==
  /\ e = [k \in {"rules", "dflt", "use_conf"} |-> e[k]]
  /\ e.use_conf \in BOOLEAN

PolicyTypes ==
  /\ disk \in [Files -> {Absent} \cup Entries]
  /\ cache \in [Files -> {NotCached} \cup Entries]
  /\ now \in Nat
  /\ call \in {Idle} \cup Calls
  /\ enforcer # NoEnforcer => IsEnforcer(enforcer)
  /\ call # Idle => IsEnforcer(enforcer)

-----------------------------------------------------------------------------
(* What an edit must not hide.                                             *)

\* No time is ahead of the clock.
InTime ==
  /\ \A f \in Files : disk[f] # Absent => disk[f].mtime <= now
  /\ \A f \in Files : cache[f] # NotCached => cache[f].mtime <= now
  /\ call # Idle => call.mtime <= now

CacheInv == PolicyTypes /\ InTime /\ StaleIsReread

-----------------------------------------------------------------------------
(* What the walk through the directory leaves.                             *)

\* The check of n that file f gives is in force.
Gives(f, n) == /\ n \in DOMAIN enforcer.rules
               /\ enforcer.rules[n] = Parsed(cache[f].text)[n]

\* Main is in force below the names the directory has given since.
MainBelow ==
  cache[Main].text # Malformed =>
    \A n \in Names \ overlaid :
      IF Says(Main, n) THEN Gives(Main, n) ELSE n \notin DOMAIN enforcer.rules

\* The last of the files that says something of n is in force.
LastOf(done) ==
  \A n \in Names :
    LET by == { f \in done : Says(f, n) }
    IN  by # {} => \E f \in by : Gives(f, n) /\ \A g \in by : Place[g] <= Place[f]

\* The call of load_rules is past the main file, and there has been one.
PastMain == /\ call # Idle /\ enforcer.use_conf
            /\ call.stage \in {"list", "answer"} \/ call.file # Main

Done == IF call.stage = "answer" THEN call.listed
        ELSE call.listed \ (call.todo \cup {call.file})

\* Outside a load as well, unless the main file is to be applied anew.
InForce ==
  /\ call # Idle \/ enforcer # NoEnforcer
  /\ enforcer.rules # NoRules /\ cache[Main] # NotCached
  => MainBelow

Stages ==
  call # Idle =>
    /\ call.stage # "answer" => enforcer.use_conf
    /\ call.stage = "list" => call.file = Main
    /\ call.file = Main => call.todo = {} /\ call.listed = {}

Walked == PastMain => MainBelow /\ LastOf(Done)

\* The files are walked through in their order.
InOrder ==
  call # Idle /\ call.stage # "answer" /\ call.file # Main =>
    /\ call.todo \cup {call.file} \subseteq call.listed
    /\ call.file \notin call.todo
    /\ \A f \in Done : Place[f] < Place[call.file]
    /\ \A f \in call.todo : Place[call.file] < Place[f]

WalkInv == InForce /\ Stages /\ Walked /\ InOrder

PolicyInv == CacheInv /\ WalkInv

-----------------------------------------------------------------------------
(* The cache.                                                              *)

LEMMA MainIsFile == Main \in Files
  BY DEF Files

LEMMA CacheInit ==
  ASSUME EnforcerInit
  PROVE  CacheInv
<1>1. /\ now = 0 /\ call = Idle /\ enforcer = NoEnforcer
      /\ cache = [f \in Files |-> NotCached]
  BY DEF EnforcerInit
<1>2. disk \in [Files -> {Absent} \cup Entries]
      /\ \A f \in Files : disk[f] # Absent => disk[f].mtime = 0
  <2>1. CASE disk \in [Files -> {Absent}]
    BY <2>1
  <2>2. CASE disk \in { [f \in Files |-> IF f = Main THEN [mtime |-> 0, text |-> t]
                                         ELSE Absent] : t \in Texts }
    <3>1. PICK t \in Texts :
            disk = [f \in Files |-> IF f = Main THEN [mtime |-> 0, text |-> t]
                                    ELSE Absent]
      BY <2>2
    <3>2. [mtime |-> 0, text |-> t] \in Entries
      BY DEF Entries
    <3>3. QED
      BY <3>1, <3>2
  <2>3. QED
    BY <2>1, <2>2 DEF EnforcerInit
<1>3. PolicyTypes
  BY <1>1, <1>2 DEF PolicyTypes
<1>4. InTime
  BY <1>1, <1>2 DEF InTime
<1>5. StaleIsReread
  BY <1>1 DEF StaleIsReread
<1>6. QED
  BY <1>3, <1>4, <1>5 DEF CacheInv

\* The steps that neither touch a file nor the cache.
LEMMA CacheSame ==
  ASSUME CacheInv, UNCHANGED <<disk, cache, again>>,
         now' \in Nat, now' >= now,
         call' \in {Idle} \cup Calls, call' # Idle => call'.mtime <= now',
         enforcer' # NoEnforcer => IsEnforcer(enforcer'),
         call' # Idle => IsEnforcer(enforcer')
  PROVE  CacheInv'
<1>1. PolicyTypes'
  BY DEF CacheInv, PolicyTypes, IsEnforcer
<1>2. InTime'
  BY DEF CacheInv, PolicyTypes, InTime, Entries
<1>3. StaleIsReread'
  BY DEF CacheInv, StaleIsReread
<1>4. QED
  BY <1>1, <1>2, <1>3 DEF CacheInv

LEMMA CacheEdit ==
  ASSUME CacheInv, NEW f \in Files, Edit(f)
  PROVE  CacheInv'
<1>1. PICK d \in { [mtime |-> now, text |-> t] : t \in Texts } \cup {Absent} :
        disk' = [disk EXCEPT ![f] = d]
  BY DEF Edit
<1>2. /\ again' = IF SameTick(f) THEN again \cup {f} ELSE again
      /\ UNCHANGED <<now, cache, enforcer, call>>
  BY DEF Edit
<1>3. /\ disk \in [Files -> {Absent} \cup Entries]
      /\ cache \in [Files -> {NotCached} \cup Entries] /\ now \in Nat
  BY DEF CacheInv, PolicyTypes
<1>4. d \in {Absent} \cup Entries /\ (d # Absent => d.mtime = now)
  BY <1>3 DEF Entries
<1>5. /\ disk' \in [Files -> {Absent} \cup Entries]
      /\ disk'[f] = d
      /\ \A g \in Files : g # f => disk'[g] = disk[g]
  BY <1>1, <1>3, <1>4
<1>6. PolicyTypes'
  BY <1>2, <1>5 DEF CacheInv, PolicyTypes, IsEnforcer
<1>7. InTime'
  BY <1>2, <1>3, <1>4, <1>5 DEF CacheInv, InTime
<1>8. StaleIsReread'
  <2>1. SUFFICES ASSUME NEW g \in Files, g \notin again',
                        cache[g] # NotCached, disk'[g] # Absent,
                        cache[g].text # disk'[g].text
                 PROVE  disk'[g].mtime > cache[g].mtime
    BY <1>2 DEF StaleIsReread
  <2>2. g \notin again
    BY <1>2, <2>1
  <2>3. CASE g # f
    BY <1>5, <2>1, <2>2, <2>3 DEF CacheInv, StaleIsReread
  <2>4. CASE g = f
    <3>1. ~SameTick(f)
      BY <1>2, <2>1, <2>4
    <3>2. cache[f].mtime # now
      BY <2>1, <2>4, <3>1 DEF SameTick
    <3>3. cache[f].mtime \in Int /\ cache[f].mtime <= now
      BY <1>3, <2>1, <2>4 DEF CacheInv, InTime, Entries
    <3>4. disk'[f].mtime = now
      BY <1>4, <1>5, <2>1, <2>4
    <3>5. QED
      BY <1>3, <2>4, <3>2, <3>3, <3>4
  <2>5. QED
    BY <2>3, <2>4
<1>9. QED
  BY <1>6, <1>7, <1>8 DEF CacheInv

\* One file is dropped from the cache, or none.
LEMMA CacheDrop ==
  ASSUME CacheInv, UNCHANGED <<disk, now>>,
         NEW f \in Files,
         cache' = [cache EXCEPT ![f] = NotCached] \/ cache' = cache,
         again' = again \/ (cache'[f] = NotCached /\ again' = again \ {f}),
         call' \in {Idle} \cup Calls, call' # Idle => call'.mtime <= now',
         enforcer' # NoEnforcer => IsEnforcer(enforcer'),
         call' # Idle => IsEnforcer(enforcer')
  PROVE  CacheInv'
<1>1. /\ disk \in [Files -> {Absent} \cup Entries]
      /\ cache \in [Files -> {NotCached} \cup Entries] /\ now \in Nat
  BY DEF CacheInv, PolicyTypes
<1>2. /\ cache' \in [Files -> {NotCached} \cup Entries]
      /\ \A g \in Files : cache'[g] = cache[g] \/ (g = f /\ cache'[g] = NotCached)
  BY <1>1
<1>3. PolicyTypes'
  BY <1>1, <1>2 DEF PolicyTypes, IsEnforcer
<1>4. InTime'
  BY <1>2 DEF CacheInv, InTime
<1>5. StaleIsReread'
  <2>1. SUFFICES ASSUME NEW g \in Files, g \notin again',
                        cache'[g] # NotCached, disk[g] # Absent,
                        cache'[g].text # disk[g].text
                 PROVE  disk[g].mtime > cache'[g].mtime
    BY DEF StaleIsReread
  <2>2. cache'[g] = cache[g] /\ g \notin again
    BY <1>2, <2>1
  <2>3. QED
    BY <2>1, <2>2 DEF CacheInv, StaleIsReread
<1>6. QED
  BY <1>3, <1>4, <1>5 DEF CacheInv

\* Where the call is after the files of the directory that are left.
LEMMA WalksOn ==
  ASSUME call \in Calls, NEW left \in SUBSET DirFiles, WalkOn(left)
  PROVE  /\ call' \in Calls
         /\ call'.listed = call.listed /\ call'.mtime = call.mtime
         /\ \/ left = {} /\ call'.stage = "answer" /\ call'.file = call.file
            \/ /\ call'.stage = "stat" /\ call'.file \in First(left)
               /\ call'.todo = left \ {call'.file}
<1>1. CASE left = {} /\ call' = [call EXCEPT !.stage = "answer"]
  BY <1>1 DEF Calls
<1>2. CASE \E f \in First(left) :
             call' = [call EXCEPT !.stage = "stat", !.file = f, !.todo = left \ {f}]
  <2>1. PICK f \in First(left) :
          call' = [call EXCEPT !.stage = "stat", !.file = f, !.todo = left \ {f}]
    BY <1>2
  <2>2. f \in DirFiles /\ f \in Files
    BY DEF First, Files
  <2>3. call' = [stage |-> "stat", file |-> f, mtime |-> call.mtime,
                 force |-> call.force, todo |-> left \ {f}, listed |-> call.listed]
    BY <2>1 DEF Calls
  <2>4. QED
    BY <2>2, <2>3 DEF Calls
<1>3. QED
  BY <1>1, <1>2 DEF WalkOn

LEMMA Advances ==
  ASSUME call \in Calls, Advance(call.file)
  PROVE  call' \in Calls /\ call'.mtime = call.mtime
<1>1. CASE call.file = Main
  BY <1>1 DEF Advance, Calls
<1>2. CASE call.file # Main
  BY <1>2, WalksOn DEF Advance, Calls
<1>3. QED
  BY <1>1, <1>2

\* Entry, the text under the mtime of the stat.
LEMMA ReadsFile ==
  ASSUME PolicyTypes, ReadFile, NEW f, f = call.file
  PROVE  /\ call # Idle /\ call \in Calls /\ call.stage = "read" /\ f \in Files
         /\ disk' = disk /\ now' = now
         /\ \/ /\ Reloads(f) /\ disk[f] # Absent
               /\ cache' = [cache EXCEPT ![f] = [mtime |-> call.mtime,
                                                 text |-> disk[f].text]]
               /\ again' = again \ {f}
            \/ /\ ~Reloads(f) \/ disk[f] = Absent
               /\ cache' = cache /\ again' = again
         /\ \/ /\ \/ Reloads(f) /\ disk[f] = Absent
                  \/ Applies(f) /\ cache'[f].text = Malformed
               /\ call' = Idle /\ enforcer' = enforcer /\ overlaid' = overlaid
            \/ /\ ~(Reloads(f) /\ disk[f] = Absent)
               /\ Advance(f)
               /\ \/ /\ ~Applies(f)
                     /\ enforcer' = enforcer /\ overlaid' = overlaid
                  \/ /\ Applies(f) /\ cache'[f].text # Malformed
                     /\ enforcer' = WithRules(enforcer, Parsed(cache'[f].text),
                                              f = Main, TRUE)
                     /\ overlaid' = IF f = Main THEN {}
                                    ELSE overlaid \cup DOMAIN cache'[f].text
  BY DEF ReadFile, PolicyTypes, Calls, filesVars, Entry, Raise

Put(e, rules, use_conf) == [e EXCEPT !.rules = rules, !.use_conf = use_conf]

LEMMA RulesReplaced ==
  ASSUME NEW e, IsEnforcer(e), NEW x, NEW u \in BOOLEAN
  PROVE  IsEnforcer(Put(e, x, u)) /\ Put(e, x, u).rules = x /\ Put(e, x, u).use_conf = u
<1>1. PICK g : g = [e EXCEPT !.rules = x]
  OBVIOUS
<1>2. /\ g.rules = x /\ g.use_conf = e.use_conf
      /\ g = [k \in {"rules", "dflt", "use_conf"} |-> g[k]]
  BY <1>1 DEF IsEnforcer
<1>3. PICK h : h = [g EXCEPT !.use_conf = u]
  OBVIOUS
<1>4. /\ h.rules = x /\ h.use_conf = u
      /\ h = [k \in {"rules", "dflt", "use_conf"} |-> h[k]]
  BY <1>2, <1>3
<1>5. Put(e, x, u) = h
  BY <1>1, <1>3 DEF IsEnforcer, Put
<1>6. QED
  BY <1>4, <1>5 DEF IsEnforcer

LEMMA WithRulesIsEnforcer ==
  ASSUME NEW e, IsEnforcer(e), NEW r, NEW o, NEW u \in BOOLEAN
  PROVE  IsEnforcer(WithRules(e, r, o, u))
<1>1. PICK x : x = IF o THEN r ELSE Over(r, e.rules)
  OBVIOUS
<1>2. WithRules(e, r, o, u) = Put(e, x, u)
  BY <1>1 DEF WithRules, IsEnforcer, Put
<1>3. QED
  BY <1>2, RulesReplaced

LEMMA WithRulesOverwritten ==
  ASSUME NEW e, IsEnforcer(e), NEW r
  PROVE  /\ WithRules(e, r, TRUE, TRUE).rules = r
         /\ WithRules(e, r, TRUE, TRUE).use_conf = TRUE
<1>1. PICK u \in BOOLEAN : u = TRUE
  OBVIOUS
<1>2. WithRules(e, r, TRUE, TRUE) = Put(e, r, u)
  BY <1>1 DEF WithRules, IsEnforcer, Put
<1>3. Put(e, r, u).rules = r /\ Put(e, r, u).use_conf = u
  BY RulesReplaced
<1>4. QED
  BY <1>1, <1>2, <1>3, Zenon

LEMMA WithRulesMerged ==
  ASSUME NEW e, IsEnforcer(e), NEW r
  PROVE  /\ WithRules(e, r, FALSE, TRUE).rules = Over(r, e.rules)
         /\ WithRules(e, r, FALSE, TRUE).use_conf = TRUE
<1>1. PICK x : x = Over(r, e.rules)
  OBVIOUS
<1>2. PICK u \in BOOLEAN : u = TRUE
  OBVIOUS
<1>3. WithRules(e, r, FALSE, TRUE) = Put(e, x, u)
  BY <1>1, <1>2 DEF WithRules, IsEnforcer, Put
<1>4. Put(e, x, u).rules = x /\ Put(e, x, u).use_conf = u
  BY RulesReplaced
<1>5. QED
  BY <1>1, <1>2, <1>3, <1>4, Zenon

LEMMA CacheRead ==
  ASSUME CacheInv, ReadFile
  PROVE  CacheInv'
<1>1. PolicyTypes /\ InTime
  BY DEF CacheInv
<1>2. PICK f : f = call.file
  OBVIOUS
<1>3. /\ call # Idle /\ call \in Calls /\ call.stage = "read" /\ f \in Files
      /\ disk' = disk /\ now' = now
  BY <1>1, <1>2, ReadsFile
<1>4. /\ call' \in {Idle} \cup Calls
      /\ call' # Idle => call'.mtime = call.mtime
  BY <1>1, <1>2, <1>3, ReadsFile, Advances
<1>5. IsEnforcer(enforcer')
  <2>1. IsEnforcer(enforcer)
    BY <1>1, <1>3 DEF PolicyTypes
  <2>2. \/ enforcer' = enforcer
        \/ enforcer' = WithRules(enforcer, Parsed(cache'[f].text), f = Main, TRUE)
    BY <1>1, <1>2, ReadsFile
  <2>3. PICK r, o : enforcer' = enforcer \/ enforcer' = WithRules(enforcer, r, o, TRUE)
    BY <2>2, Zenon
  <2>4. CASE enforcer' = enforcer
    BY <2>1, <2>4 DEF IsEnforcer
  <2>5. CASE enforcer' = WithRules(enforcer, r, o, TRUE)
    <3>1. IsEnforcer(WithRules(enforcer, r, o, TRUE))
      BY <2>1, WithRulesIsEnforcer
    <3>2. QED
      BY <2>5, <3>1 DEF IsEnforcer
  <2>6. QED
    BY <2>3, <2>4, <2>5
<1>6. call.mtime \in Int /\ call.mtime <= now
  BY <1>1, <1>3 DEF InTime, Calls
<1>7. CASE cache' = cache /\ again' = again
  BY <1>1, <1>3, <1>4, <1>5, <1>6, <1>7, CacheSame DEF PolicyTypes
<1>8. CASE /\ Reloads(f) /\ disk[f] # Absent
           /\ cache' = [cache EXCEPT ![f] = [mtime |-> call.mtime,
                                             text |-> disk[f].text]]
           /\ again' = again \ {f}
  <2>1. PICK e \in Entries :
          e = [mtime |-> call.mtime, text |-> disk[f].text]
          /\ e.mtime = call.mtime /\ e.text = disk[f].text
    BY <1>1, <1>3, <1>8 DEF PolicyTypes, Entries, Calls
  <2>2. /\ cache' \in [Files -> {NotCached} \cup Entries]
        /\ cache'[f] = e
        /\ \A g \in Files : g # f => cache'[g] = cache[g]
    BY <1>1, <1>3, <1>8, <2>1 DEF PolicyTypes
  <2>3. PolicyTypes'
    BY <1>1, <1>3, <1>4, <1>5, <2>2 DEF PolicyTypes, IsEnforcer
  <2>4. InTime'
    BY <1>1, <1>3, <1>4, <1>6, <2>1, <2>2 DEF InTime
  <2>5. StaleIsReread'
    <3>1. SUFFICES ASSUME NEW g \in Files, g \notin again',
                          cache'[g] # NotCached, disk[g] # Absent,
                          cache'[g].text # disk[g].text
                   PROVE  disk[g].mtime > cache'[g].mtime
      BY <1>3 DEF StaleIsReread
    <3>2. g # f
      BY <2>1, <2>2, <3>1
    <3>3. QED
      BY <1>8, <2>2, <3>1, <3>2 DEF CacheInv, StaleIsReread
  <2>6. QED
    BY <2>3, <2>4, <2>5 DEF CacheInv
<1>9. QED
  BY <1>1, <1>2, <1>7, <1>8, ReadsFile

LEMMA CacheStep ==
  ASSUME CacheInv, [EnforcerNext]_enforcerVars
  PROVE  CacheInv'
<1>1. /\ PolicyTypes /\ InTime /\ now \in Nat /\ now >= now /\ -1 <= now
      /\ call \in {Idle} \cup Calls /\ (call # Idle => call \in Calls)
      /\ call # Idle => call.mtime <= now
      /\ enforcer # NoEnforcer => IsEnforcer(enforcer)
      /\ call # Idle => IsEnforcer(enforcer)
  BY DEF CacheInv, PolicyTypes, InTime
<1>2. \A u \in BOOLEAN : IsEnforcer(New(u)) /\ IsEnforcer(Inited(u))
  BY <1>1 DEF New, Inited, IsEnforcer
<1>3. \A stage \in {"stat", "answer"} :
        At(stage) \in Calls /\ At(stage).mtime = -1
  BY MainIsFile DEF At, Calls
<1>4. CASE \E f \in Files : Edit(f)
  BY <1>4, CacheEdit
<1>5. CASE Tick
  <2>1. /\ now' = now + 1 /\ disk' = disk /\ cache' = cache /\ again' = again
        /\ call' = call /\ enforcer' = enforcer
    BY <1>5 DEF Tick, historyVars
  <2>2. call # Idle => call.mtime \in Int
    BY <1>1 DEF Calls
  <2>3. now' \in Nat /\ now' >= now /\ (call' # Idle => call'.mtime <= now')
    BY <1>1, <2>1, <2>2
  <2>4. QED
    BY <1>1, <2>1, <2>3, CacheSame
<1>6. CASE EnforceCall
  <2>1. PICK stage \in {"stat", "answer"} :
          /\ enforcer' = Inited(TRUE) /\ call' = At(stage)
          /\ disk' = disk /\ now' = now /\ cache' = cache /\ again' = again
    BY <1>6 DEF EnforceCall, filesVars, historyVars
  <2>2. call' \in Calls /\ call'.mtime <= now' /\ now' >= now /\ now' \in Nat
    BY <1>1, <1>3, <2>1
  <2>3. IsEnforcer(enforcer')
    BY <1>2, <2>1
  <2>4. QED
    BY <2>1, <2>2, <2>3, CacheSame
<1>7. CASE ForceLoad
  <2>1. /\ call' = [At("stat") EXCEPT !.force = TRUE]
        /\ enforcer # NoEnforcer /\ enforcer' = [enforcer EXCEPT !.use_conf = TRUE]
        /\ disk' = disk /\ now' = now /\ cache' = cache /\ again' = again
    BY <1>7 DEF ForceLoad, filesVars, historyVars
  <2>2. call' \in Calls /\ call'.mtime = -1
    BY <1>3, <2>1 DEF Calls
  <2>3. IsEnforcer(enforcer')
    BY <1>1, <2>1 DEF IsEnforcer
  <2>4. QED
    BY <1>1, <2>1, <2>2, <2>3, CacheSame
<1>8. CASE StatFile
  <2>1. /\ call # Idle /\ call.file \in Files
        /\ cache' = [cache EXCEPT ![call.file] = NotCached] \/ cache' = cache
        /\ disk' = disk /\ now' = now /\ enforcer' = enforcer /\ again' = again
        /\ \/ call' = Idle
           \/ /\ disk[call.file] # Absent
              /\ call' = [call EXCEPT !.stage = "read",
                                      !.mtime = disk[call.file].mtime]
    BY <1>1, <1>8 DEF StatFile, Raise, filesVars, historyVars, Calls
  <2>2. call' # Idle => call' \in Calls /\ call'.mtime <= now
    <3>1. SUFFICES ASSUME call' # Idle
                   PROVE  call' \in Calls /\ call'.mtime <= now
      OBVIOUS
    <3>2. disk[call.file].mtime \in Int /\ disk[call.file].mtime <= now
      BY <1>1, <2>1, <3>1 DEF PolicyTypes, InTime, Entries
    <3>3. call' = [stage |-> "read", file |-> call.file,
                   mtime |-> disk[call.file].mtime, force |-> call.force,
                   todo |-> call.todo, listed |-> call.listed]
      BY <1>1, <2>1, <3>1 DEF Calls
    <3>4. QED
      BY <1>1, <2>1, <3>2, <3>3 DEF Calls
  <2>3. QED
    BY <1>1, <2>1, <2>2, CacheDrop
<1>9. CASE ReadFile
  BY <1>9, CacheRead
<1>10. CASE ListDir
  <2>1. /\ call # Idle
        /\ disk' = disk /\ now' = now /\ cache' = cache /\ again' = again
        /\ enforcer' = enforcer
        /\ \/ call' = [call EXCEPT !.stage = "answer"]
           \/ \E f \in DirFiles, there \in SUBSET DirFiles :
                call' = [call EXCEPT !.stage = "stat", !.file = f,
                                     !.todo = there \ {f}, !.listed = there]
    BY <1>10 DEF ListDir, First, filesVars, historyVars
  <2>2. call' \in Calls /\ call'.mtime = call.mtime
    <3>1. CASE call' = [call EXCEPT !.stage = "answer"]
      BY <1>1, <2>1, <3>1 DEF Calls
    <3>2. ASSUME NEW f \in DirFiles, NEW there \in SUBSET DirFiles,
                 call' = [call EXCEPT !.stage = "stat", !.file = f,
                                      !.todo = there \ {f}, !.listed = there]
          PROVE  call' \in Calls /\ call'.mtime = call.mtime
      <4>1. call' = [stage |-> "stat", file |-> f, mtime |-> call.mtime,
                     force |-> call.force, todo |-> there \ {f}, listed |-> there]
        BY <1>1, <2>1, <3>2 DEF Calls
      <4>2. f \in Files /\ there \ {f} \in SUBSET DirFiles
        BY DEF Files
      <4>3. call.mtime \in Int /\ call.force \in BOOLEAN
        BY <1>1, <2>1 DEF Calls
      <4>4. QED
        BY <4>1, <4>2, <4>3 DEF Calls
    <3>3. QED
      BY <2>1, <3>1, <3>2
  <2>3. now' \in Nat /\ now' >= now /\ call'.mtime <= now' /\ IsEnforcer(enforcer')
    BY <1>1, <2>1, <2>2
  <2>4. QED
    BY <2>1, <2>2, <2>3, CacheSame
<1>11. CASE GiveAnswer
  BY <1>1, <1>11, CacheSame DEF GiveAnswer, filesVars, historyVars
<1>12. CASE \E t \in Texts, o \in BOOLEAN, u \in BOOLEAN : SetRules(t, o, u)
  <2>1. PICK t \in Texts, o \in BOOLEAN, u \in BOOLEAN : SetRules(t, o, u)
    BY <1>12
  <2>2. /\ call = Idle /\ call' = Idle
        /\ enforcer' = WithRules(Inited(FALSE), Parsed(t), o, u)
        /\ disk' = disk /\ now' = now /\ cache' = cache /\ again' = again
    BY <2>1 DEF SetRules, filesVars
  <2>3. IsEnforcer(enforcer')
    BY <1>2, <2>2, WithRulesIsEnforcer
  <2>4. now' \in Nat /\ now' >= now
    BY <1>1, <2>2
  <2>5. QED
    BY <2>2, <2>3, <2>4, CacheSame
<1>13. CASE Reset
  <2>1. /\ call = Idle /\ call' = Idle /\ enforcer' = NoEnforcer
        /\ cache' = [cache EXCEPT ![Main] = NotCached]
        /\ again' = again \ {Main} /\ disk' = disk /\ now' = now
    BY <1>13 DEF Reset, filesVars
  <2>2. cache'[Main] = NotCached
    BY <1>1, <2>1, MainIsFile DEF PolicyTypes
  <2>3. QED
    BY <1>1, <2>1, <2>2, MainIsFile, CacheDrop
<1>14. CASE UNCHANGED enforcerVars
  BY <1>1, <1>14, CacheSame DEF enforcerVars
<1>15. QED
  BY <1>4, <1>5, <1>6, <1>7, <1>8, <1>9, <1>10, <1>11, <1>12, <1>13, <1>14
     DEF EnforcerNext

(***************************************************************************)
(* The cache of read_cached_file never hides an edit for good: what it     *)
(* holds of a file is what the file says, or the file's mtime makes the    *)
(* next load read it again, whatever fell between the stat and the read    *)
(* of a load; but for a file written twice in one tick of its mtime.       *)
(***************************************************************************)
THEOREM EditsAreSeen == EnforcerSpec => []StaleIsReread
<1>1. EnforcerInit => CacheInv
  BY CacheInit
<1>2. CacheInv /\ [EnforcerNext]_enforcerVars => CacheInv'
  BY CacheStep
<1>3. CacheInv => StaleIsReread
  BY DEF CacheInv
<1>4. QED
  BY <1>1, <1>2, <1>3, PTL DEF EnforcerSpec

-----------------------------------------------------------------------------
(* The walk.                                                               *)

LEMMA WalkInit == EnforcerInit => WalkInv
  BY DEF EnforcerInit, WalkInv, InForce, Stages, Walked, InOrder, PastMain

LEMMA WalkSame ==
  ASSUME WalkInv, UNCHANGED <<cache, enforcer, call, overlaid>>
  PROVE  WalkInv'
<1>1. InForce'
  BY DEF WalkInv, InForce, MainBelow, Gives, Says
<1>2. Stages' /\ InOrder'
  BY DEF WalkInv, Stages, InOrder, Done
<1>3. Walked'
  BY DEF WalkInv, Walked, PastMain, Done, MainBelow, LastOf, Gives, Says
<1>4. QED
  BY <1>1, <1>2, <1>3 DEF WalkInv

LEMMA WalkEnforceCall ==
  ASSUME CacheInv, WalkInv, EnforceCall
  PROVE  WalkInv'
<1>1. /\ call = Idle /\ enforcer' = Inited(TRUE)
      /\ call' = At(IF enforcer'.use_conf THEN "stat" ELSE "answer")
      /\ cache' = cache /\ overlaid' = overlaid
  BY DEF EnforceCall, historyVars
<1>2. /\ call'.file = Main /\ call'.todo = {} /\ call'.listed = {}
      /\ call'.stage = IF enforcer'.use_conf THEN "stat" ELSE "answer"
  BY <1>1 DEF At
<1>3. ~PastMain'
  BY <1>2 DEF PastMain
<1>4. enforcer'.rules # NoRules /\ cache[Main] # NotCached => MainBelow'
  <2>1. CASE enforcer = NoEnforcer
    BY <1>1, <2>1 DEF Inited, New
  <2>2. CASE enforcer # NoEnforcer
    <3>1. enforcer' = enforcer
      BY <1>1, <2>2 DEF Inited
    <3>2. QED
      BY <1>1, <2>2, <3>1 DEF WalkInv, InForce, MainBelow, Gives, Says
  <2>3. QED
    BY <2>1, <2>2
<1>5. InForce' /\ Walked'
  BY <1>1, <1>3, <1>4 DEF InForce, Walked
<1>6. Stages' /\ InOrder'
  BY <1>2 DEF Stages, InOrder
<1>7. QED
  BY <1>5, <1>6 DEF WalkInv

LEMMA WalkForceLoad ==
  ASSUME CacheInv, WalkInv, ForceLoad
  PROVE  WalkInv'
<1>1. /\ enforcer # NoEnforcer /\ call = Idle
      /\ enforcer' = [enforcer EXCEPT !.use_conf = TRUE]
      /\ call' = [At("stat") EXCEPT !.force = TRUE]
      /\ cache' = cache /\ overlaid' = overlaid
  BY DEF ForceLoad, historyVars
<1>2. /\ call'.file = Main /\ call'.todo = {} /\ call'.listed = {}
      /\ call'.stage = "stat"
  BY <1>1 DEF At
<1>3. enforcer'.rules = enforcer.rules /\ enforcer'.use_conf = TRUE
  BY <1>1 DEF CacheInv, PolicyTypes, IsEnforcer
<1>4. ~PastMain'
  BY <1>2 DEF PastMain
<1>5. enforcer'.rules # NoRules /\ cache[Main] # NotCached => MainBelow'
  BY <1>1, <1>3 DEF WalkInv, InForce, MainBelow, Gives, Says
<1>6. InForce' /\ Walked'
  BY <1>1, <1>4, <1>5 DEF InForce, Walked
<1>7. Stages' /\ InOrder'
  BY <1>2, <1>3 DEF Stages, InOrder
<1>8. QED
  BY <1>6, <1>7 DEF WalkInv

LEMMA WalkStatFile ==
  ASSUME CacheInv, WalkInv, StatFile
  PROVE  WalkInv'
<1>1. /\ call # Idle /\ call \in Calls /\ call.stage = "stat"
      /\ cache \in [Files -> {NotCached} \cup Entries]
  BY DEF CacheInv, PolicyTypes, StatFile
<1>2. PICK f \in Files : f = call.file
  BY <1>1 DEF Calls
<1>3. /\ \A g \in Files : g # f => cache'[g] = cache[g]
      /\ cache'[f] = cache[f] \/ cache'[f] = NotCached
      /\ enforcer' = enforcer /\ overlaid' = overlaid
  BY <1>1, <1>2 DEF StatFile, historyVars
<1>4. \/ call' = Idle
      \/ /\ call'.stage = "read" /\ call'.file = f
         /\ call'.todo = call.todo /\ call'.listed = call.listed
  BY <1>1, <1>2 DEF StatFile, Raise, Calls
<1>5. enforcer.use_conf
  BY <1>1 DEF WalkInv, Stages
<1>6. enforcer.rules # NoRules /\ cache'[Main] # NotCached => MainBelow'
  <2>1. SUFFICES ASSUME enforcer.rules # NoRules, cache'[Main] # NotCached
                 PROVE  MainBelow'
    OBVIOUS
  <2>2. cache'[Main] = cache[Main]
    BY <1>3, <2>1, MainIsFile
  <2>3. MainBelow
    BY <1>1, <2>1, <2>2 DEF WalkInv, InForce
  <2>4. QED
    BY <1>3, <2>2, <2>3 DEF MainBelow, Gives, Says
<1>7. call' # Idle /\ f # Main => MainBelow' /\ LastOf(Done)'
  <2>1. SUFFICES ASSUME call' # Idle, f # Main
                 PROVE  MainBelow' /\ LastOf(Done)'
    OBVIOUS
  <2>2. PastMain
    BY <1>1, <1>2, <1>5, <2>1 DEF PastMain
  <2>3. MainBelow /\ LastOf(Done)
    BY <2>2 DEF WalkInv, Walked
  <2>4. MainBelow'
    BY <1>3, <2>1, <2>3, MainIsFile DEF MainBelow, Gives, Says
  <2>5. PICK done : done = Done
    OBVIOUS
  <2>6. Done' = done /\ f \notin done /\ done \subseteq Files
    BY <1>1, <1>2, <1>4, <2>1, <2>5 DEF Done, Calls, Files
  <2>7. \A g \in done : cache'[g] = cache[g]
    BY <1>3, <2>6
  <2>8. LastOf(done)'
    BY <1>3, <2>3, <2>5, <2>7 DEF LastOf, Gives, Says
  <2>9. QED
    BY <2>4, <2>6, <2>8 DEF LastOf, Gives, Says
<1>8. PastMain' => MainBelow' /\ LastOf(Done)'
  BY <1>4, <1>7 DEF PastMain
<1>9. call' # Idle => Done' = Done
  BY <1>1, <1>2, <1>4 DEF Done
<1>10. InForce' /\ Walked'
  BY <1>3, <1>6, <1>8 DEF InForce, Walked
<1>11. Stages' /\ InOrder'
  BY <1>1, <1>2, <1>3, <1>4, <1>5, <1>9 DEF WalkInv, Stages, InOrder
<1>12. QED
  BY <1>10, <1>11 DEF WalkInv

LEMMA WalkListDir ==
  ASSUME CacheInv, WalkInv, ListDir
  PROVE  WalkInv'
<1>1. /\ call # Idle /\ call \in Calls /\ call.stage = "list"
      /\ cache' = cache /\ enforcer' = enforcer /\ overlaid' = overlaid
  BY DEF CacheInv, PolicyTypes, ListDir, historyVars
<1>2. call.file = Main /\ call.todo = {} /\ call.listed = {} /\ enforcer.use_conf
  BY <1>1 DEF WalkInv, Stages
<1>3. MainBelow
  BY <1>1, <1>2 DEF WalkInv, Walked, PastMain
<1>4. MainBelow'
  BY <1>1, <1>3 DEF MainBelow, Gives, Says
<1>5. InForce'
  BY <1>4 DEF InForce
<1>6. Done' = {} => Walked'
  BY <1>4 DEF LastOf, Walked
<1>7. CASE call' = [call EXCEPT !.stage = "answer"]
  <2>1. /\ call'.stage = "answer" /\ call'.file = Main
        /\ call'.todo = {} /\ call'.listed = {}
    BY <1>1, <1>2, <1>7 DEF Calls
  <2>2. Done' = {}
    BY <2>1 DEF Done
  <2>3. Stages' /\ InOrder'
    BY <2>1 DEF Stages, InOrder
  <2>4. QED
    BY <1>5, <1>6, <2>2, <2>3 DEF WalkInv
<1>8. CASE \E f \in First({ g \in DirFiles : disk[g] # Absent }) :
             call' = [call EXCEPT !.stage = "stat", !.file = f,
                        !.todo = { g \in DirFiles : disk[g] # Absent } \ {f},
                        !.listed = { g \in DirFiles : disk[g] # Absent }]
  <2>1. PICK there : there = { g \in DirFiles : disk[g] # Absent }
    OBVIOUS
  <2>2. PICK f \in First(there) :
          call' = [call EXCEPT !.stage = "stat", !.file = f,
                               !.todo = there \ {f}, !.listed = there]
    BY <1>8, <2>1
  <2>3. /\ f \in there /\ there \subseteq DirFiles /\ f # Main
        /\ \A g \in there : Place[f] <= Place[g]
    BY <2>1, <2>2, DirAssumption DEF First
  <2>4. /\ call'.stage = "stat" /\ call'.file = f
        /\ call'.todo = there \ {f} /\ call'.listed = there
    BY <1>1, <2>2 DEF Calls
  <2>5. Done' = {}
    BY <2>3, <2>4 DEF Done
  <2>6. \A g \in there \ {f} : Place[f] < Place[g]
    BY <2>3, DirAssumption
  <2>7. Stages' /\ InOrder'
    BY <1>1, <1>2, <2>3, <2>4, <2>5, <2>6 DEF Stages, InOrder
  <2>8. QED
    BY <1>5, <1>6, <2>5, <2>7 DEF WalkInv
<1>9. QED
  BY <1>7, <1>8 DEF ListDir

\* A file of the directory is applied: its names are its own, the others as before.
LEMMA WalkApplies ==
  ASSUME CacheInv, WalkInv, call # Idle, call \in Calls, call.stage = "read",
         NEW f, f = call.file, f # Main,
         enforcer'.use_conf,
         \A g \in Files \ {f} : cache'[g] = cache[g],
         enforcer'.rules = Over(Parsed(cache'[f].text), enforcer.rules),
         cache'[f].text # Malformed,
         overlaid' = overlaid \cup DOMAIN cache'[f].text,
         call' \in Calls, WalkOn(call.todo)
  PROVE  WalkInv'
<1>1. enforcer.use_conf /\ MainBelow /\ LastOf(Done)
  BY DEF WalkInv, Stages, Walked, PastMain
<1>2. /\ call.todo \cup {f} \subseteq call.listed /\ f \notin call.todo
      /\ \A g \in Done : Place[g] < Place[f]
      /\ \A g \in call.todo : Place[f] < Place[g]
  BY DEF WalkInv, InOrder
<1>3. /\ call.todo \subseteq DirFiles /\ call.listed \subseteq DirFiles
      /\ f \in DirFiles /\ Main \notin DirFiles
  BY <1>2, DirAssumption DEF Calls
<1>4. PICK done : done = Done
  OBVIOUS
<1>5. done = call.listed \ (call.todo \cup {f})
  BY <1>4 DEF Done
<1>6. PICK t : t = cache'[f].text
  OBVIOUS
<1>7. /\ DOMAIN Parsed(t) = DOMAIN t
      /\ \A n \in DOMAIN t : /\ n \in DOMAIN enforcer'.rules
                             /\ enforcer'.rules[n] = Parsed(t)[n]
      /\ \A n : n \notin DOMAIN t =>
           /\ n \in DOMAIN enforcer'.rules <=> n \in DOMAIN enforcer.rules
           /\ n \in DOMAIN enforcer.rules => enforcer'.rules[n] = enforcer.rules[n]
  <2>1. DOMAIN Parsed(t) = DOMAIN t
    BY DEF Parsed
  <2>2. PICK new, was, is : /\ new = Parsed(t) /\ was = enforcer.rules
                            /\ is = enforcer'.rules
    OBVIOUS
  <2>3. is = Over(new, was)
    BY <1>6, <2>2
  <2>4. /\ \A n \in DOMAIN new : n \in DOMAIN is /\ is[n] = new[n]
        /\ \A n : n \notin DOMAIN new =>
             /\ n \in DOMAIN is <=> n \in DOMAIN was
             /\ n \in DOMAIN was => is[n] = was[n]
    BY <2>3 DEF Over
  <2>5. QED
    BY <2>1, <2>2, <2>4
<1>8. MainBelow'
  <2>1. cache'[Main] = cache[Main] /\ Main # f
    BY MainIsFile
  <2>2. SUFFICES ASSUME cache[Main].text # Malformed,
                        NEW n \in Names, n \notin overlaid'
                 PROVE  IF Says(Main, n)' THEN Gives(Main, n)'
                        ELSE n \notin DOMAIN enforcer'.rules
    BY <2>1 DEF MainBelow
  <2>3. n \notin overlaid /\ n \notin DOMAIN t
    BY <1>6, <2>2
  <2>4. IF Says(Main, n) THEN Gives(Main, n) ELSE n \notin DOMAIN enforcer.rules
    BY <1>1, <2>2, <2>3 DEF MainBelow
  <2>5. QED
    BY <1>7, <2>1, <2>3, <2>4 DEF Gives, Says
<1>9. LastOf(done \cup {f})'
  <2>1. \A g \in done : cache'[g] = cache[g]
    BY <1>3, <1>5 DEF Files
  <2>2. SUFFICES
          ASSUME NEW n \in Names, { g \in done \cup {f} : Says(g, n)' } # {}
          PROVE  \E g \in { h \in done \cup {f} : Says(h, n)' } :
                   Gives(g, n)' /\ \A h \in { k \in done \cup {f} : Says(k, n)' } :
                                     Place[h] <= Place[g]
    BY DEF LastOf
  <2>3. CASE n \in DOMAIN t
    <3>1. Says(f, n)' /\ Gives(f, n)'
      BY <1>6, <1>7, <2>3 DEF Says, Gives
    <3>2. \A h \in done \cup {f} : Place[h] <= Place[f]
      BY <1>2, <1>3, <1>4, <1>5, DirAssumption
    <3>3. QED
      BY <3>1, <3>2
  <2>4. CASE n \notin DOMAIN t
    <3>1. ~Says(f, n)'
      BY <1>6, <2>4 DEF Says
    <3>2. \A g \in done : Says(g, n)' <=> Says(g, n)
      BY <2>1 DEF Says
    <3>3. { g \in done \cup {f} : Says(g, n)' } = { g \in done : Says(g, n) }
      BY <3>1, <3>2
    <3>4. PICK g \in { h \in done : Says(h, n) } :
            Gives(g, n) /\ \A h \in { k \in done : Says(k, n) } : Place[h] <= Place[g]
      BY <1>1, <1>4, <2>2, <3>3 DEF LastOf
    <3>5. Gives(g, n)'
      BY <1>7, <2>1, <2>4, <3>4 DEF Gives
    <3>6. QED
      BY <3>3, <3>4, <3>5
  <2>5. QED
    BY <2>3, <2>4
<1>10. /\ call'.listed = call.listed
       /\ \/ call.todo = {} /\ call'.stage = "answer" /\ call'.file = f
          \/ /\ call'.stage = "stat" /\ call'.file \in First(call.todo)
             /\ call'.todo = call.todo \ {call'.file}
  BY <1>3, WalksOn
<1>11. Done' = done \cup {f}
  <2>1. CASE call.todo = {} /\ call'.stage = "answer"
    BY <1>2, <1>5, <1>10, <2>1 DEF Done
  <2>2. CASE /\ call'.stage = "stat" /\ call'.file \in First(call.todo)
             /\ call'.todo = call.todo \ {call'.file}
    <3>1. Done' = call.listed \ ((call.todo \ {call'.file}) \cup {call'.file})
      BY <1>10, <2>2 DEF Done
    <3>2. call'.file \in call.todo
      BY <2>2 DEF First
    <3>3. QED
      BY <1>2, <1>5, <3>1, <3>2
  <2>3. QED
    BY <1>10, <2>1, <2>2
<1>12. InForce' /\ Walked'
  BY <1>8, <1>9, <1>11 DEF InForce, Walked, LastOf, Gives, Says
<1>13. Stages'
  <2>1. call'.stage # "list" /\ call'.file # Main
    BY <1>3, <1>10 DEF First
  <2>2. QED
    BY <2>1 DEF Stages
<1>14. InOrder'
  <2>1. CASE call'.stage = "answer"
    BY <2>1 DEF InOrder
  <2>2. CASE /\ call'.stage = "stat" /\ call'.file \in First(call.todo)
             /\ call'.todo = call.todo \ {call'.file}
    <3>1. PICK g \in call.todo :
            g = call'.file /\ \A h \in call.todo : Place[g] <= Place[h]
      BY <2>2 DEF First
    <3>2. call'.todo \cup {g} \subseteq call'.listed /\ g \notin call'.todo
      BY <1>2, <1>10, <2>2, <3>1
    <3>3. \A h \in done \cup {f} : Place[h] < Place[g]
      BY <1>2, <1>3, <1>4, <1>5, <3>1, DirAssumption
    <3>4. \A h \in call.todo \ {g} : Place[g] < Place[h]
      BY <1>3, <3>1, DirAssumption
    <3>5. QED
      BY <1>11, <2>2, <3>1, <3>2, <3>3, <3>4 DEF InOrder
  <2>3. QED
    BY <1>10, <2>1, <2>2
<1>15. QED
  BY <1>12, <1>13, <1>14 DEF WalkInv

LEMMA WalkReadFile ==
  ASSUME CacheInv, WalkInv, ReadFile
  PROVE  WalkInv'
<1>1. PICK f : f = call.file
  OBVIOUS
<1>2. /\ PolicyTypes /\ call # Idle /\ call \in Calls /\ call.stage = "read"
      /\ f \in Files /\ IsEnforcer(enforcer)
      /\ cache \in [Files -> {NotCached} \cup Entries]
  BY <1>1, ReadsFile DEF CacheInv, PolicyTypes
<1>3. \A g \in Files \ {f} : cache'[g] = cache[g]
  BY <1>1, <1>2, ReadsFile
<1>4. enforcer.use_conf
  BY <1>2 DEF WalkInv, Stages
<1>5. CASE /\ \/ Reloads(f) /\ disk[f] = Absent
              \/ Applies(f) /\ cache'[f].text = Malformed
           /\ call' = Idle /\ enforcer' = enforcer /\ overlaid' = overlaid
  <2>1. cache'[Main] # NotCached /\ enforcer.rules # NoRules => MainBelow'
    <3>1. CASE cache'[Main].text = Malformed
      BY <3>1 DEF MainBelow
    <3>2. CASE cache'[Main] = cache[Main]
      BY <1>2, <1>5, <3>2 DEF WalkInv, InForce, MainBelow, Gives, Says
    <3>3. \/ cache'[Main].text = Malformed
          \/ cache'[Main] = cache[Main]
      <4>1. CASE f # Main
        BY <1>3, <4>1, MainIsFile
      <4>2. CASE f = Main /\ Reloads(f) /\ disk[f] = Absent
        BY <1>1, <1>2, <4>2, ReadsFile
      <4>3. QED
        BY <1>5, <4>1, <4>2
    <3>4. QED
      BY <3>1, <3>2, <3>3
  <2>2. InForce' /\ Stages' /\ Walked' /\ InOrder'
    BY <1>5, <2>1 DEF InForce, Stages, Walked, InOrder, PastMain
  <2>3. QED
    BY <2>2 DEF WalkInv
<1>6. CASE /\ ~(Reloads(f) /\ disk[f] = Absent) /\ Advance(f)
           /\ ~Applies(f) /\ enforcer' = enforcer /\ overlaid' = overlaid
  <2>1. f = Main /\ ~Reloads(f) /\ enforcer.rules # NoRules
    BY <1>6 DEF Applies
  <2>2. cache' = cache
    BY <1>1, <1>2, <2>1, ReadsFile
  <2>3. MainBelow
    BY <1>2, <2>1 DEF WalkInv, InForce, Reloads
  <2>4. MainBelow'
    BY <1>6, <2>2, <2>3 DEF MainBelow, Gives, Says
  <2>5. /\ call'.stage = "list" /\ call'.file = Main
        /\ call'.todo = {} /\ call'.listed = {}
    BY <1>1, <1>2, <1>6, <2>1 DEF Advance, Calls, WalkInv, Stages
  <2>6. Done' = {} /\ Stages' /\ InOrder'
    BY <1>4, <1>6, <2>5 DEF Done, Stages, InOrder
  <2>7. InForce' /\ Walked'
    BY <2>4, <2>6 DEF InForce, Walked, LastOf
  <2>8. QED
    BY <2>6, <2>7 DEF WalkInv
<1>7. CASE /\ ~(Reloads(f) /\ disk[f] = Absent) /\ Advance(f)
           /\ Applies(f) /\ cache'[f].text # Malformed
           /\ enforcer' = WithRules(enforcer, Parsed(cache'[f].text), f = Main, TRUE)
           /\ overlaid' = IF f = Main THEN {}
                          ELSE overlaid \cup DOMAIN cache'[f].text
  <2>1. CASE f = Main
    <3>1. enforcer' = WithRules(enforcer, Parsed(cache'[Main].text), TRUE, TRUE)
      BY <1>7, <2>1
    <3>2. enforcer'.rules = Parsed(cache'[Main].text) /\ enforcer'.use_conf = TRUE
      <4>1. PICK r : r = Parsed(cache'[Main].text)
        OBVIOUS
      <4>2. /\ WithRules(enforcer, r, TRUE, TRUE).rules = r
            /\ WithRules(enforcer, r, TRUE, TRUE).use_conf = TRUE
        BY <1>2, WithRulesOverwritten
      <4>3. QED
        BY <3>1, <4>1, <4>2
    <3>3. MainBelow'
      BY <3>2 DEF MainBelow, Says, Gives, Parsed
    <3>4. /\ call'.stage = "list" /\ call'.file = Main
          /\ call'.todo = {} /\ call'.listed = {}
      BY <1>1, <1>2, <1>7, <2>1 DEF Advance, Calls, WalkInv, Stages
    <3>5. Done' = {} /\ Stages' /\ InOrder'
      BY <3>2, <3>4 DEF Done, Stages, InOrder
    <3>6. InForce' /\ Walked'
      BY <3>3, <3>5 DEF InForce, Walked, LastOf
    <3>7. QED
      BY <3>5, <3>6 DEF WalkInv
  <2>2. CASE f # Main
    <3>1. enforcer' = WithRules(enforcer, Parsed(cache'[f].text), FALSE, TRUE)
      BY <1>7, <2>2
    <3>2. /\ enforcer'.rules = Over(Parsed(cache'[f].text), enforcer.rules)
          /\ enforcer'.use_conf = TRUE
      <4>1. PICK r : r = Parsed(cache'[f].text)
        OBVIOUS
      <4>2. /\ WithRules(enforcer, r, FALSE, TRUE).rules = Over(r, enforcer.rules)
            /\ WithRules(enforcer, r, FALSE, TRUE).use_conf = TRUE
        BY <1>2, WithRulesMerged
      <4>3. QED
        BY <3>1, <4>1, <4>2
    <3>3. WalkOn(call.todo)
      BY <1>7, <2>2 DEF Advance
    <3>4. call' \in Calls
      BY <1>1, <1>2, <1>7, Advances
    <3>5. overlaid' = overlaid \cup DOMAIN cache'[f].text
      BY <1>7, <2>2
    <3>6. QED
      BY <1>1, <1>2, <1>3, <1>7, <2>2, <3>2, <3>3, <3>4, <3>5, WalkApplies
  <2>3. QED
    BY <2>1, <2>2
<1>8. QED
  BY <1>1, <1>2, <1>5, <1>6, <1>7, ReadsFile

LEMMA WalkStep ==
  ASSUME CacheInv, WalkInv, [EnforcerNext]_enforcerVars
  PROVE  WalkInv'
<1>1. CASE \E f \in Files : Edit(f)
  BY <1>1, WalkSame DEF Edit
<1>2. CASE Tick
  BY <1>2, WalkSame DEF Tick, historyVars
<1>3. CASE GiveAnswer
  <2>1. /\ call # Idle /\ call' = Idle
        /\ cache' = cache /\ enforcer' = enforcer /\ overlaid' = overlaid
    BY <1>3 DEF GiveAnswer, historyVars
  <2>2. InForce'
    BY <2>1 DEF WalkInv, InForce, MainBelow, Gives, Says
  <2>3. Stages' /\ Walked' /\ InOrder'
    BY <2>1 DEF Stages, Walked, InOrder, PastMain
  <2>4. QED
    BY <2>2, <2>3 DEF WalkInv
<1>4. CASE \E t \in Texts, o \in BOOLEAN, u \in BOOLEAN : SetRules(t, o, u)
  <2>1. call' = Idle /\ overlaid' = overlaid \cup Names
    BY <1>4 DEF SetRules
  <2>2. MainBelow'
    BY <2>1 DEF MainBelow
  <2>3. InForce' /\ Stages' /\ Walked' /\ InOrder'
    BY <2>1, <2>2 DEF InForce, Stages, Walked, InOrder, PastMain
  <2>4. QED
    BY <2>3 DEF WalkInv
<1>5. CASE Reset
  <2>1. call' = Idle /\ enforcer' = NoEnforcer
    BY <1>5 DEF Reset
  <2>2. InForce' /\ Stages' /\ Walked' /\ InOrder'
    BY <2>1 DEF InForce, Stages, Walked, InOrder, PastMain
  <2>3. QED
    BY <2>2 DEF WalkInv
<1>6. CASE UNCHANGED enforcerVars
  BY <1>6, WalkSame DEF enforcerVars
<1>7. QED
  BY <1>1, <1>2, <1>3, <1>4, <1>5, <1>6, WalkEnforceCall, WalkForceLoad,
     WalkStatFile, WalkReadFile, WalkListDir DEF EnforcerNext

LEMMA WalkedThrough ==
  ASSUME CacheInv, WalkInv
  PROVE  DirectoryOverMain
<1>1. SUFFICES
        ASSUME call # Idle, call.stage = "answer", enforcer.use_conf,
               NEW n \in Names
        PROVE  LET by == { f \in call.listed : Says(f, n) }
               IN  CASE by # {} -> Gives(CHOOSE f \in by :
                                           \A g \in by : Place[g] <= Place[f], n)
                     [] by = {} /\ n \notin overlaid /\ cache[Main].text # Malformed ->
                          IF Says(Main, n) THEN Gives(Main, n)
                          ELSE n \notin DOMAIN enforcer.rules
                     [] OTHER -> TRUE
  BY DEF DirectoryOverMain, Gives
<1>2. MainBelow /\ LastOf(call.listed)
  BY <1>1 DEF WalkInv, Walked, PastMain, Done
<1>3. PICK by : by = { f \in call.listed : Says(f, n) }
  OBVIOUS
<1>4. by \subseteq DirFiles
  BY <1>1, <1>3 DEF CacheInv, PolicyTypes, Calls
<1>5. by # {} => Gives(CHOOSE f \in by : \A g \in by : Place[g] <= Place[f], n)
  <2>1. SUFFICES ASSUME by # {}
                 PROVE  Gives(CHOOSE f \in by : \A g \in by : Place[g] <= Place[f], n)
    OBVIOUS
  <2>2. PICK f \in by : Gives(f, n) /\ \A g \in by : Place[g] <= Place[f]
    BY <1>2, <1>3, <2>1 DEF LastOf
  <2>3. PICK c : c = CHOOSE g \in by : \A h \in by : Place[h] <= Place[g]
    OBVIOUS
  <2>4. c \in by /\ \A h \in by : Place[h] <= Place[c]
    BY <2>2, <2>3
  <2>5. c = f
    BY <1>4, <2>2, <2>4, DirAssumption
  <2>6. QED
    BY <2>2, <2>3, <2>5
<1>6. n \notin overlaid /\ cache[Main].text # Malformed =>
        IF Says(Main, n) THEN Gives(Main, n) ELSE n \notin DOMAIN enforcer.rules
  BY <1>2 DEF MainBelow
<1>7. QED
  BY <1>3, <1>5, <1>6

(***************************************************************************)
(* When load_rules has come through, the last file of the directory that   *)
(* says something of a name has its say, the main file where none has, and *)
(* nothing else is in force: whatever was edited between two files of the  *)
(* walk, and whatever the loads before did, also those that raised.        *)
(***************************************************************************)
THEOREM DirectoryHasItsSay == EnforcerSpec => []DirectoryOverMain
<1>1. EnforcerInit => PolicyInv
  BY CacheInit, WalkInit DEF PolicyInv
<1>2. PolicyInv /\ [EnforcerNext]_enforcerVars => PolicyInv'
  BY CacheStep, WalkStep DEF PolicyInv
<1>3. PolicyInv => DirectoryOverMain
  BY WalkedThrough DEF PolicyInv
<1>4. QED
  BY <1>1, <1>2, <1>3, PTL DEF EnforcerSpec

-----------------------------------------------------------------------------
(* The contexts of requests.                                               *)

Context == [user_id : Users \cup {NoOne}, project_id : {NoOne}, is_admin : {"none", "true"},
            read_deleted : {"no", "yes", "only"},
            service_catalog : { Kept(c) : c \in Catalogs \cup {{}} }, roles : Nat,
            how : {"request", "handler", "admin", "cast", "elevated"}, source : Nat]

\* What ToDict and CredsOf say of c when the lists are ls.
Dict(c, ls) ==
  [user_id |-> c.user_id, project_id |-> c.project_id, is_admin |-> c.is_admin,
   read_deleted |-> c.read_deleted, service_catalog |-> c.service_catalog,
   roles |-> ls[c.roles]]

RolesIn(list) == { list[k] : k \in DOMAIN list }

CredsIn(c, ls) == [Dict(c, ls) EXCEPT !.roles = RolesIn(@)]

\* The context c, made i-th, has a list, and was made from an earlier one.
Placed(c, i, ls) == /\ c.roles \in DOMAIN ls
                    /\ c.how \in {"cast", "elevated"} => c.source \in 1..(i - 1)

CtxTypes ==
  /\ contexts \in Seq(Context)
  /\ lists \in Seq(Seq(Roles))
  /\ DOMAIN said = DOMAIN contexts
  /\ \A i \in DOMAIN contexts : Placed(contexts[i], i, lists)

\* What the context c tells of the one it was made from, s.
TellsOf(c, s, ls) ==
  /\ c.how = "cast" => Dict(c, ls) = Dict(s, ls)
  /\ c.how = "elevated" => CredsIn(c, ls) = AsAdmin(CredsIn(s, ls), c.read_deleted)

CtxInv ==
  /\ CtxTypes
  /\ said \in Seq({ said[i] : i \in DOMAIN said })
  /\ \A i \in DOMAIN contexts : said[i] = Dict(contexts[i], lists)
  /\ \A i \in DOMAIN contexts :
       contexts[i].how \in {"cast", "elevated"} =>
         TellsOf(contexts[i], contexts[contexts[i].source], lists)

LEMMA HeadersTyped ==
  ASSUME NEW h \in RoleLists
  PROVE  Split(h) \in Seq(Roles)
<1>1. h \in Seq(STRING)
  BY HeaderAssumption
<1>2. ToSet(Split(h)) \subseteq Roles
  <2>1. ToSet(Split(h)) \subseteq HeaderRoles
    BY Zenon DEF HeaderRoles
  <2>2. QED
    BY <2>1 DEF Roles
<1>3. PICK l : l = Split(h)
  OBVIOUS
<1>4. \E S : l \in Seq(S)
  <2>1. CASE h = <<>>
    <3>1. \A e : <<e>> \in Seq({e})
      OBVIOUS
    <3>2. l = <<"">>
      BY <1>3, <2>1, Zenon DEF Split
    <3>3. QED
      BY <3>1, <3>2, Zenon
  <2>2. CASE h # <<>>
    BY <1>1, <1>3, <2>2 DEF Split
  <2>3. QED
    BY <2>1, <2>2
<1>5. ToSet(l) = { l[k] : k \in DOMAIN l }
  BY DEF ToSet
<1>6. \A k \in DOMAIN l : l[k] \in Roles
  BY <1>2, <1>3, <1>5
<1>7. QED
  BY <1>3, <1>4, <1>6

\* The two ways to write the dictionary are one.
LEMMA DictIs ==
  ASSUME NEW c
  PROVE  /\ ToDict(c) = Dict(c, lists)
         /\ CredsOf(c) = CredsIn(c, lists)
BY DEF ToDict, Dict, CredsOf, CredsIn, RolesIn, ToSet

LEMMA CredsTyped ==
  ASSUME NEW c \in Context, NEW ls \in Seq(Seq(Roles)), c.roles \in DOMAIN ls
  PROVE  CredsIn(c, ls) \in Creds
<1>1. ls[c.roles] \in Seq(Roles)
  OBVIOUS
<1>2. RolesIn(ls[c.roles]) \in SUBSET Roles
  BY <1>1 DEF RolesIn
<1>3. CredsIn(c, ls) = [user_id |-> c.user_id, project_id |-> c.project_id,
          is_admin |-> c.is_admin, read_deleted |-> c.read_deleted,
          service_catalog |-> c.service_catalog, roles |-> RolesIn(ls[c.roles])]
  BY DEF CredsIn, Dict
<1>4. PICK cat : cat = { Kept(x) : x \in Catalogs \cup {{}} }
  OBVIOUS
<1>5. PICK rs : rs = RolesIn(ls[c.roles])
  OBVIOUS
<1>6. /\ c.user_id \in Users \cup {NoOne} /\ c.project_id \in {NoOne}
      /\ c.is_admin \in {"none", "true"} /\ c.read_deleted \in {"no", "yes", "only"}
      /\ c.service_catalog \in cat
  BY <1>4 DEF Context
<1>7. QED
  BY <1>2, <1>3, <1>4, <1>5, <1>6 DEF Creds

\* One more context and one more list leave the others as they were.
LEMMA OneMore ==
  ASSUME CtxInv, NEW c \in Context, NEW l \in Seq(Roles),
         c.roles = Len(lists) + 1,
         c.how \in {"cast", "elevated"} => /\ c.source \in DOMAIN contexts
                                           /\ TellsOf(c, contexts[c.source], Append(lists, l)),
         contexts' = Append(contexts, c), lists' = Append(lists, l),
         said' = Append(said, Dict(contexts'[Len(contexts')], lists'))
  PROVE  CtxInv'
<1>1. /\ contexts \in Seq(Context) /\ lists \in Seq(Seq(Roles))
      /\ DOMAIN said = DOMAIN contexts
      /\ \A i \in DOMAIN contexts : Placed(contexts[i], i, lists)
  BY DEF CtxInv, CtxTypes
<1>2. PICK n \in Nat : n = Len(contexts)
  BY <1>1
<1>3. PICK m \in Nat : m = Len(lists)
  BY <1>1
<1>4. /\ contexts' \in Seq(Context) /\ lists' \in Seq(Seq(Roles))
      /\ DOMAIN contexts = 1..n /\ DOMAIN contexts' = 1..(n + 1)
      /\ DOMAIN lists = 1..m /\ DOMAIN lists' = 1..(m + 1)
      /\ Len(contexts') = n + 1
      /\ contexts'[n + 1] = c /\ lists'[m + 1] = l
      /\ \A i \in 1..n : contexts'[i] = contexts[i]
      /\ \A i \in 1..m : lists'[i] = lists[i]
  BY <1>1, <1>2, <1>3
<1>5. said \in Seq({ said[i] : i \in DOMAIN said })
  BY DEF CtxInv
<1>6. PICK d : d = Dict(c, lists')
  OBVIOUS
<1>7. said' = Append(said, d)
  BY <1>4, <1>6
<1>8. PICK S : S = { said[i] : i \in DOMAIN said }
  OBVIOUS
<1>9. said \in Seq(S) /\ Len(said) = n
  BY <1>1, <1>2, <1>4, <1>5, <1>8
<1>10. /\ said' \in Seq(S \cup {d}) /\ DOMAIN said' = 1..(n + 1) /\ said'[n + 1] = d
       /\ \A i \in 1..n : said'[i] = said[i]
  <2>1. PICK T : T = S \cup {d}
    OBVIOUS
  <2>2. said \in Seq(T) /\ d \in T
    BY <1>9, <2>1
  <2>3. said' \in Seq(T) /\ Len(said') = n + 1
    BY <1>7, <1>9, <2>2
  <2>4. DOMAIN said' = 1..(n + 1) /\ said'[n + 1] = d /\ \A i \in 1..n : said'[i] = said[i]
    BY <1>2, <1>7, <1>9, <2>2, <2>3
  <2>5. QED
    BY <2>1, <2>3, <2>4
<1>11. said' \in Seq({ said'[i] : i \in DOMAIN said' })
  <2>1. \A i \in DOMAIN said' : said'[i] \in { said'[j] : j \in DOMAIN said' }
    OBVIOUS
  <2>2. PICK T : T = { said'[j] : j \in DOMAIN said' }
    OBVIOUS
  <2>3. /\ \A i \in DOMAIN said' : said'[i] \in T
        /\ said' \in Seq(S \cup {d})
    BY <1>10, <2>1, <2>2
  <2>4. PICK U : U = S \cup {d}
    OBVIOUS
  <2>5. said' \in Seq(U)
    BY <2>3, <2>4
  <2>6. PICK q : q = said'
    OBVIOUS
  <2>7. q \in Seq(T)
    <3>1. q \in Seq(U) /\ \A i \in DOMAIN q : q[i] \in T
      BY <2>3, <2>5, <2>6
    <3>2. QED
      BY <3>1
  <2>8. QED
    BY <2>2, <2>6, <2>7
<1>12. \A i \in 1..n : /\ contexts[i] \in Context /\ contexts[i].roles \in 1..m
                       /\ Dict(contexts[i], lists') = Dict(contexts[i], lists)
                       /\ CredsIn(contexts[i], lists') = CredsIn(contexts[i], lists)
  <2>1. SUFFICES ASSUME NEW i \in 1..n
                 PROVE  /\ contexts[i] \in Context /\ contexts[i].roles \in 1..m
                        /\ Dict(contexts[i], lists') = Dict(contexts[i], lists)
                        /\ CredsIn(contexts[i], lists') = CredsIn(contexts[i], lists)
    OBVIOUS
  <2>2. contexts[i] \in Context /\ contexts[i].roles \in 1..m
    <3>1. contexts[i] \in Context
      BY <1>1, <1>4
    <3>2. Placed(contexts[i], i, lists)
      BY <1>1, <1>4
    <3>3. QED
      BY <1>4, <3>1, <3>2 DEF Placed
  <2>3. Dict(contexts[i], lists') = Dict(contexts[i], lists)
    BY <1>4, <2>2 DEF Dict
  <2>4. QED
    BY <2>2, <2>3 DEF CredsIn
<1>13. CtxTypes'
  <2>1. ASSUME NEW i \in 1..(n + 1)
        PROVE  Placed(contexts'[i], i, lists')
    <3>1. CASE i \in 1..n
      <4>1. Placed(contexts[i], i, lists)
        BY <1>1, <1>4, <3>1
      <4>2. QED
        BY <1>4, <3>1, <4>1 DEF Placed
    <3>2. CASE i = n + 1
      BY <1>2, <1>3, <1>4, <3>2 DEF Placed
    <3>3. i \in 1..n \/ i = n + 1
      BY <1>2
    <3>4. QED
      BY <3>1, <3>2, <3>3, Zenon
  <2>2. QED
    BY <1>4, <1>10, <2>1 DEF CtxTypes
<1>14. \A i \in 1..(n + 1) : said'[i] = Dict(contexts'[i], lists')
  <2>1. \A i \in 1..n : said[i] = Dict(contexts[i], lists)
    BY <1>4 DEF CtxInv
  <2>2. \A i \in 1..n : said'[i] = Dict(contexts'[i], lists')
    BY <1>4, <1>10, <1>12, <2>1
  <2>3. QED
    BY <1>4, <1>6, <1>10, <2>2
<1>15. ASSUME NEW i \in 1..(n + 1), contexts'[i].how \in {"cast", "elevated"}
       PROVE  TellsOf(contexts'[i], contexts'[contexts'[i].source], lists')
  <2>1. CASE i \in 1..n
    <3>1. PICK s : s = contexts[i].source
      OBVIOUS
    <3>2. s \in 1..n /\ contexts'[s] = contexts[s]
      <4>1. Placed(contexts[i], i, lists) /\ contexts'[i] = contexts[i]
        BY <1>1, <1>4, <2>1
      <4>2. s \in 1..(i - 1)
        BY <1>15, <3>1, <4>1 DEF Placed
      <4>3. s \in 1..n
        BY <1>2, <2>1, <4>2
      <4>4. QED
        BY <1>4, <4>3
    <3>3. TellsOf(contexts[i], contexts[s], lists)
      BY <1>4, <1>15, <2>1, <3>1 DEF CtxInv
    <3>4. TellsOf(contexts[i], contexts[s], lists')
      BY <1>12, <2>1, <3>2, <3>3 DEF TellsOf
    <3>5. QED
      BY <1>4, <2>1, <3>1, <3>2, <3>4
  <2>2. CASE i = n + 1
    BY <1>4, <1>15, <2>2
  <2>3. i \in 1..n \/ i = n + 1
    BY <1>2
  <2>4. QED
    BY <2>1, <2>2, <2>3, Zenon
<1>16. QED
  BY <1>4, <1>11, <1>13, <1>14, <1>15 DEF CtxInv

LEMMA CtxStart == CtxInit => CtxInv
<1>1. SUFFICES ASSUME contexts = <<>>, lists = <<>>, said = <<>>
               PROVE  CtxInv
  BY DEF CtxInit
<1>2. DOMAIN contexts = {} /\ DOMAIN said = {}
  BY <1>1
<1>3. CtxTypes
  BY <1>1, <1>2 DEF CtxTypes
<1>4. PICK S : S = { said[j] : j \in DOMAIN said }
  OBVIOUS
<1>5. said \in Seq(S)
  BY <1>1
<1>6. QED
  BY <1>2, <1>3, <1>4, <1>5 DEF CtxInv

\* The values a context is made from.
Worthy(values) ==
  /\ values.user_id \in Users \cup {NoOne} /\ values.project_id \in {NoOne}
  /\ values.is_admin \in {"none", "true"} /\ values.read_deleted \in {"no", "yes", "only"}
  /\ Kept(values.service_catalog) \in { Kept(c) : c \in Catalogs \cup {{}} }
  /\ values.roles \in Seq(Roles)

\* The history takes down what the new context says.
Noted == said' = Append(said, ToDict(contexts[Len(contexts)])')

LEMMA NotedIs ==
  ASSUME Noted
  PROVE  said' = Append(said, Dict(contexts'[Len(contexts')], lists'))
BY DEF Noted, ToDict, Dict

\* A context made by __init__; a cast one says what its source says.
LEMMA Makes ==
  ASSUME CtxInv, NEW values, Worthy(values),
         NEW how \in {"request", "handler", "admin", "cast"}, NEW source \in Nat,
         how = "cast" => /\ source \in DOMAIN contexts
                         /\ values = Dict(contexts[source], lists),
         RequestContext(values, how, source), Noted
  PROVE  CtxInv'
<1>1. contexts \in Seq(Context) /\ lists \in Seq(Seq(Roles))
  BY DEF CtxInv, CtxTypes
<1>2. PICK c : c = [user_id |-> values.user_id, project_id |-> values.project_id,
                    is_admin |-> values.is_admin, read_deleted |-> values.read_deleted,
                    service_catalog |-> Kept(values.service_catalog),
                    roles |-> Len(lists) + 1, how |-> how, source |-> source]
  OBVIOUS
<1>3. contexts' = Append(contexts, c) /\ lists' = Append(lists, values.roles)
  BY <1>2 DEF RequestContext
<1>4. c \in Context
  <2>1. PICK cat : cat = { Kept(x) : x \in Catalogs \cup {{}} }
    OBVIOUS
  <2>2. Kept(values.service_catalog) \in cat
    BY <2>1 DEF Worthy
  <2>3. Len(lists) + 1 \in Nat
    BY <1>1
  <2>4. PICK k : k = Kept(values.service_catalog)
    OBVIOUS
  <2>5. QED
    BY <1>2, <2>1, <2>2, <2>3, <2>4 DEF Worthy, Context
<1>5. values.roles \in Seq(Roles)
  BY DEF Worthy
<1>6. ASSUME c.how \in {"cast", "elevated"}
      PROVE  /\ c.source \in DOMAIN contexts
             /\ TellsOf(c, contexts[c.source], Append(lists, values.roles))
  <2>1. how = "cast" /\ c.source = source /\ c.how = "cast"
    BY <1>2, <1>6
  <2>2. PICK s : s = contexts[source]
    OBVIOUS
  <2>3. source \in DOMAIN contexts /\ values = Dict(s, lists) /\ s \in Context
    BY <1>1, <2>1, <2>2
  <2>4. s.roles \in DOMAIN lists
    BY <2>2, <2>3 DEF CtxInv, CtxTypes, Placed
  <2>5. PICK ls : ls = Append(lists, values.roles)
    OBVIOUS
  <2>6. ls[s.roles] = lists[s.roles] /\ ls[Len(lists) + 1] = values.roles
    <3>1. PICK X : X = Seq(Roles)
      OBVIOUS
    <3>2. PICK v : v = values.roles
      OBVIOUS
    <3>3. lists \in Seq(X) /\ v \in X
      BY <1>1, <1>5, <3>1, <3>2
    <3>4. Append(lists, v)[s.roles] = lists[s.roles] /\ Append(lists, v)[Len(lists) + 1] = v
      BY <2>4, <3>3
    <3>5. QED
      BY <2>5, <3>2, <3>4
  <2>7. Kept(s.service_catalog) = s.service_catalog
    <3>1. \E x : s.service_catalog = Kept(x)
      BY <2>3 DEF Context
    <3>2. QED
      BY <3>1 DEF Kept
  <2>8. c.roles = Len(lists) + 1
    BY <1>2
  <2>9. /\ c.user_id = s.user_id /\ c.project_id = s.project_id /\ c.is_admin = s.is_admin
        /\ c.read_deleted = s.read_deleted /\ c.service_catalog = s.service_catalog
        /\ values.roles = lists[s.roles]
    BY <1>2, <2>3, <2>7 DEF Dict
  <2>10. Dict(c, ls) = Dict(s, ls)
    BY <2>6, <2>8, <2>9 DEF Dict
  <2>11. QED
    BY <2>1, <2>2, <2>3, <2>5, <2>10 DEF TellsOf
<1>7. c.roles = Len(lists) + 1
  BY <1>2
<1>8. QED
  BY <1>3, <1>4, <1>5, <1>6, <1>7, NotedIs, OneMore

\* A context elevated has the dictionary of its source with the role added.
LEMMA Elevates ==
  ASSUME CtxInv, NEW i \in DOMAIN contexts, NEW deleted \in {NoOne, "yes"},
         Elevated(i, deleted), Noted
  PROVE  CtxInv'
<1>1. contexts \in Seq(Context) /\ lists \in Seq(Seq(Roles)) /\ i \in 1..Len(contexts)
  BY DEF CtxInv, CtxTypes
<1>2. PICK s : s = contexts[i]
  OBVIOUS
<1>3. s \in Context /\ s.roles \in DOMAIN lists
  <2>1. Placed(contexts[i], i, lists)
    BY DEF CtxInv, CtxTypes
  <2>2. QED
    BY <1>1, <1>2, <2>1 DEF Placed
<1>4. PICK d : d = IF deleted = NoOne THEN s.read_deleted ELSE deleted
  OBVIOUS
<1>5. d \in {"no", "yes", "only"}
  BY <1>3, <1>4 DEF Context
<1>6. PICK c : c = [user_id |-> s.user_id, project_id |-> s.project_id, is_admin |-> "true",
                    read_deleted |-> d, service_catalog |-> s.service_catalog,
                    roles |-> Len(lists) + 1, how |-> "elevated", source |-> i]
  OBVIOUS
<1>7. c \in Context /\ c.roles = Len(lists) + 1
  <2>1. PICK cat : cat = { Kept(x) : x \in Catalogs \cup {{}} }
    OBVIOUS
  <2>2. PICK k : k = Len(lists) + 1
    OBVIOUS
  <2>3. k \in Nat /\ i \in Nat
    BY <1>1, <2>2
  <2>4. QED
    BY <1>3, <1>5, <1>6, <2>1, <2>2, <2>3 DEF Context
<1>8. PICK l : l = WithAdmin(lists[s.roles])
  OBVIOUS
<1>9. contexts' = Append(contexts, c) /\ lists' = Append(lists, l)
  <2>1. PICK n : n = Len(lists) + 1
    OBVIOUS
  <2>2. PICK e : e = [Raised(i, deleted) EXCEPT !.roles = n]
    OBVIOUS
  <2>3. e = c
    <3>1. s = [user_id |-> s.user_id, project_id |-> s.project_id, is_admin |-> s.is_admin,
               read_deleted |-> s.read_deleted, service_catalog |-> s.service_catalog,
               roles |-> s.roles, how |-> s.how, source |-> s.source]
      BY <1>3, Zenon DEF Context
    <3>2. Raised(i, deleted) = [s EXCEPT !.is_admin = "true", !.how = "elevated",
                                         !.source = i, !.read_deleted = d]
      BY <1>2, <1>4, Zenon DEF Raised
    <3>3. PICK f : f = Raised(i, deleted)
      OBVIOUS
    <3>4. f = [user_id |-> s.user_id, project_id |-> s.project_id, is_admin |-> "true",
               read_deleted |-> d, service_catalog |-> s.service_catalog,
               roles |-> s.roles, how |-> "elevated", source |-> i]
      BY <3>1, <3>2, <3>3
    <3>5. QED
      BY <1>6, <2>1, <2>2, <3>3, <3>4
  <2>4. QED
    BY <1>2, <1>8, <2>1, <2>2, <2>3 DEF Elevated
<1>10. lists[s.roles] \in Seq(Roles)
  BY <1>1, <1>3
<1>11. l \in Seq(Roles) /\ RolesIn(l) = RolesIn(lists[s.roles]) \cup {"admin"}
  <2>1. PICK r : r = lists[s.roles]
    OBVIOUS
  <2>2. PICK a : a = "admin"
    OBVIOUS
  <2>3. r \in Seq(Roles) /\ a \in Roles /\ l = IF a \in ToSet(r) THEN r ELSE Append(r, a)
    <3>1. a \in Roles
      BY <2>2 DEF Roles
    <3>2. l = IF a \in ToSet(r) THEN r ELSE Append(r, a)
      BY <1>8, <2>1, <2>2, Zenon DEF WithAdmin
    <3>3. QED
      BY <1>10, <2>1, <3>1, <3>2
  <2>4. ToSet(r) = RolesIn(r)
    BY DEF ToSet, RolesIn
  <2>5. CASE a \in RolesIn(r)
    BY <2>1, <2>2, <2>3, <2>4, <2>5
  <2>6. CASE a \notin RolesIn(r)
    <3>1. l = Append(r, a)
      BY <2>3, <2>4, <2>6
    <3>2. /\ l \in Seq(Roles) /\ DOMAIN l = 1..(Len(r) + 1) /\ DOMAIN r = 1..Len(r)
          /\ Len(r) \in Nat /\ l[Len(r) + 1] = a /\ \A k \in 1..Len(r) : l[k] = r[k]
      BY <2>3, <3>1
    <3>3. \A x : x \in RolesIn(l) <=> x \in RolesIn(r) \/ x = a
      BY <3>2 DEF RolesIn
    <3>4. RolesIn(l) = RolesIn(r) \cup {a}
      BY <3>3
    <3>5. QED
      BY <2>1, <2>2, <3>2, <3>4
  <2>7. QED
    BY <2>5, <2>6
<1>12. PICK ls : ls = Append(lists, l)
  OBVIOUS
<1>13. ls[s.roles] = lists[s.roles] /\ ls[c.roles] = l
  BY <1>1, <1>3, <1>7, <1>11, <1>12
<1>14. CredsIn(c, ls) = AsAdmin(CredsIn(s, ls), c.read_deleted)
  <2>1. PICK A : A = RolesIn(l)
    OBVIOUS
  <2>2. PICK B : B = RolesIn(lists[s.roles])
    OBVIOUS
  <2>3. A = B \cup {"admin"}
    BY <1>11, <2>1, <2>2
  <2>4. CredsIn(c, ls) = [user_id |-> c.user_id, project_id |-> c.project_id,
          is_admin |-> c.is_admin, read_deleted |-> c.read_deleted,
          service_catalog |-> c.service_catalog, roles |-> A]
    BY <1>13, <2>1 DEF CredsIn, Dict
  <2>5. CredsIn(s, ls) = [user_id |-> s.user_id, project_id |-> s.project_id,
          is_admin |-> s.is_admin, read_deleted |-> s.read_deleted,
          service_catalog |-> s.service_catalog, roles |-> B]
    BY <1>13, <2>2 DEF CredsIn, Dict
  <2>6. /\ c.user_id = s.user_id /\ c.project_id = s.project_id /\ c.is_admin = "true"
        /\ c.service_catalog = s.service_catalog
    BY <1>3, <1>6 DEF Context
  <2>7. PICK t : t = "admin"
    OBVIOUS
  <2>8. PICK e : e = CredsIn(s, ls)
    OBVIOUS
  <2>9. AsAdmin(e, c.read_deleted) = [e EXCEPT !.is_admin = "true", !.roles = B \cup {t},
                                               !.read_deleted = c.read_deleted]
    <3>1. e.roles = B
      BY <2>5, <2>8
    <3>2. QED
      BY <2>7, <3>1 DEF AsAdmin
  <2>10. [e EXCEPT !.is_admin = "true", !.roles = A, !.read_deleted = c.read_deleted]
           = CredsIn(c, ls)
    <3>1. [e EXCEPT !.is_admin = "true", !.roles = A, !.read_deleted = c.read_deleted]
            = [user_id |-> s.user_id, project_id |-> s.project_id, is_admin |-> "true",
               read_deleted |-> c.read_deleted, service_catalog |-> s.service_catalog,
               roles |-> A]
      <4>1. e = [user_id |-> s.user_id, project_id |-> s.project_id,
                 is_admin |-> s.is_admin, read_deleted |-> s.read_deleted,
                 service_catalog |-> s.service_catalog, roles |-> B]
        BY <2>5, <2>8, Zenon
      <4>2. PICK f : f = [e EXCEPT !.is_admin = "true", !.roles = A,
                                   !.read_deleted = c.read_deleted]
        OBVIOUS
      <4>3. f = [user_id |-> s.user_id, project_id |-> s.project_id, is_admin |-> "true",
                 read_deleted |-> c.read_deleted, service_catalog |-> s.service_catalog,
                 roles |-> A]
        BY <4>1, <4>2
      <4>4. QED
        BY <4>2, <4>3, Zenon
    <3>2. QED
      BY <2>4, <2>6, <3>1
  <2>11. QED
    BY <2>3, <2>7, <2>8, <2>9, <2>10
<1>15. c.source = i /\ c.how = "elevated"
  BY <1>3, <1>6 DEF Context
<1>16. TellsOf(c, contexts[c.source], Append(lists, l))
  BY <1>2, <1>12, <1>14, <1>15 DEF TellsOf
<1>17. QED
  BY <1>7, <1>9, <1>11, <1>15, <1>16, NotedIs, OneMore

LEMMA CtxStep == CtxInv /\ [CtxNext]_ctxVars => CtxInv'
<1>1. SUFFICES ASSUME CtxInv, [CtxNext]_ctxVars
               PROVE  CtxInv'
  OBVIOUS
<1>2. CASE UNCHANGED ctxVars
  BY <1>1, <1>2 DEF ctxVars, CtxInv, CtxTypes
<1>3. CASE CtxNext
  <2>1. Noted
    BY <1>3 DEF CtxNext, Noted
  <2>2. Kept({}) \in { Kept(c) : c \in Catalogs \cup {{}} }
    BY Zenon
  <2>3. <<>> \in Seq(Roles)
    OBVIOUS
  <2>4. Worthy(NoValues)
    BY <2>2, <2>3 DEF Worthy, NoValues
  <2>5. ASSUME NEW u \in Users \cup {NoOne}, NEW h \in RoleLists, NEW c \in Catalogs,
               KeystoneContext(u, h, c)
        PROVE  CtxInv'
    <3>1. PICK v : v = [NoValues EXCEPT !.user_id = u, !.roles = Split(h), !.service_catalog = c]
      OBVIOUS
    <3>2. Kept(c) \in { Kept(x) : x \in Catalogs \cup {{}} }
      BY Zenon
    <3>3. Split(h) \in Seq(Roles)
      BY HeadersTyped
    <3>4. v = [user_id |-> u, project_id |-> NoOne, is_admin |-> "none",
               read_deleted |-> "no", service_catalog |-> c, roles |-> Split(h)]
      BY <3>1 DEF NoValues
    <3>5. Worthy(v)
      BY <3>2, <3>3, <3>4 DEF Worthy
    <3>6. RequestContext(v, "request", 0)
      BY <2>5, <3>1 DEF KeystoneContext
    <3>7. QED
      BY <1>1, <2>1, <3>5, <3>6, Makes
  <2>6. CASE HandlerContext
    <3>1. RequestContext(NoValues, "handler", 0)
      BY <2>6 DEF HandlerContext
    <3>2. QED
      BY <1>1, <2>1, <2>4, <3>1, Makes
  <2>7. ASSUME NEW d \in {"no", "yes", "only"}, GetAdminContext(d)
        PROVE  CtxInv'
    <3>1. PICK v : v = [NoValues EXCEPT !.is_admin = "true", !.read_deleted = d]
      OBVIOUS
    <3>2. v = [user_id |-> NoOne, project_id |-> NoOne, is_admin |-> "true",
               read_deleted |-> d, service_catalog |-> {}, roles |-> <<>>]
      BY <3>1 DEF NoValues
    <3>3. Worthy(v)
      BY <2>2, <2>3, <3>2 DEF Worthy
    <3>4. RequestContext(v, "admin", 0)
      BY <2>7, <3>1 DEF GetAdminContext
    <3>5. QED
      BY <1>1, <2>1, <3>3, <3>4, Makes
  <2>8. ASSUME NEW i \in DOMAIN contexts, Cast(i)
        PROVE  CtxInv'
    <3>1. PICK c : c = contexts[i]
      OBVIOUS
    <3>2. PICK v : v = ToDict(c)
      OBVIOUS
    <3>3. v = Dict(c, lists)
      BY <3>2, DictIs
    <3>4. /\ contexts \in Seq(Context) /\ lists \in Seq(Seq(Roles))
          /\ Placed(c, i, lists)
      BY <1>1, <3>1 DEF CtxInv, CtxTypes
    <3>5. c \in Context /\ lists[c.roles] \in Seq(Roles) /\ i \in Nat
      BY <3>1, <3>4 DEF Placed
    <3>6. \E x \in Catalogs \cup {{}} : c.service_catalog = Kept(x)
      BY <3>5 DEF Context
    <3>7. Kept(c.service_catalog) \in { Kept(x) : x \in Catalogs \cup {{}} }
      <4>1. Kept(c.service_catalog) = c.service_catalog
        BY <3>6 DEF Kept
      <4>2. QED
        BY <3>6, <4>1, Zenon
    <3>8. Worthy(v)
      <4>1. PICK cat : cat = { Kept(x) : x \in Catalogs \cup {{}} }
        OBVIOUS
      <4>2. PICK l : l = lists[c.roles]
        OBVIOUS
      <4>3. v = [user_id |-> c.user_id, project_id |-> c.project_id, is_admin |-> c.is_admin,
                 read_deleted |-> c.read_deleted, service_catalog |-> c.service_catalog,
                 roles |-> l]
        BY <3>3, <4>2 DEF Dict
      <4>4. QED
        BY <3>5, <3>7, <4>1, <4>2, <4>3 DEF Worthy, Context
    <3>9. RequestContext(v, "cast", i)
      BY <2>8, <3>1, <3>2 DEF Cast
    <3>10. QED
      BY <1>1, <2>1, <3>1, <3>3, <3>5, <3>8, <3>9, Makes
  <2>9. ASSUME NEW i \in DOMAIN contexts, NEW d \in {NoOne, "yes"}, Elevated(i, d)
        PROVE  CtxInv'
    BY <1>1, <2>1, <2>9, Elevates
  <2>10. QED
    BY <1>3, <2>5, <2>6, <2>7, <2>8, <2>9 DEF CtxNext, Made
<1>4. QED
  BY <1>1, <1>2, <1>3

\* What the rules grant a context they grant it elevated.
LEMMA ElevatedPasses ==
  ASSUME NEW s, NEW c, CredsOf(s) \in Creds, NEW d \in {"no", "yes", "only"},
         CredsOf(c) = AsAdmin(CredsOf(s), d),
         c.is_admin = "true", c.user_id = CredsOf(c).user_id,
         c.project_id = CredsOf(c).project_id
  PROVE  /\ Passes(s, PlainRules) \subseteq Passes(c, PlainRules)
         /\ CheckIsAdmin(c) /\ RequireContext(c)
<1>1. PICK e \in Creds : e = CredsOf(s)
  OBVIOUS
<1>2. PICK a : a = AsAdmin(e, d)
  OBVIOUS
<1>3. CredsOf(c) = a
  BY <1>1, <1>2
<1>4. /\ \A rule \in PlainRules, t \in Targets : Grants(rule, t, e) => Grants(rule, t, a)
      /\ Grants("context_is_admin", Itself(a), a)
  BY <1>2, PolicyAssumption
<1>5. \A rule \in PlainRules, t \in Targets : Enforced(s, rule, t) => Enforced(c, rule, t)
  BY <1>1, <1>3, <1>4 DEF Enforced
<1>6. CheckIsAdmin(c)
  <2>1. Itself(c) = Itself(a)
    BY <1>3 DEF Itself
  <2>2. QED
    BY <1>3, <1>4, <2>1 DEF CheckIsAdmin, Enforced
<1>7. RequireContext(c) /\ ~IsUserContext(c)
  BY DEF RequireContext, IsUserContext
<1>8. \A t : AuthorizeProject(c, t) /\ AuthorizeUser(c, t)
  BY <1>7 DEF AuthorizeProject, AuthorizeUser
<1>9. ASSUME NEW q \in Passes(s, PlainRules)
      PROVE  q \in Passes(c, PlainRules)
  <2>1. CASE q \in { p \in PlainRules \X Targets : Enforced(s, p[1], p[2]) }
    <3>1. q \in PlainRules \X Targets /\ Enforced(s, q[1], q[2])
      BY <2>1, Zenon
    <3>2. q[1] \in PlainRules /\ q[2] \in Targets
      BY <3>1
    <3>3. q \in { p \in PlainRules \X Targets : Enforced(c, p[1], p[2]) }
      BY <1>5, <3>1, <3>2, Zenon
    <3>4. QED
      BY <3>3, Zenon DEF Passes
  <2>2. CASE q \in {"project"} \X Targets \/ q \in {"user"} \X Targets
             \/ q \in {"context"} \X Targets \/ q \in {"admin"} \X Targets
    BY <1>6, <1>7, <1>8, <2>2, Zenon DEF Passes
  <2>3. QED
    BY <1>9, <2>1, <2>2, Zenon DEF Passes
<1>10. QED
  BY <1>6, <1>7, <1>9

(***************************************************************************)
(* Whatever is made of a context later, it says what it said when it was   *)
(* made; a cast one says what its source says; and, under any rules that   *)
(* grant an administrator what they grant another, an elevated one passes  *)
(* every check its source passes, and those for administrators.            *)
(***************************************************************************)
THEOREM ContextsKeepWhatTheySaid == CtxSpec => []ContextsTell
<1>1. CtxInv => ContextsTell
  <2>1. SUFFICES ASSUME CtxInv, NEW i \in DOMAIN contexts
                 PROVE  LET c == contexts[i]
                            source == contexts[c.source]
                        IN  /\ ToDict(c) = said[i]
                            /\ c.how = "cast" => ToDict(c) = ToDict(source)
                            /\ c.how = "elevated" =>
                                 /\ Passes(source, PlainRules) \subseteq Passes(c, PlainRules)
                                 /\ CheckIsAdmin(c) /\ RequireContext(c)
    BY Zenon DEF ContextsTell, Made
  <2>2. PICK c : c = contexts[i]
    OBVIOUS
  <2>3. PICK s : s = contexts[c.source]
    OBVIOUS
  <2>4. ToDict(c) = said[i]
    BY <2>1, <2>2, DictIs DEF CtxInv
  <2>5. c.how \in {"cast", "elevated"} => TellsOf(c, s, lists)
    BY <2>1, <2>2, <2>3 DEF CtxInv
  <2>6. c.how = "cast" => ToDict(c) = ToDict(s)
    BY <2>5, DictIs DEF TellsOf
  <2>7. ASSUME c.how = "elevated"
        PROVE  /\ Passes(s, PlainRules) \subseteq Passes(c, PlainRules)
               /\ CheckIsAdmin(c) /\ RequireContext(c)
    <3>1. CredsOf(c) = AsAdmin(CredsOf(s), c.read_deleted)
      BY <2>5, <2>7, DictIs DEF TellsOf
    <3>2. contexts \in Seq(Context) /\ lists \in Seq(Seq(Roles)) /\ Placed(c, i, lists)
      BY <2>1, <2>2 DEF CtxInv, CtxTypes
    <3>3. c.source \in DOMAIN contexts
      BY <2>1, <2>7, <3>2 DEF Placed
    <3>4. c \in Context /\ s \in Context /\ s.roles \in DOMAIN lists
      <4>1. Placed(s, c.source, lists)
        BY <2>1, <2>3, <3>3 DEF CtxInv, CtxTypes
      <4>2. c \in Context
        BY <2>1, <2>2, <3>2
      <4>3. s \in Context
        BY <2>3, <3>2, <3>3
      <4>4. QED
        BY <4>1, <4>2, <4>3 DEF Placed
    <3>5. CredsOf(s) \in Creds
      BY <3>2, <3>4, CredsTyped, DictIs
    <3>6. c.read_deleted \in {"no", "yes", "only"}
      BY <3>4 DEF Context
    <3>7. CredsOf(c).user_id = c.user_id /\ CredsOf(c).project_id = c.project_id
          /\ CredsOf(c).is_admin = c.is_admin
      BY DEF CredsOf, ToDict
    <3>8. c.is_admin = "true"
      <4>1. CredsOf(c).is_admin = "true"
        <5>1. PICK e \in Creds : e = CredsOf(s)
          BY <3>5
        <5>2. AsAdmin(e, c.read_deleted).is_admin = "true"
          BY DEF AsAdmin, Creds
        <5>3. QED
          BY <3>1, <5>1, <5>2
      <4>2. QED
        BY <3>7, <4>1
    <3>9. QED
      BY <3>1, <3>5, <3>6, <3>7, <3>8, ElevatedPasses
  <2>8. QED
    BY <2>2, <2>3, <2>4, <2>6, <2>7
<1>2. QED
  BY CtxStart, CtxStep, <1>1, PTL DEF CtxSpec

=============================================================================
