---------------------------- MODULE Clients_proof ----------------------------
(***************************************************************************)
(* What the clients rely on of the token they share, for any number of     *)
(* callers and clients and any times.                                      *)
(***************************************************************************)
EXTENDS Clients, TLAPS

(***************************************************************************)
(* The inductive invariant bounds the age of a token wherever it is.  A    *)
(* token read from the cache is younger than the caching time and one      *)
(* attempt; from then on it ages with the attempts of the call, and so     *)
(* does the one among the headers, which the next attempt carries and a    *)
(* caller of the same client may have put there later, never earlier.      *)
(***************************************************************************)
AgeAt(tries) ==
  IF tries = 0 THEN CacheSeconds + Timeout
  ELSE IF tries = 1 THEN CacheSeconds + 2 * Timeout
  ELSE CacheSeconds + 3 * Timeout

Young(t, limit) == t # None => t.age < limit

GivenYoung(p) ==
  call[p].stage = "given" => call[p].token # None /\ call[p].token.age <= call[p].age

SentYoung(p) ==
  call[p].stage = "sent" =>
    /\ Young(call[p].token, AgeAt(call[p].tries) + call[p].age)
    /\ Young(header[clientOf[p]], AgeAt(call[p].tries) + call[p].age)

\* A caller that has its client to itself carries the token it was given.
OwnHeader(p) ==
  call[p].stage = "sent" /\ call[p].got /\ ~Shared(p) =>
    call[p].token # None /\ header[clientOf[p]] # None

RefusalExplained(p) ==
  call[p].stage = "refused" =>
    IF call[p].token = None THEN ~call[p].got \/ Shared(p) ELSE call[p].token.revoked

PerCall(p) ==
  GivenYoung(p) /\ SentYoung(p) /\ OwnHeader(p) /\ (Life >= Oldest => RefusalExplained(p))

Inv == TypeOK /\ CachedWithinLife /\ \A p \in Callers : PerCall(p)

-----------------------------------------------------------------------------

LEMMA Lengths ==
  /\ CacheSeconds \in Nat /\ CacheSeconds > 0 /\ Timeout \in Nat /\ Timeout > 0
  /\ Life \in Nat /\ Life > 0
  /\ Oldest = CacheSeconds + 4 * Timeout
  BY ClientsAssumption DEF Oldest, Attempts

LEMMA Ages ==
  ASSUME NEW k \in 0 .. Attempts - 1
  PROVE  /\ AgeAt(k) \in Nat /\ AgeAt(k) >= CacheSeconds + Timeout
         /\ AgeAt(k) + Timeout <= Oldest
         /\ k + 1 < Attempts => AgeAt(k + 1) = AgeAt(k) + Timeout
  BY Lengths DEF AgeAt, Attempts

\* Growing older keeps a token a token, and it ages by one at most.
LEMMA OlderAges ==
  ASSUME NEW t \in Token \cup {None}
  PROVE  /\ Older(t) \in Token \cup {None}
         /\ Older(t) = None <=> t = None
         /\ t # None => Older(t).age <= t.age + 1
  BY Lengths, NoneAssumption DEF Older, Token

\* Revoking a token changes nothing but that it is revoked.
LEMMA RevokedStays ==
  ASSUME NEW t \in Token \cup {None}
  PROVE  /\ Revoked(t) \in Token \cup {None}
         /\ Revoked(t) = None <=> t = None
         /\ t # None => Revoked(t).age = t.age
  BY NoneAssumption DEF Revoked, Token

LEMMA InitInv == Init => Inv
<1> SUFFICES ASSUME Init PROVE Inv
  OBVIOUS
<1>1. Bare("idle") \in Call
  BY Lengths DEF Bare, Call, Over, Waiting, Attempts
<1>2. TypeOK
  BY <1>1 DEF Init, TypeOK, Is, Bare, Over
<1>3. CachedWithinLife
  BY DEF Init, CachedWithinLife, Fresh
<1>4. ASSUME NEW p \in Callers PROVE PerCall(p)
  BY DEF Init, Bare, PerCall, GivenYoung, SentYoung, OwnHeader, RefusalExplained
<1>5. QED
  BY <1>2, <1>3, <1>4 DEF Inv

-----------------------------------------------------------------------------

\* What a request that goes out with token t, young enough to come from the
\* cache, keeps of the calls.
LEMMA SendsKeeps ==
  ASSUME Inv, NEW p \in Callers, NEW t \in Token \cup {None},
         Young(t, CacheSeconds + Timeout), Sends(p, t), UNCHANGED clientOf
  PROVE  /\ header' \in [Clients -> Token \cup {None}]
         /\ call' \in [Callers -> Call]
         /\ \A q \in Callers : Is(q, Over \ {"refused"})' => call'[q].token = None
         /\ \A q \in Callers : PerCall(q)'
<1> DEFINE new == [stage |-> "sent", token |-> t, got |-> t # None, tries |-> 0, age |-> 0]
<1>1. new \in Call
  BY Lengths DEF Call, Over, Waiting, Attempts
<1>2. /\ call \in [Callers -> Call] /\ clientOf \in [Callers -> Clients]
      /\ header \in [Clients -> Token \cup {None}]
  BY DEF Inv, TypeOK
<1>3. call' = [call EXCEPT ![p] = new] /\ header' = [header EXCEPT ![clientOf[p]] = t]
  BY DEF Sends, Headers
<1>4. new.stage = "sent" /\ new.token = t /\ new.tries = 0 /\ new.age = 0
      /\ new.got = (t # None)
  OBVIOUS
<1> HIDE DEF new
<1>5. header' \in [Clients -> Token \cup {None}] /\ call' \in [Callers -> Call]
  BY <1>1, <1>2, <1>3
<1>6. \A q \in Callers : Is(q, Over \ {"refused"})' => call'[q].token = None
  BY <1>2, <1>3, <1>4 DEF Inv, TypeOK, Is, Over
<1>7. ASSUME NEW q \in Callers PROVE PerCall(q)'
  <2>1. call[q] \in Call /\ PerCall(q) /\ clientOf[q] \in Clients
    BY <1>2 DEF Inv
  <2>2. header'[clientOf[q]] = IF clientOf[q] = clientOf[p] THEN t ELSE header[clientOf[q]]
    BY <1>2, <1>3, <2>1
  <2>3. CASE q = p
    <3>1. call'[q] = new /\ header'[clientOf[q]] = t /\ AgeAt(0) = CacheSeconds + Timeout
      BY <1>2, <1>3, <2>2, <2>3 DEF AgeAt
    <3>2. GivenYoung(q)' /\ RefusalExplained(q)' /\ OwnHeader(q)'
      BY <1>4, <3>1 DEF GivenYoung, RefusalExplained, OwnHeader
    <3>3. SentYoung(q)'
      BY <1>4, <3>1, Lengths DEF SentYoung, Young, Token
    <3>4. QED
      BY <3>2, <3>3 DEF PerCall
  <2>4. CASE q # p
    <3>1. call'[q] = call[q]
      BY <1>2, <1>3, <2>4
    <3>2. GivenYoung(q)' /\ (Life >= Oldest => RefusalExplained(q)')
      BY <2>1, <3>1 DEF PerCall, GivenYoung, RefusalExplained, Shared
    <3>3. OwnHeader(q)'
      <4>1. CASE clientOf[q] = clientOf[p]
        BY <2>4, <4>1 DEF OwnHeader, Shared
      <4>2. CASE clientOf[q] # clientOf[p]
        BY <2>1, <2>2, <3>1, <4>2 DEF PerCall, OwnHeader, Shared
      <4>3. QED
        BY <4>1, <4>2
    <3>4. SentYoung(q)'
      <4> SUFFICES ASSUME call[q].stage = "sent"
                   PROVE  /\ Young(call[q].token, AgeAt(call[q].tries) + call[q].age)
                          /\ Young(header'[clientOf[q]], AgeAt(call[q].tries) + call[q].age)
        BY <3>1 DEF SentYoung
      <4>1. call[q].tries \in 0 .. Attempts - 1 /\ call[q].age \in Nat
        BY <2>1 DEF Call
      <4>2. AgeAt(call[q].tries) \in Nat /\ AgeAt(call[q].tries) >= CacheSeconds + Timeout
        BY <4>1, Ages
      <4>3. Young(t, AgeAt(call[q].tries) + call[q].age)
        BY <4>1, <4>2, Lengths DEF Young, Token
      <4>4. QED
        BY <2>1, <2>2, <4>3 DEF PerCall, SentYoung
    <3>5. QED
      BY <3>2, <3>3, <3>4 DEF PerCall
  <2>5. QED
    BY <2>3, <2>4
<1>8. QED
  BY <1>5, <1>6, <1>7

-----------------------------------------------------------------------------
(* A step of one caller changes its own call only: what it has to show.    *)

LEMMA OwnStep ==
  ASSUME Inv, NEW p \in Callers, NEW new \in Call,
         call' = [call EXCEPT ![p] = new], UNCHANGED <<clientOf, cached, header>>,
         new.stage \in Over \ {"refused"} => new.token = None,
         PerCall(p)'
  PROVE  Inv'
<1>1. call \in [Callers -> Call] /\ call'[p] = new
  BY DEF Inv, TypeOK
<1>2. ASSUME NEW q \in Callers PROVE PerCall(q)'
  BY <1>1 DEF Inv, PerCall, GivenYoung, SentYoung, OwnHeader, RefusalExplained, Shared
<1>3. TypeOK'
  BY <1>1 DEF Inv, TypeOK, Is
<1>4. CachedWithinLife'
  BY DEF Inv, CachedWithinLife, Fresh
<1>5. QED
  BY <1>2, <1>3, <1>4 DEF Inv

LEMMA BeginInv == ASSUME Inv, NEW p \in Callers, Begin(p) PROVE Inv'
<1>1. TypeOK /\ CachedWithinLife
  BY DEF Inv
<1>2. cached' \in Entry \cup {None} /\ CachedWithinLife'
  BY <1>1 DEF Begin, Kept, TypeOK, CachedWithinLife, Fresh
<1>3. CASE clientOf[p] \notin Uncached /\ Fresh
  <2>1. cached \in Entry /\ cached.token \in Token /\ cached.left \in Nat
    BY <1>1, <1>3 DEF TypeOK, Fresh, Entry
  <2>2. Young(cached.token, CacheSeconds + Timeout)
    BY <1>1, <1>3, <2>1, Lengths DEF Young, CachedWithinLife, Fresh, Token
  <2>3. Sends(p, cached.token) /\ UNCHANGED clientOf
    BY <1>3 DEF Begin
  <2>4. QED
    BY <1>1, <1>2, <2>1, <2>2, <2>3, SendsKeeps DEF Inv, TypeOK
<1>4. CASE ~(clientOf[p] \notin Uncached /\ Fresh)
  <2> DEFINE new == [stage |-> "keystone", token |-> None, got |-> FALSE, tries |-> 0, age |-> 0]
  <2>1. new \in Call /\ new.stage = "keystone"
    BY Lengths DEF Call, Over, Waiting, Attempts
  <2>2. call' = [call EXCEPT ![p] = new] /\ UNCHANGED <<clientOf, header>>
    BY <1>4 DEF Begin, Bare
  <2> HIDE DEF new
  <2>3. call \in [Callers -> Call] /\ call'[p] = new
    BY <1>1, <2>2 DEF TypeOK
  <2>4. ASSUME NEW q \in Callers PROVE PerCall(q)'
    BY <2>1, <2>2, <2>3 DEF Inv, PerCall, GivenYoung, SentYoung, OwnHeader, RefusalExplained, Shared
  <2>5. TypeOK'
    BY <1>1, <1>2, <2>1, <2>2, <2>3 DEF TypeOK, Is, Over
  <2>6. QED
    BY <1>2, <2>4, <2>5 DEF Inv
<1>5. QED
  BY <1>3, <1>4

LEMMA IssueInv == ASSUME Inv, NEW p \in Callers, Issue(p) PROVE Inv'
<1> DEFINE t == [age |-> 0, revoked |-> FALSE]
<1> DEFINE asked == [call[p] EXCEPT !.stage = "given"]
<1> DEFINE new == [asked EXCEPT !.token = t]
<1>1. call \in [Callers -> Call] /\ call[p] \in Call
  BY DEF Inv, TypeOK
<1>2. t \in Token /\ t.age = 0
  BY Lengths DEF Token
<1>3. t # None
  BY <1>2, NoneAssumption
<1> HIDE DEF t
<1>4. /\ asked \in Call /\ asked.stage = "given" /\ asked.age = call[p].age
      /\ asked.age \in Nat
  BY <1>1, Lengths DEF Call, Waiting
<1>5. call' = [call EXCEPT ![p] = new] /\ UNCHANGED <<clientOf, cached, header>>
  BY <1>1 DEF Issue, t
<1> HIDE DEF asked
<1>6. new \in Call /\ new.stage = "given" /\ new.token = t /\ new.age \in Nat
  BY <1>2, <1>4 DEF Call
<1> HIDE DEF new
<1>7. call'[p] = new
  BY <1>1, <1>5
<1>8. PerCall(p)'
  BY <1>2, <1>3, <1>6, <1>7, Lengths DEF PerCall, GivenYoung, SentYoung, OwnHeader, RefusalExplained
<1>9. QED
  BY <1>6, <1>5, <1>8, OwnStep DEF Over

LEMMA ReceiveInv == ASSUME Inv, NEW p \in Callers, Receive(p) PROVE Inv'
<1> DEFINE t == call[p].token
<1>1. call[p] \in Call /\ call[p].stage = "given" /\ TypeOK /\ CachedWithinLife
  BY DEF Inv, TypeOK, Receive, Is
<1>2. t \in Token /\ t.age \in Nat /\ t.age <= Timeout
  BY <1>1, Lengths DEF Inv, PerCall, GivenYoung, Call, Token
<1>3. Young(t, CacheSeconds + Timeout)
  BY <1>2, Lengths DEF Young
<1>4. cached' \in Entry \cup {None} /\ CachedWithinLife'
  BY <1>1, <1>2, Lengths DEF Receive, Set, Entry, TypeOK, CachedWithinLife, Fresh
<1>5. Sends(p, t) /\ UNCHANGED clientOf
  BY DEF Receive
<1>6. QED
  BY <1>1, <1>2, <1>3, <1>4, <1>5, SendsKeeps DEF Inv, TypeOK

LEMMA NoTokenInv == ASSUME Inv, NEW p \in Callers, NoToken(p) PROVE Inv'
<1>1. Young(None, CacheSeconds + Timeout) /\ Sends(p, None) /\ UNCHANGED <<clientOf, cached>>
  BY DEF Young, NoToken
<1>2. TypeOK' /\ \A q \in Callers : PerCall(q)'
  BY <1>1, SendsKeeps DEF Inv, TypeOK
<1>3. CachedWithinLife'
  BY <1>1 DEF Inv, CachedWithinLife, Fresh
<1>4. QED
  BY <1>2, <1>3 DEF Inv

LEMMA RetryInv == ASSUME Inv, NEW p \in Callers, Retry(p) PROVE Inv'
<1>1. /\ call \in [Callers -> Call] /\ call[p] \in Call /\ call[p].stage \in Waiting
      /\ clientOf[p] \in Clients /\ header[clientOf[p]] \in Token \cup {None} /\ PerCall(p)
  BY DEF Inv, TypeOK, Retry, Is
<1>2. UNCHANGED <<clientOf, cached, header>>
  BY DEF Retry
<1>3. call[p].tries \in 0 .. Attempts - 1 /\ call[p].age \in Nat /\ call[p].age <= Timeout
  BY <1>1, Lengths DEF Call
<1>4. call[p].tries + 1 < Attempts /\ call[p].tries + 1 \in 0 .. Attempts - 1
  BY <1>3 DEF Retry, NextTry, Attempts
<1>5. CASE call[p].stage = "sent"
  <2> DEFINE new == [stage |-> "sent", token |-> header[clientOf[p]], got |-> call[p].got,
                     tries |-> call[p].tries + 1, age |-> 0]
  <2>1. /\ new \in Call /\ new.stage = "sent" /\ new.token = header[clientOf[p]]
        /\ new.tries = call[p].tries + 1 /\ new.age = 0 /\ new.got = call[p].got
    BY <1>1, <1>4, <1>5, Lengths DEF Call, Waiting
  <2>2. call' = [call EXCEPT ![p] = new]
    BY <1>1, <1>3, <1>5 DEF Retry, NextTry, Is, Call
  <2> HIDE DEF new
  <2>3. call'[p] = new
    BY <1>1, <2>2
  <2>4. GivenYoung(p)' /\ OwnHeader(p)' /\ RefusalExplained(p)'
    BY <1>1, <1>2, <1>5, <2>1, <2>3
       DEF PerCall, GivenYoung, OwnHeader, RefusalExplained, Shared
  <2>5. /\ AgeAt(call[p].tries) \in Nat
        /\ AgeAt(new.tries) = AgeAt(call[p].tries) + Timeout
    BY <1>3, <1>4, <2>1, Ages
  <2>6. Young(header[clientOf[p]], AgeAt(call[p].tries) + call[p].age)
    BY <1>1, <1>5 DEF PerCall, SentYoung
  <2>7. Young(header[clientOf[p]], AgeAt(new.tries) + 0)
    BY <1>1, <1>3, <2>5, <2>6, Lengths DEF Young, Token
  <2>8. SentYoung(p)'
    BY <1>2, <2>1, <2>3, <2>7 DEF SentYoung
  <2>9. QED
    BY <1>2, <2>1, <2>2, <2>4, <2>8, OwnStep DEF PerCall, Over
<1>6. CASE call[p].stage # "sent"
  <2> DEFINE new == [stage |-> "keystone", token |-> None, got |-> call[p].got,
                     tries |-> call[p].tries + 1, age |-> 0]
  <2>1. new \in Call /\ new.stage = "keystone"
    BY <1>1, <1>4, Lengths DEF Call, Waiting
  <2>2. call' = [call EXCEPT ![p] = new]
    BY <1>1, <1>3, <1>6 DEF Retry, NextTry, Is, Call
  <2> HIDE DEF new
  <2>3. call'[p] = new
    BY <1>1, <2>2
  <2>4. PerCall(p)'
    BY <2>1, <2>3 DEF PerCall, GivenYoung, SentYoung, OwnHeader, RefusalExplained
  <2>5. QED
    BY <1>2, <2>1, <2>2, <2>4, OwnStep DEF Over
<1>7. QED
  BY <1>5, <1>6

LEMMA AnswerInv == ASSUME Inv, NEW p \in Callers, Answer(p) PROVE Inv'
<1>1. /\ call \in [Callers -> Call] /\ call[p] \in Call /\ call[p].stage = "sent" /\ PerCall(p)
      /\ UNCHANGED <<clientOf, cached, header>>
  BY DEF Inv, TypeOK, Answer, Is
<1>2. CASE Honoured(call[p].token)
  <2> DEFINE new == [stage |-> "ok", token |-> None, got |-> FALSE, tries |-> 0, age |-> 0]
  <2>1. new \in Call /\ new.stage = "ok" /\ new.token = None
    BY Lengths DEF Call, Over, Waiting, Attempts
  <2>2. call' = [call EXCEPT ![p] = new]
    BY <1>1, <1>2 DEF Answer, Bare
  <2> HIDE DEF new
  <2>3. PerCall(p)'
    BY <1>1, <2>1, <2>2 DEF PerCall, GivenYoung, SentYoung, OwnHeader, RefusalExplained
  <2>4. QED
    BY <1>1, <2>1, <2>2, <2>3, OwnStep
<1>3. CASE ~Honoured(call[p].token)
  <2> DEFINE new == [call[p] EXCEPT !.stage = "refused"]
  <2>1. /\ new \in Call /\ new.stage = "refused" /\ new.token = call[p].token
        /\ new.got = call[p].got
    BY <1>1 DEF Call, Over
  <2>2. call' = [call EXCEPT ![p] = new]
    BY <1>1, <1>3 DEF Answer
  <2> HIDE DEF new
  <2>3. call'[p] = new
    BY <1>1, <2>2
  <2>4. ASSUME Life >= Oldest, call[p].token # None PROVE call[p].token.revoked
    <3>1. call[p].token \in Token /\ call[p].tries \in 0 .. Attempts - 1
          /\ call[p].age \in Nat /\ call[p].age <= Timeout
      BY <1>1, <2>4, Lengths DEF Call
    <3>2. call[p].token.age < AgeAt(call[p].tries) + call[p].age
      BY <1>1, <2>4 DEF PerCall, SentYoung, Young
    <3>3. AgeAt(call[p].tries) \in Nat /\ AgeAt(call[p].tries) + Timeout <= Oldest
      BY <3>1, Ages
    <3>4. call[p].token.age < Life
      BY <2>4, <3>1, <3>2, <3>3, Lengths DEF Token
    <3>5. QED
      BY <1>3, <2>4, <3>1, <3>4 DEF Honoured, Token
  <2>5. call[p].token = None => ~call[p].got \/ Shared(p)
    BY <1>1 DEF PerCall, OwnHeader
  <2>6. PerCall(p)'
    BY <1>1, <2>1, <2>3, <2>4, <2>5
       DEF PerCall, GivenYoung, SentYoung, OwnHeader, RefusalExplained, Shared, Oldest
  <2>7. QED
    BY <1>1, <2>1, <2>2, <2>6, OwnStep DEF Over
<1>4. QED
  BY <1>2, <1>3

LEMMA FailInv == ASSUME Inv, NEW p \in Callers, Fail(p) PROVE Inv'
<1> DEFINE new == [stage |-> "failed", token |-> None, got |-> FALSE, tries |-> 0, age |-> 0]
<1>1. new \in Call /\ new.stage = "failed" /\ new.token = None
  BY Lengths DEF Call, Over, Waiting, Attempts
<1>2. call \in [Callers -> Call]
  BY DEF Inv, TypeOK
<1>3. call' = [call EXCEPT ![p] = new] /\ UNCHANGED <<clientOf, cached, header>>
  BY DEF Fail, Bare
<1> HIDE DEF new
<1>4. PerCall(p)'
  BY <1>1, <1>2, <1>3 DEF PerCall, GivenYoung, SentYoung, OwnHeader, RefusalExplained
<1>5. QED
  BY <1>1, <1>3, <1>4, OwnStep

-----------------------------------------------------------------------------
(* Steps of keystone and of time change every token.                       *)

LEMMA RevokeInv == ASSUME Inv, Revoke PROVE Inv'
<1>1. /\ TypeOK /\ CachedWithinLife /\ UNCHANGED clientOf
      /\ call \in [Callers -> Call] /\ header \in [Clients -> Token \cup {None}]
  BY DEF Inv, TypeOK, Revoke
<1>2. cached' \in Entry \cup {None} /\ CachedWithinLife'
  <2>1. CASE cached = None
    BY <2>1 DEF Revoke, CachedWithinLife, Fresh
  <2>2. CASE cached # None
    <3>1. cached \in Entry /\ cached.token \in Token /\ cached.token # None
      BY <1>1, <2>2, NoneAssumption DEF TypeOK, Entry
    <3>2. Revoked(cached.token) \in Token /\ Revoked(cached.token).age = cached.token.age
      BY <3>1, RevokedStays
    <3>3. cached' = [cached EXCEPT !.token = Revoked(cached.token)]
      BY <2>2 DEF Revoke
    <3>4. cached' \in Entry /\ cached'.token = Revoked(cached.token) /\ cached'.left = cached.left
      BY <3>1, <3>2, <3>3 DEF Entry
    <3>5. QED
      BY <1>1, <2>2, <3>2, <3>4 DEF CachedWithinLife, Fresh
  <2>3. QED
    BY <2>1, <2>2
<1>3. header' \in [Clients -> Token \cup {None}]
  BY <1>1, RevokedStays DEF Revoke
<1>4. ASSUME NEW p \in Callers
      PROVE  /\ call'[p] \in Call /\ PerCall(p)'
             /\ call'[p].stage \in Over \ {"refused"} => call'[p].token = None
  <2>1. /\ call[p] \in Call /\ clientOf[p] \in Clients /\ PerCall(p)
        /\ call[p].stage \in Over \ {"refused"} => call[p].token = None
    BY <1>1 DEF Inv, TypeOK, Is
  <2>2. CASE ~Is(p, Waiting)
    <3>1. call'[p] = call[p]
      BY <2>2 DEF Revoke
    <3>2. QED
      BY <1>1, <2>1, <2>2, <3>1
         DEF PerCall, GivenYoung, SentYoung, OwnHeader, RefusalExplained, Shared, Is, Waiting
  <2>3. CASE Is(p, Waiting)
    <3> DEFINE t == call[p].token
    <3> DEFINE h == header[clientOf[p]]
    <3> DEFINE new == [call[p] EXCEPT !.token = Revoked(t)]
    <3>1. t \in Token \cup {None} /\ h \in Token \cup {None}
      BY <1>1, <2>1 DEF Call
    <3>2. /\ Revoked(t) \in Token \cup {None} /\ (Revoked(t) = None <=> t = None)
          /\ t # None => Revoked(t).age = t.age
          /\ (Revoked(h) = None <=> h = None)
          /\ h # None => Revoked(h).age = h.age
      BY <3>1, RevokedStays
    <3>3. /\ new \in Call /\ new.stage = call[p].stage /\ new.token = Revoked(t)
          /\ new.got = call[p].got /\ new.tries = call[p].tries /\ new.age = call[p].age
      BY <2>1, <3>2 DEF Call
    <3>4. call'[p] = new /\ header'[clientOf[p]] = Revoked(h)
      BY <2>1, <2>3 DEF Revoke
    <3> HIDE DEF new
    <3>5. GivenYoung(p)' /\ SentYoung(p)' /\ OwnHeader(p)'
      BY <1>1, <2>1, <3>2, <3>3, <3>4 DEF PerCall, GivenYoung, SentYoung, OwnHeader, Young, Shared
    <3>6. RefusalExplained(p)' /\ call'[p].stage \notin Over
      BY <2>3, <3>3, <3>4 DEF RefusalExplained, Is, Waiting, Over
    <3>7. QED
      BY <3>3, <3>4, <3>5, <3>6 DEF PerCall
  <2>4. QED
    BY <2>2, <2>3
<1>5. call' \in [Callers -> Call]
  <2>1. call' = [p \in Callers |-> call'[p]]
    BY DEF Revoke
  <2>2. QED
    BY <1>4, <2>1
<1>6. QED
  BY <1>1, <1>2, <1>3, <1>4, <1>5 DEF Inv, TypeOK, Is

LEMMA TickInv == ASSUME Inv, Tick PROVE Inv'
<1>1. /\ TypeOK /\ CachedWithinLife /\ UNCHANGED clientOf
      /\ call \in [Callers -> Call] /\ header \in [Clients -> Token \cup {None}]
  BY DEF Inv, TypeOK, Tick
<1>2. cached' \in Entry \cup {None} /\ CachedWithinLife'
  <2>1. CASE cached = None
    BY <2>1 DEF Tick, CachedWithinLife, Fresh
  <2>2. CASE cached # None
    <3>1. cached \in Entry /\ cached.token \in Token /\ cached.token # None
          /\ cached.left \in 0 .. CacheSeconds
      BY <1>1, <2>2, NoneAssumption DEF TypeOK, Entry
    <3>2. Older(cached.token) \in Token /\ Older(cached.token).age <= cached.token.age + 1
      BY <3>1, OlderAges
    <3>3. cached' = [token |-> Older(cached.token), left |-> IF Fresh THEN cached.left - 1 ELSE 0]
      BY <2>2 DEF Tick
    <3>4. CASE Fresh
      <4>1. cached'.token = Older(cached.token) /\ cached'.left = cached.left - 1
            /\ cached.left - 1 \in 0 .. CacheSeconds
        BY <3>1, <3>3, <3>4, Lengths DEF Fresh
      <4>2. cached' \in Entry
        BY <3>2, <3>3, <3>4, <4>1 DEF Entry
      <4>3. CachedWithinLife'
        BY <1>1, <3>1, <3>2, <3>4, <4>1, Lengths DEF CachedWithinLife, Token
      <4>4. QED
        BY <4>2, <4>3
    <3>5. CASE ~Fresh
      BY <3>2, <3>3, <3>5, Lengths DEF Entry, CachedWithinLife, Fresh
    <3>6. QED
      BY <3>4, <3>5
  <2>3. QED
    BY <2>1, <2>2
<1>3. header' \in [Clients -> Token \cup {None}]
  BY <1>1, OlderAges DEF Tick
<1>4. ASSUME NEW p \in Callers
      PROVE  /\ call'[p] \in Call /\ PerCall(p)'
             /\ call'[p].stage \in Over \ {"refused"} => call'[p].token = None
  <2>1. /\ call[p] \in Call /\ clientOf[p] \in Clients /\ PerCall(p)
        /\ call[p].stage \in Over \ {"refused"} => call[p].token = None
    BY <1>1 DEF Inv, TypeOK, Is
  <2>2. CASE ~Is(p, Waiting)
    <3>1. call'[p] = call[p]
      BY <2>2 DEF Tick
    <3>2. QED
      BY <1>1, <2>1, <2>2, <3>1
         DEF PerCall, GivenYoung, SentYoung, OwnHeader, RefusalExplained, Shared, Is, Waiting
  <2>3. CASE Is(p, Waiting)
    <3> DEFINE t == call[p].token
    <3> DEFINE h == header[clientOf[p]]
    <3> DEFINE waited == [call[p] EXCEPT !.age = @ + 1]
    <3> DEFINE new == [waited EXCEPT !.token = Older(t)]
    <3>1. t \in Token \cup {None} /\ h \in Token \cup {None}
      BY <1>1, <2>1 DEF Call
    <3>2. call[p].age \in Nat /\ call[p].age < Timeout
          /\ call[p].tries \in 0 .. Attempts - 1
      <4>1. call[p].age \in 0 .. Timeout /\ call[p].tries \in 0 .. Attempts - 1
        BY <2>1 DEF Call
      <4>2. \A q \in Callers : Is(q, Waiting) => call[q].age < Timeout
        BY DEF Tick
      <4>3. call[p].age < Timeout
        BY <2>3, <4>2
      <4>4. QED
        BY <4>1, <4>3, Lengths
    <3>3. /\ Older(t) \in Token \cup {None} /\ (Older(t) = None <=> t = None)
          /\ t # None => Older(t).age <= t.age + 1
          /\ Older(h) \in Token \cup {None} /\ (Older(h) = None <=> h = None)
          /\ h # None => Older(h).age <= h.age + 1
      BY <3>1, OlderAges
    <3>4. /\ waited \in Call /\ waited.stage = call[p].stage /\ waited.token = t
          /\ waited.got = call[p].got /\ waited.tries = call[p].tries
          /\ waited.age = call[p].age + 1
      BY <2>1, <3>2, Lengths DEF Call
    <3>5. call'[p] = new /\ header'[clientOf[p]] = Older(h)
      BY <2>1, <2>3 DEF Tick
    <3> HIDE DEF waited
    <3>6. /\ new \in Call /\ new.stage = call[p].stage /\ new.token = Older(t)
          /\ new.got = call[p].got /\ new.tries = call[p].tries
          /\ new.age = call[p].age + 1
      BY <3>3, <3>4 DEF Call
    <3> HIDE DEF new
    <3>7. AgeAt(call[p].tries) \in Nat
      BY <3>2, Ages
    <3>8. GivenYoung(p)'
      BY <2>1, <3>1, <3>2, <3>3, <3>5, <3>6, Lengths DEF PerCall, GivenYoung, Token
    <3>9. SentYoung(p)'
      <4> SUFFICES ASSUME call[p].stage = "sent"
                   PROVE  /\ Young(Older(t), AgeAt(call[p].tries) + (call[p].age + 1))
                          /\ Young(Older(h), AgeAt(call[p].tries) + (call[p].age + 1))
        BY <1>1, <3>5, <3>6 DEF SentYoung
      <4>1. Young(t, AgeAt(call[p].tries) + call[p].age)
            /\ Young(h, AgeAt(call[p].tries) + call[p].age)
        BY <2>1 DEF PerCall, SentYoung
      <4>2. QED
        BY <3>1, <3>2, <3>3, <3>7, <4>1, Lengths DEF Young, Token
    <3>10. OwnHeader(p)'
      BY <1>1, <2>1, <3>3, <3>5, <3>6 DEF PerCall, OwnHeader, Shared
    <3>11. RefusalExplained(p)' /\ call'[p].stage \notin Over
      BY <2>3, <3>5, <3>6 DEF RefusalExplained, Is, Waiting, Over
    <3>12. QED
      BY <3>5, <3>6, <3>8, <3>9, <3>10, <3>11 DEF PerCall
  <2>4. QED
    BY <2>2, <2>3
<1>5. call' \in [Callers -> Call]
  <2>1. call' = [p \in Callers |-> call'[p]]
    BY DEF Tick
  <2>2. QED
    BY <1>4, <2>1
<1>6. QED
  BY <1>1, <1>2, <1>3, <1>4, <1>5 DEF Inv, TypeOK, Is

-----------------------------------------------------------------------------

LEMMA NextInv == Inv /\ [Next]_vars => Inv'
<1> SUFFICES ASSUME Inv, [Next]_vars PROVE Inv'
  OBVIOUS
<1>1. ASSUME NEW p \in Callers, Begin(p) PROVE Inv'
  BY <1>1, BeginInv
<1>2. ASSUME NEW p \in Callers, Goes(p) PROVE Inv'
  BY <1>2, IssueInv, ReceiveInv, NoTokenInv, RetryInv, AnswerInv, FailInv DEF Goes
<1>3. CASE Revoke
  BY <1>3, RevokeInv
<1>4. CASE Tick
  BY <1>4, TickInv
<1>5. CASE UNCHANGED vars
  BY <1>5 DEF vars, Inv, TypeOK, CachedWithinLife, Fresh, PerCall, GivenYoung, SentYoung,
     OwnHeader, RefusalExplained, Shared, Is
<1>6. QED
  BY <1>1, <1>2, <1>3, <1>4, <1>5 DEF Next

LEMMA Invariance == Spec => []Inv
  BY InitInv, NextInv, PTL DEF Spec

\* The variables keep their types and no attempt outlasts its timeout.
THEOREM TypeCorrect == Spec => []TypeOK
<1>1. Inv => TypeOK
  BY DEF Inv
<1>2. QED
  BY <1>1, Invariance, PTL

\* utils.token caches no token for longer than the caching time and an attempt.
THEOREM CacheBounded == Spec => []CachedWithinLife
<1>1. Inv => CachedWithinLife
  BY DEF Inv
<1>2. QED
  BY <1>1, Invariance, PTL

\* A service refuses a request only with a revoked token, or with none for one
\* of two reasons: the cache and the retries of request hand out no old one.
THEOREM RefusalsHaveReasons == Spec => []RefusalsExplained
<1>1. Inv => RefusalsExplained
  BY DEF Inv, PerCall, RefusalExplained, RefusalsExplained, Is
<1>2. QED
  BY <1>1, Invariance, PTL

=============================================================================
