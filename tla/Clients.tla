------------------------------- MODULE Clients -------------------------------
(***************************************************************************)
(* The HTTP clients of the tasks and the token they send.  utils.token     *)
(* keeps the token for half an hour in a cache all clients share; a client *)
(* keeps the headers of its last request and changes them for the next,    *)
(* and runs of one task use one client at once.  Nobody drops a token that *)
(* is refused.  A step lasts no time; an attempt lasts at most the timeout *)
(* of the session.  Times are kept as the ages of what they belong to.     *)
(***************************************************************************)
EXTENDS Integers

CONSTANTS
  Callers,       \* greenthreads that call a service
  Clients,       \* HttpClient objects
  Uncached,      \* the clients that ask for a token of their own each time
  CacheSeconds,  \* TOKEN_CACHE_SECONDS
  Timeout,       \* how long an attempt lasts at most
  Life,          \* how long keystone honours a token
  None

ASSUME ClientsAssumption ==
  /\ Uncached \subseteq Clients
  /\ CacheSeconds \in Nat \ {0} /\ Timeout \in Nat \ {0}
  /\ Life \in Nat \ {0}

\* How long ago keystone issued it (after its life it only stays old), and
\* whether keystone has revoked it.
Token == [age : 0 .. Life, revoked : BOOLEAN]

Entry == [token : Token, left : 0 .. CacheSeconds]

ASSUME NoneAssumption == None \notin Token \cup Entry

VARIABLES
  clientOf, \* the client a caller uses
  cached,   \* the token in the cache and how long it stays there
  header,   \* the X-Auth-Token among the headers of each client
  call      \* what each caller does or did last

vars == <<clientOf, cached, header, call>>

Attempts == 3

Waiting == {"keystone", "given", "sent"}
Over == {"idle", "ok", "refused", "failed"}

Call ==
  [stage : Waiting \cup Over,
   token : Token \cup {None},  \* what is on its way
   got : BOOLEAN,              \* whether utils.token gave one
   tries : 0 .. Attempts - 1, age : 0 .. Timeout]

\* A call with nothing on its way.
Bare(stage) == [stage |-> stage, token |-> None, got |-> FALSE, tries |-> 0, age |-> 0]

Init ==
  /\ clientOf \in [Callers -> Clients]
  /\ cached = None
  /\ header = [c \in Clients |-> None]
  /\ call = [p \in Callers |-> Bare("idle")]

Is(p, stages) == call[p].stage \in stages

-----------------------------------------------------------------------------
(* The cache.                                                              *)

Fresh == cached # None /\ cached.left > 0

\* Faulty: a token that is read stays another half hour.
KeptSliding(read) == IF read THEN [cached EXCEPT !.left = CacheSeconds] ELSE None

\* What get leaves in the cache; read says whether it found the token.
Kept(read) == IF read THEN cached ELSE None

Set(t) == [token |-> t, left |-> CacheSeconds]

-----------------------------------------------------------------------------
(* A request.                                                              *)

\* Faulty: the headers belong to the class.
HeadersOfAll(c, t) == [d \in Clients |-> t]

Headers(c, t) == [header EXCEPT ![c] = t]

\* request: put the token among the headers and send them.  None takes the
\* header away.
Sends(p, t) ==
  /\ header' = Headers(clientOf[p], t)
  /\ call' = [call EXCEPT ![p] =
       [stage |-> "sent", token |-> t, got |-> t # None, tries |-> 0, age |-> 0]]

\* Faulty: the loop starts over.
NextTryLoops(k) == {(k + 1) % Attempts}

\* The attempt after one that could not connect, if there is one.
NextTry(k) == {i \in {k + 1} : i < Attempts}

\* get_data and the like up to the first request: utils.token finds the token
\* in the cache or turns to keystone.
Begin(p) ==
  /\ Is(p, Over)
  /\ IF clientOf[p] \in Uncached
     THEN UNCHANGED cached
     ELSE cached' = Kept(Fresh)
  /\ IF clientOf[p] \notin Uncached /\ Fresh
     THEN Sends(p, cached.token)
     ELSE /\ call' = [call EXCEPT ![p] = Bare("keystone")]
          /\ UNCHANGED header
  /\ UNCHANGED clientOf

\* Keystone answers with a token, which is on its way.
Issue(p) ==
  /\ Is(p, {"keystone"})
  /\ call' = [call EXCEPT ![p].stage = "given", ![p].token = [age |-> 0, revoked |-> FALSE]]
  /\ UNCHANGED <<clientOf, cached, header>>

\* get_token returns it, and token caches it.
Receive(p) ==
  /\ Is(p, {"given"})
  /\ cached' = IF clientOf[p] \in Uncached THEN cached ELSE Set(call[p].token)
  /\ Sends(p, call[p].token)
  /\ UNCHANGED clientOf

\* get_token gives up: the last attempt could not connect, or one failed in
\* another way.  The request goes out without a token.
NoToken(p) ==
  /\ Is(p, {"keystone", "given"})
  /\ Sends(p, None)
  /\ UNCHANGED <<clientOf, cached>>

\* A ConnectionError: the next attempt, to keystone with the headers of a
\* client made for it, to a service with the headers as they are by now.
Retry(p) ==
  /\ Is(p, Waiting)
  /\ \E k \in NextTry(call[p].tries) :
       call' = [call EXCEPT ![p] =
         IF Is(p, {"sent"})
         THEN [@ EXCEPT !.tries = k, !.age = 0, !.token = header[clientOf[p]]]
         ELSE [@ EXCEPT !.tries = k, !.age = 0, !.stage = "keystone", !.token = None]]
  /\ UNCHANGED <<clientOf, cached, header>>

Honoured(t) == t # None /\ ~t.revoked /\ t.age < Life

\* The service answers.  A refusal leaves the cache as it is.
Answer(p) ==
  /\ Is(p, {"sent"})
  /\ call' = [call EXCEPT ![p] = IF Honoured(@.token) THEN Bare("ok")
                                 ELSE [@ EXCEPT !.stage = "refused"]]
  /\ UNCHANGED <<clientOf, cached, header>>

\* The last ConnectionError, any other error, an answer other than 200.
Fail(p) ==
  /\ Is(p, {"sent"})
  /\ call' = [call EXCEPT ![p] = Bare("failed")]
  /\ UNCHANGED <<clientOf, cached, header>>

Goes(p) == Issue(p) \/ Receive(p) \/ NoToken(p) \/ Retry(p) \/ Answer(p) \/ Fail(p)

-----------------------------------------------------------------------------

Revoked(t) == IF t = None THEN None ELSE [t EXCEPT !.revoked = TRUE]

\* Keystone revokes what it has issued so far.
Revoke ==
  /\ cached' = IF cached = None THEN None ELSE [cached EXCEPT !.token = Revoked(@)]
  /\ header' = [c \in Clients |-> Revoked(header[c])]
  /\ call' = [p \in Callers |->
       IF Is(p, Waiting) THEN [call[p] EXCEPT !.token = Revoked(@)] ELSE call[p]]
  /\ UNCHANGED clientOf

Older(t) == IF t = None \/ t.age = Life THEN t ELSE [t EXCEPT !.age = @ + 1]

Tick ==
  /\ \A p \in Callers : Is(p, Waiting) => call[p].age < Timeout
  /\ cached' = IF cached = None THEN None
               ELSE [token |-> Older(cached.token),
                     left |-> IF Fresh THEN cached.left - 1 ELSE 0]
  /\ header' = [c \in Clients |-> Older(header[c])]
  /\ call' = [p \in Callers |->
       IF Is(p, Waiting) THEN [call[p] EXCEPT !.age = @ + 1, !.token = Older(@)] ELSE call[p]]
  /\ UNCHANGED clientOf

Next == (\E p \in Callers : Begin(p) \/ Goes(p)) \/ Revoke \/ Tick

Spec == Init /\ [][Next]_vars

Fairness == \A p \in Callers : WF_vars(Goes(p))
FairSpec == Spec /\ Fairness

-----------------------------------------------------------------------------

(***************************************************************************)
(* Tokens, headers and calls are what they should be; a call that is over  *)
(* without a refusal has left nothing behind.                              *)
(***************************************************************************)
TypeOK ==
  /\ clientOf \in [Callers -> Clients]
  /\ cached \in Entry \cup {None}
  /\ header \in [Clients -> Token \cup {None}]
  /\ call \in [Callers -> Call]
  /\ \A p \in Callers : Is(p, Over \ {"refused"}) => call[p].token = None

(***************************************************************************)
(* A token leaves the cache at the latest the caching time and one attempt *)
(* after keystone issued it, however often it is read and whoever puts     *)
(* another one in its place meanwhile.                                     *)
(***************************************************************************)
CachedWithinLife ==
  Fresh => cached.token.age + cached.left <= CacheSeconds + Timeout

\* The oldest a token can be when a service sees it: cached after an attempt,
\* read at the last moment, and sent in the last of three attempts.
Oldest == CacheSeconds + (Attempts + 1) * Timeout

Shared(p) == \E q \in Callers \ {p} : clientOf[q] = clientOf[p]

(***************************************************************************)
(* If keystone honours a token as long as it can be in use, a request is   *)
(* refused only with a token that was revoked, or when it carried none:    *)
(* since keystone gave the caller none, or since another caller that       *)
(* shares the client and got none changed the headers between two          *)
(* attempts.                                                               *)
(***************************************************************************)
RefusalsExplained ==
  Life >= Oldest =>
    \A p \in Callers : Is(p, {"refused"}) =>
      IF call[p].token = None
      THEN ~call[p].got \/ Shared(p)
      ELSE call[p].token.revoked

(***************************************************************************)
(* Every call comes to an end, whatever fails.                             *)
(***************************************************************************)
CallsEnd == \A p \in Callers : Is(p, Waiting) ~> Is(p, Over)

=============================================================================
