------------------------- MODULE RptTasksController -------------------------
(***************************************************************************)
(* The API processes: the report task endpoints that change something.     *)
(* Each process serves one request at a time (a wsgiref simple_server); a  *)
(* deployment may run several.  A request is                               *)
(*   "insert"  POST found the name free and drew an id                     *)
(*   "cast"    the row is inserted (POST) or was read (all others), and    *)
(*             the cast is next                                            *)
(*   "sleep"   the cast is sent; the handler sleeps one second "and wait   *)
(*             for agent update db", then reads the row again              *)
(* Only POST writes the table itself; every other change is the agent's.   *)
(* enable, disable and dels take a list of ids and stop with an error at   *)
(* the first one they refuse, with the casts before it already sent.       *)
(***************************************************************************)
EXTENDS TaskStore, AgentRpc

CONSTANTS
  Api,          \* API processes
  PostTasks,    \* tasks a POST may carry
  Patches,      \* bodies of a PUT: the keys it has, Unset for the others
  IdLists,      \* lists of ids given to enable, disable and dels
  MaxRequests,  \* bound: requests
  MaxDeaths     \* bound: API processes killed between two steps

Patch == [id : Ids \cup {Unset}, name : Names \cup {Unset},
          status : Statuses \cup {Unset}, kind : Kinds \cup {Unset}]

ASSUME ApiAssumption ==
  /\ PostTasks \subseteq Task
  /\ Patches \subseteq Patch
  /\ IdLists \subseteq Seq(Ids)
  /\ MaxRequests \in Nat /\ MaxDeaths \in Nat

VARIABLES
  api,       \* the request a process serves, or Null
  drawn,     \* ids that exist or ever existed: uuid4 draws none of them
  requests,  \* requests so far
  deaths     \* API processes killed so far

apiVars == <<api, drawn, requests, deaths>>

Request == [pc : {"insert", "cast", "sleep"}, op : Ops, id : Ids,
            task : Task, rest : Seq(Ids)]

ASSUME NullIsNoRequest == Null \notin Request

ApiTypeOK ==
  /\ api \in [Api -> Request \cup {Null}]
  /\ drawn \subseteq Ids
  /\ requests \in Nat /\ deaths \in Nat

ApiInit(known) ==
  /\ api = [p \in Api |-> Null]
  /\ drawn = known
  /\ requests = 0 /\ deaths = 0

-----------------------------------------------------------------------------

\* A process that is free accepts a request.
Accepts(p) ==
  /\ api[p] = Null
  /\ requests < MaxRequests
  /\ requests' = requests + 1
  /\ UNCHANGED <<deaths, rows, queue>>

Serves(p, pc, op, t, task, rest) ==
  api' = [api EXCEPT ![p] = [pc |-> pc, op |-> op, id |-> t,
                             task |-> task, rest |-> rest]]

Answers(p) == api' = [api EXCEPT ![p] = Null]

\* Faulty: ids are free again once their row is gone.
PostReusingIds(p) ==
  /\ Accepts(p)
  /\ \E task \in PostTasks, t \in Ids \ Stored :
       /\ ~NameTaken(task.name)
       /\ Serves(p, "insert", "add", t, task, <<>>)
       /\ drawn' = drawn \cup {t}

\* post, up to the insert: 409 if a task has that name now.
Post(p) ==
  /\ Accepts(p)
  /\ \E task \in PostTasks, t \in Ids \ drawn :
       /\ ~NameTaken(task.name)
       /\ Serves(p, "insert", "add", t, task, <<>>)
       /\ drawn' = drawn \cup {t}

Insert(p) ==
  /\ api[p] # Null /\ api[p].pc = "insert"
  /\ AddRpttask(api[p].id, api[p].task)
  /\ api' = [api EXCEPT ![p].pc = "cast"]
  /\ UNCHANGED <<drawn, requests, deaths, queue>>

Pick(new, old) == IF new = Unset THEN old ELSE new

\* Faulty: a key the body lacks overwrites the row's.
PatchedBlindly(task, patch) ==
  [name |-> patch.name, status |-> patch.status, kind |-> patch.kind]

\* _update: the keys of the body replace those of the row that was read,
\* task_id included, and nothing validates the result.
Patched(task, patch) ==
  [name |-> Pick(patch.name, task.name),
   status |-> Pick(patch.status, task.status),
   kind |-> Pick(patch.kind, task.kind)]

Put(p) ==
  /\ Accepts(p)
  /\ \E t \in Stored, patch \in Patches :
       /\ Serves(p, "cast", "update", Pick(patch.id, t),
                 Patched(rows[t], patch), <<>>)
       /\ drawn' = drawn \cup {Pick(patch.id, t)}

\* The 404 of a list operation: no such task, or nothing to do.
Refused(op, t) ==
  \/ rows[t] = Null
  \/ op = "enable" /\ rows[t].status = "Active"
  \/ op = "disable" /\ rows[t].status = "Inactive"

\* A list operation turns to the next id of its list: it reads the row, or
\* answers, at the end of the list or at an id it refuses.
NextOfList(p, op, ids) ==
  IF ids = <<>> \/ Refused(op, Head(ids))
  THEN Answers(p)
  ELSE Serves(p, "cast", op, Head(ids), rows[Head(ids)], Tail(ids))

ListRequest(p) ==
  /\ Accepts(p)
  /\ \E op \in {"enable", "disable", "del"}, ids \in IdLists :
       NextOfList(p, op, ids)
  /\ UNCHANGED drawn

\* The cast; dels does not sleep after it.
SendCast(p) ==
  LET r == api[p] IN
  /\ r # Null /\ r.pc = "cast"
  /\ Cast(r.op, r.id, r.task)
  /\ IF r.op = "del"
     THEN NextOfList(p, "del", r.rest)
     ELSE Serves(p, "sleep", r.op, r.id, r.task, r.rest)
  /\ UNCHANGED <<drawn, requests, deaths, rows>>

\* The second is over: post and put answer with the row as it is now, enable
\* and disable turn to their next id.
Wake(p) ==
  LET r == api[p] IN
  /\ r # Null /\ r.pc = "sleep"
  /\ NextOfList(p, r.op, r.rest)
  /\ UNCHANGED <<drawn, requests, deaths, rows, queue>>

\* The process is killed, or its insert or cast fails, in the middle of a
\* request. An insert fails when a PUT gave another row the id meanwhile.
Die(p) ==
  /\ api[p] # Null
  /\ deaths < MaxDeaths
  /\ deaths' = deaths + 1
  /\ Answers(p)
  /\ UNCHANGED <<drawn, requests, rows, queue>>

ApiStep(p) == Insert(p) \/ SendCast(p) \/ Wake(p)

ApiNext ==
  \E p \in Api : Post(p) \/ Put(p) \/ ListRequest(p) \/ ApiStep(p) \/ Die(p)

=============================================================================
