------------------------------ MODULE AgentRpc ------------------------------
(***************************************************************************)
(* AgentAPI: the casts of the API processes to the report agent.  They go  *)
(* through one queue of the message broker, which outlives the agent.  A   *)
(* message is acknowledged when the agent takes it off the queue, before   *)
(* its handler has run: it is handled at most once.                        *)
(***************************************************************************)
EXTENDS TaskTypes, Sequences, Naturals

CONSTANT MaxQueue    \* bound: casts waiting in the queue

ASSUME MaxQueueAssumption == MaxQueue \in Nat

VARIABLE queue

Ops == {"add", "update", "del", "enable", "disable"}

\* The casts carry the whole row as the API process last saw it; del_task
\* carries the id only, and nothing reads the task of its message.
Message == [op : Ops, id : Ids, task : Task]

RpcTypeOK == queue \in Seq(Message)

RpcInit == queue = <<>>

Cast(op, t, task) ==
  /\ Len(queue) < MaxQueue
  /\ queue' = Append(queue, [op |-> op, id |-> t, task |-> task])

=============================================================================
