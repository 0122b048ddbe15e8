--------------------------- MODULE MCAgentProcess ---------------------------
(* Values of the constants of AgentProcess for TLC. *)
EXTENDS AgentProcess, TLC

CONSTANTS t1, t2, n1, n2

OneDefault == t1 :> [name |-> n1, status |-> "Active", kind |-> "cron"]

Row(n, k) == [name |-> n, status |-> "Active", kind |-> k]

Posts == {Row(n2, "cron"), Row(n2, "spent")}

Renames == {[id |-> Unset, name |-> n1, status |-> Unset, kind |-> Unset]}

Singles == {<<t>> : t \in Ids}

=============================================================================
