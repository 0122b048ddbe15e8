------------------------------ MODULE TaskStore ------------------------------
(***************************************************************************)
(* The report_tasks table: task_id is the primary key, task_name has no    *)
(* constraint.  Every operation is one transaction and is one step here.   *)
(* The table has no column for task_next_rtime, which the agent sets in    *)
(* the dictionaries it passes to update_rpttask: it is never stored.       *)
(***************************************************************************)
EXTENDS TaskTypes

VARIABLE rows    \* the row with that task_id, or Null

StoreTypeOK == rows \in [Ids -> Task \cup {Null}]

StoreInit == rows = [t \in Ids |-> Null]

Stored == {t \in Ids : rows[t] # Null}

\* get_rpttasks(task_name = n) returns something.
NameTaken(n) == \E t \in Stored : rows[t].name = n

\* INSERT: a second row with the same id would be refused.
AddRpttask(t, task) ==
  /\ rows[t] = Null
  /\ rows' = [rows EXCEPT ![t] = task]

\* Faulty: a plain UPDATE, which a missing row turns into nothing.
UpdateIfPresent(t, task) ==
  rows' = IF rows[t] = Null THEN rows ELSE [rows EXCEPT ![t] = task]

\* session.merge: updates the row, or inserts it if there is none.
UpdateRpttask(t, task) == rows' = [rows EXCEPT ![t] = task]

DelRpttask(t) == rows' = [rows EXCEPT ![t] = Null]

=============================================================================
