------------------------------- MODULE MCPolicy -------------------------------
(* The policy language, the enforcer and the contexts on a small instance.  A *)
(* behaviour parses one text, runs the enforcer or makes contexts.            *)
EXTENDS PolicyLanguage, PolicyEnforcer, Contexts

CONSTANTS D1, D2
Sorted == [f \in {D1, D2} |-> IF f = D1 THEN 1 ELSE 2]

Text(toks) == [list |-> FALSE, raw |-> toks]
List(rows) == [list |-> TRUE, raw |-> rows]
MCTexts == { [a |-> Text(<<CheckTok(Leaf("role", "x"))>>)],
             [a |-> List(<< >>), b |-> Text(<<Keyword("not"), CheckTok(Leaf("rule", "a"))>>)],
             Malformed }

MCRoleLists == { << >>, <<"x">>, <<"admin", "x">> }
MCCatalogs == { {}, {"volume", "compute"} }
MCTargets == [user_id : {"u1", NoOne}, project_id : {"p1", NoOne}]

MCTable ==
  [ admin_or_owner   |-> Node("or", <<Leaf("is_admin", "true"), Leaf("project_id", "project_id")>>),
    context_is_admin |-> Node("or", <<Leaf("role", "admin"), Leaf("rule", "no_such_rule")>>),
    own_and_x        |-> Node("and", <<Leaf("user_id", "user_id"), Leaf("role", "x")>>),
    default          |-> Node("and", <<Leaf("is_admin", "false"), Leaf("role", "x")>>),
    not_admin        |-> Node("not", <<Leaf("rule", "context_is_admin")>>) ]
MCGrants(action, target, creds) == Enforce(MCTable, action, target, creds)
MCPlainRules == DOMAIN MCTable \ {"not_admin"}

Unparsed == text = <<>>
EnforcerIdle == enforcer = NoEnforcer /\ disk = [f \in Files |-> Absent] /\ edits = 0 /\ now = 0
NoContexts == contexts = <<>>

Init == LangInit /\ EnforcerInit /\ CtxInit
Next == \/ ShiftToken /\ EnforcerIdle /\ NoContexts /\ UNCHANGED <<enforcerVars, ctxVars>>
        \/ Unparsed /\ NoContexts /\ EnforcerNext /\ UNCHANGED <<langVars, ctxVars>>
        \/ CtxNext /\ Unparsed /\ EnforcerIdle /\ UNCHANGED <<langVars, enforcerVars>>
Spec == Init /\ [][Next]_<<langVars, enforcerVars, ctxVars>>
=============================================================================
