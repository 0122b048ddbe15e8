----------------------------- MODULE PolicyChecks -----------------------------
(* From a tree of Checks, the rules in force, the object of the action and    *)
(* the caller to an answer.  A call of a check ends in "grant", "deny" or an  *)
(* exception: "type" (the rule is no Check and cannot be called) or "depth"   *)
(* (rules that name each other).  "table" holds the rules, "dflt" is the      *)
(* default_rule of the Rules object, "on" the call's "target" and "creds".    *)
(* The checks that ask a server (http:) are left out.                         *)
EXTENDS PolicyRules, FiniteSets

Answers == {"grant", "deny", "type", "depth"}

(* self.rules[name] with __missing__; {} stands for the KeyError              *)
Lookup(table, dflt, name) ==
    IF name \in DOMAIN table THEN {table[name]}
    ELSE IF dflt \in DOMAIN table THEN {table[dflt]} ELSE {}

Granted(b) == IF b THEN "grant" ELSE "deny"

RoleCheck(match, on) == match \in on.creds.roles

(* is_admin:True and is_admin:False; the "none" of a request is neither       *)
IsAdminCheck(match, on) == on.creds.is_admin = match

(* <kind>:%(<match>)s, which compares what the two values are printed as: no  *)
(* user is the same as no user                                                *)
GenericCheck(kind, match, on) ==
    /\ match \in DOMAIN on.target
    /\ on.creds[kind] = on.target[match]

RECURSIVE Call(_, _, _, _, _), InOrder(_, _, _, _, _, _)
Call(check, table, dflt, on, depth) ==
    IF check = NoText THEN "type"
    ELSE CASE check.op = "true"  -> "grant"
           [] check.op = "false" -> "deny"
           [] check.op = "role"  -> Granted(RoleCheck(check.match, on))
           [] check.op = "is_admin" -> Granted(IsAdminCheck(check.match, on))
           [] check.op \in {"user_id", "project_id"} ->
                 Granted(GenericCheck(check.op, check.match, on))
           [] check.op = "not"   -> LET a == Call(check.args[1], table, dflt, on, depth)
                                    IN  CASE a = "grant" -> "deny"
                                          [] a = "deny"  -> "grant"
                                          [] OTHER       -> a
           [] check.op = "and"   -> InOrder("grant", check.args, table, dflt, on, depth)
           [] check.op = "or"    -> InOrder("deny", check.args, table, dflt, on, depth)
           [] check.op = "rule"  ->
                 LET found == Lookup(table, dflt, check.match)
                 IN  CASE found = {} -> "deny"
                       [] depth = 0  -> "depth"
                       [] OTHER      -> Call(CHOOSE c \in found : TRUE,
                                             table, dflt, on, depth - 1)

(* the loops of AndCheck and OrCheck: on while the answer is "stay"           *)
InOrder(stay, args, table, dflt, on, depth) ==
    IF args = <<>> THEN stay
    ELSE LET a == Call(Head(args), table, dflt, on, depth)
         IN  IF a = stay THEN InOrder(stay, Tail(args), table, dflt, on, depth) ELSE a

(* the answer of Enforcer.enforce once the rules are loaded.  A chain of      *)
(* "rule" checks longer than the rules are many goes round for ever.          *)
Answer(table, dflt, name, on) ==
    LET found == Lookup(table, dflt, name)
    IN  IF found = {} THEN "deny"
        ELSE Call(CHOOSE c \in found : TRUE, table, dflt, on,
                  Cardinality(DOMAIN table))

(* policy.enforce: whether table grants an action on a target to creds        *)
Enforce(table, action, target, creds) ==
    Answer(table, "default", action, [target |-> target, creds |-> creds]) = "grant"
=============================================================================
