----------------------------- MODULE PolicyRules -----------------------------
(* The policy language of report.openstack.common.policy: from the tokens    *)
(* of a rule to the tree of Check objects.                                    *)
(* A text is the sequence of the tokens _parse_tokenize yields (splitting at  *)
(* blanks and peeling parentheses is wording); a token that is a check        *)
(* carries its Check.  A Check is a record: a leaf has an "op" and a "match", *)
(* a node has an "op" and the sequence of its "args".                         *)
EXTENDS Integers, Sequences

CONSTANT NoText         \* what a parse returns that is not a Check at all

Leaf(kind, match) == [op |-> kind, match |-> match]
Node(op, args)    == [op |-> op, args |-> args]
TrueCheck  == Leaf("true", "")
FalseCheck == Leaf("false", "")

Keyword(k)   == [tok |-> k, val |-> NoText]        \* ( ) and or not
CheckTok(c)  == [tok |-> "check", val |-> c]
Quoted       == [tok |-> "string", val |-> NoText]

-----------------------------------------------------------------------------
(* ParseState.  The stack pairs "tokens" and "values" of the code.            *)

Vals(st) == [i \in DOMAIN st |-> st[i].val]

(* the methods marked @reducer: the tokens each one matches and what it puts  *)
(* in their place                                                             *)
Joiners ==
    { [on |-> <<"check", "and", "check">>,    by |-> "make_and"],
      [on |-> <<"and_expr", "and", "check">>, by |-> "extend_and"],
      [on |-> <<"check", "or", "check">>,     by |-> "make_or"],
      [on |-> <<"or_expr", "or", "check">>,   by |-> "extend_or"],
      [on |-> <<"not", "check">>,             by |-> "negate"] }
Wrapper(e) == [on |-> <<"(", e, ")">>, by |-> "wrap"]

(* Faulty: an "or" in parentheses is not taken for a check                    *)
ReducersNoOrWrap == Joiners \cup {Wrapper("check"), Wrapper("and_expr")}
Reducers == Joiners \cup {Wrapper("check"), Wrapper("and_expr"), Wrapper("or_expr")}

Reduced(how, v) ==
    CASE how = "wrap"       -> CheckTok(v[2])
      [] how = "make_and"   -> [tok |-> "and_expr", val |-> Node("and", <<v[1], v[3]>>)]
      [] how = "extend_and" -> [tok |-> "and_expr", val |-> Node("and", Append(v[1].args, v[3]))]
      [] how = "make_or"    -> [tok |-> "or_expr", val |-> Node("or", <<v[1], v[3]>>)]
      [] how = "extend_or"  -> [tok |-> "or_expr", val |-> Node("or", Append(v[1].args, v[3]))]
      [] how = "negate"     -> CheckTok(Node("not", <<v[2]>>))

Top(st, n)  == SubSeq(st, Len(st) - n + 1, Len(st))
Below(st, n) == SubSeq(st, 1, Len(st) - n)

Applicable(st) ==
    { r \in Reducers : /\ Len(st) >= Len(r.on)
                       /\ [i \in DOMAIN r.on |-> Top(st, Len(r.on))[i].tok] = r.on }

Contracted(st) ==
    LET r == CHOOSE r \in Applicable(st) : TRUE
        n == Len(r.on)
    IN  Append(Below(st, n), Reduced(r.by, Vals(Top(st, n))))

(* reduce, until nothing applies: every reduction shortens the stack          *)
Reduce(st) ==
    LET after[n \in 0 .. Len(st)] ==
          IF n = 0 THEN st
          ELSE LET before == after[n - 1]
               IN  IF Applicable(before) = {} THEN before ELSE Contracted(before)
    IN  after[Len(st)]

Shift(st, t) == Reduce(Append(st, t))

(* the end of _parse_text_rule on a stack: one value is the result, whatever  *)
(* it is, anything else fails closed                                          *)
Result(st) == IF Len(st) = 1 THEN st[1].val ELSE FalseCheck

ShiftAll(text) ==
    LET stack[n \in 0 .. Len(text)] ==
          IF n = 0 THEN <<>> ELSE Shift(stack[n - 1], text[n])
    IN  stack[Len(text)]

ParseText(text) == IF text = <<>> THEN TrueCheck ELSE Result(ShiftAll(text))

(* the old syntax: the outer list is joined by "or", the inner ones by "and"  *)
ParseList(rule) ==
    LET kept    == SelectSeq(rule, LAMBDA inner : inner # <<>>)
        or_list == [i \in DOMAIN kept |->
                      IF Len(kept[i]) = 1 THEN kept[i][1] ELSE Node("and", kept[i])]
    IN  CASE rule = <<>>       -> TrueCheck
          [] or_list = <<>>    -> FalseCheck
          [] Len(or_list) = 1  -> or_list[1]
          [] OTHER             -> Node("or", or_list)

=============================================================================
