---------------------------- MODULE PolicyLanguage ----------------------------
(* _parse_text_rule at work: the tokens of one rule are shifted one by one    *)
(* onto the stack of a ParseState.  Beside it, the grammar the language is    *)
(* meant to have, which knows nothing of stacks and reductions.               *)
EXTENDS PolicyChecks

CONSTANT MaxTokens      \* bound: the length of a text

VARIABLES text,         \* the tokens shifted so far
          stack         \* ParseState.tokens and ParseState.values

langVars == <<text, stack>>

(* the i-th token of a text, if it is a check, asks for role i: no two checks *)
(* of a text can be mistaken for one another                                  *)
Tokens(i) == { Keyword(k) : k \in {"(", ")", "and", "or", "not"} }
             \cup {CheckTok(Leaf("role", i)), Quoted}

LangInit == text = <<>> /\ stack = <<>>

ShiftToken ==
    /\ Len(text) < MaxTokens
    /\ \E t \in Tokens(Len(text) + 1) :
          /\ text' = Append(text, t)
          /\ stack' = Shift(stack, t)

-----------------------------------------------------------------------------
(* The language: an item is a check, "not" and an item, or an expression in   *)
(* parentheses; an expression is an item, or items joined by "and" only, or   *)
(* by "or" only.  Meanings(i, j) are the answers the tokens i..j can stand    *)
(* for when the caller has the given roles: none if they are no expression.   *)

RECURSIVE Item(_, _, _, _), Joined(_, _, _, _, _)
Item(s, i, j, roles) ==
    CASE i > j -> {}
      [] s[i].tok = "check" -> IF i = j THEN {s[i].val.match \in roles} ELSE {}
      [] s[i].tok = "not"   -> { ~b : b \in Item(s, i + 1, j, roles) }
      [] s[i].tok = "("     -> IF s[j].tok # ")" THEN {}
                               ELSE UNION { Joined(s, i + 1, j - 1, op, roles) : op \in {"and", "or"} }
      [] OTHER -> {}

Joined(s, i, j, op, roles) ==
    Item(s, i, j, roles)
    \cup UNION { { IF op = "and" THEN l /\ r ELSE l \/ r :
                     l \in Joined(s, i, k - 1, op, roles), r \in Item(s, k + 1, j, roles) } :
                 k \in { n \in i .. j : s[n].tok = op } }

Meanings(s, roles) == UNION { Joined(s, 1, Len(s), op, roles) : op \in {"and", "or"} }

Caller(roles) == [target |-> << >>, creds |-> [roles |-> roles]]

(* What the parser makes of a text answers every caller as the text reads     *)
(* when the text is in the language, and denies everyone when it is not; the  *)
(* only other outcome is a single keyword or quoted string, whose "parse" is  *)
(* no Check and cannot be called.  Greedy reductions after each token never   *)
(* commit to a reading a later token would have changed.                      *)
ParsesTheLanguage ==
    text # <<>> =>
      \A roles \in SUBSET {i \in DOMAIN text : text[i].tok = "check"} :
         LET said  == Answer([n \in {"r"} |-> Result(stack)], "none", "r", Caller(roles))
             meant == Meanings(text, roles)
         IN  CASE meant # {} -> meant = {said = "grant"} /\ said \in {"grant", "deny"}
               [] Len(text) = 1 -> said = "type"
               [] OTHER -> said = "deny"
=============================================================================
