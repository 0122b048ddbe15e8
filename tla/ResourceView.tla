----------------------------- MODULE ResourceView -----------------------------
(* What the resource table is for: of every resource samples were recorded    *)
(* for, which meters it has, when its first and last sample was taken, which  *)
(* sources report it, and the metadata of its newest sample, where samples of *)
(* one second count as equally new and the one recorded last wins.  Samples   *)
(* may be recorded in any order and any number of times.                      *)
EXTENDS Integers

CONSTANTS Samples, Resources, Second(_), Unknown

VARIABLE view

(* what one sample says of its resource, and what it adds to what is known    *)
Alone(s) == [meters |-> {<<s.time, s.source, s.name>>}, first |-> s.time, last |-> s.time,
             sources |-> {s.source}, newest |-> Second(s.time), meta |-> s.meta]

Views == [meters  : SUBSET {<<s.time, s.source, s.name>> : s \in Samples},
          first   : {s.time : s \in Samples}, last : {s.time : s \in Samples},
          sources : SUBSET {s.source : s \in Samples},
          newest  : {Second(s.time) : s \in Samples}, meta : {s.meta : s \in Samples}]

Init ==
    \E old \in SUBSET Samples :
        /\ \A s, t \in old : s.resource = t.resource => s = t
        /\ view = [r \in Resources |->
                     IF \E s \in old : s.resource = r
                     THEN Alone(CHOOSE s \in old : s.resource = r) ELSE Unknown]

Learn(s) ==
    LET old == view[s.resource]
        m   == <<s.time, s.source, s.name>>
    IN  view' = [view EXCEPT ![s.resource] =
           IF old = Unknown
           THEN Alone(s)
           ELSE [meters  |-> old.meters \cup {m},
                 first   |-> IF s.time < old.first THEN s.time ELSE old.first,
                 last    |-> IF s.time > old.last THEN s.time ELSE old.last,
                 sources |-> old.sources \cup {s.source},
                 newest  |-> IF Second(s.time) > old.newest THEN Second(s.time) ELSE old.newest,
                 meta    |-> IF Second(s.time) >= old.newest THEN s.meta ELSE old.meta]]

Next == \E s \in Samples : Learn(s)
Spec == Init /\ [][Next]_view
=============================================================================
