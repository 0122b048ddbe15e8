----------------------------- MODULE MCHBaseStore -----------------------------
(* Two resources, samples of two sources in two seconds of two instants each. *)
EXTENDS HBaseReads

CONSTANTS R1, R2

Sample(i, r, src, t, m) ==
    [id |-> i, resource |-> r, source |-> src, name |-> "cpu", time |-> t, meta |-> m]
K1(v) == [k \in {"k1"} |-> v]
K2(v) == [k \in {"k2"} |-> v]
S1 == Sample(1, R1, 1, 0, K1(1))
MCSamples == { S1, Sample(2, R1, 2, 1, K2(1)), Sample(3, R1, 1, 2, K1(2)),
               Sample(4, R2, 1, 1, K1(1)) }
MCOld == {S1}

Query(src, k, v, a, b) == [source |-> src, key |-> k, val |-> v, start |-> a, end |-> b]
MCQueries == { Query(Unknown, "k1", 1, Unknown, Unknown), Query(1, Unknown, 0, Unknown, Unknown),
               Query(Unknown, Unknown, 0, 1, 2), Query(1, Unknown, 0, Unknown, 1) }

Wanted(f, v, n) ==
    [x \in Filters \cup {"limit"} |-> IF x = f THEN v ELSE IF x = "limit" THEN n ELSE Unknown]
MCSampleQueries == { Wanted("none", Unknown, Unknown), Wanted("resource", R1, Unknown),
                     Wanted("source", 1, Unknown), Wanted("id", 3, Unknown),
                     Wanted("name", "cpu", 1), Wanted("source", 1, 2) }
=============================================================================
