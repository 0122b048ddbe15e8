--------------------------- MODULE MCReportService ---------------------------
(* Values of the constants of ReportService for TLC. *)
EXTENDS ReportService, TLC

CONSTANTS t1, t2, n1, n2

NoDefaults == <<>>

Cron(n) == [name |-> n, status |-> "Active", kind |-> "cron"]

CronPosts == {Cron(n1), Cron(n2)}

OnePost == {Cron(n1)}

NoKeys == [id |-> Unset, name |-> Unset, status |-> Unset, kind |-> Unset]

Rename(n) == [NoKeys EXCEPT !.name = n]

MakeOnce == [NoKeys EXCEPT !.kind = "once"]

MakeSpent == [NoKeys EXCEPT !.kind = "spent"]

MakeBroken == [NoKeys EXCEPT !.kind = "broken"]

Rekey(t) == [NoKeys EXCEPT !.id = t]

SetStatus(s) == [NoKeys EXCEPT !.status = s]

NoPatches == {}

RenamesAndBad == {Rename(n2), MakeSpent, MakeBroken}

MixedPatches == {Rename(n2), MakeOnce, Rekey(t2), SetStatus("Other")}

Singles == {<<t>> : t \in Ids}

Pairs == Singles \cup {<<t1, t2>>}

Symmetry == Permutations(Workers) \cup Permutations(Api)

=============================================================================
