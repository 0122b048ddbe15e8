---------------------------- MODULE MCReportFiles ----------------------------
(* Values of the constants of ReportFiles for TLC. *)
EXTENDS ReportFiles, TLC

CONSTANTS k1, k2, n1

OneName == [t \in Tasks |-> n1]

Symmetry == Permutations(Files) \cup Permutations(Api)

=============================================================================
