--------------------------- MODULE MCIssueLabels ---------------------------
(* Small instances of IssueLabels for TLC.                                 *)
EXTENDS IssueLabels, TLC

CONSTANTS r1, r2

OneRun == {r1}
TwoRuns == {r1, r2}

RunSymmetry == Permutations(Runs)
=============================================================================
