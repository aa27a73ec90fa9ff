-------------------------- MODULE MCStickyComment --------------------------
(* Small instances of StickyComment for TLC.                               *)
EXTENDS StickyComment, TLC

CONSTANTS r1, r2, r3

TwoRuns == {r1, r2}
ThreeRuns == {r1, r2, r3}

\* The runs are interchangeable (for safety properties only).
RunSymmetry == Permutations(Runs)
=============================================================================
