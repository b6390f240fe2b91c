------------------------------ MODULE MCRowLocks ------------------------------
(* Small instances of RowLocks: two rows of one Run, or one of each of two.    *)
EXTENDS RowLocks, TLC

CONSTANTS r1, r2

TwoRuns == 1 :> r1 @@ 2 :> r2
OneRun == 1 :> r1 @@ 2 :> r1
=============================================================================
