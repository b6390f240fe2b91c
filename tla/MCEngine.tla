------------------------------- MODULE MCEngine -------------------------------
(***************************************************************************)
(* A small instance of Engine: a task that needs two others, one of which  *)
(* may be retried.                                                         *)
(***************************************************************************)
EXTENDS Engine, TLC

JoinDeps == 1 :> {} @@ 2 :> {} @@ 3 :> {1, 2}

RetryFirst == [t \in Task |-> IF t = 1 THEN 2 ELSE 1]

RetrySecond == [t \in Task |-> IF t = 2 THEN 2 ELSE 1]

OneEach == [t \in Task |-> 1]
=============================================================================
