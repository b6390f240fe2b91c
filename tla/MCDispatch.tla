------------------------------ MODULE MCDispatch ------------------------------
(***************************************************************************)
(* Small instances of Dispatch for TLC: a definition in which three tasks  *)
(* wait for nothing, a fourth waits for two of them and a failure skips a  *)
(* task at two removes (WideDeps), and the smallest one (SingleDeps).      *)
(***************************************************************************)
EXTENDS Dispatch, TLC

CONSTANTS r1, w1, w2

WideDeps == 1 :> {} @@ 2 :> {} @@ 3 :> {} @@ 4 :> {1, 2} @@ 5 :> {4}
SingleDeps == 1 :> {}

OneEach == [t \in Task |-> 1]
ThreeEach == [t \in Task |-> 3]
TwoEach == [t \in Task |-> 2]
ZeroEach == [t \in Task |-> 0]

AllMock == [t \in Task |-> "mock"]
MockWorkers == [w \in Worker |-> {"mock"}]
OneSlot == [w \in Worker |-> 1]

WorkerSymmetry == Permutations(Worker)
CoordinatorSymmetry == Permutations(Coordinator)
=============================================================================
