----------------------------- MODULE MCCreation -----------------------------
(* Requests for one workflow.  Every operation is asked for under two keys   *)
(* and with two contents, so that replays, conflicts, the same work under    *)
(* another key and two versions at once all occur; one of the contents is    *)
(* spelled d3 by the database.                                               *)
EXTENDS Creation, TLC

CONSTANTS flow, other, d1, d2, d3, bad, k1, k2

Spelling == [b \in {d1, d2, d3} |-> IF b = d2 THEN d3 ELSE b]

create(k, b) == [op |-> "create_workflow", key |-> k, workflow |-> flow, id |-> flow,
                 body |-> b, version |-> 1]
version(k, b) == [create(k, b) EXCEPT !.op = "create_workflow_version"]
start(k, n) == [create(k, d1) EXCEPT !.op = "start_run", !.version = n]

Requests == {create(k1, d1), create(k1, d2), create(k2, d1),
             version(k1, d2), version(k2, d2), version(k2, bad),
             [version(k2, d1) EXCEPT !.id = other],
             start(k1, 1), start(k1, 2), start(k2, 1)}

Symmetry == Permutations(Handler) \cup Permutations(RunId)
=============================================================================
