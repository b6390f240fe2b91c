--------------------------- MODULE WorkflowContract ---------------------------
(***************************************************************************)
(* What the platform promises about a Run, whatever executes it: every     *)
(* task gets one outcome and keeps it, a task ends by itself only after    *)
(* all its dependencies succeeded, a failure skips exactly the tasks that  *)
(* needed it and no later, a cancellation closes everything that is open   *)
(* at once, and the verdict is known in the same step as the last outcome. *)
(* Workers, leases, attempts, retries and queues do not appear.            *)
(*                                                                         *)
(* LateSpec is what is left of it when the verdict may come in a step of   *)
(* its own, after the last outcome.                                        *)
(***************************************************************************)
CONSTANTS Run, Task, Deps

VARIABLES
    outcome,    \* Run -> Task -> how the task ended, or "open"
    verdict     \* Run -> how the Run ended, or "open"

Outcome == {"open", "succeeded", "failed", "skipped", "canceled"}

Init ==
    /\ outcome = [r \in Run |-> [t \in Task |-> "open"]]
    /\ verdict = [r \in Run |-> "open"]

Verdict(o) ==
    IF \E t \in Task : o[t] = "open" THEN "open"
    ELSE IF \E t \in Task : o[t] = "failed" THEN "failed"
    ELSE "succeeded"

\* The tasks that end by themselves in this step.
Ending(r) == {t \in Task : outcome[r][t] = "open" /\ outcome'[r][t] \in {"succeeded", "failed"}}

(* Tasks end whose dependencies all succeeded; the open tasks that needed a  *)
(* failed one, directly or through a skipped task, are skipped in the same   *)
(* step.                                                                     *)
EndTasks(r) ==
    /\ Ending(r) # {}
    /\ \A t \in Ending(r), u \in Task : u \in Deps[t] => outcome[r][u] = "succeeded"
    /\ \A t \in Task \ Ending(r) :
          outcome'[r][t] =
              IF outcome[r][t] = "open"
                 /\ \E u \in Deps[t] : outcome'[r][u] \in {"failed", "skipped"}
              THEN "skipped"
              ELSE outcome[r][t]

End(r) == EndTasks(r) /\ verdict'[r] = Verdict(outcome'[r])

Cancel(r) ==
    /\ outcome'[r] = [t \in Task |->
                        IF outcome[r][t] = "open" THEN "canceled" ELSE outcome[r][t]]
    /\ verdict'[r] = "canceled"

Advance(r) ==
    /\ verdict[r] = "open"
    /\ End(r) \/ Cancel(r)

\* One transaction may settle tasks of several Runs.
Next ==
    /\ outcome' \in [Run -> [Task -> Outcome]]
    /\ verdict' \in [Run -> Outcome]
    /\ \A r \in Run :
          \/ outcome'[r] = outcome[r] /\ verdict'[r] = verdict[r]
          \/ Advance(r)

Spec == Init /\ [][Next]_<<outcome, verdict>>

-----------------------------------------------------------------------------
(* The weaker promise.                                                       *)

EndLate(r) == EndTasks(r) /\ verdict'[r] \in {"open", Verdict(outcome'[r])}

\* Every task has ended; a cancellation may still come first.
Settle(r) ==
    /\ outcome'[r] = outcome[r]
    /\ Verdict(outcome[r]) # "open"
    /\ verdict'[r] = Verdict(outcome[r])

AdvanceLate(r) ==
    /\ verdict[r] = "open"
    /\ EndLate(r) \/ Settle(r) \/ Cancel(r)

NextLate ==
    /\ outcome' \in [Run -> [Task -> Outcome]]
    /\ verdict' \in [Run -> Outcome]
    /\ \A r \in Run :
          \/ outcome'[r] = outcome[r] /\ verdict'[r] = verdict[r]
          \/ AdvanceLate(r)

LateSpec == Init /\ [][NextLate]_<<outcome, verdict>>
=============================================================================
