------------------------- MODULE DeliveryLifecycle -------------------------
(***************************************************************************)
(* What the delivery engine promises of a job, whoever works on it: the    *)
(* state machine of common/delivery-status.enum.ts together with the       *)
(* retry budget.  A job is claimed at most MaxAttempts times, is requeued  *)
(* only while budget is left, and stays where it is once it is terminal.   *)
(* Delivery implements this specification when one worker process runs.    *)
(***************************************************************************)
EXTENDS DeliveryRules

CONSTANT Jobs           \* the accepted events; each has exactly one job

VARIABLES status,       \* delivery_jobs.status
          attemptCount  \* delivery_jobs.attemptCount

vars == <<status, attemptCount>>

Init == /\ status = [j \in Jobs |-> "PENDING"]
        /\ attemptCount = [j \in Jobs |-> 0]

\* A worker takes the job and burns one attempt of the budget.
Claim(j) == /\ canTransition(status[j], "DELIVERING")
            /\ attemptCount[j] < MaxAttempts
            /\ status' = [status EXCEPT ![j] = "DELIVERING"]
            /\ attemptCount' = [attemptCount EXCEPT ![j] = @ + 1]

\* The attempt ends: delivered, given up, or requeued while budget is left.
Conclude(j) == \E to \in DeliveryStatus \ {"DELIVERING"} :
    /\ canTransition(status[j], to)
    /\ to = "RETRYING" => ~isExhausted(attemptCount[j])
    /\ status' = [status EXCEPT ![j] = to]
    /\ UNCHANGED attemptCount

Next == \E j \in Jobs : Claim(j) \/ Conclude(j)

Spec == Init /\ [][Next]_vars
=============================================================================
