--------------------------- MODULE DeliveryRules ---------------------------
(***************************************************************************)
(* The pure decisions the delivery engine takes: the state machine of      *)
(* common/delivery-status.enum.ts and the decisions of RetryPolicy         *)
(* (delivery/retry-policy.ts) the workers depend on.                       *)
(***************************************************************************)
EXTENDS Naturals

CONSTANT MaxAttempts    \* MAX_ATTEMPTS; buildConfiguration refuses less than 1

ASSUME BudgetAssumption == MaxAttempts \in Nat \ {0}

DeliveryStatus == {"PENDING", "DELIVERING", "RETRYING", "DELIVERED", "FAILED"}

TERMINAL_STATUSES == {"DELIVERED", "FAILED"}

CLAIMABLE_STATUSES == {"PENDING", "RETRYING"}

ALLOWED_TRANSITIONS ==
    [PENDING    |-> {"DELIVERING"},
     DELIVERING |-> {"DELIVERED", "RETRYING", "FAILED"},
     RETRYING   |-> {"DELIVERING"},
     DELIVERED  |-> {},
     FAILED     |-> {}]

canTransition(from, to) == to \in ALLOWED_TRANSITIONS[from]

AttemptStatus == {"IN_PROGRESS", "SUCCESS", "FAILED"}

\* What RetryPolicy.classify makes of an HTTP answer or a transport error.
Classification == {"SUCCESS", "PERMANENT", "RETRYABLE"}

\* Mutant: one attempt too many.
isExhausted_OffByOne(attemptNumber) == attemptNumber > MaxAttempts

\* Mutant: the last attempt of the budget is never made.
isExhausted_Early(attemptNumber) == attemptNumber + 1 >= MaxAttempts

isExhausted(attemptNumber) == attemptNumber >= MaxAttempts

\* Mutant: the budget is not looked at after a retryable failure.
Verdict_NoBudget(classification, attemptNumber) ==
    CASE classification = "SUCCESS"   -> "DELIVERED"
      [] classification = "PERMANENT" -> "FAILED"
      [] classification = "RETRYABLE" -> "RETRYING"

\* Mutant: the budget is looked at before the answer.
Verdict_BudgetFirst(classification, attemptNumber) ==
    CASE isExhausted(attemptNumber) \/ classification = "PERMANENT" -> "FAILED"
      [] OTHER -> IF classification = "SUCCESS" THEN "DELIVERED" ELSE "RETRYING"

\* The status executeClaimedJob moves a job to when its attempt has settled.
Verdict(classification, attemptNumber) ==
    CASE classification = "SUCCESS"   -> "DELIVERED"
      [] classification = "PERMANENT" -> "FAILED"
      [] classification = "RETRYABLE" ->
             IF isExhausted(attemptNumber) THEN "FAILED" ELSE "RETRYING"
=============================================================================
