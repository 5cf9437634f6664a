---------------------------- MODULE RetryPolicy ----------------------------
(***************************************************************************)
(* The retry policy of apps/server as one event experiences it: how the    *)
(* configured delays become the backoff (configuration.ts readRetryDelays, *)
(* retry-policy.ts) and how each answer of the receiver decides what       *)
(* happens next (webhook.client send, classifyResult, executeClaimedJob).  *)
(*                                                                         *)
(* One attempt is one step here; Delivery has the same decisions with all  *)
(* their statements, for an abstract answer.                               *)
(***************************************************************************)
EXTENDS DeliveryRules, Integers, Sequences

CONSTANTS Delays,       \* milliseconds the configuration may name
          MaxListed,    \* bound on how many RETRY_DELAYS_MS lists
          StatusCodes,  \* HTTP statuses a receiver may answer with
          NoAnswer      \* the request ended without an HTTP status

ASSUME PolicyAssumption == /\ Delays \subseteq Int
                           /\ MaxListed \in Nat
                           /\ StatusCodes \subseteq 100 .. 599
                           /\ NoAnswer \notin Int

VARIABLES listed,       \* the delays the operator configured
          fractional,   \* MAX_ATTEMPTS lies between MaxAttempts - 1 and MaxAttempts
          status,       \* delivery_jobs.status
          attempt,      \* delivery_jobs.attemptCount
          answers,      \* history: the answer to each attempt
          waits         \* history: the backoff after each attempt

vars == <<listed, fractional, status, attempt, answers, waits>>

----------------------------------------------------------------------------
(* readRetryDelays                                                         *)

\* RETRY_DELAYS_MS, whose entries are checked; it may list none (",").
FromList == UNION {[1 .. n -> Delays \cap Nat] : n \in 0 .. MaxListed}

\* RETRY_DELAY_1_MS and RETRY_DELAY_2_MS, which readNumber lets be any number.
FromNames == [1 .. 2 -> Delays]

\* Of as many waits as there are between MaxAttempts attempts.
required == MaxAttempts - 1

\* "delays[delays.length - 1] ?? 0"
last(delays) == IF delays = <<>> THEN 0 ELSE delays[Len(delays)]

\* The while loop: the last delay is pushed until there are enough.
padded(delays) ==
    IF Len(delays) >= required THEN delays
    ELSE delays \o [i \in 1 .. required - Len(delays) |-> last(delays)]

\* slice() cuts a fractional length down, where the loop has filled it up.
kept == IF fractional THEN required - 1 ELSE required

readRetryDelays(delays) == SubSeq(padded(delays), 1, kept)

----------------------------------------------------------------------------
(* RetryPolicy                                                             *)

\* Mutant: only 408 and 429 are retried, not the server's own errors.
classifyHttpStatus_NoServerErrors(code) ==
    IF code \in 200 .. 299 THEN "SUCCESS"
    ELSE IF code \in {408, 429} THEN "RETRYABLE" ELSE "PERMANENT"

classifyHttpStatus(code) ==
    IF code \in 200 .. 299 THEN "SUCCESS"
    ELSE IF code \in {408, 429} \/ code >= 500 THEN "RETRYABLE" ELSE "PERMANENT"

\* Nothing that mapTransportError maps carries a status.
classifyResult(answer) ==
    IF answer = NoAnswer THEN "RETRYABLE" ELSE classifyHttpStatus(answer)

\* Rounded up when MAX_ATTEMPTS is fractional.
attemptsRemaining(attemptNumber) ==
    IF attemptNumber >= MaxAttempts THEN 0 ELSE MaxAttempts - attemptNumber

\* Mutant: the attempt number is used as a 0-based index.
delayAfterAttemptMs_OffByOne(delays, attemptNumber) ==
    IF delays = <<>> THEN 0
    ELSE delays[IF attemptNumber < Len(delays) THEN attemptNumber + 1 ELSE Len(delays)]

\* "delays[Math.min(attemptNumber - 1, delays.length - 1)]", 0-based.
delayAfterAttemptMs(delays, attemptNumber) ==
    IF delays = <<>> THEN 0
    ELSE delays[IF attemptNumber <= Len(delays) THEN attemptNumber ELSE Len(delays)]

----------------------------------------------------------------------------
\* The type invariant.
TypeOK == /\ listed \in Seq(Delays)
          /\ fractional \in BOOLEAN
          /\ status \in DeliveryStatus
          /\ attempt \in Nat
          /\ answers \in Seq(StatusCodes \cup {NoAnswer})
          /\ waits \in Seq(Delays \cup {0})

\* A budget of less than one attempt is refused (buildConfiguration).
Init == /\ listed \in FromList \cup FromNames
        /\ fractional \in BOOLEAN
        /\ fractional => MaxAttempts > 1
        /\ status = "PENDING"
        /\ attempt = 0
        /\ answers = <<>>
        /\ waits = <<>>

\* A job that is requeued waits for the delay of the attempt that ended.
Settle(verdict, number) ==
    /\ status' = verdict
    /\ waits' = IF verdict = "RETRYING"
                THEN Append(waits, delayAfterAttemptMs(readRetryDelays(listed), number))
                ELSE waits

\* executeClaimedJob: the attempt is claimed, sent and concluded.
Attempt(answer) ==
    /\ status \in CLAIMABLE_STATUSES
    /\ attempt' = attempt + 1
    /\ answers' = Append(answers, answer)
    /\ Settle(Verdict(classifyResult(answer), attempt + 1), attempt + 1)
    /\ UNCHANGED <<listed, fractional>>

\* Mutant: an attempt counts only once it is answered.
WorkerDies_NotCounted ==
    /\ status \in CLAIMABLE_STATUSES
    /\ status' = "RETRYING"
    /\ UNCHANGED <<listed, fractional, attempt, answers, waits>>

\* recoverStaleJobs: the worker dies during the attempt and the lease expires.
WorkerDies ==
    /\ status \in CLAIMABLE_STATUSES
    /\ attempt' = attempt + 1
    /\ answers' = Append(answers, NoAnswer)
    /\ Settle(IF isExhausted(attempt + 1) THEN "FAILED" ELSE "RETRYING", attempt + 1)
    /\ UNCHANGED <<listed, fractional>>

Next == \/ \E answer \in StatusCodes \cup {NoAnswer} : Attempt(answer)
        \/ WorkerDies

Spec == Init /\ [][Next]_vars

----------------------------------------------------------------------------
\* The backoff as whoever configures it understands it.
Backoff(delays, i) ==
    IF delays = <<>> THEN 0
    ELSE IF i <= Len(delays) THEN delays[i] ELSE delays[Len(delays)]

\* Each wait is the delay listed for its attempt; when there are fewer delays
\* than waits the last one is reused, and with none there is no wait ("If fewer
\* delays were configured, the last one is reused", configuration.ts).  A
\* negative delay is taken as it is: the job is due at once.  With a fractional
\* MAX_ATTEMPTS one delay is cut off, and the last wait repeats the one before.
BackoffAsConfigured ==
    \A i \in DOMAIN waits :
        waits[i] = CASE ~fractional \/ i < required         -> Backoff(listed, i)
                     [] fractional /\ i = required /\ i > 1 -> Backoff(listed, i - 1)
                     [] fractional /\ i = required /\ i = 1 -> 0

\* The receiver's decision: it took the event, or will never take it.
Decision(answer) == answer \in StatusCodes \ (500 .. 599 \cup {408, 429})

\* Only the receiver or the budget ends a delivery: no attempt follows an
\* answer that decides the matter, and a job fails without one only when all
\* of its MaxAttempts attempts were made, with a wait between any two and an
\* attempt shown as remaining whenever it is requeued.
EndsForAReason ==
    /\ \A i \in DOMAIN answers : Decision(answers[i]) =>
         /\ i = Len(answers)
         /\ status \in TERMINAL_STATUSES
    /\ status = "FAILED" => \/ Decision(answers[attempt])
                            \/ attempt = MaxAttempts
    /\ Len(answers) = attempt
    /\ Len(waits) = IF status \in TERMINAL_STATUSES THEN attempt - 1 ELSE attempt
    /\ status = "RETRYING" => attemptsRemaining(attempt) > 0
=============================================================================
