----------------------------- MODULE RetryFlow -----------------------------
(***************************************************************************)
(* What the dashboard says of one event: the chain RetryFlow.tsx draws on  *)
(* the event's page, the sentence under it, and the line lib/history.ts    *)
(* writes into the activity feed.  All are computed from what              *)
(* EventsService returns: events.status with the job's attemptCount and    *)
(* nextAttemptAt, and the attempt rows.  They are taken at one moment;     *)
(* findOne reads them by three queries, one after the other.               *)
(***************************************************************************)
EXTENDS Delivery

\* EventsService.toSummary: nextAttemptAt is shown of a job that waits for it.
toSummary(j) ==
    [status        |-> eventStatus[j],
     attemptCount  |-> jobs[j].attemptCount,
     nextAttemptAt |-> jobs[j].status \in CLAIMABLE_STATUSES]

\* EventsService.findOne: the summary and the attempt rows.
findOne(j) == [summary |-> toSummary(j), attempts |-> attempts[j]]

\* attemptNode: an attempt shows its number and how it stands.
attemptNode(event, n) ==
    [node |-> "Attempt", number |-> n, shows |-> event.attempts[n]]

\* The two nodes that follow the attempt a retry is due for; the first one
\* counts down to nextAttemptAt.
RetryNodes(event, n) ==
    {[node |-> "Retry scheduled", number |-> n,
      shows |-> IF event.summary.nextAttemptAt THEN "countdown" ELSE "no time"],
     [node |-> "Attempt", number |-> n + 1, shows |-> "PENDING"]}

\* Mutant: the attempt before the last one is taken for the last.
isLast_OffByOne(event, n) == n + 1 = Cardinality(DOMAIN event.attempts)

\* "attempt.attemptNumber === event.attempts.length"
isLast(event, n) == n = Cardinality(DOMAIN event.attempts)

\* Mutant: the attempts made are the rows there are.
terminalReason_ByRows(event) ==
    IF event.summary.status = "DELIVERED" THEN "accepted"
    ELSE IF Cardinality(DOMAIN event.attempts) >= MaxAttempts
         THEN "retry limit reached" ELSE "permanent failure"

\* Why a delivery is over, on the event's page.
terminalReason(event) ==
    IF event.summary.status = "DELIVERED" THEN "accepted"
    ELSE IF event.summary.attemptCount >= MaxAttempts
         THEN "retry limit reached" ELSE "permanent failure"

\* The attempts a retry is scheduled after.
retried(event) == {n \in DOMAIN event.attempts : /\ event.attempts[n] = "FAILED"
                                                 /\ isLast(event, n)
                                                 /\ event.summary.status = "RETRYING"}

\* The last node of a delivery that is over.
endNodes(event) ==
    IF event.summary.status \in TERMINAL_STATUSES
    THEN {[node |-> "End", number |-> event.summary.attemptCount,
           shows |-> terminalReason(event)]}
    ELSE {}

\* The node of a delivery that has not begun.
firstNodes(event) ==
    IF event.summary.status = "PENDING"
    THEN {[node |-> "Attempt", number |-> 1, shows |-> "PENDING"]} ELSE {}

\* The chain, as the set of its nodes: their order is that of the numbers.
buildNodes(event) ==
    {attemptNode(event, n) : n \in DOMAIN event.attempts}
      \cup (UNION {RetryNodes(event, n) : n \in retried(event)})
      \cup endNodes(event)
      \cup firstNodes(event)

\* The line of the feed: how far the event is, and after how many attempts.
describe(summary) ==
    [shows |-> CASE summary.status = "DELIVERED" -> "accepted"
                 [] summary.status = "FAILED" ->
                      IF summary.attemptCount >= MaxAttempts
                      THEN "retry limit reached" ELSE "permanent failure"
                 [] OTHER -> summary.status,
     number |-> summary.attemptCount]

\* The sentence under the chain; of a delivery that failed it says that all
\* attempts failed with retryable errors, or that the last error was permanent.
explain(event) ==
    CASE event.summary.status = "PENDING"    -> "queued"
      [] event.summary.status = "DELIVERING" -> "in flight"
      [] event.summary.status = "RETRYING"   -> "retry scheduled"
      [] event.summary.status = "DELIVERED"  -> "accepted"
      [] event.summary.status = "FAILED"     ->
             IF event.summary.attemptCount >= MaxAttempts
             THEN "retry limit reached" ELSE "permanent failure"

----------------------------------------------------------------------------
\* How the receiver's answer to attempt n of event j was classified.
AnswerWas(j, n, class) == n \in DOMAIN answers[j] /\ answers[j][n] = class

\* An event that is waiting for its next attempt shows that attempt, under the
\* number the worker will give it, and a retry also the time it is due
\* ("the current status is never unexplained", RetryFlow.tsx).
NextAttemptIsShown(j) ==
    LET nodes == buildNodes(findOne(j))
        used  == jobs[j].attemptCount
    IN  eventStatus[j] \in CLAIMABLE_STATUSES /\ jobs[j].status = eventStatus[j] =>
          /\ [node |-> "Attempt", number |-> used + 1, shows |-> "PENDING"] \in nodes
          /\ eventStatus[j] = "RETRYING" =>
               [node |-> "Retry scheduled", number |-> used, shows |-> "countdown"] \in nodes

\* Each attempt of event j has its row, and the last one is not a SUCCESS.
Recorded(j) ==
    LET used == jobs[j].attemptCount
    IN  /\ DOMAIN attempts[j] = 1 .. used
        /\ used # 0 => attempts[j][used] # "SUCCESS"

\* It does as long as nothing has failed, and after a failure for every event
\* whose attempts are recorded.  The gap is a crash between a claim and the
\* attempt's first row, which leaves a number without a row while isLast counts
\* rows, or one after a SUCCESS was stored, which leaves nothing to retry after.
NextAttemptIsShownUnlessFault ==
    \A j \in Jobs : faults = 0 \/ Recorded(j) => NextAttemptIsShown(j)

\* Every attempt was answered with an error that may be retried, the last one of
\* the budget excepted: it may also have been refused for good.
BudgetSpentOnRetries(j) ==
    \A n \in 1 .. MaxAttempts :
        /\ n \in DOMAIN answers[j]
        /\ answers[j][n] = "RETRYABLE" \/ (n = MaxAttempts /\ answers[j][n] = "PERMANENT")

\* What the chain, its sentence and the feed say of a delivery that is over is
\* the same.  "On attempt #n" is true whatever failed on the way: attempt n was
\* accepted and is recorded so.  So is "permanent failure": attempt n, the last
\* one, was refused for good.  "Retry limit reached", that all attempts failed
\* with retryable errors, is not always true.  The page looks at the count and
\* not at the answer, so a last attempt that was refused for good is shown like
\* this too; and after a failure it only says that the budget is spent.  That the
\* last attempt of an event that waits failed with a retryable error is true as
\* long as nothing has failed.
ReasonIsTrue ==
    /\ \A j \in Jobs : \A end \in {n \in buildNodes(findOne(j)) : n.node = "End"} :
        /\ describe(toSummary(j)) = [shows |-> end.shows, number |-> end.number]
        /\ explain(findOne(j)) = end.shows
        /\ end.shows = "accepted" => /\ end.number \in DOMAIN attempts[j]
                                     /\ attempts[j][end.number] = "SUCCESS"
                                     /\ AnswerWas(j, end.number, "SUCCESS")
        /\ end.shows = "permanent failure" => AnswerWas(j, end.number, "PERMANENT")
        /\ end.shows = "retry limit reached" =>
             /\ end.number = MaxAttempts
             /\ faults = 0 => BudgetSpentOnRetries(j)
    /\ faults = 0 => \A j \in Jobs :
        explain(findOne(j)) = "retry scheduled" /\ jobs[j].status = "RETRYING"
            => AnswerWas(j, jobs[j].attemptCount, "RETRYABLE")
=============================================================================
