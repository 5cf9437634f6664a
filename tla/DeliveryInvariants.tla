------------------------ MODULE DeliveryInvariants ------------------------
(***************************************************************************)
(* The inductive invariants behind the safety properties of Delivery, for  *)
(* any number of workers, and for workers that never have the same job in  *)
(* hand.  DeliveryProofs and NoticesProofs prove them.                     *)
(***************************************************************************)
EXTENDS Delivery

----------------------------------------------------------------------------
(* Any number of workers                                                   *)

\* An entity read by findStaleJobs: it carries the lock of its own claim, and
\* the job has not been claimed fewer times since.
ReadStale(s) == /\ s.lockedAt = s.attemptCount
                /\ s.lockedAt \in 1 .. jobs[s.eventId].attemptCount

\* The attempt numbers in workers' hands and in the attempt rows were claimed.
NumbersClaimed ==
    /\ \A w \in Workers :
         /\ \A s \in sweep[w] : ReadStale(s)
         /\ pc[w] \in {"release", "projectRelease"} => ReadStale(held[w])
         /\ pc[w] = "read" => jobs[held[w].eventId].attemptCount > 0
         /\ pc[w] \in Executing =>
              held[w].attemptCount \in 1 .. jobs[held[w].eventId].attemptCount
    /\ \A j \in Jobs : DOMAIN attempts[j] \subseteq 1 .. jobs[j].attemptCount

\* A worker in flight has its attempt row.
RowReserved ==
    \A w \in Workers : pc[w] \in InFlight =>
        held[w].attemptCount \in DOMAIN attempts[held[w].eventId]

\* The attempt numbers after which a requeue is allowed.
Retriable == 1 .. (MaxAttempts - 1)

\* Worker w is in flight with attempt n of job j.
Flies(w, j, n) == /\ pc[w] \in InFlight
                  /\ held[w].eventId = j
                  /\ held[w].attemptCount = n

\* The numbers whose executor can no longer requeue the job ...
SpentByExecutor(j) ==
    {n \in Retriable : n \in DOMAIN attempts[j] /\ \A w \in Workers : ~Flies(w, j, n)}

\* ... and those whose claim recovery can no longer release.
SpentByRecovery(j) ==
    {n \in Retriable : /\ n <= jobs[j].attemptCount
                       /\ ~(n = jobs[j].attemptCount /\ jobs[j].status = "DELIVERING")}

Pending(j) == IF jobs[j].status \in CLAIMABLE_STATUSES THEN 1 ELSE 0

\* Every claim but the first, made or still to come, was paid for by an attempt
\* number that one of the two requeued once and can never requeue again.
ClaimsPaidFor ==
    \A j \in Jobs : jobs[j].attemptCount + Pending(j)
                      <= 1 + Cardinality(SpentByExecutor(j))
                           + Cardinality(SpentByRecovery(j))

\* Only an attempt that has its row is answered, and a number that is about to
\* be sent never was.
AnsweredOnce ==
    /\ \A j \in Jobs : DOMAIN answers[j] \subseteq DOMAIN attempts[j]
    /\ \A w \in Workers :
         pc[w] = "send" => held[w].attemptCount \notin DOMAIN answers[held[w].eventId]

\* What a worker acts on is the class of the answer to its own attempt.
ResultAnswered ==
    \A w \in Workers : pc[w] \in Settled =>
        LET mine == answers[held[w].eventId]
        IN  /\ held[w].attemptCount \in DOMAIN mine
            /\ mine[held[w].attemptCount] = result[w]

----------------------------------------------------------------------------
(* Workers whose hands are apart                                           *)

\* No two workers have the same job in hand.  It takes a lease that runs out
\* under a live executor, or two workers that recover the same job, to end it.
HandsApart ==
    \A v, w \in Workers : v # w /\ held[v] # NoEntity => held[v].eventId # held[w].eventId

\* A single worker has nobody to share with.
OneWorker == \A v, w \in Workers : v = w

\* The job in hand of worker w is as the worker takes it to be.
JobInHand(w) ==
    LET row == jobs[held[w].eventId]
    IN  /\ pc[w] = "read" => row.status = "DELIVERING"
        /\ pc[w] \in {"start"} \cup InFlight =>
             row.status = "DELIVERING" /\ row.attemptCount = held[w].attemptCount
        /\ pc[w] = "project" =>
             row.status = Outcome(w) /\ row.attemptCount = held[w].attemptCount
        /\ pc[w] = "projectRelease" =>
             row.status = Recovered(held[w]) /\ row.attemptCount = held[w].attemptCount

\* A job that may still be claimed has budget left, one that is PENDING never was
\* claimed, and from the claim to the projection the job is its worker's.
OwnerInv ==
    /\ AttemptsWithinBudget
    /\ \A j \in Jobs : jobs[j].status = "PENDING" <=> jobs[j].attemptCount = 0
    /\ \A j \in Jobs : jobs[j].status \in CLAIMABLE_STATUSES =>
                         jobs[j].attemptCount < MaxAttempts
    /\ \A w \in Workers : JobInHand(w)

\* The attempt rows of the job in hand of worker w: closed before recovery
\* releases it, open from attempts.start to attempts.complete and no longer.
LogInHand(w) ==
    LET rows == attempts[held[w].eventId]
        n    == held[w].attemptCount
    IN  /\ pc[w] = "release" => \A i \in DOMAIN rows : rows[i] # "IN_PROGRESS"
        /\ pc[w] \in {"send", "complete"} => n \in DOMAIN rows /\ rows[n] = "IN_PROGRESS"
        /\ pc[w] = "transition" => rows[n] # "IN_PROGRESS"

AttemptLogInv == OpenAttemptIsCurrent /\ \A w \in Workers : LogInHand(w)

HasSuccess(j) == \E n \in DOMAIN attempts[j] : attempts[j][n] = "SUCCESS"

\* A stored SUCCESS is being acted on or was.
SuccessInHand(w) ==
    pc[w] = "transition" /\ HasSuccess(held[w].eventId) => result[w] = "SUCCESS"

\* The two properties of a run without faults, and what makes them inductive.
InStepInv == /\ ProjectionInStepUnlessFault
             /\ SuccessIsDelivered
             /\ faults = 0 => \A w \in Workers : SuccessInHand(w)

\* An event that is shown as over is over.
EndIsFinal ==
    \A j \in Jobs : eventStatus[j] \in TERMINAL_STATUSES => jobs[j].status = eventStatus[j]

\* The attempt a DELIVERED job ended with is recorded as accepted ...
EndIsAccepted ==
    \A j \in Jobs : jobs[j].status = "DELIVERED" =>
        /\ jobs[j].attemptCount \in DOMAIN attempts[j]
        /\ attempts[j][jobs[j].attemptCount] = "SUCCESS"

\* ... because the worker's result is in the row before it moves the job.
ResultInRow(w) ==
    pc[w] = "transition" =>
        LET rows == attempts[held[w].eventId]
            n    == held[w].attemptCount
        IN  /\ n \in DOMAIN rows
            /\ rows[n] = IF result[w] = "SUCCESS" THEN "SUCCESS" ELSE "FAILED"

ReasonInv == EndIsFinal /\ EndIsAccepted /\ \A w \in Workers : ResultInRow(w)

\* Job j is between its claim and the outcome in the hands of worker w ...
InHand(w, j) == pc[w] \in {"read", "start"} \cup InFlight /\ held[w].eventId = j

\* ... and the row of the attempt is still to be inserted.
Unstarted(w, j) == pc[w] \in {"read", "start"} /\ held[w].eventId = j

\* Workers that have not failed leave nothing to recover: who comes to release a
\* row that was stale is refused ...
NothingStale ==
    /\ \A w \in Workers :
         /\ pc[w] = "release" => jobs[held[w].eventId].status # "DELIVERING"
         /\ pc[w] # "projectRelease"
    /\ \A j \in Jobs : jobs[j].status = "DELIVERING" => \E w \in Workers : InHand(w, j)

\* ... and they leave a row for each attempt they have begun, the last one FAILED
\* if the job waits for another.
RowsCounted ==
    \A j \in Jobs :
        /\ DOMAIN attempts[j] = 1 .. IF \E w \in Workers : Unstarted(w, j)
                                     THEN jobs[j].attemptCount - 1 ELSE jobs[j].attemptCount
        /\ jobs[j].status = "RETRYING" => /\ jobs[j].attemptCount \in DOMAIN attempts[j]
                                          /\ attempts[j][jobs[j].attemptCount] = "FAILED"

NextInv == faults = 0 => NothingStale /\ RowsCounted

\* The last attempt of job j was answered, with one of these classes.
LastAnswer(j, classes) == /\ jobs[j].attemptCount \in DOMAIN answers[j]
                          /\ answers[j][jobs[j].attemptCount] \in classes

\* A job ended with the answer to its last attempt, unless its budget was spent ...
EndIsAnswered ==
    \A j \in Jobs :
        /\ jobs[j].status = "DELIVERED" => LastAnswer(j, {"SUCCESS"})
        /\ jobs[j].status = "FAILED" /\ ~isExhausted(jobs[j].attemptCount)
             => LastAnswer(j, {"PERMANENT"})

\* ... and while nothing fails, each attempt is made because the one before it was
\* answered with an error that may be retried.
EachWasRetryable ==
    \A j \in Jobs :
        /\ \A n \in 1 .. jobs[j].attemptCount - 1 :
             n \in DOMAIN answers[j] /\ answers[j][n] = "RETRYABLE"
        /\ jobs[j].status = "RETRYING" => LastAnswer(j, {"RETRYABLE"})
        /\ jobs[j].status = "FAILED" => LastAnswer(j, {"RETRYABLE", "PERMANENT"})

AnswerInv == EndIsAnswered /\ (faults = 0 => EachWasRetryable)

\* What holds of workers whose hands were apart in every state so far.
ApartInv == OwnerInv /\ AttemptLogInv /\ InStepInv /\ ReasonInv /\ NextInv /\ AnswerInv
=============================================================================
