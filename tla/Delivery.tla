------------------------------ MODULE Delivery ------------------------------
(***************************************************************************)
(* The delivery engine of apps/server: worker processes (delivery.worker)  *)
(* that share one database (delivery.repository, attempts.service) and     *)
(* call the receiver (webhook.client) as delivery.service tells them.      *)
(*                                                                         *)
(* Grain.  Every SQL statement and the HTTP call is a step of its own,     *)
(* because the code awaits each of them and no transaction joins them; a   *)
(* process may crash, and a statement may throw, between any two steps.    *)
(*                                                                         *)
(* Time.  The code compares two columns with the clock.  The model keeps   *)
(* the outcome of the comparisons: "due" is the set of jobs whose          *)
(* nextAttemptAt has passed and "expired" the set of claims older than the *)
(* lease.  BackoffElapses and LeaseExpires are the passing of time.  The   *)
(* timestamp lockedAt only serves to tell one claim from another; the      *)
(* attempt number of the claim stands for it, 0 for NULL.                  *)
(***************************************************************************)
EXTENDS DeliveryRules, FiniteSets

CONSTANTS Jobs,         \* the accepted events; each has exactly one job
          Workers,      \* the worker processes
          BatchSize,    \* WORKER_BATCH_SIZE
          MaxFaults,    \* bound on crashes and thrown errors together
          None          \* no event: what a worker between two jobs handles

ASSUME DeliveryAssumption == /\ None \notin Jobs
                             /\ BatchSize \in Nat \ {0}
                             /\ MaxFaults \in Nat

VARIABLES
    jobs,         \* delivery_jobs: status, attemptCount and lockedAt per job
    due,          \* the jobs with nextAttemptAt <= now
    expired,      \* the jobs with lockedAt < now - leaseTimeoutMs
    eventStatus,  \* events.status, the projection of the job's status
    attempts,     \* delivery_attempts: attempt number -> status, per event
    answers,      \* history: attempt number -> class of its answer, per event
    pc,           \* the next step of each worker process
    sweep,        \* stale rows read by findStaleJobs, still to be handled
    batch,        \* ids read by findDueJobIds, still to be handled
    held,         \* the DeliveryJob entity the worker handles
    result,       \* the classified result of its HTTP call
    faults        \* crashes and thrown errors so far

dbVars     == <<jobs, due, expired, eventStatus, attempts>>
workerVars == <<pc, sweep, batch, held, result>>
vars       == <<dbVars, answers, workerVars, faults>>

----------------------------------------------------------------------------
(* Types                                                                   *)

JobRow == [status : DeliveryStatus, attemptCount : Nat, lockedAt : Nat]

\* A DeliveryJob as a worker once read it.
Entity == [eventId : Jobs, attemptCount : Nat, lockedAt : Nat]

NoEntity == [eventId |-> None, attemptCount |-> 0, lockedAt |-> 0]

\* The steps of executeClaimedJob after the attempt row exists.
InFlight == {"send", "complete", "transition"}

\* The steps after the answer to the POST.
Settled == {"complete", "transition", "project"}

\* The steps inside the try block around executeClaimedJob.
Executing == {"start", "project"} \cup InFlight

\* The steps of runOnce outside of it.
Ticking == {"sweep", "release", "projectRelease", "loop", "read"}

\* The steps at which a worker has an entity in its hands.
Holding == {"release", "projectRelease", "read"} \cup Executing

\* The type invariant.
TypeOK ==
    /\ jobs \in [Jobs -> JobRow]
    /\ due \in SUBSET Jobs
    /\ expired \in SUBSET Jobs
    /\ eventStatus \in [Jobs -> DeliveryStatus]
    /\ DOMAIN attempts = Jobs
    /\ \A j \in Jobs :
         /\ attempts[j] \in [DOMAIN attempts[j] -> AttemptStatus]
         /\ DOMAIN attempts[j] \subseteq Nat
    /\ DOMAIN answers = Jobs
    /\ \A j \in Jobs : /\ answers[j] \in [DOMAIN answers[j] -> Classification]
                       /\ DOMAIN answers[j] \subseteq Nat
    /\ pc \in [Workers -> {"idle", "down"} \cup Ticking \cup Executing]
    /\ sweep \in [Workers -> SUBSET Entity]
    /\ batch \in [Workers -> SUBSET Jobs]
    /\ held \in [Workers -> Entity \cup {NoEntity}]
    /\ result \in [Workers -> Classification \cup {"NONE"}]
    /\ \A w \in Workers :
         /\ pc[w] \in Holding => held[w] \in Entity
         /\ pc[w] \in Settled => result[w] \in Classification
    /\ faults \in 0 .. MaxFaults

----------------------------------------------------------------------------
(* Initial states: the events have been ingested (each with a PENDING job  *)
(* that is due at once) and no worker has ticked yet.                      *)

Init ==
    /\ jobs = [j \in Jobs |->
                 [status |-> "PENDING", attemptCount |-> 0, lockedAt |-> 0]]
    /\ due = Jobs
    /\ expired = {}
    /\ eventStatus = [j \in Jobs |-> "PENDING"]
    /\ attempts = [j \in Jobs |-> [n \in {} |-> "IN_PROGRESS"]]
    /\ answers = [j \in Jobs |-> [n \in {} |-> "SUCCESS"]]
    /\ pc = [w \in Workers |-> "idle"]
    /\ sweep = [w \in Workers |-> {}]
    /\ batch = [w \in Workers |-> {}]
    /\ held = [w \in Workers |-> NoEntity]
    /\ result = [w \in Workers |-> "NONE"]
    /\ faults = 0

----------------------------------------------------------------------------
(* Helpers                                                                 *)

\* What a query with "take: batchSize" may return; the order is abstracted.
Take(rows) == {B \in SUBSET rows :
    Cardinality(B) = IF Cardinality(rows) < BatchSize
                     THEN Cardinality(rows) ELSE BatchSize}

\* The entity a SELECT of the job returns now.
Read(j) == [eventId |-> j, attemptCount |-> jobs[j].attemptCount,
            lockedAt |-> jobs[j].lockedAt]

Goto(w, step) == pc' = [pc EXCEPT ![w] = step]

\* The locals of the handler go out of scope.
Drop(w) == /\ held' = [held EXCEPT ![w] = NoEntity]
           /\ result' = [result EXCEPT ![w] = "NONE"]

\* Mutant: the transition leaves lockedBy and lockedAt as they are.
WriteStatus_KeepLock(j, status) ==
    /\ jobs' = [jobs EXCEPT ![j].status = status]
    /\ due' = IF status = "RETRYING" THEN due \ {j} ELSE due
    /\ expired' = expired \ {j}

\* The UPDATE that takes the job out of DELIVERING and clears its lock; a
\* requeued job gets a nextAttemptAt in the future.
WriteStatus(j, status) ==
    /\ jobs' = [jobs EXCEPT ![j].status = status, ![j].lockedAt = 0]
    /\ due' = IF status = "RETRYING" THEN due \ {j} ELSE due
    /\ expired' = expired \ {j}

\* Mutant: the UPDATE does not ask for status = IN_PROGRESS.
Closed_All(rows) == [n \in DOMAIN rows |-> "FAILED"]

\* attempts.closeAbandoned: every row still in progress becomes FAILED.
Closed(rows) == [n \in DOMAIN rows |->
    IF rows[n] = "IN_PROGRESS" THEN "FAILED" ELSE rows[n]]

\* attempts.start and attempts.complete write one row; the history of the
\* receiver's answers is written likewise.
WithRow(rows, number, status) == [n \in DOMAIN rows \cup {number} |->
    IF n = number THEN status ELSE rows[n]]

----------------------------------------------------------------------------
(* recoverStaleJobs, the first half of a tick                              *)

\* Mutant: the sweep looks for requeued jobs, not for abandoned ones.
FindStaleJobs_Requeued(w) ==
    /\ pc[w] = "idle"
    /\ \E B \in Take({j \in expired : jobs[j].status = "RETRYING"}) :
         sweep' = [sweep EXCEPT ![w] = {Read(j) : j \in B}]
    /\ Goto(w, "sweep")
    /\ UNCHANGED <<dbVars, answers, batch, held, result, faults>>

\* runOnce begins; findStaleJobs reads the DELIVERING rows past their lease.
FindStaleJobs(w) ==
    /\ pc[w] = "idle"
    /\ \E B \in Take({j \in expired : jobs[j].status = "DELIVERING"}) :
         sweep' = [sweep EXCEPT ![w] = {Read(j) : j \in B}]
    /\ Goto(w, "sweep")
    /\ UNCHANGED <<dbVars, answers, batch, held, result, faults>>

\* Mutant: recovery requeues the job and leaves its attempts open.
CloseAbandoned_Skip(w) ==
    /\ pc[w] = "sweep"
    /\ \E s \in sweep[w] : /\ held' = [held EXCEPT ![w] = s]
                           /\ sweep' = [sweep EXCEPT ![w] = @ \ {s}]
    /\ Goto(w, "release")
    /\ UNCHANGED <<dbVars, answers, batch, result, faults>>

\* The next stale row: its open attempts are closed before anything else.
CloseAbandoned(w) ==
    /\ pc[w] = "sweep"
    /\ \E s \in sweep[w] :
         /\ attempts' = [attempts EXCEPT ![s.eventId] = Closed(@)]
         /\ held' = [held EXCEPT ![w] = s]
         /\ sweep' = [sweep EXCEPT ![w] = @ \ {s}]
    /\ Goto(w, "release")
    /\ UNCHANGED <<jobs, due, expired, eventStatus, answers, batch, result, faults>>

\* The WHERE clause of releaseStaleJob: still the claim that was read.
StillStale(s) == /\ jobs[s.eventId].status = "DELIVERING"
                 /\ jobs[s.eventId].lockedAt = s.lockedAt

\* Where recovery sends a job: requeued while budget is left.
Recovered(s) == IF isExhausted(s.attemptCount) THEN "FAILED" ELSE "RETRYING"

ReleaseStaleJob(w) ==
    /\ pc[w] = "release"
    /\ StillStale(held[w])
    /\ WriteStatus(held[w].eventId, Recovered(held[w]))
    /\ Goto(w, "projectRelease")
    /\ UNCHANGED <<eventStatus, attempts, answers, sweep, batch, held, result, faults>>

\* affected = 0: somebody else moved the job on.
ReleaseRefused(w) ==
    /\ pc[w] = "release"
    /\ ~StillStale(held[w])
    /\ Drop(w)
    /\ Goto(w, "sweep")
    /\ UNCHANGED <<dbVars, answers, sweep, batch, faults>>

\* releaseStaleJob ends with updateEventStatus.
ProjectRelease(w) ==
    /\ pc[w] = "projectRelease"
    /\ eventStatus' = [eventStatus EXCEPT ![held[w].eventId] = Recovered(held[w])]
    /\ Drop(w)
    /\ Goto(w, "sweep")
    /\ UNCHANGED <<jobs, due, expired, attempts, answers, sweep, batch, faults>>

----------------------------------------------------------------------------
(* The second half of a tick: drain what is due                            *)

Claimable(j) == jobs[j].status \in CLAIMABLE_STATUSES /\ j \in due

FindDueJobIds(w) ==
    /\ pc[w] = "sweep"
    /\ sweep[w] = {}
    /\ \E B \in Take({j \in Jobs : Claimable(j)}) :
         batch' = [batch EXCEPT ![w] = B]
    /\ Goto(w, "loop")
    /\ UNCHANGED <<dbVars, answers, sweep, held, result, faults>>

\* The conditional UPDATE of claim() affects the row: one attempt is burnt.
Claim(w) ==
    /\ pc[w] = "loop"
    /\ \E j \in batch[w] :
         /\ Claimable(j)
         /\ jobs' = [jobs EXCEPT ![j] =
                       [status |-> "DELIVERING",
                        attemptCount |-> @.attemptCount + 1,
                        lockedAt |-> @.attemptCount + 1]]
         /\ expired' = expired \ {j}
         /\ held' = [held EXCEPT ![w] = [NoEntity EXCEPT !.eventId = j]]
         /\ batch' = [batch EXCEPT ![w] = @ \ {j}]
    /\ Goto(w, "read")
    /\ UNCHANGED <<due, eventStatus, attempts, answers, sweep, result, faults>>

\* affected = 0: the race for this job is lost.
ClaimRefused(w) ==
    /\ pc[w] = "loop"
    /\ \E j \in batch[w] :
         /\ ~Claimable(j)
         /\ batch' = [batch EXCEPT ![w] = @ \ {j}]
    /\ UNCHANGED <<dbVars, answers, pc, sweep, held, result, faults>>

\* Mutant: the entity is the row as it was before the claim's UPDATE.
ReadClaimed_Before(w) ==
    /\ pc[w] = "read"
    /\ held' = [held EXCEPT ![w] = [Read(@.eventId) EXCEPT !.attemptCount = @ - 1]]
    /\ Goto(w, "start")
    /\ UNCHANGED <<dbVars, answers, sweep, batch, result, faults>>

\* claim() reads the row back in a statement of its own.
ReadClaimed(w) ==
    /\ pc[w] = "read"
    /\ held' = [held EXCEPT ![w] = Read(@.eventId)]
    /\ Goto(w, "start")
    /\ UNCHANGED <<dbVars, answers, sweep, batch, result, faults>>

EndTick(w) ==
    /\ pc[w] = "loop"
    /\ batch[w] = {}
    /\ Goto(w, "idle")
    /\ UNCHANGED <<dbVars, answers, sweep, batch, held, result, faults>>

----------------------------------------------------------------------------
(* executeClaimedJob                                                       *)

\* Mutant: no UNIQUE(eventId, attemptNumber); a second row is admitted.
StartAttempt_NoUnique(w) ==
    LET j == held[w].eventId
    IN  /\ pc[w] = "start"
        /\ attempts' = [attempts EXCEPT ![j] =
                          WithRow(@, held[w].attemptCount, "IN_PROGRESS")]
        /\ Goto(w, "send")
        /\ UNCHANGED <<jobs, due, expired, eventStatus, answers, sweep, batch,
                       held, result, faults>>

\* attempts.start: UNIQUE(eventId, attemptNumber) admits the row.
StartAttempt(w) ==
    LET j == held[w].eventId
        n == held[w].attemptCount
    IN  /\ pc[w] = "start"
        /\ n \notin DOMAIN attempts[j]
        /\ attempts' = [attempts EXCEPT ![j] = WithRow(@, n, "IN_PROGRESS")]
        /\ Goto(w, "send")
        /\ UNCHANGED <<jobs, due, expired, eventStatus, answers, sweep, batch,
                       held, result, faults>>

\* The row exists: save() throws, runOnce catches, the job stays DELIVERING.
StartRefused(w) ==
    /\ pc[w] = "start"
    /\ held[w].attemptCount \in DOMAIN attempts[held[w].eventId]
    /\ Drop(w)
    /\ Goto(w, "loop")
    /\ UNCHANGED <<dbVars, answers, sweep, batch, faults>>

\* Mutant: the answer of the POST is not awaited.
Send_NotAwaited(w) ==
    /\ pc[w] = "send"
    /\ Goto(w, "complete")
    /\ UNCHANGED <<dbVars, answers, sweep, batch, held, result, faults>>

\* The POST: the receiver answers, refuses, times out or cannot be reached.
Send(w) ==
    /\ pc[w] = "send"
    /\ \E c \in Classification :
         /\ result' = [result EXCEPT ![w] = c]
         /\ answers' = [answers EXCEPT ![held[w].eventId] =
                          WithRow(@, held[w].attemptCount, c)]
    /\ Goto(w, "complete")
    /\ UNCHANGED <<dbVars, sweep, batch, held, faults>>

\* attempts.complete updates the row by its id, whatever it holds by now.
CompleteAttempt(w) ==
    LET status == IF result[w] = "SUCCESS" THEN "SUCCESS" ELSE "FAILED"
    IN  /\ pc[w] = "complete"
        /\ attempts' = [attempts EXCEPT ![held[w].eventId] =
                          WithRow(@, held[w].attemptCount, status)]
        /\ Goto(w, "transition")
        /\ UNCHANGED <<jobs, due, expired, eventStatus, answers, sweep, batch,
                       held, result, faults>>

Outcome(w) == Verdict(result[w], held[w].attemptCount)

\* markDelivered, markFailed or scheduleRetry: jobs.update(job.id, ...).
\* assertTransition precedes it, on constants: it never throws.
TransitionJob(w) ==
    /\ pc[w] = "transition"
    /\ WriteStatus(held[w].eventId, Outcome(w))
    /\ Goto(w, "project")
    /\ UNCHANGED <<eventStatus, attempts, answers, sweep, batch, held, result, faults>>

\* Mutant: the projection is not written.
ProjectStatus_Skip(w) ==
    /\ pc[w] = "project"
    /\ Drop(w)
    /\ Goto(w, "loop")
    /\ UNCHANGED <<dbVars, answers, sweep, batch, faults>>

\* transition() ends with updateEventStatus.
ProjectStatus(w) ==
    /\ pc[w] = "project"
    /\ eventStatus' = [eventStatus EXCEPT ![held[w].eventId] = Outcome(w)]
    /\ Drop(w)
    /\ Goto(w, "loop")
    /\ UNCHANGED <<jobs, due, expired, attempts, answers, sweep, batch, faults>>

----------------------------------------------------------------------------
(* Faults                                                                  *)

\* A statement of executeClaimedJob throws and runOnce catches it.  At "send"
\* it is the INSERT whose reply was lost: the row is there, nothing is sent.
JobThrows(w) ==
    /\ pc[w] \in Executing
    /\ faults < MaxFaults
    /\ faults' = faults + 1
    /\ Drop(w)
    /\ Goto(w, "loop")
    /\ UNCHANGED <<dbVars, answers, sweep, batch>>

\* A statement outside that try block throws: tick() gives the whole tick up.
TickThrows(w) ==
    /\ pc[w] \in Ticking
    /\ faults < MaxFaults
    /\ faults' = faults + 1
    /\ Drop(w)
    /\ sweep' = [sweep EXCEPT ![w] = {}]
    /\ batch' = [batch EXCEPT ![w] = {}]
    /\ Goto(w, "idle")
    /\ UNCHANGED <<dbVars, answers>>

\* The process dies: what it had in memory is gone.
Crash(w) ==
    /\ pc[w] # "down"
    /\ faults < MaxFaults
    /\ faults' = faults + 1
    /\ Drop(w)
    /\ sweep' = [sweep EXCEPT ![w] = {}]
    /\ batch' = [batch EXCEPT ![w] = {}]
    /\ Goto(w, "down")
    /\ UNCHANGED <<dbVars, answers>>

\* onApplicationBootstrap schedules the first tick.
Restart(w) ==
    /\ pc[w] = "down"
    /\ Goto(w, "idle")
    /\ UNCHANGED <<dbVars, answers, sweep, batch, held, result, faults>>

----------------------------------------------------------------------------
(* The passing of time                                                     *)

BackoffElapses(j) ==
    /\ j \notin due
    /\ due' = due \cup {j}
    /\ UNCHANGED <<jobs, expired, eventStatus, attempts, answers, workerVars, faults>>

LeaseExpires(j) ==
    /\ jobs[j].lockedAt # 0
    /\ j \notin expired
    /\ expired' = expired \cup {j}
    /\ UNCHANGED <<jobs, due, eventStatus, attempts, answers, workerVars, faults>>

----------------------------------------------------------------------------
Recover(w) == \/ FindStaleJobs(w)
              \/ CloseAbandoned(w)
              \/ ReleaseStaleJob(w)
              \/ ReleaseRefused(w)
              \/ ProjectRelease(w)

Drain(w) == \/ FindDueJobIds(w)
            \/ Claim(w)
            \/ ClaimRefused(w)
            \/ ReadClaimed(w)
            \/ EndTick(w)

Execute(w) == \/ StartAttempt(w)
              \/ StartRefused(w)
              \/ Send(w)
              \/ CompleteAttempt(w)
              \/ TransitionJob(w)
              \/ ProjectStatus(w)

Work(w) == Recover(w) \/ Drain(w) \/ Execute(w) \/ Restart(w)

Fault(w) == JobThrows(w) \/ TickThrows(w) \/ Crash(w)

Time == \E j \in Jobs : BackoffElapses(j) \/ LeaseExpires(j)

Next == \/ \E w \in Workers : Work(w) \/ Fault(w)
        \/ Time

Spec == Init /\ [][Next]_vars

\* The timers fire, the event loop runs, a request ends at its timeout, and a
\* dead process is started again.  Faults are never obliged to happen.
FairSpec == /\ Spec
            /\ \A w \in Workers : WF_vars(Work(w))
            /\ \A j \in Jobs : WF_vars(BackoffElapses(j)) /\ WF_vars(LeaseExpires(j))

----------------------------------------------------------------------------
(* Safety, however many workers run                                        *)

\* However workers crash, stall past their lease and come back, a job is
\* claimed at most twice per attempt number that may be retried, and once
\* more: recovery and the stalled executor can each requeue it once.  This is
\* the bound the counter burnt in claim() really gives.
AttemptBound ==
    \A j \in Jobs : jobs[j].attemptCount <= 2 * MaxAttempts - 1

\* Two processes are never in flight with the same attempt number of an event,
\* although claim() reads the number back in a second statement, when another
\* worker may have claimed the job again: the UNIQUE index stops one of them.
NoSharedAttempt ==
    \A v, w \in Workers :
        /\ v # w
        /\ pc[v] \in InFlight
        /\ pc[w] \in InFlight
        /\ held[v].eventId = held[w].eventId
        => held[v].attemptCount # held[w].attemptCount

\* A job that is not terminal can always be found again by a query of the
\* worker: it is claimable, or it is DELIVERING under the lock of its last
\* claim, which the lease will release ("every other state releases the lock").
NoJobStranded ==
    \A j \in Jobs :
        \/ /\ jobs[j].status \in CLAIMABLE_STATUSES \cup TERMINAL_STATUSES
           /\ jobs[j].lockedAt = 0
        \/ /\ jobs[j].status = "DELIVERING"
           /\ jobs[j].lockedAt = jobs[j].attemptCount
           /\ jobs[j].lockedAt # 0

\* How the receiver's answers about event j were classified.
Answered(j) == {answers[j][n] : n \in DOMAIN answers[j]}

\* No job is called DELIVERED unless the receiver accepted one of its attempts,
\* and none is given up unless the receiver refused it for good or the whole
\* budget was spent, across every recovery, overwrite and crash.
OutcomeHasAReason ==
    \A j \in Jobs :
        /\ jobs[j].status = "DELIVERED" => "SUCCESS" \in Answered(j)
        /\ jobs[j].status = "FAILED" => \/ "PERMANENT" \in Answered(j)
                                        \/ jobs[j].attemptCount >= MaxAttempts

----------------------------------------------------------------------------
(* Safety of one worker process                                            *)

\* From the start of an attempt until its outcome is written, the job is the
\* executor's: DELIVERING, at the attempt number the executor reports.
ExecutorOwnsJob ==
    \A w \in Workers : pc[w] \in {"start"} \cup InFlight =>
        LET row == jobs[held[w].eventId]
        IN  /\ row.status = "DELIVERING"
            /\ row.attemptCount = held[w].attemptCount

\* An attempt row is open only while its job is DELIVERING at that attempt, so
\* recovery still reaches it: no timeline shows an attempt that never ends.
OpenAttemptIsCurrent ==
    \A j \in Jobs : \A n \in DOMAIN attempts[j] :
        attempts[j][n] = "IN_PROGRESS" => /\ jobs[j].status = "DELIVERING"
                                          /\ jobs[j].attemptCount = n

\* "Attempt rows are immutable history once completed: nothing in the system
\* rewrites them" (delivery-attempt.entity.ts).
AttemptHistoryImmutable ==
    [][\A j \in Jobs : \A n \in DOMAIN attempts[j] :
         attempts[j][n] # "IN_PROGRESS" => /\ n \in DOMAIN attempts'[j]
                                           /\ attempts'[j][n] = attempts[j][n]]_vars

\* The job follows the state machine of delivery-status.enum.ts within budget.
Lifecycle == INSTANCE DeliveryLifecycle WITH
    status <- [j \in Jobs |-> jobs[j].status],
    attemptCount <- [j \in Jobs |-> jobs[j].attemptCount]

FollowsLifecycle == Lifecycle!Spec

\* "retries stay bounded at MAX_ATTEMPTS no matter how many times the process
\* crashes" (delivery.repository.ts, claim).
AttemptsWithinBudget ==
    \A j \in Jobs : jobs[j].attemptCount <= MaxAttempts

\* Worker w is between the two UPDATEs that move job j and its projection.
Projecting(w, j) == pc[w] \in {"project", "projectRelease"} /\ held[w].eventId = j

\* events.status is in step with a job that no worker delivers ("written inside
\* the same transaction as the job update", event.entity.ts), once no worker is
\* between the two UPDATEs.
ProjectionInStep ==
    \A j \in Jobs :
        jobs[j].status # "DELIVERING" => \/ eventStatus[j] = jobs[j].status
                                        \/ \E w \in Workers : Projecting(w, j)

\* The status of a job before the claim that burnt its last attempt number.
BeforeClaim(j) == IF jobs[j].attemptCount = 1 THEN "PENDING" ELSE "RETRYING"

\* As long as nothing has failed, it is in step, and an event whose job is being
\* delivered shows what the job was before its claim, from that UPDATE, which
\* does not touch events, until the outcome is projected: DELIVERING is never
\* projected, whatever number the attempt has.
ProjectionInStepUnlessFault ==
    faults = 0 =>
        /\ ProjectionInStep
        /\ \A j \in Jobs :
             jobs[j].status = "DELIVERING" => eventStatus[j] = BeforeClaim(j)

\* An attempt the history shows as SUCCESS belongs to a DELIVERED job, once no
\* worker is between closing the attempt and moving the job, and as long as
\* nothing has failed: a crash between the two leaves a SUCCESS that recovery
\* sends again or, with the budget spent, fails.
SuccessIsDelivered ==
    faults = 0 => \A j \in Jobs :
        (\E n \in DOMAIN attempts[j] : attempts[j][n] = "SUCCESS") =>
            \/ jobs[j].status = "DELIVERED"
            \/ \E w \in Workers : pc[w] = "transition" /\ held[w].eventId = j

----------------------------------------------------------------------------
(* Liveness                                                                *)

\* Once the faults are over, every job reaches a terminal status and stays.
EventuallySettled ==
    \A j \in Jobs : <>[](jobs[j].status \in TERMINAL_STATUSES)
=============================================================================
