------------------------------ MODULE Notices ------------------------------
(***************************************************************************)
(* What the delivery engine tells of its work: the messages that           *)
(* delivery.service and events.service publish (realtime.publisher), on    *)
(* top of Delivery, and the worker process that is asked to stop.          *)
(*                                                                         *)
(* The code publishes when the statement before it has returned.  Between  *)
(* the commit and that return other processes run and this one may die, so *)
(* "saying" holds what a worker says next; it takes no other step before.  *)
(* A message is what a RealtimeEvent says of the state of its event.       *)
(***************************************************************************)
EXTENDS Delivery

VARIABLES
    saying,       \* what each worker is about to publish, or Nothing
    accepting,    \* events whose EVENT_ACCEPTED is not published yet
    said,         \* history: the last message about each event
    untold,       \* history: events that changed since their last message
    stopped,      \* DeliveryWorker.stopped
    shared        \* history: two workers have had the same job in hand

speech == <<saying, accepting, said, untold, stopped, shared>>

notices == <<vars, speech>>

Message == [eventId : Jobs, status : DeliveryStatus, attemptNumber : Nat]

Nothing == [eventId |-> None, status |-> "PENDING", attemptNumber |-> 0]

\* EVENT_ACCEPTED.
AcceptedMessage(j) == [Nothing EXCEPT !.eventId = j]

\* The type invariant.
NoticesTypeOK ==
    /\ TypeOK
    /\ saying \in [Workers -> Message \cup {Nothing}]
    /\ accepting \in SUBSET Jobs
    /\ said \in [Jobs -> Message]
    /\ untold \in SUBSET Jobs
    /\ stopped \in [Workers -> BOOLEAN]
    /\ shared \in BOOLEAN

NoticesInit ==
    /\ Init
    /\ saying = [w \in Workers |-> Nothing]
    /\ accepting = Jobs
    /\ said = [j \in Jobs |-> AcceptedMessage(j)]
    /\ untold = Jobs
    /\ stopped = [w \in Workers |-> FALSE]
    /\ shared = FALSE

----------------------------------------------------------------------------
(* The steps of Delivery, and what is said after each of them              *)

\* The events whose rows a step changes.
Changed == {j \in Jobs : \/ jobs'[j] # jobs[j]
                         \/ eventStatus'[j] # eventStatus[j]
                         \/ attempts'[j] # attempts[j]}

\* Two workers have the same job in hand after the step.
Sharing == \E v, w \in Workers : /\ v # w
                                 /\ held'[v] # NoEntity
                                 /\ held'[v].eventId = held'[w].eventId

\* A step of worker w, which says m when it has returned.
Then(w, m) ==
    /\ saying[w] = Nothing
    /\ saying' = [saying EXCEPT ![w] = m]
    /\ untold' = untold \cup Changed
    /\ shared' = (shared \/ Sharing)
    /\ UNCHANGED <<accepting, said, stopped>>

\* Mutant: the message is made from the locals of the next job.
Saying_Late(w, status) == [eventId |-> held'[w].eventId, status |-> status,
                           attemptNumber |-> held'[w].attemptCount]

\* What worker w publishes of the job in its hands.
Saying(w, status) == [eventId |-> held[w].eventId, status |-> status,
                      attemptNumber |-> held[w].attemptCount]

\* DELIVERY_STARTED.
Started(w) == StartAttempt(w) /\ Then(w, Saying(w, "DELIVERING"))

\* publishAttemptFailed: a failure that may be retried is told while the job is
\* still DELIVERING.
Completed(w) ==
    /\ CompleteAttempt(w)
    /\ Then(w, IF result[w] = "RETRYABLE" THEN Saying(w, "DELIVERING") ELSE Nothing)

\* Mutant: the message is sent as soon as the job has moved.
Moved_Told(w) == TransitionJob(w) /\ Then(w, Saying(w, Outcome(w)))

\* The job has moved and its event has not: nothing is said yet.
Moved(w) == TransitionJob(w) /\ Then(w, Nothing)

\* DELIVERY_SUCCEEDED, DELIVERY_FAILED, DELIVERY_EXHAUSTED or
\* DELIVERY_RETRY_SCHEDULED.
Concluded(w) == ProjectStatus(w) /\ Then(w, Saying(w, Outcome(w)))

\* Mutant: a release is not published.
Released_Silent(w) == ProjectRelease(w) /\ Then(w, Nothing)

\* DELIVERY_RECOVERED, or DELIVERY_EXHAUSTED.
Released(w) == ProjectRelease(w) /\ Then(w, Saying(w, Recovered(held[w])))

\* Nothing is published after the other statements, a refused release included;
\* a worker that was asked to stop begins no tick and claims no job.
Silent(w) ==
    /\ \/ ~stopped[w] /\ (FindStaleJobs(w) \/ Claim(w) \/ ClaimRefused(w))
       \/ CloseAbandoned(w) \/ ReleaseStaleJob(w) \/ ReleaseRefused(w)
       \/ FindDueJobIds(w) \/ ReadClaimed(w) \/ EndTick(w)
       \/ StartRefused(w) \/ Send(w)
    /\ Then(w, Nothing)

----------------------------------------------------------------------------
(* RealtimePublisher.publish                                               *)

Heard(m) == /\ said' = [said EXCEPT ![m.eventId] = m]
            /\ untold' = untold \ {m.eventId}

\* The statement has returned: the worker publishes.
Publish(w) ==
    /\ saying[w] # Nothing
    /\ saying' = [saying EXCEPT ![w] = Nothing]
    /\ Heard(saying[w])
    /\ UNCHANGED <<vars, accepting, stopped, shared>>

\* ingest() publishes after its COMMIT, when a worker may have the job already.
PublishAccepted(j) ==
    /\ j \in accepting
    /\ accepting' = accepting \ {j}
    /\ Heard(AcceptedMessage(j))
    /\ UNCHANGED <<vars, saying, stopped, shared>>

\* The emit throws, which publish() swallows, or the process that accepted the
\* event dies.
Unheard ==
    /\ faults < MaxFaults
    /\ faults' = faults + 1
    /\ \/ \E w \in Workers : /\ saying[w] # Nothing
                             /\ saying' = [saying EXCEPT ![w] = Nothing]
                             /\ UNCHANGED accepting
       \/ \E j \in accepting : /\ accepting' = accepting \ {j}
                               /\ UNCHANGED saying
    /\ UNCHANGED <<dbVars, answers, workerVars, said, untold, stopped, shared>>

----------------------------------------------------------------------------
(* The worker process                                                      *)

\* onModuleDestroy: the timer is cleared; a tick in progress goes on.
Stop(w) ==
    /\ pc[w] # "down"
    /\ ~stopped[w]
    /\ stopped' = [stopped EXCEPT ![w] = TRUE]
    /\ UNCHANGED <<vars, saying, accepting, said, untold, shared>>

\* "if (this.stopped) break;"
Break(w) ==
    /\ stopped[w]
    /\ pc[w] = "loop"
    /\ batch[w] # {}
    /\ batch' = [batch EXCEPT ![w] = {}]
    /\ Goto(w, "idle")
    /\ UNCHANGED <<dbVars, answers, sweep, held, result, faults>>
    /\ Then(w, Nothing)

\* A stopped worker that is idle exits.
Exit(w) ==
    /\ stopped[w]
    /\ saying[w] = Nothing
    /\ pc[w] = "idle"
    /\ Goto(w, "down")
    /\ stopped' = [stopped EXCEPT ![w] = FALSE]
    /\ UNCHANGED <<dbVars, answers, sweep, batch, held, result, faults,
                   saying, accepting, said, untold, shared>>

Dies(w) == /\ Crash(w)
           /\ saying' = [saying EXCEPT ![w] = Nothing]
           /\ stopped' = [stopped EXCEPT ![w] = FALSE]
           /\ UNCHANGED <<accepting, said, untold, shared>>

\* The reply of the last statement of a job is lost: runOnce catches the error.
ReplyLost(w) ==
    /\ pc[w] = "loop"
    /\ saying[w] # Nothing
    /\ faults < MaxFaults
    /\ faults' = faults + 1
    /\ UNCHANGED <<dbVars, answers, workerVars>>

\* A statement throws, or its reply is lost with what would have been said.
Throws(w) ==
    /\ \/ JobThrows(w) /\ (pc[w] = "send" => saying[w] # Nothing)
       \/ TickThrows(w) /\ (pc[w] = "loop" => saying[w] = Nothing)
       \/ ReplyLost(w)
    /\ saying' = [saying EXCEPT ![w] = Nothing]
    /\ UNCHANGED <<accepting, said, untold, stopped, shared>>

----------------------------------------------------------------------------
Engine(w) == \/ Silent(w) \/ Started(w) \/ Completed(w) \/ Moved(w)
             \/ Concluded(w) \/ Released(w) \/ Publish(w)
             \/ Stop(w) \/ Break(w) \/ Exit(w)
             \/ Restart(w) /\ UNCHANGED speech

NoticesNext == \/ \E w \in Workers : Engine(w) \/ Dies(w) \/ Throws(w)
               \/ \E j \in Jobs : PublishAccepted(j)
               \/ Unheard
               \/ Time /\ UNCHANGED speech

NoticesSpec == NoticesInit /\ [][NoticesNext]_notices

----------------------------------------------------------------------------
\* How far an event has come: a claim, then what became of it.
Progress(status, attempt) == 2 * attempt + IF status = "DELIVERING" THEN 0 ELSE 1

\* "Each transition writes the database first and then emits a realtime event,
\* so the dashboard can never show a state the database does not already hold"
\* (delivery.service.ts): the job has come at least as far as the last message
\* says, and an outcome that was told is what job and event show until the next
\* claim.  It holds across crashes, lost messages, late ones and stops, as long
\* as no two workers have had the same job in hand.
ToldIsReadable ==
    ~shared => \A j \in Jobs :
        LET m   == said[j]
            row == jobs[j]
        IN  /\ Progress(m.status, m.attemptNumber)
                 <= Progress(row.status, row.attemptCount)
            /\ m.status # "DELIVERING" =>
                 \/ m.attemptNumber < row.attemptCount
                 \/ row.status = m.status /\ eventStatus[j] = m.status

\* Worker w has still to do with event j.
Busy(w, j) == held[w].eventId = j \/ saying[w].eventId = j

\* As long as nothing has failed, every change of an event's rows is followed by
\* a message about it, so that the dashboard reads again: what a stalled worker
\* overwrites, what a refused release has closed without a message of its own,
\* and what a worker does between being asked to stop and its exit.
EveryChangeIsTold ==
    faults = 0 => \A j \in untold : \/ j \in accepting
                                    \/ \E w \in Workers : Busy(w, j)
=============================================================================
