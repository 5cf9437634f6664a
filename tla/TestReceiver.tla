---------------------------- MODULE TestReceiver ----------------------------
(***************************************************************************)
(* The bundled stand-in for a customer's endpoint (apps/server             *)
(* test-receiver): it counts the deliveries of each event, waits for the   *)
(* configured latency and answers as its mode says.  Deliveries overlap    *)
(* with each other and with changes of the configuration.  The totals that *)
(* getStats shows are sums of these counts and not kept.                   *)
(***************************************************************************)
EXTENDS Naturals

CONSTANTS EventIds,         \* values of the x-webhook-event-id header
          FailureStatuses,  \* what the dashboard may set failureStatus to
          DefaultStatus,    \* what the program sets it to (503)
          MaxDeliveries     \* bound on the deliveries there are

VARIABLES
    config,               \* ReceiverConfig
    deliveriesByEvent,    \* deliveries of each event since the last reset or
                          \* restart
    handling,             \* the deliveries that wait for the latency
    deliveries,           \* all deliveries so far, which number the requests
    refusals              \* history: of the deliveries since then, those that FAIL_ONCE refused, per event

ReceiverMode == {"SUCCESS", "FAIL_ONCE", "FAIL_ALWAYS"}

\* latencyMs is none, or shorter or longer than the sender waits.
ReceiverConfig == [mode : ReceiverMode, failureStatus : FailureStatuses,
                   latency : {"none", "short", "long"}]

\* A delivery that handleDelivery has counted and not answered yet; "counted"
\* is false when the counters were reset in the meantime.
Delivery == [id : 1 .. MaxDeliveries, eventId : EventIds, latency : {"short", "long"},
             previous : Nat, counted : BOOLEAN]

\* The type invariant.
TypeOK ==
    /\ config \in ReceiverConfig
    /\ deliveriesByEvent \in [EventIds -> Nat]
    /\ handling \in SUBSET Delivery
    /\ deliveries \in 0 .. MaxDeliveries
    /\ refusals \in [EventIds -> Nat]

NoDeliveries == [e \in EventIds |-> 0]

\* The program starts in mode SUCCESS and is then set to any other one.
Init ==
    /\ config \in ReceiverConfig
    /\ deliveriesByEvent = NoDeliveries
    /\ handling = {}
    /\ deliveries = 0
    /\ refusals = NoDeliveries

----------------------------------------------------------------------------
\* Mutant: the mode refuses until the event has been accepted once.
decide_Twice(previous) ==
    CASE config.mode = "FAIL_ALWAYS" -> config.failureStatus
      [] config.mode = "FAIL_ONCE" -> IF previous <= 1 THEN config.failureStatus ELSE 200
      [] config.mode = "SUCCESS" -> 200

\* The mode is read when the delivery is answered.
decide(previous) ==
    CASE config.mode = "FAIL_ALWAYS" -> config.failureStatus
      [] config.mode = "FAIL_ONCE" -> IF previous = 0 THEN config.failureStatus ELSE 200
      [] config.mode = "SUCCESS" -> 200

\* handleDelivery up to its first await: the counters of a delivery of e.
Count(e) ==
    /\ deliveries < MaxDeliveries
    /\ deliveries' = deliveries + 1
    /\ deliveriesByEvent' = [deliveriesByEvent EXCEPT ![e] = @ + 1]

\* FAIL_ONCE has answered a delivery that saw "previous" others before it.
Refuse(e, previous, counted) ==
    refusals' = IF counted /\ config.mode = "FAIL_ONCE" /\ decide(previous) # 200
                THEN [refusals EXCEPT ![e] = @ + 1] ELSE refusals

\* Without a latency there is no await: the answer is part of the same step.
AnswerAtOnce(e) ==
    /\ config.latency = "none"
    /\ Count(e)
    /\ Refuse(e, deliveriesByEvent[e], TRUE)
    /\ UNCHANGED <<config, handling>>

\* Mutant: a delivery that has to wait is not counted.
Receive_NotCounted(e) ==
    /\ config.latency # "none"
    /\ deliveries < MaxDeliveries
    /\ deliveries' = deliveries + 1
    /\ handling' = handling \cup
         {[id |-> deliveries + 1, eventId |-> e, latency |-> config.latency,
           previous |-> deliveriesByEvent[e], counted |-> TRUE]}
    /\ UNCHANGED <<config, deliveriesByEvent, refusals>>

\* The count of earlier deliveries is kept across the await.
Receive(e) ==
    /\ config.latency # "none"
    /\ Count(e)
    /\ handling' = handling \cup
         {[id |-> deliveries + 1, eventId |-> e, latency |-> config.latency,
           previous |-> deliveriesByEvent[e], counted |-> TRUE]}
    /\ UNCHANGED <<config, refusals>>

\* The latency is over.
Answer(d) ==
    /\ d \in handling
    /\ handling' = handling \ {d}
    /\ Refuse(d.eventId, d.previous, d.counted)
    /\ UNCHANGED <<config, deliveriesByEvent, deliveries>>

\* Mutant: failureStatus is not validated.
UpdateConfig_Unvalidated(new, resetState) ==
    /\ config' = [new EXCEPT !.failureStatus = 200]
    /\ UNCHANGED <<deliveriesByEvent, handling, deliveries, refusals>>

\* updateConfig: any part of the configuration, and the counters if asked to.
\* The deliveries in progress are not touched.
UpdateConfig(new, resetState) ==
    /\ config' = new
    /\ IF resetState
       THEN /\ deliveriesByEvent' = NoDeliveries
            /\ refusals' = NoDeliveries
            /\ handling' = {[d EXCEPT !.counted = FALSE] : d \in handling}
       ELSE UNCHANGED <<deliveriesByEvent, refusals, handling>>
    /\ UNCHANGED deliveries

\* The process is started anew: what the service knows is in its memory only, and
\* whoever awaits an answer loses the connection.
Restart ==
    /\ config' = [mode |-> "SUCCESS", failureStatus |-> DefaultStatus, latency |-> "none"]
    /\ deliveriesByEvent' = NoDeliveries
    /\ refusals' = NoDeliveries
    /\ handling' = {}
    /\ UNCHANGED deliveries

----------------------------------------------------------------------------
\* FAIL_ONCE refuses an event at most once between two resets or restarts, also
\* when its deliveries overlap ("Fails the first delivery of an event, then
\* succeeds", ReceiverControls.tsx).
FailOnceRefusesOnce == \A e \in EventIds : refusals[e] <= 1
=============================================================================
