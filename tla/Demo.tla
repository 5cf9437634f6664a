-------------------------------- MODULE Demo --------------------------------
(***************************************************************************)
(* The demo scenarios of the README: one event that the engine delivers to *)
(* the bundled test receiver.  RetryPolicy is the engine's side, with an   *)
(* attempt that now takes time: from the POST to the receiver's answer,    *)
(* the sender's timeout or the death of the worker.  TestReceiver is the   *)
(* other side; a request the sender has given up goes on there.            *)
(*                                                                         *)
(* WEBHOOK_TARGET_URL may name another endpoint, which answers anything;   *)
(* the engine knows no more of it than the answer.                         *)
(***************************************************************************)
EXTENDS RetryPolicy

CONSTANTS Event,            \* the event of the demo
          Others,           \* other events the receiver hears of
          FailureStatuses,  \* what the receiver's failureStatus may be set to
          DefaultStatus,    \* what it is set to when the receiver starts
          MaxDeliveries,    \* bound on deliveries at the receiver
          MaxUpdates        \* bound on changes of its configuration

ASSUME DemoAssumption == /\ Event \notin Others
                         /\ FailureStatuses \subseteq StatusCodes \cap 400 .. 599
                         /\ DefaultStatus \in FailureStatuses
                         /\ 200 \in StatusCodes
                         /\ MaxDeliveries \in Nat
                         /\ MaxUpdates \in Nat

VARIABLES config, deliveriesByEvent, handling, deliveries, refusals,   \* of the receiver
          target,     \* what WEBHOOK_TARGET_URL names
          posted,     \* the delivery whose answer the engine awaits, 0 if none
          updates,    \* changes of the configuration so far
          disturbed,  \* history: a worker died or a request timed out since
                      \* the event was submitted
          setAnew     \* history: the receiver was set anew or restarted

Receiver == INSTANCE TestReceiver WITH EventIds <- {Event} \cup Others

engine   == <<listed, fractional, status, attempt, answers, waits>>
receiver == <<config, deliveriesByEvent, handling, deliveries, refusals>>
demo     == <<engine, receiver, target, posted, updates, disturbed, setAnew>>

\* With the bundled receiver no delays are listed: it cannot tell.
DemoInit ==
    /\ Init
    /\ Receiver!Init
    /\ \/ target = "bundled" /\ listed = <<>>
       \/ target = "elsewhere" /\ config.mode = "SUCCESS" /\ config.latency = "none"
    /\ posted = 0
    /\ updates = 0
    /\ disturbed = FALSE
    /\ setAnew = FALSE

----------------------------------------------------------------------------
\* The POST, answered before anything else happens.
PostAnsweredAtOnce ==
    /\ target = "bundled"
    /\ posted = 0
    /\ Receiver!AnswerAtOnce(Event)
    /\ Attempt(Receiver!decide(deliveriesByEvent[Event]))
    /\ UNCHANGED <<target, posted, updates, disturbed, setAnew>>

\* The POST to another endpoint, and how it ended.
PostElsewhere ==
    /\ target = "elsewhere"
    /\ \E answer \in StatusCodes \cup {NoAnswer} : Attempt(answer)
    /\ UNCHANGED <<receiver, target, posted, updates, disturbed, setAnew>>

\* The POST, to a receiver that takes its time.
Post ==
    /\ target = "bundled"
    /\ posted = 0
    /\ status \in CLAIMABLE_STATUSES
    /\ Receiver!Receive(Event)
    /\ posted' = deliveries'
    /\ UNCHANGED <<engine, target, updates, disturbed, setAnew>>

\* The answer arrives in time.
Answered(d) ==
    /\ d.id = posted
    /\ d.latency = "short"
    /\ Receiver!Answer(d)
    /\ Attempt(Receiver!decide(d.previous))
    /\ posted' = 0
    /\ UNCHANGED <<target, updates, disturbed, setAnew>>

\* Nobody waits for the answer any more.
AnsweredInVain(d) ==
    /\ d.id # posted
    /\ Receiver!Answer(d)
    /\ UNCHANGED <<engine, target, posted, updates, disturbed, setAnew>>

\* WEBHOOK_TIMEOUT_MS are over: the sender aborts its request.
TimesOut ==
    /\ \E d \in handling : d.id = posted /\ d.latency = "long"
    /\ Attempt(NoAnswer)
    /\ posted' = 0
    /\ disturbed' = TRUE
    /\ UNCHANGED <<receiver, target, updates, setAnew>>

\* The worker dies, before its POST or while it waits; the receiver runs in
\* another process (WORKER_ENABLED=false), or there would be a ServerRestarts.
Dies ==
    /\ WorkerDies
    /\ posted' = 0
    /\ disturbed' = TRUE
    /\ UNCHANGED <<receiver, target, updates, setAnew>>

\* The process of the receiver ends and is started again.  An attempt in progress
\* is burnt: its worker dies as well, or its request breaks off.  The engine's
\* state is in the database.
ServerRestarts ==
    /\ target = "bundled"
    /\ Receiver!Restart
    /\ \/ WorkerDies
       \/ posted = 0 /\ UNCHANGED engine
    /\ posted' = 0
    /\ disturbed' = TRUE
    /\ setAnew' = TRUE
    /\ UNCHANGED <<target, updates>>

\* Somebody changes the receiver's settings on the dashboard.
SetReceiver ==
    /\ target = "bundled"
    /\ updates < MaxUpdates
    /\ updates' = updates + 1
    /\ \E new \in Receiver!ReceiverConfig, resetState \in BOOLEAN :
         Receiver!UpdateConfig(new, resetState)
    /\ setAnew' = TRUE
    /\ UNCHANGED <<engine, target, posted, disturbed>>

\* The receiver hears of another event.
OtherDelivery(e) ==
    /\ target = "bundled"
    /\ Receiver!AnswerAtOnce(e) \/ Receiver!Receive(e)
    /\ UNCHANGED <<engine, target, posted, updates, disturbed, setAnew>>

DemoNext == \/ PostAnsweredAtOnce
            \/ PostElsewhere
            \/ Post
            \/ TimesOut
            \/ Dies
            \/ ServerRestarts
            \/ SetReceiver
            \/ \E d \in handling : Answered(d) \/ AnsweredInVain(d)
            \/ \E e \in Others : OtherDelivery(e)

DemoSpec == DemoInit /\ [][DemoNext]_demo

----------------------------------------------------------------------------
\* The type invariants of both sides.
DemoTypeOK == TypeOK /\ Receiver!TypeOK /\ target \in {"bundled", "elsewhere"}

FailOnceRefusesOnce == Receiver!FailOnceRefusesOnce

\* What the README's table of demo scenarios shows for a mode: how the event
\* ends and what the receiver answered.
Scenario ==
    LET refused == config.failureStatus
        final   == classifyHttpStatus(refused) = "PERMANENT"
    IN  CASE config.mode = "SUCCESS" -> <<"DELIVERED", <<200>>>>
          [] config.mode # "SUCCESS" /\ (final \/ MaxAttempts = 1) ->
               <<"FAILED", <<refused>>>>
          [] config.mode = "FAIL_ONCE" /\ ~final /\ MaxAttempts > 1 ->
               <<"DELIVERED", <<refused, 200>>>>
          [] config.mode = "FAIL_ALWAYS" /\ ~final /\ MaxAttempts > 1 ->
               <<"FAILED", [i \in 1 .. MaxAttempts |-> refused]>>

\* What a mode answers to attempt i: FAIL_ONCE refuses only the first attempt
\* that is answered at all, if any.
AnswersOfMode(i) ==
    CASE config.mode = "SUCCESS" -> {200}
      [] config.mode = "FAIL_ALWAYS" -> {config.failureStatus}
      [] config.mode = "FAIL_ONCE" ->
           IF \E j \in 1 .. i - 1 : answers[j] # NoAnswer
           THEN {200} ELSE {200, config.failureStatus}

\* The demo goes as the README says, for every failure status, while the receiver
\* stays as it is set and no worker dies and no request times out.  When workers
\* die and requests time out, every attempt that is answered is still answered
\* as the mode says, though earlier requests go on at the receiver, and nothing
\* is delivered that is to fail always.  Of a receiver that is set anew or that
\* restarts, and with that is set to SUCCESS, before the event has ended this says
\* nothing: the answers are of both settings.
AsTheReadmeShows ==
    target = "bundled" /\ ~setAnew =>
        /\ status \in TERMINAL_STATUSES /\ ~disturbed => <<status, answers>> = Scenario
        /\ \A i \in 1 .. attempt : answers[i] \in {NoAnswer} \cup AnswersOfMode(i)
        /\ config.mode = "FAIL_ALWAYS" => status # "DELIVERED"

\* The receiver sees an event no more often than its attempt number says, and so
\* at most MAX_ATTEMPTS times, whatever timed out or died: this is what the
\* attempt that is burnt before the POST is for.
SeenWithinAttempts ==
    deliveriesByEvent[Event] <= attempt + IF posted = 0 THEN 0 ELSE 1
=============================================================================
