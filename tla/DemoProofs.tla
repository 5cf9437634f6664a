----------------------------- MODULE DemoProofs -----------------------------
(***************************************************************************)
(* The demo, proved for every budget, every other event at the receiver    *)
(* and every number of deliveries and changes: the engine's side is the    *)
(* retry policy, and what overlapping deliveries, timeouts, deaths and     *)
(* resets can do to the receiver's counts.                                 *)
(***************************************************************************)
EXTENDS Demo, RetryPolicyProofs

----------------------------------------------------------------------------
(* The receiver's side                                                     *)

EventIds == {Event} \cup Others

\* A delivery that FAIL_ONCE would refuse, should it be answered in that mode.
First(d, e) == d.counted /\ d.eventId = e /\ d.previous = 0

\* Of the deliveries of an event since the last reset, the first is one: waiting
\* for the latency, refused, or answered otherwise.
OneFirst ==
    \A e \in EventIds :
        /\ refusals[e] \in {0, 1}
        /\ refusals[e] = 1 => deliveriesByEvent[e] > 0
        /\ \A d \in handling : First(d, e) => deliveriesByEvent[e] > 0 /\ refusals[e] = 0
        /\ \A c, d \in handling : First(c, e) /\ First(d, e) => c = d

ReceiverInv == Receiver!TypeOK /\ OneFirst

\* What a delivery may be answered with, and when FAIL_ONCE refuses it.
LEMMA DecideType ==
    ASSUME Receiver!TypeOK, NEW previous \in Nat
    PROVE  /\ Receiver!decide(previous) \in StatusCodes
           /\ config.mode = "FAIL_ONCE" /\ Receiver!decide(previous) # 200 => previous = 0
BY DemoAssumption
   DEF Receiver!TypeOK, Receiver!ReceiverConfig, Receiver!ReceiverMode, Receiver!decide

\* A delivery without latency is counted and answered.
LEMMA AtOnceStep ==
    ASSUME ReceiverInv, NEW e \in EventIds, Receiver!AnswerAtOnce(e)
    PROVE  /\ ReceiverInv'
           /\ deliveriesByEvent' = [deliveriesByEvent EXCEPT ![e] = @ + 1]
<1> USE DEF EventIds
<1>1. /\ deliveriesByEvent' = [deliveriesByEvent EXCEPT ![e] = @ + 1]
      /\ deliveries' = deliveries + 1
      /\ deliveries' \in 0 .. MaxDeliveries
      /\ UNCHANGED <<config, handling>>
  BY DemoAssumption DEF Receiver!AnswerAtOnce, Receiver!Count, ReceiverInv, Receiver!TypeOK
<1>2. deliveriesByEvent[e] \in Nat
  BY DEF ReceiverInv, Receiver!TypeOK
<1>3. \/ refusals' = refusals
      \/ refusals' = [refusals EXCEPT ![e] = @ + 1] /\ deliveriesByEvent[e] = 0
  BY <1>2, DecideType DEF Receiver!AnswerAtOnce, Receiver!Refuse, ReceiverInv
<1>4. Receiver!TypeOK'
  BY <1>1, <1>3 DEF ReceiverInv, Receiver!TypeOK
<1>5. OneFirst'
  BY <1>1, <1>2, <1>3 DEF ReceiverInv, OneFirst, First, Receiver!TypeOK
<1>6. QED
  BY <1>1, <1>4, <1>5 DEF ReceiverInv

\* A delivery is counted and waits for the latency.
LEMMA ReceiveStep ==
    ASSUME ReceiverInv, NEW e \in EventIds, Receiver!Receive(e)
    PROVE  /\ ReceiverInv'
           /\ deliveriesByEvent' = [deliveriesByEvent EXCEPT ![e] = @ + 1]
           /\ deliveries' \in 1 .. MaxDeliveries
<1> USE DEF EventIds
<1>1. PICK new : /\ new = [id |-> deliveries + 1, eventId |-> e, latency |-> config.latency,
                          previous |-> deliveriesByEvent[e], counted |-> TRUE]
                 /\ handling' = handling \cup {new}
  BY DEF Receiver!Receive
<1>2. /\ deliveriesByEvent' = [deliveriesByEvent EXCEPT ![e] = @ + 1]
      /\ deliveries' = deliveries + 1
      /\ deliveries' \in 1 .. MaxDeliveries
      /\ UNCHANGED <<config, refusals>>
  BY DemoAssumption DEF Receiver!Receive, Receiver!Count, ReceiverInv, Receiver!TypeOK
<1>3. /\ new \in Receiver!Delivery
      /\ new.eventId = e
      /\ new.previous = deliveriesByEvent[e]
      /\ deliveriesByEvent[e] \in Nat
  BY <1>1, <1>2 DEF Receiver!Receive, ReceiverInv, Receiver!TypeOK, Receiver!ReceiverConfig,
                    Receiver!Delivery
<1>4. Receiver!TypeOK'
  <2>1. deliveriesByEvent' \in [EventIds -> Nat]
    BY <1>2 DEF ReceiverInv, Receiver!TypeOK
  <2>2. handling' \in SUBSET Receiver!Delivery
    BY <1>1, <1>3 DEF ReceiverInv, Receiver!TypeOK
  <2>3. QED
    BY <1>2, <2>1, <2>2 DEF ReceiverInv, Receiver!TypeOK
<1>5. OneFirst'
  <2> SUFFICES ASSUME NEW x \in EventIds
               PROVE  /\ refusals'[x] \in {0, 1}
                      /\ refusals'[x] = 1 => deliveriesByEvent'[x] > 0
                      /\ \A d \in handling' : First(d, x) =>
                           deliveriesByEvent'[x] > 0 /\ refusals'[x] = 0
                      /\ \A c, d \in handling' : First(c, x) /\ First(d, x) => c = d
    BY DEF OneFirst, First
  <2>1. /\ deliveriesByEvent[x] \in Nat
        /\ deliveriesByEvent'[x] = IF x = e THEN deliveriesByEvent[x] + 1
                                   ELSE deliveriesByEvent[x]
        /\ refusals'[x] = refusals[x]
    BY <1>2, <1>3 DEF ReceiverInv, Receiver!TypeOK
  <2>2. First(new, x) => x = e /\ deliveriesByEvent[e] = 0
    BY <1>3 DEF First
  <2>3. /\ refusals[x] \in {0, 1}
        /\ refusals[x] = 1 => deliveriesByEvent[x] > 0
        /\ \A d \in handling : First(d, x) => deliveriesByEvent[x] > 0 /\ refusals[x] = 0
        /\ \A c, d \in handling : First(c, x) /\ First(d, x) => c = d
    BY DEF ReceiverInv, OneFirst
  <2>4. CASE First(new, x)
    <3>1. /\ x = e /\ deliveriesByEvent[x] = 0 /\ refusals[x] = 0
          /\ deliveriesByEvent'[x] = 1
          /\ \A d \in handling : ~First(d, x)
      BY <2>1, <2>2, <2>3, <2>4
    <3>2. \A d \in handling' : First(d, x) => d = new
      BY <1>1, <3>1
    <3>3. refusals'[x] = 0 /\ deliveriesByEvent'[x] = 1
      BY <2>1, <3>1
    <3>4. QED
      BY <3>2, <3>3
  <2>5. CASE ~First(new, x)
    <3>1. \A d \in handling' : First(d, x) => d \in handling
      BY <1>1, <2>5
    <3>2. QED
      BY <2>1, <2>3, <3>1
  <2>6. QED
    BY <2>4, <2>5
<1>6. QED
  BY <1>2, <1>4, <1>5 DEF ReceiverInv

\* The latency is over, and a first delivery may be refused.
LEMMA AnswerStep ==
    ASSUME ReceiverInv, NEW d \in handling, Receiver!Answer(d)
    PROVE  ReceiverInv' /\ UNCHANGED deliveriesByEvent
<1> USE DEF EventIds
<1>1. /\ handling' = handling \ {d}
      /\ UNCHANGED <<config, deliveriesByEvent, deliveries>>
  BY DEF Receiver!Answer
<1>2. d.eventId \in EventIds /\ d.previous \in Nat
  BY DEF ReceiverInv, Receiver!TypeOK, Receiver!Delivery
<1>3. \/ refusals' = refusals
      \/ refusals' = [refusals EXCEPT ![d.eventId] = @ + 1] /\ First(d, d.eventId)
  BY <1>2, DecideType DEF Receiver!Answer, Receiver!Refuse, ReceiverInv, First
<1>4. Receiver!TypeOK'
  BY <1>1, <1>2, <1>3 DEF ReceiverInv, Receiver!TypeOK
<1>5. OneFirst'
  BY <1>1, <1>2, <1>3 DEF ReceiverInv, OneFirst, Receiver!TypeOK
<1>6. QED
  BY <1>1, <1>4, <1>5 DEF ReceiverInv

\* The receiver is set anew; a reset forgets the deliveries in progress too.
LEMMA UpdateStep ==
    ASSUME ReceiverInv, NEW new \in Receiver!ReceiverConfig, NEW resetState \in BOOLEAN,
           Receiver!UpdateConfig(new, resetState)
    PROVE  /\ ReceiverInv'
           /\ deliveriesByEvent'[Event] \in Nat
           /\ deliveriesByEvent'[Event] <= deliveriesByEvent[Event]
<1> USE DEF EventIds
<1>1. CASE ~resetState
  BY <1>1 DEF Receiver!UpdateConfig, ReceiverInv, OneFirst, First, Receiver!TypeOK
<1>2. CASE resetState
  <2>1. /\ deliveriesByEvent' = [e \in EventIds |-> 0]
        /\ refusals' = [e \in EventIds |-> 0]
        /\ handling' = {[d EXCEPT !.counted = FALSE] : d \in handling}
        /\ config' = new
        /\ deliveries' = deliveries
    BY <1>2 DEF Receiver!UpdateConfig, Receiver!NoDeliveries
  <2>2. \A d \in handling' : d \in Receiver!Delivery /\ ~d.counted
    BY <2>1 DEF ReceiverInv, Receiver!TypeOK, Receiver!Delivery
  <2>3. ReceiverInv'
    BY <2>1, <2>2 DEF ReceiverInv, OneFirst, First, Receiver!TypeOK
  <2>4. QED
    BY <2>1, <2>3 DEF ReceiverInv, Receiver!TypeOK
<1>3. QED
  BY <1>1, <1>2

\* After a restart nothing has been delivered or refused.
LEMMA RestartStep ==
    ASSUME ReceiverInv, Receiver!Restart
    PROVE  ReceiverInv' /\ deliveriesByEvent'[Event] = 0
<1>1. /\ deliveriesByEvent' = [e \in EventIds |-> 0]
      /\ refusals' = [e \in EventIds |-> 0]
      /\ handling' = {} /\ deliveries' = deliveries
  BY DEF Receiver!Restart, Receiver!NoDeliveries, EventIds
<1>2. config' \in Receiver!ReceiverConfig
  BY DemoAssumption DEF Receiver!Restart, Receiver!ReceiverConfig, Receiver!ReceiverMode
<1>3. ReceiverInv'
  BY <1>1, <1>2 DEF ReceiverInv, OneFirst, First, Receiver!TypeOK, EventIds
<1>4. QED
  BY <1>1, <1>3 DEF EventIds

----------------------------------------------------------------------------
(* Both sides                                                              *)

DemoInv == /\ PolicyInv
           /\ ReceiverInv
           /\ target \in {"bundled", "elsewhere"}
           /\ posted \in 0 .. MaxDeliveries
           /\ SeenWithinAttempts

\* The engine and the receiver start with nothing.
LEMMA DemoInvInit == DemoInit => DemoInv
BY PolicyInit, DemoAssumption
   DEF DemoInit, DemoInv, ReceiverInv, Receiver!Init, Receiver!TypeOK, Receiver!NoDeliveries,
       OneFirst, EventIds, SeenWithinAttempts, Init

\* A step of the demo is one of the retry policy or none.
LEMMA DemoStepsPolicy ==
    ASSUME Receiver!TypeOK, [DemoNext]_demo
    PROVE  [Next]_vars
<1>1. ASSUME NEW d \in handling, Answered(d) PROVE [Next]_vars
  BY <1>1, DecideType DEF Answered, Next, Receiver!TypeOK, Receiver!Delivery
<1>2. CASE PostAnsweredAtOnce
  BY <1>2, DecideType DEF PostAnsweredAtOnce, Next, Receiver!TypeOK
<1>3. CASE PostElsewhere \/ TimesOut \/ Dies
  BY <1>3 DEF PostElsewhere, TimesOut, Dies, Next
<1>r. CASE ServerRestarts
  BY <1>r DEF ServerRestarts, Next, engine, vars
<1>4. CASE Post \/ SetReceiver \/ (\E d \in handling : AnsweredInVain(d))
             \/ (\E e \in Others : OtherDelivery(e)) \/ UNCHANGED demo
  BY <1>4 DEF Post, SetReceiver, AnsweredInVain, OtherDelivery, engine, vars, demo
<1>5. QED
  BY <1>1, <1>2, <1>3, <1>r, <1>4 DEF DemoNext

\* Every step keeps both sides and their counts in order.
LEMMA DemoInvStep == DemoInv /\ [DemoNext]_demo => DemoInv'
<1> SUFFICES ASSUME DemoInv, [DemoNext]_demo PROVE DemoInv'
  OBVIOUS
<1>0. PolicyInv'
  BY DemoStepsPolicy, PolicyNext DEF DemoInv, ReceiverInv
<1>a. /\ attempt \in Nat
      /\ deliveriesByEvent[Event] \in Nat
      /\ posted \in 0 .. MaxDeliveries
      /\ MaxDeliveries \in Nat
      /\ Event \notin Others
      /\ Event \in EventIds
  BY DemoAssumption DEF DemoInv, PolicyInv, TypeOK, ReceiverInv, Receiver!TypeOK, EventIds
<1>1. CASE PostAnsweredAtOnce
  <2>1. /\ ReceiverInv'
        /\ deliveriesByEvent' = [deliveriesByEvent EXCEPT ![Event] = @ + 1]
    BY <1>a, <1>1, AtOnceStep DEF PostAnsweredAtOnce, DemoInv
  <2>2. attempt' = attempt + 1 /\ posted = 0 /\ UNCHANGED <<target, posted>>
    BY <1>1 DEF PostAnsweredAtOnce, Attempt
  <2>3. QED
    BY <1>0, <1>a, <2>1, <2>2 DEF DemoInv, SeenWithinAttempts, ReceiverInv, Receiver!TypeOK
<1>2. CASE PostElsewhere
  <2>1. ReceiverInv' /\ UNCHANGED deliveriesByEvent
    BY <1>2 DEF PostElsewhere, receiver, DemoInv, ReceiverInv, Receiver!TypeOK, OneFirst, First
  <2>2. attempt' = attempt + 1 /\ UNCHANGED <<target, posted>>
    BY <1>2 DEF PostElsewhere, Attempt
  <2>3. QED
    BY <1>0, <1>a, <2>1, <2>2 DEF DemoInv, SeenWithinAttempts
<1>3. CASE Post
  <2>1. /\ ReceiverInv'
        /\ deliveriesByEvent' = [deliveriesByEvent EXCEPT ![Event] = @ + 1]
        /\ posted' \in 1 .. MaxDeliveries
    BY <1>a, <1>3, ReceiveStep DEF Post, DemoInv
  <2>2. UNCHANGED <<attempt, target>> /\ posted = 0
    BY <1>3 DEF Post, engine
  <2>3. QED
    BY <1>0, <1>a, <2>1, <2>2 DEF DemoInv, SeenWithinAttempts, ReceiverInv, Receiver!TypeOK
<1>4. ASSUME NEW d \in handling, Answered(d) PROVE DemoInv'
  <2>1. ReceiverInv' /\ UNCHANGED deliveriesByEvent
    BY <1>4, AnswerStep DEF Answered, DemoInv
  <2>2. attempt' = attempt + 1 /\ posted' = 0 /\ UNCHANGED target
    BY <1>4 DEF Answered, Attempt
  <2>3. QED
    BY <1>0, <1>a, <2>1, <2>2 DEF DemoInv, SeenWithinAttempts
<1>5. ASSUME NEW d \in handling, AnsweredInVain(d) PROVE DemoInv'
  <2>1. ReceiverInv' /\ UNCHANGED deliveriesByEvent
    BY <1>5, AnswerStep DEF AnsweredInVain, DemoInv
  <2>2. UNCHANGED <<attempt, target, posted>>
    BY <1>5 DEF AnsweredInVain, engine
  <2>3. QED
    BY <1>0, <1>a, <2>1, <2>2 DEF DemoInv, SeenWithinAttempts
\* The attempt was burnt before: the engine goes on without an answer.
<1>6. CASE TimesOut \/ Dies
  <2>1. ReceiverInv' /\ UNCHANGED deliveriesByEvent
    BY <1>6 DEF TimesOut, Dies, receiver, DemoInv, ReceiverInv, Receiver!TypeOK, OneFirst, First
  <2>2. attempt' = attempt + 1 /\ posted' = 0 /\ UNCHANGED target
    BY <1>6 DEF TimesOut, Dies, Attempt, WorkerDies
  <2>3. QED
    BY <1>0, <1>a, <2>1, <2>2 DEF DemoInv, SeenWithinAttempts
<1>7. CASE SetReceiver
  <2>1. PICK new \in Receiver!ReceiverConfig, resetState \in BOOLEAN :
          Receiver!UpdateConfig(new, resetState)
    BY <1>7 DEF SetReceiver
  <2>2. /\ ReceiverInv'
        /\ deliveriesByEvent'[Event] \in Nat
        /\ deliveriesByEvent'[Event] <= deliveriesByEvent[Event]
    BY <2>1, UpdateStep DEF DemoInv
  <2>3. UNCHANGED <<attempt, target, posted>>
    BY <1>7 DEF SetReceiver, engine
  <2>4. QED
    BY <1>0, <1>a, <2>2, <2>3 DEF DemoInv, SeenWithinAttempts
<1>r. CASE ServerRestarts
  <2>1. ReceiverInv' /\ deliveriesByEvent'[Event] = 0
    BY <1>r, RestartStep DEF ServerRestarts, DemoInv
  <2>2. posted' = 0 /\ UNCHANGED target
    BY <1>r DEF ServerRestarts
  <2>3. PICK n \in Nat : n = attempt'
    BY <1>a, <1>r DEF ServerRestarts, WorkerDies, engine
  <2>4. SeenWithinAttempts'
    <3>1. (deliveriesByEvent[Event])' <= n + IF posted' = 0 THEN 0 ELSE 1
      BY <2>1, <2>2
    <3>2. QED
      BY <2>3, <3>1 DEF SeenWithinAttempts
  <2>5. posted' \in 0 .. MaxDeliveries /\ target' \in {"bundled", "elsewhere"}
    BY <1>a, <2>2 DEF DemoInv
  <2>6. QED
    BY <1>0, <2>1, <2>4, <2>5 DEF DemoInv
<1>8. ASSUME NEW e \in Others, OtherDelivery(e) PROVE DemoInv'
  <2>1. e \in EventIds /\ e # Event
    BY <1>a DEF EventIds
  <2>2. /\ ReceiverInv'
        /\ deliveriesByEvent' = [deliveriesByEvent EXCEPT ![e] = @ + 1]
    BY <1>8, <2>1, AtOnceStep, ReceiveStep DEF OtherDelivery, DemoInv
  <2>3. UNCHANGED <<attempt, target, posted>>
    BY <1>8 DEF OtherDelivery, engine
  <2>4. QED
    BY <1>0, <1>a, <2>1, <2>2, <2>3 DEF DemoInv, SeenWithinAttempts, ReceiverInv, Receiver!TypeOK
<1>9. CASE UNCHANGED demo
  <2>1. ReceiverInv' /\ UNCHANGED <<deliveriesByEvent, attempt, target, posted>>
    BY <1>9 DEF demo, engine, receiver, DemoInv, ReceiverInv, Receiver!TypeOK, OneFirst, First
  <2>2. QED
    BY <1>0, <1>a, <2>1 DEF DemoInv, SeenWithinAttempts
<1>10. QED
  BY <1>1, <1>2, <1>3, <1>4, <1>5, <1>6, <1>7, <1>r, <1>8, <1>9 DEF DemoNext

\* Both sides and their counts are in order at every step.
THEOREM DemoInvariant == DemoSpec => []DemoInv
BY DemoInvInit, DemoInvStep, PTL DEF DemoSpec

\* The engine's side of the demo is the retry policy: what is proved of it holds
\* against the bundled receiver and against any other endpoint.
THEOREM DemoImplementsPolicy == DemoSpec => Spec
<1>1. DemoInit => Init
  BY DEF DemoInit
<1>2. DemoInv /\ [DemoNext]_demo => [Next]_vars
  BY DemoStepsPolicy DEF DemoInv, ReceiverInv
<1>3. QED
  BY <1>1, <1>2, DemoInvariant, PTL DEF DemoSpec, Spec

\* Every variable of engine and receiver keeps its type.
THEOREM DemoTypeCorrect == DemoSpec => []DemoTypeOK
<1>1. DemoInv => DemoTypeOK
  BY DEF DemoInv, PolicyInv, ReceiverInv, DemoTypeOK
<1>2. QED
  BY <1>1, DemoInvariant, PTL

\* FAIL_ONCE refuses an event at most once between two resets or restarts, however its
\* deliveries overlap, time out or are repeated.
THEOREM FailOnceAlways == DemoSpec => []FailOnceRefusesOnce
<1>1. DemoInv => FailOnceRefusesOnce
  BY DEF DemoInv, ReceiverInv, OneFirst, EventIds, FailOnceRefusesOnce,
         Receiver!FailOnceRefusesOnce
<1>2. QED
  BY <1>1, DemoInvariant, PTL

\* The receiver sees an event no more often than attempts were burnt for it.
THEOREM SeenWithinAttemptsAlways == DemoSpec => []SeenWithinAttempts
<1>1. DemoInv => SeenWithinAttempts
  BY DEF DemoInv
<1>2. QED
  BY <1>1, DemoInvariant, PTL
----------------------------------------------------------------------------
(* The scenarios of the README                                             *)

\* Every answer so far is the one of the receiver's mode, and the status what
\* the engine made of the last one.
AnsweredAsSet ==
    /\ \A i \in 1 .. attempt : answers[i] = Receiver!decide(i - 1)
    /\ attempt > 0 => status = Verdict(classifyResult(answers[attempt]), attempt)

\* The receiver has seen what was sent, and the delivery whose answer is awaited
\* has seen the attempts before it.
CountedAsSent ==
    /\ deliveriesByEvent[Event] = attempt + IF posted = 0 THEN 0 ELSE 1
    /\ \A d \in handling : d.id = posted => d.previous = attempt

\* Requests are numbered.
IdsGiven == posted <= deliveries /\ \A d \in handling : d.id <= deliveries

\* Some attempt was answered.
Heard == \E j \in 1 .. attempt : answers[j] # NoAnswer

\* Whatever died or timed out: the answers that came are those of the mode.
NoOtherAnswer ==
    /\ \A i \in 1 .. attempt : answers[i] \in {NoAnswer} \cup AnswersOfMode(i)
    /\ config.mode = "FAIL_ALWAYS" => status # "DELIVERED"

\* Once an attempt was answered, the receiver knows the event, and so does the
\* delivery whose answer is awaited.
KnownOnceHeard ==
    /\ Heard \/ posted # 0 => deliveriesByEvent[Event] >= 1
    /\ Heard => \A d \in handling : d.id = posted => d.previous >= 1

ScenarioInv ==
    /\ DemoInv
    /\ IdsGiven
    /\ target = "bundled" /\ ~setAnew /\ ~disturbed => AnsweredAsSet /\ CountedAsSent
    /\ target = "bundled" /\ ~setAnew => NoOtherAnswer /\ KnownOnceHeard

\* An attempt that is answered as the receiver is set.
LEMMA AnsweredStep ==
    ASSUME PolicyInv, Receiver!TypeOK, AnsweredAsSet, UNCHANGED config,
           Attempt(Receiver!decide(attempt))
    PROVE  AnsweredAsSet'
<1> DEFINE answer == Receiver!decide(attempt)
<1>1. /\ attempt \in Nat
      /\ answers \in Seq(StatusCodes \cup {NoAnswer})
      /\ Len(answers) = attempt
      /\ answer \in StatusCodes
  BY DecideType DEF PolicyInv, TypeOK, EndsForAReason
<1>2. /\ attempt' = attempt + 1
      /\ answers' = Append(answers, answer)
      /\ status' = Verdict(classifyResult(answer), attempt + 1)
  BY DEF Attempt, Settle
<1>3. \A previous \in Nat : Receiver!decide(previous)' = Receiver!decide(previous)
  BY DEF Receiver!decide
<1> HIDE DEF answer
<1>4. /\ \A i \in 1 .. attempt : answers'[i] = answers[i]
      /\ answers'[attempt + 1] = answer
  BY <1>1, <1>2
<1>5. \A i \in 1 .. attempt + 1 : answers'[i] = Receiver!decide(i - 1)
  <2> TAKE i \in 1 .. attempt + 1
  <2>1. CASE i <= attempt
    BY <1>1, <1>4, <2>1 DEF AnsweredAsSet
  <2>2. CASE i = attempt + 1
    BY <1>1, <1>4, <2>2 DEF answer
  <2>3. QED
    BY <1>1, <2>1, <2>2
<1>6. \A i \in 1 .. attempt' : (answers[i] = Receiver!decide(i - 1))'
  <2> TAKE i \in 1 .. attempt'
  <2>1. i \in 1 .. attempt + 1 /\ i - 1 \in Nat
    BY <1>1, <1>2
  <2>2. answers'[i] = Receiver!decide(i - 1)
    BY <1>5, <2>1
  <2>3. QED
    BY <1>3, <2>1, <2>2
<1>7. (attempt > 0 => status = Verdict(classifyResult(answers[attempt]), attempt))'
  BY <1>1, <1>2, <1>4 DEF Verdict, classifyResult, isExhausted
<1>8. QED
  BY <1>6, <1>7 DEF AnsweredAsSet

\* A step that leaves the engine and the configuration alone.
LEMMA AnsweredKept ==
    ASSUME AnsweredAsSet, UNCHANGED <<engine, config>>
    PROVE  AnsweredAsSet'
BY DEF AnsweredAsSet, engine, Receiver!decide

\* No status from 400 on is a success.
LEMMA RefusedClass ==
    ASSUME NEW code \in 400 .. 599
    PROVE  classifyHttpStatus(code) \in {"PERMANENT", "RETRYABLE"}
<1>1. code \notin 200 .. 299
  OBVIOUS
<1>2. QED
  BY <1>1 DEF classifyHttpStatus

\* The receiver's failure status is either retried or final, and none is a success.
LEMMA RefusalClass ==
    ASSUME Receiver!TypeOK
    PROVE  /\ config.failureStatus \in StatusCodes
           /\ classifyResult(config.failureStatus) = classifyHttpStatus(config.failureStatus)
           /\ classifyHttpStatus(config.failureStatus) \in {"PERMANENT", "RETRYABLE"}
           /\ classifyResult(200) = "SUCCESS"
<1>1. config.failureStatus \in FailureStatuses
  BY DEF Receiver!TypeOK, Receiver!ReceiverConfig
<1>2. config.failureStatus \in StatusCodes /\ config.failureStatus \in 400 .. 599
  BY <1>1, DemoAssumption
<1>3. 200 \in StatusCodes /\ NoAnswer \notin Int
  BY DemoAssumption, PolicyAssumption
<1>4. classifyResult(config.failureStatus) = classifyHttpStatus(config.failureStatus)
  BY <1>2, <1>3 DEF classifyResult
<1>5. classifyHttpStatus(config.failureStatus) \in {"PERMANENT", "RETRYABLE"}
  BY <1>2, RefusedClass
<1>6. classifyResult(200) = "SUCCESS"
  BY <1>3 DEF classifyResult, classifyHttpStatus
<1>7. QED
  BY <1>2, <1>4, <1>5, <1>6

\* An attempt that the mode answers, or nobody: FAIL_ALWAYS has nothing that the
\* engine takes for a success.
LEMMA HeardStep ==
    ASSUME PolicyInv, Receiver!TypeOK, NoOtherAnswer, UNCHANGED config,
           NEW answer \in {NoAnswer} \cup AnswersOfMode(attempt + 1),
           attempt' = attempt + 1,
           answers' = Append(answers, answer),
           status' = "DELIVERED" => classifyResult(answer) = "SUCCESS"
    PROVE  /\ NoOtherAnswer'
           /\ Heard' <=> Heard \/ answer # NoAnswer
<1>1. /\ attempt \in Nat
      /\ answers \in Seq(StatusCodes \cup {NoAnswer})
      /\ Len(answers) = attempt
      /\ config.mode \in {"SUCCESS", "FAIL_ONCE", "FAIL_ALWAYS"}
  BY DEF PolicyInv, TypeOK, EndsForAReason, Receiver!TypeOK, Receiver!ReceiverConfig,
         Receiver!ReceiverMode
<1>2. /\ \A i \in 1 .. attempt : answers'[i] = answers[i]
      /\ answers'[attempt + 1] = answer
  <2>1. answer \in StatusCodes \cup {NoAnswer}
    BY <1>1, RefusalClass, DemoAssumption DEF AnswersOfMode
  <2>2. QED
    BY <1>1, <2>1
<1>3. Heard' <=> Heard \/ answer # NoAnswer
  <2>1. Heard' <=> \E j \in 1 .. attempt + 1 : answers'[j] # NoAnswer
    BY <1>1 DEF Heard
  <2>2. QED
    BY <1>1, <1>2, <2>1 DEF Heard
<1>4. \A i \in 1 .. attempt + 1 : AnswersOfMode(i)' = AnswersOfMode(i)
  <2> TAKE i \in 1 .. attempt + 1
  <2>1. \A j \in 1 .. i - 1 : answers'[j] = answers[j]
    BY <1>1, <1>2
  <2>2. (\E j \in 1 .. i - 1 : answers'[j] # NoAnswer)
          <=> (\E j \in 1 .. i - 1 : answers[j] # NoAnswer)
    BY <2>1
  <2>3. QED
    BY <2>2 DEF AnswersOfMode
<1>5. (\A i \in 1 .. attempt : answers[i] \in {NoAnswer} \cup AnswersOfMode(i))'
  <2>1. \A i \in 1 .. attempt + 1 : answers'[i] \in {NoAnswer} \cup AnswersOfMode(i)
    BY <1>1, <1>2 DEF NoOtherAnswer
  <2>2. \A i \in 1 .. attempt + 1 : answers'[i] \in {NoAnswer} \cup AnswersOfMode(i)'
    BY <1>4, <2>1
  <2>3. QED
    BY <2>2
<1>6. (config.mode = "FAIL_ALWAYS" => status # "DELIVERED")'
  <2>1. SUFFICES ASSUME config.mode = "FAIL_ALWAYS" PROVE classifyResult(answer) # "SUCCESS"
    OBVIOUS
  <2>2. CASE answer = NoAnswer
    BY <2>2 DEF classifyResult
  <2>3. CASE answer = config.failureStatus
    BY <2>3, RefusalClass
  <2>4. QED
    BY <2>1, <2>2, <2>3 DEF AnswersOfMode
<1>7. QED
  BY <1>3, <1>5, <1>6 DEF NoOtherAnswer

\* What an attempt of the engine does, answered or not.
LEMMA AttemptStep ==
    ASSUME PolicyInv, NEW answer \in StatusCodes \cup {NoAnswer}, Attempt(answer)
    PROVE  /\ attempt' = attempt + 1
           /\ answers' = Append(answers, answer)
           /\ status' = "DELIVERED" => classifyResult(answer) = "SUCCESS"
<1>1. attempt' = attempt + 1 /\ answers' = Append(answers, answer)
  BY DEF Attempt
<1>2. status' = Verdict(classifyResult(answer), attempt + 1)
  BY DEF Attempt, Settle
<1>3. classifyResult(answer) \in {"SUCCESS", "PERMANENT", "RETRYABLE"}
  BY DecisionIsFinal DEF Classification
<1>4. QED
  BY <1>1, <1>2, <1>3 DEF Verdict

\* The answer of a delivery that knows the event once an attempt was answered.
LEMMA DecideOfMode ==
    ASSUME PolicyInv, Receiver!TypeOK, NEW previous \in Nat, Heard => previous >= 1
    PROVE  Receiver!decide(previous) \in AnswersOfMode(attempt + 1)
<1>1. attempt \in Nat /\ config.mode \in {"SUCCESS", "FAIL_ONCE", "FAIL_ALWAYS"}
  BY DEF PolicyInv, TypeOK, Receiver!TypeOK, Receiver!ReceiverConfig, Receiver!ReceiverMode
<1>2. (\E j \in 1 .. (attempt + 1) - 1 : answers[j] # NoAnswer) <=> Heard
  BY <1>1 DEF Heard
<1>3. QED
  BY <1>1, <1>2 DEF AnswersOfMode, Receiver!decide

\* A step that leaves the engine and the configuration alone.
LEMMA HeardKept ==
    ASSUME UNCHANGED <<engine, config>>
    PROVE  (NoOtherAnswer => NoOtherAnswer') /\ (Heard' <=> Heard)
BY DEF NoOtherAnswer, AnswersOfMode, Heard, engine

\* Before anything is sent there is nothing to count.
LEMMA ScenarioInit == DemoInit => ScenarioInv
BY DemoInvInit, DemoAssumption
   DEF DemoInit, ScenarioInv, IdsGiven, AnsweredAsSet, CountedAsSent, Init, Receiver!Init,
       Receiver!NoDeliveries, NoOtherAnswer, KnownOnceHeard, Heard

\* Every step but the ones that disturb the demo keeps to the scenario.
LEMMA ScenarioStep == ScenarioInv /\ [DemoNext]_demo => ScenarioInv'
<1> SUFFICES ASSUME ScenarioInv, [DemoNext]_demo PROVE ScenarioInv'
  OBVIOUS
<1>0. DemoInv'
  BY DemoInvStep DEF ScenarioInv
<1>a. /\ attempt \in Nat /\ deliveries \in Nat /\ posted \in Nat
      /\ deliveriesByEvent \in [EventIds -> Nat]
      /\ Event \in EventIds /\ Event \notin Others
      /\ PolicyInv /\ Receiver!TypeOK
  BY DemoAssumption DEF ScenarioInv, DemoInv, PolicyInv, TypeOK, ReceiverInv, Receiver!TypeOK,
                        EventIds
<1>b. \A d \in handling : d.id \in 1 .. deliveries
  BY <1>a DEF ScenarioInv, IdsGiven, Receiver!TypeOK, Receiver!Delivery
<1>1. CASE PostAnsweredAtOnce
  <2>1. /\ handling' = handling /\ deliveries' = deliveries + 1
        /\ deliveriesByEvent' = [deliveriesByEvent EXCEPT ![Event] = @ + 1]
        /\ UNCHANGED <<config, target, posted, disturbed, setAnew>>
        /\ posted = 0 /\ attempt' = attempt + 1
        /\ Attempt(Receiver!decide(deliveriesByEvent[Event]))
    BY <1>1 DEF PostAnsweredAtOnce, Receiver!AnswerAtOnce, Receiver!Count, Attempt
  <2>2. IdsGiven'
    BY <1>a, <1>b, <2>1 DEF ScenarioInv, IdsGiven
  <2>3. ASSUME target = "bundled", ~setAnew, ~disturbed PROVE (AnsweredAsSet /\ CountedAsSent)'
    <3>1. AnsweredAsSet /\ CountedAsSent /\ deliveriesByEvent[Event] = attempt
      BY <1>a, <2>1, <2>3 DEF ScenarioInv, CountedAsSent
    <3>2. AnsweredAsSet'
      BY <1>a, <2>1, <3>1, AnsweredStep
    <3>3. CountedAsSent'
      BY <1>a, <1>b, <2>1, <3>1 DEF CountedAsSent
    <3>4. QED
      BY <3>2, <3>3
  <2>4. ASSUME target = "bundled", ~setAnew PROVE (NoOtherAnswer /\ KnownOnceHeard)'
    <3> DEFINE previous == deliveriesByEvent[Event]
    <3>1. NoOtherAnswer /\ (Heard => previous >= 1) /\ previous \in Nat
      BY <1>a, <2>4 DEF ScenarioInv, KnownOnceHeard
    <3>2. /\ Receiver!decide(previous) \in AnswersOfMode(attempt + 1)
          /\ Receiver!decide(previous) \in StatusCodes
      BY <1>a, <3>1, DecideOfMode, DecideType
    <3>3. NoOtherAnswer'
      BY <1>a, <2>1, <3>1, <3>2, AttemptStep, HeardStep
    <3>4. KnownOnceHeard'
      BY <1>a, <1>b, <2>1, <3>1 DEF KnownOnceHeard
    <3>5. QED
      BY <3>3, <3>4
  <2>5. QED
    BY <1>0, <2>1, <2>2, <2>3, <2>4 DEF ScenarioInv
<1>2. CASE PostElsewhere
  <2>1. target' = "elsewhere" /\ UNCHANGED receiver
    BY <1>2 DEF PostElsewhere
  <2>2. QED
    BY <1>0, <1>2, <2>1 DEF PostElsewhere, ScenarioInv, IdsGiven, receiver
<1>3. CASE Post
  <2>1. PICK new : /\ new.id = deliveries + 1
                   /\ new.previous = deliveriesByEvent[Event]
                   /\ handling' = handling \cup {new}
    BY <1>3 DEF Post, Receiver!Receive
  <2>2. /\ deliveries' = deliveries + 1 /\ posted' = deliveries + 1 /\ posted = 0
        /\ deliveriesByEvent' = [deliveriesByEvent EXCEPT ![Event] = @ + 1]
        /\ UNCHANGED <<engine, config, target, disturbed, setAnew>>
    BY <1>3 DEF Post, Receiver!Receive, Receiver!Count
  <2>3. IdsGiven'
    BY <1>a, <1>b, <2>1, <2>2 DEF ScenarioInv, IdsGiven
  <2>4. ASSUME target = "bundled", ~setAnew, ~disturbed PROVE (AnsweredAsSet /\ CountedAsSent)'
    <3>1. AnsweredAsSet /\ CountedAsSent /\ deliveriesByEvent[Event] = attempt
      BY <1>a, <2>2, <2>4 DEF ScenarioInv, CountedAsSent
    <3>2. AnsweredAsSet'
      BY <2>2, <3>1, AnsweredKept
    <3>3. CountedAsSent'
      BY <1>a, <1>b, <2>1, <2>2, <3>1 DEF CountedAsSent, engine
    <3>4. QED
      BY <3>2, <3>3
  <2>5. ASSUME target = "bundled", ~setAnew PROVE (NoOtherAnswer /\ KnownOnceHeard)'
    <3>1. NoOtherAnswer /\ (Heard => deliveriesByEvent[Event] >= 1)
      BY <2>5 DEF ScenarioInv, KnownOnceHeard
    <3>2. NoOtherAnswer' /\ (Heard' <=> Heard)
      BY <2>2, <3>1, HeardKept
    <3>3. deliveriesByEvent'[Event] = deliveriesByEvent[Event] + 1
      BY <1>a, <2>2
    <3>4. \A d \in handling' : d.id = posted' => d.previous = deliveriesByEvent[Event]
      BY <1>a, <1>b, <2>1, <2>2
    <3>5. KnownOnceHeard'
      BY <1>a, <3>1, <3>2, <3>3, <3>4 DEF KnownOnceHeard
    <3>6. QED
      BY <3>2, <3>5
  <2>6. QED
    BY <1>0, <2>2, <2>3, <2>4, <2>5 DEF ScenarioInv
<1>4. ASSUME NEW d \in handling, Answered(d) PROVE ScenarioInv'
  <2>1. /\ handling' = handling \ {d} /\ d.id = posted
        /\ posted' = 0 /\ attempt' = attempt + 1
        /\ UNCHANGED <<config, deliveries, deliveriesByEvent, target, disturbed, setAnew>>
        /\ Attempt(Receiver!decide(d.previous))
    BY <1>4 DEF Answered, Receiver!Answer, Attempt
  <2>2. IdsGiven'
    BY <1>a, <2>1 DEF ScenarioInv, IdsGiven
  <2>3. ASSUME target = "bundled", ~setAnew, ~disturbed PROVE (AnsweredAsSet /\ CountedAsSent)'
    <3>1. AnsweredAsSet /\ CountedAsSent /\ d.previous = attempt
      BY <2>1, <2>3 DEF ScenarioInv, CountedAsSent
    <3>2. AnsweredAsSet'
      BY <1>a, <2>1, <3>1, AnsweredStep
    <3>3. CountedAsSent'
      BY <1>a, <1>b, <2>1, <3>1 DEF CountedAsSent
    <3>4. QED
      BY <3>2, <3>3
  <2>4. ASSUME target = "bundled", ~setAnew PROVE (NoOtherAnswer /\ KnownOnceHeard)'
    <3>1. /\ NoOtherAnswer /\ (Heard => d.previous >= 1)
          /\ d.id \in 1 .. deliveries /\ d.previous \in Nat
          /\ deliveriesByEvent[Event] >= 1
      BY <1>a, <1>b, <2>1, <2>4 DEF ScenarioInv, KnownOnceHeard, Receiver!TypeOK, Receiver!Delivery
    <3>2. /\ Receiver!decide(d.previous) \in AnswersOfMode(attempt + 1)
          /\ Receiver!decide(d.previous) \in StatusCodes
      BY <1>a, <3>1, DecideOfMode, DecideType
    <3>3. NoOtherAnswer'
      BY <1>a, <2>1, <3>1, <3>2, AttemptStep, HeardStep
    <3>4. KnownOnceHeard'
      BY <1>a, <1>b, <2>1, <3>1 DEF KnownOnceHeard
    <3>5. QED
      BY <3>3, <3>4
  <2>5. QED
    BY <1>0, <2>1, <2>2, <2>3, <2>4 DEF ScenarioInv
<1>5. ASSUME NEW d \in handling, AnsweredInVain(d) PROVE ScenarioInv'
  <2>1. /\ handling' = handling \ {d}
        /\ UNCHANGED <<config, deliveries, deliveriesByEvent, engine, target, posted, disturbed, setAnew>>
    BY <1>5 DEF AnsweredInVain, Receiver!Answer
  <2>2. IdsGiven' /\ (CountedAsSent => CountedAsSent')
    BY <2>1 DEF ScenarioInv, IdsGiven, CountedAsSent, engine
  <2>3. KnownOnceHeard => KnownOnceHeard'
    BY <2>1, HeardKept DEF KnownOnceHeard
  <2>4. QED
    BY <1>0, <2>1, <2>2, <2>3, AnsweredKept, HeardKept DEF ScenarioInv
\* A timeout and a death disturb the demo; the attempt ends without an answer.
<1>6. CASE TimesOut \/ Dies
  <2>1. /\ disturbed' = TRUE /\ posted' = 0 /\ attempt' = attempt + 1
        /\ answers' = Append(answers, NoAnswer)
        /\ UNCHANGED <<receiver, target, setAnew>>
    BY <1>6 DEF TimesOut, Dies, Attempt, WorkerDies
  <2>2. status' # "DELIVERED"
    <3>1. CASE TimesOut
      <4>1. status' = "DELIVERED" => classifyResult(NoAnswer) = "SUCCESS"
        BY <1>a, <3>1, AttemptStep DEF TimesOut
      <4>2. QED
        BY <4>1 DEF classifyResult
    <3>2. CASE Dies
      <4>1. status' = IF isExhausted(attempt + 1) THEN "FAILED" ELSE "RETRYING"
        BY <3>2 DEF Dies, WorkerDies, Settle
      <4>2. QED
        BY <4>1
    <3>3. QED
      BY <1>6, <3>1, <3>2
  <2>3. IdsGiven'
    BY <1>a, <2>1 DEF receiver, ScenarioInv, IdsGiven
  <2>4. ASSUME target = "bundled", ~setAnew PROVE (NoOtherAnswer /\ KnownOnceHeard)'
    <3>1. NoOtherAnswer /\ KnownOnceHeard
      BY <2>4 DEF ScenarioInv
    <3>2. NoOtherAnswer' /\ (Heard' <=> Heard)
      BY <1>a, <2>1, <2>2, <3>1, HeardStep DEF receiver
    <3>3. KnownOnceHeard'
      BY <1>b, <2>1, <3>1, <3>2 DEF KnownOnceHeard, receiver
    <3>4. QED
      BY <3>2, <3>3
  <2>5. QED
    BY <1>0, <2>1, <2>3, <2>4 DEF ScenarioInv
\* After a change of the receiver the scenario is another one.
<1>s. CASE SetReceiver
  <2>1. PICK new \in Receiver!ReceiverConfig, resetState \in BOOLEAN : Receiver!UpdateConfig(new, resetState)
    BY <1>s DEF SetReceiver
  <2>2. \A c \in handling' : \E d \in handling : c.id = d.id
    BY <1>a, <2>1 DEF Receiver!UpdateConfig, Receiver!TypeOK, Receiver!Delivery
  <2>3. setAnew' = TRUE /\ IdsGiven'
    BY <1>a, <1>s, <2>1, <2>2 DEF SetReceiver, Receiver!UpdateConfig, ScenarioInv, IdsGiven
  <2>4. QED
    BY <1>0, <2>3 DEF ScenarioInv
<1>r. CASE ServerRestarts
  <2>1. setAnew' = TRUE /\ posted' = 0 /\ handling' = {} /\ UNCHANGED deliveries
    BY <1>r DEF ServerRestarts, Receiver!Restart
  <2>2. QED
    BY <1>0, <1>a, <2>1 DEF ScenarioInv, IdsGiven
<1>7. ASSUME NEW e \in Others, OtherDelivery(e) PROVE ScenarioInv'
  <2>1. /\ deliveries' = deliveries + 1
        /\ deliveriesByEvent' = [deliveriesByEvent EXCEPT ![e] = @ + 1]
        /\ UNCHANGED <<engine, config, target, posted, disturbed, setAnew>>
    BY <1>7 DEF OtherDelivery, Receiver!AnswerAtOnce, Receiver!Receive, Receiver!Count
  <2>2. \A d \in handling' : d \in handling \/ d.id = deliveries + 1
    <3>1. CASE Receiver!AnswerAtOnce(e)
      BY <3>1 DEF Receiver!AnswerAtOnce
    <3>2. CASE Receiver!Receive(e)
      <4>1. PICK new : new.id = deliveries + 1 /\ handling' = handling \cup {new}
        BY <3>2 DEF Receiver!Receive
      <4>2. QED
        BY <4>1
    <3>3. QED
      BY <1>7, <3>1, <3>2 DEF OtherDelivery
  <2>3. IdsGiven'
    BY <1>a, <1>b, <2>1, <2>2 DEF ScenarioInv, IdsGiven
  <2>4. CountedAsSent => CountedAsSent'
    BY <1>a, <1>b, <2>1, <2>2 DEF ScenarioInv, IdsGiven, CountedAsSent, engine, EventIds
  <2>5. KnownOnceHeard => KnownOnceHeard'
    BY <1>a, <1>b, <2>1, <2>2, HeardKept DEF ScenarioInv, IdsGiven, KnownOnceHeard, EventIds
  <2>6. QED
    BY <1>0, <2>1, <2>3, <2>4, <2>5, AnsweredKept, HeardKept DEF ScenarioInv
<1>8. CASE UNCHANGED demo
  <2>1. UNCHANGED <<engine, config, deliveries, deliveriesByEvent, handling, posted, target, disturbed, setAnew>>
    BY <1>8 DEF demo, receiver
  <2>2. QED
    BY <1>0, <2>1, AnsweredKept, HeardKept
       DEF engine, ScenarioInv, IdsGiven, CountedAsSent, KnownOnceHeard
<1>9. QED
  BY <1>1, <1>2, <1>3, <1>4, <1>5, <1>6, <1>s, <1>r, <1>7, <1>8 DEF DemoNext

\* The receiver has counted what was sent and answered as it was set.
THEOREM ScenarioAlways == DemoSpec => []ScenarioInv
BY ScenarioInit, ScenarioStep, PTL DEF DemoSpec

\* For every budget, list of delays and failure status: a demo in which the
\* receiver stays as it is set ends as the README says unless a worker dies or a
\* request times out; when they do, every answer that comes is still the mode's,
\* and FAIL_ALWAYS never ends in DELIVERED.
THEOREM AsTheReadmeShowsAlways == DemoSpec => []AsTheReadmeShows
<1>1. ScenarioInv => AsTheReadmeShows
  <2> SUFFICES ASSUME ScenarioInv, target = "bundled", ~setAnew,
                      status \in TERMINAL_STATUSES, ~disturbed
               PROVE  <<status, answers>> = Scenario
    BY DEF AsTheReadmeShows, ScenarioInv, NoOtherAnswer
  <2> DEFINE refused == config.failureStatus
  <2>1. /\ attempt \in 1 .. MaxAttempts
        /\ answers \in Seq(StatusCodes \cup {NoAnswer})
        /\ Len(answers) = attempt
        /\ Receiver!TypeOK
        /\ config.mode \in {"SUCCESS", "FAIL_ONCE", "FAIL_ALWAYS"}
    BY BudgetAssumption
       DEF ScenarioInv, DemoInv, ReceiverInv, PolicyInv, TypeOK, Bookkeeping, EndsForAReason,
           Receiver!TypeOK, Receiver!ReceiverConfig, Receiver!ReceiverMode
  <2>2. /\ \A i \in 1 .. attempt : answers[i] = Receiver!decide(i - 1)
        /\ status = Verdict(classifyResult(answers[attempt]), attempt)
    BY <2>1 DEF ScenarioInv, AnsweredAsSet
  <2>3. \A i \in 1 .. attempt : i < attempt => classifyResult(answers[i]) = "RETRYABLE"
    BY <2>1, DecisionIsFinal DEF ScenarioInv, DemoInv, PolicyInv, EndsForAReason
  <2>4. MaxAttempts \in Nat \ {0}
    BY BudgetAssumption
  \* The verdict of the last answer is not to try again.
  <2>5. \/ classifyResult(answers[attempt]) # "RETRYABLE"
        \/ attempt = MaxAttempts
    BY <2>1, <2>2, <2>4 DEF Verdict, isExhausted, TERMINAL_STATUSES
  <2>a. CASE config.mode = "SUCCESS"
    <3>1. \A i \in 1 .. attempt : answers[i] = 200
      BY <2>2, <2>a DEF Receiver!decide
    <3>2. attempt = 1
      BY <2>1, <2>3, <3>1, RefusalClass
    <3>3. answers = <<200>> /\ status = "DELIVERED"
      BY <2>1, <2>2, <3>1, <3>2, RefusalClass DEF Verdict
    <3>4. QED
      BY <2>a, <3>3 DEF Scenario
  <2>b. CASE config.mode # "SUCCESS" /\ (classifyHttpStatus(refused) = "PERMANENT" \/ MaxAttempts = 1)
    <3>1. answers[1] = refused
      BY <2>1, <2>2, <2>b DEF Receiver!decide
    <3>2. attempt = 1
      BY <2>1, <2>3, <2>4, <2>b, <3>1, RefusalClass
    <3>3. answers = <<refused>>
      BY <2>1, <3>1, <3>2
    <3>4. status = "FAILED"
      BY <2>1, <2>2, <2>4, <2>b, <3>1, <3>2, RefusalClass DEF Verdict, isExhausted
    <3>5. QED
      BY <2>1, <2>b, <3>3, <3>4 DEF Scenario
  <2>c. CASE /\ config.mode = "FAIL_ONCE"
             /\ classifyHttpStatus(refused) # "PERMANENT" /\ MaxAttempts > 1
    <3>1. \A i \in 1 .. attempt : answers[i] = IF i = 1 THEN refused ELSE 200
      BY <2>1, <2>2, <2>c DEF Receiver!decide
    <3>2. classifyResult(refused) = "RETRYABLE" /\ classifyResult(200) = "SUCCESS"
      BY <2>1, <2>c, RefusalClass
    <3>3. attempt = 2
      BY <2>1, <2>3, <2>5, <2>c, <3>1, <3>2
    <3>4. answers = <<refused, 200>> /\ status = "DELIVERED"
      BY <2>1, <2>2, <3>1, <3>2, <3>3 DEF Verdict
    <3>5. QED
      BY <2>c, <3>4 DEF Scenario
  <2>d. CASE /\ config.mode = "FAIL_ALWAYS"
             /\ classifyHttpStatus(refused) # "PERMANENT" /\ MaxAttempts > 1
    <3>1. \A i \in 1 .. attempt : answers[i] = refused
      BY <2>1, <2>2, <2>d DEF Receiver!decide
    <3>2. classifyResult(refused) = "RETRYABLE"
      BY <2>1, <2>d, RefusalClass
    <3>3. attempt = MaxAttempts
      BY <2>1, <2>5, <3>1, <3>2
    <3>4. status = "FAILED"
      BY <2>1, <2>2, <2>4, <3>1, <3>2, <3>3 DEF Verdict, isExhausted
    <3>5. answers = [i \in 1 .. MaxAttempts |-> refused]
      BY <2>1, <2>4, <3>1, <3>3
    <3>6. QED
      BY <2>4, <2>d, <3>4, <3>5, SMT DEF Scenario
  <2>6. QED
    BY <2>1, <2>4, <2>a, <2>b, <2>c, <2>d
<1>2. QED
  BY <1>1, ScenarioAlways, PTL
=============================================================================
