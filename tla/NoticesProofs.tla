--------------------------- MODULE NoticesProofs ---------------------------
(***************************************************************************)
(* What Notices promises, proved for every number of events, workers,      *)
(* attempts and faults: as long as nothing has failed, no change of an     *)
(* event's rows stays untold, whatever stalled workers do to each other;   *)
(* and until two workers have had the same job in hand, what is told can   *)
(* be read in the database, whatever has failed.  What Delivery promises   *)
(* holds with stops and lost messages too: for every number of workers, or *)
(* until two of them have shared a job.                                    *)
(***************************************************************************)
EXTENDS Notices, DeliveryProofs

----------------------------------------------------------------------------
(* The inductive invariant                                                 *)

\* An attempt row is open only in the hands of the worker that will close it.
OpenRowFlown ==
    \A j \in Jobs : \A n \in DOMAIN attempts[j] : attempts[j][n] = "IN_PROGRESS" =>
        \E w \in Workers : /\ pc[w] \in {"send", "complete"}
                           /\ held[w].eventId = j
                           /\ held[w].attemptCount = n

\* The steps that end in a message about the job in hand, unless something fails.
Telling == InFlight \cup {"project", "projectRelease"}

\* Worker w is bound to publish something about event j.
Tells(w, j) == saying[w].eventId = j \/ (pc[w] \in Telling /\ held[w].eventId = j)

\* Worker w is on its way to the row of the last claim of job j.
Starts(w, j) ==
    /\ held[w].eventId = j
    /\ pc[w] = "read" \/ (pc[w] = "start" /\ held[w].attemptCount = jobs[j].attemptCount)

\* The last claim of job j has no row yet: whoever starts its attempt first is
\* not refused.
FreshClaim(j) ==
    /\ jobs[j].status = "DELIVERING"
    /\ jobs[j].attemptCount \notin DOMAIN attempts[j]
    /\ \E w \in Workers : Starts(w, j)

\* A change that was not told yet is going to be.
UntoldIsTold ==
    \A j \in untold : \/ j \in accepting
                      \/ \E w \in Workers : Tells(w, j)
                      \/ FreshClaim(j)

NoticesInv ==
    /\ NoticesTypeOK
    /\ NoJobStranded
    /\ NumbersClaimed
    /\ faults = 0 => OpenRowFlown /\ UntoldIsTold

----------------------------------------------------------------------------
(* Type correctness                                                        *)

\* The steps Delivery does not have: a worker that was asked to stop leaves its
\* loop and exits, and messages and replies are lost.
StopSteps == \E w \in Workers : Break(w) \/ Exit(w)

LossSteps == Unheard \/ \E w \in Workers : ReplyLost(w)

\* All others are steps of Delivery.
LEMMA NoticesSteps ==
    ASSUME [NoticesNext]_notices
    PROVE  [Next]_vars \/ StopSteps \/ LossSteps
<1> USE DEF Next, Work, Recover, Drain, Execute, Fault
<1>1. ASSUME NEW w \in Workers, Silent(w) \/ Started(w) \/ Completed(w) \/ Moved(w)
                                  \/ Concluded(w) \/ Released(w)
      PROVE  Next
  BY <1>1 DEF Silent, Started, Completed, Moved, Concluded, Released
<1>2. ASSUME NEW w \in Workers, Publish(w) \/ Stop(w) PROVE UNCHANGED vars
  BY <1>2 DEF Publish, Stop
<1>3. ASSUME NEW w \in Workers, Dies(w) \/ Throws(w) PROVE Next \/ LossSteps
  BY <1>3 DEF Dies, Throws, LossSteps
<1>4. ASSUME NEW j \in Jobs, PublishAccepted(j) PROVE UNCHANGED vars
  BY <1>4 DEF PublishAccepted
<1>5. CASE UNCHANGED notices
  BY <1>5 DEF notices
<1>6. QED
  BY <1>1, <1>2, <1>3, <1>4, <1>5 DEF NoticesNext, Engine, StopSteps, LossSteps

\* Neither a stop nor a loss touches the database.
LEMMA EngineTypeStep == ASSUME TypeOK, [NoticesNext]_notices PROVE TypeOK'
<1> USE DEF Ticking, Executing, InFlight, Holding, Settled, Goto
<1>1. ASSUME NEW w \in Workers, Break(w) PROVE TypeOK'
  BY <1>1 DEF Break, TypeOK, dbVars
<1>2. ASSUME NEW w \in Workers, Exit(w) PROVE TypeOK'
  BY <1>2 DEF Exit, TypeOK, dbVars
<1>3. CASE LossSteps
  <2>1. faults' \in 0 .. MaxFaults
    BY <1>3, DeliveryAssumption DEF LossSteps, Unheard, ReplyLost, TypeOK
  <2>2. UNCHANGED <<dbVars, answers, workerVars>>
    BY <1>3 DEF LossSteps, Unheard, ReplyLost
  <2>3. QED
    BY <2>1, <2>2 DEF TypeOK, dbVars, workerVars
<1>4. QED
  BY <1>1, <1>2, <1>3, TypeStep, NoticesSteps DEF StopSteps

\* Nor does it touch a job in hand: the rest are steps of Delivery.
LEMMA EngineOrRests ==
    ASSUME TypeOK, [NoticesNext]_notices
    PROVE  [Next]_vars \/ Rests
<1> USE DEF Rests, Resting, Goto, TypeOK
<1>1. ASSUME NEW w \in Workers, Break(w) \/ Exit(w) PROVE Rests
  BY <1>1 DEF Break, Exit, dbVars
<1>2. LossSteps => Rests
  BY DeliveryAssumption DEF LossSteps, Unheard, ReplyLost, dbVars, workerVars
<1>3. QED
  BY <1>1, <1>2, NoticesSteps DEF StopSteps

\* What a worker says of the job in its hands is a message.
LEMMA SayingType ==
    ASSUME TypeOK, NEW w \in Workers, held[w] \in Entity, NEW status \in DeliveryStatus
    PROVE  Saying(w, status) \in Message /\ Saying(w, status).eventId = held[w].eventId
BY DEF Saying, Message, Entity

\* A step that says a message or nothing keeps the types.
LEMMA ThenType ==
    ASSUME NoticesTypeOK, TypeOK', NEW w \in Workers, NEW m \in Message \cup {Nothing},
           Then(w, m)
    PROVE  NoticesTypeOK'
<1>1. saying' \in [Workers -> Message \cup {Nothing}]
  BY DEF Then, NoticesTypeOK
<1>2. untold' \in SUBSET Jobs
  BY DEF Then, NoticesTypeOK, Changed
<1>3. shared' \in BOOLEAN
  BY DEF Then, NoticesTypeOK
<1>4. QED
  BY <1>1, <1>2, <1>3 DEF Then, NoticesTypeOK

\* What is published is a message.
LEMMA HeardType ==
    ASSUME NoticesTypeOK, TypeOK', NEW m \in Message, Heard(m),
           saying' \in [Workers -> Message \cup {Nothing}], accepting' \in SUBSET Jobs,
           UNCHANGED <<stopped, shared>>
    PROVE  NoticesTypeOK'
<1>1. said' \in [Jobs -> Message] /\ untold' \in SUBSET Jobs
  BY DEF Heard, NoticesTypeOK, Message
<1>2. QED
  BY <1>1 DEF NoticesTypeOK

\* The messages of the four steps that have one.
LEMMA MessageType ==
    ASSUME TypeOK, NEW w \in Workers
    PROVE  /\ pc[w] \in {"start", "complete"} =>
                /\ Saying(w, "DELIVERING") \in Message
                /\ Saying(w, "DELIVERING").eventId = held[w].eventId
           /\ ProjectRelease(w) => /\ Saying(w, Recovered(held[w])) \in Message
                                   /\ Saying(w, Recovered(held[w])).eventId = held[w].eventId
           /\ pc[w] \in {"start", "complete", "projectRelease"} => held[w] \in Entity
<1> USE DEF DeliveryStatus
<1>1. pc[w] \in {"start", "complete", "projectRelease"} => held[w] \in Entity
  BY DEF TypeOK, Holding, Executing, InFlight
<1>2. Recovered(held[w]) \in DeliveryStatus
  BY DEF Recovered
<1>3. QED
  BY <1>1, <1>2, SayingType DEF ProjectRelease

\* The message about the outcome.
LEMMA ConcludedMessage ==
    ASSUME TypeOK, NEW w \in Workers, ProjectStatus(w)
    PROVE  Saying(w, Outcome(w)) \in Message
<1>1. held[w] \in Entity /\ result[w] \in Classification
  BY DEF ProjectStatus, TypeOK, Holding, Executing, Settled
<1>2. Outcome(w) \in DeliveryStatus
  BY <1>1, VerdictType DEF Outcome, Entity, DeliveryStatus
<1>3. QED
  BY <1>1, <1>2, SayingType

\* Every step keeps the types of the messages.
LEMMA NoticesTypeStep == ASSUME NoticesTypeOK, [NoticesNext]_notices PROVE NoticesTypeOK'
<1>0. TypeOK /\ TypeOK'
  BY EngineTypeStep DEF NoticesTypeOK
<1>1. ASSUME NEW w \in Workers, Silent(w) \/ Moved(w) \/ Break(w) PROVE NoticesTypeOK'
  BY <1>0, <1>1, ThenType DEF Silent, Moved, Break
<1>2. ASSUME NEW w \in Workers, Started(w) \/ Completed(w) PROVE NoticesTypeOK'
  BY <1>0, <1>2, MessageType, ThenType
     DEF Started, Completed, StartAttempt, CompleteAttempt
<1>3. ASSUME NEW w \in Workers, Concluded(w) PROVE NoticesTypeOK'
  BY <1>0, <1>3, ConcludedMessage, ThenType DEF Concluded
<1>4. ASSUME NEW w \in Workers, Released(w) PROVE NoticesTypeOK'
  BY <1>0, <1>4, MessageType, ThenType DEF Released
<1>5. ASSUME NEW w \in Workers, Publish(w) PROVE NoticesTypeOK'
  <2>1. /\ saying[w] \in Message
        /\ saying' \in [Workers -> Message \cup {Nothing}]
    BY <1>5 DEF Publish, NoticesTypeOK
  <2>2. QED
    BY <1>0, <1>5, <2>1, HeardType DEF Publish, NoticesTypeOK
<1>6. ASSUME NEW j \in Jobs, PublishAccepted(j) PROVE NoticesTypeOK'
  <2>1. AcceptedMessage(j) \in Message
    BY DEF AcceptedMessage, Nothing, Message, DeliveryStatus
  <2>2. QED
    BY <1>0, <1>6, <2>1, HeardType DEF PublishAccepted, NoticesTypeOK
<1>7. CASE Unheard
  BY <1>0, <1>7 DEF Unheard, NoticesTypeOK
<1>8. ASSUME NEW w \in Workers, Stop(w) \/ Exit(w) PROVE NoticesTypeOK'
  BY <1>0, <1>8 DEF Stop, Exit, NoticesTypeOK
<1>9. ASSUME NEW w \in Workers, Dies(w) \/ Throws(w) PROVE NoticesTypeOK'
  BY <1>0, <1>9 DEF Dies, Throws, NoticesTypeOK
<1>10. CASE UNCHANGED speech
  BY <1>0, <1>10 DEF speech, NoticesTypeOK
<1>11. QED
  BY <1>1, <1>2, <1>3, <1>4, <1>5, <1>6, <1>7, <1>8, <1>9, <1>10
     DEF NoticesNext, Engine, notices

----------------------------------------------------------------------------
(* As long as nothing has failed                                           *)

\* A failure is counted for good: before, the steps are these.
LEMMA FaultFree ==
    ASSUME NoticesTypeOK, [NoticesNext]_notices, faults' = 0
    PROVE  /\ faults = 0
           /\ \/ \E w \in Workers : Engine(w)
              \/ \E j \in Jobs : PublishAccepted(j)
              \/ Time /\ UNCHANGED speech
              \/ UNCHANGED notices
<1>0. faults \in Nat
  BY DeliveryAssumption DEF NoticesTypeOK, TypeOK
<1>1. ASSUME NEW w \in Workers, Dies(w) \/ Throws(w) PROVE faults' = faults + 1
  BY <1>1 DEF Dies, Throws, Crash, JobThrows, TickThrows, ReplyLost
<1>2. Unheard => faults' = faults + 1
  BY DEF Unheard
<1>3. \/ \E w \in Workers : Engine(w)
      \/ \E j \in Jobs : PublishAccepted(j)
      \/ Time /\ UNCHANGED speech
      \/ UNCHANGED notices
  BY <1>0, <1>1, <1>2 DEF NoticesNext
<1>4. ASSUME NEW w \in Workers, Engine(w) PROVE faults' = faults
  BY <1>4 DEF Engine, Silent, Started, Completed, Moved, Concluded, Released, Publish, Stop,
      Break, Exit, Restart, FindStaleJobs, CloseAbandoned, ReleaseStaleJob, ReleaseRefused,
      ProjectRelease, FindDueJobIds, Claim, ClaimRefused, ReadClaimed, EndTick,
      StartAttempt, StartRefused, Send, CompleteAttempt, TransitionJob, ProjectStatus, vars
<1>5. faults' = faults
  BY <1>3, <1>4 DEF PublishAccepted, Time, BackoffElapses, LeaseExpires, notices, vars
<1>6. QED
  BY <1>3, <1>5

\* Jobs stay within reach and the numbers claimed.
LEMMA NoticesNumbers ==
    ASSUME NoticesTypeOK, NoJobStranded, NumbersClaimed, [NoticesNext]_notices
    PROVE  NoJobStranded' /\ NumbersClaimed'
<1> USE DEF NoticesTypeOK
<1>1. CASE [Next]_vars
  BY <1>1, StrandedStep, NumbersStep
<1>2. ASSUME NEW w \in Workers, Break(w) \/ Exit(w) PROVE NoJobStranded' /\ NumbersClaimed'
  BY <1>2 DEF Break, Exit, NoJobStranded, NumbersClaimed, ReadStale, TypeOK, dbVars, Goto,
              Executing, InFlight
<1>3. CASE LossSteps
  BY <1>3 DEF LossSteps, Unheard, ReplyLost, NoJobStranded, NumbersClaimed, ReadStale,
              dbVars, workerVars
<1>4. QED
  BY <1>1, <1>2, <1>3, NoticesSteps DEF StopSteps

\* A step of a worker leaves what the others have in hand alone.
LEMMA OthersKeep ==
    ASSUME TypeOK, NEW w \in Workers, Recover(w) \/ Drain(w) \/ Execute(w) \/ Break(w)
    PROVE  \A v \in Workers \ {w} : pc'[v] = pc[v] /\ held'[v] = held[v]
BY DEF TypeOK, Recover, Drain, Execute, Break, FindStaleJobs, CloseAbandoned,
       ReleaseStaleJob, ReleaseRefused, ProjectRelease, FindDueJobIds, Claim, ClaimRefused,
       ReadClaimed, EndTick, StartAttempt, StartRefused, Send, CompleteAttempt,
       TransitionJob, ProjectStatus, Drop, Goto

\* What a step of worker w has to do about every event i, so that no change
\* stays untold: what w was bound to tell it says now or is still bound to, a
\* claim that has lost its executor is told by w, and so is what w changes.
LEMMA StepTells ==
    ASSUME NoticesTypeOK, UntoldIsTold, NEW w \in Workers, NEW m, Then(w, m),
           \A v \in Workers \ {w} : pc'[v] = pc[v] /\ held'[v] = held[v],
           pc[w] \in Telling => \/ m.eventId = held[w].eventId
                                \/ pc'[w] \in Telling /\ held'[w].eventId = held[w].eventId,
           \A i \in Jobs : \/ Tells(w, i)'
                           \/ FreshClaim(i)'
                           \/ /\ jobs'[i] = jobs[i]
                              /\ DOMAIN attempts'[i] = DOMAIN attempts[i]
                              /\ FreshClaim(i) /\ Starts(w, i) => Starts(w, i)',
           \A i \in Changed : \/ Tells(w, i)'
                              \/ FreshClaim(i)'
                              \/ \E v \in Workers : Tells(v, i)
    PROVE  UntoldIsTold'
<1> SUFFICES ASSUME NEW j \in untold', ~Tells(w, j)', ~FreshClaim(j)'
             PROVE  j \in accepting' \/ \E v \in Workers : Tells(v, j)'
  BY DEF UntoldIsTold
<1>1. /\ saying[w] = Nothing
      /\ saying'[w] = m
      /\ \A v \in Workers \ {w} : saying'[v] = saying[v]
      /\ untold' = untold \cup Changed
      /\ accepting' = accepting
  BY DEF Then, NoticesTypeOK
<1>2. j \in Jobs
  BY <1>1 DEF NoticesTypeOK, Changed
<1>3. ASSUME NEW v \in Workers, Tells(v, j) PROVE Tells(v, j)'
  <2>1. CASE v = w
    <3>1. Nothing.eventId = None /\ None # j
      BY <1>2, DeliveryAssumption DEF Nothing
    <3>2. pc[w] \in Telling /\ held[w].eventId = j
      BY <1>1, <1>3, <2>1, <3>1 DEF Tells
    <3>3. QED
      BY <1>1, <2>1, <3>2 DEF Tells
  <2>2. CASE v # w
    BY <1>1, <1>3, <2>2 DEF Tells
  <2>3. QED
    BY <2>1, <2>2
<1>4. ~FreshClaim(j)
  <2> SUFFICES ASSUME FreshClaim(j) PROVE FALSE
    OBVIOUS
  <2>1. /\ jobs'[j] = jobs[j]
        /\ DOMAIN attempts'[j] = DOMAIN attempts[j]
        /\ Starts(w, j) => Starts(w, j)'
    BY <1>2
  <2>2. PICK v \in Workers : Starts(v, j)
    BY DEF FreshClaim
  <2>3. Starts(v, j)'
    BY <2>1, <2>2 DEF Starts
  <2>4. QED
    BY <2>1, <2>3 DEF FreshClaim
<1>5. CASE j \in untold
  BY <1>1, <1>3, <1>4, <1>5 DEF UntoldIsTold
<1>6. CASE j \in Changed
  BY <1>3, <1>6
<1>7. QED
  BY <1>1, <1>5, <1>6

----------------------------------------------------------------------------
(* The steps of a worker                                                   *)

\* An open row keeps the worker that will close it.
LEMMA FlownStep ==
    ASSUME NoticesTypeOK, OpenRowFlown, [NoticesNext]_notices, faults' = 0
    PROVE  OpenRowFlown'
<1> USE DEF NoticesTypeOK
<1> SUFFICES ASSUME NEW j \in Jobs, NEW n \in DOMAIN attempts'[j],
                    attempts'[j][n] = "IN_PROGRESS"
             PROVE  \E w \in Workers : /\ pc'[w] \in {"send", "complete"}
                                       /\ held'[w].eventId = j
                                       /\ held'[w].attemptCount = n
  BY DEF OpenRowFlown
<1>1. ASSUME NEW w \in Workers, StartAttempt(w)
      PROVE  \E v \in Workers : /\ pc'[v] \in {"send", "complete"}
                                /\ held'[v].eventId = j
                                /\ held'[v].attemptCount = n
  <2>1. CASE j = held[w].eventId /\ n = held[w].attemptCount
    BY <1>1, <2>1 DEF StartAttempt, TypeOK, Goto
  <2>2. CASE ~(j = held[w].eventId /\ n = held[w].attemptCount)
    <3>1. n \in DOMAIN attempts[j] /\ attempts[j][n] = "IN_PROGRESS"
      BY <1>1, <2>2 DEF StartAttempt, WithRow, TypeOK
    <3>2. PICK v \in Workers : /\ pc[v] \in {"send", "complete"}
                               /\ held[v].eventId = j
                               /\ held[v].attemptCount = n
      BY <3>1 DEF OpenRowFlown
    <3>3. QED
      BY <1>1, <3>2 DEF StartAttempt, TypeOK, Goto
  <2>3. QED
    BY <2>1, <2>2
<1>2. ASSUME NEW w \in Workers, CompleteAttempt(w)
      PROVE  \E v \in Workers : /\ pc'[v] \in {"send", "complete"}
                                /\ held'[v].eventId = j
                                /\ held'[v].attemptCount = n
  <2>1. /\ n \in DOMAIN attempts[j] /\ attempts[j][n] = "IN_PROGRESS"
        /\ ~(j = held[w].eventId /\ n = held[w].attemptCount)
    BY <1>2 DEF CompleteAttempt, WithRow, TypeOK
  <2>2. PICK v \in Workers : /\ pc[v] \in {"send", "complete"}
                             /\ held[v].eventId = j
                             /\ held[v].attemptCount = n
    BY <2>1 DEF OpenRowFlown
  <2>3. v # w
    BY <2>1, <2>2
  <2>4. QED
    BY <1>2, <2>2, <2>3 DEF CompleteAttempt, TypeOK, Goto
<1>3. CASE \A w \in Workers : ~StartAttempt(w) /\ ~CompleteAttempt(w)
  <2>1. n \in DOMAIN attempts[j] /\ attempts[j][n] = "IN_PROGRESS"
    <3>1. CASE attempts' = attempts
      BY <3>1
    <3>2. ASSUME NEW w \in Workers, CloseAbandoned(w)
          PROVE  n \in DOMAIN attempts[j] /\ attempts[j][n] = "IN_PROGRESS"
      BY <3>2 DEF CloseAbandoned, Closed, TypeOK
    <3>3. StopSteps \/ LossSteps => attempts' = attempts
      BY DEF StopSteps, LossSteps, Break, Exit, Unheard, ReplyLost, dbVars
    <3>4. QED
      BY <1>3, <3>1, <3>2, <3>3, NoticesSteps, AttemptsWriters
  <2>2. PICK v \in Workers : /\ pc[v] \in {"send", "complete"}
                             /\ held[v].eventId = j
                             /\ held[v].attemptCount = n
    BY <2>1 DEF OpenRowFlown
  <2>3. ASSUME NEW w \in Workers, Engine(w)
        PROVE  pc'[v] \in {"send", "complete"} /\ held'[v] = held[v]
    <3>1. CASE v = w
      BY <1>3, <2>2, <2>3, <3>1
         DEF Engine, Silent, Started, Completed, Moved, Concluded, Released, Publish, Stop,
             Break, Exit, Restart, FindStaleJobs, CloseAbandoned, ReleaseStaleJob,
             ReleaseRefused, ProjectRelease, FindDueJobIds, Claim, ClaimRefused,
             ReadClaimed, EndTick, StartRefused, Send, TransitionJob,
             ProjectStatus, vars, workerVars, Goto, TypeOK
    <3>2. CASE v # w
      <4>1. Recover(w) \/ Drain(w) \/ Execute(w) \/ Break(w) \/ Exit(w) \/ Restart(w)
              \/ UNCHANGED <<pc, held>>
        BY <2>3 DEF Engine, Silent, Started, Completed, Moved, Concluded, Released, Publish,
                    Stop, Recover, Drain, Execute, vars, workerVars
      <4>2. CASE Exit(w) \/ Restart(w)
        BY <2>2, <3>2, <4>2 DEF Exit, Restart, Goto, TypeOK
      <4>3. QED
        BY <2>2, <3>2, <4>1, <4>2, OthersKeep
    <3>3. QED
      BY <3>1, <3>2
  <2>4. pc'[v] \in {"send", "complete"} /\ held'[v] = held[v]
    BY <2>2, <2>3, FaultFree DEF PublishAccepted, Time, BackoffElapses, LeaseExpires,
                                 notices, vars, workerVars
  <2>5. QED
    BY <2>2, <2>4
<1>4. QED
  BY <1>1, <1>2, <1>3

\* Reading, sending and ending change no rows, and end nothing that is to be told.
LEMMA QuietTells ==
    ASSUME NoticesTypeOK, UntoldIsTold, NEW w \in Workers, Then(w, Nothing),
           \/ FindStaleJobs(w) \/ ReleaseRefused(w) \/ FindDueJobIds(w) \/ ClaimRefused(w)
           \/ ReadClaimed(w) \/ EndTick(w) \/ StartRefused(w) \/ Send(w) \/ Break(w)
    PROVE  UntoldIsTold'
<1>1. \A v \in Workers \ {w} : pc'[v] = pc[v] /\ held'[v] = held[v]
  BY OthersKeep DEF Recover, Drain, Execute, NoticesTypeOK
<1>2. UNCHANGED <<jobs, attempts, eventStatus>>
  BY DEF FindStaleJobs, ReleaseRefused, FindDueJobIds, ClaimRefused, ReadClaimed, EndTick,
         StartRefused, Send, Break, dbVars
<1>3. Changed = {}
  BY <1>2 DEF Changed
<1>4. pc[w] \in Telling => pc'[w] \in Telling /\ held'[w] = held[w]
  BY DEF FindStaleJobs, ReleaseRefused, FindDueJobIds, ClaimRefused, ReadClaimed, EndTick,
         StartRefused, Send, Break, Telling, InFlight, Goto, NoticesTypeOK, TypeOK
<1>5. ASSUME NEW i \in Jobs, FreshClaim(i), Starts(w, i) PROVE Starts(w, i)'
  <2>1. CASE ReadClaimed(w)
    BY <1>2, <1>5, <2>1 DEF ReadClaimed, Starts, Read, Goto, NoticesTypeOK, TypeOK, FreshClaim
  <2>2. CASE StartRefused(w)
    BY <1>5, <2>2 DEF StartRefused, Starts, FreshClaim
  <2>3. QED
    BY <1>2, <1>5, <2>1, <2>2
       DEF FindStaleJobs, ReleaseRefused, FindDueJobIds, ClaimRefused, EndTick, Send,
           Break, Starts
<1>6. QED
  BY <1>1, <1>2, <1>3, <1>4, <1>5, StepTells

\* Closing the rows of an executor that is alive leaves the telling to it.
LEMMA CloseTells ==
    ASSUME NoticesTypeOK, OpenRowFlown, UntoldIsTold, NEW w \in Workers,
           CloseAbandoned(w), Then(w, Nothing)
    PROVE  UntoldIsTold'
<1>1. \A v \in Workers \ {w} : pc'[v] = pc[v] /\ held'[v] = held[v]
  BY OthersKeep DEF Recover, NoticesTypeOK
<1>2. /\ pc[w] = "sweep"
      /\ UNCHANGED <<jobs, eventStatus>>
      /\ \A i \in Jobs : DOMAIN attempts'[i] = DOMAIN attempts[i]
  BY DEF CloseAbandoned, Closed, NoticesTypeOK, TypeOK
<1>3. ASSUME NEW i \in Changed PROVE \E v \in Workers : Tells(v, i)
  <2>1. i \in Jobs /\ attempts'[i] # attempts[i]
    BY <1>2 DEF Changed
  <2>2. attempts'[i] = Closed(attempts[i])
    BY <2>1 DEF CloseAbandoned, NoticesTypeOK, TypeOK
  <2>3. PICK n \in DOMAIN attempts[i] : attempts[i][n] = "IN_PROGRESS"
    BY <2>1, <2>2 DEF Closed, NoticesTypeOK, TypeOK
  <2>4. QED
    BY <2>1, <2>3 DEF OpenRowFlown, Tells, Telling, InFlight
<1>4. pc[w] \notin Telling /\ \A i \in Jobs : ~Starts(w, i)
  BY <1>2 DEF Telling, InFlight, Starts
<1>5. QED
  BY <1>1, <1>2, <1>3, <1>4, StepTells

\* A claim is fresh: its number has no row.
LEMMA ClaimTells ==
    ASSUME NoticesTypeOK, NumbersClaimed, UntoldIsTold, NEW w \in Workers,
           Claim(w), Then(w, Nothing)
    PROVE  UntoldIsTold'
<1>1. \A v \in Workers \ {w} : pc'[v] = pc[v] /\ held'[v] = held[v]
  BY OthersKeep DEF Drain, NoticesTypeOK
<1>2. PICK j \in Jobs : /\ jobs'[j].status = "DELIVERING"
                        /\ jobs'[j].attemptCount = jobs[j].attemptCount + 1
                        /\ \A i \in Jobs \ {j} : jobs'[i] = jobs[i]
                        /\ held'[w].eventId = j
  BY ClaimRow DEF NoticesTypeOK
<1>3. pc[w] = "loop" /\ pc'[w] = "read" /\ UNCHANGED <<attempts, eventStatus>>
  BY DEF Claim, Goto, NoticesTypeOK, TypeOK
<1>4. jobs'[j].attemptCount \notin DOMAIN attempts[j]
  <2>1. jobs[j].attemptCount \in Nat /\ DOMAIN attempts[j] \subseteq 1 .. jobs[j].attemptCount
    BY DEF NumbersClaimed, NoticesTypeOK, TypeOK, JobRow
  <2>2. QED
    BY <1>2, <2>1
<1>5. FreshClaim(j)'
  BY <1>2, <1>3, <1>4 DEF FreshClaim, Starts
<1>6. pc[w] \notin Telling /\ \A i \in Jobs : ~Starts(w, i)
  BY <1>3 DEF Telling, InFlight, Starts
<1>7. \A i \in Changed : FreshClaim(i)'
  BY <1>2, <1>3, <1>5 DEF Changed
<1>8. QED
  BY <1>1, <1>2, <1>3, <1>5, <1>6, <1>7, StepTells

\* Who moves a job, or has moved it, is bound to tell.
LEMMA MoveTells ==
    ASSUME NoticesTypeOK, UntoldIsTold, NEW w \in Workers, Then(w, Nothing),
           ReleaseStaleJob(w) \/ TransitionJob(w)
    PROVE  UntoldIsTold'
<1>1. \A v \in Workers \ {w} : pc'[v] = pc[v] /\ held'[v] = held[v]
  BY OthersKeep DEF Recover, Execute, NoticesTypeOK
<1>2. /\ pc[w] \in {"release", "transition"}
      /\ pc'[w] \in {"projectRelease", "project"}
      /\ UNCHANGED <<held, attempts, eventStatus>>
  BY DEF ReleaseStaleJob, TransitionJob, Goto, NoticesTypeOK, TypeOK
<1>3. \A i \in Jobs : i # held[w].eventId => jobs'[i] = jobs[i]
  BY DEF ReleaseStaleJob, TransitionJob, WriteStatus, NoticesTypeOK, TypeOK
<1>4. \A i \in Jobs : i = held[w].eventId => Tells(w, i)'
  BY <1>2 DEF Tells, Telling
<1>5. \A i \in Changed : Tells(w, i)'
  BY <1>2, <1>3, <1>4 DEF Changed
<1>6. (\A i \in Jobs : ~Starts(w, i)) /\ pc'[w] \in Telling
  BY <1>2 DEF Starts, Telling
<1>7. QED
  BY <1>1, <1>2, <1>3, <1>4, <1>5, <1>6, StepTells

\* The steps that say something of the job in hand.
LEMMA SaidTells ==
    ASSUME NoticesTypeOK, UntoldIsTold, NEW w \in Workers, NEW m, Then(w, m),
           m.eventId = held[w].eventId,
           StartAttempt(w) \/ CompleteAttempt(w) \/ ProjectStatus(w) \/ ProjectRelease(w)
    PROVE  UntoldIsTold'
<1>1. \A v \in Workers \ {w} : pc'[v] = pc[v] /\ held'[v] = held[v]
  BY OthersKeep DEF Recover, Execute, NoticesTypeOK
<1>2. \A i \in Jobs : i = held[w].eventId => Tells(w, i)'
  BY DEF Then, Tells, NoticesTypeOK
<1>3. \A i \in Jobs : i # held[w].eventId => /\ jobs'[i] = jobs[i]
                                             /\ attempts'[i] = attempts[i]
                                             /\ eventStatus'[i] = eventStatus[i]
                                             /\ ~Starts(w, i)
  BY DEF StartAttempt, CompleteAttempt, ProjectStatus, ProjectRelease, Starts,
         NoticesTypeOK, TypeOK
<1>4. \A i \in Changed : i = held[w].eventId
  BY <1>3 DEF Changed
<1>5. Changed \subseteq Jobs
  BY DEF Changed
<1>6. QED
  BY <1>1, <1>2, <1>3, <1>4, <1>5, StepTells

\* An attempt that is completed without a message is followed by a transition.
LEMMA CompletedTells ==
    ASSUME NoticesTypeOK, UntoldIsTold, NEW w \in Workers, CompleteAttempt(w),
           Then(w, Nothing)
    PROVE  UntoldIsTold'
<1>1. \A v \in Workers \ {w} : pc'[v] = pc[v] /\ held'[v] = held[v]
  BY OthersKeep DEF Execute, NoticesTypeOK
<1>2. pc'[w] = "transition" /\ UNCHANGED <<jobs, held, eventStatus>>
  BY DEF CompleteAttempt, Goto, NoticesTypeOK, TypeOK
<1>3. pc'[w] \in Telling /\ \A i \in Jobs : i = held[w].eventId => Tells(w, i)'
  BY <1>2 DEF Tells, Telling, InFlight
<1>4. \A i \in Jobs : i # held[w].eventId => attempts'[i] = attempts[i] /\ ~Starts(w, i)
  BY DEF CompleteAttempt, Starts, NoticesTypeOK, TypeOK
<1>5. \A i \in Changed : Tells(w, i)'
  BY <1>2, <1>3, <1>4 DEF Changed
<1>6. QED
  BY <1>1, <1>2, <1>3, <1>4, <1>5, StepTells

\* What is published is told.
LEMMA PublishTells ==
    ASSUME NoticesTypeOK, UntoldIsTold,
           \/ \E w \in Workers : Publish(w)
           \/ \E j \in Jobs : PublishAccepted(j)
    PROVE  UntoldIsTold'
<1>1. ASSUME NEW w \in Workers, Publish(w) PROVE UntoldIsTold'
  <2>1. /\ UNCHANGED <<jobs, attempts, pc, held, accepting>>
        /\ untold' = untold \ {saying[w].eventId}
        /\ \A v \in Workers \ {w} : saying'[v] = saying[v]
    BY <1>1 DEF Publish, Heard, vars, dbVars, workerVars, NoticesTypeOK
  <2>2. ASSUME NEW i \in Jobs, FreshClaim(i) PROVE FreshClaim(i)'
    BY <2>1, <2>2 DEF FreshClaim, Starts
  <2>3. ASSUME NEW i \in untold', NEW v \in Workers, Tells(v, i) PROVE Tells(v, i)'
    BY <2>1, <2>3 DEF Tells
  <2>4. QED
    BY <2>1, <2>2, <2>3 DEF UntoldIsTold, NoticesTypeOK
<1>2. ASSUME NEW j \in Jobs, PublishAccepted(j) PROVE UntoldIsTold'
  <2>1. /\ UNCHANGED <<jobs, attempts, pc, held, saying>>
        /\ accepting' = accepting \ {j}
        /\ untold' = untold \ {j}
    BY <1>2 DEF PublishAccepted, Heard, AcceptedMessage, Nothing, vars, dbVars, workerVars
  <2>2. QED
    BY <2>1 DEF UntoldIsTold, FreshClaim, Starts, Tells
<1>3. QED
  BY <1>1, <1>2

\* Stopping, exiting and starting, and the passing of time.
LEMMA RestTells ==
    ASSUME NoticesTypeOK, UntoldIsTold,
           \/ \E w \in Workers : Stop(w) \/ Exit(w) \/ (Restart(w) /\ UNCHANGED speech)
           \/ Time /\ UNCHANGED speech
           \/ UNCHANGED notices
    PROVE  UntoldIsTold'
<1>1. ASSUME NEW w \in Workers, Exit(w) \/ (Restart(w) /\ UNCHANGED speech)
      PROVE  UntoldIsTold'
  <2>1. /\ UNCHANGED <<jobs, attempts, held, saying, accepting, untold>>
        /\ pc[w] \in {"idle", "down"}
        /\ \A v \in Workers \ {w} : pc'[v] = pc[v]
    BY <1>1 DEF Exit, Restart, speech, dbVars, Goto, NoticesTypeOK, TypeOK
  <2>2. ASSUME NEW i \in Jobs, NEW v \in Workers, Starts(v, i) PROVE Starts(v, i)'
    BY <2>1, <2>2 DEF Starts
  <2>3. ASSUME NEW i \in Jobs, NEW v \in Workers, Tells(v, i) PROVE Tells(v, i)'
    BY <2>1, <2>3 DEF Tells, Telling, InFlight
  <2>4. QED
    BY <2>1, <2>2, <2>3 DEF UntoldIsTold, FreshClaim, NoticesTypeOK
<1>2. ASSUME NEW w \in Workers, Stop(w) PROVE UntoldIsTold'
  BY <1>2 DEF Stop, vars, dbVars, workerVars, UntoldIsTold, FreshClaim, Starts, Tells
<1>3. CASE Time /\ UNCHANGED speech
  BY <1>3 DEF Time, BackoffElapses, LeaseExpires, speech, workerVars, UntoldIsTold,
              FreshClaim, Starts, Tells
<1>4. CASE UNCHANGED notices
  BY <1>4 DEF notices, speech, vars, dbVars, workerVars, UntoldIsTold, FreshClaim, Starts,
              Tells
<1>5. QED
  BY <1>1, <1>2, <1>3, <1>4

----------------------------------------------------------------------------
(* The theorems                                                            *)

\* Nothing has happened, and every event is still to be announced.
LEMMA NoticesInvInit == NoticesInit => NoticesInv
<1> SUFFICES ASSUME NoticesInit PROVE NoticesInv
  OBVIOUS
<1>1. NoticesTypeOK
  BY InitType DEF NoticesInit, NoticesTypeOK, AcceptedMessage, Nothing, Message,
                  DeliveryStatus
<1>2. NoJobStranded /\ NumbersClaimed /\ OpenRowFlown
  BY DEF NoticesInit, Init, NoJobStranded, NumbersClaimed, OpenRowFlown,
         CLAIMABLE_STATUSES, Executing, InFlight
<1>3. UntoldIsTold
  BY DEF NoticesInit, UntoldIsTold
<1>4. QED
  BY <1>1, <1>2, <1>3 DEF NoticesInv

\* Every step keeps the invariant.
LEMMA NoticesInvStep == NoticesInv /\ [NoticesNext]_notices => NoticesInv'
<1> SUFFICES ASSUME NoticesInv, [NoticesNext]_notices PROVE NoticesInv'
  OBVIOUS
<1>1. NoticesTypeOK /\ NoticesTypeOK'
  BY NoticesTypeStep DEF NoticesInv
<1>0. NoJobStranded' /\ NumbersClaimed'
  BY NoticesNumbers DEF NoticesInv
<1>2. SUFFICES ASSUME faults' = 0 PROVE OpenRowFlown' /\ UntoldIsTold'
  BY <1>0, <1>1 DEF NoticesInv
<1>3. /\ NoJobStranded /\ NumbersClaimed /\ OpenRowFlown /\ UntoldIsTold
      /\ \/ \E w \in Workers : Engine(w)
         \/ \E j \in Jobs : PublishAccepted(j)
         \/ Time /\ UNCHANGED speech
         \/ UNCHANGED notices
  BY <1>1, <1>2, FaultFree DEF NoticesInv
<1>4. OpenRowFlown'
  BY <1>1, <1>2, <1>3, FlownStep
<1>5. ASSUME NEW w \in Workers, Engine(w) PROVE UntoldIsTold'
  <2>1. CASE Silent(w) \/ Break(w)
    BY <1>1, <1>3, <2>1, QuietTells, CloseTells, ClaimTells, MoveTells DEF Silent, Break
  <2>2. CASE Started(w)
    <3>1. Saying(w, "DELIVERING").eventId = held[w].eventId
      BY DEF Saying
    <3>2. QED
      BY <1>1, <1>3, <2>2, <3>1, SaidTells DEF Started
  <2>3. CASE Completed(w)
    <3>1. Saying(w, "DELIVERING").eventId = held[w].eventId
      BY DEF Saying
    <3>2. QED
      BY <1>1, <1>3, <2>3, <3>1, SaidTells, CompletedTells DEF Completed
  <2>4. CASE Moved(w)
    BY <1>1, <1>3, <2>4, MoveTells DEF Moved
  <2>5. CASE Concluded(w)
    <3>1. Saying(w, Outcome(w)).eventId = held[w].eventId
      BY DEF Saying
    <3>2. QED
      BY <1>1, <1>3, <2>5, <3>1, SaidTells DEF Concluded
  <2>6. CASE Released(w)
    <3>1. Saying(w, Recovered(held[w])).eventId = held[w].eventId
      BY DEF Saying
    <3>2. QED
      BY <1>1, <1>3, <2>6, <3>1, SaidTells DEF Released
  <2>7. CASE Publish(w)
    BY <1>1, <1>3, <2>7, PublishTells
  <2>8. CASE Stop(w) \/ Exit(w) \/ (Restart(w) /\ UNCHANGED speech)
    BY <1>1, <1>3, <2>8, RestTells
  <2>9. QED
    BY <1>5, <2>1, <2>2, <2>3, <2>4, <2>5, <2>6, <2>7, <2>8 DEF Engine
<1>6. QED
  BY <1>1, <1>3, <1>4, <1>5, PublishTells, RestTells

\* Types, numbers and, as long as nothing has failed, the telling.
THEOREM NoticesInvariant == NoticesSpec => []NoticesInv
BY NoticesInvInit, NoticesInvStep, PTL DEF NoticesSpec

\* Every variable keeps its type: what is said are messages.
THEOREM NoticesTypeCorrect == NoticesSpec => []NoticesTypeOK
<1>1. NoticesInv => NoticesTypeOK
  BY DEF NoticesInv
<1>2. QED
  BY <1>1, NoticesInvariant, PTL

\* With any number of workers that stall, overwrite each other and are asked to
\* stop, no change stays untold as long as nothing has failed.
THEOREM EveryChangeIsToldAlways == NoticesSpec => []EveryChangeIsTold
<1>1. NoticesInv => EveryChangeIsTold
  <2> SUFFICES ASSUME NoticesInv, faults = 0, NEW j \in untold
               PROVE  j \in accepting \/ \E w \in Workers : Busy(w, j)
    BY DEF EveryChangeIsTold
  <2>1. \A w \in Workers : Tells(w, j) \/ Starts(w, j) => Busy(w, j)
    BY DEF Tells, Starts, Busy
  <2>2. QED
    BY <2>1 DEF NoticesInv, UntoldIsTold, FreshClaim
<1>2. QED
  BY <1>1, NoticesInvariant, PTL

----------------------------------------------------------------------------
(* What Delivery promises, however many workers run                        *)

\* A worker between two jobs has dropped the one before.
EmptyHands == \A w \in Workers : pc[w] \notin Holding => held[w] = NoEntity

\* The invariants of Delivery that no number of workers, stops or losses breaks.
EngineInv == /\ RowReserved
             /\ NoSharedAttempt
             /\ ClaimsPaidFor
             /\ AnsweredOnce
             /\ ResultAnswered
             /\ OutcomeHasAReason
             /\ EmptyHands

\* Whoever leaves a job drops it.
LEMMA EmptyStep ==
    ASSUME TypeOK, EmptyHands, [Next]_vars \/ Rests
    PROVE  EmptyHands'
<1>1. CASE Rests
  BY <1>1 DEF EmptyHands, Rests, Resting, Holding, Executing, InFlight
<1>2. ASSUME NEW w \in Workers, Acts(w) PROVE EmptyHands'
  <2>1. \A v \in Workers : v # w => pc'[v] = pc[v] /\ held'[v] = held[v]
    BY <1>2, ActsOnOne
  <2>2. pc'[w] \in Holding \/ held'[w] = NoEntity
    BY <1>2 DEF Acts, Execute, Fault, TypeOK, Goto, Drop, Holding, Executing, InFlight,
         CloseAbandoned, ReleaseStaleJob, ReleaseRefused, ProjectRelease, Claim, ReadClaimed,
         StartAttempt, StartRefused, Send, CompleteAttempt, TransitionJob, ProjectStatus,
         JobThrows, TickThrows, Crash
  <2>3. QED
    BY <2>1, <2>2 DEF EmptyHands
<1>3. QED
  BY <1>1, <1>2, StepKinds

\* A step that touches neither rows nor jobs in hand keeps them.
LEMMA EngineRests ==
    ASSUME TypeOK, EngineInv, Rests
    PROVE  EngineInv'
<1> USE DEF EngineInv, Rests, Resting, InFlight, Settled
<1>1. RowReserved' /\ NoSharedAttempt'
  BY DEF RowReserved, NoSharedAttempt
<1>2. ASSUME NEW j \in Jobs
      PROVE  /\ SpentByExecutor(j)' = SpentByExecutor(j)
             /\ SpentByRecovery(j)' = SpentByRecovery(j)
             /\ Pending(j)' = Pending(j)
  BY DEF SpentByExecutor, SpentByRecovery, Flies, Pending, Retriable
<1>3. ClaimsPaidFor'
  BY <1>2 DEF ClaimsPaidFor
<1>4. AnsweredOnce' /\ ResultAnswered' /\ OutcomeHasAReason'
  BY DEF AnsweredOnce, ResultAnswered, OutcomeHasAReason, Answered
<1>5. EmptyHands'
  BY EmptyStep
<1>6. QED
  BY <1>1, <1>3, <1>4, <1>5

\* Every step keeps them.
LEMMA EngineStep ==
    ASSUME NoticesInv, EngineInv, [NoticesNext]_notices
    PROVE  EngineInv'
<1>1. TypeOK /\ NoJobStranded /\ NumbersClaimed
  BY DEF NoticesInv, NoticesTypeOK
<1>2. CASE [Next]_vars
  BY <1>1, <1>2, ReservedStep, SharedStep, PaidStep, OnceStep, AnsweredStep, ReasonStep,
     EmptyStep DEF EngineInv
<1>3. QED
  BY <1>1, <1>2, EngineOrRests, EngineRests

\* Nothing is claimed or answered yet.
LEMMA EngineInit == NoticesInit => EngineInv
BY NothingClaimed
   DEF NoticesInit, Init, EngineInv, RowReserved, NoSharedAttempt, AnsweredOnce, ResultAnswered,
       OutcomeHasAReason, InFlight, Settled, EmptyHands

\* The invariants hold in every run.
LEMMA EngineAlways == NoticesSpec => []EngineInv
BY EngineInit, EngineStep, NoticesInvariant, PTL DEF NoticesSpec

\* Workers that are asked to stop between two jobs or in the middle of a tick, and
\* messages that are lost, cost Delivery none of what it promises of any number of
\* workers: no job is out of reach, no attempt is made twice, a job is claimed at
\* most 2 * MaxAttempts - 1 times and ends for a reason.
THEOREM StopsAreSafe ==
    NoticesSpec => []( /\ NoJobStranded
                       /\ NoSharedAttempt
                       /\ AttemptBound
                       /\ OutcomeHasAReason)
<1> DEFINE Promised == /\ NoJobStranded
                       /\ NoSharedAttempt
                       /\ AttemptBound
                       /\ OutcomeHasAReason
<1>1. NoticesInv /\ EngineInv => Promised
  BY BoundedClaims DEF NoticesInv, NoticesTypeOK, EngineInv
<1>2. NoticesSpec => []Promised
  BY <1>1, NoticesInvariant, EngineAlways, PTL
<1>3. QED
  BY <1>2

----------------------------------------------------------------------------
(* As long as no two workers have had the same job in hand                 *)

\* What message m says of event j can be read in the database.
Readable(j, m) ==
    LET row == jobs[j]
    IN  /\ Progress(m.status, m.attemptNumber) <= Progress(row.status, row.attemptCount)
        /\ m.status # "DELIVERING" =>
             \/ m.attemptNumber < row.attemptCount
             \/ row.status = m.status /\ eventStatus[j] = m.status

\* So it is for what was said and for what is going to be.
SpeechIsTrue ==
    \A j \in Jobs : /\ Readable(j, said[j])
                    /\ Readable(j, AcceptedMessage(j))
                    /\ \A w \in Workers : saying[w].eventId = j => Readable(j, saying[w])

ToldInv == ~shared => HandsApart /\ ApartInv /\ SpeechIsTrue

\* Hands that have been apart are so after a step that is no sharing.
LEMMA ApartStep ==
    ASSUME NoticesTypeOK, NoticesTypeOK', HandsApart, [NoticesNext]_notices, ~shared'
    PROVE  ~shared /\ HandsApart'
<1>1. ASSUME NEW w \in Workers, NEW m, Then(w, m) PROVE ~shared /\ HandsApart'
  BY <1>1 DEF Then, Sharing, HandsApart
<1>2. ASSUME shared' = shared,
             \A v \in Workers : held'[v] \in {held[v], NoEntity}
      PROVE  ~shared /\ HandsApart'
  <2>1. \A v \in Workers : held[v] = NoEntity \/ held[v].eventId # None
    BY DeliveryAssumption DEF NoticesTypeOK, TypeOK, Entity
  <2>2. QED
    BY <1>2, <2>1 DEF HandsApart, NoEntity
<1>3. ASSUME NEW w \in Workers, Dies(w) \/ Throws(w) \/ Exit(w) \/ Publish(w) \/ Stop(w)
                                  \/ (Restart(w) /\ UNCHANGED speech)
      PROVE  shared' = shared /\ \A v \in Workers : held'[v] \in {held[v], NoEntity}
  BY <1>3 DEF Dies, Throws, ReplyLost, Exit, Publish, Stop, Restart, Crash, JobThrows,
              TickThrows, Drop, speech, vars, workerVars, NoticesTypeOK, TypeOK
<1>4. ASSUME \/ \E j \in Jobs : PublishAccepted(j)
             \/ Unheard
             \/ Time /\ UNCHANGED speech
             \/ UNCHANGED notices
      PROVE  shared' = shared /\ held' = held
  BY <1>4 DEF PublishAccepted, Unheard, Time, BackoffElapses, LeaseExpires, speech, notices,
              vars, workerVars
<1>5. ASSUME NEW w \in Workers, Engine(w)
      PROVE  \/ \E m : Then(w, m)
             \/ Exit(w) \/ Publish(w) \/ Stop(w) \/ (Restart(w) /\ UNCHANGED speech)
  BY <1>5 DEF Engine, Silent, Started, Completed, Moved, Concluded, Released, Break
<1>6. QED
  BY <1>1, <1>2, <1>3, <1>4, <1>5 DEF NoticesNext

\* What a step does to the rows of event j: a claim, an end, or no move, with
\* at most the projection caught up.
Anew(j) == /\ jobs[j].status # "DELIVERING"
           /\ jobs'[j].status = "DELIVERING"
           /\ jobs'[j].attemptCount = jobs[j].attemptCount + 1

Ended(j) == /\ jobs[j].status = "DELIVERING"
            /\ jobs'[j].status # "DELIVERING"
            /\ jobs'[j].attemptCount = jobs[j].attemptCount

Stays(j) == /\ jobs'[j] = jobs[j]
            /\ eventStatus'[j] \in {eventStatus[j], jobs[j].status}

\* Every step of the engine does one of the three.
LEMMA RowsMove ==
    ASSUME NoticesTypeOK, NoticesTypeOK', \A w \in Workers : JobInHand(w),
           [NoticesNext]_notices, NEW j \in Jobs
    PROVE  Anew(j) \/ Ended(j) \/ Stays(j)
<1> USE DEF DeliveryStatus
<1>1. ASSUME NEW w \in Workers, NEW s \in {"DELIVERED", "FAILED", "RETRYING"},
             held[w] \in Entity, WriteStatus(held[w].eventId, s),
             jobs[held[w].eventId].status = "DELIVERING", UNCHANGED eventStatus
      PROVE  Ended(j) \/ Stays(j)
  <2>1. s \in DeliveryStatus /\ held[w].eventId \in Jobs
    BY <1>1 DEF Entity
  <2>2. /\ jobs'[held[w].eventId].status = s
        /\ jobs'[held[w].eventId].attemptCount = jobs[held[w].eventId].attemptCount
        /\ \A i \in Jobs \ {held[w].eventId} : jobs'[i] = jobs[i]
    BY <1>1, <2>1, WriteStatusRow DEF NoticesTypeOK
  <2>3. QED
    BY <1>1, <2>2 DEF Ended, Stays
<1>2. ASSUME NEW w \in Workers, TransitionJob(w) PROVE Ended(j) \/ Stays(j)
  <2>1. pc[w] = "transition" /\ UNCHANGED eventStatus
    BY <1>2 DEF TransitionJob
  <2>2. jobs[held[w].eventId].status = "DELIVERING"
    BY <2>1 DEF JobInHand, InFlight
  <2>3. QED
    BY <1>1, <1>2, <2>1, <2>2, TransitionRow DEF NoticesTypeOK
<1>3. ASSUME NEW w \in Workers, ReleaseStaleJob(w) PROVE Ended(j) \/ Stays(j)
  <2>1. UNCHANGED eventStatus /\ jobs[held[w].eventId].status = "DELIVERING"
    BY <1>3 DEF ReleaseStaleJob, StillStale
  <2>2. QED
    BY <1>1, <1>3, <2>1, ReleaseRow DEF NoticesTypeOK
<1>4. ASSUME NEW w \in Workers, Claim(w) PROVE Anew(j) \/ Stays(j)
  <2>1. UNCHANGED eventStatus
    BY <1>4 DEF Claim
  <2>2. QED
    BY <1>4, <2>1, ClaimRow
       DEF NoticesTypeOK, Anew, Stays, Claimable, CLAIMABLE_STATUSES
<1>5. ASSUME NEW w \in Workers, ProjectStatus(w) \/ ProjectRelease(w) PROVE Stays(j)
  BY <1>5 DEF ProjectStatus, ProjectRelease, JobInHand, Stays, NoticesTypeOK, TypeOK
<1>6. CASE UNCHANGED <<jobs, eventStatus>>
  BY <1>6 DEF Stays
<1>7. CASE [Next]_vars
  <2>1. \/ UNCHANGED <<jobs, eventStatus>>
        \/ \E w \in Workers : \/ TransitionJob(w) \/ ReleaseStaleJob(w) \/ Claim(w)
                              \/ ProjectStatus(w) \/ ProjectRelease(w)
    BY <1>7 DEF Next, Work, Recover, Drain, Execute, Fault, Time, vars, dbVars,
         FindStaleJobs, CloseAbandoned, ReleaseRefused, FindDueJobIds, ClaimRefused,
         ReadClaimed, EndTick, StartAttempt, StartRefused, Send, CompleteAttempt,
         JobThrows, TickThrows, Crash, Restart, BackoffElapses, LeaseExpires
  <2>2. QED
    BY <1>2, <1>3, <1>4, <1>5, <1>6, <2>1
<1>8. CASE StopSteps \/ LossSteps
  BY <1>6, <1>8 DEF StopSteps, LossSteps, Break, Exit, Unheard, ReplyLost, dbVars
<1>9. QED
  BY <1>7, <1>8, NoticesSteps

\* What can be read stays so.
LEMMA StaysReadable ==
    ASSUME NoticesTypeOK, NoticesTypeOK', NEW j \in Jobs, NEW m \in Message,
           Readable(j, m), Anew(j) \/ Ended(j) \/ Stays(j)
    PROVE  Readable(j, m)'
<1> DEFINE row == jobs[j]
           next == jobs'[j]
<1>1. /\ row.attemptCount \in Nat /\ next.attemptCount \in Nat
      /\ m.attemptNumber \in Nat
  BY DEF NoticesTypeOK, TypeOK, JobRow, Message
<1>2. CASE Anew(j)
  BY <1>1, <1>2 DEF Anew, Readable, Progress
<1>3. CASE Ended(j)
  BY <1>1, <1>3 DEF Ended, Readable, Progress
<1>4. CASE Stays(j)
  BY <1>1, <1>4 DEF Stays, Readable, Progress
<1>5. QED
  BY <1>2, <1>3, <1>4

\* What a worker says of the job in its hands can be read when it says so.
LEMMA SaidReadable ==
    ASSUME NoticesTypeOK, NoticesTypeOK', \A w \in Workers : JobInHand(w),
           NEW w \in Workers, NEW m \in Message, m.eventId = held[w].eventId,
           \/ Started(w) /\ m = Saying(w, "DELIVERING")
           \/ Completed(w) /\ m = Saying(w, "DELIVERING")
           \/ Concluded(w) /\ m = Saying(w, Outcome(w))
           \/ Released(w) /\ m = Saying(w, Recovered(held[w]))
    PROVE  m.eventId \in Jobs /\ Readable(m.eventId, m)'
<1>0. m.eventId \in Jobs
  <2>1. pc[w] \in Holding
    BY DEF Started, Completed, Concluded, Released, StartAttempt, CompleteAttempt,
           ProjectStatus, ProjectRelease, Holding, Executing, InFlight
  <2>2. QED
    BY <2>1 DEF NoticesTypeOK, TypeOK, Entity
<1> DEFINE row == jobs[m.eventId]
<1>1. row.attemptCount \in Nat /\ m.attemptNumber = held[w].attemptCount
  BY <1>0 DEF NoticesTypeOK, TypeOK, JobRow, Saying
<1>2. CASE (Started(w) \/ Completed(w)) /\ m = Saying(w, "DELIVERING")
  <2>1. pc[w] \in {"start"} \cup InFlight /\ jobs' = jobs
    BY <1>2 DEF Started, Completed, StartAttempt, CompleteAttempt, InFlight
  <2>2. m.status = "DELIVERING" /\ row.status = "DELIVERING"
          /\ row.attemptCount = m.attemptNumber
    BY <1>1, <1>2, <2>1 DEF JobInHand, Saying
  <2>3. QED
    BY <1>0, <1>1, <2>1, <2>2 DEF Readable, Progress
<1>3. CASE Concluded(w) /\ m = Saying(w, Outcome(w))
  <2>1. /\ pc[w] = "project" /\ jobs' = jobs
        /\ eventStatus'[m.eventId] = Outcome(w)
    BY <1>0, <1>3 DEF Concluded, ProjectStatus, NoticesTypeOK, TypeOK
  <2>2. /\ m.status = Outcome(w) /\ row.status = Outcome(w)
        /\ row.attemptCount = m.attemptNumber
    BY <1>1, <1>3, <2>1 DEF JobInHand, Saying
  <2>3. QED
    BY <1>0, <1>1, <2>1, <2>2 DEF Readable, Progress
<1>4. CASE Released(w) /\ m = Saying(w, Recovered(held[w]))
  <2>1. /\ pc[w] = "projectRelease" /\ jobs' = jobs
        /\ eventStatus'[m.eventId] = Recovered(held[w])
    BY <1>0, <1>4 DEF Released, ProjectRelease, NoticesTypeOK, TypeOK
  <2>2. /\ m.status = Recovered(held[w]) /\ row.status = Recovered(held[w])
        /\ row.attemptCount = m.attemptNumber
    BY <1>1, <1>4, <2>1 DEF JobInHand, Saying
  <2>3. QED
    BY <1>0, <1>1, <2>1, <2>2 DEF Readable, Progress
<1>5. QED
  BY <1>0, <1>2, <1>3, <1>4

\* A worker that has something to say after a step had it before, or says what
\* it has just done.
LEMMA Spoken ==
    ASSUME NoticesTypeOK, [NoticesNext]_notices, NEW v \in Workers,
           saying'[v] # Nothing
    PROVE  \/ saying'[v] = saying[v]
           \/ Started(v) /\ saying'[v] = Saying(v, "DELIVERING")
           \/ Completed(v) /\ saying'[v] = Saying(v, "DELIVERING")
           \/ Concluded(v) /\ saying'[v] = Saying(v, Outcome(v))
           \/ Released(v) /\ saying'[v] = Saying(v, Recovered(held[v]))
<1>1. ASSUME NEW w \in Workers, Engine(w), saying'[v] # saying[v]
      PROVE  \/ Started(v) /\ saying'[v] = Saying(v, "DELIVERING")
             \/ Completed(v) /\ saying'[v] = Saying(v, "DELIVERING")
             \/ Concluded(v) /\ saying'[v] = Saying(v, Outcome(v))
             \/ Released(v) /\ saying'[v] = Saying(v, Recovered(held[v]))
  <2>1. ASSUME NEW m, Then(w, m) PROVE v = w /\ saying'[v] = m
    BY <1>1, <2>1 DEF Then, NoticesTypeOK
  <2>2. CASE Started(w)
    BY <2>1, <2>2 DEF Started
  <2>3. CASE Completed(w)
    <3>1. Then(w, Saying(w, "DELIVERING")) \/ Then(w, Nothing)
      BY <2>3 DEF Completed
    <3>2. QED
      BY <2>1, <2>3, <3>1
  <2>4. CASE Concluded(w)
    BY <2>1, <2>4 DEF Concluded
  <2>5. CASE Released(w)
    BY <2>1, <2>5 DEF Released
  <2>6. CASE Silent(w) \/ Moved(w) \/ Break(w)
    BY <2>1, <2>6 DEF Silent, Moved, Break
  <2>7. CASE Publish(w) \/ Stop(w) \/ Exit(w) \/ (Restart(w) /\ UNCHANGED speech)
    BY <1>1, <2>7 DEF Publish, Stop, Exit, speech, NoticesTypeOK
  <2>8. QED
    BY <1>1, <2>2, <2>3, <2>4, <2>5, <2>6, <2>7 DEF Engine
<1>2. ASSUME NEW w \in Workers, Dies(w) \/ Throws(w)
      PROVE  saying'[v] = saying[v]
  BY <1>2 DEF Dies, Throws, NoticesTypeOK
<1>3. CASE \/ \E j \in Jobs : PublishAccepted(j)
           \/ Unheard
           \/ Time /\ UNCHANGED speech
           \/ UNCHANGED notices
  BY <1>3 DEF PublishAccepted, Unheard, speech, notices, NoticesTypeOK
<1>4. QED
  BY <1>1, <1>2, <1>3 DEF NoticesNext

\* What was said last of an event was so before, or was about to be said.
LEMMA SaidBefore ==
    ASSUME NoticesTypeOK, [NoticesNext]_notices, NEW j \in Jobs
    PROVE  \/ said'[j] = said[j]
           \/ said'[j] = AcceptedMessage(j)
           \/ \E w \in Workers : saying[w].eventId = j /\ said'[j] = saying[w]
<1>1. ASSUME NEW w \in Workers, Publish(w)
      PROVE  said'[j] = said[j] \/ (saying[w].eventId = j /\ said'[j] = saying[w])
  BY <1>1 DEF Publish, Heard, NoticesTypeOK
<1>2. ASSUME NEW i \in Jobs, PublishAccepted(i)
      PROVE  said'[j] = said[j] \/ said'[j] = AcceptedMessage(j)
  BY <1>2 DEF PublishAccepted, Heard, AcceptedMessage, Nothing, NoticesTypeOK
<1>3. ASSUME NEW w \in Workers, NEW m, Then(w, m) PROVE said' = said
  BY <1>3 DEF Then
<1>4. ASSUME NEW w \in Workers, Engine(w), ~Publish(w) PROVE said' = said
  BY <1>3, <1>4 DEF Engine, Silent, Started, Completed, Moved, Concluded, Released, Break,
                    Stop, Exit, speech
<1>5. ASSUME NEW w \in Workers, Dies(w) \/ Throws(w) PROVE said' = said
  BY <1>5 DEF Dies, Throws
<1>6. CASE Unheard \/ (Time /\ UNCHANGED speech) \/ UNCHANGED notices
  BY <1>6 DEF Unheard, speech, notices
<1>7. QED
  BY <1>1, <1>2, <1>4, <1>5, <1>6 DEF NoticesNext

\* Whatever is said can be read.
LEMMA SpeechStep ==
    ASSUME NoticesTypeOK, NoticesTypeOK', \A w \in Workers : JobInHand(w), SpeechIsTrue,
           [NoticesNext]_notices
    PROVE  SpeechIsTrue'
<1> SUFFICES ASSUME NEW j \in Jobs
             PROVE  /\ Readable(j, said[j])'
                    /\ Readable(j, AcceptedMessage(j))'
                    /\ \A w \in Workers : saying'[w].eventId = j => Readable(j, saying[w])'
  BY DEF SpeechIsTrue
<1>1. ASSUME NEW m \in Message, Readable(j, m) PROVE Readable(j, m)'
  BY <1>1, RowsMove, StaysReadable
<1>2. /\ said[j] \in Message /\ Readable(j, said[j])
      /\ AcceptedMessage(j) \in Message /\ Readable(j, AcceptedMessage(j))
  BY DEF SpeechIsTrue, NoticesTypeOK, AcceptedMessage, Nothing, Message, DeliveryStatus
<1>3. ASSUME NEW w \in Workers, saying[w].eventId = j
      PROVE  saying[w] \in Message /\ Readable(j, saying[w])
  BY <1>3, DeliveryAssumption DEF SpeechIsTrue, NoticesTypeOK, Nothing
<1>4. Readable(j, said[j])'
  BY <1>1, <1>2, <1>3, SaidBefore DEF Readable
<1>5. Readable(j, AcceptedMessage(j))'
  BY <1>1, <1>2 DEF AcceptedMessage, Nothing, Readable
<1>6. ASSUME NEW w \in Workers, saying'[w].eventId = j PROVE Readable(j, saying[w])'
  <2>1. saying'[w] # Nothing /\ saying'[w] \in Message
    BY <1>6, DeliveryAssumption DEF Nothing, NoticesTypeOK
  <2>2. CASE saying'[w] = saying[w]
    BY <1>1, <1>3, <1>6, <2>2 DEF Readable
  <2>3. CASE saying'[w] # saying[w]
    <3>1. PICK m \in Message : m = saying'[w]
      BY <2>1
    <3>2. \/ Started(w) /\ m = Saying(w, "DELIVERING")
          \/ Completed(w) /\ m = Saying(w, "DELIVERING")
          \/ Concluded(w) /\ m = Saying(w, Outcome(w))
          \/ Released(w) /\ m = Saying(w, Recovered(held[w]))
      BY <2>1, <2>3, <3>1, Spoken
    <3>3. m.eventId = held[w].eventId
      BY <3>2 DEF Saying
    <3>4. m.eventId = j
      BY <1>6, <3>1
    <3>5. Readable(m.eventId, m)'
      BY <3>2, <3>3, SaidReadable
    <3>6. QED
      BY <3>1, <3>4, <3>5 DEF Readable
  <2>4. QED
    BY <2>2, <2>3
<1>7. QED
  BY <1>4, <1>5, <1>6

\* A job that was shared stays so.
LEMMA SharedForGood == ASSUME [NoticesNext]_notices, ~shared' PROVE ~shared
BY DEF NoticesNext, Engine, Silent, Started, Completed, Moved, Concluded, Released, Then,
       Publish, PublishAccepted, Unheard, Stop, Break, Exit, Dies, Throws, speech, notices

\* While no job was shared, hands are apart, what holds of such workers does, and
\* what is said is true.
LEMMA ToldStep ==
    ASSUME NoticesInv, NoticesInv', EngineInv, ToldInv, [NoticesNext]_notices
    PROVE  ToldInv'
<1> SUFFICES ASSUME ~shared' PROVE HandsApart' /\ ApartInv' /\ SpeechIsTrue'
  BY DEF ToldInv
<1>1. NoticesTypeOK /\ NoticesTypeOK' /\ NoJobStranded /\ NumbersClaimed
  BY DEF NoticesInv
<1>2. HandsApart /\ ApartInv /\ SpeechIsTrue
  BY SharedForGood DEF ToldInv
<1>3. HandsApart'
  BY <1>1, <1>2, ApartStep
<1>4. ApartInv'
  BY <1>1, <1>2, <1>3, EngineOrRests, ApartInvStep DEF NoticesTypeOK, EngineInv
<1>5. \A w \in Workers : JobInHand(w)
  BY <1>2 DEF ApartInv, OwnerInv
<1>6. QED
  BY <1>1, <1>2, <1>3, <1>4, <1>5, SpeechStep

\* At first only the acceptance can be said, and it can be read.
LEMMA ToldInit == NoticesInit => ToldInv
<1> SUFFICES ASSUME NoticesInit PROVE HandsApart /\ ApartInv /\ SpeechIsTrue
  BY DEF ToldInv
<1>1. HandsApart /\ ApartInv
  BY ApartInit DEF NoticesInit, Init, HandsApart
<1>2. SpeechIsTrue
  BY DeliveryAssumption
     DEF NoticesInit, Init, SpeechIsTrue, Readable, AcceptedMessage, Nothing, Progress
<1>3. QED
  BY <1>1, <1>2

\* The invariant holds in every run.
LEMMA ToldAlways == NoticesSpec => []ToldInv
BY ToldInit, ToldStep, NoticesInvariant, EngineAlways, PTL DEF NoticesSpec

\* With any number of workers and faults, what the dashboard is told can be read
\* in the database until two workers have had the same job in hand.
THEOREM ToldIsReadableAlways == NoticesSpec => []ToldIsReadable
<1>1. ToldInv => ToldIsReadable
  BY DEF ToldInv, SpeechIsTrue, Readable, ToldIsReadable
<1>2. QED
  BY <1>1, ToldAlways, PTL

\* What a single worker promises any number of them keep, whatever fails, until
\* two have had the same job in hand: the executor owns its job, the budget is
\* kept, no attempt is left open, job and projection agree, a stored SUCCESS is a
\* DELIVERED job, and the pages say of what is over and of what is next what
\* ReasonIsTrue and NextAttemptIsShownUnlessFault state.
THEOREM UnsharedIsSafe ==
    NoticesSpec => [](~shared => /\ ExecutorOwnsJob
                                 /\ AttemptsWithinBudget
                                 /\ OpenAttemptIsCurrent
                                 /\ ProjectionInStepUnlessFault
                                 /\ SuccessIsDelivered
                                 /\ ReasonIsTrue
                                 /\ NextAttemptIsShownUnlessFault)
<1> DEFINE Promised == ~shared => /\ ExecutorOwnsJob
                                  /\ AttemptsWithinBudget
                                  /\ OpenAttemptIsCurrent
                                  /\ ProjectionInStepUnlessFault
                                  /\ SuccessIsDelivered
                                  /\ ReasonIsTrue
                                  /\ NextAttemptIsShownUnlessFault
<1>1. NoticesInv /\ EngineInv /\ ToldInv => Promised
  BY ApartPromises DEF NoticesInv, NoticesTypeOK, EngineInv, ToldInv
<1>2. NoticesSpec => []Promised
  BY <1>1, NoticesInvariant, EngineAlways, ToldAlways, PTL
<1>3. QED
  BY <1>2

\* Until then every step, of workers, timers, crashes and stops, is one of the
\* state machine of delivery-status.enum.ts within the budget, or moves no job.
THEOREM UnsharedFollowsLifecycle ==
    NoticesSpec => [][~shared' => [Lifecycle!Next]_Lifecycle!vars]_notices
<1> DEFINE Follows == ~shared' => [Lifecycle!Next]_Lifecycle!vars
<1>1. NoticesInv /\ ToldInv /\ [NoticesNext]_notices => [Follows]_notices
  <2> SUFFICES ASSUME NoticesInv, ToldInv, [NoticesNext]_notices, ~shared'
               PROVE  [Lifecycle!Next]_Lifecycle!vars
    OBVIOUS
  <2>1. TypeOK /\ NoJobStranded /\ NumbersClaimed /\ OwnerInv
    BY SharedForGood DEF NoticesInv, NoticesTypeOK, ToldInv, ApartInv
  <2>2. CASE Rests
    BY <2>2 DEF Rests, Lifecycle!vars
  <2>3. QED
    BY <2>1, <2>2, EngineOrRests, LifecycleStep
<1>2. QED
  BY <1>1, NoticesInvariant, ToldAlways, PTL DEF NoticesSpec

\* Until then nothing rewrites a completed attempt row.
THEOREM UnsharedHistoryImmutable ==
    NoticesSpec => [][~shared' => \A j \in Jobs : \A n \in DOMAIN attempts[j] :
                        attempts[j][n] # "IN_PROGRESS" =>
                            /\ n \in DOMAIN attempts'[j]
                            /\ attempts'[j][n] = attempts[j][n]]_notices
<1> DEFINE Kept == ~shared' => \A j \in Jobs : \A n \in DOMAIN attempts[j] :
                     attempts[j][n] # "IN_PROGRESS" => /\ n \in DOMAIN attempts'[j]
                                                       /\ attempts'[j][n] = attempts[j][n]
<1>1. NoticesInv /\ ToldInv /\ [NoticesNext]_notices => [Kept]_notices
  BY SharedForGood, EngineOrRests, HistoryStep
     DEF NoticesInv, NoticesTypeOK, ToldInv, ApartInv
<1>2. QED
  BY <1>1, NoticesInvariant, ToldAlways, PTL DEF NoticesSpec

\* What is over: the job keeps its status and its attempts.
Kept(j) == /\ jobs'[j].status = jobs[j].status
           /\ jobs'[j].attemptCount = jobs[j].attemptCount

\* Until then a job that is over stays as it is: neither a late executor nor a
\* late recovery takes a DELIVERED or FAILED job back.
THEOREM UnsharedStaysOver ==
    NoticesSpec => [][~shared' => \A j \in Jobs :
                        jobs[j].status \in TERMINAL_STATUSES => Kept(j)]_notices
<1> DEFINE Over == ~shared' => \A j \in Jobs : jobs[j].status \in TERMINAL_STATUSES => Kept(j)
           Follows == ~shared' => [Lifecycle!Next]_Lifecycle!vars
<1>1. Follows => Over
  <2> SUFFICES ASSUME [Lifecycle!Next]_Lifecycle!vars, NEW j \in Jobs,
                      jobs[j].status \in TERMINAL_STATUSES
               PROVE  Kept(j)
    OBVIOUS
  <2> QED
    BY LifecycleOver DEF Kept
<1>2. [Follows]_notices => [Over]_notices
  BY <1>1
<1>3. QED
  BY <1>2, UnsharedFollowsLifecycle, PTL

\* Until then the rows of an event go through their states one by one and never
\* back, as Dashboard takes them to: no change of the job but to the next stage of
\* Progress, which ToldIsReadable compares what is told with.
THEOREM UnsharedAdvances ==
    NoticesSpec => [][~shared' => \A j \in Jobs :
                        LET stage == Progress(jobs[j].status, jobs[j].attemptCount)
                        IN  Progress(jobs'[j].status, jobs'[j].attemptCount)
                              \in {stage, stage + 1}]_notices
<1> DEFINE Advances ==
      ~shared' => \A j \in Jobs :
                    LET stage == Progress(jobs[j].status, jobs[j].attemptCount)
                    IN  Progress(jobs'[j].status, jobs'[j].attemptCount) \in {stage, stage + 1}
<1>1. NoticesInv /\ NoticesInv' /\ ToldInv /\ [NoticesNext]_notices => [Advances]_notices
  <2> SUFFICES ASSUME NoticesInv, NoticesInv', ToldInv, [NoticesNext]_notices, ~shared',
                      NEW j \in Jobs
               PROVE  Progress(jobs'[j].status, jobs'[j].attemptCount)
                        \in { Progress(jobs[j].status, jobs[j].attemptCount),
                              Progress(jobs[j].status, jobs[j].attemptCount) + 1 }
    OBVIOUS
  <2>1. \A w \in Workers : JobInHand(w)
    BY SharedForGood DEF ToldInv, ApartInv, OwnerInv
  <2>2. jobs[j].attemptCount \in Nat
    BY DEF NoticesInv, NoticesTypeOK, TypeOK, JobRow
  <2>3. Anew(j) \/ Ended(j) \/ Stays(j)
    BY <2>1, RowsMove DEF NoticesInv
  <2>4. QED
    BY <2>2, <2>3 DEF Anew, Ended, Stays, Progress
<1>2. QED
  BY <1>1, NoticesInvariant, ToldAlways, PTL DEF NoticesSpec

----------------------------------------------------------------------------
(* How two workers come to share a job                                     *)

\* Worker w takes the job that v has in hand: its sweep found the claim past its
\* lease, or it claims the job while v recovers it or is between the UPDATE that
\* requeued it and the UPDATE of the event.
Meets(v, w) ==
    /\ v # w
    /\ held[v] # NoEntity
    /\ held'[w].eventId = held[v].eventId
    /\ \/ CloseAbandoned(w)
       \/ /\ Claim(w)
          /\ \/ pc[v] = "release"
             \/ /\ pc[v] \in {"project", "projectRelease"}
                /\ jobs[held[v].eventId].status = "RETRYING"

\* A worker that joins another has just taken its job from a sweep or a batch.
LEMMA TakesJob ==
    ASSUME TypeOK, HandsApart, ~HandsApart', NEW w \in Workers, Acts(w)
    PROVE  \E v \in Workers : /\ v # w
                              /\ held[v] # NoEntity
                              /\ held'[w].eventId = held[v].eventId
                              /\ CloseAbandoned(w) \/ Claim(w)
<1>1. PICK u, v \in Workers : /\ u # v
                              /\ held'[u] # NoEntity
                              /\ held'[u].eventId = held'[v].eventId
  BY DEF HandsApart
<1>2. \A x \in Workers : x # w => held'[x] = held[x]
  BY ActsOnOne
<1>3. \A x \in Workers : held[x] = NoEntity \/ held[x].eventId \in Jobs
  BY DEF TypeOK, Entity
<1>4. NoEntity.eventId = None /\ None \notin Jobs
  BY DeliveryAssumption DEF NoEntity
<1>5. CASE CloseAbandoned(w) \/ Claim(w)
  <2>1. held'[w].eventId \in Jobs
    BY <1>5 DEF CloseAbandoned, Claim, TypeOK, Entity, NoEntity
  <2>2. u = w \/ v = w
    BY <1>1, <1>2 DEF HandsApart
  <2>3. PICK x \in Workers : x # w /\ held'[w].eventId = held'[x].eventId
    BY <1>1, <2>2
  <2>4. held[x] # NoEntity
    BY <1>2, <1>4, <2>1, <2>3
  <2>5. QED
    BY <1>2, <1>5, <2>3, <2>4
<1>6. CASE ~(CloseAbandoned(w) \/ Claim(w))
  <2>1. held'[w] = NoEntity \/ (held'[w].eventId = held[w].eventId /\ held[w] # NoEntity)
    BY <1>6, DeliveryAssumption
       DEF Acts, Execute, Fault, TypeOK, Holding, Executing, InFlight, NoEntity, Entity, Read,
           ReleaseStaleJob, ReleaseRefused, ProjectRelease, ReadClaimed, StartAttempt,
           StartRefused, Send, CompleteAttempt, TransitionJob, ProjectStatus, JobThrows,
           TickThrows, Crash, Drop, dbVars
  <2>2. QED
    BY <1>1, <1>2, <1>3, <1>4, <2>1 DEF HandsApart
<1>7. QED
  BY <1>5, <1>6

\* The job that is claimed is not being executed.
LEMMA ClaimMeets ==
    ASSUME TypeOK, OwnerInv, NEW v \in Workers, NEW w \in Workers, v # w, Claim(w),
           EmptyHands, held[v] # NoEntity, held'[w].eventId = held[v].eventId
    PROVE  Meets(v, w)
<1>1. pc[v] \in Holding /\ held[v] \in Entity
  BY DEF EmptyHands, TypeOK
<1>2. jobs[held[v].eventId].status \in CLAIMABLE_STATUSES
  BY <1>1 DEF Claim, Claimable, TypeOK, Entity, NoEntity
<1>3. pc[v] \in {"release", "project", "projectRelease"}
  BY <1>1, <1>2 DEF OwnerInv, JobInHand, Holding, Executing, InFlight, CLAIMABLE_STATUSES
<1>4. pc[v] = "project" => Outcome(v) \in {"DELIVERED", "FAILED", "RETRYING"}
  BY <1>1, VerdictType DEF Outcome, TypeOK, Settled, Entity
<1>5. pc[v] \in {"project", "projectRelease"} => jobs[held[v].eventId].status = "RETRYING"
  BY <1>2, <1>4 DEF OwnerInv, JobInHand, Recovered, CLAIMABLE_STATUSES
<1>6. QED
  BY <1>3, <1>5 DEF Meets

\* The first time two workers have the same job in hand, one has just taken it
\* from the other, in one of the three ways that Meets tells: without a lease that
\* runs out under its claim, or a backoff that ends before the event is updated,
\* jobs are never shared, however many workers drain the queue.
THEOREM SharingBegins ==
    NoticesSpec => [][~shared /\ shared' => \E v, w \in Workers : Meets(v, w)]_notices
<1> DEFINE Met == ~shared /\ shared' => \E v, w \in Workers : Meets(v, w)
<1>1. NoticesInv /\ EngineInv /\ ToldInv /\ [NoticesNext]_notices => [Met]_notices
  <2> SUFFICES ASSUME NoticesInv, EngineInv, ToldInv, [NoticesNext]_notices,
                      ~shared, shared'
               PROVE  \E v, w \in Workers : Meets(v, w)
    OBVIOUS
  <2>1. TypeOK /\ HandsApart /\ OwnerInv /\ EmptyHands
    BY DEF NoticesInv, NoticesTypeOK, EngineInv, ToldInv, ApartInv
  <2>2. ~HandsApart'
    BY DEF NoticesNext, Engine, Silent, Started, Completed, Moved, Concluded, Released,
       Break, Then, Sharing, HandsApart, Publish, PublishAccepted, Unheard, Stop, Exit, Dies,
       Throws, speech, notices
  <2>3. PICK w \in Workers : Acts(w)
    <3>1. ~Rests
      BY <2>1, <2>2 DEF Rests, HandsApart
    <3>2. QED
      BY <2>1, <3>1, EngineOrRests, StepKinds
  <2>4. PICK v \in Workers : /\ v # w
                             /\ held[v] # NoEntity
                             /\ held'[w].eventId = held[v].eventId
                             /\ CloseAbandoned(w) \/ Claim(w)
    BY <2>1, <2>2, <2>3, TakesJob
  <2>5. Meets(v, w)
    BY <2>1, <2>4, ClaimMeets DEF Meets
  <2>6. QED
    BY <2>5
<1>2. QED
  BY <1>1, NoticesInvariant, EngineAlways, ToldAlways, PTL DEF NoticesSpec
=============================================================================
