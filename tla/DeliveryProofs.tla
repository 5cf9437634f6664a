--------------------------- MODULE DeliveryProofs ---------------------------
(***************************************************************************)
(* Theorems about Delivery, for every set of jobs and of workers, every    *)
(* retry budget, batch size and number of faults.                          *)
(***************************************************************************)
EXTENDS DeliveryInvariants, RetryFlow, FiniteSetTheorems, TLAPS

----------------------------------------------------------------------------
(* Type correctness                                                        *)

\* Taking part of a query's rows yields some of its rows.
LEMMA TakeSubset == ASSUME NEW rows, NEW B \in Take(rows) PROVE B \subseteq rows
BY DEF Take

\* Closing or writing attempt rows keeps them attempt rows, numbered by naturals.
LEMMA RowsType ==
    ASSUME NEW rows, rows \in [DOMAIN rows -> AttemptStatus],
           DOMAIN rows \subseteq Nat,
           NEW n \in Nat, NEW status \in AttemptStatus
    PROVE  /\ Closed(rows) \in [DOMAIN rows -> AttemptStatus]
           /\ DOMAIN Closed(rows) = DOMAIN rows
           /\ WithRow(rows, n, status) \in [DOMAIN rows \cup {n} -> AttemptStatus]
           /\ DOMAIN WithRow(rows, n, status) = DOMAIN rows \cup {n}
BY DEF Closed, WithRow, AttemptStatus

\* The decisions are statuses.
LEMMA VerdictType ==
    ASSUME NEW c \in Classification, NEW n \in Nat
    PROVE  Verdict(c, n) \in {"DELIVERED", "FAILED", "RETRYING"}
BY DEF Verdict, Classification

\* The initial states are well typed.
LEMMA InitType == Init => TypeOK
BY DeliveryAssumption
   DEF Init, TypeOK, JobRow, Entity, NoEntity, DeliveryStatus, AttemptStatus,
       Classification, Ticking, Executing, InFlight, Holding, Settled

\* Every step keeps the types.
LEMMA TypeStep == TypeOK /\ [Next]_vars => TypeOK'
<1> SUFFICES ASSUME TypeOK, [Next]_vars PROVE TypeOK'
  OBVIOUS
<1> USE DEF Ticking, Executing, InFlight, Holding, Settled, Goto
<1>1. ASSUME NEW w \in Workers, FindStaleJobs(w) PROVE TypeOK'
  BY <1>1 DEF FindStaleJobs, TypeOK, dbVars, Take, Read, Entity, JobRow
<1>2. ASSUME NEW w \in Workers, CloseAbandoned(w) PROVE TypeOK'
  BY <1>2 DEF CloseAbandoned, TypeOK, Closed, Entity, AttemptStatus
<1>3. ASSUME NEW w \in Workers, ReleaseStaleJob(w) PROVE TypeOK'
  BY <1>3, SMTT(20) DEF ReleaseStaleJob, TypeOK, WriteStatus, Recovered, Entity, JobRow, DeliveryStatus
<1>4. ASSUME NEW w \in Workers, ReleaseRefused(w) PROVE TypeOK'
  BY <1>4 DEF ReleaseRefused, TypeOK, Drop, dbVars
<1>5. ASSUME NEW w \in Workers, ProjectRelease(w) PROVE TypeOK'
  BY <1>5 DEF ProjectRelease, TypeOK, Drop, Recovered, DeliveryStatus
<1>6. ASSUME NEW w \in Workers, FindDueJobIds(w) PROVE TypeOK'
  BY <1>6 DEF FindDueJobIds, TypeOK, Take, dbVars
<1>7. ASSUME NEW w \in Workers, Claim(w) PROVE TypeOK'
  BY <1>7 DEF Claim, TypeOK, JobRow, Entity, NoEntity, DeliveryStatus
<1>8. ASSUME NEW w \in Workers, ClaimRefused(w) PROVE TypeOK'
  BY <1>8 DEF ClaimRefused, TypeOK, dbVars
<1>9. ASSUME NEW w \in Workers, ReadClaimed(w) PROVE TypeOK'
  BY <1>9 DEF ReadClaimed, TypeOK, dbVars, Read, Entity, JobRow
<1>10. ASSUME NEW w \in Workers, EndTick(w) PROVE TypeOK'
  BY <1>10 DEF EndTick, TypeOK, dbVars
<1>11. ASSUME NEW w \in Workers, StartAttempt(w) PROVE TypeOK'
  BY <1>11 DEF StartAttempt, TypeOK, WithRow, Entity, AttemptStatus
<1>12. ASSUME NEW w \in Workers, StartRefused(w) PROVE TypeOK'
  BY <1>12 DEF StartRefused, TypeOK, Drop, dbVars
<1>13. ASSUME NEW w \in Workers, Send(w) PROVE TypeOK'
  <2>1. PICK c \in Classification :
          /\ result' = [result EXCEPT ![w] = c]
          /\ answers' = [answers EXCEPT ![held[w].eventId] =
                           WithRow(@, held[w].attemptCount, c)]
    BY <1>13 DEF Send
  <2>2. /\ DOMAIN answers' = Jobs
        /\ \A j \in Jobs : /\ answers'[j] \in [DOMAIN answers'[j] -> Classification]
                           /\ DOMAIN answers'[j] \subseteq Nat
    BY <1>13, <2>1 DEF Send, TypeOK, WithRow, Entity
  <2>3. result' \in [Workers -> Classification \cup {"NONE"}]
    BY <2>1 DEF TypeOK
  <2>4. \A v \in Workers : pc'[v] \in Settled => result'[v] \in Classification
    BY <1>13, <2>1 DEF Send, TypeOK
  <2>5. QED
    BY <1>13, <2>2, <2>3, <2>4 DEF Send, TypeOK, dbVars
<1>14. ASSUME NEW w \in Workers, CompleteAttempt(w) PROVE TypeOK'
  BY <1>14 DEF CompleteAttempt, TypeOK, WithRow, Entity, AttemptStatus
<1>15. ASSUME NEW w \in Workers, TransitionJob(w) PROVE TypeOK'
  BY <1>15, VerdictType DEF TransitionJob, TypeOK, WriteStatus, Outcome, Entity, JobRow, DeliveryStatus
<1>16. ASSUME NEW w \in Workers, ProjectStatus(w) PROVE TypeOK'
  BY <1>16, VerdictType DEF ProjectStatus, TypeOK, Drop, Outcome, Entity, DeliveryStatus
<1>17. ASSUME NEW w \in Workers, JobThrows(w) PROVE TypeOK'
  BY <1>17, DeliveryAssumption DEF JobThrows, TypeOK, Drop, dbVars
<1>18. ASSUME NEW w \in Workers, TickThrows(w) PROVE TypeOK'
  BY <1>18, DeliveryAssumption DEF TickThrows, TypeOK, Drop, dbVars
<1>19. ASSUME NEW w \in Workers, Crash(w) PROVE TypeOK'
  BY <1>19, DeliveryAssumption DEF Crash, TypeOK, Drop, dbVars
<1>20. ASSUME NEW w \in Workers, Restart(w) PROVE TypeOK'
  BY <1>20 DEF Restart, TypeOK, dbVars
<1>21. ASSUME NEW j \in Jobs, BackoffElapses(j) PROVE TypeOK'
  BY <1>21 DEF BackoffElapses, TypeOK, workerVars
<1>22. ASSUME NEW j \in Jobs, LeaseExpires(j) PROVE TypeOK'
  BY <1>22 DEF LeaseExpires, TypeOK, workerVars
<1>23. CASE UNCHANGED vars
  BY <1>23 DEF vars, dbVars, workerVars, TypeOK
<1>24. QED
  BY <1>1, <1>2, <1>3, <1>4, <1>5, <1>6, <1>7, <1>8, <1>9, <1>10, <1>11, <1>12,
     <1>13, <1>14, <1>15, <1>16, <1>17, <1>18, <1>19, <1>20, <1>21, <1>22, <1>23
     DEF Next, Work, Recover, Drain, Execute, Fault, Time

\* Every variable keeps its type, and a worker with a job in its hands holds a
\* row it has read.
THEOREM TypeCorrect == Spec => []TypeOK
BY InitType, TypeStep, PTL DEF Spec

----------------------------------------------------------------------------
(* No job is stranded                                                      *)

\* The statements that write delivery_jobs.
LEMMA JobsWriters ==
    ASSUME [Next]_vars
    PROVE  \/ jobs' = jobs
           \/ \E w \in Workers : ReleaseStaleJob(w) \/ Claim(w) \/ TransitionJob(w)
BY DEF Next, Work, Recover, Drain, Execute, Fault, Time, vars, dbVars,
       FindStaleJobs, CloseAbandoned, ReleaseRefused, ProjectRelease, FindDueJobIds,
       ClaimRefused, ReadClaimed, EndTick, StartAttempt, StartRefused, Send,
       CompleteAttempt, ProjectStatus, JobThrows, TickThrows, Crash, Restart,
       BackoffElapses, LeaseExpires

\* What a status write leaves in the row.
LEMMA WriteStatusRow ==
    ASSUME TypeOK, NEW j \in Jobs, NEW s \in DeliveryStatus, WriteStatus(j, s)
    PROVE  /\ jobs'[j].status = s
           /\ jobs'[j].attemptCount = jobs[j].attemptCount
           /\ jobs'[j].lockedAt = 0
           /\ \A i \in Jobs \ {j} : jobs'[i] = jobs[i]
BY DEF WriteStatus, TypeOK, JobRow

\* What a claim leaves in the row.
LEMMA ClaimRow ==
    ASSUME TypeOK, NEW w \in Workers, Claim(w)
    PROVE  \E j \in Jobs :
             /\ Claimable(j)
             /\ jobs'[j].status = "DELIVERING"
             /\ jobs'[j].attemptCount = jobs[j].attemptCount + 1
             /\ jobs'[j].lockedAt = jobs[j].attemptCount + 1
             /\ \A i \in Jobs \ {j} : jobs'[i] = jobs[i]
             /\ held'[w].eventId = j
             /\ held' = [held EXCEPT ![w] = held'[w]]
BY DEF Claim, TypeOK, JobRow, Entity, NoEntity

\* Recovery and the executor move a job out of DELIVERING only.
LEMMA ReleaseRow ==
    ASSUME TypeOK, NEW w \in Workers, ReleaseStaleJob(w)
    PROVE  /\ held[w] \in Entity
           /\ Recovered(held[w]) \in {"FAILED", "RETRYING"}
           /\ WriteStatus(held[w].eventId, Recovered(held[w]))
BY DEF ReleaseStaleJob, Recovered, TypeOK, Holding

\* A transition writes one of three outcomes to the job of the entity in hand.
LEMMA TransitionRow ==
    ASSUME TypeOK, NEW w \in Workers, TransitionJob(w)
    PROVE  /\ held[w] \in Entity
           /\ result[w] \in Classification
           /\ Outcome(w) \in {"DELIVERED", "FAILED", "RETRYING"}
           /\ WriteStatus(held[w].eventId, Outcome(w))
<1>1. held[w] \in Entity /\ result[w] \in Classification
  BY DEF TransitionJob, TypeOK, Holding, Executing, InFlight, Settled
<1>2. Outcome(w) \in {"DELIVERED", "FAILED", "RETRYING"}
  BY <1>1, VerdictType DEF Outcome, Entity
<1>3. QED
  BY <1>1, <1>2 DEF TransitionJob

\* Every step leaves each job within reach of a query.
LEMMA StrandedStep == TypeOK /\ NoJobStranded /\ [Next]_vars => NoJobStranded'
<1> SUFFICES ASSUME TypeOK, NoJobStranded, [Next]_vars PROVE NoJobStranded'
  OBVIOUS
<1> USE DEF CLAIMABLE_STATUSES, TERMINAL_STATUSES, DeliveryStatus
<1>1. CASE jobs' = jobs
  BY <1>1 DEF NoJobStranded
<1>2. ASSUME NEW j \in Jobs, NEW s \in {"DELIVERED", "FAILED", "RETRYING"},
             WriteStatus(j, s)
      PROVE  NoJobStranded'
  <2>1. s \in DeliveryStatus
    OBVIOUS
  <2>2. QED
    BY <1>2, <2>1, WriteStatusRow DEF NoJobStranded
<1>3. ASSUME NEW w \in Workers, ReleaseStaleJob(w) PROVE NoJobStranded'
  BY <1>2, <1>3, ReleaseRow DEF Entity
<1>4. ASSUME NEW w \in Workers, TransitionJob(w) PROVE NoJobStranded'
  BY <1>2, <1>4, TransitionRow DEF Entity
<1>5. ASSUME NEW w \in Workers, Claim(w) PROVE NoJobStranded'
  <2>1. PICK j \in Jobs :
          /\ jobs'[j].status = "DELIVERING"
          /\ jobs'[j].attemptCount = jobs[j].attemptCount + 1
          /\ jobs'[j].lockedAt = jobs[j].attemptCount + 1
          /\ \A i \in Jobs \ {j} : jobs'[i] = jobs[i]
    BY <1>5, ClaimRow
  <2>2. jobs[j].attemptCount \in Nat
    BY DEF TypeOK, JobRow
  <2>3. QED
    BY <2>1, <2>2 DEF NoJobStranded
<1>6. QED
  BY <1>1, <1>3, <1>4, <1>5, JobsWriters

\* A job that is not over is always within reach of a query of the worker.
THEOREM NoJobStrandedAlways == Spec => []NoJobStranded
<1>1. Init => NoJobStranded
  BY DEF Init, NoJobStranded, CLAIMABLE_STATUSES
<1>2. QED
  BY <1>1, StrandedStep, TypeCorrect, PTL DEF Spec

----------------------------------------------------------------------------
(* Attempt numbers                                                         *)

\* No statement takes a burnt attempt back.
LEMMA CountGrows ==
    ASSUME TypeOK, [Next]_vars, NEW j \in Jobs
    PROVE  /\ jobs[j].attemptCount \in Nat
           /\ jobs'[j].attemptCount \in Nat
           /\ jobs[j].attemptCount <= jobs'[j].attemptCount
<1>1. jobs[j].attemptCount \in Nat /\ jobs'[j].attemptCount \in Nat
  BY TypeStep DEF TypeOK, JobRow
<1> USE DEF DeliveryStatus, Entity
<1>2. ASSUME NEW w \in Workers, ReleaseStaleJob(w)
      PROVE  jobs'[j].attemptCount = jobs[j].attemptCount
  BY <1>2, ReleaseRow, WriteStatusRow
<1>3. ASSUME NEW w \in Workers, TransitionJob(w)
      PROVE  jobs'[j].attemptCount = jobs[j].attemptCount
  BY <1>3, TransitionRow, WriteStatusRow
<1>4. ASSUME NEW w \in Workers, Claim(w)
      PROVE  jobs'[j].attemptCount >= jobs[j].attemptCount
  BY <1>1, <1>4, ClaimRow
<1>5. QED
  BY <1>1, <1>2, <1>3, <1>4, JobsWriters

\* Every step uses attempt numbers that a claim has given out.
LEMMA NumbersStep ==
    TypeOK /\ NoJobStranded /\ NumbersClaimed /\ [Next]_vars => NumbersClaimed'
<1> SUFFICES ASSUME TypeOK, NoJobStranded, NumbersClaimed, [Next]_vars
             PROVE  NumbersClaimed'
  OBVIOUS
<1> DEFINE Grows == \A j \in Jobs : /\ jobs[j].attemptCount \in Nat
                                    /\ jobs'[j].attemptCount \in Nat
                                    /\ jobs[j].attemptCount <= jobs'[j].attemptCount
<1>0. Grows
  BY CountGrows
<1> USE <1>0 DEF Ticking, Executing, InFlight, Holding, Goto
<1> HIDE DEF Grows
<1>1. ASSUME NEW w \in Workers, FindStaleJobs(w) PROVE NumbersClaimed'
  <2>1. PICK B \in Take({j \in expired : jobs[j].status = "DELIVERING"}) :
          sweep' = [sweep EXCEPT ![w] = {Read(j) : j \in B}]
    BY <1>1 DEF FindStaleJobs
  <2>2. \A j \in B : j \in Jobs /\ jobs[j].status = "DELIVERING"
    BY <2>1 DEF Take, TypeOK
  <2>3. \A s \in sweep'[w] : ReadStale(s)
    BY <2>1, <2>2 DEF ReadStale, Read, NoJobStranded, TypeOK, Grows,
                      CLAIMABLE_STATUSES, TERMINAL_STATUSES
  <2>4. /\ \A v \in Workers \ {w} : sweep'[v] = sweep[v]
        /\ pc' = [pc EXCEPT ![w] = "sweep"]
        /\ UNCHANGED <<jobs, attempts, held>>
    BY <1>1, <2>1 DEF FindStaleJobs, TypeOK, dbVars
  <2>5. \A v \in Workers : \A s \in sweep'[v] : ReadStale(s)
    BY <2>3, <2>4 DEF NumbersClaimed
  <2>6. QED
    BY <2>4, <2>5 DEF NumbersClaimed, ReadStale, TypeOK
<1>2. ASSUME NEW w \in Workers, CloseAbandoned(w) PROVE NumbersClaimed'
  BY <1>2 DEF CloseAbandoned, Grows, NumbersClaimed, ReadStale, TypeOK, Entity, dbVars, Closed
<1>3. ASSUME NEW w \in Workers, ReleaseStaleJob(w) PROVE NumbersClaimed'
  <2>1. /\ pc[w] = "release"
        /\ pc' = [pc EXCEPT ![w] = "projectRelease"]
        /\ UNCHANGED <<attempts, sweep, held>>
    BY <1>3 DEF ReleaseStaleJob
  <2>2. \A j \in Jobs : DOMAIN attempts'[j] \subseteq 1 .. jobs'[j].attemptCount
    BY <2>1 DEF Grows, NumbersClaimed
  <2>3. ASSUME NEW s \in Entity, ReadStale(s) PROVE ReadStale(s)'
    BY <2>3 DEF Grows, ReadStale, Entity
  <2>4. ASSUME NEW v \in Workers
        PROVE  /\ \A s \in sweep'[v] : ReadStale(s)'
               /\ pc'[v] \in {"release", "projectRelease"} => ReadStale(held[v])'
    BY <2>1, <2>3 DEF NumbersClaimed, TypeOK
  <2>5. ASSUME NEW v \in Workers
        PROVE  /\ pc'[v] = "read" => jobs'[held'[v].eventId].attemptCount > 0
               /\ pc'[v] \in Executing => held'[v].attemptCount
                                             \in 1 .. jobs'[held'[v].eventId].attemptCount
    BY <2>1 DEF Grows, NumbersClaimed, TypeOK, Entity
  <2>6. QED
    BY <2>1, <2>2, <2>4, <2>5 DEF NumbersClaimed
<1>4. ASSUME NEW w \in Workers, ReleaseRefused(w) PROVE NumbersClaimed'
  BY <1>4 DEF ReleaseRefused, Grows, NumbersClaimed, ReadStale, TypeOK, Entity, dbVars, Drop
<1>5. ASSUME NEW w \in Workers, ProjectRelease(w) PROVE NumbersClaimed'
  BY <1>5 DEF ProjectRelease, Grows, NumbersClaimed, ReadStale, TypeOK, Entity, dbVars, Drop
<1>6. ASSUME NEW w \in Workers, FindDueJobIds(w) PROVE NumbersClaimed'
  BY <1>6 DEF FindDueJobIds, Grows, NumbersClaimed, ReadStale, TypeOK, Entity, dbVars
<1>7. ASSUME NEW w \in Workers, Claim(w) PROVE NumbersClaimed'
  BY <1>7 DEF Claim, Grows, NumbersClaimed, ReadStale, TypeOK, Entity, dbVars
<1>8. ASSUME NEW w \in Workers, ClaimRefused(w) PROVE NumbersClaimed'
  BY <1>8 DEF ClaimRefused, Grows, NumbersClaimed, ReadStale, TypeOK, Entity, dbVars
<1>9. ASSUME NEW w \in Workers, ReadClaimed(w) PROVE NumbersClaimed'
  BY <1>9 DEF ReadClaimed, Grows, NumbersClaimed, ReadStale, TypeOK, Entity, dbVars, Read
<1>10. ASSUME NEW w \in Workers, EndTick(w) PROVE NumbersClaimed'
  BY <1>10 DEF EndTick, Grows, NumbersClaimed, ReadStale, TypeOK, Entity, dbVars
<1>11. ASSUME NEW w \in Workers, StartAttempt(w) PROVE NumbersClaimed'
  BY <1>11 DEF StartAttempt, Grows, NumbersClaimed, ReadStale, TypeOK, Entity, dbVars, WithRow
<1>12. ASSUME NEW w \in Workers, StartRefused(w) PROVE NumbersClaimed'
  BY <1>12 DEF StartRefused, Grows, NumbersClaimed, ReadStale, TypeOK, Entity, dbVars, Drop
<1>13. ASSUME NEW w \in Workers, Send(w) PROVE NumbersClaimed'
  BY <1>13 DEF Send, Grows, NumbersClaimed, ReadStale, TypeOK, Entity, dbVars
<1>14. ASSUME NEW w \in Workers, CompleteAttempt(w) PROVE NumbersClaimed'
  BY <1>14 DEF CompleteAttempt, Grows, NumbersClaimed, ReadStale, TypeOK, Entity, dbVars, WithRow
<1>15. ASSUME NEW w \in Workers, TransitionJob(w) PROVE NumbersClaimed'
  <2>1. /\ pc[w] \in Executing
        /\ pc' = [pc EXCEPT ![w] = "project"]
        /\ UNCHANGED <<attempts, sweep, held>>
    BY <1>15 DEF TransitionJob
  <2>2. \A j \in Jobs : DOMAIN attempts'[j] \subseteq 1 .. jobs'[j].attemptCount
    BY <2>1 DEF Grows, NumbersClaimed
  <2>3. ASSUME NEW s \in Entity, ReadStale(s) PROVE ReadStale(s)'
    BY <2>3 DEF Grows, ReadStale, Entity
  <2>4. ASSUME NEW v \in Workers
        PROVE  /\ \A s \in sweep'[v] : ReadStale(s)'
               /\ pc'[v] \in {"release", "projectRelease"} => ReadStale(held[v])'
    BY <2>1, <2>3 DEF NumbersClaimed, TypeOK
  <2>5. ASSUME NEW v \in Workers
        PROVE  /\ pc'[v] = "read" => jobs'[held'[v].eventId].attemptCount > 0
               /\ pc'[v] \in Executing => held'[v].attemptCount
                                             \in 1 .. jobs'[held'[v].eventId].attemptCount
    BY <2>1 DEF Grows, NumbersClaimed, TypeOK, Entity
  <2>6. QED
    BY <2>1, <2>2, <2>4, <2>5 DEF NumbersClaimed
<1>16. ASSUME NEW w \in Workers, ProjectStatus(w) PROVE NumbersClaimed'
  BY <1>16 DEF ProjectStatus, Grows, NumbersClaimed, ReadStale, TypeOK, Entity, dbVars, Drop
<1>17. ASSUME NEW w \in Workers, JobThrows(w) PROVE NumbersClaimed'
  BY <1>17 DEF JobThrows, Grows, NumbersClaimed, ReadStale, TypeOK, Entity, dbVars, Drop
<1>18. ASSUME NEW w \in Workers, TickThrows(w) PROVE NumbersClaimed'
  BY <1>18 DEF TickThrows, Grows, NumbersClaimed, ReadStale, TypeOK, Entity, dbVars, Drop
<1>19. ASSUME NEW w \in Workers, Crash(w) PROVE NumbersClaimed'
  BY <1>19 DEF Crash, Grows, NumbersClaimed, ReadStale, TypeOK, Entity, dbVars, Drop
<1>20. ASSUME NEW w \in Workers, Restart(w) PROVE NumbersClaimed'
  BY <1>20 DEF Restart, Grows, NumbersClaimed, ReadStale, TypeOK, Entity, dbVars
<1>21. ASSUME NEW j \in Jobs, BackoffElapses(j) \/ LeaseExpires(j) PROVE NumbersClaimed'
  BY <1>21 DEF BackoffElapses, LeaseExpires, NumbersClaimed, ReadStale, workerVars
<1>22. CASE UNCHANGED vars
  BY <1>22 DEF vars, dbVars, workerVars, NumbersClaimed, ReadStale
<1>23. QED
  BY <1>1, <1>2, <1>3, <1>4, <1>5, <1>6, <1>7, <1>8, <1>9, <1>10, <1>11, <1>12,
     <1>13, <1>14, <1>15, <1>16, <1>17, <1>18, <1>19, <1>20, <1>21, <1>22
     DEF Next, Work, Recover, Drain, Execute, Fault, Time


\* The attempt numbers in workers' hands and in the rows are claimed ones.
THEOREM NumbersClaimedAlways == Spec => []NumbersClaimed
<1>1. Init => NumbersClaimed
  BY DEF Init, NumbersClaimed, Executing, InFlight
<1>2. QED
  BY <1>1, NumbersStep, NoJobStrandedAlways, TypeCorrect, PTL DEF Spec

----------------------------------------------------------------------------
(* Who is in flight                                                        *)

\* The statements that write delivery_attempts.
LEMMA AttemptsWriters ==
    ASSUME [Next]_vars
    PROVE  \/ attempts' = attempts
           \/ \E w \in Workers : CloseAbandoned(w) \/ StartAttempt(w) \/ CompleteAttempt(w)
BY DEF Next, Work, Recover, Drain, Execute, Fault, Time, vars, dbVars,
       FindStaleJobs, ReleaseStaleJob, ReleaseRefused, ProjectRelease, FindDueJobIds,
       Claim, ClaimRefused, ReadClaimed, EndTick, StartRefused, Send, TransitionJob,
       ProjectStatus, JobThrows, TickThrows, Crash, Restart, BackoffElapses, LeaseExpires

\* Attempt rows are never deleted.
LEMMA RowsGrow ==
    ASSUME TypeOK, [Next]_vars, NEW j \in Jobs
    PROVE  DOMAIN attempts[j] \subseteq DOMAIN attempts'[j]
<1>1. ASSUME NEW w \in Workers, CloseAbandoned(w)
      PROVE  DOMAIN attempts[j] \subseteq DOMAIN attempts'[j]
  BY <1>1 DEF CloseAbandoned, Closed, TypeOK
<1>2. ASSUME NEW w \in Workers, StartAttempt(w)
      PROVE  DOMAIN attempts[j] \subseteq DOMAIN attempts'[j]
  BY <1>2 DEF StartAttempt, WithRow, TypeOK
<1>3. ASSUME NEW w \in Workers, CompleteAttempt(w)
      PROVE  DOMAIN attempts[j] \subseteq DOMAIN attempts'[j]
  BY <1>3 DEF CompleteAttempt, WithRow, TypeOK
<1>4. QED
  BY <1>1, <1>2, <1>3, AttemptsWriters

\* A worker is in flight after a step because it was before, with the same
\* entity in its hands, or because it has just inserted its attempt row.
LEMMA FlightStarts ==
    ASSUME TypeOK, [Next]_vars, NEW v \in Workers, pc'[v] \in InFlight
    PROVE  /\ held'[v] = held[v]
           /\ held[v] \in Entity
           /\ pc[v] \in InFlight \/ StartAttempt(v)
<1> USE DEF InFlight, Goto, TypeOK, Ticking, Executing, Holding, Settled
<1>1. ASSUME NEW w \in Workers, Recover(w)
      PROVE  held'[v] = held[v] /\ pc[v] \in InFlight
  BY <1>1 DEF Recover, FindStaleJobs, CloseAbandoned, ReleaseStaleJob, ReleaseRefused,
              ProjectRelease, Drop
<1>2. ASSUME NEW w \in Workers, Drain(w)
      PROVE  held'[v] = held[v] /\ pc[v] \in InFlight
  BY <1>2 DEF Drain, FindDueJobIds, Claim, ClaimRefused, ReadClaimed, EndTick
<1>3. ASSUME NEW w \in Workers, Execute(w)
      PROVE  held'[v] = held[v] /\ (pc[v] \in InFlight \/ StartAttempt(v))
  BY <1>3 DEF Execute, StartAttempt, StartRefused, Send, CompleteAttempt, TransitionJob,
              ProjectStatus, Drop
<1>4. ASSUME NEW w \in Workers, Fault(w) \/ Restart(w)
      PROVE  held'[v] = held[v] /\ pc[v] \in InFlight
  BY <1>4 DEF Fault, JobThrows, TickThrows, Crash, Restart, Drop
<1>5. CASE Time \/ UNCHANGED vars
  BY <1>5 DEF Time, BackoffElapses, LeaseExpires, workerVars, vars
<1>6. held'[v] = held[v] /\ (pc[v] \in InFlight \/ StartAttempt(v))
  BY <1>1, <1>2, <1>3, <1>4, <1>5 DEF Next, Work
<1>7. QED
  BY <1>6 DEF StartAttempt

\* A worker in flight has its row, and no step removes a row.
LEMMA ReservedStep ==
    TypeOK /\ RowReserved /\ [Next]_vars => RowReserved'
<1> SUFFICES ASSUME TypeOK, RowReserved, [Next]_vars, NEW v \in Workers,
                    pc'[v] \in InFlight
             PROVE  held'[v].attemptCount \in DOMAIN attempts'[held'[v].eventId]
  BY DEF RowReserved
<1>1. held'[v] = held[v] /\ held[v] \in Entity /\ (pc[v] \in InFlight \/ StartAttempt(v))
  BY FlightStarts
<1>2. CASE pc[v] \in InFlight
  BY <1>1, <1>2, RowsGrow DEF RowReserved, Entity
<1>3. CASE StartAttempt(v)
  BY <1>1, <1>3 DEF StartAttempt, WithRow, TypeOK, Entity
<1>4. QED
  BY <1>1, <1>2, <1>3

\* Only the worker that inserted a row goes in flight with its number.
LEMMA SharedStep ==
    TypeOK /\ RowReserved /\ NoSharedAttempt /\ [Next]_vars => NoSharedAttempt'
<1> SUFFICES ASSUME TypeOK, RowReserved, NoSharedAttempt, [Next]_vars,
                    NEW u \in Workers, NEW v \in Workers, u # v,
                    pc'[u] \in InFlight, pc'[v] \in InFlight,
                    held'[u].eventId = held'[v].eventId
             PROVE  held'[u].attemptCount # held'[v].attemptCount
  BY DEF NoSharedAttempt
<1>1. /\ held'[u] = held[u] /\ (pc[u] \in InFlight \/ StartAttempt(u))
      /\ held'[v] = held[v] /\ (pc[v] \in InFlight \/ StartAttempt(v))
  BY FlightStarts
<1>2. CASE pc[u] \in InFlight /\ pc[v] \in InFlight
  BY <1>1, <1>2 DEF NoSharedAttempt
<1>3. ASSUME NEW x \in Workers, NEW y \in Workers, x # y, StartAttempt(x),
             pc'[y] \in InFlight, held[x].eventId = held[y].eventId
      PROVE  held[x].attemptCount # held[y].attemptCount
  <2>1. pc[y] \in InFlight
    BY <1>3 DEF StartAttempt, Goto, TypeOK
  <2>2. QED
    BY <1>3, <2>1 DEF StartAttempt, RowReserved
<1>4. QED
  BY <1>1, <1>2, <1>3

\* A worker that talks to the receiver has opened its attempt row before.
THEOREM RowReservedAlways == Spec => []RowReserved
<1>1. Init => RowReserved
  BY DEF Init, RowReserved, InFlight
<1>2. QED
  BY <1>1, ReservedStep, TypeCorrect, PTL DEF Spec

\* The claim reads its attempt number back in a second statement, so two workers
\* may have read the same one; the UNIQUE index lets one of them send.
THEOREM NoSharedAttemptAlways == Spec => []NoSharedAttempt
<1>1. Init => NoSharedAttempt
  BY DEF Init, NoSharedAttempt, InFlight
<1>2. QED
  BY <1>1, SharedStep, RowReservedAlways, TypeCorrect, PTL DEF Spec

----------------------------------------------------------------------------
(* How often a job can be claimed                                          *)

\* A finite set has at least one member more than a part of it that misses one.
LEMMA StrictSubset ==
    ASSUME NEW T, IsFiniteSet(T), NEW S \in SUBSET T, NEW x \in T \ S
    PROVE  /\ Cardinality(S) \in Nat
           /\ Cardinality(T) \in Nat
           /\ Cardinality(S) + 1 <= Cardinality(T)
<1>1. IsFiniteSet(S) /\ Cardinality(S) <= Cardinality(T) /\ Cardinality(S) # Cardinality(T)
  BY FS_Subset
<1>2. Cardinality(S) \in Nat /\ Cardinality(T) \in Nat
  BY <1>1, FS_CardinalityType
<1>3. QED
  BY <1>1, <1>2

\* There are MaxAttempts - 1 numbers after which a job may be requeued, so each
\* of the two sets of spent numbers has at most that many.
LEMMA SpentFinite ==
    ASSUME NEW S \in SUBSET Retriable
    PROVE  /\ IsFiniteSet(S)
           /\ Cardinality(S) \in Nat
           /\ Cardinality(S) <= MaxAttempts - 1
<1>1. /\ IsFiniteSet(Retriable)
      /\ Cardinality(Retriable) = MaxAttempts - 1
  BY BudgetAssumption, FS_Interval DEF Retriable
<1>2. QED
  BY <1>1, FS_Subset, FS_CardinalityType

\* At most MaxAttempts - 1 numbers may be requeued, by either way.
LEMMA SpentSubsets ==
    ASSUME NEW j
    PROVE  /\ SpentByExecutor(j) \in SUBSET Retriable
           /\ SpentByRecovery(j) \in SUBSET Retriable
           /\ SpentByExecutor(j)' \in SUBSET Retriable
           /\ SpentByRecovery(j)' \in SUBSET Retriable
BY DEF SpentByExecutor, SpentByRecovery

\* What an executor has spent stays spent: a worker takes off with a number
\* only when no row has it yet.
LEMMA ExecutorSpendsForGood ==
    ASSUME TypeOK, RowReserved, [Next]_vars, NEW j \in Jobs
    PROVE  SpentByExecutor(j) \subseteq SpentByExecutor(j)'
<1> SUFFICES ASSUME NEW n \in SpentByExecutor(j), NEW w \in Workers, Flies(w, j, n)'
             PROVE  FALSE
  BY RowsGrow DEF SpentByExecutor
<1>1. /\ held'[w] = held[w]
      /\ pc[w] \in InFlight \/ StartAttempt(w)
  BY FlightStarts DEF Flies
<1>2. CASE pc[w] \in InFlight
  BY <1>1, <1>2 DEF Flies, SpentByExecutor
<1>3. CASE StartAttempt(w)
  BY <1>1, <1>3 DEF Flies, SpentByExecutor, StartAttempt
<1>4. QED
  BY <1>1, <1>2, <1>3

\* What recovery has spent stays spent: a job becomes DELIVERING again only
\* under a new number.
LEMMA RecoverySpendsForGood ==
    ASSUME TypeOK, [Next]_vars, NEW j \in Jobs
    PROVE  SpentByRecovery(j) \subseteq SpentByRecovery(j)'
<1>1. \/ jobs'[j].attemptCount > jobs[j].attemptCount
      \/ jobs'[j].status = "DELIVERING" => jobs[j].status = "DELIVERING"
  <2>1. ASSUME NEW w \in Workers, ReleaseStaleJob(w)
        PROVE  jobs'[j].status = "DELIVERING" => jobs[j].status = "DELIVERING"
    BY <2>1, ReleaseRow, WriteStatusRow DEF Entity, DeliveryStatus
  <2>2. ASSUME NEW w \in Workers, TransitionJob(w)
        PROVE  jobs'[j].status = "DELIVERING" => jobs[j].status = "DELIVERING"
    BY <2>2, TransitionRow, WriteStatusRow DEF Entity, DeliveryStatus
  <2>3. ASSUME NEW w \in Workers, Claim(w)
        PROVE  \/ jobs'[j].attemptCount > jobs[j].attemptCount
               \/ jobs'[j].status = "DELIVERING" => jobs[j].status = "DELIVERING"
    BY <2>3, ClaimRow, CountGrows
  <2>4. QED
    BY <2>1, <2>2, <2>3, JobsWriters
<1>2. QED
  BY <1>1, CountGrows DEF SpentByRecovery, Retriable

\* A step that requeues a job spends a number, and no number comes back.
LEMMA PaidStep ==
    /\ TypeOK /\ NoJobStranded /\ NumbersClaimed /\ RowReserved /\ NoSharedAttempt
    /\ ClaimsPaidFor
    /\ [Next]_vars
    => ClaimsPaidFor'
<1> SUFFICES ASSUME TypeOK, NoJobStranded, NumbersClaimed, RowReserved,
                    NoSharedAttempt, ClaimsPaidFor, [Next]_vars, NEW j \in Jobs
             PROVE  (jobs[j].attemptCount + Pending(j)
                       <= 1 + Cardinality(SpentByExecutor(j))
                            + Cardinality(SpentByRecovery(j)))'
  BY DEF ClaimsPaidFor
<1> DEFINE c == jobs[j].attemptCount
           E == SpentByExecutor(j)
           R == SpentByRecovery(j)
<1>1. /\ IsFiniteSet(E') /\ IsFiniteSet(R')
      /\ Cardinality(E) \in Nat /\ Cardinality(R) \in Nat
      /\ Cardinality(E') \in Nat /\ Cardinality(R') \in Nat
  BY SpentSubsets, SpentFinite
<1>2. E \subseteq E' /\ R \subseteq R'
  BY ExecutorSpendsForGood, RecoverySpendsForGood
<1>3. Cardinality(E) <= Cardinality(E') /\ Cardinality(R) <= Cardinality(R')
  BY <1>1, <1>2, FS_Subset
<1>4. /\ c \in Nat /\ c' \in Nat
      /\ Pending(j) \in {0, 1} /\ Pending(j)' \in {0, 1}
      /\ c + Pending(j) <= 1 + Cardinality(E) + Cardinality(R)
  BY CountGrows DEF Pending, ClaimsPaidFor
<1> HIDE DEF E, R
\* The cheap steps: nothing is added on the left.
<1>5. CASE c' + Pending(j)' <= c + Pending(j)
  BY <1>1, <1>3, <1>4, <1>5 DEF E, R
<1>6. ASSUME NEW w \in Workers, Claim(w) PROVE c' + Pending(j)' <= c + Pending(j)
  <2>1. PICK i \in Jobs : /\ Claimable(i)
                          /\ jobs'[i].status = "DELIVERING"
                          /\ jobs'[i].attemptCount = jobs[i].attemptCount + 1
                          /\ \A k \in Jobs \ {i} : jobs'[k] = jobs[k]
    BY <1>6, ClaimRow
  <2>2. CASE i = j
    BY <1>4, <2>1, <2>2 DEF Claimable, Pending, CLAIMABLE_STATUSES
  <2>3. CASE i # j
    BY <1>4, <2>1, <2>3 DEF Pending
  <2>4. QED
    BY <2>2, <2>3
\* A requeue adds one on the left and spends a number that was not spent.
<1>7. ASSUME NEW i \in Jobs, NEW s \in {"DELIVERED", "FAILED", "RETRYING"},
             WriteStatus(i, s),
             i = j /\ s = "RETRYING" =>
               \/ jobs[j].status \in CLAIMABLE_STATUSES
               \/ \E n : n \in E' \ E
               \/ \E n : n \in R' \ R
      PROVE  c' + Pending(j)' <= 1 + Cardinality(E') + Cardinality(R')
  <2>1. s \in DeliveryStatus
    BY DEF DeliveryStatus
  <2>2. /\ jobs'[i].status = s
        /\ jobs'[i].attemptCount = jobs[i].attemptCount
        /\ \A k \in Jobs \ {i} : jobs'[k] = jobs[k]
    BY <1>7, <2>1, WriteStatusRow
  <2>3. c' = c
    BY <2>2
  <2>4. CASE i # j
    <3>1. Pending(j)' = Pending(j)
      BY <2>2, <2>4 DEF Pending
    <3>2. QED
      BY <1>1, <1>3, <1>4, <2>3, <3>1
  <2>5. CASE i = j /\ s # "RETRYING"
    <3>1. Pending(j)' = 0
      BY <2>2, <2>5 DEF Pending, CLAIMABLE_STATUSES
    <3>2. QED
      BY <1>1, <1>3, <1>4, <2>3, <3>1
  <2>6. CASE jobs[j].status \in CLAIMABLE_STATUSES
    <3>1. Pending(j) = 1
      BY <2>6 DEF Pending
    <3>2. QED
      BY <1>1, <1>3, <1>4, <2>3, <3>1
  <2>7. CASE \E n : n \in E' \ E
    <3>1. Cardinality(E) + 1 <= Cardinality(E')
      BY <1>1, <1>2, <2>7, StrictSubset
    <3>2. QED
      BY <1>1, <1>3, <1>4, <2>3, <3>1
  <2>8. CASE \E n : n \in R' \ R
    <3>1. Cardinality(R) + 1 <= Cardinality(R')
      BY <1>1, <1>2, <2>8, StrictSubset
    <3>2. QED
      BY <1>1, <1>3, <1>4, <2>3, <3>1
  <2>9. QED
    BY <1>7, <2>4, <2>5, <2>6, <2>7, <2>8
\* Recovery spends the number of the claim it releases ...
<1>8. ASSUME NEW w \in Workers, ReleaseStaleJob(w)
      PROVE  c' + Pending(j)' <= 1 + Cardinality(E') + Cardinality(R')
  <2>1. /\ held[w] \in Entity
        /\ Recovered(held[w]) \in {"FAILED", "RETRYING"}
        /\ WriteStatus(held[w].eventId, Recovered(held[w]))
    BY <1>8, ReleaseRow
  <2>2. ASSUME held[w].eventId = j, Recovered(held[w]) = "RETRYING"
        PROVE  c \in R' \ R
    <3>1. /\ jobs[j].status = "DELIVERING"
          /\ held[w].lockedAt = c
      BY <1>8, <2>2 DEF ReleaseStaleJob, StillStale, NoJobStranded, CLAIMABLE_STATUSES,
                        TERMINAL_STATUSES
    <3>2. held[w].lockedAt = held[w].attemptCount /\ c # 0
      BY <1>8, <2>2, <3>1 DEF ReleaseStaleJob, NumbersClaimed, ReadStale
    <3>3. c \in Retriable
      BY <1>4, <2>2, <3>1, <3>2, BudgetAssumption DEF Recovered, isExhausted, Retriable
    <3>4. jobs'[j].status # "DELIVERING" /\ jobs'[j].attemptCount = c
      BY <2>1, <2>2, WriteStatusRow DEF DeliveryStatus
    <3>5. QED
      BY <1>4, <3>1, <3>3, <3>4 DEF R, SpentByRecovery
  <2>3. QED
    BY <1>7, <2>1, <2>2 DEF Entity
\* ... and an executor its own number, which nobody else flies.
<1>9. ASSUME NEW w \in Workers, TransitionJob(w)
      PROVE  c' + Pending(j)' <= 1 + Cardinality(E') + Cardinality(R')
  <2>1. /\ held[w] \in Entity
        /\ result[w] \in Classification
        /\ Outcome(w) \in {"DELIVERED", "FAILED", "RETRYING"}
        /\ WriteStatus(held[w].eventId, Outcome(w))
    BY <1>9, TransitionRow
  <2>2. ASSUME held[w].eventId = j, Outcome(w) = "RETRYING"
        PROVE  held[w].attemptCount \in E' \ E
    <3>1. pc[w] \in InFlight /\ pc[w] \in Executing
      BY <1>9 DEF TransitionJob, InFlight, Executing
    <3>2. held[w].attemptCount \in Retriable
      <4>1. held[w].attemptCount \in 1 .. c
        BY <2>2, <3>1 DEF NumbersClaimed
      <4>2. ~isExhausted(held[w].attemptCount)
        BY <2>1, <2>2 DEF Outcome, Verdict, Classification
      <4>3. QED
        BY <1>4, <4>1, <4>2, BudgetAssumption DEF isExhausted, Retriable
    <3>3. held[w].attemptCount \notin E
      BY <2>2, <3>1 DEF E, SpentByExecutor, Flies
    <3>4. held[w].attemptCount \in DOMAIN attempts'[j]
      BY <2>2, <3>1, RowsGrow DEF RowReserved
    <3>5. \A v \in Workers : ~Flies(v, j, held[w].attemptCount)'
      <4> SUFFICES ASSUME NEW v \in Workers, pc'[v] \in InFlight, held'[v].eventId = j,
                          held'[v].attemptCount = held[w].attemptCount
                   PROVE  FALSE
        BY <1>9 DEF Flies, TransitionJob
      <4>1. v # w /\ pc[v] \in InFlight /\ held'[v] = held[v]
        BY <1>9 DEF TransitionJob, Goto, TypeOK, InFlight
      <4>2. QED
        BY <2>2, <3>1, <4>1 DEF NoSharedAttempt
    <3>6. held'[w] = held[w]
      BY <1>9 DEF TransitionJob
    <3>7. QED
      BY <3>2, <3>3, <3>4, <3>5, <3>6 DEF E, SpentByExecutor
  <2>3. QED
    BY <1>7, <2>1, <2>2 DEF Entity
<1>10. CASE jobs' = jobs
  BY <1>5, <1>10, <1>4 DEF Pending
<1>11. QED
  BY <1>5, <1>6, <1>8, <1>9, <1>10, JobsWriters DEF E, R

\* At first no claim has to be paid for.
LEMMA NothingClaimed == Init => ClaimsPaidFor
<1> SUFFICES ASSUME Init, NEW j \in Jobs
             PROVE  jobs[j].attemptCount + Pending(j)
                      <= 1 + Cardinality(SpentByExecutor(j))
                           + Cardinality(SpentByRecovery(j))
  BY DEF ClaimsPaidFor
<1>1. jobs[j].attemptCount = 0 /\ Pending(j) \in {0, 1}
  BY DEF Init, Pending
<1>2. QED
  BY <1>1, SpentSubsets, SpentFinite

\* There are MaxAttempts - 1 numbers for each of the two to spend.
LEMMA BoundedClaims == ASSUME TypeOK, ClaimsPaidFor PROVE AttemptBound
<1> SUFFICES ASSUME NEW j \in Jobs PROVE jobs[j].attemptCount <= 2 * MaxAttempts - 1
  BY DEF AttemptBound
<1>1. jobs[j].attemptCount \in Nat /\ Pending(j) \in {0, 1}
  BY DEF TypeOK, JobRow, Pending
<1>2. jobs[j].attemptCount + Pending(j)
        <= 1 + Cardinality(SpentByExecutor(j)) + Cardinality(SpentByRecovery(j))
  BY DEF ClaimsPaidFor
<1>3. QED
  BY <1>1, <1>2, SpentSubsets, SpentFinite, BudgetAssumption

\* Each claim but the first was paid for by one of the two ways to requeue.
THEOREM ClaimsPaidForAlways == Spec => []ClaimsPaidFor
BY NothingClaimed, PaidStep, TypeCorrect, NoJobStrandedAlways, NumbersClaimedAlways,
   RowReservedAlways, NoSharedAttemptAlways, PTL DEF Spec

\* However many workers run, crash, stall past their lease and come back, a job
\* is claimed at most 2 * MaxAttempts - 1 times.
THEOREM AttemptBoundAlways == Spec => []AttemptBound
BY BoundedClaims, TypeCorrect, ClaimsPaidForAlways, PTL

----------------------------------------------------------------------------
(* Who touches what                                                        *)

\* The steps at which a worker has no job in hand.
Resting == {"idle", "down", "sweep", "loop"}

\* A step that leaves the rows and the jobs in hand alone, as queries, timers,
\* stops and losses do.
Rests ==
    /\ UNCHANGED <<jobs, eventStatus, attempts, answers, held, result>>
    /\ \A w \in Workers : pc'[w] = pc[w] \/ (pc[w] \in Resting /\ pc'[w] \in Resting)
    /\ faults' = 0 => faults = 0

\* The other steps of a worker ...
Acts(w) ==
    \/ CloseAbandoned(w) \/ ReleaseStaleJob(w) \/ ReleaseRefused(w) \/ ProjectRelease(w)
    \/ Claim(w) \/ ReadClaimed(w)
    \/ Execute(w)
    \/ Fault(w)

\* ... and the job such a step is about: the one in hand, or the one it takes.
Acted(w) == IF pc[w] \in {"sweep", "loop"} THEN held'[w].eventId ELSE held[w].eventId

\* There are no more steps in the engine.
LEMMA StepKinds ==
    ASSUME TypeOK, [Next]_vars
    PROVE  Rests \/ \E w \in Workers : Acts(w)
<1> USE DEF Rests, Resting, Goto, TypeOK
<1>1. ASSUME NEW w \in Workers,
             FindStaleJobs(w) \/ FindDueJobIds(w) \/ ClaimRefused(w) \/ EndTick(w) \/ Restart(w)
      PROVE  Rests
  BY <1>1 DEF FindStaleJobs, FindDueJobIds, ClaimRefused, EndTick, Restart, dbVars
<1>2. CASE Time \/ UNCHANGED vars
  BY <1>2 DEF Time, BackoffElapses, LeaseExpires, workerVars, vars, dbVars
<1>3. QED
  BY <1>1, <1>2 DEF Next, Work, Recover, Drain, Acts

\* What a worker does is a step of the engine.
LEMMA ActsAreSteps == ASSUME NEW w \in Workers, Acts(w) PROVE Next
BY DEF Acts, Next, Work, Recover, Drain

\* A worker writes the rows of one job, and nothing of the other workers.
LEMMA ActsOnOne ==
    ASSUME TypeOK, NEW w \in Workers, Acts(w)
    PROVE  /\ \A j \in Jobs : j # Acted(w) => /\ jobs'[j] = jobs[j]
                                              /\ attempts'[j] = attempts[j]
                                              /\ eventStatus'[j] = eventStatus[j]
           /\ \A v \in Workers : v # w => /\ pc'[v] = pc[v]
                                          /\ held'[v] = held[v]
                                          /\ result'[v] = result[v]
<1> DEFINE One == /\ \A j \in Jobs : j # Acted(w) => /\ jobs'[j] = jobs[j]
                                                     /\ attempts'[j] = attempts[j]
                                                     /\ eventStatus'[j] = eventStatus[j]
                  /\ \A v \in Workers : v # w => /\ pc'[v] = pc[v]
                                                 /\ held'[v] = held[v]
                                                 /\ result'[v] = result[v]
<1> USE DEF Acted, TypeOK, Goto, Drop, dbVars
<1>1. CloseAbandoned(w) => One
  BY DEF CloseAbandoned
<1>2. ReleaseStaleJob(w) => One
  BY DEF ReleaseStaleJob, WriteStatus
<1>3. ReleaseRefused(w) \/ ProjectRelease(w) => One
  BY DEF ReleaseRefused, ProjectRelease
<1>4. Claim(w) => One
  BY DEF Claim, NoEntity
<1>5. ReadClaimed(w) \/ StartRefused(w) \/ Send(w) \/ ProjectStatus(w) => One
  BY DEF ReadClaimed, StartRefused, Send, ProjectStatus
<1>6. StartAttempt(w) \/ CompleteAttempt(w) => One
  BY DEF StartAttempt, CompleteAttempt
<1>7. TransitionJob(w) => One
  BY DEF TransitionJob, WriteStatus
<1>8. Fault(w) => One
  BY DEF Fault, JobThrows, TickThrows, Crash
<1>9. QED
  BY <1>1, <1>2, <1>3, <1>4, <1>5, <1>6, <1>7, <1>8 DEF Acts, Execute

\* As long as hands are apart it is not the job of another worker.
LEMMA OthersApart ==
    ASSUME TypeOK, HandsApart, HandsApart', NEW w \in Workers, Acts(w),
           NEW v \in Workers, v # w, pc[v] \in Holding
    PROVE  held[v] \in Entity /\ held[v].eventId \in Jobs /\ held[v].eventId # Acted(w)
<1>1. held[v] \in Entity /\ held[v].eventId \in Jobs /\ held[v] # NoEntity
  BY DeliveryAssumption DEF TypeOK, Entity, NoEntity
<1>2. held'[v] = held[v]
  BY ActsOnOne
<1>3. QED
  BY <1>1, <1>2 DEF HandsApart, Acted

\* So what the others know of their jobs stays true.
LEMMA OthersUntouched ==
    ASSUME TypeOK, HandsApart, HandsApart', NEW w \in Workers, Acts(w),
           NEW v \in Workers, v # w
    PROVE  /\ pc'[v] = pc[v] /\ held'[v] = held[v] /\ result'[v] = result[v]
           /\ pc[v] \in Holding =>
                /\ jobs'[held[v].eventId] = jobs[held[v].eventId]
                /\ attempts'[held[v].eventId] = attempts[held[v].eventId]
                /\ eventStatus'[held[v].eventId] = eventStatus[held[v].eventId]
BY ActsOnOne, OthersApart

----------------------------------------------------------------------------
(* Each attempt is sent once                                               *)

\* Worker w is about to POST attempt n of job j.
ToSend(w, j, n) == /\ pc[w] = "send"
                   /\ held[w].eventId = j
                   /\ held[w].attemptCount = n

\* Nobody comes to the POST but by the INSERT of the attempt's row.
LEMMA SendStarts ==
    ASSUME TypeOK, [Next]_vars, NEW v \in Workers, pc'[v] = "send"
    PROVE  held'[v] = held[v] /\ (pc[v] = "send" \/ StartAttempt(v))
<1>1. held'[v] = held[v] /\ (pc[v] \in InFlight \/ StartAttempt(v))
  BY FlightStarts DEF InFlight
<1>2. ASSUME NEW w \in Workers, Acts(w), ~StartAttempt(v) PROVE pc[v] = "send"
  <2>1. CASE v # w
    BY <1>2, <2>1, ActsOnOne
  <2>2. CASE v = w
    BY <1>2, <2>2 DEF Acts, Execute, Fault, TypeOK, Goto, CloseAbandoned, ReleaseStaleJob,
       ReleaseRefused, ProjectRelease, Claim, ReadClaimed, StartRefused, Send,
       CompleteAttempt, TransitionJob, ProjectStatus, JobThrows, TickThrows, Crash
  <2>3. QED
    BY <2>1, <2>2
<1>3. CASE Rests
  BY <1>3 DEF Rests, Resting
<1>4. QED
  BY <1>1, <1>2, <1>3, StepKinds

\* With any number of workers, crashes and errors, an attempt number of an event
\* is POSTed at most once: no two workers are at its POST (NoSharedAttempt), and
\* when nobody is any more, nobody will be, whoever claims, recovers or restarts.
\* An attempt that a crash cut short is not repeated; the next one has a number
\* of its own.
THEOREM AttemptSentOnce ==
    Spec => [][\A j \in Jobs : \A n \in DOMAIN attempts[j] :
                 (\A w \in Workers : ~ToSend(w, j, n)) =>
                     /\ n \in DOMAIN attempts'[j]
                     /\ \A w \in Workers : ~ToSend(w, j, n)']_vars
<1> DEFINE Once == \A j \in Jobs : \A n \in DOMAIN attempts[j] :
                     (\A w \in Workers : ~ToSend(w, j, n)) =>
                         /\ n \in DOMAIN attempts'[j]
                         /\ \A w \in Workers : ~ToSend(w, j, n)'
<1>1. TypeOK /\ [Next]_vars => [Once]_vars
  <2> SUFFICES ASSUME TypeOK, [Next]_vars, NEW j \in Jobs, NEW n \in DOMAIN attempts[j],
                      \A w \in Workers : ~ToSend(w, j, n)
               PROVE  /\ n \in DOMAIN attempts'[j]
                      /\ \A w \in Workers : ~ToSend(w, j, n)'
    OBVIOUS
  <2>1. n \in DOMAIN attempts'[j]
    BY RowsGrow
  <2>2. ASSUME NEW w \in Workers, ToSend(w, j, n)' PROVE FALSE
    <3>1. held'[w] = held[w] /\ (pc[w] = "send" \/ StartAttempt(w))
      BY <2>2, SendStarts DEF ToSend
    <3>2. QED
      BY <2>2, <3>1 DEF ToSend, StartAttempt
  <2>3. QED
    BY <2>1, <2>2
<1>2. QED
  BY <1>1, TypeCorrect, PTL DEF Spec

----------------------------------------------------------------------------
(* No outcome without a reason                                             *)

\* The receiver's answers are recorded by the POST alone.
LEMMA AnswersWriters ==
    ASSUME [Next]_vars
    PROVE  answers' = answers \/ \E w \in Workers : Send(w)
BY DEF Next, Work, Recover, Drain, Execute, Fault, Time, vars,
       FindStaleJobs, CloseAbandoned, ReleaseStaleJob, ReleaseRefused, ProjectRelease,
       FindDueJobIds, Claim, ClaimRefused, ReadClaimed, EndTick, StartAttempt,
       StartRefused, CompleteAttempt, TransitionJob, ProjectStatus, JobThrows,
       TickThrows, Crash, Restart, BackoffElapses, LeaseExpires

\* The POST adds the answer to the worker's own attempt.
LEMMA SendRow ==
    ASSUME TypeOK, NEW w \in Workers, Send(w)
    PROVE  /\ pc[w] = "send" /\ pc'[w] = "complete"
           /\ held[w] \in Entity /\ held[w].eventId \in Jobs /\ held' = held
           /\ attempts' = attempts
           /\ \A j \in Jobs : j # held[w].eventId => answers'[j] = answers[j]
           /\ LET old == answers[held[w].eventId]
                  new == answers'[held[w].eventId]
                  n   == held[w].attemptCount
              IN  /\ DOMAIN new = DOMAIN old \cup {n}
                  /\ new[n] = result'[w]
                  /\ \A m \in DOMAIN old : m # n => new[m] = old[m]
<1>1. /\ pc[w] = "send" /\ pc'[w] = "complete"
      /\ held[w] \in Entity /\ held[w].eventId \in Jobs
      /\ held' = held /\ attempts' = attempts
  BY DEF Send, TypeOK, Goto, dbVars, Holding, Executing, InFlight, Entity
<1>2. PICK c \in Classification :
        /\ result' = [result EXCEPT ![w] = c]
        /\ answers' = [answers EXCEPT ![held[w].eventId] =
                         WithRow(@, held[w].attemptCount, c)]
  BY DEF Send
<1>3. /\ result'[w] = c
      /\ answers'[held[w].eventId] = WithRow(answers[held[w].eventId], held[w].attemptCount, c)
      /\ \A j \in Jobs : j # held[w].eventId => answers'[j] = answers[j]
  BY <1>1, <1>2 DEF TypeOK
<1>4. QED
  BY <1>1, <1>3 DEF WithRow

\* A number is answered after its row was inserted, and by one POST.
LEMMA OnceStep ==
    /\ TypeOK /\ RowReserved /\ NoSharedAttempt /\ AnsweredOnce
    /\ [Next]_vars
    => AnsweredOnce'
<1> SUFFICES ASSUME TypeOK, RowReserved, NoSharedAttempt, AnsweredOnce, [Next]_vars
             PROVE  AnsweredOnce'
  OBVIOUS
<1>1. ASSUME NEW j \in Jobs PROVE DOMAIN answers'[j] \subseteq DOMAIN attempts'[j]
  <2>1. CASE answers' = answers
    BY <2>1, RowsGrow DEF AnsweredOnce
  <2>2. ASSUME NEW w \in Workers, Send(w) PROVE DOMAIN answers'[j] \subseteq DOMAIN attempts'[j]
    <3>1. held[w].attemptCount \in DOMAIN attempts[held[w].eventId]
      BY <2>2, SendRow DEF RowReserved, InFlight
    <3>2. QED
      BY <2>2, <3>1, SendRow DEF AnsweredOnce
  <2>3. QED
    BY <2>1, <2>2, AnswersWriters
<1>2. ASSUME NEW v \in Workers, pc'[v] = "send"
      PROVE  held'[v].attemptCount \notin DOMAIN answers'[held'[v].eventId]
  <2>1. /\ held'[v] = held[v] /\ held[v] \in Entity
        /\ pc[v] = "send" \/ StartAttempt(v)
    BY <1>2, SendStarts, FlightStarts DEF InFlight
  <2>2. held[v].attemptCount \notin DOMAIN answers[held[v].eventId]
    BY <2>1 DEF AnsweredOnce, StartAttempt, Entity
  <2>3. ASSUME NEW w \in Workers, Send(w)
        PROVE  held[v].attemptCount \notin DOMAIN answers'[held[v].eventId]
    <3>0. ~StartAttempt(v)
      BY <2>3 DEF StartAttempt, Send, TypeOK, Goto
    <3>1. w # v /\ pc[v] = "send"
      BY <1>2, <2>1, <2>3, <3>0, SendRow
    <3>2. held[v].eventId = held[w].eventId => held[v].attemptCount # held[w].attemptCount
      BY <2>3, <3>1, SendRow DEF NoSharedAttempt, InFlight
    <3>3. QED
      BY <2>1, <2>2, <2>3, <3>2, SendRow DEF Entity
  <2>4. QED
    BY <2>1, <2>2, <2>3, AnswersWriters
<1>3. QED
  BY <1>1, <1>2 DEF AnsweredOnce

\* An answer is never forgotten and never replaced.
LEMMA AnswersGrow ==
    ASSUME TypeOK, AnsweredOnce, [Next]_vars, NEW j \in Jobs
    PROVE  \A n \in DOMAIN answers[j] : /\ n \in DOMAIN answers'[j]
                                         /\ answers'[j][n] = answers[j][n]
<1>1. ASSUME NEW w \in Workers, Send(w)
      PROVE  \A n \in DOMAIN answers[j] : /\ n \in DOMAIN answers'[j]
                                           /\ answers'[j][n] = answers[j][n]
  <2>1. held[w].attemptCount \notin DOMAIN answers[held[w].eventId]
    BY <1>1, SendRow DEF AnsweredOnce
  <2>2. CASE j = held[w].eventId
    BY <1>1, <2>1, <2>2, SendRow
  <2>3. CASE j # held[w].eventId
    BY <1>1, <2>3, SendRow
  <2>4. QED
    BY <2>2, <2>3
<1>2. QED
  BY <1>1, AnswersWriters

\* Nobody comes past the answer but by the POST.
LEMMA SettledStays ==
    ASSUME TypeOK, [Next]_vars, NEW v \in Workers, pc'[v] \in Settled
    PROVE  \/ Send(v)
           \/ pc[v] \in Settled /\ held'[v] = held[v] /\ result'[v] = result[v]
<1>1. ASSUME NEW w \in Workers, Acts(w), ~Send(v)
      PROVE  pc[v] \in Settled /\ held'[v] = held[v] /\ result'[v] = result[v]
  <2>1. CASE v # w
    BY <1>1, <2>1, ActsOnOne
  <2>2. CASE v = w
    BY <1>1, <2>2 DEF Acts, Execute, Fault, TypeOK, Goto, Settled, CloseAbandoned,
       ReleaseStaleJob, ReleaseRefused, ProjectRelease, Claim, ReadClaimed, StartAttempt,
       StartRefused, CompleteAttempt, TransitionJob, ProjectStatus, JobThrows, TickThrows,
       Crash
  <2>3. QED
    BY <2>1, <2>2
<1>2. CASE Rests
  BY <1>2 DEF Rests, Resting, Settled
<1>3. QED
  BY <1>1, <1>2, StepKinds

\* What a worker acts on stays the answer to its attempt.
LEMMA AnsweredStep ==
    TypeOK /\ AnsweredOnce /\ ResultAnswered /\ [Next]_vars => ResultAnswered'
<1> SUFFICES ASSUME TypeOK, AnsweredOnce, ResultAnswered, [Next]_vars, NEW v \in Workers,
                    pc'[v] \in Settled
             PROVE  /\ held'[v].attemptCount \in DOMAIN answers'[held'[v].eventId]
                    /\ answers'[held'[v].eventId][held'[v].attemptCount] = result'[v]
  BY DEF ResultAnswered
<1>1. \/ Send(v)
      \/ pc[v] \in Settled /\ held'[v] = held[v] /\ result'[v] = result[v]
  BY SettledStays
<1>2. CASE Send(v)
  BY <1>2, SendRow DEF Entity
<1>3. CASE pc[v] \in Settled /\ held'[v] = held[v] /\ result'[v] = result[v]
  <2>1. held[v] \in Entity
    BY <1>3 DEF TypeOK, Settled, Holding, Executing, InFlight
  <2>2. QED
    BY <1>3, <2>1, AnswersGrow DEF ResultAnswered, Entity
<1>4. QED
  BY <1>1, <1>2, <1>3

\* Every attempt has its row before it has an answer, it is answered once, and
\* what a worker then acts on is that answer.
THEOREM AnswersAlways == Spec => [](AnsweredOnce /\ ResultAnswered)
<1>1. Init => AnsweredOnce /\ ResultAnswered
  BY DEF Init, AnsweredOnce, ResultAnswered, Settled
<1>2. QED
  BY <1>1, OnceStep, AnsweredStep, TypeCorrect, RowReservedAlways, NoSharedAttemptAlways,
     PTL DEF Spec

\* Every step that ends a job has its reason.
LEMMA ReasonStep ==
    /\ TypeOK /\ NumbersClaimed /\ AnsweredOnce /\ ResultAnswered /\ OutcomeHasAReason
    /\ [Next]_vars
    => OutcomeHasAReason'
<1> SUFFICES ASSUME TypeOK, NumbersClaimed, AnsweredOnce, ResultAnswered,
                    OutcomeHasAReason,
                    [Next]_vars, NEW j \in Jobs
             PROVE  /\ jobs'[j].status = "DELIVERED" => "SUCCESS" \in Answered(j)'
                    /\ jobs'[j].status = "FAILED" => \/ "PERMANENT" \in Answered(j)'
                                                     \/ isExhausted(jobs'[j].attemptCount)
  BY DEF OutcomeHasAReason, isExhausted
<1> DEFINE Reasoned ==
      /\ jobs'[j].status = "DELIVERED" => "SUCCESS" \in Answered(j)'
      /\ jobs'[j].status = "FAILED" => \/ "PERMANENT" \in Answered(j)'
                                       \/ isExhausted(jobs'[j].attemptCount)
<1>1. /\ Answered(j) \subseteq Answered(j)'
      /\ isExhausted(jobs[j].attemptCount) => isExhausted(jobs'[j].attemptCount)
  BY AnswersGrow, CountGrows, BudgetAssumption DEF isExhausted, Answered
<1>2. CASE jobs'[j] = jobs[j]
  BY <1>1, <1>2 DEF OutcomeHasAReason, isExhausted
<1>3. ASSUME NEW w \in Workers, Claim(w) PROVE Reasoned
  BY <1>2, <1>3, ClaimRow
<1>4. ASSUME NEW w \in Workers, ReleaseStaleJob(w) PROVE Reasoned
  <2>1. /\ held[w] \in Entity
        /\ Recovered(held[w]) \in {"FAILED", "RETRYING"}
        /\ WriteStatus(held[w].eventId, Recovered(held[w]))
    BY <1>4, ReleaseRow
  <2>2. CASE held[w].eventId = j
    <3>1. jobs'[j].status = Recovered(held[w])
      BY <2>1, <2>2, WriteStatusRow DEF DeliveryStatus
    <3>2. ReadStale(held[w])
      BY <1>4 DEF ReleaseStaleJob, NumbersClaimed
    <3>3. isExhausted(held[w].attemptCount) => isExhausted(jobs[j].attemptCount)
      BY <2>1, <2>2, <3>2, BudgetAssumption DEF ReadStale, isExhausted, TypeOK, JobRow, Entity
    <3>4. QED
      BY <1>1, <2>1, <3>1, <3>3 DEF Recovered
  <2>3. CASE held[w].eventId # j
    BY <1>2, <2>1, <2>3, WriteStatusRow DEF DeliveryStatus, Entity
  <2>4. QED
    BY <2>2, <2>3
<1>5. ASSUME NEW w \in Workers, TransitionJob(w) PROVE Reasoned
  <2>1. /\ held[w] \in Entity
        /\ result[w] \in Classification
        /\ Outcome(w) \in {"DELIVERED", "FAILED", "RETRYING"}
        /\ WriteStatus(held[w].eventId, Outcome(w))
    BY <1>5, TransitionRow
  <2>2. CASE held[w].eventId = j
    <3>1. jobs'[j].status = Outcome(w)
      BY <2>1, <2>2, WriteStatusRow DEF DeliveryStatus
    <3>2. result[w] \in Answered(j) /\ held[w].attemptCount \in 1 .. jobs[j].attemptCount
      BY <1>5, <2>2 DEF TransitionJob, ResultAnswered, Answered, NumbersClaimed, Settled,
                        Executing, InFlight
    <3>3. isExhausted(held[w].attemptCount) => isExhausted(jobs[j].attemptCount)
      BY <3>2, BudgetAssumption DEF isExhausted, TypeOK, JobRow
    <3>4. /\ Outcome(w) = "DELIVERED" => result[w] = "SUCCESS"
          /\ Outcome(w) = "FAILED" => \/ result[w] = "PERMANENT"
                                      \/ isExhausted(held[w].attemptCount)
      BY <2>1 DEF Outcome, Verdict, Classification
    <3>5. QED
      BY <1>1, <3>1, <3>2, <3>3, <3>4
  <2>3. CASE held[w].eventId # j
    BY <1>2, <2>1, <2>3, WriteStatusRow DEF DeliveryStatus, Entity
  <2>4. QED
    BY <2>2, <2>3
<1>6. QED
  BY <1>2, <1>3, <1>4, <1>5, JobsWriters

\* DELIVERED means the receiver accepted an attempt; FAILED that it refused one
\* for good or that the budget was spent.
THEOREM OutcomeHasAReasonAlways == Spec => []OutcomeHasAReason
<1>1. Init => OutcomeHasAReason
  BY DEF Init, OutcomeHasAReason
<1>2. QED
  BY <1>1, ReasonStep, AnswersAlways, TypeCorrect, NumbersClaimedAlways, PTL DEF Spec

----------------------------------------------------------------------------
(* Workers whose hands are apart: the lifecycle is followed                *)

\* What recovery requeues is the current claim, with budget left ...
LEMMA RecoveredBudget ==
    ASSUME TypeOK, NoJobStranded, NumbersClaimed, NEW w \in Workers, ReleaseStaleJob(w)
    PROVE  /\ jobs[held[w].eventId].status = "DELIVERING"
           /\ held[w].attemptCount = jobs[held[w].eventId].attemptCount
           /\ Recovered(held[w]) = "RETRYING" =>
                jobs[held[w].eventId].attemptCount < MaxAttempts
<1>1. held[w] \in Entity
  BY ReleaseRow
<1>2. held[w].attemptCount = jobs[held[w].eventId].attemptCount
  BY <1>1 DEF ReleaseStaleJob, StillStale, NumbersClaimed, ReadStale, NoJobStranded,
              CLAIMABLE_STATUSES, TERMINAL_STATUSES, Entity
<1>3. QED
  BY <1>1, <1>2, BudgetAssumption
     DEF ReleaseStaleJob, StillStale, Recovered, isExhausted, Entity

\* ... and so is what the worker requeues that owns the job.
LEMMA OutcomeBudget ==
    ASSUME TypeOK, OwnerInv, NEW w \in Workers, TransitionJob(w)
    PROVE  /\ jobs[held[w].eventId].status = "DELIVERING"
           /\ held[w].attemptCount = jobs[held[w].eventId].attemptCount
           /\ Outcome(w) = "RETRYING" => jobs[held[w].eventId].attemptCount < MaxAttempts
<1>1. held[w] \in Entity /\ result[w] \in Classification
  BY TransitionRow
<1>2. /\ jobs[held[w].eventId].status = "DELIVERING"
      /\ held[w].attemptCount = jobs[held[w].eventId].attemptCount
  BY DEF TransitionJob, OwnerInv, JobInHand, InFlight
<1>3. Outcome(w) = "RETRYING" => ~isExhausted(held[w].attemptCount)
  BY <1>1 DEF Outcome, Verdict, Classification
<1>4. QED
  BY <1>1, <1>2, <1>3, BudgetAssumption DEF isExhausted, Entity

\* A worker that acts knows what it does with its job.
LEMMA OwnStep ==
    ASSUME TypeOK, NoJobStranded, NumbersClaimed, OwnerInv, NEW w \in Workers, Acts(w)
    PROVE  JobInHand(w)'
<1> USE DEF TypeOK, Goto, Ticking, Executing, InFlight, JobInHand
<1>1. JobInHand(w)
  BY DEF OwnerInv
<1>2. CASE Claim(w)
  <2>1. pc'[w] = "read"
    BY <1>2 DEF Claim
  <2>2. QED
    BY <1>2, <2>1, ClaimRow
<1>3. CASE ReadClaimed(w)
  BY <1>1, <1>3 DEF ReadClaimed, Read, dbVars, Holding, Entity
<1>4. CASE StartAttempt(w) \/ Send(w) \/ CompleteAttempt(w)
  BY <1>1, <1>4 DEF StartAttempt, Send, CompleteAttempt, dbVars
<1>5. CASE TransitionJob(w)
  <2>1. /\ pc'[w] = "project"
        /\ UNCHANGED <<held, result>>
    BY <1>5 DEF TransitionJob
  <2>2. /\ jobs'[held[w].eventId].status = Outcome(w)
        /\ jobs'[held[w].eventId].attemptCount = jobs[held[w].eventId].attemptCount
    BY <1>5, TransitionRow, WriteStatusRow DEF Entity, DeliveryStatus
  <2>3. QED
    BY <1>5, <2>1, <2>2, OutcomeBudget DEF Outcome
<1>6. CASE ReleaseStaleJob(w)
  <2>1. /\ pc'[w] = "projectRelease"
        /\ UNCHANGED held
    BY <1>6 DEF ReleaseStaleJob
  <2>2. /\ jobs'[held[w].eventId].status = Recovered(held[w])
        /\ jobs'[held[w].eventId].attemptCount = jobs[held[w].eventId].attemptCount
    BY <1>6, ReleaseRow, WriteStatusRow DEF Entity, DeliveryStatus
  <2>3. QED
    BY <1>6, <2>1, <2>2, RecoveredBudget
<1>7. CASE CloseAbandoned(w) \/ ReleaseRefused(w) \/ ProjectRelease(w) \/ StartRefused(w)
             \/ ProjectStatus(w) \/ Fault(w)
  <2>1. pc'[w] \in Resting \cup {"release"}
    BY <1>7 DEF CloseAbandoned, ReleaseRefused, ProjectRelease, StartRefused, ProjectStatus,
                Fault, JobThrows, TickThrows, Crash, Resting
  <2>2. QED
    BY <2>1 DEF Resting
<1>8. QED
  BY <1>2, <1>3, <1>4, <1>5, <1>6, <1>7 DEF Acts, Execute

\* The budget is kept by who owns the job.
LEMMA BudgetStep ==
    ASSUME TypeOK, NoJobStranded, NumbersClaimed, OwnerInv, NEW w \in Workers, Acts(w)
    PROVE  /\ AttemptsWithinBudget'
           /\ \A j \in Jobs : /\ jobs'[j].status = "PENDING" <=> jobs'[j].attemptCount = 0
                              /\ jobs'[j].status \in CLAIMABLE_STATUSES =>
                                   jobs'[j].attemptCount < MaxAttempts
<1> DEFINE Kept == /\ AttemptsWithinBudget'
                   /\ \A j \in Jobs :
                        /\ jobs'[j].status = "PENDING" <=> jobs'[j].attemptCount = 0
                        /\ jobs'[j].status \in CLAIMABLE_STATUSES =>
                             jobs'[j].attemptCount < MaxAttempts
<1>1. ASSUME NEW j \in Jobs, NEW s \in {"DELIVERED", "FAILED", "RETRYING"},
             WriteStatus(j, s), jobs[j].status = "DELIVERING",
             s = "RETRYING" => jobs[j].attemptCount < MaxAttempts
      PROVE  Kept
  BY <1>1, WriteStatusRow
     DEF OwnerInv, AttemptsWithinBudget, CLAIMABLE_STATUSES, DeliveryStatus
<1>2. ReleaseStaleJob(w) => Kept
  BY <1>1, ReleaseRow, RecoveredBudget DEF Entity, ReleaseStaleJob, StillStale
<1>3. TransitionJob(w) => Kept
  BY <1>1, TransitionRow, OutcomeBudget DEF Entity
<1>4. CASE Claim(w)
  <2>1. PICK j \in Jobs : /\ Claimable(j)
                          /\ jobs'[j].status = "DELIVERING"
                          /\ jobs'[j].attemptCount = jobs[j].attemptCount + 1
                          /\ \A i \in Jobs \ {j} : jobs'[i] = jobs[i]
    BY <1>4, ClaimRow
  <2>2. jobs'[j].attemptCount <= MaxAttempts /\ jobs'[j].attemptCount # 0
    BY <2>1, BudgetAssumption DEF OwnerInv, Claimable, TypeOK, JobRow
  <2>3. QED
    BY <2>1, <2>2 DEF OwnerInv, AttemptsWithinBudget, CLAIMABLE_STATUSES
<1>5. CASE jobs' = jobs
  BY <1>5 DEF OwnerInv, AttemptsWithinBudget
<1>6. QED
  BY <1>2, <1>3, <1>4, <1>5
     DEF Acts, Execute, Fault, CloseAbandoned, ReleaseRefused, ProjectRelease, ReadClaimed,
         StartAttempt, StartRefused, Send, CompleteAttempt, ProjectStatus, JobThrows,
         TickThrows, Crash, dbVars

\* As long as hands are apart a job in hand stays its worker's.
LEMMA OwnerStep ==
    ASSUME TypeOK, NoJobStranded, NumbersClaimed, HandsApart, HandsApart', OwnerInv,
           [Next]_vars \/ Rests
    PROVE  OwnerInv'
<1>1. CASE Rests
  <2>1. ASSUME NEW v \in Workers PROVE JobInHand(v)'
    BY <1>1 DEF OwnerInv, JobInHand, Outcome, Rests, Resting, InFlight
  <2>2. QED
    BY <1>1, <2>1 DEF OwnerInv, AttemptsWithinBudget, Rests
<1>2. ASSUME NEW w \in Workers, Acts(w) PROVE OwnerInv'
  <2>1. ASSUME NEW v \in Workers, v # w PROVE JobInHand(v)'
    BY <1>2, <2>1, OthersUntouched
       DEF OwnerInv, JobInHand, Outcome, Holding, Executing, InFlight
  <2>2. QED
    BY <1>2, <2>1, OwnStep, BudgetStep DEF OwnerInv
<1>3. QED
  BY <1>1, <1>2, StepKinds

\* Nothing is claimed yet.
LEMMA OwnerInit == Init => OwnerInv
BY BudgetAssumption DEF Init, OwnerInv, JobInHand, AttemptsWithinBudget,
                        CLAIMABLE_STATUSES, InFlight

\* The initial states are those of the lifecycle.
LEMMA LifecycleInit == Init => Lifecycle!Init
BY DEF Init, Lifecycle!Init

\* Each step of a worker that owns its job is a step of the lifecycle or none.
LEMMA LifecycleStep ==
    ASSUME TypeOK, NoJobStranded, NumbersClaimed, OwnerInv, [Next]_vars
    PROVE  [Lifecycle!Next]_Lifecycle!vars
<1> DEFINE status == [i \in Jobs |-> jobs[i].status]
           count == [i \in Jobs |-> jobs[i].attemptCount]
<1>1. CASE jobs' = jobs
  BY <1>1 DEF Lifecycle!vars
\* Out of DELIVERING a job goes where the state machine lets it.
<1>2. ASSUME NEW j \in Jobs, NEW s \in {"DELIVERED", "FAILED", "RETRYING"},
             WriteStatus(j, s), jobs[j].status = "DELIVERING",
             s = "RETRYING" => jobs[j].attemptCount < MaxAttempts
      PROVE  Lifecycle!Next
  <2>1. /\ jobs'[j].status = s
        /\ jobs'[j].attemptCount = jobs[j].attemptCount
        /\ \A i \in Jobs \ {j} : jobs'[i] = jobs[i]
    BY <1>2, WriteStatusRow DEF DeliveryStatus
  <2>2. status' = [status EXCEPT ![j] = s] /\ count' = count
    BY <2>1
  <2>3. s \in Lifecycle!DeliveryStatus \ {"DELIVERING"}
    BY DEF Lifecycle!DeliveryStatus
  <2>4. Lifecycle!canTransition(status[j], s)
    BY <1>2 DEF Lifecycle!canTransition, Lifecycle!ALLOWED_TRANSITIONS
  <2>5. s = "RETRYING" => ~Lifecycle!isExhausted(count[j])
    BY <1>2, BudgetAssumption DEF TypeOK, JobRow, Lifecycle!isExhausted
  <2>6. Lifecycle!Conclude(j)
    BY <2>2, <2>3, <2>4, <2>5 DEF Lifecycle!Conclude
  <2>7. QED
    BY <2>6 DEF Lifecycle!Next
<1>3. ASSUME NEW w \in Workers, ReleaseStaleJob(w) PROVE Lifecycle!Next
  BY <1>2, <1>3, ReleaseRow, RecoveredBudget DEF Entity
<1>4. ASSUME NEW w \in Workers, TransitionJob(w) PROVE Lifecycle!Next
  BY <1>2, <1>4, TransitionRow, OutcomeBudget DEF Entity
\* A claim takes a claimable job, which has budget left.
<1>5. ASSUME NEW w \in Workers, Claim(w) PROVE Lifecycle!Next
  <2>1. PICK j \in Jobs : /\ Claimable(j)
                          /\ jobs'[j].status = "DELIVERING"
                          /\ jobs'[j].attemptCount = jobs[j].attemptCount + 1
                          /\ \A i \in Jobs \ {j} : jobs'[i] = jobs[i]
    BY <1>5, ClaimRow
  <2>2. /\ status' = [status EXCEPT ![j] = "DELIVERING"]
        /\ count' = [count EXCEPT ![j] = @ + 1]
    BY <2>1
  <2>3. Lifecycle!canTransition(status[j], "DELIVERING")
    BY <2>1 DEF Claimable, CLAIMABLE_STATUSES, Lifecycle!canTransition,
                Lifecycle!ALLOWED_TRANSITIONS
  <2>4. count[j] < MaxAttempts
    BY <2>1 DEF OwnerInv, Claimable
  <2>5. Lifecycle!Claim(j)
    BY <2>2, <2>3, <2>4 DEF Lifecycle!Claim
  <2>6. QED
    BY <2>5 DEF Lifecycle!Next
<1>6. QED
  BY <1>1, <1>3, <1>4, <1>5, JobsWriters

\* The lifecycle leaves a job alone that is over.
LEMMA LifecycleOver ==
    ASSUME [Lifecycle!Next]_Lifecycle!vars, NEW j \in Jobs,
           jobs[j].status \in TERMINAL_STATUSES
    PROVE  /\ jobs'[j].status = jobs[j].status
           /\ jobs'[j].attemptCount = jobs[j].attemptCount
<1> DEFINE status == [i \in Jobs |-> jobs[i].status]
           count == [i \in Jobs |-> jobs[i].attemptCount]
<1>1. \A to : ~Lifecycle!canTransition(status[j], to)
  BY DEF TERMINAL_STATUSES, Lifecycle!canTransition, Lifecycle!ALLOWED_TRANSITIONS
<1>2. status'[j] = status[j] /\ count'[j] = count[j]
  BY <1>1 DEF Lifecycle!Next, Lifecycle!Claim, Lifecycle!Conclude, Lifecycle!vars
<1>3. QED
  BY <1>2

----------------------------------------------------------------------------
(* Workers whose hands are apart: the attempt log                          *)

\* What a worker that starts or completes an attempt does to the row of its
\* job, which is DELIVERING at that attempt.
LEMMA RowStep ==
    ASSUME TypeOK, OwnerInv, NEW w \in Workers, StartAttempt(w) \/ CompleteAttempt(w)
    PROVE  LET j == held[w].eventId
               n == held[w].attemptCount
           IN  /\ j \in Jobs /\ n \in Nat
               /\ jobs' = jobs /\ held' = held /\ Acted(w) = j
               /\ jobs[j].status = "DELIVERING" /\ jobs[j].attemptCount = n
               /\ DOMAIN attempts'[j] = DOMAIN attempts[j] \cup {n}
               /\ \A i \in DOMAIN attempts[j] : i # n => attempts'[j][i] = attempts[j][i]
               /\ StartAttempt(w) => attempts'[j][n] = "IN_PROGRESS"
               /\ CompleteAttempt(w) =>
                    attempts'[j][n] = IF result[w] = "SUCCESS" THEN "SUCCESS" ELSE "FAILED"
<1> DEFINE j == held[w].eventId
           n == held[w].attemptCount
<1>1. pc[w] \in {"start", "complete"} /\ jobs' = jobs /\ held' = held
  BY DEF StartAttempt, CompleteAttempt
<1>2. held[w] \in Entity
  BY <1>1 DEF TypeOK, Holding, Executing, InFlight
<1>3. j \in Jobs /\ n \in Nat /\ Acted(w) = j
  BY <1>1, <1>2 DEF Entity, Acted
<1>4. jobs[j].status = "DELIVERING" /\ jobs[j].attemptCount = n
  BY <1>1 DEF OwnerInv, JobInHand, InFlight
<1>5. PICK s : /\ attempts'[j] = WithRow(attempts[j], n, s)
               /\ StartAttempt(w) => s = "IN_PROGRESS"
               /\ CompleteAttempt(w) =>
                    s = IF result[w] = "SUCCESS" THEN "SUCCESS" ELSE "FAILED"
  <2>1. CASE StartAttempt(w)
    BY <1>3, <2>1 DEF StartAttempt, CompleteAttempt, TypeOK
  <2>2. CASE CompleteAttempt(w)
    BY <1>3, <2>2 DEF StartAttempt, CompleteAttempt, TypeOK
  <2>3. QED
    BY <2>1, <2>2
<1> HIDE DEF j, n
<1>6. /\ DOMAIN attempts'[j] = DOMAIN attempts[j] \cup {n}
      /\ \A i \in DOMAIN attempts[j] : i # n => attempts'[j][i] = attempts[j][i]
      /\ attempts'[j][n] = s
  BY <1>5 DEF WithRow
<1>7. QED
  BY <1>1, <1>3, <1>4, <1>5, <1>6 DEF j, n

\* What recovery does to the rows of the job it takes in hand.
LEMMA ClosedRows ==
    ASSUME TypeOK, NEW w \in Workers, CloseAbandoned(w)
    PROVE  LET j == held'[w].eventId
           IN  /\ j \in Jobs /\ Acted(w) = j
               /\ UNCHANGED <<jobs, eventStatus>>
               /\ DOMAIN attempts'[j] = DOMAIN attempts[j]
               /\ \A n \in DOMAIN attempts[j] :
                    attempts'[j][n] = IF attempts[j][n] = "IN_PROGRESS" THEN "FAILED"
                                      ELSE attempts[j][n]
BY DEF CloseAbandoned, Closed, Acted, TypeOK, Entity

\* An open row is that of an attempt its job is at, whoever acts.
LEMMA OpenStep ==
    ASSUME TypeOK, OwnerInv, AttemptLogInv, NEW w \in Workers, Acts(w)
    PROVE  OpenAttemptIsCurrent'
<1> USE DEF AttemptLogInv, OpenAttemptIsCurrent
<1>1. ASSUME NEW j \in Jobs, NEW n \in DOMAIN attempts'[j],
             attempts'[j][n] = "IN_PROGRESS", j # Acted(w)
      PROVE  jobs'[j].status = "DELIVERING" /\ jobs'[j].attemptCount = n
  BY <1>1, ActsOnOne
<1>2. CASE StartAttempt(w) \/ CompleteAttempt(w)
  BY <1>1, <1>2, RowStep
<1>3. CASE CloseAbandoned(w)
  BY <1>1, <1>3, ClosedRows
\* A job that is written has no open row any more.
<1>4. ASSUME attempts' = attempts,
             \A n \in DOMAIN attempts[Acted(w)] : attempts[Acted(w)][n] # "IN_PROGRESS"
      PROVE  OpenAttemptIsCurrent'
  BY <1>1, <1>4
<1>5. CASE ReleaseStaleJob(w)
  <2>1. pc[w] = "release" /\ attempts' = attempts
    BY <1>5 DEF ReleaseStaleJob
  <2>2. QED
    BY <1>4, <2>1 DEF LogInHand, Acted
<1>6. CASE TransitionJob(w)
  <2>1. pc[w] = "transition" /\ attempts' = attempts /\ held[w] \in Entity
    BY <1>6, TransitionRow DEF TransitionJob
  <2>2. \A n \in DOMAIN attempts[held[w].eventId] :
          attempts[held[w].eventId][n] # "IN_PROGRESS"
    BY <1>6, <2>1, OutcomeBudget DEF LogInHand, Entity
  <2>3. QED
    BY <1>4, <2>1, <2>2 DEF Acted
<1>7. CASE Claim(w)
  <2>1. pc[w] = "loop" /\ attempts' = attempts
    BY <1>7 DEF Claim
  <2>2. held'[w].eventId \in Jobs /\ Claimable(held'[w].eventId)
    BY <1>7, ClaimRow
  <2>3. QED
    BY <1>4, <2>1, <2>2 DEF Acted, Claimable, CLAIMABLE_STATUSES
<1>8. CASE UNCHANGED <<jobs, attempts>>
  BY <1>8
<1>9. QED
  BY <1>2, <1>3, <1>5, <1>6, <1>7, <1>8
     DEF Acts, Execute, Fault, ReleaseRefused, ProjectRelease, ReadClaimed, StartRefused,
         Send, ProjectStatus, JobThrows, TickThrows, Crash, dbVars

\* A worker keeps the rows of the job in hand in order.
LEMMA OwnLogStep ==
    ASSUME TypeOK, OwnerInv, AttemptLogInv, NEW w \in Workers, Acts(w)
    PROVE  LogInHand(w)'
<1> USE DEF LogInHand, TypeOK, Goto
<1>1. CASE CloseAbandoned(w)
  <2>1. pc'[w] = "release"
    BY <1>1 DEF CloseAbandoned
  <2>2. QED
    BY <1>1, <2>1, ClosedRows
<1>2. CASE StartAttempt(w)
  <2>1. pc'[w] = "send"
    BY <1>2 DEF StartAttempt
  <2>2. QED
    BY <1>2, <2>1, RowStep
<1>3. CASE CompleteAttempt(w)
  <2>1. pc'[w] = "transition"
    BY <1>3 DEF CompleteAttempt
  <2>2. QED
    BY <1>3, <2>1, RowStep
<1>4. CASE Send(w)
  BY <1>4 DEF Send, dbVars, AttemptLogInv
<1>5. CASE Claim(w) \/ ReadClaimed(w) \/ TransitionJob(w) \/ ReleaseStaleJob(w)
             \/ ReleaseRefused(w) \/ ProjectRelease(w) \/ StartRefused(w) \/ ProjectStatus(w)
             \/ Fault(w)
  <2>1. pc'[w] \notin {"release", "send", "complete", "transition"}
    BY <1>5 DEF Claim, ReadClaimed, TransitionJob, ReleaseStaleJob, ReleaseRefused,
                ProjectRelease, StartRefused, ProjectStatus, Fault, JobThrows, TickThrows, Crash
  <2>2. QED
    BY <2>1
<1>6. QED
  BY <1>1, <1>2, <1>3, <1>4, <1>5 DEF Acts, Execute

\* As long as hands are apart the log stays in order.
LEMMA LogStep ==
    ASSUME TypeOK, HandsApart, HandsApart', OwnerInv, AttemptLogInv, [Next]_vars \/ Rests
    PROVE  AttemptLogInv'
<1>1. CASE Rests
  <2>1. ASSUME NEW v \in Workers PROVE LogInHand(v)'
    BY <1>1 DEF AttemptLogInv, LogInHand, Rests, Resting
  <2>2. QED
    BY <1>1, <2>1 DEF AttemptLogInv, OpenAttemptIsCurrent, Rests
<1>2. ASSUME NEW w \in Workers, Acts(w) PROVE AttemptLogInv'
  <2>1. ASSUME NEW v \in Workers, v # w PROVE LogInHand(v)'
    BY <1>2, <2>1, OthersUntouched
       DEF AttemptLogInv, LogInHand, Holding, Executing, InFlight
  <2>2. QED
    BY <1>2, <2>1, OpenStep, OwnLogStep DEF AttemptLogInv
<1>3. QED
  BY <1>1, <1>2, StepKinds

\* There are no attempt rows yet.
LEMMA LogInit == Init => AttemptLogInv
BY DEF Init, AttemptLogInv, LogInHand, OpenAttemptIsCurrent

\* What a step may do to a row that is completed.
LEMMA HistoryStep ==
    ASSUME TypeOK, AttemptLogInv, [Next]_vars \/ Rests,
           NEW j \in Jobs, NEW n \in DOMAIN attempts[j], attempts[j][n] # "IN_PROGRESS"
    PROVE  n \in DOMAIN attempts'[j] /\ attempts'[j][n] = attempts[j][n]
<1>1. CASE attempts' = attempts
  BY <1>1
<1>2. ASSUME NEW w \in Workers, CloseAbandoned(w)
      PROVE  n \in DOMAIN attempts'[j] /\ attempts'[j][n] = attempts[j][n]
  BY <1>2 DEF CloseAbandoned, Closed, TypeOK
<1>3. ASSUME NEW w \in Workers, StartAttempt(w)
      PROVE  n \in DOMAIN attempts'[j] /\ attempts'[j][n] = attempts[j][n]
  BY <1>3 DEF StartAttempt, WithRow, TypeOK
<1>4. ASSUME NEW w \in Workers, CompleteAttempt(w)
      PROVE  n \in DOMAIN attempts'[j] /\ attempts'[j][n] = attempts[j][n]
  BY <1>4 DEF CompleteAttempt, WithRow, TypeOK, AttemptLogInv, LogInHand
<1>5. QED
  BY <1>1, <1>2, <1>3, <1>4, AttemptsWriters DEF Rests

----------------------------------------------------------------------------
(* Workers whose hands are apart: the job and what is shown of it          *)

\* Job j and its event are in step, or somebody is between the two UPDATEs.
Shown(j) ==
    /\ jobs[j].status # "DELIVERING" => \/ eventStatus[j] = jobs[j].status
                                       \/ \E w \in Workers : Projecting(w, j)
    /\ jobs[j].status = "DELIVERING" => eventStatus[j] = BeforeClaim(j)

\* A SUCCESS of job j has had its effect, or somebody is about to see to it.
ActedOn(j) ==
    HasSuccess(j) => \/ jobs[j].status = "DELIVERED"
                     \/ \E w \in Workers : pc[w] = "transition" /\ held[w].eventId = j

\* The invariant, job by job and worker by worker.
LEMMA InStepParts ==
    InStepInv <=> (faults = 0 => /\ \A j \in Jobs : Shown(j) /\ ActedOn(j)
                                 /\ \A w \in Workers : SuccessInHand(w))
BY DEF InStepInv, ProjectionInStepUnlessFault, ProjectionInStep, SuccessIsDelivered,
       HasSuccess, Shown, BeforeClaim, ActedOn

\* The steps between a worker's answer and the projection.
MovingSteps == {"transition", "project", "projectRelease"}

\* A job whose rows stay, with no SUCCESS that is new, and whose worker does not
\* leave it between two writes, stays in step.
LEMMA ShownQuiet ==
    ASSUME TypeOK, NEW w \in Workers, Acts(w), NEW j \in Jobs, Shown(j), ActedOn(j),
           pc[w] \in MovingSteps => held[w].eventId # j,
           jobs'[j] = jobs[j], eventStatus'[j] = eventStatus[j],
           HasSuccess(j)' => HasSuccess(j)
    PROVE  Shown(j)' /\ ActedOn(j)'
<1>1. \A v \in Workers : Projecting(v, j) => Projecting(v, j)'
  BY ActsOnOne DEF Projecting, MovingSteps
<1>2. \A v \in Workers : pc[v] = "transition" /\ held[v].eventId = j
        => (pc[v] = "transition" /\ held[v].eventId = j)'
  BY ActsOnOne DEF MovingSteps
<1>3. QED
  BY <1>1, <1>2 DEF Shown, BeforeClaim, ActedOn

\* A job that is not in the hands of worker w stays in step whatever w does.
LEMMA ShownElsewhere ==
    ASSUME TypeOK, NEW w \in Workers, Acts(w), NEW j \in Jobs, j # Acted(w),
           Shown(j), ActedOn(j)
    PROVE  Shown(j)' /\ ActedOn(j)'
<1>1. pc[w] \in MovingSteps => held[w].eventId # j
  BY DEF Acted, MovingSteps
<1>2. /\ jobs'[j] = jobs[j] /\ eventStatus'[j] = eventStatus[j]
      /\ HasSuccess(j)' => HasSuccess(j)
  BY ActsOnOne DEF HasSuccess
<1>3. QED
  BY <1>1, <1>2, ShownQuiet

\* While worker w is at another step, no worker acts on a SUCCESS of its job.
LEMMA NoSuccessElsewhere ==
    ASSUME TypeOK, HandsApart, HandsApart', NEW w \in Workers, Acts(w),
           pc[w] # "transition", Acted(w) \in Jobs,
           ActedOn(Acted(w)), jobs[Acted(w)].status # "DELIVERED"
    PROVE  ~HasSuccess(Acted(w))
<1> SUFFICES ASSUME HasSuccess(Acted(w)) PROVE FALSE
  OBVIOUS
<1>1. PICK v \in Workers : pc[v] = "transition" /\ held[v].eventId = Acted(w)
  BY DEF ActedOn
<1>2. QED
  BY <1>1, OthersApart DEF Holding, Executing, InFlight

\* The job in hand stays in step while nothing fails.
LEMMA OwnShownStep ==
    ASSUME TypeOK, NoJobStranded, NumbersClaimed, HandsApart, HandsApart', OwnerInv,
           AttemptLogInv, NEW w \in Workers, Acts(w), ~Fault(w), SuccessInHand(w),
           NEW j \in Jobs, j = Acted(w), Shown(j), ActedOn(j)
    PROVE  Shown(j)' /\ ActedOn(j)' /\ SuccessInHand(w)'
<1> USE DEF Goto
<1>1. CASE CloseAbandoned(w)
  <2>1. pc[w] = "sweep" /\ pc'[w] = "release"
    BY <1>1 DEF CloseAbandoned, TypeOK
  <2>2. HasSuccess(j)' => HasSuccess(j)
    BY <1>1, ClosedRows DEF HasSuccess
  <2>3. jobs' = jobs /\ eventStatus' = eventStatus
    BY <1>1 DEF CloseAbandoned
  <2>4. QED
    BY <2>1, <2>2, <2>3, ShownQuiet DEF MovingSteps, SuccessInHand
<1>2. CASE ReleaseRefused(w) \/ ReadClaimed(w) \/ StartRefused(w) \/ Send(w)
  <2>1. /\ pc[w] \notin MovingSteps /\ pc'[w] # "transition"
        /\ UNCHANGED <<jobs, eventStatus, attempts>>
    BY <1>2 DEF ReleaseRefused, ReadClaimed, StartRefused, Send, dbVars, TypeOK, MovingSteps
  <2>2. QED
    BY <2>1, ShownQuiet DEF HasSuccess, SuccessInHand
<1>3. CASE StartAttempt(w)
  <2>1. pc[w] = "start" /\ pc'[w] = "send" /\ UNCHANGED eventStatus
    BY <1>3 DEF StartAttempt, TypeOK
  <2>2. (HasSuccess(j)' => HasSuccess(j)) /\ jobs' = jobs
    BY <1>3, RowStep DEF HasSuccess
  <2>3. QED
    BY <2>1, <2>2, ShownQuiet DEF MovingSteps, SuccessInHand
<1>4. CASE CompleteAttempt(w)
  <2>1. /\ pc[w] = "complete" /\ pc'[w] = "transition"
        /\ UNCHANGED <<jobs, eventStatus, held, result>>
    BY <1>4 DEF CompleteAttempt, TypeOK
  <2>2. held[w].eventId = j
    BY <2>1 DEF Acted
  <2>3. jobs[j].status = "DELIVERING"
    BY <1>4, <2>2, RowStep
  <2>4. ~HasSuccess(j)
    BY <2>1, <2>3, NoSuccessElsewhere
  <2>5. HasSuccess(j)' => result[w] = "SUCCESS"
    BY <1>4, <2>2, <2>4, RowStep DEF HasSuccess
  <2>6. QED
    BY <2>1, <2>2, <2>3, <2>5 DEF Shown, BeforeClaim, ActedOn, SuccessInHand
\* The first UPDATE: the worker goes on to the projection.
<1>5. CASE ReleaseStaleJob(w)
  <2>1. /\ pc[w] = "release" /\ pc'[w] = "projectRelease"
        /\ UNCHANGED <<held, attempts>>
    BY <1>5 DEF ReleaseStaleJob, TypeOK
  <2>2. held[w].eventId = j
    BY <2>1 DEF Acted
  <2>3. ~HasSuccess(j)
    BY <1>5, <2>1, <2>2, NoSuccessElsewhere, RecoveredBudget
  <2>4. jobs'[j].status # "DELIVERING"
    BY <1>5, <2>2, ReleaseRow, WriteStatusRow DEF Entity, DeliveryStatus
  <2>5. QED
    BY <2>1, <2>2, <2>3, <2>4 DEF Shown, ActedOn, HasSuccess, Projecting, SuccessInHand
<1>6. CASE TransitionJob(w)
  <2>1. /\ pc[w] = "transition" /\ pc'[w] = "project"
        /\ UNCHANGED <<held, attempts>>
    BY <1>6 DEF TransitionJob, TypeOK
  <2>2. held[w].eventId = j
    BY <2>1 DEF Acted
  <2>3. jobs'[j].status = Outcome(w) /\ Outcome(w) # "DELIVERING"
    BY <1>6, <2>2, TransitionRow, WriteStatusRow DEF Entity, DeliveryStatus
  <2>4. HasSuccess(j) => Outcome(w) = "DELIVERED"
    BY <2>1, <2>2 DEF SuccessInHand, Outcome, Verdict
  <2>5. QED
    BY <2>1, <2>2, <2>3, <2>4 DEF Shown, BeforeClaim, ActedOn, HasSuccess, Projecting, SuccessInHand
<1>7. CASE Claim(w)
  <2>1. pc[w] = "loop" /\ pc'[w] = "read" /\ attempts' = attempts
    BY <1>7 DEF Claim, TypeOK
  <2>2. /\ jobs[j].status # "DELIVERED"
        /\ jobs'[j].status = "DELIVERING"
    BY <1>7, <2>1, ClaimRow DEF Acted, Claimable, CLAIMABLE_STATUSES
  <2>3. ~HasSuccess(j)
    BY <2>1, <2>2, NoSuccessElsewhere
  <2>4. eventStatus'[j] = jobs[j].status
    <3>1. \A v \in Workers : ~Projecting(v, j)
      <4>1. \A v \in Workers : v # w /\ pc[v] \in Holding => held[v].eventId # j
        BY OthersApart
      <4>2. QED
        BY <2>1, <4>1 DEF Projecting, Holding, Executing
    <3>2. QED
      BY <1>7, <2>1, <3>1, ClaimRow DEF Claim, Acted, Claimable, CLAIMABLE_STATUSES, Shown
  <2>5. eventStatus'[j] = BeforeClaim(j)'
    <3>1. /\ jobs[j].status \in {"PENDING", "RETRYING"}
          /\ jobs'[j].attemptCount = jobs[j].attemptCount + 1
          /\ jobs[j].attemptCount \in Nat
      BY <1>7, <2>1, ClaimRow DEF Acted, Claimable, CLAIMABLE_STATUSES, TypeOK, JobRow
    <3>2. QED
      BY <2>4, <3>1 DEF OwnerInv, BeforeClaim
  <2>6. QED
    BY <2>1, <2>2, <2>3, <2>5 DEF Shown, ActedOn, HasSuccess, SuccessInHand
\* The second UPDATE: the event gets the job's status.
<1>8. CASE ProjectRelease(w) \/ ProjectStatus(w)
  <2>1. /\ pc[w] \in {"project", "projectRelease"} /\ pc'[w] # "transition"
        /\ UNCHANGED <<jobs, attempts>>
    BY <1>8 DEF ProjectRelease, ProjectStatus, TypeOK
  <2>2. held[w].eventId = j
    BY <2>1 DEF Acted
  <2>3. eventStatus'[j] = jobs[j].status /\ jobs[j].status # "DELIVERING"
    <3>1. CASE ProjectRelease(w)
      BY <2>2, <3>1 DEF ProjectRelease, OwnerInv, JobInHand, Recovered, TypeOK
    <3>2. CASE ProjectStatus(w)
      <4>1. Outcome(w) \in {"DELIVERED", "FAILED", "RETRYING"}
        BY <3>2, VerdictType
           DEF ProjectStatus, Outcome, TypeOK, Settled, Holding, Executing, InFlight, Entity
      <4>2. QED
        BY <2>2, <3>2, <4>1 DEF ProjectStatus, OwnerInv, JobInHand, TypeOK
    <3>3. QED
      BY <1>8, <3>1, <3>2
  <2>4. \A v \in Workers : pc[v] = "transition" /\ held[v].eventId = j
          => (pc[v] = "transition" /\ held[v].eventId = j)'
    BY <2>1, ActsOnOne
  <2>5. QED
    BY <2>1, <2>3, <2>4 DEF Shown, BeforeClaim, ActedOn, HasSuccess, SuccessInHand
<1>9. QED
  BY <1>1, <1>2, <1>3, <1>4, <1>5, <1>6, <1>7, <1>8 DEF Acts, Execute

\* What is counted as a fault is one, and no other step of a worker is.
LEMMA FaultsCounted ==
    ASSUME TypeOK, NEW w \in Workers, Acts(w), faults' = 0
    PROVE  ~Fault(w) /\ faults = 0
BY DEF Acts, Fault, JobThrows, TickThrows, Crash, TypeOK, Execute, CloseAbandoned,
       ReleaseStaleJob, ReleaseRefused, ProjectRelease, Claim, ReadClaimed, StartAttempt,
       StartRefused, Send, CompleteAttempt, TransitionJob, ProjectStatus

\* A step of a worker that does not fail is about a job.
LEMMA ActedJob ==
    ASSUME TypeOK, NEW w \in Workers, Acts(w), ~Fault(w)
    PROVE  Acted(w) \in Jobs
BY DEF Acts, Acted, TypeOK, Execute, CloseAbandoned, ReleaseStaleJob, ReleaseRefused,
       ProjectRelease, Claim, ReadClaimed, StartAttempt, StartRefused, Send,
       CompleteAttempt, TransitionJob, ProjectStatus, Holding, Executing, InFlight, Entity,
       NoEntity

\* As long as hands are apart and nothing fails, job, event and log stay in step.
LEMMA InStepStep ==
    ASSUME TypeOK, NoJobStranded, NumbersClaimed, HandsApart, HandsApart', OwnerInv,
           AttemptLogInv, InStepInv, [Next]_vars \/ Rests
    PROVE  InStepInv'
<1>1. CASE Rests
  <2>1. ASSUME faults = 0, NEW j \in Jobs PROVE Shown(j)' /\ ActedOn(j)'
    <3>1. \A v \in Workers : /\ Projecting(v, j) => Projecting(v, j)'
                             /\ pc[v] = "transition" => pc'[v] = "transition"
      BY <1>1 DEF Rests, Resting, Projecting
    <3>2. Shown(j) /\ ActedOn(j)
      BY <2>1, InStepParts
    <3>3. QED
      BY <1>1, <3>1, <3>2 DEF Rests, Shown, BeforeClaim, ActedOn, HasSuccess
  <2>2. ASSUME faults = 0, NEW v \in Workers PROVE SuccessInHand(v)'
    BY <1>1, <2>2, InStepParts DEF Rests, Resting, SuccessInHand, HasSuccess
  <2>3. faults' = 0 => faults = 0
    BY <1>1 DEF Rests
  <2>4. QED
    BY <2>1, <2>2, <2>3 DEF InStepInv, ProjectionInStepUnlessFault, ProjectionInStep,
       SuccessIsDelivered, HasSuccess, Shown, BeforeClaim, ActedOn
<1>2. ASSUME NEW w \in Workers, Acts(w), faults' = 0
      PROVE  /\ \A j \in Jobs : Shown(j)' /\ ActedOn(j)'
             /\ \A v \in Workers : SuccessInHand(v)'
  <2>1. ~Fault(w) /\ faults = 0
    BY <1>2, FaultsCounted
  <2>2. /\ \A j \in Jobs : Shown(j) /\ ActedOn(j)
        /\ \A v \in Workers : SuccessInHand(v)
    BY <2>1, InStepParts
  <2>3. Acted(w) \in Jobs
    BY <1>2, <2>1, ActedJob
  <2>4. /\ \A j \in Jobs : j = Acted(w) => Shown(j)' /\ ActedOn(j)'
        /\ SuccessInHand(w)'
    BY <1>2, <2>1, <2>2, <2>3, OwnShownStep
  <2>5. ASSUME NEW j \in Jobs, j # Acted(w) PROVE Shown(j)' /\ ActedOn(j)'
    BY <1>2, <2>2, <2>5, ShownElsewhere
  <2>6. ASSUME NEW v \in Workers, v # w PROVE SuccessInHand(v)'
    BY <1>2, <2>2, <2>6, OthersUntouched
       DEF SuccessInHand, HasSuccess, Holding, Executing, InFlight
  <2>7. QED
    BY <2>4, <2>5, <2>6
<1>3. ASSUME NEW w \in Workers, Acts(w) PROVE InStepInv'
  BY <1>2, <1>3 DEF InStepInv, ProjectionInStepUnlessFault, ProjectionInStep,
     SuccessIsDelivered, HasSuccess, Shown, BeforeClaim, ActedOn
<1>4. QED
  BY <1>1, <1>3, StepKinds

\* Every event starts PENDING like its job, with no attempt.
LEMMA InStepInit == Init => InStepInv
BY DEF Init, InStepInv, ProjectionInStepUnlessFault, ProjectionInStep,
       SuccessIsDelivered, SuccessInHand

----------------------------------------------------------------------------
(* Workers whose hands are apart: what is said of a delivery that is over  *)

\* Who owns the job writes it while it is DELIVERING, or to claim it.
LEMMA OverIsOver ==
    ASSUME TypeOK, OwnerInv, [Next]_vars, NEW j \in Jobs, jobs'[j] # jobs[j]
    PROVE  jobs[j].status \notin TERMINAL_STATUSES
<1> USE DEF TERMINAL_STATUSES, CLAIMABLE_STATUSES
<1>1. ASSUME NEW w \in Workers, ReleaseStaleJob(w) PROVE jobs[j].status = "DELIVERING"
  BY <1>1, ReleaseRow, WriteStatusRow
     DEF ReleaseStaleJob, StillStale, Entity, DeliveryStatus
<1>2. ASSUME NEW w \in Workers, TransitionJob(w) PROVE jobs[j].status = "DELIVERING"
  BY <1>2, TransitionRow, OutcomeBudget, WriteStatusRow DEF Entity, DeliveryStatus
<1>3. ASSUME NEW w \in Workers, Claim(w) PROVE jobs[j].status \in CLAIMABLE_STATUSES
  BY <1>3, ClaimRow DEF Claimable
<1>4. QED
  BY <1>1, <1>2, <1>3, JobsWriters

\* The statements that write events.status.
LEMMA ProjectionWriters ==
    ASSUME [Next]_vars
    PROVE  \/ eventStatus' = eventStatus
           \/ \E w \in Workers : ProjectRelease(w) \/ ProjectStatus(w)
BY DEF Next, Work, Recover, Drain, Execute, Fault, Time, vars, dbVars,
       FindStaleJobs, CloseAbandoned, ReleaseStaleJob, ReleaseRefused, FindDueJobIds, Claim,
       ClaimRefused, ReadClaimed, EndTick, StartAttempt, StartRefused, Send,
       CompleteAttempt, TransitionJob, JobThrows, TickThrows, Crash, Restart,
       BackoffElapses, LeaseExpires

\* The second UPDATE shows what the first one wrote.
LEMMA EndStep ==
    ASSUME TypeOK, OwnerInv, EndIsFinal, [Next]_vars
    PROVE  EndIsFinal'
<1>1. ASSUME NEW w \in Workers, ProjectRelease(w) \/ ProjectStatus(w) PROVE EndIsFinal'
  <2>1. /\ eventStatus' = [eventStatus EXCEPT
                             ![held[w].eventId] = jobs[held[w].eventId].status]
        /\ jobs' = jobs
    BY <1>1 DEF ProjectRelease, ProjectStatus, OwnerInv, JobInHand
  <2>2. QED
    BY <2>1 DEF EndIsFinal, TypeOK
<1>2. CASE eventStatus' = eventStatus
  BY <1>2, OverIsOver DEF EndIsFinal
<1>3. QED
  BY <1>1, <1>2, ProjectionWriters

\* A job is moved to DELIVERED when its attempt is recorded as accepted.
LEMMA AcceptedStep ==
    ASSUME TypeOK, OwnerInv, AttemptLogInv, ReasonInv, [Next]_vars
    PROVE  EndIsAccepted'
<1> SUFFICES ASSUME NEW j \in Jobs, jobs'[j].status = "DELIVERED"
             PROVE  /\ jobs'[j].attemptCount \in DOMAIN attempts'[j]
                    /\ attempts'[j][jobs'[j].attemptCount] = "SUCCESS"
  BY DEF EndIsAccepted
<1>1. CASE jobs'[j] = jobs[j]
  BY <1>1, HistoryStep DEF ReasonInv, EndIsAccepted
<1>2. CASE jobs'[j] # jobs[j]
  <2>1. ASSUME NEW w \in Workers, ReleaseStaleJob(w) PROVE FALSE
    BY <1>2, <2>1, ReleaseRow, WriteStatusRow DEF Entity, DeliveryStatus
  <2>2. ASSUME NEW w \in Workers, Claim(w) PROVE FALSE
    BY <1>2, <2>2, ClaimRow
  <2>3. PICK w \in Workers : TransitionJob(w)
    BY <1>2, <2>1, <2>2, JobsWriters
  <2>4. /\ held[w].eventId = j
        /\ Outcome(w) = "DELIVERED"
        /\ jobs'[j].attemptCount = jobs[j].attemptCount
    BY <1>2, <2>3, TransitionRow, WriteStatusRow DEF Entity, DeliveryStatus
  <2>5. result[w] = "SUCCESS"
    BY <2>3, <2>4, TransitionRow DEF Outcome, Verdict, Classification
  <2>6. jobs[j].attemptCount = held[w].attemptCount
    BY <2>3, <2>4, OutcomeBudget
  <2>7. QED
    BY <2>3, <2>4, <2>5, <2>6 DEF TransitionJob, ReasonInv, ResultInRow
<1>3. QED
  BY <1>1, <1>2

\* The row is written before the job, and by the same worker.
LEMMA ResultStep ==
    ASSUME TypeOK, HandsApart, HandsApart', OwnerInv, \A v \in Workers : ResultInRow(v),
           NEW w \in Workers, Acts(w), NEW v \in Workers
    PROVE  ResultInRow(v)'
<1>1. CASE v # w
  BY <1>1, OthersUntouched DEF ResultInRow, Holding, Executing, InFlight
<1>2. CASE CompleteAttempt(w) /\ v = w
  <2>1. UNCHANGED result
    BY <1>2 DEF CompleteAttempt
  <2> DEFINE j == held[w].eventId
             n == held[w].attemptCount
  <2>2. /\ held' = held
        /\ n \in DOMAIN attempts'[j]
        /\ attempts'[j][n] = IF result[w] = "SUCCESS" THEN "SUCCESS" ELSE "FAILED"
    <3>1. /\ held' = held
          /\ DOMAIN attempts'[j] = DOMAIN attempts[j] \cup {n}
          /\ attempts'[j][n] = IF result[w] = "SUCCESS" THEN "SUCCESS" ELSE "FAILED"
      BY <1>2, RowStep
    <3>2. QED
      BY <3>1
  <2>3. QED
    BY <1>2, <2>1, <2>2 DEF ResultInRow
<1>3. CASE ~CompleteAttempt(w) /\ v = w
  <2>1. pc'[w] # "transition"
    BY <1>3 DEF Acts, Execute, Fault, TypeOK, Goto,
         CloseAbandoned, ReleaseStaleJob, ReleaseRefused, ProjectRelease,
         Claim, ReadClaimed, StartAttempt, StartRefused,
         Send, TransitionJob, ProjectStatus, JobThrows, TickThrows, Crash
  <2>2. QED
    BY <1>3, <2>1 DEF ResultInRow
<1>4. QED
  BY <1>1, <1>2, <1>3

\* As long as hands are apart, what is over is over for the reason recorded.
LEMMA ReasonInvStep ==
    ASSUME TypeOK, HandsApart, HandsApart', OwnerInv, AttemptLogInv, ReasonInv,
           [Next]_vars \/ Rests
    PROVE  ReasonInv'
<1>1. CASE Rests
  BY <1>1 DEF Rests, Resting, ReasonInv, EndIsFinal, EndIsAccepted, ResultInRow
<1>2. ASSUME NEW w \in Workers, Acts(w) PROVE ReasonInv'
  <2>1. [Next]_vars
    BY <1>2, ActsAreSteps
  <2>2. \A v \in Workers : ResultInRow(v)'
    BY <1>2, ResultStep DEF ReasonInv
  <2>3. QED
    BY <2>1, <2>2, EndStep, AcceptedStep DEF ReasonInv
<1>3. QED
  BY <1>1, <1>2, StepKinds

\* Nothing is over yet.
LEMMA ReasonInit == Init => ReasonInv
BY DEF Init, ReasonInv, EndIsFinal, EndIsAccepted, ResultInRow, TERMINAL_STATUSES

----------------------------------------------------------------------------
(* Workers whose hands are apart: what is said of the next attempt         *)

\* Somebody has job j in hand, before the row of its attempt, or at all.
IsInHand(j) == \E w \in Workers : InHand(w, j)

IsUnstarted(j) == \E w \in Workers : Unstarted(w, j)

\* What NextInv says of job j.
Counted(j) ==
    /\ jobs[j].status = "DELIVERING" => IsInHand(j)
    /\ DOMAIN attempts[j] = 1 .. IF IsUnstarted(j) THEN jobs[j].attemptCount - 1
                                                  ELSE jobs[j].attemptCount
    /\ jobs[j].status = "RETRYING" => /\ jobs[j].attemptCount \in DOMAIN attempts[j]
                                      /\ attempts[j][jobs[j].attemptCount] = "FAILED"

\* ... and what it says of worker w.
NoneStale(w) == /\ pc[w] = "release" => jobs[held[w].eventId].status # "DELIVERING"
                /\ pc[w] # "projectRelease"

\* The invariant, job by job and worker by worker.
LEMMA NextParts ==
    NextInv <=> (faults = 0 => /\ \A j \in Jobs : Counted(j)
                               /\ \A w \in Workers : NoneStale(w))
BY DEF NextInv, NothingStale, RowsCounted, Counted, NoneStale, IsInHand, IsUnstarted

\* Worker w is the only one that may have the job it acts on in hand.
LEMMA OnlyHand ==
    ASSUME TypeOK, HandsApart, HandsApart', NEW w \in Workers, Acts(w),
           NEW j \in Jobs, j = Acted(w)
    PROVE  /\ IsInHand(j) <=> InHand(w, j)
           /\ IsUnstarted(j) <=> Unstarted(w, j)
           /\ IsInHand(j)' <=> InHand(w, j)'
           /\ IsUnstarted(j)' <=> Unstarted(w, j)'
<1>1. \A v \in Workers : v # w => ~InHand(v, j) /\ ~Unstarted(v, j)
  BY OthersApart DEF InHand, Unstarted, Holding, Executing, InFlight
<1>2. \A v \in Workers : v # w => ~InHand(v, j)' /\ ~Unstarted(v, j)'
  BY <1>1, ActsOnOne DEF InHand, Unstarted
<1>3. QED
  BY <1>1, <1>2 DEF IsInHand, IsUnstarted

\* A job that worker w does not act on stays counted.
LEMMA CountedElsewhere ==
    ASSUME TypeOK, HandsApart, HandsApart', NEW w \in Workers, Acts(w),
           NEW j \in Jobs, j # Acted(w), Counted(j)
    PROVE  Counted(j)'
<1>1. /\ jobs'[j] = jobs[j] /\ attempts'[j] = attempts[j]
      /\ \A v \in Workers : v # w => pc'[v] = pc[v] /\ held'[v] = held[v]
  BY ActsOnOne
<1>2. ~InHand(w, j) /\ ~Unstarted(w, j)
  BY DEF InHand, Unstarted, Acted, InFlight
<1>3. ~InHand(w, j)' /\ ~Unstarted(w, j)'
  <2>1. pc'[w] \in {"read", "start"} \cup InFlight => held'[w].eventId = Acted(w)
    BY DEF Acts, Acted, Execute, Fault, TypeOK, Goto, Drop, InFlight, Read,
         CloseAbandoned, ReleaseStaleJob, ReleaseRefused, ProjectRelease,
         Claim, ReadClaimed, StartAttempt, StartRefused, Send, CompleteAttempt,
         TransitionJob, ProjectStatus, JobThrows, TickThrows, Crash
  <2>2. QED
    BY <2>1 DEF InHand, Unstarted
<1>4. (IsInHand(j)' <=> IsInHand(j)) /\ (IsUnstarted(j)' <=> IsUnstarted(j))
  BY <1>1, <1>2, <1>3 DEF IsInHand, IsUnstarted, InHand, Unstarted
<1>5. QED
  BY <1>1, <1>4 DEF Counted

\* While nothing fails, a worker finds nothing to recover and its INSERT is not
\* refused.
LEMMA NothingRecovered ==
    ASSUME TypeOK, HandsApart, HandsApart', OwnerInv, NEW w \in Workers, Acts(w),
           NEW j \in Jobs, j = Acted(w), NoneStale(w), Counted(j)
    PROVE  /\ ~ReleaseStaleJob(w) /\ ~ProjectRelease(w) /\ ~StartRefused(w)
           /\ pc[w] = "start" => DOMAIN attempts[j] = 1 .. jobs[j].attemptCount - 1
           /\ pc[w] \in InFlight => DOMAIN attempts[j] = 1 .. jobs[j].attemptCount
<1>1. ~ReleaseStaleJob(w) /\ ~ProjectRelease(w)
  BY DEF NoneStale, ReleaseStaleJob, StillStale, ProjectRelease
<1>2. pc[w] = "start" => DOMAIN attempts[j] = 1 .. jobs[j].attemptCount - 1
  BY OnlyHand DEF Counted, Unstarted, Acted
<1>3. pc[w] \in InFlight => DOMAIN attempts[j] = 1 .. jobs[j].attemptCount
  BY OnlyHand DEF Counted, Unstarted, InFlight
<1>4. pc[w] = "start" => held[w].eventId = j /\ jobs[j].attemptCount = held[w].attemptCount
                           /\ jobs[j].attemptCount \in Nat
  BY DEF OwnerInv, JobInHand, Acted, TypeOK, JobRow
<1>5. ~StartRefused(w)
  BY <1>2, <1>4 DEF StartRefused
<1>6. QED
  BY <1>1, <1>2, <1>3, <1>5

\* A worker that does not fail keeps its job counted.
LEMMA OwnCountedStep ==
    ASSUME TypeOK, NumbersClaimed, HandsApart, HandsApart', OwnerInv, AttemptLogInv,
           ReasonInv, NEW w \in Workers, Acts(w), ~Fault(w), NoneStale(w),
           NEW j \in Jobs, j = Acted(w), Counted(j)
    PROVE  Counted(j)' /\ NoneStale(w)'
<1> USE DEF Goto
<1>1. CASE CloseAbandoned(w)
  <2>1. pc[w] = "sweep" /\ pc'[w] = "release" /\ held'[w].eventId = j
    BY <1>1, ClosedRows DEF CloseAbandoned, TypeOK
  <2>2. jobs[j].status # "DELIVERING" /\ ~IsUnstarted(j) /\ ~IsUnstarted(j)'
    BY <2>1, OnlyHand DEF Counted, InHand, Unstarted, InFlight
  <2>3. /\ jobs' = jobs
        /\ DOMAIN attempts'[j] = DOMAIN attempts[j]
        /\ \A n \in DOMAIN attempts[j] : attempts'[j][n] = attempts[j][n]
    BY <1>1, <2>1, <2>2, ClosedRows DEF AttemptLogInv, OpenAttemptIsCurrent
  <2>4. QED
    BY <2>1, <2>2, <2>3 DEF Counted, NoneStale
<1>2. CASE ReleaseRefused(w) \/ ProjectStatus(w)
  <2>1. /\ UNCHANGED <<jobs, attempts>>
        /\ pc[w] \in {"release", "project"} /\ pc'[w] \in {"sweep", "loop"}
    BY <1>2 DEF ReleaseRefused, ProjectStatus, dbVars, TypeOK
  <2>2. ~IsInHand(j) /\ ~IsUnstarted(j) /\ ~IsUnstarted(j)'
    BY <2>1, OnlyHand DEF InHand, Unstarted, InFlight
  <2>3. QED
    BY <2>1, <2>2 DEF Counted, NoneStale
<1>3. CASE Claim(w)
  <2>1. /\ pc[w] = "loop" /\ pc'[w] = "read" /\ held'[w].eventId = j
        /\ attempts' = attempts
    BY <1>3 DEF Claim, Acted, TypeOK
  <2>2. /\ jobs'[j].status = "DELIVERING"
        /\ jobs'[j].attemptCount = jobs[j].attemptCount + 1
    BY <1>3, <2>1, ClaimRow
  <2>3. IsInHand(j)' /\ IsUnstarted(j)' /\ ~IsUnstarted(j)
    BY <2>1, OnlyHand DEF InHand, Unstarted
  <2>4. jobs[j].attemptCount \in Nat
    BY DEF TypeOK, JobRow
  <2>5. QED
    BY <2>1, <2>2, <2>3, <2>4 DEF Counted, NoneStale
<1>4. CASE ReadClaimed(w) \/ Send(w)
  <2>1. /\ UNCHANGED <<jobs, attempts>>
        /\ held'[w].eventId = j /\ held[w].eventId = j
        /\ \/ pc[w] = "read" /\ pc'[w] = "start"
           \/ pc[w] = "send" /\ pc'[w] = "complete"
    BY <1>4 DEF ReadClaimed, Send, Read, dbVars, TypeOK, Acted
  <2>2. IsInHand(j)' /\ (IsUnstarted(j)' <=> IsUnstarted(j))
    BY <2>1, OnlyHand DEF InHand, Unstarted, InFlight
  <2>3. QED
    BY <2>1, <2>2 DEF Counted, NoneStale
<1>5. CASE StartAttempt(w)
  <2> DEFINE n == held[w].attemptCount
  <2>1. pc[w] = "start" /\ pc'[w] = "send" /\ held'[w].eventId = j
    BY <1>5, RowStep DEF StartAttempt, TypeOK
  <2>2. IsInHand(j)' /\ ~IsUnstarted(j)'
    BY <2>1, OnlyHand DEF InHand, Unstarted, InFlight
  <2>3. /\ n \in Nat /\ jobs' = jobs
        /\ jobs[j].status = "DELIVERING" /\ jobs[j].attemptCount = n
        /\ DOMAIN attempts'[j] = DOMAIN attempts[j] \cup {n}
    BY <1>5, RowStep
  <2>4. DOMAIN attempts[j] = 1 .. n - 1
    BY <2>1, <2>3, NothingRecovered
  <2>5. n # 0
    BY <2>1 DEF NumbersClaimed, Executing
  <2>6. (1 .. n - 1) \cup {n} = 1 .. n
    BY <2>3, <2>5
  <2>7. QED
    BY <2>1, <2>2, <2>3, <2>4, <2>6 DEF Counted, NoneStale
<1>6. CASE CompleteAttempt(w)
  <2> DEFINE n == held[w].attemptCount
  <2>1. pc[w] = "complete" /\ pc'[w] = "transition" /\ held'[w].eventId = j
    BY <1>6, RowStep DEF CompleteAttempt, TypeOK
  <2>2. IsInHand(j)' /\ ~IsUnstarted(j)' /\ ~IsUnstarted(j)
    BY <2>1, OnlyHand DEF InHand, Unstarted, InFlight
  <2>3. /\ jobs' = jobs /\ jobs[j].status = "DELIVERING"
        /\ DOMAIN attempts'[j] = DOMAIN attempts[j] \cup {n}
        /\ n \in DOMAIN attempts[j]
    BY <1>6, <2>1, RowStep DEF AttemptLogInv, LogInHand
  <2>4. DOMAIN attempts'[j] = DOMAIN attempts[j]
    BY <2>3
  <2>5. QED
    BY <2>1, <2>2, <2>3, <2>4 DEF Counted, NoneStale
<1>7. CASE TransitionJob(w)
  <2> DEFINE n == held[w].attemptCount
  <2>1. /\ pc[w] = "transition" /\ pc'[w] = "project" /\ held[w].eventId = j
        /\ attempts' = attempts
    BY <1>7 DEF TransitionJob, TypeOK, Acted
  <2>2. /\ jobs'[j].status = Outcome(w)
        /\ Outcome(w) \in {"DELIVERED", "FAILED", "RETRYING"}
        /\ jobs'[j].attemptCount = jobs[j].attemptCount
        /\ jobs[j].attemptCount = n
    BY <1>7, <2>1, TransitionRow, WriteStatusRow, OutcomeBudget DEF Entity, DeliveryStatus
  <2>3. Outcome(w) = "RETRYING" => result[w] # "SUCCESS"
    BY DEF Outcome, Verdict
  <2>4. Outcome(w) = "RETRYING" => n \in DOMAIN attempts[j] /\ attempts[j][n] = "FAILED"
    BY <2>1, <2>3 DEF ReasonInv, ResultInRow
  <2>5. ~IsUnstarted(j) /\ ~IsUnstarted(j)'
    BY <2>1, OnlyHand DEF Unstarted
  <2>6. QED
    BY <2>1, <2>2, <2>4, <2>5 DEF Counted, NoneStale
<1>8. QED
  BY <1>1, <1>2, <1>3, <1>4, <1>5, <1>6, <1>7, NothingRecovered DEF Acts, Execute

\* A worker that is refused a release is so until it has dropped the job.
LEMMA OthersStale ==
    ASSUME TypeOK, HandsApart, HandsApart', NEW w \in Workers, Acts(w),
           NEW v \in Workers, v # w, NoneStale(v)
    PROVE  NoneStale(v)'
BY OthersUntouched DEF NoneStale, Holding

\* As long as hands are apart and nothing fails, there is a row for each attempt.
LEMMA NextStep ==
    ASSUME TypeOK, NumbersClaimed, HandsApart, HandsApart', OwnerInv, AttemptLogInv,
           ReasonInv, NextInv, [Next]_vars \/ Rests
    PROVE  NextInv'
<1>1. CASE Rests
  <2>1. ASSUME NEW j \in Jobs, Counted(j) PROVE Counted(j)'
    <3>1. \A v \in Workers : /\ InHand(v, j)' <=> InHand(v, j)
                             /\ Unstarted(v, j)' <=> Unstarted(v, j)
      BY <1>1 DEF Rests, Resting, InHand, Unstarted, InFlight
    <3>2. (IsInHand(j)' <=> IsInHand(j)) /\ (IsUnstarted(j)' <=> IsUnstarted(j))
      BY <3>1 DEF IsInHand, IsUnstarted
    <3>3. QED
      BY <1>1, <2>1, <3>2 DEF Rests, Counted
  <2>2. ASSUME NEW v \in Workers, NoneStale(v) PROVE NoneStale(v)'
    BY <1>1, <2>2 DEF Rests, Resting, NoneStale
  <2>3. QED
    BY <1>1, <2>1, <2>2, NextParts DEF Rests, NextInv, NothingStale, RowsCounted, Counted,
       NoneStale, IsInHand, IsUnstarted
<1>2. ASSUME NEW w \in Workers, Acts(w), faults' = 0
      PROVE  (\A j \in Jobs : Counted(j)') /\ \A v \in Workers : NoneStale(v)'
  <2>1. ~Fault(w) /\ faults = 0
    BY <1>2, FaultsCounted
  <2>2. (\A j \in Jobs : Counted(j)) /\ \A v \in Workers : NoneStale(v)
    BY <2>1, NextParts
  <2>3. Acted(w) \in Jobs
    BY <1>2, <2>1, ActedJob
  <2>4. (\A j \in Jobs : j = Acted(w) => Counted(j)') /\ NoneStale(w)'
    BY <1>2, <2>1, <2>2, <2>3, OwnCountedStep
  <2>5. \A j \in Jobs : j # Acted(w) => Counted(j)'
    BY <1>2, <2>2, CountedElsewhere
  <2>6. \A v \in Workers : v # w => NoneStale(v)'
    BY <1>2, <2>2, OthersStale
  <2>7. QED
    BY <2>4, <2>5, <2>6
<1>3. ASSUME NEW w \in Workers, Acts(w) PROVE NextInv'
  BY <1>2, <1>3 DEF NextInv, NothingStale, RowsCounted, Counted, NoneStale, IsInHand, IsUnstarted
<1>4. QED
  BY <1>1, <1>3, StepKinds

\* Nothing is claimed yet.
LEMMA NextInit == Init => NextInv
<1> SUFFICES ASSUME Init PROVE NothingStale /\ RowsCounted
  BY DEF NextInv
<1>1. NothingStale
  BY DEF Init, NothingStale
<1>2. \A j \in Jobs : DOMAIN attempts[j] = {} /\ ~\E w \in Workers : Unstarted(w, j)
  BY DEF Init, Unstarted
<1>3. \A j \in Jobs : jobs[j].attemptCount = 0 /\ jobs[j].status = "PENDING"
  BY DEF Init
<1>4. 1 .. 0 = {}
  OBVIOUS
<1>5. RowsCounted
  BY <1>2, <1>3, <1>4 DEF RowsCounted
<1>6. QED
  BY <1>1, <1>5

----------------------------------------------------------------------------
(* Workers whose hands are apart: what the receiver had answered           *)

\* What a job ended with, and what it is retried after, stays its last answer.
LEMMA AnswerKept ==
    ASSUME TypeOK, AnsweredOnce, AnswerInv, [Next]_vars, NEW j \in Jobs, jobs'[j] = jobs[j]
    PROVE  /\ jobs'[j].status = "DELIVERED" => LastAnswer(j, {"SUCCESS"})'
           /\ jobs'[j].status = "FAILED" /\ ~isExhausted(jobs'[j].attemptCount)
                => LastAnswer(j, {"PERMANENT"})'
           /\ faults = 0 =>
                /\ \A n \in 1 .. jobs'[j].attemptCount - 1 :
                     n \in DOMAIN answers'[j] /\ answers'[j][n] = "RETRYABLE"
                /\ jobs'[j].status = "RETRYING" => LastAnswer(j, {"RETRYABLE"})'
                /\ jobs'[j].status = "FAILED" => LastAnswer(j, {"RETRYABLE", "PERMANENT"})'
<1>1. \A n \in DOMAIN answers[j] : n \in DOMAIN answers'[j] /\ answers'[j][n] = answers[j][n]
  BY AnswersGrow
<1>2. \A classes : LastAnswer(j, classes) => LastAnswer(j, classes)'
  BY <1>1 DEF LastAnswer
<1>3. QED
  BY <1>1, <1>2 DEF AnswerInv, EndIsAnswered, EachWasRetryable

\* A worker moves its job by the answer to the attempt the job is at.
LEMMA AnswerMoves ==
    ASSUME TypeOK, ResultAnswered, OwnerInv, NEW w \in Workers, TransitionJob(w)
    PROVE  LET j == held[w].eventId
               row == jobs'[j]
           IN  /\ j \in Jobs /\ answers' = answers
               /\ \A i \in Jobs \ {j} : jobs'[i] = jobs[i]
               /\ row.attemptCount = jobs[j].attemptCount
               /\ row.status = Verdict(result[w], row.attemptCount)
               /\ jobs[j].attemptCount \in DOMAIN answers[j]
               /\ answers[j][jobs[j].attemptCount] = result[w]
               /\ result[w] \in Classification
<1>1. /\ held[w] \in Entity /\ held[w].eventId \in Jobs
      /\ result[w] \in Classification /\ Outcome(w) \in DeliveryStatus
      /\ WriteStatus(held[w].eventId, Outcome(w))
  BY TransitionRow DEF Entity, DeliveryStatus
<1>2. held[w].attemptCount = jobs[held[w].eventId].attemptCount
  BY OutcomeBudget
<1>3. /\ jobs'[held[w].eventId].status = Outcome(w)
      /\ jobs'[held[w].eventId].attemptCount = jobs[held[w].eventId].attemptCount
      /\ \A i \in Jobs \ {held[w].eventId} : jobs'[i] = jobs[i]
  BY <1>1, WriteStatusRow
<1>4. /\ answers' = answers
      /\ jobs[held[w].eventId].attemptCount \in DOMAIN answers[held[w].eventId]
      /\ answers[held[w].eventId][jobs[held[w].eventId].attemptCount] = result[w]
  BY <1>2 DEF TransitionJob, ResultAnswered, Settled
<1>5. QED
  BY <1>1, <1>2, <1>3, <1>4 DEF Outcome

\* As long as hands are apart, a job ends with the answer to its last attempt or
\* with its budget spent; while nothing fails, every attempt but the last was
\* answered with an error that may be retried.
LEMMA AnswerStep ==
    ASSUME TypeOK, NumbersClaimed, AnsweredOnce, ResultAnswered, OwnerInv, NextInv,
           AnswerInv, [Next]_vars \/ Rests
    PROVE  AnswerInv'
<1> DEFINE Ended(j) ==
             /\ jobs[j].status = "DELIVERED" => LastAnswer(j, {"SUCCESS"})
             /\ jobs[j].status = "FAILED" /\ ~isExhausted(jobs[j].attemptCount)
                  => LastAnswer(j, {"PERMANENT"})
           Retried(j) ==
             /\ \A n \in 1 .. jobs[j].attemptCount - 1 :
                  n \in DOMAIN answers[j] /\ answers[j][n] = "RETRYABLE"
             /\ jobs[j].status = "RETRYING" => LastAnswer(j, {"RETRYABLE"})
             /\ jobs[j].status = "FAILED" => LastAnswer(j, {"RETRYABLE", "PERMANENT"})
<1>1. CASE Rests
  BY <1>1 DEF Rests, AnswerInv, EndIsAnswered, EachWasRetryable, LastAnswer
<1>2. ASSUME [Next]_vars, NEW j \in Jobs, jobs'[j] = jobs[j]
      PROVE  Ended(j)' /\ (faults = 0 => Retried(j)')
  BY <1>2, AnswerKept
<1>3. ASSUME NEW w \in Workers, Claim(w), NEW j \in Jobs
      PROVE  Ended(j)' /\ (faults = 0 => Retried(j)')
  <2>1. [Next]_vars
    BY <1>3 DEF Next, Work, Drain
  <2>2. PICK i \in Jobs : /\ Claimable(i)
                          /\ jobs'[i].status = "DELIVERING"
                          /\ jobs'[i].attemptCount = jobs[i].attemptCount + 1
                          /\ \A k \in Jobs \ {i} : jobs'[k] = jobs[k]
    BY <1>3, ClaimRow
  <2>3. CASE i # j
    BY <1>2, <2>1, <2>2, <2>3
  <2>4. CASE i = j
    <3>1. answers' = answers /\ jobs[j].attemptCount \in Nat
      BY <1>3 DEF Claim, TypeOK, JobRow
    <3>2. jobs[j].attemptCount # 0 => jobs[j].status = "RETRYING"
      BY <2>2, <2>4 DEF Claimable, CLAIMABLE_STATUSES, OwnerInv
    <3>3. ASSUME faults = 0, NEW n \in 1 .. jobs[j].attemptCount
          PROVE  n \in DOMAIN answers[j] /\ answers[j][n] = "RETRYABLE"
      BY <3>1, <3>2, <3>3 DEF AnswerInv, EachWasRetryable, LastAnswer
    <3>4. jobs'[j].attemptCount - 1 = jobs[j].attemptCount
      BY <2>2, <2>4, <3>1
    <3>5. QED
      BY <2>2, <2>4, <3>1, <3>3, <3>4
  <2>5. QED
    BY <2>3, <2>4
<1>4. ASSUME NEW w \in Workers, ReleaseStaleJob(w), NEW j \in Jobs
      PROVE  Ended(j)' /\ (faults = 0 => Retried(j)')
  <2>1. [Next]_vars
    BY <1>4 DEF Next, Work, Recover
  <2>2. faults # 0
    BY <1>4 DEF ReleaseStaleJob, StillStale, NextInv, NothingStale
  <2>3. /\ held[w] \in Entity /\ held[w].eventId \in Jobs
        /\ Recovered(held[w]) \in DeliveryStatus
        /\ WriteStatus(held[w].eventId, Recovered(held[w]))
    BY <1>4, ReleaseRow DEF Entity, DeliveryStatus
  <2>4. CASE held[w].eventId # j
    BY <1>2, <2>1, <2>3, <2>4, WriteStatusRow
  <2>5. CASE held[w].eventId = j
    <3>1. jobs'[j].status = Recovered(held[w]) /\ jobs'[j].attemptCount = jobs[j].attemptCount
      BY <2>3, <2>5, WriteStatusRow
    <3>2. held[w].attemptCount \in 1 .. jobs[j].attemptCount
      BY <1>4, <2>5 DEF ReleaseStaleJob, NumbersClaimed, ReadStale
    <3>3. isExhausted(held[w].attemptCount) => isExhausted(jobs'[j].attemptCount)
      BY <3>1, <3>2, BudgetAssumption DEF isExhausted, TypeOK, JobRow
    <3>4. QED
      BY <2>2, <3>1, <3>3 DEF Recovered
  <2>6. QED
    BY <2>4, <2>5
<1>5. ASSUME NEW w \in Workers, TransitionJob(w), NEW j \in Jobs
      PROVE  Ended(j)' /\ (faults = 0 => Retried(j)')
  <2>1. [Next]_vars
    BY <1>5 DEF Next, Work, Execute
  <2>2. CASE held[w].eventId # j
    BY <1>2, <1>5, <2>1, <2>2, AnswerMoves
  <2>3. CASE held[w].eventId = j
    <3>1. /\ answers' = answers /\ jobs'[j].attemptCount = jobs[j].attemptCount
          /\ jobs'[j].status = Verdict(result[w], jobs'[j].attemptCount)
          /\ jobs[j].attemptCount \in DOMAIN answers[j]
          /\ answers[j][jobs[j].attemptCount] = result[w]
          /\ result[w] \in Classification
      BY <1>5, <2>3, AnswerMoves
    <3>2. Ended(j)'
      BY <3>1 DEF Verdict, Classification, LastAnswer
    <3>3. faults = 0 => \A n \in 1 .. jobs'[j].attemptCount - 1 :
                          n \in DOMAIN answers'[j] /\ answers'[j][n] = "RETRYABLE"
      BY <3>1 DEF AnswerInv, EachWasRetryable
    <3>4. /\ jobs'[j].status = "RETRYING" => result[w] = "RETRYABLE"
          /\ jobs'[j].status = "FAILED" => result[w] \in {"RETRYABLE", "PERMANENT"}
      BY <3>1 DEF Verdict, Classification
    <3>5. QED
      BY <3>1, <3>2, <3>3, <3>4 DEF LastAnswer
  <2>4. QED
    BY <2>2, <2>3
<1>6. ASSUME [Next]_vars PROVE \A j \in Jobs : Ended(j)' /\ (faults = 0 => Retried(j)')
  BY <1>2, <1>3, <1>4, <1>5, <1>6, JobsWriters
<1>7. ASSUME [Next]_vars, faults' = 0 PROVE faults = 0
  BY <1>7, FaultsCounted, StepKinds DEF Rests
<1>8. QED
  BY <1>1, <1>6, <1>7 DEF AnswerInv, EndIsAnswered, EachWasRetryable

\* Nothing is over and nothing was retried.
LEMMA AnswerInit == Init => AnswerInv
BY DEF Init, AnswerInv, EndIsAnswered, EachWasRetryable

----------------------------------------------------------------------------
(* Workers whose hands are apart: the theorems                             *)

\* Nobody has begun.
LEMMA ApartInit == Init => ApartInv
BY OwnerInit, LogInit, InStepInit, ReasonInit, NextInit, AnswerInit DEF ApartInv

\* Every step that leaves hands apart, and every step that touches nothing.
LEMMA ApartInvStep ==
    ASSUME TypeOK, NoJobStranded, NumbersClaimed, AnsweredOnce, ResultAnswered,
           HandsApart, HandsApart', ApartInv, [Next]_vars \/ Rests
    PROVE  ApartInv'
<1> USE DEF ApartInv
<1>1. OwnerInv'
  BY OwnerStep
<1>2. AttemptLogInv'
  BY LogStep
<1>3. InStepInv'
  BY InStepStep
<1>4. ReasonInv'
  BY ReasonInvStep
<1>5. NextInv'
  BY NextStep
<1>6. AnswerInv'
  BY AnswerStep
<1>7. QED
  BY <1>1, <1>2, <1>3, <1>4, <1>5, <1>6

\* The last node of the chain says why the event is over.
LEMMA EndNode ==
    ASSUME NEW event, NEW end \in buildNodes(event), end.node = "End"
    PROVE  /\ event.summary.status \in TERMINAL_STATUSES
           /\ end.number = event.summary.attemptCount
           /\ end.shows = terminalReason(event)
<1> DEFINE title == "Retry scheduled"
           shown == IF event.summary.nextAttemptAt THEN "countdown" ELSE "no time"
<1>1. title # "End" /\ "Attempt" # "End"
  BY Zenon
<1>2. \A n : RetryNodes(event, n) =
               {[node |-> title, number |-> n, shows |-> shown],
                [node |-> "Attempt", number |-> n + 1, shows |-> "PENDING"]}
  BY Zenon DEF RetryNodes
<1> HIDE DEF title, shown
<1>3. \A n : \A m \in RetryNodes(event, n) : m.node # "End"
  BY <1>1, <1>2
<1>4. \A n : attemptNode(event, n).node # "End"
  BY DEF attemptNode
<1>5. \A m \in firstNodes(event) : m.node # "End"
  BY DEF firstNodes
<1>6. end \in endNodes(event)
  BY <1>3, <1>4, <1>5 DEF buildNodes
<1>7. QED
  BY <1>6 DEF endNodes

\* The sentence of an event says the same of its end as the chain.
LEMMA Explained ==
    ASSUME NEW event, event.summary.status \in TERMINAL_STATUSES
    PROVE  explain(event) = terminalReason(event)
BY DEF explain, terminalReason, TERMINAL_STATUSES

\* A sentence about a retry is shown of an event that is RETRYING.
LEMMA ExplainedRetry ==
    ASSUME NEW event, event.summary.status \in DeliveryStatus,
           explain(event) = "retry scheduled"
    PROVE  event.summary.status = "RETRYING"
BY DEF explain, DeliveryStatus

\* Page and feed say the same of a delivery that is over, and the truth.
LEMMA TrueReason ==
    ASSUME TypeOK, OwnerInv, ReasonInv, AnswerInv
    PROVE  ReasonIsTrue
<1>1. ASSUME NEW j \in Jobs, NEW end \in buildNodes(findOne(j)), end.node = "End"
      PROVE  /\ describe(toSummary(j)) = [shows |-> end.shows, number |-> end.number]
             /\ explain(findOne(j)) = end.shows
             /\ end.shows = "accepted" => /\ end.number \in DOMAIN attempts[j]
                                          /\ attempts[j][end.number] = "SUCCESS"
                                          /\ AnswerWas(j, end.number, "SUCCESS")
             /\ end.shows = "permanent failure" => AnswerWas(j, end.number, "PERMANENT")
             /\ end.shows = "retry limit reached" =>
                  /\ end.number = MaxAttempts
                  /\ faults = 0 => BudgetSpentOnRetries(j)
  <2>1. /\ eventStatus[j] \in {"DELIVERED", "FAILED"}
        /\ jobs[j].status = eventStatus[j]
        /\ end.number = jobs[j].attemptCount
        /\ end.shows = terminalReason(findOne(j))
        /\ explain(findOne(j)) = end.shows
    BY <1>1, EndNode, Explained DEF ReasonInv, EndIsFinal, TERMINAL_STATUSES, findOne, toSummary
  <2>2. describe(toSummary(j)) = [shows |-> end.shows, number |-> end.number]
    BY <2>1 DEF describe, terminalReason, findOne, toSummary
  <2>3. end.shows = "accepted" => jobs[j].status = "DELIVERED"
    BY <2>1 DEF terminalReason, findOne, toSummary
  <2>4. end.shows = "permanent failure" => /\ jobs[j].status = "FAILED"
                                           /\ ~isExhausted(jobs[j].attemptCount)
    BY <2>1 DEF terminalReason, findOne, toSummary, isExhausted
  <2>5. end.shows = "retry limit reached" => /\ jobs[j].status = "FAILED"
                                             /\ jobs[j].attemptCount = MaxAttempts
    <3>1. end.shows = "retry limit reached" => /\ jobs[j].status = "FAILED"
                                               /\ jobs[j].attemptCount >= MaxAttempts
      BY <2>1 DEF terminalReason, findOne, toSummary
    <3>2. jobs[j].attemptCount >= MaxAttempts => jobs[j].attemptCount = MaxAttempts
      <4>1. jobs[j].attemptCount \in Nat /\ jobs[j].attemptCount <= MaxAttempts
        BY DEF OwnerInv, AttemptsWithinBudget, TypeOK, JobRow
      <4>2. QED
        BY <4>1, BudgetAssumption
    <3>3. QED
      BY <3>1, <3>2, Zenon
  <2>6. ASSUME jobs[j].status = "FAILED", jobs[j].attemptCount = MaxAttempts, faults = 0
        PROVE  BudgetSpentOnRetries(j)
    <3>1. \A n \in 1 .. MaxAttempts - 1 : n \in DOMAIN answers[j] /\ answers[j][n] = "RETRYABLE"
      BY <2>6 DEF AnswerInv, EachWasRetryable
    <3>2. /\ MaxAttempts \in DOMAIN answers[j]
          /\ answers[j][MaxAttempts] \in {"RETRYABLE", "PERMANENT"}
      BY <2>6 DEF AnswerInv, EachWasRetryable, LastAnswer
    <3>3. \A n \in 1 .. MaxAttempts : n \in 1 .. MaxAttempts - 1 \/ n = MaxAttempts
      BY BudgetAssumption
    <3>4. QED
      BY <3>1, <3>2, <3>3 DEF BudgetSpentOnRetries
  <2>7. QED
    BY <2>1, <2>2, <2>3, <2>4, <2>5, <2>6
       DEF ReasonInv, EndIsAccepted, AnswerInv, EndIsAnswered, LastAnswer, AnswerWas
<1>2. ASSUME faults = 0, NEW j \in Jobs, jobs[j].status = "RETRYING"
      PROVE  AnswerWas(j, jobs[j].attemptCount, "RETRYABLE")
  BY <1>2 DEF AnswerInv, EachWasRetryable, LastAnswer, AnswerWas
<1>3. QED
  BY <1>1, <1>2 DEF ReasonIsTrue

\* An event that waits shows its next attempt, and a retry the time it is due.
LEMMA NextShown ==
    ASSUME TypeOK, OwnerInv, AttemptLogInv, NextInv
    PROVE  NextAttemptIsShownUnlessFault
<1> SUFFICES ASSUME NEW j \in Jobs, faults = 0 \/ Recorded(j),
                    eventStatus[j] \in CLAIMABLE_STATUSES, jobs[j].status = eventStatus[j]
             PROVE  LET nodes == buildNodes(findOne(j))
                        used  == jobs[j].attemptCount
                    IN  /\ [node |-> "Attempt", number |-> used + 1,
                            shows |-> "PENDING"] \in nodes
                        /\ eventStatus[j] = "RETRYING" =>
                             [node |-> "Retry scheduled", number |-> used,
                              shows |-> "countdown"] \in nodes
  BY DEF NextAttemptIsShownUnlessFault, NextAttemptIsShown
<1> DEFINE used  == jobs[j].attemptCount
           event == findOne(j)
<1>1. /\ event.attempts = attempts[j]
      /\ event.summary.status = eventStatus[j]
      /\ event.summary.nextAttemptAt = TRUE
  BY DEF findOne, toSummary
<1>2. CASE eventStatus[j] = "PENDING"
  <2>1. used = 0
    BY <1>2 DEF OwnerInv
  <2>2. [node |-> "Attempt", number |-> used + 1, shows |-> "PENDING"] \in firstNodes(event)
    BY <1>1, <1>2, <2>1 DEF firstNodes
  <2>3. firstNodes(event) \subseteq buildNodes(event)
    BY DEF buildNodes
  <2>4. QED
    BY <1>2, <2>2, <2>3
<1>3. CASE eventStatus[j] = "RETRYING"
  <2>1. \A w \in Workers : ~Unstarted(w, j)
    BY <1>3 DEF Unstarted, OwnerInv, JobInHand
  <2>2. /\ DOMAIN attempts[j] = 1 .. used
        /\ used \in DOMAIN attempts[j]
        /\ attempts[j][used] = "FAILED"
    <3>1. CASE faults = 0
      BY <1>3, <2>1, <3>1 DEF NextInv, RowsCounted
    <3>2. CASE Recorded(j)
      <4>1. used \in Nat \ {0}
        BY <1>3 DEF OwnerInv, TypeOK, JobRow
      <4>2. DOMAIN attempts[j] = 1 .. used /\ attempts[j][used] # "SUCCESS"
        BY <3>2, <4>1 DEF Recorded
      <4>3. used \in DOMAIN attempts[j]
        BY <4>1, <4>2
      <4>4. attempts[j][used] \in AttemptStatus /\ attempts[j][used] # "IN_PROGRESS"
        BY <1>3, <4>3 DEF AttemptLogInv, OpenAttemptIsCurrent, TypeOK
      <4>5. QED
        BY <4>2, <4>3, <4>4 DEF AttemptStatus
    <3>3. QED
      BY <3>1, <3>2
  <2>3. Cardinality(1 .. used) = used
    <3>1. used \in Nat /\ 1 <= used
      BY <2>2 DEF TypeOK, JobRow
    <3>2. QED
      BY <3>1, FS_Interval
  <2>4. used \in retried(event)
    BY <1>1, <1>3, <2>2, <2>3 DEF retried, isLast
  <2>5. RetryNodes(event, used) \subseteq buildNodes(event)
    BY <2>4 DEF buildNodes
  <2>6. RetryNodes(event, used) =
          {[node |-> "Retry scheduled", number |-> used, shows |-> "countdown"],
           [node |-> "Attempt", number |-> used + 1, shows |-> "PENDING"]}
    BY <1>1, Zenon DEF RetryNodes
  <2>7. QED
    BY <2>5, <2>6, Zenon
<1>4. QED
  BY <1>2, <1>3 DEF CLAIMABLE_STATUSES

\* What the inductive invariants say of the properties the runs check.
LEMMA ApartPromises ==
    ASSUME TypeOK, ApartInv
    PROVE  /\ ExecutorOwnsJob
           /\ AttemptsWithinBudget
           /\ OpenAttemptIsCurrent
           /\ ProjectionInStepUnlessFault
           /\ SuccessIsDelivered
           /\ ReasonIsTrue
           /\ NextAttemptIsShownUnlessFault
<1> USE DEF ApartInv
<1>1. ExecutorOwnsJob /\ AttemptsWithinBudget
  BY DEF OwnerInv, JobInHand, ExecutorOwnsJob
<1>2. OpenAttemptIsCurrent /\ ProjectionInStepUnlessFault /\ SuccessIsDelivered
  BY DEF AttemptLogInv, InStepInv
<1>3. QED
  BY <1>1, <1>2, TrueReason, NextShown

\* The invariants are those of every run in which no two workers ever have the
\* same job in hand.
THEOREM ApartInvAlways == Spec /\ []HandsApart => []ApartInv
<1>1. TypeOK /\ NoJobStranded /\ NumbersClaimed /\ AnsweredOnce /\ ResultAnswered
        /\ HandsApart /\ HandsApart' /\ ApartInv /\ [Next]_vars => ApartInv'
  BY ApartInvStep
<1>2. QED
  BY <1>1, ApartInit, TypeCorrect, NoJobStrandedAlways, NumbersClaimedAlways, AnswersAlways,
     PTL DEF Spec

\* With any number of workers, crashes and errors: in a run in which no two
\* workers ever have the same job in hand, an executor owns its job, the budget
\* is kept, no attempt row is left open, job and projection agree, a stored
\* SUCCESS is a DELIVERED job, and page and feed say of what is over and of what
\* is next what ReasonIsTrue and NextAttemptIsShownUnlessFault state.
THEOREM ApartAlways ==
    Spec /\ []HandsApart => []( /\ ExecutorOwnsJob
                                /\ AttemptsWithinBudget
                                /\ OpenAttemptIsCurrent
                                /\ ProjectionInStepUnlessFault
                                /\ SuccessIsDelivered
                                /\ ReasonIsTrue
                                /\ NextAttemptIsShownUnlessFault)
<1> DEFINE Promised == /\ ExecutorOwnsJob
                       /\ AttemptsWithinBudget
                       /\ OpenAttemptIsCurrent
                       /\ ProjectionInStepUnlessFault
                       /\ SuccessIsDelivered
                       /\ ReasonIsTrue
                       /\ NextAttemptIsShownUnlessFault
<1>1. TypeOK /\ ApartInv => Promised
  BY ApartPromises
<1>2. Spec /\ []HandsApart => []Promised
  BY <1>1, ApartInvAlways, TypeCorrect, PTL
<1>3. QED
  BY <1>2

\* In such a run every job follows the state machine of delivery-status.enum.ts
\* within the budget: no terminal status is left, no transition but the allowed
\* ones is made.
THEOREM ApartFollowsLifecycle == Spec /\ []HandsApart => FollowsLifecycle
<1>1. TypeOK /\ NoJobStranded /\ NumbersClaimed /\ ApartInv /\ [Next]_vars
        => [Lifecycle!Next]_Lifecycle!vars
  BY LifecycleStep DEF ApartInv
<1>2. QED
  BY <1>1, ApartInvAlways, LifecycleInit, TypeCorrect, NoJobStrandedAlways,
     NumbersClaimedAlways, PTL DEF Spec, FollowsLifecycle, Lifecycle!Spec

\* In such a run nothing rewrites a completed attempt row.
THEOREM ApartHistoryImmutable == Spec /\ []HandsApart => AttemptHistoryImmutable
<1> DEFINE Kept == \A j \in Jobs : \A n \in DOMAIN attempts[j] :
                     attempts[j][n] # "IN_PROGRESS" => /\ n \in DOMAIN attempts'[j]
                                                       /\ attempts'[j][n] = attempts[j][n]
<1>1. TypeOK /\ ApartInv /\ [Next]_vars => [Kept]_vars
  BY HistoryStep DEF ApartInv
<1>2. QED
  BY <1>1, ApartInvAlways, TypeCorrect, PTL DEF Spec, AttemptHistoryImmutable

----------------------------------------------------------------------------
(* One worker process                                                      *)

\* A single worker has nobody to share a job with.
LEMMA OneWorkerApart == OneWorker => (Spec => []HandsApart)
<1> SUFFICES ASSUME OneWorker PROVE Spec => []HandsApart
  OBVIOUS
<1>1. HandsApart
  BY DEF OneWorker, HandsApart
<1>2. QED
  BY <1>1, PTL

\* With one worker process, the job is DELIVERING at the reported attempt from
\* the start of the attempt until its outcome is written.
THEOREM OneWorkerOwnsJob == OneWorker => (Spec => []ExecutorOwnsJob)
<1> SUFFICES ASSUME OneWorker PROVE Spec => []ExecutorOwnsJob
  OBVIOUS
<1>1. Spec => []HandsApart
  BY OneWorkerApart
<1>2. QED
  BY <1>1, ApartAlways, PTL

\* With one worker process, MAX_ATTEMPTS is never exceeded.
THEOREM OneWorkerWithinBudget == OneWorker => (Spec => []AttemptsWithinBudget)
<1> SUFFICES ASSUME OneWorker PROVE Spec => []AttemptsWithinBudget
  OBVIOUS
<1>1. Spec => []HandsApart
  BY OneWorkerApart
<1>2. QED
  BY <1>1, ApartAlways, PTL

\* One worker process, whatever crashes and errors it meets, follows the state
\* machine of delivery-status.enum.ts within the budget: no terminal status is
\* left, no transition but the allowed ones is made.
THEOREM OneWorkerFollowsLifecycle == OneWorker => (Spec => FollowsLifecycle)
BY OneWorkerApart, ApartFollowsLifecycle

\* With one worker process, the attempt rows of the job in hand are closed before
\* recovery releases it, and open from the start of the attempt to its completion.
THEOREM AttemptLogAlways == OneWorker => (Spec => []AttemptLogInv)
<1> SUFFICES ASSUME OneWorker PROVE Spec => []AttemptLogInv
  OBVIOUS
<1>1. Spec => []HandsApart
  BY OneWorkerApart
<1>2. ApartInv => AttemptLogInv
  BY DEF ApartInv
<1>3. QED
  BY <1>1, <1>2, ApartInvAlways, PTL

\* With one worker process, an attempt row is open only while its job is
\* DELIVERING at that attempt: recovery reaches every row a crash left open.
THEOREM OpenAttemptIsCurrentAlways == OneWorker => (Spec => []OpenAttemptIsCurrent)
<1> SUFFICES ASSUME OneWorker PROVE Spec => []OpenAttemptIsCurrent
  OBVIOUS
<1>1. Spec => []HandsApart
  BY OneWorkerApart
<1>2. QED
  BY <1>1, ApartAlways, PTL

\* With one worker process, whatever crashes and errors it meets, nothing
\* rewrites a completed attempt row.
THEOREM HistoryImmutableAlways == OneWorker => (Spec => AttemptHistoryImmutable)
BY OneWorkerApart, ApartHistoryImmutable

\* With one worker process, events.status differs from the status of a job that
\* nobody delivers only between the two UPDATEs, and is what the job was before
\* its claim while it is delivered, as long as nothing has failed.
THEOREM ProjectionInStepAlways == OneWorker => (Spec => []ProjectionInStepUnlessFault)
<1> SUFFICES ASSUME OneWorker PROVE Spec => []ProjectionInStepUnlessFault
  OBVIOUS
<1>1. Spec => []HandsApart
  BY OneWorkerApart
<1>2. QED
  BY <1>1, ApartAlways, PTL

\* With one worker process, a SUCCESS in the attempt log is a DELIVERED job, up
\* to the step between the two writes and as long as nothing has failed.
THEOREM SuccessIsDeliveredAlways == OneWorker => (Spec => []SuccessIsDelivered)
<1> SUFFICES ASSUME OneWorker PROVE Spec => []SuccessIsDelivered
  OBVIOUS
<1>1. Spec => []HandsApart
  BY OneWorkerApart
<1>2. QED
  BY <1>1, ApartAlways, PTL

\* With one worker process, whatever failed on the way, page and feed say the same
\* of a delivery that is over; "accepted" and "permanent failure" are what the
\* receiver answered to the last attempt.  "Retry limit reached" is shown of a
\* spent budget, and as long as nothing has failed all attempts were answered with
\* retryable errors, but for the last, which may have been refused for good.
THEOREM ReasonIsTrueAlways == OneWorker => (Spec => []ReasonIsTrue)
<1> SUFFICES ASSUME OneWorker PROVE Spec => []ReasonIsTrue
  OBVIOUS
<1>1. Spec => []HandsApart
  BY OneWorkerApart
<1>2. QED
  BY <1>1, ApartAlways, PTL

\* With one worker process, an event that waits shows its next attempt, and a
\* retry the time it is due, as long as nothing has failed, and after a failure
\* if its attempts are all recorded and the last one is not a stored SUCCESS.
THEOREM NextAttemptIsShownAlways == OneWorker => (Spec => []NextAttemptIsShownUnlessFault)
<1> SUFFICES ASSUME OneWorker PROVE Spec => []NextAttemptIsShownUnlessFault
  OBVIOUS
<1>1. Spec => []HandsApart
  BY OneWorkerApart
<1>2. QED
  BY <1>1, ApartAlways, PTL
=============================================================================
