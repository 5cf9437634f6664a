------------------------- MODULE RetryPolicyProofs -------------------------
(***************************************************************************)
(* The retry policy, proved for every budget, every list of delays and     *)
(* every set of statuses.                                                  *)
(***************************************************************************)
EXTENDS RetryPolicy, SequenceTheorems, TLAPS

\* What Init fixes: a fractional budget is of more than one attempt.
ConfigurationOK == fractional \in BOOLEAN /\ (fractional => MaxAttempts > 1)

\* The loop pads the delays to one per wait: the listed one while there is one,
\* then the last of them.
LEMMA PaddedDelays ==
    ASSUME NEW delays \in Seq(Int)
    PROVE  /\ padded(delays) \in Seq(Int)
           /\ Len(padded(delays)) >= required
           /\ \A i \in 1 .. required : padded(delays)[i] = Backoff(delays, i)
<1> USE BudgetAssumption DEF required
<1> DEFINE more == required - Len(delays)
           pad  == [i \in 1 .. more |-> last(delays)]
<1>1. last(delays) \in Int
  BY DEF last
<1>2. \A i \in 1 .. required :
        Backoff(delays, i) = IF i <= Len(delays) THEN delays[i] ELSE last(delays)
  BY DEF Backoff, last
<1>3. CASE Len(delays) >= required
  BY <1>2, <1>3 DEF padded
<1>4. CASE Len(delays) < required
  <2>1. pad \in Seq(Int) /\ Len(pad) = more
    BY <1>1, <1>4
  <2>2. padded(delays) = delays \o pad
    BY <1>4 DEF padded
  <2>3. Len(delays \o pad) = required
    BY <2>1, <1>4
  <2>4. \A i \in 1 .. required :
          (delays \o pad)[i] = IF i <= Len(delays) THEN delays[i] ELSE last(delays)
    BY <2>1, <2>3, <1>4
  <2>5. delays \o pad \in Seq(Int)
    <3> HIDE DEF pad
    <3> QED BY <2>1, ConcatProperties
  <2> HIDE DEF pad
  <2> QED BY <1>2, <2>2, <2>3, <2>4, <2>5
<1> QED BY <1>3, <1>4

\* readRetryDelays keeps one delay per wait, or one less of a fractional budget.
LEMMA DelaysPerWait ==
    ASSUME ConfigurationOK, NEW delays \in Seq(Int)
    PROVE  /\ readRetryDelays(delays) \in Seq(Int)
           /\ Len(readRetryDelays(delays)) = kept
           /\ \A i \in 1 .. kept : readRetryDelays(delays)[i] = Backoff(delays, i)
<1>1. kept \in 0 .. required /\ required \in Nat
  BY BudgetAssumption DEF kept, required, ConfigurationOK
<1> QED BY <1>1, PaddedDelays DEF readRetryDelays

\* The delay that is due after attempt n.
Due(delays, n) ==
    CASE ~fractional \/ n < required         -> Backoff(delays, n)
      [] fractional /\ n = required /\ n > 1 -> Backoff(delays, n - 1)
      [] fractional /\ n = required /\ n = 1 -> 0

\* RetryPolicy, reading the list that readRetryDelays has prepared, waits for
\* what was configured after every attempt that another one follows.
THEOREM BackoffOfConfiguration ==
    ASSUME ConfigurationOK, NEW delays \in Seq(Int), NEW n \in 1 .. MaxAttempts - 1
    PROVE  delayAfterAttemptMs(readRetryDelays(delays), n) = Due(delays, n)
<1> DEFINE prepared == readRetryDelays(delays)
<1> USE BudgetAssumption
<1>1. /\ prepared \in Seq(Int) /\ Len(prepared) = kept
      /\ \A i \in 1 .. kept : prepared[i] = Backoff(delays, i)
  BY DelaysPerWait
<1> HIDE DEF prepared
<1>2. CASE ~fractional \/ n < required
  <2>1. n \in 1 .. kept
    BY <1>2 DEF kept, required, ConfigurationOK
  <2>2. delayAfterAttemptMs(prepared, n) = prepared[n]
    BY <1>1, <2>1 DEF delayAfterAttemptMs, kept, required
  <2> QED BY <1>1, <1>2, <2>1, <2>2 DEF Due, prepared
<1>3. CASE fractional /\ n = required /\ n > 1
  <2>1. kept = n - 1 /\ kept \in 1 .. kept
    BY <1>3 DEF kept, required
  <2>2. delayAfterAttemptMs(prepared, n) = prepared[kept]
    BY <1>1, <2>1 DEF delayAfterAttemptMs
  <2>3. Due(delays, n) = Backoff(delays, n - 1)
    BY <1>3 DEF Due
  <2> QED BY <1>1, <2>1, <2>2, <2>3 DEF prepared
<1>4. CASE fractional /\ n = required /\ n = 1
  <2>1. kept = 0
    BY <1>4 DEF kept
  <2>2. delayAfterAttemptMs(prepared, n) = 0
    BY <1>1, <2>1 DEF delayAfterAttemptMs
  <2>3. Due(delays, n) = 0
    BY <1>4 DEF Due
  <2> QED BY <2>2, <2>3 DEF prepared
<1> QED BY <1>2, <1>3, <1>4 DEF required, ConfigurationOK

----------------------------------------------------------------------------
\* What the histories say of the attempt and the budget.
Bookkeeping ==
    /\ attempt \in 0 .. MaxAttempts
    /\ status \in {"PENDING", "RETRYING"} \cup TERMINAL_STATUSES
    /\ status = "PENDING" => attempt = 0
    /\ status = "RETRYING" => 0 < attempt /\ attempt < MaxAttempts
    /\ status \in TERMINAL_STATUSES => attempt > 0

\* The inductive invariant.
PolicyInv == TypeOK /\ ConfigurationOK /\ Bookkeeping /\ EndsForAReason /\ BackoffAsConfigured

\* An answer is a decision exactly when the code does not retry it.
LEMMA DecisionIsFinal ==
    ASSUME NEW answer \in StatusCodes \cup {NoAnswer}
    PROVE  /\ classifyResult(answer) \in Classification
           /\ Decision(answer) <=> classifyResult(answer) # "RETRYABLE"
<1>1. CASE answer = NoAnswer
  BY <1>1, PolicyAssumption DEF classifyResult, Decision, Classification
<1>2. CASE answer # NoAnswer
  <2>1. answer \in 100 .. 599 /\ answer \in StatusCodes
    BY <1>2, PolicyAssumption
  <2> QED BY <1>2, <2>1 DEF classifyResult, classifyHttpStatus, Decision, Classification
<1> QED BY <1>1, <1>2

\* One attempt that ends in "verdict" keeps the invariant.
LEMMA SettleInv ==
    ASSUME PolicyInv,
           status \in CLAIMABLE_STATUSES,
           NEW answer \in StatusCodes \cup {NoAnswer},
           NEW verdict \in {"DELIVERED", "FAILED", "RETRYING"},
           attempt' = attempt + 1,
           answers' = Append(answers, answer),
           Settle(verdict, attempt + 1),
           UNCHANGED <<listed, fractional>>,
           Decision(answer) => verdict \in TERMINAL_STATUSES,
           verdict = "RETRYING" => attempt + 1 < MaxAttempts,
           verdict = "FAILED" => Decision(answer) \/ attempt + 1 = MaxAttempts
    PROVE  PolicyInv'
<1> USE BudgetAssumption, PolicyAssumption
        DEF TERMINAL_STATUSES, CLAIMABLE_STATUSES, DeliveryStatus
<1>1. /\ listed \in Seq(Delays) /\ attempt \in Nat /\ attempt < MaxAttempts
      /\ answers \in Seq(StatusCodes \cup {NoAnswer}) /\ Len(answers) = attempt
      /\ waits \in Seq(Delays \cup {0}) /\ Len(waits) = attempt
  BY DEF PolicyInv, TypeOK, Bookkeeping, EndsForAReason
<1>2. status' = verdict
  BY DEF Settle
<1>3. listed \in Seq(Int) /\ ConfigurationOK
  <2>1. listed \in Seq(Int)
    BY <1>1, SeqMonotonic
  <2> QED BY <2>1 DEF PolicyInv
<1> DEFINE delay == delayAfterAttemptMs(readRetryDelays(listed), attempt + 1)
<1>4. waits' = IF verdict = "RETRYING" THEN Append(waits, delay) ELSE waits
  BY DEF Settle
<1>5. verdict = "RETRYING" => delay = Due(listed, attempt + 1)
  BY <1>1, <1>3, BackoffOfConfiguration
<1> HIDE DEF delay
<1>6. verdict = "RETRYING" => Due(listed, attempt + 1) \in Delays \cup {0}
  <2>1. \A i \in Nat \ {0} : Backoff(listed, i) \in Delays \cup {0}
    BY <1>1 DEF Backoff
  <2>2. ASSUME attempt + 1 < MaxAttempts
        PROVE  Due(listed, attempt + 1) \in Delays \cup {0}
    <3>1. ~fractional \/ attempt + 1 < required \/ attempt + 1 = required
      BY <1>1, <2>2 DEF required
    <3>2. CASE ~fractional \/ attempt + 1 < required
      <4>1. Due(listed, attempt + 1) = Backoff(listed, attempt + 1)
        BY <1>1, <1>3, <3>2 DEF Due, required, ConfigurationOK
      <4>2. attempt + 1 \in Nat \ {0}
        BY <1>1
      <4> QED BY <2>1, <4>1, <4>2
    <3>3. CASE fractional /\ attempt + 1 = required /\ attempt + 1 > 1
      <4>1. Due(listed, attempt + 1) = Backoff(listed, (attempt + 1) - 1)
        BY <1>1, <3>3 DEF Due, required
      <4>2. (attempt + 1) - 1 \in Nat \ {0}
        BY <1>1, <3>3
      <4> QED BY <2>1, <4>1, <4>2
    <3>4. CASE fractional /\ attempt + 1 = required /\ attempt + 1 = 1
      BY <3>4 DEF Due
    <3> QED BY <1>1, <3>1, <3>2, <3>3, <3>4
  <2> QED BY <2>2
<1>7. waits' \in Seq(Delays \cup {0})
  BY <1>1, <1>4, <1>5, <1>6
<1>8. Len(waits') = IF verdict = "RETRYING" THEN attempt + 1 ELSE attempt
  BY <1>1, <1>4
<1>9. TypeOK' /\ ConfigurationOK'
  BY <1>1, <1>2, <1>3, <1>7 DEF TypeOK, PolicyInv, ConfigurationOK
<1>10. Bookkeeping'
  BY <1>1, <1>2 DEF Bookkeeping
<1>11. EndsForAReason'
  <2>1. Len(answers') = attempt + 1
    BY <1>1
  <2>2. answers'[attempt + 1] = answer
    BY <1>1
  <2>3. \A i \in DOMAIN answers : answers'[i] = answers[i] /\ ~Decision(answers[i])
    BY <1>1 DEF PolicyInv, EndsForAReason
  <2>4. \A i \in DOMAIN answers' : i = attempt + 1 \/ i \in DOMAIN answers
    BY <1>1, <2>1
  <2>5. status' = "RETRYING" => attemptsRemaining(attempt + 1) > 0
    BY <1>1, <1>2 DEF attemptsRemaining
  <2>6. attempt' = attempt + 1
    OBVIOUS
  <2>7. attemptsRemaining(attempt)' = attemptsRemaining(attempt + 1)
    BY <2>6 DEF attemptsRemaining
  <2>8. \A a \in StatusCodes \cup {NoAnswer} : Decision(a)' = Decision(a)
    BY DEF Decision
  <2> QED BY <1>1, <1>2, <1>8, <2>1, <2>2, <2>3, <2>4, <2>5, <2>7 DEF EndsForAReason
<1>12. BackoffAsConfigured'
  <2>1. \A i \in DOMAIN waits : waits[i] = Due(listed, i)
    BY DEF PolicyInv, BackoffAsConfigured, Due
  <2>2. \A i \in DOMAIN waits' : waits'[i] = Due(listed, i)
    BY <1>1, <1>4, <1>5, <2>1
  <2>3. \A i \in Nat : Due(listed, i)' = Due(listed, i)
    BY DEF Due, Backoff, required
  <2>4. DOMAIN waits' \subseteq Nat
    BY <1>7
  <2> QED BY <2>2, <2>3, <2>4 DEF BackoffAsConfigured, Due
<1> QED BY <1>9, <1>10, <1>11, <1>12 DEF PolicyInv

\* The initial states satisfy the invariant.
LEMMA PolicyInit == Init => PolicyInv
<1> SUFFICES ASSUME Init PROVE PolicyInv
  OBVIOUS
<1>1. TypeOK
  <2>1. listed \in Seq(Delays)
    <3>1. CASE listed \in FromList
      <4>1. PICK n \in 0 .. MaxListed : listed \in [1 .. n -> Delays \cap Nat]
        BY <3>1 DEF FromList
      <4>2. n \in Nat
        BY <4>1, PolicyAssumption
      <4>3. listed \in [1 .. n -> Delays]
        BY <4>1
      <4> QED BY <4>2, <4>3
    <3>2. CASE listed \in FromNames
      <4>1. listed \in [1 .. 2 -> Delays] /\ 2 \in Nat
        BY <3>2 DEF FromNames
      <4>2. \A n \in Nat : [1 .. n -> Delays] \subseteq Seq(Delays)
        OBVIOUS
      <4> QED BY <4>1, <4>2
    <3> QED BY <3>1, <3>2 DEF Init
  <2>2. <<>> \in Seq(StatusCodes \cup {NoAnswer}) /\ <<>> \in Seq(Delays \cup {0})
    OBVIOUS
  <2> QED BY <2>1, <2>2 DEF Init, TypeOK, DeliveryStatus
<1>2. Bookkeeping
  BY BudgetAssumption DEF Init, Bookkeeping, TERMINAL_STATUSES
<1>3. EndsForAReason /\ BackoffAsConfigured
  BY DEF Init, EndsForAReason, BackoffAsConfigured, TERMINAL_STATUSES
<1>4. ConfigurationOK
  BY DEF Init, ConfigurationOK
<1> QED BY <1>1, <1>2, <1>3, <1>4 DEF PolicyInv

\* Every step keeps it.
LEMMA PolicyNext == PolicyInv /\ [Next]_vars => PolicyInv'
<1> SUFFICES ASSUME PolicyInv, [Next]_vars
             PROVE  PolicyInv'
  OBVIOUS
<1> USE BudgetAssumption
<1>0. attempt \in 0 .. MaxAttempts
  BY DEF PolicyInv, Bookkeeping
<1>a. status \in CLAIMABLE_STATUSES => attempt < MaxAttempts
  BY DEF PolicyInv, Bookkeeping, CLAIMABLE_STATUSES
<1>1. ASSUME NEW answer \in StatusCodes \cup {NoAnswer}, Attempt(answer)
      PROVE  PolicyInv'
  <2> DEFINE verdict == Verdict(classifyResult(answer), attempt + 1)
  <2>1. /\ answers' = Append(answers, answer)
        /\ Settle(verdict, attempt + 1)
    BY <1>1 DEF Attempt
  <2>2. /\ status \in CLAIMABLE_STATUSES
        /\ attempt' = attempt + 1
        /\ UNCHANGED <<listed, fractional>>
    BY <1>1 DEF Attempt
  <2>3. /\ verdict \in {"DELIVERED", "FAILED", "RETRYING"}
        /\ Decision(answer) => verdict \in TERMINAL_STATUSES
        /\ verdict = "RETRYING" => attempt + 1 < MaxAttempts
        /\ verdict = "FAILED" => Decision(answer) \/ attempt + 1 = MaxAttempts
    BY <1>0, <1>a, <2>2, DecisionIsFinal
    DEF Verdict, isExhausted, Classification, TERMINAL_STATUSES
  <2> HIDE DEF verdict
  <2> QED BY <2>1, <2>2, <2>3, SettleInv
<1>2. CASE WorkerDies
  <2> DEFINE verdict == IF isExhausted(attempt + 1) THEN "FAILED" ELSE "RETRYING"
  <2>1. /\ status \in CLAIMABLE_STATUSES
        /\ attempt' = attempt + 1
        /\ answers' = Append(answers, NoAnswer)
        /\ Settle(verdict, attempt + 1)
        /\ UNCHANGED <<listed, fractional>>
    BY <1>2 DEF WorkerDies
  <2>2. ~Decision(NoAnswer)
    BY DecisionIsFinal DEF classifyResult
  <2>3. /\ verdict \in {"DELIVERED", "FAILED", "RETRYING"}
        /\ verdict = "RETRYING" => attempt + 1 < MaxAttempts
        /\ verdict = "FAILED" => attempt + 1 = MaxAttempts
    BY <1>0, <1>a, <2>1 DEF isExhausted
  <2> HIDE DEF verdict
  <2> QED BY <2>1, <2>2, <2>3, SettleInv
<1>3. CASE UNCHANGED vars
  <2>1. TypeOK' /\ ConfigurationOK' /\ Bookkeeping'
    BY <1>3 DEF vars, PolicyInv, TypeOK, ConfigurationOK, Bookkeeping
  <2>2. EndsForAReason'
    <3>1. attempt' = attempt /\ answers' = answers /\ status' = status /\ waits' = waits
      BY <1>3 DEF vars
    <3>2. attemptsRemaining(attempt)' = attemptsRemaining(attempt)
      BY <3>1 DEF attemptsRemaining
    <3> QED BY <3>1, <3>2 DEF PolicyInv, EndsForAReason
  <2>3. BackoffAsConfigured'
    BY <1>3 DEF vars, PolicyInv, BackoffAsConfigured, Backoff, required
  <2> QED BY <2>1, <2>2, <2>3 DEF PolicyInv
<1> QED BY <1>1, <1>2, <1>3 DEF Next

\* The invariant holds of every reachable state.
THEOREM PolicyInvariant == Spec => []PolicyInv
<1>1. Init => PolicyInv
  BY PolicyInit
<1>2. PolicyInv /\ [Next]_vars => PolicyInv'
  BY PolicyNext
<1> QED BY <1>1, <1>2, PTL DEF Spec

\* Every wait is the one configured for it.
THEOREM BackoffAsConfiguredAlways == Spec => []BackoffAsConfigured
<1>1. PolicyInv => BackoffAsConfigured
  BY DEF PolicyInv
<1> QED BY <1>1, PolicyInvariant, PTL

\* Nothing but the receiver's decision or the spent budget ends a delivery.
THEOREM EndsForAReasonAlways == Spec => []EndsForAReason
<1>1. PolicyInv => EndsForAReason
  BY DEF PolicyInv
<1> QED BY <1>1, PolicyInvariant, PTL

\* Every variable keeps its type, the history of the waits included.
THEOREM PolicyTypeCorrect == Spec => []TypeOK
<1>1. PolicyInv => TypeOK
  BY DEF PolicyInv
<1> QED BY <1>1, PolicyInvariant, PTL
=============================================================================
