-------------------------- MODULE IngestionProofs --------------------------
(***************************************************************************)
(* What POST /events guarantees, proved for any number of submissions,     *)
(* eventIds and failures, and any collation: the safety invariants, and    *)
(* that Ingestion implements IdempotentStore.                              *)
(***************************************************************************)
EXTENDS IngestionInvariants, TLAPS

\* The steps of the requests that leave the tables alone.
Quiet(r) == \/ Caller(r)
            \/ InsertEvent(r)
            \/ InsertCollides(r)
            \/ InsertJob(r)
            \/ AnswerFresh(r)
            \/ Lookup(r)
            \/ AnswerDuplicate(r)
            \/ Fails(r)

\* The initial states satisfy the inductive invariant.
LEMMA InitInv == Init => IngestionInv
<1> SUFFICES ASSUME Init PROVE IngestionInv
  OBVIOUS
<1>1. TypeOK
  BY IngestionAssumption DEF Init, TypeOK, InTransaction, InService
<1>2. TransactionRows /\ OneHolder /\ EventHasItsJob
  BY DEF Init, TransactionRows, OneHolder, EventHasItsJob
<1>3. OriginalIsFound /\ BranchKnows /\ AnswersAreTrue
  BY IngestionAssumption DEF Init, OriginalIsFound, BranchKnows, AnswersAreTrue
<1> QED BY <1>1, <1>2, <1>3 DEF IngestionInv

\* Every step keeps the inductive invariant.
LEMMA NextInv == IngestionInv /\ [Next]_vars => IngestionInv'
<1> SUFFICES ASSUME IngestionInv, [Next]_vars
             PROVE  IngestionInv'
  OBVIOUS
<1> USE IngestionAssumption DEF InTransaction, InService, Goto
<1>0. CASE UNCHANGED vars
  BY <1>0 DEF vars, IngestionInv, TypeOK, TransactionRows, OneHolder, EventHasItsJob,
      OriginalIsFound, BranchKnows, AnswersAreTrue, Holders, key
<1>1. ASSUME NEW r \in Requests, Commit(r)
      PROVE  IngestionInv'
  <2> DEFINE k == key(r)
  <2>1. /\ stored' = [stored EXCEPT ![k] = r]
        /\ jobs' = jobs \cup {k}
        /\ inserted' = [inserted EXCEPT ![r] = {}]
        /\ call' = [call EXCEPT ![r] = "publish"]
        /\ UNCHANGED <<eventId, lookups, found, answer, faults>>
        /\ call[r] = "commit"
        /\ inserted[r] = {"event", "job"}
    BY <1>1 DEF Commit, Written, IngestionInv, TransactionRows
  <2>2. k \in Keys /\ r # None /\ \A q \in Requests : call[q] # "new" => key(q) \in Keys
    BY <1>1, <2>1 DEF IngestionInv, TypeOK, key
  <2>3. /\ stored[k] = None
        /\ \A q \in Requests \ {r} : "event" \in inserted[q] => key(q) # k
    BY <2>1 DEF IngestionInv, OneHolder, Holders
  <2>4. \A q \in Requests : key(q)' = key(q)
    BY <2>1 DEF key
  <2>5. TypeOK'
    BY <2>1, <2>2 DEF IngestionInv, TypeOK
  <2>6. TransactionRows'
    BY <2>1 DEF IngestionInv, TypeOK, TransactionRows
  <2>7. OneHolder'
    <3> SUFFICES ASSUME NEW q \in Requests, inserted'[q] # {}
                 PROVE  /\ Holders(q)' = {}
                        /\ stored'[key(q)'] = None
                        /\ key(q)' \notin jobs'
      BY DEF OneHolder
    <3>1. q # r /\ inserted[q] # {}
      BY <2>1 DEF IngestionInv, TypeOK
    <3>2. "event" \in inserted[q] /\ call[q] # "new"
      BY <3>1 DEF IngestionInv, TransactionRows
    <3>3. key(q) # k /\ key(q) \in Keys
      BY <2>2, <2>3, <3>1, <3>2
    <3>4. Holders(q) = {} /\ stored[key(q)] = None /\ key(q) \notin jobs
      BY <3>1 DEF IngestionInv, OneHolder
    <3>5. Holders(q)' = {}
      BY <2>1, <2>4, <3>1, <3>4 DEF Holders, IngestionInv, TypeOK
    <3> QED BY <2>1, <2>2, <2>4, <3>3, <3>4, <3>5 DEF IngestionInv, TypeOK
  <2>8. EventHasItsJob'
    BY <2>1, <2>2 DEF IngestionInv, TypeOK, EventHasItsJob
  <2>9. OriginalIsFound' /\ BranchKnows' /\ AnswersAreTrue'
    <3>1. \A q \in Requests : call[q] # "new" /\ stored[key(q)] # None =>
                                /\ key(q) # k
                                /\ stored'[key(q)'] = stored[key(q)]
      BY <2>1, <2>2, <2>3, <2>4 DEF IngestionInv, TypeOK
    <3>2. \A q \in Requests \ {r} : call'[q] = call[q]
      BY <2>1 DEF IngestionInv, TypeOK
    <3>3. call'[r] = "publish" /\ stored'[key(r)'] = r
      BY <2>1, <2>2, <2>4 DEF IngestionInv, TypeOK
    <3>4. answer[r] = None
      BY <2>1 DEF IngestionInv, BranchKnows
    <3>5. OriginalIsFound'
      BY <2>1, <3>1, <3>2, <3>3 DEF IngestionInv, OriginalIsFound
    <3>6. BranchKnows'
      BY <2>1, <3>1, <3>2, <3>3, <3>4 DEF IngestionInv, BranchKnows
    <3>7. AnswersAreTrue'
      BY <2>1, <3>1, <3>2, <3>3, <3>4 DEF IngestionInv, AnswersAreTrue, BranchKnows
    <3> QED BY <3>5, <3>6, <3>7
  <2> QED BY <2>5, <2>6, <2>7, <2>8, <2>9 DEF IngestionInv
<1>2. ASSUME NEW r \in Requests, Quiet(r)
      PROVE  IngestionInv'
  <2>1. UNCHANGED <<stored, jobs>>
    BY <1>2 DEF Quiet, Caller, Submit, Resubmit, InsertEvent, InsertCollides, InsertJob,
                AnswerFresh, Lookup, AnswerDuplicate, Fails
  <2>2. /\ \A q \in Requests \ {r} : /\ call'[q] = call[q]
                                     /\ eventId'[q] = eventId[q]
                                     /\ inserted'[q] = inserted[q]
                                     /\ lookups'[q] = lookups[q]
                                     /\ found'[q] = found[q]
                                     /\ answer'[q] = answer[q]
        /\ call[r] # "new" => eventId'[r] = eventId[r]
    BY <1>2 DEF Quiet, Caller, Submit, Resubmit, InsertEvent, InsertCollides, InsertJob,
                AnswerFresh, Lookup, AnswerDuplicate, Fails, IngestionInv, TypeOK
  <2>3. /\ \A q \in Requests \ {r} : key(q)' = key(q)
        /\ call[r] # "new" => key(r)' = key(r)
    BY <2>2 DEF key
  <2>4. TypeOK'
    BY <1>2 DEF Quiet, Caller, Submit, Resubmit, InsertEvent, InsertCollides, InsertJob,
                AnswerFresh, Lookup, AnswerDuplicate, Fails, IngestionInv, TypeOK, key,
                OriginalIsFound, TransactionRows
  <2>5. TransactionRows'
    BY <1>2 DEF Quiet, Caller, Submit, Resubmit, InsertEvent, InsertCollides, InsertJob,
                AnswerFresh, Lookup, AnswerDuplicate, Fails, IngestionInv, TypeOK,
                TransactionRows
  <2>6. OneHolder'
    <3>1. inserted'[r] # {} => \/ InsertEvent(r)
                               \/ inserted[r] # {} /\ call[r] # "new"
      BY <1>2 DEF Quiet, Caller, Submit, Resubmit, InsertEvent, InsertCollides, InsertJob,
                  AnswerFresh, Lookup, AnswerDuplicate, Fails, IngestionInv, TypeOK,
                  TransactionRows
    <3>2. "event" \in inserted'[r] => \/ InsertEvent(r)
                                      \/ "event" \in inserted[r]
      BY <1>2, <3>1 DEF Quiet, Caller, Submit, Resubmit, InsertEvent, InsertCollides,
                  InsertJob, AnswerFresh, Lookup, AnswerDuplicate, Fails, IngestionInv,
                  TypeOK, TransactionRows
    <3>3. inserted'[r] # {} => /\ Holders(r) = {}
                               /\ stored[key(r)] = None
                               /\ key(r) \notin jobs
                               /\ call[r] # "new"
      BY <3>1 DEF InsertEvent, IngestionInv, OneHolder, EventHasItsJob
    <3>4. ASSUME NEW q \in Requests, inserted'[q] # {}
          PROVE  /\ Holders(q)' = {}
                 /\ stored'[key(q)'] = None
                 /\ key(q)' \notin jobs'
      <4>1. CASE q = r
        BY <2>1, <2>2, <2>3, <3>3, <3>4, <4>1 DEF Holders
      <4>2. CASE q # r
        <5>1. /\ inserted[q] # {} /\ key(q)' = key(q) /\ Holders(q) = {}
              /\ stored[key(q)] = None /\ key(q) \notin jobs
          BY <2>2, <2>3, <3>4, <4>2 DEF IngestionInv, OneHolder
        <5>2. "event" \in inserted[q]
          BY <5>1 DEF IngestionInv, TransactionRows
        <5>3. ~("event" \in inserted'[r] /\ key(r)' = key(q)')
          BY <2>3, <3>2, <3>3, <4>2, <5>1, <5>2 DEF Holders
        <5> QED BY <2>1, <2>2, <2>3, <5>1, <5>3 DEF Holders
      <4> QED BY <4>1, <4>2
    <3> QED BY <3>4 DEF OneHolder
  <2>7. EventHasItsJob'
    BY <2>1 DEF IngestionInv, EventHasItsJob
  <2>8. OriginalIsFound'
    <3>1. call'[r] = "lookup" => /\ stored[key(r)] # None
                                 /\ lookups'[r] = 3
                                 /\ call[r] # "new"
      <4>1. CASE Lookup(r)
        <5>1. stored[key(r)] # None
          BY <4>1 DEF Lookup, IngestionInv, OriginalIsFound
        <5>2. call' = [call EXCEPT ![r] = "announceDuplicate"]
          BY <4>1, <5>1 DEF Lookup
        <5> QED BY <5>2 DEF IngestionInv, TypeOK
      <4>2. CASE InsertCollides(r)
        BY <4>2 DEF InsertCollides, IngestionInv, TypeOK
      <4> QED
        BY <1>2, <4>1, <4>2
        DEF Quiet, Caller, Submit, Resubmit, InsertEvent, InsertJob, AnswerFresh,
            AnswerDuplicate, Fails, IngestionInv, TypeOK
    <3> QED BY <2>1, <2>2, <2>3, <3>1 DEF IngestionInv, OriginalIsFound
  <2>9. BranchKnows' /\ AnswersAreTrue'
    <3>1. /\ call'[r] # "publish"
          /\ call'[r] = "announceDuplicate" => /\ found'[r] # None
                                               /\ found'[r] = stored[key(r)]
                                               /\ call[r] # "new"
      BY <1>2 DEF Quiet, Caller, Submit, Resubmit, InsertEvent, InsertCollides, InsertJob,
                  AnswerFresh, Lookup, AnswerDuplicate, Fails, IngestionInv, TypeOK,
                  BranchKnows
    <3>2. answer'[r] # None =>
            /\ call'[r] = "answered"
            /\ answer'[r] = "fresh" => found'[r] = r /\ stored[key(r)] = r
            /\ answer'[r] = "duplicate" => found'[r] # None /\ found'[r] = stored[key(r)]
            /\ call[r] # "new"
      BY <1>2 DEF Quiet, Caller, Submit, Resubmit, InsertEvent, InsertCollides, InsertJob,
                  AnswerFresh, Lookup, AnswerDuplicate, Fails, IngestionInv, TypeOK,
                  BranchKnows, AnswersAreTrue
    <3>3. BranchKnows'
      BY <2>1, <2>2, <2>3, <3>1, <3>2 DEF IngestionInv, BranchKnows
    <3>4. AnswersAreTrue'
      BY <2>1, <2>2, <2>3, <3>2, IngestionAssumption DEF IngestionInv, AnswersAreTrue
    <3> QED BY <3>3, <3>4
  <2> QED BY <2>4, <2>5, <2>6, <2>7, <2>8, <2>9 DEF IngestionInv
<1> QED BY <1>0, <1>1, <1>2 DEF Next, Serve, Quiet

\* The inductive invariant holds of every reachable state.
THEOREM IngestionInvariant == Spec => []IngestionInv
<1>1. Init => IngestionInv
  BY InitInv
<1>2. IngestionInv /\ [Next]_vars => IngestionInv'
  BY NextInv
<1> QED BY <1>1, <1>2, PTL DEF Spec

\* Every variable keeps its type, and no transaction outlives its request.
THEOREM IngestionTypeCorrect == Spec => []TypeOK
<1>1. IngestionInv => TypeOK
  BY DEF IngestionInv
<1> QED BY <1>1, IngestionInvariant, PTL

\* An event and its delivery job exist together or not at all.
THEOREM EventHasItsJobAlways == Spec => []EventHasItsJob
<1>1. IngestionInv => EventHasItsJob
  BY DEF IngestionInv
<1> QED BY <1>1, IngestionInvariant, PTL

\* At most one open transaction holds a key, and no committed row does.
THEOREM OneHolderAlways == Spec => []OneHolder
<1>1. IngestionInv => OneHolder
  BY DEF IngestionInv
<1> QED BY <1>1, IngestionInvariant, PTL

\* The error of handleDuplicate is unreachable.
THEOREM OriginalIsFoundAlways == Spec => []OriginalIsFound
<1>1. IngestionInv => OriginalIsFound
  BY DEF IngestionInv
<1> QED BY <1>1, IngestionInvariant, PTL

\* Every caller is told the truth about the stored row.
THEOREM AnswersAreTrueAlways == Spec => []AnswersAreTrue
<1>1. IngestionInv => AnswersAreTrue
  BY DEF IngestionInv
<1> QED BY <1>1, IngestionInvariant, PTL

----------------------------------------------------------------------------
(* Refinement: Submit is Ask, Commit is Keep, an answer is Answer, and     *)
(* every other step is invisible.                                          *)

\* What the callers see of the initial state.
LEMMA InitRefines == Init => Idempotent!Init
  BY DEF Init, Idempotent!Init

\* What they see of a step, in a state that satisfies the invariant.
LEMMA StepRefines ==
    IngestionInv /\ [Next]_vars => [Idempotent!Next]_(Idempotent!vars)
<1> DEFINE asked(r) == IF call[r] = "new" THEN None ELSE key(r)
           shown(r) == IF answer[r] = None THEN None ELSE found[r]
<1> SUFFICES ASSUME IngestionInv, [Next]_vars
             PROVE  [Idempotent!Next]_(Idempotent!vars)
  OBVIOUS
<1> USE IngestionAssumption DEF InTransaction, InService, Goto
<1>0. CASE UNCHANGED vars
  BY <1>0 DEF vars, key, Idempotent!vars
<1>1. ASSUME NEW r \in Requests, NEW e \in EventIds, Submit(r, e)
      PROVE  Idempotent!Ask(r)
  <2>1. /\ call[r] = "new" /\ call' = [call EXCEPT ![r] = "insertEvent"]
        /\ eventId' = [eventId EXCEPT ![r] = e]
        /\ UNCHANGED <<stored, jobs, answer, found>>
    BY <1>1 DEF Submit
  <2>2. Fold[e] \in Keys
    OBVIOUS
  <2>3. \A q \in Requests : asked(q)' = IF q = r THEN Fold[e] ELSE asked(q)
    BY <2>1 DEF key, IngestionInv, TypeOK
  <2>4. [q \in Requests |-> asked(q)'] =
          [[q \in Requests |-> asked(q)] EXCEPT ![r] = Fold[e]]
    BY <2>3
  <2>5. asked(r) = None
    BY <2>1
  <2>6. [q \in Requests |-> shown(q)'] = [q \in Requests |-> shown(q)]
    BY <2>1
  <2> QED BY <2>1, <2>2, <2>4, <2>5, <2>6 DEF Idempotent!Ask
<1>2. ASSUME NEW r \in Requests, Commit(r)
      PROVE  Idempotent!Keep(r)
  <2>1. /\ call[r] = "commit" /\ call' = [call EXCEPT ![r] = "publish"]
        /\ stored' = [stored EXCEPT ![key(r)] = r]
        /\ jobs' = jobs \cup {key(r)}
        /\ UNCHANGED <<eventId, answer, found>>
    BY <1>2 DEF Commit, Written, IngestionInv, TransactionRows
  <2>2. [q \in Requests |-> asked(q)'] = [q \in Requests |-> asked(q)]
    BY <2>1 DEF key, IngestionInv, TypeOK
  <2>3. [q \in Requests |-> shown(q)'] = [q \in Requests |-> shown(q)]
    BY <2>1
  <2>4. asked(r) = key(r) /\ key(r) \in Keys
    BY <2>1 DEF key, IngestionInv, TypeOK
  <2>5. stored[key(r)] = None
    BY <2>1 DEF IngestionInv, TransactionRows, OneHolder
  <2> QED BY <2>1, <2>2, <2>3, <2>4, <2>5 DEF Idempotent!Keep
<1>3. ASSUME NEW r \in Requests, AnswerFresh(r) \/ AnswerDuplicate(r)
      PROVE  Idempotent!Answer(r)
  <2>1. /\ UNCHANGED <<stored, jobs, eventId>>
        /\ call[r] \in {"publish", "announceDuplicate"}
        /\ call' = [call EXCEPT ![r] = "answered"]
    BY <1>3 DEF AnswerFresh, AnswerDuplicate
  <2>2. [q \in Requests |-> asked(q)'] = [q \in Requests |-> asked(q)]
    BY <2>1 DEF key, IngestionInv, TypeOK
  <2>3. /\ asked(r) = key(r) /\ key(r) \in Keys /\ answer[r] = None
        /\ r # None
    BY <2>1 DEF key, IngestionInv, TypeOK, BranchKnows
  <2>4. PICK told \in {"fresh", "duplicate"} :
          /\ answer' = [answer EXCEPT ![r] = told]
          /\ told = "fresh" => stored[key(r)] = r
          /\ found'[r] = stored[key(r)]
          /\ \A q \in Requests \ {r} : found'[q] = found[q]
          /\ stored[key(r)] # None
    BY <1>3, <2>3 DEF AnswerFresh, AnswerDuplicate, IngestionInv, TypeOK, BranchKnows
  <2>5. \A q \in Requests : shown(q)' = IF q = r THEN stored[key(r)] ELSE shown(q)
    BY <2>4 DEF IngestionInv, TypeOK
  <2>6. [q \in Requests |-> shown(q)'] =
          [[q \in Requests |-> shown(q)] EXCEPT ![r] = stored[key(r)]]
    BY <2>5
  <2> QED BY <2>1, <2>2, <2>3, <2>4, <2>6 DEF Idempotent!Answer
<1>4. ASSUME NEW r \in Requests,
             \/ Resubmit(r)
             \/ InsertEvent(r)
             \/ InsertCollides(r)
             \/ InsertJob(r)
             \/ Lookup(r)
             \/ Fails(r)
      PROVE  UNCHANGED Idempotent!vars
  <2>1. /\ UNCHANGED <<stored, jobs, eventId, answer>>
        /\ call[r] # "new" /\ call'[r] # "new"
        /\ \A q \in Requests \ {r} : call'[q] = call[q] /\ found'[q] = found[q]
    BY <1>4 DEF Resubmit, InsertEvent, InsertCollides, InsertJob, Lookup, Fails,
                IngestionInv, TypeOK
  <2>2. call[r] # "answered"
    BY <1>4 DEF Resubmit, InsertEvent, InsertCollides, InsertJob, Lookup, Fails
  <2>3. answer[r] = None
    BY <2>2 DEF IngestionInv, BranchKnows
  <2>4. [q \in Requests |-> asked(q)'] = [q \in Requests |-> asked(q)]
    BY <2>1 DEF key
  <2>5. [q \in Requests |-> shown(q)'] = [q \in Requests |-> shown(q)]
    BY <2>1, <2>3
  <2> QED BY <2>1, <2>4, <2>5 DEF Idempotent!vars
<1> QED
  BY <1>0, <1>1, <1>2, <1>3, <1>4 DEF Next, Serve, Caller, Idempotent!Next

\* POST /events is the idempotent endpoint of IdempotentStore.
THEOREM IngestionImplementsStore == Spec => ImplementsStore
<1>1. Init => Idempotent!Init
  BY InitRefines
<1>2. IngestionInv /\ [Next]_vars => [Idempotent!Next]_(Idempotent!vars)
  BY StepRefines
<1> QED BY <1>1, <1>2, IngestionInvariant, PTL DEF Spec, ImplementsStore, Idempotent!Spec

----------------------------------------------------------------------------
(* What the callers may rely on                                            *)

\* The store never replaces or removes what it holds, and tells nobody twice.
LEMMA StoreKeeps ==
    ASSUME TypeOK, [Idempotent!Next]_(Idempotent!vars)
    PROVE  /\ \A k \in Keys : stored[k] # None => stored'[k] = stored[k]
           /\ jobs \subseteq jobs'
           /\ \A r \in Requests : answer[r] # None => answer'[r] = answer[r]
<1> DEFINE Kept == /\ \A k \in Keys : stored[k] # None => stored'[k] = stored[k]
                   /\ jobs \subseteq jobs'
                   /\ \A q \in Requests : answer[q] # None => answer'[q] = answer[q]
<1>1. ASSUME NEW r \in Requests, Idempotent!Ask(r) PROVE Kept
  BY <1>1 DEF Idempotent!Ask
<1>2. ASSUME NEW r \in Requests, Idempotent!Keep(r) PROVE Kept
  BY <1>2 DEF Idempotent!Keep
<1>3. ASSUME NEW r \in Requests, Idempotent!Answer(r) PROVE Kept
  BY <1>3 DEF Idempotent!Answer
<1>4. CASE UNCHANGED Idempotent!vars
  BY <1>4 DEF Idempotent!vars
<1>5. QED
  BY <1>1, <1>2, <1>3, <1>4 DEF Idempotent!Next

\* "a duplicate submission is a successful no-op" (events.controller.ts): across
\* failures, retries and any collation the
\* row a key holds is never replaced, its job never taken away, and no caller is
\* told something else later.
THEOREM StoredForGood ==
    Spec => [][ /\ \A k \in Keys : stored[k] # None => stored'[k] = stored[k]
                /\ jobs \subseteq jobs'
                /\ \A r \in Requests : answer[r] # None => answer'[r] = answer[r]]_vars
<1> DEFINE Keeps == /\ \A k \in Keys : stored[k] # None => stored'[k] = stored[k]
                    /\ jobs \subseteq jobs'
                    /\ \A r \in Requests : answer[r] # None => answer'[r] = answer[r]
<1>1. IngestionInv /\ [Next]_vars => [Keeps]_vars
  BY StepRefines, StoreKeeps DEF IngestionInv
<1>2. QED
  BY <1>1, IngestionInvariant, PTL DEF Spec

\* Of all who submit a key at most one is told that it is the first.
THEOREM OneIsFresh ==
    Spec => [](\A q, r \in Requests :
                 answer[q] = "fresh" /\ answer[r] = "fresh" /\ key(q) = key(r) => q = r)
<1>1. AnswersAreTrue => \A q, r \in Requests :
                          answer[q] = "fresh" /\ answer[r] = "fresh" /\ key(q) = key(r)
                            => q = r
  BY DEF AnswersAreTrue
<1>2. QED
  BY <1>1, AnswersAreTrueAlways, PTL
=============================================================================
