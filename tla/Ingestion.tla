----------------------------- MODULE Ingestion -----------------------------
(***************************************************************************)
(* POST /events of apps/server (events.service ingest): callers that       *)
(* submit the same event at once, each in a transaction of its own that    *)
(* collides with the others on UNIQUE(eventId), not in the application.    *)
(*                                                                         *)
(* Each SQL statement is a step.  "call" says which statement a request    *)
(* runs next; "inserted" holds the rows of its open transaction, which     *)
(* nobody else sees, but which make a second INSERT of the key wait        *)
(* (InnoDB).  A request stands for its payload: storing the payload of a   *)
(* request is storing the request.                                         *)
(***************************************************************************)
EXTENDS Naturals, FiniteSets

CONSTANTS Requests,     \* the submissions
          EventIds,     \* the eventIds callers write
          Keys,         \* what the UNIQUE indexes compare
          Fold,         \* the key of each eventId under the column's collation
          MaxFaults,    \* bound on the requests that fail part way
          None          \* no request, no eventId, no answer

ASSUME IngestionAssumption == /\ Fold \in [EventIds -> Keys]
                              /\ None \notin Requests \cup EventIds \cup Keys
                              /\ None \notin {"fresh", "duplicate"}
                              /\ MaxFaults \in Nat

VARIABLES
    stored,       \* events, committed: whose payload each key holds
    jobs,         \* delivery_jobs, committed: the keys that have one
    call,         \* the next step of each request
    eventId,      \* the eventId each request names
    inserted,     \* the rows of its open transaction
    lookups,      \* the reads findExistingWithRetry has left
    found,        \* the row the duplicate path answers with
    answer,       \* what the caller was told
    faults        \* requests that failed so far

vars == <<stored, jobs, call, eventId, inserted, lookups, found, answer, faults>>

key(r) == Fold[eventId[r]]

InTransaction == {"insertEvent", "insertJob", "commit"}
InService     == InTransaction \cup {"publish", "lookup", "announceDuplicate"}

\* The type invariant.
TypeOK ==
    /\ stored \in [Keys -> Requests \cup {None}]
    /\ jobs \in SUBSET Keys
    /\ call \in [Requests -> {"new", "answered", "failed"} \cup InService]
    /\ eventId \in [Requests -> EventIds \cup {None}]
    /\ inserted \in [Requests -> SUBSET {"event", "job"}]
    /\ lookups \in [Requests -> 0 .. 3]
    /\ found \in [Requests -> Requests \cup {None}]
    /\ answer \in [Requests -> {None, "fresh", "duplicate"}]
    /\ faults \in 0 .. MaxFaults
    /\ \A r \in Requests : /\ call[r] # "new" => eventId[r] \in EventIds
                           /\ inserted[r] # {} => call[r] \in InTransaction

Init ==
    /\ stored = [k \in Keys |-> None]
    /\ jobs = {}
    /\ call = [r \in Requests |-> "new"]
    /\ eventId = [r \in Requests |-> None]
    /\ inserted = [r \in Requests |-> {}]
    /\ lookups = [r \in Requests |-> 0]
    /\ found = [r \in Requests |-> None]
    /\ answer = [r \in Requests |-> None]
    /\ faults = 0

----------------------------------------------------------------------------
\* The row a request would be refused or kept waiting by.
Holders(r) == {q \in Requests \ {r} : "event" \in inserted[q] /\ key(q) = key(r)}

Goto(r, step) == call' = [call EXCEPT ![r] = step]

\* POST /events: the transaction begins.
Submit(r, e) ==
    /\ call[r] = "new"
    /\ eventId' = [eventId EXCEPT ![r] = e]
    /\ Goto(r, "insertEvent")
    /\ UNCHANGED <<stored, jobs, inserted, lookups, found, answer, faults>>

\* The caller was shown an error and submits the same event again.
Resubmit(r) ==
    /\ call[r] = "failed"
    /\ Goto(r, "insertEvent")
    /\ UNCHANGED <<stored, jobs, eventId, inserted, lookups, found, answer, faults>>

\* Mutant: the event is inserted outside of the transaction.
InsertEvent_Autocommit(r) ==
    /\ call[r] = "insertEvent"
    /\ stored[key(r)] = None
    /\ Holders(r) = {}
    /\ stored' = [stored EXCEPT ![key(r)] = r]
    /\ Goto(r, "insertJob")
    /\ UNCHANGED <<jobs, eventId, inserted, lookups, found, answer, faults>>

\* Mutant: save() updates the row when there is one.
InsertEvent_Upsert(r) ==
    /\ call[r] = "insertEvent"
    /\ Holders(r) = {}
    /\ inserted' = [inserted EXCEPT ![r] = {"event"}]
    /\ Goto(r, "insertJob")
    /\ UNCHANGED <<stored, jobs, eventId, lookups, found, answer, faults>>

\* eventsRepository.insert: no row and no open transaction holds the key.
InsertEvent(r) ==
    /\ call[r] = "insertEvent"
    /\ stored[key(r)] = None
    /\ Holders(r) = {}
    /\ inserted' = [inserted EXCEPT ![r] = {"event"}]
    /\ Goto(r, "insertJob")
    /\ UNCHANGED <<stored, jobs, eventId, lookups, found, answer, faults>>

\* Mutant: the row of an open transaction is taken for a duplicate.
InsertCollides_Uncommitted(r) ==
    /\ call[r] = "insertEvent"
    /\ stored[key(r)] # None \/ Holders(r) # {}
    /\ lookups' = [lookups EXCEPT ![r] = 3]
    /\ Goto(r, "lookup")
    /\ UNCHANGED <<stored, jobs, eventId, inserted, found, answer, faults>>

\* UNIQUE(eventId) refuses the row: the transaction rolls back and ingest
\* goes to handleDuplicate.
InsertCollides(r) ==
    /\ call[r] = "insertEvent"
    /\ stored[key(r)] # None
    /\ lookups' = [lookups EXCEPT ![r] = 3]
    /\ Goto(r, "lookup")
    /\ UNCHANGED <<stored, jobs, eventId, inserted, found, answer, faults>>

\* deliveryRepository.insertJob, in the same transaction.
InsertJob(r) ==
    /\ call[r] = "insertJob"
    /\ inserted' = [inserted EXCEPT ![r] = @ \cup {"job"}]
    /\ Goto(r, "commit")
    /\ UNCHANGED <<stored, jobs, eventId, lookups, found, answer, faults>>

\* What a transaction leaves in the tables when it commits.
Written(r) ==
    /\ stored' = IF "event" \in inserted[r] THEN [stored EXCEPT ![key(r)] = r] ELSE stored
    /\ jobs' = IF "job" \in inserted[r] THEN jobs \cup {key(r)} ELSE jobs
    /\ inserted' = [inserted EXCEPT ![r] = {}]

Commit(r) ==
    /\ call[r] = "commit"
    /\ Written(r)
    /\ Goto(r, "publish")
    /\ UNCHANGED <<eventId, lookups, found, answer, faults>>

\* EVENT_ACCEPTED is published and the caller told it is the first.
AnswerFresh(r) ==
    /\ call[r] = "publish"
    /\ answer' = [answer EXCEPT ![r] = "fresh"]
    /\ found' = [found EXCEPT ![r] = r]
    /\ Goto(r, "answered")
    /\ UNCHANGED <<stored, jobs, eventId, inserted, lookups, faults>>

\* One read of findExistingWithRetry; after the third in vain ingest throws.
Lookup(r) ==
    LET row == stored[key(r)]
    IN  /\ call[r] = "lookup"
        /\ found' = [found EXCEPT ![r] = row]
        /\ lookups' = [lookups EXCEPT ![r] = @ - 1]
        /\ Goto(r, IF row # None THEN "announceDuplicate"
                   ELSE IF lookups[r] > 1 THEN "lookup" ELSE "failed")
        /\ UNCHANGED <<stored, jobs, eventId, inserted, answer, faults>>

\* Mutant: the flag of the duplicate path is lost.
AnswerDuplicate_Fresh(r) ==
    /\ call[r] = "announceDuplicate"
    /\ answer' = [answer EXCEPT ![r] = "fresh"]
    /\ Goto(r, "answered")
    /\ UNCHANGED <<stored, jobs, eventId, inserted, lookups, found, faults>>

\* DUPLICATE_EVENT is published and the caller told of the first submission.
AnswerDuplicate(r) ==
    /\ call[r] = "announceDuplicate"
    /\ answer' = [answer EXCEPT ![r] = "duplicate"]
    /\ Goto(r, "answered")
    /\ UNCHANGED <<stored, jobs, eventId, inserted, lookups, found, faults>>

\* Mutant: the failed transaction is left open.
Fails_NoRollback(r) ==
    /\ call[r] \in InService
    /\ faults < MaxFaults
    /\ faults' = faults + 1
    /\ found' = [found EXCEPT ![r] = None]
    /\ Goto(r, "failed")
    /\ UNCHANGED <<stored, jobs, eventId, inserted, lookups, answer>>

\* A statement throws, the process dies or the answer is lost: an open
\* transaction rolls back and the caller sees an error.  At "publish" it is
\* the COMMIT whose result nobody hears of.
Fails(r) ==
    /\ call[r] \in InService
    /\ faults < MaxFaults
    /\ faults' = faults + 1
    /\ inserted' = [inserted EXCEPT ![r] = {}]
    /\ found' = [found EXCEPT ![r] = None]
    /\ Goto(r, "failed")
    /\ UNCHANGED <<stored, jobs, eventId, lookups, answer>>

----------------------------------------------------------------------------
Serve(r) == \/ InsertEvent(r)
            \/ InsertCollides(r)
            \/ InsertJob(r)
            \/ Commit(r)
            \/ AnswerFresh(r)
            \/ Lookup(r)
            \/ AnswerDuplicate(r)

Caller(r) == (\E e \in EventIds : Submit(r, e)) \/ Resubmit(r)

Next == \E r \in Requests : Serve(r) \/ Caller(r) \/ Fails(r)

Spec == Init /\ [][Next]_vars

\* The server carries every request to its end; callers owe nothing.
FairSpec == Spec /\ \A r \in Requests : WF_vars(Serve(r))

----------------------------------------------------------------------------
\* "an event can never exist without its delivery job, and a job can never
\* exist for an event that was rolled back" (events.service.ts): across every
\* failure between the two INSERTs and the COMMIT.
EventHasItsJob == jobs = {k \in Keys : stored[k] # None}

\* Two transactions never hold the same key, so the job's INSERT and the COMMIT
\* cannot collide: only the first INSERT of a transaction can be a duplicate.
OneHolder ==
    \A r \in Requests : inserted[r] # {} => /\ Holders(r) = {}
                                            /\ stored[key(r)] = None
                                            /\ key(r) \notin jobs

\* handleDuplicate always finds the committed original on its first read: the
\* error it throws after three reads in vain is never reached.
OriginalIsFound ==
    \A r \in Requests : call[r] = "lookup" => /\ stored[key(r)] # None
                                              /\ lookups[r] = 3

\* A caller is told "fresh" only of its own payload, so of all who submit a key
\* at most one is, and a duplicate is answered with the row that is stored.
AnswersAreTrue ==
    \A r \in Requests :
        /\ answer[r] = "fresh" => stored[key(r)] = r
        /\ answer[r] = "duplicate" => /\ found[r] # None
                                      /\ found[r] = stored[key(r)]

\* A row, once committed, is never replaced by a later submission, and no other
\* step adds or removes one: the promise of the idempotent endpoint.
Idempotent == INSTANCE IdempotentStore WITH
    asked     <- [r \in Requests |-> IF call[r] = "new" THEN None ELSE key(r)],
    scheduled <- jobs,
    shown     <- [r \in Requests |-> IF answer[r] = None THEN None ELSE found[r]]

ImplementsStore == Idempotent!Spec

\* A request never hangs, though its INSERT waits for another transaction: the
\* caller is answered or shown an error.
CallsEnd ==
    \A r \in Requests : call[r] = "insertEvent" ~> call[r] \in {"answered", "failed"}

\* The caller who is told "duplicate" named the event that is kept: "a
\* duplicate submission is a successful no-op" (events.controller.ts).
DuplicateIsSameEvent ==
    \A r \in Requests :
        answer[r] = "duplicate" => eventId[found[r]] = eventId[r]
=============================================================================
