# Verification of the event delivery engine

TLA+ models of the program in this repository: a NestJS server that accepts
events, stores each with a delivery job, and delivers it to a webhook with
retries, and a Next.js dashboard that watches it. TLC checks the models on
small instances; TLAPS proves the most important invariants for every value of
the constants.

Paths below are relative to `src/`: `server/` is `apps/server/src/`, `client/`
is `apps/client/`.

To check a run: `tlc -config MCDeliverySingle.cfg MCDelivery.tla`. To check the
proofs of a module: `tlapm DeliveryProofs.tla`.

## 1. The system

### Components, their state and their operations

| Component | State it keeps | Operations |
|---|---|---|
| Event ingestion (`server/events/`) | tables `events` and `delivery_jobs`, through one transaction per request | `ingest`, `handleDuplicate`, `findExistingWithRetry` |
| Delivery repository and attempt log (`server/delivery/delivery.repository.ts`, `server/attempts/`) | `delivery_jobs` (status, attemptCount, nextAttemptAt, lockedAt), the projection `events.status`, `delivery_attempts` | `findDueJobIds`, `claim`, `markDelivered`, `markFailed`, `scheduleRetry`, `findStaleJobs`, `releaseStaleJob`; `start`, `complete`, `closeAbandoned` |
| Delivery service (`server/delivery/delivery.service.ts`) | none between calls | `executeClaimedJob` and its three outcomes, `recoverStaleJobs` |
| Delivery worker (`server/delivery/delivery.worker.ts`) | a timer and a tick in progress, per process | `tick`, `runOnce`, start and stop |
| Decisions (`server/common/delivery-status.enum.ts`, `server/delivery/retry-policy.ts`, `readRetryDelays` in `server/config/configuration.ts`) | none | the state machine, classification of answers, budget, backoff |
| Webhook client (`server/delivery/webhook.client.ts`) | none | one POST with a timeout |
| Realtime (`server/realtime/`) | connected sockets, the stream `activity$` | `publish` (errors are swallowed), `broadcastStats` |
| Statistics (`server/dashboard/`, `server/metrics/`) | in-process counters, the audit window | `getStats`, `broadcast` |
| Test receiver (`server/test-receiver/`) | configuration and counters per event, in memory | `handleDelivery`, `updateConfig` |
| Dashboard state (`client/hooks/`) | event list, statistics, feed, connection, error, the debounce timer | `refresh`, the socket handlers, `applyOptimisticPatch`, `scheduleReconcile` |
| Receiver controls and submit form (`client/components/ReceiverControls.tsx`, `SubmitEventForm.tsx`) | settings the user has touched, the POST in flight, the eventId, the results, an error | `apply`, `submit`, their inputs |
| Dashboard presentation (`client/components/`, `client/lib/`) | none | `buildNodes`, `explain` and `describe`, which decide what is said of an event; the rest renders |
| Schema, bootstrap, health | tables and indexes | migration; wiring; a read-only probe |

### How they interact

Ingestion writes an event and its job in one transaction. Worker processes share
the two tables and nothing else: they find due jobs, claim one by a conditional
UPDATE, store an attempt row, call the receiver, close the row, move the job and
its projection. No transaction joins these statements. A claim is a lease: the
next sweep of any worker takes a job back whose lease has passed. The code that made a change
publishes a message about it once its last statement has returned; the message
may be lost. The dashboard paints it provisionally and reads the list again.
The panels post a configuration to the test receiver and events to ingestion,
and the page reads the receiver with every refresh. The statistics are read by several
queries when a burst of messages is over, and on request.

### What is hard about it, and what makes it correct

* **Delivery.** Any process may stall, die or get an error between two
  statements; leases pass under workers that are alive. Correct means: no job is
  lost, every job ends, the attempts are bounded, an outcome has a reason, and
  with one worker the state machine, the budget and the attempt log hold exactly.
* **Ingestion.** Submissions of one `eventId` overlap, fail part way and are
  repeated. Correct means: the endpoint is idempotent, an event and its job
  exist together, every caller is told the truth.
* **Retry policy.** A list of delays is padded, cut and indexed with a 1-based
  number. Correct means: attempt n waits for the delay configured for n.
* **Dashboard.** Several reads in flight, lost messages, reconnects, a debounce,
  optimistic patches. Correct means: once quiet, the list is not behind what was
  announced, and a painted row does not stay without a read.
* **Statistics.** Queries without a snapshot, an audit window, two channels.
  Correct means: the figures catch up.
* **Test receiver.** Deliveries overlap over an `await`, the sender gives up, the
  counters are reset, a restart loses counters and settings. Correct means: `FAIL_ONCE` refuses once; with the
  engine, that the receiver sees no event more often than it was attempted and
  that the scenarios of the README play out.
* **Messages.** A worker says what it did after a statement has returned, when
  other workers have moved on, when it has been asked to stop, or never, when it
  died. Correct means: what is told can be read in the database, and every
  change is told unless something failed.
* **The panels.** A setting follows the receiver until it is touched; reads and
  POSTs overlap and are answered in any order; an answer that is lost leaves
  open whether the POST was carried out, or still will be; another dashboard or
  a restart changes the receiver behind the page's back. Apply posts the settings
  its user did not touch as well. Correct means: the panel shows what holds,
  what Apply does to an untouched setting stays within bounds, and a submission
  nobody answered can be repeated under its id.

`PROJECT.json` lists the hazards one by one, each at its line, with the
properties aimed at it or the reason there is none.

## 2. The modules

| Module | Models | State and actions |
|---|---|---|
| `DeliveryRules` | `delivery-status.enum.ts`, `RetryPolicy.isExhausted`, the choice in `executeClaimedJob` | operators only |
| `DeliveryLifecycle` | the promise of the state machine and the budget: abstract specification of `Delivery` | status and attemptCount per job; `Claim`, `Conclude` |
| `Delivery` | worker, service, repository, attempt log | one variable per column that decides anything, one program counter per worker, one action per SQL statement and one for the POST |
| `DeliveryInvariants` | the inductive invariants of `Delivery`, for any number of workers and for workers whose hands are apart | |
| `DeliveryProofs` | proofs | |
| `RetryFlow` | what `EventsService.findOne` returns of an event, and what `RetryFlow.tsx` and `history.ts` say of it | operators on the state of `Delivery`, proved about in `DeliveryProofs` |
| `MCDelivery` | instances of the above | |
| `IdempotentStore` | the promise of `POST /events`: abstract specification of `Ingestion` | `Ask`, `Keep`, `Answer` |
| `Ingestion`, `IngestionInvariants`, `IngestionProofs`, `MCIngestion` | `EventsService.ingest`, its transaction, the UNIQUE indexes and their collation | one action per statement; `inserted` holds the rows of an open transaction |
| `Notices`, `NoticesProofs`, `MCNotices` | `Delivery` composed with what its workers and ingestion publish, and with the stop of a worker (`onModuleDestroy`) | each step of `Delivery` joined with what is said after it; `Publish`, `PublishAccepted`, `Unheard`; `Stop`, `Break`, `Exit` |
| `RetryPolicy`, `RetryPolicyProofs` | `classifyHttpStatus`, `readRetryDelays`, `delayAfterAttemptMs`, `attemptsRemaining`, on the life of one job | the delays, listed or named, and a fractional budget chosen at the start; one attempt per step |
| `TestReceiver` | the test receiver | `AnswerAtOnce` without latency; `Receive` and `Answer` on both sides of the `await`; `UpdateConfig`; `Restart` |
| `Demo`, `DemoProofs`, `MCDemo` | `RetryPolicy` composed with `TestReceiver`, or with an endpoint that answers anything | a POST that takes time, is answered, times out, or loses its worker or its receiver |
| `Dashboard`, `DashboardProofs`, `MCDashboard` | the event list of `useEngineState`, the gateway, `EventsService.list` | reads in flight with their answers, the socket as a sequence |
| `Console`, `ConsoleProofs`, `MCConsole` | `ReceiverControls`, `SubmitEventForm` and the receiver's state of `useEngineState`, on one page | the inputs of the user, the reads and the two POSTs with their answers; a POST that was given up and arrives late; what others and restarts change at the receiver |
| `Statistics`, `StatisticsProofs`, `MCStatistics` | `getStats`, `auditTime`, `broadcastStats` and who shows the result | calls of `getStats` in progress with the figures read so far |

Names are those of the code where TLA+ allows it. A definition whose name
contains an underscore and a variant (`Closed_All`, `Send_NotAwaited`) is a
mutant: the definition with a plausible bug, which the property named beside it
in `PROJECT.json` detects. No specification uses one.

### Abstractions

* **Time in Delivery** is the outcome of the two comparisons the code makes with
  the clock: `due` and `expired`. Backoffs and leases may pass at any moment, so
  a lease may pass while its worker is alive: nothing in
  `configuration.ts` relates the lease to the webhook's timeout.
  `lockedAt` tells one claim from another; the claim's attempt number stands
  for it.
* **A request** in Ingestion stands for its payload, an **event** in Dashboard
  for the number of changes it has been through, a **figure** in Statistics for
  the number of its changes.
* **Crash** may happen at any step. It is the operating system's doing, so no
  line of the code is named for it. In `Delivery` it takes the place of a
  graceful stop; `Notices` has the stop itself: no new tick, no new claim, and
  the tick in progress runs on. A process that exits in the middle of a tick
  because its connection is closed is one that crashes. What a stop lets fail on
  the closing connection is a fault like any other.
* **The job's event** is always found: the branch of `executeClaimedJob` for a job
  without one (`delivery.service.ts:55-62`) is left out, since the foreign key
  of `delivery_jobs` and the absence of any DELETE make it unreachable.
* **A restart of the server** loses what `TestReceiverService` holds in its fields:
  settings in `Console`, settings and counters in `Demo`. Where receiver and
  worker share a process the attempt in progress is burnt with it.
* **A message** in Notices is the status and the attempt number it gives; its
  text and its error are data.
* **A setting** in Console stands for `mode`, `failureStatus` and `latencyMs`,
  which are handled alike; an event of the form for its `eventId`.
* **Queries of one request** (`EventsService.list`, `findOne`) are taken at one
  moment; the statistics, where this matters most, are not.
* **One server process's gateway.** With several processes a dashboard hears
  only the messages of the process its socket is connected to.
* **InnoDB**: a second INSERT of a key waits for the open transaction that holds
  it; a transaction is undone when its statement fails or its process dies.
* `claim()` never writes `events.status`, so no reader of that table sees
  `DELIVERING`. `ProjectionInStep` asks about jobs outside of `DELIVERING` only;
  `ProjectionInStepUnlessFault` also says what is seen meanwhile, the status the
  job had before its claim.

## 3. The runs

| Run | Instance | What it shows |
|---|---|---|
| `delivery_single` | 1 worker, 2 events, batches of 2, 3 attempts, 2 faults | With one process: `DeliveryLifecycle`, the budget included, is implemented (`FollowsLifecycle`), the executor owns its job, an open attempt is the current one, completed rows are immutable, and, until something fails, the projection is in step and a SUCCESS in the log is a DELIVERED job. Of a delivery that is over the chain, its sentence and the feed say the same; "accepted" and "permanent failure" are the answer to the last attempt, whatever failed; "retry limit reached" is the spent budget, and without a fault every attempt but the last was refused with an error that may be retried (`ReasonIsTrue`, and see below). Until something fails, and afterwards for every event whose attempts all have rows, the next attempt is shown. |
| `delivery_multi` | 2 workers, 1 event, 2 attempts, 2 faults, fairness | With several processes: at most `2 * MAX_ATTEMPTS - 1` claims, no attempt number in flight twice, no job lost, no outcome made up, and every job ends for good. |
| `ingestion` | 3 requests, 2 eventIds, 2 faults, fairness | Ingestion implements `IdempotentStore`; an event has its job; the duplicate path finds its original at once; answers are true; calls end. |
| `notices` | 2 workers, 1 event, 2 attempts, 1 fault | What was told can be read in the database until two workers have had one job in hand (`ToldIsReadable`); without a fault every change of an event is told, whatever overlaps or is stopped (`EveryChangeIsTold`). |
| `dashboard` | 2 events, 2 changes or messages, 2 faults, fairness | `NeverBehind`, `PatchIsProvisional`; a patched list is read again or shows an error (`PatchIsReconciled`). |
| `console` | 2 settings of 3 values, 2 ids, 3 inputs, 2 reads, 1 fault | The panel shows what holds of every setting that nobody else and no restart has changed, unless a POST was given up, or clicked before anything was read. Apply changes an untouched setting only if one of them has, back to a value it had, or if it was clicked before anything was read. A submission nobody answered can be repeated. |
| `statistics` | 2 figures, 2 changes, 1 request, 1 fault, fairness | `StatsCatchUp`; every message's figures are shown at some time. |
| `demo` | 3 attempts, whole or fractional; every list of up to 3 delays and every pair of named ones, negative too; boundary statuses and no answer; 2 failure statuses, 2 events, 4 deliveries, 1 change of the receiver | Each wait is the one configured and a delivery ends only for a reason, against any endpoint; the README's scenarios where no worker dies and no request times out, and where they do, every answer still the mode's (`AsTheReadmeShows`); `FAIL_ONCE` refuses once although deliveries overlap; the receiver sees no more deliveries than attempts were burnt. |

### Divergences between the code and what is said of it

| Run | Instance | Statement refuted |
|---|---|---|
| `budget_exceeded` | 2 workers, no fault | "retries stay bounded at MAX_ATTEMPTS no matter how many times the process crashes" (`delivery.repository.ts:72-73`) |
| `projection_lost` | 1 worker, 1 fault | the projection is "written inside the same transaction as the job update" (`event.entity.ts:18-19`) |
| `dashboard_overtaken` | no fault | "a dropped connection can only ever cost liveness, never correctness" (`useEngineState.ts:30-31`) |
| `ingestion_collation` | 2 requests, no fault | a duplicate names the same event: under `utf8mb4_unicode_ci` an `eventId` that differs in case is dropped |

The cause of the first has further effects. A transition updates the job by its
id alone (`delivery.repository.ts:168`), and `assertTransition` compares
constants, not the row. A worker that waited for the receiver beyond its lease
therefore writes over whatever happened since: it requeues a job whose budget is
spent, and may move a job out of DELIVERED or FAILED, the statuses
`delivery-status.enum.ts` calls terminal. In the same way it closes an attempt
row that recovery has closed already, although "Attempt rows are immutable
history once completed" (`delivery-attempt.entity.ts:7-8`):
`AttemptHistoryImmutable` holds with one worker, and until two share a job. And what it publishes may be
behind the database: `ToldIsReadable` speaks of the time until two workers have
had one job in hand. Recovery is guarded by `lockedAt`; the executor is not.
`AttemptBound` and `OutcomeHasAReason` are what still holds, with any number of
workers; `EventuallySettled` shows that the overwriting comes to an end.

Three more have no run of their own; they are what the exceptions of passing
properties are for.

* **"Retry limit reached" of a permanent refusal.** "The reason an event
  is retrying, delivered or failed is visible in the chain itself"
  (`RetryFlow.tsx:20-21`), and the dashboard is to tell "the receiver rejected this
  and always will" from "we ran out of attempts" (`SUBMISSION.md:76-78`). The code
  looks at the count alone (`RetryFlow.tsx:153`, `170-171`, `history.ts`): when the last
  attempt of the budget is refused with, say, 400, the page says "retry limit
  reached" and "All 3 attempts failed with retryable errors". `ReasonIsTrue` states
  the exception exactly (`BudgetSpentOnRetries`), and that it is the only one while
  nothing fails. After a fault the sentence may also count attempts
  that were never answered.
* **Apply posts what was not touched** (`ReceiverControls.tsx:52`). The second
  dashboard that applies one setting undoes what the first has applied, if it has
  not read since. The exceptions of `UntouchedStays` are this, and a click before
  the first answer.
* **A gap in the attempt numbers** (`RetryFlow.tsx:83`). After a crash between a
  claim and its row the chain counts one row too few and shows no next attempt:
  `Recorded` in `NextAttemptIsShownUnlessFault`.

### Bounds and why they are enough

* Two workers are what every race of the code is between: an executor, and the
  process that recovers or claims under it. Two attempts contain one number that
  may be retried and one that may not; the second worker's `2 * 2 - 1 = 3` claims
  are reached. `AttemptBound`, `NoSharedAttempt`, `NoJobStranded` and
  `OutcomeHasAReason` are proved for any number.
* With one worker two events and batches of two make sweep and drain handle
  several rows; three attempts contain a first, a middle and a last one; two
  faults let recovery itself be interrupted.
* Three requests on two keys: a winner, a loser, and one that starts when they
  have ended, or that names the other key. Two faults let a resubmission fail.
* Two messages and two faults on the dashboard let a message be lost and the
  read that makes up for it fail. The proofs remove the bound.
* In `notices` one event and two workers, as for the other races; its one fault
  is a crash, an error, a lost reply or a lost message. Two workers stop and
  start again in any order.
* In `console` two settings are one that is touched and one that is not; the
  values are the default and two others, which tell a setting that goes back from
  one that becomes something new. Three inputs contain an edit, a change made
  elsewhere and an Apply, or two submissions and a change of the id between them;
  two reads overtake each other and a POST. The one fault is a request that fails,
  a POST that is given up and arrives late, or a restart. The proofs remove the
  bounds.
* Two figures are enough to take one reading apart.
* In `demo` three attempts need two delays: lists of none to three are too short,
  right and too long. Four deliveries at the receiver are one more than the
  attempts.
* `MaxFaults`, `MaxActivity`, `MaxChanges`, `MaxRequests`, `MaxDeliveries`,
  `MaxUpdates`, `MaxInputs`, `MaxReads` and `MaxListed` bound what the environment does and nothing the program does.

`CHECK_DEADLOCK FALSE` is used where the instance really may stop: every caller
answered, every message used up, the demo's event settled, the user's inputs
spent. `Delivery` and `Notices` never stop: their workers keep polling, and one
that was stopped is started again.

### Fairness

* `Delivery!FairSpec`: weak fairness of each worker's `Work`, because the timer
  of a tick always fires, the POST has a timeout, and a dead process is started
  again by whoever operates it (the repository's compose file has no restart
  policy; the recovery sweep presupposes a process that runs it); and of `BackoffElapses` and `LeaseExpires`, because time passes. Faults are
  never obliged and bounded by `MaxFaults`: `EventuallySettled` speaks of a
  system whose faults come to an end.
* `Ingestion!FairSpec`: weak fairness of `Serve(r)`; an INSERT that waits is not
  enabled, and is not obliged to proceed, until the other transaction ends.
  Callers owe nothing.
* `Statistics!FairSpec`: weak fairness of `Proceed`, everything the server and
  the socket do once there is something to do. As `Proceed` is one disjunction,
  no particular reading is favoured; the requests and changes are bounded, so
  each is finished in the end.
* `Dashboard!FairSpec`: weak fairness of `Proceed`: a message on its way is
  handled, a request is answered, and the timer of the reconciliation fires once
  250 ms have passed without a message. Under a stream of messages that never
  pauses the code promises nothing, as each one restarts the timer
  (`useEngineState.ts:69`). `MaxActivity` makes the messages pause, and
  `PatchIsReconciled` says no more than that the read comes once they do.
* The other specifications have no liveness property and assume no fairness.

## 4. The proofs

Assumed is what the modules declare, and TLC evaluates: `BudgetAssumption`
(`MAX_ATTEMPTS` is at least 1, which `buildConfiguration` enforces),
`DeliveryAssumption`, `IngestionAssumption`, `PolicyAssumption`,
`DemoAssumption`, `ConsoleAssumption`, `DashboardAssumption`,
`StatisticsAssumption`: naturals where there are bounds, that `None` and the like
are none of the values, that a delay is an integer, a status lies between 100 and
599, and the receiver refuses with 400 to 599 (`UpdateReceiverDto`), its default
included.

**Delivery, any number of workers, events, attempts and faults** (`DeliveryProofs`).

* `TypeCorrect`. Part of the type is that a worker that holds an entity at its
  step holds one it has read.
* `NoJobStrandedAlways`. `NoJobStranded` is inductive with the type.
* `NoSharedAttemptAlways`. Needs `RowReserved` (a worker in flight has its row),
  because then the UNIQUE index refuses a second worker the same number, and
  `NumbersClaimed` (every number in a worker's hands was claimed before).
* `AttemptBoundAlways`. The bound itself is not inductive. `ClaimsPaidFor` counts
  what the claims were paid with: a number n below `MAX_ATTEMPTS` can put the job
  back into the queue at most twice, once by its executor, once by the recovery
  of its claim. `SpentByExecutor` and `SpentByRecovery` are the numbers that can
  do so no more. Both only grow, and each requeue moves a number into one of
  them; so there are never more claims, made and pending, than
  `1 + |SpentByExecutor| + |SpentByRecovery| <= 1 + 2 * (MAX_ATTEMPTS - 1)`.
* `AnswersAlways`: an attempt number is answered once, after its row was inserted
  (`AnsweredOnce`), and the result a worker acts on is the answer to its attempt
  (`ResultAnswered`). `answers` remembers them by number, so that what the page
  says of attempt n can be compared with how attempt n was answered.
* `OutcomeHasAReasonAlways`. Needs `ResultAnswered` and `NumbersClaimed` (an
  exhausted number means an exhausted count).
* `AttemptSentOnce`, an action property: once nobody is at the POST of an attempt
  number, nobody comes to it again. The way to the POST is the INSERT of a row the
  table does not hold yet (`SendStarts`), and rows are never deleted (`RowsGrow`).
  With `NoSharedAttempt`, an attempt number of an event is POSTed at most once.

**Delivery, hands apart.** What the code promises beyond that, it promises as long
as no two workers have the same job in hand (`HandsApart`). `ApartInvAlways` proves
`ApartInv`, six invariants that are inductive together, for any number of workers,
crashes and errors in a run in which hands stay apart. The argument is the same for
each: a step is one of a worker that acts (`Acts`) on one job (`ActsOnOne`), which
nobody else has in hand, so what the others know stays true (`OthersUntouched`) and
one worker's step is left to look at.

* `OwnerInv`: a claimable job has budget left, and a job in hand is as its worker
  takes it to be (`JobInHand`), from the claim to the projection.
* `AttemptLogInv` follows the attempt rows of the jobs in hand: open from the
  INSERT to the completion, closed before the job moves, and all of them closed
  before recovery releases it. So what `complete` and `closeAbandoned` close is
  open.
* `InStepInv` says, until something fails, between which two statements job and
  projection differ, that a job in delivery is seen as it was before its claim,
  and which answer the row of the job in hand has.
* `ReasonInv`: an event that is shown as over is over (a projection that a crash
  has left behind shows an older status, never a later one), and a worker's
  result is in the attempt row before it moves the job.
* `NextInv`: until something fails whoever comes to recover a job is refused, and
  a job has a row for each of its claims, but for the one whose worker has not
  started its attempt. So the count of rows that `buildNodes` compares with is the
  job's count.
* `AnswerInv`: a job ended with the answer to its last attempt, unless its budget
  was spent; and until something fails each attempt was made because the one before
  it was answered with an error that may be retried. This is where the exception of
  `ReasonIsTrue` comes from: it is silent of the last attempt.

`ApartAlways` draws the seven state properties from it, `ApartFollowsLifecycle`
the refinement of `DeliveryLifecycle`, and `ApartHistoryImmutable` that no
completed row is rewritten. A single worker has nobody to share with
(`OneWorkerApart`), so each of them holds of one worker without a hypothesis on the
run: the theorems under `OneWorker` are these corollaries, and they are what the
runs of one worker check. The violation runs show that some hypothesis is needed.

**Notices** (`NoticesProofs`), any number of workers. Nearly every step of Notices
is one of `Delivery`, whose type and `NumbersClaimed` carry over.
`EveryChangeIsToldAlways` needs that whoever changed an event will say something,
which stalled workers make delicate: the claim of a job says nothing, and the
INSERT of its row may be refused. `UntoldIsTold` has the three ways out: the
acceptance is still to be published; some worker is at a step that ends in a
message about the event (`Tells`); or the last claim has no row yet and somebody
is on the way to it (`FreshClaim`), so the first one there succeeds and says so.
`OpenRowFlown` provides the second where recovery closes rows without publishing:
an open row is in the hands of a worker that will speak. All of it under
`faults = 0`; a stop loses nothing, since a tick in progress runs on.

The other steps, a stop, an exit, a message or a reply that is lost, leave rows and
jobs in hand alone (`EngineOrRests`). So Delivery's promises outlive them:
`StopsAreSafe` has those of any number of workers (`EngineInv`).

`ToldIsReadableAlways` is about runs in which anything may fail, but no two workers
have had one job in hand yet. `shared` remembers whether they have, which turns the
hypothesis of `ApartAlways` into a moment: what is proved holds up to it, not only
in runs without it. Under `ToldInv` hands are apart, `ApartInv` holds, and whatever
was said, or is about to be said, can be read (`Readable`). Every step then does one
of three things to the rows of an event (`RowsMove`: claimed anew, ended, or no move
but that the projection catches up), and none of the three takes back what could be
read (`StaysReadable`). A message may therefore be as late as it likes.

From the same invariant follow, until a job is shared: `UnsharedIsSafe` (the seven
properties of `ApartAlways`), `UnsharedFollowsLifecycle`, `UnsharedHistoryImmutable`,
`UnsharedStaysOver` (no late executor and no late recovery takes a job back that is
over), and `UnsharedAdvances`: a job goes through the stages of `Progress` one at a
time and never back, which is how `Dashboard` abstracts the engine, and with
`ToldIsReadableAlways` no message is ahead of it.

`SharingBegins` says how that time ends. The first time two workers have one job in
hand, one of them has just taken it from the other: from its sweep, which has found
the claim past its lease; by a claim, while the other still recovers a claim that
somebody else has released already; or by a claim between the two UPDATEs of the
other, which the backoff has not outlasted. So however many workers drain the queue,
a job is not shared but for a lease that has run out or a backoff shorter than a
statement.

**Ingestion** (`IngestionProofs`). `IngestionInv` adds to the checked invariants
that a transaction has exactly the rows its step implies. From it follow all five
checked invariants and `IngestionImplementsStore`, under any collation `Fold`. What
the abstract store keeps carries down the refinement: `StoredForGood` (no committed
row is replaced, no job taken away, no answer changed) and, with the truth of the
answers, `OneIsFresh` (of all who submit a key at most one is told it is the first).

**Retry policy** (`RetryPolicyProofs`). `BackoffOfConfiguration` is about the
operators alone: for every list and budget, the delay looked up is the
configured one, or the last when there are fewer. `PolicyInv` carries it through a
job's life, and `EndsForAReasonAlways` with it.

**Demo** (`DemoProofs`). `DemoImplementsPolicy`: engine and receiver together
take steps of the retry policy only, so its theorems hold with the receiver, its
latency, timeouts and deaths. `OneFirst` is the invariant of `FailOnceAlways`: of
the deliveries of an event since the last reset at most one has seen none before
it, and while it waits for the latency nothing has been refused.
`SeenWithinAttemptsAlways` adds to it the identity of the delivery that is
awaited. A restart empties receiver and `handling` alike, so both survive it.
`ScenarioInv` has two halves. Undisturbed, the receiver has counted exactly the
requests that were sent and every answer was the one of the mode. With timeouts and
deaths the counts no longer agree: `NoOtherAnswer` says that what was
answered is the mode's all the same, and `KnownOnceHeard` that, once an attempt was
answered, the receiver has seen the event, in its count or in what a request
in progress was told of it, so `FAIL_ONCE` cannot refuse again.
`AsTheReadmeShowsAlways` follows from both.

**Console** (`ConsoleProofs`). `UntouchedAgree`: of a setting that is untouched and
that neither somebody else nor a restart has changed, every configuration there
is (the receiver's, the page's, the ones in answers under way, the one posted and
those given up) has the same value, unless Apply was clicked before anything was
read. `TouchedAgree`: such a setting, once touched, was posted, if nothing was edited
since, with the value that is in its field. `OnlyHeard` is about the other settings:
the page has heard only values that a setting has had, and so posts no others of
one it has not touched. `PanelShowsWhatHoldsAlways` follows from the first two,
`UntouchedStaysAlways` from the first and the third, with any number of reads
overtaking each other. `FieldKept` drops the condition that no POST is
in flight from `UnansweredCanBeRepeated`, and is inductive.

**Dashboard** (`DashboardProofs`). `LastRefreshKnows` is the inductive invariant
of `NeverBehind`: the refresh issued last knows what the dashboard was told,
unless a message, a handshake or the timer is about to issue another. That the list
shows is the answer of that refresh is the condition `~Overtaken` of `NeverBehind`,
which the code does not ensure: `dashboard_overtaken` is the run that shows it.

**Statistics** (`StatisticsProofs`). `StatsInv`: nothing shown, sent or read is ahead of
the database, and outside of an audit window the call of `getStats` issued last
is of no figure behind the last message, wherever its result is.

### Model-checked only

* Liveness: `EventuallySettled`, `CallsEnd`, `EveryMessageIsShown`,
  `PatchIsReconciled`. TLAPS has no proof rule for liveness under fairness here,
  nor for ENABLED.

## 5. What is not modelled

* The in-process counters and rolling averages of `MetricsService`, and the
  arithmetic of the averages in `getStats`: they decide nothing, and are reset
  with the process.
* The totals that the test receiver shows, which are sums of the counts
  `TestReceiver` has.
* The live feed, which only lists what `Dashboard` receives, and
  `useEventDetail`: the protocol of the event list, without the patch and with
  the same debounce. `RetryFlow` has what is made of its answer.
* The debounce's clock. `Dashboard` lets `Reconcile` happen as soon as the timer
  is set and obliges it to when messages pause.
* The message channels per type and the connection counter of the gateway, to
  which nothing in the repository listens.
* The texts of errors, signatures and headers; the types and payloads of events,
  but for a payload of the form that cannot be parsed.
* Settings that name hosts, ports and databases; column types and the indexes
  that are not UNIQUE.
* Bootstrap and health: wiring, and a probe that reads.
* The tables, badges and formatting of the client, which render what they are
  given. The two components with decisions of their own are in `RetryFlow`, the
  ones with state in `Console`.

## 6. Plan

Done, in this order: the core of delivery with its lifecycle; ingestion; the
retry policy; the dashboard's list; what the client says of an event; the test
receiver and the demo; the statistics; the messages and the worker's stop; the
panels; the proofs of section 4, first of one worker, then of any number of them.

What could follow:

1. **Compose** ingestion, delivery and the dashboard: what `Notices` publishes, in
   the order the dashboard of `Dashboard` hears it. Both halves are there; their
   product is beyond a run of minutes.
2. **A clock**: the debounce and the audit window in one module, and the lease
   against the webhook's timeout: under which settings one worker per job is
   guaranteed.
3. **The feed's seed** racing a live message.
4. A guarded transition (the UPDATE compares `lockedAt`, as recovery's does) as
   a variant of `Delivery`, to show that it restores the budget with any number
   of workers.
