----------------------------- MODULE Dashboard -----------------------------
(***************************************************************************)
(* The dashboard's copy of the event list (apps/client useEngineState) and *)
(* the two ways it hears of the engine: GET /events, which is              *)
(* authoritative, and the messages of the realtime gateway, which are a    *)
(* hint that something changed.                                            *)
(*                                                                         *)
(* A row is abstracted to the number of changes it has been through, 0     *)
(* when there is none: what the row and a message about it show of an      *)
(* event is a state the engine committed, and all that matters is how old  *)
(* it is.  The engine itself is Delivery and Ingestion; here it commits    *)
(* changes and publishes a message after each one.                         *)
(***************************************************************************)
EXTENDS Naturals, Sequences

CONSTANTS Events,       \* the events the list may show
          MaxActivity,  \* bound on changes and other messages together
          MaxFaults,    \* bound on lost connections, failed reads and emits
          None          \* the event of a message about none ('-')

ASSUME DashboardAssumption == /\ None \notin Events
                              /\ MaxActivity \in Nat
                              /\ MaxFaults \in Nat

VARIABLES
    truth,        \* what GET /events would show of each event now
    unsent,       \* messages whose change is committed, not yet published
    online,       \* the gateway has the dashboard's socket
    channel,      \* what the socket has still to hand to the dashboard
    connection,   \* ConnectionState
    rows,         \* the event list in the dashboard's state
    error,        \* the last read failed
    timer,        \* the debounced reconciliation is pending
    reads,        \* refreshes in flight, with what the server has answered
    activity,     \* changes and other messages so far
    faults,       \* faults so far
    issued,       \* history: refreshes issued
    settled,      \* history: the last issued of those that have ended
    shown,        \* history: the one whose answer rows was last set to
    answered,     \* history: that answer
    announced     \* history: what the dashboard was told of each event

server  == <<truth, unsent, online, activity>>
client  == <<connection, rows, error, timer>>
history == <<settled, shown, answered, announced>>
vars    == <<server, channel, client, reads, faults, issued, history>>

View == [Events -> 0 .. MaxActivity]

NoRows == [e \in Events |-> 0]

\* A message names an event and, unless it carries no status, shows its state.
Message == [event : Events \cup {None}, version : 0 .. MaxActivity]

\* The handshake: the first thing a new socket hands to the dashboard.
Connected == [event |-> None, version |-> MaxActivity + 1]

Waiting == [e \in {} |-> 0]     \* a refresh the server has not answered yet

\* The type invariant.
TypeOK ==
    /\ truth \in View
    /\ unsent \in SUBSET Message
    /\ online \in BOOLEAN
    /\ channel \in Seq(Message \cup {Connected})
    /\ connection \in {"connecting", "live", "offline"}
    /\ rows \in View
    /\ error \in BOOLEAN
    /\ timer \in BOOLEAN
    /\ reads \in SUBSET [issue : 1 .. issued, answer : View \cup {Waiting}]
    /\ activity \in 0 .. MaxActivity
    /\ faults \in 0 .. MaxFaults
    /\ issued \in Nat
    /\ settled \in 0 .. issued
    /\ shown \in 0 .. settled
    /\ answered \in View
    /\ announced \in View

\* The dashboard mounts: it asks for the state and opens the socket.
Init ==
    /\ truth = NoRows
    /\ unsent = {}
    /\ online = FALSE
    /\ channel = <<>>
    /\ connection = "connecting"
    /\ rows = NoRows
    /\ error = FALSE
    /\ timer = FALSE
    /\ reads = {[issue |-> 1, answer |-> Waiting]}
    /\ activity = 0
    /\ faults = 0
    /\ issued = 1
    /\ settled = 0
    /\ shown = 0
    /\ answered = NoRows
    /\ announced = NoRows

----------------------------------------------------------------------------
(* The server                                                              *)

Later(a, b) == IF a > b THEN a ELSE b

\* Ingestion or a worker commits a change; its message follows later.
CommitChange(e) ==
    /\ activity < MaxActivity
    /\ activity' = activity + 1
    /\ truth' = [truth EXCEPT ![e] = @ + 1]
    /\ unsent' = unsent \cup {[event |-> e, version |-> truth[e] + 1]}
    /\ UNCHANGED <<online, channel, client, reads, faults, issued, history>>

\* A message without a change: a duplicate submission shows the status that
\* was read; the receiver's messages show none.
NoteActivity(m) ==
    /\ activity < MaxActivity
    /\ activity' = activity + 1
    /\ m.version = IF m.event \in Events THEN truth[m.event] ELSE 0
    /\ unsent' = unsent \cup {m}
    /\ UNCHANGED <<truth, online, channel, client, reads, faults, issued, history>>

\* RealtimeGateway.publish: a message reaches whoever is connected.
Publish(m) ==
    /\ m \in unsent
    /\ unsent' = unsent \ {m}
    /\ channel' = IF online THEN Append(channel, m) ELSE channel
    /\ announced' = IF online /\ m.event \in Events
                    THEN [announced EXCEPT ![m.event] = Later(@, m.version)]
                    ELSE announced
    /\ UNCHANGED <<truth, online, activity, client, reads, faults, issued,
                   settled, shown, answered>>

\* The emit throws, or what precedes it does: RealtimePublisher swallows it.
PublishFails(m) ==
    /\ m \in unsent
    /\ faults < MaxFaults
    /\ faults' = faults + 1
    /\ unsent' = unsent \ {m}
    /\ UNCHANGED <<truth, online, activity, channel, client, reads, issued, history>>

\* EventsService.list answers one of the refreshes in flight.
ServeRead(r) ==
    /\ r \in reads
    /\ r.answer = Waiting
    /\ reads' = (reads \ {r}) \cup {[r EXCEPT !.answer = truth]}
    /\ UNCHANGED <<server, channel, client, faults, issued, history>>

----------------------------------------------------------------------------
(* The connection                                                          *)

\* The socket is (re)connected; the dashboard learns it from the handshake.
Connect ==
    /\ ~online
    /\ online' = TRUE
    /\ channel' = <<Connected>>
    /\ announced' = truth
    /\ UNCHANGED <<truth, unsent, activity, client, reads, faults, issued,
                   settled, shown, answered>>

\* The connection is lost, with the messages on their way.
Disconnect ==
    /\ online
    /\ faults < MaxFaults
    /\ faults' = faults + 1
    /\ online' = FALSE
    /\ channel' = <<>>
    /\ connection' = "offline"
    /\ UNCHANGED <<truth, unsent, activity, rows, error, timer, reads, issued, history>>

\* The server restarts: its unpublished messages and its requests are lost too.
ServerDies ==
    /\ faults < MaxFaults
    /\ faults' = faults + 1
    /\ unsent' = {}
    /\ online' = FALSE
    /\ channel' = <<>>
    /\ connection' = "offline"
    /\ reads' = {}
    /\ error' = (error \/ reads # {})
    /\ settled' = IF reads = {} THEN settled ELSE issued
    /\ UNCHANGED <<truth, activity, rows, timer, issued, shown, answered, announced>>

----------------------------------------------------------------------------
(* The dashboard                                                           *)

\* refresh(): one more read in flight, whatever others there are.
Refresh == /\ issued' = issued + 1
           /\ reads' = reads \cup {[issue |-> issued + 1, answer |-> Waiting]}

\* The 'connect' handler.
OnConnect ==
    /\ channel # <<>>
    /\ Head(channel) = Connected
    /\ channel' = Tail(channel)
    /\ connection' = "live"
    /\ Refresh
    /\ UNCHANGED <<server, rows, error, timer, faults, history>>

\* Paint the row of the message, if there is one and it shows a status.
applyOptimisticPatch(m) ==
    rows' = IF m.event \in Events /\ rows[m.event] # 0
            THEN [rows EXCEPT ![m.event] = m.version] ELSE rows

\* Mutant: no reconciliation while a refresh is in flight already.
OnActivity_Coalesced ==
    /\ channel # <<>>
    /\ Head(channel) # Connected
    /\ channel' = Tail(channel)
    /\ applyOptimisticPatch(Head(channel))
    /\ timer' = (timer \/ reads = {})
    /\ UNCHANGED <<server, connection, error, reads, faults, issued, history>>

\* Mutant: the patch is taken for the new state.
OnActivity_PatchOnly ==
    /\ channel # <<>>
    /\ Head(channel) # Connected
    /\ channel' = Tail(channel)
    /\ applyOptimisticPatch(Head(channel))
    /\ UNCHANGED <<server, connection, error, timer, reads, faults, issued, history>>

\* The 'activity' handler: the timer is set, or set again.
OnActivity ==
    /\ channel # <<>>
    /\ Head(channel) # Connected
    /\ channel' = Tail(channel)
    /\ applyOptimisticPatch(Head(channel))
    /\ timer' = TRUE
    /\ UNCHANGED <<server, connection, error, reads, faults, issued, history>>

\* RECONCILE_DEBOUNCE_MS without a message.
Reconcile ==
    /\ timer
    /\ timer' = FALSE
    /\ Refresh
    /\ UNCHANGED <<server, channel, connection, rows, error, faults, history>>

\* Mutant: the requests are not awaited.
RefreshAnswered_NotAwaited(r) ==
    /\ r \in reads
    /\ reads' = reads \ {r}
    /\ rows' = r.answer
    /\ error' = FALSE
    /\ settled' = Later(settled, r.issue)
    /\ shown' = r.issue
    /\ answered' = r.answer
    /\ UNCHANGED <<server, channel, connection, timer, faults, issued, announced>>

\* The answers of a refresh are there, in the order they happen to arrive.
RefreshAnswered(r) ==
    /\ r \in reads
    /\ r.answer # Waiting
    /\ reads' = reads \ {r}
    /\ rows' = r.answer
    /\ error' = FALSE
    /\ settled' = Later(settled, r.issue)
    /\ shown' = r.issue
    /\ answered' = r.answer
    /\ UNCHANGED <<server, channel, connection, timer, faults, issued, announced>>

\* A refresh fails: the rows stay, the error is shown.
RefreshFails(r) ==
    /\ r \in reads
    /\ faults < MaxFaults
    /\ faults' = faults + 1
    /\ reads' = reads \ {r}
    /\ error' = TRUE
    /\ settled' = Later(settled, r.issue)
    /\ UNCHANGED <<server, channel, connection, rows, timer, issued, shown,
                   answered, announced>>

----------------------------------------------------------------------------
Serve == \/ \E e \in Events : CommitChange(e)
         \/ \E m \in Message : NoteActivity(m) \/ Publish(m) \/ PublishFails(m)
         \/ \E r \in reads : ServeRead(r)

Wire == Connect \/ Disconnect \/ ServerDies

React == \/ OnConnect
         \/ OnActivity
         \/ Reconcile
         \/ \E r \in reads : RefreshAnswered(r) \/ RefreshFails(r)

Next == Serve \/ Wire \/ React

Spec == Init /\ [][Next]_vars

\* What goes on by itself: messages and requests are handled, answers arrive,
\* and the timer fires once 250 ms have passed without a message.
Proceed == \/ \E m \in unsent : Publish(m)
           \/ \E r \in reads : ServeRead(r) \/ RefreshAnswered(r)
           \/ OnConnect
           \/ OnActivity
           \/ Reconcile

FairSpec == Spec /\ WF_vars(Proceed)

----------------------------------------------------------------------------
\* Nothing is on its way to the dashboard and it is about to ask nothing.
Quiet == /\ unsent = {}
         /\ online
         /\ channel = <<>>
         /\ ~timer
         /\ reads = {}

\* The answer of an older refresh arrived after a newer one had ended.
Overtaken == shown < settled /\ ~error

\* The dashboard is never behind what it was told: once it is quiet and shows
\* no error, and unless an old answer arrived last, each row is as recent as
\* the last message about it and the state of the engine when it connected.
\* Messages that were lost are made up for by the read after the reconnect.
NeverBehind ==
    Quiet /\ ~error /\ ~Overtaken => \A e \in Events : rows[e] >= announced[e]

\* A patched row is provisional: as long as the list shows anything but what
\* was last read, a read that overwrites it is coming, or an error is shown.
PatchIsProvisional ==
    rows # answered => \/ timer
                       \/ reads # {}
                       \/ error

\* The patch does not stay: what was painted is replaced by what was read, or an
\* error is shown, although every message sets the timer of the reconciliation
\* back.  The messages have to pause for that, and MaxActivity makes them: under
\* traffic that leaves no 250 ms without a message the code never reads.
PatchIsReconciled == rows # answered ~> rows = answered \/ error

\* The dashboard is told of committed changes only, and the refresh issued last
\* knows what it was told, unless another one is about to be issued: the
\* inductive invariant behind NeverBehind.
Knows(view) == \A e \in Events : view[e] >= announced[e]

OneReadEach == \A q, r \in reads : q.issue = r.issue => q = r

LastRefreshKnows ==
    /\ OneReadEach
    /\ Knows(truth)
    /\ \A m \in unsent : m.event \in Events => truth[m.event] >= m.version
    /\ \A r \in reads : r.issue \notin {shown, settled}
    /\ online /\ channel = <<>> /\ ~timer =>
         \/ \E r \in reads : r.issue = issued /\ (r.answer = Waiting \/ Knows(r.answer))
         \/ settled = issued /\ (shown = issued => Knows(answered))

\* "a dropped connection can only ever cost liveness, never correctness"
\* (useEngineState.ts): with nothing on its way, the list is the engine's.
QuietIsCurrent == Quiet /\ ~error => rows = truth
=============================================================================
