----------------------------- MODULE Statistics -----------------------------
(***************************************************************************)
(* The statistics of the dashboard: DashboardService reads its aggregates  *)
(* by several queries without a snapshot, once per audited burst of        *)
(* activity for everybody and once per GET /dashboard/stats, and a         *)
(* dashboard shows whichever result reaches it last.                       *)
(*                                                                         *)
(* A figure is abstracted to the number of changes it has been through.    *)
(* The dashboard stays connected here; Dashboard has what it does when it  *)
(* does not.                                                               *)
(***************************************************************************)
EXTENDS Integers, Sequences

CONSTANTS Figures,      \* what the queries of getStats count, one figure each
          MaxChanges,   \* bound on the changes of the database
          MaxRequests,  \* bound on GET /dashboard/stats
          MaxFaults     \* bound on failed publications and readings

ASSUME StatisticsAssumption == /\ MaxChanges \in Nat
                               /\ MaxRequests \in Nat
                               /\ MaxFaults \in Nat

VARIABLES
    truth,        \* the figures in the database
    unpublished,  \* changes whose message is still to be published
    window,       \* auditTime(250) has seen a message and waits
    readings,     \* the calls of getStats in progress
    socket,       \* broadcasts on their way to the dashboard
    shown,        \* the statistics the dashboard shows
    changes, requests, faults,  \* so far, for the bounds
    issued,       \* history: the calls of getStats so far
    shownIssue,   \* history: the one that is shown
    told          \* history: the figures when a message was last published

database == <<truth, unpublished, changes>>
client   == <<shown, shownIssue>>
vars     == <<database, window, readings, socket, client, requests, faults,
              issued, told>>

Stats == [Figures -> Nat]

NoStats == [f \in Figures |-> 0]

\* What a query that is not answered yet has returned.
Pending == -1

\* A call of getStats and the figures that its queries have returned so far.
Reading == [issue : Nat, by : {"broadcast", "request"},
            got : [Figures -> Nat \cup {Pending}]]

\* A broadcast on its way.
Snapshot == [issue : Nat, got : Stats]

\* The type invariant.
TypeOK ==
    /\ truth \in Stats
    /\ unpublished \in 0 .. changes
    /\ window \in BOOLEAN
    /\ readings \in SUBSET Reading
    /\ socket \in Seq(Snapshot)
    /\ shown \in Stats
    /\ changes \in 0 .. MaxChanges
    /\ requests \in 0 .. MaxRequests
    /\ faults \in 0 .. MaxFaults
    /\ issued \in Nat
    /\ shownIssue \in Nat
    /\ told \in Stats

Init ==
    /\ truth = NoStats
    /\ unpublished = 0
    /\ window = FALSE
    /\ readings = {}
    /\ socket = <<>>
    /\ shown = NoStats
    /\ changes = 0
    /\ requests = 0
    /\ faults = 0
    /\ issued = 0
    /\ shownIssue = 0
    /\ told = NoStats

----------------------------------------------------------------------------
(* The engine                                                              *)

\* A write of the engine changes some of the figures; its message follows.
Change(F) ==
    /\ changes < MaxChanges
    /\ changes' = changes + 1
    /\ truth' = [f \in Figures |-> IF f \in F THEN truth[f] + 1 ELSE truth[f]]
    /\ unpublished' = unpublished + 1
    /\ UNCHANGED <<window, readings, socket, client, requests, faults, issued, told>>

Told == /\ unpublished > 0
        /\ unpublished' = unpublished - 1
        /\ told' = truth
        /\ UNCHANGED <<truth, changes>>

\* Mutant: exhaustMap, which ignores the messages that arrive during a reading.
Publish_Exhaust ==
    /\ Told
    /\ window' = (window \/ readings = {})
    /\ UNCHANGED <<readings, socket, client, requests, faults, issued>>

\* RealtimeGateway.publish reaches activity$: the first message of a burst
\* starts the 250 ms, the others fall into them.
Publish ==
    /\ Told
    /\ window' = TRUE
    /\ UNCHANGED <<readings, socket, client, requests, faults, issued>>

\* An emit throws before activity$.next: the publisher swallows the error.
PublishFails ==
    /\ unpublished > 0
    /\ unpublished' = unpublished - 1
    /\ faults < MaxFaults
    /\ faults' = faults + 1
    /\ UNCHANGED <<truth, changes, window, readings, socket, client, requests,
                   issued, told>>

----------------------------------------------------------------------------
(* getStats                                                                *)

Start(by) ==
    /\ issued' = issued + 1
    /\ readings' = readings \cup
         {[issue |-> issued + 1, by |-> by, got |-> [f \in Figures |-> Pending]]}

\* Mutant: no new reading while one is in progress.
AuditElapses_Coalesced ==
    /\ window
    /\ window' = FALSE
    /\ IF readings = {} THEN Start("broadcast") ELSE UNCHANGED <<readings, issued>>
    /\ UNCHANGED <<database, socket, client, requests, faults, told>>

\* The 250 ms are over, however many messages there were: broadcast().
AuditElapses ==
    /\ window
    /\ window' = FALSE
    /\ Start("broadcast")
    /\ UNCHANGED <<database, socket, client, requests, faults, told>>

\* A dashboard asks for the statistics.
Request ==
    /\ requests < MaxRequests
    /\ requests' = requests + 1
    /\ Start("request")
    /\ UNCHANGED <<database, window, socket, client, faults, told>>

\* One of the queries is answered.
Query(r, f) ==
    /\ r \in readings
    /\ r.got[f] = Pending
    /\ readings' = (readings \ {r}) \cup {[r EXCEPT !.got[f] = truth[f]]}
    /\ UNCHANGED <<database, window, socket, client, requests, faults, issued, told>>

\* Promise.all is fulfilled.
Complete(r) == r \in readings /\ \A f \in Figures : r.got[f] # Pending

\* Mutant: the first query to answer is enough.
Broadcast_NotAwaited(r) ==
    /\ r \in readings
    /\ r.by = "broadcast"
    /\ \E f \in Figures : r.got[f] # Pending
    /\ readings' = readings \ {r}
    /\ socket' = Append(socket, [issue |-> r.issue, got |-> r.got])
    /\ UNCHANGED <<database, window, client, requests, faults, issued, told>>

\* broadcast() sends the aggregates to whoever is connected.
Broadcast(r) ==
    /\ Complete(r)
    /\ r.by = "broadcast"
    /\ readings' = readings \ {r}
    /\ socket' = Append(socket, [issue |-> r.issue, got |-> r.got])
    /\ UNCHANGED <<database, window, client, requests, faults, issued, told>>

\* A query throws: a broadcast is skipped, a request gets an error.
ReadingFails(r) ==
    /\ r \in readings
    /\ readings' = readings \ {r}
    /\ faults < MaxFaults
    /\ faults' = faults + 1
    /\ UNCHANGED <<database, window, socket, client, requests, issued, told>>

----------------------------------------------------------------------------
(* The dashboard                                                           *)

\* The 'stats' handler.
ShowBroadcast ==
    /\ socket # <<>>
    /\ socket' = Tail(socket)
    /\ shown' = Head(socket).got
    /\ shownIssue' = Head(socket).issue
    /\ UNCHANGED <<database, window, readings, requests, faults, issued, told>>

\* refresh() receives the answer to its request.
ShowAnswer(r) ==
    /\ Complete(r)
    /\ r.by = "request"
    /\ readings' = readings \ {r}
    /\ shown' = r.got
    /\ shownIssue' = r.issue
    /\ UNCHANGED <<database, window, socket, requests, faults, issued, told>>

----------------------------------------------------------------------------
\* What the program does of itself, once something is to be done.
Proceed == \/ Publish
           \/ AuditElapses
           \/ \E r \in readings : \/ \E f \in Figures : Query(r, f)
                                  \/ Broadcast(r)
                                  \/ ShowAnswer(r)
           \/ ShowBroadcast

Next == \/ \E F \in SUBSET Figures \ {{}} : Change(F)
        \/ Request
        \/ Proceed
        \/ PublishFails
        \/ \E r \in readings : ReadingFails(r)

Spec == Init /\ [][Next]_vars

\* Timers fire, queries are answered and sockets deliver.
FairSpec == Spec /\ WF_vars(Proceed)

----------------------------------------------------------------------------
\* Nothing is on its way to the dashboard, and nothing is about to be.
Quiet == /\ unpublished = 0
         /\ ~window
         /\ readings = {}
         /\ socket = <<>>

\* The statistics catch up: although a reading is no snapshot and the last
\* message of a burst falls into a window that an earlier one opened, the
\* dashboard shows every figure as recent as the last message, and exactly the
\* database if nothing has failed, unless the reading that was issued last
\* failed or was overtaken by an older one.
StatsCatchUp ==
    Quiet /\ shownIssue = issued =>
        /\ \A f \in Figures : shown[f] >= told[f]
        /\ faults = 0 => shown = truth

\* A burst cannot put the statistics off, however it overlaps with requests:
\* whatever a message told of is shown at some time, if nothing fails ("It also pushes a fresh
\* snapshot whenever the engine emits activity", dashboard.service.ts).
EveryMessageIsShown ==
    \A f \in Figures : \A v \in 1 .. MaxChanges :
        <>(told[f] >= v) => <>(shown[f] >= v \/ faults > 0)

\* The inductive invariant behind StatsCatchUp.
AtLeastTold(got) == \A f \in Figures : got[f] # Pending => got[f] >= told[f]

AtMostTrue(got) == \A f \in Figures : got[f] <= truth[f]

\* Nothing is from a call that was not made.
IssuesCounted ==
    /\ shownIssue <= issued
    /\ \A r \in readings : r.issue <= issued
    /\ \A i \in 1 .. Len(socket) : socket[i].issue <= issued

\* Figures only grow: whatever was read is not ahead of the database.
NothingAhead ==
    /\ AtMostTrue(told)
    /\ AtMostTrue(shown)
    /\ \A r \in readings : AtMostTrue(r.got)
    /\ \A i \in 1 .. Len(socket) : AtMostTrue(socket[i].got)

\* What no message told of is still to be published, or its publication failed.
MessagesFollow == unpublished = 0 /\ faults = 0 => told = truth

\* Outside of a window, the reading issued last is of no figure behind the
\* last message, wherever it is.
LastReadingKnows ==
    ~window =>
        /\ shownIssue = issued => AtLeastTold(shown)
        /\ \A r \in readings : r.issue = issued => AtLeastTold(r.got)
        /\ \A i \in 1 .. Len(socket) :
               socket[i].issue = issued => AtLeastTold(socket[i].got)

StatsInv == IssuesCounted /\ NothingAhead /\ MessagesFollow /\ LastReadingKnows
=============================================================================
