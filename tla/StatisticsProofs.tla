-------------------------- MODULE StatisticsProofs --------------------------
(***************************************************************************)
(* Proofs of the type invariant of Statistics and of StatsCatchUp, for any *)
(* set of figures, any number of changes and any faults.                   *)
(***************************************************************************)
EXTENDS Statistics, TLAPS

----------------------------------------------------------------------------
(* Helpers                                                                 *)

\* What the dashboard receives over the socket is a snapshot.
LEMMA HeadIsSnapshot ==
    ASSUME NEW s \in Seq(Snapshot), s # <<>>
    PROVE  Head(s) \in Snapshot /\ Tail(s) \in Seq(Snapshot)
OBVIOUS

\* So is everything else on its way there.
LEMMA SocketOfSnapshots ==
    TypeOK => \A i \in 1 .. Len(socket) : socket[i] \in Snapshot
BY DEF TypeOK

\* One more call of getStats joins the readings, with nothing answered yet.
LEMMA Starting ==
    ASSUME TypeOK, NEW by \in {"broadcast", "request"}, Start(by)
    PROVE  /\ issued' = issued + 1
           /\ \E new \in Reading :
                /\ readings' = readings \cup {new}
                /\ new.issue = issued'
                /\ \A f \in Figures : new.got[f] = Pending
<1> DEFINE got == [f \in Figures |-> Pending]
           new == [issue |-> issued + 1, by |-> by, got |-> got]
<1>1. got \in [Figures -> Nat \cup {Pending}] /\ issued + 1 \in Nat
  BY DEF TypeOK
<1>2. new \in Reading
  BY <1>1 DEF Reading
<1>3. readings' = readings \cup {new} /\ issued' = issued + 1
  BY DEF Start
<1>4. QED
  BY <1>2, <1>3

\* A query adds one figure to a reading, and that figure is the database's.
LEMMA Querying ==
    ASSUME TypeOK, NEW r \in readings, NEW f \in Figures, Query(r, f)
    PROVE  \E q \in Reading :
             /\ readings' = (readings \ {r}) \cup {q}
             /\ q.issue = r.issue
             /\ q.got = [r.got EXCEPT ![f] = truth[f]]
<1> DEFINE q == [r EXCEPT !.got[f] = truth[f]]
<1>1. r \in Reading /\ truth[f] \in Nat
  BY DEF TypeOK, Stats
<1>2. q \in Reading /\ q.issue = r.issue /\ q.got = [r.got EXCEPT ![f] = truth[f]]
  BY <1>1 DEF Reading
<1>3. QED
  BY <1>2 DEF Query

\* A complete reading is a whole set of figures.
LEMMA CompleteIsStats ==
    ASSUME TypeOK, NEW r, Complete(r)
    PROVE  r \in readings /\ r.got \in Stats /\ r.issue \in Nat
BY DEF Complete, TypeOK, Reading, Stats

----------------------------------------------------------------------------
(* Types                                                                   *)

\* Every step keeps the types.
LEMMA TypeStep == TypeOK /\ [Next]_vars => TypeOK'
<1> SUFFICES ASSUME TypeOK, [Next]_vars PROVE TypeOK'
  OBVIOUS
<1> USE StatisticsAssumption DEF database, client
<1>1. ASSUME NEW F \in SUBSET Figures, Change(F) PROVE TypeOK'
  BY <1>1 DEF Change, TypeOK, Stats
<1>2. CASE Request
  <2>1. Start("request") /\ UNCHANGED <<database, window, socket, client, faults, told>>
    BY <1>2 DEF Request
  <2>2. requests' \in 0 .. MaxRequests
    BY <1>2 DEF Request, TypeOK
  <2>3. QED
    BY <2>1, <2>2, Starting DEF TypeOK
<1>3. CASE Publish
  BY <1>3 DEF Publish, Told, TypeOK
<1>4. CASE AuditElapses
  <2>1. /\ Start("broadcast") /\ window' = FALSE
        /\ UNCHANGED <<database, socket, client, requests, faults, told>>
    BY <1>4 DEF AuditElapses
  <2>2. readings' \in SUBSET Reading /\ issued' \in Nat
    BY <2>1, Starting DEF TypeOK
  <2>3. QED
    BY <2>1, <2>2 DEF TypeOK
<1>5. ASSUME NEW r \in readings, NEW f \in Figures, Query(r, f) PROVE TypeOK'
  <2>1. readings' \in SUBSET Reading
    BY <1>5, Querying DEF TypeOK
  <2>2. QED
    BY <1>5, <2>1 DEF Query, TypeOK
<1>6. ASSUME NEW r \in readings, Broadcast(r) PROVE TypeOK'
  <2>1. [issue |-> r.issue, got |-> r.got] \in Snapshot
    BY <1>6, CompleteIsStats DEF Broadcast, Snapshot
  <2>2. QED
    BY <1>6, <2>1 DEF Broadcast, TypeOK
<1>7. ASSUME NEW r \in readings, ShowAnswer(r) PROVE TypeOK'
  <2>1. r.got \in Stats /\ r.issue \in Nat
    BY <1>7, CompleteIsStats DEF ShowAnswer
  <2>2. QED
    BY <1>7, <2>1 DEF ShowAnswer, TypeOK
<1>8. CASE ShowBroadcast
  <2>1. Head(socket) \in Snapshot /\ Tail(socket) \in Seq(Snapshot)
    BY <1>8, HeadIsSnapshot DEF ShowBroadcast, TypeOK
  <2>2. QED
    BY <1>8, <2>1 DEF ShowBroadcast, TypeOK, Snapshot
<1>9. CASE PublishFails
  BY <1>9 DEF PublishFails, TypeOK
<1>10. ASSUME NEW r \in readings, ReadingFails(r) PROVE TypeOK'
  BY <1>10 DEF ReadingFails, TypeOK
<1>11. CASE UNCHANGED vars
  BY <1>11 DEF vars, TypeOK
<1>12. QED
  BY <1>1, <1>2, <1>3, <1>4, <1>5, <1>6, <1>7, <1>8, <1>9, <1>10, <1>11
  DEF Next, Proceed

\* Every variable keeps its type.
THEOREM StatisticsTypeCorrect == Spec => []TypeOK
<1>1. Init => TypeOK
  <2>1. NoStats \in Stats
    BY DEF NoStats, Stats
  <2>2. <<>> \in Seq(Snapshot) /\ {} \in SUBSET Reading
    OBVIOUS
  <2>3. 0 \in 0 .. MaxChanges /\ 0 \in 0 .. MaxRequests /\ 0 \in 0 .. MaxFaults
    BY StatisticsAssumption
  <2>4. 0 \in Nat /\ 0 \in 0 .. 0 /\ FALSE \in BOOLEAN
    OBVIOUS
  <2> SUFFICES ASSUME Init PROVE TypeOK
    OBVIOUS
  <2>5. truth \in Stats /\ shown \in Stats /\ told \in Stats
    BY <2>1 DEF Init
  <2>6. unpublished \in 0 .. changes
    BY <2>4 DEF Init
  <2>7. QED
    BY <2>2, <2>3, <2>4, <2>5, <2>6 DEF Init, TypeOK
<1>2. QED
  BY <1>1, TypeStep, PTL DEF Spec

----------------------------------------------------------------------------
(* The last reading                                                        *)

\* A step that makes no reading, publishes nothing and shows nothing keeps the
\* invariant, when the readings only become fewer.
LEMMA FewerReadings ==
    ASSUME TypeOK, StatsInv,
           readings' \subseteq readings, socket' = socket, shown' = shown,
           shownIssue' = shownIssue, issued' = issued, told' = told,
           truth' = truth, window' = window, MessagesFollow'
    PROVE  StatsInv'
BY DEF StatsInv, IssuesCounted, NothingAhead, LastReadingKnows, AtMostTrue, AtLeastTold

\* A call of getStats, with or without a window that ends: nothing that is
\* read or shown already is the last reading any more.
LEMMA StartKeeps ==
    ASSUME TypeOK, StatsInv, NEW by \in {"broadcast", "request"}, Start(by),
           UNCHANGED <<database, socket, client, faults, told>>
    PROVE  StatsInv'
<1> USE DEF database, client
<1>1. PICK new \in Reading :
        /\ readings' = readings \cup {new}
        /\ new.issue = issued'
        /\ \A f \in Figures : new.got[f] = Pending
  BY Starting
<1>2. issued' = issued + 1 /\ issued \in Nat /\ shownIssue \in Nat
  BY Starting DEF TypeOK
<1>3. \A r \in readings : r.issue \in Nat
  BY DEF TypeOK, Reading
<1>4. \A i \in 1 .. Len(socket) : socket[i].issue \in Nat
  BY SocketOfSnapshots DEF Snapshot
<1>5. IssuesCounted'
  BY <1>1, <1>2, <1>3, <1>4 DEF StatsInv, IssuesCounted
<1>6. NothingAhead'
  <2>1. \A f \in Figures : Pending <= truth[f]
    BY DEF TypeOK, Stats, Pending
  <2>2. QED
    BY <1>1, <2>1 DEF StatsInv, NothingAhead, AtMostTrue
<1>7. LastReadingKnows'
  <2>1. shownIssue' # issued'
    BY <1>2 DEF StatsInv, IssuesCounted
  <2>2. \A r \in readings : r.issue # issued'
    BY <1>2, <1>3 DEF StatsInv, IssuesCounted
  <2>3. \A i \in 1 .. Len(socket) : socket[i].issue # issued'
    BY <1>2, <1>4 DEF StatsInv, IssuesCounted
  <2>4. QED
    BY <1>1, <2>1, <2>2, <2>3 DEF LastReadingKnows, AtLeastTold
<1>8. MessagesFollow'
  BY DEF StatsInv, MessagesFollow
<1>9. QED
  BY <1>5, <1>6, <1>7, <1>8 DEF StatsInv

\* Every step keeps the invariant.
LEMMA StatsStep == TypeOK /\ StatsInv /\ [Next]_vars => StatsInv'
<1> SUFFICES ASSUME TypeOK, StatsInv, [Next]_vars PROVE StatsInv'
  OBVIOUS
<1> USE DEF database, client
<1>1. ASSUME NEW F \in SUBSET Figures, Change(F) PROVE StatsInv'
  <2>1. \A f \in Figures : truth[f] \in Nat /\ truth'[f] \in Nat /\ truth[f] <= truth'[f]
    BY <1>1 DEF Change, TypeOK, Stats
  <2>2. ASSUME NEW got, \A f \in Figures : got[f] \in Nat \cup {Pending}, AtMostTrue(got)
        PROVE  \A f \in Figures : got[f] <= truth'[f]
    <3>1. \A f \in Figures : got[f] \in Int
      BY <2>2 DEF Pending
    <3>2. QED
      BY <2>1, <2>2, <3>1 DEF AtMostTrue
  <2>3. NothingAhead'
    <3>1. \A f \in Figures : told[f] \in Nat /\ shown[f] \in Nat
      BY DEF TypeOK, Stats
    <3>2. \A r \in readings : \A f \in Figures : r.got[f] \in Nat \cup {Pending}
      BY DEF TypeOK, Reading
    <3>3. ASSUME NEW i \in 1 .. Len(socket), NEW f \in Figures
          PROVE  socket[i].got[f] \in Nat
      BY SocketOfSnapshots DEF Snapshot, Stats
    <3>4. /\ told' = told
          /\ shown' = shown
          /\ readings' = readings
          /\ socket' = socket
      BY <1>1 DEF Change
    <3>5. \A f \in Figures : told[f] <= truth'[f] /\ shown[f] <= truth'[f]
      BY <2>2, <3>1 DEF StatsInv, NothingAhead
    <3>6. \A r \in readings : \A f \in Figures : r.got[f] <= truth'[f]
      BY <2>2, <3>2 DEF StatsInv, NothingAhead
    <3>7. \A i \in 1 .. Len(socket) : \A f \in Figures : socket[i].got[f] <= truth'[f]
      BY <2>2, <3>3 DEF StatsInv, NothingAhead
    <3>8. QED
      BY <3>4, <3>5, <3>6, <3>7 DEF NothingAhead, AtMostTrue
  <2>4. MessagesFollow'
    BY <1>1 DEF Change, TypeOK, MessagesFollow
  <2>5. IssuesCounted' /\ LastReadingKnows'
    BY <1>1 DEF Change, StatsInv, IssuesCounted, LastReadingKnows, AtLeastTold
  <2>6. QED
    BY <2>3, <2>4, <2>5 DEF StatsInv
<1>2. CASE Request
  BY <1>2, StartKeeps DEF Request
<1>3. CASE Publish
  <2>1. IssuesCounted' /\ LastReadingKnows'
    BY <1>3 DEF Publish, Told, StatsInv, IssuesCounted, LastReadingKnows
  <2>2. \A f \in Figures : truth[f] <= truth[f]
    BY DEF TypeOK, Stats
  <2>3. NothingAhead' /\ MessagesFollow'
    BY <1>3, <2>2 DEF Publish, Told, StatsInv, NothingAhead, MessagesFollow, AtMostTrue
  <2>4. QED
    BY <2>1, <2>3 DEF StatsInv
<1>4. CASE AuditElapses
  BY <1>4, StartKeeps DEF AuditElapses
<1>5. ASSUME NEW r \in readings, NEW f \in Figures, Query(r, f) PROVE StatsInv'
  <2>1. PICK q \in Reading :
          /\ readings' = (readings \ {r}) \cup {q}
          /\ q.issue = r.issue
          /\ q.got = [r.got EXCEPT ![f] = truth[f]]
    BY <1>5, Querying
  <2>2. /\ UNCHANGED <<truth, socket, shown, shownIssue, issued, told, window>>
        /\ MessagesFollow'
    BY <1>5 DEF Query, StatsInv, MessagesFollow
  <2>3. \A g \in Figures : q.got[g] = IF g = f THEN truth[f] ELSE r.got[g]
    BY <2>1 DEF TypeOK, Reading
  <2>4. AtMostTrue(q.got)
    <3>1. AtMostTrue(r.got)
      BY DEF StatsInv, NothingAhead
    <3>2. truth[f] <= truth[f]
      BY DEF TypeOK, Stats
    <3>3. QED
      BY <2>3, <3>1, <3>2 DEF AtMostTrue
  <2>5. AtLeastTold(r.got) => AtLeastTold(q.got)
    BY <2>3 DEF StatsInv, NothingAhead, AtMostTrue, AtLeastTold, TypeOK, Stats
  <2>6. IssuesCounted'
    BY <2>1, <2>2 DEF StatsInv, IssuesCounted
  <2>7. NothingAhead'
    BY <2>1, <2>2, <2>4 DEF StatsInv, NothingAhead, AtMostTrue
  <2>8. LastReadingKnows'
    BY <2>1, <2>2, <2>5 DEF StatsInv, LastReadingKnows, AtLeastTold
  <2>9. QED
    BY <2>2, <2>6, <2>7, <2>8 DEF StatsInv
<1>6. ASSUME NEW r \in readings, Broadcast(r) PROVE StatsInv'
  <2> DEFINE snapshot == [issue |-> r.issue, got |-> r.got]
  <2>1. /\ readings' = readings \ {r}
        /\ socket' = Append(socket, snapshot)
        /\ UNCHANGED <<truth, shown, shownIssue, issued, told, window>>
        /\ MessagesFollow'
    BY <1>6 DEF Broadcast, StatsInv, MessagesFollow
  <2>2. /\ Len(socket') = Len(socket) + 1
        /\ Len(socket) \in Nat
        /\ \A i \in 1 .. Len(socket') :
             socket'[i] = IF i = Len(socket) + 1 THEN snapshot ELSE socket[i]
    BY <2>1 DEF TypeOK
  <2>3. \A i \in 1 .. Len(socket') : i \in 1 .. Len(socket) \/ socket'[i] = snapshot
    BY <2>2
  <2>4. \A i \in 1 .. Len(socket') : i \in 1 .. Len(socket) => socket'[i] = socket[i]
    BY <2>2
  <2>5. IssuesCounted'
    BY <2>1, <2>3, <2>4 DEF StatsInv, IssuesCounted
  <2>6. NothingAhead'
    BY <2>1, <2>3, <2>4 DEF StatsInv, NothingAhead, AtMostTrue
  <2>7. LastReadingKnows'
    BY <2>1, <2>3, <2>4 DEF StatsInv, LastReadingKnows, AtLeastTold
  <2>8. QED
    BY <2>1, <2>5, <2>6, <2>7 DEF StatsInv
<1>7. ASSUME NEW r \in readings, ShowAnswer(r) PROVE StatsInv'
  <2>1. /\ readings' = readings \ {r}
        /\ shown' = r.got
        /\ shownIssue' = r.issue
        /\ UNCHANGED <<truth, socket, issued, told, window>>
        /\ MessagesFollow'
    BY <1>7 DEF ShowAnswer, StatsInv, MessagesFollow
  <2>2. QED
    BY <2>1 DEF StatsInv, IssuesCounted, NothingAhead, LastReadingKnows, AtMostTrue, AtLeastTold
<1>8. CASE ShowBroadcast
  <2>1. /\ socket # <<>>
        /\ socket' = Tail(socket)
        /\ shown' = Head(socket).got
        /\ shownIssue' = Head(socket).issue
        /\ UNCHANGED <<truth, readings, issued, told, window>>
        /\ MessagesFollow'
    BY <1>8 DEF ShowBroadcast, StatsInv, MessagesFollow
  <2>2. /\ 1 \in 1 .. Len(socket)
        /\ Head(socket) = socket[1]
        /\ \A i \in 1 .. Len(socket') :
             i + 1 \in 1 .. Len(socket) /\ socket'[i] = socket[i + 1]
    BY <2>1 DEF TypeOK
  <2>3. IssuesCounted'
    BY <2>1, <2>2 DEF StatsInv, IssuesCounted
  <2>4. NothingAhead'
    BY <2>1, <2>2 DEF StatsInv, NothingAhead, AtMostTrue
  <2>5. LastReadingKnows'
    BY <2>1, <2>2 DEF StatsInv, LastReadingKnows, AtLeastTold
  <2>6. QED
    BY <2>1, <2>3, <2>4, <2>5 DEF StatsInv
<1>9. CASE PublishFails
  <2>1. MessagesFollow'
    BY <1>9 DEF PublishFails, TypeOK, MessagesFollow
  <2>2. QED
    BY <1>9, <2>1, FewerReadings DEF PublishFails
<1>10. ASSUME NEW r \in readings, ReadingFails(r) PROVE StatsInv'
  <2>1. MessagesFollow'
    BY <1>10 DEF ReadingFails, TypeOK, MessagesFollow
  <2>2. QED
    BY <1>10, <2>1, FewerReadings DEF ReadingFails
<1>11. CASE UNCHANGED vars
  <2>1. MessagesFollow'
    BY <1>11 DEF vars, StatsInv, MessagesFollow
  <2>2. QED
    BY <1>11, <2>1, FewerReadings DEF vars
<1>12. QED
  BY <1>1, <1>2, <1>3, <1>4, <1>5, <1>6, <1>7, <1>8, <1>9, <1>10, <1>11
  DEF Next, Proceed

\* The statistics catch up with the last message, and with the database when
\* nothing failed, for any figures, changes, requests and faults.
THEOREM StatsCatchUpAlways == Spec => []StatsCatchUp
<1>1. Init => StatsInv
  <2> SUFFICES ASSUME Init PROVE StatsInv
    OBVIOUS
  <2>1. \A f \in Figures : NoStats[f] = 0
    BY DEF NoStats
  <2>2. Len(socket) = 0
    BY DEF Init
  <2>3. QED
    BY <2>1, <2>2 DEF Init, StatsInv, IssuesCounted, NothingAhead, MessagesFollow,
                      LastReadingKnows, AtMostTrue, AtLeastTold
<1>2. TypeOK /\ StatsInv => StatsCatchUp
  <2> SUFFICES ASSUME TypeOK, StatsInv, Quiet, shownIssue = issued
               PROVE  /\ \A f \in Figures : shown[f] >= told[f]
                      /\ faults = 0 => shown = truth
    BY DEF StatsCatchUp
  <2>1. \A f \in Figures : shown[f] \in Nat /\ told[f] \in Nat /\ truth[f] \in Nat
    BY DEF TypeOK, Stats
  <2>2. AtLeastTold(shown) /\ AtMostTrue(shown)
    BY DEF StatsInv, LastReadingKnows, NothingAhead, Quiet
  <2>3. \A f \in Figures : shown[f] >= told[f]
    <3>1. ASSUME NEW f \in Figures PROVE shown[f] # Pending
      BY <2>1 DEF Pending
    <3>2. QED
      BY <3>1, <2>2 DEF AtLeastTold
  <2>4. ASSUME faults = 0 PROVE shown = truth
    <3>1. told = truth
      BY <2>4 DEF StatsInv, MessagesFollow, Quiet
    <3>2. \A f \in Figures : shown[f] >= truth[f] /\ shown[f] <= truth[f]
      BY <2>2, <2>3, <3>1 DEF AtMostTrue
    <3>3. ASSUME NEW f \in Figures PROVE shown[f] = truth[f]
      BY <2>1, <3>2
    <3>4. QED
      BY <3>3 DEF TypeOK, Stats
  <2>5. QED
    BY <2>3, <2>4
<1>3. QED
  BY <1>1, <1>2, StatisticsTypeCorrect, StatsStep, PTL DEF Spec
=============================================================================
