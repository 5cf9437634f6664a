-------------------------- MODULE DashboardProofs --------------------------
(***************************************************************************)
(* Proofs about Dashboard: however many refreshes, messages and faults     *)
(* overlap, the dashboard is never behind what it was told.                *)
(***************************************************************************)
EXTENDS Dashboard, TLAPS

----------------------------------------------------------------------------
(* Type correctness                                                        *)

\* A new refresh is one more of those issued.
LEMMA RefreshType ==
    ASSUME TypeOK, Refresh
    PROVE  /\ issued' \in Nat
           /\ settled \in 0 .. issued'
           /\ reads' \in SUBSET [issue : 1 .. issued', answer : View \cup {Waiting}]
<1>1. issued' = issued + 1 /\ issued \in Nat
  BY DEF TypeOK, Refresh
<1>2. 1 .. issued \subseteq 1 .. issued' /\ issued' \in 1 .. issued'
  BY <1>1
<1>3. [issue |-> issued + 1, answer |-> Waiting]
        \in [issue : 1 .. issued', answer : View \cup {Waiting}]
  BY <1>1, <1>2
<1>4. reads \subseteq [issue : 1 .. issued', answer : View \cup {Waiting}]
  BY <1>2 DEF TypeOK
<1>5. QED
  BY <1>1, <1>3, <1>4 DEF TypeOK, Refresh

\* The initial state is well typed.
LEMMA InitType == Init => TypeOK
<1> SUFFICES ASSUME Init PROVE TypeOK
  OBVIOUS
<1>1. NoRows \in View
  BY DashboardAssumption DEF NoRows, View
<1>2. reads \in SUBSET [issue : 1 .. issued, answer : View \cup {Waiting}]
  BY DEF Init
<1>3. channel \in Seq(Message \cup {Connected})
  BY DEF Init
<1>4. settled \in 0 .. issued /\ shown \in 0 .. settled /\ issued \in Nat
  BY DEF Init
<1>5. faults \in 0 .. MaxFaults /\ activity \in 0 .. MaxActivity
  BY DashboardAssumption DEF Init
<1>6. QED
  BY <1>1, <1>2, <1>3, <1>4, <1>5 DEF Init, TypeOK

\* Every step keeps the types, as long as no row is changed beyond the bound.
LEMMA TypeStep == TypeOK /\ (\A e \in Events : truth[e] <= activity) /\ [Next]_vars => TypeOK'
<1> SUFFICES ASSUME TypeOK, \A e \in Events : truth[e] <= activity, [Next]_vars
             PROVE  TypeOK'
  OBVIOUS
<1> USE DashboardAssumption DEF server, client, history
<1>1. ASSUME NEW e \in Events, CommitChange(e) PROVE TypeOK'
  <2>1. truth[e] + 1 \in 0 .. MaxActivity
    BY <1>1 DEF CommitChange, TypeOK, View
  <2>2. [event |-> e, version |-> truth[e] + 1] \in Message
    BY <2>1 DEF Message
  <2>3. QED
    BY <1>1, <2>1, <2>2 DEF CommitChange, TypeOK, View
<1>2. ASSUME NEW m \in Message, NoteActivity(m) PROVE TypeOK'
  BY <1>2 DEF NoteActivity, TypeOK
<1>3. ASSUME NEW m \in Message, Publish(m) PROVE TypeOK'
  <2>1. channel' \in Seq(Message \cup {Connected})
    BY <1>3 DEF Publish, TypeOK
  <2>2. announced' \in View
    BY <1>3 DEF Publish, TypeOK, View, Message, Later
  <2>3. QED
    BY <1>3, <2>1, <2>2 DEF Publish, TypeOK
<1>4. ASSUME NEW m \in Message, PublishFails(m) PROVE TypeOK'
  BY <1>4 DEF PublishFails, TypeOK
<1>5. ASSUME NEW r \in reads, ServeRead(r) PROVE TypeOK'
  <2>1. [r EXCEPT !.answer = truth] \in [issue : 1 .. issued, answer : View \cup {Waiting}]
    BY DEF TypeOK
  <2>2. QED
    BY <1>5, <2>1 DEF ServeRead, TypeOK
<1>6. CASE Connect
  BY <1>6 DEF Connect, TypeOK
<1>7. CASE Disconnect
  <2>1. channel' \in Seq(Message \cup {Connected})
    BY <1>7 DEF Disconnect
  <2>2. faults' \in 0 .. MaxFaults
    BY <1>7 DEF Disconnect, TypeOK
  <2>3. QED
    BY <1>7, <2>1, <2>2 DEF Disconnect, TypeOK
<1>8. CASE ServerDies
  <2>1. channel' \in Seq(Message \cup {Connected})
    BY <1>8 DEF ServerDies
  <2>2. faults' \in 0 .. MaxFaults
    BY <1>8 DEF ServerDies, TypeOK
  <2>3. settled' \in 0 .. issued /\ shown \in 0 .. settled'
    BY <1>8 DEF ServerDies, TypeOK
  <2>4. error' \in BOOLEAN
    BY <1>8 DEF ServerDies, TypeOK
  <2>5. QED
    BY <1>8, <2>1, <2>2, <2>3, <2>4 DEF ServerDies, TypeOK
<1>9. CASE OnConnect
  <2>1. Tail(channel) \in Seq(Message \cup {Connected})
    BY <1>9 DEF OnConnect, TypeOK
  <2>2. QED
    BY <1>9, <2>1, RefreshType DEF OnConnect, TypeOK
<1>10. CASE OnActivity
  <2>1. Tail(channel) \in Seq(Message \cup {Connected}) /\ Head(channel) \in Message
    BY <1>10 DEF OnActivity, TypeOK
  <2>2. rows' \in View
    BY <1>10, <2>1 DEF OnActivity, applyOptimisticPatch, TypeOK, View, Message
  <2>3. QED
    BY <1>10, <2>1, <2>2 DEF OnActivity, TypeOK
<1>11. CASE Reconcile
  BY <1>11, RefreshType DEF Reconcile, TypeOK
<1>12. ASSUME NEW r \in reads, RefreshAnswered(r) PROVE TypeOK'
  <2>1. r.answer \in View /\ r.issue \in 1 .. issued
    BY <1>12 DEF RefreshAnswered, TypeOK
  <2>2. settled' \in 0 .. issued /\ r.issue \in 0 .. settled'
    BY <1>12, <2>1 DEF RefreshAnswered, TypeOK, Later
  <2>3. QED
    BY <1>12, <2>1, <2>2 DEF RefreshAnswered, TypeOK
<1>13. ASSUME NEW r \in reads, RefreshFails(r) PROVE TypeOK'
  <2>1. r.issue \in 1 .. issued
    BY DEF TypeOK
  <2>2. QED
    BY <1>13, <2>1 DEF RefreshFails, TypeOK, Later
<1>14. CASE UNCHANGED vars
  BY <1>14 DEF vars, TypeOK
<1>15. QED
  BY <1>1, <1>2, <1>3, <1>4, <1>5, <1>6, <1>7, <1>8, <1>9, <1>10, <1>11, <1>12,
     <1>13, <1>14 DEF Next, Serve, Wire, React

\* A row is changed by counted activity only.
LEMMA ActivityStep ==
    TypeOK /\ (\A e \in Events : truth[e] <= activity) /\ [Next]_vars
      => (\A e \in Events : truth[e] <= activity)'
<1> SUFFICES ASSUME TypeOK, \A e \in Events : truth[e] <= activity, [Next]_vars
             PROVE  \A e \in Events : truth'[e] <= activity'
  OBVIOUS
<1> USE DEF server, client, history
<1>1. ASSUME NEW e \in Events, CommitChange(e)
      PROVE  \A f \in Events : truth'[f] <= activity'
  BY <1>1 DEF CommitChange, TypeOK, View
<1>2. ASSUME NEW m \in Message, NoteActivity(m)
      PROVE  \A f \in Events : truth'[f] <= activity'
  BY <1>2 DEF NoteActivity, TypeOK, View
<1>3. CASE UNCHANGED <<truth, activity>>
  BY <1>3
<1>4. \/ \E e \in Events : CommitChange(e)
      \/ \E m \in Message : NoteActivity(m)
      \/ UNCHANGED <<truth, activity>>
  BY DEF Next, Serve, Wire, React, Publish, PublishFails, ServeRead, Connect, Disconnect,
         ServerDies, OnConnect, OnActivity, Reconcile, RefreshAnswered, RefreshFails, vars
<1>5. QED
  BY <1>1, <1>2, <1>3, <1>4

\* Every variable keeps its type.
THEOREM DashboardTypeCorrect == Spec => []TypeOK
<1>1. ASSUME Init PROVE \A e \in Events : truth[e] <= activity
  <2>1. truth = [e \in Events |-> 0] /\ activity = 0
    BY <1>1 DEF Init, NoRows
  <2>2. \A e \in Events : truth[e] = 0
    BY <2>1
  <2>3. 0 <= activity
    BY <2>1
  <2>4. QED
    BY <2>2, <2>3
<1>2. QED
  BY <1>1, InitType, TypeStep, ActivityStep, PTL DEF Spec

----------------------------------------------------------------------------
(* A patched row is provisional                                            *)

\* Whatever takes the last refresh or the timer away restores or flags the rows.
LEMMA ProvisionalStep == PatchIsProvisional /\ [Next]_vars => PatchIsProvisional'
<1> SUFFICES ASSUME PatchIsProvisional, [Next]_vars PROVE PatchIsProvisional'
  OBVIOUS
<1> USE DEF server, client, history
<1>1. ASSUME NEW r \in reads, ServeRead(r) PROVE PatchIsProvisional'
  BY <1>1 DEF ServeRead, PatchIsProvisional
<1>2. ASSUME NEW r \in reads, RefreshAnswered(r) \/ RefreshFails(r)
      PROVE  PatchIsProvisional'
  BY <1>2 DEF RefreshAnswered, RefreshFails, PatchIsProvisional
<1>3. CASE ServerDies
  BY <1>3 DEF ServerDies, PatchIsProvisional
<1>4. CASE OnConnect \/ Reconcile
  BY <1>4 DEF OnConnect, Reconcile, Refresh, PatchIsProvisional
<1>5. CASE OnActivity
  BY <1>5 DEF OnActivity, PatchIsProvisional
<1>6. CASE UNCHANGED <<rows, answered, timer, reads, error>>
  BY <1>6 DEF PatchIsProvisional
<1>7. \/ \E r \in reads : ServeRead(r) \/ RefreshAnswered(r) \/ RefreshFails(r)
      \/ ServerDies \/ OnConnect \/ Reconcile \/ OnActivity
      \/ UNCHANGED <<rows, answered, timer, reads, error>>
  BY DEF Next, Serve, Wire, React, CommitChange, NoteActivity, Publish, PublishFails,
         Connect, Disconnect, vars
<1>8. QED
  BY <1>1, <1>2, <1>3, <1>4, <1>5, <1>6, <1>7

\* As long as the list shows what no read has returned, a read that overwrites
\* it is coming or an error is shown.
THEOREM PatchIsProvisionalAlways == Spec => []PatchIsProvisional
<1>1. Init => PatchIsProvisional
  BY DEF Init, PatchIsProvisional
<1>2. QED
  BY <1>1, ProvisionalStep, PTL DEF Spec

----------------------------------------------------------------------------
(* Never behind                                                            *)

\* A refresh that is issued has the highest number, and will read the truth.
LEMMA RefreshKnows ==
    ASSUME TypeOK, LastRefreshKnows, Refresh, UNCHANGED <<shown, settled>>
    PROVE  /\ \A r \in reads' : r.issue \notin {shown', settled'}
           /\ \E r \in reads' : r.issue = issued' /\ r.answer = Waiting
           /\ OneReadEach'
<1>1. /\ \A r \in reads : r.issue \in 1 .. issued /\ r.issue \notin {shown, settled}
      /\ issued \in Nat /\ shown \in 0 .. issued /\ settled \in 0 .. issued
  BY DEF TypeOK, LastRefreshKnows
<1>2. \A r \in reads' : r \in reads \/ r = [issue |-> issued + 1, answer |-> Waiting]
  BY DEF Refresh
<1>3. OneReadEach'
  BY <1>1, <1>2 DEF OneReadEach, LastRefreshKnows
<1>4. \A r \in reads' : r.issue \notin {shown', settled'}
  BY <1>1, <1>2
<1>5. [issue |-> issued + 1, answer |-> Waiting] \in reads' /\ issued' = issued + 1
  BY DEF Refresh
<1>6. QED
  BY <1>3, <1>4, <1>5

\* Every step leaves the last refresh able to show what was told.
LEMMA KnowsStep == TypeOK /\ LastRefreshKnows /\ [Next]_vars => LastRefreshKnows'
<1> SUFFICES ASSUME TypeOK, LastRefreshKnows, [Next]_vars PROVE LastRefreshKnows'
  OBVIOUS
<1> USE DEF server, client, history
<1>1. ASSUME NEW e \in Events, CommitChange(e) PROVE LastRefreshKnows'
  <2>1. \A f \in Events : /\ truth[f] \in Nat /\ truth'[f] \in Nat
                          /\ truth[f] <= truth'[f] /\ announced[f] \in Nat
    BY <1>1 DEF CommitChange, TypeOK, View
  <2>2. Knows(truth)'
    BY <1>1, <2>1 DEF CommitChange, LastRefreshKnows, OneReadEach, Knows
  <2>3. ASSUME NEW m \in unsent', m.event \in Events PROVE truth'[m.event] >= m.version
    <3>1. CASE m \in unsent
      <4>1. truth[m.event] >= m.version /\ m.version \in Nat
        BY <2>3, <3>1 DEF LastRefreshKnows, TypeOK, Message
      <4>2. /\ truth[m.event] \in Nat /\ truth'[m.event] \in Nat
            /\ truth[m.event] <= truth'[m.event]
        BY <2>1, <2>3
      <4>3. QED
        BY <4>1, <4>2
    <3>2. CASE m = [event |-> e, version |-> truth[e] + 1]
      <4>1. m.event = e /\ m.version = truth[e] + 1
        BY <3>2
      <4>2. truth'[e] = truth[e] + 1 /\ truth[e] \in Nat
        BY <1>1, <2>1 DEF CommitChange, TypeOK, View
      <4>3. QED
        BY <4>1, <4>2
    <3>3. QED
      BY <1>1, <3>1, <3>2 DEF CommitChange
  <2>4. QED
    BY <1>1, <2>2, <2>3 DEF CommitChange, LastRefreshKnows, OneReadEach, Knows
<1>2. ASSUME NEW m \in Message, NoteActivity(m) PROVE LastRefreshKnows'
  BY <1>2 DEF NoteActivity, LastRefreshKnows, OneReadEach, Knows, TypeOK, View
<1>3. ASSUME NEW m \in Message, Publish(m) PROVE LastRefreshKnows'
  <2>1. Knows(truth)'
    BY <1>3 DEF Publish, LastRefreshKnows, OneReadEach, Knows, TypeOK, View, Later
  <2>2. online => channel' # <<>>
    BY <1>3 DEF Publish, TypeOK
  <2>3. \A n \in unsent' : n.event \in Events => truth'[n.event] >= n.version
    BY <1>3 DEF Publish, LastRefreshKnows, OneReadEach
  <2>4. QED
    BY <1>3, <2>1, <2>2, <2>3 DEF Publish, LastRefreshKnows, OneReadEach
<1>4. ASSUME NEW m \in Message, PublishFails(m) PROVE LastRefreshKnows'
  BY <1>4 DEF PublishFails, LastRefreshKnows, OneReadEach, Knows
<1>5. ASSUME NEW r \in reads, ServeRead(r) PROVE LastRefreshKnows'
  <2> DEFINE s == [r EXCEPT !.answer = truth]
  <2>1. reads' = (reads \ {r}) \cup {s} /\ s.issue = r.issue /\ s.answer = truth
    <3>1. reads' = (reads \ {r}) \cup {s}
      BY <1>5 DEF ServeRead
    <3>2. r \in [issue : 1 .. issued, answer : View \cup {Waiting}]
      BY DEF TypeOK
    <3>3. s.issue = r.issue /\ s.answer = truth
      BY <3>2
    <3>4. QED
      BY <3>1, <3>3
  <2>2. UNCHANGED <<server, channel, client, issued, history>>
    BY <1>5 DEF ServeRead
  <2> HIDE DEF s
  <2>3. (\A q \in reads' : q.issue \notin {shown', settled'}) /\ OneReadEach'
    <3>1. \A q \in reads' : q.issue \notin {shown', settled'}
      BY <2>1, <2>2 DEF LastRefreshKnows
    <3>2. OneReadEach'
      BY <2>1 DEF LastRefreshKnows, OneReadEach
    <3>3. QED
      BY <3>1, <3>2
  <2>4. ASSUME NEW q \in reads, q.issue = issued, q.answer = Waiting \/ Knows(q.answer)
        PROVE  \E p \in reads' : p.issue = issued /\ (p.answer = Waiting \/ Knows(p.answer))
    <3>1. CASE q = r
      BY <2>1, <2>4, <3>1 DEF LastRefreshKnows
    <3>2. CASE q # r
      BY <2>1, <2>4, <3>2
    <3>3. QED
      BY <3>1, <3>2
  <2>5. QED
    BY <2>2, <2>3, <2>4 DEF LastRefreshKnows, OneReadEach, Knows
<1>6. CASE Connect
  BY <1>6 DEF Connect, LastRefreshKnows, OneReadEach, Knows, TypeOK, View
<1>7. CASE Disconnect
  BY <1>7 DEF Disconnect, LastRefreshKnows, OneReadEach, Knows
<1>8. CASE ServerDies
  BY <1>8 DEF ServerDies, LastRefreshKnows, OneReadEach, Knows
<1>9. CASE OnConnect \/ Reconcile
  <2>1. Refresh /\ UNCHANGED <<truth, unsent, shown, settled, announced>>
    BY <1>9 DEF OnConnect, Reconcile
  <2>2. QED
    BY <2>1, RefreshKnows DEF LastRefreshKnows, OneReadEach, Knows
<1>10. CASE OnActivity
  BY <1>10 DEF OnActivity, LastRefreshKnows, OneReadEach, Knows
<1>11. ASSUME NEW r \in reads, RefreshAnswered(r) PROVE LastRefreshKnows'
  <2>1. /\ r.issue \in 1 .. issued /\ r.answer # Waiting
        /\ reads' = reads \ {r}
        /\ settled' = Later(settled, r.issue) /\ shown' = r.issue /\ answered' = r.answer
        /\ UNCHANGED <<server, channel, timer, issued, announced>>
    BY <1>11 DEF RefreshAnswered, TypeOK
  <2>2. (\A q \in reads' : q.issue \notin {shown', settled'}) /\ OneReadEach'
    BY <2>1 DEF LastRefreshKnows, OneReadEach, Later
  <2>3. CASE r.issue = issued
    <3>1. settled' = issued /\ (shown' = issued)
      BY <2>1, <2>3 DEF TypeOK, Later
    <3>2. (online /\ channel = <<>> /\ ~timer) => Knows(r.answer)
      BY <2>1, <2>3 DEF LastRefreshKnows, OneReadEach
    <3>3. QED
      BY <2>1, <2>2, <3>1, <3>2 DEF LastRefreshKnows, Knows
  <2>4. CASE r.issue # issued
    <3>1. settled = issued => settled' = issued
      BY <2>1 DEF TypeOK, Later
    <3>2. QED
      BY <2>1, <2>2, <2>4, <3>1 DEF LastRefreshKnows, Knows
  <2>5. QED
    BY <2>3, <2>4
<1>12. ASSUME NEW r \in reads, RefreshFails(r) PROVE LastRefreshKnows'
  <2>1. /\ r.issue \in 1 .. issued /\ r.issue \notin {shown, settled}
        /\ reads' = reads \ {r}
        /\ settled' = Later(settled, r.issue)
        /\ UNCHANGED <<server, channel, timer, issued, shown, answered, announced>>
    BY <1>12 DEF RefreshFails, TypeOK, LastRefreshKnows
  <2>2. (\A q \in reads' : q.issue \notin {shown', settled'}) /\ OneReadEach'
    BY <2>1 DEF LastRefreshKnows, OneReadEach, Later
  <2>3. CASE r.issue = issued
    BY <2>1, <2>2, <2>3 DEF LastRefreshKnows, Knows, TypeOK, Later
  <2>4. CASE r.issue # issued
    <3>1. settled = issued => settled' = issued
      BY <2>1 DEF TypeOK, Later
    <3>2. QED
      BY <2>1, <2>2, <2>4, <3>1 DEF LastRefreshKnows, Knows
  <2>5. QED
    BY <2>3, <2>4
<1>13. CASE UNCHANGED vars
  BY <1>13 DEF vars, LastRefreshKnows, OneReadEach, Knows
<1>14. QED
  BY <1>1, <1>2, <1>3, <1>4, <1>5, <1>6, <1>7, <1>8, <1>9, <1>10, <1>11, <1>12,
     <1>13 DEF Next, Serve, Wire, React

\* Nothing on its way means that the last refresh is the one that is shown.
LEMMA QuietKnows == TypeOK /\ LastRefreshKnows /\ PatchIsProvisional => NeverBehind
<1> SUFFICES ASSUME TypeOK, LastRefreshKnows, PatchIsProvisional, Quiet, ~error, ~Overtaken
             PROVE  \A e \in Events : rows[e] >= announced[e]
  BY DEF NeverBehind
<1>1. rows = answered
  BY DEF PatchIsProvisional, Quiet
<1>2. settled = issued /\ (shown = issued => Knows(answered))
  BY DEF LastRefreshKnows, Quiet
<1>3. shown = issued
  BY <1>2 DEF Overtaken, TypeOK
<1>4. QED
  BY <1>1, <1>2, <1>3 DEF Knows

\* The last refresh always knows what the dashboard was told.
THEOREM LastRefreshKnowsAlways == Spec => []LastRefreshKnows
<1>1. ASSUME Init PROVE LastRefreshKnows
  <2>1. /\ truth = [e \in Events |-> 0] /\ announced = [e \in Events |-> 0]
        /\ unsent = {} /\ ~online /\ shown = 0 /\ settled = 0
        /\ reads = {[issue |-> 1, answer |-> Waiting]}
    BY <1>1 DEF Init, NoRows
  <2>2. QED
    BY <2>1 DEF LastRefreshKnows, OneReadEach, Knows
<1>2. QED
  BY <1>1, KnowsStep, DashboardTypeCorrect, PTL DEF Spec

\* However messages, reconnects and failures overlap: once nothing is on its way
\* and no error is shown, the dashboard shows what it was told.  Not so when the
\* answer of an older refresh arrived after a newer one had ended (Overtaken):
\* then the code does show an old list without an error.
THEOREM NeverBehindAlways == Spec => []NeverBehind
BY QuietKnows, LastRefreshKnowsAlways, PatchIsProvisionalAlways, DashboardTypeCorrect, PTL
=============================================================================
