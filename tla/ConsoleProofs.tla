--------------------------- MODULE ConsoleProofs ---------------------------
(***************************************************************************)
(* The panels of the dashboard, proved for every set of settings, values   *)
(* and eventIds and for any number of reads, inputs and failed requests.   *)
(***************************************************************************)
EXTENDS Console, SequenceTheorems, TLAPS

----------------------------------------------------------------------------
(* The inductive invariant                                                 *)

\* All that the page holds, awaits or has given up of a setting nobody has touched
\* is what the receiver is set to, unless it was changed without the page.
UntouchedAgree ==
    ~blind => \A s \in Settings \ foreign : edits[s] = None =>
        /\ receiver # None => receiver[s] = config[s]
        /\ \A r \in reads : r.answer # Waiting => r.answer[s] = config[s]
        /\ apply # Idle => /\ apply.of[s] = config[s]
                           /\ apply.answer # Waiting => apply.answer[s] = config[s]
        /\ \A post \in late : post.of[s] = config[s]

\* A setting the user has touched is what the last Apply posts or has posted.
TouchedAgree ==
    ~dirty /\ ~panelError => \A s \in Settings \ foreign : edits[s] # None =>
        IF apply = Idle THEN config[s] = edits[s]
        ELSE /\ apply.of[s] = edits[s]
             /\ apply.answer # Waiting => config[s] = edits[s]

\* What an untouched setting can be posted as.
Postable(s) == had[s] \cup (IF blind THEN {Default} ELSE {})

\* Whatever has changed the receiver: the page hears of no value that a setting
\* never had, and posts none of an untouched setting but, blindly, the default.
OnlyHeard ==
    \A s \in Settings :
        /\ config[s] \in had[s]
        /\ receiver # None => receiver[s] \in had[s]
        /\ \A r \in reads : r.answer # Waiting => r.answer[s] \in had[s]
        /\ apply # Idle /\ apply.answer # Waiting => apply.answer[s] \in had[s]
        /\ edits[s] = None => /\ apply # Idle => apply.of[s] \in Postable(s)
                              /\ \A post \in late : post.of[s] \in Postable(s)

\* The field keeps the id of a submission nobody has answered.
FieldKept == unsure \subseteq {eventId}

ConsoleInv == TypeOK /\ UntouchedAgree /\ TouchedAgree /\ OnlyHeard /\ FieldKept

\* A POST in flight is not Idle, and Idle is none.
LEMMA InFlight ==
    ASSUME TypeOK
    PROVE  /\ apply.answer = Waiting => apply # Idle
           /\ apply.answer \notin {None, Waiting} => apply # Idle
           /\ apply # Idle => /\ apply \in [of : Config, answer : Config \cup {Waiting}]
                              /\ apply.of \in Config
                              /\ apply.answer # None
           /\ submit.answer = Waiting => submit # Idle
           /\ submit.answer \notin {None, Waiting} => submit # Idle
           /\ submit # Idle => /\ submit \in [of : Ids, answer : Result \cup {Waiting}]
                               /\ submit.answer # None
BY ConsoleAssumption DEF TypeOK, Idle

\* The panel always shows values a setting may have.
LEMMA CurrentType == ASSUME TypeOK PROVE current \in Config
BY ConsoleAssumption DEF TypeOK, Config, current

\* The list of results keeps its length.
LEMMA ListedType ==
    ASSUME TypeOK, NEW answer \in Result
    PROVE  Listed(answer) \in Seq(Result) /\ Len(Listed(answer)) <= MaxResults
<1> DEFINE all == <<answer>> \o results
           n   == IF Len(results) < MaxResults THEN Len(results) + 1 ELSE MaxResults
<1>1. results \in Seq(Result) /\ Len(results) \in Nat /\ Len(results) <= MaxResults
  BY DEF TypeOK
<1>2. all \in Seq(Result) /\ Len(all) = Len(results) + 1
  BY <1>1
<1>3. n \in 0 .. Len(all) /\ n <= MaxResults
  BY <1>1, <1>2, ConsoleAssumption
<1>4. \A i \in 1 .. n : all[i] \in Result
  BY <1>2, <1>3, ElementOfSeq
<1> HIDE DEF all, n
<1>5. SubSeq(all, 1, n) \in Seq(Result) /\ Len(SubSeq(all, 1, n)) = n
  BY <1>2, <1>3, <1>4, SubSeqProperties
<1>6. QED
  BY <1>3, <1>5 DEF Listed, all, n

----------------------------------------------------------------------------
(* The page                                                                *)

\* Nothing has been read, edited or posted.
LEMMA ConsoleInit == Init => ConsoleInv
<1> SUFFICES ASSUME Init PROVE ConsoleInv
  OBVIOUS
<1>1. TypeOK
  <2>1. /\ receiver \in Config \cup {None}
        /\ reads \subseteq [issue : 1 .. issued, answer : Config \cup {Waiting}]
        /\ edits \in [Settings -> Values \cup {None}]
    BY DEF Init
  <2>2. results \in Seq(Result) /\ Len(results) <= MaxResults
    BY ConsoleAssumption DEF Init
  <2>3. inputs \in 0 .. MaxInputs /\ issued \in 1 .. MaxReads /\ faults \in 0 .. MaxFaults
    BY ConsoleAssumption DEF Init
  <2>4. had \in [Settings -> SUBSET Values] /\ foreign \in SUBSET Settings /\ late = {}
    BY DEF Init, Config
  <2>5. QED
    BY <2>1, <2>2, <2>3, <2>4 DEF Init, TypeOK
<1>2. UntouchedAgree /\ TouchedAgree /\ FieldKept
  BY DEF Init, UntouchedAgree, TouchedAgree, FieldKept
<1>3. OnlyHeard
  <2>1. /\ receiver = None /\ apply = Idle /\ late = {}
        /\ \A r \in reads : r.answer = Waiting
        /\ \A s \in Settings : config[s] \in had[s]
    BY DEF Init
  <2>2. QED
    BY <2>1 DEF OnlyHeard
<1>4. QED
  BY <1>1, <1>2, <1>3 DEF ConsoleInv

\* A refresh is sent.
LEMMA RefreshKeeps == ConsoleInv /\ Refresh => ConsoleInv'
<1> SUFFICES ASSUME ConsoleInv, Refresh PROVE ConsoleInv'
  OBVIOUS
<1>1. TypeOK'
  BY ConsoleAssumption DEF ConsoleInv, TypeOK, Refresh, formVars, unseen
<1>2. UntouchedAgree'
  BY DEF ConsoleInv, UntouchedAgree, Refresh, unseen
<1>3. TouchedAgree' /\ FieldKept'
  BY DEF ConsoleInv, TouchedAgree, FieldKept, Refresh, formVars, unseen
<1>4. OnlyHeard'
  BY DEF ConsoleInv, OnlyHeard, Postable, Refresh, unseen
<1>5. QED
  BY <1>1, <1>2, <1>3, <1>4 DEF ConsoleInv

\* The server answers a refresh with what the receiver is set to.
LEMMA GetConfigKeeps == ASSUME ConsoleInv, NEW r \in reads, getConfig(r) PROVE ConsoleInv'
<1>1. r \in [issue : 1 .. issued, answer : Config \cup {Waiting}]
  BY DEF ConsoleInv, TypeOK
<1>2. PICK answered : /\ answered \in [issue : 1 .. issued, answer : Config \cup {Waiting}]
                      /\ answered.answer = config
                      /\ reads' = (reads \ {r}) \cup {answered}
  BY <1>1 DEF ConsoleInv, TypeOK, getConfig
<1>3. TypeOK'
  BY <1>2 DEF ConsoleInv, TypeOK, getConfig, formVars, unseen
<1>4. UntouchedAgree'
  BY <1>2 DEF ConsoleInv, UntouchedAgree, getConfig, unseen
<1>5. TouchedAgree' /\ FieldKept'
  BY DEF ConsoleInv, TouchedAgree, FieldKept, getConfig, formVars, unseen
<1>6. OnlyHeard'
  BY <1>2 DEF ConsoleInv, OnlyHeard, Postable, getConfig, unseen
<1>7. QED
  BY <1>3, <1>4, <1>5, <1>6 DEF ConsoleInv

\* The answer of a refresh is shown, or the refresh has failed.
LEMMA ReadEnds ==
    ASSUME ConsoleInv, NEW r \in reads, RefreshAnswered(r) \/ RefreshFails(r)
    PROVE  ConsoleInv'
<1>1. TypeOK'
  BY ConsoleAssumption
     DEF ConsoleInv, TypeOK, RefreshAnswered, RefreshFails, Fault, formVars, unseen
<1>2. UntouchedAgree'
  BY DEF ConsoleInv, UntouchedAgree, RefreshAnswered, RefreshFails, unseen
<1>3. TouchedAgree' /\ FieldKept'
  BY DEF ConsoleInv, TouchedAgree, FieldKept, RefreshAnswered, RefreshFails, formVars, unseen
<1>4. OnlyHeard'
  BY DEF ConsoleInv, OnlyHeard, Postable, RefreshAnswered, RefreshFails, unseen
<1>5. QED
  BY <1>1, <1>2, <1>3, <1>4 DEF ConsoleInv

----------------------------------------------------------------------------
(* The panel                                                               *)

\* The history of the settings only grows, and has what they are now.
LEMMA HadGrows ==
    ASSUME TypeOK, Remembered, config' \in Config
    PROVE  /\ had' \in [Settings -> SUBSET Values]
           /\ \A s \in Settings : had[s] \subseteq had'[s] /\ config'[s] \in had'[s]
BY DEF TypeOK, Remembered, Config

\* A setting is touched from now on.
LEMMA EditKeeps ==
    ASSUME ConsoleInv, NEW s \in Settings, NEW value \in Values, Edit(s, value)
    PROVE  ConsoleInv'
<1>1. edits' = [edits EXCEPT ![s] = value] /\ value # None
  BY ConsoleAssumption DEF Edit
<1>2. TypeOK'
  <2>1. inputs' \in 0 .. MaxInputs
    BY ConsoleAssumption DEF ConsoleInv, TypeOK, Edit, Input
  <2>2. edits' \in [Settings -> Values \cup {None}] /\ dirty' \in BOOLEAN
    BY DEF ConsoleInv, TypeOK, Edit
  <2>3. QED
    BY <2>1, <2>2 DEF ConsoleInv, TypeOK, Edit, formVars, unseen
<1>3. \A t \in Settings : edits'[t] = None => edits[t] = None
  BY <1>1 DEF ConsoleInv, TypeOK
<1>4. UntouchedAgree'
  BY <1>3 DEF ConsoleInv, UntouchedAgree, Edit, unseen
<1>5. TouchedAgree' /\ FieldKept'
  BY DEF ConsoleInv, TouchedAgree, FieldKept, Edit, formVars
<1>6. OnlyHeard'
  BY <1>3 DEF ConsoleInv, OnlyHeard, Postable, Edit, unseen
<1>7. QED
  BY <1>2, <1>4, <1>5, <1>6 DEF ConsoleInv

\* Somebody else or a restart changes settings: these no longer need agree.
LEMMA ForeignKeeps ==
    ASSUME ConsoleInv, Remembered, config' \in Config, foreign' \in SUBSET Settings,
           foreign \subseteq foreign',
           \A s \in Settings \ foreign' : config'[s] = config[s],
           UNCHANGED <<stored, receiver, reads, edits, apply, panelError, issued,
                       dirty, late, blind, formVars>>,
           inputs' \in 0 .. MaxInputs, faults' \in 0 .. MaxFaults, faults' >= faults
    PROVE  ConsoleInv'
<1>1. TypeOK'
  <2>1. late' \subseteq [lost : 1 .. faults', of : Config]
    BY DEF ConsoleInv, TypeOK
  <2>2. QED
    BY <2>1, HadGrows DEF ConsoleInv, TypeOK, formVars
<1>2. UntouchedAgree'
  BY DEF ConsoleInv, UntouchedAgree
<1>3. TouchedAgree' /\ FieldKept'
  BY DEF ConsoleInv, TouchedAgree, FieldKept, formVars
<1>4. OnlyHeard'
  BY HadGrows DEF ConsoleInv, OnlyHeard, Postable
<1>5. QED
  BY <1>1, <1>2, <1>3, <1>4 DEF ConsoleInv

\* Another dashboard sets the receiver.
LEMMA ElsewhereKeeps ==
    ASSUME ConsoleInv, NEW s \in Settings, NEW value \in Values, SetElsewhere(s, value)
    PROVE  ConsoleInv'
<1>1. inputs' \in 0 .. MaxInputs /\ faults' = faults
  BY ConsoleAssumption DEF ConsoleInv, TypeOK, SetElsewhere, Input
<1>2. config' \in Config /\ \A t \in Settings \ {s} : config'[t] = config[t]
  BY DEF ConsoleInv, TypeOK, SetElsewhere, Config
<1>3. foreign' = foreign \cup {s} /\ foreign \in SUBSET Settings
  BY DEF ConsoleInv, TypeOK, SetElsewhere
<1>4. faults \in 0 .. MaxFaults
  BY DEF ConsoleInv, TypeOK
<1>5. QED
  BY <1>1, <1>2, <1>3, <1>4, ForeignKeeps DEF SetElsewhere

\* The server loses its settings.
LEMMA RestartKeeps == ConsoleInv /\ ServerRestarts => ConsoleInv'
<1> SUFFICES ASSUME ConsoleInv, ServerRestarts PROVE ConsoleInv'
  OBVIOUS
<1>1. /\ inputs' \in 0 .. MaxInputs
      /\ faults' \in 0 .. MaxFaults
      /\ faults' >= faults
  BY ConsoleAssumption DEF ConsoleInv, TypeOK, ServerRestarts, Fault
<1>2. config' \in Config
  BY ConsoleAssumption DEF ServerRestarts, Config
<1>3. /\ foreign' \in SUBSET Settings /\ foreign \subseteq foreign'
      /\ \A s \in Settings \ foreign' : config'[s] = config[s]
  BY DEF ConsoleInv, TypeOK, ServerRestarts
<1>4. QED
  BY <1>1, <1>2, <1>3, ForeignKeeps DEF ServerRestarts

\* All settings are posted as they are shown.
LEMMA ApplyKeeps == ConsoleInv /\ Apply => ConsoleInv'
<1> SUFFICES ASSUME ConsoleInv, Apply PROVE ConsoleInv'
  OBVIOUS
<1>1. /\ apply' # Idle
      /\ apply'.of = current
      /\ apply'.answer = Waiting
      /\ apply' \in [of : Config, answer : Config \cup {Waiting}]
  BY CurrentType, ConsoleAssumption DEF ConsoleInv, Apply, Idle
<1>2. TypeOK'
  <2>1. inputs' \in 0 .. MaxInputs
    BY ConsoleAssumption DEF ConsoleInv, TypeOK, Apply, Input
  <2>2. dirty' \in BOOLEAN /\ blind' \in BOOLEAN /\ panelError' \in BOOLEAN
    BY DEF ConsoleInv, TypeOK, Apply
  <2>3. QED
    BY <1>1, <2>1, <2>2 DEF ConsoleInv, TypeOK, Apply, formVars
<1>3. UntouchedAgree'
  BY <1>1 DEF ConsoleInv, UntouchedAgree, Apply, current
<1>4. TouchedAgree' /\ FieldKept'
  BY <1>1 DEF ConsoleInv, TouchedAgree, FieldKept, Apply, current, formVars
<1>5. OnlyHeard'
  <2>1. \A s \in Settings : edits[s] = None => current[s] \in Postable(s)'
    BY DEF ConsoleInv, OnlyHeard, Postable, Apply, current
  <2>2. QED
    BY <1>1, <2>1 DEF ConsoleInv, OnlyHeard, Postable, Apply
<1>6. QED
  BY <1>2, <1>3, <1>4, <1>5 DEF ConsoleInv

\* The server takes over what was posted: the untouched settings stay.
LEMMA UpdateKeeps == ConsoleInv /\ updateConfig => ConsoleInv'
<1> SUFFICES ASSUME ConsoleInv, updateConfig PROVE ConsoleInv'
  OBVIOUS
<1>1. apply # Idle /\ apply.of \in Config
  BY InFlight DEF ConsoleInv, updateConfig
<1>2. /\ apply' \in [of : Config, answer : Config \cup {Waiting}]
      /\ apply'.of = apply.of
      /\ apply'.answer = apply.of
      /\ config' = apply.of
  BY <1>1, InFlight DEF ConsoleInv, updateConfig
<1>3. TypeOK'
  BY <1>1, <1>2, HadGrows DEF ConsoleInv, TypeOK, updateConfig, formVars
<1>4. UntouchedAgree'
  BY <1>1, <1>2 DEF ConsoleInv, UntouchedAgree, updateConfig
<1>5. apply' # Idle
  BY <1>2, ConsoleAssumption, <1>1 DEF Idle
<1>6. TouchedAgree' /\ FieldKept'
  BY <1>1, <1>2, <1>5 DEF ConsoleInv, TouchedAgree, FieldKept, updateConfig, formVars
<1>7. OnlyHeard'
  BY <1>1, <1>2, HadGrows DEF ConsoleInv, OnlyHeard, Postable, updateConfig
<1>8. QED
  BY <1>3, <1>4, <1>6, <1>7 DEF ConsoleInv

\* So it does when the POST arrives late, but then the touched settings may be
\* older than what was posted since.
LEMMA UpdateLateKeeps ==
    ASSUME ConsoleInv, NEW post \in late, updateConfigLate(post)
    PROVE  ConsoleInv'
<1>1. post \in [lost : 1 .. faults, of : Config] /\ post.of \in Config /\ config' = post.of
  BY DEF ConsoleInv, TypeOK, updateConfigLate
<1>2. TypeOK'
  BY <1>1, HadGrows DEF ConsoleInv, TypeOK, updateConfigLate, formVars
<1>3. UntouchedAgree'
  BY <1>1 DEF ConsoleInv, UntouchedAgree, updateConfigLate
<1>4. TouchedAgree' /\ FieldKept'
  <2>1. ~dirty' => ~dirty /\ apply.answer = Waiting
    BY DEF updateConfigLate
  <2>2. apply.answer = Waiting => apply # Idle
    BY InFlight DEF ConsoleInv
  <2>3. QED
    BY <2>1, <2>2 DEF ConsoleInv, TouchedAgree, FieldKept, updateConfigLate, formVars
<1>5. OnlyHeard'
  BY <1>1, HadGrows DEF ConsoleInv, OnlyHeard, Postable, updateConfigLate
<1>6. QED
  BY <1>2, <1>3, <1>4, <1>5 DEF ConsoleInv

\* The POST is answered: the answer is what its page hears of the receiver.
LEMMA AppliedKeeps == ConsoleInv /\ Applied => ConsoleInv'
<1> SUFFICES ASSUME ConsoleInv, Applied PROVE ConsoleInv'
  OBVIOUS
<1>1. apply # Idle /\ apply.answer \in Config /\ apply.answer # Waiting
  BY InFlight DEF ConsoleInv, Applied
<1>2. TypeOK'
  BY <1>1 DEF ConsoleInv, TypeOK, Applied, formVars, unseen
<1>3. UntouchedAgree'
  BY <1>1 DEF ConsoleInv, UntouchedAgree, Applied, unseen
<1>4. TouchedAgree' /\ FieldKept'
  BY <1>1 DEF ConsoleInv, TouchedAgree, FieldKept, Applied, formVars, unseen
<1>5. OnlyHeard'
  BY <1>1 DEF ConsoleInv, OnlyHeard, Postable, Applied, unseen
<1>6. QED
  BY <1>2, <1>3, <1>4, <1>5 DEF ConsoleInv

\* The POST is given up, and may be on its way for ever.
LEMMA ApplyFailsKeeps == ConsoleInv /\ ApplyFails => ConsoleInv'
<1> SUFFICES ASSUME ConsoleInv, ApplyFails PROVE ConsoleInv'
  OBVIOUS
<1>1. apply # Idle /\ apply.of \in Config
  BY InFlight DEF ConsoleInv, ApplyFails
<1>2. faults \in Nat /\ faults' = faults + 1 /\ faults' \in 0 .. MaxFaults
  BY ConsoleAssumption DEF ConsoleInv, TypeOK, ApplyFails, Fault
<1>3. late' \subseteq late \cup {[lost |-> faults', of |-> apply.of]}
  BY DEF ApplyFails
<1>4. \A post \in late' : post \in late \/ post.of = apply.of
  BY <1>3
<1>5. TypeOK'
  <2>1. late \subseteq [lost : 1 .. faults, of : Config]
    BY DEF ConsoleInv, TypeOK
  <2>2. late \subseteq [lost : 1 .. faults', of : Config]
    BY <1>2, <2>1
  <2>3. [lost |-> faults', of |-> apply.of] \in [lost : 1 .. faults', of : Config]
    BY <1>1, <1>2
  <2>4. late' \subseteq [lost : 1 .. faults', of : Config]
    BY <1>3, <2>2, <2>3
  <2>5. QED
    BY <1>2, <2>4 DEF ConsoleInv, TypeOK, ApplyFails, formVars
<1>6. UntouchedAgree'
  BY <1>1, <1>4 DEF ConsoleInv, UntouchedAgree, ApplyFails
<1>7. TouchedAgree' /\ FieldKept'
  BY DEF ConsoleInv, TouchedAgree, FieldKept, ApplyFails, formVars
<1>8. OnlyHeard'
  BY <1>1, <1>4 DEF ConsoleInv, OnlyHeard, Postable, ApplyFails
<1>9. QED
  BY <1>5, <1>6, <1>7, <1>8 DEF ConsoleInv

----------------------------------------------------------------------------
(* The form                                                                *)

\* The panel is not touched, and an id is posted from the field it stays in.
LEMMA FormKeeps == ConsoleInv /\ Form => ConsoleInv'
<1> SUFFICES ASSUME ConsoleInv, Form PROVE ConsoleInv'
  OBVIOUS
<1>1. UNCHANGED <<config, panelVars>>
  BY DEF Form, EditId, SubmitNew, SubmitUnparsable, SubmitAgain, create, Submitted, SubmitFails
<1>2. UntouchedAgree' /\ TouchedAgree' /\ OnlyHeard'
  BY <1>1 DEF ConsoleInv, UntouchedAgree, TouchedAgree, OnlyHeard, Postable, panelVars, unseen
<1>3. FieldKept'
  BY DEF ConsoleInv, FieldKept, Form, EditId, SubmitNew, SubmitUnparsable, SubmitAgain,
         create, Submitted, SubmitFails
<1>4. ASSUME NEW id \in Ids, EditId(id) \/ SubmitNew(id) PROVE TypeOK'
  BY <1>1, <1>4, ConsoleAssumption
     DEF ConsoleInv, TypeOK, panelVars, unseen, EditId, SubmitNew, Input
<1>5. CASE SubmitUnparsable \/ SubmitAgain \/ SubmitFails
  BY <1>1, <1>5, <1>2, <1>3, ConsoleAssumption
     DEF ConsoleInv, TypeOK, panelVars, unseen, SubmitUnparsable, SubmitAgain, SubmitFails, Input, Fault
<1>6. CASE create
  <2>1. submit \in [of : Ids, answer : Result \cup {Waiting}]
    BY <1>6, InFlight DEF ConsoleInv, create
  <2>2. submit' \in [of : Ids, answer : Result \cup {Waiting}]
    <3> DEFINE known == submit.of \in stored
    <3>1. known \in BOOLEAN
      OBVIOUS
    <3>2. submit' = [submit EXCEPT !.answer = [eventId |-> submit.of, duplicate |-> known]]
      BY <1>6 DEF create
    <3> HIDE DEF known
    <3>3. [eventId |-> submit.of, duplicate |-> known] \in Result
      BY <2>1, <3>1 DEF Result
    <3>4. QED
      BY <2>1, <3>2, <3>3
  <2>3. TypeOK'
    BY <1>1, <1>6, <2>1, <2>2 DEF ConsoleInv, TypeOK, panelVars, unseen, create
  <2>4. QED
    BY <1>2, <1>3, <2>3 DEF ConsoleInv
<1>7. CASE Submitted
  <2>1. submit.answer \in Result
    BY <1>7, InFlight DEF ConsoleInv, Submitted
  <2>2. results' \in Seq(Result) /\ Len(results') <= MaxResults
    BY <1>7, <2>1, ListedType DEF ConsoleInv, Submitted
  <2>3. TypeOK'
    BY <1>1, <1>7, <2>2 DEF ConsoleInv, TypeOK, panelVars, unseen, Submitted
  <2>4. QED
    BY <1>2, <1>3, <2>3 DEF ConsoleInv
<1>8. QED
  BY <1>2, <1>3, <1>4, <1>5, <1>6, <1>7 DEF Form, ConsoleInv

\* Every step keeps the invariant.
LEMMA ConsoleStep == ConsoleInv /\ [Next]_vars => ConsoleInv'
<1>1. CASE UNCHANGED vars
  BY <1>1 DEF vars, panelVars, unseen, formVars, ConsoleInv, TypeOK, UntouchedAgree,
              TouchedAgree, OnlyHeard, Postable, FieldKept
<1>2. QED
  BY <1>1, RefreshKeeps, GetConfigKeeps, ReadEnds, EditKeeps, ElsewhereKeeps, RestartKeeps,
     ApplyKeeps, UpdateKeeps, UpdateLateKeeps, AppliedKeeps, ApplyFailsKeeps, FormKeeps
     DEF Next, Page, Panel

----------------------------------------------------------------------------
(* What follows                                                            *)

\* What the page holds, awaits and has posted agrees with the receiver.
THEOREM ConsoleInvariant == Spec => []ConsoleInv
BY ConsoleInit, ConsoleStep, PTL DEF Spec

\* Every variable keeps its type.
THEOREM ConsoleTypeCorrect == Spec => []TypeOK
<1>1. ConsoleInv => TypeOK
  BY DEF ConsoleInv
<1>2. QED
  BY <1>1, ConsoleInvariant, PTL

\* The panel shows what the receiver does, in whatever order reads and POSTs are
\* answered.
THEOREM PanelShowsWhatHoldsAlways == Spec => []PanelShowsWhatHolds
<1>1. ConsoleInv => PanelShowsWhatHolds
  BY DEF PanelShowsWhatHolds, ConsoleInv, UntouchedAgree, TouchedAgree, current
<1>2. QED
  BY <1>1, ConsoleInvariant, PTL

\* Of the settings its user has not touched, Apply changes only one that was
\* changed without this page, and only back to a value it has had; when it was
\* clicked before anything was read, also others, and also to the default.
THEOREM UntouchedStaysAlways == Spec => UntouchedStays
<1> DEFINE Applies == updateConfig \/ \E post \in late : updateConfigLate(post)
           Kept    == Applies => \A s \in Settings : edits[s] = None =>
                        \/ config'[s] = config[s]
                        \/ s \in foreign /\ config'[s] \in had[s]
                        \/ blind /\ config'[s] \in had[s] \cup {Default}
<1>1. ConsoleInv => Kept
  <2> SUFFICES ASSUME ConsoleInv, Applies, NEW s \in Settings, edits[s] = None
               PROVE  \/ config'[s] = config[s]
                      \/ s \in foreign /\ config'[s] \in had[s]
                      \/ blind /\ config'[s] \in had[s] \cup {Default}
    OBVIOUS
  <2>1. /\ config'[s] \in Postable(s)
        /\ ~blind /\ s \notin foreign => config'[s] = config[s]
    <3>1. CASE updateConfig
      <4>1. apply # Idle /\ config' = apply.of
        BY <3>1, InFlight DEF ConsoleInv, updateConfig
      <4>2. QED
        BY <4>1 DEF ConsoleInv, UntouchedAgree, OnlyHeard
    <3>2. ASSUME NEW post \in late, updateConfigLate(post)
          PROVE  /\ config'[s] \in Postable(s)
                 /\ ~blind /\ s \notin foreign => config'[s] = config[s]
      BY <3>2 DEF ConsoleInv, UntouchedAgree, OnlyHeard, updateConfigLate
    <3>3. QED
      BY <3>1, <3>2
  <2>2. QED
    BY <2>1 DEF Postable
<1>2. QED
  BY <1>1, ConsoleInvariant, PTL DEF UntouchedStays

\* "Submit same ID again" repeats the submission nobody has answered.
THEOREM UnansweredCanBeRepeatedAlways == Spec => []UnansweredCanBeRepeated
<1>1. ConsoleInv => UnansweredCanBeRepeated
  BY DEF ConsoleInv, FieldKept, UnansweredCanBeRepeated
<1>2. QED
  BY <1>1, ConsoleInvariant, PTL
=============================================================================
