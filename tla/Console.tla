------------------------------ MODULE Console ------------------------------
(***************************************************************************)
(* The two panels of the dashboard that act (apps/client): the one that    *)
(* sets the test receiver (ReceiverControls) and the form that submits an  *)
(* event (SubmitEventForm), on one page with the receiver's state that     *)
(* useEngineState keeps (app/page.tsx).                                    *)
(*                                                                         *)
(* A setting the user has not touched follows what the page last heard of  *)
(* the receiver; one the user has touched keeps the user's value.  Reads   *)
(* and POSTs overlap, their answers come in any order, and a POST that the *)
(* page has given up may be carried out before or after that.  The server  *)
(* keeps the settings in its memory only: a restart loses them.            *)
(***************************************************************************)
EXTENDS Naturals, Sequences

CONSTANTS Settings,     \* the settings of the receiver
          Values,       \* what each of them may be set to
          Default,      \* what the server starts with, and what the panel shows
                        \* before it has heard of any: SUCCESS, 503 and 0 in both
          Ids,          \* the eventIds the form may hold
          MaxResults,   \* how many results the form lists (5)
          MaxInputs,    \* bound on what users do
          MaxReads,     \* bound on refreshes
          MaxFaults,    \* bound on requests that fail
          None,         \* nothing known, typed or in flight
          Waiting       \* not answered yet

Config == [Settings -> Values]

Result == [eventId : Ids, duplicate : BOOLEAN]

ASSUME ConsoleAssumption == /\ Default \in Values
                            /\ None # Waiting
                            /\ {None, Waiting} \cap (Values \cup Ids) = {}
                            /\ {None, Waiting} \cap (Config \cup Result) = {}
                            /\ MaxResults \in Nat \ {0}
                            /\ MaxInputs \in Nat
                            /\ MaxReads \in Nat \ {0}
                            /\ MaxFaults \in Nat

VARIABLES
    config,      \* server: the configuration of the test receiver
    stored,      \* server: the events that have been accepted
    receiver,    \* the receiver as useEngineState knows it, or None
    reads,       \* refreshes in flight, with what the server has answered
    late,        \* the panel's POSTs that were given up and may yet arrive
    edits,       \* mode, failureStatus and latencyMs of ReceiverControls
    apply,       \* the panel's POST in flight, or Idle ("busy" is false)
    panelError,  \* error of ReceiverControls
    eventId,     \* of SubmitEventForm
    submit,      \* the form's POST in flight, or Idle
    results,     \* of SubmitEventForm, the newest first
    formError,   \* error of SubmitEventForm
    inputs, issued, faults,   \* how often each has happened
    dirty,       \* history: since the last Apply a setting was edited, or a
                 \* POST that was given up was carried out
    foreign,     \* history: the settings that somebody else or a restart has
                 \* changed
    had,         \* history: the values each setting has had
    blind,       \* history: Apply was clicked before the first answer
    unsure       \* history: ids posted in vain that the user still looks at

unseen    == <<late, foreign, had, blind>>
panelVars == <<receiver, reads, edits, apply, panelError, issued, dirty, unseen>>
formVars  == <<eventId, submit, results, formError, unsure>>
vars      == <<config, stored, panelVars, formVars, inputs, faults>>

Idle == [of |-> None, answer |-> None]

\* The type invariant.
TypeOK ==
    /\ config \in Config
    /\ stored \in SUBSET Ids
    /\ receiver \in Config \cup {None}
    /\ reads \subseteq [issue : 1 .. issued, answer : Config \cup {Waiting}]
    /\ edits \in [Settings -> Values \cup {None}]
    /\ apply \in {Idle} \cup [of : Config, answer : Config \cup {Waiting}]
    /\ late \subseteq [lost : 1 .. faults, of : Config]
    /\ panelError \in BOOLEAN
    /\ eventId \in Ids
    /\ submit \in {Idle} \cup [of : Ids, answer : Result \cup {Waiting}]
    /\ results \in Seq(Result) /\ Len(results) <= MaxResults
    /\ formError \in {"none", "payload", "request"}
    /\ inputs \in 0 .. MaxInputs /\ issued \in 1 .. MaxReads /\ faults \in 0 .. MaxFaults
    /\ dirty \in BOOLEAN /\ blind \in BOOLEAN
    /\ foreign \in SUBSET Settings /\ had \in [Settings -> SUBSET Values]
    /\ unsure \in SUBSET Ids

\* The page is loaded, at some time of the server's life; refresh() is on its way.
Init ==
    /\ config \in Config
    /\ stored \in SUBSET Ids
    /\ receiver = None
    /\ reads = {[issue |-> 1, answer |-> Waiting]}
    /\ edits = [s \in Settings |-> None]
    /\ apply = Idle
    /\ late = {}
    /\ panelError = FALSE
    /\ eventId \in Ids
    /\ submit = Idle
    /\ results = <<>>
    /\ formError = "none"
    /\ inputs = 0 /\ issued = 1 /\ faults = 0
    /\ dirty = FALSE /\ foreign = {} /\ blind = FALSE
    /\ had = [s \in Settings |-> {config[s]}]
    /\ unsure = {}

Input == inputs < MaxInputs /\ inputs' = inputs + 1

Fault == faults < MaxFaults /\ faults' = faults + 1

\* The history of the settings, after a change of the configuration.
Remembered == had' = [s \in Settings |-> had[s] \cup {config'[s]}]

----------------------------------------------------------------------------
(* The receiver's state on the page                                        *)

\* The button, a (re)connect, or the reconciliation after a message.
Refresh ==
    /\ issued < MaxReads
    /\ issued' = issued + 1
    /\ reads' = reads \cup {[issue |-> issued + 1, answer |-> Waiting]}
    /\ UNCHANGED <<config, stored, receiver, edits, apply, panelError, dirty,
                   unseen, formVars, inputs, faults>>

\* GET /test-receiver/config
getConfig(r) ==
    /\ r.answer = Waiting
    /\ reads' = (reads \ {r}) \cup {[r EXCEPT !.answer = config]}
    /\ UNCHANGED <<config, stored, receiver, edits, apply, panelError, issued,
                   dirty, unseen, formVars, inputs, faults>>

RefreshAnswered(r) ==
    /\ r.answer # Waiting
    /\ reads' = reads \ {r}
    /\ receiver' = r.answer
    /\ UNCHANGED <<config, stored, edits, apply, panelError, issued, dirty,
                   unseen, formVars, inputs, faults>>

\* One of its three requests fails: nothing is set.
RefreshFails(r) ==
    /\ Fault
    /\ reads' = reads \ {r}
    /\ UNCHANGED <<config, stored, receiver, edits, apply, panelError, issued,
                   dirty, unseen, formVars, inputs>>

----------------------------------------------------------------------------
(* ReceiverControls                                                        *)

\* Mutant: an untouched setting is the panel's default.
current_Default == [s \in Settings |-> IF edits[s] # None THEN edits[s] ELSE Default]

\* currentMode, currentStatus and currentLatency.
current == [s \in Settings |-> IF edits[s] # None THEN edits[s]
                              ELSE IF receiver # None THEN receiver[s] ELSE Default]

\* The inputs are not disabled while a POST is in flight (the failure status is,
\* in mode SUCCESS, where it makes no difference).
Edit(s, value) ==
    /\ Input
    /\ edits' = [edits EXCEPT ![s] = value]
    /\ dirty' = TRUE
    /\ UNCHANGED <<config, stored, receiver, reads, apply, panelError, issued,
                   unseen, formVars, faults>>

\* apply(): all settings are posted as they are shown, the untouched ones too.
Apply ==
    /\ Input
    /\ apply = Idle
    /\ apply' = [of |-> current, answer |-> Waiting]
    /\ panelError' = FALSE
    /\ dirty' = FALSE
    /\ blind' = (blind \/ receiver = None)
    /\ UNCHANGED <<config, stored, receiver, reads, edits, issued, late,
                   foreign, had, formVars, faults>>

\* POST /test-receiver/config: "{ ...this.config, ...configPatch }", where the
\* patch names every setting.  The counters that "Apply & reset" clears are
\* TestReceiver's.
updateConfig ==
    /\ apply.answer = Waiting
    /\ config' = apply.of
    /\ apply' = [apply EXCEPT !.answer = config']
    /\ Remembered
    /\ UNCHANGED <<stored, receiver, reads, edits, panelError, issued, dirty,
                   late, foreign, blind, formVars, inputs, faults>>

\* The same for a POST that was given up: it was held up on its way.  A later
\* Apply that has not been carried out yet will replace what it sets.
updateConfigLate(post) ==
    /\ late' = late \ {post}
    /\ config' = post.of
    /\ Remembered
    /\ dirty' = (dirty \/ apply.answer # Waiting)
    /\ UNCHANGED <<stored, receiver, reads, edits, apply, panelError, issued,
                   foreign, blind, formVars, inputs, faults>>

\* Mutant: the settings follow the receiver again once they are applied.
Applied_Cleared ==
    /\ apply.answer \notin {None, Waiting}
    /\ receiver' = apply.answer
    /\ apply' = Idle
    /\ edits' = [s \in Settings |-> None]
    /\ UNCHANGED <<config, stored, reads, panelError, issued, dirty,
                   unseen, formVars, inputs, faults>>

\* onChange: the answer becomes the page's receiver; the edits stay.
Applied ==
    /\ apply.answer \notin {None, Waiting}
    /\ receiver' = apply.answer
    /\ apply' = Idle
    /\ UNCHANGED <<config, stored, reads, edits, panelError, issued, dirty,
                   unseen, formVars, inputs, faults>>

\* The POST is lost, or held up on its way, or the server refuses a value; or it
\* was carried out and its answer is lost.
ApplyFails ==
    /\ apply # Idle
    /\ Fault
    /\ apply' = Idle
    /\ panelError' = TRUE
    /\ \/ late' = late
       \/ apply.answer = Waiting /\ late' = late \cup {[lost |-> faults', of |-> apply.of]}
    /\ UNCHANGED <<config, stored, receiver, reads, edits, issued, dirty,
                   foreign, had, blind, formVars, inputs>>

\* Another dashboard, or somebody with curl, sets the receiver.
SetElsewhere(s, value) ==
    /\ Input
    /\ config' = [config EXCEPT ![s] = value]
    /\ foreign' = foreign \cup {s}
    /\ Remembered
    /\ UNCHANGED <<stored, receiver, reads, edits, apply, panelError, issued,
                   dirty, late, blind, formVars, faults>>

\* The settings are fields of the service: after a restart they are what it
\* starts with.  Requests that break off with it fail; the others find the new
\* process.  What has been answered is on its way.
ServerRestarts ==
    /\ Fault
    /\ config' = [s \in Settings |-> Default]
    /\ foreign' = foreign \cup {s \in Settings : config[s] # Default}
    /\ Remembered
    /\ UNCHANGED <<stored, receiver, reads, edits, apply, panelError, issued,
                   dirty, late, blind, formVars, inputs>>

----------------------------------------------------------------------------
(* SubmitEventForm                                                         *)

\* The user types another eventId, in flight or not.
EditId(id) ==
    /\ Input
    /\ eventId' = id
    /\ unsure' = unsure \ {eventId}
    /\ UNCHANGED <<config, stored, panelVars, submit, results, formError, faults>>

\* JSON.parse throws before anything else is done.
SubmitUnparsable ==
    /\ Input
    /\ submit = Idle
    /\ formError' = "payload"
    /\ UNCHANGED <<config, stored, panelVars, eventId, submit, results, unsure, faults>>

\* Mutant: the suggested id reaches the field with the answer only.
SubmitNew_FieldLater(id) ==
    /\ Input
    /\ submit = Idle
    /\ submit' = [of |-> id, answer |-> Waiting]
    /\ formError' = "none"
    /\ unsure' = {id}
    /\ UNCHANGED <<config, stored, panelVars, eventId, results, faults>>

\* "Submit new event": a suggested id, which may happen to be taken.
SubmitNew(id) ==
    /\ Input
    /\ submit = Idle
    /\ eventId' = id
    /\ submit' = [of |-> id, answer |-> Waiting]
    /\ formError' = "none"
    /\ unsure' = {id}
    /\ UNCHANGED <<config, stored, panelVars, results, faults>>

\* "Submit same ID again".
SubmitAgain ==
    /\ Input
    /\ submit = Idle
    /\ submit' = [of |-> eventId, answer |-> Waiting]
    /\ formError' = "none"
    /\ unsure' = {eventId}
    /\ UNCHANGED <<config, stored, panelVars, eventId, results, faults>>

\* POST /events, which Ingestion has in detail.
create ==
    /\ submit.answer = Waiting
    /\ stored' = stored \cup {submit.of}
    /\ submit' = [submit EXCEPT !.answer =
                    [eventId |-> submit.of, duplicate |-> submit.of \in stored]]
    /\ UNCHANGED <<config, panelVars, eventId, results, formError, unsure, inputs, faults>>

\* Mutant: the list grows without end.
Listed_All(answer) == <<answer>> \o results

\* "[response, ...current].slice(0, 5)"
Listed(answer) ==
    SubSeq(<<answer>> \o results,
           1, IF Len(results) < MaxResults THEN Len(results) + 1 ELSE MaxResults)

Submitted ==
    /\ submit.answer \notin {None, Waiting}
    /\ results' = Listed(submit.answer)
    /\ submit' = Idle
    /\ unsure' = unsure \ {submit.of}
    /\ UNCHANGED <<config, stored, panelVars, eventId, formError, inputs, faults>>

\* The POST or its answer is lost.  A POST held up on its way needs no action of
\* its own: when nobody has submitted its id again, it is to the form as if it
\* had been carried out before this step; else it finds the id and changes nothing.
SubmitFails ==
    /\ submit # Idle
    /\ Fault
    /\ submit' = Idle
    /\ formError' = "request"
    /\ UNCHANGED <<config, stored, panelVars, eventId, results, unsure, inputs>>

----------------------------------------------------------------------------
Page == \/ Refresh
        \/ \E r \in reads : getConfig(r) \/ RefreshAnswered(r) \/ RefreshFails(r)

Panel == \/ \E s \in Settings, value \in Values : Edit(s, value) \/ SetElsewhere(s, value)
         \/ Apply
         \/ updateConfig
         \/ \E post \in late : updateConfigLate(post)
         \/ Applied
         \/ ApplyFails
         \/ ServerRestarts

Form == \/ \E id \in Ids : EditId(id) \/ SubmitNew(id)
        \/ SubmitUnparsable
        \/ SubmitAgain
        \/ create
        \/ Submitted
        \/ SubmitFails

Next == Page \/ Panel \/ Form

Spec == Init /\ [][Next]_vars

----------------------------------------------------------------------------
\* The panel shows what the receiver does, although reads overtake each other
\* and the answer of a POST: a setting is either untouched, and nobody has
\* changed it, or the user's value stays in its field.  Not so while a POST is
\* in flight, failed or still to be clicked, for a setting that somebody else or
\* a restart of the server has changed, after a POST that was given up has been
\* carried out, or when Apply was clicked before anything had been read.
PanelShowsWhatHolds ==
    ~dirty /\ ~blind /\ apply = Idle /\ ~panelError /\ receiver # None
        => \A s \in Settings \ foreign : current[s] = config[s]

\* Apply posts every setting, the ones its user has not touched too, from what
\* the page last heard, which may be older than the last Apply; and a POST that
\* was given up may be carried out long after that.  It changes an untouched
\* setting only in two cases.  A setting that another dashboard or a restart has
\* changed it may set back to what it was before.  When Apply was clicked before
\* anything had been read it may set it to the default, or back.  It never sets an
\* untouched setting to anything else.
UntouchedStays ==
    [][updateConfig \/ (\E post \in late : updateConfigLate(post)) =>
         \A s \in Settings : edits[s] = None =>
            \/ config'[s] = config[s]
            \/ s \in foreign /\ config'[s] \in had[s]
            \/ blind /\ config'[s] \in had[s] \cup {Default}]_vars

\* The id of a submission that nobody has answered stays in the field until the
\* user turns to another one, so that "Submit same ID again" repeats that very
\* submission, which the endpoint may have carried out.
UnansweredCanBeRepeated == submit = Idle => unsure \subseteq {eventId}
=============================================================================
