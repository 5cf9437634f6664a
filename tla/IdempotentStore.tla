-------------------------- MODULE IdempotentStore --------------------------
(***************************************************************************)
(* What POST /events promises its callers, whatever they submit at once:   *)
(* the first submission of a key is stored together with its delivery job, *)
(* nothing replaces it afterwards, and every answer shows the stored row   *)
(* and says "fresh" only to the submission that was stored.  Ingestion     *)
(* implements this specification.                                          *)
(***************************************************************************)
CONSTANTS Requests,     \* submissions: each stands for its payload
          Keys,         \* what the UNIQUE index compares
          None          \* no submission, no key, no answer

VARIABLES asked,        \* the key each submission names
          stored,       \* the submission whose event a key holds
          scheduled,    \* the keys with a delivery job
          answer,       \* what each submission was told
          shown         \* the row it was shown

vars == <<asked, stored, scheduled, answer, shown>>

Init == /\ asked = [r \in Requests |-> None]
        /\ stored = [k \in Keys |-> None]
        /\ scheduled = {}
        /\ answer = [r \in Requests |-> None]
        /\ shown = [r \in Requests |-> None]

Ask(r) == /\ asked[r] = None
          /\ \E k \in Keys : asked' = [asked EXCEPT ![r] = k]
          /\ UNCHANGED <<stored, scheduled, answer, shown>>

Keep(r) == /\ asked[r] \in Keys
           /\ stored[asked[r]] = None
           /\ stored' = [stored EXCEPT ![asked[r]] = r]
           /\ scheduled' = scheduled \cup {asked[r]}
           /\ UNCHANGED <<asked, answer, shown>>

Answer(r) == /\ asked[r] \in Keys
             /\ stored[asked[r]] # None
             /\ answer[r] = None
             /\ \E told \in {"fresh", "duplicate"} :
                  /\ told = "fresh" => stored[asked[r]] = r
                  /\ answer' = [answer EXCEPT ![r] = told]
             /\ shown' = [shown EXCEPT ![r] = stored[asked[r]]]
             /\ UNCHANGED <<asked, stored, scheduled>>

Next == \E r \in Requests : Ask(r) \/ Keep(r) \/ Answer(r)

Spec == Init /\ [][Next]_vars
=============================================================================
