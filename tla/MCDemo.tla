------------------------------- MODULE MCDemo -------------------------------
(***************************************************************************)
(* Demo for TLC: a failure status of each class and an event on the side.  *)
(* The statuses of another endpoint are the ends of every range that       *)
(* classifyHttpStatus tells apart and the codes next to its exceptions.    *)
(***************************************************************************)
EXTENDS Demo

Failures == {400, 503}

Codes == {199, 200, 299, 300, 407, 408, 409, 429, 499, 500, 599} \cup Failures

DelayChoices == {-1, 0, 5, 30}
=============================================================================
