---------------------------- MODULE MCDashboard ----------------------------
(***************************************************************************)
(* Dashboard for TLC: the events are model values.                         *)
(***************************************************************************)
EXTENDS Dashboard
=============================================================================
