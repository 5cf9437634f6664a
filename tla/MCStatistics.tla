---------------------------- MODULE MCStatistics ----------------------------
(***************************************************************************)
(* Statistics for TLC: two figures, which one reading takes apart.         *)
(***************************************************************************)
EXTENDS Statistics
=============================================================================
