----------------------------- MODULE MCNotices -----------------------------
(***************************************************************************)
(* Notices for TLC: the sets are sets of model values given in the .cfg.   *)
(***************************************************************************)
EXTENDS Notices
=============================================================================
