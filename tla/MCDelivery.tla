----------------------------- MODULE MCDelivery -----------------------------
(***************************************************************************)
(* Delivery for TLC, with its inductive invariants at hand: the sets are   *)
(* sets of model values given in the .cfg files.                           *)
(***************************************************************************)
EXTENDS DeliveryInvariants, RetryFlow
=============================================================================
