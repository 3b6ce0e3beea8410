------------------------------ MODULE MCCustody ------------------------------
(* Deliveries and returns have identities only: both are symmetric. *)
EXTENDS Custody, TLC

Symmetries == Permutations(Deliveries) \cup Permutations(Returns)
==============================================================================
