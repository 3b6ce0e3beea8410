------------------------------- MODULE MCSupply -------------------------------
(***************************************************************************)
(* Procurement and the stock inside the company share one run but no       *)
(* state: a behavior is one of either, and the other part stays as it is.  *)
(***************************************************************************)
EXTENDS Procurement, InternalStock, TLC

VARIABLE part

supplyVars == <<part, procurementVars, stockVars>>

SupplyInit ==
  /\ ProcurementInit /\ StockInit
  /\ part \in {"procurement", "stock"}
  /\ part = "stock" => request.lines = [l \in Lines |-> Quantity]

SupplyNext ==
  /\ UNCHANGED part
  /\ \/ part = "procurement" /\ ProcurementNext /\ UNCHANGED stockVars
     \/ part = "stock" /\ StockNext /\ UNCHANGED procurementVars

SupplySpec == SupplyInit /\ [][SupplyNext]_supplyVars

(* Identities only. *)
Symmetries == Permutations(Orders) \cup Permutations(Jobs) \cup Permutations(Warehouses)
===============================================================================
