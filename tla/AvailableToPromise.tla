------------------------- MODULE AvailableToPromise -------------------------
(***************************************************************************)
(* What sales may promise from a warehouse, whatever orders, approvals,    *)
(* payments and deadlines lie behind it: a promise is only ever made out   *)
(* of stock that is on hand and not yet promised, and a promise given back *)
(* was made before.  Stock itself may come and go at any time, and promised *)
(* stock may leave with its promise.                                       *)
(***************************************************************************)
EXTENDS Integers

CONSTANT Skus
VARIABLES onHand, promised

atpVars == <<onHand, promised>>

AtpInit ==
  /\ onHand \in [Skus -> Nat]
  /\ promised = [s \in Skus |-> 0]

(* Promise more of some SKUs, each within what is on hand. *)
Promise ==
  /\ promised' \in [Skus -> Nat]
  /\ \A s \in Skus : promised'[s] # promised[s] =>
        promised[s] < promised'[s] /\ promised'[s] <= onHand[s]
  /\ UNCHANGED onHand

(* Give promised quantity back. *)
Withdraw ==
  /\ promised' \in [Skus -> Nat]
  /\ \A s \in Skus : promised'[s] <= promised[s]
  /\ UNCHANGED onHand

(* Stock arrives, leaves, expires. *)
Restock ==
  /\ onHand' \in [Skus -> Nat]
  /\ UNCHANGED promised

(* What was promised leaves with its promise, or comes back with it. *)
Ship ==
  /\ onHand' \in [Skus -> Nat]
  /\ promised' \in [Skus -> Nat]
  /\ \A s \in Skus : onHand'[s] - onHand[s] = promised'[s] - promised[s]

AtpNext == Promise \/ Withdraw \/ Restock \/ Ship
AtpSpec == AtpInit /\ [][AtpNext]_atpVars
=============================================================================
