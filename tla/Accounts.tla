------------------------------ MODULE Accounts ------------------------------
(***************************************************************************)
(* The documents of one customer's account and the amounts on them.        *)
(***************************************************************************)
EXTENDS Integers, FiniteSets

CONSTANTS
  Invoices, Receipts, Notes,   \* identities of rows; every order has one invoice
  OrderTotal, Value,           \* of each order, and of each receipt
  Limit                        \* credit_limit of the customer

ASSUME AccountsAssumption ==
  /\ IsFiniteSet(Invoices) /\ IsFiniteSet(Receipts) /\ IsFiniteSet(Notes)
  /\ OrderTotal \in Nat \ {0} /\ Value \in Nat \ {0} /\ Limit \in Nat
=============================================================================
