----------------------------- MODULE StockCustody -----------------------------
(***************************************************************************)
(* What deliveries, exceptions, corrections and customer returns promise   *)
(* about the goods: every picked unit is always in exactly one place, and  *)
(* none gets back among the sellable ones but from the customer.           *)
(***************************************************************************)
EXTENDS Integers

CONSTANT Picked  \* picked and staged in the beginning

VARIABLE at     \* how many units each place holds

Places == {"staging", "in_transit", "investigation", "quarantine", "available",
           "customer", "lost"}

Everywhere(counts) ==
  counts["staging"] + counts["in_transit"] + counts["investigation"] + counts["quarantine"]
  + counts["available"] + counts["customer"] + counts["lost"]

CustodyInit == at = [p \in Places |-> IF p = "staging" THEN Picked ELSE 0]

(* Goods leave staging, may move between vehicle, investigation and customer as
   the record of a delivery is put right, and stay lost, sellable or in
   quarantine once they are. *)
Permitted(before, after) ==
  /\ after \in [Places -> 0..Picked]
  /\ Everywhere(after) = Picked
  /\ after["staging"] <= before["staging"]
  /\ \A p \in {"quarantine", "available", "lost"} : after[p] >= before[p]
  /\ after["available"] > before["available"] =>
       before["customer"] - after["customer"] >= after["available"] - before["available"]

Move == \A before \in {at}, after \in {at'} : Permitted(before, after)

CustodySpec == CustodyInit /\ [][Move]_at
===============================================================================
