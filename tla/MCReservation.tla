---------------------------- MODULE MCReservation ----------------------------
(* Reservation on small instances. *)
EXTENDS Reservation, TLC

CONSTANTS o1, o2, s1, s2, r1, r2

(* Orders are interchangeable, and so are SKUs and receipts: Init, Next and
   the properties treat them alike. *)
OrderSymmetry   == Permutations(Orders)
LineSymmetry    == Permutations(Skus) \cup Permutations(Receipts)
=============================================================================
