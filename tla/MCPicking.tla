------------------------------ MODULE MCPicking ------------------------------
(* Picking on small instances. *)
EXTENDS Picking, TLC

CONSTANTS o1, o2, s1, r1, p1, p2, p3

(* Orders are interchangeable, and so are picks. *)
FullSymmetry == Permutations(Orders) \cup Permutations(Picks)
=============================================================================
