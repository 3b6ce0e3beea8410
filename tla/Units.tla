------------------------------- MODULE Units -------------------------------
(***************************************************************************)
(* Quantities.  The code keeps quantities and money as fixed-point         *)
(* decimals; here they are whole units.  The total of a family of          *)
(* quantities is the number of its units, which makes a total over any     *)
(* finite set of rows a cardinality (and so a fact the provers know).      *)
(***************************************************************************)
EXTENDS Integers, FiniteSets

Lesser(a, b) == IF a <= b THEN a ELSE b
Positive(a)  == IF a > 0 THEN a ELSE 0

UnitsOf(f, S) == UNION {{x} \X (1..f[x]) : x \in S}

(* The sum of f over S, for f natural-valued on S. *)
Total(f, S) == Cardinality(UnitsOf(f, S))

(* The sum of f over S, for f integer-valued on S: gains less losses. *)
Net(f, S) ==
  Total([x \in S |-> Positive(f[x])], S) - Total([x \in S |-> Positive(-f[x])], S)
=============================================================================
