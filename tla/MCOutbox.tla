------------------------------ MODULE MCOutbox ------------------------------
(* The outbox on small instances: a confirmation, whose recipient may not be
   notified, and a correction that leaves nothing accepted, so no receipt. *)
EXTENDS Outbox

CONSTANTS j1, j2
=============================================================================
