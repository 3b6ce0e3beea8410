--------------------------- MODULE MCDraftInvoices ---------------------------
(* One delivery of two lines, corrected twice. *)
EXTENDS DraftInvoices

CONSTANTS l1, l2
=============================================================================
