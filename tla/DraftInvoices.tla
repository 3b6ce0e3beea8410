---------------------------- MODULE DraftInvoices ----------------------------
(***************************************************************************)
(* What a customer is charged for one delivery: its confirmation, the      *)
(* corrections of its receipt, the draft invoices the worker makes of      *)
(* their events, and the posting and voiding of drafts.                    *)
(*                                                                         *)
(* Module Outbox shows that an event is handled once and in the end, so    *)
(* here one step handles it.  Amounts follow accepted quantities: prices,  *)
(* discounts, taxes and their rounding are left out, and so are the stock  *)
(* that a correction moves and the credit exposure that a posting changes. *)
(***************************************************************************)
EXTENDS Units

CONSTANTS
  Lines,           \* order lines of the delivery
  Dispatched,      \* dispatched quantity of each line
  MaxCorrections   \* how often the receipt is corrected, a bound of the model

ASSUME DraftAssumption == Dispatched \in Nat /\ MaxCorrections \in Nat

VARIABLES
  announced, done, \* the events of the delivery: 1 its confirmation, k + 1 correction k
  accepted,        \* accepted quantities of the confirmation (0) and of each correction
  proposal,        \* what the requested, not yet authorized correction accepts: none or one
  drafts,          \* draft_invoices with their lines
  ledger           \* what customer_ledger_entries say of each draft

invoiceVars == <<announced, done, accepted, proposal, drafts, ledger>>

Invoicing == INSTANCE EventHandling
  WITH Events <- MaxCorrections + 1, Work <- {"delivery"}, Refused <- {},
       emitted <- announced

-----------------------------------------------------------------------------
Quantities == [Lines -> 0..Dispatched]
Versions == 0..MaxCorrections

DraftIds ==
  {<<"original", 0>>} \cup ({"reversal", "replacement"} \X (1..MaxCorrections))

(* The receipt chain: the confirmation and the corrections that are posted. *)
HeadReceipt == announced - 1

(* The draft that charges version k. *)
DraftOf(k) == IF k = 0 THEN <<"original", 0>> ELSE <<"replacement", k>>

AcceptedLines(k) == {l \in Lines : accepted[k][l] > 0}

DraftInit ==
  /\ Invoicing!HandlingInit
  /\ accepted = [k \in Versions |-> [l \in Lines |-> 0]]
  /\ proposal = {}
  /\ drafts = <<>>
  /\ ledger = [d \in DraftIds |-> "draft"]

-----------------------------------------------------------------------------
(* confirm_delivery: an event if anything is accepted. *)
Confirm(q) ==
  /\ announced = 0
  /\ \E l \in Lines : q[l] > 0
  /\ Invoicing!Emit
  /\ accepted' = [accepted EXCEPT ![0] = q]
  /\ UNCHANGED <<proposal, drafts, ledger>>

(* _assert_eligible: the head of the chain has a receipt, and its draft exists
   and has no ledger entry. *)
Correctable ==
  /\ announced > 0
  /\ AcceptedLines(HeadReceipt) # {}
  /\ DraftOf(HeadReceipt) \in DOMAIN drafts
  /\ ledger[DraftOf(HeadReceipt)] = "draft"

(* request_delivery_correction: one for each receipt. *)
RequestCorrection(q) ==
  /\ announced <= MaxCorrections
  /\ proposal = {}
  /\ Correctable
  /\ proposal' = {q}
  /\ UNCHANGED <<announced, done, accepted, drafts, ledger>>

AuthorizableOnce == proposal # {} /\ DraftOf(0) \in DOMAIN drafts

(* What the authorization checks again.  It hands over the receipt with its
   correction under another key than _assert_eligible reads, so that the check
   is about the original draft, whichever draft is corrected. *)
Authorizable ==
  /\ proposal # {}
  /\ DraftOf(0) \in DOMAIN drafts
  /\ ledger[DraftOf(0)] = "draft"

(* authorize_delivery_correction *)
AuthorizeCorrection ==
  /\ Authorizable
  /\ Invoicing!Emit
  /\ accepted' = [accepted EXCEPT ![announced] = CHOOSE q \in proposal : TRUE]
  /\ proposal' = {}
  /\ UNCHANGED <<drafts, ledger>>

-----------------------------------------------------------------------------
(* The CHECK of draft_invoice_lines and of the scaling of a root line. *)
AllPositive(lines) == \A l \in DOMAIN lines : lines[l] > 0

(* create_draft_invoice_for_event: a line for every confirmed line, those of
   which nothing is accepted included. *)
Invoice ==
  /\ AllPositive(accepted[0])
  /\ Invoicing!Handle(1, "delivery")
  /\ drafts' = [d \in {DraftOf(0)} |-> accepted[0]]
  /\ UNCHANGED <<accepted, proposal, ledger>>

Negated(lines) == [l \in DOMAIN lines |-> -lines[l]]

ReversalOfRoot(k) == Negated(drafts[DraftOf(0)])

(* The reversal negates the draft that is corrected ... *)
Reversal(k) == Negated(drafts[DraftOf(k - 1)])

ReplacementWithZeros(k) == [l \in DOMAIN drafts[DraftOf(0)] |-> accepted[k][l]]

(* ... and the replacement scales the lines of the root draft, without those
   of which nothing is accepted. *)
Replacement(k) ==
  [l \in DOMAIN drafts[DraftOf(0)] \cap AcceptedLines(k) |-> accepted[k][l]]

Corrected(k) ==
  {<<"reversal", k>>} \cup IF AcceptedLines(k) = {} THEN {} ELSE {DraftOf(k)}

(* create_corrected_draft_invoices_for_event *)
InvoiceCorrection(k) ==
  /\ k > 0
  /\ Invoicing!Handle(k + 1, "delivery")
  /\ AllPositive(drafts[DraftOf(0)])
  /\ AllPositive(Replacement(k))
  /\ drafts' = [d \in DOMAIN drafts \cup Corrected(k) |->
                 IF d = <<"reversal", k>> THEN Reversal(k)
                 ELSE IF d = DraftOf(k) THEN Replacement(k) ELSE drafts[d]]
  /\ UNCHANGED <<accepted, proposal, ledger>>

(* post_invoice: any draft of any kind without ledger entry. *)
Post(d) ==
  /\ d \in DOMAIN drafts
  /\ ledger[d] = "draft"
  /\ ledger' = [ledger EXCEPT ![d] = "posted"]
  /\ UNCHANGED <<announced, done, accepted, proposal, drafts>>

(* void_invoice *)
Void(d) ==
  /\ ledger[d] = "posted"
  /\ ledger' = [ledger EXCEPT ![d] = "voided"]
  /\ UNCHANGED <<announced, done, accepted, proposal, drafts>>

Work == Invoice \/ \E k \in Versions : InvoiceCorrection(k)

DraftNext ==
  \/ \E q \in Quantities : Confirm(q) \/ RequestCorrection(q)
  \/ AuthorizeCorrection
  \/ Work
  \/ \E d \in DraftIds : Post(d) \/ Void(d)

(* The worker handles every event it can: HandlesEvents of module Outbox. *)
DraftSpec == DraftInit /\ [][DraftNext]_invoiceVars /\ WF_invoiceVars(Work)

-----------------------------------------------------------------------------
(* What one draft, and what all drafts charge for line l. *)
ChargeOf(d, l) ==
  IF d \in DOMAIN drafts THEN IF l \in DOMAIN drafts[d] THEN drafts[d][l] ELSE 0 ELSE 0

Charges(l) == [d \in DraftIds |-> ChargeOf(d, l)]

Charged(l) == Net(Charges(l), DraftIds)

(* All drafts of the delivery together, reversals and replacements over any
   number of corrections, charge exactly what the last handled event says was
   accepted. *)
DraftsNetToAccepted ==
  \A l \in Lines :
    Charged(l) =
      IF done = {} THEN 0 ELSE accepted[Cardinality(done) - 1][l]

(* The original draft is posted, and voided perhaps, while no correction of the
   delivery is authorized yet. *)
PostedFirst == ledger[DraftOf(0)] # "draft" /\ announced = 1

(* A delivery whose draft was posted before any correction of it was authorized
   is charged by that draft alone from then on, whatever correction had been
   requested and whatever is voided. *)
PostedOriginalStands == [](PostedFirst => [](DOMAIN drafts = {DraftOf(0)}))

(* Every authorized correction is invoiced in the end: no constraint of the
   drafts ever refuses its reversal or its replacement. *)
CorrectionsInvoiced ==
  \A k \in 1..MaxCorrections : announced > k ~> <<k + 1, "delivery">> \in done

-----------------------------------------------------------------------------
(* What the documents say and the code does not keep *)

(* A confirmed delivery is invoiced for what is accepted of it. *)
DeliveriesInvoiced == announced > 0 ~> <<"original", 0>> \in DOMAIN drafts
=============================================================================
