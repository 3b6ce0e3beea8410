------------------------------ MODULE MCOffice ------------------------------
(***************************************************************************)
(* The invoices of a delivery, the orders drafted and the work captured    *)
(* off line share one run but no state: a behavior is one of the three,    *)
(* and the other parts stay as they are.                                   *)
(***************************************************************************)
EXTENDS DraftInvoices, SalesDrafts

CONSTANTS
  l1, l2,
  Subjects, MaxCaptures, MaxVersions

VARIABLES
  part,
  kind, captures, queue, linking, capturePass, underWay, server, executed, reversed

C == INSTANCE DeviceCaptures WITH pass <- capturePass, wire <- underWay

captureVars ==
  <<kind, captures, queue, linking, capturePass, underWay, server, executed, reversed>>

officeVars == <<part, invoiceVars, draftVars, captureVars>>

OfficeInit ==
  /\ part \in {"invoices", "orders", "captures"}
  /\ DraftInit /\ DraftsInit /\ C!CapturesInit
  /\ part # "captures" => kind = "pick"

OfficeNext ==
  /\ UNCHANGED part
  /\ \/ part = "invoices" /\ DraftNext /\ UNCHANGED <<draftVars, captureVars>>
     \/ part = "orders" /\ DraftsNext /\ UNCHANGED <<invoiceVars, captureVars>>
     \/ part = "captures" /\ C!CapturesNext /\ UNCHANGED <<invoiceVars, draftVars>>

(* The fairness of DraftInvoices and of SalesDrafts: in a part at rest nothing
   is enabled that it is about. *)
OfficeSpec ==
  /\ OfficeInit /\ [][OfficeNext]_officeVars
  /\ WF_invoiceVars(Work) /\ DraftsFairness

(* What the user is asked to capture again was not executed, and what the
   device shows as done was, whatever was lost on the way. *)
ConflictNotExecuted == C!ConflictNotExecuted

(* Of the captures made for one delivery or return request, replacements
   included, at most one is executed. *)
OneProofPerSubject == C!OneProofPerSubject
=============================================================================
