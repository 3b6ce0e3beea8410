----------------------------- MODULE Receivables -----------------------------
(***************************************************************************)
(* What one customer owes: the ledger of its invoices, the payments and    *)
(* credit notes applied to them, and the credit exposure that approvals    *)
(* of orders are measured against.                                         *)
(*                                                                         *)
(* A command that tests what it has read before it locks the exposure row  *)
(* is two steps, Begin and Finish; the others are one.  Advisory locks     *)
(* exclude only commands that name the same key.  The exposure row is      *)
(* locked from its update to the commit, so the writes of a command are    *)
(* one step.  Every order has one invoice, and amounts are whole.          *)
(***************************************************************************)
EXTENDS Accounts, Units

CONSTANT Tasks   \* requests that can be in progress at the same time

VARIABLES
  commitment,  \* approval and cancelled value of the order of each invoice
  ledger,      \* customer_ledger_entries of each invoice
  applied,     \* payment_allocations: applied[r][i]
  balance,     \* payment_receipt_balances with the state of the receipt
  note,        \* credit_notes
  exposure,    \* customer_credit_exposure
  drift,       \* what the last rebuild has overlooked: a history variable
  task         \* requests in progress: their command and what it has read

receivableVars == <<commitment, ledger, applied, balance, note, exposure, drift, task>>

-----------------------------------------------------------------------------
Amounts == 1..(IF OrderTotal > Value THEN OrderTotal ELSE Value)
NoInvoice == "no invoice"
NoTask == [command |-> "none"]

(* uninvoiced is the sum of the credit_exposure_entries of the approval. *)
CommitmentRow ==
  [approval : {"none", "active", "invalidated"}, cancelled : 0..1, uninvoiced : Int]

(* open is the sum of the entries, reduced the approved_uninvoiced entry of the
   posting. *)
LedgerRow == [types : SUBSET {"invoice", "void"}, open : Int, reduced : Int]

(* A receipt may be collected on the delivery of an invoice; coverFor is the
   invoice of the fulfillment order its coverage is designated to. *)
BalanceRow ==
  [state : {"cleared", "reversed"}, allocated : Nat, designated : Nat,
   collectedFor : Invoices \cup {NoInvoice}, coverFor : Invoices]

NoteRow ==
  [status : {"none", "pending_authorization", "posted", "reversed"},
   invoice : Invoices \cup {NoInvoice}, amount : Nat]

ReceivablesInit ==
  /\ commitment = [i \in Invoices |-> [approval |-> "none", cancelled |-> 0, uninvoiced |-> 0]]
  /\ ledger = [i \in Invoices |-> [types |-> {}, open |-> 0, reduced |-> 0]]
  /\ applied = [r \in Receipts |-> [i \in Invoices |-> 0]]
  /\ \E i \in Invoices :
       balance \in [Receipts ->
         {[state |-> "cleared", allocated |-> 0, designated |-> d, collectedFor |-> c,
           coverFor |-> i] : d \in 0..Value, c \in {i, NoInvoice}}]
  /\ note = [n \in Notes |-> [status |-> "none", invoice |-> NoInvoice, amount |-> 0]]
  /\ exposure = [open |-> 0, uninvoiced |-> 0]
  /\ drift = [open |-> 0, uninvoiced |-> 0]
  /\ task = [p \in Tasks |-> NoTask]

GrandTotal(i) == OrderTotal - commitment[i].cancelled

Available(b) == (IF b.state = "cleared" THEN Value ELSE 0) - b.allocated - b.designated

(* _invoice_ledger_facts *)
InvoiceStatus(i) ==
  IF "void" \in ledger[i].types THEN "voided"
  ELSE IF "invoice" \in ledger[i].types THEN "posted" ELSE "draft"

(* _invoice_eligible_credit *)
EligibleCredit(i, without) ==
  LET pending == {n \in Notes \ without :
                    note[n].status = "pending_authorization" /\ note[n].invoice = i}
  IN  Positive(ledger[i].open - Total([n \in Notes |-> note[n].amount], pending))

-----------------------------------------------------------------------------
(* Requests in progress and the locks they hold *)

InProgress(commands) == {p \in Tasks : task[p].command \in commands}

(* The key of the advisory lock a command takes; a manual allocation also
   holds its receipt FOR UPDATE. *)
KeyOf(req) ==
  CASE req.command = "post" -> <<"invoice-post", req.invoice>>
    [] req.command = "void" -> <<"invoice-void", req.invoice>>
    [] req.command = "allocate" -> <<"payment-allocation", req.receipt>>
    [] req.command = "request_note" -> <<"credit-note-request", req.invoice>>
    [] req.command = "post_note" -> <<"credit-note", req.note>>
    [] OTHER -> <<"commercial-projections">>

ReceiptUnlocked(r) == TRUE

ReceiptFree(r) == \A p \in InProgress({"allocate"}) : task[p].receipt # r

Start(p, req) ==
  /\ task[p] = NoTask
  /\ \A q \in Tasks : task[q] # NoTask => KeyOf(task[q]) # KeyOf(req)
  /\ task' = [task EXCEPT ![p] = req]
  /\ UNCHANGED <<commitment, ledger, applied, balance, note, exposure, drift>>

Finished(p) == task' = [task EXCEPT ![p] = NoTask]

Fail(p) ==
  /\ task[p] # NoTask
  /\ Finished(p)
  /\ UNCHANGED <<commitment, ledger, applied, balance, note, exposure, drift>>

ChargeOpen(open, uninvoiced) ==
  /\ exposure.open + open >= 0
  /\ exposure' = [exposure EXCEPT !.open = @ + open]

(* _update_credit_exposure, and the CHECK of customer_credit_exposure. *)
Charge(open, uninvoiced) ==
  /\ exposure.open + open >= 0
  /\ exposure.uninvoiced + uninvoiced >= 0
  /\ exposure' = [open |-> exposure.open + open, uninvoiced |-> exposure.uninvoiced + uninvoiced]

-----------------------------------------------------------------------------
(* Orders *)

(* _projection_read_lock: approvals and invalidations share the lock that a
   rebuild of the projections excludes; postings, payments, credit notes and
   cancellations do not. *)
NoRebuild == InProgress({"rebuild"}) = {}

(* approve_sales_order of an On Account order without credit override. *)
ApproveOrder(i) ==
  /\ NoRebuild
  /\ commitment[i].approval = "none"
  /\ exposure.open + exposure.uninvoiced + OrderTotal <= Limit
  /\ commitment' = [commitment EXCEPT ![i].approval = "active", ![i].uninvoiced = @ + OrderTotal]
  /\ Charge(0, OrderTotal)
  /\ UNCHANGED <<ledger, applied, balance, note, drift, task>>

(* cancel_sales_order releases the value of what is cancelled. *)
Cancel(i) ==
  /\ commitment[i].approval = "active" /\ commitment[i].cancelled = 0
  /\ InvoiceStatus(i) = "draft" /\ OrderTotal > 1
  /\ \A p \in InProgress({"post"}) : task[p].invoice # i
  /\ commitment' = [commitment EXCEPT ![i].cancelled = 1, ![i].uninvoiced = @ - 1]
  /\ Charge(0, -1)
  /\ UNCHANGED <<ledger, applied, balance, note, drift, task>>

(* invalidate_active_approval of an order whose status is still approved, as it
   stays through delivery and invoice: it releases the one positive entry in
   full.  The entry that a void restores makes two, which it refuses. *)
Invalidate(i) ==
  /\ NoRebuild
  /\ commitment[i].approval = "active" /\ commitment[i].cancelled = 0
  /\ InvoiceStatus(i) = "voided" => ledger[i].reduced = 0
  /\ commitment' = [commitment EXCEPT ![i].approval = "invalidated", ![i].uninvoiced = @ - OrderTotal]
  /\ Charge(0, -OrderTotal)
  /\ UNCHANGED <<ledger, applied, balance, note, drift, task>>

-----------------------------------------------------------------------------
(* Receipts *)

(* Receipts collected on the delivery of the invoice, and those designated to
   its fulfillment order. *)
Collected(i) == {r \in Receipts : balance[r].collectedFor = i /\ balance[r].state = "cleared"}
Covering(i)  == {r \in Receipts : balance[r].coverFor = i /\ balance[r].designated > 0}

(* What _auto_allocate may take of a receipt.  Coverage is consumed only from
   receipts that have other value left. *)
Room(i, r) ==
  IF r \in Collected(i) THEN Positive(Available(balance[r]))
  ELSE IF r \in Covering(i)
  THEN Positive(Lesser(Available(balance[r]), balance[r].designated))
  ELSE 0

(* auto_allocate_invoice of what is open takes took[r] of each receipt: one after
   the other as far as it is needed, collected receipts before coverage. *)
AutoAllocated(i, open, took) ==
  LET room  == [r \in Receipts |-> Room(i, r)]
      split == {r \in Receipts : 0 < took[r] /\ took[r] < room[r]}
  IN  /\ \A r \in Receipts : took[r] <= room[r]
      /\ Total(took, Receipts) = Lesser(Total(room, Receipts), Positive(open))
      /\ \A r1, r2 \in split : r1 = r2
      /\ \/ \A r \in Collected(i) : took[r] = room[r]
         \/ \A r \in Receipts \ Collected(i) : took[r] = 0

FromCoverage(i, r, amount) == IF r \in Collected(i) THEN 0 ELSE amount

Spent(i, r, amount) ==
  [balance[r] EXCEPT !.allocated = @ + amount, !.designated = @ - FromCoverage(i, r, amount)]

BeginPost(p, i) ==
  /\ InvoiceStatus(i) = "draft" /\ commitment[i].approval # "none"
  /\ Start(p, [command |-> "post", invoice |-> i, uninvoiced |-> exposure.uninvoiced])

(* post_invoice *)
FinishPost(p) ==
  /\ task[p].command = "post"
  /\ \E took \in [Receipts -> 0..Value] :
       LET i == task[p].invoice
           amount == GrandTotal(i)
           reduced == Lesser(amount, task[p].uninvoiced)
           left == amount - Total(took, Receipts)
       IN  /\ AutoAllocated(i, ledger[i].open + amount, took)
           /\ \A r \in Receipts : took[r] > 0 => ReceiptFree(r)
           /\ ledger' = [ledger EXCEPT ![i] =
                [types |-> {"invoice"}, open |-> @.open + left, reduced |-> reduced]]
           /\ commitment' = [commitment EXCEPT ![i].uninvoiced = @ - reduced]
           /\ applied' = [r \in Receipts |-> [applied[r] EXCEPT ![i] = @ + took[r]]]
           /\ balance' = [r \in Receipts |-> Spent(i, r, took[r])]
           /\ Charge(left, -reduced)
  /\ Finished(p)
  /\ UNCHANGED <<note, drift>>

BeginVoid(p, i) ==
  /\ InvoiceStatus(i) = "posted"
  /\ Start(p, [command |-> "void", invoice |-> i])

(* void_invoice: payments and credit notes stay where they are. *)
FinishVoid(p) ==
  /\ task[p].command = "void"
  /\ LET i == task[p].invoice
     IN  /\ ledger' = [ledger EXCEPT ![i].types = @ \cup {"void"}, ![i].open = @ - GrandTotal(i)]
         /\ commitment' = [commitment EXCEPT ![i].uninvoiced = @ + ledger[i].reduced]
         /\ Charge(-GrandTotal(i), ledger[i].reduced)
  /\ Finished(p)
  /\ UNCHANGED <<applied, balance, note, drift>>

(* allocate_payment of one application: all its tests come first. *)
BeginAllocate(p, r, i, amount) ==
  /\ ReceiptFree(r)
  /\ balance[r].state = "cleared"
  /\ amount <= Available(balance[r])
  /\ InvoiceStatus(i) = "posted"
  /\ amount <= ledger[i].open
  /\ Start(p, [command |-> "allocate", receipt |-> r, invoice |-> i, amount |-> amount,
               allocated |-> balance[r].allocated])

FinishAllocate(p) ==
  /\ task[p].command = "allocate"
  /\ LET r == task[p].receipt
         i == task[p].invoice
         amount == task[p].amount
     IN  /\ applied' = [applied EXCEPT ![r][i] = @ + amount]
         /\ balance' = [balance EXCEPT ![r].allocated = task[p].allocated + amount]
         /\ ledger' = [ledger EXCEPT ![i].open = @ - amount]
         /\ Charge(-amount, 0)
  /\ Finished(p)
  /\ UNCHANGED <<commitment, note, drift>>

(* reverse_payment_receipt: PaymentReceipts has its races.  The CHECK of the
   balances refuses it while anything is allocated. *)
ReverseReceipt(r) ==
  /\ ReceiptFree(r)
  /\ balance[r].state = "cleared" /\ balance[r].allocated = 0
  /\ balance' = [balance EXCEPT ![r].state = "reversed", ![r].designated = 0]
  /\ UNCHANGED <<commitment, ledger, applied, note, exposure, drift, task>>

-----------------------------------------------------------------------------
(* Credit notes *)

BeginRequestNote(p, n, i, amount) ==
  /\ note[n].status = "none"
  /\ \A q \in InProgress({"request_note"}) : task[q].note # n
  /\ InvoiceStatus(i) = "posted"
  /\ amount <= EligibleCredit(i, {})
  /\ Start(p, [command |-> "request_note", note |-> n, invoice |-> i, amount |-> amount])

(* request_credit_note *)
FinishRequestNote(p) ==
  /\ task[p].command = "request_note"
  /\ note' = [note EXCEPT ![task[p].note] =
       [status |-> "pending_authorization", invoice |-> task[p].invoice,
        amount |-> task[p].amount]]
  /\ Finished(p)
  /\ UNCHANGED <<commitment, ledger, applied, balance, exposure, drift>>

BeginPostNote(p, n) ==
  /\ note[n].status = "pending_authorization"
  /\ note[n].amount <= EligibleCredit(note[n].invoice, {n})
  /\ Start(p, [command |-> "post_note", note |-> n])

(* authorize_and_post_credit_note *)
FinishPostNote(p) ==
  /\ task[p].command = "post_note"
  /\ LET n == task[p].note
     IN  /\ note' = [note EXCEPT ![n].status = "posted"]
         /\ ledger' = [ledger EXCEPT ![note[n].invoice].open = @ - note[n].amount]
         /\ Charge(-note[n].amount, 0)
  /\ Finished(p)
  /\ UNCHANGED <<commitment, applied, balance, drift>>

(* reverse_credit_note: all it tests is locked with the note. *)
ReverseNote(n) ==
  /\ note[n].status = "posted"
  /\ \A p \in InProgress({"post_note"}) : task[p].note # n
  /\ note' = [note EXCEPT ![n].status = "reversed"]
  /\ ledger' = [ledger EXCEPT ![note[n].invoice].open = @ + note[n].amount]
  /\ Charge(note[n].amount, 0)
  /\ UNCHANGED <<commitment, applied, balance, drift, task>>

-----------------------------------------------------------------------------
(* Rebuilds *)

LedgerOpen == Net([i \in Invoices |-> ledger[i].open], Invoices)
EntriesUninvoiced == Net([i \in Invoices |-> commitment[i].uninvoiced], Invoices)

BeginRebuild(p) ==
  Start(p, [command |-> "rebuild", open |-> LedgerOpen, uninvoiced |-> EntriesUninvoiced])

(* rebuild_commercial_projections writes the sums it read before its DELETE
   waited for the exposure row. *)
FinishRebuild(p) ==
  /\ task[p].command = "rebuild"
  /\ task[p].open >= 0 /\ task[p].uninvoiced >= 0
  /\ exposure' = [open |-> task[p].open, uninvoiced |-> task[p].uninvoiced]
  /\ drift' = [open |-> LedgerOpen - task[p].open,
               uninvoiced |-> EntriesUninvoiced - task[p].uninvoiced]
  /\ Finished(p)
  /\ UNCHANGED <<commitment, ledger, applied, balance, note>>

(* What rebuild_payment_receipt_projections, which locks its tables, makes of
   the allocations and the events of a receipt. *)
RebuiltAllocated(r) == Total(applied[r], Invoices)

ReceivablesNext ==
  \/ \E i \in Invoices : ApproveOrder(i) \/ Cancel(i) \/ Invalidate(i)
  \/ \E r \in Receipts : ReverseReceipt(r)
  \/ \E n \in Notes : ReverseNote(n)
  \/ \E p \in Tasks :
       \/ \E i \in Invoices : BeginPost(p, i) \/ BeginVoid(p, i)
       \/ \E i \in Invoices, r \in Receipts, a \in Amounts : BeginAllocate(p, r, i, a)
       \/ \E i \in Invoices, n \in Notes, a \in Amounts : BeginRequestNote(p, n, i, a)
       \/ \E n \in Notes : BeginPostNote(p, n)
       \/ BeginRebuild(p)
       \/ FinishPost(p) \/ FinishVoid(p) \/ FinishAllocate(p)
       \/ FinishRequestNote(p) \/ FinishPostNote(p) \/ FinishRebuild(p)
       \/ Fail(p)

ReceivablesSpec == ReceivablesInit /\ [][ReceivablesNext]_receivableVars

-----------------------------------------------------------------------------
(* The exposure of the customer is what its ledger and its approvals add up to,
   but for what a rebuild has overlooked. *)
ExposureReconciles ==
  /\ exposure.open + drift.open = LedgerOpen
  /\ exposure.uninvoiced + drift.uninvoiced = EntriesUninvoiced

(* What is open of an invoice is its total less its payments and its posted
   credit notes, once it is posted and until it is void; a rebuild of the
   receipts would find their balances right; and no receipt is spent twice. *)
DocumentsReconcile ==
  /\ \A i \in Invoices :
       LET notes == {n \in Notes : note[n].status = "posted" /\ note[n].invoice = i}
           paid == Total([r \in Receipts |-> applied[r][i]], Receipts)
           credited == Total([n \in Notes |-> note[n].amount], notes)
       IN  ledger[i].open = (IF InvoiceStatus(i) = "posted" THEN GrandTotal(i) ELSE 0)
                              - paid - credited
  /\ \A r \in Receipts :
       /\ balance[r].allocated = RebuiltAllocated(r)
       /\ Available(balance[r]) >= 0
=============================================================================
