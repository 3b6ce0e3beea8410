----------------------------- MODULE Reservation -----------------------------
(***************************************************************************)
(* Commercial approval, stock reservation and prepayment of sales orders   *)
(* up to pick release: commercial_approval.py, order_cancellation.py, the  *)
(* order part of sales.py and payment_fulfillment.py.                      *)
(*                                                                         *)
(* An action is a committed transaction of one handler.  Two handlers      *)
(* decide on fulfillment orders they read without a lock and write them    *)
(* later, the cancellation of an order and the reversal of a receipt: what *)
(* they read is kept from one action to the next.  A refused command (a    *)
(* 4xx, or a CHECK or key constraint that fails at the write) rolls back   *)
(* and is a disabled action.  Abstractions: one warehouse; an order has at *)
(* most one line per SKU, so the SKU stands for the line; a unit of any    *)
(* SKU costs one unit of money; commands always carry the current If-Match *)
(* version; the checks of actor, customer, price, tax and credit may       *)
(* refuse any command and are not modelled.                                *)
(***************************************************************************)
EXTENDS Units

CONSTANTS
  Orders, Skus, Receipts,      \* identities of rows
  NoOrder,                     \* the order of an unused approval or fulfillment
  Policies,                    \* payment timing policies that revisions use
  MaxApprovals,                \* bound: commercial approvals ever given
  MaxFulfillments,             \* bound: reservation generations ever created
  MaxQty, MaxAmount, MaxStock  \* bounds: line quantity, receipt, on hand

ASSUME ReservationAssumption ==
  /\ IsFiniteSet(Orders) /\ IsFiniteSet(Skus) /\ IsFiniteSet(Receipts)
  /\ NoOrder \notin Orders
  /\ Policies \subseteq {"prepaid", "cash_on_delivery", "on_account"}
  /\ MaxApprovals \in Nat /\ MaxFulfillments \in Nat
  /\ MaxQty \in Nat /\ MaxAmount \in Nat /\ MaxStock \in Nat

Approvals    == 1..MaxApprovals
Fulfillments == 1..MaxFulfillments

VARIABLES
  onHand,      \* eligible inventory_availability of each SKU
  reserved,    \* inventory_reserved_by_sku_warehouse
  ledger,      \* net inventory_reservation_events of each order line
  commitment,  \* sales_order_line_commitments
  order,       \* sales_orders with its current revision
  approval,    \* commercial_approvals and their invalidations
  hold,        \* active_sales_order_holds: the fulfillment order, 0 if none
  fo,          \* fulfillment_orders, their lines, state and coverage events
  receipt,     \* payment_receipts, their state and designated balance
  cancelling,  \* of each order, what its cancellation in progress has read
  reversing    \* of each receipt, what its reversal in progress has read

stockVars == <<reserved, ledger, commitment>>
inFlight == <<cancelling, reversing>>
vars == <<onHand, reserved, ledger, commitment, order, approval, hold, fo, receipt,
          cancelling, reversing>>

(* An operator just above a definition, with its parameters and no mapping of
   its own, is that definition with a plausible bug; no behaviour uses it. *)

-----------------------------------------------------------------------------
(* Rows.  A commitment with approval 0 is no row. *)

NoCommitment ==
  [approval |-> 0, ordered |-> 0, reserved |-> 0, picked |-> 0,
   backorder |-> 0, cancelled |-> 0]

NewCommitment(a, ordered, got, back) ==
  [approval |-> a, ordered |-> ordered, reserved |-> got, picked |-> 0,
   backorder |-> back, cancelled |-> 0]

Recommitted(c, got, back) == [c EXCEPT !.reserved = got, !.backorder = back]

(* ck_sales_order_line_commitments_quantities *)
Partitioned(c) ==
  /\ c.reserved >= 0 /\ c.picked >= 0 /\ c.backorder >= 0 /\ c.cancelled >= 0
  /\ c.reserved + c.picked + c.backorder + c.cancelled = c.ordered

NoFulfillment ==
  [order |-> NoOrder, approval |-> 0, policy |-> "none", status |-> "none", released |-> FALSE,
   lines |-> [s \in Skus |-> 0], reserved |-> 0, backorder |-> 0, picked |-> 0,
   required |-> 0, covered |-> 0,
   coverage |-> [r \in Receipts |-> 0], backers |-> {}]

(* What the transactions in progress have read: the fulfillment order f, 0 if
   none, that a cancellation will write; the fulfillment orders that a reversal
   will bare, and what each of them held of each receipt. *)
NoCancellation == [open |-> FALSE, f |-> 0, status |-> "none", covered |-> 0]
NoReversal ==
  [open |-> FALSE, backed |-> {}, held |-> [f \in Fulfillments |-> [r \in Receipts |-> 0]]]

Init ==
  /\ onHand \in [Skus -> 0..MaxStock]
  /\ reserved = [s \in Skus |-> 0]
  /\ ledger = [o \in Orders |-> [s \in Skus |-> 0]]
  /\ commitment = [o \in Orders |-> [s \in Skus |-> NoCommitment]]
  /\ order = [o \in Orders |-> [status |-> "none", approved |-> 0,
                                qty |-> [s \in Skus |-> 0], policy |-> "none"]]
  /\ approval = [a \in Approvals |-> [order |-> NoOrder, policy |-> "none",
                                      state |-> "none"]]
  /\ hold = [o \in Orders |-> 0]
  /\ fo = [f \in Fulfillments |-> NoFulfillment]
  /\ receipt = [r \in Receipts |-> [state |-> "none", order |-> NoOrder,
                                    intended |-> 0, amount |-> 0, designated |-> 0]]
  /\ cancelling = [o \in Orders |-> NoCancellation]
  /\ reversing = [r \in Receipts |-> NoReversal]

ActiveApprovals(o) == {a \in Approvals : approval[a].order = o /\ approval[a].state = "active"}

LinesOf(o, a) == {s \in Skus : commitment[o][s].approval = a}

FreshApproval(a) ==
  /\ approval[a].state = "none"
  /\ \A b \in Approvals : b < a => approval[b].state # "none"

FreshFulfillment(f) ==
  /\ fo[f].status = "none"
  /\ \A g \in Fulfillments : g < f => fo[g].status # "none"

(* No cancellation holds the row lock of the order, which every command on the
   order takes, be it for the foreign key of a row it inserts. *)
Unlocked(o) == ~cancelling[o].open

BookOverwriting(o, d) ==
  /\ ledger' = [ledger EXCEPT ![o] = [s \in Skus |-> ledger[o][s] + d[s]]]
  /\ reserved' = [s \in Skus |-> ledger[o][s] + d[s]]
  /\ \A s \in Skus : reserved[s] + d[s] >= 0

(* Post reservation events of order o, d[s] units of each SKU, and move the
   reserved projection with them; its CHECK refuses a negative quantity. *)
Book(o, d) ==
  /\ ledger' = [ledger EXCEPT ![o] = [s \in Skus |-> ledger[o][s] + d[s]]]
  /\ reserved' = [s \in Skus |-> reserved[s] + d[s]]
  /\ \A s \in Skus : reserved[s] + d[s] >= 0

GrantableOnHand(want, stock) == [s \in Skus |-> Lesser(want[s], stock[s])]

(* What approval and retry, having read stock[s] on hand, may reserve of the
   quantities wanted. *)
Grantable(want, stock) ==
  [s \in Skus |-> Lesser(want[s], Positive(stock[s] - reserved[s]))]

-----------------------------------------------------------------------------
(* Prepayment coverage *)

(* The designations of a fulfillment order x that _release_coverage finds. *)
HeldBy(x) == [r \in Receipts |-> Positive(x.coverage[r])]

(* x once the designations h are released. *)
Bare(x, h) == [x EXCEPT !.coverage = [r \in Receipts |-> x.coverage[r] - h[r]], !.covered = 0]

(* What releasing the designations h[f] of the fulfillment orders F gives back
   to receipt r. *)
GivenBack(h, F, r) == Total([f \in F |-> h[f][r]], F)

Holdings == [f \in Fulfillments |-> HeldBy(fo[f])]

(* ck_payment_receipt_balances_nonnegative *)
Releasable(h, F) == \A r \in Receipts : GivenBack(h, F, r) <= receipt[r].designated

ReceiptsKept(h, F) == receipt

ReceiptsWithout(h, F) ==
  [r \in Receipts |-> [receipt[r] EXCEPT !.designated = @ - GivenBack(h, F, r)]]

Available(r) ==
  IF receipt[r].state = "cleared" THEN receipt[r].amount - receipt[r].designated ELSE 0

DesignationToAny(f, available) ==
  IF f \in Fulfillments THEN Lesser(available, Positive(fo[f].required - fo[f].covered)) ELSE 0

(* What a cleared amount adds to fulfillment order f: nothing unless f still
   collects, and never more than is missing. *)
Designation(f, available) ==
  IF f \in Fulfillments /\ fo[f].status \in {"reserved", "payment_ready"}
  THEN Lesser(available, Positive(fo[f].required - fo[f].covered))
  ELSE 0

Designated(x, r, n) ==
  [x EXCEPT !.coverage = [x.coverage EXCEPT ![r] = @ + n],
            !.backers  = @ \cup {r},
            !.covered  = @ + n,
            !.status   = IF x.covered + n >= x.required THEN "payment_ready" ELSE "reserved"]

(* The receipts of a retried order are designated one after the other, each
   as far as it is needed, in the order they were received. *)
Redesignation(o, required, give) ==
  LET left == [r \in Receipts |-> IF receipt[r].order = o THEN Available(r) ELSE 0]
      split == {r \in Receipts : 0 < give[r] /\ give[r] < left[r]}
  IN  /\ \A r \in Receipts : give[r] <= left[r]
      /\ Total(give, Receipts) = Lesser(Total(left, Receipts), required)
      /\ \A r1, r2 \in split : r1 = r2

-----------------------------------------------------------------------------
(* Fulfillment orders *)

NewFulfillment(o, a, policy, got, back) ==
  [order |-> o, approval |-> a, policy |-> policy,
   status |-> IF policy = "prepaid" THEN "reserved" ELSE "payment_ready",
   lines |-> got, reserved |-> Total(got, Skus), backorder |-> Total(back, Skus),
   released |-> FALSE, picked |-> 0,
   required |-> IF policy = "prepaid" THEN Total(got, Skus) ELSE 0, covered |-> 0,
   coverage |-> [r \in Receipts |-> 0], backers |-> {}]

(* The fulfillment order of the highest reservation generation, 0 if none. *)
LatestOf(F) ==
  LET latest == {f \in F : \A g \in F : g <= f}
  IN  IF latest = {} THEN 0 ELSE CHOOSE f \in latest : TRUE

(* create_fulfillment_for_approval: nothing reserved, no fulfillment order. *)
CreateFulfillment(o, a, policy, got, back) ==
  \/ /\ Total(got, Skus) = 0
     /\ UNCHANGED fo
  \/ /\ Total(got, Skus) > 0
     /\ \E f \in Fulfillments :
          /\ FreshFulfillment(f)
          /\ fo' = [fo EXCEPT ![f] = NewFulfillment(o, a, policy, got, back)]

-----------------------------------------------------------------------------
(* The order and its revisions (sales.py) *)

Revision(o, qty, policy) ==
  order' = [order EXCEPT ![o] = [status |-> "draft", approved |-> 0,
                                 qty |-> qty, policy |-> policy]]

CreateDraft(o, qty, policy) ==
  /\ order[o].status = "none"
  /\ Revision(o, qty, policy)
  /\ UNCHANGED <<onHand, stockVars, approval, hold, fo, receipt, inFlight>>

CommitmentsWithoutReserved(o, lines) ==
  [commitment EXCEPT ![o] = [s \in Skus |->
     IF s \in lines /\ commitment[o][s].reserved > 0 THEN NoCommitment ELSE commitment[o][s]]]

CommitmentsWithout(o, lines) ==
  [commitment EXCEPT ![o] =
     [s \in Skus |-> IF s \in lines THEN NoCommitment ELSE commitment[o][s]]]

(* invalidate_active_approval with cancel_fulfillment_for_approval *)
Invalidate(o, a) ==
  LET cancelled == {f \in Fulfillments :
                      fo[f].approval = a /\ fo[f].status \notin {"none", "cancelled"}}
      lines     == LinesOf(o, a)
  IN  /\ \A f \in cancelled : fo[f].status # "pick_released"
      /\ approval' = [approval EXCEPT ![a].state = "invalidated"]
      /\ Releasable(Holdings, cancelled)
      /\ fo' = [f \in Fulfillments |->
                  IF f \in cancelled
                  THEN [Bare(fo[f], HeldBy(fo[f])) EXCEPT !.status = "cancelled"]
                  ELSE fo[f]]
      /\ receipt' = ReceiptsWithout(Holdings, cancelled)
      /\ Book(o, [s \in Skus |-> IF s \in lines THEN -commitment[o][s].reserved ELSE 0])
      /\ commitment' = CommitmentsWithout(o, lines)

(* update_sales_order_draft: any existing order may be revised; only one whose
   status is approved has its approval invalidated. *)
Revise(o, qty, policy) ==
  /\ order[o].status # "none"
  /\ Unlocked(o)
  /\ Revision(o, qty, policy)
  /\ \/ /\ order[o].status = "approved"
        /\ \E a \in ActiveApprovals(o) : Invalidate(o, a)
     \/ /\ order[o].status # "approved" \/ ActiveApprovals(o) = {}
        /\ UNCHANGED <<stockVars, approval, fo, receipt>>
  /\ UNCHANGED <<onHand, hold, inFlight>>

Submit(o) ==
  /\ order[o].status = "draft"
  /\ Unlocked(o)
  /\ order' = [order EXCEPT ![o].status = "awaiting_approval"]
  /\ UNCHANGED <<onHand, stockVars, approval, hold, fo, receipt, inFlight>>

(* approve_sales_order: reserve what is on hand and unreserved, backorder the
   rest.  The primary key of the commitments refuses a line that has one. *)
Approve(o, stock) ==
  LET want == order[o].qty
      got  == Grantable(want, stock)
      back == [s \in Skus |-> want[s] - got[s]]
  IN  /\ order[o].status \in {"draft", "awaiting_approval"}
      /\ Unlocked(o)
      /\ \A s \in Skus : want[s] > 0 => commitment[o][s].approval = 0
      /\ \E a \in Approvals :
           /\ FreshApproval(a)
           /\ approval' = [approval EXCEPT ![a] =
                [order |-> o, policy |-> order[o].policy, state |-> "active"]]
           /\ commitment' = [commitment EXCEPT ![o] = [s \in Skus |->
                IF want[s] > 0
                THEN NewCommitment(a, want[s], got[s], back[s])
                ELSE commitment[o][s]]]
           /\ order' = [order EXCEPT ![o].status = "approved", ![o].approved = a]
           /\ CreateFulfillment(o, a, order[o].policy, got, back)
      /\ Book(o, got)
      /\ UNCHANGED <<onHand, hold, receipt, inFlight>>

-----------------------------------------------------------------------------
ReducedTwice(x, c, freed) ==
  [x EXCEPT !.reserved = @ - Total(freed, Skus), !.backorder = @ - Total(c, Skus)]

(* What a cancellation leaves of the latest fulfillment order x: the value of
   the freed quantity comes off what is covered, not off what is required, and
   no coverage is released. *)
ReducedFulfillment(x, c, freed) ==
  LET value    == Total(freed, {s \in Skus : x.lines[s] > 0})
      quantity == Positive(x.reserved - Total(freed, Skus))
      back     == Positive(x.backorder - Total([s \in Skus |-> c[s] - freed[s]], Skus))
      required == Positive(x.required - value)
      covered  == Lesser(x.covered, required)
  IN  [x EXCEPT !.reserved = quantity, !.backorder = back, !.covered = covered,
         !.status = IF quantity = 0 /\ back = 0 THEN "cancelled"
                    ELSE IF @ = "payment_ready" /\ covered < required /\ x.policy = "prepaid"
                    THEN "reserved" ELSE @]

HoldsDropped(o, status) == [hold EXCEPT ![o] = 0]

(* Only a cancelled order loses its payment hold. *)
HoldsAfter(o, status) == IF status = "cancelled" THEN [hold EXCEPT ![o] = 0] ELSE hold

OpenQuantity(row) == row.ordered - row.picked - row.cancelled

(* The fulfillment order that a cancellation writes, as it was when read. *)
ReadFulfillment(seen) == [fo[seen.f] EXCEPT !.status = seen.status, !.covered = seen.covered]

(* cancel_sales_order, up to _latest_active_fulfillment_order.  It holds the
   row of the order, and with it everything but the status and the covered
   amount of the fulfillment order it has read. *)
BeginCancel(o) ==
  LET f == LatestOf({g \in Fulfillments :
                       fo[g].order = o /\ fo[g].status \notin {"none", "cancelled"}})
  IN  /\ Unlocked(o)
      /\ order[o].status \in {"approved", "held", "partially_cancelled"}
      /\ order[o].approved # 0
      /\ \E s \in LinesOf(o, order[o].approved) : OpenQuantity(commitment[o][s]) > 0
      /\ cancelling' = [cancelling EXCEPT ![o] =
           IF f = 0 THEN [NoCancellation EXCEPT !.open = TRUE]
           ELSE [open |-> TRUE, f |-> f, status |-> fo[f].status, covered |-> fo[f].covered]]
      /\ UNCHANGED <<onHand, stockVars, order, approval, hold, fo, receipt, reversing>>

(* A cancellation in progress fails and is rolled back. *)
AbandonCancel(o) ==
  /\ cancelling[o].open
  /\ cancelling' = [cancelling EXCEPT ![o] = NoCancellation]
  /\ UNCHANGED <<onHand, stockVars, order, approval, hold, fo, receipt, reversing>>

(* The writes of cancel_sales_order: take c[s] units off the requested lines,
   reserved quantity before backorder. *)
Cancel(o, c) ==
  LET lines   == {s \in Skus : c[s] > 0}
      row(s)  == commitment[o][s]
      freed   == [s \in Skus |-> Lesser(c[s], row(s).reserved)]
      left    == Total([s \in lines |-> OpenQuantity(row(s)) - c[s]], lines)
      status  == IF left = 0 THEN "cancelled"
                 ELSE IF order[o].status = "held" THEN "held" ELSE "partially_cancelled"
      latest  == cancelling[o].f
  IN  /\ cancelling[o].open
      /\ lines # {}
      /\ \A s \in lines : row(s).approval = order[o].approved /\ c[s] <= OpenQuantity(row(s))
      /\ commitment' = [commitment EXCEPT ![o] = [s \in Skus |->
           IF s \in lines
           THEN [row(s) EXCEPT !.reserved = @ - freed[s],
                               !.backorder = @ - (c[s] - freed[s]),
                               !.cancelled = @ + c[s]]
           ELSE row(s)]]
      /\ Book(o, [s \in Skus |-> -freed[s]])
      /\ order' = [order EXCEPT ![o].status = status]
      /\ hold' = HoldsAfter(o, status)
      /\ fo' = IF latest = 0 THEN fo
               ELSE [fo EXCEPT ![latest] =
                       ReducedFulfillment(ReadFulfillment(cancelling[o]), c, freed)]
      /\ cancelling' = [cancelling EXCEPT ![o] = NoCancellation]
      /\ UNCHANGED <<onHand, approval, receipt, reversing>>

-----------------------------------------------------------------------------
(* Pick release, payment deadline, reservation retry (payment_fulfillment.py) *)

PartlyPaid(f) == fo[f].covered > 0 \/ fo[f].required = 0

Paid(f) == fo[f].covered >= fo[f].required

(* release_fulfillment_to_pick; a fulfillment order has one pick_releases row. *)
PickRelease(f) ==
  /\ ~fo[f].released
  /\ fo[f].status \in {"reserved", "payment_ready"}
  /\ Paid(f)
  /\ fo[f].reserved > 0
  /\ approval[fo[f].approval].state = "active"
  /\ fo' = [fo EXCEPT ![f].status = "pick_released", ![f].released = TRUE]
  /\ UNCHANGED <<onHand, stockVars, order, approval, hold, receipt, inFlight>>

(* process_payment_deadline, for a deadline that has passed.  Only prepaid
   generations have one; the CHECK of the commitments refuses the update of a
   line with picked or cancelled quantity. *)
Deadline(f) ==
  LET o     == fo[f].order
      lines == {s \in LinesOf(o, fo[f].approval) : commitment[o][s].reserved > 0}
      row(s) == Recommitted(commitment[o][s], 0, commitment[o][s].ordered)
  IN  /\ fo[f].status \notin {"none", "pick_released", "payment_hold"}
      /\ Unlocked(o)
      /\ ~(Paid(f) /\ fo[f].status \in {"reserved", "payment_ready"})
      /\ fo[f].policy = "prepaid"
      /\ \A s \in lines : Partitioned(row(s))
      /\ Book(o, [s \in Skus |-> IF s \in lines THEN -commitment[o][s].reserved ELSE 0])
      /\ commitment' = [commitment EXCEPT ![o] =
           [s \in Skus |-> IF s \in lines THEN row(s) ELSE commitment[o][s]]]
      /\ Releasable(Holdings, {f})
      /\ receipt' = ReceiptsWithout(Holdings, {f})
      /\ fo' = [fo EXCEPT ![f] = [Bare(fo[f], HeldBy(fo[f])) EXCEPT
           !.status = "payment_hold", !.reserved = 0, !.backorder = @ + fo[f].reserved]]
      /\ hold' = [hold EXCEPT ![o] = IF @ = 0 THEN f ELSE @]
      /\ order' = [order EXCEPT ![o].status = "held"]
      /\ UNCHANGED <<onHand, approval, inFlight>>

(* The cleared receipts give[r] pay a new generation x. *)
Funded(x, give) ==
  LET paid == Total(give, Receipts)
  IN  [x EXCEPT !.coverage = give, !.backers = {r \in Receipts : give[r] > 0},
         !.covered = paid,
         !.status = IF paid >= x.required THEN "payment_ready" ELSE "reserved"]

(* The generation f of a retry: the lines of the active approval a reserve
   again what is on hand and unreserved. *)
Regenerate(o, a, f, give, stock) ==
  LET lines == LinesOf(o, a)
      want  == [s \in Skus |-> IF s \in lines THEN commitment[o][s].ordered ELSE 0]
      got   == Grantable(want, stock)
      back  == [s \in Skus |-> want[s] - got[s]]
      row(s) == Recommitted(commitment[o][s], got[s], back[s])
      new   == NewFulfillment(o, a, approval[a].policy, got, back)
  IN  /\ FreshFulfillment(f)
      /\ Total(got, Skus) > 0
      /\ \A s \in lines : Partitioned(row(s))
      /\ Redesignation(o, new.required, give)
      /\ Book(o, got)
      /\ commitment' = [commitment EXCEPT ![o] =
           [s \in Skus |-> IF s \in lines THEN row(s) ELSE commitment[o][s]]]
      /\ fo' = [fo EXCEPT ![f] = Funded(new, give)]

(* retry_sales_order_reservation: a new generation for the active approval,
   paid as far as the cleared receipts of the order reach. *)
Retry(o, stock) ==
  \E a \in ActiveApprovals(o), f \in Fulfillments, give \in [Receipts -> 0..MaxAmount] :
    /\ hold[o] # 0
    /\ Unlocked(o)
    /\ Regenerate(o, a, f, give, stock)
    /\ receipt' = [r \in Receipts |-> [receipt[r] EXCEPT !.designated = @ + give[r]]]
    /\ hold' = [hold EXCEPT ![o] = 0]
    /\ order' = [order EXCEPT ![o].status = "approved"]
    /\ UNCHANGED <<onHand, approval, inFlight>>

-----------------------------------------------------------------------------
(* Payment receipts (payment_fulfillment.py) *)

(* The receipt clears, and what its fulfillment order misses is designated. *)
Clear(r, row) ==
  LET f == row.intended
      n == Designation(f, row.amount)
  IN  /\ receipt' = [receipt EXCEPT ![r] = [row EXCEPT !.state = "cleared", !.designated = n]]
      /\ fo' = IF n = 0 THEN fo ELSE [fo EXCEPT ![f] = Designated(fo[f], r, n)]

NewReceipt(o, amount) ==
  [state |-> "pending", order |-> o, amount |-> amount, designated |-> 0,
   intended |-> LatestOf({f \in Fulfillments : fo[f].order = o})]

(* record_payment_receipt: cash clears at once, anything else is verified. *)
RecordReceipt(r, o, amount) ==
  /\ receipt[r].state = "none"
  /\ order[o].status # "none"
  /\ Unlocked(o)
  /\ receipt' = [receipt EXCEPT ![r] = NewReceipt(o, amount)]
  /\ UNCHANGED <<onHand, stockVars, order, approval, hold, fo, inFlight>>

RecordCash(r, o, amount) ==
  /\ receipt[r].state = "none"
  /\ order[o].status # "none"
  /\ Unlocked(o)
  /\ Clear(r, NewReceipt(o, amount))
  /\ UNCHANGED <<onHand, stockVars, order, approval, hold, inFlight>>

(* verify, provider confirmation and check clearance *)
ClearReceipt(r) ==
  /\ receipt[r].state = "pending"
  /\ Clear(r, receipt[r])
  /\ UNCHANGED <<onHand, stockVars, order, approval, hold, inFlight>>

(* reverse_payment_receipt, which holds the rows of the receipt: it reads
   every fulfillment order the receipt ever backed, one that is released for
   picking refuses the reversal, and what each holds of all its receipts. *)
BeginReversal(r) ==
  LET backed == {f \in Fulfillments : r \in fo[f].backers}
  IN  /\ receipt[r].state = "cleared"
      /\ ~reversing[r].open
      /\ \A f \in backed : fo[f].status # "pick_released"
      /\ reversing' = [reversing EXCEPT ![r] = [open |-> TRUE, backed |-> backed, held |->
           [f \in Fulfillments |->
              IF f \in backed THEN HeldBy(fo[f]) ELSE [x \in Receipts |-> 0]]]]
      /\ UNCHANGED <<onHand, stockVars, order, approval, hold, fo, receipt, cancelling>>

(* A reversal in progress fails and is rolled back. *)
AbandonReversal(r) ==
  /\ reversing[r].open
  /\ reversing' = [reversing EXCEPT ![r] = NoReversal]
  /\ UNCHANGED <<onHand, stockVars, order, approval, hold, fo, receipt, cancelling>>

(* Its writes: the fulfillment orders lose the coverage that was read.  The
   CHECK of the balances leaves a reversed receipt no designation. *)
ReverseReceipt(r) ==
  LET seen == reversing[r]
  IN  /\ seen.open
      /\ Releasable(seen.held, seen.backed)
      /\ GivenBack(seen.held, seen.backed, r) = receipt[r].designated
      /\ receipt' = [ReceiptsWithout(seen.held, seen.backed) EXCEPT ![r].state = "reversed"]
      /\ fo' = [f \in Fulfillments |->
                  IF f \in seen.backed THEN Bare(fo[f], seen.held[f]) ELSE fo[f]]
      /\ reversing' = [reversing EXCEPT ![r] = NoReversal]
      /\ UNCHANGED <<onHand, stockVars, order, approval, hold, cancelling>>

-----------------------------------------------------------------------------
(* Stock moves under the reservations: receipts, adjustments and transfers
   look at what is on hand only (inventory_projection_service.py). *)
StockIn(s) ==
  /\ onHand[s] < MaxStock
  /\ onHand' = [onHand EXCEPT ![s] = @ + 1]
  /\ UNCHANGED <<stockVars, order, approval, hold, fo, receipt, inFlight>>

StockOut(s) ==
  /\ onHand[s] > 0
  /\ onHand' = [onHand EXCEPT ![s] = @ - 1]
  /\ UNCHANGED <<stockVars, order, approval, hold, fo, receipt, inFlight>>

Quantities == [Skus -> 0..MaxQty]

(* The commands that take stock for an order, having read how much there is. *)
Promise(o, stock) == Approve(o, stock) \/ Retry(o, stock)

(* The other commands that lock the row of an order. *)
OrderCommand(o) ==
  \/ Submit(o) \/ BeginCancel(o)
  \/ \E q \in Quantities :
       \/ /\ \E s \in Skus : q[s] > 0
          /\ \E policy \in Policies : CreateDraft(o, q, policy) \/ Revise(o, q, policy)
       \/ Cancel(o, q)
  \/ \E r \in Receipts, amount \in 1..MaxAmount :
       RecordReceipt(r, o, amount) \/ RecordCash(r, o, amount)
  \/ \E f \in Fulfillments : fo[f].order = o /\ Deadline(f)

(* The commands that lock no order. *)
OtherCommand ==
  \/ \E o \in Orders : AbandonCancel(o)
  \/ \E f \in Fulfillments : PickRelease(f)
  \/ \E r \in Receipts :
       ClearReceipt(r) \/ BeginReversal(r) \/ AbandonReversal(r) \/ ReverseReceipt(r)
  \/ \E s \in Skus : StockIn(s) \/ StockOut(s)

(* Of what is modelled here, nothing that comes between the two reads of a
   promise changes both on hand and reserved; Picking adds the steps that do. *)
Next ==
  \/ \E o \in Orders : Promise(o, onHand) \/ OrderCommand(o)
  \/ OtherCommand

Spec == Init /\ [][Next]_vars

-----------------------------------------------------------------------------
(* Types of the rows. *)

CommitmentRows ==
  [approval : 0..MaxApprovals, ordered : Int, reserved : Int, picked : Int,
   backorder : Int, cancelled : Int]
OrderRows ==
  [status : {"none", "draft", "awaiting_approval", "approved", "held",
             "partially_cancelled", "cancelled"},
   approved : 0..MaxApprovals, qty : [Skus -> Nat], policy : Policies \cup {"none"}]
ApprovalRows ==
  [order : Orders \cup {NoOrder}, policy : Policies \cup {"none"},
   state : {"none", "active", "invalidated"}]
FulfillmentRows ==
  [order : Orders \cup {NoOrder}, approval : 0..MaxApprovals, policy : Policies \cup {"none"},
   status : {"none", "reserved", "payment_ready", "pick_released", "partially_picked",
             "picked", "payment_hold", "cancelled"},
   lines : [Skus -> Nat], reserved : Nat, backorder : Nat, released : BOOLEAN, picked : Nat,
   required : Nat, covered : Nat, coverage : [Receipts -> Int], backers : SUBSET Receipts]
ReceiptRows ==
  [state : {"none", "pending", "cleared", "reversed"}, order : Orders \cup {NoOrder},
   intended : 0..MaxFulfillments, amount : Nat, designated : Int]
CancellationRows ==
  [open : BOOLEAN, f : 0..MaxFulfillments, covered : Nat,
   status : {"none", "reserved", "payment_ready", "pick_released", "partially_picked",
             "picked", "payment_hold"}]
ReversalRows ==
  [open : BOOLEAN, backed : SUBSET Fulfillments, held : [Fulfillments -> [Receipts -> Nat]]]

(* Every variable keeps its rows well formed. *)
TypeOK ==
  /\ onHand \in [Skus -> Nat]
  /\ reserved \in [Skus -> Nat]
  /\ ledger \in [Orders -> [Skus -> Int]]
  /\ commitment \in [Orders -> [Skus -> CommitmentRows]]
  /\ order \in [Orders -> OrderRows]
  /\ approval \in [Approvals -> ApprovalRows]
  /\ hold \in [Orders -> 0..MaxFulfillments]
  /\ fo \in [Fulfillments -> FulfillmentRows]
  /\ receipt \in [Receipts -> ReceiptRows]
  /\ cancelling \in [Orders -> CancellationRows]
  /\ reversing \in [Receipts -> ReversalRows]

-----------------------------------------------------------------------------
(* Safety *)

(* The reserved quantity of a SKU, which four handlers maintain by increments,
   is what the reservation events of all orders add up to. *)
ReservedMatchesLedger ==
  \A s \in Skus : reserved[s] = Total([o \in Orders |-> ledger[o][s]], Orders)

(* A line commitment always partitions its ordered quantity, claims no more
   than its reservation events hold, and does not outlive its approval. *)
CommitmentsBacked ==
  \A o \in Orders, s \in Skus :
    LET c == commitment[o][s]
    IN  /\ Partitioned(c)
        /\ c.reserved <= ledger[o][s]
        /\ c.approval # 0 => c.approval \in ActiveApprovals(o)

(* The designated balance of a receipt is what its coverage events on all
   fulfillment orders add up to, within the receipt, and nothing once the
   receipt is reversed: whatever clears, expires, is revised, retried, cancelled
   or reversed meanwhile. *)
CoverageReconciles ==
  \A r \in Receipts :
    /\ receipt[r].designated = Net([f \in Fulfillments |-> fo[f].coverage[r]], Fulfillments)
    /\ receipt[r].designated \in 0..receipt[r].amount
    /\ receipt[r].designated > 0 => receipt[r].state = "cleared"

Covered(x) == x.status = "pick_released" /\ x.policy = "prepaid" => x.covered >= x.reserved

(* What is released for picking of a prepaid order stays paid for, whatever is
   cancelled, cleared or expires meanwhile: the reversal of a receipt that paid
   for it is the one thing that can take the payment. *)
ReleasedStaysPaid ==
  \A f \in Fulfillments :
    Covered(fo[f]) \/ \E r \in fo[f].backers : receipt[r].state = "reversed"

(* An order is held only while a payment hold names the generation that
   expired: reservation retry, which asks for the hold, stays the way out. *)
HeldHasHold ==
  \A o \in Orders : order[o].status = "held" => hold[o] # 0

(* A later payment never revives an expired reservation (release_fulfillment_to_pick
   asks for a retry, which creates another generation). *)
ExpiredStaysExpired ==
  [][\A f \in Fulfillments :
       fo[f].status = "payment_hold" => fo'[f].status \in {"payment_hold", "cancelled"}]_vars

(* Sales never promise stock that is not on hand or is promised already. *)
ATP == INSTANCE AvailableToPromise WITH promised <- reserved
PromisesOnlyAvailable == ATP!AtpSpec

=============================================================================
