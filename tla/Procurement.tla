---------------------------- MODULE Procurement ----------------------------
(***************************************************************************)
(* A purchase request from its lines to the goods received: it is revised, *)
(* reviewed and converted into purchase orders, which are approved and     *)
(* received in parts.                                                      *)
(*                                                                         *)
(* A handler reads the status of its document, without a row lock, and     *)
(* writes later: a job is a request between the two.  The version that a   *)
(* command expects is the one its job reads.  Every line has its own SKU;  *)
(* base units; all receipts are into one warehouse, those of an order into *)
(* a location of its own, so that receipts meet in the valuation only.     *)
(***************************************************************************)
EXTENDS Functions, Integers, Units

CONSTANTS
  Lines,      \* lines of the purchase request
  Orders,     \* identities of purchase orders
  Jobs,       \* HTTP requests served at the same time
  Quantity,   \* largest quantity requested on a line
  Delivered,  \* bound: units received on a line of an order
  Revisions   \* bound: how often the request is revised

ASSUME ProcurementAssumption ==
  /\ IsFiniteSet(Lines) /\ IsFiniteSet(Orders)
  /\ {Quantity, Delivered} \subseteq Nat \ {0} /\ Revisions \in Nat

VARIABLES
  request,  \* purchase_requests and its lines
  order,    \* purchase_orders and purchase_order_lines
  receipt,  \* goods_receipt_lines, summed per line of an order
  onHand,   \* quantity on hand per SKU, all locations of the warehouse
  valued,   \* inventory_valuation: the quantity of the SKUs that have a row
  job

procurementVars == <<request, order, receipt, onHand, valued, job>>

-----------------------------------------------------------------------------
Quantities == [Lines -> 0..Quantity]

Deliveries == [Lines -> 0..Delivered]

Nothing == [l \in Lines |-> 0]

Some(q) == \E l \in Lines : q[l] > 0

Plus(a, b) == [l \in Lines |-> a[l] + b[l]]

(* A revision deletes the lines and inserts others: their generation. *)
RequestRow ==
  [status : {"draft", "approved", "rejected", "partially_converted", "fully_converted"},
   lines : Quantities, generation : 0..Revisions]

(* converted: its lines refer to lines of the request. *)
OrderRow ==
  [status : {"none", "draft", "approved", "partially_received", "received"},
   converted : BOOLEAN, base : Quantities,
   received : Deliveries, accepted : Deliveries, backorder : [Lines -> -Delivered..Quantity]]

Idle == [op |-> "none"]

NoOrder ==
  [status |-> "none", converted |-> FALSE, base |-> Nothing,
   received |-> Nothing, accepted |-> Nothing, backorder |-> Nothing]

ProcurementInit ==
  /\ \E q \in Quantities :
       /\ Some(q)
       /\ request = [status |-> "draft", lines |-> q, generation |-> 0]
  /\ order = [o \in Orders |-> NoOrder]
  /\ receipt = [o \in Orders |-> [received |-> Nothing, accepted |-> Nothing]]
  /\ onHand = Nothing
  /\ valued = [l \in {} |-> 0]
  /\ job = [j \in Jobs |-> Idle]

-----------------------------------------------------------------------------
(* Units of a line that purchase orders refer to. *)
Converted(l) ==
  Total([o \in Orders |-> order[o].base[l]], {o \in Orders : order[o].converted})

(* The foreign key of order lines keeps the lines they refer to. *)
Unreferenced == \A l \in Lines : Converted(l) = 0

Start(j, record) ==
  /\ job[j] = Idle
  /\ job' = [job EXCEPT ![j] = record]

Finish(j) == job' = [job EXCEPT ![j] = Idle]

BeginRevise(j) ==
  /\ request.status \in {"draft", "rejected"}
  /\ Start(j, [op |-> "revise"])
  /\ UNCHANGED <<request, order, receipt, onHand, valued>>

FinishRevise(j, lines) ==
  /\ job[j].op = "revise"
  /\ request.generation < Revisions
  /\ Some(lines)
  /\ Unreferenced
  /\ request' = [status |-> "draft", lines |-> lines, generation |-> request.generation + 1]
  /\ Finish(j)
  /\ UNCHANGED <<order, receipt, onHand, valued>>

(* The value of the lines is held against the limit of the approver. *)
BeginReview(j, verdict) ==
  /\ request.status = "draft"
  /\ Start(j, [op |-> verdict])
  /\ UNCHANGED <<request, order, receipt, onHand, valued>>

(* Whatever the status has become in the meantime. *)
Approve(j) ==
  /\ job[j].op = "approved"
  /\ request' = [request EXCEPT !.status = "approved"]
  /\ Finish(j)
  /\ UNCHANGED <<order, receipt, onHand, valued>>

Reject(j) ==
  /\ job[j].op = "rejected"
  /\ request' = [request EXCEPT !.status = "rejected"]
  /\ Finish(j)
  /\ UNCHANGED <<order, receipt, onHand, valued>>

Unlocked == TRUE

(* The advisory lock of the conversions of the request. *)
ConversionLock == \A j \in Jobs : job[j].op # "convert"

BeginConvert(j, o, take) ==
  /\ ConversionLock
  /\ request.status \in {"approved", "partially_converted"}
  /\ order[o].status = "none"
  /\ Some(take)
  /\ \A l \in Lines : take[l] <= request.lines[l] - Converted(l)
  /\ Start(j, [op |-> "convert", order |-> o, take |-> take, of |-> request.generation])
  /\ UNCHANGED <<request, order, receipt, onHand, valued>>

(* The status follows from the lines read again; refused when a revision has
   deleted the lines, or another order has taken the code. *)
FinishConvert(j) ==
  /\ job[j].op = "convert"
  /\ Finish(j)
  /\ UNCHANGED <<receipt, onHand, valued>>
  /\ LET o == job[j].order
         take == job[j].take
     IN \/ /\ job[j].of = request.generation
           /\ order[o].status = "none"
           /\ order' = [order EXCEPT ![o] =
                [NoOrder EXCEPT !.status = "draft", !.converted = TRUE, !.base = take]]
           /\ request' = [request EXCEPT !.status =
                IF \A l \in Lines : Converted(l) + take[l] >= request.lines[l]
                THEN "fully_converted" ELSE "partially_converted"]
        \/ /\ job[j].of # request.generation \/ order[o].status # "none"
           /\ UNCHANGED <<request, order>>

-----------------------------------------------------------------------------
(* An order may also be written without a request. *)
CreateOrder(o, base) ==
  /\ order[o].status = "none"
  /\ Some(base)
  /\ order' = [order EXCEPT ![o] = [NoOrder EXCEPT !.status = "draft", !.base = base]]
  /\ UNCHANGED <<request, receipt, onHand, valued, job>>

BeginApproveOrder(j, o) ==
  /\ order[o].status = "draft"
  /\ Start(j, [op |-> "approve_order", order |-> o])
  /\ UNCHANGED <<request, order, receipt, onHand, valued>>

FinishApproveOrder(j) ==
  /\ job[j].op = "approve_order"
  /\ order' = [order EXCEPT ![job[j].order].status = "approved"]
  /\ Finish(j)
  /\ UNCHANGED <<request, receipt, onHand, valued>>

(* The quantities of a line are divided between accepted and refused; more than
   what is open needs an approval, which is held against the open quantity read.
   The movements of a receipt are one group, in which a leg occurs once: stock of
   a second line is refused. *)
BeginReceive(j, o, received, accepted) ==
  /\ order[o].status \in {"approved", "partially_received", "received"}
  /\ Some(received)
  /\ \A l \in Lines : accepted[l] <= received[l] /\ (order[o].base[l] = 0 => received[l] = 0)
  /\ Cardinality({l \in Lines : accepted[l] > 0}) <= 1
  /\ Start(j, [op |-> "receive", order |-> o, received |-> received,
               accepted |-> accepted, status |-> order[o].status])
  /\ UNCHANGED <<request, order, receipt, onHand, valued>>

Taking(j) == {l \in Lines : job[j].received[l] > 0}

Stocked(j) == {l \in Lines : job[j].accepted[l] > 0}

(* The lines of the order and the valuations a posting has locked, and the
   valuation rows it found missing. *)
Posting(j) == job[j].op = "posting"

StatusAfter(o, accepted, old) ==
  LET base == Total(order[o].base, Lines)
      total == Total(Plus(order[o].accepted, accepted), Lines)
  IN IF total >= base THEN "received" ELSE IF total > 0 THEN "partially_received" ELSE "approved"

(* The posting has updated its lines and read the valuation: row locks keep out
   another posting on the same line, or on the same valuation if its row exists. *)
Post(j) ==
  /\ job[j].op = "receive"
  /\ LET o == job[j].order
     IN /\ \A i \in Jobs : Posting(i) => \A l \in Taking(i) \cap Taking(j) :
             /\ job[i].order # o
             /\ l \in DOMAIN valued => l \notin Stocked(i) \cap Stocked(j)
        /\ \A l \in Lines : order[o].received[l] + job[j].received[l] <= Delivered
        /\ job' = [job EXCEPT ![j] =
             [op |-> "posting", order |-> o, received |-> job[j].received,
              accepted |-> job[j].accepted,
              seen |-> Restrict(valued, DOMAIN valued \cap Stocked(j)),
              changed |-> StatusAfter(o, job[j].accepted, job[j].status) # job[j].status,
              status |-> StatusAfter(o, job[j].accepted, job[j].status)]]
  /\ UNCHANGED <<request, order, receipt, onHand, valued>>

LinesReceivedAgain(row, received, accepted) ==
  [row EXCEPT !.received = Plus(@, received), !.accepted = Plus(@, accepted),
              !.backorder = [l \in Lines |->
                IF received[l] > 0 THEN row.base[l] - accepted[l] ELSE @[l]]]

(* Increments in SQL. *)
LinesReceived(row, received, accepted) ==
  [row EXCEPT !.received = Plus(@, received), !.accepted = Plus(@, accepted),
              !.backorder = [l \in Lines |->
                IF received[l] > 0 THEN row.base[l] - (row.accepted[l] + accepted[l]) ELSE @[l]]]

(* A row that another posting has locked or created meanwhile is waited for and
   overwritten. *)
ValuationFree(j) == \A i \in Jobs \ {j} :
  Posting(i) => Stocked(j) \cap DOMAIN job[i].seen = {}

(* The quantity of the valuation is written as computed from the row read. *)
Valuation(j) == [l \in Stocked(j) |->
  job[j].accepted[l] + IF l \in DOMAIN job[j].seen THEN job[j].seen[l] ELSE 0]

Commit(j) ==
  /\ Posting(j)
  /\ ValuationFree(j)
  /\ LET o == job[j].order
         row == LinesReceived(order[o], job[j].received, job[j].accepted)
     IN /\ order' = [order EXCEPT ![o] =
             IF job[j].changed THEN [row EXCEPT !.status = job[j].status] ELSE row]
        /\ receipt' = [receipt EXCEPT ![o].received = Plus(@, job[j].received),
                                      ![o].accepted = Plus(@, job[j].accepted)]
  /\ onHand' = Plus(onHand, job[j].accepted)
  /\ valued' = [l \in DOMAIN valued \cup Stocked(j) |->
       IF l \in Stocked(j) THEN Valuation(j)[l] ELSE valued[l]]
  /\ Finish(j)
  /\ UNCHANGED request

(* Of a revision whose lines are referred to, of a receipt not approved. *)
Refuse(j) ==
  /\ job[j].op \in {"revise", "receive"}
  /\ Finish(j)
  /\ UNCHANGED <<request, order, receipt, onHand, valued>>

ProcurementNext ==
  \/ \E o \in Orders, q \in Quantities : CreateOrder(o, q)
  \/ \E j \in Jobs :
       \/ BeginRevise(j) \/ Approve(j) \/ Reject(j) \/ FinishConvert(j)
       \/ FinishApproveOrder(j) \/ Post(j) \/ Commit(j) \/ Refuse(j)
       \/ \E verdict \in {"approved", "rejected"} : BeginReview(j, verdict)
       \/ \E q \in Quantities : FinishRevise(j, q) \/ \E o \in Orders : BeginConvert(j, o, q)
       \/ \E o \in Orders : BeginApproveOrder(j, o)
       \/ \E o \in Orders, r, a \in Deliveries : BeginReceive(j, o, r, a)

ProcurementSpec == ProcurementInit /\ [][ProcurementNext]_procurementVars

-----------------------------------------------------------------------------
(* Purchase orders never take more from a line of a request than the line asks
   for, however revisions, late reviews and conversions of the request overlap. *)
ConvertedWithinRequest == \A l \in Lines : Converted(l) <= request.lines[l]

(* The lines of an order, its status and the stock reconcile with the receipts
   posted, however these overlap; the valuation may lose but never invents. *)
ReceiptsReconcile ==
  /\ \A o \in Orders :
       /\ order[o].received = receipt[o].received
       /\ order[o].accepted = receipt[o].accepted
       /\ order[o].status = "received" =>
            Total(receipt[o].accepted, Lines) >= Total(order[o].base, Lines)
       /\ \A l \in Lines : receipt[o].received[l] > 0 =>
            order[o].backorder[l] = order[o].base[l] - receipt[o].accepted[l]
  /\ \A l \in Lines :
       /\ onHand[l] = Total([o \in Orders |-> receipt[o].accepted[l]], Orders)
       /\ l \in DOMAIN valued => valued[l] <= onHand[l]
=============================================================================
