--------------------------- MODULE InternalStock ---------------------------
(***************************************************************************)
(* The stock of one SKU in several warehouses: opening stock, goods        *)
(* receipts, transfers between warehouses, adjustments and their reversal, *)
(* and the rebuild of both projections from the ledger of movements.       *)
(*                                                                         *)
(* A command holds the lock of the SKU in its warehouse while it reads and *)
(* writes, and shares the rebuild lock, so it is one step but for the row  *)
(* of the valuation it may find missing.  A goods receipt takes neither    *)
(* lock: it waits for others at that row only, if there is one.            *)
(*                                                                         *)
(* The ledger is kept as totals per warehouse and leg: the order of its    *)
(* entries, on which a rebuild may be refused, is lost.  Left out are the  *)
(* locations (a receipt may always be into one of its own), reservations,  *)
(* lots, costs, and commands that fail, which change nothing.              *)
(***************************************************************************)
EXTENDS Functions, Integers, Units

CONSTANTS
  Warehouses,
  Transfers,    \* identities of transfers
  Adjustments,  \* identities of adjustments
  Arrivals,     \* goods receipts that are posted at the same time
  Incoming      \* bound: units that enter by opening stock and goods receipts

ASSUME StockAssumption ==
  IsFiniteSet(Warehouses) /\ IsFiniteSet(Transfers) /\ Incoming \in Nat

VARIABLES
  ledger,      \* stock_movements: quantity per warehouse and leg
  stock,       \* inventory_availability, per warehouse and custody
  valuation,   \* inventory_valuation: the quantity of the warehouses that have a row
  transfer,    \* inventory_transfers
  adjustment,  \* inventory_adjustments
  arrival,     \* goods receipts under way that have found no row of the valuation
  creating,    \* warehouses where the command that holds the lock found none
  rebuild      \* the rebuild that has deleted what there was, if there is one

stockVars ==
  <<ledger, stock, valuation, transfer, adjustment, arrival, creating, rebuild>>

-----------------------------------------------------------------------------
Movable == 0..Incoming

Custodies == {"available", "transfer_in_transit"}

Legs ==
  {"opening_in", "goods_receipt_in", "transfer_source_out", "transfer_in_transit_in",
   "transfer_in_transit_out", "transfer_destination_in", "adjustment_surplus_in",
   "adjustment_shortage_out", "adjustment_surplus_reversal_out",
   "adjustment_shortage_reversal_in"}

CustodyOf(leg) ==
  IF leg \in {"transfer_in_transit_in", "transfer_in_transit_out"}
  THEN "transfer_in_transit" ELSE "available"

TransferRow ==
  [status : {"none", "released", "received"}, from : Warehouses, to : Warehouses, quantity : Movable]

AdjustmentRow ==
  [status : {"none", "pending_authorization", "posted", "reversed"},
   kind : {"surplus", "shortage"}, warehouse : Warehouses, quantity : Movable]

(* None under way: no quantity. *)
ArrivalRow == [warehouse : Warehouses, quantity : Movable]

StockInit ==
  /\ ledger = [w \in Warehouses |-> [leg \in Legs |-> 0]]
  /\ stock = [w \in Warehouses |-> [c \in Custodies |-> 0]]
  /\ valuation = [w \in {} |-> 0]
  /\ \E w \in Warehouses :
       /\ transfer = [t \in Transfers |->
            [status |-> "none", from |-> w, to |-> w, quantity |-> 0]]
       /\ adjustment = [a \in Adjustments |->
            [status |-> "none", kind |-> "surplus", warehouse |-> w, quantity |-> 0]]
       /\ arrival = [a \in Arrivals |-> [warehouse |-> w, quantity |-> 0]]
  /\ creating = {} /\ rebuild = {}

-----------------------------------------------------------------------------
(* Movements are only added; a leg moves the stock of its own custody. *)
Entered(w, legs, quantity) == [ledger EXCEPT ![w] =
  [leg \in Legs |-> IF leg \in legs THEN ledger[w][leg] + quantity ELSE ledger[w][leg]]]

(* A missing row is created, by what enters a warehouse only. *)
WithRow(rows, w, quantity) ==
  [x \in DOMAIN rows \cup {w} |-> IF x = w THEN quantity ELSE rows[x]]

ValueIn(rows, w) == IF w \in DOMAIN rows THEN rows[w] ELSE 0

Revalued(rows, w, quantity) == WithRow(rows, w, ValueIn(rows, w) + quantity)

Supplied ==
  Total([w \in Warehouses |-> ledger[w]["opening_in"] + ledger[w]["goods_receipt_in"]], Warehouses)

OnTheRamp == Total([a \in Arrivals |-> arrival[a].quantity], Arrivals)

(* Stock is added to what is there; the valuation is written as a whole. *)
Enter(leg, w, quantity, rows) ==
  /\ ledger' = Entered(w, {leg}, quantity)
  /\ stock' = [stock EXCEPT ![w]["available"] = @ + quantity]
  /\ valuation' = rows

(* The rebuild lock and the locks of the SKU in some warehouses. *)
LocksFree(warehouses) == rebuild = {} /\ creating \cap warehouses = {}

(* A command that may create the row of the valuation finds none, while a
   goods receipt may create it still. *)
FindNoRow(w) ==
  /\ LocksFree({w})
  /\ w \notin DOMAIN valuation
  /\ creating' = creating \cup {w}
  /\ UNCHANGED <<ledger, stock, valuation, transfer, adjustment, arrival, rebuild>>

(* Only with a row, or when none was found. *)
MayCreate(w) == rebuild = {} /\ (w \in DOMAIN valuation \/ w \in creating)

(* What it then writes, over a row that was created meanwhile. *)
Created(rows, w, quantity) ==
  IF w \in creating THEN WithRow(rows, w, quantity) ELSE Revalued(rows, w, quantity)

OpenStock(w, quantity) ==
  /\ Supplied + OnTheRamp + quantity <= Incoming
  /\ MayCreate(w)
  /\ Enter("opening_in", w, quantity, Created(valuation, w, quantity))
  /\ creating' = creating \ {w}
  /\ UNCHANGED <<transfer, adjustment, arrival, rebuild>>

(* What Procurement posts, if its row of the valuation is read, or found
   missing, and written without a step of another command between. *)
ReceiveGoods(w, quantity) ==
  /\ Supplied + OnTheRamp + quantity <= Incoming
  /\ Enter("goods_receipt_in", w, quantity, Revalued(valuation, w, quantity))
  /\ UNCHANGED <<transfer, adjustment, arrival, creating, rebuild>>

(* The rebuild has deleted the row: who wants to lock it waits, and does not
   find the one that is made in its place. *)
Replaces(w) == \E r \in rebuild : r.warehouse = w /\ r.valued

BeginReceipt(a, w, quantity) ==
  /\ arrival[a].quantity = 0
  /\ Supplied + OnTheRamp + quantity <= Incoming
  /\ w \notin DOMAIN valuation \/ Replaces(w)
  /\ arrival' = [arrival EXCEPT ![a] = [warehouse |-> w, quantity |-> quantity]]
  /\ UNCHANGED <<ledger, stock, valuation, transfer, adjustment, creating, rebuild>>

FinishReceipt(a) ==
  LET w == arrival[a].warehouse
      quantity == arrival[a].quantity
  IN /\ quantity > 0
     /\ ~Replaces(w)
     /\ Enter("goods_receipt_in", w, quantity, WithRow(valuation, w, quantity))
     /\ arrival' = [arrival EXCEPT ![a].quantity = 0]
     /\ UNCHANGED <<transfer, adjustment, creating, rebuild>>

(* The goods leave the shelf; their warehouse goes on valuing them. *)
RequestTransfer(t, from, to, quantity) ==
  /\ transfer[t].status = "none"
  /\ from # to /\ LocksFree({from, to})
  /\ stock[from]["available"] >= quantity
  /\ from \in DOMAIN valuation
  /\ transfer' = [transfer EXCEPT ![t] =
       [status |-> "released", from |-> from, to |-> to, quantity |-> quantity]]
  /\ ledger' = Entered(from, {"transfer_source_out", "transfer_in_transit_in"}, quantity)
  /\ stock' = [stock EXCEPT ![from]["available"] = @ - quantity,
                             ![from]["transfer_in_transit"] = @ + quantity]
  /\ UNCHANGED <<valuation, adjustment, arrival, creating, rebuild>>

OwnershipKept(from, to, quantity) == Created(valuation, to, quantity)

Ownership(from, to, quantity) == Created(Revalued(valuation, from, -quantity), to, quantity)

Released(t) == transfer[t].status # "none"

(* Read again under the lock of both warehouses. *)
Receivable(t) == transfer[t].status = "released"

ReceiveTransfer(t) ==
  LET from == transfer[t].from
      to == transfer[t].to
      quantity == transfer[t].quantity
  IN /\ Receivable(t)
     /\ LocksFree({from}) /\ MayCreate(to)
     /\ stock[from]["transfer_in_transit"] >= quantity
     /\ from \in DOMAIN valuation
     /\ transfer' = [transfer EXCEPT ![t].status = "received"]
     /\ ledger' = [ledger EXCEPT ![from]["transfer_in_transit_out"] = @ + quantity,
                                 ![to]["transfer_destination_in"] = @ + quantity]
     /\ stock' = [stock EXCEPT ![from]["transfer_in_transit"] = @ - quantity,
                               ![to]["available"] = @ + quantity]
     /\ valuation' = Ownership(from, to, quantity)
     /\ creating' = creating \ {to}
     /\ UNCHANGED <<adjustment, arrival, rebuild>>

RequestAdjustment(a, kind, w, quantity) ==
  /\ adjustment[a].status = "none"
  /\ w \in DOMAIN valuation
  /\ adjustment' = [adjustment EXCEPT ![a] =
       [status |-> "pending_authorization", kind |-> kind, warehouse |-> w, quantity |-> quantity]]
  /\ UNCHANGED <<ledger, stock, valuation, transfer, arrival, creating, rebuild>>

(* Both projections of the warehouse; the stock may not fall below zero. *)
Adjust(w, leg, quantity, stockDelta, valuedDelta) ==
  /\ LocksFree({w})
  /\ stock[w]["available"] + stockDelta >= 0
  /\ ledger' = Entered(w, {leg}, quantity)
  /\ stock' = [stock EXCEPT ![w]["available"] = @ + stockDelta]
  /\ valuation' = [valuation EXCEPT ![w] = @ + valuedDelta]
  /\ UNCHANGED <<transfer, arrival, creating, rebuild>>

PostAdjustment(a) ==
  LET row == adjustment[a]
      w == row.warehouse
      quantity == row.quantity
  IN /\ row.status = "pending_authorization"
     /\ adjustment' = [adjustment EXCEPT ![a].status = "posted"]
     /\ \/ row.kind = "surplus" /\ Adjust(w, "adjustment_surplus_in", quantity, quantity, quantity)
        \/ row.kind = "shortage" /\ Adjust(w, "adjustment_shortage_out", quantity, -quantity, -quantity)

(* The reversal of either kind takes the quantity from the valuation. *)
ReverseAdjustment(a) ==
  LET row == adjustment[a]
      w == row.warehouse
      quantity == row.quantity
  IN /\ row.status = "posted"
     /\ adjustment' = [adjustment EXCEPT ![a].status = "reversed"]
     /\ \/ /\ row.kind = "surplus"
           /\ Adjust(w, "adjustment_surplus_reversal_out", quantity, -quantity, -quantity)
        \/ /\ row.kind = "shortage"
           /\ Adjust(w, "adjustment_shortage_reversal_in", quantity, quantity, -quantity)

-----------------------------------------------------------------------------
(* The legs a rebuild counts as incoming, of those modelled here. *)
ReplayedIn ==
  {"opening_in", "transfer_in_transit_in", "transfer_destination_in",
   "adjustment_surplus_in", "adjustment_shortage_reversal_in"}

Replayed(w, c) ==
  Net([leg \in Legs |-> IF leg \in ReplayedIn THEN ledger[w][leg] ELSE -ledger[w][leg]],
      {leg \in Legs : CustodyOf(leg) = c})

Moved(w) == \E leg \in Legs : ledger[w][leg] > 0

(* The rebuild deletes the stock it sees; one that is to be refused changes
   nothing. *)
BeginRebuild(w) ==
  /\ rebuild = {} /\ creating = {}
  /\ \A c \in Custodies : Replayed(w, c) >= 0
  /\ rebuild' = {[warehouse |-> w, units |-> stock[w]["available"], valued |-> w \in DOMAIN valuation]}
  /\ UNCHANGED <<ledger, stock, valuation, transfer, adjustment, arrival, creating>>

(* It deletes the valuation, reads the ledger and adds its movements to what
   receipts have brought meanwhile, of the valuation to a row they created
   after it was deleted.  Refused when a custody falls below zero. *)
FinishRebuild(r, kept) ==
  LET w == r.warehouse
      spared == [available |-> stock[w]["available"] - r.units, transfer_in_transit |-> 0]
  IN /\ kept => ~r.valued
     /\ \A c \in Custodies : spared[c] + Replayed(w, c) >= 0
     /\ stock' = [stock EXCEPT ![w] = [c \in Custodies |-> spared[c] + Replayed(w, c)]]
     /\ valuation' =
          IF Moved(w)
          THEN WithRow(valuation, w, (IF kept THEN ValueIn(valuation, w) ELSE 0)
                 + Replayed(w, "available") + Replayed(w, "transfer_in_transit"))
          ELSE Restrict(valuation, DOMAIN valuation \ {w})
     /\ rebuild' = {}
     /\ UNCHANGED <<ledger, transfer, adjustment, arrival, creating>>

StockNext ==
  \/ \E w \in Warehouses : FindNoRow(w) \/ BeginRebuild(w)
  \/ \E r \in rebuild, kept \in BOOLEAN : FinishRebuild(r, kept)
  \/ \E w \in Warehouses, q \in Movable \ {0} : OpenStock(w, q) \/ ReceiveGoods(w, q)
  \/ \E a \in Arrivals, w \in Warehouses, q \in Movable \ {0} : BeginReceipt(a, w, q)
  \/ \E a \in Arrivals : FinishReceipt(a)
  \/ \E t \in Transfers : ReceiveTransfer(t)
  \/ \E t \in Transfers, f, w \in Warehouses, q \in Movable \ {0} : RequestTransfer(t, f, w, q)
  \/ \E a \in Adjustments : PostAdjustment(a) \/ ReverseAdjustment(a)
  \/ \E a \in Adjustments, k \in {"surplus", "shortage"}, w \in Warehouses, q \in Movable \ {0} :
       RequestAdjustment(a, k, w, q)

StockSpec == StockInit /\ [][StockNext]_stockVars

-----------------------------------------------------------------------------
Valued(w) == ValueIn(valuation, w)

OnHand(w) == stock[w]["available"] + stock[w]["transfer_in_transit"]

(* What is in transit from a warehouse is what its transfers not yet received
   took, through adjustments and rebuilds of either projection. *)
TransitMatchesTransfers == \A w \in Warehouses :
  stock[w]["transfer_in_transit"] =
    Total([t \in Transfers |-> transfer[t].quantity],
          {t \in Transfers : transfer[t].from = w /\ transfer[t].status = "released"})

(* A warehouse never values more units than it has: transfers, corrections,
   goods receipts without a lock and rebuilds take from the valuation what they
   take from the stock, and may leave it short. *)
ValuedAreThere == \A w \in Warehouses : Valued(w) <= OnHand(w)

(* ADR 0003: postings of a SKU in a warehouse are serialized, and the quantity
   valued is the quantity on hand. *)
ValuationAlwaysMatches == \A w \in Warehouses : Valued(w) = OnHand(w)
=============================================================================
