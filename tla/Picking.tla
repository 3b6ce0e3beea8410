------------------------------- MODULE Picking -------------------------------
(***************************************************************************)
(* Picking, pick reversal and dispatch of released fulfillment orders:     *)
(* picking.py and dispatch.py, on top of Reservation.                      *)
(*                                                                         *)
(* A pick moves stock from the available locations to the dispatch staging *)
(* location of the warehouse, which all fulfillment orders share; dispatch *)
(* moves it on to the transit location.  The lots, serial numbers and      *)
(* barcodes that choose among equal units and the valuation of the         *)
(* movements are left out; If-Match versions are always current.           *)
(*                                                                         *)
(* Approval and retry read what is on hand in one statement and what is    *)
(* reserved in the next, under locks that no pick takes: with picks, which *)
(* move both, the two reads are two steps.                                 *)
(***************************************************************************)
EXTENDS Reservation

CONSTANT Picks        \* identities of pick postings

ASSUME PickingAssumption == IsFiniteSet(Picks)

VARIABLES
  pick,        \* pick_postings with their lines, reversals and delivery lines
  staged,      \* inventory_availability at the dispatch staging location
  transit,     \* inventory_availability at the transit location
  dispatched,  \* dispatched_quantity_base of each fulfillment order
  looked       \* of each order, the stock its approval or retry in progress read

pickVars == <<pick, staged, transit, dispatched>>

-----------------------------------------------------------------------------
NoLook == [open |-> FALSE, stock |-> [s \in Skus |-> 0]]

NoPick == [state |-> "none", fulfillment |-> 0, qty |-> [s \in Skus |-> 0], sent |-> FALSE]

PickingInit ==
  /\ Init
  /\ pick = [p \in Picks |-> NoPick]
  /\ staged = [s \in Skus |-> 0]
  /\ transit = [s \in Skus |-> 0]
  /\ dispatched = [f \in Fulfillments |-> 0]
  /\ looked = [o \in Orders |-> NoLook]

PostedOf(f) == {p \in Picks : pick[p].state = "posted" /\ pick[p].fulfillment = f}

PickTotal(P, s) == Total([p \in P |-> pick[p].qty[s]], P)

(* fulfillment_line_pick_state: what pick release issued of a line and is not
   picked, or was picked and reversed. *)
Remaining(f, s) == fo[f].lines[s] - PickTotal(PostedOf(f), s)

-----------------------------------------------------------------------------
(* The SKUs whose reservation locks an approval or a retry of order o takes. *)
Wanted(o) == {s \in Skus : order[o].qty[s] > 0 \/ commitment[o][s].approval # 0}

(* approve_sales_order and retry_sales_order_reservation, up to the read of
   what is on hand: they hold the row of the order and its reservation locks. *)
BeginPromise(o) ==
  /\ order[o].status \in {"draft", "awaiting_approval"} \/ hold[o] # 0
  /\ Unlocked(o)
  /\ ~looked[o].open
  /\ \A p \in Orders : looked[p].open => Wanted(p) \cap Wanted(o) = {}
  /\ looked' = [looked EXCEPT ![o] = [open |-> TRUE, stock |-> onHand]]
  /\ UNCHANGED <<vars, pickVars>>

(* One in progress fails and is rolled back. *)
AbandonPromise(o) ==
  /\ looked[o].open
  /\ looked' = [looked EXCEPT ![o] = NoLook]
  /\ UNCHANGED <<vars, pickVars>>

(* The read of what is reserved, and the writes. *)
EndPromise(o) ==
  /\ looked[o].open
  /\ Promise(o, looked[o].stock)
  /\ looked' = [looked EXCEPT ![o] = NoLook]
  /\ UNCHANGED pickVars

(* The other commands on an order wait for its row, and to reserve or release
   for the reservation locks of the SKUs. *)
LockedCommand(o) ==
  /\ ~looked[o].open
  /\ OrderCommand(o)
  /\ \A p \in Orders : looked[p].open => \A s \in Wanted(p) : reserved'[s] = reserved[s]
  /\ UNCHANGED <<looked, pickVars>>

(* A pick posts reservation events, rows with a foreign key to the order. *)
Pickable(o) == Unlocked(o) /\ ~looked[o].open

-----------------------------------------------------------------------------
(* d[s] units of each line of order o go from reserved to picked.  A line
   without commitment is an update of no row. *)
Consumed(o, d) ==
  [commitment EXCEPT ![o] = [s \in Skus |->
     IF commitment[o][s].approval = 0 THEN commitment[o][s]
     ELSE [commitment[o][s] EXCEPT !.reserved = @ - d[s], !.picked = @ + d[s]]]]

AvailableAfter(d) == [s \in Skus |-> onHand[s] - d[s]]

StagedAfter(d) == [s \in Skus |-> staged[s] + d[s]]

StageUnchecked(o, d) ==
  /\ \A s \in Skus : -d[s] <= staged[s]
  /\ \A s \in Skus : d[s] # 0 => Partitioned(Consumed(o, d)[o][s])
  /\ onHand' = AvailableAfter(d)
  /\ staged' = StagedAfter(d)
  /\ Book(o, [s \in Skus |-> -d[s]])
  /\ commitment' = Consumed(o, d)

(* The stock, the reservation and the commitment of order o move by d[s] units
   of each SKU, out of the available locations and into staging.  The CHECK of
   the commitments refuses negative parts. *)
Stage(o, d) ==
  /\ \A s \in Skus : d[s] <= onHand[s] /\ -d[s] <= staged[s]
  /\ \A s \in Skus : d[s] # 0 => Partitioned(Consumed(o, d)[o][s])
  /\ onHand' = AvailableAfter(d)
  /\ staged' = StagedAfter(d)
  /\ Book(o, [s \in Skus |-> -d[s]])
  /\ commitment' = Consumed(o, d)

PickedStatus(x, picked) == IF x.reserved = picked THEN "picked" ELSE "partially_picked"

PickedOverwriting(f, q) == Total(q, Skus)

PickedAfter(f, q) == fo[f].picked + Total(q, Skus)

(* post_pick: q[s] units of each line, within what is released of it. *)
PostPick(p, f, q) ==
  LET picked == PickedAfter(f, q)
  IN  /\ pick[p].state = "none"
      /\ fo[f].status \in {"pick_released", "partially_picked"}
      /\ Pickable(fo[f].order)
      /\ \E s \in Skus : q[s] > 0
      /\ \A s \in Skus : q[s] <= Remaining(f, s)
      /\ Stage(fo[f].order, q)
      /\ pick' = [pick EXCEPT ![p] = [state |-> "posted", fulfillment |-> f,
                                      qty |-> q, sent |-> FALSE]]
      /\ fo' = [fo EXCEPT ![f].picked = picked, ![f].status = PickedStatus(fo[f], picked)]
      /\ UNCHANGED <<order, approval, hold, receipt, inFlight, transit, dispatched, looked>>

(* What a reversal posts: the movements of the pick, the other way. *)
Reversed(p) == [s \in Skus |-> -pick[p].qty[s]]

ReversedStatus(picked) == IF picked = 0 THEN "pick_released" ELSE "partially_picked"

ReversibleAgain(p) == pick[p].state # "none"

Reversible(p) == pick[p].state = "posted"

(* reverse_pick: a posted pick that has no reversal yet, whatever became of its
   fulfillment order, as long as staging holds as much and the CHECK of the
   fulfillment order allows it. *)
ReversePick(p) ==
  LET f      == pick[p].fulfillment
      picked == fo[f].picked - Total(pick[p].qty, Skus)
  IN  /\ Reversible(p)
      /\ Pickable(fo[f].order)
      /\ picked >= dispatched[f]
      /\ Stage(fo[f].order, Reversed(p))
      /\ pick' = [pick EXCEPT ![p].state = "reversed"]
      /\ fo' = [fo EXCEPT ![f].picked = picked, ![f].status = ReversedStatus(picked)]
      /\ UNCHANGED <<order, approval, hold, receipt, inFlight, transit, dispatched, looked>>

(* The picks of a dispatch are posted, not reversed and not dispatched. *)
Dispatchable(f, P) == P \subseteq {p \in PostedOf(f) : ~pick[p].sent}

(* The dispatch movements of the picks P, and their delivery lines. *)
Shipped(P) == [s \in Skus |-> PickTotal(P, s)]

Sent(P) == [p \in Picks |-> IF p \in P THEN [pick[p] EXCEPT !.sent = TRUE] ELSE pick[p]]

DispatchedStatus(x, sum) ==
  IF sum = x.picked /\ x.picked = x.reserved THEN "dispatched" ELSE "partially_dispatched"

(* dispatch_fulfillment *)
Dispatch(f, P) ==
  LET moved == Shipped(P)
      sum   == dispatched[f] + Total(moved, Skus)
  IN  /\ fo[f].status \in {"partially_picked", "picked", "partially_dispatched"}
      /\ P # {}
      /\ Dispatchable(f, P)
      /\ \A s \in Skus : moved[s] <= staged[s]
      /\ sum <= fo[f].picked
      /\ staged' = [s \in Skus |-> staged[s] - moved[s]]
      /\ transit' = [s \in Skus |-> transit[s] + moved[s]]
      /\ pick' = Sent(P)
      /\ dispatched' = [dispatched EXCEPT ![f] = sum]
      /\ fo' = [fo EXCEPT ![f].status = DispatchedStatus(fo[f], sum)]
      /\ UNCHANGED <<onHand, stockVars, order, approval, hold, receipt, inFlight, looked>>

PickingNext ==
  \/ \E o \in Orders :
       BeginPromise(o) \/ AbandonPromise(o) \/ EndPromise(o) \/ LockedCommand(o)
  \/ OtherCommand /\ UNCHANGED <<looked, pickVars>>
  \/ \E p \in Picks :
       \/ \E f \in Fulfillments, q \in Quantities : PostPick(p, f, q)
       \/ ReversePick(p)
  \/ \E f \in Fulfillments, P \in SUBSET Picks : Dispatch(f, P)

pickingVars == <<vars, pickVars, looked>>
PickingSpec == PickingInit /\ [][PickingNext]_pickingVars

(* The behaviours in which stock leaves by picks only. *)
QuietSpec == PickingInit /\ [][PickingNext /\ ~\E s \in Skus : StockOut(s)]_pickingVars

-----------------------------------------------------------------------------
PickStates == {"none", "posted", "reversed"}
PickRows ==
  [state : PickStates, fulfillment : 0..MaxFulfillments, qty : [Skus -> Nat], sent : BOOLEAN]

(* Rows keep their shape and stock its sign through picks, reversals and
   dispatches; the statuses of fulfillment orders are not repeated here. *)
PickingTypeOK ==
  /\ pick \in [Picks -> PickRows]
  /\ onHand \in [Skus -> Nat] /\ reserved \in [Skus -> Nat]
  /\ staged \in [Skus -> Nat] /\ transit \in [Skus -> Nat]
  /\ dispatched \in [Fulfillments -> Nat]
  /\ looked \in [Orders -> [open : BOOLEAN, stock : [Skus -> Nat]]]

(* Staging and transit together hold exactly what posted picks moved there:
   picks, reversals and dispatches of several fulfillment orders share the two
   locations and neither lose nor duplicate a unit. *)
CustodyBalances ==
  \A s \in Skus :
    staged[s] + transit[s] = PickTotal({p \in Picks : pick[p].state = "posted"}, s)

(* The picked quantity of a fulfillment order, which cancellation, expiry and
   invalidation leave alone, is what its posted picks add up to; no more than
   that is dispatched. *)
FulfillmentPicked ==
  \A f \in Fulfillments :
    /\ fo[f].picked = Total([s \in Skus |-> PickTotal(PostedOf(f), s)], Skus)
    /\ dispatched[f] <= fo[f].picked

(* A unit on hand is never promised twice, whatever picks and promises are in
   progress together, where stock leaves by picks only. *)
PromisedOnce == \A s \in Skus : reserved[s] <= onHand[s]
=============================================================================
