---------------------------- MODULE SupplyProofs ----------------------------
(***************************************************************************)
(* What holds of InternalStock for every number of warehouses, transfers   *)
(* and adjustments, and of Procurement for every number of lines, orders   *)
(* and concurrent requests, and for every quantity.                        *)
(***************************************************************************)
EXTENDS Procurement, InternalStock, UnitsProofs, TLAPS

-----------------------------------------------------------------------------
(* The stock: the inductive invariant *)

(* The rows are well formed. *)
StockRows ==
  /\ ledger \in [Warehouses -> [Legs -> Nat]]
  /\ stock \in [Warehouses -> [Custodies -> Nat]]
  /\ DOMAIN valuation \subseteq Warehouses
  /\ \A w \in DOMAIN valuation : valuation[w] \in Int
  /\ transfer \in [Transfers -> TransferRow]
  /\ adjustment \in [Adjustments -> AdjustmentRow]
  /\ arrival \in [Arrivals -> ArrivalRow]

(* What a replay finds in transit is what is in transit: a rebuild changes
   nothing there. *)
TransitReplays == \A w \in Warehouses :
  stock[w]["transfer_in_transit"] =
    ledger[w]["transfer_in_transit_in"] - ledger[w]["transfer_in_transit_out"]

TransfersMove == \A t \in Transfers :
  transfer[t].status = "released" =>
    transfer[t].from # transfer[t].to /\ transfer[t].quantity > 0

(* A warehouse is valued only if something moved in it, so a rebuild removes no
   row; an adjustment is of a warehouse that is valued. *)
RowsStay ==
  /\ \A w \in DOMAIN valuation : \E leg \in Legs : ledger[w][leg] > 0
  /\ \A a \in Adjustments :
       adjustment[a].status # "none" => adjustment[a].warehouse \in DOMAIN valuation

QuantityOf == [t \in Transfers |-> transfer[t].quantity]
OnTheWay(w) == {t \in Transfers : transfer[t].from = w /\ transfer[t].status = "released"}
TakenFrom(w) == Total(QuantityOf, OnTheWay(w))

(* A warehouse without a row of the valuation has nothing yet. *)
UnvaluedIsEmpty == \A w \in Warehouses \ DOMAIN valuation :
  stock[w]["available"] = 0 /\ stock[w]["transfer_in_transit"] = 0

(* What a rebuild has deleted is still counted; one that found no row of the
   valuation found no stock, and nothing is in transit. *)
RebuildSound == \A r \in rebuild :
  /\ r.warehouse \in Warehouses /\ r.units \in Nat
  /\ r.units <= stock[r.warehouse]["available"]
  /\ ~r.valued => r.units = 0 /\ stock[r.warehouse]["transfer_in_transit"] = 0

StockInv ==
  /\ StockRows
  /\ TransitReplays
  /\ TransfersMove
  /\ RowsStay
  /\ UnvaluedIsEmpty
  /\ RebuildSound
  /\ \A w \in Warehouses : stock[w]["transfer_in_transit"] = TakenFrom(w)
  /\ \A w \in Warehouses : Valued(w) <= OnHand(w)

-----------------------------------------------------------------------------
(* Rows of the valuation *)

(* Quantities are integers. *)
LEMMA StockTypes ==
  ASSUME StockRows, NEW w \in Warehouses
  PROVE  /\ \A leg \in Legs : ledger[w][leg] \in Nat
         /\ stock[w]["available"] \in Nat /\ stock[w]["transfer_in_transit"] \in Nat
         /\ Valued(w) \in Int
BY DEF StockRows, Custodies, Valued, ValueIn

(* A row is written; the others stay. *)
LEMMA RowWritten ==
  ASSUME StockRows, NEW w \in Warehouses, NEW v \in Int, valuation' = WithRow(valuation, w, v)
  PROVE  /\ DOMAIN valuation' = DOMAIN valuation \cup {w}
         /\ \A x \in DOMAIN valuation' : valuation'[x] \in Int
         /\ Valued(w)' = v
         /\ \A x \in Warehouses \ {w} : Valued(x)' = Valued(x)
<1>1. valuation' = [x \in DOMAIN valuation \cup {w} |-> IF x = w THEN v ELSE valuation[x]]
  BY DEF WithRow
<1>2. DOMAIN valuation' = DOMAIN valuation \cup {w}
  BY <1>1
<1>3. \A x \in DOMAIN valuation' : valuation'[x] \in Int
  BY <1>1 DEF StockRows
<1>4. Valued(w)' = v /\ \A x \in Warehouses \ {w} : Valued(x)' = Valued(x)
  BY <1>1 DEF Valued, ValueIn
<1> QED BY <1>2, <1>3, <1>4

(* Opening stock and the receipt of a transfer write the row they read, or one
   that counts what enters only. *)
LEMMA CreatedRow ==
  ASSUME NEW rows, NEW w \in Warehouses, NEW q
  PROVE  \E v \in {q, ValueIn(rows, w) + q} : Created(rows, w, q) = WithRow(rows, w, v)
BY DEF Created, Revalued

-----------------------------------------------------------------------------
(* Movements *)

(* Entries are only added. *)
LEMMA EnteredRows ==
  ASSUME StockRows, NEW w \in Warehouses, NEW legs \in SUBSET Legs, NEW q \in Nat,
         ledger' = Entered(w, legs, q)
  PROVE  /\ ledger' \in [Warehouses -> [Legs -> Nat]]
         /\ \A x \in Warehouses \ {w} : ledger'[x] = ledger[x]
         /\ \A leg \in Legs :
              ledger'[w][leg] = ledger[w][leg] + (IF leg \in legs THEN q ELSE 0)
<1>1. ledger' = [ledger EXCEPT ![w] =
        [leg \in Legs |-> IF leg \in legs THEN ledger[w][leg] + q ELSE ledger[w][leg]]]
  BY DEF Entered
<1>2. \A x \in Warehouses, leg \in Legs : ledger[x][leg] \in Nat
  BY DEF StockRows
<1>3. ledger \in [Warehouses -> [Legs -> Nat]]
  BY DEF StockRows
<1>4. [leg \in Legs |-> IF leg \in legs THEN ledger[w][leg] + q ELSE ledger[w][leg]] \in [Legs -> Nat]
  BY <1>2
<1>5. ledger' \in [Warehouses -> [Legs -> Nat]]
  BY <1>1, <1>3, <1>4
<1>6. \A x \in Warehouses \ {w} : ledger'[x] = ledger[x]
  BY <1>1, <1>3
<1>7. \A leg \in Legs :
        ledger'[w][leg] = ledger[w][leg] + (IF leg \in legs THEN q ELSE 0)
  BY <1>1, <1>2, <1>3
<1> QED BY <1>5, <1>6, <1>7

(* An entry of one leg. *)
LEMMA EnteredLeg ==
  ASSUME StockRows, NEW w \in Warehouses, NEW leg \in Legs, NEW q \in Nat,
         ledger' = Entered(w, {leg}, q)
  PROVE  /\ ledger' \in [Warehouses -> [Legs -> Nat]]
         /\ \A x \in Warehouses \ {w} : ledger'[x] = ledger[x]
         /\ \A l \in Legs : ledger'[w][l] = ledger[w][l] + (IF l = leg THEN q ELSE 0)
         /\ \A x \in Warehouses, l \in Legs :
              ledger[x][l] \in Nat /\ ledger'[x][l] >= ledger[x][l]
<1> DEFINE legs == {leg}
<1>1. legs \in SUBSET Legs /\ ledger' = Entered(w, legs, q) /\ \A l : l \in legs <=> l = leg
  OBVIOUS
<1> HIDE DEF legs
<1>2. /\ ledger' \in [Warehouses -> [Legs -> Nat]]
      /\ \A x \in Warehouses \ {w} : ledger'[x] = ledger[x]
      /\ \A l \in Legs : ledger'[w][l] = ledger[w][l] + (IF l \in legs THEN q ELSE 0)
  BY <1>1, EnteredRows
<1>3. \A x \in Warehouses, l \in Legs : ledger[x][l] \in Nat
  BY StockTypes
<1>4. \A l \in Legs : ledger'[w][l] = ledger[w][l] + (IF l = leg THEN q ELSE 0)
  BY <1>1, <1>2
<1>5. \A x \in Warehouses, l \in Legs : ledger'[x][l] >= ledger[x][l]
  <2> SUFFICES ASSUME NEW x \in Warehouses, NEW l \in Legs PROVE ledger'[x][l] >= ledger[x][l]
    OBVIOUS
  <2>1. ledger[x][l] \in Nat
    BY <1>3
  <2>2. ledger'[x][l] = ledger[x][l] + q \/ ledger'[x][l] = ledger[x][l]
    <3>1. CASE x = w /\ l = leg
      BY <1>4, <3>1
    <3>2. CASE x = w /\ l # leg
      <4>1. ledger'[x][l] = ledger[x][l] + 0
        BY <1>4, <3>2
      <4> QED BY <2>1, <4>1
    <3>3. CASE x # w
      BY <1>2, <3>3
    <3> QED BY <3>1, <3>2, <3>3
  <2> QED BY <2>1, <2>2
<1> QED BY <1>2, <1>3, <1>4, <1>5

(* What transfers have on the way from a warehouse changes with one of them. *)
LEMMA TakenChange ==
  ASSUME StockRows, NEW t \in Transfers, NEW w \in Warehouses,
         transfer' \in [Transfers -> TransferRow],
         \A u \in Transfers \ {t} : transfer'[u] = transfer[u]
  PROVE  TakenFrom(w)' = TakenFrom(w)
           - (IF t \in OnTheWay(w) THEN transfer[t].quantity ELSE 0)
           + (IF t \in OnTheWay(w)' THEN transfer'[t].quantity ELSE 0)
<1> DEFINE f == QuantityOf
           g == QuantityOf'
           T == OnTheWay(w)
           U == OnTheWay(w)'
<1>1. /\ \A x \in Transfers : f[x] = transfer[x].quantity /\ f[x] \in Nat
      /\ \A x \in Transfers : g[x] = transfer'[x].quantity /\ g[x] \in Nat
  BY StockAssumption DEF QuantityOf, StockRows, TransferRow, Movable
<1>2. T \in SUBSET Transfers /\ U \in SUBSET Transfers
  BY DEF OnTheWay
<1>3. \A x \in Transfers \ {t} : (x \in T <=> x \in U) /\ g[x] = f[x]
  BY <1>1 DEF OnTheWay
<1>4. TakenFrom(w) = Total(f, T) /\ TakenFrom(w)' = Total(g, U)
  BY DEF TakenFrom
<1> HIDE DEF f, g, T, U
<1>5. Total(g, U) = Total(f, T) - (IF t \in T THEN f[t] ELSE 0)
                                + (IF t \in U THEN g[t] ELSE 0)
  <2>1. \A x \in Transfers : f[x] \in Nat /\ g[x] \in Nat
    BY <1>1
  <2>2. \A x \in Transfers \ {t} : x \in T <=> x \in U
    BY <1>3
  <2>3. \A x \in T \ {t} : g[x] = f[x]
    BY <1>2, <1>3
  <2> QED BY <1>2, <2>1, <2>2, <2>3, TotalPart, StockAssumption
<1>6. f[t] = transfer[t].quantity /\ g[t] = transfer'[t].quantity
  BY <1>1
<1> QED BY <1>4, <1>5, <1>6 DEF T, U

(* A step that writes no transfer. *)
LEMMA TakenKept ==
  ASSUME NEW w, UNCHANGED transfer
  PROVE  TakenFrom(w)' = TakenFrom(w)
BY DEF TakenFrom, OnTheWay, QuantityOf

(* A step that removes no row of the valuation, and adds one only where
   something has moved. *)
LEMMA RowsStayed ==
  ASSUME StockInv, StockRows',
         \A x \in Warehouses, leg \in Legs : ledger'[x][leg] >= ledger[x][leg],
         DOMAIN valuation \subseteq DOMAIN valuation',
         \A x \in DOMAIN valuation' \ DOMAIN valuation : \E leg \in Legs : ledger'[x][leg] > 0,
         \A a \in Adjustments :
           adjustment'[a].status # "none" => adjustment'[a].warehouse \in DOMAIN valuation'
  PROVE  RowsStay'
<1>1. ASSUME NEW x \in DOMAIN valuation PROVE \E leg \in Legs : ledger'[x][leg] > 0
  <2>1. StockRows /\ x \in Warehouses
    BY DEF StockInv, StockRows
  <2>2. PICK leg \in Legs : ledger[x][leg] > 0
    BY DEF StockInv, RowsStay
  <2>3. ledger[x][leg] \in Nat
    BY <2>1, StockTypes
  <2>4. ledger'[x][leg] \in Nat
    BY <2>1 DEF StockRows
  <2>5. ledger'[x][leg] > 0
    BY <2>1, <2>2, <2>3, <2>4
  <2> QED BY <2>5
<1> QED BY <1>1 DEF RowsStay

-----------------------------------------------------------------------------
(* What enters *)

(* Opening stock and goods receipts, whatever row they write, if it values no
   more than there is then. *)
LEMMA EnterStep ==
  ASSUME StockInv, NEW w \in Warehouses, NEW q \in Nat, q > 0, NEW v \in Int, v <= OnHand(w) + q,
         NEW leg \in {"opening_in", "goods_receipt_in"}, Enter(leg, w, q, WithRow(valuation, w, v)),
         arrival' \in [Arrivals -> ArrivalRow], UNCHANGED <<transfer, adjustment, rebuild>>
  PROVE  StockInv'
<1>1. StockRows /\ {leg} \in SUBSET Legs /\ leg \in Legs
  BY DEF StockInv, Legs
<1>2. /\ ledger' = Entered(w, {leg}, q)
      /\ stock' = [stock EXCEPT ![w]["available"] = @ + q]
      /\ valuation' = WithRow(valuation, w, v)
  BY DEF Enter
<1>3. /\ ledger' \in [Warehouses -> [Legs -> Nat]]
      /\ \A x \in Warehouses \ {w} : ledger'[x] = ledger[x]
      /\ \A l \in Legs : ledger'[w][l] = ledger[w][l] + (IF l = leg THEN q ELSE 0)
      /\ \A x \in Warehouses, l \in Legs :
           ledger[x][l] \in Nat /\ ledger'[x][l] >= ledger[x][l]
  <2>1. StockRows /\ leg \in Legs /\ q \in Nat /\ ledger' = Entered(w, {leg}, q)
    BY <1>1, <1>2
  <2> QED BY <2>1, EnteredLeg
<1>5. /\ stock' \in [Warehouses -> [Custodies -> Nat]]
      /\ stock'[w]["available"] = stock[w]["available"] + q
      /\ stock'[w]["transfer_in_transit"] = stock[w]["transfer_in_transit"]
      /\ \A x \in Warehouses \ {w} : stock'[x] = stock[x]
      /\ \A x \in Warehouses, c \in Custodies : stock[x][c] \in Nat
  BY <1>1, <1>2 DEF StockRows, Custodies
<1>6. /\ DOMAIN valuation' = DOMAIN valuation \cup {w}
      /\ \A x \in DOMAIN valuation' : valuation'[x] \in Int
      /\ Valued(w)' = v
      /\ \A x \in Warehouses \ {w} : Valued(x)' = Valued(x)
  BY <1>1, <1>2, RowWritten
<1>7. StockRows'
  BY <1>1, <1>2, <1>3, <1>5, <1>6 DEF StockRows
<1>8. TransitReplays'
  <2>1. /\ {"transfer_in_transit_in", "transfer_in_transit_out"} \subseteq Legs
        /\ leg \notin {"transfer_in_transit_in", "transfer_in_transit_out"}
    BY DEF Legs
  <2>2. \A x \in Warehouses, l \in {"transfer_in_transit_in", "transfer_in_transit_out"} :
          ledger'[x][l] = ledger[x][l]
    BY <1>3, <2>1
  <2>3. \A x \in Warehouses : stock'[x]["transfer_in_transit"] = stock[x]["transfer_in_transit"]
    BY <1>5
  <2> QED BY <2>2, <2>3 DEF StockInv, TransitReplays
<1>9. TransfersMove'
  BY DEF StockInv, TransfersMove
<1>10. RowsStay'
  <2>1. \A x \in DOMAIN valuation' \ DOMAIN valuation : \E l \in Legs : ledger'[x][l] > 0
    <3>1. ledger'[w][leg] > 0
      BY <1>1, <1>3
    <3> QED BY <1>1, <1>6, <3>1
  <2>2. \A a \in Adjustments :
          adjustment'[a].status # "none" => adjustment'[a].warehouse \in DOMAIN valuation'
    BY <1>6 DEF StockInv, RowsStay
  <2> QED BY <1>3, <1>6, <1>7, <2>1, <2>2, RowsStayed
<1>11. UnvaluedIsEmpty'
  <2>1. \A x \in Warehouses \ DOMAIN valuation' : x \in Warehouses \ DOMAIN valuation /\ x # w
    BY <1>6
  <2> QED BY <1>5, <2>1 DEF StockInv, UnvaluedIsEmpty
<1>12. RebuildSound'
  <2>1. \A x \in Warehouses : /\ stock[x]["available"] \in Nat /\ stock'[x]["available"] \in Nat
                              /\ stock[x]["available"] <= stock'[x]["available"]
                              /\ stock'[x]["transfer_in_transit"] = stock[x]["transfer_in_transit"]
    BY <1>5 DEF Custodies
  <2>2. ASSUME NEW r \in rebuild
        PROVE  /\ r.warehouse \in Warehouses /\ r.units \in Nat
               /\ r.units <= stock'[r.warehouse]["available"]
               /\ ~r.valued => r.units = 0 /\ stock'[r.warehouse]["transfer_in_transit"] = 0
    BY <2>1, <2>2 DEF StockInv, RebuildSound
  <2> QED BY <2>2 DEF RebuildSound
<1>13. \A x \in Warehouses : stock'[x]["transfer_in_transit"] = TakenFrom(x)'
  BY <1>5, TakenKept DEF StockInv
<1>14. ASSUME NEW x \in Warehouses PROVE (Valued(x) <= OnHand(x))'
  <2>1. CASE x = w
    <3>1. stock[w]["available"] \in Nat /\ stock[w]["transfer_in_transit"] \in Nat
      BY <1>1, StockTypes
    <3> QED BY <1>5, <1>6, <2>1, <3>1 DEF OnHand
  <2>2. CASE x # w
    BY <1>5, <1>6, <2>2 DEF StockInv, OnHand
  <2> QED BY <2>1, <2>2
<1> QED BY <1>7, <1>8, <1>9, <1>10, <1>11, <1>12, <1>13, <1>14 DEF StockInv

(* A row written for what enters only, or in addition to what was valued. *)
LEMMA EnterSound ==
  ASSUME StockInv, NEW w \in Warehouses, NEW q \in Nat, NEW v \in {q, Valued(w) + q}
  PROVE  v \in Int /\ v <= OnHand(w) + q
<1>1. /\ stock[w]["available"] \in Nat /\ stock[w]["transfer_in_transit"] \in Nat
      /\ Valued(w) \in Int /\ Valued(w) <= OnHand(w)
  BY StockTypes DEF StockInv
<1> QED BY <1>1 DEF OnHand

(* Opening stock, on a row it read or one it found missing. *)
LEMMA OpenStockStep ==
  ASSUME StockInv, NEW w \in Warehouses, NEW q \in Movable \ {0}, OpenStock(w, q)
  PROVE  StockInv'
<1>1. q \in Nat /\ q > 0 /\ arrival' \in [Arrivals -> ArrivalRow]
  BY StockAssumption DEF Movable, OpenStock, StockInv, StockRows
<1>2. PICK v \in {q, Valued(w) + q} : Created(valuation, w, q) = WithRow(valuation, w, v)
  BY CreatedRow DEF Valued
<1>3. v \in Int /\ v <= OnHand(w) + q
  BY <1>1, EnterSound
<1>4. /\ Enter("opening_in", w, q, WithRow(valuation, w, v))
      /\ UNCHANGED <<transfer, adjustment, rebuild>>
  BY <1>2 DEF OpenStock
<1> QED BY <1>1, <1>3, <1>4, EnterStep

(* A goods receipt that reads and writes the row without a step between. *)
LEMMA ReceiveGoodsStep ==
  ASSUME StockInv, NEW w \in Warehouses, NEW q \in Movable \ {0}, ReceiveGoods(w, q)
  PROVE  StockInv'
<1>1. q \in Nat /\ q > 0 /\ arrival' \in [Arrivals -> ArrivalRow]
  BY StockAssumption DEF Movable, ReceiveGoods, StockInv, StockRows
<1>2. PICK v : v = Valued(w) + q
  OBVIOUS
<1>3. v \in Int /\ v <= OnHand(w) + q
  BY <1>1, <1>2, EnterSound
<1>4. /\ Enter("goods_receipt_in", w, q, WithRow(valuation, w, v))
      /\ UNCHANGED <<transfer, adjustment, rebuild>>
  BY <1>2 DEF ReceiveGoods, Revalued, Valued
<1> QED BY <1>1, <1>3, <1>4, EnterStep

(* A goods receipt that found no row, and writes over whatever row there is. *)
LEMMA FinishReceiptStep ==
  ASSUME StockInv, NEW a \in Arrivals, FinishReceipt(a)
  PROVE  StockInv'
<1>1. PICK w \in Warehouses, q \in Nat : w = arrival[a].warehouse /\ q = arrival[a].quantity
  BY StockAssumption DEF StockInv, StockRows, ArrivalRow, Movable
<1>2. /\ q > 0 /\ Enter("goods_receipt_in", w, q, WithRow(valuation, w, q))
      /\ arrival' = [arrival EXCEPT ![a].quantity = 0]
      /\ UNCHANGED <<transfer, adjustment, rebuild>>
  BY <1>1 DEF FinishReceipt
<1>3. arrival' \in [Arrivals -> ArrivalRow]
  BY <1>2, StockAssumption, SMTT(30) DEF StockInv, StockRows, ArrivalRow, Movable
<1>4. q \in Int /\ q <= OnHand(w) + q
  BY EnterSound
<1> QED BY <1>2, <1>3, <1>4, EnterStep

(* A step that leaves both projections, the ledger and the transfers. *)
LEMMA StockKept ==
  ASSUME StockInv, UNCHANGED <<ledger, stock, valuation, transfer>>,
         adjustment' \in [Adjustments -> AdjustmentRow], arrival' \in [Arrivals -> ArrivalRow],
         \A z \in Adjustments :
           adjustment'[z].status # "none" => adjustment'[z].warehouse \in DOMAIN valuation,
         RebuildSound'
  PROVE  StockInv'
<1>1. StockRows' /\ TransitReplays' /\ TransfersMove'
  BY DEF StockInv, StockRows, TransitReplays, TransfersMove
<1>2. RowsStay' /\ UnvaluedIsEmpty'
  BY DEF StockInv, RowsStay, UnvaluedIsEmpty
<1>3. \A x \in Warehouses : stock'[x]["transfer_in_transit"] = TakenFrom(x)'
  BY TakenKept DEF StockInv
<1>4. \A x \in Warehouses : (Valued(x) <= OnHand(x))'
  BY DEF StockInv, Valued, ValueIn, OnHand
<1> QED BY <1>1, <1>2, <1>3, <1>4 DEF StockInv

(* Who finds no row of the valuation writes nothing yet. *)
LEMMA NoRowStep ==
  ASSUME StockInv,
         \/ \E w \in Warehouses : FindNoRow(w)
         \/ \E a \in Arrivals, w \in Warehouses, q \in Movable \ {0} : BeginReceipt(a, w, q)
  PROVE  StockInv'
<1>1. UNCHANGED <<ledger, stock, valuation, transfer, adjustment, rebuild>>
  BY DEF FindNoRow, BeginReceipt
<1>2. arrival' \in [Arrivals -> ArrivalRow]
  <2>1. CASE \E w \in Warehouses : FindNoRow(w)
    BY <2>1 DEF FindNoRow, StockInv, StockRows
  <2>2. ASSUME NEW a \in Arrivals, NEW w \in Warehouses, NEW q \in Movable \ {0}, BeginReceipt(a, w, q)
        PROVE  arrival' \in [Arrivals -> ArrivalRow]
    BY <2>2 DEF BeginReceipt, StockInv, StockRows, ArrivalRow
  <2> QED BY <2>1, <2>2
<1>3. RebuildSound'
  BY <1>1 DEF StockInv, RebuildSound
<1>4. /\ adjustment' \in [Adjustments -> AdjustmentRow]
      /\ \A z \in Adjustments :
           adjustment'[z].status # "none" => adjustment'[z].warehouse \in DOMAIN valuation
  BY <1>1 DEF StockInv, StockRows, RowsStay
<1> QED BY <1>1, <1>2, <1>3, <1>4, StockKept

-----------------------------------------------------------------------------
(* Transfers *)

(* A transfer takes its quantity off the shelf and puts it on the way. *)
LEMMA RequestTransferStep ==
  ASSUME StockInv, NEW t \in Transfers, NEW from \in Warehouses, NEW to \in Warehouses,
         NEW q \in Movable \ {0}, RequestTransfer(t, from, to, q)
  PROVE  StockInv'
<1> DEFINE legs == {"transfer_source_out", "transfer_in_transit_in"}
<1>1. /\ StockRows /\ q \in Nat /\ q > 0 /\ legs \in SUBSET Legs
      /\ stock[from]["available"] \in Nat /\ stock[from]["transfer_in_transit"] \in Nat
  BY StockAssumption, StockTypes DEF StockInv, Movable, Legs
<1>2. /\ ledger' = Entered(from, legs, q)
      /\ from # to /\ from \in DOMAIN valuation /\ transfer[t].status = "none"
      /\ stock[from]["available"] >= q /\ rebuild = {}
      /\ UNCHANGED <<valuation, adjustment, arrival, rebuild>>
  BY DEF RequestTransfer, LocksFree
<1>3. PICK a, b \in Nat : /\ a = stock[from]["available"] - q
                          /\ b = stock[from]["transfer_in_transit"] + q
  <2>1. /\ stock[from]["available"] - q \in Nat
        /\ stock[from]["transfer_in_transit"] + q \in Nat
    BY <1>1, <1>2
  <2> QED BY <2>1
<1>4. stock' = [stock EXCEPT ![from] =
        [stock[from] EXCEPT !["available"] = a, !["transfer_in_transit"] = b]]
  BY <1>1, <1>3 DEF RequestTransfer, StockRows, Custodies
<1>5. /\ stock' \in [Warehouses -> [Custodies -> Nat]]
      /\ stock'[from]["available"] = a /\ stock'[from]["transfer_in_transit"] = b
      /\ \A x \in Warehouses \ {from} : stock'[x] = stock[x]
  BY <1>1, <1>4 DEF StockRows, Custodies
<1>6. PICK row \in TransferRow :
        row = [status |-> "released", from |-> from, to |-> to, quantity |-> q]
  BY DEF TransferRow
<1>7. /\ transfer' = [transfer EXCEPT ![t] = row]
      /\ row.status = "released" /\ row.from = from /\ row.to = to /\ row.quantity = q
  BY <1>6 DEF RequestTransfer
<1>8. /\ transfer' \in [Transfers -> TransferRow] /\ transfer'[t] = row
      /\ \A u \in Transfers \ {t} : transfer'[u] = transfer[u]
  BY <1>1, <1>7 DEF StockRows
<1> HIDE DEF legs
<1>9. /\ ledger' \in [Warehouses -> [Legs -> Nat]]
      /\ \A x \in Warehouses \ {from} : ledger'[x] = ledger[x]
      /\ \A l \in Legs : ledger'[from][l] = ledger[from][l] + (IF l \in legs THEN q ELSE 0)
  BY <1>1, <1>2, EnteredRows, SMTT(30)
<1>10. \A x \in Warehouses, l \in Legs : ledger[x][l] \in Nat /\ ledger'[x][l] >= ledger[x][l]
  <2> TAKE x \in Warehouses, l \in Legs
  <2>1. ledger[x][l] \in Nat /\ q \in Nat
    BY <1>1 DEF StockRows
  <2>2. CASE x = from
    BY <1>9, <2>1, <2>2
  <2>3. CASE x # from
    BY <1>9, <2>1, <2>3
  <2> QED BY <2>2, <2>3
<1>11. StockRows'
  BY <1>1, <1>2, <1>5, <1>8, <1>9 DEF StockRows
<1>12. TransitReplays'
  <2>1. /\ {"transfer_in_transit_in", "transfer_in_transit_out"} \subseteq Legs
        /\ "transfer_in_transit_in" \in legs /\ "transfer_in_transit_out" \notin legs
    BY DEF Legs, legs
  <2>2. /\ ledger'[from]["transfer_in_transit_in"] = ledger[from]["transfer_in_transit_in"] + q
        /\ ledger'[from]["transfer_in_transit_out"] = ledger[from]["transfer_in_transit_out"]
    BY <1>9, <1>10, <2>1
  <2>3. stock'[from]["transfer_in_transit"] =
          ledger'[from]["transfer_in_transit_in"] - ledger'[from]["transfer_in_transit_out"]
    BY <1>1, <1>3, <1>5, <1>10, <2>1, <2>2 DEF StockInv, TransitReplays
  <2> QED BY <1>5, <1>9, <2>3 DEF StockInv, TransitReplays
<1>13. TransfersMove'
  BY <1>1, <1>2, <1>7, <1>8 DEF StockInv, TransfersMove
<1>14. RowsStay'
  <2>1. \A z \in Adjustments :
          adjustment'[z].status # "none" => adjustment'[z].warehouse \in DOMAIN valuation'
    BY <1>2 DEF StockInv, RowsStay
  <2> QED BY <1>2, <1>10, <1>11, <2>1, RowsStayed
<1>15. ASSUME NEW x \in Warehouses PROVE stock'[x]["transfer_in_transit"] = TakenFrom(x)'
  <2>1. TakenFrom(x)' = TakenFrom(x)
           - (IF t \in OnTheWay(x) THEN transfer[t].quantity ELSE 0)
           + (IF t \in OnTheWay(x)' THEN transfer'[t].quantity ELSE 0)
    BY <1>1, <1>8, TakenChange
  <2>2. t \notin OnTheWay(x) /\ (t \in OnTheWay(x)' <=> x = from)
    BY <1>2, <1>7, <1>8 DEF OnTheWay
  <2>3. stock[x]["transfer_in_transit"] = TakenFrom(x) /\ stock[x]["transfer_in_transit"] \in Nat
    BY <1>1, StockTypes DEF StockInv
  <2>4. TakenFrom(x)' = stock[x]["transfer_in_transit"] + (IF x = from THEN q ELSE 0)
    BY <1>1, <1>7, <1>8, <2>1, <2>2, <2>3
  <2> QED BY <1>3, <1>5, <2>3, <2>4
<1>16. ASSUME NEW x \in Warehouses PROVE (Valued(x) <= OnHand(x))'
  <2>1. Valued(x)' = Valued(x)
    BY <1>2 DEF Valued, ValueIn
  <2>2. OnHand(x)' = OnHand(x)
    <3>1. CASE x = from
      BY <1>1, <1>3, <1>5, <3>1 DEF OnHand
    <3>2. CASE x # from
      BY <1>5, <3>2 DEF OnHand
    <3> QED BY <3>1, <3>2
  <2> QED BY <2>1, <2>2 DEF StockInv
<1>17. UnvaluedIsEmpty' /\ RebuildSound'
  BY <1>2, <1>5 DEF StockInv, UnvaluedIsEmpty, RebuildSound
<1> QED BY <1>11, <1>12, <1>13, <1>14, <1>15, <1>16, <1>17 DEF StockInv

(* The quantity of a transfer leaves one row of the valuation and enters another,
   which may be written anew. *)
LEMMA OwnershipRows ==
  ASSUME StockRows, NEW from \in Warehouses, NEW to \in Warehouses, from # to, NEW q \in Nat,
         valuation' = Ownership(from, to, q)
  PROVE  /\ DOMAIN valuation' = DOMAIN valuation \cup {from, to}
         /\ \A x \in DOMAIN valuation' : valuation'[x] \in Int
         /\ Valued(from)' = Valued(from) - q
         /\ Valued(to)' \in {q, Valued(to) + q}
         /\ \A x \in Warehouses \ {from, to} : Valued(x)' = Valued(x)
<1>1. PICK a \in Int : a = Valued(from) - q
  BY StockTypes
<1>2. Valued(from) + -q = a
  BY <1>1, StockTypes
<1>3. PICK rows : rows = Revalued(valuation, from, -q)
  OBVIOUS
<1>4. rows = [x \in DOMAIN valuation \cup {from} |-> IF x = from THEN a ELSE valuation[x]]
  BY <1>2, <1>3 DEF Revalued, WithRow, Valued
<1>5. ValueIn(rows, to) = Valued(to) /\ Valued(to) \in Int
  BY <1>4, StockTypes DEF ValueIn, Valued
<1>6. PICK b \in {q, ValueIn(rows, to) + q} : Created(rows, to, q) = WithRow(rows, to, b)
  BY CreatedRow
<1>7. b \in Int /\ b \in {q, Valued(to) + q}
  BY <1>5, <1>6
<1>8. valuation' = [x \in DOMAIN valuation \cup {from, to} |->
        IF x = to THEN b ELSE IF x = from THEN a ELSE valuation[x]]
  <2>1. valuation' = WithRow(rows, to, b)
    BY <1>3, <1>6 DEF Ownership
  <2> QED BY <1>4, <2>1 DEF WithRow
<1>9. DOMAIN valuation' = DOMAIN valuation \cup {from, to}
  BY <1>8
<1>10. \A x \in DOMAIN valuation' : valuation'[x] \in Int
  BY <1>1, <1>7, <1>8 DEF StockRows
<1>11. /\ Valued(from)' = a /\ Valued(to)' = b
       /\ \A x \in Warehouses \ {from, to} : Valued(x)' = Valued(x)
  BY <1>8 DEF Valued, ValueIn
<1> QED BY <1>1, <1>7, <1>9, <1>10, <1>11

(* A transfer arrives: what it took is on another shelf, valued there. *)
LEMMA ReceiveTransferStep ==
  ASSUME StockInv, NEW t \in Transfers, ReceiveTransfer(t)
  PROVE  StockInv'
<1>1. PICK from \in Warehouses, to \in Warehouses, q \in Nat :
        from = transfer[t].from /\ to = transfer[t].to /\ q = transfer[t].quantity
  <2>1. transfer[t] \in TransferRow
    BY DEF StockInv, StockRows
  <2>2. Movable \subseteq Nat
    BY StockAssumption DEF Movable
  <2>3. /\ transfer[t].from \in Warehouses /\ transfer[t].to \in Warehouses
        /\ transfer[t].quantity \in Nat
    BY <2>1, <2>2 DEF TransferRow
  <2> QED BY <2>3
<1>2. /\ StockRows /\ from # to /\ q > 0 /\ transfer[t].status = "released"
      /\ {"transfer_in_transit_in", "transfer_in_transit_out", "transfer_destination_in"} \subseteq Legs
  BY <1>1 DEF ReceiveTransfer, Receivable, StockInv, TransfersMove, Legs
<1>3. /\ stock[from]["transfer_in_transit"] >= q /\ from \in DOMAIN valuation
      /\ transfer' = [transfer EXCEPT ![t].status = "received"]
      /\ ledger' = [ledger EXCEPT ![from]["transfer_in_transit_out"] = @ + q,
                                  ![to]["transfer_destination_in"] = @ + q]
      /\ stock' = [stock EXCEPT ![from]["transfer_in_transit"] = @ - q,
                                ![to]["available"] = @ + q]
      /\ valuation' = Ownership(from, to, q)
      /\ rebuild = {} /\ UNCHANGED <<adjustment, arrival, rebuild>>
  BY <1>1 DEF ReceiveTransfer, LocksFree
<1>4. /\ stock[from]["transfer_in_transit"] \in Nat /\ stock[from]["available"] \in Nat
      /\ stock[to]["transfer_in_transit"] \in Nat /\ stock[to]["available"] \in Nat
      /\ ledger[from]["transfer_in_transit_out"] \in Nat
      /\ ledger[to]["transfer_destination_in"] \in Nat
  BY <1>2, StockTypes
<1>5. PICK a \in Nat : a = stock[from]["transfer_in_transit"] - q
  BY <1>3, <1>4
<1>6. PICK b \in Nat : b = stock[to]["available"] + q
  BY <1>4
<1>7. PICK c \in Nat : c = ledger[from]["transfer_in_transit_out"] + q
  BY <1>4
<1>8. PICK d \in Nat : d = ledger[to]["transfer_destination_in"] + q
  BY <1>4
<1>9. /\ ledger' \in [Warehouses -> [Legs -> Nat]]
      /\ ledger'[from] = [ledger[from] EXCEPT !["transfer_in_transit_out"] = c]
      /\ ledger'[to] = [ledger[to] EXCEPT !["transfer_destination_in"] = d]
      /\ \A x \in Warehouses \ {from, to} : ledger'[x] = ledger[x]
  <2>1. ledger' = [ledger EXCEPT ![from] = [ledger[from] EXCEPT !["transfer_in_transit_out"] = c],
                                 ![to] = [ledger[to] EXCEPT !["transfer_destination_in"] = d]]
    BY <1>2, <1>3, <1>7, <1>8 DEF StockRows
  <2> QED BY <1>2, <2>1 DEF StockRows
<1>10. /\ stock' \in [Warehouses -> [Custodies -> Nat]]
       /\ stock'[from] = [stock[from] EXCEPT !["transfer_in_transit"] = a]
       /\ stock'[to] = [stock[to] EXCEPT !["available"] = b]
       /\ \A x \in Warehouses \ {from, to} : stock'[x] = stock[x]
  <2>1. stock' = [stock EXCEPT ![from] = [stock[from] EXCEPT !["transfer_in_transit"] = a],
                               ![to] = [stock[to] EXCEPT !["available"] = b]]
    BY <1>2, <1>3, <1>5, <1>6 DEF StockRows
  <2> QED BY <1>2, <2>1 DEF StockRows
<1>11. /\ stock'[from]["transfer_in_transit"] = a
       /\ stock'[from]["available"] = stock[from]["available"]
       /\ stock'[to]["transfer_in_transit"] = stock[to]["transfer_in_transit"]
       /\ stock'[to]["available"] = b
  BY <1>2, <1>10 DEF StockRows, Custodies
<1>12. /\ transfer' \in [Transfers -> TransferRow]
       /\ transfer'[t].status = "received"
       /\ \A u \in Transfers \ {t} : transfer'[u] = transfer[u]
  BY <1>2, <1>3 DEF StockRows, TransferRow
<1>13. /\ DOMAIN valuation' = DOMAIN valuation \cup {from, to}
       /\ \A x \in DOMAIN valuation' : valuation'[x] \in Int
       /\ Valued(from)' = Valued(from) - q
       /\ Valued(to)' \in {q, Valued(to) + q}
       /\ \A x \in Warehouses \ {from, to} : Valued(x)' = Valued(x)
  BY <1>2, <1>3, OwnershipRows
<1>14. \A x \in Warehouses, l \in Legs : ledger[x][l] \in Nat /\ ledger'[x][l] >= ledger[x][l]
  <2>1. \A x \in Warehouses, l \in Legs : ledger[x][l] \in Nat
    BY <1>2, StockTypes
  <2>2. \A l \in Legs : ledger'[from][l] >= ledger[from][l]
    BY <1>2, <1>7, <1>9, <2>1 DEF StockRows
  <2>3. \A l \in Legs : ledger'[to][l] >= ledger[to][l]
    BY <1>2, <1>8, <1>9, <2>1 DEF StockRows
  <2> QED BY <1>9, <2>1, <2>2, <2>3
<1>15. StockRows'
  BY <1>2, <1>3, <1>9, <1>10, <1>12, <1>13 DEF StockRows
<1>16. TransitReplays'
  <2>1. /\ ledger'[from]["transfer_in_transit_out"] = c
        /\ ledger'[from]["transfer_in_transit_in"] = ledger[from]["transfer_in_transit_in"]
        /\ ledger'[to]["transfer_in_transit_out"] = ledger[to]["transfer_in_transit_out"]
        /\ ledger'[to]["transfer_in_transit_in"] = ledger[to]["transfer_in_transit_in"]
    BY <1>2, <1>9 DEF StockRows
  <2>2. stock'[from]["transfer_in_transit"] =
          ledger'[from]["transfer_in_transit_in"] - ledger'[from]["transfer_in_transit_out"]
    BY <1>2, <1>4, <1>5, <1>7, <1>11, <1>14, <2>1 DEF StockInv, TransitReplays
  <2>3. ASSUME NEW x \in Warehouses, x # from
        PROVE  stock'[x]["transfer_in_transit"] =
                 ledger'[x]["transfer_in_transit_in"] - ledger'[x]["transfer_in_transit_out"]
    <3>1. /\ stock'[x]["transfer_in_transit"] = stock[x]["transfer_in_transit"]
          /\ ledger'[x]["transfer_in_transit_in"] = ledger[x]["transfer_in_transit_in"]
          /\ ledger'[x]["transfer_in_transit_out"] = ledger[x]["transfer_in_transit_out"]
      BY <1>9, <1>10, <1>11, <2>1, <2>3
    <3> QED BY <3>1 DEF StockInv, TransitReplays
  <2> QED BY <2>2, <2>3 DEF TransitReplays
<1>17. TransfersMove'
  BY <1>12 DEF StockInv, TransfersMove
<1>18. RowsStay'
  <2>1. ledger'[to]["transfer_destination_in"] > 0
    BY <1>2, <1>4, <1>8, <1>9 DEF StockRows
  <2>2. \A x \in DOMAIN valuation' \ DOMAIN valuation : \E l \in Legs : ledger'[x][l] > 0
    BY <1>2, <1>3, <1>13, <2>1
  <2>3. \A z \in Adjustments :
          adjustment'[z].status # "none" => adjustment'[z].warehouse \in DOMAIN valuation'
    BY <1>3, <1>13 DEF StockInv, RowsStay
  <2> QED BY <1>13, <1>14, <1>15, <2>2, <2>3, RowsStayed
<1>19. ASSUME NEW x \in Warehouses PROVE stock'[x]["transfer_in_transit"] = TakenFrom(x)'
  <2>1. TakenFrom(x)' = TakenFrom(x)
           - (IF t \in OnTheWay(x) THEN transfer[t].quantity ELSE 0)
           + (IF t \in OnTheWay(x)' THEN transfer'[t].quantity ELSE 0)
    BY <1>2, <1>12, TakenChange
  <2>2. (t \in OnTheWay(x) <=> x = from) /\ t \notin OnTheWay(x)'
    BY <1>1, <1>2, <1>12 DEF OnTheWay
  <2>3. stock[x]["transfer_in_transit"] = TakenFrom(x) /\ stock[x]["transfer_in_transit"] \in Nat
    BY <1>2, StockTypes DEF StockInv
  <2>4. TakenFrom(x)' = stock[x]["transfer_in_transit"] - (IF x = from THEN q ELSE 0)
    BY <1>1, <2>1, <2>2, <2>3
  <2>5. CASE x = from
    BY <1>5, <1>11, <2>4, <2>5
  <2>6. CASE x # from
    <3>1. stock'[x]["transfer_in_transit"] = stock[x]["transfer_in_transit"]
      BY <1>10, <1>11, <2>6
    <3> QED BY <2>3, <2>4, <2>6, <3>1
  <2> QED BY <2>5, <2>6
<1>20. ASSUME NEW x \in Warehouses PROVE (Valued(x) <= OnHand(x))'
  <2>1. /\ Valued(x) \in Int /\ Valued(x) <= OnHand(x)
        /\ stock[x]["available"] \in Nat /\ stock[x]["transfer_in_transit"] \in Nat
    BY <1>2, StockTypes DEF StockInv
  <2>2. CASE x = from
    BY <1>4, <1>5, <1>11, <1>13, <2>1, <2>2 DEF OnHand
  <2>3. CASE x = to
    BY <1>4, <1>6, <1>11, <1>13, <2>1, <2>3 DEF OnHand
  <2>4. CASE x \notin {from, to}
    BY <1>10, <1>13, <2>1, <2>4 DEF OnHand
  <2> QED BY <2>2, <2>3, <2>4
<1>21. UnvaluedIsEmpty'
  <2>1. \A x \in Warehouses \ DOMAIN valuation' :
          x \in Warehouses \ DOMAIN valuation /\ x \notin {from, to}
    BY <1>13
  <2> QED BY <1>10, <2>1 DEF StockInv, UnvaluedIsEmpty
<1>22. RebuildSound'
  BY <1>3 DEF RebuildSound
<1> QED BY <1>15, <1>16, <1>17, <1>18, <1>19, <1>20, <1>21, <1>22 DEF StockInv

-----------------------------------------------------------------------------
(* Adjustments *)

(* A request for an adjustment moves nothing. *)
LEMMA RequestAdjustmentStep ==
  ASSUME StockInv, NEW a \in Adjustments, NEW kind \in {"surplus", "shortage"},
         NEW w \in Warehouses, NEW q \in Movable \ {0}, RequestAdjustment(a, kind, w, q)
  PROVE  StockInv'
<1>1. PICK row \in AdjustmentRow :
        row = [status |-> "pending_authorization", kind |-> kind, warehouse |-> w, quantity |-> q]
  BY DEF AdjustmentRow
<1>2. /\ adjustment' = [adjustment EXCEPT ![a] = row] /\ row.status = "pending_authorization"
      /\ row.warehouse = w /\ w \in DOMAIN valuation /\ adjustment[a].status = "none"
      /\ UNCHANGED <<ledger, stock, valuation, transfer, arrival, rebuild>>
  BY <1>1 DEF RequestAdjustment
<1>3. /\ adjustment' \in [Adjustments -> AdjustmentRow] /\ adjustment'[a] = row
      /\ \A z \in Adjustments \ {a} : adjustment'[z] = adjustment[z]
  BY <1>2 DEF StockInv, StockRows
<1>4. RebuildSound' /\ arrival' \in [Arrivals -> ArrivalRow]
  BY <1>2 DEF StockInv, StockRows, RebuildSound
<1>5. \A z \in Adjustments :
        adjustment'[z].status # "none" => adjustment'[z].warehouse \in DOMAIN valuation
  BY <1>2, <1>3 DEF StockInv, RowsStay
<1> QED BY <1>2, <1>3, <1>4, <1>5, StockKept

(* An adjustment that is posted or reversed never adds more to the valuation than
   to the stock. *)
LEMMA AdjustStep ==
  ASSUME StockInv, NEW a \in Adjustments, NEW leg \in Legs, NEW q \in Nat,
         NEW moved \in Int, NEW revalued \in Int,
         leg \notin {"transfer_in_transit_in", "transfer_in_transit_out"},
         Adjust(adjustment[a].warehouse, leg, q, moved, revalued),
         NEW status \in {"posted", "reversed"},
         adjustment[a].status \in {"pending_authorization", "posted"},
         adjustment' = [adjustment EXCEPT ![a].status = status],
         revalued <= moved
  PROVE  StockInv'
<1>1. PICK w \in Warehouses : w = adjustment[a].warehouse
  BY DEF StockInv, StockRows, AdjustmentRow
<1>2. /\ StockRows /\ w \in DOMAIN valuation /\ {leg} \in SUBSET Legs
      /\ stock[w]["available"] \in Nat /\ stock[w]["transfer_in_transit"] \in Nat
      /\ valuation[w] \in Int /\ Valued(w) = valuation[w]
  BY <1>1, StockTypes DEF StockInv, RowsStay, StockRows, Valued, ValueIn
<1>3. /\ stock[w]["available"] + moved >= 0
      /\ ledger' = Entered(w, {leg}, q)
      /\ stock' = [stock EXCEPT ![w]["available"] = @ + moved]
      /\ valuation' = [valuation EXCEPT ![w] = @ + revalued]
      /\ rebuild = {} /\ UNCHANGED <<transfer, arrival, rebuild>>
  BY <1>1 DEF Adjust, LocksFree
<1>4. PICK b \in Nat : b = stock[w]["available"] + moved
  <2>1. stock[w]["available"] + moved \in Nat
    BY <1>2, <1>3
  <2> QED BY <2>1
<1>5. PICK v \in Int : v = valuation[w] + revalued
  BY <1>2
<1>6. /\ ledger' \in [Warehouses -> [Legs -> Nat]]
      /\ \A x \in Warehouses \ {w} : ledger'[x] = ledger[x]
      /\ \A l \in Legs : ledger'[w][l] = ledger[w][l] + (IF l = leg THEN q ELSE 0)
      /\ \A x \in Warehouses, l \in Legs :
           ledger[x][l] \in Nat /\ ledger'[x][l] >= ledger[x][l]
  <2>1. StockRows /\ ledger' = Entered(w, {leg}, q)
    BY <1>2, <1>3
  <2> QED BY <2>1, EnteredLeg
<1>8. /\ stock' \in [Warehouses -> [Custodies -> Nat]]
      /\ stock'[w]["available"] = b
      /\ stock'[w]["transfer_in_transit"] = stock[w]["transfer_in_transit"]
      /\ \A x \in Warehouses \ {w} : stock'[x] = stock[x]
  <2>1. stock' = [stock EXCEPT ![w] = [stock[w] EXCEPT !["available"] = b]]
    BY <1>2, <1>3, <1>4 DEF StockRows
  <2> QED BY <1>2, <2>1 DEF StockRows, Custodies
<1>9. /\ DOMAIN valuation' = DOMAIN valuation
      /\ valuation'[w] = v
      /\ \A x \in DOMAIN valuation \ {w} : valuation'[x] = valuation[x]
  <2>1. valuation' = [valuation EXCEPT ![w] = v]
    BY <1>3, <1>5
  <2> QED BY <1>2, <2>1
<1>10. /\ adjustment' \in [Adjustments -> AdjustmentRow]
       /\ adjustment'[a].status = status
       /\ adjustment'[a].kind = adjustment[a].kind /\ adjustment'[a].warehouse = w
       /\ \A z \in Adjustments \ {a} : adjustment'[z] = adjustment[z]
  <2>1. PICK row \in AdjustmentRow : row = adjustment[a]
    BY <1>2 DEF StockRows
  <2>2. adjustment' = [adjustment EXCEPT ![a] = [row EXCEPT !.status = status]]
    BY <1>2, <2>1 DEF StockRows
  <2> DEFINE next == [row EXCEPT !.status = status]
  <2>3. /\ next \in AdjustmentRow /\ next.status = status
        /\ next.kind = row.kind /\ next.warehouse = row.warehouse
    BY DEF AdjustmentRow
  <2>4. adjustment' = [adjustment EXCEPT ![a] = next]
    BY <2>2
  <2> HIDE DEF next
  <2> QED BY <1>1, <1>2, <2>1, <2>3, <2>4 DEF StockRows
<1>11. StockRows'
  BY <1>2, <1>3, <1>5, <1>6, <1>8, <1>9, <1>10, ZenonT(40) DEF StockRows
<1>12. TransitReplays'
  <2>1. /\ {"transfer_in_transit_in", "transfer_in_transit_out"} \subseteq Legs
        /\ leg \notin {"transfer_in_transit_in", "transfer_in_transit_out"}
    BY DEF Legs
  <2>2. \A x \in Warehouses, l \in {"transfer_in_transit_in", "transfer_in_transit_out"} :
          ledger'[x][l] = ledger[x][l]
    BY <1>6, <2>1
  <2>3. \A x \in Warehouses : stock'[x]["transfer_in_transit"] = stock[x]["transfer_in_transit"]
    BY <1>8
  <2> QED BY <2>2, <2>3 DEF StockInv, TransitReplays
<1>13. TransfersMove'
  BY <1>3 DEF StockInv, TransfersMove
<1>14. RowsStay'
  <2>1. \A z \in Adjustments :
          adjustment'[z].status # "none" => adjustment'[z].warehouse \in DOMAIN valuation'
    BY <1>2, <1>9, <1>10 DEF StockInv, RowsStay
  <2> QED BY <1>6, <1>9, <1>11, <2>1, RowsStayed
<1>15. \A x \in Warehouses : stock'[x]["transfer_in_transit"] = TakenFrom(x)'
  BY <1>3, <1>8, TakenKept DEF StockInv
<1>16. ASSUME NEW x \in Warehouses PROVE (Valued(x) <= OnHand(x))'
  <2>1. Valued(x) <= OnHand(x)
    BY DEF StockInv
  <2>2. CASE x # w
    <3>1. Valued(x)' = Valued(x) /\ OnHand(x)' = OnHand(x)
      BY <1>8, <1>9, <2>2 DEF Valued, ValueIn, OnHand
    <3> QED BY <2>1, <3>1
  <2>3. CASE x = w
    <3>1. Valued(w)' = v /\ OnHand(w)' = b + stock[w]["transfer_in_transit"]
      BY <1>2, <1>8, <1>9 DEF Valued, ValueIn, OnHand
    <3> QED BY <1>2, <1>4, <1>5, <2>1, <2>3, <3>1 DEF OnHand
  <2> QED BY <2>2, <2>3
<1>17. UnvaluedIsEmpty'
  BY <1>2, <1>8, <1>9 DEF StockInv, UnvaluedIsEmpty
<1>18. RebuildSound'
  BY <1>3 DEF RebuildSound
<1> QED BY <1>11, <1>12, <1>13, <1>14, <1>15, <1>16, <1>17, <1>18 DEF StockInv

(* Posting and reversal, of either kind. *)
LEMMA SettleAdjustmentStep ==
  ASSUME StockInv, NEW a \in Adjustments, PostAdjustment(a) \/ ReverseAdjustment(a)
  PROVE  StockInv'
<1>1. PICK q \in Nat, w \in Warehouses :
        q = adjustment[a].quantity /\ w = adjustment[a].warehouse
  <2>1. adjustment[a] \in AdjustmentRow
    BY DEF StockInv, StockRows
  <2>2. adjustment[a].quantity \in Nat /\ adjustment[a].warehouse \in Warehouses
    BY <2>1, StockAssumption DEF AdjustmentRow, Movable
  <2> QED BY <2>2
<1>2. PICK minus \in Int : minus = -q /\ minus <= q /\ minus <= minus /\ q <= q
  OBVIOUS
<1>3. CASE PostAdjustment(a)
  <2>1. /\ adjustment[a].status \in {"pending_authorization", "posted"}
        /\ adjustment' = [adjustment EXCEPT ![a].status = "posted"]
    BY <1>3 DEF PostAdjustment
  <2>2. \/ Adjust(adjustment[a].warehouse, "adjustment_surplus_in", q, q, q)
        \/ Adjust(adjustment[a].warehouse, "adjustment_shortage_out", q, minus, minus)
    BY <1>1, <1>2, <1>3 DEF PostAdjustment
  <2>3. /\ q \in Int /\ minus \in Int
        /\ "adjustment_surplus_in" \in Legs /\ "adjustment_shortage_out" \in Legs
        /\ "adjustment_surplus_in" \notin {"transfer_in_transit_in", "transfer_in_transit_out"}
        /\ "adjustment_shortage_out" \notin {"transfer_in_transit_in", "transfer_in_transit_out"}
    BY DEF Legs
  <2>4. CASE Adjust(adjustment[a].warehouse, "adjustment_surplus_in", q, q, q)
    BY <1>2, <2>1, <2>3, <2>4, AdjustStep
  <2>5. CASE Adjust(adjustment[a].warehouse, "adjustment_shortage_out", q, minus, minus)
    BY <1>2, <2>1, <2>3, <2>5, AdjustStep
  <2> QED BY <2>2, <2>4, <2>5
<1>4. CASE ReverseAdjustment(a)
  <2>1. /\ adjustment[a].status \in {"pending_authorization", "posted"}
        /\ adjustment' = [adjustment EXCEPT ![a].status = "reversed"]
    BY <1>4 DEF ReverseAdjustment
  <2>2. \/ Adjust(adjustment[a].warehouse, "adjustment_surplus_reversal_out", q, minus, minus)
        \/ Adjust(adjustment[a].warehouse, "adjustment_shortage_reversal_in", q, q, minus)
    BY <1>1, <1>2, <1>4 DEF ReverseAdjustment
  <2>3. /\ q \in Int /\ minus \in Int
        /\ "adjustment_surplus_reversal_out" \in Legs /\ "adjustment_shortage_reversal_in" \in Legs
        /\ "adjustment_surplus_reversal_out" \notin {"transfer_in_transit_in", "transfer_in_transit_out"}
        /\ "adjustment_shortage_reversal_in" \notin {"transfer_in_transit_in", "transfer_in_transit_out"}
    BY DEF Legs
  <2>4. CASE Adjust(adjustment[a].warehouse, "adjustment_surplus_reversal_out", q, minus, minus)
    BY <1>2, <2>1, <2>3, <2>4, AdjustStep
  <2>5. CASE Adjust(adjustment[a].warehouse, "adjustment_shortage_reversal_in", q, q, minus)
    BY <1>2, <2>1, <2>3, <2>5, AdjustStep
  <2> QED BY <2>2, <2>4, <2>5
<1> QED BY <1>3, <1>4

-----------------------------------------------------------------------------
(* Rebuilds *)

(* There are finitely many legs. *)
LEMMA LegsFinite == IsFiniteSet(Legs)
<1>1. ASSUME NEW S, IsFiniteSet(S), NEW x, NEW y PROVE IsFiniteSet(S \cup {x, y})
  <2>1. S \cup {x, y} = (S \cup {x}) \cup {y}
    OBVIOUS
  <2> QED BY <1>1, <2>1, FS_AddElement
<1> DEFINE A == {} \cup {"opening_in", "goods_receipt_in"}
           B == A \cup {"transfer_source_out", "transfer_in_transit_in"}
           C == B \cup {"transfer_in_transit_out", "transfer_destination_in"}
           D == C \cup {"adjustment_surplus_in", "adjustment_shortage_out"}
           E == D \cup {"adjustment_surplus_reversal_out", "adjustment_shortage_reversal_in"}
<1>2. Legs = E
  BY DEF Legs
<1>3. IsFiniteSet({})
  BY FS_EmptySet
<1>4. IsFiniteSet(A)
  BY <1>1, <1>3
<1>5. IsFiniteSet(B)
  <2> HIDE DEF A
  <2> QED BY <1>1, <1>4
<1>6. IsFiniteSet(C)
  <2> HIDE DEF A, B
  <2> QED BY <1>1, <1>5
<1>7. IsFiniteSet(D)
  <2> HIDE DEF B, C
  <2> QED BY <1>1, <1>6
<1>8. IsFiniteSet(E)
  <2> HIDE DEF C, D
  <2> QED BY <1>1, <1>7
<1> QED BY <1>2, <1>8

(* A replay of one custody: an integer, zero where nothing moved. *)
LEMMA ReplayedType ==
  ASSUME StockRows, NEW w \in Warehouses, NEW c \in Custodies
  PROVE  /\ Replayed(w, c) \in Int
         /\ (\A leg \in Legs : ledger[w][leg] = 0) => Replayed(w, c) = 0
<1> DEFINE f == [leg \in Legs |-> IF leg \in ReplayedIn THEN ledger[w][leg] ELSE -ledger[w][leg]]
           S == {leg \in Legs : CustodyOf(leg) = c}
<1>1. \A leg \in Legs : ledger[w][leg] \in Nat
  BY StockTypes
<1>2. \A leg \in S : f[leg] \in Int /\ (ledger[w][leg] = 0 => f[leg] = 0)
  BY <1>1
<1>3. IsFiniteSet(S)
  BY LegsFinite, FS_Subset
<1>4. Replayed(w, c) = Net(f, S)
  BY DEF Replayed
<1>5. (\A leg \in Legs : ledger[w][leg] = 0) => \A leg \in S : f[leg] = 0
  BY <1>2
<1> HIDE DEF f, S
<1> QED BY <1>2, <1>3, <1>4, <1>5, NetType, NetZero

(* A replay finds in transit what came in and did not go out. *)
LEMMA ReplayedTransit ==
  ASSUME StockRows, NEW w \in Warehouses
  PROVE  Replayed(w, "transfer_in_transit") =
           ledger[w]["transfer_in_transit_in"] - ledger[w]["transfer_in_transit_out"]
<1> DEFINE in  == "transfer_in_transit_in"
           out == "transfer_in_transit_out"
           S   == {in, out}
           f   == [leg \in Legs |-> IF leg \in ReplayedIn THEN ledger[w][leg] ELSE -ledger[w][leg]]
           gains  == [leg \in S |-> Positive(f[leg])]
           losses == [leg \in S |-> Positive(-f[leg])]
<1>1. ledger[w][in] \in Nat /\ ledger[w][out] \in Nat
  BY StockTypes DEF Legs
<1>2. f[in] = ledger[w][in] /\ f[out] = -ledger[w][out]
  BY DEF ReplayedIn, Legs
<1>3. {leg \in Legs : CustodyOf(leg) = "transfer_in_transit"} = S
  BY DEF CustodyOf, Legs
<1>4. Replayed(w, "transfer_in_transit") = Total(gains, S) - Total(losses, S)
  <2>1. Replayed(w, "transfer_in_transit") = Net(f, S)
    BY <1>3 DEF Replayed
  <2> QED BY <2>1 DEF Net
<1> HIDE DEF f
<1>5. /\ gains[in] = ledger[w][in] /\ gains[out] = 0
      /\ losses[in] = 0 /\ losses[out] = ledger[w][out]
  BY <1>1, <1>2 DEF Positive
<1>6. in \in S /\ out \in S /\ S \ {in} = {out} /\ S \ {out} = {in}
  OBVIOUS
<1>7. IsFiniteSet(S)
  <2>1. S = {in} \cup {out}
    OBVIOUS
  <2>2. IsFiniteSet({in}) /\ IsFiniteSet({out})
    BY FS_Singleton
  <2> QED BY <2>1, <2>2, FS_Union
<1>8. \A leg \in S : gains[leg] \in Nat /\ losses[leg] \in Nat
  BY <1>1, <1>5
<1> HIDE DEF gains, losses, S
<1>9. Total(gains, S) = Total(gains, S \ {in}) + gains[in]
  BY <1>6, <1>7, <1>8, TotalSplit
<1>10. Total(losses, S) = Total(losses, S \ {out}) + losses[out]
  BY <1>6, <1>7, <1>8, TotalSplit
<1>11. Total(gains, S \ {in}) = 0 /\ Total(losses, S \ {out}) = 0
  BY <1>5, <1>6, TotalZero
<1> QED BY <1>1, <1>4, <1>5, <1>9, <1>10, <1>11

(* A rebuild that begins writes nothing yet. *)
LEMMA BeginRebuildStep ==
  ASSUME StockInv, NEW w \in Warehouses, BeginRebuild(w)
  PROVE  StockInv'
<1>1. /\ UNCHANGED <<ledger, stock, valuation, transfer, adjustment, arrival>>
      /\ rebuild' = {[warehouse |-> w, units |-> stock[w]["available"],
                      valued |-> w \in DOMAIN valuation]}
  BY DEF BeginRebuild
<1>2. stock[w]["available"] \in Nat /\ stock[w]["transfer_in_transit"] \in Nat
  BY StockTypes DEF StockInv
<1>3. w \notin DOMAIN valuation =>
        stock[w]["available"] = 0 /\ stock[w]["transfer_in_transit"] = 0
  BY DEF StockInv, UnvaluedIsEmpty
<1>4. ASSUME NEW r \in rebuild'
      PROVE  /\ r.warehouse \in Warehouses /\ r.units \in Nat
             /\ r.units <= stock'[r.warehouse]["available"]
             /\ ~r.valued => r.units = 0 /\ stock'[r.warehouse]["transfer_in_transit"] = 0
  <2>1. /\ r.warehouse = w /\ r.units = stock[w]["available"]
        /\ r.valued = (w \in DOMAIN valuation)
    BY <1>1, <1>4
  <2>2. r.units <= stock'[r.warehouse]["available"]
    BY <1>1, <1>2, <2>1
  <2> QED BY <1>1, <1>2, <1>3, <2>1, <2>2
<1>5. RebuildSound'
  BY <1>4 DEF RebuildSound
<1>6. /\ adjustment' \in [Adjustments -> AdjustmentRow] /\ arrival' \in [Arrivals -> ArrivalRow]
      /\ \A z \in Adjustments :
           adjustment'[z].status # "none" => adjustment'[z].warehouse \in DOMAIN valuation
  BY <1>1 DEF StockInv, StockRows, RowsStay
<1> QED BY <1>1, <1>5, <1>6, StockKept

(* A rebuild writes what the ledger says, added to what has come meanwhile. *)
LEMMA FinishRebuildStep ==
  ASSUME StockInv, NEW r \in rebuild, NEW kept \in BOOLEAN, FinishRebuild(r, kept)
  PROVE  StockInv'
<1>1. PICK w \in Warehouses, u \in Nat : w = r.warehouse /\ u = r.units
  BY DEF StockInv, RebuildSound
<1>2. /\ StockRows /\ UNCHANGED <<ledger, transfer, adjustment, arrival>> /\ rebuild' = {}
      /\ u <= stock[w]["available"]
      /\ kept => u = 0 /\ stock[w]["transfer_in_transit"] = 0
  BY <1>1 DEF FinishRebuild, StockInv, RebuildSound
<1>3. PICK spared \in Nat : spared = stock[w]["available"] - u
  <2>1. stock[w]["available"] \in Nat
    BY <1>2, StockTypes
  <2>2. stock[w]["available"] - u \in Nat
    BY <1>2, <2>1
  <2> QED BY <2>2
<1>4. PICK a \in Int : a = Replayed(w, "available")
  BY <1>2, ReplayedType DEF Custodies
<1>5. PICK b \in Int : b = Replayed(w, "transfer_in_transit")
  BY <1>2, ReplayedType DEF Custodies
<1>6. b = stock[w]["transfer_in_transit"] /\ b \in Nat
  BY <1>2, <1>5, ReplayedTransit, StockTypes DEF StockInv, TransitReplays
<1>7. /\ spared + a >= 0
      /\ stock' = [stock EXCEPT ![w] = [c \in Custodies |->
           IF c = "available" THEN spared + a ELSE b]]
  <2> DEFINE rest == [available |-> spared, transfer_in_transit |-> 0]
  <2>1. /\ \A c \in Custodies : rest[c] + Replayed(w, c) >= 0
        /\ stock' = [stock EXCEPT ![w] = [c \in Custodies |-> rest[c] + Replayed(w, c)]]
    BY <1>1, <1>3 DEF FinishRebuild
  <2>2. /\ rest["available"] + Replayed(w, "available") = spared + a
        /\ rest["transfer_in_transit"] + Replayed(w, "transfer_in_transit") = b
    BY <1>4, <1>5
  <2>3. \A c \in Custodies : rest[c] + Replayed(w, c) = IF c = "available" THEN spared + a ELSE b
    BY <2>2 DEF Custodies
  <2> HIDE DEF rest
  <2>4. [c \in Custodies |-> rest[c] + Replayed(w, c)] =
          [c \in Custodies |-> IF c = "available" THEN spared + a ELSE b]
    BY <2>3
  <2> QED BY <2>1, <2>2, <2>4 DEF Custodies
<1>8. /\ stock' \in [Warehouses -> [Custodies -> Nat]]
      /\ stock'[w]["available"] = spared + a /\ stock'[w]["transfer_in_transit"] = b
      /\ \A x \in Warehouses \ {w} : stock'[x] = stock[x]
  <2>1. spared + a \in Nat
    BY <1>7
  <2>2. [c \in Custodies |-> IF c = "available" THEN spared + a ELSE b] \in [Custodies -> Nat]
    BY <1>6, <2>1
  <2> QED BY <1>2, <1>7, <2>2 DEF StockRows, Custodies
<1>9. /\ DOMAIN valuation \subseteq DOMAIN valuation'
      /\ DOMAIN valuation' \subseteq DOMAIN valuation \cup {w}
      /\ \A x \in DOMAIN valuation' \ DOMAIN valuation : \E leg \in Legs : ledger[x][leg] > 0
      /\ \A x \in DOMAIN valuation' : valuation'[x] \in Int
      /\ Valued(w)' <= spared + a + b
      /\ \A x \in Warehouses \ {w} : Valued(x)' = Valued(x)
      /\ w \notin DOMAIN valuation' => spared + a = 0 /\ b = 0
  <2>1. CASE ~Moved(w)
    <3>1. a = 0 /\ b = 0
      <4>1. \A leg \in Legs : ledger[w][leg] = 0
        BY <1>2, <2>1, StockTypes DEF Moved
      <4> QED BY <1>2, <1>4, <1>5, <4>1, ReplayedType DEF Custodies
    <3>2. w \notin DOMAIN valuation
      BY <2>1 DEF StockInv, RowsStay, Moved
    <3>3. valuation' = [x \in DOMAIN valuation |-> valuation[x]]
      <4>1. valuation' = Restrict(valuation, DOMAIN valuation \ {w})
        BY <1>1, <2>1 DEF FinishRebuild
      <4> QED BY <3>2, <4>1 DEF Restrict
    <3>4. Valued(w)' = 0 /\ \A x \in Warehouses \ {w} : Valued(x)' = Valued(x)
      BY <3>2, <3>3 DEF Valued, ValueIn
    <3>5. spared = 0
      <4>1. stock[w]["available"] = 0
        BY <3>2 DEF StockInv, UnvaluedIsEmpty
      <4> QED BY <1>2, <1>3, <4>1
    <3> QED BY <1>2, <3>1, <3>2, <3>3, <3>4, <3>5 DEF StockRows
  <2>2. CASE Moved(w)
    <3>1. Valued(w) \in Int /\ (kept => Valued(w) <= spared)
      <4>1. Valued(w) \in Int /\ Valued(w) <= OnHand(w) /\ stock[w]["available"] \in Nat
        BY <1>2, StockTypes DEF StockInv
      <4> QED BY <1>2, <1>3, <4>1 DEF OnHand
    <3>2. PICK v \in Int : v = (IF kept THEN Valued(w) ELSE 0) + a + b
      BY <3>1
    <3>3. v <= spared + a + b
      BY <3>1, <3>2
    <3>4. valuation' = WithRow(valuation, w, v)
      BY <1>1, <1>4, <1>5, <2>2, <3>2 DEF FinishRebuild, Valued
    <3>5. \E leg \in Legs : ledger[w][leg] > 0
      BY <2>2 DEF Moved
    <3> QED BY <1>2, <3>3, <3>4, <3>5, RowWritten
  <2> QED BY <2>1, <2>2
<1>10. StockRows'
  BY <1>2, <1>8, <1>9 DEF StockRows
<1>11. TransitReplays'
  BY <1>2, <1>6, <1>8 DEF StockInv, TransitReplays
<1>12. TransfersMove'
  BY <1>2 DEF StockInv, TransfersMove
<1>13. RowsStay'
  <2>1. \A x \in Warehouses, leg \in Legs : ledger'[x][leg] >= ledger[x][leg]
    BY <1>2, StockTypes
  <2>2. \A z \in Adjustments :
          adjustment'[z].status # "none" => adjustment'[z].warehouse \in DOMAIN valuation'
    BY <1>2, <1>9 DEF StockInv, RowsStay
  <2> QED BY <1>2, <1>9, <1>10, <2>1, <2>2, RowsStayed
<1>14. UnvaluedIsEmpty'
  <2>1. \A x \in Warehouses \ DOMAIN valuation' : x \in Warehouses \ DOMAIN valuation
    BY <1>9
  <2> QED BY <1>8, <1>9, <2>1 DEF StockInv, UnvaluedIsEmpty
<1>15. RebuildSound'
  BY <1>2 DEF RebuildSound
<1>16. \A x \in Warehouses : stock'[x]["transfer_in_transit"] = TakenFrom(x)'
  BY <1>2, <1>6, <1>8, TakenKept DEF StockInv
<1>17. ASSUME NEW x \in Warehouses PROVE (Valued(x) <= OnHand(x))'
  <2>1. CASE x = w
    BY <1>8, <1>9, <2>1 DEF OnHand
  <2>2. CASE x # w
    BY <1>8, <1>9, <2>2 DEF StockInv, OnHand
  <2> QED BY <2>1, <2>2
<1> QED BY <1>10, <1>11, <1>12, <1>13, <1>14, <1>15, <1>16, <1>17 DEF StockInv

-----------------------------------------------------------------------------
(* The invariant and its theorems *)

(* Empty warehouses, and nothing requested or under way. *)
LEMMA StockInvInit ==
  ASSUME StockInit
  PROVE  StockInv
<1>1. PICK w0 \in Warehouses :
        /\ transfer = [t \in Transfers |->
             [status |-> "none", from |-> w0, to |-> w0, quantity |-> 0]]
        /\ adjustment = [a \in Adjustments |->
             [status |-> "none", kind |-> "surplus", warehouse |-> w0, quantity |-> 0]]
        /\ arrival = [a \in Arrivals |-> [warehouse |-> w0, quantity |-> 0]]
  BY DEF StockInit
<1>2. /\ ledger = [w \in Warehouses |-> [leg \in Legs |-> 0]]
      /\ stock = [w \in Warehouses |-> [c \in Custodies |-> 0]]
      /\ valuation = [w \in {} |-> 0] /\ rebuild = {}
  BY DEF StockInit
<1>3. /\ transfer \in [Transfers -> TransferRow] /\ adjustment \in [Adjustments -> AdjustmentRow]
      /\ arrival \in [Arrivals -> ArrivalRow]
  BY <1>1, StockAssumption DEF TransferRow, AdjustmentRow, ArrivalRow, Movable
<1>4. StockRows
  BY <1>2, <1>3 DEF StockRows
<1>5. TransitReplays
  BY <1>2 DEF TransitReplays, Custodies, Legs
<1>6. TransfersMove /\ RowsStay /\ UnvaluedIsEmpty /\ RebuildSound
  BY <1>1, <1>2 DEF TransfersMove, RowsStay, UnvaluedIsEmpty, RebuildSound, Custodies
<1>7. ASSUME NEW w \in Warehouses PROVE stock[w]["transfer_in_transit"] = TakenFrom(w)
  <2>1. OnTheWay(w) = {}
    BY <1>1 DEF OnTheWay
  <2>2. TakenFrom(w) = 0
    BY <2>1, TotalZero DEF TakenFrom
  <2> QED BY <1>2, <2>2 DEF Custodies
<1>8. \A w \in Warehouses : Valued(w) <= OnHand(w)
  BY <1>2 DEF Valued, ValueIn, OnHand, Custodies
<1> QED BY <1>4, <1>5, <1>6, <1>7, <1>8 DEF StockInv

(* Every command keeps the invariant. *)
LEMMA StockInvNext ==
  ASSUME StockInv, [StockNext]_stockVars
  PROVE  StockInv'
<1>1. ASSUME NEW w \in Warehouses, BeginRebuild(w) PROVE StockInv'
  BY <1>1, BeginRebuildStep
<1>2. ASSUME NEW r \in rebuild, NEW kept \in BOOLEAN, FinishRebuild(r, kept) PROVE StockInv'
  BY <1>2, FinishRebuildStep
<1>3. ASSUME NEW t \in Transfers, ReceiveTransfer(t) PROVE StockInv'
  BY <1>3, ReceiveTransferStep
<1>4. ASSUME NEW t \in Transfers, NEW f \in Warehouses, NEW w \in Warehouses,
             NEW q \in Movable \ {0}, RequestTransfer(t, f, w, q)
      PROVE  StockInv'
  BY <1>4, RequestTransferStep
<1>5. ASSUME NEW a \in Adjustments, PostAdjustment(a) \/ ReverseAdjustment(a) PROVE StockInv'
  BY <1>5, SettleAdjustmentStep
<1>6. ASSUME NEW a \in Adjustments, NEW k \in {"surplus", "shortage"}, NEW w \in Warehouses,
             NEW q \in Movable \ {0}, RequestAdjustment(a, k, w, q)
      PROVE  StockInv'
  BY <1>6, RequestAdjustmentStep
<1>7. ASSUME NEW w \in Warehouses, NEW q \in Movable \ {0}, OpenStock(w, q) PROVE StockInv'
  BY <1>7, OpenStockStep
<1>8. ASSUME NEW w \in Warehouses, NEW q \in Movable \ {0}, ReceiveGoods(w, q) PROVE StockInv'
  BY <1>8, ReceiveGoodsStep
<1>9. ASSUME \/ \E w \in Warehouses : FindNoRow(w)
             \/ \E a \in Arrivals, w \in Warehouses, q \in Movable \ {0} : BeginReceipt(a, w, q)
      PROVE  StockInv'
  BY <1>9, NoRowStep
<1>10. ASSUME NEW a \in Arrivals, FinishReceipt(a) PROVE StockInv'
  BY <1>10, FinishReceiptStep
<1>11. CASE UNCHANGED stockVars
  <2>1. UNCHANGED <<ledger, stock, valuation, transfer, adjustment, arrival, rebuild>>
    BY <1>11 DEF stockVars
  <2>2. /\ RebuildSound' /\ adjustment' \in [Adjustments -> AdjustmentRow]
        /\ arrival' \in [Arrivals -> ArrivalRow]
        /\ \A z \in Adjustments :
             adjustment'[z].status # "none" => adjustment'[z].warehouse \in DOMAIN valuation
    BY <2>1 DEF StockInv, StockRows, RowsStay, RebuildSound
  <2> QED BY <2>1, <2>2, StockKept
<1> QED BY <1>1, <1>2, <1>3, <1>4, <1>5, <1>6, <1>7, <1>8, <1>9, <1>10, <1>11 DEF StockNext

(* The invariant always holds. *)
LEMMA StockAlwaysInv == StockSpec => []StockInv
BY StockInvInit, StockInvNext, PTL DEF StockSpec

(* What is in transit from a warehouse is what its transfers not yet received took,
   through every adjustment and every rebuild of the projections. *)
THEOREM TransitAlwaysMatches == StockSpec => []TransitMatchesTransfers
<1>1. StockInv => TransitMatchesTransfers
  BY DEF StockInv, TransitMatchesTransfers, TakenFrom, OnTheWay, QuantityOf
<1> QED BY <1>1, StockAlwaysInv, PTL

(* No warehouse values more units than it has, on the shelf or in transit, however
   receipts without a lock, transfers, corrections and rebuilds overlap. *)
THEOREM ValuedUnitsAreThere == StockSpec => []ValuedAreThere
<1>1. StockInv => ValuedAreThere
  BY DEF StockInv, ValuedAreThere
<1> QED BY <1>1, StockAlwaysInv, PTL

-----------------------------------------------------------------------------
(* Procurement: the inductive invariant *)

Counts == [Lines -> Nat]

OrderType ==
  [status : {"none", "draft", "approved", "partially_received", "received"},
   converted : BOOLEAN, base : Counts, received : Counts, accepted : Counts,
   backorder : [Lines -> Int]]

(* The rows are well formed. *)
PurchaseRows ==
  /\ request \in [status : {"draft", "approved", "rejected", "partially_converted", "fully_converted"},
                  lines : Counts, generation : Nat]
  /\ order \in [Orders -> OrderType]
  /\ receipt \in [Orders -> [received : Counts, accepted : Counts]]
  /\ onHand \in Counts
  /\ DOMAIN valued \subseteq Lines /\ \A l \in DOMAIN valued : valued[l] \in Nat
  /\ job = [j \in Jobs |-> job[j]]

OneConversion == \A i, j \in Jobs : job[i].op = "convert" /\ job[j].op = "convert" => i = j

(* What a conversion takes is still open, unless a revision came in between. *)
Fits(x) ==
  /\ x.order \in Orders /\ x.take \in Counts /\ x.of \in Nat /\ x.of <= request.generation
  /\ x.of = request.generation => \A l \in Lines : Converted(l) + x.take[l] <= request.lines[l]

Written(o) == o \in Orders /\ order[o].status # "none"

Divided(x) ==
  /\ x.received \in Counts /\ x.accepted \in Counts
  /\ \A l \in Lines : x.accepted[l] <= x.received[l]

(* What a posting has computed is not undone by those committed before it. *)
Computed(x) ==
  /\ x.status \in {"approved", "partially_received", "received"}
  /\ DOMAIN x.seen \subseteq Lines
  /\ \A l \in DOMAIN x.seen : x.seen[l] \in Nat /\ x.seen[l] <= onHand[l]
  /\ x.status = "received" =>
       Total(order[x.order].base, Lines) <= Total(Plus(order[x.order].accepted, x.accepted), Lines)

(* What a request has read is still so, as far as it writes by it. *)
JobSound(x) ==
  /\ x.op = "convert" => Fits(x)
  /\ x.op \in {"approve_order", "receive", "posting"} => Written(x.order)
  /\ x.op \in {"receive", "posting"} => Divided(x)
  /\ x.op = "posting" => Computed(x)

Unwritten(o) ==
  order[o].status = "none" =>
    order[o] = NoOrder /\ receipt[o] = [received |-> Nothing, accepted |-> Nothing]

LinesReconcile(o) ==
  /\ order[o].received = receipt[o].received
  /\ order[o].accepted = receipt[o].accepted
  /\ order[o].status = "received" =>
       Total(order[o].base, Lines) <= Total(order[o].accepted, Lines)
  /\ \A l \in Lines : order[o].received[l] > 0 =>
       order[o].backorder[l] = order[o].base[l] - order[o].accepted[l]

AcceptedOf(l) == [o \in Orders |-> receipt[o].accepted[l]]

StockReconciles(l) ==
  /\ onHand[l] = Total(AcceptedOf(l), Orders)
  /\ l \in DOMAIN valued => valued[l] <= onHand[l]

ProcurementInv ==
  /\ PurchaseRows
  /\ OneConversion
  /\ \A j \in Jobs : JobSound(job[j])
  /\ \A o \in Orders : Unwritten(o) /\ LinesReconcile(o)
  /\ \A l \in Lines : StockReconciles(l)
  /\ ConvertedWithinRequest

-----------------------------------------------------------------------------
(* What is converted *)

BasesOf(l) == [o \in Orders |-> order[o].base[l]]
ConvertedOrders == {o \in Orders : order[o].converted}

(* Finitely many units are converted. *)
LEMMA ConvertedType ==
  ASSUME PurchaseRows, NEW l \in Lines
  PROVE  Converted(l) \in Nat
<1>1. \A o \in ConvertedOrders : BasesOf(l)[o] \in Nat
  BY DEF PurchaseRows, OrderType, Counts, BasesOf, ConvertedOrders
<1>2. IsFiniteSet(ConvertedOrders)
  BY ProcurementAssumption, FS_Subset DEF ConvertedOrders
<1>3. Converted(l) = Total(BasesOf(l), ConvertedOrders)
  BY DEF Converted, BasesOf, ConvertedOrders
<1> QED BY <1>1, <1>2, <1>3, TotalType

(* A step that converts nothing. *)
LEMMA ConvertedKept ==
  ASSUME NEW l \in Lines,
         \A o \in Orders : /\ order'[o].base[l] = order[o].base[l]
                           /\ order'[o].converted = order[o].converted
  PROVE  Converted(l)' = Converted(l)
<1>1. BasesOf(l)' = BasesOf(l)
  BY DEF BasesOf
<1>2. ConvertedOrders' = ConvertedOrders
  BY DEF ConvertedOrders
<1>3. Converted(l) = Total(BasesOf(l), ConvertedOrders)
  BY DEF Converted, BasesOf, ConvertedOrders
<1>4. Converted(l)' = Total(BasesOf(l)', ConvertedOrders')
  BY DEF Converted, BasesOf, ConvertedOrders
<1> QED BY <1>1, <1>2, <1>3, <1>4

(* An order that is written. *)
LEMMA ConvertedChange ==
  ASSUME PurchaseRows, NEW o \in Orders, ~order[o].converted,
         NEW row \in OrderType, order' = [order EXCEPT ![o] = row], NEW l \in Lines
  PROVE  Converted(l)' = Converted(l) + (IF row.converted THEN row.base[l] ELSE 0)
<1> DEFINE f == BasesOf(l)
           g == BasesOf(l)'
           T == ConvertedOrders
           U == ConvertedOrders'
<1>1. order'[o] = row /\ \A p \in Orders \ {o} : order'[p] = order[p]
  BY DEF PurchaseRows
<1>2. \A p \in Orders : order[p].base[l] \in Nat /\ order'[p].base[l] \in Nat
  BY <1>1 DEF PurchaseRows, OrderType, Counts
<1>3. \A p \in Orders : f[p] \in Nat /\ g[p] \in Nat
  BY <1>2 DEF BasesOf
<1>4. g[o] = row.base[l] /\ \A p \in Orders \ {o} : g[p] = f[p]
  BY <1>1 DEF BasesOf
<1>5. /\ T \in SUBSET Orders /\ U \in SUBSET Orders
      /\ o \notin T /\ (o \in U <=> row.converted)
      /\ \A p \in Orders \ {o} : p \in T <=> p \in U
  BY <1>1 DEF ConvertedOrders
<1>6. Converted(l) = Total(f, T) /\ Converted(l)' = Total(g, U)
  BY DEF Converted, BasesOf, ConvertedOrders
<1>7. Converted(l) \in Nat
  BY ConvertedType
<1> HIDE DEF f, g, T, U
<1>8. Total(g, U) = Total(f, T) - (IF o \in T THEN f[o] ELSE 0) + (IF o \in U THEN g[o] ELSE 0)
  <2>1. \A p \in T \ {o} : g[p] = f[p]
    BY <1>4, <1>5
  <2> QED BY <1>3, <1>5, <2>1, TotalPart, ProcurementAssumption
<1>9. Total(g, U) = Total(f, T) + (IF row.converted THEN row.base[l] ELSE 0)
  <2>1. (IF o \in T THEN f[o] ELSE 0) = 0
    BY <1>5
  <2>2. (IF o \in U THEN g[o] ELSE 0) = (IF row.converted THEN row.base[l] ELSE 0)
    BY <1>4, <1>5
  <2> QED BY <1>6, <1>7, <1>8, <2>1, <2>2
<1> QED BY <1>6, <1>9

-----------------------------------------------------------------------------
(* Requests in progress *)

(* A request that goes on. *)
LEMMA JobWritten ==
  ASSUME PurchaseRows, OneConversion, NEW j \in Jobs, NEW x, job' = [job EXCEPT ![j] = x],
         x.op = "convert" => \A i \in Jobs \ {j} : job[i].op # "convert"
  PROVE  /\ job' = [i \in Jobs |-> job'[i]] /\ job'[j] = x
         /\ \A i \in Jobs \ {j} : job'[i] = job[i]
         /\ OneConversion'
<1>1. job = [i \in Jobs |-> job[i]]
  BY DEF PurchaseRows
<1>2. job'[j] = x /\ \A i \in Jobs \ {j} : job'[i] = job[i]
  BY <1>1
<1>3. job' = [i \in Jobs |-> job'[i]]
  BY <1>1
<1>4. OneConversion'
  BY <1>2 DEF OneConversion
<1> QED BY <1>2, <1>3, <1>4

(* A request that does not write yet. *)
LEMMA JobStep ==
  ASSUME ProcurementInv, UNCHANGED <<request, order, receipt, onHand, valued>>,
         NEW j \in Jobs, NEW x, job' = [job EXCEPT ![j] = x], JobSound(x),
         x.op = "convert" => \A i \in Jobs \ {j} : job[i].op # "convert"
  PROVE  ProcurementInv'
<1>1. /\ job' = [i \in Jobs |-> job'[i]] /\ job'[j] = x
      /\ \A i \in Jobs \ {j} : job'[i] = job[i]
      /\ OneConversion'
  BY JobWritten DEF ProcurementInv
<1>2. PurchaseRows'
  BY <1>1 DEF ProcurementInv, PurchaseRows
<1>3. \A l \in Lines : Converted(l)' = Converted(l)
  BY DEF Converted
<1>4. ASSUME NEW i \in Jobs PROVE JobSound(job[i])'
  <2>1. PICK y : y = job'[i] /\ JobSound(y)
    BY <1>1 DEF ProcurementInv
  <2>2. JobSound(y)'
    BY <1>3, <2>1 DEF JobSound, Fits, Written, Divided, Computed, Plus
  <2> QED BY <2>1, <2>2 DEF JobSound, Fits, Written, Divided, Computed, Plus
<1>5. \A o \in Orders : Unwritten(o)' /\ LinesReconcile(o)'
  BY DEF ProcurementInv, Unwritten, LinesReconcile
<1>6. \A l \in Lines : StockReconciles(l)'
  BY DEF ProcurementInv, StockReconciles, AcceptedOf
<1>7. ConvertedWithinRequest'
  BY <1>3 DEF ProcurementInv, ConvertedWithinRequest
<1> QED BY <1>1, <1>2, <1>4, <1>5, <1>6, <1>7 DEF ProcurementInv

(* A request that begins, or ends without writing. *)
LEMMA BeginStep ==
  ASSUME ProcurementInv, NEW j \in Jobs,
         \/ BeginRevise(j) \/ Refuse(j)
         \/ \E verdict \in {"approved", "rejected"} : BeginReview(j, verdict)
         \/ \E o \in Orders : BeginApproveOrder(j, o)
  PROVE  ProcurementInv'
<1>1. CASE Refuse(j)
  <2>1. JobSound(Idle) /\ Idle.op # "convert"
    BY DEF JobSound, Idle
  <2>2. job' = [job EXCEPT ![j] = Idle] /\ UNCHANGED <<request, order, receipt, onHand, valued>>
    BY <1>1 DEF Refuse, Finish
  <2> QED BY <2>1, <2>2, JobStep
<1>2. CASE BeginRevise(j)
  <2> DEFINE x == [op |-> "revise"]
  <2>1. JobSound(x) /\ x.op # "convert"
    BY DEF JobSound
  <2>2. job' = [job EXCEPT ![j] = x] /\ UNCHANGED <<request, order, receipt, onHand, valued>>
    BY <1>2 DEF BeginRevise, Start
  <2> HIDE DEF x
  <2> QED BY <2>1, <2>2, JobStep
<1>3. ASSUME NEW verdict \in {"approved", "rejected"}, BeginReview(j, verdict)
      PROVE  ProcurementInv'
  <2> DEFINE x == [op |-> verdict]
  <2>1. JobSound(x) /\ x.op # "convert"
    BY DEF JobSound
  <2>2. job' = [job EXCEPT ![j] = x] /\ UNCHANGED <<request, order, receipt, onHand, valued>>
    BY <1>3 DEF BeginReview, Start
  <2> HIDE DEF x
  <2> QED BY <2>1, <2>2, JobStep
<1>4. ASSUME NEW o \in Orders, BeginApproveOrder(j, o) PROVE ProcurementInv'
  <2> DEFINE x == [op |-> "approve_order", order |-> o]
  <2>1. JobSound(x) /\ x.op # "convert"
    BY <1>4 DEF BeginApproveOrder, JobSound, Written
  <2>2. job' = [job EXCEPT ![j] = x] /\ UNCHANGED <<request, order, receipt, onHand, valued>>
    BY <1>4 DEF BeginApproveOrder, Start
  <2> HIDE DEF x
  <2> QED BY <2>1, <2>2, JobStep
<1> QED BY <1>1, <1>2, <1>3, <1>4

(* A conversion begins: what it takes is open, and no other is under way. *)
LEMMA BeginConvertStep ==
  ASSUME ProcurementInv, NEW j \in Jobs, NEW o \in Orders, NEW take \in Quantities,
         BeginConvert(j, o, take)
  PROVE  ProcurementInv'
<1> DEFINE x == [op |-> "convert", order |-> o, take |-> take, of |-> request.generation]
<1>1. \A i \in Jobs : job[i].op # "convert"
  BY DEF BeginConvert, ConversionLock
<1>2. JobSound(x)
  <2>1. take \in Counts /\ request.generation \in Nat /\ request.lines \in Counts
    BY ProcurementAssumption DEF ProcurementInv, PurchaseRows, Quantities, Counts
  <2>2. ASSUME NEW l \in Lines PROVE Converted(l) + take[l] <= request.lines[l]
    <3>1. take[l] <= request.lines[l] - Converted(l)
      BY DEF BeginConvert
    <3>2. take[l] \in Nat /\ request.lines[l] \in Nat /\ Converted(l) \in Nat
      BY <2>1, ConvertedType DEF Counts, ProcurementInv
    <3> QED BY <3>1, <3>2
  <2>3. /\ x.op = "convert" /\ x.order = o /\ x.take = take /\ x.of = request.generation
    OBVIOUS
  <2> HIDE DEF x
  <2> QED BY <2>1, <2>2, <2>3 DEF JobSound, Fits
<1>3. job' = [job EXCEPT ![j] = x] /\ UNCHANGED <<request, order, receipt, onHand, valued>>
  BY DEF BeginConvert, Start
<1> HIDE DEF x
<1> QED BY <1>1, <1>2, <1>3, JobStep

(* A receipt begins. *)
LEMMA BeginReceiveStep ==
  ASSUME ProcurementInv, NEW j \in Jobs, NEW o \in Orders,
         NEW r \in Deliveries, NEW a \in Deliveries, BeginReceive(j, o, r, a)
  PROVE  ProcurementInv'
<1> DEFINE x == [op |-> "receive", order |-> o, received |-> r, accepted |-> a,
                 status |-> order[o].status]
<1>1. /\ r \in Counts /\ a \in Counts
      /\ order[o].status # "none" /\ \A l \in Lines : a[l] <= r[l]
  BY ProcurementAssumption DEF BeginReceive, Deliveries, Counts
<1>2. x.op = "receive" /\ x.order = o /\ x.received = r /\ x.accepted = a
  OBVIOUS
<1>3. job' = [job EXCEPT ![j] = x] /\ UNCHANGED <<request, order, receipt, onHand, valued>>
  BY DEF BeginReceive, Start
<1> HIDE DEF x
<1>4. JobSound(x)
  BY <1>1, <1>2 DEF JobSound, Written, Divided
<1> QED BY <1>2, <1>3, <1>4, JobStep

(* A receipt is posted: it computes the status and reads the valuation. *)
LEMMA PostStep ==
  ASSUME ProcurementInv, NEW j \in Jobs, Post(j)
  PROVE  ProcurementInv'
<1>1. PICK y : y = job[j]
  OBVIOUS
<1>2. y.op = "receive" /\ Written(y.order) /\ Divided(y)
  BY <1>1 DEF Post, ProcurementInv, JobSound
<1>3. PICK status : status = StatusAfter(y.order, y.accepted, y.status)
  OBVIOUS
<1>4. PICK changed : changed = (status # y.status)
  OBVIOUS
<1> DEFINE seen == Restrict(valued, DOMAIN valued \cap Stocked(j))
           x == [op |-> "posting", order |-> y.order, received |-> y.received,
                 accepted |-> y.accepted, seen |-> seen, changed |-> changed, status |-> status]
<1>5. job' = [job EXCEPT ![j] = x] /\ UNCHANGED <<request, order, receipt, onHand, valued>>
  BY <1>1, <1>3, <1>4 DEF Post
<1>6. /\ DOMAIN seen \subseteq Lines
      /\ \A l \in DOMAIN seen : seen[l] \in Nat /\ seen[l] <= onHand[l]
  BY DEF ProcurementInv, PurchaseRows, StockReconciles, Restrict
<1>7. /\ status \in {"approved", "partially_received", "received"}
      /\ status = "received" =>
           Total(order[y.order].base, Lines) <= Total(Plus(order[y.order].accepted, y.accepted), Lines)
  <2>1. /\ Total(order[y.order].base, Lines) \in Int
        /\ Total(Plus(order[y.order].accepted, y.accepted), Lines) \in Int
    <3>1. \A l \in Lines : /\ order[y.order].base[l] \in Nat
                           /\ Plus(order[y.order].accepted, y.accepted)[l] \in Nat
      BY <1>2 DEF ProcurementInv, PurchaseRows, OrderType, Counts, Written, Divided, Plus
    <3> QED BY <3>1, TotalType, ProcurementAssumption
  <2> QED BY <1>3, <2>1 DEF StatusAfter
<1> HIDE DEF seen
<1>8. /\ x.op = "posting" /\ x.order = y.order /\ x.received = y.received
      /\ x.accepted = y.accepted /\ x.seen = seen /\ x.status = status
  OBVIOUS
<1> HIDE DEF x
<1>9. JobSound(x)
  <2>1. Written(x.order) /\ Divided(x)
    BY <1>2, <1>8 DEF Written, Divided
  <2>2. Computed(x)
    BY <1>6, <1>7, <1>8 DEF Computed
  <2> QED BY <1>8, <2>1, <2>2 DEF JobSound
<1> QED BY <1>5, <1>8, <1>9, JobStep

-----------------------------------------------------------------------------
(* The purchase request *)

(* What a request has read of orders and stock, when both have only grown. *)
LEMMA StillSound ==
  ASSUME PurchaseRows, PurchaseRows', NEW y, JobSound(y), y.op # "convert",
         \A o \in Orders : order[o].status # "none" =>
           /\ order'[o].status # "none" /\ order'[o].base = order[o].base
           /\ \A l \in Lines : order[o].accepted[l] <= order'[o].accepted[l],
         \A l \in Lines : onHand[l] <= onHand'[l]
  PROVE  JobSound(y)'
<1>1. y.op \in {"approve_order", "receive", "posting"} => Written(y.order)'
  BY DEF JobSound, Written
<1>2. y.op \in {"receive", "posting"} => Divided(y)'
  BY DEF JobSound, Divided
<1>3. ASSUME y.op = "posting" PROVE Computed(y)'
  <2>1. Computed(y) /\ Written(y.order) /\ Divided(y)
    BY <1>3 DEF JobSound
  <2>2. \A l \in DOMAIN y.seen : y.seen[l] \in Nat /\ y.seen[l] <= onHand'[l]
    <3>1. ASSUME NEW l \in DOMAIN y.seen PROVE y.seen[l] <= onHand'[l]
      <4>1. l \in Lines /\ y.seen[l] \in Nat /\ y.seen[l] <= onHand[l]
        BY <2>1 DEF Computed
      <4>2. onHand[l] \in Nat /\ onHand'[l] \in Nat /\ onHand[l] <= onHand'[l]
        BY <4>1 DEF PurchaseRows, Counts
      <4> QED BY <4>1, <4>2
    <3> QED BY <2>1, <3>1 DEF Computed
  <2> DEFINE f == Plus(order[y.order].accepted, y.accepted)
             g == Plus(order'[y.order].accepted, y.accepted)
  <2>3. \A l \in Lines : f[l] \in Nat /\ g[l] \in Nat /\ f[l] <= g[l]
    <3>1. \A l \in Lines : /\ order[y.order].accepted[l] \in Nat /\ order'[y.order].accepted[l] \in Nat
                           /\ y.accepted[l] \in Nat
                           /\ order[y.order].accepted[l] <= order'[y.order].accepted[l]
      BY <2>1 DEF Written, Divided, PurchaseRows, OrderType, Counts
    <3> QED BY <3>1 DEF Plus
  <2>4. \A l \in Lines : order[y.order].base[l] \in Nat
    BY <2>1 DEF Written, PurchaseRows, OrderType, Counts
  <2>5. order'[y.order].base = order[y.order].base
    BY <2>1 DEF Written
  <2>6. y.status = "received" => Total(order[y.order].base, Lines) <= Total(f, Lines)
    BY <2>1 DEF Computed
  <2> HIDE DEF f, g
  <2>7. /\ Total(f, Lines) <= Total(g, Lines)
        /\ Total(f, Lines) \in Nat /\ Total(g, Lines) \in Nat
        /\ Total(order[y.order].base, Lines) \in Nat
    BY <2>3, <2>4, TotalMonotone, TotalType, ProcurementAssumption
  <2>8. y.status = "received" => Total(order'[y.order].base, Lines) <= Total(g, Lines)
    BY <2>5, <2>6, <2>7
  <2> QED BY <2>1, <2>2, <2>8 DEF Computed, g
<1> QED BY <1>1, <1>2, <1>3 DEF JobSound

(* Approved, rejected or revised, late or not: what is converted stays open. *)
LEMMA RequestStep ==
  ASSUME ProcurementInv, NEW j \in Jobs,
         Approve(j) \/ Reject(j) \/ \E q \in Quantities : FinishRevise(j, q)
  PROVE  ProcurementInv'
<1>1. /\ job' = [job EXCEPT ![j] = Idle] /\ UNCHANGED <<order, receipt, onHand, valued>>
  BY DEF Approve, Reject, FinishRevise, Finish
<1>2. /\ job' = [i \in Jobs |-> job'[i]] /\ job'[j] = Idle
      /\ \A i \in Jobs \ {j} : job'[i] = job[i]
      /\ OneConversion'
  <2>1. Idle.op # "convert" /\ PurchaseRows /\ OneConversion
    BY DEF Idle, ProcurementInv
  <2> QED BY <1>1, <2>1, JobWritten
<1>3. \A l \in Lines : Converted(l)' = Converted(l) /\ Converted(l) \in Nat
  BY <1>1, ConvertedKept, ConvertedType DEF ProcurementInv
<1>4. /\ request' \in [status : {"draft", "approved", "rejected", "partially_converted", "fully_converted"},
                       lines : Counts, generation : Nat]
      /\ \/ request'.lines = request.lines /\ request'.generation = request.generation
         \/ /\ request'.generation = request.generation + 1
            /\ \A l \in Lines : Converted(l) = 0
  <2>1. PICK r \in [status : {"draft", "approved", "rejected", "partially_converted", "fully_converted"},
                    lines : Counts, generation : Nat] : r = request
    BY DEF ProcurementInv, PurchaseRows
  <2>2. ASSUME Approve(j) \/ Reject(j)
        PROVE  /\ request' \in [status : {"draft", "approved", "rejected", "partially_converted", "fully_converted"},
                                lines : Counts, generation : Nat]
               /\ request'.lines = request.lines /\ request'.generation = request.generation
    <3>1. request' = [r EXCEPT !.status = "approved"] \/ request' = [r EXCEPT !.status = "rejected"]
      BY <2>1, <2>2 DEF Approve, Reject
    <3> QED BY <2>1, <3>1
  <2>3. ASSUME NEW q \in Quantities, FinishRevise(j, q)
        PROVE  /\ request' \in [status : {"draft", "approved", "rejected", "partially_converted", "fully_converted"},
                                lines : Counts, generation : Nat]
               /\ request'.generation = request.generation + 1
               /\ \A l \in Lines : Converted(l) = 0
    <3>1. /\ request' = [status |-> "draft", lines |-> q, generation |-> request.generation + 1]
          /\ \A l \in Lines : Converted(l) = 0
      BY <2>3 DEF FinishRevise, Unreferenced
    <3>2. q \in Counts /\ request.generation + 1 \in Nat
      BY <2>1, ProcurementAssumption DEF Quantities, Counts
    <3> QED BY <3>1, <3>2
  <2> QED BY <2>2, <2>3
<1>5. PurchaseRows'
  BY <1>1, <1>2, <1>4 DEF ProcurementInv, PurchaseRows
<1>6. ASSUME NEW i \in Jobs PROVE JobSound(job[i])'
  <2>1. PICK y : y = job'[i]
    OBVIOUS
  <2>2. JobSound(y)
    BY <1>2, <2>1 DEF ProcurementInv, JobSound, Idle
  <2>3. CASE y.op # "convert"
    <3>1. JobSound(y)'
      <4>1. PurchaseRows /\ onHand' = onHand /\ order' = order
        BY <1>1 DEF ProcurementInv
      <4>2. \A l \in Lines : onHand[l] <= onHand'[l]
        BY <4>1 DEF PurchaseRows, Counts
      <4>3. \A o \in Orders :
              /\ order'[o].status = order[o].status /\ order'[o].base = order[o].base
              /\ \A l \in Lines : order[o].accepted[l] <= order'[o].accepted[l]
        BY <4>1 DEF PurchaseRows, OrderType, Counts
      <4> QED BY <1>5, <2>2, <2>3, <4>1, <4>2, <4>3, StillSound
    <3> QED BY <2>1, <3>1 DEF JobSound, Fits, Written, Divided, Computed, Plus
  <2>4. CASE y.op = "convert"
    <3>1. Fits(y)
      BY <2>2, <2>4 DEF JobSound
    <3>2. request.generation \in Nat /\ y.of \in Nat
      BY <3>1 DEF ProcurementInv, PurchaseRows, Fits
    <3>3. Fits(y)'
      BY <1>3, <1>4, <3>1, <3>2 DEF Fits
    <3> QED BY <2>1, <2>4, <3>3 DEF JobSound, Fits
  <2> QED BY <2>3, <2>4
<1>7. \A o \in Orders : Unwritten(o)' /\ LinesReconcile(o)'
  BY <1>1 DEF ProcurementInv, Unwritten, LinesReconcile
<1>8. \A l \in Lines : StockReconciles(l)'
  BY <1>1 DEF ProcurementInv, StockReconciles, AcceptedOf
<1>9. ConvertedWithinRequest'
  <2>1. \A l \in Lines : request'.lines[l] \in Nat /\ Converted(l) <= request.lines[l]
    BY <1>4 DEF Counts, ProcurementInv, ConvertedWithinRequest
  <2> QED BY <1>3, <1>4, <2>1 DEF ConvertedWithinRequest
<1> QED BY <1>2, <1>5, <1>6, <1>7, <1>8, <1>9 DEF ProcurementInv

-----------------------------------------------------------------------------
(* Purchase orders *)

(* A purchase order that is not written yet. *)
LEMMA NoOrderRow ==
  /\ NoOrder \in OrderType /\ NoOrder.converted = FALSE
  /\ NoOrder.received = Nothing /\ NoOrder.accepted = Nothing
<1>1. Nothing \in Counts /\ Nothing \in [Lines -> Int]
  BY DEF Nothing, Counts
<1> QED BY <1>1 DEF NoOrder, OrderType

(* An order is written: nothing is received on it. *)
LEMMA NewOrder ==
  ASSUME ProcurementInv, NEW o \in Orders, order[o].status = "none",
         NEW row \in OrderType, row.status = "draft",
         row.received = Nothing, row.accepted = Nothing,
         order' = [order EXCEPT ![o] = row], UNCHANGED <<receipt, onHand, valued>>
  PROVE  /\ order' \in [Orders -> OrderType]
         /\ \A p \in Orders : order[p].status # "none" => order'[p] = order[p]
         /\ \A l \in Lines :
              Converted(l)' = Converted(l) + (IF row.converted THEN row.base[l] ELSE 0)
         /\ \A p \in Orders : Unwritten(p)' /\ LinesReconcile(p)'
         /\ \A l \in Lines : StockReconciles(l)'
<1>1. PurchaseRows /\ order[o] = NoOrder
      /\ receipt[o] = [received |-> Nothing, accepted |-> Nothing]
  BY DEF ProcurementInv, Unwritten
<1>2. /\ order' \in [Orders -> OrderType]
      /\ order'[o] = row /\ \A p \in Orders \ {o} : order'[p] = order[p]
  BY <1>1 DEF PurchaseRows
<1>3. \A l \in Lines :
        Converted(l)' = Converted(l) + (IF row.converted THEN row.base[l] ELSE 0)
  <2>1. ~order[o].converted
    BY <1>1 DEF NoOrder
  <2> QED BY <1>1, <2>1, ConvertedChange
<1>4. ASSUME NEW p \in Orders PROVE Unwritten(p)' /\ LinesReconcile(p)'
  <2>1. CASE p = o
    BY <1>1, <1>2, <2>1 DEF Unwritten, LinesReconcile, Nothing
  <2>2. CASE p # o
    BY <1>2, <2>2 DEF ProcurementInv, Unwritten, LinesReconcile
  <2> QED BY <2>1, <2>2
<1>5. \A l \in Lines : StockReconciles(l)'
  BY DEF ProcurementInv, StockReconciles, AcceptedOf
<1> QED BY <1>2, <1>3, <1>4, <1>5

(* An order without a request. *)
LEMMA CreateOrderStep ==
  ASSUME ProcurementInv, NEW o \in Orders, NEW base \in Quantities, CreateOrder(o, base)
  PROVE  ProcurementInv'
<1> DEFINE row == [NoOrder EXCEPT !.status = "draft", !.base = base]
<1>1. /\ order[o].status = "none" /\ order' = [order EXCEPT ![o] = row]
      /\ UNCHANGED <<request, receipt, onHand, valued, job>>
  BY DEF CreateOrder
<1>2. /\ row \in OrderType /\ row.status = "draft" /\ row.converted = FALSE
      /\ row.received = Nothing /\ row.accepted = Nothing
  <2>1. base \in Counts
    BY ProcurementAssumption DEF Quantities, Counts
  <2> QED BY <2>1, NoOrderRow DEF OrderType
<1> HIDE DEF row
<1>3. /\ order' \in [Orders -> OrderType]
      /\ \A p \in Orders : order[p].status # "none" => order'[p] = order[p]
      /\ \A l \in Lines : Converted(l)' = Converted(l) + (IF row.converted THEN row.base[l] ELSE 0)
      /\ \A p \in Orders : Unwritten(p)' /\ LinesReconcile(p)'
      /\ \A l \in Lines : StockReconciles(l)'
  BY <1>1, <1>2, NewOrder
<1>4. \A l \in Lines : Converted(l)' = Converted(l)
  <2>1. \A l \in Lines : Converted(l)' = Converted(l) + 0 /\ Converted(l) \in Nat
    BY <1>2, <1>3, ConvertedType DEF ProcurementInv
  <2> QED BY <2>1
<1>5. PurchaseRows'
  BY <1>1, <1>3 DEF ProcurementInv, PurchaseRows
<1>6. ASSUME NEW j \in Jobs PROVE JobSound(job[j])'
  <2>1. PICK y : y = job[j] /\ y = job'[j] /\ JobSound(y)
    BY <1>1 DEF ProcurementInv
  <2>2. CASE y.op # "convert"
    <3>1. /\ \A l \in Lines : onHand[l] <= onHand'[l]
          /\ \A p \in Orders, l \in Lines : order[p].accepted[l] <= order[p].accepted[l]
      BY <1>1 DEF ProcurementInv, PurchaseRows, OrderType, Counts
    <3>2. JobSound(y)'
      BY <1>3, <1>5, <2>1, <2>2, <3>1, StillSound DEF ProcurementInv
    <3> QED BY <2>1, <3>2 DEF JobSound, Fits, Written, Divided, Computed, Plus
  <2>3. CASE y.op = "convert"
    <3>1. Fits(y)
      BY <2>1, <2>3 DEF JobSound
    <3>2. Fits(y)'
      BY <1>1, <1>4, <3>1 DEF Fits
    <3> QED BY <2>1, <2>3, <3>2 DEF JobSound, Fits
  <2> QED BY <2>2, <2>3
<1>7. OneConversion' /\ ConvertedWithinRequest'
  BY <1>1, <1>4 DEF ProcurementInv, OneConversion, ConvertedWithinRequest
<1> QED BY <1>3, <1>5, <1>6, <1>7 DEF ProcurementInv

(* A conversion ends: it writes what it has tested, or nothing. *)
LEMMA FinishConvertStep ==
  ASSUME ProcurementInv, NEW j \in Jobs, FinishConvert(j)
  PROVE  ProcurementInv'
<1>1. PICK x : x = job[j]
  OBVIOUS
<1>2. x.op = "convert" /\ Fits(x) /\ PurchaseRows /\ OneConversion
  BY <1>1 DEF FinishConvert, ProcurementInv, JobSound
<1>3. /\ job' = [job EXCEPT ![j] = Idle] /\ UNCHANGED <<receipt, onHand, valued>>
  BY DEF FinishConvert, Finish
<1>4. /\ job' = [i \in Jobs |-> job'[i]] /\ job'[j] = Idle
      /\ \A i \in Jobs \ {j} : job'[i] = job[i]
      /\ OneConversion'
  <2>1. Idle.op # "convert"
    BY DEF Idle
  <2> QED BY <1>2, <1>3, <2>1, JobWritten
<1>5. CASE UNCHANGED <<request, order>>
  <2>1. JobSound(Idle) /\ Idle.op # "convert"
    BY DEF JobSound, Idle
  <2> QED BY <1>3, <1>5, <2>1, JobStep
<1>6. ASSUME x.of = request.generation, order[x.order].status = "none",
             order' = [order EXCEPT ![x.order] =
                [NoOrder EXCEPT !.status = "draft", !.converted = TRUE, !.base = x.take]],
             NEW status \in {"fully_converted", "partially_converted"},
             request' = [request EXCEPT !.status = status]
      PROVE  ProcurementInv'
  <2> DEFINE row == [NoOrder EXCEPT !.status = "draft", !.converted = TRUE, !.base = x.take]
  <2>1. x.order \in Orders /\ x.take \in Counts
    BY <1>2 DEF Fits
  <2>2. /\ row \in OrderType /\ row.status = "draft" /\ row.converted = TRUE
        /\ row.received = Nothing /\ row.accepted = Nothing /\ row.base = x.take
    BY <2>1, NoOrderRow DEF OrderType
  <2>3. order' = [order EXCEPT ![x.order] = row]
    BY <1>6
  <2> HIDE DEF row
  <2>4. /\ order' \in [Orders -> OrderType]
        /\ \A p \in Orders : order[p].status # "none" => order'[p] = order[p]
        /\ \A l \in Lines : Converted(l)' = Converted(l) + (IF row.converted THEN row.base[l] ELSE 0)
        /\ \A p \in Orders : Unwritten(p)' /\ LinesReconcile(p)'
        /\ \A l \in Lines : StockReconciles(l)'
    BY <1>3, <1>6, <2>1, <2>2, <2>3, NewOrder
  <2>5. /\ request'.lines = request.lines
        /\ request' \in [status : {"draft", "approved", "rejected", "partially_converted", "fully_converted"},
                         lines : Counts, generation : Nat]
    <3>1. PICK r \in [status : {"draft", "approved", "rejected", "partially_converted", "fully_converted"},
                      lines : Counts, generation : Nat] : r = request
      BY <1>2 DEF PurchaseRows
    <3>2. request' = [r EXCEPT !.status = status]
      BY <1>6, <3>1
    <3> QED BY <3>1, <3>2
  <2>6. PurchaseRows'
    BY <1>2, <1>3, <1>4, <2>4, <2>5 DEF PurchaseRows
  <2>7. ConvertedWithinRequest'
    <3>1. \A l \in Lines : Converted(l)' = Converted(l) + x.take[l]
      BY <2>2, <2>4
    <3> QED BY <1>2, <1>6, <2>5, <3>1 DEF Fits, ConvertedWithinRequest
  <2>8. ASSUME NEW i \in Jobs PROVE JobSound(job[i])'
    <3>1. PICK y : y = job'[i] /\ JobSound(y) /\ y.op # "convert"
      <4>1. CASE i = j
        BY <1>4, <4>1 DEF JobSound, Idle
      <4>2. CASE i # j
        BY <1>1, <1>2, <1>4, <4>2 DEF ProcurementInv, OneConversion
      <4> QED BY <4>1, <4>2
    <3>2. /\ \A l \in Lines : onHand[l] <= onHand'[l]
          /\ \A p \in Orders, l \in Lines : order[p].accepted[l] <= order[p].accepted[l]
      BY <1>2, <1>3 DEF PurchaseRows, OrderType, Counts
    <3>3. JobSound(y)'
      BY <1>2, <2>4, <2>6, <3>1, <3>2, StillSound
    <3> QED BY <3>1, <3>3 DEF JobSound, Fits, Written, Divided, Computed, Plus
  <2> QED BY <1>4, <2>4, <2>6, <2>7, <2>8 DEF ProcurementInv
<1>7. \/ UNCHANGED <<request, order>>
      \/ /\ x.of = request.generation /\ order[x.order].status = "none"
         /\ order' = [order EXCEPT ![x.order] =
                [NoOrder EXCEPT !.status = "draft", !.converted = TRUE, !.base = x.take]]
         /\ \E status \in {"fully_converted", "partially_converted"} :
              request' = [request EXCEPT !.status = status]
  BY <1>1 DEF FinishConvert
<1> QED BY <1>5, <1>6, <1>7

(* What an order's lines, receipts and stock are worth to the other requests when
   nothing is converted and nothing is taken away. *)
LEMMA OthersSoundAfter ==
  ASSUME ProcurementInv, PurchaseRows', UNCHANGED request, NEW j \in Jobs,
         job' = [job EXCEPT ![j] = Idle],
         \A p \in Orders :
           /\ order'[p].base = order[p].base /\ order'[p].converted = order[p].converted
           /\ order[p].status # "none" => order'[p].status # "none"
           /\ \A l \in Lines : order[p].accepted[l] <= order'[p].accepted[l],
         \A l \in Lines : onHand[l] <= onHand'[l]
  PROVE  /\ OneConversion' /\ ConvertedWithinRequest'
         /\ \A i \in Jobs : JobSound(job[i])'
<1>1. /\ job'[j] = Idle /\ \A i \in Jobs \ {j} : job'[i] = job[i]
      /\ OneConversion' /\ PurchaseRows
  <2>1. Idle.op # "convert" /\ PurchaseRows /\ OneConversion
    BY DEF Idle, ProcurementInv
  <2> QED BY <2>1, JobWritten
<1>2. \A l \in Lines : Converted(l)' = Converted(l)
  BY ConvertedKept
<1>3. ASSUME NEW i \in Jobs PROVE JobSound(job[i])'
  <2>1. PICK y : y = job'[i] /\ JobSound(y)
    BY <1>1 DEF ProcurementInv, JobSound, Idle
  <2>2. CASE y.op # "convert"
    <3>1. JobSound(y)'
      BY <1>1, <2>1, <2>2, StillSound
    <3> QED BY <2>1, <3>1 DEF JobSound, Fits, Written, Divided, Computed, Plus
  <2>3. CASE y.op = "convert"
    <3>1. Fits(y)
      BY <2>1, <2>3 DEF JobSound
    <3>2. Fits(y)'
      BY <1>2, <3>1 DEF Fits
    <3> QED BY <2>1, <2>3, <3>2 DEF JobSound, Fits
  <2> QED BY <2>2, <2>3
<1>4. ConvertedWithinRequest'
  BY <1>2 DEF ProcurementInv, ConvertedWithinRequest
<1> QED BY <1>1, <1>3, <1>4

(* An approval, however late. *)
LEMMA ApproveOrderStep ==
  ASSUME ProcurementInv, NEW j \in Jobs, FinishApproveOrder(j)
  PROVE  ProcurementInv'
<1>1. PICK o \in Orders : o = job[j].order /\ order[o].status # "none"
  BY DEF FinishApproveOrder, ProcurementInv, JobSound, Written
<1>2. PICK r \in OrderType : r = order[o]
  BY DEF ProcurementInv, PurchaseRows
<1> DEFINE row == [r EXCEPT !.status = "approved"]
<1>3. /\ PurchaseRows /\ order' = [order EXCEPT ![o] = row]
      /\ job' = [job EXCEPT ![j] = Idle] /\ UNCHANGED <<request, receipt, onHand, valued>>
  BY <1>1, <1>2 DEF FinishApproveOrder, Finish, ProcurementInv
<1>4. /\ row \in OrderType /\ row.status = "approved" /\ row.base = r.base
      /\ row.converted = r.converted /\ row.received = r.received
      /\ row.accepted = r.accepted /\ row.backorder = r.backorder
  BY DEF OrderType
<1> HIDE DEF row
<1>5. /\ order' \in [Orders -> OrderType] /\ order'[o] = row
      /\ \A p \in Orders \ {o} : order'[p] = order[p]
  BY <1>3, <1>4 DEF PurchaseRows
<1>6. PurchaseRows'
  BY <1>3, <1>5 DEF PurchaseRows
<1>7. \A p \in Orders : Unwritten(p)' /\ LinesReconcile(p)'
  BY <1>2, <1>3, <1>4, <1>5 DEF ProcurementInv, Unwritten, LinesReconcile
<1>8. \A l \in Lines : StockReconciles(l)'
  BY <1>3 DEF ProcurementInv, StockReconciles, AcceptedOf
<1>9. /\ OneConversion' /\ ConvertedWithinRequest'
      /\ \A i \in Jobs : JobSound(job[i])'
  <2>1. \A p \in Orders :
          /\ order'[p].base = order[p].base /\ order'[p].converted = order[p].converted
          /\ order'[p].accepted = order[p].accepted
          /\ order[p].status # "none" => order'[p].status # "none"
    BY <1>2, <1>4, <1>5
  <2>2. /\ \A l \in Lines : onHand[l] <= onHand'[l]
        /\ \A p \in Orders, l \in Lines : order[p].accepted[l] <= order'[p].accepted[l]
    BY <1>3, <2>1 DEF PurchaseRows, OrderType, Counts
  <2> QED BY <1>3, <1>6, <2>1, <2>2, OthersSoundAfter
<1> QED BY <1>6, <1>7, <1>8, <1>9 DEF ProcurementInv

-----------------------------------------------------------------------------
(* Goods received *)

(* A posting commits: it adds to its lines, the receipts and the stock, and writes
   the status and the valuation it has computed. *)
LEMMA CommitStep ==
  ASSUME ProcurementInv, NEW j \in Jobs, Commit(j)
  PROVE  ProcurementInv'
<1>1. PICK y : y = job[j]
  OBVIOUS
<1>2. PurchaseRows /\ Written(y.order) /\ Divided(y) /\ Computed(y)
  BY <1>1 DEF Commit, Posting, ProcurementInv, JobSound
<1>3. PICK o \in Orders : o = y.order /\ order[o].status # "none"
  BY <1>2 DEF Written
<1>4. PICK r \in OrderType : r = order[o]
  BY <1>2 DEF PurchaseRows
<1>5. PICK c \in [received : Counts, accepted : Counts] : c = receipt[o]
  BY <1>2 DEF PurchaseRows
<1>6. PICK received \in Counts, accepted \in Counts :
        /\ received = y.received /\ accepted = y.accepted
        /\ \A l \in Lines : accepted[l] <= received[l]
  BY <1>2 DEF Divided
<1>6a. \A l \in Lines : /\ r.received[l] \in Nat /\ r.accepted[l] \in Nat
                       /\ r.base[l] \in Nat /\ r.backorder[l] \in Int
                       /\ received[l] \in Nat /\ accepted[l] \in Nat
  BY DEF OrderType, Counts
<1>7. PICK inLines \in Counts : inLines = Plus(r.received, received)
  <2>1. Plus(r.received, received) \in Counts
    BY <1>6a DEF Counts, Plus
  <2> QED BY <2>1
<1>8. PICK taken \in Counts : taken = Plus(r.accepted, accepted)
  <2>1. Plus(r.accepted, accepted) \in Counts
    BY <1>6a DEF Counts, Plus
  <2> QED BY <2>1
<1>9. PICK back \in [Lines -> Int] : back =
        [l \in Lines |-> IF received[l] > 0 THEN r.base[l] - (r.accepted[l] + accepted[l])
                                            ELSE r.backorder[l]]
  <2> DEFINE f == [l \in Lines |-> IF received[l] > 0 THEN r.base[l] - (r.accepted[l] + accepted[l])
                                                      ELSE r.backorder[l]]
  <2>1. f \in [Lines -> Int]
    <3>1. \A l \in Lines : r.base[l] - (r.accepted[l] + accepted[l]) \in Int /\ r.backorder[l] \in Int
      BY <1>6a
    <3> QED BY <3>1
  <2> HIDE DEF f
  <2>2. \E x \in [Lines -> Int] : x = f
    BY <2>1
  <2> QED BY <2>2 DEF f
<1>10. r.received = c.received /\ r.accepted = c.accepted
  BY <1>3, <1>4, <1>5 DEF ProcurementInv, LinesReconcile
<1>11. PICK status : /\ status \in {r.status, y.status}
                     /\ order' = [order EXCEPT ![o] = [r EXCEPT !.received = inLines, !.accepted = taken,
                                                       !.backorder = back, !.status = status]]
  <2>1. r = [r EXCEPT !.status = r.status] /\ LinesReceived(r, received, accepted) =
          [r EXCEPT !.received = inLines, !.accepted = taken, !.backorder = back]
    BY <1>7, <1>8, <1>9 DEF LinesReceived, OrderType
  <2>2. order' = [order EXCEPT ![o] =
          IF y.changed THEN [LinesReceived(r, received, accepted) EXCEPT !.status = y.status]
                       ELSE LinesReceived(r, received, accepted)]
    BY <1>1, <1>3, <1>4, <1>6 DEF Commit
  <2>3. LinesReceived(r, received, accepted) =
          [r EXCEPT !.received = inLines, !.accepted = taken, !.backorder = back, !.status = r.status]
    BY <2>1 DEF OrderType
  <2>4. [LinesReceived(r, received, accepted) EXCEPT !.status = y.status] =
          [r EXCEPT !.received = inLines, !.accepted = taken, !.backorder = back, !.status = y.status]
    BY <2>1 DEF OrderType
  <2> QED BY <2>2, <2>3, <2>4
<1> DEFINE row == [r EXCEPT !.received = inLines, !.accepted = taken, !.backorder = back,
                            !.status = status]
<1>12. /\ row \in OrderType /\ row.status = status /\ row.base = r.base
       /\ row.converted = r.converted /\ row.received = inLines
       /\ row.accepted = taken /\ row.backorder = back /\ status # "none"
  BY <1>2, <1>3, <1>4, <1>11 DEF OrderType, Computed
<1>13. order' = [order EXCEPT ![o] = row]
  BY <1>11
<1> HIDE DEF row
<1>14. /\ order' \in [Orders -> OrderType] /\ order'[o] = row
       /\ \A p \in Orders \ {o} : order'[p] = order[p]
  BY <1>2, <1>12, <1>13 DEF PurchaseRows
<1>15. /\ receipt' \in [Orders -> [received : Counts, accepted : Counts]]
       /\ receipt'[o].received = inLines /\ receipt'[o].accepted = taken
       /\ \A p \in Orders \ {o} : receipt'[p] = receipt[p]
  <2> DEFINE next == [c EXCEPT !.received = inLines, !.accepted = taken]
  <2>1. receipt' = [receipt EXCEPT ![o] = next]
    BY <1>1, <1>2, <1>3, <1>5, <1>6, <1>7, <1>8, <1>10 DEF Commit, PurchaseRows
  <2>2. next \in [received : Counts, accepted : Counts]
        /\ next.received = inLines /\ next.accepted = taken
    OBVIOUS
  <2> HIDE DEF next
  <2> QED BY <1>2, <2>1, <2>2 DEF PurchaseRows
<1>16. /\ onHand' \in Counts /\ \A l \in Lines : onHand'[l] = onHand[l] + accepted[l]
       /\ UNCHANGED request /\ job' = [job EXCEPT ![j] = Idle]
  BY <1>1, <1>2, <1>6 DEF Commit, Finish, Plus, PurchaseRows, Counts
<1>17. \A l \in Lines : /\ onHand[l] \in Nat /\ accepted[l] \in Nat /\ received[l] \in Nat
                        /\ r.base[l] \in Nat /\ r.accepted[l] \in Nat /\ r.received[l] \in Nat
                        /\ taken[l] = r.accepted[l] + accepted[l]
                        /\ inLines[l] = r.received[l] + received[l]
                        /\ onHand[l] <= onHand'[l]
  BY <1>2, <1>7, <1>8, <1>16 DEF PurchaseRows, OrderType, Counts, Plus
<1>18. /\ DOMAIN valued' \subseteq Lines
       /\ \A l \in DOMAIN valued' : valued'[l] \in Nat /\ valued'[l] <= onHand'[l]
  <2>1. /\ valued' = [l \in DOMAIN valued \cup Stocked(j) |->
             IF l \in Stocked(j) THEN Valuation(j)[l] ELSE valued[l]]
        /\ Stocked(j) \subseteq Lines
    BY DEF Commit, Stocked
  <2>2. ASSUME NEW l \in Stocked(j)
        PROVE  Valuation(j)[l] \in Nat /\ Valuation(j)[l] <= onHand'[l]
    <3>1. PICK seen \in Nat :
            seen = (IF l \in DOMAIN y.seen THEN y.seen[l] ELSE 0) /\ seen <= onHand[l]
      <4>1. onHand[l] \in Nat
        BY <1>17, <2>1
      <4> QED BY <1>2, <4>1 DEF Computed
    <3>2. Valuation(j)[l] = accepted[l] + seen
      BY <1>1, <1>6, <3>1 DEF Valuation
    <3> QED BY <1>16, <1>17, <2>1, <3>1, <3>2
  <2>3. ASSUME NEW l \in DOMAIN valued
        PROVE  valued[l] \in Nat /\ valued[l] <= onHand'[l]
    <3>1. l \in Lines /\ valued[l] \in Nat /\ valued[l] <= onHand[l]
      BY <1>2 DEF PurchaseRows, ProcurementInv, StockReconciles
    <3> QED BY <1>16, <1>17, <3>1
  <2> QED BY <1>2, <2>1, <2>2, <2>3 DEF PurchaseRows
<1>19. PurchaseRows'
  <2>1. job' = [i \in Jobs |-> job'[i]]
    BY <1>2, <1>16 DEF PurchaseRows
  <2> QED BY <1>2, <1>14, <1>15, <1>16, <1>18, <2>1 DEF PurchaseRows
<1>20. ASSUME NEW p \in Orders PROVE Unwritten(p)' /\ LinesReconcile(p)'
  <2>1. CASE p # o
    BY <1>14, <1>15, <2>1 DEF ProcurementInv, Unwritten, LinesReconcile
  <2>2. Unwritten(o)'
    BY <1>12, <1>14 DEF Unwritten
  <2>3. status = "received" => Total(r.base, Lines) <= Total(taken, Lines)
    <3>1. CASE status = y.status
      BY <1>2, <1>3, <1>4, <1>6, <1>8, <3>1 DEF Computed
    <3>2. CASE status = r.status
      <4>1. r.status = "received" => Total(r.base, Lines) <= Total(r.accepted, Lines)
        BY <1>4 DEF ProcurementInv, LinesReconcile
      <4>2. \A l \in Lines : r.accepted[l] \in Nat /\ taken[l] \in Nat /\ r.accepted[l] <= taken[l]
        BY <1>17
      <4>3. /\ Total(r.accepted, Lines) <= Total(taken, Lines)
            /\ Total(r.accepted, Lines) \in Nat /\ Total(taken, Lines) \in Nat
            /\ Total(r.base, Lines) \in Nat
        BY <1>17, <4>2, TotalMonotone, TotalType, ProcurementAssumption
      <4> QED BY <3>2, <4>1, <4>3
    <3> QED BY <1>11, <3>1, <3>2
  <2>4. ASSUME NEW l \in Lines, inLines[l] > 0 PROVE back[l] = r.base[l] - taken[l]
    <3>1. CASE received[l] > 0
      BY <1>9, <1>17, <3>1
    <3>2. CASE ~(received[l] > 0)
      <4>1. received[l] = 0 /\ accepted[l] = 0 /\ r.received[l] > 0 /\ taken[l] = r.accepted[l]
        BY <1>6, <1>17, <2>4, <3>2
      <4>2. back[l] = r.backorder[l]
        BY <1>9, <3>2
      <4>3. r.backorder[l] = r.base[l] - r.accepted[l]
        BY <1>4, <4>1 DEF ProcurementInv, LinesReconcile
      <4> QED BY <4>1, <4>2, <4>3
    <3> QED BY <3>1, <3>2
  <2>5. LinesReconcile(o)'
    BY <1>12, <1>14, <1>15, <2>3, <2>4 DEF LinesReconcile
  <2> QED BY <2>1, <2>2, <2>5
<1>21. ASSUME NEW l \in Lines PROVE StockReconciles(l)'
  <2> DEFINE f == AcceptedOf(l)
             g == AcceptedOf(l)'
  <2>1. /\ \A p \in Orders : f[p] \in Nat /\ g[p] \in Nat
        /\ \A p \in Orders \ {o} : g[p] = f[p]
        /\ f[o] = r.accepted[l] /\ g[o] = taken[l]
    BY <1>2, <1>5, <1>10, <1>15 DEF AcceptedOf, PurchaseRows, Counts
  <2>2. onHand[l] = Total(f, Orders)
    BY DEF ProcurementInv, StockReconciles
  <2> HIDE DEF f, g
  <2>3. Total(g, Orders) = Total(f, Orders) - f[o] + g[o]
    BY <2>1, TotalChange, ProcurementAssumption
  <2>4. onHand'[l] = Total(g, Orders)
    BY <1>16, <1>17, <2>1, <2>2, <2>3
  <2> QED BY <1>18, <2>4 DEF StockReconciles, g
<1>22. /\ OneConversion' /\ ConvertedWithinRequest'
       /\ \A i \in Jobs : JobSound(job[i])'
  <2>1. \A p \in Orders :
          /\ order'[p].base = order[p].base /\ order'[p].converted = order[p].converted
          /\ order[p].status # "none" => order'[p].status # "none"
    BY <1>4, <1>12, <1>14
  <2>2. \A p \in Orders, l \in Lines : order[p].accepted[l] <= order'[p].accepted[l]
    <3>1. ASSUME NEW p \in Orders, NEW l \in Lines
          PROVE  order[p].accepted[l] <= order'[p].accepted[l]
      <4>1. CASE p = o
        BY <1>4, <1>12, <1>14, <1>17, <4>1
      <4>2. CASE p # o
        <5>1. order'[p].accepted[l] = order[p].accepted[l] /\ order[p].accepted[l] \in Nat
          BY <1>2, <1>14, <4>2 DEF PurchaseRows, OrderType, Counts
        <5> QED BY <5>1
      <4> QED BY <4>1, <4>2
    <3> QED BY <3>1
  <2> QED BY <1>16, <1>17, <1>19, <2>1, <2>2, OthersSoundAfter
<1> QED BY <1>19, <1>20, <1>21, <1>22 DEF ProcurementInv

-----------------------------------------------------------------------------
(* The invariant and its theorems *)

(* A request of some units, and nothing ordered. *)
LEMMA ProcurementInvInit ==
  ASSUME ProcurementInit
  PROVE  ProcurementInv
<1>1. PICK q \in Quantities : request = [status |-> "draft", lines |-> q, generation |-> 0]
  BY DEF ProcurementInit
<1>2. /\ order = [o \in Orders |-> NoOrder]
      /\ receipt = [o \in Orders |-> [received |-> Nothing, accepted |-> Nothing]]
      /\ onHand = Nothing /\ valued = [l \in {} |-> 0] /\ job = [j \in Jobs |-> Idle]
  BY DEF ProcurementInit
<1>3. Nothing \in Counts /\ q \in Counts
  BY ProcurementAssumption DEF Nothing, Counts, Quantities
<1>4. PurchaseRows
  BY <1>1, <1>2, <1>3, NoOrderRow DEF PurchaseRows
<1>5. OneConversion /\ \A j \in Jobs : JobSound(job[j])
  BY <1>2 DEF OneConversion, JobSound, Idle
<1>6. \A o \in Orders : order[o].status = "none" /\ Unwritten(o) /\ LinesReconcile(o)
  BY <1>2 DEF Unwritten, LinesReconcile, NoOrder, Nothing
<1>7. ASSUME NEW l \in Lines PROVE StockReconciles(l)
  <2>1. Total(AcceptedOf(l), Orders) = 0
    <3>1. \A o \in Orders : AcceptedOf(l)[o] = 0
      BY <1>2 DEF AcceptedOf, Nothing
    <3> QED BY <3>1, TotalZero
  <2> QED BY <1>2, <2>1 DEF StockReconciles, Nothing
<1>8. ASSUME NEW l \in Lines PROVE Converted(l) <= request.lines[l]
  <2>1. ConvertedOrders = {}
    BY <1>2 DEF ConvertedOrders, NoOrder
  <2>2. Total(BasesOf(l), ConvertedOrders) = 0
    BY <2>1, TotalZero
  <2>3. Converted(l) = Total(BasesOf(l), ConvertedOrders)
    BY DEF Converted, BasesOf, ConvertedOrders
  <2>4. request.lines[l] \in Nat
    BY <1>1, <1>3 DEF Counts
  <2> QED BY <2>2, <2>3, <2>4
<1> QED BY <1>4, <1>5, <1>6, <1>7, <1>8 DEF ProcurementInv, ConvertedWithinRequest

(* Every step of every request keeps the invariant. *)
LEMMA ProcurementInvNext ==
  ASSUME ProcurementInv, [ProcurementNext]_procurementVars
  PROVE  ProcurementInv'
<1>1. ASSUME NEW o \in Orders, NEW q \in Quantities, CreateOrder(o, q) PROVE ProcurementInv'
  BY <1>1, CreateOrderStep
<1>2. ASSUME NEW j \in Jobs,
             \/ BeginRevise(j) \/ Refuse(j)
             \/ \E verdict \in {"approved", "rejected"} : BeginReview(j, verdict)
             \/ \E o \in Orders : BeginApproveOrder(j, o)
      PROVE  ProcurementInv'
  BY <1>2, BeginStep
<1>3. ASSUME NEW j \in Jobs,
             Approve(j) \/ Reject(j) \/ \E q \in Quantities : FinishRevise(j, q)
      PROVE  ProcurementInv'
  BY <1>3, RequestStep
<1>4. ASSUME NEW j \in Jobs, NEW q \in Quantities, NEW o \in Orders, BeginConvert(j, o, q)
      PROVE  ProcurementInv'
  BY <1>4, BeginConvertStep
<1>5. ASSUME NEW j \in Jobs, FinishConvert(j) PROVE ProcurementInv'
  BY <1>5, FinishConvertStep
<1>6. ASSUME NEW j \in Jobs, FinishApproveOrder(j) PROVE ProcurementInv'
  BY <1>6, ApproveOrderStep
<1>7. ASSUME NEW j \in Jobs, NEW o \in Orders, NEW r \in Deliveries, NEW a \in Deliveries,
             BeginReceive(j, o, r, a)
      PROVE  ProcurementInv'
  BY <1>7, BeginReceiveStep
<1>8. ASSUME NEW j \in Jobs, Post(j) PROVE ProcurementInv'
  BY <1>8, PostStep
<1>9. ASSUME NEW j \in Jobs, Commit(j) PROVE ProcurementInv'
  BY <1>9, CommitStep
<1>10. CASE UNCHANGED procurementVars
  <2>1. UNCHANGED <<request, order, receipt, onHand, valued, job>>
    BY <1>10 DEF procurementVars
  <2>2. PurchaseRows' /\ OneConversion'
    BY <2>1 DEF ProcurementInv, PurchaseRows, OneConversion
  <2>3. \A l \in Lines : Converted(l)' = Converted(l)
    BY <2>1 DEF Converted
  <2>4. ASSUME NEW i \in Jobs PROVE JobSound(job[i])'
    <3>1. JobSound(job[i])
      BY DEF ProcurementInv
    <3> QED BY <2>1, <2>3, <3>1 DEF JobSound, Fits, Written, Divided, Computed, Plus
  <2>5. \A o \in Orders : Unwritten(o)' /\ LinesReconcile(o)'
    BY <2>1 DEF ProcurementInv, Unwritten, LinesReconcile
  <2>6. \A l \in Lines : StockReconciles(l)'
    BY <2>1 DEF ProcurementInv, StockReconciles, AcceptedOf
  <2>7. ConvertedWithinRequest'
    BY <2>1, <2>3 DEF ProcurementInv, ConvertedWithinRequest
  <2> QED BY <2>2, <2>4, <2>5, <2>6, <2>7 DEF ProcurementInv
<1> QED
  BY <1>1, <1>2, <1>3, <1>4, <1>5, <1>6, <1>7, <1>8, <1>9, <1>10 DEF ProcurementNext

(* The invariant always holds. *)
LEMMA ProcurementAlwaysInv == ProcurementSpec => []ProcurementInv
BY ProcurementInvInit, ProcurementInvNext, PTL DEF ProcurementSpec

(* Purchase orders never take more from a line of a request than it asks for,
   however revisions, late reviews and conversions overlap. *)
THEOREM AlwaysConvertedWithinRequest == ProcurementSpec => []ConvertedWithinRequest
<1>1. ProcurementInv => ConvertedWithinRequest
  BY DEF ProcurementInv
<1> QED BY <1>1, ProcurementAlwaysInv, PTL

(* The lines of an order, its status and the stock reconcile with the receipts
   posted, however postings overlap; a valuation is never above the stock. *)
THEOREM ReceiptsAlwaysReconcile == ProcurementSpec => []ReceiptsReconcile
<1>1. ASSUME ProcurementInv PROVE ReceiptsReconcile
  <2>1. ASSUME NEW o \in Orders
        PROVE  /\ order[o].received = receipt[o].received
               /\ order[o].accepted = receipt[o].accepted
               /\ order[o].status = "received" =>
                    Total(receipt[o].accepted, Lines) >= Total(order[o].base, Lines)
               /\ \A l \in Lines : receipt[o].received[l] > 0 =>
                    order[o].backorder[l] = order[o].base[l] - receipt[o].accepted[l]
    <3>1. LinesReconcile(o)
      BY <1>1 DEF ProcurementInv
    <3>2. \A l \in Lines : order[o].base[l] \in Nat /\ order[o].accepted[l] \in Nat
      BY <1>1 DEF ProcurementInv, PurchaseRows, OrderType, Counts
    <3>3. Total(order[o].base, Lines) \in Nat /\ Total(order[o].accepted, Lines) \in Nat
      BY <3>2, TotalType, ProcurementAssumption
    <3> QED BY <3>1, <3>3 DEF LinesReconcile
  <2>2. ASSUME NEW l \in Lines
        PROVE  /\ onHand[l] = Total([o \in Orders |-> receipt[o].accepted[l]], Orders)
               /\ l \in DOMAIN valued => valued[l] <= onHand[l]
    BY <1>1 DEF ProcurementInv, StockReconciles, AcceptedOf
  <2> QED BY <2>1, <2>2 DEF ReceiptsReconcile
<1> QED BY <1>1, ProcurementAlwaysInv, PTL
=============================================================================
