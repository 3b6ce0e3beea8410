-------------------------- MODULE ReservationProofs --------------------------
(***************************************************************************)
(* What holds of Reservation for every number of orders, SKUs, receipts    *)
(* and quantities, and of Picking on top of it: picks, their reversals and *)
(* dispatches neither lose nor duplicate a unit.                           *)
(***************************************************************************)
EXTENDS Picking, UnitsProofs, TLAPS

-----------------------------------------------------------------------------
(* Helpers *)

(* The index sets of the rows are finite, so totals over them are numbers. *)
LEMMA ConstantsFinite ==
  /\ IsFiniteSet(Approvals) /\ IsFiniteSet(Fulfillments)
  /\ \A F \in SUBSET Fulfillments : IsFiniteSet(F)
  /\ \A S \in SUBSET Skus : IsFiniteSet(S)
  /\ \A S \in SUBSET Receipts : IsFiniteSet(S)
<1>1. IsFiniteSet(Orders) /\ IsFiniteSet(Skus) /\ IsFiniteSet(Receipts)
  BY ReservationAssumption
<1>2. IsFiniteSet(1..MaxApprovals) /\ IsFiniteSet(1..MaxFulfillments)
  BY ReservationAssumption, FS_Interval
<1>3. IsFiniteSet(Approvals) /\ IsFiniteSet(Fulfillments)
  BY <1>2 DEF Approvals, Fulfillments
<1> QED BY <1>1, <1>3, FS_Subset

(* The latest fulfillment order is one of those asked for. *)
LEMMA LatestType ==
  ASSUME NEW F \in SUBSET Fulfillments
  PROVE  LatestOf(F) \in F \cup {0}
BY DEF LatestOf

(* What may be granted is within what is wanted, and within what was read to be
   on hand and is not reserved. *)
LEMMA GrantableBounds ==
  ASSUME NEW s \in Skus, NEW want, want[s] \in Nat,
         NEW stock \in [Skus -> Nat], reserved \in [Skus -> Nat]
  PROVE  /\ Grantable(want, stock)[s] \in Nat
         /\ Grantable(want, stock)[s] <= want[s]
         /\ Grantable(want, stock)[s] > 0 =>
              reserved[s] + Grantable(want, stock)[s] <= stock[s]
BY DEF Grantable, Lesser, Positive

(* Booking moves the ledger of one order and the reserved quantities. *)
LEMMA BookEffect ==
  ASSUME NEW o \in Orders, NEW d, \A s \in Skus : d[s] \in Int,
         ledger \in [Orders -> [Skus -> Int]], reserved \in [Skus -> Nat],
         Book(o, d)
  PROVE  /\ ledger' \in [Orders -> [Skus -> Int]]
         /\ reserved' \in [Skus -> Nat]
         /\ \A s \in Skus : ledger'[o][s] = ledger[o][s] + d[s]
         /\ \A s \in Skus : reserved'[s] = reserved[s] + d[s]
         /\ \A p \in Orders \ {o} : ledger'[p] = ledger[p]
BY DEF Book

(* A ledger without negative rows stays the sum that reserved is. *)
LEMMA BookMatches ==
  ASSUME NEW o \in Orders, NEW d, \A s \in Skus : d[s] \in Int,
         ledger \in [Orders -> [Skus -> Int]], reserved \in [Skus -> Nat],
         \A p \in Orders, s \in Skus : ledger[p][s] \in Nat /\ ledger'[p][s] \in Nat,
         ReservedMatchesLedger, Book(o, d)
  PROVE  ReservedMatchesLedger'
<1> SUFFICES ASSUME NEW s \in Skus
             PROVE  reserved'[s] = Total([p \in Orders |-> ledger'[p][s]], Orders)
  BY DEF ReservedMatchesLedger
<1> DEFINE f == [p \in Orders |-> ledger[p][s]]
           g == [p \in Orders |-> ledger'[p][s]]
<1>1. /\ \A p \in Orders : f[p] \in Nat
      /\ \A p \in Orders : g[p] \in Nat
      /\ \A p \in Orders \ {o} : g[p] = f[p]
      /\ f[o] = ledger[o][s] /\ g[o] = ledger[o][s] + d[s]
      /\ reserved'[s] = reserved[s] + d[s]
  BY BookEffect
<1>2. reserved[s] = Total(f, Orders)
  BY DEF ReservedMatchesLedger
<1> HIDE DEF f, g
<1>3. Total(g, Orders) = Total(f, Orders) - f[o] + g[o]
  BY <1>1, TotalChange, ReservationAssumption, SMTT(30)
<1>4. Total(f, Orders) \in Nat /\ ledger[o][s] \in Int /\ d[s] \in Int
  BY <1>1, TotalType, ReservationAssumption
<1>5. reserved'[s] = Total(g, Orders)
  BY <1>1, <1>2, <1>3, <1>4
<1> QED BY <1>5 DEF g

-----------------------------------------------------------------------------
(* Types *)

(* The part of RowsOK that the payment handlers share. *)
PaymentTypes ==
  /\ fo \in [Fulfillments -> FulfillmentRows]
  /\ receipt \in [Receipts -> ReceiptRows]

(* Rows come from rows. *)
LEMMA BareType ==
  ASSUME NEW x \in FulfillmentRows, NEW h, \A r \in Receipts : h[r] \in Nat
  PROVE  /\ Bare(x, h) \in FulfillmentRows
         /\ Bare(x, h).order = x.order /\ Bare(x, h).status = x.status
         /\ Bare(x, h).policy = x.policy /\ Bare(x, h).backers = x.backers
         /\ Bare(x, h).required = x.required /\ Bare(x, h).reserved = x.reserved
         /\ \A r \in Receipts : Bare(x, h).coverage[r] = x.coverage[r] - h[r]
<1> DEFINE coverage == [r \in Receipts |-> x.coverage[r] - h[r]]
<1>1. coverage \in [Receipts -> Int]
  BY DEF FulfillmentRows
<1>2. Bare(x, h) = [x EXCEPT !.coverage = coverage, !.covered = 0]
  BY DEF Bare
<1>3. \A r \in Receipts : coverage[r] = x.coverage[r] - h[r]
  OBVIOUS
<1> HIDE DEF coverage
<1> DEFINE y == [x EXCEPT !.coverage = coverage, !.covered = 0]
<1>4. /\ y \in FulfillmentRows /\ y.coverage = coverage
      /\ y.order = x.order /\ y.status = x.status /\ y.policy = x.policy
      /\ y.backers = x.backers /\ y.required = x.required /\ y.reserved = x.reserved
  BY <1>1 DEF FulfillmentRows
<1> HIDE DEF y
<1> QED BY <1>2, <1>3, <1>4 DEF y

(* The designations that a release finds are quantities. *)
LEMMA HeldByType ==
  ASSUME NEW x \in FulfillmentRows, NEW r \in Receipts
  PROVE  HeldBy(x)[r] \in Nat
BY DEF HeldBy, Positive, FulfillmentRows

(* So are those that releases of several fulfillment orders find. *)
LEMMA HoldingsType ==
  ASSUME PaymentTypes
  PROVE  \A f \in Fulfillments, r \in Receipts :
           Holdings[f][r] \in Nat /\ Holdings[f] = HeldBy(fo[f])
BY HeldByType DEF Holdings, PaymentTypes

(* A receipt stays a well-formed row when designations of it are released
   (_release_coverage). *)
LEMMA WithoutType ==
  ASSUME PaymentTypes, NEW F \in SUBSET Fulfillments, NEW h,
         \A f \in F, r \in Receipts : h[f][r] \in Nat
  PROVE  ReceiptsWithout(h, F) \in [Receipts -> ReceiptRows]
<1> SUFFICES ASSUME NEW r \in Receipts
             PROVE  [receipt[r] EXCEPT !.designated = @ - GivenBack(h, F, r)] \in ReceiptRows
  BY DEF ReceiptsWithout
<1> DEFINE given == [f \in F |-> h[f][r]]
<1>1. \A f \in F : given[f] \in Nat
  OBVIOUS
<1> HIDE DEF given
<1>2. Total(given, F) \in Nat
  BY <1>1, TotalType, ConstantsFinite
<1>3. receipt[r] \in ReceiptRows
  BY DEF PaymentTypes
<1>4. [receipt[r] EXCEPT !.designated = @ - Total(given, F)] \in ReceiptRows
  BY <1>2, <1>3 DEF ReceiptRows
<1> QED BY <1>4 DEF given, GivenBack

(* A created fulfillment order is a well-formed row of its order
   (create_fulfillment_for_approval). *)
LEMMA NewFulfillmentType ==
  ASSUME NEW o \in Orders, NEW a \in Approvals, NEW policy \in Policies \cup {"none"},
         NEW got, got \in [Skus -> Nat], NEW back, back \in [Skus -> Nat]
  PROVE  /\ NewFulfillment(o, a, policy, got, back) \in FulfillmentRows
         /\ NewFulfillment(o, a, policy, got, back).order = o
<1>1. Total(got, Skus) \in Nat /\ Total(back, Skus) \in Nat
  BY TotalType, ConstantsFinite
<1>2. a \in 0..MaxApprovals
  BY ReservationAssumption DEF Approvals
<1> QED BY <1>1, <1>2 DEF NewFulfillment, FulfillmentRows

(* A cancellation writes a well-formed row, with the status and the covered
   amount it has read. *)
LEMMA ReadType ==
  ASSUME NEW x \in FulfillmentRows, NEW seen \in CancellationRows
  PROVE  LET read == [x EXCEPT !.status = seen.status, !.covered = seen.covered]
         IN  /\ read \in FulfillmentRows
             /\ read.order = x.order /\ read.policy = x.policy /\ read.backers = x.backers
             /\ read.reserved = x.reserved /\ read.required = x.required
             /\ read.lines = x.lines /\ read.coverage = x.coverage
             /\ read.status = seen.status /\ read.covered = seen.covered
<1>1. PICK status, covered : status = seen.status /\ covered = seen.covered
  OBVIOUS
<1>2. /\ covered \in Nat
      /\ status \in {"none", "reserved", "payment_ready", "pick_released",
                    "partially_picked", "picked", "payment_hold", "cancelled"}
  BY <1>1 DEF CancellationRows
<1> QED BY <1>1, <1>2 DEF FulfillmentRows

(* A fulfillment order that a cancellation reduces stays well formed, whatever
   is freed: the code clamps each quantity at zero (cancel_sales_order). *)
LEMMA ReducedType ==
  ASSUME NEW x \in FulfillmentRows, NEW c, c \in [Skus -> Nat],
         NEW freed, freed \in [Skus -> Nat], \A s \in Skus : freed[s] <= c[s]
  PROVE  /\ ReducedFulfillment(x, c, freed) \in FulfillmentRows
         /\ ReducedFulfillment(x, c, freed).order = x.order
         /\ ReducedFulfillment(x, c, freed).backers = x.backers
         /\ ReducedFulfillment(x, c, freed).status \in
              IF x.status = "payment_ready" THEN {"payment_ready", "reserved", "cancelled"}
              ELSE {x.status, "cancelled"}
<1> DEFINE priced == {s \in Skus : x.lines[s] > 0}
           rest   == [s \in Skus |-> c[s] - freed[s]]
<1>1. Total(freed, priced) \in Nat
  <2>1. IsFiniteSet(priced) /\ \A s \in priced : freed[s] \in Nat
    BY ConstantsFinite
  <2> QED BY <2>1, TotalType
<1>2. Total(freed, Skus) \in Nat
  BY TotalType, ConstantsFinite
<1>3. Total(rest, Skus) \in Nat
  <2>1. \A s \in Skus : rest[s] \in Nat
    OBVIOUS
  <2> QED BY <2>1, TotalType, ConstantsFinite
<1> HIDE DEF priced, rest
<1> DEFINE quantity == Positive(x.reserved - Total(freed, Skus))
           less     == Positive(x.backorder - Total(rest, Skus))
           required == Positive(x.required - Total(freed, priced))
           covered  == Lesser(x.covered, required)
           status   == IF quantity = 0 /\ less = 0 THEN "cancelled"
                       ELSE IF x.status = "payment_ready" /\ covered < required
                               /\ x.policy = "prepaid"
                       THEN "reserved" ELSE x.status
<1>4. quantity \in Nat /\ less \in Nat /\ required \in Nat /\ covered \in Nat
  BY <1>1, <1>2, <1>3 DEF FulfillmentRows, Positive, Lesser
<1>5. status \in IF x.status = "payment_ready" THEN {"payment_ready", "reserved", "cancelled"}
                 ELSE {x.status, "cancelled"}
  OBVIOUS
<1>6. ReducedFulfillment(x, c, freed)
        = [x EXCEPT !.reserved = quantity, !.backorder = less, !.covered = covered,
                    !.status = status]
  BY DEF ReducedFulfillment, FulfillmentRows, priced, rest
<1> HIDE DEF quantity, less, covered, status
<1> QED BY <1>4, <1>5, <1>6, ZenonT(40) DEF FulfillmentRows

(* A designation is a quantity, and only what still collects gets one. *)
LEMMA DesignationType ==
  ASSUME PaymentTypes, NEW f \in 0..MaxFulfillments, NEW available \in Nat
  PROVE  /\ Designation(f, available) \in Nat
         /\ Designation(f, available) # 0 =>
               /\ f \in Fulfillments
               /\ fo[f].status \in {"reserved", "payment_ready"}
BY DEF Designation, PaymentTypes, FulfillmentRows, Lesser, Positive

(* A fulfillment order that receives a designation stays well formed
   (_designate_available_payment). *)
LEMMA DesignatedType ==
  ASSUME NEW x \in FulfillmentRows, NEW r \in Receipts, NEW n \in Nat
  PROVE  /\ Designated(x, r, n) \in FulfillmentRows
         /\ Designated(x, r, n).order = x.order
         /\ Designated(x, r, n).status \in {"reserved", "payment_ready"}
<1> DEFINE coverage == [x.coverage EXCEPT ![r] = @ + n]
           backers  == x.backers \cup {r}
           covered  == x.covered + n
           status   == IF x.covered + n >= x.required THEN "payment_ready" ELSE "reserved"
<1>1. coverage \in [Receipts -> Int] /\ covered \in Nat
  BY DEF FulfillmentRows
<1>2. backers \in SUBSET Receipts /\ status \in {"reserved", "payment_ready"}
  BY DEF FulfillmentRows
<1>3. Designated(x, r, n) = [x EXCEPT !.coverage = coverage, !.backers = backers,
                                      !.covered = covered, !.status = status]
  BY DEF Designated
<1> HIDE DEF coverage, backers, covered, status
<1> QED BY <1>1, <1>2, <1>3, ZenonT(40) DEF FulfillmentRows

-----------------------------------------------------------------------------
(* The inductive invariant.  The tables keep their rows well formed, and the
   rows of fulfillment orders in use belong to orders: the deadline looks up
   the commitments of that order. *)

RowsOK ==
  /\ onHand \in [Skus -> Nat]
  /\ reserved \in [Skus -> Nat]
  /\ ledger \in [Orders -> [Skus -> Int]]
  /\ commitment \in [Orders -> [Skus -> CommitmentRows]]
  /\ order \in [Orders -> OrderRows]
  /\ approval \in [Approvals -> ApprovalRows]
  /\ hold \in [Orders -> 0..MaxFulfillments]
  /\ fo \in [Fulfillments -> FulfillmentRows]
  /\ receipt \in [Receipts -> ReceiptRows]

FulfillmentsOwned ==
  \A f \in Fulfillments : fo[f].status # "none" => fo[f].order \in Orders

RowsInv == RowsOK /\ FulfillmentsOwned /\ CommitmentsBacked

(* A row that is not in use is backed by no receipt and holds nothing. *)
EmptyRow(x) ==
  x.status = "none" => x.backers = {} /\ \A r \in Receipts : x.coverage[r] = 0

(* What a transaction in progress has read: a cancellation, a fulfillment order
   of its order, which still is one; it knows of the expiry of that fulfillment
   order, which waits for the order.  A reversal, fulfillment orders that its
   receipt still backs. *)
CancellationRead(o) ==
  cancelling[o].f # 0 =>
    LET x == fo[cancelling[o].f]
    IN  /\ cancelling[o].open
        /\ x.order = o /\ x.status # "none" /\ cancelling[o].status # "none"
        /\ x.status = "payment_hold" => cancelling[o].status = "payment_hold"

FlightInv ==
  /\ cancelling \in [Orders -> CancellationRows]
  /\ reversing \in [Receipts -> ReversalRows]
  /\ \A f \in Fulfillments : EmptyRow(fo[f])
  /\ \A o \in Orders : CancellationRead(o)
  /\ \A r \in Receipts : \A f \in reversing[r].backed : r \in fo[f].backers

StockInv == RowsInv /\ FlightInv /\ ReservedMatchesLedger

(* A line's reservation events never add up to less than nothing. *)
LEMMA LedgerNatural ==
  RowsInv => \A o \in Orders, s \in Skus :
               /\ commitment[o][s] \in CommitmentRows
               /\ commitment[o][s].reserved \in Nat
               /\ ledger[o][s] \in Nat
BY DEF RowsInv, RowsOK, CommitmentsBacked, CommitmentRows, Partitioned

(* The same of the next state: what a step leaves a line's events at. *)
LEMMA LedgerStaysNatural ==
  RowsInv' => \A o \in Orders, s \in Skus : ledger'[o][s] \in Nat
BY DEF RowsInv, RowsOK, CommitmentsBacked, CommitmentRows, Partitioned

(* The empty tables satisfy the row invariant. *)
LEMMA InitRows == Init => RowsInv
<1> SUFFICES ASSUME Init PROVE RowsInv
  OBVIOUS
<1>1. RowsOK
  BY ReservationAssumption
  DEF Init, RowsOK, CommitmentRows, NoCommitment, OrderRows, ApprovalRows, FulfillmentRows,
      NoFulfillment, ReceiptRows, Approvals
<1>2. FulfillmentsOwned
  BY DEF Init, FulfillmentsOwned, NoFulfillment
<1>3. CommitmentsBacked
  BY DEF Init, CommitmentsBacked, NoCommitment, Partitioned
<1> QED BY <1>1, <1>2, <1>3 DEF RowsInv

(* A new revision leaves a well-formed order row. *)
LEMMA RevisionType ==
  ASSUME order \in [Orders -> OrderRows], NEW o \in Orders, NEW q \in [Skus -> Nat],
         NEW policy \in Policies, Revision(o, q, policy)
  PROVE  order' \in [Orders -> OrderRows]
<1>1. [status |-> "draft", approved |-> 0, qty |-> q, policy |-> policy] \in OrderRows
  BY ReservationAssumption DEF OrderRows
<1> QED BY <1>1 DEF Revision

(* An order that only changes its status stays a well-formed row. *)
LEMMA OrderStatusRow ==
  ASSUME order \in [Orders -> OrderRows], NEW o \in Orders,
         NEW v \in {"awaiting_approval", "approved", "held", "partially_cancelled", "cancelled"}
  PROVE  [order EXCEPT ![o].status = v] \in [Orders -> OrderRows]
<1>1. PICK row : row = [order[o] EXCEPT !.status = v]
  OBVIOUS
<1>2. row \in OrderRows
  BY <1>1 DEF OrderRows
<1>3. [order EXCEPT ![o].status = v] = [order EXCEPT ![o] = row]
  BY <1>1
<1> QED BY <1>2, <1>3

(* An approved order names the approval it has. *)
LEMMA OrderApprovedRow ==
  ASSUME order \in [Orders -> OrderRows], NEW o \in Orders, NEW a \in Approvals
  PROVE  [order EXCEPT ![o].status = "approved", ![o].approved = a] \in [Orders -> OrderRows]
<1>1. PICK row : row = [[order[o] EXCEPT !.status = "approved"] EXCEPT !.approved = a]
  OBVIOUS
<1>2. [order[o] EXCEPT !.status = "approved"] \in OrderRows /\ a \in 0..MaxApprovals
  <2>1. [order[o] EXCEPT !.status = "approved"] \in OrderRows
    BY DEF OrderRows
  <2>2. a \in 0..MaxApprovals
    BY ReservationAssumption DEF Approvals
  <2> QED BY <2>1, <2>2
<1>3. row \in OrderRows
  BY <1>1, <1>2 DEF OrderRows
<1>4. [order EXCEPT ![o].status = "approved", ![o].approved = a] = [order EXCEPT ![o] = row]
  BY <1>1
<1> QED BY <1>3, <1>4

(* A step that only rewrites orders keeps the rows. *)
LEMMA OrderRowsStep ==
  ASSUME RowsInv, order' \in [Orders -> OrderRows],
         UNCHANGED <<onHand, stockVars, approval, hold, fo, receipt>>
  PROVE  RowsInv'
<1>1. RowsOK'
  BY DEF RowsInv, RowsOK, stockVars
<1>2. FulfillmentsOwned'
  BY DEF RowsInv, FulfillmentsOwned
<1>3. CommitmentsBacked'
  BY DEF RowsInv, CommitmentsBacked, ActiveApprovals, stockVars
<1> QED BY <1>1, <1>2, <1>3 DEF RowsInv

(* Creating a draft keeps the row invariant. *)
LEMMA DraftRows ==
  ASSUME RowsInv, NEW o \in Orders, NEW q \in Quantities, NEW policy \in Policies,
         CreateDraft(o, q, policy)
  PROVE  RowsInv'
<1>1. Quantities \subseteq [Skus -> Nat]
  BY ReservationAssumption DEF Quantities
<1>2. order' \in [Orders -> OrderRows]
  BY <1>1, RevisionType DEF CreateDraft, RowsInv, RowsOK
<1> QED BY <1>2, OrderRowsStep DEF CreateDraft

(* Submitting for approval keeps the row invariant. *)
LEMMA SubmitRows ==
  ASSUME RowsInv, NEW o \in Orders, Submit(o)
  PROVE  RowsInv'
<1>1. order' \in [Orders -> OrderRows]
  <2>1. order \in [Orders -> OrderRows]
    BY DEF RowsInv, RowsOK
  <2>2. [order EXCEPT ![o].status = "awaiting_approval"] \in [Orders -> OrderRows]
    BY <2>1, OrderStatusRow
  <2> QED BY <2>2 DEF Submit
<1> QED BY <1>1, OrderRowsStep DEF Submit

(* Invalidation takes back what the approval's lines reserve, with the lines. *)
LEMMA InvalidateRows ==
  ASSUME RowsInv, NEW o \in Orders, NEW a \in ActiveApprovals(o), Invalidate(o, a),
         order' \in [Orders -> OrderRows], UNCHANGED <<onHand, hold>>
  PROVE  RowsInv'
<1> USE DEF RowsInv
<1> DEFINE lines == LinesOf(o, a)
           d == [s \in Skus |-> IF s \in lines THEN -commitment[o][s].reserved ELSE 0]
           gone == {f \in Fulfillments :
                      fo[f].approval = a /\ fo[f].status \notin {"none", "cancelled"}}
<1>1. /\ a \in Approvals
      /\ \A s \in Skus : d[s] \in Int
      /\ Book(o, d)
  BY LedgerNatural DEF ActiveApprovals, Invalidate
<1>2. /\ ledger' \in [Orders -> [Skus -> Int]] /\ reserved' \in [Skus -> Nat]
      /\ \A s \in Skus : ledger'[o][s] = ledger[o][s] + d[s]
      /\ \A p \in Orders \ {o} : ledger'[p] = ledger[p]
  <2> HIDE DEF d
  <2> QED BY <1>1, BookEffect DEF RowsOK
<1>3. /\ \A s \in Skus : commitment'[o][s] =
            IF s \in lines THEN NoCommitment ELSE commitment[o][s]
      /\ \A p \in Orders \ {o} : commitment'[p] = commitment[p]
      /\ commitment' \in [Orders -> [Skus -> CommitmentRows]]
  <2>1. NoCommitment \in CommitmentRows
    BY ReservationAssumption DEF NoCommitment, CommitmentRows
  <2> QED BY <2>1 DEF RowsOK, Invalidate, CommitmentsWithout
<1>4. approval' \in [Approvals -> ApprovalRows]
  BY <1>1, ZenonT(40) DEF RowsOK, Invalidate, ApprovalRows
<1>5. /\ fo' \in [Fulfillments -> FulfillmentRows]
      /\ \A f \in Fulfillments : /\ fo'[f].order = fo[f].order
                                 /\ fo[f].status = "none" => fo'[f].status = "none"
  <2>1. /\ fo' = [f \in Fulfillments |->
                    IF f \in gone
                    THEN [Bare(fo[f], HeldBy(fo[f])) EXCEPT !.status = "cancelled"] ELSE fo[f]]
        /\ \A f \in gone : fo[f].status # "none"
    BY DEF Invalidate
  <2> HIDE DEF gone
  <2> SUFFICES ASSUME NEW f \in Fulfillments
               PROVE  /\ fo'[f] \in FulfillmentRows
                      /\ fo'[f].order = fo[f].order
                      /\ fo[f].status = "none" => fo'[f].status = "none"
    BY <2>1
  <2> DEFINE bare == Bare(fo[f], HeldBy(fo[f]))
  <2>2. fo[f] \in FulfillmentRows
    BY DEF RowsOK
  <2>3. bare \in FulfillmentRows /\ bare.order = fo[f].order
    BY <2>2, HeldByType, BareType
  <2> HIDE DEF bare
  <2>4. /\ [bare EXCEPT !.status = "cancelled"] \in FulfillmentRows
        /\ [bare EXCEPT !.status = "cancelled"].order = fo[f].order
    BY <2>3 DEF FulfillmentRows
  <2>5. fo'[f] = IF f \in gone THEN [bare EXCEPT !.status = "cancelled"] ELSE fo[f]
    BY <2>1 DEF bare
  <2> QED BY <2>1, <2>2, <2>4, <2>5
<1>6. receipt' \in [Receipts -> ReceiptRows]
  <2>1. PaymentTypes /\ gone \in SUBSET Fulfillments
    BY DEF PaymentTypes, RowsOK
  <2>2. \A f \in gone, r \in Receipts : Holdings[f][r] \in Nat
    BY <2>1, HoldingsType
  <2>3. receipt' = ReceiptsWithout(Holdings, gone)
    BY DEF Invalidate
  <2> HIDE DEF gone
  <2> QED BY <2>1, <2>2, <2>3, WithoutType
<1>7. RowsOK'
  BY <1>2, <1>3, <1>4, <1>5, <1>6 DEF RowsOK
<1>8. FulfillmentsOwned'
  BY <1>5 DEF FulfillmentsOwned
<1>9. CommitmentsBacked'
  <2> SUFFICES ASSUME NEW p \in Orders, NEW s \in Skus
               PROVE  LET c == commitment'[p][s]
                      IN  /\ Partitioned(c)
                          /\ c.reserved <= ledger'[p][s]
                          /\ c.approval # 0 => c.approval \in ActiveApprovals(p)'
    BY DEF CommitmentsBacked
  <2>1. /\ Partitioned(commitment[p][s])
        /\ commitment[p][s].reserved <= ledger[p][s]
        /\ commitment[p][s].approval # 0 => commitment[p][s].approval \in ActiveApprovals(p)
    BY DEF CommitmentsBacked
  <2>2. commitment[p][s].reserved \in Nat /\ ledger[p][s] \in Nat
    BY LedgerNatural
  <2>3. \A b \in ActiveApprovals(p) : b # a => b \in ActiveApprovals(p)'
    BY DEF ActiveApprovals, Invalidate
  <2>4. CASE p = o /\ s \in lines
    BY <2>4, <2>1, <2>2, <1>2, <1>3 DEF NoCommitment, Partitioned
  <2>5. CASE p = o /\ s \notin lines
    <3>1. commitment'[p][s] = commitment[p][s] /\ ledger'[p][s] = ledger[p][s]
      BY <2>5, <2>2, <1>2, <1>3
    <3>2. commitment[p][s].approval # a
      BY <2>5 DEF LinesOf
    <3> QED BY <3>1, <3>2, <2>1, <2>3
  <2>6. CASE p # o
    <3>1. commitment'[p][s] = commitment[p][s] /\ ledger'[p][s] = ledger[p][s]
      BY <2>6, <1>2, <1>3
    <3>2. a \notin ActiveApprovals(p)
      BY <2>6 DEF ActiveApprovals
    <3> QED BY <3>1, <3>2, <2>1, <2>3
  <2> QED BY <2>4, <2>5, <2>6
<1> QED BY <1>7, <1>8, <1>9

(* Revising an order, with or without invalidating its approval, keeps the row
   invariant. *)
LEMMA ReviseRows ==
  ASSUME RowsInv, NEW o \in Orders, NEW q \in Quantities, NEW policy \in Policies,
         Revise(o, q, policy)
  PROVE  RowsInv'
<1>1. Quantities \subseteq [Skus -> Nat]
  BY ReservationAssumption DEF Quantities
<1>2. order' \in [Orders -> OrderRows]
  BY <1>1, RevisionType DEF Revise, RowsInv, RowsOK
<1>3. CASE \E a \in ActiveApprovals(o) : Invalidate(o, a)
  BY <1>2, <1>3, InvalidateRows DEF Revise
<1>4. CASE UNCHANGED <<stockVars, approval, fo, receipt>>
  <2>1. RowsOK'
    BY <1>2, <1>4 DEF RowsInv, RowsOK, Revise, stockVars
  <2>2. FulfillmentsOwned'
    BY <1>4 DEF RowsInv, FulfillmentsOwned
  <2>3. CommitmentsBacked'
    BY <1>4 DEF RowsInv, CommitmentsBacked, ActiveApprovals, stockVars
  <2> QED BY <2>1, <2>2, <2>3 DEF RowsInv
<1> QED BY <1>3, <1>4 DEF Revise

(* A fulfillment order that is created belongs to its order. *)
LEMMA CreateRows ==
  ASSUME RowsOK, FulfillmentsOwned, NEW o \in Orders, NEW a \in Approvals,
         NEW policy \in Policies \cup {"none"},
         NEW got \in [Skus -> Nat], NEW back \in [Skus -> Nat],
         CreateFulfillment(o, a, policy, got, back)
  PROVE  fo' \in [Fulfillments -> FulfillmentRows] /\ FulfillmentsOwned'
<1>1. CASE UNCHANGED fo
  BY <1>1 DEF RowsOK, FulfillmentsOwned
<1>2. ASSUME NEW f \in Fulfillments,
             fo' = [fo EXCEPT ![f] = NewFulfillment(o, a, policy, got, back)]
      PROVE  fo' \in [Fulfillments -> FulfillmentRows] /\ FulfillmentsOwned'
  BY <1>2, NewFulfillmentType DEF RowsOK, FulfillmentsOwned
<1> QED BY <1>1, <1>2 DEF CreateFulfillment

(* Approval commits the lines of an order that had no commitment on them. *)
LEMMA ApproveRows ==
  ASSUME RowsInv, NEW o \in Orders, Approve(o, onHand)
  PROVE  RowsInv'
<1> USE DEF RowsInv
<1> DEFINE want == order[o].qty
           got  == Grantable(want, onHand)
           back == [s \in Skus |-> want[s] - got[s]]
           line(a, s) == NewCommitment(a, want[s], got[s], back[s])
<1>1. /\ want \in [Skus -> Nat]
      /\ order[o].policy \in Policies \cup {"none"}
  BY DEF RowsOK, OrderRows
<1>2. /\ got \in [Skus -> Nat] /\ back \in [Skus -> Nat]
      /\ \A s \in Skus : got[s] + back[s] = want[s]
  <2>1. \A s \in Skus : got[s] \in Nat /\ got[s] <= want[s]
    BY <1>1, GrantableBounds DEF RowsOK
  <2>2. got \in [Skus -> Nat]
    BY <2>1 DEF Grantable
  <2> HIDE DEF want, got
  <2> QED BY <1>1, <2>1, <2>2
<1>3. PICK a \in Approvals :
        /\ FreshApproval(a)
        /\ approval' = [approval EXCEPT ![a] =
             [order |-> o, policy |-> order[o].policy, state |-> "active"]]
        /\ commitment' = [commitment EXCEPT ![o] = [s \in Skus |->
             IF want[s] > 0 THEN line(a, s) ELSE commitment[o][s]]]
        /\ order' = [order EXCEPT ![o].status = "approved", ![o].approved = a]
        /\ CreateFulfillment(o, a, order[o].policy, got, back)
  BY DEF Approve
<1>4. Book(o, got) /\ UNCHANGED <<onHand, hold, receipt>>
  BY DEF Approve
<1>5. a \in 0..MaxApprovals /\ a # 0
  BY ReservationAssumption DEF Approvals
<1>6. /\ ledger' \in [Orders -> [Skus -> Int]] /\ reserved' \in [Skus -> Nat]
      /\ \A s \in Skus : ledger'[o][s] = ledger[o][s] + got[s]
      /\ \A p \in Orders \ {o} : ledger'[p] = ledger[p]
  <2>1. \A s \in Skus : got[s] \in Int
    BY <1>2
  <2> HIDE DEF got
  <2> QED BY <2>1, <1>4, BookEffect DEF RowsOK
<1>7. \A s \in Skus : /\ line(a, s) \in CommitmentRows
                      /\ Partitioned(line(a, s))
                      /\ line(a, s).reserved = got[s]
                      /\ line(a, s).approval = a
  <2> SUFFICES ASSUME NEW s \in Skus
               PROVE  /\ line(a, s) \in CommitmentRows
                      /\ Partitioned(line(a, s))
                      /\ line(a, s).reserved = got[s]
                      /\ line(a, s).approval = a
    OBVIOUS
  <2>1. /\ want[s] \in Nat /\ got[s] \in Nat /\ back[s] \in Nat
        /\ got[s] + back[s] = want[s]
    <3> HIDE DEF got, back, want
    <3> QED BY <1>1, <1>2
  <2> HIDE DEF got, back, want
  <2> QED BY <2>1, <1>5 DEF NewCommitment, CommitmentRows, Partitioned
<1>8. /\ \A s \in Skus : commitment'[o][s] =
            IF want[s] > 0 THEN line(a, s) ELSE commitment[o][s]
      /\ \A p \in Orders \ {o} : commitment'[p] = commitment[p]
      /\ commitment' \in [Orders -> [Skus -> CommitmentRows]]
  <2> HIDE DEF line, want
  <2> QED BY <1>3, <1>7 DEF RowsOK
<1>9. approval' \in [Approvals -> ApprovalRows]
  BY <1>1, <1>3 DEF RowsOK, ApprovalRows
<1>10. order' \in [Orders -> OrderRows]
  <2>1. order \in [Orders -> OrderRows]
    BY DEF RowsOK
  <2>2. [order EXCEPT ![o].status = "approved", ![o].approved = a] \in [Orders -> OrderRows]
    BY <2>1, OrderApprovedRow
  <2> QED BY <1>3, <2>2
<1>11. fo' \in [Fulfillments -> FulfillmentRows] /\ FulfillmentsOwned'
  <2> HIDE DEF got, back
  <2> QED BY <1>1, <1>2, <1>3, CreateRows
<1> HIDE DEF want, got, back, line
<1>12. RowsOK'
  BY <1>4, <1>6, <1>8, <1>9, <1>10, <1>11 DEF RowsOK
<1>13. CommitmentsBacked'
  <2> SUFFICES ASSUME NEW p \in Orders, NEW s \in Skus
               PROVE  LET c == commitment'[p][s]
                      IN  /\ Partitioned(c)
                          /\ c.reserved <= ledger'[p][s]
                          /\ c.approval # 0 => c.approval \in ActiveApprovals(p)'
    BY DEF CommitmentsBacked
  <2>1. /\ Partitioned(commitment[p][s])
        /\ commitment[p][s].reserved <= ledger[p][s]
        /\ commitment[p][s].approval # 0 => commitment[p][s].approval \in ActiveApprovals(p)
    BY DEF CommitmentsBacked
  <2>2. commitment[p][s].reserved \in Nat /\ ledger[p][s] \in Nat
    BY LedgerNatural
  <2>3. \A b \in ActiveApprovals(p) : b \in ActiveApprovals(p)'
    BY <1>3 DEF ActiveApprovals, FreshApproval
  <2>4. a \in ActiveApprovals(o)'
    BY <1>3 DEF ActiveApprovals, RowsOK
  <2>5. CASE p = o /\ want[s] > 0
    <3>1. commitment'[p][s] = line(a, s) /\ ledger'[p][s] = ledger[p][s] + got[s]
      BY <2>5, <1>6, <1>8
    <3>2. got[s] \in Nat
      BY <1>2
    <3> QED BY <2>5, <2>2, <2>4, <3>1, <3>2, <1>7
  <2>6. CASE p = o /\ ~(want[s] > 0)
    <3>1. commitment'[p][s] = commitment[p][s] /\ ledger'[p][s] = ledger[p][s] + got[s]
      BY <2>6, <1>6, <1>8
    <3>2. got[s] \in Nat
      BY <1>2
    <3> QED BY <2>1, <2>2, <2>3, <3>1, <3>2
  <2>7. CASE p # o
    BY <2>7, <2>1, <2>3, <1>6, <1>8
  <2> QED BY <2>5, <2>6, <2>7
<1> QED BY <1>11, <1>12, <1>13

-----------------------------------------------------------------------------
(* A cancelled quantity n, of which m was reserved, leaves a partition. *)
LEMMA CutLine ==
  ASSUME NEW k \in CommitmentRows, Partitioned(k), NEW n \in Nat, NEW m \in Nat,
         m <= n, m <= k.reserved, m = n \/ m = k.reserved,
         n <= k.ordered - k.picked - k.cancelled
  PROVE  LET y == [k EXCEPT !.reserved = @ - m, !.backorder = @ - (n - m), !.cancelled = @ + n]
         IN  /\ y \in CommitmentRows /\ Partitioned(y)
             /\ y.reserved = k.reserved - m
             /\ y.approval = k.approval
<1>1. /\ k.reserved \in Int /\ k.backorder \in Int /\ k.cancelled \in Int
      /\ k.picked \in Int /\ k.ordered \in Int
  BY DEF CommitmentRows
<1>2. k.backorder - (n - m) >= 0
  BY <1>1 DEF Partitioned
<1> DEFINE res == k.reserved - m
           back == k.backorder - (n - m)
           can == k.cancelled + n
           y == [k EXCEPT !.reserved = res, !.backorder = back, !.cancelled = can]
<1>3. /\ res \in Int /\ back \in Int /\ can \in Int
      /\ res >= 0 /\ back >= 0 /\ can >= 0 /\ k.picked >= 0
      /\ res + k.picked + back + can = k.ordered
  BY <1>1, <1>2 DEF Partitioned
<1> HIDE DEF res, back, can
<1>4. /\ y \in CommitmentRows
      /\ y.reserved = res /\ y.backorder = back /\ y.cancelled = can
      /\ y.picked = k.picked /\ y.ordered = k.ordered /\ y.approval = k.approval
  BY <1>3 DEF CommitmentRows
<1> HIDE DEF y
<1>5. Partitioned(y)
  BY <1>3, <1>4 DEF Partitioned
<1>6. y = [k EXCEPT !.reserved = @ - m, !.backorder = @ - (n - m), !.cancelled = @ + n]
  BY DEF y, res, back, can
<1> QED BY <1>4, <1>5, <1>6 DEF res

(* A cancellation moves a line from reserved and backordered to cancelled. *)
LEMMA CancelRows ==
  ASSUME RowsInv, FlightInv, NEW o \in Orders, NEW c \in [Skus -> Nat], Cancel(o, c)
  PROVE  RowsInv'
<1> USE DEF RowsInv
<1> DEFINE lines == {s \in Skus : c[s] > 0}
           row(s) == commitment[o][s]
           freed == [s \in Skus |-> Lesser(c[s], row(s).reserved)]
           d == [s \in Skus |-> -freed[s]]
           cut(s) == [row(s) EXCEPT !.reserved = @ - freed[s],
                                    !.backorder = @ - (c[s] - freed[s]),
                                    !.cancelled = @ + c[s]]
           latest == cancelling[o].f
           read == ReadFulfillment(cancelling[o])
<1>1. \A s \in Skus : /\ row(s) \in CommitmentRows /\ Partitioned(row(s))
                      /\ row(s).reserved <= ledger[o][s]
                      /\ row(s).reserved \in Nat /\ ledger[o][s] \in Nat
  BY LedgerNatural DEF CommitmentsBacked
<1>2. /\ freed \in [Skus -> Nat]
      /\ \A s \in Skus : freed[s] <= c[s] /\ freed[s] <= row(s).reserved
      /\ \A s \in Skus : freed[s] = c[s] \/ freed[s] = row(s).reserved
      /\ \A s \in Skus : d[s] = -freed[s] /\ d[s] \in Int
  <2> HIDE DEF row
  <2> QED BY <1>1 DEF Lesser
<1>3. /\ \A s \in lines : c[s] <= row(s).ordered - row(s).picked - row(s).cancelled
      /\ commitment' = [commitment EXCEPT ![o] = [s \in Skus |->
            IF s \in lines THEN cut(s) ELSE row(s)]]
      /\ Book(o, d)
      /\ fo' = IF latest = 0 THEN fo
               ELSE [fo EXCEPT ![latest] = ReducedFulfillment(read, c, freed)]
      /\ UNCHANGED <<onHand, approval, receipt>>
  BY DEF Cancel, OpenQuantity
<1>4. order' \in [Orders -> OrderRows] /\ hold' \in [Orders -> 0..MaxFulfillments]
  <2>1. \E status \in {"cancelled", "held", "partially_cancelled"} :
          /\ order' = [order EXCEPT ![o].status = status]
          /\ hold' = HoldsAfter(o, status)
    BY DEF Cancel
  <2>2. PICK status \in {"cancelled", "held", "partially_cancelled"} :
          /\ order' = [order EXCEPT ![o].status = status]
          /\ hold' = HoldsAfter(o, status)
    BY <2>1
  <2>3. order' \in [Orders -> OrderRows]
    <3>1. order \in [Orders -> OrderRows]
      BY DEF RowsOK
    <3>2. [order EXCEPT ![o].status = status] \in [Orders -> OrderRows]
      BY <2>2, <3>1, OrderStatusRow
    <3> QED BY <2>2, <3>2
  <2>4. hold' \in [Orders -> 0..MaxFulfillments]
    BY <2>2, ReservationAssumption DEF RowsOK, HoldsAfter
  <2> QED BY <2>3, <2>4
<1>5. /\ ledger' \in [Orders -> [Skus -> Int]] /\ reserved' \in [Skus -> Nat]
      /\ \A s \in Skus : ledger'[o][s] = ledger[o][s] + d[s]
      /\ \A p \in Orders \ {o} : ledger'[p] = ledger[p]
  <2> HIDE DEF d
  <2> QED BY <1>2, <1>3, BookEffect DEF RowsOK
<1>6. ASSUME NEW s \in lines
      PROVE  /\ cut(s) \in CommitmentRows /\ Partitioned(cut(s))
             /\ cut(s).reserved = row(s).reserved - freed[s]
             /\ cut(s).approval = row(s).approval
  <2>1. /\ row(s) \in CommitmentRows /\ Partitioned(row(s))
        /\ c[s] \in Nat /\ freed[s] \in Nat
        /\ freed[s] <= c[s] /\ freed[s] <= row(s).reserved
        /\ freed[s] = c[s] \/ freed[s] = row(s).reserved
        /\ c[s] <= row(s).ordered - row(s).picked - row(s).cancelled
    <3> HIDE DEF row, freed
    <3> QED BY <1>1, <1>2, <1>3
  <2> HIDE DEF row, freed
  <2> QED BY <2>1, CutLine
<1>7. /\ \A s \in Skus : commitment'[o][s] = IF s \in lines THEN cut(s) ELSE row(s)
      /\ \A p \in Orders \ {o} : commitment'[p] = commitment[p]
      /\ commitment' \in [Orders -> [Skus -> CommitmentRows]]
  <2> HIDE DEF cut, row
  <2>1. commitment' = [commitment EXCEPT ![o] = [s \in Skus |->
            IF s \in lines THEN cut(s) ELSE row(s)]]
    BY <1>3
  <2> QED BY <2>1, <1>1, <1>6 DEF RowsOK
<1>8. /\ fo' \in [Fulfillments -> FulfillmentRows]
      /\ FulfillmentsOwned'
  <2>1. CASE latest = 0
    BY <1>3, <2>1 DEF RowsOK, FulfillmentsOwned
  <2>2. CASE latest # 0
    <3>1. latest \in Fulfillments
      BY <2>2, LatestType DEF FlightInv, CancellationRows, Fulfillments
    <3> DEFINE y == ReducedFulfillment(read, c, freed)
    <3>2. read \in FulfillmentRows /\ read.order = o
      <4>1. /\ fo[latest] \in FulfillmentRows /\ cancelling[o] \in CancellationRows
            /\ CancellationRead(o)
        BY <3>1 DEF RowsOK, FlightInv
      <4>2. fo[latest].order = o
        BY <2>2, <4>1 DEF CancellationRead
      <4> QED BY <4>1, <4>2, ReadType DEF ReadFulfillment
    <3>3. y \in FulfillmentRows /\ y.order = o
      <4> HIDE DEF read, latest, lines, freed, row, d, cut
      <4>1. y \in FulfillmentRows /\ y.order = read.order
        BY <3>2, <1>2, ReducedType
      <4> HIDE DEF y
      <4> QED BY <4>1, <3>2
    <3> HIDE DEF latest, freed, row, d, cut, read
    <3>4. fo' = [fo EXCEPT ![latest] = y]
      BY <1>3, <2>2
    <3> HIDE DEF y
    <3> QED BY <3>1, <3>3, <3>4 DEF RowsOK, FulfillmentsOwned
  <2> QED BY <2>1, <2>2
<1>9. RowsOK'
  BY <1>3, <1>4, <1>5, <1>7, <1>8 DEF RowsOK
<1>10. CommitmentsBacked'
  <2> SUFFICES ASSUME NEW p \in Orders, NEW s \in Skus
               PROVE  LET k == commitment'[p][s]
                      IN  /\ Partitioned(k)
                          /\ k.reserved <= ledger'[p][s]
                          /\ k.approval # 0 => k.approval \in ActiveApprovals(p)'
    BY DEF CommitmentsBacked
  <2>1. /\ Partitioned(commitment[p][s])
        /\ commitment[p][s].reserved <= ledger[p][s]
        /\ commitment[p][s].approval # 0 => commitment[p][s].approval \in ActiveApprovals(p)
    BY DEF CommitmentsBacked
  <2>2. ActiveApprovals(p)' = ActiveApprovals(p)
    BY <1>3 DEF ActiveApprovals
  <2>3. CASE p = o /\ s \in lines
    <3> HIDE DEF cut, freed, d
    <3> QED BY <2>3, <2>1, <2>2, <1>1, <1>2, <1>5, <1>6, <1>7
  <2>4. CASE p = o /\ s \notin lines
    <3>1. c[s] = 0 /\ freed[s] = 0
      BY <2>4, <1>2
    <3> HIDE DEF cut, freed, d
    <3> QED BY <2>4, <3>1, <2>1, <2>2, <1>1, <1>2, <1>5, <1>7
  <2>5. CASE p # o
    BY <2>5, <2>1, <2>2, <1>5, <1>7
  <2> QED BY <2>3, <2>4, <2>5
<1> QED BY <1>8, <1>9, <1>10

-----------------------------------------------------------------------------
(* Pick release, payments and stock moves leave the lines alone. *)

(* What a pick release makes of a fulfillment order. *)
ReleasedRow(x) == [x EXCEPT !.status = "pick_released", !.released = TRUE]

LEMMA PickReleaseWrites ==
  ASSUME NEW f \in Fulfillments, PickRelease(f)
  PROVE  fo' = [fo EXCEPT ![f] = ReleasedRow(fo[f])]
<1>1. fo' = [fo EXCEPT ![f].status = "pick_released", ![f].released = TRUE]
  BY DEF PickRelease
<1> QED BY <1>1 DEF ReleasedRow

(* Pick release keeps the row invariant. *)
LEMMA PickReleaseRows ==
  ASSUME RowsInv, NEW f \in Fulfillments, PickRelease(f)
  PROVE  RowsInv'
<1>1. fo' \in [Fulfillments -> FulfillmentRows]
  <2>1. fo \in [Fulfillments -> FulfillmentRows] /\ fo[f] \in FulfillmentRows
    BY DEF RowsInv, RowsOK
  <2>2. ReleasedRow(fo[f]) \in FulfillmentRows
    BY <2>1 DEF ReleasedRow, FulfillmentRows
  <2> QED BY <2>1, <2>2, PickReleaseWrites
<1>2. RowsOK'
  BY <1>1 DEF RowsInv, RowsOK, PickRelease, stockVars
<1>3. FulfillmentsOwned'
  <2>1. fo[f] \in FulfillmentRows /\ fo \in [Fulfillments -> FulfillmentRows]
    BY DEF RowsInv, RowsOK
  <2>2. ReleasedRow(fo[f]).order = fo[f].order
    BY <2>1 DEF ReleasedRow, FulfillmentRows
  <2>3. fo[f].status # "none"
    BY DEF PickRelease
  <2> QED BY <2>1, <2>2, <2>3, PickReleaseWrites DEF RowsInv, FulfillmentsOwned
<1>4. CommitmentsBacked'
  BY DEF RowsInv, CommitmentsBacked, ActiveApprovals, PickRelease, stockVars
<1> QED BY <1>2, <1>3, <1>4 DEF RowsInv

(* Clearing a receipt leaves well-formed payment rows (_clear_receipt). *)
LEMMA ClearType ==
  ASSUME RowsOK, FulfillmentsOwned, NEW r \in Receipts, NEW row \in ReceiptRows, Clear(r, row)
  PROVE  /\ fo' \in [Fulfillments -> FulfillmentRows]
         /\ receipt' \in [Receipts -> ReceiptRows]
         /\ FulfillmentsOwned'
<1> DEFINE f == row.intended
           n == Designation(f, row.amount)
           cleared == [row EXCEPT !.state = "cleared", !.designated = n]
<1>1. f \in 0..MaxFulfillments /\ row.amount \in Nat
  BY DEF ReceiptRows
<1>2. PaymentTypes
  BY DEF RowsOK, PaymentTypes
<1>3. n \in Nat /\ (n # 0 => f \in Fulfillments /\ fo[f].status \in {"reserved", "payment_ready"})
  BY <1>1, <1>2, DesignationType
<1>4. /\ receipt' = [receipt EXCEPT ![r] = cleared]
      /\ fo' = IF n = 0 THEN fo ELSE [fo EXCEPT ![f] = Designated(fo[f], r, n)]
  BY DEF Clear
<1> HIDE DEF n
<1>5. cleared \in ReceiptRows
  <2>1. n \in Int
    BY <1>3
  <2> QED BY <2>1 DEF ReceiptRows
<1>6. receipt' \in [Receipts -> ReceiptRows]
  BY <1>4, <1>5 DEF RowsOK
<1>7. CASE n = 0
  BY <1>4, <1>6, <1>7 DEF RowsOK, FulfillmentsOwned
<1>8. CASE n # 0
  <2>1. f \in Fulfillments /\ fo[f] \in FulfillmentRows /\ fo[f].order \in Orders
    BY <1>3, <1>8 DEF RowsOK, FulfillmentsOwned
  <2> DEFINE y == Designated(fo[f], r, n)
  <2>2. y \in FulfillmentRows /\ y.order \in Orders
    BY <2>1, <1>3, DesignatedType
  <2>3. fo' = [fo EXCEPT ![f] = y]
    BY <1>4, <1>8
  <2> HIDE DEF y, f
  <2> QED BY <1>6, <2>1, <2>2, <2>3 DEF RowsOK, FulfillmentsOwned
<1> QED BY <1>7, <1>8

(* A recorded receipt is a well-formed row. *)
LEMMA NewReceiptType ==
  ASSUME NEW o \in Orders, NEW amount \in 1..MaxAmount
  PROVE  NewReceipt(o, amount) \in ReceiptRows
<1> DEFINE F == {f \in Fulfillments : fo[f].order = o}
<1>1. LatestOf(F) \in F \cup {0}
  BY LatestType
<1>2. LatestOf(F) \in 0..MaxFulfillments
  BY <1>1, ReservationAssumption DEF Fulfillments
<1>3. NewReceipt(o, amount) = [state |-> "pending", order |-> o, amount |-> amount,
                               designated |-> 0, intended |-> LatestOf(F)]
  BY DEF NewReceipt
<1> HIDE DEF F
<1> QED BY <1>2, <1>3, ReservationAssumption DEF ReceiptRows

(* A step that only rewrites payments keeps the rows. *)
LEMMA PaymentRowsStep ==
  ASSUME RowsInv, fo' \in [Fulfillments -> FulfillmentRows],
         receipt' \in [Receipts -> ReceiptRows], FulfillmentsOwned',
         UNCHANGED <<onHand, stockVars, order, approval, hold>>
  PROVE  RowsInv'
<1>1. RowsOK'
  BY DEF RowsInv, RowsOK, stockVars
<1>2. CommitmentsBacked'
  BY DEF RowsInv, CommitmentsBacked, ActiveApprovals, stockVars
<1> QED BY <1>1, <1>2 DEF RowsInv

(* Recording a receipt, pending or cash, keeps the row invariant. *)
LEMMA RecordRows ==
  ASSUME RowsInv, NEW r \in Receipts, NEW o \in Orders, NEW amount \in 1..MaxAmount,
         RecordReceipt(r, o, amount) \/ RecordCash(r, o, amount)
  PROVE  RowsInv'
<1>1. /\ fo' \in [Fulfillments -> FulfillmentRows]
      /\ receipt' \in [Receipts -> ReceiptRows]
      /\ FulfillmentsOwned'
  <2>1. CASE RecordReceipt(r, o, amount)
    BY <2>1, NewReceiptType DEF RowsInv, RowsOK, FulfillmentsOwned, RecordReceipt
  <2>2. CASE RecordCash(r, o, amount)
    BY <2>2, NewReceiptType, ClearType DEF RowsInv, RecordCash
  <2> QED BY <2>1, <2>2
<1> QED BY <1>1, PaymentRowsStep DEF RecordReceipt, RecordCash

(* Clearing a pending receipt keeps the row invariant. *)
LEMMA ClearRows ==
  ASSUME RowsInv, NEW r \in Receipts, ClearReceipt(r)
  PROVE  RowsInv'
<1>1. receipt[r] \in ReceiptRows
  BY DEF RowsInv, RowsOK
<1>2. /\ fo' \in [Fulfillments -> FulfillmentRows]
      /\ receipt' \in [Receipts -> ReceiptRows]
      /\ FulfillmentsOwned'
  BY <1>1, ClearType DEF RowsInv, ClearReceipt
<1> QED BY <1>2, PaymentRowsStep DEF ClearReceipt

(* Reversing a receipt keeps the row invariant. *)
LEMMA ReverseRows ==
  ASSUME RowsInv, FlightInv, NEW r \in Receipts, ReverseReceipt(r)
  PROVE  RowsInv'
<1>1. PICK h, F : h = reversing[r].held /\ F = reversing[r].backed
  OBVIOUS
<1>2. PaymentTypes /\ F \in SUBSET Fulfillments /\ h \in [Fulfillments -> [Receipts -> Nat]]
  BY <1>1 DEF RowsInv, RowsOK, PaymentTypes, FlightInv, ReversalRows
<1>3. /\ receipt' = [ReceiptsWithout(h, F) EXCEPT ![r].state = "reversed"]
      /\ fo' = [f \in Fulfillments |-> IF f \in F THEN Bare(fo[f], h[f]) ELSE fo[f]]
  BY <1>1 DEF ReverseReceipt
<1>4. receipt' \in [Receipts -> ReceiptRows]
  <2> DEFINE without == ReceiptsWithout(h, F)
  <2>1. without \in [Receipts -> ReceiptRows]
    BY <1>2, WithoutType
  <2> HIDE DEF without
  <2> QED BY <1>3, <2>1 DEF ReceiptRows, without
<1>5. \A f \in Fulfillments : /\ Bare(fo[f], h[f]) \in FulfillmentRows
                             /\ Bare(fo[f], h[f]).order = fo[f].order
                             /\ Bare(fo[f], h[f]).status = fo[f].status
  <2> TAKE f \in Fulfillments
  <2>1. fo[f] \in FulfillmentRows /\ \A q \in Receipts : h[f][q] \in Nat
    BY <1>2 DEF PaymentTypes
  <2> QED BY <2>1, BareType
<1>6. fo' \in [Fulfillments -> FulfillmentRows] /\ FulfillmentsOwned'
  BY <1>3, <1>5 DEF RowsInv, RowsOK, FulfillmentsOwned
<1> QED BY <1>4, <1>6, PaymentRowsStep DEF ReverseReceipt

(* Stock moves keep the row invariant. *)
LEMMA StockRows ==
  ASSUME RowsInv, NEW s \in Skus, StockIn(s) \/ StockOut(s)
  PROVE  RowsInv'
<1>1. onHand' \in [Skus -> Nat]
  BY DEF RowsInv, RowsOK, StockIn, StockOut
<1>2. UNCHANGED <<stockVars, order, approval, hold, fo, receipt>>
  BY DEF StockIn, StockOut
<1>3. RowsOK'
  BY <1>1, <1>2 DEF RowsInv, RowsOK, stockVars
<1>4. FulfillmentsOwned' /\ CommitmentsBacked'
  BY <1>2 DEF RowsInv, FulfillmentsOwned, CommitmentsBacked, ActiveApprovals, stockVars
<1> QED BY <1>3, <1>4 DEF RowsInv

-----------------------------------------------------------------------------
(* A line whose reserved and backordered quantities are written anew. *)
LEMMA RecommittedType ==
  ASSUME NEW k \in CommitmentRows, NEW got \in Int, NEW back \in Int
  PROVE  /\ Recommitted(k, got, back) \in CommitmentRows
         /\ Recommitted(k, got, back).reserved = got
         /\ Recommitted(k, got, back).approval = k.approval
BY DEF Recommitted, CommitmentRows

(* The deadline gives a generation's lines back to backorder. *)
LEMMA DeadlineRows ==
  ASSUME RowsInv, NEW f \in Fulfillments, Deadline(f)
  PROVE  RowsInv'
<1> USE DEF RowsInv
<1> DEFINE o == fo[f].order
           lines == {s \in LinesOf(o, fo[f].approval) : commitment[o][s].reserved > 0}
           row(s) == Recommitted(commitment[o][s], 0, commitment[o][s].ordered)
           d == [s \in Skus |-> IF s \in lines THEN -commitment[o][s].reserved ELSE 0]
           expired == [Bare(fo[f], HeldBy(fo[f])) EXCEPT
             !.status = "payment_hold", !.reserved = 0, !.backorder = @ + fo[f].reserved]
<1>1. /\ o \in Orders /\ fo[f] \in FulfillmentRows
      /\ lines \subseteq Skus
      /\ f \in 0..MaxFulfillments
  <2>1. o \in Orders
    BY DEF Deadline, FulfillmentsOwned
  <2>2. fo[f] \in FulfillmentRows
    BY DEF RowsOK
  <2>3. lines \subseteq Skus
    BY DEF LinesOf
  <2>4. f \in 0..MaxFulfillments
    BY ReservationAssumption DEF Fulfillments
  <2> QED BY <2>1, <2>2, <2>3, <2>4, SMTT(30)
<1>2. \A s \in Skus : /\ commitment[o][s] \in CommitmentRows
                      /\ commitment[o][s].reserved \in Nat /\ ledger[o][s] \in Nat
                      /\ commitment[o][s].reserved <= ledger[o][s]
  BY <1>1, LedgerNatural, SMTT(30) DEF CommitmentsBacked
<1>3. /\ \A s \in lines : Partitioned(row(s))
      /\ Book(o, d)
      /\ commitment' = [commitment EXCEPT ![o] =
            [s \in Skus |-> IF s \in lines THEN row(s) ELSE commitment[o][s]]]
      /\ receipt' = ReceiptsWithout(Holdings, {f})
      /\ fo' = [fo EXCEPT ![f] = expired]
      /\ hold' = [hold EXCEPT ![o] = IF @ = 0 THEN f ELSE @]
      /\ order' = [order EXCEPT ![o].status = "held"]
      /\ UNCHANGED <<onHand, approval>>
  BY DEF Deadline
<1>4. expired \in FulfillmentRows /\ expired.order = o
  <2> DEFINE bare == Bare(fo[f], HeldBy(fo[f]))
  <2>1. bare \in FulfillmentRows /\ bare.order = o
    BY <1>1, HeldByType, BareType
  <2> DEFINE back == bare.backorder + fo[f].reserved
  <2>2. back \in Nat
    BY <2>1, <1>1 DEF FulfillmentRows
  <2>3. expired = [bare EXCEPT !.status = "payment_hold", !.reserved = 0, !.backorder = back]
    OBVIOUS
  <2> HIDE DEF bare, back, expired
  <2> QED BY <2>1, <2>2, <2>3 DEF FulfillmentRows
<1>5. fo' \in [Fulfillments -> FulfillmentRows] /\ FulfillmentsOwned'
  <2> HIDE DEF expired
  <2> QED BY <1>1, <1>3, <1>4 DEF RowsOK, FulfillmentsOwned
<1>6. receipt' \in [Receipts -> ReceiptRows]
  <2>1. PaymentTypes /\ {f} \in SUBSET Fulfillments
    BY DEF RowsOK, PaymentTypes
  <2>2. \A g \in {f}, r \in Receipts : Holdings[g][r] \in Nat
    BY <2>1, HoldingsType
  <2> QED BY <1>3, <2>1, <2>2, WithoutType
<1>7. /\ hold' \in [Orders -> 0..MaxFulfillments]
      /\ order' \in [Orders -> OrderRows]
  <2>1. /\ hold \in [Orders -> 0..MaxFulfillments]
        /\ order \in [Orders -> OrderRows]
    BY DEF RowsOK
  <2>2. hold' \in [Orders -> 0..MaxFulfillments]
    <3> HIDE DEF o
    <3> QED BY <1>1, <1>3, <2>1
  <2>3. order' \in [Orders -> OrderRows]
    <3>1. order' = [order EXCEPT ![o].status = "held"] /\ o \in Orders
      BY <1>1, <1>3
    <3> HIDE DEF o
    <3>2. [order EXCEPT ![o].status = "held"] \in [Orders -> OrderRows]
      BY <2>1, <3>1, OrderStatusRow
    <3> QED BY <3>1, <3>2, SMTT(30)
  <2> QED BY <2>2, <2>3
<1> HIDE DEF o
<1>8. /\ ledger' \in [Orders -> [Skus -> Int]] /\ reserved' \in [Skus -> Nat]
      /\ \A s \in Skus : ledger'[o][s] = ledger[o][s] + d[s]
      /\ \A p \in Orders \ {o} : ledger'[p] = ledger[p]
  <2>1. \A s \in Skus : d[s] \in Int
    BY <1>2
  <2> HIDE DEF d
  <2> QED BY <2>1, <1>1, <1>3, BookEffect DEF RowsOK
<1>9. \A s \in Skus : row(s) \in CommitmentRows /\ row(s).reserved = 0
                      /\ row(s).approval = commitment[o][s].approval
  <2> SUFFICES ASSUME NEW s \in Skus
               PROVE  /\ row(s) \in CommitmentRows /\ row(s).reserved = 0
                      /\ row(s).approval = commitment[o][s].approval
    OBVIOUS
  <2>1. commitment[o][s] \in CommitmentRows
    BY <1>2
  <2>2. commitment[o][s].ordered \in Int /\ 0 \in Int
    BY <2>1 DEF CommitmentRows
  <2> QED BY <2>1, <2>2, RecommittedType
<1>10. /\ \A s \in Skus : commitment'[o][s] = IF s \in lines THEN row(s) ELSE commitment[o][s]
       /\ \A p \in Orders \ {o} : commitment'[p] = commitment[p]
       /\ commitment' \in [Orders -> [Skus -> CommitmentRows]]
  <2> HIDE DEF row, lines
  <2> QED BY <1>1, <1>2, <1>3, <1>9 DEF RowsOK
<1>11. RowsOK'
  <2> HIDE DEF row, lines, d, expired
  <2> QED BY <1>3, <1>5, <1>6, <1>7, <1>8, <1>10 DEF RowsOK
<1>12. CommitmentsBacked'
  <2> SUFFICES ASSUME NEW p \in Orders, NEW s \in Skus
               PROVE  LET k == commitment'[p][s]
                      IN  /\ Partitioned(k)
                          /\ k.reserved <= ledger'[p][s]
                          /\ k.approval # 0 => k.approval \in ActiveApprovals(p)'
    BY DEF CommitmentsBacked
  <2>1. /\ Partitioned(commitment[p][s])
        /\ commitment[p][s].reserved <= ledger[p][s]
        /\ commitment[p][s].approval # 0 => commitment[p][s].approval \in ActiveApprovals(p)
    BY DEF CommitmentsBacked
  <2>2. ActiveApprovals(p)' = ActiveApprovals(p)
    BY <1>3 DEF ActiveApprovals
  <2>3. CASE p = o /\ s \in lines
    <3>1. d[s] = -commitment[o][s].reserved
      BY <2>3
    <3> HIDE DEF row, d, lines
    <3> QED BY <2>3, <3>1, <2>1, <2>2, <1>2, <1>3, <1>8, <1>9, <1>10
  <2>4. CASE p = o /\ s \notin lines
    <3>1. d[s] = 0
      BY <2>4
    <3> HIDE DEF row, d, lines
    <3> QED BY <2>4, <3>1, <2>1, <2>2, <1>2, <1>8, <1>10
  <2>5. CASE p # o
    BY <2>5, <2>1, <2>2, <1>8, <1>10
  <2> QED BY <2>3, <2>4, <2>5
<1> QED BY <1>5, <1>11, <1>12

(* A generation that receipts pay for is a row of the same order. *)
LEMMA FundedType ==
  ASSUME NEW x \in FulfillmentRows, NEW give \in [Receipts -> 0..MaxAmount]
  PROVE  Funded(x, give) \in FulfillmentRows /\ Funded(x, give).order = x.order
<1> DEFINE backers == {r \in Receipts : give[r] > 0}
           paid == Total(give, Receipts)
           status == IF paid >= x.required THEN "payment_ready" ELSE "reserved"
<1>1. give \in [Receipts -> Nat] /\ give \in [Receipts -> Int] /\ backers \in SUBSET Receipts
  BY ReservationAssumption
<1>2. paid \in Nat
  BY <1>1, TotalType, ConstantsFinite
<1>3. Funded(x, give) = [x EXCEPT !.coverage = give, !.backers = backers,
                                  !.covered = paid, !.status = status]
  BY DEF Funded
<1>4. status \in {"payment_ready", "reserved"}
  OBVIOUS
<1> HIDE DEF backers, paid, status
<1> QED BY <1>1, <1>2, <1>3, <1>4, ZenonT(40) DEF FulfillmentRows

(* A retry commits the lines of the active approval anew. *)
LEMMA RegenerateRows ==
  ASSUME RowsInv, NEW o \in Orders, NEW a \in ActiveApprovals(o), NEW f \in Fulfillments,
         NEW give \in [Receipts -> 0..MaxAmount], Regenerate(o, a, f, give, onHand),
         receipt' \in [Receipts -> ReceiptRows], hold' \in [Orders -> 0..MaxFulfillments],
         order' \in [Orders -> OrderRows], UNCHANGED <<onHand, approval>>
  PROVE  RowsInv'
<1> USE DEF RowsInv
<1> DEFINE lines == LinesOf(o, a)
           want == [s \in Skus |-> IF s \in lines THEN commitment[o][s].ordered ELSE 0]
           got == Grantable(want, onHand)
           back == [s \in Skus |-> want[s] - got[s]]
           row(s) == Recommitted(commitment[o][s], got[s], back[s])
           new == NewFulfillment(o, a, approval[a].policy, got, back)
           born == Funded(new, give)
<1>1. \A s \in Skus : /\ commitment[o][s] \in CommitmentRows /\ Partitioned(commitment[o][s])
                      /\ commitment[o][s].reserved \in Nat /\ ledger[o][s] \in Nat
                      /\ commitment[o][s].reserved <= ledger[o][s]
  BY LedgerNatural DEF CommitmentsBacked
<1>2. /\ want \in [Skus -> Nat]
      /\ lines \subseteq Skus
  BY <1>1 DEF LinesOf, CommitmentRows, Partitioned
<1>3. /\ got \in [Skus -> Nat] /\ back \in [Skus -> Nat]
  <2>1. \A s \in Skus : got[s] \in Nat /\ got[s] <= want[s]
    <3> HIDE DEF want
    <3> QED BY <1>2, GrantableBounds DEF RowsOK
  <2>2. got \in [Skus -> Nat]
    BY <2>1 DEF Grantable
  <2> HIDE DEF want, got
  <2> QED BY <1>2, <2>1, <2>2
<1>4. /\ ledger' \in [Orders -> [Skus -> Int]] /\ reserved' \in [Skus -> Nat]
      /\ \A s \in Skus : ledger'[o][s] = ledger[o][s] + got[s]
      /\ \A p \in Orders \ {o} : ledger'[p] = ledger[p]
  <2>1. \A s \in Skus : got[s] \in Int
    BY <1>3
  <2>2. Book(o, got)
    BY DEF Regenerate
  <2> HIDE DEF got
  <2> QED BY <2>1, <2>2, BookEffect, ZenonT(40) DEF RowsOK
<1>5. \A s \in Skus : /\ row(s) \in CommitmentRows
                      /\ row(s).reserved = got[s]
                      /\ row(s).approval = commitment[o][s].approval
  <2>1. \A s \in Skus : got[s] \in Int /\ back[s] \in Int
    BY <1>3
  <2> HIDE DEF got, back
  <2> QED BY <1>1, <2>1, RecommittedType, ZenonT(40)
<1>6. /\ \A s \in Skus : commitment'[o][s] =
            IF s \in lines THEN row(s) ELSE commitment[o][s]
      /\ \A p \in Orders \ {o} : commitment'[p] = commitment[p]
      /\ commitment' \in [Orders -> [Skus -> CommitmentRows]]
  <2>1. commitment' = [commitment EXCEPT ![o] =
          [s \in Skus |-> IF s \in lines THEN row(s) ELSE commitment[o][s]]]
    BY SMTT(30) DEF Regenerate
  <2> HIDE DEF row, lines
  <2> QED BY <2>1, <1>1, <1>5 DEF RowsOK
<1>7. /\ \A s \in lines : Partitioned(row(s))
      /\ fo' = [fo EXCEPT ![f] = born]
  BY DEF Regenerate
<1>8. born \in FulfillmentRows /\ born.order = o
  <2>1. a \in Approvals /\ approval[a].policy \in Policies \cup {"none"}
    BY DEF ActiveApprovals, RowsOK, ApprovalRows
  <2>2. new \in FulfillmentRows /\ new.order = o
    <3> DEFINE policy == approval[a].policy
    <3>1. policy \in Policies \cup {"none"}
      BY <2>1
    <3> HIDE DEF got, back, policy
    <3>2. NewFulfillment(o, a, policy, got, back) \in FulfillmentRows
      BY <2>1, <3>1, <1>3, NewFulfillmentType
    <3>3. NewFulfillment(o, a, policy, got, back).order = o
      BY DEF NewFulfillment
    <3> QED BY <3>2, <3>3 DEF policy
  <2> HIDE DEF new
  <2> QED BY <2>2, FundedType
<1>9. fo' \in [Fulfillments -> FulfillmentRows] /\ FulfillmentsOwned'
  <2> HIDE DEF born
  <2> QED BY <1>7, <1>8 DEF RowsOK, FulfillmentsOwned
<1>10. RowsOK'
  <2> HIDE DEF lines, row, got, born
  <2> QED BY <1>4, <1>6, <1>9 DEF RowsOK
<1>11. CommitmentsBacked'
  <2> SUFFICES ASSUME NEW p \in Orders, NEW s \in Skus
               PROVE  LET k == commitment'[p][s]
                      IN  /\ Partitioned(k)
                          /\ k.reserved <= ledger'[p][s]
                          /\ k.approval # 0 => k.approval \in ActiveApprovals(p)'
    BY DEF CommitmentsBacked
  <2>1. /\ Partitioned(commitment[p][s])
        /\ commitment[p][s].reserved <= ledger[p][s]
        /\ commitment[p][s].approval # 0 => commitment[p][s].approval \in ActiveApprovals(p)
    BY DEF CommitmentsBacked
  <2>2. ActiveApprovals(p)' = ActiveApprovals(p)
    BY DEF ActiveApprovals
  <2>3. got[s] \in Nat
    BY <1>3
  <2>4. CASE p = o /\ s \in lines
    <3> HIDE DEF row, lines, got
    <3> QED BY <2>4, <2>1, <2>2, <2>3, <1>1, <1>4, <1>5, <1>6, <1>7
  <2>5. CASE p = o /\ s \notin lines
    <3> HIDE DEF row, lines, got
    <3> QED BY <2>5, <2>1, <2>2, <2>3, <1>1, <1>4, <1>6
  <2>6. CASE p # o
    BY <2>6, <2>1, <2>2, <1>4, <1>6
  <2> QED BY <2>4, <2>5, <2>6
<1> QED BY <1>9, <1>10, <1>11

(* Reservation retry keeps the row invariant. *)
LEMMA RetryRows ==
  ASSUME RowsInv, NEW o \in Orders, Retry(o, onHand)
  PROVE  RowsInv'
<1>1. PICK a \in ActiveApprovals(o), f \in Fulfillments, give \in [Receipts -> 0..MaxAmount] :
        /\ Regenerate(o, a, f, give, onHand)
        /\ receipt' = [r \in Receipts |-> [receipt[r] EXCEPT !.designated = @ + give[r]]]
        /\ hold' = [hold EXCEPT ![o] = 0]
        /\ order' = [order EXCEPT ![o].status = "approved"]
        /\ UNCHANGED <<onHand, approval>>
  BY DEF Retry
<1>2. receipt' \in [Receipts -> ReceiptRows]
  <2> SUFFICES ASSUME NEW r \in Receipts
               PROVE  [receipt[r] EXCEPT !.designated = @ + give[r]] \in ReceiptRows
    BY <1>1
  <2>1. receipt[r] \in ReceiptRows /\ give[r] \in Nat
    BY ReservationAssumption DEF RowsInv, RowsOK
  <2> QED BY <2>1 DEF ReceiptRows
<1>3. hold' \in [Orders -> 0..MaxFulfillments]
  BY <1>1, ReservationAssumption DEF RowsInv, RowsOK
<1>4. order' \in [Orders -> OrderRows]
  <2>1. order \in [Orders -> OrderRows]
    BY DEF RowsInv, RowsOK
  <2>2. [order EXCEPT ![o].status = "approved"] \in [Orders -> OrderRows]
    BY <2>1, OrderStatusRow
  <2> QED BY <1>1, <2>2
<1> QED BY <1>1, <1>2, <1>3, <1>4, RegenerateRows

(* A step that at most opens or abandons a transaction changes no row. *)
Silent == UNCHANGED <<onHand, stockVars, order, approval, hold, fo, receipt>>

(* The kinds of steps, for arguments by cases. *)
LEMMA NextCases ==
  ASSUME [Next]_vars
  PROVE  \/ Silent
         \/ \E o \in Orders : Approve(o, onHand) \/ Retry(o, onHand) \/ Submit(o)
         \/ \E o \in Orders, q \in Quantities, policy \in Policies :
              CreateDraft(o, q, policy) \/ Revise(o, q, policy)
         \/ \E o \in Orders, q \in [Skus -> Nat] : Cancel(o, q)
         \/ \E f \in Fulfillments : PickRelease(f) \/ Deadline(f)
         \/ \E r \in Receipts, o \in Orders, amount \in 1..MaxAmount :
              RecordReceipt(r, o, amount) \/ RecordCash(r, o, amount)
         \/ \E r \in Receipts : ClearReceipt(r) \/ ReverseReceipt(r)
         \/ \E s \in Skus : StockIn(s) \/ StockOut(s)
<1>1. CASE UNCHANGED vars
  BY <1>1 DEF vars, stockVars, Silent
<1>2. ASSUME NEW o \in Orders, BeginCancel(o) \/ AbandonCancel(o) PROVE Silent
  BY <1>2 DEF BeginCancel, AbandonCancel, Silent
<1>3. ASSUME NEW r \in Receipts, BeginReversal(r) \/ AbandonReversal(r) PROVE Silent
  BY <1>3 DEF BeginReversal, AbandonReversal, Silent
<1>4. Quantities \subseteq [Skus -> Nat]
  BY ReservationAssumption DEF Quantities
<1> QED BY <1>1, <1>2, <1>3, <1>4 DEF Next, Promise, OrderCommand, OtherCommand

(* The rows are an inductive invariant: one step per handler. *)
LEMMA RowsStep == RowsInv /\ FlightInv /\ [Next]_vars => RowsInv'
<1> SUFFICES ASSUME RowsInv, FlightInv, [Next]_vars PROVE RowsInv'
  OBVIOUS
<1>1. CASE Silent
  BY <1>1 DEF RowsInv, RowsOK, FulfillmentsOwned, CommitmentsBacked, ActiveApprovals, Silent,
              stockVars
<1>2. ASSUME NEW o \in Orders, Approve(o, onHand) \/ Retry(o, onHand) \/ Submit(o) PROVE RowsInv'
  BY <1>2, ApproveRows, RetryRows, SubmitRows
<1>3. ASSUME NEW o \in Orders, NEW q \in Quantities, NEW policy \in Policies,
             CreateDraft(o, q, policy) \/ Revise(o, q, policy)
      PROVE  RowsInv'
  BY <1>3, DraftRows, ReviseRows
<1>5. ASSUME NEW o \in Orders, NEW q \in [Skus -> Nat], Cancel(o, q) PROVE RowsInv'
  BY <1>5, CancelRows
<1>6. ASSUME NEW f \in Fulfillments, PickRelease(f) \/ Deadline(f) PROVE RowsInv'
  BY <1>6, PickReleaseRows, DeadlineRows
<1>7. ASSUME NEW r \in Receipts, NEW o \in Orders, NEW amount \in 1..MaxAmount,
             RecordReceipt(r, o, amount) \/ RecordCash(r, o, amount)
      PROVE  RowsInv'
  BY <1>7, RecordRows
<1>8. ASSUME NEW r \in Receipts, ClearReceipt(r) \/ ReverseReceipt(r) PROVE RowsInv'
  BY <1>8, ClearRows, ReverseRows
<1>9. ASSUME NEW s \in Skus, StockIn(s) \/ StockOut(s) PROVE RowsInv'
  BY <1>9, StockRows
<1> QED BY <1>1, <1>2, <1>3, <1>5, <1>6, <1>7, <1>8, <1>9, NextCases

-----------------------------------------------------------------------------
(* Reserved quantities and the ledger move together. *)

(* What a booking may do: give reserved quantity back, or reserve more within
   what is on hand and not reserved. *)
Returned(d) == d \in [Skus -> Int] /\ \A s \in Skus : d[s] <= 0
Granted(d) ==
  /\ d \in [Skus -> Int]
  /\ \A s \in Skus : d[s] >= 0 /\ (d[s] > 0 => reserved[s] + d[s] <= onHand[s])
Booking ==
  /\ \E o \in Orders : \E d : Book(o, d) /\ (Returned(d) \/ Granted(d))
  /\ UNCHANGED onHand
NoBooking == UNCHANGED <<ledger, reserved>>

(* What approval and retry grant is Granted: each reserved quantity that grows
   stays within what is on hand. *)
LEMMA GrantableGranted ==
  ASSUME NEW want \in [Skus -> Nat], onHand \in [Skus -> Nat], reserved \in [Skus -> Nat]
  PROVE  Granted(Grantable(want, onHand))
<1>1. \A s \in Skus : /\ Grantable(want, onHand)[s] \in Nat
                      /\ Grantable(want, onHand)[s] > 0 =>
                           reserved[s] + Grantable(want, onHand)[s] <= onHand[s]
  BY GrantableBounds
<1>2. Grantable(want, onHand) \in [Skus -> Int]
  BY <1>1 DEF Grantable
<1> QED BY <1>1, <1>2 DEF Granted

(* What is booked back for released lines is Returned: no reserved quantity
   grows. *)
LEMMA LinesReturned ==
  ASSUME NEW o \in Orders, NEW S, \A s \in Skus : commitment[o][s].reserved \in Nat
  PROVE  Returned([s \in Skus |-> IF s \in S THEN -commitment[o][s].reserved ELSE 0])
BY DEF Returned

(* A step books something for one order, or leaves both alone. *)
LEMMA BookedStep ==
  ASSUME RowsInv, [Next]_vars
  PROVE  NoBooking \/ Booking
<1> USE DEF RowsInv
<1>a. onHand \in [Skus -> Nat] /\ reserved \in [Skus -> Nat]
  BY DEF RowsOK
<1>b. \A o \in Orders, s \in Skus : commitment[o][s].reserved \in Nat
  BY LedgerNatural
<1>1. ASSUME NEW o \in Orders, Approve(o, onHand) PROVE Booking
  <2>1. order[o].qty \in [Skus -> Nat]
    BY DEF RowsInv, RowsOK, OrderRows
  <2>2. Book(o, Grantable(order[o].qty, onHand)) /\ UNCHANGED onHand
    BY <1>1 DEF Approve
  <2> QED BY <2>1, <2>2, <1>a, GrantableGranted DEF Booking
<1>2. ASSUME NEW o \in Orders, Retry(o, onHand) PROVE Booking
  <2> DEFINE want(a) == [s \in Skus |->
               IF s \in LinesOf(o, a) THEN commitment[o][s].ordered ELSE 0]
  <2>1. \A s \in Skus : commitment[o][s].ordered \in Nat
    BY SMTT(30) DEF RowsInv, RowsOK, CommitmentsBacked, CommitmentRows, Partitioned
  <2>2. PICK a \in ActiveApprovals(o) : Book(o, Grantable(want(a), onHand))
    BY <1>2 DEF Retry, Regenerate
  <2>3. want(a) \in [Skus -> Nat]
    BY <2>1
  <2>4. UNCHANGED onHand
    BY <1>2 DEF Retry
  <2> HIDE DEF want
  <2> QED BY <2>2, <2>3, <2>4, <1>a, GrantableGranted DEF Booking
<1>3. ASSUME NEW o \in Orders, NEW c \in [Skus -> Nat], Cancel(o, c) PROVE Booking
  <2> DEFINE freed == [s \in Skus |-> Lesser(c[s], commitment[o][s].reserved)]
             d == [s \in Skus |-> -freed[s]]
  <2>1. \A s \in Skus : freed[s] \in Nat
    BY LedgerNatural DEF Lesser
  <2>2. Book(o, d) /\ UNCHANGED onHand
    BY <1>3 DEF Cancel
  <2> HIDE DEF freed
  <2>3. Returned(d)
    BY <2>1 DEF Returned
  <2> QED BY <2>2, <2>3 DEF Booking
<1>4. ASSUME NEW o \in Orders, NEW q \in Quantities, NEW policy \in Policies,
             Revise(o, q, policy)
      PROVE  NoBooking \/ Booking
  BY <1>4, <1>b, LinesReturned DEF Revise, Invalidate, NoBooking, Booking, stockVars
<1>5. ASSUME NEW f \in Fulfillments, Deadline(f) PROVE Booking
  <2>1. fo[f].order \in Orders
    BY <1>5 DEF Deadline, FulfillmentsOwned
  <2> QED BY <1>5, <1>b, <2>1, LinesReturned DEF Deadline, Booking
<1>6. CASE \E o \in Orders, q \in Quantities, policy \in Policies : CreateDraft(o, q, policy)
  BY <1>6 DEF CreateDraft, stockVars, NoBooking
<1>7. CASE Silent \/ \E o \in Orders : Submit(o)
  BY <1>7 DEF Submit, Silent, stockVars, NoBooking
<1>8. CASE \E f \in Fulfillments : PickRelease(f)
  BY <1>8 DEF PickRelease, stockVars, NoBooking
<1>9. CASE \E r \in Receipts, o \in Orders, amount \in 1..MaxAmount :
             RecordReceipt(r, o, amount) \/ RecordCash(r, o, amount)
  BY <1>9 DEF RecordReceipt, RecordCash, stockVars, NoBooking
<1>10. CASE \E r \in Receipts : ClearReceipt(r) \/ ReverseReceipt(r)
  BY <1>10 DEF ClearReceipt, ReverseReceipt, stockVars, NoBooking
<1>11. CASE \E s \in Skus : StockIn(s) \/ StockOut(s)
  BY <1>11 DEF StockIn, StockOut, stockVars, NoBooking
<1> QED BY <1>1, <1>2, <1>3, <1>4, <1>5, <1>6, <1>7, <1>8, <1>9, <1>10, <1>11, NextCases

(* Every step keeps the reserved projection equal to the sum of the events. *)
LEMMA LedgerStep ==
  ASSUME RowsInv, ReservedMatchesLedger, RowsInv', [Next]_vars
  PROVE  ReservedMatchesLedger'
<1>1. CASE NoBooking
  BY <1>1 DEF ReservedMatchesLedger, NoBooking
<1>2. CASE Booking
  <2>1. PICK o \in Orders : \E d : Book(o, d) /\ d \in [Skus -> Int]
    BY <1>2 DEF Booking, Returned, Granted
  <2>2. PICK d : Book(o, d) /\ d \in [Skus -> Int]
    BY <2>1
  <2>3. \A p \in Orders, s \in Skus : ledger[p][s] \in Nat /\ ledger'[p][s] \in Nat
    BY LedgerNatural, LedgerStaysNatural
  <2> QED BY <2>2, <2>3, BookMatches DEF RowsInv, RowsOK
<1> QED BY <1>1, <1>2, BookedStep

(* With no events nothing is reserved. *)
LEMMA InitLedger == Init => ReservedMatchesLedger
<1> SUFFICES ASSUME Init, NEW s \in Skus
             PROVE  reserved[s] = Total([o \in Orders |-> ledger[o][s]], Orders)
  BY DEF ReservedMatchesLedger
<1>1. \A o \in Orders : [p \in Orders |-> ledger[p][s]][o] = 0
  BY DEF Init
<1>2. Total([o \in Orders |-> ledger[o][s]], Orders) = 0
  BY <1>1, TotalZero
<1> QED BY <1>2 DEF Init

-----------------------------------------------------------------------------
(* What a step does to one fulfillment order: x before, y after. *)

ReversedReceipts == {r \in Receipts : receipt[r].state = "reversed"}

Born(x, y) ==
  /\ x.status = "none" /\ y.status \in {"reserved", "payment_ready"}
  /\ y.policy = "prepaid" => y.required = y.reserved
Bared(x, y) ==
  /\ x.status # "none" /\ x.backers \cap ReversedReceipts' # {}
  /\ \E h \in [Receipts -> Nat] : y = Bare(x, h)
Voided(x, y) ==
  x.status # "none" /\ y = [Bare(x, HeldBy(x)) EXCEPT !.status = "cancelled"]
Expired(x, y) ==
  /\ x.status \notin {"none", "pick_released", "payment_hold"}
  /\ Unlocked(x.order)
  /\ y = [Bare(x, HeldBy(x)) EXCEPT
            !.status = "payment_hold", !.reserved = 0, !.backorder = @ + x.reserved]
Funding(x, y) ==
  /\ x.status \in {"reserved", "payment_ready"}
  /\ \E r \in Receipts : \E n \in Nat : y = Designated(x, r, n)
(* A cancellation ends, and writes over what it has read of x. *)
Reduced(x, y) ==
  LET seen == cancelling[x.order]
  IN  /\ seen.f # 0 /\ x = fo[seen.f] /\ x.order \in Orders
      /\ ~cancelling'[x.order].open
      /\ \E c \in [Skus -> Nat] : \E freed \in [Skus -> Nat] :
           /\ \A s \in Skus : freed[s] <= c[s]
           /\ y = ReducedFulfillment(ReadFulfillment(seen), c, freed)
Released(x, y) ==
  /\ x.status \in {"reserved", "payment_ready"}
  /\ x.covered >= x.required
  /\ y = ReleasedRow(x)

Change(x, y) ==
  \/ y = x \/ Born(x, y) \/ Bared(x, y) \/ Voided(x, y) \/ Expired(x, y)
  \/ Funding(x, y) \/ Reduced(x, y) \/ Released(x, y)

Changes == \A f \in Fulfillments : Change(fo[f], fo'[f])

(* A created fulfillment order is in the state that Born describes. *)
LEMMA NewIsBorn ==
  ASSUME NEW x, x.status = "none", NEW o, NEW a, NEW policy, NEW got, NEW back
  PROVE  Born(x, NewFulfillment(o, a, policy, got, back))
BY DEF Born, NewFulfillment

(* So is one that a retry creates and pays at once. *)
LEMMA FundedIsBorn ==
  ASSUME NEW x, x.status = "none", NEW o \in Orders, NEW a \in Approvals,
         NEW policy \in Policies \cup {"none"}, NEW got \in [Skus -> Nat],
         NEW back \in [Skus -> Nat], NEW give \in [Receipts -> 0..MaxAmount]
  PROVE  Born(x, Funded(NewFulfillment(o, a, policy, got, back), give))
<1> DEFINE new == NewFulfillment(o, a, policy, got, back)
<1>1. new \in FulfillmentRows /\ (new.policy = "prepaid" => new.required = new.reserved)
  BY NewFulfillmentType DEF NewFulfillment
<1> HIDE DEF new
<1>2. /\ Funded(new, give).status \in {"reserved", "payment_ready"}
      /\ Funded(new, give).policy = new.policy
      /\ Funded(new, give).required = new.required
      /\ Funded(new, give).reserved = new.reserved
  BY <1>1 DEF Funded, FulfillmentRows
<1> QED BY <1>1, <1>2 DEF Born, new

(* A cancellation changes fulfillment orders only as Reduced describes. *)
LEMMA CancelChanges ==
  ASSUME RowsInv, FlightInv, NEW o \in Orders, NEW c \in [Skus -> Nat], Cancel(o, c)
  PROVE  Changes
<1> DEFINE seen == cancelling[o]
           freed == [s \in Skus |-> Lesser(c[s], commitment[o][s].reserved)]
           y == ReducedFulfillment(ReadFulfillment(seen), c, freed)
<1>1. /\ fo' = IF seen.f = 0 THEN fo ELSE [fo EXCEPT ![seen.f] = y]
      /\ cancelling' = [cancelling EXCEPT ![o] = NoCancellation]
  BY DEF Cancel
<1>2. freed \in [Skus -> Nat] /\ \A s \in Skus : freed[s] <= c[s]
  BY LedgerNatural DEF Lesser
<1>3. seen \in CancellationRows /\ CancellationRead(o)
  BY DEF FlightInv
<1>4. CASE seen.f = 0
  BY <1>1, <1>4 DEF Changes, Change
<1>5. CASE seen.f # 0
  <2>1. seen.f \in Fulfillments /\ fo[seen.f].order = o
    BY <1>3, <1>5 DEF CancellationRead, CancellationRows, Fulfillments
  <2>2. ~cancelling'[o].open
    BY <1>1 DEF NoCancellation, FlightInv
  <2> HIDE DEF freed
  <2>3. Reduced(fo[seen.f], y)
    BY <1>2, <1>5, <2>1, <2>2 DEF Reduced
  <2> HIDE DEF y, seen
  <2>4. \A f \in Fulfillments : fo'[f] = IF f = seen.f THEN y ELSE fo[f]
    BY <1>1, <1>5, <2>1 DEF RowsInv, RowsOK
  <2> QED BY <2>3, <2>4 DEF Changes, Change
<1> QED BY <1>4, <1>5

(* A clearing receipt changes fulfillment orders only as Funding describes. *)
LEMMA ClearChanges ==
  ASSUME RowsInv, NEW r \in Receipts, NEW row \in ReceiptRows, Clear(r, row)
  PROVE  Changes
<1> DEFINE f == row.intended
           n == Designation(f, row.amount)
<1>1. f \in 0..MaxFulfillments /\ row.amount \in Nat
  BY DEF ReceiptRows
<1>2. n \in Nat /\ (n # 0 => f \in Fulfillments /\ fo[f].status \in {"reserved", "payment_ready"})
  BY <1>1, DesignationType DEF RowsInv, RowsOK, PaymentTypes
<1>3. fo' = IF n = 0 THEN fo ELSE [fo EXCEPT ![f] = Designated(fo[f], r, n)]
  BY DEF Clear
<1> HIDE DEF n, f
<1>4. CASE n = 0
  BY <1>3, <1>4 DEF Changes, Change
<1>5. CASE n # 0
  <2>1. Funding(fo[f], Designated(fo[f], r, n))
    BY <1>2, <1>5 DEF Funding
  <2>2. \A g \in Fulfillments : fo'[g] = IF g = f THEN Designated(fo[f], r, n) ELSE fo[g]
    BY <1>2, <1>3, <1>5 DEF RowsInv, RowsOK
  <2> QED BY <2>1, <2>2 DEF Changes, Change
<1> QED BY <1>4, <1>5

(* A retry only creates a fulfillment order. *)
LEMMA RetryChanges ==
  ASSUME RowsInv, NEW o \in Orders, Retry(o, onHand)
  PROVE  Changes
<1>1. PICK a \in ActiveApprovals(o), f \in Fulfillments, give \in [Receipts -> 0..MaxAmount] :
        Regenerate(o, a, f, give, onHand)
  BY SMTT(30) DEF Retry
<1> DEFINE want == [s \in Skus |-> IF s \in LinesOf(o, a) THEN commitment[o][s].ordered ELSE 0]
           got == Grantable(want, onHand)
           back == [s \in Skus |-> want[s] - got[s]]
           policy == approval[a].policy
           born == Funded(NewFulfillment(o, a, policy, got, back), give)
<1>2. fo[f].status = "none" /\ fo' = [fo EXCEPT ![f] = born]
  BY <1>1 DEF Regenerate, FreshFulfillment
<1>3. want \in [Skus -> Nat]
  BY DEF RowsInv, RowsOK, CommitmentsBacked, CommitmentRows, Partitioned
<1>4. got \in [Skus -> Nat] /\ back \in [Skus -> Nat]
  <2> HIDE DEF want
  <2>1. \A s \in Skus : got[s] \in Nat /\ got[s] <= want[s]
    BY <1>3, GrantableBounds DEF RowsInv, RowsOK
  <2>2. got \in [Skus -> Nat]
    BY <2>1 DEF Grantable
  <2> HIDE DEF got
  <2> QED BY <1>3, <2>1, <2>2
<1>5. a \in Approvals /\ policy \in Policies \cup {"none"}
  BY DEF ActiveApprovals, RowsInv, RowsOK, ApprovalRows
<1> HIDE DEF want, got, back, policy
<1>6. Born(fo[f], born)
  BY <1>2, <1>4, <1>5, FundedIsBorn
<1> HIDE DEF born
<1>7. \A g \in Fulfillments : fo'[g] = IF g = f THEN born ELSE fo[g]
  BY <1>2 DEF RowsInv, RowsOK
<1> QED BY <1>6, <1>7 DEF Changes, Change

(* A reversal bares fulfillment orders that the reversed receipt backs. *)
LEMMA ReverseChanges ==
  ASSUME RowsInv, FlightInv, NEW r \in Receipts, ReverseReceipt(r)
  PROVE  Changes
<1> DEFINE F == reversing[r].backed
           h == reversing[r].held
<1>1. \A f \in Fulfillments : fo'[f] = IF f \in F THEN Bare(fo[f], h[f]) ELSE fo[f]
  BY DEF ReverseReceipt
<1>2. \A f \in Fulfillments : h[f] \in [Receipts -> Nat]
  BY DEF FlightInv, ReversalRows
<1>3. r \in ReversedReceipts'
  <2> DEFINE without == ReceiptsWithout(reversing[r].held, reversing[r].backed)
  <2>1. receipt' = [without EXCEPT ![r].state = "reversed"]
    BY DEF ReverseReceipt
  <2>2. r \in DOMAIN without /\ without[r] = [receipt[r] EXCEPT !.designated =
                                  @ - GivenBack(reversing[r].held, reversing[r].backed, r)]
    BY DEF ReceiptsWithout
  <2>3. without[r].state = receipt[r].state /\ DOMAIN without[r] = DOMAIN receipt[r]
    BY <2>2 DEF RowsInv, RowsOK, ReceiptRows
  <2>4. receipt'[r].state = "reversed"
    <3> HIDE DEF without
    <3>1. receipt'[r] = [without[r] EXCEPT !.state = "reversed"]
      BY <2>1, <2>2
    <3>2. "state" \in DOMAIN without[r]
      BY <2>3 DEF RowsInv, RowsOK, ReceiptRows
    <3> QED BY <3>1, <3>2
  <2> QED BY <2>4 DEF ReversedReceipts
<1>4. \A f \in F : r \in fo[f].backers
  BY DEF FlightInv
<1> SUFFICES ASSUME NEW f \in Fulfillments PROVE Change(fo[f], fo'[f])
  BY DEF Changes
<1>5. CASE f \notin F
  BY <1>1, <1>5 DEF Change
<1>6. CASE f \in F
  <2>1. EmptyRow(fo[f]) /\ r \in fo[f].backers /\ fo'[f] = Bare(fo[f], h[f])
    BY <1>1, <1>4, <1>6 DEF FlightInv
  <2>2. fo[f].status # "none"
    BY <2>1 DEF EmptyRow
  <2> HIDE DEF h, F
  <2>3. Bared(fo[f], fo'[f])
    BY <1>2, <1>3, <2>1, <2>2 DEF Bared
  <2> QED BY <2>3 DEF Change
<1> QED BY <1>5, <1>6

(* Every step changes each fulfillment order in one of the described ways. *)
LEMMA StepChanges == RowsInv /\ FlightInv /\ [Next]_vars => Changes
<1> SUFFICES ASSUME RowsInv, FlightInv, [Next]_vars PROVE Changes
  OBVIOUS
<1>1. CASE UNCHANGED fo
  BY <1>1 DEF Changes, Change
<1>2. ASSUME NEW o \in Orders, Approve(o, onHand) PROVE Changes
  <2>1. PICK a, policy, got, back : CreateFulfillment(o, a, policy, got, back)
    BY <1>2 DEF Approve
  <2>2. ASSUME NEW f \in Fulfillments, FreshFulfillment(f),
               fo' = [fo EXCEPT ![f] = NewFulfillment(o, a, policy, got, back)]
        PROVE  Changes
    <3>1. Born(fo[f], NewFulfillment(o, a, policy, got, back))
      BY <2>2, NewIsBorn DEF FreshFulfillment
    <3>2. \A g \in Fulfillments :
            fo'[g] = IF g = f THEN NewFulfillment(o, a, policy, got, back) ELSE fo[g]
      BY <2>2 DEF RowsInv, RowsOK
    <3> QED BY <3>1, <3>2 DEF Changes, Change
  <2> QED BY <1>1, <2>1, <2>2 DEF CreateFulfillment
<1>3. ASSUME NEW o \in Orders, Retry(o, onHand) PROVE Changes
  BY <1>3, RetryChanges
<1>4. ASSUME NEW o \in Orders, NEW q \in Quantities, NEW policy \in Policies,
             CreateDraft(o, q, policy) \/ Revise(o, q, policy)
      PROVE  Changes
  <2>1. CASE \E a \in ActiveApprovals(o) : Invalidate(o, a)
    BY <2>1 DEF Invalidate, Changes, Change, Voided
  <2> QED BY <1>1, <1>4, <2>1 DEF CreateDraft, Revise
<1>5. ASSUME NEW o \in Orders, NEW q \in [Skus -> Nat], Cancel(o, q) PROVE Changes
  BY <1>5, CancelChanges
<1>6. ASSUME NEW f \in Fulfillments, PickRelease(f) PROVE Changes
  <2>1. Released(fo[f], ReleasedRow(fo[f]))
    BY <1>6 DEF PickRelease, Paid, Released
  <2>2. \A g \in Fulfillments : fo'[g] = IF g = f THEN ReleasedRow(fo[f]) ELSE fo[g]
    BY <1>6, PickReleaseWrites DEF RowsInv, RowsOK
  <2> QED BY <2>1, <2>2 DEF Changes, Change
<1>7. ASSUME NEW f \in Fulfillments, Deadline(f) PROVE Changes
  <2> DEFINE y == [Bare(fo[f], HeldBy(fo[f])) EXCEPT
               !.status = "payment_hold", !.reserved = 0, !.backorder = @ + fo[f].reserved]
  <2>1. Expired(fo[f], y) /\ fo' = [fo EXCEPT ![f] = y]
    BY <1>7 DEF Deadline, Expired
  <2> HIDE DEF y
  <2> QED BY <2>1, SMTT(30) DEF RowsInv, RowsOK, Changes, Change
<1>8. ASSUME NEW r \in Receipts, NEW o \in Orders, NEW amount \in 1..MaxAmount,
             RecordReceipt(r, o, amount) \/ RecordCash(r, o, amount)
      PROVE  Changes
  <2>1. NewReceipt(o, amount) \in ReceiptRows
    BY NewReceiptType DEF RowsInv
  <2> QED BY <1>1, <1>8, <2>1, ClearChanges DEF RecordReceipt, RecordCash
<1>9. ASSUME NEW r \in Receipts, ClearReceipt(r) \/ ReverseReceipt(r) PROVE Changes
  <2>1. receipt[r] \in ReceiptRows
    BY DEF RowsInv, RowsOK
  <2> QED BY <1>9, <2>1, ClearChanges, ReverseChanges DEF ClearReceipt
<1>11. CASE Silent \/ \E o \in Orders : Submit(o)
  BY <1>1, <1>11 DEF Submit, Silent
<1>12. ASSUME NEW s \in Skus, StockIn(s) \/ StockOut(s) PROVE UNCHANGED fo
  BY <1>12 DEF StockIn, StockOut
<1> QED BY <1>1, <1>2, <1>3, <1>4, <1>5, <1>6, <1>7, <1>8, <1>9, <1>11, <1>12, NextCases

-----------------------------------------------------------------------------
(* What the transactions in progress have read *)

(* A cancellation of o is opened, goes on, or ends; likewise a reversal. *)
LEMMA InFlightStep ==
  ASSUME [Next]_vars
  PROVE  /\ \/ UNCHANGED cancelling
            \/ \E o \in Orders : BeginCancel(o)
            \/ \E o \in Orders : cancelling' = [cancelling EXCEPT ![o] = NoCancellation]
         /\ \/ UNCHANGED reversing
            \/ \E r \in Receipts : BeginReversal(r)
            \/ \E r \in Receipts : reversing' = [reversing EXCEPT ![r] = NoReversal]
<1>1. CASE UNCHANGED inFlight
  BY <1>1 DEF inFlight
<1>2. ASSUME NEW o \in Orders, BeginCancel(o) PROVE UNCHANGED reversing
  BY <1>2, SMTT(30) DEF BeginCancel
<1>3. ASSUME NEW o \in Orders, \/ AbandonCancel(o)
                              \/ \E q \in Quantities : Cancel(o, q)
      PROVE  UNCHANGED reversing /\ cancelling' = [cancelling EXCEPT ![o] = NoCancellation]
  BY <1>3 DEF AbandonCancel, Cancel
<1>4. ASSUME NEW r \in Receipts, BeginReversal(r) PROVE UNCHANGED cancelling
  BY <1>4 DEF BeginReversal
<1>5. ASSUME NEW r \in Receipts, AbandonReversal(r) \/ ReverseReceipt(r)
      PROVE  UNCHANGED cancelling /\ reversing' = [reversing EXCEPT ![r] = NoReversal]
  BY <1>5 DEF AbandonReversal, ReverseReceipt
<1>6. CASE \E o \in Orders : \/ Approve(o, onHand) \/ Retry(o, onHand) \/ Submit(o)
                            \/ \E q \in Quantities, policy \in Policies :
                                 CreateDraft(o, q, policy) \/ Revise(o, q, policy)
  BY <1>1, <1>6, SMTT(30) DEF Approve, Retry, Submit, CreateDraft, Revise
<1>7. CASE \/ \E f \in Fulfillments : PickRelease(f) \/ Deadline(f)
           \/ \E r \in Receipts : ClearReceipt(r)
           \/ \E r \in Receipts, o \in Orders, amount \in 1..MaxAmount :
                RecordReceipt(r, o, amount) \/ RecordCash(r, o, amount)
           \/ \E s \in Skus : StockIn(s) \/ StockOut(s)
  BY <1>1, <1>7 DEF PickRelease, Deadline, ClearReceipt, RecordReceipt, RecordCash, StockIn,
                    StockOut
<1>8. CASE UNCHANGED vars
  BY <1>1, <1>8 DEF vars, inFlight
<1> QED BY <1>2, <1>3, <1>4, <1>5, <1>6, <1>7, <1>8, SMTT(30)
        DEF Next, Promise, OrderCommand, OtherCommand

(* What a cancellation writes over a fulfillment order, and what it keeps. *)
LEMMA ReducedKeeps ==
  ASSUME NEW x \in FulfillmentRows, NEW y, Reduced(x, y), FlightInv
  PROVE  /\ y.order = x.order /\ y.backers = x.backers
         /\ x.status # "none" /\ y.status # "none"
         /\ x.status = "payment_hold" => y.status \in {"payment_hold", "cancelled"}
         /\ cancelling[x.order].open /\ ~cancelling'[x.order].open
<1> DEFINE seen == cancelling[x.order]
           read == ReadFulfillment(seen)
<1>1. /\ seen \in CancellationRows /\ CancellationRead(x.order)
      /\ seen.f # 0 /\ x = fo[seen.f] /\ x.order \in Orders
  BY SMTT(30) DEF Reduced, FlightInv
<1>2. read \in FulfillmentRows /\ read.order = x.order /\ read.backers = x.backers
      /\ read.status = seen.status
  <2>1. PICK row \in CancellationRows : row = seen /\ x = fo[row.f]
    BY <1>1
  <2> DEFINE written == [x EXCEPT !.status = row.status, !.covered = row.covered]
  <2>2. /\ written \in FulfillmentRows /\ written.order = x.order
        /\ written.backers = x.backers /\ written.status = row.status
    BY ReadType, ZenonT(40)
  <2>3. written = read
    BY <2>1 DEF ReadFulfillment
  <2> HIDE DEF written, read
  <2> QED BY <2>1, <2>2, <2>3
<1>3. /\ seen.open /\ x.status # "none" /\ seen.status # "none"
      /\ x.status = "payment_hold" => seen.status = "payment_hold"
  BY <1>1 DEF CancellationRead
<1>4. PICK c \in [Skus -> Nat], freed \in [Skus -> Nat] :
        (\A s \in Skus : freed[s] <= c[s]) /\ y = ReducedFulfillment(read, c, freed)
  BY DEF Reduced
<1>5. ~cancelling'[x.order].open
  BY DEF Reduced
<1> HIDE DEF read, seen
<1>6. /\ y.order = read.order /\ y.backers = read.backers
      /\ y.status \in IF read.status = "payment_ready" THEN {"payment_ready", "reserved", "cancelled"}
                      ELSE {read.status, "cancelled"}
  BY <1>2, <1>4, ReducedType, ZenonT(40)
<1> QED BY <1>2, <1>3, <1>5, <1>6 DEF seen

(* A fulfillment order stays in use, of its order and backed by its receipts.
   While its order is being cancelled, nobody else changes what it demands and
   it does not expire. *)
LEMMA ChangeKeeps ==
  ASSUME NEW x \in FulfillmentRows, NEW y \in FulfillmentRows, Change(x, y), FlightInv,
         x.status # "none"
  PROVE  /\ y.order = x.order /\ y.status # "none" /\ x.backers \subseteq y.backers
         /\ cancelling[x.order].open /\ cancelling'[x.order].open =>
              /\ y.policy = x.policy /\ y.required = x.required /\ y.reserved = x.reserved
              /\ y.status = "payment_hold" => x.status = "payment_hold"
<1>1. CASE y = x \/ Born(x, y)
  BY <1>1 DEF Born
<1>2. CASE Bared(x, y)
  <2>1. PICK h \in [Receipts -> Nat] : y = Bare(x, h)
    BY <1>2 DEF Bared
  <2> QED BY <2>1, BareType
<1>3. CASE Voided(x, y) \/ Expired(x, y)
  <2>1. PICK bare \in FulfillmentRows :
          /\ bare = Bare(x, HeldBy(x))
          /\ bare.order = x.order /\ bare.backers = x.backers /\ bare.policy = x.policy
          /\ bare.required = x.required /\ bare.reserved = x.reserved
    BY BareType, HeldByType
  <2>2. CASE Voided(x, y)
    <3>1. y = [bare EXCEPT !.status = "cancelled"]
      BY <2>1, <2>2 DEF Voided
    <3>2. /\ y.status = "cancelled" /\ y.policy = bare.policy /\ y.order = bare.order
          /\ y.backers = bare.backers
          /\ y.required = bare.required /\ y.reserved = bare.reserved
      BY <3>1 DEF FulfillmentRows
    <3> QED BY <2>1, <3>2
  <2>3. CASE Expired(x, y)
    <3>1. PICK back : y = [bare EXCEPT !.status = "payment_hold", !.reserved = 0,
                                       !.backorder = back]
      BY <2>1, <2>3 DEF Expired
    <3>2. y.status = "payment_hold" /\ y.order = bare.order /\ y.backers = bare.backers
      BY <3>1 DEF FulfillmentRows
    <3>3. ~cancelling[x.order].open
      BY <2>3 DEF Expired, Unlocked
    <3> QED BY <2>1, <3>2, <3>3
  <2> QED BY <1>3, <2>2, <2>3
<1>4. CASE Funding(x, y)
  <2>1. PICK r \in Receipts, n \in Nat : y = Designated(x, r, n)
    BY <1>4 DEF Funding
  <2>2. y.order = x.order /\ y.status \in {"reserved", "payment_ready"}
    BY <2>1, DesignatedType
  <2>3. /\ y.policy = x.policy /\ y.required = x.required
        /\ y.reserved = x.reserved /\ y.backers = x.backers \cup {r}
    BY <2>1 DEF Designated, FulfillmentRows
  <2> QED BY <2>2, <2>3
<1>5. CASE Reduced(x, y)
  BY <1>5, ReducedKeeps
<1>6. CASE Released(x, y)
  <2>1. y.order = x.order /\ y.status = "pick_released" /\ y.policy = x.policy
        /\ y.required = x.required /\ y.reserved = x.reserved /\ y.backers = x.backers
    BY <1>6 DEF Released, ReleasedRow, FulfillmentRows
  <2> QED BY <2>1
<1> QED BY <1>1, <1>2, <1>3, <1>4, <1>5, <1>6 DEF Change

(* Nobody works on anything at first. *)
LEMMA InitFlight == Init => FlightInv
<1> SUFFICES ASSUME Init PROVE FlightInv
  OBVIOUS
<1>1. /\ cancelling = [o \in Orders |-> NoCancellation]
      /\ reversing = [r \in Receipts |-> NoReversal]
      /\ fo = [f \in Fulfillments |-> NoFulfillment]
  BY DEF Init
<1>2. NoCancellation \in CancellationRows /\ NoCancellation.f = 0
  BY ReservationAssumption DEF NoCancellation, CancellationRows
<1>3. NoReversal \in ReversalRows /\ NoReversal.backed = {}
  BY DEF NoReversal, ReversalRows
<1>4. EmptyRow(NoFulfillment)
  BY DEF EmptyRow, NoFulfillment
<1> QED BY <1>1, <1>2, <1>3, <1>4 DEF FlightInv, CancellationRead

(* A cancellation has read what it may still go by. *)
LEMMA CancellationStep ==
  ASSUME RowsInv, FlightInv, RowsInv', [Next]_vars
  PROVE  /\ cancelling' \in [Orders -> CancellationRows]
         /\ \A o \in Orders : CancellationRead(o)'
<1>1. Changes /\ fo \in [Fulfillments -> FulfillmentRows] /\ fo' \in [Fulfillments -> FulfillmentRows]
  BY StepChanges DEF RowsInv, RowsOK
<1>2. ASSUME NEW o \in Orders, cancelling'[o] = cancelling[o]
      PROVE  CancellationRead(o)'
  <2>1. PICK seen : seen = cancelling[o]
    OBVIOUS
  <2>2. CASE seen.f = 0
    BY <1>2, <2>1, <2>2 DEF CancellationRead
  <2>3. CASE seen.f # 0
    <3>1. seen \in CancellationRows /\ seen.f \in Fulfillments
      BY <2>1, <2>3 DEF FlightInv, CancellationRows, Fulfillments
    <3>2. PICK x \in FulfillmentRows, y \in FulfillmentRows :
            x = fo[seen.f] /\ y = fo'[seen.f] /\ Change(x, y)
      BY <1>1, <3>1 DEF Changes
    <3>3. /\ seen.open /\ x.order = o /\ x.status # "none" /\ seen.status # "none"
          /\ x.status = "payment_hold" => seen.status = "payment_hold"
      BY <2>1, <2>3, <3>2 DEF FlightInv, CancellationRead
    <3>4. cancelling[x.order].open /\ cancelling'[x.order].open
      BY <1>2, <2>1, <3>3
    <3>5. /\ y.order = x.order /\ y.status # "none"
          /\ y.status = "payment_hold" => x.status = "payment_hold"
      BY <3>2, <3>3, <3>4, ChangeKeeps
    <3> QED BY <1>2, <2>1, <3>2, <3>3, <3>5 DEF CancellationRead
  <2> QED BY <2>2, <2>3
<1>3. NoCancellation \in CancellationRows /\ NoCancellation.f = 0
  BY ReservationAssumption DEF NoCancellation, CancellationRows
<1>4. CASE UNCHANGED cancelling
  BY <1>2, <1>4 DEF FlightInv
<1>5. ASSUME NEW o \in Orders, cancelling' = [cancelling EXCEPT ![o] = NoCancellation]
      PROVE  /\ cancelling' \in [Orders -> CancellationRows]
             /\ \A p \in Orders : CancellationRead(p)'
  <2>1. \A p \in Orders : cancelling'[p] = IF p = o THEN NoCancellation ELSE cancelling[p]
    BY <1>5 DEF FlightInv
  <2> QED BY <1>2, <1>3, <1>5, <2>1 DEF FlightInv, CancellationRead
<1>6. ASSUME NEW o \in Orders, BeginCancel(o)
      PROVE  /\ cancelling' \in [Orders -> CancellationRows]
             /\ \A p \in Orders : CancellationRead(p)'
  <2> DEFINE F == {g \in Fulfillments :
                     fo[g].order = o /\ fo[g].status \notin {"none", "cancelled"}}
             f == LatestOf(F)
             row == IF f = 0 THEN [NoCancellation EXCEPT !.open = TRUE]
                    ELSE [open |-> TRUE, f |-> f, status |-> fo[f].status,
                          covered |-> fo[f].covered]
  <2>1. /\ cancelling' = [cancelling EXCEPT ![o] = row]
        /\ UNCHANGED fo
    BY <1>6 DEF BeginCancel
  <2>2. f \in F \cup {0}
    BY LatestType
  <2>3. f # 0 => /\ f \in Fulfillments /\ f \in 0..MaxFulfillments
                 /\ fo[f].order = o /\ fo[f].status \notin {"none", "cancelled"}
                 /\ fo[f] \in FulfillmentRows
    <3>1. \A g \in F : g \in Fulfillments /\ g \in 0..MaxFulfillments
      BY ReservationAssumption DEF Fulfillments
    <3>2. \A g \in F : /\ fo[g].order = o /\ fo[g].status \notin {"none", "cancelled"}
                       /\ fo[g] \in FulfillmentRows
      BY <1>1
    <3> HIDE DEF F, f
    <3> QED BY <2>2, <3>1, <3>2
  <2> HIDE DEF f
  <2>4. /\ row \in CancellationRows /\ row.open /\ row.f = f
        /\ f # 0 => row.status = fo[f].status
    <3>1. CASE f = 0
      BY <1>3, <3>1 DEF CancellationRows, NoCancellation
    <3>2. CASE f # 0
      BY <2>3, <3>2 DEF CancellationRows, FulfillmentRows
    <3> QED BY <3>1, <3>2
  <2> HIDE DEF row
  <2>5. \A p \in Orders : cancelling'[p] = IF p = o THEN row ELSE cancelling[p]
    BY <2>1 DEF FlightInv
  <2>6. CancellationRead(o)'
    <3>1. cancelling'[o] = row
      BY <2>5
    <3> QED BY <2>1, <2>3, <2>4, <3>1 DEF CancellationRead
  <2>7. cancelling' \in [Orders -> CancellationRows]
    BY <2>1, <2>4 DEF FlightInv
  <2> QED BY <1>2, <2>5, <2>6, <2>7
<1> QED BY <1>4, <1>5, <1>6, InFlightStep

(* So has a reversal. *)
LEMMA ReversalStep ==
  ASSUME RowsInv, FlightInv, RowsInv', [Next]_vars
  PROVE  /\ reversing' \in [Receipts -> ReversalRows]
         /\ \A r \in Receipts : \A f \in reversing'[r].backed : r \in fo'[f].backers
<1>1. Changes /\ fo \in [Fulfillments -> FulfillmentRows] /\ fo' \in [Fulfillments -> FulfillmentRows]
  BY StepChanges DEF RowsInv, RowsOK
<1>2. ASSUME NEW f \in Fulfillments, NEW r \in fo[f].backers PROVE r \in fo'[f].backers
  <2>1. PICK x \in FulfillmentRows, y \in FulfillmentRows :
          x = fo[f] /\ y = fo'[f] /\ Change(x, y)
    BY <1>1 DEF Changes
  <2>2. x.status # "none"
    BY <2>1, <1>2 DEF FlightInv, EmptyRow
  <2>3. x.backers \subseteq y.backers
    BY <2>1, <2>2, ChangeKeeps
  <2> QED BY <2>1, <2>3
<1>3. NoReversal \in ReversalRows /\ NoReversal.backed = {}
  BY DEF NoReversal, ReversalRows
<1>4. CASE UNCHANGED reversing
  BY <1>2, <1>4 DEF FlightInv, ReversalRows
<1>5. ASSUME NEW r \in Receipts, reversing' = [reversing EXCEPT ![r] = NoReversal]
      PROVE  /\ reversing' \in [Receipts -> ReversalRows]
             /\ \A q \in Receipts : \A f \in reversing'[q].backed : q \in fo'[f].backers
  <2>1. \A q \in Receipts : reversing'[q] = IF q = r THEN NoReversal ELSE reversing[q]
    BY <1>5 DEF FlightInv
  <2>2. \A q \in Receipts : reversing[q].backed \subseteq Fulfillments
    BY DEF FlightInv, ReversalRows
  <2>3. reversing' \in [Receipts -> ReversalRows]
    BY <1>3, <1>5 DEF FlightInv
  <2> QED BY <1>2, <1>3, <2>1, <2>2, <2>3 DEF FlightInv
<1>6. ASSUME NEW r \in Receipts, BeginReversal(r)
      PROVE  /\ reversing' \in [Receipts -> ReversalRows]
             /\ \A q \in Receipts : \A f \in reversing'[q].backed : q \in fo'[f].backers
  <2> DEFINE F == {f \in Fulfillments : r \in fo[f].backers}
             held == [f \in Fulfillments |->
                        IF f \in F THEN HeldBy(fo[f]) ELSE [x \in Receipts |-> 0]]
             row == [open |-> TRUE, backed |-> F, held |-> held]
  <2>1. reversing' = [reversing EXCEPT ![r] = row] /\ UNCHANGED fo
    BY <1>6 DEF BeginReversal
  <2>2. \A f \in Fulfillments : HeldBy(fo[f]) \in [Receipts -> Nat]
    <3>1. \A f \in Fulfillments : \A q \in Receipts : HeldBy(fo[f])[q] \in Nat
      BY <1>1, HeldByType
    <3> QED BY <3>1 DEF HeldBy
  <2>3. held \in [Fulfillments -> [Receipts -> Nat]]
    BY <2>2
  <2>4. F \in SUBSET Fulfillments /\ \A f \in F : r \in fo[f].backers
    OBVIOUS
  <2> HIDE DEF F, held
  <2>5. row \in ReversalRows /\ row.backed = F
    BY <2>3, <2>4 DEF ReversalRows
  <2> HIDE DEF row
  <2>6. \A q \in Receipts : reversing'[q] = IF q = r THEN row ELSE reversing[q]
    BY <2>1 DEF FlightInv
  <2>7. reversing' \in [Receipts -> ReversalRows]
    BY <2>1, <2>5 DEF FlightInv
  <2> QED BY <2>1, <2>4, <2>5, <2>6, <2>7 DEF FlightInv
<1> QED BY <1>4, <1>5, <1>6, InFlightStep

(* Every step keeps the invariant of what is in progress. *)
LEMMA FlightStep ==
  ASSUME RowsInv, FlightInv, RowsInv', [Next]_vars
  PROVE  FlightInv'
<1>1. ASSUME NEW f \in Fulfillments PROVE EmptyRow(fo[f])'
  <2>1. PICK x \in FulfillmentRows, y \in FulfillmentRows :
          x = fo[f] /\ y = fo'[f] /\ Change(x, y)
    BY StepChanges DEF Changes, RowsInv, RowsOK
  <2>2. EmptyRow(x)
    BY <2>1 DEF FlightInv
  <2>3. x.status # "none" => y.status # "none"
    BY <2>1, ChangeKeeps
  <2>4. x.status = "none" => y = x \/ y.status # "none"
    <3>1. ~Reduced(x, y) \/ x.status # "none"
      BY ReducedKeeps
    <3> QED BY <2>1, <3>1 DEF Change, Born, Bared, Voided, Expired, Funding, Released
  <2>5. EmptyRow(y)
    BY <2>2, <2>3, <2>4 DEF EmptyRow
  <2> QED BY <2>1, <2>5
<1> QED BY <1>1, CancellationStep, ReversalStep DEF FlightInv

-----------------------------------------------------------------------------
(* Theorems *)

(* However approvals, revisions, cancellations, deadlines, retries, payments
   and stock moves interleave, StockInv holds. *)
THEOREM StockInvariant == Spec => []StockInv
<1>1. Init => StockInv
  BY InitRows, InitFlight, InitLedger DEF StockInv
<1>2. StockInv /\ [Next]_vars => StockInv'
  BY RowsStep, FlightStep, LedgerStep DEF StockInv
<1> QED BY <1>1, <1>2, PTL DEF Spec

(* Every row a handler writes is well formed; in particular no reserved
   quantity is ever negative. *)
THEOREM TypeCorrect == Spec => []TypeOK
<1>1. StockInv => TypeOK
  BY DEF StockInv, RowsInv, RowsOK, FlightInv, TypeOK
<1> QED BY <1>1, StockInvariant, PTL

(* The reserved projection always is what the reservation events add up to:
   approval, cancellation, invalidation, deadline and retry never post one
   without the other. *)
THEOREM ReservedIsLedger == Spec => []ReservedMatchesLedger
<1>1. StockInv => ReservedMatchesLedger
  BY DEF StockInv
<1> QED BY <1>1, StockInvariant, PTL

(* Commitments partition their lines, claim nothing the ledger does not hold
   and fall with their approval. *)
THEOREM CommitmentsAreBacked == Spec => []CommitmentsBacked
<1>1. StockInv => CommitmentsBacked
  BY DEF StockInv, RowsInv
<1> QED BY <1>1, StockInvariant, PTL

(* A handler promises, withdraws or restocks, or does nothing sales can see. *)
LEMMA PromiseStep ==
  ASSUME StockInv, StockInv', [Next]_vars
  PROVE  [ATP!AtpNext]_(ATP!atpVars)
<1>1. /\ onHand' \in [Skus -> Nat] /\ reserved' \in [Skus -> Nat]
      /\ reserved \in [Skus -> Nat] /\ ledger \in [Orders -> [Skus -> Int]]
  BY DEF StockInv, RowsInv, RowsOK
<1>3. CASE NoBooking
  BY <1>1, <1>3 DEF NoBooking, ATP!AtpNext, ATP!Restock
<1>4. CASE Booking
  <2>1. PICK o \in Orders : \E d : Book(o, d) /\ (Returned(d) \/ Granted(d))
    BY <1>4 DEF Booking
  <2>2. PICK d : Book(o, d) /\ (Returned(d) \/ Granted(d))
    BY <2>1
  <2>3. \A s \in Skus : reserved'[s] = reserved[s] + d[s] /\ d[s] \in Int
    BY <2>2 DEF Book, Returned, Granted
  <2>4. CASE Returned(d)
    <3>1. \A s \in Skus : reserved'[s] <= reserved[s]
      BY <1>1, <2>3, <2>4 DEF Returned
    <3> QED BY <1>1, <1>4, <3>1 DEF Booking, ATP!AtpNext, ATP!Withdraw
  <2>5. CASE Granted(d)
    <3>1. \A s \in Skus : reserved'[s] # reserved[s] =>
                            reserved[s] < reserved'[s] /\ reserved'[s] <= onHand[s]
      BY <1>1, <2>3, <2>5 DEF Granted
    <3> QED BY <1>1, <1>4, <3>1 DEF Booking, ATP!AtpNext, ATP!Promise
  <2> QED BY <2>2, <2>4, <2>5
<1> QED BY <1>3, <1>4, BookedStep DEF StockInv

(* The sales side implements the abstract promise: stock is reserved only out
   of what is on hand and unreserved at that moment. *)
THEOREM SalesPromiseAvailable == Spec => PromisesOnlyAvailable
<1>1. Init => ATP!AtpInit
  BY ReservationAssumption DEF Init, ATP!AtpInit
<1>2. StockInv /\ StockInv' /\ [Next]_vars => [ATP!AtpNext]_(ATP!atpVars)
  BY PromiseStep
<1> QED BY <1>1, <1>2, StockInvariant, PTL DEF Spec, PromisesOnlyAvailable, ATP!AtpSpec

-----------------------------------------------------------------------------
(* Expiry and payment of fulfillment orders *)

(* No step takes an expired generation anywhere but to cancelled. *)
LEMMA ExpiredStep ==
  ASSUME NEW x \in FulfillmentRows, NEW y, Change(x, y), FlightInv, x.status = "payment_hold"
  PROVE  y.status \in {"payment_hold", "cancelled"}
<1>1. CASE y = x \/ Born(x, y) \/ Expired(x, y) \/ Funding(x, y) \/ Released(x, y)
  BY <1>1 DEF Born, Expired, Funding, Released
<1>2. CASE Bared(x, y)
  BY <1>2, BareType DEF Bared
<1>3. CASE Voided(x, y)
  <2>1. PICK bare \in FulfillmentRows : y = [bare EXCEPT !.status = "cancelled"]
    BY <1>3, BareType, HeldByType DEF Voided
  <2> QED BY <2>1 DEF FulfillmentRows
<1>4. CASE Reduced(x, y)
  BY <1>4, ReducedKeeps
<1> QED BY <1>1, <1>2, <1>3, <1>4 DEF Change

(* An expired generation is never revived: no payment, retry, cancellation or
   second deadline makes it collect or release again. *)
THEOREM ExpiredIsFinal == Spec => ExpiredStaysExpired
<1>1. StockInv /\ [Next]_vars =>
        [\A f \in Fulfillments : fo[f].status = "payment_hold" =>
            fo'[f].status \in {"payment_hold", "cancelled"}]_vars
  BY StepChanges, ExpiredStep DEF StockInv, RowsInv, RowsOK, Changes
<1> QED BY <1>1, StockInvariant, PTL DEF Spec, ExpiredStaysExpired

(* ReleasedStaysPaid is not inductive: a generation must also demand at least
   what it reserves, or its release would not ask enough; and what a
   cancellation has read, and will write back, must be as good.  R are the
   receipts that are reversed. *)
PaidRow(x, R) ==
  x.policy = "prepaid" =>
    /\ x.required >= x.reserved
    /\ x.status = "pick_released" => x.covered >= x.reserved \/ x.backers \cap R # {}

PaidInv ==
  /\ \A f \in Fulfillments : PaidRow(fo[f], ReversedReceipts)
  /\ \A o \in Orders :
       cancelling[o].f # 0 => PaidRow(ReadFulfillment(cancelling[o]), ReversedReceipts)

(* A cancellation takes at most as much off what is covered as it frees. *)
LEMMA ReducedPaid ==
  ASSUME NEW x \in FulfillmentRows, NEW c \in [Skus -> Nat], NEW freed \in [Skus -> Nat],
         NEW R, PaidRow(x, R)
  PROVE  PaidRow(ReducedFulfillment(x, c, freed), R)
<1> DEFINE priced == {s \in Skus : x.lines[s] > 0}
           value == Total(freed, priced)
           all == Total(freed, Skus)
           y == ReducedFulfillment(x, c, freed)
<1>1. value \in Nat /\ all \in Nat /\ value <= all
  <2>1. priced \in SUBSET Skus /\ IsFiniteSet(priced) /\ IsFiniteSet(Skus)
    BY ConstantsFinite
  <2> HIDE DEF priced
  <2>2. value \in Nat /\ all \in Nat
    BY <2>1, TotalType
  <2>3. value <= all
    BY <2>1, TotalSubset
  <2> QED BY <2>2, <2>3
<1>2. /\ y.policy = x.policy
      /\ y.required = x.required
      /\ y.reserved = Positive(x.reserved - all)
      /\ y.covered = Lesser(x.covered, Positive(x.required - value))
      /\ y.backers = x.backers
      /\ y.status = "pick_released" => x.status = "pick_released"
  BY DEF ReducedFulfillment, FulfillmentRows
<1> HIDE DEF value, all, y
<1>3. x.required \in Nat /\ x.reserved \in Nat /\ x.covered \in Nat
  BY DEF FulfillmentRows
<1>4. CASE x.policy # "prepaid"
  BY <1>2, <1>4 DEF PaidRow, y
<1>5. CASE x.policy = "prepaid"
  <2>1. y.required >= y.reserved
    BY <1>1, <1>2, <1>3, <1>5 DEF PaidRow, Positive
  <2>2. ASSUME y.status = "pick_released", x.covered >= x.reserved
        PROVE  y.covered >= y.reserved
    BY <1>1, <1>2, <1>3, <1>5, <2>2 DEF PaidRow, Positive, Lesser
  <2>3. y.status = "pick_released" => x.covered >= x.reserved \/ y.backers \cap R # {}
    BY <1>2, <1>5 DEF PaidRow
  <2> QED BY <2>1, <2>2, <2>3 DEF PaidRow, y
<1> QED BY <1>4, <1>5

(* More reversed receipts never hurt. *)
LEMMA PaidMonotone ==
  ASSUME NEW x, NEW y, NEW R, NEW S, R \subseteq S, PaidRow(x, R),
         y.policy = x.policy, y.required = x.required, y.reserved = x.reserved,
         y.covered = x.covered, y.status = x.status, x.backers \subseteq y.backers
  PROVE  PaidRow(y, S)
BY DEF PaidRow

(* A reversed receipt stays reversed. *)
LEMMA ReversedStays ==
  ASSUME RowsInv, [Next]_vars
  PROVE  ReversedReceipts \subseteq ReversedReceipts'
<1> USE DEF RowsInv, RowsOK
<1> SUFFICES ASSUME NEW r \in Receipts, receipt[r].state = "reversed"
             PROVE  receipt'[r].state = "reversed"
  BY DEF ReversedReceipts
<1>1. CASE UNCHANGED receipt
  BY <1>1
<1>2. ASSUME NEW h, NEW F, receipt' = ReceiptsWithout(h, F) PROVE receipt'[r].state = "reversed"
  BY <1>2 DEF ReceiptsWithout, ReceiptRows
<1>3. ASSUME NEW q \in Receipts, NEW row, Clear(q, row), receipt[q].state # "reversed"
      PROVE  receipt'[r].state = "reversed"
  BY <1>3 DEF Clear
<1>4. ASSUME NEW o \in Orders, Approve(o, onHand) \/ Retry(o, onHand) \/ Submit(o)
      PROVE  receipt'[r].state = "reversed"
  <2>1. CASE Approve(o, onHand) \/ Submit(o)
    BY <1>1, <2>1 DEF Approve, Submit
  <2>2. CASE Retry(o, onHand)
    BY <2>2 DEF Retry, ReceiptRows
  <2> QED BY <1>4, <2>1, <2>2
<1>5. ASSUME NEW o \in Orders, NEW q \in Quantities, NEW policy \in Policies,
             CreateDraft(o, q, policy) \/ Revise(o, q, policy)
      PROVE  receipt'[r].state = "reversed"
  <2>1. CASE \E a \in ActiveApprovals(o) : Invalidate(o, a)
    BY <1>2, <2>1 DEF Invalidate
  <2> QED BY <1>1, <1>5, <2>1 DEF CreateDraft, Revise
<1>6. ASSUME NEW o \in Orders, NEW q \in [Skus -> Nat], Cancel(o, q)
      PROVE  receipt'[r].state = "reversed"
  BY <1>1, <1>6, ZenonT(40) DEF Cancel
<1>7. ASSUME NEW f \in Fulfillments, PickRelease(f) \/ Deadline(f)
      PROVE  receipt'[r].state = "reversed"
  BY <1>1, <1>2, <1>7 DEF PickRelease, Deadline
<1>8. ASSUME NEW q \in Receipts, NEW o \in Orders, NEW amount \in 1..MaxAmount,
             RecordReceipt(q, o, amount) \/ RecordCash(q, o, amount)
      PROVE  receipt'[r].state = "reversed"
  BY <1>3, <1>8 DEF RecordReceipt, RecordCash
<1>9. ASSUME NEW q \in Receipts, ClearReceipt(q) PROVE receipt'[r].state = "reversed"
  BY <1>3, <1>9 DEF ClearReceipt
<1>10. ASSUME NEW q \in Receipts, ReverseReceipt(q) PROVE receipt'[r].state = "reversed"
  <2>1. PICK h, F : receipt' = [ReceiptsWithout(h, F) EXCEPT ![q].state = "reversed"]
    BY <1>10 DEF ReverseReceipt
  <2> QED BY <2>1 DEF ReceiptsWithout, ReceiptRows
<1>11. ASSUME Silent \/ \E s \in Skus : StockIn(s) \/ StockOut(s) PROVE UNCHANGED receipt
  BY <1>11 DEF Silent, StockIn, StockOut
<1> QED BY <1>1, <1>4, <1>5, <1>6, <1>7, <1>8, <1>9, <1>10, <1>11, NextCases

(* Every step keeps released prepaid fulfillment orders paid, if what a
   cancellation has read of them was. *)
LEMMA PaidStep ==
  ASSUME NEW x \in FulfillmentRows, NEW y \in FulfillmentRows, Change(x, y), FlightInv,
         PaidInv, PaidRow(x, ReversedReceipts), ReversedReceipts \subseteq ReversedReceipts'
  PROVE  PaidRow(y, ReversedReceipts')
<1>1. /\ x.required \in Nat /\ x.reserved \in Nat /\ x.covered \in Nat
      /\ y.required \in Nat /\ y.reserved \in Nat /\ y.covered \in Nat
  BY DEF FulfillmentRows
<1>2. CASE y = x
  BY <1>2, PaidMonotone
<1>3. CASE Born(x, y)
  BY <1>1, <1>3 DEF Born, PaidRow
<1>4. CASE Bared(x, y) \/ Voided(x, y) \/ Expired(x, y)
  <2>1. /\ y.policy = x.policy /\ y.required = x.required
        /\ y.reserved = x.reserved \/ y.reserved = 0
        /\ y.status = "pick_released" => y.backers \cap ReversedReceipts' # {}
    <3>1. CASE Bared(x, y)
      <4>1. PICK h \in [Receipts -> Nat] : y = Bare(x, h)
        BY <3>1 DEF Bared
      <4>2. y.policy = x.policy /\ y.required = x.required /\ y.reserved = x.reserved
            /\ y.backers = x.backers
        BY <4>1, BareType
      <4> QED BY <3>1, <4>2 DEF Bared
    <3>2. PICK bare \in FulfillmentRows :
            /\ bare = Bare(x, HeldBy(x))
            /\ bare.policy = x.policy /\ bare.required = x.required
            /\ bare.reserved = x.reserved
      BY BareType, HeldByType
    <3>3. CASE Voided(x, y)
      <4>1. y = [bare EXCEPT !.status = "cancelled"]
        BY <3>2, <3>3 DEF Voided
      <4>2. /\ y.status = "cancelled" /\ y.policy = bare.policy
            /\ y.required = bare.required /\ y.reserved = bare.reserved
        BY <4>1 DEF FulfillmentRows
      <4> QED BY <3>2, <4>2
    <3>4. CASE Expired(x, y)
      <4>1. PICK back : y = [bare EXCEPT !.status = "payment_hold", !.reserved = 0,
                                         !.backorder = back]
        BY <3>2, <3>4 DEF Expired
      <4>2. /\ y.status = "payment_hold" /\ y.policy = bare.policy
            /\ y.required = bare.required /\ y.reserved = 0
        BY <4>1 DEF FulfillmentRows
      <4> QED BY <3>2, <4>2
    <3> QED BY <1>4, <3>1, <3>3, <3>4
  <2> QED BY <1>1, <2>1 DEF PaidRow
<1>5. CASE Funding(x, y)
  <2>1. y.status # "pick_released" /\ y.policy = x.policy /\ y.required = x.required
        /\ y.reserved = x.reserved
    BY <1>5 DEF Funding, Designated, FulfillmentRows
  <2> QED BY <2>1 DEF PaidRow
<1>6. CASE Reduced(x, y)
  <2>1. PICK seen \in CancellationRows : seen = cancelling[x.order]
    BY <1>6 DEF Reduced, FlightInv
  <2>2. x.order \in Orders /\ seen.f # 0 /\ x = fo[seen.f]
    BY <1>6, <2>1 DEF Reduced
  <2>3. PICK c \in [Skus -> Nat], freed \in [Skus -> Nat] :
          y = ReducedFulfillment(ReadFulfillment(seen), c, freed)
    BY <1>6, <2>1, SMTT(30) DEF Reduced
  <2>4. PaidRow(ReadFulfillment(seen), ReversedReceipts)
    BY <2>1, <2>2 DEF PaidInv
  <2>5. PICK read \in FulfillmentRows : read = ReadFulfillment(seen)
    BY <2>2, ReadType DEF ReadFulfillment
  <2>6. PaidRow(y, ReversedReceipts)
    BY <2>3, <2>4, <2>5, ReducedPaid
  <2> QED BY <2>6, PaidMonotone
<1>7. CASE Released(x, y)
  <2>1. y.policy = x.policy /\ y.required = x.required /\ y.reserved = x.reserved
        /\ y.covered = x.covered /\ x.covered >= x.required
    BY <1>7 DEF Released, ReleasedRow, FulfillmentRows
  <2> QED BY <1>1, <2>1 DEF PaidRow
<1> QED BY <1>2, <1>3, <1>4, <1>5, <1>6, <1>7 DEF Change

(* What a cancellation has read stays as good while it holds its order. *)
LEMMA ReadPaidStep ==
  ASSUME RowsInv, FlightInv, RowsInv', PaidInv, [Next]_vars, NEW o \in Orders,
         cancelling'[o].f # 0
  PROVE  PaidRow(ReadFulfillment(cancelling[o]), ReversedReceipts)'
<1>1. /\ Changes /\ ReversedReceipts \subseteq ReversedReceipts'
      /\ fo \in [Fulfillments -> FulfillmentRows] /\ fo' \in [Fulfillments -> FulfillmentRows]
  BY StepChanges, ReversedStays DEF RowsInv, RowsOK
<1>2. CASE cancelling'[o] = cancelling[o]
  <2>1. PICK seen \in CancellationRows :
          seen = cancelling[o] /\ seen = cancelling'[o] /\ seen.f # 0 /\ seen.f \in Fulfillments
    BY <1>2 DEF FlightInv, CancellationRows, Fulfillments
  <2>2. PICK x \in FulfillmentRows, y \in FulfillmentRows :
          x = fo[seen.f] /\ y = fo'[seen.f] /\ Change(x, y)
    BY <1>1, <2>1 DEF Changes
  <2>3. x.order = o /\ x.status # "none" /\ seen.open
    BY <2>1, <2>2, ZenonT(40) DEF FlightInv, CancellationRead
  <2>4. /\ y.policy = x.policy /\ y.required = x.required /\ y.reserved = x.reserved
        /\ x.backers \subseteq y.backers
    BY <1>2, <2>1, <2>2, <2>3, ChangeKeeps
  <2> DEFINE before == [x EXCEPT !.status = seen.status, !.covered = seen.covered]
             after == [y EXCEPT !.status = seen.status, !.covered = seen.covered]
  <2>5. PaidRow(before, ReversedReceipts)
    BY <2>1, <2>2 DEF PaidInv, ReadFulfillment
  <2>6. /\ before.policy = x.policy /\ before.required = x.required
        /\ before.reserved = x.reserved /\ before.backers = x.backers
        /\ before.status = seen.status /\ before.covered = seen.covered
    BY ReadType
  <2>7. /\ after.policy = y.policy /\ after.required = y.required
        /\ after.reserved = y.reserved /\ after.backers = y.backers
        /\ after.status = seen.status /\ after.covered = seen.covered
    BY ReadType
  <2>8. after = ReadFulfillment(cancelling[o])'
    BY <2>1, <2>2 DEF ReadFulfillment
  <2> HIDE DEF before, after
  <2>9. PaidRow(after, ReversedReceipts')
    BY <1>1, <2>4, <2>5, <2>6, <2>7, PaidMonotone
  <2> QED BY <2>8, <2>9
<1>3. CASE BeginCancel(o)
  <2>1. PICK f \in Fulfillments :
          /\ cancelling'[o] = [open |-> TRUE, f |-> f, status |-> fo[f].status,
                               covered |-> fo[f].covered]
          /\ UNCHANGED fo
    <3> DEFINE F == {g \in Fulfillments :
                       fo[g].order = o /\ fo[g].status \notin {"none", "cancelled"}}
               f == LatestOf(F)
    <3>1. f \in F \cup {0}
      BY LatestType
    <3>2. /\ cancelling'[o] = IF f = 0 THEN [NoCancellation EXCEPT !.open = TRUE]
                              ELSE [open |-> TRUE, f |-> f, status |-> fo[f].status,
                                    covered |-> fo[f].covered]
          /\ UNCHANGED fo
      BY <1>3 DEF BeginCancel, FlightInv
    <3>3. F \subseteq Fulfillments
      OBVIOUS
    <3> HIDE DEF f, F
    <3>4. f # 0
      BY <3>2 DEF NoCancellation
    <3> QED BY <3>1, <3>2, <3>3, <3>4
  <2>2. PICK x \in FulfillmentRows : x = fo[f] /\ x = fo'[f] /\ PaidRow(x, ReversedReceipts)
    BY <1>1, <2>1 DEF PaidInv
  <2> DEFINE after == [x EXCEPT !.status = x.status, !.covered = x.covered]
  <2>3. after = ReadFulfillment(cancelling[o])'
    BY <2>1, <2>2 DEF ReadFulfillment
  <2>4. after = x
    BY DEF FulfillmentRows
  <2>5. PaidRow(x, ReversedReceipts')
    BY <1>1, <2>2, PaidMonotone
  <2> QED BY <2>3, <2>4, <2>5
<1>4. CASE cancelling'[o] = NoCancellation
  BY <1>4 DEF NoCancellation
<1>5. \/ cancelling'[o] = cancelling[o]
      \/ BeginCancel(o)
      \/ cancelling'[o] = NoCancellation
  <2>1. ASSUME NEW p \in Orders, BeginCancel(p), p # o PROVE cancelling'[o] = cancelling[o]
    BY <2>1 DEF BeginCancel, FlightInv
  <2> QED BY <2>1, InFlightStep DEF FlightInv
<1> QED BY <1>2, <1>3, <1>4, <1>5

(* What is released for picking of a prepaid order stays paid, whatever is
   cancelled, cleared or expires: only a receipt that backs it and is reversed
   can leave it unpaid. *)
THEOREM ReleasedIsPaid == Spec => []ReleasedStaysPaid
<1>1. Init => PaidInv
  BY DEF Init, PaidInv, PaidRow, NoFulfillment, NoCancellation
<1>2. StockInv /\ StockInv' /\ PaidInv /\ [Next]_vars => PaidInv'
  <2> SUFFICES ASSUME StockInv, StockInv', PaidInv, [Next]_vars PROVE PaidInv'
    OBVIOUS
  <2>1. /\ Changes /\ ReversedReceipts \subseteq ReversedReceipts' /\ FlightInv
        /\ fo \in [Fulfillments -> FulfillmentRows] /\ fo' \in [Fulfillments -> FulfillmentRows]
    BY StepChanges, ReversedStays DEF StockInv, RowsInv, RowsOK
  <2>2. ASSUME NEW f \in Fulfillments PROVE PaidRow(fo'[f], ReversedReceipts')
    BY <2>1, PaidStep DEF Changes, PaidInv
  <2> QED BY <2>2, ReadPaidStep DEF PaidInv, StockInv
<1>3. PaidInv => ReleasedStaysPaid
  BY DEF PaidInv, PaidRow, ReleasedStaysPaid, Covered, ReversedReceipts
<1> QED BY <1>1, <1>2, <1>3, StockInvariant, PTL DEF Spec

-----------------------------------------------------------------------------
(* Held orders *)

(* Every step keeps a hold on each held order. *)
LEMMA HeldStep == RowsInv /\ HeldHasHold /\ [Next]_vars => HeldHasHold'
<1> SUFFICES ASSUME RowsInv, HeldHasHold, [Next]_vars PROVE HeldHasHold'
  OBVIOUS
<1> USE DEF RowsInv, RowsOK
<1>1. CASE UNCHANGED <<order, hold>>
  BY <1>1 DEF HeldHasHold
<1>2. ASSUME NEW o \in Orders, Approve(o, onHand) \/ Retry(o, onHand) \/ Submit(o)
      PROVE  HeldHasHold'
  <2>1. CASE Submit(o)
    BY <2>1 DEF Submit, HeldHasHold, OrderRows
  <2>2. CASE Approve(o, onHand)
    <3>1. UNCHANGED hold /\ \E a : order' = [order EXCEPT ![o].status = "approved",
                                                        ![o].approved = a]
      BY <2>2 DEF Approve
    <3> QED BY <3>1 DEF HeldHasHold, OrderRows
  <2>3. CASE Retry(o, onHand)
    <3>1. hold' = [hold EXCEPT ![o] = 0] /\ order' = [order EXCEPT ![o].status = "approved"]
      BY <2>3 DEF Retry
    <3> QED BY <3>1 DEF HeldHasHold, OrderRows
  <2> QED BY <1>2, <2>1, <2>2, <2>3
<1>3. ASSUME NEW o \in Orders, NEW q \in Quantities, NEW policy \in Policies,
             CreateDraft(o, q, policy) \/ Revise(o, q, policy)
      PROVE  HeldHasHold'
  <2>1. UNCHANGED hold
    BY <1>3 DEF CreateDraft, Revise
  <2>2. order' = [order EXCEPT ![o] = [status |-> "draft", approved |-> 0,
                                       qty |-> q, policy |-> policy]]
    BY <1>3 DEF CreateDraft, Revise, Revision
  <2> QED BY <2>1, <2>2 DEF HeldHasHold
<1>4. ASSUME NEW o \in Orders, NEW q \in [Skus -> Nat], Cancel(o, q) PROVE HeldHasHold'
  <2>1. \E status \in {"cancelled", "held", "partially_cancelled"} :
          /\ status = "held" => order[o].status = "held"
          /\ order' = [order EXCEPT ![o].status = status]
          /\ hold' = HoldsAfter(o, status)
    BY <1>4 DEF Cancel
  <2>2. PICK status \in {"cancelled", "held", "partially_cancelled"} :
          /\ status = "held" => order[o].status = "held"
          /\ order' = [order EXCEPT ![o].status = status]
          /\ hold' = HoldsAfter(o, status)
    BY <2>1
  <2> QED BY <2>2 DEF HoldsAfter, HeldHasHold, OrderRows
<1>5. ASSUME NEW f \in Fulfillments, Deadline(f) PROVE HeldHasHold'
  <2> DEFINE o == fo[f].order
  <2>1. f # 0
    BY ReservationAssumption DEF Fulfillments
  <2>2. hold' = [hold EXCEPT ![o] = IF @ = 0 THEN f ELSE @]
    BY <1>5 DEF Deadline
  <2>3. order' = [order EXCEPT ![o].status = "held"]
    BY <1>5 DEF Deadline
  <2> HIDE DEF o
  <2> QED BY <2>1, <2>2, <2>3 DEF HeldHasHold, OrderRows
<1>6. ASSUME NEW f \in Fulfillments, PickRelease(f) PROVE HeldHasHold'
  BY <1>1, <1>6 DEF PickRelease
<1>7. CASE \E r \in Receipts, o \in Orders, amount \in 1..MaxAmount :
             RecordReceipt(r, o, amount) \/ RecordCash(r, o, amount)
  BY <1>1, <1>7 DEF RecordReceipt, RecordCash
<1>8. CASE \E r \in Receipts : ClearReceipt(r) \/ ReverseReceipt(r)
  BY <1>1, <1>8 DEF ClearReceipt, ReverseReceipt
<1>9. CASE Silent \/ \E s \in Skus : StockIn(s) \/ StockOut(s)
  BY <1>1, <1>9 DEF Silent, StockIn, StockOut
<1> QED BY <1>2, <1>3, <1>4, <1>5, <1>6, <1>7, <1>8, <1>9, NextCases

(* A held order always has the payment hold that reservation retry asks for. *)
THEOREM HeldIsOnHold == Spec => []HeldHasHold
<1>1. Init => HeldHasHold
  BY DEF Init, HeldHasHold
<1>2. StockInv /\ HeldHasHold /\ [Next]_vars => HeldHasHold'
  BY HeldStep DEF StockInv
<1> QED BY <1>1, <1>2, StockInvariant, PTL DEF Spec

-----------------------------------------------------------------------------
(* Prepayment coverage.  A release takes from a receipt what it takes from the
   coverage of the fulfillment orders, be it what they hold now or what they
   held when a reversal read them; the CHECK of the balances refuses a release
   that the receipt does not bear. *)

HeldOf(r) == [f \in Fulfillments |-> fo[f].coverage[r]]

DesignatedHeld(r) ==
  /\ receipt[r].designated = Net(HeldOf(r), Fulfillments)
  /\ receipt[r].designated \in 0..receipt[r].amount
  /\ receipt[r].designated > 0 => receipt[r].state = "cleared"

CoverageInv == \A r \in Receipts : DesignatedHeld(r)

(* What fulfillment orders hold of a receipt is a family of numbers. *)
LEMMA HeldType ==
  ASSUME PaymentTypes, NEW r \in Receipts
  PROVE  /\ \A f \in Fulfillments : HeldOf(r)[f] = fo[f].coverage[r] /\ HeldOf(r)[f] \in Int
         /\ Net(HeldOf(r), Fulfillments) \in Int
         /\ receipt[r].designated \in Int /\ receipt[r].amount \in Nat
<1>1. \A f \in Fulfillments : HeldOf(r)[f] = fo[f].coverage[r] /\ HeldOf(r)[f] \in Int
  BY DEF PaymentTypes, FulfillmentRows, HeldOf
<1>2. Net(HeldOf(r), Fulfillments) \in Int
  BY <1>1, NetType, ConstantsFinite
<1>3. receipt[r].designated \in Int /\ receipt[r].amount \in Nat
  BY DEF PaymentTypes, ReceiptRows
<1> QED BY <1>1, <1>2, <1>3

(* A step that leaves every coverage by a receipt alone. *)
LEMMA KeptHeld ==
  ASSUME NEW r \in Receipts, DesignatedHeld(r),
         \A f \in Fulfillments : fo'[f].coverage[r] = fo[f].coverage[r],
         receipt'[r].designated = receipt[r].designated,
         receipt'[r].designated \in 0..receipt'[r].amount,
         receipt'[r].designated > 0 => receipt'[r].state = "cleared"
  PROVE  DesignatedHeld(r)'
<1>1. HeldOf(r)' = HeldOf(r)
  BY DEF HeldOf
<1> QED BY <1>1 DEF DesignatedHeld

(* A step that designates n more of a receipt to one fulfillment order. *)
LEMMA GivenHeld ==
  ASSUME PaymentTypes, PaymentTypes', NEW r \in Receipts, DesignatedHeld(r),
         NEW f \in Fulfillments, NEW n \in Nat,
         \A g \in Fulfillments \ {f} : fo'[g].coverage[r] = fo[g].coverage[r],
         fo'[f].coverage[r] = fo[f].coverage[r] + n,
         receipt'[r].designated = receipt[r].designated + n,
         receipt'[r].designated <= receipt'[r].amount,
         receipt'[r].designated > 0 => receipt'[r].state = "cleared"
  PROVE  DesignatedHeld(r)'
<1> DEFINE h == HeldOf(r)
           k == HeldOf(r)'
<1>1. \A g \in Fulfillments : h[g] = fo[g].coverage[r] /\ h[g] \in Int
  BY HeldType
<1>2. \A g \in Fulfillments : k[g] = fo'[g].coverage[r] /\ k[g] \in Int
  BY DEF PaymentTypes, FulfillmentRows, HeldOf
<1>3. receipt[r].designated = Net(h, Fulfillments) /\ Net(h, Fulfillments) \in Int
  BY HeldType DEF DesignatedHeld
<1> HIDE DEF h, k
<1>4. (\A g \in Fulfillments \ {f} : k[g] = h[g]) /\ k[f] = h[f] + n
  BY <1>1, <1>2
<1>5. Net(k, Fulfillments) = Net(h, Fulfillments) - h[f] + k[f]
  BY <1>1, <1>2, <1>4, NetChange, ConstantsFinite
<1>6. receipt'[r].designated = Net(k, Fulfillments)
  BY <1>1, <1>3, <1>4, <1>5
<1>7. receipt'[r].designated \in 0..receipt'[r].amount
  <2>1. receipt[r].designated >= 0 /\ receipt[r].designated \in Int /\ receipt'[r].amount \in Nat
    BY HeldType DEF DesignatedHeld, PaymentTypes, ReceiptRows
  <2> QED BY <2>1
<1> QED BY <1>6, <1>7 DEF DesignatedHeld, k

(* A step that releases the designations h of the fulfillment orders F. *)
LEMMA ReleasedHeld ==
  ASSUME PaymentTypes, NEW F \in SUBSET Fulfillments, NEW r \in Receipts, DesignatedHeld(r),
         NEW h, \A f \in F : h[f][r] \in Nat,
         \A f \in Fulfillments :
           fo'[f].coverage[r] = fo[f].coverage[r] - IF f \in F THEN h[f][r] ELSE 0,
         receipt'[r].designated = receipt[r].designated - GivenBack(h, F, r),
         GivenBack(h, F, r) <= receipt[r].designated,
         receipt'[r].amount = receipt[r].amount,
         receipt'[r].state = receipt[r].state \/ receipt'[r].designated = 0
  PROVE  DesignatedHeld(r)'
<1> DEFINE before == HeldOf(r)
           after == HeldOf(r)'
           given == [f \in F |-> h[f][r]]
           taken == [f \in Fulfillments |-> IF f \in F THEN h[f][r] ELSE 0]
           nothing == [f \in Fulfillments |-> 0]
<1>1. /\ \A f \in Fulfillments : before[f] = fo[f].coverage[r] /\ before[f] \in Int
      /\ receipt[r].designated = Net(before, Fulfillments)
      /\ receipt[r].designated \in Int /\ receipt[r].amount \in Nat
      /\ receipt[r].designated \in 0..receipt[r].amount
  BY HeldType DEF DesignatedHeld
<1>2. /\ \A f \in Fulfillments : taken[f] \in Nat
      /\ \A f \in F : taken[f] = given[f] /\ given[f] \in Nat
      /\ \A f \in Fulfillments : nothing[f] = IF f \in F THEN 0 ELSE taken[f]
  OBVIOUS
<1>3. \A f \in Fulfillments : after[f] = before[f] - taken[f]
  BY <1>1 DEF HeldOf
<1>4. /\ receipt'[r].designated = receipt[r].designated - Total(given, F)
      /\ Total(given, F) <= receipt[r].designated
  BY DEF GivenBack
<1>5. Total(nothing, Fulfillments) = 0
  <2>1. \A f \in Fulfillments : nothing[f] = 0
    OBVIOUS
  <2> HIDE DEF nothing
  <2> QED BY <2>1, TotalZero
<1> HIDE DEF before, after, given, taken, nothing
<1>6. Total(given, F) = Total(taken, Fulfillments) /\ Total(given, F) \in Nat
  <2>1. Total(taken, F) = Total(given, F)
    BY <1>2, TotalSame
  <2>2. Total(taken, Fulfillments) = Total(nothing, Fulfillments) + Total(taken, F)
    BY <1>2, TotalWithout, ConstantsFinite
  <2>3. Total(given, F) \in Nat
    BY <1>2, TotalType, ConstantsFinite
  <2> QED BY <1>5, <2>1, <2>2, <2>3
<1>7. Net(after, Fulfillments) = Net(before, Fulfillments) - Total(taken, Fulfillments)
  <2>1. \A f \in Fulfillments : before[f] \in Int
    BY <1>1
  <2> QED BY <2>1, <1>2, <1>3, NetLess, ConstantsFinite
<1>8. receipt'[r].designated = Net(after, Fulfillments)
  BY <1>1, <1>4, <1>6, <1>7
<1>9. receipt'[r].designated \in 0..receipt'[r].amount
  BY <1>1, <1>4, <1>6
<1>10. receipt'[r].designated > 0 => receipt'[r].state = "cleared"
  BY <1>1, <1>4, <1>6 DEF DesignatedHeld
<1> QED BY <1>8, <1>9, <1>10 DEF DesignatedHeld, after

(* What is designated is held, and of no other receipt. *)
LEMMA DesignatedCoverage ==
  ASSUME NEW x \in FulfillmentRows, NEW r \in Receipts, NEW n \in Nat
  PROVE  /\ Designated(x, r, n).coverage[r] = x.coverage[r] + n
         /\ \A q \in Receipts \ {r} : Designated(x, r, n).coverage[q] = x.coverage[q]
BY DEF Designated, FulfillmentRows

(* What the receipt lemmas below start from. *)
CoverageReady == RowsInv /\ RowsInv' /\ FlightInv /\ CoverageInv

LEMMA ReadyTypes ==
  CoverageReady => /\ PaymentTypes /\ PaymentTypes'
                   /\ \A r \in Receipts : DesignatedHeld(r)
                   /\ \A f \in Fulfillments : fo[f] \in FulfillmentRows /\ EmptyRow(fo[f])
BY DEF CoverageReady, RowsInv, RowsOK, PaymentTypes, CoverageInv, FlightInv

(* A step that leaves receipts and coverages alone. *)
LEMMA UntouchedReceipts ==
  ASSUME CoverageReady, UNCHANGED receipt, NEW r \in Receipts,
         \A f \in Fulfillments : fo'[f].coverage[r] = fo[f].coverage[r]
  PROVE  DesignatedHeld(r)'
<1>1. DesignatedHeld(r)
  BY ReadyTypes
<1> QED BY <1>1, KeptHeld DEF DesignatedHeld

(* Approval creates a fulfillment order without coverage, in a row without. *)
LEMMA ApproveReceipts ==
  ASSUME CoverageReady, NEW o \in Orders, Approve(o, onHand), NEW r \in Receipts
  PROVE  DesignatedHeld(r)'
<1>1. UNCHANGED receipt
  BY DEF Approve
<1>2. PICK a, policy, got, back : CreateFulfillment(o, a, policy, got, back)
  BY DEF Approve
<1>3. CASE UNCHANGED fo
  BY <1>1, <1>3, UntouchedReceipts
<1>4. ASSUME NEW f \in Fulfillments, FreshFulfillment(f),
             fo' = [fo EXCEPT ![f] = NewFulfillment(o, a, policy, got, back)]
      PROVE  DesignatedHeld(r)'
  <2>1. NewFulfillment(o, a, policy, got, back).coverage[r] = 0
    BY DEF NewFulfillment
  <2>2. fo[f].coverage[r] = 0
    BY <1>4, ReadyTypes DEF EmptyRow, FreshFulfillment
  <2> DEFINE new == NewFulfillment(o, a, policy, got, back)
  <2> HIDE DEF new
  <2>3. \A g \in Fulfillments : fo'[g] = IF g = f THEN new ELSE fo[g]
    BY <1>4 DEF CoverageReady, RowsInv, RowsOK, new
  <2>4. \A g \in Fulfillments : fo'[g].coverage[r] = fo[g].coverage[r]
    BY <2>1, <2>2, <2>3 DEF new
  <2> QED BY <1>1, <2>4, UntouchedReceipts
<1> QED BY <1>2, <1>3, <1>4 DEF CreateFulfillment

(* A cancellation keeps all coverage, whatever covered amount it writes. *)
LEMMA CancelReceipts ==
  ASSUME CoverageReady, NEW o \in Orders, NEW c \in [Skus -> Nat], Cancel(o, c),
         NEW r \in Receipts
  PROVE  DesignatedHeld(r)'
<1> DEFINE freed == [s \in Skus |-> Lesser(c[s], commitment[o][s].reserved)]
<1>1. PICK seen \in CancellationRows :
        /\ seen = cancelling[o] /\ UNCHANGED receipt
        /\ fo' = IF seen.f = 0 THEN fo
                 ELSE [fo EXCEPT ![seen.f] = ReducedFulfillment(ReadFulfillment(seen), c, freed)]
  BY DEF Cancel, CoverageReady, FlightInv
<1>2. CASE seen.f = 0
  BY <1>1, <1>2, UntouchedReceipts
<1>3. CASE seen.f # 0
  <2>1. PICK f \in Fulfillments : f = seen.f
    BY <1>3 DEF CancellationRows, Fulfillments
  <2>2. PICK x \in FulfillmentRows : x = fo[f]
    BY ReadyTypes
  <2> DEFINE read == [x EXCEPT !.status = seen.status, !.covered = seen.covered]
             y == ReducedFulfillment(read, c, freed)
  <2>3. read \in FulfillmentRows /\ read.coverage = x.coverage
    BY ReadType
  <2>4. fo' = [fo EXCEPT ![f] = y]
    BY <1>1, <1>3, <2>1, <2>2 DEF ReadFulfillment
  <2> HIDE DEF read, freed
  <2>5. y.coverage = read.coverage
    BY <2>3 DEF ReducedFulfillment, FulfillmentRows
  <2> HIDE DEF y
  <2>6. \A g \in Fulfillments : fo'[g] = IF g = f THEN y ELSE fo[g]
    BY <2>4 DEF CoverageReady, RowsInv, RowsOK
  <2>7. \A g \in Fulfillments : fo'[g].coverage[r] = fo[g].coverage[r]
    BY <2>2, <2>3, <2>5, <2>6
  <2> QED BY <1>1, <2>7, UntouchedReceipts
<1> QED BY <1>2, <1>3

(* A release for picking keeps all coverage. *)
LEMMA PickReleaseReceipts ==
  ASSUME CoverageReady, NEW f \in Fulfillments, PickRelease(f), NEW r \in Receipts
  PROVE  DesignatedHeld(r)'
<1>1. \A g \in Fulfillments : fo[g] \in FulfillmentRows
  BY ReadyTypes
<1>2. UNCHANGED receipt /\ fo' = [fo EXCEPT ![f] = ReleasedRow(fo[f])]
  BY PickReleaseWrites DEF PickRelease
<1>3. ReleasedRow(fo[f]).coverage = fo[f].coverage
  BY <1>1 DEF ReleasedRow, FulfillmentRows
<1>4. \A g \in Fulfillments : fo'[g].coverage = fo[g].coverage
  BY <1>2, <1>3 DEF CoverageReady, RowsInv, RowsOK
<1> QED BY <1>2, <1>4, UntouchedReceipts

(* What _release_coverage leaves of a receipt row. *)
LEMMA WithoutRow ==
  ASSUME PaymentTypes, NEW h, NEW F, NEW r \in Receipts
  PROVE  /\ ReceiptsWithout(h, F)[r].designated = receipt[r].designated - GivenBack(h, F, r)
         /\ ReceiptsWithout(h, F)[r].amount = receipt[r].amount
         /\ ReceiptsWithout(h, F)[r].state = receipt[r].state
<1>1. receipt[r] \in ReceiptRows
  BY DEF PaymentTypes
<1> QED BY <1>1 DEF ReceiptsWithout, ReceiptRows

(* A revision of an approved order releases what its fulfillment orders hold. *)
LEMMA InvalidateReceipts ==
  ASSUME CoverageReady, NEW o \in Orders, NEW a \in ActiveApprovals(o), Invalidate(o, a),
         NEW r \in Receipts
  PROVE  DesignatedHeld(r)'
<1> DEFINE F == {f \in Fulfillments :
                   fo[f].approval = a /\ fo[f].status \notin {"none", "cancelled"}}
<1>1. /\ receipt' = ReceiptsWithout(Holdings, F) /\ Releasable(Holdings, F)
      /\ fo' = [f \in Fulfillments |->
                  IF f \in F THEN [Bare(fo[f], HeldBy(fo[f])) EXCEPT !.status = "cancelled"]
                  ELSE fo[f]]
      /\ F \in SUBSET Fulfillments
  BY DEF Invalidate
<1> HIDE DEF F
<1>2. PaymentTypes /\ DesignatedHeld(r)
  BY ReadyTypes
<1>3. \A f \in Fulfillments : Holdings[f][r] \in Nat /\ Holdings[f] = HeldBy(fo[f])
  BY <1>2, HoldingsType
<1>4. \A f \in Fulfillments :
        [Bare(fo[f], HeldBy(fo[f])) EXCEPT !.status = "cancelled"].coverage[r]
          = fo[f].coverage[r] - HeldBy(fo[f])[r]
  <2> TAKE f \in Fulfillments
  <2>1. PICK bare \in FulfillmentRows :
          /\ bare = Bare(fo[f], HeldBy(fo[f]))
          /\ bare.coverage[r] = fo[f].coverage[r] - HeldBy(fo[f])[r]
    BY ReadyTypes, BareType, HeldByType
  <2>2. [bare EXCEPT !.status = "cancelled"].coverage = bare.coverage
    BY DEF FulfillmentRows
  <2> QED BY <2>1, <2>2
<1>5. \A f \in Fulfillments : fo[f].coverage[r] \in Int
  BY ReadyTypes DEF FulfillmentRows
<1>6. \A f \in Fulfillments :
        fo'[f].coverage[r] = fo[f].coverage[r] - IF f \in F THEN Holdings[f][r] ELSE 0
  BY <1>1, <1>3, <1>4, <1>5
<1>7. /\ receipt'[r].designated = receipt[r].designated - GivenBack(Holdings, F, r)
      /\ receipt'[r].amount = receipt[r].amount
      /\ receipt'[r].state = receipt[r].state
  BY <1>1, <1>2, WithoutRow
<1>8. GivenBack(Holdings, F, r) <= receipt[r].designated
  BY <1>1 DEF Releasable
<1>9. \A f \in F : Holdings[f][r] \in Nat
  BY <1>1, <1>3
<1> QED BY <1>1, <1>2, <1>6, <1>7, <1>8, <1>9, ReleasedHeld

(* So does a deadline, for the generation that expires. *)
LEMMA DeadlineReceipts ==
  ASSUME CoverageReady, NEW f \in Fulfillments, Deadline(f), NEW r \in Receipts
  PROVE  DesignatedHeld(r)'
<1> DEFINE y == [Bare(fo[f], HeldBy(fo[f])) EXCEPT
             !.status = "payment_hold", !.reserved = 0, !.backorder = @ + fo[f].reserved]
<1>1. /\ receipt' = ReceiptsWithout(Holdings, {f}) /\ Releasable(Holdings, {f})
      /\ fo' = [fo EXCEPT ![f] = y]
  BY DEF Deadline
<1>2. PaymentTypes /\ DesignatedHeld(r) /\ {f} \in SUBSET Fulfillments
  BY ReadyTypes
<1>3. Holdings[f][r] \in Nat /\ Holdings[f] = HeldBy(fo[f])
  BY <1>2, HoldingsType
<1>4. y.coverage[r] = fo[f].coverage[r] - Holdings[f][r]
  <2>1. PICK bare \in FulfillmentRows :
          /\ bare = Bare(fo[f], HeldBy(fo[f]))
          /\ bare.coverage[r] = fo[f].coverage[r] - HeldBy(fo[f])[r]
    BY ReadyTypes, BareType, HeldByType
  <2>2. PICK back : y = [bare EXCEPT !.status = "payment_hold", !.reserved = 0,
                                     !.backorder = back]
    BY <2>1
  <2> HIDE DEF y
  <2>3. y.coverage = bare.coverage
    BY <2>2 DEF FulfillmentRows
  <2> QED BY <1>3, <2>1, <2>3
<1> HIDE DEF y
<1>5. \A g \in Fulfillments : fo'[g] = IF g = f THEN y ELSE fo[g]
  BY <1>1 DEF CoverageReady, RowsInv, RowsOK
<1>6. \A g \in Fulfillments : fo[g].coverage[r] \in Int
  BY ReadyTypes DEF FulfillmentRows
<1>7. \A g \in Fulfillments :
        fo'[g].coverage[r] = fo[g].coverage[r] - IF g \in {f} THEN Holdings[g][r] ELSE 0
  BY <1>4, <1>5, <1>6
<1>8. /\ receipt'[r].designated = receipt[r].designated - GivenBack(Holdings, {f}, r)
      /\ receipt'[r].amount = receipt[r].amount
      /\ receipt'[r].state = receipt[r].state
  BY <1>1, <1>2, WithoutRow
<1>9. GivenBack(Holdings, {f}, r) <= receipt[r].designated
  BY <1>1 DEF Releasable
<1>10. \A g \in {f} : Holdings[g][r] \in Nat
  BY <1>3
<1> QED BY <1>2, <1>7, <1>8, <1>9, <1>10, ReleasedHeld, SMTT(30)

(* A reversal takes what it has read from every fulfillment order that the
   receipt backed, and leaves the reversed receipt no designation. *)
LEMMA ReverseReceipts ==
  ASSUME CoverageReady, NEW q \in Receipts, ReverseReceipt(q), NEW r \in Receipts
  PROVE  DesignatedHeld(r)'
<1>1. PICK h, F : h = reversing[q].held /\ F = reversing[q].backed
  OBVIOUS
<1>2. /\ F \in SUBSET Fulfillments
      /\ \A f \in Fulfillments : \A p \in Receipts : h[f][p] \in Nat
  BY <1>1 DEF CoverageReady, FlightInv, ReversalRows
<1> DEFINE without == ReceiptsWithout(h, F)
<1>3. /\ receipt' = [without EXCEPT ![q].state = "reversed"]
      /\ fo' = [f \in Fulfillments |-> IF f \in F THEN Bare(fo[f], h[f]) ELSE fo[f]]
      /\ Releasable(h, F)
      /\ GivenBack(h, F, q) = receipt[q].designated
  BY <1>1 DEF ReverseReceipt
<1>4. PaymentTypes /\ DesignatedHeld(r)
  BY ReadyTypes
<1>5. without \in [Receipts -> ReceiptRows]
  BY <1>2, <1>4, WithoutType
<1>6. /\ without[r].designated = receipt[r].designated - GivenBack(h, F, r)
      /\ without[r].amount = receipt[r].amount
      /\ without[r].state = receipt[r].state
  BY <1>4, WithoutRow
<1> HIDE DEF without
<1>7. /\ receipt'[r].designated = without[r].designated
      /\ receipt'[r].amount = without[r].amount
      /\ receipt'[r].state = without[r].state \/ r = q
  BY <1>3, <1>5 DEF ReceiptRows
<1>8. receipt'[r].state = receipt[r].state \/ receipt'[r].designated = 0
  <2>1. receipt[r].designated \in Int
    BY <1>4, HeldType
  <2>2. CASE r = q
    BY <1>3, <1>6, <1>7, <2>1, <2>2
  <2>3. CASE r # q
    BY <1>6, <1>7, <2>3
  <2> QED BY <2>2, <2>3
<1>9. \A f \in Fulfillments :
        fo'[f].coverage[r] = fo[f].coverage[r] - IF f \in F THEN h[f][r] ELSE 0
  <2> TAKE f \in Fulfillments
  <2>1. fo[f] \in FulfillmentRows /\ fo[f].coverage[r] \in Int
    BY ReadyTypes DEF FulfillmentRows
  <2>2. Bare(fo[f], h[f]).coverage[r] = fo[f].coverage[r] - h[f][r]
    BY <1>2, <2>1, BareType
  <2> QED BY <1>3, <2>1, <2>2
<1>10. GivenBack(h, F, r) <= receipt[r].designated
  BY <1>3 DEF Releasable
<1>11. /\ \A f \in F : h[f][r] \in Nat
       /\ receipt'[r].designated = receipt[r].designated - GivenBack(h, F, r)
       /\ receipt'[r].amount = receipt[r].amount
  BY <1>2, <1>6, <1>7
<1> QED BY <1>2, <1>4, <1>8, <1>9, <1>10, <1>11, ReleasedHeld

(* A receipt that clears was designated to nobody, and designates at most
   itself. *)
LEMMA ClearReceipts ==
  ASSUME CoverageReady, NEW q \in Receipts, NEW row \in ReceiptRows, Clear(q, row),
         receipt[q].state # "cleared", NEW r \in Receipts
  PROVE  DesignatedHeld(r)'
<1> DEFINE f == row.intended
           n == Designation(f, row.amount)
           cleared == [row EXCEPT !.state = "cleared", !.designated = n]
<1>1. /\ receipt' = [receipt EXCEPT ![q] = cleared]
      /\ fo' = IF n = 0 THEN fo ELSE [fo EXCEPT ![f] = Designated(fo[f], q, n)]
  BY DEF Clear
<1>2. f \in 0..MaxFulfillments /\ row.amount \in Nat
  BY DEF ReceiptRows
<1>3. n \in Nat /\ (n # 0 => f \in Fulfillments)
  BY <1>2, ReadyTypes, DesignationType
<1>4. n <= row.amount
  BY <1>2, <1>3 DEF Designation, Lesser, Positive
<1>5. /\ PaymentTypes /\ PaymentTypes' /\ DesignatedHeld(r)
      /\ fo \in [Fulfillments -> FulfillmentRows] /\ receipt \in [Receipts -> ReceiptRows]
  BY ReadyTypes DEF PaymentTypes
<1>6. receipt[q].designated = 0
  BY ReadyTypes, HeldType DEF DesignatedHeld
<1>7. cleared.state = "cleared" /\ cleared.designated = n /\ cleared.amount = row.amount
  BY DEF ReceiptRows
<1> HIDE DEF n, cleared, f
<1>8. CASE n = 0
  <2>1. fo' = fo
    BY <1>1, <1>8
  <2>2. /\ receipt'[r].designated = receipt[r].designated
        /\ receipt'[r].designated \in 0..receipt'[r].amount
        /\ receipt'[r].designated > 0 => receipt'[r].state = "cleared"
    BY <1>1, <1>2, <1>5, <1>6, <1>7, <1>8 DEF DesignatedHeld
  <2> QED BY <1>5, <2>1, <2>2, KeptHeld
<1>9. CASE n # 0
  <2>1. f \in Fulfillments
    BY <1>3, <1>9
  <2> DEFINE y == Designated(fo[f], q, n)
  <2>2. /\ y.coverage[q] = fo[f].coverage[q] + n
        /\ \A p \in Receipts \ {q} : y.coverage[p] = fo[f].coverage[p]
    BY <2>1, <1>3, ReadyTypes, DesignatedCoverage
  <2>3. fo' = [fo EXCEPT ![f] = y]
    BY <1>1, <1>9
  <2> HIDE DEF y
  <2>4. CASE r = q
    <3>1. \A g \in Fulfillments \ {f} : fo'[g].coverage[r] = fo[g].coverage[r]
      BY <2>1, <2>3, <1>5
    <3>2. fo'[f].coverage[r] = fo[f].coverage[r] + n
      BY <2>1, <2>2, <2>3, <2>4, <1>5
    <3>3. receipt'[r] = cleared
      BY <1>1, <1>5, <2>4
    <3>4. receipt'[r].designated = receipt[r].designated + n
      BY <3>3, <1>3, <1>6, <1>7, <2>4
    <3>5. receipt'[r].designated <= receipt'[r].amount /\ receipt'[r].state = "cleared"
      BY <3>3, <1>4, <1>7
    <3> QED BY <1>3, <1>5, <2>1, <3>1, <3>2, <3>4, <3>5, GivenHeld
  <2>5. CASE r # q
    <3>1. receipt'[r] = receipt[r]
      BY <1>1, <1>5, <2>5
    <3>2. \A g \in Fulfillments : fo'[g].coverage[r] = fo[g].coverage[r]
      BY <2>1, <2>2, <2>3, <2>5, <1>5
    <3> QED BY <1>5, <3>1, <3>2, KeptHeld DEF DesignatedHeld
  <2> QED BY <2>4, <2>5
<1> QED BY <1>8, <1>9

(* A receipt is recorded with nothing designated. *)
LEMMA RecordReceipts ==
  ASSUME CoverageReady, NEW q \in Receipts, NEW o \in Orders, NEW amount \in 1..MaxAmount,
         RecordReceipt(q, o, amount) \/ RecordCash(q, o, amount), NEW r \in Receipts
  PROVE  DesignatedHeld(r)'
<1>1. CASE RecordCash(q, o, amount)
  <2>1. NewReceipt(o, amount) \in ReceiptRows
    BY NewReceiptType
  <2> QED BY <1>1, <2>1, ClearReceipts DEF RecordCash
<1>2. CASE RecordReceipt(q, o, amount)
  <2>1. /\ receipt' = [receipt EXCEPT ![q] = NewReceipt(o, amount)] /\ fo' = fo
        /\ receipt[q].state = "none"
    BY <1>2 DEF RecordReceipt
  <2>2. NewReceipt(o, amount).designated = 0 /\ NewReceipt(o, amount).amount = amount
    BY DEF NewReceipt
  <2>3. receipt[q].designated = 0 /\ DesignatedHeld(r) /\ receipt \in [Receipts -> ReceiptRows]
    BY <2>1, ReadyTypes, HeldType DEF PaymentTypes, DesignatedHeld
  <2>4. /\ receipt'[r].designated = receipt[r].designated
        /\ receipt'[r].designated \in 0..receipt'[r].amount
        /\ receipt'[r].designated > 0 => receipt'[r].state = "cleared"
    <3>1. CASE r = q
      <4>1. receipt'[r] = NewReceipt(o, amount)
        BY <2>1, <2>3, <3>1
      <4> QED BY <2>2, <2>3, <3>1, <4>1
    <3>2. CASE r # q
      <4>1. receipt'[r] = receipt[r]
        BY <2>1, <2>3, <3>2
      <4> QED BY <2>3, <4>1 DEF DesignatedHeld
    <3> QED BY <3>1, <3>2
  <2> QED BY <2>1, <2>3, <2>4, KeptHeld
<1> QED BY <1>1, <1>2

(* A retry designates what is left of cleared receipts, to a row that held
   nothing. *)
LEMMA RetryReceipts ==
  ASSUME CoverageReady, NEW o \in Orders, Retry(o, onHand), NEW r \in Receipts
  PROVE  DesignatedHeld(r)'
<1>1. PICK a \in ActiveApprovals(o), f \in Fulfillments, give \in [Receipts -> 0..MaxAmount] :
        /\ Regenerate(o, a, f, give, onHand)
        /\ receipt' = [q \in Receipts |-> [receipt[q] EXCEPT !.designated = @ + give[q]]]
  BY DEF Retry
<1>2. PICK new, required : /\ fo' = [fo EXCEPT ![f] = Funded(new, give)]
                           /\ new \in FulfillmentRows
                           /\ Redesignation(o, required, give)
                           /\ FreshFulfillment(f)
  <2> DEFINE want == [s \in Skus |-> IF s \in LinesOf(o, a) THEN commitment[o][s].ordered ELSE 0]
             got == Grantable(want, onHand)
             back == [s \in Skus |-> want[s] - got[s]]
             policy == approval[a].policy
             n == NewFulfillment(o, a, policy, got, back)
  <2>1. /\ fo' = [fo EXCEPT ![f] = Funded(n, give)]
        /\ Redesignation(o, n.required, give)
        /\ FreshFulfillment(f)
    BY <1>1 DEF Regenerate
  <2>2. want \in [Skus -> Nat]
    BY DEF CoverageReady, RowsInv, RowsOK, CommitmentsBacked, CommitmentRows, Partitioned
  <2>3. got \in [Skus -> Nat] /\ back \in [Skus -> Nat]
    <3> HIDE DEF want
    <3>1. \A s \in Skus : got[s] \in Nat /\ got[s] <= want[s]
      BY <2>2, GrantableBounds DEF CoverageReady, RowsInv, RowsOK
    <3>2. got \in [Skus -> Nat]
      BY <3>1 DEF Grantable
    <3> HIDE DEF got
    <3> QED BY <2>2, <3>1, <3>2
  <2>4. a \in Approvals /\ policy \in Policies \cup {"none"}
    BY DEF ActiveApprovals, CoverageReady, RowsInv, RowsOK, ApprovalRows
  <2> HIDE DEF want, got, back, policy
  <2>5. n \in FulfillmentRows
    BY <2>3, <2>4, NewFulfillmentType
  <2> HIDE DEF n
  <2> QED BY <2>1, <2>5
<1>3. /\ PaymentTypes /\ PaymentTypes' /\ DesignatedHeld(r)
      /\ fo \in [Fulfillments -> FulfillmentRows] /\ receipt[r] \in ReceiptRows
      /\ receipt[r].designated \in Int /\ receipt[r].amount \in Nat
      /\ give[r] \in Nat
  BY ReadyTypes, ReservationAssumption DEF PaymentTypes, ReceiptRows
<1>4. fo[f].coverage[r] = 0
  BY <1>2, ReadyTypes DEF EmptyRow, FreshFulfillment
<1>5. Funded(new, give).coverage = give
  BY <1>2 DEF Funded, FulfillmentRows
<1>6. give[r] <= (IF receipt[r].order = o THEN Available(r) ELSE 0)
  BY <1>2 DEF Redesignation
<1>7. /\ receipt'[r].designated = receipt[r].designated + give[r]
      /\ receipt'[r].amount = receipt[r].amount
      /\ receipt'[r].state = receipt[r].state
  BY <1>1, <1>3 DEF ReceiptRows
<1>8. CASE give[r] = 0
  <2>1. receipt'[r].designated = receipt[r].designated
    BY <1>3, <1>7, <1>8
  <2>2. \A g \in Fulfillments : fo'[g].coverage[r] = fo[g].coverage[r]
    BY <1>2, <1>3, <1>4, <1>5, <1>8
  <2> QED BY <1>3, <1>7, <2>1, <2>2, KeptHeld DEF DesignatedHeld
<1>9. CASE give[r] # 0
  <2>1. receipt[r].state = "cleared" /\ receipt[r].designated + give[r] <= receipt[r].amount
    BY <1>3, <1>6, <1>9 DEF Available
  <2>2. \A g \in Fulfillments \ {f} : fo'[g].coverage[r] = fo[g].coverage[r]
    BY <1>2, <1>3
  <2>3. fo'[f].coverage[r] = fo[f].coverage[r] + give[r]
    BY <1>2, <1>3, <1>4, <1>5
  <2>4. receipt'[r].designated <= receipt'[r].amount /\ receipt'[r].state = "cleared"
    BY <1>7, <2>1
  <2> QED BY <1>3, <1>7, <2>2, <2>3, <2>4, GivenHeld
<1> QED BY <1>8, <1>9

(* Every step keeps designated balances and coverage in agreement. *)
LEMMA CoverageStep ==
  RowsInv /\ RowsInv' /\ FlightInv /\ CoverageInv /\ [Next]_vars => CoverageInv'
<1> SUFFICES ASSUME CoverageReady, [Next]_vars, NEW r \in Receipts PROVE DesignatedHeld(r)'
  BY DEF CoverageReady, CoverageInv
<1>1. CASE UNCHANGED <<fo, receipt>>
  BY <1>1, UntouchedReceipts
<1>2. ASSUME NEW o \in Orders, Approve(o, onHand) \/ Retry(o, onHand) PROVE DesignatedHeld(r)'
  BY <1>2, ApproveReceipts, RetryReceipts
<1>3. ASSUME NEW o \in Orders, NEW q \in Quantities, NEW policy \in Policies,
             CreateDraft(o, q, policy) \/ Revise(o, q, policy)
      PROVE  DesignatedHeld(r)'
  <2>1. CASE \E a \in ActiveApprovals(o) : Invalidate(o, a)
    BY <2>1, InvalidateReceipts
  <2> QED BY <1>1, <1>3, <2>1 DEF CreateDraft, Revise
<1>4. ASSUME NEW o \in Orders, NEW q \in [Skus -> Nat], Cancel(o, q) PROVE DesignatedHeld(r)'
  BY <1>4, CancelReceipts
<1>5. ASSUME NEW f \in Fulfillments, PickRelease(f) \/ Deadline(f) PROVE DesignatedHeld(r)'
  BY <1>5, PickReleaseReceipts, DeadlineReceipts
<1>6. ASSUME NEW q \in Receipts, NEW o \in Orders, NEW amount \in 1..MaxAmount,
             RecordReceipt(q, o, amount) \/ RecordCash(q, o, amount)
      PROVE  DesignatedHeld(r)'
  BY <1>6, RecordReceipts
<1>7. ASSUME NEW q \in Receipts, ClearReceipt(q) \/ ReverseReceipt(q) PROVE DesignatedHeld(r)'
  <2>1. receipt[q] \in ReceiptRows
    BY DEF CoverageReady, RowsInv, RowsOK
  <2> QED BY <1>7, <2>1, ClearReceipts, ReverseReceipts DEF ClearReceipt
<1>8. CASE \/ Silent \/ \E o \in Orders : Submit(o)
           \/ \E s \in Skus : StockIn(s) \/ StockOut(s)
  BY <1>1, <1>8 DEF Silent, Submit, StockIn, StockOut
<1> QED BY <1>2, <1>3, <1>4, <1>5, <1>6, <1>7, <1>8, NextCases

(* The designated balance of every receipt is what its coverage events on the
   fulfillment orders add up to, within its amount and only while it is
   cleared: clearings, retries, deadlines, revisions and cancellations in any
   order, before, during and after the reversals of receipts, keep it so. *)
THEOREM CoverageAlwaysReconciles == Spec => []CoverageReconciles
<1>1. Init => CoverageInv
  <2> SUFFICES ASSUME Init, NEW r \in Receipts PROVE DesignatedHeld(r)
    BY DEF CoverageInv
  <2>1. \A f \in Fulfillments : HeldOf(r)[f] = 0
    BY DEF Init, HeldOf, NoFulfillment
  <2>2. Net(HeldOf(r), Fulfillments) = 0
    BY <2>1, NetZero
  <2>3. receipt[r].designated = 0 /\ receipt[r].amount = 0
    BY DEF Init
  <2> QED BY <2>2, <2>3 DEF DesignatedHeld
<1>2. StockInv => RowsInv /\ FlightInv
  BY DEF StockInv
<1>3. CoverageInv => CoverageReconciles
  BY DEF CoverageInv, DesignatedHeld, HeldOf, CoverageReconciles
<1> QED BY <1>1, <1>2, <1>3, CoverageStep, StockInvariant, PTL DEF Spec
-----------------------------------------------------------------------------
(* Picking: the inductive invariant. *)

(* The fields of a fulfillment order that some step changes.  What the others
   hold does not matter here, so that nothing is said of the types of rows. *)
Fields == {"order", "status", "released", "reserved", "backorder", "picked", "covered",
           "coverage", "backers"}

FulfillmentShape ==
  /\ fo = [f \in Fulfillments |-> fo[f]]
  /\ \A f \in Fulfillments : Fields \subseteq DOMAIN fo[f]

(* What sales see of the stock, and the lines that stand for it.  A revision
   while goods are picked leaves lines whose approval is gone, so that nothing
   is said of approvals and of the ledger. *)
LinesOK ==
  /\ onHand \in [Skus -> Nat] /\ reserved \in [Skus -> Nat]
  /\ order \in [Orders -> OrderRows]
  /\ commitment \in [Orders -> [Skus -> CommitmentRows]]
  /\ \A o \in Orders, s \in Skus : Partitioned(commitment[o][s])

MovedTypeOK ==
  /\ pick \in [Picks -> PickRows]
  /\ staged \in [Skus -> Nat] /\ transit \in [Skus -> Nat]
  /\ dispatched \in [Fulfillments -> Nat]

(* A posted pick is of a fulfillment order that exists. *)
PicksOwned ==
  \A p \in Picks : pick[p].state = "posted" =>
    /\ pick[p].fulfillment \in Fulfillments
    /\ fo[pick[p].fulfillment].status # "none"

(* What a cancellation in progress will write is a fulfillment order that
   exists, and it read it as one. *)
ReadsOK ==
  /\ cancelling = [o \in Orders |-> cancelling[o]]
  /\ \A o \in Orders : cancelling[o].f # 0 =>
       /\ cancelling[o].f \in Fulfillments
       /\ fo[cancelling[o].f].status # "none" /\ cancelling[o].status # "none"

LooksOK == looked \in [Orders -> [open : BOOLEAN, stock : [Skus -> Nat]]]

PickingInv ==
  /\ FulfillmentShape /\ FulfillmentsOwned /\ LinesOK
  /\ MovedTypeOK /\ PicksOwned /\ ReadsOK /\ LooksOK
  /\ CustodyBalances /\ FulfillmentPicked

-----------------------------------------------------------------------------
(* What the steps of Reservation do to a fulfillment order: x before, y after. *)

Kept(x, y) ==
  /\ Fields \subseteq DOMAIN y
  /\ y.picked = x.picked /\ y.order = x.order
  /\ y.status = "none" <=> x.status = "none"

Created(x, y) ==
  /\ Fields \subseteq DOMAIN y
  /\ x.status = "none" /\ y.status # "none" /\ y.picked = 0 /\ y.order \in Orders

NothingPicked ==
  /\ FulfillmentShape'
  /\ \A f \in Fulfillments : Kept(fo[f], fo'[f]) \/ Created(fo[f], fo'[f])

(* The commands of Reservation, a promise by whatever stock it has read. *)
Moves ==
  \/ \E o \in Orders : (\E stock \in [Skus -> Nat] : Promise(o, stock)) \/ OrderCommand(o)
  \/ OtherCommand

(* The kinds of commands. *)
LEMMA MoveCases ==
  ASSUME Moves
  PROVE  \/ Silent
         \/ \E o \in Orders, stock \in [Skus -> Nat] : Approve(o, stock) \/ Retry(o, stock)
         \/ \E o \in Orders : Submit(o)
         \/ \E o \in Orders, q \in Quantities, policy \in Policies :
              CreateDraft(o, q, policy) \/ Revise(o, q, policy)
         \/ \E o \in Orders, q \in Quantities : Cancel(o, q)
         \/ \E f \in Fulfillments : PickRelease(f) \/ Deadline(f)
         \/ \E r \in Receipts, o \in Orders, amount \in 1..MaxAmount :
              RecordReceipt(r, o, amount) \/ RecordCash(r, o, amount)
         \/ \E r \in Receipts : ClearReceipt(r) \/ ReverseReceipt(r)
         \/ \E s \in Skus : StockIn(s) \/ StockOut(s)
<1>1. ASSUME NEW o \in Orders, BeginCancel(o) \/ AbandonCancel(o) PROVE Silent
  BY <1>1 DEF BeginCancel, AbandonCancel, Silent
<1>2. ASSUME NEW r \in Receipts, BeginReversal(r) \/ AbandonReversal(r) PROVE Silent
  BY <1>2 DEF BeginReversal, AbandonReversal, Silent
<1> QED BY <1>1, <1>2 DEF Moves, Promise, OrderCommand, OtherCommand

(* What the commands do to the cancellations in progress. *)
LEMMA CancellingCases ==
  ASSUME Moves
  PROVE  \/ UNCHANGED cancelling
         \/ \E o \in Orders : BeginCancel(o)
         \/ \E o \in Orders : cancelling' = [cancelling EXCEPT ![o] = NoCancellation]
<1>1. ASSUME NEW o \in Orders, NEW q, Cancel(o, q) \/ AbandonCancel(o)
      PROVE  cancelling' = [cancelling EXCEPT ![o] = NoCancellation]
  BY <1>1 DEF Cancel, AbandonCancel
<1>2. ASSUME NEW r, ReverseReceipt(r) \/ BeginReversal(r) \/ AbandonReversal(r)
      PROVE  UNCHANGED cancelling
  BY <1>2 DEF ReverseReceipt, BeginReversal, AbandonReversal
<1>3. ASSUME NEW o, NEW stock, Promise(o, stock) PROVE UNCHANGED cancelling
  BY <1>3 DEF Promise, Approve, Retry, inFlight
<1>4. ASSUME NEW o, NEW q, NEW policy, CreateDraft(o, q, policy) \/ Revise(o, q, policy)
      PROVE  UNCHANGED cancelling
  BY <1>4 DEF CreateDraft, Revise, inFlight
<1>5. ASSUME NEW o, NEW r, NEW amount, RecordReceipt(r, o, amount) \/ RecordCash(r, o, amount)
      PROVE  UNCHANGED cancelling
  BY <1>5, SMTT(30) DEF RecordReceipt, RecordCash, inFlight
<1>6. ASSUME NEW f, PickRelease(f) \/ Deadline(f) PROVE UNCHANGED cancelling
  BY <1>6 DEF PickRelease, Deadline, inFlight
<1>7. ASSUME NEW x, Submit(x) \/ ClearReceipt(x) \/ StockIn(x) \/ StockOut(x)
      PROVE  UNCHANGED cancelling
  BY <1>7 DEF Submit, ClearReceipt, StockIn, StockOut, inFlight
<1> QED BY <1>1, <1>2, <1>3, <1>4, <1>5, <1>6, <1>7, SMTT(30) DEF Moves, OrderCommand, OtherCommand

LEMMA KeptSame ==
  ASSUME NEW x, Fields \subseteq DOMAIN x
  PROVE  Kept(x, x)
BY DEF Kept

LEMMA KeptStatus ==
  ASSUME NEW x, Fields \subseteq DOMAIN x, x.status # "none", NEW v, v # "none"
  PROVE  Kept(x, [x EXCEPT !.status = v])
BY DEF Kept, Fields

LEMMA KeptBare ==
  ASSUME NEW x, Fields \subseteq DOMAIN x, NEW h
  PROVE  Kept(x, Bare(x, h))
BY DEF Kept, Fields, Bare

LEMMA KeptReduced ==
  ASSUME NEW x, Fields \subseteq DOMAIN x, x.status # "none",
         NEW v, v # "none", NEW n, NEW c, NEW freed
  PROVE  Kept(x, ReducedFulfillment([x EXCEPT !.status = v, !.covered = n], c, freed))
<1> DEFINE y == [x EXCEPT !.status = v, !.covered = n]
<1>1. /\ Fields \subseteq DOMAIN y /\ y.status = v
      /\ y.picked = x.picked /\ y.order = x.order
  BY DEF Fields
<1> HIDE DEF y
<1>2. Kept(y, ReducedFulfillment(y, c, freed))
  BY <1>1 DEF Kept, Fields, ReducedFulfillment
<1>3. Kept(x, ReducedFulfillment(y, c, freed))
  BY <1>1, <1>2 DEF Kept
<1> QED BY <1>3 DEF y

LEMMA KeptDesignated ==
  ASSUME NEW x, Fields \subseteq DOMAIN x, x.status # "none", NEW r, NEW n
  PROVE  Kept(x, Designated(x, r, n))
BY DEF Kept, Fields, Designated

LEMMA CreatedNew ==
  ASSUME NEW x, x.status = "none", NEW o \in Orders, NEW a, NEW policy, NEW got, NEW back
  PROVE  Created(x, NewFulfillment(o, a, policy, got, back))
BY DEF Created, Fields, NewFulfillment

LEMMA CreatedFunded ==
  ASSUME NEW x, NEW y, Created(x, y), NEW give
  PROVE  Created(x, Funded(y, give))
BY DEF Created, Fields, Funded

(* One fulfillment order is written. *)
LEMMA OneWritten ==
  ASSUME FulfillmentShape, NEW f \in Fulfillments, NEW y,
         Kept(fo[f], y) \/ Created(fo[f], y), fo' = [fo EXCEPT ![f] = y]
  PROVE  NothingPicked
<1>1. /\ fo' = [g \in Fulfillments |-> fo'[g]]
      /\ \A g \in Fulfillments : fo'[g] = IF g = f THEN y ELSE fo[g]
  BY DEF FulfillmentShape
<1>2. \A g \in Fulfillments : Kept(fo[g], fo'[g]) \/ Created(fo[g], fo'[g])
  BY <1>1, KeptSame DEF FulfillmentShape
<1> QED BY <1>1, <1>2 DEF FulfillmentShape, NothingPicked, Kept, Created

LEMMA NoneWritten ==
  ASSUME FulfillmentShape, UNCHANGED fo
  PROVE  NothingPicked
BY KeptSame DEF NothingPicked, FulfillmentShape

(* Several are written. *)
LEMMA ManyWritten ==
  ASSUME fo' = [f \in Fulfillments |-> fo'[f]],
         \A f \in Fulfillments : Kept(fo[f], fo'[f])
  PROVE  NothingPicked
BY DEF FulfillmentShape, NothingPicked, Kept

LEMMA CreateWritten ==
  ASSUME FulfillmentShape, NEW o \in Orders, NEW a, NEW policy, NEW got, NEW back,
         CreateFulfillment(o, a, policy, got, back)
  PROVE  NothingPicked
<1>1. CASE UNCHANGED fo
  BY <1>1, NoneWritten
<1>2. ASSUME NEW f \in Fulfillments, FreshFulfillment(f),
             fo' = [fo EXCEPT ![f] = NewFulfillment(o, a, policy, got, back)]
      PROVE  NothingPicked
  <2>1. Created(fo[f], NewFulfillment(o, a, policy, got, back))
    BY <1>2, CreatedNew DEF FreshFulfillment
  <2> QED BY <1>2, <2>1, OneWritten
<1> QED BY <1>1, <1>2 DEF CreateFulfillment

LEMMA InvalidateWritten ==
  ASSUME FulfillmentShape, NEW o, NEW a, Invalidate(o, a)
  PROVE  NothingPicked
<1> DEFINE F == {f \in Fulfillments : fo[f].approval = a /\ fo[f].status \notin {"none", "cancelled"}}
<1>1. /\ fo' = [f \in Fulfillments |->
                    IF f \in F THEN [Bare(fo[f], HeldBy(fo[f])) EXCEPT !.status = "cancelled"] ELSE fo[f]]
      /\ \A f \in F : fo[f].status # "none"
  BY DEF Invalidate
<1> HIDE DEF F
<1>2. \A f \in Fulfillments : f \in F => Kept(fo[f], [Bare(fo[f], HeldBy(fo[f])) EXCEPT !.status = "cancelled"])
  <2> TAKE f \in Fulfillments
  <2> HAVE f \in F
  <2>1. Kept(fo[f], Bare(fo[f], HeldBy(fo[f])))
    BY KeptBare DEF FulfillmentShape
  <2>2. Kept(Bare(fo[f], HeldBy(fo[f])), [Bare(fo[f], HeldBy(fo[f])) EXCEPT !.status = "cancelled"])
    BY <1>1, <2>1, KeptStatus DEF Kept
  <2> QED BY <2>1, <2>2 DEF Kept
<1>3. /\ fo' = [f \in Fulfillments |-> fo'[f]]
      /\ \A f \in Fulfillments :
           fo'[f] = IF f \in F THEN [Bare(fo[f], HeldBy(fo[f])) EXCEPT !.status = "cancelled"] ELSE fo[f]
  BY <1>1
<1>4. \A f \in Fulfillments : Kept(fo[f], fo'[f])
  BY <1>2, <1>3, KeptSame DEF FulfillmentShape
<1> QED BY <1>3, <1>4, ManyWritten

LEMMA CancelWritten ==
  ASSUME FulfillmentShape, ReadsOK, NEW o \in Orders, NEW c, Cancel(o, c)
  PROVE  NothingPicked
<1> DEFINE freed == [s \in Skus |-> Lesser(c[s], commitment[o][s].reserved)]
<1>1. PICK seen : seen = cancelling[o]
  OBVIOUS
<1>2. fo' = IF seen.f = 0 THEN fo
            ELSE [fo EXCEPT ![seen.f] = ReducedFulfillment(ReadFulfillment(seen), c, freed)]
  BY <1>1 DEF Cancel
<1> HIDE DEF freed
<1>3. CASE seen.f = 0
  BY <1>2, <1>3, NoneWritten
<1>4. CASE seen.f # 0
  <2>1. PICK f \in Fulfillments : f = seen.f /\ fo[f].status # "none" /\ seen.status # "none"
    BY <1>1, <1>4 DEF ReadsOK
  <2> DEFINE y == ReducedFulfillment(
                    [fo[f] EXCEPT !.status = seen.status, !.covered = seen.covered], c, freed)
  <2>2. fo' = [fo EXCEPT ![f] = y]
    BY <1>2, <1>4, <2>1 DEF ReadFulfillment
  <2>3. Kept(fo[f], y)
    BY <2>1, KeptReduced DEF FulfillmentShape
  <2> HIDE DEF y
  <2> QED BY <2>2, <2>3, OneWritten
<1> QED BY <1>3, <1>4

LEMMA DeadlineWritten ==
  ASSUME FulfillmentShape, NEW f \in Fulfillments, Deadline(f)
  PROVE  NothingPicked
<1> DEFINE y == [Bare(fo[f], HeldBy(fo[f])) EXCEPT
                   !.status = "payment_hold", !.reserved = 0, !.backorder = @ + fo[f].reserved]
<1>1. fo' = [fo EXCEPT ![f] = y]
  BY DEF Deadline
<1>2. Kept(fo[f], y)
  BY DEF Kept, Fields, Bare, FulfillmentShape, Deadline
<1> HIDE DEF y
<1> QED BY <1>1, <1>2, OneWritten

LEMMA RetryWritten ==
  ASSUME FulfillmentShape, NEW o \in Orders, NEW stock \in [Skus -> Nat], Retry(o, stock)
  PROVE  NothingPicked
<1>1. PICK a \in ActiveApprovals(o), f \in Fulfillments, give \in [Receipts -> 0..MaxAmount] :
        Regenerate(o, a, f, give, stock)
  BY DEF Retry
<1>2. \E got, back : LET new == NewFulfillment(o, a, approval[a].policy, got, back)
                     IN  fo' = [fo EXCEPT ![f] = Funded(new, give)]
  BY <1>1 DEF Regenerate
<1>3. PICK got, back :
        fo' = [fo EXCEPT ![f] = Funded(NewFulfillment(o, a, approval[a].policy, got, back), give)]
  BY <1>2
<1>4. fo[f].status = "none"
  BY <1>1 DEF Regenerate, FreshFulfillment
<1>5. Created(fo[f], Funded(NewFulfillment(o, a, approval[a].policy, got, back), give))
  BY <1>4, CreatedNew, CreatedFunded
<1> QED BY <1>3, <1>5, OneWritten

LEMMA ClearWritten ==
  ASSUME FulfillmentShape, NEW r, NEW row, Clear(r, row)
  PROVE  NothingPicked
<1> DEFINE f == row.intended
           n == Designation(f, row.amount)
<1>1. fo' = IF n = 0 THEN fo ELSE [fo EXCEPT ![f] = Designated(fo[f], r, n)]
  BY DEF Clear
<1>2. n # 0 => f \in Fulfillments /\ fo[f].status # "none"
  BY DEF Designation
<1> HIDE DEF n, f
<1>3. f \in Fulfillments /\ fo[f].status # "none" => Kept(fo[f], Designated(fo[f], r, n))
  BY KeptDesignated DEF FulfillmentShape
<1> QED BY <1>1, <1>2, <1>3, OneWritten, NoneWritten

LEMMA ReverseWritten ==
  ASSUME FulfillmentShape, NEW r, ReverseReceipt(r)
  PROVE  NothingPicked
<1>1. PICK F, h : fo' = [f \in Fulfillments |-> IF f \in F THEN Bare(fo[f], h[f]) ELSE fo[f]]
  BY DEF ReverseReceipt
<1>2. /\ fo' = [f \in Fulfillments |-> fo'[f]]
      /\ \A f \in Fulfillments : fo'[f] = IF f \in F THEN Bare(fo[f], h[f]) ELSE fo[f]
  BY <1>1
<1>3. \A f \in Fulfillments : Kept(fo[f], fo'[f])
  BY <1>2, KeptBare, KeptSame DEF FulfillmentShape
<1> QED BY <1>2, <1>3, ManyWritten

(* Approval, cancellation, expiry, retry and payment pick nothing. *)
LEMMA MovesWritten ==
  ASSUME FulfillmentShape, ReadsOK, Moves
  PROVE  NothingPicked
<1>1. ASSUME NEW o \in Orders, Submit(o) PROVE NothingPicked
  BY <1>1, NoneWritten DEF Submit
<1>2. ASSUME NEW o \in Orders, NEW stock, Approve(o, stock) PROVE NothingPicked
  BY <1>2, CreateWritten DEF Approve
<1>3. ASSUME NEW o \in Orders, NEW stock \in [Skus -> Nat], Retry(o, stock) PROVE NothingPicked
  BY <1>3, RetryWritten
<1>4. ASSUME NEW o \in Orders, NEW q, NEW policy, CreateDraft(o, q, policy) PROVE NothingPicked
  BY <1>4, NoneWritten DEF CreateDraft
<1>5. ASSUME NEW o \in Orders, NEW q, NEW policy, Revise(o, q, policy) PROVE NothingPicked
  BY <1>5, NoneWritten, InvalidateWritten DEF Revise
<1>6. ASSUME NEW o \in Orders, NEW c, Cancel(o, c) PROVE NothingPicked
  BY <1>6, CancelWritten
<1>7. ASSUME NEW r, NEW o, NEW amount, RecordReceipt(r, o, amount) \/ RecordCash(r, o, amount)
      PROVE  NothingPicked
  BY <1>7, NoneWritten, ClearWritten DEF RecordReceipt, RecordCash
<1>8. ASSUME NEW f \in Fulfillments, PickRelease(f) \/ Deadline(f) PROVE NothingPicked
  <2>1. CASE PickRelease(f)
    <3>1. fo' = [fo EXCEPT ![f] = ReleasedRow(fo[f])]
      BY <2>1, PickReleaseWrites
    <3>2. fo[f].status # "none" /\ Fields \subseteq DOMAIN fo[f]
      BY <2>1 DEF FulfillmentShape, PickRelease
    <3>3. Kept(fo[f], ReleasedRow(fo[f]))
      BY <3>2 DEF Kept, Fields, ReleasedRow
    <3> QED BY <3>1, <3>3, OneWritten
  <2> QED BY <1>8, <2>1, DeadlineWritten
<1>9. ASSUME NEW r, ClearReceipt(r) \/ ReverseReceipt(r) PROVE NothingPicked
  BY <1>9, ClearWritten, ReverseWritten DEF ClearReceipt
<1>10. ASSUME NEW s, StockIn(s) \/ StockOut(s) PROVE NothingPicked
  BY <1>10, NoneWritten DEF StockIn, StockOut
<1>11. CASE Silent
  BY <1>11, NoneWritten DEF Silent
<1> QED BY <1>1, <1>2, <1>3, <1>4, <1>5, <1>6, <1>7, <1>8, <1>9, <1>10, <1>11, MoveCases

(* A cancellation goes by a fulfillment order of its order. *)
LEMMA ReadsStep ==
  ASSUME FulfillmentShape, ReadsOK, Moves
  PROVE  ReadsOK'
<1>1. \A f \in Fulfillments : fo[f].status # "none" => fo'[f].status # "none"
  BY MovesWritten DEF NothingPicked, Kept, Created
<1>2. CASE UNCHANGED cancelling
  BY <1>1, <1>2 DEF ReadsOK
<1>3. ASSUME NEW o \in Orders, cancelling' = [cancelling EXCEPT ![o] = NoCancellation]
      PROVE  ReadsOK'
  <2>1. /\ cancelling' = [p \in Orders |-> cancelling'[p]]
        /\ \A p \in Orders : cancelling'[p] = IF p = o THEN NoCancellation ELSE cancelling[p]
    BY <1>3 DEF ReadsOK
  <2>2. NoCancellation.f = 0
    BY DEF NoCancellation
  <2> QED BY <1>1, <2>1, <2>2 DEF ReadsOK
<1>4. ASSUME NEW o \in Orders, BeginCancel(o) PROVE ReadsOK'
  <2> DEFINE F == {g \in Fulfillments : fo[g].order = o /\ fo[g].status \notin {"none", "cancelled"}}
             f == LatestOf(F)
             seen == IF f = 0 THEN [NoCancellation EXCEPT !.open = TRUE]
                     ELSE [open |-> TRUE, f |-> f, status |-> fo[f].status, covered |-> fo[f].covered]
  <2>1. cancelling' = [cancelling EXCEPT ![o] = seen] /\ UNCHANGED fo
    BY <1>4 DEF BeginCancel
  <2>2. F \in SUBSET Fulfillments
    OBVIOUS
  <2>3. f \in F \cup {0}
    BY <2>2, LatestType
  <2>4. seen.f # 0 => /\ seen.f \in Fulfillments
                      /\ fo[seen.f].status # "none" /\ seen.status # "none"
    BY <2>3 DEF NoCancellation
  <2> HIDE DEF seen
  <2>5. /\ cancelling' = [p \in Orders |-> cancelling'[p]]
        /\ \A p \in Orders : cancelling'[p] = IF p = o THEN seen ELSE cancelling[p]
    BY <2>1 DEF ReadsOK
  <2> QED BY <2>1, <2>4, <2>5 DEF ReadsOK
<1> QED BY <1>2, <1>3, <1>4, CancellingCases

-----------------------------------------------------------------------------
(* What the steps of Reservation book: at most once, for one order, and every
   line stays a partition. *)

BooksOnce == NoBooking \/ \E o \in Orders : \E d \in [Skus -> Int] : Book(o, d)

Promising == LinesOK' /\ BooksOnce

LEMMA LinesTyped ==
  ASSUME LinesOK, NEW o \in Orders
  PROVE  \A s \in Skus : /\ commitment[o][s] \in CommitmentRows /\ Partitioned(commitment[o][s])
                         /\ commitment[o][s].reserved \in Nat /\ commitment[o][s].ordered \in Nat
<1> TAKE s \in Skus
<1>1. commitment[o][s] \in CommitmentRows /\ Partitioned(commitment[o][s])
  BY DEF LinesOK
<1> QED BY <1>1 DEF CommitmentRows, Partitioned

(* A step that books nothing. *)
LEMMA LinesKept ==
  ASSUME LinesOK, UNCHANGED stockVars, onHand' \in [Skus -> Nat],
         order' \in [Orders -> OrderRows]
  PROVE  Promising
BY DEF LinesOK, stockVars, Promising, BooksOnce, NoBooking

(* The lines of one order are written, and d is booked. *)
LEMMA LinesWritten ==
  ASSUME LinesOK, NEW o \in Orders, NEW line, line = [s \in Skus |-> line[s]],
         \A s \in Skus : line[s] \in CommitmentRows /\ Partitioned(line[s]),
         commitment' = [commitment EXCEPT ![o] = line],
         NEW d, d \in [Skus -> Int], Book(o, d),
         onHand' \in [Skus -> Nat], order' \in [Orders -> OrderRows]
  PROVE  LinesOK'
<1>1. reserved' \in [Skus -> Nat]
  <2>1. /\ reserved' = [s \in Skus |-> reserved[s] + d[s]]
        /\ \A s \in Skus : reserved[s] + d[s] >= 0 /\ reserved[s] \in Nat /\ d[s] \in Int
    BY DEF Book, LinesOK
  <2>2. \A s \in Skus : reserved[s] + d[s] \in Nat
    BY <2>1
  <2> QED BY <2>1, <2>2
<1>2. \A p \in Orders : commitment'[p] = IF p = o THEN line ELSE commitment[p]
  BY DEF LinesOK
<1>3. line \in [Skus -> CommitmentRows]
  OBVIOUS
<1>4. commitment' \in [Orders -> [Skus -> CommitmentRows]]
  BY <1>3 DEF LinesOK
<1>5. \A p \in Orders, s \in Skus : Partitioned(commitment'[p][s])
  BY <1>2 DEF LinesOK
<1> QED BY <1>1, <1>4, <1>5 DEF LinesOK

LEMMA OrderStatusType ==
  ASSUME LinesOK, NEW o \in Orders, NEW v \in {"awaiting_approval", "approved", "held",
             "partially_cancelled", "cancelled"},
         order' = [order EXCEPT ![o].status = v]
  PROVE  order' \in [Orders -> OrderRows]
BY OrderStatusRow DEF LinesOK

LEMMA InvalidatePromising ==
  ASSUME LinesOK, NEW o \in Orders, NEW a, Invalidate(o, a),
         UNCHANGED onHand, order' \in [Orders -> OrderRows]
  PROVE  Promising
<1> DEFINE d    == [s \in Skus |-> IF s \in LinesOf(o, a) THEN -commitment[o][s].reserved ELSE 0]
           line == [s \in Skus |-> IF s \in LinesOf(o, a) THEN NoCommitment ELSE commitment[o][s]]
<1>1. Book(o, d) /\ commitment' = [commitment EXCEPT ![o] = line]
  BY DEF Invalidate, CommitmentsWithout
<1>2. Returned(d)
  BY LinesTyped, LinesReturned
<1>3. NoCommitment \in CommitmentRows /\ Partitioned(NoCommitment)
  BY ReservationAssumption DEF NoCommitment, CommitmentRows, Partitioned
<1>4. \A s \in Skus : line[s] \in CommitmentRows /\ Partitioned(line[s])
  BY <1>3, LinesTyped
<1>5. onHand' \in [Skus -> Nat]
  BY DEF LinesOK
<1>6. line = [s \in Skus |-> line[s]]
  OBVIOUS
<1> HIDE DEF d, line
<1>7. LinesOK'
  BY <1>1, <1>2, <1>4, <1>5, <1>6, LinesWritten DEF Returned
<1> QED BY <1>1, <1>2, <1>7 DEF Promising, BooksOnce, Returned

LEMMA RevisePromising ==
  ASSUME LinesOK, NEW o \in Orders, NEW q \in Quantities, NEW policy \in Policies,
         Revise(o, q, policy)
  PROVE  Promising
<1>1. Quantities \subseteq [Skus -> Nat]
  BY ReservationAssumption DEF Quantities
<1>2. order' \in [Orders -> OrderRows]
  BY <1>1, RevisionType DEF Revise, LinesOK
<1>3. CASE \E a \in ActiveApprovals(o) : Invalidate(o, a)
  BY <1>2, <1>3, InvalidatePromising DEF Revise
<1>4. CASE UNCHANGED stockVars
  <2>1. onHand' \in [Skus -> Nat]
    BY DEF Revise, LinesOK
  <2> QED BY <1>2, <1>4, <2>1, LinesKept
<1> QED BY <1>3, <1>4 DEF Revise

LEMMA ApprovePromising ==
  ASSUME LinesOK, NEW o \in Orders, NEW stock \in [Skus -> Nat], Approve(o, stock)
  PROVE  Promising
<1>1. PICK want : want = order[o].qty
  OBVIOUS
<1>2. PICK got : got = Grantable(want, stock)
  OBVIOUS
<1>3. want \in [Skus -> Nat]
  BY <1>1 DEF LinesOK, OrderRows
<1>4. got = [s \in Skus |-> got[s]]
  BY <1>2 DEF Grantable
<1>5. \A s \in Skus : want[s] \in Nat /\ got[s] \in Nat /\ got[s] <= want[s]
  BY <1>2, <1>3, GrantableBounds DEF LinesOK
<1>6. PICK a \in Approvals :
        /\ order' = [order EXCEPT ![o].status = "approved", ![o].approved = a]
        /\ commitment' = [commitment EXCEPT ![o] = [s \in Skus |->
             IF want[s] > 0 THEN NewCommitment(a, want[s], got[s], want[s] - got[s])
             ELSE commitment[o][s]]]
  <2>1. order[o].qty = want /\ Grantable(order[o].qty, stock) = got
    BY <1>1, <1>2
  <2> QED BY <2>1, ZenonT(40) DEF Approve
<1>7. Book(o, got) /\ UNCHANGED onHand
  BY <1>1, <1>2 DEF Approve
<1>8. order' \in [Orders -> OrderRows]
  <2>1. order \in [Orders -> OrderRows]
    BY DEF LinesOK
  <2>2. [order EXCEPT ![o].status = "approved", ![o].approved = a] \in [Orders -> OrderRows]
    BY <2>1, OrderApprovedRow
  <2> QED BY <1>6, <2>2
<1> DEFINE new(s) == NewCommitment(a, want[s], got[s], want[s] - got[s])
           line == [s \in Skus |-> IF want[s] > 0 THEN new(s) ELSE commitment[o][s]]
<1>9. \A s \in Skus : new(s) \in CommitmentRows /\ Partitioned(new(s))
  <2> TAKE s \in Skus
  <2>1. /\ want[s] - got[s] \in Nat /\ a \in 0..MaxApprovals
        /\ got[s] + 0 + (want[s] - got[s]) + 0 = want[s]
    BY <1>5, ReservationAssumption DEF Approvals
  <2> QED BY <1>5, <2>1 DEF NewCommitment, CommitmentRows, Partitioned
<1>10. \A s \in Skus : line[s] \in CommitmentRows /\ Partitioned(line[s])
  <2> HIDE DEF new
  <2> QED BY <1>9, LinesTyped
<1>11. /\ line = [s \in Skus |-> line[s]]
       /\ commitment' = [commitment EXCEPT ![o] = line]
  BY <1>6
<1> HIDE DEF line
<1>12. LinesOK'
  <2>1. got \in [Skus -> Int] /\ onHand' \in [Skus -> Nat]
    BY <1>4, <1>5, <1>7 DEF LinesOK
  <2> QED BY <1>7, <1>8, <1>10, <1>11, <2>1, LinesWritten
<1>13. got \in [Skus -> Int]
  BY <1>4, <1>5
<1> QED BY <1>7, <1>12, <1>13 DEF Promising, BooksOnce

LEMMA RetryPromising ==
  ASSUME LinesOK, NEW o \in Orders, NEW stock \in [Skus -> Nat], Retry(o, stock)
  PROVE  Promising
<1>1. PICK a \in ActiveApprovals(o), f \in Fulfillments, give \in [Receipts -> 0..MaxAmount] :
        Regenerate(o, a, f, give, stock)
  BY DEF Retry
<1>2. PICK want : want = [s \in Skus |->
                            IF s \in LinesOf(o, a) THEN commitment[o][s].ordered ELSE 0]
  OBVIOUS
<1>3. PICK got : got = Grantable(want, stock)
  OBVIOUS
<1>4. want \in [Skus -> Nat]
  BY <1>2, LinesTyped
<1>5. got \in [Skus -> Int]
  <2>1. got = [s \in Skus |-> got[s]]
    BY <1>3 DEF Grantable
  <2>2. \A s \in Skus : got[s] \in Nat
    BY <1>3, <1>4, GrantableBounds DEF LinesOK
  <2> QED BY <2>1, <2>2
<1> DEFINE row(s) == Recommitted(commitment[o][s], got[s], want[s] - got[s])
           line == [s \in Skus |-> IF s \in LinesOf(o, a) THEN row(s) ELSE commitment[o][s]]
<1>6. /\ Book(o, got)
      /\ commitment' = [commitment EXCEPT ![o] = line]
      /\ \A s \in LinesOf(o, a) : Partitioned(row(s))
  BY <1>1, <1>2, <1>3 DEF Regenerate, LinesOf
<1>7. UNCHANGED onHand /\ order' \in [Orders -> OrderRows]
  BY OrderStatusType DEF Retry
<1>8. \A s \in Skus : line[s] \in CommitmentRows /\ Partitioned(line[s])
  <2>1. \A s \in Skus : row(s) \in CommitmentRows
    <3> TAKE s \in Skus
    <3>1. got[s] \in Int /\ want[s] - got[s] \in Int /\ commitment[o][s] \in CommitmentRows
      BY <1>4, <1>5, LinesTyped
    <3> QED BY <3>1, RecommittedType
  <2> HIDE DEF row
  <2> QED BY <1>6, <2>1, LinesTyped
<1>9. line = [s \in Skus |-> line[s]]
  OBVIOUS
<1> HIDE DEF line
<1>10. LinesOK'
  <2>1. got \in [Skus -> Int] /\ onHand' \in [Skus -> Nat]
    BY <1>5, <1>7 DEF LinesOK
  <2> QED BY <1>6, <1>7, <1>8, <1>9, <2>1, LinesWritten
<1> QED BY <1>5, <1>6, <1>10 DEF Promising, BooksOnce

LEMMA CancelPromising ==
  ASSUME LinesOK, NEW o \in Orders, NEW c \in Quantities, Cancel(o, c)
  PROVE  Promising
<1>1. PICK freed : freed = [s \in Skus |-> Lesser(c[s], commitment[o][s].reserved)]
  OBVIOUS
<1> DEFINE lines  == {s \in Skus : c[s] > 0}
           row(s) == commitment[o][s]
           cut(s) == [row(s) EXCEPT !.reserved = @ - freed[s],
                                    !.backorder = @ - (c[s] - freed[s]),
                                    !.cancelled = @ + c[s]]
           line == [s \in Skus |-> IF s \in lines THEN cut(s) ELSE row(s)]
           d    == [s \in Skus |-> -freed[s]]
<1>2. /\ Book(o, d) /\ UNCHANGED onHand
      /\ commitment' = [commitment EXCEPT ![o] = line]
      /\ \A s \in lines : c[s] <= row(s).ordered - row(s).picked - row(s).cancelled
  BY <1>1 DEF Cancel, OpenQuantity
<1>3. order' \in [Orders -> OrderRows]
  <2>1. \E v \in {"cancelled", "held", "partially_cancelled"} :
          order' = [order EXCEPT ![o].status = v]
    BY DEF Cancel
  <2> QED BY <2>1, OrderStatusType
<1>4. \A s \in Skus : /\ c[s] \in Nat /\ freed[s] \in Nat
                      /\ freed[s] <= c[s] /\ freed[s] <= commitment[o][s].reserved
                      /\ freed[s] = c[s] \/ freed[s] = commitment[o][s].reserved
  BY <1>1, LinesTyped, ReservationAssumption DEF Quantities, Lesser
<1>5. \A s \in lines : cut(s) \in CommitmentRows /\ Partitioned(cut(s))
  <2> TAKE s \in lines
  <2>1. row(s) \in CommitmentRows /\ Partitioned(row(s))
    BY LinesTyped
  <2>2. /\ c[s] \in Nat /\ freed[s] \in Nat
        /\ freed[s] <= c[s] /\ freed[s] <= row(s).reserved
        /\ freed[s] = c[s] \/ freed[s] = row(s).reserved
        /\ c[s] <= row(s).ordered - row(s).picked - row(s).cancelled
    BY <1>2, <1>4
  <2> HIDE DEF row
  <2> QED BY <2>1, <2>2, CutLine
<1>6. \A s \in Skus : line[s] \in CommitmentRows /\ Partitioned(line[s])
  <2> HIDE DEF cut
  <2> QED BY <1>5, LinesTyped
<1>7. Returned(d)
  BY <1>4 DEF Returned
<1>8. line = [s \in Skus |-> line[s]] /\ onHand' \in [Skus -> Nat]
  BY <1>2 DEF LinesOK
<1> HIDE DEF line, d
<1>9. LinesOK'
  BY <1>2, <1>3, <1>6, <1>7, <1>8, LinesWritten, SMTT(30) DEF Returned
<1> QED BY <1>2, <1>7, <1>9 DEF Promising, BooksOnce, Returned

LEMMA DeadlinePromising ==
  ASSUME LinesOK, FulfillmentsOwned, NEW f \in Fulfillments, Deadline(f)
  PROVE  Promising
<1>1. PICK o \in Orders : o = fo[f].order
  BY SMTT(30) DEF Deadline, FulfillmentsOwned
<1> DEFINE lines  == {s \in LinesOf(o, fo[f].approval) : commitment[o][s].reserved > 0}
           row(s) == Recommitted(commitment[o][s], 0, commitment[o][s].ordered)
           d    == [s \in Skus |-> IF s \in lines THEN -commitment[o][s].reserved ELSE 0]
           line == [s \in Skus |-> IF s \in lines THEN row(s) ELSE commitment[o][s]]
<1>2. /\ Book(o, d) /\ UNCHANGED onHand
      /\ commitment' = [commitment EXCEPT ![o] = line]
      /\ order' = [order EXCEPT ![o].status = "held"]
      /\ \A s \in lines : Partitioned(row(s))
  BY <1>1 DEF Deadline
<1>3. order' \in [Orders -> OrderRows]
  BY <1>2, OrderStatusType
<1>4. Returned(d)
  BY LinesTyped, LinesReturned
<1>5. \A s \in Skus : line[s] \in CommitmentRows /\ Partitioned(line[s])
  <2>1. \A s \in Skus : row(s) \in CommitmentRows
    <3> TAKE s \in Skus
    <3>1. 0 \in Int /\ commitment[o][s].ordered \in Int /\ commitment[o][s] \in CommitmentRows
      BY LinesTyped
    <3> QED BY <3>1, RecommittedType
  <2> HIDE DEF row
  <2> QED BY <1>2, <2>1, LinesTyped
<1>6. line = [s \in Skus |-> line[s]] /\ onHand' \in [Skus -> Nat]
  BY <1>2 DEF LinesOK
<1> HIDE DEF line, d
<1>7. LinesOK'
  BY <1>2, <1>3, <1>4, <1>5, <1>6, LinesWritten DEF Returned
<1> QED BY <1>2, <1>4, <1>7 DEF Promising, BooksOnce, Returned

(* Every step of Reservation books at most once, whatever is picked. *)
LEMMA MovesPromising ==
  ASSUME LinesOK, FulfillmentsOwned, Moves
  PROVE  Promising
<1>1. onHand \in [Skus -> Nat] /\ order \in [Orders -> OrderRows]
  BY DEF LinesOK
<1>2. Quantities \subseteq [Skus -> Nat]
  BY ReservationAssumption DEF Quantities
<1>3. ASSUME NEW o \in Orders, Submit(o) PROVE Promising
  <2>1. order' \in [Orders -> OrderRows] /\ UNCHANGED onHand /\ UNCHANGED stockVars
    BY <1>3, OrderStatusType DEF Submit
  <2> QED BY <1>1, <2>1, LinesKept
<1>4. ASSUME NEW o \in Orders, NEW stock \in [Skus -> Nat], Approve(o, stock) \/ Retry(o, stock)
      PROVE  Promising
  BY <1>4, ApprovePromising, RetryPromising
<1>5. ASSUME NEW o \in Orders, NEW q \in Quantities, NEW policy \in Policies,
             CreateDraft(o, q, policy)
      PROVE  Promising
  <2>1. order' \in [Orders -> OrderRows]
    BY <1>1, <1>2, <1>5, RevisionType DEF CreateDraft
  <2>2. UNCHANGED onHand /\ UNCHANGED stockVars
    BY <1>5 DEF CreateDraft
  <2> QED BY <1>1, <2>1, <2>2, LinesKept
<1>6. ASSUME NEW o \in Orders, NEW q \in Quantities, NEW policy \in Policies,
             Revise(o, q, policy)
      PROVE  Promising
  BY <1>6, RevisePromising
<1>7. ASSUME NEW o \in Orders, NEW c \in Quantities, Cancel(o, c) PROVE Promising
  BY <1>7, CancelPromising
<1>8. ASSUME NEW f \in Fulfillments, Deadline(f) PROVE Promising
  BY <1>8, DeadlinePromising
<1>9. ASSUME UNCHANGED <<onHand, stockVars, order>> PROVE Promising
  <2>1. onHand' \in [Skus -> Nat] /\ order' \in [Orders -> OrderRows] /\ UNCHANGED stockVars
    BY <1>1, <1>9
  <2> QED BY <2>1, LinesKept
<1>10. ASSUME NEW r, NEW o, NEW amount, RecordReceipt(r, o, amount) \/ RecordCash(r, o, amount)
       PROVE  Promising
  BY <1>9, <1>10 DEF RecordReceipt, RecordCash
<1>11. ASSUME NEW f \in Fulfillments, PickRelease(f) PROVE Promising
  BY <1>9, <1>11 DEF PickRelease
<1>12. ASSUME NEW r, ClearReceipt(r) \/ ReverseReceipt(r) PROVE Promising
  BY <1>9, <1>12 DEF ClearReceipt, ReverseReceipt
<1>13. ASSUME NEW s \in Skus, StockIn(s) \/ StockOut(s) PROVE Promising
  <2>1. onHand' \in [Skus -> Nat]
    BY <1>1, <1>13 DEF StockIn, StockOut
  <2>2. UNCHANGED stockVars /\ UNCHANGED order
    BY <1>13 DEF StockIn, StockOut
  <2> QED BY <1>1, <2>1, <2>2, LinesKept
<1>14. CASE Silent
  BY <1>9, <1>14 DEF Silent
<1> QED BY <1>3, <1>4, <1>5, <1>6, <1>7, <1>8, <1>10, <1>11, <1>12, <1>13, <1>14, MoveCases

(* A pick or its reversal leaves the lines partitions too. *)
LEMMA StagePromising ==
  ASSUME LinesOK, NEW o \in Orders, NEW d, d \in [Skus -> Int], Stage(o, d), UNCHANGED order
  PROVE  LinesOK'
<1> DEFINE row(s)  == [commitment[o][s] EXCEPT !.reserved = @ - d[s], !.picked = @ + d[s]]
           line == [s \in Skus |-> IF commitment[o][s].approval = 0 THEN commitment[o][s]
                                   ELSE row(s)]
           b == [s \in Skus |-> -d[s]]
<1>1. /\ commitment' = [commitment EXCEPT ![o] = line]
      /\ Book(o, b)
      /\ onHand' = [s \in Skus |-> onHand[s] - d[s]]
      /\ \A s \in Skus : d[s] <= onHand[s]
      /\ \A s \in Skus : d[s] # 0 => Partitioned(line[s])
  BY DEF Stage, Consumed, AvailableAfter, LinesOK
<1>2. \A s \in Skus : onHand[s] \in Nat /\ reserved[s] \in Nat /\ d[s] \in Int
  BY DEF LinesOK
<1>3. onHand' \in [Skus -> Nat]
  <2> HIDE DEF line, b
  <2>1. \A s \in Skus : onHand[s] - d[s] \in Nat
    BY <1>1, <1>2
  <2> QED BY <1>1, <2>1
<1>4. \A s \in Skus : row(s) \in CommitmentRows /\ (d[s] = 0 => row(s) = commitment[o][s])
  <2> TAKE s \in Skus
  <2>1. PICK k \in CommitmentRows : k = commitment[o][s]
    BY LinesTyped
  <2>2. PICK n \in Int : n = d[s]
    BY <1>2
  <2>3. k.reserved \in Int /\ k.picked \in Int
    BY DEF CommitmentRows
  <2>4. [k EXCEPT !.reserved = @ - n, !.picked = @ + n] \in CommitmentRows
    <3>1. PICK x \in Int, y \in Int : x = k.reserved - n /\ y = k.picked + n
      BY <2>3
    <3>2. [k EXCEPT !.reserved = x, !.picked = y] \in CommitmentRows
      BY DEF CommitmentRows
    <3> QED BY <3>1, <3>2
  <2>5. n = 0 => [k EXCEPT !.reserved = @ - n, !.picked = @ + n] = k
    <3>1. n = 0 => k.reserved - n = k.reserved /\ k.picked + n = k.picked
      BY <2>3
    <3> QED BY <3>1 DEF CommitmentRows
  <2> QED BY <2>1, <2>2, <2>4, <2>5
<1>5. \A s \in Skus : line[s] \in CommitmentRows /\ Partitioned(line[s])
  <2> HIDE DEF row
  <2>1. \A s \in Skus : line[s] \in CommitmentRows
    BY <1>4, LinesTyped
  <2>2. \A s \in Skus : d[s] = 0 => line[s] = commitment[o][s]
    BY <1>4
  <2> QED BY <1>1, <2>1, <2>2, LinesTyped
<1>6. b \in [Skus -> Int]
  BY <1>2
<1>7. line = [s \in Skus |-> line[s]] /\ order' \in [Orders -> OrderRows]
  BY DEF LinesOK
<1> HIDE DEF line, b
<1> QED BY <1>1, <1>3, <1>5, <1>6, <1>7, LinesWritten

-----------------------------------------------------------------------------
(* What several picks move: k is what pick is, now or after a step. *)

QtyTotal(k, P, s) == Total([p \in P |-> k[p].qty[s]], P)

SumTotal(k, P) == Total([s \in Skus |-> QtyTotal(k, P, s)], Skus)

Posted == {p \in Picks : pick[p].state = "posted"}

LEMMA QtyType ==
  ASSUME NEW k \in [Picks -> PickRows], NEW P \in SUBSET Picks, NEW s \in Skus
  PROVE  QtyTotal(k, P, s) \in Nat
<1> DEFINE f == [p \in P |-> k[p].qty[s]]
<1>1. IsFiniteSet(P)
  BY PickingAssumption, FS_Subset
<1>2. \A p \in P : f[p] \in Nat
  BY DEF PickRows
<1> HIDE DEF f
<1>3. Total(f, P) \in Nat
  BY <1>1, <1>2, TotalType
<1> QED BY <1>3 DEF QtyTotal, f

LEMMA QtySame ==
  ASSUME NEW k, NEW l, NEW P, NEW s, \A p \in P : k[p].qty[s] = l[p].qty[s]
  PROVE  QtyTotal(k, P, s) = QtyTotal(l, P, s)
<1> DEFINE f == [p \in P |-> k[p].qty[s]]
           g == [p \in P |-> l[p].qty[s]]
<1>1. \A p \in P : f[p] = g[p]
  OBVIOUS
<1>2. Total(f, P) = Total(g, P)
  BY <1>1, TotalSame
<1> QED BY <1>2 DEF QtyTotal

(* One pick more. *)
LEMMA QtyWith ==
  ASSUME NEW k \in [Picks -> PickRows], NEW P \in SUBSET Picks,
         NEW p \in Picks, p \notin P, NEW s \in Skus
  PROVE  QtyTotal(k, P \cup {p}, s) = QtyTotal(k, P, s) + k[p].qty[s]
<1> DEFINE S == P \cup {p}
           f == [x \in S |-> k[x].qty[s]]
           g == [x \in P |-> k[x].qty[s]]
<1>1. IsFiniteSet(S)
  BY PickingAssumption, FS_Subset
<1>2. \A x \in S : f[x] \in Nat
  BY DEF PickRows
<1>3. Total(f, S) = Total(f, S \ {p}) + f[p]
  <2> HIDE DEF f
  <2> QED BY <1>1, <1>2, TotalSplit
<1>4. S \ {p} = P
  OBVIOUS
<1>5. Total(f, P) = Total(g, P)
  <2>1. \A x \in P : f[x] = g[x]
    OBVIOUS
  <2> QED BY <2>1, TotalSame
<1>6. f[p] = k[p].qty[s]
  OBVIOUS
<1> QED BY <1>3, <1>4, <1>5, <1>6 DEF QtyTotal

(* The picks P have the quantities they have in k, and pick p joins them. *)
LEMMA QtyJoin ==
  ASSUME NEW k \in [Picks -> PickRows], NEW l \in [Picks -> PickRows],
         NEW P \in SUBSET Picks, NEW p \in Picks, p \notin P,
         \A x \in P : l[x].qty = k[x].qty, NEW s \in Skus
  PROVE  /\ QtyTotal(l, P \cup {p}, s) = QtyTotal(k, P, s) + l[p].qty[s]
         /\ QtyTotal(k, P, s) \in Nat /\ l[p].qty[s] \in Nat
<1>1. QtyTotal(l, P \cup {p}, s) = QtyTotal(l, P, s) + l[p].qty[s]
  BY QtyWith
<1>2. QtyTotal(k, P, s) = QtyTotal(l, P, s)
  BY QtySame
<1>3. l[p].qty[s] \in Nat
  BY DEF PickRows
<1> QED BY <1>1, <1>2, <1>3, QtyType

LEMMA SumSame ==
  ASSUME NEW k, NEW l, NEW P, \A x \in P : l[x].qty = k[x].qty
  PROVE  SumTotal(l, P) = SumTotal(k, P)
<1> DEFINE f == [s \in Skus |-> QtyTotal(k, P, s)]
           g == [s \in Skus |-> QtyTotal(l, P, s)]
<1>1. \A s \in Skus : f[s] = g[s]
  BY QtySame
<1>2. Total(f, Skus) = Total(g, Skus)
  BY <1>1, TotalSame
<1> QED BY <1>2 DEF SumTotal

LEMMA SumJoin ==
  ASSUME NEW k \in [Picks -> PickRows], NEW l \in [Picks -> PickRows],
         NEW P \in SUBSET Picks, NEW p \in Picks, p \notin P,
         \A x \in P : l[x].qty = k[x].qty
  PROVE  /\ SumTotal(l, P \cup {p}) = SumTotal(k, P) + Total(l[p].qty, Skus)
         /\ SumTotal(k, P) \in Nat /\ Total(l[p].qty, Skus) \in Nat
<1> DEFINE f == [s \in Skus |-> QtyTotal(k, P, s)]
           h == [s \in Skus |-> QtyTotal(l, P \cup {p}, s)]
<1>1. IsFiniteSet(Skus)
  BY ReservationAssumption
<1>2. \A s \in Skus : f[s] \in Nat /\ l[p].qty[s] \in Nat /\ h[s] = f[s] + l[p].qty[s]
  <2> TAKE s \in Skus
  <2>1. /\ QtyTotal(l, P \cup {p}, s) = QtyTotal(k, P, s) + l[p].qty[s]
        /\ QtyTotal(k, P, s) \in Nat /\ l[p].qty[s] \in Nat
    BY QtyJoin, ZenonT(40)
  <2> QED BY <2>1
<1> HIDE DEF f, h
<1>3. Total(h, Skus) = Total(f, Skus) + Total(l[p].qty, Skus)
  BY <1>1, <1>2, TotalSum
<1>4. Total(f, Skus) \in Nat /\ Total(l[p].qty, Skus) \in Nat
  BY <1>1, <1>2, TotalType
<1> QED BY <1>3, <1>4 DEF SumTotal, f, h

LEMMA SumZero ==
  ASSUME NEW k
  PROVE  SumTotal(k, {}) = 0
<1> DEFINE f == [s \in Skus |-> QtyTotal(k, {}, s)]
<1>1. \A s \in Skus : QtyTotal(k, {}, s) = 0
  <2> TAKE s \in Skus
  <2> DEFINE g == [p \in {} |-> k[p].qty[s]]
  <2>1. Total(g, {}) = 0
    BY TotalZero
  <2> QED BY <2>1 DEF QtyTotal
<1>2. \A s \in Skus : f[s] = 0
  BY <1>1
<1>3. Total(f, Skus) = 0
  BY <1>2, TotalZero
<1> QED BY <1>3 DEF SumTotal

LEMMA Balances ==
  /\ CustodyBalances <=> \A s \in Skus : staged[s] + transit[s] = QtyTotal(pick, Posted, s)
  /\ FulfillmentPicked <=>
       \A f \in Fulfillments : /\ fo[f].picked = SumTotal(pick, PostedOf(f))
                               /\ dispatched[f] <= fo[f].picked
BY DEF CustodyBalances, FulfillmentPicked, QtyTotal, SumTotal, PickTotal, Posted

LEMMA BalancesNext ==
  /\ CustodyBalances' <=> \A s \in Skus : staged'[s] + transit'[s] = QtyTotal(pick', Posted', s)
  /\ FulfillmentPicked' <=>
       \A f \in Fulfillments : /\ fo'[f].picked = SumTotal(pick', PostedOf(f)')
                               /\ dispatched'[f] <= fo'[f].picked
BY DEF CustodyBalances, FulfillmentPicked, QtyTotal, SumTotal, PickTotal, Posted

(* The picked quantity and the status of one fulfillment order are written. *)
LEMMA PickedWritten ==
  ASSUME FulfillmentShape, NEW f \in Fulfillments, NEW n, NEW v,
         fo' = [fo EXCEPT ![f].picked = n, ![f].status = v]
  PROVE  /\ FulfillmentShape'
         /\ fo'[f].picked = n /\ fo'[f].status = v /\ fo'[f].order = fo[f].order
         /\ \A g \in Fulfillments \ {f} : fo'[g] = fo[g]
<1> DEFINE y == [[fo[f] EXCEPT !.picked = n] EXCEPT !.status = v]
<1>1. /\ fo' = [g \in Fulfillments |-> fo'[g]]
      /\ \A g \in Fulfillments : fo'[g] = IF g = f THEN y ELSE fo[g]
  BY DEF FulfillmentShape
<1>2. Fields \subseteq DOMAIN y /\ y.picked = n /\ y.status = v /\ y.order = fo[f].order
  BY DEF FulfillmentShape, Fields
<1> QED BY <1>1, <1>2 DEF FulfillmentShape

LEMMA StatusWritten ==
  ASSUME FulfillmentShape, NEW f \in Fulfillments, NEW v, fo' = [fo EXCEPT ![f].status = v]
  PROVE  /\ FulfillmentShape'
         /\ fo'[f].picked = fo[f].picked /\ fo'[f].status = v /\ fo'[f].order = fo[f].order
         /\ \A g \in Fulfillments \ {f} : fo'[g] = fo[g]
<1> DEFINE y == [fo[f] EXCEPT !.status = v]
<1>1. /\ fo' = [g \in Fulfillments |-> fo'[g]]
      /\ \A g \in Fulfillments : fo'[g] = IF g = f THEN y ELSE fo[g]
  BY DEF FulfillmentShape
<1>2. /\ Fields \subseteq DOMAIN y
      /\ y.picked = fo[f].picked /\ y.status = v /\ y.order = fo[f].order
  BY DEF FulfillmentShape, Fields
<1> QED BY <1>1, <1>2 DEF FulfillmentShape

-----------------------------------------------------------------------------
(* The steps *)

LEMMA PickingInitInv ==
  ASSUME PickingInit
  PROVE  PickingInv
<1>1. FulfillmentShape
  BY DEF PickingInit, Init, NoFulfillment, FulfillmentShape, Fields
<1>2. NoPick \in PickRows
  BY ReservationAssumption DEF NoPick, PickRows, PickStates
<1>3. MovedTypeOK
  BY <1>2 DEF PickingInit, MovedTypeOK
<1>4. \A p \in Picks : pick[p].state = "none"
  BY DEF PickingInit, NoPick
<1>5. PicksOwned
  BY <1>4 DEF PicksOwned
<1>6. Posted = {} /\ \A f \in Fulfillments : PostedOf(f) = {}
  BY <1>4 DEF Posted, PostedOf
<1>7. CustodyBalances
  <2>1. \A s \in Skus : QtyTotal(pick, {}, s) = 0
    <3> TAKE s \in Skus
    <3> DEFINE g == [p \in {} |-> pick[p].qty[s]]
    <3>1. Total(g, {}) = 0
      BY TotalZero
    <3> QED BY <3>1 DEF QtyTotal
  <2>2. \A s \in Skus : staged[s] + transit[s] = 0
    BY DEF PickingInit
  <2> QED BY <1>6, <2>1, <2>2, Balances
<1>8. FulfillmentPicked
  <2>1. \A f \in Fulfillments : fo[f].picked = 0 /\ dispatched[f] = 0
    BY DEF PickingInit, Init, NoFulfillment
  <2> QED BY <1>6, <2>1, SumZero, Balances
<1>9. FulfillmentsOwned
  BY DEF PickingInit, Init, NoFulfillment, FulfillmentsOwned
<1>10. LinesOK
  BY ReservationAssumption
  DEF PickingInit, Init, LinesOK, OrderRows, CommitmentRows, NoCommitment, Partitioned
<1>11. ReadsOK /\ LooksOK
  BY DEF PickingInit, Init, ReadsOK, LooksOK, NoCancellation, NoLook
<1> QED BY <1>1, <1>3, <1>5, <1>7, <1>8, <1>9, <1>10, <1>11 DEF PickingInv

(* A step of Reservation. *)
LEMMA ReservationStep ==
  ASSUME PickingInv, Moves, UNCHANGED pickVars, LooksOK'
  PROVE  PickingInv'
<1>1. NothingPicked
  BY MovesWritten DEF PickingInv
<1>2. MovedTypeOK'
  BY DEF PickingInv, MovedTypeOK, pickVars
<1>3. PicksOwned'
  BY <1>1 DEF PickingInv, PicksOwned, NothingPicked, Kept, Created, pickVars
<1>4. CustodyBalances'
  BY DEF PickingInv, CustodyBalances, PickTotal, pickVars
<1>5. FulfillmentPicked'
  <2>1. UNCHANGED <<pick, dispatched>> /\ \A f \in Fulfillments : PostedOf(f)' = PostedOf(f)
    BY DEF pickVars, PostedOf
  <2> SUFFICES ASSUME NEW f \in Fulfillments
               PROVE  /\ fo'[f].picked = SumTotal(pick, PostedOf(f))
                      /\ dispatched[f] <= fo'[f].picked
    BY <2>1, BalancesNext
  <2>2. fo[f].picked = SumTotal(pick, PostedOf(f)) /\ dispatched[f] <= fo[f].picked
    BY Balances DEF PickingInv
  <2>3. CASE Kept(fo[f], fo'[f])
    BY <2>2, <2>3 DEF Kept
  <2>4. CASE Created(fo[f], fo'[f])
    <3>1. PostedOf(f) = {}
      BY <2>4 DEF PickingInv, PicksOwned, PostedOf, Created
    <3>2. fo[f].picked = 0 /\ fo'[f].picked = 0
      BY <2>2, <2>4, <3>1, SumZero DEF Created
    <3> QED BY <2>2, <3>2
  <2> QED BY <1>1, <2>3, <2>4 DEF NothingPicked
<1>6. FulfillmentsOwned'
  BY <1>1 DEF PickingInv, FulfillmentsOwned, NothingPicked, Kept, Created
<1>7. LinesOK'
  BY MovesPromising DEF PickingInv, Promising
<1>8. ReadsOK'
  BY ReadsStep DEF PickingInv
<1> QED BY <1>1, <1>2, <1>3, <1>4, <1>5, <1>6, <1>7, <1>8 DEF PickingInv, NothingPicked

(* A pick, its reversal or a dispatch leaves what others have read alone. *)
LEMMA ReadsKept ==
  ASSUME ReadsOK, LooksOK, UNCHANGED <<inFlight, looked>>,
         \A f \in Fulfillments : fo[f].status # "none" => fo'[f].status # "none"
  PROVE  ReadsOK' /\ LooksOK'
BY DEF ReadsOK, LooksOK, inFlight

LEMMA PostStep ==
  ASSUME PickingInv, NEW p \in Picks, NEW f \in Fulfillments, NEW q \in Quantities,
         PostPick(p, f, q)
  PROVE  PickingInv'
<1> DEFINE row == [state |-> "posted", fulfillment |-> f, qty |-> q, sent |-> FALSE]
<1>1. /\ pick[p].state = "none"
      /\ fo[f].status \in {"pick_released", "partially_picked"}
      /\ pick' = [pick EXCEPT ![p] = row]
      /\ UNCHANGED <<transit, dispatched>>
  BY DEF PostPick
<1>2. /\ \A s \in Skus : -q[s] <= staged[s]
      /\ staged' = [s \in Skus |-> staged[s] + q[s]]
  BY DEF PostPick, Stage, StagedAfter
<1>3. PICK v, n : /\ fo' = [fo EXCEPT ![f].picked = n, ![f].status = v]
                  /\ n = fo[f].picked + Total(q, Skus)
                  /\ v \in {"picked", "partially_picked"}
  BY DEF PostPick, PickedAfter, PickedStatus
<1>4. /\ FulfillmentShape'
      /\ fo'[f].picked = fo[f].picked + Total(q, Skus) /\ fo'[f].status = v
      /\ fo'[f].order = fo[f].order
      /\ \A g \in Fulfillments \ {f} : fo'[g] = fo[g]
  <2>1. FulfillmentShape /\ fo' = [fo EXCEPT ![f].picked = n, ![f].status = v]
    BY <1>3 DEF PickingInv
  <2>2. /\ FulfillmentShape'
        /\ fo'[f].picked = n /\ fo'[f].status = v /\ fo'[f].order = fo[f].order
        /\ \A g \in Fulfillments \ {f} : fo'[g] = fo[g]
    BY <2>1, PickedWritten
  <2> QED BY <1>3, <2>2
<1>5. q \in [Skus -> Nat] /\ row \in PickRows
  BY ReservationAssumption DEF Quantities, PickRows, PickStates, Fulfillments
<1>6. /\ pick \in [Picks -> PickRows] /\ pick' \in [Picks -> PickRows]
      /\ pick'[p] = row /\ \A x \in Picks \ {p} : pick'[x] = pick[x]
  BY <1>1, <1>5 DEF PickingInv, MovedTypeOK
<1>7. MovedTypeOK'
  BY <1>1, <1>2, <1>5, <1>6 DEF PickingInv, MovedTypeOK
<1>8. PicksOwned'
  <2>1. \A g \in Fulfillments : fo[g].status # "none" => fo'[g].status # "none"
    BY <1>3, <1>4
  <2>2. pick'[p].fulfillment = f /\ fo'[f].status # "none"
    BY <1>3, <1>4, <1>6
  <2>3. \A x \in Picks \ {p} : pick'[x].state = "posted" =>
          /\ pick'[x].fulfillment \in Fulfillments
          /\ fo'[pick'[x].fulfillment].status # "none"
    BY <1>6, <2>1 DEF PickingInv, PicksOwned
  <2> QED BY <2>2, <2>3 DEF PicksOwned
<1>9. /\ p \notin Posted /\ Posted' = Posted \cup {p}
      /\ p \notin PostedOf(f) /\ PostedOf(f)' = PostedOf(f) \cup {p}
      /\ \A g \in Fulfillments \ {f} : PostedOf(g)' = PostedOf(g)
      /\ \A g \in Fulfillments : PostedOf(g) \in SUBSET Picks /\ p \notin PostedOf(g)
      /\ Posted \in SUBSET Picks
      /\ pick'[p].qty = q
      /\ \A x \in Picks \ {p} : pick'[x].qty = pick[x].qty
  BY <1>1, <1>6 DEF Posted, PostedOf
<1> HIDE DEF row
<1>10. CustodyBalances'
  <2> SUFFICES ASSUME NEW s \in Skus
               PROVE  staged'[s] + transit'[s] = QtyTotal(pick', Posted', s)
    BY BalancesNext
  <2>1. staged[s] + transit[s] = QtyTotal(pick, Posted, s)
    BY Balances DEF PickingInv
  <2>2. QtyTotal(pick', Posted \cup {p}, s) = QtyTotal(pick, Posted, s) + pick'[p].qty[s]
    <3>1. \A x \in Posted : pick'[x].qty = pick[x].qty
      BY <1>9
    <3>2. PICK P \in SUBSET Picks : P = Posted /\ p \notin P
      BY <1>9
    <3>3. PICK k \in [Picks -> PickRows], l \in [Picks -> PickRows] : k = pick /\ l = pick'
      BY <1>6
    <3>4. \A x \in P : l[x].qty = k[x].qty
      BY <3>1, <3>2, <3>3
    <3>5. p \in Picks /\ p \notin P /\ s \in Skus
      BY <3>2
    <3>6. QtyTotal(l, P \cup {p}, s) = QtyTotal(k, P, s) + l[p].qty[s]
      BY <3>4, <3>5, QtyJoin, ZenonT(40)
    <3> QED BY <3>2, <3>3, <3>6
  <2>3. staged[s] \in Nat /\ transit[s] \in Nat /\ q[s] \in Nat
    BY <1>5 DEF PickingInv, MovedTypeOK
  <2>4. staged'[s] = staged[s] + q[s] /\ transit'[s] = transit[s]
    BY <1>1, <1>2
  <2> QED BY <1>9, <2>1, <2>2, <2>3, <2>4
<1>11. FulfillmentPicked'
  <2>1. \A g \in Fulfillments :
          fo[g].picked = SumTotal(pick, PostedOf(g)) /\ dispatched[g] <= fo[g].picked
    BY Balances DEF PickingInv
  <2>2. /\ SumTotal(pick', PostedOf(f) \cup {p}) = SumTotal(pick, PostedOf(f)) + Total(q, Skus)
        /\ SumTotal(pick, PostedOf(f)) \in Nat /\ Total(q, Skus) \in Nat
    <3>1. \A x \in PostedOf(f) : pick'[x].qty = pick[x].qty
      BY <1>9
    <3>2. PostedOf(f) \in SUBSET Picks /\ p \notin PostedOf(f)
      BY <1>9
    <3> QED BY <1>6, <1>9, <3>1, <3>2, SumJoin
  <2>3. dispatched[f] \in Nat
    BY DEF PickingInv, MovedTypeOK
  <2>4. /\ fo'[f].picked = SumTotal(pick', PostedOf(f)')
        /\ dispatched'[f] <= fo'[f].picked
    BY <1>1, <1>4, <1>9, <2>1, <2>2, <2>3
  <2>5. ASSUME NEW g \in Fulfillments \ {f}
        PROVE  /\ fo'[g].picked = SumTotal(pick', PostedOf(g)')
               /\ dispatched'[g] <= fo'[g].picked
    <3>1. SumTotal(pick', PostedOf(g)) = SumTotal(pick, PostedOf(g))
      BY <1>9, SumSame
    <3> QED BY <1>1, <1>4, <1>9, <2>1, <3>1
  <2> QED BY <2>4, <2>5, BalancesNext
<1>12. FulfillmentsOwned'
  BY <1>1, <1>4 DEF PickingInv, FulfillmentsOwned
<1>13. LinesOK'
  <2>1. fo[f].order \in Orders
    BY <1>1 DEF PickingInv, FulfillmentsOwned
  <2>2. q \in [Skus -> Int] /\ Stage(fo[f].order, q) /\ UNCHANGED order
    BY <1>5 DEF PostPick
  <2> QED BY <2>1, <2>2, StagePromising DEF PickingInv
<1>14. ReadsOK' /\ LooksOK'
  <2>1. \A g \in Fulfillments : fo[g].status # "none" => fo'[g].status # "none"
    BY <1>3, <1>4
  <2>2. UNCHANGED <<inFlight, looked>>
    BY DEF PostPick
  <2> QED BY <2>1, <2>2, ReadsKept DEF PickingInv
<1> QED BY <1>4, <1>7, <1>8, <1>10, <1>11, <1>12, <1>13, <1>14 DEF PickingInv

LEMMA ReverseStep ==
  ASSUME PickingInv, NEW p \in Picks, ReversePick(p)
  PROVE  PickingInv'
<1>1. PICK f : f = pick[p].fulfillment
  OBVIOUS
<1>2. PICK q : q = pick[p].qty
  OBVIOUS
<1>3. pick[p].state = "posted" /\ UNCHANGED <<transit, dispatched>>
  BY DEF ReversePick, Reversible
<1>4. /\ f \in Fulfillments
      /\ q \in [Skus -> Nat]
  BY <1>1, <1>2, <1>3 DEF PickingInv, PicksOwned, MovedTypeOK, PickRows
<1>5. /\ \A s \in Skus : q[s] <= staged[s]
      /\ \A s \in Skus : staged'[s] = staged[s] - q[s]
      /\ staged' = [s \in Skus |-> staged'[s]]
  <2> DEFINE d == Reversed(p)
  <2>1. Stage(fo[pick[p].fulfillment].order, d)
    BY DEF ReversePick
  <2>2. \A s \in Skus : d[s] = -q[s]
    BY <1>2 DEF Reversed
  <2>3. \A s \in Skus : q[s] \in Nat /\ staged[s] \in Nat
    BY <1>4 DEF PickingInv, MovedTypeOK
  <2> HIDE DEF d
  <2>4. (\A s \in Skus : -d[s] <= staged[s]) /\ staged' = [s \in Skus |-> staged[s] + d[s]]
    BY <2>1 DEF Stage, StagedAfter
  <2>5. \A s \in Skus : -(-q[s]) = q[s] /\ staged[s] + (-q[s]) = staged[s] - q[s]
    BY <2>3, SMTT(30)
  <2> QED BY <2>2, <2>4, <2>5
<1>6. PICK n, v : /\ fo' = [fo EXCEPT ![f].picked = n, ![f].status = v]
                  /\ n = fo[f].picked - Total(q, Skus)
                  /\ v \in {"pick_released", "partially_picked"}
                  /\ n >= dispatched[f]
  BY <1>1, <1>2 DEF ReversePick, ReversedStatus
<1>7. /\ FulfillmentShape'
      /\ fo'[f].picked = n /\ fo'[f].status = v /\ fo'[f].order = fo[f].order
      /\ \A g \in Fulfillments \ {f} : fo'[g] = fo[g]
  <2>1. FulfillmentShape /\ fo' = [fo EXCEPT ![f].picked = n, ![f].status = v]
    BY <1>6 DEF PickingInv
  <2> QED BY <1>4, <2>1, PickedWritten
<1>8. /\ pick \in [Picks -> PickRows] /\ pick' \in [Picks -> PickRows]
      /\ pick'[p].state = "reversed"
      /\ \A x \in Picks : pick'[x].qty = pick[x].qty
      /\ \A x \in Picks \ {p} : pick'[x] = pick[x]
  BY DEF ReversePick, PickingInv, MovedTypeOK, PickRows, PickStates
<1>9. MovedTypeOK'
  <2>1. \A s \in Skus : staged'[s] \in Nat
    BY <1>4, <1>5 DEF PickingInv, MovedTypeOK
  <2>2. staged' \in [Skus -> Nat]
    BY <1>5, <2>1
  <2> QED BY <1>3, <1>8, <2>2 DEF PickingInv, MovedTypeOK
<1>10. PicksOwned'
  <2>1. \A g \in Fulfillments : fo[g].status # "none" => fo'[g].status # "none"
    BY <1>6, <1>7
  <2>2. \A x \in Picks \ {p} : pick'[x].state = "posted" =>
          /\ pick'[x].fulfillment \in Fulfillments
          /\ fo'[pick'[x].fulfillment].status # "none"
    BY <1>8, <2>1 DEF PickingInv, PicksOwned
  <2> QED BY <1>8, <2>2 DEF PicksOwned
<1>11. PICK P : P = Posted'
  OBVIOUS
<1>12. P \in SUBSET Picks /\ p \notin P /\ Posted = P \cup {p}
  BY <1>3, <1>8, <1>11 DEF Posted
<1>13. CustodyBalances'
  <2> SUFFICES ASSUME NEW s \in Skus
               PROVE  staged'[s] + transit'[s] = QtyTotal(pick', P, s)
    BY <1>11, BalancesNext
  <2>1. staged[s] + transit[s] = QtyTotal(pick, P \cup {p}, s)
    BY <1>12, Balances DEF PickingInv
  <2>2. /\ QtyTotal(pick, P \cup {p}, s) = QtyTotal(pick', P, s) + q[s]
        /\ QtyTotal(pick', P, s) \in Nat
    <3>1. \A x \in P : pick[x].qty = pick'[x].qty
      BY <1>8, <1>12
    <3> QED BY <1>2, <1>8, <1>12, <3>1, QtyJoin
  <2>3. staged[s] \in Nat /\ transit[s] \in Nat /\ q[s] \in Nat
    BY <1>4 DEF PickingInv, MovedTypeOK
  <2>4. staged'[s] = staged[s] - q[s] /\ transit'[s] = transit[s]
    BY <1>3, <1>5
  <2> QED BY <2>1, <2>2, <2>3, <2>4
<1>14. FulfillmentPicked'
  <2>1. \A g \in Fulfillments :
          fo[g].picked = SumTotal(pick, PostedOf(g)) /\ dispatched[g] <= fo[g].picked
    BY Balances DEF PickingInv
  <2>2. PICK Q : Q = PostedOf(f)'
    OBVIOUS
  <2>3. Q \in SUBSET Picks /\ p \notin Q /\ PostedOf(f) = Q \cup {p}
    BY <1>1, <1>3, <1>8, <2>2 DEF PostedOf
  <2>4. /\ SumTotal(pick, Q \cup {p}) = SumTotal(pick', Q) + Total(q, Skus)
        /\ SumTotal(pick', Q) \in Nat /\ Total(q, Skus) \in Nat
    <3>1. \A x \in Q : pick[x].qty = pick'[x].qty
      BY <1>8, <2>3
    <3> QED BY <1>2, <1>8, <2>3, <3>1, SumJoin
  <2>5. /\ fo'[f].picked = SumTotal(pick', PostedOf(f)')
        /\ dispatched'[f] <= fo'[f].picked
    <3>1. fo[f].picked = SumTotal(pick', Q) + Total(q, Skus)
      BY <1>4, <2>1, <2>3, <2>4
    <3>2. n = SumTotal(pick', Q)
      BY <1>6, <2>4, <3>1
    <3>3. dispatched[f] \in Nat /\ n \in Nat /\ dispatched[f] <= n
      BY <1>4, <1>6, <2>4, <3>2 DEF PickingInv, MovedTypeOK
    <3> QED BY <1>3, <1>7, <2>2, <3>2, <3>3
  <2>6. ASSUME NEW g \in Fulfillments \ {f}
        PROVE  /\ fo'[g].picked = SumTotal(pick', PostedOf(g)')
               /\ dispatched'[g] <= fo'[g].picked
    <3>1. PostedOf(g)' = PostedOf(g) /\ PostedOf(g) \in SUBSET Picks
      BY <1>1, <1>8 DEF PostedOf
    <3>2. SumTotal(pick', PostedOf(g)) = SumTotal(pick, PostedOf(g))
      BY <1>8, <3>1, SumSame
    <3> QED BY <1>3, <1>7, <2>1, <3>1, <3>2
  <2> QED BY <2>5, <2>6, BalancesNext
<1>15. fo[f].status # "none"
  BY <1>1, <1>3 DEF PickingInv, PicksOwned
<1>16. FulfillmentsOwned'
  BY <1>4, <1>7, <1>15 DEF PickingInv, FulfillmentsOwned
<1>17. LinesOK'
  <2>1. fo[f].order \in Orders
    BY <1>4, <1>15 DEF PickingInv, FulfillmentsOwned
  <2>2. Stage(fo[f].order, Reversed(p)) /\ UNCHANGED order
    BY <1>1 DEF ReversePick
  <2>3. Reversed(p) \in [Skus -> Int]
    BY <1>2, <1>4 DEF Reversed
  <2> QED BY <2>1, <2>2, <2>3, StagePromising DEF PickingInv
<1>18. ReadsOK' /\ LooksOK'
  <2>1. \A g \in Fulfillments : fo[g].status # "none" => fo'[g].status # "none"
    BY <1>6, <1>7
  <2>2. UNCHANGED <<inFlight, looked>>
    BY DEF ReversePick
  <2> QED BY <2>1, <2>2, ReadsKept DEF PickingInv
<1> QED BY <1>7, <1>9, <1>10, <1>13, <1>14, <1>16, <1>17, <1>18 DEF PickingInv

LEMMA DispatchStep ==
  ASSUME PickingInv, NEW f \in Fulfillments, NEW P \in SUBSET Picks, Dispatch(f, P)
  PROVE  PickingInv'
<1> DEFINE moved == Shipped(P)
<1>1. \A s \in Skus : moved[s] \in Nat
  <2>1. pick \in [Picks -> PickRows]
    BY DEF PickingInv, MovedTypeOK
  <2>2. \A s \in Skus : QtyTotal(pick, P, s) \in Nat
    BY <2>1, QtyType
  <2> QED BY <2>2 DEF QtyTotal, PickTotal, Shipped
<1>2. /\ \A s \in Skus : moved[s] <= staged[s]
      /\ staged' = [s \in Skus |-> staged[s] - moved[s]]
      /\ transit' = [s \in Skus |-> transit[s] + moved[s]]
  BY DEF Dispatch
<1>3. PICK n, v : /\ n = dispatched[f] + Total(moved, Skus)
                  /\ n <= fo[f].picked
                  /\ dispatched' = [dispatched EXCEPT ![f] = n]
                  /\ fo' = [fo EXCEPT ![f].status = v]
                  /\ v \in {"dispatched", "partially_dispatched"}
  BY DEF Dispatch, DispatchedStatus
<1> HIDE DEF moved
<1>4. /\ pick \in [Picks -> PickRows] /\ pick' \in [Picks -> PickRows]
      /\ \A x \in Picks : /\ pick'[x].qty = pick[x].qty
                           /\ pick'[x].state = pick[x].state
                           /\ pick'[x].fulfillment = pick[x].fulfillment
  BY DEF Dispatch, Sent, PickingInv, MovedTypeOK, PickRows
<1>5. /\ FulfillmentShape'
      /\ fo'[f].picked = fo[f].picked /\ fo'[f].status = v /\ fo'[f].order = fo[f].order
      /\ \A g \in Fulfillments \ {f} : fo'[g] = fo[g]
  BY <1>3, StatusWritten DEF PickingInv
<1>6. MovedTypeOK'
  <2>1. IsFiniteSet(Skus)
    BY ReservationAssumption
  <2>2. Total(moved, Skus) \in Nat
    BY <1>1, <2>1, TotalType
  <2>3. n \in Nat
    BY <1>3, <2>2 DEF PickingInv, MovedTypeOK
  <2>4. staged' \in [Skus -> Nat] /\ transit' \in [Skus -> Nat]
    BY <1>1, <1>2 DEF PickingInv, MovedTypeOK
  <2> QED BY <1>3, <1>4, <2>3, <2>4 DEF PickingInv, MovedTypeOK
<1>7. PicksOwned'
  <2>1. \A g \in Fulfillments : fo[g].status # "none" => fo'[g].status # "none"
    BY <1>3, <1>5
  <2> QED BY <1>4, <2>1 DEF PickingInv, PicksOwned
<1>8. CustodyBalances'
  <2> SUFFICES ASSUME NEW s \in Skus
               PROVE  staged'[s] + transit'[s] = QtyTotal(pick', Posted', s)
    BY BalancesNext
  <2>1. Posted' = Posted /\ Posted \in SUBSET Picks
    BY <1>4 DEF Posted
  <2>2. QtyTotal(pick', Posted, s) = QtyTotal(pick, Posted, s)
    BY <1>4, <2>1, QtySame
  <2>3. staged[s] + transit[s] = QtyTotal(pick, Posted, s)
    BY Balances DEF PickingInv
  <2>4. staged[s] \in Nat /\ transit[s] \in Nat /\ moved[s] \in Nat
    BY <1>1 DEF PickingInv, MovedTypeOK
  <2>5. staged'[s] = staged[s] - moved[s] /\ transit'[s] = transit[s] + moved[s]
    BY <1>2
  <2> QED BY <2>1, <2>2, <2>3, <2>4, <2>5
<1>9. FulfillmentPicked'
  <2> SUFFICES ASSUME NEW g \in Fulfillments
               PROVE  /\ fo'[g].picked = SumTotal(pick', PostedOf(g)')
                      /\ dispatched'[g] <= fo'[g].picked
    BY BalancesNext
  <2>1. fo[g].picked = SumTotal(pick, PostedOf(g)) /\ dispatched[g] <= fo[g].picked
    BY Balances DEF PickingInv
  <2>2. PostedOf(g)' = PostedOf(g) /\ PostedOf(g) \in SUBSET Picks
    BY <1>4 DEF PostedOf
  <2>3. SumTotal(pick', PostedOf(g)) = SumTotal(pick, PostedOf(g))
    BY <1>4, <2>2, SumSame
  <2>4. fo'[g].picked = fo[g].picked
    BY <1>5
  <2>5. dispatched'[g] = IF g = f THEN n ELSE dispatched[g]
    BY <1>3 DEF PickingInv, MovedTypeOK
  <2> QED BY <1>3, <2>1, <2>2, <2>3, <2>4, <2>5
<1>10. FulfillmentsOwned'
  BY <1>5 DEF PickingInv, FulfillmentsOwned, Dispatch
<1>11. UNCHANGED <<onHand, reserved, commitment, order>>
  BY DEF Dispatch, stockVars
<1>12. LinesOK'
  BY <1>11 DEF PickingInv, LinesOK
<1>13. ReadsOK' /\ LooksOK'
  <2>1. \A g \in Fulfillments : fo[g].status # "none" => fo'[g].status # "none"
    BY <1>3, <1>5
  <2>2. UNCHANGED <<inFlight, looked>>
    BY DEF Dispatch
  <2> QED BY <2>1, <2>2, ReadsKept DEF PickingInv
<1> QED BY <1>5, <1>6, <1>7, <1>8, <1>9, <1>10, <1>12, <1>13 DEF PickingInv

-----------------------------------------------------------------------------
(* The results *)

(* A command of Reservation goes by the stock on hand, or by what the approval
   or the retry of its order read. *)
LEMMA PickingMoves ==
  ASSUME PickingInv, [PickingNext]_pickingVars
  PROVE  \/ Moves /\ UNCHANGED pickVars /\ LooksOK'
         \/ UNCHANGED <<vars, pickVars>> /\ LooksOK'
         \/ \E p \in Picks, f \in Fulfillments, q \in Quantities : PostPick(p, f, q)
         \/ \E p \in Picks : ReversePick(p)
         \/ \E f \in Fulfillments, P \in SUBSET Picks : Dispatch(f, P)
<1>1. LooksOK /\ onHand \in [Skus -> Nat]
  BY DEF PickingInv, LinesOK
<1>2. NoLook \in [open : BOOLEAN, stock : [Skus -> Nat]]
  BY DEF NoLook
<1>3. ASSUME NEW o \in Orders, BeginPromise(o)
      PROVE  UNCHANGED <<vars, pickVars>> /\ LooksOK'
  <2>1. [open |-> TRUE, stock |-> onHand] \in [open : BOOLEAN, stock : [Skus -> Nat]]
    BY <1>1
  <2> QED BY <1>1, <1>3, <2>1 DEF BeginPromise, LooksOK
<1>4. ASSUME NEW o \in Orders, AbandonPromise(o)
      PROVE  UNCHANGED <<vars, pickVars>> /\ LooksOK'
  BY <1>1, <1>2, <1>4 DEF AbandonPromise, LooksOK
<1>5. ASSUME NEW o \in Orders, EndPromise(o)
      PROVE  Moves /\ UNCHANGED pickVars /\ LooksOK'
  <2>1. looked[o].stock \in [Skus -> Nat]
    BY <1>1 DEF LooksOK
  <2>2. LooksOK'
    BY <1>1, <1>2, <1>5 DEF EndPromise, LooksOK
  <2> QED BY <1>5, <2>1, <2>2 DEF EndPromise, Moves
<1>6. ASSUME NEW o \in Orders, LockedCommand(o)
      PROVE  Moves /\ UNCHANGED pickVars /\ LooksOK'
  BY <1>1, <1>6 DEF LockedCommand, Moves, LooksOK
<1>7. CASE OtherCommand /\ UNCHANGED <<looked, pickVars>>
  BY <1>1, <1>7 DEF Moves, LooksOK
<1>8. CASE UNCHANGED pickingVars
  BY <1>1, <1>8 DEF pickingVars, LooksOK
<1> QED BY <1>3, <1>4, <1>5, <1>6, <1>7, <1>8 DEF PickingNext

LEMMA PickingStep ==
  ASSUME PickingInv, [PickingNext]_pickingVars
  PROVE  PickingInv'
<1>1. CASE UNCHANGED <<vars, pickVars>> /\ LooksOK'
  <2>1. /\ UNCHANGED <<onHand, reserved, order, commitment, fo, cancelling>>
        /\ UNCHANGED <<pick, staged, transit, dispatched>>
    BY <1>1 DEF vars, pickVars
  <2>2. /\ (FulfillmentShape /\ FulfillmentsOwned /\ LinesOK)'
        /\ (MovedTypeOK /\ PicksOwned /\ ReadsOK)'
    BY <2>1
    DEF PickingInv, FulfillmentShape, FulfillmentsOwned, LinesOK, MovedTypeOK, PicksOwned, ReadsOK
  <2>3. CustodyBalances' /\ FulfillmentPicked'
    BY <2>1 DEF PickingInv, CustodyBalances, FulfillmentPicked, PickTotal, PostedOf
  <2> QED BY <1>1, <2>2, <2>3 DEF PickingInv
<1> QED BY <1>1, PickingMoves, ReservationStep, PostStep, ReverseStep, DispatchStep

(* The inductive invariant: lines partition what was ordered, a posted pick is
   of a fulfillment order that exists, and both balances hold. *)
THEOREM PickingInvariant == PickingSpec => []PickingInv
BY PickingInitInv, PickingStep, PTL DEF PickingSpec

(* Stock keeps its sign through picks, reversals, dispatches and whatever else
   becomes of the orders. *)
THEOREM PickingTypeCorrect == PickingSpec => []PickingTypeOK
<1>1. PickingInv => PickingTypeOK
  BY DEF PickingInv, MovedTypeOK, LinesOK, LooksOK, PickingTypeOK
<1> QED BY <1>1, PickingInvariant, PTL

(* Staging and transit hold exactly what posted picks moved there, however
   picks, reversals and dispatches of several fulfillment orders interleave with
   approvals, cancellations, deadlines and payments. *)
THEOREM CustodyAlwaysBalances == PickingSpec => []CustodyBalances
<1>1. PickingInv => CustodyBalances
  BY DEF PickingInv
<1> QED BY <1>1, PickingInvariant, PTL

(* The picked quantity of a fulfillment order is what its posted picks add up
   to, and no more than that is dispatched. *)
THEOREM PickedIsPosted == PickingSpec => []FulfillmentPicked
<1>1. PickingInv => FulfillmentPicked
  BY DEF PickingInv
<1> QED BY <1>1, PickingInvariant, PTL

-----------------------------------------------------------------------------
(* The reservation events and their projection, with picks.  A revision while
   goods are picked gives back all that its approval still reserves, and a pick
   after it books its part once more, so that the events of one order may add
   up to less than nothing: their sum is a Net, not a Total. *)
ReservedIsNet ==
  \A s \in Skus : reserved[s] = Net([o \in Orders |-> ledger[o][s]], Orders)

LedgerInv == ledger \in [Orders -> [Skus -> Int]] /\ ReservedIsNet

(* One booking moves the sum of the events as it moves the projection. *)
LEMMA BookNets ==
  ASSUME LedgerInv, reserved \in [Skus -> Nat],
         NEW o \in Orders, NEW d \in [Skus -> Int], Book(o, d)
  PROVE  LedgerInv'
<1>1. /\ ledger' \in [Orders -> [Skus -> Int]]
      /\ \A s \in Skus : ledger'[o][s] = ledger[o][s] + d[s]
      /\ \A s \in Skus : reserved'[s] = reserved[s] + d[s]
      /\ \A p \in Orders \ {o} : ledger'[p] = ledger[p]
  BY BookEffect DEF LedgerInv
<1>2. ASSUME NEW s \in Skus
      PROVE  reserved'[s] = Net([p \in Orders |-> ledger'[p][s]], Orders)
  <2> DEFINE f == [p \in Orders |-> ledger[p][s]]
             g == [p \in Orders |-> ledger'[p][s]]
  <2>1. /\ \A p \in Orders : f[p] \in Int
        /\ \A p \in Orders : g[p] \in Int
        /\ \A p \in Orders \ {o} : g[p] = f[p]
        /\ f[o] = ledger[o][s] /\ g[o] = ledger[o][s] + d[s]
    BY <1>1 DEF LedgerInv
  <2>2. reserved[s] = Net(f, Orders) /\ reserved'[s] = reserved[s] + d[s]
    BY <1>1 DEF LedgerInv, ReservedIsNet
  <2>3. ledger[o][s] \in Int /\ d[s] \in Int
    BY DEF LedgerInv
  <2> HIDE DEF f, g
  <2>4. Net(f, Orders) \in Int
    BY <2>1, NetType, ReservationAssumption
  <2>5. Net(g, Orders) = Net(f, Orders) - f[o] + g[o]
    BY <2>1, NetChange, ReservationAssumption
  <2>6. reserved'[s] = Net(g, Orders)
    BY <2>1, <2>2, <2>3, <2>4, <2>5
  <2> QED BY <2>6 DEF g
<1> QED BY <1>1, <1>2 DEF LedgerInv, ReservedIsNet

(* A pick, its reversal and every other step books at most once. *)
LEMMA PickingBooks ==
  ASSUME PickingInv, [PickingNext]_pickingVars
  PROVE  BooksOnce
<1>1. CASE Moves
  BY <1>1, MovesPromising DEF PickingInv, Promising
<1>2. ASSUME NEW o \in Orders, NEW d \in [Skus -> Int], Stage(o, d) PROVE BooksOnce
  <2> DEFINE b == [s \in Skus |-> -d[s]]
  <2>1. b \in [Skus -> Int] /\ Book(o, b)
    BY <1>2 DEF Stage
  <2> HIDE DEF b
  <2> QED BY <2>1 DEF BooksOnce
<1>3. ASSUME NEW p \in Picks, NEW f \in Fulfillments, NEW q \in Quantities, PostPick(p, f, q)
      PROVE  BooksOnce
  <2>1. fo[f].status # "none" /\ Stage(fo[f].order, q)
    BY <1>3 DEF PostPick
  <2>2. fo[f].order \in Orders /\ q \in [Skus -> Int]
    BY <2>1, ReservationAssumption DEF PickingInv, FulfillmentsOwned, Quantities
  <2> QED BY <1>2, <2>1, <2>2
<1>4. ASSUME NEW p \in Picks, ReversePick(p) PROVE BooksOnce
  <2>1. pick[p].state = "posted" /\ Stage(fo[pick[p].fulfillment].order, Reversed(p))
    BY <1>4 DEF ReversePick, Reversible
  <2>2. fo[pick[p].fulfillment].order \in Orders
    BY <2>1 DEF PickingInv, PicksOwned, FulfillmentsOwned
  <2>3. Reversed(p) \in [Skus -> Int]
    <3>1. pick[p].qty \in [Skus -> Nat]
      BY DEF PickingInv, MovedTypeOK, PickRows
    <3> QED BY <3>1 DEF Reversed
  <2> QED BY <1>2, <2>1, <2>2, <2>3
<1>5. ASSUME NEW f \in Fulfillments, NEW P \in SUBSET Picks, Dispatch(f, P) PROVE BooksOnce
  BY <1>5 DEF Dispatch, stockVars, BooksOnce, NoBooking
<1>6. CASE UNCHANGED vars
  BY <1>6 DEF vars, BooksOnce, NoBooking
<1> QED BY <1>1, <1>3, <1>4, <1>5, <1>6, PickingMoves

(* The reserved quantity of a SKU is what its reservation events add up to in
   every state of picking too: an approval that falls while its goods are
   picked, and a pick reversed after that, never part the projection from the
   events it is kept from. *)
THEOREM ReservedStaysNet == PickingSpec => []ReservedIsNet
<1>1. PickingInit => LedgerInv
  <2> SUFFICES ASSUME PickingInit PROVE LedgerInv
    OBVIOUS
  <2>1. ledger \in [Orders -> [Skus -> Int]]
    BY DEF PickingInit, Init
  <2>2. ASSUME NEW s \in Skus
        PROVE  reserved[s] = Net([o \in Orders |-> ledger[o][s]], Orders)
    <3> DEFINE f == [o \in Orders |-> ledger[o][s]]
    <3>1. (\A o \in Orders : f[o] = 0) /\ reserved[s] = 0
      BY DEF PickingInit, Init
    <3> HIDE DEF f
    <3>2. reserved[s] = Net(f, Orders)
      BY <3>1, NetZero
    <3> QED BY <3>2 DEF f
  <2> QED BY <2>1, <2>2 DEF LedgerInv, ReservedIsNet
<1>2. PickingInv /\ LedgerInv /\ [PickingNext]_pickingVars => LedgerInv'
  <2> SUFFICES ASSUME PickingInv, LedgerInv, [PickingNext]_pickingVars PROVE LedgerInv'
    OBVIOUS
  <2>1. CASE NoBooking
    BY <2>1 DEF LedgerInv, ReservedIsNet, NoBooking
  <2>2. CASE \E o \in Orders : \E d \in [Skus -> Int] : Book(o, d)
    <3>1. reserved \in [Skus -> Nat]
      BY DEF PickingInv, LinesOK
    <3> QED BY <2>2, <3>1, BookNets
  <2> QED BY <2>1, <2>2, PickingBooks DEF BooksOnce
<1>3. LedgerInv => ReservedIsNet
  BY DEF LedgerInv
<1> QED BY <1>1, <1>2, <1>3, PickingInvariant, PTL DEF PickingSpec
=============================================================================
