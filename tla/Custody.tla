------------------------------- MODULE Custody -------------------------------
(***************************************************************************)
(* The goods of one sales order from the staging area to the customer and  *)
(* back: dispatch, delivery confirmation with its exceptions, what becomes *)
(* of an exception, corrections of a delivery receipt, customer returns,   *)
(* and the COD deliveries charged to the account of the customer.          *)
(*                                                                         *)
(* One SKU in one warehouse, one line per delivery, a price of 1.  A       *)
(* command is one step, except the authorization of a correction: it       *)
(* checks the exceptions and posts later, and holds no lock that the       *)
(* commands on exceptions take.                                            *)
(***************************************************************************)
EXTENDS Sequences, Units

CONSTANTS
  Deliveries,  \* identities of deliveries and of their retries
  Returns,     \* identities of customer return requests
  Picked,      \* units picked and staged
  Versions     \* bound: how often the outcome of a delivery is recorded

ASSUME CustodyAssumption ==
  /\ IsFiniteSet(Deliveries) /\ IsFiniteSet(Returns)
  /\ Picked \in Nat \ {0} /\ Versions \in Nat \ {0}

VARIABLES
  stock,       \* quantity on hand per custody (inventory_on_hand_by_location)
  valued,      \* quantity of inventory_valuation
  delivery,    \* delivery_dispatches, delivery_state, the head of the receipt chain
  cases,       \* exception cases of every version of the outcome of a delivery
  proposal,    \* the correction requested for the head of the chain
  returns,     \* return requests, authorizations and receipts
  fulfilled,   \* delivered quantity of the fulfillment order
  conversion,  \* COD conversions to the account of the customer
  charged,     \* approved exposure of the customer that conversions added
  policy       \* payment timing policy of the order

custodyVars == <<stock, valued, delivery, cases, proposal, returns, fulfilled,
                 conversion, charged, policy>>

-----------------------------------------------------------------------------
Locations == {"staging", "in_transit", "investigation", "quarantine", "available"}

(* "refused" stands for damaged as well: both are handled alike. *)
Kinds == {"refused", "short", "still"}

Outcomes == [accepted : 0..Picked, refused : 0..Picked, short : 0..Picked, still : 0..Picked]

Undelivered == [accepted |-> 0, refused |-> 0, short |-> 0, still |-> 0]

(* Every delivery line is divided among its outcomes without remainder. *)
Partitions == [quantity \in 0..Picked |->
  {o \in Outcomes : o.accepted + o.refused + o.short + o.still = quantity}]

(* A case is opened for every outcome but acceptance; events but "opened". *)
Case == [original : 0..Picked, open : 0..Picked,
         events : SUBSET {"returned", "recovered", "written_off", "retried", "superseded"}]

Opened(o) == [k \in Kinds |-> [original |-> o[k], open |-> o[k], events |-> {}]]

DeliveryRow ==
  [status : {"none", "dispatched", "confirmed"}, quantity : 0..Picked,
   head : Outcomes, invoice : {"none", "awaited", "draft", "posted"}]

ProposalRow == [outcome : Outcomes, state : {"none", "requested", "checked"}]

ReturnRow ==
  [state : {"none", "requested", "authorized", "received"},
   of : {<<>>} \cup (Deliveries \X (1..Versions)), quantity : 0..Picked,
   received : 0..Picked, outcome : {"none", "restock", "quarantine", "rejected"}]

ConversionRow ==
  [state : {"none", "approved", "consumed", "reversed"}, amount : 0..Picked]

NoProposal == [outcome |-> Undelivered, state |-> "none"]

CustodyInit ==
  /\ stock = [l \in Locations |-> IF l = "staging" THEN Picked ELSE 0]
  /\ valued = Picked
  /\ delivery = [d \in Deliveries |->
       [status |-> "none", quantity |-> 0, head |-> Undelivered, invoice |-> "none"]]
  /\ cases = [d \in Deliveries |-> <<>>]
  /\ proposal = [d \in Deliveries |-> NoProposal]
  /\ returns = [r \in Returns |->
       [state |-> "none", of |-> <<>>, quantity |-> 0, received |-> 0, outcome |-> "none"]]
  /\ fulfilled = 0
  /\ conversion = [d \in Deliveries |-> [state |-> "none", amount |-> 0]]
  /\ charged = 0
  /\ policy \in {"cash_on_delivery", "on_account"}

-----------------------------------------------------------------------------
Version(d) == Len(cases[d])

Current(d) == cases[d][Version(d)]

OpenCase(d, v, k) == cases[d][v][k].open

(* The open quantity of a kind over all versions of the outcome. *)
Open(d, k) == Total([v \in 1..Version(d) |-> OpenCase(d, v, k)], 1..Version(d))

(* A movement is refused when its source location lacks the quantity. *)
Moved(from, to, quantity) ==
  [stock EXCEPT ![from] = @ - quantity, ![to] = @ + quantity]

Handled(case, quantity, event) ==
  [case EXCEPT !.open = @ - quantity, !.events = @ \cup {event}]

Take(d, v, k, quantity, event) ==
  cases' = [cases EXCEPT ![d][v][k] = Handled(@, quantity, event)]

Send(d, quantity) ==
  delivery' = [delivery EXCEPT ![d].status = "dispatched", ![d].quantity = quantity]

(* Staged picks are moved onto a vehicle. *)
Dispatch(d, quantity) ==
  /\ delivery[d].status = "none"
  /\ quantity <= stock["staging"]
  /\ stock' = Moved("staging", "in_transit", quantity)
  /\ Send(d, quantity)
  /\ UNCHANGED <<valued, cases, proposal, returns, fulfilled, conversion, charged, policy>>

(* An unpaid COD delivery may be charged to the account, once. *)
Convertible(d) ==
  /\ policy = "cash_on_delivery"
  /\ delivery[d].status = "dispatched"
  /\ conversion[d].state = "none"

ConvertCod(d) ==
  /\ Convertible(d)
  /\ conversion' = [conversion EXCEPT ![d] =
       [state |-> "approved", amount |-> delivery[d].quantity]]
  /\ charged' = charged + delivery[d].quantity
  /\ UNCHANGED <<stock, valued, delivery, cases, proposal, returns, fulfilled, policy>>

SettlementsKept(d, accepted) ==
  IF policy # "cash_on_delivery" \/ accepted = 0 THEN {"none"}
  ELSE {"collect"} \cup IF conversion[d].state = "approved" THEN {"consume"} ELSE {}

(* Whatever is accepted has one settlement, and the conversion of a delivery of
   which nothing is accepted is taken back. *)
Settlements(d, accepted) ==
  IF policy # "cash_on_delivery" THEN {"none"}
  ELSE IF accepted = 0
  THEN IF conversion[d].state = "approved" THEN {"release"} ELSE {"none"}
  ELSE {"collect"} \cup IF conversion[d].state = "approved" THEN {"consume"} ELSE {}

Release(d) ==
  /\ conversion' = [conversion EXCEPT ![d].state = "reversed"]
  /\ charged' = charged - conversion[d].amount

Consume(d, accepted) ==
  /\ conversion' = [conversion EXCEPT ![d] = [state |-> "consumed", amount |-> accepted]]
  /\ charged' = charged - (conversion[d].amount - accepted)

Settle(d, accepted) ==
  \E s \in Settlements(d, accepted) :
    \/ s \in {"none", "collect"} /\ UNCHANGED <<conversion, charged>>
    \/ s = "release" /\ Release(d)
    \/ s = "consume" /\ Consume(d, accepted)

Invoiced(o) == IF o.accepted > 0 THEN "awaited" ELSE "none"

(* Accepted goods leave the house, missing goods go under investigation, and
   refused and undelivered goods stay on the vehicle. *)
Parted(o) ==
  [stock EXCEPT !["in_transit"] = @ - o.accepted - o.short, !["investigation"] = @ + o.short]

Confirm(d, o) ==
  /\ delivery[d].status = "dispatched"
  /\ o.accepted + o.short <= stock["in_transit"]
  /\ stock' = Parted(o)
  /\ valued' = valued - o.accepted
  /\ delivery' = [delivery EXCEPT ![d].status = "confirmed", ![d].head = o,
                                  ![d].invoice = Invoiced(o)]
  /\ cases' = [cases EXCEPT ![d] = <<Opened(o)>>]
  /\ fulfilled' = fulfilled + o.accepted
  /\ Settle(d, o.accepted)
  /\ UNCHANGED <<proposal, returns, policy>>

-----------------------------------------------------------------------------
ReceiveReturnToStock(d, v, quantity) ==
  /\ quantity <= OpenCase(d, v, "refused")
  /\ quantity <= stock["in_transit"]
  /\ stock' = Moved("in_transit", "available", quantity)
  /\ Take(d, v, "refused", quantity, "returned")
  /\ UNCHANGED <<valued, delivery, proposal, returns, fulfilled, conversion, charged, policy>>

(* Refused goods come back into quarantine, all or some of them at a time. *)
ReceiveReturnToWarehouse(d, v, quantity) ==
  /\ quantity <= OpenCase(d, v, "refused")
  /\ quantity <= stock["in_transit"]
  /\ stock' = Moved("in_transit", "quarantine", quantity)
  /\ Take(d, v, "refused", quantity, "returned")
  /\ UNCHANGED <<valued, delivery, proposal, returns, fulfilled, conversion, charged, policy>>

(* All goods missing in a case turn up and go into quarantine. *)
Recover(d, v) ==
  LET missing == OpenCase(d, v, "short") IN
  /\ missing > 0
  /\ missing <= stock["investigation"]
  /\ stock' = Moved("investigation", "quarantine", missing)
  /\ Take(d, v, "short", missing, "recovered")
  /\ UNCHANGED <<valued, delivery, proposal, returns, fulfilled, conversion, charged, policy>>

(* They are claimed from the carrier or adjusted away. *)
WriteOff(d, v) ==
  LET missing == OpenCase(d, v, "short") IN
  /\ missing > 0
  /\ missing <= stock["investigation"]
  /\ stock' = [stock EXCEPT !["investigation"] = @ - missing]
  /\ valued' = valued - missing
  /\ Take(d, v, "short", missing, "written_off")
  /\ UNCHANGED <<delivery, proposal, returns, fulfilled, conversion, charged, policy>>

(* What is still on the vehicle becomes a delivery of its own. *)
Retried(case) ==
  IF case.open = 0 THEN case ELSE [case EXCEPT !.open = 0, !.events = @ \cup {"retried"}]

Retry(d, retry) ==
  /\ Open(d, "still") > 0
  /\ delivery[retry].status = "none"
  /\ Send(retry, Open(d, "still"))
  /\ cases' = [cases EXCEPT ![d] =
       [v \in 1..Version(d) |-> [cases[d][v] EXCEPT !["still"] = Retried(@)]]]
  /\ UNCHANGED <<stock, valued, proposal, returns, fulfilled, conversion, charged, policy>>

-----------------------------------------------------------------------------
(* The worker drafts the invoice of the head of the chain; a person posts it,
   but has to wait for a correction that has locked the draft. *)
DraftInvoice(d) ==
  /\ delivery[d].invoice = "awaited"
  /\ delivery' = [delivery EXCEPT ![d].invoice = "draft"]
  /\ UNCHANGED <<stock, valued, cases, proposal, returns, fulfilled, conversion, charged, policy>>

PostInvoice(d) ==
  /\ delivery[d].invoice = "draft"
  /\ proposal[d].state # "checked"
  /\ delivery' = [delivery EXCEPT ![d].invoice = "posted"]
  /\ UNCHANGED <<stock, valued, cases, proposal, returns, fulfilled, conversion, charged, policy>>

ReturnsOf(d) == {r \in Returns : returns[r].of = <<d, Version(d)>>}

OutstandingReturns(d) == {r \in ReturnsOf(d) : returns[r].state = "authorized"}

AuthorizedReturns(d) == {r \in ReturnsOf(d) : returns[r].state \in {"authorized", "received"}}

(* Only the head of a chain may be corrected, before its invoice is posted and
   before anything was done about its exceptions or a return. *)
Untouched(d) ==
  /\ delivery[d].head.accepted > 0
  /\ delivery[d].invoice = "draft"
  /\ AuthorizedReturns(d) = {}
  /\ \A k \in Kinds : Current(d)[k].events = {}

RequestCorrection(d, o) ==
  /\ delivery[d].status = "confirmed"
  /\ proposal[d].state = "none"
  /\ Untouched(d)
  /\ Version(d) < Versions
  /\ proposal' = [proposal EXCEPT ![d] = [outcome |-> o, state |-> "requested"]]
  /\ UNCHANGED <<stock, valued, delivery, cases, returns, fulfilled, conversion, charged, policy>>

(* The checks of an authorization; they lock the draft invoice only.  For a
   second correction they look at the draft and the cases of the first receipt,
   see DraftInvoices. *)
CheckCorrection(d) ==
  /\ proposal[d].state = "requested"
  /\ Untouched(d)
  /\ proposal' = [proposal EXCEPT ![d].state = "checked"]
  /\ UNCHANGED <<stock, valued, delivery, cases, returns, fulfilled, conversion, charged, policy>>

RecalledShort(d) == Current(d)["short"].original

(* The goods accepted so far and those missing so far are put back onto the
   vehicle, then the corrected quantities are taken from it. *)
Reposted(d, o) ==
  [stock EXCEPT
    !["in_transit"] = @ + delivery[d].head.accepted + RecalledShort(d) - o.accepted - o.short,
    !["investigation"] = @ - RecalledShort(d) + o.short]

SupersededOpen(case) ==
  IF case.original = 0 THEN case ELSE [case EXCEPT !.events = @ \cup {"superseded"}]

Superseded(case) ==
  IF case.original = 0 THEN case
  ELSE [case EXCEPT !.open = 0, !.events = @ \cup {"superseded"}]

PostCorrection(d) ==
  LET o == proposal[d].outcome IN
  /\ proposal[d].state = "checked"
  /\ RecalledShort(d) <= stock["investigation"]
  /\ Reposted(d, o)["in_transit"] >= 0
  /\ stock' = Reposted(d, o)
  /\ valued' = valued + delivery[d].head.accepted - o.accepted
  /\ cases' = [cases EXCEPT ![d] =
       Append([@ EXCEPT ![Version(d)] = [k \in Kinds |-> Superseded(Current(d)[k])]], Opened(o))]
  /\ delivery' = [delivery EXCEPT ![d].head = o, ![d].invoice = Invoiced(o)]
  /\ proposal' = [proposal EXCEPT ![d] = NoProposal]
  /\ UNCHANGED <<returns, fulfilled, conversion, charged, policy>>

(* The authorization is refused or lost after its checks and can be repeated. *)
FailCorrection(d) ==
  /\ proposal[d].state = "checked"
  /\ proposal' = [proposal EXCEPT ![d].state = "requested"]
  /\ UNCHANGED <<stock, valued, delivery, cases, returns, fulfilled, conversion, charged, policy>>

-----------------------------------------------------------------------------
UncorrectedReceipt(d, version) ==
  delivery[d].head.accepted > 0 /\ version = Version(d)

(* A receipt is current unless it was corrected or is going to be. *)
CurrentReceipt(d, version) ==
  delivery[d].head.accepted > 0 /\ version = Version(d) /\ proposal[d].state = "none"

RequestReturn(r, d, quantity) ==
  /\ returns[r].state = "none"
  /\ CurrentReceipt(d, Version(d))
  /\ quantity <= delivery[d].head.accepted
  /\ returns' = [returns EXCEPT ![r] =
       [@ EXCEPT !.state = "requested", !.of = <<d, Version(d)>>, !.quantity = quantity]]
  /\ UNCHANGED <<stock, valued, delivery, cases, proposal, fulfilled, conversion, charged, policy>>

AuthorizedQuantity(d) ==
  Total([r \in Returns |-> returns[r].quantity], AuthorizedReturns(d))

(* What earlier authorizations of the receipt allow is not allowed twice. *)
AuthorizeReturn(r) ==
  /\ returns[r].state = "requested"
  /\ LET d == returns[r].of[1] IN
     /\ CurrentReceipt(d, returns[r].of[2])
     /\ AuthorizedQuantity(d) + returns[r].quantity <= delivery[d].head.accepted
  /\ returns' = [returns EXCEPT ![r].state = "authorized"]
  /\ UNCHANGED <<stock, valued, delivery, cases, proposal, fulfilled, conversion, charged, policy>>

Receive(r, quantity, outcome) ==
  /\ returns[r].state = "authorized"
  /\ returns' = [returns EXCEPT ![r].state = "received", ![r].received = quantity,
                                ![r].outcome = outcome]
  /\ UNCHANGED <<delivery, cases, proposal, fulfilled, conversion, charged, policy>>

(* Goods that are sold again are valued again; goods in quarantine are not. *)
Restock(r, quantity) ==
  /\ quantity <= returns[r].quantity
  /\ Receive(r, quantity, "restock")
  /\ stock' = [stock EXCEPT !["available"] = @ + quantity]
  /\ valued' = valued + quantity

QuarantineValued(r, quantity) ==
  /\ quantity <= returns[r].quantity
  /\ Receive(r, quantity, "quarantine")
  /\ stock' = [stock EXCEPT !["quarantine"] = @ + quantity]
  /\ valued' = valued + quantity

Quarantine(r, quantity) ==
  /\ quantity <= returns[r].quantity
  /\ Receive(r, quantity, "quarantine")
  /\ stock' = [stock EXCEPT !["quarantine"] = @ + quantity]
  /\ UNCHANGED valued

RejectReturn(r) == Receive(r, 0, "rejected") /\ UNCHANGED <<stock, valued>>

CustodyNext ==
  \/ \E d \in Deliveries :
       \/ \E quantity \in 1..Picked : Dispatch(d, quantity)
       \/ \E v \in 1..Version(d) :
            \/ \E quantity \in 1..Picked : ReceiveReturnToWarehouse(d, v, quantity)
            \/ Recover(d, v) \/ WriteOff(d, v)
       \/ \E o \in Partitions[delivery[d].quantity] : Confirm(d, o) \/ RequestCorrection(d, o)
       \/ ConvertCod(d)
       \/ \E retry \in Deliveries : Retry(d, retry)
       \/ DraftInvoice(d) \/ PostInvoice(d)
       \/ CheckCorrection(d) \/ PostCorrection(d) \/ FailCorrection(d)
  \/ \E r \in Returns :
       \/ \E d \in Deliveries, quantity \in 1..Picked : RequestReturn(r, d, quantity)
       \/ AuthorizeReturn(r) \/ RejectReturn(r)
       \/ \E quantity \in 1..Picked : Restock(r, quantity) \/ Quarantine(r, quantity)

CustodySpec == CustodyInit /\ [][CustodyNext]_custodyVars

-----------------------------------------------------------------------------
(* Types of all variables; nothing is negative. *)
CustodyTypeOK ==
  /\ stock \in [Locations -> 0..Picked]
  /\ valued \in 0..Picked
  /\ delivery \in [Deliveries -> DeliveryRow]
  /\ proposal \in [Deliveries -> ProposalRow]
  /\ returns \in [Returns -> ReturnRow]
  /\ conversion \in [Deliveries -> ConversionRow]
  /\ \A d \in Deliveries :
       cases[d] \in Seq([Kinds -> Case]) /\ Len(cases[d]) <= Versions
  /\ fulfilled \in Nat /\ charged \in Nat

(* A correction replaces no case that something was done about: goods that
   were returned, resolved or sent again are not sent back in time (ADR 0017). *)
CorrectsOnlyUntouched ==
  \A d \in Deliveries : \A v \in 1..Version(d) : \A k \in Kinds :
    "superseded" \in cases[d][v][k].events => cases[d][v][k].events = {"superseded"}

OnVehicle(d) ==
  IF delivery[d].status = "dispatched" THEN delivery[d].quantity
  ELSE Open(d, "refused") + Open(d, "still")

(* What lies on vehicles and under investigation is what is out for delivery
   and what open cases account for, as long as no correction overtook a
   command on its exceptions. *)
CustodyMatchesCases ==
  CorrectsOnlyUntouched =>
    /\ stock["in_transit"] = Total([d \in Deliveries |-> OnVehicle(d)], Deliveries)
    /\ stock["investigation"] = Total([d \in Deliveries |-> Open(d, "short")], Deliveries)

Received(outcomes) ==
  Total([r \in Returns |-> returns[r].received],
        {r \in Returns : returns[r].outcome \in outcomes})

OnHand == stock["staging"] + stock["in_transit"] + stock["investigation"]
          + stock["quarantine"] + stock["available"]

(* The books value every unit in the house but those that customers returned
   into quarantine, through every correction and return. *)
ValuationMatches == valued = OnHand - Received({"quarantine"})

(* No more comes back from a customer than its receipt says it accepted, and a
   receipt with an authorized return stays the head of its chain. *)
ReturnsWithinDelivered ==
  \A r \in Returns : returns[r].state \in {"authorized", "received"} =>
    LET d == returns[r].of[1] IN
    /\ returns[r].of[2] = Version(d)
    /\ AuthorizedQuantity(d) <= delivery[d].head.accepted

(* The account of a customer carries the conversions that may still be used and
   what was accepted on those that were; none outlives a delivery of which
   nothing was accepted. *)
ConversionsSettle ==
  /\ charged = Total([d \in Deliveries |-> conversion[d].amount],
                     {d \in Deliveries : conversion[d].state \in {"approved", "consumed"}})
  /\ \A d \in Deliveries : conversion[d].state = "approved" /\ Version(d) = 1 =>
       delivery[d].head.accepted > 0

WrittenOff(d) ==
  Total([v \in 1..Version(d) |-> cases[d][v]["short"].original],
        {v \in 1..Version(d) : "written_off" \in cases[d][v]["short"].events})

Lost == Total([d \in Deliveries |-> WrittenOff(d)], Deliveries)

AtCustomer == Total([d \in Deliveries |-> delivery[d].head.accepted], Deliveries)
              - Received({"restock", "quarantine"})

(* Where the units are: the locations of the warehouse, the customer as the
   receipts and returns say, or lost as the resolutions say. *)
Whereabouts ==
  [p \in Locations \cup {"customer", "lost"} |->
     IF p = "lost" THEN Lost ELSE IF p = "customer" THEN AtCustomer ELSE stock[p]]

(* Every unit is in one place, and none is sellable again but from the customer
   (ADR 0013). *)
Promise == INSTANCE StockCustody WITH at <- Whereabouts

KeepsCustody == Promise!CustodySpec
=============================================================================
