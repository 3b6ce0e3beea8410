--------------------------- MODULE PaymentReceipts ---------------------------
(***************************************************************************)
(* One payment receipt between the requests that verify, clear, reconcile, *)
(* collect and reverse it, and the fulfillment order it is to cover.       *)
(*                                                                         *)
(* Reservation treats each of these commands as one step.  Here a command  *)
(* is two: it begins with the row locks and reads its first statements     *)
(* take, and finishes with the locks of its writes and its commit.         *)
(* PostgreSQL runs it READ COMMITTED: what was read without a lock may be  *)
(* stale when it is used.  Any request may also fail in between, as a      *)
(* deadlock victim or with its connection, and then leaves nothing.        *)
(***************************************************************************)
EXTENDS Integers

CONSTANTS
  Requests,   \* requests that can be in progress at the same time
  Amount,     \* of the receipt
  Required    \* payment the fulfillment order requires before pick release

ASSUME ReceiptAssumption == Amount \in Nat \ {0} /\ Required \in Nat \ {0}

VARIABLES
  receipt,     \* payment_receipts, payment_receipt_status, payment_receipt_balances
  clearings,   \* how many cleared events payment_receipt_events holds
  cash,        \* the status of its row of cash_reconciliation_items
  collection,  \* the status of its row of cod_collections
  order,       \* the fulfillment order with its state
  request      \* requests in progress: their command and what it has read

receiptVars == <<receipt, clearings, cash, collection, order, request>>

-----------------------------------------------------------------------------
Kinds == {"cash", "electronic", "check"}

ReceiptStates ==
  {"none", "pending_verification", "pending_clearance", "cleared", "rejected", "reversed"}

ReceiptRow ==
  [kind : Kinds, state : ReceiptStates, cleared : Nat, reversed : Nat, designated : Nat]

OrderRow == [status : {"reserved", "payment_ready", "pick_released"}, covered : Nat]

Idle == [command |-> "none", seen |-> "none", seenOrder |-> "none"]

ReceiptsInit ==
  /\ \E k \in Kinds :
       receipt = [kind |-> k, state |-> "none", cleared |-> 0, reversed |-> 0, designated |-> 0]
  /\ clearings = 0
  /\ cash = "none"
  /\ collection = "none"
  /\ order = [status |-> "reserved", covered |-> 0]
  /\ request = [p \in Requests |-> Idle]

-----------------------------------------------------------------------------
(* Row locks.  "receipt" and "order" are FOR UPDATE on payment_receipts and on
   fulfillment_orders with its state, "status" and "balance" are the rows of
   payment_receipt_status and payment_receipt_balances.  An INSERT that
   references a row shares its key, which FOR UPDATE excludes. *)
VerifierUnlocked == {}

VerifierLocks == {"receipt"}

CashUnlocked == {}

CashLocks == {"status"}

FirstLocks(command) ==
  CASE command \in {"verify", "reject", "clear_check"} -> VerifierLocks
    [] command = "confirm" -> {"status"}
    [] command \in {"reconcile", "adjust", "reverse_cash"} -> CashLocks
    [] command = "collect" -> {"receipt", "status", "balance"}
    [] command = "reverse" -> {"receipt", "status"}
    [] command = "release" -> {"order"}
    [] OTHER -> {}

WriteLocks(command) ==
  CASE command \in {"verify", "clear_check"} -> {"status", "order", "balance"}
    [] command = "reject" -> {"status"}
    [] command = "confirm" -> {"receipt", "order", "balance"}
    [] command \in {"reconcile", "adjust", "reverse_cash"} -> {"receipt"}
    [] command = "reverse" -> {"order", "balance"}
    [] OTHER -> {}

Free(p, locks) ==
  \A q \in Requests \ {p} : FirstLocks(request[q].command) \cap locks = {}

Begin(p, command) ==
  /\ request[p] = Idle
  /\ receipt.state # "none"
  /\ Free(p, FirstLocks(command))
  /\ request' = [request EXCEPT ![p] =
       [command |-> command, seen |-> receipt.state, seenOrder |-> order.status]]
  /\ UNCHANGED <<receipt, clearings, cash, collection, order>>

(* The request fails, or its guards refuse the command: nothing is written. *)
Abort(p) ==
  /\ request[p] # Idle
  /\ request' = [request EXCEPT ![p] = Idle]
  /\ UNCHANGED <<receipt, clearings, cash, collection, order>>

Finish(p, command) ==
  /\ request[p].command = command
  /\ Free(p, WriteLocks(command))
  /\ request' = [request EXCEPT ![p] = Idle]

-----------------------------------------------------------------------------
(* _designate_available_payment *)
Designated(available) ==
  IF order.status \notin {"reserved", "payment_ready"} THEN 0
  ELSE LET needed == IF Required > order.covered THEN Required - order.covered ELSE 0
       IN  IF available < needed THEN available ELSE needed

OrderCovered(amount) ==
  IF amount = 0 THEN order
  ELSE [status |-> IF order.covered + amount >= Required THEN "payment_ready" ELSE "reserved",
        covered |-> order.covered + amount]

(* _clear_receipt, on what the command has read. *)
Cleared(row) ==
  LET amount == Designated(Amount - row.reversed - row.designated)
  IN  /\ receipt' = [row EXCEPT !.state = "cleared", !.cleared = Amount,
                                !.designated = @ + amount]
      /\ order' = OrderCovered(amount)
      /\ clearings' = clearings + 1

(* record_payment_receipt: cash is cleared at once. *)
Record ==
  /\ receipt.state = "none"
  /\ \A p \in Requests : request[p] = Idle
  /\ IF receipt.kind = "cash"
     THEN Cleared(receipt) /\ cash' = "pending"
     ELSE /\ receipt' = [receipt EXCEPT !.state = "pending_verification"]
          /\ UNCHANGED <<order, clearings, cash>>
  /\ UNCHANGED <<collection, request>>

(* verify_payment_receipt: the state it tests was read without a lock. *)
FinishVerify(p) ==
  /\ Finish(p, "verify")
  /\ request[p].seen = "pending_verification"
  /\ IF receipt.kind = "check"
     THEN /\ receipt' = [receipt EXCEPT !.state = "pending_clearance"]
          /\ UNCHANGED <<order, clearings>>
     ELSE Cleared(receipt)
  /\ UNCHANGED <<cash, collection>>

FinishReject(p) ==
  /\ Finish(p, "reject")
  /\ request[p].seen = "pending_verification"
  /\ receipt' = [receipt EXCEPT !.state = "rejected"]
  /\ UNCHANGED <<clearings, cash, collection, order>>

(* confirm_provider_payment *)
FinishConfirm(p) ==
  /\ Finish(p, "confirm")
  /\ request[p].seen = "pending_verification"
  /\ receipt.kind = "electronic"
  /\ Cleared(receipt)
  /\ UNCHANGED <<cash, collection>>

(* clear_check_payment *)
FinishClearCheck(p) ==
  /\ Finish(p, "clear_check")
  /\ request[p].seen = "pending_clearance"
  /\ receipt.kind = "check"
  /\ Cleared(receipt)
  /\ UNCHANGED <<cash, collection>>

-----------------------------------------------------------------------------
(* _record_cod_collection of confirm_delivery for a receipt recorded before: it must be
   cleared, whatever its value is used for. *)
FinishCollect(p) ==
  /\ Finish(p, "collect")
  /\ receipt.kind # "cash"
  /\ request[p].seen = "cleared"
  /\ collection = "none"
  /\ collection' = "cleared"
  /\ UNCHANGED <<receipt, clearings, cash, order>>

(* _record_cod_collection for cash: the receipt is made with the confirmation and is not
   designated. *)
CollectCash ==
  /\ receipt.kind = "cash"
  /\ receipt.state = "none"
  /\ \A p \in Requests : request[p] = Idle
  /\ receipt' = [receipt EXCEPT !.state = "cleared", !.cleared = Amount]
  /\ clearings' = clearings + 1
  /\ cash' = "pending"
  /\ collection' = "cleared"
  /\ UNCHANGED <<order, request>>

CollectionAfter(status) == IF collection = "none" THEN "none" ELSE status

(* reconcile_cash_payment *)
FinishReconcile(p) ==
  /\ Finish(p, "reconcile")
  /\ request[p].seen = "cleared"
  /\ cash = "pending"
  /\ cash' = "reconciled"
  /\ collection' = CollectionAfter("reconciled")
  /\ UNCHANGED <<receipt, clearings, order>>

(* adjust_cash_reconciliation: counts again, which only the amounts show. *)
FinishAdjust(p) ==
  /\ Finish(p, "adjust")
  /\ request[p].seen = "cleared"
  /\ cash = "reconciled"
  /\ UNCHANGED <<receipt, clearings, cash, collection, order>>

(* reverse_cash_reconciliation *)
FinishReverseCash(p) ==
  /\ Finish(p, "reverse_cash")
  /\ request[p].seen = "cleared"
  /\ cash = "reconciled"
  /\ cash' = "pending"
  /\ collection' = CollectionAfter("cleared")
  /\ UNCHANGED <<receipt, clearings, order>>

(* reverse_payment_receipt: the status of the fulfillment order it tests was
   read without a lock.  It releases all coverage of the order. *)
FinishReverse(p) ==
  /\ Finish(p, "reverse")
  /\ request[p].seen = "cleared"
  /\ receipt.designated > 0 => request[p].seenOrder # "pick_released"
  /\ receipt' = [receipt EXCEPT !.state = "reversed", !.reversed = Amount, !.designated = 0]
  /\ order' = IF receipt.designated > 0 THEN [order EXCEPT !.covered = 0] ELSE order
  /\ collection' = CollectionAfter("reversed")
  /\ UNCHANGED <<clearings, cash>>

(* release_fulfillment_to_pick *)
FinishRelease(p) ==
  /\ Finish(p, "release")
  /\ request[p].seenOrder \in {"reserved", "payment_ready"}
  /\ order.covered >= Required
  /\ order' = [order EXCEPT !.status = "pick_released"]
  /\ UNCHANGED <<receipt, clearings, cash, collection>>

Commands == {"verify", "reject", "confirm", "clear_check", "collect", "reconcile",
             "adjust", "reverse_cash", "reverse", "release"}

ReceiptsNext ==
  \/ Record
  \/ CollectCash
  \/ \E p \in Requests :
       \/ \E command \in Commands : Begin(p, command)
       \/ FinishVerify(p) \/ FinishReject(p) \/ FinishConfirm(p) \/ FinishClearCheck(p)
       \/ FinishCollect(p) \/ FinishReconcile(p) \/ FinishAdjust(p) \/ FinishReverseCash(p)
       \/ FinishReverse(p) \/ FinishRelease(p)
       \/ Abort(p)

ReceiptsSpec == ReceiptsInit /\ [][ReceiptsNext]_receiptVars

-----------------------------------------------------------------------------
(* A receipt is cleared at most once, and value is cleared, designated and
   reversed only by a receipt that was cleared: verification and provider
   confirmation lock different rows, and only the key of the receipt that the
   events reference keeps them apart. *)
ClearedOnce ==
  /\ clearings = IF receipt.state \in {"cleared", "reversed"} THEN 1 ELSE 0
  /\ receipt.cleared = Amount * clearings
  /\ receipt.reversed + receipt.designated <= receipt.cleared

(* A collection on delivery ends as its receipt does, and a reconciled one has
   reconciled cash behind it. *)
CollectionFollows ==
  collection # "none" =>
    /\ receipt.state \in {"cleared", "reversed"}
    /\ (collection = "reversed") = (receipt.state = "reversed")
    /\ collection = "reconciled" => cash = "reconciled"
=============================================================================
