--------------------------- MODULE CommercialProofs ---------------------------
(***************************************************************************)
(* What holds of PaymentReceipts, of Quotations and of DraftInvoices,      *)
(* which share no state: the locks of the commands on a payment receipt    *)
(* suffice for any number of requests and any amounts, quotations keep     *)
(* their promises for any number of users, commands, quotations, customer  *)
(* versions and days, and the drafts of a delivery add up for any          *)
(* quantities and any number of corrections.                               *)
(***************************************************************************)
EXTENDS PaymentReceipts, Quotations, DraftInvoices, UnitsProofs, FiniteSetTheorems, SequenceTheorems, TLAPS

-----------------------------------------------------------------------------
(* The inductive invariant of the receipts *)

OrderStates == {"reserved", "payment_ready", "pick_released"}

Request ==
  [command : Commands \cup {"none"}, seen : ReceiptStates,
   seenOrder : OrderStates \cup {"none"}]

ReceiptsTypeOK ==
  /\ receipt \in ReceiptRow
  /\ clearings \in Nat
  /\ cash \in {"none", "pending", "reconciled"}
  /\ collection \in {"none", "cleared", "reconciled", "reversed"}
  /\ order \in OrderRow
  /\ request \in [Requests -> Request]

Held(p) == FirstLocks(request[p].command)

(* No row is locked by two requests. *)
LocksExclude == \A p, q \in Requests : p # q => Held(p) \cap Held(q) = {}

(* What a request has read of a receipt stays true while it holds a lock on the
   receipt or on its status, whichever of the two it has taken. *)
SeenStands == \A p \in Requests :
  Held(p) \cap {"receipt", "status"} # {} => request[p].seen = receipt.state

ReceiptsInv ==
  /\ ReceiptsTypeOK /\ LocksExclude /\ SeenStands
  /\ ClearedOnce /\ CollectionFollows

-----------------------------------------------------------------------------
(* Locks *)

(* A request that begins or ends leaves the others their locks. *)
LEMMA BeginLocks ==
  ASSUME ReceiptsInv, NEW p \in Requests, NEW command \in Commands, Begin(p, command)
  PROVE  ReceiptsInv'
<1>1. /\ request' = [request EXCEPT ![p] =
           [command |-> command, seen |-> receipt.state, seenOrder |-> order.status]]
      /\ UNCHANGED <<receipt, clearings, cash, collection, order>>
      /\ Free(p, FirstLocks(command))
  BY DEF Begin
<1>2. ReceiptsTypeOK'
  BY <1>1 DEF ReceiptsInv, ReceiptsTypeOK, Request, ReceiptRow, OrderRow, OrderStates
<1>3. /\ Held(p)' = FirstLocks(command)
      /\ request'[p].seen = receipt.state
      /\ \A q \in Requests \ {p} : Held(q)' = Held(q) /\ request'[q] = request[q]
  BY <1>1 DEF ReceiptsInv, ReceiptsTypeOK, Held
<1>4. \A q \in Requests \ {p} : Held(q) \cap Held(p)' = {}
  BY <1>1, <1>3 DEF Free, Held
<1>5. LocksExclude'
  BY <1>3, <1>4 DEF ReceiptsInv, LocksExclude
<1>6. SeenStands'
  BY <1>1, <1>3 DEF ReceiptsInv, SeenStands
<1>7. ClearedOnce' /\ CollectionFollows'
  BY <1>1 DEF ReceiptsInv, ClearedOnce, CollectionFollows
<1> QED BY <1>2, <1>5, <1>6, <1>7 DEF ReceiptsInv

LEMMA EndLocks ==
  ASSUME ReceiptsInv, NEW p \in Requests, request' = [request EXCEPT ![p] = Idle],
         \/ receipt'.state = receipt.state
         \/ \A q \in Requests \ {p} : Held(q) \cap {"receipt", "status"} = {}
  PROVE  /\ request' \in [Requests -> Request]
         /\ LocksExclude' /\ SeenStands'
<1>1. request' \in [Requests -> Request]
  BY DEF ReceiptsInv, ReceiptsTypeOK, Request, Idle, ReceiptStates
<1>2. /\ Held(p)' = {}
      /\ \A q \in Requests \ {p} : Held(q)' = Held(q) /\ request'[q] = request[q]
  BY DEF ReceiptsInv, ReceiptsTypeOK, Held, Idle, FirstLocks
<1>3. LocksExclude'
  BY <1>2 DEF ReceiptsInv, LocksExclude
<1>4. SeenStands'
  BY <1>2 DEF ReceiptsInv, SeenStands
<1> QED BY <1>1, <1>3, <1>4

(* The commands that change the state of a receipt hold or wait for both rows. *)
Changing == {"verify", "reject", "confirm", "clear_check", "reverse"}

LEMMA Alone ==
  ASSUME ReceiptsInv, NEW p \in Requests, NEW command \in Changing, Finish(p, command)
  PROVE  /\ \A q \in Requests \ {p} : Held(q) \cap {"receipt", "status"} = {}
         /\ request[p].seen = receipt.state
<1>1. request[p].command = command /\ Free(p, WriteLocks(command))
  BY DEF Finish
<1>2. {"receipt", "status"} \subseteq FirstLocks(command) \cup WriteLocks(command)
  BY DEF Changing, FirstLocks, WriteLocks, VerifierLocks
<1>3. \A q \in Requests \ {p} : Held(q) \cap WriteLocks(command) = {}
  BY <1>1 DEF Free, Held
<1>4. \A q \in Requests \ {p} : Held(q) \cap FirstLocks(command) = {}
  BY <1>1 DEF ReceiptsInv, LocksExclude, Held
<1>5. FirstLocks(command) \cap {"receipt", "status"} # {}
  BY DEF Changing, FirstLocks, VerifierLocks
<1>6. request[p].seen = receipt.state
  BY <1>1, <1>5 DEF ReceiptsInv, SeenStands, Held
<1> QED BY <1>2, <1>3, <1>4, <1>6

-----------------------------------------------------------------------------
(* Values *)

(* A receipt that was not cleared has no value anywhere. *)
LEMMA Uncleared ==
  ASSUME ReceiptsInv, receipt.state \notin {"cleared", "reversed"}
  PROVE  clearings = 0 /\ receipt.reversed = 0 /\ receipt.designated = 0
<1>1. clearings = 0 /\ Amount * clearings = 0
  BY ReceiptAssumption DEF ReceiptsInv, ClearedOnce
<1>2. receipt.reversed \in Nat /\ receipt.designated \in Nat
  BY DEF ReceiptsInv, ReceiptsTypeOK, ReceiptRow
<1> QED BY <1>1, <1>2 DEF ReceiptsInv, ClearedOnce

LEMMA Clearing ==
  ASSUME ReceiptsInv, receipt.state \notin {"cleared", "reversed"}, Cleared(receipt)
  PROVE  /\ receipt' \in ReceiptRow /\ order' \in OrderRow /\ clearings' \in Nat
         /\ receipt'.state = "cleared"
         /\ ClearedOnce'
<1> DEFINE available == Amount - receipt.reversed - receipt.designated
           amount == Designated(available)
<1>1. Amount \in Nat \ {0} /\ Required \in Nat \ {0}
  BY ReceiptAssumption
<1>2. clearings = 0 /\ receipt.reversed = 0 /\ receipt.designated = 0
  BY Uncleared
<1>3. receipt \in ReceiptRow /\ order \in OrderRow
  BY DEF ReceiptsInv, ReceiptsTypeOK
<1>4. available = Amount
  BY <1>1, <1>2
<1>5. amount \in Nat /\ amount <= Amount
  BY <1>1, <1>3, <1>4 DEF Designated, OrderRow
<1> HIDE DEF amount
<1>6. /\ receipt' = [receipt EXCEPT !.state = "cleared", !.cleared = Amount,
                                    !.designated = @ + amount]
      /\ order' = OrderCovered(amount)
      /\ clearings' = clearings + 1
  BY DEF Cleared, amount
<1>7. /\ receipt' \in ReceiptRow
      /\ receipt'.state = "cleared" /\ receipt'.cleared = Amount
      /\ receipt'.reversed = 0 /\ receipt'.designated = amount
  <2>1. amount + 0 = amount /\ 0 + amount = amount
    BY <1>5
  <2>2. receipt' = [receipt EXCEPT !.state = "cleared", !.cleared = Amount,
                                   !.designated = amount]
    BY <1>2, <1>6, <2>1
  <2> HIDE DEF available
  <2> QED BY <1>1, <1>2, <1>3, <1>5, <2>2 DEF ReceiptRow, ReceiptStates
<1>8. order' \in OrderRow
  BY <1>1, <1>3, <1>5, <1>6 DEF OrderCovered, OrderRow
<1>9. clearings' = 1 /\ Amount * clearings' = Amount
  BY <1>1, <1>2, <1>6
<1> QED BY <1>5, <1>7, <1>8, <1>9 DEF ClearedOnce

-----------------------------------------------------------------------------
(* Each command keeps the invariant. *)

LEMMA RecordKeeps ==
  ASSUME ReceiptsInv, Record \/ CollectCash
  PROVE  ReceiptsInv'
<1>1. /\ receipt.state = "none" /\ \A p \in Requests : request[p] = Idle
      /\ request' = request
  BY DEF Record, CollectCash
<1>2. \A p \in Requests : Held(p) = {} /\ Held(p)' = {}
  BY <1>1 DEF Held, Idle, FirstLocks
<1>3. LocksExclude' /\ SeenStands'
  BY <1>2 DEF LocksExclude, SeenStands
<1>4. Amount \in Nat \ {0}
  BY ReceiptAssumption
<1>5. CASE Record /\ receipt.kind = "cash"
  BY <1>1, <1>3, <1>5, Clearing
     DEF Record, ReceiptsInv, ReceiptsTypeOK, CollectionFollows
<1>6. CASE Record /\ receipt.kind # "cash"
  BY <1>1, <1>3, <1>6
     DEF Record, ReceiptsInv, ReceiptsTypeOK, ReceiptRow, ReceiptStates, ClearedOnce,
         CollectionFollows
<1>7. CASE CollectCash
  <2>1. clearings = 0 /\ receipt.reversed = 0 /\ receipt.designated = 0
    BY <1>1, Uncleared
  <2>2. clearings' = 1 /\ Amount * clearings' = Amount
    BY <1>4, <1>7, <2>1 DEF CollectCash
  <2>3. /\ receipt' \in ReceiptRow
        /\ receipt'.state = "cleared" /\ receipt'.cleared = Amount
        /\ receipt'.reversed = 0 /\ receipt'.designated = 0
    BY <1>4, <1>7, <2>1 DEF CollectCash, ReceiptsInv, ReceiptsTypeOK, ReceiptRow, ReceiptStates
  <2>4. ClearedOnce'
    BY <1>4, <2>2, <2>3 DEF ClearedOnce
  <2> QED BY <1>3, <1>7, <2>2, <2>3, <2>4
          DEF CollectCash, ReceiptsInv, ReceiptsTypeOK, CollectionFollows
<1> QED BY <1>5, <1>6, <1>7

LEMMA ClearKeeps ==
  ASSUME ReceiptsInv, NEW p \in Requests,
         FinishVerify(p) \/ FinishReject(p) \/ FinishConfirm(p) \/ FinishClearCheck(p)
  PROVE  ReceiptsInv'
<1>1. PICK command \in Changing : Finish(p, command)
  BY DEF FinishVerify, FinishReject, FinishConfirm, FinishClearCheck, Changing
<1>2. request' = [request EXCEPT ![p] = Idle]
  BY <1>1 DEF Finish
<1>3. /\ \A q \in Requests \ {p} : Held(q) \cap {"receipt", "status"} = {}
      /\ request[p].seen = receipt.state
  BY <1>1, Alone
<1>4. request' \in [Requests -> Request] /\ LocksExclude' /\ SeenStands'
  BY <1>2, <1>3, EndLocks
<1>5. receipt.state \in {"pending_verification", "pending_clearance"}
  BY <1>3 DEF FinishVerify, FinishReject, FinishConfirm, FinishClearCheck
<1>6. collection = "none" /\ UNCHANGED <<cash, collection>>
  BY <1>5 DEF FinishVerify, FinishReject, FinishConfirm, FinishClearCheck, ReceiptsInv,
              CollectionFollows
<1>7. CASE Cleared(receipt)
  BY <1>4, <1>5, <1>6, <1>7, Clearing DEF ReceiptsInv, ReceiptsTypeOK, CollectionFollows
<1>8. CASE /\ \E state \in {"pending_clearance", "rejected"} :
                receipt' = [receipt EXCEPT !.state = state]
           /\ UNCHANGED <<order, clearings>>
  <2>1. /\ receipt' \in ReceiptRow /\ receipt'.state \in {"pending_clearance", "rejected"}
        /\ receipt'.cleared = receipt.cleared /\ receipt'.reversed = receipt.reversed
        /\ receipt'.designated = receipt.designated
    BY <1>8 DEF ReceiptsInv, ReceiptsTypeOK, ReceiptRow, ReceiptStates
  <2> QED BY <1>4, <1>5, <1>6, <1>8, <2>1
          DEF ReceiptsInv, ReceiptsTypeOK, ClearedOnce, CollectionFollows
<1> QED BY <1>7, <1>8 DEF FinishVerify, FinishReject, FinishConfirm, FinishClearCheck

LEMMA CashKeeps ==
  ASSUME ReceiptsInv, NEW p \in Requests,
         \/ FinishCollect(p) \/ FinishReconcile(p) \/ FinishAdjust(p) \/ FinishReverseCash(p)
  PROVE  ReceiptsInv'
<1>1. PICK command \in {"collect", "reconcile", "adjust", "reverse_cash"} :
        Finish(p, command)
  BY DEF FinishCollect, FinishReconcile, FinishAdjust, FinishReverseCash
<1>2. request' = [request EXCEPT ![p] = Idle] /\ request[p].command = command
  BY <1>1 DEF Finish
<1>3. Held(p) \cap {"receipt", "status"} # {}
  BY <1>2 DEF Held, FirstLocks, CashLocks
<1>4. receipt.state = "cleared"
  BY <1>3 DEF FinishCollect, FinishReconcile, FinishAdjust, FinishReverseCash,
              ReceiptsInv, SeenStands
<1>5. UNCHANGED <<receipt, clearings, order>>
  BY DEF FinishCollect, FinishReconcile, FinishAdjust, FinishReverseCash
<1>6. request' \in [Requests -> Request] /\ LocksExclude' /\ SeenStands'
  BY <1>2, <1>5, EndLocks
<1>7. /\ cash' \in {"none", "pending", "reconciled"}
      /\ collection' \in {"none", "cleared", "reconciled"}
      /\ collection' = "reconciled" => cash' = "reconciled"
  BY <1>4 DEF FinishCollect, FinishReconcile, FinishAdjust, FinishReverseCash,
              CollectionAfter, ReceiptsInv, ReceiptsTypeOK, CollectionFollows
<1> QED BY <1>4, <1>5, <1>6, <1>7
        DEF ReceiptsInv, ReceiptsTypeOK, ClearedOnce, CollectionFollows

LEMMA ReverseKeeps ==
  ASSUME ReceiptsInv, NEW p \in Requests, FinishReverse(p)
  PROVE  ReceiptsInv'
<1>1. Finish(p, "reverse") /\ request' = [request EXCEPT ![p] = Idle]
  BY DEF FinishReverse, Finish
<1>2. /\ \A q \in Requests \ {p} : Held(q) \cap {"receipt", "status"} = {}
      /\ request[p].seen = receipt.state
  BY <1>1, Alone DEF Changing
<1>3. request' \in [Requests -> Request] /\ LocksExclude' /\ SeenStands'
  BY <1>1, <1>2, EndLocks
<1>4. receipt.state = "cleared" /\ Amount \in Nat \ {0}
  BY <1>2, ReceiptAssumption DEF FinishReverse
<1>5. clearings = 1 /\ receipt.cleared = Amount
  BY <1>4 DEF ReceiptsInv, ClearedOnce
<1>6. /\ receipt' \in ReceiptRow
      /\ receipt'.state = "reversed" /\ receipt'.cleared = Amount
      /\ receipt'.reversed = Amount /\ receipt'.designated = 0
  BY <1>4, <1>5 DEF FinishReverse, ReceiptsInv, ReceiptsTypeOK, ReceiptRow, ReceiptStates
<1>7. order' \in OrderRow
  BY DEF FinishReverse, ReceiptsInv, ReceiptsTypeOK, OrderRow
<1>8. UNCHANGED <<clearings, cash>> /\ collection' = CollectionAfter("reversed")
  BY DEF FinishReverse
<1>9. ClearedOnce'
  BY <1>4, <1>5, <1>6, <1>8 DEF ClearedOnce
<1> QED BY <1>3, <1>6, <1>7, <1>8, <1>9
        DEF ReceiptsInv, ReceiptsTypeOK, CollectionFollows, CollectionAfter

LEMMA ReleaseKeeps ==
  ASSUME ReceiptsInv, NEW p \in Requests, FinishRelease(p) \/ Abort(p)
  PROVE  ReceiptsInv'
<1>1. /\ request' = [request EXCEPT ![p] = Idle]
      /\ UNCHANGED <<receipt, clearings, cash, collection>>
      /\ order' \in OrderRow
  BY DEF FinishRelease, Finish, Abort, ReceiptsInv, ReceiptsTypeOK, OrderRow
<1>2. request' \in [Requests -> Request] /\ LocksExclude' /\ SeenStands'
  BY <1>1, EndLocks
<1> QED BY <1>1, <1>2 DEF ReceiptsInv, ReceiptsTypeOK, ClearedOnce, CollectionFollows

-----------------------------------------------------------------------------
LEMMA ReceiptsInvInit == ReceiptsInit => ReceiptsInv
<1> SUFFICES ASSUME ReceiptsInit
             PROVE  ReceiptsInv
  OBVIOUS
<1>1. ReceiptsTypeOK
  BY DEF ReceiptsInit, ReceiptsTypeOK, ReceiptRow, ReceiptStates, OrderRow, Request, Idle
<1>2. \A p \in Requests : Held(p) = {}
  BY DEF ReceiptsInit, Held, Idle, FirstLocks
<1>3. LocksExclude /\ SeenStands
  BY <1>2 DEF LocksExclude, SeenStands
<1>4. ClearedOnce
  BY ReceiptAssumption DEF ReceiptsInit, ClearedOnce
<1>5. CollectionFollows
  BY DEF ReceiptsInit, CollectionFollows
<1> QED BY <1>1, <1>3, <1>4, <1>5 DEF ReceiptsInv

LEMMA ReceiptsInvNext == ReceiptsInv /\ [ReceiptsNext]_receiptVars => ReceiptsInv'
<1> SUFFICES ASSUME ReceiptsInv, [ReceiptsNext]_receiptVars
             PROVE  ReceiptsInv'
  OBVIOUS
<1>1. CASE Record \/ CollectCash
  BY <1>1, RecordKeeps
<1>2. ASSUME NEW p \in Requests, NEW command \in Commands, Begin(p, command)
      PROVE  ReceiptsInv'
  BY <1>2, BeginLocks
<1>3. ASSUME NEW p \in Requests,
             \/ FinishVerify(p) \/ FinishReject(p) \/ FinishConfirm(p) \/ FinishClearCheck(p)
             \/ FinishCollect(p) \/ FinishReconcile(p) \/ FinishAdjust(p)
             \/ FinishReverseCash(p) \/ FinishReverse(p) \/ FinishRelease(p) \/ Abort(p)
      PROVE  ReceiptsInv'
  BY <1>3, ClearKeeps, CashKeeps, ReverseKeeps, ReleaseKeeps
<1>4. CASE UNCHANGED receiptVars
  BY <1>4 DEF receiptVars, ReceiptsInv, ReceiptsTypeOK, LocksExclude, SeenStands, Held,
              ClearedOnce, CollectionFollows
<1> QED BY <1>1, <1>2, <1>3, <1>4 DEF ReceiptsNext

-----------------------------------------------------------------------------
(* The results *)

(* The inductive invariant: types, locks, what the requests have read, values. *)
THEOREM ReceiptsInvariant == ReceiptsSpec => []ReceiptsInv
BY ReceiptsInvInit, ReceiptsInvNext, PTL DEF ReceiptsSpec

(* However verification, provider confirmation, clearance and reversal overlap,
   a receipt is cleared once, and nobody spends what it does not have. *)
THEOREM ReceiptsClearOnce == ReceiptsSpec => []ClearedOnce
<1>1. ReceiptsInv => ClearedOnce
  BY DEF ReceiptsInv
<1> QED BY <1>1, ReceiptsInvariant, PTL

(* However collection, reconciliation and reversal overlap, a collection on
   delivery ends as its receipt does. *)
THEOREM CollectionsFollow == ReceiptsSpec => []CollectionFollows
<1>1. ReceiptsInv => CollectionFollows
  BY DEF ReceiptsInv
<1> QED BY <1>1, ReceiptsInvariant, PTL

-----------------------------------------------------------------------------
(* The inductive invariant of the quotations *)

(* A command has rows when it has a receipt, and then exactly one. *)
ReceiptsKnown ==
  /\ \A row \in Rows : row.key \in receipts
  /\ \A k \in receipts : \E row \in Rows : Effects(k) = {row}

AnswersKnown == \A k \in DOMAIN commands :
  /\ commands[k].answer = "done" => k \in receipts
  /\ commands[k].answer = "refused" => k \notin receipts

HasRevision(quotation, version) == \E r \in revisions :
  r.quotation = quotation /\ r.version = version

(* The approved revision is the latest one, until the quotation is revised. *)
ApprovalStands == \A q \in DOMAIN quotations :
  /\ HasRevision(q, quotations[q].version)
  /\ quotations[q].status # "draft" =>
       /\ quotations[q].approved = quotations[q].version
       /\ ApprovedByOther(q, quotations[q].version)

(* A conversion is final. *)
ConversionsStand == \A c \in conversions :
  /\ c.quotation \in DOMAIN quotations
  /\ quotations[c.quotation].status = "converted"
  /\ c.version = quotations[c.quotation].version
  /\ \A d \in conversions : d.quotation = c.quotation => d = c

QuotationsInv ==
  /\ QuotationsTypeOK
  /\ ReceiptsKnown /\ AnswersKnown
  /\ ApprovalStands /\ ConversionsStand

-----------------------------------------------------------------------------
(* Helpers *)

LEMMA Appended ==
  ASSUME NEW S, NEW s \in Seq(S), NEW e \in S
  PROVE  /\ Append(s, e) \in Seq(S)
         /\ DOMAIN Append(s, e) = DOMAIN s \cup {Len(s) + 1}
         /\ Len(s) + 1 \notin DOMAIN s
         /\ \A i \in DOMAIN s : Append(s, e)[i] = s[i]
         /\ Append(s, e)[Len(s) + 1] = e
<1>1. Len(s) \in Nat /\ DOMAIN s = 1..Len(s)
  BY LenProperties
<1>2. Append(s, e) \in Seq(S) /\ Len(Append(s, e)) = Len(s) + 1
  BY AppendProperties
<1>3. DOMAIN Append(s, e) = 1..(Len(s) + 1)
  BY <1>2, LenProperties
<1>4. \A i \in 1..Len(s) : Append(s, e)[i] = s[i]
  BY <1>1, AppendProperties
<1>5. Append(s, e)[Len(s) + 1] = e
  BY AppendProperties
<1> QED BY <1>1, <1>2, <1>3, <1>4, <1>5

LEMMA Changed ==
  ASSUME NEW S, NEW s \in Seq(S), NEW i \in DOMAIN s, NEW e \in S
  PROVE  /\ [s EXCEPT ![i] = e] \in Seq(S)
         /\ DOMAIN [s EXCEPT ![i] = e] = DOMAIN s
         /\ [s EXCEPT ![i] = e][i] = e
         /\ \A j \in DOMAIN s : j # i => [s EXCEPT ![i] = e][j] = s[j]
<1>1. i \in 1..Len(s)
  BY LenProperties
<1>2. [s EXCEPT ![i] = e] \in Seq(S)
  BY <1>1, ExceptSeq
<1> QED BY <1>2

(* Commands keep what was asked; of their answers one changes at most. *)
LEMMA AnswerChanges ==
  ASSUME QuotationsTypeOK, NEW k \in DOMAIN commands, NEW answer \in {"done", "refused"},
         NEW heard \in BOOLEAN, Answer(k, answer, heard)
  PROVE  /\ commands' \in Seq(Command) /\ DOMAIN commands' = DOMAIN commands
         /\ \A j \in DOMAIN commands :
              /\ commands'[j].kind = commands[j].kind
              /\ commands'[j].quotation = commands[j].quotation
              /\ commands'[j].answer = IF heard /\ j = k THEN answer ELSE commands[j].answer
<1>1. commands \in Seq(Command) /\ DOMAIN commands = 1..Len(commands)
  BY LenProperties DEF QuotationsTypeOK
<1>2. commands[k] \in Command
  BY <1>1, ElementOfSeq
<1> DEFINE row == [commands[k] EXCEPT !.answer = answer]
<1>3. /\ row \in Command /\ row.answer = answer
      /\ row.kind = commands[k].kind /\ row.quotation = commands[k].quotation
  BY <1>2 DEF Command
<1>4. CASE heard
  <2>1. commands' = [commands EXCEPT ![k] = row]
    BY <1>4 DEF Answer
  <2> HIDE DEF row
  <2>2. /\ commands' \in Seq(Command) /\ DOMAIN commands' = DOMAIN commands
        /\ commands'[k] = row
        /\ \A j \in DOMAIN commands : j # k => commands'[j] = commands[j]
    BY <2>1, <1>1, <1>3, Changed
  <2> QED BY <2>2, <1>3, <1>4
<1>5. CASE ~heard
  BY <1>5, <1>1 DEF Answer
<1> QED BY <1>4, <1>5

(* A handler that is not refused makes one row, with its key. *)
LEMMA ExecuteAdds ==
  ASSUME NEW k, Execute(k)
  PROVE  \E new : new.key = k /\ Rows' = Rows \cup {new}
<1>1. CASE Create(k)
  <2>1. Calculated(k, Len(quotations) + 1, 1).key = k
    BY DEF Calculated
  <2> QED BY <1>1, <2>1 DEF Create, MakeRevision, Rows
<1>2. CASE Update(k)
  <2>1. Calculated(k, commands[k].quotation, Row(k).version + 1).key = k
    BY DEF Calculated
  <2> QED BY <1>2, <2>1 DEF Update, MakeRevision, Rows
<1>3. CASE Approve(k)
  BY <1>3 DEF Approve, Rows
<1>4. CASE Convert(k)
  BY <1>4 DEF Convert, Rows
<1> QED BY <1>1, <1>2, <1>3, <1>4 DEF Execute

(* Of a handler that changes a quotation: which row, and how. *)
LEMMA QuotationChanges ==
  ASSUME QuotationsTypeOK, NEW k \in DOMAIN commands, commands[k].kind # "create",
         NEW row \in Quotation,
         quotations' = [quotations EXCEPT ![commands[k].quotation] = row]
  PROVE  /\ commands[k].quotation \in DOMAIN quotations
         /\ quotations' \in Seq(Quotation) /\ DOMAIN quotations' = DOMAIN quotations
         /\ quotations'[commands[k].quotation] = row
         /\ \A q \in DOMAIN quotations :
              q # commands[k].quotation => quotations'[q] = quotations[q]
<1>1. quotations \in Seq(Quotation) /\ commands[k].quotation \in DOMAIN quotations
  BY DEF QuotationsTypeOK
<1> QED BY <1>1, Changed

LEMMA RowsTyped ==
  ASSUME QuotationsTypeOK
  PROVE  /\ \A k \in DOMAIN commands : k \in Nat /\ commands[k] \in Command
         /\ \A q \in DOMAIN quotations : q \in Nat \ {0} /\ quotations[q] \in Quotation
<1>1. /\ commands \in Seq(Command) /\ DOMAIN commands = 1..Len(commands)
      /\ quotations \in Seq(Quotation) /\ DOMAIN quotations = 1..Len(quotations)
      /\ Len(commands) \in Nat /\ Len(quotations) \in Nat
  BY LenProperties DEF QuotationsTypeOK
<1>2. /\ \A k \in DOMAIN commands : commands[k] \in Command
      /\ \A q \in DOMAIN quotations : quotations[q] \in Quotation
  BY <1>1, ElementOfSeq
<1> QED BY <1>1, <1>2

(* Revisions and approvals are never taken back. *)
LEMMA HistoryKept ==
  ASSUME revisions \subseteq revisions', approvals \subseteq approvals',
         NEW q, NEW v
  PROVE  /\ HasRevision(q, v) => HasRevision(q, v)'
         /\ ApprovedByOther(q, v) => ApprovedByOther(q, v)'
<1>1. HasRevision(q, v) => HasRevision(q, v)'
  BY DEF HasRevision
<1>2. ASSUME ApprovedByOther(q, v)
      PROVE  ApprovedByOther(q, v)'
  <2>1. PICK a \in approvals, r \in revisions :
          /\ a.quotation = q /\ a.version = v /\ r.quotation = q /\ r.version = v
          /\ a.by # r.maker /\ HasAuthority(a.by, r)
    BY <1>2 DEF ApprovedByOther
  <2>2. a \in approvals' /\ r \in revisions'
    BY <2>1
  <2> QED BY <2>1, <2>2 DEF ApprovedByOther, HasAuthority
<1> QED BY <1>1, <1>2

(* What a handler that is not refused leaves of the quotations. *)
Kept ==
  /\ quotations' \in Seq(Quotation) /\ DOMAIN quotations \subseteq DOMAIN quotations'
  /\ revisions' \subseteq Revision /\ approvals' \subseteq Approval
  /\ conversions' \subseteq Conversion
  /\ ApprovalStands' /\ ConversionsStand'

(* A quotation stands after a step: in terms of what its row is then. *)
StandsNext(q, row) ==
  /\ HasRevision(q, row.version)'
  /\ row.status # "draft" => row.approved = row.version /\ ApprovedByOther(q, row.version)'

LEMMA AllStand ==
  ASSUME ASSUME NEW q, NEW row, q \in DOMAIN quotations', row = quotations'[q]
         PROVE  StandsNext(q, row)
  PROVE  ApprovalStands'
BY DEF StandsNext, ApprovalStands, HasRevision, ApprovedByOther

LEMMA OthersStand ==
  ASSUME QuotationsInv, revisions \subseteq revisions', approvals \subseteq approvals',
         NEW q \in DOMAIN quotations, NEW row, row = quotations[q]
  PROVE  StandsNext(q, row)
<1>1. /\ HasRevision(q, row.version)
      /\ row.status # "draft" => row.approved = row.version /\ ApprovedByOther(q, row.version)
  BY DEF QuotationsInv, ApprovalStands
<1> QED BY <1>1, HistoryKept DEF StandsNext

LEMMA CreateKeeps ==
  ASSUME QuotationsInv, NEW k \in DOMAIN commands, Create(k)
  PROVE  Kept
<1>1. quotations \in Seq(Quotation) /\ Len(quotations) \in Nat
  BY LenProperties DEF QuotationsInv, QuotationsTypeOK
<1> PICK q \in Nat : q = Len(quotations) + 1
  BY <1>1
<1> PICK revision : revision = Calculated(k, q, 1)
  OBVIOUS
<1> DEFINE new == [status |-> "draft", version |-> 1, approved |-> 0]
<1>2. new \in Quotation /\ new.status = "draft" /\ new.version = 1
  BY DEF Quotation
<1>3. quotations' = Append(quotations, new)
  BY DEF Create
<1>4. revisions' = revisions \cup {revision} /\ UNCHANGED <<approvals, conversions>>
  BY DEF Create, MakeRevision
<1>5. revision \in Revision /\ revision.quotation = q /\ revision.version = 1
  BY RowsTyped DEF Calculated, Revision, Command, QuotationsInv, QuotationsTypeOK
<1> HIDE DEF new
<1>6. /\ quotations' \in Seq(Quotation) /\ DOMAIN quotations' = DOMAIN quotations \cup {q}
      /\ quotations'[q] = new
      /\ \A p \in DOMAIN quotations : p # q /\ quotations'[p] = quotations[p]
  BY <1>1, <1>2, <1>3, Appended
<1>7. StandsNext(q, new)
  BY <1>2, <1>4, <1>5 DEF StandsNext, HasRevision
<1>8. ApprovalStands'
  <2> SUFFICES ASSUME NEW p, NEW row, p \in DOMAIN quotations', row = quotations'[p]
               PROVE  StandsNext(p, row)
    BY AllStand
  <2>1. CASE p = q
    BY <2>1, <1>6, <1>7
  <2>2. CASE p \in DOMAIN quotations
    BY <2>2, <1>4, <1>6, OthersStand
  <2> QED BY <2>1, <2>2, <1>6
<1>9. ConversionsStand'
  BY <1>4, <1>6 DEF QuotationsInv, ConversionsStand
<1> QED BY <1>4, <1>5, <1>6, <1>8, <1>9 DEF Kept, QuotationsInv, QuotationsTypeOK

LEMMA UpdateKeeps ==
  ASSUME QuotationsInv, NEW k \in DOMAIN commands, Acceptable(k), Update(k)
  PROVE  Kept
<1>1. /\ commands[k].kind = "update" /\ MayUpdate(k)
      /\ commands[k].quotation \in DOMAIN quotations
  BY DEF Update, Acceptable, QuotationsInv, QuotationsTypeOK
<1> PICK q : q = commands[k].quotation
  OBVIOUS
<1> PICK old : old = quotations[q]
  OBVIOUS
<1>2. old \in Quotation /\ q \in Nat /\ commands[k] \in Command /\ k \in Nat
  BY <1>1, RowsTyped DEF QuotationsInv
<1> PICK next \in Nat : next = old.version + 1
  BY <1>2 DEF Quotation
<1> PICK revision : revision = Calculated(k, q, next)
  OBVIOUS
<1> DEFINE new == Revised(old)
<1>3. new \in Quotation /\ new.status = "draft" /\ new.version = next
  <2>1. new = [old EXCEPT !.status = "draft", !.version = next, !.approved = 0]
    BY DEF Revised
  <2>2. next \in Nat /\ 0 \in Nat
    OBVIOUS
  <2> QED BY <2>1, <2>2, <1>2 DEF Quotation
<1>4. quotations' = [quotations EXCEPT ![q] = new]
  BY DEF Update
<1>5. revisions' = revisions \cup {revision} /\ UNCHANGED <<approvals, conversions>>
  BY DEF Update, MakeRevision, Row
<1>6. /\ revision \in Revision
      /\ revision.quotation = q /\ revision.version = next
  <2>1. customer.version \in Nat /\ today + 1 \in Nat
    BY DEF QuotationsInv, QuotationsTypeOK
  <2> QED BY <2>1, <1>2 DEF Calculated, Revision, Command
<1> HIDE DEF new
<1>7. /\ quotations' \in Seq(Quotation) /\ DOMAIN quotations' = DOMAIN quotations
      /\ quotations'[q] = new
      /\ \A p \in DOMAIN quotations : p # q => quotations'[p] = quotations[p]
  BY <1>1, <1>3, <1>4, QuotationChanges DEF QuotationsInv
<1>8. StandsNext(q, new)
  BY <1>3, <1>5, <1>6 DEF StandsNext, HasRevision
<1>9. ApprovalStands'
  <2> SUFFICES ASSUME NEW p, NEW row, p \in DOMAIN quotations', row = quotations'[p]
               PROVE  StandsNext(p, row)
    BY AllStand
  <2>1. CASE p = q
    BY <2>1, <1>7, <1>8
  <2>2. CASE p # q
    BY <2>2, <1>5, <1>7, OthersStand
  <2> QED BY <2>1, <2>2
<1>10. \A c \in conversions : c.quotation # q
  BY <1>1 DEF QuotationsInv, ConversionsStand, MayUpdate, Row
<1>11. ConversionsStand'
  BY <1>5, <1>7, <1>10 DEF QuotationsInv, ConversionsStand
<1> QED BY <1>5, <1>6, <1>7, <1>9, <1>11 DEF Kept, QuotationsInv, QuotationsTypeOK

LEMMA ApproveKeeps ==
  ASSUME QuotationsInv, NEW k \in DOMAIN commands, Acceptable(k), Approve(k)
  PROVE  Kept
<1>1. /\ commands[k].kind = "approve" /\ MayApprove(k) /\ Seen(k)
      /\ commands[k].quotation \in DOMAIN quotations
  BY DEF Approve, Acceptable, QuotationsInv, QuotationsTypeOK
<1> PICK q : q = commands[k].quotation
  OBVIOUS
<1> PICK old : old = quotations[q]
  OBVIOUS
<1> PICK approval : approval = [quotation |-> q, version |-> old.version,
                                by |-> commands[k].by, key |-> k]
  OBVIOUS
<1> DEFINE new == [old EXCEPT !.status = "approved", !.approved = old.version]
<1>2. old \in Quotation /\ q \in Nat /\ old.version = commands[k].version
  BY <1>1, RowsTyped DEF QuotationsInv, Seen, Row
<1>3. /\ new \in Quotation /\ new.status = "approved"
      /\ new.version = old.version /\ new.approved = old.version
  BY <1>2 DEF Quotation
<1>4. quotations' = [quotations EXCEPT ![q] = new]
  BY <1>2 DEF Approve
<1>5. approvals' = approvals \cup {approval} /\ UNCHANGED <<revisions, conversions>>
  BY <1>2 DEF Approve
<1>6. approval \in Approval
  BY <1>2, RowsTyped DEF Approval, Command, Quotation, QuotationsInv
<1> HIDE DEF new
<1>7. /\ quotations' \in Seq(Quotation) /\ DOMAIN quotations' = DOMAIN quotations
      /\ quotations'[q] = new
      /\ \A p \in DOMAIN quotations : p # q => quotations'[p] = quotations[p]
  BY <1>1, <1>3, <1>4, QuotationChanges DEF QuotationsInv
<1>8. HasRevision(q, old.version)
  BY <1>1 DEF QuotationsInv, ApprovalStands
<1> PICK revision : revision = RevisionOf(q, old.version)
  OBVIOUS
<1>9. /\ revision \in revisions
      /\ revision.quotation = q /\ revision.version = old.version
  BY <1>8 DEF HasRevision, RevisionOf
<1>10. commands[k].by # revision.maker /\ HasAuthority(commands[k].by, revision)
  BY <1>1, <1>2 DEF MayApprove
<1>11. ApprovedByOther(q, old.version)'
  <2>1. /\ approval \in approvals' /\ revision \in revisions'
        /\ approval.quotation = q /\ approval.version = old.version
        /\ approval.by = commands[k].by
    BY <1>5, <1>9
  <2> QED BY <2>1, <1>9, <1>10 DEF ApprovedByOther, HasAuthority
<1>12. StandsNext(q, new)
  BY <1>3, <1>5, <1>8, <1>11, HistoryKept DEF StandsNext
<1>13. ApprovalStands'
  <2> SUFFICES ASSUME NEW p, NEW row, p \in DOMAIN quotations', row = quotations'[p]
               PROVE  StandsNext(p, row)
    BY AllStand
  <2>1. CASE p = q
    BY <2>1, <1>7, <1>12
  <2>2. CASE p # q
    BY <2>2, <1>5, <1>7, OthersStand
  <2> QED BY <2>1, <2>2
<1>14. \A c \in conversions : c.quotation # q
  BY <1>1 DEF QuotationsInv, ConversionsStand, MayApprove, Row
<1>15. ConversionsStand'
  BY <1>5, <1>7, <1>14 DEF QuotationsInv, ConversionsStand
<1> QED BY <1>5, <1>6, <1>7, <1>13, <1>15 DEF Kept, QuotationsInv, QuotationsTypeOK

LEMMA ConvertKeeps ==
  ASSUME QuotationsInv, NEW k \in DOMAIN commands, Acceptable(k), Convert(k)
  PROVE  Kept
<1>1. /\ commands[k].kind = "convert" /\ MayConvert(k)
      /\ commands[k].quotation \in DOMAIN quotations
  BY DEF Convert, Acceptable, QuotationsInv, QuotationsTypeOK
<1> PICK q : q = commands[k].quotation
  OBVIOUS
<1> PICK old : old = quotations[q]
  OBVIOUS
<1> PICK conversion : conversion = [quotation |-> q, version |-> old.approved, key |-> k]
  OBVIOUS
<1> DEFINE new == [old EXCEPT !.status = "converted"]
<1>2. old \in Quotation /\ q \in Nat
  BY <1>1, RowsTyped DEF QuotationsInv
<1>3. /\ new \in Quotation /\ new.status = "converted"
      /\ new.version = old.version /\ new.approved = old.approved
  BY <1>2 DEF Quotation
<1>4. quotations' = [quotations EXCEPT ![q] = new]
  BY DEF Convert
<1>5. conversions' = conversions \cup {conversion} /\ UNCHANGED <<revisions, approvals>>
  BY DEF Convert, Row
<1>6. /\ conversion \in Conversion
      /\ conversion.quotation = q /\ conversion.version = old.approved
  BY <1>2, RowsTyped DEF Conversion, Command, Quotation, QuotationsInv
<1> HIDE DEF new
<1>7. /\ quotations' \in Seq(Quotation) /\ DOMAIN quotations' = DOMAIN quotations
      /\ quotations'[q] = new
      /\ \A p \in DOMAIN quotations : p # q => quotations'[p] = quotations[p]
  BY <1>1, <1>3, <1>4, QuotationChanges DEF QuotationsInv
<1>8. StandsNext(q, old)
  BY <1>1, <1>5, OthersStand
<1>9. old.status = "approved" /\ old.approved = old.version
  BY <1>1 DEF MayConvert, Row, QuotationsInv, ApprovalStands
<1>10. StandsNext(q, new)
  BY <1>3, <1>8, <1>9 DEF StandsNext
<1>11. ApprovalStands'
  <2> SUFFICES ASSUME NEW p, NEW row, p \in DOMAIN quotations', row = quotations'[p]
               PROVE  StandsNext(p, row)
    BY AllStand
  <2>1. CASE p = q
    BY <2>1, <1>7, <1>10
  <2>2. CASE p # q
    BY <2>2, <1>5, <1>7, OthersStand
  <2> QED BY <2>1, <2>2
<1>12. \A c \in conversions : c.quotation # q
  BY <1>1 DEF MayConvert
<1>13. ConversionsStand'
  BY <1>1, <1>3, <1>5, <1>6, <1>7, <1>9, <1>12 DEF QuotationsInv, ConversionsStand
<1> QED BY <1>5, <1>6, <1>7, <1>11, <1>13 DEF Kept, QuotationsInv, QuotationsTypeOK

-----------------------------------------------------------------------------
(* The steps *)

LEMMA QuotationsInvInit == QuotationsInit => QuotationsInv
<1> SUFFICES ASSUME QuotationsInit
             PROVE  QuotationsInv
  OBVIOUS
<1>1. commands = <<>> /\ quotations = <<>> /\ DOMAIN commands = {} /\ DOMAIN quotations = {}
  BY DEF QuotationsInit
<1>2. QuotationsTypeOK
  BY <1>1, EmptySeq DEF QuotationsInit, QuotationsTypeOK
<1>3. ReceiptsKnown
  BY DEF QuotationsInit, ReceiptsKnown, Rows
<1> QED BY <1>1, <1>2, <1>3
        DEF QuotationsInit, QuotationsInv, AnswersKnown, ApprovalStands, ConversionsStand

(* What no row and no receipt changes. *)
LEMMA RowsStay ==
  ASSUME QuotationsInv, UNCHANGED <<quotations, revisions, approvals, conversions, receipts>>
  PROVE  ReceiptsKnown' /\ ApprovalStands' /\ ConversionsStand'
<1>1. ReceiptsKnown'
  BY DEF QuotationsInv, ReceiptsKnown, Effects, Rows
<1>2. ApprovalStands'
  BY DEF QuotationsInv, ApprovalStands, ApprovedByOther, HasRevision, HasAuthority
<1>3. ConversionsStand'
  BY DEF QuotationsInv, ConversionsStand
<1> QED BY <1>1, <1>2, <1>3

LEMMA GiveKeeps ==
  ASSUME QuotationsInv, NEW kind \in {"create", "update", "approve", "convert"},
         NEW by \in Users, NEW quotation \in 0..Len(quotations), NEW exceptional \in BOOLEAN,
         Give(kind, by, quotation, exceptional)
  PROVE  QuotationsInv'
<1>1. /\ commands \in Seq(Command) /\ quotations \in Seq(Quotation)
      /\ Len(quotations) \in Nat /\ DOMAIN quotations = 1..Len(quotations)
  BY LenProperties DEF QuotationsInv, QuotationsTypeOK
<1> PICK version : version = IF quotation = 0 THEN 0 ELSE quotations[quotation].version
  OBVIOUS
<1> DEFINE new == [kind |-> kind, by |-> by, quotation |-> quotation, version |-> version,
                   exceptional |-> exceptional, answer |-> "none"]
<1>2. quotation \in Nat /\ (kind # "create" => quotation \in DOMAIN quotations)
  BY <1>1 DEF Give
<1>3. version \in Nat
  <2>1. quotation # 0 => quotation \in DOMAIN quotations
    BY <1>1
  <2> QED BY <2>1, RowsTyped DEF Quotation, QuotationsInv
<1>4. new \in Command /\ new.answer = "none" /\ new.kind = kind /\ new.quotation = quotation
  BY <1>2, <1>3 DEF Command
<1>5. /\ commands' = Append(commands, new)
      /\ UNCHANGED <<quotations, revisions, approvals, conversions, receipts, customer, today>>
  BY DEF Give
<1> HIDE DEF new
<1>6. /\ commands' \in Seq(Command) /\ DOMAIN commands' = DOMAIN commands \cup {Len(commands) + 1}
      /\ commands'[Len(commands) + 1] = new
      /\ \A k \in DOMAIN commands : commands'[k] = commands[k]
  BY <1>1, <1>4, <1>5, Appended
<1>7. QuotationsTypeOK'
  BY <1>2, <1>4, <1>5, <1>6 DEF QuotationsInv, QuotationsTypeOK
<1>8. AnswersKnown'
  BY <1>4, <1>5, <1>6 DEF QuotationsInv, AnswersKnown
<1> QED BY <1>5, <1>7, <1>8, RowsStay DEF QuotationsInv

(* A request that is answered without being executed. *)
LEMMA AnswerKeeps ==
  ASSUME QuotationsInv, NEW k \in DOMAIN commands, NEW heard \in BOOLEAN,
         NEW answer \in {"done", "refused"}, answer = "done" <=> k \in receipts,
         Answer(k, answer, heard),
         UNCHANGED <<quotations, revisions, approvals, conversions, receipts, customer, today>>
  PROVE  QuotationsInv'
<1>1. /\ commands' \in Seq(Command) /\ DOMAIN commands' = DOMAIN commands
      /\ \A j \in DOMAIN commands :
           /\ commands'[j].kind = commands[j].kind
           /\ commands'[j].quotation = commands[j].quotation
           /\ commands'[j].answer = IF heard /\ j = k THEN answer ELSE commands[j].answer
  BY AnswerChanges DEF QuotationsInv
<1>2. QuotationsTypeOK'
  BY <1>1 DEF QuotationsInv, QuotationsTypeOK
<1>3. AnswersKnown'
  BY <1>1 DEF QuotationsInv, AnswersKnown
<1> QED BY <1>2, <1>3, RowsStay DEF QuotationsInv

(* A request that is executed. *)
LEMMA ExecuteKeeps ==
  ASSUME QuotationsInv, NEW k \in DOMAIN commands, NEW heard \in BOOLEAN,
         k \notin receipts, commands[k].answer = "none", Acceptable(k), Execute(k),
         receipts' = receipts \cup {k}, Answer(k, "done", heard), UNCHANGED <<customer, today>>
  PROVE  QuotationsInv'
<1>1. Kept
  BY CreateKeeps, UpdateKeeps, ApproveKeeps, ConvertKeeps DEF Execute
<1>2. /\ commands' \in Seq(Command) /\ DOMAIN commands' = DOMAIN commands
      /\ \A j \in DOMAIN commands :
           /\ commands'[j].kind = commands[j].kind
           /\ commands'[j].quotation = commands[j].quotation
           /\ commands'[j].answer = IF heard /\ j = k THEN "done" ELSE commands[j].answer
  BY AnswerChanges DEF QuotationsInv
<1>3. QuotationsTypeOK'
  BY <1>1, <1>2 DEF Kept, QuotationsInv, QuotationsTypeOK
<1>4. AnswersKnown'
  BY <1>2 DEF QuotationsInv, AnswersKnown
<1>5. ReceiptsKnown'
  <2>1. PICK new : new.key = k /\ Rows' = Rows \cup {new}
    BY ExecuteAdds
  <2>2. \A row \in Rows : row.key # k
    BY DEF QuotationsInv, ReceiptsKnown
  <2>3. \A row \in Rows' : row.key \in receipts'
    BY <2>1 DEF QuotationsInv, ReceiptsKnown
  <2>4. Effects(k)' = {new}
    BY <2>1, <2>2 DEF Effects
  <2>5. ASSUME NEW j \in receipts
        PROVE  Effects(j)' = Effects(j)
    BY <2>1 DEF Effects
  <2>6. ASSUME NEW j \in receipts'
        PROVE  \E row \in Rows' : Effects(j)' = {row}
    BY <2>1, <2>4, <2>5 DEF QuotationsInv, ReceiptsKnown
  <2> QED BY <2>3, <2>6 DEF ReceiptsKnown
<1> QED BY <1>1, <1>3, <1>4, <1>5 DEF Kept, QuotationsInv

LEMMA QuotationsInvNext == QuotationsInv /\ [QuotationsNext]_quotationVars => QuotationsInv'
<1> SUFFICES ASSUME QuotationsInv, [QuotationsNext]_quotationVars
             PROVE  QuotationsInv'
  OBVIOUS
<1>1. ASSUME NEW kind \in {"create", "update", "approve", "convert"}, NEW by \in Users,
             NEW quotation \in 0..Len(quotations), NEW exceptional \in BOOLEAN,
             Give(kind, by, quotation, exceptional)
      PROVE  QuotationsInv'
  BY <1>1, GiveKeeps
<1>2. ASSUME NEW k \in DOMAIN commands, NEW heard \in BOOLEAN, Handle(k, heard)
      PROVE  QuotationsInv'
  BY <1>2, AnswerKeeps, ExecuteKeeps DEF Handle, Replayed
<1>3. ASSUME CustomerChanges \/ DayPasses
      PROVE  QuotationsInv'
  <2>1. UNCHANGED <<commands, quotations, revisions, approvals, conversions, receipts>>
    BY <1>3 DEF CustomerChanges, DayPasses
  <2>2. customer' \in [version : Nat, active : BOOLEAN] /\ today' \in Nat
    BY <1>3 DEF CustomerChanges, DayPasses, QuotationsInv, QuotationsTypeOK
  <2> QED BY <2>1, <2>2, RowsStay DEF QuotationsInv, QuotationsTypeOK, AnswersKnown
<1>4. ASSUME UNCHANGED quotationVars
      PROVE  QuotationsInv'
  BY <1>4, RowsStay DEF quotationVars, QuotationsInv, QuotationsTypeOK, AnswersKnown
<1> QED BY <1>1, <1>2, <1>3, <1>4 DEF QuotationsNext

-----------------------------------------------------------------------------
(* The results *)

(* The inductive invariant of quotations and the commands on them. *)
THEOREM QuotationsInvariant == QuotationsSpec => []QuotationsInv
BY QuotationsInvInit, QuotationsInvNext, PTL DEF QuotationsSpec

(* Every row keeps its shape, and what a command names exists. *)
THEOREM QuotationsTyped == QuotationsSpec => []QuotationsTypeOK
<1>1. QuotationsInv => QuotationsTypeOK
  BY DEF QuotationsInv
<1> QED BY <1>1, QuotationsInvariant, PTL

(* However often a command is sent, whatever others do in between and however
   often its answer is lost, it has one effect, and the answer that is finally
   heard tells whether it had. *)
THEOREM AnswersAreTrue == QuotationsSpec => []AnswersTrue
<1>1. QuotationsInv => AnswersTrue
  <2> SUFFICES ASSUME QuotationsInv, NEW k \in DOMAIN commands
               PROVE  /\ Cardinality(Effects(k)) <= 1
                      /\ commands[k].answer = "done" => Effects(k) # {}
                      /\ commands[k].answer = "refused" => Effects(k) = {}
    BY DEF AnswersTrue
  <2>1. CASE k \in receipts
    <3>1. PICK row : Effects(k) = {row}
      BY <2>1 DEF QuotationsInv, ReceiptsKnown
    <3>2. Cardinality(Effects(k)) = 1
      BY <3>1, FS_Singleton
    <3> QED BY <2>1, <3>1, <3>2 DEF QuotationsInv, AnswersKnown
  <2>2. CASE k \notin receipts
    <3>1. Effects(k) = {}
      BY <2>2 DEF QuotationsInv, ReceiptsKnown, Effects
    <3>2. Cardinality(Effects(k)) = 0
      BY <3>1, FS_EmptySet
    <3> QED BY <2>2, <3>1, <3>2 DEF QuotationsInv, AnswersKnown
  <2> QED BY <2>1, <2>2
<1> QED BY <1>1, QuotationsInvariant, PTL

(* A quotation becomes one order at most, of the revision that someone else than
   its maker approved, although it may be revised and approved many times. *)
THEOREM ConversionsAreApproved == QuotationsSpec => []ConvertedAsApproved
<1>1. QuotationsInv => ConvertedAsApproved
  BY DEF QuotationsInv, ConversionsStand, ApprovalStands, ConvertedAsApproved
<1> QED BY <1>1, QuotationsInvariant, PTL

-----------------------------------------------------------------------------
(* The draft invoices of one delivery: the inductive invariant *)

(* The drafts that exist once n events were handled. *)
DraftsAfter(n) ==
  {d \in DraftIds : \E k \in 0..n - 1 :
     IF k = 0 THEN d = DraftOf(0) ELSE d \in Corrected(k)}

(* Events are handled in their order, since only what is handled is corrected,
   and each draft in force charges what its version says was accepted; then so
   do all drafts together, those of the version before being reversed. *)
HandledTo(n) ==
  /\ done = (1..n) \X {"delivery"}
  /\ n <= announced /\ announced <= n + 1
  /\ announced > 1 => DraftOf(announced - 2) \in DOMAIN drafts
  /\ DOMAIN drafts = DraftsAfter(n)
  /\ n > 0 => DOMAIN drafts[DraftOf(0)] = Lines
  /\ \A d \in DraftIds, l \in Lines : ChargeOf(d, l) \in Int
  /\ \A k \in 0..n - 1 : DraftOf(k) \in DOMAIN drafts =>
       \A l \in Lines : ChargeOf(DraftOf(k), l) = accepted[k][l]
  /\ \A l \in Lines : Charged(l) = IF n = 0 THEN 0 ELSE accepted[n - 1][l]

DraftTypes ==
  /\ announced \in 0..MaxCorrections + 1
  /\ accepted \in [Versions -> Quantities]
  /\ proposal \subseteq Quantities

(* A correction that is requested is of a version whose draft exists. *)
ProposalOwned ==
  proposal # {} => announced > 0 /\ DraftOf(announced - 1) \in DOMAIN drafts

DraftInv ==
  DraftTypes /\ ProposalOwned /\ \E n \in 0..MaxCorrections + 1 : HandledTo(n)

-----------------------------------------------------------------------------
(* What drafts charge *)

LEMMA DraftIdsFinite == IsFiniteSet(DraftIds)
<1>1. IsFiniteSet({"reversal", "replacement"}) /\ IsFiniteSet({<<"original", 0>>})
  <2>1. {"reversal", "replacement"} = {"reversal"} \cup {"replacement"}
    OBVIOUS
  <2>2. IsFiniteSet({"reversal"}) /\ IsFiniteSet({"replacement"})
    BY FS_Singleton
  <2>3. IsFiniteSet({"reversal"} \cup {"replacement"})
    BY <2>2, FS_Union
  <2>4. IsFiniteSet({<<"original", 0>>})
    BY FS_Singleton
  <2> QED BY <2>1, <2>3, <2>4
<1>2. IsFiniteSet(1..MaxCorrections)
  BY DraftAssumption, FS_Interval
<1>3. IsFiniteSet({"reversal", "replacement"} \X (1..MaxCorrections))
  BY <1>1, <1>2, FS_Product
<1> QED BY <1>1, <1>3, FS_Union DEF DraftIds

(* Nothing is charged differently while the drafts stay. *)
LEMMA ChargesStay ==
  ASSUME UNCHANGED drafts, NEW l
  PROVE  Charged(l)' = Charged(l) /\ \A d : ChargeOf(d, l)' = ChargeOf(d, l)
BY DEF Charged, Charges, ChargeOf

(* The identities of drafts of different versions differ. *)
LEMMA DraftsDiffer ==
  ASSUME NEW k \in Versions
  PROVE  /\ DraftOf(k) \in DraftIds
         /\ \A j \in Versions : DraftOf(j) = DraftOf(k) => j = k
         /\ k > 0 => <<"reversal", k>> \in DraftIds
         /\ \A j : DraftOf(j) # <<"reversal", k>>
BY DraftAssumption DEF DraftOf, DraftIds, Versions

(* Drafts after n events are those of the versions before n. *)
LEMMA DraftsAfterMeans ==
  ASSUME NEW n \in 0..MaxCorrections + 1, NEW k \in Versions, DraftOf(k) \in DraftsAfter(n)
  PROVE  k < n
<1>1. PICK j \in 0..n - 1 : IF j = 0 THEN DraftOf(k) = DraftOf(0) ELSE DraftOf(k) \in Corrected(j)
  BY DEF DraftsAfter
<1>2. j \in Versions
  BY <1>1, DraftAssumption DEF Versions
<1>3. DraftOf(k) = DraftOf(j)
  BY <1>1, <1>2, DraftsDiffer DEF Corrected
<1>4. k = j
  BY <1>2, <1>3, DraftsDiffer
<1> QED BY <1>1, <1>4

-----------------------------------------------------------------------------
(* The steps *)

LEMMA DraftInvInit ==
  ASSUME DraftInit
  PROVE  DraftInv
<1>1. announced = 0 /\ done = {} /\ drafts = <<>>
  BY DEF DraftInit, Invoicing!HandlingInit
<1>2. DraftTypes /\ ProposalOwned
  BY <1>1, DraftAssumption DEF DraftInit, DraftTypes, Versions, Quantities, ProposalOwned
<1>3. DOMAIN drafts = {} /\ DraftsAfter(0) = {}
  BY <1>1 DEF DraftsAfter
<1>4. \A l \in Lines : Charged(l) = 0 /\ \A d \in DraftIds : ChargeOf(d, l) = 0
  <2> TAKE l \in Lines
  <2>1. \A d \in DraftIds : ChargeOf(d, l) = 0 /\ Charges(l)[d] = 0
    BY <1>3 DEF ChargeOf, Charges
  <2> QED BY <2>1, NetZero DEF Charged
<1>5. HandledTo(0)
  BY <1>1, <1>3, <1>4 DEF HandledTo
<1> QED BY <1>2, <1>5, DraftAssumption DEF DraftInv

(* A step that handles nothing: an event may be announced, of a version that no
   draft is of yet. *)
LEMMA NothingHandled ==
  ASSUME DraftInv, DraftTypes', ProposalOwned', UNCHANGED <<done, drafts>>,
         \/ UNCHANGED <<announced, accepted>>
         \/ /\ announced' = announced + 1
            /\ \A k \in Versions \ {announced} : accepted'[k] = accepted[k]
            /\ announced > 0 => DraftOf(announced - 1) \in DOMAIN drafts
  PROVE  DraftInv'
<1>1. PICK n \in 0..MaxCorrections + 1 : HandledTo(n)
  BY DEF DraftInv
<1>2. announced' = announced \/ (announced' = announced + 1 /\ n = announced)
  <2>1. announced \in 0..MaxCorrections + 1
    BY DEF DraftInv, DraftTypes
  <2>2. CASE announced > 0 /\ DraftOf(announced - 1) \in DOMAIN drafts
    <3>1. announced - 1 \in Versions
      BY <2>1, <2>2, DraftAssumption DEF Versions
    <3>2. announced - 1 < n
      BY <1>1, <2>2, <3>1, DraftsAfterMeans DEF HandledTo
    <3> QED BY <1>1, <2>1, <3>2 DEF HandledTo
  <2>3. CASE announced = 0
    BY <1>1, <2>1, <2>3 DEF HandledTo
  <2> QED BY <2>1, <2>2, <2>3
<1>3. \A k \in 0..n - 1 : accepted'[k] = accepted[k]
  BY <1>1, <1>2, DraftAssumption DEF Versions, HandledTo, DraftInv, DraftTypes
<1>4. DraftsAfter(n)' = DraftsAfter(n)
  BY <1>3 DEF DraftsAfter, Corrected, AcceptedLines
<1>5. \A l : Charged(l)' = Charged(l) /\ \A d : ChargeOf(d, l)' = ChargeOf(d, l)
  BY ChargesStay
<1>6. announced' > 1 => DraftOf(announced' - 2) \in DOMAIN drafts
  BY <1>1, <1>2 DEF HandledTo, DraftInv, DraftTypes
<1>7. n <= announced' /\ announced' <= n + 1
  BY <1>1, <1>2 DEF HandledTo, DraftInv, DraftTypes
<1>8. \A l \in Lines : Charged(l)' = IF n = 0 THEN 0 ELSE accepted'[n - 1][l]
  BY <1>1, <1>3, <1>5 DEF HandledTo
<1>9. \A k \in 0..n - 1 : DraftOf(k) \in DOMAIN drafts =>
        \A l \in Lines : ChargeOf(DraftOf(k), l)' = accepted'[k][l]
  BY <1>1, <1>3, <1>5 DEF HandledTo
<1>10. HandledTo(n)'
  BY <1>1, <1>4, <1>5, <1>6, <1>7, <1>8, <1>9 DEF HandledTo
<1> QED BY <1>10 DEF DraftInv

(* The confirmation is invoiced. *)
LEMMA InvoiceStep ==
  ASSUME DraftInv, Invoice
  PROVE  DraftInv'
<1>1. PICK n \in 0..MaxCorrections + 1 : HandledTo(n)
  BY DEF DraftInv
<1>2. /\ 1 <= announced /\ <<1, "delivery">> \notin done
      /\ done' = done \cup {<<1, "delivery">>} /\ announced' = announced
      /\ drafts' = [d \in {DraftOf(0)} |-> accepted[0]]
      /\ UNCHANGED <<accepted, proposal, ledger>>
  BY DEF Invoice, Invoicing!Handle
<1>3. n = 0 /\ announced = 1
  BY <1>1, <1>2 DEF HandledTo, DraftInv, DraftTypes
<1>4. 0 \in Versions /\ accepted[0] \in Quantities
  BY DraftAssumption DEF DraftInv, DraftTypes, Versions
<1>5. DraftTypes' /\ ProposalOwned'
  BY <1>2, <1>3 DEF DraftInv, DraftTypes, ProposalOwned
<1>6. done' = (1..1) \X {"delivery"}
  BY <1>1, <1>2, <1>3 DEF HandledTo
<1>7. DraftOf(0) \in DraftIds /\ DraftsAfter(1) = {DraftOf(0)}
  <2>1. DraftOf(0) \in DraftIds
    BY <1>4, DraftsDiffer
  <2>2. \A j : j \in 0..1 - 1 <=> j = 0
    OBVIOUS
  <2> QED BY <2>1, <2>2 DEF DraftsAfter
<1>8. DOMAIN drafts' = DraftsAfter(1)'
  <2>1. DOMAIN drafts' = {DraftOf(0)}
    BY <1>2
  <2>2. DraftsAfter(1)' = DraftsAfter(1)
    BY <1>2 DEF DraftsAfter, Corrected, AcceptedLines
  <2> QED BY <1>7, <2>1, <2>2
<1>9. ASSUME NEW l \in Lines
      PROVE  /\ \A d \in DraftIds : ChargeOf(d, l)' = IF d = DraftOf(0) THEN accepted[0][l] ELSE 0
             /\ accepted[0][l] \in Int
             /\ Charged(l)' = accepted[0][l]
  <2>1. DOMAIN accepted[0] = Lines /\ accepted[0][l] \in Int
    BY <1>4, DraftAssumption DEF Quantities
  <2>2. \A d \in DraftIds : ChargeOf(d, l)' = IF d = DraftOf(0) THEN accepted[0][l] ELSE 0
    BY <1>2, <2>1 DEF ChargeOf
  <2> DEFINE old == [d \in DraftIds |-> 0]
             new == [d \in DraftIds |-> IF d = DraftOf(0) THEN accepted[0][l] ELSE 0]
  <2>3. Charges(l)' = new
    BY <2>2 DEF Charges
  <2>4. /\ \A d \in DraftIds : old[d] = 0 /\ old[d] \in Int /\ new[d] \in Int
        /\ \A d \in DraftIds \ {DraftOf(0)} : new[d] = old[d]
        /\ new[DraftOf(0)] = accepted[0][l]
    BY <1>7, <2>1
  <2> HIDE DEF old, new
  <2>5. Net(old, DraftIds) = 0
    BY <2>4, NetZero
  <2>6. Net(new, DraftIds) = Net(old, DraftIds) - old[DraftOf(0)] + new[DraftOf(0)]
    BY <1>7, <2>4, DraftIdsFinite, NetChange
  <2>7. Net(new, DraftIds) = accepted[0][l]
    BY <1>7, <2>1, <2>4, <2>5, <2>6
  <2> QED BY <2>1, <2>2, <2>3, <2>7 DEF Charged
<1>10. DOMAIN drafts'[DraftOf(0)] = Lines
  BY <1>2, <1>4 DEF Quantities
<1>11. HandledTo(1)'
  <2>1. \A d \in DraftIds, l \in Lines : ChargeOf(d, l)' \in Int
    BY <1>9
  <2>2. \A k \in 0..0 : \A l \in Lines : ChargeOf(DraftOf(k), l)' = accepted'[k][l]
    BY <1>2, <1>7, <1>9
  <2>3. \A l \in Lines : Charged(l)' = accepted'[1 - 1][l]
    BY <1>2, <1>9
  <2> QED BY <1>2, <1>3, <1>6, <1>8, <1>10, <2>1, <2>2, <2>3 DEF HandledTo
<1> QED BY <1>5, <1>11, DraftAssumption DEF DraftInv

(* A correction is invoiced: it is the last event, of the draft in force. *)
LEMMA CorrectionStep ==
  ASSUME DraftInv, NEW k \in Versions, InvoiceCorrection(k)
  PROVE  DraftInv'
<1>1. PICK n \in 0..MaxCorrections + 1 : HandledTo(n)
  BY DEF DraftInv
<1> DEFINE before   == DraftOf(k - 1)
           reversal == <<"reversal", k>>
           after    == DraftOf(k)
<1>2. /\ k > 0 /\ k + 1 <= announced /\ <<k + 1, "delivery">> \notin done
      /\ done' = done \cup {<<k + 1, "delivery">>} /\ announced' = announced
      /\ drafts' = [d \in DOMAIN drafts \cup Corrected(k) |->
                    IF d = reversal THEN Reversal(k)
                    ELSE IF d = after THEN Replacement(k) ELSE drafts[d]]
      /\ UNCHANGED <<accepted, proposal, ledger>>
  BY DEF InvoiceCorrection, Invoicing!Handle
<1>3. k \in 1..MaxCorrections /\ n = k /\ announced = k + 1
  BY <1>1, <1>2, DraftAssumption DEF HandledTo, DraftInv, DraftTypes, Versions
<1>4. before \in DOMAIN drafts /\ k - 1 \in Versions /\ k - 1 \in 0..n - 1
  <2>1. k - 1 \in Versions /\ k - 1 \in 0..n - 1 /\ announced > 1 /\ announced - 2 = k - 1
    BY <1>3, DraftAssumption DEF Versions
  <2> QED BY <1>1, <2>1 DEF HandledTo
<1>5. \A j \in Versions : accepted[j] \in Quantities
  BY DEF DraftInv, DraftTypes
<1>6. /\ before \in DraftIds /\ reversal \in DraftIds /\ after \in DraftIds
      /\ before # reversal /\ before # after /\ after # reversal /\ DraftOf(0) # after
      /\ DraftOf(0) # reversal
  <2>1. 0 \in Versions /\ k - 1 \in Versions /\ k - 1 # k /\ k # 0
    BY <1>3, <1>4, DraftAssumption DEF Versions
  <2>2. before \in DraftIds /\ after \in DraftIds /\ reversal \in DraftIds
    BY <1>2, <2>1, DraftsDiffer
  <2>3. before # reversal /\ after # reversal /\ DraftOf(0) # reversal
    BY <2>1, DraftsDiffer
  <2>4. before # after /\ DraftOf(0) # after
    BY <2>1, DraftsDiffer
  <2> QED BY <2>2, <2>3, <2>4
<1>7. Corrected(k) = {reversal} \cup (IF AcceptedLines(k) = {} THEN {} ELSE {after})
  BY DEF Corrected
<1>8. after \notin DOMAIN drafts /\ reversal \notin DOMAIN drafts
  <2>1. after \notin DraftsAfter(n)
    BY <1>3, DraftsAfterMeans
  <2>2. reversal \notin DraftsAfter(n)
    <3> SUFFICES ASSUME NEW j \in 0..n - 1,
                        IF j = 0 THEN reversal = DraftOf(0) ELSE reversal \in Corrected(j)
                 PROVE  FALSE
      BY DEF DraftsAfter
    <3>1. j \in Versions /\ j < k
      BY <1>3, DraftAssumption DEF Versions
    <3>2. reversal # DraftOf(j) /\ reversal # DraftOf(0)
      BY DraftsDiffer
    <3> QED BY <3>1, <3>2 DEF Corrected
  <2> QED BY <1>1, <2>1, <2>2 DEF HandledTo
<1>9. DraftTypes' /\ ProposalOwned'
  BY <1>2 DEF DraftInv, DraftTypes, ProposalOwned
<1>10. done' = (1..k + 1) \X {"delivery"}
  BY <1>1, <1>2, <1>3 DEF HandledTo
<1>11. DOMAIN drafts' = DraftsAfter(k + 1)'
  <2>1. DraftsAfter(k + 1)' = DraftsAfter(k + 1)
    BY <1>2 DEF DraftsAfter, Corrected, AcceptedLines
  <2>2. DraftsAfter(k + 1) = DraftsAfter(k) \cup Corrected(k)
    <3>1. Corrected(k) \subseteq DraftIds
      BY <1>6, <1>7
    <3>2. 0..k + 1 - 1 = (0..k - 1) \cup {k}
      BY <1>3
    <3> QED BY <1>3, <3>1, <3>2 DEF DraftsAfter
  <2> QED BY <1>1, <1>2, <1>3, <2>1, <2>2 DEF HandledTo
<1>12. DOMAIN drafts[DraftOf(0)] = Lines /\ DraftOf(0) \in DOMAIN drafts
  <2>1. DraftOf(0) \in DraftsAfter(n)
    <3>1. 0 \in Versions /\ 0 \in 0..n - 1
      BY <1>3, DraftAssumption DEF Versions
    <3>2. DraftOf(0) \in DraftIds
      BY <3>1, DraftsDiffer
    <3> QED BY <3>1, <3>2 DEF DraftsAfter
  <2> QED BY <1>1, <1>3, <2>1 DEF HandledTo
<1>13. DOMAIN drafts'[DraftOf(0)] = Lines
  BY <1>2, <1>6, <1>12
<1>14. \A d \in DraftIds \ {reversal, after} : \A l : ChargeOf(d, l)' = ChargeOf(d, l)
  BY <1>2, <1>7 DEF ChargeOf
<1>15. \A l \in Lines : /\ ChargeOf(before, l) = accepted[k - 1][l]
                         /\ ChargeOf(before, l) \in Int /\ accepted[k][l] \in Nat
                         /\ accepted[k - 1][l] \in Nat
  BY <1>1, <1>4, <1>5, DraftAssumption DEF HandledTo, Quantities
<1>16. \A l \in Lines : ChargeOf(reversal, l)' = 0 - accepted[k - 1][l]
  <2> TAKE l \in Lines
  <2>1. drafts'[reversal] = Negated(drafts[before]) /\ reversal \in DOMAIN drafts'
    BY <1>2, <1>7 DEF Reversal
  <2>2. ChargeOf(reversal, l)' =
          IF l \in DOMAIN drafts'[reversal] THEN drafts'[reversal][l] ELSE 0
    BY <2>1 DEF ChargeOf
  <2>3. CASE l \in DOMAIN drafts[before]
    <3>1. drafts[before][l] = accepted[k - 1][l]
      BY <1>4, <1>15, <2>3 DEF ChargeOf
    <3>2. l \in DOMAIN drafts'[reversal] /\ drafts'[reversal][l] = -drafts[before][l]
      BY <2>1, <2>3 DEF Negated
    <3>3. \A u \in Int : -u = 0 - u
      OBVIOUS
    <3> QED BY <1>15, <2>2, <3>1, <3>2, <3>3
  <2>4. CASE l \notin DOMAIN drafts[before]
    <3>1. accepted[k - 1][l] = 0
      BY <1>4, <1>15, <2>4 DEF ChargeOf
    <3>2. l \notin DOMAIN drafts'[reversal]
      BY <2>1, <2>4 DEF Negated
    <3>3. 0 - accepted[k - 1][l] = 0
      BY <3>1
    <3> QED BY <2>2, <3>2, <3>3
  <2> QED BY <2>3, <2>4
<1>17. \A l \in Lines : ChargeOf(after, l)' = accepted[k][l]
  <2> TAKE l \in Lines
  <2>1. CASE AcceptedLines(k) = {}
    <3>1. accepted[k][l] = 0
      BY <1>15, <2>1 DEF AcceptedLines
    <3>2. after \notin DOMAIN drafts'
      BY <1>2, <1>6, <1>7, <1>8, <2>1
    <3> QED BY <3>1, <3>2 DEF ChargeOf
  <2>2. CASE AcceptedLines(k) # {}
    <3>1. drafts'[after] = Replacement(k) /\ after \in DOMAIN drafts'
      BY <1>2, <1>6, <1>7, <2>2
    <3>2. l \in AcceptedLines(k) \/ accepted[k][l] = 0
      BY <1>15 DEF AcceptedLines
    <3> QED BY <1>12, <3>1, <3>2 DEF ChargeOf, Replacement, AcceptedLines
  <2> QED BY <2>1, <2>2
<1>18. ASSUME NEW l \in Lines PROVE Charged(l)' = accepted[k][l]
  <2> DEFINE f == Charges(l)
             g == [f EXCEPT ![reversal] = 0 - accepted[k - 1][l]]
             h == [g EXCEPT ![after] = accepted[k][l]]
  <2>1. f \in [DraftIds -> Int] /\ f[reversal] = 0 /\ f[after] = 0
    <3>1. ChargeOf(reversal, l) = 0 /\ ChargeOf(after, l) = 0
      BY <1>8 DEF ChargeOf
    <3>2. \A d \in DraftIds : ChargeOf(d, l) \in Int
      BY <1>1 DEF HandledTo
    <3> QED BY <1>6, <3>1, <3>2 DEF Charges
  <2>2. Charges(l)' = h
    <3>1. \A d \in DraftIds : ChargeOf(d, l)' = h[d]
      <4> TAKE d \in DraftIds
      <4>1. CASE d \notin {reversal, after}
        BY <1>14, <4>1 DEF Charges
      <4>2. CASE d = reversal
        BY <1>6, <1>16, <4>2 DEF Charges
      <4>3. CASE d = after
        BY <1>6, <1>17, <4>3 DEF Charges
      <4> QED BY <4>1, <4>2, <4>3
    <3> QED BY <3>1 DEF Charges
  <2> HIDE DEF f
  <2>3. g \in [DraftIds -> Int] /\ g[reversal] = 0 - accepted[k - 1][l] /\ g[after] = 0
        /\ \A d \in DraftIds \ {reversal} : g[d] = f[d]
    BY <1>6, <1>15, <2>1
  <2> HIDE DEF g
  <2>4. h \in [DraftIds -> Int] /\ h[after] = accepted[k][l]
        /\ \A d \in DraftIds \ {after} : h[d] = g[d]
    BY <1>6, <1>15, <2>3
  <2> HIDE DEF h, reversal, after
  <2>5. Net(g, DraftIds) = Net(f, DraftIds) - f[reversal] + g[reversal]
    BY <1>6, <2>1, <2>3, DraftIdsFinite, NetChange
  <2>6. Net(h, DraftIds) = Net(g, DraftIds) - g[after] + h[after]
    BY <1>6, <2>3, <2>4, DraftIdsFinite, NetChange
  <2>7. Net(f, DraftIds) = accepted[k - 1][l]
    BY <1>1, <1>3 DEF HandledTo, Charged, f
  <2>8. Net(h, DraftIds) = accepted[k][l]
    BY <1>15, <2>1, <2>3, <2>4, <2>5, <2>6, <2>7
  <2> QED BY <2>2, <2>8 DEF Charged
<1>19. HandledTo(k + 1)'
  <2>1. \A d \in DraftIds, l \in Lines : ChargeOf(d, l)' \in Int
    <3> TAKE d \in DraftIds, l \in Lines
    <3>1. ChargeOf(d, l) \in Int /\ 0 - accepted[k - 1][l] \in Int /\ accepted[k][l] \in Int
      BY <1>1, <1>15 DEF HandledTo
    <3> QED BY <1>14, <1>16, <1>17, <3>1
  <2>2. ASSUME NEW j \in 0..k, DraftOf(j) \in DOMAIN drafts', NEW l \in Lines
        PROVE  ChargeOf(DraftOf(j), l)' = accepted'[j][l]
    <3>1. CASE j = k
      BY <1>2, <1>17, <3>1
    <3>2. CASE j # k
      <4>1. j \in Versions /\ j \in 0..n - 1
        BY <1>3, <3>2, DraftAssumption DEF Versions
      <4>2. DraftOf(j) \in DraftIds \ {reversal, after}
        BY <3>2, <4>1, DraftsDiffer
      <4>3. DraftOf(j) \in DOMAIN drafts
        BY <1>2, <1>7, <2>2, <4>2
      <4>4. ChargeOf(DraftOf(j), l) = accepted[j][l]
        BY <1>1, <4>1, <4>3 DEF HandledTo
      <4> QED BY <1>2, <1>14, <4>2, <4>4
    <3> QED BY <3>1, <3>2
  <2>3. \A l \in Lines : Charged(l)' = accepted'[k + 1 - 1][l]
    BY <1>2, <1>3, <1>18
  <2>4. announced' > 1 /\ DraftOf(announced' - 2) \in DOMAIN drafts'
    <3>1. announced' - 2 = k - 1 /\ announced' > 1
      BY <1>2, <1>3
    <3> QED BY <1>2, <1>4, <3>1
  <2>5. \A j \in 0..k + 1 - 1 : DraftOf(j) \in DOMAIN drafts' =>
          \A l \in Lines : ChargeOf(DraftOf(j), l)' = accepted'[j][l]
    BY <1>3, <2>2
  <2>6. k + 1 <= announced' /\ announced' <= k + 1 + 1 /\ k + 1 > 0 /\ k + 1 # 0
    BY <1>2, <1>3
  <2>7. \A l \in Lines : Charged(l)' = IF k + 1 = 0 THEN 0 ELSE accepted'[k + 1 - 1][l]
    BY <2>3, <2>6
  <2> HIDE DEF before, reversal, after
  <2>8. PICK m \in Nat : m = k + 1
    BY <1>3
  <2>9. /\ done' = (1..m) \X {"delivery"} /\ DOMAIN drafts' = DraftsAfter(m)'
        /\ m <= announced' /\ announced' <= m + 1 /\ m > 0 /\ m # 0
    BY <1>10, <1>11, <2>6, <2>8
  <2>10. \A j \in 0..m - 1 : DraftOf(j) \in DOMAIN drafts' =>
           \A l \in Lines : ChargeOf(DraftOf(j), l)' = accepted'[j][l]
    BY <1>3, <2>5, <2>8
  <2>11. \A l \in Lines : Charged(l)' = IF m = 0 THEN 0 ELSE accepted'[m - 1][l]
    BY <1>3, <2>7, <2>8
  <2>12. HandledTo(m)'
    BY <1>13, <2>1, <2>4, <2>9, <2>10, <2>11 DEF HandledTo
  <2> QED BY <2>8, <2>12
<1>20. k + 1 \in 0..MaxCorrections + 1
  BY <1>3, DraftAssumption
<1> QED BY <1>9, <1>19, <1>20 DEF DraftInv

LEMMA DraftInvStep ==
  ASSUME DraftInv, [DraftNext]_invoiceVars
  PROVE  DraftInv'
<1>1. DraftTypes /\ \A k \in Versions : accepted[k] \in Quantities
  BY DEF DraftInv, DraftTypes
<1>2. ASSUME NEW q \in Quantities, Confirm(q) PROVE DraftInv'
  <2>1. /\ announced = 0 /\ announced' = 1 /\ accepted' = [accepted EXCEPT ![0] = q]
        /\ UNCHANGED <<done, drafts, proposal>>
    BY <1>2 DEF Confirm, Invoicing!Emit
  <2>2. DraftTypes' /\ \A k \in Versions \ {announced} : accepted'[k] = accepted[k]
    BY <1>1, <2>1, DraftAssumption DEF DraftTypes, Versions
  <2>3. ProposalOwned'
    BY <2>1 DEF DraftInv, ProposalOwned
  <2> QED BY <2>1, <2>2, <2>3, NothingHandled
<1>3. ASSUME NEW q \in Quantities, RequestCorrection(q) PROVE DraftInv'
  <2>1. /\ proposal' = {q} /\ UNCHANGED <<announced, accepted, done, drafts>>
        /\ announced > 0 /\ DraftOf(announced - 1) \in DOMAIN drafts
    BY <1>3 DEF RequestCorrection, Correctable, HeadReceipt
  <2>2. DraftTypes' /\ ProposalOwned'
    BY <1>1, <2>1 DEF DraftTypes, ProposalOwned
  <2> QED BY <2>1, <2>2, NothingHandled
<1>4. ASSUME AuthorizeCorrection PROVE DraftInv'
  <2> DEFINE q == CHOOSE q \in proposal : TRUE
  <2>1. /\ proposal # {} /\ announced > 0 /\ DraftOf(announced - 1) \in DOMAIN drafts
        /\ announced < MaxCorrections + 1 /\ announced' = announced + 1 /\ proposal' = {}
        /\ accepted' = [accepted EXCEPT ![announced] = q] /\ UNCHANGED <<done, drafts>>
    BY <1>4 DEF AuthorizeCorrection, Authorizable, DraftInv, ProposalOwned, Invoicing!Emit
  <2>2. q \in Quantities
    BY <1>1, <2>1 DEF DraftTypes
  <2> HIDE DEF q
  <2>3. DraftTypes' /\ \A k \in Versions \ {announced} : accepted'[k] = accepted[k]
    BY <1>1, <2>1, <2>2, DraftAssumption DEF DraftTypes, Versions
  <2>4. ProposalOwned'
    BY <2>1 DEF ProposalOwned
  <2> QED BY <2>1, <2>3, <2>4, NothingHandled
<1>5. ASSUME NEW d \in DraftIds, Post(d) \/ Void(d) PROVE DraftInv'
  <2>1. UNCHANGED <<announced, done, accepted, proposal, drafts>>
    BY <1>5 DEF Post, Void
  <2>2. DraftTypes' /\ ProposalOwned'
    BY <1>1, <2>1 DEF DraftInv, DraftTypes, ProposalOwned
  <2> QED BY <2>1, <2>2, NothingHandled
<1>6. CASE UNCHANGED invoiceVars
  <2>1. UNCHANGED <<announced, done, accepted, proposal, drafts>>
    BY <1>6 DEF invoiceVars
  <2>2. DraftTypes' /\ ProposalOwned'
    BY <1>1, <2>1 DEF DraftInv, DraftTypes, ProposalOwned
  <2> QED BY <2>1, <2>2, NothingHandled
<1> QED BY <1>2, <1>3, <1>4, <1>5, <1>6, InvoiceStep, CorrectionStep DEF DraftNext, Work

THEOREM DraftInvariant == DraftSpec => []DraftInv
<1>1. DraftInit => DraftInv
  BY DraftInvInit
<1>2. DraftInv /\ [DraftNext]_invoiceVars => DraftInv'
  BY DraftInvStep
<1> QED BY <1>1, <1>2, PTL DEF DraftSpec

(* However often a receipt is corrected, and whatever was posted and voided in
   between, all drafts of the delivery together charge what the last handled
   event says was accepted. *)
THEOREM DraftsAlwaysNet == DraftSpec => []DraftsNetToAccepted
<1>1. DraftInv => DraftsNetToAccepted
  <2> SUFFICES ASSUME DraftInv PROVE DraftsNetToAccepted
    OBVIOUS
  <2>1. PICK n \in 0..MaxCorrections + 1 : HandledTo(n)
    BY DEF DraftInv
  <2>2. n \in Nat /\ Cardinality(done) = n
    <3>1. n \in Nat
      BY <2>1, DraftAssumption
    <3>2. IsFiniteSet(1..n) /\ Cardinality(1..n) = n
      BY <3>1, FS_Interval
    <3>3. IsFiniteSet({"delivery"}) /\ Cardinality({"delivery"}) = 1
      BY FS_Singleton
    <3>4. Cardinality((1..n) \X {"delivery"}) = Cardinality(1..n) * Cardinality({"delivery"})
      <4>1. PICK S, T : S = 1..n /\ T = {"delivery"}
        OBVIOUS
      <4>2. Cardinality(S \X T) = Cardinality(S) * Cardinality(T)
        BY <3>2, <3>3, <4>1, FS_Product
      <4> QED BY <4>1, <4>2
    <3>5. Cardinality((1..n) \X {"delivery"}) = n
      BY <3>1, <3>2, <3>3, <3>4
    <3> QED BY <2>1, <3>1, <3>5 DEF HandledTo
  <2>3. done = {} <=> n = 0
    <3>1. n > 0 => <<1, "delivery">> \in done
      BY <2>1, <2>2 DEF HandledTo
    <3>2. n = 0 => 1..n = {}
      OBVIOUS
    <3> QED BY <2>1, <2>2, <3>1, <3>2 DEF HandledTo
  <2> QED BY <2>1, <2>2, <2>3 DEF HandledTo, DraftsNetToAccepted
<1> QED BY <1>1, DraftInvariant, PTL

(* What is posted, and perhaps voided, is a draft that was made. *)
PostedExist ==
  /\ ledger \in [DraftIds -> {"draft", "posted", "voided"}]
  /\ \A d \in DraftIds : ledger[d] # "draft" => d \in DOMAIN drafts

LEMMA PostedAlwaysExist == DraftSpec => []PostedExist
<1>1. DraftInit => PostedExist
  BY DEF DraftInit, PostedExist
<1>2. DraftInv /\ PostedExist /\ [DraftNext]_invoiceVars => PostedExist'
  <2> SUFFICES ASSUME DraftInv, PostedExist, [DraftNext]_invoiceVars
               PROVE  PostedExist'
    OBVIOUS
  <2>1. CASE Invoice
    <3>1. PICK n \in 0..MaxCorrections + 1 : HandledTo(n)
      BY DEF DraftInv
    <3>2. n = 0
      BY <2>1, <3>1, DraftAssumption DEF Invoice, Invoicing!Handle, HandledTo
    <3>3. DOMAIN drafts = {}
      BY <3>1, <3>2 DEF HandledTo, DraftsAfter
    <3> QED BY <2>1, <3>3 DEF Invoice, PostedExist
  <2>2. CASE \E k \in Versions : InvoiceCorrection(k)
    BY <2>2 DEF InvoiceCorrection, PostedExist
  <2>3. CASE \E d \in DraftIds : Post(d) \/ Void(d)
    BY <2>3 DEF Post, Void, PostedExist
  <2>4. CASE UNCHANGED <<drafts, ledger>>
    BY <2>4 DEF PostedExist
  <2> QED BY <2>1, <2>2, <2>3, <2>4
       DEF DraftNext, invoiceVars, Work, Confirm, RequestCorrection, AuthorizeCorrection
<1> QED BY <1>1, <1>2, DraftInvariant, PTL DEF DraftSpec

(* A correction requested before the original draft was posted is refused when
   it is authorized, and none is requested afterwards: no event is left for the
   worker that could add a draft. *)
THEOREM PostedOriginalsStand == DraftSpec => PostedOriginalStands
<1> DEFINE Inv == DraftInv /\ PostedExist
<1>1. Inv /\ PostedFirst /\ [DraftNext]_invoiceVars => PostedFirst'
  <2> SUFFICES ASSUME Inv, PostedFirst, [DraftNext]_invoiceVars
               PROVE  PostedFirst'
    OBVIOUS
  <2>1. announced' = announced
    <3>1. CASE AuthorizeCorrection
      BY <3>1 DEF AuthorizeCorrection, Authorizable, PostedFirst
    <3>2. CASE \E q \in Quantities : Confirm(q)
      BY <3>2 DEF Confirm, PostedFirst
    <3>3. CASE ~AuthorizeCorrection /\ ~\E q \in Quantities : Confirm(q)
      BY <3>3 DEF DraftNext, invoiceVars, Work, RequestCorrection, Invoice, InvoiceCorrection,
                  Post, Void, Invoicing!Handle
    <3> QED BY <3>1, <3>2, <3>3
  <2>2. ledger'[DraftOf(0)] # "draft"
    <3>1. ledger' = ledger \/ \E d \in DraftIds : Post(d) \/ Void(d)
      BY DEF DraftNext, invoiceVars, Work, Confirm, RequestCorrection, AuthorizeCorrection,
             Invoice, InvoiceCorrection
    <3>2. ledger \in [DraftIds -> {"draft", "posted", "voided"}] /\ DraftOf(0) \in DraftIds
      BY DEF PostedExist, DraftOf, DraftIds
    <3> QED BY <3>1, <3>2 DEF Post, Void, PostedFirst
  <2> QED BY <2>1, <2>2 DEF PostedFirst
<1>2. Inv /\ PostedFirst => DOMAIN drafts = {DraftOf(0)}
  <2> SUFFICES ASSUME Inv, PostedFirst
               PROVE  DOMAIN drafts = {DraftOf(0)}
    OBVIOUS
  <2>1. PICK n \in 0..MaxCorrections + 1 : HandledTo(n)
    BY DEF DraftInv
  <2>2. DraftOf(0) \in DraftIds
    BY DEF DraftOf, DraftIds
  <2>3. DraftOf(0) \in DraftsAfter(n)
    BY <2>1, <2>2 DEF PostedExist, PostedFirst, HandledTo
  <2>4. n = 0 \/ n = 1
    BY <2>1, DraftAssumption DEF HandledTo, PostedFirst
  <2>5. n # 0
    BY <2>3 DEF DraftsAfter
  <2>6. DraftsAfter(1) = {DraftOf(0)}
    BY <2>2 DEF DraftsAfter
  <2> QED BY <2>1, <2>4, <2>5, <2>6 DEF HandledTo
<1>3. DraftSpec => [](PostedFirst => []PostedFirst)
  BY <1>1, DraftInvariant, PostedAlwaysExist, PTL DEF DraftSpec
<1> QED BY <1>2, <1>3, DraftInvariant, PostedAlwaysExist, PTL DEF PostedOriginalStands

-----------------------------------------------------------------------------
(* Nothing ever refuses a correction *)

(* What create_corrected_draft_invoices_for_event needs of correction k: that
   everything before it is handled, the drafts it reverses and scales, and that
   every line it writes passes the CHECK of its table. *)
Handleable(k) ==
  /\ \A j \in 1..k : <<j, "delivery">> \in done
  /\ DraftOf(0) \in DOMAIN drafts /\ DraftOf(k - 1) \in DOMAIN drafts
  /\ AllPositive(drafts[DraftOf(0)]) /\ AllPositive(Replacement(k))
  /\ Corrected(k) \cap DOMAIN drafts = {}

(* A correction whose event is announced and not handled can be handled now. *)
CorrectionsHandleable ==
  \A k \in 1..MaxCorrections :
    announced > k /\ <<k + 1, "delivery">> \notin done => Handleable(k)

(* The root draft is only ever made of a confirmation that accepts something of
   every line, and the confirmation does not change. *)
RootPositive == DraftOf(0) \in DOMAIN drafts => AllPositive(accepted[0])

LEMMA RootPositiveStep ==
  ASSUME DraftInv, RootPositive, [DraftNext]_invoiceVars
  PROVE  RootPositive'
<1>1. PICK n \in 0..MaxCorrections + 1 : HandledTo(n)
  BY DEF DraftInv
<1>2. accepted \in [Versions -> Quantities] /\ 0 \in Versions /\ announced \in Nat
  BY DraftAssumption DEF DraftInv, DraftTypes, Versions
<1>3. ASSUME UNCHANGED drafts, accepted'[0] = accepted[0] PROVE RootPositive'
  BY <1>3 DEF RootPositive, AllPositive, DraftOf
<1>4. ASSUME NEW q \in Quantities, Confirm(q) PROVE RootPositive'
  <2>1. announced = 0 /\ UNCHANGED drafts
    BY <1>4 DEF Confirm
  <2>2. n = 0
    BY <1>1, <2>1 DEF HandledTo
  <2>3. DOMAIN drafts = {}
    BY <1>1, <2>2 DEF HandledTo, DraftsAfter
  <2> QED BY <2>1, <2>3 DEF RootPositive, DraftOf
<1>5. ASSUME AuthorizeCorrection PROVE RootPositive'
  <2> DEFINE q == CHOOSE q \in proposal : TRUE
  <2>1. proposal # {} /\ accepted' = [accepted EXCEPT ![announced] = q] /\ UNCHANGED drafts
    BY <1>5 DEF AuthorizeCorrection, Authorizable
  <2> HIDE DEF q
  <2>3. announced > 0
    BY <2>1 DEF DraftInv, ProposalOwned
  <2>2. accepted'[0] = accepted[0]
    BY <1>2, <2>1, <2>3
  <2> QED BY <1>3, <2>1, <2>2
<1>6. ASSUME Invoice PROVE RootPositive'
  BY <1>6 DEF Invoice, RootPositive, AllPositive
<1>7. ASSUME NEW k \in Versions, InvoiceCorrection(k) PROVE RootPositive'
  <2>1. k > 0 /\ DOMAIN drafts' = DOMAIN drafts \cup Corrected(k) /\ UNCHANGED accepted
    BY <1>7 DEF InvoiceCorrection
  <2>2. DraftOf(0) \notin Corrected(k)
    <3>1. 0 \in Versions /\ k # 0
      BY <1>2, <2>1, DraftAssumption DEF Versions
    <3>2. DraftOf(0) # DraftOf(k)
      BY <3>1, DraftsDiffer
    <3>3. DraftOf(0) # <<"reversal", k>>
      BY DraftsDiffer
    <3> QED BY <3>2, <3>3 DEF Corrected
  <2>3. DraftOf(0) \in DOMAIN drafts' => DraftOf(0) \in DOMAIN drafts
    BY <2>1, <2>2
  <2> QED BY <2>1, <2>3 DEF RootPositive, AllPositive, DraftOf
<1>8. CASE \E q \in Quantities : RequestCorrection(q)
  BY <1>3, <1>8 DEF RequestCorrection
<1>9. CASE \E d \in DraftIds : Post(d) \/ Void(d)
  BY <1>3, <1>9 DEF Post, Void
<1>10. CASE UNCHANGED invoiceVars
  BY <1>3, <1>10 DEF invoiceVars
<1> QED BY <1>4, <1>5, <1>6, <1>7, <1>8, <1>9, <1>10 DEF DraftNext, Work

(* Only the last event can be a correction that is not handled, and it finds
   what it needs. *)
LEMMA LastIsHandleable ==
  ASSUME DraftInv, RootPositive
  PROVE  CorrectionsHandleable
<1> SUFFICES ASSUME NEW k \in 1..MaxCorrections,
                    announced > k, <<k + 1, "delivery">> \notin done
             PROVE  Handleable(k)
  BY DEF CorrectionsHandleable
<1>1. PICK n \in 0..MaxCorrections + 1 : HandledTo(n)
  BY DEF DraftInv
<1>2. n = k /\ announced = k + 1 /\ done = (1..k) \X {"delivery"}
  BY <1>1, DraftAssumption DEF HandledTo, DraftInv, DraftTypes
<1>3. 0 \in Versions /\ k \in Versions /\ k - 1 \in Versions /\ k > 0
  BY DraftAssumption DEF Versions
<1>4. DraftOf(k - 1) \in DOMAIN drafts
  <2>1. announced > 1 /\ announced - 2 = k - 1
    BY <1>2
  <2> QED BY <1>1, <2>1 DEF HandledTo
<1>5. DraftOf(0) \in DOMAIN drafts /\ DOMAIN drafts[DraftOf(0)] = Lines
  <2>1. DraftOf(0) \in DraftIds
    BY <1>3, DraftsDiffer
  <2>2. 0 \in 0..n - 1
    BY <1>2
  <2>3. DraftOf(0) \in DraftsAfter(n)
    BY <2>1, <2>2 DEF DraftsAfter
  <2> QED BY <1>1, <1>2, <2>3 DEF HandledTo
<1>6. AllPositive(drafts[DraftOf(0)])
  <2>1. \A l \in Lines : ChargeOf(DraftOf(0), l) = accepted[0][l]
    <3>1. 0 \in 0..n - 1
      BY <1>2
    <3> QED BY <1>1, <1>5, <3>1 DEF HandledTo
  <2>2. \A l \in Lines : drafts[DraftOf(0)][l] = accepted[0][l]
    BY <1>5, <2>1 DEF ChargeOf
  <2>3. DOMAIN accepted[0] = Lines
    BY <1>3 DEF DraftInv, DraftTypes, Quantities
  <2> QED BY <1>5, <2>2, <2>3 DEF RootPositive, AllPositive
<1>7. AllPositive(Replacement(k))
  BY DEF AllPositive, Replacement, AcceptedLines
<1>8. Corrected(k) \cap DOMAIN drafts = {}
  <2>1. DraftOf(k) \notin DraftsAfter(n)
    BY <1>2, <1>3, DraftsAfterMeans
  <2>2. <<"reversal", k>> \notin DraftsAfter(n)
    <3> SUFFICES ASSUME NEW j \in 0..n - 1,
                        IF j = 0 THEN <<"reversal", k>> = DraftOf(0)
                        ELSE <<"reversal", k>> \in Corrected(j)
                 PROVE  FALSE
      BY DEF DraftsAfter
    <3>1. j \in Versions /\ j < k
      BY <1>2, DraftAssumption DEF Versions
    <3>2. <<"reversal", k>> # DraftOf(j) /\ <<"reversal", k>> # DraftOf(0)
      BY <1>3, DraftsDiffer
    <3> QED BY <3>1, <3>2 DEF Corrected
  <2> QED BY <1>1, <2>1, <2>2 DEF HandledTo, Corrected
<1> QED BY <1>2, <1>4, <1>5, <1>6, <1>7, <1>8 DEF Handleable

(* In every state an authorized correction that is not invoiced yet finds the
   draft it reverses and the root it scales, and no constraint refuses a line
   it writes: that all corrections are invoiced in the end asks nothing more
   than that the worker goes on. *)
THEOREM CorrectionsAreHandleable == DraftSpec => []CorrectionsHandleable
<1>1. DraftInit => RootPositive
  BY DEF DraftInit, RootPositive
<1>2. DraftInv /\ RootPositive /\ [DraftNext]_invoiceVars => RootPositive'
  BY RootPositiveStep
<1>3. DraftInv /\ RootPositive => CorrectionsHandleable
  BY LastIsHandleable
<1> QED BY <1>1, <1>2, <1>3, DraftInvariant, PTL DEF DraftSpec
===============================================================================
