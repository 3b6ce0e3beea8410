------------------------- MODULE ReceivablesProofs -------------------------
(***************************************************************************)
(* What holds of Receivables for every number of concurrent requests,      *)
(* invoices, receipts and credit notes, and for every amount.              *)
(***************************************************************************)
EXTENDS Receivables, UnitsProofs, TLAPS

-----------------------------------------------------------------------------
(* The inductive invariant *)

Sums == [open : Int, uninvoiced : Int]

(* The rows are well formed. *)
AccountRows ==
  /\ commitment \in [Invoices -> CommitmentRow]
  /\ ledger \in [Invoices -> LedgerRow]
  /\ applied \in [Receipts -> [Invoices -> Nat]]
  /\ balance \in [Receipts -> BalanceRow]
  /\ note \in [Notes -> NoteRow]
  /\ \A n \in Notes : note[n].status # "none" => note[n].invoice \in Invoices
  /\ exposure \in Sums /\ drift \in Sums

(* What a request has tested is still so when it writes: the lock it holds
   keeps it so. *)
Sound(req) ==
  /\ req.command \in {"none", "post", "void", "allocate", "request_note", "post_note", "rebuild"}
  /\ req.command = "post" =>
       /\ req.invoice \in Invoices /\ InvoiceStatus(req.invoice) = "draft"
       /\ req.uninvoiced \in Int
  /\ req.command = "void" =>
       req.invoice \in Invoices /\ InvoiceStatus(req.invoice) = "posted"
  /\ req.command = "allocate" =>
       /\ req.receipt \in Receipts /\ req.invoice \in Invoices /\ req.amount \in Nat
       /\ balance[req.receipt].state = "cleared"
       /\ balance[req.receipt].allocated = req.allocated
       /\ req.amount <= Available(balance[req.receipt])
  /\ req.command = "request_note" =>
       /\ req.note \in Notes /\ req.invoice \in Invoices /\ req.amount \in Nat
       /\ note[req.note].status = "none"
  /\ req.command = "post_note" =>
       req.note \in Notes /\ note[req.note].status = "pending_authorization"
  /\ req.command = "rebuild" => req.open \in Int /\ req.uninvoiced \in Int

(* Requests in progress hold different locks, and request different notes. *)
Exclusive ==
  /\ task = [p \in Tasks |-> task[p]]
  /\ \A p, q \in Tasks :
       p # q /\ task[p] # NoTask /\ task[q] # NoTask => KeyOf(task[p]) # KeyOf(task[q])
  /\ \A p, q \in Tasks :
       p # q /\ task[p].command = "request_note" /\ task[q].command = "request_note"
         => task[p].note # task[q].note

Owed(i) == IF InvoiceStatus(i) = "posted" THEN GrandTotal(i) ELSE 0
PaidOf(i) == [r \in Receipts |-> applied[r][i]]
AmountOf == [n \in Notes |-> note[n].amount]
PostedNotes(i) == {n \in Notes : note[n].status = "posted" /\ note[n].invoice = i}
Paid(i) == Total(PaidOf(i), Receipts)
Credited(i) == Total(AmountOf, PostedNotes(i))

LedgerTold(i)  == ledger[i].open = Owed(i) - Paid(i) - Credited(i)
BalanceTold(r) == balance[r].allocated = RebuiltAllocated(r) /\ Available(balance[r]) >= 0

AccountsInv ==
  /\ AccountRows
  /\ Exclusive
  /\ \A p \in Tasks : Sound(task[p])
  /\ \A i \in Invoices : LedgerTold(i)
  /\ \A r \in Receipts : BalanceTold(r)
  /\ ExposureReconciles

-----------------------------------------------------------------------------
(* Types of what is computed *)

LEMMA AmountTypes ==
  ASSUME AccountRows
  PROVE  /\ \A i \in Invoices : /\ GrandTotal(i) \in Nat /\ Owed(i) \in Nat
                                /\ InvoiceStatus(i) \in {"draft", "posted", "voided"}
                                /\ Paid(i) \in Nat /\ Credited(i) \in Nat
                                /\ ledger[i].open \in Int /\ ledger[i].reduced \in Int
                                /\ commitment[i].uninvoiced \in Int
         /\ \A r \in Receipts : /\ RebuiltAllocated(r) \in Nat
                                /\ Available(balance[r]) \in Int
                                /\ balance[r].allocated \in Nat /\ balance[r].designated \in Nat
         /\ \A r \in Receipts, i \in Invoices : applied[r][i] \in Nat
         /\ \A n \in Notes : AmountOf[n] = note[n].amount /\ note[n].amount \in Nat
<1>1. \A i \in Invoices : GrandTotal(i) \in Nat
  BY AccountsAssumption DEF GrandTotal, AccountRows, CommitmentRow
<1>2. \A i \in Invoices : Owed(i) \in Nat /\ InvoiceStatus(i) \in {"draft", "posted", "voided"}
  BY <1>1 DEF Owed, InvoiceStatus
<1>3. \A r \in Receipts, i \in Invoices : applied[r][i] \in Nat
  BY DEF AccountRows
<1>4. \A n \in Notes : AmountOf[n] = note[n].amount /\ note[n].amount \in Nat
  BY DEF AccountRows, NoteRow, AmountOf
<1>5. ASSUME NEW i \in Invoices PROVE Paid(i) \in Nat
  <2>1. \A r \in Receipts : PaidOf(i)[r] \in Nat
    BY <1>3 DEF PaidOf
  <2> QED BY <2>1, TotalType, AccountsAssumption DEF Paid
<1>6. ASSUME NEW i \in Invoices PROVE Credited(i) \in Nat
  <2>1. PostedNotes(i) \subseteq Notes
    BY DEF PostedNotes
  <2>2. IsFiniteSet(PostedNotes(i)) /\ \A n \in PostedNotes(i) : AmountOf[n] \in Nat
    BY <1>4, <2>1, FS_Subset, AccountsAssumption
  <2> QED BY <2>2, TotalType DEF Credited
<1>7. \A i \in Invoices : /\ ledger[i].open \in Int /\ ledger[i].reduced \in Int
                          /\ commitment[i].uninvoiced \in Int
  BY DEF AccountRows, LedgerRow, CommitmentRow
<1>8. ASSUME NEW r \in Receipts
      PROVE  /\ RebuiltAllocated(r) \in Nat
             /\ Available(balance[r]) \in Int
             /\ balance[r].allocated \in Nat /\ balance[r].designated \in Nat
  <2>1. RebuiltAllocated(r) \in Nat
    BY <1>3, TotalType, AccountsAssumption DEF RebuiltAllocated
  <2>2. balance[r].allocated \in Nat /\ balance[r].designated \in Nat
    BY DEF AccountRows, BalanceRow
  <2> QED BY <2>1, <2>2, AccountsAssumption DEF Available
<1> QED BY <1>1, <1>2, <1>3, <1>4, <1>5, <1>6, <1>7, <1>8

(* The same of the next state. *)
LEMMA AmountTypesNext ==
  AccountRows' => /\ \A i \in Invoices : /\ ledger'[i].open \in Int /\ commitment'[i].uninvoiced \in Int
           /\ \A r \in Receipts, i \in Invoices : applied'[r][i] \in Nat
           /\ \A n \in Notes : note'[n].amount \in Nat
BY DEF AccountRows, LedgerRow, CommitmentRow, NoteRow

-----------------------------------------------------------------------------
(* Requests *)

(* Requests of the same kind for the same document are one request. *)
LEMMA SameKey ==
  ASSUME Exclusive, NEW p \in Tasks, NEW q \in Tasks,
         task[p].command = task[q].command,
         \/ task[p].command \in {"post", "void"} /\ task[p].invoice = task[q].invoice
         \/ task[p].command = "allocate" /\ task[p].receipt = task[q].receipt
         \/ task[p].command \in {"request_note", "post_note"} /\ task[p].note = task[q].note
  PROVE  p = q
<1>1. task[p] # NoTask /\ task[q] # NoTask
  BY DEF NoTask
<1>2. CASE task[p].command = "request_note"
  BY <1>2 DEF Exclusive
<1>3. CASE task[p].command # "request_note"
  <2>1. KeyOf(task[p]) = KeyOf(task[q])
    BY <1>3 DEF KeyOf
  <2> QED BY <1>1, <2>1 DEF Exclusive
<1> QED BY <1>2, <1>3

(* A request that ends frees its lock. *)
LEMMA FinishedExclusive ==
  ASSUME Exclusive, NEW p \in Tasks, Finished(p)
  PROVE  /\ Exclusive'
         /\ task'[p] = NoTask
         /\ \A q \in Tasks \ {p} : task'[q] = task[q]
BY DEF Exclusive, Finished, NoTask

(* A request that begins holds a lock nobody else holds. *)
LEMMA BegunExclusive ==
  ASSUME Exclusive, NEW p \in Tasks, NEW req, Start(p, req),
         req.command = "request_note" =>
           \A q \in InProgress({"request_note"}) : task[q].note # req.note
  PROVE  /\ Exclusive'
         /\ task'[p] = req
         /\ \A q \in Tasks \ {p} : task'[q] = task[q]
<1>1. /\ task' = [task EXCEPT ![p] = req]
      /\ \A q \in Tasks : task[q] # NoTask => KeyOf(task[q]) # KeyOf(req)
  BY DEF Start
<1>2. task'[p] = req /\ \A q \in Tasks \ {p} : task'[q] = task[q]
  BY <1>1 DEF Exclusive
<1>3. task' = [q \in Tasks |-> task'[q]]
  BY <1>1 DEF Exclusive
<1>4. \A q1, q2 \in Tasks :
        q1 # q2 /\ task'[q1] # NoTask /\ task'[q2] # NoTask
          => KeyOf(task'[q1]) # KeyOf(task'[q2])
  BY <1>1, <1>2 DEF Exclusive
<1>5. \A q1, q2 \in Tasks :
        q1 # q2 /\ task'[q1].command = "request_note" /\ task'[q2].command = "request_note"
          => task'[q1].note # task'[q2].note
  BY <1>2 DEF Exclusive, InProgress
<1> QED BY <1>2, <1>3, <1>4, <1>5 DEF Exclusive

(* A step that writes documents no other request has tested. *)
LEMMA OthersSound ==
  ASSUME AccountsInv, NEW p \in Tasks, Finished(p),
         \A q \in Tasks \ {p} :
           /\ task[q].command \in {"post", "void"} =>
                ledger'[task[q].invoice].types = ledger[task[q].invoice].types
           /\ task[q].command = "allocate" =>
                balance'[task[q].receipt] = balance[task[q].receipt]
           /\ task[q].command \in {"request_note", "post_note"} =>
                note'[task[q].note].status = note[task[q].note].status
  PROVE  Exclusive' /\ \A q \in Tasks : Sound(task[q])'
<1>1. /\ Exclusive' /\ task'[p] = NoTask
      /\ \A q \in Tasks \ {p} : task'[q] = task[q]
  BY FinishedExclusive DEF AccountsInv
<1>2. ASSUME NEW q \in Tasks PROVE Sound(task[q])'
  <2>1. CASE q = p
    BY <1>1, <2>1 DEF Sound, NoTask
  <2>2. CASE q # p
    <3>1. Sound(task[q])
      BY DEF AccountsInv
    <3>2. task'[q] = task[q]
      BY <1>1, <2>2
    <3> QED BY <2>2, <3>1, <3>2 DEF Sound, InvoiceStatus, Available
  <2> QED BY <2>1, <2>2
<1> QED BY <1>1, <1>2

(* A step of no request that writes documents no request has tested. *)
LEMMA RequestsSound ==
  ASSUME AccountsInv, UNCHANGED task,
         \A q \in Tasks :
           /\ task[q].command \in {"post", "void"} =>
                ledger'[task[q].invoice].types = ledger[task[q].invoice].types
           /\ task[q].command = "allocate" =>
                balance'[task[q].receipt] = balance[task[q].receipt]
           /\ task[q].command \in {"request_note", "post_note"} =>
                note'[task[q].note].status = note[task[q].note].status
  PROVE  Exclusive' /\ \A q \in Tasks : Sound(task[q])'
<1>1. Exclusive'
  BY DEF AccountsInv, Exclusive
<1>2. ASSUME NEW q \in Tasks PROVE Sound(task[q])'
  <2>1. Sound(task[q])
    BY DEF AccountsInv
  <2> QED BY <2>1 DEF Sound, InvoiceStatus, Available
<1> QED BY <1>1, <1>2

-----------------------------------------------------------------------------
(* Documents *)

(* The exposure moves by what the ledger and the entries of one order move. *)
LEMMA Charged ==
  ASSUME AccountRows, AccountRows', ExposureReconciles, UNCHANGED drift,
         NEW i \in Invoices, NEW open \in Int, NEW uninvoiced \in Int,
         Charge(open, uninvoiced),
         ledger'[i].open = ledger[i].open + open,
         commitment'[i].uninvoiced = commitment[i].uninvoiced + uninvoiced,
         \A j \in Invoices \ {i} : /\ ledger'[j].open = ledger[j].open
                                  /\ commitment'[j].uninvoiced = commitment[j].uninvoiced
  PROVE  ExposureReconciles'
<1> DEFINE f == [j \in Invoices |-> ledger[j].open]
           g == [j \in Invoices |-> ledger'[j].open]
           k == [j \in Invoices |-> commitment[j].uninvoiced]
           m == [j \in Invoices |-> commitment'[j].uninvoiced]
<1>1. /\ \A j \in Invoices : f[j] \in Int /\ g[j] \in Int /\ k[j] \in Int /\ m[j] \in Int
      /\ g[i] = f[i] + open /\ m[i] = k[i] + uninvoiced
      /\ \A j \in Invoices \ {i} : g[j] = f[j] /\ m[j] = k[j]
  BY AmountTypes, AmountTypesNext
<1>2. /\ exposure.open + drift.open = Net(f, Invoices)
      /\ exposure.uninvoiced + drift.uninvoiced = Net(k, Invoices)
  BY DEF ExposureReconciles, LedgerOpen, EntriesUninvoiced
<1>3. /\ exposure'.open = exposure.open + open
      /\ exposure'.uninvoiced = exposure.uninvoiced + uninvoiced
      /\ drift' = drift
  BY DEF Charge
<1>4. /\ exposure.open \in Int /\ exposure.uninvoiced \in Int
      /\ drift.open \in Int /\ drift.uninvoiced \in Int
  BY DEF AccountRows, Sums
<1> HIDE DEF f, g, k, m
<1>5. /\ Net(g, Invoices) = Net(f, Invoices) - f[i] + g[i] /\ Net(f, Invoices) \in Int
  BY <1>1, NetChange, NetType, AccountsAssumption
<1>6. /\ Net(m, Invoices) = Net(k, Invoices) - k[i] + m[i] /\ Net(k, Invoices) \in Int
  BY <1>1, NetChange, NetType, AccountsAssumption
<1>7. exposure'.open + drift'.open = Net(g, Invoices)
  BY <1>1, <1>2, <1>3, <1>4, <1>5
<1>8. exposure'.uninvoiced + drift'.uninvoiced = Net(m, Invoices)
  BY <1>1, <1>2, <1>3, <1>4, <1>6
<1> QED BY <1>7, <1>8 DEF ExposureReconciles, LedgerOpen, EntriesUninvoiced, g, m

(* What is owed of an invoice depends on its entries and its order's value. *)
LEMMA OwedKept ==
  ASSUME NEW i \in Invoices, ledger'[i].types = ledger[i].types,
         commitment'[i].cancelled = commitment[i].cancelled
  PROVE  Owed(i)' = Owed(i)
BY DEF Owed, InvoiceStatus, GrandTotal

(* What is paid of an invoice depends on the allocations to it. *)
LEMMA PaidKept ==
  ASSUME NEW i \in Invoices, \A r \in Receipts : applied'[r][i] = applied[r][i]
  PROVE  Paid(i)' = Paid(i)
<1>1. PaidOf(i)' = PaidOf(i)
  BY DEF PaidOf
<1> QED BY <1>1 DEF Paid

(* What is credited to an invoice depends on the notes. *)
LEMMA CreditedKept ==
  ASSUME NEW i \in Invoices, UNCHANGED note
  PROVE  Credited(i)' = Credited(i)
BY DEF Credited, PostedNotes, AmountOf

(* A step that leaves the documents of an invoice alone. *)
LEMMA LedgerKept ==
  ASSUME AccountsInv, NEW i \in Invoices,
         ledger'[i].open = ledger[i].open,
         Owed(i)' = Owed(i), Paid(i)' = Paid(i), Credited(i)' = Credited(i)
  PROVE  LedgerTold(i)'
BY DEF AccountsInv, LedgerTold

(* A step that leaves a receipt alone. *)
LEMMA BalanceKept ==
  ASSUME AccountsInv, NEW r \in Receipts, balance'[r] = balance[r], applied'[r] = applied[r]
  PROVE  BalanceTold(r)'
<1>1. BalanceTold(r)
  BY DEF AccountsInv
<1> QED BY <1>1 DEF BalanceTold, RebuiltAllocated, Available

(* A step that writes no document. *)
LEMMA DocumentsKept ==
  ASSUME AccountsInv, UNCHANGED <<commitment, ledger, applied, balance, note, exposure, drift>>
  PROVE  /\ AccountRows' /\ ExposureReconciles'
         /\ \A i \in Invoices : LedgerTold(i)'
         /\ \A r \in Receipts : BalanceTold(r)'
<1>1. AccountRows'
  BY DEF AccountsInv, AccountRows
<1>2. ExposureReconciles'
  BY DEF AccountsInv, ExposureReconciles, LedgerOpen, EntriesUninvoiced
<1>3. \A i \in Invoices : LedgerTold(i)'
  BY OwedKept, PaidKept, CreditedKept, LedgerKept
<1>4. \A r \in Receipts : BalanceTold(r)'
  BY BalanceKept
<1> QED BY <1>1, <1>2, <1>3, <1>4

-----------------------------------------------------------------------------
(* Requests begin and fail *)

(* A request that begins with tests that hold. *)
LEMMA BegunStep ==
  ASSUME AccountsInv, NEW p \in Tasks, NEW req, Start(p, req), Sound(req),
         req.command = "request_note" =>
           \A q \in InProgress({"request_note"}) : task[q].note # req.note
  PROVE  AccountsInv'
<1>1. UNCHANGED <<commitment, ledger, applied, balance, note, exposure, drift>>
  BY DEF Start
<1>2. /\ Exclusive' /\ task'[p] = req
      /\ \A q \in Tasks \ {p} : task'[q] = task[q]
  BY BegunExclusive DEF AccountsInv
<1>3. ASSUME NEW q \in Tasks PROVE Sound(task[q])'
  <2>1. Sound(task[q])
    BY DEF AccountsInv
  <2>2. CASE q = p
    BY <1>1, <1>2, <2>2 DEF Sound, InvoiceStatus, Available
  <2>3. CASE q # p
    <3>1. task'[q] = task[q]
      BY <1>2, <2>3
    <3> QED BY <1>1, <2>1, <3>1 DEF Sound, InvoiceStatus, Available
  <2> QED BY <2>2, <2>3
<1>4. /\ AccountRows' /\ ExposureReconciles'
      /\ \A i \in Invoices : LedgerTold(i)'
      /\ \A r \in Receipts : BalanceTold(r)'
  BY <1>1, DocumentsKept
<1> QED BY <1>2, <1>3, <1>4 DEF AccountsInv

(* Every command tests before it begins. *)
LEMMA BeginStep ==
  ASSUME AccountsInv, NEW p \in Tasks,
         \/ \E i \in Invoices : BeginPost(p, i) \/ BeginVoid(p, i)
         \/ \E i \in Invoices, r \in Receipts, a \in Amounts : BeginAllocate(p, r, i, a)
         \/ \E i \in Invoices, n \in Notes, a \in Amounts : BeginRequestNote(p, n, i, a)
         \/ \E n \in Notes : BeginPostNote(p, n)
         \/ BeginRebuild(p)
  PROVE  AccountsInv'
<1>0. /\ AccountRows /\ exposure.uninvoiced \in Int
      /\ \A a \in Amounts : a \in Nat
      /\ LedgerOpen \in Int /\ EntriesUninvoiced \in Int
  <2>1. AccountRows /\ exposure.uninvoiced \in Int
    BY DEF AccountsInv, AccountRows, Sums
  <2>2. \A a \in Amounts : a \in Nat
    BY AccountsAssumption DEF Amounts
  <2> DEFINE f == [j \in Invoices |-> ledger[j].open]
             k == [j \in Invoices |-> commitment[j].uninvoiced]
  <2>3. \A j \in Invoices : f[j] \in Int /\ k[j] \in Int
    BY <2>1, AmountTypes
  <2>4. Net(f, Invoices) \in Int /\ Net(k, Invoices) \in Int
    <3> HIDE DEF f, k
    <3> QED BY <2>3, NetType, AccountsAssumption
  <2> QED BY <2>1, <2>2, <2>4 DEF LedgerOpen, EntriesUninvoiced
<1>1. ASSUME NEW i \in Invoices, BeginPost(p, i) PROVE AccountsInv'
  <2> DEFINE req == [command |-> "post", invoice |-> i, uninvoiced |-> exposure.uninvoiced]
  <2>1. Start(p, req) /\ Sound(req) /\ req.command # "request_note"
    BY <1>0, <1>1 DEF BeginPost, Sound
  <2> HIDE DEF req
  <2> QED BY <2>1, BegunStep
<1>2. ASSUME NEW i \in Invoices, BeginVoid(p, i) PROVE AccountsInv'
  <2> DEFINE req == [command |-> "void", invoice |-> i]
  <2>1. Start(p, req) /\ Sound(req) /\ req.command # "request_note"
    BY <1>2 DEF BeginVoid, Sound
  <2> HIDE DEF req
  <2> QED BY <2>1, BegunStep
<1>3. ASSUME NEW i \in Invoices, NEW r \in Receipts, NEW a \in Amounts, BeginAllocate(p, r, i, a)
      PROVE  AccountsInv'
  <2> DEFINE req == [command |-> "allocate", receipt |-> r, invoice |-> i, amount |-> a,
                     allocated |-> balance[r].allocated]
  <2>1. Start(p, req) /\ Sound(req) /\ req.command # "request_note"
    BY <1>0, <1>3 DEF BeginAllocate, Sound
  <2> HIDE DEF req
  <2> QED BY <2>1, BegunStep
<1>4. ASSUME NEW i \in Invoices, NEW n \in Notes, NEW a \in Amounts, BeginRequestNote(p, n, i, a)
      PROVE  AccountsInv'
  <2> DEFINE req == [command |-> "request_note", note |-> n, invoice |-> i, amount |-> a]
  <2>1. Start(p, req) /\ Sound(req) /\ req.note = n
    BY <1>0, <1>4 DEF BeginRequestNote, Sound
  <2>2. \A q \in InProgress({"request_note"}) : task[q].note # req.note
    BY <1>4 DEF BeginRequestNote
  <2> HIDE DEF req
  <2> QED BY <2>1, <2>2, BegunStep
<1>5. ASSUME NEW n \in Notes, BeginPostNote(p, n) PROVE AccountsInv'
  <2> DEFINE req == [command |-> "post_note", note |-> n]
  <2>1. Start(p, req) /\ Sound(req) /\ req.command # "request_note"
    BY <1>5 DEF BeginPostNote, Sound
  <2> HIDE DEF req
  <2> QED BY <2>1, BegunStep
<1>6. ASSUME BeginRebuild(p) PROVE AccountsInv'
  <2> DEFINE req == [command |-> "rebuild", open |-> LedgerOpen, uninvoiced |-> EntriesUninvoiced]
  <2>1. Start(p, req) /\ Sound(req) /\ req.command # "request_note"
    BY <1>0, <1>6 DEF BeginRebuild, Sound
  <2> HIDE DEF req
  <2> QED BY <2>1, BegunStep
<1> QED BY <1>1, <1>2, <1>3, <1>4, <1>5, <1>6

(* A request that fails writes nothing. *)
LEMMA AbortStep ==
  ASSUME AccountsInv, NEW p \in Tasks, Fail(p)
  PROVE  AccountsInv'
<1>1. UNCHANGED <<commitment, ledger, applied, balance, note, exposure, drift>> /\ Finished(p)
  BY DEF Fail
<1>2. Exclusive' /\ \A q \in Tasks : Sound(task[q])'
  BY <1>1, OthersSound
<1> QED BY <1>1, <1>2, DocumentsKept DEF AccountsInv

-----------------------------------------------------------------------------
(* Orders *)

(* Approvals, cancellations and invalidations move the approved value only. *)
LEMMA OrderStep ==
  ASSUME AccountsInv, NEW i \in Invoices, ApproveOrder(i) \/ Cancel(i) \/ Invalidate(i)
  PROVE  AccountsInv'
<1>0. PICK x \in CommitmentRow : x = commitment[i]
  BY DEF AccountsInv, AccountRows
<1>1. UNCHANGED <<ledger, applied, balance, note, drift, task>>
  BY DEF ApproveOrder, Cancel, Invalidate
<1>2. AccountRows /\ OrderTotal \in Int /\ commitment[i] \in CommitmentRow /\ commitment[i].uninvoiced \in Int
  BY AccountsAssumption DEF AccountsInv, AccountRows, CommitmentRow
<1>3. PICK row \in CommitmentRow, change \in Int :
        /\ commitment' = [commitment EXCEPT ![i] = row]
        /\ row.uninvoiced = commitment[i].uninvoiced + change
        /\ row.cancelled = commitment[i].cancelled \/ InvoiceStatus(i) = "draft"
        /\ Charge(0, change)
  <2>0. \A change \in Int : \E u \in Int : u = x.uninvoiced + change
    <3>1. x.uninvoiced \in Int
      BY DEF CommitmentRow
    <3> QED BY <3>1
  <2>1. CASE ApproveOrder(i)
    <3>0. PICK change \in Int : change = OrderTotal
      BY <1>2
    <3>1. PICK u \in Int : u = x.uninvoiced + change
      BY <2>0
    <3>u. u = commitment[i].uninvoiced + OrderTotal /\ Charge(0, change) = Charge(0, OrderTotal)
      BY <1>0, <1>2, <3>0, <3>1
    <3> DEFINE row == [x EXCEPT !.approval = "active", !.uninvoiced = u]
    <3>2. row \in CommitmentRow /\ row.uninvoiced = u /\ row.cancelled = x.cancelled
      BY DEF CommitmentRow
    <3>3. commitment' = [commitment EXCEPT ![i] = row] /\ Charge(0, change)
      BY <1>0, <2>1, <3>u DEF ApproveOrder
    <3> HIDE DEF row
    <3> QED BY <1>0, <3>1, <3>2, <3>3
  <2>2. CASE Cancel(i)
    <3>0. PICK change \in Int : change = -1
      BY <1>2
    <3>1. PICK u \in Int : u = x.uninvoiced + change
      BY <2>0
    <3>u. u = commitment[i].uninvoiced - 1 /\ Charge(0, change) = Charge(0, -1)
      BY <1>0, <1>2, <3>0, <3>1
    <3>2. PICK c \in 0..1 : c = 1
      OBVIOUS
    <3> DEFINE row == [x EXCEPT !.cancelled = c, !.uninvoiced = u]
    <3>3. row \in CommitmentRow /\ row.uninvoiced = u
      BY DEF CommitmentRow
    <3>4. commitment' = [commitment EXCEPT ![i] = row] /\ Charge(0, change) /\ InvoiceStatus(i) = "draft"
      BY <1>0, <2>2, <3>2, <3>u DEF Cancel
    <3> HIDE DEF row
    <3> QED BY <1>0, <3>1, <3>3, <3>4
  <2>3. CASE Invalidate(i)
    <3>0. PICK change \in Int : change = -OrderTotal
      BY <1>2
    <3>1. PICK u \in Int : u = x.uninvoiced + change
      BY <2>0
    <3>u. u = commitment[i].uninvoiced - OrderTotal /\ Charge(0, change) = Charge(0, -OrderTotal)
      BY <1>0, <1>2, <3>0, <3>1
    <3> DEFINE row == [x EXCEPT !.approval = "invalidated", !.uninvoiced = u]
    <3>2. row \in CommitmentRow /\ row.uninvoiced = u /\ row.cancelled = x.cancelled
      BY DEF CommitmentRow
    <3>3. commitment' = [commitment EXCEPT ![i] = row] /\ Charge(0, change)
      BY <1>0, <2>3, <3>u DEF Invalidate
    <3> HIDE DEF row
    <3> QED BY <1>0, <3>1, <3>2, <3>3
  <2> QED BY <2>1, <2>2, <2>3
<1>4. commitment'[i] = row /\ \A j \in Invoices \ {i} : commitment'[j] = commitment[j]
  BY <1>2, <1>3 DEF AccountRows
<1>5. AccountRows'
  <2>1. commitment' \in [Invoices -> CommitmentRow]
    BY <1>2, <1>3 DEF AccountRows
  <2>2. exposure' \in Sums
    BY <1>2, <1>3 DEF Charge, AccountRows, Sums
  <2> QED BY <1>1, <1>2, <2>1, <2>2 DEF AccountRows
<1>6. ExposureReconciles'
  <2>1. ExposureReconciles /\ 0 \in Int /\ ledger'[i].open = ledger[i].open + 0
    BY <1>1, <1>2, AmountTypes DEF AccountsInv
  <2>2. \A j \in Invoices \ {i} : /\ ledger'[j].open = ledger[j].open
                                 /\ commitment'[j].uninvoiced = commitment[j].uninvoiced
    BY <1>1, <1>4
  <2> QED BY <1>1, <1>2, <1>3, <1>4, <1>5, <2>1, <2>2, Charged
<1>7. ASSUME NEW j \in Invoices PROVE LedgerTold(j)'
  <2>1. Owed(j)' = Owed(j)
    <3>1. CASE commitment'[j].cancelled = commitment[j].cancelled
      BY <1>1, <3>1, OwedKept
    <3>2. CASE InvoiceStatus(j) = "draft"
      BY <1>1, <3>2 DEF Owed, InvoiceStatus
    <3> QED BY <1>3, <1>4, <3>1, <3>2
  <2> QED BY <1>1, <2>1, PaidKept, CreditedKept, LedgerKept
<1>8. \A r \in Receipts : BalanceTold(r)'
  BY <1>1, BalanceKept
<1>9. Exclusive' /\ \A q \in Tasks : Sound(task[q])'
  BY <1>1, RequestsSound
<1> QED BY <1>5, <1>6, <1>7, <1>8, <1>9 DEF AccountsInv

-----------------------------------------------------------------------------
(* Receipts are reversed *)

(* The reversal of a receipt that nothing is allocated of. *)
LEMMA ReverseReceiptStep ==
  ASSUME AccountsInv, NEW r \in Receipts, ReverseReceipt(r)
  PROVE  AccountsInv'
<1>1. /\ UNCHANGED <<commitment, ledger, applied, note, exposure, drift, task>>
      /\ balance[r].state = "cleared" /\ balance[r].allocated = 0
      /\ balance' = [balance EXCEPT ![r].state = "reversed", ![r].designated = 0]
  BY DEF ReverseReceipt
<1>2. AccountRows /\ balance[r] \in BalanceRow
  BY DEF AccountsInv, AccountRows
<1>3. PICK row \in BalanceRow : /\ balance' = [balance EXCEPT ![r] = row]
                               /\ row.allocated = balance[r].allocated
                               /\ row.state = "reversed" /\ row.designated = 0
  <2> DEFINE row == [balance[r] EXCEPT !.state = "reversed", !.designated = 0]
  <2>1. row \in BalanceRow /\ row.allocated = balance[r].allocated
        /\ row.state = "reversed" /\ row.designated = 0
    BY <1>2 DEF BalanceRow
  <2>2. balance' = [balance EXCEPT ![r] = row]
    BY <1>1
  <2> HIDE DEF row
  <2> QED BY <2>1, <2>2
<1>4. balance'[r] = row /\ \A q \in Receipts \ {r} : balance'[q] = balance[q]
  BY <1>2, <1>3 DEF AccountRows
<1>5. AccountRows'
  BY <1>1, <1>2, <1>3 DEF AccountRows
<1>6. ASSUME NEW q \in Receipts PROVE BalanceTold(q)'
  <2>1. CASE q # r
    BY <1>1, <1>4, <2>1, BalanceKept
  <2>2. CASE q = r
    <3>1. BalanceTold(r)
      BY DEF AccountsInv
    <3>2. balance'[r].allocated = 0 /\ Available(balance[r])' = 0
      BY <1>1, <1>3, <1>4 DEF Available
    <3> QED BY <1>1, <2>2, <3>1, <3>2 DEF BalanceTold, RebuiltAllocated
  <2> QED BY <2>1, <2>2
<1>7. Exclusive' /\ \A q \in Tasks : Sound(task[q])'
  <2>1. ASSUME NEW q \in Tasks, task[q].command = "allocate"
        PROVE  balance'[task[q].receipt] = balance[task[q].receipt]
    <3>1. task[q].receipt # r
      BY <2>1 DEF ReverseReceipt, ReceiptFree, InProgress
    <3>2. task[q].receipt \in Receipts
      BY <2>1 DEF AccountsInv, Sound
    <3> QED BY <1>4, <3>1, <3>2
  <2> QED BY <1>1, <2>1, RequestsSound
<1>8. ExposureReconciles'
  BY <1>1 DEF AccountsInv, ExposureReconciles, LedgerOpen, EntriesUninvoiced
<1>9. \A i \in Invoices : LedgerTold(i)'
  BY <1>1, OwedKept, PaidKept, CreditedKept, LedgerKept
<1> QED BY <1>5, <1>6, <1>7, <1>8, <1>9 DEF AccountsInv

-----------------------------------------------------------------------------
(* Credit notes *)

(* A note that changes its status moves its amount into or out of what is
   credited to its invoice. *)
LEMMA CreditMoved ==
  ASSUME AccountRows, AccountRows', NEW n \in Notes, NEW j \in Invoices,
         note'[n].invoice = note[n].invoice, note'[n].amount = note[n].amount,
         \A m \in Notes \ {n} : note'[m] = note[m]
  PROVE  Credited(j)' = Credited(j) - (IF n \in PostedNotes(j) THEN note[n].amount ELSE 0)
                          + (IF n \in PostedNotes(j)' THEN note[n].amount ELSE 0)
<1> DEFINE f == AmountOf
           g == AmountOf'
           T == PostedNotes(j)
           U == PostedNotes(j)'
<1>1. /\ \A m \in Notes : f[m] = note[m].amount /\ f[m] \in Nat
      /\ \A m \in Notes : g[m] = note'[m].amount /\ g[m] \in Nat
  BY AmountTypes, AmountTypesNext DEF AmountOf
<1>2. T \in SUBSET Notes /\ U \in SUBSET Notes
  BY DEF PostedNotes
<1>3. \A m \in Notes \ {n} : m \in T <=> m \in U
  BY DEF PostedNotes
<1>4. \A m \in T \ {n} : g[m] = f[m]
  BY <1>1, <1>2
<1>5. f[n] = note[n].amount /\ g[n] = note[n].amount
  BY <1>1
<1> HIDE DEF f, g, T, U
<1>6. Total(g, U) = Total(f, T) - (IF n \in T THEN f[n] ELSE 0) + (IF n \in U THEN g[n] ELSE 0)
  BY <1>1, <1>2, <1>3, <1>4, TotalPart, AccountsAssumption
<1> QED BY <1>5, <1>6 DEF Credited, f, g, T, U

(* What a note's change leaves of its row. *)
LEMMA NoteRowChanged ==
  ASSUME AccountRows, NEW n \in Notes, NEW s \in {"posted", "reversed"},
         note[n].status # "none", note' = [note EXCEPT ![n].status = s]
  PROVE  /\ note' \in [Notes -> NoteRow]
         /\ note'[n].status = s
         /\ note'[n].invoice = note[n].invoice /\ note'[n].amount = note[n].amount
         /\ \A m \in Notes \ {n} : note'[m] = note[m]
         /\ note[n].invoice \in Invoices
         /\ \A m \in Notes : note'[m].status # "none" => note'[m].invoice \in Invoices
<1>1. note \in [Notes -> NoteRow] /\ note[n] \in NoteRow
  BY DEF AccountRows
<1>2. PICK row \in NoteRow : /\ note' = [note EXCEPT ![n] = row]
                            /\ row.status = s /\ row.invoice = note[n].invoice
                            /\ row.amount = note[n].amount
  <2> DEFINE row == [note[n] EXCEPT !.status = s]
  <2>1. row \in NoteRow /\ row.status = s /\ row.invoice = note[n].invoice
        /\ row.amount = note[n].amount
    BY <1>1 DEF NoteRow
  <2>2. note' = [note EXCEPT ![n] = row]
    OBVIOUS
  <2> HIDE DEF row
  <2> QED BY <2>1, <2>2
<1>3. note'[n] = row /\ \A m \in Notes \ {n} : note'[m] = note[m]
  BY <1>1, <1>2
<1>4. note' \in [Notes -> NoteRow]
  BY <1>1, <1>2
<1>5. /\ note[n].invoice \in Invoices
      /\ \A m \in Notes : note[m].status # "none" => note[m].invoice \in Invoices
  BY DEF AccountRows
<1> QED BY <1>2, <1>3, <1>4, <1>5

(* The ledger of an invoice takes an entry of d. *)
LEMMA LedgerEntry ==
  ASSUME AccountRows, NEW i \in Invoices, NEW d \in Int,
         ledger' = [ledger EXCEPT ![i].open = @ + d]
  PROVE  /\ ledger' \in [Invoices -> LedgerRow]
         /\ ledger'[i].open = ledger[i].open + d
         /\ \A j \in Invoices : ledger'[j].types = ledger[j].types
         /\ \A j \in Invoices \ {i} : ledger'[j] = ledger[j]
<1>1. PICK x \in LedgerRow : x = ledger[i]
  BY DEF AccountRows
<1>2. PICK u \in Int : u = x.open + d
  BY DEF LedgerRow
<1>3. [x EXCEPT !.open = u] \in LedgerRow /\ [x EXCEPT !.open = u].types = x.types
      /\ [x EXCEPT !.open = u].open = u
  BY DEF LedgerRow
<1> DEFINE row == [x EXCEPT !.open = u]
<1>4. ledger' = [ledger EXCEPT ![i] = row]
  BY <1>1, <1>2
<1>5. row \in LedgerRow /\ row.types = x.types /\ row.open = u
  BY <1>3
<1> HIDE DEF row
<1> QED BY <1>1, <1>2, <1>4, <1>5 DEF AccountRows

(* A posted credit note, or one taken back, moves its amount on the ledger. *)
LEMMA NoteMoved ==
  ASSUME AccountsInv, NEW n \in Notes, NEW s \in {"posted", "reversed"}, NEW d \in Int,
         note' = [note EXCEPT ![n].status = s],
         ledger' = [ledger EXCEPT ![note[n].invoice].open = @ + d],
         Charge(d, 0),
         UNCHANGED <<commitment, applied, balance, drift>>,
         \/ s = "posted" /\ note[n].status = "pending_authorization" /\ d = -note[n].amount
         \/ s = "reversed" /\ note[n].status = "posted" /\ d = note[n].amount
  PROVE  /\ AccountRows' /\ ExposureReconciles'
         /\ \A i \in Invoices : LedgerTold(i)'
         /\ \A r \in Receipts : BalanceTold(r)'
         /\ \A i \in Invoices : ledger'[i].types = ledger[i].types
         /\ \A m \in Notes \ {n} : note'[m] = note[m]
<1>1. AccountRows /\ note[n].status # "none" /\ note[n].amount \in Nat
  BY AmountTypes DEF AccountsInv
<1>2. /\ note' \in [Notes -> NoteRow]
      /\ note'[n].status = s
      /\ note'[n].invoice = note[n].invoice /\ note'[n].amount = note[n].amount
      /\ \A m \in Notes \ {n} : note'[m] = note[m]
      /\ note[n].invoice \in Invoices
      /\ \A m \in Notes : note'[m].status # "none" => note'[m].invoice \in Invoices
  BY <1>1, NoteRowChanged
<1>3. PICK i \in Invoices : i = note[n].invoice
  BY <1>2
<1>4. /\ ledger' \in [Invoices -> LedgerRow]
      /\ ledger'[i].open = ledger[i].open + d
      /\ \A j \in Invoices : ledger'[j].types = ledger[j].types
      /\ \A j \in Invoices \ {i} : ledger'[j] = ledger[j]
  <2>1. ledger' = [ledger EXCEPT ![i].open = @ + d]
    BY <1>3
  <2> QED BY <1>1, <2>1, LedgerEntry
<1>5. exposure.open \in Int /\ exposure.uninvoiced \in Int /\ exposure' \in Sums
  BY <1>1 DEF Charge, AccountRows, Sums
<1>6. AccountRows'
  BY <1>1, <1>2, <1>4, <1>5 DEF AccountRows
<1>7. ExposureReconciles'
  <2>1. ExposureReconciles /\ 0 \in Int /\ commitment'[i].uninvoiced = commitment[i].uninvoiced + 0
    BY <1>1, AmountTypes DEF AccountsInv
  <2> QED BY <1>1, <1>4, <1>6, <2>1, Charged
<1>8. ASSUME NEW j \in Invoices PROVE LedgerTold(j)'
  <2>1. Owed(j)' = Owed(j) /\ Paid(j)' = Paid(j)
    BY <1>4, OwedKept, PaidKept
  <2>2. CASE j # i
    <3>1. n \notin PostedNotes(j) /\ n \notin PostedNotes(j)'
      BY <1>2, <1>3, <2>2 DEF PostedNotes
    <3>2. Credited(j)' = Credited(j) /\ ledger'[j].open = ledger[j].open
      BY <1>1, <1>2, <1>4, <1>6, <2>2, <3>1, CreditMoved, AmountTypes, SMTT(30)
    <3> QED BY <2>1, <3>2, LedgerKept
  <2>3. CASE j = i
    <3>1. Credited(i)' = Credited(i) - (IF n \in PostedNotes(i) THEN note[n].amount ELSE 0)
                           + (IF n \in PostedNotes(i)' THEN note[n].amount ELSE 0)
      BY <1>1, <1>2, <1>6, CreditMoved
    <3>2. Credited(i) \in Nat /\ Owed(i) \in Nat /\ Paid(i) \in Nat /\ ledger[i].open \in Int
      BY <1>1, AmountTypes
    <3>3. Credited(i)' = Credited(i) - d
      <4>1. CASE s = "posted"
        <5>1. n \notin PostedNotes(i) /\ n \in PostedNotes(i)' /\ d = -note[n].amount
          BY <1>2, <1>3, <4>1 DEF PostedNotes
        <5> QED BY <1>1, <3>1, <3>2, <5>1
      <4>2. CASE s = "reversed"
        <5>1. n \in PostedNotes(i) /\ n \notin PostedNotes(i)' /\ d = note[n].amount
          BY <1>2, <1>3, <4>2 DEF PostedNotes
        <5> QED BY <1>1, <3>1, <3>2, <5>1
      <4> QED BY <4>1, <4>2
    <3>4. ledger[i].open = Owed(i) - Paid(i) - Credited(i)
      BY DEF AccountsInv, LedgerTold
    <3>5. ledger'[i].open = Owed(i)' - Paid(i)' - Credited(i)'
      BY <1>4, <2>1, <2>3, <3>2, <3>3, <3>4
    <3> QED BY <2>3, <3>5 DEF LedgerTold
  <2> QED BY <2>2, <2>3
<1>9. \A r \in Receipts : BalanceTold(r)'
  BY BalanceKept
<1> QED BY <1>2, <1>4, <1>6, <1>7, <1>8, <1>9

(* Reversing a posted note, which no request has under way. *)
LEMMA ReverseNoteStep ==
  ASSUME AccountsInv, NEW n \in Notes, ReverseNote(n)
  PROVE  AccountsInv'
<1>1. /\ note[n].status = "posted"
      /\ note' = [note EXCEPT ![n].status = "reversed"]
      /\ ledger' = [ledger EXCEPT ![note[n].invoice].open = @ + note[n].amount]
      /\ Charge(note[n].amount, 0)
      /\ UNCHANGED <<commitment, applied, balance, drift, task>>
  BY DEF ReverseNote
<1>2. note[n].amount \in Int
  BY AmountTypes DEF AccountsInv
<1>3. /\ AccountRows' /\ ExposureReconciles'
      /\ \A i \in Invoices : LedgerTold(i)'
      /\ \A r \in Receipts : BalanceTold(r)'
      /\ \A i \in Invoices : ledger'[i].types = ledger[i].types
      /\ \A m \in Notes \ {n} : note'[m] = note[m]
  BY <1>1, <1>2, NoteMoved
<1>4. ASSUME NEW q \in Tasks
      PROVE  /\ task[q].command \in {"post", "void"} =>
                  ledger'[task[q].invoice].types = ledger[task[q].invoice].types
             /\ task[q].command \in {"request_note", "post_note"} =>
                  note'[task[q].note].status = note[task[q].note].status
  <2>1. Sound(task[q])
    BY DEF AccountsInv
  <2>2. task[q].command \in {"post", "void"} => task[q].invoice \in Invoices
    BY <2>1 DEF Sound
  <2>3. task[q].command \in {"request_note", "post_note"} =>
          task[q].note \in Notes \ {n}
    BY <1>1, <2>1 DEF Sound
  <2> QED BY <1>3, <2>2, <2>3
<1>5. Exclusive' /\ \A q \in Tasks : Sound(task[q])'
  BY <1>1, <1>4, RequestsSound
<1> QED BY <1>3, <1>5 DEF AccountsInv

(* Posting a note that is still pending. *)
LEMMA FinishPostNoteStep ==
  ASSUME AccountsInv, NEW p \in Tasks, FinishPostNote(p)
  PROVE  AccountsInv'
<1>1. Sound(task[p]) /\ task[p].command = "post_note"
  BY DEF AccountsInv, FinishPostNote
<1>2. PICK n \in Notes : n = task[p].note /\ note[n].status = "pending_authorization"
  BY <1>1 DEF Sound
<1>3. note[n].amount \in Nat /\ \A i \in Invoices : ledger[i].open \in Int
  BY AmountTypes DEF AccountsInv
<1>4. PICK d \in Int : d = -note[n].amount
  BY <1>3
<1>5. /\ note' = [note EXCEPT ![n].status = "posted"]
      /\ ledger' = [ledger EXCEPT ![note[n].invoice].open = @ - note[n].amount]
      /\ Charge(d, 0)
      /\ Finished(p)
      /\ UNCHANGED <<commitment, applied, balance, drift>>
  BY <1>2, <1>4 DEF FinishPostNote
<1>6. note[n].invoice \in Invoices
  BY <1>2 DEF AccountsInv, AccountRows
<1>7. ledger' = [ledger EXCEPT ![note[n].invoice].open = @ + d]
  <2>1. PICK i \in Invoices : i = note[n].invoice
    BY <1>6
  <2>2. ledger' = [ledger EXCEPT ![i].open = @ - note[n].amount]
    BY <1>5, <2>1
  <2>3. ledger[i].open - note[n].amount = ledger[i].open + d
    BY <1>3, <1>4
  <2>4. ledger' = [ledger EXCEPT ![i].open = @ + d]
    BY <2>2, <2>3
  <2> QED BY <2>1, <2>4
<1>8. /\ AccountRows' /\ ExposureReconciles'
      /\ \A i \in Invoices : LedgerTold(i)'
      /\ \A r \in Receipts : BalanceTold(r)'
      /\ \A i \in Invoices : ledger'[i].types = ledger[i].types
      /\ \A m \in Notes \ {n} : note'[m] = note[m]
  BY <1>2, <1>4, <1>5, <1>7, NoteMoved
<1>9. ASSUME NEW q \in Tasks \ {p}
      PROVE  /\ task[q].command \in {"post", "void"} =>
                  ledger'[task[q].invoice].types = ledger[task[q].invoice].types
             /\ task[q].command \in {"request_note", "post_note"} =>
                  note'[task[q].note].status = note[task[q].note].status
  <2>1. Sound(task[q])
    BY DEF AccountsInv
  <2>2. task[q].command \in {"post", "void"} => task[q].invoice \in Invoices
    BY <2>1 DEF Sound
  <2>3. task[q].command = "post_note" => task[q].note # n
    BY <1>1, <1>2, SameKey DEF AccountsInv
  <2>4. task[q].command \in {"request_note", "post_note"} =>
          task[q].note \in Notes \ {n}
    BY <1>2, <2>1, <2>3 DEF Sound
  <2> QED BY <1>8, <2>2, <2>4
<1>10. Exclusive' /\ \A q \in Tasks : Sound(task[q])'
  BY <1>5, <1>9, OthersSound
<1> QED BY <1>8, <1>10 DEF AccountsInv

(* A requested note is pending: nothing is credited yet. *)
LEMMA FinishRequestNoteStep ==
  ASSUME AccountsInv, NEW p \in Tasks, FinishRequestNote(p)
  PROVE  AccountsInv'
<1>1. Sound(task[p]) /\ task[p].command = "request_note" /\ AccountRows
  BY DEF AccountsInv, FinishRequestNote
<1>2. PICK n \in Notes, i \in Invoices, a \in Nat :
        /\ n = task[p].note /\ i = task[p].invoice /\ a = task[p].amount
        /\ note[n].status = "none"
  BY <1>1 DEF Sound
<1> DEFINE row == [status |-> "pending_authorization", invoice |-> i, amount |-> a]
<1>3. /\ note' = [note EXCEPT ![n] = row]
      /\ Finished(p)
      /\ UNCHANGED <<commitment, ledger, applied, balance, exposure, drift>>
  BY <1>2 DEF FinishRequestNote
<1>4. row \in NoteRow /\ row.status = "pending_authorization" /\ row.invoice = i
  BY DEF NoteRow
<1> HIDE DEF row
<1>5. note'[n] = row /\ \A m \in Notes \ {n} : note'[m] = note[m]
  BY <1>1, <1>3 DEF AccountRows
<1>6. AccountRows'
  BY <1>1, <1>3, <1>4, <1>5 DEF AccountRows
<1>7. ASSUME NEW j \in Invoices PROVE Credited(j)' = Credited(j)
  <2>1. PostedNotes(j)' = PostedNotes(j) /\ n \notin PostedNotes(j)
    BY <1>2, <1>4, <1>5 DEF PostedNotes
  <2> DEFINE f == AmountOf
             g == AmountOf'
             T == PostedNotes(j)
  <2>2. \A m \in T : f[m] = g[m]
    BY <1>5, <2>1 DEF AmountOf, PostedNotes
  <2> HIDE DEF f, g, T
  <2>3. Total(f, T) = Total(g, T)
    BY <2>2, TotalSame
  <2> QED BY <2>1, <2>3 DEF Credited, f, g, T
<1>8. \A j \in Invoices : LedgerTold(j)'
  BY <1>3, <1>7, OwedKept, PaidKept, LedgerKept
<1>9. \A r \in Receipts : BalanceTold(r)'
  BY <1>3, BalanceKept
<1>10. ExposureReconciles'
  BY <1>3 DEF AccountsInv, ExposureReconciles, LedgerOpen, EntriesUninvoiced
<1>11. ASSUME NEW q \in Tasks \ {p}, task[q].command \in {"request_note", "post_note"}
       PROVE  note'[task[q].note].status = note[task[q].note].status
  <2>1. Sound(task[q])
    BY DEF AccountsInv
  <2>2. task[q].command = "request_note" => task[q].note # n
    BY <1>1, <1>2, SameKey DEF AccountsInv
  <2>3. task[q].note \in Notes \ {n}
    BY <1>2, <1>11, <2>1, <2>2 DEF Sound
  <2> QED BY <1>5, <2>3
<1>12. Exclusive' /\ \A q \in Tasks : Sound(task[q])'
  BY <1>3, <1>11, OthersSound
<1> QED BY <1>6, <1>8, <1>9, <1>10, <1>12 DEF AccountsInv

-----------------------------------------------------------------------------
(* Invoices *)

(* The rows of an order and of a ledger after a posting or a void. *)
LEMMA InvoiceRowsChanged ==
  ASSUME AccountRows, NEW i \in Invoices, NEW row \in LedgerRow, NEW d \in Int,
         ledger' = [ledger EXCEPT ![i] = row],
         commitment' = [commitment EXCEPT ![i].uninvoiced = @ + d]
  PROVE  /\ ledger' \in [Invoices -> LedgerRow] /\ commitment' \in [Invoices -> CommitmentRow]
         /\ ledger'[i] = row
         /\ commitment'[i].uninvoiced = commitment[i].uninvoiced + d
         /\ \A j \in Invoices : commitment'[j].cancelled = commitment[j].cancelled
         /\ \A j \in Invoices \ {i} : ledger'[j] = ledger[j] /\ commitment'[j] = commitment[j]
<1>1. PICK x \in CommitmentRow : x = commitment[i]
  BY DEF AccountRows
<1>2. PICK new \in CommitmentRow : /\ commitment' = [commitment EXCEPT ![i] = new]
                             /\ new.uninvoiced = commitment[i].uninvoiced + d
                             /\ new.cancelled = commitment[i].cancelled
  <2>0. PICK u \in Int : u = x.uninvoiced + d
    BY DEF CommitmentRow
  <2> DEFINE new == [x EXCEPT !.uninvoiced = u]
  <2>1. /\ new \in CommitmentRow /\ new.uninvoiced = x.uninvoiced + d
        /\ new.cancelled = x.cancelled
    BY <2>0 DEF CommitmentRow
  <2>2. commitment' = [commitment EXCEPT ![i] = new]
    BY <1>1, <2>0
  <2> HIDE DEF new
  <2> QED BY <1>1, <2>1, <2>2
<1>3. /\ ledger' \in [Invoices -> LedgerRow] /\ ledger'[i] = row
      /\ \A j \in Invoices \ {i} : ledger'[j] = ledger[j]
  BY DEF AccountRows
<1>4. /\ commitment' \in [Invoices -> CommitmentRow] /\ commitment'[i] = new
      /\ \A j \in Invoices \ {i} : commitment'[j] = commitment[j]
  BY <1>2 DEF AccountRows
<1> QED BY <1>2, <1>3, <1>4

(* Voiding an invoice that is still posted. *)
LEMMA FinishVoidStep ==
  ASSUME AccountsInv, NEW p \in Tasks, FinishVoid(p)
  PROVE  AccountsInv'
<1>1. Sound(task[p]) /\ task[p].command = "void" /\ AccountRows
  BY DEF AccountsInv, FinishVoid
<1>2. PICK i \in Invoices : i = task[p].invoice /\ InvoiceStatus(i) = "posted"
  BY <1>1 DEF Sound
<1>3. /\ GrandTotal(i) \in Nat /\ ledger[i].open \in Int /\ ledger[i].reduced \in Int
      /\ Owed(i) = GrandTotal(i) /\ Paid(i) \in Nat /\ Credited(i) \in Nat
  BY <1>1, <1>2, AmountTypes DEF Owed
<1>4. PICK d \in Int, k \in Int, u \in Int :
        d = -GrandTotal(i) /\ k = ledger[i].reduced /\ u = ledger[i].open + d
  BY <1>3
<1>5. ledger[i].open - GrandTotal(i) = u
  BY <1>3, <1>4
<1>6. PICK row \in LedgerRow : /\ row.open = u /\ "void" \in row.types
                              /\ ledger' = [ledger EXCEPT ![i] = row]
  <2> DEFINE row == [ledger[i] EXCEPT !.types = @ \cup {"void"}, !.open = u]
  <2>1. ledger[i] \in LedgerRow
    BY <1>1 DEF AccountRows
  <2>2. row \in LedgerRow /\ row.open = u /\ "void" \in row.types
    BY <2>1 DEF LedgerRow
  <2>3. ledger' = [ledger EXCEPT ![i] = row]
    BY <1>2, <1>5 DEF FinishVoid
  <2> HIDE DEF row
  <2> QED BY <2>2, <2>3
<1>7. /\ commitment' = [commitment EXCEPT ![i].uninvoiced = @ + k]
      /\ Charge(d, k) /\ Finished(p)
      /\ UNCHANGED <<applied, balance, note, drift>>
  BY <1>2, <1>4 DEF FinishVoid
<1>8. /\ ledger' \in [Invoices -> LedgerRow] /\ commitment' \in [Invoices -> CommitmentRow]
      /\ ledger'[i] = row
      /\ commitment'[i].uninvoiced = commitment[i].uninvoiced + k
      /\ \A j \in Invoices : commitment'[j].cancelled = commitment[j].cancelled
      /\ \A j \in Invoices \ {i} : ledger'[j] = ledger[j] /\ commitment'[j] = commitment[j]
  BY <1>1, <1>6, <1>7, InvoiceRowsChanged
<1>9. exposure' \in Sums
  BY <1>1, <1>7 DEF Charge, AccountRows, Sums
<1>10. AccountRows'
  BY <1>1, <1>7, <1>8, <1>9 DEF AccountRows
<1>11. ExposureReconciles'
  <2>1. ledger'[i].open = ledger[i].open + d /\ ExposureReconciles
    BY <1>4, <1>6, <1>8 DEF AccountsInv
  <2> QED BY <1>1, <1>7, <1>8, <1>10, <2>1, Charged
<1>12. ASSUME NEW j \in Invoices PROVE LedgerTold(j)'
  <2>1. Paid(j)' = Paid(j) /\ Credited(j)' = Credited(j)
    BY <1>7, PaidKept, CreditedKept
  <2>2. CASE j # i
    <3>1. Owed(j)' = Owed(j)
      BY <1>8, <2>2, OwedKept
    <3> QED BY <1>8, <2>1, <2>2, <3>1, LedgerKept
  <2>3. CASE j = i
    <3>1. Owed(i)' = 0
      BY <1>6, <1>8 DEF Owed, InvoiceStatus
    <3>2. ledger[i].open = Owed(i) - Paid(i) - Credited(i)
      BY DEF AccountsInv, LedgerTold
    <3>3. ledger'[i].open = Owed(i)' - Paid(i)' - Credited(i)'
      BY <1>3, <1>4, <1>6, <1>8, <2>1, <2>3, <3>1, <3>2
    <3> QED BY <2>3, <3>3 DEF LedgerTold
  <2> QED BY <2>2, <2>3
<1>13. \A r \in Receipts : BalanceTold(r)'
  BY <1>7, BalanceKept
<1>14. ASSUME NEW q \in Tasks \ {p}, task[q].command \in {"post", "void"}
       PROVE  ledger'[task[q].invoice].types = ledger[task[q].invoice].types
  <2>1. Sound(task[q])
    BY DEF AccountsInv
  <2>2. task[q].command = "void" => task[q].invoice # i
    BY <1>1, <1>2, SameKey DEF AccountsInv
  <2>3. task[q].invoice \in Invoices \ {i}
    BY <1>2, <1>14, <2>1, <2>2 DEF Sound
  <2> QED BY <1>8, <2>3
<1>15. Exclusive' /\ \A q \in Tasks : Sound(task[q])'
  BY <1>7, <1>14, OthersSound
<1> QED BY <1>10, <1>11, <1>12, <1>13, <1>15 DEF AccountsInv

-----------------------------------------------------------------------------
(* Payments *)

(* What a receipt is applied to grows by what is allocated of it to one
   invoice. *)
LEMMA ApplicationRecorded ==
  ASSUME NEW f \in [Invoices -> Nat], NEW g \in [Invoices -> Nat],
         NEW i \in Invoices, NEW d \in Nat, g[i] = f[i] + d,
         \A j \in Invoices \ {i} : g[j] = f[j]
  PROVE  Total(g, Invoices) = Total(f, Invoices) + d
<1>1. /\ \A j \in Invoices : f[j] \in Nat
      /\ \A j \in Invoices : g[j] \in Nat
  OBVIOUS
<1>2. IsFiniteSet(Invoices)
  BY AccountsAssumption
<1>3. Total(g, Invoices) = Total(f, Invoices) - f[i] + g[i]
  BY <1>1, <1>2, TotalChange
<1>4. Total(f, Invoices) \in Nat
  BY <1>1, <1>2, TotalType
<1> QED BY <1>1, <1>3, <1>4

(* Allocating what is still available of a receipt nobody else is allocating. *)
LEMMA FinishAllocateStep ==
  ASSUME AccountsInv, NEW p \in Tasks, FinishAllocate(p)
  PROVE  AccountsInv'
<1>1. Sound(task[p]) /\ task[p].command = "allocate" /\ AccountRows
  BY DEF AccountsInv, FinishAllocate
<1>2. PICK r \in Receipts, i \in Invoices, amount \in Nat :
        /\ r = task[p].receipt /\ i = task[p].invoice /\ amount = task[p].amount
        /\ balance[r].allocated = task[p].allocated
        /\ amount <= Available(balance[r])
  BY <1>1 DEF Sound
<1>3. /\ Available(balance[r]) \in Int /\ ledger[i].open \in Int
      /\ \A j \in Invoices : ledger[j].open \in Int
      /\ balance[r].allocated \in Nat /\ balance[r].designated \in Nat
      /\ \A q \in Receipts, j \in Invoices : applied[q][j] \in Nat
  BY <1>1, AmountTypes
<1>4. PICK d \in Int, b \in Nat : d = -amount /\ b = balance[r].allocated + amount
  BY <1>3
<1>5. /\ applied' = [applied EXCEPT ![r][i] = @ + amount]
      /\ balance' = [balance EXCEPT ![r].allocated = b]
      /\ ledger' = [ledger EXCEPT ![i].open = @ - amount]
      /\ Charge(d, 0) /\ Finished(p)
      /\ UNCHANGED <<commitment, note, drift>>
  BY <1>2, <1>4 DEF FinishAllocate
<1>6. ledger' = [ledger EXCEPT ![i].open = @ + d]
  <2>1. ledger[i].open - amount = ledger[i].open + d
    BY <1>3, <1>4
  <2> QED BY <1>5, <2>1
<1>7. /\ ledger' \in [Invoices -> LedgerRow]
      /\ ledger'[i].open = ledger[i].open + d
      /\ \A j \in Invoices : ledger'[j].types = ledger[j].types
      /\ \A j \in Invoices \ {i} : ledger'[j] = ledger[j]
  BY <1>1, <1>6, LedgerEntry
<1>8. PICK row \in BalanceRow :
        /\ balance' = [balance EXCEPT ![r] = row] /\ row.allocated = b
        /\ row.state = balance[r].state /\ row.designated = balance[r].designated
  <2> DEFINE row == [balance[r] EXCEPT !.allocated = b]
  <2>1. balance[r] \in BalanceRow
    BY <1>1 DEF AccountRows
  <2>2. /\ row \in BalanceRow /\ row.allocated = b
        /\ row.state = balance[r].state /\ row.designated = balance[r].designated
    BY <2>1 DEF BalanceRow
  <2>3. balance' = [balance EXCEPT ![r] = row]
    BY <1>5
  <2> HIDE DEF row
  <2> QED BY <2>2, <2>3
<1>9. /\ balance' \in [Receipts -> BalanceRow] /\ balance'[r] = row
      /\ \A q \in Receipts \ {r} : balance'[q] = balance[q]
  BY <1>1, <1>8 DEF AccountRows
<1>10. /\ applied'[r] = [applied[r] EXCEPT ![i] = @ + amount]
       /\ \A q \in Receipts \ {r} : applied'[q] = applied[q]
       /\ applied' = [applied EXCEPT ![r] = applied'[r]]
  BY <1>1, <1>5 DEF AccountRows
<1>11. /\ applied'[r] \in [Invoices -> Nat]
       /\ applied'[r][i] = applied[r][i] + amount
       /\ \A j \in Invoices \ {i} : applied'[r][j] = applied[r][j]
       /\ RebuiltAllocated(r)' = RebuiltAllocated(r) + amount
  <2>1. applied[r] \in [Invoices -> Nat]
    BY <1>1 DEF AccountRows
  <2>2. /\ applied'[r] \in [Invoices -> Nat]
        /\ applied'[r][i] = applied[r][i] + amount
        /\ \A j \in Invoices \ {i} : applied'[r][j] = applied[r][j]
    BY <1>10, <2>1
  <2>3. Total(applied'[r], Invoices) = Total(applied[r], Invoices) + amount
    BY <2>1, <2>2, ApplicationRecorded
  <2> QED BY <2>2, <2>3 DEF RebuiltAllocated
<1>12. applied' \in [Receipts -> [Invoices -> Nat]]
  BY <1>1, <1>10, <1>11 DEF AccountRows
<1>13. exposure' \in Sums
  BY <1>1, <1>5 DEF Charge, AccountRows, Sums
<1>14. AccountRows'
  BY <1>1, <1>5, <1>7, <1>9, <1>12, <1>13 DEF AccountRows
<1>15. ExposureReconciles'
  <2>1. /\ ExposureReconciles /\ 0 \in Int
        /\ commitment'[i].uninvoiced = commitment[i].uninvoiced + 0
        /\ \A j \in Invoices \ {i} : commitment'[j].uninvoiced = commitment[j].uninvoiced
    BY <1>1, <1>5, AmountTypes DEF AccountsInv
  <2> QED BY <1>1, <1>5, <1>7, <1>14, <2>1, Charged
<1>16. ASSUME NEW j \in Invoices PROVE LedgerTold(j)'
  <2>1. Owed(j)' = Owed(j) /\ Credited(j)' = Credited(j)
    BY <1>5, <1>7, OwedKept, CreditedKept
  <2>2. CASE j # i
    <3>1. \A q \in Receipts : applied'[q][j] = applied[q][j]
      BY <1>10, <1>11, <2>2
    <3>2. Paid(j)' = Paid(j)
      BY <3>1, PaidKept
    <3> QED BY <1>7, <2>1, <2>2, <3>2, LedgerKept
  <2>3. CASE j = i
    <3> DEFINE f == PaidOf(i)
               g == PaidOf(i)'
    <3>1. /\ \A q \in Receipts : f[q] \in Nat /\ g[q] \in Nat
          /\ \A q \in Receipts \ {r} : g[q] = f[q]
          /\ g[r] = f[r] + amount
      BY <1>3, <1>10, <1>11, <1>14, AmountTypesNext DEF PaidOf
    <3> HIDE DEF f, g
    <3>2. Total(g, Receipts) = Total(f, Receipts) - f[r] + g[r] /\ Total(f, Receipts) \in Nat
      BY <3>1, TotalChange, TotalType, AccountsAssumption
    <3>3. Total(g, Receipts) = Total(f, Receipts) + amount
      BY <3>1, <3>2
    <3>4. Paid(i)' = Paid(i) + amount
      BY <3>3 DEF Paid, f, g
    <3>5. /\ ledger[i].open = Owed(i) - Paid(i) - Credited(i)
          /\ Owed(i) \in Nat /\ Paid(i) \in Nat /\ Credited(i) \in Nat
      BY <1>1, AmountTypes DEF AccountsInv, LedgerTold
    <3>6. ledger'[i].open = Owed(i)' - Paid(i)' - Credited(i)'
      BY <1>4, <1>7, <2>1, <2>3, <3>4, <3>5
    <3> QED BY <2>3, <3>6 DEF LedgerTold
  <2> QED BY <2>2, <2>3
<1>17. ASSUME NEW q \in Receipts PROVE BalanceTold(q)'
  <2>1. CASE q # r
    BY <1>9, <1>10, <2>1, BalanceKept
  <2>2. CASE q = r
    <3>1. balance[r].allocated = RebuiltAllocated(r)
      BY DEF AccountsInv, BalanceTold
    <3>2. balance'[r].allocated = RebuiltAllocated(r)'
      BY <1>4, <1>8, <1>9, <1>11, <3>1
    <3>3. Available(balance[r])' = Available(balance[r]) - amount
      BY <1>3, <1>4, <1>8, <1>9, AccountsAssumption DEF Available
    <3> QED BY <1>2, <1>3, <2>2, <3>2, <3>3 DEF BalanceTold
  <2> QED BY <2>1, <2>2
<1>18. ASSUME NEW q \in Tasks \ {p}
       PROVE  /\ task[q].command \in {"post", "void"} =>
                   ledger'[task[q].invoice].types = ledger[task[q].invoice].types
              /\ task[q].command = "allocate" =>
                   balance'[task[q].receipt] = balance[task[q].receipt]
  <2>1. Sound(task[q])
    BY DEF AccountsInv
  <2>2. task[q].command \in {"post", "void"} => task[q].invoice \in Invoices
    BY <2>1 DEF Sound
  <2>3. task[q].command = "allocate" => task[q].receipt # r
    BY <1>1, <1>2, SameKey DEF AccountsInv
  <2>4. task[q].command = "allocate" => task[q].receipt \in Receipts \ {r}
    BY <2>1, <2>3 DEF Sound
  <2> QED BY <1>7, <1>9, <2>2, <2>4
<1>19. Exclusive' /\ \A q \in Tasks : Sound(task[q])'
  BY <1>5, <1>18, OthersSound
<1> QED BY <1>14, <1>15, <1>16, <1>17, <1>19 DEF AccountsInv

-----------------------------------------------------------------------------
(* Postings *)

(* No receipt gives more than is left of it, nor coverage it has not. *)
LEMMA RoomBounds ==
  ASSUME AccountRows, NEW i \in Invoices, NEW r \in Receipts, BalanceTold(r)
  PROVE  /\ Room(i, r) <= Available(balance[r])
         /\ r \notin Collected(i) => Room(i, r) <= balance[r].designated
<1>1. PICK a \in Int, d \in Nat : a = Available(balance[r]) /\ d = balance[r].designated
  BY AmountTypes
<1>2. a >= 0
  BY <1>1 DEF BalanceTold
<1>3. Room(i, r) \in {a, Positive(Lesser(a, d)), 0}
  BY <1>1, <1>2 DEF Room, Positive
<1>4. Positive(Lesser(a, d)) <= a /\ Positive(Lesser(a, d)) <= d
  BY <1>1, <1>2 DEF Positive, Lesser
<1>5. Room(i, r) <= a
  BY <1>1, <1>2, <1>3, <1>4
<1>6. r \notin Collected(i) => Room(i, r) <= d
  BY <1>1, <1>4 DEF Room
<1> QED BY <1>1, <1>5, <1>6

(* Receipts that are spent within their room are accounted for. *)
LEMMA ReceiptsSpent ==
  ASSUME AccountRows, NEW i \in Invoices, NEW took \in [Receipts -> 0..Value],
         \A r \in Receipts : BalanceTold(r) /\ took[r] <= Room(i, r),
         balance' = [r \in Receipts |-> Spent(i, r, took[r])]
  PROVE  /\ balance' \in [Receipts -> BalanceRow]
         /\ \A r \in Receipts : /\ balance'[r].allocated = balance[r].allocated + took[r]
                                /\ Available(balance[r])' >= 0
                                /\ took[r] = 0 => balance'[r] = balance[r]
<1>1. ASSUME NEW r \in Receipts
      PROVE  /\ balance'[r] \in BalanceRow
             /\ balance'[r].allocated = balance[r].allocated + took[r]
             /\ Available(balance[r])' >= 0
             /\ took[r] = 0 => balance'[r] = balance[r]
  <2>1. PICK b \in BalanceRow : b = balance[r]
    BY DEF AccountRows
  <2>2. PICK t \in Nat : t = took[r]
    OBVIOUS
  <2>3. PICK c \in {0, t} : /\ c = FromCoverage(i, r, t)
                            /\ r \notin Collected(i) => c = t
                            /\ r \in Collected(i) => c = 0
    BY DEF FromCoverage
  <2>4. b.allocated \in Nat /\ b.designated \in Nat /\ b.state \in {"cleared", "reversed"}
    BY DEF BalanceRow
  <2>5. t <= Available(b) /\ c <= b.designated /\ Available(b) \in Int /\ Room(i, r) \in Int
    <3>1. /\ Room(i, r) <= Available(b)
          /\ r \notin Collected(i) => Room(i, r) <= b.designated
      BY <2>1, RoomBounds
    <3>2. Available(b) \in Int
      BY <2>1, AmountTypes
    <3>3. Room(i, r) \in Int
      BY <2>1, <2>4, <3>2 DEF Room, Positive, Lesser
    <3>4. t <= Room(i, r)
      BY <2>2
    <3> QED BY <2>2, <2>3, <2>4, <3>1, <3>2, <3>3, <3>4
  <2>6. PICK allocated \in Nat, designated \in Nat :
          allocated = b.allocated + t /\ designated = b.designated - c
    BY <2>3, <2>4, <2>5
  <2> DEFINE row == [b EXCEPT !.allocated = allocated, !.designated = designated]
  <2>7. /\ row \in BalanceRow /\ row.allocated = allocated /\ row.designated = designated
        /\ row.state = b.state
    BY DEF BalanceRow
  <2>8. balance'[r] = row
    <3>1. /\ allocated = balance[r].allocated + t
          /\ designated = balance[r].designated - FromCoverage(i, r, t)
      BY <2>1, <2>3, <2>4, <2>6
    <3>2. Spent(i, r, t) = [balance[r] EXCEPT !.allocated = allocated, !.designated = designated]
      BY <3>1 DEF Spent
    <3>3. balance'[r] = Spent(i, r, t)
      BY <2>2
    <3> QED BY <2>1, <3>2, <3>3
  <2>9. took[r] = 0 => row = b
    <3>1. took[r] = 0 => allocated = b.allocated /\ designated = b.designated
      BY <2>2, <2>3, <2>4, <2>6
    <3> QED BY <3>1 DEF BalanceRow
  <2> HIDE DEF row
  <2>10. Available(row) = Available(b) - t + c
    BY <2>3, <2>4, <2>6, <2>7, AccountsAssumption DEF Available
  <2>11. Available(row) >= 0
    BY <2>3, <2>5, <2>10
  <2>12. Available(balance[r])' = Available(row)
    BY <2>8 DEF Available
  <2> QED BY <2>1, <2>2, <2>6, <2>7, <2>8, <2>9, <2>11, <2>12
<1>2. balance' = [r \in Receipts |-> balance'[r]]
  OBVIOUS
<1> QED BY <1>1, <1>2

(* Posting an invoice that is still a draft, with what it takes of receipts. *)
LEMMA FinishPostStep ==
  ASSUME AccountsInv, NEW p \in Tasks, FinishPost(p)
  PROVE  AccountsInv'
<1>1. Sound(task[p]) /\ task[p].command = "post" /\ AccountRows
  BY DEF AccountsInv, FinishPost
<1>2. PICK i \in Invoices : /\ i = task[p].invoice /\ InvoiceStatus(i) = "draft"
                            /\ task[p].uninvoiced \in Int
  BY <1>1 DEF Sound
<1>3. PICK amount \in Nat, reduced \in Int :
        /\ amount = GrandTotal(i)
        /\ reduced = Lesser(amount, task[p].uninvoiced)
  BY <1>1, <1>2, AmountTypes, SMTT(30) DEF Lesser
<1>4. PICK took \in [Receipts -> 0..Value] :
        /\ AutoAllocated(i, ledger[i].open + amount, took)
        /\ \A r \in Receipts : took[r] > 0 => ReceiptFree(r)
        /\ ledger' = [ledger EXCEPT ![i] =
             [types |-> {"invoice"}, open |-> @.open + (amount - Total(took, Receipts)),
              reduced |-> reduced]]
        /\ commitment' = [commitment EXCEPT ![i].uninvoiced = @ - reduced]
        /\ applied' = [r \in Receipts |-> [applied[r] EXCEPT ![i] = @ + took[r]]]
        /\ balance' = [r \in Receipts |-> Spent(i, r, took[r])]
        /\ Charge(amount - Total(took, Receipts), -reduced)
  BY <1>2, <1>3 DEF FinishPost
<1>5. Finished(p) /\ UNCHANGED <<note, drift>>
  BY DEF FinishPost
<1>6. \A r \in Receipts : took[r] \in Nat /\ took[r] <= Room(i, r)
  <2>1. \A r \in Receipts : took[r] <= [q \in Receipts |-> Room(i, q)][r]
    BY <1>4 DEF AutoAllocated
  <2> QED BY <2>1
<1>7. PICK spent \in Nat, left \in Int, less \in Int :
        /\ spent = Total(took, Receipts) /\ left = amount - spent /\ less = -reduced
  BY <1>6, TotalType, AccountsAssumption
<1>8. PICK u \in Int : u = ledger[i].open + left
  BY <1>1, AmountTypes
<1>9. PICK row \in LedgerRow : /\ row.open = u /\ row.types = {"invoice"}
                              /\ ledger' = [ledger EXCEPT ![i] = row]
  <2> DEFINE row == [types |-> {"invoice"}, open |-> u, reduced |-> reduced]
  <2>1. row \in LedgerRow /\ row.open = u /\ row.types = {"invoice"}
    BY DEF LedgerRow
  <2>2. ledger' = [ledger EXCEPT ![i] = row]
    BY <1>4, <1>7, <1>8
  <2> HIDE DEF row
  <2> QED BY <2>1, <2>2
<1>10. commitment' = [commitment EXCEPT ![i].uninvoiced = @ + less] /\ Charge(left, less)
  <2>1. PICK w \in Int : w = commitment[i].uninvoiced - reduced
    BY <1>1, AmountTypes
  <2>2. w = commitment[i].uninvoiced + less
    BY <1>1, <1>7, <2>1, AmountTypes
  <2>3. commitment' = [commitment EXCEPT ![i].uninvoiced = w]
    BY <1>4, <2>1
  <2>4. Charge(left, less)
    BY <1>4, <1>7
  <2> QED BY <2>2, <2>3, <2>4
<1>11. /\ ledger' \in [Invoices -> LedgerRow] /\ commitment' \in [Invoices -> CommitmentRow]
       /\ ledger'[i] = row
       /\ commitment'[i].uninvoiced = commitment[i].uninvoiced + less
       /\ \A j \in Invoices : commitment'[j].cancelled = commitment[j].cancelled
       /\ \A j \in Invoices \ {i} : ledger'[j] = ledger[j] /\ commitment'[j] = commitment[j]
  BY <1>1, <1>9, <1>10, InvoiceRowsChanged
<1>12. /\ balance' \in [Receipts -> BalanceRow]
       /\ \A r \in Receipts : /\ balance'[r].allocated = balance[r].allocated + took[r]
                              /\ Available(balance[r])' >= 0
                              /\ took[r] = 0 => balance'[r] = balance[r]
  BY <1>1, <1>4, <1>6, ReceiptsSpent DEF AccountsInv
<1>13. ASSUME NEW r \in Receipts
       PROVE  /\ applied'[r] \in [Invoices -> Nat]
              /\ applied'[r][i] = applied[r][i] + took[r]
              /\ \A j \in Invoices \ {i} : applied'[r][j] = applied[r][j]
              /\ RebuiltAllocated(r)' = RebuiltAllocated(r) + took[r]
  <2>1. PICK d \in Nat : d = took[r]
    BY <1>6
  <2>2. applied[r] \in [Invoices -> Nat]
    BY <1>1 DEF AccountRows
  <2>3. applied'[r] = [applied[r] EXCEPT ![i] = @ + d]
    BY <1>4, <2>1
  <2>4. /\ applied'[r] \in [Invoices -> Nat]
        /\ applied'[r][i] = applied[r][i] + d
        /\ \A j \in Invoices \ {i} : applied'[r][j] = applied[r][j]
    BY <2>2, <2>3
  <2>5. Total(applied'[r], Invoices) = Total(applied[r], Invoices) + d
    BY <2>2, <2>4, ApplicationRecorded
  <2> QED BY <2>1, <2>4, <2>5 DEF RebuiltAllocated
<1>14. applied' \in [Receipts -> [Invoices -> Nat]]
  BY <1>4, <1>13
<1>15. exposure' \in Sums
  BY <1>1, <1>10 DEF Charge, AccountRows, Sums
<1>16. AccountRows'
  BY <1>1, <1>5, <1>11, <1>12, <1>14, <1>15 DEF AccountRows
<1>17. ExposureReconciles'
  <2>1. ledger'[i].open = ledger[i].open + left /\ ExposureReconciles
    BY <1>8, <1>9, <1>11 DEF AccountsInv
  <2> QED BY <1>1, <1>5, <1>10, <1>11, <1>16, <2>1, Charged
<1>18. ASSUME NEW j \in Invoices PROVE LedgerTold(j)'
  <2>1. Credited(j)' = Credited(j)
    BY <1>5, CreditedKept
  <2>2. CASE j # i
    <3>1. Owed(j)' = Owed(j)
      BY <1>11, <2>2, OwedKept
    <3>2. \A r \in Receipts : applied'[r][j] = applied[r][j]
      BY <1>13, <2>2
    <3>3. Paid(j)' = Paid(j)
      BY <3>2, PaidKept
    <3> QED BY <1>11, <2>1, <2>2, <3>1, <3>3, LedgerKept
  <2>3. CASE j = i
    <3>1. Owed(i) = 0 /\ Owed(i)' = amount
      BY <1>2, <1>3, <1>9, <1>11 DEF Owed, InvoiceStatus, GrandTotal
    <3>2. Paid(i)' = Paid(i) + spent
      <4> DEFINE f == PaidOf(i)
                 g == PaidOf(i)'
      <4>1. \A r \in Receipts : f[r] \in Nat /\ g[r] = f[r] + took[r]
        BY <1>1, <1>13, AmountTypes DEF PaidOf
      <4> HIDE DEF f, g
      <4>2. Total(g, Receipts) = Total(f, Receipts) + Total(took, Receipts)
        BY <1>6, <4>1, TotalSum, AccountsAssumption
      <4> QED BY <1>7, <4>2 DEF Paid, f, g
    <3>3. /\ ledger[i].open = Owed(i) - Paid(i) - Credited(i)
          /\ Paid(i) \in Nat /\ Credited(i) \in Nat
      BY <1>1, AmountTypes DEF AccountsInv, LedgerTold
    <3>4. ledger'[i].open = Owed(i)' - Paid(i)' - Credited(i)'
      BY <1>7, <1>8, <1>9, <1>11, <2>1, <2>3, <3>1, <3>2, <3>3
    <3> QED BY <2>3, <3>4 DEF LedgerTold
  <2> QED BY <2>2, <2>3
<1>19. \A r \in Receipts : BalanceTold(r)'
  BY <1>12, <1>13 DEF AccountsInv, BalanceTold
<1>20. ASSUME NEW q \in Tasks \ {p}
       PROVE  /\ task[q].command \in {"post", "void"} =>
                   ledger'[task[q].invoice].types = ledger[task[q].invoice].types
              /\ task[q].command = "allocate" =>
                   balance'[task[q].receipt] = balance[task[q].receipt]
  <2>1. Sound(task[q])
    BY DEF AccountsInv
  <2>2. task[q].command = "post" => task[q].invoice # i
    BY <1>1, <1>2, SameKey DEF AccountsInv
  <2>3. task[q].command \in {"post", "void"} => task[q].invoice \in Invoices \ {i}
    BY <1>2, <2>1, <2>2 DEF Sound
  <2>4. ASSUME task[q].command = "allocate"
        PROVE  balance'[task[q].receipt] = balance[task[q].receipt]
    <3>1. task[q].receipt \in Receipts
      BY <2>1, <2>4 DEF Sound
    <3>2. ~ ReceiptFree(task[q].receipt)
      BY <2>4 DEF ReceiptFree, InProgress
    <3>3. took[task[q].receipt] = 0
      BY <1>4, <1>6, <3>1, <3>2
    <3> QED BY <1>12, <3>1, <3>3
  <2> QED BY <1>11, <2>3, <2>4
<1>21. Exclusive' /\ \A q \in Tasks : Sound(task[q])'
  BY <1>5, <1>20, OthersSound
<1> QED BY <1>16, <1>17, <1>18, <1>19, <1>21 DEF AccountsInv

-----------------------------------------------------------------------------
(* Rebuilds *)

(* A rebuild overlooks what was written after it read. *)
LEMMA FinishRebuildStep ==
  ASSUME AccountsInv, NEW p \in Tasks, FinishRebuild(p)
  PROVE  AccountsInv'
<1>1. Sound(task[p]) /\ task[p].command = "rebuild" /\ AccountRows
  BY DEF AccountsInv, FinishRebuild
<1>2. PICK open \in Int, uninvoiced \in Int :
        open = task[p].open /\ uninvoiced = task[p].uninvoiced
  BY <1>1 DEF Sound
<1>3. PICK l \in Int, e \in Int : l = LedgerOpen /\ e = EntriesUninvoiced
  <2> DEFINE f == [j \in Invoices |-> ledger[j].open]
             k == [j \in Invoices |-> commitment[j].uninvoiced]
  <2>1. \A j \in Invoices : f[j] \in Int /\ k[j] \in Int
    BY <1>1, AmountTypes
  <2>2. Net(f, Invoices) \in Int /\ Net(k, Invoices) \in Int
    <3> HIDE DEF f, k
    <3> QED BY <2>1, NetType, AccountsAssumption
  <2> QED BY <2>2 DEF LedgerOpen, EntriesUninvoiced
<1>4. /\ exposure' = [open |-> open, uninvoiced |-> uninvoiced]
      /\ drift' = [open |-> l - open, uninvoiced |-> e - uninvoiced]
      /\ Finished(p)
      /\ UNCHANGED <<commitment, ledger, applied, balance, note>>
  BY <1>2, <1>3 DEF FinishRebuild
<1>5. LedgerOpen' = l /\ EntriesUninvoiced' = e
  BY <1>3, <1>4 DEF LedgerOpen, EntriesUninvoiced
<1>6. AccountRows'
  BY <1>1, <1>4 DEF AccountRows, Sums
<1>7. ExposureReconciles'
  BY <1>4, <1>5 DEF ExposureReconciles
<1>8. \A i \in Invoices : LedgerTold(i)'
  BY <1>4, OwedKept, PaidKept, CreditedKept, LedgerKept
<1>9. \A r \in Receipts : BalanceTold(r)'
  BY <1>4, BalanceKept
<1>10. Exclusive' /\ \A q \in Tasks : Sound(task[q])'
  BY <1>4, OthersSound
<1> QED BY <1>6, <1>7, <1>8, <1>9, <1>10 DEF AccountsInv

-----------------------------------------------------------------------------
(* The theorems *)

(* The invariant holds of the accounts as they start. *)
LEMMA AccountsStart == ReceivablesInit => AccountsInv
<1> SUFFICES ASSUME ReceivablesInit PROVE AccountsInv
  OBVIOUS
<1>1. AccountRows
  <2>1. /\ commitment \in [Invoices -> CommitmentRow] /\ ledger \in [Invoices -> LedgerRow]
        /\ applied \in [Receipts -> [Invoices -> Nat]] /\ note \in [Notes -> NoteRow]
        /\ exposure \in Sums /\ drift \in Sums
    BY DEF ReceivablesInit, CommitmentRow, LedgerRow, NoteRow, Sums
  <2>2. balance \in [Receipts -> BalanceRow]
    <3>1. PICK i \in Invoices :
            balance \in [Receipts ->
              {[state |-> "cleared", allocated |-> 0, designated |-> d, collectedFor |-> c,
                coverFor |-> i] : d \in 0..Value, c \in {i, NoInvoice}}]
      BY DEF ReceivablesInit
    <3>2. \A d \in 0..Value, c \in {i, NoInvoice} :
            [state |-> "cleared", allocated |-> 0, designated |-> d, collectedFor |-> c,
             coverFor |-> i] \in BalanceRow
      BY AccountsAssumption DEF BalanceRow
    <3>3. ASSUME NEW r \in Receipts PROVE balance[r] \in BalanceRow
      <4>1. PICK d \in 0..Value, c \in {i, NoInvoice} :
              balance[r] = [state |-> "cleared", allocated |-> 0, designated |-> d,
                            collectedFor |-> c, coverFor |-> i]
        BY <3>1
      <4> QED BY <3>2, <4>1
    <3>4. balance = [r \in Receipts |-> balance[r]]
      BY <3>1
    <3> QED BY <3>3, <3>4
  <2>3. \A n \in Notes : note[n].status = "none"
    BY DEF ReceivablesInit
  <2> QED BY <2>1, <2>2, <2>3 DEF AccountRows
<1>2. Exclusive /\ \A p \in Tasks : Sound(task[p])
  BY DEF ReceivablesInit, Exclusive, Sound, NoTask
<1>3. ASSUME NEW i \in Invoices PROVE LedgerTold(i)
  <2>1. ledger[i].open = 0 /\ Owed(i) = 0
    BY DEF ReceivablesInit, Owed, InvoiceStatus
  <2>2. Paid(i) = 0
    <3>1. \A r \in Receipts : PaidOf(i)[r] = 0
      BY DEF ReceivablesInit, PaidOf
    <3> QED BY <3>1, TotalZero DEF Paid
  <2>3. Credited(i) = 0
    <3>1. PostedNotes(i) = {}
      BY DEF ReceivablesInit, PostedNotes
    <3> QED BY <3>1, TotalZero DEF Credited
  <2> QED BY <2>1, <2>2, <2>3 DEF LedgerTold
<1>4. ASSUME NEW r \in Receipts PROVE BalanceTold(r)
  <2>1. /\ balance[r].state = "cleared" /\ balance[r].allocated = 0
        /\ balance[r].designated \in 0..Value
    BY DEF ReceivablesInit
  <2>2. \A i \in Invoices : applied[r][i] = 0
    BY DEF ReceivablesInit
  <2>3. RebuiltAllocated(r) = 0
    BY <2>2, TotalZero DEF RebuiltAllocated
  <2> QED BY <2>1, <2>3, AccountsAssumption DEF BalanceTold, Available
<1>5. ExposureReconciles
  <2> DEFINE f == [j \in Invoices |-> ledger[j].open]
             k == [j \in Invoices |-> commitment[j].uninvoiced]
  <2>1. \A j \in Invoices : f[j] = 0 /\ k[j] = 0
    BY DEF ReceivablesInit
  <2> HIDE DEF f, k
  <2>2. Net(f, Invoices) = 0 /\ Net(k, Invoices) = 0
    BY <2>1, NetZero
  <2>3. exposure.open = 0 /\ exposure.uninvoiced = 0 /\ drift.open = 0 /\ drift.uninvoiced = 0
    BY DEF ReceivablesInit
  <2> QED BY <2>2, <2>3 DEF ExposureReconciles, LedgerOpen, EntriesUninvoiced, f, k
<1> QED BY <1>1, <1>2, <1>3, <1>4, <1>5 DEF AccountsInv

(* Every step keeps it, one lemma for each kind of step. *)
LEMMA AccountsStep == AccountsInv /\ [ReceivablesNext]_receivableVars => AccountsInv'
<1> SUFFICES ASSUME AccountsInv, [ReceivablesNext]_receivableVars PROVE AccountsInv'
  OBVIOUS
<1>1. CASE \E i \in Invoices : ApproveOrder(i) \/ Cancel(i) \/ Invalidate(i)
  BY <1>1, OrderStep
<1>2. CASE \E r \in Receipts : ReverseReceipt(r)
  BY <1>2, ReverseReceiptStep
<1>3. CASE \E n \in Notes : ReverseNote(n)
  BY <1>3, ReverseNoteStep
<1>4. ASSUME NEW p \in Tasks,
             \/ \E i \in Invoices : BeginPost(p, i) \/ BeginVoid(p, i)
             \/ \E i \in Invoices, r \in Receipts, a \in Amounts : BeginAllocate(p, r, i, a)
             \/ \E i \in Invoices, n \in Notes, a \in Amounts : BeginRequestNote(p, n, i, a)
             \/ \E n \in Notes : BeginPostNote(p, n)
             \/ BeginRebuild(p)
      PROVE  AccountsInv'
  BY <1>4, BeginStep
<1>5. ASSUME NEW p \in Tasks,
             \/ FinishPost(p) \/ FinishVoid(p) \/ FinishAllocate(p)
             \/ FinishRequestNote(p) \/ FinishPostNote(p) \/ FinishRebuild(p)
             \/ Fail(p)
      PROVE  AccountsInv'
  BY <1>5, FinishPostStep, FinishVoidStep, FinishAllocateStep, FinishRequestNoteStep,
     FinishPostNoteStep, FinishRebuildStep, AbortStep
<1>6. CASE UNCHANGED receivableVars
  <2>1. UNCHANGED <<commitment, ledger, applied, balance, note, exposure, drift, task>>
    BY <1>6 DEF receivableVars
  <2>2. Exclusive' /\ \A q \in Tasks : Sound(task[q])'
    BY <2>1, RequestsSound
  <2> QED BY <2>1, <2>2, DocumentsKept DEF AccountsInv
<1> QED BY <1>1, <1>2, <1>3, <1>4, <1>5, <1>6 DEF ReceivablesNext

(* So it always holds. *)
LEMMA AccountsAlways == ReceivablesSpec => []AccountsInv
BY AccountsStart, AccountsStep, PTL DEF ReceivablesSpec

(* The exposure that approvals are measured against is what the ledger and the
   approvals of the customer add up to, whatever runs at the same time, except
   for what a rebuild that read too early has overlooked
   (_update_credit_exposure and rebuild_commercial_projections). *)
THEOREM ExposureAlwaysReconciles == ReceivablesSpec => []ExposureReconciles
<1>1. AccountsInv => ExposureReconciles
  BY DEF AccountsInv
<1> QED BY <1>1, AccountsAlways, PTL

(* What is open of every invoice is its total less its payments and its credit
   notes, the balance of every receipt is the sum of its allocations, and no
   receipt is spent twice, however postings, allocations, voids and credit notes
   overlap. *)
THEOREM DocumentsAlwaysReconcile == ReceivablesSpec => []DocumentsReconcile
<1>1. AccountsInv => DocumentsReconcile
  BY DEF AccountsInv, DocumentsReconcile, LedgerTold, BalanceTold, Owed, Paid, PaidOf,
         Credited, PostedNotes, AmountOf
<1> QED BY <1>1, AccountsAlways, PTL
=============================================================================
