------------------------------- MODULE Outbox -------------------------------
(***************************************************************************)
(* The transactional outbox and its workers: the two cron jobs of          *)
(* worker.py that poll it and the handlers of                              *)
(* delivery_confirmation_outbox.py and notification_outbox.py.             *)
(*                                                                         *)
(* A job selects a batch and releases its row locks, then takes the events *)
(* one by one through three transactions: mark as processing; handle and   *)
(* mark as completed; or, after an exception, mark as failed.  Jobs        *)
(* overlap, stop anywhere and meet errors of the database or the object    *)
(* store.  Left out: attempts, error texts and times, which are written    *)
(* and never read; the deterministic keys and unique constraints, so that  *)
(* the locks alone have to keep work from being done twice.                *)
(***************************************************************************)
EXTENDS Naturals, FiniteSets

CONSTANTS
  Events,       \* number of outbox events, in the order of occurred_at
  Confirmed,    \* those of type delivery.confirmed.v1, the others are corrections
  Documented,   \* those that have a delivery receipt to render
  Unreachable,  \* those whose recipient may not be notified
  Jobs,         \* job slots of the workers
  Limit,        \* batch size of a poll
  MaxFaults     \* crashes and errors, a bound of the model

Event == 1..Events

ASSUME OutboxAssumption ==
  /\ Events \in Nat /\ Limit \in Nat \ {0} /\ MaxFaults \in Nat
  /\ Confirmed \subseteq Documented /\ Documented \subseteq Event
  /\ Unreachable \subseteq Event

VARIABLES
  emitted,    \* outbox_events: 1..emitted
  status,     \* outbox_processing_state.status
  available,  \* outbox_processing_state.available_at <= now()
  receipts,   \* outbox_handler_receipts
  document,   \* delivery_receipt_documents.status
  job,        \* the running jobs
  faults

vars == <<emitted, status, available, receipts, document, job, faults>>

-----------------------------------------------------------------------------
Poller == {"delivery", "notification"}

(* The two delivery handlers run in one transaction. *)
HandlersOf(w) == IF w = "delivery" THEN {"finance", "documents"} ELSE {"notifications"}

Handler == HandlersOf("delivery") \cup HandlersOf("notification")

Owed(w, e) == HandlersOf(w) \ receipts[e]

Idle == [poller |-> "none", batch |-> {}, step |-> "idle", owes |-> {}]

Least(S) == CHOOSE e \in S : \A x \in S : e <= x

(* The event a job is at. *)
At(j) == Least(job[j].batch)

(* The job goes on with the next event of its batch, or ends. *)
Advanced(j) ==
  LET rest == job[j].batch \ {At(j)}
  IN  IF rest = {} THEN Idle
      ELSE [poller |-> job[j].poller, batch |-> rest, step |-> "claim", owes |-> {}]

(* A delivery handler keeps its event FOR UPDATE until its transaction ends. *)
Locked(e) ==
  \E j \in Jobs : job[j].step = "commit" /\ job[j].poller = "delivery" /\ At(j) = e

OutboxInit ==
  /\ emitted = 0
  /\ status = [e \in Event |-> "pending"]
  /\ available = [e \in Event |-> TRUE]
  /\ receipts = [e \in Event |-> {}]
  /\ document = [e \in Event |-> IF e \in Documented THEN "pending_document" ELSE "none"]
  /\ job = [j \in Jobs |-> Idle]
  /\ faults = 0

-----------------------------------------------------------------------------
(* A delivery is confirmed or corrected: the event, its processing state and
   the pending document are written in the transaction of the command. *)
Emit ==
  /\ emitted < Events
  /\ emitted' = emitted + 1
  /\ UNCHANGED <<status, available, receipts, document, job, faults>>

(* A failed event waits for a minute. *)
Elapse(e) ==
  /\ ~available[e]
  /\ available' = [available EXCEPT ![e] = TRUE]
  /\ UNCHANGED <<emitted, status, receipts, document, job, faults>>

EligiblePending(w) == {e \in 1..emitted : available[e] /\ status[e] = "pending" /\ ~Locked(e)}

(* What a poll may select: the status does not matter, rows that are locked
   are skipped. *)
Eligible(w) == {e \in 1..emitted : available[e] /\ Owed(w, e) # {} /\ ~Locked(e)}

First(S) == {e \in S : Cardinality({x \in S : x < e}) < Limit}

(* poll_delivery_confirmation_outbox and poll_notification_outbox, the select. *)
Poll(j, w) ==
  /\ job[j].step = "idle"
  /\ Eligible(w) # {}
  /\ job' = [job EXCEPT ![j] =
       [poller |-> w, batch |-> First(Eligible(w)), step |-> "claim", owes |-> {}]]
  /\ UNCHANGED <<emitted, status, available, receipts, document, faults>>

(* The first transaction of an event. *)
Claim(j) ==
  /\ job[j].step = "claim"
  /\ status' = [status EXCEPT ![At(j)] = "processing"]
  /\ job' = [job EXCEPT ![j].step = "handle"]
  /\ UNCHANGED <<emitted, available, receipts, document, faults>>

MayBeginUnlocked(j) == TRUE

(* The event row is free for a delivery handler; the notification handler
   reads it without lock. *)
MayBegin(j) == job[j].poller = "delivery" => ~Locked(At(j))

(* The second transaction begins: the handlers read which receipts exist. *)
Begin(j) ==
  /\ job[j].step = "handle"
  /\ MayBegin(j)
  /\ job' = [job EXCEPT ![j].step = "commit", ![j].owes = Owed(job[j].poller, At(j))]
  /\ UNCHANGED <<emitted, status, available, receipts, document, faults>>

(* A notification is refused for want of access; its receipt references the
   event and waits for the lock of a delivery handler. *)
MayCommit(j) ==
  job[j].poller = "notification" /\ job[j].owes # {} =>
    At(j) \notin Unreachable /\ ~Locked(At(j))

RenderedAlways(e) == "ready"

Rendered(e) == IF e \in Documented THEN "ready" ELSE "none"

(* It ends with the work and its receipts, and the status. *)
Commit(j) ==
  LET e == At(j)
  IN  /\ job[j].step = "commit"
      /\ MayCommit(j)
      /\ receipts' = [receipts EXCEPT ![e] = @ \cup job[j].owes]
      /\ document' = IF "documents" \in job[j].owes
                     THEN [document EXCEPT ![e] = Rendered(e)] ELSE document
      /\ status' = [status EXCEPT ![e] = "completed"]
      /\ job' = [job EXCEPT ![j] = Advanced(j)]
      /\ UNCHANGED <<emitted, available, faults>>

(* The recipient of a notification is not authorized. *)
Refuse(j) ==
  /\ job[j].step = "commit"
  /\ job[j].poller = "notification" /\ job[j].owes # {} /\ At(j) \in Unreachable
  /\ job' = [job EXCEPT ![j].step = "fail"]
  /\ UNCHANGED <<emitted, status, available, receipts, document, faults>>

(* The object store or the database refuses: the second transaction rolls back. *)
Raise(j) ==
  /\ faults < MaxFaults
  /\ job[j].step = "commit"
  /\ job' = [job EXCEPT ![j].step = "fail"]
  /\ faults' = faults + 1
  /\ UNCHANGED <<emitted, status, available, receipts, document>>

(* The third transaction, after an exception.  The payload names a receipt
   under the key it looks for only in confirmation events. *)
Fail(j) ==
  LET e == At(j)
  IN  /\ job[j].step = "fail"
      /\ document' = IF job[j].poller = "delivery" /\ e \in Confirmed
                     THEN [document EXCEPT ![e] = "unavailable"] ELSE document
      /\ status' = [status EXCEPT ![e] = "failed"]
      /\ available' = [available EXCEPT ![e] = FALSE]
      /\ job' = [job EXCEPT ![j] = Advanced(j)]
      /\ UNCHANGED <<emitted, receipts, faults>>

(* The worker stops or the job runs into job_timeout: no exception handler
   runs, the open transaction rolls back. *)
Crash(j) ==
  /\ faults < MaxFaults
  /\ job[j].step # "idle"
  /\ job' = [job EXCEPT ![j] = Idle]
  /\ faults' = faults + 1
  /\ UNCHANGED <<emitted, status, available, receipts, document>>

Proceed(j) == Claim(j) \/ Begin(j) \/ Commit(j) \/ Refuse(j) \/ Fail(j)

OutboxNext ==
  \/ Emit
  \/ \E e \in Event : Elapse(e)
  \/ \E j \in Jobs :
       \/ \E w \in Poller : Poll(j, w)
       \/ Claim(j) \/ Begin(j) \/ Commit(j) \/ Refuse(j) \/ Raise(j) \/ Fail(j) \/ Crash(j)

(* Time passes and a running job goes on.  The polls have no common order with
   the minute a failed event waits: an event that is ever again available when
   a poll is due is polled. *)
Fairness ==
  /\ \A e \in Event : WF_vars(Elapse(e))
  /\ \A j \in Jobs : WF_vars(Proceed(j))
  /\ \A w \in Poller, e \in Event :
       SF_vars(\E j \in Jobs : e \in First(Eligible(w)) /\ Poll(j, w))

OutboxSafety == OutboxInit /\ [][OutboxNext]_vars
OutboxSpec == OutboxSafety /\ Fairness

-----------------------------------------------------------------------------
Statuses == {"pending", "processing", "completed", "failed"}
DocumentStatuses == {"pending_document", "ready", "unavailable"}
JobStates ==
  [poller : {"delivery", "notification"}, batch : (SUBSET Event) \ {{}},
   step : {"claim", "handle", "commit", "fail"}, owes : SUBSET Handler]

(* Rows and jobs keep their shape; only events with a receipt to render have a
   document. *)
OutboxTypeOK ==
  /\ emitted \in 0..Events
  /\ status \in [Event -> Statuses]
  /\ available \in [Event -> BOOLEAN]
  /\ receipts \in [Event -> SUBSET Handler]
  /\ document \in [Event -> DocumentStatuses \cup {"none"}]
  /\ \A e \in Event : document[e] = "none" <=> e \notin Documented
  /\ job \in [Jobs -> JobStates \cup {Idle}]
  /\ faults \in 0..MaxFaults

(* Jobs that overlap on an event never do its delivery work twice: when a
   handler inserts its draft invoices and receipts, none of them exists, so
   that the unique constraints behind them never have to raise. *)
InsertsNeverCollide ==
  \A j \in Jobs :
    job[j].step = "commit" /\ job[j].poller = "delivery" =>
      job[j].owes \cap receipts[At(j)] = {}

(* Every event is handled once by each kind of work and, with finitely many
   crashes and errors and a recipient who may be notified, in the end; a
   notification that is refused for ever, although it shares the waiting time
   of the event, does not keep the invoice and the receipt from being made. *)
Handling == INSTANCE EventHandling
  WITH Work <- Poller, Refused <- Unreachable \X {"notification"},
       done <- {p \in Event \X Poller : Owed(p[2], p[1]) = {}}

HandlesEvents == Handling!HandlingSpec

=============================================================================
