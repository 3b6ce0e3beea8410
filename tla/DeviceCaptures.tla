--------------------------- MODULE DeviceCaptures ---------------------------
(***************************************************************************)
(* Work captured on a device without a connection: proofs of delivery and  *)
(* return receipts, whose evidence is uploaded first, picks, and payment   *)
(* receipts.  Each has a store of captures and a queue in SQLite; a pass   *)
(* sends the queue in order under the idempotency key of each capture.     *)
(*                                                                         *)
(* The device has one kind here, for the four share nothing.  A request is *)
(* handled by one step, for it holds the locks of its key and its subject; *)
(* a retry waits behind the attempt it repeats, if that one is not lost.   *)
(***************************************************************************)
EXTENDS Integers, Sequences

CONSTANTS
  Subjects,      \* deliveries, return requests, fulfillment orders or sales orders
  MaxCaptures,   \* bound: captures made on the device
  MaxVersions    \* bound: versions made by others

VARIABLES
  kind,        \* what the device captures
  captures,    \* *_captures, payment_receipt_drafts: by sequence
  queue,       \* *_outbox: the sequence numbers of captures
  linking,     \* a replacement that is saved and not yet linked
  pass,        \* the running sync*
  wire,        \* the request under way, if there is one
  server,      \* version of each subject, and whether it takes this work
  executed,    \* platform_command_receipts: captures the server executed
  reversed     \* picks the server reversed

captureVars ==
  <<kind, captures, queue, linking, pass, wire, server, executed, reversed>>

-----------------------------------------------------------------------------
Kinds == {"delivery", "return", "pick", "receipt"}

WithEvidence == kind \in {"delivery", "return"}

Versioned == kind \in {"delivery", "pick"}

(* An executed capture adds one, and so does its reversal. *)
Versions == 1..(MaxVersions + 2 * MaxCaptures)

Idle == [at |-> "idle", items |-> {}]

CapturesInit ==
  /\ kind \in Kinds
  /\ captures = <<>> /\ queue = {} /\ linking = {}
  /\ pass = Idle /\ wire = {}
  /\ server = [s \in Subjects |-> [version |-> 1, open |-> TRUE, mine |-> TRUE]]
  /\ executed = {} /\ reversed = {}

-----------------------------------------------------------------------------
(* The user.  The version is the one the device last read. *)
Enqueue(earlier, subject, expected) ==
  /\ Len(earlier) < MaxCaptures
  /\ captures' = Append(earlier,
       [subject |-> subject, expected |-> expected, status |-> "pending",
        uploaded |-> ~WithEvidence, replacedBy |-> 0])
  /\ queue' = queue \cup {Len(earlier) + 1}

Capture(subject, expected) ==
  /\ expected <= server[subject].version
  /\ Enqueue(captures, subject, expected)
  /\ UNCHANGED <<kind, linking, pass, wire, server, executed, reversed>>

(* A reviewed conflict gets a new capture; the link is a second transaction. *)
Replace(old) ==
  /\ WithEvidence /\ linking = {}
  /\ captures[old].status = "conflict" /\ captures[old].replacedBy = 0
  /\ server[captures[old].subject].mine
  /\ Enqueue(captures, captures[old].subject, server[captures[old].subject].version)
  /\ linking' = {[old |-> old, new |-> Len(captures) + 1]}
  /\ UNCHANGED <<kind, pass, wire, server, executed, reversed>>

Link == \E link \in linking :
  /\ captures' = [captures EXCEPT ![link.old].replacedBy = link.new]
  /\ linking' = {}
  /\ UNCHANGED <<kind, queue, pass, wire, server, executed, reversed>>

-----------------------------------------------------------------------------
(* One pass over the queue as it was when the pass began, by sequence number,
   at any time: when a screen offers it, if one does, is left out. *)
First(items) == CHOOSE c \in items : \A d \in items : c <= d

Item == First(pass.items)

Row(status) == captures' = [captures EXCEPT ![Item].status = status]

StartSync ==
  /\ pass.at = "idle" /\ queue # {}
  /\ pass' = [at |-> "next", items |-> queue]
  /\ UNCHANGED <<kind, captures, queue, linking, wire, server, executed, reversed>>

(* The server takes evidence for open work of this user only. *)
TakesEvidence(subject) == server[subject].mine /\ server[subject].open

MarkUploaded ==
  captures' = [captures EXCEPT ![Item].uploaded = TRUE, ![Item].status = "pending"]

Upload ==
  /\ pass.at = "next" /\ ~captures[Item].uploaded
  /\ TakesEvidence(captures[Item].subject)
  /\ MarkUploaded
  /\ UNCHANGED <<kind, queue, linking, pass, wire, server, executed, reversed>>

Dequeue == queue' = queue \ {Item}

UploadForbidden ==
  /\ pass.at = "next" /\ ~captures[Item].uploaded
  /\ ~server[captures[Item].subject].mine
  /\ Row("forbidden") /\ Dequeue
  /\ pass' = Idle
  /\ UNCHANGED <<kind, linking, wire, server, executed, reversed>>

(* Any other failure keeps the item at the head of the queue. *)
UploadFails ==
  /\ pass.at = "next" /\ ~captures[Item].uploaded
  /\ Row("upload_failed")
  /\ pass' = Idle
  /\ UNCHANGED <<kind, queue, linking, wire, server, executed, reversed>>

Send ==
  /\ pass.at = "next" /\ captures[Item].uploaded
  /\ wire = {}
  /\ wire' = {Item}
  /\ pass' = [pass EXCEPT !.at = "sent"]
  /\ UNCHANGED <<kind, captures, queue, linking, server, executed, reversed>>

(* No answer, or one the device does not settle the capture by. *)
GiveUp ==
  /\ pass.at = "sent"
  /\ IF kind = "receipt" THEN Row("paused") ELSE UNCHANGED captures
  /\ pass' = Idle
  /\ UNCHANGED <<kind, queue, linking, wire, server, executed, reversed>>

Rest == IF pass.items = {Item} THEN Idle ELSE [at |-> "next", items |-> pass.items \ {Item}]

MarkSynced ==
  /\ pass.at = "done"
  /\ Row("done") /\ Dequeue
  /\ pass' = Rest
  /\ UNCHANGED <<kind, linking, wire, server, executed, reversed>>

(* A refused receipt stays in its queue. *)
MarkState ==
  /\ pass.at \in {"conflict", "forbidden"}
  /\ IF kind = "receipt" THEN Row("paused") /\ UNCHANGED queue ELSE Row(pass.at) /\ Dequeue
  /\ pass' = Idle
  /\ UNCHANGED <<kind, linking, wire, server, executed, reversed>>

(* The application stops: what SQLite holds remains. *)
Stop ==
  /\ pass.at # "idle" \/ linking # {}
  /\ pass' = Idle /\ linking' = {}
  /\ UNCHANGED <<kind, captures, queue, wire, server, executed, reversed>>

-----------------------------------------------------------------------------
NeverReplayed(c) == FALSE

(* The server. *)
Replayed(c) == c \in executed

Acceptable(c) == LET subject == server[captures[c].subject] IN
  subject.open /\ (Versioned => subject.version = captures[c].expected)

OutcomesOpen(subject) == {subject}

(* A delivery or a return request takes one outcome; a pick may be the last of
   its order; a receipt leaves the order as it is. *)
Outcomes(subject) ==
  CASE kind = "delivery" -> {[subject EXCEPT !.version = @ + 1, !.open = FALSE]}
    [] kind = "return" -> {[subject EXCEPT !.open = FALSE]}
    [] kind = "pick" -> {[subject EXCEPT !.version = @ + 1, !.open = o] : o \in BOOLEAN}
    [] kind = "receipt" -> {subject}

Answered(c, verdict) ==
  pass' = IF pass.at = "sent" /\ Item = c THEN [pass EXCEPT !.at = verdict] ELSE pass

Execute(c) ==
  /\ Acceptable(c)
  /\ executed' = executed \cup {c}
  /\ \E subject \in Outcomes(server[captures[c].subject]) :
       server' = [server EXCEPT ![captures[c].subject] = subject]
  /\ Answered(c, "done")

(* Of a delivery, a pick or a receipt the scope is checked before the replay. *)
Allowed(c) ==
  server[captures[c].subject].mine \/ (kind = "return" /\ Replayed(c))

(* A command is refused for other reasons too: a partition, evidence, stock. *)
Handle == \E c \in wire :
  /\ wire' = {}
  /\ \/ Allowed(c) /\ ~Replayed(c) /\ Execute(c)
     \/ \E verdict \in {"done", "conflict", "forbidden"} :
          /\ verdict = "done" <=> Allowed(c) /\ Replayed(c)
          /\ verdict = "forbidden" <=> ~Allowed(c)
          /\ Answered(c, verdict)
          /\ UNCHANGED <<server, executed>>
  /\ UNCHANGED <<kind, captures, queue, linking, reversed>>

Lose ==
  /\ wire # {}
  /\ wire' = {}
  /\ UNCHANGED <<kind, captures, queue, linking, pass, server, executed, reversed>>

(* A delivery is assigned to someone else, or back; the scope of the user is
   withdrawn, or given back. *)
Reassign(s) ==
  /\ kind # "delivery" \/ server[s].version < MaxVersions
  /\ server' = [server EXCEPT ![s].mine = ~@, ![s].version = IF kind = "delivery" THEN @ + 1 ELSE @]
  /\ UNCHANGED <<kind, captures, queue, linking, pass, wire, executed, reversed>>

(* Another user picks or receives the return; an order stops taking payments. *)
OthersAct(s) ==
  /\ kind # "delivery" /\ server[s].open
  /\ kind = "pick" => server[s].version < MaxVersions
  /\ \E subject \in IF kind = "receipt" THEN {[server[s] EXCEPT !.open = FALSE]} ELSE Outcomes(server[s]) :
       server' = [server EXCEPT ![s] = subject]
  /\ UNCHANGED <<kind, captures, queue, linking, pass, wire, executed, reversed>>

(* A synced pick is reversed on line, if nobody acted on its order since; the
   answer may be lost, and the command is repeated under the same key. *)
ReverseSyncedPick(c, heard) ==
  /\ kind = "pick" /\ captures[c].status = "done"
  /\ server[captures[c].subject].mine
  /\ \/ c \in reversed /\ UNCHANGED <<server, reversed>>
     \/ /\ c \notin reversed
        /\ server[captures[c].subject].version = captures[c].expected + 1
        /\ reversed' = reversed \cup {c}
        /\ server' = [server EXCEPT ![captures[c].subject].version = @ + 1,
                        ![captures[c].subject].open = TRUE]
  /\ captures' = IF heard THEN [captures EXCEPT ![c].status = "reversed"] ELSE captures
  /\ UNCHANGED <<kind, queue, linking, pass, wire, executed>>

-----------------------------------------------------------------------------
CapturesNext ==
  \/ \E s \in Subjects, v \in Versions : Capture(s, v)
  \/ \E c \in DOMAIN captures : Replace(c)
  \/ Link \/ StartSync \/ Upload \/ UploadForbidden \/ UploadFails \/ Send \/ GiveUp
  \/ MarkSynced \/ MarkState \/ Stop
  \/ Handle \/ Lose
  \/ \E s \in Subjects : Reassign(s) \/ OthersAct(s)
  \/ \E c \in DOMAIN captures, heard \in BOOLEAN : ReverseSyncedPick(c, heard)

CapturesSpec == CapturesInit /\ [][CapturesNext]_captureVars

-----------------------------------------------------------------------------
(* What the user is asked to capture again was not executed, and what the
   device shows as done was, whatever was lost on the way. *)
ConflictNotExecuted == \A c \in DOMAIN captures :
  /\ captures[c].status = "conflict" => c \notin executed
  /\ captures[c].status = "done" => c \in executed

(* Of the captures made for one delivery or return request, replacements
   included, at most one is executed. *)
OneProofPerSubject == WithEvidence => \A c, d \in executed :
  captures[c].subject = captures[d].subject => c = d
=============================================================================
