---------------------------- MODULE OfficeProofs ----------------------------
(***************************************************************************)
(* What holds of the work done off line, whatever the connection loses and *)
(* the office does meanwhile: of SalesDrafts for any number of edits, keys *)
(* and revisions, and of DeviceCaptures for any number of subjects and     *)
(* captures.                                                               *)
(***************************************************************************)
EXTENDS MCOffice, FiniteSetTheorems, SequenceTheorems, WellFoundedInduction, TLAPS

-----------------------------------------------------------------------------
(* Sales drafts: the inductive invariant *)

Command == [edit : Nat, reference : Nat]

RequestRow == [sequence : Nat, command : Command, expected : Nat, attempted : BOOLEAN]

PassRow == [at : {"idle", "next", "sent", "saved", "conflict"},
            items : SUBSET RequestRow, answer : Nat]

DraftRow == [status : {"none", "pending", "synced", "conflict"}, command : Command,
             expected : Nat, saved : [version : Nat, edit : Nat]]

DraftRows ==
  /\ draft \in DraftRow
  /\ outbox \subseteq RequestRow /\ wire \subseteq RequestRow
  /\ pass \in PassRow
  /\ saving \subseteq [command : Command, expected : Nat]
  /\ keys \in Nat /\ reference \in Nat /\ shown \in Nat
  /\ order \in Seq(Nat)
  /\ DOMAIN receipts \subseteq 1..keys
  /\ \A k \in DOMAIN receipts : receipts[k] \in DOMAIN order

InOrder(edit) == \E v \in DOMAIN order : order[v] = edit

(* The server refused the request, or will: what it refers to or expects is past. *)
Dead(request) == ~Replayed(request) /\ ~Acceptable(request)

(* Every request the device or the network holds. *)
Requests == outbox \cup wire \cup pass.items

(* A key stands for one command. *)
SameKeySame ==
  \A r, q \in Requests : r.sequence = q.sequence =>
    r.command = q.command /\ r.expected = q.expected

(* A request refers to the past or the present, and a receipt to a revision with
   its edit. *)
Sound(r) ==
  /\ 0 < r.sequence /\ r.sequence <= keys /\ r.expected <= Len(order)
  /\ r.command.reference <= reference
  /\ r.command.edit <= draft.command.edit
  /\ Replayed(r) => order[receipts[r.sequence]] = r.command.edit

KeysStand ==
  /\ SameKeySame
  /\ \A r \in Requests : Sound(r)
  /\ \A v \in DOMAIN order : order[v] <= draft.command.edit
  /\ keys > 0 => draft.command.edit > 0
  /\ draft.saved.version <= Len(order) /\ draft.command.reference <= reference
  /\ shown <= reference
  /\ \A save \in saving :
       /\ save.command.edit = draft.command.edit + 1 /\ save.command.reference <= reference
       /\ save.expected <= Len(order)

(* Only the first item of the outbox was attempted, and the last one holds the
   draft. *)
OutboxStands ==
  /\ \A x, y \in outbox : x.sequence = y.sequence => x = y
  /\ \A x, y \in outbox : x.attempted => x.sequence <= y.sequence
  /\ \A x \in outbox : ~x.attempted =>
       ~Replayed(x) /\ \A r \in wire : r.sequence # x.sequence
  /\ outbox # {} => \E x \in outbox : x.sequence = keys /\ x.command = draft.command
  /\ \A x \in outbox : x.sequence # keys => x.command.edit < draft.command.edit
  /\ outbox = {} /\ keys > 0 => keys \in DOMAIN receipts

(* The pass goes through the outbox in order. *)
PassStands ==
  /\ pass.at = "idle" => pass.items = {}
  /\ pass.at # "idle" =>
       /\ pass.items # {}
       /\ \A x, y \in pass.items : x.sequence = y.sequence => x = y
       /\ \A x \in outbox :
            \/ \E y \in pass.items : y.sequence = x.sequence
            \/ \A y \in pass.items : y.sequence < x.sequence
       /\ \A x \in outbox : x.attempted => x.sequence = Item.sequence
  /\ pass.at \in {"sent", "saved", "conflict"} =>
       \A x \in outbox : x.sequence = Item.sequence => x.attempted
  /\ pass.at = "saved" => Replayed(Item) /\ pass.answer = receipts[Item.sequence]
  /\ pass.at = "conflict" => Dead(Item)

(* What may still be sent: a pass goes no further than what is refused. *)
Sendable(r) == r \in wire \/ (r \in pass.items /\ ~Dead(Item))

(* An edit that was replaced, or is sent again under a new key, is refused under
   the old one; what is not yet refused or saved is not in the order. *)
EditsStand ==
  /\ \A r \in Requests : Sendable(r) /\ r.sequence # keys /\ r.command.edit = draft.command.edit =>
       Replayed(r) \/ Dead(r)
  /\ \A r \in Requests : (Sendable(r) \/ r \in outbox) /\ Acceptable(r) /\ ~Replayed(r) =>
       ~InOrder(r.command.edit)
  /\ keys > 0 /\ keys \notin DOMAIN receipts => ~InOrder(draft.command.edit)
  /\ draft.status = "conflict" => \E x \in outbox : x.attempted /\ Dead(x)

SavedStands ==
  draft.status = "synced" /\ outbox = {} => draft.saved.version \in DOMAIN order

DraftsInv ==
  /\ DraftRows /\ KeysStand /\ OutboxStands /\ PassStands /\ EditsStand
  /\ SavedStands /\ SyncedIsSaved /\ EditAppliedOnce

-----------------------------------------------------------------------------
(* Captures: the inductive invariant *)

Open == {"pending", "upload_failed", "paused"}

CaptureRow ==
  [subject : Subjects, expected : Nat \cup C!Versions, uploaded : BOOLEAN,
   replacedBy : Nat, status : Open \cup {"forbidden", "conflict", "done", "reversed"}]

ServerRow == [version : Nat, open : BOOLEAN, mine : BOOLEAN]

CaptureRows ==
  /\ kind \in C!Kinds
  /\ captures \in Seq(CaptureRow)
  /\ queue \subseteq DOMAIN captures /\ executed \subseteq DOMAIN captures
  /\ \A link \in linking : link.old \in DOMAIN captures /\ link.new \in Nat
  /\ server \in [Subjects -> ServerRow]

(* What is queued is open; at most one request is under way, and it is queued. *)
QueueStands ==
  /\ \A c \in queue : captures[c].status \in Open
  /\ underWay \subseteq queue
  /\ \A c \in underWay : captures[c].uploaded
  /\ \A c, d \in underWay : c = d

(* The pass is at the first of its items; it has the answer once nothing is under
   way any more. *)
SendingStands ==
  /\ capturePass \in
       [at : {"idle", "next", "sent", "done", "conflict", "forbidden"}, items : SUBSET queue]
  /\ capturePass.at # "idle" => capturePass.items # {}
  /\ capturePass.at = "sent" => underWay \subseteq {C!Item}
  /\ capturePass.at \in {"done", "conflict", "forbidden"} => underWay = {}
  /\ capturePass.at = "done" => C!Item \in executed
  /\ capturePass.at = "conflict" => C!Item \notin executed

(* A delivery or return request that took an outcome takes no other. *)
SubjectsStand ==
  C!WithEvidence => \A c \in executed : ~server[captures[c].subject].open

CapturesInv ==
  /\ CaptureRows /\ QueueStands /\ SendingStands /\ SubjectsStand
  /\ C!ConflictNotExecuted /\ C!OneProofPerSubject

-----------------------------------------------------------------------------
(* Helpers *)

(* A set of sequence numbers that is not empty has a least one. *)
LEMMA LeastExists ==
  ASSUME NEW S \in SUBSET Nat, S # {}
  PROVE  \E x \in S : \A y \in S : x <= y
<1>1. PICK n \in S : TRUE
  OBVIOUS
<1> DEFINE T == {x \in S : x <= n}
           Upto(x) == {y \in T : y <= x}
           Order == StrictSubsetOrdering(T)
           Prefixes == {Upto(x) : x \in T}
<1>2. IsFiniteSet(T)
  <2>1. n \in Int /\ 0 \in Int
    BY <1>1
  <2>2. IsFiniteSet(0..n)
    BY <2>1, FS_Interval
  <2>3. ASSUME NEW x \in T
        PROVE  x \in 0..n
    <3>1. x \in Nat /\ n \in Nat /\ x <= n
      OBVIOUS
    <3> QED BY <3>1
  <2>4. T \subseteq 0..n
    BY <2>3
  <2> QED BY <2>2, <2>4, FS_Subset
<1>3. IsWellFoundedOn(Order, SUBSET T)
  BY <1>2, FS_FiniteSubsetsOfFinite, FS_StrictSubsetOrderingWellFounded
<1>4. Prefixes \subseteq SUBSET T /\ Prefixes # {}
  <2>1. n \in T
    BY <1>1
  <2> QED BY <2>1
<1>5. PICK U \in Prefixes : \A V \in Prefixes : <<V, U>> \notin Order
  <2> HIDE DEF Order, Prefixes, T
  <2> QED BY <1>3, <1>4, WFMin
<1>6. PICK e \in T : U = Upto(e)
  OBVIOUS
<1>7. \A y \in T : e <= y
  <2> SUFFICES ASSUME NEW y \in T, y < e
               PROVE  FALSE
    OBVIOUS
  <2>1. y \in Nat /\ e \in Nat /\ \A z \in T : z \in Nat
    BY <1>1
  <2>2. Upto(y) \subseteq Upto(e) /\ e \in Upto(e) /\ e \notin Upto(y)
    <3>1. ASSUME NEW z \in T, z <= y
          PROVE  z <= e
      BY <2>1, <3>1
    <3>2. e <= e /\ ~(e <= y)
      BY <2>1
    <3> QED BY <3>1, <3>2
  <2>3. <<Upto(y), Upto(e)>> \in Order
    <3>1. Upto(y) \in SUBSET T /\ Upto(e) \in SUBSET T /\ Upto(y) # Upto(e)
      BY <2>2
    <3> QED BY <2>2, <3>1 DEF StrictSubsetOrdering
  <2> QED BY <1>5, <1>6, <2>3
<1>8. \A y \in S : e <= y
  BY <1>1, <1>7
<1> QED BY <1>8

-----------------------------------------------------------------------------
(* Captures: the steps *)

(* The sequence numbers are natural. *)
LEMMA CaptureNumbers ==
  ASSUME CaptureRows
  PROVE  /\ DOMAIN captures \subseteq Nat /\ Len(captures) \in Nat
         /\ DOMAIN captures = 1..Len(captures)
         /\ \A c \in DOMAIN captures : captures[c] \in CaptureRow
BY ElementOfSeq DEF CaptureRows

LEMMA FirstIsIn ==
  ASSUME NEW S \in SUBSET Nat, S # {}
  PROVE  C!First(S) \in S
BY LeastExists DEF C!First

(* A running pass is at an item of the queue. *)
LEMMA ItemIsQueued ==
  ASSUME CapturesInv, capturePass.at # "idle"
  PROVE  /\ C!Item \in capturePass.items /\ C!Item \in queue
         /\ C!Item \in DOMAIN captures /\ captures[C!Item] \in CaptureRow
         /\ captures[C!Item].status \in Open
<1>1. capturePass.items \in SUBSET queue /\ capturePass.items # {}
  BY DEF CapturesInv, SendingStands
<1>2. capturePass.items \in SUBSET Nat
  BY <1>1, CaptureNumbers DEF CapturesInv, CaptureRows
<1>3. C!Item \in capturePass.items
  BY <1>1, <1>2, FirstIsIn DEF C!Item
<1> QED BY <1>1, <1>3, CaptureNumbers DEF CapturesInv, CaptureRows, QueueStands

(* Everything but what is said of the pass. *)
Standing ==
  CaptureRows /\ QueueStands /\ SubjectsStand /\ C!ConflictNotExecuted /\ C!OneProofPerSubject

(* One row of the captures changes, and the queue loses no more than it. *)
LEMMA RowKeeps ==
  ASSUME CapturesInv, NEW i \in DOMAIN captures, NEW row \in CaptureRow,
         captures' = [captures EXCEPT ![i] = row], row.subject = captures[i].subject,
         queue' \subseteq queue, queue \ {i} \subseteq queue',
         i \in queue' => row.status \in Open,
         i \in underWay => i \in queue' /\ row.uploaded,
         row.status = "conflict" => i \notin executed,
         row.status = "done" => i \in executed,
         linking' \subseteq linking, UNCHANGED <<kind, underWay, executed>>,
         server' \in [Subjects -> ServerRow],
         C!WithEvidence => server' = server
  PROVE  Standing'
<1>1. captures \in Seq(CaptureRow) /\ i \in 1..Len(captures)
  BY CaptureNumbers DEF CapturesInv, CaptureRows
<1>2. /\ captures' \in Seq(CaptureRow) /\ DOMAIN captures' = DOMAIN captures
      /\ captures'[i] = row
      /\ \A c \in DOMAIN captures : c # i => captures'[c] = captures[c]
  <2>1. captures' \in Seq(CaptureRow)
    BY <1>1, ExceptSeq
  <2> QED BY <1>1, <2>1
<1>3. CaptureRows'
  BY <1>2 DEF CapturesInv, CaptureRows, C!Kinds
<1>4. QueueStands'
  BY <1>2 DEF CapturesInv, CaptureRows, QueueStands
<1>5. \A c \in DOMAIN captures : captures'[c].subject = captures[c].subject
  BY <1>2
<1>6. SubjectsStand'
  BY <1>5 DEF CapturesInv, CaptureRows, SubjectsStand, C!WithEvidence
<1>7. C!ConflictNotExecuted'
  BY <1>2 DEF CapturesInv, C!ConflictNotExecuted
<1>8. C!OneProofPerSubject'
  BY <1>5 DEF CapturesInv, CaptureRows, C!OneProofPerSubject, C!WithEvidence
<1> QED BY <1>3, <1>4, <1>6, <1>7, <1>8 DEF Standing

(* What others do, or a request that is sent or lost. *)
LEMMA ServerKeeps ==
  ASSUME CapturesInv, UNCHANGED <<kind, captures, queue, executed>>,
         linking' \subseteq linking,
         underWay' \subseteq queue, \A c, d \in underWay' : c = d,
         \A c \in underWay' : captures[c].uploaded,
         server' \in [Subjects -> ServerRow],
         C!WithEvidence => \A s \in Subjects : server'[s].open => server[s].open
  PROVE  Standing'
<1>1. CaptureRows'
  BY DEF CapturesInv, CaptureRows, C!Kinds, ServerRow
<1>2. QueueStands'
  BY DEF CapturesInv, QueueStands
<1>3. SubjectsStand'
  <2> SUFFICES ASSUME C!WithEvidence, NEW c \in executed
               PROVE  ~server'[captures[c].subject].open
    BY DEF SubjectsStand, C!WithEvidence
  <2>1. captures[c].subject \in Subjects
    BY CaptureNumbers DEF CapturesInv, CaptureRows, CaptureRow
  <2> QED BY <2>1 DEF CapturesInv, SubjectsStand
<1>4. C!ConflictNotExecuted' /\ C!OneProofPerSubject'
  BY DEF CapturesInv, C!ConflictNotExecuted, C!OneProofPerSubject, C!WithEvidence
<1> QED BY <1>1, <1>2, <1>3, <1>4 DEF Standing

(* A new capture is queued, and nothing else happens to the others. *)
LEMMA EnqueueKeeps ==
  ASSUME CapturesInv, NEW subject \in Subjects, NEW expected \in Nat \cup C!Versions,
         C!Enqueue(captures, subject, expected),
         linking' \subseteq linking \cup {[old |-> o, new |-> Len(captures) + 1] : o \in DOMAIN captures},
         UNCHANGED <<kind, underWay, server, executed>>
  PROVE  /\ Standing'
         /\ queue \subseteq queue'
<1> DEFINE row == [subject |-> subject, expected |-> expected, status |-> "pending",
                   uploaded |-> ~C!WithEvidence, replacedBy |-> 0]
           n == Len(captures) + 1
<1>1. row \in CaptureRow
  BY DEF CaptureRow, Open, C!WithEvidence
<1>2. captures \in Seq(CaptureRow) /\ DOMAIN captures = 1..Len(captures) /\ Len(captures) \in Nat
  BY CaptureNumbers DEF CapturesInv, CaptureRows
<1>3. captures' = Append(captures, row) /\ queue' = queue \cup {n}
  BY DEF C!Enqueue
<1>4. /\ captures' \in Seq(CaptureRow) /\ DOMAIN captures' = 1..n
      /\ captures'[n] = row
      /\ \A c \in DOMAIN captures : captures'[c] = captures[c] /\ c \in DOMAIN captures'
  <2> HIDE DEF row
  <2>1. /\ captures' \in Seq(CaptureRow) /\ Len(captures') = n
        /\ \A c \in 1..Len(captures) : captures'[c] = captures[c]
        /\ captures'[Len(captures) + 1] = row
    BY <1>1, <1>2, <1>3, AppendProperties
  <2> QED BY <1>2, <2>1
<1>5. queue \subseteq DOMAIN captures /\ executed \subseteq DOMAIN captures /\ n \notin DOMAIN captures
  BY <1>2 DEF CapturesInv, CaptureRows
<1>6. CaptureRows'
  <2>1. ASSUME NEW link \in linking'
        PROVE  link.old \in DOMAIN captures' /\ link.new \in Nat
    BY <1>2, <1>4 DEF CapturesInv, CaptureRows
  <2>2. queue' \subseteq DOMAIN captures' /\ executed' \subseteq DOMAIN captures'
    BY <1>2, <1>3, <1>4, <1>5
  <2> QED BY <1>4, <2>1, <2>2 DEF CapturesInv, CaptureRows, C!Kinds
<1>7. QueueStands'
  <2>1. ASSUME NEW c \in queue'
        PROVE  captures'[c].status \in Open
    BY <1>3, <1>4, <1>5 DEF CapturesInv, QueueStands, Open
  <2>2. ASSUME NEW c \in underWay'
        PROVE  captures'[c].uploaded
    BY <1>4, <1>5 DEF CapturesInv, QueueStands
  <2> QED BY <1>3, <2>1, <2>2 DEF CapturesInv, QueueStands
<1>8. SubjectsStand'
  BY <1>4, <1>5 DEF CapturesInv, SubjectsStand, C!WithEvidence
<1>9. C!ConflictNotExecuted'
  <2> SUFFICES ASSUME NEW c \in DOMAIN captures'
               PROVE  /\ captures'[c].status = "conflict" => c \notin executed
                      /\ captures'[c].status = "done" => c \in executed
    BY DEF C!ConflictNotExecuted
  <2>1. c \in DOMAIN captures \/ c = n
    BY <1>2, <1>4
  <2> QED BY <1>4, <2>1 DEF CapturesInv, C!ConflictNotExecuted
<1>10. C!OneProofPerSubject'
  BY <1>4, <1>5 DEF CapturesInv, C!OneProofPerSubject, C!WithEvidence
<1> QED BY <1>3, <1>6, <1>7, <1>8, <1>9, <1>10 DEF Standing

LEMMA OutcomeTyped ==
  ASSUME NEW subject \in ServerRow, NEW o \in BOOLEAN
  PROVE  [subject EXCEPT !.version = subject.version + 1, !.open = o] \in ServerRow
<1> DEFINE one == [subject EXCEPT !.version = subject.version + 1]
<1>1. one \in ServerRow
  BY DEF ServerRow
<1>2. [one EXCEPT !.open = o] \in ServerRow
  <2> HIDE DEF one
  <2> QED BY <1>1 DEF ServerRow
<1> QED BY <1>2

(* What an outcome leaves of a subject. *)
LEMMA OutcomeCloses ==
  ASSUME kind \in C!Kinds, NEW subject \in ServerRow, NEW after \in C!Outcomes(subject)
  PROVE  after \in ServerRow /\ (C!WithEvidence => ~after.open)
<1>1. CASE kind = "delivery"
  <2>1. after = [subject EXCEPT !.version = subject.version + 1, !.open = FALSE]
    BY <1>1 DEF C!Outcomes
  <2>2. after \in ServerRow
    BY <2>1, OutcomeTyped
  <2>3. ~after.open
    BY <2>1 DEF ServerRow
  <2> QED BY <2>2, <2>3
<1>2. CASE kind = "return"
  BY <1>2 DEF C!Outcomes, ServerRow
<1>3. CASE kind = "pick"
  <2>1. PICK o \in BOOLEAN : after = [subject EXCEPT !.version = subject.version + 1, !.open = o]
    BY <1>3 DEF C!Outcomes
  <2>2. after \in ServerRow
    BY <2>1, OutcomeTyped
  <2> QED BY <1>3, <2>2 DEF C!WithEvidence
<1>4. CASE kind = "receipt"
  BY <1>4 DEF C!Outcomes, ServerRow, C!WithEvidence
<1> QED BY <1>1, <1>2, <1>3, <1>4 DEF C!Kinds

(* The server executes a request: its subject was open, so that no capture of it
   was executed before, and is not open any more. *)
LEMMA ExecuteKeeps ==
  ASSUME CapturesInv, NEW c \in underWay, ~C!Replayed(c), C!Execute(c), underWay' = {},
         UNCHANGED <<kind, captures, queue, linking>>
  PROVE  Standing'
<1> DEFINE s == captures[c].subject
<1>1. c \in queue /\ c \in DOMAIN captures /\ s \in Subjects /\ captures[c].status \in Open
  BY CaptureNumbers DEF CapturesInv, QueueStands, CaptureRows, CaptureRow
<1>2. executed' = executed \cup {c} /\ server[s].open
  BY DEF C!Execute, C!Acceptable
<1>3. PICK after \in C!Outcomes(server[s]) : server' = [server EXCEPT ![s] = after]
  BY DEF C!Execute
<1>4. server \in [Subjects -> ServerRow] /\ kind \in C!Kinds
  BY DEF CapturesInv, CaptureRows, ServerRow
<1>5. after \in ServerRow /\ (C!WithEvidence => ~after.open)
  BY <1>1, <1>3, <1>4, OutcomeCloses
<1>6. server' \in [Subjects -> ServerRow]
  BY <1>1, <1>3, <1>4, <1>5
<1>7. CaptureRows'
  BY <1>1, <1>2, <1>6 DEF CapturesInv, CaptureRows, C!Kinds, ServerRow
<1>8. QueueStands'
  BY DEF CapturesInv, QueueStands
<1>9. \A d \in executed : captures[d].subject \in Subjects
  BY CaptureNumbers DEF CapturesInv, CaptureRows, CaptureRow
<1>10. SubjectsStand'
  BY <1>1, <1>2, <1>3, <1>4, <1>5, <1>9 DEF CapturesInv, SubjectsStand, C!WithEvidence
<1>11. C!ConflictNotExecuted'
  BY <1>1, <1>2 DEF CapturesInv, C!ConflictNotExecuted, Open
<1>12. C!OneProofPerSubject'
  BY <1>2, <1>9 DEF CapturesInv, C!OneProofPerSubject, SubjectsStand, C!WithEvidence
<1> QED BY <1>7, <1>8, <1>10, <1>11, <1>12 DEF Standing

(* The pass ends. *)
LEMMA PassEnds ==
  ASSUME capturePass' = C!Idle
  PROVE  SendingStands'
BY DEF SendingStands, C!Idle

(* The pass waits while the queue grows or others act. *)
LEMMA PassWaits ==
  ASSUME CapturesInv, UNCHANGED <<capturePass, executed>>,
         queue \subseteq queue', underWay' \subseteq underWay
  PROVE  SendingStands'
BY DEF CapturesInv, SendingStands, C!Item, C!First

(* The server answers the request under way. *)
LEMMA AnswerKeeps ==
  ASSUME CapturesInv, NEW c \in underWay, underWay' = {}, UNCHANGED queue,
         NEW verdict \in {"done", "conflict", "forbidden"}, C!Answered(c, verdict),
         executed' \in {executed, executed \cup {c}},
         verdict = "done" => c \in executed',
         verdict = "conflict" => c \notin executed'
  PROVE  SendingStands'
<1>1. capturePass \in
        [at : {"idle", "next", "sent", "done", "conflict", "forbidden"}, items : SUBSET queue]
  BY DEF CapturesInv, SendingStands
<1>2. CASE capturePass.at = "sent" /\ C!Item = c
  <2>1. capturePass' = [capturePass EXCEPT !.at = verdict]
    BY <1>2 DEF C!Answered
  <2>2. capturePass'.items = capturePass.items /\ capturePass'.at = verdict
    BY <1>1, <2>1
  <2>3. C!Item' = c
    BY <1>2, <2>2 DEF C!Item, C!First
  <2>4. capturePass' \in
          [at : {"idle", "next", "sent", "done", "conflict", "forbidden"}, items : SUBSET queue]
    BY <1>1, <2>1
  <2> QED BY <1>2, <2>2, <2>3, <2>4 DEF CapturesInv, SendingStands
<1>3. CASE ~(capturePass.at = "sent" /\ C!Item = c)
  <2>1. capturePass' = capturePass
    BY <1>3 DEF C!Answered
  <2>2. capturePass.at \in {"idle", "next"}
    BY <1>1, <1>3 DEF CapturesInv, SendingStands
  <2> QED BY <2>1, <2>2 DEF CapturesInv, SendingStands
<1> QED BY <1>2, <1>3

(* A row with another status is a row. *)
LEMMA RowTyped ==
  ASSUME CaptureRows, NEW i \in DOMAIN captures,
         NEW status \in Open \cup {"forbidden", "conflict", "done", "reversed"}
  PROVE  /\ [captures[i] EXCEPT !.status = status] \in CaptureRow
         /\ [captures[i] EXCEPT !.status = status].status = status
         /\ [captures[i] EXCEPT !.status = status].subject = captures[i].subject
         /\ [captures[i] EXCEPT !.status = status].uploaded = captures[i].uploaded
<1>1. captures[i] \in CaptureRow
  BY CaptureNumbers
<1> QED BY <1>1 DEF CaptureRow

-----------------------------------------------------------------------------
(* Captures: every step *)

LEMMA CaptureStep ==
  ASSUME CapturesInv, NEW s \in Subjects, NEW v \in C!Versions, C!Capture(s, v)
  PROVE  CapturesInv'
<1>1. Standing' /\ queue \subseteq queue'
  <2>1. C!Enqueue(captures, s, v) /\ UNCHANGED <<kind, linking, underWay, server, executed>>
    BY DEF C!Capture
  <2> QED BY <2>1, EnqueueKeeps
<1>2. SendingStands'
  BY <1>1, PassWaits DEF C!Capture
<1> QED BY <1>1, <1>2 DEF CapturesInv, Standing

LEMMA ReplaceStep ==
  ASSUME CapturesInv, NEW old \in DOMAIN captures, C!Replace(old)
  PROVE  CapturesInv'
<1> DEFINE subject == captures[old].subject
<1>1. subject \in Subjects /\ server[subject].version \in Nat
  <2>1. captures[old] \in CaptureRow /\ server \in [Subjects -> ServerRow]
    BY CaptureNumbers DEF CapturesInv, CaptureRows
  <2> QED BY <2>1 DEF CaptureRow, ServerRow
<1>2. Standing' /\ queue \subseteq queue'
  <2>1. /\ C!Enqueue(captures, subject, server[subject].version)
        /\ linking' = {[old |-> old, new |-> Len(captures) + 1]}
        /\ UNCHANGED <<kind, underWay, server, executed>>
    BY DEF C!Replace
  <2> HIDE DEF subject
  <2> QED BY <1>1, <2>1, EnqueueKeeps
<1>3. SendingStands'
  BY <1>2, PassWaits DEF C!Replace
<1> QED BY <1>2, <1>3 DEF CapturesInv, Standing

LEMMA LinkStep ==
  ASSUME CapturesInv, C!Link
  PROVE  CapturesInv'
<1>1. PICK link \in linking : captures' = [captures EXCEPT ![link.old].replacedBy = link.new]
  BY DEF C!Link
<1> DEFINE row == [captures[link.old] EXCEPT !.replacedBy = link.new]
<1>2. link.old \in DOMAIN captures /\ link.new \in Nat /\ captures[link.old] \in CaptureRow
  BY CaptureNumbers DEF CapturesInv, CaptureRows
<1>3. /\ row \in CaptureRow /\ row.subject = captures[link.old].subject
      /\ row.status = captures[link.old].status /\ row.uploaded = captures[link.old].uploaded
  BY <1>2 DEF CaptureRow
<1>4. captures' = [captures EXCEPT ![link.old] = row]
  BY <1>1, <1>2
<1>5. UNCHANGED <<kind, queue, capturePass, underWay, server, executed>> /\ linking' = {}
  BY DEF C!Link
<1>6. Standing'
  <2>1. link.old \in queue' => row.status \in Open
    BY <1>3, <1>5 DEF CapturesInv, QueueStands
  <2>2. link.old \in underWay => link.old \in queue' /\ row.uploaded
    BY <1>3, <1>5 DEF CapturesInv, QueueStands
  <2>3. /\ row.status = "conflict" => link.old \notin executed
        /\ row.status = "done" => link.old \in executed
    BY <1>2, <1>3 DEF CapturesInv, C!ConflictNotExecuted
  <2>4. server' \in [Subjects -> ServerRow]
    BY <1>5 DEF CapturesInv, CaptureRows
  <2> HIDE DEF row
  <2> QED BY <1>2, <1>3, <1>4, <1>5, <2>1, <2>2, <2>3, <2>4, RowKeeps
<1>7. SendingStands'
  BY <1>5, PassWaits
<1> QED BY <1>6, <1>7 DEF CapturesInv, Standing

(* The item of the pass gets another status, and may leave the queue. *)
LEMMA ItemKeeps ==
  ASSUME CapturesInv, capturePass.at # "idle",
         NEW status \in Open \cup {"forbidden", "conflict", "done"}, C!Row(status),
         \/ queue' = queue /\ status \in Open
         \/ queue' = queue \ {C!Item} /\ C!Item \notin underWay,
         status = "conflict" => C!Item \notin executed,
         status = "done" => C!Item \in executed,
         UNCHANGED <<kind, linking, underWay, server, executed>>
  PROVE  Standing'
<1> DEFINE row == [captures[C!Item] EXCEPT !.status = status]
<1>1. C!Item \in DOMAIN captures /\ captures[C!Item] \in CaptureRow
  BY ItemIsQueued
<1>2. /\ row \in CaptureRow /\ row.status = status
      /\ row.subject = captures[C!Item].subject /\ row.uploaded = captures[C!Item].uploaded
  BY <1>1, RowTyped DEF CapturesInv
<1>3. captures' = [captures EXCEPT ![C!Item] = row]
  BY <1>1 DEF C!Row
<1>4. server' \in [Subjects -> ServerRow]
  BY DEF CapturesInv, CaptureRows
<1>5. C!Item \in queue' => row.status \in Open
  BY <1>2
<1>6. C!Item \in underWay => C!Item \in queue' /\ row.uploaded
  BY <1>2 DEF CapturesInv, QueueStands
<1> HIDE DEF row
<1> QED BY <1>1, <1>2, <1>3, <1>4, <1>5, <1>6, RowKeeps

LEMMA UploadStep ==
  ASSUME CapturesInv, C!Upload
  PROVE  CapturesInv'
<1> DEFINE uploaded == [captures[C!Item] EXCEPT !.uploaded = TRUE]
           row == [uploaded EXCEPT !.status = "pending"]
<1>1. /\ C!Item \in DOMAIN captures /\ captures[C!Item] \in CaptureRow
      /\ C!Item \in queue
  BY ItemIsQueued DEF C!Upload
<1>2. uploaded \in CaptureRow /\ uploaded.subject = captures[C!Item].subject /\ uploaded.uploaded
  BY <1>1 DEF CaptureRow
<1>3. /\ row \in CaptureRow /\ row.subject = captures[C!Item].subject
      /\ row.status = "pending" /\ row.uploaded
  <2> HIDE DEF uploaded
  <2> QED BY <1>2 DEF CaptureRow, Open
<1>4. captures' = [captures EXCEPT ![C!Item] = row]
  BY <1>1 DEF C!Upload, C!MarkUploaded
<1>5. UNCHANGED <<kind, queue, linking, capturePass, underWay, server, executed>>
  BY DEF C!Upload
<1>6. Standing'
  <2>1. server' \in [Subjects -> ServerRow]
    BY <1>5 DEF CapturesInv, CaptureRows
  <2>2. C!Item \in queue' => row.status \in Open
    BY <1>3 DEF Open
  <2>3. C!Item \in underWay => C!Item \in queue' /\ row.uploaded
    BY <1>1, <1>3, <1>5
  <2>4. row.status # "conflict" /\ row.status # "done"
    BY <1>3
  <2> HIDE DEF row
  <2> QED BY <1>1, <1>3, <1>4, <1>5, <2>1, <2>2, <2>3, <2>4, RowKeeps
<1>7. SendingStands'
  BY <1>5, PassWaits
<1> QED BY <1>6, <1>7 DEF CapturesInv, Standing

LEMMA UploadForbiddenStep ==
  ASSUME CapturesInv, C!UploadForbidden
  PROVE  CapturesInv'
<1>1. C!Item \notin underWay
  BY DEF C!UploadForbidden, CapturesInv, QueueStands
<1>2. Standing'
  BY <1>1, ItemKeeps DEF C!UploadForbidden, C!Dequeue
<1>3. SendingStands'
  BY PassEnds DEF C!UploadForbidden
<1> QED BY <1>2, <1>3 DEF CapturesInv, Standing

LEMMA UploadFailsStep ==
  ASSUME CapturesInv, C!UploadFails
  PROVE  CapturesInv'
<1>1. Standing'
  BY ItemKeeps DEF C!UploadFails, Open
<1>2. SendingStands'
  BY PassEnds DEF C!UploadFails
<1> QED BY <1>1, <1>2 DEF CapturesInv, Standing

LEMMA SendStep ==
  ASSUME CapturesInv, C!Send
  PROVE  CapturesInv'
<1>1. C!Item \in queue /\ captures[C!Item].uploaded /\ underWay' = {C!Item}
  BY ItemIsQueued DEF C!Send
<1>2. UNCHANGED <<kind, captures, queue, linking, server, executed>>
  BY DEF C!Send
<1>3. Standing'
  <2>1. server' \in [Subjects -> ServerRow]
    BY <1>2 DEF CapturesInv, CaptureRows
  <2>2. underWay' \subseteq queue /\ \A c, d \in underWay' : c = d
    BY <1>1
  <2>3. \A c \in underWay' : captures[c].uploaded
    BY <1>1
  <2> QED BY <1>2, <2>1, <2>2, <2>3, ServerKeeps
<1>4. SendingStands'
  <2>1. /\ capturePass' = [capturePass EXCEPT !.at = "sent"] /\ capturePass.at = "next"
        /\ capturePass \in
             [at : {"idle", "next", "sent", "done", "conflict", "forbidden"}, items : SUBSET queue]
        /\ capturePass.items # {}
    BY DEF C!Send, CapturesInv, SendingStands
  <2>2. capturePass'.items = capturePass.items /\ capturePass'.at = "sent"
    BY <2>1
  <2>3. C!Item' = C!Item
    BY <2>2 DEF C!Item, C!First
  <2> QED BY <1>1, <1>2, <2>1, <2>2, <2>3 DEF SendingStands
<1> QED BY <1>3, <1>4 DEF CapturesInv, Standing

(* Nothing changes of the captures, their queue and what is under way. *)
LEMMA StandingStays ==
  ASSUME CapturesInv,
         UNCHANGED <<kind, captures, queue, linking, underWay, server, executed>>
  PROVE  Standing'
<1>1. server' \in [Subjects -> ServerRow]
  BY DEF CapturesInv, CaptureRows
<1>2. underWay' \subseteq queue /\ \A c, d \in underWay' : c = d
  BY DEF CapturesInv, QueueStands
<1>3. \A c \in underWay' : captures[c].uploaded
  BY DEF CapturesInv, QueueStands
<1> QED BY <1>1, <1>2, <1>3, ServerKeeps

LEMMA StartSyncStep ==
  ASSUME CapturesInv, C!StartSync
  PROVE  CapturesInv'
<1>1. Standing'
  BY StandingStays DEF C!StartSync
<1>2. SendingStands'
  BY DEF C!StartSync, SendingStands
<1> QED BY <1>1, <1>2 DEF CapturesInv, Standing

LEMMA GiveUpStep ==
  ASSUME CapturesInv, C!GiveUp
  PROVE  CapturesInv'
<1>1. CASE kind = "receipt"
  <2>1. C!Row("paused")
    BY <1>1 DEF C!GiveUp
  <2> QED BY <2>1, ItemKeeps, PassEnds DEF C!GiveUp, Open, CapturesInv, Standing
<1>2. CASE kind # "receipt"
  <2>1. Standing'
    BY <1>2, StandingStays DEF C!GiveUp
  <2> QED BY <2>1, PassEnds DEF C!GiveUp, CapturesInv, Standing
<1> QED BY <1>1, <1>2

LEMMA StopStep ==
  ASSUME CapturesInv, C!Stop
  PROVE  CapturesInv'
<1>1. Standing'
  <2>1. server' \in [Subjects -> ServerRow]
    BY DEF CapturesInv, CaptureRows, C!Stop
  <2>2. underWay' \subseteq queue /\ \A c, d \in underWay' : c = d
    BY DEF CapturesInv, QueueStands, C!Stop
  <2>3. \A c \in underWay' : captures[c].uploaded
    BY DEF CapturesInv, QueueStands, C!Stop
  <2> QED BY <2>1, <2>2, <2>3, ServerKeeps DEF C!Stop
<1> QED BY <1>1, PassEnds DEF C!Stop, CapturesInv, Standing

LEMMA MarkSyncedStep ==
  ASSUME CapturesInv, C!MarkSynced
  PROVE  CapturesInv'
<1>1. C!Item \in executed /\ underWay = {}
  BY DEF CapturesInv, SendingStands, C!MarkSynced
<1>2. Standing'
  BY <1>1, ItemKeeps DEF C!MarkSynced, C!Dequeue
<1>3. SendingStands'
  <2>1. CASE capturePass.items = {C!Item}
    <3>1. capturePass' = C!Idle
      BY <2>1 DEF C!MarkSynced, C!Rest
    <3> QED BY <3>1, PassEnds
  <2>2. CASE capturePass.items # {C!Item}
    <3>1. C!Item \in capturePass.items /\ capturePass.items \subseteq queue
      BY ItemIsQueued DEF C!MarkSynced, CapturesInv, SendingStands
    <3>2. capturePass.items \ {C!Item} # {}
      BY <2>2, <3>1
    <3>3. capturePass' = [at |-> "next", items |-> capturePass.items \ {C!Item}]
      BY <2>2 DEF C!MarkSynced, C!Rest
    <3>4. queue' = queue \ {C!Item}
      BY DEF C!MarkSynced, C!Dequeue
    <3>5. capturePass.items \ {C!Item} \subseteq queue'
      BY <3>1, <3>4
    <3> QED BY <3>2, <3>3, <3>5 DEF SendingStands
  <2> QED BY <2>1, <2>2
<1> QED BY <1>2, <1>3 DEF CapturesInv, Standing

LEMMA MarkStateStep ==
  ASSUME CapturesInv, C!MarkState
  PROVE  CapturesInv'
<1>1. underWay = {} /\ (capturePass.at = "conflict" => C!Item \notin executed)
  BY DEF CapturesInv, SendingStands, C!MarkState
<1>2. Standing'
  <2>1. CASE kind = "receipt"
    BY <1>1, <2>1, ItemKeeps DEF C!MarkState, Open
  <2>2. CASE kind # "receipt"
    <3>1. C!Row(capturePass.at) /\ queue' = queue \ {C!Item}
      BY <2>2 DEF C!MarkState, C!Dequeue
    <3>2. CASE capturePass.at = "conflict"
      BY <1>1, <3>1, <3>2, ItemKeeps DEF C!MarkState
    <3>3. CASE capturePass.at = "forbidden"
      BY <1>1, <3>1, <3>3, ItemKeeps DEF C!MarkState
    <3> QED BY <3>2, <3>3 DEF C!MarkState
  <2> QED BY <2>1, <2>2
<1> QED BY <1>2, PassEnds DEF C!MarkState, CapturesInv, Standing

LEMMA HandleStep ==
  ASSUME CapturesInv, C!Handle
  PROVE  CapturesInv'
<1>1. PICK c \in underWay :
        /\ underWay' = {}
        /\ \/ C!Allowed(c) /\ ~C!Replayed(c) /\ C!Execute(c)
           \/ \E verdict \in {"done", "conflict", "forbidden"} :
                /\ verdict = "done" <=> C!Allowed(c) /\ C!Replayed(c)
                /\ verdict = "forbidden" <=> ~C!Allowed(c)
                /\ C!Answered(c, verdict)
                /\ UNCHANGED <<server, executed>>
        /\ UNCHANGED <<kind, captures, queue, linking, reversed>>
  BY DEF C!Handle
<1>2. CASE ~C!Replayed(c) /\ C!Execute(c)
  <2>1. Standing'
    BY <1>1, <1>2, ExecuteKeeps
  <2>2. C!Answered(c, "done") /\ executed' = executed \cup {c}
    BY <1>2 DEF C!Execute
  <2>3. SendingStands'
    BY <1>1, <2>2, AnswerKeeps
  <2> QED BY <2>1, <2>3 DEF CapturesInv, Standing
<1>3. CASE \E verdict \in {"done", "conflict", "forbidden"} :
             /\ verdict = "done" <=> C!Allowed(c) /\ C!Replayed(c)
             /\ verdict = "forbidden" <=> ~C!Allowed(c)
             /\ C!Answered(c, verdict)
             /\ UNCHANGED <<server, executed>>
  <2>1. PICK verdict \in {"done", "conflict", "forbidden"} :
          /\ verdict = "done" <=> C!Allowed(c) /\ C!Replayed(c)
          /\ verdict = "forbidden" <=> ~C!Allowed(c)
          /\ C!Answered(c, verdict)
          /\ UNCHANGED <<server, executed>>
    BY <1>3
  <2>2. Standing'
    <3>1. server' \in [Subjects -> ServerRow]
      BY <2>1 DEF CapturesInv, CaptureRows
    <3> QED BY <1>1, <2>1, <3>1, ServerKeeps
  <2>3. /\ verdict = "done" => c \in executed'
        /\ verdict = "conflict" => c \notin executed'
    BY <2>1 DEF C!Replayed
  <2>4. SendingStands'
    BY <1>1, <2>1, <2>3, AnswerKeeps
  <2> QED BY <2>2, <2>4 DEF CapturesInv, Standing
<1> QED BY <1>1, <1>2, <1>3

LEMMA LoseStep ==
  ASSUME CapturesInv, C!Lose
  PROVE  CapturesInv'
<1>1. Standing'
  <2>1. server' \in [Subjects -> ServerRow]
    BY DEF CapturesInv, CaptureRows, C!Lose
  <2> QED BY <2>1, ServerKeeps DEF C!Lose
<1>2. SendingStands'
  BY PassWaits DEF C!Lose
<1> QED BY <1>1, <1>2 DEF CapturesInv, Standing

(* Others act on a subject, and do not open what is closed. *)
LEMMA OthersKeep ==
  ASSUME CapturesInv, NEW s \in Subjects, NEW subject \in ServerRow,
         server' = [server EXCEPT ![s] = subject],
         C!WithEvidence /\ subject.open => server[s].open,
         UNCHANGED <<kind, captures, queue, linking, capturePass, underWay, executed>>
  PROVE  CapturesInv'
<1>1. server \in [Subjects -> ServerRow]
  BY DEF CapturesInv, CaptureRows
<1>2. /\ server' \in [Subjects -> ServerRow]
      /\ C!WithEvidence => \A t \in Subjects : server'[t].open => server[t].open
  BY <1>1
<1>3. underWay' \subseteq queue /\ \A c, d \in underWay' : c = d
  BY DEF CapturesInv, QueueStands
<1>4. \A c \in underWay' : captures[c].uploaded
  BY DEF CapturesInv, QueueStands
<1>5. Standing'
  BY <1>2, <1>3, <1>4, ServerKeeps
<1>6. SendingStands'
  BY PassWaits
<1> QED BY <1>5, <1>6 DEF CapturesInv, Standing

LEMMA ReassignStep ==
  ASSUME CapturesInv, NEW s \in Subjects, C!Reassign(s)
  PROVE  CapturesInv'
<1> DEFINE given == [server[s] EXCEPT !.mine = ~server[s].mine]
           subject == [given EXCEPT !.version =
                         IF kind = "delivery" THEN server[s].version + 1 ELSE server[s].version]
<1>1. server \in [Subjects -> ServerRow] /\ server[s] \in ServerRow
  BY DEF CapturesInv, CaptureRows
<1>2. given \in ServerRow /\ given.open = server[s].open /\ given.version = server[s].version
  BY <1>1 DEF ServerRow
<1>3. subject \in ServerRow /\ subject.open = server[s].open
  <2> HIDE DEF given
  <2>1. server[s].version \in Nat
    BY <1>1 DEF ServerRow
  <2> QED BY <1>2, <2>1 DEF ServerRow
<1>4. server' = [server EXCEPT ![s] = subject]
  BY <1>1, <1>2 DEF C!Reassign
<1> HIDE DEF subject
<1> QED BY <1>3, <1>4, OthersKeep DEF C!Reassign

LEMMA OthersActStep ==
  ASSUME CapturesInv, NEW s \in Subjects, C!OthersAct(s)
  PROVE  CapturesInv'
<1>1. server[s] \in ServerRow /\ kind \in C!Kinds
  BY DEF CapturesInv, CaptureRows
<1>2. PICK subject \in IF kind = "receipt" THEN {[server[s] EXCEPT !.open = FALSE]}
                       ELSE C!Outcomes(server[s]) :
        server' = [server EXCEPT ![s] = subject]
  BY DEF C!OthersAct
<1>3. subject \in ServerRow
  <2>1. CASE kind = "receipt"
    BY <1>1, <1>2, <2>1 DEF ServerRow
  <2>2. CASE kind # "receipt"
    BY <1>1, <1>2, <2>2, OutcomeCloses
  <2> QED BY <2>1, <2>2
<1> QED BY <1>2, <1>3, OthersKeep DEF C!OthersAct

LEMMA ReverseSyncedPickStep ==
  ASSUME CapturesInv, NEW c \in DOMAIN captures, NEW heard \in BOOLEAN,
         C!ReverseSyncedPick(c, heard)
  PROVE  CapturesInv'
<1> DEFINE s == captures[c].subject
           picked == [server[s] EXCEPT !.version = server[s].version + 1]
           subject == [picked EXCEPT !.open = TRUE]
           row == [captures[c] EXCEPT !.status = "reversed"]
<1>1. /\ captures[c] \in CaptureRow /\ s \in Subjects
      /\ server \in [Subjects -> ServerRow] /\ server[s] \in ServerRow
  BY CaptureNumbers DEF CapturesInv, CaptureRows, CaptureRow
<1>2. ~C!WithEvidence /\ captures[c].status = "done"
  BY DEF C!ReverseSyncedPick, C!WithEvidence
<1>3. UNCHANGED <<kind, queue, linking, capturePass, underWay, executed>>
  BY DEF C!ReverseSyncedPick
<1>4. server' \in [Subjects -> ServerRow]
  <2>1. picked \in ServerRow
    <3>1. server[s].version + 1 \in Nat
      BY <1>1 DEF ServerRow
    <3> HIDE DEF s
    <3> QED BY <1>1, <3>1 DEF ServerRow
  <2>2. subject \in ServerRow
    <3> HIDE DEF picked
    <3> QED BY <2>1 DEF ServerRow
  <2>3. server' = server \/ server' = [server EXCEPT ![s] = subject]
    BY <1>1 DEF C!ReverseSyncedPick
  <2> HIDE DEF subject, s
  <2> QED BY <1>1, <2>2, <2>3
<1>5. Standing'
  <2>1. CASE heard
    <3>1. /\ row \in CaptureRow /\ row.subject = captures[c].subject /\ row.status = "reversed"
      BY <1>1, RowTyped DEF CapturesInv
    <3>2. captures' = [captures EXCEPT ![c] = row]
      BY <2>1 DEF C!ReverseSyncedPick
    <3>3. c \notin queue /\ c \notin underWay
      BY <1>2 DEF CapturesInv, QueueStands, Open
    <3> HIDE DEF row
    <3> QED BY <1>2, <1>3, <1>4, <3>1, <3>2, <3>3, RowKeeps
  <2>2. CASE ~heard
    <3>1. captures' = captures
      BY <2>2 DEF C!ReverseSyncedPick
    <3>2. underWay' \subseteq queue /\ \A d, e \in underWay' : d = e
      BY <1>3 DEF CapturesInv, QueueStands
    <3>3. \A d \in underWay' : captures[d].uploaded
      BY <1>3 DEF CapturesInv, QueueStands
    <3> QED BY <1>2, <1>3, <1>4, <3>1, <3>2, <3>3, ServerKeeps
  <2> QED BY <2>1, <2>2
<1>6. SendingStands'
  BY <1>3, PassWaits
<1> QED BY <1>5, <1>6 DEF CapturesInv, Standing

LEMMA CapturesInvInit == C!CapturesInit => CapturesInv
<1> SUFFICES ASSUME C!CapturesInit
             PROVE  CapturesInv
  OBVIOUS
<1>1. captures = <<>> /\ DOMAIN captures = {} /\ captures \in Seq(CaptureRow)
  BY DEF C!CapturesInit
<1>2. CaptureRows
  <2>1. server \in [Subjects -> ServerRow]
    BY DEF C!CapturesInit, ServerRow
  <2> QED BY <1>1, <2>1 DEF CaptureRows, C!CapturesInit
<1>3. QueueStands
  BY DEF QueueStands, C!CapturesInit
<1>4. SendingStands
  BY DEF SendingStands, C!CapturesInit, C!Idle
<1>5. SubjectsStand /\ C!OneProofPerSubject
  BY DEF SubjectsStand, C!OneProofPerSubject, C!CapturesInit
<1>6. C!ConflictNotExecuted
  BY <1>1 DEF C!ConflictNotExecuted
<1> QED BY <1>2, <1>3, <1>4, <1>5, <1>6 DEF CapturesInv

LEMMA CapturesInvNext == CapturesInv /\ [C!CapturesNext]_captureVars => CapturesInv'
<1> SUFFICES ASSUME CapturesInv, [C!CapturesNext]_captureVars
             PROVE  CapturesInv'
  OBVIOUS
<1>1. CASE \E s \in Subjects, v \in C!Versions : C!Capture(s, v)
  BY <1>1, CaptureStep
<1>2. CASE \E c \in DOMAIN captures : C!Replace(c)
  BY <1>2, ReplaceStep
<1>3. CASE C!Link \/ C!StartSync \/ C!Upload \/ C!UploadForbidden \/ C!UploadFails
  BY <1>3, LinkStep, StartSyncStep, UploadStep, UploadForbiddenStep, UploadFailsStep
<1>4. CASE C!Send \/ C!GiveUp \/ C!MarkSynced \/ C!MarkState \/ C!Stop
  BY <1>4, SendStep, GiveUpStep, MarkSyncedStep, MarkStateStep, StopStep
<1>5. CASE C!Handle \/ C!Lose
  BY <1>5, HandleStep, LoseStep
<1>6. CASE \E s \in Subjects : C!Reassign(s) \/ C!OthersAct(s)
  BY <1>6, ReassignStep, OthersActStep
<1>7. CASE \E c \in DOMAIN captures, heard \in BOOLEAN : C!ReverseSyncedPick(c, heard)
  BY <1>7, ReverseSyncedPickStep
<1>8. CASE UNCHANGED captureVars
  <2>1. Standing'
    BY <1>8, StandingStays DEF captureVars
  <2>2. SendingStands'
    BY <1>8, PassWaits DEF captureVars
  <2> QED BY <2>1, <2>2 DEF CapturesInv, Standing
<1> QED BY <1>1, <1>2, <1>3, <1>4, <1>5, <1>6, <1>7, <1>8 DEF C!CapturesNext

(* The invariant of the captures. *)
THEOREM CapturesInvariant == C!CapturesSpec => []CapturesInv
BY CapturesInvInit, CapturesInvNext, PTL DEF C!CapturesSpec, C!captureVars, captureVars

(* What the user is asked to capture again was not executed, and what the
   device shows as done was, whatever was lost on the way, for any number of
   captures, subjects and versions. *)
THEOREM ConflictsAreNotExecuted == C!CapturesSpec => []ConflictNotExecuted
<1>1. CapturesInv => ConflictNotExecuted
  BY DEF CapturesInv, ConflictNotExecuted, C!ConflictNotExecuted
<1> QED BY <1>1, CapturesInvariant, PTL

(* Of the captures made for one delivery or return request, at most one is
   executed, however often one is replaced. *)
THEOREM ProofsAreUnique == C!CapturesSpec => []OneProofPerSubject
<1>1. CapturesInv => OneProofPerSubject
  BY DEF CapturesInv, OneProofPerSubject, C!OneProofPerSubject
<1> QED BY <1>1, CapturesInvariant, PTL

-----------------------------------------------------------------------------
(* Drafts: the steps *)

(* A set of requests has a first one. *)
LEMMA FirstRequest ==
  ASSUME NEW R \in SUBSET RequestRow, R # {}
  PROVE  \E x \in R : \A y \in R : x.sequence <= y.sequence
<1> DEFINE S == {x.sequence : x \in R}
<1>1. S \in SUBSET Nat /\ S # {}
  BY DEF RequestRow
<1>2. PICK n \in S : \A m \in S : n <= m
  <2> HIDE DEF S
  <2> QED BY <1>1, LeastExists
<1>3. PICK x \in R : x.sequence = n
  BY <1>2
<1> QED BY <1>2, <1>3

LEMMA ItemIsFirst ==
  ASSUME DraftRows, pass.items # {}
  PROVE  /\ Item \in pass.items /\ Item \in RequestRow
         /\ \A x \in pass.items : Item.sequence <= x.sequence
<1>1. pass.items \subseteq RequestRow
  BY DEF DraftRows, PassRow
<1> QED BY <1>1, FirstRequest DEF Item

LEMMA ItemIsFirstNext ==
  ASSUME DraftRows', pass'.items # {}
  PROVE  /\ Item' \in pass'.items /\ Item' \in RequestRow
         /\ \A x \in pass'.items : Item'.sequence <= x.sequence
<1>1. pass'.items \subseteq RequestRow
  BY DEF DraftRows, PassRow
<1> QED BY <1>1, FirstRequest DEF Item

(* A running pass is at its first item. *)
LEMMA PassHasItem ==
  ASSUME DraftsInv, pass.at # "idle"
  PROVE  /\ Item \in pass.items /\ Item \in RequestRow /\ Item \in Requests
         /\ \A x \in pass.items : Item.sequence <= x.sequence
BY ItemIsFirst DEF DraftsInv, PassStands, Requests

(* Only the device's own note of what it saves changes, or what it has cached. *)
LEMMA NotesKeep ==
  ASSUME DraftsInv,
         UNCHANGED <<draft, outbox, keys, pass, wire, order, receipts, reference>>,
         shown' \in Nat, shown' <= reference,
         saving' \subseteq [command : Command, expected : Nat],
         \A save \in saving' :
           /\ save.command.edit = draft.command.edit + 1 /\ save.command.reference <= reference
           /\ save.expected <= Len(order)
  PROVE  DraftsInv'
<1>1. DraftRows'
  BY DEF DraftsInv, DraftRows
<1>2. \A r : /\ Replayed(r)' = Replayed(r) /\ Acceptable(r)' = Acceptable(r)
             /\ Dead(r)' = Dead(r)
  BY DEF Dead, Replayed, Acceptable, Current, Latest
<1>3. Item' = Item /\ Requests' = Requests /\ (\A r : Sendable(r)' = Sendable(r))
  BY DEF Item, Requests, Sendable, Dead, Replayed, Acceptable, Current, Latest
<1>4. KeysStand'
  BY DEF DraftsInv, KeysStand, SameKeySame, Sound, Requests, Replayed
<1>5. OutboxStands'
  BY DEF DraftsInv, OutboxStands, Replayed
<1>6. PassStands'
  BY DEF DraftsInv, PassStands, Item, Dead, Replayed, Acceptable, Current, Latest
<1>7. EditsStand'
  BY <1>2, <1>3 DEF DraftsInv, EditsStand, InOrder
<1>8. (SavedStands /\ SyncedIsSaved /\ EditAppliedOnce)'
  BY DEF DraftsInv, SavedStands, SyncedIsSaved, EditAppliedOnce
<1> QED BY <1>1, <1>4, <1>5, <1>6, <1>7, <1>8 DEF DraftsInv

LEMMA BeginSaveStep ==
  ASSUME DraftsInv, BeginSave
  PROVE  DraftsInv'
<1> DEFINE save == [command |-> [edit |-> draft.command.edit + 1, reference |-> shown],
                    expected |-> draft.saved.version]
<1>1. saving' = {save} /\ shown' = shown
  BY DEF BeginSave
<1>2. draft \in DraftRow /\ shown \in Nat /\ draft.saved.version <= Len(order) /\ shown <= reference
  BY DEF DraftsInv, DraftRows, KeysStand
<1>3. save \in [command : Command, expected : Nat]
  BY <1>2 DEF DraftRow, Command
<1>4. /\ save.command.edit = draft.command.edit + 1 /\ save.command.reference <= reference
      /\ save.expected <= Len(order)
  BY <1>2
<1> HIDE DEF save
<1> QED BY <1>1, <1>2, <1>3, <1>4, NotesKeep DEF BeginSave

LEMMA ShowReferencesStep ==
  ASSUME DraftsInv, ShowReferences
  PROVE  DraftsInv'
<1>1. reference \in Nat /\ reference <= reference /\ shown' = reference
  BY DEF DraftsInv, DraftRows, ShowReferences
<1> QED BY <1>1, NotesKeep DEF ShowReferences, DraftsInv, DraftRows, KeysStand

(* The pass ends, with what it says of the draft. *)
LEMMA PassStopKeeps ==
  ASSUME DraftsInv, pass' = Idle, saving' \subseteq saving,
         UNCHANGED <<outbox, keys, wire, order, receipts, reference, shown>>,
         draft' \in DraftRow, UNCHANGED draft.command, draft'.saved.version <= Len(order),
         draft'.status = "synced" => draft' = draft,
         draft'.status = "conflict" =>
           draft.status = "conflict" \/ \E x \in outbox : x.attempted /\ Dead(x)
  PROVE  DraftsInv'
<1>1. DraftRows'
  BY DEF DraftsInv, DraftRows, Idle, PassRow, None
<1>2. \A r : /\ Replayed(r)' = Replayed(r) /\ Acceptable(r)' = Acceptable(r)
             /\ Dead(r)' = Dead(r)
  BY DEF Dead, Replayed, Acceptable, Current, Latest
<1>3. /\ Requests' \subseteq Requests
      /\ \A r : Sendable(r)' => Sendable(r)
  BY DEF Requests, Sendable, Idle
<1>4. KeysStand'
  BY <1>3 DEF DraftsInv, KeysStand, SameKeySame, Sound, Replayed
<1>5. OutboxStands'
  BY DEF DraftsInv, OutboxStands, Replayed
<1>6. PassStands'
  BY DEF PassStands, Idle
<1>7. EditsStand'
  BY <1>2, <1>3 DEF DraftsInv, EditsStand, InOrder
<1>8. (SavedStands /\ SyncedIsSaved /\ EditAppliedOnce)'
  BY DEF DraftsInv, SavedStands, SyncedIsSaved, EditAppliedOnce
<1> QED BY <1>1, <1>4, <1>5, <1>6, <1>7, <1>8 DEF DraftsInv

LEMMA StopSyncStep ==
  ASSUME DraftsInv, GiveUp \/ Stop
  PROVE  DraftsInv'
<1>1. draft' = draft /\ draft \in DraftRow /\ draft.saved.version <= Len(order)
  BY DEF DraftsInv, DraftRows, KeysStand, GiveUp, Stop
<1> QED BY <1>1, PassStopKeeps DEF GiveUp, Stop

LEMMA MarkConflictStep ==
  ASSUME DraftsInv, NEW saved \in {Authoritative, Unsaved}, MarkConflict(saved)
  PROVE  DraftsInv'
<1>1. draft \in DraftRow /\ draft.saved.version <= Len(order) /\ order \in Seq(Nat)
  BY DEF DraftsInv, DraftRows, KeysStand
<1>2. saved \in [version : Nat, edit : Nat] /\ saved.version <= Len(order)
  <2>1. Len(order) \in Nat /\ (Len(order) # 0 => order[Len(order)] \in Nat)
    BY <1>1, ElementOfSeq
  <2> QED BY <2>1 DEF Authoritative, Unsaved, None, Latest
<1>3. CASE ~InOutbox
  <2>1. draft' = draft
    BY <1>3 DEF MarkConflict
  <2> QED BY <1>1, <2>1, PassStopKeeps DEF MarkConflict
<1>4. CASE InOutbox
  <2> DEFINE marked == [draft EXCEPT !.status = "conflict"]
  <2>1. draft' = [marked EXCEPT !.saved = saved]
    BY <1>4 DEF MarkConflict
  <2>2. marked \in DraftRow /\ marked.status = "conflict" /\ marked.command = draft.command
    BY <1>1 DEF DraftRow
  <2>3. /\ draft' \in DraftRow /\ draft'.status = "conflict" /\ draft'.command = draft.command
        /\ draft'.saved.version <= Len(order)
    <3> HIDE DEF marked
    <3> QED BY <1>2, <2>1, <2>2 DEF DraftRow
  <2>4. \E x \in outbox : x.attempted /\ Dead(x)
    <3>1. PICK x \in outbox : x.sequence = Item.sequence
      BY <1>4 DEF InOutbox
    <3>2. x.attempted /\ Dead(Item)
      BY <3>1 DEF MarkConflict, DraftsInv, PassStands
    <3>3. Item \in Requests /\ x \in Requests
      BY PassHasItem DEF MarkConflict, Requests
    <3>4. x.command = Item.command /\ x.expected = Item.expected
      BY <3>1, <3>3 DEF DraftsInv, KeysStand, SameKeySame
    <3>5. Dead(x)
      BY <3>1, <3>2, <3>4 DEF Dead, Replayed, Acceptable
    <3> QED BY <3>2, <3>5
  <2> QED BY <2>3, <2>4, PassStopKeeps DEF MarkConflict
<1> QED BY <1>3, <1>4

(* While the server rests, what it says of a request stays. *)
LEMMA ServerRests ==
  ASSUME UNCHANGED <<order, receipts, reference>>
  PROVE  \A r : /\ Replayed(r)' = Replayed(r) /\ Acceptable(r)' = Acceptable(r)
                /\ Dead(r)' = Dead(r) /\ InOrder(r)' = InOrder(r)
BY DEF Dead, Replayed, Acceptable, Current, Latest, InOrder

LEMMA StartSyncDraftsStep ==
  ASSUME DraftsInv, StartSync
  PROVE  DraftsInv'
<1>1. /\ pass' = [at |-> "next", items |-> outbox, answer |-> None]
      /\ outbox # {} /\ pass.at = "idle"
      /\ UNCHANGED <<draft, outbox, keys, saving, wire, order, receipts, reference, shown>>
  BY DEF StartSync
<1>2. DraftRows'
  BY <1>1 DEF DraftsInv, DraftRows, PassRow, None
<1>3. Requests' \subseteq Requests
  BY <1>1 DEF Requests
<1>4. \A r : /\ Replayed(r)' = Replayed(r) /\ Acceptable(r)' = Acceptable(r)
             /\ Dead(r)' = Dead(r) /\ InOrder(r)' = InOrder(r)
  BY <1>1, ServerRests
<1>5. KeysStand'
  BY <1>1, <1>3, <1>4 DEF DraftsInv, KeysStand, SameKeySame, Sound
<1>6. OutboxStands'
  BY <1>1, <1>4 DEF DraftsInv, OutboxStands
<1>7. PassStands'
  <2>1. Item' \in outbox /\ \A x \in outbox : Item'.sequence <= x.sequence
    BY <1>1, <1>2, ItemIsFirstNext
  <2>2. \A x \in outbox : x.attempted => x.sequence = Item'.sequence
    <3> SUFFICES ASSUME NEW x \in outbox, x.attempted
                 PROVE  x.sequence = Item'.sequence
      OBVIOUS
    <3>1. x.sequence <= Item'.sequence /\ Item'.sequence <= x.sequence
      BY <2>1 DEF DraftsInv, OutboxStands
    <3>2. x.sequence \in Nat /\ Item'.sequence \in Nat
      BY <2>1 DEF DraftsInv, DraftRows, RequestRow
    <3> QED BY <3>1, <3>2
  <2>3. \A x, y \in outbox : x.sequence = y.sequence => x = y
    BY DEF DraftsInv, OutboxStands
  <2> QED BY <1>1, <2>2, <2>3 DEF PassStands
<1>8. EditsStand'
  <2>1. \A r : Sendable(r)' => Sendable(r) \/ r \in outbox
    BY <1>1 DEF Sendable
  <2>2. ASSUME NEW r \in outbox, r.sequence # keys
        PROVE  r.command.edit # draft.command.edit
    BY <2>2 DEF DraftsInv, OutboxStands, DraftRows, RequestRow, Command, DraftRow
  <2> QED BY <1>1, <1>3, <1>4, <2>1, <2>2 DEF DraftsInv, EditsStand
<1>9. (SavedStands /\ SyncedIsSaved /\ EditAppliedOnce)'
  BY <1>1 DEF DraftsInv, SavedStands, SyncedIsSaved, EditAppliedOnce
<1> QED BY <1>2, <1>5, <1>6, <1>7, <1>8, <1>9 DEF DraftsInv

(* Two forms of one request. *)
Twin(r, q) == r.sequence = q.sequence /\ r.command = q.command /\ r.expected = q.expected

LEMMA TwinsAlike ==
  ASSUME NEW r, NEW q, Twin(r, q)
  PROVE  /\ Replayed(r) <=> Replayed(q)
         /\ Acceptable(r) <=> Acceptable(q)
         /\ Dead(r) <=> Dead(q)
         /\ Sound(r) <=> Sound(q)
BY DEF Twin, Dead, Replayed, Acceptable, Sound

LEMMA AttemptStep ==
  ASSUME DraftsInv, Attempt
  PROVE  DraftsInv'
<1>0. PICK i \in RequestRow : i = Item
  BY PassHasItem DEF Attempt
<1> DEFINE sent == [i EXCEPT !.attempted = TRUE]
           Mark(x) == IF x.sequence = i.sequence THEN [x EXCEPT !.attempted = TRUE] ELSE x
<1>1. /\ outbox' = {Mark(x) : x \in outbox} /\ wire' = wire \cup {sent}
      /\ pass.at = "next" /\ pass' = [pass EXCEPT !.at = "sent"]
      /\ UNCHANGED <<draft, keys, saving, order, receipts, reference, shown>>
  BY <1>0 DEF Attempt
<1>2. /\ i \in pass.items /\ i \in Requests
      /\ \A x \in pass.items : i.sequence <= x.sequence
  BY <1>0, PassHasItem, <1>1
<1>3. /\ outbox \subseteq RequestRow /\ wire \subseteq RequestRow /\ pass \in PassRow
      /\ keys \in Nat /\ draft \in DraftRow
  BY DEF DraftsInv, DraftRows
<1>4. \A x \in RequestRow :
        /\ Mark(x) \in RequestRow /\ Twin(Mark(x), x)
        /\ x.sequence = i.sequence => Mark(x).attempted
        /\ x.sequence # i.sequence => Mark(x) = x
  BY DEF RequestRow, Twin
<1>5. sent \in RequestRow /\ Twin(sent, i) /\ sent.attempted
  BY DEF RequestRow, Twin
<1>6. \A x \in outbox' : \E y \in outbox : x = Mark(y)
  BY <1>1
<1>7. \A y \in outbox : Mark(y) \in outbox'
  BY <1>1
<1> HIDE DEF Mark, sent
<1>8. pass'.items = pass.items /\ pass'.at = "sent" /\ pass' \in PassRow
  BY <1>1, <1>3 DEF PassRow
<1>9. Item' = i
  BY <1>0, <1>8 DEF Item
<1>10. \A r : /\ Replayed(r)' = Replayed(r) /\ Acceptable(r)' = Acceptable(r)
              /\ Dead(r)' = Dead(r) /\ InOrder(r)' = InOrder(r)
  BY <1>1, ServerRests
<1>11. \A r \in Requests' : \E q \in Requests : Twin(r, q)
  <2>1. ASSUME NEW r \in outbox'
        PROVE  \E q \in Requests : Twin(r, q)
    BY <1>3, <1>4, <1>6 DEF Requests
  <2>2. \A r \in wire : r \in Requests /\ Twin(r, r)
    BY DEF Requests, Twin
  <2>3. \A r \in pass.items : r \in Requests /\ Twin(r, r)
    BY DEF Requests, Twin
  <2> QED BY <1>1, <1>2, <1>5, <1>8, <2>1, <2>2, <2>3 DEF Requests
<1>12. DraftRows'
  BY <1>1, <1>3, <1>4, <1>5, <1>6, <1>8 DEF DraftsInv, DraftRows
<1>13. KeysStand'
  <2>1. SameKeySame'
    <3> SUFFICES ASSUME NEW r \in Requests', NEW q \in Requests', r.sequence = q.sequence
                 PROVE  r.command = q.command /\ r.expected = q.expected
      BY DEF SameKeySame
    <3>1. PICK r2 \in Requests, q2 \in Requests : Twin(r, r2) /\ Twin(q, q2)
      BY <1>11
    <3> QED BY <3>1 DEF DraftsInv, KeysStand, SameKeySame, Twin
  <2>2. ASSUME NEW r \in Requests'
        PROVE  Sound(r)'
    <3>1. PICK q \in Requests : Twin(r, q)
      BY <1>11
    <3>2. Sound(r)
      BY <3>1, TwinsAlike DEF DraftsInv, KeysStand
    <3> QED BY <1>1, <1>10, <3>2 DEF Sound
  <2> QED BY <1>1, <2>1, <2>2 DEF DraftsInv, KeysStand
<1>14. OutboxStands'
  <2>1. ASSUME NEW x \in outbox', NEW y \in outbox', x.sequence = y.sequence
        PROVE  x = y
    <3>1. PICK x2 \in outbox, y2 \in outbox : x = Mark(x2) /\ y = Mark(y2)
      BY <1>6
    <3>2. x2.sequence = y2.sequence
      BY <1>3, <1>4, <2>1, <3>1 DEF Twin
    <3> QED BY <3>1, <3>2 DEF DraftsInv, OutboxStands
  <2>2. ASSUME NEW x \in outbox', x.attempted
        PROVE  x.sequence = i.sequence
    <3>1. PICK x2 \in outbox : x = Mark(x2)
      BY <1>6
    <3>2. CASE x2.sequence = i.sequence
      BY <1>3, <1>4, <3>1, <3>2 DEF Twin
    <3>3. CASE x2.sequence # i.sequence
      <4>1. x2 = x
        BY <1>3, <1>4, <3>1, <3>3
      <4> QED BY <1>0, <1>1, <2>2, <3>1, <4>1 DEF DraftsInv, PassStands
    <3> QED BY <3>2, <3>3
  <2>3. ASSUME NEW y \in outbox'
        PROVE  i.sequence <= y.sequence
    <3>1. PICK y2 \in outbox : y = Mark(y2)
      BY <1>6
    <3>2. y2.sequence = y.sequence /\ y2 \in RequestRow
      BY <1>3, <1>4, <3>1 DEF Twin
    <3>3. \/ \E z \in pass.items : z.sequence = y2.sequence
          \/ \A z \in pass.items : z.sequence < y2.sequence
      BY <1>1, <3>1 DEF DraftsInv, PassStands
    <3> QED BY <1>2, <3>2, <3>3 DEF RequestRow
  <2>4. ASSUME NEW x \in outbox', ~x.attempted
        PROVE  ~Replayed(x)' /\ \A r \in wire' : r.sequence # x.sequence
    <3>1. PICK x2 \in outbox : x = Mark(x2)
      BY <1>6
    <3>2. x2.sequence # i.sequence /\ x2 = x
      BY <1>3, <1>4, <2>4, <3>1
    <3>3. ~Replayed(x) /\ \A r \in wire : r.sequence # x.sequence
      BY <2>4, <3>1, <3>2 DEF DraftsInv, OutboxStands
    <3> QED BY <1>1, <1>5, <1>10, <3>2, <3>3 DEF Twin
  <2>5. outbox' # {} => \E x \in outbox' : x.sequence = keys' /\ x.command = draft'.command
    <3> SUFFICES ASSUME outbox' # {}
                 PROVE  \E x \in outbox' : x.sequence = keys /\ x.command = draft.command
      BY <1>1
    <3>1. PICK x \in outbox : x.sequence = keys /\ x.command = draft.command
      BY <1>6 DEF DraftsInv, OutboxStands
    <3> QED BY <1>3, <1>4, <1>7, <3>1 DEF Twin
  <2>6. ASSUME NEW x \in outbox', x.sequence # keys'
        PROVE  x.command.edit < draft'.command.edit
    <3>1. PICK x2 \in outbox : x = Mark(x2)
      BY <1>6
    <3>2. x2.sequence = x.sequence /\ x2.command = x.command
      BY <1>3, <1>4, <3>1 DEF Twin
    <3> QED BY <1>1, <2>6, <3>1, <3>2 DEF DraftsInv, OutboxStands
  <2>7. outbox' = {} /\ keys' > 0 => keys' \in DOMAIN receipts'
    <3>1. outbox' = {} => outbox = {}
      BY <1>7
    <3> QED BY <1>1, <3>1 DEF DraftsInv, OutboxStands
  <2> QED BY <2>1, <2>2, <2>3, <2>4, <2>5, <2>6, <2>7 DEF OutboxStands
<1>15. PassStands'
  <2>1. ASSUME NEW x \in outbox'
        PROVE  /\ \/ \E y \in pass.items : y.sequence = x.sequence
                  \/ \A y \in pass.items : y.sequence < x.sequence
               /\ x.attempted <=> x.sequence = i.sequence
    <3>1. PICK x2 \in outbox : x = Mark(x2)
      BY <1>6
    <3>2. x2.sequence = x.sequence /\ x2 \in RequestRow
      BY <1>3, <1>4, <3>1 DEF Twin
    <3>3. /\ \/ \E y \in pass.items : y.sequence = x2.sequence
             \/ \A y \in pass.items : y.sequence < x2.sequence
          /\ x2.attempted => x2.sequence = i.sequence
      BY <1>0, <1>1, <3>1 DEF DraftsInv, PassStands
    <3>4. x.attempted <=> x.sequence = i.sequence
      <4>1. CASE x2.sequence = i.sequence
        BY <1>4, <3>1, <3>2, <4>1
      <4>2. CASE x2.sequence # i.sequence
        BY <1>4, <3>1, <3>2, <3>3, <4>2
      <4> QED BY <4>1, <4>2
    <3> QED BY <3>2, <3>3, <3>4
  <2>2. pass.items # {} /\ \A x, y \in pass.items : x.sequence = y.sequence => x = y
    BY <1>1 DEF DraftsInv, PassStands
  <2> QED BY <1>8, <1>9, <2>1, <2>2 DEF PassStands
<1>16. EditsStand'
  <2>1. ASSUME NEW r \in Requests', Sendable(r)' \/ r \in outbox'
        PROVE  \E q \in Requests : Twin(r, q) /\ (Sendable(q) \/ q \in outbox \/ Dead(q))
    <3>1. CASE r \in wire
      BY <3>1 DEF Requests, Sendable, Twin
    <3>2. CASE r = sent
      <4>1. Sendable(i) \/ Dead(i)
        BY <1>0, <1>2 DEF Sendable
      <4> QED BY <1>2, <1>5, <3>2, <4>1
    <3>3. CASE r \in pass.items /\ ~Dead(i)
      <4>1. Sendable(r)
        BY <1>0, <3>3 DEF Sendable
      <4> QED BY <3>3, <4>1 DEF Requests, Twin
    <3>4. CASE r \in outbox'
      BY <1>3, <1>4, <1>6, <3>4 DEF Requests
    <3>5. Sendable(r)' => r \in wire \/ r = sent \/ (r \in pass.items /\ ~Dead(i))
      <4>1. Dead(Item)' <=> Dead(i)
        BY <1>1, <1>9 DEF Dead, Replayed, Acceptable, Current, Latest
      <4> QED BY <1>1, <1>8, <4>1 DEF Sendable
    <3> QED BY <2>1, <3>1, <3>2, <3>3, <3>4, <3>5
  <2>2. ASSUME NEW r \in Requests', Sendable(r)',
               r.sequence # keys, r.command.edit = draft.command.edit
        PROVE  Replayed(r) \/ Dead(r)
    <3>1. PICK q \in Requests : Twin(r, q) /\ (Sendable(q) \/ q \in outbox \/ Dead(q))
      BY <2>1, <2>2
    <3>2. q.sequence # keys /\ q.command.edit = draft.command.edit
      BY <2>2, <3>1 DEF Twin
    <3>3. q \notin outbox
      <4>1. q \in outbox => q.command.edit < draft.command.edit
        BY <3>2 DEF DraftsInv, OutboxStands
      <4>2. draft.command.edit \in Nat
        BY <1>3 DEF DraftRow, Command
      <4> QED BY <3>2, <4>1, <4>2
    <3>4. Replayed(q) \/ Dead(q)
      BY <3>1, <3>2, <3>3 DEF DraftsInv, EditsStand
    <3> QED BY <3>1, <3>4, TwinsAlike
  <2>3. ASSUME NEW r \in Requests', Sendable(r)' \/ r \in outbox', Acceptable(r), ~Replayed(r)
        PROVE  ~InOrder(r.command.edit)
    <3>1. PICK q \in Requests : Twin(r, q) /\ (Sendable(q) \/ q \in outbox \/ Dead(q))
      BY <2>1, <2>3
    <3>2. Acceptable(q) /\ ~Replayed(q) /\ ~Dead(q)
      BY <2>3, <3>1, TwinsAlike DEF Dead
    <3>3. ~InOrder(q.command.edit)
      BY <3>1, <3>2 DEF DraftsInv, EditsStand
    <3> QED BY <3>1, <3>3 DEF Twin
  <2>4. draft'.status = "conflict" => \E x \in outbox' : x.attempted /\ Dead(x)'
    <3> SUFFICES ASSUME draft.status = "conflict"
                 PROVE  \E x \in outbox' : x.attempted /\ Dead(x)
      BY <1>1, <1>10
    <3>1. PICK x \in outbox : x.attempted /\ Dead(x)
      BY DEF DraftsInv, EditsStand
    <3>2. x.sequence = i.sequence
      BY <1>0, <1>1, <3>1 DEF DraftsInv, PassStands
    <3> QED BY <1>3, <1>4, <1>7, <3>1, <3>2, TwinsAlike
  <2>5. keys' > 0 /\ keys' \notin DOMAIN receipts' => ~InOrder(draft.command.edit)
    BY <1>1 DEF DraftsInv, EditsStand
  <2> QED BY <1>1, <1>10, <2>2, <2>3, <2>4, <2>5 DEF EditsStand
<1>17. (SavedStands /\ SyncedIsSaved /\ EditAppliedOnce)'
  <2>1. outbox' = {} => outbox = {}
    BY <1>7
  <2> QED BY <1>1, <2>1 DEF DraftsInv, SavedStands, SyncedIsSaved, EditAppliedOnce
<1> QED BY <1>12, <1>13, <1>14, <1>15, <1>16, <1>17 DEF DraftsInv

(* What is saved leaves the outbox; the draft is marked if it was still there. *)
LEMMA MarkedKeeps ==
  ASSUME DraftsInv, NEW i \in RequestRow, i = Item, pass.at = "saved", pass' = Rest,
         outbox' = {x \in outbox : x.sequence # i.sequence},
         UNCHANGED <<keys, saving, wire, order, receipts, reference, shown>>,
         draft' \in DraftRow, draft'.command = draft.command,
         \/ draft' = draft /\ outbox' = outbox
         \/ /\ InOutbox /\ draft'.status = "synced"
            /\ draft'.saved.version \in DOMAIN order /\ draft'.saved.version <= Len(order)
            /\ draft'.saved.edit = i.command.edit
            /\ order[draft'.saved.version] = i.command.edit
  PROVE  DraftsInv'
<1>1. /\ i \in pass.items /\ i \in Requests
      /\ \A x \in pass.items : i.sequence <= x.sequence
  BY PassHasItem
<1>2. /\ outbox \subseteq RequestRow /\ pass \in PassRow /\ pass.items \subseteq RequestRow
      /\ keys \in Nat /\ draft \in DraftRow
  BY DEF DraftsInv, DraftRows, PassRow
<1>3. Replayed(i) /\ ~Dead(i) /\ i.sequence \in DOMAIN receipts
  BY DEF DraftsInv, PassStands, Dead, Replayed
<1>4. /\ pass' \in PassRow /\ pass'.items \subseteq pass.items /\ pass'.at \in {"idle", "next"}
      /\ pass'.items = pass.items \ {i}
      /\ pass'.at = "idle" <=> pass'.items = {}
  <2>1. CASE pass.items = {i}
    BY <2>1 DEF Rest, Idle, PassRow, None
  <2>2. CASE pass.items # {i}
    <3>1. pass' = [at |-> "next", items |-> pass.items \ {i}, answer |-> None]
      BY <2>2 DEF Rest
    <3>2. pass.items \ {i} # {}
      BY <1>1, <2>2
    <3> QED BY <1>2, <3>1, <3>2 DEF PassRow, None
  <2> QED BY <2>1, <2>2
<1>5. \A r : /\ Replayed(r)' = Replayed(r) /\ Acceptable(r)' = Acceptable(r)
             /\ Dead(r)' = Dead(r) /\ InOrder(r)' = InOrder(r)
  BY ServerRests
<1>6. Requests' \subseteq Requests /\ \A r : Sendable(r)' => Sendable(r)
  BY <1>3, <1>4 DEF Requests, Sendable
<1>7. DraftRows'
  BY <1>2, <1>4 DEF DraftsInv, DraftRows
<1>8. KeysStand'
  BY <1>5, <1>6 DEF DraftsInv, KeysStand, SameKeySame, Sound
(* What remains comes after the item that was saved. *)
<1>9. \A x \in outbox' : i.sequence < x.sequence /\ x.sequence <= keys /\ ~x.attempted
  <2> SUFFICES ASSUME NEW x \in outbox'
               PROVE  i.sequence < x.sequence /\ x.sequence <= keys /\ ~x.attempted
    OBVIOUS
  <2>1. x \in outbox /\ x.sequence # i.sequence /\ x \in RequestRow
    BY <1>2
  <2>2. \/ \E y \in pass.items : y.sequence = x.sequence
        \/ \A y \in pass.items : y.sequence < x.sequence
    BY <2>1 DEF DraftsInv, PassStands
  <2>3. x.attempted => x.sequence = i.sequence
    BY <2>1 DEF DraftsInv, PassStands
  <2>4. x.sequence <= keys
    BY <2>1 DEF DraftsInv, KeysStand, Sound, Requests
  <2> QED BY <1>1, <2>1, <2>2, <2>3, <2>4 DEF RequestRow
<1>10. OutboxStands'
  <2>1. outbox' # {} => \E x \in outbox' : x.sequence = keys' /\ x.command = draft'.command
    <3> SUFFICES ASSUME NEW z \in outbox'
                 PROVE  \E x \in outbox' : x.sequence = keys /\ x.command = draft.command
      OBVIOUS
    <3>1. PICK x \in outbox : x.sequence = keys /\ x.command = draft.command
      BY DEF DraftsInv, OutboxStands
    <3>2. i.sequence < z.sequence /\ z.sequence <= keys /\ z \in RequestRow
      BY <1>2, <1>9
    <3>3. x.sequence # i.sequence
      BY <1>2, <3>1, <3>2 DEF RequestRow
    <3> QED BY <3>1, <3>3
  <2>2. outbox' = {} /\ keys > 0 => keys \in DOMAIN receipts
    <3>1. CASE outbox = {}
      BY <3>1 DEF DraftsInv, OutboxStands
    <3>2. CASE outbox # {} /\ outbox' = {}
      <4>1. PICK x \in outbox : x.sequence = keys
        BY <3>2 DEF DraftsInv, OutboxStands
      <4> QED BY <1>3, <3>2, <4>1
    <3> QED BY <3>1, <3>2
  <2> QED BY <1>5, <2>1, <2>2 DEF DraftsInv, OutboxStands
<1>11. PassStands'
  <2>1. \A x, y \in pass'.items : x.sequence = y.sequence => x = y
    BY <1>4 DEF DraftsInv, PassStands
  <2>2. ASSUME NEW x \in outbox'
        PROVE  \/ \E y \in pass'.items : y.sequence = x.sequence
               \/ \A y \in pass'.items : y.sequence < x.sequence
    <3>1. \/ \E y \in pass.items : y.sequence = x.sequence
          \/ \A y \in pass.items : y.sequence < x.sequence
      BY DEF DraftsInv, PassStands
    <3>2. x.sequence # i.sequence
      OBVIOUS
    <3> QED BY <1>4, <3>1, <3>2
  <2> QED BY <1>4, <1>9, <2>1, <2>2 DEF PassStands
<1>12. EditsStand'
  <2>1. draft'.status = "conflict" => \E x \in outbox' : x.attempted /\ Dead(x)
    BY DEF DraftsInv, EditsStand
  <2> QED BY <1>5, <1>6, <2>1 DEF DraftsInv, EditsStand
<1>13. (SavedStands /\ SyncedIsSaved /\ EditAppliedOnce)'
  <2>1. CASE draft' = draft /\ outbox' = outbox
    BY <2>1 DEF DraftsInv, SavedStands, SyncedIsSaved, EditAppliedOnce
  <2>2. CASE InOutbox /\ outbox' = {} /\ draft'.status = "synced"
    <3>1. PICK x \in outbox : x.sequence = keys /\ x.command = draft.command
      BY <2>2 DEF InOutbox, DraftsInv, OutboxStands
    <3>2. x.sequence = i.sequence /\ x \in Requests
      BY <2>2 DEF Requests
    <3>3. i.command = draft.command
      BY <1>1, <3>1, <3>2 DEF DraftsInv, KeysStand, SameKeySame
    <3> QED BY <2>1, <2>2, <3>3 DEF DraftsInv, SavedStands, SyncedIsSaved, EditAppliedOnce
  <2>3. CASE outbox' # {}
    BY <2>3 DEF DraftsInv, SavedStands, SyncedIsSaved, EditAppliedOnce
  <2> QED BY <2>1, <2>2, <2>3
<1> QED BY <1>7, <1>8, <1>10, <1>11, <1>12, <1>13 DEF DraftsInv

LEMMA MarkSyncedDraftsStep ==
  ASSUME DraftsInv, MarkSynced
  PROVE  DraftsInv'
<1>0. PICK i \in RequestRow : i = Item
  BY PassHasItem DEF MarkSynced
<1>1. /\ pass.at = "saved" /\ pass' = Rest
      /\ outbox' = {x \in outbox : x.sequence # i.sequence}
      /\ UNCHANGED <<keys, saving, wire, order, receipts, reference, shown>>
  BY <1>0 DEF MarkSynced, Without
<1>2. /\ i \in pass.items /\ i \in Requests
      /\ \A x \in pass.items : i.sequence <= x.sequence
  BY <1>0, <1>1, PassHasItem
<1>3. /\ outbox \subseteq RequestRow /\ pass \in PassRow /\ pass.items \subseteq RequestRow
      /\ keys \in Nat /\ draft \in DraftRow
  BY DEF DraftsInv, DraftRows, PassRow
<1>4. Replayed(i) /\ pass.answer = receipts[i.sequence] /\ ~Dead(i)
  BY <1>0, <1>1 DEF DraftsInv, PassStands, Dead
<1>5. i.sequence \in DOMAIN receipts /\ pass.answer \in DOMAIN order /\ pass.answer \in Nat
  BY <1>3, <1>4 DEF DraftsInv, DraftRows, Replayed, PassRow
<1>6. pass.answer <= Len(order) /\ order[pass.answer] = i.command.edit
  <2>1. order \in Seq(Nat) /\ DOMAIN order = 1..Len(order) /\ Len(order) \in Nat
    BY LenProperties DEF DraftsInv, DraftRows
  <2>2. Sound(i)
    BY <1>2 DEF DraftsInv, KeysStand
  <2> QED BY <1>4, <1>5, <2>1, <2>2 DEF Sound
<1>7. CASE InOutbox
  <2> DEFINE one == [draft EXCEPT !.status = "synced"]
             two == [one EXCEPT !.expected = pass.answer]
             saved == [version |-> pass.answer, edit |-> i.command.edit]
  <2>1. draft' = [two EXCEPT !.saved = saved]
    BY <1>0, <1>7 DEF MarkSynced
  <2>2. one \in DraftRow /\ one.status = "synced" /\ one.command = draft.command
    BY <1>3 DEF DraftRow
  <2>3. two \in DraftRow /\ two.status = "synced" /\ two.command = draft.command
    <3> HIDE DEF one
    <3> QED BY <1>5, <2>2 DEF DraftRow
  <2>4. saved \in [version : Nat, edit : Nat] /\ saved.version = pass.answer /\ saved.edit = i.command.edit
    BY <1>5 DEF RequestRow, Command
  <2> HIDE DEF two, saved
  <2>5. /\ draft' \in DraftRow /\ draft'.status = "synced" /\ draft'.command = draft.command
        /\ draft'.saved = saved
    BY <2>1, <2>3, <2>4 DEF DraftRow
  <2> QED BY <1>0, <1>1, <1>5, <1>6, <1>7, <2>4, <2>5, MarkedKeeps
<1>8. CASE ~InOutbox
  <2>1. draft' = draft
    BY <1>8 DEF MarkSynced
  <2>2. outbox' = outbox
    BY <1>0, <1>1, <1>8 DEF InOutbox
  <2> QED BY <1>0, <1>1, <1>3, <2>1, <2>2, MarkedKeeps
<1> QED BY <1>7, <1>8

(* A command gets a new key: what was sent under others is settled, and its edit
   is not in the order. *)
LEMMA EnqueuedKeeps ==
  ASSUME DraftsInv, NEW kept \in SUBSET outbox, NEW command \in Command, NEW expected \in Nat,
         Enqueue(kept, command, expected),
         \A x \in kept : x.attempted /\ x.command.edit < command.edit,
         command.reference <= reference, expected <= Len(order),
         draft.command.edit <= command.edit, command.edit > 0, ~InOrder(command.edit),
         \A r \in Requests : Sendable(r) /\ r.command.edit = command.edit => Replayed(r) \/ Dead(r),
         saving' \subseteq saving,
         \A save \in saving' : save.command.edit = command.edit + 1,
         UNCHANGED <<pass, wire, order, receipts, reference, shown>>
  PROVE  DraftsInv'
<1> DEFINE new == [sequence |-> keys + 1, command |-> command, expected |-> expected,
                   attempted |-> FALSE]
           one == [draft EXCEPT !.status = "pending"]
           two == [one EXCEPT !.command = command]
<1>1. keys' = keys + 1 /\ outbox' = kept \cup {new} /\ draft' = [two EXCEPT !.expected = expected]
  BY DEF Enqueue
<1>2. /\ outbox \subseteq RequestRow /\ wire \subseteq RequestRow /\ pass \in PassRow
      /\ pass.items \subseteq RequestRow /\ keys \in Nat /\ draft \in DraftRow
      /\ DOMAIN receipts \subseteq 1..keys /\ order \in Seq(Nat)
  BY DEF DraftsInv, DraftRows, PassRow
<1>3. /\ draft' \in DraftRow /\ draft'.status = "pending" /\ draft'.command = command
      /\ draft'.saved = draft.saved
  <2>1. one \in DraftRow /\ one.status = "pending" /\ one.saved = draft.saved
    BY <1>2 DEF DraftRow
  <2>2. two \in DraftRow /\ two.status = "pending" /\ two.saved = draft.saved /\ two.command = command
    <3> HIDE DEF one
    <3> QED BY <2>1 DEF DraftRow
  <2> HIDE DEF two
  <2> QED BY <1>1, <2>2 DEF DraftRow
<1>4. /\ new \in RequestRow /\ new.sequence = keys + 1 /\ new.command = command
      /\ new.expected = expected /\ ~new.attempted
  BY <1>2 DEF RequestRow
<1> HIDE DEF new, one, two
<1>5. \A r : /\ Replayed(r)' = Replayed(r) /\ Acceptable(r)' = Acceptable(r)
             /\ Dead(r)' = Dead(r) /\ InOrder(r)' = InOrder(r)
  BY ServerRests
<1>6. Item' = Item /\ \A r : Sendable(r)' = Sendable(r)
  BY DEF Item, Sendable, Dead, Replayed, Acceptable, Current, Latest
<1>7. Requests' \subseteq Requests \cup {new}
  BY <1>1 DEF Requests
<1>8. \A r \in Requests : r.sequence <= keys /\ r \in RequestRow /\ r.sequence < keys + 1
  <2> SUFFICES ASSUME NEW r \in Requests
               PROVE  r.sequence <= keys /\ r \in RequestRow /\ r.sequence < keys + 1
    OBVIOUS
  <2>1. r.sequence <= keys /\ r \in RequestRow
    BY <1>2 DEF DraftsInv, KeysStand, Sound, Requests
  <2> QED BY <1>2, <2>1 DEF RequestRow
<1>9. ~Replayed(new) /\ new \notin Requests
  BY <1>2, <1>4, <1>8 DEF Replayed, RequestRow
<1>10. DraftRows'
  <2>1. outbox' \subseteq RequestRow
    BY <1>1, <1>2, <1>4
  <2>2. DOMAIN receipts \subseteq 1..keys'
    BY <1>1, <1>2
  <2>3. saving' \subseteq [command : Command, expected : Nat] /\ keys' \in Nat
    BY <1>1, <1>2 DEF DraftsInv, DraftRows
  <2> QED BY <1>3, <2>1, <2>2, <2>3 DEF DraftsInv, DraftRows
<1>11. KeysStand'
  <2>1. SameKeySame'
    <3> SUFFICES ASSUME NEW r \in Requests', NEW q \in Requests', r.sequence = q.sequence
                 PROVE  r.command = q.command /\ r.expected = q.expected
      BY DEF SameKeySame
    <3>1. CASE r \in Requests /\ q \in Requests
      BY <3>1 DEF DraftsInv, KeysStand, SameKeySame
    <3>2. CASE r = new \/ q = new
      <4>1. r = q
        BY <1>2, <1>4, <1>7, <1>8, <3>2 DEF RequestRow
      <4> QED BY <4>1
    <3> QED BY <1>7, <3>1, <3>2
  <2>2. ASSUME NEW r \in Requests'
        PROVE  Sound(r)'
    <3>1. CASE r \in Requests
      <4>1. Sound(r) /\ r \in RequestRow /\ r.sequence <= keys
        BY <1>8, <3>1 DEF DraftsInv, KeysStand
      <4>2. r.command.edit <= command.edit
        BY <1>2, <4>1 DEF Sound, RequestRow, Command, DraftRow
      <4>3. r.sequence <= keys'
        BY <1>1, <1>2, <4>1 DEF RequestRow
      <4> QED BY <1>3, <1>5, <4>1, <4>2, <4>3 DEF Sound
    <3>2. CASE r = new
      <4>1. command.edit <= command.edit /\ keys + 1 <= keys' /\ 0 < keys + 1
        BY <1>1, <1>2 DEF Command
      <4> QED BY <1>3, <1>4, <1>5, <1>9, <3>2, <4>1 DEF Sound
    <3> QED BY <1>7, <3>1, <3>2
  <2>3. \A v \in DOMAIN order : order[v] <= draft'.command.edit
    <3> SUFFICES ASSUME NEW v \in DOMAIN order
                 PROVE  order[v] <= command.edit
      BY <1>3
    <3>1. order[v] <= draft.command.edit /\ order[v] \in Nat
      BY <1>2, ElementOfSeq DEF DraftsInv, KeysStand
    <3> QED BY <1>2, <3>1 DEF DraftRow, Command
  <2>4. \A save \in saving' :
          /\ save.command.edit = draft'.command.edit + 1 /\ save.command.reference <= reference
          /\ save.expected <= Len(order)
    BY <1>3 DEF DraftsInv, KeysStand
  <2>5. /\ keys' > 0 => draft'.command.edit > 0
        /\ draft'.saved.version <= Len(order) /\ draft'.command.reference <= reference
        /\ shown <= reference
    BY <1>3 DEF DraftsInv, KeysStand
  <2> QED BY <2>1, <2>2, <2>3, <2>4, <2>5 DEF KeysStand
<1>12. OutboxStands'
  <2>1. kept \subseteq Requests /\ kept \subseteq RequestRow
    BY <1>2 DEF Requests
  <2>2. ASSUME NEW x \in outbox', NEW y \in outbox', x.sequence = y.sequence
        PROVE  x = y
    <3>1. CASE x \in kept /\ y \in kept
      BY <2>2, <3>1 DEF DraftsInv, OutboxStands
    <3>2. CASE x = new \/ y = new
      BY <1>1, <1>2, <1>4, <1>8, <2>1, <2>2, <3>2 DEF RequestRow
    <3> QED BY <1>1, <3>1, <3>2
  <2>3. ASSUME NEW x \in outbox', NEW y \in outbox', x.attempted
        PROVE  x.sequence <= y.sequence
    <3>1. x \in kept
      BY <1>1, <1>4, <2>3
    <3>2. CASE y \in kept
      BY <2>3, <3>1, <3>2 DEF DraftsInv, OutboxStands
    <3>3. CASE y = new
      BY <1>2, <1>4, <1>8, <2>1, <3>1, <3>3 DEF RequestRow
    <3> QED BY <1>1, <3>2, <3>3
  <2>4. ASSUME NEW x \in outbox', ~x.attempted
        PROVE  ~Replayed(x)' /\ \A r \in wire' : r.sequence # x.sequence
    <3>1. x = new
      BY <1>1, <2>4
    <3>2. \A r \in wire : r.sequence # keys + 1
      BY <1>2, <1>8 DEF Requests, RequestRow
    <3> QED BY <1>4, <1>5, <1>9, <3>1, <3>2
  <2>5. \E x \in outbox' : x.sequence = keys' /\ x.command = draft'.command
    BY <1>1, <1>3, <1>4
  <2>6. ASSUME NEW x \in outbox', x.sequence # keys'
        PROVE  x.command.edit < draft'.command.edit
    BY <1>1, <1>3, <1>4, <2>6
  <2> QED BY <2>2, <2>3, <2>4, <2>5, <2>6 DEF OutboxStands
<1>13. PassStands'
  <2>1. CASE pass.at = "idle"
    BY <2>1 DEF DraftsInv, PassStands
  <2>2. CASE pass.at # "idle"
    <3>1. /\ pass.items # {} /\ Item \in Requests /\ Item \in RequestRow
          /\ \A x, y \in pass.items : x.sequence = y.sequence => x = y
      BY <2>2, PassHasItem DEF DraftsInv, PassStands
    <3>2. ASSUME NEW x \in outbox'
          PROVE  /\ \/ \E y \in pass.items : y.sequence = x.sequence
                    \/ \A y \in pass.items : y.sequence < x.sequence
                 /\ x.attempted => x.sequence = Item.sequence
                 /\ x.sequence = Item.sequence => x.attempted
      <4>1. CASE x \in kept
        BY <2>2, <4>1 DEF DraftsInv, PassStands
      <4>2. CASE x = new
        <5>1. \A y \in pass.items : y.sequence < keys + 1
          BY <1>8 DEF Requests
        <5>2. Item.sequence # keys + 1
          BY <1>2, <1>8, <3>1 DEF RequestRow
        <5> QED BY <1>4, <4>2, <5>1, <5>2
      <4> QED BY <1>1, <4>1, <4>2
    <3>3. /\ pass.at = "saved" => Replayed(Item) /\ pass.answer = receipts[Item.sequence]
          /\ pass.at = "conflict" => Dead(Item)
      BY DEF DraftsInv, PassStands
    <3>4. (Replayed(Item) => Replayed(Item)') /\ (Dead(Item) => Dead(Item)')
      BY <1>6 DEF Dead, Replayed, Acceptable, Current, Latest
    <3> QED BY <1>6, <2>2, <3>1, <3>2, <3>3, <3>4 DEF PassStands
  <2> QED BY <2>1, <2>2
<1>14. EditsStand'
  <2>1. ~Sendable(new)
    BY <1>9 DEF Sendable, Requests
  <2>2. ASSUME NEW r \in Requests', Sendable(r), r.command.edit = command.edit
        PROVE  Replayed(r) \/ Dead(r)
    BY <1>7, <2>1, <2>2
  <2>3. ASSUME NEW r \in Requests', Sendable(r) \/ r \in outbox', Acceptable(r), ~Replayed(r)
        PROVE  ~InOrder(r.command.edit)
    <3>1. CASE r = new
      BY <1>4, <3>1
    <3>2. CASE r # new
      BY <1>1, <1>7, <2>3, <3>2 DEF DraftsInv, EditsStand
    <3> QED BY <3>1, <3>2
  <2> QED BY <1>3, <1>5, <1>6, <2>2, <2>3 DEF EditsStand
<1>15. (SavedStands /\ SyncedIsSaved /\ EditAppliedOnce)'
  BY <1>3 DEF DraftsInv, SavedStands, SyncedIsSaved, EditAppliedOnce
<1> QED BY <1>10, <1>11, <1>12, <1>13, <1>14, <1>15 DEF DraftsInv

LEMMA FinishSaveStep ==
  ASSUME DraftsInv, FinishSave
  PROVE  DraftsInv'
<1>1. PICK save \in saving :
        Enqueue({item \in outbox : item.attempted}, save.command, save.expected)
  BY DEF FinishSave
<1> DEFINE kept == {item \in outbox : item.attempted}
<1>2. /\ save.command \in Command /\ save.expected \in Nat
      /\ save.command.edit = draft.command.edit + 1 /\ save.command.reference <= reference
      /\ save.expected <= Len(order) /\ draft.command.edit \in Nat
      /\ draft.command.edit <= save.command.edit /\ save.command.edit > 0
  BY DEF DraftsInv, DraftRows, KeysStand, Command, DraftRow
<1>3. ~InOrder(save.command.edit)
  <2> SUFFICES ASSUME NEW v \in DOMAIN order
               PROVE  order[v] # save.command.edit
    BY DEF InOrder
  <2>1. order[v] \in Nat /\ order[v] <= draft.command.edit
    BY ElementOfSeq DEF DraftsInv, DraftRows, KeysStand
  <2> QED BY <1>2, <2>1
<1>4. \A r \in Requests : r.command.edit < save.command.edit
  <2> SUFFICES ASSUME NEW r \in Requests
               PROVE  r.command.edit < save.command.edit
    OBVIOUS
  <2>1. r.command.edit <= draft.command.edit /\ r \in RequestRow
    BY DEF DraftsInv, DraftRows, PassRow, KeysStand, Sound, Requests
  <2> QED BY <1>2, <2>1 DEF RequestRow, Command
<1>5. \A x \in kept : x.attempted /\ x.command.edit < save.command.edit
  BY <1>4 DEF Requests
<1>6. \A r \in Requests : r.command.edit # save.command.edit
  <2> SUFFICES ASSUME NEW r \in Requests
               PROVE  r.command.edit # save.command.edit
    OBVIOUS
  <2>1. r.command.edit < save.command.edit /\ r \in RequestRow
    BY <1>4 DEF DraftsInv, DraftRows, PassRow, Requests
  <2> QED BY <1>2, <2>1 DEF RequestRow, Command
<1>7. saving' = {} /\ UNCHANGED <<pass, wire, order, receipts, reference, shown>>
  BY DEF FinishSave
<1>8. kept \in SUBSET outbox /\ Enqueue(kept, save.command, save.expected)
  BY <1>1
<1> HIDE DEF kept
<1> QED BY <1>2, <1>3, <1>5, <1>6, <1>7, <1>8, EnqueuedKeeps

LEMMA ResolveConflictStep ==
  ASSUME DraftsInv, ResolveConflict
  PROVE  DraftsInv'
<1>1. /\ draft.status = "conflict" /\ Enqueue({}, draft.command, draft.saved.version)
      /\ UNCHANGED <<saving, pass, wire, order, receipts, reference, shown>>
  BY DEF ResolveConflict, RetryVersion
<1>2. /\ draft \in DraftRow /\ outbox \subseteq RequestRow /\ keys \in Nat
      /\ draft.command \in Command /\ draft.saved.version \in Nat
      /\ draft.saved.version <= Len(order) /\ draft.command.reference <= reference
  BY DEF DraftsInv, DraftRows, KeysStand, DraftRow
<1>3. PICK x \in outbox : x.attempted /\ Dead(x)
  BY <1>1 DEF DraftsInv, EditsStand
<1>4. PICK last \in outbox : last.sequence = keys /\ last.command = draft.command
  BY <1>3 DEF DraftsInv, OutboxStands
<1>5. x.sequence <= keys /\ x.sequence \in Nat /\ x \in Requests /\ last \in Requests
  BY <1>2, <1>3 DEF DraftsInv, KeysStand, Sound, Requests, RequestRow
(* The last key was refused, or never used. *)
<1>6. /\ keys \notin DOMAIN receipts
      /\ \A r \in Requests : Sendable(r) /\ r.sequence = keys => Dead(r)
  <2>1. CASE last.attempted
    <3>1. x.sequence = keys
      <4>1. last.sequence <= x.sequence
        BY <2>1 DEF DraftsInv, OutboxStands
      <4> QED BY <1>2, <1>4, <1>5, <4>1
    <3>2. keys \notin DOMAIN receipts
      BY <1>3, <3>1 DEF Dead, Replayed
    <3>3. \A r \in Requests : r.sequence = keys => Twin(r, x)
      BY <1>5, <3>1 DEF DraftsInv, KeysStand, SameKeySame, Twin
    <3> QED BY <1>3, <3>2, <3>3, TwinsAlike
  <2>2. CASE ~last.attempted
    <3>1. ~Replayed(last) /\ \A r \in wire : r.sequence # keys
      BY <1>4, <2>2 DEF DraftsInv, OutboxStands
    <3>2. ASSUME NEW r \in Requests, Sendable(r), r.sequence = keys
          PROVE  FALSE
      <4>1. r \in pass.items /\ ~Dead(Item) /\ pass.at # "idle"
        BY <3>1, <3>2 DEF Sendable, DraftsInv, PassStands
      <4>2. x.sequence = Item.sequence /\ Item \in Requests
        BY <1>3, <4>1, PassHasItem DEF DraftsInv, PassStands
      <4>3. Twin(Item, x)
        BY <1>5, <4>2 DEF DraftsInv, KeysStand, SameKeySame, Twin
      <4> QED BY <1>3, <4>1, <4>3, TwinsAlike
    <3> QED BY <1>4, <3>1, <3>2 DEF Replayed
  <2> QED BY <2>1, <2>2
<1>7. keys > 0 /\ draft.command.edit > 0
  <2>1. 0 < last.sequence
    BY <1>5 DEF DraftsInv, KeysStand, Sound
  <2> QED BY <1>2, <1>4, <2>1 DEF DraftsInv, KeysStand
<1>8. ~InOrder(draft.command.edit)
  BY <1>6, <1>7 DEF DraftsInv, EditsStand
<1>9. \A r \in Requests : Sendable(r) /\ r.command.edit = draft.command.edit => Replayed(r) \/ Dead(r)
  BY <1>6 DEF DraftsInv, EditsStand
<1>10. \A save \in saving' : save.command.edit = draft.command.edit + 1
  BY <1>1 DEF DraftsInv, KeysStand
<1>11. draft.command.edit <= draft.command.edit
  BY <1>2 DEF Command
<1> QED BY <1>1, <1>2, <1>7, <1>8, <1>9, <1>10, <1>11, EnqueuedKeeps

(* The server answers a request by what it did before, or refuses it. *)
LEMMA AnsweredKeeps ==
  ASSUME DraftsInv, NEW r \in wire, wire' \subseteq wire,
         NEW at \in {"saved", "conflict"}, NEW version \in Nat, Answered(r, at, version),
         at = "saved" => Replayed(r) /\ version = receipts[r.sequence],
         at = "conflict" => Dead(r),
         UNCHANGED <<draft, outbox, keys, saving, order, receipts, reference, shown>>
  PROVE  DraftsInv'
<1>1. pass \in PassRow
  BY DEF DraftsInv, DraftRows
<1>2. \/ pass' = pass
      \/ /\ pass.at = "sent" /\ Item.sequence = r.sequence
         /\ pass' = [[pass EXCEPT !.at = at] EXCEPT !.answer = version]
  BY DEF Answered
<1>3. \/ pass' = pass
      \/ /\ pass.at = "sent" /\ Item.sequence = r.sequence
         /\ pass' \in PassRow /\ pass'.at = at /\ pass'.answer = version
         /\ pass'.items = pass.items
  <2> DEFINE one == [pass EXCEPT !.at = at]
  <2>1. one \in PassRow /\ one.at = at /\ one.items = pass.items
    BY <1>1 DEF PassRow
  <2>2. CASE pass' = [one EXCEPT !.answer = version] /\ pass.at = "sent" /\ Item.sequence = r.sequence
    <3> HIDE DEF one
    <3> QED BY <2>1, <2>2 DEF PassRow
  <2> QED BY <1>2, <2>2
<1>4. pass' \in PassRow /\ pass'.items = pass.items /\ Item' = Item
      /\ (pass'.at = "idle" <=> pass.at = "idle")
  BY <1>1, <1>3 DEF Item
<1>5. \A q : /\ Replayed(q)' = Replayed(q) /\ Acceptable(q)' = Acceptable(q)
             /\ Dead(q)' = Dead(q) /\ InOrder(q)' = InOrder(q)
  BY ServerRests
<1>6. (Replayed(Item)' <=> Replayed(Item)) /\ (Dead(Item)' <=> Dead(Item))
  BY <1>4 DEF Dead, Replayed, Acceptable, Current, Latest
<1>7. Requests' \subseteq Requests /\ \A q : Sendable(q)' => Sendable(q)
  BY <1>4, <1>6 DEF Requests, Sendable
<1>8. DraftRows'
  BY <1>4 DEF DraftsInv, DraftRows
<1>9. KeysStand'
  BY <1>5, <1>7 DEF DraftsInv, KeysStand, SameKeySame, Sound
<1>10. OutboxStands'
  BY <1>5 DEF DraftsInv, OutboxStands
<1>11. PassStands'
  <2>1. CASE pass' = pass
    BY <1>4, <1>6, <2>1 DEF DraftsInv, PassStands
  <2>2. CASE /\ pass.at = "sent" /\ Item.sequence = r.sequence
             /\ pass'.at = at /\ pass'.answer = version
    <3>1. Item \in Requests /\ r \in Requests
      BY <2>2, PassHasItem DEF Requests
    <3>2. Twin(Item, r)
      BY <2>2, <3>1 DEF DraftsInv, KeysStand, SameKeySame, Twin
    <3>3. (Replayed(Item) <=> Replayed(r)) /\ (Dead(Item) <=> Dead(r))
      BY <3>2, TwinsAlike
    <3> QED BY <1>4, <1>6, <2>2, <3>3 DEF DraftsInv, PassStands
  <2> QED BY <1>3, <2>1, <2>2
<1>12. EditsStand'
  BY <1>5, <1>7 DEF DraftsInv, EditsStand
<1>13. (SavedStands /\ SyncedIsSaved /\ EditAppliedOnce)'
  BY DEF DraftsInv, SavedStands, SyncedIsSaved, EditAppliedOnce
<1> QED BY <1>8, <1>9, <1>10, <1>11, <1>12, <1>13 DEF DraftsInv

(* The server moves on: what any request expects or refers to is past, and a key
   that is new among the receipts is of a request it has just accepted. *)
LEMMA MovedKeeps ==
  ASSUME DraftsInv, wire' \subseteq wire,
         UNCHANGED <<draft, outbox, keys, saving, shown>>,
         order' \in Seq(Nat), Len(order) <= Len(order'),
         \A v \in DOMAIN order : v \in DOMAIN order' /\ order'[v] = order[v],
         \A v \in DOMAIN order' : order'[v] <= draft.command.edit,
         reference' \in Nat, reference <= reference',
         \A r \in Requests : ~Acceptable(r)',
         DOMAIN receipts \subseteq DOMAIN receipts', DOMAIN receipts' \subseteq 1..keys,
         \A k \in DOMAIN receipts : receipts'[k] = receipts[k],
         \A k \in DOMAIN receipts' : receipts'[k] \in DOMAIN order',
         \A k \in DOMAIN receipts' \ DOMAIN receipts : \E q \in wire :
           /\ q.sequence = k /\ Acceptable(q)
           /\ order'[receipts'[k]] = q.command.edit,
         keys > 0 /\ keys \notin DOMAIN receipts' => ~InOrder(draft.command.edit)',
         EditAppliedOnce',
         pass' \in PassRow, pass'.items = pass.items,
         \/ pass' = pass
         \/ /\ pass.at = "sent" /\ pass'.at = "saved"
            /\ Replayed(Item)' /\ pass'.answer = receipts'[Item.sequence]
  PROVE  DraftsInv'
<1>1. Item' = Item /\ Requests' \subseteq Requests
  BY DEF Item, Requests
<1>2. /\ order \in Seq(Nat) /\ Len(order) \in Nat /\ Len(order') \in Nat
      /\ draft \in DraftRow /\ reference \in Nat /\ keys \in Nat
  BY LenProperties DEF DraftsInv, DraftRows
<1>3. \A r : Replayed(r) => Replayed(r)' /\ receipts'[r.sequence] = receipts[r.sequence]
  BY DEF Replayed
<1>4. ASSUME NEW r \in Requests, Replayed(r)', ~Replayed(r)
      PROVE  /\ Acceptable(r) /\ order'[receipts'[r.sequence]] = r.command.edit
             /\ \E q \in wire : q.sequence = r.sequence
  <2>1. PICK q \in wire : /\ q.sequence = r.sequence /\ Acceptable(q)
                          /\ order'[receipts'[r.sequence]] = q.command.edit
    BY <1>4 DEF Replayed
  <2>2. q \in Requests
    BY DEF Requests
  <2>3. Twin(r, q)
    BY <2>1, <2>2 DEF DraftsInv, KeysStand, SameKeySame, Twin
  <2> QED BY <2>1, <2>3, TwinsAlike DEF Twin
<1>5. \A r \in Requests : Dead(r) => Dead(r)'
  BY <1>4 DEF Dead
<1>6. \A r \in Requests : Sound(r)'
  <2> SUFFICES ASSUME NEW r \in Requests
               PROVE  Sound(r)'
    OBVIOUS
  <2>1. Sound(r) /\ r \in RequestRow
    BY DEF DraftsInv, DraftRows, PassRow, KeysStand, Requests
  <2>2. r.expected <= Len(order') /\ r.command.reference <= reference'
    BY <1>2, <2>1 DEF Sound, RequestRow, Command
  <2>3. Replayed(r)' => order'[receipts'[r.sequence]] = r.command.edit
    <3>1. CASE Replayed(r)
      BY <1>3, <2>1, <3>1 DEF Sound, DraftsInv, DraftRows, Replayed
    <3>2. CASE ~Replayed(r)
      BY <1>4, <3>2
    <3> QED BY <3>1, <3>2
  <2> QED BY <2>1, <2>2, <2>3 DEF Sound
<1>7. DraftRows'
  <2>1. DOMAIN receipts' \subseteq 1..keys'
    OBVIOUS
  <2> QED BY <2>1 DEF DraftsInv, DraftRows
<1>8. KeysStand'
  <2>1. SameKeySame'
    BY <1>1 DEF DraftsInv, KeysStand, SameKeySame
  <2>2. /\ draft.saved.version <= Len(order') /\ draft.command.reference <= reference'
        /\ shown <= reference'
    BY <1>2 DEF DraftsInv, DraftRows, KeysStand, DraftRow, Command
  <2>3. ASSUME NEW save \in saving
        PROVE  save.command.reference <= reference' /\ save.expected <= Len(order')
    <3>1. /\ save.command.reference <= reference /\ save.expected <= Len(order)
          /\ save.command.reference \in Nat /\ save.expected \in Nat
      BY DEF DraftsInv, DraftRows, KeysStand, Command
    <3> QED BY <1>2, <3>1
  <2> QED BY <1>1, <1>6, <2>1, <2>2, <2>3 DEF DraftsInv, KeysStand
<1>9. OutboxStands'
  <2>1. ASSUME NEW x \in outbox, ~x.attempted
        PROVE  ~Replayed(x)' /\ \A r \in wire' : r.sequence # x.sequence
    <3>1. ~Replayed(x) /\ \A r \in wire : r.sequence # x.sequence
      BY <2>1 DEF DraftsInv, OutboxStands
    <3> QED BY <1>4, <3>1 DEF Requests
  <2> QED BY <2>1 DEF DraftsInv, OutboxStands
<1>10. Dead(Item) /\ pass.at # "idle" => Dead(Item)'
  <2>1. ASSUME Dead(Item), pass.at # "idle"
        PROVE  Dead(Item)'
    <3>1. PICK i \in Requests : i = Item
      BY <2>1, PassHasItem
    <3>2. Dead(i)'
      BY <1>5, <2>1, <3>1
    <3> QED BY <1>1, <3>1, <3>2 DEF Dead, Replayed, Acceptable, Current, Latest
  <2> QED BY <2>1
<1>11. PassStands'
  <2>1. CASE pass' = pass
    <3>1. pass.at = "saved" => Replayed(Item)' /\ pass.answer = receipts'[Item.sequence]
      BY <1>1 DEF DraftsInv, PassStands, Replayed
    <3> QED BY <1>1, <1>10, <2>1, <3>1 DEF DraftsInv, PassStands
  <2>2. CASE /\ pass.at = "sent" /\ pass'.at = "saved"
             /\ Replayed(Item)' /\ pass'.answer = receipts'[Item.sequence]
    BY <1>1, <2>2 DEF DraftsInv, PassStands
  <2> QED BY <2>1, <2>2
<1>12. EditsStand'
  <2>1. \A r \in Requests' : ~Acceptable(r)' /\ (Replayed(r)' \/ Dead(r)')
    BY <1>1 DEF Dead
  <2>2. draft.status = "conflict" => \E x \in outbox : x.attempted /\ Dead(x)'
    BY <1>5 DEF DraftsInv, EditsStand, Requests
  <2> QED BY <2>1, <2>2 DEF EditsStand
<1>13. (SavedStands /\ SyncedIsSaved)'
  BY DEF DraftsInv, SavedStands, SyncedIsSaved
<1> QED BY <1>7, <1>8, <1>9, <1>11, <1>12, <1>13 DEF DraftsInv

(* A revision comes after all that requests expect. *)
LEMMA RevisionPasses ==
  ASSUME DraftsInv, NEW edit \in Nat, Revise(edit), reference' = reference
  PROVE  /\ order' \in Seq(Nat) /\ Len(order') = Len(order) + 1 /\ Len(order) <= Len(order')
         /\ DOMAIN order' = DOMAIN order \cup {Len(order) + 1} /\ Len(order) + 1 \notin DOMAIN order
         /\ \A v \in DOMAIN order : order'[v] = order[v]
         /\ order'[Len(order) + 1] = edit
         /\ \A r \in Requests : ~Acceptable(r)'
<1>1. order \in Seq(Nat) /\ order' = Append(order, edit) /\ Len(order) \in Nat
      /\ DOMAIN order = 1..Len(order)
  BY LenProperties DEF DraftsInv, DraftRows, Revise
<1>2. /\ order' \in Seq(Nat) /\ Len(order') = Len(order) + 1
      /\ \A v \in 1..Len(order) : order'[v] = order[v]
      /\ order'[Len(order) + 1] = edit
  BY <1>1, AppendProperties
<1>3. DOMAIN order' = 1..Len(order) + 1
  BY <1>2, LenProperties
<1>4. ASSUME NEW r \in Requests
      PROVE  ~Acceptable(r)'
  <2>1. r.expected <= Len(order) /\ r \in RequestRow
    BY DEF DraftsInv, DraftRows, PassRow, KeysStand, Sound, Requests
  <2>2. Len(order') # r.expected
    BY <1>1, <1>2, <2>1 DEF RequestRow
  <2> QED BY <2>2 DEF Acceptable, Latest
<1> QED BY <1>1, <1>2, <1>3, <1>4

LEMMA OfficeRevisesStep ==
  ASSUME DraftsInv, OfficeRevises
  PROVE  DraftsInv'
<1>1. Revise(0) /\ UNCHANGED <<draft, outbox, keys, saving, pass, wire, receipts, reference, shown>>
  BY DEF OfficeRevises
<1>2. draft \in DraftRow /\ reference \in Nat /\ pass \in PassRow /\ Len(order) \in Nat
  BY LenProperties DEF DraftsInv, DraftRows
<1>3. /\ order' \in Seq(Nat) /\ Len(order) <= Len(order')
      /\ DOMAIN order' = DOMAIN order \cup {Len(order) + 1}
      /\ \A v \in DOMAIN order : order'[v] = order[v]
      /\ order'[Len(order) + 1] = 0
      /\ \A r \in Requests : ~Acceptable(r)'
  BY <1>1, RevisionPasses
<1>4. draft.command.edit \in Nat /\ reference <= reference'
  BY <1>1, <1>2 DEF DraftRow, Command
<1>5. \A v \in DOMAIN order' : order'[v] <= draft.command.edit
  BY <1>3, <1>4 DEF DraftsInv, KeysStand
<1>6. keys > 0 /\ keys \notin DOMAIN receipts' => ~InOrder(draft.command.edit)'
  BY <1>1, <1>3, <1>4 DEF DraftsInv, KeysStand, EditsStand, InOrder
<1>7. EditAppliedOnce'
  BY <1>3 DEF DraftsInv, EditAppliedOnce
<1>8. /\ DOMAIN receipts' \subseteq 1..keys
      /\ \A k \in DOMAIN receipts' : receipts'[k] \in DOMAIN order'
  BY <1>1, <1>3 DEF DraftsInv, DraftRows
<1> QED BY <1>1, <1>2, <1>3, <1>4, <1>5, <1>6, <1>7, <1>8, MovedKeeps

LEMMA ReferencesChangeStep ==
  ASSUME DraftsInv, ReferencesChange
  PROVE  DraftsInv'
<1>1. /\ reference' = reference + 1
      /\ UNCHANGED <<draft, outbox, keys, saving, pass, wire, order, receipts, shown>>
  BY DEF ReferencesChange
<1>2. /\ reference \in Nat /\ pass \in PassRow /\ order \in Seq(Nat) /\ Len(order) \in Nat
  BY LenProperties DEF DraftsInv, DraftRows
<1>3. reference' \in Nat /\ reference <= reference' /\ Len(order) <= Len(order')
  BY <1>1, <1>2
<1>4. ASSUME NEW r \in Requests
      PROVE  ~Acceptable(r)'
  <2>1. r.command.reference <= reference /\ r \in RequestRow
    BY DEF DraftsInv, DraftRows, PassRow, KeysStand, Sound, Requests
  <2>2. r.command.reference # reference'
    BY <1>1, <1>2, <2>1 DEF RequestRow, Command
  <2> QED BY <2>2 DEF Acceptable, Current
<1>5. keys > 0 /\ keys \notin DOMAIN receipts' => ~InOrder(draft.command.edit)'
  BY <1>1 DEF DraftsInv, EditsStand, InOrder
<1>6. EditAppliedOnce' /\ \A v \in DOMAIN order' : order'[v] <= draft.command.edit
  BY <1>1 DEF DraftsInv, KeysStand, EditAppliedOnce
<1>7. /\ DOMAIN receipts' \subseteq 1..keys
      /\ \A k \in DOMAIN receipts' : receipts'[k] \in DOMAIN order'
  BY <1>1 DEF DraftsInv, DraftRows
<1> QED BY <1>1, <1>2, <1>3, <1>4, <1>5, <1>6, <1>7, MovedKeeps

(* The server accepts a request. *)
LEMMA AcceptKeeps ==
  ASSUME DraftsInv, NEW r \in wire, wire' \subseteq wire,
         ~Replayed(r), Acceptable(r), Revise(r.command.edit),
         receipts' = [k \in DOMAIN receipts \cup {r.sequence} |->
           IF k = r.sequence THEN Latest + 1 ELSE receipts[k]],
         Answered(r, "saved", Latest + 1),
         UNCHANGED <<draft, outbox, keys, saving, reference, shown>>
  PROVE  DraftsInv'
<1> DEFINE n == Len(order) + 1
<1>1. r \in Requests /\ r \in RequestRow /\ Sound(r) /\ r.command.edit \in Nat
  BY DEF DraftsInv, DraftRows, KeysStand, Requests, RequestRow, Command
<1>2. /\ draft \in DraftRow /\ reference \in Nat /\ keys \in Nat /\ pass \in PassRow
      /\ Len(order) \in Nat /\ n \in Nat /\ r.sequence \notin DOMAIN receipts
      /\ reference <= reference'
  BY LenProperties DEF DraftsInv, DraftRows, Replayed
<1>3. /\ order' \in Seq(Nat) /\ Len(order) <= Len(order')
      /\ DOMAIN order' = DOMAIN order \cup {n} /\ n \notin DOMAIN order
      /\ \A v \in DOMAIN order : order'[v] = order[v]
      /\ order'[n] = r.command.edit
      /\ \A q \in Requests : ~Acceptable(q)'
  BY <1>1, RevisionPasses
<1>4. /\ DOMAIN receipts' = DOMAIN receipts \cup {r.sequence} /\ receipts'[r.sequence] = n
      /\ \A k \in DOMAIN receipts : receipts'[k] = receipts[k]
  BY <1>2 DEF Latest
<1> HIDE DEF n
<1>5. \A v \in DOMAIN order' : order'[v] <= draft.command.edit
  BY <1>1, <1>3 DEF DraftsInv, KeysStand, Sound
<1>6. /\ DOMAIN receipts' \subseteq 1..keys
      /\ \A k \in DOMAIN receipts' : receipts'[k] \in DOMAIN order'
  <2>1. r.sequence \in 1..keys
    BY <1>1, <1>2 DEF Sound, RequestRow
  <2> QED BY <1>3, <1>4, <2>1 DEF DraftsInv, DraftRows
<1>7. \A k \in DOMAIN receipts' \ DOMAIN receipts : \E q \in wire :
        /\ q.sequence = k /\ Acceptable(q)
        /\ order'[receipts'[k]] = q.command.edit
  BY <1>3, <1>4
<1>8. ~InOrder(r.command.edit)
  BY <1>1 DEF DraftsInv, EditsStand, Sendable
<1>9. keys > 0 /\ keys \notin DOMAIN receipts' => ~InOrder(draft.command.edit)'
  <2> SUFFICES ASSUME keys > 0, keys \notin DOMAIN receipts'
               PROVE  ~InOrder(draft.command.edit)'
    OBVIOUS
  <2>1. r.sequence # keys /\ ~InOrder(draft.command.edit)
    BY <1>4 DEF DraftsInv, EditsStand
  <2>2. r.command.edit # draft.command.edit
    BY <1>1, <2>1 DEF DraftsInv, EditsStand, Sendable, Dead
  <2> QED BY <1>3, <2>1, <2>2 DEF InOrder
<1>10. EditAppliedOnce'
  BY <1>3, <1>8 DEF DraftsInv, EditAppliedOnce, InOrder
<1>11. /\ pass' \in PassRow /\ pass'.items = pass.items
       /\ \/ pass' = pass
          \/ /\ pass.at = "sent" /\ pass'.at = "saved"
             /\ Item.sequence = r.sequence /\ pass'.answer = n
  <2> DEFINE one == [pass EXCEPT !.at = "saved"]
  <2>1. one \in PassRow /\ one.at = "saved" /\ one.items = pass.items
    BY <1>2 DEF PassRow
  <2>2. CASE pass' = [one EXCEPT !.answer = n] /\ pass.at = "sent" /\ Item.sequence = r.sequence
    <3> HIDE DEF one
    <3> QED BY <1>2, <2>1, <2>2 DEF PassRow
  <2>3. CASE pass' = pass
    BY <1>2, <2>3
  <2> QED BY <2>2, <2>3 DEF Answered, Latest, n
<1>12. \/ pass' = pass
       \/ /\ pass.at = "sent" /\ pass'.at = "saved"
          /\ Replayed(Item)' /\ pass'.answer = receipts'[Item.sequence]
  <2>1. Item' = Item
    BY <1>11 DEF Item
  <2> QED BY <1>4, <1>11, <2>1 DEF Replayed
<1> QED BY <1>2, <1>3, <1>4, <1>5, <1>6, <1>7, <1>9, <1>10, <1>11, <1>12, MovedKeeps

LEMMA HandleDraftsStep ==
  ASSUME DraftsInv, NEW r \in wire, Handle(r)
  PROVE  DraftsInv'
<1>1. wire' \subseteq wire /\ UNCHANGED <<draft, outbox, keys, saving, reference, shown>>
  BY DEF Handle
<1>2. CASE /\ Replayed(r) /\ Answered(r, "saved", receipts[r.sequence])
           /\ UNCHANGED <<order, receipts>>
  <2>1. receipts[r.sequence] \in Nat
    <3>1. receipts[r.sequence] \in DOMAIN order /\ DOMAIN order = 1..Len(order) /\ Len(order) \in Nat
      BY <1>2, LenProperties DEF DraftsInv, DraftRows, Replayed
    <3> QED BY <3>1
  <2> QED BY <1>1, <1>2, <2>1, AnsweredKeeps
<1>3. CASE /\ ~Replayed(r) /\ Acceptable(r)
           /\ Revise(r.command.edit)
           /\ receipts' = [k \in DOMAIN receipts \cup {r.sequence} |->
                IF k = r.sequence THEN Latest + 1 ELSE receipts[k]]
           /\ Answered(r, "saved", Latest + 1)
  BY <1>1, <1>3, AcceptKeeps
<1>4. CASE /\ ~Replayed(r) /\ ~Acceptable(r) /\ Answered(r, "conflict", None)
           /\ UNCHANGED <<order, receipts>>
  <2>1. None \in Nat /\ Dead(r)
    BY <1>4 DEF None, Dead
  <2> QED BY <1>1, <1>4, <2>1, AnsweredKeeps
<1> QED BY <1>2, <1>3, <1>4 DEF Handle

LEMMA DraftsInvInit == DraftsInit => DraftsInv
<1> SUFFICES ASSUME DraftsInit
             PROVE  DraftsInv
  OBVIOUS
<1>1. /\ order = <<>> /\ DOMAIN order = {} /\ order \in Seq(Nat) /\ Len(order) = 0
      /\ receipts = <<>> /\ DOMAIN receipts = {}
  BY DEF DraftsInit
<1>2. /\ outbox = {} /\ wire = {} /\ pass.items = {} /\ pass.at = "idle" /\ keys = 0
      /\ saving = {} /\ pass = Idle /\ reference = 1 /\ shown = 1
  BY DEF DraftsInit, Idle
<1>3. /\ draft \in DraftRow /\ draft.status = "none" /\ draft.saved.version = 0
      /\ draft.command.reference = 1
  BY DEF DraftsInit, DraftRow, Command, Unsaved, None
<1>4. DraftRows
  BY <1>1, <1>2, <1>3 DEF DraftRows, PassRow, Idle, None
<1>5. KeysStand
  BY <1>1, <1>2, <1>3 DEF KeysStand, SameKeySame, Requests
<1>6. OutboxStands /\ PassStands
  BY <1>2 DEF OutboxStands, PassStands
<1>7. EditsStand
  BY <1>2, <1>3 DEF EditsStand, Requests
<1>8. SavedStands /\ SyncedIsSaved /\ EditAppliedOnce
  BY <1>1, <1>3 DEF SavedStands, SyncedIsSaved, EditAppliedOnce
<1> QED BY <1>4, <1>5, <1>6, <1>7, <1>8 DEF DraftsInv

LEMMA DraftsInvNext == DraftsInv /\ [DraftsNext]_draftVars => DraftsInv'
<1> SUFFICES ASSUME DraftsInv, [DraftsNext]_draftVars
             PROVE  DraftsInv'
  OBVIOUS
<1>1. CASE BeginSave \/ FinishSave \/ ResolveConflict \/ ShowReferences
  BY <1>1, BeginSaveStep, FinishSaveStep, ResolveConflictStep, ShowReferencesStep
<1>2. CASE StartSync \/ Attempt \/ GiveUp \/ MarkSynced \/ Stop
  BY <1>2, StartSyncDraftsStep, AttemptStep, StopSyncStep, MarkSyncedDraftsStep
<1>3. CASE \E saved \in {Authoritative, Unsaved} : MarkConflict(saved)
  BY <1>3, MarkConflictStep
<1>4. CASE \E request \in wire : Handle(request)
  BY <1>4, HandleDraftsStep
<1>5. CASE OfficeRevises \/ ReferencesChange
  BY <1>5, OfficeRevisesStep, ReferencesChangeStep
<1>6. CASE UNCHANGED draftVars
  <2>1. shown' \in Nat /\ shown' <= reference
    BY <1>6 DEF draftVars, DraftsInv, DraftRows, KeysStand
  <2>2. saving' = saving /\ saving \subseteq [command : Command, expected : Nat]
    BY <1>6 DEF draftVars, DraftsInv, DraftRows
  <2>3. \A save \in saving :
          /\ save.command.edit = draft.command.edit + 1 /\ save.command.reference <= reference
          /\ save.expected <= Len(order)
    BY DEF DraftsInv, KeysStand
  <2> QED BY <1>6, <2>1, <2>2, <2>3, NotesKeep DEF draftVars
<1> QED BY <1>1, <1>2, <1>3, <1>4, <1>5, <1>6 DEF DraftsNext

(* The invariant of the drafts. *)
THEOREM DraftsInvariant == DraftsSpec => []DraftsInv
BY DraftsInvInit, DraftsInvNext, PTL DEF DraftsSpec

(* What the device shows as synced, with nothing left to send, is its last edit,
   and the server made a revision of it, for any number of edits, keys, revisions
   by the office and requests that were lost or handled late. *)
THEOREM SyncedIsAlwaysSaved == DraftsSpec => []SyncedIsSaved
<1>1. DraftsInv => SyncedIsSaved
  BY DEF DraftsInv
<1> QED BY <1>1, DraftsInvariant, PTL

(* However often an edit is sent, and under however many keys, it becomes one
   revision of the order at most. *)
THEOREM EditsAppliedOnce == DraftsSpec => []EditAppliedOnce
<1>1. DraftsInv => EditAppliedOnce
  BY DEF DraftsInv
<1> QED BY <1>1, DraftsInvariant, PTL

=============================================================================
