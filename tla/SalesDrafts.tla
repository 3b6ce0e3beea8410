---------------------------- MODULE SalesDrafts ----------------------------
(***************************************************************************)
(* A sales order drafted on a device that is offline most of the time: the *)
(* local draft and its outbox in SQLite, the passes that send the outbox   *)
(* to the server, and the order and the command receipts on the server,    *)
(* where the office revises the same order.                                *)
(*                                                                         *)
(* A command is one edit of the user, with the references (customer, price *)
(* list, pricing date) that were shown then.  The server refuses a command *)
(* whose references are no longer current.  A command of the office is one *)
(* step: it holds the row of the order.  The status of the order is left   *)
(* out: an update looks at the version only.                               *)
(***************************************************************************)
EXTENDS FiniteSets, Integers, Sequences

CONSTANTS
  MaxEdits,       \* bound: edits saved on the device
  MaxKeys,        \* bound: idempotency keys the device creates
  MaxOffice,      \* bound: revisions by the office
  MaxReferences   \* bound: generations of the references

VARIABLES
  draft,       \* sales_drafts: the one row of the order
  outbox,      \* sales_outbox
  keys,        \* sequence numbers and keys given so far
  saving,      \* a save that has read and not yet written
  pass,        \* the running syncSalesDrafts
  wire,        \* requests the server has not handled yet
  order,       \* sales_order_revisions: the edit each has, 0 for the office
  receipts,    \* platform_command_receipts: the revision each key made
  reference,   \* generation of the references on the server
  shown        \* generation the device has cached

draftVars ==
  <<draft, outbox, keys, saving, pass, wire, order, receipts, reference, shown>>

-----------------------------------------------------------------------------
None == 0   \* no version: expected_version or saved_draft_json is null

Idle == [at |-> "idle", items |-> {}, answer |-> None]

Unsaved == [version |-> None, edit |-> 0]

DraftsInit ==
  /\ draft = [status |-> "none", command |-> [edit |-> 0, reference |-> 1],
              expected |-> None, saved |-> Unsaved]
  /\ outbox = {}
  /\ keys = 0
  /\ saving = {}
  /\ pass = Idle
  /\ wire = {}
  /\ order = <<>>
  /\ receipts = <<>>
  /\ reference = 1
  /\ shown = 1

-----------------------------------------------------------------------------
(* The user.  Both reads of a save precede its transaction; an order whose
   command was attempted keeps its draft, and the edit is dropped. *)
Attempted == \E item \in outbox : item.attempted

BeginSave ==
  /\ saving = {} /\ ~Attempted
  /\ draft.command.edit < MaxEdits
  /\ keys < MaxKeys
  /\ saving' = {[command |-> [edit |-> draft.command.edit + 1, reference |-> shown],
                 expected |-> draft.saved.version]}
  /\ UNCHANGED <<draft, outbox, keys, pass, wire, order, receipts, reference, shown>>

Enqueue(kept, command, expected) ==
  /\ keys' = keys + 1
  /\ outbox' = kept \cup {[sequence |-> keys + 1, command |-> command,
                           expected |-> expected, attempted |-> FALSE]}
  /\ draft' = [draft EXCEPT !.status = "pending", !.command = command, !.expected = expected]

FinishSave == \E save \in saving :
  /\ keys < MaxKeys
  /\ Enqueue({item \in outbox : item.attempted}, save.command, save.expected)
  /\ saving' = {}
  /\ UNCHANGED <<pass, wire, order, receipts, reference, shown>>

RetryExpected == draft.expected

(* The user reviews what the server has and sends the same command again. *)
RetryVersion == draft.saved.version

ResolveConflict ==
  /\ draft.status = "conflict" /\ draft.saved.version # None
  /\ keys < MaxKeys
  /\ Enqueue({}, draft.command, RetryVersion)
  /\ UNCHANGED <<saving, pass, wire, order, receipts, reference, shown>>

ShowReferences ==
  /\ shown' = reference
  /\ UNCHANGED <<draft, outbox, keys, saving, pass, wire, order, receipts, reference>>

-----------------------------------------------------------------------------
(* One pass over the outbox as it was when the pass began, by sequence number.
   The screen offers it for a pending draft only: not in a conflict, and not
   for what may be queued behind a command that is acknowledged. *)
StartSync ==
  /\ pass.at = "idle" /\ outbox # {}
  /\ draft.status = "pending"
  /\ pass' = [at |-> "next", items |-> outbox, answer |-> None]
  /\ UNCHANGED <<draft, outbox, keys, saving, wire, order, receipts, reference, shown>>

Item == CHOOSE item \in pass.items : \A other \in pass.items : item.sequence <= other.sequence

Attempt ==
  /\ pass.at = "next"
  /\ outbox' = {IF item.sequence = Item.sequence THEN [item EXCEPT !.attempted = TRUE] ELSE item :
                  item \in outbox}
  /\ pass' = [pass EXCEPT !.at = "sent"]
  /\ wire' = wire \cup {[Item EXCEPT !.attempted = TRUE]}
  /\ UNCHANGED <<draft, keys, saving, order, receipts, reference, shown>>

(* The connection fails, or the answer is neither saved nor conflict: the pass
   ends and the item is kept.  The server may still handle the request. *)
GiveUp ==
  /\ pass.at = "sent"
  /\ pass' = Idle
  /\ UNCHANGED <<draft, outbox, keys, saving, wire, order, receipts, reference, shown>>

Rest == IF pass.items = {Item} THEN Idle
        ELSE [at |-> "next", items |-> pass.items \ {Item}, answer |-> None]

InOutbox == \E item \in outbox : item.sequence = Item.sequence

WithoutAny(sequence) == {}

Without(sequence) == {item \in outbox : item.sequence # sequence}

(* An item that an edit has replaced meanwhile changes nothing. *)
MarkSynced ==
  /\ pass.at = "saved"
  /\ outbox' = Without(Item.sequence)
  /\ draft' = IF InOutbox
              THEN [draft EXCEPT !.status = "synced", !.expected = pass.answer,
                      !.saved = [version |-> pass.answer, edit |-> Item.command.edit]]
              ELSE draft
  /\ pass' = Rest
  /\ UNCHANGED <<keys, saving, wire, order, receipts, reference, shown>>

(* What the device finds on the server: nothing, if the order does not exist
   or cannot be read. *)
Latest == Len(order)

Authoritative == IF Latest = 0 THEN Unsaved
                 ELSE [version |-> Latest, edit |-> order[Latest]]

MarkConflict(saved) ==
  /\ pass.at = "conflict"
  /\ draft' = IF InOutbox THEN [draft EXCEPT !.status = "conflict", !.saved = saved] ELSE draft
  /\ pass' = Idle
  /\ UNCHANGED <<outbox, keys, saving, wire, order, receipts, reference, shown>>

(* The application stops: what SQLite holds remains. *)
Stop ==
  /\ pass.at # "idle" \/ saving # {}
  /\ pass' = Idle
  /\ saving' = {}
  /\ UNCHANGED <<draft, outbox, keys, wire, order, receipts, reference, shown>>

-----------------------------------------------------------------------------
NeverReplayed(request) == FALSE

(* The server. *)
Replayed(request) == request.sequence \in DOMAIN receipts

Current(command) == command.reference = reference

Acceptable(request) == Current(request.command) /\ Latest = request.expected

Revise(edit) ==
  order' = Append(order, edit)

Answered(request, at, version) ==
  pass' = IF pass.at = "sent" /\ Item.sequence = request.sequence
          THEN [pass EXCEPT !.at = at, !.answer = version] ELSE pass

Handle(request) ==
  /\ wire' = wire \ {request}
  /\ \/ Replayed(request)
        /\ Answered(request, "saved", receipts[request.sequence])
        /\ UNCHANGED <<order, receipts>>
     \/ ~Replayed(request) /\ Acceptable(request)
        /\ Revise(request.command.edit)
        /\ receipts' = [k \in DOMAIN receipts \cup {request.sequence} |->
             IF k = request.sequence THEN Latest + 1 ELSE receipts[k]]
        /\ Answered(request, "saved", Latest + 1)
     \/ ~Replayed(request) /\ ~Acceptable(request)
        /\ Answered(request, "conflict", None)
        /\ UNCHANGED <<order, receipts>>
  /\ UNCHANGED <<draft, outbox, keys, saving, reference, shown>>

ByOffice == Cardinality({v \in DOMAIN order : order[v] = 0})

OfficeRevises ==
  /\ Latest > 0 /\ ByOffice < MaxOffice
  /\ Revise(0)
  /\ UNCHANGED <<draft, outbox, keys, saving, pass, wire, receipts, reference, shown>>

ReferencesChange ==
  /\ reference < MaxReferences
  /\ reference' = reference + 1
  /\ UNCHANGED <<draft, outbox, keys, saving, pass, wire, order, receipts, shown>>

-----------------------------------------------------------------------------
DraftsNext ==
  \/ BeginSave \/ FinishSave \/ ResolveConflict \/ ShowReferences
  \/ StartSync \/ Attempt \/ GiveUp \/ MarkSynced \/ Stop
  \/ \E saved \in {Authoritative, Unsaved} : MarkConflict(saved)
  \/ \E request \in wire : Handle(request)
  \/ OfficeRevises \/ ReferencesChange

(* The user presses what the screen offers: synchronize while the draft is
   pending, and resolve in a conflict with a server draft to show.  The
   connection does not fail for ever at the same point. *)
DraftsFairness ==
  /\ WF_draftVars(FinishSave) /\ WF_draftVars(StartSync) /\ WF_draftVars(ResolveConflict)
  /\ SF_draftVars(Attempt)
  /\ SF_draftVars(\E request \in wire : Handle(request) /\ pass' # pass)
  /\ SF_draftVars(MarkSynced)
  /\ SF_draftVars(\E saved \in {Authoritative, Unsaved} : MarkConflict(saved))

DraftsSpec == DraftsInit /\ [][DraftsNext]_draftVars /\ DraftsFairness

-----------------------------------------------------------------------------
(* What the device shows as synced, with nothing left to send, is its last
   edit, and the server made a revision of it. *)
SyncedIsSaved == draft.status = "synced" /\ outbox = {} =>
  /\ draft.saved.edit = draft.command.edit
  /\ order[draft.saved.version] = draft.command.edit

(* However often an edit is sent, and under however many keys, it becomes one
   revision of the order at most. *)
EditAppliedOnce == \A v, w \in DOMAIN order :
  order[v] = order[w] /\ order[v] # 0 => v = w

Queued(edit) == \E item \in outbox : item.command.edit = edit

Reached(edit) == \E v \in DOMAIN order : order[v] = edit

(* Where the screen of the draft leads no further.  The references of a queued
   command changed: it is refused whenever it is sent.  The server draft could
   not be read: a conflict without anything to resolve it by.  An edit saved
   during a pass is queued behind an acknowledged command: no button sends it
   before the next edit replaces it. *)
DeadEnd ==
  \/ \E item \in outbox : ~Current(item.command)
  \/ draft.status = "conflict" /\ draft.saved.version = None
  \/ draft.status = "synced" /\ outbox # {}

(* Every edit in the outbox becomes a revision of the order, unless a later
   edit takes its place or the screen leads no further. *)
EditsReachServer == \A edit \in 1..MaxEdits :
  Queued(edit) ~> (Reached(edit) \/ draft.command.edit # edit \/ DeadEnd)
=============================================================================
