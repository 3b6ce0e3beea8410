----------------------------- MODULE Quotations -----------------------------
(***************************************************************************)
(* Quotations: drafted and revised by a maker, approved by someone else,   *)
(* and converted once to a draft of a sales order.                         *)
(*                                                                         *)
(* A command is given once, with the version its user has seen and a key,  *)
(* and is sent again under that key until an answer arrives.  The server   *)
(* handles a request in one step: the lock of the key comes before the     *)
(* look at the receipts, the row of the quotation before its checks.       *)
(***************************************************************************)
EXTENDS FiniteSetsExt, Integers, SequencesExt

CONSTANTS
  Users,         \* users who write, approve and convert quotations
  Authorized,    \* those with approval authority over exceptional prices
  MaxCommands,   \* bound: commands given
  MaxWaiting,    \* bound: commands without an answer at one time
  MaxCreates,    \* bound: commands that create a quotation
  MaxCustomer,   \* bound: versions of the customer account
  MaxDays        \* bound: days that pass

VARIABLES
  commands,     \* what the users asked for, by key
  quotations,   \* quotations, by number
  revisions,    \* quotation_revisions
  approvals,    \* quotation_approvals and their exceptions
  conversions,  \* quotation_conversion_events and the orders they made
  receipts,     \* platform_command_receipts: keys with a stored answer
  customer,     \* the customer account
  today

quotationVars ==
  <<commands, quotations, revisions, approvals, conversions, receipts, customer, today>>

-----------------------------------------------------------------------------
Command ==
  [kind : {"create", "update", "approve", "convert"}, by : Users, quotation : Nat,
   version : Nat, exceptional : BOOLEAN, answer : {"none", "done", "refused"}]

Quotation == [status : {"draft", "approved", "converted"}, version : Nat, approved : Nat]

Revision == [quotation : Nat, version : Nat, maker : Users, exceptional : BOOLEAN,
             customer : Nat, expiry : Nat, key : Nat]

Approval == [quotation : Nat, version : Nat, by : Users, key : Nat]

(* The order is a draft that copies the revision. *)
Conversion == [quotation : Nat, version : Nat, key : Nat]

QuotationsInit ==
  /\ commands = <<>> /\ quotations = <<>>
  /\ revisions = {} /\ approvals = {} /\ conversions = {} /\ receipts = {}
  /\ customer \in [version : {1}, active : BOOLEAN]
  /\ today = 0

-----------------------------------------------------------------------------
(* The users. *)
Give(kind, by, quotation, exceptional) ==
  /\ Len(commands) < MaxCommands
  /\ Cardinality({k \in DOMAIN commands : commands[k].answer = "none"}) < MaxWaiting
  /\ kind = "create" =>
       Cardinality({k \in DOMAIN commands : commands[k].kind = "create"}) < MaxCreates
  /\ kind = "create" <=> quotation = 0
  /\ kind \in {"approve", "convert"} => ~exceptional
  /\ commands' = Append(commands,
       [kind |-> kind, by |-> by, quotation |-> quotation,
        version |-> IF quotation = 0 THEN 0 ELSE quotations[quotation].version,
        exceptional |-> exceptional, answer |-> "none"])
  /\ UNCHANGED <<quotations, revisions, approvals, conversions, receipts, customer, today>>

Row(k) == quotations[commands[k].quotation]

RevisionOf(quotation, version) ==
  CHOOSE r \in revisions : r.quotation = quotation /\ r.version = version

(* What create and update compute: prices, taxes and the customer as they are. *)
Calculated(k, quotation, version) ==
  [quotation |-> quotation, version |-> version, maker |-> commands[k].by,
   exceptional |-> commands[k].exceptional, customer |-> customer.version,
   expiry |-> today + 1, key |-> k]

MakeRevision(k, quotation, version) ==
  revisions' = revisions \cup {Calculated(k, quotation, version)}

-----------------------------------------------------------------------------
(* What the handlers require, after the replay. *)
Seen(k) == Row(k).version = commands[k].version

MayUpdate(k) == Row(k).status \in {"draft", "approved"}

(* A discount above what its maker may enter, or a price below the floor. *)
HasAuthority(by, revision) == revision.exceptional => by \in Authorized

(* The approver is not the maker and has authority over what is exceptional. *)
MayApprove(k) == LET revision == RevisionOf(commands[k].quotation, commands[k].version) IN
  /\ Row(k).status = "draft"
  /\ revision.expiry > today
  /\ commands[k].by # revision.maker
  /\ HasAuthority(commands[k].by, revision)

MayConvert(k) == LET revision == RevisionOf(commands[k].quotation, Row(k).approved) IN
  /\ Row(k).status = "approved" /\ Row(k).approved # 0
  /\ revision.expiry > today
  /\ \A c \in conversions : c.quotation # commands[k].quotation
  /\ customer.version = revision.customer

Acceptable(k) ==
  /\ customer.active
  /\ commands[k].kind # "create" => Seen(k)
  /\ commands[k].kind = "update" => MayUpdate(k)
  /\ commands[k].kind = "approve" => MayApprove(k)
  /\ commands[k].kind = "convert" => MayConvert(k)

(* Customer, prices, units or pricing date may differ from those shown. *)
ReferencesMayDiffer(k) == commands[k].kind \in {"create", "update"}

(* What they do. *)
Create(k) ==
  /\ commands[k].kind = "create"
  /\ quotations' = Append(quotations, [status |-> "draft", version |-> 1, approved |-> 0])
  /\ MakeRevision(k, Len(quotations) + 1, 1)
  /\ UNCHANGED <<approvals, conversions>>

RevisedKeepingApproval(row) == [row EXCEPT !.version = @ + 1]

Revised(row) == [row EXCEPT !.status = "draft", !.version = @ + 1, !.approved = 0]

Update(k) ==
  /\ commands[k].kind = "update"
  /\ quotations' = [quotations EXCEPT ![commands[k].quotation] = Revised(@)]
  /\ MakeRevision(k, commands[k].quotation, Row(k).version + 1)
  /\ UNCHANGED <<approvals, conversions>>

Approve(k) ==
  /\ commands[k].kind = "approve"
  /\ approvals' = approvals \cup
       {[quotation |-> commands[k].quotation, version |-> commands[k].version,
         by |-> commands[k].by, key |-> k]}
  /\ quotations' = [quotations EXCEPT ![commands[k].quotation] =
       [@ EXCEPT !.status = "approved", !.approved = commands[k].version]]
  /\ UNCHANGED <<revisions, conversions>>

Convert(k) ==
  /\ commands[k].kind = "convert"
  /\ conversions' = conversions \cup
       {[quotation |-> commands[k].quotation, version |-> Row(k).approved, key |-> k]}
  /\ quotations' = [quotations EXCEPT ![commands[k].quotation].status = "converted"]
  /\ UNCHANGED <<revisions, approvals>>

Execute(k) == Create(k) \/ Update(k) \/ Approve(k) \/ Convert(k)

NeverReplayed(k) == FALSE

Replayed(k) == k \in receipts

Answer(k, answer, heard) ==
  commands' = IF heard THEN [commands EXCEPT ![k].answer = answer] ELSE commands

(* One request: the answer may be lost, and the command is sent again. *)
Handle(k, heard) ==
  /\ commands[k].answer = "none"
  /\ \/ Replayed(k)
        /\ Answer(k, "done", heard)
        /\ UNCHANGED <<quotations, revisions, approvals, conversions, receipts>>
     \/ ~Replayed(k) /\ Acceptable(k)
        /\ Execute(k)
        /\ receipts' = receipts \cup {k}
        /\ Answer(k, "done", heard)
     \/ ~Replayed(k) /\ (~Acceptable(k) \/ ReferencesMayDiffer(k))
        /\ Answer(k, "refused", heard)
        /\ UNCHANGED <<quotations, revisions, approvals, conversions, receipts>>
  /\ UNCHANGED <<customer, today>>

-----------------------------------------------------------------------------
(* A new address or a credit decision; no handler changes the status. *)
CustomerChanges ==
  /\ customer.version < MaxCustomer
  /\ customer' = [customer EXCEPT !.version = @ + 1]
  /\ UNCHANGED <<commands, quotations, revisions, approvals, conversions, receipts, today>>

DayPasses ==
  /\ today < MaxDays
  /\ today' = today + 1
  /\ UNCHANGED <<commands, quotations, revisions, approvals, conversions, receipts, customer>>

QuotationsNext ==
  \/ \E kind \in {"create", "update", "approve", "convert"}, by \in Users,
       quotation \in 0..Len(quotations), exceptional \in BOOLEAN :
         Give(kind, by, quotation, exceptional)
  \/ \E k \in DOMAIN commands, heard \in BOOLEAN : Handle(k, heard)
  \/ CustomerChanges
  \/ DayPasses

QuotationsSpec == QuotationsInit /\ [][QuotationsNext]_quotationVars

-----------------------------------------------------------------------------
QuotationsTypeOK ==
  /\ commands \in Seq(Command) /\ quotations \in Seq(Quotation)
  /\ revisions \subseteq Revision /\ approvals \subseteq Approval
  /\ conversions \subseteq Conversion
  /\ receipts \subseteq DOMAIN commands
  /\ customer \in [version : Nat, active : BOOLEAN] /\ today \in Nat
  /\ \A k \in DOMAIN commands :
       commands[k].kind # "create" => commands[k].quotation \in DOMAIN quotations

(* The rows a command made. *)
Rows == revisions \cup approvals \cup conversions

Effects(k) == {row \in Rows : row.key = k}

(* However often a command is sent, it has one effect, and the answer its user
   finally hears tells whether it had. *)
AnswersTrue == \A k \in DOMAIN commands :
  /\ Cardinality(Effects(k)) <= 1
  /\ commands[k].answer = "done" => Effects(k) # {}
  /\ commands[k].answer = "refused" => Effects(k) = {}

(* Someone else than the maker of a revision approved it, with authority if it
   is exceptional. *)
ApprovedByOther(quotation, version) == \E a \in approvals, r \in revisions :
  /\ a.quotation = quotation /\ a.version = version
  /\ r.quotation = quotation /\ r.version = version
  /\ a.by # r.maker /\ HasAuthority(a.by, r)

(* A quotation becomes one order, of its latest revision, which someone else
   than its maker approved, with authority if it is exceptional. *)
ConvertedAsApproved == \A c \in conversions :
  /\ c.version = quotations[c.quotation].version
  /\ \A d \in conversions : d.quotation = c.quotation => d = c
  /\ ApprovedByOther(c.quotation, c.version)
=============================================================================
