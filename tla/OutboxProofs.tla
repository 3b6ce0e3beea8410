---------------------------- MODULE OutboxProofs ----------------------------
(***************************************************************************)
(* What holds of Outbox for every number of events, jobs and errors and    *)
(* every batch size: its safety, that is OutboxSafety.                     *)
(***************************************************************************)
EXTENDS Outbox, FiniteSetTheorems, WellFoundedInduction, TLAPS

-----------------------------------------------------------------------------
(* Helpers *)

(* A set of events that is not empty has a first one. *)
LEMMA LeastIsIn ==
  ASSUME NEW S \in SUBSET Event, S # {}
  PROVE  Least(S) \in S /\ \A x \in S : Least(S) <= x
<1>0. S \subseteq Nat
  BY OutboxAssumption DEF Event
<1> DEFINE Upto(x) == {y \in S : y <= x}
           Order == StrictSubsetOrdering(S)
           Prefixes == {Upto(x) : x \in S}
<1>1. IsFiniteSet(S)
  <2>1. Events \in Int /\ 1 \in Int
    BY OutboxAssumption
  <2>2. IsFiniteSet(1..Events)
    BY <2>1, FS_Interval
  <2> QED BY <2>2, FS_Subset DEF Event
<1>2. IsWellFoundedOn(Order, SUBSET S)
  BY <1>1, FS_FiniteSubsetsOfFinite, FS_StrictSubsetOrderingWellFounded
<1>3. Prefixes \subseteq SUBSET S /\ Prefixes # {}
  OBVIOUS
<1>4. PICK U \in Prefixes : \A V \in Prefixes : <<V, U>> \notin Order
  <2> HIDE DEF Order, Prefixes
  <2> QED BY <1>2, <1>3, WFMin
<1>5. PICK e \in S : U = Upto(e)
  OBVIOUS
<1>6. \A y \in S : e <= y
  <2> SUFFICES ASSUME NEW y \in S, y < e
               PROVE  FALSE
    BY <1>0
  <2>1. Upto(y) \subseteq Upto(e) /\ e \in Upto(e) /\ e \notin Upto(y)
    <3>1. y \in Nat /\ e \in Nat /\ y < e
      BY <1>0
    <3>2. ASSUME NEW z \in S, z <= y
          PROVE  z <= e
      <4>1. z \in Nat
        BY <1>0
      <4> QED BY <3>1, <3>2, <4>1
    <3>3. e <= e /\ ~(e <= y)
      BY <3>1
    <3> QED BY <3>2, <3>3
  <2>2. <<Upto(y), Upto(e)>> \in Order
    <3>1. Upto(y) \in SUBSET S /\ Upto(e) \in SUBSET S /\ Upto(y) # Upto(e)
      BY <2>1
    <3> HIDE DEF Upto
    <3> QED BY <2>1, <3>1 DEF StrictSubsetOrdering
  <2>3. Upto(y) \in Prefixes
    OBVIOUS
  <2> HIDE DEF Upto, Order, Prefixes
  <2> QED BY <2>2, <2>3, <1>4, <1>5
<1> QED BY <1>6 DEF Least

(* What a poll selects is not empty if anything is eligible. *)
LEMMA FirstIsNotEmpty ==
  ASSUME NEW S \in SUBSET Event, S # {}
  PROVE  First(S) \in (SUBSET Event) \ {{}} /\ First(S) \subseteq S
<1>1. Least(S) \in S /\ \A x \in S : Least(S) <= x
  BY LeastIsIn
<1>2. S \subseteq Nat
  BY OutboxAssumption DEF Event
<1>3. {x \in S : x < Least(S)} = {}
  <2>1. ASSUME NEW x \in S
        PROVE  ~(x < Least(S))
    <3>1. x \in Nat /\ Least(S) \in Nat /\ Least(S) <= x
      BY <1>1, <1>2
    <3> QED BY <3>1
  <2> QED BY <2>1
<1>4. Cardinality({x \in S : x < Least(S)}) < Limit
  BY <1>3, FS_EmptySet, OutboxAssumption
<1> QED BY <1>1, <1>4 DEF First

(* A running job is at an event of its batch, and has less to do when it goes
   on; whatever it is then, it holds no event. *)
LEMMA JobAdvances ==
  ASSUME NEW j \in Jobs, job \in [Jobs -> JobStates \cup {Idle}], job[j].step # "idle"
  PROVE  /\ job[j] \in JobStates
         /\ At(j) \in job[j].batch /\ At(j) \in Event
         /\ Advanced(j) \in JobStates \cup {Idle}
         /\ Advanced(j).step # "commit"
         /\ Advanced(j).batch \subseteq job[j].batch
<1>1. job[j] \in JobStates
  BY DEF Idle
<1>2. job[j].batch \in SUBSET Event /\ job[j].batch # {}
  BY <1>1 DEF JobStates
<1>3. At(j) \in job[j].batch
  BY <1>2, LeastIsIn DEF At
<1> QED BY <1>1, <1>2, <1>3 DEF Advanced, Idle, JobStates

-----------------------------------------------------------------------------
(* The inductive invariant *)

(* A delivery job between its first read and the end of its transaction. *)
Delivering(j) == job[j].step = "commit" /\ job[j].poller = "delivery"

BatchesEmitted == \A j \in Jobs : job[j].batch \subseteq 1..emitted

(* The row lock: two delivery jobs are never at the same event. *)
DeliversAlone ==
  \A j, k \in Jobs : Delivering(j) /\ Delivering(k) /\ At(j) = At(k) => j = k

(* What a delivery job found owed is still owed when it commits; a notification
   job knows only its own handler. *)
OwesAsFound ==
  \A j \in Jobs : job[j].step = "commit" =>
    IF job[j].poller = "delivery" THEN job[j].owes = Owed("delivery", At(j))
    ELSE job[j].owes \subseteq HandlersOf("notification")

JobsInv == BatchesEmitted /\ DeliversAlone /\ OwesAsFound

OutboxInv == OutboxTypeOK /\ JobsInv

LEMMA InitInv == OutboxInit => OutboxInv
BY OutboxAssumption
DEF OutboxInit, OutboxInv, OutboxTypeOK, JobsInv, BatchesEmitted, DeliversAlone,
    OwesAsFound, Delivering, Idle, Event, Statuses, DocumentStatuses

(* A step that changes one job, which then holds no event, and no receipt. *)
LEMMA ReleaseStep ==
  ASSUME NEW j \in Jobs, NEW r, r.step # "commit", r.batch \subseteq 1..emitted,
         OutboxInv, job' = [job EXCEPT ![j] = r], UNCHANGED <<emitted, receipts>>
  PROVE  JobsInv'
<1>1. \A k \in Jobs : job'[k] = IF k = j THEN r ELSE job[k]
  BY DEF OutboxInv, OutboxTypeOK
<1>2. BatchesEmitted'
  BY <1>1 DEF OutboxInv, JobsInv, BatchesEmitted
<1>3. DeliversAlone'
  BY <1>1 DEF OutboxInv, JobsInv, DeliversAlone, Delivering, At
<1>4. OwesAsFound'
  BY <1>1 DEF OutboxInv, JobsInv, OwesAsFound, Owed, At
<1> QED BY <1>2, <1>3, <1>4 DEF JobsInv

(* A step that leaves the jobs and the receipts alone. *)
LEMMA OtherStep ==
  ASSUME OutboxInv, emitted' \in Nat, emitted' >= emitted, UNCHANGED <<receipts, job>>
  PROVE  JobsInv'
<1>1. BatchesEmitted'
  BY DEF OutboxInv, OutboxTypeOK, JobsInv, BatchesEmitted
<1>2. DeliversAlone'
  BY DEF OutboxInv, JobsInv, DeliversAlone, Delivering, At
<1>3. OwesAsFound'
  BY DEF OutboxInv, JobsInv, OwesAsFound, Owed, At
<1> QED BY <1>1, <1>2, <1>3 DEF JobsInv

-----------------------------------------------------------------------------
(* Every step keeps it *)

LEMMA EmitInv == OutboxInv /\ Emit => OutboxInv'
<1> SUFFICES ASSUME OutboxInv, Emit
             PROVE  OutboxInv'
  OBVIOUS
<1>1. OutboxTypeOK'
  BY OutboxAssumption DEF OutboxInv, OutboxTypeOK, Emit
<1>2. emitted' \in Nat /\ emitted' >= emitted
  BY OutboxAssumption DEF OutboxInv, OutboxTypeOK, Emit
<1> QED BY <1>1, <1>2, OtherStep DEF Emit, OutboxInv

LEMMA ElapseInv == ASSUME NEW e \in Event, OutboxInv, Elapse(e) PROVE OutboxInv'
<1>1. OutboxTypeOK'
  BY DEF OutboxInv, OutboxTypeOK, Elapse
<1>2. emitted' \in Nat /\ emitted' >= emitted
  BY OutboxAssumption DEF OutboxInv, OutboxTypeOK, Elapse
<1> QED BY <1>1, <1>2, OtherStep DEF Elapse, OutboxInv

LEMMA PollInv ==
  ASSUME NEW j \in Jobs, NEW w \in Poller, OutboxInv, Poll(j, w)
  PROVE  OutboxInv'
<1> DEFINE r == [poller |-> w, batch |-> First(Eligible(w)), step |-> "claim", owes |-> {}]
<1>1. Eligible(w) \in SUBSET Event /\ Eligible(w) # {} /\ Eligible(w) \subseteq 1..emitted
  BY OutboxAssumption DEF OutboxInv, OutboxTypeOK, Poll, Eligible, Event
<1>2. First(Eligible(w)) \in (SUBSET Event) \ {{}} /\ First(Eligible(w)) \subseteq Eligible(w)
  BY <1>1, FirstIsNotEmpty
<1>3. r \in JobStates
  BY <1>2 DEF JobStates, Poller
<1>4. OutboxTypeOK'
  BY <1>3 DEF OutboxInv, OutboxTypeOK, Poll
<1>5. r.step # "commit" /\ r.batch \subseteq 1..emitted
  BY <1>1, <1>2
<1>6. JobsInv'
  <2> HIDE DEF r
  <2>1. job' = [job EXCEPT ![j] = r] /\ UNCHANGED <<emitted, receipts>>
    BY DEF Poll, r
  <2> QED BY <1>5, <2>1, ReleaseStep
<1> QED BY <1>4, <1>6 DEF OutboxInv

LEMMA ClaimInv == ASSUME NEW j \in Jobs, OutboxInv, Claim(j) PROVE OutboxInv'
<1> DEFINE r == [job[j] EXCEPT !.step = "handle"]
<1>1. job[j] \in JobStates /\ At(j) \in Event
  BY JobAdvances DEF OutboxInv, OutboxTypeOK, Claim
<1>2. r \in JobStates /\ r.step # "commit" /\ r.batch = job[j].batch
  BY <1>1 DEF JobStates
<1>3. job' = [job EXCEPT ![j] = r]
  BY DEF Claim
<1> HIDE DEF r
<1>4. OutboxTypeOK'
  BY <1>1, <1>2, <1>3 DEF OutboxInv, OutboxTypeOK, Claim, Statuses
<1>5. JobsInv'
  BY <1>2, <1>3, ReleaseStep DEF Claim, OutboxInv, JobsInv, BatchesEmitted
<1> QED BY <1>4, <1>5 DEF OutboxInv

LEMMA RefuseInv == ASSUME NEW j \in Jobs, OutboxInv, Refuse(j) \/ Raise(j) PROVE OutboxInv'
<1> DEFINE r == [job[j] EXCEPT !.step = "fail"]
<1>1. job[j] \in JobStates
  BY JobAdvances DEF OutboxInv, OutboxTypeOK, Refuse, Raise
<1>2. r \in JobStates /\ r.step # "commit" /\ r.batch = job[j].batch
  BY <1>1 DEF JobStates
<1>3. job' = [job EXCEPT ![j] = r]
  BY DEF Refuse, Raise
<1> HIDE DEF r
<1>4. faults' \in 0..MaxFaults
  BY OutboxAssumption DEF OutboxInv, OutboxTypeOK, Refuse, Raise
<1>5. OutboxTypeOK'
  BY <1>2, <1>3, <1>4 DEF OutboxInv, OutboxTypeOK, Refuse, Raise
<1>6. JobsInv'
  BY <1>2, <1>3, ReleaseStep DEF Refuse, Raise, OutboxInv, JobsInv, BatchesEmitted
<1> QED BY <1>5, <1>6 DEF OutboxInv

LEMMA FailInv == ASSUME NEW j \in Jobs, OutboxInv, Fail(j) PROVE OutboxInv'
<1>1. /\ At(j) \in Event
      /\ Advanced(j) \in JobStates \cup {Idle}
      /\ Advanced(j).step # "commit"
      /\ Advanced(j).batch \subseteq job[j].batch
  BY JobAdvances DEF OutboxInv, OutboxTypeOK, Fail
<1>2. \A e \in Event : e \in Confirmed => e \in Documented
  BY OutboxAssumption
<1>3. OutboxTypeOK'
  BY <1>1, <1>2 DEF OutboxInv, OutboxTypeOK, Fail, Statuses, DocumentStatuses
<1>4. JobsInv'
  BY <1>1, ReleaseStep DEF Fail, OutboxInv, JobsInv, BatchesEmitted
<1> QED BY <1>3, <1>4 DEF OutboxInv

LEMMA CrashInv == ASSUME NEW j \in Jobs, OutboxInv, Crash(j) PROVE OutboxInv'
<1>1. faults' \in 0..MaxFaults
  BY OutboxAssumption DEF OutboxInv, OutboxTypeOK, Crash
<1>2. OutboxTypeOK'
  BY <1>1 DEF OutboxInv, OutboxTypeOK, Crash
<1>3. Idle.step # "commit" /\ Idle.batch \subseteq 1..emitted
  BY DEF Idle
<1>4. JobsInv'
  BY <1>3, ReleaseStep DEF Crash
<1> QED BY <1>2, <1>4 DEF OutboxInv

(* A delivery job begins when no other one holds its event. *)
LEMMA BeginInv == ASSUME NEW j \in Jobs, OutboxInv, Begin(j) PROVE OutboxInv'
<1> DEFINE r == [job[j] EXCEPT !.step = "commit", !.owes = Owed(job[j].poller, At(j))]
<1>1. job[j] \in JobStates /\ At(j) \in Event
  BY JobAdvances DEF OutboxInv, OutboxTypeOK, Begin
<1>2. job[j].poller \in Poller /\ Owed(job[j].poller, At(j)) \subseteq HandlersOf(job[j].poller)
  BY <1>1 DEF JobStates, Poller, Owed
<1>3. Owed(job[j].poller, At(j)) \in SUBSET Handler
  BY <1>2 DEF Handler, HandlersOf, Poller
<1>4. /\ r \in JobStates /\ r.step = "commit" /\ r.batch = job[j].batch
      /\ r.poller = job[j].poller /\ r.owes = Owed(job[j].poller, At(j))
  BY <1>1, <1>3 DEF JobStates
<1>5. job' = [job EXCEPT ![j] = r]
  BY DEF Begin
<1> HIDE DEF r
<1>6. OutboxTypeOK'
  BY <1>4, <1>5 DEF OutboxInv, OutboxTypeOK, Begin
<1>7. \A k \in Jobs : job'[k] = IF k = j THEN r ELSE job[k]
  BY <1>5 DEF OutboxInv, OutboxTypeOK
<1>8. \A k \in Jobs : At(k)' = At(k)
  BY <1>4, <1>7 DEF At
<1>9. BatchesEmitted'
  BY <1>4, <1>7 DEF OutboxInv, JobsInv, BatchesEmitted, Begin
<1>10. DeliversAlone'
  <2>1. ASSUME NEW k \in Jobs \ {j}, Delivering(j)', Delivering(k)'
        PROVE  At(k)' # At(j)'
    <3>1. job[j].poller = "delivery" /\ Delivering(k)
      BY <2>1, <1>4, <1>7 DEF Delivering
    <3>2. ~Locked(At(j))
      BY <3>1 DEF Begin, MayBegin
    <3> QED BY <3>1, <3>2, <1>8 DEF Locked, Delivering
  <2>2. ASSUME NEW k \in Jobs \ {j}, NEW l \in Jobs \ {j},
               Delivering(k)', Delivering(l)', At(k)' = At(l)'
        PROVE  k = l
    BY <2>2, <1>7, <1>8 DEF OutboxInv, JobsInv, DeliversAlone, Delivering
  <2> QED BY <2>1, <2>2 DEF DeliversAlone
<1>11. OwesAsFound'
  <2> SUFFICES ASSUME NEW k \in Jobs, job'[k].step = "commit"
               PROVE  IF job'[k].poller = "delivery"
                      THEN job'[k].owes = Owed("delivery", At(k)) ELSE job'[k].owes \subseteq HandlersOf("notification")
    BY <1>8 DEF OwesAsFound, Owed, Begin
  <2>1. CASE k = j
    BY <2>1, <1>2, <1>4, <1>7 DEF Poller
  <2>2. CASE k # j
    BY <2>2, <1>7 DEF OutboxInv, JobsInv, OwesAsFound
  <2> QED BY <2>1, <2>2
<1> QED BY <1>6, <1>9, <1>10, <1>11 DEF OutboxInv, JobsInv

(* A commit adds the receipts that its job owes to the event it is at. *)
LEMMA CommitEffect ==
  ASSUME NEW j \in Jobs, OutboxInv, Commit(j)
  PROVE  /\ job[j] \in JobStates /\ At(j) \in Event /\ At(j) \in 1..emitted
         /\ job[j].poller \in Poller
         /\ job[j].owes \subseteq HandlersOf(job[j].poller)
         /\ receipts' \in [Event -> SUBSET Handler]
         /\ \A e \in Event :
              receipts'[e] = IF e = At(j) THEN receipts[e] \cup job[j].owes ELSE receipts[e]
<1>1. job[j] \in JobStates /\ At(j) \in job[j].batch /\ At(j) \in Event
  BY JobAdvances DEF OutboxInv, OutboxTypeOK, Commit
<1>2. job[j].poller \in Poller /\ job[j].owes \in SUBSET Handler
  BY <1>1 DEF JobStates, Poller
<1>3. At(j) \in 1..emitted
  BY <1>1 DEF OutboxInv, JobsInv, BatchesEmitted
<1>4. job[j].owes \subseteq HandlersOf(job[j].poller)
  BY <1>2 DEF OutboxInv, JobsInv, OwesAsFound, Commit, Owed, Poller
<1>5. receipts' = [receipts EXCEPT ![At(j)] = receipts[At(j)] \cup job[j].owes]
  BY DEF Commit
<1> QED BY <1>1, <1>2, <1>3, <1>4, <1>5 DEF OutboxInv, OutboxTypeOK

LEMMA CommitInv == ASSUME NEW j \in Jobs, OutboxInv, Commit(j) PROVE OutboxInv'
<1>1. /\ At(j) \in Event /\ receipts' \in [Event -> SUBSET Handler]
      /\ job[j].poller \in Poller /\ job[j].owes \subseteq HandlersOf(job[j].poller)
      /\ \A e \in Event :
           receipts'[e] = IF e = At(j) THEN receipts[e] \cup job[j].owes ELSE receipts[e]
  BY CommitEffect
<1>2. /\ Advanced(j) \in JobStates \cup {Idle}
      /\ Advanced(j).step # "commit"
      /\ Advanced(j).batch \subseteq job[j].batch
  BY JobAdvances DEF OutboxInv, OutboxTypeOK, Commit
<1>3. job' = [job EXCEPT ![j] = Advanced(j)] /\ job[j].step = "commit"
  BY DEF Commit
<1>4. document' \in [Event -> DocumentStatuses \cup {"none"}]
  BY <1>1 DEF OutboxInv, OutboxTypeOK, Commit, Rendered, DocumentStatuses
<1>5. \A e \in Event : document'[e] = "none" <=> e \notin Documented
  BY <1>1 DEF OutboxInv, OutboxTypeOK, Commit, Rendered
<1>6. OutboxTypeOK'
  BY <1>1, <1>2, <1>3, <1>4, <1>5 DEF OutboxInv, OutboxTypeOK, Commit, Statuses
<1>7. \A k \in Jobs : job'[k] = IF k = j THEN Advanced(j) ELSE job[k]
  BY <1>3 DEF OutboxInv, OutboxTypeOK
<1>8. BatchesEmitted'
  BY <1>2, <1>7 DEF OutboxInv, JobsInv, BatchesEmitted, Commit
<1>9. DeliversAlone'
  BY <1>2, <1>7 DEF OutboxInv, JobsInv, DeliversAlone, Delivering, At
<1>10. OwesAsFound'
  <2> SUFFICES ASSUME NEW k \in Jobs, job'[k].step = "commit"
               PROVE  IF job'[k].poller = "delivery"
                      THEN job'[k].owes = Owed("delivery", At(k))'
                      ELSE job'[k].owes \subseteq HandlersOf("notification")
    BY DEF OwesAsFound
  <2>1. k # j /\ job'[k] = job[k] /\ At(k)' = At(k)
    BY <1>2, <1>7 DEF At
  <2>2. CASE job[k].poller # "delivery"
    BY <2>1, <2>2 DEF OutboxInv, JobsInv, OwesAsFound
  <2>3. CASE job[k].poller = "delivery"
    <3>1. job[k].owes = Owed("delivery", At(k)) /\ Delivering(k)
      BY <2>1, <2>3 DEF OutboxInv, JobsInv, OwesAsFound, Delivering
    <3>2. At(k) \in Event
      BY <2>1, JobAdvances DEF OutboxInv, OutboxTypeOK
    <3>3. At(k) = At(j) => job[j].poller = "notification"
      BY <3>1, <2>1, <1>1, <1>3 DEF OutboxInv, JobsInv, DeliversAlone, Delivering, Poller
    <3>4. HandlersOf("delivery") \cap HandlersOf("notification") = {}
      BY DEF HandlersOf
    <3>5. HandlersOf("delivery") \ receipts'[At(k)] = HandlersOf("delivery") \ receipts[At(k)]
      BY <1>1, <3>2, <3>3, <3>4
    <3> QED BY <2>1, <2>3, <3>1, <3>5 DEF Owed
  <2> QED BY <2>2, <2>3
<1> QED BY <1>6, <1>8, <1>9, <1>10 DEF OutboxInv, JobsInv

LEMMA StepInv == OutboxInv /\ [OutboxNext]_vars => OutboxInv'
<1> SUFFICES ASSUME OutboxInv, [OutboxNext]_vars
             PROVE  OutboxInv'
  OBVIOUS
<1>1. CASE Emit
  BY <1>1, EmitInv
<1>2. CASE \E e \in Event : Elapse(e)
  BY <1>2, ElapseInv
<1>3. ASSUME NEW j \in Jobs, \E w \in Poller : Poll(j, w)
      PROVE  OutboxInv'
  BY <1>3, PollInv
<1>4. ASSUME NEW j \in Jobs, Claim(j)
      PROVE  OutboxInv'
  BY <1>4, ClaimInv
<1>5. ASSUME NEW j \in Jobs, Begin(j)
      PROVE  OutboxInv'
  BY <1>5, BeginInv
<1>6. ASSUME NEW j \in Jobs, Commit(j)
      PROVE  OutboxInv'
  BY <1>6, CommitInv
<1>7. ASSUME NEW j \in Jobs, Refuse(j) \/ Raise(j)
      PROVE  OutboxInv'
  BY <1>7, RefuseInv
<1>8. ASSUME NEW j \in Jobs, Fail(j)
      PROVE  OutboxInv'
  BY <1>8, FailInv
<1>9. ASSUME NEW j \in Jobs, Crash(j)
      PROVE  OutboxInv'
  BY <1>9, CrashInv
<1>10. CASE UNCHANGED vars
  BY <1>10 DEF vars, OutboxInv, OutboxTypeOK, JobsInv, BatchesEmitted, DeliversAlone,
               OwesAsFound, Delivering, At, Owed
<1> QED BY <1>1, <1>2, <1>3, <1>4, <1>5, <1>6, <1>7, <1>8, <1>9, <1>10 DEF OutboxNext

-----------------------------------------------------------------------------
(* The theorems *)

(* The inductive invariant of the worker: types, jobs at emitted events, one
   delivery job at an event, and work found owed that is owed still. *)
THEOREM OutboxInvariant == OutboxSafety => []OutboxInv
<1>1. OutboxInit => OutboxInv
  BY InitInv
<1>2. OutboxInv /\ [OutboxNext]_vars => OutboxInv'
  BY StepInv
<1> QED BY <1>1, <1>2, PTL DEF OutboxSafety

(* Rows and jobs keep their shape. *)
THEOREM OutboxTypeCorrect == OutboxSafety => []OutboxTypeOK
<1>1. OutboxInv => OutboxTypeOK
  BY DEF OutboxInv
<1> QED BY <1>1, OutboxInvariant, PTL

(* Jobs that overlap never do the delivery work of an event twice. *)
THEOREM NoInsertCollides == OutboxSafety => []InsertsNeverCollide
<1>1. OutboxInv => InsertsNeverCollide
  BY DEF OutboxInv, JobsInv, OwesAsFound, InsertsNeverCollide, Owed
<1> QED BY <1>1, OutboxInvariant, PTL

-----------------------------------------------------------------------------
(* The worker implements EventHandling *)

Done == {p \in Event \X Poller : Owed(p[2], p[1]) = {}}

(* A commit does one kind of work of one event, or nothing. *)
LEMMA CommitHandles ==
  ASSUME NEW j \in Jobs, NEW e, NEW w, e = At(j), w = job[j].poller, OutboxInv, Commit(j)
  PROVE  \/ Done' = Done
         \/ /\ <<e, w>> \in (1..emitted) \X Poller
            /\ <<e, w>> \notin Done \cup (Unreachable \X {"notification"})
            /\ Done' = Done \cup {<<e, w>>}
<1>1. /\ e \in Event /\ e \in 1..emitted /\ w \in Poller /\ job[j].owes \subseteq HandlersOf(w)
      /\ \A x \in Event :
           receipts'[x] = IF x = e THEN receipts[x] \cup job[j].owes ELSE receipts[x]
  BY CommitEffect
<1>2. job[j].step = "commit" /\ MayCommit(j)
  BY DEF Commit
<1>3. w = "delivery" => job[j].owes = Owed(w, e)
  BY <1>2 DEF OutboxInv, JobsInv, OwesAsFound
<1>4. w = "notification" /\ job[j].owes # {} => job[j].owes = HandlersOf(w) /\ e \notin Unreachable
  BY <1>1, <1>2 DEF HandlersOf, MayCommit
<1>5. \A x \in Event, v \in Poller : <<x, v>> # <<e, w>> => Owed(v, x)' = Owed(v, x)
  BY <1>1 DEF Owed, HandlersOf, Poller
<1>6. CASE Owed(w, e) = {} \/ job[j].owes = {}
  <2>1. Owed(w, e)' = {} <=> Owed(w, e) = {}
    BY <1>1, <1>6 DEF Owed
  <2>2. \A x \in Event, v \in Poller : Owed(v, x)' = {} <=> Owed(v, x) = {}
    BY <1>5, <2>1
  <2> QED BY <2>2 DEF Done
<1>7. CASE Owed(w, e) # {} /\ job[j].owes # {}
  <2>1. Owed(w, e)' = {}
    BY <1>1, <1>3, <1>4, <1>7 DEF Owed, Poller
  <2>2. <<e, w>> \notin Done
    BY <1>7 DEF Done
  <2>3. <<e, w>> \notin Unreachable \X {"notification"}
    BY <1>4, <1>7
  <2>4. \A x \in Event, v \in Poller :
          Owed(v, x)' = {} <=> Owed(v, x) = {} \/ <<x, v>> = <<e, w>>
    BY <1>5, <2>1
  <2>5. Done' = Done \cup {<<e, w>>}
    <3>1. \A p \in Event \X Poller :
            Owed(p[2], p[1])' = {} <=> Owed(p[2], p[1]) = {} \/ p = <<e, w>>
      <4> SUFFICES ASSUME NEW x \in Event, NEW v \in Poller
                   PROVE  Owed(v, x)' = {} <=> Owed(v, x) = {} \/ <<x, v>> = <<e, w>>
        OBVIOUS
      <4> QED BY <2>4
    <3>2. <<e, w>> \in Event \X Poller
      BY <1>1
    <3> QED BY <3>1, <3>2 DEF Done
  <2> QED BY <1>1, <2>2, <2>3, <2>5
<1> QED BY <1>6, <1>7

(* Every other step leaves done what is done. *)
LEMMA OthersHandleNothing ==
  ASSUME UNCHANGED receipts
  PROVE  Done' = Done
BY DEF Done, Owed

LEMMA HandlingStep ==
  OutboxInv /\ [OutboxNext]_vars => [Handling!HandlingNext]_(Handling!handlingVars)
<1> SUFFICES ASSUME OutboxInv, [OutboxNext]_vars
             PROVE  [Handling!HandlingNext]_(Handling!handlingVars)
  OBVIOUS
<1>1. CASE Emit
  <2>1. Done' = Done
    BY <1>1, OthersHandleNothing DEF Emit
  <2> QED BY <1>1, <2>1 DEF Emit, Done, Handling!HandlingNext, Handling!Emit
<1>2. ASSUME NEW j \in Jobs, Commit(j)
      PROVE  [Handling!HandlingNext]_(Handling!handlingVars)
  <2>1. emitted' = emitted
    BY <1>2 DEF Commit
  <2>2. PICK e, w : e = At(j) /\ w = job[j].poller
    OBVIOUS
  <2>3. CASE Done' = Done
    BY <2>1, <2>3 DEF Done, Handling!handlingVars
  <2>4. CASE /\ <<e, w>> \in (1..emitted) \X Poller
             /\ <<e, w>> \notin Done \cup (Unreachable \X {"notification"})
             /\ Done' = Done \cup {<<e, w>>}
    <3>1. e \in Event /\ w \in Poller /\ e <= emitted
      BY <2>4, OutboxAssumption DEF OutboxInv, OutboxTypeOK, Event
    <3>2. Handling!Handle(e, w)
      BY <2>1, <2>4, <3>1 DEF Done, Handling!Handle
    <3> QED BY <3>1, <3>2 DEF Handling!HandlingNext, Handling!Event, Event
  <2> QED BY <1>2, <2>2, <2>3, <2>4, CommitHandles
<1>3. CASE UNCHANGED <<emitted, receipts>>
  BY <1>3, OthersHandleNothing DEF Done, Handling!handlingVars
<1>4. ASSUME NEW j \in Jobs,
             \/ \E w \in Poller : Poll(j, w)
             \/ Claim(j) \/ Begin(j) \/ Refuse(j) \/ Raise(j) \/ Fail(j) \/ Crash(j)
      PROVE  UNCHANGED <<emitted, receipts>>
  BY <1>4 DEF Poll, Claim, Begin, Refuse, Raise, Fail, Crash
<1>5. ASSUME NEW e \in Event, Elapse(e)
      PROVE  UNCHANGED <<emitted, receipts>>
  BY <1>5 DEF Elapse
<1>6. CASE UNCHANGED vars
  BY <1>3, <1>6 DEF vars
<1> QED BY <1>1, <1>2, <1>3, <1>4, <1>5, <1>6 DEF OutboxNext

(* The worker implements what the outbox promises, without its liveness: no
   work of an event is done twice, before the event, or when it is refused. *)
THEOREM WorkerHandlesOnce == OutboxSafety => Handling!HandlingSafety
<1>1. OutboxInit => Handling!HandlingInit
  BY DEF OutboxInit, Owed, HandlersOf, Poller, Handling!HandlingInit
<1>2. OutboxInv /\ [OutboxNext]_vars => [Handling!HandlingNext]_(Handling!handlingVars)
  BY HandlingStep
<1> QED BY <1>1, <1>2, OutboxInvariant, PTL DEF OutboxSafety, Handling!HandlingSafety
=============================================================================
