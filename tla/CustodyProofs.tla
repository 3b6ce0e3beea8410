--------------------------- MODULE CustodyProofs ---------------------------
(***************************************************************************)
(* Proofs about the custody of delivered goods, for any number of          *)
(* deliveries, returns, units and corrections.                             *)
(*                                                                         *)
(* Every property of the quantities is a sum: over the locations, over the *)
(* deliveries, over the versions of their cases, over the returns.  The    *)
(* invariant says which case can have anything open, so that the sum over  *)
(* the versions is a single case; then a step changes each sum by what it  *)
(* changes of one delivery and one return.                                 *)
(***************************************************************************)
EXTENDS Custody, UnitsProofs, SequenceTheorems

(* What holds of the delivery d and of the chain of its outcomes: an outcome
   divides what was sent, and the last version of the cases was opened for it;
   whoever is correcting the head finds no authorized return of it. *)
ChainOK(d) ==
  /\ delivery[d].status = "none" => delivery[d].quantity = 0
  /\ delivery[d].status # "confirmed" =>
       /\ delivery[d].head = Undelivered /\ cases[d] = <<>>
       /\ proposal[d].state = "none"
  /\ delivery[d].status = "confirmed" =>
       /\ Version(d) \in 1..Versions
       /\ delivery[d].head \in Partitions[delivery[d].quantity]
       /\ \A k \in Kinds : Current(d)[k].original = delivery[d].head[k]
  /\ proposal[d].state # "none" =>
       /\ Version(d) < Versions
       /\ proposal[d].outcome \in Partitions[delivery[d].quantity]
       /\ AuthorizedReturns(d) = {}

(* A case that nothing was done about is open with all its quantity, and missing
   goods are resolved all at once. *)
CaseOK(case, k) ==
  /\ case.open <= case.original
  /\ case.events = {} => case.open = case.original
  /\ k = "short" /\ case.open > 0 => case.events = {}

(* Only the cases of the last version have anything open, and none of them is
   superseded. *)
CasesOK(s) ==
  \A v \in 1..Len(s) : \A k \in Kinds :
    /\ CaseOK(s[v][k], k)
    /\ v < Len(s) => s[v][k].open = 0
    /\ v = Len(s) => "superseded" \notin s[v][k].events

(* A receipt with an authorized return stays the head of its chain. *)
ReturnOK(r) ==
  /\ returns[r].state = "none" => returns[r].of = <<>>
  /\ returns[r].state # "none" => returns[r].of \in Deliveries \X (1..Versions)
  /\ returns[r].state # "received" => returns[r].received = 0 /\ returns[r].outcome = "none"
  /\ returns[r].received <= returns[r].quantity
  /\ returns[r].state \in {"authorized", "received"} =>
       returns[r].of[2] = Version(returns[r].of[1])

(* A conversion is for all that was sent until its delivery is confirmed. *)
ConversionOK(d) ==
  /\ conversion[d].state # "none" =>
       policy = "cash_on_delivery" /\ delivery[d].status # "none"
  /\ conversion[d].state = "approved" =>
       /\ delivery[d].status = "dispatched" => conversion[d].amount = delivery[d].quantity
       /\ Version(d) = 1 => delivery[d].head.accepted > 0

CustodyTypes ==
  /\ stock \in [Locations -> Nat] /\ valued \in Int
  /\ delivery \in [Deliveries -> DeliveryRow]
  /\ cases \in [Deliveries -> Seq([Kinds -> Case])]
  /\ proposal \in [Deliveries -> ProposalRow]
  /\ returns \in [Returns -> ReturnRow]
  /\ conversion \in [Deliveries -> ConversionRow]
  /\ fulfilled \in Nat /\ charged \in Int

ChainsOK == \A d \in Deliveries : ChainOK(d) /\ CasesOK(cases[d])

ReturnsOK ==
  /\ \A r \in Returns : ReturnOK(r)
  /\ \A d \in Deliveries : AuthorizedQuantity(d) <= delivery[d].head.accepted

ConversionsOK == ConversionsSettle /\ \A d \in Deliveries : ConversionOK(d)

(* All units are somewhere, and what customers returned into quarantine is. *)
UnitsBalance ==
  /\ OnHand + AtCustomer + Lost = Picked
  /\ Received({"quarantine"}) <= stock["quarantine"]
  /\ ValuationMatches

QuantitiesOK == UnitsBalance /\ CustodyMatchesCases

CustodyInv == CustodyTypes /\ ChainsOK /\ ReturnsOK /\ ConversionsOK /\ QuantitiesOK

-----------------------------------------------------------------------------
(* The cases of one delivery. *)
Row == [Kinds -> Case]

OpenIn(s, k) == Total([v \in 1..Len(s) |-> s[v][k].open], 1..Len(s))

HeadOpen(s, k) == IF Len(s) = 0 THEN 0 ELSE s[Len(s)][k].open

GivenUp(s) == {v \in 1..Len(s) : "written_off" \in s[v]["short"].events}

LostIn(s) == Total([v \in 1..Len(s) |-> s[v]["short"].original], GivenUp(s))

(* What is open over all versions is what is open in the last one. *)
LEMMA OpenHead ==
  ASSUME CustodyAssumption, NEW s \in Seq(Row), CasesOK(s), NEW k \in Kinds
  PROVE  OpenIn(s, k) = HeadOpen(s, k) /\ HeadOpen(s, k) \in 0..Picked
<1> DEFINE f == [v \in 1..Len(s) |-> s[v][k].open]
           n == Len(s)
<1>1. n \in Nat /\ IsFiniteSet(1..n)
  BY FS_Interval
<1>2. \A v \in 1..n : f[v] \in 0..Picked
  BY DEF Row, Case
<1>3. \A v \in 1..n : f[v] \in Nat
  BY <1>2 DEF CustodyAssumption
<1>4. \A v \in 1..n : v < n => f[v] = 0
  BY DEF CasesOK
<1>5. CASE n = 0
  <2>1. Total(f, 1..n) = 0
    BY <1>5, TotalZero
  <2> QED BY <1>5, <2>1 DEF OpenIn, HeadOpen, CustodyAssumption
<1>6. CASE n # 0
  <2>1. n \in 1..n /\ HeadOpen(s, k) = f[n]
    BY <1>1, <1>6 DEF HeadOpen
  <2>2. OpenIn(s, k) = Total(f, 1..n)
    BY DEF OpenIn
  <2> HIDE DEF f, n
  <2>3. Total(f, 1..n) = Total(f, (1..n) \ {n}) + f[n]
    BY <1>1, <1>3, <2>1, TotalSplit
  <2>4. \A v \in (1..n) \ {n} : f[v] = 0
    BY <1>1, <1>4
  <2>5. Total(f, (1..n) \ {n}) = 0
    BY <2>4, TotalZero
  <2> QED BY <1>2, <1>3, <2>1, <2>2, <2>3, <2>5
<1> QED BY <1>5, <1>6

(* What was given up is a quantity. *)
LEMMA LostType ==
  ASSUME CustodyAssumption, NEW s \in Seq(Row)
  PROVE  /\ GivenUp(s) \in SUBSET (1..Len(s)) /\ IsFiniteSet(1..Len(s))
         /\ \A v \in 1..Len(s) : s[v]["short"].original \in Nat
         /\ LostIn(s) \in Nat
<1>1. IsFiniteSet(1..Len(s))
  BY FS_Interval
<1>2. GivenUp(s) \in SUBSET (1..Len(s))
  BY DEF GivenUp
<1>3. IsFiniteSet(GivenUp(s))
  BY <1>1, <1>2, FS_Subset
<1>4. \A v \in 1..Len(s) : s[v]["short"].original \in Nat
  <2>1. \A v \in 1..Len(s) : s[v] \in Row
    OBVIOUS
  <2>2. \A v \in 1..Len(s) : s[v]["short"] \in Case
    BY <2>1 DEF Row, Kinds
  <2> QED BY <2>2 DEF Case, CustodyAssumption
<1>5. \A v \in GivenUp(s) : [w \in 1..Len(s) |-> s[w]["short"].original][v] \in Nat
  BY <1>2, <1>4
<1>6. LostIn(s) \in Nat
  BY <1>3, <1>5, TotalType DEF LostIn
<1> QED BY <1>1, <1>2, <1>4, <1>6

(* Families of cases that agree on what was written off have lost the same. *)
LEMMA LostSame ==
  ASSUME NEW s, NEW t, Len(s) = Len(t),
         \A v \in 1..Len(s) :
           /\ t[v]["short"].original = s[v]["short"].original
           /\ "written_off" \in t[v]["short"].events <=> "written_off" \in s[v]["short"].events
  PROVE  LostIn(t) = LostIn(s)
<1>1. GivenUp(t) = GivenUp(s)
  BY DEF GivenUp
<1>2. [v \in 1..Len(t) |-> t[v]["short"].original] = [v \in 1..Len(s) |-> s[v]["short"].original]
  OBVIOUS
<1> QED BY <1>1, <1>2 DEF LostIn

(* A delivery that was confirmed has its first cases open in full. *)
LEMMA FirstCases ==
  ASSUME CustodyAssumption, NEW o \in Outcomes
  PROVE  /\ Opened(o) \in Row
         /\ \A k \in Kinds : /\ Opened(o)[k].original = o[k] /\ Opened(o)[k].open = o[k]
                             /\ Opened(o)[k].events = {}
         /\ <<Opened(o)>> \in Seq(Row)
         /\ CasesOK(<<Opened(o)>>)
         /\ LostIn(<<Opened(o)>>) = 0
<1>1. \A k \in Kinds : o[k] \in 0..Picked
  BY DEF Kinds, Outcomes
<1>2. Opened(o) \in Row
  BY <1>1 DEF Opened, Row, Case
<1>3. \A k \in Kinds : /\ Opened(o)[k].original = o[k] /\ Opened(o)[k].open = o[k]
                       /\ Opened(o)[k].events = {}
  BY DEF Opened
<1>4. <<Opened(o)>> \in Seq(Row) /\ Len(<<Opened(o)>>) = 1 /\ <<Opened(o)>>[1] = Opened(o)
  BY <1>2
<1>5. CasesOK(<<Opened(o)>>)
  BY <1>1, <1>3, <1>4 DEF CasesOK, CaseOK
<1>6. GivenUp(<<Opened(o)>>) = {}
  BY <1>3, <1>4 DEF GivenUp, Kinds
<1>7. LostIn(<<Opened(o)>>) = 0
  BY <1>6, TotalZero DEF LostIn
<1> QED BY <1>2, <1>3, <1>4, <1>5, <1>7

Events == {"returned", "recovered", "written_off", "retried"}

(* When one row joins the rows that count, the total grows by it. *)
LEMMA TotalJoin ==
  ASSUME NEW S, IsFiniteSet(S), NEW a \in S, NEW T \in SUBSET S, NEW U \in SUBSET S,
         NEW f, \A x \in S : f[x] \in Nat, a \notin T, a \in U,
         \A x \in S \ {a} : x \in T <=> x \in U
  PROVE  Total(f, U) = Total(f, T) + f[a]
<1>1. U \ {a} = T
  OBVIOUS
<1>2. IsFiniteSet(U)
  BY FS_Subset
<1>3. Total(f, U) = Total(f, U \ {a}) + f[a]
  BY <1>2, TotalSplit
<1> QED BY <1>1, <1>3

TakenFrom(s, t, v, k, quantity, event) ==
  t = [s EXCEPT ![v] = [s[v] EXCEPT ![k] = Handled(s[v][k], quantity, event)]]

(* An open quantity is handled: only a case of the last version can have one,
   and what is missing is handled as a whole. *)
LEMMA CasesTaken ==
  ASSUME CustodyAssumption,
         NEW s \in Seq(Row), CasesOK(s), NEW v \in 1..Len(s), NEW k \in Kinds,
         NEW quantity \in Nat \ {0}, quantity <= s[v][k].open, NEW event \in Events,
         k = "short" => quantity = s[v][k].open,
         event = "written_off" => k = "short",
         NEW t, TakenFrom(s, t, v, k, quantity, event)
  PROVE  /\ t \in Seq(Row) /\ Len(t) = Len(s) /\ CasesOK(t)
         /\ \A j \in Kinds : t[Len(t)][j].original = s[Len(s)][j].original
         /\ \A j \in Kinds : HeadOpen(t, j) = HeadOpen(s, j) - (IF j = k THEN quantity ELSE 0)
         /\ \A w \in 1..Len(s) : \A j \in Kinds : s[w][j].events \subseteq t[w][j].events
         /\ LostIn(t) = LostIn(s) + (IF event = "written_off" THEN quantity ELSE 0)
<1> DEFINE case == s[v][k]
           after == Handled(case, quantity, event)
<1>1. /\ s[v] \in Row /\ case \in Case /\ CaseOK(case, k)
      /\ case.open \in 0..Picked /\ case.original \in 0..Picked
      /\ case.events \subseteq Events \cup {"superseded"}
  <2>1. s[v] \in Row /\ case \in Case
    BY DEF Row
  <2>2. CaseOK(case, k)
    BY DEF CasesOK
  <2> HIDE DEF case
  <2> QED BY <2>1, <2>2 DEF Case, Events
<1>2. v = Len(s)
  BY <1>1 DEF CasesOK, CustodyAssumption
<1>3. "superseded" \notin case.events
  BY <1>2 DEF CasesOK
<1>4. /\ after.original = case.original /\ after.open = case.open - quantity
      /\ after.events = case.events \cup {event}
      /\ after \in Case
  <2>1. PICK x \in Int : x = case.open - quantity
    BY <1>1 DEF CustodyAssumption
  <2>2. x \in 0..Picked
    BY <1>1, <2>1 DEF CustodyAssumption
  <2>3. PICK E : E = case.events \cup {event}
    OBVIOUS
  <2>4. E \in SUBSET {"returned", "recovered", "written_off", "retried", "superseded"}
    BY <1>1, <2>3 DEF Events
  <2>5. after = [case EXCEPT !.open = x, !.events = E]
    BY <2>1, <2>3 DEF Handled
  <2> HIDE DEF case, after
  <2> QED BY <1>1, <2>1, <2>2, <2>3, <2>4, <2>5 DEF Case
<1>5. CaseOK(after, k)
  <2>1. after.events # {}
    BY <1>4
  <2>2. after.open <= after.original
    BY <1>1, <1>4 DEF CaseOK, CustodyAssumption
  <2>3. k = "short" => after.open = 0
    BY <1>1, <1>4 DEF CustodyAssumption
  <2> HIDE DEF after
  <2> QED BY <2>1, <2>2, <2>3 DEF CaseOK
<1>6. t = [s EXCEPT ![v] = [s[v] EXCEPT ![k] = after]]
  BY DEF TakenFrom
<1> HIDE DEF after
<1>7. PICK row : row = [s[v] EXCEPT ![k] = after]
  OBVIOUS
<1>8. row \in Row
  BY <1>1, <1>4, <1>7 DEF Row
<1>9. row[k] = after /\ \A j \in Kinds \ {k} : row[j] = s[v][j]
  BY <1>1, <1>7 DEF Row
<1>10. /\ t \in Seq(Row) /\ Len(t) = Len(s) /\ t[v] = row
       /\ \A w \in 1..Len(s) : w # v => t[w] = s[w]
  <2>1. t = [s EXCEPT ![v] = row]
    BY <1>6, <1>7
  <2> QED BY <1>8, <2>1
<1>11. CasesOK(t)
  <2> SUFFICES ASSUME NEW w \in 1..Len(t), NEW j \in Kinds
               PROVE  /\ CaseOK(t[w][j], j)
                      /\ w < Len(t) => t[w][j].open = 0
                      /\ w = Len(t) => "superseded" \notin t[w][j].events
    BY DEF CasesOK
  <2>1. /\ CaseOK(s[w][j], j)
        /\ w < Len(s) => s[w][j].open = 0
        /\ w = Len(s) => "superseded" \notin s[w][j].events
    BY <1>10 DEF CasesOK
  <2>2. "superseded" \notin after.events
    BY <1>3, <1>4 DEF Events
  <2>3. CASE w # v
    BY <1>10, <2>1, <2>3
  <2>4. CASE w = v
    BY <1>2, <1>5, <1>9, <1>10, <2>1, <2>2, <2>4
  <2> QED BY <2>3, <2>4
<1>12. \A j \in Kinds : t[Len(t)][j].original = s[Len(s)][j].original
  BY <1>2, <1>4, <1>9, <1>10
<1>13. \A j \in Kinds : HeadOpen(t, j) = HeadOpen(s, j) - (IF j = k THEN quantity ELSE 0)
  <2>1. Len(s) # 0
    OBVIOUS
  <2>2. \A j \in Kinds : HeadOpen(t, j) = row[j].open /\ HeadOpen(s, j) = s[v][j].open
    BY <1>2, <1>10, <2>1 DEF HeadOpen
  <2>3. \A j \in Kinds : s[v][j].open \in Int
    BY <1>1 DEF Row, Case
  <2>4. TAKE j \in Kinds
  <2>5. CASE j = k
    BY <1>4, <1>9, <2>2, <2>3, <2>5
  <2>6. CASE j # k
    <3>1. row[j] = s[v][j] /\ s[v][j].open - 0 = s[v][j].open
      BY <1>9, <2>3, <2>6
    <3> QED BY <2>2, <2>6, <3>1
  <2> QED BY <2>5, <2>6
<1>14. LostIn(t) = LostIn(s) + (IF event = "written_off" THEN quantity ELSE 0)
  <2>1. \A w \in 1..Len(s) : t[w]["short"].original = s[w]["short"].original
    BY <1>4, <1>9, <1>10 DEF Kinds
  <2>2. CASE event # "written_off"
    <3>1. \A w \in 1..Len(s) :
            "written_off" \in t[w]["short"].events <=> "written_off" \in s[w]["short"].events
      BY <1>4, <1>9, <1>10, <2>2 DEF Kinds
    <3>2. LostIn(t) = LostIn(s) /\ LostIn(s) \in Nat
      BY <1>10, <2>1, <3>1, LostSame, LostType
    <3> QED BY <2>2, <3>2
  <2>3. CASE event = "written_off"
    <3> DEFINE f == [w \in 1..Len(s) |-> s[w]["short"].original]
               g == [w \in 1..Len(t) |-> t[w]["short"].original]
    <3>1. k = "short" /\ case.events = {} /\ quantity = case.open /\ case.open = case.original
      BY <1>1, <2>3 DEF CaseOK, CustodyAssumption
    <3>2. v \notin GivenUp(s)
      BY <3>1 DEF GivenUp
    <3>3. v \in GivenUp(t)
      BY <1>4, <1>9, <1>10, <2>3, <3>1 DEF GivenUp
    <3>4. \A w \in (1..Len(s)) \ {v} : w \in GivenUp(s) <=> w \in GivenUp(t)
      BY <1>10 DEF GivenUp
    <3>5. f = g /\ f[v] = quantity
      BY <1>10, <2>1, <3>1
    <3>6. /\ IsFiniteSet(1..Len(s)) /\ GivenUp(s) \in SUBSET (1..Len(s))
          /\ GivenUp(t) \in SUBSET (1..Len(s))
          /\ \A w \in 1..Len(s) : f[w] \in Nat
          /\ LostIn(s) \in Nat
      BY <1>10, LostType
    <3>7. LostIn(s) = Total(f, GivenUp(s)) /\ LostIn(t) = Total(f, GivenUp(t))
      BY <3>5 DEF LostIn
    <3> HIDE DEF f, g
    <3>8. Total(f, GivenUp(t)) = Total(f, GivenUp(s)) + f[v]
      BY <3>2, <3>3, <3>4, <3>6, TotalJoin
    <3> QED BY <2>3, <3>2, <3>3, <3>5, <3>6, <3>7, <3>8
  <2> QED BY <2>2, <2>3
<1>15. \A w \in 1..Len(s) : \A j \in Kinds : s[w][j].events \subseteq t[w][j].events
  BY <1>4, <1>9, <1>10
<1> QED BY <1>10, <1>11, <1>12, <1>13, <1>14, <1>15

(* A case is superseded: nothing is open in it, nothing else changes. *)
LEMMA CaseSuperseded ==
  ASSUME CustodyAssumption, NEW case \in Case, NEW k \in Kinds, CaseOK(case, k)
  PROVE  /\ Superseded(case) \in Case /\ CaseOK(Superseded(case), k)
         /\ Superseded(case).open = 0 /\ Superseded(case).original = case.original
         /\ "written_off" \in Superseded(case).events <=> "written_off" \in case.events
         /\ case.events \subseteq Superseded(case).events
         /\ case.original # 0 => "superseded" \in Superseded(case).events
<1>1. case.open \in 0..Picked /\ case.original \in 0..Picked
  BY DEF Case
<1>2. CASE case.original = 0
  <2>1. Superseded(case) = case /\ case.open = 0
    BY <1>1, <1>2 DEF Superseded, CaseOK, CustodyAssumption
  <2> QED BY <1>2, <2>1
<1>3. CASE case.original # 0
  <2>1. PICK E : E = case.events \cup {"superseded"}
    OBVIOUS
  <2>2. E \in SUBSET {"returned", "recovered", "written_off", "retried", "superseded"}
    BY <2>1 DEF Case
  <2>3. PICK after : after = [case EXCEPT !.open = 0, !.events = E]
    OBVIOUS
  <2>4. Superseded(case) = after
    BY <1>3, <2>1, <2>3 DEF Superseded
  <2>5. 0 \in 0..Picked
    BY DEF CustodyAssumption
  <2>6. /\ after \in Case /\ after.open = 0 /\ after.original = case.original
        /\ after.events = E
    BY <2>2, <2>3, <2>5 DEF Case
  <2>7. CaseOK(after, k)
    BY <1>1, <2>1, <2>6 DEF CaseOK, CustodyAssumption
  <2>8. /\ "written_off" \in after.events <=> "written_off" \in case.events
        /\ case.events \subseteq after.events /\ "superseded" \in after.events
    BY <2>1, <2>6
  <2> QED BY <2>4, <2>6, <2>7, <2>8
<1> QED BY <1>2, <1>3

ReplacedFrom(s, t, o) ==
  t = Append([s EXCEPT ![Len(s)] = [k \in Kinds |-> Superseded(s[Len(s)][k])]], Opened(o))

(* A correction supersedes the cases of the head of the chain and opens those
   of the corrected outcome. *)
LEMMA CasesReplaced ==
  ASSUME CustodyAssumption, NEW s \in Seq(Row), CasesOK(s), Len(s) # 0, NEW o \in Outcomes,
         NEW t, ReplacedFrom(s, t, o)
  PROVE  /\ t \in Seq(Row) /\ Len(t) = Len(s) + 1 /\ CasesOK(t)
         /\ \A k \in Kinds : t[Len(t)][k].original = o[k] /\ HeadOpen(t, k) = o[k]
         /\ \A v \in 1..Len(s) : \A k \in Kinds : s[v][k].events \subseteq t[v][k].events
         /\ \A k \in Kinds : s[Len(s)][k].original # 0 => "superseded" \in t[Len(s)][k].events
         /\ LostIn(t) = LostIn(s)
<1>1. PICK n \in Nat \ {0} : n = Len(s)
  OBVIOUS
<1>2. PICK row : row = [k \in Kinds |-> Superseded(s[n][k])]
  OBVIOUS
<1>3. PICK new : new = Opened(o)
  OBVIOUS
<1>4. /\ new \in Row
      /\ \A k \in Kinds : new[k].original = o[k] /\ new[k].open = o[k] /\ new[k].events = {}
      /\ \A k \in Kinds : o[k] \in 0..Picked
  BY <1>3, FirstCases DEF Row, Case
<1>5. \A k \in Kinds : s[n][k] \in Case /\ CaseOK(s[n][k], k)
  BY <1>1 DEF Row, CasesOK
<1>6. \A k \in Kinds :
        /\ row[k] \in Case /\ CaseOK(row[k], k) /\ row[k].open = 0
        /\ row[k].original = s[n][k].original
        /\ "written_off" \in row[k].events <=> "written_off" \in s[n][k].events
        /\ s[n][k].events \subseteq row[k].events
        /\ s[n][k].original # 0 => "superseded" \in row[k].events
  BY <1>2, <1>5, CaseSuperseded
<1>7. row \in Row
  BY <1>2, <1>6 DEF Row
<1>8. t = Append([s EXCEPT ![n] = row], new)
  BY <1>1, <1>2, <1>3 DEF ReplacedFrom
<1>9. /\ t \in Seq(Row) /\ Len(t) = n + 1 /\ t[n + 1] = new /\ t[n] = row
      /\ \A v \in 1..n : v # n => t[v] = s[v]
  <2>1. PICK u : u = [s EXCEPT ![n] = row]
    OBVIOUS
  <2>2. u \in Seq(Row) /\ Len(u) = n /\ u[n] = row /\ \A v \in 1..n : v # n => u[v] = s[v]
    BY <1>1, <1>7, <2>1
  <2>3. t = Append(u, new)
    BY <1>8, <2>1
  <2>4. /\ Append(u, new) \in Seq(Row) /\ Len(Append(u, new)) = Len(u) + 1
        /\ \A v \in 1..Len(u) : Append(u, new)[v] = u[v]
        /\ Append(u, new)[Len(u) + 1] = new
    BY <1>4, <2>2, AppendProperties
  <2>5. /\ t \in Seq(Row) /\ Len(t) = n + 1 /\ t[n + 1] = new
        /\ \A v \in 1..n : t[v] = u[v]
    BY <2>2, <2>3, <2>4
  <2> QED BY <2>2, <2>5
<1>10. CasesOK(t)
  <2> SUFFICES ASSUME NEW v \in 1..n + 1, NEW k \in Kinds
               PROVE  /\ CaseOK(t[v][k], k) /\ (v < n + 1 => t[v][k].open = 0)
                      /\ v = n + 1 => "superseded" \notin t[v][k].events
    BY <1>9 DEF CasesOK
  <2>1. CASE v = n + 1
    <3>1. CaseOK(new[k], k)
      BY <1>4 DEF CaseOK, CustodyAssumption
    <3> QED BY <1>4, <1>9, <2>1, <3>1
  <2>2. CASE v = n
    BY <1>6, <1>9, <2>2
  <2>3. CASE v # n /\ v # n + 1
    <3>1. v \in 1..Len(s) /\ v < Len(s) /\ t[v] = s[v]
      BY <1>1, <1>9, <2>3
    <3>2. CaseOK(s[v][k], k) /\ s[v][k].open = 0
      BY <3>1 DEF CasesOK
    <3> QED BY <2>3, <3>1, <3>2
  <2> QED BY <2>1, <2>2, <2>3
<1>11. \A k \in Kinds : t[Len(t)][k].original = o[k] /\ HeadOpen(t, k) = o[k]
  BY <1>4, <1>9 DEF HeadOpen
<1>12. LostIn(t) = LostIn(s)
  <2>1. \A v \in 1..n : /\ t[v]["short"].original = s[v]["short"].original
                        /\ "written_off" \in t[v]["short"].events
                             <=> "written_off" \in s[v]["short"].events
    BY <1>6, <1>9 DEF Kinds
  <2>2. "written_off" \notin t[n + 1]["short"].events
    BY <1>4, <1>9 DEF Kinds
  <2>3. GivenUp(t) = GivenUp(s)
    BY <1>1, <1>9, <2>1, <2>2 DEF GivenUp
  <2> DEFINE f == [v \in 1..Len(s) |-> s[v]["short"].original]
             g == [v \in 1..Len(t) |-> t[v]["short"].original]
  <2>4. \A v \in GivenUp(s) : f[v] = g[v]
    BY <1>1, <1>9, <2>1 DEF GivenUp
  <2>5. LostIn(s) = Total(f, GivenUp(s)) /\ LostIn(t) = Total(g, GivenUp(s))
    BY <2>3 DEF LostIn
  <2> HIDE DEF f, g
  <2> QED BY <2>4, <2>5, TotalSame
<1>13. \A v \in 1..n : \A k \in Kinds : s[v][k].events \subseteq t[v][k].events
  BY <1>6, <1>9
<1>14. \A k \in Kinds : s[n][k].original # 0 => "superseded" \in t[n][k].events
  BY <1>6, <1>9
<1> QED BY <1>1, <1>9, <1>10, <1>11, <1>12, <1>13, <1>14

RetriedFrom(s, t) ==
  t = [v \in 1..Len(s) |-> [s[v] EXCEPT !["still"] = Retried(s[v]["still"])]]

(* A retry closes what was still on the vehicle. *)
LEMMA CasesRetried ==
  ASSUME CustodyAssumption, NEW s \in Seq(Row), CasesOK(s),
         NEW t, RetriedFrom(s, t)
  PROVE  /\ t \in Seq(Row) /\ Len(t) = Len(s) /\ CasesOK(t)
         /\ \A k \in Kinds : t[Len(t)][k].original = s[Len(s)][k].original
         /\ HeadOpen(t, "still") = 0
         /\ \A k \in Kinds \ {"still"} : HeadOpen(t, k) = HeadOpen(s, k)
         /\ \A v \in 1..Len(s) : \A k \in Kinds : s[v][k].events \subseteq t[v][k].events
         /\ LostIn(t) = LostIn(s)
<1>0. t = [v \in 1..Len(s) |-> [s[v] EXCEPT !["still"] = Retried(s[v]["still"])]]
  BY DEF RetriedFrom
<1>1. "still" \in Kinds /\ "short" \in Kinds /\ Len(s) \in Nat
  BY DEF Kinds
<1>2. \A v \in 1..Len(s) : s[v] \in Row /\ \A k \in Kinds : s[v][k] \in Case /\ CaseOK(s[v][k], k)
  BY DEF Row, CasesOK
<1>3. ASSUME NEW v \in 1..Len(s), NEW case, case = s[v]["still"]
      PROVE  /\ Retried(case) \in Case /\ CaseOK(Retried(case), "still")
             /\ Retried(case).open = 0 /\ Retried(case).original = case.original
             /\ case.events \subseteq Retried(case).events
             /\ "superseded" \in Retried(case).events => "superseded" \in case.events
  <2>1. case \in Case /\ CaseOK(case, "still")
    BY <1>1, <1>2, <1>3
  <2>2. CASE case.open = 0
    BY <2>1, <2>2 DEF Retried
  <2>3. CASE case.open # 0
    <3>2. PICK E : E = case.events \cup {"retried"}
      OBVIOUS
    <3>3. E \in SUBSET {"returned", "recovered", "written_off", "retried", "superseded"}
      BY <2>1, <3>2 DEF Case
    <3>4. PICK after : after = [case EXCEPT !.open = 0, !.events = E]
      OBVIOUS
    <3>5. Retried(case) = after
      BY <2>3, <3>2, <3>4 DEF Retried
    <3>6. 0 \in 0..Picked
      BY DEF CustodyAssumption
    <3>7. after \in Case /\ after.open = 0 /\ after.original = case.original /\ after.events = E
      BY <2>1, <3>3, <3>4, <3>6 DEF Case
    <3>8. CaseOK(after, "still")
      BY <2>1, <3>2, <3>7 DEF CaseOK, Case, CustodyAssumption
    <3> QED BY <3>2, <3>5, <3>7, <3>8
  <2> QED BY <2>2, <2>3
<1>4. \A v \in 1..Len(s) :
        /\ t[v] = [s[v] EXCEPT !["still"] = Retried(s[v]["still"])]
        /\ t[v] \in Row /\ t[v]["still"] = Retried(s[v]["still"])
        /\ \A k \in Kinds \ {"still"} : t[v][k] = s[v][k]
  <2> TAKE v \in 1..Len(s)
  <2>1. Retried(s[v]["still"]) \in Case
    BY <1>3
  <2>2. PICK c : c = Retried(s[v]["still"])
    OBVIOUS
  <2>3. t[v] = [s[v] EXCEPT !["still"] = c]
    BY <1>0, <2>2
  <2> QED BY <1>1, <1>2, <2>1, <2>2, <2>3 DEF Row
<1>5. t \in Seq(Row) /\ Len(t) = Len(s)
  <2>1. t = [v \in 1..Len(s) |-> t[v]]
    BY <1>0
  <2>2. t \in [1..Len(s) -> Row]
    BY <1>4, <2>1
  <2> QED BY <1>1, <2>2
<1>6. \A v \in 1..Len(s) : /\ t[v]["still"].open = 0 /\ CaseOK(t[v]["still"], "still")
                           /\ t[v]["still"].original = s[v]["still"].original
                           /\ s[v]["still"].events \subseteq t[v]["still"].events
                           /\ "superseded" \in t[v]["still"].events
                                => "superseded" \in s[v]["still"].events
  <2> TAKE v \in 1..Len(s)
  <2>1. PICK case : case = s[v]["still"]
    OBVIOUS
  <2>2. t[v]["still"] = Retried(case)
    BY <1>4, <2>1
  <2>3. /\ CaseOK(Retried(case), "still")
        /\ Retried(case).open = 0 /\ Retried(case).original = case.original
        /\ case.events \subseteq Retried(case).events
        /\ "superseded" \in Retried(case).events => "superseded" \in case.events
    BY <1>3, <2>1
  <2> QED BY <2>1, <2>2, <2>3
<1>7. CasesOK(t)
  BY <1>0, <1>4, <1>5, <1>6 DEF CasesOK
<1>8. \A k \in Kinds : t[Len(t)][k].original = s[Len(s)][k].original
  <2>1. CASE Len(s) = 0
    <3>1. s = <<>> /\ t = <<>>
      BY <1>5, <2>1
    <3> QED BY <3>1
  <2>2. CASE Len(s) # 0
    BY <1>0, <1>1, <1>4, <1>5, <1>6, <2>2
  <2> QED BY <2>1, <2>2
<1>9. HeadOpen(t, "still") = 0 /\ \A k \in Kinds \ {"still"} : HeadOpen(t, k) = HeadOpen(s, k)
  <2>1. CASE Len(s) = 0
    BY <1>5, <2>1 DEF HeadOpen
  <2>2. CASE Len(s) # 0
    <3>1. Len(s) \in 1..Len(s) /\ Len(t) = Len(s)
      BY <1>0, <1>5, <2>2
    <3>2. /\ HeadOpen(t, "still") = t[Len(s)]["still"].open
          /\ \A k \in Kinds : HeadOpen(t, k) = t[Len(s)][k].open
          /\ \A k \in Kinds : HeadOpen(s, k) = s[Len(s)][k].open
      BY <2>2, <3>1 DEF HeadOpen
    <3>3. t[Len(s)]["still"].open = 0
      BY <1>6, <3>1
    <3>4. \A k \in Kinds \ {"still"} : t[Len(s)][k] = s[Len(s)][k]
      BY <1>4, <3>1
    <3> QED BY <3>2, <3>3, <3>4
  <2> QED BY <2>1, <2>2
<1>10. LostIn(t) = LostIn(s)
  <2>1. \A v \in 1..Len(s) : t[v]["short"] = s[v]["short"]
    BY <1>4 DEF Kinds
  <2> QED BY <1>5, <2>1, LostSame
<1>11. \A v \in 1..Len(s) : \A k \in Kinds : s[v][k].events \subseteq t[v][k].events
  <2> TAKE v \in 1..Len(s)
  <2> TAKE k \in Kinds
  <2>1. CASE k = "still"
    BY <1>6, <2>1
  <2>2. CASE k # "still"
    <3>1. t[v][k] = s[v][k]
      BY <1>4, <2>2
    <3> QED BY <3>1
  <2> QED BY <2>1, <2>2
<1> QED BY <1>5, <1>7, <1>8, <1>9, <1>10, <1>11

-----------------------------------------------------------------------------
(* What one delivery adds to the quantities on vehicles, and the totals over
   all deliveries. *)
Carried(row, s) ==
  IF row.status = "dispatched" THEN row.quantity ELSE OpenIn(s, "refused") + OpenIn(s, "still")

VehiclesIn(D, C) == Total([d \in Deliveries |-> Carried(D[d], C[d])], Deliveries)
MissingIn(C)     == Total([d \in Deliveries |-> OpenIn(C[d], "short")], Deliveries)
LostOf(C)        == Total([d \in Deliveries |-> LostIn(C[d])], Deliveries)
AcceptedIn(D)    == Total([d \in Deliveries |-> D[d].head.accepted], Deliveries)

(* The deliveries and cases a state may have, as far as quantities go. *)
Sound(D, C) ==
  /\ D \in [Deliveries -> DeliveryRow] /\ C \in [Deliveries -> Seq(Row)]
  /\ \A d \in Deliveries : CasesOK(C[d])

LEMMA SoundRows ==
  ASSUME CustodyAssumption, NEW D, NEW C, Sound(D, C)
  PROVE  \A d \in Deliveries :
           /\ Carried(D[d], C[d]) = IF D[d].status = "dispatched" THEN D[d].quantity
                                    ELSE HeadOpen(C[d], "refused") + HeadOpen(C[d], "still")
           /\ Carried(D[d], C[d]) \in Nat
           /\ OpenIn(C[d], "short") = HeadOpen(C[d], "short")
           /\ OpenIn(C[d], "short") \in Nat
           /\ LostIn(C[d]) \in Nat /\ D[d].head.accepted \in Nat /\ D[d].quantity \in Nat
<1> TAKE d \in Deliveries
<1>1. D[d] \in DeliveryRow /\ C[d] \in Seq(Row) /\ CasesOK(C[d])
  BY DEF Sound
<1>2. /\ OpenIn(C[d], "refused") = HeadOpen(C[d], "refused") /\ HeadOpen(C[d], "refused") \in 0..Picked
      /\ OpenIn(C[d], "still") = HeadOpen(C[d], "still") /\ HeadOpen(C[d], "still") \in 0..Picked
      /\ OpenIn(C[d], "short") = HeadOpen(C[d], "short") /\ HeadOpen(C[d], "short") \in 0..Picked
  <2>1. "refused" \in Kinds /\ "still" \in Kinds /\ "short" \in Kinds
    BY DEF Kinds
  <2> QED BY <1>1, <2>1, OpenHead
<1>3. D[d].quantity \in Nat /\ D[d].head.accepted \in Nat
  BY <1>1 DEF DeliveryRow, Outcomes, CustodyAssumption
<1>4. LostIn(C[d]) \in Nat
  BY <1>1, LostType
<1> QED BY <1>2, <1>3, <1>4 DEF Carried, CustodyAssumption

LEMMA SoundTotals ==
  ASSUME CustodyAssumption, NEW D, NEW C, Sound(D, C)
  PROVE  /\ VehiclesIn(D, C) \in Nat /\ MissingIn(C) \in Nat
         /\ LostOf(C) \in Nat /\ AcceptedIn(D) \in Nat
<1> DEFINE f == [d \in Deliveries |-> Carried(D[d], C[d])]
           g == [d \in Deliveries |-> OpenIn(C[d], "short")]
           h == [d \in Deliveries |-> LostIn(C[d])]
           i == [d \in Deliveries |-> D[d].head.accepted]
<1>1. \A d \in Deliveries : f[d] \in Nat /\ g[d] \in Nat /\ h[d] \in Nat /\ i[d] \in Nat
  BY SoundRows
<1>2. IsFiniteSet(Deliveries)
  BY DEF CustodyAssumption
<1>3. /\ VehiclesIn(D, C) = Total(f, Deliveries) /\ MissingIn(C) = Total(g, Deliveries)
      /\ LostOf(C) = Total(h, Deliveries) /\ AcceptedIn(D) = Total(i, Deliveries)
  BY DEF VehiclesIn, MissingIn, LostOf, AcceptedIn
<1> HIDE DEF f, g, h, i
<1>4. /\ Total(f, Deliveries) \in Nat /\ Total(g, Deliveries) \in Nat
      /\ Total(h, Deliveries) \in Nat /\ Total(i, Deliveries) \in Nat
  BY <1>1, <1>2, TotalType
<1> QED BY <1>3, <1>4

(* When one delivery changes, each total changes by as much. *)
LEMMA OneDelivery ==
  ASSUME CustodyAssumption, NEW D, NEW C, Sound(D, C), NEW E, NEW B, Sound(E, B),
         NEW d \in Deliveries,
         \A e \in Deliveries \ {d} : E[e] = D[e] /\ B[e] = C[e]
  PROVE  /\ VehiclesIn(E, B) = VehiclesIn(D, C) - Carried(D[d], C[d]) + Carried(E[d], B[d])
         /\ MissingIn(B) = MissingIn(C) - HeadOpen(C[d], "short") + HeadOpen(B[d], "short")
         /\ LostOf(B) = LostOf(C) - LostIn(C[d]) + LostIn(B[d])
         /\ AcceptedIn(E) = AcceptedIn(D) - D[d].head.accepted + E[d].head.accepted
<1>1. IsFiniteSet(Deliveries)
  BY DEF CustodyAssumption
<1>2. VehiclesIn(E, B) = VehiclesIn(D, C) - Carried(D[d], C[d]) + Carried(E[d], B[d])
  <2> DEFINE f == [e \in Deliveries |-> Carried(D[e], C[e])]
             g == [e \in Deliveries |-> Carried(E[e], B[e])]
  <2>1. \A e \in Deliveries : f[e] \in Nat /\ g[e] \in Nat
    BY SoundRows
  <2>2. \A e \in Deliveries \ {d} : g[e] = f[e]
    OBVIOUS
  <2>3. f[d] = Carried(D[d], C[d]) /\ g[d] = Carried(E[d], B[d])
    OBVIOUS
  <2>4. VehiclesIn(D, C) = Total(f, Deliveries) /\ VehiclesIn(E, B) = Total(g, Deliveries)
    BY DEF VehiclesIn
  <2> HIDE DEF f, g
  <2>5. Total(g, Deliveries) = Total(f, Deliveries) - f[d] + g[d]
    BY <1>1, <2>1, <2>2, TotalChange
  <2> QED BY <2>3, <2>4, <2>5
<1>3. MissingIn(B) = MissingIn(C) - HeadOpen(C[d], "short") + HeadOpen(B[d], "short")
  <2> DEFINE f == [e \in Deliveries |-> OpenIn(C[e], "short")]
             g == [e \in Deliveries |-> OpenIn(B[e], "short")]
  <2>1. \A e \in Deliveries : f[e] \in Nat /\ g[e] \in Nat
    BY SoundRows
  <2>2. \A e \in Deliveries \ {d} : g[e] = f[e]
    OBVIOUS
  <2>3. f[d] = HeadOpen(C[d], "short") /\ g[d] = HeadOpen(B[d], "short")
    BY SoundRows
  <2>4. MissingIn(C) = Total(f, Deliveries) /\ MissingIn(B) = Total(g, Deliveries)
    BY DEF MissingIn
  <2> HIDE DEF f, g
  <2>5. Total(g, Deliveries) = Total(f, Deliveries) - f[d] + g[d]
    BY <1>1, <2>1, <2>2, TotalChange
  <2> QED BY <2>3, <2>4, <2>5
<1>4. LostOf(B) = LostOf(C) - LostIn(C[d]) + LostIn(B[d])
  <2> DEFINE f == [e \in Deliveries |-> LostIn(C[e])]
             g == [e \in Deliveries |-> LostIn(B[e])]
  <2>1. \A e \in Deliveries : f[e] \in Nat /\ g[e] \in Nat
    BY SoundRows
  <2>2. \A e \in Deliveries \ {d} : g[e] = f[e]
    OBVIOUS
  <2>3. f[d] = LostIn(C[d]) /\ g[d] = LostIn(B[d])
    OBVIOUS
  <2>4. LostOf(C) = Total(f, Deliveries) /\ LostOf(B) = Total(g, Deliveries)
    BY DEF LostOf
  <2> HIDE DEF f, g
  <2>5. Total(g, Deliveries) = Total(f, Deliveries) - f[d] + g[d]
    BY <1>1, <2>1, <2>2, TotalChange
  <2> QED BY <2>3, <2>4, <2>5
<1>5. AcceptedIn(E) = AcceptedIn(D) - D[d].head.accepted + E[d].head.accepted
  <2> DEFINE f == [e \in Deliveries |-> D[e].head.accepted]
             g == [e \in Deliveries |-> E[e].head.accepted]
  <2>1. \A e \in Deliveries : f[e] \in Nat /\ g[e] \in Nat
    BY SoundRows
  <2>2. \A e \in Deliveries \ {d} : g[e] = f[e]
    OBVIOUS
  <2>3. f[d] = D[d].head.accepted /\ g[d] = E[d].head.accepted
    OBVIOUS
  <2>4. AcceptedIn(D) = Total(f, Deliveries) /\ AcceptedIn(E) = Total(g, Deliveries)
    BY DEF AcceptedIn
  <2> HIDE DEF f, g
  <2>5. Total(g, Deliveries) = Total(f, Deliveries) - f[d] + g[d]
    BY <1>1, <2>1, <2>2, TotalChange
  <2> QED BY <2>3, <2>4, <2>5
<1> QED BY <1>2, <1>3, <1>4, <1>5

-----------------------------------------------------------------------------
(* What customers returned. *)
ReceivedIn(R, outcomes) ==
  Total([r \in Returns |-> R[r].received], {r \in Returns : R[r].outcome \in outcomes})

Counted(row, outcomes) == IF row.outcome \in outcomes THEN row.received ELSE 0

LEMMA ReceivedType ==
  ASSUME CustodyAssumption, NEW R \in [Returns -> ReturnRow], NEW outcomes
  PROVE  ReceivedIn(R, outcomes) \in Nat
<1> DEFINE f == [r \in Returns |-> R[r].received]
           T == {r \in Returns : R[r].outcome \in outcomes}
<1>1. IsFiniteSet(T)
  BY FS_Subset DEF CustodyAssumption
<1>2. \A r \in T : f[r] \in Nat
  BY DEF ReturnRow, CustodyAssumption
<1>3. ReceivedIn(R, outcomes) = Total(f, T)
  BY DEF ReceivedIn
<1> HIDE DEF f, T
<1> QED BY <1>1, <1>2, <1>3, TotalType

LEMMA OneReturn ==
  ASSUME CustodyAssumption, NEW R \in [Returns -> ReturnRow], NEW Q \in [Returns -> ReturnRow],
         NEW a \in Returns, \A r \in Returns \ {a} : Q[r] = R[r], NEW outcomes
  PROVE  ReceivedIn(Q, outcomes)
           = ReceivedIn(R, outcomes) - Counted(R[a], outcomes) + Counted(Q[a], outcomes)
<1> DEFINE f == [r \in Returns |-> R[r].received]
           g == [r \in Returns |-> Q[r].received]
           T == {r \in Returns : R[r].outcome \in outcomes}
           U == {r \in Returns : Q[r].outcome \in outcomes}
<1>1. \A r \in Returns : f[r] \in Nat /\ g[r] \in Nat
  BY DEF ReturnRow, CustodyAssumption
<1>2. T \in SUBSET Returns /\ U \in SUBSET Returns
  OBVIOUS
<1>3. (\A r \in Returns \ {a} : r \in T <=> r \in U) /\ (\A r \in T \ {a} : g[r] = f[r])
  OBVIOUS
<1>4. ReceivedIn(R, outcomes) = Total(f, T) /\ ReceivedIn(Q, outcomes) = Total(g, U)
  BY DEF ReceivedIn
<1>5. /\ Counted(R[a], outcomes) = IF a \in T THEN f[a] ELSE 0
      /\ Counted(Q[a], outcomes) = IF a \in U THEN g[a] ELSE 0
  BY DEF Counted
<1>6. IsFiniteSet(Returns)
  BY DEF CustodyAssumption
<1> HIDE DEF f, g, T, U
<1>7. Total(g, U) = Total(f, T) - (IF a \in T THEN f[a] ELSE 0) + (IF a \in U THEN g[a] ELSE 0)
  BY <1>1, <1>2, <1>3, <1>6, TotalPart
<1> QED BY <1>4, <1>5, <1>7

-----------------------------------------------------------------------------
(* What leaves the conjuncts of the invariant alone. *)
LEMMA KindsRows ==
  ASSUME CustodyAssumption, CustodyTypes, ChainsOK
  PROVE  Sound(delivery, cases)
BY DEF CustodyTypes, ChainsOK, Sound, Row

LEMMA ChainKept ==
  ASSUME NEW d \in Deliveries, ChainOK(d),
         delivery'[d].status = delivery[d].status, delivery'[d].quantity = delivery[d].quantity,
         delivery'[d].head = delivery[d].head,
         cases'[d] = cases[d], proposal'[d] = proposal[d], UNCHANGED returns
  PROVE  ChainOK(d)'
<1>1. /\ Version(d)' = Version(d) /\ Current(d)' = Current(d)
      /\ AuthorizedReturns(d)' = AuthorizedReturns(d)
  BY DEF Version, Current, AuthorizedReturns, ReturnsOf
<1> QED BY <1>1 DEF ChainOK

(* Nothing authorized is for a receipt of which no return was authorized. *)
LEMMA NoneAuthorized ==
  ASSUME ReturnsOK, NEW d \in Deliveries, AuthorizedReturns(d) = {}
  PROVE  \A r \in Returns :
           returns[r].state \in {"authorized", "received"} => returns[r].of[1] # d
<1> TAKE r \in Returns
<1>1. SUFFICES ASSUME returns[r].state \in {"authorized", "received"}, returns[r].of[1] = d
               PROVE  FALSE
  OBVIOUS
<1>2. returns[r].of \in Deliveries \X (1..Versions) /\ returns[r].of[2] = Version(d)
  BY <1>1 DEF ReturnsOK, ReturnOK
<1>3. returns[r].of = <<d, Version(d)>>
  BY <1>1, <1>2
<1> QED BY <1>1, <1>3 DEF AuthorizedReturns, ReturnsOf

LEMMA ReturnsKept ==
  ASSUME CustodyAssumption, CustodyTypes, CustodyTypes', ReturnsOK, UNCHANGED returns,
         \A d \in Deliveries :
           \/ /\ Len(cases'[d]) = Len(cases[d])
              /\ delivery'[d].head.accepted = delivery[d].head.accepted
           \/ AuthorizedReturns(d) = {}
  PROVE  ReturnsOK'
<1>1. ASSUME NEW r \in Returns PROVE ReturnOK(r)'
  <2>1. ReturnOK(r)
    BY DEF ReturnsOK
  <2>2. returns[r].state \in {"authorized", "received"} =>
          Len(cases'[returns[r].of[1]]) = Len(cases[returns[r].of[1]])
    <3> HAVE returns[r].state \in {"authorized", "received"}
    <3>1. returns[r].of[1] \in Deliveries
      BY <2>1 DEF ReturnOK
    <3> QED BY <3>1, NoneAuthorized
  <2> QED BY <2>1, <2>2 DEF ReturnOK, Version
<1>2. ASSUME NEW d \in Deliveries
      PROVE  (AuthorizedQuantity(d) <= delivery[d].head.accepted)'
  <2>1. CASE /\ Len(cases'[d]) = Len(cases[d])
             /\ delivery'[d].head.accepted = delivery[d].head.accepted
    <3>1. AuthorizedReturns(d)' = AuthorizedReturns(d)
      BY <2>1 DEF AuthorizedReturns, ReturnsOf, Version
    <3>2. AuthorizedQuantity(d)' = AuthorizedQuantity(d)
      BY <3>1 DEF AuthorizedQuantity
    <3> QED BY <2>1, <3>2 DEF ReturnsOK
  <2>2. CASE AuthorizedReturns(d) = {}
    <3>1. \A r \in Returns :
            returns[r].state \in {"authorized", "received"} => returns[r].of[1] # d
      BY <2>2, NoneAuthorized
    <3>2. AuthorizedReturns(d)' = {}
      BY <3>1 DEF AuthorizedReturns, ReturnsOf
    <3>3. AuthorizedQuantity(d)' = 0
      BY <3>2, TotalZero DEF AuthorizedQuantity
    <3>4. delivery'[d].head.accepted \in Nat
      <4>1. delivery'[d] \in DeliveryRow
        BY DEF CustodyTypes
      <4> QED BY <4>1 DEF DeliveryRow, Outcomes, CustodyAssumption
    <3> QED BY <3>3, <3>4
  <2> QED BY <2>1, <2>2
<1> QED BY <1>1, <1>2 DEF ReturnsOK

LEMMA ConversionsKept ==
  ASSUME ConversionsOK, UNCHANGED <<conversion, charged, policy>>,
         \A d \in Deliveries : conversion[d].state # "none" =>
           /\ delivery'[d].status # "none"
           /\ delivery'[d].status = "dispatched" =>
                delivery[d].status = "dispatched" /\ delivery'[d].quantity = delivery[d].quantity
           /\ Len(cases'[d]) = 1 =>
                /\ Len(cases[d]) = 1
                /\ delivery'[d].head.accepted = delivery[d].head.accepted
  PROVE  ConversionsOK'
<1>1. ASSUME NEW d \in Deliveries PROVE ConversionOK(d)'
  <2>1. ConversionOK(d)
    BY DEF ConversionsOK
  <2> QED BY <2>1 DEF ConversionOK, Version
<1>2. ConversionsSettle'
  <2>1. ConversionsSettle
    BY DEF ConversionsOK
  <2>2. \A d \in Deliveries : (conversion[d].state = "approved" /\ Version(d) = 1)' =>
          delivery'[d].head.accepted > 0
    <3> TAKE d \in Deliveries
    <3> HAVE (conversion[d].state = "approved" /\ Version(d) = 1)'
    <3>1. conversion[d].state = "approved" /\ Len(cases[d]) = 1
          /\ delivery'[d].head.accepted = delivery[d].head.accepted
      BY DEF Version
    <3> QED BY <2>1, <3>1 DEF ConversionsSettle, Version
  <2>3. (charged = Total([d \in Deliveries |-> conversion[d].amount],
                     {d \in Deliveries : conversion[d].state \in {"approved", "consumed"}}))'
    BY <2>1 DEF ConversionsSettle
  <2> QED BY <2>2, <2>3 DEF ConversionsSettle
<1> QED BY <1>1, <1>2 DEF ConversionsOK

(* Events only happen to cases, so that a correction that superseded a case
   something was done about stays one. *)
LEMMA TouchedStaysTouched ==
  ASSUME CustodyTypes,
         \A d \in Deliveries :
           /\ Len(cases'[d]) \in Nat /\ Len(cases[d]) <= Len(cases'[d])
           /\ \A v \in 1..Len(cases[d]) : \A k \in Kinds :
                cases[d][v][k].events \subseteq cases'[d][v][k].events,
         CorrectsOnlyUntouched'
  PROVE  CorrectsOnlyUntouched
<1> SUFFICES ASSUME NEW d \in Deliveries, NEW v \in 1..Version(d), NEW k \in Kinds,
                    "superseded" \in cases[d][v][k].events
             PROVE  cases[d][v][k].events = {"superseded"}
  BY DEF CorrectsOnlyUntouched
<1>1. /\ v \in 1..Len(cases[d]) /\ v \in 1..Len(cases'[d])
      /\ cases[d][v][k].events \subseteq cases'[d][v][k].events
  BY DEF Version, CustodyTypes
<1>2. cases'[d][v][k].events = {"superseded"}
  BY <1>1 DEF CorrectsOnlyUntouched, Version
<1> QED BY <1>1, <1>2

-----------------------------------------------------------------------------
Everything(S) == S["staging"] + S["in_transit"] + S["investigation"]
                 + S["quarantine"] + S["available"]

(* The invariant of the quantities, in terms of the totals. *)
QuantitiesOf(S, x, D, C, R) ==
  /\ Everything(S) + (AcceptedIn(D) - ReceivedIn(R, {"restock", "quarantine"})) + LostOf(C) = Picked
  /\ ReceivedIn(R, {"quarantine"}) <= S["quarantine"]
  /\ x = Everything(S) - ReceivedIn(R, {"quarantine"})

MatchesOf(S, D, C) ==
  S["in_transit"] = VehiclesIn(D, C) /\ S["investigation"] = MissingIn(C)

LEMMA QuantitiesMean ==
  QuantitiesOK <=> /\ QuantitiesOf(stock, valued, delivery, cases, returns)
                   /\ CorrectsOnlyUntouched => MatchesOf(stock, delivery, cases)
<1>1. UnitsBalance <=> QuantitiesOf(stock, valued, delivery, cases, returns)
  BY DEF UnitsBalance, QuantitiesOf, ValuationMatches, OnHand, Everything, AtCustomer, Lost,
         AcceptedIn, LostOf, Received, ReceivedIn, WrittenOff, LostIn, GivenUp, Version
<1>2. CustodyMatchesCases <=> (CorrectsOnlyUntouched => MatchesOf(stock, delivery, cases))
  BY DEF CustodyMatchesCases, MatchesOf, VehiclesIn, MissingIn, OnVehicle, Carried, Open, OpenIn,
         OpenCase, Version
<1> QED BY <1>1, <1>2 DEF QuantitiesOK

LEMMA QuantitiesMeanNext ==
  QuantitiesOK' <=> /\ QuantitiesOf(stock', valued', delivery', cases', returns')
                    /\ CorrectsOnlyUntouched' => MatchesOf(stock', delivery', cases')
<1>1. UnitsBalance' <=> QuantitiesOf(stock', valued', delivery', cases', returns')
  BY DEF UnitsBalance, QuantitiesOf, ValuationMatches, OnHand, Everything, AtCustomer, Lost,
         AcceptedIn, LostOf, Received, ReceivedIn, WrittenOff, LostIn, GivenUp, Version
<1>2. CustodyMatchesCases' <=> (CorrectsOnlyUntouched' => MatchesOf(stock', delivery', cases'))
  BY DEF CustodyMatchesCases, MatchesOf, VehiclesIn, MissingIn, OnVehicle, Carried, Open, OpenIn,
         OpenCase, Version
<1> QED BY <1>1, <1>2 DEF QuantitiesOK

(* What a step does to one delivery, and to the locations with it. *)
LEMMA DeliveryMoves ==
  ASSUME CustodyAssumption, CustodyTypes, ChainsOK, QuantitiesOK, CustodyTypes', ChainsOK',
         UNCHANGED returns, NEW d \in Deliveries,
         \A e \in Deliveries \ {d} : delivery'[e] = delivery[e] /\ cases'[e] = cases[e],
         Everything(stock') = Everything(stock)
           - (delivery'[d].head.accepted - delivery[d].head.accepted)
           - (LostIn(cases'[d]) - LostIn(cases[d])),
         stock["quarantine"] <= stock'["quarantine"],
         valued' = valued + (Everything(stock') - Everything(stock)),
         CorrectsOnlyUntouched' =>
           /\ CorrectsOnlyUntouched
           /\ stock'["in_transit"] = stock["in_transit"] - Carried(delivery[d], cases[d])
                                     + Carried(delivery'[d], cases'[d])
           /\ stock'["investigation"] = stock["investigation"] - HeadOpen(cases[d], "short")
                                        + HeadOpen(cases'[d], "short")
  PROVE  QuantitiesOK'
<1>1. Sound(delivery, cases) /\ Sound(delivery', cases')
  BY DEF CustodyTypes, ChainsOK, Sound, Row
<1>2. /\ VehiclesIn(delivery', cases') = VehiclesIn(delivery, cases)
           - Carried(delivery[d], cases[d]) + Carried(delivery'[d], cases'[d])
      /\ MissingIn(cases') = MissingIn(cases) - HeadOpen(cases[d], "short")
                             + HeadOpen(cases'[d], "short")
      /\ LostOf(cases') = LostOf(cases) - LostIn(cases[d]) + LostIn(cases'[d])
      /\ AcceptedIn(delivery') = AcceptedIn(delivery) - delivery[d].head.accepted
                                 + delivery'[d].head.accepted
  BY <1>1, OneDelivery
<1>3. /\ LostOf(cases) \in Int /\ AcceptedIn(delivery) \in Int
      /\ ReceivedIn(returns, {"restock", "quarantine"}) \in Int
      /\ ReceivedIn(returns, {"quarantine"}) \in Int
  <2>1. LostOf(cases) \in Nat /\ AcceptedIn(delivery) \in Nat
    BY <1>1, SoundTotals
  <2>2. returns \in [Returns -> ReturnRow]
    BY DEF CustodyTypes
  <2>3. /\ ReceivedIn(returns, {"restock", "quarantine"}) \in Nat
        /\ ReceivedIn(returns, {"quarantine"}) \in Nat
    BY <2>2, ReceivedType
  <2> QED BY <2>1, <2>3
<1>4. /\ LostIn(cases[d]) \in Int /\ LostIn(cases'[d]) \in Int
      /\ delivery[d].head.accepted \in Int /\ delivery'[d].head.accepted \in Int
  BY <1>1, SoundRows
<1>5. /\ Everything(stock) \in Int /\ Everything(stock') \in Int /\ valued \in Int
      /\ stock["quarantine"] \in Int /\ stock'["quarantine"] \in Int
  <2>1. \A l \in Locations : stock[l] \in Nat /\ stock'[l] \in Nat
    BY DEF CustodyTypes
  <2>2. /\ stock["staging"] \in Nat /\ stock'["staging"] \in Nat
        /\ stock["in_transit"] \in Nat /\ stock'["in_transit"] \in Nat
        /\ stock["investigation"] \in Nat /\ stock'["investigation"] \in Nat
        /\ stock["quarantine"] \in Nat /\ stock'["quarantine"] \in Nat
        /\ stock["available"] \in Nat /\ stock'["available"] \in Nat
    BY <2>1 DEF Locations
  <2>3. Everything(stock) \in Int /\ Everything(stock') \in Int
    BY <2>2 DEF Everything
  <2> QED BY <2>2, <2>3 DEF CustodyTypes
<1>6. /\ QuantitiesOf(stock, valued, delivery, cases, returns)
      /\ CorrectsOnlyUntouched => MatchesOf(stock, delivery, cases)
  BY QuantitiesMean
<1>7. QuantitiesOf(stock', valued', delivery', cases', returns')
  BY <1>2, <1>3, <1>4, <1>5, <1>6 DEF QuantitiesOf
<1>8. CorrectsOnlyUntouched' => MatchesOf(stock', delivery', cases')
  BY <1>2, <1>6 DEF MatchesOf
<1> QED BY <1>7, <1>8, QuantitiesMeanNext

(* A step that leaves the goods of all deliveries and the locations alone. *)
LEMMA NothingMoves ==
  ASSUME CustodyAssumption, CustodyTypes, CustodyTypes', ChainsOK, ChainsOK', QuantitiesOK,
         UNCHANGED <<stock, valued, cases, returns>>,
         \A d \in Deliveries :
           /\ delivery'[d].status = delivery[d].status
           /\ delivery'[d].quantity = delivery[d].quantity
           /\ delivery'[d].head = delivery[d].head
  PROVE  QuantitiesOK'
<1>1. VehiclesIn(delivery', cases') = VehiclesIn(delivery, cases)
  BY DEF VehiclesIn, Carried
<1>2. AcceptedIn(delivery') = AcceptedIn(delivery)
  BY DEF AcceptedIn
<1>3. CorrectsOnlyUntouched' <=> CorrectsOnlyUntouched
  BY DEF CorrectsOnlyUntouched, Version
<1>4. QuantitiesOf(stock', valued', delivery', cases', returns')
  BY <1>2, QuantitiesMean DEF QuantitiesOf
<1>5. CorrectsOnlyUntouched' => MatchesOf(stock', delivery', cases')
  BY <1>1, <1>3, QuantitiesMean DEF MatchesOf
<1> QED BY <1>4, <1>5, QuantitiesMeanNext

(* A vehicle takes goods: a row of the dispatches is written. *)
LEMMA SendRow ==
  ASSUME CustodyAssumption, CustodyTypes, NEW d \in Deliveries, NEW quantity \in 0..Picked,
         Send(d, quantity)
  PROVE  /\ delivery' \in [Deliveries -> DeliveryRow]
         /\ \A e \in Deliveries \ {d} : delivery'[e] = delivery[e]
         /\ delivery'[d].status = "dispatched" /\ delivery'[d].quantity = quantity
         /\ delivery'[d].head = delivery[d].head
<1>1. PICK row : row = [[delivery[d] EXCEPT !.status = "dispatched"] EXCEPT !.quantity = quantity]
  OBVIOUS
<1>2. delivery \in [Deliveries -> DeliveryRow]
  BY DEF CustodyTypes
<1>3. delivery[d] \in DeliveryRow
  BY <1>2
<1>4. [delivery[d] EXCEPT !.status = "dispatched"] \in DeliveryRow
  BY <1>3 DEF DeliveryRow
<1>5. /\ row \in DeliveryRow /\ row.status = "dispatched" /\ row.quantity = quantity
      /\ row.head = delivery[d].head
  BY <1>1, <1>3, <1>4 DEF DeliveryRow
<1>6. delivery' = [delivery EXCEPT ![d] = row]
  BY <1>1 DEF Send
<1> QED BY <1>2, <1>5, <1>6

-----------------------------------------------------------------------------
(* The steps that move goods keep the invariant. *)
LEMMA DispatchStep ==
  ASSUME CustodyAssumption, CustodyInv, NEW d \in Deliveries, NEW quantity \in 1..Picked,
         Dispatch(d, quantity)
  PROVE  CustodyInv'
<1>1. CustodyTypes /\ ChainsOK /\ ReturnsOK /\ ConversionsOK /\ QuantitiesOK
  BY DEF CustodyInv
<1>2. /\ delivery[d].status = "none" /\ delivery[d].quantity = 0
      /\ delivery[d].head = Undelivered /\ cases[d] = <<>>
      /\ proposal[d].state = "none"
  BY <1>1 DEF Dispatch, ChainsOK, ChainOK
<1>3. quantity \in 0..Picked /\ quantity \in Nat
  BY DEF CustodyAssumption
<1>4. /\ delivery' \in [Deliveries -> DeliveryRow]
      /\ \A e \in Deliveries \ {d} : delivery'[e] = delivery[e]
      /\ delivery'[d].status = "dispatched" /\ delivery'[d].quantity = quantity
      /\ delivery'[d].head = delivery[d].head
  BY <1>1, <1>3, SendRow DEF Dispatch
<1>5. /\ stock' \in [Locations -> Nat]
      /\ stock'["staging"] = stock["staging"] - quantity
      /\ stock'["in_transit"] = stock["in_transit"] + quantity
      /\ stock'["investigation"] = stock["investigation"]
      /\ stock'["quarantine"] = stock["quarantine"]
      /\ stock'["available"] = stock["available"]
  <2>1. stock \in [Locations -> Nat]
    BY <1>1 DEF CustodyTypes
  <2>2. quantity <= stock["staging"]
    BY DEF Dispatch
  <2>3. stock' = [stock EXCEPT !["staging"] = @ - quantity, !["in_transit"] = @ + quantity]
    BY DEF Dispatch, Moved
  <2> QED BY <1>3, <2>1, <2>2, <2>3 DEF Locations
<1>6. UNCHANGED <<valued, cases, proposal, returns, fulfilled, conversion, charged, policy>>
  BY DEF Dispatch
<1>7. CustodyTypes'
  BY <1>1, <1>4, <1>5, <1>6 DEF CustodyTypes
<1>8. ChainsOK'
  <2>1. ASSUME NEW e \in Deliveries PROVE CasesOK(cases[e])'
    BY <1>1, <1>6 DEF ChainsOK
  <2>2. ASSUME NEW e \in Deliveries PROVE ChainOK(e)'
    <3>1. CASE e # d
      BY <1>1, <1>4, <1>6, <3>1, ChainKept DEF ChainsOK
    <3>2. CASE e = d
      BY <1>2, <1>4, <1>6, <3>2 DEF ChainOK
    <3> QED BY <3>1, <3>2
  <2> QED BY <2>1, <2>2 DEF ChainsOK
<1>9. ReturnsOK'
  <2>1. \A e \in Deliveries : /\ Len(cases'[e]) = Len(cases[e])
                              /\ delivery'[e].head.accepted = delivery[e].head.accepted
    BY <1>4, <1>6
  <2> QED BY <1>1, <1>6, <1>7, <2>1, ReturnsKept
<1>10. ConversionsOK'
  <2>1. \A e \in Deliveries : conversion[e].state # "none" => e # d
    BY <1>1, <1>2 DEF ConversionsOK, ConversionOK
  <2>2. \A e \in Deliveries : conversion[e].state # "none" =>
          delivery'[e] = delivery[e] /\ cases'[e] = cases[e] /\ delivery[e].status # "none"
    BY <1>1, <1>4, <1>6, <2>1 DEF ConversionsOK, ConversionOK
  <2> QED BY <1>1, <1>6, <2>2, ConversionsKept
<1>11. QuantitiesOK'
  <2>1. Carried(delivery[d], cases[d]) = 0 /\ Carried(delivery'[d], cases'[d]) = quantity
    <3>1. Sound(delivery, cases)
      BY <1>1, KindsRows
    <3>2. Carried(delivery[d], cases[d]) = HeadOpen(cases[d], "refused") + HeadOpen(cases[d], "still")
      BY <1>2, <3>1, SoundRows
    <3>3. \A k \in Kinds : HeadOpen(cases[d], k) = 0
      BY <1>2 DEF HeadOpen
    <3> QED BY <1>4, <3>2, <3>3 DEF Kinds, Carried
  <2>2. /\ stock["staging"] \in Int /\ stock["in_transit"] \in Int /\ stock["investigation"] \in Int
        /\ stock["quarantine"] \in Int /\ stock["available"] \in Int /\ valued \in Int
    BY <1>1 DEF CustodyTypes, Locations
  <2>3. Everything(stock') = Everything(stock) /\ Everything(stock) \in Int
    BY <1>3, <1>5, <2>2 DEF Everything
  <2>4. /\ LostIn(cases[d]) \in Int /\ delivery[d].head.accepted \in Int
        /\ HeadOpen(cases[d], "short") \in Int
    BY <1>1, KindsRows, SoundRows
  <2>5. CorrectsOnlyUntouched' <=> CorrectsOnlyUntouched
    BY <1>6 DEF CorrectsOnlyUntouched, Version
  <2>6. /\ Everything(stock') = Everything(stock)
             - (delivery'[d].head.accepted - delivery[d].head.accepted)
             - (LostIn(cases'[d]) - LostIn(cases[d]))
        /\ stock["quarantine"] <= stock'["quarantine"]
        /\ valued' = valued + (Everything(stock') - Everything(stock))
    BY <1>4, <1>5, <1>6, <2>2, <2>3, <2>4
  <2>7. /\ stock'["in_transit"] = stock["in_transit"] - Carried(delivery[d], cases[d])
                                  + Carried(delivery'[d], cases'[d])
        /\ stock'["investigation"] = stock["investigation"] - HeadOpen(cases[d], "short")
                                     + HeadOpen(cases'[d], "short")
    BY <1>5, <1>6, <2>1, <2>2, <2>4
  <2> QED BY <1>1, <1>4, <1>6, <1>7, <1>8, <2>5, <2>6, <2>7, DeliveryMoves
<1> QED BY <1>7, <1>8, <1>9, <1>10, <1>11 DEF CustodyInv

(* An open quantity is handled, and what it becomes leaves its place. *)
LEMMA TakeStep ==
  ASSUME CustodyAssumption, CustodyInv, NEW d \in Deliveries, NEW v \in 1..Version(d),
         NEW k \in Kinds, NEW quantity \in Nat \ {0}, quantity <= OpenCase(d, v, k),
         NEW event \in Events, k = "short" => quantity = OpenCase(d, v, k),
         event = "written_off" => k = "short", k # "still",
         Take(d, v, k, quantity, event),
         UNCHANGED <<delivery, proposal, returns, fulfilled, conversion, charged, policy>>,
         stock' \in [Locations -> Nat], valued' \in Int,
         Everything(stock') = Everything(stock) - (IF event = "written_off" THEN quantity ELSE 0),
         stock["quarantine"] <= stock'["quarantine"],
         valued' = valued + (Everything(stock') - Everything(stock)),
         stock'["in_transit"] = stock["in_transit"] - (IF k = "short" THEN 0 ELSE quantity),
         stock'["investigation"] = stock["investigation"] - (IF k = "short" THEN quantity ELSE 0)
  PROVE  CustodyInv'
<1>1. CustodyTypes /\ ChainsOK /\ ReturnsOK /\ ConversionsOK /\ QuantitiesOK
  BY DEF CustodyInv
<1>2. PICK s : s = cases[d]
  OBVIOUS
<1>3. PICK t : t = [s EXCEPT ![v] = [s[v] EXCEPT ![k] = Handled(s[v][k], quantity, event)]]
  OBVIOUS
<1>4. /\ s \in Seq(Row) /\ CasesOK(s) /\ v \in 1..Len(s) /\ ChainOK(d)
      /\ quantity <= s[v][k].open /\ (k = "short" => quantity = s[v][k].open)
  BY <1>1, <1>2 DEF CustodyTypes, Row, ChainsOK, Version, OpenCase
<1>5. /\ t \in Seq(Row) /\ Len(t) = Len(s) /\ CasesOK(t)
      /\ \A j \in Kinds : t[Len(t)][j].original = s[Len(s)][j].original
      /\ \A j \in Kinds : HeadOpen(t, j) = HeadOpen(s, j) - (IF j = k THEN quantity ELSE 0)
      /\ \A w \in 1..Len(s) : \A j \in Kinds : s[w][j].events \subseteq t[w][j].events
      /\ LostIn(t) = LostIn(s) + (IF event = "written_off" THEN quantity ELSE 0)
  <2>1. /\ s \in Seq(Row) /\ CasesOK(s) /\ v \in 1..Len(s) /\ k \in Kinds
        /\ quantity \in Nat \ {0} /\ quantity <= s[v][k].open /\ event \in Events
        /\ k = "short" => quantity = s[v][k].open
        /\ event = "written_off" => k = "short"
        /\ TakenFrom(s, t, v, k, quantity, event)
    BY <1>3, <1>4 DEF TakenFrom
  <2> QED BY <2>1, CasesTaken
<1>6. cases' = [cases EXCEPT ![d] = t]
  BY <1>2, <1>3 DEF Take
<1>7. /\ cases' \in [Deliveries -> Seq(Row)] /\ cases'[d] = t
      /\ \A e \in Deliveries \ {d} : cases'[e] = cases[e]
  BY <1>1, <1>5, <1>6 DEF CustodyTypes, Row
<1>8. delivery[d].status = "confirmed"
  BY <1>2, <1>4 DEF ChainOK
<1>9. CustodyTypes'
  BY <1>1, <1>7 DEF CustodyTypes, Row
<1>10. \A e \in Deliveries : Len(cases'[e]) = Len(cases[e])
  BY <1>2, <1>5, <1>7
<1>11. ChainsOK'
  <2>1. ASSUME NEW e \in Deliveries PROVE CasesOK(cases[e])'
    BY <1>1, <1>5, <1>7 DEF ChainsOK
  <2>2. ASSUME NEW e \in Deliveries PROVE ChainOK(e)'
    <3>1. CASE e # d
      BY <1>1, <1>7, <3>1, ChainKept DEF ChainsOK
    <3>2. CASE e = d
      <4>1. Version(d)' = Version(d) /\ AuthorizedReturns(d)' = AuthorizedReturns(d)
        BY <1>10 DEF Version, AuthorizedReturns, ReturnsOf
      <4>2. \A j \in Kinds : Current(d)'[j].original = Current(d)[j].original
        BY <1>2, <1>5, <1>7, <4>1 DEF Current, Version
      <4> QED BY <1>4, <1>8, <3>2, <4>1, <4>2 DEF ChainOK
    <3> QED BY <3>1, <3>2
  <2> QED BY <2>1, <2>2 DEF ChainsOK
<1>12. ReturnsOK'
  BY <1>1, <1>9, <1>10, ReturnsKept
<1>13. ConversionsOK'
  <2>1. \A e \in Deliveries : conversion[e].state # "none" => delivery[e].status # "none"
    BY <1>1 DEF ConversionsOK, ConversionOK
  <2> QED BY <1>1, <1>10, <2>1, ConversionsKept
<1>14. QuantitiesOK'
  <2>1. Sound(delivery, cases) /\ Sound(delivery', cases')
    BY <1>1, <1>7, <1>9, <1>11, KindsRows DEF Sound, CustodyTypes, ChainsOK
  <2>2. /\ Carried(delivery[d], cases[d]) = HeadOpen(s, "refused") + HeadOpen(s, "still")
        /\ Carried(delivery'[d], cases'[d]) = HeadOpen(t, "refused") + HeadOpen(t, "still")
    BY <1>2, <1>7, <1>8, <2>1, SoundRows
  <2>3. /\ HeadOpen(s, "refused") \in Int /\ HeadOpen(s, "still") \in Int
        /\ HeadOpen(s, "short") \in Int
    <3>1. \A j \in Kinds : HeadOpen(s, j) \in 0..Picked
      BY <1>4, OpenHead
    <3> QED BY <3>1 DEF Kinds, CustodyAssumption
  <2>4. /\ HeadOpen(t, "refused") = HeadOpen(s, "refused") - (IF k = "refused" THEN quantity ELSE 0)
        /\ HeadOpen(t, "still") = HeadOpen(s, "still")
        /\ HeadOpen(t, "short") = HeadOpen(s, "short") - (IF k = "short" THEN quantity ELSE 0)
    <3>1. HeadOpen(t, "refused") = HeadOpen(s, "refused") - (IF k = "refused" THEN quantity ELSE 0)
      BY <1>5 DEF Kinds
    <3>2. HeadOpen(t, "still") = HeadOpen(s, "still") - 0
      BY <1>5 DEF Kinds
    <3>3. HeadOpen(t, "short") = HeadOpen(s, "short") - (IF k = "short" THEN quantity ELSE 0)
      BY <1>5 DEF Kinds
    <3> QED BY <2>3, <3>1, <3>2, <3>3
  <2>5. /\ stock["in_transit"] \in Int /\ stock["investigation"] \in Int
        /\ Everything(stock) \in Int /\ LostIn(s) \in Int
        /\ delivery[d].head.accepted \in Int
    <3>1. /\ stock["staging"] \in Int /\ stock["in_transit"] \in Int
          /\ stock["investigation"] \in Int /\ stock["quarantine"] \in Int
          /\ stock["available"] \in Int
      BY <1>1 DEF CustodyTypes, Locations
    <3>2. LostIn(s) \in Nat /\ delivery[d].head.accepted \in Nat
      BY <1>2, <2>1, SoundRows
    <3> QED BY <3>1, <3>2 DEF Everything
  <2>6. CorrectsOnlyUntouched' => CorrectsOnlyUntouched
    <3>1. \A e \in Deliveries :
           /\ Len(cases'[e]) \in Nat /\ Len(cases[e]) <= Len(cases'[e])
           /\ \A w \in 1..Len(cases[e]) : \A j \in Kinds :
                cases[e][w][j].events \subseteq cases'[e][w][j].events
      <4> TAKE e \in Deliveries
      <4>1. Len(cases[e]) \in Nat
        BY <1>1 DEF CustodyTypes
      <4>2. \A w \in 1..Len(cases[e]) : \A j \in Kinds :
                cases[e][w][j].events \subseteq cases'[e][w][j].events
        BY <1>2, <1>5, <1>7
      <4> QED BY <1>10, <4>1, <4>2
    <3> QED BY <1>1, <3>1, TouchedStaysTouched
  <2>7. /\ Everything(stock') = Everything(stock)
             - (delivery'[d].head.accepted - delivery[d].head.accepted)
             - (LostIn(cases'[d]) - LostIn(cases[d]))
        /\ stock["quarantine"] <= stock'["quarantine"]
        /\ valued' = valued + (Everything(stock') - Everything(stock))
    <3>1. LostIn(cases[d]) = LostIn(s) /\ LostIn(cases'[d]) = LostIn(t) /\ delivery'[d] = delivery[d]
      BY <1>2, <1>7
    <3>2. CASE event = "written_off"
      <4>1. LostIn(t) = LostIn(s) + quantity /\ Everything(stock') = Everything(stock) - quantity
        BY <1>5, <3>2
      <4> QED BY <2>5, <3>1, <4>1
    <3>3. CASE event # "written_off"
      <4>1. LostIn(t) = LostIn(s) + 0 /\ Everything(stock') = Everything(stock) - 0
        BY <1>5, <3>3
      <4> QED BY <2>5, <3>1, <4>1
    <3> QED BY <3>2, <3>3
  <2>8. k = "refused" \/ k = "short"
    BY DEF Kinds
  <2>9. /\ stock'["in_transit"] = stock["in_transit"] - Carried(delivery[d], cases[d])
                                  + Carried(delivery'[d], cases'[d])
        /\ stock'["investigation"] = stock["investigation"] - HeadOpen(cases[d], "short")
                                     + HeadOpen(cases'[d], "short")
    <3>1. cases[d] = s /\ cases'[d] = t
      BY <1>2, <1>7
    <3>2. CASE k = "refused"
      <4>1. /\ stock'["in_transit"] = stock["in_transit"] - quantity
            /\ stock'["investigation"] = stock["investigation"] - 0
        BY <3>2
      <4>2. /\ HeadOpen(t, "refused") = HeadOpen(s, "refused") - quantity
            /\ HeadOpen(t, "short") = HeadOpen(s, "short") - 0
        BY <2>4, <3>2
      <4>3. stock'["in_transit"] = stock["in_transit"] - Carried(delivery[d], cases[d])
                                   + Carried(delivery'[d], cases'[d])
        BY <2>2, <2>3, <2>4, <2>5, <4>1, <4>2
      <4>4. stock'["investigation"] = stock["investigation"] - HeadOpen(cases[d], "short")
                                      + HeadOpen(cases'[d], "short")
        BY <2>3, <2>5, <3>1, <4>1, <4>2
      <4> QED BY <4>3, <4>4
    <3>3. CASE k = "short"
      <4>1. /\ stock'["in_transit"] = stock["in_transit"] - 0
            /\ stock'["investigation"] = stock["investigation"] - quantity
        BY <3>3
      <4>2. /\ HeadOpen(t, "refused") = HeadOpen(s, "refused") - 0
            /\ HeadOpen(t, "short") = HeadOpen(s, "short") - quantity
        BY <2>4, <3>3
      <4>3. stock'["in_transit"] = stock["in_transit"] - Carried(delivery[d], cases[d])
                                   + Carried(delivery'[d], cases'[d])
        BY <2>2, <2>3, <2>4, <2>5, <4>1, <4>2
      <4>4. stock'["investigation"] = stock["investigation"] - HeadOpen(cases[d], "short")
                                      + HeadOpen(cases'[d], "short")
        BY <2>3, <2>5, <3>1, <4>1, <4>2
      <4> QED BY <4>3, <4>4
    <3> QED BY <2>8, <3>2, <3>3
  <2> QED BY <1>1, <1>7, <1>9, <1>11, <2>6, <2>7, <2>9, DeliveryMoves
<1> QED BY <1>9, <1>11, <1>12, <1>13, <1>14 DEF CustodyInv

LEMMA LocationsInt ==
  ASSUME CustodyTypes
  PROVE  /\ stock["staging"] \in Nat /\ stock["in_transit"] \in Nat /\ stock["investigation"] \in Nat
         /\ stock["quarantine"] \in Nat /\ stock["available"] \in Nat /\ valued \in Int
         /\ Everything(stock) \in Int
<1>1. /\ stock["staging"] \in Nat /\ stock["in_transit"] \in Nat /\ stock["investigation"] \in Nat
      /\ stock["quarantine"] \in Nat /\ stock["available"] \in Nat /\ valued \in Int
  BY DEF CustodyTypes, Locations
<1> QED BY <1>1 DEF Everything

LEMMA ReturnToWarehouseStep ==
  ASSUME CustodyAssumption, CustodyInv, NEW d \in Deliveries, NEW v \in 1..Version(d),
         NEW quantity \in 1..Picked, ReceiveReturnToWarehouse(d, v, quantity)
  PROVE  CustodyInv'
<1>1. quantity \in Nat \ {0} /\ CustodyTypes
  BY DEF CustodyAssumption, CustodyInv
<1>2. "refused" \in Kinds /\ "returned" \in Events
  BY DEF Kinds, Events
<1>3. /\ stock' \in [Locations -> Nat]
      /\ stock'["staging"] = stock["staging"]
      /\ stock'["in_transit"] = stock["in_transit"] - quantity
      /\ stock'["investigation"] = stock["investigation"]
      /\ stock'["quarantine"] = stock["quarantine"] + quantity
      /\ stock'["available"] = stock["available"]
  <2>1. stock \in [Locations -> Nat]
    BY <1>1 DEF CustodyTypes
  <2>2. quantity <= stock["in_transit"]
    BY DEF ReceiveReturnToWarehouse
  <2>3. stock' = [stock EXCEPT !["in_transit"] = @ - quantity, !["quarantine"] = @ + quantity]
    BY DEF ReceiveReturnToWarehouse, Moved
  <2> QED BY <1>1, <2>1, <2>2, <2>3 DEF Locations
<1>4. Everything(stock') = Everything(stock)
  BY <1>1, <1>3, LocationsInt DEF Everything
<1>5. /\ quantity <= OpenCase(d, v, "refused")
      /\ Take(d, v, "refused", quantity, "returned")
      /\ UNCHANGED <<valued, delivery, proposal, returns, fulfilled, conversion, charged, policy>>
  BY DEF ReceiveReturnToWarehouse
<1>6. /\ valued' \in Int
      /\ Everything(stock') = Everything(stock) - 0
      /\ stock["quarantine"] <= stock'["quarantine"]
      /\ valued' = valued + (Everything(stock') - Everything(stock))
      /\ stock'["investigation"] = stock["investigation"] - 0
  BY <1>1, <1>3, <1>4, <1>5, LocationsInt
<1> QED BY <1>1, <1>2, <1>3, <1>5, <1>6, TakeStep

LEMMA RecoverStep ==
  ASSUME CustodyAssumption, CustodyInv, NEW d \in Deliveries, NEW v \in 1..Version(d), Recover(d, v)
  PROVE  CustodyInv'
<1>1. PICK missing : missing = OpenCase(d, v, "short")
  OBVIOUS
<1>2. "short" \in Kinds /\ "recovered" \in Events /\ CustodyTypes /\ missing \in Nat \ {0}
  <2>1. CustodyTypes /\ "short" \in Kinds
    BY DEF CustodyInv, Kinds
  <2>2. cases[d] \in Seq(Row) /\ v \in 1..Len(cases[d])
    BY <2>1 DEF CustodyTypes, Row, Version
  <2>3. missing \in 0..Picked
    BY <1>1, <2>1, <2>2 DEF Row, Case, OpenCase
  <2> QED BY <1>1, <2>1, <2>3 DEF Recover, CustodyAssumption, Events
<1>3. /\ missing <= stock["investigation"]
      /\ Take(d, v, "short", missing, "recovered")
      /\ UNCHANGED <<valued, delivery, proposal, returns, fulfilled, conversion, charged, policy>>
      /\ stock' = [stock EXCEPT !["investigation"] = @ - missing, !["quarantine"] = @ + missing]
  BY <1>1 DEF Recover, Moved
<1>4. /\ stock' \in [Locations -> Nat]
      /\ stock'["staging"] = stock["staging"]
      /\ stock'["in_transit"] = stock["in_transit"]
      /\ stock'["investigation"] = stock["investigation"] - missing
      /\ stock'["quarantine"] = stock["quarantine"] + missing
      /\ stock'["available"] = stock["available"]
  <2>1. stock \in [Locations -> Nat]
    BY <1>2 DEF CustodyTypes
  <2> QED BY <1>2, <1>3, <2>1 DEF Locations
<1>5. Everything(stock') = Everything(stock)
  BY <1>2, <1>4, LocationsInt DEF Everything
<1>6. /\ valued' \in Int
      /\ Everything(stock') = Everything(stock) - 0
      /\ stock["quarantine"] <= stock'["quarantine"]
      /\ valued' = valued + (Everything(stock') - Everything(stock))
      /\ stock'["in_transit"] = stock["in_transit"] - 0
  BY <1>2, <1>3, <1>4, <1>5, LocationsInt
<1>7. missing <= OpenCase(d, v, "short") /\ missing = OpenCase(d, v, "short")
  BY <1>1, <1>2
<1> QED BY <1>2, <1>3, <1>4, <1>6, <1>7, TakeStep

LEMMA WriteOffStep ==
  ASSUME CustodyAssumption, CustodyInv, NEW d \in Deliveries, NEW v \in 1..Version(d), WriteOff(d, v)
  PROVE  CustodyInv'
<1>1. PICK missing : missing = OpenCase(d, v, "short")
  OBVIOUS
<1>2. "short" \in Kinds /\ "written_off" \in Events /\ CustodyTypes /\ missing \in Nat \ {0}
  <2>1. CustodyTypes /\ "short" \in Kinds
    BY DEF CustodyInv, Kinds
  <2>2. cases[d] \in Seq(Row) /\ v \in 1..Len(cases[d])
    BY <2>1 DEF CustodyTypes, Row, Version
  <2>3. missing \in 0..Picked
    BY <1>1, <2>1, <2>2 DEF Row, Case, OpenCase
  <2> QED BY <1>1, <2>1, <2>3 DEF WriteOff, CustodyAssumption, Events
<1>3. /\ missing <= stock["investigation"]
      /\ Take(d, v, "short", missing, "written_off")
      /\ UNCHANGED <<delivery, proposal, returns, fulfilled, conversion, charged, policy>>
      /\ stock' = [stock EXCEPT !["investigation"] = @ - missing]
      /\ valued' = valued - missing
  BY <1>1 DEF WriteOff
<1>4. /\ stock' \in [Locations -> Nat]
      /\ stock'["staging"] = stock["staging"]
      /\ stock'["in_transit"] = stock["in_transit"]
      /\ stock'["investigation"] = stock["investigation"] - missing
      /\ stock'["quarantine"] = stock["quarantine"]
      /\ stock'["available"] = stock["available"]
  BY <1>2, <1>3 DEF CustodyTypes, Locations
<1>5. Everything(stock') = Everything(stock) - missing
  BY <1>2, <1>4, LocationsInt DEF Everything
<1>6. /\ valued' \in Int
      /\ stock["quarantine"] <= stock'["quarantine"]
      /\ valued' = valued + (Everything(stock') - Everything(stock))
      /\ stock'["in_transit"] = stock["in_transit"] - 0
  BY <1>2, <1>3, <1>4, <1>5, LocationsInt
<1>7. missing <= OpenCase(d, v, "short") /\ missing = OpenCase(d, v, "short")
  BY <1>1, <1>2
<1> QED BY <1>2, <1>3, <1>4, <1>5, <1>6, <1>7, TakeStep

(* A retry moves nothing: what was still on a vehicle is a delivery again. *)
LEMMA RetryStep ==
  ASSUME CustodyAssumption, CustodyInv, NEW d \in Deliveries, NEW retry \in Deliveries,
         Retry(d, retry)
  PROVE  CustodyInv'
<1>1. CustodyTypes /\ ChainsOK /\ ReturnsOK /\ ConversionsOK /\ QuantitiesOK
  BY DEF CustodyInv
<1>2. PICK s : s = cases[d]
  OBVIOUS
<1>3. PICK t : t = [v \in 1..Len(s) |-> [s[v] EXCEPT !["still"] = Retried(s[v]["still"])]]
  OBVIOUS
<1>4. s \in Seq(Row) /\ CasesOK(s) /\ ChainOK(d) /\ "still" \in Kinds
  BY <1>1, <1>2 DEF CustodyTypes, Row, ChainsOK, Kinds
<1>5. /\ t \in Seq(Row) /\ Len(t) = Len(s) /\ CasesOK(t)
      /\ \A k \in Kinds : t[Len(t)][k].original = s[Len(s)][k].original
      /\ HeadOpen(t, "still") = 0
      /\ \A k \in Kinds \ {"still"} : HeadOpen(t, k) = HeadOpen(s, k)
      /\ \A v \in 1..Len(s) : \A k \in Kinds : s[v][k].events \subseteq t[v][k].events
      /\ LostIn(t) = LostIn(s)
  <2>1. RetriedFrom(s, t)
    BY <1>3 DEF RetriedFrom
  <2> QED BY <1>4, <2>1, CasesRetried
<1>6. PICK quantity : quantity = Open(d, "still")
  OBVIOUS
<1>7. quantity = HeadOpen(s, "still") /\ quantity \in 0..Picked
  <2>1. Open(d, "still") = OpenIn(s, "still")
    BY <1>2 DEF Open, OpenIn, OpenCase, Version
  <2> QED BY <1>4, <1>6, <2>1, OpenHead
<1>8. quantity > 0 /\ delivery[retry].status = "none" /\ Send(retry, quantity)
  BY <1>6 DEF Retry
<1>9. delivery[d].status = "confirmed" /\ d # retry
  <2>1. s # <<>>
    BY <1>7, <1>8 DEF HeadOpen
  <2> QED BY <1>2, <1>4, <1>8, <2>1 DEF ChainOK
<1>10. /\ delivery' \in [Deliveries -> DeliveryRow]
       /\ \A e \in Deliveries \ {retry} : delivery'[e] = delivery[e]
       /\ delivery'[retry].status = "dispatched" /\ delivery'[retry].quantity = quantity
       /\ delivery'[retry].head = delivery[retry].head
  BY <1>1, <1>7, <1>8, SendRow
<1>11. cases' = [cases EXCEPT ![d] = t]
  BY <1>2, <1>3 DEF Retry, Version
<1>12. /\ cases' \in [Deliveries -> Seq(Row)] /\ cases'[d] = t
       /\ \A e \in Deliveries \ {d} : cases'[e] = cases[e]
  BY <1>1, <1>5, <1>11 DEF CustodyTypes, Row
<1>13. UNCHANGED <<stock, valued, proposal, returns, fulfilled, conversion, charged, policy>>
  BY DEF Retry
<1>14. CustodyTypes'
  BY <1>1, <1>10, <1>12, <1>13 DEF CustodyTypes, Row
<1>15. \A e \in Deliveries : Len(cases'[e]) = Len(cases[e])
  BY <1>2, <1>5, <1>12
<1>16. /\ delivery[retry].quantity = 0 /\ delivery[retry].head = Undelivered
       /\ cases[retry] = <<>> /\ proposal[retry].state = "none"
  BY <1>1, <1>8 DEF ChainsOK, ChainOK
<1>17. ChainsOK'
  <2>1. ASSUME NEW e \in Deliveries PROVE CasesOK(cases[e])'
    BY <1>1, <1>5, <1>12 DEF ChainsOK
  <2>2. ASSUME NEW e \in Deliveries PROVE ChainOK(e)'
    <3>1. CASE e # d /\ e # retry
      BY <1>1, <1>10, <1>12, <1>13, <3>1, ChainKept DEF ChainsOK
    <3>2. CASE e = d
      <4>1. Version(d)' = Version(d) /\ AuthorizedReturns(d)' = AuthorizedReturns(d)
        BY <1>13, <1>15 DEF Version, AuthorizedReturns, ReturnsOf
      <4>2. \A j \in Kinds : Current(d)'[j].original = Current(d)[j].original
        BY <1>2, <1>5, <1>12, <4>1 DEF Current, Version
      <4>3. delivery'[d] = delivery[d] /\ proposal'[d] = proposal[d]
        BY <1>9, <1>10, <1>13
      <4> QED BY <1>4, <1>9, <3>2, <4>1, <4>2, <4>3 DEF ChainOK
    <3>3. CASE e = retry
      BY <1>9, <1>10, <1>12, <1>13, <1>16, <3>3 DEF ChainOK
    <3> QED BY <3>1, <3>2, <3>3
  <2> QED BY <2>1, <2>2 DEF ChainsOK
<1>18. ReturnsOK'
  <2>1. \A e \in Deliveries : delivery'[e].head.accepted = delivery[e].head.accepted
    BY <1>10
  <2> QED BY <1>1, <1>13, <1>14, <1>15, <2>1, ReturnsKept
<1>19. ConversionsOK'
  <2>1. \A e \in Deliveries : conversion[e].state # "none" =>
          /\ delivery[e].status # "none" /\ delivery'[e] = delivery[e]
          /\ Len(cases'[e]) = Len(cases[e])
    BY <1>1, <1>8, <1>10, <1>15 DEF ConversionsOK, ConversionOK
  <2> QED BY <1>1, <1>13, <2>1, ConversionsKept
<1>20. QuantitiesOK'
  <2>1. Sound(delivery, cases) /\ Sound(delivery', cases) /\ Sound(delivery', cases')
    BY <1>1, <1>10, <1>12, <1>14, <1>17 DEF Sound, CustodyTypes, ChainsOK, Row
  <2>2. /\ VehiclesIn(delivery', cases) = VehiclesIn(delivery, cases)
             - Carried(delivery[retry], cases[retry]) + Carried(delivery'[retry], cases[retry])
        /\ AcceptedIn(delivery') = AcceptedIn(delivery) - delivery[retry].head.accepted
                                   + delivery'[retry].head.accepted
    BY <1>10, <2>1, OneDelivery
  <2>3. /\ VehiclesIn(delivery', cases') = VehiclesIn(delivery', cases)
             - Carried(delivery'[d], cases[d]) + Carried(delivery'[d], cases'[d])
        /\ MissingIn(cases') = MissingIn(cases) - HeadOpen(cases[d], "short")
                               + HeadOpen(cases'[d], "short")
        /\ LostOf(cases') = LostOf(cases) - LostIn(cases[d]) + LostIn(cases'[d])
    BY <1>12, <2>1, OneDelivery
  <2>4. /\ \A k \in Kinds : HeadOpen(s, k) \in Nat
        /\ HeadOpen(s, "refused") \in Nat /\ HeadOpen(s, "still") \in Nat
        /\ HeadOpen(s, "short") \in Nat
    BY <1>4, OpenHead DEF Kinds, CustodyAssumption
  <2>5. /\ Carried(delivery[retry], cases[retry]) = 0
        /\ Carried(delivery'[retry], cases[retry]) = quantity
    <3>1. Carried(delivery[retry], cases[retry])
            = HeadOpen(cases[retry], "refused") + HeadOpen(cases[retry], "still")
      BY <1>8, <2>1, SoundRows
    <3>2. \A k \in Kinds : HeadOpen(cases[retry], k) = 0
      BY <1>16 DEF HeadOpen
    <3>3. HeadOpen(cases[retry], "refused") = 0 /\ HeadOpen(cases[retry], "still") = 0
      BY <3>2 DEF Kinds
    <3>4. Carried(delivery'[retry], cases[retry]) = quantity
      BY <1>10 DEF Carried
    <3> QED BY <3>1, <3>3, <3>4
  <2>6. /\ Carried(delivery'[d], cases[d]) = HeadOpen(s, "refused") + quantity
        /\ Carried(delivery'[d], cases'[d]) = HeadOpen(s, "refused")
        /\ HeadOpen(cases'[d], "short") = HeadOpen(cases[d], "short")
        /\ LostIn(cases'[d]) = LostIn(cases[d])
    <3>1. delivery'[d].status # "dispatched"
      BY <1>9, <1>10
    <3>2. /\ Carried(delivery'[d], cases[d]) = HeadOpen(s, "refused") + HeadOpen(s, "still")
          /\ Carried(delivery'[d], cases'[d]) = HeadOpen(t, "refused") + HeadOpen(t, "still")
      BY <1>2, <1>12, <2>1, <3>1, SoundRows, SMTT(30)
    <3>3. HeadOpen(t, "refused") = HeadOpen(s, "refused") /\ HeadOpen(t, "short") = HeadOpen(s, "short")
      BY <1>5 DEF Kinds
    <3> QED BY <1>2, <1>5, <1>7, <1>12, <2>4, <3>2, <3>3
  <2>7. /\ VehiclesIn(delivery, cases) \in Nat /\ MissingIn(cases) \in Nat
        /\ LostOf(cases) \in Nat /\ AcceptedIn(delivery) \in Nat
        /\ LostIn(cases[d]) \in Nat /\ delivery[retry].head.accepted \in Nat
    BY <2>1, SoundTotals, SoundRows
  <2>8. /\ VehiclesIn(delivery', cases') = VehiclesIn(delivery, cases)
        /\ MissingIn(cases') = MissingIn(cases)
        /\ LostOf(cases') = LostOf(cases) /\ AcceptedIn(delivery') = AcceptedIn(delivery)
    BY <1>2, <1>7, <1>10, <2>2, <2>3, <2>4, <2>5, <2>6, <2>7 DEF CustodyAssumption
  <2>9. CorrectsOnlyUntouched' => CorrectsOnlyUntouched
    <3>1. \A e \in Deliveries :
           /\ Len(cases'[e]) \in Nat /\ Len(cases[e]) <= Len(cases'[e])
           /\ \A w \in 1..Len(cases[e]) : \A j \in Kinds :
                cases[e][w][j].events \subseteq cases'[e][w][j].events
      <4> TAKE e \in Deliveries
      <4>1. Len(cases[e]) \in Nat
        BY <1>1 DEF CustodyTypes
      <4>2. \A w \in 1..Len(cases[e]) : \A j \in Kinds :
                cases[e][w][j].events \subseteq cases'[e][w][j].events
        BY <1>2, <1>5, <1>12
      <4> QED BY <1>15, <4>1, <4>2
    <3> QED BY <1>1, <3>1, TouchedStaysTouched
  <2>10. QuantitiesOf(stock', valued', delivery', cases', returns')
    BY <1>1, <1>13, <2>8, QuantitiesMean DEF QuantitiesOf
  <2>11. CorrectsOnlyUntouched' => MatchesOf(stock', delivery', cases')
    BY <1>1, <1>13, <2>8, <2>9, QuantitiesMean DEF MatchesOf
  <2> QED BY <2>10, <2>11, QuantitiesMeanNext
<1> QED BY <1>14, <1>17, <1>18, <1>19, <1>20 DEF CustodyInv

-----------------------------------------------------------------------------
(* The charges of the conversions of all deliveries. *)
Charging == {"approved", "consumed"}

ChargedIn(K) ==
  Total([d \in Deliveries |-> K[d].amount], {d \in Deliveries : K[d].state \in Charging})

Charge(row) == IF row.state \in Charging THEN row.amount ELSE 0

LEMMA OneConversion ==
  ASSUME CustodyAssumption, NEW K \in [Deliveries -> ConversionRow],
         NEW L \in [Deliveries -> ConversionRow], NEW d \in Deliveries,
         \A e \in Deliveries \ {d} : L[e] = K[e]
  PROVE  ChargedIn(L) = ChargedIn(K) - Charge(K[d]) + Charge(L[d])
<1> DEFINE f == [e \in Deliveries |-> K[e].amount]
           g == [e \in Deliveries |-> L[e].amount]
           T == {e \in Deliveries : K[e].state \in Charging}
           U == {e \in Deliveries : L[e].state \in Charging}
<1>1. \A e \in Deliveries : f[e] \in Nat /\ g[e] \in Nat
  BY DEF ConversionRow, CustodyAssumption
<1>2. T \in SUBSET Deliveries /\ U \in SUBSET Deliveries
  OBVIOUS
<1>3. (\A e \in Deliveries \ {d} : e \in T <=> e \in U) /\ (\A e \in T \ {d} : g[e] = f[e])
  OBVIOUS
<1>4. ChargedIn(K) = Total(f, T) /\ ChargedIn(L) = Total(g, U)
  BY DEF ChargedIn
<1>5. Charge(K[d]) = (IF d \in T THEN f[d] ELSE 0) /\ Charge(L[d]) = (IF d \in U THEN g[d] ELSE 0)
  BY DEF Charge
<1>6. IsFiniteSet(Deliveries)
  BY DEF CustodyAssumption
<1> HIDE DEF f, g, T, U
<1>7. Total(g, U) = Total(f, T) - (IF d \in T THEN f[d] ELSE 0) + (IF d \in U THEN g[d] ELSE 0)
  BY <1>1, <1>2, <1>3, <1>6, TotalPart
<1> QED BY <1>4, <1>5, <1>7

LEMMA ChargedType ==
  ASSUME CustodyAssumption, NEW K \in [Deliveries -> ConversionRow]
  PROVE  ChargedIn(K) \in Nat
<1> DEFINE f == [e \in Deliveries |-> K[e].amount]
           T == {e \in Deliveries : K[e].state \in Charging}
<1>1. IsFiniteSet(T)
  BY FS_Subset DEF CustodyAssumption
<1>2. \A e \in T : f[e] \in Nat
  BY DEF ConversionRow, CustodyAssumption
<1>3. ChargedIn(K) = Total(f, T)
  BY DEF ChargedIn
<1> HIDE DEF f, T
<1> QED BY <1>1, <1>2, <1>3, TotalType

LEMMA SettlesMean ==
  ASSUME CustodyAssumption
  PROVE  /\ ConversionsSettle <=>
              /\ charged = ChargedIn(conversion)
              /\ \A d \in Deliveries : conversion[d].state = "approved" /\ Version(d) = 1 =>
                   delivery[d].head.accepted > 0
         /\ ConversionsSettle' <=>
              /\ charged' = ChargedIn(conversion')
              /\ \A d \in Deliveries : conversion'[d].state = "approved" /\ Version(d)' = 1 =>
                   delivery'[d].head.accepted > 0
<1>1. ConversionsSettle <=>
              /\ charged = ChargedIn(conversion)
              /\ \A d \in Deliveries : conversion[d].state = "approved" /\ Version(d) = 1 =>
                   delivery[d].head.accepted > 0
  BY DEF ConversionsSettle, ChargedIn, Charging
<1>2. ConversionsSettle' <=>
              /\ charged' = ChargedIn(conversion')
              /\ \A d \in Deliveries : conversion'[d].state = "approved" /\ Version(d)' = 1 =>
                   delivery'[d].head.accepted > 0
  BY DEF ConversionsSettle, ChargedIn, Charging
<1> QED BY <1>1, <1>2

(* The settlement at a confirmation leaves every conversion settled. *)
LEMMA SettleStep ==
  ASSUME CustodyAssumption, CustodyTypes, ConversionsOK, NEW d \in Deliveries,
         NEW accepted \in Nat, accepted <= delivery[d].quantity,
         delivery[d].status = "dispatched", Settle(d, accepted), UNCHANGED policy,
         delivery'[d].status = "confirmed", delivery'[d].head.accepted = accepted,
         \A e \in Deliveries \ {d} : delivery'[e] = delivery[e] /\ cases'[e] = cases[e]
  PROVE  /\ conversion' \in [Deliveries -> ConversionRow] /\ charged' \in Nat
         /\ ConversionsOK'
<1>1. /\ conversion \in [Deliveries -> ConversionRow] /\ charged \in Int
      /\ delivery[d].quantity \in 0..Picked
  BY DEF CustodyTypes, DeliveryRow
<1>2. conversion[d] \in ConversionRow /\ conversion[d].amount \in 0..Picked
  BY <1>1 DEF ConversionRow
<1>3. ConversionOK(d) /\ charged = ChargedIn(conversion)
  BY SettlesMean DEF ConversionsOK
<1>4. conversion[d].state = "approved" => conversion[d].amount = delivery[d].quantity
  BY <1>3 DEF ConversionOK
<1>5. /\ conversion' \in [Deliveries -> ConversionRow]
      /\ \A e \in Deliveries \ {d} : conversion'[e] = conversion[e]
      /\ charged' = charged - Charge(conversion[d]) + Charge(conversion'[d])
      /\ conversion[d].state = "none" => conversion'[d].state = "none"
      /\ conversion'[d].state = "approved" => accepted > 0
  <2>1. PICK s \in Settlements(d, accepted) :
          \/ s \in {"none", "collect"} /\ UNCHANGED <<conversion, charged>>
          \/ s = "release" /\ Release(d)
          \/ s = "consume" /\ Consume(d, accepted)
    BY DEF Settle
  <2>2. CASE s \in {"none", "collect"} /\ UNCHANGED <<conversion, charged>>
    <3>1. Charge(conversion[d]) \in Int
      BY <1>2 DEF Charge
    <3>2. conversion[d].state = "approved" => accepted > 0
      <4> HAVE conversion[d].state = "approved"
      <4>1. policy = "cash_on_delivery"
        BY <1>3 DEF ConversionOK
      <4>2. accepted = 0 => s = "release"
        BY <2>1, <4>1 DEF Settlements
      <4> QED BY <2>2, <4>2
    <3> QED BY <1>1, <2>2, <3>1, <3>2
  <2>3. CASE s = "release" /\ Release(d)
    <3>1. conversion[d].state = "approved"
      BY <2>1, <2>3 DEF Settlements
    <3>2. PICK row : row = [conversion[d] EXCEPT !.state = "reversed"]
      OBVIOUS
    <3>3. row \in ConversionRow /\ row.state = "reversed"
      BY <1>2, <3>2 DEF ConversionRow
    <3>4. conversion' = [conversion EXCEPT ![d] = row] /\ charged' = charged - conversion[d].amount
      BY <2>3, <3>2 DEF Release
    <3>5. /\ conversion' \in [Deliveries -> ConversionRow] /\ conversion'[d] = row
          /\ \A e \in Deliveries \ {d} : conversion'[e] = conversion[e]
      BY <1>1, <3>3, <3>4
    <3>6. Charge(row) = 0 /\ Charge(conversion[d]) = conversion[d].amount
      BY <3>1, <3>3 DEF Charge, Charging
    <3> QED BY <1>1, <1>2, <3>1, <3>3, <3>4, <3>5, <3>6
  <2>4. CASE s = "consume" /\ Consume(d, accepted)
    <3>1. conversion[d].state = "approved"
      BY <2>1, <2>4 DEF Settlements
    <3>2. PICK row : row = [state |-> "consumed", amount |-> accepted]
      OBVIOUS
    <3>3. row \in ConversionRow /\ row.state = "consumed" /\ row.amount = accepted
      BY <1>1, <3>2 DEF ConversionRow, CustodyAssumption
    <3>4. /\ conversion' = [conversion EXCEPT ![d] = row]
          /\ charged' = charged - (conversion[d].amount - accepted)
      BY <2>4, <3>2 DEF Consume
    <3>5. /\ conversion' \in [Deliveries -> ConversionRow] /\ conversion'[d] = row
          /\ \A e \in Deliveries \ {d} : conversion'[e] = conversion[e]
      BY <1>1, <3>3, <3>4
    <3>6. Charge(row) = accepted /\ Charge(conversion[d]) = conversion[d].amount
      BY <3>1, <3>3 DEF Charge, Charging
    <3> QED BY <1>1, <1>2, <3>1, <3>3, <3>4, <3>5, <3>6
  <2> QED BY <2>1, <2>2, <2>3, <2>4
<1>6. ChargedIn(conversion') = ChargedIn(conversion) - Charge(conversion[d]) + Charge(conversion'[d])
  BY <1>1, <1>5, OneConversion
<1>7. charged' = ChargedIn(conversion') /\ charged' \in Nat
  BY <1>3, <1>5, <1>6, ChargedType
<1>8. ConversionsSettle'
  <2>1. \A e \in Deliveries : conversion'[e].state = "approved" /\ Version(e)' = 1 =>
          delivery'[e].head.accepted > 0
    <3> TAKE e \in Deliveries
    <3> HAVE conversion'[e].state = "approved" /\ Version(e)' = 1
    <3>1. CASE e = d
      BY <1>5, <3>1
    <3>2. CASE e # d
      <4>1. conversion[e].state = "approved" /\ Version(e) = 1 /\ delivery'[e] = delivery[e]
        BY <1>5, <3>2 DEF Version
      <4> QED BY <4>1, SettlesMean DEF ConversionsOK
    <3> QED BY <3>1, <3>2
  <2> QED BY <1>7, <2>1, SettlesMean
<1>9. ASSUME NEW e \in Deliveries PROVE ConversionOK(e)'
  <2>1. CASE e = d
    <3>1. conversion'[d].state # "none" => policy = "cash_on_delivery"
      BY <1>3, <1>5 DEF ConversionOK
    <3> QED BY <1>5, <2>1, <3>1 DEF ConversionOK
  <2>2. CASE e # d
    <3>1. ConversionOK(e)
      BY DEF ConversionsOK
    <3>2. conversion'[e] = conversion[e] /\ delivery'[e] = delivery[e] /\ cases'[e] = cases[e]
      BY <1>5, <2>2
    <3> QED BY <3>1, <3>2 DEF ConversionOK, Version
  <2> QED BY <2>1, <2>2
<1> QED BY <1>5, <1>7, <1>8, <1>9 DEF ConversionsOK

LEMMA ConfirmStep ==
  ASSUME CustodyAssumption, CustodyInv, NEW d \in Deliveries,
         NEW o \in Partitions[delivery[d].quantity], Confirm(d, o)
  PROVE  CustodyInv'
<1>1. CustodyTypes /\ ChainsOK /\ ReturnsOK /\ ConversionsOK /\ QuantitiesOK
  BY DEF CustodyInv
<1>2. /\ delivery[d].status = "dispatched" /\ delivery[d].head = Undelivered
      /\ cases[d] = <<>> /\ proposal[d].state = "none"
  BY <1>1 DEF Confirm, ChainsOK, ChainOK
<1>3. delivery \in [Deliveries -> DeliveryRow] /\ delivery[d] \in DeliveryRow
  BY <1>1 DEF CustodyTypes
<1>4. /\ o \in Outcomes /\ delivery[d].quantity \in 0..Picked
      /\ o.accepted + o.refused + o.short + o.still = delivery[d].quantity
  BY <1>3 DEF Partitions, DeliveryRow
<1>5. /\ o.accepted \in Nat /\ o.refused \in Nat /\ o.short \in Nat /\ o.still \in Nat
      /\ delivery[d].quantity \in Nat
  BY <1>4 DEF Outcomes, CustodyAssumption
<1>6. /\ delivery' \in [Deliveries -> DeliveryRow]
      /\ \A e \in Deliveries \ {d} : delivery'[e] = delivery[e]
      /\ delivery'[d].status = "confirmed" /\ delivery'[d].head = o
      /\ delivery'[d].quantity = delivery[d].quantity
  <2>1. PICK row : row = [[[delivery[d] EXCEPT !.status = "confirmed"] EXCEPT !.head = o]
                            EXCEPT !.invoice = Invoiced(o)]
    OBVIOUS
  <2>2. Invoiced(o) \in {"none", "awaited", "draft", "posted"}
    BY DEF Invoiced
  <2>3. [delivery[d] EXCEPT !.status = "confirmed"] \in DeliveryRow
    BY <1>3 DEF DeliveryRow
  <2>4. [[delivery[d] EXCEPT !.status = "confirmed"] EXCEPT !.head = o] \in DeliveryRow
    BY <1>4, <2>3 DEF DeliveryRow
  <2>5. /\ row \in DeliveryRow /\ row.status = "confirmed" /\ row.head = o
        /\ row.quantity = delivery[d].quantity
    BY <1>3, <2>1, <2>2, <2>3, <2>4 DEF DeliveryRow
  <2>6. delivery' = [delivery EXCEPT ![d] = row]
    BY <2>1 DEF Confirm
  <2> QED BY <1>3, <2>5, <2>6
<1>7. PICK t : t = <<Opened(o)>>
  OBVIOUS
<1>8. /\ t \in Seq(Row) /\ CasesOK(t) /\ LostIn(t) = 0 /\ Len(t) = 1
      /\ \A k \in Kinds : t[1][k].original = o[k] /\ HeadOpen(t, k) = o[k]
  <2>1. /\ t \in Seq(Row) /\ CasesOK(t) /\ LostIn(t) = 0
        /\ \A k \in Kinds : Opened(o)[k].original = o[k] /\ Opened(o)[k].open = o[k]
    BY <1>4, <1>7, FirstCases
  <2>2. Len(t) = 1 /\ t[1] = Opened(o)
    BY <1>7
  <2> QED BY <2>1, <2>2 DEF HeadOpen
<1>9. /\ cases' \in [Deliveries -> Seq(Row)] /\ cases'[d] = t
      /\ \A e \in Deliveries \ {d} : cases'[e] = cases[e]
  <2>1. cases' = [cases EXCEPT ![d] = t]
    BY <1>7 DEF Confirm
  <2> QED BY <1>1, <1>8, <2>1 DEF CustodyTypes, Row
<1>10. /\ stock' \in [Locations -> Nat]
       /\ stock'["staging"] = stock["staging"]
       /\ stock'["in_transit"] = stock["in_transit"] - o.accepted - o.short
       /\ stock'["investigation"] = stock["investigation"] + o.short
       /\ stock'["quarantine"] = stock["quarantine"]
       /\ stock'["available"] = stock["available"]
  <2>1. stock \in [Locations -> Nat]
    BY <1>1 DEF CustodyTypes
  <2>2. o.accepted + o.short <= stock["in_transit"]
    BY DEF Confirm
  <2>3. stock' = [stock EXCEPT !["in_transit"] = @ - o.accepted - o.short,
                               !["investigation"] = @ + o.short]
    BY DEF Confirm, Parted
  <2> QED BY <1>5, <2>1, <2>2, <2>3 DEF Locations
<1>11. /\ UNCHANGED <<proposal, returns, policy>> /\ Settle(d, o.accepted)
       /\ fulfilled' = fulfilled + o.accepted /\ valued' = valued - o.accepted
  BY DEF Confirm
<1>12. /\ conversion' \in [Deliveries -> ConversionRow] /\ charged' \in Nat
       /\ ConversionsOK'
  <2>1. o.accepted <= delivery[d].quantity
    BY <1>4, <1>5
  <2> QED BY <1>1, <1>2, <1>5, <1>6, <1>9, <1>11, <2>1, SettleStep
<1>13. CustodyTypes'
  <2>1. fulfilled' \in Nat /\ valued' \in Int
    BY <1>1, <1>5, <1>11, SMTT(30) DEF CustodyTypes
  <2>2. stock' \in [Locations -> Nat] /\ delivery' \in [Deliveries -> DeliveryRow]
    BY <1>6, <1>10
  <2>3. cases' \in [Deliveries -> Seq([Kinds -> Case])]
    BY <1>9 DEF Row
  <2>4. proposal' \in [Deliveries -> ProposalRow] /\ returns' \in [Returns -> ReturnRow]
    BY <1>1, <1>11 DEF CustodyTypes
  <2>5. conversion' \in [Deliveries -> ConversionRow] /\ charged' \in Int
    BY <1>12
  <2> QED BY <2>1, <2>2, <2>3, <2>4, <2>5 DEF CustodyTypes
<1>14. ChainsOK'
  <2>1. ASSUME NEW e \in Deliveries PROVE CasesOK(cases[e])'
    BY <1>1, <1>8, <1>9 DEF ChainsOK
  <2>2. ASSUME NEW e \in Deliveries PROVE ChainOK(e)'
    <3>1. CASE e # d
      BY <1>1, <1>6, <1>9, <1>11, <3>1, ChainKept DEF ChainsOK
    <3>2. CASE e = d
      <4>1. Version(d)' = 1 /\ Version(d)' \in 1..Versions /\ Current(d)' = t[1]
        <5>1. Version(d)' = 1
          BY <1>8, <1>9 DEF Version
        <5>2. 1 \in 1..Versions
          BY DEF CustodyAssumption
        <5> QED BY <1>9, <5>1, <5>2 DEF Current
      <4>2. delivery'[d].head \in Partitions[delivery'[d].quantity]
        BY <1>6
      <4>3. \A k \in Kinds : Current(d)'[k].original = delivery'[d].head[k]
        BY <1>6, <1>8, <4>1
      <4> QED BY <1>2, <1>6, <1>11, <3>2, <4>1, <4>2, <4>3 DEF ChainOK
    <3> QED BY <3>1, <3>2
  <2> QED BY <2>1, <2>2 DEF ChainsOK
<1>15. ReturnsOK'
  <2>1. AuthorizedReturns(d) = {}
    <3>1. Version(d) = 0 /\ Versions \in Nat
      BY <1>2 DEF Version, CustodyAssumption
    <3>2. \A r \in Returns : returns[r].of = <<d, 0>> => returns[r].state = "none"
      BY <1>1, <3>1 DEF ReturnsOK, ReturnOK
    <3> QED BY <3>1, <3>2 DEF AuthorizedReturns, ReturnsOf
  <2>2. \A e \in Deliveries : \/ /\ Len(cases'[e]) = Len(cases[e])
                                 /\ delivery'[e].head.accepted = delivery[e].head.accepted
                              \/ AuthorizedReturns(e) = {}
    BY <1>6, <1>9, <2>1
  <2> QED BY <1>1, <1>11, <1>13, <2>2, ReturnsKept
<1>16. QuantitiesOK'
  <2>1. Sound(delivery, cases) /\ Sound(delivery', cases')
    BY <1>1, <1>6, <1>9, <1>14, KindsRows DEF Sound, ChainsOK
  <2>2. /\ Carried(delivery[d], cases[d]) = delivery[d].quantity
        /\ Carried(delivery'[d], cases'[d]) = o.refused + o.still
        /\ HeadOpen(cases[d], "short") = 0 /\ HeadOpen(cases'[d], "short") = o.short
        /\ LostIn(cases[d]) = 0 /\ LostIn(cases'[d]) = 0
        /\ delivery[d].head.accepted = 0
    <3>1. Carried(delivery[d], cases[d]) = delivery[d].quantity
      BY <1>2 DEF Carried
    <3>2. Carried(delivery'[d], cases'[d]) = HeadOpen(t, "refused") + HeadOpen(t, "still")
      BY <1>6, <1>9, <2>1, SoundRows
    <3>3. /\ HeadOpen(t, "refused") = o.refused /\ HeadOpen(t, "still") = o.still
          /\ HeadOpen(t, "short") = o.short
      BY <1>8 DEF Kinds
    <3>4. HeadOpen(cases[d], "short") = 0 /\ GivenUp(cases[d]) = {}
      BY <1>2 DEF HeadOpen, GivenUp
    <3>5. LostIn(cases[d]) = 0
      BY <3>4, TotalZero DEF LostIn
    <3>6. delivery[d].head.accepted = 0
      BY <1>2 DEF Undelivered
    <3> QED BY <1>8, <1>9, <3>1, <3>2, <3>3, <3>4, <3>5, <3>6
  <2>3. CorrectsOnlyUntouched' => CorrectsOnlyUntouched
    <3>1. \A e \in Deliveries :
           /\ Len(cases'[e]) \in Nat /\ Len(cases[e]) <= Len(cases'[e])
           /\ \A w \in 1..Len(cases[e]) : \A j \in Kinds :
                cases[e][w][j].events \subseteq cases'[e][w][j].events
      <4> TAKE e \in Deliveries
      <4>1. Len(cases[e]) \in Nat
        BY <1>1 DEF CustodyTypes
      <4>2. CASE e = d
        BY <1>2, <1>8, <1>9, <4>2
      <4>3. CASE e # d
        BY <1>9, <4>1, <4>3
      <4> QED BY <4>2, <4>3
    <3> QED BY <1>1, <3>1, TouchedStaysTouched
  <2>4. Everything(stock') = Everything(stock) - o.accepted /\ Everything(stock) \in Int
    BY <1>1, <1>5, <1>10, LocationsInt DEF Everything
  <2>5. /\ Everything(stock') = Everything(stock)
             - (delivery'[d].head.accepted - delivery[d].head.accepted)
             - (LostIn(cases'[d]) - LostIn(cases[d]))
        /\ stock["quarantine"] <= stock'["quarantine"]
        /\ valued' = valued + (Everything(stock') - Everything(stock))
    BY <1>1, <1>5, <1>6, <1>10, <1>11, <2>2, <2>4, LocationsInt
  <2>6. /\ stock'["in_transit"] = stock["in_transit"] - Carried(delivery[d], cases[d])
                                  + Carried(delivery'[d], cases'[d])
        /\ stock'["investigation"] = stock["investigation"] - HeadOpen(cases[d], "short")
                                     + HeadOpen(cases'[d], "short")
    BY <1>1, <1>4, <1>5, <1>10, <2>2, LocationsInt
  <2> QED BY <1>1, <1>6, <1>9, <1>11, <1>13, <1>14, <2>3, <2>5, <2>6, DeliveryMoves
<1> QED BY <1>12, <1>13, <1>14, <1>15, <1>16 DEF CustodyInv

(* A correction puts back what its receipt took and takes what it says instead;
   the new version of the cases is opened for it. *)
LEMMA PostCorrectionStep ==
  ASSUME CustodyAssumption, CustodyInv, NEW d \in Deliveries, PostCorrection(d)
  PROVE  CustodyInv'
<1>1. CustodyTypes /\ ChainsOK /\ ReturnsOK /\ ConversionsOK /\ QuantitiesOK
  BY DEF CustodyInv
<1>2. PICK o : o = proposal[d].outcome
  OBVIOUS
<1>3. PICK s : s = cases[d]
  OBVIOUS
<1>4. PICK t : ReplacedFrom(s, t, o)
  BY DEF ReplacedFrom
<1>5. ChainOK(d) /\ CasesOK(s) /\ s \in Seq(Row)
  BY <1>1, <1>3 DEF ChainsOK, CustodyTypes, Row
<1>6. /\ proposal[d].state # "none" /\ delivery[d].status = "confirmed"
      /\ Len(s) \in 1..Versions /\ Len(s) < Versions
      /\ delivery[d].head \in Partitions[delivery[d].quantity]
      /\ o \in Partitions[delivery[d].quantity]
      /\ AuthorizedReturns(d) = {}
      /\ \A k \in Kinds : s[Len(s)][k].original = delivery[d].head[k]
  BY <1>2, <1>3, <1>5 DEF PostCorrection, ChainOK, Version, Current
<1>7. delivery \in [Deliveries -> DeliveryRow] /\ delivery[d] \in DeliveryRow
  BY <1>1 DEF CustodyTypes
<1>8. PICK h : h = delivery[d].head
  OBVIOUS
<1>9. /\ o \in Outcomes /\ h \in Outcomes /\ delivery[d].quantity \in 0..Picked
      /\ o.accepted + o.refused + o.short + o.still = delivery[d].quantity
      /\ h.accepted + h.refused + h.short + h.still = delivery[d].quantity
  BY <1>6, <1>7, <1>8 DEF Partitions, DeliveryRow
<1>10. /\ o.accepted \in Nat /\ o.refused \in Nat /\ o.short \in Nat /\ o.still \in Nat
       /\ h.accepted \in Nat /\ h.refused \in Nat /\ h.short \in Nat /\ h.still \in Nat
       /\ delivery[d].quantity \in Nat
  BY <1>9 DEF Outcomes, CustodyAssumption
<1>11. /\ delivery' \in [Deliveries -> DeliveryRow]
       /\ \A e \in Deliveries \ {d} : delivery'[e] = delivery[e]
       /\ delivery'[d].status = "confirmed" /\ delivery'[d].head = o
       /\ delivery'[d].quantity = delivery[d].quantity
  <2>1. PICK row : row = [[delivery[d] EXCEPT !.head = o] EXCEPT !.invoice = Invoiced(o)]
    OBVIOUS
  <2>2. Invoiced(o) \in {"none", "awaited", "draft", "posted"}
    BY DEF Invoiced
  <2>3. [delivery[d] EXCEPT !.head = o] \in DeliveryRow
    BY <1>7, <1>9 DEF DeliveryRow
  <2>4. /\ row \in DeliveryRow /\ row.status = "confirmed" /\ row.head = o
        /\ row.quantity = delivery[d].quantity
    BY <1>6, <1>7, <2>1, <2>2, <2>3 DEF DeliveryRow
  <2>5. delivery' = [delivery EXCEPT ![d] = row]
    BY <1>2, <2>1 DEF PostCorrection
  <2> QED BY <1>7, <2>4, <2>5
<1>12. Len(s) # 0 /\ Len(s) \in Nat
  BY <1>6
<1>13. /\ t \in Seq(Row) /\ Len(t) = Len(s) + 1 /\ CasesOK(t)
       /\ \A k \in Kinds : t[Len(t)][k].original = o[k] /\ HeadOpen(t, k) = o[k]
       /\ \A v \in 1..Len(s) : \A k \in Kinds : s[v][k].events \subseteq t[v][k].events
       /\ \A k \in Kinds : s[Len(s)][k].original # 0 => "superseded" \in t[Len(s)][k].events
       /\ LostIn(t) = LostIn(s)
  BY <1>4, <1>5, <1>9, <1>12, CasesReplaced
<1>14. cases' = [cases EXCEPT ![d] = t]
  BY <1>2, <1>3, <1>4 DEF PostCorrection, ReplacedFrom, Version, Current
<1>15. /\ cases' \in [Deliveries -> Seq(Row)] /\ cases'[d] = t
       /\ \A e \in Deliveries \ {d} : cases'[e] = cases[e]
  BY <1>1, <1>13, <1>14 DEF CustodyTypes, Row
<1>16. RecalledShort(d) = h.short
  BY <1>3, <1>6, <1>8 DEF RecalledShort, Current, Version, Kinds
<1>17. /\ stock' \in [Locations -> Nat]
       /\ stock'["staging"] = stock["staging"]
       /\ stock'["in_transit"] = stock["in_transit"] + h.accepted + h.short - o.accepted - o.short
       /\ stock'["investigation"] = stock["investigation"] - h.short + o.short
       /\ stock'["quarantine"] = stock["quarantine"]
       /\ stock'["available"] = stock["available"]
  <2>1. stock \in [Locations -> Nat]
    BY <1>1 DEF CustodyTypes
  <2>2. stock' = [stock EXCEPT
          !["in_transit"] = @ + h.accepted + h.short - o.accepted - o.short,
          !["investigation"] = @ - h.short + o.short]
    BY <1>2, <1>8, <1>16 DEF PostCorrection, Reposted
  <2>3. h.short <= stock["investigation"] /\ stock' = Reposted(d, o) /\ Reposted(d, o)["in_transit"] >= 0
    BY <1>2, <1>16 DEF PostCorrection
  <2>4. PICK x \in Int, y \in Int :
          /\ x = stock["in_transit"] + h.accepted + h.short - o.accepted - o.short
          /\ y = stock["investigation"] - h.short + o.short
    BY <1>1, <1>10, LocationsInt
  <2>5. stock' = [[stock EXCEPT !["in_transit"] = x] EXCEPT !["investigation"] = y]
    BY <2>1, <2>2, <2>4 DEF Locations
  <2>6. stock'["in_transit"] = x /\ x >= 0 /\ y >= 0
    BY <1>1, <1>10, <2>1, <2>3, <2>4, <2>5, LocationsInt DEF Locations
  <2>7. x \in Nat /\ y \in Nat
    BY <2>4, <2>6
  <2> QED BY <2>1, <2>4, <2>5, <2>7 DEF Locations
<1>18. /\ UNCHANGED <<returns, fulfilled, conversion, charged, policy>>
       /\ valued' = valued + h.accepted - o.accepted
       /\ proposal' = [proposal EXCEPT ![d] = NoProposal]
  BY <1>2, <1>8 DEF PostCorrection
<1>19. /\ proposal' \in [Deliveries -> ProposalRow] /\ proposal'[d].state = "none"
       /\ \A e \in Deliveries \ {d} : proposal'[e] = proposal[e]
  <2>1. Undelivered \in Outcomes
    BY DEF Undelivered, Outcomes, CustodyAssumption
  <2>2. NoProposal \in ProposalRow /\ NoProposal.state = "none"
    BY <2>1 DEF NoProposal, ProposalRow
  <2> QED BY <1>1, <1>18, <2>2 DEF CustodyTypes
<1>20. CustodyTypes'
  <2>1. valued' \in Int
    BY <1>1, <1>10, <1>18 DEF CustodyTypes
  <2> QED BY <1>1, <1>11, <1>15, <1>17, <1>18, <1>19, <2>1 DEF CustodyTypes, Row
<1>21. ChainsOK'
  <2>1. ASSUME NEW e \in Deliveries PROVE CasesOK(cases[e])'
    BY <1>1, <1>13, <1>15 DEF ChainsOK
  <2>2. ASSUME NEW e \in Deliveries PROVE ChainOK(e)'
    <3>1. CASE e # d
      BY <1>1, <1>11, <1>15, <1>18, <1>19, <3>1, ChainKept DEF ChainsOK
    <3>2. CASE e = d
      <4>1. Version(d)' = Len(t) /\ Version(d)' \in 1..Versions /\ Current(d)' = t[Len(t)]
        BY <1>6, <1>13, <1>15 DEF Version, Current, CustodyAssumption
      <4>2. delivery'[d].head \in Partitions[delivery'[d].quantity]
        BY <1>6, <1>11
      <4>3. \A k \in Kinds : Current(d)'[k].original = delivery'[d].head[k]
        BY <1>11, <1>13, <4>1
      <4> QED BY <1>11, <1>19, <3>2, <4>1, <4>2, <4>3 DEF ChainOK
    <3> QED BY <3>1, <3>2
  <2> QED BY <2>1, <2>2 DEF ChainsOK
<1>22. ReturnsOK'
  <2>1. \A e \in Deliveries : \/ /\ Len(cases'[e]) = Len(cases[e])
                                 /\ delivery'[e].head.accepted = delivery[e].head.accepted
                              \/ AuthorizedReturns(e) = {}
    BY <1>6, <1>11, <1>15
  <2> QED BY <1>1, <1>18, <1>20, <2>1, ReturnsKept
<1>23. ConversionsOK'
  <2>1. \A e \in Deliveries : conversion[e].state # "none" =>
          /\ delivery'[e].status # "none"
          /\ delivery'[e].status = "dispatched" =>
               delivery[e].status = "dispatched" /\ delivery'[e].quantity = delivery[e].quantity
          /\ Len(cases'[e]) = 1 =>
               /\ Len(cases[e]) = 1
               /\ delivery'[e].head.accepted = delivery[e].head.accepted
    <3> TAKE e \in Deliveries
    <3> HAVE conversion[e].state # "none"
    <3>1. delivery[e].status # "none"
      BY <1>1 DEF ConversionsOK, ConversionOK
    <3>2. CASE e = d
      <4>1. Len(s) + 1 # 1
        BY <1>12
      <4>2. Len(cases'[d]) # 1
        BY <1>13, <1>15, <4>1
      <4> QED BY <1>11, <3>2, <4>2
    <3>3. CASE e # d
      BY <1>11, <1>15, <3>1, <3>3
    <3> QED BY <3>2, <3>3
  <2> QED BY <1>1, <1>18, <2>1, ConversionsKept
<1>24. QuantitiesOK'
  <2>1. Sound(delivery, cases) /\ Sound(delivery', cases')
    BY <1>1, <1>11, <1>15, <1>21, KindsRows DEF Sound, ChainsOK
  <2>2. /\ Carried(delivery[d], cases[d]) = HeadOpen(s, "refused") + HeadOpen(s, "still")
        /\ Carried(delivery'[d], cases'[d]) = o.refused + o.still
        /\ HeadOpen(cases'[d], "short") = o.short
    <3>1. /\ Carried(delivery[d], cases[d]) = HeadOpen(s, "refused") + HeadOpen(s, "still")
          /\ Carried(delivery'[d], cases'[d]) = HeadOpen(t, "refused") + HeadOpen(t, "still")
      BY <1>3, <1>6, <1>11, <1>15, <2>1, SoundRows
    <3>2. /\ HeadOpen(t, "refused") = o.refused /\ HeadOpen(t, "still") = o.still
          /\ HeadOpen(t, "short") = o.short
      BY <1>13 DEF Kinds
    <3> QED BY <1>15, <3>1, <3>2
  <2>3. CorrectsOnlyUntouched' => CorrectsOnlyUntouched
    <3>1. \A e \in Deliveries :
           /\ Len(cases'[e]) \in Nat /\ Len(cases[e]) <= Len(cases'[e])
           /\ \A w \in 1..Len(cases[e]) : \A j \in Kinds :
                cases[e][w][j].events \subseteq cases'[e][w][j].events
      <4> TAKE e \in Deliveries
      <4>1. Len(cases[e]) \in Nat
        BY <1>1 DEF CustodyTypes
      <4>2. CASE e = d
        BY <1>3, <1>12, <1>13, <1>15, <4>2
      <4>3. CASE e # d
        BY <1>15, <4>1, <4>3
      <4> QED BY <4>2, <4>3
    <3> QED BY <1>1, <3>1, TouchedStaysTouched
  <2>4. ASSUME CorrectsOnlyUntouched'
        PROVE  /\ HeadOpen(s, "refused") = h.refused /\ HeadOpen(s, "still") = h.still
               /\ HeadOpen(s, "short") = h.short
    <3>1. \A k \in Kinds : HeadOpen(s, k) = h[k]
      <4> TAKE k \in Kinds
      <4>1. PICK case : case = s[Len(s)][k]
        OBVIOUS
      <4>2. /\ case \in Case /\ CaseOK(case, k) /\ "superseded" \notin case.events
            /\ case.original = h[k] /\ HeadOpen(s, k) = case.open
        BY <1>5, <1>6, <1>8, <1>12, <4>1 DEF CasesOK, Row, HeadOpen
      <4>3. CASE case.original = 0
        BY <4>2, <4>3 DEF Case, CaseOK, CustodyAssumption
      <4>4. CASE case.original # 0
        <5>1. Len(s) \in 1..Version(d)'
          BY <1>12, <1>13, <1>15 DEF Version
        <5>2. "superseded" \in t[Len(s)][k].events
          BY <1>13, <4>1, <4>4
        <5>3. t[Len(s)][k].events = {"superseded"}
          BY <1>15, <2>4, <5>1, <5>2 DEF CorrectsOnlyUntouched
        <5>4. case.events \subseteq t[Len(s)][k].events
          BY <1>12, <1>13, <4>1
        <5>5. case.events = {}
          BY <4>2, <5>3, <5>4
        <5> QED BY <4>2, <5>5 DEF CaseOK
      <4> QED BY <4>3, <4>4
    <3> QED BY <3>1 DEF Kinds
  <2>5. /\ Everything(stock') = Everything(stock) + h.accepted - o.accepted
        /\ Everything(stock) \in Int
    BY <1>1, <1>10, <1>17, LocationsInt DEF Everything
  <2>6. /\ Everything(stock') = Everything(stock)
             - (delivery'[d].head.accepted - delivery[d].head.accepted)
             - (LostIn(cases'[d]) - LostIn(cases[d]))
        /\ stock["quarantine"] <= stock'["quarantine"]
        /\ valued' = valued + (Everything(stock') - Everything(stock))
    <3>1. LostIn(s) \in Nat
      BY <1>5, LostType
    <3>2. LostIn(cases'[d]) - LostIn(cases[d]) = 0
      BY <1>3, <1>13, <1>15, <3>1
    <3>3. delivery'[d].head.accepted = o.accepted /\ delivery[d].head.accepted = h.accepted
      BY <1>8, <1>11
    <3>4. stock["quarantine"] <= stock'["quarantine"]
      BY <1>1, <1>17, LocationsInt
    <3>5. valued \in Int
      BY <1>1 DEF CustodyTypes
    <3> HIDE DEF Everything
    <3>6. valued' = valued + (Everything(stock') - Everything(stock))
      BY <1>10, <1>18, <2>5, <3>5
    <3>7. Everything(stock') = Everything(stock) - (o.accepted - h.accepted) - 0
      BY <1>10, <2>5
    <3> QED BY <3>2, <3>3, <3>4, <3>6, <3>7
  <2>7. ASSUME CorrectsOnlyUntouched'
        PROVE  /\ stock'["in_transit"] = stock["in_transit"] - Carried(delivery[d], cases[d])
                                         + Carried(delivery'[d], cases'[d])
               /\ stock'["investigation"] = stock["investigation"] - HeadOpen(cases[d], "short")
                                            + HeadOpen(cases'[d], "short")
    <3>1. /\ Carried(delivery[d], cases[d]) = h.refused + h.still
          /\ HeadOpen(cases[d], "short") = h.short
      BY <1>3, <2>2, <2>4, <2>7
    <3>2. stock["in_transit"] \in Int /\ stock["investigation"] \in Int
      BY <1>1, LocationsInt
    <3>3. o.accepted + o.refused + o.short + o.still = h.accepted + h.refused + h.short + h.still
      BY <1>9
    <3>4. stock["in_transit"] + h.accepted + h.short - o.accepted - o.short
          = stock["in_transit"] - (h.refused + h.still) + (o.refused + o.still)
      BY <1>10, <3>2, <3>3
    <3> QED BY <1>17, <2>2, <3>1, <3>4
  <2> QED BY <1>1, <1>11, <1>15, <1>18, <1>20, <1>21, <2>3, <2>6, <2>7, DeliveryMoves
<1> QED BY <1>20, <1>21, <1>22, <1>23, <1>24 DEF CustodyInv

-----------------------------------------------------------------------------
(* Steps on paper: invoices and correction requests move nothing. *)
LEMMA PaperStep ==
  ASSUME CustodyAssumption, CustodyInv, CustodyTypes',
         UNCHANGED <<stock, valued, cases, returns, conversion, charged, policy>>,
         \A d \in Deliveries :
           /\ delivery'[d].status = delivery[d].status
           /\ delivery'[d].quantity = delivery[d].quantity
           /\ delivery'[d].head = delivery[d].head,
         \A d \in Deliveries : ChainOK(d)'
  PROVE  CustodyInv'
<1>1. CustodyTypes /\ ChainsOK /\ ReturnsOK /\ ConversionsOK /\ QuantitiesOK
  BY DEF CustodyInv
<1>2. ChainsOK'
  <2>1. \A d \in Deliveries : CasesOK(cases[d])'
    BY <1>1 DEF ChainsOK
  <2> QED BY <2>1 DEF ChainsOK
<1>3. ReturnsOK'
  BY <1>1, ReturnsKept
<1>4. ConversionsOK'
  <2>1. \A d \in Deliveries : conversion[d].state # "none" => delivery[d].status # "none"
    BY <1>1 DEF ConversionsOK, ConversionOK
  <2> QED BY <1>1, <2>1, ConversionsKept
<1>5. QuantitiesOK'
  BY <1>1, <1>2, NothingMoves
<1> QED BY <1>2, <1>3, <1>4, <1>5 DEF CustodyInv

LEMMA InvoiceStep ==
  ASSUME CustodyAssumption, CustodyInv, NEW d \in Deliveries, DraftInvoice(d) \/ PostInvoice(d)
  PROVE  CustodyInv'
<1>1. CustodyTypes /\ ChainsOK
  BY DEF CustodyInv
<1>2. PICK state \in {"draft", "posted"} : delivery' = [delivery EXCEPT ![d].invoice = state]
  BY DEF DraftInvoice, PostInvoice
<1>3. UNCHANGED <<stock, valued, cases, proposal, returns, fulfilled, conversion, charged, policy>>
  BY DEF DraftInvoice, PostInvoice
<1>4. PICK row : row = [delivery[d] EXCEPT !.invoice = state]
  OBVIOUS
<1>5. delivery \in [Deliveries -> DeliveryRow]
  BY <1>1 DEF CustodyTypes
<1>6. /\ row \in DeliveryRow /\ row.status = delivery[d].status
      /\ row.quantity = delivery[d].quantity /\ row.head = delivery[d].head
  BY <1>4, <1>5 DEF DeliveryRow
<1>7. delivery' = [delivery EXCEPT ![d] = row]
  BY <1>2, <1>4
<1>8. /\ delivery' \in [Deliveries -> DeliveryRow]
      /\ \A e \in Deliveries :
           /\ delivery'[e].status = delivery[e].status
           /\ delivery'[e].quantity = delivery[e].quantity
           /\ delivery'[e].head = delivery[e].head
  BY <1>5, <1>6, <1>7
<1>9. CustodyTypes'
  BY <1>1, <1>3, <1>8 DEF CustodyTypes
<1>10. \A e \in Deliveries : ChainOK(e)'
  BY <1>1, <1>3, <1>8, ChainKept DEF ChainsOK
<1> QED BY <1>3, <1>8, <1>9, <1>10, PaperStep

(* A proposal for the head of a chain that can still be corrected. *)
LEMMA ProposalStep ==
  ASSUME CustodyAssumption, CustodyInv, NEW d \in Deliveries, NEW row \in ProposalRow,
         proposal' = [proposal EXCEPT ![d] = row],
         UNCHANGED <<stock, valued, delivery, cases, returns, fulfilled, conversion, charged, policy>>,
         delivery[d].status = "confirmed", Version(d) < Versions,
         row.outcome \in Partitions[delivery[d].quantity], AuthorizedReturns(d) = {}
  PROVE  CustodyInv'
<1>1. CustodyTypes /\ ChainsOK
  BY DEF CustodyInv
<1>2. /\ proposal' \in [Deliveries -> ProposalRow] /\ proposal'[d] = row
      /\ \A e \in Deliveries \ {d} : proposal'[e] = proposal[e]
  BY <1>1 DEF CustodyTypes
<1>3. CustodyTypes'
  BY <1>1, <1>2 DEF CustodyTypes
<1>4. ASSUME NEW e \in Deliveries PROVE ChainOK(e)'
  <2>1. CASE e = d
    <3>1. /\ Version(d)' = Version(d) /\ Current(d)' = Current(d)
          /\ AuthorizedReturns(d)' = AuthorizedReturns(d)
      BY DEF Version, Current, AuthorizedReturns, ReturnsOf
    <3>2. ChainOK(d)
      BY <1>1 DEF ChainsOK
    <3> QED BY <1>2, <2>1, <3>1, <3>2 DEF ChainOK
  <2>2. CASE e # d
    BY <1>1, <1>2, <2>2, ChainKept DEF ChainsOK
  <2> QED BY <2>1, <2>2
<1> QED BY <1>3, <1>4, PaperStep

LEMMA CorrectionStep ==
  ASSUME CustodyAssumption, CustodyInv, NEW d \in Deliveries,
         \/ \E o \in Partitions[delivery[d].quantity] : RequestCorrection(d, o)
         \/ CheckCorrection(d) \/ FailCorrection(d)
  PROVE  CustodyInv'
<1>1. CustodyTypes /\ ChainOK(d)
  BY DEF CustodyInv, ChainsOK
<1>2. /\ proposal \in [Deliveries -> ProposalRow] /\ proposal[d] \in ProposalRow
      /\ delivery[d].quantity \in 0..Picked
  BY <1>1 DEF CustodyTypes, DeliveryRow
<1>3. CASE \E o \in Partitions[delivery[d].quantity] : RequestCorrection(d, o)
  <2>1. PICK o \in Partitions[delivery[d].quantity] : RequestCorrection(d, o)
    BY <1>3
  <2>2. PICK row : row = [outcome |-> o, state |-> "requested"]
    OBVIOUS
  <2>3. o \in Outcomes
    BY <1>2 DEF Partitions
  <2>4. row \in ProposalRow /\ row.outcome = o
    BY <2>2, <2>3 DEF ProposalRow
  <2>5. /\ proposal' = [proposal EXCEPT ![d] = row]
        /\ UNCHANGED <<stock, valued, delivery, cases, returns, fulfilled, conversion, charged, policy>>
        /\ delivery[d].status = "confirmed" /\ Version(d) < Versions
        /\ AuthorizedReturns(d) = {}
    BY <2>1, <2>2 DEF RequestCorrection, Untouched
  <2> QED BY <2>4, <2>5, ProposalStep
<1>4. CASE CheckCorrection(d) \/ FailCorrection(d)
  <2>1. PICK state \in {"requested", "checked"} : proposal' = [proposal EXCEPT ![d].state = state]
    BY <1>4 DEF CheckCorrection, FailCorrection
  <2>2. PICK row : row = [proposal[d] EXCEPT !.state = state]
    OBVIOUS
  <2>3. row \in ProposalRow /\ row.outcome = proposal[d].outcome
    BY <1>2, <2>2 DEF ProposalRow
  <2>4. /\ proposal' = [proposal EXCEPT ![d] = row] /\ proposal[d].state # "none"
        /\ UNCHANGED <<stock, valued, delivery, cases, returns, fulfilled, conversion, charged, policy>>
    BY <1>4, <2>1, <2>2 DEF CheckCorrection, FailCorrection
  <2>5. /\ delivery[d].status = "confirmed" /\ Version(d) < Versions
        /\ row.outcome \in Partitions[delivery[d].quantity] /\ AuthorizedReturns(d) = {}
    BY <1>1, <2>3, <2>4 DEF ChainOK
  <2> QED BY <2>3, <2>4, <2>5, ProposalStep
<1> QED BY <1>3, <1>4

(* A delivery on its way is charged to the account of its customer. *)
LEMMA ConvertCodStep ==
  ASSUME CustodyAssumption, CustodyInv, NEW d \in Deliveries, ConvertCod(d)
  PROVE  CustodyInv'
<1>1. CustodyTypes /\ ChainsOK /\ ReturnsOK /\ ConversionsOK /\ QuantitiesOK
  BY DEF CustodyInv
<1>2. /\ conversion \in [Deliveries -> ConversionRow] /\ charged \in Int
      /\ delivery[d].quantity \in 0..Picked
  BY <1>1 DEF CustodyTypes, DeliveryRow
<1>3. PICK row : row = [state |-> "approved", amount |-> delivery[d].quantity]
  OBVIOUS
<1>4. row \in ConversionRow /\ row.state = "approved" /\ row.amount = delivery[d].quantity
  BY <1>2, <1>3 DEF ConversionRow
<1>5. /\ policy = "cash_on_delivery" /\ delivery[d].status = "dispatched"
      /\ conversion[d].state = "none"
      /\ conversion' = [conversion EXCEPT ![d] = row]
      /\ charged' = charged + row.amount
      /\ UNCHANGED <<stock, valued, delivery, cases, proposal, returns, fulfilled, policy>>
  BY <1>3, <1>4 DEF ConvertCod, Convertible
<1>6. /\ conversion' \in [Deliveries -> ConversionRow] /\ conversion'[d] = row
      /\ \A e \in Deliveries \ {d} : conversion'[e] = conversion[e]
  BY <1>2, <1>4, <1>5
<1>7. row.amount \in Nat
  BY <1>2, <1>4 DEF CustodyAssumption
<1>8. CustodyTypes'
  <2>1. charged' \in Int
    BY <1>2, <1>5, <1>7
  <2> QED BY <1>1, <1>5, <1>6, <2>1 DEF CustodyTypes
<1>9. ChainsOK'
  <2>1. \A e \in Deliveries : ChainOK(e)' /\ CasesOK(cases[e])'
    BY <1>1, <1>5, ChainKept DEF ChainsOK
  <2> QED BY <2>1 DEF ChainsOK
<1>10. ReturnsOK' /\ QuantitiesOK'
  BY <1>1, <1>5, <1>8, <1>9, ReturnsKept, NothingMoves
<1>11. ConversionsOK'
  <2>1. charged' = ChargedIn(conversion')
    <3>1. ChargedIn(conversion') = ChargedIn(conversion) - Charge(conversion[d]) + Charge(row)
      BY <1>2, <1>6, OneConversion
    <3>2. Charge(conversion[d]) = 0 /\ Charge(row) = row.amount
      BY <1>4, <1>5 DEF Charge, Charging
    <3>3. charged = ChargedIn(conversion)
      BY <1>1, SettlesMean DEF ConversionsOK
    <3> QED BY <1>2, <1>5, <1>7, <3>1, <3>2, <3>3
  <2>2. Version(d) = 0
    <3>1. cases[d] = <<>>
      BY <1>1, <1>5 DEF ChainsOK, ChainOK
    <3> QED BY <3>1 DEF Version
  <2>3. \A e \in Deliveries : conversion'[e].state = "approved" /\ Version(e)' = 1 =>
          delivery'[e].head.accepted > 0
    <3> TAKE e \in Deliveries
    <3> HAVE conversion'[e].state = "approved" /\ Version(e)' = 1
    <3>1. Version(e) = 1 /\ e # d
      <4>1. Version(e)' = Version(e)
        BY <1>5 DEF Version
      <4> QED BY <2>2, <4>1
    <3>2. conversion[e].state = "approved"
      BY <1>6, <3>1
    <3> QED BY <1>1, <1>5, <3>1, <3>2, SettlesMean DEF ConversionsOK
  <2>4. ConversionsSettle'
    BY <2>1, <2>3, SettlesMean
  <2>5. ASSUME NEW e \in Deliveries PROVE ConversionOK(e)'
    <3>1. ConversionOK(e)
      BY <1>1 DEF ConversionsOK
    <3>2. CASE e = d
      <4>1. Version(d)' = 0
        BY <1>5, <2>2 DEF Version
      <4> QED BY <1>4, <1>5, <1>6, <3>2, <4>1 DEF ConversionOK
    <3>3. CASE e # d
      <4>1. conversion'[e] = conversion[e] /\ Version(e)' = Version(e)
        BY <1>5, <1>6, <3>3 DEF Version
      <4> QED BY <1>5, <3>1, <4>1 DEF ConversionOK
    <3> QED BY <3>2, <3>3
  <2> QED BY <2>4, <2>5 DEF ConversionsOK
<1> QED BY <1>8, <1>9, <1>10, <1>11 DEF CustodyInv

-----------------------------------------------------------------------------
(* A step of one return: the goods it brings back, if any, are counted. *)
LEMMA ReturnStep ==
  ASSUME CustodyAssumption, CustodyInv, NEW r \in Returns, NEW row \in ReturnRow,
         returns' = [returns EXCEPT ![r] = row], returns[r].state # "received",
         UNCHANGED <<delivery, cases, proposal, fulfilled, conversion, charged, policy>>,
         stock' \in [Locations -> Nat],
         Everything(stock') = Everything(stock) + Counted(row, {"restock", "quarantine"}),
         stock'["quarantine"] = stock["quarantine"] + Counted(row, {"quarantine"}),
         stock'["in_transit"] = stock["in_transit"],
         stock'["investigation"] = stock["investigation"],
         valued' = valued + Counted(row, {"restock", "quarantine"}) - Counted(row, {"quarantine"}),
         ReturnOK(r)',
         \A d \in Deliveries : /\ (AuthorizedQuantity(d) <= delivery[d].head.accepted)'
                               /\ proposal[d].state # "none" => AuthorizedReturns(d)' = {}
  PROVE  CustodyInv'
<1>1. CustodyTypes /\ ChainsOK /\ ReturnsOK /\ ConversionsOK /\ QuantitiesOK
  BY DEF CustodyInv
<1>2. returns \in [Returns -> ReturnRow]
  BY <1>1 DEF CustodyTypes
<1>3. /\ returns' \in [Returns -> ReturnRow] /\ returns'[r] = row
      /\ \A q \in Returns \ {r} : returns'[q] = returns[q]
  BY <1>2
<1>4. /\ Counted(row, {"restock", "quarantine"}) \in Int
      /\ Counted(row, {"quarantine"}) \in Int
  BY DEF Counted, ReturnRow, CustodyAssumption
<1>5. CustodyTypes'
  <2>1. valued' \in Int
    BY <1>1, <1>4 DEF CustodyTypes
  <2> QED BY <1>1, <1>3, <2>1 DEF CustodyTypes
<1>6. ChainsOK'
  <2>1. ASSUME NEW d \in Deliveries PROVE ChainOK(d)'
    <3>1. Version(d)' = Version(d) /\ Current(d)' = Current(d)
      BY DEF Version, Current
    <3>2. ChainOK(d)
      BY <1>1 DEF ChainsOK
    <3> QED BY <3>1, <3>2 DEF ChainOK
  <2>2. \A d \in Deliveries : CasesOK(cases[d])'
    BY <1>1 DEF ChainsOK
  <2> QED BY <2>1, <2>2 DEF ChainsOK
<1>7. ReturnsOK'
  <2>1. ASSUME NEW q \in Returns PROVE ReturnOK(q)'
    <3>1. CASE q # r
      <4>1. ReturnOK(q) /\ returns'[q] = returns[q]
        BY <1>1, <1>3, <3>1 DEF ReturnsOK
      <4> QED BY <4>1 DEF ReturnOK, Version
    <3> QED BY <3>1
  <2> QED BY <2>1 DEF ReturnsOK
<1>8. ConversionsOK'
  <2>1. \A d \in Deliveries : conversion[d].state # "none" => delivery[d].status # "none"
    BY <1>1 DEF ConversionsOK, ConversionOK
  <2> QED BY <1>1, <2>1, ConversionsKept
<1>9. QuantitiesOK'
  <2>1. /\ QuantitiesOf(stock, valued, delivery, cases, returns)
        /\ CorrectsOnlyUntouched => MatchesOf(stock, delivery, cases)
    BY <1>1, QuantitiesMean
  <2>2. \A outcomes : /\ ReceivedIn(returns', outcomes)
                           = ReceivedIn(returns, outcomes) - Counted(returns[r], outcomes)
                             + Counted(row, outcomes)
                      /\ ReceivedIn(returns, outcomes) \in Nat
    <3> TAKE outcomes
    <3>1. ReceivedIn(returns', outcomes) = ReceivedIn(returns, outcomes)
            - Counted(returns[r], outcomes) + Counted(returns'[r], outcomes)
      <4>1. PICK Q \in [Returns -> ReturnRow] : Q = returns'
        BY <1>3
      <4>2. \A q \in Returns \ {r} : Q[q] = returns[q]
        BY <1>3, <4>1
      <4>3. CustodyAssumption
        OBVIOUS
      <4>4. ReceivedIn(Q, outcomes)
              = ReceivedIn(returns, outcomes) - Counted(returns[r], outcomes) + Counted(Q[r], outcomes)
        BY <1>2, <4>2, <4>3, OneReturn
      <4> QED BY <4>1, <4>4
    <3>2. ReceivedIn(returns, outcomes) \in Nat
      BY <1>2, ReceivedType
    <3> QED BY <1>3, <3>1, <3>2
  <2>3. \A outcomes : Counted(returns[r], outcomes) = 0
    <3>1. returns[r].received = 0
      BY <1>1 DEF ReturnsOK, ReturnOK
    <3> QED BY <3>1 DEF Counted
  <2>4. /\ ReceivedIn(returns', {"restock", "quarantine"})
             = ReceivedIn(returns, {"restock", "quarantine"}) + Counted(row, {"restock", "quarantine"})
        /\ ReceivedIn(returns, {"restock", "quarantine"}) \in Int
    <3>1. PICK outcomes : outcomes = {"restock", "quarantine"}
      OBVIOUS
    <3>2. /\ ReceivedIn(returns', outcomes) = ReceivedIn(returns, outcomes) - 0 + Counted(row, outcomes)
          /\ ReceivedIn(returns, outcomes) \in Int /\ Counted(row, outcomes) \in Int
      <4>1. Counted(row, outcomes) \in Int
        BY <1>4, <3>1
      <4>2. Counted(returns[r], outcomes) = 0
        BY <2>3
      <4>3. ReceivedIn(returns, outcomes) \in Nat
        BY <2>2
      <4>4. ReceivedIn(returns', outcomes) = ReceivedIn(returns, outcomes)
              - Counted(returns[r], outcomes) + Counted(row, outcomes)
        BY <2>2
      <4> QED BY <4>1, <4>2, <4>3, <4>4
    <3>3. ReceivedIn(returns', outcomes) = ReceivedIn(returns, outcomes) + Counted(row, outcomes)
      BY <3>2
    <3> QED BY <3>1, <3>2, <3>3
  <2>5. /\ ReceivedIn(returns', {"quarantine"})
             = ReceivedIn(returns, {"quarantine"}) + Counted(row, {"quarantine"})
        /\ ReceivedIn(returns, {"quarantine"}) \in Int
    <3>1. PICK outcomes : outcomes = {"quarantine"}
      OBVIOUS
    <3>2. /\ ReceivedIn(returns', outcomes) = ReceivedIn(returns, outcomes) - 0 + Counted(row, outcomes)
          /\ ReceivedIn(returns, outcomes) \in Int /\ Counted(row, outcomes) \in Int
      <4>1. Counted(row, outcomes) \in Int
        BY <1>4, <3>1
      <4>2. Counted(returns[r], outcomes) = 0
        BY <2>3
      <4>3. ReceivedIn(returns, outcomes) \in Nat
        BY <2>2
      <4>4. ReceivedIn(returns', outcomes) = ReceivedIn(returns, outcomes)
              - Counted(returns[r], outcomes) + Counted(row, outcomes)
        BY <2>2
      <4> QED BY <4>1, <4>2, <4>3, <4>4
    <3>3. ReceivedIn(returns', outcomes) = ReceivedIn(returns, outcomes) + Counted(row, outcomes)
      BY <3>2
    <3> QED BY <3>1, <3>2, <3>3
  <2>6. /\ LostOf(cases) \in Int /\ AcceptedIn(delivery) \in Int
        /\ Everything(stock) \in Int /\ stock["quarantine"] \in Int /\ valued \in Int
    BY <1>1, KindsRows, SoundTotals, LocationsInt
  <2>7. QuantitiesOf(stock', valued', delivery', cases', returns')
    BY <1>4, <2>1, <2>4, <2>5, <2>6 DEF QuantitiesOf
  <2>8. CorrectsOnlyUntouched' => MatchesOf(stock', delivery', cases')
    <3>1. CorrectsOnlyUntouched' <=> CorrectsOnlyUntouched
      BY DEF CorrectsOnlyUntouched, Version
    <3> QED BY <2>1, <3>1 DEF MatchesOf, VehiclesIn, MissingIn
  <2> QED BY <2>7, <2>8, QuantitiesMeanNext
<1> QED BY <1>5, <1>6, <1>7, <1>8, <1>9 DEF CustodyInv

(* What is authorized of a receipt, when a return is requested or received. *)
LEMMA AuthorizedSame ==
  ASSUME CustodyInv, NEW r \in Returns, NEW row \in ReturnRow,
         returns' = [returns EXCEPT ![r] = row], UNCHANGED <<cases, delivery>>,
         \/ /\ returns[r].state \notin {"authorized", "received"}
            /\ row.state \notin {"authorized", "received"}
         \/ /\ returns[r].state \in {"authorized", "received"}
            /\ row.state \in {"authorized", "received"}
            /\ row.of = returns[r].of /\ row.quantity = returns[r].quantity
  PROVE  \A d \in Deliveries :
           /\ (AuthorizedQuantity(d) <= delivery[d].head.accepted)'
           /\ proposal[d].state # "none" => AuthorizedReturns(d)' = {}
<1> TAKE d \in Deliveries
<1>1. returns \in [Returns -> ReturnRow] /\ ReturnsOK /\ ChainOK(d)
  BY DEF CustodyInv, CustodyTypes, ChainsOK
<1>2. returns'[r] = row /\ \A q \in Returns \ {r} : returns'[q] = returns[q]
  BY <1>1
<1>3. AuthorizedReturns(d)' = AuthorizedReturns(d)
  <2>1. Version(d)' = Version(d)
    BY DEF Version
  <2>2. \A q \in Returns : q \in AuthorizedReturns(d)' <=> q \in AuthorizedReturns(d)
    <3> TAKE q \in Returns
    <3>1. CASE q = r
      BY <1>2, <2>1, <3>1 DEF AuthorizedReturns, ReturnsOf
    <3>2. CASE q # r
      BY <1>2, <2>1, <3>2 DEF AuthorizedReturns, ReturnsOf
    <3> QED BY <3>1, <3>2
  <2> QED BY <2>2 DEF AuthorizedReturns, ReturnsOf
<1>4. AuthorizedQuantity(d)' = AuthorizedQuantity(d)
  <2> DEFINE f == [q \in Returns |-> returns[q].quantity]
             g == [q \in Returns |-> returns'[q].quantity]
             T == AuthorizedReturns(d)
  <2>1. \A q \in T : f[q] = g[q]
    BY <1>2 DEF AuthorizedReturns, ReturnsOf
  <2>2. AuthorizedQuantity(d) = Total(f, T) /\ AuthorizedQuantity(d)' = Total(g, T)
    BY <1>3 DEF AuthorizedQuantity
  <2> HIDE DEF f, g, T
  <2> QED BY <2>1, <2>2, TotalSame
<1> QED BY <1>1, <1>3, <1>4 DEF ReturnsOK, ChainOK

LEMMA RequestReturnStep ==
  ASSUME CustodyAssumption, CustodyInv, NEW r \in Returns, NEW d \in Deliveries,
         NEW quantity \in 1..Picked, RequestReturn(r, d, quantity)
  PROVE  CustodyInv'
<1>1. CustodyTypes /\ ReturnOK(r) /\ ChainOK(d)
  BY DEF CustodyInv, ReturnsOK, ChainsOK
<1>2. returns \in [Returns -> ReturnRow] /\ returns[r] \in ReturnRow
  BY <1>1 DEF CustodyTypes
<1>3. PICK row : row = [returns[r] EXCEPT !.state = "requested", !.of = <<d, Version(d)>>,
                                          !.quantity = quantity]
  OBVIOUS
<1>4. returns[r].state = "none" /\ returns[r].received = 0 /\ returns[r].outcome = "none"
  BY <1>1 DEF RequestReturn, ReturnOK
<1>5. Version(d) \in 1..Versions
  <2>1. delivery[d].head.accepted > 0
    BY DEF RequestReturn, CurrentReceipt
  <2>2. delivery[d].status = "confirmed"
    BY <1>1, <2>1 DEF ChainOK, Undelivered
  <2> QED BY <1>1, <2>2 DEF ChainOK
<1>6. /\ row \in ReturnRow /\ row.state = "requested" /\ row.of = <<d, Version(d)>>
      /\ row.quantity = quantity /\ row.received = 0 /\ row.outcome = "none"
  <2>1. quantity \in 0..Picked
    BY DEF CustodyAssumption
  <2>2. <<d, Version(d)>> \in Deliveries \X (1..Versions)
    BY <1>5
  <2> QED BY <1>2, <1>3, <1>4, <2>1, <2>2 DEF ReturnRow
<1>7. /\ returns' = [returns EXCEPT ![r] = row]
      /\ UNCHANGED <<stock, valued, delivery, cases, proposal, fulfilled, conversion, charged, policy>>
  BY <1>3 DEF RequestReturn
<1>8. ReturnOK(r)'
  <2>1. returns'[r] = row /\ Version(d)' = Version(d)
    BY <1>2, <1>7 DEF Version
  <2>2. quantity >= 0
    BY DEF CustodyAssumption
  <2>3. returns'[r].of \in Deliveries \X (1..Versions)
    BY <1>5, <1>6, <2>1
  <2>4. returns'[r].received <= returns'[r].quantity
    BY <1>6, <2>1, <2>2
  <2> QED BY <1>6, <2>1, <2>3, <2>4 DEF ReturnOK
<1>9. Counted(row, {"restock", "quarantine"}) = 0 /\ Counted(row, {"quarantine"}) = 0
  BY <1>6 DEF Counted
<1>10. /\ stock' \in [Locations -> Nat]
       /\ Everything(stock') = Everything(stock) + Counted(row, {"restock", "quarantine"})
       /\ stock'["quarantine"] = stock["quarantine"] + Counted(row, {"quarantine"})
       /\ stock'["in_transit"] = stock["in_transit"]
       /\ stock'["investigation"] = stock["investigation"]
       /\ valued' = valued + Counted(row, {"restock", "quarantine"}) - Counted(row, {"quarantine"})
  <2>1. stock \in [Locations -> Nat] /\ valued \in Int
    BY <1>1 DEF CustodyTypes
  <2>2. Everything(stock) \in Int /\ stock["quarantine"] \in Int
    BY <1>1, LocationsInt
  <2> QED BY <1>7, <1>9, <2>1, <2>2
<1>11. \A e \in Deliveries : /\ (AuthorizedQuantity(e) <= delivery[e].head.accepted)'
                             /\ proposal[e].state # "none" => AuthorizedReturns(e)' = {}
  BY <1>4, <1>6, <1>7, AuthorizedSame
<1> QED BY <1>4, <1>6, <1>7, <1>8, <1>10, <1>11, ReturnStep

(* An authorization is counted against what the receipt accepted. *)
LEMMA AuthorizeReturnStep ==
  ASSUME CustodyAssumption, CustodyInv, NEW r \in Returns, AuthorizeReturn(r)
  PROVE  CustodyInv'
<1>1. CustodyTypes /\ ReturnsOK /\ ReturnOK(r)
  BY DEF CustodyInv, ReturnsOK
<1>2. returns \in [Returns -> ReturnRow] /\ returns[r] \in ReturnRow
  BY <1>1 DEF CustodyTypes
<1>3. PICK row : row = [returns[r] EXCEPT !.state = "authorized"]
  OBVIOUS
<1>4. PICK d : d = returns[r].of[1]
  OBVIOUS
<1>5. /\ returns[r].state = "requested" /\ CurrentReceipt(d, returns[r].of[2])
      /\ AuthorizedQuantity(d) + returns[r].quantity <= delivery[d].head.accepted
      /\ returns' = [returns EXCEPT ![r] = row]
      /\ UNCHANGED <<stock, valued, delivery, cases, proposal, fulfilled, conversion, charged, policy>>
  BY <1>3, <1>4 DEF AuthorizeReturn
<1>6. /\ d \in Deliveries /\ returns[r].of \in Deliveries \X (1..Versions)
      /\ returns[r].of = <<d, Version(d)>>
      /\ returns[r].received = 0 /\ returns[r].outcome = "none"
      /\ proposal[d].state = "none"
  <2>1. /\ returns[r].of \in Deliveries \X (1..Versions)
        /\ returns[r].received = 0 /\ returns[r].outcome = "none"
    BY <1>1, <1>5 DEF ReturnOK
  <2>2. returns[r].of[2] = Version(d) /\ proposal[d].state = "none"
    BY <1>5 DEF CurrentReceipt
  <2> QED BY <1>4, <2>1, <2>2
<1>7. /\ row \in ReturnRow /\ row.state = "authorized" /\ row.of = <<d, Version(d)>>
      /\ row.quantity = returns[r].quantity /\ row.received = 0 /\ row.outcome = "none"
  BY <1>2, <1>3, <1>6 DEF ReturnRow
<1>8. returns'[r] = row /\ \A q \in Returns \ {r} : returns'[q] = returns[q]
  BY <1>2, <1>5
<1>9. ReturnOK(r)'
  <2>1. Version(d)' = Version(d)
    BY <1>5 DEF Version
  <2>2. row.of \in Deliveries \X (1..Versions) /\ row.of[1] = d /\ row.of[2] = Version(d)
    BY <1>6, <1>7
  <2>3. row.received <= row.quantity
    BY <1>7 DEF ReturnRow, CustodyAssumption
  <2> QED BY <1>7, <1>8, <2>1, <2>2, <2>3 DEF ReturnOK
<1>10. \A e \in Deliveries : \A q \in Returns \ {r} :
         q \in AuthorizedReturns(e)' <=> q \in AuthorizedReturns(e)
  BY <1>5, <1>8 DEF AuthorizedReturns, ReturnsOf, Version
<1>11. /\ r \in AuthorizedReturns(d)'
       /\ \A e \in Deliveries : r \notin AuthorizedReturns(e)
       /\ \A e \in Deliveries \ {d} : r \notin AuthorizedReturns(e)'
  <2>1. Version(d)' = Version(d)
    BY <1>5 DEF Version
  <2> QED BY <1>5, <1>7, <1>8, <2>1 DEF AuthorizedReturns, ReturnsOf
<1>12. \A e \in Deliveries :
         /\ AuthorizedReturns(e) \in SUBSET Returns /\ AuthorizedReturns(e)' \in SUBSET Returns
  BY DEF AuthorizedReturns, ReturnsOf
<1>13. PICK f : f = [q \in Returns |-> returns[q].quantity]
  OBVIOUS
<1>14. /\ \A q \in Returns : f[q] \in Nat
       /\ f[r] = returns[r].quantity
       /\ \A e \in Deliveries : /\ AuthorizedQuantity(e) = Total(f, AuthorizedReturns(e))
                                /\ AuthorizedQuantity(e)' = Total(f, AuthorizedReturns(e)')
  <2>1. \A q \in Returns : f[q] \in Nat
    BY <1>2, <1>13 DEF ReturnRow, CustodyAssumption
  <2>2. f = [q \in Returns |-> returns'[q].quantity]
    BY <1>7, <1>8, <1>13
  <2> QED BY <1>13, <2>1, <2>2 DEF AuthorizedQuantity
<1>15. ASSUME NEW e \in Deliveries
       PROVE  /\ (AuthorizedQuantity(e) <= delivery[e].head.accepted)'
              /\ proposal[e].state # "none" => AuthorizedReturns(e)' = {}
  <2>1. PICK T \in SUBSET Returns : T = AuthorizedReturns(e)
    BY <1>12
  <2>2. PICK U \in SUBSET Returns : U = AuthorizedReturns(e)'
    BY <1>12
  <2>3. CASE e = d
    <3>1. r \notin T /\ r \in U /\ \A q \in Returns \ {r} : q \in T <=> q \in U
      BY <1>10, <1>11, <2>1, <2>2, <2>3
    <3>2. IsFiniteSet(Returns)
      BY DEF CustodyAssumption
    <3>3. Total(f, U) = Total(f, T) + f[r]
      BY <1>14, <3>1, <3>2, TotalJoin
    <3>4. AuthorizedQuantity(e)' = AuthorizedQuantity(e) + returns[r].quantity
      BY <1>14, <2>1, <2>2, <3>3
    <3> QED BY <1>5, <1>6, <2>3, <3>4
  <2>4. CASE e # d
    <3>1. T = U
      BY <1>10, <1>11, <2>1, <2>2, <2>4
    <3>2. AuthorizedQuantity(e)' = AuthorizedQuantity(e)
      BY <1>14, <2>1, <2>2, <3>1
    <3>3. AuthorizedQuantity(e) <= delivery[e].head.accepted
      BY <1>1 DEF ReturnsOK
    <3>4. proposal[e].state # "none" => AuthorizedReturns(e) = {}
      BY DEF CustodyInv, ChainsOK, ChainOK
    <3>5. AuthorizedReturns(e)' = AuthorizedReturns(e)
      BY <2>1, <2>2, <3>1
    <3> QED BY <1>5, <3>2, <3>3, <3>4, <3>5
  <2> QED BY <2>3, <2>4
<1>16. Counted(row, {"restock", "quarantine"}) = 0 /\ Counted(row, {"quarantine"}) = 0
  BY <1>7 DEF Counted
<1>17. /\ stock' \in [Locations -> Nat]
       /\ Everything(stock') = Everything(stock) + Counted(row, {"restock", "quarantine"})
       /\ stock'["quarantine"] = stock["quarantine"] + Counted(row, {"quarantine"})
       /\ stock'["in_transit"] = stock["in_transit"]
       /\ stock'["investigation"] = stock["investigation"]
       /\ valued' = valued + Counted(row, {"restock", "quarantine"}) - Counted(row, {"quarantine"})
  <2>1. stock \in [Locations -> Nat] /\ valued \in Int
    BY <1>1 DEF CustodyTypes
  <2>2. Everything(stock) \in Int /\ stock["quarantine"] \in Int
    BY <1>1, LocationsInt
  <2> QED BY <1>5, <1>16, <2>1, <2>2
<1> QED BY <1>5, <1>7, <1>9, <1>15, <1>17, ReturnStep

(* A receipt of what an authorization allows, of which some is put somewhere. *)
LEMMA ReceiveRow ==
  ASSUME CustodyAssumption, CustodyInv, NEW r \in Returns, NEW quantity \in 0..Picked,
         quantity <= returns[r].quantity, NEW outcome \in {"restock", "quarantine", "rejected"},
         Receive(r, quantity, outcome)
  PROVE  \E row \in ReturnRow :
           /\ returns' = [returns EXCEPT ![r] = row] /\ returns[r].state = "authorized"
           /\ row.received = quantity /\ row.outcome = outcome
           /\ ReturnOK(r)'
           /\ \A e \in Deliveries : /\ (AuthorizedQuantity(e) <= delivery[e].head.accepted)'
                                    /\ proposal[e].state # "none" => AuthorizedReturns(e)' = {}
<1>1. CustodyTypes /\ ReturnOK(r)
  BY DEF CustodyInv, ReturnsOK
<1>2. returns \in [Returns -> ReturnRow] /\ returns[r] \in ReturnRow
  BY <1>1 DEF CustodyTypes
<1>3. PICK row : row = [returns[r] EXCEPT !.state = "received", !.received = quantity,
                                          !.outcome = outcome]
  OBVIOUS
<1>4. /\ row \in ReturnRow /\ row.state = "received" /\ row.received = quantity
      /\ row.outcome = outcome /\ row.of = returns[r].of /\ row.quantity = returns[r].quantity
  BY <1>2, <1>3 DEF ReturnRow
<1>5. /\ returns' = [returns EXCEPT ![r] = row] /\ returns[r].state = "authorized"
      /\ UNCHANGED <<delivery, cases, proposal>>
  BY <1>3 DEF Receive
<1>6. ReturnOK(r)'
  <2>1. returns'[r] = row
    BY <1>2, <1>5
  <2>2. /\ returns[r].of \in Deliveries \X (1..Versions)
        /\ returns[r].of[2] = Version(returns[r].of[1])
    BY <1>1, <1>5 DEF ReturnOK
  <2>3. \A d \in Deliveries : Version(d)' = Version(d)
    BY <1>5 DEF Version
  <2>4. row.of[2] = Version(row.of[1])'
    BY <1>4, <2>2, <2>3
  <2> QED BY <1>4, <2>1, <2>2, <2>4 DEF ReturnOK
<1>7. \A e \in Deliveries : /\ (AuthorizedQuantity(e) <= delivery[e].head.accepted)'
                            /\ proposal[e].state # "none" => AuthorizedReturns(e)' = {}
  BY <1>4, <1>5, AuthorizedSame
<1> QED BY <1>4, <1>5, <1>6, <1>7

LEMMA RestockStep ==
  ASSUME CustodyAssumption, CustodyInv, NEW r \in Returns, NEW quantity \in 1..Picked,
         Restock(r, quantity)
  PROVE  CustodyInv'
<1>1. stock \in [Locations -> Nat] /\ valued \in Int /\ CustodyTypes
  BY DEF CustodyInv, CustodyTypes
<1>2. /\ quantity <= returns[r].quantity /\ Receive(r, quantity, "restock")
      /\ stock' = [stock EXCEPT !["available"] = @ + quantity]
      /\ valued' = valued + quantity
      /\ quantity \in 0..Picked /\ quantity \in Nat
  BY DEF Restock, CustodyAssumption
<1>3. PICK row \in ReturnRow :
         /\ returns' = [returns EXCEPT ![r] = row] /\ returns[r].state = "authorized"
         /\ row.received = quantity /\ row.outcome = "restock"
         /\ ReturnOK(r)'
         /\ \A e \in Deliveries : /\ (AuthorizedQuantity(e) <= delivery[e].head.accepted)'
                                  /\ proposal[e].state # "none" => AuthorizedReturns(e)' = {}
  BY <1>2, ReceiveRow
<1>4. Counted(row, {"restock", "quarantine"}) = quantity /\ Counted(row, {"quarantine"}) = 0
  BY <1>3 DEF Counted
<1>5. /\ stock' \in [Locations -> Nat] /\ stock'["staging"] = stock["staging"]
      /\ stock'["in_transit"] = stock["in_transit"]
      /\ stock'["investigation"] = stock["investigation"]
      /\ stock'["quarantine"] = stock["quarantine"]
      /\ stock'["available"] = stock["available"] + quantity
  BY <1>1, <1>2 DEF Locations
<1>6. /\ Everything(stock') = Everything(stock) + Counted(row, {"restock", "quarantine"})
      /\ stock'["quarantine"] = stock["quarantine"] + Counted(row, {"quarantine"})
      /\ valued' = valued + Counted(row, {"restock", "quarantine"}) - Counted(row, {"quarantine"})
  BY <1>1, <1>2, <1>4, <1>5, LocationsInt DEF Everything
<1>7. UNCHANGED <<delivery, cases, proposal, fulfilled, conversion, charged, policy>>
  BY <1>2 DEF Receive
<1> QED BY <1>3, <1>5, <1>6, <1>7, ReturnStep

LEMMA QuarantineStep ==
  ASSUME CustodyAssumption, CustodyInv, NEW r \in Returns, NEW quantity \in 1..Picked,
         Quarantine(r, quantity)
  PROVE  CustodyInv'
<1>1. stock \in [Locations -> Nat] /\ valued \in Int /\ CustodyTypes
  BY DEF CustodyInv, CustodyTypes
<1>2. /\ quantity <= returns[r].quantity /\ Receive(r, quantity, "quarantine")
      /\ stock' = [stock EXCEPT !["quarantine"] = @ + quantity]
      /\ valued' = valued
      /\ quantity \in 0..Picked /\ quantity \in Nat
  BY DEF Quarantine, CustodyAssumption
<1>3. PICK row \in ReturnRow :
         /\ returns' = [returns EXCEPT ![r] = row] /\ returns[r].state = "authorized"
         /\ row.received = quantity /\ row.outcome = "quarantine"
         /\ ReturnOK(r)'
         /\ \A e \in Deliveries : /\ (AuthorizedQuantity(e) <= delivery[e].head.accepted)'
                                  /\ proposal[e].state # "none" => AuthorizedReturns(e)' = {}
  BY <1>2, ReceiveRow
<1>4. Counted(row, {"restock", "quarantine"}) = quantity /\ Counted(row, {"quarantine"}) = quantity
  BY <1>3 DEF Counted
<1>5. /\ stock' \in [Locations -> Nat] /\ stock'["staging"] = stock["staging"]
      /\ stock'["in_transit"] = stock["in_transit"]
      /\ stock'["investigation"] = stock["investigation"]
      /\ stock'["quarantine"] = stock["quarantine"] + quantity
      /\ stock'["available"] = stock["available"]
  BY <1>1, <1>2 DEF Locations
<1>6. /\ Everything(stock') = Everything(stock) + Counted(row, {"restock", "quarantine"})
      /\ stock'["quarantine"] = stock["quarantine"] + Counted(row, {"quarantine"})
      /\ valued' = valued + Counted(row, {"restock", "quarantine"}) - Counted(row, {"quarantine"})
  BY <1>1, <1>2, <1>4, <1>5, LocationsInt DEF Everything
<1>7. UNCHANGED <<delivery, cases, proposal, fulfilled, conversion, charged, policy>>
  BY <1>2 DEF Receive
<1> QED BY <1>3, <1>5, <1>6, <1>7, ReturnStep

LEMMA RejectReturnStep ==
  ASSUME CustodyAssumption, CustodyInv, NEW r \in Returns, RejectReturn(r)
  PROVE  CustodyInv'
<1>1. stock \in [Locations -> Nat] /\ valued \in Int /\ CustodyTypes /\ returns[r] \in ReturnRow
  BY DEF CustodyInv, CustodyTypes
<1>2. /\ Receive(r, 0, "rejected") /\ stock' = stock /\ valued' = valued
      /\ 0 \in 0..Picked /\ 0 <= returns[r].quantity
  BY <1>1 DEF RejectReturn, CustodyAssumption, ReturnRow
<1>3. PICK row \in ReturnRow :
         /\ returns' = [returns EXCEPT ![r] = row] /\ returns[r].state = "authorized"
         /\ row.received = 0 /\ row.outcome = "rejected"
         /\ ReturnOK(r)'
         /\ \A e \in Deliveries : /\ (AuthorizedQuantity(e) <= delivery[e].head.accepted)'
                                  /\ proposal[e].state # "none" => AuthorizedReturns(e)' = {}
  BY <1>2, ReceiveRow
<1>4. Counted(row, {"restock", "quarantine"}) = 0 /\ Counted(row, {"quarantine"}) = 0
  BY <1>3 DEF Counted
<1>5. /\ stock' \in [Locations -> Nat]
      /\ stock'["in_transit"] = stock["in_transit"]
      /\ stock'["investigation"] = stock["investigation"]
      /\ Everything(stock') = Everything(stock) + Counted(row, {"restock", "quarantine"})
      /\ stock'["quarantine"] = stock["quarantine"] + Counted(row, {"quarantine"})
      /\ valued' = valued + Counted(row, {"restock", "quarantine"}) - Counted(row, {"quarantine"})
  BY <1>1, <1>2, <1>4, LocationsInt
<1>7. UNCHANGED <<delivery, cases, proposal, fulfilled, conversion, charged, policy>>
  BY <1>2 DEF Receive
<1> QED BY <1>3, <1>5, <1>7, ReturnStep

-----------------------------------------------------------------------------
LEMMA CustodyInvInit ==
  ASSUME CustodyAssumption, CustodyInit
  PROVE  CustodyInv
<1>1. /\ \A d \in Deliveries :
           /\ delivery[d] = [status |-> "none", quantity |-> 0, head |-> Undelivered,
                             invoice |-> "none"]
           /\ cases[d] = <<>> /\ proposal[d] = NoProposal
           /\ conversion[d] = [state |-> "none", amount |-> 0]
      /\ \A r \in Returns : returns[r] = [state |-> "none", of |-> <<>>, quantity |-> 0,
                                          received |-> 0, outcome |-> "none"]
      /\ charged = 0 /\ valued = Picked /\ fulfilled = 0
  BY DEF CustodyInit
<1>2. 0 \in 0..Picked /\ Picked \in Nat
  BY DEF CustodyAssumption
<1>3. Undelivered \in Outcomes
  BY <1>2 DEF Undelivered, Outcomes
<1>4. CustodyTypes
  <2>1. stock \in [Locations -> Nat]
    BY <1>2 DEF CustodyInit
  <2>2. delivery \in [Deliveries -> DeliveryRow]
    BY <1>2, <1>3 DEF CustodyInit, DeliveryRow
  <2>3. cases \in [Deliveries -> Seq([Kinds -> Case])]
    BY DEF CustodyInit
  <2>4. proposal \in [Deliveries -> ProposalRow]
    BY <1>3 DEF CustodyInit, NoProposal, ProposalRow
  <2>5. returns \in [Returns -> ReturnRow]
    BY <1>2 DEF CustodyInit, ReturnRow
  <2>6. conversion \in [Deliveries -> ConversionRow]
    BY <1>2 DEF CustodyInit, ConversionRow
  <2> QED BY <1>1, <1>2, <2>1, <2>2, <2>3, <2>4, <2>5, <2>6 DEF CustodyTypes
<1>5. ChainsOK
  <2>1. ASSUME NEW d \in Deliveries PROVE ChainOK(d)
    BY <1>1 DEF ChainOK, NoProposal
  <2>2. CasesOK(<<>>)
    BY DEF CasesOK
  <2> QED BY <1>1, <2>1, <2>2 DEF ChainsOK
<1>6. ReturnsOK
  <2>1. \A r \in Returns : ReturnOK(r)
    BY <1>1 DEF ReturnOK
  <2>2. ASSUME NEW d \in Deliveries PROVE AuthorizedQuantity(d) <= delivery[d].head.accepted
    <3>1. AuthorizedReturns(d) = {}
      BY <1>1 DEF AuthorizedReturns, ReturnsOf
    <3>2. AuthorizedQuantity(d) = 0
      BY <3>1, TotalZero DEF AuthorizedQuantity
    <3> QED BY <1>1, <3>2 DEF Undelivered
  <2> QED BY <2>1, <2>2 DEF ReturnsOK
<1>7. ConversionsOK
  <2>1. {d \in Deliveries : conversion[d].state \in {"approved", "consumed"}} = {}
    BY <1>1
  <2>2. Total([d \in Deliveries |-> conversion[d].amount], {}) = 0
    BY TotalZero
  <2>3. \A d \in Deliveries : conversion[d].state = "none"
    BY <1>1
  <2> QED BY <1>1, <2>1, <2>2, <2>3 DEF ConversionsOK, ConversionsSettle, ConversionOK
<1>8. QuantitiesOK
  <2>1. \A d \in Deliveries : /\ Carried(delivery[d], cases[d]) = 0
                              /\ OpenIn(cases[d], "short") = 0
                              /\ LostIn(cases[d]) = 0 /\ delivery[d].head.accepted = 0
    <3>1. \A k : OpenIn(<<>>, k) = 0
      BY TotalZero DEF OpenIn
    <3>2. LostIn(<<>>) = 0
      BY TotalZero DEF LostIn, GivenUp
    <3> QED BY <1>1, <3>1, <3>2 DEF Carried, Undelivered
  <2>2. VehiclesIn(delivery, cases) = 0
    <3>1. \A d \in Deliveries : [e \in Deliveries |-> Carried(delivery[e], cases[e])][d] = 0
      BY <2>1
    <3> QED BY <3>1, TotalZero DEF VehiclesIn
  <2>3. MissingIn(cases) = 0 /\ LostOf(cases) = 0 /\ AcceptedIn(delivery) = 0
    <3>1. \A d \in Deliveries : /\ [e \in Deliveries |-> OpenIn(cases[e], "short")][d] = 0
                                /\ [e \in Deliveries |-> LostIn(cases[e])][d] = 0
                                /\ [e \in Deliveries |-> delivery[e].head.accepted][d] = 0
      BY <2>1
    <3> QED BY <3>1, TotalZero DEF MissingIn, LostOf, AcceptedIn
  <2>4. /\ ReceivedIn(returns, {"restock", "quarantine"}) = 0
        /\ ReceivedIn(returns, {"quarantine"}) = 0
    <3>1. \A r \in Returns : [q \in Returns |-> returns[q].received][r] = 0
      BY <1>1
    <3> QED BY <3>1, TotalZero DEF ReceivedIn
  <2>5. /\ stock["staging"] = Picked /\ stock["in_transit"] = 0 /\ stock["investigation"] = 0
        /\ stock["quarantine"] = 0 /\ stock["available"] = 0
    BY DEF CustodyInit, Locations
  <2>6. Everything(stock) = Picked
    BY <1>2, <2>5 DEF Everything
  <2>7. QuantitiesOf(stock, valued, delivery, cases, returns)
    BY <1>1, <1>2, <2>3, <2>4, <2>5, <2>6 DEF QuantitiesOf
  <2>8. MatchesOf(stock, delivery, cases)
    BY <2>2, <2>3, <2>5 DEF MatchesOf
  <2> QED BY <2>7, <2>8, QuantitiesMean
<1> QED BY <1>4, <1>5, <1>6, <1>7, <1>8 DEF CustodyInv

(* One case per group of commands. *)
LEMMA CustodyInvStep ==
  ASSUME CustodyAssumption, CustodyInv, [CustodyNext]_custodyVars
  PROVE  CustodyInv'
<1>1. CASE \E d \in Deliveries, quantity \in 1..Picked : Dispatch(d, quantity)
  BY <1>1, DispatchStep
<1>2. CASE \E d \in Deliveries : \E v \in 1..Version(d) :
             \/ \E quantity \in 1..Picked : ReceiveReturnToWarehouse(d, v, quantity)
             \/ Recover(d, v) \/ WriteOff(d, v)
  BY <1>2, ReturnToWarehouseStep, RecoverStep, WriteOffStep
<1>3. CASE \E d \in Deliveries : \E o \in Partitions[delivery[d].quantity] : Confirm(d, o)
  BY <1>3, ConfirmStep
<1>4. CASE \E d \in Deliveries :
             \/ \E o \in Partitions[delivery[d].quantity] : RequestCorrection(d, o)
             \/ CheckCorrection(d) \/ FailCorrection(d)
  BY <1>4, CorrectionStep
<1>5. CASE \E d \in Deliveries : ConvertCod(d)
  BY <1>5, ConvertCodStep
<1>6. CASE \E d \in Deliveries, retry \in Deliveries : Retry(d, retry)
  BY <1>6, RetryStep
<1>7. CASE \E d \in Deliveries : DraftInvoice(d) \/ PostInvoice(d)
  BY <1>7, InvoiceStep
<1>8. CASE \E d \in Deliveries : PostCorrection(d)
  BY <1>8, PostCorrectionStep
<1>9. CASE \E r \in Returns :
             \/ \E d \in Deliveries, quantity \in 1..Picked : RequestReturn(r, d, quantity)
             \/ AuthorizeReturn(r) \/ RejectReturn(r)
             \/ \E quantity \in 1..Picked : Restock(r, quantity) \/ Quarantine(r, quantity)
  BY <1>9, RequestReturnStep, AuthorizeReturnStep, RejectReturnStep, RestockStep, QuarantineStep
<1>10. CASE UNCHANGED custodyVars
  <2>1. CustodyTypes'
    BY <1>10 DEF custodyVars, CustodyInv, CustodyTypes
  <2>2. \A d \in Deliveries : ChainOK(d)'
    BY <1>10, ChainKept DEF custodyVars, CustodyInv, ChainsOK
  <2> QED BY <1>10, <2>1, <2>2, PaperStep DEF custodyVars
<1> QED BY <1>1, <1>2, <1>3, <1>4, <1>5, <1>6, <1>7, <1>8, <1>9, <1>10 DEF CustodyNext

(* The inductive invariant: outcomes and corrections divide what was sent, only
   the last version of a chain has anything open, authorizations and conversions
   stay within what was accepted, and the quantities add up. *)
THEOREM CustodyInvHolds == CustodySpec => []CustodyInv
<1>1. CustodyInit => CustodyInv
  BY CustodyInvInit, CustodyAssumption
<1>2. CustodyInv /\ [CustodyNext]_custodyVars => CustodyInv'
  BY CustodyInvStep, CustodyAssumption
<1> QED BY <1>1, <1>2, PTL DEF CustodySpec

-----------------------------------------------------------------------------
(* What the invariant says of the whereabouts of the goods. *)
BroughtBack == {"restock", "quarantine"}

(* No customer returned more than all receipts say was accepted: each return is
   counted with the receipt it is of. *)
LEMMA ReturnedWithinAccepted ==
  ASSUME CustodyAssumption, CustodyInv
  PROVE  ReceivedIn(returns, BroughtBack) <= AcceptedIn(delivery)
<1> DEFINE R == {r \in Returns : returns[r].outcome \in BroughtBack}
           f == [r \in Returns |-> returns[r].received]
           q == [r \in Returns |-> returns[r].quantity]
           h == [d \in Deliveries |-> delivery[d].head.accepted]
           group == [r \in R |-> returns[r].of[1]]
<1>1. CustodyTypes /\ ReturnsOK /\ IsFiniteSet(Returns) /\ IsFiniteSet(Deliveries)
  BY DEF CustodyInv, CustodyAssumption
<1>2. /\ \A r \in Returns : f[r] \in Nat /\ q[r] \in Nat
      /\ \A d \in Deliveries : h[d] \in Nat
  BY <1>1 DEF CustodyTypes, ReturnRow, DeliveryRow, Outcomes, CustodyAssumption
<1>3. \A r \in Returns : f[r] <= q[r]
  BY <1>1 DEF ReturnsOK, ReturnOK
<1>4. \A r \in R : /\ returns[r].state = "received" /\ r \in Returns
                   /\ returns[r].of \in Deliveries \X (1..Versions)
                   /\ returns[r].of[2] = Version(returns[r].of[1])
  BY <1>1 DEF ReturnsOK, ReturnOK, BroughtBack
<1>5. \A r \in R : group[r] \in Deliveries
  BY <1>4
<1>6. R \in SUBSET Returns /\ IsFiniteSet(R)
  BY <1>1, FS_Subset
<1>7. ASSUME NEW d \in Deliveries
      PROVE  Total(f, {r \in R : group[r] = d}) <= h[d]
  <2> DEFINE G == {r \in R : group[r] = d}
             A == AuthorizedReturns(d)
  <2>1. G \in SUBSET A /\ A \in SUBSET Returns
    <3>1. \A r \in G : returns[r].of = <<d, Version(d)>> /\ r \in Returns /\ returns[r].state = "received"
      BY <1>4
    <3> QED BY <3>1 DEF AuthorizedReturns, ReturnsOf
  <2>2. AuthorizedQuantity(d) = Total(q, A) /\ AuthorizedQuantity(d) <= h[d]
    BY <1>1 DEF AuthorizedQuantity, ReturnsOK
  <2> HIDE DEF f, q, h, G, A
  <2>3. IsFiniteSet(G) /\ IsFiniteSet(A)
    BY <1>1, <2>1, FS_Subset
  <2>4. Total(f, G) <= Total(q, G)
    <3>1. \A r \in G : f[r] \in Nat /\ q[r] \in Nat /\ f[r] <= q[r]
      BY <1>2, <1>3, <2>1
    <3> QED BY <2>3, <3>1, TotalMonotone
  <2>5. Total(q, G) <= Total(q, A)
    <3>1. \A r \in A : q[r] \in Nat
      BY <1>2, <2>1
    <3> QED BY <2>1, <2>3, <3>1, TotalSubset
  <2>6. Total(f, G) \in Nat /\ Total(q, G) \in Nat /\ Total(q, A) \in Nat
    <3>1. (\A r \in G : f[r] \in Nat /\ q[r] \in Nat) /\ \A r \in A : q[r] \in Nat
      BY <1>2, <2>1
    <3> QED BY <2>3, <3>1, TotalType
  <2>7. Total(f, G) <= h[d]
    BY <1>2, <2>2, <2>4, <2>5, <2>6
  <2> QED BY <2>7 DEF G
<1>8. ReceivedIn(returns, BroughtBack) = Total(f, R) /\ AcceptedIn(delivery) = Total(h, Deliveries)
  BY DEF ReceivedIn, AcceptedIn
<1>9. \A r \in R : f[r] \in Nat
  BY <1>2, <1>6
<1> HIDE DEF f, q, h, R, group
<1>10. Total(f, R) <= Total(h, Deliveries)
  BY <1>1, <1>2, <1>5, <1>6, <1>7, <1>9, TotalGrouped
<1> QED BY <1>8, <1>10

LEMMA WhereaboutsCount ==
  ASSUME CustodyAssumption, CustodyInv
  PROVE  /\ AtCustomer = AcceptedIn(delivery) - ReceivedIn(returns, BroughtBack)
         /\ OnHand = Everything(stock)
         /\ AtCustomer \in 0..Picked /\ Lost \in 0..Picked /\ OnHand \in 0..Picked
         /\ \A l \in Locations : stock[l] \in 0..Picked
         /\ OnHand + AtCustomer + Lost = Picked
         /\ valued \in 0..Picked
<1>1. CustodyTypes /\ UnitsBalance
  BY DEF CustodyInv, QuantitiesOK
<1>2. /\ AtCustomer = AcceptedIn(delivery) - ReceivedIn(returns, BroughtBack)
      /\ Lost = LostOf(cases)
      /\ OnHand = Everything(stock)
      /\ Received({"quarantine"}) = ReceivedIn(returns, {"quarantine"})
  BY DEF AtCustomer, AcceptedIn, Received, ReceivedIn, BroughtBack, Lost, LostOf, WrittenOff, LostIn,
         GivenUp, Version, OnHand, Everything
<1>3. /\ LostOf(cases) \in Nat /\ AcceptedIn(delivery) \in Nat
      /\ ReceivedIn(returns, BroughtBack) \in Nat /\ ReceivedIn(returns, {"quarantine"}) \in Nat
  BY <1>1, KindsRows, SoundTotals, ReceivedType DEF CustodyInv, CustodyTypes
<1>4. AtCustomer \in Nat /\ Lost \in Nat
  BY <1>2, <1>3, ReturnedWithinAccepted
<1>5. /\ stock["staging"] \in Nat /\ stock["in_transit"] \in Nat /\ stock["investigation"] \in Nat
      /\ stock["quarantine"] \in Nat /\ stock["available"] \in Nat
  BY <1>1, LocationsInt
<1>6. /\ OnHand = stock["staging"] + stock["in_transit"] + stock["investigation"]
                  + stock["quarantine"] + stock["available"]
      /\ OnHand \in Nat
  BY <1>5 DEF OnHand
<1>7. OnHand + AtCustomer + Lost = Picked /\ Picked \in Nat
  BY <1>1 DEF UnitsBalance, CustodyAssumption
<1>8. AtCustomer \in 0..Picked /\ Lost \in 0..Picked /\ OnHand \in 0..Picked
  BY <1>4, <1>6, <1>7
<1>9. \A l \in Locations : stock[l] \in 0..Picked
  <2>1. /\ stock["staging"] \in 0..Picked /\ stock["in_transit"] \in 0..Picked
        /\ stock["investigation"] \in 0..Picked
        /\ stock["quarantine"] \in 0..Picked /\ stock["available"] \in 0..Picked
    BY <1>5, <1>6, <1>7, <1>8
  <2> QED BY <2>1 DEF Locations
<1>10. valued \in 0..Picked
  <2>1. /\ valued = OnHand - ReceivedIn(returns, {"quarantine"})
        /\ ReceivedIn(returns, {"quarantine"}) <= stock["quarantine"]
    BY <1>1, <1>2 DEF UnitsBalance, ValuationMatches
  <2> QED BY <1>3, <1>5, <1>6, <1>7, <1>8, <2>1
<1> QED BY <1>2, <1>7, <1>8, <1>9, <1>10

-----------------------------------------------------------------------------
(* Where a step takes the goods. *)
KeepsGoods ==
  /\ stock'["staging"] <= stock["staging"]
  /\ stock'["quarantine"] >= stock["quarantine"] /\ stock'["available"] >= stock["available"]
  /\ Lost' >= Lost
  /\ stock'["available"] > stock["available"] =>
       AtCustomer - AtCustomer' >= stock'["available"] - stock["available"]

(* Of what leaves the house and does not come from a customer, the rest is lost. *)
LEMMA RestIsLost ==
  ASSUME CustodyAssumption, CustodyInv, CustodyInv',
         AtCustomer \in Int, AtCustomer' \in Int, NEW x \in Int, NEW y \in Int,
         AtCustomer' = AtCustomer + x, OnHand' = OnHand - y,
         x <= y,
         stock'["staging"] <= stock["staging"],
         stock'["quarantine"] >= stock["quarantine"], stock'["available"] >= stock["available"],
         stock'["available"] - stock["available"] <= IF x < 0 THEN 0 - x ELSE 0
  PROVE  KeepsGoods
<1>1. OnHand + AtCustomer + Lost = Picked /\ OnHand \in Int /\ Lost \in Int /\ Picked \in Int
  BY WhereaboutsCount DEF CustodyAssumption
<1>2. OnHand' + AtCustomer' + Lost' = Picked /\ OnHand' \in Int /\ Lost' \in Int
  <2>1. CustodyTypes' /\ UnitsBalance'
    BY DEF CustodyInv, QuantitiesOK
  <2>2. OnHand' \in Int
    <3>1. \A l \in Locations : stock'[l] \in Nat
      BY <2>1 DEF CustodyTypes
    <3> QED BY <3>1 DEF OnHand, Locations
  <2>3. Lost' = LostOf(cases') /\ LostOf(cases') \in Int
    <3>1. Sound(delivery', cases')
      BY <2>1 DEF CustodyInv, CustodyTypes, ChainsOK, Sound, Row
    <3>2. LostOf(cases') \in Nat
      BY <3>1, SoundTotals
    <3>3. Lost' = LostOf(cases')
      BY DEF Lost, LostOf, WrittenOff, LostIn, GivenUp, Version
    <3> QED BY <3>2, <3>3
  <2> QED BY <2>1, <2>2, <2>3 DEF UnitsBalance
<1>3. /\ stock["available"] \in Int /\ stock'["available"] \in Int
  BY DEF CustodyInv, CustodyTypes, Locations
<1>4. Lost' >= Lost
  <2>1. PICK a \in Int, b \in Int, c \in Int : a = AtCustomer /\ b = OnHand /\ c = Lost
    BY <1>1
  <2>2. PICK l \in Int : l = Lost'
    BY <1>2
  <2>3. b + a + c = (b - y) + (a + x) + l
    BY <1>1, <1>2, <2>1, <2>2
  <2>4. l >= c
    BY <2>3
  <2> QED BY <2>1, <2>2, <2>4
<1>5. stock'["available"] > stock["available"] =>
        AtCustomer - AtCustomer' >= stock'["available"] - stock["available"]
  BY <1>3
<1> QED BY <1>4, <1>5 DEF KeepsGoods

LEMMA CustomerSame ==
  ASSUME \A d \in Deliveries : delivery'[d].head.accepted = delivery[d].head.accepted,
         \A r \in Returns : /\ returns'[r].received = returns[r].received
                            /\ returns'[r].outcome \in BroughtBack <=>
                                 returns[r].outcome \in BroughtBack
  PROVE  AtCustomer' = AtCustomer
<1>1. [d \in Deliveries |-> delivery'[d].head.accepted] = [d \in Deliveries |-> delivery[d].head.accepted]
  OBVIOUS
<1>2. Received(BroughtBack)' = Received(BroughtBack)
  <2>1. /\ [r \in Returns |-> returns'[r].received] = [r \in Returns |-> returns[r].received]
        /\ {r \in Returns : returns'[r].outcome \in BroughtBack}
             = {r \in Returns : returns[r].outcome \in BroughtBack}
    OBVIOUS
  <2> QED BY <2>1 DEF Received
<1> QED BY <1>1, <1>2 DEF AtCustomer, BroughtBack

LEMMA CustomerDelivered ==
  ASSUME CustodyAssumption, CustodyInv, CustodyInv', NEW d \in Deliveries, UNCHANGED returns,
         \A e \in Deliveries \ {d} : delivery'[e] = delivery[e]
  PROVE  AtCustomer' = AtCustomer + (delivery'[d].head.accepted - delivery[d].head.accepted)
<1> DEFINE f == [e \in Deliveries |-> delivery[e].head.accepted]
           g == [e \in Deliveries |-> delivery'[e].head.accepted]
<1>1. \A e \in Deliveries : f[e] \in Nat /\ g[e] \in Nat
  <2>1. delivery \in [Deliveries -> DeliveryRow] /\ delivery' \in [Deliveries -> DeliveryRow]
    BY DEF CustodyInv, CustodyTypes
  <2>2. \A row \in DeliveryRow : row.head.accepted \in Nat
    BY DEF DeliveryRow, Outcomes, CustodyAssumption
  <2> QED BY <2>1, <2>2
<1>2. \A e \in Deliveries \ {d} : g[e] = f[e]
  OBVIOUS
<1>3. Received(BroughtBack)' = Received(BroughtBack) /\ Received(BroughtBack) \in Nat
  <2>1. returns \in [Returns -> ReturnRow]
    BY DEF CustodyInv, CustodyTypes
  <2>2. \A outcomes : ReceivedIn(returns, outcomes) \in Nat
    BY <2>1, ReceivedType
  <2>3. Received(BroughtBack) \in Nat
    BY <2>2 DEF Received, ReceivedIn
  <2> QED BY <2>3 DEF Received
<1>4. /\ AtCustomer = Total(f, Deliveries) - Received(BroughtBack)
      /\ AtCustomer' = Total(g, Deliveries) - Received(BroughtBack)'
  BY DEF AtCustomer, BroughtBack
<1>5. f[d] = delivery[d].head.accepted /\ g[d] = delivery'[d].head.accepted
  OBVIOUS
<1>6. IsFiniteSet(Deliveries)
  BY DEF CustodyAssumption
<1> HIDE DEF f, g
<1>7. Total(g, Deliveries) = Total(f, Deliveries) - f[d] + g[d] /\ Total(f, Deliveries) \in Nat
  BY <1>1, <1>2, <1>6, TotalChange, TotalType
<1>8. f[d] \in Nat /\ g[d] \in Nat
  BY <1>1
<1>9. AtCustomer' = AtCustomer + (g[d] - f[d])
  BY <1>3, <1>4, <1>7, <1>8
<1> QED BY <1>5, <1>9

LEMMA CustomerReturned ==
  ASSUME CustodyAssumption, CustodyInv, CustodyInv', NEW r \in Returns, NEW row \in ReturnRow,
         returns' = [returns EXCEPT ![r] = row], returns[r].state # "received",
         row.outcome \in BroughtBack, UNCHANGED delivery
  PROVE  AtCustomer' = AtCustomer + (0 - row.received)
<1>1. returns \in [Returns -> ReturnRow] /\ returns[r].received = 0
  BY DEF CustodyInv, CustodyTypes, ReturnsOK, ReturnOK
<1>2. PICK Q \in [Returns -> ReturnRow] : Q = [returns EXCEPT ![r] = row]
  BY <1>1
<1>3. Q[r] = row /\ \A q \in Returns \ {r} : Q[q] = returns[q]
  BY <1>1, <1>2
<1>4. CustodyAssumption
  OBVIOUS
<1>5. PICK outcomes : outcomes = BroughtBack
  OBVIOUS
<1>6. ReceivedIn(Q, outcomes)
        = ReceivedIn(returns, outcomes) - Counted(returns[r], outcomes) + Counted(Q[r], outcomes)
  BY <1>1, <1>3, <1>4, OneReturn
<1>7. Counted(returns[r], outcomes) = 0 /\ Counted(Q[r], outcomes) = row.received
  BY <1>1, <1>3, <1>5 DEF Counted
<1>8. ReceivedIn(returns, outcomes) \in Nat /\ row.received \in Nat
  BY <1>1, ReceivedType, SMTT(30) DEF ReturnRow, CustodyAssumption
<1>9. PICK a \in Int : a = AcceptedIn(delivery)
  BY KindsRows, SoundTotals DEF CustodyInv
<1>10. /\ AtCustomer = a - ReceivedIn(returns, outcomes)
       /\ AtCustomer' = a - ReceivedIn(Q, outcomes)
  BY <1>2, <1>5, <1>9 DEF AtCustomer, AcceptedIn, Received, ReceivedIn, BroughtBack
<1> QED BY <1>6, <1>7, <1>8, <1>10

(* A step at which customers get and return nothing. *)
LEMMA InHouse ==
  ASSUME CustodyAssumption, CustodyInv, CustodyInv',
         \A d \in Deliveries : delivery'[d].head = delivery[d].head,
         \A r \in Returns : /\ returns'[r].received = returns[r].received
                            /\ returns'[r].outcome \in BroughtBack <=>
                                 returns[r].outcome \in BroughtBack,
         NEW y \in Nat, Everything(stock') = Everything(stock) - y,
         stock'["staging"] <= stock["staging"],
         stock'["quarantine"] >= stock["quarantine"], stock'["available"] = stock["available"]
  PROVE  KeepsGoods
<1>1. AtCustomer' = AtCustomer
  BY CustomerSame
<1>2. AtCustomer \in Int /\ OnHand = Everything(stock)
  BY WhereaboutsCount DEF CustodyAssumption
<1>3. OnHand' = Everything(stock')
  BY DEF OnHand, Everything
<1>4. /\ AtCustomer' \in Int /\ AtCustomer' = AtCustomer + 0 /\ OnHand' = OnHand - y
      /\ 0 \in Int /\ y \in Int /\ 0 <= y
  BY <1>1, <1>2, <1>3
<1>5. stock["available"] \in Int
  BY LocationsInt DEF CustodyInv
<1>6. /\ stock'["available"] >= stock["available"]
      /\ stock'["available"] - stock["available"] <= IF 0 < 0 THEN 0 - 0 ELSE 0
  BY <1>5
<1> QED BY <1>2, <1>4, <1>6, RestIsLost

LEMMA PaperKeeps ==
  ASSUME CustodyAssumption, CustodyInv, CustodyInv', UNCHANGED stock,
         \A d \in Deliveries : delivery'[d].head = delivery[d].head,
         \A r \in Returns : /\ returns'[r].received = returns[r].received
                            /\ returns'[r].outcome \in BroughtBack <=>
                                 returns[r].outcome \in BroughtBack
  PROVE  KeepsGoods
<1>1. /\ stock["staging"] \in Int /\ stock["quarantine"] \in Int /\ Everything(stock) \in Int
  BY LocationsInt DEF CustodyInv
<1>2. Everything(stock') = Everything(stock) - 0 /\ 0 \in Nat
  BY <1>1
<1> QED BY <1>1, <1>2, InHouse

LEMMA DispatchKeeps ==
  ASSUME CustodyAssumption, CustodyInv, CustodyInv', NEW d \in Deliveries,
         NEW quantity \in 1..Picked, Dispatch(d, quantity)
  PROVE  KeepsGoods
<1>1. /\ stock' = Moved("staging", "in_transit", quantity)
      /\ Send(d, quantity) /\ UNCHANGED returns
  BY DEF Dispatch
<1>2. stock \in [Locations -> Nat] /\ CustodyTypes
  BY DEF CustodyInv, CustodyTypes
<1>3. /\ stock'["staging"] = stock["staging"] - quantity
      /\ stock'["in_transit"] = stock["in_transit"] + quantity
      /\ stock'["investigation"] = stock["investigation"]
      /\ stock'["quarantine"] = stock["quarantine"] /\ stock'["available"] = stock["available"]
  BY <1>1, <1>2 DEF Moved, Locations
<1>4. quantity \in Nat
  BY DEF CustodyAssumption
<1>5. Everything(stock') = Everything(stock) - 0 /\ 0 \in Nat
  BY <1>2, <1>3, <1>4, LocationsInt DEF Everything
<1>6. stock'["staging"] <= stock["staging"] /\ stock'["quarantine"] >= stock["quarantine"]
  BY <1>2, <1>3, <1>4, LocationsInt
<1>7. \A e \in Deliveries : delivery'[e].head = delivery[e].head
  <2>1. quantity \in 0..Picked
    BY DEF CustodyAssumption
  <2>2. /\ \A e \in Deliveries \ {d} : delivery'[e] = delivery[e]
        /\ delivery'[d].head = delivery[d].head
    BY <1>1, <1>2, <2>1, SendRow
  <2> QED BY <2>2
<1> QED BY <1>1, <1>3, <1>5, <1>6, <1>7, InHouse

LEMMA ExceptionKeeps ==
  ASSUME CustodyAssumption, CustodyInv, CustodyInv', NEW d \in Deliveries, NEW v \in 1..Version(d),
         \/ \E quantity \in 1..Picked : ReceiveReturnToWarehouse(d, v, quantity)
         \/ Recover(d, v) \/ WriteOff(d, v)
  PROVE  KeepsGoods
<1>1. stock \in [Locations -> Nat] /\ CustodyTypes
  BY DEF CustodyInv, CustodyTypes
<1>2. PICK quantity \in Nat \ {0} :
         \/ stock' = Moved("in_transit", "quarantine", quantity)
         \/ stock' = Moved("investigation", "quarantine", quantity)
         \/ stock' = [stock EXCEPT !["investigation"] = @ - quantity]
  <2>1. OpenCase(d, v, "short") \in Nat
    <3>1. cases[d] \in Seq([Kinds -> Case]) /\ v \in 1..Len(cases[d])
      BY <1>1 DEF CustodyTypes, Version
    <3>2. cases[d][v]["short"] \in Case
      BY <3>1 DEF Kinds
    <3> QED BY <3>2 DEF OpenCase, Case, CustodyAssumption
  <2>2. CASE \E quantity \in 1..Picked : ReceiveReturnToWarehouse(d, v, quantity)
    BY <2>2 DEF ReceiveReturnToWarehouse, CustodyAssumption
  <2>3. CASE Recover(d, v)
    <3>1. PICK n \in Nat : n = OpenCase(d, v, "short")
      BY <2>1
    <3>2. n > 0 /\ stock' = Moved("investigation", "quarantine", n)
      BY <2>3, <3>1 DEF Recover
    <3>3. n \in Nat \ {0}
      BY <3>2
    <3> QED BY <3>2, <3>3
  <2>4. CASE WriteOff(d, v)
    <3>1. PICK n \in Nat : n = OpenCase(d, v, "short")
      BY <2>1
    <3>2. n > 0 /\ stock' = [stock EXCEPT !["investigation"] = @ - n]
      BY <2>4, <3>1 DEF WriteOff
    <3>3. n \in Nat \ {0}
      BY <3>2
    <3> QED BY <3>2, <3>3
  <2> QED BY <2>2, <2>3, <2>4
<1>3. UNCHANGED <<delivery, returns>>
  BY DEF ReceiveReturnToWarehouse, Recover, WriteOff
<1>4. PICK y \in Nat : /\ Everything(stock') = Everything(stock) - y
                       /\ stock'["staging"] = stock["staging"]
                       /\ stock'["quarantine"] >= stock["quarantine"]
                       /\ stock'["available"] = stock["available"]
  <2>1. CASE stock' = Moved("in_transit", "quarantine", quantity)
    <3>1. /\ stock'["staging"] = stock["staging"]
          /\ stock'["in_transit"] = stock["in_transit"] - quantity
          /\ stock'["investigation"] = stock["investigation"]
          /\ stock'["quarantine"] = stock["quarantine"] + quantity
          /\ stock'["available"] = stock["available"]
      BY <1>1, <2>1 DEF Moved, Locations
    <3>2. Everything(stock') = Everything(stock) - 0 /\ 0 \in Nat
      BY <1>1, <3>1, LocationsInt DEF Everything
    <3>3. stock'["quarantine"] >= stock["quarantine"]
      BY <1>1, <3>1, LocationsInt
    <3> QED BY <3>1, <3>2, <3>3
  <2>2. CASE stock' = Moved("investigation", "quarantine", quantity)
    <3>1. /\ stock'["staging"] = stock["staging"]
          /\ stock'["in_transit"] = stock["in_transit"]
          /\ stock'["investigation"] = stock["investigation"] - quantity
          /\ stock'["quarantine"] = stock["quarantine"] + quantity
          /\ stock'["available"] = stock["available"]
      BY <1>1, <2>2 DEF Moved, Locations
    <3>2. Everything(stock') = Everything(stock) - 0 /\ 0 \in Nat
      BY <1>1, <3>1, LocationsInt DEF Everything
    <3>3. stock'["quarantine"] >= stock["quarantine"]
      BY <1>1, <3>1, LocationsInt
    <3> QED BY <3>1, <3>2, <3>3
  <2>3. CASE stock' = [stock EXCEPT !["investigation"] = @ - quantity]
    <3>1. /\ stock'["staging"] = stock["staging"]
          /\ stock'["in_transit"] = stock["in_transit"]
          /\ stock'["investigation"] = stock["investigation"] - quantity
          /\ stock'["quarantine"] = stock["quarantine"]
          /\ stock'["available"] = stock["available"]
      BY <1>1, <2>3 DEF Locations
    <3>2. Everything(stock') = Everything(stock) - quantity
      BY <1>1, <3>1, LocationsInt DEF Everything
    <3>3. stock'["quarantine"] >= stock["quarantine"]
      BY <1>1, <3>1, LocationsInt
    <3> QED BY <3>1, <3>2, <3>3
  <2> QED BY <1>2, <2>1, <2>2, <2>3
<1>5. stock'["staging"] <= stock["staging"]
  BY <1>1, <1>4, LocationsInt
<1>6. /\ \A e \in Deliveries : delivery'[e].head = delivery[e].head
      /\ \A r \in Returns : /\ returns'[r].received = returns[r].received
                            /\ returns'[r].outcome \in BroughtBack <=>
                                 returns[r].outcome \in BroughtBack
  BY <1>3
<1> QED BY <1>4, <1>5, <1>6, InHouse

LEMMA RetryKeeps ==
  ASSUME CustodyAssumption, CustodyInv, CustodyInv', NEW d \in Deliveries, NEW retry \in Deliveries,
         Retry(d, retry)
  PROVE  KeepsGoods
<1>1. /\ UNCHANGED <<stock, returns>>
      /\ delivery' = [delivery EXCEPT ![retry].status = "dispatched",
                                      ![retry].quantity = Open(d, "still")]
  BY DEF Retry, Send
<1>2. PICK n : n = Open(d, "still")
  OBVIOUS
<1>3. PICK row : row = [[delivery[retry] EXCEPT !.status = "dispatched"] EXCEPT !.quantity = n]
  OBVIOUS
<1>4. delivery \in [Deliveries -> DeliveryRow]
  BY DEF CustodyInv, CustodyTypes
<1>5. delivery' = [delivery EXCEPT ![retry] = row]
  BY <1>1, <1>2, <1>3
<1>6. row.head = delivery[retry].head
  <2>1. delivery[retry] \in DeliveryRow
    BY <1>4
  <2> QED BY <1>3, <2>1 DEF DeliveryRow
<1>7. \A e \in Deliveries : delivery'[e].head = delivery[e].head
  BY <1>4, <1>5, <1>6
<1> QED BY <1>1, <1>7, PaperKeeps

(* What a customer accepts, or no longer has by a correction, leaves the house
   or is back in it. *)
LEMMA DeliveredKeeps ==
  ASSUME CustodyAssumption, CustodyInv, CustodyInv', NEW d \in Deliveries, UNCHANGED returns,
         \A e \in Deliveries \ {d} : delivery'[e] = delivery[e],
         NEW x \in Int, delivery'[d].head.accepted - delivery[d].head.accepted = x,
         Everything(stock') = Everything(stock) - x,
         stock'["staging"] = stock["staging"],
         stock'["quarantine"] = stock["quarantine"], stock'["available"] = stock["available"]
  PROVE  KeepsGoods
<1>1. AtCustomer' = AtCustomer + x
  BY CustomerDelivered
<1>2. AtCustomer \in Int /\ OnHand = Everything(stock)
  BY WhereaboutsCount DEF CustodyAssumption
<1>3. OnHand' = Everything(stock')
  BY DEF OnHand, Everything
<1>4. AtCustomer' \in Int /\ OnHand' = OnHand - x /\ x <= x
  BY <1>1, <1>2, <1>3
<1>5. stock["available"] \in Int /\ stock["staging"] \in Int /\ stock["quarantine"] \in Int
  BY LocationsInt DEF CustodyInv
<1>6. /\ stock'["available"] >= stock["available"] /\ stock'["staging"] <= stock["staging"]
      /\ stock'["quarantine"] >= stock["quarantine"]
      /\ stock'["available"] - stock["available"] <= IF x < 0 THEN 0 - x ELSE 0
  BY <1>5
<1> QED BY <1>1, <1>2, <1>4, <1>6, RestIsLost

LEMMA ConfirmKeeps ==
  ASSUME CustodyAssumption, CustodyInv, CustodyInv', NEW d \in Deliveries,
         NEW o \in Partitions[delivery[d].quantity], Confirm(d, o)
  PROVE  KeepsGoods
<1>1. /\ stock \in [Locations -> Nat] /\ CustodyTypes
      /\ delivery \in [Deliveries -> DeliveryRow] /\ delivery[d] \in DeliveryRow
      /\ delivery[d].head = Undelivered
  <2>1. delivery[d].status = "dispatched" /\ ChainOK(d)
    BY DEF Confirm, CustodyInv, ChainsOK
  <2>2. delivery[d].head = Undelivered
    BY <2>1 DEF ChainOK
  <2> QED BY <2>2 DEF CustodyInv, CustodyTypes
<1>2. o \in Outcomes
  <2>1. delivery[d].quantity \in 0..Picked
    BY <1>1 DEF DeliveryRow
  <2> QED BY <2>1 DEF Partitions
<1>3. o.accepted \in Nat /\ o.short \in Nat
  BY <1>2 DEF Outcomes, CustodyAssumption
<1>4. stock' = Parted(o) /\ UNCHANGED returns
  BY DEF Confirm
<1>5. /\ stock'["staging"] = stock["staging"]
      /\ stock'["in_transit"] = stock["in_transit"] - o.accepted - o.short
      /\ stock'["investigation"] = stock["investigation"] + o.short
      /\ stock'["quarantine"] = stock["quarantine"] /\ stock'["available"] = stock["available"]
  BY <1>1, <1>4 DEF Parted, Locations
<1>6. Everything(stock') = Everything(stock) - o.accepted
  BY <1>1, <1>3, <1>5, LocationsInt DEF Everything
<1>7. /\ \A e \in Deliveries \ {d} : delivery'[e] = delivery[e]
      /\ delivery'[d].head = o
  <2>1. PICK row : row = [[[delivery[d] EXCEPT !.status = "confirmed"] EXCEPT !.head = o]
                            EXCEPT !.invoice = Invoiced(o)]
    OBVIOUS
  <2>2. delivery' = [delivery EXCEPT ![d] = row]
    BY <2>1 DEF Confirm
  <2>3. row.head = o
    <3>1. Invoiced(o) \in {"none", "awaited", "draft", "posted"}
      BY DEF Invoiced
    <3>2. [delivery[d] EXCEPT !.status = "confirmed"] \in DeliveryRow
      BY <1>1 DEF DeliveryRow
    <3>3. [[delivery[d] EXCEPT !.status = "confirmed"] EXCEPT !.head = o] \in DeliveryRow
      BY <1>2, <3>2 DEF DeliveryRow
    <3> QED BY <1>1, <2>1, <3>2, <3>3 DEF DeliveryRow
  <2> QED BY <1>1, <2>2, <2>3
<1>8. delivery'[d].head.accepted - delivery[d].head.accepted = o.accepted
  BY <1>1, <1>3, <1>7 DEF Undelivered
<1>9. o.accepted \in Int
  BY <1>3
<1> QED BY <1>4, <1>5, <1>6, <1>7, <1>8, <1>9, DeliveredKeeps

LEMMA PostCorrectionKeeps ==
  ASSUME CustodyAssumption, CustodyInv, CustodyInv', NEW d \in Deliveries, PostCorrection(d)
  PROVE  KeepsGoods
<1>1. /\ stock \in [Locations -> Nat] /\ CustodyTypes
      /\ delivery \in [Deliveries -> DeliveryRow] /\ delivery[d] \in DeliveryRow
      /\ proposal \in [Deliveries -> ProposalRow]
  BY DEF CustodyInv, CustodyTypes
<1>2. PICK o : o = proposal[d].outcome
  OBVIOUS
<1>3. PICK h : h = delivery[d].head
  OBVIOUS
<1>4. PICK m : m = RecalledShort(d)
  OBVIOUS
<1>5. o \in Outcomes /\ h \in Outcomes
  BY <1>1, <1>2, <1>3 DEF ProposalRow, DeliveryRow
<1>6. o.accepted \in Nat /\ o.short \in Nat /\ h.accepted \in Nat
  BY <1>5 DEF Outcomes, CustodyAssumption
<1>7. m \in Nat
  <2>1. ChainOK(d) /\ proposal[d].state = "checked"
    BY DEF CustodyInv, ChainsOK, PostCorrection
  <2>2. m = h.short
    BY <1>3, <1>4, <2>1 DEF ChainOK, RecalledShort, Kinds
  <2> QED BY <1>5, <2>2 DEF Outcomes, CustodyAssumption
<1>8. stock' = [stock EXCEPT
         !["in_transit"] = @ + h.accepted + m - o.accepted - o.short,
         !["investigation"] = @ - m + o.short]
  BY <1>2, <1>3, <1>4 DEF PostCorrection, Reposted
<1>9. /\ stock'["staging"] = stock["staging"]
      /\ stock'["in_transit"] = stock["in_transit"] + h.accepted + m - o.accepted - o.short
      /\ stock'["investigation"] = stock["investigation"] - m + o.short
      /\ stock'["quarantine"] = stock["quarantine"] /\ stock'["available"] = stock["available"]
  BY <1>1, <1>8 DEF Locations
<1>10. PICK x \in Int : x = o.accepted - h.accepted
  BY <1>6
<1>11. Everything(stock') = Everything(stock) - x
  <2>1. PICK a \in Nat, b \in Nat, c \in Nat : a = o.accepted /\ b = o.short /\ c = h.accepted
    BY <1>6
  <2>2. /\ stock'["in_transit"] = stock["in_transit"] + c + m - a - b
        /\ stock'["investigation"] = stock["investigation"] - m + b
        /\ x = a - c
    BY <1>9, <1>10, <2>1
  <2> QED BY <1>1, <1>7, <1>9, <2>2, LocationsInt DEF Everything
<1>12. /\ \A e \in Deliveries \ {d} : delivery'[e] = delivery[e]
       /\ delivery'[d].head = o
  <2>1. PICK row : row = [[delivery[d] EXCEPT !.head = o] EXCEPT !.invoice = Invoiced(o)]
    OBVIOUS
  <2>2. delivery' = [delivery EXCEPT ![d] = row]
    BY <1>2, <2>1 DEF PostCorrection
  <2>3. row.head = o
    <3>1. [delivery[d] EXCEPT !.head = o] \in DeliveryRow
      BY <1>1, <1>5 DEF DeliveryRow
    <3> QED BY <1>1, <2>1, <3>1 DEF DeliveryRow
  <2> QED BY <1>1, <2>2, <2>3
<1>13. delivery'[d].head.accepted - delivery[d].head.accepted = x
  BY <1>3, <1>10, <1>12
<1>14. UNCHANGED returns
  BY DEF PostCorrection
<1> QED BY <1>9, <1>11, <1>12, <1>13, <1>14, DeliveredKeeps

(* Only what comes from a customer is among the sellable goods again. *)
LEMMA ReceivedKeeps ==
  ASSUME CustodyAssumption, CustodyInv, CustodyInv', NEW r \in Returns,
         NEW quantity \in 1..Picked,
         Restock(r, quantity) \/ Quarantine(r, quantity)
  PROVE  KeepsGoods
<1>1. stock \in [Locations -> Nat] /\ CustodyTypes /\ quantity \in Nat /\ quantity \in 0..Picked
  BY DEF CustodyInv, CustodyTypes, CustodyAssumption
<1>2. PICK outcome \in BroughtBack :
         /\ quantity <= returns[r].quantity /\ Receive(r, quantity, outcome)
         /\ \/ stock' = [stock EXCEPT !["available"] = @ + quantity]
            \/ stock' = [stock EXCEPT !["quarantine"] = @ + quantity]
  <2>1. CASE Restock(r, quantity)
    BY <2>1 DEF Restock, BroughtBack
  <2>2. CASE Quarantine(r, quantity)
    BY <2>2 DEF Quarantine, BroughtBack
  <2> QED BY <2>1, <2>2
<1>3. outcome \in {"restock", "quarantine", "rejected"}
  BY <1>2 DEF BroughtBack
<1>4. PICK row \in ReturnRow :
         /\ returns' = [returns EXCEPT ![r] = row] /\ returns[r].state = "authorized"
         /\ row.received = quantity /\ row.outcome = outcome
  BY <1>1, <1>2, <1>3, ReceiveRow
<1>5. UNCHANGED delivery
  BY <1>2 DEF Receive
<1>6. AtCustomer' = AtCustomer + (0 - quantity)
  <2>1. returns[r].state # "received" /\ row.outcome \in BroughtBack
    BY <1>2, <1>4
  <2>2. AtCustomer' = AtCustomer + (0 - row.received)
    BY <1>4, <1>5, <2>1, CustomerReturned
  <2> QED BY <1>4, <2>2
<1>7. /\ stock'["staging"] = stock["staging"]
      /\ stock'["in_transit"] = stock["in_transit"]
      /\ stock'["investigation"] = stock["investigation"]
      /\ \/ /\ stock'["quarantine"] = stock["quarantine"]
            /\ stock'["available"] = stock["available"] + quantity
         \/ /\ stock'["quarantine"] = stock["quarantine"] + quantity
            /\ stock'["available"] = stock["available"]
  BY <1>1, <1>2 DEF Locations
<1>8. Everything(stock') = Everything(stock) - (0 - quantity)
  <2>1. Everything(stock') = Everything(stock) + quantity
    <3>1. CASE stock'["available"] = stock["available"] + quantity
               /\ stock'["quarantine"] = stock["quarantine"]
      BY <1>1, <1>7, <3>1, LocationsInt DEF Everything
    <3>2. CASE stock'["quarantine"] = stock["quarantine"] + quantity
               /\ stock'["available"] = stock["available"]
      BY <1>1, <1>7, <3>2, LocationsInt DEF Everything
    <3> QED BY <1>7, <3>1, <3>2
  <2>2. Everything(stock) \in Int
    BY <1>1, LocationsInt
  <2> QED BY <1>1, <2>1, <2>2
<1>9. AtCustomer \in Int /\ OnHand = Everything(stock)
  BY WhereaboutsCount DEF CustodyAssumption
<1>10. OnHand' = Everything(stock')
  BY DEF OnHand, Everything
<1>11. PICK x \in Int : x = 0 - quantity
  BY <1>1
<1>12. /\ AtCustomer' = AtCustomer + x /\ AtCustomer' \in Int
       /\ OnHand' = OnHand - x /\ x <= x
  BY <1>6, <1>8, <1>9, <1>10, <1>11
<1>13. /\ stock'["staging"] <= stock["staging"]
       /\ stock'["quarantine"] >= stock["quarantine"]
       /\ stock'["available"] >= stock["available"]
       /\ stock'["available"] - stock["available"] <= IF x < 0 THEN 0 - x ELSE 0
  <2>1. quantity > 0
    BY <1>1
  <2> QED BY <1>1, <1>7, <1>11, <2>1, LocationsInt
<1> QED BY <1>9, <1>12, <1>13, RestIsLost

LEMMA GoodsKept ==
  ASSUME CustodyAssumption, CustodyInv, [CustodyNext]_custodyVars
  PROVE  KeepsGoods
<1>1. CustodyInv'
  BY CustodyInvStep
<1>2. CASE \E d \in Deliveries, quantity \in 1..Picked : Dispatch(d, quantity)
  BY <1>1, <1>2, DispatchKeeps
<1>3. CASE \E d \in Deliveries : \E v \in 1..Version(d) :
             \/ \E quantity \in 1..Picked : ReceiveReturnToWarehouse(d, v, quantity)
             \/ Recover(d, v) \/ WriteOff(d, v)
  BY <1>1, <1>3, ExceptionKeeps
<1>4. CASE \E d \in Deliveries : \E o \in Partitions[delivery[d].quantity] : Confirm(d, o)
  BY <1>1, <1>4, ConfirmKeeps
<1>5. CASE \E d \in Deliveries, retry \in Deliveries : Retry(d, retry)
  BY <1>1, <1>5, RetryKeeps
<1>6. CASE \E d \in Deliveries : PostCorrection(d)
  BY <1>1, <1>6, PostCorrectionKeeps
<1>7. CASE \E r \in Returns, quantity \in 1..Picked : Restock(r, quantity) \/ Quarantine(r, quantity)
  BY <1>1, <1>7, ReceivedKeeps
<1>8. CASE \/ UNCHANGED custodyVars
           \/ \E d \in Deliveries :
                \/ \E o \in Partitions[delivery[d].quantity] : RequestCorrection(d, o)
                \/ CheckCorrection(d) \/ FailCorrection(d) \/ ConvertCod(d)
  <2>1. UNCHANGED <<stock, delivery, returns>>
    BY <1>8 DEF custodyVars, RequestCorrection, CheckCorrection, FailCorrection, ConvertCod
  <2> QED BY <1>1, <2>1, PaperKeeps
<1>9. CASE \E d \in Deliveries : DraftInvoice(d) \/ PostInvoice(d)
  <2>1. PICK d \in Deliveries : DraftInvoice(d) \/ PostInvoice(d)
    BY <1>9
  <2>2. PICK state : delivery' = [delivery EXCEPT ![d].invoice = state]
    BY <2>1 DEF DraftInvoice, PostInvoice
  <2>3. UNCHANGED <<stock, returns>>
    BY <2>1 DEF DraftInvoice, PostInvoice
  <2>4. \A e \in Deliveries : delivery'[e].head = delivery[e].head
    <3>1. delivery \in [Deliveries -> DeliveryRow]
      BY DEF CustodyInv, CustodyTypes
    <3>2. [delivery[d] EXCEPT !.invoice = state].head = delivery[d].head
      BY <3>1 DEF DeliveryRow
    <3> QED BY <2>2, <3>1, <3>2
  <2> QED BY <1>1, <2>3, <2>4, PaperKeeps
<1>10. CASE \E r \in Returns :
              \/ \E d \in Deliveries, quantity \in 1..Picked : RequestReturn(r, d, quantity)
              \/ AuthorizeReturn(r) \/ RejectReturn(r)
  <2>1. PICK r \in Returns :
              \/ \E d \in Deliveries, quantity \in 1..Picked : RequestReturn(r, d, quantity)
              \/ AuthorizeReturn(r) \/ RejectReturn(r)
    BY <1>10
  <2>2. /\ returns \in [Returns -> ReturnRow] /\ returns[r] \in ReturnRow /\ ReturnOK(r)
    BY DEF CustodyInv, CustodyTypes, ReturnsOK
  <2>3. PICK row : /\ returns' = [returns EXCEPT ![r] = row]
                   /\ row.received = returns[r].received
                   /\ row.outcome \in {returns[r].outcome, "rejected"}
                   /\ returns[r].outcome = "none"
    <3>1. ASSUME NEW d \in Deliveries, NEW quantity \in 1..Picked, RequestReturn(r, d, quantity)
          PROVE  \E row : /\ returns' = [returns EXCEPT ![r] = row]
                          /\ row.received = returns[r].received
                          /\ row.outcome = returns[r].outcome
                          /\ returns[r].outcome = "none"
      <4>1. PICK row : row = [returns[r] EXCEPT !.state = "requested", !.of = <<d, Version(d)>>,
                                                !.quantity = quantity]
        OBVIOUS
      <4>2. returns' = [returns EXCEPT ![r] = row] /\ returns[r].state = "none"
        BY <3>1, <4>1 DEF RequestReturn
      <4>3. row.received = returns[r].received /\ row.outcome = returns[r].outcome
        BY <2>2, <4>1 DEF ReturnRow
      <4> QED BY <2>2, <4>2, <4>3 DEF ReturnOK
    <3>2. ASSUME AuthorizeReturn(r)
          PROVE  \E row : /\ returns' = [returns EXCEPT ![r] = row]
                          /\ row.received = returns[r].received
                          /\ row.outcome = returns[r].outcome
                          /\ returns[r].outcome = "none"
      <4>1. PICK row : row = [returns[r] EXCEPT !.state = "authorized"]
        OBVIOUS
      <4>2. returns' = [returns EXCEPT ![r] = row] /\ returns[r].state = "requested"
        BY <3>2, <4>1 DEF AuthorizeReturn
      <4>3. row.received = returns[r].received /\ row.outcome = returns[r].outcome
        BY <2>2, <4>1 DEF ReturnRow
      <4> QED BY <2>2, <4>2, <4>3 DEF ReturnOK
    <3>3. ASSUME RejectReturn(r)
          PROVE  \E row : /\ returns' = [returns EXCEPT ![r] = row]
                          /\ row.received = returns[r].received
                          /\ row.outcome = "rejected"
                          /\ returns[r].outcome = "none"
      <4>1. PICK row : row = [returns[r] EXCEPT !.state = "received", !.received = 0,
                                                !.outcome = "rejected"]
        OBVIOUS
      <4>2. returns' = [returns EXCEPT ![r] = row] /\ returns[r].state = "authorized"
        BY <3>3, <4>1 DEF RejectReturn, Receive
      <4>3. row.received = 0 /\ row.outcome = "rejected"
        BY <2>2, <4>1 DEF ReturnRow
      <4> QED BY <2>2, <4>2, <4>3 DEF ReturnOK
    <3> QED BY <2>1, <3>1, <3>2, <3>3
  <2>4. UNCHANGED <<stock, delivery>>
    BY <2>1 DEF RequestReturn, AuthorizeReturn, RejectReturn, Receive
  <2>5. \A q \in Returns : /\ returns'[q].received = returns[q].received
                           /\ returns'[q].outcome \in BroughtBack <=>
                                returns[q].outcome \in BroughtBack
    BY <2>2, <2>3 DEF BroughtBack
  <2> QED BY <1>1, <2>4, <2>5, PaperKeeps
<1> QED BY <1>2, <1>3, <1>4, <1>5, <1>6, <1>7, <1>8, <1>9, <1>10 DEF CustodyNext

(* The count of the whereabouts holds of every state, so of the next one. *)
Counts ==
  /\ AtCustomer \in 0..Picked /\ Lost \in 0..Picked
  /\ \A l \in Locations : stock[l] \in 0..Picked
  /\ OnHand + AtCustomer + Lost = Picked

LEMMA InvCounts == CustodyInv => Counts
BY WhereaboutsCount, CustodyAssumption DEF Counts

LEMMA InvCountsNext == CustodyInv' => Counts'
BY InvCounts, PTL

-----------------------------------------------------------------------------
(* The results *)

(* No location, receipt, case or account ever holds less than nothing or more
   units than were picked, and no chain of corrections outgrows its bound. *)
THEOREM CustodyTypeCorrect == CustodySpec => []CustodyTypeOK
<1>1. CustodyInv => CustodyTypeOK
  <2> SUFFICES ASSUME CustodyInv PROVE CustodyTypeOK
    OBVIOUS
  <2>1. CustodyTypes /\ ChainsOK /\ ConversionsOK
    BY DEF CustodyInv
  <2>2. stock \in [Locations -> 0..Picked] /\ valued \in 0..Picked
    <3>1. stock \in [Locations -> Nat]
      BY <2>1 DEF CustodyTypes
    <3> QED BY <3>1, WhereaboutsCount, CustodyAssumption
  <2>3. charged \in Nat
    BY <2>1, SettlesMean, ChargedType, CustodyAssumption DEF ConversionsOK, CustodyTypes
  <2>4. \A d \in Deliveries : cases[d] \in Seq([Kinds -> Case]) /\ Len(cases[d]) <= Versions
    <3> TAKE d \in Deliveries
    <3>1. cases[d] \in Seq([Kinds -> Case])
      BY <2>1 DEF CustodyTypes
    <3>2. CASE delivery[d].status = "confirmed"
      BY <2>1, <3>1, <3>2, CustodyAssumption DEF ChainsOK, ChainOK, Version
    <3>3. CASE delivery[d].status # "confirmed"
      <4>1. Len(cases[d]) = 0
        BY <2>1, <3>3 DEF ChainsOK, ChainOK
      <4> QED BY <3>1, <4>1, CustodyAssumption
    <3> QED BY <3>2, <3>3
  <2> QED BY <2>1, <2>2, <2>3, <2>4 DEF CustodyTypes, CustodyTypeOK
<1> QED BY <1>1, CustodyInvHolds, PTL

(* What lies on vehicles and under investigation is what deliveries on their way
   and open cases account for, however confirmations, returns, recoveries,
   retries and corrections of several deliveries interleave, as long as no
   correction overtook a command on its exceptions. *)
THEOREM CasesAccountForCustody == CustodySpec => []CustodyMatchesCases
<1>1. CustodyInv => CustodyMatchesCases
  BY DEF CustodyInv, QuantitiesOK
<1> QED BY <1>1, CustodyInvHolds, PTL

(* The books value what is in the house but what customers returned into
   quarantine, through every correction, write-off and return. *)
THEOREM BooksValueCustody == CustodySpec => []ValuationMatches
<1>1. CustodyInv => ValuationMatches
  BY DEF CustodyInv, QuantitiesOK, UnitsBalance
<1> QED BY <1>1, CustodyInvHolds, PTL

(* Authorizations of several returns never allow more than the receipt says was
   accepted, and no correction replaces a receipt that has one. *)
THEOREM ReturnsStayWithinDelivered == CustodySpec => []ReturnsWithinDelivered
<1>1. CustodyInv => ReturnsWithinDelivered
  <2> SUFFICES ASSUME CustodyInv, NEW r \in Returns,
                      returns[r].state \in {"authorized", "received"}
               PROVE  LET d == returns[r].of[1] IN
                      returns[r].of[2] = Version(d)
                      /\ AuthorizedQuantity(d) <= delivery[d].head.accepted
    BY DEF ReturnsWithinDelivered
  <2>1. ReturnOK(r) /\ ReturnsOK
    BY DEF CustodyInv, ReturnsOK
  <2>2. returns[r].of \in Deliveries \X (1..Versions) /\ returns[r].of[2] = Version(returns[r].of[1])
    BY <2>1 DEF ReturnOK
  <2>3. returns[r].of[1] \in Deliveries
    BY <2>2
  <2> QED BY <2>1, <2>2, <2>3 DEF ReturnsOK
<1> QED BY <1>1, CustodyInvHolds, PTL

(* The account of a customer always carries exactly the conversions that can
   still be used and what was accepted on those that were. *)
THEOREM ConversionsAlwaysSettle == CustodySpec => []ConversionsSettle
<1>1. CustodyInv => ConversionsSettle
  BY DEF CustodyInv, ConversionsOK
<1> QED BY <1>1, CustodyInvHolds, PTL

(* Deliveries, exceptions, corrections and returns implement the promise about
   the goods: every unit is in exactly one place, and none is sellable again but
   what came from a customer. *)
THEOREM CustodyRefines == CustodySpec => KeepsCustody
<1>1. CustodyInit => Promise!CustodyInit
  <2> SUFFICES ASSUME CustodyInit PROVE Promise!CustodyInit
    OBVIOUS
  <2>1. CustodyInv
    BY CustodyInvInit, CustodyAssumption
  <2>2. stock = [l \in Locations |-> IF l = "staging" THEN Picked ELSE 0]
    BY DEF CustodyInit
  <2>3. OnHand = Picked
    BY <2>2, CustodyAssumption DEF OnHand, Locations
  <2>4. AtCustomer = 0 /\ Lost = 0
    BY <2>1, <2>3, WhereaboutsCount, CustodyAssumption
  <2>5. Locations \cup {"customer", "lost"} = Promise!Places
    BY DEF Locations, Promise!Places
  <2> QED BY <2>2, <2>4, <2>5 DEF Whereabouts, Promise!CustodyInit, Locations
<1>2. CustodyInv /\ [CustodyNext]_custodyVars => Promise!Move
  <2> SUFFICES ASSUME CustodyInv, [CustodyNext]_custodyVars PROVE Promise!Move
    OBVIOUS
  <2>1. CustodyInv' /\ KeepsGoods
    BY CustodyInvStep, GoodsKept, CustodyAssumption
  <2>2. /\ \A l \in Locations : Whereabouts[l] = stock[l] /\ Whereabouts'[l] = stock'[l]
        /\ Whereabouts["customer"] = AtCustomer /\ Whereabouts'["customer"] = AtCustomer'
        /\ Whereabouts["lost"] = Lost /\ Whereabouts'["lost"] = Lost'
    BY DEF Whereabouts, Locations
  <2>3. /\ AtCustomer' \in 0..Picked /\ Lost' \in 0..Picked
        /\ \A l \in Locations : stock'[l] \in 0..Picked
        /\ OnHand' + AtCustomer' + Lost' = Picked
    BY <2>1, InvCountsNext DEF Counts
  <2>4. Whereabouts' \in [Promise!Places -> 0..Picked]
    BY <2>3 DEF Whereabouts, Locations, Promise!Places
  <2>5. Promise!Everywhere(Whereabouts') = Picked
    <3>1. \A l \in Locations : stock'[l] \in Nat
      BY <2>3, CustodyAssumption
    <3>2. /\ Whereabouts'["staging"] = stock'["staging"]
          /\ Whereabouts'["in_transit"] = stock'["in_transit"]
          /\ Whereabouts'["investigation"] = stock'["investigation"]
          /\ Whereabouts'["quarantine"] = stock'["quarantine"]
          /\ Whereabouts'["available"] = stock'["available"]
      BY <2>2 DEF Locations
    <3> QED BY <2>2, <2>3, <3>1, <3>2 DEF Promise!Everywhere, OnHand, Locations
  <2>6. /\ Whereabouts'["staging"] <= Whereabouts["staging"]
        /\ \A p \in {"quarantine", "available", "lost"} : Whereabouts'[p] >= Whereabouts[p]
        /\ Whereabouts'["available"] > Whereabouts["available"] =>
             Whereabouts["customer"] - Whereabouts'["customer"]
               >= Whereabouts'["available"] - Whereabouts["available"]
    BY <2>1, <2>2 DEF KeepsGoods, Locations
  <2>7. Promise!Permitted(Whereabouts, Whereabouts')
    BY <2>4, <2>5, <2>6 DEF Promise!Permitted
  <2> QED BY <2>7 DEF Promise!Move
<1>3. CustodyInv /\ [CustodyNext]_custodyVars => [Promise!Move]_Whereabouts
  BY <1>2
<1> QED BY <1>1, <1>3, CustodyInvHolds, PTL DEF CustodySpec, KeepsCustody, Promise!CustodySpec
=============================================================================
