---------------------------- MODULE UnitsProofs ----------------------------
(***************************************************************************)
(* Facts about totals: a total is a natural number, it changes by what one *)
(* row changes, and it is monotone.                                        *)
(***************************************************************************)
EXTENDS Units, FiniteSetTheorems, FunctionTheorems, TLAPS

(* The units of one row are as many as its quantity. *)
LEMMA RowUnits ==
  ASSUME NEW x, NEW n \in Nat
  PROVE  IsFiniteSet({x} \X (1..n)) /\ Cardinality({x} \X (1..n)) = n
<1>1. IsFiniteSet({x}) /\ Cardinality({x}) = 1
  BY FS_Singleton
<1>2. IsFiniteSet(1..n) /\ Cardinality(1..n) = n
  BY FS_Interval
<1>3. /\ IsFiniteSet({x} \X (1..n))
      /\ Cardinality({x} \X (1..n)) = Cardinality({x}) * Cardinality(1..n)
  BY <1>1, <1>2, FS_Product
<1> QED BY <1>1, <1>2, <1>3

(* A total over finitely many rows is a natural number. *)
LEMMA TotalType ==
  ASSUME NEW S, IsFiniteSet(S), NEW f, \A x \in S : f[x] \in Nat
  PROVE  IsFiniteSet(UnitsOf(f, S)) /\ Total(f, S) \in Nat
<1> DEFINE rows == {{x} \X (1..f[x]) : x \in S}
<1>1. IsFiniteSet(rows)
  <2> DEFINE g == [x \in S |-> {x} \X (1..f[x])]
  <2>1. g \in Surjection(S, rows)
    BY DEF Surjection
  <2> QED BY <2>1, FS_Surjection
<1>2. ASSUME NEW T \in rows PROVE IsFiniteSet(T)
  <2>1. PICK x \in S : T = {x} \X (1..f[x])
    OBVIOUS
  <2>2. f[x] \in Nat
    OBVIOUS
  <2> QED BY <2>1, <2>2, RowUnits
<1>3. IsFiniteSet(UNION rows)
  BY <1>1, <1>2, FS_UNION
<1> QED BY <1>3, FS_CardinalityType DEF UnitsOf, Total

(* A total is the quantity of any one row plus the total of the others. *)
LEMMA TotalSplit ==
  ASSUME NEW S, IsFiniteSet(S), NEW f, \A x \in S : f[x] \in Nat, NEW a \in S
  PROVE  Total(f, S) = Total(f, S \ {a}) + f[a]
<1> DEFINE others == UnitsOf(f, S \ {a})
           row    == {a} \X (1..f[a])
<1>1. UnitsOf(f, S) = others \cup row
  BY DEF UnitsOf
<1>2. others \cap row = {}
  BY DEF UnitsOf
<1>3. IsFiniteSet(S \ {a})
  BY FS_Difference
<1>4. IsFiniteSet(others) /\ Total(f, S \ {a}) \in Nat
  BY <1>3, TotalType
<1>5. IsFiniteSet(row) /\ Cardinality(row) = f[a]
  BY RowUnits
<1> HIDE DEF others, row
<1>6. Cardinality(others \cup row)
        = Cardinality(others) + Cardinality(row) - Cardinality(others \cap row)
  BY <1>4, <1>5, FS_Union
<1>7. Cardinality(others) = Total(f, S \ {a})
  BY DEF Total, others
<1>8. Total(f, S) = Cardinality(others \cup row)
  BY <1>1 DEF Total
<1>9. Cardinality(others \cap row) = 0
  BY <1>2, FS_EmptySet
<1> QED BY <1>4, <1>5, <1>6, <1>7, <1>8, <1>9

(* Totals of families that agree are equal. *)
LEMMA TotalSame ==
  ASSUME NEW S, NEW f, NEW g, \A x \in S : f[x] = g[x]
  PROVE  Total(f, S) = Total(g, S)
<1>1. UnitsOf(f, S) = UnitsOf(g, S)
  BY DEF UnitsOf
<1> QED BY <1>1 DEF Total

(* When one row changes, the total changes by as much. *)
LEMMA TotalChange ==
  ASSUME NEW S, IsFiniteSet(S), NEW a \in S,
         NEW f, \A x \in S : f[x] \in Nat,
         NEW g, \A x \in S : g[x] \in Nat,
         \A x \in S \ {a} : g[x] = f[x]
  PROVE  Total(g, S) = Total(f, S) - f[a] + g[a]
<1>1. Total(f, S) = Total(f, S \ {a}) + f[a]
  BY TotalSplit
<1>2. Total(g, S) = Total(g, S \ {a}) + g[a]
  BY TotalSplit
<1>3. Total(f, S \ {a}) = Total(g, S \ {a})
  BY TotalSame
<1>4. IsFiniteSet(S \ {a})
  BY FS_Difference
<1>5. Total(f, S \ {a}) \in Nat
  BY <1>4, TotalType
<1> QED BY <1>1, <1>2, <1>3, <1>5

(* A total of smaller rows is no larger. *)
LEMMA TotalMonotone ==
  ASSUME NEW S, IsFiniteSet(S),
         NEW f, \A x \in S : f[x] \in Nat,
         NEW g, \A x \in S : g[x] \in Nat,
         \A x \in S : f[x] <= g[x]
  PROVE  Total(f, S) <= Total(g, S)
<1>1. UnitsOf(f, S) \in SUBSET UnitsOf(g, S)
  <2>1. \A x \in S : 1..f[x] \subseteq 1..g[x]
    OBVIOUS
  <2> QED BY <2>1 DEF UnitsOf
<1>2. IsFiniteSet(UnitsOf(g, S))
  BY TotalType
<1> QED BY <1>1, <1>2, FS_Subset DEF Total

(* No row exceeds the total. *)
LEMMA TotalBounds ==
  ASSUME NEW S, IsFiniteSet(S), NEW f, \A x \in S : f[x] \in Nat, NEW a \in S
  PROVE  f[a] <= Total(f, S)
<1>1. IsFiniteSet(S \ {a})
  BY FS_Difference
<1>2. Total(f, S \ {a}) \in Nat
  BY <1>1, TotalType
<1> QED BY <1>2, TotalSplit

(* A total over fewer rows is no larger. *)
LEMMA TotalSubset ==
  ASSUME NEW S, IsFiniteSet(S), NEW T \in SUBSET S, NEW f, \A x \in S : f[x] \in Nat
  PROVE  Total(f, T) <= Total(f, S)
<1>1. UnitsOf(f, T) \in SUBSET UnitsOf(f, S)
  BY DEF UnitsOf
<1>2. IsFiniteSet(UnitsOf(f, S))
  BY TotalType
<1> QED BY <1>1, <1>2, FS_Subset DEF Total

(* A family without units has the total zero. *)
LEMMA TotalZero ==
  ASSUME NEW S, NEW f, \A x \in S : f[x] = 0
  PROVE  Total(f, S) = 0
<1>1. UnitsOf(f, S) = {}
  BY DEF UnitsOf
<1> QED BY <1>1, FS_EmptySet DEF Total

(* The total of sums is the sum of the totals. *)
LEMMA TotalSum ==
  ASSUME NEW S, IsFiniteSet(S),
         NEW f, \A x \in S : f[x] \in Nat,
         NEW g, \A x \in S : g[x] \in Nat,
         NEW h, \A x \in S : h[x] = f[x] + g[x]
  PROVE  Total(h, S) = Total(f, S) + Total(g, S)
<1> DEFINE more == UnitsOf(h, S) \ UnitsOf(f, S)
           shift == [u \in UnitsOf(g, S) |-> <<u[1], u[2] + f[u[1]]>>]
<1>1. \A x \in S : h[x] \in Nat
  OBVIOUS
<1>2. /\ IsFiniteSet(UnitsOf(f, S)) /\ Total(f, S) \in Nat
      /\ IsFiniteSet(UnitsOf(g, S)) /\ Total(g, S) \in Nat
      /\ IsFiniteSet(UnitsOf(h, S)) /\ Total(h, S) \in Nat
  BY <1>1, TotalType
<1>3. UnitsOf(f, S) \subseteq UnitsOf(h, S)
  BY DEF UnitsOf
<1>4. \A u : u \in more <=> \E x \in S, k \in Nat : u = <<x, k>> /\ f[x] < k /\ k <= h[x]
  BY <1>1 DEF UnitsOf
<1>5. \A u : u \in UnitsOf(g, S) <=> \E x \in S, k \in Nat : u = <<x, k>> /\ 0 < k /\ k <= g[x]
  BY DEF UnitsOf
<1>6. shift \in Bijection(UnitsOf(g, S), more)
  <2>1. \A u \in UnitsOf(g, S) : shift[u] \in more
    BY <1>4, <1>5
  <2>2. \A u, v \in UnitsOf(g, S) : shift[u] = shift[v] => u = v
    BY <1>5
  <2>3. \A w \in more : \E u \in UnitsOf(g, S) : shift[u] = w
    <3> TAKE w \in more
    <3>1. PICK x \in S, k \in Nat : w = <<x, k>> /\ f[x] < k /\ k <= h[x]
      BY <1>4
    <3>2. k - f[x] \in Nat /\ 0 < k - f[x] /\ k - f[x] <= g[x] /\ (k - f[x]) + f[x] = k
      BY <3>1
    <3>3. <<x, k - f[x]>> \in UnitsOf(g, S)
      BY <1>5, <3>2
    <3>4. shift[<<x, k - f[x]>>] = w
      BY <3>1, <3>2, <3>3
    <3> QED BY <3>3, <3>4
  <2>4. shift \in [UnitsOf(g, S) -> more]
    BY <2>1
  <2> HIDE DEF shift, more
  <2>5. shift \in Injection(UnitsOf(g, S), more)
    BY <2>2, <2>4 DEF Injection, IsInjective
  <2>6. shift \in Surjection(UnitsOf(g, S), more)
    BY <2>3, <2>4 DEF Surjection
  <2> QED BY <2>5, <2>6 DEF Bijection
<1> HIDE DEF shift, more
<1>7. Cardinality(more) = Total(g, S)
  BY <1>2, <1>6, FS_Bijection DEF Total, ExistsBijection
<1>8. Cardinality(more) = Total(h, S) - Cardinality(UnitsOf(h, S) \cap UnitsOf(f, S))
  BY <1>2, FS_Difference DEF more, Total
<1>9. Cardinality(UnitsOf(h, S) \cap UnitsOf(f, S)) = Total(f, S)
  <2>1. UnitsOf(h, S) \cap UnitsOf(f, S) = UnitsOf(f, S)
    BY <1>3
  <2> QED BY <2>1 DEF Total
<1> QED BY <1>2, <1>7, <1>8, <1>9

(* When one row changes, or joins or leaves the rows that count, the total
   changes by as much. *)
LEMMA TotalPart ==
  ASSUME NEW S, IsFiniteSet(S), NEW a \in S,
         NEW T \in SUBSET S, NEW U \in SUBSET S,
         NEW f, \A x \in S : f[x] \in Nat,
         NEW g, \A x \in S : g[x] \in Nat,
         \A x \in S \ {a} : x \in T <=> x \in U,
         \A x \in T \ {a} : g[x] = f[x]
  PROVE  Total(g, U) = Total(f, T) - (IF a \in T THEN f[a] ELSE 0)
                                   + (IF a \in U THEN g[a] ELSE 0)
<1>1. T \ {a} = U \ {a}
  OBVIOUS
<1>2. IsFiniteSet(T) /\ IsFiniteSet(U)
  BY FS_Subset
<1>3. Total(f, T \ {a}) = Total(g, U \ {a})
  BY <1>1, TotalSame
<1>4. IsFiniteSet(T \ {a}) /\ IsFiniteSet(U \ {a})
  BY <1>2, FS_Difference
<1>5. Total(f, T \ {a}) \in Nat /\ Total(g, U \ {a}) \in Nat
  BY <1>4, TotalType
<1>6. Total(f, T) = Total(f, T \ {a}) + (IF a \in T THEN f[a] ELSE 0)
  <2>1. CASE a \in T
    BY <1>2, <2>1, TotalSplit
  <2>2. CASE a \notin T
    <3>1. T \ {a} = T
      BY <2>2
    <3>2. Total(f, T \ {a}) = Total(f, T)
      BY <3>1
    <3> QED BY <1>5, <2>2, <3>2
  <2> QED BY <2>1, <2>2
<1>7. Total(g, U) = Total(g, U \ {a}) + (IF a \in U THEN g[a] ELSE 0)
  <2>1. CASE a \in U
    BY <1>2, <2>1, TotalSplit
  <2>2. CASE a \notin U
    <3>1. U \ {a} = U
      BY <2>2
    <3>2. Total(g, U \ {a}) = Total(g, U)
      BY <3>1
    <3> QED BY <1>5, <2>2, <3>2
  <2> QED BY <2>1, <2>2
<1>8. /\ (IF a \in T THEN f[a] ELSE 0) \in Nat
      /\ (IF a \in U THEN g[a] ELSE 0) \in Nat
  OBVIOUS
<1> QED BY <1>3, <1>5, <1>6, <1>7, <1>8

(* When the rows are divided among groups and no group has more than its
   share, the total is no more than that of the shares. *)
LEMMA TotalGrouped ==
  ASSUME NEW R, IsFiniteSet(R), NEW D, IsFiniteSet(D),
         NEW f, \A r \in R : f[r] \in Nat,
         NEW h, \A d \in D : h[d] \in Nat,
         NEW group, \A r \in R : group[r] \in D,
         \A d \in D : Total(f, {r \in R : group[r] = d}) <= h[d]
  PROVE  Total(f, R) <= Total(h, D)
<1> DEFINE Rows(d) == {r \in R : group[r] = d}
<1>1. ASSUME NEW d \in D
      PROVE  \E b : b \in Injection(UnitsOf(f, Rows(d)), 1..h[d])
  <2>1. Rows(d) \in SUBSET R
    OBVIOUS
  <2>2. IsFiniteSet(Rows(d))
    BY <2>1, FS_Subset
  <2>3. IsFiniteSet(UnitsOf(f, Rows(d))) /\ Total(f, Rows(d)) \in Nat
    BY <2>2, TotalType
  <2>4. PICK b \in Bijection(1..Total(f, Rows(d)), UnitsOf(f, Rows(d))) : TRUE
    BY <2>3, FS_CardinalityType DEF Total, ExistsBijection
  <2>5. PICK c : c \in Bijection(UnitsOf(f, Rows(d)), 1..Total(f, Rows(d)))
    BY <2>4, Fun_BijInverse
  <2>6. 1..Total(f, Rows(d)) \subseteq 1..h[d]
    <3>1. Total(f, Rows(d)) <= h[d] /\ h[d] \in Nat
      OBVIOUS
    <3> HIDE DEF Rows
    <3> QED BY <2>3, <3>1
  <2>7. c \in Injection(UnitsOf(f, Rows(d)), 1..h[d])
    BY <2>5, <2>6 DEF Bijection, Injection, IsInjective
  <2> QED BY <2>7
<1> DEFINE number == [d \in D |-> CHOOSE b : b \in Injection(UnitsOf(f, Rows(d)), 1..h[d])]
           place == [u \in UnitsOf(f, R) |-> <<group[u[1]], number[group[u[1]]][u]>>]
<1>2. \A d \in D : number[d] \in Injection(UnitsOf(f, Rows(d)), 1..h[d])
  BY <1>1
<1>3. \A u \in UnitsOf(f, R) :
        u[1] \in R /\ group[u[1]] \in D /\ u \in UnitsOf(f, Rows(group[u[1]]))
  BY DEF UnitsOf
<1> HIDE DEF number
<1>4. \A d \in D : \A u \in UnitsOf(f, Rows(d)) : number[d][u] \in 1..h[d]
  BY <1>2 DEF Injection
<1>5. \A d \in D : \A u, w \in UnitsOf(f, Rows(d)) : number[d][u] = number[d][w] => u = w
  BY <1>2 DEF Injection, IsInjective
<1> HIDE DEF Rows
<1>6. \A u \in UnitsOf(f, R) : place[u] \in UnitsOf(h, D)
  BY <1>3, <1>4 DEF UnitsOf
<1>7. \A u, w \in UnitsOf(f, R) : place[u] = place[w] => u = w
  BY <1>3, <1>5
<1>8. place \in [UnitsOf(f, R) -> UnitsOf(h, D)]
  BY <1>6
<1> HIDE DEF place
<1>9. place \in Injection(UnitsOf(f, R), UnitsOf(h, D))
  BY <1>7, <1>8 DEF Injection, IsInjective
<1>10. IsFiniteSet(UnitsOf(h, D))
  BY TotalType
<1> QED BY <1>9, <1>10, FS_Injection DEF Total

(* What is taken off some of the rows comes off the total. *)
LEMMA TotalWithout ==
  ASSUME NEW S, IsFiniteSet(S), NEW F \in SUBSET S,
         NEW f, \A x \in S : f[x] \in Nat,
         NEW g, \A x \in S : g[x] = IF x \in F THEN 0 ELSE f[x]
  PROVE  Total(f, S) = Total(g, S) + Total(f, F)
<1> DEFINE taken == [x \in S |-> IF x \in F THEN f[x] ELSE 0]
<1>1. /\ \A x \in S : taken[x] \in Nat /\ g[x] \in Nat /\ f[x] = g[x] + taken[x]
  OBVIOUS
<1>2. UnitsOf(taken, S) = UnitsOf(f, F)
  <2>1. \A x \in S \ F : 1..taken[x] = {}
    OBVIOUS
  <2>2. \A x \in F : taken[x] = f[x]
    OBVIOUS
  <2> HIDE DEF taken
  <2> QED BY <2>1, <2>2 DEF UnitsOf
<1> HIDE DEF taken
<1>3. Total(f, S) = Total(g, S) + Total(taken, S)
  BY <1>1, TotalSum
<1> QED BY <1>2, <1>3 DEF Total

(* The sum of integers is an integer. *)
LEMMA NetType ==
  ASSUME NEW S, IsFiniteSet(S), NEW f, \A x \in S : f[x] \in Int
  PROVE  Net(f, S) \in Int
<1> DEFINE gains  == [x \in S |-> Positive(f[x])]
           losses == [x \in S |-> Positive(-f[x])]
<1>1. \A x \in S : gains[x] \in Nat /\ losses[x] \in Nat
  BY DEF Positive
<1>2. Net(f, S) = Total(gains, S) - Total(losses, S)
  BY DEF Net
<1> HIDE DEF gains, losses
<1>3. Total(gains, S) \in Nat /\ Total(losses, S) \in Nat
  BY <1>1, TotalType
<1> QED BY <1>2, <1>3

(* When one of the integers changes, the sum changes by as much. *)
LEMMA NetChange ==
  ASSUME NEW S, IsFiniteSet(S), NEW a \in S,
         NEW f, \A x \in S : f[x] \in Int,
         NEW g, \A x \in S : g[x] \in Int,
         \A x \in S \ {a} : g[x] = f[x]
  PROVE  Net(g, S) = Net(f, S) - f[a] + g[a]
<1> DEFINE fgains  == [x \in S |-> Positive(f[x])]
           flosses == [x \in S |-> Positive(-f[x])]
           ggains  == [x \in S |-> Positive(g[x])]
           glosses == [x \in S |-> Positive(-g[x])]
<1>1. /\ Net(f, S) = Total(fgains, S) - Total(flosses, S)
      /\ Net(g, S) = Total(ggains, S) - Total(glosses, S)
  BY DEF Net
<1>2. \A x \in S : /\ fgains[x] \in Nat /\ flosses[x] \in Nat
                   /\ ggains[x] \in Nat /\ glosses[x] \in Nat
                   /\ fgains[x] - flosses[x] = f[x]
                   /\ ggains[x] - glosses[x] = g[x]
  BY DEF Positive
<1>3. \A x \in S \ {a} : ggains[x] = fgains[x] /\ glosses[x] = flosses[x]
  OBVIOUS
<1> HIDE DEF fgains, flosses, ggains, glosses
<1>4. Total(ggains, S) = Total(fgains, S) - fgains[a] + ggains[a]
  BY <1>2, <1>3, TotalChange
<1>5. Total(glosses, S) = Total(flosses, S) - flosses[a] + glosses[a]
  BY <1>2, <1>3, TotalChange
<1>6. /\ Total(fgains, S) \in Nat /\ Total(flosses, S) \in Nat
  BY <1>2, TotalType
<1> QED BY <1>1, <1>2, <1>4, <1>5, <1>6

(* Equal integers have equal sums. *)
LEMMA NetSame ==
  ASSUME NEW S, NEW f, NEW g, \A x \in S : f[x] = g[x]
  PROVE  Net(f, S) = Net(g, S)
<1>1. [x \in S |-> Positive(f[x])] = [x \in S |-> Positive(g[x])]
  OBVIOUS
<1>2. [x \in S |-> Positive(-f[x])] = [x \in S |-> Positive(-g[x])]
  OBVIOUS
<1> QED BY <1>1, <1>2 DEF Net

(* Of rows that are all zero. *)
LEMMA NetZero ==
  ASSUME NEW S, NEW f, \A x \in S : f[x] = 0
  PROVE  Net(f, S) = 0
<1> DEFINE gains  == [x \in S |-> Positive(f[x])]
           losses == [x \in S |-> Positive(-f[x])]
<1>1. \A x \in S : gains[x] = 0 /\ losses[x] = 0
  BY DEF Positive
<1>2. Net(f, S) = Total(gains, S) - Total(losses, S)
  BY DEF Net
<1> HIDE DEF gains, losses
<1>3. Total(gains, S) = 0 /\ Total(losses, S) = 0
  BY <1>1, TotalZero
<1> QED BY <1>2, <1>3

(* Quantities taken off a family of integers come off its sum. *)
LEMMA NetLess ==
  ASSUME NEW S, IsFiniteSet(S),
         NEW f, \A x \in S : f[x] \in Int,
         NEW u, \A x \in S : u[x] \in Nat,
         NEW g, \A x \in S : g[x] = f[x] - u[x]
  PROVE  Net(g, S) = Net(f, S) - Total(u, S)
<1> DEFINE fgains  == [x \in S |-> Positive(f[x])]
           flosses == [x \in S |-> Positive(-f[x])]
           ggains  == [x \in S |-> Positive(g[x])]
           glosses == [x \in S |-> Positive(-g[x])]
           part    == [x \in S |-> ggains[x] + flosses[x]]
           whole   == [x \in S |-> part[x] + u[x]]
           other   == [x \in S |-> fgains[x] + glosses[x]]
<1>1. \A x \in S : /\ fgains[x] \in Nat /\ flosses[x] \in Nat
                   /\ ggains[x] \in Nat /\ glosses[x] \in Nat
  BY DEF Positive
<1>2. \A x \in S : ggains[x] + flosses[x] + u[x] = fgains[x] + glosses[x]
  BY DEF Positive
<1>3. /\ Net(f, S) = Total(fgains, S) - Total(flosses, S)
      /\ Net(g, S) = Total(ggains, S) - Total(glosses, S)
  BY DEF Net
<1>4. /\ \A x \in S : part[x] = ggains[x] + flosses[x]
      /\ \A x \in S : other[x] = fgains[x] + glosses[x]
      /\ \A x \in S : whole[x] = part[x] + u[x]
  OBVIOUS
<1> HIDE DEF fgains, flosses, ggains, glosses, part, whole, other
<1>5. Total(part, S) = Total(ggains, S) + Total(flosses, S)
  BY <1>1, <1>4, TotalSum
<1>6. Total(other, S) = Total(fgains, S) + Total(glosses, S)
  BY <1>1, <1>4, TotalSum
<1>7. \A x \in S : part[x] \in Nat /\ whole[x] = other[x]
  BY <1>1, <1>2, <1>4
<1>8. Total(whole, S) = Total(part, S) + Total(u, S)
  BY <1>4, <1>7, TotalSum
<1>9. Total(whole, S) = Total(other, S)
  BY <1>7, TotalSame
<1>10. /\ Total(fgains, S) \in Nat /\ Total(flosses, S) \in Nat
       /\ Total(ggains, S) \in Nat /\ Total(glosses, S) \in Nat /\ Total(u, S) \in Nat
  BY <1>1, TotalType
<1> QED BY <1>3, <1>5, <1>6, <1>8, <1>9, <1>10
=============================================================================
