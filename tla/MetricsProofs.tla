--------------------------- MODULE MetricsProofs ---------------------------
(***************************************************************************)
(* What is proved of app/services/benchmark_metrics.py: the state machine  *)
(* `Metric` that MCServices runs reports sound metrics on any two          *)
(* documents.  The definitions of BenchmarkMetrics are loops, written as   *)
(* functions that a CHOOSE picks; each is shown to exist by recursion over *)
(* a finite set in an order, and then reasoned about by induction over the *)
(* same order:                                                             *)
(*   - sums of units count them, and the table of a distance exists; its   *)
(*     entries are the least costs of an increasing pairing;               *)
(*   - ratios stay between 0 and 1, and so do their means;                 *)
(*   - the greedy loop over overlapping boxes takes a matching, and all    *)
(*     boxes when the two documents are the same;                          *)
(*   - the loop over blocks in reading order matches every block at most   *)
(*     once, and every block with its own text when they are the same.     *)
(***************************************************************************)
EXTENDS AlgorithmProofs

-----------------------------------------------------------------------------
(* Sets of numbers, sums and orders *)

\* The instance counts as the library does.
LEMMA SameCounts ==
  ASSUME NEW S
  PROVE  Metric!Cardinality(S) = Cardinality(S)
BY DEF Metric!Cardinality, Cardinality

\* The values of a function on a finite set are finitely many.
LEMMA FiniteValues ==
  ASSUME NEW S, IsFiniteSet(S), NEW f, DOMAIN f = S
  PROVE  IsFiniteSet({f[x] : x \in S}) /\ Cardinality({f[x] : x \in S}) <= Cardinality(S)
<1> DEFINE T == {f[x] : x \in S}
           F == [x \in S |-> f[x]]
<1>1. F \in Surjection(S, T)
  BY DEF Surjection
<1> HIDE DEF F, T
<1>2. IsFiniteSet(T) /\ Cardinality(T) <= Cardinality(S)
  BY <1>1, FS_Surjection
<1> QED BY <1>2 DEF T

\* A finite set of numbers has a greatest one.
LEMMA GreatestNumber ==
  ASSUME NEW T, T \subseteq Nat, T # {}, IsFiniteSet(T)
  PROVE  \E n \in T : \A m \in T : m <= n
<1> DEFINE S == {n \in Nat : \A U \in SUBSET Nat : U # {} /\ IsFiniteSet(U) /\ Cardinality(U) = n
                                => \E g \in U : \A m \in U : m <= g}
<1>1. 0 \in S
  BY FS_EmptySet
<1>2. ASSUME NEW n \in Nat, n \in S PROVE n + 1 \in S
  <2>1. ASSUME NEW U \in SUBSET Nat, U # {}, IsFiniteSet(U), Cardinality(U) = n + 1
        PROVE  \E g \in U : \A m \in U : m <= g
    <3>1. PICK x \in U : TRUE
      BY <2>1
    <3>2. PICK W : W = U \ {x}
      OBVIOUS
    <3>3. IsFiniteSet(W) /\ Cardinality(W) = n /\ W \in SUBSET Nat
      <4>1. IsFiniteSet(U \ {x}) /\ Cardinality(U \ {x}) = Cardinality(U) - 1
        BY <2>1, <3>1, FS_RemoveElement
      <4> QED BY <2>1, <3>2, <4>1
    <3>4. CASE W = {}
      <4>1. U = {x}
        BY <3>1, <3>2, <3>4
      <4> QED BY <3>1, <4>1
    <3>5. CASE W # {}
      <4>1. PICK g \in W : \A m \in W : m <= g
        BY <1>2, <3>3, <3>5
      <4>2. x \in Nat /\ g \in Nat /\ g \in U /\ U = W \cup {x}
        BY <3>1, <3>2, <3>3, <4>1
      <4>3. CASE x <= g
        BY <4>1, <4>2, <4>3
      <4>4. CASE g < x
        <5>1. ASSUME NEW m \in U PROVE m <= x
          <6>1. m \in Nat /\ (m = x \/ m \in W)
            BY <4>2
          <6> QED BY <4>1, <4>2, <4>4, <6>1
        <5> QED BY <3>1, <5>1
      <4> QED BY <4>2, <4>3, <4>4
    <3> QED BY <3>4, <3>5
  <2> QED BY <2>1
<1>3. \A n \in Nat : n \in S
  <2> HIDE DEF S
  <2> QED BY <1>1, <1>2, SetInduction
<1>4. Cardinality(T) \in Nat
  BY FS_CardinalityType
<1> QED BY <1>3, <1>4

\* What a sum counts.
Counted(f) == UNION {{x} \X (1..f[x]) : x \in DOMAIN f}

\* The value of `Total`: how many units the values of f hold.
LEMMA TotalCounts ==
  ASSUME NEW f
  PROVE  Metric!Total(f) = Cardinality(Counted(f))
BY SameCounts DEF Metric!Total, Counted

\* A sum is a number.
LEMMA TotalIsNumber ==
  ASSUME NEW S, IsFiniteSet(S), NEW f \in [S -> Nat]
  PROVE  IsFiniteSet(Counted(f)) /\ Metric!Total(f) \in Nat
<1> DEFINE F == [x \in S |-> {x} \X (1..f[x])]
           T == {F[x] : x \in S}
<1>1. IsFiniteSet(T)
  <2>1. DOMAIN F = S
    OBVIOUS
  <2> HIDE DEF F
  <2> QED BY <2>1, FiniteValues
<1>2. ASSUME NEW U \in T PROVE IsFiniteSet(U)
  <2>1. PICK x \in S : U = {x} \X (1..f[x])
    OBVIOUS
  <2>2. IsFiniteSet({x}) /\ IsFiniteSet(1..f[x])
    <3>1. f[x] \in Int /\ 1 \in Int
      OBVIOUS
    <3> QED BY <3>1, FS_Singleton, FS_Interval
  <2> QED BY <2>1, <2>2, FS_Product
<1>3. Counted(f) = UNION T
  BY DEF Counted
<1>4. IsFiniteSet(Counted(f))
  <2> HIDE DEF T
  <2> QED BY <1>1, <1>2, <1>3, FS_UNION
<1> QED BY <1>4, TotalCounts, FS_CardinalityType

\* A sum with one number more.
LEMMA TotalWithOne ==
  ASSUME NEW S, IsFiniteSet(S), NEW x, x \notin S, NEW g \in [S -> Nat],
         NEW f \in [S \cup {x} -> Nat], \A y \in S : f[y] = g[y]
  PROVE  Metric!Total(f) = Metric!Total(g) + f[x]
<1> DEFINE A == {x} \X (1..f[x])
<1>1. Counted(f) = Counted(g) \cup A
  BY DEF Counted
<1>2. Counted(g) \cap A = {}
  BY DEF Counted
<1>3. IsFiniteSet(A) /\ Cardinality(A) = f[x]
  <2>1. f[x] \in Nat
    OBVIOUS
  <2>2. IsFiniteSet({x}) /\ Cardinality({x}) = 1
    BY FS_Singleton
  <2>3. IsFiniteSet(1..f[x]) /\ Cardinality(1..f[x]) = f[x]
    BY <2>1, FS_Interval
  <2>4. IsFiniteSet(A) /\ Cardinality(A) = Cardinality({x}) * Cardinality(1..f[x])
    BY <2>2, <2>3, FS_Product
  <2> QED BY <2>1, <2>2, <2>3, <2>4
<1>4. IsFiniteSet(Counted(g)) /\ Cardinality(Counted(g)) \in Nat
  BY TotalIsNumber, FS_CardinalityType
<1>5. Cardinality(Counted(f)) = Cardinality(Counted(g)) + f[x]
  <2> HIDE DEF A
  <2>1. Cardinality(Counted(g) \cup A)
           = Cardinality(Counted(g)) + Cardinality(A) - Cardinality(Counted(g) \cap A)
    BY <1>3, <1>4, FS_Union
  <2>2. Cardinality(Counted(g) \cap A) = 0
    BY <1>2, FS_EmptySet
  <2> QED BY <1>1, <1>3, <1>4, <2>1, <2>2
<1> QED BY <1>5, TotalCounts

\* A sum of nothing.
LEMMA TotalOfZeros ==
  ASSUME NEW S, NEW f \in [S -> Nat], \A x \in S : f[x] = 0
  PROVE  Metric!Total(f) = 0
<1>1. Counted(f) = {}
  BY DEF Counted
<1> QED BY <1>1, TotalCounts, FS_EmptySet

\* R orders the members of S strictly, and any two of them.
IsOrder(R, S) ==
    /\ \A x \in S : <<x, x>> \notin R
    /\ \A x, y, z \in S : <<x, y>> \in R /\ <<y, z>> \in R => <<x, z>> \in R
    /\ \A x, y \in S : x # y => <<x, y>> \in R \/ <<y, x>> \in R

\* The members of S before x.
Below(R, S, x) == {y \in S : <<y, x>> \in R}

\* What comes before another has fewer members before it.
LEMMA RankGrows ==
  ASSUME NEW S, IsFiniteSet(S), NEW R, IsOrder(R, S), NEW x \in S, NEW y \in S, <<x, y>> \in R
  PROVE  /\ Cardinality(Below(R, S, x)) \in Nat /\ Cardinality(Below(R, S, y)) \in Nat
         /\ Cardinality(Below(R, S, x)) < Cardinality(Below(R, S, y))
<1>1. PICK A : A = Below(R, S, x)
  OBVIOUS
<1>2. PICK B : B = Below(R, S, y)
  OBVIOUS
<1>3. A \subseteq S /\ B \subseteq S
  BY <1>1, <1>2 DEF Below
<1>4. IsFiniteSet(A) /\ IsFiniteSet(B)
  BY <1>3, FS_Subset
<1>5. x \notin A /\ A \cup {x} \subseteq B
  BY <1>1, <1>2 DEF Below, IsOrder
<1>6. Cardinality(A \cup {x}) = Cardinality(A) + 1
  BY <1>4, <1>5, FS_AddElement
<1>7. Cardinality(A \cup {x}) <= Cardinality(B)
  BY <1>4, <1>5, FS_Subset
<1>8. Cardinality(A) \in Nat /\ Cardinality(B) \in Nat
  BY <1>4, FS_CardinalityType
<1> QED BY <1>1, <1>2, <1>6, <1>7, <1>8

\* Every place in the order of a finite set is taken.
LEMMA RanksAreTaken ==
  ASSUME NEW S, IsFiniteSet(S), NEW R, IsOrder(R, S)
  PROVE  \A k \in 1..Cardinality(S) : \E x \in S : Cardinality(Below(R, S, x)) = k - 1
<1>1. PICK n \in Nat : n = Cardinality(S)
  BY FS_CardinalityType
<1> DEFINE F == [x \in S |-> Cardinality(Below(R, S, x))]
<1>2. ASSUME NEW x \in S PROVE F[x] \in 0..(n - 1)
  <2>1. Below(R, S, x) \subseteq S \ {x} /\ IsFiniteSet(S \ {x}) /\ Cardinality(S \ {x}) = n - 1
    <3>1. IsFiniteSet(S \ {x}) /\ Cardinality(S \ {x}) = n - 1
      BY <1>1, FS_RemoveElement
    <3>2. Below(R, S, x) \subseteq S \ {x}
      BY DEF Below, IsOrder
    <3> QED BY <3>1, <3>2
  <2>2. /\ Cardinality(Below(R, S, x)) <= n - 1 /\ Cardinality(Below(R, S, x)) \in Nat
    BY <2>1, FS_Subset, FS_CardinalityType
  <2> QED BY <1>1, <2>2
<1>3. F \in Injection(S, 0..(n - 1))
  <2>1. ASSUME NEW x \in S, NEW y \in S, x # y PROVE F[x] # F[y]
    <3>1. CASE <<x, y>> \in R
      BY <3>1, RankGrows
    <3>2. CASE <<y, x>> \in R
      BY <3>2, RankGrows
    <3> QED BY <2>1, <3>1, <3>2 DEF IsOrder
  <2>2. F \in [S -> 0..(n - 1)]
    BY <1>2
  <2> HIDE DEF F
  <2> QED BY <2>1, <2>2 DEF Injection, IsInjective
<1>4. IsFiniteSet(0..(n - 1)) /\ Cardinality(0..(n - 1)) = n
  <2>1. 0 \in Int /\ n - 1 \in Int
    OBVIOUS
  <2>2. IsFiniteSet(0..(n - 1)) /\ Cardinality(0..(n - 1)) = IF 0 > n - 1 THEN 0 ELSE (n - 1) - 0 + 1
    BY <2>1, FS_Interval
  <2> QED BY <2>2
<1>5. F \in Surjection(S, 0..(n - 1))
  <2> HIDE DEF F
  <2> QED BY <1>1, <1>3, <1>4, FS_Injection
<1>6. ASSUME NEW k \in 1..n PROVE \E x \in S : Cardinality(Below(R, S, x)) = k - 1
  <2>1. k - 1 \in 0..(n - 1)
    OBVIOUS
  <2>2. PICK x \in S : F[x] = k - 1
    BY <1>5, <2>1 DEF Surjection
  <2> QED BY <2>2
<1> QED BY <1>1, <1>6

\* G gives the value of a recursive definition at i from its values at lower ranks.
IsStep(G, I, V, rank) ==
    /\ rank \in [I -> Nat]
    /\ G \in [[I -> V] \X I -> V]
    /\ \A f, g \in [I -> V], i \in I :
          (\A j \in I : rank[j] < rank[i] => f[j] = g[j]) => G[<<f, i>>] = G[<<g, i>>]

\* A recursive definition that looks at lower ranks only describes a function.
LEMMA RecursionExists ==
  ASSUME NEW I, NEW V, NEW rank, NEW G, IsStep(G, I, V, rank), NEW b \in V,
         NEW n \in Nat, \A i \in I : rank[i] < n
  PROVE  \E f \in [I -> V] : \A i \in I : f[i] = G[<<f, i>>]
<1> DEFINE S == {m \in Nat : \E f \in [I -> V] : \A i \in I : rank[i] < m => f[i] = G[<<f, i>>]}
<1>1. 0 \in S
  <2>1. [i \in I |-> b] \in [I -> V] /\ \A i \in I : ~(rank[i] < 0)
    BY DEF IsStep
  <2> QED BY <2>1
<1>2. ASSUME NEW m \in Nat, m \in S PROVE m + 1 \in S
  <2>1. PICK f \in [I -> V] : \A i \in I : rank[i] < m => f[i] = G[<<f, i>>]
    BY <1>2
  <2>2. PICK g : g = [i \in I |-> G[<<f, i>>]]
    OBVIOUS
  <2>3. g \in [I -> V] /\ \A i \in I : g[i] = G[<<f, i>>]
    BY <2>2 DEF IsStep
  <2>4. \A i \in I : rank[i] < m => g[i] = f[i]
    BY <2>1, <2>3
  <2>5. ASSUME NEW i \in I, rank[i] < m + 1 PROVE G[<<g, i>>] = G[<<f, i>>]
    <3>1. \A j \in I : rank[j] < rank[i] => g[j] = f[j]
      BY <2>4, <2>5 DEF IsStep
    <3> QED BY <2>3, <3>1 DEF IsStep
  <2>6. \A i \in I : rank[i] < m + 1 => g[i] = G[<<g, i>>]
    BY <2>3, <2>5
  <2> QED BY <2>3, <2>6
<1> HIDE DEF S
<1>3. n \in S
  BY <1>1, <1>2, SetInduction
<1> QED BY <1>3 DEF S

-----------------------------------------------------------------------------
(* The table of _tree_distance() *)

\* Induction over a set whose members have ranks.
LEMMA RankInduction ==
  ASSUME NEW I, NEW rank \in [I -> Nat], NEW S,
         \A i \in I : (\A j \in I : rank[j] < rank[i] => j \in S) => i \in S
  PROVE  I \subseteq S
<1> SUFFICES ASSUME NEW x \in I, x \notin S PROVE FALSE
  OBVIOUS
<1> DEFINE T == {rank[i] : i \in I \ S}
<1>1. T \subseteq Nat /\ T # {}
  OBVIOUS
<1>2. PICK n \in T : \A m \in T : n <= m
  <2> HIDE DEF T
  <2> QED BY <1>1, LeastNumber
<1>3. PICK i \in I \ S : n = rank[i]
  BY <1>2
<1>4. ASSUME NEW j \in I, rank[j] < rank[i], j \notin S PROVE FALSE
  <2>1. rank[j] \in T /\ rank[j] \in Nat /\ rank[i] \in Nat
    BY <1>4
  <2> HIDE DEF T
  <2>2. n <= rank[j]
    BY <1>2, <2>1
  <2> QED BY <1>3, <1>4, <2>1, <2>2
<1> QED BY <1>3, <1>4

\* The entries of a table of distances, the cost of one of them, and the table.
Grid(m, n) == (0..m) \X (0..n)
LeastOf(a, b, c) == Metric!MinN(Metric!MinN(a, b), c)
StepCost(D, l, r, t, p) ==
    IF p[1] = 0 THEN IF p[2] = 0 THEN 0 ELSE D[<<0, p[2] - 1>>] + r[p[2]]
    ELSE IF p[2] = 0 THEN D[<<p[1] - 1, 0>>] + l[p[1]]
    ELSE LeastOf(D[<<p[1] - 1, p[2]>>] + l[p[1]], D[<<p[1], p[2] - 1>>] + r[p[2]],
                 D[<<p[1] - 1, p[2] - 1>>] + t[<<p[1], p[2]>>])
TableOf(l, r, t) ==
    CHOOSE D : D = [p \in Grid(Len(l), Len(r)) |-> StepCost(D, l, r, t, p)]

\* The distance of two sequences: the last entry of their table.
LEMMA DistanceIs ==
  ASSUME NEW l, NEW r, NEW t
  PROVE  Metric!Distance(l, r, t) = TableOf(l, r, t)[<<Len(l), Len(r)>>]
BY DEF Metric!Distance, TableOf, Grid, StepCost, LeastOf

\* The costs of two nodes with children.
Costs(l, r, t) ==
    /\ l \in Seq(Nat) /\ r \in Seq(Nat)
    /\ t \in [(1..Len(l)) \X (1..Len(r)) -> Nat]

\* The table of the least costs of turning one beginning into another.
IsTable(D, l, r, t) ==
    /\ D \in [Grid(Len(l), Len(r)) -> Nat]
    /\ D[<<0, 0>>] = 0
    /\ \A j \in 1..Len(r) : D[<<0, j>>] = D[<<0, j - 1>>] + r[j]
    /\ \A i \in 1..Len(l) : D[<<i, 0>>] = D[<<i - 1, 0>>] + l[i]
    /\ \A i \in 1..Len(l), j \in 1..Len(r) :
          D[<<i, j>>] = LeastOf(D[<<i - 1, j>>] + l[i], D[<<i, j - 1>>] + r[j],
                                D[<<i - 1, j - 1>>] + t[<<i, j>>])

\* The least of three numbers is one of them and at most each of them.
LEMMA LeastIsOne ==
  ASSUME NEW a \in Nat, NEW b \in Nat, NEW c \in Nat
  PROVE  /\ LeastOf(a, b, c) \in {a, b, c} /\ LeastOf(a, b, c) \in Nat
         /\ LeastOf(a, b, c) <= a /\ LeastOf(a, b, c) <= b /\ LeastOf(a, b, c) <= c
BY DEF LeastOf, Metric!MinN

\* The table that `Distance` chooses exists: the recursion over rows and columns has a solution.
LEMMA TableExists ==
  ASSUME NEW l, NEW r, NEW t, Costs(l, r, t)
  PROVE  IsTable(TableOf(l, r, t), l, r, t)
<1> DEFINE I == Grid(Len(l), Len(r))
           G == [w \in [I -> Nat] \X I |-> StepCost(w[1], l, r, t, w[2])]
           rank == [p \in I |-> p[1] + p[2]]
<1>0. PICK m \in Nat : m = Len(l)
  BY DEF Costs
<1>c. PICK n \in Nat : n = Len(r)
  BY DEF Costs
<1>d. /\ l \in Seq(Nat) /\ r \in Seq(Nat)
      /\ t \in [(1..m) \X (1..n) -> Nat]
  BY <1>0, <1>c DEF Costs
<1>1. /\ \A i \in 1..m : l[i] \in Nat
      /\ \A j \in 1..n : r[j] \in Nat
      /\ \A i \in 1..m, j \in 1..n : t[<<i, j>>] \in Nat
  <2>1. \A i \in 1..m : l[i] \in Nat
    BY <1>0, <1>d
  <2>2. \A j \in 1..n : r[j] \in Nat
    BY <1>c, <1>d
  <2>3. \A i \in 1..m, j \in 1..n : t[<<i, j>>] \in Nat
    BY <1>d
  <2> QED BY <2>1, <2>2, <2>3
<1>2. I = (0..m) \X (0..n)
  BY <1>0, <1>c DEF Grid
<1>3. ASSUME NEW f, NEW p \in I, \A q \in I : rank[q] < rank[p] => f[q] \in Nat
      PROVE  StepCost(f, l, r, t, p) \in Nat
  <2>1. PICK i \in 0..m, j \in 0..n : p = <<i, j>>
    BY <1>2
  <2>0. \A a \in 0..m, b \in 0..n : a + b < i + j => f[<<a, b>>] \in Nat
    <3>1. ASSUME NEW a \in 0..m, NEW b \in 0..n, a + b < i + j PROVE f[<<a, b>>] \in Nat
      <4>1. <<a, b>> \in I /\ rank[<<a, b>>] = a + b /\ rank[p] = i + j
        BY <1>2, <2>1
      <4> QED BY <1>3, <3>1, <4>1
    <3> QED BY <3>1
  <2>2. CASE i = 0 /\ j = 0
    BY <2>1, <2>2 DEF StepCost
  <2>3. CASE i = 0 /\ j # 0
    <3>1. f[<<0, j - 1>>] \in Nat /\ j \in 1..n
      BY <2>0, <2>3
    <3> QED BY <1>1, <2>1, <2>3, <3>1 DEF StepCost
  <2>4. CASE i # 0 /\ j = 0
    <3>1. f[<<i - 1, 0>>] \in Nat /\ i \in 1..m
      BY <2>0, <2>4
    <3> QED BY <1>1, <2>1, <2>4, <3>1 DEF StepCost
  <2>5. CASE i # 0 /\ j # 0
    <3>1. i \in 1..m /\ j \in 1..n
      BY <2>5
    <3>2. /\ f[<<i - 1, j>>] \in Nat /\ f[<<i, j - 1>>] \in Nat
          /\ f[<<i - 1, j - 1>>] \in Nat
      BY <2>0, <3>1
    <3>3. PICK x \in Nat : x = f[<<i - 1, j>>] + l[i]
      BY <1>1, <3>1, <3>2
    <3>4. PICK y \in Nat : y = f[<<i, j - 1>>] + r[j]
      BY <1>1, <3>1, <3>2
    <3>5. PICK z \in Nat : z = f[<<i - 1, j - 1>>] + t[<<i, j>>]
      BY <1>1, <3>1, <3>2
    <3>6. StepCost(f, l, r, t, p) = LeastOf(x, y, z)
      BY <2>1, <2>5, <3>3, <3>4, <3>5 DEF StepCost
    <3> QED BY <3>6, LeastIsOne
  <2> QED BY <2>2, <2>3, <2>4, <2>5
<1>4. ASSUME NEW f \in [I -> Nat], NEW g \in [I -> Nat], NEW p \in I,
             \A q \in I : rank[q] < rank[p] => f[q] = g[q]
      PROVE  StepCost(f, l, r, t, p) = StepCost(g, l, r, t, p)
  <2>1. PICK i \in 0..m, j \in 0..n : p = <<i, j>>
    BY <1>2
  <2>2. \A a \in 0..m, b \in 0..n : a + b < i + j => f[<<a, b>>] = g[<<a, b>>]
    <3>1. ASSUME NEW a \in 0..m, NEW b \in 0..n, a + b < i + j PROVE f[<<a, b>>] = g[<<a, b>>]
      <4>1. <<a, b>> \in I /\ rank[<<a, b>>] = a + b /\ rank[p] = i + j
        BY <1>2, <2>1
      <4> QED BY <1>4, <3>1, <4>1
    <3> QED BY <3>1
  <2>3. i # 0 => /\ f[<<i - 1, j>>] = g[<<i - 1, j>>]
                 /\ (j # 0 => f[<<i - 1, j - 1>>] = g[<<i - 1, j - 1>>])
    BY <2>2
  <2>4. j # 0 => f[<<i, j - 1>>] = g[<<i, j - 1>>]
    BY <2>2
  <2> QED BY <2>1, <2>3, <2>4 DEF StepCost
<1>5. IsStep(G, I, Nat, rank)
  <2>1. rank \in [I -> Nat]
    BY <1>2
  <2>2. G \in [[I -> Nat] \X I -> Nat]
    <3>1. ASSUME NEW f \in [I -> Nat], NEW p \in I PROVE StepCost(f, l, r, t, p) \in Nat
      BY <1>3
    <3> QED BY <3>1
  <2>3. ASSUME NEW f \in [I -> Nat], NEW g \in [I -> Nat], NEW p \in I,
               \A q \in I : rank[q] < rank[p] => f[q] = g[q]
        PROVE  G[<<f, p>>] = G[<<g, p>>]
    <3>1. StepCost(f, l, r, t, p) = StepCost(g, l, r, t, p)
      BY <1>4, <2>3
    <3> QED BY <3>1
  <2> HIDE DEF G, rank, I
  <2> QED BY <2>1, <2>2, <2>3 DEF IsStep
<1>6. PICK f \in [I -> Nat] : \A p \in I : f[p] = G[<<f, p>>]
  <2>1. m + n + 1 \in Nat /\ \A p \in I : rank[p] < m + n + 1
    BY <1>2
  <2> HIDE DEF G, rank, I
  <2> QED BY <1>5, <2>1, RecursionExists
<1>7. \A p \in I : f[p] = StepCost(f, l, r, t, p)
  BY <1>6
<1>8. f = [p \in I |-> StepCost(f, l, r, t, p)]
  BY <1>6, <1>7
<1>9. PICK D : D = TableOf(l, r, t)
  OBVIOUS
<1>10. D = [p \in I |-> StepCost(D, l, r, t, p)]
  BY <1>8, <1>9 DEF TableOf
<1>12. D \in [I -> Nat]
  <2> DEFINE S == {p \in I : D[p] \in Nat}
  <2>1. ASSUME NEW p \in I, \A q \in I : rank[q] < rank[p] => q \in S PROVE p \in S
    <3>1. StepCost(D, l, r, t, p) \in Nat
      BY <1>3, <2>1
    <3>2. D[p] = StepCost(D, l, r, t, p)
      BY <1>10
    <3> QED BY <3>1, <3>2
  <2>2. rank \in [I -> Nat]
    BY <1>2
  <2>3. I \subseteq S
    <3> HIDE DEF I, rank, S
    <3> QED BY <2>1, <2>2, RankInduction
  <2>4. DOMAIN D = I /\ \A p \in I : D[p] \in Nat
    BY <1>10, <2>3
  <2>5. D = [p \in I |-> D[p]]
    <3> HIDE DEF I
    <3> QED BY <1>10
  <2> HIDE DEF I
  <2> QED BY <2>4, <2>5
<1>13. \A p \in I : D[p] = StepCost(D, l, r, t, p)
  <2> HIDE DEF I
  <2> QED BY <1>10
<1>14. D[<<0, 0>>] = 0
  <2>1. <<0, 0>> \in I
    BY <1>2
  <2> HIDE DEF I
  <2> QED BY <1>13, <2>1 DEF StepCost
<1>15. ASSUME NEW j \in 1..n PROVE D[<<0, j>>] = D[<<0, j - 1>>] + r[j]
  <2>1. <<0, j>> \in I /\ j # 0
    BY <1>2
  <2> HIDE DEF I
  <2> QED BY <1>13, <2>1 DEF StepCost
<1>16. ASSUME NEW i \in 1..m PROVE D[<<i, 0>>] = D[<<i - 1, 0>>] + l[i]
  <2>1. <<i, 0>> \in I /\ i # 0
    BY <1>2
  <2> HIDE DEF I
  <2> QED BY <1>13, <2>1 DEF StepCost
<1>17. ASSUME NEW i \in 1..m, NEW j \in 1..n
       PROVE  D[<<i, j>>] = LeastOf(D[<<i - 1, j>>] + l[i], D[<<i, j - 1>>] + r[j],
                                D[<<i - 1, j - 1>>] + t[<<i, j>>])
  <2>1. <<i, j>> \in I /\ i # 0 /\ j # 0
    BY <1>2
  <2> HIDE DEF I
  <2> QED BY <1>13, <2>1 DEF StepCost
<1> HIDE DEF I
<1> QED BY <1>0, <1>c, <1>9, <1>12, <1>14, <1>15, <1>16, <1>17 DEF IsTable, I

\* Every entry of the table is a number.
LEMMA EntryIsNumber ==
  ASSUME NEW l, NEW r, NEW t, NEW D, IsTable(D, l, r, t)
  PROVE  \A i \in 0..Len(l), j \in 0..Len(r) : D[<<i, j>>] \in Nat
BY DEF IsTable, Grid

\* A distance is a number.
LEMMA DistanceIsNumber ==
  ASSUME NEW l, NEW r, NEW t, Costs(l, r, t)
  PROVE  Metric!Distance(l, r, t) \in Nat
<1>1. <<Len(l), Len(r)>> \in Grid(Len(l), Len(r))
  BY DEF Costs, Grid
<1> QED BY <1>1, TableExists, DistanceIs DEF IsTable

\* No cost counts down: cheaper turns never make the distance longer.
LEMMA DistanceGrows ==
  ASSUME NEW l, NEW r, NEW t, Costs(l, r, t), NEW u, Costs(l, r, u),
         \A i \in 1..Len(l), j \in 1..Len(r) : t[<<i, j>>] <= u[<<i, j>>]
  PROVE  Metric!Distance(l, r, t) <= Metric!Distance(l, r, u)
<1>1. PICK m \in Nat : m = Len(l)
  BY DEF Costs
<1>2. PICK n \in Nat : n = Len(r)
  BY DEF Costs
<1>3. PICK D : D = TableOf(l, r, t) /\ IsTable(D, l, r, t)
  BY TableExists
<1>4. PICK E : E = TableOf(l, r, u) /\ IsTable(E, l, r, u)
  BY TableExists
<1>5. \A i \in 0..m, j \in 0..n : D[<<i, j>>] \in Nat /\ E[<<i, j>>] \in Nat
  BY <1>1, <1>2, <1>3, <1>4, EntryIsNumber
<1> DEFINE S == {k \in Nat : \A i \in 0..m, j \in 0..n : i + j <= k => D[<<i, j>>] <= E[<<i, j>>]}
<1>6. 0 \in S
  <2>1. D[<<0, 0>>] <= E[<<0, 0>>]
    BY <1>3, <1>4 DEF IsTable
  <2>2. ASSUME NEW i \in 0..m, NEW j \in 0..n, i + j <= 0 PROVE D[<<i, j>>] <= E[<<i, j>>]
    <3>1. i = 0 /\ j = 0
      BY <2>2
    <3> QED BY <2>1, <3>1
  <2> QED BY <2>2
<1>7. ASSUME NEW k \in Nat, k \in S PROVE k + 1 \in S
  <2>1. ASSUME NEW i \in 0..m, NEW j \in 0..n, i + j <= k + 1 PROVE D[<<i, j>>] <= E[<<i, j>>]
    <3>1. CASE i = 0 /\ j = 0
      BY <1>3, <1>4, <3>1 DEF IsTable
    <3>2. CASE i = 0 /\ j # 0
      <4>1. D[<<0, j - 1>>] <= E[<<0, j - 1>>] /\ D[<<0, j - 1>>] \in Nat /\ E[<<0, j - 1>>] \in Nat
        BY <1>5, <1>7, <2>1, <3>2
      <4>2. D[<<0, j>>] = D[<<0, j - 1>>] + r[j] /\ E[<<0, j>>] = E[<<0, j - 1>>] + r[j]
        BY <1>2, <1>3, <1>4, <3>2 DEF IsTable
      <4>3. r[j] \in Nat
        BY <1>2, <3>2 DEF Costs
      <4> QED BY <3>2, <4>1, <4>2, <4>3
    <3>3. CASE i # 0 /\ j = 0
      <4>1. D[<<i - 1, 0>>] <= E[<<i - 1, 0>>] /\ D[<<i - 1, 0>>] \in Nat /\ E[<<i - 1, 0>>] \in Nat
        BY <1>5, <1>7, <2>1, <3>3
      <4>2. D[<<i, 0>>] = D[<<i - 1, 0>>] + l[i] /\ E[<<i, 0>>] = E[<<i - 1, 0>>] + l[i]
        BY <1>1, <1>3, <1>4, <3>3 DEF IsTable
      <4>3. l[i] \in Nat
        BY <1>1, <3>3 DEF Costs
      <4> QED BY <3>3, <4>1, <4>2, <4>3
    <3>4. CASE i # 0 /\ j # 0
      <4>0. /\ i \in 1..m /\ j \in 1..n /\ i \in 1..Len(l) /\ j \in 1..Len(r)
            /\ i - 1 \in 0..m /\ j - 1 \in 0..n
        BY <1>1, <1>2, <3>4
      <4>1. l[i] \in Nat /\ r[j] \in Nat
        BY <4>0 DEF Costs
      <4>2. t[<<i, j>>] \in Nat /\ u[<<i, j>>] \in Nat /\ t[<<i, j>>] <= u[<<i, j>>]
        BY <4>0 DEF Costs
      <4>3. /\ D[<<i - 1, j>>] <= E[<<i - 1, j>>] /\ D[<<i, j - 1>>] <= E[<<i, j - 1>>]
            /\ D[<<i - 1, j - 1>>] <= E[<<i - 1, j - 1>>]
        BY <1>7, <2>1, <4>0
      <4>4. D[<<i, j>>] = LeastOf(D[<<i - 1, j>>] + l[i], D[<<i, j - 1>>] + r[j],
                                  D[<<i - 1, j - 1>>] + t[<<i, j>>])
        BY <1>3, <4>0 DEF IsTable
      <4>5. E[<<i, j>>] = LeastOf(E[<<i - 1, j>>] + l[i], E[<<i, j - 1>>] + r[j],
                                  E[<<i - 1, j - 1>>] + u[<<i, j>>])
        BY <1>4, <4>0 DEF IsTable
      <4>6. /\ D[<<i - 1, j>>] \in Nat /\ E[<<i - 1, j>>] \in Nat
            /\ D[<<i, j - 1>>] \in Nat /\ E[<<i, j - 1>>] \in Nat
            /\ D[<<i - 1, j - 1>>] \in Nat /\ E[<<i - 1, j - 1>>] \in Nat
        BY <1>5, <4>0
      <4> QED BY ONLY <4>1, <4>2, <4>3, <4>4, <4>5, <4>6 DEF LeastOf, Metric!MinN
    <3> QED BY <3>1, <3>2, <3>3, <3>4
  <2> QED BY <2>1
<1>8. m + n \in S
  <2>1. \A k \in Nat : k \in S
    <3> HIDE DEF S
    <3> QED BY <1>6, <1>7, SetInduction
  <2> QED BY <2>1
<1>9. D[<<m, n>>] <= E[<<m, n>>]
  BY <1>8
<1> QED BY <1>1, <1>2, <1>3, <1>4, <1>9, DistanceIs

\* Children that cost nothing to turn into their counterparts.
LEMMA DistanceOfSame ==
  ASSUME NEW l, NEW t, Costs(l, l, t), \A i \in 1..Len(l) : t[<<i, i>>] = 0
  PROVE  Metric!Distance(l, l, t) = 0
<1>1. PICK m \in Nat : m = Len(l)
  BY DEF Costs
<1>2. PICK D : D = TableOf(l, l, t) /\ IsTable(D, l, l, t)
  BY TableExists
<1>c. \A i \in 0..m, j \in 0..m : D[<<i, j>>] \in Nat
  BY <1>1, <1>2, EntryIsNumber
<1> DEFINE S == {k \in Nat : k <= m => D[<<k, k>>] = 0}
<1>3. 0 \in S
  BY <1>2 DEF IsTable
<1>4. ASSUME NEW k \in Nat, k \in S PROVE k + 1 \in S
  <2>1. CASE k + 1 <= m
    <3>0. PICK i \in 1..m : i = k + 1
      BY <2>1
    <3>1. /\ D[<<i - 1, i>>] \in Nat /\ D[<<i, i - 1>>] \in Nat /\ D[<<i - 1, i - 1>>] = 0
      BY <1>4, <1>c, <2>1, <3>0
    <3>2. l[i] \in Nat /\ t[<<i, i>>] = 0
      BY <1>1 DEF Costs
    <3>3. D[<<i, i>>] = LeastOf(D[<<i - 1, i>>] + l[i], D[<<i, i - 1>>] + l[i],
                                D[<<i - 1, i - 1>>] + t[<<i, i>>])
      BY <1>1, <1>2 DEF IsTable
    <3>4. D[<<i, i>>] = 0
      BY ONLY <3>1, <3>2, <3>3 DEF LeastOf, Metric!MinN
    <3> QED BY <3>0, <3>4
  <2>2. CASE ~(k + 1 <= m)
    BY <2>2
  <2> QED BY <2>1, <2>2
<1>5. \A k \in Nat : k \in S
  <2> HIDE DEF S
  <2> QED BY <1>3, <1>4, SetInduction
<1>6. D[<<m, m>>] = 0
  BY <1>5
<1> QED BY <1>1, <1>2, <1>6, DistanceIs

-----------------------------------------------------------------------------
(* Pairings of cells *)

\* The increasing pairings of the first i with the first j, and what one costs.
PairingsOf(i, j) == {m \in SUBSET ((1..i) \X (1..j)) : Metric!Increasing(m)}
CostOf(s, i, j, t, m) ==
    s * (i + j - 2 * Cardinality(m)) + Metric!Total([p \in m |-> t[p]])

\* The weights of pairs.
Weights(t, i, j) == \A p \in (1..i) \X (1..j) : t[p] \in Nat

\* A pairing is finite, and its cost is a number.
LEMMA PairingIsFinite ==
  ASSUME NEW i \in Nat, NEW j \in Nat, NEW m \in PairingsOf(i, j), NEW t, Weights(t, i, j)
  PROVE  /\ IsFiniteSet(m) /\ Cardinality(m) \in Nat
         /\ Metric!Total([p \in m |-> t[p]]) \in Nat
<1>1. IsFiniteSet(1..i) /\ IsFiniteSet(1..j)
  <2>1. 1 \in Int /\ i \in Int /\ j \in Int
    OBVIOUS
  <2> QED BY <2>1, FS_Interval
<1>2. IsFiniteSet((1..i) \X (1..j))
  BY <1>1, FS_Product
<1>3. m \subseteq (1..i) \X (1..j)
  BY DEF PairingsOf
<1>4. IsFiniteSet(m)
  BY <1>2, <1>3, FS_Subset
<1>5. [p \in m |-> t[p]] \in [m -> Nat]
  BY <1>3 DEF Weights
<1> QED BY <1>4, <1>5, FS_CardinalityType, TotalIsNumber

\* The cost of a pairing is a number.
LEMMA CostIsInt ==
  ASSUME NEW s \in Nat, NEW i \in Nat, NEW j \in Nat, NEW m \in PairingsOf(i, j), NEW t,
         Weights(t, i, j)
  PROVE  CostOf(s, i, j, t, m) \in Int
<1>1. PICK n \in Nat : n = Cardinality(m)
  BY PairingIsFinite
<1>2. PICK w \in Nat : w = Metric!Total([p \in m |-> t[p]])
  BY PairingIsFinite
<1>3. CostOf(s, i, j, t, m) = s * (i + j - 2 * n) + w
  BY <1>1, <1>2 DEF CostOf
<1>4. s * (i + j - 2 * n) \in Int
  OBVIOUS
<1> QED BY <1>2, <1>3, <1>4

\* A child more on one side that stays unpaired.
LEMMA PairingWider ==
  ASSUME NEW i \in Nat, NEW j \in Nat, NEW a \in 0..i, NEW b \in 0..j, NEW m \in PairingsOf(a, b)
  PROVE  m \in PairingsOf(i, j)
BY DEF PairingsOf

\* Two sums that differ in a unit.
LEMMA UnitMore ==
  ASSUME NEW s \in Nat, NEW w \in Nat, NEW x \in Int, NEW y, NEW z, y = x + s + w, z = x + w
  PROVE  y = z + s
OBVIOUS

\* A pairing read over one more row or column leaves that one out: it costs one unit more.
LEMMA CostOfWider ==
  ASSUME NEW s \in Nat, NEW i \in Nat, NEW j \in Nat, NEW a \in Nat, NEW b \in Nat,
         a + b + 1 = i + j, NEW m \in PairingsOf(a, b), NEW t, Weights(t, a, b)
  PROVE  CostOf(s, i, j, t, m) = CostOf(s, a, b, t, m) + s
<1>1. PICK n \in Nat : n = Cardinality(m)
  BY PairingIsFinite
<1>2. PICK w \in Nat : w = Metric!Total([p \in m |-> t[p]])
  BY PairingIsFinite
<1>3. s * ((a + b + 1) - 2 * n) = s * (a + b - 2 * n) + s
  OBVIOUS
<1>4. CostOf(s, i, j, t, m) = s * (i + j - 2 * n) + w /\ CostOf(s, a, b, t, m) = s * (a + b - 2 * n) + w
  BY <1>1, <1>2 DEF CostOf
<1>5. s * (i + j - 2 * n) = s * (a + b - 2 * n) + s /\ s * (a + b - 2 * n) \in Int
  BY <1>3
<1>6. PICK x \in Int : x = s * (a + b - 2 * n)
  BY <1>5
<1>7. PICK y : y = CostOf(s, i, j, t, m) /\ y = x + s + w
  BY <1>4, <1>5, <1>6
<1>8. PICK z : z = CostOf(s, a, b, t, m) /\ z = x + w
  BY <1>4, <1>6
<1>9. y = z + s
  BY <1>2, <1>6, <1>7, <1>8, UnitMore
<1> QED BY <1>7, <1>8, <1>9

\* The last children of both sides paired.
LEMMA PairingWithLast ==
  ASSUME NEW s \in Nat, NEW i \in Nat, NEW j \in Nat, i >= 1, j >= 1,
         NEW m \in PairingsOf(i - 1, j - 1), NEW t, Weights(t, i, j)
  PROVE  /\ m \cup {<<i, j>>} \in PairingsOf(i, j)
         /\ CostOf(s, i, j, t, m \cup {<<i, j>>}) = CostOf(s, i - 1, j - 1, t, m) + t[<<i, j>>]
<1>1. PICK x : x = <<i, j>>
  OBVIOUS
<1>2. x \notin m /\ m \subseteq (1..(i - 1)) \X (1..(j - 1)) /\ Metric!Increasing(m)
  BY <1>1 DEF PairingsOf
<1>3. x[1] = i /\ x[2] = j /\ x \in (1..i) \X (1..j)
  BY <1>1
<1>4. m \subseteq (1..i) \X (1..j)
  BY <1>2
<1>5. Metric!Increasing(m \cup {x})
  <2>1. ASSUME NEW p \in m \cup {x}, NEW q \in m \cup {x} PROVE p[1] < q[1] <=> p[2] < q[2]
    <3>1. CASE p \in m /\ q \in m
      BY <1>2, <3>1 DEF Metric!Increasing
    <3>2. CASE p \in m /\ q = x
      BY <1>2, <1>3, <3>2
    <3>3. CASE p = x /\ q \in m
      BY <1>2, <1>3, <3>3
    <3>4. CASE p = x /\ q = x
      BY <1>3, <3>4
    <3> QED BY <3>1, <3>2, <3>3, <3>4
  <2> QED BY <2>1 DEF Metric!Increasing
<1>6. m \cup {x} \in PairingsOf(i, j)
  BY <1>3, <1>4, <1>5 DEF PairingsOf
<1>7. i - 1 \in Nat /\ j - 1 \in Nat /\ Weights(t, i - 1, j - 1)
  BY DEF Weights
<1>8. IsFiniteSet(m) /\ Cardinality(m) \in Nat
  BY <1>7, PairingIsFinite
<1>9. Cardinality(m \cup {x}) = Cardinality(m) + 1
  BY <1>2, <1>8, FS_AddElement
<1>10. Metric!Total([p \in m \cup {x} |-> t[p]]) = Metric!Total([p \in m |-> t[p]]) + t[x]
  <2>1. PICK f : f = [p \in m \cup {x} |-> t[p]]
    OBVIOUS
  <2>2. PICK g : g = [p \in m |-> t[p]]
    OBVIOUS
  <2>3. f \in [m \cup {x} -> Nat] /\ g \in [m -> Nat] /\ \A y \in m : f[y] = g[y]
    BY <1>3, <1>4, <2>1, <2>2 DEF Weights
  <2>4. Metric!Total(f) = Metric!Total(g) + f[x]
    BY <1>2, <1>8, <2>3, TotalWithOne
  <2>5. f[x] = t[x]
    BY <2>1
  <2> QED BY <2>1, <2>2, <2>4, <2>5
<1>11. PICK n \in Nat : n = Cardinality(m)
  BY <1>8
<1>12. PICK w \in Nat : w = Metric!Total([p \in m |-> t[p]])
  BY <1>7, PairingIsFinite
<1>13. t[x] \in Nat
  BY <1>3 DEF Weights
<1>14. CostOf(s, i, j, t, m \cup {x}) = s * (i + j - 2 * (n + 1)) + (w + t[x])
  BY <1>9, <1>10, <1>11, <1>12 DEF CostOf
<1>15. CostOf(s, i - 1, j - 1, t, m) = s * ((i - 1) + (j - 1) - 2 * n) + w
  BY <1>11, <1>12 DEF CostOf
<1>16. i + j - 2 * (n + 1) = (i - 1) + (j - 1) - 2 * n /\ s * ((i - 1) + (j - 1) - 2 * n) \in Int
  OBVIOUS
<1>17. s * (i + j - 2 * (n + 1)) = s * ((i - 1) + (j - 1) - 2 * n)
  BY <1>16
<1>18. CostOf(s, i, j, t, m \cup {x}) = CostOf(s, i - 1, j - 1, t, m) + t[x]
  BY ONLY <1>12, <1>13, <1>14, <1>15, <1>16, <1>17
<1> QED BY <1>1, <1>6, <1>18

\* A pairing leaves out the last child of one side, or pairs the last two.
Narrower(m, i, j) ==
    \/ m \in PairingsOf(i - 1, j)
    \/ m \in PairingsOf(i, j - 1)
    \/ \E o \in PairingsOf(i - 1, j - 1) : m = o \cup {<<i, j>>}

\* A pairing of the first i and j either holds the pair of both last ones or
\* leaves one of the last ones out.
LEMMA LastOfPairing ==
  ASSUME NEW i \in Nat, NEW j \in Nat, i >= 1, j >= 1, NEW m \in PairingsOf(i, j)
  PROVE  Narrower(m, i, j)
<1>1. m \subseteq (1..i) \X (1..j) /\ Metric!Increasing(m)
  BY DEF PairingsOf
<1>2. CASE \A p \in m : p[1] # i
  <2>1. m \subseteq (1..(i - 1)) \X (1..j)
    BY <1>1, <1>2
  <2> QED BY <1>1, <2>1 DEF Narrower, PairingsOf
<1>3. CASE \A p \in m : p[2] # j
  <2>1. m \subseteq (1..i) \X (1..(j - 1))
    BY <1>1, <1>3
  <2> QED BY <1>1, <2>1 DEF Narrower, PairingsOf
<1>4. CASE (\E p \in m : p[1] = i) /\ (\E p \in m : p[2] = j)
  <2>1. PICK p \in m : p[1] = i
    BY <1>4
  <2>2. PICK q \in m : q[2] = j
    BY <1>4
  <2>3. p \in (1..i) \X (1..j) /\ q \in (1..i) \X (1..j)
    BY <1>1
  <2>4. (q[1] < p[1] <=> q[2] < p[2]) /\ (p[1] < q[1] <=> p[2] < q[2])
    BY <1>1 DEF Metric!Increasing
  <2>5. p[2] = j
    BY <2>1, <2>2, <2>3, <2>4
  <2>6. p = <<i, j>>
    BY <2>1, <2>3, <2>5
  <2>7. ASSUME NEW o \in m, o # p PROVE o \in (1..(i - 1)) \X (1..(j - 1))
    <3>1. o \in (1..i) \X (1..j)
      BY <1>1
    <3>2. (o[1] < p[1] <=> o[2] < p[2]) /\ (p[1] < o[1] <=> p[2] < o[2])
      BY <1>1 DEF Metric!Increasing
    <3>3. o[1] # i \/ o[2] # j
      BY <2>6, <2>7, <3>1
    <3>4. o[1] < i /\ o[2] < j
      BY <2>1, <2>5, <3>1, <3>2, <3>3
    <3> QED BY <3>1, <3>4
  <2>8. m \ {p} \in PairingsOf(i - 1, j - 1)
    BY <1>1, <2>7 DEF PairingsOf, Metric!Increasing
  <2>9. m = (m \ {p}) \cup {<<i, j>>}
    BY <2>1, <2>6
  <2> QED BY <2>8, <2>9 DEF Narrower
<1> QED BY <1>2, <1>3, <1>4

\* Nothing can be paired with no children.
LEMMA PairingWithNothing ==
  ASSUME NEW s \in Nat, NEW i \in Nat, NEW j \in Nat, i = 0 \/ j = 0, NEW t
  PROVE  /\ {} \in PairingsOf(i, j)
         /\ \A m \in PairingsOf(i, j) : m = {}
         /\ CostOf(s, i, j, t, {}) = s * (i + j)
<1>1. {} \in PairingsOf(i, j) /\ \A m \in PairingsOf(i, j) : m = {}
  BY DEF PairingsOf, Metric!Increasing
<1>2. Metric!Total([p \in {} |-> t[p]]) = 0
  <2>1. PICK f : f = [p \in {} |-> t[p]]
    OBVIOUS
  <2>2. f \in [{} -> Nat] /\ \A x \in {} : f[x] = 0
    BY <2>1
  <2> QED BY <2>1, <2>2, TotalOfZeros
<1>3. Cardinality({}) = 0
  BY FS_EmptySet
<1>4. CostOf(s, i, j, t, {}) = s * (i + j)
  <2>1. CostOf(s, i, j, t, {}) = s * (i + j - 2 * 0) + 0
    BY <1>2, <1>3 DEF CostOf
  <2>2. i + j - 2 * 0 = i + j /\ s * (i + j) \in Nat
    OBVIOUS
  <2> QED BY <2>1, <2>2
<1> QED BY <1>1, <1>4

\* The least cost of the pairings of i and j children.
IsLeastCost(d, s, i, j, t) ==
    /\ \E m \in PairingsOf(i, j) : d = CostOf(s, i, j, t, m)
    /\ \A m \in PairingsOf(i, j) : d <= CostOf(s, i, j, t, m)

\* Where one side is empty, the least pairing leaves all out.
LEMMA LeastCostOfNothing ==
  ASSUME NEW s \in Nat, NEW i \in Nat, NEW j \in Nat, i = 0 \/ j = 0, NEW t
  PROVE  IsLeastCost(s * (i + j), s, i, j, t)
<1>1. PICK c \in Nat : c = s * (i + j)
  OBVIOUS
<1>2. {} \in PairingsOf(i, j) /\ CostOf(s, i, j, t, {}) = c
  BY <1>1, PairingWithNothing
<1>3. \A m \in PairingsOf(i, j) : c <= CostOf(s, i, j, t, m)
  <2>1. \A m \in PairingsOf(i, j) : m = {}
    BY PairingWithNothing
  <2> QED BY <1>1, <1>2, <2>1
<1>4. IsLeastCost(c, s, i, j, t)
  BY <1>2, <1>3 DEF IsLeastCost
<1> QED BY <1>1, <1>4

\* The least cost follows from those of the narrower pairings.
LEMMA LeastCostStep ==
  ASSUME NEW s \in Nat, NEW i \in Nat, NEW j \in Nat, i >= 1, j >= 1, NEW t, Weights(t, i, j),
         NEW x \in Nat, IsLeastCost(x, s, i - 1, j, t),
         NEW y \in Nat, IsLeastCost(y, s, i, j - 1, t),
         NEW z \in Nat, IsLeastCost(z, s, i - 1, j - 1, t)
  PROVE  IsLeastCost(LeastOf(x + s, y + s, z + t[<<i, j>>]), s, i, j, t)
<1>0. /\ i - 1 \in Nat /\ j - 1 \in Nat
      /\ Weights(t, i - 1, j) /\ Weights(t, i, j - 1) /\ Weights(t, i - 1, j - 1)
      /\ t[<<i, j>>] \in Nat
  BY DEF Weights
<1>1. PICK w \in Nat : w = t[<<i, j>>]
  BY <1>0
<1>2. PICK d : d = LeastOf(x + s, y + s, z + w)
  OBVIOUS
<1>3. d \in Nat /\ d \in {x + s, y + s, z + w} /\ d <= x + s /\ d <= y + s /\ d <= z + w
  <2>1. x + s \in Nat /\ y + s \in Nat /\ z + w \in Nat
    OBVIOUS
  <2> QED BY ONLY <1>2, <2>1, LeastIsOne
<1>4. ASSUME NEW m \in PairingsOf(i - 1, j)
      PROVE  m \in PairingsOf(i, j) /\ CostOf(s, i, j, t, m) = CostOf(s, i - 1, j, t, m) + s
  <2>1. i - 1 \in 0..i /\ j \in 0..j /\ (i - 1) + j + 1 = i + j
    BY <1>0
  <2>2. m \in PairingsOf(i, j)
    BY <2>1, PairingWider
  <2>3. CostOf(s, i, j, t, m) = CostOf(s, i - 1, j, t, m) + s
    BY <1>0, <2>1, CostOfWider
  <2> QED BY <2>2, <2>3
<1>5. ASSUME NEW m \in PairingsOf(i, j - 1)
      PROVE  m \in PairingsOf(i, j) /\ CostOf(s, i, j, t, m) = CostOf(s, i, j - 1, t, m) + s
  <2>1. i \in 0..i /\ j - 1 \in 0..j /\ i + (j - 1) + 1 = i + j
    BY <1>0
  <2>2. m \in PairingsOf(i, j)
    BY <2>1, PairingWider
  <2>3. CostOf(s, i, j, t, m) = CostOf(s, i, j - 1, t, m) + s
    BY <1>0, <2>1, CostOfWider
  <2> QED BY <2>2, <2>3
<1>6. ASSUME NEW m \in PairingsOf(i - 1, j - 1)
      PROVE  /\ m \cup {<<i, j>>} \in PairingsOf(i, j)
             /\ CostOf(s, i, j, t, m \cup {<<i, j>>}) = CostOf(s, i - 1, j - 1, t, m) + w
  BY <1>1, PairingWithLast
<1>7. \E m \in PairingsOf(i, j) : d = CostOf(s, i, j, t, m)
  <2>1. CASE d = x + s
    BY <1>4, <2>1 DEF IsLeastCost
  <2>2. CASE d = y + s
    BY <1>5, <2>2 DEF IsLeastCost
  <2>3. CASE d = z + w
    BY <1>6, <2>3 DEF IsLeastCost
  <2> QED BY <1>3, <2>1, <2>2, <2>3
<1>8. ASSUME NEW m \in PairingsOf(i, j) PROVE d <= CostOf(s, i, j, t, m)
  <2>0. Narrower(m, i, j)
    BY LastOfPairing
  <2>1. CASE m \in PairingsOf(i - 1, j)
    <3>1. PICK c : c = CostOf(s, i - 1, j, t, m)
      OBVIOUS
    <3>2. x <= c /\ c \in Int
      BY <1>0, <2>1, <3>1, CostIsInt DEF IsLeastCost
    <3> QED BY <1>3, <1>4, <2>1, <3>1, <3>2
  <2>2. CASE m \in PairingsOf(i, j - 1)
    <3>1. PICK c : c = CostOf(s, i, j - 1, t, m)
      OBVIOUS
    <3>2. y <= c /\ c \in Int
      BY <1>0, <2>2, <3>1, CostIsInt DEF IsLeastCost
    <3> QED BY <1>3, <1>5, <2>2, <3>1, <3>2
  <2>3. CASE \E o \in PairingsOf(i - 1, j - 1) : m = o \cup {<<i, j>>}
    <3>0. PICK o \in PairingsOf(i - 1, j - 1) : m = o \cup {<<i, j>>}
      BY <2>3
    <3>1. PICK c : c = CostOf(s, i - 1, j - 1, t, o)
      OBVIOUS
    <3>2. z <= c /\ c \in Int
      BY <1>0, <3>0, <3>1, CostIsInt DEF IsLeastCost
    <3> QED BY <1>3, <1>6, <3>0, <3>1, <3>2
  <2> QED BY <2>0, <2>1, <2>2, <2>3 DEF Narrower
<1> QED BY <1>1, <1>2, <1>7, <1>8 DEF IsLeastCost

\* Where every child costs the same to leave out, the distance is the least cost of
\* a pairing.
LEMMA DistanceIsLeast ==
  ASSUME NEW s \in Nat, NEW l, NEW r, NEW t, Costs(l, r, t),
         \A i \in 1..Len(l) : l[i] = s, \A j \in 1..Len(r) : r[j] = s
  PROVE  IsLeastCost(Metric!Distance(l, r, t), s, Len(l), Len(r), t)
<1>1. PICK m \in Nat : m = Len(l)
  BY DEF Costs
<1>2. PICK n \in Nat : n = Len(r)
  BY DEF Costs
<1>3. PICK D : D = TableOf(l, r, t) /\ IsTable(D, l, r, t)
  BY TableExists
<1>4. \A i \in 0..m, j \in 0..n : D[<<i, j>>] \in Nat
  BY <1>1, <1>2, <1>3, EntryIsNumber
<1>5. Weights(t, m, n)
  BY <1>1, <1>2 DEF Costs, Weights
<1> DEFINE S == {k \in Nat : \A i \in 0..m, j \in 0..n :
                      i + j <= k => IsLeastCost(D[<<i, j>>], s, i, j, t)}
<1>6. ASSUME NEW i \in 0..m PROVE D[<<i, 0>>] = s * (i + 0)
  <2> DEFINE T == {k \in Nat : k <= m => D[<<k, 0>>] = s * k}
  <2>1. 0 \in T
    BY <1>3 DEF IsTable
  <2>2. ASSUME NEW k \in Nat, k \in T PROVE k + 1 \in T
    <3>1. CASE k + 1 <= m
      <4>0. PICK a \in 1..m : a = k + 1
        BY <3>1
      <4>1. D[<<a, 0>>] = D[<<a - 1, 0>>] + s
        BY <1>1, <1>3 DEF IsTable
      <4>2. D[<<a - 1, 0>>] = s * k
        BY <2>2, <3>1, <4>0
      <4>3. s * k + s = s * (k + 1)
        OBVIOUS
      <4> QED BY <4>0, <4>1, <4>2, <4>3
    <3>2. CASE ~(k + 1 <= m)
      BY <3>2
    <3> QED BY <3>1, <3>2
  <2>3. \A k \in Nat : k \in T
    <3> HIDE DEF T
    <3> QED BY <2>1, <2>2, SetInduction
  <2>4. D[<<i, 0>>] = s * i
    BY <2>3
  <2> QED BY <2>4
<1>7. ASSUME NEW j \in 0..n PROVE D[<<0, j>>] = s * (0 + j)
  <2> DEFINE T == {k \in Nat : k <= n => D[<<0, k>>] = s * k}
  <2>1. 0 \in T
    BY <1>3 DEF IsTable
  <2>2. ASSUME NEW k \in Nat, k \in T PROVE k + 1 \in T
    <3>1. CASE k + 1 <= n
      <4>0. PICK a \in 1..n : a = k + 1
        BY <3>1
      <4>1. D[<<0, a>>] = D[<<0, a - 1>>] + s
        BY <1>2, <1>3 DEF IsTable
      <4>2. D[<<0, a - 1>>] = s * k
        BY <2>2, <3>1, <4>0
      <4>3. s * k + s = s * (k + 1)
        OBVIOUS
      <4> QED BY <4>0, <4>1, <4>2, <4>3
    <3>2. CASE ~(k + 1 <= n)
      BY <3>2
    <3> QED BY <3>1, <3>2
  <2>3. \A k \in Nat : k \in T
    <3> HIDE DEF T
    <3> QED BY <2>1, <2>2, SetInduction
  <2>4. D[<<0, j>>] = s * j
    BY <2>3
  <2> QED BY <2>4
<1>8. ASSUME NEW i \in 0..m, NEW j \in 0..n, i = 0 \/ j = 0
      PROVE  IsLeastCost(D[<<i, j>>], s, i, j, t)
  <2>1. D[<<i, j>>] = s * (i + j)
    BY <1>6, <1>7, <1>8
  <2>2. IsLeastCost(s * (i + j), s, i, j, t)
    BY <1>8, LeastCostOfNothing
  <2> QED BY <2>1, <2>2
<1>9. 0 \in S
  <2>1. ASSUME NEW i \in 0..m, NEW j \in 0..n, i + j <= 0
        PROVE  IsLeastCost(D[<<i, j>>], s, i, j, t)
    BY <1>8, <2>1
  <2> QED BY <2>1
<1>10. ASSUME NEW k \in Nat, k \in S PROVE k + 1 \in S
  <2>1. ASSUME NEW i \in 0..m, NEW j \in 0..n, i + j <= k + 1
        PROVE  IsLeastCost(D[<<i, j>>], s, i, j, t)
    <3>1. CASE i = 0 \/ j = 0
      BY <1>8, <3>1
    <3>2. CASE i # 0 /\ j # 0
      <4>0. i \in 1..m /\ j \in 1..n /\ i - 1 \in 0..m /\ j - 1 \in 0..n
        BY <3>2
      <4>1. PICK x \in Nat : x = D[<<i - 1, j>>]
        BY <1>4, <4>0
      <4>2. PICK y \in Nat : y = D[<<i, j - 1>>]
        BY <1>4, <4>0
      <4>3. PICK z \in Nat : z = D[<<i - 1, j - 1>>]
        BY <1>4, <4>0
      <4>4. /\ IsLeastCost(x, s, i - 1, j, t) /\ IsLeastCost(y, s, i, j - 1, t)
            /\ IsLeastCost(z, s, i - 1, j - 1, t)
        BY <1>10, <2>1, <4>0, <4>1, <4>2, <4>3
      <4>5. D[<<i, j>>] = LeastOf(x + s, y + s, z + t[<<i, j>>])
        BY <1>1, <1>2, <1>3, <4>0, <4>1, <4>2, <4>3 DEF IsTable
      <4>6. i \in Nat /\ j \in Nat /\ i >= 1 /\ j >= 1 /\ Weights(t, i, j)
        BY <1>5, <4>0 DEF Weights
      <4>7. IsLeastCost(LeastOf(x + s, y + s, z + t[<<i, j>>]), s, i, j, t)
        BY <4>4, <4>6, LeastCostStep
      <4> QED BY <4>5, <4>7
    <3> QED BY <3>1, <3>2
  <2> QED BY <2>1
<1>11. m + n \in S
  <2>1. \A k \in Nat : k \in S
    <3> HIDE DEF S
    <3> QED BY <1>9, <1>10, SetInduction
  <2> QED BY <2>1
<1>12. IsLeastCost(D[<<m, n>>], s, m, n, t)
  BY <1>11
<1> QED BY <1>1, <1>2, <1>3, <1>12, DistanceIs

-----------------------------------------------------------------------------
(* The distance of two texts *)

\* Texts: sequences of characters, and of the line break that joins formulas.
Characters == STRING \cup {"nl"}
Strings == Seq(Characters)

\* A text of characters is one of the texts that are compared.
LEMMA TextIsString ==
  ASSUME NEW t \in Seq(STRING)
  PROVE  t \in Strings
<1>1. t \in [1..Len(t) -> STRING] /\ Len(t) \in Nat
  OBVIOUS
<1>2. t \in [1..Len(t) -> Characters]
  BY <1>1 DEF Characters
<1> QED BY <1>1, <1>2 DEF Strings

\* The bigger and the smaller number.
LEMMA MaxOfNumbers ==
  ASSUME NEW a \in Int, NEW b \in Int
  PROVE  /\ Metric!MaxN(a, b) \in Int /\ a <= Metric!MaxN(a, b) /\ b <= Metric!MaxN(a, b)
         /\ Metric!MaxN(a, b) \in {a, b}
BY DEF Metric!MaxN

\* The alignments of two texts are finitely many, and so are their pairs.
LEMMA AlignmentIsFinite ==
  ASSUME NEW a \in Strings, NEW b \in Strings
  PROVE  /\ IsFiniteSet(Metric!Alignments(a, b)) /\ {} \in Metric!Alignments(a, b)
         /\ \A m \in Metric!Alignments(a, b) : /\ m \in PairingsOf(Len(a), Len(b))
                                               /\ IsFiniteSet(m) /\ Cardinality(m) \in Nat
<1>1. PICK m \in Nat : m = Len(a) /\ DOMAIN a = 1..m
  BY DEF Strings
<1>2. PICK n \in Nat : n = Len(b) /\ DOMAIN b = 1..n
  BY DEF Strings
<1>3. IsFiniteSet((1..m) \X (1..n))
  <2>1. 1 \in Int /\ m \in Int /\ n \in Int
    OBVIOUS
  <2>2. IsFiniteSet(1..m) /\ IsFiniteSet(1..n)
    BY <2>1, FS_Interval
  <2> QED BY <2>2, FS_Product
<1>4. IsFiniteSet(SUBSET ((1..m) \X (1..n)))
  BY <1>3, FS_SUBSET
<1>5. Metric!Alignments(a, b) \subseteq SUBSET ((1..m) \X (1..n))
  BY <1>1, <1>2 DEF Metric!Alignments
<1>6. {} \in Metric!Alignments(a, b)
  BY DEF Metric!Alignments, Metric!Increasing
<1>7. IsFiniteSet(Metric!Alignments(a, b))
  BY <1>4, <1>5, FS_Subset
<1>8. ASSUME NEW o \in Metric!Alignments(a, b)
      PROVE  o \in PairingsOf(Len(a), Len(b)) /\ IsFiniteSet(o) /\ Cardinality(o) \in Nat
  <2>1. o \subseteq (1..m) \X (1..n) /\ Metric!Increasing(o)
    BY <1>1, <1>2 DEF Metric!Alignments
  <2>2. IsFiniteSet(o)
    BY <1>3, <2>1, FS_Subset
  <2> QED BY <1>1, <1>2, <2>1, <2>2, FS_CardinalityType DEF PairingsOf
<1> QED BY <1>6, <1>7, <1>8

\* There is a longest alignment.
LEMMA LongestExists ==
  ASSUME NEW a \in Strings, NEW b \in Strings
  PROVE  /\ Metric!Longest(Metric!Alignments(a, b)) # {}
         /\ IsFiniteSet(Metric!Longest(Metric!Alignments(a, b)))
         /\ Metric!Longest(Metric!Alignments(a, b)) \subseteq Metric!Alignments(a, b)
<1>1. PICK A : A = Metric!Alignments(a, b)
  OBVIOUS
<1>2. IsFiniteSet(A) /\ A # {} /\ \A m \in A : Cardinality(m) \in Nat
  BY <1>1, AlignmentIsFinite
<1>3. PICK f : f = [m \in A |-> Cardinality(m)]
  OBVIOUS
<1>4. PICK T : T = {f[m] : m \in A}
  OBVIOUS
<1>5. IsFiniteSet(T)
  <2>1. DOMAIN f = A
    BY <1>3
  <2> QED BY <1>2, <1>4, <2>1, FiniteValues
<1>6. T \subseteq Nat /\ T # {}
  BY <1>2, <1>3, <1>4
<1>7. PICK n \in T : \A k \in T : k <= n
  BY <1>5, <1>6, GreatestNumber
<1>8. PICK m \in A : n = f[m]
  BY <1>4, <1>7
<1>9. \A o \in A : Cardinality(o) <= Cardinality(m)
  BY <1>3, <1>4, <1>7, <1>8
<1>10. m \in Metric!Longest(A)
  BY <1>9, SameCounts DEF Metric!Longest
<1>11. Metric!Longest(A) \subseteq A
  BY DEF Metric!Longest
<1> QED BY <1>1, <1>2, <1>10, <1>11, FS_Subset

\* The cost of a script is a number.
LEMMA ScriptCostIsNumber ==
  ASSUME NEW a \in Strings, NEW b \in Strings, NEW m \in Metric!Alignments(a, b)
  PROVE  Metric!ScriptCost(a, b, m) \in Nat
<1>1. PICK e : e = <<Len(a) + 1, Len(b) + 1>>
  OBVIOUS
<1>2. PICK S : S = m \cup {e}
  OBVIOUS
<1>3. IsFiniteSet(S)
  BY <1>2, AlignmentIsFinite, FS_AddElement
<1>4. \A p \in S : p[1] \in Nat /\ p[2] \in Nat
  <2>1. Len(a) + 1 \in Nat /\ Len(b) + 1 \in Nat
    BY DEF Strings
  <2>2. \A p \in m : p[1] \in Nat /\ p[2] \in Nat
    BY AlignmentIsFinite DEF PairingsOf
  <2> QED BY <1>1, <1>2, <2>1, <2>2
<1>5. ASSUME NEW i \in {1, 2}, NEW end \in Nat
      PROVE  Metric!Cardinality(Metric!Between(m, i, end)) \in Nat
  <2>1. IsFiniteSet(1..(end - 1))
    <3>1. 1 \in Int /\ end - 1 \in Int
      OBVIOUS
    <3> QED BY <3>1, FS_Interval
  <2>2. Metric!Between(m, i, end) \subseteq 1..(end - 1)
    BY DEF Metric!Between
  <2> QED BY <2>1, <2>2, FS_Subset, FS_CardinalityType, SameCounts
<1>6. ASSUME NEW p \in S
      PROVE  Metric!MaxN(Metric!Cardinality(Metric!Between(m, 1, p[1])),
                         Metric!Cardinality(Metric!Between(m, 2, p[2]))) \in Nat
  <2>1. PICK x \in Nat : x = Metric!Cardinality(Metric!Between(m, 1, p[1]))
    BY <1>4, <1>5
  <2>2. PICK y \in Nat : y = Metric!Cardinality(Metric!Between(m, 2, p[2]))
    BY <1>4, <1>5
  <2> QED BY <2>1, <2>2, MaxOfNumbers
<1>7. PICK f : f = [p \in S |-> Metric!MaxN(Metric!Cardinality(Metric!Between(m, 1, p[1])),
                                            Metric!Cardinality(Metric!Between(m, 2, p[2])))]
  OBVIOUS
<1>8. f \in [S -> Nat]
  BY <1>6, <1>7
<1>9. Metric!Total(f) \in Nat
  BY <1>3, <1>8, TotalIsNumber
<1> QED BY <1>1, <1>2, <1>7, <1>9 DEF Metric!ScriptCost

\* A distance is a number, and none between equal texts.
LEMMA EditDistanceIsNumber ==
  ASSUME NEW a \in Strings, NEW b \in Strings
  PROVE  Metric!EditDistance(a, b) \in Nat
<1>1. CASE a = b
  BY <1>1 DEF Metric!EditDistance
<1>2. CASE a # b
  <2>1. PICK L : L = Metric!Longest(Metric!Alignments(a, b))
    OBVIOUS
  <2>2. L # {} /\ IsFiniteSet(L) /\ L \subseteq Metric!Alignments(a, b)
    BY <2>1, LongestExists
  <2>3. PICK f : f = [m \in L |-> Metric!ScriptCost(a, b, m)]
    OBVIOUS
  <2>4. PICK T : T = {f[m] : m \in L}
    OBVIOUS
  <2>5. IsFiniteSet(T)
    <3>1. DOMAIN f = L
      BY <2>3
    <3> QED BY <2>2, <2>4, <3>1, FiniteValues
  <2>6. T \subseteq Nat /\ T # {}
    BY <2>2, <2>3, <2>4, ScriptCostIsNumber
  <2>7. \E c \in T : \A o \in T : o <= c
    BY <2>5, <2>6, GreatestNumber
  <2>8. T = {Metric!ScriptCost(a, b, m) : m \in L}
    BY <2>3, <2>4
  <2>9. Metric!EditDistance(a, b) = CHOOSE c \in T : \A o \in T : o <= c
    BY <1>2, <2>1, <2>8 DEF Metric!EditDistance
  <2>10. Metric!EditDistance(a, b) \in T
    BY <2>7, <2>9
  <2> QED BY <2>6, <2>10
<1> QED BY <1>1, <1>2

\* A text is at no distance from itself.
LEMMA EditDistanceOfSame ==
  ASSUME NEW a
  PROVE  Metric!EditDistance(a, a) = 0
BY DEF Metric!EditDistance

\* A pairing has no more pairs than either side has members.
LEMMA PairingIsNarrow ==
  ASSUME NEW i \in Nat, NEW j \in Nat, NEW m \in PairingsOf(i, j)
  PROVE  Cardinality(m) <= i /\ Cardinality(m) <= j
<1>1. m \subseteq (1..i) \X (1..j) /\ Metric!Increasing(m)
  BY DEF PairingsOf
<1>2. ASSUME NEW p \in m, NEW q \in m, p # q PROVE p[1] # q[1] /\ p[2] # q[2]
  <2>1. p \in (1..i) \X (1..j) /\ q \in (1..i) \X (1..j)
    BY <1>1
  <2>2. (q[1] < p[1] <=> q[2] < p[2]) /\ (p[1] < q[1] <=> p[2] < q[2])
    BY <1>1 DEF Metric!Increasing
  <2>3. p[1] # q[1] \/ p[2] # q[2]
    BY <1>2, <2>1
  <2> QED BY <2>1, <2>2, <2>3
<1>3. PICK f : f = [p \in m |-> p[1]]
  OBVIOUS
<1>4. PICK g : g = [p \in m |-> p[2]]
  OBVIOUS
<1>5. f \in Injection(m, 1..i) /\ g \in Injection(m, 1..j)
  <2>1. f \in [m -> 1..i] /\ g \in [m -> 1..j]
    BY <1>1, <1>3, <1>4
  <2>2. \A p, q \in m : p # q => f[p] # f[q] /\ g[p] # g[q]
    BY <1>2, <1>3, <1>4
  <2> QED BY <2>1, <2>2 DEF Injection, IsInjective
<1>6. /\ IsFiniteSet(1..i) /\ Cardinality(1..i) = i
      /\ IsFiniteSet(1..j) /\ Cardinality(1..j) = j
  <2>1. 1 \in Int /\ i \in Int /\ j \in Int
    OBVIOUS
  <2>2. /\ IsFiniteSet(1..i) /\ Cardinality(1..i) = (IF 1 > i THEN 0 ELSE i - 1 + 1)
        /\ IsFiniteSet(1..j) /\ Cardinality(1..j) = (IF 1 > j THEN 0 ELSE j - 1 + 1)
    BY <2>1, FS_Interval
  <2> QED BY <2>2
<1> QED BY <1>5, <1>6, FS_Injection

-----------------------------------------------------------------------------
(* Ratios and their mean *)

\* What a metric may be: nothing, or a ratio from 0 to 1.
Ratios == [n : Nat, d : Nat]
Scores == {r \in Ratios : r = Metric!None \/ (r.n <= r.d /\ r.d >= 1)}

\* A product grows with its first factor.
LEMMA ProductGrows ==
  ASSUME NEW a \in Nat, NEW b \in Nat, NEW c \in Nat, a <= b
  PROVE  a * c <= b * c
<1>1. PICK e \in Nat : e = b - a
  OBVIOUS
<1>2. b * c = a * c + e * c
  BY <1>1
<1>3. e * c \in Nat /\ a * c \in Nat
  OBVIOUS
<1> QED BY <1>2, <1>3

\* The product of two numbers, and when it is zero.
LEMMA ProductIsNumber ==
  ASSUME NEW a \in Nat, NEW b \in Nat
  PROVE  /\ a * b \in Nat /\ (a >= 1 /\ b >= 1 => a * b >= 1)
         /\ (a * b = 0 => a = 0 \/ b = 0)
<1>1. a * b \in Nat
  OBVIOUS
<1>2. ASSUME a >= 1, b >= 1 PROVE a * b >= 1
  <2>1. 1 * b <= a * b
    BY <1>2, ProductGrows
  <2> QED BY <1>1, <1>2, <2>1
<1> QED BY <1>1, <1>2

\* A part of a whole is a score.
LEMMA RatioIsScore ==
  ASSUME NEW n \in Nat, NEW d \in Nat, n <= d
  PROVE  Metric!Ratio(n, d) \in Scores
BY DEF Metric!Ratio, Metric!None, Scores, Ratios

\* A score lies between 0 and 1.
LEMMA ScoreIsInUnit ==
  ASSUME NEW r \in Scores
  PROVE  Metric!InUnit(r)
BY DEF Metric!InUnit, Scores, Ratios

\* Nothing, one and zero are scores.
LEMMA OneAndZero ==
  /\ Metric!None \in Scores /\ Metric!One \in Scores /\ Metric!Zero \in Scores
  /\ Metric!One # Metric!None /\ Metric!Zero # Metric!None
BY DEF Metric!One, Metric!Zero, Metric!None, Scores, Ratios

\* The loop of a sum of ratios.
Known(rs) == {k \in DOMAIN rs : rs[k] # Metric!None}
SumTo(rs) ==
    CHOOSE sum : sum = [k \in 0..Len(rs) |->
        IF k = 0 THEN Metric!Zero
        ELSE IF k \in Known(rs) THEN Metric!Plus(sum[k - 1], rs[k]) ELSE sum[k - 1]]

\* The mean of the scores that are known: their sum, over how many there are.
LEMMA MeanIs ==
  ASSUME NEW rs
  PROVE  Metric!Mean(rs) =
            IF Known(rs) = {} THEN Metric!None
            ELSE [n |-> SumTo(rs)[Len(rs)].n,
                  d |-> SumTo(rs)[Len(rs)].d * Metric!Cardinality(Known(rs))]
BY DEF Metric!Mean, SumTo, Known

\* f holds the running sums of rs.
IsSum(f, rs) ==
    /\ \A k \in 0..Len(rs) : f[k] \in Ratios
    /\ f[0] = Metric!Zero
    /\ \A k \in 1..Len(rs) :
          f[k] = IF k \in Known(rs) THEN Metric!Plus(f[k - 1], rs[k]) ELSE f[k - 1]

\* The sum of two ratios is one.
LEMMA PlusIsRatio ==
  ASSUME NEW r \in Ratios, NEW s \in Ratios
  PROVE  Metric!Plus(r, s) \in Ratios
<1>1. r.n \in Nat /\ r.d \in Nat /\ s.n \in Nat /\ s.d \in Nat
  BY DEF Ratios
<1>2. r.n * s.d \in Nat /\ s.n * r.d \in Nat /\ r.d * s.d \in Nat
  BY <1>1, ProductIsNumber
<1>3. r.n * s.d + s.n * r.d \in Nat
  BY <1>2
<1> QED BY <1>2, <1>3 DEF Metric!Plus, Ratios

\* The running sum that `Mean` chooses exists.
LEMMA SumExists ==
  ASSUME NEW rs \in Seq(Scores)
  PROVE  IsSum(SumTo(rs), rs)
<1>1. PICK n \in Nat : n = Len(rs)
  OBVIOUS
<1> DEFINE G == [w \in Ratios \X (1..n) |->
                    IF w[2] \in Known(rs) THEN Metric!Plus(w[1], rs[w[2]]) ELSE w[1]]
<1>2. \A k \in 1..n : rs[k] \in Ratios
  BY <1>1 DEF Scores
<1>3. IsBody(G, n, Ratios)
  BY <1>2, PlusIsRatio DEF IsBody
<1>4. Metric!Zero \in Ratios
  BY DEF Metric!Zero, Ratios
<1>5. PICK f : IsLoop(f, n, Ratios, Metric!Zero, G)
  <2> HIDE DEF G
  <2> QED BY <1>3, <1>4, LoopExists
<1>6. f \in [0..n -> Ratios] /\ f[0] = Metric!Zero
  BY <1>5 DEF IsLoop
<1>7. \A k \in 1..n : f[k] = IF k \in Known(rs) THEN Metric!Plus(f[k - 1], rs[k]) ELSE f[k - 1]
  <2>1. ASSUME NEW k \in 1..n
        PROVE  f[k] = IF k \in Known(rs) THEN Metric!Plus(f[k - 1], rs[k]) ELSE f[k - 1]
    <3>1. f[k] = G[<<f[k - 1], k>>]
      BY <1>5 DEF IsLoop
    <3>2. f[k - 1] \in Ratios
      BY <1>6
    <3> QED BY <3>1, <3>2
  <2> QED BY <2>1
<1> HIDE DEF G
<1>8. f = [k \in 0..Len(rs) |-> IF k = 0 THEN Metric!Zero
              ELSE IF k \in Known(rs) THEN Metric!Plus(f[k - 1], rs[k]) ELSE f[k - 1]]
  BY <1>1, <1>6, <1>7
<1>9. PICK g : g = SumTo(rs)
  OBVIOUS
<1>10. g = [k \in 0..Len(rs) |-> IF k = 0 THEN Metric!Zero
              ELSE IF k \in Known(rs) THEN Metric!Plus(g[k - 1], rs[k]) ELSE g[k - 1]]
  BY <1>8, <1>9 DEF SumTo
<1>11. g[0] = Metric!Zero
  BY <1>1, <1>10
<1>12. \A k \in 1..n : g[k] = IF k \in Known(rs) THEN Metric!Plus(g[k - 1], rs[k]) ELSE g[k - 1]
  BY <1>1, <1>10
<1> DEFINE S == {k \in Nat : k <= n => g[k] \in Ratios}
<1>13. 0 \in S
  BY <1>4, <1>11
<1>14. ASSUME NEW k \in Nat, k \in S PROVE k + 1 \in S
  <2>1. CASE k + 1 <= n
    <3>1. PICK j \in 1..n : j = k + 1
      BY <2>1
    <3>2. g[j - 1] \in Ratios
      BY <1>14, <2>1, <3>1
    <3>3. g[j] \in Ratios
      BY <1>2, <1>12, <3>2, PlusIsRatio
    <3> QED BY <3>1, <3>3
  <2>2. CASE ~(k + 1 <= n)
    BY <2>2
  <2> QED BY <2>1, <2>2
<1>15. \A k \in Nat : k \in S
  <2> HIDE DEF S
  <2> QED BY <1>13, <1>14, SetInduction
<1>16. \A k \in 0..n : g[k] \in Ratios
  BY <1>15
<1> QED BY <1>1, <1>9, <1>11, <1>12, <1>16 DEF IsSum

\* How many of the first k ratios exist.
Counting(rs, k) == Cardinality(Known(rs) \cap (1..k))

\* How many scores are known among the first k, step by step.
LEMMA CountingSteps ==
  ASSUME NEW rs \in Seq(Scores)
  PROVE  /\ \A k \in 0..Len(rs) : Counting(rs, k) \in Nat
         /\ Counting(rs, 0) = 0
         /\ \A k \in 1..Len(rs) :
               Counting(rs, k) = Counting(rs, k - 1) + (IF k \in Known(rs) THEN 1 ELSE 0)
         /\ Counting(rs, Len(rs)) = Metric!Cardinality(Known(rs))
         /\ Known(rs) # {} => Counting(rs, Len(rs)) >= 1
<1>1. PICK n \in Nat : n = Len(rs) /\ DOMAIN rs = 1..n
  OBVIOUS
<1>2. PICK K : K = Known(rs)
  OBVIOUS
<1>3. K \subseteq 1..n
  BY <1>1, <1>2 DEF Known
<1>4. ASSUME NEW k \in 0..n PROVE IsFiniteSet(K \cap (1..k)) /\ Cardinality(K \cap (1..k)) \in Nat
  <2>1. 1 \in Int /\ k \in Int
    OBVIOUS
  <2>2. IsFiniteSet(1..k)
    BY <2>1, FS_Interval
  <2> QED BY <2>2, FS_Subset, FS_CardinalityType
<1>5. Cardinality(K \cap (1..0)) = 0
  <2>1. K \cap (1..0) = {}
    OBVIOUS
  <2> QED BY <2>1, FS_EmptySet
<1>6. ASSUME NEW k \in 1..n
      PROVE  Cardinality(K \cap (1..k)) = Cardinality(K \cap (1..(k - 1))) + (IF k \in K THEN 1 ELSE 0)
  <2>1. CASE k \in K
    <3>1. K \cap (1..k) = (K \cap (1..(k - 1))) \cup {k} /\ k \notin K \cap (1..(k - 1))
      BY <2>1
    <3>2. PICK A : A = K \cap (1..(k - 1))
      OBVIOUS
    <3>3. IsFiniteSet(A)
      <4>1. k - 1 \in 0..n
        OBVIOUS
      <4> QED BY <1>4, <3>2, <4>1
    <3>4. K \cap (1..k) = A \cup {k} /\ k \notin A
      BY <3>1, <3>2
    <3>5. Cardinality(A \cup {k}) = Cardinality(A) + 1
      BY <3>3, <3>4, FS_AddElement
    <3> QED BY <2>1, <3>2, <3>4, <3>5
  <2>2. CASE k \notin K
    <3>1. K \cap (1..k) = K \cap (1..(k - 1))
      BY <2>2
    <3>2. Cardinality(K \cap (1..(k - 1))) \in Nat
      <4>1. k - 1 \in 0..n
        OBVIOUS
      <4> QED BY <1>4, <4>1
    <3>3. (IF k \in K THEN 1 ELSE 0) = 0
      BY <2>2
    <3>4. PICK z \in Nat : z = Cardinality(K \cap (1..(k - 1)))
      BY <3>2
    <3>5. z + (IF k \in K THEN 1 ELSE 0) = z
      BY <3>3
    <3> QED BY <3>1, <3>4, <3>5
  <2> QED BY <2>1, <2>2
<1>7. K \cap (1..n) = K
  BY <1>3
<1>8. K # {} => Cardinality(K) >= 1
  <2>1. IsFiniteSet(K) /\ Cardinality(K) \in Nat
    <3>1. n \in 0..n
      OBVIOUS
    <3> QED BY <1>4, <1>7, <3>1
  <2>2. Cardinality(K) = 0 <=> K = {}
    BY <2>1, FS_EmptySet
  <2> QED BY <2>1, <2>2
<1> QED BY <1>1, <1>2, <1>4, <1>5, <1>6, <1>7, <1>8, SameCounts DEF Counting

\* Arithmetic of one round of the sum.
LEMMA RoundBound ==
  ASSUME NEW a \in Nat, NEW b \in Nat, NEW c \in Nat, NEW x \in Nat, NEW y \in Nat,
         a <= b * c, x <= y
  PROVE  a * y + x * b <= (b * y) * (c + 1)
<1>1. b * c \in Nat
  BY ProductIsNumber
<1>2. a * y <= (b * c) * y
  BY <1>1, ProductGrows
<1>3. x * b <= y * b
  BY ProductGrows
<1>4. (b * y) * (c + 1) = (b * c) * y + y * b
  OBVIOUS
<1>5. PICK p \in Nat : p = a * y
  BY ProductIsNumber
<1>6. PICK q \in Nat : q = x * b
  BY ProductIsNumber
<1>7. PICK u \in Nat : u = (b * c) * y
  BY <1>1, ProductIsNumber
<1>8. PICK v \in Nat : v = y * b
  BY ProductIsNumber
<1>9. p <= u /\ q <= v /\ (b * y) * (c + 1) = u + v
  BY <1>2, <1>3, <1>4, <1>5, <1>6, <1>7, <1>8
<1> QED BY ONLY <1>5, <1>6, <1>9

\* One round of the sum of ones: another whole is added.
LEMMA RoundOfOnes ==
  ASSUME NEW b \in Nat, NEW c \in Nat, NEW y \in Nat
  PROVE  (b * c) * y + y * b = (b * y) * (c + 1)
OBVIOUS

\* The sum of k ratios is at most their number, and their number if all are one.
LEMMA SumBound ==
  ASSUME NEW rs \in Seq(Scores), NEW f, IsSum(f, rs)
  PROVE  \A k \in 0..Len(rs) : f[k].d >= 1 /\ f[k].n <= f[k].d * Counting(rs, k)
<1>1. PICK n \in Nat : n = Len(rs) /\ DOMAIN rs = 1..n
  OBVIOUS
<1> DEFINE S == {k \in Nat : k <= n => f[k].d >= 1 /\ f[k].n <= f[k].d * Counting(rs, k)}
<1>2. 0 \in S
  BY CountingSteps DEF IsSum, Metric!Zero
<1>3. ASSUME NEW k \in Nat, k \in S PROVE k + 1 \in S
  <2>1. CASE k + 1 <= n
    <3>1. PICK j \in 1..n : j = k + 1
      BY <2>1
    <3>2. PICK r \in Ratios : r = f[j - 1]
      BY <1>1 DEF IsSum
    <3>3. PICK c \in Nat : c = Counting(rs, j - 1)
      BY <1>1, CountingSteps
    <3>4. r.d >= 1 /\ r.n <= r.d * c /\ r.n \in Nat /\ r.d \in Nat
      <4>1. r.n \in Nat /\ r.d \in Nat
        BY DEF Ratios
      <4> QED BY <1>3, <2>1, <3>1, <3>2, <3>3, <4>1
    <3>5. CASE j \in Known(rs)
      <4>1. PICK s : s = rs[j]
        OBVIOUS
      <4>2. s.n \in Nat /\ s.d \in Nat /\ s.n <= s.d /\ s.d >= 1
        BY <1>1, <3>5, <4>1 DEF Known, Scores, Ratios
      <4>3. f[j] = [n |-> r.n * s.d + s.n * r.d, d |-> r.d * s.d]
        BY <1>1, <3>2, <3>5, <4>1 DEF IsSum, Metric!Plus
      <4>4. Counting(rs, j) = c + 1
        BY <1>1, <3>3, <3>5, CountingSteps
      <4>5. r.n * s.d + s.n * r.d <= (r.d * s.d) * (c + 1)
        BY <3>4, <4>2, RoundBound
      <4>6. r.d * s.d >= 1
        BY <3>4, <4>2, ProductIsNumber
      <4>7. f[j].d = r.d * s.d /\ f[j].n = r.n * s.d + s.n * r.d
        BY <4>3
      <4>8. f[j].d >= 1 /\ f[j].n <= f[j].d * Counting(rs, j)
        BY <4>4, <4>5, <4>6, <4>7, Zenon
      <4> QED BY <3>1, <4>8
    <3>6. CASE j \notin Known(rs)
      <4>1. f[j] = r /\ Counting(rs, j) = c
        BY <1>1, <3>2, <3>3, <3>6, CountingSteps DEF IsSum
      <4>2. f[j].d >= 1 /\ f[j].n <= f[j].d * Counting(rs, j)
        BY <3>4, <4>1, Zenon
      <4> QED BY <3>1, <4>2
    <3> QED BY <3>5, <3>6
  <2>2. CASE ~(k + 1 <= n)
    BY <2>2
  <2> QED BY <2>1, <2>2
<1>4. \A k \in Nat : k \in S
  <2> HIDE DEF S
  <2> QED BY <1>2, <1>3, SetInduction
<1> QED BY <1>1, <1>4

\* The sum of perfect scores counts them.
LEMMA SumOfOnes ==
  ASSUME NEW rs \in Seq(Scores), \A k \in DOMAIN rs : Metric!Perfect(rs[k]), NEW f, IsSum(f, rs)
  PROVE  \A k \in 0..Len(rs) : f[k].n = f[k].d * Counting(rs, k)
<1>1. PICK n \in Nat : n = Len(rs) /\ DOMAIN rs = 1..n
  OBVIOUS
<1> DEFINE S == {k \in Nat : k <= n => f[k].n = f[k].d * Counting(rs, k)}
<1>2. 0 \in S
  BY CountingSteps DEF IsSum, Metric!Zero
<1>3. ASSUME NEW k \in Nat, k \in S PROVE k + 1 \in S
  <2>1. CASE k + 1 <= n
    <3>1. PICK j \in 1..n : j = k + 1
      BY <2>1
    <3>2. PICK r \in Ratios : r = f[j - 1]
      BY <1>1 DEF IsSum
    <3>3. PICK c \in Nat : c = Counting(rs, j - 1)
      BY <1>1, CountingSteps
    <3>4. r.n = r.d * c /\ r.n \in Nat /\ r.d \in Nat
      <4>1. r.n \in Nat /\ r.d \in Nat
        BY DEF Ratios
      <4> QED BY <1>3, <2>1, <3>1, <3>2, <3>3, <4>1
    <3>5. CASE j \in Known(rs)
      <4>1. PICK s : s = rs[j]
        OBVIOUS
      <4>2. s.n \in Nat /\ s.d \in Nat /\ s.n = s.d
        BY <1>1, <3>5, <4>1 DEF Known, Scores, Ratios, Metric!Perfect
      <4>3. f[j] = [n |-> r.n * s.d + s.n * r.d, d |-> r.d * s.d]
        BY <1>1, <3>2, <3>5, <4>1 DEF IsSum, Metric!Plus
      <4>4. Counting(rs, j) = c + 1
        BY <1>1, <3>3, <3>5, CountingSteps
      <4>5. (r.d * c) * s.d + s.d * r.d = (r.d * s.d) * (c + 1)
        BY <3>4, <4>2, RoundOfOnes
      <4>6. r.n * s.d + s.n * r.d = (r.d * s.d) * (c + 1)
        BY <3>4, <4>2, <4>5
      <4>7. f[j].n = f[j].d * Counting(rs, j)
        BY <4>3, <4>4, <4>6
      <4> QED BY <3>1, <4>7
    <3>6. CASE j \notin Known(rs)
      <4>1. f[j] = r /\ Counting(rs, j) = c
        BY <1>1, <3>2, <3>3, <3>6, CountingSteps DEF IsSum
      <4> QED BY <3>1, <3>4, <4>1
    <3> QED BY <3>5, <3>6
  <2>2. CASE ~(k + 1 <= n)
    BY <2>2
  <2> QED BY <2>1, <2>2
<1>4. \A k \in Nat : k \in S
  <2> HIDE DEF S
  <2> QED BY <1>2, <1>3, SetInduction
<1> QED BY <1>1, <1>4

\* The mean of scores is one, and it is perfect if all of them are.
LEMMA MeanIsScore ==
  ASSUME NEW rs \in Seq(Scores)
  PROVE  Metric!Mean(rs) \in Scores
<1>1. CASE Known(rs) = {}
  BY <1>1, MeanIs, OneAndZero
<1>2. CASE Known(rs) # {}
  <2>1. PICK r \in Ratios : r = SumTo(rs)[Len(rs)]
    BY SumExists DEF IsSum
  <2>2. PICK c \in Nat : c = Counting(rs, Len(rs)) /\ c = Metric!Cardinality(Known(rs)) /\ c >= 1
    BY <1>2, CountingSteps
  <2>3. r.d >= 1 /\ r.n <= r.d * c
    <3>1. Len(rs) \in 0..Len(rs)
      OBVIOUS
    <3> QED BY <2>1, <2>2, <3>1, SumExists, SumBound
  <2>4. Metric!Mean(rs) = [n |-> r.n, d |-> r.d * c]
    BY <1>2, <2>1, <2>2, MeanIs
  <2>5. r.n \in Nat /\ r.d \in Nat /\ r.d * c \in Nat /\ r.d * c >= 1
    <3>1. r.n \in Nat /\ r.d \in Nat
      BY DEF Ratios
    <3> QED BY <2>2, <2>3, <3>1, ProductIsNumber
  <2> QED BY <2>3, <2>4, <2>5 DEF Scores, Ratios
<1> QED BY <1>1, <1>2

\* The mean of perfect scores is perfect.
LEMMA MeanOfOnes ==
  ASSUME NEW rs \in Seq(Scores), \A k \in DOMAIN rs : Metric!Perfect(rs[k])
  PROVE  Metric!Perfect(Metric!Mean(rs))
<1>1. CASE Known(rs) = {}
  BY <1>1, MeanIs DEF Metric!Perfect
<1>2. CASE Known(rs) # {}
  <2>1. PICK r : r = SumTo(rs)[Len(rs)]
    OBVIOUS
  <2>2. PICK c : c = Counting(rs, Len(rs)) /\ c = Metric!Cardinality(Known(rs))
    BY <1>2, CountingSteps
  <2>3. r.n = r.d * c
    <3>1. Len(rs) \in 0..Len(rs)
      OBVIOUS
    <3> QED BY <2>1, <2>2, <3>1, SumExists, SumOfOnes
  <2>4. Metric!Mean(rs) = [n |-> r.n, d |-> r.d * c]
    BY <1>2, <2>1, <2>2, MeanIs
  <2> QED BY <2>3, <2>4 DEF Metric!Perfect
<1> QED BY <1>1, <1>2

-----------------------------------------------------------------------------
(* Means of worse ratios, precision and recall, accuracy *)

\* A sum of ratios over the same denominators that are no greater.
LEMMA GreaterRound ==
  ASSUME NEW a \in Nat, NEW b \in Nat, NEW c \in Nat, NEW x \in Nat, NEW y \in Nat, NEW z \in Nat,
         a <= c, x <= z
  PROVE  a * y + x * b <= c * y + z * b
<1>1. a * y <= c * y /\ x * b <= z * b
  BY ProductGrows
<1>2. PICK p \in Nat : p = a * y
  BY ProductIsNumber
<1>3. PICK q \in Nat : q = x * b
  BY ProductIsNumber
<1>4. PICK u \in Nat : u = c * y
  BY ProductIsNumber
<1>5. PICK v \in Nat : v = z * b
  BY ProductIsNumber
<1>6. p <= u /\ q <= v
  BY <1>1, <1>2, <1>3, <1>4, <1>5
<1> QED BY ONLY <1>2, <1>3, <1>4, <1>5, <1>6

\* One list of ratios is no better than another over the same denominators.
NoBetter(r, s) == r.n <= s.n /\ r.d = s.d

\* The running sums of better scores are no worse, round by round.
LEMMA SumGrows ==
  ASSUME NEW rs \in Seq(Scores), NEW qs \in Seq(Scores), Len(rs) = Len(qs),
         \A k \in 1..Len(rs) : NoBetter(rs[k], qs[k]), Known(rs) = Known(qs),
         NEW f, IsSum(f, rs), NEW g, IsSum(g, qs)
  PROVE  \A k \in 0..Len(rs) : NoBetter(f[k], g[k])
<1>1. PICK n \in Nat : n = Len(rs) /\ n = Len(qs)
  OBVIOUS
<1> DEFINE S == {k \in Nat : k <= n => NoBetter(f[k], g[k])}
<1>2. 0 \in S
  BY DEF IsSum, Metric!Zero, NoBetter
<1>3. ASSUME NEW k \in Nat, k \in S PROVE k + 1 \in S
  <2>1. CASE k + 1 <= n
    <3>1. PICK j \in 1..n : j = k + 1
      BY <2>1
    <3>2. PICK r \in Ratios : r = f[j - 1]
      BY <1>1 DEF IsSum
    <3>3. PICK s \in Ratios : s = g[j - 1]
      BY <1>1 DEF IsSum
    <3>4. r.n <= s.n /\ r.d = s.d /\ r.n \in Nat /\ r.d \in Nat /\ s.n \in Nat
      <4>1. r.n \in Nat /\ r.d \in Nat /\ s.n \in Nat
        BY DEF Ratios
      <4> QED BY <1>3, <2>1, <3>1, <3>2, <3>3, <4>1 DEF NoBetter
    <3>5. CASE j \in Known(rs)
      <4>1. PICK x \in Ratios : x = rs[j]
        BY <1>1 DEF Scores
      <4>2. PICK y \in Ratios : y = qs[j]
        BY <1>1 DEF Scores
      <4>3. x.n \in Nat /\ x.d \in Nat /\ y.n \in Nat /\ x.n <= y.n /\ x.d = y.d
        <5>1. x.n \in Nat /\ x.d \in Nat /\ y.n \in Nat
          BY DEF Ratios
        <5> QED BY <1>1, <4>1, <4>2, <5>1 DEF NoBetter
      <4>4. f[j] = [n |-> r.n * x.d + x.n * r.d, d |-> r.d * x.d]
        BY <1>1, <3>2, <3>5, <4>1 DEF IsSum, Metric!Plus
      <4>5. g[j] = [n |-> s.n * y.d + y.n * s.d, d |-> s.d * y.d]
        BY <1>1, <3>3, <3>5, <4>2 DEF IsSum, Metric!Plus
      <4>6. r.n * x.d + x.n * r.d <= s.n * x.d + y.n * r.d
        BY <3>4, <4>3, GreaterRound
      <4>7. f[j].n <= g[j].n /\ f[j].d = g[j].d
        BY <3>4, <4>3, <4>4, <4>5, <4>6
      <4>8. NoBetter(f[j], g[j])
        BY <4>7 DEF NoBetter
      <4> QED BY <3>1, <4>8
    <3>6. CASE j \notin Known(rs)
      <4>1. f[j] = r /\ g[j] = s
        BY <1>1, <3>2, <3>3, <3>6 DEF IsSum
      <4>2. NoBetter(f[j], g[j])
        BY <3>4, <4>1 DEF NoBetter
      <4> QED BY <3>1, <4>2
    <3> QED BY <3>5, <3>6
  <2>2. CASE ~(k + 1 <= n)
    BY <2>2
  <2> QED BY <2>1, <2>2
<1>4. \A k \in Nat : k \in S
  <2> HIDE DEF S
  <2> QED BY <1>2, <1>3, SetInduction
<1> QED BY <1>1, <1>4

\* The mean of scores each of which is no better is no larger.
LEMMA MeanGrows ==
  ASSUME NEW rs \in Seq(Scores), NEW qs \in Seq(Scores), Len(rs) = Len(qs),
         \A k \in 1..Len(rs) : NoBetter(rs[k], qs[k])
  PROVE  ~Metric!Larger(Metric!Mean(rs), Metric!Mean(qs))
<1>1. Known(rs) = Known(qs)
  <2>1. DOMAIN rs = 1..Len(rs) /\ DOMAIN qs = 1..Len(rs)
    OBVIOUS
  <2>2. ASSUME NEW k \in 1..Len(rs) PROVE rs[k] = Metric!None <=> qs[k] = Metric!None
    <3>1. rs[k] \in Scores /\ qs[k] \in Scores /\ rs[k].n <= qs[k].n /\ rs[k].d = qs[k].d
      BY DEF NoBetter
    <3>2. ASSUME NEW r \in Scores PROVE r = Metric!None <=> r.d = 0
      BY DEF Scores, Ratios, Metric!None
    <3> QED BY <3>1, <3>2
  <2> QED BY <2>1, <2>2 DEF Known
<1>2. CASE Known(rs) = {}
  <2>1. Metric!Mean(rs) = Metric!None /\ Metric!Mean(qs) = Metric!None
    BY <1>1, <1>2, MeanIs
  <2> QED BY <2>1 DEF Metric!Larger, Metric!None
<1>3. CASE Known(rs) # {}
  <2>1. Len(rs) \in 0..Len(rs) /\ Len(rs) = Len(qs)
    OBVIOUS
  <2>2. PICK r \in Ratios : r = SumTo(rs)[Len(rs)]
    BY <2>1, SumExists DEF IsSum
  <2>3. PICK s \in Ratios : s = SumTo(qs)[Len(rs)]
    BY <2>1, SumExists DEF IsSum
  <2>4. NoBetter(r, s)
    BY <1>1, <2>1, <2>2, <2>3, SumExists, SumGrows
  <2>5. PICK c \in Nat : c = Metric!Cardinality(Known(rs))
    BY <2>1, CountingSteps
  <2>6. Metric!Mean(rs) = [n |-> r.n, d |-> r.d * c] /\ Metric!Mean(qs) = [n |-> s.n, d |-> r.d * c]
    BY <1>1, <1>3, <2>1, <2>2, <2>3, <2>4, <2>5, MeanIs DEF NoBetter
  <2>7. r.n \in Nat /\ s.n \in Nat /\ r.d \in Nat /\ r.n <= s.n
    BY <2>4 DEF Ratios, NoBetter
  <2>8. PICK e \in Nat : e = r.d * c
    BY <2>7, ProductIsNumber
  <2>9. r.n * e <= s.n * e /\ r.n * e \in Nat /\ s.n * e \in Nat
    BY <2>7, ProductGrows, ProductIsNumber
  <2>10. Metric!Larger(Metric!Mean(rs), Metric!Mean(qs)) <=> r.n * e > s.n * e
    BY <2>6, <2>8 DEF Metric!Larger
  <2> QED BY <2>9, <2>10
<1> QED BY <1>2, <1>3

\* Precision, recall and their mean.
Triples == [precision : Scores, recall : Scores, f1 : Scores]

\* Precision, recall and their harmonic mean are scores.
LEMMA F1IsScores ==
  ASSUME NEW tp \in Nat, NEW fp \in Nat, NEW fn \in Nat
  PROVE  Metric!F1(tp, fp, fn) \in Triples
<1>1. PICK p \in Scores : p = Metric!Ratio(tp, tp + fp)
  BY RatioIsScore
<1>2. PICK r \in Scores : r = Metric!Ratio(tp, tp + fn)
  BY RatioIsScore
<1>3. PICK m : m = Metric!F1(tp, fp, fn)
  OBVIOUS
<1>4. CASE p = Metric!None \/ r = Metric!None \/ tp = 0
  <2>1. m = [precision |-> p, recall |-> r,
             f1 |-> IF tp + fp + fn > 0 THEN Metric!Zero ELSE Metric!None]
    BY <1>1, <1>2, <1>3, <1>4 DEF Metric!F1
  <2> QED BY <1>3, <2>1, OneAndZero DEF Triples
<1>5. CASE ~(p = Metric!None \/ r = Metric!None \/ tp = 0)
  <2>1. m = [precision |-> p, recall |-> r,
             f1 |-> [n |-> 2 * p.n * r.n, d |-> p.n * r.d + r.n * p.d]]
    BY <1>1, <1>2, <1>3, <1>5 DEF Metric!F1
  <2>2. /\ p.n \in Nat /\ p.d \in Nat /\ p.n <= p.d /\ p.n = tp /\ p.d >= 1
        /\ r.n \in Nat /\ r.d \in Nat /\ r.n <= r.d /\ r.n = tp /\ r.d >= 1
    BY <1>1, <1>2, <1>5 DEF Metric!Ratio, Metric!None, Scores, Ratios
  <2>3. PICK a \in Nat : a = p.n * r.d
    BY <2>2, ProductIsNumber
  <2>4. PICK b \in Nat : b = r.n * p.d
    BY <2>2, ProductIsNumber
  <2>5. PICK c \in Nat : c = p.n * r.n
    BY <2>2, ProductIsNumber
  <2>6. r.n * p.n <= r.d * p.n /\ p.n * r.n <= p.d * r.n
    BY <2>2, ProductGrows
  <2>7. c <= a /\ c <= b
    <3>1. r.n * p.n = c /\ r.d * p.n = a /\ p.d * r.n = b
      BY <2>2, <2>3, <2>4, <2>5
    <3> QED BY <2>5, <2>6, <3>1
  <2>8. a >= 1
    BY <1>5, <2>2, <2>3, ProductIsNumber
  <2>9. 2 * p.n * r.n = 2 * c
    BY <2>2, <2>5
  <2>10. [n |-> 2 * c, d |-> a + b] \in Scores
    BY <2>7, <2>8 DEF Scores, Ratios
  <2> QED BY <1>3, <2>1, <2>3, <2>4, <2>9, <2>10 DEF Triples
<1> QED BY <1>4, <1>5

\* Where nothing is missed or added, all three are perfect.
LEMMA F1OfAll ==
  ASSUME NEW tp \in Nat, NEW r \in Metric!Triple(Metric!F1(tp, 0, 0))
  PROVE  Metric!Perfect(r)
<1>1. PICK p : p = Metric!Ratio(tp, tp)
  OBVIOUS
<1>2. PICK f : f = Metric!F1(tp, 0, 0).f1
  OBVIOUS
<1>3. r \in {p, f}
  BY <1>1, <1>2 DEF Metric!Triple, Metric!F1
<1>4. Metric!Perfect(p)
  BY <1>1 DEF Metric!Perfect, Metric!Ratio
<1>5. CASE tp = 0
  BY <1>1, <1>2, <1>3, <1>5 DEF Metric!F1, Metric!Ratio, Metric!Perfect
<1>6. CASE tp # 0
  <2>1. p = [n |-> tp, d |-> tp] /\ p # Metric!None
    BY <1>1, <1>6 DEF Metric!Ratio, Metric!None
  <2>2. f = [n |-> 2 * p.n * p.n, d |-> p.n * p.d + p.n * p.d]
    <3>1. p = Metric!Ratio(tp, tp + 0)
      BY <1>1
    <3> QED BY <1>2, <1>6, <2>1, <3>1 DEF Metric!F1
  <2>3. f = [n |-> 2 * tp * tp, d |-> tp * tp + tp * tp]
    BY <2>1, <2>2
  <2>4. 2 * tp * tp = tp * tp + tp * tp
    OBVIOUS
  <2>5. Metric!Perfect(f)
    BY <2>3, <2>4 DEF Metric!Perfect
  <2> QED BY <1>3, <1>4, <2>5
<1> QED BY <1>5, <1>6

\* The accuracy of a text.
LEMMA AccuracyIsScore ==
  ASSUME NEW a \in Strings, NEW b \in Strings
  PROVE  /\ Metric!Accuracy(a, b) \in Scores
         /\ a = b => Metric!Perfect(Metric!Accuracy(a, b))
<1>1. PICK x \in Nat : x = Len(a)
  BY DEF Strings
<1>2. PICK y \in Nat : y = Len(b)
  BY DEF Strings
<1>3. PICK n : n = Metric!MaxN(Metric!MaxN(x, y), 1)
  OBVIOUS
<1>4. n \in Nat /\ n >= 1
  BY <1>3 DEF Metric!MaxN
<1>5. PICK e \in Nat : e = Metric!EditDistance(a, b)
  BY EditDistanceIsNumber
<1>6. PICK c : c = Metric!Clamped(n - e)
  OBVIOUS
<1>7. c \in Nat /\ c <= n /\ (e = 0 => c = n)
  BY <1>4, <1>6 DEF Metric!Clamped, Metric!MaxN
<1>8. Metric!Accuracy(a, b) = Metric!Ratio(c, n)
  BY <1>1, <1>2, <1>3, <1>5, <1>6 DEF Metric!Accuracy
<1>9. Metric!Accuracy(a, b) \in Scores
  BY <1>4, <1>7, <1>8, RatioIsScore
<1>10. ASSUME a = b PROVE Metric!Perfect(Metric!Accuracy(a, b))
  <2>1. e = 0
    BY <1>5, <1>10, EditDistanceOfSame
  <2> QED BY <1>7, <1>8, <2>1 DEF Metric!Perfect, Metric!Ratio
<1> QED BY <1>9, <1>10

-----------------------------------------------------------------------------
(* Documents: their blocks, and tables as trees *)

\* The elements of a set of numbers in increasing order are its elements.
LEMMA InOrderTaken ==
  ASSUME NEW S, S \subseteq Int, IsFiniteSet(S)
  PROVE  /\ DOMAIN Metric!InOrder(S) = 1..Cardinality(S)
         /\ \A k \in 1..Cardinality(S) : Metric!InOrder(S)[k] \in S
<1>1. PICK R : R = {p \in S \X S : p[1] < p[2]}
  OBVIOUS
<1>2. IsOrder(R, S)
  <2>1. \A x \in S, y \in S : <<x, y>> \in R <=> x < y
    BY <1>1
  <2>2. \A x \in S : x \in Int
    OBVIOUS
  <2> QED BY <2>1, <2>2 DEF IsOrder
<1>3. ASSUME NEW x \in S PROVE Metric!Rank(S, x) = Cardinality(Below(R, S, x)) + 1
  <2>1. PICK B : B = Below(R, S, x)
    OBVIOUS
  <2>2. B = {y \in S : y < x}
    BY <1>1, <2>1 DEF Below
  <2>3. {y \in S : y <= x} = B \cup {x} /\ x \notin B
    <3>1. x \in Int /\ \A y \in S : y \in Int /\ (y <= x <=> y < x \/ y = x)
      OBVIOUS
    <3>2. \A y : y \in {z \in S : z <= x} <=> y \in B \cup {x}
      BY <2>2, <3>1
    <3>3. ~(x < x)
      BY <3>1
    <3> QED BY <2>2, <3>2, <3>3
  <2>4. IsFiniteSet(B)
    BY <2>2, FS_Subset
  <2> QED BY <2>1, <2>3, <2>4, FS_AddElement, SameCounts DEF Metric!Rank
<1>4. ASSUME NEW k \in 1..Cardinality(S) PROVE \E p \in S : Metric!Rank(S, p) = k
  <2>1. PICK x \in S : Cardinality(Below(R, S, x)) = k - 1
    BY <1>2, RanksAreTaken
  <2>2. Metric!Rank(S, x) = (k - 1) + 1
    BY <1>3, <2>1
  <2>3. k \in Int
    OBVIOUS
  <2> QED BY <2>2, <2>3
<1>5. Metric!InOrder(S) = [k \in 1..Cardinality(S) |-> CHOOSE p \in S : Metric!Rank(S, p) = k]
  BY SameCounts DEF Metric!InOrder
<1> QED BY <1>4, <1>5

\* The order of tuples of numbers.
Lexical(S) == {p \in S \X S : Metric!Before(p[1], p[2])}
FirstDifference(s, t, k) == s[k] < t[k] /\ \A l \in 1..(k - 1) : s[l] = t[l]

\* Tuples of numbers are in order: the order sort() gives them.
LEMMA BeforeIsOrder ==
  ASSUME NEW n \in Nat, NEW S, S \subseteq [1..n -> Int]
  PROVE  /\ IsOrder(Lexical(S), S)
         /\ \A s, t \in S : <<s, t>> \in Lexical(S) <=> Metric!Before(s, t)
<1>0. \A s, t \in S : <<s, t>> \in Lexical(S) <=> Metric!Before(s, t)
  BY DEF Lexical
<1>1. ASSUME NEW s \in S, NEW t \in S
      PROVE  Metric!Before(s, t) <=> \E k \in 1..n : FirstDifference(s, t, k)
  BY DEF Metric!Before, FirstDifference
<1>2. ASSUME NEW s \in S PROVE ~Metric!Before(s, s)
  BY <1>1 DEF FirstDifference
<1>3. ASSUME NEW s \in S, NEW t \in S, NEW u \in S, Metric!Before(s, t), Metric!Before(t, u)
      PROVE  Metric!Before(s, u)
  <2>1. PICK k \in 1..n : FirstDifference(s, t, k)
    BY <1>1, <1>3
  <2>2. PICK l \in 1..n : FirstDifference(t, u, l)
    BY <1>1, <1>3
  <2>3. \A i \in 1..n : s[i] \in Int /\ t[i] \in Int /\ u[i] \in Int
    OBVIOUS
  <2>4. CASE k <= l
    <3>1. s[k] < u[k]
      <4>1. t[k] <= u[k]
        BY <2>2, <2>3, <2>4 DEF FirstDifference
      <4> QED BY <2>1, <2>3, <4>1 DEF FirstDifference
    <3>2. ASSUME NEW i \in 1..(k - 1) PROVE s[i] = u[i]
      <4>1. i \in 1..(l - 1)
        BY <2>4
      <4> QED BY <2>1, <2>2, <4>1 DEF FirstDifference
    <3> QED BY <1>1, <3>1, <3>2 DEF FirstDifference
  <2>5. CASE l < k
    <3>1. s[l] < u[l]
      <4>1. l \in 1..(k - 1)
        BY <2>5
      <4> QED BY <2>1, <2>2, <2>3, <4>1 DEF FirstDifference
    <3>2. ASSUME NEW i \in 1..(l - 1) PROVE s[i] = u[i]
      <4>1. i \in 1..(k - 1)
        BY <2>5
      <4> QED BY <2>1, <2>2, <4>1 DEF FirstDifference
    <3> QED BY <1>1, <3>1, <3>2 DEF FirstDifference
  <2> QED BY <2>4, <2>5
<1>4. ASSUME NEW s \in S, NEW t \in S, s # t
      PROVE  Metric!Before(s, t) \/ Metric!Before(t, s)
  <2>1. PICK T : T = {k \in 1..n : s[k] # t[k]}
    OBVIOUS
  <2>2. T # {}
    <3>1. ASSUME T = {} PROVE s = t
      <4>1. \A k \in 1..n : s[k] = t[k]
        BY <2>1, <3>1
      <4>2. s = [k \in 1..n |-> s[k]] /\ t = [k \in 1..n |-> t[k]]
        OBVIOUS
      <4> QED BY <4>1, <4>2
    <3> QED BY <1>4, <3>1
  <2>3. T \subseteq Nat
    BY <2>1
  <2>4. PICK k \in T : \A l \in T : k <= l
    BY <2>2, <2>3, LeastNumber
  <2>5. k \in 1..n /\ s[k] # t[k] /\ s[k] \in Int /\ t[k] \in Int
    BY <2>1
  <2>6. ASSUME NEW l \in 1..(k - 1) PROVE s[l] = t[l]
    <3>1. l \in 1..n /\ l \notin T
      BY <2>4, <2>5
    <3> QED BY <2>1, <3>1
  <2>7. CASE s[k] < t[k]
    BY <1>1, <2>5, <2>6, <2>7 DEF FirstDifference
  <2>8. CASE t[k] < s[k]
    <3>1. \A l \in 1..(k - 1) : t[l] = s[l]
      BY <2>6
    <3> QED BY <1>1, <2>5, <2>8, <3>1 DEF FirstDifference
  <2> QED BY <2>5, <2>7, <2>8
<1>5. \A x \in S : <<x, x>> \notin Lexical(S)
  BY <1>0, <1>2
<1>6. \A x, y, z \in S : <<x, y>> \in Lexical(S) /\ <<y, z>> \in Lexical(S) => <<x, z>> \in Lexical(S)
  BY <1>0, <1>3
<1>7. \A x, y \in S : x # y => <<x, y>> \in Lexical(S) \/ <<y, x>> \in Lexical(S)
  BY <1>0, <1>4
<1> QED BY <1>0, <1>5, <1>6, <1>7 DEF IsOrder

\* A sorted set of tuples lists its members.
LEMMA SortedTaken ==
  ASSUME NEW n \in Nat, NEW S, S \subseteq [1..n -> Int], IsFiniteSet(S)
  PROVE  /\ DOMAIN Metric!Sorted(S) = 1..Cardinality(S)
         /\ \A k \in 1..Cardinality(S) : Metric!Sorted(S)[k] \in S
<1>1. IsOrder(Lexical(S), S)
  BY BeforeIsOrder
<1>2. \A s \in S : Below(Lexical(S), S, s) = {t \in S : Metric!Before(t, s)}
  BY BeforeIsOrder DEF Below
<1>3. ASSUME NEW k \in 1..Cardinality(S)
      PROVE  \E s \in S : Metric!Cardinality({t \in S : Metric!Before(t, s)}) = k - 1
  <2>1. PICK s \in S : Cardinality(Below(Lexical(S), S, s)) = k - 1
    BY <1>1, RanksAreTaken
  <2> QED BY <1>2, <2>1, SameCounts
<1>4. Metric!Sorted(S) = [k \in 1..Cardinality(S) |->
         CHOOSE s \in S : Metric!Cardinality({t \in S : Metric!Before(t, s)}) = k - 1]
  BY SameCounts DEF Metric!Sorted
<1> QED BY <1>3, <1>4

\* A list has its length, and positions in a list are finitely many.
LEMMA ListFacts ==
  ASSUME NEW s, IsList(s)
  PROVE  /\ Len(s) \in Nat /\ DOMAIN s = 1..Len(s) /\ IsFiniteSet(DOMAIN s)
         /\ Cardinality(DOMAIN s) = Len(s)
         /\ \A S \in SUBSET (DOMAIN s) : IsFiniteSet(S) /\ S \subseteq Int
<1>1. PICK n \in Nat : n = Len(s) /\ DOMAIN s = 1..n
  BY DEF IsList
<1>2. IsFiniteSet(1..n) /\ Cardinality(1..n) = n
  <2>1. 1 \in Int /\ n \in Int
    OBVIOUS
  <2>2. IsFiniteSet(1..n) /\ Cardinality(1..n) = IF 1 > n THEN 0 ELSE n - 1 + 1
    BY <2>1, FS_Interval
  <2> QED BY <2>2
<1>3. ASSUME NEW S \in SUBSET (1..n) PROVE IsFiniteSet(S) /\ S \subseteq Int
  <2>1. S \subseteq 1..n
    OBVIOUS
  <2>2. IsFiniteSet(S)
    BY <1>2, <2>1, FS_Subset
  <2>3. S \subseteq Int
    OBVIOUS
  <2> QED BY <2>2, <2>3
<1> QED BY <1>1, <1>2, <1>3

\* The blocks of one type are blocks of the document.
LEMMA OfTypeTaken ==
  ASSUME NEW d, IsDocument(d), NEW type
  PROVE  /\ Len(Metric!OfType(d, type)) \in Nat
         /\ DOMAIN Metric!OfType(d, type) = 1..Len(Metric!OfType(d, type))
         /\ \A n \in DOMAIN Metric!OfType(d, type) : IsBlock(Metric!OfType(d, type)[n])
<1>1. PICK S : S = {k \in DOMAIN d.blocks : d.blocks[k].type = type}
  OBVIOUS
<1>2. IsFiniteSet(S) /\ S \subseteq Int /\ Cardinality(S) \in Nat
  BY <1>1, ListFacts, FS_CardinalityType DEF IsDocument
<1>3. PICK n \in Nat : n = Cardinality(S)
  BY <1>2
<1>4. PICK ks : ks = Metric!InOrder(S)
  OBVIOUS
<1>5. DOMAIN ks = 1..n /\ \A k \in 1..n : ks[k] \in S
  BY <1>2, <1>3, <1>4, InOrderTaken
<1>6. Metric!OfType(d, type) = [k \in 1..n |-> d.blocks[ks[k]]]
  BY <1>1, <1>4, <1>5 DEF Metric!OfType
<1>7. \A k \in 1..n : IsBlock(d.blocks[ks[k]])
  BY <1>1, <1>5 DEF IsDocument
<1>8. PICK f : f = Metric!OfType(d, type)
  OBVIOUS
<1>9. DOMAIN f = 1..n /\ Len(f) = n
  BY <1>6, <1>8
<1>10. \A k \in 1..n : IsBlock(f[k])
  BY <1>6, <1>7, <1>8
<1> QED BY <1>8, <1>9, <1>10

\* The places of a table are finitely many tuples of four numbers, with a text each.
LEMMA KeysOfTable ==
  ASSUME NEW b, IsBlock(b)
  PROVE  /\ Metric!Keys(b) \subseteq [1..4 -> Int] /\ IsFiniteSet(Metric!Keys(b))
         /\ \A key \in Metric!Keys(b) : Metric!CellText(b, key) \in Strings
<1>1. IsFiniteSet(DOMAIN b.cells) /\ DOMAIN b.cells \subseteq Nat
  BY ListFacts DEF IsBlock
<1>2. PICK f : f = [k \in DOMAIN b.cells |-> b.cells[k].key]
  OBVIOUS
<1>3. Metric!Keys(b) = {f[k] : k \in DOMAIN b.cells}
  BY <1>2 DEF Metric!Keys
<1>4. IsFiniteSet(Metric!Keys(b))
  <2>1. DOMAIN f = DOMAIN b.cells
    BY <1>2
  <2> QED BY <1>1, <1>3, <2>1, FiniteValues
<1>5. Metric!Keys(b) \subseteq [1..4 -> Int]
  BY DEF Metric!Keys, IsBlock
<1>6. ASSUME NEW key \in Metric!Keys(b) PROVE Metric!CellText(b, key) \in Strings
  <2>1. PICK K : K = {k \in DOMAIN b.cells : b.cells[k].key = key}
    OBVIOUS
  <2>2. K # {} /\ K \subseteq Nat
    BY <1>1, <2>1 DEF Metric!Keys
  <2>3. IsFiniteSet(K)
    BY <1>1, <2>1, FS_Subset
  <2>4. \E k \in K : \A l \in K : l <= k
    BY <2>2, <2>3, GreatestNumber
  <2>5. PICK k \in K : k = CHOOSE j \in K : \A l \in K : l <= j
    BY <2>4
  <2>6. Metric!CellText(b, key) = b.cells[k].text
    BY <2>1, <2>5 DEF Metric!CellText
  <2> QED BY <2>1, <2>6, TextIsString DEF IsBlock
<1> QED BY <1>4, <1>5, <1>6

\* A row of a tree: cells with texts.
IsRow(r) ==
    /\ Len(r) \in Nat /\ DOMAIN r = 1..Len(r)
    /\ \A c \in 1..Len(r) : r[c].text \in Strings

\* A row of a table is a sequence of its cells.
LEMMA RowOfTable ==
  ASSUME NEW b, IsBlock(b), NEW number
  PROVE  IsRow(Metric!Row(b, number))
<1>1. PICK S : S = {key \in Metric!Keys(b) : key[1] = number}
  OBVIOUS
<1>2. S \subseteq Metric!Keys(b) /\ S \subseteq [1..4 -> Int] /\ IsFiniteSet(S)
  BY <1>1, KeysOfTable, FS_Subset
<1>3. PICK n \in Nat : n = Cardinality(S)
  BY <1>2, FS_CardinalityType
<1>4. PICK keys : keys = Metric!Sorted(S)
  OBVIOUS
<1>5. DOMAIN keys = 1..n /\ \A k \in 1..n : keys[k] \in S
  <2>1. 4 \in Nat
    OBVIOUS
  <2> QED BY <1>2, <1>3, <1>4, <2>1, SortedTaken
<1>6. PICK r : r = Metric!Row(b, number)
  OBVIOUS
<1>7. r = [c \in 1..n |-> [label |-> Tail(keys[c]), text |-> Metric!CellText(b, keys[c])]]
  BY <1>1, <1>4, <1>5, <1>6 DEF Metric!Row
<1>8. DOMAIN r = 1..n /\ Len(r) = n
  BY <1>7
<1>9. ASSUME NEW c \in 1..n PROVE r[c].text \in Strings
  <2>1. r[c].text = Metric!CellText(b, keys[c])
    BY <1>7
  <2> QED BY <1>2, <1>5, <2>1, KeysOfTable
<1> QED BY <1>6, <1>8, <1>9 DEF IsRow

\* A tree: rows.
IsTree(t) ==
    /\ Len(t) \in Nat /\ DOMAIN t = 1..Len(t)
    /\ \A r \in 1..Len(t) : IsRow(t[r])

\* A table is a sequence of rows.
LEMMA TreeOfTable ==
  ASSUME NEW b, IsBlock(b)
  PROVE  IsTree(Metric!Tree(b))
<1>1. PICK f : f = [key \in Metric!Keys(b) |-> key[1]]
  OBVIOUS
<1>2. PICK S : S = {key[1] : key \in Metric!Keys(b)}
  OBVIOUS
<1>3. S = {f[key] : key \in Metric!Keys(b)}
  BY <1>1, <1>2
<1>4. IsFiniteSet(S)
  <2>1. DOMAIN f = Metric!Keys(b)
    BY <1>1
  <2> QED BY <1>3, <2>1, KeysOfTable, FiniteValues
<1>5. S \subseteq Int
  BY <1>2, KeysOfTable
<1>6. PICK n \in Nat : n = Cardinality(S)
  BY <1>4, FS_CardinalityType
<1>7. PICK numbers : numbers = Metric!InOrder(S)
  OBVIOUS
<1>8. DOMAIN numbers = 1..n
  BY <1>4, <1>5, <1>6, <1>7, InOrderTaken
<1>9. PICK t : t = Metric!Tree(b)
  OBVIOUS
<1>10. t = [r \in 1..n |-> Metric!Row(b, numbers[r])]
  BY <1>2, <1>7, <1>8, <1>9 DEF Metric!Tree
<1>11. DOMAIN t = 1..n /\ Len(t) = n
  BY <1>10
<1>12. \A r \in 1..n : IsRow(t[r])
  BY <1>10, RowOfTable
<1> QED BY <1>9, <1>11, <1>12 DEF IsTree

-----------------------------------------------------------------------------
(* The distances of rows and trees *)

\* What it costs to turn one cell into another.
LEMMA TurnCellIsNumber ==
  ASSUME NEW c \in BOOLEAN, NEW x, x.text \in Strings, NEW y, y.text \in Strings
  PROVE  /\ Metric!TurnCell(c, x, y) \in Nat
         /\ Metric!TurnCell(FALSE, x, y) <= Metric!TurnCell(TRUE, x, y)
         /\ x = y => Metric!TurnCell(c, x, y) = 0
<1>1. PICK e \in Nat : e = Metric!EditDistance(x.text, y.text)
  BY EditDistanceIsNumber
<1>2. PICK n : n = Metric!MaxN(Metric!MaxN(Len(x.text), Len(y.text)), 1)
  OBVIOUS
<1>3. n \in Nat /\ n >= 1
  <2>1. Len(x.text) \in Nat /\ Len(y.text) \in Nat
    BY DEF Strings
  <2> QED BY <1>2, <2>1 DEF Metric!MaxN
<1>4. PICK q : q = (Scale * e) \div n
  OBVIOUS
<1>5. Scale \in Nat /\ Scale >= 1
  BY DocumentsAssumption
<1>6. q \in Nat /\ (e = 0 => q = 0)
  <2>1. PICK w \in Nat : w = Scale * e
    BY <1>5, ProductIsNumber
  <2>2. w \div n \in Nat
    BY <1>3
  <2>3. e = 0 => w = 0
    BY <1>5, <2>1
  <2>4. 0 \div n = 0
    BY <1>3
  <2> QED BY <1>4, <2>1, <2>2, <2>3, <2>4
<1>7. PICK vt : vt = Metric!TurnCell(TRUE, x, y)
  OBVIOUS
<1>8. PICK vf : vf = Metric!TurnCell(FALSE, x, y)
  OBVIOUS
<1>9. x = y => e = 0
  BY <1>1, EditDistanceOfSame
<1>10. vt \in Nat /\ vf \in Nat /\ vf <= vt /\ (x = y => vt = 0 /\ vf = 0)
  <2>1. CASE x.label # y.label
    <3>1. vt = Scale /\ vf = Scale
      BY <1>7, <1>8, <2>1 DEF Metric!TurnCell
    <3> QED BY <1>5, <2>1, <3>1
  <2>2. CASE x.label = y.label
    <3>1. vt = q
      BY <1>1, <1>2, <1>4, <1>7, <2>2 DEF Metric!TurnCell
    <3>2. vf = 0
      BY <1>8, <2>2 DEF Metric!TurnCell
    <3> QED BY <1>6, <1>9, <3>1, <3>2
  <2> QED BY <2>1, <2>2
<1>11. CASE c = TRUE
  BY <1>7, <1>8, <1>10, <1>11
<1>12. CASE c = FALSE
  BY <1>7, <1>8, <1>10, <1>12
<1> QED BY <1>11, <1>12

\* The costs of two rows.
CellCosts(c, x, y) ==
    [p \in (DOMAIN x) \X (DOMAIN y) |-> Metric!TurnCell(c, x[p[1]], y[p[2]])]
Alike(x, n) == [i \in DOMAIN x |-> n]

\* The costs of turning one row into another are numbers.
LEMMA RowCosts ==
  ASSUME NEW c \in BOOLEAN, NEW x, IsRow(x), NEW y, IsRow(y)
  PROVE  /\ Costs(Alike(x, Scale), Alike(y, Scale), CellCosts(c, x, y))
         /\ Len(Alike(x, Scale)) = Len(x) /\ Len(Alike(y, Scale)) = Len(y)
         /\ \A i \in 1..Len(x), j \in 1..Len(y) :
               CellCosts(c, x, y)[<<i, j>>] = Metric!TurnCell(c, x[i], y[j])
<1>1. PICK m \in Nat : m = Len(x) /\ DOMAIN x = 1..m
  BY DEF IsRow
<1>2. PICK n \in Nat : n = Len(y) /\ DOMAIN y = 1..n
  BY DEF IsRow
<1>3. Scale \in Nat
  BY DocumentsAssumption
<1>4. /\ Alike(x, Scale) = [i \in 1..m |-> Scale] /\ Alike(x, Scale) \in Seq(Nat)
      /\ Len(Alike(x, Scale)) = m
  BY <1>1, <1>3 DEF Alike
<1>5. /\ Alike(y, Scale) = [i \in 1..n |-> Scale] /\ Alike(y, Scale) \in Seq(Nat)
      /\ Len(Alike(y, Scale)) = n
  BY <1>2, <1>3 DEF Alike
<1>6. \A i \in 1..m, j \in 1..n : Metric!TurnCell(c, x[i], y[j]) \in Nat
  BY <1>1, <1>2, TurnCellIsNumber DEF IsRow
<1>7. PICK t : t = CellCosts(c, x, y)
  OBVIOUS
<1>8. t = [p \in (1..m) \X (1..n) |-> Metric!TurnCell(c, x[p[1]], y[p[2]])]
  BY <1>1, <1>2, <1>7 DEF CellCosts
<1>9. \A i \in 1..m, j \in 1..n : t[<<i, j>>] = Metric!TurnCell(c, x[i], y[j])
  BY <1>8
<1>10. t \in [(1..m) \X (1..n) -> Nat]
  <2>1. \A p \in (1..m) \X (1..n) : Metric!TurnCell(c, x[p[1]], y[p[2]]) \in Nat
    BY <1>6
  <2> QED BY <1>8, <2>1
<1>11. Costs(Alike(x, Scale), Alike(y, Scale), t)
  BY <1>4, <1>5, <1>10 DEF Costs
<1> QED BY <1>1, <1>2, <1>4, <1>5, <1>7, <1>9, <1>11

\* The distance of two rows, as a distance of sequences.
LEMMA RowDistanceIs ==
  ASSUME NEW c, NEW x, NEW y
  PROVE  Metric!RowDistance(c, x, y)
            = Metric!Distance(Alike(x, Scale), Alike(y, Scale), CellCosts(c, x, y))
BY DEF Metric!RowDistance, Alike, CellCosts

\* The distance of two rows.
LEMMA RowDistanceIsNumber ==
  ASSUME NEW c \in BOOLEAN, NEW x, IsRow(x), NEW y, IsRow(y)
  PROVE  Metric!RowDistance(c, x, y) \in Nat
BY RowCosts, RowDistanceIs, DistanceIsNumber

\* Two rows are no closer when the text of their cells counts.
LEMMA RowDistanceGrows ==
  ASSUME NEW x, IsRow(x), NEW y, IsRow(y)
  PROVE  Metric!RowDistance(FALSE, x, y) <= Metric!RowDistance(TRUE, x, y)
<1>1. PICK l : l = Alike(x, Scale)
  OBVIOUS
<1>2. PICK r : r = Alike(y, Scale)
  OBVIOUS
<1>a. PICK no \in BOOLEAN : no = FALSE
  OBVIOUS
<1>b. PICK yes \in BOOLEAN : yes = TRUE
  OBVIOUS
<1>3. PICK t : t = CellCosts(no, x, y)
  OBVIOUS
<1>4. PICK u : u = CellCosts(yes, x, y)
  OBVIOUS
<1>5. Costs(l, r, t) /\ Costs(l, r, u) /\ Len(l) = Len(x) /\ Len(r) = Len(y)
  BY <1>1, <1>2, <1>3, <1>4, RowCosts
<1>6. ASSUME NEW i \in 1..Len(x), NEW j \in 1..Len(y) PROVE t[<<i, j>>] <= u[<<i, j>>]
  <2>1. t[<<i, j>>] = Metric!TurnCell(no, x[i], y[j]) /\ u[<<i, j>>] = Metric!TurnCell(yes, x[i], y[j])
    BY <1>3, <1>4, RowCosts
  <2>2. x[i].text \in Strings /\ y[j].text \in Strings
    BY DEF IsRow
  <2>3. Metric!TurnCell(FALSE, x[i], y[j]) <= Metric!TurnCell(TRUE, x[i], y[j])
    BY <1>a, <2>2, TurnCellIsNumber
  <2> QED BY <1>a, <1>b, <2>1, <2>3
<1>7. Metric!Distance(l, r, t) <= Metric!Distance(l, r, u)
  BY <1>5, <1>6, DistanceGrows
<1>8. /\ Metric!RowDistance(no, x, y) = Metric!Distance(l, r, t)
      /\ Metric!RowDistance(yes, x, y) = Metric!Distance(l, r, u)
  BY <1>1, <1>2, <1>3, <1>4, RowDistanceIs
<1> QED BY <1>a, <1>b, <1>7, <1>8

\* A row is at no distance from itself.
LEMMA RowDistanceOfSame ==
  ASSUME NEW c \in BOOLEAN, NEW x, IsRow(x)
  PROVE  Metric!RowDistance(c, x, x) = 0
<1>1. PICK l : l = Alike(x, Scale)
  OBVIOUS
<1>2. PICK t : t = CellCosts(c, x, x)
  OBVIOUS
<1>3. Costs(l, l, t) /\ Len(l) = Len(x)
  BY <1>1, <1>2, RowCosts
<1>4. ASSUME NEW i \in 1..Len(x) PROVE t[<<i, i>>] = 0
  <2>1. t[<<i, i>>] = Metric!TurnCell(c, x[i], x[i])
    BY <1>2, RowCosts
  <2>2. x[i].text \in Strings
    BY DEF IsRow
  <2> QED BY <2>1, <2>2, TurnCellIsNumber
<1>5. Metric!Distance(l, l, t) = 0
  BY <1>3, <1>4, DistanceOfSame
<1> QED BY <1>1, <1>2, <1>5, RowDistanceIs

\* The distance of two rows is the least cost of a pairing of their cells.
LEMMA RowDistanceLeast ==
  ASSUME NEW x, IsRow(x), NEW y, IsRow(y)
  PROVE  /\ \E m \in Metric!Pairings(x, y) :
               Metric!RowDistance(TRUE, x, y) = Metric!PairingCost(x, y, m)
         /\ \A m \in Metric!Pairings(x, y) :
               Metric!RowDistance(TRUE, x, y) <= Metric!PairingCost(x, y, m)
<1>1. PICK l : l = Alike(x, Scale)
  OBVIOUS
<1>2. PICK r : r = Alike(y, Scale)
  OBVIOUS
<1>3. PICK t : t = CellCosts(TRUE, x, y)
  OBVIOUS
<1>4. Costs(l, r, t) /\ Len(l) = Len(x) /\ Len(r) = Len(y)
  BY <1>1, <1>2, <1>3, RowCosts
<1>5. PICK m \in Nat : m = Len(x) /\ DOMAIN x = 1..m
  BY DEF IsRow
<1>6. PICK n \in Nat : n = Len(y) /\ DOMAIN y = 1..n
  BY DEF IsRow
<1>7. (\A i \in 1..Len(l) : l[i] = Scale) /\ (\A j \in 1..Len(r) : r[j] = Scale)
  BY <1>1, <1>2, <1>4, <1>5, <1>6 DEF Alike
<1>8. PICK d : d = Metric!RowDistance(TRUE, x, y)
  OBVIOUS
<1>9. IsLeastCost(d, Scale, m, n, t)
  <2>1. Scale \in Nat
    BY DocumentsAssumption
  <2>2. d = Metric!Distance(l, r, t)
    BY <1>1, <1>2, <1>3, <1>8, RowDistanceIs
  <2> QED BY <1>4, <1>5, <1>6, <1>7, <2>1, <2>2, DistanceIsLeast
<1>10. Metric!Pairings(x, y) = PairingsOf(m, n)
  BY <1>5, <1>6 DEF Metric!Pairings, PairingsOf
<1>11. ASSUME NEW o \in PairingsOf(m, n) PROVE Metric!PairingCost(x, y, o) = CostOf(Scale, m, n, t, o)
  <2>1. o \subseteq (1..m) \X (1..n)
    BY DEF PairingsOf
  <2>2. \A p \in o : t[p] = Metric!TurnCell(TRUE, x[p[1]], y[p[2]])
    BY <1>3, <1>5, <1>6, <2>1 DEF CellCosts
  <2>3. [p \in o |-> t[p]] = [p \in o |-> Metric!TurnCell(TRUE, x[p[1]], y[p[2]])]
    BY <2>2
  <2> QED BY <1>5, <1>6, <2>3, SameCounts DEF Metric!PairingCost, CostOf
<1> QED BY <1>8, <1>9, <1>10, <1>11 DEF IsLeastCost

\* The costs of two trees.
RowCostsOf(c, t, u) ==
    [p \in (DOMAIN t) \X (DOMAIN u) |-> Metric!RowDistance(c, t[p[1]], u[p[2]])]
Sizes(t) == [i \in DOMAIN t |-> Scale * Metric!RowSize(t[i])]

\* The costs of turning one table into another are numbers.
LEMMA TreeCosts ==
  ASSUME NEW c \in BOOLEAN, NEW t, IsTree(t), NEW u, IsTree(u)
  PROVE  /\ Costs(Sizes(t), Sizes(u), RowCostsOf(c, t, u))
         /\ Len(Sizes(t)) = Len(t) /\ Len(Sizes(u)) = Len(u)
         /\ \A i \in 1..Len(t), j \in 1..Len(u) :
               RowCostsOf(c, t, u)[<<i, j>>] = Metric!RowDistance(c, t[i], u[j])
<1>1. PICK m \in Nat : m = Len(t) /\ DOMAIN t = 1..m
  BY DEF IsTree
<1>2. PICK n \in Nat : n = Len(u) /\ DOMAIN u = 1..n
  BY DEF IsTree
<1>3. ASSUME NEW v, IsTree(v) PROVE Sizes(v) \in Seq(Nat) /\ Len(Sizes(v)) = Len(v)
  <2>1. PICK k \in Nat : k = Len(v) /\ DOMAIN v = 1..k
    BY <1>3 DEF IsTree
  <2>2. PICK s : s = Sizes(v)
    OBVIOUS
  <2>3. s = [i \in 1..k |-> Scale * Metric!RowSize(v[i])]
    BY <2>1, <2>2 DEF Sizes
  <2>4. ASSUME NEW i \in 1..k PROVE Scale * Metric!RowSize(v[i]) \in Nat
    <3>1. Metric!RowSize(v[i]) \in Nat
      BY <1>3, <2>1 DEF IsTree, IsRow, Metric!RowSize
    <3> QED BY <3>1, DocumentsAssumption, ProductIsNumber
  <2>5. s \in [1..k -> Nat]
    BY <2>3, <2>4
  <2>6. s \in Seq(Nat) /\ Len(s) = k
    BY <2>5
  <2> QED BY <2>1, <2>2, <2>6
<1>4. \A i \in 1..m, j \in 1..n : Metric!RowDistance(c, t[i], u[j]) \in Nat
  BY <1>1, <1>2, RowDistanceIsNumber DEF IsTree
<1>5. PICK w : w = RowCostsOf(c, t, u)
  OBVIOUS
<1>6. w = [p \in (1..m) \X (1..n) |-> Metric!RowDistance(c, t[p[1]], u[p[2]])]
  BY <1>1, <1>2, <1>5 DEF RowCostsOf
<1>7. \A i \in 1..m, j \in 1..n : w[<<i, j>>] = Metric!RowDistance(c, t[i], u[j])
  BY <1>6
<1>8. w \in [(1..m) \X (1..n) -> Nat]
  <2>1. \A p \in (1..m) \X (1..n) : Metric!RowDistance(c, t[p[1]], u[p[2]]) \in Nat
    BY <1>4
  <2> QED BY <1>6, <2>1
<1>9. Costs(Sizes(t), Sizes(u), w)
  BY <1>1, <1>2, <1>3, <1>8 DEF Costs
<1> QED BY <1>1, <1>2, <1>3, <1>5, <1>7, <1>9

\* The distance of two tables, as a distance of sequences of rows.
LEMMA TreeDistanceIs ==
  ASSUME NEW c, NEW t, NEW u
  PROVE  Metric!TreeDistance(c, t, u) = Metric!Distance(Sizes(t), Sizes(u), RowCostsOf(c, t, u))
BY DEF Metric!TreeDistance, Sizes, RowCostsOf

\* The distance of two trees.
LEMMA TreeDistanceIsNumber ==
  ASSUME NEW c \in BOOLEAN, NEW t, IsTree(t), NEW u, IsTree(u)
  PROVE  /\ Metric!TreeDistance(c, t, u) \in Nat
         /\ t = u => Metric!TreeDistance(c, t, u) = 0
<1>1. Metric!TreeDistance(c, t, u) \in Nat
  BY TreeCosts, TreeDistanceIs, DistanceIsNumber
<1>2. ASSUME t = u PROVE Metric!TreeDistance(c, t, u) = 0
  <2>1. PICK l : l = Sizes(t)
    OBVIOUS
  <2>2. PICK w : w = RowCostsOf(c, t, t)
    OBVIOUS
  <2>3. Costs(l, l, w) /\ Len(l) = Len(t)
    BY <2>1, <2>2, TreeCosts
  <2>4. ASSUME NEW i \in 1..Len(t) PROVE w[<<i, i>>] = 0
    <3>1. w[<<i, i>>] = Metric!RowDistance(c, t[i], t[i])
      BY <2>2, TreeCosts
    <3> QED BY <3>1, RowDistanceOfSame DEF IsTree
  <2>5. Metric!Distance(l, l, w) = 0
    BY <2>3, <2>4, DistanceOfSame
  <2> QED BY <1>2, <2>1, <2>2, <2>5, TreeDistanceIs
<1> QED BY <1>1, <1>2

\* Two tables are no closer when the text of their cells counts.
LEMMA TreeDistanceGrows ==
  ASSUME NEW t, IsTree(t), NEW u, IsTree(u)
  PROVE  Metric!TreeDistance(FALSE, t, u) <= Metric!TreeDistance(TRUE, t, u)
<1>1. PICK no \in BOOLEAN : no = FALSE
  OBVIOUS
<1>2. PICK yes \in BOOLEAN : yes = TRUE
  OBVIOUS
<1>3. PICK l : l = Sizes(t)
  OBVIOUS
<1>4. PICK r : r = Sizes(u)
  OBVIOUS
<1>5. PICK v : v = RowCostsOf(no, t, u)
  OBVIOUS
<1>6. PICK w : w = RowCostsOf(yes, t, u)
  OBVIOUS
<1>7. Costs(l, r, v) /\ Costs(l, r, w) /\ Len(l) = Len(t) /\ Len(r) = Len(u)
  BY <1>3, <1>4, <1>5, <1>6, TreeCosts
<1>8. ASSUME NEW i \in 1..Len(t), NEW j \in 1..Len(u) PROVE v[<<i, j>>] <= w[<<i, j>>]
  <2>1. /\ v[<<i, j>>] = Metric!RowDistance(no, t[i], u[j])
        /\ w[<<i, j>>] = Metric!RowDistance(yes, t[i], u[j])
    BY <1>5, <1>6, TreeCosts
  <2>2. IsRow(t[i]) /\ IsRow(u[j])
    BY DEF IsTree
  <2>3. Metric!RowDistance(FALSE, t[i], u[j]) <= Metric!RowDistance(TRUE, t[i], u[j])
    BY <2>2, RowDistanceGrows
  <2> QED BY <1>1, <1>2, <2>1, <2>3
<1>9. Metric!Distance(l, r, v) <= Metric!Distance(l, r, w)
  BY <1>7, <1>8, DistanceGrows
<1>10. /\ Metric!TreeDistance(no, t, u) = Metric!Distance(l, r, v)
       /\ Metric!TreeDistance(yes, t, u) = Metric!Distance(l, r, w)
  BY <1>3, <1>4, <1>5, <1>6, TreeDistanceIs
<1> QED BY <1>1, <1>2, <1>9, <1>10

\* The number of nodes of a tree.
LEMMA TreeSizeIsNumber ==
  ASSUME NEW t, IsTree(t)
  PROVE  Metric!TreeSize(t) \in Nat /\ Metric!TreeSize(t) >= 1
<1>1. PICK k \in Nat : k = Len(t) /\ DOMAIN t = 1..k
  BY DEF IsTree
<1>2. PICK f : f = [r \in 1..k |-> Metric!RowSize(t[r])]
  OBVIOUS
<1>3. f \in [1..k -> Nat]
  <2>1. \A r \in 1..k : Metric!RowSize(t[r]) \in Nat
    BY <1>1 DEF IsTree, IsRow, Metric!RowSize
  <2> QED BY <1>2, <2>1
<1>4. IsFiniteSet(1..k)
  <2>1. 1 \in Int /\ k \in Int
    OBVIOUS
  <2> QED BY <2>1, FS_Interval
<1>5. PICK w \in Nat : w = Metric!Total(f)
  BY <1>3, <1>4, TotalIsNumber
<1>6. Metric!TreeSize(t) = 1 + w
  BY <1>1, <1>2, <1>5 DEF Metric!TreeSize
<1> QED BY <1>6

\* The similarity of two tables.
LEMMA TEDSIsScore ==
  ASSUME NEW c \in BOOLEAN, NEW x, IsBlock(x), NEW y, IsBlock(y)
  PROVE  /\ Metric!TEDS(c, x, y) \in Scores
         /\ x = y => Metric!Perfect(Metric!TEDS(c, x, y))
         /\ NoBetter(Metric!TEDS(TRUE, x, y), Metric!TEDS(FALSE, x, y))
<1>1. PICK t : t = Metric!Tree(x) /\ IsTree(t)
  BY TreeOfTable
<1>2. PICK u : u = Metric!Tree(y) /\ IsTree(u)
  BY TreeOfTable
<1>3. PICK z : z = Metric!MaxN(Metric!TreeSize(t), Metric!TreeSize(u))
  OBVIOUS
<1>4. z \in Nat /\ z >= 1
  BY <1>1, <1>2, <1>3, TreeSizeIsNumber DEF Metric!MaxN
<1>5. PICK s \in Nat : s = Scale * z /\ s >= 1
  BY <1>4, DocumentsAssumption, ProductIsNumber
<1>6. ASSUME NEW b \in BOOLEAN
      PROVE  Metric!TEDS(b, x, y) = [n |-> Metric!Clamped(s - Metric!TreeDistance(b, t, u)), d |-> s]
  BY <1>1, <1>2, <1>3, <1>5 DEF Metric!TEDS, Metric!Ratio
<1>7. ASSUME NEW e \in Nat PROVE Metric!Clamped(s - e) \in Nat /\ Metric!Clamped(s - e) <= s
  BY DEF Metric!Clamped, Metric!MaxN
<1>8. PICK e \in Nat : e = Metric!TreeDistance(c, t, u)
  BY <1>1, <1>2, TreeDistanceIsNumber
<1>9. PICK a : a = Metric!Clamped(s - e)
  OBVIOUS
<1>10. a \in Nat /\ a <= s /\ Metric!TEDS(c, x, y) = [n |-> a, d |-> s]
  BY <1>6, <1>7, <1>8, <1>9
<1>11. Metric!TEDS(c, x, y) \in Scores
  BY <1>5, <1>10 DEF Scores, Ratios
<1>12. ASSUME x = y PROVE Metric!Perfect(Metric!TEDS(c, x, y))
  <2>1. e = 0
    BY <1>1, <1>2, <1>8, <1>12, TreeDistanceIsNumber
  <2>2. a = s
    BY <1>5, <1>9, <2>1 DEF Metric!Clamped, Metric!MaxN
  <2> QED BY <1>10, <2>2 DEF Metric!Perfect
<1>13. NoBetter(Metric!TEDS(TRUE, x, y), Metric!TEDS(FALSE, x, y))
  <2>1. PICK no \in BOOLEAN : no = FALSE
    OBVIOUS
  <2>2. PICK yes \in BOOLEAN : yes = TRUE
    OBVIOUS
  <2>3. PICK p \in Nat : p = Metric!TreeDistance(no, t, u)
    BY <1>1, <1>2, TreeDistanceIsNumber
  <2>4. PICK q \in Nat : q = Metric!TreeDistance(yes, t, u)
    BY <1>1, <1>2, TreeDistanceIsNumber
  <2>5. p <= q
    BY <1>1, <1>2, <2>1, <2>2, <2>3, <2>4, TreeDistanceGrows
  <2>6. Metric!Clamped(s - q) <= Metric!Clamped(s - p)
    BY <2>5 DEF Metric!Clamped, Metric!MaxN
  <2>7. /\ Metric!TEDS(no, x, y) = [n |-> Metric!Clamped(s - p), d |-> s]
        /\ Metric!TEDS(yes, x, y) = [n |-> Metric!Clamped(s - q), d |-> s]
    BY <1>6, <2>3, <2>4
  <2>8. NoBetter(Metric!TEDS(yes, x, y), Metric!TEDS(no, x, y))
    BY <2>6, <2>7 DEF NoBetter
  <2> QED BY <2>1, <2>2, <2>8
<1> QED BY <1>11, <1>12, <1>13

-----------------------------------------------------------------------------
(* _table_metrics() *)

\* A list of tables.
IsTables(ts) ==
    /\ Len(ts) \in Nat /\ DOMAIN ts = 1..Len(ts)
    /\ \A k \in 1..Len(ts) : IsBlock(ts[k])

\* The similarities of two lists of tables, paired by position.
Similarities(c, gt, pred) ==
    [k \in 1..Metric!MaxN(Len(gt), Len(pred)) |->
        IF k > Len(gt) \/ k > Len(pred) THEN Metric!Zero ELSE Metric!TEDS(c, gt[k], pred[k])]

\* The similarities of the tables that are paired by position are scores,
\* and their mean is the similarity of all.
LEMMA SimilaritiesAreScores ==
  ASSUME NEW c \in BOOLEAN, NEW gt, IsTables(gt), NEW pred, IsTables(pred)
  PROVE  /\ Similarities(c, gt, pred) \in Seq(Scores)
         /\ Len(Similarities(c, gt, pred)) = Metric!MaxN(Len(gt), Len(pred))
         /\ Metric!TableTEDS(c, gt, pred) = Metric!Mean(Similarities(c, gt, pred))
<1>1. PICK n : n = Metric!MaxN(Len(gt), Len(pred))
  OBVIOUS
<1>2. n \in Nat
  BY <1>1 DEF IsTables, Metric!MaxN
<1>3. PICK f : f = Similarities(c, gt, pred)
  OBVIOUS
<1>4. f = [k \in 1..n |-> IF k > Len(gt) \/ k > Len(pred) THEN Metric!Zero
                          ELSE Metric!TEDS(c, gt[k], pred[k])]
  BY <1>1, <1>3 DEF Similarities
<1>5. ASSUME NEW k \in 1..n PROVE f[k] \in Scores
  <2>1. CASE k > Len(gt) \/ k > Len(pred)
    BY <1>4, <2>1, OneAndZero
  <2>2. CASE ~(k > Len(gt) \/ k > Len(pred))
    <3>1. k \in 1..Len(gt) /\ k \in 1..Len(pred)
      BY <2>2 DEF IsTables
    <3>2. IsBlock(gt[k]) /\ IsBlock(pred[k])
      BY <3>1 DEF IsTables
    <3> QED BY <1>4, <2>2, <3>2, TEDSIsScore
  <2> QED BY <2>1, <2>2
<1>6. f \in [1..n -> Scores]
  BY <1>4, <1>5
<1>7. f \in Seq(Scores) /\ Len(f) = n
  BY <1>2, <1>6
<1>8. Metric!TableTEDS(c, gt, pred) = Metric!Mean(f)
  BY <1>1, <1>4 DEF Metric!TableTEDS
<1> QED BY <1>1, <1>3, <1>7, <1>8

\* The mean similarity of tables; their texts never improve it.
LEMMA TableTEDSIsScore ==
  ASSUME NEW c \in BOOLEAN, NEW gt, IsTables(gt), NEW pred, IsTables(pred)
  PROVE  /\ Metric!TableTEDS(c, gt, pred) \in Scores
         /\ gt = pred => Metric!Perfect(Metric!TableTEDS(c, gt, pred))
<1>1. PICK f \in Seq(Scores) : f = Similarities(c, gt, pred) /\ Metric!TableTEDS(c, gt, pred) = Metric!Mean(f)
  BY SimilaritiesAreScores
<1>2. Metric!TableTEDS(c, gt, pred) \in Scores
  BY <1>1, MeanIsScore
<1>3. ASSUME gt = pred PROVE Metric!Perfect(Metric!TableTEDS(c, gt, pred))
  <2>1. PICK n \in Nat : n = Len(gt)
    BY DEF IsTables
  <2>2. Metric!MaxN(n, n) = n
    BY DEF Metric!MaxN
  <2>3. f = [k \in 1..n |-> IF k > n \/ k > n THEN Metric!Zero ELSE Metric!TEDS(c, gt[k], gt[k])]
    BY <1>1, <1>3, <2>1, <2>2 DEF Similarities
  <2>4. \A k \in 1..n : f[k] = Metric!TEDS(c, gt[k], gt[k])
    BY <2>3
  <2>5. \A k \in DOMAIN f : Metric!Perfect(f[k])
    <3>1. DOMAIN f = 1..n
      BY <2>3
    <3>2. ASSUME NEW k \in 1..n PROVE Metric!Perfect(f[k])
      <4>1. IsBlock(gt[k])
        BY <2>1 DEF IsTables
      <4> QED BY <2>4, <4>1, TEDSIsScore
    <3> QED BY <3>1, <3>2
  <2> QED BY <1>1, <2>5, MeanOfOnes
<1> QED BY <1>2, <1>3

\* The similarity of tables with their texts is at most the one without.
LEMMA ContentIsNoHelp ==
  ASSUME NEW gt, IsTables(gt), NEW pred, IsTables(pred)
  PROVE  ~Metric!Larger(Metric!TableTEDS(TRUE, gt, pred), Metric!TableTEDS(FALSE, gt, pred))
<1>1. PICK no \in BOOLEAN : no = FALSE
  OBVIOUS
<1>2. PICK yes \in BOOLEAN : yes = TRUE
  OBVIOUS
<1>3. PICK f \in Seq(Scores) : /\ f = Similarities(yes, gt, pred)
                               /\ Len(f) = Metric!MaxN(Len(gt), Len(pred))
                               /\ Metric!TableTEDS(yes, gt, pred) = Metric!Mean(f)
  BY SimilaritiesAreScores
<1>4. PICK g \in Seq(Scores) : /\ g = Similarities(no, gt, pred)
                               /\ Len(g) = Metric!MaxN(Len(gt), Len(pred))
                               /\ Metric!TableTEDS(no, gt, pred) = Metric!Mean(g)
  BY SimilaritiesAreScores
<1>5. ASSUME NEW k \in 1..Len(f) PROVE NoBetter(f[k], g[k])
  <2>1. /\ f[k] = (IF k > Len(gt) \/ k > Len(pred) THEN Metric!Zero ELSE Metric!TEDS(yes, gt[k], pred[k]))
        /\ g[k] = (IF k > Len(gt) \/ k > Len(pred) THEN Metric!Zero ELSE Metric!TEDS(no, gt[k], pred[k]))
    BY <1>3, <1>4 DEF Similarities
  <2>2. CASE k > Len(gt) \/ k > Len(pred)
    <3>1. f[k] = Metric!Zero /\ g[k] = Metric!Zero
      BY <2>1, <2>2
    <3> QED BY <3>1 DEF NoBetter, Metric!Zero
  <2>3. CASE ~(k > Len(gt) \/ k > Len(pred))
    <3>1. k \in 1..Len(gt) /\ k \in 1..Len(pred)
      BY <2>3 DEF IsTables
    <3>2. IsBlock(gt[k]) /\ IsBlock(pred[k])
      BY <3>1 DEF IsTables
    <3>3. NoBetter(Metric!TEDS(TRUE, gt[k], pred[k]), Metric!TEDS(FALSE, gt[k], pred[k]))
      BY <1>1, <3>2, TEDSIsScore
    <3> QED BY <1>1, <1>2, <2>1, <2>3, <3>3
  <2> QED BY <2>2, <2>3
<1>6. ~Metric!Larger(Metric!Mean(f), Metric!Mean(g))
  BY <1>3, <1>4, <1>5, MeanGrows
<1> QED BY <1>1, <1>2, <1>3, <1>4, <1>6

\* The places of the cells of tables are finitely many, with a text each.
LEMMA PlacesOfTables ==
  ASSUME NEW ts, IsTables(ts)
  PROVE  /\ IsFiniteSet(Metric!AllKeys(ts))
         /\ \A p : Metric!TextAt(ts, p) \in Strings
<1>1. PICK n \in Nat : n = Len(ts) /\ DOMAIN ts = 1..n
  BY DEF IsTables
<1>2. PICK f : f = [k \in 1..n |-> {k} \X Metric!Keys(ts[k])]
  OBVIOUS
<1>3. PICK T : T = {f[k] : k \in 1..n}
  OBVIOUS
<1>4. IsFiniteSet(1..n)
  <2>1. 1 \in Int /\ n \in Int
    OBVIOUS
  <2> QED BY <2>1, FS_Interval
<1>5. IsFiniteSet(T)
  <2>1. DOMAIN f = 1..n
    BY <1>2
  <2> QED BY <1>3, <1>4, <2>1, FiniteValues
<1>6. ASSUME NEW U \in T PROVE IsFiniteSet(U)
  <2>1. PICK k \in 1..n : U = {k} \X Metric!Keys(ts[k])
    BY <1>2, <1>3
  <2>2. IsFiniteSet({k}) /\ IsFiniteSet(Metric!Keys(ts[k]))
    BY <1>1, FS_Singleton, KeysOfTable DEF IsTables
  <2> QED BY <2>1, <2>2, FS_Product
<1>7. Metric!AllKeys(ts) = UNION T
  <2>1. T = {{k} \X Metric!Keys(ts[k]) : k \in 1..n}
    BY <1>2, <1>3
  <2> QED BY <1>1, <2>1 DEF Metric!AllKeys
<1>8. ASSUME NEW p PROVE Metric!TextAt(ts, p) \in Strings
  <2>1. CASE p \in Metric!AllKeys(ts)
    <3>1. PICK k \in 1..n : p \in {k} \X Metric!Keys(ts[k])
      BY <1>1, <2>1 DEF Metric!AllKeys
    <3>2. p[1] = k /\ p[2] \in Metric!Keys(ts[k])
      BY <3>1
    <3>3. IsBlock(ts[k])
      BY <1>1 DEF IsTables
    <3> QED BY <2>1, <3>2, <3>3, KeysOfTable DEF Metric!TextAt
  <2>2. CASE p \notin Metric!AllKeys(ts)
    BY <2>2 DEF Metric!TextAt, Strings
  <2> QED BY <2>1, <2>2
<1> QED BY <1>5, <1>6, <1>7, <1>8, FS_UNION

\* The accuracy of the number and of the texts of tables.
TextDistance(gt, pred) ==
    Metric!Total([p \in Metric!AllKeys(gt) \cup Metric!AllKeys(pred) |->
                     Metric!EditDistance(Metric!TextAt(gt, p), Metric!TextAt(pred, p))])
TextLength(gt, pred) ==
    Metric!Total([p \in Metric!AllKeys(gt) \cup Metric!AllKeys(pred) |->
                     Metric!MaxN(Len(Metric!TextAt(gt, p)), Len(Metric!TextAt(pred, p)))])

\* The texts of all tables: their distance and their length are numbers.
LEMMA TextsOfTables ==
  ASSUME NEW gt, IsTables(gt), NEW pred, IsTables(pred)
  PROVE  /\ TextDistance(gt, pred) \in Nat /\ TextLength(gt, pred) \in Nat
         /\ gt = pred => TextDistance(gt, pred) = 0
<1>1. PICK P : P = Metric!AllKeys(gt) \cup Metric!AllKeys(pred)
  OBVIOUS
<1>2. IsFiniteSet(P)
  BY <1>1, PlacesOfTables, FS_Union
<1>3. \A p : Metric!TextAt(gt, p) \in Strings /\ Metric!TextAt(pred, p) \in Strings
  BY PlacesOfTables
<1>4. PICK f : f = [p \in P |-> Metric!EditDistance(Metric!TextAt(gt, p), Metric!TextAt(pred, p))]
  OBVIOUS
<1>5. PICK g : g = [p \in P |-> Metric!MaxN(Len(Metric!TextAt(gt, p)), Len(Metric!TextAt(pred, p)))]
  OBVIOUS
<1>6. f \in [P -> Nat]
  <2>1. \A p \in P : Metric!EditDistance(Metric!TextAt(gt, p), Metric!TextAt(pred, p)) \in Nat
    BY <1>3, EditDistanceIsNumber
  <2> QED BY <1>4, <2>1
<1>7. g \in [P -> Nat]
  <2>1. ASSUME NEW p \in P
        PROVE  Metric!MaxN(Len(Metric!TextAt(gt, p)), Len(Metric!TextAt(pred, p))) \in Nat
    <3>1. PICK x \in Nat : x = Len(Metric!TextAt(gt, p))
      BY <1>3 DEF Strings
    <3>2. PICK y \in Nat : y = Len(Metric!TextAt(pred, p))
      BY <1>3 DEF Strings
    <3> QED BY <3>1, <3>2 DEF Metric!MaxN
  <2> QED BY <1>5, <2>1
<1>8. ASSUME gt = pred PROVE Metric!Total(f) = 0
  <2>1. \A p \in P : f[p] = 0
    BY <1>4, <1>8, EditDistanceOfSame
  <2> QED BY <1>6, <2>1, TotalOfZeros
<1>9. Metric!Total(f) \in Nat /\ Metric!Total(g) \in Nat
  BY <1>2, <1>6, <1>7, TotalIsNumber
<1> QED BY <1>1, <1>4, <1>5, <1>8, <1>9 DEF TextDistance, TextLength

\* The metrics of tables.
TableScores(m) ==
    /\ m.count_accuracy \in Scores /\ m.teds \in Scores /\ m.teds_structure \in Scores
    /\ m.structure \in Triples /\ m.content_accuracy \in Scores
    /\ ~Metric!Larger(m.teds, m.teds_structure)
TablesPerfect(m) ==
    /\ Metric!Perfect(m.count_accuracy) /\ Metric!Perfect(m.teds) /\ Metric!Perfect(m.teds_structure)
    /\ \A r \in Metric!Triple(m.structure) : Metric!Perfect(r)
    /\ Metric!Perfect(m.content_accuracy)

\* What is said of tables are scores, perfect ones when the tables are the same.
LEMMA TablesAreScores ==
  ASSUME NEW d, IsDocument(d), NEW e, IsDocument(e)
  PROVE  /\ TableScores(Metric!Tables(d, e))
         /\ d = e => TablesPerfect(Metric!Tables(d, e))
<1>1. PICK gt : gt = Metric!OfType(d, "table") /\ IsTables(gt)
  BY OfTypeTaken DEF IsTables
<1>2. PICK pred : pred = Metric!OfType(e, "table") /\ IsTables(pred)
  BY OfTypeTaken DEF IsTables
<1>3. PICK K : K = Metric!AllKeys(gt)
  OBVIOUS
<1>4. PICK L : L = Metric!AllKeys(pred)
  OBVIOUS
<1>5. PICK m : m = Metric!Tables(d, e)
  OBVIOUS
<1>6. PICK most : most = Metric!MaxN(Len(gt), Len(pred))
  OBVIOUS
<1>7. PICK length \in Nat : length = TextLength(gt, pred)
  BY <1>1, <1>2, TextsOfTables
<1>8. PICK distance \in Nat : distance = TextDistance(gt, pred)
  BY <1>1, <1>2, TextsOfTables
<1>9. m = [count_accuracy |-> Metric!Ratio(most - Metric!Difference(Len(gt), Len(pred)), most),
           teds |-> Metric!TableTEDS(TRUE, gt, pred),
           teds_structure |-> Metric!TableTEDS(FALSE, gt, pred),
           structure |-> Metric!F1(Metric!Cardinality(K \cap L), Metric!Cardinality(L \ K),
                                   Metric!Cardinality(K \ L)),
           content_accuracy |-> Metric!Ratio(Metric!Clamped(length - distance), length)]
  BY <1>1, <1>2, <1>3, <1>4, <1>5, <1>6, <1>7, <1>8
     DEF Metric!Tables, TextLength, TextDistance
<1>10. PICK x \in Nat : x = Len(gt)
  BY <1>1 DEF IsTables
<1>11. PICK y \in Nat : y = Len(pred)
  BY <1>2 DEF IsTables
<1>12. PICK z : z = most - Metric!Difference(Len(gt), Len(pred))
  OBVIOUS
<1>13. most \in Nat /\ z \in Nat /\ z <= most /\ (x = y => z = most)
  BY <1>6, <1>10, <1>11, <1>12 DEF Metric!MaxN, Metric!Difference
<1>14. m.count_accuracy = Metric!Ratio(z, most) /\ m.count_accuracy \in Scores
  <2>1. m.count_accuracy = Metric!Ratio(z, most)
    BY <1>9, <1>12
  <2> QED BY <1>13, <2>1, RatioIsScore
<1>15. PICK w : w = Metric!Clamped(length - distance)
  OBVIOUS
<1>16. w \in Nat /\ w <= length /\ (distance = 0 => w = length)
  BY <1>15 DEF Metric!Clamped, Metric!MaxN
<1>17. m.content_accuracy = Metric!Ratio(w, length) /\ m.content_accuracy \in Scores
  <2>1. m.content_accuracy = Metric!Ratio(w, length)
    BY <1>9, <1>15
  <2> QED BY <1>16, <2>1, RatioIsScore
<1>18. PICK no \in BOOLEAN : no = FALSE
  OBVIOUS
<1>19. PICK yes \in BOOLEAN : yes = TRUE
  OBVIOUS
<1>20. m.teds = Metric!TableTEDS(yes, gt, pred) /\ m.teds_structure = Metric!TableTEDS(no, gt, pred)
  BY <1>9, <1>18, <1>19
<1>21. m.teds \in Scores /\ m.teds_structure \in Scores
  BY <1>1, <1>2, <1>20, TableTEDSIsScore
<1>22. ~Metric!Larger(m.teds, m.teds_structure)
  <2>1. ~Metric!Larger(Metric!TableTEDS(TRUE, gt, pred), Metric!TableTEDS(FALSE, gt, pred))
    BY <1>1, <1>2, ContentIsNoHelp
  <2> QED BY <1>18, <1>19, <1>20, <2>1
<1>23. /\ IsFiniteSet(K \cap L) /\ IsFiniteSet(L \ K) /\ IsFiniteSet(K \ L)
  <2>1. IsFiniteSet(K) /\ IsFiniteSet(L)
    BY <1>1, <1>2, <1>3, <1>4, PlacesOfTables
  <2> QED BY <2>1, FS_Subset
<1>24. PICK tp \in Nat : tp = Metric!Cardinality(K \cap L)
  BY <1>23, SameCounts, FS_CardinalityType
<1>25. PICK fp \in Nat : fp = Metric!Cardinality(L \ K)
  BY <1>23, SameCounts, FS_CardinalityType
<1>26. PICK fn \in Nat : fn = Metric!Cardinality(K \ L)
  BY <1>23, SameCounts, FS_CardinalityType
<1>27. m.structure = Metric!F1(tp, fp, fn) /\ m.structure \in Triples
  BY <1>9, <1>24, <1>25, <1>26, F1IsScores
<1>28. TableScores(m)
  BY <1>14, <1>17, <1>21, <1>22, <1>27 DEF TableScores
<1>29. ASSUME d = e PROVE TablesPerfect(m)
  <2>1. gt = pred
    BY <1>1, <1>2, <1>29
  <2>2. Metric!Perfect(m.count_accuracy)
    BY <1>10, <1>11, <1>13, <1>14, <2>1 DEF Metric!Perfect, Metric!Ratio
  <2>3. Metric!Perfect(m.content_accuracy)
    <3>1. distance = 0
      BY <1>1, <1>8, <2>1, TextsOfTables
    <3> QED BY <1>16, <1>17, <3>1 DEF Metric!Perfect, Metric!Ratio
  <2>4. Metric!Perfect(m.teds) /\ Metric!Perfect(m.teds_structure)
    BY <1>1, <1>20, <2>1, TableTEDSIsScore
  <2>5. fp = 0 /\ fn = 0
    <3>1. L \ K = {} /\ K \ L = {}
      BY <1>3, <1>4, <2>1
    <3> QED BY <1>25, <1>26, <3>1, SameCounts, FS_EmptySet
  <2>6. \A r \in Metric!Triple(m.structure) : Metric!Perfect(r)
    BY <1>27, <2>5, F1OfAll
  <2> QED BY <2>2, <2>3, <2>4, <2>6 DEF TablesPerfect
<1> QED BY <1>5, <1>28, <1>29

-----------------------------------------------------------------------------
(* Boxes that overlap *)

\* Left, top, right and bottom of a box.
IsBox(a) == a \in [1..4 -> Int] /\ a[1] <= a[3] /\ a[2] <= a[4]

\* A product of smaller numbers is no larger, and as large only when both are the same.
LEMMA ProductBound ==
  ASSUME NEW a \in Nat, NEW b \in Nat, NEW c \in Nat, NEW e \in Nat, a <= c, b <= e
  PROVE  /\ a * b \in Nat /\ c * e \in Nat /\ a * b <= c * e
         /\ a * b = c * e /\ c * e >= 1 => a = c /\ b = e
<1>1. a * b \in Nat /\ c * e \in Nat /\ c * b \in Nat
  BY ProductIsNumber
<1>2. a * b <= c * b
  BY ProductGrows
<1>3. c * b <= c * e
  <2>1. b * c <= e * c
    BY ProductGrows
  <2>2. b * c = c * b /\ e * c = c * e
    OBVIOUS
  <2> QED BY <2>1, <2>2
<1>4. ASSUME a * b = c * e, c * e >= 1 PROVE a = c /\ b = e
  <2>1. a * b = c * b /\ c * b = c * e
    BY <1>1, <1>2, <1>3, <1>4
  <2>2. a = c
    <3>1. PICK x \in Nat : x = c - a
      OBVIOUS
    <3>2. x * b = c * b - a * b
      BY <3>1
    <3>3. x * b = 0
      BY <1>1, <2>1, <3>2
    <3>4. b # 0
      BY <1>4, <2>1
    <3> QED BY <3>1, <3>3, <3>4, ProductIsNumber
  <2>3. b = e
    <3>1. PICK x \in Nat : x = e - b
      OBVIOUS
    <3>2. c * x = c * e - c * b
      BY <3>1
    <3>3. c * x = 0
      BY <1>1, <2>1, <3>2
    <3>4. c # 0
      BY <1>4
    <3> QED BY <3>1, <3>3, <3>4, ProductIsNumber
  <2> QED BY <2>2, <2>3
<1>5. a * b <= c * e
  BY <1>1, <1>2, <1>3
<1> QED BY <1>1, <1>4, <1>5

\* The width that two ranges share.
Shared(x1, x2, y1, y2) == Metric!MaxN(0, Metric!MinN(x2, y2) - Metric!MaxN(x1, y1))

\* What two intervals share is no longer than either, and as long only when
\* they are the same.
LEMMA SharedBound ==
  ASSUME NEW x1 \in Int, NEW x2 \in Int, NEW y1 \in Int, NEW y2 \in Int, x1 <= x2, y1 <= y2
  PROVE  /\ Shared(x1, x2, y1, y2) \in Nat
         /\ Shared(x1, x2, y1, y2) <= x2 - x1 /\ Shared(x1, x2, y1, y2) <= y2 - y1
         /\ /\ Shared(x1, x2, y1, y2) = x2 - x1 /\ Shared(x1, x2, y1, y2) = y2 - y1
            /\ x2 - x1 >= 1
            => x1 = y1 /\ x2 = y2
         /\ Shared(x1, x2, x1, x2) = x2 - x1
BY DEF Shared, Metric!MaxN, Metric!MinN

\* Two intervals that share all of both are the same.
LEMMA SharedAll ==
  ASSUME NEW x1 \in Int, NEW x2 \in Int, NEW y1 \in Int, NEW y2 \in Int, NEW p \in Int,
         p = Shared(x1, x2, y1, y2), p = x2 - x1, p = y2 - y1, p >= 1
  PROVE  x1 = y1 /\ x2 = y2
BY DEF Shared, Metric!MaxN, Metric!MinN

\* The factors of a product in another order.
LEMMA Commuted ==
  ASSUME NEW a \in Nat, NEW b \in Nat, NEW c \in Nat
  PROVE  (a * b) * c = (a * c) * b
OBVIOUS

\* How two boxes overlap: a ratio, one for the same box with an area and for no others.
LEMMA IoUFacts ==
  ASSUME NEW a, IsBox(a), NEW b, IsBox(b)
  PROVE  /\ Metric!IoU(a, b) \in Ratios /\ Metric!IoU(a, b).d >= 1
         /\ Metric!IoU(a, b).n <= Metric!IoU(a, b).d
         /\ Metric!Area(a) >= 1 /\ Metric!Area(b) >= 1 /\ Metric!IoU(a, b).n = Metric!IoU(a, b).d
            => a = b
         /\ Metric!Area(a) >= 1 /\ a = b => Metric!IoU(a, b).n = Metric!IoU(a, b).d
<1>1. /\ a[1] \in Int /\ a[2] \in Int /\ a[3] \in Int /\ a[4] \in Int /\ a[1] <= a[3] /\ a[2] <= a[4]
      /\ b[1] \in Int /\ b[2] \in Int /\ b[3] \in Int /\ b[4] \in Int /\ b[1] <= b[3] /\ b[2] <= b[4]
  BY DEF IsBox
<1>2. PICK w \in Nat : w = a[3] - a[1]
  BY <1>1
<1>3. PICK h \in Nat : h = a[4] - a[2]
  BY <1>1
<1>4. PICK v \in Nat : v = b[3] - b[1]
  BY <1>1
<1>5. PICK g \in Nat : g = b[4] - b[2]
  BY <1>1
<1>6. PICK p \in Nat : p = Shared(a[1], a[3], b[1], b[3])
  BY <1>1, SharedBound
<1>7. PICK q \in Nat : q = Shared(a[2], a[4], b[2], b[4])
  BY <1>1, SharedBound
<1>8. p <= w /\ p <= v /\ q <= h /\ q <= g
  BY <1>1, <1>2, <1>3, <1>4, <1>5, <1>6, <1>7, SharedBound
<1>9. PICK s \in Nat : s = w * h /\ s = Metric!Area(a)
  BY <1>2, <1>3, ProductIsNumber DEF Metric!Area
<1>10. PICK t \in Nat : t = v * g /\ t = Metric!Area(b)
  BY <1>4, <1>5, ProductIsNumber DEF Metric!Area
<1>11. PICK i \in Nat : i = p * q /\ i = Metric!Intersection(a, b)
  BY <1>6, <1>7, ProductIsNumber DEF Metric!Intersection, Shared
<1>12. i <= s /\ i <= t
  BY <1>8, <1>9, <1>10, <1>11, ProductBound
<1>13. Metric!IoU(a, b) = IF s + t - i = 0 THEN Metric!Zero ELSE [n |-> i, d |-> s + t - i]
  BY <1>9, <1>10, <1>11 DEF Metric!IoU
<1>14. s + t - i \in Nat /\ i <= s + t - i
  BY <1>12
<1>15. PICK r : r = Metric!IoU(a, b)
  OBVIOUS
<1>16. r \in Ratios /\ r.d >= 1 /\ r.n <= r.d
  <2>1. CASE s + t - i = 0
    BY <1>13, <1>15, <2>1 DEF Metric!Zero, Ratios
  <2>2. CASE s + t - i # 0
    BY <1>13, <1>14, <1>15, <2>2 DEF Ratios
  <2> QED BY <2>1, <2>2
<1>17. ASSUME s >= 1, t >= 1, r.n = r.d PROVE a = b
  <2>1. i = s /\ i = t
    <3>1. s + t - i # 0
      BY <1>12, <1>17
    <3>2. i = s + t - i
      BY <1>13, <1>15, <1>17, <3>1
    <3> QED BY <1>12, <3>2
  <2>2. p = w /\ q = h
    BY <1>8, <1>9, <1>11, <1>17, <2>1, ProductBound
  <2>3. p = v /\ q = g
    BY <1>8, <1>10, <1>11, <1>17, <2>1, ProductBound
  <2>4. w >= 1 /\ h >= 1
    <3>1. w # 0 /\ h # 0
      BY <1>9, <1>17
    <3> QED BY <3>1
  <2>5. a[1] = b[1] /\ a[3] = b[3]
    <3>1. p \in Int /\ p = a[3] - a[1] /\ p = b[3] - b[1] /\ p >= 1
      BY <1>2, <1>4, <2>2, <2>3, <2>4
    <3> QED BY <1>1, <1>6, <3>1, SharedAll
  <2>6. a[2] = b[2] /\ a[4] = b[4]
    <3>1. q \in Int /\ q = a[4] - a[2] /\ q = b[4] - b[2] /\ q >= 1
      BY <1>3, <1>5, <2>2, <2>3, <2>4
    <3> QED BY <1>1, <1>7, <3>1, SharedAll
  <2>7. \A k \in 1..4 : a[k] = b[k]
    BY <2>5, <2>6
  <2>8. a = [k \in 1..4 |-> a[k]] /\ b = [k \in 1..4 |-> b[k]]
    BY DEF IsBox
  <2> QED BY <2>7, <2>8
<1>18. ASSUME s >= 1, a = b PROVE r.n = r.d
  <2>1. p = w /\ q = h
    BY <1>1, <1>2, <1>3, <1>6, <1>7, <1>18, SharedBound
  <2>2. i = s /\ t = s
    BY <1>9, <1>10, <1>11, <1>18, <2>1
  <2>3. s + t - i # 0 /\ s + t - i = i
    BY <1>18, <2>2
  <2> QED BY <1>13, <1>15, <2>3
<1>19. (Metric!Area(a) >= 1 <=> s >= 1) /\ (Metric!Area(b) >= 1 <=> t >= 1)
  BY <1>9, <1>10
<1> QED BY <1>15, <1>16, <1>17, <1>18, <1>19

\* The order of ratios.
AtMost(r, s) == r.n * s.d <= s.n * r.d
Positive == {r \in Ratios : r.d >= 1}

\* Ratios with positive denominators are in order.
LEMMA AtMostFacts ==
  ASSUME NEW r \in Positive, NEW s \in Positive
  PROVE  /\ Metric!Larger(r, s) <=> ~AtMost(r, s)
         /\ AtMost(r, s) \/ AtMost(s, r)
         /\ AtMost(r, r)
<1>1. r.n \in Nat /\ r.d \in Nat /\ s.n \in Nat /\ s.d \in Nat
  BY DEF Positive, Ratios
<1>2. PICK x \in Nat : x = r.n * s.d
  BY <1>1, ProductIsNumber
<1>3. PICK y \in Nat : y = s.n * r.d
  BY <1>1, ProductIsNumber
<1>4. PICK z \in Nat : z = r.n * r.d
  BY <1>1, ProductIsNumber
<1> QED BY <1>2, <1>3, <1>4 DEF AtMost, Metric!Larger

\* That order is transitive.
LEMMA AtMostTransitive ==
  ASSUME NEW r \in Positive, NEW s \in Positive, NEW t \in Positive, AtMost(r, s), AtMost(s, t)
  PROVE  AtMost(r, t)
<1>1. /\ r.n \in Nat /\ r.d \in Nat /\ s.n \in Nat /\ s.d \in Nat /\ t.n \in Nat /\ t.d \in Nat
      /\ s.d >= 1
  BY DEF Positive, Ratios
<1>2. PICK x \in Nat : x = r.n * t.d
  BY <1>1, ProductIsNumber
<1>3. PICK y \in Nat : y = t.n * r.d
  BY <1>1, ProductIsNumber
<1>4. (r.n * s.d) * t.d <= (s.n * r.d) * t.d
  BY <1>1, ProductIsNumber, ProductGrows DEF AtMost
<1>5. (s.n * t.d) * r.d <= (t.n * s.d) * r.d
  BY <1>1, ProductIsNumber, ProductGrows DEF AtMost
<1>6. /\ (r.n * s.d) * t.d = x * s.d /\ (t.n * s.d) * r.d = y * s.d
      /\ (s.n * r.d) * t.d = (s.n * t.d) * r.d
  <2>1. (r.n * s.d) * t.d = (r.n * t.d) * s.d
    BY <1>1, Commuted
  <2>2. (t.n * s.d) * r.d = (t.n * r.d) * s.d
    BY <1>1, Commuted
  <2>3. (s.n * r.d) * t.d = (s.n * t.d) * r.d
    BY <1>1, Commuted
  <2> QED BY <1>2, <1>3, <2>1, <2>2, <2>3, Zenon
<1>7. x * s.d <= y * s.d
  <2>1. PICK k \in Nat : k = x * s.d
    BY <1>1, ProductIsNumber
  <2>2. PICK l \in Nat : l = y * s.d
    BY <1>1, ProductIsNumber
  <2>3. PICK m \in Nat : m = (s.n * r.d) * t.d
    BY <1>1, ProductIsNumber
  <2>4. k <= m /\ m <= l
    BY <1>4, <1>5, <1>6, <2>1, <2>2, <2>3
  <2> QED BY <2>1, <2>2, <2>4
<1>8. ASSUME y < x PROVE FALSE
  <2>1. y + 1 \in Nat /\ y + 1 <= x
    BY <1>8
  <2>2. (y + 1) * s.d <= x * s.d
    BY <1>1, <2>1, ProductGrows
  <2>3. (y + 1) * s.d = y * s.d + s.d
    BY <1>1
  <2>4. PICK l \in Nat : l = y * s.d
    BY <1>1, ProductIsNumber
  <2>5. PICK k \in Nat : k = x * s.d
    BY <1>1, ProductIsNumber
  <2>6. k <= l /\ l + s.d <= k
    BY <1>7, <2>2, <2>3, <2>4, <2>5
  <2> QED BY <1>1, <2>6
<1>9. x <= y
  BY <1>8
<1> QED BY <1>2, <1>3, <1>9 DEF AtMost

-----------------------------------------------------------------------------
(* Members of a finite set in an order *)

\* An order of a set orders every part of it.
LEMMA OrderOfPart ==
  ASSUME NEW S, NEW R, IsOrder(R, S), NEW T, T \subseteq S
  PROVE  IsOrder(R, T)
BY DEF IsOrder

\* Some member comes first.
LEMMA FirstInOrder ==
  ASSUME NEW S, IsFiniteSet(S), S # {}, NEW R, IsOrder(R, S)
  PROVE  \E x \in S : \A y \in S : x = y \/ <<x, y>> \in R
<1>1. Cardinality(S) \in Nat /\ Cardinality(S) # 0
  BY FS_CardinalityType, FS_EmptySet
<1>2. 1 \in 1..Cardinality(S)
  BY <1>1
<1>3. PICK x \in S : Cardinality(Below(R, S, x)) = 1 - 1
  BY <1>2, RanksAreTaken
<1>4. Below(R, S, x) = {}
  <2>1. Below(R, S, x) \subseteq S
    BY DEF Below
  <2>2. IsFiniteSet(Below(R, S, x))
    BY <2>1, FS_Subset
  <2> QED BY <1>3, <2>2, FS_EmptySet
<1>5. \A y \in S : <<y, x>> \notin R
  BY <1>4 DEF Below
<1> QED BY <1>5 DEF IsOrder

\* A recursive definition that looks at earlier members only describes a function.
LooksBack(G, C, V, R) ==
    /\ G \in [[C -> V] \X C -> V]
    /\ \A f, g \in [C -> V], c \in C :
          (\A x \in C : <<x, c>> \in R => f[x] = g[x]) => G[<<f, c>>] = G[<<g, c>>]

\* A function whose values follow from the values at the members before:
\* a loop over a finite set in an order has a result.
LEMMA OrderedRecursion ==
  ASSUME NEW C, IsFiniteSet(C), NEW R, IsOrder(R, C), NEW V, NEW b \in V,
         NEW G, LooksBack(G, C, V, R)
  PROVE  \E f \in [C -> V] : \A c \in C : f[c] = G[<<f, c>>]
<1>1. PICK rank : rank = [c \in C |-> Cardinality(Below(R, C, c))]
  OBVIOUS
<1>2. ASSUME NEW c \in C PROVE rank[c] \in Nat /\ rank[c] <= Cardinality(C)
  <2>1. Below(R, C, c) \subseteq C
    BY DEF Below
  <2>2. IsFiniteSet(Below(R, C, c)) /\ Cardinality(Below(R, C, c)) <= Cardinality(C)
    BY <2>1, FS_Subset
  <2> QED BY <1>1, <2>2, FS_CardinalityType
<1>3. PICK n \in Nat : n = Cardinality(C) + 1
  BY FS_CardinalityType
<1>4. \A c \in C : rank[c] < n
  BY <1>2, <1>3, FS_CardinalityType
<1>5. rank \in [C -> Nat]
  BY <1>1, <1>2
<1>6. ASSUME NEW f \in [C -> V], NEW g \in [C -> V], NEW c \in C,
             \A x \in C : rank[x] < rank[c] => f[x] = g[x]
      PROVE  G[<<f, c>>] = G[<<g, c>>]
  <2>1. ASSUME NEW x \in C, <<x, c>> \in R PROVE f[x] = g[x]
    BY <1>1, <1>6, <2>1, RankGrows
  <2> QED BY <2>1 DEF LooksBack
<1>7. IsStep(G, C, V, rank)
  BY <1>5, <1>6 DEF IsStep, LooksBack
<1> QED BY <1>4, <1>7, RecursionExists

\* Members that are compared by ratios, and by another order when these are equal.
LEMMA RankedIsOrder ==
  ASSUME NEW C, NEW ov, \A c \in C : ov[c] \in Positive, NEW L, IsOrder(L, C), NEW R,
         \A x, y \in C : <<x, y>> \in R
            <=> ~AtMost(ov[x], ov[y]) \/ (AtMost(ov[y], ov[x]) /\ <<x, y>> \in L)
  PROVE  IsOrder(R, C)
<1>1. \A x, y \in C : AtMost(ov[x], ov[y]) \/ AtMost(ov[y], ov[x])
  BY AtMostFacts
<1>2. \A x, y, z \in C : AtMost(ov[x], ov[y]) /\ AtMost(ov[y], ov[z]) => AtMost(ov[x], ov[z])
  BY AtMostTransitive
<1>3. \A x \in C : <<x, x>> \notin R
  BY <1>1 DEF IsOrder
<1>4. \A x, y, z \in C : <<x, y>> \in R /\ <<y, z>> \in R => <<x, z>> \in R
  BY <1>1, <1>2 DEF IsOrder
<1>5. \A x, y \in C : x # y => <<x, y>> \in R \/ <<y, x>> \in R
  BY <1>1 DEF IsOrder
<1> QED BY <1>3, <1>4, <1>5 DEF IsOrder

-----------------------------------------------------------------------------
(* _layout_metrics() *)

\* An injection between finite sets compares their sizes.
LEMMA NoMore ==
  ASSUME NEW S, NEW T, IsFiniteSet(T), NEW f \in [S -> T],
         \A x, y \in S : f[x] = f[y] => x = y
  PROVE  IsFiniteSet(S) /\ Cardinality(S) <= Cardinality(T)
<1>1. f \in Injection(S, T)
  BY DEF Injection, IsInjective
<1> QED BY <1>1, FS_Injection

\* What a loop takes that goes through pairs in an order, and takes a pair when
\* neither member is in a pair it took before.
IsGreedy(M, C, R) ==
    /\ M \subseteq C
    /\ \A c \in C : c \in M <=> ~\E m \in M : <<m, c>> \in R /\ (m[1] = c[1] \/ m[2] = c[2])

\* What a greedy loop takes is a matching, and one that nothing can be added to.
LEMMA GreedyIsMatching ==
  ASSUME NEW M, NEW C, NEW R, IsOrder(R, C), IsGreedy(M, C, R)
  PROVE  /\ \A m, o \in M : m[1] = o[1] \/ m[2] = o[2] => m = o
         /\ \A c \in C : \E m \in M : m[1] = c[1] \/ m[2] = c[2]
<1>1. ASSUME NEW m \in M, NEW o \in M, m[1] = o[1] \/ m[2] = o[2] PROVE m = o
  <2>1. m \in C /\ o \in C
    BY DEF IsGreedy
  <2>2. <<m, o>> \notin R
    BY <1>1, <2>1 DEF IsGreedy
  <2>3. <<o, m>> \notin R
    BY <1>1, <2>1 DEF IsGreedy
  <2> QED BY <2>1, <2>2, <2>3 DEF IsOrder
<1>2. ASSUME NEW c \in C PROVE \E m \in M : m[1] = c[1] \/ m[2] = c[2]
  BY DEF IsGreedy
<1> QED BY <1>1, <1>2

\* There are as many pairs as blocks at most.
LEMMA GreedyCount ==
  ASSUME NEW M, NEW C, NEW R, IsOrder(R, C), IsGreedy(M, C, R), NEW A, NEW B,
         IsFiniteSet(A), IsFiniteSet(B), C \subseteq A \X B
  PROVE  IsFiniteSet(M) /\ Cardinality(M) <= Cardinality(A) /\ Cardinality(M) <= Cardinality(B)
<1>1. M \subseteq A \X B
  BY DEF IsGreedy
<1>2. PICK f : f = [m \in M |-> m[1]]
  OBVIOUS
<1>3. PICK g : g = [m \in M |-> m[2]]
  OBVIOUS
<1>4. f \in [M -> A] /\ g \in [M -> B]
  BY <1>1, <1>2, <1>3
<1>5. \A x, y \in M : f[x] = f[y] => x = y
  BY <1>2, GreedyIsMatching
<1>6. \A x, y \in M : g[x] = g[y] => x = y
  BY <1>3, GreedyIsMatching
<1>7. IsFiniteSet(M) /\ Cardinality(M) <= Cardinality(A)
  BY <1>4, <1>5, NoMore
<1>8. Cardinality(M) <= Cardinality(B)
  BY <1>4, <1>6, NoMore
<1> QED BY <1>7, <1>8

\* In a class of members that pair best with one another every member is paired.
LEMMA GreedyTakesClass ==
  ASSUME NEW M, NEW C, NEW R, IsOrder(R, C), IsGreedy(M, C, R), NEW K, IsFiniteSet(K),
         K \X K \subseteq C, NEW k \in K,
         \A c \in K \X K, m \in C : <<m, c>> \in R /\ (m[1] \in K \/ m[2] \in K) => m \in K \X K
  PROVE  \E m \in M : m[1] = k
<1>1. ASSUME ~\E m \in M : m[1] = k PROVE FALSE
  <2>1. ASSUME NEW j \in K PROVE \E i \in K \ {k} : <<i, j>> \in M
    <3>1. PICK c : c = <<k, j>>
      OBVIOUS
    <3>2. c \in K \X K /\ c \in C /\ c[1] = k /\ c[2] = j
      BY <3>1
    <3>3. c \notin M
      BY <1>1, <3>2
    <3>4. PICK m \in M : <<m, c>> \in R /\ (m[1] = c[1] \/ m[2] = c[2])
      BY <3>2, <3>3 DEF IsGreedy
    <3>5. m[1] # k /\ m[2] = j
      BY <1>1, <3>2, <3>4
    <3>6. m \in C
      BY DEF IsGreedy
    <3>7. m \in K \X K
      BY <3>2, <3>4, <3>5, <3>6
    <3>8. m = <<m[1], j>> /\ m[1] \in K
      BY <3>5, <3>7
    <3> QED BY <3>5, <3>8
  <2>2. PICK f : f = [j \in K |-> CHOOSE i \in K \ {k} : <<i, j>> \in M]
    OBVIOUS
  <2>3. \A j \in K : f[j] \in K \ {k} /\ <<f[j], j>> \in M
    BY <2>1, <2>2
  <2>4. f \in [K -> K \ {k}]
    BY <2>2, <2>3
  <2>5. ASSUME NEW x \in K, NEW y \in K, f[x] = f[y] PROVE x = y
    <3>1. <<f[x], x>> \in M /\ <<f[x], y>> \in M
      BY <2>3, <2>5
    <3>2. <<f[x], x>>[1] = <<f[x], y>>[1]
      OBVIOUS
    <3>3. <<f[x], x>> = <<f[x], y>>
      BY <3>1, <3>2, GreedyIsMatching
    <3> QED BY <3>3
  <2>6. IsFiniteSet(K \ {k}) /\ Cardinality(K \ {k}) = Cardinality(K) - 1
    BY FS_RemoveElement
  <2>7. Cardinality(K) <= Cardinality(K \ {k})
    BY <2>4, <2>5, <2>6, NoMore
  <2>8. Cardinality(K) \in Nat
    BY FS_CardinalityType
  <2> QED BY <2>6, <2>7, <2>8
<1> QED BY <1>1

-----------------------------------------------------------------------------
\* Blocks with a box, and how two of them overlap.
LEMMA BoxedFacts ==
  ASSUME NEW d, IsDocument(d)
  PROVE  /\ IsFiniteSet(Metric!Boxed(d)) /\ Metric!Boxed(d) \subseteq Int
         /\ \A k \in Metric!Boxed(d) : k \in DOMAIN d.blocks /\ IsBox(d.blocks[k].bbox)
<1>1. IsList(d.blocks) /\ \A k \in DOMAIN d.blocks : IsBlock(d.blocks[k])
  BY DEF IsDocument
<1>2. Metric!Boxed(d) \subseteq DOMAIN d.blocks
  BY DEF Metric!Boxed
<1>3. IsFiniteSet(Metric!Boxed(d)) /\ Metric!Boxed(d) \subseteq Int
  BY <1>1, <1>2, ListFacts
<1>4. ASSUME NEW k \in Metric!Boxed(d) PROVE IsBox(d.blocks[k].bbox)
  BY <1>1 DEF Metric!Boxed, IsBlock, IsBox
<1> QED BY <1>2, <1>3, <1>4

\* The overlap of two boxes is a part of their union, which is not empty.
LEMMA OverlapIsPositive ==
  ASSUME NEW d, IsDocument(d), NEW e, IsDocument(e),
         NEW c \in Metric!Boxed(d) \X Metric!Boxed(e)
  PROVE  Metric!Overlap(d, e, c) \in Positive /\ Metric!Overlap(d, e, c).n <= Metric!Overlap(d, e, c).d
<1>1. IsBox(d.blocks[c[1]].bbox) /\ IsBox(e.blocks[c[2]].bbox)
  BY BoxedFacts
<1> QED BY <1>1, IoUFacts DEF Metric!Overlap, Positive

\* The pairs that may be matched, best first.
ByOverlap(d, e) ==
    {p \in Metric!Candidates(d, e) \X Metric!Candidates(d, e) : Metric!Better(d, e, p[1], p[2])}

\* Of two pairs with the same overlap, the later one goes first.
Later(x, y) == x[1] > y[1] \/ (x[1] = y[1] /\ x[2] > y[2])

\* The candidates are in order: the one sort() of _layout_metrics() gives them.
LEMMA ByOverlapIsOrder ==
  ASSUME NEW d, IsDocument(d), NEW e, IsDocument(e)
  PROVE  /\ Metric!Candidates(d, e) \subseteq Metric!Boxed(d) \X Metric!Boxed(e)
         /\ IsFiniteSet(Metric!Candidates(d, e))
         /\ IsOrder(ByOverlap(d, e), Metric!Candidates(d, e))
<1>1. PICK C : C = Metric!Candidates(d, e)
  OBVIOUS
<1>2. C \subseteq Metric!Boxed(d) \X Metric!Boxed(e)
  BY <1>1 DEF Metric!Candidates
<1>3. IsFiniteSet(C)
  <2>1. IsFiniteSet(Metric!Boxed(d)) /\ IsFiniteSet(Metric!Boxed(e))
    BY BoxedFacts
  <2>2. IsFiniteSet(Metric!Boxed(d) \X Metric!Boxed(e))
    BY <2>1, FS_Product
  <2> QED BY <1>2, <2>2, FS_Subset
<1>4. PICK ov : ov = [c \in C |-> Metric!Overlap(d, e, c)]
  OBVIOUS
<1>5. \A c \in C : ov[c] \in Positive
  BY <1>2, <1>4, OverlapIsPositive
<1>6. \A c \in C : c[1] \in Int /\ c[2] \in Int /\ c = <<c[1], c[2]>>
  BY <1>2, BoxedFacts
<1>7. PICK R : R = ByOverlap(d, e)
  OBVIOUS
<1>8. PICK L : L = {p \in C \X C : Later(p[1], p[2])}
  OBVIOUS
<1>9. \A x, y \in C : <<x, y>> \in L <=> Later(x, y)
  BY <1>8
<1>10. IsOrder(L, C)
  <2>1. \A x, y, z \in C : Later(x, y) /\ Later(y, z) => Later(x, z)
    BY <1>6 DEF Later
  <2>2. \A x \in C : ~Later(x, x)
    BY <1>6 DEF Later
  <2>3. ASSUME NEW x \in C, NEW y \in C, x # y PROVE Later(x, y) \/ Later(y, x)
    <3>1. x[1] # y[1] \/ x[2] # y[2]
      BY <1>6, <2>3
    <3> QED BY <1>6, <3>1 DEF Later
  <2> QED BY <1>9, <2>1, <2>2, <2>3 DEF IsOrder
<1>11. ASSUME NEW x \in C, NEW y \in C
      PROVE  <<x, y>> \in R
                <=> ~AtMost(ov[x], ov[y]) \/ (AtMost(ov[y], ov[x]) /\ <<x, y>> \in L)
  <2>1. <<x, y>> \in R <=> Metric!Better(d, e, x, y)
    BY <1>1, <1>7 DEF ByOverlap
  <2>2. Metric!Better(d, e, x, y) <=> Metric!Larger(ov[x], ov[y])
                                      \/ (~Metric!Larger(ov[y], ov[x]) /\ Later(x, y))
    <3>1. ov[x] = Metric!Overlap(d, e, x) /\ ov[y] = Metric!Overlap(d, e, y)
      BY <1>4
    <3> QED BY <3>1, Zenon DEF Metric!Better, Later
  <2>3. Metric!Larger(ov[x], ov[y]) <=> ~AtMost(ov[x], ov[y])
    BY <1>5, AtMostFacts
  <2>4. Metric!Larger(ov[y], ov[x]) <=> ~AtMost(ov[y], ov[x])
    BY <1>5, AtMostFacts
  <2> QED BY <1>9, <2>1, <2>2, <2>3, <2>4
<1>12. IsOrder(R, C)
  BY <1>5, <1>10, <1>11, RankedIsOrder
<1> QED BY <1>1, <1>2, <1>3, <1>7, <1>12

\* The loop that takes pairs in an order.
Meets(x, c) == x[1] = c[1] \/ x[2] = c[2]
Keeps(f, C, R, c) == ~\E x \in C : <<x, c>> \in R /\ f[x] /\ Meets(x, c)

\* The loop has a result.
LEMMA GreedyExists ==
  ASSUME NEW C, IsFiniteSet(C), NEW R, IsOrder(R, C)
  PROVE  \E f \in [C -> BOOLEAN] : \A c \in C : f[c] = Keeps(f, C, R, c)
<1>1. PICK G : G = [p \in [C -> BOOLEAN] \X C |-> Keeps(p[1], C, R, p[2])]
  OBVIOUS
<1>2. ASSUME NEW f \in [C -> BOOLEAN], NEW c \in C PROVE G[<<f, c>>] = Keeps(f, C, R, c)
  BY <1>1
<1>3. G \in [[C -> BOOLEAN] \X C -> BOOLEAN]
  <2>1. \A p \in [C -> BOOLEAN] \X C : Keeps(p[1], C, R, p[2]) \in BOOLEAN
    BY DEF Keeps
  <2> QED BY <1>1, <2>1
<1>4. ASSUME NEW f \in [C -> BOOLEAN], NEW g \in [C -> BOOLEAN], NEW c \in C,
             \A x \in C : <<x, c>> \in R => f[x] = g[x]
      PROVE  G[<<f, c>>] = G[<<g, c>>]
  <2>1. Keeps(f, C, R, c) <=> Keeps(g, C, R, c)
    BY <1>4, Zenon DEF Keeps
  <2>2. Keeps(f, C, R, c) = Keeps(g, C, R, c)
    BY <2>1 DEF Keeps
  <2> QED BY <1>2, <2>2
<1>5. PICK b \in BOOLEAN : b = TRUE
  OBVIOUS
<1>6. \E f \in [C -> BOOLEAN] : \A c \in C : f[c] = G[<<f, c>>]
  <2>1. LooksBack(G, C, BOOLEAN, R)
    BY <1>3, <1>4 DEF LooksBack
  <2>2. PICK V : V = BOOLEAN
    OBVIOUS
  <2>3. b \in V /\ LooksBack(G, C, V, R)
    BY <2>1, <2>2
  <2>4. \E f \in [C -> V] : \A c \in C : f[c] = G[<<f, c>>]
    BY <2>3, OrderedRecursion
  <2> QED BY <2>2, <2>4
<1> QED BY <1>2, <1>6

\* What the code matches is what the loop takes.
Taking(d, e, f) ==
    [c \in Metric!Candidates(d, e) |->
        ~Metric!Taken({x \in Metric!Candidates(d, e) : Metric!Better(d, e, x, c) /\ f[x]}, c)]
MatchedOf(d, e) == CHOOSE f : f = Taking(d, e, f)

\* The matches: the candidates the loop keeps.
LEMMA LayoutMatchesIs ==
  ASSUME NEW d, NEW e
  PROVE  Metric!LayoutMatches(d, e) = {c \in Metric!Candidates(d, e) : MatchedOf(d, e)[c]}
BY DEF Metric!LayoutMatches, MatchedOf, Taking

\* The matches are what a greedy loop takes.
LEMMA LayoutIsGreedy ==
  ASSUME NEW d, IsDocument(d), NEW e, IsDocument(e)
  PROVE  IsGreedy(Metric!LayoutMatches(d, e), Metric!Candidates(d, e), ByOverlap(d, e))
<1>1. PICK C : C = Metric!Candidates(d, e)
  OBVIOUS
<1>2. PICK R : R = ByOverlap(d, e)
  OBVIOUS
<1>3. IsFiniteSet(C) /\ IsOrder(R, C)
  BY <1>1, <1>2, ByOverlapIsOrder
<1>4. PICK f \in [C -> BOOLEAN] : \A c \in C : f[c] = Keeps(f, C, R, c)
  BY <1>3, GreedyExists
<1>5. ASSUME NEW g, NEW c \in C
      PROVE  Taking(d, e, g)[c] <=> Keeps(g, C, R, c)
  <2>1. Taking(d, e, g)[c]
           = ~Metric!Taken({x \in C : Metric!Better(d, e, x, c) /\ g[x]}, c)
    BY <1>1 DEF Taking
  <2>2. Metric!Taken({x \in C : Metric!Better(d, e, x, c) /\ g[x]}, c)
           <=> \E x \in C : Metric!Better(d, e, x, c) /\ g[x] /\ Meets(x, c)
    BY Zenon DEF Metric!Taken, Meets
  <2>3. \A x \in C : Metric!Better(d, e, x, c) <=> <<x, c>> \in R
    BY <1>1, <1>2 DEF ByOverlap
  <2> QED BY <2>1, <2>2, <2>3, Zenon DEF Keeps
<1>6. f = Taking(d, e, f)
  <2>1. Taking(d, e, f) \in [C -> BOOLEAN]
    BY <1>1 DEF Taking, Metric!Taken
  <2>2. ASSUME NEW c \in C PROVE f[c] = Taking(d, e, f)[c]
    <3>1. f[c] \in BOOLEAN /\ Taking(d, e, f)[c] \in BOOLEAN
      BY <2>1
    <3>2. f[c] <=> Taking(d, e, f)[c]
      BY <1>4, <1>5, Zenon
    <3> QED BY <3>1, <3>2
  <2> QED BY <2>1, <2>2
<1>7. PICK m : m = MatchedOf(d, e)
  OBVIOUS
<1>8. m = Taking(d, e, m)
  BY <1>6, <1>7 DEF MatchedOf
<1>9. ASSUME NEW c \in C PROVE m[c] <=> Keeps(m, C, R, c)
  BY <1>5, <1>8
<1>10. PICK M : M = Metric!LayoutMatches(d, e)
  OBVIOUS
<1>11. M = {c \in C : m[c]}
  BY <1>1, <1>7, <1>10, LayoutMatchesIs
<1>12. ASSUME NEW c \in C
       PROVE  c \in M <=> ~\E x \in M : <<x, c>> \in R /\ (x[1] = c[1] \/ x[2] = c[2])
  <2>1. c \in M <=> ~\E x \in C : <<x, c>> \in R /\ m[x] /\ Meets(x, c)
    BY <1>9, <1>11, Zenon DEF Keeps
  <2>2. \A x : x \in M <=> x \in C /\ m[x]
    BY <1>11
  <2> QED BY <2>1, <2>2, Zenon DEF Meets
<1>13. IsGreedy(M, C, R)
  <2>1. M \subseteq C
    BY <1>11
  <2> QED BY <1>12, <2>1 DEF IsGreedy
<1> QED BY <1>1, <1>2, <1>10, <1>13

\* The loop of _layout_metrics() matches blocks one to one, and leaves no pair of
\* blocks over that overlap enough and are both without a match.
THEOREM LayoutOneToOne ==
  ASSUME NEW d, IsDocument(d), NEW e, IsDocument(e)
  PROVE  /\ \A m, o \in Metric!LayoutMatches(d, e) : m[1] = o[1] <=> m[2] = o[2]
         /\ \A c \in Metric!Candidates(d, e) :
               \E m \in Metric!LayoutMatches(d, e) : m[1] = c[1] \/ m[2] = c[2]
<1>1. PICK M : M = Metric!LayoutMatches(d, e)
  OBVIOUS
<1>2. PICK C : C = Metric!Candidates(d, e)
  OBVIOUS
<1>3. PICK R : R = ByOverlap(d, e)
  OBVIOUS
<1>4. IsGreedy(M, C, R) /\ IsOrder(R, C)
  BY <1>1, <1>2, <1>3, LayoutIsGreedy, ByOverlapIsOrder
<1>5. \A m, o \in M : m[1] = o[1] \/ m[2] = o[2] => m = o
  BY <1>4, GreedyIsMatching
<1>6. \A c \in C : \E m \in M : m[1] = c[1] \/ m[2] = c[2]
  BY <1>4, GreedyIsMatching
<1> QED BY <1>1, <1>2, <1>5, <1>6

-----------------------------------------------------------------------------
\* Pairs of blocks with the same box overlap best.
SameBox(d, K) ==
    \A i, j \in K : /\ d.blocks[i].bbox = d.blocks[j].bbox /\ d.blocks[i].page = d.blocks[j].page
                    /\ d.blocks[i].type = d.blocks[j].type

\* Every box of a document finds a match in the document itself.
LEMMA ClassOfBox ==
  ASSUME NEW d, IsDocument(d),
         \A k \in DOMAIN d.blocks : d.blocks[k].bbox # <<>> => Metric!Area(d.blocks[k].bbox) > 0,
         NEW k \in Metric!Boxed(d)
  PROVE  \E m \in Metric!LayoutMatches(d, d) : m[1] = k
<1>1. PICK B : B = Metric!Boxed(d)
  OBVIOUS
<1>2. PICK bs : bs = d.blocks
  OBVIOUS
<1>3. \A j \in B : IsBox(bs[j].bbox) /\ Metric!Area(bs[j].bbox) >= 1
  <2>1. ASSUME NEW j \in B PROVE Metric!Area(bs[j].bbox) >= 1
    <3>1. IsBox(bs[j].bbox) /\ Metric!Area(bs[j].bbox) > 0
      BY <1>1, <1>2, BoxedFacts DEF Metric!Boxed
    <3>2. Metric!Area(bs[j].bbox) \in Int
      BY <3>1 DEF Metric!Area, IsBox
    <3> QED BY <3>1, <3>2
  <2> QED BY <1>1, <1>2, <2>1, BoxedFacts
<1>4. PICK K : K = {j \in B : /\ bs[j].bbox = bs[k].bbox /\ bs[j].page = bs[k].page
                              /\ bs[j].type = bs[k].type}
  OBVIOUS
<1>5. K \subseteq B /\ k \in K /\ IsFiniteSet(K)
  BY <1>1, <1>4, BoxedFacts, FS_Subset
<1>6. PICK C : C = Metric!Candidates(d, d)
  OBVIOUS
<1>7. PICK R : R = ByOverlap(d, d)
  OBVIOUS
<1>8. PICK M : M = Metric!LayoutMatches(d, d)
  OBVIOUS
<1>9. IsGreedy(M, C, R) /\ IsOrder(R, C) /\ C \subseteq B \X B
  BY <1>1, <1>6, <1>7, <1>8, LayoutIsGreedy, ByOverlapIsOrder
<1>10. ASSUME NEW c \in B \X B
       PROVE  /\ Metric!Overlap(d, d, c) \in Positive
              /\ Metric!Overlap(d, d, c).n <= Metric!Overlap(d, d, c).d
              /\ bs[c[1]].bbox = bs[c[2]].bbox
                 <=> Metric!Overlap(d, d, c).n = Metric!Overlap(d, d, c).d
  <2>1. c[1] \in B /\ c[2] \in B
    OBVIOUS
  <2>2. Metric!Overlap(d, d, c) = Metric!IoU(bs[c[1]].bbox, bs[c[2]].bbox)
    BY <1>2 DEF Metric!Overlap
  <2>3. Metric!Overlap(d, d, c).n = Metric!Overlap(d, d, c).d => bs[c[1]].bbox = bs[c[2]].bbox
    BY <1>3, <2>1, <2>2, IoUFacts
  <2>4. bs[c[1]].bbox = bs[c[2]].bbox => Metric!Overlap(d, d, c).n = Metric!Overlap(d, d, c).d
    BY <1>3, <2>1, <2>2, IoUFacts
  <2> QED BY <1>1, <2>3, <2>4, OverlapIsPositive
<1>11. K \X K \subseteq C
  <2>1. ASSUME NEW c \in K \X K PROVE c \in C
    <3>1. c[1] \in K /\ c[2] \in K /\ c \in B \X B
      BY <1>5
    <3>2. PICK r \in Positive : r = Metric!Overlap(d, d, c)
      BY <1>10, <3>1
    <3>3. r.n = r.d
      BY <1>4, <1>10, <3>1, <3>2
    <3>4. 2 * r.n >= r.d
      BY <3>3 DEF Positive, Ratios
    <3>5. bs[c[1]].page = bs[c[2]].page /\ bs[c[1]].type = bs[c[2]].type
      BY <1>4, <3>1
    <3> QED BY <1>1, <1>2, <1>6, <3>1, <3>2, <3>4, <3>5 DEF Metric!Candidates
  <2> QED BY <2>1
<1>12. ASSUME NEW c \in K \X K, NEW m \in C, <<m, c>> \in R, m[1] \in K \/ m[2] \in K
       PROVE  m \in K \X K
  <2>1. c \in B \X B /\ m \in B \X B
    BY <1>5, <1>9
  <2>2. PICK r \in Positive : r = Metric!Overlap(d, d, m)
    BY <1>10, <2>1
  <2>3. PICK s \in Positive : s = Metric!Overlap(d, d, c)
    BY <1>10, <2>1
  <2>4. s.n = s.d /\ r.n <= r.d
    BY <1>4, <1>10, <2>1, <2>2, <2>3
  <2>5. ~Metric!Larger(s, r)
    <3>1. Metric!Better(d, d, m, c)
      BY <1>7, <1>12 DEF ByOverlap
    <3>2. Metric!Larger(r, s) \/ ~Metric!Larger(s, r)
      BY <2>2, <2>3, <3>1, Zenon DEF Metric!Better
    <3>3. AtMost(r, s) \/ AtMost(s, r)
      BY AtMostFacts
    <3>4. Metric!Larger(r, s) <=> ~AtMost(r, s)
      BY AtMostFacts
    <3>5. Metric!Larger(s, r) <=> ~AtMost(s, r)
      BY AtMostFacts
    <3> QED BY <3>2, <3>3, <3>4, <3>5
  <2>6. r.n = r.d
    <3>1. PICK x \in Nat : x = r.n
      BY DEF Positive, Ratios
    <3>2. PICK y \in Nat : y = r.d
      BY DEF Positive, Ratios
    <3>3. PICK z \in Nat : z = s.n /\ z = s.d /\ z >= 1
      BY <2>4 DEF Positive, Ratios
    <3>4. z * y <= x * z
      BY <2>5, <3>1, <3>2, <3>3 DEF Metric!Larger, Positive, Ratios
    <3>5. ASSUME x < y PROVE FALSE
      <4>1. x + 1 \in Nat /\ x + 1 <= y
        BY <3>5
      <4>2. (x + 1) * z <= y * z
        BY <4>1, ProductGrows
      <4>3. (x + 1) * z = x * z + z /\ y * z = z * y
        OBVIOUS
      <4>4. PICK p \in Nat : p = x * z
        BY ProductIsNumber
      <4>5. PICK q \in Nat : q = z * y
        BY ProductIsNumber
      <4>6. p + z <= q /\ q <= p
        BY <3>4, <4>2, <4>3, <4>4, <4>5
      <4> QED BY <3>3, <4>6
    <3> QED BY <2>4, <3>1, <3>2, <3>5
  <2>7. bs[m[1]].bbox = bs[m[2]].bbox
    BY <1>10, <2>1, <2>2, <2>6
  <2>8. bs[m[1]].page = bs[m[2]].page /\ bs[m[1]].type = bs[m[2]].type
    BY <1>2, <1>6 DEF Metric!Candidates
  <2>9. m[1] \in K /\ m[2] \in K
    BY <1>4, <1>12, <2>1, <2>7, <2>8
  <2> QED BY <2>1, <2>9
<1>13. \E m \in M : m[1] = k
  BY <1>5, <1>9, <1>11, <1>12, GreedyTakesClass
<1> QED BY <1>8, <1>13

\* The scores of the layout.
LEMMA LayoutIsScores ==
  ASSUME NEW d, IsDocument(d), NEW e, IsDocument(e)
  PROVE  Metric!Layout(d, e) \in Triples
<1>1. PICK A : A = Metric!Boxed(d)
  OBVIOUS
<1>2. PICK B : B = Metric!Boxed(e)
  OBVIOUS
<1>3. PICK M : M = Metric!LayoutMatches(d, e)
  OBVIOUS
<1>4. IsFiniteSet(A) /\ IsFiniteSet(B)
  BY <1>1, <1>2, BoxedFacts
<1>5. IsFiniteSet(M) /\ Cardinality(M) <= Cardinality(A) /\ Cardinality(M) <= Cardinality(B)
  <2>1. PICK C : C = Metric!Candidates(d, e)
    OBVIOUS
  <2>2. PICK R : R = ByOverlap(d, e)
    OBVIOUS
  <2>3. IsGreedy(M, C, R) /\ IsOrder(R, C) /\ C \subseteq A \X B
    BY <1>1, <1>2, <1>3, <2>1, <2>2, LayoutIsGreedy, ByOverlapIsOrder
  <2> QED BY <1>4, <2>3, GreedyCount
<1>6. PICK n \in Nat : n = Cardinality(M)
  BY <1>5, FS_CardinalityType
<1>7. PICK fp \in Nat : fp = Cardinality(B) - n
  BY <1>4, <1>5, <1>6, FS_CardinalityType
<1>8. PICK fn \in Nat : fn = Cardinality(A) - n
  BY <1>4, <1>5, <1>6, FS_CardinalityType
<1>9. Metric!Layout(d, e) = Metric!F1(n, fp, fn)
  BY <1>1, <1>2, <1>3, <1>6, <1>7, <1>8, SameCounts DEF Metric!Layout
<1> QED BY <1>9, F1IsScores

\* The layout of a document is perfect against itself.
LEMMA LayoutOfSame ==
  ASSUME NEW d, IsDocument(d),
         \A k \in DOMAIN d.blocks : d.blocks[k].bbox # <<>> => Metric!Area(d.blocks[k].bbox) > 0,
         NEW r \in Metric!Triple(Metric!Layout(d, d))
  PROVE  Metric!Perfect(r)
<1>1. PICK A : A = Metric!Boxed(d)
  OBVIOUS
<1>2. PICK M : M = Metric!LayoutMatches(d, d)
  OBVIOUS
<1>3. IsFiniteSet(A)
  BY <1>1, BoxedFacts
<1>4. IsFiniteSet(M) /\ Cardinality(M) <= Cardinality(A)
  <2>1. PICK C : C = Metric!Candidates(d, d)
    OBVIOUS
  <2>2. PICK R : R = ByOverlap(d, d)
    OBVIOUS
  <2>3. IsGreedy(M, C, R) /\ IsOrder(R, C) /\ C \subseteq A \X A
    BY <1>1, <1>2, <2>1, <2>2, LayoutIsGreedy, ByOverlapIsOrder
  <2> QED BY <1>3, <2>3, GreedyCount
<1>5. Cardinality(A) <= Cardinality(M)
  <2>1. \A k \in A : \E m \in M : m[1] = k
    BY <1>1, <1>2, ClassOfBox
  <2>2. PICK f : f = [k \in A |-> CHOOSE m \in M : m[1] = k]
    OBVIOUS
  <2>3. \A k \in A : f[k] \in M /\ f[k][1] = k
    BY <2>1, <2>2
  <2>4. f \in [A -> M]
    BY <2>2, <2>3
  <2>5. \A x, y \in A : f[x] = f[y] => x = y
    BY <2>3
  <2> QED BY <1>4, <2>4, <2>5, NoMore
<1>6. PICK n \in Nat : n = Cardinality(M) /\ n = Cardinality(A)
  BY <1>3, <1>4, <1>5, FS_CardinalityType
<1>7. n - n = 0
  OBVIOUS
<1>8. Metric!Layout(d, d) = Metric!F1(n, 0, 0)
  BY <1>1, <1>2, <1>6, <1>7, SameCounts DEF Metric!Layout
<1>9. r \in Metric!Triple(Metric!F1(n, 0, 0))
  BY <1>8
<1> QED BY <1>9, F1OfAll

-----------------------------------------------------------------------------
(* _reading_order_metrics() *)

\* The place of a block: its page, a number and its position.
LEMMA PlaceIsTuple ==
  ASSUME NEW d, IsDocument(d), NEW k \in DOMAIN d.blocks
  PROVE  Metric!Place(d, k) \in [1..3 -> Int] /\ Metric!Place(d, k)[3] = k
<1>1. IsList(d.blocks) /\ IsBlock(d.blocks[k])
  BY DEF IsDocument
<1>2. k \in Nat /\ k \in 1..Len(d.blocks) /\ DOMAIN d.blocks = 1..Len(d.blocks)
  BY <1>1, ListFacts
<1>3. PICK S : S = {l \in 1..(k - 1) : d.blocks[l].page = d.blocks[k].page}
  OBVIOUS
<1>4. IsFiniteSet(S)
  <2>1. S \subseteq DOMAIN d.blocks
    BY <1>1, <1>2, <1>3, ListFacts
  <2> QED BY <1>1, <2>1, ListFacts
<1>5. PICK source \in Nat : source = Metric!Cardinality(S)
  BY <1>4, SameCounts, FS_CardinalityType
<1>6. PICK p : p = d.blocks[k].page /\ p \in Int
  BY <1>1 DEF IsBlock
<1>7. PICK o : o = (IF d.blocks[k].order = Metric!NoOrder THEN source ELSE d.blocks[k].order) /\ o \in Int
  BY <1>1 DEF IsBlock
<1>8. Metric!Place(d, k) = <<p, o, k>>
  BY <1>3, <1>5, <1>6, <1>7 DEF Metric!Place
<1>9. <<p, o, k>> \in [1..3 -> Int] /\ <<p, o, k>>[3] = k
  BY <1>2, <1>6, <1>7
<1> QED BY <1>8, <1>9

\* The order in which the blocks of a document are read.
ReadOrder(d) == {p \in (DOMAIN d.blocks) \X (DOMAIN d.blocks) : Metric!Earlier(d, p[1], p[2])}

\* The blocks of a document are in order: the one sort() of
\* _reading_order_metrics() gives them.
LEMMA ReadOrderIsOrder ==
  ASSUME NEW d, IsDocument(d)
  PROVE  /\ IsFiniteSet(DOMAIN d.blocks) /\ IsOrder(ReadOrder(d), DOMAIN d.blocks)
         /\ \A k, l \in DOMAIN d.blocks : <<k, l>> \in ReadOrder(d) <=> Metric!Earlier(d, k, l)
<1>1. PICK N : N = DOMAIN d.blocks
  OBVIOUS
<1>2. PICK place : place = [k \in N |-> Metric!Place(d, k)]
  OBVIOUS
<1>3. \A k \in N : place[k] \in [1..3 -> Int] /\ place[k][3] = k
  BY <1>1, <1>2, PlaceIsTuple
<1>4. PICK S : S = {place[k] : k \in N}
  OBVIOUS
<1>5. S \subseteq [1..3 -> Int] /\ \A k \in N : place[k] \in S
  BY <1>3, <1>4
<1>6. IsOrder(Lexical(S), S) /\ \A s, t \in S : <<s, t>> \in Lexical(S) <=> Metric!Before(s, t)
  <2>1. 3 \in Nat
    OBVIOUS
  <2> QED BY <1>5, <2>1, BeforeIsOrder
<1>7. ASSUME NEW k \in N, NEW l \in N
      PROVE  <<k, l>> \in ReadOrder(d) <=> <<place[k], place[l]>> \in Lexical(S)
  <2>1. <<k, l>> \in ReadOrder(d) <=> Metric!Earlier(d, k, l)
    BY <1>1 DEF ReadOrder
  <2>2. Metric!Earlier(d, k, l) <=> Metric!Before(place[k], place[l])
    <3>1. place[k] = Metric!Place(d, k) /\ place[l] = Metric!Place(d, l)
      BY <1>2
    <3> QED BY <3>1, Zenon DEF Metric!Earlier
  <2>3. place[k] \in S /\ place[l] \in S
    BY <1>5
  <2>4. <<place[k], place[l]>> \in Lexical(S) <=> Metric!Before(place[k], place[l])
    BY <1>6, <2>3
  <2> QED BY <2>1, <2>2, <2>4
<1>8. \A k, l \in N : k # l => place[k] # place[l]
  BY <1>3
<1>9. PICK R : R = ReadOrder(d)
  OBVIOUS
<1>10. \A x \in N : <<x, x>> \notin R
  BY <1>5, <1>6, <1>7, <1>9 DEF IsOrder
<1>11. ASSUME NEW x \in N, NEW y \in N, NEW z \in N, <<x, y>> \in R, <<y, z>> \in R
       PROVE  <<x, z>> \in R
  <2>1. place[x] \in S /\ place[y] \in S /\ place[z] \in S
    BY <1>5
  <2>2. <<place[x], place[y]>> \in Lexical(S) /\ <<place[y], place[z]>> \in Lexical(S)
    BY <1>7, <1>9, <1>11
  <2>3. <<place[x], place[z]>> \in Lexical(S)
    BY <1>6, <2>1, <2>2 DEF IsOrder
  <2> QED BY <1>7, <1>9, <2>3
<1>12. ASSUME NEW x \in N, NEW y \in N, x # y PROVE <<x, y>> \in R \/ <<y, x>> \in R
  <2>1. place[x] \in S /\ place[y] \in S /\ place[x] # place[y]
    BY <1>5, <1>8, <1>12
  <2>2. <<place[x], place[y]>> \in Lexical(S) \/ <<place[y], place[x]>> \in Lexical(S)
    BY <1>6, <2>1 DEF IsOrder
  <2> QED BY <1>7, <1>9, <2>2
<1>13. IsOrder(R, N)
  BY <1>10, <1>11, <1>12 DEF IsOrder
<1>14. IsFiniteSet(N)
  BY <1>1, ListFacts DEF IsDocument
<1>15. \A k, l \in N : <<k, l>> \in R <=> Metric!Earlier(d, k, l)
  BY <1>1, <1>9 DEF ReadOrder
<1> QED BY <1>1, <1>9, <1>13, <1>14, <1>15

\* How similar two texts are: one for the same text, nothing for a text and none.
LEMMA SimilarityFacts ==
  ASSUME NEW a \in Strings, NEW b \in Strings
  PROVE  /\ Metric!Similarity(a, b) \in Positive
         /\ Metric!Similarity(a, b).n <= Metric!Similarity(a, b).d
         /\ a = b => Metric!Similarity(a, b) = Metric!One
         /\ a = <<>> /\ b # <<>> => Metric!Similarity(a, b).n = 0
<1>1. CASE a = b
  BY <1>1 DEF Metric!Similarity, Metric!One, Positive, Ratios
<1>2. CASE a # b
  <2>1. PICK i \in Nat : i = Len(a)
    BY DEF Strings
  <2>2. PICK j \in Nat : j = Len(b)
    BY DEF Strings
  <2>3. i + j >= 1
    <3>1. ASSUME i = 0, j = 0 PROVE a = b
      <4>1. a = <<>>
        BY <2>1, <3>1, EmptySeq DEF Strings
      <4>2. b = <<>>
        BY <2>2, <3>1, EmptySeq DEF Strings
      <4> QED BY <4>1, <4>2
    <3> QED BY <1>2, <3>1
  <2>4. PICK m : m = CHOOSE o \in Metric!Longest(Metric!Alignments(a, b)) : TRUE
    OBVIOUS
  <2>5. m \in Metric!Alignments(a, b)
    BY <2>4, LongestExists
  <2>6. m \in PairingsOf(i, j) /\ Cardinality(m) \in Nat
    BY <2>1, <2>2, <2>5, AlignmentIsFinite
  <2>7. PICK n \in Nat : n = Metric!Cardinality(m)
    BY <2>6, SameCounts
  <2>8. n <= i /\ n <= j
    BY <2>6, <2>7, PairingIsNarrow, SameCounts
  <2>9. Metric!Similarity(a, b) = [n |-> 2 * n, d |-> i + j]
    <3>1. Metric!Similarity(a, b) = Metric!Ratio(2 * n, i + j)
      BY <1>2, <2>1, <2>2, <2>4, <2>7 DEF Metric!Similarity
    <3> QED BY <2>3, <3>1 DEF Metric!Ratio
  <2>10. PICK r : r = Metric!Similarity(a, b)
    OBVIOUS
  <2>11. r.n = 2 * n /\ r.d = i + j /\ r \in Positive /\ r.n <= r.d
    BY <2>3, <2>8, <2>9, <2>10 DEF Positive, Ratios
  <2>12. a = <<>> => i = 0
    BY <2>1
  <2> QED BY <1>2, <2>8, <2>10, <2>11, <2>12
<1> QED BY <1>1, <1>2

\* The score of two blocks lies between 0 and 1; it is one for the same texts,
\* and zero when only one of them has a text.
LEMMA ScoreFacts ==
  ASSUME NEW d, IsDocument(d), NEW e, IsDocument(e),
         NEW k \in DOMAIN e.blocks, NEW l \in DOMAIN d.blocks
  PROVE  /\ Metric!Score(d, e, k, l) \in Positive
         /\ Metric!Score(d, e, k, l).n <= Metric!Score(d, e, k, l).d
         /\ d.blocks[l].text = e.blocks[k].text => Metric!Score(d, e, k, l) = Metric!One
         /\ d.blocks[l].text = <<>> /\ e.blocks[k].text # <<>> => Metric!Score(d, e, k, l).n = 0
<1>1. d.blocks[l].text \in Strings /\ e.blocks[k].text \in Strings
  BY TextIsString DEF IsDocument, IsBlock
<1>2. PICK a \in Strings : a = d.blocks[l].text
  BY <1>1
<1>3. PICK b \in Strings : b = e.blocks[k].text
  BY <1>1
<1>4. Metric!Score(d, e, k, l) = Metric!Similarity(a, b)
  BY <1>2, <1>3 DEF Metric!Score
<1> QED BY <1>2, <1>3, <1>4, SimilarityFacts

\* Of some blocks there is a best one.
AsGood(d, e, k, b, o) ==
    \/ Metric!Larger(Metric!Score(d, e, k, b), Metric!Score(d, e, k, o))
    \/ /\ ~Metric!Larger(Metric!Score(d, e, k, o), Metric!Score(d, e, k, b))
       /\ b = o \/ Metric!Earlier(d, b, o)

\* The best of the open blocks is one of them, and none of them is better.
LEMMA BestBlockFacts ==
  ASSUME NEW d, IsDocument(d), NEW e, IsDocument(e), NEW k \in DOMAIN e.blocks,
         NEW open, open # {}, open \subseteq DOMAIN d.blocks
  PROVE  /\ Metric!BestBlock(d, e, k, open) \in open
         /\ \A o \in open : AsGood(d, e, k, Metric!BestBlock(d, e, k, open), o)
<1>1. PICK L : L = ReadOrder(d)
  OBVIOUS
<1>2. IsOrder(L, open) /\ IsFiniteSet(open) /\ \A x, y \in open : <<x, y>> \in L <=> Metric!Earlier(d, x, y)
  <2>1. IsFiniteSet(DOMAIN d.blocks) /\ IsOrder(L, DOMAIN d.blocks)
    BY <1>1, ReadOrderIsOrder
  <2>2. \A x, y \in DOMAIN d.blocks : <<x, y>> \in L <=> Metric!Earlier(d, x, y)
    BY <1>1, ReadOrderIsOrder
  <2> QED BY <2>1, <2>2, FS_Subset, OrderOfPart
<1>3. PICK ov : ov = [l \in open |-> Metric!Score(d, e, k, l)]
  OBVIOUS
<1>4. \A l \in open : ov[l] \in Positive
  BY <1>3, ScoreFacts
<1>5. PICK R : R = {p \in open \X open : ~AtMost(ov[p[1]], ov[p[2]])
                                         \/ (AtMost(ov[p[2]], ov[p[1]]) /\ p \in L)}
  OBVIOUS
<1>6. \A x, y \in open : <<x, y>> \in R
         <=> ~AtMost(ov[x], ov[y]) \/ (AtMost(ov[y], ov[x]) /\ <<x, y>> \in L)
  BY <1>5
<1>7. IsOrder(R, open)
  BY <1>2, <1>4, <1>6, RankedIsOrder
<1>8. PICK b \in open : \A o \in open : b = o \/ <<b, o>> \in R
  BY <1>2, <1>7, FirstInOrder
<1>9. ASSUME NEW o \in open PROVE AsGood(d, e, k, b, o)
  <2>1. ov[b] = Metric!Score(d, e, k, b) /\ ov[o] = Metric!Score(d, e, k, o)
    BY <1>3
  <2>2. Metric!Larger(ov[b], ov[o]) <=> ~AtMost(ov[b], ov[o])
    BY <1>4, AtMostFacts
  <2>3. Metric!Larger(ov[o], ov[b]) <=> ~AtMost(ov[o], ov[b])
    BY <1>4, AtMostFacts
  <2>4. AtMost(ov[b], ov[b])
    BY <1>4, AtMostFacts
  <2>5. Metric!Larger(ov[b], ov[o]) \/ (~Metric!Larger(ov[o], ov[b]) /\ (b = o \/ Metric!Earlier(d, b, o)))
    <3>1. CASE b = o
      BY <2>3, <2>4, <3>1
    <3>2. CASE <<b, o>> \in R
      BY <1>2, <1>6, <2>2, <2>3, <3>2
    <3> QED BY <1>8, <3>1, <3>2
  <2> QED BY <2>1, <2>5, Zenon DEF AsGood
<1>10. Metric!BestBlock(d, e, k, open) = CHOOSE l \in open : \A o \in open : AsGood(d, e, k, l, o)
  BY Zenon DEF Metric!BestBlock, AsGood
<1> QED BY <1>8, <1>9, <1>10

\* The blocks of d that are open to a block of e, and the one it takes.
Free(d, e, f, k, l) == \A j \in DOMAIN e.blocks : Metric!Earlier(e, j, k) => f[j] # l
Open(d, e, f, k) ==
    {l \in DOMAIN d.blocks : /\ Free(d, e, f, k, l)
                             /\ d.blocks[l].page = e.blocks[k].page
                             /\ d.blocks[l].type = e.blocks[k].type
                             /\ Metric!Score(d, e, k, l).n > 0}
Good(d, e, k, b) == 10 * Metric!Score(d, e, k, b).n >= 6 * Metric!Score(d, e, k, b).d
Choice(d, e, k, open) ==
    IF e.blocks[k].text # <<>> /\ open # {} /\ Good(d, e, k, Metric!BestBlock(d, e, k, open))
    THEN Metric!BestBlock(d, e, k, open) ELSE 0
Choosing(d, e, f) == [k \in DOMAIN e.blocks |-> Choice(d, e, k, Open(d, e, f, k))]
MatchOf(d, e) == CHOOSE f : f = Choosing(d, e, f)

\* The matches: the function that the loop computes.
LEMMA BlockMatchesIs ==
  ASSUME NEW d, NEW e
  PROVE  Metric!BlockMatches(d, e) = MatchOf(d, e)
BY DEF Metric!BlockMatches, MatchOf, Choosing, Choice, Good, Open, Free

\* That function exists: the loop over the blocks in reading order has a result.
LEMMA MatchFacts ==
  ASSUME NEW d, IsDocument(d), NEW e, IsDocument(e)
  PROVE  /\ MatchOf(d, e) = Choosing(d, e, MatchOf(d, e))
         /\ MatchOf(d, e) \in [DOMAIN e.blocks -> 0..Len(d.blocks)]
<1>1. PICK N : N = DOMAIN e.blocks
  OBVIOUS
<1>2. PICK n \in Nat : n = Len(d.blocks) /\ DOMAIN d.blocks = 1..n
  BY ListFacts DEF IsDocument
<1>3. PICK V : V = 0..n
  OBVIOUS
<1>4. PICK R : R = ReadOrder(e)
  OBVIOUS
<1>5. /\ IsFiniteSet(N) /\ IsOrder(R, N)
      /\ \A k, l \in N : <<k, l>> \in R <=> Metric!Earlier(e, k, l)
  BY <1>1, <1>4, ReadOrderIsOrder
<1>6. ASSUME NEW f, NEW k \in N PROVE Choice(d, e, k, Open(d, e, f, k)) \in V
  <2>1. Open(d, e, f, k) \subseteq DOMAIN d.blocks
    BY DEF Open
  <2>2. CASE Open(d, e, f, k) # {}
    <3>1. Metric!BestBlock(d, e, k, Open(d, e, f, k)) \in DOMAIN d.blocks
      BY <1>1, <2>1, <2>2, BestBlockFacts
    <3> QED BY <1>2, <1>3, <3>1 DEF Choice
  <2>3. CASE Open(d, e, f, k) = {}
    BY <1>3, <2>3 DEF Choice
  <2> QED BY <2>2, <2>3
<1>7. PICK G : G = [p \in [N -> V] \X N |-> Choice(d, e, p[2], Open(d, e, p[1], p[2]))]
  OBVIOUS
<1>8. ASSUME NEW f \in [N -> V], NEW k \in N PROVE G[<<f, k>>] = Choice(d, e, k, Open(d, e, f, k))
  BY <1>7
<1>9. G \in [[N -> V] \X N -> V]
  BY <1>6, <1>7
<1>10. ASSUME NEW f \in [N -> V], NEW g \in [N -> V], NEW k \in N,
              \A j \in N : <<j, k>> \in R => f[j] = g[j]
       PROVE  G[<<f, k>>] = G[<<g, k>>]
  <2>1. ASSUME NEW l \in DOMAIN d.blocks PROVE Free(d, e, f, k, l) <=> Free(d, e, g, k, l)
    BY <1>1, <1>5, <1>10 DEF Free
  <2>2. Open(d, e, f, k) = Open(d, e, g, k)
    BY <2>1 DEF Open
  <2> QED BY <1>8, <2>2
<1>11. LooksBack(G, N, V, R)
  BY <1>9, <1>10 DEF LooksBack
<1>12. 0 \in V
  BY <1>3
<1>13. PICK f \in [N -> V] : \A k \in N : f[k] = G[<<f, k>>]
  BY <1>5, <1>11, <1>12, OrderedRecursion
<1>14. f = Choosing(d, e, f)
  <2>1. f = [k \in N |-> Choice(d, e, k, Open(d, e, f, k))]
    BY <1>8, <1>13
  <2> QED BY <1>1, <2>1 DEF Choosing
<1>15. PICK m : m = MatchOf(d, e)
  OBVIOUS
<1>16. m = Choosing(d, e, m)
  BY <1>14, <1>15 DEF MatchOf
<1>17. m \in [N -> V]
  <2>1. Choosing(d, e, m) \in [N -> V]
    BY <1>1, <1>6 DEF Choosing
  <2> QED BY <1>16, <2>1
<1> QED BY <1>1, <1>2, <1>3, <1>15, <1>16, <1>17

\* A matched block has a text, and takes the best of the blocks open to it.
LEMMA MatchIsBest ==
  ASSUME NEW d, IsDocument(d), NEW e, IsDocument(e), NEW m, m = MatchOf(d, e),
         NEW k \in DOMAIN e.blocks, m[k] # 0
  PROVE  /\ e.blocks[k].text # <<>> /\ m[k] \in Open(d, e, m, k)
         /\ \A o \in Open(d, e, m, k) : AsGood(d, e, k, m[k], o)
<1>1. m[k] = Choice(d, e, k, Open(d, e, m, k))
  BY MatchFacts DEF Choosing
<1>2. PICK open : open = Open(d, e, m, k)
  OBVIOUS
<1>3. e.blocks[k].text # <<>> /\ open # {} /\ m[k] = Metric!BestBlock(d, e, k, open)
  BY <1>1, <1>2 DEF Choice
<1>4. open \subseteq DOMAIN d.blocks
  BY <1>2 DEF Open
<1> QED BY <1>2, <1>3, <1>4, BestBlockFacts

\* No block is taken twice.
LEMMA MatchIsInjective ==
  ASSUME NEW d, IsDocument(d), NEW e, IsDocument(e), NEW m, m = MatchOf(d, e),
         NEW j \in DOMAIN e.blocks, NEW k \in DOMAIN e.blocks, m[j] # 0, m[j] = m[k]
  PROVE  j = k
<1>1. ASSUME NEW x \in DOMAIN e.blocks, NEW y \in DOMAIN e.blocks, m[x] # 0, m[x] = m[y],
             Metric!Earlier(e, x, y)
      PROVE  FALSE
  <2>1. m[y] \in Open(d, e, m, y)
    BY <1>1, MatchIsBest
  <2> QED BY <1>1, <2>1 DEF Open, Free
<1>2. ASSUME j # k PROVE FALSE
  <2>1. Metric!Earlier(e, j, k) \/ Metric!Earlier(e, k, j)
    BY <1>2, ReadOrderIsOrder DEF IsOrder
  <2> QED BY <1>1, <2>1
<1> QED BY <1>2

\* _reading_order_metrics() never gives a block of the ground truth to two predicted
\* blocks, whatever the texts and the order of the blocks.
THEOREM BlocksAreMatchedOnce ==
  ASSUME NEW d, IsDocument(d), NEW e, IsDocument(e),
         NEW j \in DOMAIN e.blocks, NEW k \in DOMAIN e.blocks,
         Metric!BlockMatches(d, e)[j] # 0, Metric!BlockMatches(d, e)[j] = Metric!BlockMatches(d, e)[k]
  PROVE  j = k
BY BlockMatchesIs, MatchIsInjective

-----------------------------------------------------------------------------
\* A set of pairs that holds no pair both ways round, nor a pair of one member, has
\* half of the pairs at most.
LEMMA HalfOfPairs ==
  ASSUME NEW S, IsFiniteSet(S), NEW I, I \subseteq S \X S,
         \A x, y \in S : <<x, y>> \in I => <<y, x>> \notin I
  PROVE  /\ IsFiniteSet(I)
         /\ Cardinality(I) + Cardinality(I) + Cardinality(S) <= Cardinality(S) * Cardinality(S)
<1>1. IsFiniteSet(S \X S) /\ Cardinality(S \X S) = Cardinality(S) * Cardinality(S)
  BY FS_Product
<1>2. IsFiniteSet(I)
  BY <1>1, FS_Subset
<1>3. PICK J : J = {<<p[2], p[1]>> : p \in I}
  OBVIOUS
<1>4. J \subseteq S \X S /\ IsFiniteSet(J)
  <2>1. J \subseteq S \X S
    BY <1>3
  <2> QED BY <1>1, <2>1, FS_Subset
<1>5. Cardinality(I) <= Cardinality(J)
  <2>1. PICK f : f = [p \in I |-> <<p[2], p[1]>>]
    OBVIOUS
  <2>2. f \in [I -> J]
    BY <1>3, <2>1
  <2>3. ASSUME NEW p \in I, NEW q \in I, f[p] = f[q] PROVE p = q
    <3>1. p = <<p[1], p[2]>> /\ q = <<q[1], q[2]>>
      OBVIOUS
    <3>2. <<p[2], p[1]>> = <<q[2], q[1]>>
      BY <2>1, <2>3
    <3> QED BY <3>1, <3>2
  <2> QED BY <1>4, <2>2, <2>3, NoMore
<1>6. PICK D : D = {<<x, x>> : x \in S}
  OBVIOUS
<1>7. D \subseteq S \X S /\ IsFiniteSet(D)
  <2>1. D \subseteq S \X S
    BY <1>6
  <2> QED BY <1>1, <2>1, FS_Subset
<1>8. Cardinality(S) <= Cardinality(D)
  <2>1. PICK f : f = [x \in S |-> <<x, x>>]
    OBVIOUS
  <2>2. f \in [S -> D]
    BY <1>6, <2>1
  <2>3. \A x, y \in S : f[x] = f[y] => x = y
    BY <2>1
  <2> QED BY <1>7, <2>2, <2>3, NoMore
<1>9. I \cap J = {}
  <2>1. ASSUME NEW p \in I, p \in J PROVE FALSE
    <3>1. PICK q \in I : p = <<q[2], q[1]>>
      BY <1>3, <2>1
    <3>2. q = <<q[1], q[2]>> /\ q[1] \in S /\ q[2] \in S
      OBVIOUS
    <3>3. <<q[1], q[2]>> \in I /\ <<q[2], q[1]>> \in I
      BY <3>1, <3>2
    <3> QED BY <3>2, <3>3
  <2> QED BY <2>1
<1>10. (I \cup J) \cap D = {}
  <2>1. ASSUME NEW x \in S PROVE <<x, x>> \notin I
    OBVIOUS
  <2>2. ASSUME NEW x \in S PROVE <<x, x>> \notin J
    <3>1. ASSUME <<x, x>> \in J PROVE FALSE
      <4>1. PICK q \in I : <<x, x>> = <<q[2], q[1]>>
        BY <1>3, <3>1
      <4>2. q = <<q[1], q[2]>> /\ q[1] = x /\ q[2] = x
        <5>1. q = <<q[1], q[2]>>
          OBVIOUS
        <5> QED BY <4>1, <5>1
      <4> QED BY <2>1, <4>2
    <3> QED BY <3>1
  <2> QED BY <1>6, <2>1, <2>2
<1>11. IsFiniteSet(I \cup J) /\ Cardinality(I \cup J) = Cardinality(I) + Cardinality(J)
  <2>1. Cardinality(I \cap J) = 0
    BY <1>9, FS_EmptySet
  <2>2. Cardinality(I) \in Nat /\ Cardinality(J) \in Nat
    BY <1>2, <1>4, FS_CardinalityType
  <2>3. /\ IsFiniteSet(I \cup J)
        /\ Cardinality(I \cup J) = Cardinality(I) + Cardinality(J) - Cardinality(I \cap J)
    BY <1>2, <1>4, FS_Union
  <2> QED BY <2>1, <2>2, <2>3
<1>12. /\ IsFiniteSet((I \cup J) \cup D)
       /\ Cardinality((I \cup J) \cup D) = Cardinality(I) + Cardinality(J) + Cardinality(D)
  <2>1. Cardinality((I \cup J) \cap D) = 0
    BY <1>10, FS_EmptySet
  <2>2. Cardinality(I) \in Nat /\ Cardinality(J) \in Nat /\ Cardinality(D) \in Nat
    BY <1>2, <1>4, <1>7, FS_CardinalityType
  <2>3. /\ IsFiniteSet((I \cup J) \cup D)
        /\ Cardinality((I \cup J) \cup D)
              = Cardinality(I \cup J) + Cardinality(D) - Cardinality((I \cup J) \cap D)
    BY <1>7, <1>11, FS_Union
  <2> QED BY <1>11, <2>1, <2>2, <2>3
<1>13. Cardinality((I \cup J) \cup D) <= Cardinality(S \X S)
  <2>1. (I \cup J) \cup D \subseteq S \X S
    BY <1>4, <1>7
  <2> QED BY <1>1, <2>1, FS_Subset
<1>14. PICK i \in Nat : i = Cardinality(I)
  BY <1>2, FS_CardinalityType
<1>15. PICK j \in Nat : j = Cardinality(J)
  BY <1>4, FS_CardinalityType
<1>16. PICK g \in Nat : g = Cardinality(D)
  BY <1>7, FS_CardinalityType
<1>17. PICK n \in Nat : n = Cardinality(S)
  BY FS_CardinalityType
<1>18. PICK w \in Nat : w = n * n
  BY ProductIsNumber
<1>19. i <= j /\ n <= g /\ i + j + g <= w
  BY <1>1, <1>5, <1>8, <1>12, <1>13, <1>14, <1>15, <1>16, <1>17, <1>18
<1>20. i + i + n <= w
  BY <1>19
<1> QED BY <1>2, <1>14, <1>17, <1>18, <1>20

\* The scores of the reading order.
LEMMA ReadingOrderIsScores ==
  ASSUME NEW d, IsDocument(d), NEW e, IsDocument(e)
  PROVE  /\ Metric!ReadingOrder(d, e).accuracy \in Scores
         /\ Metric!ReadingOrder(d, e).coverage \in Scores
<1>1. PICK m : m = MatchOf(d, e) /\ m = Metric!BlockMatches(d, e)
  BY BlockMatchesIs
<1>2. PICK N : N = DOMAIN e.blocks
  OBVIOUS
<1>3. PICK T : T = DOMAIN d.blocks
  OBVIOUS
<1>4. /\ IsFiniteSet(N) /\ IsFiniteSet(T) /\ T = 1..Len(d.blocks) /\ Len(d.blocks) \in Nat
      /\ Cardinality(T) = Len(d.blocks)
  BY <1>2, <1>3, ListFacts DEF IsDocument
<1>5. m \in [N -> 0..Len(d.blocks)]
  BY <1>1, <1>2, MatchFacts
<1>6. PICK S : S = {k \in N : m[k] # 0}
  OBVIOUS
<1>7. S \subseteq N /\ IsFiniteSet(S)
  BY <1>4, <1>6, FS_Subset
<1>8. \A x, y \in S : m[x] = m[y] => x = y
  <2>1. ASSUME NEW x \in S, NEW y \in S, m[x] = m[y] PROVE x = y
    <3>1. x \in DOMAIN e.blocks /\ y \in DOMAIN e.blocks /\ m[x] # 0
      BY <1>2, <1>6
    <3>2. m = MatchOf(d, e) /\ m[x] = m[y]
      BY <1>1, <2>1
    <3> QED BY ONLY IsDocument(d), IsDocument(e), <3>1, <3>2, MatchIsInjective
  <2> QED BY <2>1
<1>9. PICK n \in Nat : n = Cardinality(S)
  BY <1>7, FS_CardinalityType
<1>10. n <= Len(d.blocks)
  <2>1. PICK f : f = [k \in S |-> m[k]]
    OBVIOUS
  <2>2. f \in [S -> T]
    BY <1>4, <1>5, <1>6, <2>1
  <2>3. \A x, y \in S : f[x] = f[y] => x = y
    BY <1>8, <2>1
  <2> QED BY <1>4, <1>9, <2>2, <2>3, NoMore
<1>11. PICK I : I = {p \in S \X S : /\ Metric!Earlier(e, p[1], p[2])
                                    /\ Metric!Earlier(d, m[p[2]], m[p[1]])}
  OBVIOUS
<1>12. ASSUME NEW x \in S, NEW y \in S, <<x, y>> \in I PROVE <<y, x>> \notin I
  <2>1. Metric!Earlier(e, x, y)
    BY <1>11, <1>12
  <2>2. x \in N /\ y \in N
    BY <1>7
  <2>3. ~Metric!Earlier(e, y, x)
    BY <1>2, <2>1, <2>2, ReadOrderIsOrder DEF IsOrder
  <2> QED BY <1>11, <2>3
<1>13. IsFiniteSet(I) /\ Cardinality(I) + Cardinality(I) + n <= n * n
  <2>1. I \subseteq S \X S
    BY <1>11
  <2> QED BY <1>7, <1>9, <1>12, <2>1, HalfOfPairs
<1>14. PICK i \in Nat : i = Cardinality(I)
  BY <1>13, FS_CardinalityType
<1>15. PICK w \in Nat : w = n * n
  BY ProductIsNumber
<1>16. PICK pairs : pairs = (n * (n - 1)) \div 2
  OBVIOUS
<1>17. pairs \in Nat /\ i <= pairs
  <2>1. n * (n - 1) = w - n
    BY <1>15
  <2>2. PICK x : x = w - n
    OBVIOUS
  <2>3. x \in Nat /\ i + i <= x
    BY <1>13, <1>14, <1>15, <2>2
  <2>4. pairs = x \div 2
    BY <1>16, <2>1, <2>2
  <2>5. x \div 2 \in Nat /\ i <= x \div 2
    BY <2>3
  <2> QED BY <2>4, <2>5
<1>18. PICK o : o = Metric!ReadingOrder(d, e)
  OBVIOUS
<1>19. o = [accuracy |-> Metric!Ratio(pairs - i, pairs), coverage |-> Metric!Ratio(n, Len(d.blocks))]
  BY <1>1, <1>2, <1>6, <1>9, <1>11, <1>14, <1>16, <1>18, SameCounts DEF Metric!ReadingOrder
<1>20. o.accuracy = Metric!Ratio(pairs - i, pairs) /\ o.coverage = Metric!Ratio(n, Len(d.blocks))
  BY <1>19
<1>21. pairs - i \in Nat /\ pairs - i <= pairs
  BY <1>17
<1> QED BY <1>4, <1>10, <1>17, <1>18, <1>20, <1>21, RatioIsScore

\* A document's blocks with a text are matched with themselves.
LEMMA MatchOfSame ==
  ASSUME NEW d, IsDocument(d), NEW m, m = MatchOf(d, d)
  PROVE  \A k \in DOMAIN d.blocks : d.blocks[k].text # <<>> => m[k] = k
<1>1. PICK N : N = DOMAIN d.blocks
  OBVIOUS
<1>2. PICK R : R = ReadOrder(d)
  OBVIOUS
<1>3. /\ IsFiniteSet(N) /\ IsOrder(R, N)
      /\ \A x, y \in N : <<x, y>> \in R <=> Metric!Earlier(d, x, y)
  BY <1>1, <1>2, ReadOrderIsOrder
<1>4. PICK W : W = {x \in N : d.blocks[x].text # <<>> /\ m[x] # x}
  OBVIOUS
<1>5. ASSUME W # {} PROVE FALSE
  <2>1. W \subseteq N /\ IsFiniteSet(W) /\ IsOrder(R, W)
    <3>1. W \subseteq N
      BY <1>4
    <3> QED BY <1>3, <3>1, FS_Subset, OrderOfPart
  <2>2. PICK x \in W : \A y \in W : x = y \/ <<x, y>> \in R
    BY <1>5, <2>1, FirstInOrder
  <2>3. x \in N /\ d.blocks[x].text # <<>> /\ m[x] # x
    BY <1>4
  <2>4. ASSUME NEW j \in N, Metric!Earlier(d, j, x)
        PROVE  j # x /\ (d.blocks[j].text = <<>> \/ m[j] = j)
    <3>1. <<j, x>> \in R /\ j # x
      BY <1>3, <2>3, <2>4 DEF IsOrder
    <3>2. j \notin W
      BY <1>3, <2>2, <2>3, <3>1 DEF IsOrder
    <3> QED BY <1>4, <3>1, <3>2
  <2>5. PICK open : open = Open(d, d, m, x)
    OBVIOUS
  <2>6. Metric!Score(d, d, x, x) = Metric!One
    BY <1>1, <2>3, ScoreFacts
  <2>7. x \in open
    <3>1. ASSUME NEW j \in N, Metric!Earlier(d, j, x) PROVE m[j] # x
      <4>1. j # x /\ (d.blocks[j].text = <<>> \/ m[j] = j)
        BY <2>4, <3>1
      <4>2. x # 0
        BY <1>1, <2>3, ListFacts DEF IsDocument
      <4>3. ASSUME m[j] = x PROVE FALSE
        <5>1. m[j] # 0
          BY <4>2, <4>3
        <5>2. d.blocks[j].text # <<>>
          BY <1>1, <5>1, MatchIsBest
        <5> QED BY <4>1, <4>3, <5>2
      <4> QED BY <4>3
    <3>2. Free(d, d, m, x, x)
      BY <1>1, <3>1 DEF Free
    <3>3. Metric!Score(d, d, x, x).n > 0
      BY <2>6 DEF Metric!One
    <3> QED BY <1>1, <2>3, <2>5, <3>2, <3>3 DEF Open
  <2>8. PICK b : b = Metric!BestBlock(d, d, x, open)
    OBVIOUS
  <2>9. b \in open /\ AsGood(d, d, x, b, x)
    <3>1. open \subseteq DOMAIN d.blocks
      BY <2>5 DEF Open
    <3> QED BY <1>1, <2>3, <2>7, <2>8, <3>1, BestBlockFacts
  <2>10. b \in N /\ Free(d, d, m, x, b) /\ Metric!Score(d, d, x, b).n > 0
    BY <1>1, <2>5, <2>9 DEF Open
  <2>11. b = x \/ Metric!Earlier(d, b, x)
    <3>1. ~Metric!Larger(Metric!Score(d, d, x, b), Metric!Score(d, d, x, x))
      <4>1. PICK r \in Positive : r = Metric!Score(d, d, x, b) /\ r.n <= r.d
        BY <1>1, <2>3, <2>10, ScoreFacts
      <4>2. ~Metric!Larger(r, Metric!One)
        BY <4>1 DEF Metric!Larger, Metric!One, Positive, Ratios
      <4> QED BY <2>6, <4>1, <4>2
    <3> QED BY <2>9, <3>1 DEF AsGood
  <2>12. b = x
    <3>1. ASSUME Metric!Earlier(d, b, x) PROVE FALSE
      <4>1. d.blocks[b].text # <<>>
        <5>1. ASSUME d.blocks[b].text = <<>> PROVE FALSE
          <6>1. Metric!Score(d, d, x, b).n = 0
            BY <1>1, <2>3, <2>10, <5>1, ScoreFacts
          <6> QED BY <2>10, <6>1
        <5> QED BY <5>1
      <4>2. m[b] = b
        BY <2>4, <2>10, <3>1, <4>1
      <4> QED BY <1>1, <2>10, <3>1, <4>2 DEF Free
    <3> QED BY <2>11, <3>1
  <2>13. m[x] = x
    <3>1. m[x] = Choice(d, d, x, open)
      BY <1>1, <2>3, <2>5, MatchFacts DEF Choosing
    <3>2. Good(d, d, x, x)
      BY <2>6 DEF Good, Metric!One
    <3> QED BY <2>3, <2>7, <2>8, <2>12, <3>1, <3>2 DEF Choice
  <2> QED BY <2>3, <2>13
<1> QED BY <1>1, <1>4, <1>5

\* A document is in its own order.
LEMMA ReadingOrderOfSame ==
  ASSUME NEW d, IsDocument(d)
  PROVE  Metric!Perfect(Metric!ReadingOrder(d, d).accuracy)
<1>1. PICK m : m = MatchOf(d, d) /\ m = Metric!BlockMatches(d, d)
  BY BlockMatchesIs
<1>2. PICK N : N = DOMAIN d.blocks
  OBVIOUS
<1>3. PICK S : S = {k \in N : m[k] # 0}
  OBVIOUS
<1>4. ASSUME NEW k \in S PROVE k \in N /\ m[k] = k
  <2>1. k \in DOMAIN d.blocks /\ m[k] # 0
    BY <1>2, <1>3
  <2>2. d.blocks[k].text # <<>>
    BY <1>1, <2>1, MatchIsBest
  <2> QED BY <1>1, <1>2, <2>1, <2>2, MatchOfSame
<1>5. PICK I : I = {p \in S \X S : /\ Metric!Earlier(d, p[1], p[2])
                                   /\ Metric!Earlier(d, m[p[2]], m[p[1]])}
  OBVIOUS
<1>6. I = {}
  <2>1. ASSUME NEW p \in I PROVE FALSE
    <3>1. p[1] \in S /\ p[2] \in S /\ Metric!Earlier(d, p[1], p[2])
      BY <1>5
    <3>2. m[p[1]] = p[1] /\ m[p[2]] = p[2] /\ p[1] \in N /\ p[2] \in N
      BY <1>4, <3>1
    <3>3. Metric!Earlier(d, m[p[2]], m[p[1]])
      BY <1>5
    <3>4. Metric!Earlier(d, p[2], p[1])
      BY <3>2, <3>3
    <3>5. <<p[1], p[2]>> \in ReadOrder(d) /\ <<p[2], p[1]>> \in ReadOrder(d)
      BY <1>2, <3>1, <3>2, <3>4, ReadOrderIsOrder
    <3> QED BY <1>2, <3>2, <3>5, ReadOrderIsOrder DEF IsOrder
  <2> QED BY <2>1
<1>7. Metric!Cardinality(I) = 0
  BY <1>6, SameCounts, FS_EmptySet
<1>8. PICK n \in Nat : n = Metric!Cardinality(S)
  <2>1. IsFiniteSet(S)
    BY <1>2, <1>3, ReadOrderIsOrder, FS_Subset
  <2> QED BY <2>1, SameCounts, FS_CardinalityType
<1>9. PICK w \in Int : w = n * (n - 1)
  OBVIOUS
<1>10. PICK pairs \in Int : pairs = w \div 2
  OBVIOUS
<1>11. PICK o : o = Metric!ReadingOrder(d, d)
  OBVIOUS
<1>12. o = [accuracy |-> Metric!Ratio(pairs - 0, pairs),
            coverage |-> Metric!Ratio(n, Len(d.blocks))]
  BY <1>1, <1>2, <1>3, <1>5, <1>7, <1>8, <1>9, <1>10, <1>11 DEF Metric!ReadingOrder
<1>13. o.accuracy = Metric!Ratio(pairs, pairs)
  BY <1>12
<1> QED BY <1>11, <1>13 DEF Metric!Perfect, Metric!Ratio

-----------------------------------------------------------------------------
(* The other metrics *)

\* The loop that joins formulas.
Separator(k) == IF k = 1 THEN <<>> ELSE <<"nl">>
Lines(bs) ==
    CHOOSE joined : joined = [k \in 0..Len(bs) |->
        IF k = 0 THEN <<>> ELSE (joined[k - 1] \o Separator(k)) \o bs[k].text]

\* Formulas joined: the last round of the loop.
LEMMA JoinedIs ==
  ASSUME NEW bs
  PROVE  Metric!Joined(bs) = Lines(bs)[Len(bs)]
BY DEF Metric!Joined, Lines, Separator

\* A text with a line added is a text.
LEMMA AddedLine ==
  ASSUME NEW a \in Strings, NEW b \in Strings, NEW k
  PROVE  (a \o Separator(k)) \o b \in Strings
<1>1. Separator(k) \in Strings
  <2>1. "nl" \in Characters
    BY DEF Characters
  <2>2. <<>> \in Seq(Characters) /\ <<"nl">> \in Seq(Characters)
    BY <2>1
  <2> QED BY <2>2 DEF Separator, Strings
<1>2. a \o Separator(k) \in Strings
  BY <1>1 DEF Strings
<1> QED BY <1>2 DEF Strings

\* The joined texts of blocks are a text.
LEMMA JoinedIsText ==
  ASSUME NEW bs, IsTables(bs)
  PROVE  Metric!Joined(bs) \in Strings
<1>1. PICK n \in Nat : n = Len(bs)
  BY DEF IsTables
<1>2. \A k \in 1..n : bs[k].text \in Strings
  BY <1>1, TextIsString DEF IsTables, IsBlock
<1>3. PICK G : G = [p \in Strings \X (1..n) |-> (p[1] \o Separator(p[2])) \o bs[p[2]].text]
  OBVIOUS
<1>4. IsBody(G, n, Strings)
  <2>1. ASSUME NEW p \in Strings \X (1..n)
        PROVE  (p[1] \o Separator(p[2])) \o bs[p[2]].text \in Strings
    <3>1. p[1] \in Strings /\ p[2] \in 1..n
      OBVIOUS
    <3>2. PICK a \in Strings : a = p[1]
      BY <3>1
    <3>3. PICK b \in Strings : b = bs[p[2]].text
      BY <1>2, <3>1
    <3>4. (a \o Separator(p[2])) \o b \in Strings
      BY AddedLine
    <3> QED BY <3>2, <3>3, <3>4
  <2> QED BY <1>3, <2>1 DEF IsBody
<1>5. <<>> \in Strings
  BY DEF Strings
<1>6. PICK f : IsLoop(f, n, Strings, <<>>, G)
  BY <1>4, <1>5, LoopExists
<1>8. \A k \in 1..n : f[k] = (f[k - 1] \o Separator(k)) \o bs[k].text
  <2>1. ASSUME NEW k \in 1..n PROVE f[k] = (f[k - 1] \o Separator(k)) \o bs[k].text
    <3>1. f[k] = G[<<f[k - 1], k>>] /\ f[k - 1] \in Strings
      BY <1>6 DEF IsLoop
    <3>2. G[<<f[k - 1], k>>] = (f[k - 1] \o Separator(k)) \o bs[k].text
      BY <1>3, <3>1
    <3> QED BY <3>1, <3>2
  <2> QED BY <2>1
<1>9. f = [k \in 0..Len(bs) |->
             IF k = 0 THEN <<>> ELSE (f[k - 1] \o Separator(k)) \o bs[k].text]
  <2>1. ASSUME NEW k \in 0..n
        PROVE  f[k] = IF k = 0 THEN <<>> ELSE (f[k - 1] \o Separator(k)) \o bs[k].text
    <3>1. CASE k = 0
      BY <1>6, <3>1 DEF IsLoop
    <3>2. CASE k # 0
      <4>1. k \in 1..n
        BY <3>2
      <4> QED BY <1>8, <3>2, <4>1
    <3> QED BY <3>1, <3>2
  <2>2. f = [k \in 0..n |-> f[k]]
    BY <1>6 DEF IsLoop
  <2> QED BY <1>1, <2>1, <2>2
<1>10. PICK g : g = Lines(bs)
  OBVIOUS
<1>11. g = [k \in 0..Len(bs) |->
              IF k = 0 THEN <<>> ELSE (g[k - 1] \o Separator(k)) \o bs[k].text]
  BY <1>9, <1>10 DEF Lines
<1>12. g[0] = <<>>
  BY <1>1, <1>11
<1>13. \A k \in 1..n : g[k] = (g[k - 1] \o Separator(k)) \o bs[k].text
  <2>1. ASSUME NEW k \in 1..n PROVE g[k] = (g[k - 1] \o Separator(k)) \o bs[k].text
    <3>1. k \in 0..Len(bs) /\ k # 0
      BY <1>1
    <3> QED BY <1>11, <3>1
  <2> QED BY <2>1
<1>14. \A k \in 1..n : f[k - 1] = g[k - 1] => f[k] = g[k]
  BY <1>8, <1>13
<1>15. f[0] = g[0]
  BY <1>6, <1>12 DEF IsLoop
<1>16. f[n] = g[n]
  <2>1. \A k \in 0..n : f[k] = g[k]
    BY <1>14, <1>15, LoopUnique
  <2> QED BY <2>1
<1>17. f[n] \in Strings
  BY <1>6 DEF IsLoop
<1> QED BY <1>1, <1>10, <1>16, <1>17, JoinedIs

\* What is said of formulas is a score, a perfect one for the same document.
LEMMA FormulaIsScore ==
  ASSUME NEW d, IsDocument(d), NEW e, IsDocument(e)
  PROVE  /\ Metric!Formula(d, e) \in Scores
         /\ d = e => Metric!Perfect(Metric!Formula(d, e))
<1>1. PICK a : a = Metric!Joined(Metric!OfType(d, "formula"))
  OBVIOUS
<1>2. PICK b : b = Metric!Joined(Metric!OfType(e, "formula"))
  OBVIOUS
<1>3. a \in Strings
  BY <1>1, OfTypeTaken, JoinedIsText DEF IsTables
<1>4. b \in Strings
  BY <1>2, OfTypeTaken, JoinedIsText DEF IsTables
<1>5. Metric!Formula(d, e) = IF a = <<>> /\ b = <<>> THEN Metric!None ELSE Metric!Accuracy(a, b)
  BY <1>1, <1>2 DEF Metric!Formula
<1>6. Metric!Accuracy(a, b) \in Scores /\ (a = b => Metric!Perfect(Metric!Accuracy(a, b)))
  BY <1>3, <1>4, AccuracyIsScore
<1>7. Metric!None \in Scores /\ Metric!Perfect(Metric!None)
  BY OneAndZero DEF Metric!Perfect
<1>8. d = e => a = b
  BY <1>1, <1>2
<1> QED BY <1>5, <1>6, <1>7, <1>8

\* What is missing to one.
Missing(r) == IF r = Metric!None THEN Metric!None ELSE [n |-> r.d - r.n, d |-> r.d]

\* What a score lacks is a score.
LEMMA MissingIsScore ==
  ASSUME NEW r \in Scores
  PROVE  Missing(r) \in Scores
<1>1. CASE r = Metric!None
  BY <1>1 DEF Missing
<1>2. CASE r # Metric!None
  <2>1. r.n \in Nat /\ r.d \in Nat /\ r.n <= r.d /\ r.d >= 1
    BY <1>2 DEF Scores, Ratios
  <2>2. Missing(r) = [n |-> r.d - r.n, d |-> r.d]
    BY <1>2 DEF Missing
  <2>3. r.d - r.n \in Nat /\ r.d - r.n <= r.d
    BY <2>1
  <2> QED BY <2>1, <2>2, <2>3 DEF Scores, Ratios
<1> QED BY <1>1, <1>2

\* What is said of personal data are scores, perfect ones for the same document.
LEMMA PiiIsScores ==
  ASSUME NEW d, IsDocument(d), NEW e, IsDocument(e)
  PROVE  /\ Metric!Pii(d, e).scores \in Triples
         /\ Metric!Pii(d, e).leakage \in Scores /\ Metric!Pii(d, e).overmask \in Scores
         /\ d = e => \A r \in Metric!Triple(Metric!Pii(d, e).scores) : Metric!Perfect(r)
<1>1. PICK A : A = d.entities /\ IsFiniteSet(A)
  BY DEF IsDocument
<1>2. PICK B : B = e.entities /\ IsFiniteSet(B)
  BY DEF IsDocument
<1>3. IsFiniteSet(A \cap B) /\ IsFiniteSet(B \ A) /\ IsFiniteSet(A \ B)
  BY <1>1, <1>2, FS_Subset
<1>4. PICK tp \in Nat : tp = Metric!Cardinality(A \cap B)
  BY <1>3, SameCounts, FS_CardinalityType
<1>5. PICK fp \in Nat : fp = Metric!Cardinality(B \ A)
  BY <1>3, SameCounts, FS_CardinalityType
<1>6. PICK fn \in Nat : fn = Metric!Cardinality(A \ B)
  BY <1>3, SameCounts, FS_CardinalityType
<1>7. PICK m : m = Metric!F1(tp, fp, fn)
  OBVIOUS
<1>8. m \in Triples
  BY <1>7, F1IsScores
<1>9. PICK p : p = Metric!Pii(d, e)
  OBVIOUS
<1>10. p = [scores |-> m, leakage |-> Missing(m.recall), overmask |-> Missing(m.precision)]
  BY <1>1, <1>2, <1>4, <1>5, <1>6, <1>7, <1>9 DEF Metric!Pii, Missing
<1>11. p.scores = m /\ p.leakage = Missing(m.recall) /\ p.overmask = Missing(m.precision)
  BY <1>10
<1>12. m.recall \in Scores /\ m.precision \in Scores
  BY <1>8 DEF Triples
<1>13. p.leakage \in Scores /\ p.overmask \in Scores
  BY <1>11, <1>12, MissingIsScore
<1>14. ASSUME d = e PROVE \A r \in Metric!Triple(m) : Metric!Perfect(r)
  <2>1. B \ A = {} /\ A \ B = {}
    BY <1>1, <1>2, <1>14
  <2>2. fp = 0 /\ fn = 0
    BY <1>5, <1>6, <2>1, SameCounts, FS_EmptySet
  <2> QED BY <1>7, <2>2, F1OfAll
<1> QED BY <1>8, <1>9, <1>11, <1>13, <1>14

-----------------------------------------------------------------------------
(* evaluate_documents() *)

\* What evaluate_documents() reports: the mean of six scores, and all of them.
Overall(d, e) ==
    Metric!Mean(<<Metric!Accuracy(d.text, e.text), Metric!Layout(d, e).f1, Metric!Tables(d, e).teds,
                  Metric!ReadingOrder(d, e).accuracy, Metric!Formula(d, e),
                  Metric!Pii(d, e).scores.f1>>)
Report(d, e) ==
    [cer |-> Metric!CER(d.text, e.text), text_accuracy |-> Metric!Accuracy(d.text, e.text),
     layout |-> Metric!Layout(d, e), tables |-> Metric!Tables(d, e),
     order |-> Metric!ReadingOrder(d, e), formula |-> Metric!Formula(d, e),
     pii |-> Metric!Pii(d, e), overall_quality |-> Overall(d, e)]

\* Six scores have a mean.
LEMMA MeanOfSix ==
  ASSUME NEW a \in Scores, NEW b \in Scores, NEW c \in Scores, NEW x \in Scores, NEW y \in Scores,
         NEW z \in Scores
  PROVE  /\ Metric!Mean(<<a, b, c, x, y, z>>) \in Scores
         /\ (\A r \in {a, b, c, x, y, z} : Metric!Perfect(r))
            => Metric!Perfect(Metric!Mean(<<a, b, c, x, y, z>>))
<1>1. PICK rs : rs = <<a, b, c, x, y, z>>
  OBVIOUS
<1>2. rs \in Seq(Scores) /\ \A k \in DOMAIN rs : rs[k] \in {a, b, c, x, y, z}
  BY <1>1
<1>3. Metric!Mean(rs) \in Scores
  BY <1>2, MeanIsScore
<1>4. ASSUME \A r \in {a, b, c, x, y, z} : Metric!Perfect(r) PROVE Metric!Perfect(Metric!Mean(rs))
  BY <1>2, <1>4, MeanOfOnes
<1> QED BY <1>1, <1>3, <1>4

\* The overall quality is a score.
LEMMA OverallIsScore ==
  ASSUME NEW d, IsDocument(d), NEW e, IsDocument(e)
  PROVE  Overall(d, e) \in Scores
<1>1. Metric!Accuracy(d.text, e.text) \in Scores
  <2>1. d.text \in Strings /\ e.text \in Strings
    BY TextIsString DEF IsDocument
  <2> QED BY <2>1, AccuracyIsScore
<1>2. Metric!Layout(d, e).f1 \in Scores
  BY LayoutIsScores DEF Triples
<1>3. Metric!Tables(d, e).teds \in Scores
  BY TablesAreScores DEF TableScores
<1>4. Metric!ReadingOrder(d, e).accuracy \in Scores
  BY ReadingOrderIsScores
<1>5. Metric!Formula(d, e) \in Scores
  BY FormulaIsScore
<1>6. Metric!Pii(d, e).scores.f1 \in Scores
  BY PiiIsScores DEF Triples
<1> QED BY <1>1, <1>2, <1>3, <1>4, <1>5, <1>6, MeanOfSix DEF Overall

\* The parts of a report.
LEMMA ReportIs ==
  ASSUME NEW d, NEW e, NEW m, m = Report(d, e)
  PROVE  /\ m.cer = Metric!CER(d.text, e.text) /\ m.text_accuracy = Metric!Accuracy(d.text, e.text)
         /\ m.layout = Metric!Layout(d, e) /\ m.tables = Metric!Tables(d, e)
         /\ m.order = Metric!ReadingOrder(d, e) /\ m.formula = Metric!Formula(d, e)
         /\ m.pii = Metric!Pii(d, e) /\ m.overall_quality = Overall(d, e)
BY DEF Report

\* Every score of a report is one.
QualitiesOf(m) ==
    {m.text_accuracy, m.formula, m.overall_quality, m.order.accuracy, m.tables.count_accuracy,
     m.tables.teds, m.tables.teds_structure, m.tables.content_accuracy}
    \cup Metric!Triple(m.layout) \cup Metric!Triple(m.tables.structure)
    \cup Metric!Triple(m.pii.scores)

\* Every score of a report lies between 0 and 1.
LEMMA ReportInUnit ==
  ASSUME NEW d, IsDocument(d), NEW e, IsDocument(e), NEW m, m = Report(d, e),
         NEW r \in QualitiesOf(m) \cup {m.order.coverage, m.pii.leakage, m.pii.overmask}
  PROVE  Metric!InUnit(r)
<1>1. m.text_accuracy \in Scores
  <2>1. d.text \in Strings /\ e.text \in Strings
    BY TextIsString DEF IsDocument
  <2> QED BY <2>1, AccuracyIsScore, ReportIs
<1>2. m.formula \in Scores
  BY FormulaIsScore, ReportIs
<1>3. m.overall_quality \in Scores
  BY OverallIsScore, ReportIs
<1>4. m.order.accuracy \in Scores /\ m.order.coverage \in Scores
  BY ReadingOrderIsScores, ReportIs
<1>5. /\ m.tables.count_accuracy \in Scores /\ m.tables.teds \in Scores
      /\ m.tables.teds_structure \in Scores /\ m.tables.content_accuracy \in Scores
      /\ m.tables.structure \in Triples
  BY TablesAreScores, ReportIs DEF TableScores
<1>6. m.layout \in Triples
  BY LayoutIsScores, ReportIs
<1>7. m.pii.scores \in Triples /\ m.pii.leakage \in Scores /\ m.pii.overmask \in Scores
  BY PiiIsScores, ReportIs
<1>8. ASSUME NEW f \in Triples PROVE Metric!Triple(f) \subseteq Scores
  BY DEF Triples, Metric!Triple
<1>9. r \in Scores
  <2>1. /\ Metric!Triple(m.layout) \subseteq Scores /\ Metric!Triple(m.tables.structure) \subseteq Scores
        /\ Metric!Triple(m.pii.scores) \subseteq Scores
    BY <1>5, <1>6, <1>7, <1>8
  <2> QED BY <1>1, <1>2, <1>3, <1>4, <1>5, <1>7, <2>1, Zenon DEF QualitiesOf
<1> QED BY <1>9, ScoreIsInUnit

\* A document is perfect against itself.
HasAreas(d) ==
    \A k \in DOMAIN d.blocks : d.blocks[k].bbox # <<>> => Metric!Area(d.blocks[k].bbox) > 0

\* Every part of the report on a document against itself is perfect.
LEMMA OverallOfSame ==
  ASSUME NEW d, IsDocument(d), HasAreas(d)
  PROVE  /\ Metric!Perfect(Metric!Accuracy(d.text, d.text))
         /\ \A r \in Metric!Triple(Metric!Layout(d, d)) : Metric!Perfect(r)
         /\ TablesPerfect(Metric!Tables(d, d))
         /\ Metric!Perfect(Metric!ReadingOrder(d, d).accuracy)
         /\ Metric!Perfect(Metric!Formula(d, d))
         /\ \A r \in Metric!Triple(Metric!Pii(d, d).scores) : Metric!Perfect(r)
         /\ Metric!Perfect(Overall(d, d))
<1>1. d.text \in Strings
  BY TextIsString DEF IsDocument
<1>2. PICK a \in Scores : a = Metric!Accuracy(d.text, d.text) /\ Metric!Perfect(a)
  BY <1>1, AccuracyIsScore
<1>3. \A r \in Metric!Triple(Metric!Layout(d, d)) : Metric!Perfect(r)
  BY LayoutOfSame DEF HasAreas
<1>4. PICK b \in Scores : b = Metric!Layout(d, d).f1 /\ Metric!Perfect(b)
  <2>1. Metric!Layout(d, d).f1 \in Metric!Triple(Metric!Layout(d, d))
    BY Zenon DEF Metric!Triple
  <2>2. Metric!Layout(d, d).f1 \in Scores
    BY LayoutIsScores DEF Triples
  <2> QED BY <1>3, <2>1, <2>2
<1>5. TablesPerfect(Metric!Tables(d, d)) /\ TableScores(Metric!Tables(d, d))
  BY TablesAreScores
<1>6. PICK c \in Scores : c = Metric!Tables(d, d).teds /\ Metric!Perfect(c)
  BY <1>5 DEF TablesPerfect, TableScores
<1>7. PICK x \in Scores : x = Metric!ReadingOrder(d, d).accuracy /\ Metric!Perfect(x)
  BY ReadingOrderIsScores, ReadingOrderOfSame
<1>8. PICK y \in Scores : y = Metric!Formula(d, d) /\ Metric!Perfect(y)
  BY FormulaIsScore
<1>9. /\ \A r \in Metric!Triple(Metric!Pii(d, d).scores) : Metric!Perfect(r)
      /\ Metric!Pii(d, d).scores \in Triples
  BY PiiIsScores
<1>10. PICK z \in Scores : z = Metric!Pii(d, d).scores.f1 /\ Metric!Perfect(z)
  <2>1. Metric!Pii(d, d).scores.f1 \in Metric!Triple(Metric!Pii(d, d).scores)
    BY Zenon DEF Metric!Triple
  <2>2. Metric!Pii(d, d).scores.f1 \in Scores
    BY <1>9 DEF Triples
  <2> QED BY <1>9, <2>1, <2>2
<1>11. Overall(d, d) = Metric!Mean(<<a, b, c, x, y, z>>)
  BY <1>2, <1>4, <1>6, <1>7, <1>8, <1>10, Zenon DEF Overall
<1>12. \A r \in {a, b, c, x, y, z} : Metric!Perfect(r)
  BY <1>2, <1>4, <1>6, <1>7, <1>8, <1>10
<1>13. Metric!Perfect(Metric!Mean(<<a, b, c, x, y, z>>))
  BY <1>12, MeanOfSix
<1> QED BY <1>2, <1>3, <1>5, <1>7, <1>8, <1>9, <1>11, <1>13

\* The report on a document against itself: no errors, and perfect scores.
LEMMA ReportOfSame ==
  ASSUME NEW d, IsDocument(d), HasAreas(d), NEW m, m = Report(d, d)
  PROVE  m.cer.n = 0 /\ \A r \in QualitiesOf(m) : Metric!Perfect(r)
<1>1. m.cer.n = 0
  <2>1. m.cer = Metric!CER(d.text, d.text)
    BY ReportIs
  <2>2. Metric!EditDistance(d.text, d.text) = 0
    BY EditDistanceOfSame
  <2>3. CASE d.text # <<>>
    <3>1. m.cer = Metric!Ratio(0, Len(d.text))
      BY <2>1, <2>2, <2>3 DEF Metric!CER
    <3> QED BY <3>1 DEF Metric!Ratio, Metric!None
  <2>4. CASE d.text = <<>>
    BY <2>1, <2>4 DEF Metric!CER, Metric!Zero
  <2> QED BY <2>3, <2>4
<1>2. /\ Metric!Perfect(m.text_accuracy) /\ \A r \in Metric!Triple(m.layout) : Metric!Perfect(r)
      /\ TablesPerfect(m.tables) /\ Metric!Perfect(m.order.accuracy) /\ Metric!Perfect(m.formula)
      /\ \A r \in Metric!Triple(m.pii.scores) : Metric!Perfect(r)
      /\ Metric!Perfect(m.overall_quality)
  BY OverallOfSame, ReportIs
<1>3. /\ Metric!Perfect(m.tables.count_accuracy) /\ Metric!Perfect(m.tables.teds)
      /\ Metric!Perfect(m.tables.teds_structure) /\ Metric!Perfect(m.tables.content_accuracy)
      /\ \A r \in Metric!Triple(m.tables.structure) : Metric!Perfect(r)
  BY <1>2 DEF TablesPerfect
<1>4. ASSUME NEW r \in QualitiesOf(m) PROVE Metric!Perfect(r)
  BY <1>2, <1>3, Zenon DEF QualitiesOf
<1> QED BY <1>1, <1>4

\* The rows of the first tables are as far apart as their cheapest pairing.
CostsOf(a, b) == {Metric!PairingCost(a, b, m) : m \in Metric!Pairings(a, b)}
RowsLeast(a, b) ==
    /\ Metric!RowDistance(TRUE, a, b) \in CostsOf(a, b)
    /\ \A c \in CostsOf(a, b) : Metric!RowDistance(TRUE, a, b) <= c
RowsAreLeast(d, e) ==
    Metric!OfType(d, "table") # <<>> /\ Metric!OfType(e, "table") # <<>> =>
        \A i \in DOMAIN Metric!Tree(Metric!OfType(d, "table")[1]),
           j \in DOMAIN Metric!Tree(Metric!OfType(e, "table")[1]) :
              RowsLeast(Metric!Tree(Metric!OfType(d, "table")[1])[i],
                        Metric!Tree(Metric!OfType(e, "table")[1])[j])
\* A list with a length of zero is empty.
LEMMA NoBlocks ==
  ASSUME NEW d, IsDocument(d), NEW type, Len(Metric!OfType(d, type)) = 0
  PROVE  Metric!OfType(d, type) = <<>>
<1>1. PICK S : S = {k \in DOMAIN d.blocks : d.blocks[k].type = type}
  OBVIOUS
<1>2. PICK ks : ks = Metric!InOrder(S)
  OBVIOUS
<1>3. Metric!OfType(d, type) = [k \in DOMAIN ks |-> d.blocks[ks[k]]]
  BY <1>1, <1>2 DEF Metric!OfType
<1>4. DOMAIN Metric!OfType(d, type) = 1..0
  BY OfTypeTaken
<1>5. DOMAIN ks = 1..0
  BY <1>3, <1>4
<1> QED BY <1>3, <1>5

\* The table of minima of _tree_distance() ends with the least cost of all pairings of
\* the cells of two rows that keep their order, for all rows of the first tables.
THEOREM RowsOfTables ==
  ASSUME NEW d, IsDocument(d), NEW e, IsDocument(e)
  PROVE  RowsAreLeast(d, e)
<1>1. PICK gt : gt = Metric!OfType(d, "table")
  OBVIOUS
<1>2. PICK pred : pred = Metric!OfType(e, "table")
  OBVIOUS
<1>3. ASSUME gt # <<>>, pred # <<>>,
             NEW i \in DOMAIN Metric!Tree(gt[1]), NEW j \in DOMAIN Metric!Tree(pred[1])
      PROVE  RowsLeast(Metric!Tree(gt[1])[i], Metric!Tree(pred[1])[j])
  <2>1. IsBlock(gt[1]) /\ IsBlock(pred[1])
    <3>1. 1 \in DOMAIN gt
      <4>1. Len(gt) \in Nat /\ DOMAIN gt = 1..Len(gt)
        BY <1>1, OfTypeTaken
      <4>2. Len(gt) # 0
        BY <1>1, <1>3, <4>1, NoBlocks
      <4> QED BY <4>1, <4>2
    <3>2. 1 \in DOMAIN pred
      <4>1. Len(pred) \in Nat /\ DOMAIN pred = 1..Len(pred)
        BY <1>2, OfTypeTaken
      <4>2. Len(pred) # 0
        BY <1>2, <1>3, <4>1, NoBlocks
      <4> QED BY <4>1, <4>2
    <3> QED BY <1>1, <1>2, <3>1, <3>2, OfTypeTaken
  <2>2. PICK t : t = Metric!Tree(gt[1]) /\ IsTree(t)
    BY <2>1, TreeOfTable
  <2>3. PICK u : u = Metric!Tree(pred[1]) /\ IsTree(u)
    BY <2>1, TreeOfTable
  <2>4. IsRow(t[i]) /\ IsRow(u[j])
    BY <2>2, <2>3 DEF IsTree
  <2>5. RowsLeast(t[i], u[j])
    <3>1. \E m \in Metric!Pairings(t[i], u[j]) :
             Metric!RowDistance(TRUE, t[i], u[j]) = Metric!PairingCost(t[i], u[j], m)
      BY <2>4, RowDistanceLeast
    <3>2. \A m \in Metric!Pairings(t[i], u[j]) :
             Metric!RowDistance(TRUE, t[i], u[j]) <= Metric!PairingCost(t[i], u[j], m)
      BY <2>4, RowDistanceLeast
    <3> QED BY <3>1, <3>2, Zenon DEF RowsLeast, CostsOf
  <2> QED BY <2>2, <2>3, <2>5
<1>4. gt # <<>> /\ pred # <<>> =>
         \A i \in DOMAIN Metric!Tree(gt[1]), j \in DOMAIN Metric!Tree(pred[1]) :
            RowsLeast(Metric!Tree(gt[1])[i], Metric!Tree(pred[1])[j])
  BY <1>3
<1> QED BY <1>1, <1>2, <1>4 DEF RowsAreLeast

-----------------------------------------------------------------------------
\* A report is what its claims say, whatever the documents.
ReportOr ==
    \/ metrics = Metric!NotEvaluated \/ metrics = Metric!Raised
    \/ metrics = Report(ground_truth, prediction)
MetricsInv == IsDocument(ground_truth) /\ IsDocument(prediction) /\ ReportOr

\* The invariant gives every part of the property.
LEMMA MetricsInvSound ==
  ASSUME MetricsInv
  PROVE  /\ Metric!ScoresInUnit /\ Metric!PerfectScoresOne /\ Metric!ContentNeverHelps
         /\ Metric!LayoutIsMatched /\ Metric!RowDistanceIsLeast
<1>1. PICK d : d = ground_truth /\ IsDocument(d)
  BY DEF MetricsInv
<1>2. PICK e : e = prediction /\ IsDocument(e)
  BY DEF MetricsInv
<1>3. metrics \in {Metric!NotEvaluated, Metric!Raised} \/ metrics = Report(d, e)
  BY <1>1, <1>2 DEF MetricsInv, ReportOr
<1>4. Metric!Qualities = QualitiesOf(metrics)
  BY DEF Metric!Qualities, QualitiesOf
<1>5. Metric!ScoresInUnit
  BY <1>1, <1>2, <1>3, <1>4, ReportInUnit DEF Metric!ScoresInUnit, Metric!Evaluated
<1>6. Metric!PerfectScoresOne
  BY <1>1, <1>2, <1>3, <1>4, ReportOfSame DEF Metric!PerfectScoresOne, Metric!Evaluated, HasAreas
<1>7. Metric!ContentNeverHelps
  <2>1. ~Metric!Larger(Metric!Tables(d, e).teds, Metric!Tables(d, e).teds_structure)
    BY <1>1, <1>2, TablesAreScores DEF TableScores
  <2>2. metrics = Report(d, e) => metrics.tables = Metric!Tables(d, e)
    BY ReportIs
  <2> QED BY <1>3, <2>1, <2>2 DEF Metric!ContentNeverHelps, Metric!Evaluated
<1>8. Metric!LayoutIsMatched
  BY <1>1, <1>2, LayoutOneToOne DEF Metric!LayoutIsMatched
<1>9. Metric!RowDistanceIsLeast
  <2>1. RowsAreLeast(ground_truth, prediction)
    BY <1>1, <1>2, RowsOfTables
  <2> QED BY <2>1 DEF RowsAreLeast, RowsLeast, CostsOf, Metric!RowDistanceIsLeast
<1> QED BY <1>5, <1>6, <1>7, <1>8, <1>9

\* It holds before anything is measured.
LEMMA MetricsInit ==
  ASSUME Metric!Init
  PROVE  MetricsInv
BY DocumentsAssumption DEF Metric!Init, MetricsInv, ReportOr

\* Every step keeps it: the report on the two documents is written.
LEMMA MetricsNext ==
  ASSUME MetricsInv, Metric!Next
  PROVE  MetricsInv'
<1>1. ground_truth' = ground_truth /\ prediction' = prediction
  BY DEF Metric!Next, Metric!Evaluate, Metric!EvaluateRaises
<1>2. CASE Metric!Evaluate
  <2>1. metrics' = Report(ground_truth, prediction)
    BY <1>2 DEF Metric!Evaluate, Report, Overall
  <2> QED BY <1>1, <2>1 DEF MetricsInv, ReportOr
<1>3. CASE Metric!EvaluateRaises
  BY <1>1, <1>3 DEF Metric!EvaluateRaises, MetricsInv, ReportOr
<1> QED BY <1>2, <1>3 DEF Metric!Next

\* Whatever the documents, every metric but the raw error rate lies between 0 and 1,
\* a document is perfect against itself, the texts of cells never improve a table,
\* blocks are matched one to one with none left over, and rows are as far apart as
\* their cheapest pairing.
THEOREM MetricsAreSound == AllSpec => []MetricsSound
<1> DEFINE Inv == part = "metrics" => MetricsInv
<1>1. AllInit => Inv
  BY MetricsInit DEF AllInit
<1>2. Inv /\ [AllNext]_allVars => Inv'
  <2> SUFFICES ASSUME Inv, [AllNext]_allVars, part' = "metrics" PROVE MetricsInv'
    OBVIOUS
  <2>1. CASE part = "metrics" /\ Metric!Next
    BY <2>1, MetricsNext
  <2>2. CASE part = "metrics" /\ UNCHANGED metric
    <3>1. UNCHANGED <<ground_truth, prediction, metrics>>
      BY <2>2 DEF metric
    <3> QED BY <2>2, <3>1 DEF MetricsInv, ReportOr
  <2> QED BY <2>1, <2>2 DEF AllNext, RunnerSteps, allVars
<1>3. Inv => MetricsSound
  BY MetricsInvSound DEF MetricsSound
<1> QED BY <1>1, <1>2, <1>3, PTL DEF AllSpec
=============================================================================
