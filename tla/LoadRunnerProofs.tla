-------------------------- MODULE LoadRunnerProofs --------------------------
(***************************************************************************)
(* What holds of the load programs for every number of requests, size of   *)
(* the pool and length of the replies.                                     *)
(***************************************************************************)
EXTENDS LoadRunner, TLAPS, SequenceTheorems, FunctionTheorems, FiniteSetTheorems,
        WellFoundedInduction

-----------------------------------------------------------------------------
(* Induction, and the sum over a finite set                                *)

\* A set of naturals that is not empty has a least element: what an induction
\* argues with.
LEMMA LeastNat ==
  ASSUME NEW S \in SUBSET Nat, S # {}
  PROVE  \E x \in S : \A y \in S : x <= y
<1>. DEFINE upTo == {0 .. n : n \in S}
<1>1. upTo \subseteq FiniteSubsetsOf(Nat) /\ upTo # {}
  <2>1. \A n \in Nat : IsFiniteSet(0 .. n) /\ 0 .. n \in SUBSET Nat
    BY FS_Interval
  <2>. QED BY <2>1 DEF FiniteSubsetsOf
<1>2. PICK m \in upTo : \A k \in upTo : <<k, m>> \notin StrictSubsetOrdering(Nat)
  BY <1>1, FS_StrictSubsetOrderingWellFounded, WFMin, Zenon
<1>3. PICK x \in S : m = 0 .. x
  OBVIOUS
<1>4. ASSUME NEW y \in S PROVE x <= y
  <2>1. SUFFICES ASSUME y < x PROVE FALSE
    OBVIOUS
  <2>2. x \in 0 .. x /\ x \notin 0 .. y
    BY <2>1
  <2>3. 0 .. y \subseteq 0 .. x /\ 0 .. y # 0 .. x
    BY <2>1, <2>2
  <2>4. 0 .. y \in SUBSET Nat /\ 0 .. x \in SUBSET Nat
    OBVIOUS
  <2>5. <<0 .. y, 0 .. x>> \in StrictSubsetOrdering(Nat)
    BY <2>3, <2>4 DEF StrictSubsetOrdering
  <2>. QED BY <2>5, <1>2, <1>3
<1>. QED BY <1>3, <1>4

\* What holds of zero and goes from each natural to the next holds of all.
LEMMA AllNat ==
  ASSUME NEW G, 0 \in G, \A n \in Nat : n \in G => n + 1 \in G
  PROVE  Nat \subseteq G
<1>1. SUFFICES ASSUME Nat \ G # {} PROVE FALSE
  OBVIOUS
<1>2. PICK x \in Nat \ G : \A y \in Nat \ G : x <= y
  BY <1>1, LeastNat
<1>3. x # 0 /\ x - 1 \in Nat
  OBVIOUS
<1>4. x - 1 \in G
  BY <1>2, <1>3
<1>. QED BY <1>3, <1>4

\* The sum over a finite set is that over the rest and the value of one element.
Body(f, g, s) ==
  IF s = {} THEN 0 ELSE LET x == CHOOSE x \in s : TRUE IN f[x] + g[s \ {x}]

\* A table of the sums over the subsets.
IsTable(f, S, g) == g = [s \in SUBSET S |-> Body(f, g, s)]

LEMMA SumExists ==
  ASSUME NEW S, IsFiniteSet(S), NEW f
  PROVE  \E g : IsTable(f, S, g)
<1>. DEFINE Good(g, n) == \A s \in SUBSET S : Cardinality(s) <= n => g[s] = Body(f, g, s)
            Improved(g) == [s \in SUBSET S |-> Body(f, g, s)]
            G == {n \in Nat : \E g : g = [s \in SUBSET S |-> g[s]] /\ Good(g, n)}
<1>0. \A s \in SUBSET S : /\ IsFiniteSet(s) /\ Cardinality(s) \in Nat
                          /\ Cardinality(s) <= Cardinality(S)
                          /\ Cardinality(s) = 0 <=> s = {}
                          /\ \A x \in s : Cardinality(s \ {x}) = Cardinality(s) - 1
  BY FS_Subset, FS_CardinalityType, FS_EmptySet, FS_RemoveElement
<1>1. 0 \in G
  <2>. DEFINE g == [s \in SUBSET S |-> 0]
  <2>1. Good(g, 0)
    BY <1>0 DEF Body
  <2>2. g = [s \in SUBSET S |-> g[s]]
    OBVIOUS
  <2>. QED BY <2>1, <2>2
<1>2. ASSUME NEW n \in Nat, n \in G PROVE n + 1 \in G
  <2>1. PICK g : g = [s \in SUBSET S |-> g[s]] /\ Good(g, n)
    BY <1>2
  <2>. DEFINE h == Improved(g)
  <2>2. \A s \in SUBSET S : Cardinality(s) <= n => h[s] = g[s]
    BY <2>1
  <2>3. ASSUME NEW s \in SUBSET S, Cardinality(s) <= n + 1
        PROVE  h[s] = Body(f, h, s)
    <3>1. CASE s = {}
      BY <3>1 DEF Body
    <3>2. CASE s # {}
      <4>. DEFINE x == CHOOSE x \in s : TRUE
      <4>1. x \in s
        BY <3>2
      <4>2. s \ {x} \in SUBSET S /\ Cardinality(s \ {x}) <= n
        BY <4>1, <1>0, <2>3
      <4>3. h[s \ {x}] = g[s \ {x}]
        BY <4>2, <2>2
      <4>4. h[s] = f[x] + g[s \ {x}]
        BY <3>2 DEF Body
      <4>5. Body(f, h, s) = f[x] + h[s \ {x}]
        BY <3>2 DEF Body
      <4>. QED BY <4>3, <4>4, <4>5
    <3>. QED BY <3>1, <3>2
  <2>4. Good(h, n + 1) /\ h = [s \in SUBSET S |-> h[s]]
    BY <2>3
  <2>. HIDE DEF h, Good
  <2>. QED BY <2>4
<1>3. Cardinality(S) \in G
  <2>. HIDE DEF G
  <2>1. Cardinality(S) \in Nat
    BY FS_CardinalityType
  <2>. QED BY <1>1, <1>2, <2>1, AllNat
<1>4. PICK g : g = [s \in SUBSET S |-> g[s]] /\ Good(g, Cardinality(S))
  BY <1>3
<1>5. IsTable(f, S, g)
  <2>1. \A s \in SUBSET S : g[s] = Body(f, g, s)
    BY <1>0, <1>4
  <2>. QED BY <1>4, <2>1 DEF IsTable
<1>. QED BY <1>5

LEMMA SumTable ==
  ASSUME NEW S, IsFiniteSet(S), NEW f
  PROVE  \E g : /\ IsTable(f, S, g)
                /\ SumFunctionOnSet(f, S) = g[S]
<1>1. PICK h : IsTable(f, S, h)
  BY SumExists
<1>2. h = [s \in SUBSET S |->
             IF s = {} THEN 0 ELSE LET x == CHOOSE x \in s : TRUE IN f[x] + h[s \ {x}]]
  BY <1>1 DEF Body, IsTable
<1>. DEFINE g == CHOOSE g : g = [s \in SUBSET S |->
                   IF s = {} THEN 0 ELSE LET x == CHOOSE x \in s : TRUE IN f[x] + g[s \ {x}]]
<1>3. SumFunctionOnSet(f, S) = g[S]
  BY DEF SumFunctionOnSet, FoldFunctionOnSet, MapThenFoldSet
<1>4. g = [s \in SUBSET S |->
             IF s = {} THEN 0 ELSE LET x == CHOOSE x \in s : TRUE IN f[x] + g[s \ {x}]]
  BY <1>2
<1>5. IsTable(f, S, g)
  BY <1>4 DEF Body, IsTable
<1>. HIDE DEF g
<1>. QED BY <1>3, <1>5

\* What holds of the empty set, and of every subset if it holds without some
\* element of it, holds of a finite set.
LEMMA AllSubsets ==
  ASSUME NEW S, IsFiniteSet(S), NEW P, {} \in P,
         \A s \in SUBSET S : s # {} => \E x \in s : s \ {x} \in P => s \in P
  PROVE  S \in P
<1>. DEFINE G == {n \in Nat : \A s \in SUBSET S : Cardinality(s) <= n => s \in P}
<1>0. \A s \in SUBSET S : /\ IsFiniteSet(s) /\ Cardinality(s) \in Nat
                          /\ Cardinality(s) = 0 <=> s = {}
                          /\ \A x \in s : Cardinality(s \ {x}) = Cardinality(s) - 1
  BY FS_Subset, FS_CardinalityType, FS_EmptySet, FS_RemoveElement
<1>1. 0 \in G
  <2>1. ASSUME NEW s \in SUBSET S, Cardinality(s) <= 0 PROVE s \in P
    <3>1. s = {}
      BY <1>0, <2>1
    <3>. QED BY <3>1
  <2>. QED BY <2>1
<1>2. ASSUME NEW n \in Nat, n \in G PROVE n + 1 \in G
  <2>1. ASSUME NEW s \in SUBSET S, Cardinality(s) <= n + 1, s # {} PROVE s \in P
    <3>1. PICK x \in s : s \ {x} \in P => s \in P
      BY <2>1
    <3>2. Cardinality(s \ {x}) <= n /\ s \ {x} \in SUBSET S
      BY <1>0, <2>1
    <3>. QED BY <1>2, <3>1, <3>2
  <2>. QED BY <2>1
<1>3. Cardinality(S) \in G
  <2>1. Cardinality(S) \in Nat
    BY <1>0
  <2>. HIDE DEF G
  <2>. QED BY <1>1, <1>2, <2>1, AllNat
<1>. QED BY <1>0, <1>3

LEMMA SumStep ==
  ASSUME NEW S, NEW f, NEW g, IsTable(f, S, g)
  PROVE  /\ g[{}] = 0
         /\ \A s \in SUBSET S : s # {} => \E x \in s : g[s] = f[x] + g[s \ {x}]
<1>1. g[{}] = 0
  BY DEF IsTable, Body
<1>2. ASSUME NEW s \in SUBSET S, s # {}
      PROVE  \E x \in s : g[s] = f[x] + g[s \ {x}]
  <2>. DEFINE x == CHOOSE x \in s : TRUE
  <2>1. x \in s
    BY <1>2
  <2>2. g[s] = f[x] + g[s \ {x}]
    BY <1>2 DEF IsTable, Body
  <2>. QED BY <2>1, <2>2
<1>. QED BY <1>1, <1>2

\* A sum of values up to m is at most m for each of them.
LEMMA SumBounded ==
  ASSUME NEW S, IsFiniteSet(S), NEW f, NEW m \in Nat, \A x \in S : f[x] \in 0..m
  PROVE  SumFunctionOnSet(f, S) \in Nat /\ SumFunctionOnSet(f, S) <= m * Cardinality(S)
<1>1. PICK g : IsTable(f, S, g) /\ SumFunctionOnSet(f, S) = g[S]
  BY SumTable
<1>. DEFINE P == {s \in SUBSET S : g[s] \in Nat /\ g[s] <= m * Cardinality(s)}
<1>2. {} \in P
  BY <1>1, SumStep, FS_EmptySet
<1>3. ASSUME NEW s \in SUBSET S, s # {}
      PROVE  \E x \in s : s \ {x} \in P => s \in P
  <2>1. PICK x \in s : g[s] = f[x] + g[s \ {x}]
    BY <1>1, <1>3, SumStep
  <2>2. /\ Cardinality(s \ {x}) = Cardinality(s) - 1
        /\ Cardinality(s) \in Nat /\ Cardinality(s \ {x}) \in Nat
    BY FS_Subset, FS_CardinalityType, FS_RemoveElement
  <2>3. m * Cardinality(s) = m * Cardinality(s \ {x}) + m
    BY <2>2
  <2>4. m * Cardinality(s) \in Nat /\ m * Cardinality(s \ {x}) \in Nat
    BY <2>2
  <2>5. SUFFICES ASSUME s \ {x} \in P PROVE s \in P
    OBVIOUS
  <2>6. f[x] \in 0..m
    OBVIOUS
  <2>. QED BY <2>1, <2>3, <2>4, <2>5, <2>6
<1>4. S \in P
  <2>. HIDE DEF P
  <2>. QED BY <1>2, <1>3, AllSubsets
<1>. QED BY <1>1, <1>4

\* Every index has one value: the counts of the values add up to the indices.
LEMMA CountsAddUp ==
  ASSUME NEW D, IsFiniteSet(D), NEW v
  PROVE  SumFunction([s \in {v[r] : r \in D} |-> Cardinality({r \in D : v[r] = s})])
           = Cardinality(D)
<1>. DEFINE T == {v[r] : r \in D}
            f == [s \in T |-> Cardinality({r \in D : v[r] = s})]
<1>1. IsFiniteSet(T)
  <2>1. [r \in D |-> v[r]] \in Surjection(D, T)
    BY Zenon DEF Surjection
  <2>. QED BY <2>1, FS_Surjection
<1>2. PICK g : IsTable(f, T, g) /\ SumFunctionOnSet(f, T) = g[T]
  BY <1>1, SumTable
<1>. DEFINE With(s) == {r \in D : v[r] \in s}
            P == {s \in SUBSET T : g[s] = Cardinality(With(s))}
<1>3. {} \in P
  <2>1. With({}) = {}
    OBVIOUS
  <2>2. g[{}] = 0
    BY <1>2, SumStep
  <2>. QED BY <2>1, <2>2, FS_EmptySet
<1>4. ASSUME NEW s \in SUBSET T, s # {}
      PROVE  \E x \in s : s \ {x} \in P => s \in P
  <2>1. PICK x \in s : g[s] = f[x] + g[s \ {x}]
    BY <1>2, <1>4, SumStep
  <2>. DEFINE A == {r \in D : v[r] = x}
  <2>2. f[x] = Cardinality(A)
    OBVIOUS
  <2>3. PICK B : B = With(s \ {x})
    OBVIOUS
  <2>4. With(s) = A \cup B /\ A \cap B = {}
    BY <2>3
  <2>5. IsFiniteSet(A) /\ IsFiniteSet(B)
    BY <2>3, FS_Subset
  <2>6. Cardinality(A \cup B) = Cardinality(A) + Cardinality(B)
    <3>. HIDE DEF A
    <3>1. Cardinality(A) \in Nat /\ Cardinality(B) \in Nat /\ Cardinality(A \cap B) = 0
      BY <2>4, <2>5, FS_CardinalityType, FS_EmptySet
    <3>2. Cardinality(A \cup B) = Cardinality(A) + Cardinality(B) - Cardinality(A \cap B)
      BY <2>5, FS_Union
    <3>. QED BY <3>1, <3>2
  <2>7. SUFFICES ASSUME g[s \ {x}] = Cardinality(B) PROVE g[s] = Cardinality(With(s))
    BY <2>3
  <2>8. Cardinality(With(s)) = Cardinality(A) + Cardinality(B)
    BY <2>4, <2>6
  <2>. QED BY <2>1, <2>2, <2>7, <2>8
<1>5. T \in P
  <2>. HIDE DEF P
  <2>. QED BY <1>1, <1>3, <1>4, AllSubsets
<1>6. With(T) = D
  OBVIOUS
<1>. QED BY <1>2, <1>5, <1>6 DEF SumFunction

-----------------------------------------------------------------------------
(* Values in order                                                         *)

InOrder(o, n) == \A i, j \in 1..n : i <= j => o[i] <= o[j]

\* p puts the first n values of v in order.
Orders(p, v, n) ==
  /\ p \in Bijection(1..n, 1..n)
  /\ \A i, j \in 1..n : i <= j => v[p[i]] <= v[p[j]]

\* One more value has its place before the first that is larger.
LEMMA OneMore ==
  ASSUME NEW n \in Nat, NEW v, \A i \in 1..n+1 : v[i] \in Int,
         NEW p, Orders(p, v, n)
  PROVE  \E q : Orders(q, v, n + 1)
<1>0. /\ p \in [1..n -> 1..n]
      /\ \A i, j \in 1..n : p[i] = p[j] => i = j
      /\ \A k \in 1..n : \E i \in 1..n : p[i] = k
      /\ \A i, j \in 1..n : i <= j => v[p[i]] <= v[p[j]]
  BY Zenon DEF Orders, Bijection, Injection, Surjection, IsInjective
<1>9. /\ \A i \in 1..n : p[i] \in 1..n /\ p[i] \in 1..n+1 /\ v[p[i]] \in Int
      /\ v[n+1] \in Int
  <2>1. n + 1 \in 1..n+1 /\ \A j \in 1..n : j \in 1..n+1
    OBVIOUS
  <2>2. \A i \in 1..n : p[i] \in 1..n
    BY <1>0
  <2>. QED BY <2>1, <2>2
<1>1. PICK k \in 1..n+1 : /\ \A i \in 1..k-1 : v[p[i]] <= v[n+1]
                          /\ \A i \in k..n : v[n+1] <= v[p[i]]
  <2>. DEFINE K == {i \in 1..n : v[p[i]] > v[n+1]}
  <2>1. CASE K = {}
    <3>1. \A i \in 1..n : v[p[i]] <= v[n+1]
      BY <1>9, <2>1
    <3>. QED BY <3>1
  <2>2. CASE K # {}
    <3>0. K \in SUBSET Nat
      OBVIOUS
    <3>1. PICK k \in K : \A i \in K : k <= i
      <4>. HIDE DEF K
      <4>. QED BY <2>2, <3>0, LeastNat
    <3>2. \A i \in 1..k-1 : v[p[i]] <= v[n+1]
      BY <1>9, <3>1
    <3>3. ASSUME NEW i \in k..n PROVE v[n+1] <= v[p[i]]
      <4>1. k \in 1..n /\ i \in 1..n /\ v[p[k]] > v[n+1] /\ v[p[k]] <= v[p[i]]
        BY <1>0, <3>1
      <4>. QED BY <1>9, <4>1
    <3>. QED BY <3>2, <3>3
  <2>. QED BY <2>1, <2>2
<1>. DEFINE q == [i \in 1..n+1 |-> IF i < k THEN p[i] ELSE IF i = k THEN n + 1 ELSE p[i-1]]
<1>10. /\ k \in Int /\ q[k] = n + 1
       /\ \A i \in 1..n+1 : i < k => i \in 1..n /\ q[i] = p[i]
       /\ \A i \in 1..n+1 : k < i => i - 1 \in 1..n /\ q[i] = p[i-1]
  OBVIOUS
<1>11. q = [i \in 1..n+1 |-> q[i]]
  OBVIOUS
<1>. HIDE DEF q
<1>2. q \in [1..n+1 -> 1..n+1]
  <2>1. \A i \in 1..n+1 : i < k \/ i = k \/ k < i
    OBVIOUS
  <2>2. n + 1 \in 1..n+1
    OBVIOUS
  <2>3. ASSUME NEW i \in 1..n+1 PROVE q[i] \in 1..n+1
    <3>1. CASE i < k
      BY <1>9, <1>10, <3>1
    <3>2. CASE k < i
      BY <1>9, <1>10, <3>2
    <3>. QED BY <1>10, <2>1, <2>2, <3>1, <3>2
  <2>. QED BY <1>11, <2>3
<1>3. ASSUME NEW i \in 1..n+1, NEW j \in 1..n+1, q[i] = q[j] PROVE i = j
  <2>1. \A l \in 1..n : p[l] # n + 1
    BY <1>9
  <2>2. \A a, b \in 1..n+1 : a < b => q[a] # q[b]
    <3>. SUFFICES ASSUME NEW a \in 1..n+1, NEW b \in 1..n+1, a < b, q[a] = q[b] PROVE FALSE
      OBVIOUS
    <3>1. CASE b < k
      BY <1>0, <1>10, <3>1
    <3>2. CASE b = k
      <4>1. a \in 1..n /\ q[a] = p[a] /\ q[b] = n + 1
        BY <1>10, <3>2
      <4>. QED BY <2>1, <4>1
    <3>5. CASE a = k
      <4>1. b - 1 \in 1..n /\ q[b] = p[b-1] /\ q[a] = n + 1
        BY <1>10, <3>5
      <4>. QED BY <2>1, <4>1
    <3>3. CASE a < k /\ k < b
      <4>1. a \in 1..n /\ b - 1 \in 1..n /\ a # b - 1 /\ q[a] = p[a] /\ q[b] = p[b-1]
        BY <1>10, <3>3
      <4>. QED BY <1>0, <4>1
    <3>4. CASE k < a
      <4>1. a - 1 \in 1..n /\ b - 1 \in 1..n /\ a - 1 # b - 1 /\ q[a] = p[a-1] /\ q[b] = p[b-1]
        BY <1>10, <3>4
      <4>. QED BY <1>0, <4>1
    <3>. QED BY <1>10, <3>1, <3>2, <3>3, <3>4, <3>5
  <2>. QED BY <1>3, <2>2
<1>4. ASSUME NEW m \in 1..n+1 PROVE \E i \in 1..n+1 : q[i] = m
  <2>1. CASE m = n + 1
    BY <1>10, <2>1
  <2>2. CASE m \in 1..n
    <3>1. PICK i \in 1..n : p[i] = m
      BY <1>0, <2>2
    <3>2. CASE i < k
      BY <1>10, <3>1, <3>2
    <3>3. CASE i >= k
      <4>1. i + 1 \in 1..n+1 /\ i + 1 > k /\ (i + 1) - 1 = i
        BY <1>10, <3>3
      <4>. QED BY <1>10, <3>1, <4>1
    <3>. QED BY <1>10, <3>2, <3>3
  <2>. QED BY <2>1, <2>2
<1>5. ASSUME NEW i \in 1..n+1, NEW j \in 1..n+1, i < j
      PROVE  v[q[i]] <= v[q[j]]
  <2>1. CASE j < k
    <3>1. i \in 1..n /\ j \in 1..n /\ i <= j /\ q[i] = p[i] /\ q[j] = p[j]
      BY <1>10, <1>5, <2>1
    <3>. QED BY <1>0, <3>1
  <2>2. CASE j = k
    BY <1>1, <1>10, <1>5, <2>2
  <2>3. CASE k < j /\ i < k
    <3>1. i \in 1..n /\ j - 1 \in 1..n /\ i <= j - 1 /\ q[i] = p[i] /\ q[j] = p[j-1]
      BY <1>10, <2>3
    <3>. QED BY <1>0, <3>1
  <2>4. CASE k < j /\ i = k
    <3>1. j - 1 \in k..n /\ q[i] = n + 1 /\ q[j] = p[j-1]
      BY <1>10, <2>4
    <3>. QED BY <1>1, <3>1
  <2>5. CASE k < j /\ k < i
    <3>1. i - 1 \in 1..n /\ j - 1 \in 1..n /\ i - 1 <= j - 1 /\ q[i] = p[i-1] /\ q[j] = p[j-1]
      BY <1>10, <1>5, <2>5
    <3>. QED BY <1>0, <3>1
  <2>. QED BY <1>10, <2>1, <2>2, <2>3, <2>4, <2>5
<1>6. \A i \in 1..n+1 : v[q[i]] \in Int
  BY <1>2
<1>7. \A i, j \in 1..n+1 : i <= j => v[q[i]] <= v[q[j]]
  BY <1>5, <1>6
<1>8. q \in Bijection(1..n+1, 1..n+1)
  BY <1>2, <1>3, <1>4 DEF Bijection, Injection, Surjection, IsInjective
<1>. HIDE DEF q
<1>. QED BY <1>7, <1>8 DEF Orders

\* Every list of integers can be put in order.
LEMMA OrderExists ==
  ASSUME NEW n \in Nat, NEW v, \A i \in 1..n : v[i] \in Int
  PROVE  \E p : Orders(p, v, n)
<1>. DEFINE G == {m \in Nat : m <= n => \E p : Orders(p, v, m)}
<1>1. 0 \in G
  <2>. DEFINE p == [i \in 1..0 |-> i]
  <2>1. Orders(p, v, 0)
    BY DEF Orders, Bijection, Injection, Surjection, IsInjective
  <2>. HIDE DEF p
  <2>. QED BY <2>1
<1>2. ASSUME NEW m \in Nat, m \in G PROVE m + 1 \in G
  <2>1. SUFFICES ASSUME m + 1 <= n PROVE \E p : Orders(p, v, m + 1)
    OBVIOUS
  <2>2. PICK p : Orders(p, v, m)
    BY <1>2, <2>1
  <2>3. \A i \in 1..m+1 : v[i] \in Int
    BY <2>1
  <2>. QED BY <2>2, <2>3, OneMore
<1>3. n \in G
  <2>. HIDE DEF G
  <2>. QED BY <1>1, <1>2, AllNat
<1>. QED BY <1>3

\* Ascending gives every value once, in order.
LEMMA AscendingOrders ==
  ASSUME NEW n \in Nat, NEW v \in [1..n -> Int]
  PROVE  /\ Ascending(v) \in [1..n -> Int]
         /\ InOrder(Ascending(v), n)
         /\ \E p \in Bijection(1..n, 1..n) : \A i \in 1..n : Ascending(v)[i] = v[p[i]]
<1>. DEFINE order == CHOOSE p \in Bijection(DOMAIN v, DOMAIN v) :
                       \A i, j \in DOMAIN v : i <= j => v[p[i]] <= v[p[j]]
<1>1. DOMAIN v = 1..n
  OBVIOUS
<1>2. PICK p : Orders(p, v, n)
  BY OrderExists
<1>3. Orders(order, v, n)
  BY <1>1, <1>2 DEF Orders
<1>4. Ascending(v) = [i \in 1..n |-> v[order[i]]]
  BY <1>1 DEF Ascending
<1>. HIDE DEF order
<1>5. order \in Bijection(1..n, 1..n) /\ order \in [1..n -> 1..n]
  BY <1>3 DEF Orders, Bijection, Injection
<1>6. InOrder(Ascending(v), n)
  BY <1>3, <1>4 DEF Orders, InOrder
<1>. QED BY <1>4, <1>5, <1>6

\* How many of n values are at most, and at least, a number of hundredths.
Below(v, n, t) == Cardinality({i \in 1..n : 100 * v[i] <= t})
Above(v, n, t) == Cardinality({i \in 1..n : 100 * v[i] >= t})

\* At least k values are up to the k-th in order, and at least n - k + 1 are
\* from it on.
LEMMA Ranks ==
  ASSUME NEW n \in Nat, NEW v \in [1..n -> Int], NEW k \in 1..n, NEW t \in Int
  PROVE  /\ Below(v, n, t) \in Nat /\ Above(v, n, t) \in Nat
         /\ 100 * Ascending(v)[k] <= t => Below(v, n, t) >= k
         /\ 100 * Ascending(v)[k] >= t => Above(v, n, t) >= n - k + 1
<1>. DEFINE o == Ascending(v)
            below == {i \in 1..n : 100 * v[i] <= t}
            above == {i \in 1..n : 100 * v[i] >= t}
<1>1. PICK p \in Bijection(1..n, 1..n) : \A i \in 1..n : o[i] = v[p[i]]
  BY AscendingOrders
<1>2. /\ p \in [1..n -> 1..n] /\ \A i, j \in 1..n : p[i] = p[j] => i = j
  BY DEF Bijection, Injection, IsInjective
<1>3. o \in [1..n -> Int] /\ \A i, j \in 1..n : i <= j => o[i] <= o[j]
  BY AscendingOrders DEF InOrder
<1>. HIDE DEF o
<1>4. IsFiniteSet(below) /\ IsFiniteSet(above)
      /\ Cardinality(below) \in Nat /\ Cardinality(above) \in Nat
  <2>1. IsFiniteSet(1..n) /\ below \in SUBSET 1..n /\ above \in SUBSET 1..n
    BY FS_Interval
  <2>. HIDE DEF below, above
  <2>. QED BY <2>1, FS_Subset, FS_CardinalityType
<1>5. ASSUME 100 * o[k] <= t PROVE Cardinality(below) >= k
  <2>. DEFINE f == [i \in 1..k |-> p[i]]
  <2>1. ASSUME NEW i \in 1..k PROVE i \in 1..n /\ p[i] \in below
    <3>1. i \in 1..n /\ p[i] \in 1..n /\ o[i] <= o[k] /\ o[i] = v[p[i]]
      BY <1>1, <1>2, <1>3
    <3>2. o[i] \in Int /\ o[k] \in Int
      BY <1>3, <3>1
    <3>. QED BY <1>5, <3>1, <3>2
  <2>2. f \in Injection(1..k, below)
    BY <1>2, <2>1 DEF Injection, IsInjective
  <2>3. Cardinality(1..k) = k
    BY FS_Interval
  <2>. HIDE DEF f, below
  <2>. QED BY <1>4, <2>2, <2>3, FS_Injection
<1>6. ASSUME 100 * o[k] >= t PROVE Cardinality(above) >= n - k + 1
  <2>. DEFINE f == [i \in k..n |-> p[i]]
  <2>1. ASSUME NEW i \in k..n PROVE i \in 1..n /\ p[i] \in above
    <3>1. i \in 1..n /\ p[i] \in 1..n /\ o[k] <= o[i] /\ o[i] = v[p[i]]
      BY <1>1, <1>2, <1>3
    <3>2. o[i] \in Int /\ o[k] \in Int
      BY <1>3, <3>1
    <3>. QED BY <1>6, <3>1, <3>2
  <2>2. f \in Injection(k..n, above)
    BY <1>2, <2>1 DEF Injection, IsInjective
  <2>3. Cardinality(k..n) = n - k + 1
    BY FS_Interval
  <2>. HIDE DEF f, above
  <2>. QED BY <1>4, <2>2, <2>3, FS_Injection
<1>. QED BY <1>4, <1>5, <1>6 DEF o, Below, Above

-----------------------------------------------------------------------------
(* Percentiles                                                             *)

LEMMA TimesMonotonic ==
  ASSUME NEW a \in Nat, NEW b \in Nat, NEW c \in Nat, b <= c
  PROVE  a * b \in Nat /\ a * c \in Nat /\ a * b <= a * c
<1>1. a * (c - b) \in Nat /\ a * b \in Nat /\ a * c = a * b + a * (c - b)
  OBVIOUS
<1>. QED BY <1>1

\* Where percentile q of n values is looked up: between Lower and Upper, and
\* Rest hundredths after Lower.
At(n, q)    == (n - 1) * q
Lower(n, q) == At(n, q) \div 100
Upper(n, q) == Min({Lower(n, q) + 1, n - 1})
Rest(n, q)  == At(n, q) % 100

Positioned(n, q) ==
  /\ At(n, q) \in Nat
  /\ Rest(n, q) \in Nat /\ Rest(n, q) < 100
  /\ At(n, q) = 100 * Lower(n, q) + Rest(n, q)
  /\ Lower(n, q) + 1 \in 1..n /\ Upper(n, q) + 1 \in 1..n
  /\ Lower(n, q) \in Int /\ Upper(n, q) \in Int
  /\ Lower(n, q) <= Upper(n, q)
  /\ Upper(n, q) <= Lower(n, q) + 1
  /\ Rest(n, q) > 0 => Upper(n, q) = Lower(n, q) + 1

LEMMA Position ==
  ASSUME NEW n \in Nat \ {0}, NEW q \in 0..100
  PROVE  Positioned(n, q)
<1>1. At(n, q) \in Nat /\ At(n, q) <= 100 * (n - 1)
  <2>1. n - 1 \in Nat /\ q \in Nat /\ 100 \in Nat /\ q <= 100 /\ (n - 1) * 100 = 100 * (n - 1)
    OBVIOUS
  <2>2. At(n, q) \in Nat /\ At(n, q) <= (n - 1) * 100
    BY <2>1, TimesMonotonic, Zenon DEF At
  <2>. QED BY <2>1, <2>2
<1>2. /\ Rest(n, q) \in 0..99 /\ Lower(n, q) \in Int
      /\ At(n, q) = 100 * Lower(n, q) + Rest(n, q)
  BY <1>1 DEF Rest, Lower
<1>3. Lower(n, q) \in 0..n-1
  BY <1>1, <1>2
<1>4. Upper(n, q) = IF Lower(n, q) < n - 1 THEN Lower(n, q) + 1 ELSE n - 1
  BY <1>2 DEF Min, Upper
<1>. QED BY <1>1, <1>2, <1>3, <1>4 DEF Positioned

\* A percentile lies between the two values it is looked up at, and is the
\* first of them if there is no rest.
First(v, n, q)  == Ascending(v)[Lower(n, q) + 1]
Second(v, n, q) == Ascending(v)[Upper(n, q) + 1]

Interpolated(v, n, q) ==
  /\ Percentile(v, q) \in Int /\ First(v, n, q) \in Int
  /\ Second(v, n, q) - First(v, n, q) \in Nat
  /\ Percentile(v, q)
       = 100 * First(v, n, q) + (Second(v, n, q) - First(v, n, q)) * Rest(n, q)
  /\ 100 * First(v, n, q) <= Percentile(v, q)
  /\ Percentile(v, q) <= 100 * Second(v, n, q)
  /\ Rest(n, q) = 0 => Percentile(v, q) = 100 * First(v, n, q)

LEMMA Between ==
  ASSUME NEW n \in Nat \ {0}, NEW v \in [1..n -> Int], NEW q \in 0..100
  PROVE  Interpolated(v, n, q)
<1>. DEFINE o == Ascending(v)
<1>0. Positioned(n, q)
  BY Position
<1>1. PICK l \in 1..n : l = Lower(n, q) + 1
  BY <1>0 DEF Positioned
<1>2. PICK u \in 1..n : u = Upper(n, q) + 1 /\ l <= u
  BY <1>0, <1>1 DEF Positioned
<1>3. o \in [1..n -> Int] /\ \A i, j \in 1..n : i <= j => o[i] <= o[j]
  BY AscendingOrders DEF InOrder
<1>4. Len(o) = n
  BY <1>3, LenProperties, o \in Seq(Int)
<1>5. Percentile(v, q) = 100 * o[l] + (o[u] - o[l]) * Rest(n, q)
  BY <1>1, <1>2, <1>4 DEF Percentile, At, Lower, Upper, Rest
<1>. HIDE DEF o
<1>6. o[l] \in Int /\ o[u] \in Int /\ o[l] <= o[u]
  BY <1>1, <1>2, <1>3
<1>7. PICK d \in Nat : d = o[u] - o[l]
  BY <1>6
<1>8. PICK e \in Nat : e = d * Rest(n, q) /\ e <= 100 * d /\ (Rest(n, q) = 0 => e = 0)
  <2>1. d * Rest(n, q) \in Nat /\ d * Rest(n, q) <= d * 100
    <3>1. PICK g \in Nat : g = Rest(n, q) /\ g <= 100
      BY <1>0 DEF Positioned
    <3>2. d * g \in Nat /\ d * g <= d * 100
      BY <3>1, TimesMonotonic, 100 \in Nat, Zenon
    <3>. QED BY <3>1, <3>2, Zenon
  <2>2. d * 100 = 100 * d /\ d * 0 = 0
    OBVIOUS
  <2>. QED BY <2>1, <2>2
<1>9. Percentile(v, q) = 100 * o[l] + e
  BY <1>5, <1>7, <1>8
<1>10. First(v, n, q) = o[l] /\ Second(v, n, q) = o[u]
  BY <1>1, <1>2 DEF First, Second, o
<1>11. 100 * o[l] + e <= 100 * o[u]
  <2>1. 100 * o[u] = 100 * o[l] + 100 * d
    <3>1. PICK s \in Int, t \in Int : s = o[l] /\ t = o[u] /\ t = s + d
      BY <1>6, <1>7
    <3>2. 100 * t = 100 * s + 100 * d
      BY <3>1
    <3>. QED BY <3>1, <3>2, Zenon
  <2>. QED BY <1>6, <1>8, <2>1
<1>12. Second(v, n, q) - First(v, n, q) = d /\ First(v, n, q) \in Int
  BY <1>6, <1>7, <1>10
<1>13. Percentile(v, q) = 100 * First(v, n, q) + (Second(v, n, q) - First(v, n, q)) * Rest(n, q)
  BY <1>5, <1>10, Zenon
<1>14. /\ Percentile(v, q) \in Int
       /\ 100 * First(v, n, q) <= Percentile(v, q)
       /\ Percentile(v, q) <= 100 * Second(v, n, q)
       /\ Rest(n, q) = 0 => Percentile(v, q) = 100 * First(v, n, q)
  BY <1>6, <1>8, <1>9, <1>10, <1>11
<1>. QED BY <1>12, <1>13, <1>14, Zenon DEF Interpolated

\* How many values are on each side of the place of a percentile.
LEMMA RankArithmetic ==
  ASSUME NEW n \in Nat, NEW lower \in Int, NEW upper \in Int, NEW m \in Nat, m < 100,
         upper <= lower + 1,
         NEW below \in Nat, below >= lower + 1,
         NEW above \in Nat, above >= n - upper, m = 0 => above >= n - lower
  PROVE  /\ 100 * below > 100 * lower + m
         /\ 100 * above > 100 * (n - 1) - (100 * lower + m)
OBVIOUS

\* Of two places, the later has the later neighbour or the greater rest.
LEMMA PlaceArithmetic ==
  ASSUME NEW l \in Int, NEW m \in Nat, m < 100, NEW k \in Int, NEW o \in Nat, o < 100,
         100 * l + m <= 100 * k + o
  PROVE  l <= k /\ (l = k => m <= o)
OBVIOUS

\* The percentile is a rank: of n values, more than q hundredths of n - 1 are
\* at most the percentile, and more than the rest of them at least.
LEMMA PercentileIsRank ==
  ASSUME NEW n \in Nat \ {0}, NEW v \in [1..n -> Int], NEW q \in 0..100
  PROVE  /\ 100 * Below(v, n, Percentile(v, q)) > (n - 1) * q
         /\ 100 * Above(v, n, Percentile(v, q)) > (n - 1) * (100 - q)
<1>0. Positioned(n, q) /\ Interpolated(v, n, q)
  BY Position, Between
<1>1. PICK l \in 1..n : l = Lower(n, q) + 1
  BY <1>0 DEF Positioned
<1>2. PICK u \in 1..n : u = Upper(n, q) + 1
  BY <1>0 DEF Positioned
<1>3. PICK p \in Int : p = Percentile(v, q)
  BY <1>0 DEF Interpolated
<1>4. /\ 100 * Ascending(v)[l] <= p /\ 100 * Ascending(v)[u] >= p
      /\ Rest(n, q) = 0 => 100 * Ascending(v)[l] >= p
  BY <1>0, <1>1, <1>2, <1>3 DEF Interpolated, First, Second
<1>5. /\ Below(v, n, p) \in Nat /\ Above(v, n, p) \in Nat
      /\ Below(v, n, p) >= l /\ Above(v, n, p) >= n - u + 1
      /\ Rest(n, q) = 0 => Above(v, n, p) >= n - l + 1
  BY <1>4, Ranks
<1>6. 100 * Below(v, n, p) > At(n, q) /\ 100 * Above(v, n, p) > 100 * (n - 1) - At(n, q)
  <2>1. /\ Lower(n, q) \in Int /\ Upper(n, q) \in Int /\ Rest(n, q) \in Nat
        /\ Rest(n, q) < 100 /\ Upper(n, q) <= Lower(n, q) + 1
        /\ At(n, q) = 100 * Lower(n, q) + Rest(n, q)
    BY <1>0 DEF Positioned
  <2>2. /\ Below(v, n, p) >= Lower(n, q) + 1 /\ Above(v, n, p) >= n - Upper(n, q)
        /\ Rest(n, q) = 0 => Above(v, n, p) >= n - Lower(n, q)
    <3>1. n - u + 1 = n - Upper(n, q) /\ n - l + 1 = n - Lower(n, q)
      <4>1. Lower(n, q) \in Int /\ Upper(n, q) \in Int
        BY <2>1
      <4>. QED BY <1>1, <1>2, <4>1
    <3>. QED BY <1>1, <1>5, <3>1, Zenon
  <2>3. /\ 100 * Below(v, n, p) > 100 * Lower(n, q) + Rest(n, q)
        /\ 100 * Above(v, n, p) > 100 * (n - 1) - (100 * Lower(n, q) + Rest(n, q))
    BY <1>5, <2>1, <2>2, RankArithmetic, n \in Nat, Zenon
  <2>. QED BY <2>1, <2>3, Zenon
<1>7. (n - 1) * (100 - q) = 100 * (n - 1) - At(n, q)
  BY DEF At
<1>. QED BY <1>3, <1>6, <1>7 DEF At

\* A higher percentile is not smaller.
LEMMA PercentileMonotonic ==
  ASSUME NEW n \in Nat \ {0}, NEW v \in [1..n -> Int], NEW q \in 0..100, NEW r \in 0..100,
         q <= r
  PROVE  Percentile(v, q) <= Percentile(v, r)
<1>0. /\ Positioned(n, q) /\ Interpolated(v, n, q)
      /\ Positioned(n, r) /\ Interpolated(v, n, r)
  BY Position, Between
<1>1. At(n, q) <= At(n, r)
  <2>1. n - 1 \in Nat /\ q \in Nat /\ r \in Nat
    OBVIOUS
  <2>. QED BY <2>1, TimesMonotonic, Zenon DEF At
<1>2. /\ Lower(n, q) <= Lower(n, r)
      /\ Lower(n, q) = Lower(n, r) => Rest(n, q) <= Rest(n, r)
  <2>1. /\ Lower(n, q) \in Int /\ Rest(n, q) \in Nat /\ Rest(n, q) < 100
        /\ Lower(n, r) \in Int /\ Rest(n, r) \in Nat /\ Rest(n, r) < 100
        /\ At(n, q) = 100 * Lower(n, q) + Rest(n, q)
        /\ At(n, r) = 100 * Lower(n, r) + Rest(n, r)
    BY <1>0 DEF Positioned
  <2>2. 100 * Lower(n, q) + Rest(n, q) <= 100 * Lower(n, r) + Rest(n, r)
    BY <1>1, <2>1, Zenon
  <2>. QED BY <2>1, <2>2, PlaceArithmetic, Zenon
<1>3. CASE Lower(n, q) = Lower(n, r)
  <2>1. Rest(n, q) <= Rest(n, r) /\ Upper(n, q) = Upper(n, r)
    BY <1>2, <1>3 DEF Upper
  <2>2. First(v, n, q) = First(v, n, r) /\ Second(v, n, q) = Second(v, n, r)
    BY <1>3, <2>1 DEF First, Second
  <2>3. PICK d \in Nat : d = Second(v, n, q) - First(v, n, q)
    BY <1>0 DEF Interpolated
  <2>4. d * Rest(n, q) <= d * Rest(n, r) /\ d * Rest(n, q) \in Nat /\ d * Rest(n, r) \in Nat
    BY <1>0, <2>1, TimesMonotonic DEF Positioned
  <2>5. /\ Percentile(v, q) = 100 * First(v, n, q) + d * Rest(n, q)
        /\ Percentile(v, r) = 100 * First(v, n, q) + d * Rest(n, r)
        /\ First(v, n, q) \in Int
    BY <1>0, <2>2, <2>3 DEF Interpolated
  <2>. QED BY <2>4, <2>5
<1>4. CASE Lower(n, q) < Lower(n, r)
  <2>1. PICK u \in 1..n : u = Upper(n, q) + 1
    BY <1>0 DEF Positioned
  <2>2. PICK l \in 1..n : l = Lower(n, r) + 1
    BY <1>0 DEF Positioned
  <2>3. u <= l
    <3>1. /\ Lower(n, q) \in Int /\ Lower(n, r) \in Int /\ Upper(n, q) \in Int
          /\ Upper(n, q) <= Lower(n, q) + 1
      BY <1>0 DEF Positioned
    <3>. QED BY <1>4, <2>1, <2>2, <3>1
  <2>4. Second(v, n, q) <= First(v, n, r)
    BY <2>1, <2>2, <2>3, AscendingOrders DEF First, Second, InOrder
  <2>5. Second(v, n, q) \in Int /\ First(v, n, r) \in Int
    BY <2>1, <2>2, AscendingOrders DEF First, Second
  <2>. QED BY <1>0, <2>4, <2>5 DEF Interpolated
<1>. QED BY <1>0, <1>2, <1>3, <1>4 DEF Positioned

-----------------------------------------------------------------------------
(* The invariant                                                           *)

USE LoadAssumption

Errors   == {"none", "server_busy", "http_429", "connection_error", "request_timeout"}
Outcomes == [status : {0, 200, 429}, error : Errors, chunks : 0..MaxChunks,
             usage : {0, MaxChunks}]

Typed ==
  /\ runner \in Runners
  /\ main \in {"submitting", "collecting", "leaving", "reporting", "written",
               "unwritten", "failed"}
  /\ submitted \in 0..Count /\ collected \in 0..submitted
  /\ queue \in Seq(Requests) /\ Len(queue) <= submitted
  /\ at \in [Requests -> {"unsent", "opening", "refused", "reading", "returned", "raised"}]
  /\ result \in [Requests -> Outcomes]
  /\ met \in [Requests -> Fates]

\* The queue holds the last requests submitted, and those it holds or does not
\* hold yet are unsent.
Ordered ==
  /\ \A i \in 1..Len(queue) : queue[i] = submitted - Len(queue) + i
  /\ \A r \in Requests : r > submitted - Len(queue) => at[r] = "unsent"

\* A request has raised exactly if what it met is caught by nobody, and a stream
\* that came to its end has returned.
Sorted == \A r \in Requests :
  /\ at[r] = "raised" <=> Uncaught(r)
  /\ r \in EndedStreams => at[r] = "returned"

\* The main thread leaves the pool with all the results, or because the next
\* one is an error.
Reasons ==
  /\ main = "submitting" <=> submitted < Count
  /\ main = "collecting" => collected < Count
  /\ main \in {"leaving", "failed"} /\ collected < Count => at[collected + 1] = "raised"
  /\ main = "failed" => collected < Count
  /\ main \in {"reporting", "written", "unwritten"} => collected = Count

\* What was collected has returned.
Collected == \A r \in 1..collected : at[r] = "returned"

PoolKept == Cardinality(Running) <= Concurrency

IInv == Typed /\ Ordered /\ Sorted /\ Reasons /\ Collected /\ PoolKept

LEMMA CountType == runner \in Runners => Count \in 1..NumRequests
BY DEF Count

LEMMA InvariantGives == IInv => TypeOK /\ OnlyUncaughtErrorsCostTheReport
<1>. SUFFICES ASSUME IInv PROVE TypeOK /\ OnlyUncaughtErrorsCostTheReport
  OBVIOUS
<1>. USE DEF IInv
<1>0. Count \in 1..NumRequests
  BY CountType DEF Typed
<1>1. \A r \in Requests : at[r] # "unsent" => r \in 1..Count
  <2>1. Len(queue) \in Nat
    BY LenProperties DEF Typed
  <2>. QED BY <1>0, <2>1 DEF Typed, Ordered, Requests
<1>3. \A r \in Requests : result[r].chunks \in 0..MaxChunks /\ result[r].usage \in {0, MaxChunks}
  BY DEF Typed, Outcomes
<1>4. TypeOK
  <2>1. DOMAIN queue = 1..Len(queue)
    BY LenProperties DEF Typed
  <2>. QED BY <1>3, <2>1 DEF TypeOK, Typed, Ordered, PoolKept
<1>5. OnlyUncaughtErrorsCostTheReport
  <2>1. \A r \in 1..Count : r \in Requests
    BY <1>0 DEF Requests
  <2>2. ASSUME main = "failed"
        PROVE  collected + 1 \in 1..Count /\ at[collected + 1] = "raised"
    BY <1>0, <2>2 DEF Reasons, Typed
  <2>3. ASSUME main = "failed"
        PROVE  \E r \in 1..Count : Uncaught(r)
    BY <2>1, <2>2, <2>3 DEF Sorted
  <2>4. ASSUME main \in {"reporting", "written", "unwritten"}, NEW r \in 1..Count
        PROVE  ~ Uncaught(r)
    <3>1. at[r] = "returned"
      BY <2>4 DEF Reasons, Collected
    <3>. QED BY <2>1, <3>1 DEF Sorted
  <2>. QED BY <2>3, <2>4 DEF OnlyUncaughtErrorsCostTheReport
<1>. QED BY <1>4, <1>5

LEMMA InitHolds == Init => IInv
<1>. SUFFICES ASSUME Init PROVE IInv
  OBVIOUS
<1>0. Count \in 1..NumRequests
  BY CountType DEF Init
<1>1. Typed
  <2>1. [status |-> 200, error |-> "none", chunks |-> 0, usage |-> 0] \in Outcomes
    BY DEF Outcomes, Errors
  <2>2. result \in [Requests -> Outcomes]
    BY <2>1 DEF Init
  <2>3. queue \in Seq(Requests) /\ Len(queue) = 0
    BY EmptySeq DEF Init
  <2>4. met \in [Requests -> Fates]
    BY DEF Init, Fates
  <2>. QED BY <1>0, <2>2, <2>3, <2>4 DEF Init, Typed
<1>2. PoolKept
  <2>1. Running = {}
    BY DEF Init, Running
  <2>. QED BY <2>1, FS_EmptySet DEF PoolKept
<1>3. Ordered /\ Sorted /\ Reasons /\ Collected
  BY <1>0, EmptySeq DEF Init, Ordered, Sorted, Uncaught, EndedStreams, Reasons, Collected
<1>. QED BY <1>1, <1>2, <1>3 DEF IInv

-----------------------------------------------------------------------------
(* The requests                                                            *)

LEMMA RunningFinite == IsFiniteSet(Running) /\ IsFiniteSet(Running')
<1>1. IsFiniteSet(Requests)
  BY FS_Interval DEF Requests
<1>. QED BY <1>1, FS_Subset DEF Running

LEMMA CollectedAreSent == Typed => \A r \in 1..collected : r \in Requests
<1>. SUFFICES ASSUME Typed PROVE \A r \in 1..collected : r \in Requests
  OBVIOUS
<1>1. Count \in 1..NumRequests
  BY CountType DEF Typed
<1>. QED BY <1>1 DEF Typed, Requests

\* A step of a request moves it and tells what it met.
Moves(r, l, fate) ==
  /\ at' = [at EXCEPT ![r] = l] /\ met' = [met EXCEPT ![r] = fate]
  /\ l = "raised" <=> Uncaught(r)'
  /\ fate = "end of stream" => l = "returned"

Going == {"opening", "refused", "reading", "returned", "raised"}
Moved(r) == \E l \in Going, fate \in Fates : Moves(r, l, fate)

LEMMA RaisesMoves ==
  ASSUME Typed, NEW r \in Requests, NEW fate, Raises(r, fate),
         \/ fate \in {"fault", "silence in a refusal"}
         \/ runner = "failure" /\ fate \in {"refusal", "no connection", "silence"}
  PROVE  Moved(r)
<1>1. met'[r] = fate /\ runner' = runner
  BY DEF Raises, Meets, Typed
<1>2. Moves(r, "raised", fate)
  BY <1>1 DEF Raises, Meets, Goto, Moves, Uncaught
<1>3. fate \in Fates /\ "raised" \in Going
  BY DEF Fates, Going
<1>. QED BY <1>2, <1>3, Zenon DEF Moved

LEMMA FailsMoves ==
  ASSUME Typed, NEW r \in Requests, NEW s, NEW e,
         NEW fate \in {"refusal", "no connection", "silence"}, Fails(r, s, e, fate)
  PROVE  Moved(r)
<1>1. CASE runner = "failure"
  BY <1>1, RaisesMoves DEF Fails
<1>2. CASE runner # "failure"
  <2>1. met'[r] = fate /\ runner' = runner
    BY <1>2 DEF Fails, Meets, Typed
  <2>2. Moves(r, "returned", fate)
    BY <1>2, <2>1 DEF Fails, Meets, Goto, Moves, Uncaught
  <2>3. fate \in Fates /\ "returned" \in Going
    BY DEF Fates, Going
  <2>. QED BY <2>2, <2>3, Zenon DEF Moved
<1>. QED BY <1>1, <1>2

LEMMA RequestMoves ==
  ASSUME IInv, NEW r \in Requests, Request(r)
  PROVE  /\ r \in Running
         /\ UNCHANGED <<runner, main, queue, submitted, collected, report>>
         /\ Moved(r)
<1>. USE DEF IInv
<1>1. r \in Running
  BY DEF Request, Open, ReadErrorCode, Event, Finish, TimesOut, Break, Running
<1>2. UNCHANGED <<runner, main, queue, submitted, collected, report>>
  BY DEF Request, Open, ReadErrorCode, Event, Finish, TimesOut, Break, Fails, Raises, Meets
<1>. SUFFICES Moved(r)
  BY <1>1, <1>2
<1>3. ~ Uncaught(r) /\ r \notin EndedStreams
  BY <1>1 DEF Sorted, Running
<1>4. ASSUME UNCHANGED <<runner, met>>, NEW l \in {"opening", "refused", "reading", "returned"},
             Goto(r, l)
      PROVE  Moved(r)
  <2>1. met[r] \in Fates /\ met' = [met EXCEPT ![r] = met[r]] /\ met[r] # "end of stream"
    BY <1>3, <1>4 DEF Typed, EndedStreams
  <2>2. ~ Uncaught(r)'
    BY <1>3, <1>4 DEF Uncaught
  <2>3. Moves(r, l, met[r]) /\ l \in Going
    BY <1>4, <2>1, <2>2 DEF Moves, Goto, Going
  <2>. QED BY <2>1, <2>3, Zenon DEF Moved
<1>5. CASE Open(r)
  <2>1. CASE (Goto(r, "reading") \/ Goto(r, "refused")) /\ UNCHANGED met
    <3>1. UNCHANGED <<runner, met>>
      BY <1>2, <2>1
    <3>2. CASE Goto(r, "reading")
      <4>1. "reading" \in {"opening", "refused", "reading", "returned"}
        OBVIOUS
      <4>. QED BY <1>4, <3>1, <3>2, <4>1
    <3>3. CASE Goto(r, "refused")
      <4>1. "refused" \in {"opening", "refused", "reading", "returned"}
        OBVIOUS
      <4>. QED BY <1>4, <3>1, <3>3, <4>1
    <3>. QED BY <2>1, <3>2, <3>3
  <2>2. CASE runner = "failure" /\ Raises(r, "refusal")
    BY <2>2, RaisesMoves
  <2>3. CASE Fails(r, 0, "connection_error", "no connection")
    <3>1. "no connection" \in {"refusal", "no connection", "silence"}
      OBVIOUS
    <3>. QED BY <2>3, <3>1, FailsMoves
  <2>. QED BY <1>5, <2>1, <2>2, <2>3 DEF Open
<1>6. CASE ReadErrorCode(r)
  <2>1. PICK error \in {"server_busy", "http_429"} : Fails(r, 429, error, "refusal")
    BY <1>6 DEF ReadErrorCode
  <2>2. "refusal" \in {"refusal", "no connection", "silence"}
    OBVIOUS
  <2>. QED BY <2>1, <2>2, FailsMoves
<1>7. CASE Event(r)
  <2>1. UNCHANGED <<runner, met>> /\ (Goto(r, "returned") \/ UNCHANGED at)
    BY <1>7 DEF Event
  <2>2. UNCHANGED at => Goto(r, "reading")
    BY <1>7 DEF Event, Goto, Typed
  <2>3. /\ "reading" \in {"opening", "refused", "reading", "returned"}
        /\ "returned" \in {"opening", "refused", "reading", "returned"}
    OBVIOUS
  <2>. QED BY <1>4, <2>1, <2>2, <2>3
<1>8. CASE Finish(r)
  <2>1. met'[r] = "end of stream" /\ ~ Uncaught(r)'
    BY <1>8 DEF Finish, Meets, Typed, Uncaught
  <2>2. Moves(r, "returned", "end of stream")
    BY <1>8, <2>1 DEF Finish, Meets, Goto, Moves
  <2>3. "returned" \in Going /\ "end of stream" \in Fates
    BY DEF Going, Fates
  <2>. QED BY <2>2, <2>3, Zenon DEF Moved
<1>9. CASE TimesOut(r)
  <2>1. CASE Raises(r, "silence in a refusal")
    BY <2>1, RaisesMoves
  <2>2. CASE Fails(r, 0, TimedOut, "silence")
    <3>1. "silence" \in {"refusal", "no connection", "silence"}
      OBVIOUS
    <3>. QED BY <2>2, <3>1, FailsMoves
  <2>. QED BY <1>9, <2>1, <2>2 DEF TimesOut
<1>10. CASE Break(r)
  <2>1. Raises(r, "fault")
    BY <1>10 DEF Break
  <2>. QED BY <2>1, RaisesMoves
<1>. QED BY <1>5, <1>6, <1>7, <1>8, <1>9, <1>10 DEF Request

\* A request under way goes on or ends: the pool gets no fuller.
LEMMA RequestKeeps ==
  ASSUME IInv, NEW r \in Requests, Request(r)
  PROVE  IInv'
<1>. USE DEF IInv
<1>0. r \in Running /\ UNCHANGED <<runner, main, queue, submitted, collected, report>>
  BY RequestMoves
<1>1. PICK l \in Going, fate \in Fates : Moves(r, l, fate)
  BY RequestMoves, Zenon DEF Moved
<1>9. at' = [at EXCEPT ![r] = l] /\ met' = [met EXCEPT ![r] = fate]
  BY <1>1 DEF Moves
<1>2. result' \in [Requests -> Outcomes]
  <2>0. result \in [Requests -> Outcomes] /\ result[r] \in Outcomes
    BY DEF Typed
  <2>1. ASSUME NEW s \in {0, 429}, NEW e \in Errors, NEW f, Fails(r, s, e, f)
        PROVE  result' \in [Requests -> Outcomes]
    <3>1. [result[r] EXCEPT !.status = s, !.error = e] \in Outcomes
      BY <2>0 DEF Outcomes
    <3>2. \/ result' = [result EXCEPT ![r] = [result[r] EXCEPT !.status = s, !.error = e]]
          \/ result' = result
      BY <2>1 DEF Fails, Raises
    <3>. QED BY <2>0, <3>1, <3>2
  <2>2. CASE Open(r) \/ ReadErrorCode(r)
    BY <2>0, <2>1, <2>2 DEF Open, ReadErrorCode, Raises, Errors
  <2>3. CASE Event(r)
    <3>1. /\ result[r].chunks < MaxChunks => [result[r] EXCEPT !.chunks = @ + 1] \in Outcomes
          /\ [result[r] EXCEPT !.usage = MaxChunks] \in Outcomes
      BY <2>0 DEF Outcomes
    <3>2. \/ /\ result[r].chunks < MaxChunks
             /\ result' = [result EXCEPT ![r] = [result[r] EXCEPT !.chunks = @ + 1]]
          \/ result' = [result EXCEPT ![r] = [result[r] EXCEPT !.usage = MaxChunks]]
      BY <2>3 DEF Event
    <3>. QED BY <2>0, <3>1, <3>2
  <2>4. CASE TimesOut(r)
    BY <2>0, <2>1, <2>4 DEF TimesOut, TimedOut, Raises, Errors
  <2>5. CASE Finish(r) \/ Break(r)
    BY <2>0, <2>5 DEF Finish, Break, Raises
  <2>. QED BY <2>2, <2>3, <2>4, <2>5 DEF Request
<1>3. Typed' /\ Count' = Count
  BY <1>0, <1>2, <1>9 DEF Typed, Count, Going
<1>4. Ordered'
  BY <1>0, <1>9 DEF Ordered, Running, Typed
<1>5. Sorted'
  <2>1. ASSUME NEW q \in Requests \ {r}
        PROVE  at'[q] = at[q] /\ met'[q] = met[q]
    BY <1>9 DEF Typed
  <2>2. ASSUME NEW q \in Requests \ {r}
        PROVE  /\ at'[q] = "raised" <=> Uncaught(q)'
               /\ q \in EndedStreams' => at'[q] = "returned"
    BY <1>0, <2>1 DEF Sorted, Uncaught, EndedStreams
  <2>3. at'[r] = l /\ met'[r] = fate
    BY <1>9 DEF Typed
  <2>4. /\ at'[r] = "raised" <=> Uncaught(r)'
        /\ r \in EndedStreams' => at'[r] = "returned"
    BY <1>1, <2>3 DEF Moves, EndedStreams
  <2>. QED BY <2>2, <2>4 DEF Sorted
<1>6. Reasons'
  BY <1>0, <1>3, <1>9 DEF Reasons, Running, Typed
<1>8. Collected'
  BY <1>0, <1>9, CollectedAreSent DEF Collected, Running, Typed
<1>7. PoolKept'
  <2>1. Running' \in SUBSET Running
    BY <1>0, <1>9 DEF Running, Typed
  <2>2. Cardinality(Running') <= Cardinality(Running)
    BY <2>1, RunningFinite, FS_Subset
  <2>3. Cardinality(Running') \in Int /\ Cardinality(Running) \in Int
    BY RunningFinite, FS_CardinalityType
  <2>. QED BY <2>2, <2>3 DEF PoolKept
<1>. QED BY <1>3, <1>4, <1>5, <1>6, <1>7, <1>8

LEMMA TakeKeeps ==
  ASSUME IInv, Take
  PROVE  IInv'
<1>. USE DEF IInv, Goto
<1>. DEFINE r == Head(queue)
<1>0. /\ queue # <<>> /\ queue \in Seq(Requests) /\ Len(queue) \in Nat \ {0}
      /\ queue' = Tail(queue) /\ at' = [at EXCEPT ![r] = "opening"]
      /\ Cardinality(Running) < Concurrency
      /\ UNCHANGED <<runner, main, submitted, collected, result, met, report>>
  BY EmptySeq DEF Take, TakeAtOnce, Typed
<1>1. r \in Requests /\ r = submitted - Len(queue) + 1
  BY <1>0, HeadTailProperties DEF Ordered
<1>2. /\ Tail(queue) \in Seq(Requests) /\ Len(Tail(queue)) = Len(queue) - 1
      /\ \A i \in 1..Len(Tail(queue)) : Tail(queue)[i] = queue[i + 1]
  BY <1>0, HeadTailProperties
<1>. HIDE DEF r
<1>3. Typed' /\ Count' = Count
  BY <1>0, <1>1, <1>2 DEF Typed, Count
<1>4. Ordered'
  <2>1. \A i \in 1..Len(queue') : queue'[i] = submitted' - Len(queue') + i
    BY <1>0, <1>2 DEF Ordered, Typed
  <2>2. \A q \in Requests : q > submitted' - Len(queue') => at'[q] = "unsent"
    BY <1>0, <1>1, <1>2 DEF Ordered, Typed, Requests
  <2>. QED BY <2>1, <2>2 DEF Ordered
<1>5. at[r] = "unsent"
  BY <1>0, <1>1 DEF Ordered, Typed
<1>6. Sorted' /\ Collected'
  BY <1>0, <1>1, <1>5, CollectedAreSent DEF Sorted, Uncaught, EndedStreams, Collected, Typed
<1>7. Reasons'
  BY <1>0, <1>1, <1>3, <1>5 DEF Reasons, Typed
<1>8. PoolKept'
  <2>1. Running' = Running \cup {r}
    BY <1>0, <1>1 DEF Running, Typed
  <2>2. Cardinality(Running \cup {r})
          = IF r \in Running THEN Cardinality(Running) ELSE Cardinality(Running) + 1
    BY RunningFinite, FS_AddElement, Zenon
  <2>3. Cardinality(Running) \in Int
    BY RunningFinite, FS_CardinalityType
  <2>. QED BY <1>0, <2>1, <2>2, <2>3 DEF PoolKept
<1>. QED BY <1>3, <1>4, <1>6, <1>7, <1>8

-----------------------------------------------------------------------------
(* The main thread                                                         *)

LEMMA SubmitKeeps ==
  ASSUME IInv, Submit
  PROVE  IInv'
<1>. USE DEF IInv
<1>0. /\ main = "submitting" /\ submitted' = submitted + 1
      /\ queue' = Append(queue, submitted + 1)
      /\ main' = IF submitted + 1 = Count THEN "collecting" ELSE "submitting"
      /\ UNCHANGED <<runner, collected, at, result, met, report>>
  BY DEF Submit
<1>1. submitted + 1 \in Requests /\ submitted + 1 <= Count /\ Count \in 1..NumRequests
  BY <1>0, CountType DEF Typed, Reasons, Requests
<1>2. /\ queue' \in Seq(Requests) /\ Len(queue') = Len(queue) + 1 /\ Len(queue) \in Nat
      /\ \A i \in 1..Len(queue) : queue'[i] = queue[i]
      /\ queue'[Len(queue) + 1] = submitted + 1
  BY <1>0, <1>1, AppendProperties DEF Typed
<1>3. Typed' /\ Count' = Count
  BY <1>0, <1>1, <1>2 DEF Typed, Count
<1>4. Ordered'
  <2>1. ASSUME NEW i \in 1..Len(queue')
        PROVE  queue'[i] = submitted' - Len(queue') + i
    <3>1. i \in 1..Len(queue) \/ i = Len(queue) + 1
      BY <1>2
    <3>. QED BY <1>0, <1>2, <3>1 DEF Ordered, Typed
  <2>. QED BY <1>0, <1>2, <2>1 DEF Ordered, Typed
<1>5. Sorted' /\ PoolKept' /\ Collected'
  BY <1>0 DEF Sorted, Uncaught, EndedStreams, PoolKept, Running, Collected
<1>6. Reasons'
  BY <1>0, <1>1, <1>3 DEF Reasons, Typed
<1>. QED BY <1>3, <1>4, <1>5, <1>6

LEMMA CollectKeeps ==
  ASSUME IInv, Collect \/ Leave \/ Write
  PROVE  IInv'
<1>. USE DEF IInv
<1>0. UNCHANGED <<runner, queue, submitted, at, result, met>>
  BY DEF Collect, Leave, Write
<1>1. Count' = Count /\ Count \in 1..NumRequests
  BY <1>0, CountType DEF Count, Typed
<1>2. Ordered' /\ Sorted' /\ PoolKept'
  BY <1>0 DEF Ordered, Sorted, Uncaught, EndedStreams, PoolKept, Running
<1>3. CASE Collect
  <2>1. submitted = Count /\ collected < Count
    BY <1>1, <1>3 DEF Collect, Reasons, Typed
  <2>2. collected + 1 \in Requests /\ at[collected + 1] \in {"returned", "raised"}
    BY <1>1, <1>3, <2>1 DEF Collect, Ended, Typed, Requests
  <2>3. \/ /\ at[collected + 1] = "returned" /\ collected' = collected + 1
           /\ main' = IF collected + 1 = Count THEN "leaving" ELSE "collecting"
        \/ at[collected + 1] = "raised" /\ collected' = collected /\ main' = "leaving"
    BY <1>3, <2>2 DEF Collect
  <2>4. Typed'
    BY <1>0, <1>1, <2>1, <2>3 DEF Typed
  <2>5. Reasons'
    BY <1>0, <1>1, <2>1, <2>3 DEF Typed, Reasons
  <2>6. Collected'
    BY <1>0, <1>1, <2>1, <2>3 DEF Typed, Collected
  <2>. QED BY <1>2, <2>4, <2>5, <2>6
<1>4. CASE Leave \/ Write
  <2>1. /\ collected' = collected
        /\ \/ main = "leaving" /\ collected = Count /\ main' = "reporting"
           \/ main = "leaving" /\ collected # Count /\ main' = "failed"
           \/ main = "reporting" /\ main' \in {"written", "unwritten"}
    <3>1. CASE Leave
      BY <3>1 DEF Leave
    <3>2. CASE Write
      BY <3>2 DEF Write
    <3>. QED BY <1>4, <3>1, <3>2
  <2>2. Typed'
    BY <1>0, <1>1, <2>1 DEF Typed
  <2>3. Reasons' /\ Collected'
    BY <1>0, <1>1, <2>1 DEF Typed, Reasons, Collected
  <2>. QED BY <1>2, <2>2, <2>3
<1>. QED BY <1>3, <1>4

LEMMA StepKeeps == IInv /\ [Next]_vars => IInv'
<1>. SUFFICES ASSUME IInv, [Next]_vars PROVE IInv'
  OBVIOUS
<1>1. CASE UNCHANGED vars
  BY <1>1 DEF vars, IInv, Typed, Ordered, Sorted, Uncaught, EndedStreams, Reasons, Collected,
              PoolKept, Running, Count
<1>. QED BY <1>1, RequestKeeps, TakeKeeps, SubmitKeeps, CollectKeeps DEF Next, Main

LEMMA Inductive == Spec => []IInv
BY InitHolds, StepKeeps, PTL DEF Spec

-----------------------------------------------------------------------------
(* What the report tells                                                   *)

\* A request that is under way or over without an error has told of none, and
\* a reply to a measurement counts as successful exactly if its stream came to an
\* end.
Telling == \A r \in Requests :
  /\ ~ Ended(r) => result[r].status = 200
  /\ at[r] = "returned" /\ runner # "failure" => (r \in EndedStreams <=> result[r].status = 200)

\* What was written still describes the results.
Reported == main = "written" /\ runner # "failure" =>
  \E latencies \in [1..Cardinality(Successful(Results)) -> 0..MaxLatency] :
    report = BuildReport(Results, latencies)

Accounted == Telling /\ Reported

LEMMA SentIsCounted ==
  ASSUME IInv
  PROVE  /\ Count \in 1..NumRequests /\ collected \in 0..Count
         /\ \A r \in Requests : at[r] # "unsent" => r \in 1..Count
         /\ \A r \in 1..collected : r \in Requests
<1>0. Count \in 1..NumRequests
  BY CountType DEF IInv, Typed
<1>1. Len(queue) \in Nat
  BY LenProperties DEF IInv, Typed
<1>2. collected \in 0..Count
  BY <1>0 DEF IInv, Typed
<1>3. \A r \in 1..collected : r \in Requests
  BY <1>0, <1>2 DEF Requests
<1>. QED BY <1>0, <1>1, <1>2, <1>3 DEF IInv, Typed, Ordered, Requests

LEMMA AccountedAtFirst == Init => Accounted
<1>. SUFFICES ASSUME Init PROVE Accounted
  OBVIOUS
<1>. QED BY DEF Init, Accounted, Telling, Reported, Ended

\* An error a request meets changes what it tells to that, or nothing.
LEMMA FailsTells ==
  ASSUME Typed, NEW r \in Requests, NEW s, NEW e, NEW f, f # "end of stream",
         Fails(r, s, e, f)
  PROVE  /\ Ended(r)' /\ r \notin EndedStreams'
         /\ runner # "failure" => result'[r].status = s
<1>0. result \in [Requests -> Outcomes] /\ result[r] \in Outcomes
  BY DEF Typed
<1>1. met'[r] = f /\ at'[r] \in {"returned", "raised"}
  <2>1. met' = [met EXCEPT ![r] = f] /\ (Goto(r, "raised") \/ Goto(r, "returned"))
    BY Zenon DEF Fails, Raises, Meets
  <2>. QED BY <2>1 DEF Typed, Goto
<1>2. [result[r] EXCEPT !.status = s, !.error = e].status = s
  BY <1>0 DEF Outcomes
<1>3. ASSUME runner # "failure"
      PROVE  result'[r] = [result[r] EXCEPT !.status = s, !.error = e]
  <2>1. result' = [result EXCEPT ![r] = [result[r] EXCEPT !.status = s, !.error = e]]
    BY <1>3 DEF Fails
  <2>. QED BY <1>0, <2>1
<1>4. r \notin EndedStreams' /\ Ended(r)'
  BY <1>1 DEF Ended, EndedStreams
<1>. QED BY <1>2, <1>3, <1>4

\* Before the report is made every request has returned: none goes on.
LEMMA RequestKeepsAccount ==
  ASSUME IInv, Accounted, NEW r \in Requests, Request(r)
  PROVE  Accounted'
<1>. USE DEF IInv, Accounted
<1>0. /\ r \in Running
      /\ UNCHANGED <<runner, main, queue, submitted, collected, report>>
  BY RequestMoves
<1>1. /\ at \in [Requests -> {"unsent", "opening", "refused", "reading", "returned", "raised"}]
      /\ result \in [Requests -> Outcomes] /\ met \in [Requests -> Fates]
  BY DEF Typed
<1>2. PICK l, fate : at' = [at EXCEPT ![r] = l] /\ met' = [met EXCEPT ![r] = fate]
  BY RequestMoves, Zenon DEF Moved, Moves
<1>3. PICK x : result' = [result EXCEPT ![r] = x]
  <2>1. ASSUME NEW s, NEW e, NEW f, Fails(r, s, e, f)
        PROVE  \E x : result' = [result EXCEPT ![r] = x]
    <3>1. result' = result => result' = [result EXCEPT ![r] = result[r]]
      BY <1>1
    <3>. QED BY <2>1, <3>1 DEF Fails, Raises
  <2>2. UNCHANGED result => result' = [result EXCEPT ![r] = result[r]]
    BY <1>1
  <2>3. Event(r) => \E x : result' = [result EXCEPT ![r] = x]
    <3>. SUFFICES ASSUME Event(r) PROVE \E x : result' = [result EXCEPT ![r] = x]
      OBVIOUS
    <3>1. CASE result' = [result EXCEPT ![r].chunks = @ + 1]
      BY <3>1
    <3>2. CASE result' = [result EXCEPT ![r].usage = MaxChunks]
      BY <3>2
    <3>. QED BY <3>1, <3>2 DEF Event
  <2>. QED BY <2>1, <2>2, <2>3 DEF Request, Open, ReadErrorCode, Finish, TimesOut, Break, Raises
<1>4. result[r].status = 200 /\ r \notin EndedStreams
  BY <1>0 DEF Telling, Running, Ended, Sorted
<1>5. Telling'
  <2>1. \A q \in Requests \ {r} : at'[q] = at[q] /\ result'[q] = result[q] /\ met'[q] = met[q]
    BY <1>1, <1>2, <1>3
  <2>3. ASSUME NEW q \in Requests \ {r}
        PROVE  /\ ~ Ended(q)' => result'[q].status = 200
               /\ at'[q] = "returned" /\ runner' # "failure"
                    => (q \in EndedStreams' <=> result'[q].status = 200)
    <3>1. at'[q] = at[q] /\ result'[q] = result[q] /\ met'[q] = met[q] /\ runner' = runner
      BY <1>0, <2>1
    <3>2. Ended(q)' <=> Ended(q)
      BY <3>1 DEF Ended
    <3>3. q \in EndedStreams' <=> q \in EndedStreams
      BY <3>1 DEF EndedStreams
    <3>4. /\ ~ Ended(q) => result[q].status = 200
          /\ at[q] = "returned" /\ runner # "failure"
               => (q \in EndedStreams <=> result[q].status = 200)
      BY Zenon DEF Telling
    <3>. QED BY <3>1, <3>2, <3>3, <3>4, Zenon
  <2>4. /\ ~ Ended(r)' => result'[r].status = 200
        /\ at'[r] = "returned" /\ runner' # "failure"
             => (r \in EndedStreams' <=> result'[r].status = 200)
    <3>1. ASSUME NEW f, Raises(r, f)
          PROVE  at'[r] = "raised"
      BY <1>1, <3>1 DEF Raises, Goto
    <3>2. CASE TimesOut(r)
      <4>1. CASE at[r] = "refused"
        BY <3>1, <3>2, <4>1 DEF TimesOut, Ended
      <4>2. CASE at[r] # "refused"
        <5>1. Fails(r, 0, TimedOut, "silence")
          BY <3>2, <4>2 DEF TimesOut
        <5>2. Ended(r)' /\ r \notin EndedStreams' /\ (runner # "failure" => result'[r].status = 0)
          BY <5>1, FailsTells
        <5>. QED BY <1>0, <5>2
      <4>. QED BY <4>1, <4>2
    <3>3. CASE Open(r)
      <4>1. CASE (Goto(r, "reading") \/ Goto(r, "refused")) /\ UNCHANGED <<result, met>>
        BY <1>1, <1>4, <4>1 DEF Goto
      <4>2. CASE runner = "failure" /\ Raises(r, "refusal")
        BY <3>1, <4>2 DEF Ended
      <4>3. CASE Fails(r, 0, "connection_error", "no connection")
        <5>1. Ended(r)' /\ r \notin EndedStreams' /\ (runner # "failure" => result'[r].status = 0)
          BY <4>3, FailsTells
        <5>. QED BY <1>0, <5>1
      <4>. QED BY <1>0, <3>3, <4>1, <4>2, <4>3 DEF Open
    <3>4. CASE Event(r)
      <4>1. result'[r].status = 200
        <5>1. result[r] \in Outcomes
          BY <1>1
        <5>2. \/ result'[r] = [result[r] EXCEPT !.chunks = @ + 1]
              \/ result'[r] = [result[r] EXCEPT !.usage = MaxChunks]
          BY <1>1, <3>4 DEF Event
        <5>. QED BY <1>4, <5>1, <5>2 DEF Outcomes
      <4>2. at'[r] = "returned" => runner' = "failure"
        BY <1>0, <1>1, <3>4 DEF Event, Goto
      <4>. QED BY <4>1, <4>2
    <3>5. CASE Finish(r)
      <4>1. met'[r] = "end of stream" /\ result'[r].status = 200 /\ at'[r] = "returned"
        <5>1. met' = [met EXCEPT ![r] = "end of stream"] /\ result' = result
              /\ at' = [at EXCEPT ![r] = "returned"]
          BY <3>5 DEF Finish, Meets, Goto
        <5>2. met'[r] = "end of stream" /\ at'[r] = "returned"
          BY <1>1, <5>1
        <5>. QED BY <1>4, <5>1, <5>2, Zenon
      <4>. QED BY <4>1 DEF Ended, EndedStreams
    <3>6. CASE Break(r)
      BY <3>1, <3>6 DEF Break, Ended
    <3>7. CASE ReadErrorCode(r)
      <4>1. PICK s : s = 429
        OBVIOUS
      <4>2. PICK e : Fails(r, s, e, "refusal")
        BY <3>7, <4>1 DEF ReadErrorCode
      <4>3. Ended(r)' /\ r \notin EndedStreams' /\ (runner # "failure" => result'[r].status = s)
        BY <4>2, FailsTells
      <4>. QED BY <1>0, <4>1, <4>3
    <3>. QED BY <3>2, <3>3, <3>4, <3>5, <3>6, <3>7 DEF Request
  <2>. QED BY <2>3, <2>4 DEF Telling
<1>6. r \notin 1..collected
  BY <1>0 DEF Collected, Running
<1>7. r \in 1..Count
  BY <1>0, SentIsCounted DEF Running
<1>8. main # "written"
  BY <1>6, <1>7 DEF Reasons
<1>. QED BY <1>0, <1>5, <1>8 DEF Reported

LEMMA OthersKeepAccount ==
  ASSUME IInv, IInv', Accounted, Take \/ Main
  PROVE  Accounted'
<1>. USE DEF IInv, Accounted
<1>0. runner' = runner /\ result' = result /\ met' = met /\ Count' = Count
  BY DEF Take, TakeAtOnce, Main, Submit, Collect, Leave, Write, Count
<1>1. CASE Take
  <2>. DEFINE r == Head(queue)
  <2>1. /\ queue # <<>> /\ queue \in Seq(Requests) /\ Len(queue) \in Nat \ {0}
        /\ at' = [at EXCEPT ![r] = "opening"] /\ UNCHANGED <<main, submitted, collected, report>>
    BY <1>1, EmptySeq DEF Take, TakeAtOnce, Goto, Typed
  <2>2. r \in Requests /\ at[r] = "unsent" /\ r \in 1..Count
    <3>1. r \in Requests /\ r = submitted - Len(queue) + 1
      BY <2>1, HeadTailProperties DEF Ordered
    <3>2. at[r] = "unsent"
      BY <2>1, <3>1 DEF Ordered, Typed
    <3>3. r <= Count
      BY <2>1, <3>1, SentIsCounted DEF Typed
    <3>. QED BY <3>1, <3>2, <3>3 DEF Requests
  <2>. HIDE DEF r
  <2>3. at \in [Requests -> {"unsent", "opening", "refused", "reading", "returned", "raised"}]
    BY DEF Typed
  <2>4. r \notin 1..collected
    BY <2>2 DEF Collected
  <2>7. Telling'
    BY <1>0, <2>1, <2>2, <2>3 DEF Telling, Ended, EndedStreams
  <2>8. main # "written"
    BY <2>2, <2>4 DEF Reasons
  <2>9. Reported'
    BY <2>1, <2>8 DEF Reported
  <2>. QED BY <2>7, <2>9
<1>2. CASE Main
  <2>0. at' = at /\ Results' = Results
    BY <1>0, <1>2 DEF Main, Submit, Collect, Leave, Write, Results, Row
  <2>1. Telling'
    BY <1>0, <2>0 DEF Telling, Ended, EndedStreams
  <2>4. Reported'
    <3>1. CASE Submit \/ Collect \/ Leave
      BY <3>1 DEF Submit, Collect, Leave, Reported
    <3>2. CASE Write
      <4>1. SUFFICES ASSUME main' = "written", runner # "failure"
            PROVE  \E latencies \in [1..Cardinality(Successful(Results)) -> 0..MaxLatency] :
                     report' = BuildReport(Results, latencies)
        BY <1>0, <2>0 DEF Reported
      <4>. QED BY <3>2, <4>1 DEF Write
    <3>. QED BY <1>2, <3>1, <3>2 DEF Main
  <2>. QED BY <2>1, <2>4
<1>. QED BY <1>1, <1>2

\* The successful requests are those whose stream ended, and no row has more
\* tokens than a reply has events.
LEMMA WhatRowsTell ==
  ASSUME IInv, Accounted, main = "written", runner # "failure"
  PROVE  /\ Successful(Results) = EndedStreams
         /\ IsFiniteSet(EndedStreams) /\ Cardinality(EndedStreams) \in Nat
         /\ DOMAIN Results = 1..Count
         /\ \A r \in 1..Count : /\ Results[r].tokens \in 0..MaxChunks
                                /\ Results[r].tpot => Results[r].ttft
<1>. USE DEF IInv, Accounted
<1>0. Count \in 1..NumRequests /\ \A r \in 1..Count : r \in Requests
  BY SentIsCounted DEF Requests
<1>1. DOMAIN Results = 1..Count /\ \A r \in 1..Count : Results[r] = Row(r)
  BY DEF Results
<1>2. \A r \in 1..Count : at[r] = "returned"
  BY DEF Reasons, Collected
<1>3. \A r \in 1..Count : r \in EndedStreams <=> Results[r].status = 200
  BY <1>0, <1>1, <1>2 DEF Telling, Row
<1>4. EndedStreams \subseteq 1..Count
  BY SentIsCounted DEF Sorted, EndedStreams
<1>5. Successful(Results) = EndedStreams
  BY <1>1, <1>3, <1>4 DEF Successful
<1>6. IsFiniteSet(1..Count) /\ IsFiniteSet(EndedStreams)
  <2>1. IsFiniteSet(1..Count)
    BY <1>0, FS_Interval
  <2>. QED BY <1>4, <2>1, FS_Subset
<1>7. ASSUME NEW r \in 1..Count
      PROVE  /\ Results[r].tokens \in 0..MaxChunks
             /\ Results[r].tpot => Results[r].ttft
  <2>1. result[r].chunks \in 0..MaxChunks /\ result[r].usage \in {0, MaxChunks}
    BY <1>0 DEF Typed, Outcomes
  <2>2. Results[r].tokens = result[r].chunks \/ Results[r].tokens = result[r].usage
    BY <1>1 DEF Row
  <2>0. Results[r] = Row(r)
    BY <1>1
  <2>3. Results[r].tpot => result[r].chunks >= 2
    <3>1. Row(r).tpot <=> /\ runner = "nvidia" /\ result[r].chunks >= 2
                          /\ (IF runner = "nvidia" /\ result[r].usage = 0
                                THEN result[r].chunks ELSE result[r].usage) >= 2
      BY Zenon DEF Row
    <3>. QED BY <2>0, <3>1, Zenon
  <2>4. result[r].chunks > 0 => Results[r].ttft
    <3>1. Row(r).ttft <=> result[r].chunks > 0
      BY Zenon DEF Row
    <3>. QED BY <2>0, <3>1, Zenon
  <2>5. Results[r].tokens \in 0..MaxChunks
    BY <2>1, <2>2
  <2>6. result[r].chunks >= 2 => result[r].chunks > 0
    BY <2>1
  <2>. QED BY <2>3, <2>4, <2>5, <2>6
<1>. QED BY <1>1, <1>5, <1>6, <1>7, FS_CardinalityType

LEMMA AccountGivesCounts == IInv /\ Accounted => OnlyEndedStreamsCount
<1>. SUFFICES ASSUME IInv, Accounted, main = "written", runner # "failure"
     PROVE  /\ Len(report.requests) = Count
            /\ report.successful = Cardinality(EndedStreams)
            /\ report.errors = Count - report.successful
            /\ SumFunction(report.status_counts) = Count
            /\ report.total_tokens <= MaxChunks * Cardinality(EndedStreams)
            /\ report.tpots <= report.ttfts /\ report.ttfts <= Cardinality(EndedStreams)
  BY DEF OnlyEndedStreamsCount
<1>0. Count \in Nat
  BY SentIsCounted
<1>1. /\ Successful(Results) = EndedStreams
      /\ IsFiniteSet(EndedStreams) /\ Cardinality(EndedStreams) \in Nat
      /\ DOMAIN Results = 1..Count
      /\ \A r \in 1..Count : /\ Results[r].tokens \in 0..MaxChunks
                             /\ Results[r].tpot => Results[r].ttft
  BY WhatRowsTell
<1>2. PICK latencies : report = BuildReport(Results, latencies)
  BY DEF Accounted, Reported
<1>3. Len(Results) = Count
  BY <1>0, <1>1 DEF Results
<1>4. Len(report.requests) = Count /\ report.successful = Cardinality(EndedStreams)
      /\ report.errors = Count - report.successful
  BY <1>1, <1>2, <1>3 DEF BuildReport
<1>5. SumFunction(report.status_counts) = Count
  <2>. DEFINE v == [r \in 1..Count |-> Results[r].status]
              T == {v[r] : r \in 1..Count}
              f == [s \in T |-> Cardinality({r \in 1..Count : v[r] = s})]
  <2>1. report.status_counts = [s \in {Results[r].status : r \in 1..Count} |->
                                  Cardinality({r \in 1..Count : Results[r].status = s})]
    BY <1>1, <1>2 DEF BuildReport
  <2>2. T = {Results[r].status : r \in 1..Count}
    OBVIOUS
  <2>3. \A s : {r \in 1..Count : v[r] = s} = {r \in 1..Count : Results[r].status = s}
    OBVIOUS
  <2>4. report.status_counts = f
    BY <2>1, <2>2, <2>3, Zenon
  <2>5. IsFiniteSet(1..Count) /\ Cardinality(1..Count) = Count
    BY <1>0, FS_Interval
  <2>. HIDE DEF v
  <2>6. SumFunction(f) = Cardinality(1..Count)
    BY <2>5, CountsAddUp, Zenon
  <2>. QED BY <2>4, <2>5, <2>6, Zenon
<1>6. report.total_tokens <= MaxChunks * Cardinality(EndedStreams)
  <2>1. PICK f : f = [r \in 1..Count |-> Results[r].tokens]
    OBVIOUS
  <2>2. report.total_tokens = SumFunctionOnSet(f, EndedStreams)
    BY <1>1, <1>2, <2>1 DEF BuildReport, TotalTokens
  <2>3. \A r \in EndedStreams : f[r] \in 0..MaxChunks
    <3>1. EndedStreams \subseteq 1..Count
      BY <1>1 DEF Successful
    <3>. QED BY <1>1, <2>1, <3>1
  <2>. QED BY <1>1, <2>2, <2>3, SumBounded, MaxChunks \in Nat, Zenon
<1>7. report.tpots <= report.ttfts /\ report.ttfts <= Cardinality(EndedStreams)
  <2>. DEFINE firsts == {r \in EndedStreams : Results[r].ttft}
              rates  == {r \in EndedStreams : Results[r].tpot}
  <2>1. report.ttfts = Cardinality(firsts) /\ report.tpots = Cardinality(rates)
    BY <1>1, <1>2 DEF BuildReport
  <2>2. firsts \in SUBSET EndedStreams /\ rates \in SUBSET firsts
    BY <1>1 DEF Successful
  <2>. HIDE DEF firsts, rates
  <2>. QED BY <1>1, <2>1, <2>2, FS_Subset
<1>. QED BY <1>4, <1>5, <1>6, <1>7

LEMMA AccountGivesRanks == IInv /\ Accounted => PercentilesAreRanks
<1>. SUFFICES ASSUME IInv, Accounted, main = "written", runner # "failure"
     PROVE  /\ Len(report.latencies) = report.successful
            /\ \A q \in DOMAIN report.latency :
                 LET p == report.latency[q]
                     values == report.latencies
                     below == Cardinality({i \in DOMAIN values : 100 * values[i] <= p})
                     above == Cardinality({i \in DOMAIN values : 100 * values[i] >= p})
                 IN  /\ 100 * below > (Len(values) - 1) * q
                     /\ 100 * above > (Len(values) - 1) * (100 - q)
                     /\ report.latency[50] <= p /\ p <= report.latency[99]
  BY DEF PercentilesAreRanks
<1>. DEFINE n == Cardinality(Successful(Results))
<1>1. n \in Nat
  BY WhatRowsTell
<1>2. PICK v \in [1..n -> 0..MaxLatency] : report = BuildReport(Results, v)
  BY DEF Accounted, Reported
<1>3. report.latencies = v /\ report.successful = n /\ report.latency = Distribution(v)
  BY <1>2 DEF BuildReport
<1>. HIDE DEF n
<1>4. v \in [1..n -> Int] /\ v \in Seq(Int) /\ DOMAIN v = 1..n /\ Len(v) = n
  <2>1. v \in [1..n -> Int]
    BY <1>2
  <2>2. v \in Seq(Int)
    BY <1>1, <2>1
  <2>. QED BY <1>1, <2>1, <2>2, LenProperties
<1>5. CASE v = <<>>
  <2>1. report.latency = <<>> /\ DOMAIN report.latency = {}
    BY <1>3, <1>5 DEF Distribution
  <2>. QED BY <1>3, <1>4, <2>1
<1>6. CASE v # <<>>
  <2>1. n \in Nat \ {0}
    BY <1>4, <1>6, EmptySeq
  <2>2. report.latency = [q \in {50, 95, 99} |-> Percentile(v, q)]
    BY <1>3, <1>6 DEF Distribution
  <2>3. ASSUME NEW q \in {50, 95, 99}
        PROVE  /\ 100 * Below(v, n, Percentile(v, q)) > (n - 1) * q
               /\ 100 * Above(v, n, Percentile(v, q)) > (n - 1) * (100 - q)
               /\ Percentile(v, 50) <= Percentile(v, q)
               /\ Percentile(v, q) <= Percentile(v, 99)
    <3>1. q \in 0..100 /\ 50 \in 0..100 /\ 99 \in 0..100 /\ 50 <= q /\ q <= 99
      OBVIOUS
    <3>2. /\ 100 * Below(v, n, Percentile(v, q)) > (n - 1) * q
          /\ 100 * Above(v, n, Percentile(v, q)) > (n - 1) * (100 - q)
      BY <1>4, <2>1, <3>1, PercentileIsRank, Zenon
    <3>3. v \in [1..n -> Int]
      BY <1>4, Zenon
    <3>4. Percentile(v, 50) <= Percentile(v, q)
      BY <2>1, <3>1, <3>3, PercentileMonotonic, ZenonT(30)
    <3>5. Percentile(v, q) <= Percentile(v, 99)
      BY <2>1, <3>1, <3>3, PercentileMonotonic, ZenonT(30)
    <3>. QED BY <3>2, <3>4, <3>5, Zenon
  <2>4. ASSUME NEW q \in DOMAIN report.latency
        PROVE  LET p == report.latency[q]
                   values == report.latencies
                   below == Cardinality({i \in DOMAIN values : 100 * values[i] <= p})
                   above == Cardinality({i \in DOMAIN values : 100 * values[i] >= p})
               IN  /\ 100 * below > (Len(values) - 1) * q
                   /\ 100 * above > (Len(values) - 1) * (100 - q)
                   /\ report.latency[50] <= p /\ p <= report.latency[99]
    <3>1. /\ q \in {50, 95, 99} /\ report.latency[q] = Percentile(v, q)
          /\ report.latency[50] = Percentile(v, 50) /\ report.latency[99] = Percentile(v, 99)
      BY <2>2
    <3>. DEFINE values == report.latencies
                p == report.latency[q]
    <3>2. values = v /\ DOMAIN values = 1..n /\ Len(values) = n /\ p = Percentile(v, q)
      BY <1>3, <1>4, <3>1
    <3>3. /\ Cardinality({i \in DOMAIN values : 100 * values[i] <= p}) = Below(v, n, Percentile(v, q))
          /\ Cardinality({i \in DOMAIN values : 100 * values[i] >= p}) = Above(v, n, Percentile(v, q))
      BY <3>2 DEF Below, Above
    <3>. HIDE DEF values, p
    <3>4. /\ 100 * Cardinality({i \in DOMAIN values : 100 * values[i] <= p}) > (Len(values) - 1) * q
          /\ 100 * Cardinality({i \in DOMAIN values : 100 * values[i] >= p})
               > (Len(values) - 1) * (100 - q)
          /\ report.latency[50] <= p /\ p <= report.latency[99]
      <4>1. /\ 100 * Below(v, n, Percentile(v, q)) > (n - 1) * q
            /\ 100 * Above(v, n, Percentile(v, q)) > (n - 1) * (100 - q)
            /\ Percentile(v, 50) <= Percentile(v, q) /\ Percentile(v, q) <= Percentile(v, 99)
        BY <2>3, <3>1
      <4>. QED BY <3>1, <3>2, <3>3, <4>1
    <3>. QED BY <3>4 DEF values, p
  <2>. QED BY <1>3, <1>4, <2>4, Zenon
<1>. QED BY <1>5, <1>6

LEMMA AlwaysAccounted == Spec => []Accounted
<1>1. IInv /\ IInv' /\ Accounted /\ [Next]_vars => Accounted'
  <2>. SUFFICES ASSUME IInv, IInv', Accounted, [Next]_vars PROVE Accounted'
    OBVIOUS
  <2>1. CASE UNCHANGED vars
    <3>1. UNCHANGED <<runner, main, collected, at, result, met, report, Count, Results>>
      BY <2>1 DEF vars, Count, Results, Row
    <3>2. Telling'
      BY <3>1 DEF Accounted, Telling, Ended, EndedStreams
    <3>3. Reported'
      BY <3>1 DEF Accounted, Reported
    <3>. QED BY <3>2, <3>3 DEF Accounted
  <2>. QED BY <2>1, RequestKeepsAccount, OthersKeepAccount DEF Next
<1>. QED BY <1>1, AccountedAtFirst, Inductive, PTL DEF Spec

-----------------------------------------------------------------------------

\* Every variable keeps its type, and the pool never runs more requests than its
\* size.
THEOREM TypeCorrect == Spec => []TypeOK
BY Inductive, InvariantGives, PTL

\* A run fails before its report exactly if a request met an exception that no
\* clause takes: a reset, garbage, or silence in the body of an HTTP error; for
\* the failure runner any error.  Refused connections, HTTP errors and silent
\* servers otherwise never cost a measurement its report.
THEOREM ReportsSurviveErrors == Spec => []OnlyUncaughtErrorsCostTheReport
BY Inductive, InvariantGives, PTL

\* The report of a finished measurement has a row for each request and counts
\* as successful the requests whose stream came to an end, whole or cut off
\* between two events, and no others: one that fell silent after its first token
\* adds nothing to it, its status counts add up, and its tokens are at most what
\* the ended streams can hold.
THEOREM ReportsCountEndedStreams == Spec => []OnlyEndedStreamsCount
BY Inductive, AlwaysAccounted, AccountGivesCounts, PTL

\* The latency percentiles of the report divide the latencies of the successful
\* requests as their names say, for every number of them, and are in order.
THEOREM PercentilesAreTrue == Spec => []PercentilesAreRanks
BY Inductive, AlwaysAccounted, AccountGivesRanks, PTL

=============================================================================
