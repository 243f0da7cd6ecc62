-------------------------- MODULE MarketLaneProofs --------------------------
(***************************************************************************)
(* Proofs about MarketLane, for every set of markets, every budget and     *)
(* every number of publications and pauses.                                *)
(***************************************************************************)
EXTENDS MarketLane, Integers, FiniteSetsExt, SequencesExt, FiniteSetTheorems,
        SequenceTheorems, WellFoundedInduction, TLAPS

-----------------------------------------------------------------------------
(* Induction over data, in a form that first-order provers can use: the    *)
(* property that is proved by induction is a set, not an operator.         *)

\* A set of numbers has a least one.
LEMMA LeastNat ==
  ASSUME NEW T \in SUBSET Nat, T # {} PROVE \E x \in T : \A y \in T : x <= y
<1> DEFINE R == OpToRel(<, Nat)
<1>1. IsWellFoundedOn(R, Nat)
  BY NatLessThanWellFounded
<1>2. \A x, y \in Nat : <<y, x>> \in R <=> y < x
  BY DEF OpToRel
<1> HIDE DEF R
<1>3. PICK x \in T : \A y \in T : ~ (<<y, x>> \in R)
  BY <1>1, WFMin
<1>4. \A y \in T : ~(y < x)
  BY <1>2, <1>3
<1>5. QED BY <1>4

\* Min and Max are what they say: of a set of numbers, and of one that is bounded.
LEMMA MinIsLeast ==
  ASSUME NEW T \in SUBSET Nat, T # {} PROVE Min(T) \in T /\ \A y \in T : Min(T) <= y
BY LeastNat DEF Min

LEMMA MaxIsGreatest ==
  ASSUME NEW N \in Nat, NEW T \in SUBSET (0..N), T # {}
  PROVE Max(T) \in T /\ \A y \in T : Max(T) >= y
<1> DEFINE U == {N - x : x \in T}
<1>1. \A y \in T : y \in 0..N /\ N - y \in U
  OBVIOUS
<1>2. PICK u \in U : \A v \in U : u <= v
  <2>1. \A x \in 0..N : N - x \in Nat
    OBVIOUS
  <2>2. U \in SUBSET Nat /\ U # {}
    BY <2>1
  <2>3. QED BY <2>2, LeastNat
<1>3. N - u \in T /\ u \in 0..N
  <2>1. PICK x \in T : u = N - x
    BY <1>2
  <2>2. x \in 0..N
    OBVIOUS
  <2>3. N - u = x /\ u \in 0..N
    BY <2>1, <2>2
  <2>4. QED BY <2>3
<1> HIDE DEF U
<1>4. \A y \in T : N - u >= y
  <2> SUFFICES ASSUME NEW y \in T PROVE N - u >= y
    OBVIOUS
  <2>1. u <= N - y /\ y \in 0..N
    BY <1>1, <1>2
  <2>2. QED BY <1>3, <2>1
<1>5. QED BY <1>3, <1>4 DEF Max

\* Induction over the numbers.
LEMMA NatSetInduction ==
  ASSUME NEW S, 0 \in S, \A n \in Nat : n \in S => n + 1 \in S
  PROVE Nat \subseteq S
<1> SUFFICES ASSUME Nat \ S # {} PROVE FALSE
  OBVIOUS
<1>1. PICK x \in Nat \ S : \A y \in Nat \ S : x <= y
  BY LeastNat
<1>2. x # 0 /\ x - 1 \in Nat
  BY <1>1
<1>3. x - 1 \in S
  BY <1>1, <1>2
<1>4. QED BY <1>1, <1>2, <1>3

\* Induction over the subsets of a finite set.
LEMMA FiniteSetInduction ==
  ASSUME NEW S, IsFiniteSet(S), NEW Q, {} \in Q,
         \A s \in SUBSET S : \A x \in S \ s : s \in Q => s \cup {x} \in Q
  PROVE \A s \in SUBSET S : s \in Q
<1> DEFINE D == {n \in Nat : \A s \in SUBSET S : Cardinality(s) = n => s \in Q}
<1>1. \A s \in SUBSET S : IsFiniteSet(s) /\ Cardinality(s) \in Nat
  BY FS_Subset, FS_CardinalityType
<1>2. 0 \in D
  <2>1. \A s \in SUBSET S : Cardinality(s) = 0 => s = {}
    BY <1>1, FS_EmptySet
  <2>2. QED BY <2>1
<1>3. ASSUME NEW n \in Nat, n \in D PROVE n + 1 \in D
  <2> SUFFICES ASSUME NEW s \in SUBSET S, Cardinality(s) = n + 1 PROVE s \in Q
    OBVIOUS
  <2>0. IsFiniteSet(s) /\ n + 1 # 0
    BY <1>1
  <2>1. s # {}
    BY <2>0, FS_EmptySet
  <2>2. PICK x \in s : TRUE
    BY <2>1
  <2>3. Cardinality(s \ {x}) = n
    <3>1. Cardinality(s \ {x}) = Cardinality(s) - 1
      BY <2>0, FS_RemoveElement
    <3>2. QED BY <3>1
  <2>4. s \ {x} \in Q
    BY <1>3, <2>3
  <2>5. s = (s \ {x}) \cup {x}
    OBVIOUS
  <2>6. QED BY <2>4, <2>5
<1> HIDE DEF D
<1>4. Nat \subseteq D
  BY <1>2, <1>3, NatSetInduction
<1>5. QED BY <1>1, <1>4 DEF D

\* A function defined by recursion over an initial segment exists.
LEMMA RecursionExists ==
  ASSUME NEW S, NEW base \in S, NEW N \in Nat, NEW step \in [1..N -> [S -> S]]
  PROVE \E f \in [0..N -> S] : f[0] = base /\ \A i \in 1..N : f[i] = step[i][f[i - 1]]
<1> DEFINE Good(n, f) == f[0] = base /\ \A i \in 1..n : f[i] = step[i][f[i - 1]]
           D == {n \in Nat : n <= N => \E f \in [0..n -> S] : Good(n, f)}
<1>1. 0 \in D
  <2>1. [i \in 0..0 |-> base] \in [0..0 -> S] /\ Good(0, [i \in 0..0 |-> base])
    OBVIOUS
  <2>2. QED BY <2>1
<1>2. ASSUME NEW n \in Nat, n \in D PROVE n + 1 \in D
  <2>1. CASE n + 1 <= N
    <3>1. PICK f \in [0..n -> S] : Good(n, f)
      BY <1>2, <2>1
    <3> DEFINE g == [i \in 0..(n + 1) |-> IF i <= n THEN f[i] ELSE step[n + 1][f[n]]]
    <3>2. n + 1 \in 1..N /\ f[n] \in S
      BY <2>1
    <3>3. step[n + 1][f[n]] \in S
      BY <3>2
    <3>4. g \in [0..(n + 1) -> S]
      BY <3>3
    <3>5. \A i \in 1..(n + 1) : g[i] = step[i][g[i - 1]]
      <4> SUFFICES ASSUME NEW i \in 1..(n + 1) PROVE g[i] = step[i][g[i - 1]]
        OBVIOUS
      <4>1. CASE i <= n
        BY <3>1, <4>1
      <4>2. CASE i = n + 1
        BY <4>2
      <4>3. QED BY <4>1, <4>2
    <3>6. g[0] = base
      BY <3>1
    <3> HIDE DEF g
    <3>7. QED BY <3>4, <3>5, <3>6
  <2>2. QED BY <2>1
<1> HIDE DEF D
<1>3. N \in D
  BY <1>1, <1>2, NatSetInduction
<1>4. QED BY <1>3 DEF D

-----------------------------------------------------------------------------
(* Sums.                                                                   *)

\* G adds up f over every subset of S, whatever element is taken first.
IsSum(G, f, S) ==
    /\ G \in [SUBSET S -> Int] /\ G[{}] = 0
    /\ \A s \in SUBSET S : \A x \in s : G[s] = f[x] + G[s \ {x}]

\* Every function has a sum over a finite set.
LEMMA SumExists ==
  ASSUME NEW S, IsFiniteSet(S), NEW f, \A x \in S : f[x] \in Int PROVE \E G : IsSum(G, f, S)
<1> DEFINE Q == {s \in SUBSET S : \E G : IsSum(G, f, s)}
<1>1. {} \in Q
  <2> DEFINE G == [s \in SUBSET {} |-> 0]
  <2>1. IsSum(G, f, {})
    BY DEF IsSum
  <2>2. QED BY <2>1
<1>2. ASSUME NEW s \in SUBSET S, NEW y \in S \ s, s \in Q PROVE s \cup {y} \in Q
  <2>1. PICK G : IsSum(G, f, s)
    BY <1>2
  <2> DEFINE H == [t \in SUBSET (s \cup {y}) |-> IF y \in t THEN f[y] + G[t \ {y}] ELSE G[t]]
  <2>2. \A t \in SUBSET s : G[t] \in Int
    BY <2>1 DEF IsSum
  <2>3. f[y] \in Int
    OBVIOUS
  <2>4. \A t \in SUBSET (s \cup {y}) : /\ y \in t => H[t] = f[y] + G[t \ {y}] /\ t \ {y} \in SUBSET s
                                       /\ y \notin t => H[t] = G[t] /\ t \in SUBSET s
    OBVIOUS
  <2>5. H \in [SUBSET (s \cup {y}) -> Int]
    BY <2>2, <2>3
  <2> HIDE DEF H
  <2>6. H[{}] = 0
    BY <2>1, <2>4 DEF IsSum
  <2>7. ASSUME NEW t \in SUBSET (s \cup {y}), NEW x \in t PROVE H[t] = f[x] + H[t \ {x}]
    <3>1. CASE x = y
      BY <2>4, <3>1
    <3>2. CASE x # y /\ y \in t
      <4>1. H[t] = f[y] + G[t \ {y}] /\ H[t \ {x}] = f[y] + G[(t \ {x}) \ {y}]
        BY <2>4, <3>2
      <4>2. t \ {y} \in SUBSET s /\ x \in t \ {y} /\ (t \ {y}) \ {x} = (t \ {x}) \ {y}
        BY <3>2
      <4>3. G[t \ {y}] = f[x] + G[(t \ {x}) \ {y}]
        <5>1. \A u \in SUBSET s : \A v \in u : G[u] = f[v] + G[u \ {v}]
          BY <2>1 DEF IsSum
        <5>2. G[t \ {y}] = f[x] + G[(t \ {y}) \ {x}]
          BY <4>2, <5>1
        <5>3. QED BY <4>2, <5>2
      <4>4. G[(t \ {x}) \ {y}] \in Int /\ f[x] \in Int
        <5>1. (t \ {x}) \ {y} \in SUBSET s
          BY <4>2
        <5>2. x \in S
          OBVIOUS
        <5>3. QED BY <2>2, <5>1, <5>2
      <4>5. \A a, b, c \in Int : a + (b + c) = b + (a + c)
        OBVIOUS
      <4>6. f[y] + (f[x] + G[(t \ {x}) \ {y}]) = f[x] + (f[y] + G[(t \ {x}) \ {y}])
        BY <2>3, <4>4, <4>5
      <4>7. QED BY <4>1, <4>3, <4>6, Zenon
    <3>3. CASE x # y /\ y \notin t
      BY <2>1, <2>4, <3>3 DEF IsSum
    <3>4. QED BY <3>1, <3>2, <3>3
  <2>8. IsSum(H, f, s \cup {y})
    BY <2>5, <2>6, <2>7 DEF IsSum
  <2>9. QED BY <2>8
<1> HIDE DEF Q
<1>3. S \in Q
  BY <1>1, <1>2, FiniteSetInduction
<1>4. QED BY <1>3 DEF Q

\* H adds up f over every subset of S; it takes some element of it first, or last.
AddsLast(H, f, s, x) ==
    \/ H[s] = f[x] + H[s \ {x}]
    \/ f[x] \in Int /\ H[s] = H[s \ {x}] + f[x]

AddsUp(H, f, S) ==
    /\ H[{}] = 0
    /\ \A s \in SUBSET S : s # {} => \E x \in s : AddsLast(H, f, s, x)

\* Whatever element is taken first, the sum is the same.
LEMMA SumUnique ==
  ASSUME NEW S, IsFiniteSet(S), NEW f, NEW G, IsSum(G, f, S), NEW H, AddsUp(H, f, S)
  PROVE \A s \in SUBSET S : H[s] = G[s]
<1> DEFINE Q == {n \in Nat : \A s \in SUBSET S : Cardinality(s) = n => H[s] = G[s]}
<1>1. \A s \in SUBSET S : IsFiniteSet(s) /\ Cardinality(s) \in Nat
  BY FS_Subset, FS_CardinalityType
<1>2. 0 \in Q
  <2>1. \A s \in SUBSET S : Cardinality(s) = 0 => s = {}
    BY <1>1, FS_EmptySet
  <2>2. QED BY <2>1 DEF IsSum, AddsUp
<1>3. ASSUME NEW n \in Nat, n \in Q PROVE n + 1 \in Q
  <2> SUFFICES ASSUME NEW s \in SUBSET S, Cardinality(s) = n + 1 PROVE H[s] = G[s]
    OBVIOUS
  <2>0. IsFiniteSet(s) /\ n + 1 # 0
    BY <1>1
  <2>1. s # {}
    BY <2>0, FS_EmptySet
  <2>2. PICK x \in s : AddsLast(H, f, s, x)
    BY <2>1 DEF AddsUp
  <2>3. Cardinality(s \ {x}) = n
    <3>1. Cardinality(s \ {x}) = Cardinality(s) - 1
      BY <2>0, FS_RemoveElement
    <3>2. QED BY <3>1
  <2>4. H[s \ {x}] = G[s \ {x}]
    BY <1>3, <2>3
  <2>5. G[s] = f[x] + G[s \ {x}] /\ G[s \ {x}] \in Int
    BY DEF IsSum
  <2>6. QED BY <2>2, <2>4, <2>5 DEF AddsLast
<1> HIDE DEF Q
<1>4. Nat \subseteq Q
  BY <1>2, <1>3, NatSetInduction
<1>5. QED BY <1>1, <1>4 DEF Q

\* The sum of f over S.
Total(f, S) == (CHOOSE G : IsSum(G, f, S))[S]

\* A sum over S is a sum over every subset.
LEMMA SumRestricts ==
  ASSUME NEW S, NEW f, NEW G, IsSum(G, f, S), NEW t \in SUBSET S
  PROVE IsSum([s \in SUBSET t |-> G[s]], f, t)
<1> DEFINE H == [s \in SUBSET t |-> G[s]]
<1>1. \A s \in SUBSET t : s \in SUBSET S /\ G[s] \in Int /\ H[s] = G[s]
  BY DEF IsSum
<1>2. H \in [SUBSET t -> Int] /\ {} \in SUBSET t
  BY <1>1
<1> HIDE DEF H
<1>3. H[{}] = 0
  BY <1>1, <1>2 DEF IsSum
<1>4. ASSUME NEW s \in SUBSET t, NEW x \in s PROVE H[s] = f[x] + H[s \ {x}]
  <2>1. s \ {x} \in SUBSET t
    OBVIOUS
  <2>2. G[s] = f[x] + G[s \ {x}]
    BY <1>1 DEF IsSum
  <2>3. QED BY <1>1, <2>1, <2>2
<1>5. IsSum(H, f, t)
  BY <1>2, <1>3, <1>4 DEF IsSum
<1>6. QED BY <1>5 DEF H

\* The sum is what every function that sums gives.
LEMMA TotalIsSum ==
  ASSUME NEW S, IsFiniteSet(S), NEW f, NEW G, IsSum(G, f, S), NEW t \in SUBSET S
  PROVE Total(f, t) = G[t]
<1> DEFINE H == [s \in SUBSET t |-> G[s]]
           K == CHOOSE F : IsSum(F, f, t)
<1>1. IsSum(H, f, t) /\ IsFiniteSet(t) /\ t \in SUBSET t
  <2>1. IsSum(H, f, t)
    BY SumRestricts
  <2>2. IsFiniteSet(t)
    BY FS_Subset
  <2>3. QED BY <2>1, <2>2
<1>2. H[t] = G[t]
  OBVIOUS
<1> HIDE DEF H
<1>3. IsSum(K, f, t)
  BY <1>1
<1>4. Total(f, t) = K[t]
  BY DEF Total
<1> HIDE DEF K
<1>5. AddsUp(K, f, t)
  <2>1. ASSUME NEW s \in SUBSET t, s # {} PROVE \E x \in s : AddsLast(K, f, s, x)
    <3>1. PICK x \in s : TRUE
      BY <2>1
    <3>2. AddsLast(K, f, s, x)
      BY <1>3 DEF IsSum, AddsLast
    <3>3. QED BY <3>2
  <2>2. QED BY <1>3, <2>1 DEF IsSum, AddsUp
<1>6. \A s \in SUBSET t : K[s] = H[s]
  BY <1>1, <1>5, SumUnique
<1>7. QED BY <1>1, <1>2, <1>4, <1>6

\* The sum of nothing; taking out one summand.
LEMMA TotalEmpty == ASSUME NEW f PROVE Total(f, {}) = 0
<1> DEFINE S == {}
<1>1. IsFiniteSet(S) /\ \A x \in S : f[x] \in Int
  BY FS_EmptySet
<1>2. S \in SUBSET S
  OBVIOUS
<1> HIDE DEF S
<1>3. PICK G : IsSum(G, f, S)
  BY <1>1, SumExists
<1>4. Total(f, S) = G[S]
  BY <1>1, <1>2, <1>3, TotalIsSum
<1>5. QED BY <1>3, <1>4 DEF IsSum, S

LEMMA TotalType ==
  ASSUME NEW S, IsFiniteSet(S), NEW f, \A x \in S : f[x] \in Int
  PROVE Total(f, S) \in Int
<1>1. PICK G : IsSum(G, f, S)
  BY SumExists
<1>2. Total(f, S) = G[S]
  BY <1>1, TotalIsSum
<1>3. QED BY <1>1, <1>2 DEF IsSum

LEMMA TotalRemove ==
  ASSUME NEW S, IsFiniteSet(S), NEW f, \A x \in S : f[x] \in Int, NEW y \in S
  PROVE Total(f, S) = f[y] + Total(f, S \ {y})
<1>1. PICK G : IsSum(G, f, S)
  BY SumExists
<1>2. Total(f, S) = G[S] /\ Total(f, S \ {y}) = G[S \ {y}]
  BY <1>1, TotalIsSum
<1>3. QED BY <1>1, <1>2 DEF IsSum

\* Only the summands count.
LEMMA TotalSame ==
  ASSUME NEW S, IsFiniteSet(S), NEW f, NEW g, \A x \in S : f[x] \in Int /\ f[x] = g[x]
  PROVE Total(f, S) = Total(g, S)
<1>1. PICK G : IsSum(G, f, S)
  BY SumExists
<1>2. IsSum(G, g, S)
  <2>1. \A s \in SUBSET S : \A x \in s : f[x] = g[x]
    OBVIOUS
  <2>2. QED BY <1>1, <2>1 DEF IsSum
<1>3. QED BY <1>1, <1>2, TotalIsSum

\* One summand changes.
LEMMA TotalUpdate ==
  ASSUME NEW S, IsFiniteSet(S), NEW f, NEW g, NEW y \in S,
         \A x \in S : f[x] \in Int /\ g[x] \in Int,
         \A x \in S \ {y} : f[x] = g[x]
  PROVE Total(g, S) = (Total(f, S) - f[y]) + g[y]
<1>1. IsFiniteSet(S \ {y})
  BY FS_Subset
<1>2. Total(f, S) = f[y] + Total(f, S \ {y}) /\ Total(g, S) = g[y] + Total(g, S \ {y})
  BY TotalRemove
<1>3. Total(f, S \ {y}) = Total(g, S \ {y})
  BY <1>1, TotalSame
<1>4. Total(f, S \ {y}) \in Int /\ f[y] \in Int /\ g[y] \in Int
  BY <1>1, TotalType
<1>5. \A a, b, c \in Int : b + c = ((a + c) - a) + b
  OBVIOUS
<1>6. QED BY <1>2, <1>3, <1>4, <1>5

\* Bounds.
LEMMA TotalBound ==
  ASSUME NEW S, IsFiniteSet(S), NEW f, \A x \in S : f[x] \in Int, NEW c \in Int,
         \A x \in S : f[x] <= c
  PROVE Total(f, S) <= c * Cardinality(S)
<1> DEFINE Q == {s \in SUBSET S : Total(f, s) <= c * Cardinality(s)}
<1>1. {} \in Q
  <2>1. Total(f, {}) = 0 /\ Cardinality({}) = 0
    BY TotalEmpty, FS_EmptySet
  <2>2. c * 0 = 0
    OBVIOUS
  <2>3. QED BY <2>1, <2>2
<1>2. ASSUME NEW s \in SUBSET S, NEW y \in S \ s, s \in Q PROVE s \cup {y} \in Q
  <2> DEFINE t == s \cup {y}
  <2>1. IsFiniteSet(s) /\ IsFiniteSet(t) /\ t \ {y} = s /\ y \in t /\ t \in SUBSET S
    BY FS_Subset
  <2>2. Cardinality(t) = Cardinality(s) + 1 /\ Cardinality(s) \in Nat
    BY <2>1, FS_AddElement, FS_CardinalityType
  <2>3. \A x \in t : f[x] \in Int
    OBVIOUS
  <2>4. Total(f, t) = f[y] + Total(f, s) /\ Total(f, s) \in Int
    BY <2>1, <2>3, TotalRemove, TotalType
  <2> HIDE DEF t
  <2>5. Total(f, s) <= c * Cardinality(s) /\ f[y] <= c
    BY <1>2
  <2>6. \A n \in Nat : c * (n + 1) = c * n + c /\ c * n \in Int
    OBVIOUS
  <2>7. Total(f, t) <= c * Cardinality(t)
    <3>1. c * Cardinality(t) = c * Cardinality(s) + c /\ c * Cardinality(s) \in Int
      BY <2>2, <2>6
    <3>2. \A a, b, d \in Int : a <= c /\ b <= d => a + b <= d + c
      OBVIOUS
    <3>3. QED BY <2>1, <2>3, <2>4, <2>5, <3>1, <3>2
  <2>8. QED BY <2>1, <2>7 DEF t
<1> HIDE DEF Q
<1>3. S \in Q
  BY <1>1, <1>2, FiniteSetInduction
<1>4. QED BY <1>3 DEF Q

LEMMA TotalNat ==
  ASSUME NEW S, IsFiniteSet(S), NEW f, \A x \in S : f[x] \in Nat
  PROVE Total(f, S) \in Nat
<1> DEFINE Q == {s \in SUBSET S : Total(f, s) \in Nat}
<1>1. {} \in Q
  BY TotalEmpty
<1>2. ASSUME NEW s \in SUBSET S, NEW y \in S \ s, s \in Q PROVE s \cup {y} \in Q
  <2> DEFINE t == s \cup {y}
  <2>1. IsFiniteSet(t) /\ t \ {y} = s /\ y \in t /\ t \in SUBSET S
    BY FS_Subset
  <2>3. \A x \in t : f[x] \in Int
    OBVIOUS
  <2>4. Total(f, t) = f[y] + Total(f, s)
    BY <2>1, <2>3, TotalRemove
  <2>5. f[y] \in Nat /\ Total(f, s) \in Nat
    BY <1>2
  <2>6. QED BY <2>1, <2>4, <2>5
<1> HIDE DEF Q
<1>3. S \in Q
  BY <1>1, <1>2, FiniteSetInduction
<1>4. QED BY <1>3 DEF Q

\* Where all summands are 0 but those of T, the sum is the one over T.
LEMMA TotalSupport ==
  ASSUME NEW S, IsFiniteSet(S), NEW f, \A x \in S : f[x] \in Int,
         NEW T \in SUBSET S, \A x \in S \ T : f[x] = 0
  PROVE Total(f, S) = Total(f, T)
<1> DEFINE R == S \ T
           Q == {s \in SUBSET R : Total(f, T \cup s) = Total(f, T)}
<1>0. IsFiniteSet(R)
  BY FS_Subset
<1>1. {} \in Q
  <2>1. T \cup {} = T
    OBVIOUS
  <2>2. QED BY <2>1
<1>2. ASSUME NEW s \in SUBSET R, NEW y \in R \ s, s \in Q PROVE s \cup {y} \in Q
  <2> DEFINE t == T \cup (s \cup {y})
  <2>1. IsFiniteSet(t) /\ t \ {y} = T \cup s /\ y \in t /\ t \in SUBSET S
    BY FS_Subset
  <2>2. \A x \in t : f[x] \in Int
    BY <2>1
  <2>3. Total(f, t) = f[y] + Total(f, T \cup s) /\ Total(f, T \cup s) \in Int
    <3>1. IsFiniteSet(T \cup s) /\ \A x \in T \cup s : f[x] \in Int
      BY FS_Subset
    <3>2. QED BY <2>1, <2>2, <3>1, TotalRemove, TotalType, SMTT(30)
  <2>4. f[y] = 0 /\ Total(f, T \cup s) = Total(f, T)
    BY <1>2
  <2>5. QED BY <2>3, <2>4
<1>3. S = T \cup R
  OBVIOUS
<1> HIDE DEF Q, R
<1>4. \A s \in SUBSET R : s \in Q
  BY <1>0, <1>1, <1>2, FiniteSetInduction
<1>5. QED BY <1>3, <1>4 DEF Q

-----------------------------------------------------------------------------
(* The members of a set in a sequence.                                     *)

\* F is what the loop has collected after each member of s.
Collects(F, U, s, T) ==
    /\ F \in [0..Len(s) -> Seq(U)] /\ F[0] = <<>>
    /\ \A i \in 1..Len(s) : F[i] = IF s[i] \in T THEN Append(F[i - 1], s[i]) ELSE F[i - 1]

LEMMA KeptFun ==
  ASSUME NEW U, NEW s \in Seq(U), NEW T
  PROVE \E F : Collects(F, U, s, T) /\ Kept(s, T) = F[Len(s)]
<1> DEFINE step == [i \in 1..Len(s) |-> [q \in Seq(U) |-> IF s[i] \in T THEN Append(q, s[i]) ELSE q]]
           Def(G) == [i \in 0..Len(s) |->
              IF i = 0 THEN <<>> ELSE IF s[i] \in T THEN Append(G[i - 1], s[i]) ELSE G[i - 1]]
<1>1. Len(s) \in Nat /\ <<>> \in Seq(U)
  BY LenProperties
<1>2. step \in [1..Len(s) -> [Seq(U) -> Seq(U)]]
  <2>1. \A i \in 1..Len(s) : s[i] \in U
    BY ElementOfSeq
  <2>2. \A i \in 1..Len(s) : \A q \in Seq(U) : Append(q, s[i]) \in Seq(U)
    BY <2>1, AppendProperties
  <2>3. QED BY <2>2
<1>3. PICK f \in [0..Len(s) -> Seq(U)] : f[0] = <<>> /\ \A i \in 1..Len(s) : f[i] = step[i][f[i - 1]]
  <2> DEFINE base == <<>>
             N == Len(s)
             S == Seq(U)
  <2>0. base \in S /\ N \in Nat /\ step \in [1..N -> [S -> S]]
    BY <1>1, <1>2
  <2> HIDE DEF step, base, N, S
  <2>1. \E f \in [0..N -> S] : f[0] = base /\ \A i \in 1..N : f[i] = step[i][f[i - 1]]
    BY <2>0, RecursionExists
  <2>2. QED BY <2>1 DEF base, N, S
<1>4. \A i \in 1..Len(s) : f[i] = IF s[i] \in T THEN Append(f[i - 1], s[i]) ELSE f[i - 1]
  <2>1. \A i \in 1..Len(s) : f[i - 1] \in Seq(U)
    BY <1>1
  <2>2. QED BY <1>3, <2>1
<1> HIDE DEF step
<1>0. \A G : /\ Def(G)[0] = <<>> /\ DOMAIN Def(G) = 0..Len(s)
             /\ \A i \in 1..Len(s) : Def(G)[i] = IF s[i] \in T THEN Append(G[i - 1], s[i]) ELSE G[i - 1]
  <2> SUFFICES ASSUME NEW G PROVE /\ Def(G)[0] = <<>> /\ DOMAIN Def(G) = 0..Len(s)
             /\ \A i \in 1..Len(s) : Def(G)[i] = IF s[i] \in T THEN Append(G[i - 1], s[i]) ELSE G[i - 1]
    OBVIOUS
  <2>1. 0 \in 0..Len(s) /\ \A i \in 1..Len(s) : i \in 0..Len(s) /\ i # 0
    BY <1>1
  <2>2. DOMAIN Def(G) = 0..Len(s)
    OBVIOUS
  <2>3. Def(G)[0] = <<>>
    BY <2>1
  <2>4. ASSUME NEW i \in 1..Len(s) PROVE Def(G)[i] = IF s[i] \in T THEN Append(G[i - 1], s[i]) ELSE G[i - 1]
    BY <2>1, Zenon
  <2>5. QED BY <2>2, <2>3, <2>4
<1>5. f = Def(f)
  <2>1. \A i \in 0..Len(s) : f[i] = Def(f)[i]
    <3> SUFFICES ASSUME NEW i \in 0..Len(s) PROVE f[i] = Def(f)[i]
      OBVIOUS
    <3>1. CASE i = 0
      BY <1>3, <3>1
    <3>2. CASE i \in 1..Len(s)
      BY <1>0, <1>4, <3>2, Zenon
    <3>3. QED BY <1>1, <3>1, <3>2
  <2>2. QED BY <2>1
<1> DEFINE F == CHOOSE G : G = Def(G)
<1>6. F = Def(F)
  BY <1>5
<1>7. Kept(s, T) = F[Len(s)]
  BY DEF Kept
<1> HIDE DEF F
<1>8. F[0] = <<>> /\ \A i \in 1..Len(s) : F[i] = IF s[i] \in T THEN Append(F[i - 1], s[i]) ELSE F[i - 1]
  BY <1>0, <1>6, Zenon
<1>9. F \in [0..Len(s) -> Seq(U)]
  <2> DEFINE D == {n \in Nat : n <= Len(s) => F[n] \in Seq(U)}
  <2>1. 0 \in D
    BY <1>1, <1>8
  <2>2. ASSUME NEW n \in Nat, n \in D PROVE n + 1 \in D
    <3>1. SUFFICES ASSUME n + 1 <= Len(s) PROVE F[n + 1] \in Seq(U)
      OBVIOUS
    <3>2. n + 1 \in 1..Len(s) /\ (n + 1) - 1 = n /\ F[n] \in Seq(U) /\ s[n + 1] \in U
      BY <1>1, <2>2, <3>1, ElementOfSeq
    <3>3. Append(F[n], s[n + 1]) \in Seq(U)
      BY <3>2, AppendProperties
    <3>4. QED BY <1>8, <3>2, <3>3
  <2> HIDE DEF D
  <2>3. Nat \subseteq D
    BY <2>1, <2>2, NatSetInduction
  <2>4. \A n \in 0..Len(s) : F[n] \in Seq(U)
    BY <1>1, <2>3 DEF D
  <2>5. QED BY <1>6, <2>4
<1>10. Collects(F, U, s, T)
  BY <1>8, <1>9 DEF Collects
<1>11. QED BY <1>7, <1>10

-----------------------------------------------------------------------------
(* The inductive invariant.                                                *)

Group == [cursor : Nat, charge : Nat]
Item == [cursor : Nat, ready : BOOLEAN]
ReplayLane == [published : Nat, durable : Nat, floor : Nat, groups : Seq(Group), slot : BOOLEAN,
               boundary : Nat]
QueueLane == [pending : Seq(Item), draining : BOOLEAN, active : BOOLEAN, used : Nat]
Call == [pc : {"idle", "planned", "admitting", "admitted", "visible"}, evict : Nat,
         growth : Nat, refund : Nat, slot : BOOLEAN, volatile : BOOLEAN]
Entry == [market : Markets, gap : BOOLEAN]

\* Types of what publishers and readers use, of the queue and its writer, of the owner.
PublishTypes ==
    /\ replay \in [Markets -> ReplayLane]
    /\ publisher \in [Markets -> Call]
    /\ disk \in [Markets -> Seq(Nat)]
QueueTypes ==
    /\ lane \in [Markets -> QueueLane]
    /\ turn \in Seq(Markets)
    /\ accepting \in BOOLEAN /\ woken \in BOOLEAN
    /\ writer \in [pc : {"look", "scan", "sleep", "persist", "acknowledge", "drop", "failing",
                         "abandon", "ended"},
                   left : Nat, market : Markets \cup {"none"}, cursor : Nat,
                   done : SUBSET Markets]
OwnerTypes ==
    /\ retired \in SUBSET Markets
    /\ retirements \in Seq(Entry)
    /\ worker \in {"wait", "release", "ended"}
    /\ failed \in {"no", "health", "error"}

\* The writer has an item of the market in its hands.
Holds(m) == /\ writer.pc \in {"persist", "acknowledge", "drop", "failing"}
            /\ writer.market = m
\* The last group of the market that the writer has stored or is storing.
Stored(m) == IF writer.pc \in {"persist", "failing"} /\ writer.market = m THEN writer.cursor
           ELSE Len(disk[m])
\* Nothing went wrong so far.
Healthy == writer.pc # "failing" /\ failed = "no"
Waiting(m) == \E i \in DOMAIN retirements : retirements[i].market = m
\* The epoch of the market has not been released.
Live(m) == m \in retired => Waiting(m)

\* A market is retired once per epoch, with its publisher at rest and with what its
\* publisher was; the worker releases what is drained, and leaves nothing.
Retiring ==
    /\ \A i, j \in DOMAIN retirements : retirements[i].market = retirements[j].market => i = j
    /\ \A i \in DOMAIN retirements :
          /\ retirements[i].market \in retired
          /\ retirements[i].gap = publisher[retirements[i].market].volatile
    /\ \A m \in retired :
          /\ publisher[m].pc = "idle"
          /\ Waiting(m) \/ (replay[m] = NewReplay /\ lane[m] = NewLane)
    /\ worker = "release" => retirements # <<>> /\ Drained(Head(retirements).market)

\* A writer that failed closed the queue first.
Failing ==
    /\ writer.pc \in {"failing", "abandon", "ended"} => ~accepting
    /\ failed # "no" => writer.pc \in {"failing", "abandon", "ended"}
    /\ writer.pc = "abandon" => failed # "no"
    /\ \A m \in writer.done : writer.pc \in {"abandon", "ended"} => lane[m].pending = <<>>
    /\ writer.done # {} => writer.pc \in {"abandon", "ended"}
    /\ writer.pc = "ended" => \A m \in Markets : lane[m].pending = <<>>
    /\ writer.pc \in {"persist", "acknowledge", "drop", "failing"} => writer.market \in Markets

\* What is reserved for a market is what it has queued and what the writer holds; a lane
\* with work has its turn.
Reserved(m) ==
    /\ lane[m].used = Len(lane[m].pending) + IF lane[m].active THEN 1 ELSE 0
    /\ lane[m].active <=> Holds(m)
    /\ lane[m].pending # <<>> /\ writer.pc # "abandon" => \E i \in DOMAIN turn : turn[i] = m

\* The archive is a prefix, the queue continues it, and while nothing failed and the
\* market is not live-only they reach to what is published.
Archived(m) ==
    /\ publisher[m].pc = "admitting" => ~publisher[m].volatile
    /\ \A i \in DOMAIN disk[m] : disk[m][i] = i
    /\ Holds(m) => /\ writer.pc = "persist" => writer.cursor = Len(disk[m]) + 1
                   /\ writer.pc \in {"acknowledge", "drop"} => writer.cursor = Len(disk[m])
                   /\ writer.pc = "failing" => \/ writer.cursor = Len(disk[m])
                                               \/ writer.cursor = Len(disk[m]) + 1
    /\ writer.pc \notin {"abandon", "ended"} =>
          \A i \in DOMAIN lane[m].pending : lane[m].pending[i].cursor = Stored(m) + i
    /\ replay[m].durable <= Len(disk[m])
    /\ Healthy /\ Live(m) =>
          /\ Len(disk[m]) = replay[m].durable +
                IF Holds(m) /\ writer.pc = "acknowledge" THEN 1 ELSE 0
          /\ ~publisher[m].volatile =>
                Stored(m) + Len(lane[m].pending) =
                    replay[m].published + IF publisher[m].pc = "admitted" THEN 1 ELSE 0

\* The window is the groups after its floor, charged less once durable; a publisher that
\* holds the lane planned for this window.
Windowed(m) ==
    /\ replay[m].floor + Len(replay[m].groups) = replay[m].published
    /\ \A i \in DOMAIN replay[m].groups :
          /\ replay[m].groups[i].cursor = replay[m].floor + i
          /\ replay[m].groups[i].charge =
                IF replay[m].groups[i].cursor > replay[m].durable THEN Charge ELSE Charge - Release
    /\ Locked(m) => publisher[m].evict = Evictions(replay[m].groups)

\* Nothing reaches the archive before readers can see it.
Seen(m) ==
    /\ \A i \in DOMAIN lane[m].pending :
          /\ lane[m].pending[i].cursor <=
                replay[m].published + IF publisher[m].pc = "admitted" THEN 1 ELSE 0
          /\ lane[m].pending[i].ready => lane[m].pending[i].cursor <= replay[m].published
    /\ Live(m) => Stored(m) <= replay[m].published

\* While the writer looks and nobody woke it, what it could take is still ahead of it, or
\* is being published.
Scanned ==
    ~woken /\ writer.pc \in {"scan", "sleep"} =>
        \A m \in Markets : Takes(m) =>
            \/ publisher[m].pc \in {"admitted", "visible"}
            \/ /\ writer.pc = "scan"
               /\ \E i \in DOMAIN turn : i <= writer.left /\ turn[i] = m

Aggregated == aggregate = Total([m \in Markets |-> lane[m].used], Markets)
Lanes == \A m \in Markets : Reserved(m) /\ Archived(m) /\ Windowed(m) /\ Seen(m)
IInv == PublishTypes /\ QueueTypes /\ OwnerTypes /\ Retiring /\ Failing /\ Lanes /\ Scanned
        /\ Aggregated

-----------------------------------------------------------------------------
(* The limits.                                                             *)

LEMMA LimitTypes ==
  /\ LaneBatches \in Nat \ {0} /\ AllBatches \in Nat \ {0} /\ ReplayGroups \in Nat \ {0}
  /\ Slots \in Nat \ {0} /\ Charge \in Nat /\ Release \in Nat /\ Release < Charge
  /\ ReplayBytes \in Nat /\ Charge <= ReplayBytes /\ IsFiniteSet(Markets)
<1>1. \A n \in {LaneBatches, AllBatches, ReplayGroups, Slots} : n \in Nat \ {0}
  BY LaneAssumption
<1>2. QED BY <1>1, LaneAssumption

-----------------------------------------------------------------------------
(* The bytes of a window.                                                  *)

Charges(groups) == [i \in DOMAIN groups |-> groups[i].charge]

\* Bytes folds over the groups from the last one back; it is the sum of their charges.
LEMMA BytesIsTotal ==
  ASSUME NEW groups \in Seq(Group)
  PROVE Bytes(groups) = Total(Charges(groups), DOMAIN groups)
<1> DEFINE S == DOMAIN groups
           f == Charges(groups)
           Def(G) == [s \in SUBSET S |->
              IF s = {} THEN 0 ELSE G[s \ {Max(s)}] + groups[Max(s)].charge]
           F == CHOOSE G : G = Def(G)
<1>1. Bytes(groups) = F[S]
  BY DEF Bytes, FoldLeft, MapThenFoldSet
<1>2. S = 1..Len(groups) /\ Len(groups) \in Nat /\ IsFiniteSet(S)
  BY LenProperties, FS_Interval
<1>3. \A i \in S : f[i] = groups[i].charge /\ f[i] \in Nat
  <2>1. \A i \in S : groups[i] \in Group
    BY <1>2, ElementOfSeq
  <2>2. QED BY <2>1 DEF Charges, Group
<1>4. ASSUME NEW s \in SUBSET S, s # {} PROVE Max(s) \in s
  <2>1. s \in SUBSET (0..Len(groups))
    BY <1>2
  <2>2. QED BY <1>2, <1>4, <2>1, MaxIsGreatest
<1>5. PICK G : IsSum(G, f, S)
  BY <1>2, <1>3, SumExists
<1>6. \A H : /\ Def(H)[{}] = 0
             /\ \A s \in SUBSET S : s # {} => Def(H)[s] = H[s \ {Max(s)}] + groups[Max(s)].charge
  OBVIOUS
<1>7. G = Def(G)
  <2>1. \A s \in SUBSET S : G[s] = Def(G)[s]
    <3> SUFFICES ASSUME NEW s \in SUBSET S PROVE G[s] = Def(G)[s]
      OBVIOUS
    <3>1. CASE s = {}
      BY <1>5, <1>6, <3>1 DEF IsSum
    <3>2. CASE s # {}
      <4>1. Max(s) \in s /\ Max(s) \in S
        BY <1>4, <3>2
      <4>2. G[s] = f[Max(s)] + G[s \ {Max(s)}]
        BY <1>5, <4>1 DEF IsSum
      <4>3. G[s \ {Max(s)}] \in Int
        BY <1>5 DEF IsSum
      <4>4. G[s] = G[s \ {Max(s)}] + groups[Max(s)].charge
        BY <1>3, <4>1, <4>2, <4>3
      <4>5. QED BY <1>6, <3>2, <4>4
    <3>3. QED BY <3>1, <3>2
  <2>2. G \in [SUBSET S -> Int]
    BY <1>5 DEF IsSum
  <2>3. QED BY <2>1, <2>2
<1>8. F = Def(F)
  BY <1>7
<1> HIDE DEF F
<1>9. F[{}] = 0 /\ \A s \in SUBSET S : s # {} => F[s] = F[s \ {Max(s)}] + groups[Max(s)].charge
  BY <1>6, <1>8
<1> HIDE DEF Def, f
<1>11. AddsUp(F, f, S)
  <2>1. ASSUME NEW s \in SUBSET S, s # {}
        PROVE \E x \in s : AddsLast(F, f, s, x)
    <3>1. Max(s) \in s /\ Max(s) \in S
      BY <1>4, <2>1
    <3>2. AddsLast(F, f, s, Max(s))
      BY <1>3, <1>9, <2>1, <3>1 DEF AddsLast
    <3>3. QED BY <3>1, <3>2
  <2>2. QED BY <1>9, <2>1 DEF AddsUp
<1>12. \A s \in SUBSET S : F[s] = G[s]
  BY <1>2, <1>5, <1>11, SumUnique
<1>13. S \in SUBSET S /\ Total(f, S) = G[S]
  BY <1>2, <1>5, TotalIsSum
<1>14. QED BY <1>1, <1>12, <1>13 DEF f

LEMMA ChargesType ==
  ASSUME NEW groups \in Seq(Group)
  PROVE /\ DOMAIN groups = 1..Len(groups) /\ Len(groups) \in Nat /\ IsFiniteSet(DOMAIN groups)
        /\ \A i \in DOMAIN groups : /\ groups[i] \in Group /\ groups[i].charge \in Nat
                                    /\ Charges(groups)[i] = groups[i].charge
<1>1. DOMAIN groups = 1..Len(groups) /\ Len(groups) \in Nat /\ IsFiniteSet(DOMAIN groups)
  BY LenProperties, FS_Interval
<1>2. \A i \in DOMAIN groups : groups[i] \in Group
  BY <1>1, ElementOfSeq
<1>3. QED BY <1>1, <1>2 DEF Charges, Group

LEMMA BytesNat == ASSUME NEW groups \in Seq(Group) PROVE Bytes(groups) \in Nat
<1>1. IsFiniteSet(DOMAIN groups) /\ \A i \in DOMAIN groups : Charges(groups)[i] \in Nat
  BY ChargesType
<1>2. Total(Charges(groups), DOMAIN groups) \in Nat
  BY <1>1, TotalNat
<1>3. QED BY <1>2, BytesIsTotal

LEMMA BytesEmpty == Bytes(<<>>) = 0
<1>1. <<>> \in Seq(Group) /\ DOMAIN <<>> = {}
  BY EmptySeq, LenProperties
<1>2. Bytes(<<>>) = Total(Charges(<<>>), {})
  BY <1>1, BytesIsTotal
<1>3. QED BY <1>2, TotalEmpty

LEMMA BytesAppend ==
  ASSUME NEW groups \in Seq(Group), NEW g \in Group
  PROVE Bytes(Append(groups, g)) = Bytes(groups) + g.charge
<1> DEFINE more == Append(groups, g)
           n == Len(groups)
<1>1. /\ more \in Seq(Group) /\ Len(more) = n + 1 /\ n \in Nat
      /\ \A i \in 1..n : more[i] = groups[i]
      /\ more[n + 1] = g
  BY AppendProperties, LenProperties
<1> HIDE DEF more, n
<1>2. /\ DOMAIN more = 1..(n + 1) /\ IsFiniteSet(DOMAIN more)
      /\ \A i \in 1..(n + 1) : Charges(more)[i] \in Int /\ Charges(more)[i] = more[i].charge
  BY <1>1, ChargesType
<1>3. /\ DOMAIN groups = 1..n /\ IsFiniteSet(1..n)
      /\ \A i \in 1..n : Charges(groups)[i] \in Int /\ Charges(groups)[i] = groups[i].charge
  BY ChargesType DEF n
<1>4. n + 1 \in 1..(n + 1) /\ (1..(n + 1)) \ {n + 1} = 1..n /\ \A i \in 1..n : i \in 1..(n + 1)
  <2>1. n \in Nat
    BY <1>1
  <2>2. QED BY <2>1
<1>5. Total(Charges(more), 1..(n + 1)) = Charges(more)[n + 1] + Total(Charges(more), 1..n)
  <2> DEFINE S == 1..(n + 1)
  <2>1. IsFiniteSet(S) /\ \A i \in S : Charges(more)[i] \in Int
    BY <1>2
  <2>2. n + 1 \in S /\ S \ {n + 1} = 1..n
    BY <1>4
  <2> HIDE DEF S
  <2>3. Total(Charges(more), S) = Charges(more)[n + 1] + Total(Charges(more), S \ {n + 1})
    BY <2>1, <2>2, TotalRemove
  <2>4. QED BY <2>2, <2>3 DEF S
<1>6. Total(Charges(groups), 1..n) = Total(Charges(more), 1..n)
  <2>1. \A i \in 1..n : Charges(groups)[i] \in Int /\ Charges(groups)[i] = Charges(more)[i]
    BY <1>1, <1>2, <1>3, <1>4
  <2>2. QED BY <1>3, <2>1, TotalSame
<1>7. Charges(more)[n + 1] = g.charge
  BY <1>1, <1>2, <1>4
<1>8. Bytes(more) = g.charge + Bytes(groups)
  BY <1>1, <1>2, <1>3, <1>5, <1>6, <1>7, BytesIsTotal
<1>9. Bytes(groups) \in Nat /\ g.charge \in Nat
  BY BytesNat DEF Group
<1>10. QED BY <1>8, <1>9 DEF more

\* What is evicted and what is kept are all the bytes.
LEMMA BytesSplit ==
  ASSUME NEW groups \in Seq(Group), NEW n \in 0..Len(groups)
  PROVE /\ SubSeq(groups, 1, n) \in Seq(Group)
        /\ SubSeq(groups, n + 1, Len(groups)) \in Seq(Group)
        /\ Bytes(groups) = Bytes(SubSeq(groups, 1, n)) + Bytes(SubSeq(groups, n + 1, Len(groups)))
<1> DEFINE L == Len(groups)
           Pre(k) == SubSeq(groups, 1, k)
           Mid(k) == SubSeq(groups, n + 1, k)
           D == {d \in Nat : n + d <= L =>
                     Bytes(Pre(n + d)) = Bytes(Pre(n)) + Bytes(Mid(n + d))}
<1>1. L \in Nat /\ n \in Nat /\ \A i \in 1..L : groups[i] \in Group
  BY LenProperties, ElementOfSeq
<1>2. \A k \in 0..L : Pre(k) \in Seq(Group) /\ Mid(k) \in Seq(Group)
  <2> SUFFICES ASSUME NEW k \in 0..L PROVE Pre(k) \in Seq(Group) /\ Mid(k) \in Seq(Group)
    OBVIOUS
  <2>1. (\A i \in 1..k : groups[i] \in Group) /\ (\A i \in (n + 1)..k : groups[i] \in Group)
    BY <1>1
  <2>2. QED BY <1>1, <2>1, SubSeqProperties
<1>3. 0 \in D
  <2>1. Mid(n + 0) = <<>> /\ n + 0 = n
    BY <1>1, SubSeqEmpty
  <2>2. Bytes(Pre(n)) \in Nat
    BY <1>1, <1>2, BytesNat
  <2> HIDE DEF Pre, Mid
  <2>3. QED BY <2>1, <2>2, BytesEmpty
<1>4. ASSUME NEW d \in Nat, d \in D PROVE d + 1 \in D
  <2> SUFFICES ASSUME n + (d + 1) <= L
               PROVE Bytes(Pre(n + (d + 1))) = Bytes(Pre(n)) + Bytes(Mid(n + (d + 1)))
    OBVIOUS
  <2> DEFINE k == n + d
  <2>1. /\ k \in 0..L /\ k + 1 \in 1..L /\ n + (d + 1) = k + 1 /\ groups[k + 1] \in Group
        /\ n + 1 \in 1..(k + 1) /\ (k + 1) - 1 = k
    BY <1>1
  <2>2. Pre(k + 1) = Append(Pre(k), groups[k + 1])
    BY <2>1, SubSeqRecursiveSecond, AppendIsConcat, <1>2
  <2>3. Mid(k + 1) = Append(Mid(k), groups[k + 1])
    BY <2>1, SubSeqRecursiveSecond, AppendIsConcat, <1>2
  <2>4. Bytes(Pre(k)) = Bytes(Pre(n)) + Bytes(Mid(k))
    BY <1>4, <2>1
  <2> HIDE DEF k, Pre, Mid
  <2>5. /\ Bytes(Pre(k + 1)) = Bytes(Pre(k)) + groups[k + 1].charge
        /\ Bytes(Mid(k + 1)) = Bytes(Mid(k)) + groups[k + 1].charge
    BY <1>2, <2>1, <2>2, <2>3, BytesAppend
  <2>6. /\ Bytes(Pre(n)) \in Nat /\ Bytes(Mid(k)) \in Nat /\ groups[k + 1].charge \in Nat
    BY <1>1, <1>2, <2>1, BytesNat DEF Group
  <2>7. Bytes(Pre(k + 1)) = Bytes(Pre(n)) + Bytes(Mid(k + 1))
    BY <2>4, <2>5, <2>6
  <2>8. QED BY <2>1, <2>7
<1> HIDE DEF D
<1>5. L - n \in D /\ n + (L - n) = L
  BY <1>1, <1>3, <1>4, NatSetInduction
<1>6. Pre(L) = groups
  BY SubSeqFull
<1>7. Bytes(Pre(L)) = Bytes(Pre(n)) + Bytes(Mid(L))
  <2>1. n + (L - n) <= L
    BY <1>1, <1>5
  <2>2. QED BY <1>5, <2>1 DEF D
<1>8. n \in 0..L /\ L \in 0..L
  BY <1>1
<1>9. QED BY <1>2, <1>6, <1>7, <1>8

\* There is always a number of evictions that makes room, and the planned one does.
LEMMA EvictionsFit ==
  ASSUME NEW groups \in Seq(Group)
  PROVE Evictions(groups) \in 0..Len(groups) /\ Fits(groups, Evictions(groups))
<1> DEFINE T == {n \in 0..Len(groups) : Fits(groups, n)}
<1>1. Len(groups) \in Nat
  BY LenProperties
<1>2. Fits(groups, Len(groups))
  <2>1. SubSeq(groups, Len(groups) + 1, Len(groups)) = <<>>
    BY <1>1, SubSeqEmpty
  <2>2. Len(<<>>) = 0 /\ Bytes(<<>>) = 0
    BY BytesEmpty
  <2>3. 0 + 1 <= ReplayGroups /\ 0 + Charge <= ReplayBytes
    BY LimitTypes
  <2>4. QED BY <2>1, <2>2, <2>3 DEF Fits
<1>3. T \in SUBSET Nat /\ T # {}
  BY <1>1, <1>2
<1>4. Min(T) \in T
  BY <1>3, MinIsLeast
<1>5. QED BY <1>4 DEF Evictions

-----------------------------------------------------------------------------
(* Filtering groups and turns.                                             *)

\* A member keeps its place or moves forward.
LEMMA KeptKeeps ==
  ASSUME NEW U, NEW s \in Seq(U), NEW T
  PROVE /\ Kept(s, T) \in Seq(U)
        /\ \A i \in 1..Len(s) : s[i] \in T =>
              \E j \in 1..Len(Kept(s, T)) : j <= i /\ Kept(s, T)[j] = s[i]
<1>0. PICK F : Collects(F, U, s, T) /\ Kept(s, T) = F[Len(s)]
  BY KeptFun
<1>1. /\ F \in [0..Len(s) -> Seq(U)] /\ F[0] = <<>> /\ Kept(s, T) = F[Len(s)]
      /\ \A i \in 1..Len(s) : F[i] = IF s[i] \in T THEN Append(F[i - 1], s[i]) ELSE F[i - 1]
  BY <1>0 DEF Collects
<1>2. Len(s) \in Nat
  BY LenProperties
<1> DEFINE Moved(n) == /\ Len(F[n]) <= n
                        /\ \A i \in 1..n : s[i] \in T =>
                              \E j \in 1..Len(F[n]) : j <= i /\ F[n][j] = s[i]
           D == {n \in Nat : n <= Len(s) => Moved(n)}
<1>3. 0 \in D
  BY <1>1, EmptySeq
<1>4. ASSUME NEW n \in Nat, n \in D PROVE n + 1 \in D
  <2> SUFFICES ASSUME n + 1 <= Len(s) PROVE Moved(n + 1)
    OBVIOUS
  <2>0. n + 1 \in 1..Len(s) /\ (n + 1) - 1 = n /\ n \in 0..Len(s) /\ Moved(n)
    BY <1>2, <1>4
  <2>1. /\ n + 1 \in 1..Len(s) /\ (n + 1) - 1 = n /\ F[n] \in Seq(U) /\ s[n + 1] \in U
        /\ Len(F[n]) \in Nat /\ Moved(n)
    <3>1. F[n] \in Seq(U) /\ s[n + 1] \in U
      BY <1>1, <2>0, ElementOfSeq
    <3>2. QED BY <2>0, <3>1, LenProperties
  <2>2. CASE s[n + 1] \in T
    <3>1. F[n + 1] = Append(F[n], s[n + 1])
      BY <1>1, <2>1, <2>2
    <3>2. /\ Len(F[n + 1]) = Len(F[n]) + 1
          /\ \A j \in 1..Len(F[n]) : F[n + 1][j] = F[n][j]
          /\ F[n + 1][Len(F[n]) + 1] = s[n + 1]
      BY <2>1, <3>1, AppendProperties
    <3>3. ASSUME NEW i \in 1..(n + 1), s[i] \in T
          PROVE \E j \in 1..Len(F[n + 1]) : j <= i /\ F[n + 1][j] = s[i]
      <4>1. CASE i = n + 1
        BY <2>1, <3>2, <4>1, SMTT(30)
      <4>2. CASE i \in 1..n
        <5>1. PICK j \in 1..Len(F[n]) : j <= i /\ F[n][j] = s[i]
          BY <2>1, <3>3, <4>2
        <5>2. j \in 1..Len(F[n + 1]) /\ F[n + 1][j] = s[i]
          BY <2>1, <3>2, <5>1
        <5>3. QED BY <5>1, <5>2
      <4>3. QED BY <4>1, <4>2
    <3>4. QED BY <2>1, <3>2, <3>3
  <2>3. CASE s[n + 1] \notin T
    <3>1. F[n + 1] = F[n]
      BY <1>1, <2>1, <2>3
    <3>2. ASSUME NEW i \in 1..(n + 1), s[i] \in T PROVE i \in 1..n
      BY <2>3, <3>2
    <3>3. QED BY <2>1, <3>1, <3>2
  <2>4. QED BY <2>2, <2>3
<1> HIDE DEF D
<1>5. Len(s) \in D
  BY <1>2, <1>3, <1>4, NatSetInduction
<1>6. QED BY <1>1, <1>2, <1>5 DEF D

\* A page of consecutive groups is the groups after the cursor.
LEMMA PageIsTheRest ==
  ASSUME NEW s \in Seq(Group), NEW floor \in Nat, NEW after \in Nat,
         \A i \in 1..Len(s) : s[i].cursor = floor + i,
         floor <= after, after <= floor + Len(s)
  PROVE LET page == Kept(s, {g \in ToSet(s) : g.cursor > after})
        IN Len(page) = (floor + Len(s)) - after /\ \A i \in DOMAIN page : page[i].cursor = after + i
<1> DEFINE T == {g \in ToSet(s) : g.cursor > after}
<1>0. PICK F : Collects(F, Group, s, T) /\ Kept(s, T) = F[Len(s)]
  <2> HIDE DEF T
  <2>1. QED BY KeptFun
<1>1. /\ F \in [0..Len(s) -> Seq(Group)] /\ F[0] = <<>> /\ Kept(s, T) = F[Len(s)]
      /\ \A i \in 1..Len(s) : F[i] = IF s[i] \in T THEN Append(F[i - 1], s[i]) ELSE F[i - 1]
  <2> HIDE DEF T
  <2>1. QED BY <1>0 DEF Collects
<1>2. Len(s) \in Nat /\ DOMAIN s = 1..Len(s)
  BY LenProperties
<1>3. \A i \in 1..Len(s) : s[i] \in T <=> floor + i > after
  <2>1. \A i \in 1..Len(s) : s[i] \in ToSet(s)
    BY <1>2 DEF ToSet
  <2>2. QED BY <2>1
<1> HIDE DEF T
<1> DEFINE Grown(n) == /\ Len(F[n]) = IF floor + n > after THEN (floor + n) - after ELSE 0
                       /\ \A j \in 1..Len(F[n]) : F[n][j].cursor = after + j
           D == {n \in Nat : n <= Len(s) => Grown(n)}
<1>4. 0 \in D
  BY <1>1, EmptySeq
<1>5. ASSUME NEW n \in Nat, n \in D PROVE n + 1 \in D
  <2> SUFFICES ASSUME n + 1 <= Len(s) PROVE Grown(n + 1)
    OBVIOUS
  <2>0. n + 1 \in 1..Len(s) /\ (n + 1) - 1 = n /\ n \in 0..Len(s) /\ Grown(n)
    BY <1>2, <1>5
  <2>1. /\ n + 1 \in 1..Len(s) /\ (n + 1) - 1 = n /\ F[n] \in Seq(Group) /\ s[n + 1] \in Group
        /\ Len(F[n]) \in Nat /\ Grown(n)
    <3>1. F[n] \in Seq(Group) /\ s[n + 1] \in Group
      BY <1>1, <2>0, ElementOfSeq
    <3>2. QED BY <2>0, <3>1, LenProperties
  <2>2. CASE floor + (n + 1) > after
    <3>1. F[n + 1] = Append(F[n], s[n + 1])
      <4>1. s[n + 1] \in T
        BY <1>3, <2>1, <2>2
      <4>2. QED BY <1>1, <2>1, <4>1
    <3>2. /\ Len(F[n + 1]) = Len(F[n]) + 1
          /\ \A j \in 1..Len(F[n]) : F[n + 1][j] = F[n][j]
          /\ F[n + 1][Len(F[n]) + 1] = s[n + 1]
      <4>1. F[n] \in Seq(Group) /\ s[n + 1] \in Group
        BY <2>1
      <4> HIDE DEF Grown
      <4>2. QED BY <3>1, <4>1, AppendProperties
    <3>3. Len(F[n]) = (floor + n) - after /\ s[n + 1].cursor = floor + (n + 1)
      BY <2>1, <2>2
    <3>4. Len(F[n + 1]) = (floor + (n + 1)) - after
      BY <3>2, <3>3
    <3>5. ASSUME NEW j \in 1..Len(F[n + 1]) PROVE F[n + 1][j].cursor = after + j
      <4>1. CASE j \in 1..Len(F[n])
        BY <2>1, <3>2, <4>1
      <4>2. CASE j = Len(F[n]) + 1
        BY <2>1, <3>2, <3>3, <4>2, SMTT(30)
      <4>3. QED BY <2>1, <3>2, <4>1, <4>2
    <3>6. QED BY <2>2, <3>4, <3>5
  <2>3. CASE ~(floor + (n + 1) > after)
    <3>1. F[n + 1] = F[n]
      BY <1>1, <1>3, <2>1, <2>3
    <3>2. QED BY <2>1, <2>3, <3>1
  <2>4. QED BY <2>2, <2>3
<1> HIDE DEF D
<1>6. Len(s) \in D
  BY <1>2, <1>4, <1>5, NatSetInduction
<1>7. Grown(Len(s)) /\ F[Len(s)] \in Seq(Group)
  <2>1. Len(s) <= Len(s) /\ Len(s) \in 0..Len(s)
    BY <1>2
  <2>2. Grown(Len(s))
    BY <1>6, <2>1 DEF D
  <2>3. QED BY <1>1, <2>1, <2>2
<1>8. DOMAIN F[Len(s)] = 1..Len(F[Len(s)])
  BY <1>7, LenProperties
<1>9. /\ Len(F[Len(s)]) = (floor + Len(s)) - after
      /\ \A i \in 1..Len(F[Len(s)]) : F[Len(s)][i].cursor = after + i
  BY <1>2, <1>7
<1>10. QED BY <1>1, <1>8, <1>9 DEF T

-----------------------------------------------------------------------------
(* Initial states; what a step that is about another market leaves alone.  *)

LEMMA InitIInv == Init => IInv
<1> SUFFICES ASSUME Init PROVE IInv
  OBVIOUS
<1> USE DEF Init, NewReplay, NewLane, Idle
<1>1. <<>> \in Seq(Group) /\ <<>> \in Seq(Item) /\ <<>> \in Seq(Nat) /\ <<>> \in Seq(Markets)
      /\ <<>> \in Seq(Entry) /\ Len(<<>>) = 0 /\ DOMAIN <<>> = {}
  BY EmptySeq, LenProperties
<1>2. PublishTypes
  BY <1>1 DEF PublishTypes, ReplayLane, Call
<1>3. QueueTypes
  BY <1>1 DEF QueueTypes, QueueLane
<1>4. OwnerTypes
  BY <1>1 DEF OwnerTypes
<1>5. Retiring
  BY <1>1 DEF Retiring
<1>6. Failing
  BY DEF Failing
<1>7. ASSUME NEW m \in Markets PROVE Reserved(m) /\ Archived(m) /\ Windowed(m) /\ Seen(m)
  <2>1. /\ replay[m] = NewReplay /\ lane[m] = NewLane /\ publisher[m] = Idle /\ disk[m] = <<>>
        /\ writer.pc = "look"
    OBVIOUS
  <2>2. Reserved(m)
    BY <1>1, <2>1 DEF Reserved, Holds
  <2>3. Archived(m)
    BY <1>1, <2>1 DEF Archived, Holds, Stored
  <2>4. Windowed(m)
    BY <1>1, <2>1 DEF Windowed, Locked
  <2>5. Seen(m)
    BY <1>1, <2>1 DEF Seen, Stored
  <2>6. QED BY <2>2, <2>3, <2>4, <2>5
<1>8. Scanned
  BY DEF Scanned
<1>9. Aggregated
  <2> DEFINE f == [m \in Markets |-> lane[m].used]
  <2>1. \A x \in Markets : f[x] = 0
    OBVIOUS
  <2> HIDE DEF f
  <2>2. {} \in SUBSET Markets /\ IsFiniteSet(Markets) /\ \A x \in Markets : f[x] \in Int
    BY <2>1, LimitTypes
  <2>3. Total(f, Markets) = Total(f, {})
    BY <2>1, <2>2, TotalSupport
  <2>4. Total(f, Markets) = 0
    BY <2>3, TotalEmpty
  <2>5. QED BY <2>4 DEF Aggregated, f
<1>10. QED BY <1>2, <1>3, <1>4, <1>5, <1>6, <1>7, <1>8, <1>9 DEF IInv, Lanes

\* A step that leaves a market's records alone, and does not move the writer to it or away
\* from it, keeps what is known of the market.
LEMMA Apart ==
  ASSUME NEW k \in Markets, Reserved(k), Archived(k), Windowed(k), Seen(k),
         replay'[k] = replay[k], lane'[k] = lane[k], publisher'[k] = publisher[k],
         disk'[k] = disk[k],
         writer' = writer \/ (~Holds(k) /\ ~Holds(k)'),
         Live(k)' => Live(k), Healthy' => Healthy,
         writer'.pc \notin {"abandon", "ended"} => writer.pc \notin {"abandon", "ended"},
         lane[k].pending # <<>> /\ writer'.pc # "abandon" => \E i \in DOMAIN turn' : turn'[i] = k
  PROVE Reserved(k)' /\ Archived(k)' /\ Windowed(k)' /\ Seen(k)'
<1>1. /\ Holds(k)' <=> Holds(k)
      /\ Holds(k) => writer' = writer
      /\ Stored(k)' = Stored(k)
  BY DEF Holds, Stored
<1>2. Reserved(k)'
  BY <1>1 DEF Reserved
<1>3. Archived(k)'
  BY <1>1 DEF Archived
<1>4. Windowed(k)'
  BY DEF Windowed, Locked
<1>5. Seen(k)'
  BY <1>1 DEF Seen
<1>6. QED BY <1>2, <1>3, <1>4, <1>5

\* A step of one market's publisher.
LEMMA Elsewhere ==
  ASSUME IInv, NEW m \in Markets, m \notin retired,
         \A k \in Markets \ {m} : /\ replay'[k] = replay[k] /\ lane'[k] = lane[k]
                                  /\ publisher'[k] = publisher[k] /\ disk'[k] = disk[k],
         \A k \in Markets : (\E i \in DOMAIN turn : turn[i] = k) => \E i \in DOMAIN turn' : turn'[i] = k,
         UNCHANGED <<writer, failed, retired, retirements, worker>>
  PROVE /\ \A k \in Markets \ {m} : Reserved(k)' /\ Archived(k)' /\ Windowed(k)' /\ Seen(k)'
        /\ OwnerTypes' /\ Retiring' /\ (Healthy' <=> Healthy) /\ (Live(m)' <=> Live(m))
<1>1. /\ \A k \in Markets : Live(k)' <=> Live(k)
      /\ \A k \in Markets : Waiting(k)' <=> Waiting(k)
      /\ Healthy' <=> Healthy
  BY DEF Live, Waiting, Healthy
<1>2. ASSUME NEW k \in Markets \ {m} PROVE Reserved(k)' /\ Archived(k)' /\ Windowed(k)' /\ Seen(k)'
  <2>1. Reserved(k) /\ Archived(k) /\ Windowed(k) /\ Seen(k)
    BY DEF IInv, Lanes
  <2>2. lane[k].pending # <<>> /\ writer'.pc # "abandon" => \E i \in DOMAIN turn' : turn'[i] = k
    BY <2>1 DEF Reserved
  <2>3. QED BY <1>1, <2>1, <2>2, Apart
<1>3. OwnerTypes'
  BY DEF IInv, OwnerTypes
<1>4. Retiring'
  <2>1. /\ retired \in SUBSET Markets
        /\ \A k \in retired : k \in Markets \ {m}
    BY DEF IInv, OwnerTypes
  <2>2. \A i \in DOMAIN retirements : /\ retirements[i].market \in retired
                                      /\ retirements[i].gap = publisher'[retirements[i].market].volatile
    BY <2>1 DEF IInv, Retiring
  <2>3. worker = "release" => retirements # <<>> /\ Drained(Head(retirements).market)'
    <3> SUFFICES ASSUME worker = "release" PROVE retirements # <<>> /\ Drained(Head(retirements).market)'
      OBVIOUS
    <3>1. retirements # <<>> /\ Drained(Head(retirements).market) /\ retirements \in Seq(Entry)
      BY DEF IInv, Retiring, OwnerTypes
    <3>2. 1 \in DOMAIN retirements /\ Head(retirements) = retirements[1]
      BY <3>1
    <3>3. Head(retirements).market \in Markets \ {m}
      BY <2>1, <2>2, <3>2
    <3>4. QED BY <3>1, <3>3 DEF Drained
  <2>4. \A k \in retired : /\ publisher'[k].pc = "idle"
                           /\ Waiting(k)' \/ (replay'[k] = NewReplay /\ lane'[k] = NewLane)
    BY <1>1, <2>1 DEF IInv, Retiring
  <2>5. QED BY <2>2, <2>3, <2>4 DEF IInv, Retiring
<1>5. QED BY <1>1, <1>2, <1>3, <1>4

\* The queue and its writer do not change.
LEMMA SameQueue ==
  ASSUME IInv, UNCHANGED <<lane, aggregate, turn, accepting, woken, writer, failed>>
  PROVE QueueTypes' /\ Failing' /\ Aggregated'
<1>1. QueueTypes'
  BY DEF IInv, QueueTypes
<1>2. Failing'
  BY DEF IInv, Failing
<1>3. Aggregated'
  BY DEF IInv, Aggregated
<1>4. QED BY <1>1, <1>2, <1>3

\* The lanes of a state that satisfies the invariant.
LEMMA LaneTypes ==
  ASSUME IInv, NEW m \in Markets
  PROVE /\ replay[m] \in ReplayLane /\ lane[m] \in QueueLane /\ publisher[m] \in Call
        /\ disk[m] \in Seq(Nat)
        /\ Reserved(m) /\ Archived(m) /\ Windowed(m) /\ Seen(m)
        /\ Evictions(replay[m].groups) \in 0..Len(replay[m].groups)
        /\ Fits(replay[m].groups, Evictions(replay[m].groups))
        /\ Evicted(m) \in Nat
<1>1. /\ replay[m] \in ReplayLane /\ lane[m] \in QueueLane /\ publisher[m] \in Call
      /\ disk[m] \in Seq(Nat)
  BY DEF IInv, PublishTypes, QueueTypes
<1>2. replay[m].groups \in Seq(Group)
  BY <1>1 DEF ReplayLane
<1>3. /\ Evictions(replay[m].groups) \in 0..Len(replay[m].groups)
      /\ Fits(replay[m].groups, Evictions(replay[m].groups))
  BY <1>2, EvictionsFit
<1>4. Evicted(m) \in Nat
  BY <1>2, <1>3, BytesSplit, BytesNat DEF Evicted
<1>5. QED BY <1>1, <1>3, <1>4 DEF IInv, Lanes

LEMMA PendingTypes ==
  ASSUME IInv, NEW m \in Markets
  PROVE /\ lane[m].pending \in Seq(Item) /\ Len(lane[m].pending) \in Nat
        /\ DOMAIN lane[m].pending = 1..Len(lane[m].pending)
        /\ \A i \in DOMAIN lane[m].pending : /\ lane[m].pending[i] \in Item
                                             /\ lane[m].pending[i].cursor \in Nat
                                             /\ lane[m].pending[i].ready \in BOOLEAN
<1>1. lane[m].pending \in Seq(Item)
  BY DEF IInv, QueueTypes, QueueLane
<1>2. DOMAIN lane[m].pending = 1..Len(lane[m].pending) /\ Len(lane[m].pending) \in Nat
  BY <1>1, LenProperties
<1>3. \A i \in DOMAIN lane[m].pending : lane[m].pending[i] \in Item
  BY <1>1, <1>2, ElementOfSeq
<1>4. QED BY <1>1, <1>2, <1>3 DEF Item

\* What is durable has been published.
LEMMA DurableIsSeen ==
  ASSUME IInv, NEW m \in Markets, Live(m)
  PROVE replay[m].durable <= replay[m].published /\ Len(disk[m]) <= replay[m].published
<1>1. Archived(m) /\ Seen(m) /\ replay[m] \in ReplayLane /\ disk[m] \in Seq(Nat)
  BY LaneTypes
<1>2. replay[m].durable \in Nat /\ replay[m].published \in Nat /\ Len(disk[m]) \in Nat
  BY <1>1, LenProperties DEF ReplayLane
<1>3. Stored(m) = Len(disk[m]) \/ Stored(m) = Len(disk[m]) + 1
  BY <1>1 DEF Stored, Archived, Holds
<1>4. replay[m].durable <= Len(disk[m]) /\ Stored(m) <= replay[m].published
  BY <1>1 DEF Archived, Seen
<1>5. QED BY <1>2, <1>3, <1>4

-----------------------------------------------------------------------------
(* The publisher.                                                          *)

LEMMA PlanIInv == ASSUME IInv, NEW m \in Markets, Plan(m) PROVE IInv'
<1> DEFINE r == replay[m]
<1>0. /\ UNCHANGED <<replay, lane, aggregate, turn, accepting, woken, writer, disk>>
      /\ UNCHANGED <<retired, retirements, worker, failed>>
      /\ publisher[m].pc = "idle" /\ m \notin retired
  BY DEF Plan, queueVars, retireVars, Present
<1>1. PICK growth \in Nat, refund \in Nat : publisher' = [publisher EXCEPT ![m] =
          [@ EXCEPT !.pc = "planned", !.evict = Evictions(replay[m].groups),
                    !.growth = growth, !.refund = refund, !.slot = ~replay[m].slot]]
  <2>1. Evicted(m) \in Nat /\ Charge \in Nat
    BY LaneTypes, LimitTypes
  <2>2. (IF Charge > Evicted(m) THEN Charge - Evicted(m) ELSE 0) \in Nat
    BY <2>1
  <2>3. (IF Evicted(m) > Charge THEN Evicted(m) - Charge ELSE 0) \in Nat
    BY <2>1
  <2>4. QED BY <2>2, <2>3 DEF Plan
<1>2. Evictions(replay[m].groups) \in Nat
  BY LaneTypes
<1>3. PublishTypes'
  <2> DEFINE call == [publisher[m] EXCEPT !.pc = "planned", !.evict = Evictions(replay[m].groups),
                        !.growth = growth, !.refund = refund, !.slot = ~replay[m].slot]
  <2>1. PublishTypes
    BY DEF IInv
  <2>2. publisher[m] \in Call /\ replay[m].slot \in BOOLEAN
    BY <2>1 DEF PublishTypes, ReplayLane
  <2>3. call \in Call
    BY ONLY <1>1, <1>2, <2>2 DEF Call
  <2>4. publisher' = [publisher EXCEPT ![m] = call]
    BY <1>1, <2>1 DEF PublishTypes
  <2> HIDE DEF call
  <2>5. QED BY <1>0, <2>1, <2>3, <2>4 DEF PublishTypes
<1>4. publisher \in [Markets -> Call]
  BY DEF IInv, PublishTypes
<1>5. /\ \A k \in Markets \ {m} : publisher'[k] = publisher[k]
      /\ publisher'[m].pc = "planned" /\ publisher'[m].evict = Evictions(replay[m].groups)
      /\ publisher'[m].volatile = publisher[m].volatile
  BY <1>1, <1>4 DEF Call
<1>6. /\ \A k \in Markets \ {m} : Reserved(k)' /\ Archived(k)' /\ Windowed(k)' /\ Seen(k)'
      /\ OwnerTypes' /\ Retiring' /\ (Healthy' <=> Healthy) /\ (Live(m)' <=> Live(m))
  BY <1>0, <1>5, Elsewhere
<1>7. QueueTypes' /\ Failing' /\ Aggregated'
  BY <1>0, SameQueue
<1>8. Reserved(m) /\ Archived(m) /\ Windowed(m) /\ Seen(m)
  BY LaneTypes
<1>9. (Holds(m)' <=> Holds(m)) /\ Stored(m)' = Stored(m)
  BY <1>0 DEF Holds, Stored
<1>10. Reserved(m)' /\ Archived(m)' /\ Windowed(m)' /\ Seen(m)'
  <2>1. Reserved(m)'
    BY <1>0, <1>8, <1>9 DEF Reserved
  <2>2. Archived(m)'
    BY <1>0, <1>5, <1>6, <1>8, <1>9 DEF Archived
  <2>3. Windowed(m)'
    BY <1>0, <1>5, <1>8 DEF Windowed
  <2>4. Seen(m)'
    BY <1>0, <1>5, <1>6, <1>8, <1>9 DEF Seen
  <2>5. QED BY <2>1, <2>2, <2>3, <2>4
<1>11. Scanned'
  BY <1>0, <1>5 DEF IInv, Scanned, Takes
<1>12. QED BY <1>3, <1>6, <1>7, <1>10, <1>11 DEF IInv, Lanes

LEMMA AdmitIInv == ASSUME IInv, NEW m \in Markets, Admit(m) PROVE IInv'
<1>0. /\ UNCHANGED <<replay, lane, aggregate, turn, accepting, woken, writer, disk>>
      /\ UNCHANGED <<retired, retirements, worker, failed>>
      /\ publisher[m].pc = "planned"
  BY DEF Admit, replayVars, queueVars, retireVars
<1>1. m \notin retired
  BY <1>0 DEF IInv, Retiring
<1>2. publisher \in [Markets -> Call]
  BY DEF IInv, PublishTypes
<1>3. /\ \A k \in Markets \ {m} : publisher'[k] = publisher[k]
      /\ publisher'[m] \in Call /\ publisher' \in [Markets -> Call]
      /\ \/ publisher'[m].pc = "admitted" /\ publisher'[m].volatile
         \/ publisher'[m].pc = "admitting" /\ ~publisher[m].volatile /\ ~publisher'[m].volatile
      /\ publisher'[m].evict = publisher[m].evict
  BY <1>2, ZenonT(60) DEF Admit, Call, SkipsQueue
<1>4. PublishTypes'
  BY <1>0, <1>3 DEF IInv, PublishTypes
<1>6. /\ \A k \in Markets \ {m} : Reserved(k)' /\ Archived(k)' /\ Windowed(k)' /\ Seen(k)'
      /\ OwnerTypes' /\ Retiring' /\ (Healthy' <=> Healthy) /\ (Live(m)' <=> Live(m))
  BY <1>0, <1>1, <1>3, Elsewhere
<1>7. QueueTypes' /\ Failing' /\ Aggregated'
  BY <1>0, SameQueue
<1>8. Reserved(m) /\ Archived(m) /\ Windowed(m) /\ Seen(m) /\ replay[m] \in ReplayLane
      /\ lane[m] \in QueueLane
  BY LaneTypes
<1>9. (Holds(m)' <=> Holds(m)) /\ Stored(m)' = Stored(m)
  BY <1>0 DEF Holds, Stored
<1>10. Reserved(m)' /\ Archived(m)' /\ Windowed(m)' /\ Seen(m)'
  <2>1. Reserved(m)'
    BY <1>0, <1>8, <1>9 DEF Reserved
  <2>2. Archived(m)'
    BY <1>0, <1>3, <1>6, <1>8, <1>9 DEF Archived
  <2>3. Windowed(m)'
    BY <1>0, <1>3, <1>8 DEF Windowed, Locked
  <2>4. Seen(m)'
    <3>1. ASSUME NEW i \in DOMAIN lane[m].pending
          PROVE lane[m].pending[i].cursor <=
                    replay[m].published + IF publisher'[m].pc = "admitted" THEN 1 ELSE 0
      <4>1. lane[m].pending[i].cursor <= replay[m].published + 0
        BY <1>0, <1>8 DEF Seen
      <4>2. replay[m].published \in Nat /\ lane[m].pending[i].cursor \in Nat
        BY <1>8, PendingTypes DEF ReplayLane
      <4>3. QED BY <4>1, <4>2
    <3>2. QED BY <1>0, <1>6, <1>8, <1>9, <3>1 DEF Seen
  <2>5. QED BY <2>1, <2>2, <2>3, <2>4
<1>11. Scanned'
  BY <1>0, <1>3 DEF IInv, Scanned, Takes
<1>12. QED BY <1>4, <1>6, <1>7, <1>10, <1>11 DEF IInv, Lanes

\* One lane's reservation changes.
LEMMA AggregateStep ==
  ASSUME IInv, NEW m \in Markets, NEW n \in Nat, lane' \in [Markets -> QueueLane],
         \A k \in Markets \ {m} : lane'[k].used = lane[k].used, lane'[m].used = n
  PROVE Total([k \in Markets |-> lane[k].used], Markets)' = (aggregate - lane[m].used) + n
<1> DEFINE f == [k \in Markets |-> lane[k].used]
           g == [k \in Markets |-> lane'[k].used]
<1>1. \A k \in Markets : f[k] \in Int /\ g[k] \in Int
  <2>1. \A k \in Markets : lane[k] \in QueueLane /\ lane'[k] \in QueueLane
    BY DEF IInv, QueueTypes
  <2>2. QED BY <2>1 DEF QueueLane
<1>2. (\A k \in Markets \ {m} : f[k] = g[k]) /\ g[m] = n /\ f[m] = lane[m].used
  OBVIOUS
<1>3. aggregate = Total(f, Markets)
  BY DEF IInv, Aggregated
<1> HIDE DEF f, g
<1>4. Total(g, Markets) = (Total(f, Markets) - f[m]) + g[m]
  <2>1. IsFiniteSet(Markets)
    BY LimitTypes
  <2>2. \A k \in Markets \ {m} : f[k] = g[k]
    BY <1>2
  <2>3. QED BY <1>1, <2>1, <2>2, TotalUpdate
<1>5. QED BY <1>2, <1>3, <1>4 DEF g

LEMMA PushIInv == ASSUME IInv, NEW m \in Markets, Push(m) PROVE IInv'
<1>0. /\ UNCHANGED <<replay, accepting, writer, disk, retired, retirements, worker, failed>>
      /\ publisher[m].pc = "admitting"
  BY DEF Push, replayVars, retireVars
<1>1. m \notin retired
  BY <1>0 DEF IInv, Retiring
<1>2. publisher \in [Markets -> Call] /\ lane \in [Markets -> QueueLane] /\ turn \in Seq(Markets)
  BY DEF IInv, PublishTypes, QueueTypes
<1>3. /\ Reserved(m) /\ Archived(m) /\ Windowed(m) /\ Seen(m) /\ replay[m] \in ReplayLane
      /\ lane[m] \in QueueLane
  BY LaneTypes
<1>4. (Holds(m)' <=> Holds(m)) /\ Stored(m)' = Stored(m)
  BY <1>0 DEF Holds, Stored
<1>5. CASE WriterAccepts /\ HasCapacity(m)
  <2> DEFINE item == [cursor |-> replay[m].published + 1, ready |-> FALSE]
             p == lane[m].pending
  <2>1. /\ lane' = [lane EXCEPT ![m] = Pushed(lane[m], item)]
        /\ aggregate' = aggregate + 1
        /\ turn' = IF m \in ToSet(turn) THEN turn ELSE Append(turn, m)
        /\ woken' = TRUE /\ accepting
        /\ publisher' = [publisher EXCEPT ![m].pc = "admitted"]
    BY <1>5 DEF Push, WriterAccepts
  <2>2. /\ item \in Item /\ p \in Seq(Item) /\ Len(p) \in Nat /\ Append(p, item) \in Seq(Item)
        /\ Len(Append(p, item)) = Len(p) + 1
        /\ \A i \in 1..Len(p) : Append(p, item)[i] = p[i]
        /\ Append(p, item)[Len(p) + 1] = item
        /\ DOMAIN Append(p, item) = 1..(Len(p) + 1)
        /\ DOMAIN p = 1..Len(p)
    <3>1. item \in Item /\ p \in Seq(Item)
      BY <1>3, PendingTypes DEF ReplayLane, Item
    <3>2. QED BY <3>1, AppendProperties, LenProperties
  <2>3. /\ \A k \in Markets \ {m} : lane'[k] = lane[k] /\ publisher'[k] = publisher[k]
        /\ lane'[m].pending = Append(p, item) /\ lane'[m].used = lane[m].used + 1
        /\ lane'[m].active = lane[m].active /\ lane'[m].draining = lane[m].draining
        /\ publisher'[m].pc = "admitted" /\ publisher'[m].volatile = publisher[m].volatile
        /\ publisher'[m].evict = publisher[m].evict
        /\ publisher' \in [Markets -> Call]
    <3> HIDE DEF item
    <3>1. QED BY <1>2, <2>1 DEF Call, QueueLane, Pushed
  <2>4. lane' \in [Markets -> QueueLane]
    <3> HIDE DEF item
    <3>1. Pushed(lane[m], item) \in QueueLane
      <4>1. Append(lane[m].pending, item) \in Seq(Item) /\ lane[m].used + 1 \in Nat
        BY <1>3, <2>2 DEF QueueLane
      <4>2. QED BY <1>3, <4>1 DEF QueueLane, Pushed
    <3>2. QED BY <1>2, <2>1, <3>1
  <2>5. /\ turn' \in Seq(Markets)
        /\ \A k \in Markets : (\E i \in DOMAIN turn : turn[i] = k) => \E i \in DOMAIN turn' : turn'[i] = k
        /\ \E i \in DOMAIN turn' : turn'[i] = m
    <3>1. CASE m \in ToSet(turn)
      BY <1>2, <2>1, <3>1 DEF ToSet
    <3>2. CASE m \notin ToSet(turn)
      <4>1. /\ turn' \in Seq(Markets) /\ DOMAIN turn' = 1..(Len(turn) + 1) /\ Len(turn) \in Nat
            /\ \A i \in 1..Len(turn) : turn'[i] = turn[i]
            /\ turn'[Len(turn) + 1] = m
        BY <1>2, <2>1, <3>2, AppendProperties, LenProperties
      <4>2. DOMAIN turn = 1..Len(turn)
        BY <1>2, LenProperties
      <4>3. \A i \in 1..Len(turn) : i \in 1..(Len(turn) + 1)
        BY <4>1
      <4>4. QED BY <4>1, <4>2, <4>3
    <3>3. QED BY <3>1, <3>2
  <2> HIDE DEF item, p
  <2>6. PublishTypes'
    BY <1>0, <2>3 DEF IInv, PublishTypes
  <2>7. QueueTypes'
    BY <1>0, <2>1, <2>4, <2>5 DEF IInv, QueueTypes
  <2>8. /\ \A k \in Markets \ {m} : Reserved(k)' /\ Archived(k)' /\ Windowed(k)' /\ Seen(k)'
        /\ OwnerTypes' /\ Retiring' /\ (Healthy' <=> Healthy) /\ (Live(m)' <=> Live(m))
    BY <1>0, <1>1, <2>3, <2>5, Elsewhere
  <2>9. writer.pc \notin {"failing", "abandon", "ended"} /\ Healthy /\ Live(m)
    BY <1>1, <2>1 DEF IInv, Failing, Healthy, Live
  <2>10. Failing'
    BY <1>0, <2>9 DEF IInv, Failing
  <2>11. Aggregated'
    <3>1. lane[m].used \in Nat /\ lane'[m].used \in Nat
      BY <1>3, <2>3 DEF QueueLane
    <3>2. Total([k \in Markets |-> lane[k].used], Markets)' =
              (aggregate - lane[m].used) + (lane[m].used + 1)
      BY <2>3, <2>4, <3>1, AggregateStep
    <3>3. aggregate \in Int
      <4> DEFINE f == [k \in Markets |-> lane[k].used]
      <4>1. \A k \in Markets : f[k] \in Int
        BY <1>2 DEF QueueLane
      <4> HIDE DEF f
      <4>2. Total(f, Markets) \in Int
        BY <4>1, LimitTypes, TotalType
      <4>3. QED BY <4>2 DEF IInv, Aggregated, f
    <3>4. QED BY <2>1, <3>1, <3>2, <3>3 DEF Aggregated
  <2>12. Reserved(m)'
    <3>1. lane'[m].used = Len(lane'[m].pending) + IF lane'[m].active THEN 1 ELSE 0
      <4>1. lane[m].used = Len(p) + IF lane[m].active THEN 1 ELSE 0
        BY <1>3 DEF Reserved, p
      <4>2. QED BY <2>2, <2>3, <4>1
    <3>2. QED BY <1>3, <1>4, <2>3, <2>5, <3>1 DEF Reserved
  <2>13. Archived(m)'
    <3>1. ~publisher[m].volatile
      BY <1>0, <1>3 DEF Archived
    <3>2. Stored(m) + Len(p) = replay[m].published
      BY <1>0, <1>3, <2>9, <3>1 DEF Archived, p, ReplayLane
    <3>3. Stored(m) \in Nat
      BY <1>0, <1>2 DEF Stored, IInv, PublishTypes, QueueTypes
    <3>4. ASSUME NEW i \in 1..(Len(p) + 1) PROVE lane'[m].pending[i].cursor = Stored(m) + i
      <4>1. CASE i \in 1..Len(p)
        BY <1>3, <2>2, <2>3, <2>9, <4>1 DEF Archived, p
      <4>2. CASE i = Len(p) + 1
        BY <2>2, <2>3, <3>2, <3>3, <4>2 DEF item
      <4>3. QED BY <2>2, <4>1, <4>2
    <3>5. /\ \A i \in DOMAIN lane'[m].pending : lane'[m].pending[i].cursor = Stored(m)' + i
          /\ Stored(m)' + Len(lane'[m].pending) = replay'[m].published + 1
      BY <1>0, <1>4, <2>2, <2>3, <3>2, <3>3, <3>4
    <3>6. QED BY <1>0, <1>3, <1>4, <2>3, <2>8, <2>9, <3>5 DEF Archived
  <2>14. Windowed(m)'
    BY <1>0, <1>3, <2>3 DEF Windowed, Locked
  <2>15. Seen(m)'
    <3>1. ASSUME NEW i \in 1..(Len(p) + 1)
          PROVE /\ lane'[m].pending[i].cursor <= replay[m].published + 1
                /\ lane'[m].pending[i].ready => lane'[m].pending[i].cursor <= replay[m].published
      <4>1. CASE i \in 1..Len(p)
        <5>1. /\ p[i].cursor <= replay[m].published + 0
              /\ p[i].cursor \in Nat /\ replay[m].published \in Nat
          BY <1>0, <1>3, <2>2, <4>1, PendingTypes DEF Seen, p, ReplayLane
        <5>2. p[i].cursor <= replay[m].published + 1
          BY <5>1
        <5>3. QED BY <2>2, <2>3, <4>1, <5>1, <5>2
      <4>2. CASE i = Len(p) + 1
        BY <1>3, <2>2, <2>3, <4>2 DEF item, ReplayLane
      <4>3. QED BY <2>2, <4>1, <4>2
    <3>2. QED BY <1>0, <1>3, <1>4, <2>2, <2>3, <2>8, <3>1 DEF Seen
  <2>16. Scanned'
    BY <2>1 DEF Scanned
  <2>17. QED
    BY <2>6, <2>7, <2>8, <2>10, <2>11, <2>12, <2>13, <2>14, <2>15, <2>16 DEF IInv, Lanes
<1>6. CASE ~(WriterAccepts /\ HasCapacity(m))
  <2>1. /\ publisher' = [publisher EXCEPT ![m].pc = "admitted", ![m].volatile = TRUE]
        /\ UNCHANGED <<lane, aggregate, turn, woken>>
    BY <1>6 DEF Push
  <2>2. /\ \A k \in Markets \ {m} : publisher'[k] = publisher[k]
        /\ publisher'[m].pc = "admitted" /\ publisher'[m].volatile
        /\ publisher'[m].evict = publisher[m].evict
        /\ publisher' \in [Markets -> Call]
    BY <1>2, <2>1, ZenonT(60) DEF Call
  <2>3. PublishTypes'
    BY <1>0, <2>2 DEF IInv, PublishTypes
  <2>4. /\ \A k \in Markets \ {m} : Reserved(k)' /\ Archived(k)' /\ Windowed(k)' /\ Seen(k)'
        /\ OwnerTypes' /\ Retiring' /\ (Healthy' <=> Healthy) /\ (Live(m)' <=> Live(m))
    BY <1>0, <1>1, <2>1, <2>2, Elsewhere
  <2>5. QueueTypes' /\ Failing' /\ Aggregated'
    BY <1>0, <2>1, SameQueue
  <2>6. Reserved(m)'
    BY <1>0, <1>3, <1>4, <2>1 DEF Reserved
  <2>7. Archived(m)'
    BY <1>0, <1>3, <1>4, <2>1, <2>2, <2>4 DEF Archived
  <2>8. Windowed(m)'
    BY <1>0, <1>3, <2>1, <2>2 DEF Windowed, Locked
  <2>9. Seen(m)'
    <3>1. ASSUME NEW i \in DOMAIN lane[m].pending
          PROVE lane[m].pending[i].cursor <= replay[m].published + 1
      <4>1. lane[m].pending[i].cursor <= replay[m].published + 0
        BY <1>0, <1>3 DEF Seen
      <4>2. replay[m].published \in Nat /\ lane[m].pending[i].cursor \in Nat
        BY <1>3, PendingTypes DEF ReplayLane
      <4>3. QED BY <4>1, <4>2
    <3>2. QED BY <1>0, <1>3, <1>4, <2>1, <2>2, <2>4, <3>1 DEF Seen
  <2>10. Scanned'
    BY <1>0, <2>1, <2>2 DEF IInv, Scanned, Takes
  <2>11. QED BY <2>3, <2>4, <2>5, <2>6, <2>7, <2>8, <2>9, <2>10 DEF IInv, Lanes
<1>7. QED BY <1>5, <1>6

LEMMA CommitIInv == ASSUME IInv, NEW m \in Markets, Commit(m) PROVE IInv'
<1> DEFINE r == replay[m]
           n == publisher[m].evict
           group == [cursor |-> r.published + 1, charge |-> Charge]
           rest == SubSeq(r.groups, n + 1, Len(r.groups))
           L == Len(r.groups)
<1>0. /\ UNCHANGED <<lane, aggregate, turn, accepting, woken, writer, disk>>
      /\ UNCHANGED <<retired, retirements, worker, failed>>
      /\ publisher[m].pc = "admitted"
      /\ replay' = [replay EXCEPT ![m] = Committed(replay[m], n)]
      /\ publisher' = [publisher EXCEPT ![m] =
            [@ EXCEPT !.pc = "visible", !.evict = 0, !.growth = 0, !.refund = 0, !.slot = FALSE]]
  BY DEF Commit, queueVars, retireVars
<1>1. m \notin retired
  BY <1>0 DEF IInv, Retiring
<1>2. publisher \in [Markets -> Call] /\ replay \in [Markets -> ReplayLane]
  BY DEF IInv, PublishTypes
<1>3. /\ Reserved(m) /\ Archived(m) /\ Windowed(m) /\ Seen(m) /\ r \in ReplayLane
      /\ r.groups \in Seq(Group) /\ Evictions(r.groups) \in 0..L
  BY LaneTypes DEF ReplayLane
<1>4. n \in 0..L /\ L \in Nat /\ DOMAIN r.groups = 1..L
  BY <1>0, <1>3, LenProperties DEF Windowed, Locked
<1>5. group \in Group /\ group.cursor = r.published + 1 /\ group.charge = Charge
  BY <1>3, LimitTypes DEF Group, ReplayLane
<1>6. /\ rest \in Seq(Group) /\ Len(rest) = L - n
      /\ \A i \in 1..(L - n) : rest[i] = r.groups[n + i]
  <2>1. \A i \in (n + 1)..L : r.groups[i] \in Group
    <3>1. \A i \in (n + 1)..L : i \in 1..L
      BY <1>4
    <3>2. QED BY <1>3, <3>1, ElementOfSeq
  <2>2. n + 1 \in Int /\ L \in Int
    BY <1>4
  <2> HIDE DEF n, L, r
  <2>3. /\ rest \in Seq(Group) /\ Len(rest) = IF n + 1 <= L THEN L - (n + 1) + 1 ELSE 0
        /\ \A i \in 1 .. L - (n + 1) + 1 : rest[i] = r.groups[(n + 1) + i - 1]
    BY <2>1, <2>2, SubSeqProperties DEF L
  <2>4. \A i \in 1..(L - n) : i \in 1 .. L - (n + 1) + 1 /\ (n + 1) + i - 1 = n + i
    BY <1>4
  <2>5. QED BY <1>4, <2>3, <2>4
<1> DEFINE more == Append(rest, group)
<1>7. /\ more \in Seq(Group) /\ Len(more) = (L - n) + 1 /\ DOMAIN more = 1..((L - n) + 1)
      /\ \A i \in 1..(L - n) : more[i] = rest[i]
      /\ more[(L - n) + 1] = group
  <2> HIDE DEF rest, group
  <2>1. QED BY <1>5, <1>6, AppendProperties, LenProperties
<1>8. /\ Committed(r, n).published = r.published + 1
      /\ Committed(r, n).floor = IF n = 0 THEN r.floor ELSE r.groups[n].cursor
      /\ Committed(r, n).groups = more
      /\ Committed(r, n).durable = r.durable
      /\ Committed(r, n).slot /\ Committed(r, n).boundary = r.boundary
  BY <1>3 DEF Committed, ReplayLane
<1>9. r.published \in Nat /\ r.floor \in Nat /\ r.durable \in Nat
  BY <1>3 DEF ReplayLane
<1>10. Committed(r, n).floor = r.floor + n
  <2>1. n # 0 => r.groups[n].cursor = r.floor + n
    BY <1>3, <1>4 DEF Windowed
  <2>2. QED BY <1>4, <1>8, <1>9, <2>1
<1>11. Committed(r, n) \in ReplayLane
  <2>1. r.published + 1 \in Nat /\ r.floor + n \in Nat
    BY <1>4, <1>9
  <2> HIDE DEF n, rest, group
  <2>2. Committed(r, n) = [published |-> r.published + 1, durable |-> r.durable, floor |-> r.floor + n,
                           groups |-> more, slot |-> TRUE, boundary |-> r.boundary]
    <3>1. (IF n = 0 THEN r.floor ELSE r.groups[n].cursor) = r.floor + n
      BY <1>8, <1>10
    <3>2. Committed(r, n) = [r EXCEPT !.published = r.published + 1, !.slot = TRUE,
              !.floor = r.floor + n, !.groups = more]
      BY <3>1 DEF Committed, more, rest, group
    <3> HIDE DEF more
    <3>3. QED BY <1>3, <3>2 DEF ReplayLane
  <2> HIDE DEF more
  <2>3. QED BY <1>3, <1>7, <2>1, <2>2 DEF ReplayLane
<1> HIDE DEF n, rest, group, more, L, r
<1>12. /\ \A k \in Markets \ {m} : publisher'[k] = publisher[k] /\ replay'[k] = replay[k]
       /\ publisher'[m].pc = "visible" /\ publisher'[m].volatile = publisher[m].volatile
       /\ publisher' \in [Markets -> Call]
       /\ replay'[m] = Committed(r, n) /\ replay' \in [Markets -> ReplayLane]
  BY <1>0, <1>2, <1>11 DEF Call, r
<1>13. PublishTypes'
  BY <1>0, <1>12 DEF IInv, PublishTypes
<1>14. /\ \A k \in Markets \ {m} : Reserved(k)' /\ Archived(k)' /\ Windowed(k)' /\ Seen(k)'
       /\ OwnerTypes' /\ Retiring' /\ (Healthy' <=> Healthy) /\ (Live(m)' <=> Live(m))
  BY <1>0, <1>1, <1>12, Elsewhere
<1>15. QueueTypes' /\ Failing' /\ Aggregated'
  BY <1>0, SameQueue
<1>16. (Holds(m)' <=> Holds(m)) /\ Stored(m)' = Stored(m) /\ Stored(m) \in Nat
  <2>1. (Holds(m)' <=> Holds(m)) /\ Stored(m)' = Stored(m)
    BY <1>0 DEF Holds, Stored
  <2>2. Stored(m) \in Nat
    BY DEF Stored, IInv, PublishTypes, QueueTypes
  <2>3. QED BY <2>1, <2>2
<1>17. Reserved(m)'
  BY <1>0, <1>3, <1>16 DEF Reserved
<1>18. Archived(m)'
  <2>1. Healthy /\ Live(m) /\ ~publisher[m].volatile =>
            Stored(m) + Len(lane[m].pending) = (r.published + 1) + 0
    BY <1>0, <1>3, <1>9 DEF Archived, r
  <2>2. QED BY <1>0, <1>3, <1>8, <1>12, <1>14, <1>16, <2>1 DEF Archived, r
<1>19. Windowed(m)'
  <2>0. r.durable <= r.published
    BY <1>1, DurableIsSeen DEF r, Live
  <2>1. r.floor + L = r.published
    BY <1>3 DEF Windowed, L, r
  <2>2. (r.floor + n) + ((L - n) + 1) = r.published + 1
    BY <1>4, <1>9, <2>1
  <2>3. ASSUME NEW i \in 1..((L - n) + 1)
        PROVE /\ more[i].cursor = (r.floor + n) + i
              /\ more[i].charge = IF more[i].cursor > r.durable THEN Charge ELSE Charge - Release
    <3>1. CASE i \in 1..(L - n)
      <4>1. n + i \in 1..L /\ more[i] = r.groups[n + i]
        BY <1>4, <1>6, <1>7, <3>1
      <4>2. /\ r.groups[n + i].cursor = r.floor + (n + i)
            /\ r.groups[n + i].charge = IF r.groups[n + i].cursor > r.durable THEN Charge ELSE Charge - Release
        BY <1>3, <1>4, <4>1 DEF Windowed, r
      <4>3. QED BY <1>4, <1>9, <4>1, <4>2
    <3>2. CASE i = (L - n) + 1
      <4>1. more[i] = group /\ group.cursor = r.published + 1 /\ group.charge = Charge
        BY <1>5, <1>7, <3>2
      <4>2. r.published + 1 > r.durable /\ r.published + 1 = (r.floor + n) + i
        BY <1>4, <1>9, <2>0, <2>1, <3>2
      <4>3. QED BY <4>1, <4>2
    <3>3. QED BY <1>4, <3>1, <3>2
  <2>4. ~Locked(m)'
    BY <1>12 DEF Locked
  <2>5. QED BY <1>7, <1>8, <1>10, <1>12, <2>2, <2>3, <2>4 DEF Windowed
<1>20. Seen(m)'
  <2>1. ASSUME NEW i \in DOMAIN lane[m].pending
        PROVE /\ lane[m].pending[i].cursor <= (r.published + 1) + 0
    <3>1. lane[m].pending[i].cursor <= r.published + 1 /\ lane[m].pending[i].cursor \in Nat
      BY <1>0, <1>3, PendingTypes DEF Seen, r
    <3>2. QED BY <1>9, <3>1
  <2>2. ASSUME NEW i \in DOMAIN lane[m].pending, lane[m].pending[i].ready
        PROVE lane[m].pending[i].cursor <= r.published + 1
    BY <1>9, <2>1
  <2>3. Live(m) => Stored(m) <= r.published + 1
    <3>1. Live(m) => Stored(m) <= r.published
      BY <1>3 DEF Seen, r
    <3>2. QED BY <1>9, <1>16, <3>1
  <2>4. QED BY <1>0, <1>8, <1>12, <1>14, <1>16, <2>1, <2>2, <2>3 DEF Seen
<1>21. Scanned'
  BY <1>0, <1>12 DEF IInv, Scanned, Takes
<1>22. QED BY <1>13, <1>14, <1>15, <1>17, <1>18, <1>19, <1>20, <1>21 DEF IInv, Lanes

LEMMA AllReadyKeeps ==
  ASSUME NEW p \in Seq(Item)
  PROVE /\ AllReady(p) \in Seq(Item) /\ Len(AllReady(p)) = Len(p) /\ DOMAIN AllReady(p) = DOMAIN p
        /\ DOMAIN p = 1..Len(p) /\ Len(p) \in Nat
        /\ \A i \in DOMAIN p : AllReady(p)[i].cursor = p[i].cursor
        /\ AllReady(p) = <<>> <=> p = <<>>
<1>1. DOMAIN p = 1..Len(p) /\ Len(p) \in Nat /\ \A i \in 1..Len(p) : p[i] \in Item
  BY LenProperties, ElementOfSeq
<1>2. \A i \in 1..Len(p) : [p[i] EXCEPT !.ready = TRUE] \in Item
  BY <1>1 DEF Item
<1>3. \A i \in 1..Len(p) : AllReady(p)[i].cursor = p[i].cursor
  BY <1>1 DEF Item, AllReady
<1>4. AllReady(p) = [i \in 1..Len(p) |-> [p[i] EXCEPT !.ready = TRUE]]
  BY <1>1 DEF AllReady
<1>5. AllReady(p) \in Seq(Item) /\ Len(AllReady(p)) = Len(p) /\ DOMAIN AllReady(p) = 1..Len(p)
  BY <1>1, <1>2, <1>4
<1>6. AllReady(p) = <<>> <=> p = <<>>
  BY <1>1, <1>5, EmptySeq
<1>7. QED BY <1>1, <1>3, <1>5, <1>6

LEMMA ReadyIInv == ASSUME IInv, NEW m \in Markets, Ready(m) PROVE IInv'
<1> DEFINE p == lane[m].pending
<1>0. /\ UNCHANGED <<replay, aggregate, turn, accepting, writer, disk>>
      /\ UNCHANGED <<retired, retirements, worker, failed>>
      /\ publisher[m].pc = "visible" /\ woken' = TRUE
      /\ publisher' = [publisher EXCEPT ![m].pc = "idle"]
      /\ lane' = [lane EXCEPT ![m].pending = AllReady(p)]
  BY DEF Ready, replayVars, retireVars
<1>1. m \notin retired
  BY <1>0 DEF IInv, Retiring
<1>2. publisher \in [Markets -> Call] /\ lane \in [Markets -> QueueLane]
  BY DEF IInv, PublishTypes, QueueTypes
<1>3. /\ Reserved(m) /\ Archived(m) /\ Windowed(m) /\ Seen(m) /\ replay[m] \in ReplayLane
      /\ lane[m] \in QueueLane
  BY LaneTypes
<1>4. /\ AllReady(p) \in Seq(Item) /\ Len(AllReady(p)) = Len(p) /\ DOMAIN AllReady(p) = DOMAIN p
      /\ \A i \in DOMAIN p : AllReady(p)[i].cursor = p[i].cursor
      /\ AllReady(p) = <<>> <=> p = <<>>
  BY PendingTypes, AllReadyKeeps
<1>5. /\ \A k \in Markets \ {m} : lane'[k] = lane[k] /\ publisher'[k] = publisher[k]
      /\ lane'[m].pending = AllReady(p) /\ lane'[m].used = lane[m].used
      /\ lane'[m].active = lane[m].active
      /\ publisher'[m].pc = "idle" /\ publisher'[m].volatile = publisher[m].volatile
      /\ publisher' \in [Markets -> Call]
  BY <1>0, <1>2 DEF Call, QueueLane
<1>6. lane' \in [Markets -> QueueLane]
  BY <1>0, <1>2, <1>4 DEF QueueLane
<1>7. PublishTypes'
  BY <1>0, <1>5 DEF IInv, PublishTypes
<1>8. QueueTypes'
  BY <1>0, <1>6 DEF IInv, QueueTypes
<1>9. /\ \A k \in Markets \ {m} : Reserved(k)' /\ Archived(k)' /\ Windowed(k)' /\ Seen(k)'
      /\ OwnerTypes' /\ Retiring' /\ (Healthy' <=> Healthy) /\ (Live(m)' <=> Live(m))
  BY <1>0, <1>1, <1>5, Elsewhere
<1>10. Failing'
  <2>1. \A k \in Markets : lane[k].pending = <<>> => lane'[k].pending = <<>>
    BY <1>4, <1>5
  <2>2. writer.done \in SUBSET Markets
    BY DEF IInv, QueueTypes
  <2>3. QED BY <1>0, <2>1, <2>2 DEF IInv, Failing
<1>11. Aggregated'
  <2>1. [k \in Markets |-> lane[k].used]' = [k \in Markets |-> lane[k].used]
    BY <1>5
  <2>2. QED BY <1>0, <2>1 DEF IInv, Aggregated
<1>12. (Holds(m)' <=> Holds(m)) /\ Stored(m)' = Stored(m)
  BY <1>0 DEF Holds, Stored
<1> HIDE DEF p
<1>13. Reserved(m)'
  BY <1>0, <1>3, <1>4, <1>5, <1>12, ZenonT(60) DEF Reserved, p
<1>14. Archived(m)'
  BY <1>0, <1>3, <1>4, <1>5, <1>9, <1>12 DEF Archived, p
<1>15. Windowed(m)'
  BY <1>0, <1>3, <1>5 DEF Windowed, Locked
<1>16. Seen(m)'
  <2>1. ASSUME NEW i \in DOMAIN p
        PROVE AllReady(p)[i].cursor <= replay[m].published + 0 /\ AllReady(p)[i].cursor <= replay[m].published
    <3>1. p[i].cursor <= replay[m].published + 0 /\ p[i].cursor \in Nat /\ replay[m].published \in Nat
      BY <1>0, <1>3, PendingTypes DEF Seen, p, ReplayLane
    <3>2. QED BY <1>4, <3>1
  <2>2. QED BY <1>0, <1>3, <1>4, <1>5, <1>9, <1>12, <2>1 DEF Seen
<1>17. Scanned'
  BY <1>0 DEF Scanned
<1>18. QED BY <1>7, <1>8, <1>9, <1>10, <1>11, <1>13, <1>14, <1>15, <1>16, <1>17 DEF IInv, Lanes

-----------------------------------------------------------------------------
(* The writer.                                                             *)

\* The owner's records do not change.
LEMMA SameOwner ==
  ASSUME IInv, UNCHANGED <<replay, lane, publisher, retired, retirements, worker>>,
         failed' \in {"no", "health", "error"}
  PROVE OwnerTypes' /\ Retiring'
<1>1. OwnerTypes'
  BY DEF IInv, OwnerTypes
<1>2. \A k \in Markets : Waiting(k)' <=> Waiting(k)
  BY DEF Waiting
<1>3. retired \in SUBSET Markets /\ \A k \in Markets : Drained(k)' <=> Drained(k)
  BY DEF IInv, OwnerTypes, Drained
<1>4. Retiring'
  BY <1>2, <1>3 DEF IInv, Retiring, Drained
<1>5. QED BY <1>1, <1>4

\* A writer that holds nothing and takes nothing.
LEMMA WriterMoves ==
  ASSUME IInv, UNCHANGED <<replay, lane, publisher, disk, turn, retired, retirements, worker>>,
         failed' \in {"no", "health", "error"}, Healthy' => Healthy,
         writer.pc \notin {"persist", "acknowledge", "drop", "failing"},
         writer'.pc \notin {"persist", "acknowledge", "drop", "failing"},
         writer.pc \in {"abandon", "ended"} => writer'.pc \in {"abandon", "ended"},
         writer.pc = "abandon" /\ writer'.pc # "abandon" => \A k \in Markets : lane[k].pending = <<>>
  PROVE PublishTypes' /\ OwnerTypes' /\ Retiring' /\ Lanes'
<1>1. PublishTypes'
  BY DEF IInv, PublishTypes
<1>2. OwnerTypes' /\ Retiring'
  BY SameOwner
<1>3. ASSUME NEW k \in Markets PROVE Reserved(k)' /\ Archived(k)' /\ Windowed(k)' /\ Seen(k)'
  <2>1. Reserved(k) /\ Archived(k) /\ Windowed(k) /\ Seen(k)
    BY LaneTypes
  <2>2. ~Holds(k) /\ ~Holds(k)' /\ (Live(k)' => Live(k))
    BY DEF Holds, Live, Waiting
  <2>3. lane[k].pending # <<>> /\ writer'.pc # "abandon" => \E i \in DOMAIN turn' : turn'[i] = k
    BY <2>1 DEF Reserved
  <2>4. QED BY <2>1, <2>2, <2>3, Apart
<1>4. QED BY <1>1, <1>2, <1>3 DEF Lanes

\* When the aggregate budget is free, no lane has work.
LEMMA Nothing ==
  ASSUME IInv, aggregate = 0 PROVE \A k \in Markets : lane[k].pending = <<>>
<1> SUFFICES ASSUME NEW k \in Markets PROVE lane[k].pending = <<>>
  OBVIOUS
<1> DEFINE f == [m \in Markets |-> lane[m].used]
<1>1. \A m \in Markets : lane[m].used \in Nat
  BY DEF IInv, QueueTypes, QueueLane
<1>2. Total(f, Markets) = 0
  BY DEF IInv, Aggregated
<1>3. f[k] = lane[k].used /\ \A m \in Markets : f[m] \in Nat /\ f[m] \in Int
  BY <1>1
<1> HIDE DEF f
<1>4. IsFiniteSet(Markets) /\ IsFiniteSet(Markets \ {k})
  BY LimitTypes, FS_Subset
<1>5. Total(f, Markets) = f[k] + Total(f, Markets \ {k})
  BY <1>3, <1>4, TotalRemove
<1>6. Total(f, Markets \ {k}) \in Nat
  BY <1>3, <1>4, TotalNat
<1>7. lane[k].used = 0
  BY <1>2, <1>3, <1>5, <1>6
<1>8. Len(lane[k].pending) = 0
  <2>1. lane[k].used = Len(lane[k].pending) + IF lane[k].active THEN 1 ELSE 0
    BY LaneTypes DEF Reserved
  <2>2. Len(lane[k].pending) \in Nat
    BY PendingTypes
  <2>3. lane[k].active => Len(lane[k].pending) + 1 = 0
    BY <1>7, <2>1
  <2>4. ~lane[k].active => Len(lane[k].pending) + 0 = 0
    BY <1>7, <2>1
  <2>5. QED BY <2>2, <2>3, <2>4
<1>9. lane[k].pending \in Seq(Item)
  BY PendingTypes
<1>10. QED BY <1>8, <1>9, EmptySeq

LEMMA LookIInv == ASSUME IInv, Look PROVE IInv'
<1>0. /\ UNCHANGED <<replay, lane, aggregate, turn, accepting, publisher, disk>>
      /\ UNCHANGED <<retired, retirements, worker, failed>>
      /\ writer.pc = "look" /\ woken' = FALSE
      /\ writer' = [writer EXCEPT !.pc = "scan", !.left = Len(turn)]
  BY DEF Look, replayVars, queueVars, retireVars
<1>1. turn \in Seq(Markets) /\ Len(turn) \in Nat /\ DOMAIN turn = 1..Len(turn)
  BY LenProperties DEF IInv, QueueTypes
<1>2. QueueTypes' /\ writer'.pc = "scan" /\ writer'.left = Len(turn) /\ writer'.done = writer.done
  BY <1>0, <1>1 DEF IInv, QueueTypes
<1>3. Healthy' => Healthy
  BY <1>0 DEF Healthy
<1>4. PublishTypes' /\ OwnerTypes' /\ Retiring' /\ Lanes'
  <2>1. failed' \in {"no", "health", "error"}
    BY <1>0 DEF IInv, OwnerTypes
  <2>2. QED BY <1>0, <1>2, <1>3, <2>1, WriterMoves
<1>5. Failing'
  BY <1>0, <1>2 DEF IInv, Failing
<1>6. Aggregated'
  BY <1>0 DEF IInv, Aggregated
<1>7. Scanned'
  <2>1. ASSUME NEW k \in Markets, lane[k].pending # <<>>
        PROVE \E i \in DOMAIN turn : i <= Len(turn) /\ turn[i] = k
    <3>1. PICK i \in DOMAIN turn : turn[i] = k
      BY <1>0, <2>1, LaneTypes DEF Reserved
    <3>2. QED BY <1>1, <3>1
  <2>2. QED BY <1>0, <1>2, <2>1 DEF Scanned, Takes
<1>8. QED BY <1>2, <1>4, <1>5, <1>6, <1>7 DEF IInv

LEMMA RestIInv == ASSUME IInv, Rest PROVE IInv'
<1>0. /\ UNCHANGED <<replay, lane, aggregate, turn, accepting, woken, publisher, disk>>
      /\ UNCHANGED <<retired, retirements, worker, failed>>
      /\ writer.pc = "scan" /\ writer.left = 0
      /\ \/ ~accepting /\ aggregate = 0 /\ writer' = [writer EXCEPT !.pc = "ended"]
         \/ writer' = [writer EXCEPT !.pc = "sleep"]
  BY DEF Rest, replayVars, queueVars, retireVars
<1>2. QueueTypes' /\ writer'.done = writer.done
      /\ (writer'.pc = "sleep" \/ (writer'.pc = "ended" /\ ~accepting /\ aggregate = 0))
  BY <1>0 DEF IInv, QueueTypes
<1>3. Healthy' => Healthy
  BY <1>0 DEF Healthy
<1>4. PublishTypes' /\ OwnerTypes' /\ Retiring' /\ Lanes'
  <2>1. failed' \in {"no", "health", "error"}
    BY <1>0 DEF IInv, OwnerTypes
  <2>2. QED BY <1>0, <1>2, <1>3, <2>1, WriterMoves
<1>5. Failing'
  <2>1. aggregate = 0 => \A k \in Markets : lane[k].pending = <<>>
    BY Nothing
  <2>2. QED BY <1>0, <1>2, <2>1 DEF IInv, Failing
<1>6. Aggregated'
  BY <1>0 DEF IInv, Aggregated
<1>7. Scanned'
  <2>1. turn \in Seq(Markets) /\ DOMAIN turn = 1..Len(turn)
    BY LenProperties DEF IInv, QueueTypes
  <2>2. \A i \in DOMAIN turn : ~(i <= 0)
    BY <2>1
  <2>3. QED BY <1>0, <1>2, <2>2 DEF IInv, Scanned, Takes
<1>8. QED BY <1>2, <1>4, <1>5, <1>6, <1>7 DEF IInv

LEMMA AwakeIInv == ASSUME IInv, Awake PROVE IInv'
<1>0. /\ UNCHANGED <<replay, lane, aggregate, turn, accepting, woken, publisher, disk>>
      /\ UNCHANGED <<retired, retirements, worker, failed>>
      /\ writer.pc = "sleep" /\ writer' = [writer EXCEPT !.pc = "look"]
  BY DEF Awake, replayVars, queueVars, retireVars
<1>2. QueueTypes' /\ writer'.done = writer.done /\ writer'.pc = "look"
  BY <1>0 DEF IInv, QueueTypes
<1>3. Healthy' => Healthy
  BY <1>0 DEF Healthy
<1>4. PublishTypes' /\ OwnerTypes' /\ Retiring' /\ Lanes'
  <2>1. failed' \in {"no", "health", "error"}
    BY <1>0 DEF IInv, OwnerTypes
  <2>2. QED BY <1>0, <1>2, <1>3, <2>1, WriterMoves
<1>5. Failing'
  BY <1>0, <1>2 DEF IInv, Failing
<1>6. Aggregated'
  BY <1>0 DEF IInv, Aggregated
<1>7. Scanned'
  BY <1>2 DEF Scanned
<1>8. QED BY <1>2, <1>4, <1>5, <1>6, <1>7 DEF IInv

LEMMA AbandonEndIInv == ASSUME IInv, AbandonEnd PROVE IInv'
<1>0. /\ UNCHANGED <<replay, lane, aggregate, turn, accepting, woken, publisher, disk>>
      /\ UNCHANGED <<retired, retirements, worker>>
      /\ writer.pc = "abandon" /\ writer.done = Markets /\ failed' = "error"
      /\ writer' = [writer EXCEPT !.pc = "ended"]
  BY DEF AbandonEnd, replayVars, queueVars, retireVars
<1>1. \A k \in Markets : lane[k].pending = <<>>
  BY <1>0 DEF IInv, Failing
<1>2. QueueTypes' /\ writer'.done = writer.done /\ writer'.pc = "ended"
  BY <1>0 DEF IInv, QueueTypes
<1>3. Healthy' => Healthy
  BY <1>0 DEF Healthy
<1>4. PublishTypes' /\ OwnerTypes' /\ Retiring' /\ Lanes'
  BY <1>0, <1>1, <1>2, <1>3, WriterMoves
<1>5. Failing'
  BY <1>0, <1>1, <1>2 DEF IInv, Failing
<1>6. Aggregated'
  BY <1>0 DEF IInv, Aggregated
<1>7. Scanned'
  BY <1>2 DEF Scanned
<1>8. QED BY <1>2, <1>4, <1>5, <1>6, <1>7 DEF IInv

\* A step of the writer on one market: the others...
LEMMA Beside ==
  ASSUME IInv, NEW m \in Markets,
         \A k \in Markets \ {m} : /\ replay'[k] = replay[k] /\ lane'[k] = lane[k]
                                  /\ publisher'[k] = publisher[k] /\ disk'[k] = disk[k]
                                  /\ ~Holds(k) /\ ~Holds(k)',
         UNCHANGED <<retired, retirements>>, Healthy' => Healthy,
         writer'.pc \notin {"abandon", "ended"} => writer.pc \notin {"abandon", "ended"},
         \A k \in Markets \ {m} : lane[k].pending # <<>> /\ writer'.pc # "abandon"
                => \E i \in DOMAIN turn' : turn'[i] = k
  PROVE \A k \in Markets \ {m} : Reserved(k)' /\ Archived(k)' /\ Windowed(k)' /\ Seen(k)'
<1> SUFFICES ASSUME NEW k \in Markets \ {m}
             PROVE Reserved(k)' /\ Archived(k)' /\ Windowed(k)' /\ Seen(k)'
  OBVIOUS
<1>1. Reserved(k) /\ Archived(k) /\ Windowed(k) /\ Seen(k)
  BY LaneTypes
<1>2. Live(k)' => Live(k)
  BY DEF Live, Waiting
<1>3. QED BY <1>1, <1>2, Apart

\* ... and the retirement of the one, which has work and so is neither released nor drained.
LEMMA BusyRetiring ==
  ASSUME IInv, NEW m \in Markets, lane[m].used # 0,
         \A k \in Markets \ {m} : replay'[k] = replay[k] /\ lane'[k] = lane[k],
         UNCHANGED <<publisher, retired, retirements, worker>>
  PROVE Retiring'
<1>1. \A k \in Markets : Waiting(k)' <=> Waiting(k)
  BY DEF Waiting
<1>2. retired \in SUBSET Markets /\ (m \in retired => Waiting(m))
  BY DEF IInv, OwnerTypes, Retiring, NewLane
<1>3. \A k \in retired : /\ publisher'[k].pc = "idle"
                         /\ Waiting(k)' \/ (replay'[k] = NewReplay /\ lane'[k] = NewLane)
  BY <1>1, <1>2 DEF IInv, Retiring
<1>4. worker = "release" => retirements # <<>> /\ Drained(Head(retirements).market)'
  <2> SUFFICES ASSUME worker = "release" PROVE retirements # <<>> /\ Drained(Head(retirements).market)'
    OBVIOUS
  <2>1. retirements # <<>> /\ Drained(Head(retirements).market) /\ retirements \in Seq(Entry)
    BY DEF IInv, Retiring, OwnerTypes
  <2>2. Head(retirements).market \in Markets
    <3>1. Head(retirements) \in Entry
      BY <2>1
    <3>2. QED BY <3>1 DEF Entry
  <2>3. Head(retirements).market # m
    BY <2>1 DEF Drained
  <2>4. QED BY <2>1, <2>2, <2>3 DEF Drained
<1>5. QED BY <1>3, <1>4 DEF IInv, Retiring

LEMMA ScanIInv == ASSUME IInv, Scan PROVE IInv'
<1>0. /\ UNCHANGED <<replay, aggregate, accepting, woken, publisher, disk>>
      /\ UNCHANGED <<retired, retirements, worker, failed>>
      /\ writer.pc = "scan" /\ writer.left > 0
  BY DEF Scan, replayVars, retireVars
<1>1. /\ turn \in Seq(Markets) /\ Len(turn) \in Nat /\ DOMAIN turn = 1..Len(turn)
      /\ writer.left \in Nat /\ writer.left - 1 \in Nat
      /\ lane \in [Markets -> QueueLane]
  <2>1. turn \in Seq(Markets) /\ lane \in [Markets -> QueueLane] /\ writer.left \in Nat
    BY DEF IInv, QueueTypes
  <2>2. QED BY <1>0, <2>1, LenProperties
<1>2. failed' \in {"no", "health", "error"} /\ failed = "no"
  BY <1>0 DEF IInv, OwnerTypes, Failing
<1>3. CASE turn = <<>>
  <2>1. UNCHANGED <<turn, lane>> /\ writer' = [writer EXCEPT !.left = 0]
    BY <1>3 DEF Scan
  <2>2. QueueTypes' /\ writer'.pc = "scan" /\ writer'.done = writer.done /\ writer'.left = 0
    BY <1>0, <2>1 DEF IInv, QueueTypes
  <2>3. Healthy' => Healthy
    BY <1>0, <2>2 DEF Healthy
  <2>4. PublishTypes' /\ OwnerTypes' /\ Retiring' /\ Lanes'
    BY <1>0, <1>2, <2>1, <2>2, <2>3, WriterMoves
  <2>5. Failing'
    BY <1>0, <2>1, <2>2 DEF IInv, Failing
  <2>6. Aggregated'
    BY <1>0, <2>1 DEF IInv, Aggregated
  <2>7. Scanned'
    <3>1. DOMAIN turn = {}
      BY <1>3
    <3>2. QED BY <1>0, <2>1, <2>2, <3>1 DEF IInv, Scanned, Takes
  <2>8. QED BY <2>2, <2>4, <2>5, <2>6, <2>7 DEF IInv
<1>4. CASE turn # <<>>
  <2>0. PICK m \in Markets : m = Head(turn)
    BY <1>1, <1>4, HeadTailProperties
  <2> DEFINE p == lane[m].pending
             more == \/ publisher[m].pc = "admitting"
                     \/ Len(lane[m].pending) > IF Takes(m) THEN 1 ELSE 0
  <2>1. /\ turn' = IF more THEN Append(Tail(turn), m) ELSE Tail(turn)
        /\ IF Takes(m)
           THEN /\ lane' = [lane EXCEPT ![m].pending = Tail(@), ![m].active = TRUE]
                /\ writer' = [writer EXCEPT !.pc = "persist", !.left = 0, !.market = m,
                                            !.cursor = Head(lane[m].pending).cursor]
           ELSE /\ writer' = [writer EXCEPT !.left = @ - 1]
                /\ UNCHANGED lane
    BY <1>4, <2>0 DEF Scan
  <2>2. /\ m \in Markets /\ m = turn[1] /\ Tail(turn) \in Seq(Markets)
        /\ Len(Tail(turn)) = Len(turn) - 1
        /\ \A i \in 1..(Len(turn) - 1) : Tail(turn)[i] = turn[i + 1]
        /\ Len(turn) - 1 \in Nat
    BY <1>1, <1>4, <2>0, HeadTailProperties
  <2>3. /\ turn' \in Seq(Markets)
        /\ \A i \in 1..(Len(turn) - 1) : i \in DOMAIN turn' /\ turn'[i] = turn[i + 1]
        /\ more => \E i \in DOMAIN turn' : turn'[i] = m
    <3> HIDE DEF more
    <3>1. CASE more
      <4>1. /\ turn' \in Seq(Markets) /\ Len(turn') = (Len(turn) - 1) + 1
            /\ \A i \in 1..(Len(turn) - 1) : turn'[i] = Tail(turn)[i]
            /\ turn'[(Len(turn) - 1) + 1] = m
        BY <2>1, <2>2, <3>1, AppendProperties
      <4>2. DOMAIN turn' = 1..Len(turn')
        BY <4>1, LenProperties
      <4>3. /\ \A i \in 1..(Len(turn) - 1) : i \in 1..((Len(turn) - 1) + 1)
            /\ (Len(turn) - 1) + 1 \in 1..((Len(turn) - 1) + 1)
        BY <2>2
      <4>4. QED BY <2>2, <4>1, <4>2, <4>3
    <3>2. CASE ~more
      <4>1. turn' = Tail(turn) /\ DOMAIN Tail(turn) = 1..Len(Tail(turn))
        BY <2>1, <2>2, <3>2, LenProperties
      <4>2. QED BY <2>2, <3>2, <4>1
    <3>3. QED BY <3>1, <3>2
  <2>4. ASSUME NEW k \in Markets \ {m}, NEW i \in DOMAIN turn, turn[i] = k
        PROVE i - 1 \in DOMAIN turn' /\ turn'[i - 1] = k /\ i \in Nat
    <3>1. i # 1
      BY <2>2, <2>4
    <3>2. i - 1 \in 1..(Len(turn) - 1) /\ (i - 1) + 1 = i
      BY <1>1, <3>1
    <3>3. QED BY <1>1, <2>3, <2>4, <3>2
  <2>5. ASSUME NEW k \in Markets \ {m}, lane[k].pending # <<>> PROVE \E i \in DOMAIN turn' : turn'[i] = k
    <3>1. PICK i \in DOMAIN turn : turn[i] = k
      BY <1>0, <2>5, LaneTypes DEF Reserved
    <3>2. QED BY <2>4, <3>1
  <2>6. /\ p \in Seq(Item) /\ Len(p) \in Nat /\ DOMAIN p = 1..Len(p)
        /\ Reserved(m) /\ Archived(m) /\ Windowed(m) /\ Seen(m) /\ lane[m] \in QueueLane
        /\ replay[m] \in ReplayLane
    BY <2>2, PendingTypes, LaneTypes
  <2>7. writer \in [pc : {"look", "scan", "sleep", "persist", "acknowledge", "drop", "failing",
                         "abandon", "ended"},
                   left : Nat, market : Markets \cup {"none"}, cursor : Nat,
                   done : SUBSET Markets]
    BY DEF IInv, QueueTypes
  <2>8. CASE ~Takes(m)
    <3>1. writer' = [writer EXCEPT !.left = writer.left - 1] /\ UNCHANGED lane
      BY <2>1, <2>8
    <3>2. /\ writer'.pc = "scan" /\ writer'.left = writer.left - 1 /\ writer'.done = writer.done
      BY <1>0, <2>7, <3>1
    <3>3. QueueTypes'
      BY <1>0, <1>1, <2>3, <2>7, <3>1 DEF IInv, QueueTypes
    <3>4. p # <<>> => more
      <4>1. p # <<>> => Len(p) > 0
        BY <2>6
      <4>2. QED BY <2>8, <4>1
    <3>5. Healthy' => Healthy
      BY <1>0, <3>2 DEF Healthy
    <3>6. ASSUME NEW k \in Markets PROVE Reserved(k)' /\ Archived(k)' /\ Windowed(k)' /\ Seen(k)'
      <4>1. ~Holds(k) /\ ~Holds(k)' /\ (Live(k)' => Live(k))
        BY <1>0, <3>2 DEF Holds, Live, Waiting
      <4>2. lane[k].pending # <<>> => \E i \in DOMAIN turn' : turn'[i] = k
        <5>1. CASE k = m
          BY <2>3, <3>4, <5>1
        <5>2. CASE k # m
          BY <2>5, <5>2
        <5>3. QED BY <5>1, <5>2
      <4>3. Reserved(k) /\ Archived(k) /\ Windowed(k) /\ Seen(k)
        BY LaneTypes
      <4> HIDE DEF p, more
      <4>4. QED BY <1>0, <3>1, <3>2, <3>5, <4>1, <4>2, <4>3, Apart
    <3>7. OwnerTypes' /\ Retiring'
      BY <1>0, <1>2, <3>1, SameOwner
    <3>8. PublishTypes' /\ Aggregated'
      BY <1>0, <3>1 DEF IInv, PublishTypes, Aggregated
    <3>9. Failing'
      BY <1>0, <3>1, <3>2 DEF IInv, Failing
    <3>10. Scanned'
      <4> SUFFICES ASSUME ~woken, NEW k \in Markets, Takes(k), publisher[k].pc \notin {"admitted", "visible"}
                   PROVE \E i \in DOMAIN turn' : i <= writer'.left /\ turn'[i] = k
        BY <1>0, <3>1, <3>2 DEF Scanned, Takes
      <4>1. PICK i \in DOMAIN turn : i <= writer.left /\ turn[i] = k
        BY <1>0 DEF IInv, Scanned
      <4>2. k # m
        BY <2>8
      <4>3. i - 1 \in DOMAIN turn' /\ turn'[i - 1] = k /\ i \in Nat
        BY <2>4, <4>1, <4>2
      <4>4. i - 1 <= writer.left - 1
        BY <1>1, <4>1, <4>3
      <4>5. QED BY <3>2, <4>3, <4>4
    <3>11. QED BY <3>3, <3>6, <3>7, <3>8, <3>9, <3>10 DEF IInv, Lanes
  <2>9. CASE Takes(m)
    <3> DEFINE c == Head(p).cursor
    <3>1. /\ lane' = [lane EXCEPT ![m].pending = Tail(p), ![m].active = TRUE]
          /\ writer' = [writer EXCEPT !.pc = "persist", !.left = 0, !.market = m, !.cursor = c]
      BY <2>1, <2>9
    <3>2. p # <<>> /\ Head(p).ready /\ ~lane[m].active
      BY <2>9 DEF Takes
    <3>3. /\ Tail(p) \in Seq(Item) /\ Len(Tail(p)) = Len(p) - 1 /\ DOMAIN Tail(p) = 1..(Len(p) - 1)
          /\ \A i \in 1..(Len(p) - 1) : Tail(p)[i] = p[i + 1]
          /\ Head(p) = p[1] /\ 1 \in DOMAIN p /\ Len(p) > 0
      BY <2>6, <3>2, HeadTailProperties, LenProperties
    <3>4. c \in Nat
      BY <2>2, <3>3, PendingTypes
    <3> HIDE DEF p, more, c
    <3>5. /\ \A k \in Markets \ {m} : lane'[k] = lane[k]
          /\ lane'[m].pending = Tail(p) /\ lane'[m].active = TRUE /\ lane'[m].used = lane[m].used
          /\ lane' \in [Markets -> QueueLane]
      <4>1. [lane[m] EXCEPT !.pending = Tail(p), !.active = TRUE] \in QueueLane
        BY <2>6, <3>3 DEF QueueLane
      <4>2. lane' = [lane EXCEPT ![m] = [lane[m] EXCEPT !.pending = Tail(p), !.active = TRUE]]
        BY <1>1, <3>1
      <4>3. QED BY <1>1, <2>6, <4>1, <4>2 DEF QueueLane
    <3>6. /\ writer'.pc = "persist" /\ writer'.market = m /\ writer'.cursor = c
          /\ writer'.done = writer.done
          /\ writer' \in [pc : {"look", "scan", "sleep", "persist", "acknowledge", "drop", "failing",
                                "abandon", "ended"},
                          left : Nat, market : Markets \cup {"none"}, cursor : Nat,
                          done : SUBSET Markets]
      BY <2>2, <2>7, <3>1, <3>4
    <3>7. QueueTypes'
      BY <1>0, <2>3, <3>5, <3>6 DEF IInv, QueueTypes
    <3>8. PublishTypes' /\ OwnerTypes'
      BY <1>0 DEF IInv, PublishTypes, OwnerTypes
    <3>9. lane[m].used = Len(p)
      <4>1. lane[m].used = Len(p) + 0
        BY <2>6, <3>2 DEF Reserved, p
      <4>2. QED BY <2>6, <4>1
    <3>10. Retiring'
      BY <1>0, <2>2, <3>3, <3>5, <3>9, BusyRetiring
    <3>11. Healthy /\ Healthy'
      BY <1>0, <1>2, <3>6 DEF Healthy
    <3>12. \A k \in Markets \ {m} : Reserved(k)' /\ Archived(k)' /\ Windowed(k)' /\ Seen(k)'
      <4>1. \A k \in Markets \ {m} : ~Holds(k) /\ ~Holds(k)'
        BY <1>0, <3>6 DEF Holds
      <4>2. QED BY <1>0, <2>2, <2>5, <3>5, <3>6, <3>11, <4>1, Beside
    <3>13. Aggregated'
      <4>1. [k \in Markets |-> lane[k].used]' = [k \in Markets |-> lane[k].used]
        BY <3>5
      <4>2. QED BY <1>0, <4>1 DEF IInv, Aggregated
    <3>14. Failing'
      BY <1>0, <2>2, <3>6 DEF IInv, Failing
    <3>15. Scanned'
      BY <3>6 DEF Scanned
    <3>16. /\ Holds(m)' /\ Stored(m)' = c /\ Stored(m) = Len(disk[m]) /\ ~Holds(m)
           /\ disk'[m] = disk[m] /\ Len(disk[m]) \in Nat
      BY <1>0, <2>2, <3>6 DEF Holds, Stored, IInv, PublishTypes
    <3>17. Reserved(m)'
      <4>1. Tail(p) # <<>> => more
        <5>1. Tail(p) # <<>> => Len(p) > 1
          BY <2>6, <3>3
        <5>2. QED BY <2>9, <5>1 DEF more, p
      <4>2. lane'[m].used = Len(lane'[m].pending) + 1
        BY <2>6, <3>3, <3>5, <3>9
      <4>3. QED BY <2>3, <3>5, <3>16, <4>1, <4>2 DEF Reserved
    <3>18. c = Len(disk[m]) + 1
      BY <1>0, <2>6, <3>3, <3>16 DEF Archived, p, c
    <3>19. Archived(m)'
      <4>1. ASSUME NEW i \in 1..(Len(p) - 1) PROVE Tail(p)[i].cursor = c + i
        <5>1. i + 1 \in DOMAIN p /\ Tail(p)[i] = p[i + 1]
          BY <2>6, <3>3
        <5>2. p[i + 1].cursor = Len(disk[m]) + (i + 1)
          BY <1>0, <2>6, <3>16, <5>1 DEF Archived, p
        <5>3. QED BY <3>16, <3>18, <5>1, <5>2
      <4>2. ASSUME Live(m), ~publisher[m].volatile
            PROVE c + Len(Tail(p)) =
                    replay[m].published + IF publisher[m].pc = "admitted" THEN 1 ELSE 0
        <5>1. Len(disk[m]) + Len(p) =
                    replay[m].published + IF publisher[m].pc = "admitted" THEN 1 ELSE 0
          BY <2>6, <3>11, <3>16, <4>2 DEF Archived, p
        <5>2. c + Len(Tail(p)) = Len(disk[m]) + Len(p)
          BY <2>6, <3>3, <3>16, <3>18
        <5>3. QED BY <5>1, <5>2
      <4>3. Live(m) => Len(disk[m]) = replay[m].durable + 0
        BY <2>6, <3>11, <3>16 DEF Archived
      <4>4. Live(m)' => Live(m)
        BY <1>0 DEF Live, Waiting
      <4>5. \A i \in DOMAIN lane'[m].pending : lane'[m].pending[i].cursor = Stored(m)' + i
        BY <3>3, <3>5, <3>16, <4>1
      <4>6. Live(m)' => Len(disk'[m]) = replay'[m].durable +
                IF Holds(m)' /\ writer'.pc = "acknowledge" THEN 1 ELSE 0
        BY <1>0, <3>6, <3>16, <4>3, <4>4
      <4>7. Live(m)' /\ ~publisher'[m].volatile =>
                Stored(m)' + Len(lane'[m].pending) =
                    replay'[m].published + IF publisher'[m].pc = "admitted" THEN 1 ELSE 0
        BY <1>0, <3>5, <3>16, <4>2, <4>4
      <4>8. QED BY <1>0, <2>6, <3>6, <3>16, <3>18, <4>5, <4>6, <4>7 DEF Archived
    <3>20. Windowed(m)'
      BY <1>0, <2>6 DEF Windowed, Locked
    <3>21. Seen(m)'
      <4>1. c <= replay[m].published
        BY <2>6, <3>2, <3>3 DEF Seen, p, c
      <4>2. \A i \in 1..(Len(p) - 1) : i + 1 \in DOMAIN p /\ Tail(p)[i] = p[i + 1]
        BY <2>6, <3>3
      <4>3. QED BY <1>0, <2>6, <3>3, <3>5, <3>16, <4>1, <4>2 DEF Seen, p
    <3>22. QED BY <3>7, <3>8, <3>10, <3>12, <3>13, <3>14, <3>15, <3>17, <3>19, <3>20, <3>21
           DEF IInv, Lanes
  <2>10. QED BY <2>8, <2>9
<1>5. QED BY <1>3, <1>4

WriterType == [pc : {"look", "scan", "sleep", "persist", "acknowledge", "drop", "failing",
                     "abandon", "ended"},
               left : Nat, market : Markets \cup {"none"}, cursor : Nat, done : SUBSET Markets]

\* A writer that holds an item has closed nothing and abandoned nothing yet.
LEMMA Holding ==
  ASSUME IInv, writer.pc \in {"persist", "acknowledge", "drop", "failing"}
  PROVE \E m \in Markets :
          /\ m = writer.market /\ Holds(m) /\ lane[m].active /\ lane[m].used \in Nat
          /\ lane[m].used = Len(lane[m].pending) + 1 /\ lane[m].used # 0
          /\ \A k \in Markets \ {m} : ~Holds(k)
          /\ writer \in WriterType /\ writer.done = {} /\ disk[m] \in Seq(Nat)
          /\ Len(disk[m]) \in Nat
<1>1. PICK m \in Markets : m = writer.market
  BY DEF IInv, Failing
<1>2. Holds(m) /\ (\A k \in Markets \ {m} : ~Holds(k)) /\ disk[m] \in Seq(Nat)
  BY <1>1 DEF Holds, IInv, PublishTypes
<1>3. lane[m].active /\ lane[m].used = Len(lane[m].pending) + 1
  BY <1>2, LaneTypes DEF Reserved
<1>4. Len(lane[m].pending) \in Nat /\ Len(disk[m]) \in Nat
  BY <1>2, PendingTypes, LenProperties
<1>5. writer \in WriterType /\ writer.done = {}
  BY DEF IInv, QueueTypes, Failing, WriterType
<1>6. lane[m].used \in Nat /\ lane[m].used # 0
  BY <1>3, <1>4
<1>7. QED BY <1>1, <1>2, <1>3, <1>4, <1>5, <1>6

LEMMA DiskGrows ==
  ASSUME NEW d \in Seq(Nat), \A i \in DOMAIN d : d[i] = i, NEW c, c = Len(d) + 1
  PROVE /\ Append(d, c) \in Seq(Nat) /\ Len(Append(d, c)) = c
        /\ \A i \in DOMAIN Append(d, c) : Append(d, c)[i] = i
<1>1. Len(d) \in Nat /\ DOMAIN d = 1..Len(d) /\ c \in Nat
  BY LenProperties
<1>2. /\ Append(d, c) \in Seq(Nat) /\ Len(Append(d, c)) = Len(d) + 1
      /\ \A i \in 1..Len(d) : Append(d, c)[i] = d[i]
      /\ Append(d, c)[Len(d) + 1] = c
      /\ DOMAIN Append(d, c) = 1..(Len(d) + 1)
  BY <1>1, AppendProperties, LenProperties
<1>3. \A i \in 1..(Len(d) + 1) : i \in 1..Len(d) \/ i = Len(d) + 1
  BY <1>1
<1>4. QED BY <1>1, <1>2, <1>3

LEMMA PersistIInv == ASSUME IInv, Persist PROVE IInv'
<1>0. /\ UNCHANGED <<replay, lane, aggregate, turn, accepting, woken, publisher>>
      /\ UNCHANGED <<retired, retirements, worker, failed>>
      /\ writer.pc = "persist" /\ writer' = [writer EXCEPT !.pc = "acknowledge"]
      /\ disk' = [disk EXCEPT ![writer.market] = Append(@, writer.cursor)]
  BY DEF Persist, replayVars, queueVars, retireVars
<1>1. PICK m \in Markets :
          /\ m = writer.market /\ Holds(m) /\ lane[m].active /\ lane[m].used \in Nat
          /\ lane[m].used = Len(lane[m].pending) + 1 /\ lane[m].used # 0
          /\ \A k \in Markets \ {m} : ~Holds(k)
          /\ writer \in WriterType /\ writer.done = {} /\ disk[m] \in Seq(Nat)
          /\ Len(disk[m]) \in Nat
  BY <1>0, Holding
<1>2. /\ writer'.pc = "acknowledge" /\ writer'.market = m /\ writer'.cursor = writer.cursor
      /\ writer'.done = {} /\ writer' \in WriterType /\ Holds(m)'
      /\ \A k \in Markets \ {m} : ~Holds(k)'
  BY <1>0, <1>1 DEF WriterType, Holds
<1>3. Reserved(m) /\ Archived(m) /\ Windowed(m) /\ Seen(m)
  BY LaneTypes
<1>4. writer.cursor = Len(disk[m]) + 1 /\ \A i \in DOMAIN disk[m] : disk[m][i] = i
  BY <1>0, <1>1, <1>3 DEF Archived
<1>5. /\ disk' \in [Markets -> Seq(Nat)] /\ Len(disk'[m]) = writer.cursor
      /\ \A i \in DOMAIN disk'[m] : disk'[m][i] = i
      /\ \A k \in Markets \ {m} : disk'[k] = disk[k]
  <2>1. disk \in [Markets -> Seq(Nat)]
    BY DEF IInv, PublishTypes
  <2>2. /\ Append(disk[m], writer.cursor) \in Seq(Nat)
        /\ Len(Append(disk[m], writer.cursor)) = writer.cursor
        /\ \A i \in DOMAIN Append(disk[m], writer.cursor) : Append(disk[m], writer.cursor)[i] = i
    BY <1>1, <1>4, DiskGrows
  <2>3. disk' = [disk EXCEPT ![m] = Append(disk[m], writer.cursor)]
    BY <1>0, <1>1
  <2>4. QED BY <2>1, <2>2, <2>3
<1>6. PublishTypes' /\ QueueTypes' /\ OwnerTypes' /\ Retiring'
  <2>1. PublishTypes' /\ QueueTypes'
    BY <1>0, <1>2, <1>5 DEF IInv, PublishTypes, QueueTypes, WriterType
  <2>2. failed' \in {"no", "health", "error"}
    BY <1>0 DEF IInv, OwnerTypes
  <2>3. QED BY <1>0, <2>1, <2>2, SameOwner
<1>7. Failing' /\ Aggregated' /\ Scanned'
  BY <1>0, <1>1, <1>2 DEF IInv, Failing, Aggregated, Scanned
<1>8. (Healthy' <=> Healthy) /\ (Live(m)' <=> Live(m))
  BY <1>0, <1>2 DEF Healthy, Live, Waiting
<1>9. \A k \in Markets \ {m} : Reserved(k)' /\ Archived(k)' /\ Windowed(k)' /\ Seen(k)'
  <2>1. \A k \in Markets \ {m} : lane[k].pending # <<>> => \E i \in DOMAIN turn' : turn'[i] = k
    BY <1>0, LaneTypes DEF Reserved
  <2>2. QED BY <1>0, <1>1, <1>2, <1>5, <1>8, <2>1, Beside
<1>10. Stored(m) = writer.cursor /\ Stored(m)' = writer.cursor
  BY <1>0, <1>1, <1>2, <1>5 DEF Stored
<1>11. Reserved(m)'
  BY <1>0, <1>1, <1>2, <1>3 DEF Reserved
<1>12. Archived(m)'
  <2>1. replay[m].durable \in Nat
    BY LaneTypes DEF ReplayLane
  <2>2. replay[m].durable <= writer.cursor
    BY <1>1, <1>3, <1>4, <2>1 DEF Archived
  <2>3. Healthy /\ Live(m) => writer.cursor = replay[m].durable + 1
    BY <1>0, <1>3, <1>4, <2>1 DEF Archived
  <2>4. \A i \in DOMAIN lane'[m].pending : lane'[m].pending[i].cursor = Stored(m)' + i
    BY <1>0, <1>3, <1>10 DEF Archived
  <2>5. Live(m)' /\ Healthy' => Len(disk'[m]) = replay'[m].durable +
                IF Holds(m)' /\ writer'.pc = "acknowledge" THEN 1 ELSE 0
    BY <1>0, <1>2, <1>5, <1>8, <2>3
  <2>6. Live(m)' /\ Healthy' /\ ~publisher'[m].volatile =>
                Stored(m)' + Len(lane'[m].pending) =
                    replay'[m].published + IF publisher'[m].pc = "admitted" THEN 1 ELSE 0
    BY <1>0, <1>3, <1>8, <1>10 DEF Archived
  <2>7. QED BY <1>0, <1>2, <1>3, <1>5, <2>2, <2>4, <2>5, <2>6 DEF Archived
<1>13. Windowed(m)'
  BY <1>0, <1>3 DEF Windowed, Locked
<1>14. Seen(m)'
  BY <1>0, <1>3, <1>8, <1>10 DEF Seen
<1>15. QED BY <1>6, <1>7, <1>9, <1>11, <1>12, <1>13, <1>14 DEF IInv, Lanes

LEMMA PersistFailsIInv == ASSUME IInv, PersistFails PROVE IInv'
<1>0. /\ UNCHANGED <<replay, lane, aggregate, turn, publisher>>
      /\ UNCHANGED <<retired, retirements, worker, failed>>
      /\ writer.pc = "persist" /\ writer' = [writer EXCEPT !.pc = "failing"]
      /\ \/ UNCHANGED disk
         \/ disk' = [disk EXCEPT ![writer.market] = Append(@, writer.cursor)]
      /\ accepting' = FALSE /\ woken' = TRUE
  BY DEF PersistFails, replayVars, retireVars
<1>1. PICK m \in Markets :
          /\ m = writer.market /\ Holds(m) /\ lane[m].active /\ lane[m].used \in Nat
          /\ lane[m].used = Len(lane[m].pending) + 1 /\ lane[m].used # 0
          /\ \A k \in Markets \ {m} : ~Holds(k)
          /\ writer \in WriterType /\ writer.done = {} /\ disk[m] \in Seq(Nat)
          /\ Len(disk[m]) \in Nat
  BY <1>0, Holding
<1>2. /\ writer'.pc = "failing" /\ writer'.market = m /\ writer'.cursor = writer.cursor
      /\ writer'.done = {} /\ writer' \in WriterType /\ Holds(m)'
      /\ \A k \in Markets \ {m} : ~Holds(k)'
  BY <1>0, <1>1 DEF WriterType, Holds
<1>3. Reserved(m) /\ Archived(m) /\ Windowed(m) /\ Seen(m)
  BY LaneTypes
<1>4. writer.cursor = Len(disk[m]) + 1 /\ \A i \in DOMAIN disk[m] : disk[m][i] = i
  BY <1>0, <1>1, <1>3 DEF Archived
<1>5. /\ disk' \in [Markets -> Seq(Nat)]
      /\ writer.cursor = Len(disk'[m]) \/ writer.cursor = Len(disk'[m]) + 1
      /\ Len(disk'[m]) = Len(disk[m]) \/ Len(disk'[m]) = Len(disk[m]) + 1
      /\ \A i \in DOMAIN disk'[m] : disk'[m][i] = i
      /\ \A k \in Markets \ {m} : disk'[k] = disk[k]
  <2>1. disk \in [Markets -> Seq(Nat)]
    BY DEF IInv, PublishTypes
  <2>2. /\ Append(disk[m], writer.cursor) \in Seq(Nat)
        /\ Len(Append(disk[m], writer.cursor)) = writer.cursor
        /\ \A i \in DOMAIN Append(disk[m], writer.cursor) : Append(disk[m], writer.cursor)[i] = i
    BY <1>1, <1>4, DiskGrows
  <2>3. CASE disk' = [disk EXCEPT ![m] = Append(disk[m], writer.cursor)]
    BY <1>4, <2>1, <2>2, <2>3
  <2>4. CASE disk' = disk
    BY <1>4, <2>1, <2>4
  <2>5. QED BY <1>0, <1>1, <2>3, <2>4
<1>6. PublishTypes' /\ QueueTypes' /\ OwnerTypes' /\ Retiring'
  <2>1. PublishTypes' /\ QueueTypes'
    BY <1>0, <1>2, <1>5 DEF IInv, PublishTypes, QueueTypes, WriterType
  <2>2. failed' \in {"no", "health", "error"}
    BY <1>0 DEF IInv, OwnerTypes
  <2>3. QED BY <1>0, <2>1, <2>2, SameOwner
<1>7. Failing' /\ Aggregated' /\ Scanned'
  BY <1>0, <1>1, <1>2 DEF IInv, Failing, Aggregated, Scanned
<1>8. ~Healthy' /\ (Live(m)' <=> Live(m))
  BY <1>0, <1>2 DEF Healthy, Live, Waiting
<1>9. \A k \in Markets \ {m} : Reserved(k)' /\ Archived(k)' /\ Windowed(k)' /\ Seen(k)'
  <2>1. \A k \in Markets \ {m} : lane[k].pending # <<>> => \E i \in DOMAIN turn' : turn'[i] = k
    BY <1>0, LaneTypes DEF Reserved
  <2>2. QED BY <1>0, <1>1, <1>2, <1>5, <1>8, <2>1, Beside
<1>10. Stored(m) = writer.cursor /\ Stored(m)' = writer.cursor
  BY <1>0, <1>1, <1>2 DEF Stored
<1>11. Reserved(m)'
  BY <1>0, <1>1, <1>2, <1>3 DEF Reserved
<1>12. Archived(m)'
  <2>1. replay[m].durable \in Nat
    BY LaneTypes DEF ReplayLane
  <2>2. replay[m].durable <= Len(disk'[m])
    BY <1>1, <1>3, <1>5, <2>1 DEF Archived
  <2>3. \A i \in DOMAIN lane'[m].pending : lane'[m].pending[i].cursor = Stored(m)' + i
    BY <1>0, <1>3, <1>10 DEF Archived
  <2>4. QED BY <1>0, <1>2, <1>3, <1>5, <1>8, <2>2, <2>3 DEF Archived
<1>13. Windowed(m)'
  BY <1>0, <1>3 DEF Windowed, Locked
<1>14. Seen(m)'
  BY <1>0, <1>3, <1>8, <1>10 DEF Seen
<1>15. QED BY <1>6, <1>7, <1>9, <1>11, <1>12, <1>13, <1>14 DEF IInv, Lanes

\* A group that is discounted keeps its place.
LEMMA DiscountedKeeps ==
  ASSUME NEW groups \in Seq(Group), NEW held, \A i \in DOMAIN groups : i \in held => groups[i].charge >= Release
  PROVE LET less == Discounted(groups, held)
        IN /\ less \in Seq(Group) /\ Len(less) = Len(groups) /\ DOMAIN less = DOMAIN groups
           /\ DOMAIN groups = 1..Len(groups)
           /\ \A i \in DOMAIN groups :
                /\ less[i].cursor = groups[i].cursor
                /\ less[i].charge = IF i \in held THEN groups[i].charge - Release ELSE groups[i].charge
<1> DEFINE less == Discounted(groups, held)
<1>1. DOMAIN groups = 1..Len(groups) /\ Len(groups) \in Nat /\ \A i \in 1..Len(groups) : groups[i] \in Group
  BY LenProperties, ElementOfSeq
<1>2. DOMAIN less = 1..Len(groups)
  BY <1>1 DEF Discounted
<1>3. ASSUME NEW i \in 1..Len(groups)
      PROVE /\ less[i] \in Group /\ less[i].cursor = groups[i].cursor
            /\ less[i].charge = IF i \in held THEN groups[i].charge - Release ELSE groups[i].charge
  <2>1. groups[i] \in Group /\ groups[i].charge \in Nat /\ Release \in Nat
    BY <1>1, LimitTypes DEF Group
  <2>2. less[i] = IF i \in held THEN [groups[i] EXCEPT !.charge = groups[i].charge - Release] ELSE groups[i]
    BY <1>1 DEF Discounted
  <2>3. i \in held => groups[i].charge - Release \in Nat
    BY <1>1, <2>1
  <2>4. QED BY <2>1, <2>2, <2>3 DEF Group
<1>4. less = [i \in 1..Len(groups) |-> less[i]]
  BY <1>1, <1>2 DEF Discounted
<1> HIDE DEF less
<1>5. less \in Seq(Group) /\ Len(less) = Len(groups)
  BY <1>1, <1>3, <1>4
<1>6. QED BY <1>1, <1>2, <1>3, <1>5 DEF less

LEMMA AcknowledgeIInv == ASSUME IInv, Acknowledge PROVE IInv'
<1>0. /\ UNCHANGED <<lane, aggregate, turn, accepting, woken, publisher, disk>>
      /\ UNCHANGED <<retired, retirements, worker, failed>>
      /\ writer.pc = "acknowledge" /\ writer' = [writer EXCEPT !.pc = "drop"]
  BY DEF Acknowledge, queueVars, retireVars
<1>1. PICK m \in Markets :
          /\ m = writer.market /\ Holds(m) /\ lane[m].active /\ lane[m].used \in Nat
          /\ lane[m].used = Len(lane[m].pending) + 1 /\ lane[m].used # 0
          /\ \A k \in Markets \ {m} : ~Holds(k)
          /\ writer \in WriterType /\ writer.done = {} /\ disk[m] \in Seq(Nat)
          /\ Len(disk[m]) \in Nat
  BY <1>0, Holding
<1> DEFINE groups == replay[m].groups
           held == {i \in DOMAIN groups : groups[i].cursor = writer.cursor}
           less == Discounted(groups, held)
<1>2. /\ ~Locked(m) /\ writer.cursor = replay[m].durable + 1
      /\ replay' = [replay EXCEPT ![m].durable = writer.cursor, ![m].groups = Discounted(@, held)]
  BY <1>1 DEF Acknowledge
<1>3. /\ writer'.pc = "drop" /\ writer'.market = m /\ writer'.cursor = writer.cursor
      /\ writer'.done = {} /\ writer' \in WriterType /\ Holds(m)'
      /\ \A k \in Markets \ {m} : ~Holds(k)'
  BY <1>0, <1>1 DEF WriterType, Holds
<1>4. /\ Reserved(m) /\ Archived(m) /\ Windowed(m) /\ Seen(m) /\ replay[m] \in ReplayLane
      /\ groups \in Seq(Group) /\ replay[m].durable \in Nat
  BY LaneTypes DEF ReplayLane
<1>5. /\ less \in Seq(Group) /\ Len(less) = Len(groups) /\ DOMAIN less = DOMAIN groups
      /\ \A i \in DOMAIN groups :
            /\ less[i].cursor = groups[i].cursor /\ groups[i].cursor \in Nat
            /\ less[i].charge = IF groups[i].cursor = writer.cursor THEN groups[i].charge - Release
                                ELSE groups[i].charge
  <2>1. ASSUME NEW i \in DOMAIN groups, i \in held PROVE groups[i].charge >= Release
    <3>1. groups[i].cursor = replay[m].durable + 1
      BY <1>2, <2>1
    <3>2. groups[i].charge = Charge
      BY <1>4, <2>1, <3>1 DEF Windowed
    <3>3. QED BY <3>2, LimitTypes
  <2>2. \A i \in DOMAIN groups : i \in held <=> groups[i].cursor = writer.cursor
    OBVIOUS
  <2>3. \A i \in DOMAIN groups : groups[i] \in Group
    BY <1>4, LenProperties, ElementOfSeq
  <2>4. \A i \in DOMAIN groups : groups[i].cursor \in Nat
    BY <2>3 DEF Group
  <2> HIDE DEF held, groups
  <2>5. QED BY <1>4, <2>1, <2>2, <2>4, DiscountedKeeps
<1>6. /\ \A k \in Markets \ {m} : replay'[k] = replay[k]
      /\ replay'[m].durable = writer.cursor /\ replay'[m].groups = less
      /\ replay'[m].published = replay[m].published /\ replay'[m].floor = replay[m].floor
      /\ replay' \in [Markets -> ReplayLane]
  <2>1. replay \in [Markets -> ReplayLane] /\ writer.cursor \in Nat
    BY <1>1 DEF IInv, PublishTypes, WriterType
  <2> DEFINE new == [replay[m] EXCEPT !.durable = writer.cursor, !.groups = less]
  <2> HIDE DEF held
  <2>2. replay' = [replay EXCEPT ![m] = new]
    BY <1>2, <2>1
  <2> HIDE DEF less
  <2>3. new \in ReplayLane /\ new.durable = writer.cursor /\ new.groups = less
        /\ new.published = replay[m].published /\ new.floor = replay[m].floor
    BY <1>4, <1>5, <2>1 DEF ReplayLane
  <2> HIDE DEF new
  <2>4. QED BY <2>1, <2>2, <2>3
<1> HIDE DEF held, less
<1>7. PublishTypes' /\ QueueTypes' /\ OwnerTypes'
  BY <1>0, <1>3, <1>6 DEF IInv, PublishTypes, QueueTypes, WriterType, OwnerTypes
<1>8. Retiring'
  BY <1>0, <1>1, <1>6, BusyRetiring
<1>9. Failing' /\ Aggregated' /\ Scanned'
  BY <1>0, <1>1, <1>3 DEF IInv, Failing, Aggregated, Scanned
<1>10. (Healthy' <=> Healthy) /\ (Live(m)' <=> Live(m))
  BY <1>0, <1>3 DEF Healthy, Live, Waiting
<1>11. \A k \in Markets \ {m} : Reserved(k)' /\ Archived(k)' /\ Windowed(k)' /\ Seen(k)'
  <2>1. \A k \in Markets \ {m} : lane[k].pending # <<>> => \E i \in DOMAIN turn' : turn'[i] = k
    BY <1>0, LaneTypes DEF Reserved
  <2>2. QED BY <1>0, <1>1, <1>3, <1>6, <1>10, <2>1, Beside
<1>12. Stored(m) = Len(disk[m]) /\ Stored(m)' = Len(disk[m])
  BY <1>0, <1>3 DEF Stored
<1>13. Reserved(m)'
  BY <1>0, <1>1, <1>3, <1>4 DEF Reserved
<1>14. Archived(m)'
  <2>1. writer.cursor = Len(disk[m])
    BY <1>0, <1>1, <1>4 DEF Archived
  <2>2. \A i \in DOMAIN lane'[m].pending : lane'[m].pending[i].cursor = Stored(m)' + i
    BY <1>0, <1>4, <1>12 DEF Archived
  <2>3. Len(disk'[m]) = replay'[m].durable + IF Holds(m)' /\ writer'.pc = "acknowledge" THEN 1 ELSE 0
    BY <1>0, <1>1, <1>3, <1>6, <2>1
  <2>4. Live(m)' /\ Healthy' /\ ~publisher'[m].volatile =>
                Stored(m)' + Len(lane'[m].pending) =
                    replay'[m].published + IF publisher'[m].pc = "admitted" THEN 1 ELSE 0
    BY <1>0, <1>4, <1>6, <1>10, <1>12 DEF Archived
  <2>5. replay'[m].durable <= Len(disk'[m])
    BY <1>0, <1>1, <1>6, <2>1
  <2>6. QED BY <1>0, <1>3, <1>4, <2>1, <2>2, <2>3, <2>4, <2>5 DEF Archived
<1>15. Windowed(m)'
  <2>1. ~Locked(m)'
    BY <1>0, <1>2 DEF Locked
  <2>2. ASSUME NEW i \in DOMAIN groups
        PROVE /\ less[i].cursor = replay[m].floor + i
              /\ less[i].charge = IF less[i].cursor > writer.cursor THEN Charge ELSE Charge - Release
    <3>1. /\ groups[i].cursor = replay[m].floor + i
          /\ groups[i].charge = IF groups[i].cursor > replay[m].durable THEN Charge ELSE Charge - Release
      BY <1>4 DEF Windowed
    <3>2. CASE groups[i].cursor = writer.cursor
      <4>1. groups[i].cursor > replay[m].durable /\ ~(groups[i].cursor > writer.cursor)
        BY <1>2, <1>4, <3>2
      <4>2. QED BY <1>5, <3>1, <3>2, <4>1
    <3>3. CASE groups[i].cursor # writer.cursor
      <4>1. groups[i].cursor > replay[m].durable <=> groups[i].cursor > writer.cursor
        BY <1>2, <1>4, <1>5, <3>3
      <4>2. QED BY <1>5, <3>1, <3>3, <4>1
    <3>4. QED BY <3>2, <3>3
  <2>3. QED BY <1>4, <1>5, <1>6, <2>1, <2>2 DEF Windowed
<1>16. Seen(m)'
  BY <1>0, <1>4, <1>6, <1>10, <1>12 DEF Seen
<1>17. QED BY <1>7, <1>8, <1>9, <1>11, <1>13, <1>14, <1>15, <1>16 DEF IInv, Lanes

LEMMA AggregateInt == ASSUME IInv PROVE aggregate \in Int
<1> DEFINE f == [k \in Markets |-> lane[k].used]
<1>1. \A k \in Markets : f[k] \in Int
  BY DEF IInv, QueueTypes, QueueLane
<1> HIDE DEF f
<1>2. Total(f, Markets) \in Int
  BY <1>1, LimitTypes, TotalType
<1>3. QED BY <1>2 DEF IInv, Aggregated, f

LEMMA DropIInv == ASSUME IInv, Drop PROVE IInv'
<1>0. /\ UNCHANGED <<replay, turn, accepting, publisher, disk>>
      /\ UNCHANGED <<retired, retirements, worker>>
      /\ writer.pc \in {"drop", "failing"}
      /\ writer' = [writer EXCEPT !.pc = IF writer.pc = "drop" THEN "look" ELSE "abandon",
                                  !.market = "none", !.cursor = 0]
      /\ failed' = IF writer.pc = "failing" /\ failed = "no" THEN "health" ELSE failed
      /\ lane' = [lane EXCEPT ![writer.market].used = @ - 1, ![writer.market].active = FALSE]
      /\ aggregate' = aggregate - 1 /\ woken' = TRUE
  BY DEF Drop, Dropped, replayVars, retireVars
<1>1. PICK m \in Markets :
          /\ m = writer.market /\ Holds(m) /\ lane[m].active /\ lane[m].used \in Nat
          /\ lane[m].used = Len(lane[m].pending) + 1 /\ lane[m].used # 0
          /\ \A k \in Markets \ {m} : ~Holds(k)
          /\ writer \in WriterType /\ writer.done = {} /\ disk[m] \in Seq(Nat)
          /\ Len(disk[m]) \in Nat
  BY <1>0, Holding
<1>2. /\ writer'.pc = IF writer.pc = "drop" THEN "look" ELSE "abandon"
      /\ writer'.done = {} /\ writer' \in WriterType
      /\ \A k \in Markets : ~Holds(k)'
  BY <1>0, <1>1 DEF WriterType, Holds
<1>3. /\ Reserved(m) /\ Archived(m) /\ Windowed(m) /\ Seen(m) /\ lane[m] \in QueueLane
      /\ Len(lane[m].pending) \in Nat
  BY LaneTypes, PendingTypes
<1>4. /\ \A k \in Markets \ {m} : lane'[k] = lane[k]
      /\ lane'[m].used = lane[m].used - 1 /\ lane'[m].active = FALSE
      /\ lane'[m].pending = lane[m].pending
      /\ lane' \in [Markets -> QueueLane]
  <2>1. lane \in [Markets -> QueueLane] /\ lane[m].used - 1 \in Nat
    BY <1>1 DEF IInv, QueueTypes
  <2> DEFINE new == [lane[m] EXCEPT !.used = lane[m].used - 1, !.active = FALSE]
  <2>2. lane' = [lane EXCEPT ![m] = new]
    BY <1>0, <1>1, <2>1
  <2>3. new \in QueueLane /\ new.used = lane[m].used - 1 /\ new.active = FALSE /\ new.pending = lane[m].pending
    BY <1>3, <2>1 DEF QueueLane
  <2> HIDE DEF new
  <2>4. QED BY <2>1, <2>2, <2>3
<1>5. failed' \in {"no", "health", "error"} /\ (writer.pc = "failing" => failed' # "no")
      /\ (writer.pc = "drop" => failed' = failed)
  BY <1>0 DEF IInv, OwnerTypes
<1>6. PublishTypes' /\ QueueTypes' /\ OwnerTypes'
  BY <1>0, <1>2, <1>4, <1>5 DEF IInv, PublishTypes, QueueTypes, WriterType, OwnerTypes
<1>7. Retiring'
  BY <1>0, <1>1, <1>4, BusyRetiring
<1>8. Failing'
  BY <1>0, <1>2, <1>5 DEF IInv, Failing
<1>9. Scanned'
  BY <1>0 DEF Scanned
<1>10. Aggregated'
  <2>1. Total([k \in Markets |-> lane[k].used], Markets)' = (aggregate - lane[m].used) + (lane[m].used - 1)
    <3>1. lane[m].used - 1 \in Nat
      BY <1>1
    <3>2. QED BY <1>4, <3>1, AggregateStep
  <2>2. aggregate \in Int
    BY AggregateInt
  <2>3. (aggregate - lane[m].used) + (lane[m].used - 1) = aggregate - 1
    BY <1>1, <2>2
  <2>4. QED BY <1>0, <2>1, <2>3 DEF Aggregated
<1>11. /\ Healthy' => Healthy /\ writer.pc = "drop"
       /\ Live(m)' <=> Live(m)
  BY <1>0, <1>2, <1>5 DEF Healthy, Live, Waiting
<1>12. \A k \in Markets \ {m} : Reserved(k)' /\ Archived(k)' /\ Windowed(k)' /\ Seen(k)'
  <2>1. \A k \in Markets \ {m} : lane[k].pending # <<>> => \E i \in DOMAIN turn' : turn'[i] = k
    BY <1>0, LaneTypes DEF Reserved
  <2>2. QED BY <1>0, <1>1, <1>2, <1>4, <1>11, <2>1, Beside
<1>13. Stored(m)' = Len(disk[m]) /\ (writer.pc = "drop" => Stored(m) = Len(disk[m]))
  BY <1>0, <1>2 DEF Stored
<1>14. Reserved(m)'
  <2>1. lane'[m].used = Len(lane'[m].pending) + 0
    BY <1>1, <1>3, <1>4
  <2>2. QED BY <1>0, <1>2, <1>3, <1>4, <2>1 DEF Reserved
<1>15. Archived(m)'
  <2>1. writer'.pc \notin {"abandon", "ended"} =>
            \A i \in DOMAIN lane'[m].pending : lane'[m].pending[i].cursor = Stored(m)' + i
    BY <1>0, <1>2, <1>3, <1>4, <1>13 DEF Archived
  <2>2. Live(m)' /\ Healthy' => Len(disk'[m]) = replay'[m].durable +
                IF Holds(m)' /\ writer'.pc = "acknowledge" THEN 1 ELSE 0
    BY <1>0, <1>2, <1>3, <1>11 DEF Archived
  <2>3. Live(m)' /\ Healthy' /\ ~publisher'[m].volatile =>
                Stored(m)' + Len(lane'[m].pending) =
                    replay'[m].published + IF publisher'[m].pc = "admitted" THEN 1 ELSE 0
    BY <1>0, <1>3, <1>4, <1>11, <1>13 DEF Archived
  <2>4. QED BY <1>0, <1>2, <1>3, <2>1, <2>2, <2>3 DEF Archived
<1>16. Windowed(m)'
  BY <1>0, <1>3 DEF Windowed, Locked
<1>17. Seen(m)'
  <2>1. Live(m) => Len(disk[m]) <= replay[m].published
    <3>1. writer.pc = "failing" => Stored(m) = writer.cursor
      BY <1>1 DEF Stored
    <3>2. writer.pc = "failing" => \/ writer.cursor = Len(disk[m])
                                   \/ writer.cursor = Len(disk[m]) + 1
      BY <1>1, <1>3 DEF Archived
    <3>3. Live(m) => Stored(m) <= replay[m].published
      BY <1>3 DEF Seen
    <3>4. replay[m].published \in Nat
      BY LaneTypes DEF ReplayLane
    <3>5. QED BY <1>0, <1>1, <1>13, <3>1, <3>2, <3>3, <3>4
  <2>2. QED BY <1>0, <1>3, <1>4, <1>11, <1>13, <2>1 DEF Seen
<1>18. QED BY <1>6, <1>7, <1>8, <1>9, <1>10, <1>12, <1>14, <1>15, <1>16, <1>17 DEF IInv, Lanes

\* The abandoned queue gives back what it reserved; a released lane has nothing to give.
LEMMA AbandonIInv == ASSUME IInv, NEW m \in Markets, Abandon(m) PROVE IInv'
<1>0. /\ UNCHANGED <<replay, turn, accepting, publisher, disk>>
      /\ UNCHANGED <<retired, retirements, worker, failed>>
      /\ writer.pc = "abandon"
      /\ writer' = [writer EXCEPT !.done = @ \cup {m}]
      /\ lane' = [lane EXCEPT ![m].used = @ - Len(lane[m].pending), ![m].pending = <<>>]
      /\ aggregate' = aggregate - Len(lane[m].pending) /\ woken' = TRUE
  BY DEF Abandon, replayVars, retireVars
<1>1. /\ writer \in WriterType /\ writer.done \in SUBSET Markets
      /\ failed # "no" /\ ~Healthy /\ ~Healthy' /\ ~accepting
      /\ \A k \in writer.done : lane[k].pending = <<>>
  BY <1>0 DEF IInv, QueueTypes, WriterType, Failing, Healthy
<1>2. /\ writer'.pc = "abandon" /\ writer'.done = writer.done \cup {m} /\ writer' \in WriterType
      /\ \A k \in Markets : ~Holds(k) /\ ~Holds(k)'
  BY <1>0, <1>1 DEF WriterType, Holds
<1>3. /\ Reserved(m) /\ Archived(m) /\ Windowed(m) /\ Seen(m) /\ lane[m] \in QueueLane
      /\ Len(lane[m].pending) \in Nat
  BY LaneTypes, PendingTypes
<1>4. /\ \A k \in Markets \ {m} : lane'[k] = lane[k]
      /\ lane'[m].used = 0 /\ lane'[m].active = FALSE
      /\ lane'[m].pending = <<>> /\ (lane[m] = NewLane => lane'[m] = NewLane)
      /\ lane' \in [Markets -> QueueLane]
      /\ lane[m].used = Len(lane[m].pending)
  <2>1. lane \in [Markets -> QueueLane]
    BY DEF IInv, QueueTypes
  <2>2. lane[m].active = FALSE /\ lane[m].used = Len(lane[m].pending)
    <3>1. ~lane[m].active /\ lane[m].active \in BOOLEAN
      BY <1>2, <1>3 DEF Reserved, QueueLane
    <3>2. lane[m].used = Len(lane[m].pending) + 0
      BY <1>3, <3>1 DEF Reserved
    <3>3. QED BY <1>3, <3>1, <3>2
  <2> DEFINE new == [lane[m] EXCEPT !.used = 0, !.pending = <<>>]
  <2>4. lane[m].used - Len(lane[m].pending) = 0
    BY <1>3, <2>2
  <2>3. lane' = [lane EXCEPT ![m] = new]
    BY <1>0, <2>1, <2>4
  <2>5. <<>> \in Seq(Item)
    BY EmptySeq
  <2>6. /\ new \in QueueLane /\ new.used = 0 /\ new.active = FALSE /\ new.pending = <<>>
        /\ lane[m] = NewLane => new = NewLane
    <3>1. new \in QueueLane
      BY <1>3, <2>5 DEF QueueLane
    <3>4. /\ new.used = 0 /\ new.active = lane[m].active /\ new.pending = <<>>
          /\ new.draining = lane[m].draining
      BY <1>3 DEF QueueLane
    <3>2. lane[m] = NewLane => lane[m].draining = FALSE /\ NewLane \in QueueLane
      BY <1>3 DEF NewLane
    <3> HIDE DEF new
    <3>3. QED BY <2>2, <3>1, <3>2, <3>4 DEF QueueLane, NewLane
  <2> HIDE DEF new
  <2>7. QED BY <2>1, <2>2, <2>3, <2>6
<1>5. PublishTypes' /\ QueueTypes' /\ OwnerTypes'
  BY <1>0, <1>2, <1>4 DEF IInv, PublishTypes, QueueTypes, WriterType, OwnerTypes
<1>6. Retiring'
  <2>1. \A k \in Markets : Waiting(k)' <=> Waiting(k)
    BY <1>0 DEF Waiting
  <2>2. retired \in SUBSET Markets /\ retirements \in Seq(Entry)
    BY DEF IInv, OwnerTypes
  <2>3. \A k \in retired : /\ publisher'[k].pc = "idle"
                           /\ Waiting(k)' \/ (replay'[k] = NewReplay /\ lane'[k] = NewLane)
    BY <1>0, <1>4, <2>1, <2>2 DEF IInv, Retiring
  <2>4. \A k \in Markets : Drained(k) => Drained(k)'
    BY <1>4 DEF Drained
  <2>5. retirements # <<>> => Head(retirements).market \in Markets
    <3>1. retirements # <<>> => Head(retirements) \in Entry
      BY <2>2
    <3>2. QED BY <3>1 DEF Entry
  <2>6. worker = "release" => retirements # <<>> /\ Drained(Head(retirements).market)'
    BY <1>0, <2>4, <2>5 DEF IInv, Retiring, Drained
  <2>7. QED BY <1>0, <2>3, <2>6 DEF IInv, Retiring
<1>7. Failing'
  <2>1. \A k \in writer'.done : lane'[k].pending = <<>>
    BY <1>1, <1>2, <1>4
  <2>2. QED BY <1>0, <1>1, <1>2, <2>1 DEF Failing
<1>8. Scanned'
  BY <1>0 DEF Scanned
<1>9. Aggregated'
  <2>1. Total([k \in Markets |-> lane[k].used], Markets)' = (aggregate - lane[m].used) + 0
    BY <1>4, AggregateStep
  <2>2. aggregate \in Int
    BY AggregateInt
  <2>3. (aggregate - lane[m].used) + 0 = aggregate - Len(lane[m].pending)
    BY <1>3, <1>4, <2>2
  <2>4. QED BY <1>0, <2>1, <2>3 DEF Aggregated
<1>10. \A k \in Markets \ {m} : Reserved(k)' /\ Archived(k)' /\ Windowed(k)' /\ Seen(k)'
  BY <1>0, <1>1, <1>2, <1>4, Beside
<1>11. Reserved(m)'
  <2>1. Len(lane'[m].pending) = 0
    BY <1>4
  <2>2. lane'[m].used = Len(lane'[m].pending) + 0
    BY <1>4, <2>1
  <2>3. QED BY <1>2, <1>4, <2>2 DEF Reserved
<1>12. Stored(m)' = Stored(m) /\ (Live(m)' <=> Live(m))
  BY <1>0, <1>2 DEF Stored, Live, Waiting
<1>13. Archived(m)'
  BY <1>0, <1>1, <1>2, <1>3 DEF Archived
<1>14. Windowed(m)'
  BY <1>0, <1>3 DEF Windowed, Locked
<1>15. Seen(m)'
  <2>1. DOMAIN lane'[m].pending = {}
    BY <1>4
  <2>2. QED BY <1>0, <1>3, <1>12, <2>1 DEF Seen
<1>16. QED BY <1>5, <1>6, <1>7, <1>8, <1>9, <1>10, <1>11, <1>13, <1>14, <1>15 DEF IInv, Lanes

-----------------------------------------------------------------------------
(* The owner.                                                              *)

\* A step of the owner that leaves windows and queues alone, and forgets no retirement.
LEMMA Untouched ==
  ASSUME IInv, UNCHANGED <<replay, lane, publisher, disk, turn, writer, failed, retired, retirements>>
  PROVE Lanes'
<1> SUFFICES ASSUME NEW k \in Markets PROVE Reserved(k)' /\ Archived(k)' /\ Windowed(k)' /\ Seen(k)'
  BY DEF Lanes
<1>1. Reserved(k) /\ Archived(k) /\ Windowed(k) /\ Seen(k)
  BY LaneTypes
<1>2. (Live(k)' <=> Live(k)) /\ (Healthy' <=> Healthy)
  BY DEF Live, Waiting, Healthy
<1>3. lane[k].pending # <<>> /\ writer'.pc # "abandon" => \E i \in DOMAIN turn' : turn'[i] = k
  BY <1>1 DEF Reserved
<1>4. QED BY <1>1, <1>2, <1>3, Apart

\* Pause, Resume and SourceReady change the fences of the source only.
LEMMA SourceIInv ==
  ASSUME IInv, UNCHANGED <<replayVars, queueVars, woken, publisher, writer, disk, retireVars, failed>>
  PROVE IInv'
<1>0. /\ UNCHANGED <<replay, lane, aggregate, turn, accepting, woken, publisher, disk, writer>>
      /\ UNCHANGED <<retired, retirements, worker, failed>>
  BY DEF replayVars, queueVars, retireVars
<1>1. PublishTypes'
  BY <1>0 DEF IInv, PublishTypes
<1>2. QueueTypes' /\ Failing' /\ Aggregated'
  BY <1>0, SameQueue
<1>3. OwnerTypes' /\ Retiring'
  <2>1. failed' \in {"no", "health", "error"}
    BY <1>0 DEF IInv, OwnerTypes
  <2>2. QED BY <1>0, <2>1, SameOwner
<1>4. Lanes'
  BY <1>0, Untouched
<1>5. Scanned'
  BY <1>0 DEF IInv, Scanned, Takes
<1>6. QED BY <1>1, <1>2, <1>3, <1>4, <1>5 DEF IInv

LEMMA CloseIInv == ASSUME IInv, Close PROVE IInv'
<1>0. /\ UNCHANGED <<replay, lane, aggregate, turn, publisher, disk, writer>>
      /\ UNCHANGED <<retired, retirements, worker, failed>>
      /\ accepting' = FALSE /\ woken' = TRUE
  BY DEF Close, replayVars, retireVars
<1>1. PublishTypes' /\ QueueTypes'
  BY <1>0 DEF IInv, PublishTypes, QueueTypes
<1>2. OwnerTypes' /\ Retiring'
  <2>1. failed' \in {"no", "health", "error"}
    BY <1>0 DEF IInv, OwnerTypes
  <2>2. QED BY <1>0, <2>1, SameOwner
<1>3. Failing'
  BY <1>0 DEF IInv, Failing
<1>4. Lanes'
  BY <1>0, Untouched
<1>5. Scanned' /\ Aggregated'
  BY <1>0 DEF IInv, Scanned, Aggregated
<1>6. QED BY <1>1, <1>2, <1>3, <1>4, <1>5 DEF IInv

\* The retirement worker goes on, or ends, without touching a lane.
LEMMA WorkerMoves ==
  ASSUME IInv, UNCHANGED <<replayVars, queueVars, woken, publisher, writer, disk, retired,
                           retirements, failed>>,
         worker' \in {"wait", "release", "ended"},
         worker' = "release" => retirements # <<>> /\ Drained(Head(retirements).market)
  PROVE IInv'
<1>0. UNCHANGED <<replay, lane, aggregate, turn, accepting, woken, publisher, disk, writer, failed>>
  BY DEF replayVars, queueVars
<1>1. PublishTypes' /\ OwnerTypes'
  BY <1>0 DEF IInv, PublishTypes, OwnerTypes
<1>2. QueueTypes' /\ Failing' /\ Aggregated'
  BY <1>0, SameQueue
<1>3. Retiring'
  <2>1. \A k : Waiting(k)' <=> Waiting(k)
    BY DEF Waiting
  <2>2. worker' = "release" => retirements' # <<>> /\ Drained(Head(retirements).market)'
    BY <1>0 DEF Drained
  <2>3. QED BY <1>0, <2>1, <2>2 DEF IInv, Retiring
<1>4. Lanes'
  BY <1>0, Untouched
<1>5. Scanned'
  BY <1>0 DEF IInv, Scanned, Takes
<1>6. QED BY <1>1, <1>2, <1>3, <1>4, <1>5 DEF IInv

LEMMA DrainIInv == ASSUME IInv, Drain PROVE IInv'
<1>1. /\ UNCHANGED <<replayVars, queueVars, woken, publisher, writer, disk, retired,
                     retirements, failed>>
      /\ worker' \in {"wait", "release", "ended"}
      /\ worker' = "release" => retirements # <<>> /\ Drained(Head(retirements).market)
  BY DEF Drain
<1>2. QED BY <1>1, WorkerMoves

LEMMA RetireEndIInv == ASSUME IInv, RetireEnd PROVE IInv'
<1>1. /\ UNCHANGED <<replayVars, queueVars, woken, publisher, writer, disk, retired,
                     retirements, failed>>
      /\ worker' = "ended"
  BY DEF RetireEnd
<1>2. QED BY <1>1, WorkerMoves

\* A retirement starts a drain: the queue keeps its work, the epoch stays live.
LEMMA RetireIInv == ASSUME IInv, NEW m \in Markets, Retire(m) PROVE IInv'
<1> DEFINE e == [market |-> m, gap |-> publisher[m].volatile]
           n == Len(retirements)
<1>0. /\ UNCHANGED <<replay, aggregate, turn, accepting, publisher, writer, disk, worker, failed>>
      /\ m \notin retired /\ publisher[m].pc = "idle"
      /\ lane' = [lane EXCEPT ![m].draining = TRUE] /\ woken' = TRUE
      /\ retirements' = Append(retirements, e) /\ retired' = retired \cup {m}
  BY DEF Retire, Present, LiveOnly, replayVars, retireVars
<1>1. /\ retired \in SUBSET Markets /\ retirements \in Seq(Entry) /\ e \in Entry
      /\ e.market = m /\ e.gap = publisher[m].volatile
  BY LaneTypes DEF IInv, OwnerTypes, Entry, Call
<1> HIDE DEF e
<1>2. /\ retirements' \in Seq(Entry) /\ n \in Nat
      /\ DOMAIN retirements = 1..n /\ DOMAIN retirements' = 1..(n + 1)
      /\ \A i \in 1..n : retirements'[i] = retirements[i] /\ i \in 1..(n + 1) /\ i # n + 1
      /\ retirements'[n + 1] = e /\ n + 1 \in 1..(n + 1)
      /\ \A i \in 1..(n + 1) : i \in 1..n \/ i = n + 1
  <2>1. /\ retirements' \in Seq(Entry) /\ n \in Nat /\ Len(retirements') = n + 1
        /\ \A i \in 1..n : retirements'[i] = retirements[i]
        /\ retirements'[n + 1] = e
    BY <1>0, <1>1, AppendProperties, LenProperties
  <2>2. DOMAIN retirements = 1..n /\ DOMAIN retirements' = 1..(n + 1)
    BY <1>1, <2>1, LenProperties
  <2> HIDE DEF n
  <2>3. QED BY <2>1, <2>2
<1> HIDE DEF n
<1>3. /\ \A i \in 1..n : retirements[i].market # m
      /\ \A k : k # m => (Waiting(k)' <=> Waiting(k))
      /\ Waiting(m)' /\ ~Waiting(m)
  <2>1. \A i \in 1..n : retirements[i].market # m
    BY <1>0, <1>2 DEF IInv, Retiring
  <2>2. ASSUME NEW k, k # m PROVE Waiting(k)' <=> Waiting(k)
    <3>1. Waiting(k)' => Waiting(k)
      BY <1>1, <1>2, <2>2 DEF Waiting
    <3>2. Waiting(k) => Waiting(k)'
      BY <1>2 DEF Waiting
    <3>3. QED BY <3>1, <3>2
  <2>3. Waiting(m)' /\ ~Waiting(m)
    BY <1>1, <1>2, <2>1 DEF Waiting
  <2>4. QED BY <2>1, <2>2, <2>3
<1>4. /\ \A k \in Markets \ {m} : lane'[k] = lane[k]
      /\ lane'[m].used = lane[m].used /\ lane'[m].active = lane[m].active
      /\ lane'[m].pending = lane[m].pending
      /\ lane' \in [Markets -> QueueLane]
  <2>1. lane \in [Markets -> QueueLane] /\ lane[m] \in QueueLane
    BY DEF IInv, QueueTypes
  <2> DEFINE new == [lane[m] EXCEPT !.draining = TRUE]
  <2>2. lane' = [lane EXCEPT ![m] = new]
    BY <1>0, <2>1
  <2>3. /\ new \in QueueLane /\ new.used = lane[m].used /\ new.active = lane[m].active
        /\ new.pending = lane[m].pending
    BY <2>1 DEF QueueLane
  <2> HIDE DEF new
  <2>4. QED BY <2>1, <2>2, <2>3
<1>5. PublishTypes' /\ QueueTypes' /\ OwnerTypes'
  BY <1>0, <1>1, <1>2, <1>4 DEF IInv, PublishTypes, QueueTypes, OwnerTypes
<1>6. Retiring'
  <2>1. \A i, j \in DOMAIN retirements' : retirements'[i].market = retirements'[j].market => i = j
    <3>1. \A i, j \in 1..n : retirements[i].market = retirements[j].market => i = j
      BY <1>2 DEF IInv, Retiring
    <3>2. QED BY <1>1, <1>2, <1>3, <3>1
  <2>2. \A i \in DOMAIN retirements' :
          /\ retirements'[i].market \in retired'
          /\ retirements'[i].gap = publisher'[retirements'[i].market].volatile
    BY <1>0, <1>1, <1>2 DEF IInv, Retiring
  <2>3. \A k \in retired' : /\ publisher'[k].pc = "idle"
                            /\ Waiting(k)' \/ (replay'[k] = NewReplay /\ lane'[k] = NewLane)
    BY <1>0, <1>1, <1>3, <1>4 DEF IInv, Retiring
  <2>4. worker' = "release" => retirements' # <<>> /\ Drained(Head(retirements).market)'
    <3> SUFFICES ASSUME worker = "release" PROVE retirements' # <<>> /\ Drained(Head(retirements).market)'
      BY <1>0
    <3>1. retirements # <<>> /\ Drained(Head(retirements).market)
      BY DEF IInv, Retiring
    <3>2. Head(retirements) \in Entry /\ Head(retirements') = Head(retirements) /\ retirements' # <<>>
      BY <1>0, <1>1, <1>2, <3>1
    <3>3. PICK k \in Markets : k = Head(retirements).market
      BY <3>2 DEF Entry
    <3>4. Drained(k)'
      BY <1>4, <3>1, <3>3 DEF Drained
    <3>5. QED BY <3>2, <3>3, <3>4 DEF Drained
  <2>5. QED BY <2>1, <2>2, <2>3, <2>4 DEF Retiring
<1>7. Failing'
  BY <1>0, <1>4 DEF IInv, Failing
<1>8. Scanned'
  BY <1>0 DEF Scanned
<1>9. Aggregated'
  <2>1. Total([k \in Markets |-> lane[k].used], Markets)' = (aggregate - lane[m].used) + lane[m].used
    <3>1. lane[m].used \in Nat
      BY LaneTypes DEF QueueLane
    <3>2. QED BY <1>4, <3>1, AggregateStep
  <2>2. aggregate \in Int /\ lane[m].used \in Nat
    BY AggregateInt, LaneTypes DEF QueueLane
  <2>3. QED BY <1>0, <2>1, <2>2 DEF Aggregated
<1>10. Healthy' <=> Healthy
  BY <1>0 DEF Healthy
<1>11. ASSUME NEW k \in Markets \ {m} PROVE Reserved(k)' /\ Archived(k)' /\ Windowed(k)' /\ Seen(k)'
  <2>1. Reserved(k) /\ Archived(k) /\ Windowed(k) /\ Seen(k)
    BY LaneTypes
  <2>2. Live(k)' => Live(k)
    BY <1>0, <1>3 DEF Live
  <2>3. lane[k].pending # <<>> /\ writer'.pc # "abandon" => \E i \in DOMAIN turn' : turn'[i] = k
    BY <1>0, <2>1 DEF Reserved
  <2>4. QED BY <1>0, <1>4, <1>10, <2>1, <2>2, <2>3, Apart
<1>12. /\ Reserved(m) /\ Archived(m) /\ Windowed(m) /\ Seen(m) /\ Live(m) /\ Live(m)'
       /\ Stored(m)' = Stored(m) /\ (Holds(m)' <=> Holds(m))
  BY <1>0, <1>3, LaneTypes DEF Live, Stored, Holds
<1>13. Reserved(m)'
  BY <1>0, <1>4, <1>12 DEF Reserved
<1>14. Archived(m)'
  BY <1>0, <1>4, <1>10, <1>12 DEF Archived
<1>15. Windowed(m)'
  BY <1>0, <1>12 DEF Windowed, Locked
<1>16. Seen(m)'
  BY <1>0, <1>4, <1>12 DEF Seen
<1>17. QED BY <1>5, <1>6, <1>7, <1>8, <1>9, <1>11, <1>13, <1>14, <1>15, <1>16 DEF IInv, Lanes

\* Admission starts a new epoch: what was released left nothing.
LEMMA RegisterIInv == ASSUME IInv, NEW m \in Markets, Register(m) PROVE IInv'
<1>0. /\ UNCHANGED <<replay, lane, aggregate, turn, accepting, woken, writer, retirements, worker,
                     failed>>
      /\ m \in retired /\ ~Waiting(m) /\ retired' = retired \ {m}
      /\ publisher' = [publisher EXCEPT ![m] = Idle]
      /\ disk' = [disk EXCEPT ![m] = <<>>]
  BY DEF Register, Waiting, replayVars, queueVars
<1>1. /\ replay[m] = NewReplay /\ lane[m] = NewLane
      /\ retired \in SUBSET Markets /\ \A k : Waiting(k)' <=> Waiting(k)
  BY <1>0 DEF IInv, Retiring, OwnerTypes, Waiting
<1>2. /\ Idle \in Call /\ <<>> \in Seq(Nat) /\ Len(<<>>) = 0
      /\ publisher \in [Markets -> Call] /\ disk \in [Markets -> Seq(Nat)]
  BY EmptySeq DEF IInv, PublishTypes, Idle, Call
<1>3. /\ \A k \in Markets \ {m} : publisher'[k] = publisher[k] /\ disk'[k] = disk[k]
      /\ publisher'[m] = Idle /\ disk'[m] = <<>>
      /\ publisher' \in [Markets -> Call] /\ disk' \in [Markets -> Seq(Nat)]
  BY <1>0, <1>2
<1>4. PublishTypes' /\ OwnerTypes'
  BY <1>0, <1>1, <1>3 DEF IInv, PublishTypes, OwnerTypes
<1>5. QueueTypes' /\ Failing' /\ Aggregated'
  BY <1>0, SameQueue
<1>6. Retiring'
  <2>1. \A i \in DOMAIN retirements : retirements[i].market # m
    BY <1>0 DEF Waiting
  <2>2. \A i \in DOMAIN retirements : retirements[i].market \in retired' /\ retirements[i].market \in Markets
    BY <1>0, <1>1, <2>1 DEF IInv, Retiring
  <2>3. \A i \in DOMAIN retirements' :
          /\ retirements'[i].market \in retired'
          /\ retirements'[i].gap = publisher'[retirements'[i].market].volatile
    BY <1>0, <1>3, <2>1, <2>2 DEF IInv, Retiring
  <2>4. \A k \in retired' : /\ publisher'[k].pc = "idle"
                            /\ Waiting(k)' \/ (replay'[k] = NewReplay /\ lane'[k] = NewLane)
    BY <1>0, <1>1, <1>3 DEF IInv, Retiring
  <2>5. worker' = "release" => retirements' # <<>> /\ Drained(Head(retirements).market)'
    BY <1>0 DEF IInv, Retiring, Drained
  <2>6. QED BY <1>0, <2>3, <2>4, <2>5 DEF IInv, Retiring
<1>7. Healthy' <=> Healthy
  BY <1>0 DEF Healthy
<1>8. ASSUME NEW k \in Markets \ {m} PROVE Reserved(k)' /\ Archived(k)' /\ Windowed(k)' /\ Seen(k)'
  <2>1. Reserved(k) /\ Archived(k) /\ Windowed(k) /\ Seen(k)
    BY LaneTypes
  <2>2. Live(k)' => Live(k)
    BY <1>0, <1>1 DEF Live
  <2>3. lane[k].pending # <<>> /\ writer'.pc # "abandon" => \E i \in DOMAIN turn' : turn'[i] = k
    BY <1>0, <2>1 DEF Reserved
  <2>4. QED BY <1>0, <1>3, <1>7, <2>1, <2>2, <2>3, Apart
<1>9. /\ Reserved(m) /\ lane[m].active = FALSE /\ lane[m].pending = <<>>
      /\ replay[m].published = 0 /\ replay[m].durable = 0 /\ replay[m].floor = 0
      /\ replay[m].groups = <<>>
  BY <1>1, LaneTypes DEF NewLane, NewReplay
<1>10. ~Holds(m) /\ ~Holds(m)'
  BY <1>0, <1>9 DEF Reserved, Holds
<1>11. Len(disk'[m]) = 0 /\ Len(lane'[m].pending) = 0 /\ DOMAIN disk'[m] = {} /\ DOMAIN lane'[m].pending = {}
  BY <1>0, <1>3, <1>9
<1>12. Stored(m)' = 0
  BY <1>10, <1>11 DEF Stored, Holds
<1>13. publisher'[m].pc = "idle" /\ publisher'[m].volatile = FALSE
  BY <1>3 DEF Idle
<1>14. Reserved(m)'
  BY <1>0, <1>9, <1>10 DEF Reserved
<1>15. Archived(m)'
  BY <1>0, <1>9, <1>10, <1>11, <1>12, <1>13 DEF Archived
<1>16. Windowed(m)'
  <2>1. Len(replay'[m].groups) = 0 /\ DOMAIN replay'[m].groups = {}
    BY <1>0, <1>9
  <2>2. QED BY <1>0, <1>9, <1>13, <2>1 DEF Windowed, Locked
<1>17. Seen(m)'
  BY <1>0, <1>9, <1>11, <1>12 DEF Seen
<1>18. Scanned'
  <2>1. \A k \in Markets : Takes(k)' => Takes(k) /\ k # m
    BY <1>0, <1>3, <1>9 DEF Takes
  <2>2. QED BY <1>0, <1>3, <2>1 DEF IInv, Scanned
<1>19. QED BY <1>4, <1>5, <1>6, <1>8, <1>14, <1>15, <1>16, <1>17, <1>18 DEF IInv, Lanes

\* A pause ends the window of a market: it is empty, and its floor is what is published.
LEMMA InvalidateIInv == ASSUME IInv, NEW m \in Markets, Invalidate(m) PROVE IInv'
<1>0. /\ UNCHANGED <<lane, aggregate, turn, accepting, woken, publisher, writer, disk>>
      /\ UNCHANGED <<retired, retirements, worker, failed>> /\ ~Locked(m)
      /\ replay' = [replay EXCEPT ![m] = Invalidated(replay[m])]
  BY DEF Invalidate, queueVars, retireVars
<1>1. replay \in [Markets -> ReplayLane] /\ replay[m] \in ReplayLane /\ <<>> \in Seq(Group)
  BY EmptySeq DEF IInv, PublishTypes
<1>2. /\ Invalidated(replay[m]) \in ReplayLane
      /\ Invalidated(replay[m]).published = replay[m].published
      /\ Invalidated(replay[m]).durable = replay[m].durable
      /\ Invalidated(replay[m]).floor = replay[m].published
      /\ Invalidated(replay[m]).groups = <<>>
      /\ Invalidated(replay[m]).slot = FALSE
      /\ Invalidated(replay[m]).boundary = replay[m].published
  BY <1>1 DEF Invalidated, ReplayLane
<1>3. replay[m] = NewReplay => Invalidated(replay[m]) = NewReplay
  <2> DEFINE r == Invalidated(replay[m])
  <2>1. /\ r \in ReplayLane /\ r.published = replay[m].published /\ r.durable = replay[m].durable
        /\ r.floor = replay[m].published /\ r.groups = <<>> /\ r.slot = FALSE
        /\ r.boundary = replay[m].published
    BY <1>2
  <2> HIDE DEF r
  <2>2. replay[m] = NewReplay => NewReplay \in ReplayLane /\ replay[m].published = 0 /\ replay[m].durable = 0
    BY <1>1 DEF NewReplay
  <2>3. replay[m] = NewReplay => r = NewReplay
    BY <2>1, <2>2 DEF ReplayLane, NewReplay
  <2>4. QED BY <2>3 DEF r
<1>4. /\ \A k \in Markets \ {m} : replay'[k] = replay[k]
      /\ replay'[m].published = replay[m].published /\ replay'[m].durable = replay[m].durable
      /\ replay'[m].floor = replay[m].published /\ replay'[m].groups = <<>>
      /\ replay[m] = NewReplay => replay'[m] = NewReplay
      /\ replay' \in [Markets -> ReplayLane]
  BY <1>0, <1>1, <1>2, <1>3
<1>5. PublishTypes' /\ OwnerTypes'
  BY <1>0, <1>4 DEF IInv, PublishTypes, OwnerTypes
<1>6. QueueTypes' /\ Failing' /\ Aggregated'
  BY <1>0, SameQueue
<1>7. \A k : (Waiting(k)' <=> Waiting(k)) /\ (Live(k)' <=> Live(k))
  BY <1>0 DEF Waiting, Live
<1>8. Retiring'
  <2>1. retired \in SUBSET Markets
    BY DEF IInv, OwnerTypes
  <2>2. \A k \in retired' : /\ publisher'[k].pc = "idle"
                            /\ Waiting(k)' \/ (replay'[k] = NewReplay /\ lane'[k] = NewLane)
    BY <1>0, <1>4, <1>7, <2>1 DEF IInv, Retiring
  <2>3. worker' = "release" => retirements' # <<>> /\ Drained(Head(retirements).market)'
    BY <1>0 DEF IInv, Retiring, Drained
  <2>4. QED BY <1>0, <2>2, <2>3 DEF IInv, Retiring
<1>9. Healthy' <=> Healthy
  BY <1>0 DEF Healthy
<1>10. ASSUME NEW k \in Markets \ {m} PROVE Reserved(k)' /\ Archived(k)' /\ Windowed(k)' /\ Seen(k)'
  <2>1. Reserved(k) /\ Archived(k) /\ Windowed(k) /\ Seen(k)
    BY LaneTypes
  <2>2. lane[k].pending # <<>> /\ writer'.pc # "abandon" => \E i \in DOMAIN turn' : turn'[i] = k
    BY <1>0, <2>1 DEF Reserved
  <2>3. QED BY <1>0, <1>4, <1>7, <1>9, <2>1, <2>2, Apart
<1>11. /\ Reserved(m) /\ Archived(m) /\ Windowed(m) /\ Seen(m)
       /\ Stored(m)' = Stored(m) /\ (Holds(m)' <=> Holds(m))
  BY <1>0, LaneTypes DEF Stored, Holds
<1>12. Reserved(m)'
  BY <1>0, <1>11 DEF Reserved
<1>13. Archived(m)'
  BY <1>0, <1>4, <1>7, <1>9, <1>11 DEF Archived
<1>14. Windowed(m)'
  <2>1. Len(replay'[m].groups) = 0 /\ DOMAIN replay'[m].groups = {} /\ replay[m].published \in Nat
    BY <1>1, <1>4 DEF ReplayLane
  <2>2. ~Locked(m)'
    BY <1>0 DEF Locked
  <2>3. QED BY <1>4, <2>1, <2>2 DEF Windowed
<1>15. Seen(m)'
  BY <1>0, <1>4, <1>7, <1>11 DEF Seen
<1>16. Scanned'
  BY <1>0 DEF IInv, Scanned, Takes
<1>17. QED BY <1>5, <1>6, <1>8, <1>10, <1>12, <1>13, <1>14, <1>15, <1>16 DEF IInv, Lanes

\* The market at the head of the retirement queue, once the worker may release it.  Its
\* lane is empty, and unless something failed everything it published is durable or it
\* was declared live-only: the release is not refused.
LEMMA Releasing ==
  ASSUME IInv, worker = "release"
  PROVE \E m \in Markets :
          /\ m = Head(retirements).market /\ retirements # <<>> /\ m \in retired /\ Waiting(m)
          /\ lane[m].used = 0 /\ lane[m].pending = <<>> /\ ~Holds(m) /\ ~Locked(m)
          /\ publisher[m].pc = "idle"
          /\ Healthy => Head(retirements).gap \/ replay[m].published = replay[m].durable
<1>1. /\ retirements # <<>> /\ Drained(Head(retirements).market) /\ retirements \in Seq(Entry)
      /\ retired \in SUBSET Markets
  BY DEF IInv, Retiring, OwnerTypes
<1>2. 1 \in DOMAIN retirements /\ Head(retirements) = retirements[1] /\ retirements[1] \in Entry
  <2>1. Len(retirements) \in Nat /\ Len(retirements) # 0 /\ DOMAIN retirements = 1..Len(retirements)
    BY <1>1, EmptySeq, LenProperties
  <2>2. 1 \in DOMAIN retirements
    BY <2>1
  <2>3. QED BY <1>1, <2>1, <2>2, ElementOfSeq
<1>3. PICK m \in Markets : m = retirements[1].market
  BY <1>2 DEF Entry
<1>4. /\ m = Head(retirements).market /\ m \in retired /\ Waiting(m) /\ publisher[m].pc = "idle"
      /\ Head(retirements).gap = publisher[m].volatile
  BY <1>2, <1>3 DEF IInv, Retiring, Waiting
<1>5. /\ lane[m].used = 0 /\ ~lane[m].active /\ lane[m] \in QueueLane /\ lane[m].pending \in Seq(Item)
      /\ Reserved(m) /\ Archived(m) /\ Len(lane[m].pending) \in Nat
      /\ replay[m] \in ReplayLane /\ disk[m] \in Seq(Nat)
  BY <1>1, <1>4, LaneTypes, PendingTypes DEF Drained
<1>6. Len(lane[m].pending) = 0 /\ lane[m].pending = <<>>
  <2>1. lane[m].used = Len(lane[m].pending) + 0
    BY <1>5 DEF Reserved
  <2>2. Len(lane[m].pending) = 0
    BY <1>5, <2>1
  <2>3. QED BY <1>5, <2>2, EmptySeq
<1>7. ~Holds(m) /\ ~Locked(m) /\ Stored(m) = Len(disk[m]) /\ Live(m)
  <2>1. ~Holds(m)
    BY <1>5 DEF Reserved
  <2>2. QED BY <1>4, <2>1 DEF Locked, Stored, Holds, Live
<1>8. Healthy => Head(retirements).gap \/ replay[m].published = replay[m].durable
  <2> SUFFICES ASSUME Healthy, ~publisher[m].volatile PROVE replay[m].published = replay[m].durable
    BY <1>4
  <2>1. Len(disk[m]) = replay[m].durable + 0
    BY <1>5, <1>7 DEF Archived
  <2>2. Stored(m) + Len(lane[m].pending) = replay[m].published + 0
    BY <1>4, <1>5, <1>7 DEF Archived
  <2>3. replay[m].published \in Nat /\ replay[m].durable \in Nat /\ Len(disk[m]) \in Nat
    BY <1>5, LenProperties DEF ReplayLane
  <2>4. QED BY <1>6, <1>7, <2>1, <2>2, <2>3
<1>9. QED BY <1>1, <1>4, <1>5, <1>6, <1>7, <1>8

LEMMA ReleasedIInv == ASSUME IInv, Released PROVE IInv'
<1>1. PICK m \in Markets :
          /\ m = Head(retirements).market /\ retirements # <<>> /\ m \in retired /\ Waiting(m)
          /\ lane[m].used = 0 /\ lane[m].pending = <<>> /\ ~Holds(m) /\ ~Locked(m)
          /\ publisher[m].pc = "idle"
          /\ Healthy => Head(retirements).gap \/ replay[m].published = replay[m].durable
  BY Releasing DEF Released
<1>2. /\ UNCHANGED <<aggregate, accepting, woken, publisher, writer, disk, retired>>
      /\ lane' = [lane EXCEPT ![m] = NewLane]
      /\ turn' = Kept(turn, Markets \ {m})
      /\ \/ /\ replay' = [replay EXCEPT ![m] = NewReplay]
            /\ retirements' = Tail(retirements) /\ worker' = "wait" /\ failed' = failed
         \/ /\ ~Healthy /\ worker' = "ended" /\ failed' = "error"
            /\ UNCHANGED <<replay, retirements>>
  BY <1>1 DEF Released, replayVars
<1>3. /\ retirements \in Seq(Entry) /\ retired \in SUBSET Markets /\ turn \in Seq(Markets)
      /\ replay \in [Markets -> ReplayLane] /\ lane \in [Markets -> QueueLane]
      /\ NewLane \in QueueLane /\ NewReplay \in ReplayLane
  <2>1. <<>> \in Seq(Item) /\ <<>> \in Seq(Group)
    BY EmptySeq
  <2>2. NewLane \in QueueLane
    BY <2>1 DEF NewLane, QueueLane
  <2>3. NewReplay \in ReplayLane
    BY <2>1 DEF NewReplay, ReplayLane
  <2>4. QED BY <2>2, <2>3 DEF IInv, OwnerTypes, QueueTypes, PublishTypes
<1>4. /\ \A k \in Markets \ {m} : lane'[k] = lane[k] /\ replay'[k] = replay[k]
      /\ lane'[m] = NewLane /\ (replay'[m] = NewReplay \/ replay'[m] = replay[m])
      /\ lane' \in [Markets -> QueueLane] /\ replay' \in [Markets -> ReplayLane]
  BY <1>2, <1>3
<1>5. lane'[m].used = 0 /\ lane'[m].pending = <<>> /\ lane'[m].active = FALSE
  BY <1>4 DEF NewLane
<1>6. /\ turn' \in Seq(Markets)
      /\ \A k \in Markets \ {m} : \A i \in DOMAIN turn :
            turn[i] = k => \E j \in DOMAIN turn' : j <= i /\ turn'[j] = k
  <2> DEFINE T == Markets \ {m}
  <2>0. turn' = Kept(turn, T)
    BY <1>2
  <2> HIDE DEF T
  <2>1. /\ turn' \in Seq(Markets)
        /\ \A i \in 1..Len(turn) : turn[i] \in T =>
              \E j \in 1..Len(turn') : j <= i /\ turn'[j] = turn[i]
    BY <1>3, <2>0, KeptKeeps
  <2>2. DOMAIN turn = 1..Len(turn) /\ DOMAIN turn' = 1..Len(turn')
    BY <1>3, <2>1, LenProperties
  <2>3. QED BY <2>1, <2>2 DEF T
<1>7. /\ retirements' \in Seq(Entry)
      /\ \A k \in Markets \ {m} : Waiting(k)' <=> Waiting(k)
      /\ retirements' = retirements \/ (retirements' = Tail(retirements) /\ ~Waiting(m)' /\ replay'[m] = NewReplay)
      /\ Retiring'
  <2>1. /\ \A i, j \in DOMAIN retirements : retirements[i].market = retirements[j].market => i = j
        /\ \A i \in DOMAIN retirements :
              /\ retirements[i].market \in retired
              /\ retirements[i].gap = publisher[retirements[i].market].volatile
        /\ \A k \in retired : /\ publisher[k].pc = "idle"
                              /\ Waiting(k) \/ (replay[k] = NewReplay /\ lane[k] = NewLane)
    BY DEF IInv, Retiring
  <2>2. CASE retirements' = Tail(retirements) /\ worker' = "wait" /\ replay'[m] = NewReplay
    <3> DEFINE n == Len(retirements)
    <3>1. /\ n \in Nat /\ n # 0 /\ DOMAIN retirements = 1..n /\ retirements' \in Seq(Entry)
          /\ DOMAIN retirements' = 1..(n - 1)
          /\ \A i \in 1..(n - 1) : retirements'[i] = retirements[i + 1]
          /\ retirements[1].market = m
      <4>1. n \in Nat /\ n # 0 /\ DOMAIN retirements = 1..n
        BY <1>1, <1>3, EmptySeq, LenProperties
      <4>2. /\ Tail(retirements) \in Seq(Entry) /\ Len(Tail(retirements)) = n - 1
            /\ \A i \in 1..(n - 1) : Tail(retirements)[i] = retirements[i + 1]
            /\ Head(retirements) = retirements[1]
        BY <1>1, <1>3, <4>1, HeadTailProperties
      <4>3. DOMAIN retirements' = 1..(n - 1)
        BY <2>2, <4>2, LenProperties
      <4>4. QED BY <1>1, <2>2, <4>1, <4>2, <4>3
    <3> HIDE DEF n
    <3>2. \A i \in 1..(n - 1) : i + 1 \in 1..n /\ i + 1 # 1
      BY <3>1
    <3>3. 1 \in 1..n /\ \A i \in 1..n : i = 1 \/ (i - 1 \in 1..(n - 1) /\ (i - 1) + 1 = i)
      BY <3>1
    <3>4. \A i \in 1..(n - 1) : retirements'[i].market # m
      BY <2>1, <3>1, <3>2, <3>3
    <3>5. ~Waiting(m)'
      BY <3>1, <3>4 DEF Waiting
    <3>6. ASSUME NEW k \in Markets \ {m} PROVE Waiting(k)' <=> Waiting(k)
      <4>1. Waiting(k)' => Waiting(k)
        BY <3>1, <3>2 DEF Waiting
      <4>2. ASSUME Waiting(k) PROVE Waiting(k)'
        <5>1. PICK i \in 1..n : retirements[i].market = k
          BY <3>1, <4>2 DEF Waiting
        <5>2. i # 1 /\ i - 1 \in 1..(n - 1) /\ retirements'[i - 1] = retirements[i]
          BY <3>1, <3>3, <5>1
        <5>3. QED BY <3>1, <5>1, <5>2 DEF Waiting
      <4>3. QED BY <4>1, <4>2
    <3>7. \A i, j \in DOMAIN retirements' : retirements'[i].market = retirements'[j].market => i = j
      <4> SUFFICES ASSUME NEW i \in 1..(n - 1), NEW j \in 1..(n - 1),
                          retirements'[i].market = retirements'[j].market
                   PROVE i = j
        BY <3>1
      <4>1. i + 1 = j + 1
        BY <2>1, <3>1, <3>2, SMTT(30)
      <4>2. QED BY <4>1
    <3>8. \A i \in DOMAIN retirements' :
              /\ retirements'[i].market \in retired'
              /\ retirements'[i].gap = publisher'[retirements'[i].market].volatile
      <4> SUFFICES ASSUME NEW i \in 1..(n - 1)
                   PROVE /\ retirements'[i].market \in retired
                         /\ retirements'[i].gap = publisher[retirements'[i].market].volatile
        BY <1>2, <3>1
      <4>1. i + 1 \in DOMAIN retirements /\ retirements'[i] = retirements[i + 1]
        BY <3>1, <3>2
      <4>2. QED BY <2>1, <4>1
    <3>9. \A k \in retired' : /\ publisher'[k].pc = "idle"
                              /\ Waiting(k)' \/ (replay'[k] = NewReplay /\ lane'[k] = NewLane)
      BY <1>2, <1>3, <1>4, <2>1, <2>2, <3>6
    <3>10. Retiring'
      BY <2>2, <3>7, <3>8, <3>9 DEF Retiring
    <3>11. QED BY <2>2, <3>1, <3>5, <3>6, <3>10
  <2>3. CASE worker' = "ended" /\ UNCHANGED <<replay, retirements>>
    <3>1. \A k : Waiting(k)' <=> Waiting(k)
      BY <2>3 DEF Waiting
    <3>2. \A k \in retired' : /\ publisher'[k].pc = "idle"
                              /\ Waiting(k)' \/ (replay'[k] = NewReplay /\ lane'[k] = NewLane)
      BY <1>1, <1>2, <1>3, <1>4, <2>1, <2>3, <3>1
    <3>3. Retiring'
      BY <1>2, <2>1, <2>3, <3>2 DEF Retiring
    <3>4. QED BY <1>3, <2>3, <3>1, <3>3
  <2>4. QED BY <1>2, <1>3, <2>2, <2>3
<1>8. PublishTypes' /\ QueueTypes' /\ OwnerTypes'
  BY <1>2, <1>4, <1>6, <1>7 DEF IInv, PublishTypes, QueueTypes, OwnerTypes
<1>9. Failing'
  <2>1. failed' # "no" => writer.pc \in {"failing", "abandon", "ended"}
    BY <1>2 DEF IInv, Failing, Healthy
  <2>2. writer.pc = "abandon" => failed' # "no"
    BY <1>2 DEF IInv, Failing
  <2>3. \A k \in Markets : lane[k].pending = <<>> => lane'[k].pending = <<>>
    BY <1>4, <1>5
  <2>4. writer.done \in SUBSET Markets
    BY DEF IInv, QueueTypes
  <2>5. QED BY <1>2, <2>1, <2>2, <2>3, <2>4 DEF IInv, Failing
<1>10. Aggregated'
  <2>1. Total([k \in Markets |-> lane[k].used], Markets)' = (aggregate - lane[m].used) + 0
    BY <1>4, <1>5, AggregateStep
  <2>2. aggregate \in Int
    BY AggregateInt
  <2>3. QED BY <1>1, <1>2, <2>1, <2>2 DEF Aggregated
<1>11. Scanned'
  <2> SUFFICES ASSUME ~woken, writer.pc \in {"scan", "sleep"}, NEW k \in Markets, Takes(k)'
               PROVE \/ publisher[k].pc \in {"admitted", "visible"}
                     \/ /\ writer.pc = "scan"
                        /\ \E i \in DOMAIN turn' : i <= writer.left /\ turn'[i] = k
    BY <1>2 DEF Scanned
  <2>1. k # m /\ Takes(k)
    BY <1>2, <1>4, <1>5 DEF Takes
  <2>2. \/ publisher[k].pc \in {"admitted", "visible"}
        \/ /\ writer.pc = "scan"
           /\ \E i \in DOMAIN turn : i <= writer.left /\ turn[i] = k
    BY <2>1 DEF IInv, Scanned
  <2>3. ASSUME NEW i \in DOMAIN turn, i <= writer.left, turn[i] = k
        PROVE \E j \in DOMAIN turn' : j <= writer.left /\ turn'[j] = k
    <3>1. PICK j \in DOMAIN turn' : j <= i /\ turn'[j] = k
      BY <1>6, <2>1, <2>3
    <3>2. i \in Int /\ j \in Int /\ writer.left \in Int
      <4>1. DOMAIN turn = 1..Len(turn) /\ DOMAIN turn' = 1..Len(turn')
        BY <1>3, <1>6, LenProperties
      <4>2. writer.left \in Nat
        BY DEF IInv, QueueTypes
      <4>3. QED BY <4>1, <4>2
    <3>3. j <= writer.left
      BY <2>3, <3>1, <3>2
    <3>4. QED BY <3>1, <3>3
  <2>4. QED BY <2>2, <2>3
<1>12. Healthy' => Healthy
  BY <1>2 DEF Healthy
<1>13. ASSUME NEW k \in Markets \ {m} PROVE Reserved(k)' /\ Archived(k)' /\ Windowed(k)' /\ Seen(k)'
  <2>1. Reserved(k) /\ Archived(k) /\ Windowed(k) /\ Seen(k)
    BY LaneTypes
  <2>2. Live(k)' => Live(k)
    BY <1>2, <1>7 DEF Live
  <2>3. lane[k].pending # <<>> /\ writer'.pc # "abandon" => \E i \in DOMAIN turn' : turn'[i] = k
    BY <1>2, <1>6, <2>1 DEF Reserved
  <2>4. QED BY <1>2, <1>4, <1>12, <2>1, <2>2, <2>3, Apart
<1>14. /\ Archived(m) /\ Windowed(m) /\ Seen(m) /\ ~Holds(m)' /\ ~Locked(m)'
       /\ Stored(m) = Len(disk[m]) /\ Stored(m)' = Len(disk[m]) /\ Len(disk[m]) \in Nat
  <2>1. ~Holds(m)' /\ ~Locked(m)' /\ Stored(m)' = Len(disk[m]) /\ Stored(m) = Len(disk[m])
    BY <1>1, <1>2 DEF Holds, Locked, Stored
  <2>2. QED BY <2>1, LaneTypes, LenProperties
<1>15. Len(lane'[m].pending) = 0 /\ DOMAIN lane'[m].pending = {}
  BY <1>5
<1>16. Reserved(m)'
  BY <1>5, <1>14, <1>15 DEF Reserved
<1>17. /\ replay'[m].durable <= Len(disk'[m])
       /\ Live(m)' /\ replay'[m] # replay[m] => FALSE
       /\ replay'[m] = replay[m] /\ Live(m)' /\ Healthy' => FALSE
  <2>1. CASE replay' = replay /\ retirements' = retirements /\ ~Healthy /\ failed' = "error"
    BY <1>2, <1>14, <2>1 DEF Archived, Healthy
  <2>2. CASE replay'[m] = NewReplay /\ retirements' = Tail(retirements) /\ ~Waiting(m)'
    <3>1. ~Live(m)'
      BY <1>1, <1>2, <2>2 DEF Live
    <3>2. replay'[m].durable = 0
      BY <2>2 DEF NewReplay
    <3>3. QED BY <1>2, <1>14, <3>1, <3>2
  <2>3. CASE retirements' = Tail(retirements) /\ replay' = [replay EXCEPT ![m] = NewReplay]
    <3>1. retirements' # retirements
      <4>1. Len(Tail(retirements)) = Len(retirements) - 1 /\ Len(retirements) \in Nat
        BY <1>1, <1>3, HeadTailProperties, LenProperties
      <4>2. Len(Tail(retirements)) # Len(retirements)
        BY <4>1
      <4>3. QED BY <2>3, <4>2
    <3>2. QED BY <1>7, <2>2, <2>3, <3>1
  <2>4. QED BY <1>2, <2>1, <2>3
<1>18. Archived(m)'
  <2>1. Live(m)' /\ Healthy' => FALSE
    BY <1>17
  <2>2. QED BY <1>1, <1>2, <1>14, <1>15, <1>17, <2>1 DEF Archived
<1>19. Windowed(m)'
  <2>1. CASE replay'[m] = replay[m]
    BY <1>14, <2>1 DEF Windowed
  <2>2. CASE replay'[m] = NewReplay
    <3>1. /\ replay'[m].floor = 0 /\ replay'[m].published = 0
          /\ Len(replay'[m].groups) = 0 /\ DOMAIN replay'[m].groups = {}
      BY <2>2 DEF NewReplay
    <3>2. QED BY <1>14, <3>1 DEF Windowed
  <2>3. QED BY <1>4, <2>1, <2>2
<1>20. Seen(m)'
  <2>1. Live(m)' => Live(m) /\ replay'[m] = replay[m]
    BY <1>1, <1>17 DEF Live
  <2>2. Live(m)' => Stored(m)' <= replay'[m].published
    BY <1>14, <2>1 DEF Seen
  <2>3. QED BY <1>15, <2>2 DEF Seen
<1>21. QED BY <1>8, <1>7, <1>9, <1>10, <1>11, <1>13, <1>16, <1>18, <1>19, <1>20 DEF IInv, Lanes

-----------------------------------------------------------------------------
(* Every step keeps the invariant.                                         *)

LEMMA NextIInv == ASSUME IInv, [Next]_vars PROVE IInv'
<1>1. CASE \E m \in Markets : Plan(m)
  BY <1>1, PlanIInv
<1>2. CASE \E m \in Markets : Admit(m)
  BY <1>2, AdmitIInv
<1>3. CASE \E m \in Markets : Push(m)
  BY <1>3, PushIInv
<1>4. CASE \E m \in Markets : Commit(m)
  BY <1>4, CommitIInv
<1>5. CASE \E m \in Markets : Ready(m)
  BY <1>5, ReadyIInv
<1>6. CASE WriterStep
  <2>1. CASE \E m \in Markets : Abandon(m)
    BY <2>1, AbandonIInv
  <2>2. QED BY <1>6, <2>1, LookIInv, ScanIInv, RestIInv, AwakeIInv, PersistIInv, PersistFailsIInv,
               AcknowledgeIInv, DropIInv, AbandonEndIInv DEF WriterStep
<1>7. CASE WorkerStep
  BY <1>7, DrainIInv, ReleasedIInv, RetireEndIInv DEF WorkerStep
<1>8. CASE \E m \in Markets : Retire(m)
  BY <1>8, RetireIInv
<1>9. CASE \E m \in Markets : Register(m)
  BY <1>9, RegisterIInv
<1>10. CASE \E m \in Markets : Invalidate(m)
  BY <1>10, InvalidateIInv
<1>11. CASE Pause \/ Resume \/ SourceReady
  <2>1. UNCHANGED <<replayVars, queueVars, woken, publisher, writer, disk, retireVars, failed>>
    BY <1>11 DEF Pause, Resume, SourceReady
  <2>2. QED BY <2>1, SourceIInv
<1>12. CASE Close
  BY <1>12, CloseIInv
<1>13. CASE UNCHANGED vars
  <2>1. UNCHANGED <<replayVars, queueVars, woken, publisher, writer, disk, retireVars, failed>>
    BY <1>13 DEF vars, replayVars, queueVars, retireVars
  <2>2. QED BY <2>1, SourceIInv
<1>14. QED BY <1>1, <1>2, <1>3, <1>4, <1>5, <1>6, <1>7, <1>8, <1>9, <1>10, <1>11, <1>12, <1>13
           DEF Next

LEMMA AlwaysIInv == Spec => []IInv
<1>1. QED BY InitIInv, NextIInv, PTL DEF Spec

-----------------------------------------------------------------------------
(* The theorems.                                                           *)

LEMMA IInvDurablePrefix == ASSUME IInv PROVE DurablePrefix
<1> SUFFICES ASSUME NEW m \in Markets
             PROVE /\ disk[m] = [i \in 1..Len(disk[m]) |-> i]
                   /\ m \notin retired => replay[m].durable <= Len(disk[m])
                   /\ writer.pc \notin {"abandon", "ended"} =>
                        \A i \in DOMAIN lane[m].pending : lane[m].pending[i].cursor = Stored(m) + i
  BY DEF DurablePrefix, Stored
<1>1. Archived(m) /\ disk[m] \in Seq(Nat)
  BY LaneTypes
<1>2. DOMAIN disk[m] = 1..Len(disk[m]) /\ disk[m] = [i \in DOMAIN disk[m] |-> disk[m][i]]
  BY <1>1, LenProperties
<1>3. \A i \in DOMAIN disk[m] : disk[m][i] = i
  BY <1>1 DEF Archived
<1>4. QED BY <1>1, <1>2, <1>3 DEF Archived

\* Whatever the physical writer, the publishers, the retirements and the pauses do, the
\* archive of a market's epoch is a prefix of its groups, the durable cursor
\* (acknowledge_durable) never runs ahead of it, and the queue of run_writer continues it.
THEOREM ArchiveIsAPrefix == Spec => []DurablePrefix
<1>1. IInv => DurablePrefix
  BY IInvDurablePrefix
<1>2. QED BY <1>1, AlwaysIInv, PTL

LEMMA IInvWindowIsTheSuffix == ASSUME IInv PROVE WindowIsTheSuffix
<1> SUFFICES ASSUME NEW m \in Markets, NEW after \in replay[m].floor..replay[m].published
             PROVE LET page == Page(m, after)
                   IN /\ Len(page) = replay[m].published - after
                      /\ \A i \in DOMAIN page : page[i].cursor = after + i
  BY DEF WindowIsTheSuffix
<1> DEFINE s == replay[m].groups
           floor == replay[m].floor
<1>1. Windowed(m) /\ replay[m] \in ReplayLane
  BY LaneTypes
<1>2. /\ s \in Seq(Group) /\ floor \in Nat /\ replay[m].published \in Nat /\ Len(s) \in Nat
      /\ DOMAIN s = 1..Len(s)
  <2>1. s \in Seq(Group) /\ floor \in Nat /\ replay[m].published \in Nat
    BY <1>1 DEF ReplayLane
  <2>2. QED BY <2>1, LenProperties
<1>3. floor + Len(s) = replay[m].published /\ \A i \in 1..Len(s) : s[i].cursor = floor + i
  BY <1>1, <1>2 DEF Windowed
<1>4. after \in Nat /\ floor <= after /\ after <= floor + Len(s)
  BY <1>2, <1>3
<1> HIDE DEF s, floor
<1>5. LET page == Kept(s, {g \in ToSet(s) : g.cursor > after})
      IN Len(page) = (floor + Len(s)) - after /\ \A i \in DOMAIN page : page[i].cursor = after + i
  BY <1>2, <1>3, <1>4, PageIsTheRest
<1>6. Page(m, after) = Kept(s, {g \in ToSet(s) : g.cursor > after})
  BY DEF Page, s
<1>7. QED BY <1>3, <1>5, <1>6

\* A reader that resumes from a cursor its market's window still covers gets exactly the
\* groups published after it, in order and without a gap: MarketReplay::replay never
\* answers "market replay gap", after any evictions, acknowledgements and pauses.
THEOREM ResumeHasNoGap == Spec => []WindowIsTheSuffix
<1>1. IInv => WindowIsTheSuffix
  BY IInvWindowIsTheSuffix
<1>2. QED BY <1>1, AlwaysIInv, PTL

LEMMA IInvNoStrandedWork == ASSUME IInv PROVE NoStrandedWork
<1>1. ASSUME NEW m \in Markets, lane[m].pending # <<>>, writer.pc # "abandon"
      PROVE m \in ToSet(turn)
  <2>1. PICK i \in DOMAIN turn : turn[i] = m
    BY <1>1, LaneTypes DEF Reserved
  <2>2. QED BY <2>1 DEF ToSet
<1>2. writer.pc = "sleep" /\ ~woken =>
          \A m \in Markets : Takes(m) => publisher[m].pc \in {"admitted", "visible"}
  BY DEF IInv, Scanned
<1>3. ASSUME writer.pc = "ended" PROVE aggregate = 0 /\ \A m \in Markets : lane[m].pending = <<>>
  <2>1. \A m \in Markets : lane[m].pending = <<>>
    BY <1>3 DEF IInv, Failing
  <2>2. ASSUME NEW m \in Markets PROVE lane[m].used = 0
    <3>1. Reserved(m) /\ ~Holds(m) /\ Len(lane[m].pending) = 0
      BY <1>3, <2>1, LaneTypes DEF Holds
    <3>2. ~lane[m].active
      BY <3>1 DEF Reserved
    <3>3. lane[m].used = Len(lane[m].pending) + 0
      BY <3>1, <3>2 DEF Reserved
    <3>4. QED BY <3>1, <3>3
  <2> DEFINE f == [m \in Markets |-> lane[m].used]
  <2>3. \A m \in Markets : f[m] = 0 /\ f[m] \in Int
    BY <2>2
  <2> HIDE DEF f
  <2>4. Total(f, Markets) = Total(f, {})
    <3> DEFINE none == {}
    <3>1. IsFiniteSet(Markets) /\ none \in SUBSET Markets /\ \A m \in Markets \ none : f[m] = 0
      BY <2>3, LimitTypes
    <3> HIDE DEF none
    <3>2. Total(f, Markets) = Total(f, none)
      BY <2>3, <3>1, TotalSupport
    <3>3. QED BY <3>2 DEF none
  <2>5. QED BY <2>1, <2>4, TotalEmpty DEF IInv, Aggregated, f
<1>4. QED BY <1>1, <1>2, <1>3 DEF NoStrandedWork

\* No wake-up is lost and no admitted group is forgotten: a lane with work keeps its turn
\* in the Registry, the writer sleeps in wait_pop only while nothing it could take is
\* there, and a writer that ended left nothing queued.
THEOREM NothingIsStranded == Spec => []NoStrandedWork
<1>1. IInv => NoStrandedWork
  BY IInvNoStrandedWork
<1>2. QED BY <1>1, AlwaysIInv, PTL

LEMMA StepRefusal ==
  ASSUME IInv, [Next]_vars, failed' = "error", failed = "no" PROVE writer.pc = "failing"
<1>1. Drop \/ AbandonEnd \/ Released
  BY DEF Next, WriterStep, WorkerStep, vars, Plan, Admit, Push, Commit, Ready, Look, Scan, Rest,
         Awake, Persist, PersistFails, Acknowledge, Abandon, Drain, RetireEnd, Retire, Register,
         Invalidate, Pause, Resume, SourceReady, Close
<1>2. CASE Drop
  BY <1>2 DEF Drop
<1>3. CASE AbandonEnd
  BY <1>3 DEF AbandonEnd, IInv, Failing
<1>4. CASE Released
  <2>1. PICK m \in Markets :
          /\ m = Head(retirements).market
          /\ Healthy => Head(retirements).gap \/ replay[m].published = replay[m].durable
    BY <1>4, Releasing DEF Released
  <2>2. ~(Head(retirements).gap \/ replay[m].published = replay[m].durable)
    BY <1>4, <2>1 DEF Released
  <2>3. QED BY <2>1, <2>2 DEF Healthy
<1>5. QED BY <1>1, <1>2, <1>3, <1>4

\* retire_with_durability_gap refuses a market only because the physical writer failed: a
\* market that drained while nothing failed has everything durable, or was declared
\* live-only when its retirement was accepted.
THEOREM RefusalMeansFailure == Spec => RefusedOnlyByFailure
<1>1. IInv /\ [Next]_vars => [failed' = "error" /\ failed = "no" => writer.pc = "failing"]_vars
  BY StepRefusal
<1>2. QED BY <1>1, AlwaysIInv, PTL DEF Spec, RefusedOnlyByFailure

-----------------------------------------------------------------------------
(***************************************************************************)
(* The budgets of the selected markets balance: the sums behind the        *)
(* counters of MarketReplay and MarketPersistence.                         *)
(***************************************************************************)

(* The inductive invariant.                                                *)

\* What a market weighs in total_bytes, and the markets that hold a slot.
Weight == [m \in Markets |-> Bytes(replay[m].groups) + publisher[m].growth]
Holders == {m \in Markets : replay[m].slot \/ publisher[m].slot}

\* A window keeps its partition and has a slot while it has groups; a publisher that holds
\* the lane reserved what this window and its planned evictions need.
Charged(m) ==
    /\ Bytes(replay[m].groups) <= ReplayBytes
    /\ replay[m].slot <=> replay[m].groups # <<>>
    /\ Locked(m) =>
          /\ publisher[m].growth = IF Charge > Evicted(m) THEN Charge - Evicted(m) ELSE 0
          /\ publisher[m].refund = IF Evicted(m) > Charge THEN Evicted(m) - Charge ELSE 0
          /\ publisher[m].slot <=> ~replay[m].slot
    /\ ~Locked(m) => publisher[m].growth = 0 /\ ~publisher[m].slot

Balanced ==
    /\ total = Total(Weight, Markets)
    /\ occupied = Cardinality(Holders) /\ occupied <= Slots
BInv == Balanced /\ \A m \in Markets : Charged(m)

-----------------------------------------------------------------------------
(* The sums of the code's counters are totals.                             *)

LEMMA UsedIsTotal ==
  ASSUME IInv
  PROVE MapThenSumSet(LAMBDA m : lane[m].used, Markets) = Total([m \in Markets |-> lane[m].used], Markets)
<1> DEFINE S == Markets
           f == [m \in Markets |-> lane[m].used]
           pick(s) == CHOOSE x \in s : TRUE
           Def(G) == [s \in SUBSET S |-> IF s = {} THEN 0 ELSE lane[pick(s)].used + G[s \ {pick(s)}]]
           F == CHOOSE G : G = Def(G)
<1>1. MapThenSumSet(LAMBDA m : lane[m].used, Markets) = F[S]
  BY DEF MapThenSumSet, MapThenFoldSet
<1>2. IsFiniteSet(S) /\ \A m \in S : f[m] = lane[m].used /\ f[m] \in Int
  BY LimitTypes DEF IInv, QueueTypes, QueueLane
<1>3. ASSUME NEW s \in SUBSET S, s # {} PROVE pick(s) \in s /\ pick(s) \in S
  BY <1>3
<1>4. PICK G : IsSum(G, f, S)
  BY <1>2, SumExists
<1>5. \A H : /\ Def(H)[{}] = 0
             /\ \A s \in SUBSET S : s # {} => Def(H)[s] = lane[pick(s)].used + H[s \ {pick(s)}]
  OBVIOUS
<1> HIDE DEF pick
<1>6. G = Def(G)
  <2>1. \A s \in SUBSET S : G[s] = Def(G)[s]
    <3> SUFFICES ASSUME NEW s \in SUBSET S PROVE G[s] = Def(G)[s]
      OBVIOUS
    <3>1. CASE s = {}
      BY <1>4, <1>5, <3>1 DEF IsSum
    <3>2. CASE s # {}
      <4>1. pick(s) \in s /\ pick(s) \in S
        BY <1>3, <3>2
      <4>2. G[s] = f[pick(s)] + G[s \ {pick(s)}]
        BY <1>4, <4>1 DEF IsSum
      <4>3. QED BY <1>2, <1>5, <3>2, <4>1, <4>2
    <3>3. QED BY <3>1, <3>2
  <2>2. G \in [SUBSET S -> Int]
    BY <1>4 DEF IsSum
  <2>3. QED BY <2>1, <2>2
<1>7. F = Def(F)
  BY <1>6
<1> HIDE DEF F
<1>8. F[{}] = 0 /\ \A s \in SUBSET S : s # {} => F[s] = lane[pick(s)].used + F[s \ {pick(s)}]
  BY <1>5, <1>7
<1> HIDE DEF Def, f
<1>9. AddsUp(F, f, S)
  <2>1. ASSUME NEW s \in SUBSET S, s # {}
        PROVE \E x \in s : AddsLast(F, f, s, x)
    <3>1. pick(s) \in s /\ pick(s) \in S
      BY <1>3, <2>1
    <3>2. F[s] = f[pick(s)] + F[s \ {pick(s)}]
      BY <1>2, <1>8, <2>1, <3>1
    <3>3. AddsLast(F, f, s, pick(s))
      BY <3>2 DEF AddsLast
    <3>4. QED BY <3>1, <3>3
  <2>2. QED BY <1>8, <2>1 DEF AddsUp
<1>10. \A s \in SUBSET S : F[s] = G[s]
  BY <1>2, <1>4, <1>9, SumUnique
<1>11. S \in SUBSET S /\ Total(f, S) = G[S]
  BY <1>2, <1>4, TotalIsSum
<1>12. QED BY <1>1, <1>10, <1>11 DEF f

LEMMA WeightType ==
  ASSUME IInv
  PROVE \A m \in Markets :
          /\ replay[m].groups \in Seq(Group) /\ Bytes(replay[m].groups) \in Nat
          /\ publisher[m].growth \in Nat /\ publisher[m].refund \in Nat
          /\ Weight[m] = Bytes(replay[m].groups) + publisher[m].growth
          /\ Weight[m] \in Nat /\ Weight[m] \in Int
<1> SUFFICES ASSUME NEW m \in Markets
             PROVE /\ replay[m].groups \in Seq(Group) /\ Bytes(replay[m].groups) \in Nat
                   /\ publisher[m].growth \in Nat /\ publisher[m].refund \in Nat
                   /\ Weight[m] = Bytes(replay[m].groups) + publisher[m].growth
                   /\ Weight[m] \in Nat /\ Weight[m] \in Int
  OBVIOUS
<1>1. /\ replay[m].groups \in Seq(Group) /\ publisher[m].growth \in Nat
      /\ publisher[m].refund \in Nat
  BY LaneTypes DEF ReplayLane, Call
<1>2. Bytes(replay[m].groups) \in Nat
  BY <1>1, BytesNat
<1>3. Weight[m] = Bytes(replay[m].groups) + publisher[m].growth
  BY DEF Weight
<1>4. QED BY <1>1, <1>2, <1>3

LEMMA WeightIsTotal ==
  ASSUME IInv
  PROVE MapThenSumSet(LAMBDA m : Bytes(replay[m].groups) + publisher[m].growth, Markets) = Total(Weight, Markets)
<1> DEFINE S == Markets
           f == Weight
           w(m) == Bytes(replay[m].groups) + publisher[m].growth
           pick(s) == CHOOSE x \in s : TRUE
           Def(G) == [s \in SUBSET S |-> IF s = {} THEN 0 ELSE w(pick(s)) + G[s \ {pick(s)}]]
           F == CHOOSE G : G = Def(G)
<1>1. MapThenSumSet(LAMBDA m : Bytes(replay[m].groups) + publisher[m].growth, Markets) = F[S]
  BY DEF MapThenSumSet, MapThenFoldSet
<1>2. IsFiniteSet(S) /\ \A m \in S : f[m] = w(m) /\ f[m] \in Int
  BY LimitTypes, WeightType
<1>3. ASSUME NEW s \in SUBSET S, s # {} PROVE pick(s) \in s /\ pick(s) \in S
  BY <1>3
<1>4. PICK G : IsSum(G, f, S)
  BY <1>2, SumExists
<1>5. \A H : /\ Def(H)[{}] = 0
             /\ \A s \in SUBSET S : s # {} => Def(H)[s] = w(pick(s)) + H[s \ {pick(s)}]
  OBVIOUS
<1> HIDE DEF pick, w
<1>6. G = Def(G)
  <2>1. \A s \in SUBSET S : G[s] = Def(G)[s]
    <3> SUFFICES ASSUME NEW s \in SUBSET S PROVE G[s] = Def(G)[s]
      OBVIOUS
    <3>1. CASE s = {}
      BY <1>4, <1>5, <3>1 DEF IsSum
    <3>2. CASE s # {}
      <4>1. pick(s) \in s /\ pick(s) \in S
        BY <1>3, <3>2
      <4>2. G[s] = f[pick(s)] + G[s \ {pick(s)}]
        BY <1>4, <4>1 DEF IsSum
      <4>3. QED BY <1>2, <1>5, <3>2, <4>1, <4>2
    <3>3. QED BY <3>1, <3>2
  <2>2. G \in [SUBSET S -> Int]
    BY <1>4 DEF IsSum
  <2>3. QED BY <2>1, <2>2
<1>7. F = Def(F)
  BY <1>6
<1> HIDE DEF F
<1>8. F[{}] = 0 /\ \A s \in SUBSET S : s # {} => F[s] = w(pick(s)) + F[s \ {pick(s)}]
  BY <1>5, <1>7
<1> HIDE DEF Def, f
<1>9. AddsUp(F, f, S)
  <2>1. ASSUME NEW s \in SUBSET S, s # {}
        PROVE \E x \in s : AddsLast(F, f, s, x)
    <3>1. pick(s) \in s /\ pick(s) \in S
      BY <1>3, <2>1
    <3>2. F[s] = f[pick(s)] + F[s \ {pick(s)}]
      BY <1>2, <1>8, <2>1, <3>1
    <3>3. AddsLast(F, f, s, pick(s))
      BY <3>2 DEF AddsLast
    <3>4. QED BY <3>1, <3>3
  <2>2. QED BY <1>8, <2>1 DEF AddsUp
<1>10. \A s \in SUBSET S : F[s] = G[s]
  BY <1>2, <1>4, <1>9, SumUnique
<1>11. S \in SUBSET S /\ Total(f, S) = G[S]
  BY <1>2, <1>4, TotalIsSum
<1>12. QED BY <1>1, <1>10, <1>11 DEF f

-----------------------------------------------------------------------------
(* The invariant implies the property.                                     *)

\* A market weighs no more than its partition, and nothing without a slot.
LEMMA WeightBound ==
  ASSUME IInv, NEW m \in Markets, Charged(m)
  PROVE /\ Weight[m] <= ReplayBytes
        /\ m \notin Holders => Weight[m] = 0
        /\ Evicted(m) \in Nat /\ Bytes(replay[m].groups) + Charge <= ReplayBytes + Evicted(m)
<1> DEFINE g == replay[m].groups
           n == Evictions(g)
           kept == SubSeq(g, n + 1, Len(g))
<1>1. /\ g \in Seq(Group) /\ Bytes(g) \in Nat /\ publisher[m].growth \in Nat
      /\ Weight[m] = Bytes(g) + publisher[m].growth
  BY WeightType
<1>2. n \in 0..Len(g) /\ Fits(g, n) /\ Evicted(m) \in Nat
  BY LaneTypes
<1>3. kept \in Seq(Group) /\ Bytes(g) = Evicted(m) + Bytes(kept)
  <2>1. Evicted(m) = Bytes(SubSeq(g, 1, n))
    BY DEF Evicted
  <2> HIDE DEF g, n
  <2>2. QED BY <1>1, <1>2, <2>1, BytesSplit
<1>4. Bytes(kept) \in Nat /\ Bytes(kept) + Charge <= ReplayBytes
  BY <1>2, <1>3, BytesNat DEF Fits
<1> HIDE DEF g, n, kept
<1>5. /\ Bytes(g) <= ReplayBytes /\ (replay[m].slot <=> g # <<>>)
      /\ Locked(m) =>
          /\ publisher[m].growth = IF Charge > Evicted(m) THEN Charge - Evicted(m) ELSE 0
          /\ publisher[m].slot <=> ~replay[m].slot
      /\ ~Locked(m) => publisher[m].growth = 0 /\ ~publisher[m].slot
  BY DEF Charged, g
<1>6. Charge \in Nat /\ ReplayBytes \in Nat
  BY LimitTypes
<1>7. Weight[m] <= ReplayBytes
  <2>1. CASE ~Locked(m)
    BY <1>1, <1>5, <1>6, <2>1
  <2>2. CASE Locked(m) /\ Charge > Evicted(m)
    <3>1. publisher[m].growth = Charge - Evicted(m)
      BY <1>5, <2>2
    <3>2. QED BY <1>1, <1>2, <1>3, <1>4, <1>6, <3>1
  <2>3. CASE Locked(m) /\ ~(Charge > Evicted(m))
    <3>1. publisher[m].growth = 0
      BY <1>5, <2>3
    <3>2. QED BY <1>1, <1>5, <1>6, <3>1
  <2>4. QED BY <2>1, <2>2, <2>3
<1>8. m \notin Holders => Weight[m] = 0
  <2> SUFFICES ASSUME m \notin Holders PROVE Weight[m] = 0
    OBVIOUS
  <2>1. ~replay[m].slot /\ ~publisher[m].slot
    BY DEF Holders
  <2>2. ~Locked(m) /\ g = <<>>
    BY <1>5, <2>1
  <2>3. publisher[m].growth = 0 /\ Bytes(g) = 0
    BY <1>5, <2>2, BytesEmpty
  <2>4. QED BY <1>1, <2>3
<1>9. Bytes(g) + Charge <= ReplayBytes + Evicted(m)
  BY <1>1, <1>2, <1>3, <1>4, <1>6
<1>10. QED BY <1>2, <1>7, <1>8, <1>9 DEF g

LEMMA HoldersFinite ==
  /\ Holders \in SUBSET Markets /\ IsFiniteSet(Holders) /\ Cardinality(Holders) \in Nat
  /\ \A m \in Markets : IsFiniteSet(Holders \ {m}) /\ Cardinality(Holders \ {m}) \in Nat
<1>1. Holders \in SUBSET Markets /\ IsFiniteSet(Markets)
  BY LimitTypes DEF Holders
<1>2. IsFiniteSet(Holders) /\ \A m \in Markets : IsFiniteSet(Holders \ {m})
  BY <1>1, FS_Subset
<1>3. QED BY <1>1, <1>2, FS_CardinalityType

\* A product grows with its second factor.
LEMMA Times ==
  ASSUME NEW a \in Nat, NEW b \in Nat, NEW c \in Nat, b <= c PROVE a * b <= a * c
<1> DEFINE D == {d \in Nat : a * b <= a * (b + d)}
<1>1. 0 \in D
  OBVIOUS
<1>2. ASSUME NEW d \in Nat, d \in D PROVE d + 1 \in D
  <2>1. a * (b + (d + 1)) = a * (b + d) + a
    OBVIOUS
  <2>2. a * b \in Nat /\ a * (b + d) \in Nat
    OBVIOUS
  <2>3. QED BY <1>2, <2>1, <2>2
<1> HIDE DEF D
<1>3. D \in SUBSET Nat
  BY DEF D
<1>4. Nat \subseteq D
  BY <1>1, <1>2, <1>3, NatSetInduction
<1>5. c - b \in Nat /\ b + (c - b) = c
  OBVIOUS
<1>6. QED BY <1>4, <1>5 DEF D

LEMMA BInvBalances == ASSUME IInv, BInv PROVE BudgetsBalance
<1>1. \A m \in Markets : lane[m].used = Len(lane[m].pending) + IF lane[m].active THEN 1 ELSE 0
  BY LaneTypes DEF Reserved
<1>2. aggregate = MapThenSumSet(LAMBDA m : lane[m].used, Markets)
  BY UsedIsTotal DEF IInv, Aggregated
<1>3. total = MapThenSumSet(LAMBDA m : Bytes(replay[m].groups) + publisher[m].growth, Markets)
  BY WeightIsTotal DEF BInv, Balanced
<1>4. /\ total = Total(Weight, Markets) /\ occupied = Cardinality(Holders) /\ occupied <= Slots
      /\ \A m \in Markets : Charged(m)
  BY DEF BInv, Balanced
<1>5. /\ Holders \in SUBSET Markets /\ IsFiniteSet(Holders) /\ IsFiniteSet(Markets) /\ occupied \in Nat
      /\ \A m \in Markets : IsFiniteSet(Holders \ {m}) /\ Cardinality(Holders \ {m}) \in Nat
  BY <1>4, LimitTypes, HoldersFinite
<1>6. /\ \A m \in Markets : Weight[m] \in Int /\ Weight[m] <= ReplayBytes
      /\ \A m \in Markets \ Holders : Weight[m] = 0
  BY <1>4, WeightBound, WeightType
<1>7. total = Total(Weight, Holders) /\ total \in Int
  <2>1. total = Total(Weight, Holders)
    BY <1>4, <1>5, <1>6, TotalSupport
  <2>2. QED BY <1>4, <1>5, <1>6, <2>1, TotalType
<1>8. ReplayBytes \in Nat /\ ReplayBytes \in Int /\ Slots \in Nat /\ Charge \in Nat /\ Charge <= ReplayBytes
  BY LimitTypes
<1>9. total <= ReplayBytes * occupied
  <2>1. \A m \in Holders : Weight[m] \in Int /\ Weight[m] <= ReplayBytes
    BY <1>5, <1>6
  <2>2. Total(Weight, Holders) <= ReplayBytes * Cardinality(Holders)
    BY <1>5, <1>8, <2>1, TotalBound
  <2>3. QED BY <1>4, <1>7, <2>2
<1>10. ReplayBytes * occupied <= TotalBytes /\ ReplayBytes * occupied \in Nat /\ TotalBytes \in Nat
  BY <1>4, <1>5, <1>8, Times DEF TotalBytes
<1>11. total <= TotalBytes
  BY <1>7, <1>9, <1>10
<1>12. ASSUME NEW m \in Markets, publisher[m].pc = "idle", replay[m].slot \/ occupied < Slots
       PROVE total + Charge <= TotalBytes + Evicted(m)
  <2>1. /\ Evicted(m) \in Nat /\ Bytes(replay[m].groups) + Charge <= ReplayBytes + Evicted(m)
        /\ Weight[m] = Bytes(replay[m].groups) + publisher[m].growth
        /\ Bytes(replay[m].groups) \in Nat
    BY <1>4, WeightBound, WeightType
  <2>2. ~Locked(m) /\ publisher[m].growth = 0 /\ Weight[m] = Bytes(replay[m].groups)
    BY <1>4, <1>12, <2>1 DEF Locked, Charged
  <2>3. CASE replay[m].slot
    <3>1. m \in Holders
      BY <2>3 DEF Holders
    <3>2. \A k \in Holders : Weight[k] \in Int
      BY <1>5, <1>6
    <3>3. Total(Weight, Holders) = Weight[m] + Total(Weight, Holders \ {m})
      BY <1>5, <3>1, <3>2, TotalRemove
    <3> DEFINE rest == Holders \ {m}
    <3>4. IsFiniteSet(rest) /\ \A k \in rest : Weight[k] \in Int /\ Weight[k] <= ReplayBytes
      BY <1>5, <1>6
    <3> HIDE DEF rest
    <3>5. Total(Weight, rest) <= ReplayBytes * Cardinality(rest) /\ Total(Weight, rest) \in Int
      BY <1>8, <3>4, TotalBound, TotalType
    <3>6. Cardinality(rest) = occupied - 1 /\ occupied - 1 \in Nat
      <4>1. Cardinality(Holders \ {m}) = Cardinality(Holders) - 1
        BY <1>5, <3>1, FS_RemoveElement
      <4>2. Cardinality(rest) \in Nat
        BY <1>5 DEF rest
      <4>3. QED BY <1>4, <4>1, <4>2 DEF rest
    <3>7. ReplayBytes * (occupied - 1) + ReplayBytes = ReplayBytes * occupied
      BY <1>5, <1>8
    <3>8. ReplayBytes * (occupied - 1) \in Int
      BY <1>5, <1>8
    <3>9. total <= Weight[m] + ReplayBytes * (occupied - 1)
      BY <1>7, <2>1, <2>2, <3>3, <3>5, <3>6, <3>8 DEF rest
    <3>10. QED BY <1>7, <1>8, <1>10, <2>1, <2>2, <3>7, <3>8, <3>9
  <2>4. CASE occupied < Slots
    <3>1. ReplayBytes * (occupied + 1) <= TotalBytes
      <4>1. occupied + 1 \in Nat /\ occupied + 1 <= Slots
        BY <1>5, <1>8, <2>4
      <4>2. QED BY <1>8, <4>1, Times DEF TotalBytes
    <3>2. ReplayBytes * (occupied + 1) = ReplayBytes * occupied + ReplayBytes
      BY <1>5, <1>8
    <3>3. QED BY <1>7, <1>8, <1>9, <1>10, <2>1, <3>1, <3>2
  <2>5. QED BY <1>12, <2>3, <2>4
<1>13. QED BY <1>1, <1>2, <1>3, <1>4, <1>11, <1>12 DEF BudgetsBalance, Holders

-----------------------------------------------------------------------------
(* Steps that leave the budgets of the windows alone.                      *)

LEMMA InitBInv == Init => BInv
<1> SUFFICES ASSUME Init PROVE BInv
  OBVIOUS
<1>1. /\ \A m \in Markets : replay[m] = NewReplay /\ publisher[m] = Idle
      /\ total = 0 /\ occupied = 0
  BY DEF Init
<1>2. \A m \in Markets : /\ replay[m].groups = <<>> /\ replay[m].slot = FALSE
                         /\ publisher[m].growth = 0 /\ publisher[m].slot = FALSE
                         /\ publisher[m].pc = "idle"
  BY <1>1 DEF NewReplay, Idle
<1>3. \A m \in Markets : Charged(m)
  BY <1>2, BytesEmpty, LimitTypes DEF Charged, Locked
<1>4. Holders = {} /\ Cardinality(Holders) = 0
  <2>1. Holders = {}
    BY <1>2 DEF Holders
  <2>2. QED BY <2>1, FS_EmptySet
<1>5. Total(Weight, Markets) = 0
  <2>1. \A m \in Markets : Weight[m] = 0
    BY <1>2, BytesEmpty DEF Weight
  <2> DEFINE none == {}
  <2>2. none \in SUBSET Markets /\ \A m \in Markets \ none : Weight[m] = 0
    BY <2>1
  <2>3. IsFiniteSet(Markets) /\ \A m \in Markets : Weight[m] \in Int
    BY <2>1, LimitTypes
  <2> HIDE DEF none
  <2>4. Total(Weight, Markets) = Total(Weight, none)
    BY <2>2, <2>3, TotalSupport
  <2>5. QED BY <2>4, TotalEmpty DEF none
<1>6. QED BY <1>1, <1>3, <1>4, <1>5, LimitTypes DEF BInv, Balanced

LEMMA SameBudgets ==
  ASSUME BInv, UNCHANGED <<replay, total, occupied>>,
         \A m \in Markets :
            /\ publisher'[m].growth = publisher[m].growth /\ publisher'[m].slot = publisher[m].slot
            /\ Locked(m)' <=> Locked(m)
            /\ Locked(m) => publisher'[m].refund = publisher[m].refund
  PROVE BInv'
<1>1. ASSUME NEW m \in Markets PROVE Charged(m)'
  <2>1. Charged(m) /\ Evicted(m)' = Evicted(m)
    BY DEF BInv, Evicted
  <2>2. QED BY <2>1 DEF Charged
<1>2. Weight' = Weight /\ Holders' = Holders
  BY DEF Weight, Holders
<1>3. Balanced'
  BY <1>2 DEF BInv, Balanced
<1>4. QED BY <1>1, <1>3 DEF BInv

-----------------------------------------------------------------------------
(* Steps on the window of one market.                                      *)

LEMMA Reweighed ==
  ASSUME IInv, IInv', BInv, NEW m \in Markets,
         \A k \in Markets \ {m} : replay'[k] = replay[k] /\ publisher'[k] = publisher[k]
  PROVE Total(Weight, Markets)' = (total - Weight[m]) + Weight[m]'
<1> DEFINE f == Weight
           g == Weight'
<1>1. \A k \in Markets : f[k] \in Int /\ g[k] \in Int
  <2>1. \A k \in Markets : f[k] \in Int
    BY WeightType
  <2>2. ASSUME NEW k \in Markets PROVE g[k] \in Int
    <3>1. replay'[k].groups \in Seq(Group) /\ publisher'[k].growth \in Nat
      BY DEF IInv, PublishTypes, ReplayLane, Call
    <3>2. Bytes(replay'[k].groups) \in Nat
      BY <3>1, BytesNat
    <3>3. g[k] = Bytes(replay'[k].groups) + publisher'[k].growth
      BY DEF Weight
    <3>4. QED BY <3>1, <3>2, <3>3
  <2>3. QED BY <2>1, <2>2
<1>2. \A k \in Markets \ {m} : f[k] = g[k]
  BY DEF Weight
<1>3. total = Total(f, Markets)
  BY DEF BInv, Balanced
<1> HIDE DEF f, g
<1>4. Total(g, Markets) = (Total(f, Markets) - f[m]) + g[m]
  BY <1>1, <1>2, LimitTypes, TotalUpdate
<1>5. QED BY <1>3, <1>4 DEF f, g

LEMMA Recounted ==
  ASSUME BInv, NEW m \in Markets,
         \A k \in Markets \ {m} : replay'[k] = replay[k] /\ publisher'[k] = publisher[k]
  PROVE /\ occupied \in Nat
        /\ (m \in Holders <=> m \in Holders') => Cardinality(Holders)' = occupied
        /\ m \notin Holders /\ m \in Holders' => Cardinality(Holders)' = occupied + 1
        /\ m \in Holders /\ m \notin Holders' => Cardinality(Holders)' = occupied - 1
<1>1. Holders' \ {m} = Holders \ {m} /\ Holders' \in SUBSET Markets
  BY DEF Holders
<1>2. /\ occupied = Cardinality(Holders) /\ occupied \in Nat /\ IsFiniteSet(Holders)
      /\ IsFiniteSet(Holders \ {m})
  BY HoldersFinite DEF BInv, Balanced
<1>3. (m \in Holders <=> m \in Holders') => Holders' = Holders
  BY <1>1
<1>4. m \notin Holders /\ m \in Holders' => Holders' = Holders \cup {m}
  BY <1>1
<1>5. m \in Holders /\ m \notin Holders' => Holders' = Holders \ {m}
  BY <1>1
<1>6. m \notin Holders => Cardinality(Holders \cup {m}) = Cardinality(Holders) + 1
  BY <1>2, FS_AddElement
<1>7. m \in Holders => Cardinality(Holders \ {m}) = Cardinality(Holders) - 1
  BY <1>2, FS_RemoveElement
<1>8. QED BY <1>2, <1>3, <1>4, <1>5, <1>6, <1>7

LEMMA OneMarket ==
  ASSUME IInv, IInv', BInv, NEW m \in Markets,
         \A k \in Markets \ {m} : replay'[k] = replay[k] /\ publisher'[k] = publisher[k],
         Charged(m)', total' = (total - Weight[m]) + Weight[m]',
         occupied' = Cardinality(Holders)', occupied' <= Slots
  PROVE BInv'
<1>1. ASSUME NEW k \in Markets \ {m} PROVE Charged(k)'
  <2>1. Charged(k) /\ Evicted(k)' = Evicted(k) /\ (Locked(k)' <=> Locked(k))
    BY DEF BInv, Evicted, Locked
  <2>2. QED BY <2>1 DEF Charged
<1>2. total' = Total(Weight, Markets)'
  BY Reweighed
<1>3. Balanced'
  BY <1>2 DEF Balanced
<1>4. QED BY <1>1, <1>3 DEF BInv

LEMMA PlanBInv == ASSUME IInv, IInv', BInv, NEW m \in Markets, Plan(m) PROVE BInv'
<1> DEFINE growth == IF Charge > Evicted(m) THEN Charge - Evicted(m) ELSE 0
           refund == IF Evicted(m) > Charge THEN Evicted(m) - Charge ELSE 0
           new == [publisher[m] EXCEPT !.pc = "planned", !.evict = Evictions(replay[m].groups),
                       !.growth = growth, !.refund = refund, !.slot = ~replay[m].slot]
<1>0. /\ replay' = replay /\ publisher[m].pc = "idle" /\ (replay[m].slot \/ occupied < Slots)
      /\ publisher' = [publisher EXCEPT ![m] = new] /\ total' = total + growth
      /\ occupied' = IF replay[m].slot THEN occupied ELSE occupied + 1
  BY DEF Plan
<1>1. /\ new.pc = "planned" /\ new.growth = growth /\ new.refund = refund
      /\ new.slot = ~replay[m].slot
  BY LaneTypes DEF Call
<1>2. growth \in Nat
  BY LaneTypes, LimitTypes
<1>3. publisher \in [Markets -> Call] /\ replay[m].slot \in BOOLEAN
  BY LaneTypes DEF IInv, PublishTypes, ReplayLane
<1> HIDE DEF new
<1>4. /\ \A k \in Markets \ {m} : replay'[k] = replay[k] /\ publisher'[k] = publisher[k]
      /\ publisher'[m] = new
  BY <1>0, <1>3
<1>5. Charged(m) /\ publisher[m].growth = 0 /\ ~publisher[m].slot
  BY <1>0 DEF BInv, Charged, Locked
<1>6. Charged(m)'
  <2>1. Evicted(m)' = Evicted(m) /\ Locked(m)'
    BY <1>0, <1>1, <1>4 DEF Evicted, Locked
  <2>2. QED BY <1>0, <1>1, <1>4, <1>5, <2>1 DEF Charged
<1> HIDE DEF growth, refund
<1>7. Weight[m]' = Weight[m] + growth
  <2>1. /\ Weight[m] = Bytes(replay[m].groups) + publisher[m].growth
        /\ Weight[m]' = Bytes(replay[m].groups) + growth
        /\ Bytes(replay[m].groups) \in Nat
    BY <1>0, <1>1, <1>4, WeightType DEF Weight
  <2>2. QED BY <1>2, <1>5, <2>1
<1>8. total \in Int /\ Weight[m] \in Int
  <2>1. IsFiniteSet(Markets) /\ \A k \in Markets : Weight[k] \in Int
    BY WeightType, LimitTypes
  <2>2. QED BY <2>1, TotalType DEF BInv, Balanced
<1>9. total' = (total - Weight[m]) + Weight[m]'
  BY <1>0, <1>2, <1>7, <1>8
<1>10. m \in Holders' /\ (m \in Holders <=> replay[m].slot)
  BY <1>0, <1>1, <1>4, <1>5 DEF Holders
<1>11. occupied' = Cardinality(Holders)' /\ occupied \in Nat
  <2>1. CASE replay[m].slot
    BY <1>0, <1>4, <1>10, <2>1, Recounted
  <2>2. CASE ~replay[m].slot
    BY <1>0, <1>4, <1>10, <2>2, Recounted
  <2>3. QED BY <2>1, <2>2
<1>12. occupied' <= Slots
  BY <1>0, <1>11, LimitTypes DEF BInv, Balanced
<1>13. QED BY <1>4, <1>6, <1>9, <1>11, <1>12, OneMarket

LEMMA TotalIsInt == ASSUME IInv, BInv PROVE total \in Int
<1>1. IsFiniteSet(Markets) /\ \A k \in Markets : Weight[k] \in Int
  BY WeightType, LimitTypes
<1>2. QED BY <1>1, TotalType DEF BInv, Balanced

LEMMA CommitBInv == ASSUME IInv, IInv', BInv, NEW m \in Markets, Commit(m) PROVE BInv'
<1> DEFINE r == replay[m]
           n == publisher[m].evict
           group == [cursor |-> r.published + 1, charge |-> Charge]
           rest == SubSeq(r.groups, n + 1, Len(r.groups))
           new == [publisher[m] EXCEPT !.pc = "visible", !.evict = 0, !.growth = 0, !.refund = 0,
                                       !.slot = FALSE]
<1>0. /\ publisher[m].pc = "admitted" /\ occupied' = occupied /\ total' = total - publisher[m].refund
      /\ replay' = [replay EXCEPT ![m] = Committed(r, n)]
      /\ publisher' = [publisher EXCEPT ![m] = new]
  BY DEF Commit
<1>1. new.pc = "visible" /\ new.growth = 0 /\ new.slot = FALSE
  BY LaneTypes DEF Call
<1>2. publisher \in [Markets -> Call] /\ replay \in [Markets -> ReplayLane]
  BY DEF IInv, PublishTypes
<1>3. /\ r \in ReplayLane /\ r.groups \in Seq(Group) /\ n = Evictions(r.groups)
      /\ n \in 0..Len(r.groups) /\ Fits(r.groups, n) /\ Evicted(m) \in Nat
  BY <1>0, LaneTypes DEF ReplayLane, Windowed, Locked
<1>4. Committed(r, n).groups = Append(rest, group) /\ Committed(r, n).slot
  BY <1>3 DEF Committed, ReplayLane
<1>5. group \in Group /\ group.charge = Charge
  BY <1>3, LimitTypes DEF Group, ReplayLane
<1>6. /\ rest \in Seq(Group) /\ Bytes(r.groups) = Evicted(m) + Bytes(rest)
      /\ Bytes(rest) + Charge <= ReplayBytes
  <2>1. Evicted(m) = Bytes(SubSeq(r.groups, 1, n))
    BY <1>3 DEF Evicted
  <2>2. Bytes(rest) + Charge <= ReplayBytes
    BY <1>3 DEF Fits
  <2> HIDE DEF r, n
  <2>3. QED BY <1>3, <2>1, <2>2, BytesSplit
<1> HIDE DEF new, group, rest
<1>7. /\ \A k \in Markets \ {m} : replay'[k] = replay[k] /\ publisher'[k] = publisher[k]
      /\ publisher'[m] = new /\ replay'[m].groups = Append(rest, group) /\ replay'[m].slot
  BY <1>0, <1>2, <1>4
<1>8. /\ Bytes(Append(rest, group)) = Bytes(rest) + Charge /\ Append(rest, group) # <<>>
      /\ Bytes(rest) \in Nat
  BY <1>5, <1>6, BytesAppend, BytesNat, AppendProperties
<1>9. Charged(m)'
  <2>1. ~Locked(m)'
    BY <1>1, <1>7 DEF Locked
  <2>2. QED BY <1>1, <1>6, <1>7, <1>8, <2>1 DEF Charged
<1>10. /\ publisher[m].growth = IF Charge > Evicted(m) THEN Charge - Evicted(m) ELSE 0
       /\ publisher[m].refund = IF Evicted(m) > Charge THEN Evicted(m) - Charge ELSE 0
       /\ publisher[m].slot <=> ~replay[m].slot
  BY <1>0 DEF BInv, Charged, Locked
<1>11. total' = (total - Weight[m]) + Weight[m]'
  <2>1. Weight[m] = (Evicted(m) + Bytes(rest)) + publisher[m].growth /\ Weight[m]' = (Bytes(rest) + Charge) + 0
    BY <1>1, <1>6, <1>7, <1>8, WeightType DEF Weight
  <2>2. total \in Int /\ Charge \in Nat
    BY TotalIsInt, LimitTypes
  <2>3. CASE Charge > Evicted(m)
    <3>1. publisher[m].growth = Charge - Evicted(m) /\ publisher[m].refund = 0
      BY <1>3, <1>10, <2>2, <2>3
    <3>2. QED BY <1>0, <1>3, <1>8, <2>1, <2>2, <3>1
  <2>4. CASE Evicted(m) > Charge
    <3>1. publisher[m].growth = 0 /\ publisher[m].refund = Evicted(m) - Charge
      BY <1>3, <1>10, <2>2, <2>4
    <3>2. QED BY <1>0, <1>3, <1>8, <2>1, <2>2, <3>1
  <2>5. CASE Evicted(m) = Charge
    <3>1. publisher[m].growth = 0 /\ publisher[m].refund = 0
      BY <1>3, <1>10, <2>2, <2>5
    <3>2. QED BY <1>0, <1>3, <1>8, <2>1, <2>2, <2>5, <3>1
  <2>6. QED BY <1>3, <2>2, <2>3, <2>4, <2>5
<1>12. m \in Holders /\ m \in Holders'
  BY <1>7, <1>10 DEF Holders
<1>13. occupied' = Cardinality(Holders)'
  BY <1>0, <1>7, <1>12, Recounted
<1>14. occupied' <= Slots
  BY <1>0 DEF BInv, Balanced
<1>15. QED BY <1>7, <1>9, <1>11, <1>13, <1>14, OneMarket

\* An emptied window gives back its bytes and its slot.
LEMMA EmptiedBInv ==
  ASSUME IInv, IInv', BInv, NEW m \in Markets, ~Locked(m),
         publisher' = publisher, \A k \in Markets \ {m} : replay'[k] = replay[k],
         replay'[m].groups = <<>>, ~replay'[m].slot,
         total' = total - Bytes(replay[m].groups),
         occupied' = IF replay[m].slot THEN occupied - 1 ELSE occupied
  PROVE BInv'
<1>1. Charged(m) /\ publisher[m].growth = 0 /\ ~publisher[m].slot /\ ~Locked(m)'
  BY DEF BInv, Charged, Locked
<1>2. Charged(m)'
  BY <1>1, BytesEmpty, LimitTypes DEF Charged
<1>3. total' = (total - Weight[m]) + Weight[m]'
  <2>1. Weight[m] = Bytes(replay[m].groups) + 0 /\ Bytes(replay[m].groups) \in Nat /\ Weight[m]' = 0 + 0
    BY <1>1, WeightType, BytesEmpty DEF Weight
  <2>2. QED BY <2>1, TotalIsInt
<1>4. m \notin Holders' /\ (m \in Holders <=> replay[m].slot)
  BY <1>1 DEF Holders
<1>5. occupied' = Cardinality(Holders)' /\ occupied \in Nat /\ occupied' <= occupied
  <2>1. CASE replay[m].slot
    <3>1. occupied' = occupied - 1 /\ m \in Holders /\ m \notin Holders'
      BY <1>4, <2>1
    <3>2. Cardinality(Holders)' = occupied - 1 /\ occupied \in Nat
      BY <3>1, Recounted
    <3>3. QED BY <3>1, <3>2
  <2>2. CASE ~replay[m].slot
    <3>1. occupied' = occupied /\ m \notin Holders /\ m \notin Holders'
      BY <1>4, <2>2
    <3>2. Cardinality(Holders)' = occupied /\ occupied \in Nat
      BY <3>1, Recounted
    <3>3. QED BY <3>1, <3>2
  <2>3. QED BY <2>1, <2>2
<1>6. occupied' <= Slots
  <2>1. occupied <= Slots /\ Slots \in Nat
    BY LimitTypes DEF BInv, Balanced
  <2>2. occupied' \in Int
    BY <1>5
  <2>3. QED BY <1>5, <2>1, <2>2
<1>7. QED BY <1>2, <1>3, <1>5, <1>6, OneMarket

\* A group that became durable weighs Release less.
LEMMA BytesDiscounted ==
  ASSUME NEW groups \in Seq(Group), NEW held \in SUBSET DOMAIN groups,
         \A i, j \in held : i = j, \A i \in held : groups[i].charge >= Release
  PROVE Bytes(Discounted(groups, held)) = Bytes(groups) - Release * Cardinality(held)
<1> DEFINE less == Discounted(groups, held)
           D == DOMAIN groups
           f == Charges(groups)
           g == Charges(less)
<1>1. /\ less \in Seq(Group) /\ DOMAIN less = D
      /\ \A i \in D : less[i].charge = IF i \in held THEN groups[i].charge - Release ELSE groups[i].charge
  <2>1. \A i \in DOMAIN groups : i \in held => groups[i].charge >= Release
    OBVIOUS
  <2>2. QED BY <2>1, DiscountedKeeps
<1> HIDE DEF less
<1>2. /\ IsFiniteSet(D) /\ \A i \in D : /\ f[i] = groups[i].charge /\ f[i] \in Nat
                                        /\ g[i] = less[i].charge /\ g[i] \in Nat
  BY <1>1, ChargesType
<1>3. Bytes(groups) = Total(f, D) /\ Bytes(less) = Total(g, D) /\ Bytes(groups) \in Nat
  BY <1>1, BytesIsTotal, BytesNat
<1> HIDE DEF D, f, g
<1>4. CASE held = {}
  <2>1. \A i \in D : f[i] \in Int /\ f[i] = g[i]
    BY <1>1, <1>2, <1>4
  <2>2. Total(f, D) = Total(g, D)
    BY <1>2, <2>1, TotalSame
  <2>3. Cardinality(held) = 0
    BY <1>4, FS_EmptySet
  <2>4. QED BY <1>3, <2>2, <2>3, LimitTypes DEF less
<1>5. CASE held # {}
  <2>1. PICK j \in D : held = {j}
    BY <1>5 DEF D
  <2>2. Cardinality(held) = 1
    BY <2>1, FS_Singleton
  <2>3. (\A i \in D : f[i] \in Int /\ g[i] \in Int) /\ (\A i \in D \ {j} : f[i] = g[i])
    BY <1>1, <1>2, <2>1
  <2>4. Total(g, D) = (Total(f, D) - f[j]) + g[j]
    BY <1>2, <2>3, TotalUpdate
  <2>5. g[j] = f[j] - Release /\ f[j] \in Nat
    BY <1>1, <1>2, <2>1
  <2>6. QED BY <1>3, <2>2, <2>4, <2>5, LimitTypes DEF less
<1>6. QED BY <1>4, <1>5

LEMMA AcknowledgeBInv == ASSUME IInv, IInv', BInv, Acknowledge PROVE BInv'
<1>0. writer.pc = "acknowledge" /\ UNCHANGED <<occupied, publisher>>
  BY DEF Acknowledge
<1>1. PICK m \in Markets : m = writer.market
  BY <1>0, Holding
<1> DEFINE groups == replay[m].groups
           held == {i \in DOMAIN groups : groups[i].cursor = writer.cursor}
           less == Discounted(groups, held)
<1>2. /\ ~Locked(m) /\ writer.cursor = replay[m].durable + 1
      /\ replay' = [replay EXCEPT ![m].durable = writer.cursor, ![m].groups = Discounted(@, held)]
      /\ total' = total - Release * Cardinality(held)
  BY <1>1 DEF Acknowledge
<1>3. /\ replay[m] \in ReplayLane /\ groups \in Seq(Group) /\ replay[m].durable \in Nat
      /\ Windowed(m) /\ replay[m].floor \in Nat /\ DOMAIN groups = 1..Len(groups) /\ Len(groups) \in Nat
  BY LaneTypes, LenProperties DEF ReplayLane
<1>4. /\ held \in SUBSET DOMAIN groups /\ \A i, j \in held : i = j
      /\ \A i \in held : groups[i].charge >= Release
  <2>1. \A i \in held : i \in DOMAIN groups /\ groups[i].cursor = writer.cursor
    OBVIOUS
  <2>2. \A i \in DOMAIN groups : groups[i].cursor = replay[m].floor + i /\ i \in Nat
    BY <1>3 DEF Windowed
  <2>3. ASSUME NEW i \in held PROVE groups[i].charge >= Release
    <3>1. groups[i].cursor = replay[m].durable + 1
      BY <1>2, <2>1
    <3>2. groups[i].charge = Charge
      BY <1>3, <2>1, <3>1 DEF Windowed
    <3>3. QED BY <3>2, LimitTypes
  <2>4. ASSUME NEW i \in held, NEW j \in held PROVE i = j
    <3>1. replay[m].floor + i = replay[m].floor + j /\ i \in Nat /\ j \in Nat
      BY <2>1, <2>2
    <3>2. QED BY <1>3, <3>1
  <2>5. QED BY <2>1, <2>3, <2>4
<1> HIDE DEF held
<1>5. /\ Bytes(less) = Bytes(groups) - Release * Cardinality(held) /\ less \in Seq(Group)
      /\ Len(less) = Len(groups)
  <2>1. \A i \in DOMAIN groups : i \in held => groups[i].charge >= Release
    BY <1>4
  <2> HIDE DEF groups
  <2>2. QED BY <1>3, <1>4, <2>1, BytesDiscounted, DiscountedKeeps
<1>6. /\ \A k \in Markets \ {m} : replay'[k] = replay[k]
      /\ replay'[m].groups = less /\ replay'[m].slot = replay[m].slot
  <2>1. replay \in [Markets -> ReplayLane]
    BY DEF IInv, PublishTypes
  <2> DEFINE new == [replay[m] EXCEPT !.durable = writer.cursor, !.groups = less]
  <2>2. replay' = [replay EXCEPT ![m] = new]
    BY <1>2, <2>1
  <2>3. new.groups = less /\ new.slot = replay[m].slot
    <3> HIDE DEF less
    <3>1. QED BY <1>3 DEF ReplayLane
  <2> HIDE DEF new
  <2>4. QED BY <2>1, <2>2, <2>3
<1>7. Charged(m) /\ publisher[m].growth = 0 /\ ~publisher[m].slot /\ ~Locked(m)'
  BY <1>0, <1>2 DEF BInv, Charged, Locked
<1>8. Bytes(groups) \in Nat /\ Bytes(less) \in Nat /\ Release * Cardinality(held) \in Nat
  <2>1. IsFiniteSet(held)
    <3>1. IsFiniteSet(DOMAIN groups)
      BY <1>3, ChargesType
    <3> HIDE DEF groups
    <3>2. QED BY <1>4, <3>1, FS_Subset
  <2>2. Cardinality(held) \in Nat
    BY <2>1, FS_CardinalityType
  <2>3. QED BY <1>3, <1>5, <2>2, BytesNat, LimitTypes
<1>9. groups = <<>> <=> less = <<>>
  BY <1>3, <1>5, EmptySeq
<1> HIDE DEF less
<1>10. Charged(m)'
  <2>1. Bytes(groups) <= ReplayBytes /\ (replay[m].slot <=> groups # <<>>) /\ ReplayBytes \in Nat
    BY <1>7, LimitTypes DEF Charged
  <2>2. Bytes(less) <= ReplayBytes
    BY <1>5, <1>8, <2>1
  <2>3. QED BY <1>0, <1>6, <1>7, <1>9, <2>1, <2>2 DEF Charged
<1>11. total' = (total - Weight[m]) + Weight[m]'
  <2>1. Weight[m] = Bytes(groups) + 0 /\ Weight[m]' = Bytes(less) + 0
    BY <1>0, <1>6, <1>7 DEF Weight
  <2>2. QED BY <1>2, <1>5, <1>8, <2>1, TotalIsInt
<1>12. m \in Holders' <=> m \in Holders
  BY <1>0, <1>6 DEF Holders
<1>13. occupied' = Cardinality(Holders)' /\ occupied' <= Slots
  <2>1. occupied <= Slots
    BY DEF BInv, Balanced
  <2>2. QED BY <1>0, <1>6, <1>12, <2>1, Recounted
<1>14. QED BY <1>0, <1>6, <1>10, <1>11, <1>13, OneMarket

LEMMA InvalidateBInv == ASSUME IInv, IInv', BInv, NEW m \in Markets, Invalidate(m) PROVE BInv'
<1>0. /\ UNCHANGED publisher /\ ~Locked(m)
      /\ replay' = [replay EXCEPT ![m] = Invalidated(replay[m])]
      /\ total' = total - Bytes(replay[m].groups)
      /\ occupied' = IF replay[m].slot THEN occupied - 1 ELSE occupied
  BY DEF Invalidate
<1>1. replay \in [Markets -> ReplayLane] /\ replay[m] \in ReplayLane
  BY DEF IInv, PublishTypes
<1>2. Invalidated(replay[m]).groups = <<>> /\ Invalidated(replay[m]).slot = FALSE
  BY <1>1 DEF Invalidated, ReplayLane
<1>3. /\ \A k \in Markets \ {m} : replay'[k] = replay[k]
      /\ replay'[m].groups = <<>> /\ ~replay'[m].slot
  BY <1>0, <1>1, <1>2
<1>4. QED BY <1>0, <1>3, EmptiedBInv

LEMMA ReleasedBInv == ASSUME IInv, IInv', BInv, Released PROVE BInv'
<1>1. PICK m \in Markets : m = Head(retirements).market /\ ~Locked(m)
  BY Releasing DEF Released
<1>2. CASE Head(retirements).gap \/ replay[m].published = replay[m].durable
  <2>1. /\ UNCHANGED publisher
        /\ replay' = [replay EXCEPT ![m] = NewReplay]
        /\ total' = total - Bytes(replay[m].groups)
        /\ occupied' = IF replay[m].slot THEN occupied - 1 ELSE occupied
    BY <1>1, <1>2 DEF Released
  <2>2. replay \in [Markets -> ReplayLane] /\ NewReplay.groups = <<>> /\ NewReplay.slot = FALSE
    BY DEF IInv, PublishTypes, NewReplay
  <2>3. /\ \A k \in Markets \ {m} : replay'[k] = replay[k]
        /\ replay'[m].groups = <<>> /\ ~replay'[m].slot
    BY <2>1, <2>2
  <2>4. QED BY <1>1, <2>1, <2>3, EmptiedBInv
<1>3. CASE ~(Head(retirements).gap \/ replay[m].published = replay[m].durable)
  <2>1. UNCHANGED <<replay, total, occupied, publisher>>
    BY <1>1, <1>3 DEF Released, replayVars
  <2>2. QED BY <2>1, SameBudgets DEF Locked
<1>4. QED BY <1>2, <1>3

\* The other steps of a publisher move its call on.
LEMMA CallBInv ==
  ASSUME IInv, BInv, NEW m \in Markets, Admit(m) \/ Push(m) \/ Ready(m) PROVE BInv'
<1>1. UNCHANGED <<replay, total, occupied>> /\ publisher \in [Markets -> Call]
  BY DEF Admit, Push, Ready, replayVars, IInv, PublishTypes
<1>2. \A k \in Markets \ {m} : publisher'[k] = publisher[k]
  BY <1>1 DEF Admit, Push, Ready
<1>3. /\ publisher'[m].growth = publisher[m].growth /\ publisher'[m].slot = publisher[m].slot
      /\ publisher'[m].refund = publisher[m].refund
      /\ publisher[m].pc \in {"planned", "admitting", "visible"}
      /\ publisher[m].pc \in {"planned", "admitting"} => publisher'[m].pc \in {"admitting", "admitted"}
      /\ publisher[m].pc = "visible" => publisher'[m].pc = "idle"
  <2>1. publisher[m] \in Call
    BY <1>1
  <2>2. CASE Admit(m)
    BY <1>1, <2>1, <2>2 DEF Admit, Call
  <2>3. CASE Push(m)
    <3>1. \/ publisher' = [publisher EXCEPT ![m].pc = "admitted"]
          \/ publisher' = [publisher EXCEPT ![m].pc = "admitted", ![m].volatile = TRUE]
      BY <2>3 DEF Push
    <3>2. publisher[m].pc = "admitting"
      BY <2>3 DEF Push
    <3>3. QED BY <1>1, <2>1, <3>1, <3>2 DEF Call
  <2>4. CASE Ready(m)
    BY <1>1, <2>1, <2>4 DEF Ready, Call
  <2>5. QED BY <2>2, <2>3, <2>4
<1>4. \A k \in Markets : Locked(k)' <=> Locked(k)
  BY <1>2, <1>3 DEF Locked
<1>5. \A k \in Markets :
            /\ publisher'[k].growth = publisher[k].growth /\ publisher'[k].slot = publisher[k].slot
            /\ publisher'[k].refund = publisher[k].refund
  BY <1>2, <1>3
<1>6. QED BY <1>1, <1>4, <1>5, SameBudgets

\* A market is registered again with a publisher that has reserved nothing.
LEMMA RegisterBInv == ASSUME IInv, BInv, NEW m \in Markets, Register(m) PROVE BInv'
<1>1. /\ UNCHANGED <<replay, total, occupied>> /\ m \in retired
      /\ publisher' = [publisher EXCEPT ![m] = Idle] /\ publisher \in [Markets -> Call]
  BY DEF Register, replayVars, IInv, PublishTypes
<1>2. publisher[m].pc = "idle" /\ publisher[m].growth = 0 /\ ~publisher[m].slot /\ publisher[m].slot \in BOOLEAN
  BY <1>1 DEF IInv, Retiring, BInv, Charged, Locked, Call
<1>3. /\ \A k \in Markets \ {m} : publisher'[k] = publisher[k]
      /\ publisher'[m].pc = "idle" /\ publisher'[m].growth = 0 /\ publisher'[m].slot = FALSE
  BY <1>1 DEF Idle
<1>4. \A k \in Markets : Locked(k)' <=> Locked(k)
  BY <1>2, <1>3 DEF Locked
<1>5. ~Locked(m)
  BY <1>2 DEF Locked
<1>6. QED BY <1>1, <1>2, <1>3, <1>4, <1>5, SameBudgets

-----------------------------------------------------------------------------
(* Every step keeps the invariant, and the theorem.                        *)

LEMMA NextBInv == ASSUME IInv, BInv, [Next]_vars PROVE BInv'
<1>0. IInv'
  BY NextIInv
<1>1. CASE \E m \in Markets : Plan(m)
  BY <1>0, <1>1, PlanBInv
<1>2. CASE \E m \in Markets : Commit(m)
  BY <1>0, <1>2, CommitBInv
<1>3. CASE \E m \in Markets : Admit(m) \/ Push(m) \/ Ready(m)
  BY <1>3, CallBInv
<1>4. CASE \E m \in Markets : Invalidate(m)
  BY <1>0, <1>4, InvalidateBInv
<1>5. CASE \E m \in Markets : Register(m)
  BY <1>5, RegisterBInv
<1>6. CASE Acknowledge
  BY <1>0, <1>6, AcknowledgeBInv
<1>7. CASE Released
  BY <1>0, <1>7, ReleasedBInv
<1>8. CASE \/ Look \/ Scan \/ Rest \/ Awake \/ Persist \/ PersistFails \/ Drop
           \/ (\E m \in Markets : Abandon(m)) \/ AbandonEnd
           \/ Drain \/ RetireEnd \/ (\E m \in Markets : Retire(m))
           \/ Pause \/ Resume \/ SourceReady \/ Close \/ UNCHANGED vars
  <2>1. UNCHANGED <<replay, total, occupied, publisher>>
    BY <1>8 DEF Look, Scan, Rest, Awake, Persist, PersistFails, Drop, Abandon, AbandonEnd, Drain,
                RetireEnd, Retire, Pause, Resume, SourceReady, Close, vars, replayVars
  <2>2. QED BY <2>1, SameBudgets DEF Locked
<1>9. QED BY <1>1, <1>2, <1>3, <1>4, <1>5, <1>6, <1>7, <1>8 DEF Next, WriterStep, WorkerStep

\* For any number of markets and whatever the limits, the counters of MarketReplay and
\* MarketPersistence are the sums of what windows, queues and reservations hold, the
\* aggregate is never exceeded, and a market that has or gets a slot is never refused for
\* the aggregate bytes: that is what the partitioned budget promises.
THEOREM BudgetsAlwaysBalance == Spec => []BudgetsBalance
<1>1. IInv /\ BInv /\ [Next]_vars => BInv'
  BY NextBInv
<1>2. IInv /\ BInv => BudgetsBalance
  BY BInvBalances
<1>3. QED BY <1>1, <1>2, InitBInv, AlwaysIInv, PTL DEF Spec
=============================================================================
