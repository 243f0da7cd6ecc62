------------------------ MODULE DurableWriterProofs ------------------------
(***************************************************************************)
(* What the Hyperliquid store promises its readers, for any events, any    *)
(* replay capacities and any length of the WAL: everything shown is        *)
(* durable, the recovered memory is a scan of the WAL, a resume is exact,  *)
(* and the store implements the append-only log of SequencedLog.           *)
(*                                                                         *)
(* The argument is that the applied records of the WAL are numbered 1, 2,  *)
(* ... and name distinct events.  Committing such records one by one gives *)
(* the window WindowOf, wherever the commits start, so a checkpoint that   *)
(* matches the WAL and a scan of all of it recover the same memory.        *)
(***************************************************************************)
EXTENDS DurableWriter, Integers, FiniteSetsExt, SequencesExt, FiniteSetTheorems,
        SequenceTheorems, WellFoundedInduction, TLAPS

-----------------------------------------------------------------------------
(* Induction over data, in a form that first-order provers can use: the    *)
(* property that is proved by induction is a set, not an operator.         *)

\* A set of numbers has a least one.
LEMMA LeastNat ==
  ASSUME NEW T \in SUBSET Nat, T # {} PROVE \E x \in T : \A y \in T : x <= y
<1> DEFINE R == OpToRel(<, Nat)
<1>1. IsWellFoundedOn(R, Nat)
  BY NatLessThanWellFounded
<1>2. \A x, y \in Nat : <<y, x>> \in R <=> y < x
  BY DEF OpToRel
<1> HIDE DEF R
<1>3. PICK x \in T : \A y \in T : ~ (<<y, x>> \in R)
  BY <1>1, WFMin
<1>4. \A y \in T : ~(y < x)
  BY <1>2, <1>3
<1>5. QED BY <1>4

LEMMA MaxIsGreatest ==
  ASSUME NEW N \in Nat, NEW T \in SUBSET (0..N), T # {}
  PROVE Max(T) \in T /\ \A y \in T : Max(T) >= y
<1> DEFINE U == {N - x : x \in T}
<1>1. \A y \in T : y \in 0..N /\ N - y \in U
  OBVIOUS
<1>2. PICK u \in U : \A v \in U : u <= v
  <2>1. \A x \in 0..N : N - x \in Nat
    OBVIOUS
  <2>2. U \in SUBSET Nat /\ U # {}
    BY <2>1
  <2>3. QED BY <2>2, LeastNat
<1>3. N - u \in T /\ u \in 0..N
  <2>1. PICK x \in T : u = N - x
    BY <1>2
  <2>2. x \in 0..N
    OBVIOUS
  <2>3. N - u = x /\ u \in 0..N
    BY <2>1, <2>2
  <2>4. QED BY <2>3
<1> HIDE DEF U
<1>4. \A y \in T : N - u >= y
  <2> SUFFICES ASSUME NEW y \in T PROVE N - u >= y
    OBVIOUS
  <2>1. u <= N - y /\ y \in 0..N
    BY <1>1, <1>2
  <2>2. QED BY <1>3, <2>1
<1>5. QED BY <1>3, <1>4 DEF Max

\* Induction over the numbers.
LEMMA NatSetInduction ==
  ASSUME NEW S, 0 \in S, \A n \in Nat : n \in S => n + 1 \in S
  PROVE Nat \subseteq S
<1> SUFFICES ASSUME Nat \ S # {} PROVE FALSE
  OBVIOUS
<1>1. PICK x \in Nat \ S : \A y \in Nat \ S : x <= y
  BY LeastNat
<1>2. x # 0 /\ x - 1 \in Nat
  BY <1>1
<1>3. x - 1 \in S
  BY <1>1, <1>2
<1>4. QED BY <1>1, <1>2, <1>3

\* A function defined by recursion over an initial segment exists.
LEMMA RecursionExists ==
  ASSUME NEW S, NEW base \in S, NEW N \in Nat, NEW step \in [1..N -> [S -> S]]
  PROVE \E f \in [0..N -> S] : f[0] = base /\ \A i \in 1..N : f[i] = step[i][f[i - 1]]
<1> DEFINE Good(n, f) == f[0] = base /\ \A i \in 1..n : f[i] = step[i][f[i - 1]]
           D == {n \in Nat : n <= N => \E f \in [0..n -> S] : Good(n, f)}
<1>1. 0 \in D
  <2>1. [i \in 0..0 |-> base] \in [0..0 -> S] /\ Good(0, [i \in 0..0 |-> base])
    OBVIOUS
  <2>2. QED BY <2>1
<1>2. ASSUME NEW n \in Nat, n \in D PROVE n + 1 \in D
  <2>1. CASE n + 1 <= N
    <3>1. PICK f \in [0..n -> S] : Good(n, f)
      BY <1>2, <2>1
    <3> DEFINE g == [i \in 0..(n + 1) |-> IF i <= n THEN f[i] ELSE step[n + 1][f[n]]]
    <3>2. n + 1 \in 1..N /\ f[n] \in S
      BY <2>1
    <3>3. step[n + 1][f[n]] \in S
      BY <3>2
    <3>4. g \in [0..(n + 1) -> S]
      BY <3>3
    <3>5. \A i \in 1..(n + 1) : g[i] = step[i][g[i - 1]]
      <4> SUFFICES ASSUME NEW i \in 1..(n + 1) PROVE g[i] = step[i][g[i - 1]]
        OBVIOUS
      <4>1. CASE i <= n
        BY <3>1, <4>1
      <4>2. CASE i = n + 1
        BY <4>2
      <4>3. QED BY <4>1, <4>2
    <3>6. g[0] = base
      BY <3>1
    <3> HIDE DEF g
    <3>7. QED BY <3>4, <3>5, <3>6, SMTT(30)
  <2>2. QED BY <2>1
<1> HIDE DEF D
<1>3. N \in D
  BY <1>1, <1>2, NatSetInduction
<1>4. QED BY <1>3 DEF D

-----------------------------------------------------------------------------
(* The members of a set in a sequence.                                     *)

\* F is what the loop has collected after each member of s.
Collects(F, U, s, T) ==
    /\ F \in [0..Len(s) -> Seq(U)] /\ F[0] = <<>>
    /\ \A i \in 1..Len(s) : F[i] = IF s[i] \in T THEN Append(F[i - 1], s[i]) ELSE F[i - 1]

LEMMA KeptFun ==
  ASSUME NEW U, NEW s \in Seq(U), NEW T
  PROVE \E F : Collects(F, U, s, T) /\ Kept(s, T) = F[Len(s)]
<1> DEFINE step == [i \in 1..Len(s) |-> [q \in Seq(U) |-> IF s[i] \in T THEN Append(q, s[i]) ELSE q]]
           Def(G) == [i \in 0..Len(s) |->
              IF i = 0 THEN <<>> ELSE IF s[i] \in T THEN Append(G[i - 1], s[i]) ELSE G[i - 1]]
<1>1. Len(s) \in Nat /\ <<>> \in Seq(U)
  BY LenProperties
<1>2. step \in [1..Len(s) -> [Seq(U) -> Seq(U)]]
  <2>1. \A i \in 1..Len(s) : s[i] \in U
    BY ElementOfSeq
  <2>2. \A i \in 1..Len(s) : \A q \in Seq(U) : Append(q, s[i]) \in Seq(U)
    BY <2>1, AppendProperties
  <2>3. QED BY <2>2
<1>3. PICK f \in [0..Len(s) -> Seq(U)] : f[0] = <<>> /\ \A i \in 1..Len(s) : f[i] = step[i][f[i - 1]]
  <2> DEFINE base == <<>>
             N == Len(s)
             S == Seq(U)
  <2>0. base \in S /\ N \in Nat /\ step \in [1..N -> [S -> S]]
    BY <1>1, <1>2
  <2> HIDE DEF step, base, N, S
  <2>1. \E f \in [0..N -> S] : f[0] = base /\ \A i \in 1..N : f[i] = step[i][f[i - 1]]
    BY <2>0, RecursionExists
  <2>2. QED BY <2>1 DEF base, N, S
<1>4. \A i \in 1..Len(s) : f[i] = IF s[i] \in T THEN Append(f[i - 1], s[i]) ELSE f[i - 1]
  <2>1. \A i \in 1..Len(s) : f[i - 1] \in Seq(U)
    BY <1>1
  <2>2. QED BY <1>3, <2>1
<1> HIDE DEF step
<1>0. \A G : /\ Def(G)[0] = <<>> /\ DOMAIN Def(G) = 0..Len(s)
             /\ \A i \in 1..Len(s) : Def(G)[i] = IF s[i] \in T THEN Append(G[i - 1], s[i]) ELSE G[i - 1]
  <2> SUFFICES ASSUME NEW G PROVE /\ Def(G)[0] = <<>> /\ DOMAIN Def(G) = 0..Len(s)
             /\ \A i \in 1..Len(s) : Def(G)[i] = IF s[i] \in T THEN Append(G[i - 1], s[i]) ELSE G[i - 1]
    OBVIOUS
  <2>1. 0 \in 0..Len(s) /\ \A i \in 1..Len(s) : i \in 0..Len(s) /\ i # 0
    BY <1>1
  <2>2. DOMAIN Def(G) = 0..Len(s)
    OBVIOUS
  <2>3. Def(G)[0] = <<>>
    BY <2>1
  <2>4. ASSUME NEW i \in 1..Len(s) PROVE Def(G)[i] = IF s[i] \in T THEN Append(G[i - 1], s[i]) ELSE G[i - 1]
    BY <2>1, Zenon
  <2>5. QED BY <2>2, <2>3, <2>4
<1>5. f = Def(f)
  <2>1. \A i \in 0..Len(s) : f[i] = Def(f)[i]
    <3> SUFFICES ASSUME NEW i \in 0..Len(s) PROVE f[i] = Def(f)[i]
      OBVIOUS
    <3>1. CASE i = 0
      BY <1>3, <3>1
    <3>2. CASE i \in 1..Len(s)
      BY <1>0, <1>4, <3>2, Zenon
    <3>3. QED BY <1>1, <3>1, <3>2
  <2>2. QED BY <2>1
<1> DEFINE F == CHOOSE G : G = Def(G)
<1>6. F = Def(F)
  BY <1>5
<1>7. Kept(s, T) = F[Len(s)]
  BY DEF Kept
<1> HIDE DEF F
<1>8. F[0] = <<>> /\ \A i \in 1..Len(s) : F[i] = IF s[i] \in T THEN Append(F[i - 1], s[i]) ELSE F[i - 1]
  BY <1>0, <1>6, Zenon
<1>9. F \in [0..Len(s) -> Seq(U)]
  <2> DEFINE D == {n \in Nat : n <= Len(s) => F[n] \in Seq(U)}
  <2>1. 0 \in D
    BY <1>1, <1>8
  <2>2. ASSUME NEW n \in Nat, n \in D PROVE n + 1 \in D
    <3>1. SUFFICES ASSUME n + 1 <= Len(s) PROVE F[n + 1] \in Seq(U)
      OBVIOUS
    <3>2. n + 1 \in 1..Len(s) /\ (n + 1) - 1 = n /\ F[n] \in Seq(U) /\ s[n + 1] \in U
      BY <1>1, <2>2, <3>1, ElementOfSeq
    <3>3. Append(F[n], s[n + 1]) \in Seq(U)
      BY <3>2, AppendProperties
    <3>4. QED BY <1>8, <3>2, <3>3
  <2> HIDE DEF D
  <2>3. Nat \subseteq D
    BY <2>1, <2>2, NatSetInduction
  <2>4. \A n \in 0..Len(s) : F[n] \in Seq(U)
    BY <1>1, <2>3 DEF D
  <2>5. QED BY <1>6, <2>4
<1>10. Collects(F, U, s, T)
  BY <1>8, <1>9 DEF Collects
<1>11. QED BY <1>7, <1>10

\* What was collected from a common prefix is the same.
LEMMA CollectsSame ==
  ASSUME NEW U, NEW V, NEW s, NEW t, NEW T, NEW F, NEW G,
         Collects(F, U, s, T), Collects(G, V, t, T), Len(s) \in Nat, Len(t) \in Nat,
         NEW n \in Nat, n <= Len(s), n <= Len(t), \A i \in 1..n : s[i] = t[i]
  PROVE F[n] = G[n]
<1> DEFINE D == {k \in Nat : k <= n => F[k] = G[k]}
<1>1. 0 \in D
  BY DEF Collects
<1>2. ASSUME NEW k \in Nat, k \in D PROVE k + 1 \in D
  <2> SUFFICES ASSUME k + 1 <= n PROVE F[k + 1] = G[k + 1]
    OBVIOUS
  <2>1. /\ k + 1 \in 1..Len(s) /\ k + 1 \in 1..Len(t) /\ (k + 1) - 1 = k /\ F[k] = G[k]
        /\ s[k + 1] = t[k + 1]
    BY <1>2
  <2>2. /\ F[k + 1] = IF s[k + 1] \in T THEN Append(F[k], s[k + 1]) ELSE F[k]
        /\ G[k + 1] = IF t[k + 1] \in T THEN Append(G[k], t[k + 1]) ELSE G[k]
    BY <2>1 DEF Collects
  <2>3. QED BY <2>1, <2>2
<1> HIDE DEF D
<1>3. n \in D
  BY <1>1, <1>2, NatSetInduction
<1>4. QED BY <1>3 DEF D

\* Nothing is kept of nothing.
LEMMA KeptEmpty == ASSUME NEW T PROVE Kept(<<>>, T) = <<>>
<1>1. <<>> \in Seq({}) /\ Len(<<>>) = 0
  BY EmptySeq
<1>2. PICK F : Collects(F, {}, <<>>, T) /\ Kept(<<>>, T) = F[Len(<<>>)]
  BY <1>1, KeptFun
<1>3. QED BY <1>1, <1>2 DEF Collects

\* One more member.
LEMMA KeptAppend ==
  ASSUME NEW U, NEW s \in Seq(U), NEW e \in U, NEW T
  PROVE Kept(Append(s, e), T) = IF e \in T THEN Append(Kept(s, T), e) ELSE Kept(s, T)
<1> DEFINE t == Append(s, e)
<1>1. /\ t \in Seq(U) /\ Len(t) = Len(s) + 1 /\ Len(s) \in Nat /\ t[Len(s) + 1] = e
      /\ \A i \in 1..Len(s) : t[i] = s[i]
  BY AppendProperties, LenProperties
<1> HIDE DEF t
<1>2. PICK F : Collects(F, U, s, T) /\ Kept(s, T) = F[Len(s)]
  BY KeptFun
<1>3. PICK G : Collects(G, U, t, T) /\ Kept(t, T) = G[Len(t)]
  BY <1>1, KeptFun
<1>4. F[Len(s)] = G[Len(s)]
  <2>1. /\ Len(t) \in Nat /\ Len(s) \in Nat /\ Len(s) <= Len(s) /\ Len(s) <= Len(t)
        /\ \A i \in 1..Len(s) : s[i] = t[i]
    BY <1>1
  <2>2. QED BY <1>2, <1>3, <2>1, CollectsSame
<1>5. G[Len(t)] = IF t[Len(t)] \in T THEN Append(G[Len(s)], t[Len(t)]) ELSE G[Len(s)]
  <2>1. Len(t) \in 1..Len(t) /\ Len(t) - 1 = Len(s)
    BY <1>1
  <2>2. QED BY <1>3, <2>1 DEF Collects
<1>6. QED BY <1>1, <1>2, <1>3, <1>4, <1>5 DEF t

\* Everything that is kept is a member of T, of the kind of the sequence.
LEMMA KeptMembers ==
  ASSUME NEW U, NEW s \in Seq(U), NEW T
  PROVE Kept(s, T) \in Seq(U \cap T)
<1>0. PICK F : Collects(F, U, s, T) /\ Kept(s, T) = F[Len(s)]
  BY KeptFun
<1>1. Len(s) \in Nat
  BY LenProperties
<1> DEFINE D == {n \in Nat : n <= Len(s) => F[n] \in Seq(U \cap T)}
<1>2. 0 \in D
  BY <1>0, EmptySeq DEF Collects
<1>3. ASSUME NEW n \in Nat, n \in D PROVE n + 1 \in D
  <2> SUFFICES ASSUME n + 1 <= Len(s) PROVE F[n + 1] \in Seq(U \cap T)
    OBVIOUS
  <2>1. n + 1 \in 1..Len(s) /\ (n + 1) - 1 = n /\ F[n] \in Seq(U \cap T)
    BY <1>1, <1>3
  <2>2. s[n + 1] \in U
    BY <2>1, ElementOfSeq
  <2>3. F[n + 1] = IF s[n + 1] \in T THEN Append(F[n], s[n + 1]) ELSE F[n]
    BY <1>0, <2>1 DEF Collects
  <2>4. CASE s[n + 1] \in T
    <3>1. s[n + 1] \in U \cap T
      BY <2>2, <2>4
    <3>2. Append(F[n], s[n + 1]) \in Seq(U \cap T)
      BY <2>1, <3>1, AppendProperties
    <3>3. QED BY <2>3, <2>4, <3>2
  <2>5. CASE s[n + 1] \notin T
    BY <2>1, <2>3, <2>5
  <2>6. QED BY <2>4, <2>5
<1> HIDE DEF D
<1>4. Len(s) \in D
  BY <1>1, <1>2, <1>3, NatSetInduction
<1>5. QED BY <1>0, <1>1, <1>4 DEF D

\* Filtering two parts of a sequence.
LEMMA KeptConcat ==
  ASSUME NEW U, NEW s \in Seq(U), NEW t \in Seq(U), NEW T
  PROVE Kept(s \o t, T) = Kept(s, T) \o Kept(t, T)
<1> DEFINE P(n) == SubSeq(t, 1, n)
           D == {n \in Nat : n <= Len(t) => Kept(s \o P(n), T) = Kept(s, T) \o Kept(P(n), T)}
<1>0. Len(t) \in Nat /\ Kept(s, T) \in Seq(U)
  <2>1. Kept(s, T) \in Seq(U \cap T)
    BY KeptMembers
  <2>2. QED BY <2>1, LenProperties, SeqMonotonic
<1>1. 0 \in D
  <2>1. P(0) = <<>>
    BY SubSeqEmpty
  <2>2. s \o <<>> = s /\ Kept(s, T) \o <<>> = Kept(s, T)
    BY <1>0, ConcatEmptySeq
  <2>3. QED BY <2>1, <2>2, KeptEmpty
<1>2. ASSUME NEW n \in Nat, n \in D PROVE n + 1 \in D
  <2> SUFFICES ASSUME n + 1 <= Len(t) PROVE Kept(s \o P(n + 1), T) = Kept(s, T) \o Kept(P(n + 1), T)
    OBVIOUS
  <2>1. t[n + 1] \in U
    BY <1>0, ElementOfSeq
  <2>2. P(n) \in Seq(U) /\ Len(P(n)) = n
    <3>1. \A i \in 1..n : t[i] \in U
      BY <1>0, ElementOfSeq
    <3>2. QED BY <3>1, SubSeqProperties
  <2>3. P(n + 1) = Append(P(n), t[n + 1])
    <3>1. \A i \in 1..(n + 1) : t[i] \in U
      BY <1>0, ElementOfSeq
    <3>2. P(n + 1) \in Seq(U) /\ Len(P(n + 1)) = n + 1
      BY <3>1, SubSeqProperties
    <3>3. \A i \in 1..(n + 1) : P(n + 1)[i] = Append(P(n), t[n + 1])[i]
      BY <2>1, <2>2, <3>1
    <3>4. Append(P(n), t[n + 1]) \in Seq(U) /\ Len(Append(P(n), t[n + 1])) = n + 1
      BY <2>1, <2>2, AppendProperties
    <3> HIDE DEF P
    <3>5. QED BY <3>2, <3>3, <3>4, SeqEqual
  <2>4. s \o P(n) \in Seq(U) /\ Kept(P(n), T) \in Seq(U)
    <3>1. Kept(P(n), T) \in Seq(U \cap T)
      BY <2>2, KeptMembers
    <3>2. QED BY <2>2, <3>1, ConcatProperties, SeqMonotonic
  <2> HIDE DEF P
  <2>5. s \o Append(P(n), t[n + 1]) = Append(s \o P(n), t[n + 1])
    BY <2>1, <2>2
  <2>6. Kept(s, T) \o Append(Kept(P(n), T), t[n + 1]) = Append(Kept(s, T) \o Kept(P(n), T), t[n + 1])
    BY <1>0, <2>1, <2>4
  <2>7. Kept(s \o P(n), T) = Kept(s, T) \o Kept(P(n), T)
    BY <1>0, <1>2
  <2>8. /\ Kept(Append(s \o P(n), t[n + 1]), T)
             = IF t[n + 1] \in T THEN Append(Kept(s \o P(n), T), t[n + 1]) ELSE Kept(s \o P(n), T)
        /\ Kept(Append(P(n), t[n + 1]), T)
             = IF t[n + 1] \in T THEN Append(Kept(P(n), T), t[n + 1]) ELSE Kept(P(n), T)
    <3> DEFINE q == s \o P(n)
               r == P(n)
               e == t[n + 1]
    <3>1. q \in Seq(U) /\ r \in Seq(U) /\ e \in U
      BY <2>1, <2>2, <2>4
    <3> HIDE DEF q, r, e
    <3>2. /\ Kept(Append(q, e), T) = IF e \in T THEN Append(Kept(q, T), e) ELSE Kept(q, T)
          /\ Kept(Append(r, e), T) = IF e \in T THEN Append(Kept(r, T), e) ELSE Kept(r, T)
      BY <3>1, KeptAppend
    <3>3. QED BY <3>2 DEF q, r, e
  <2>9. QED BY <2>3, <2>5, <2>6, <2>7, <2>8
<1> HIDE DEF D
<1>3. Len(t) \in D
  BY <1>0, <1>1, <1>2, NatSetInduction
<1>4. P(Len(t)) = t
  BY SubSeqFull
<1> HIDE DEF P
<1>5. Len(t) \in Nat /\ Len(t) <= Len(t)
  BY <1>0
<1>6. Kept(s \o P(Len(t)), T) = Kept(s, T) \o Kept(P(Len(t)), T)
  BY <1>3, <1>5 DEF D
<1>7. QED BY <1>4, <1>6

\* When the members of T are those after the k-th, what is kept is the rest.
LEMMA KeptSuffix ==
  ASSUME NEW U, NEW s \in Seq(U), NEW T, NEW k \in 0..Len(s),
         \A i \in 1..Len(s) : s[i] \in T <=> i > k
  PROVE Kept(s, T) = SubSeq(s, k + 1, Len(s))
<1>0. PICK F : Collects(F, U, s, T) /\ Kept(s, T) = F[Len(s)]
  BY KeptFun
<1>1. Len(s) \in Nat /\ k \in Nat /\ \A i \in 1..Len(s) : s[i] \in U
  BY LenProperties, ElementOfSeq
<1> DEFINE D == {n \in Nat : n <= Len(s) => F[n] = SubSeq(s, k + 1, n)}
<1>2. 0 \in D
  <2>1. SubSeq(s, k + 1, 0) = <<>>
    BY <1>1, SubSeqEmpty
  <2>2. QED BY <1>0, <2>1 DEF Collects
<1>3. ASSUME NEW n \in Nat, n \in D PROVE n + 1 \in D
  <2> SUFFICES ASSUME n + 1 <= Len(s) PROVE F[n + 1] = SubSeq(s, k + 1, n + 1)
    OBVIOUS
  <2>1. n + 1 \in 1..Len(s) /\ (n + 1) - 1 = n /\ F[n] = SubSeq(s, k + 1, n) /\ s[n + 1] \in U
    BY <1>1, <1>3
  <2>2. F[n + 1] = IF s[n + 1] \in T THEN Append(F[n], s[n + 1]) ELSE F[n]
    BY <1>0, <2>1 DEF Collects
  <2>3. CASE n + 1 > k
    <3>1. k + 1 \in 1..Len(s) /\ n + 1 \in (k + 1)..Len(s)
      BY <1>1, <2>1, <2>3
    <3>2. SubSeq(s, k + 1, n + 1) = SubSeq(s, k + 1, n) \o <<s[n + 1]>>
      <4>1. SubSeq(s, k + 1, n + 1) = SubSeq(s, k + 1, (n + 1) - 1) \o <<s[n + 1]>>
        BY <3>1, SubSeqRecursiveSecond
      <4>2. QED BY <2>1, <4>1
    <3>3. SubSeq(s, k + 1, n) \in Seq(U)
      <4>1. \A i \in (k + 1)..n : s[i] \in U
        BY <1>1, <2>1
      <4>2. QED BY <1>1, <4>1, SubSeqProperties
    <3>4. Append(SubSeq(s, k + 1, n), s[n + 1]) = SubSeq(s, k + 1, n) \o <<s[n + 1]>>
      BY <2>1, <3>3, AppendIsConcat
    <3>5. QED BY <2>1, <2>2, <2>3, <3>2, <3>4
  <2>4. CASE ~(n + 1 > k)
    <3>1. SubSeq(s, k + 1, n) = <<>> /\ SubSeq(s, k + 1, n + 1) = <<>>
      BY <1>1, <2>4, SubSeqEmpty
    <3>2. QED BY <2>1, <2>2, <2>4, <3>1
  <2>5. QED BY <2>3, <2>4
<1> HIDE DEF D
<1>4. Len(s) \in D
  BY <1>1, <1>2, <1>3, NatSetInduction
<1>5. QED BY <1>0, <1>1, <1>4 DEF D

Batch == [segment : Nat, offset : Nat, first : Nat, last : Nat]
Replay == [sequence : Nat, tail : Seq(Record), broken : BOOLEAN]
Wal == [records : Seq(Record), batches : Seq(Batch), segments : Nat, torn : BOOLEAN]
Memory == [records : Seq(Record), index : Seq(Batch), segment : Nat, offset : Nat,
           replay : Replay, capacity : Nat, healthy : BOOLEAN]

\* The records that were given a public sequence
Committed == {r \in Record : Applied(r)}

\* Applied records carry their position and name distinct events.
Numbered(applied) ==
    /\ applied \in Seq(Record)
    /\ \A i \in 1..Len(applied) : applied[i].sequence = i
    /\ \A i, j \in 1..Len(applied) : applied[i].event = applied[j].event => i = j

\* The window after these applied records
WindowOf(applied, capacity) ==
    [sequence |-> Len(applied), tail |-> LastOf(applied, capacity), broken |-> FALSE]

-----------------------------------------------------------------------------
(* The inductive invariant                                                 *)

Types ==
    /\ wal \in Wal /\ mem \in Memory
    /\ owner \in {"down", "refused", "running", "promoting", "closed"}

\* The WAL on disk: numbered, its batches in segments that exist
WalOK ==
    /\ Numbered(AppliedRecords(wal.records))
    /\ \A i \in 1..Len(wal.batches) : wal.batches[i].segment <= wal.segments
    /\ published \subseteq ToSet(AppliedRecords(wal.records))

\* What a checkpoint file that can be read holds
FilesOK == \A file \in {current, previous} : Readable(file) => file.cursor \in Nat

\* The memory of a process that serves readers, the hub closed or not
ServedOK ==
    owner \in Up =>
        /\ mem.capacity \in Nat \ {0}
        /\ Numbered(AppliedRecords(mem.records))
        /\ mem.replay = WindowOf(AppliedRecords(mem.records), mem.capacity)
        /\ published \subseteq ToSet(AppliedRecords(mem.records))

\* The memory of a process that accepts frames
WritingOK ==
    owner \in {"running", "promoting"} =>
        /\ mem.records = wal.records
        /\ mem.index = RebuildIndex(wal.batches)
        /\ mem.healthy => indexFile = mem.index
        /\ mem.segment = wal.segments
        /\ mem.offset = Position

IInv == Types /\ WalOK /\ FilesOK /\ ServedOK /\ WritingOK

-----------------------------------------------------------------------------
(* Applied records and windows                                             *)

LEMMA AppliedType ==
  ASSUME NEW s \in Seq(Record)
  PROVE AppliedRecords(s) \in Seq(Record)
<1>1. Kept(s, Committed) \in Seq(Record \cap Committed)
  BY KeptMembers
<1>2. Kept(s, Committed) \in Seq(Record)
  <2> HIDE DEF Committed
  <2>1. QED BY <1>1, SeqMonotonic
<1>3. QED BY <1>2 DEF AppliedRecords, Committed

LEMMA AppliedConcat ==
  ASSUME NEW s \in Seq(Record), NEW t \in Seq(Record)
  PROVE AppliedRecords(s \o t) = AppliedRecords(s) \o AppliedRecords(t)
<1>1. Kept(s \o t, Committed) = Kept(s, Committed) \o Kept(t, Committed)
  BY KeptConcat
<1>2. QED BY <1>1 DEF AppliedRecords, Committed

LEMMA AppliedEmpty == AppliedRecords(<<>>) = <<>>
BY KeptEmpty DEF AppliedRecords

\* The last members of a sequence.
LEMMA LastOfProps ==
  ASSUME NEW S, NEW a \in Seq(S), NEW c \in Nat
  PROVE /\ LastOf(a, c) \in Seq(S)
        /\ Len(LastOf(a, c)) = IF Len(a) <= c THEN Len(a) ELSE c
        /\ \A i \in 1..Len(LastOf(a, c)) : LastOf(a, c)[i] = a[(Len(a) - Len(LastOf(a, c))) + i]
<1>0. Len(a) \in Nat /\ \A i \in 1..Len(a) : a[i] \in S
  BY LenProperties, ElementOfSeq
<1>1. CASE Len(a) <= c
  BY <1>0, <1>1 DEF LastOf
<1>2. CASE ~(Len(a) <= c)
  <2> DEFINE m == Len(a) - c + 1
             n == Len(a)
  <2>1. m \in Int /\ n \in Int /\ \A i \in m..n : a[i] \in S
    BY <1>0, <1>2
  <2>2. /\ SubSeq(a, m, n) \in Seq(S)
        /\ Len(SubSeq(a, m, n)) = IF m <= n THEN n - m + 1 ELSE 0
        /\ \A i \in 1..(n - m + 1) : SubSeq(a, m, n)[i] = a[m + i - 1]
    <3> HIDE DEF m, n
    <3>1. QED BY <2>1, SubSeqProperties
  <2>3. LastOf(a, c) = SubSeq(a, m, n)
    BY <1>2 DEF LastOf
  <2>4. Len(LastOf(a, c)) = c
    BY <1>0, <1>2, <2>2, <2>3
  <2>5. \A i \in 1..c : i \in 1..(n - m + 1) /\ m + i - 1 = (Len(a) - c) + i
    BY <1>0
  <2> HIDE DEF m, n
  <2>6. QED BY <1>2, <2>2, <2>3, <2>4, <2>5
<1>3. QED BY <1>1, <1>2

LEMMA LastOfAppend ==
  ASSUME NEW S, NEW a \in Seq(S), NEW r \in S, NEW c \in Nat \ {0}
  PROVE LastOf(Append(LastOf(a, c), r), c) = LastOf(Append(a, r), c)
<1> DEFINE t == LastOf(a, c)
           b == Append(a, r)
           u == Append(t, r)
<1>0. c \in Nat
  OBVIOUS
<1>1. /\ t \in Seq(S) /\ Len(t) \in Nat /\ Len(a) \in Nat
      /\ Len(t) = IF Len(a) <= c THEN Len(a) ELSE c
      /\ \A i \in 1..Len(t) : t[i] = a[(Len(a) - Len(t)) + i]
  BY <1>0, LastOfProps, LenProperties
<1> HIDE DEF t
<1>2. /\ b \in Seq(S) /\ Len(b) = Len(a) + 1 /\ b[Len(a) + 1] = r
      /\ \A i \in 1..Len(a) : b[i] = a[i]
  BY AppendProperties
<1>3. /\ u \in Seq(S) /\ Len(u) = Len(t) + 1 /\ u[Len(t) + 1] = r
      /\ \A i \in 1..Len(t) : u[i] = t[i]
  BY <1>1, AppendProperties
<1> HIDE DEF b, u
<1>4. \A i \in 1..Len(u) : u[i] = b[(Len(b) - Len(u)) + i]
  <2> SUFFICES ASSUME NEW i \in 1..Len(u) PROVE u[i] = b[(Len(b) - Len(u)) + i]
    OBVIOUS
  <2>0. Len(t) \in Nat /\ Len(u) = Len(t) + 1 /\ Len(b) = Len(a) + 1 /\ Len(a) \in Nat
    BY <1>1, <1>2, <1>3
  <2>1. CASE i = Len(t) + 1
    <3>1. (Len(b) - Len(u)) + i = Len(a) + 1
      BY <2>0, <2>1
    <3>2. QED BY <1>2, <1>3, <2>1, <3>1
  <2>2. CASE i \in 1..Len(t)
    <3>1. u[i] = a[(Len(a) - Len(t)) + i]
      BY <1>1, <1>3, <2>2
    <3>2. (Len(a) - Len(t)) + i \in 1..Len(a) /\ (Len(b) - Len(u)) + i = (Len(a) - Len(t)) + i
      BY <1>1, <1>2, <1>3, <2>2
    <3>3. QED BY <1>2, <3>1, <3>2
  <2>3. i = Len(t) + 1 \/ i \in 1..Len(t)
    BY <2>0
  <2>4. QED BY <2>1, <2>2, <2>3
<1> DEFINE x == LastOf(u, c)
           y == LastOf(b, c)
<1>5. /\ x \in Seq(S) /\ Len(x) = IF Len(u) <= c THEN Len(u) ELSE c
      /\ \A i \in 1..Len(x) : x[i] = u[(Len(u) - Len(x)) + i]
  <2>1. u \in Seq(S)
    BY <1>3
  <2>2. QED BY <1>0, <2>1, LastOfProps
<1>6. /\ y \in Seq(S) /\ Len(y) = IF Len(b) <= c THEN Len(b) ELSE c
      /\ \A i \in 1..Len(y) : y[i] = b[(Len(b) - Len(y)) + i]
  <2>1. b \in Seq(S)
    BY <1>2
  <2>2. QED BY <1>0, <2>1, LastOfProps
<1> HIDE DEF x, y
<1>7. Len(x) = Len(y) /\ Len(x) \in Nat /\ Len(x) <= Len(u) /\ Len(u) \in Nat /\ Len(b) \in Nat
  BY <1>1, <1>2, <1>3, <1>5, <1>6
<1>8. ASSUME NEW i \in 1..Len(x) PROVE x[i] = y[i]
  <2>1. (Len(u) - Len(x)) + i \in 1..Len(u)
    BY <1>7
  <2>2. x[i] = b[(Len(b) - Len(u)) + ((Len(u) - Len(x)) + i)]
    BY <1>4, <1>5, <2>1
  <2>3. (Len(b) - Len(u)) + ((Len(u) - Len(x)) + i) = (Len(b) - Len(y)) + i
    BY <1>7
  <2>4. QED BY <1>6, <1>7, <2>2, <2>3
<1>9. x = y
  BY <1>5, <1>6, <1>7, <1>8, SeqEqual
<1>10. QED BY <1>9 DEF x, y, u, b, t

\* One commit keeps the shape of a window.
LEMMA CommitType ==
  ASSUME NEW w \in Replay, NEW r \in Record, NEW c \in Nat
  PROVE CommitPersisted(w, r, c) \in Replay
<1>1. r.sequence \in Nat /\ w.tail \in Seq(Record)
  BY DEF Record, Replay
<1>2. Append(w.tail, r) \in Seq(Record)
  BY <1>1, AppendProperties
<1>3. LastOf(Append(w.tail, r), c) \in Seq(Record)
  BY <1>2, LastOfProps
<1>4. [w EXCEPT !.broken = TRUE] \in Replay
  BY DEF Replay
<1>5. [sequence |-> r.sequence, tail |-> LastOf(Append(w.tail, r), c), broken |-> FALSE] \in Replay
  BY <1>1, <1>3 DEF Replay
<1> DEFINE v == [sequence |-> r.sequence, tail |-> LastOf(Append(w.tail, r), c), broken |-> FALSE]
           u == [w EXCEPT !.broken = TRUE]
<1>6. CommitPersisted(w, r, c) = u \/ CommitPersisted(w, r, c) = v
  BY DEF CommitPersisted
<1> HIDE DEF u, v
<1>7. u \in Replay /\ v \in Replay
  BY <1>4, <1>5 DEF u, v
<1>8. QED BY <1>6, <1>7

\* F is the window after each commit of the loop.
Commits(F, w, s, c) ==
    /\ F[0] = w
    /\ \A i \in 1..Len(s) : F[i] = CommitPersisted(F[i - 1], s[i], c)

LEMMA CommitFun ==
  ASSUME NEW w \in Replay, NEW records \in Seq(Record), NEW c \in Nat
  PROVE \E F : /\ Commits(F, w, AppliedRecords(records), c)
               /\ CommitAll(w, records, c) = F[Len(AppliedRecords(records))]
<1> DEFINE s == AppliedRecords(records)
           N == Len(s)
           step == [i \in 1..N |-> [q \in Replay |-> CommitPersisted(q, s[i], c)]]
           Def(G) == [i \in 0..N |-> IF i = 0 THEN w ELSE CommitPersisted(G[i - 1], s[i], c)]
<1>1. N \in Nat /\ \A i \in 1..N : s[i] \in Record
  BY AppliedType, LenProperties, ElementOfSeq
<1>2. CommitAll(w, records, c) = (CHOOSE G : G = Def(G))[N]
  BY DEF CommitAll
<1> HIDE DEF s, N
<1>3. step \in [1..N -> [Replay -> Replay]]
  BY <1>1, CommitType
<1>4. PICK f \in [0..N -> Replay] : f[0] = w /\ \A i \in 1..N : f[i] = step[i][f[i - 1]]
  <2>0. N \in Nat /\ w \in Replay /\ step \in [1..N -> [Replay -> Replay]]
    BY <1>1, <1>3
  <2> HIDE DEF step
  <2>1. \E f \in [0..N -> Replay] : f[0] = w /\ \A i \in 1..N : f[i] = step[i][f[i - 1]]
    BY <2>0, RecursionExists, SMTT(30)
  <2>2. QED BY <2>1
<1>5. \A i \in 1..N : f[i] = CommitPersisted(f[i - 1], s[i], c)
  <2>1. \A i \in 1..N : f[i - 1] \in Replay
    BY <1>1
  <2>2. QED BY <1>4, <2>1
<1> HIDE DEF step
<1>6. \A G : /\ Def(G)[0] = w /\ DOMAIN Def(G) = 0..N
             /\ \A i \in 1..N : Def(G)[i] = CommitPersisted(G[i - 1], s[i], c)
  <2> SUFFICES ASSUME NEW G
               PROVE /\ Def(G)[0] = w /\ DOMAIN Def(G) = 0..N
                     /\ \A i \in 1..N : Def(G)[i] = CommitPersisted(G[i - 1], s[i], c)
    OBVIOUS
  <2>1. 0 \in 0..N /\ \A i \in 1..N : i \in 0..N /\ i # 0
    BY <1>1
  <2>2. Def(G)[0] = w /\ DOMAIN Def(G) = 0..N
    BY <2>1
  <2>3. ASSUME NEW i \in 1..N PROVE Def(G)[i] = CommitPersisted(G[i - 1], s[i], c)
    BY <2>1, Zenon
  <2>4. QED BY <2>2, <2>3
<1>7. f = Def(f)
  <2>1. \A i \in 0..N : f[i] = Def(f)[i]
    <3> SUFFICES ASSUME NEW i \in 0..N PROVE f[i] = Def(f)[i]
      OBVIOUS
    <3>1. CASE i = 0
      BY <1>4, <3>1
    <3>2. CASE i \in 1..N
      BY <1>5, <1>6, <3>2, Zenon
    <3>3. QED BY <1>1, <3>1, <3>2
  <2>2. QED BY <2>1
<1> DEFINE F == CHOOSE G : G = Def(G)
<1>8. F = Def(F)
  BY <1>7
<1>9. CommitAll(w, records, c) = F[N]
  BY <1>2
<1> HIDE DEF F
<1>10. F[0] = w /\ \A i \in 1..N : F[i] = CommitPersisted(F[i - 1], s[i], c)
  BY <1>6, <1>8, Zenon
<1>11. QED BY <1>9, <1>10 DEF Commits, s, N

\* A commit loop that starts broken ends broken.
LEMMA BrokenStays ==
  ASSUME NEW w \in Replay, w.broken, NEW records \in Seq(Record), NEW c \in Nat
  PROVE CommitAll(w, records, c).broken
<1> DEFINE s == AppliedRecords(records)
<1>0. Len(s) \in Nat
  BY AppliedType, LenProperties
<1>1. PICK F : Commits(F, w, s, c) /\ CommitAll(w, records, c) = F[Len(s)]
  BY CommitFun
<1> HIDE DEF s
<1> DEFINE D == {n \in Nat : n <= Len(s) => F[n] = w}
<1>2. 0 \in D
  BY <1>1 DEF Commits
<1>3. ASSUME NEW n \in Nat, n \in D PROVE n + 1 \in D
  <2> SUFFICES ASSUME n + 1 <= Len(s) PROVE F[n + 1] = w
    OBVIOUS
  <2>1. n + 1 \in 1..Len(s) /\ (n + 1) - 1 = n /\ F[n] = w
    BY <1>0, <1>3
  <2>2. F[n + 1] = CommitPersisted(w, s[n + 1], c)
    BY <1>1, <2>1 DEF Commits
  <2>3. CommitPersisted(w, s[n + 1], c) = [w EXCEPT !.broken = TRUE]
    BY DEF CommitPersisted
  <2>4. [w EXCEPT !.broken = TRUE] = w
    BY DEF Replay
  <2>5. QED BY <2>2, <2>3, <2>4
<1> HIDE DEF D
<1>4. Len(s) \in D
  BY <1>0, <1>2, <1>3, NatSetInduction
<1>5. QED BY <1>0, <1>1, <1>4 DEF D

\* A window of numbered records takes the next one.
LEMMA WindowStep ==
  ASSUME NEW all, Numbered(all), NEW n \in Nat, n + 1 <= Len(all), NEW c \in Nat \ {0}
  PROVE CommitPersisted(WindowOf(SubSeq(all, 1, n), c), all[n + 1], c)
          = WindowOf(SubSeq(all, 1, n + 1), c)
<1>0. /\ all \in Seq(Record) /\ Len(all) \in Nat /\ \A i \in 1..Len(all) : all[i] \in Record
  BY LenProperties, ElementOfSeq DEF Numbered
<1> DEFINE p == SubSeq(all, 1, n)
           q == SubSeq(all, 1, n + 1)
           r == all[n + 1]
           t == LastOf(p, c)
<1>1. p \in Seq(Record) /\ Len(p) = n /\ \A i \in 1..n : p[i] = all[i]
  <2>1. \A i \in 1..n : all[i] \in Record
    BY <1>0
  <2>2. QED BY <2>1, SubSeqProperties
<1>2. q \in Seq(Record) /\ Len(q) = n + 1 /\ \A i \in 1..(n + 1) : q[i] = all[i]
  <2>1. \A i \in 1..(n + 1) : all[i] \in Record
    BY <1>0
  <2>2. QED BY <2>1, SubSeqProperties
<1>3. r \in Record /\ r.sequence = n + 1
  BY <1>0 DEF Numbered
<1> HIDE DEF p, q
<1>4. q = Append(p, r)
  <2>1. Append(p, r) \in Seq(Record) /\ Len(Append(p, r)) = n + 1
        /\ \A i \in 1..n : Append(p, r)[i] = p[i]
        /\ Append(p, r)[n + 1] = r
    BY <1>1, <1>3, AppendProperties
  <2>2. ASSUME NEW i \in 1..(n + 1) PROVE q[i] = Append(p, r)[i]
    <3>1. CASE i = n + 1
      BY <1>2, <2>1, <3>1
    <3>2. CASE i \in 1..n
      BY <1>1, <1>2, <2>1, <3>2
    <3>3. i = n + 1 \/ i \in 1..n
      OBVIOUS
    <3>4. QED BY <3>1, <3>2, <3>3
  <2> HIDE DEF r
  <2>3. Len(q) = Len(Append(p, r)) /\ \A i \in 1..Len(q) : q[i] = Append(p, r)[i]
    BY <1>2, <2>1, <2>2
  <2>4. QED BY <1>2, <2>1, <2>3, SeqEqual
<1>5. /\ t \in Seq(Record) /\ Len(t) \in Nat /\ Len(t) <= n
      /\ \A i \in 1..Len(t) : t[i] = p[(n - Len(t)) + i]
  <2>1. c \in Nat
    OBVIOUS
  <2>2. /\ t \in Seq(Record) /\ Len(t) = IF Len(p) <= c THEN Len(p) ELSE c
        /\ \A i \in 1..Len(t) : t[i] = p[(Len(p) - Len(t)) + i]
    <3>1. p \in Seq(Record)
      BY <1>1
    <3>2. QED BY <2>1, <3>1, LastOfProps
  <2> HIDE DEF t
  <2>3. Len(t) \in Nat /\ Len(t) <= n
    BY <1>1, <2>2
  <2>4. QED BY <1>1, <2>2, <2>3
<1> HIDE DEF t
<1>6. r.event \notin {x.event : x \in ToSet(t)}
  <2> SUFFICES ASSUME NEW x \in ToSet(t), r.event = x.event PROVE FALSE
    OBVIOUS
  <2>1. PICK i \in 1..Len(t) : x = t[i]
    BY <1>5 DEF ToSet
  <2>2. (n - Len(t)) + i \in 1..n
    BY <1>5
  <2>3. PICK k \in 1..n : x = all[k]
    BY <1>1, <1>5, <2>1, <2>2
  <2>4. k = n + 1
    <3>1. k \in 1..Len(all) /\ n + 1 \in 1..Len(all) /\ all[n + 1].event = all[k].event
      BY <1>0, <2>3
    <3> HIDE DEF r
    <3>2. QED BY <3>1 DEF Numbered
  <2>5. QED BY <2>3, <2>4
<1>7. LastOf(Append(t, r), c) = LastOf(q, c)
  <2> HIDE DEF r
  <2>1. QED BY <1>1, <1>3, <1>4, LastOfAppend DEF t
<1>8. WindowOf(p, c) = [sequence |-> n, tail |-> t, broken |-> FALSE]
  BY <1>1 DEF WindowOf, t
<1> HIDE DEF r
<1>9. CommitPersisted(WindowOf(p, c), r, c)
        = [sequence |-> r.sequence, tail |-> LastOf(Append(t, r), c), broken |-> FALSE]
  BY <1>3, <1>6, <1>8 DEF CommitPersisted
<1>10. QED BY <1>2, <1>3, <1>7, <1>9 DEF WindowOf, p, q, r

\* Wherever the commits of numbered records start, they end in the same window.
LEMMA WindowCommits ==
  ASSUME NEW s \in Seq(Record), NEW t \in Seq(Record), NEW c \in Nat \ {0},
         Numbered(AppliedRecords(s \o t))
  PROVE CommitAll(WindowOf(AppliedRecords(s), c), t, c) = WindowOf(AppliedRecords(s \o t), c)
<1> DEFINE a == AppliedRecords(s)
           d == AppliedRecords(t)
           all == AppliedRecords(s \o t)
           w == WindowOf(a, c)
<1>1. a \in Seq(Record) /\ d \in Seq(Record) /\ all = a \o d /\ all \in Seq(Record)
  <2>1. s \o t \in Seq(Record)
    BY ConcatProperties
  <2>2. QED BY <2>1, AppliedType, AppliedConcat
<1>2. w \in Replay
  <2>1. LastOf(a, c) \in Seq(Record) /\ Len(a) \in Nat
    <3>1. c \in Nat
      OBVIOUS
    <3> HIDE DEF a
    <3>2. QED BY <1>1, <3>1, LastOfProps, LenProperties
  <2>2. QED BY <2>1 DEF WindowOf, Replay
<1>3. PICK F : Commits(F, w, d, c) /\ CommitAll(w, t, c) = F[Len(d)]
  <2>1. c \in Nat
    OBVIOUS
  <2> HIDE DEF w
  <2>2. QED BY <1>2, <2>1, CommitFun
<1>4. Numbered(all)
  OBVIOUS
<1> HIDE DEF a, d, all
<1>5. /\ Len(a) \in Nat /\ Len(d) \in Nat /\ Len(all) = Len(a) + Len(d)
      /\ \A i \in 1..(Len(a) + Len(d)) : all[i] = IF i <= Len(a) THEN a[i] ELSE d[i - Len(a)]
  BY <1>1, ConcatProperties, LenProperties
<1>6. SubSeq(all, 1, Len(a)) = a
  <2>1. \A i \in 1..Len(a) : all[i] = a[i] /\ a[i] \in Record
    BY <1>1, <1>5, ElementOfSeq
  <2>2. /\ SubSeq(all, 1, Len(a)) \in Seq(Record) /\ Len(SubSeq(all, 1, Len(a))) = Len(a)
        /\ \A i \in 1..Len(a) : SubSeq(all, 1, Len(a))[i] = all[i]
    BY <1>5, <2>1, SubSeqProperties
  <2>3. QED BY <1>1, <2>1, <2>2, SeqEqual
<1>7. SubSeq(all, 1, Len(all)) = all
  BY <1>1, SubSeqFull
<1> DEFINE D == {n \in Nat : n <= Len(d) => F[n] = WindowOf(SubSeq(all, 1, Len(a) + n), c)}
<1>8. 0 \in D
  <2>1. Len(a) + 0 = Len(a) /\ F[0] = w
    BY <1>3, <1>5 DEF Commits
  <2>2. F[0] = WindowOf(SubSeq(all, 1, Len(a) + 0), c)
    BY <1>6, <2>1
  <2>3. QED BY <2>2
<1>9. ASSUME NEW n \in Nat, n \in D PROVE n + 1 \in D
  <2> SUFFICES ASSUME n + 1 <= Len(d) PROVE F[n + 1] = WindowOf(SubSeq(all, 1, Len(a) + (n + 1)), c)
    OBVIOUS
  <2>1. /\ n + 1 \in 1..Len(d) /\ (n + 1) - 1 = n
        /\ F[n] = WindowOf(SubSeq(all, 1, Len(a) + n), c)
    BY <1>5, <1>9
  <2>2. F[n + 1] = CommitPersisted(F[n], d[n + 1], c)
    BY <1>3, <2>1 DEF Commits
  <2>3. /\ Len(a) + n \in Nat /\ (Len(a) + n) + 1 <= Len(all)
        /\ (Len(a) + n) + 1 = Len(a) + (n + 1)
    BY <1>5, <2>1
  <2>4. d[n + 1] = all[(Len(a) + n) + 1]
    <3>1. /\ (Len(a) + n) + 1 \in 1..(Len(a) + Len(d)) /\ ~((Len(a) + n) + 1 <= Len(a))
          /\ ((Len(a) + n) + 1) - Len(a) = n + 1
      BY <1>5, <2>1
    <3>2. QED BY <1>5, <3>1
  <2> DEFINE m == Len(a) + n
  <2>5. m \in Nat /\ m + 1 <= Len(all)
    BY <2>3
  <2> HIDE DEF m
  <2>6. CommitPersisted(WindowOf(SubSeq(all, 1, m), c), all[m + 1], c) = WindowOf(SubSeq(all, 1, m + 1), c)
    BY <1>4, <2>5, WindowStep
  <2>7. QED BY <2>1, <2>2, <2>3, <2>4, <2>6 DEF m
<1> HIDE DEF D
<1>10. Len(d) \in D
  BY <1>5, <1>8, <1>9, NatSetInduction
<1>11. F[Len(d)] = WindowOf(SubSeq(all, 1, Len(a) + Len(d)), c)
  <2>1. Len(d) \in Nat /\ Len(d) <= Len(d)
    BY <1>5
  <2>2. QED BY <1>10, <2>1 DEF D
<1>12. F[Len(d)] = WindowOf(all, c)
  BY <1>5, <1>7, <1>11
<1>13. QED BY <1>3, <1>12 DEF a, all, w

-----------------------------------------------------------------------------
(* The sparse index                                                        *)

LEMMA IndexType ==
  ASSUME NEW entries \in Seq(Batch), NEW b \in Batch
  PROVE IndexBatch(entries, b) \in Seq(Batch)
<1>1. Append(entries, b) \in Seq(Batch)
  BY AppendProperties
<1>2. IndexBatch(entries, b) = Append(entries, b) \/ IndexBatch(entries, b) = entries
  BY DEF IndexBatch
<1>3. QED BY <1>1, <1>2

\* F is the index after each batch of the scan.
Scans(F, s) ==
    /\ F[0] = <<>>
    /\ \A i \in 1..Len(s) : F[i] = IndexBatch(F[i - 1], s[i])

LEMMA RebuildFun ==
  ASSUME NEW s \in Seq(Batch)
  PROVE \E F : Scans(F, s) /\ RebuildIndex(s) = F[Len(s)]
<1> DEFINE N == Len(s)
           S == Seq(Batch)
           base == <<>>
           step == [i \in 1..N |-> [q \in S |-> IndexBatch(q, s[i])]]
           Def(G) == [i \in 0..N |-> IF i = 0 THEN <<>> ELSE IndexBatch(G[i - 1], s[i])]
<1>1. N \in Nat /\ base \in S /\ \A i \in 1..N : s[i] \in Batch
  BY LenProperties, ElementOfSeq, EmptySeq
<1>2. RebuildIndex(s) = (CHOOSE G : G = Def(G))[N]
  BY DEF RebuildIndex
<1> HIDE DEF N
<1>3. step \in [1..N -> [S -> S]]
  BY <1>1, IndexType
<1>4. PICK f \in [0..N -> S] : f[0] = base /\ \A i \in 1..N : f[i] = step[i][f[i - 1]]
  <2>0. N \in Nat /\ base \in S /\ step \in [1..N -> [S -> S]]
    BY <1>1, <1>3
  <2> HIDE DEF step, S, base
  <2>1. \E f \in [0..N -> S] : f[0] = base /\ \A i \in 1..N : f[i] = step[i][f[i - 1]]
    BY <2>0, RecursionExists
  <2>2. QED BY <2>1
<1>5. \A i \in 1..N : f[i] = IndexBatch(f[i - 1], s[i])
  <2>1. \A i \in 1..N : f[i - 1] \in S
    BY <1>1
  <2>2. QED BY <1>4, <2>1
<1> HIDE DEF step
<1>6. \A G : /\ Def(G)[0] = <<>> /\ DOMAIN Def(G) = 0..N
             /\ \A i \in 1..N : Def(G)[i] = IndexBatch(G[i - 1], s[i])
  <2> SUFFICES ASSUME NEW G
               PROVE /\ Def(G)[0] = <<>> /\ DOMAIN Def(G) = 0..N
                     /\ \A i \in 1..N : Def(G)[i] = IndexBatch(G[i - 1], s[i])
    OBVIOUS
  <2>1. 0 \in 0..N /\ \A i \in 1..N : i \in 0..N /\ i # 0
    BY <1>1
  <2>2. Def(G)[0] = <<>> /\ DOMAIN Def(G) = 0..N
    BY <2>1
  <2>3. ASSUME NEW i \in 1..N PROVE Def(G)[i] = IndexBatch(G[i - 1], s[i])
    BY <2>1, Zenon
  <2>4. QED BY <2>2, <2>3
<1>7. f = Def(f)
  <2>1. \A i \in 0..N : f[i] = Def(f)[i]
    <3> SUFFICES ASSUME NEW i \in 0..N PROVE f[i] = Def(f)[i]
      OBVIOUS
    <3>1. CASE i = 0
      BY <1>4, <3>1
    <3>2. CASE i \in 1..N
      BY <1>5, <1>6, <3>2, Zenon
    <3>3. QED BY <1>1, <3>1, <3>2
  <2>2. QED BY <2>1
<1> DEFINE F == CHOOSE G : G = Def(G)
<1>8. F = Def(F)
  BY <1>7
<1>9. RebuildIndex(s) = F[N]
  BY <1>2
<1> HIDE DEF F
<1>10. F[0] = <<>> /\ \A i \in 1..N : F[i] = IndexBatch(F[i - 1], s[i])
  BY <1>6, <1>8, Zenon
<1>11. QED BY <1>9, <1>10 DEF Scans, N

LEMMA RebuildType ==
  ASSUME NEW s \in Seq(Batch) PROVE RebuildIndex(s) \in Seq(Batch)
<1>0. Len(s) \in Nat /\ \A i \in 1..Len(s) : s[i] \in Batch
  BY LenProperties, ElementOfSeq
<1>1. PICK F : Scans(F, s) /\ RebuildIndex(s) = F[Len(s)]
  BY RebuildFun
<1> DEFINE D == {n \in Nat : n <= Len(s) => F[n] \in Seq(Batch)}
<1>2. 0 \in D
  BY <1>1, EmptySeq DEF Scans
<1>3. ASSUME NEW n \in Nat, n \in D PROVE n + 1 \in D
  <2> SUFFICES ASSUME n + 1 <= Len(s) PROVE F[n + 1] \in Seq(Batch)
    OBVIOUS
  <2>1. n + 1 \in 1..Len(s) /\ (n + 1) - 1 = n /\ F[n] \in Seq(Batch) /\ s[n + 1] \in Batch
    BY <1>0, <1>3
  <2>2. F[n + 1] = IndexBatch(F[n], s[n + 1])
    BY <1>1, <2>1 DEF Scans
  <2>3. QED BY <2>1, <2>2, IndexType
<1> HIDE DEF D
<1>4. Len(s) \in D
  BY <1>0, <1>2, <1>3, NatSetInduction
<1>5. QED BY <1>0, <1>1, <1>4 DEF D

\* Scanning one more batch is indexing it, as the writer does when it appends it.
LEMMA RebuildAppend ==
  ASSUME NEW s \in Seq(Batch), NEW b \in Batch
  PROVE RebuildIndex(Append(s, b)) = IndexBatch(RebuildIndex(s), b)
<1> DEFINE t == Append(s, b)
<1>1. /\ t \in Seq(Batch) /\ Len(t) = Len(s) + 1 /\ Len(s) \in Nat /\ t[Len(s) + 1] = b
      /\ \A i \in 1..Len(s) : t[i] = s[i]
  BY AppendProperties, LenProperties
<1> HIDE DEF t
<1>2. PICK F : Scans(F, s) /\ RebuildIndex(s) = F[Len(s)]
  BY RebuildFun
<1>3. PICK G : Scans(G, t) /\ RebuildIndex(t) = G[Len(t)]
  BY <1>1, RebuildFun
<1> DEFINE D == {n \in Nat : n <= Len(s) => F[n] = G[n]}
<1>4. 0 \in D
  BY <1>2, <1>3 DEF Scans
<1>5. ASSUME NEW n \in Nat, n \in D PROVE n + 1 \in D
  <2> SUFFICES ASSUME n + 1 <= Len(s) PROVE F[n + 1] = G[n + 1]
    OBVIOUS
  <2>1. /\ n + 1 \in 1..Len(s) /\ n + 1 \in 1..Len(t) /\ (n + 1) - 1 = n /\ F[n] = G[n]
        /\ t[n + 1] = s[n + 1]
    BY <1>1, <1>5
  <2>2. F[n + 1] = IndexBatch(F[n], s[n + 1]) /\ G[n + 1] = IndexBatch(G[n], t[n + 1])
    BY <1>2, <1>3, <2>1 DEF Scans
  <2>3. QED BY <2>1, <2>2
<1> HIDE DEF D
<1>6. Len(s) \in D
  BY <1>1, <1>4, <1>5, NatSetInduction
<1>7. F[Len(s)] = G[Len(s)]
  BY <1>1, <1>6 DEF D
<1>8. G[Len(t)] = IndexBatch(G[Len(s)], b)
  <2>1. Len(t) \in 1..Len(t) /\ Len(t) - 1 = Len(s) /\ t[Len(t)] = b
    BY <1>1
  <2>2. QED BY <1>3, <2>1 DEF Scans
<1>9. QED BY <1>2, <1>3, <1>7, <1>8 DEF t

-----------------------------------------------------------------------------
(* The decisions of a frame                                                *)

\* The first occurrences in a frame of events not applied before
Fresh(seen, frame) ==
    {i \in DOMAIN frame : frame[i] \notin seen /\ \A j \in 1..(i - 1) : frame[j] # frame[i]}

LEMMA DecideType ==
  ASSUME NEW frame \in Seq(Events), NEW seen, NEW n \in Nat
  PROVE /\ Decide(seen, n, frame) \in Seq(Record)
        /\ Len(Decide(seen, n, frame)) = Len(frame)
        /\ \A i \in 1..Len(frame) :
              /\ Decide(seen, n, frame)[i].event = frame[i]
              /\ Decide(seen, n, frame)[i].sequence =
                    IF i \in Fresh(seen, frame)
                    THEN n + Cardinality(Fresh(seen, frame) \cap 1..i) ELSE 0
              /\ i \in Fresh(seen, frame) => Cardinality(Fresh(seen, frame) \cap 1..i) \in Nat \ {0}
<1> DEFINE fresh == Fresh(seen, frame)
           e(i) == [event |-> frame[i],
                    sequence |-> IF i \in fresh THEN n + Cardinality(fresh \cap 1..i) ELSE 0]
<1>1. Len(frame) \in Nat /\ DOMAIN frame = 1..Len(frame) /\ \A i \in 1..Len(frame) : frame[i] \in Events
  BY LenProperties, ElementOfSeq
<1>2. Decide(seen, n, frame) = [i \in 1..Len(frame) |-> e(i)]
  BY <1>1 DEF Decide, Fresh, NoSequence
<1>3. ASSUME NEW i \in Nat PROVE /\ IsFiniteSet(fresh \cap 1..i) /\ Cardinality(fresh \cap 1..i) \in Nat
                                 /\ i \in 1..Len(frame) /\ i \in fresh => Cardinality(fresh \cap 1..i) # 0
  <2>1. IsFiniteSet(1..i)
    BY FS_Interval
  <2>2. IsFiniteSet(fresh \cap 1..i)
    BY <2>1, FS_Subset
  <2>3. i \in 1..Len(frame) /\ i \in fresh => fresh \cap 1..i # {}
    OBVIOUS
  <2> HIDE DEF fresh
  <2>4. QED BY <2>2, <2>3, FS_CardinalityType, FS_EmptySet
<1> HIDE DEF fresh
<1> DEFINE card == [i \in 1..Len(frame) |-> Cardinality(fresh \cap 1..i)]
<1>4. \A i \in 1..Len(frame) : card[i] \in Nat /\ (i \in fresh => card[i] # 0)
  <2> SUFFICES ASSUME NEW i \in 1..Len(frame) PROVE card[i] \in Nat /\ (i \in fresh => card[i] # 0)
    OBVIOUS
  <2>1. i \in Nat
    BY <1>1
  <2>2. card[i] = Cardinality(fresh \cap 1..i)
    OBVIOUS
  <2>3. QED BY <1>3, <2>1, <2>2
<1>5. \A i \in 1..Len(frame) : Cardinality(fresh \cap 1..i) = card[i]
  OBVIOUS
<1> HIDE DEF card
<1>6. ASSUME NEW i \in 1..Len(frame) PROVE e(i) \in Record
  <2>1. e(i) = [event |-> frame[i], sequence |-> IF i \in fresh THEN n + card[i] ELSE 0]
    BY <1>5
  <2>2. n + card[i] \in Nat
    BY <1>4
  <2>3. QED BY <1>1, <2>1, <2>2 DEF Record
<1> DEFINE d == [i \in 1..Len(frame) |-> e(i)]
<1>7. d \in Seq(Record) /\ Len(d) = Len(frame)
  <2>1. d \in [1..Len(frame) -> Record]
    BY <1>6
  <2> HIDE DEF d
  <2>2. QED BY <1>1, <2>1
<1>8. \A i \in 1..Len(frame) : d[i] = e(i)
  OBVIOUS
<1>9. \A i \in 1..Len(frame) : /\ e(i).event = frame[i]
                               /\ e(i).sequence = IF i \in fresh THEN n + Cardinality(fresh \cap 1..i) ELSE 0
  OBVIOUS
<1> HIDE DEF d, e
<1>10. ASSUME NEW i \in 1..Len(frame)
       PROVE /\ d[i].event = frame[i]
             /\ d[i].sequence = IF i \in fresh THEN n + Cardinality(fresh \cap 1..i) ELSE 0
             /\ i \in fresh => Cardinality(fresh \cap 1..i) \in Nat \ {0}
  <2>1. /\ d[i].event = frame[i]
        /\ d[i].sequence = IF i \in fresh THEN n + Cardinality(fresh \cap 1..i) ELSE 0
    BY <1>8, <1>9
  <2>2. i \in fresh => Cardinality(fresh \cap 1..i) \in Nat \ {0}
    BY <1>4, <1>5
  <2>3. QED BY <2>1, <2>2
<1>11. Decide(seen, n, frame) = d
  BY <1>2 DEF d
<1>12. QED BY <1>7, <1>10, <1>11 DEF fresh

\* What is collected from the decisions of a frame, up to its n-th event: as many records
\* as fresh events, with the next public sequences.
Taken(q, seen, sequence, frame, n) ==
    /\ Len(q) = Cardinality(Fresh(seen, frame) \cap 1..n)
    /\ \A k \in 1..Len(q) : q[k].sequence = sequence + k
    /\ \A k \in 1..Len(q) : \E i \in Fresh(seen, frame) \cap 1..n : q[k].event = frame[i]
    /\ \A k, l \in 1..Len(q) : q[k].event = q[l].event => k = l

LEMMA DecideTakes ==
  ASSUME NEW frame \in Seq(Events), NEW seen, NEW sequence \in Nat
  PROVE /\ AppliedRecords(Decide(seen, sequence, frame)) \in Seq(Record)
        /\ Taken(AppliedRecords(Decide(seen, sequence, frame)), seen, sequence, frame, Len(frame))
<1> DEFINE d == Decide(seen, sequence, frame)
           fresh == Fresh(seen, frame)
<1>0. Len(frame) \in Nat /\ DOMAIN frame = 1..Len(frame)
  BY LenProperties
<1>1. /\ d \in Seq(Record) /\ Len(d) = Len(frame)
      /\ \A i \in 1..Len(frame) :
            /\ d[i].event = frame[i]
            /\ d[i].sequence = IF i \in fresh THEN sequence + Cardinality(fresh \cap 1..i) ELSE 0
            /\ i \in fresh => Cardinality(fresh \cap 1..i) \in Nat \ {0}
  BY DecideType
<1>2. fresh \subseteq 1..Len(frame) /\ \A i \in fresh : \A j \in 1..(i - 1) : frame[j] # frame[i]
  BY <1>0 DEF Fresh
<1> HIDE DEF d, fresh
<1>3. PICK F : Collects(F, Record, d, Committed) /\ Kept(d, Committed) = F[Len(d)]
  BY <1>1, KeptFun
<1>4. /\ F \in [0..Len(frame) -> Seq(Record)] /\ F[0] = <<>>
      /\ \A i \in 1..Len(frame) : F[i] = IF d[i] \in Committed THEN Append(F[i - 1], d[i]) ELSE F[i - 1]
  BY <1>1, <1>3 DEF Collects
<1>5. \A i \in 1..Len(frame) : d[i] \in Record /\ (d[i] \in Committed <=> i \in fresh)
  <2> SUFFICES ASSUME NEW i \in 1..Len(frame) PROVE d[i] \in Record /\ (d[i] \in Committed <=> i \in fresh)
    OBVIOUS
  <2>1. d[i] \in Record
    BY <1>1, ElementOfSeq
  <2>2. d[i] \in Committed <=> d[i].sequence # 0
    BY <2>1 DEF Committed, Applied, NoSequence
  <2>3. CASE i \in fresh
    <3>1. Cardinality(fresh \cap 1..i) \in Nat \ {0} /\ d[i].sequence = sequence + Cardinality(fresh \cap 1..i)
      BY <1>1, <2>3
    <3> DEFINE c == Cardinality(fresh \cap 1..i)
    <3> HIDE DEF c
    <3>2. c \in Nat \ {0} /\ d[i].sequence = sequence + c
      BY <3>1 DEF c
    <3>3. d[i].sequence # 0
      BY <3>2
    <3>4. QED BY <2>1, <2>2, <2>3, <3>3
  <2>4. CASE i \notin fresh
    BY <1>1, <2>1, <2>2, <2>4
  <2>5. QED BY <2>3, <2>4
<1> DEFINE T(n) == Taken(F[n], seen, sequence, frame, n)
           D == {n \in Nat : n <= Len(frame) => T(n)}
<1>6. 0 \in D
  <2>1. Len(<<>>) = 0 /\ fresh \cap 1..0 = {} /\ Cardinality({}) = 0
    BY FS_EmptySet
  <2>2. Taken(<<>>, seen, sequence, frame, 0)
    BY <2>1 DEF Taken, fresh
  <2>3. QED BY <1>4, <2>2
<1>7. ASSUME NEW n \in Nat, n \in D PROVE n + 1 \in D
  <2> SUFFICES ASSUME n + 1 <= Len(frame) PROVE T(n + 1)
    OBVIOUS
  <2> DEFINE q == F[n]
             r == d[n + 1]
  <2>0. /\ n + 1 \in 1..Len(frame) /\ (n + 1) - 1 = n /\ n \in 0..Len(frame) /\ T(n)
    BY <1>0, <1>7
  <2>1. q \in Seq(Record) /\ Len(q) \in Nat /\ r \in Record
    <3>1. q \in Seq(Record)
      BY <1>4, <2>0
    <3>2. QED BY <1>5, <2>0, <3>1, LenProperties
  <2>2. F[n + 1] = IF n + 1 \in fresh THEN Append(q, r) ELSE q
    <3>1. F[n + 1] = IF r \in Committed THEN Append(q, r) ELSE q
      BY <1>4, <2>0
    <3>2. r \in Committed <=> n + 1 \in fresh
      BY <1>5, <2>0
    <3>3. QED BY <3>1, <3>2
  <2>3. /\ Len(q) = Cardinality(fresh \cap 1..n)
        /\ \A k \in 1..Len(q) : q[k].sequence = sequence + k
        /\ \A k \in 1..Len(q) : \E i \in fresh \cap 1..n : q[k].event = frame[i]
        /\ \A k, l \in 1..Len(q) : q[k].event = q[l].event => k = l
    BY <2>0 DEF Taken, fresh
  <2>4. r.event = frame[n + 1] /\ (n + 1 \in fresh => r.sequence = sequence + Cardinality(fresh \cap 1..(n + 1)))
    BY <1>1, <2>0
  <2> HIDE DEF q, r, D
  <2>5. CASE n + 1 \in fresh
    <3> DEFINE u == Append(q, r)
    <3>1. /\ u \in Seq(Record) /\ Len(u) = Len(q) + 1 /\ u[Len(q) + 1] = r
          /\ \A k \in 1..Len(q) : u[k] = q[k]
      BY <2>1, AppendProperties
    <3> HIDE DEF u
    <3>2. Cardinality(fresh \cap 1..(n + 1)) = Len(q) + 1
      <4>1. fresh \cap 1..(n + 1) = (fresh \cap 1..n) \cup {n + 1} /\ n + 1 \notin fresh \cap 1..n
        BY <2>5
      <4>2. IsFiniteSet(1..n)
        BY FS_Interval
      <4>3. IsFiniteSet(fresh \cap 1..n)
        BY <4>2, FS_Subset
      <4>4. Cardinality((fresh \cap 1..n) \cup {n + 1}) = Cardinality(fresh \cap 1..n) + 1
        BY <4>1, <4>3, FS_AddElement
      <4>5. QED BY <2>3, <4>1, <4>4
    <3>3. r.sequence = sequence + (Len(q) + 1)
      BY <2>4, <2>5, <3>2
    <3>4. ASSUME NEW k \in 1..Len(u) PROVE k = Len(q) + 1 \/ k \in 1..Len(q)
      BY <2>1, <3>1
    <3>5. ASSUME NEW k \in 1..Len(u)
          PROVE u[k].sequence = sequence + k /\ \E i \in fresh \cap 1..(n + 1) : u[k].event = frame[i]
      <4>1. CASE k = Len(q) + 1
        BY <2>4, <2>5, <3>1, <3>3, <4>1
      <4>2. CASE k \in 1..Len(q)
        <5>1. PICK i \in fresh \cap 1..n : q[k].event = frame[i]
          BY <2>3, <4>2
        <5>2. i \in fresh \cap 1..(n + 1)
          OBVIOUS
        <5>3. u[k] = q[k]
          BY <3>1, <4>2
        <5>4. QED BY <2>3, <4>2, <5>1, <5>2, <5>3
      <4>3. QED BY <3>4, <4>1, <4>2
    <3>6. \A k \in 1..Len(q) : q[k].event # r.event
      <4> SUFFICES ASSUME NEW k \in 1..Len(q), q[k].event = r.event PROVE FALSE
        OBVIOUS
      <4>1. PICK i \in fresh \cap 1..n : q[k].event = frame[i]
        BY <2>3
      <4>2. i \in 1..((n + 1) - 1)
        BY <4>1
      <4>3. frame[i] # frame[n + 1]
        BY <1>2, <2>5, <4>2
      <4>4. QED BY <2>4, <4>1, <4>3
    <3>7. ASSUME NEW k \in 1..Len(u), NEW l \in 1..Len(u), u[k].event = u[l].event PROVE k = l
      <4>1. CASE k \in 1..Len(q) /\ l \in 1..Len(q)
        BY <2>3, <3>1, <3>7, <4>1
      <4>2. CASE k \in 1..Len(q) /\ l = Len(q) + 1
        BY <3>1, <3>6, <3>7, <4>2
      <4>3. CASE k = Len(q) + 1 /\ l \in 1..Len(q)
        BY <3>1, <3>6, <3>7, <4>3
      <4>4. QED BY <3>4, <4>1, <4>2, <4>3
    <3>8. Taken(u, seen, sequence, frame, n + 1)
      BY <3>1, <3>2, <3>5, <3>7 DEF Taken, fresh
    <3>9. F[n + 1] = u
      BY <2>2, <2>5 DEF u
    <3>10. QED BY <3>8, <3>9
  <2>6. CASE n + 1 \notin fresh
    <3>1. fresh \cap 1..(n + 1) = fresh \cap 1..n
      BY <2>6
    <3>2. Taken(q, seen, sequence, frame, n + 1)
      BY <2>3, <3>1 DEF Taken, fresh
    <3>3. F[n + 1] = q
      BY <2>2, <2>6
    <3>4. QED BY <3>2, <3>3
  <2>7. QED BY <2>5, <2>6
<1> HIDE DEF D
<1>8. Len(frame) \in D
  BY <1>0, <1>6, <1>7, NatSetInduction
<1>9. Len(frame) \in Nat /\ Len(frame) <= Len(frame) /\ Len(frame) \in 0..Len(frame)
  BY <1>0
<1>10. T(Len(frame))
  BY <1>8, <1>9 DEF D
<1>11. AppliedRecords(d) = F[Len(frame)]
  BY <1>1, <1>3 DEF AppliedRecords, Committed
<1>12. QED BY <1>4, <1>9, <1>10, <1>11 DEF d

\* A frame decided against the whole WAL keeps the numbering.
LEMMA DecideNumbers ==
  ASSUME NEW R \in Seq(Record), NEW frame \in Seq(Events), Numbered(AppliedRecords(R))
  PROVE LET d == Decide(AppliedIds(R), Len(AppliedRecords(R)), frame)
        IN  /\ d \in Seq(Record) /\ R \o d \in Seq(Record)
            /\ AppliedRecords(R \o d) = AppliedRecords(R) \o AppliedRecords(d)
            /\ AppliedRecords(d) \in Seq(Record)
            /\ Numbered(AppliedRecords(R \o d))
<1> DEFINE a == AppliedRecords(R)
           seen == AppliedIds(R)
           d == Decide(seen, Len(a), frame)
           b == AppliedRecords(d)
<1>1. a \in Seq(Record) /\ Len(a) \in Nat /\ DOMAIN a = 1..Len(a)
  BY AppliedType, LenProperties
<1>2. \A i \in 1..Len(a) : a[i].event \in seen
  BY <1>1 DEF AppliedIds, ToSet
<1>3. /\ \A i \in 1..Len(a) : a[i].sequence = i
      /\ \A i, j \in 1..Len(a) : a[i].event = a[j].event => i = j
  BY DEF Numbered
<1> HIDE DEF a, seen
<1>4. d \in Seq(Record)
  BY <1>1, DecideType
<1>5. b \in Seq(Record) /\ Taken(b, seen, Len(a), frame, Len(frame))
  BY <1>1, DecideTakes
<1>6. R \o d \in Seq(Record) /\ AppliedRecords(R \o d) = a \o b
  <2> HIDE DEF d
  <2>1. QED BY <1>4, AppliedConcat, ConcatProperties DEF a
<1> HIDE DEF d, b
<1>7. /\ Len(b) \in Nat
      /\ \A k \in 1..Len(b) : b[k].sequence = Len(a) + k /\ b[k].event \notin seen
      /\ \A k, l \in 1..Len(b) : b[k].event = b[l].event => k = l
  <2>1. Len(b) \in Nat
    BY <1>5, LenProperties
  <2>2. \A i \in Fresh(seen, frame) : frame[i] \notin seen
    BY DEF Fresh
  <2>3. QED BY <1>5, <2>1, <2>2 DEF Taken
<1> DEFINE all == a \o b
<1>8. /\ all \in Seq(Record) /\ Len(all) = Len(a) + Len(b)
      /\ \A i \in 1..(Len(a) + Len(b)) : all[i] = IF i <= Len(a) THEN a[i] ELSE b[i - Len(a)]
  BY <1>1, <1>5, ConcatProperties
<1> HIDE DEF all
<1>9. ASSUME NEW i \in 1..Len(all)
      PROVE \/ i \in 1..Len(a) /\ all[i] = a[i]
            \/ i - Len(a) \in 1..Len(b) /\ all[i] = b[i - Len(a)] /\ i = Len(a) + (i - Len(a))
  BY <1>1, <1>7, <1>8
<1>10. ASSUME NEW i \in 1..Len(all) PROVE all[i].sequence = i
  <2>1. CASE i \in 1..Len(a) /\ all[i] = a[i]
    BY <1>3, <2>1
  <2>2. CASE i - Len(a) \in 1..Len(b) /\ all[i] = b[i - Len(a)] /\ i = Len(a) + (i - Len(a))
    BY <1>7, <2>2
  <2>3. QED BY <1>9, <2>1, <2>2
<1>11. ASSUME NEW i \in 1..Len(all), NEW j \in 1..Len(all), all[i].event = all[j].event PROVE i = j
  <2>1. CASE i \in 1..Len(a) /\ all[i] = a[i] /\ j \in 1..Len(a) /\ all[j] = a[j]
    BY <1>3, <1>11, <2>1
  <2>2. CASE i \in 1..Len(a) /\ all[i] = a[i] /\ j - Len(a) \in 1..Len(b) /\ all[j] = b[j - Len(a)]
    BY <1>2, <1>7, <1>11, <2>2
  <2>3. CASE j \in 1..Len(a) /\ all[j] = a[j] /\ i - Len(a) \in 1..Len(b) /\ all[i] = b[i - Len(a)]
    BY <1>2, <1>7, <1>11, <2>3
  <2>4. CASE /\ i - Len(a) \in 1..Len(b) /\ all[i] = b[i - Len(a)] /\ i = Len(a) + (i - Len(a))
             /\ j - Len(a) \in 1..Len(b) /\ all[j] = b[j - Len(a)] /\ j = Len(a) + (j - Len(a))
    <3>1. i - Len(a) = j - Len(a)
      BY <1>7, <1>11, <2>4
    <3>2. QED BY <2>4, <3>1
  <2>5. QED BY <1>9, <2>1, <2>2, <2>3, <2>4
<1>12. Numbered(all)
  BY <1>8, <1>10, <1>11 DEF Numbered
<1>13. QED BY <1>4, <1>5, <1>6, <1>12 DEF a, seen, d, b, all

\* Appending decisions only adds applied records.
LEMMA ToSetConcat ==
  ASSUME NEW S, NEW a \in Seq(S), NEW b \in Seq(S)
  PROVE ToSet(a \o b) = ToSet(a) \cup ToSet(b)
<1>1. /\ Len(a) \in Nat /\ Len(b) \in Nat /\ Len(a \o b) = Len(a) + Len(b)
      /\ \A i \in 1..(Len(a) + Len(b)) : (a \o b)[i] = IF i <= Len(a) THEN a[i] ELSE b[i - Len(a)]
      /\ DOMAIN a = 1..Len(a) /\ DOMAIN b = 1..Len(b) /\ DOMAIN (a \o b) = 1..(Len(a) + Len(b))
  BY ConcatProperties, LenProperties
<1>2. \A x \in ToSet(a \o b) : x \in ToSet(a) \cup ToSet(b)
  <2> SUFFICES ASSUME NEW i \in 1..(Len(a) + Len(b)) PROVE (a \o b)[i] \in ToSet(a) \cup ToSet(b)
    BY <1>1 DEF ToSet
  <2>1. CASE i <= Len(a)
    <3>1. i \in 1..Len(a) /\ (a \o b)[i] = a[i]
      BY <1>1, <2>1
    <3>2. QED BY <1>1, <3>1 DEF ToSet
  <2>2. CASE ~(i <= Len(a))
    <3>1. i - Len(a) \in 1..Len(b) /\ (a \o b)[i] = b[i - Len(a)]
      BY <1>1, <2>2
    <3>2. QED BY <1>1, <3>1 DEF ToSet
  <2>3. QED BY <2>1, <2>2
<1>3. \A x \in ToSet(a) : x \in ToSet(a \o b)
  <2> SUFFICES ASSUME NEW i \in 1..Len(a) PROVE a[i] \in ToSet(a \o b)
    BY <1>1 DEF ToSet
  <2>1. i \in 1..(Len(a) + Len(b)) /\ (a \o b)[i] = a[i]
    BY <1>1
  <2>2. QED BY <1>1, <2>1 DEF ToSet
<1>4. \A x \in ToSet(b) : x \in ToSet(a \o b)
  <2> SUFFICES ASSUME NEW i \in 1..Len(b) PROVE b[i] \in ToSet(a \o b)
    BY <1>1 DEF ToSet
  <2>1. Len(a) + i \in 1..(Len(a) + Len(b)) /\ ~(Len(a) + i <= Len(a)) /\ (Len(a) + i) - Len(a) = i
    BY <1>1
  <2>2. (a \o b)[Len(a) + i] = b[i]
    BY <1>1, <2>1
  <2>3. QED BY <1>1, <2>1, <2>2 DEF ToSet
<1>5. QED BY <1>2, <1>3, <1>4

-----------------------------------------------------------------------------
(* Recovery                                                                *)

LEMMA NumberedPrefix ==
  ASSUME NEW a \in Seq(Record), NEW b \in Seq(Record), Numbered(a \o b)
  PROVE Numbered(a)
<1>1. /\ Len(a) \in Nat /\ Len(b) \in Nat /\ Len(a \o b) = Len(a) + Len(b)
      /\ \A i \in 1..(Len(a) + Len(b)) : (a \o b)[i] = IF i <= Len(a) THEN a[i] ELSE b[i - Len(a)]
  BY ConcatProperties, LenProperties
<1>2. \A i \in 1..Len(a) : i \in 1..Len(a \o b) /\ (a \o b)[i] = a[i]
  BY <1>1
<1> DEFINE all == a \o b
<1> HIDE DEF all
<1>3. \A i \in 1..Len(a) : i \in 1..Len(all) /\ all[i] = a[i]
  BY <1>2 DEF all
<1>4. Numbered(all)
  BY DEF all
<1>5. QED BY <1>3, <1>4 DEF Numbered

LEMMA WindowType ==
  ASSUME NEW a \in Seq(Record), NEW c \in Nat
  PROVE WindowOf(a, c) \in Replay /\ ToSet(WindowOf(a, c).tail) \subseteq ToSet(a)
<1> DEFINE t == LastOf(a, c)
<1>1. /\ t \in Seq(Record) /\ Len(t) = IF Len(a) <= c THEN Len(a) ELSE c
      /\ \A i \in 1..Len(t) : t[i] = a[(Len(a) - Len(t)) + i]
  BY LastOfProps
<1> HIDE DEF t
<1>2. /\ Len(a) \in Nat /\ DOMAIN a = 1..Len(a) /\ DOMAIN t = 1..Len(t) /\ Len(t) \in Nat
  BY <1>1, LenProperties
<1>3. Len(t) <= Len(a)
  BY <1>1, <1>2
<1>4. \A i \in 1..Len(t) : (Len(a) - Len(t)) + i \in 1..Len(a)
  BY <1>2, <1>3
<1>5. ToSet(t) \subseteq ToSet(a)
  BY <1>1, <1>2, <1>4 DEF ToSet
<1>6. WindowOf(a, c) = [sequence |-> Len(a), tail |-> t, broken |-> FALSE]
  BY DEF WindowOf, t
<1>7. QED BY <1>1, <1>2, <1>5, <1>6 DEF Replay

\* However a process recovers, from the current or the previous checkpoint and the records
\* after it or from the whole WAL, it refuses or has the window of the whole WAL.
LEMMA RecoverWindow ==
  ASSUME NEW R \in Seq(Record), Numbered(AppliedRecords(R)), NEW c \in Nat \ {0},
         NEW entries, NEW cur, NEW prev,
         Readable(cur) => cur.cursor \in Nat, Readable(prev) => prev.cursor \in Nat,
         ~ RecoverReplay(R, entries, c, cur, prev).broken
  PROVE RecoverReplay(R, entries, c, cur, prev) = WindowOf(AppliedRecords(R), c)
<1> DEFINE ck == SelectedCheckpoint(cur, prev, c)
<1>0. c \in Nat /\ Len(R) \in Nat
  BY LenProperties
<1>1. ck = Absent \/ (ck.capacity = c /\ ck.cursor \in Nat)
  BY DEF SelectedCheckpoint
<1>2. CASE ck = Absent
  <2>1. RecoverReplay(R, entries, c, cur, prev) = CommitAll(EmptyReplay, R, c)
    BY <1>2 DEF RecoverReplay
  <2>2. LastOf(<<>>, c) = <<>>
    BY <1>0 DEF LastOf
  <2>3. EmptyReplay = WindowOf(AppliedRecords(<<>>), c)
    BY <2>2, AppliedEmpty DEF WindowOf, EmptyReplay
  <2>4. <<>> \in Seq(Record) /\ <<>> \o R = R
    BY ConcatEmptySeq, EmptySeq
  <2>5. Numbered(AppliedRecords(<<>> \o R))
    BY <2>4
  <2>6. CommitAll(WindowOf(AppliedRecords(<<>>), c), R, c) = WindowOf(AppliedRecords(<<>> \o R), c)
    BY <2>4, <2>5, WindowCommits
  <2>7. QED BY <2>1, <2>3, <2>4, <2>6
<1>3. CASE ck # Absent /\ ~ CheckpointMatches(ck, R, entries)
  <2>1. RecoverReplay(R, entries, c, cur, prev) = [EmptyReplay EXCEPT !.broken = TRUE]
    BY <1>3 DEF RecoverReplay
  <2>2. [EmptyReplay EXCEPT !.broken = TRUE].broken
    BY DEF EmptyReplay
  <2>3. QED BY <2>1, <2>2
<1>4. CASE ck # Absent /\ CheckpointMatches(ck, R, entries)
  <2> DEFINE n == ck.cursor
             s == SubSeq(R, 1, n)
             t == SubSeq(R, n + 1, Len(R))
             a == AppliedRecords(s)
             w == [sequence |-> ck.sequence, tail |-> ck.tail, broken |-> ~ Restorable(ck)]
  <2>1. /\ n \in Nat /\ n <= Len(R) /\ ck.capacity = c
        /\ ck.sequence = LastSequence(a) /\ ck.tail = LastOf(a, c)
    BY <1>1, <1>4 DEF CheckpointMatches
  <2>2. RecoverReplay(R, entries, c, cur, prev) = CommitAll(w, t, c)
    BY <1>4 DEF RecoverReplay
  <2>3. s \in Seq(Record) /\ t \in Seq(Record) /\ s \o t = R
    <3> HIDE DEF n
    <3>1. \A i \in 1..Len(R) : R[i] \in Record
      BY ElementOfSeq
    <3>2. (\A i \in 1..n : R[i] \in Record) /\ (\A i \in (n + 1)..Len(R) : R[i] \in Record)
      BY <1>0, <2>1, <3>1
    <3>3. s \in Seq(Record)
      BY <2>1, <3>2, SubSeqProperties
    <3>4. t \in Seq(Record)
      BY <1>0, <2>1, <3>2, SubSeqProperties
    <3>5. 1 \in 1..(Len(R) + 1) /\ n \in (1 - 1)..Len(R) /\ Len(R) \in n..Len(R)
      BY <1>0, <2>1
    <3>6. SubSeq(R, 1, n) \o SubSeq(R, n + 1, Len(R)) = SubSeq(R, 1, Len(R))
      BY <3>5, ConcatAdjacentSubSeq
    <3>7. QED BY <3>3, <3>4, <3>6, SubSeqFull
  <2> HIDE DEF n, s, t
  <2>4. a \in Seq(Record) /\ Numbered(a) /\ Len(a) \in Nat
    <3>1. AppliedRecords(s) \in Seq(Record) /\ AppliedRecords(t) \in Seq(Record)
      BY <2>3, AppliedType
    <3>2. Numbered(AppliedRecords(s) \o AppliedRecords(t))
      BY <2>3, AppliedConcat
    <3>3. QED BY <3>1, <3>2, NumberedPrefix, LenProperties
  <2> HIDE DEF a
  <2>5. LastSequence(a) = Len(a)
    <3>1. CASE a = <<>>
      BY <3>1 DEF LastSequence
    <3>2. CASE a # <<>>
      <4>1. Len(a) \in 1..Len(a)
        BY <2>4, <3>2, EmptySeq
      <4>2. QED BY <2>4, <3>2, <4>1 DEF LastSequence, Last, Numbered
    <3>3. QED BY <3>1, <3>2
  <2>6. LastOf(a, c) \in Seq(Record)
    BY <1>0, <2>4, LastOfProps
  <2>7. w \in Replay
    BY <2>1, <2>4, <2>5, <2>6 DEF Replay
  <2>8. ~ w.broken
    <3> SUFFICES ASSUME w.broken PROVE FALSE
      OBVIOUS
    <3> HIDE DEF w
    <3>1. CommitAll(w, t, c).broken
      BY <1>0, <2>3, <2>7, BrokenStays
    <3>2. QED BY <2>2, <3>1
  <2>9. w = WindowOf(a, c)
    BY <2>1, <2>5, <2>8 DEF WindowOf
  <2>10. CommitAll(WindowOf(AppliedRecords(s), c), t, c) = WindowOf(AppliedRecords(s \o t), c)
    BY <2>3, WindowCommits
  <2>11. QED BY <2>2, <2>3, <2>9, <2>10 DEF a
<1>5. QED BY <1>2, <1>3, <1>4

-----------------------------------------------------------------------------
(* The parts of an append                                                  *)

\* Batches of a segment; Position counts those of the last one.
Count(batches, segment) == Cardinality({i \in DOMAIN batches : batches[i].segment = segment})

LEMMA CountAppend ==
  ASSUME NEW b \in Seq(Batch), NEW x \in Batch, NEW g
  PROVE /\ Count(b, g) \in Nat
        /\ x.segment = g => Count(Append(b, x), g) = Count(b, g) + 1
        /\ (\A i \in 1..Len(b) : b[i].segment # g) => Count(b, g) = 0
<1> DEFINE T == {i \in DOMAIN b : b[i].segment = g}
           c == Append(b, x)
           U == {i \in DOMAIN c : c[i].segment = g}
<1>1. /\ Len(b) \in Nat /\ DOMAIN b = 1..Len(b) /\ Len(c) = Len(b) + 1 /\ DOMAIN c = 1..(Len(b) + 1)
      /\ c[Len(b) + 1] = x /\ \A i \in 1..Len(b) : c[i] = b[i]
  <2>1. c \in Seq(Batch)
    BY AppendProperties
  <2>2. DOMAIN c = 1..Len(c)
    BY <2>1, LenProperties
  <2>3. QED BY <2>2, AppendProperties, LenProperties
<1>2. IsFiniteSet(T)
  <2>1. T \subseteq 1..Len(b) /\ IsFiniteSet(1..Len(b))
    BY <1>1, FS_Interval
  <2>2. QED BY <2>1, FS_Subset
<1>3. Cardinality(T) \in Nat
  BY <1>2, FS_CardinalityType
<1>4. ASSUME x.segment = g PROVE Cardinality(U) = Cardinality(T) + 1
  <2>1. Len(b) + 1 \notin T
    BY <1>1
  <2>2. U = T \cup {Len(b) + 1}
    <3> HIDE DEF c
    <3>1. \A i \in U : i \in T \cup {Len(b) + 1}
      BY <1>1
    <3>2. \A i \in T \cup {Len(b) + 1} : i \in U
      BY <1>1, <1>4
    <3>3. QED BY <3>1, <3>2
  <2> HIDE DEF T, U
  <2>3. QED BY <1>2, <2>1, <2>2, FS_AddElement
<1>5. ASSUME \A i \in 1..Len(b) : b[i].segment # g PROVE Cardinality(T) = 0
  <2>1. T = {}
    BY <1>1, <1>5
  <2> HIDE DEF T
  <2>2. QED BY <2>1, FS_EmptySet
<1>6. QED BY <1>3, <1>4, <1>5 DEF Count

LEMMA PositionIsCount == Position = Count(wal.batches, wal.segments)
BY DEF Position, Count

LEMMA FrameType ==
  ASSUME NEW frame \in Frames PROVE frame \in Seq(Events) /\ Len(frame) \in Nat
<1>1. PICK n \in 1..MaxFrame : frame \in [1..n -> Events]
  BY DEF Frames
<1>2. n \in Nat
  BY FrameAssumption
<1>3. frame \in Seq(Events)
  BY <1>1, <1>2
<1>4. QED BY <1>3, LenProperties

\* The batch the writer places, and what it decides.
LEMMA PlacedFacts ==
  ASSUME IInv, owner = "running", NEW frame \in Frames, NEW full \in BOOLEAN
  PROVE /\ Placed(frame, full) \in Batch
        /\ Placed(frame, full).segment \in {wal.segments, wal.segments + 1}
        /\ Placed(frame, full).offset = Count(wal.batches, Placed(frame, full).segment)
<1>1. /\ mem \in Memory /\ wal \in Wal /\ mem.segment = wal.segments /\ mem.offset = Position
      /\ \A i \in 1..Len(wal.batches) : wal.batches[i].segment <= wal.segments
  BY DEF IInv, Types, WritingOK, WalOK
<1>2. /\ wal.segments \in Nat /\ mem.offset \in Nat /\ Len(mem.records) \in Nat /\ Len(frame) \in Nat
      /\ wal.batches \in Seq(Batch)
  <2>1. mem.records \in Seq(Record)
    BY <1>1 DEF Memory
  <2>2. QED BY <1>1, <2>1, FrameType, LenProperties DEF Memory, Wal
<1>3. Placed(frame, full) = [segment |-> IF Rotates(full) THEN wal.segments + 1 ELSE wal.segments,
                             offset  |-> IF Rotates(full) THEN 0 ELSE mem.offset,
                             first   |-> Len(mem.records) + 1,
                             last    |-> Len(mem.records) + Len(frame)]
  BY <1>1 DEF Placed
<1>4. CASE Rotates(full)
  <2> DEFINE g == wal.segments + 1
  <2>1. \A i \in 1..Len(wal.batches) : wal.batches[i].segment # g
    <3>0. \A i \in 1..Len(wal.batches) : wal.batches[i] \in Batch
      BY <1>2, ElementOfSeq
    <3>1. \A i \in 1..Len(wal.batches) : wal.batches[i].segment \in Nat
      BY <3>0 DEF Batch
    <3>2. QED BY <1>1, <1>2, <3>1
  <2>2. PICK x : x \in Batch
    <3>1. [segment |-> 0, offset |-> 0, first |-> 0, last |-> 0] \in Batch
      BY DEF Batch
    <3>2. QED BY <3>1
  <2>3. Count(wal.batches, g) = 0
    <3> HIDE DEF g
    <3>1. QED BY <1>2, <2>1, <2>2, CountAppend
  <2>4. QED BY <1>2, <1>3, <1>4, <2>3 DEF Batch
<1>5. CASE ~ Rotates(full)
  <2>1. mem.offset = Count(wal.batches, wal.segments)
    BY <1>1, PositionIsCount
  <2>2. QED BY <1>2, <1>3, <1>5, <2>1 DEF Batch
<1>6. QED BY <1>4, <1>5

LEMMA DecisionFacts ==
  ASSUME IInv, owner = "running", NEW frame \in Frames
  PROVE /\ Decisions(frame) \in Seq(Record)
        /\ wal.records \in Seq(Record) /\ wal.records \o Decisions(frame) \in Seq(Record)
        /\ AppliedRecords(Decisions(frame)) \in Seq(Record)
        /\ AppliedRecords(wal.records \o Decisions(frame))
             = AppliedRecords(wal.records) \o AppliedRecords(Decisions(frame))
        /\ Numbered(AppliedRecords(wal.records \o Decisions(frame)))
        /\ ToSet(AppliedRecords(wal.records \o Decisions(frame)))
             = ToSet(AppliedRecords(wal.records)) \cup ToSet(AppliedRecords(Decisions(frame)))
<1>1. /\ wal.records \in Seq(Record) /\ mem.records = wal.records
      /\ Numbered(AppliedRecords(wal.records))
      /\ mem.replay = WindowOf(AppliedRecords(mem.records), mem.capacity)
  BY DEF IInv, Types, Wal, WritingOK, WalOK, ServedOK, Up
<1>2. mem.replay.sequence = Len(AppliedRecords(wal.records))
  BY <1>1 DEF WindowOf
<1>3. Decisions(frame) = Decide(AppliedIds(wal.records), Len(AppliedRecords(wal.records)), frame)
  BY <1>1, <1>2 DEF Decisions
<1>4. PICK R \in Seq(Record) : R = wal.records
  BY <1>1
<1>5. frame \in Seq(Events) /\ Numbered(AppliedRecords(R))
  BY <1>1, <1>4, FrameType
<1> DEFINE d == Decide(AppliedIds(R), Len(AppliedRecords(R)), frame)
<1>6. /\ d \in Seq(Record) /\ R \o d \in Seq(Record)
      /\ AppliedRecords(R \o d) = AppliedRecords(R) \o AppliedRecords(d)
      /\ AppliedRecords(d) \in Seq(Record)
      /\ Numbered(AppliedRecords(R \o d))
  BY <1>5, DecideNumbers
<1> HIDE DEF d
<1>7. ToSet(AppliedRecords(R \o d)) = ToSet(AppliedRecords(R)) \cup ToSet(AppliedRecords(d))
  BY <1>6, AppliedType, ToSetConcat
<1>8. Decisions(frame) = d
  BY <1>3, <1>4 DEF d
<1>9. QED BY <1>4, <1>6, <1>7, <1>8

\* Wherever an append stops, the WAL stays numbered and keeps what it had.
LEMMA WrittenOK ==
  ASSUME IInv, owner = "running", NEW frame \in Frames, NEW full \in BOOLEAN,
         NEW part \in {"none", "header", "torn", "batch"}
  PROVE LET W == Written(frame, full, part)
        IN  /\ W \in Wal /\ Numbered(AppliedRecords(W.records))
            /\ \A i \in 1..Len(W.batches) : W.batches[i].segment <= W.segments
            /\ ToSet(AppliedRecords(wal.records)) \subseteq ToSet(AppliedRecords(W.records))
<1> DEFINE W == Written(frame, full, part)
           x == Placed(frame, full)
           d == Decisions(frame)
<1>1. /\ wal \in Wal /\ Numbered(AppliedRecords(wal.records))
      /\ \A i \in 1..Len(wal.batches) : wal.batches[i].segment <= wal.segments
  BY DEF IInv, Types, WalOK
<1>2. /\ x \in Batch /\ x.segment \in {wal.segments, wal.segments + 1}
      /\ x.segment \in Nat /\ wal.segments \in Nat /\ wal.batches \in Seq(Batch)
  BY <1>1, PlacedFacts DEF Batch, Wal
<1>3. \A i \in 1..Len(wal.batches) : wal.batches[i].segment \in Nat /\ wal.batches[i].segment <= x.segment
  <2>1. \A i \in 1..Len(wal.batches) : wal.batches[i] \in Batch
    BY <1>2, ElementOfSeq
  <2>2. \A i \in 1..Len(wal.batches) : wal.batches[i].segment \in Nat
    BY <2>1 DEF Batch
  <2> HIDE DEF x
  <2>3. QED BY <1>1, <1>2, <2>2
<1> HIDE DEF x
<1>4. CASE part = "none"
  <2>1. W = wal
    BY <1>4 DEF Written
  <2>2. QED BY <1>1, <2>1
<1>5. CASE part = "header"
  <2>1. W = [wal EXCEPT !.segments = x.segment]
    BY <1>5 DEF Written, x
  <2>2. W \in Wal /\ W.records = wal.records /\ W.batches = wal.batches /\ W.segments = x.segment
    BY <1>1, <1>2, <2>1 DEF Wal
  <2> HIDE DEF W
  <2>3. QED BY <1>1, <1>3, <2>2 DEF W
<1>6. CASE part = "torn"
  <2>1. W = [wal EXCEPT !.torn = TRUE]
    BY <1>6 DEF Written
  <2>2. W \in Wal /\ W.records = wal.records /\ W.batches = wal.batches /\ W.segments = wal.segments
    BY <1>1, <2>1 DEF Wal
  <2> HIDE DEF W
  <2>3. QED BY <1>1, <2>2 DEF W
<1>7. CASE part = "batch"
  <2>1. W = [records  |-> wal.records \o d, batches |-> Append(wal.batches, x),
             segments |-> x.segment, torn |-> FALSE]
    BY <1>7 DEF Written, x
  <2>2. /\ wal.records \o d \in Seq(Record) /\ Numbered(AppliedRecords(wal.records \o d))
        /\ ToSet(AppliedRecords(wal.records)) \subseteq ToSet(AppliedRecords(wal.records \o d))
    BY DecisionFacts
  <2>3. /\ Append(wal.batches, x) \in Seq(Batch) /\ Len(Append(wal.batches, x)) = Len(wal.batches) + 1
        /\ \A i \in 1..Len(wal.batches) : Append(wal.batches, x)[i] = wal.batches[i]
        /\ Append(wal.batches, x)[Len(wal.batches) + 1] = x /\ Len(wal.batches) \in Nat
    BY <1>2, AppendProperties, LenProperties
  <2> DEFINE B == Append(wal.batches, x)
             R == wal.records \o d
  <2>4. \A i \in 1..Len(B) : B[i].segment <= x.segment
    <3> HIDE DEF B
    <3>1. /\ Len(B) = Len(wal.batches) + 1 /\ Len(wal.batches) \in Nat
          /\ \A i \in 1..Len(wal.batches) : B[i] = wal.batches[i]
          /\ B[Len(wal.batches) + 1] = x
      BY <2>3 DEF B
    <3> SUFFICES ASSUME NEW i \in 1..Len(B) PROVE B[i].segment <= x.segment
      OBVIOUS
    <3>2. CASE i = Len(wal.batches) + 1
      <4>1. B[i] = x
        BY <3>1, <3>2
      <4>2. x.segment <= x.segment
        BY <1>2
      <4>3. QED BY <4>1, <4>2
    <3>3. CASE i \in 1..Len(wal.batches)
      <4>1. B[i] = wal.batches[i] /\ wal.batches[i].segment <= x.segment
        BY <1>3, <3>1, <3>3
      <4>2. QED BY <4>1
    <3>4. QED BY <3>1, <3>2, <3>3
  <2>5. B \in Seq(Batch) /\ R \in Seq(Record)
    BY <2>2, <2>3
  <2> HIDE DEF B, R, d, W
  <2>6. W = [records |-> R, batches |-> B, segments |-> x.segment, torn |-> FALSE]
    BY <2>1 DEF B, R
  <2>7. W \in Wal
    BY <1>2, <2>5, <2>6 DEF Wal
  <2>8. W.records = R /\ W.batches = B /\ W.segments = x.segment
    BY <2>6
  <2>9. QED BY <2>2, <2>4, <2>7, <2>8 DEF W, R
<1>8. QED BY <1>4, <1>5, <1>6, <1>7

-----------------------------------------------------------------------------
(* The invariant is inductive                                              *)

LEMMA InitIInv == Init => IInv
<1> SUFFICES ASSUME Init PROVE IInv
  OBVIOUS
<1>1. <<>> \in Seq(Record) /\ <<>> \in Seq(Batch) /\ Len(<<>>) = 0 /\ DOMAIN <<>> = {}
  BY EmptySeq, LenProperties
<1>2. Types
  <2>1. wal \in Wal
    BY <1>1 DEF Init, Wal
  <2>2. EmptyReplay \in Replay
    BY <1>1 DEF EmptyReplay, Replay
  <2>3. mem \in Memory
    BY <1>1, <2>2 DEF Init, NoMemory, Memory
  <2>4. QED BY <2>1, <2>3 DEF Init, Types
<1>3. WalOK
  <2>1. wal.records = <<>> /\ wal.batches = <<>> /\ published = {} /\ AppliedRecords(wal.records) = <<>>
    BY AppliedEmpty DEF Init
  <2>2. Numbered(<<>>)
    BY <1>1 DEF Numbered
  <2>3. \A i \in 1..Len(wal.batches) : wal.batches[i].segment <= wal.segments
    BY <1>1, <2>1
  <2>4. QED BY <2>1, <2>2, <2>3 DEF WalOK
<1>4. FilesOK
  BY DEF Init, FilesOK, Readable
<1>5. ServedOK /\ WritingOK
  BY DEF Init, ServedOK, WritingOK, Up
<1>6. QED BY <1>2, <1>3, <1>4, <1>5 DEF IInv

LEMMA NoMemoryType == NoMemory \in Memory
<1>1. <<>> \in Seq(Record) /\ <<>> \in Seq(Batch)
  BY EmptySeq
<1>2. EmptyReplay \in Replay
  BY <1>1 DEF EmptyReplay, Replay
<1>3. QED BY <1>1, <1>2 DEF NoMemory, Memory

\* A process that is down or refused has nothing to keep.
LEMMA Idle ==
  ASSUME owner' \in {"down", "refused"} PROVE ServedOK' /\ WritingOK'
BY DEF ServedOK, WritingOK, Up

\* An index that is reported healthy was written.
LEMMA IndexWriteFacts ==
  ASSUME NEW entries, NEW write \in IndexInstalls(entries) \cup IndexWrites(entries)
  PROVE write.healthy \in BOOLEAN /\ (write.healthy => write.file = entries)
<1> DEFINE good == [file |-> entries, healthy |-> TRUE]
           late == [file |-> entries, healthy |-> FALSE]
           lost == [file |-> indexFile, healthy |-> FALSE]
<1>1. write \in {good, late, lost}
  BY Zenon DEF IndexInstalls, IndexWrites
<1>2. /\ good.healthy = TRUE /\ good.file = entries
      /\ late.healthy = FALSE /\ lost.healthy = FALSE
  OBVIOUS
<1> HIDE DEF good, late, lost
<1>3. QED BY <1>1, <1>2

LEMMA OpenStep ==
  ASSUME IInv, NEW capacity \in Capacities, Open(capacity) PROVE IInv'
<1> DEFINE entries == RebuildIndex(wal.batches)
           replay == RecoverReplay(wal.records, entries, capacity, current, previous)
<1>0. /\ wal \in Wal /\ mem \in Memory /\ wal.records \in Seq(Record) /\ wal.batches \in Seq(Batch)
      /\ Numbered(AppliedRecords(wal.records)) /\ capacity \in Nat \ {0}
      /\ published \subseteq ToSet(AppliedRecords(wal.records))
  BY CapacityAssumption DEF IInv, Types, WalOK, Wal
<1>1. UNCHANGED <<wal, current, previous>>
  BY DEF Open
<1>2. FilesOK'
  BY <1>1 DEF IInv, FilesOK
<1>3. CASE owner' = "refused" /\ UNCHANGED <<mem, published>>
  <2>1. Types' /\ WalOK'
    BY <1>1, <1>3 DEF IInv, Types, WalOK
  <2>2. ServedOK' /\ WritingOK'
    BY <1>3, Idle
  <2>3. QED BY <1>2, <2>1, <2>2 DEF IInv
<1>4. ASSUME NEW write \in IndexInstalls(entries), ~ replay.broken,
             owner' = "running", indexFile' = write.file,
             mem' = [records |-> wal.records, index |-> entries,
                     segment |-> wal.segments, offset |-> Position,
                     replay |-> replay, capacity |-> capacity,
                     healthy |-> write.healthy],
             published' = published \cup Shown(replay)
      PROVE IInv'
  <2> DEFINE a == AppliedRecords(wal.records)
  <2>1. replay = WindowOf(a, capacity)
    <3>1. (Readable(current) => current.cursor \in Nat) /\ (Readable(previous) => previous.cursor \in Nat)
      BY DEF IInv, FilesOK
    <3>2. QED BY <1>0, <1>4, <3>1, RecoverWindow
  <2>2. a \in Seq(Record) /\ capacity \in Nat
    BY <1>0, AppliedType
  <2>3. replay \in Replay /\ Shown(replay) \subseteq ToSet(a)
    <3> HIDE DEF a, replay
    <3>1. QED BY <2>1, <2>2, WindowType DEF Shown
  <2>4. entries \in Seq(Batch)
    BY <1>0, RebuildType
  <2>5. Position \in Nat /\ wal.segments \in Nat
    <3>1. PICK x : x \in Batch
      <4>1. [segment |-> 0, offset |-> 0, first |-> 0, last |-> 0] \in Batch
        BY DEF Batch
      <4>2. QED BY <4>1
    <3>2. QED BY <1>0, <3>1, CountAppend, PositionIsCount DEF Wal
  <2>6. write.healthy \in BOOLEAN /\ (write.healthy => write.file = entries)
    <3> HIDE DEF entries
    <3>1. QED BY IndexWriteFacts
  <2> HIDE DEF entries, replay
  <2>7. mem' \in Memory
    BY <1>0, <1>4, <2>2, <2>3, <2>4, <2>5, <2>6 DEF Memory
  <2>8. Types'
    BY <1>0, <1>1, <1>4, <2>7 DEF Types
  <2>9. published' \subseteq ToSet(a)
    BY <1>0, <1>4, <2>3
  <2>10. WalOK'
    BY <1>1, <2>9 DEF IInv, WalOK
  <2>11. /\ mem'.records = wal.records /\ mem'.index = entries /\ mem'.segment = wal.segments
         /\ mem'.offset = Position /\ mem'.replay = replay /\ mem'.capacity = capacity
         /\ mem'.healthy = write.healthy
    BY <1>4
  <2>12. ServedOK'
    BY <1>0, <2>1, <2>9, <2>11 DEF ServedOK
  <2>13. Position' = Position
    BY <1>1 DEF Position
  <2>14. WritingOK'
    BY <1>1, <1>4, <2>6, <2>11, <2>13 DEF WritingOK, entries
  <2>15. QED BY <1>2, <2>8, <2>10, <2>12, <2>14 DEF IInv
<1>5. \/ owner' = "refused" /\ UNCHANGED <<mem, published>>
      \/ \E write \in IndexInstalls(entries) :
            /\ ~ replay.broken /\ owner' = "running" /\ indexFile' = write.file
            /\ mem' = [records |-> wal.records, index |-> entries,
                       segment |-> wal.segments, offset |-> Position,
                       replay |-> replay, capacity |-> capacity,
                       healthy |-> write.healthy]
            /\ published' = published \cup Shown(replay)
  BY DEF Open
<1> HIDE DEF replay, entries
<1>6. QED BY <1>3, <1>4, <1>5

LEMMA IngestStep ==
  ASSUME IInv, NEW frame \in Frames, NEW full \in BOOLEAN, Ingest(frame, full) PROVE IInv'
<1> DEFINE d == Decisions(frame)
           entries == Indexed(frame, full)
           x == Placed(frame, full)
           replay == CommitAll(mem.replay, d, mem.capacity)
           R == wal.records \o d
<1>0. /\ owner = "running" /\ mem \in Memory /\ wal \in Wal /\ mem.capacity \in Nat \ {0}
      /\ mem.records = wal.records /\ mem.index = RebuildIndex(wal.batches)
      /\ mem.healthy => indexFile = mem.index
      /\ mem.replay = WindowOf(AppliedRecords(wal.records), mem.capacity)
      /\ published \subseteq ToSet(AppliedRecords(wal.records))
  BY DEF Ingest, CanIngest, IInv, Types, ServedOK, WritingOK, Up
<1>1. /\ wal' = Written(frame, full, "batch")
      /\ owner' = (IF replay.broken THEN "closed" ELSE "running")
      /\ published' = published \cup (IF replay.broken THEN {} ELSE ToSet(AppliedRecords(d)))
      /\ UNCHANGED <<current, previous>>
  BY DEF Ingest
<1>2. PICK write : /\ write.healthy \in BOOLEAN /\ (write.healthy => write.file = entries)
                   /\ indexFile' = write.file
                   /\ mem' = [mem EXCEPT !.records = @ \o d,
                                         !.index   = entries,
                                         !.segment = x.segment,
                                         !.offset  = x.offset + 1,
                                         !.replay  = replay,
                                         !.healthy = write.healthy]
  <2> DEFINE same == [file |-> indexFile, healthy |-> TRUE]
  <2>1. PICK write \in (IF entries # mem.index \/ ~ mem.healthy
                        THEN IndexWrites(entries) ELSE {same}) :
           /\ indexFile' = write.file
           /\ mem' = [mem EXCEPT !.records = @ \o d,
                                 !.index   = entries,
                                 !.segment = x.segment,
                                 !.offset  = x.offset + 1,
                                 !.replay  = replay,
                                 !.healthy = write.healthy]
    BY Zenon DEF Ingest
  <2>2. write.healthy \in BOOLEAN /\ (write.healthy => write.file = entries)
    <3> HIDE DEF entries
    <3>1. CASE entries # mem.index \/ ~ mem.healthy
      <4>1. write \in IndexWrites(entries)
        BY <2>1, <3>1
      <4>2. QED BY <4>1, IndexWriteFacts
    <3>2. CASE ~(entries # mem.index \/ ~ mem.healthy)
      <4>1. write = same
        BY <2>1, <3>2
      <4>2. same.healthy = TRUE /\ same.file = indexFile
        OBVIOUS
      <4>3. entries = indexFile
        BY <1>0, <3>2
      <4> HIDE DEF same
      <4>4. QED BY <4>1, <4>2, <4>3
    <3>3. QED BY <3>1, <3>2
  <2>3. QED BY <2>1, <2>2
<1>3. /\ x \in Batch /\ x.offset = Count(wal.batches, x.segment)
  BY <1>0, PlacedFacts
<1>4. /\ d \in Seq(Record) /\ wal.records \in Seq(Record) /\ R \in Seq(Record)
      /\ AppliedRecords(d) \in Seq(Record) /\ Numbered(AppliedRecords(R))
      /\ ToSet(AppliedRecords(R)) = ToSet(AppliedRecords(wal.records)) \cup ToSet(AppliedRecords(d))
  BY <1>0, DecisionFacts
<1>5. replay = WindowOf(AppliedRecords(R), mem.capacity) /\ ~ replay.broken
  <2> HIDE DEF d
  <2>1. replay = WindowOf(AppliedRecords(R), mem.capacity)
    BY <1>0, <1>4, WindowCommits
  <2>2. WindowOf(AppliedRecords(R), mem.capacity).broken = FALSE
    BY DEF WindowOf
  <2>3. QED BY <2>1, <2>2
<1>6. /\ wal' \in Wal /\ Numbered(AppliedRecords(wal'.records))
      /\ \A i \in 1..Len(wal'.batches) : wal'.batches[i].segment <= wal'.segments
  <2>1. "batch" \in {"none", "header", "torn", "batch"}
    OBVIOUS
  <2>2. QED BY <1>0, <1>1, <2>1, WrittenOK
<1>7. wal' = [records |-> R, batches |-> Append(wal.batches, x), segments |-> x.segment, torn |-> FALSE]
  BY <1>1 DEF Written
<1>8. /\ wal'.records = R /\ wal'.batches = Append(wal.batches, x) /\ wal'.segments = x.segment
  BY <1>7
<1>9. wal.batches \in Seq(Batch)
  BY <1>0 DEF Wal
<1>10. entries = RebuildIndex(wal'.batches) /\ entries \in Seq(Batch)
  <2>1. entries = IndexBatch(RebuildIndex(wal.batches), x)
    BY <1>0 DEF Indexed
  <2> HIDE DEF x, entries
  <2>2. RebuildIndex(Append(wal.batches, x)) = IndexBatch(RebuildIndex(wal.batches), x)
    BY <1>3, <1>9, RebuildAppend
  <2>3. Append(wal.batches, x) \in Seq(Batch)
    BY <1>3, <1>9, AppendProperties
  <2>4. QED BY <1>8, <2>1, <2>2, <2>3, RebuildType
<1>11. Position' = x.offset + 1 /\ x.offset + 1 \in Nat
  <2>1. Position' = Count(wal'.batches, wal'.segments)
    BY DEF Position, Count
  <2> HIDE DEF x
  <2>2. Count(Append(wal.batches, x), x.segment) = Count(wal.batches, x.segment) + 1
        /\ Count(wal.batches, x.segment) \in Nat
    BY <1>3, <1>9, CountAppend
  <2>3. QED BY <1>3, <1>8, <2>1, <2>2
<1> HIDE DEF d, entries, x, replay
<1>12. /\ mem'.records = R /\ mem'.index = entries /\ mem'.segment = x.segment
       /\ mem'.offset = x.offset + 1 /\ mem'.replay = replay /\ mem'.healthy = write.healthy
       /\ mem'.capacity = mem.capacity
  BY <1>0, <1>2 DEF Memory
<1> HIDE DEF R
<1>13. mem' \in Memory
  <2>1. replay \in Replay
    <3>1. AppliedRecords(R) \in Seq(Record) /\ mem.capacity \in Nat
      BY <1>0, <1>4, AppliedType
    <3>2. QED BY <1>5, <3>1, WindowType
  <2>2. x.segment \in Nat
    BY <1>3 DEF Batch
  <2>3. mem' \in [records : Seq(Record), index : Seq(Batch), segment : Nat, offset : Nat,
                  replay : Replay, capacity : Nat, healthy : BOOLEAN]
    BY <1>0, <1>2, <1>4, <1>10, <1>11, <2>1, <2>2 DEF Memory, R
  <2>4. QED BY <2>3 DEF Memory
<1>14. owner' = "running" /\ published' = published \cup ToSet(AppliedRecords(d))
  BY <1>1, <1>5
<1>15. published' \subseteq ToSet(AppliedRecords(R))
  BY <1>0, <1>4, <1>14
<1>16. Types'
  BY <1>6, <1>13, <1>14 DEF Types
<1>17. WalOK'
  BY <1>6, <1>8, <1>15 DEF WalOK
<1>18. FilesOK'
  BY <1>1 DEF IInv, FilesOK
<1>19. ServedOK'
  BY <1>0, <1>4, <1>5, <1>12, <1>15 DEF ServedOK
<1>20. WritingOK'
  <2>1. mem'.healthy => indexFile' = mem'.index
    BY <1>2, <1>12
  <2>2. QED BY <1>8, <1>10, <1>11, <1>12, <2>1 DEF WritingOK
<1>21. QED BY <1>16, <1>17, <1>18, <1>19, <1>20 DEF IInv

LEMMA InterruptedStep ==
  ASSUME IInv, NEW frame \in Frames, NEW full \in BOOLEAN,
         NEW part \in {"none", "header", "torn", "batch"}, NEW after \in {"closed", "down"},
         IngestInterrupted(frame, full, part, after)
  PROVE IInv'
<1>0. /\ owner = "running" /\ mem \in Memory /\ owner' = after
      /\ wal' = Written(frame, full, part)
      /\ mem' = (IF after = "down" THEN NoMemory ELSE mem)
      /\ UNCHANGED <<current, previous, published>>
      /\ published \subseteq ToSet(AppliedRecords(wal.records))
  BY DEF IngestInterrupted, CanIngest, IInv, Types, WalOK
<1>1. /\ wal' \in Wal /\ Numbered(AppliedRecords(wal'.records))
      /\ \A i \in 1..Len(wal'.batches) : wal'.batches[i].segment <= wal'.segments
      /\ ToSet(AppliedRecords(wal.records)) \subseteq ToSet(AppliedRecords(wal'.records))
  BY <1>0, WrittenOK
<1>2. Types'
  BY <1>0, <1>1, NoMemoryType DEF Types
<1>3. WalOK'
  BY <1>0, <1>1 DEF WalOK
<1>4. FilesOK'
  BY <1>0 DEF IInv, FilesOK
<1>5. ServedOK' /\ WritingOK'
  <2>1. CASE after = "down"
    BY <1>0, <2>1, Idle
  <2>2. CASE after = "closed"
    BY <1>0, <2>2 DEF IInv, ServedOK, WritingOK, Up
  <2>3. QED BY <2>1, <2>2
<1>6. QED BY <1>2, <1>3, <1>4, <1>5 DEF IInv

LEMMA OtherSteps ==
  ASSUME IInv,
         \/ Promote \/ (\E synced \in BOOLEAN : Install(synced)) \/ FailClosed \/ Crash \/ Damage
         \/ UNCHANGED vars
  PROVE IInv'
<1>0. Types /\ WalOK /\ FilesOK /\ ServedOK /\ WritingOK
  BY DEF IInv
<1>1. CASE Promote
  <2>1. Types' /\ WalOK' /\ ServedOK' /\ WritingOK'
    BY <1>0, <1>1 DEF Promote, Types, WalOK, ServedOK, WritingOK, Up, Position
  <2>2. FilesOK'
    BY <1>0, <1>1 DEF Promote, FilesOK, Readable
  <2>3. QED BY <2>1, <2>2 DEF IInv
<1>2. ASSUME NEW synced \in BOOLEAN, Install(synced) PROVE IInv'
  <2>0. /\ owner = "promoting" /\ owner' \in {"closed", "down", "running"}
        /\ current' = CheckpointOf(mem.records, mem.index, mem.replay, mem.capacity)
        /\ UNCHANGED <<wal, previous, indexFile, published>>
        /\ mem' = mem \/ (owner' = "down" /\ mem' = NoMemory)
    BY <1>2 DEF Install
  <2>1. Types' /\ WalOK'
    BY <1>0, <2>0, NoMemoryType DEF Types, WalOK
  <2>2. FilesOK'
    <3>1. mem.records \in Seq(Record)
      BY <1>0 DEF Types, Memory
    <3>2. current'.cursor = Len(mem.records)
      BY <2>0 DEF CheckpointOf
    <3>3. current'.cursor \in Nat
      BY <3>1, <3>2, LenProperties
    <3>4. QED BY <1>0, <2>0, <3>3 DEF FilesOK
  <2>3. CASE owner' = "down"
    BY <2>1, <2>2, <2>3, Idle DEF IInv
  <2>4. CASE owner' # "down"
    <3>1. mem' = mem /\ Position' = Position
      BY <2>0, <2>4 DEF Position
    <3>2. ServedOK' /\ WritingOK'
      BY <1>0, <2>0, <3>1 DEF ServedOK, WritingOK, Up
    <3>3. QED BY <2>1, <2>2, <3>2 DEF IInv
  <2>5. QED BY <2>3, <2>4
<1>3. CASE FailClosed
  <2>1. Types' /\ WalOK' /\ ServedOK' /\ WritingOK' /\ FilesOK'
    BY <1>0, <1>3 DEF FailClosed, disk, Types, WalOK, ServedOK, WritingOK, FilesOK, Up
  <2>2. QED BY <2>1 DEF IInv
<1>4. CASE Crash
  <2>1. Types' /\ WalOK' /\ FilesOK'
    BY <1>0, <1>4, NoMemoryType DEF Crash, disk, Types, WalOK, FilesOK
  <2>2. ServedOK' /\ WritingOK'
    BY <1>4, Idle DEF Crash
  <2>3. QED BY <2>1, <2>2 DEF IInv
<1>5. CASE Damage
  <2>1. Types' /\ WalOK'
    BY <1>0, <1>5 DEF Damage, Types, WalOK
  <2>2. FilesOK'
    BY <1>0, <1>5 DEF Damage, FilesOK, Readable
  <2>3. ServedOK' /\ WritingOK'
    BY <1>5, Idle DEF Damage
  <2>4. QED BY <2>1, <2>2, <2>3 DEF IInv
<1>6. CASE UNCHANGED vars
  <2>1. Position' = Position
    BY <1>6 DEF vars, Position
  <2>2. Types' /\ WalOK' /\ FilesOK' /\ ServedOK' /\ WritingOK'
    BY <1>0, <1>6, <2>1 DEF vars, Types, WalOK, FilesOK, ServedOK, WritingOK
  <2>3. QED BY <2>2 DEF IInv
<1>7. QED BY <1>1, <1>2, <1>3, <1>4, <1>5, <1>6

LEMMA NextIInv == IInv /\ [Next]_vars => IInv'
<1> SUFFICES ASSUME IInv, [Next]_vars PROVE IInv'
  OBVIOUS
<1>1. \/ \E capacity \in Capacities : Open(capacity)
      \/ \E frame \in Frames, full \in BOOLEAN : Ingest(frame, full)
      \/ \E frame \in Frames, full \in BOOLEAN,
            part \in {"none", "header", "torn", "batch"}, after \in {"closed", "down"} :
            IngestInterrupted(frame, full, part, after)
      \/ Promote \/ (\E synced \in BOOLEAN : Install(synced)) \/ FailClosed \/ Crash \/ Damage
      \/ UNCHANGED vars
  BY DEF Next
<1>2. QED BY <1>1, OpenStep, IngestStep, InterruptedStep, OtherSteps

LEMMA AlwaysIInv == Spec => []IInv
<1>1. Init => IInv
  BY InitIInv
<1>2. IInv /\ [Next]_vars => IInv'
  BY NextIInv
<1>3. QED BY <1>1, <1>2, PTL DEF Spec

-----------------------------------------------------------------------------
(* What the readers are promised                                           *)

\* Whatever a reader was shown, by any process, is in the WAL, for any crash, failed append
\* or damaged checkpoint (append_decisions syncs before commit_persisted).
THEOREM ShownIsDurable == Spec => []PublishedIsDurable
<1>1. IInv => PublishedIsDurable
  BY DEF IInv, WalOK, PublishedIsDurable
<1>2. QED BY <1>1, AlwaysIInv, PTL

\* The memory of a writer that accepts frames is a scan of the whole WAL, whichever
\* checkpoint it was recovered from (recover_replay, checkpoint_matches).
THEOREM RecoveryIsAScan == Spec => []MemoryIsTheWal
<1>1. ASSUME IInv PROVE MemoryIsTheWal
  <2> SUFFICES ASSUME owner \in {"running", "promoting"}
               PROVE mem.replay = CommitAll(EmptyReplay, wal.records, mem.capacity)
    BY <1>1 DEF IInv, WritingOK, MemoryIsTheWal
  <2>1. /\ mem.records = wal.records /\ wal.records \in Seq(Record) /\ mem.capacity \in Nat \ {0}
        /\ Numbered(AppliedRecords(wal.records))
        /\ mem.replay = WindowOf(AppliedRecords(wal.records), mem.capacity)
    BY <1>1 DEF IInv, Types, Wal, WalOK, ServedOK, WritingOK, Up
  <2>2. LastOf(<<>>, mem.capacity) = <<>>
    BY <2>1 DEF LastOf
  <2>3. EmptyReplay = WindowOf(AppliedRecords(<<>>), mem.capacity)
    BY <2>2, AppliedEmpty DEF WindowOf, EmptyReplay
  <2>4. <<>> \in Seq(Record) /\ <<>> \o wal.records = wal.records
    BY <2>1, ConcatEmptySeq, EmptySeq
  <2>5. Numbered(AppliedRecords(<<>> \o wal.records))
    BY <2>1, <2>4
  <2>6. CommitAll(WindowOf(AppliedRecords(<<>>), mem.capacity), wal.records, mem.capacity)
          = WindowOf(AppliedRecords(<<>> \o wal.records), mem.capacity)
    BY <2>1, <2>4, <2>5, WindowCommits
  <2>7. QED BY <2>1, <2>3, <2>4, <2>6
<1>2. QED BY <1>1, AlwaysIInv, PTL

\* Resuming in the window of numbered records.
LEMMA ResumeWindow ==
  ASSUME NEW all, Numbered(all), NEW c \in Nat \ {0}, NEW after \in 0..Len(all)
  PROVE ReplayAfter(WindowOf(all, c), after)
          = IF Len(all) - after <= c THEN Answer(SubSeq(all, after + 1, Len(all))) ELSE Gap
<1> DEFINE N == Len(all)
           t == LastOf(all, c)
           m == Len(t)
           w == WindowOf(all, c)
           earliest == IF t = <<>> THEN N + 1 ELSE Head(t).sequence
<1>0. /\ all \in Seq(Record) /\ N \in Nat /\ c \in Nat /\ after \in Nat /\ after <= N
      /\ \A i \in 1..N : all[i] \in Record /\ all[i].sequence = i
  BY LenProperties, ElementOfSeq DEF Numbered
<1>1. /\ t \in Seq(Record) /\ m = IF N <= c THEN N ELSE c
      /\ \A i \in 1..m : t[i] = all[(N - m) + i]
  BY <1>0, LastOfProps
<1>2. w.sequence = N /\ w.tail = t
  BY DEF WindowOf
<1> HIDE DEF t, w
<1>3. m \in Nat /\ m <= N /\ DOMAIN t = 1..m
  BY <1>0, <1>1, LenProperties
<1> HIDE DEF N, m
<1>4. \A i \in 1..m : (N - m) + i \in 1..N /\ t[i].sequence = (N - m) + i
  BY <1>0, <1>1, <1>3
<1>5. earliest = (N - m) + 1
  <2>1. CASE t = <<>>
    <3>1. m = 0
      BY <2>1, EmptySeq DEF m
    <3>2. QED BY <1>0, <2>1, <3>1
  <2>2. CASE t # <<>>
    <3>1. m \in 1..m /\ 1 \in 1..m
      BY <1>1, <1>3, <2>2, EmptySeq DEF m
    <3>2. Head(t) = t[1]
      BY <1>1, <2>2
    <3>3. QED BY <1>4, <2>2, <3>1, <3>2
  <2>3. QED BY <2>1, <2>2
<1> HIDE DEF earliest
<1>6. ReplayAfter(w, after) = CASE after > N -> Ahead
                                [] after <= N /\ after + 1 < earliest -> Gap
                                [] OTHER -> Answer(After(t, after))
  BY <1>2 DEF ReplayAfter, earliest
<1>7. CASE ~(N - after <= c)
  <2>1. ~(after > N) /\ after <= N /\ after + 1 < earliest
    BY <1>0, <1>1, <1>5, <1>7
  <2>2. ReplayAfter(w, after) = Gap
    BY <1>6, <2>1
  <2>3. QED BY <1>7, <2>2 DEF w, N
<1>8. CASE N - after <= c
  <2> DEFINE k == after - (N - m)
             T == {r \in ToSet(t) : r.sequence > after}
  <2>1. ~(after > N) /\ ~(after + 1 < earliest) /\ k \in 0..m
    BY <1>0, <1>1, <1>3, <1>5, <1>8
  <2>2. ReplayAfter(w, after) = Answer(After(t, after))
    BY <1>6, <2>1
  <2>3. \A i \in 1..m : t[i] \in T <=> i > k
    <3> SUFFICES ASSUME NEW i \in 1..m PROVE t[i] \in T <=> i > k
      OBVIOUS
    <3>1. t[i] \in ToSet(t)
      BY <1>3 DEF ToSet
    <3>2. t[i].sequence = (N - m) + i
      BY <1>4
    <3>3. ((N - m) + i > after) <=> i > k
      BY <1>0, <1>3
    <3> HIDE DEF k
    <3>4. QED BY <3>1, <3>2, <3>3
  <2>4. After(t, after) = SubSeq(t, k + 1, m)
    <3> HIDE DEF k
    <3>1. k \in 0..Len(t) /\ \A i \in 1..Len(t) : t[i] \in T <=> i > k
      BY <2>1, <2>3 DEF m
    <3> HIDE DEF T
    <3>2. Kept(t, T) = SubSeq(t, k + 1, Len(t))
      BY <1>1, <3>1, KeptSuffix
    <3>3. QED BY <3>2 DEF After, T, m
  <2>5. SubSeq(t, k + 1, m) = SubSeq(all, after + 1, N)
    <3> DEFINE u == SubSeq(t, k + 1, m)
               v == SubSeq(all, after + 1, N)
    <3>1. /\ k + 1 \in Int /\ after + 1 \in Int /\ k + 1 >= 1
          /\ m - (k + 1) + 1 = N - (after + 1) + 1 /\ N - (after + 1) + 1 \in Nat
          /\ (k + 1 <= m <=> after + 1 <= N)
          /\ (~(k + 1 <= m) => N - (after + 1) + 1 = 0)
      BY <1>0, <1>3, <2>1
    <3>2. \A i \in (k + 1)..m : t[i] \in Record
      BY <1>1, <1>3, <2>1, ElementOfSeq DEF m
    <3>3. \A i \in (after + 1)..N : all[i] \in Record
      BY <1>0
    <3>4. /\ u \in Seq(Record) /\ Len(u) = (IF k + 1 <= m THEN m - (k + 1) + 1 ELSE 0)
          /\ \A i \in 1..(m - (k + 1) + 1) : u[i] = t[(k + 1) + i - 1]
      <4> DEFINE p == k + 1
      <4>1. p \in Int /\ m \in Int /\ \A i \in p..m : t[i] \in Record
        BY <1>3, <3>1, <3>2
      <4> HIDE DEF p
      <4>2. /\ SubSeq(t, p, m) \in Seq(Record) /\ Len(SubSeq(t, p, m)) = (IF p <= m THEN m - p + 1 ELSE 0)
            /\ \A i \in 1..(m - p + 1) : SubSeq(t, p, m)[i] = t[p + i - 1]
        BY <4>1, SubSeqProperties
      <4>3. QED BY <4>2 DEF p
    <3>5. /\ v \in Seq(Record) /\ Len(v) = (IF after + 1 <= N THEN N - (after + 1) + 1 ELSE 0)
          /\ \A i \in 1..(N - (after + 1) + 1) : v[i] = all[(after + 1) + i - 1]
      <4> DEFINE p == after + 1
      <4>1. p \in Int /\ N \in Int /\ \A i \in p..N : all[i] \in Record
        BY <1>0, <3>1, <3>3
      <4> HIDE DEF p
      <4>2. /\ SubSeq(all, p, N) \in Seq(Record) /\ Len(SubSeq(all, p, N)) = (IF p <= N THEN N - p + 1 ELSE 0)
            /\ \A i \in 1..(N - p + 1) : SubSeq(all, p, N)[i] = all[p + i - 1]
        BY <4>1, SubSeqProperties
      <4>3. QED BY <4>2 DEF p
    <3> HIDE DEF u, v
    <3>6. Len(u) = Len(v) /\ Len(u) = N - after
      BY <1>0, <3>1, <3>4, <3>5
    <3>7. ASSUME NEW i \in 1..Len(u) PROVE u[i] = v[i]
      <4>1. /\ i \in 1..(m - (k + 1) + 1) /\ i \in 1..(N - (after + 1) + 1)
        BY <1>0, <3>1, <3>6
      <4>2. (k + 1) + i - 1 \in 1..m /\ (N - m) + ((k + 1) + i - 1) = (after + 1) + i - 1
        BY <1>0, <1>3, <2>1, <3>6
      <4>3. t[(k + 1) + i - 1] = all[(after + 1) + i - 1]
        <5> DEFINE j == (k + 1) + i - 1
        <5>1. j \in 1..m /\ (N - m) + j = (after + 1) + i - 1
          BY <4>2
        <5> HIDE DEF j
        <5>2. t[j] = all[(after + 1) + i - 1]
          BY <1>1, <5>1
        <5>3. QED BY <5>2 DEF j
      <4>4. QED BY <3>4, <3>5, <4>1, <4>3
    <3>8. QED BY <3>4, <3>5, <3>6, <3>7, SeqEqual DEF u, v
  <2>6. QED BY <1>8, <2>2, <2>4, <2>5 DEF w, N
<1>9. QED BY <1>7, <1>8

\* A reader that resumes gets exactly the later events or is told of the gap, and is never
\* ahead of the process it resumes with (replay_after).
THEOREM EveryResumeIsExact == Spec => []ResumeIsExact
<1>1. ASSUME IInv PROVE ResumeIsExact
  <2> SUFFICES ASSUME owner \in Up
               PROVE LET all == AppliedRecords(mem.records)
                     IN  /\ \A after \in 0..Len(all) :
                               LET answer == ReplayAfter(mem.replay, after)
                               IN  IF Len(all) - after <= mem.capacity
                                   THEN answer = Answer(SubSeq(all, after + 1, Len(all)))
                                   ELSE answer = Gap
                         /\ \A r \in published : ReplayAfter(mem.replay, r.sequence) # Ahead
    BY DEF ResumeIsExact
  <2> DEFINE all == AppliedRecords(mem.records)
             c == mem.capacity
  <2>1. /\ c \in Nat \ {0} /\ Numbered(all) /\ mem.replay = WindowOf(all, c)
        /\ published \subseteq ToSet(all)
    BY <1>1 DEF IInv, ServedOK
  <2> HIDE DEF all, c
  <2>2. ASSUME NEW after \in 0..Len(all)
        PROVE ReplayAfter(mem.replay, after)
                = IF Len(all) - after <= c THEN Answer(SubSeq(all, after + 1, Len(all))) ELSE Gap
    BY <2>1, ResumeWindow
  <2>3. ASSUME NEW r \in published PROVE ReplayAfter(mem.replay, r.sequence) # Ahead
    <3>1. all \in Seq(Record) /\ DOMAIN all = 1..Len(all) /\ Len(all) \in Nat
      BY <2>1, LenProperties DEF Numbered
    <3>2. PICK i \in 1..Len(all) : r = all[i]
      BY <2>1, <3>1 DEF ToSet
    <3>3. r.sequence = i /\ i \in 0..Len(all)
      BY <2>1, <3>1, <3>2 DEF Numbered
    <3>4. \/ ReplayAfter(mem.replay, i) = Answer(SubSeq(all, i + 1, Len(all)))
          \/ ReplayAfter(mem.replay, i) = Gap
      BY <2>2, <3>3
    <3>5. /\ Ahead.error = "CursorAhead" /\ Gap.error = "GapUnrecoverable"
          /\ Answer(SubSeq(all, i + 1, Len(all))).error = "none"
      BY DEF Ahead, Gap, Answer
    <3>6. QED BY <3>3, <3>4, <3>5
  <2>4. QED BY <2>2, <2>3 DEF all, c
<1>2. QED BY <1>1, AlwaysIInv, PTL

-----------------------------------------------------------------------------
(* The store implements the abstract log                                   *)

\* A step only adds applied records, and only adds to what was shown.
LEMMA Grows ==
  ASSUME IInv, [Next]_vars
  PROVE /\ \E b \in Seq(Record) : AppliedRecords(wal'.records) = AppliedRecords(wal.records) \o b
        /\ published \subseteq published'
<1> DEFINE A == AppliedRecords(wal.records)
<1>0. wal.records \in Seq(Record) /\ wal \in Wal /\ <<>> \in Seq(Record)
  BY EmptySeq DEF IInv, Types, Wal
<1>1. A \o <<>> = A
  BY <1>0, AppliedType, ConcatEmptySeq
<1>2. ASSUME NEW frame \in Frames, NEW full \in BOOLEAN, NEW part \in {"none", "header", "torn", "batch"},
             owner = "running", wal' = Written(frame, full, part)
      PROVE \E b \in Seq(Record) : AppliedRecords(wal'.records) = A \o b
  <2>1. CASE part = "batch"
    <3>1. wal'.records = wal.records \o Decisions(frame)
      BY <1>2, <2>1 DEF Written
    <3>2. /\ AppliedRecords(Decisions(frame)) \in Seq(Record)
          /\ AppliedRecords(wal.records \o Decisions(frame)) = A \o AppliedRecords(Decisions(frame))
      BY <1>2, DecisionFacts
    <3>3. QED BY <3>1, <3>2
  <2>2. CASE part # "batch"
    <3>1. wal'.records = wal.records
      BY <1>0, <1>2, <2>2 DEF Written, Wal
    <3>2. QED BY <1>0, <1>1, <3>1
  <2>3. QED BY <2>1, <2>2
<1>3. CASE \E capacity \in Capacities : Open(capacity)
  <2>1. wal' = wal /\ published \subseteq published'
    BY <1>3 DEF Open
  <2>2. QED BY <1>0, <1>1, <2>1
<1>4. ASSUME NEW frame \in Frames, NEW full \in BOOLEAN, Ingest(frame, full)
      PROVE /\ \E b \in Seq(Record) : AppliedRecords(wal'.records) = A \o b
            /\ published \subseteq published'
  <2>1. /\ owner = "running" /\ wal' = Written(frame, full, "batch") /\ published \subseteq published'
        /\ "batch" \in {"none", "header", "torn", "batch"}
    BY <1>4 DEF Ingest, CanIngest
  <2>2. QED BY <1>2, <2>1
<1>5. ASSUME NEW frame \in Frames, NEW full \in BOOLEAN,
             NEW part \in {"none", "header", "torn", "batch"}, NEW after \in {"closed", "down"},
             IngestInterrupted(frame, full, part, after)
      PROVE /\ \E b \in Seq(Record) : AppliedRecords(wal'.records) = A \o b
            /\ published \subseteq published'
  <2>1. owner = "running" /\ wal' = Written(frame, full, part) /\ published' = published
    BY <1>5 DEF IngestInterrupted, CanIngest
  <2>2. QED BY <1>2, <2>1
<1>6. CASE \/ Promote \/ (\E synced \in BOOLEAN : Install(synced)) \/ FailClosed \/ Crash \/ Damage
           \/ UNCHANGED vars
  <2>1. wal' = wal /\ published' = published
    BY <1>6 DEF Promote, Install, FailClosed, Crash, Damage, vars, disk
  <2>2. QED BY <1>0, <1>1, <2>1
<1>7. QED BY <1>3, <1>4, <1>5, <1>6 DEF Next

\* The highest sequence shown is one of the log, and bounds the others.
Highest(shown) ==
    IF shown = {} THEN 0
    ELSE CHOOSE n \in {r.sequence : r \in shown} : \A r \in shown : r.sequence <= n

LEMMA HighestFacts ==
  ASSUME NEW A, Numbered(A), NEW shown, shown \subseteq ToSet(A)
  PROVE /\ Highest(shown) \in 0..Len(A)
        /\ \A r \in shown : r.sequence \in 1..Len(A) /\ r.sequence <= Highest(shown)
        /\ shown = {} => Highest(shown) = 0
        /\ shown # {} => \E r \in shown : r.sequence = Highest(shown)
<1>1. /\ A \in Seq(Record) /\ Len(A) \in Nat /\ DOMAIN A = 1..Len(A)
      /\ \A i \in 1..Len(A) : A[i].sequence = i
  BY LenProperties DEF Numbered
<1>2. \A r \in shown : r.sequence \in 1..Len(A)
  BY <1>1 DEF ToSet
<1>3. CASE shown = {}
  BY <1>1, <1>3 DEF Highest
<1>4. CASE shown # {}
  <2> DEFINE T == {r.sequence : r \in shown}
             M(n) == \A r \in shown : r.sequence <= n
  <2>1. T \in SUBSET (0..Len(A)) /\ T # {}
    BY <1>1, <1>2, <1>4
  <2>2. \E n \in T : M(n)
    <3>1. Max(T) \in T /\ \A y \in T : Max(T) >= y
      <4> HIDE DEF T
      <4>1. QED BY <1>1, <2>1, MaxIsGreatest
    <3>2. \A r \in shown : r.sequence \in T /\ r.sequence \in Nat
      BY <1>1, <1>2
    <3>3. Max(T) \in Nat
      BY <2>1, <3>1
    <3> HIDE DEF T
    <3>4. \A r \in shown : r.sequence <= Max(T)
      BY <3>1, <3>2, <3>3
    <3>5. QED BY <3>1, <3>4
  <2>3. Highest(shown) = CHOOSE n \in T : M(n)
    BY <1>4 DEF Highest
  <2>4. Highest(shown) \in T /\ M(Highest(shown))
    <3> HIDE DEF T, M
    <3>1. QED BY <2>2, <2>3
  <2>5. QED BY <1>1, <1>2, <1>4, <2>1, <2>4
<1>5. QED BY <1>3, <1>4

\* The store refines the append-only log of distinct events: a failed append, a crash, a
\* damaged checkpoint and a restart are stutters or steps of it.
THEOREM StoreRefinesLog == Spec => ImplementsLog
<1>1. ASSUME Init PROVE Log!LogInit
  <2>1. AppliedRecords(wal.records) = <<>> /\ published = {} /\ Len(<<>>) = 0
    BY <1>1, AppliedEmpty, EmptySeq DEF Init
  <2>2. LastShown = 0
    BY <2>1 DEF LastShown
  <2>3. [i \in 1..Len(AppliedRecords(wal.records)) |-> AppliedRecords(wal.records)[i].event] = <<>>
    BY <2>1
  <2>4. QED BY <2>2, <2>3 DEF Log!LogInit
<1>2. ASSUME IInv, IInv', [Next]_vars PROVE Log!LogNext
  <2>1. PICK A : A = AppliedRecords(wal.records)
    OBVIOUS
  <2>2. PICK B : B = AppliedRecords(wal'.records)
    OBVIOUS
  <2>3. PICK b \in Seq(Record) : B = A \o b
    BY <1>2, <2>1, <2>2, Grows
  <2>4. Numbered(A) /\ Numbered(B) /\ A \in Seq(Record) /\ B \in Seq(Record)
    BY <1>2, <2>1, <2>2 DEF IInv, WalOK, Numbered
  <2>5. published \subseteq published' /\ published \subseteq ToSet(A) /\ published' \subseteq ToSet(B)
    BY <1>2, <2>1, <2>2, Grows DEF IInv, WalOK
  <2> DEFINE l == [i \in 1..Len(A) |-> A[i].event]
             m == [i \in 1..Len(B) |-> B[i].event]
  <2>6. /\ Len(A) \in Nat /\ Len(b) \in Nat /\ Len(B) = Len(A) + Len(b)
        /\ \A i \in 1..Len(A) : B[i] = A[i]
        /\ \A i \in 1..Len(B) : B[i].event \in Events
        /\ \A i \in 1..Len(A) : A[i].event \in Events
    <3>1. /\ Len(A) \in Nat /\ Len(b) \in Nat /\ Len(B) = Len(A) + Len(b)
          /\ \A i \in 1..(Len(A) + Len(b)) : B[i] = IF i <= Len(A) THEN A[i] ELSE b[i - Len(A)]
      BY <2>3, <2>4, ConcatProperties, LenProperties
    <3>2. \A i \in 1..Len(A) : B[i] = A[i]
      BY <3>1
    <3>3. (\A i \in 1..Len(B) : B[i] \in Record) /\ (\A i \in 1..Len(A) : A[i] \in Record)
      BY <2>4, ElementOfSeq
    <3>4. QED BY <3>1, <3>2, <3>3 DEF Record
  <2>7. l \in Seq(Events) /\ m \in Seq(Events) /\ Len(l) = Len(A) /\ Len(m) = Len(B)
        /\ DOMAIN m = 1..Len(B)
    <3>1. l \in [1..Len(A) -> Events] /\ m \in [1..Len(B) -> Events] /\ Len(B) \in Nat
      BY <2>6
    <3> HIDE DEF l, m
    <3>2. l \in Seq(Events) /\ m \in Seq(Events)
      <4>1. Len(A) \in Nat
        BY <2>6
      <4>2. l \in Seq(Events)
        BY <3>1, <4>1
      <4>3. m \in Seq(Events)
        BY <3>1
      <4>4. QED BY <4>2, <4>3
    <3>3. DOMAIN l = 1..Len(A) /\ DOMAIN m = 1..Len(B)
      BY <3>1
    <3>4. Len(l) = Len(A) /\ Len(m) = Len(B)
      BY <2>6, <3>1, <3>2, <3>3
    <3>5. QED BY <3>2, <3>3, <3>4
  <2>8. l = SubSeq(m, 1, Len(A))
    <3>1. \A i \in 1..Len(A) : m[i] = l[i] /\ m[i] \in Events
      BY <2>6
    <3> HIDE DEF l, m
    <3>2. /\ SubSeq(m, 1, Len(A)) \in Seq(Events) /\ Len(SubSeq(m, 1, Len(A))) = Len(A)
          /\ \A i \in 1..Len(A) : SubSeq(m, 1, Len(A))[i] = m[i]
      BY <2>6, <3>1, SubSeqProperties
    <3>3. QED BY <2>7, <3>1, <3>2, SeqEqual
  <2>9. Log!IsInjective(m) /\ \A i \in DOMAIN m : m[i] \in Events
    <3>1. \A i \in 1..Len(B) : m[i] = B[i].event
      OBVIOUS
    <3> HIDE DEF m
    <3>2. QED BY <2>4, <2>6, <2>7, <3>1 DEF Log!IsInjective, Numbered
  <2>10. LastShown' \in LastShown..Len(m) /\ Len(A) \in 0..Len(m)
    <3>0. LastShown = Highest(published) /\ LastShown' = Highest(published')
      BY DEF LastShown, Highest
    <3>1. /\ LastShown \in 0..Len(A)
          /\ published = {} => LastShown = 0
          /\ published # {} => \E r \in published : r.sequence = LastShown
      BY <2>4, <2>5, <3>0, HighestFacts
    <3>2. /\ LastShown' \in 0..Len(B)
          /\ \A r \in published' : r.sequence \in 1..Len(B) /\ r.sequence <= LastShown'
      BY <2>4, <2>5, <3>0, HighestFacts
    <3>3. LastShown <= LastShown'
      <4>1. CASE published = {}
        BY <3>1, <3>2, <4>1
      <4>2. CASE published # {}
        BY <2>5, <3>1, <3>2, <4>2
      <4>3. QED BY <4>1, <4>2
    <3> HIDE DEF m
    <3>4. QED BY <2>6, <2>7, <3>1, <3>2, <3>3
  <2> HIDE DEF l, m
  <2>11. /\ [i \in 1..Len(AppliedRecords(wal.records)) |-> AppliedRecords(wal.records)[i].event] = l
         /\ [i \in 1..Len(AppliedRecords(wal'.records)) |-> AppliedRecords(wal'.records)[i].event] = m
    BY <2>1, <2>2 DEF l, m
  <2>12. QED BY <2>8, <2>9, <2>10, <2>11 DEF Log!LogNext, Log!Accept
<1>3. IInv /\ IInv' /\ [Next]_vars => [Log!LogNext]_Log!logVars
  BY <1>2
<1>4. QED BY <1>1, <1>3, AlwaysIInv, PTL DEF Spec, ImplementsLog, Log!LogSpec
=============================================================================
