------------------------ MODULE PolymarketLiveProofs ------------------------
(***************************************************************************)
(* Proofs about PolymarketLive, for any generations, clients and bounds:   *)
(* the generation that active-scope.json names reopens with what was       *)
(* durable, and no stream carries a record of another generation than the  *)
(* client's.                                                               *)
(*                                                                         *)
(* The files are followed first.  A root is Sound for a projection p when  *)
(* the chain of its segments is unbroken, its records end at p's cursor    *)
(* and recovery, from the checkpoint its manifest names or from nothing,   *)
(* comes to p but for the time stamp; every write of an append, of a       *)
(* checkpoint, of a fork and of a seed takes a sound root to sound ones,   *)
(* so that a crash between any two of them does.  For the streams, the     *)
(* invariant places each generation in the cursors: st[g] is the cursor    *)
(* behind which g began, records and clients belong to the generation of   *)
(* their cursor, and the first record of a later generation is its         *)
(* catalog, which ends a stream.                                           *)
(***************************************************************************)
EXTENDS PolymarketLive, Integers, FiniteSetTheorems, SequenceTheorems,
        WellFoundedInduction, TLAPS

-----------------------------------------------------------------------------
(* Induction over data, in a form that first-order provers can use: the    *)
(* property that is proved by induction is a set, not an operator.         *)

\* A set of numbers has a least one.
LEMMA LeastNat ==
  ASSUME NEW T \in SUBSET Nat, T # {} PROVE \E x \in T : \A y \in T : x <= y
<1> DEFINE R == OpToRel(<, Nat)
<1>1. IsWellFoundedOn(R, Nat)
  BY NatLessThanWellFounded
<1>2. \A x, y \in Nat : <<y, x>> \in R <=> y < x
  BY DEF OpToRel
<1> HIDE DEF R
<1>3. PICK x \in T : \A y \in T : ~ (<<y, x>> \in R)
  BY <1>1, WFMin
<1>4. \A y \in T : ~(y < x)
  BY <1>2, <1>3
<1>5. QED BY <1>4

\* Induction over the numbers.
LEMMA NatSetInduction ==
  ASSUME NEW S, 0 \in S, \A n \in Nat : n \in S => n + 1 \in S
  PROVE Nat \subseteq S
<1> SUFFICES ASSUME Nat \ S # {} PROVE FALSE
  OBVIOUS
<1>1. PICK x \in Nat \ S : \A y \in Nat \ S : x <= y
  BY LeastNat
<1>2. x # 0 /\ x - 1 \in Nat
  BY <1>1
<1>3. x - 1 \in S
  BY <1>1, <1>2
<1>4. QED BY <1>1, <1>2, <1>3

\* A function defined by recursion over an initial segment exists.
LEMMA RecursionExists ==
  ASSUME NEW S, NEW base \in S, NEW N \in Nat, NEW step \in [1..N -> [S -> S]]
  PROVE \E f \in [0..N -> S] : f[0] = base /\ \A i \in 1..N : f[i] = step[i][f[i - 1]]
<1> DEFINE Good(n, f) == f[0] = base /\ \A i \in 1..n : f[i] = step[i][f[i - 1]]
           D == {n \in Nat : n <= N => \E f \in [0..n -> S] : Good(n, f)}
<1>1. 0 \in D
  <2>1. [i \in 0..0 |-> base] \in [0..0 -> S] /\ Good(0, [i \in 0..0 |-> base])
    OBVIOUS
  <2>2. QED BY <2>1
<1>2. ASSUME NEW n \in Nat, n \in D PROVE n + 1 \in D
  <2>1. CASE n + 1 <= N
    <3>1. PICK f \in [0..n -> S] : Good(n, f)
      BY <1>2, <2>1
    <3> DEFINE g == [i \in 0..(n + 1) |-> IF i <= n THEN f[i] ELSE step[n + 1][f[n]]]
    <3>2. n + 1 \in 1..N /\ f[n] \in S
      BY <2>1
    <3>3. step[n + 1][f[n]] \in S
      BY <3>2
    <3>4. g \in [0..(n + 1) -> S]
      BY <3>3
    <3>5. \A i \in 1..(n + 1) : g[i] = step[i][g[i - 1]]
      <4> SUFFICES ASSUME NEW i \in 1..(n + 1) PROVE g[i] = step[i][g[i - 1]]
        OBVIOUS
      <4>1. CASE i <= n
        BY <3>1, <4>1
      <4>2. CASE i = n + 1
        BY <4>2
      <4>3. QED BY <4>1, <4>2
    <3>6. g[0] = base
      BY <3>1
    <3> HIDE DEF g
    <3>7. QED BY <3>4, <3>5, <3>6, SMTT(30)
  <2>2. QED BY <2>1
<1> HIDE DEF D
<1>3. N \in D
  BY <1>1, <1>2, NatSetInduction
<1>4. QED BY <1>3 DEF D

-----------------------------------------------------------------------------
(* The members of a set in a sequence.                                     *)

\* F is what the loop has collected after each member of s.
Collects(F, U, s, T) ==
    /\ F \in [0..Len(s) -> Seq(U)] /\ F[0] = <<>>
    /\ \A i \in 1..Len(s) : F[i] = IF s[i] \in T THEN Append(F[i - 1], s[i]) ELSE F[i - 1]

LEMMA KeptFun ==
  ASSUME NEW U, NEW s \in Seq(U), NEW T
  PROVE \E F : Collects(F, U, s, T) /\ Kept(s, T) = F[Len(s)]
<1> DEFINE step == [i \in 1..Len(s) |-> [q \in Seq(U) |-> IF s[i] \in T THEN Append(q, s[i]) ELSE q]]
           Def(G) == [i \in 0..Len(s) |->
              IF i = 0 THEN <<>> ELSE IF s[i] \in T THEN Append(G[i - 1], s[i]) ELSE G[i - 1]]
<1>1. Len(s) \in Nat /\ <<>> \in Seq(U)
  BY LenProperties
<1>2. step \in [1..Len(s) -> [Seq(U) -> Seq(U)]]
  <2>1. \A i \in 1..Len(s) : s[i] \in U
    BY ElementOfSeq
  <2>2. \A i \in 1..Len(s) : \A q \in Seq(U) : Append(q, s[i]) \in Seq(U)
    BY <2>1, AppendProperties
  <2>3. QED BY <2>2
<1>3. PICK f \in [0..Len(s) -> Seq(U)] : f[0] = <<>> /\ \A i \in 1..Len(s) : f[i] = step[i][f[i - 1]]
  <2> DEFINE base == <<>>
             N == Len(s)
             S == Seq(U)
  <2>0. base \in S /\ N \in Nat /\ step \in [1..N -> [S -> S]]
    BY <1>1, <1>2
  <2> HIDE DEF step, base, N, S
  <2>1. \E f \in [0..N -> S] : f[0] = base /\ \A i \in 1..N : f[i] = step[i][f[i - 1]]
    BY <2>0, RecursionExists
  <2>2. QED BY <2>1 DEF base, N, S
<1>4. \A i \in 1..Len(s) : f[i] = IF s[i] \in T THEN Append(f[i - 1], s[i]) ELSE f[i - 1]
  <2>1. \A i \in 1..Len(s) : f[i - 1] \in Seq(U)
    BY <1>1
  <2>2. QED BY <1>3, <2>1
<1> HIDE DEF step
<1>0. \A G : /\ Def(G)[0] = <<>> /\ DOMAIN Def(G) = 0..Len(s)
             /\ \A i \in 1..Len(s) : Def(G)[i] = IF s[i] \in T THEN Append(G[i - 1], s[i]) ELSE G[i - 1]
  <2> SUFFICES ASSUME NEW G PROVE /\ Def(G)[0] = <<>> /\ DOMAIN Def(G) = 0..Len(s)
             /\ \A i \in 1..Len(s) : Def(G)[i] = IF s[i] \in T THEN Append(G[i - 1], s[i]) ELSE G[i - 1]
    OBVIOUS
  <2>1. 0 \in 0..Len(s) /\ \A i \in 1..Len(s) : i \in 0..Len(s) /\ i # 0
    BY <1>1
  <2>2. DOMAIN Def(G) = 0..Len(s)
    OBVIOUS
  <2>3. Def(G)[0] = <<>>
    BY <2>1
  <2>4. ASSUME NEW i \in 1..Len(s) PROVE Def(G)[i] = IF s[i] \in T THEN Append(G[i - 1], s[i]) ELSE G[i - 1]
    BY <2>1, Zenon
  <2>5. QED BY <2>2, <2>3, <2>4
<1>5. f = Def(f)
  <2>1. \A i \in 0..Len(s) : f[i] = Def(f)[i]
    <3> SUFFICES ASSUME NEW i \in 0..Len(s) PROVE f[i] = Def(f)[i]
      OBVIOUS
    <3>1. CASE i = 0
      BY <1>3, <3>1
    <3>2. CASE i \in 1..Len(s)
      BY <1>0, <1>4, <3>2, Zenon
    <3>3. QED BY <1>1, <3>1, <3>2
  <2>2. QED BY <2>1
<1> DEFINE F == CHOOSE G : G = Def(G)
<1>6. F = Def(F)
  BY <1>5
<1>7. Kept(s, T) = F[Len(s)]
  BY DEF Kept
<1> HIDE DEF F
<1>8. F[0] = <<>> /\ \A i \in 1..Len(s) : F[i] = IF s[i] \in T THEN Append(F[i - 1], s[i]) ELSE F[i - 1]
  BY <1>0, <1>6, Zenon
<1>9. F \in [0..Len(s) -> Seq(U)]
  <2> DEFINE D == {n \in Nat : n <= Len(s) => F[n] \in Seq(U)}
  <2>1. 0 \in D
    BY <1>1, <1>8
  <2>2. ASSUME NEW n \in Nat, n \in D PROVE n + 1 \in D
    <3>1. SUFFICES ASSUME n + 1 <= Len(s) PROVE F[n + 1] \in Seq(U)
      OBVIOUS
    <3>2. n + 1 \in 1..Len(s) /\ (n + 1) - 1 = n /\ F[n] \in Seq(U) /\ s[n + 1] \in U
      BY <1>1, <2>2, <3>1, ElementOfSeq
    <3>3. Append(F[n], s[n + 1]) \in Seq(U)
      BY <3>2, AppendProperties
    <3>4. QED BY <1>8, <3>2, <3>3
  <2> HIDE DEF D
  <2>3. Nat \subseteq D
    BY <2>1, <2>2, NatSetInduction
  <2>4. \A n \in 0..Len(s) : F[n] \in Seq(U)
    BY <1>1, <2>3 DEF D
  <2>5. QED BY <1>6, <2>4
<1>10. Collects(F, U, s, T)
  BY <1>8, <1>9 DEF Collects
<1>11. QED BY <1>7, <1>10

\* Everything that is kept is a member of T, of the kind of the sequence.
LEMMA KeptMembers ==
  ASSUME NEW U, NEW s \in Seq(U), NEW T
  PROVE Kept(s, T) \in Seq(U \cap T)
<1>0. PICK F : Collects(F, U, s, T) /\ Kept(s, T) = F[Len(s)]
  BY KeptFun
<1>1. Len(s) \in Nat
  BY LenProperties
<1> DEFINE D == {n \in Nat : n <= Len(s) => F[n] \in Seq(U \cap T)}
<1>2. 0 \in D
  BY <1>0, EmptySeq DEF Collects
<1>3. ASSUME NEW n \in Nat, n \in D PROVE n + 1 \in D
  <2> SUFFICES ASSUME n + 1 <= Len(s) PROVE F[n + 1] \in Seq(U \cap T)
    OBVIOUS
  <2>1. n + 1 \in 1..Len(s) /\ (n + 1) - 1 = n /\ F[n] \in Seq(U \cap T)
    BY <1>1, <1>3
  <2>2. s[n + 1] \in U
    BY <2>1, ElementOfSeq
  <2>3. F[n + 1] = IF s[n + 1] \in T THEN Append(F[n], s[n + 1]) ELSE F[n]
    BY <1>0, <2>1 DEF Collects
  <2>4. CASE s[n + 1] \in T
    <3>1. s[n + 1] \in U \cap T
      BY <2>2, <2>4
    <3>2. Append(F[n], s[n + 1]) \in Seq(U \cap T)
      BY <2>1, <3>1, AppendProperties
    <3>3. QED BY <2>3, <2>4, <3>2
  <2>5. CASE s[n + 1] \notin T
    BY <2>1, <2>3, <2>5
  <2>6. QED BY <2>4, <2>5
<1> HIDE DEF D
<1>4. Len(s) \in D
  BY <1>1, <1>2, <1>3, NatSetInduction
<1>5. QED BY <1>0, <1>1, <1>4 DEF D

-----------------------------------------------------------------------------
(* Types of the files.                                                     *)

AllKinds == Kinds \cup {"catalog", "book", "gap"}
Records == [kind : AllKinds, cursor : Nat, catalog : Nat, gen : Generations]
Segments == [first : Nat, anchor : Projection \cup {None}, lines : Seq(Records),
             previous : Seq(Records) \cup {None}]
Files == UNION {[D -> Projection] : D \in SUBSET Nat}
Roots == [wal : Seq(Segments), ckpt : Files, manifest : Manifest \cup {None}]

-----------------------------------------------------------------------------
(* Replay of a projection over records.                                    *)

\* F is the projection after each of the records.
Replays(F, p, recs, b) ==
    /\ F \in [0..Len(recs) -> Projection] /\ F[0] = p
    /\ \A i \in 1..Len(recs) :
         F[i] = IF recs[i].cursor <= p.cursor THEN F[i - 1] ELSE Evaluate(F[i - 1], recs[i], b)

LEMMA EvaluateType ==
  ASSUME NEW p \in Projection, NEW r \in Records, NEW b \in Nat
  PROVE Evaluate(p, r, b) \in Projection /\ Evaluate(p, r, b).cursor = r.cursor
<1> DEFINE q == [p EXCEPT !.cursor = r.cursor, !.boot = b]
<1>1. q \in Projection /\ q.cursor = r.cursor
  BY DEF Projection, Records
<1> HIDE DEF q
<1>2. r.catalog \in Nat
  BY DEF Records
<1>3. /\ [q EXCEPT !.catalog = r.catalog, !.books = FALSE, !.stale = FALSE] \in Projection
      /\ [q EXCEPT !.catalog = r.catalog, !.books = FALSE, !.stale = FALSE].cursor = q.cursor
      /\ [q EXCEPT !.books = TRUE, !.gap = FALSE] \in Projection
      /\ [q EXCEPT !.books = TRUE, !.gap = FALSE].cursor = q.cursor
      /\ [q EXCEPT !.gap = TRUE] \in Projection /\ [q EXCEPT !.gap = TRUE].cursor = q.cursor
      /\ [q EXCEPT !.stale = TRUE] \in Projection /\ [q EXCEPT !.stale = TRUE].cursor = q.cursor
  BY <1>1, <1>2 DEF Projection
<1>4. \/ Evaluate(p, r, b) = [q EXCEPT !.catalog = r.catalog, !.books = FALSE, !.stale = FALSE]
      \/ Evaluate(p, r, b) = [q EXCEPT !.books = TRUE, !.gap = FALSE]
      \/ Evaluate(p, r, b) = [q EXCEPT !.gap = TRUE]
      \/ Evaluate(p, r, b) = [q EXCEPT !.stale = TRUE]
      \/ Evaluate(p, r, b) = q
  BY DEF Evaluate, q
<1>5. QED BY <1>1, <1>3, <1>4, Zenon

\* A recursion over 1..N has a solution.
Unrolls(S, base, N, step) ==
    \E f \in [0..N -> S] : f[0] = base /\ \A i \in 1..N : f[i] = step[i][f[i - 1]]

LEMMA RecursionUnrolls ==
  ASSUME NEW S, NEW base \in S, NEW N \in Nat, NEW step \in [1..N -> [S -> S]]
  PROVE Unrolls(S, base, N, step)
BY RecursionExists, SMT DEF Unrolls

LEMMA ReplayFun ==
  ASSUME NEW p \in Projection, NEW s \in Seq(Records), NEW b \in Nat
  PROVE \E F : Replays(F, p, s, b) /\ Replay(p, s, b) = F[Len(s)]
<1> DEFINE Next1(i, q) == IF s[i].cursor <= p.cursor THEN q ELSE Evaluate(q, s[i], b)
           step == [i \in 1..Len(s) |-> [q \in Projection |-> Next1(i, q)]]
           Def(G) == [i \in 0..Len(s) |-> IF i = 0 THEN p
                        ELSE IF s[i].cursor <= p.cursor THEN G[i - 1]
                        ELSE Evaluate(G[i - 1], s[i], b)]
<1>1. Len(s) \in Nat
  BY LenProperties
<1>11. \A i \in 1..Len(s) : \A q \in Projection : Next1(i, q) \in Projection
  <2> SUFFICES ASSUME NEW i \in 1..Len(s), NEW q \in Projection PROVE Next1(i, q) \in Projection
    OBVIOUS
  <2>1. s[i] \in Records
    BY ElementOfSeq
  <2>2. QED BY <2>1, EvaluateType
<1>2. step \in [1..Len(s) -> [Projection -> Projection]]
  BY <1>11
<1> HIDE DEF step
<1>31. Unrolls(Projection, p, Len(s), step)
  BY <1>1, <1>2, RecursionUnrolls
<1>3. PICK f \in [0..Len(s) -> Projection] : f[0] = p /\ \A i \in 1..Len(s) : f[i] = step[i][f[i - 1]]
  BY <1>31 DEF Unrolls
<1>4. \A i \in 1..Len(s) : f[i] = Next1(i, f[i - 1])
  <2>1. \A i \in 1..Len(s) : f[i - 1] \in Projection
    BY <1>1
  <2>2. \A i \in 1..Len(s) : \A q \in Projection : step[i][q] = Next1(i, q)
    BY DEF step
  <2> HIDE DEF Next1
  <2>3. QED BY <1>3, <2>1, <2>2
<1>0. \A G : /\ Def(G)[0] = p /\ DOMAIN Def(G) = 0..Len(s)
             /\ \A i \in 1..Len(s) : Def(G)[i] = Next1(i, G[i - 1])
  <2> SUFFICES ASSUME NEW G PROVE /\ Def(G)[0] = p /\ DOMAIN Def(G) = 0..Len(s)
             /\ \A i \in 1..Len(s) : Def(G)[i] = Next1(i, G[i - 1])
    OBVIOUS
  <2>1. 0 \in 0..Len(s) /\ \A i \in 1..Len(s) : i \in 0..Len(s) /\ i # 0
    BY <1>1
  <2>2. DOMAIN Def(G) = 0..Len(s)
    OBVIOUS
  <2>3. Def(G)[0] = p
    BY <2>1
  <2>4. ASSUME NEW i \in 1..Len(s) PROVE Def(G)[i] = Next1(i, G[i - 1])
    BY <2>1, Zenon
  <2>5. QED BY <2>2, <2>3, <2>4
<1>5. f = Def(f)
  <2>1. \A i \in 0..Len(s) : f[i] = Def(f)[i]
    <3> SUFFICES ASSUME NEW i \in 0..Len(s) PROVE f[i] = Def(f)[i]
      OBVIOUS
    <3>1. CASE i = 0
      BY <1>0, <1>3, <3>1, Zenon
    <3>2. CASE i \in 1..Len(s)
      BY <1>0, <1>4, <3>2, Zenon
    <3>3. QED BY <1>1, <3>1, <3>2
  <2>2. QED BY <2>1
<1> DEFINE F == CHOOSE G : G = Def(G)
<1>6. F = Def(F)
  BY <1>5
<1>7. Replay(p, s, b) = F[Len(s)]
  BY DEF Replay
<1> HIDE DEF F
<1>8. F[0] = p /\ \A i \in 1..Len(s) : F[i] = Next1(i, F[i - 1])
  BY <1>0, <1>6, ZenonT(40)
<1>9. F \in [0..Len(s) -> Projection]
  <2> DEFINE D == {n \in Nat : n <= Len(s) => F[n] \in Projection}
  <2>1. 0 \in D
    BY <1>8
  <2>2. ASSUME NEW n \in Nat, n \in D PROVE n + 1 \in D
    <3>1. SUFFICES ASSUME n + 1 <= Len(s) PROVE F[n + 1] \in Projection
      OBVIOUS
    <3>2. n + 1 \in 1..Len(s) /\ (n + 1) - 1 = n /\ F[n] \in Projection
      BY <1>1, <2>2, <3>1
    <3> HIDE DEF Next1
    <3>3. QED BY <1>8, <1>11, <3>2
  <2> HIDE DEF D
  <2>3. Nat \subseteq D
    BY <2>1, <2>2, NatSetInduction
  <2>4. \A n \in 0..Len(s) : F[n] \in Projection
    BY <1>1, <2>3 DEF D
  <2>5. DOMAIN F = 0..Len(s) /\ F = [i \in DOMAIN F |-> F[i]]
    BY <1>0, <1>6, Zenon
  <2>6. QED BY <2>4, <2>5
<1>10. Replays(F, p, s, b)
  BY <1>8, <1>9 DEF Replays
<1>12. QED BY <1>7, <1>10

LEMMA ReplayNone ==
  ASSUME NEW p \in Projection, NEW b \in Nat PROVE Replay(p, <<>>, b) = p
<1>1. <<>> \in Seq(Records) /\ Len(<<>>) = 0
  BY EmptySeq
<1>2. PICK F : Replays(F, p, <<>>, b) /\ Replay(p, <<>>, b) = F[Len(<<>>)]
  BY <1>1, ReplayFun
<1>3. QED BY <1>1, <1>2 DEF Replays

LEMMA ReplayType ==
  ASSUME NEW p \in Projection, NEW s \in Seq(Records), NEW b \in Nat
  PROVE Replay(p, s, b) \in Projection
<1>1. PICK F : Replays(F, p, s, b) /\ Replay(p, s, b) = F[Len(s)]
  BY ReplayFun
<1>2. QED BY <1>1, LenProperties DEF Replays

\* One more record.
LEMMA ReplayAppend ==
  ASSUME NEW p \in Projection, NEW s \in Seq(Records), NEW r \in Records, NEW b \in Nat
  PROVE Replay(p, Append(s, r), b)
          = IF r.cursor <= p.cursor THEN Replay(p, s, b) ELSE Evaluate(Replay(p, s, b), r, b)
<1> DEFINE t == Append(s, r)
           m == Len(s)
<1>1. /\ t \in Seq(Records) /\ Len(t) = m + 1 /\ m \in Nat /\ t[m + 1] = r
      /\ \A i \in 1..m : t[i] = s[i]
  BY AppendProperties, LenProperties
<1>2. PICK F : Replays(F, p, s, b) /\ Replay(p, s, b) = F[m]
  BY ReplayFun
<1>3. PICK G : Replays(G, p, t, b) /\ Replay(p, t, b) = G[Len(t)]
  BY <1>1, ReplayFun
<1> HIDE DEF t
<1> DEFINE D == {n \in Nat : n <= m => F[n] = G[n]}
<1>4. 0 \in D
  BY <1>2, <1>3 DEF Replays
<1>5. ASSUME NEW n \in Nat, n \in D PROVE n + 1 \in D
  <2> SUFFICES ASSUME n + 1 <= m PROVE F[n + 1] = G[n + 1]
    OBVIOUS
  <2>1. /\ n + 1 \in 1..Len(s) /\ n + 1 \in 1..Len(t) /\ (n + 1) - 1 = n /\ F[n] = G[n]
        /\ s[n + 1] = t[n + 1]
    BY <1>1, <1>5
  <2>2. /\ F[n + 1] = IF s[n + 1].cursor <= p.cursor THEN F[n] ELSE Evaluate(F[n], s[n + 1], b)
        /\ G[n + 1] = IF t[n + 1].cursor <= p.cursor THEN G[n] ELSE Evaluate(G[n], t[n + 1], b)
    BY <1>2, <1>3, <2>1 DEF Replays
  <2>3. QED BY <2>1, <2>2
<1> HIDE DEF D
<1>6. m \in D
  BY <1>1, <1>4, <1>5, NatSetInduction
<1>7. F[m] = G[m]
  BY <1>1, <1>6 DEF D
<1>8. G[m + 1] = IF r.cursor <= p.cursor THEN G[m] ELSE Evaluate(G[m], r, b)
  <2>1. m + 1 \in 1..Len(t) /\ (m + 1) - 1 = m
    BY <1>1
  <2>2. QED BY <1>1, <1>3, <2>1 DEF Replays
<1>9. QED BY <1>1, <1>2, <1>3, <1>7, <1>8 DEF t

-----------------------------------------------------------------------------
(* The records of a WAL.                                                   *)

\* F is the records of the first segments.
Gathers(F, w) ==
    /\ F \in [0..Len(w) -> Seq(Records)] /\ F[0] = <<>>
    /\ \A i \in 1..Len(w) : F[i] = F[i - 1] \o w[i].lines

LEMMA SegmentFields ==
  ASSUME NEW seg \in Segments
  PROVE /\ seg.lines \in Seq(Records) /\ seg.first \in Nat
        /\ seg.anchor \in Projection \cup {None} /\ seg.previous \in Seq(Records) \cup {None}
BY DEF Segments

LEMMA RecordsFun ==
  ASSUME NEW w \in Seq(Segments)
  PROVE \E F : Gathers(F, w) /\ RecordsOf(w) = F[Len(w)]
<1> DEFINE Next1(i, q) == q \o w[i].lines
           step == [i \in 1..Len(w) |-> [q \in Seq(Records) |-> Next1(i, q)]]
           Def(G) == [i \in 0..Len(w) |-> IF i = 0 THEN <<>> ELSE G[i - 1] \o w[i].lines]
<1>1. Len(w) \in Nat /\ <<>> \in Seq(Records)
  BY LenProperties, EmptySeq
<1>11. \A i \in 1..Len(w) : \A q \in Seq(Records) : Next1(i, q) \in Seq(Records)
  <2> SUFFICES ASSUME NEW i \in 1..Len(w), NEW q \in Seq(Records) PROVE Next1(i, q) \in Seq(Records)
    OBVIOUS
  <2>1. w[i] \in Segments
    BY ElementOfSeq
  <2>3. w[i].lines \in Seq(Records)
    BY <2>1, SegmentFields
  <2>2. QED BY <2>3, ConcatProperties
<1>2. step \in [1..Len(w) -> [Seq(Records) -> Seq(Records)]]
  BY <1>11
<1>20. \A i \in 1..Len(w) : \A q \in Seq(Records) : step[i][q] = Next1(i, q)
  OBVIOUS
<1> HIDE DEF step
<1>31. Unrolls(Seq(Records), <<>>, Len(w), step)
  BY <1>1, <1>2, RecursionUnrolls
<1>3. PICK f \in [0..Len(w) -> Seq(Records)] : f[0] = <<>> /\ \A i \in 1..Len(w) : f[i] = step[i][f[i - 1]]
  BY <1>31 DEF Unrolls
<1>4. \A i \in 1..Len(w) : f[i] = Next1(i, f[i - 1])
  <2>1. \A i \in 1..Len(w) : f[i - 1] \in Seq(Records)
    BY <1>1
  <2> HIDE DEF Next1
  <2>2. QED BY <1>3, <1>20, <2>1
<1>0. \A G : /\ Def(G)[0] = <<>> /\ DOMAIN Def(G) = 0..Len(w)
             /\ \A i \in 1..Len(w) : Def(G)[i] = Next1(i, G[i - 1])
  <2> SUFFICES ASSUME NEW G PROVE /\ Def(G)[0] = <<>> /\ DOMAIN Def(G) = 0..Len(w)
             /\ \A i \in 1..Len(w) : Def(G)[i] = Next1(i, G[i - 1])
    OBVIOUS
  <2>1. 0 \in 0..Len(w) /\ \A i \in 1..Len(w) : i \in 0..Len(w) /\ i # 0
    BY <1>1
  <2>2. DOMAIN Def(G) = 0..Len(w)
    OBVIOUS
  <2>3. Def(G)[0] = <<>>
    BY <2>1
  <2>4. ASSUME NEW i \in 1..Len(w) PROVE Def(G)[i] = Next1(i, G[i - 1])
    BY <2>1, Zenon
  <2>5. QED BY <2>2, <2>3, <2>4
<1>5. f = Def(f)
  <2>1. \A i \in 0..Len(w) : f[i] = Def(f)[i]
    <3> SUFFICES ASSUME NEW i \in 0..Len(w) PROVE f[i] = Def(f)[i]
      OBVIOUS
    <3>1. CASE i = 0
      BY <1>0, <1>3, <3>1, Zenon
    <3>2. CASE i \in 1..Len(w)
      BY <1>0, <1>4, <3>2, Zenon
    <3>3. QED BY <1>1, <3>1, <3>2, SMTT(30)
  <2>2. QED BY <2>1
<1> DEFINE F == CHOOSE G : G = Def(G)
<1>6. F = Def(F)
  BY <1>5
<1>7. RecordsOf(w) = F[Len(w)]
  BY DEF RecordsOf
<1> HIDE DEF F
<1>8. F[0] = <<>> /\ \A i \in 1..Len(w) : F[i] = Next1(i, F[i - 1])
  BY <1>0, <1>6, Zenon
<1>9. F \in [0..Len(w) -> Seq(Records)]
  <2> DEFINE D == {n \in Nat : n <= Len(w) => F[n] \in Seq(Records)}
  <2>1. 0 \in D
    BY <1>1, <1>8
  <2>2. ASSUME NEW n \in Nat, n \in D PROVE n + 1 \in D
    <3>1. SUFFICES ASSUME n + 1 <= Len(w) PROVE F[n + 1] \in Seq(Records)
      OBVIOUS
    <3>2. n + 1 \in 1..Len(w) /\ (n + 1) - 1 = n /\ F[n] \in Seq(Records)
      BY <1>1, <2>2, <3>1
    <3> HIDE DEF Next1
    <3>3. QED BY <1>8, <1>11, <3>2
  <2> HIDE DEF D
  <2>3. Nat \subseteq D
    BY <2>1, <2>2, NatSetInduction
  <2>4. \A n \in 0..Len(w) : F[n] \in Seq(Records)
    BY <1>1, <2>3 DEF D
  <2>5. DOMAIN F = 0..Len(w) /\ F = [i \in DOMAIN F |-> F[i]]
    BY <1>0, <1>6, Zenon
  <2>6. QED BY <2>4, <2>5
<1>10. Gathers(F, w)
  BY <1>8, <1>9 DEF Gathers
<1>12. QED BY <1>7, <1>10

\* What the same first segments hold is the same.
LEMMA GathersSame ==
  ASSUME NEW w \in Seq(Segments), NEW v \in Seq(Segments), NEW F, NEW G, Gathers(F, w), Gathers(G, v),
         NEW n \in Nat, n <= Len(w), n <= Len(v), \A i \in 1..n : w[i] = v[i]
  PROVE F[n] = G[n]
<1>0. Len(w) \in Nat /\ Len(v) \in Nat
  BY LenProperties
<1> DEFINE D == {k \in Nat : k <= n => F[k] = G[k]}
<1>1. 0 \in D
  BY DEF Gathers
<1>2. ASSUME NEW k \in Nat, k \in D PROVE k + 1 \in D
  <2> SUFFICES ASSUME k + 1 <= n PROVE F[k + 1] = G[k + 1]
    OBVIOUS
  <2>1. /\ k + 1 \in 1..Len(w) /\ k + 1 \in 1..Len(v) /\ (k + 1) - 1 = k /\ F[k] = G[k]
        /\ w[k + 1] = v[k + 1]
    BY <1>0, <1>2
  <2>2. F[k + 1] = F[k] \o w[k + 1].lines /\ G[k + 1] = G[k] \o v[k + 1].lines
    BY <2>1 DEF Gathers
  <2>3. QED BY <2>1, <2>2
<1> HIDE DEF D
<1>3. n \in D
  BY <1>1, <1>2, NatSetInduction
<1>4. QED BY <1>3 DEF D

LEMMA RecordsNone == RecordsOf(<<>>) = <<>>
<1>1. <<>> \in Seq(Segments) /\ Len(<<>>) = 0
  BY EmptySeq
<1>2. PICK F : Gathers(F, <<>>) /\ RecordsOf(<<>>) = F[Len(<<>>)]
  BY <1>1, RecordsFun
<1>3. QED BY <1>1, <1>2 DEF Gathers

LEMMA RecordsType == ASSUME NEW w \in Seq(Segments) PROVE RecordsOf(w) \in Seq(Records)
<1>1. PICK F : Gathers(F, w) /\ RecordsOf(w) = F[Len(w)]
  BY RecordsFun
<1>2. QED BY <1>1, LenProperties DEF Gathers

\* The records of two WALs that differ in the last segment.
LEMMA RecordsLast ==
  ASSUME NEW w \in Seq(Segments), NEW n \in Nat, Len(w) = n + 1
  PROVE \E front \in Seq(Records) :
          /\ RecordsOf(w) = front \o w[n + 1].lines
          /\ \A v \in Seq(Segments) : Len(v) = n + 1 /\ (\A i \in 1..n : v[i] = w[i])
               => RecordsOf(v) = front \o v[n + 1].lines
          /\ \A v \in Seq(Segments) : Len(v) = n /\ (\A i \in 1..n : v[i] = w[i])
               => RecordsOf(v) = front
<1>1. PICK F : Gathers(F, w) /\ RecordsOf(w) = F[Len(w)]
  BY RecordsFun
<1>2. n \in 0..Len(w) /\ n + 1 \in 1..Len(w) /\ (n + 1) - 1 = n /\ n <= Len(w)
  OBVIOUS
<1>3. F[n] \in Seq(Records) /\ RecordsOf(w) = F[n] \o w[n + 1].lines
  BY <1>1, <1>2 DEF Gathers
<1>4. ASSUME NEW v \in Seq(Segments), Len(v) = n + 1, \A i \in 1..n : v[i] = w[i]
      PROVE RecordsOf(v) = F[n] \o v[n + 1].lines
  <2>1. PICK G : Gathers(G, v) /\ RecordsOf(v) = G[Len(v)]
    BY RecordsFun
  <2>2. n <= Len(v) /\ n + 1 \in 1..Len(v)
    BY <1>4
  <2>3. F[n] = G[n]
    BY <1>1, <1>2, <1>4, <2>1, <2>2, GathersSame
  <2>4. QED BY <1>2, <1>4, <2>1, <2>2, <2>3 DEF Gathers
<1>5. ASSUME NEW v \in Seq(Segments), Len(v) = n, \A i \in 1..n : v[i] = w[i]
      PROVE RecordsOf(v) = F[n]
  <2>1. PICK G : Gathers(G, v) /\ RecordsOf(v) = G[Len(v)]
    BY RecordsFun
  <2>2. n <= Len(v)
    BY <1>5
  <2>3. F[n] = G[n]
    BY <1>1, <1>2, <1>5, <2>1, <2>2, GathersSame
  <2>4. QED BY <1>5, <2>1, <2>3
<1>6. QED BY <1>3, <1>4, <1>5

-----------------------------------------------------------------------------
(* New segments and new records keep the chain.                            *)

Linked(w) ==
    \A i \in DOMAIN w :
        /\ w[i].previous = IF i = 1 THEN None ELSE w[i - 1].lines
        /\ w[i].anchor # None => w[i].first = w[i].anchor.cursor + 1
Consecutive(recs) == \A i \in 1..Len(recs) - 1 : recs[i + 1].cursor = recs[i].cursor + 1
AnchoredIn(w, p) == \E i \in DOMAIN w : w[i].anchor = p

LEMMA VerifyIs ==
  ASSUME NEW R PROVE Verify(R) <=> Linked(R.wal) /\ Consecutive(RecordsOf(R.wal))
BY DEF Verify, Linked, Consecutive

LEMMA SegmentAdded ==
  ASSUME NEW w \in Seq(Segments), NEW first \in Nat, NEW anchor \in Projection \cup {None},
         Linked(w), anchor # None => first = anchor.cursor + 1
  PROVE LET v == Append(w, Segment(w, first, anchor)) IN
        /\ v \in Seq(Segments) /\ v # <<>> /\ Linked(v) /\ RecordsOf(v) = RecordsOf(w)
        /\ AnchoredIn(v, anchor) /\ \A q : AnchoredIn(w, q) => AnchoredIn(v, q)
<1> DEFINE seg == Segment(w, first, anchor)
           v == Append(w, seg)
           n == Len(w)
<1>1. n \in Nat /\ DOMAIN w = 1..n /\ (w # <<>> => n \in 1..n /\ Last(w) = w[n])
  BY LenProperties, EmptySeq DEF Last
<1>11. w = <<>> <=> n = 0
  BY <1>1, EmptySeq
<1>2. /\ seg.first = first /\ seg.anchor = anchor /\ seg.lines = <<>>
      /\ seg.previous = IF n = 0 THEN None ELSE w[n].lines
  BY <1>1, <1>11 DEF Segment
<1>3. seg \in Segments
  <2>1. <<>> \in Seq(Records)
    BY EmptySeq
  <2>2. w # <<>> => Last(w).lines \in Seq(Records)
    <3>1. w # <<>> => w[n] \in Segments
      BY <1>1, ElementOfSeq
    <3>2. QED BY <1>1, <3>1, SegmentFields
  <2>3. QED BY <2>1, <2>2 DEF Segment, Segments
<1> HIDE DEF seg
<1>4. /\ v \in Seq(Segments) /\ v # <<>> /\ Len(v) = n + 1 /\ v[n + 1] = seg
      /\ \A i \in 1..n : v[i] = w[i]
  BY <1>3, AppendProperties
<1> HIDE DEF v
<1>5. DOMAIN v = 1..(n + 1)
  BY <1>4, LenProperties
<1>6. Linked(v)
  <2> SUFFICES ASSUME NEW i \in DOMAIN v
               PROVE /\ v[i].previous = IF i = 1 THEN None ELSE v[i - 1].lines
                     /\ v[i].anchor # None => v[i].first = v[i].anchor.cursor + 1
    BY DEF Linked
  <2>1. CASE i \in 1..n
    <3>1. v[i] = w[i] /\ (i # 1 => i - 1 \in 1..n)
      BY <1>1, <1>4, <2>1
    <3>2. i # 1 => v[i - 1] = w[i - 1]
      BY <1>4, <3>1
    <3>3. QED BY <1>1, <2>1, <3>1, <3>2 DEF Linked
  <2>2. CASE i = n + 1
    <3>1. n # 0 => v[n] = w[n]
      BY <1>1, <1>4
    <3>2. (n + 1) - 1 = n /\ (n + 1 = 1 <=> n = 0)
      BY <1>1
    <3>3. QED BY <1>2, <1>4, <2>2, <3>1, <3>2
  <2>3. QED BY <1>1, <1>5, <2>1, <2>2
<1>7. RecordsOf(v) = RecordsOf(w)
  <2>1. PICK front \in Seq(Records) :
          /\ RecordsOf(v) = front \o v[n + 1].lines
          /\ \A u \in Seq(Segments) : Len(u) = n /\ (\A i \in 1..n : u[i] = v[i])
               => RecordsOf(u) = front
    BY <1>1, <1>4, RecordsLast
  <2>2. RecordsOf(w) = front
    BY <1>4, <2>1
  <2>3. QED BY <1>2, <1>4, <2>1, <2>2, ConcatEmptySeq
<1>8. AnchoredIn(v, anchor) /\ \A q : AnchoredIn(w, q) => AnchoredIn(v, q)
  <2>1. n + 1 \in DOMAIN v /\ v[n + 1].anchor = anchor
    BY <1>1, <1>2, <1>4, <1>5
  <2>2. \A i \in DOMAIN w : i \in DOMAIN v /\ v[i] = w[i]
    BY <1>1, <1>4, <1>5
  <2>3. QED BY <2>1, <2>2 DEF AnchoredIn
<1>9. QED BY <1>4, <1>6, <1>7, <1>8 DEF v, seg

LEMMA LinesAdded ==
  ASSUME NEW w \in Seq(Segments), w # <<>>, Linked(w), NEW recs \in Seq(Records)
  PROVE LET v == [w EXCEPT ![Len(w)].lines = @ \o recs] IN
        /\ v \in Seq(Segments) /\ v # <<>> /\ Linked(v) /\ RecordsOf(v) = RecordsOf(w) \o recs
        /\ \A q : AnchoredIn(w, q) => AnchoredIn(v, q)
<1> DEFINE n == Len(w)
           seg == [w[n] EXCEPT !.lines = @ \o recs]
           v == [w EXCEPT ![n] = seg]
<1>1. n \in Nat \ {0} /\ n \in 1..n /\ DOMAIN w = 1..n /\ w[n] \in Segments
  BY LenProperties, EmptySeq, ElementOfSeq
<1>2. w[n].lines \in Seq(Records) /\ w[n].lines \o recs \in Seq(Records)
  BY <1>1, ConcatProperties DEF Segments
<1>3. /\ seg \in Segments /\ seg.lines = w[n].lines \o recs /\ seg.anchor = w[n].anchor
      /\ seg.first = w[n].first /\ seg.previous = w[n].previous
  BY <1>1, <1>2 DEF Segments
<1>4. [w EXCEPT ![Len(w)].lines = @ \o recs] = v
  OBVIOUS
<1> HIDE DEF seg
<1>5. /\ v \in Seq(Segments) /\ Len(v) = n /\ v[n] = seg /\ \A i \in 1..n : i # n => v[i] = w[i]
  BY <1>1, <1>3, ExceptSeq
<1> HIDE DEF v
<1>6. DOMAIN v = 1..n /\ v # <<>>
  BY <1>1, <1>5, LenProperties, EmptySeq
<1>7. Linked(v)
  <2> SUFFICES ASSUME NEW i \in DOMAIN v
               PROVE /\ v[i].previous = IF i = 1 THEN None ELSE v[i - 1].lines
                     /\ v[i].anchor # None => v[i].first = v[i].anchor.cursor + 1
    BY DEF Linked
  <2>1. v[i].previous = w[i].previous /\ v[i].anchor = w[i].anchor /\ v[i].first = w[i].first
    BY <1>3, <1>5, <1>6
  <2>2. i # 1 => i - 1 \in 1..n /\ i - 1 # n
    BY <1>1, <1>6
  <2>3. i # 1 => v[i - 1] = w[i - 1]
    BY <1>5, <2>2
  <2>4. QED BY <1>1, <1>6, <2>1, <2>3 DEF Linked
<1>8. RecordsOf(v) = RecordsOf(w) \o recs
  <2>0. PICK k \in Nat : n = k + 1
    <3>1. n - 1 \in Nat /\ n = (n - 1) + 1
      BY <1>1
    <3>2. QED BY <3>1
  <2>1. PICK front \in Seq(Records) :
          /\ RecordsOf(w) = front \o w[k + 1].lines
          /\ \A u \in Seq(Segments) : Len(u) = k + 1 /\ (\A i \in 1..k : u[i] = w[i])
               => RecordsOf(u) = front \o u[k + 1].lines
    BY <2>0, RecordsLast
  <2>2. \A i \in 1..k : v[i] = w[i]
    BY <1>5, <2>0
  <2>3. RecordsOf(v) = front \o seg.lines
    BY <1>5, <2>0, <2>1, <2>2
  <2>4. RecordsOf(v) = front \o (w[n].lines \o recs)
    BY <1>3, <2>3
  <2>5. RecordsOf(w) = front \o w[n].lines
    BY <2>0, <2>1
  <2>6. \A x \in Seq(Records) : (front \o x) \o recs = front \o (x \o recs)
    BY ConcatAssociative
  <2>7. QED BY <1>2, <2>4, <2>5, <2>6, Zenon
<1>9. \A q : AnchoredIn(w, q) => AnchoredIn(v, q)
  <2>1. \A i \in DOMAIN w : i \in DOMAIN v /\ v[i].anchor = w[i].anchor
    BY <1>1, <1>3, <1>5, <1>6
  <2>2. QED BY <2>1 DEF AnchoredIn
<1>10. QED BY <1>4, <1>5, <1>6, <1>7, <1>8, <1>9

-----------------------------------------------------------------------------
(* Projections that differ in their stamp only.                            *)

Agree(p, q) ==
    /\ p.cursor = q.cursor /\ p.catalog = q.catalog /\ p.books = q.books /\ p.gap = q.gap

LEMMA AgreeCommitted ==
  ASSUME NEW p \in Projection, NEW q \in Projection, Agree(p, q)
  PROVE Committed(p) = Committed(q)
BY DEF Agree, Committed, Projection

LEMMA PruneFields ==
  ASSUME NEW p \in Projection
  PROVE /\ Prune(p) \in Projection /\ Prune(p).stale = FALSE /\ Agree(Prune(p), p)
        /\ p.stale = FALSE => Prune(p) = p
<1>1. /\ Prune(p) \in Projection /\ Prune(p).stale = FALSE /\ Prune(p).cursor = p.cursor
      /\ Prune(p).boot = p.boot /\ Prune(p).catalog = p.catalog /\ Prune(p).books = p.books
      /\ Prune(p).gap = p.gap
  BY DEF Prune, Projection
<1>2. p.stale = FALSE => Prune(p) = p
  BY <1>1 DEF Projection
<1>3. QED BY <1>1, <1>2 DEF Agree

LEMMA BootstrapFields ==
  ASSUME NEW b \in Nat
  PROVE /\ Bootstrap(b) \in Projection /\ Bootstrap(b).cursor = 0 /\ Bootstrap(b).stale = FALSE
        /\ \A a \in Nat : Agree(Bootstrap(a), Bootstrap(b))
BY DEF Bootstrap, Projection, Agree

LEMMA EvaluateFields ==
  ASSUME NEW p \in Projection, NEW r \in Records, NEW b \in Nat
  PROVE /\ Evaluate(p, r, b) \in Projection
        /\ Evaluate(p, r, b).cursor = r.cursor
        /\ Evaluate(p, r, b).catalog = IF r.kind = "catalog" THEN r.catalog ELSE p.catalog
        /\ Evaluate(p, r, b).books = IF r.kind = "catalog" THEN FALSE
                                     ELSE IF r.kind = "book" THEN TRUE ELSE p.books
        /\ Evaluate(p, r, b).gap = IF r.kind = "book" THEN FALSE
                                   ELSE IF r.kind = "gap" THEN TRUE ELSE p.gap
        /\ r.kind # "late" /\ p.stale = FALSE => Evaluate(p, r, b).stale = FALSE
<1> DEFINE q == [p EXCEPT !.cursor = r.cursor, !.boot = b]
           e == Evaluate(p, r, b)
<1>1. /\ q \in Projection /\ q.cursor = r.cursor /\ q.catalog = p.catalog /\ q.books = p.books
      /\ q.gap = p.gap /\ q.stale = p.stale
  BY DEF Projection, Records
<1>2. e \in Projection /\ e.cursor = r.cursor
  BY EvaluateType
<1>3. CASE r.kind = "catalog"
  <2>1. e = [q EXCEPT !.catalog = r.catalog, !.books = FALSE, !.stale = FALSE]
    BY <1>3 DEF Evaluate
  <2> HIDE DEF q
  <2>2. e.catalog = r.catalog /\ e.books = FALSE /\ e.stale = FALSE /\ e.gap = q.gap
    BY <1>1, <2>1 DEF Projection
  <2>3. QED BY <1>1, <1>2, <1>3, <2>2
<1>4. CASE r.kind = "book"
  <2>1. e = [q EXCEPT !.books = TRUE, !.gap = FALSE]
    BY <1>4 DEF Evaluate
  <2> HIDE DEF q
  <2>2. e.catalog = q.catalog /\ e.books = TRUE /\ e.stale = q.stale /\ e.gap = FALSE
    BY <1>1, <2>1 DEF Projection
  <2>3. QED BY <1>1, <1>2, <1>4, <2>2
<1>5. CASE r.kind = "gap"
  <2>1. e = [q EXCEPT !.gap = TRUE]
    BY <1>5 DEF Evaluate
  <2> HIDE DEF q
  <2>2. e.catalog = q.catalog /\ e.books = q.books /\ e.stale = q.stale /\ e.gap = TRUE
    BY <1>1, <2>1 DEF Projection
  <2>3. QED BY <1>1, <1>2, <1>5, <2>2
<1>6. CASE r.kind = "late"
  <2>1. e = [q EXCEPT !.stale = TRUE]
    BY <1>6 DEF Evaluate
  <2> HIDE DEF q
  <2>2. e.catalog = q.catalog /\ e.books = q.books /\ e.gap = q.gap
    BY <1>1, <2>1 DEF Projection
  <2>3. QED BY <1>1, <1>2, <1>6, <2>2
<1>7. CASE r.kind \notin {"catalog", "book", "gap", "late"}
  <2>1. e = q
    BY <1>7 DEF Evaluate
  <2> HIDE DEF q
  <2>3. QED BY <1>1, <1>2, <1>7, <2>1
<1>8. QED BY <1>3, <1>4, <1>5, <1>6, <1>7

\* A full book leaves the catalog and brings the cursor to its own.
LEMMA BookEvaluates ==
  ASSUME NEW p \in Projection, NEW r \in Records, NEW b \in Nat, r.kind = "book"
  PROVE Evaluate(p, r, b).catalog = p.catalog /\ Evaluate(p, r, b).cursor = r.cursor
<1> DEFINE q == [p EXCEPT !.cursor = r.cursor, !.boot = b]
           e == Evaluate(p, r, b)
<1>1. q \in Projection /\ q.cursor = r.cursor /\ q.catalog = p.catalog
  BY DEF Projection, Records
<1>2. e = [q EXCEPT !.books = TRUE, !.gap = FALSE]
  BY DEF Evaluate
<1> HIDE DEF q
<1>3. e.catalog = q.catalog /\ e.cursor = q.cursor
  BY <1>1, <1>2 DEF Projection
<1>4. QED BY <1>1, <1>3

LEMMA EvaluateAgree ==
  ASSUME NEW p \in Projection, NEW q \in Projection, NEW r \in Records, NEW a \in Nat, NEW b \in Nat,
         Agree(p, q)
  PROVE Agree(Evaluate(p, r, a), Evaluate(q, r, b))
<1>1. /\ Evaluate(p, r, a).cursor = r.cursor /\ Evaluate(q, r, b).cursor = r.cursor
      /\ Evaluate(p, r, a).catalog = IF r.kind = "catalog" THEN r.catalog ELSE p.catalog
      /\ Evaluate(q, r, b).catalog = IF r.kind = "catalog" THEN r.catalog ELSE q.catalog
      /\ Evaluate(p, r, a).books = IF r.kind = "catalog" THEN FALSE
                                   ELSE IF r.kind = "book" THEN TRUE ELSE p.books
      /\ Evaluate(q, r, b).books = IF r.kind = "catalog" THEN FALSE
                                   ELSE IF r.kind = "book" THEN TRUE ELSE q.books
      /\ Evaluate(p, r, a).gap = IF r.kind = "book" THEN FALSE ELSE IF r.kind = "gap" THEN TRUE ELSE p.gap
      /\ Evaluate(q, r, b).gap = IF r.kind = "book" THEN FALSE ELSE IF r.kind = "gap" THEN TRUE ELSE q.gap
  BY EvaluateFields, Zenon
<1>2. QED BY <1>1, Zenon DEF Agree

\* Records that p has seen change nothing.
LEMMA ReplayNothing ==
  ASSUME NEW p \in Projection, NEW s \in Seq(Records), NEW b \in Nat,
         \A i \in DOMAIN s : s[i].cursor <= p.cursor
  PROVE Replay(p, s, b) = p
<1>0. Len(s) \in Nat /\ DOMAIN s = 1..Len(s)
  BY LenProperties
<1>1. PICK F : Replays(F, p, s, b) /\ Replay(p, s, b) = F[Len(s)]
  BY ReplayFun
<1> DEFINE D == {n \in Nat : n <= Len(s) => F[n] = p}
<1>2. 0 \in D
  BY <1>1 DEF Replays
<1>3. ASSUME NEW n \in Nat, n \in D PROVE n + 1 \in D
  <2> SUFFICES ASSUME n + 1 <= Len(s) PROVE F[n + 1] = p
    OBVIOUS
  <2>1. n + 1 \in 1..Len(s) /\ (n + 1) - 1 = n /\ F[n] = p /\ s[n + 1].cursor <= p.cursor
    BY <1>0, <1>3
  <2>2. QED BY <1>1, <2>1 DEF Replays
<1> HIDE DEF D
<1>4. Len(s) \in D
  BY <1>0, <1>2, <1>3, NatSetInduction
<1>5. QED BY <1>1, <1>4 DEF D

-----------------------------------------------------------------------------
(* Roots from which a process recovers p.                                  *)

\* Replaying the records over c gives p, whatever the stamps.
Reaches(c, recs, p) ==
    /\ p.cursor > c.cursor => \E i \in DOMAIN recs : recs[i].cursor = c.cursor + 1
    /\ \A b \in Nat : Agree(Replay(c, recs, b), p)

\* The records end at cursor n.
Ends(recs, n) ==
    /\ \A i \in DOMAIN recs : recs[i].cursor <= n
    /\ recs # <<>> => recs[Len(recs)].cursor = n

\* The manifest's current checkpoint is usable, and p is what follows it.
Names(R, m, p) ==
    /\ m.current.stale = FALSE /\ AnchoredIn(R.wal, m.current) /\ Loads(R, m.current)
    /\ m.current.cursor <= p.cursor /\ (m.current.cursor = p.cursor => m.current = p)
    /\ ValidParentLineage(m) /\ Reaches(m.current, RecordsOf(R.wal), p)

Sound(R, p) ==
    /\ Linked(R.wal) /\ Consecutive(RecordsOf(R.wal)) /\ p.stale = FALSE
    /\ Ends(RecordsOf(R.wal), p.cursor)
    /\ R.manifest = None => \A b \in Nat : Reaches(Bootstrap(b), RecordsOf(R.wal), p)
    /\ R.manifest # None => Names(R, R.manifest, p)

LEMMA RootFields ==
  ASSUME NEW R \in Roots
  PROVE /\ R.wal \in Seq(Segments) /\ R.ckpt \in Files /\ R.manifest \in Manifest \cup {None}
        /\ RecordsOf(R.wal) \in Seq(Records)
BY RecordsType DEF Roots

LEMMA ManifestFields ==
  ASSUME NEW m \in Manifest
  PROVE /\ m.current \in Projection /\ m.previous \in Projection \cup {None}
        /\ m.lineage \in Projection \cup {None}
BY DEF Manifest

LEMMA RecoverSound ==
  ASSUME NEW R \in Roots, NEW p \in Projection, NEW b \in Nat, Sound(R, p)
  PROVE LET q == RecoverProjection(R, b) IN
        q \in Projection /\ q # None /\ q.stale = FALSE /\ Agree(q, p) /\ Sound(R, q)
<1> DEFINE recs == RecordsOf(R.wal)
           m == R.manifest
           usable(c) == c # None /\ Anchored(R, c) /\ Loads(R, c)
           contiguous(c) == (\E i \in DOMAIN recs : recs[i].cursor > c.cursor)
                             => \E i \in DOMAIN recs : recs[i].cursor = c.cursor + 1
           from(c) == IF contiguous(c) THEN Prune(Replay(Prune(c), recs, b)) ELSE None
           q == RecoverProjection(R, b)
<1>1. /\ recs \in Seq(Records) /\ m \in Manifest \cup {None} /\ p.cursor \in Nat
      /\ None \notin Projection
  BY RootFields, NoneAssumption DEF Projection
<1>2. Verify(R) /\ Ends(recs, p.cursor)
  BY VerifyIs DEF Sound
<1> HIDE DEF recs, m
<1>3. \A i \in DOMAIN recs : recs[i].cursor \in Nat
  <2> SUFFICES ASSUME NEW i \in DOMAIN recs PROVE recs[i].cursor \in Nat
    OBVIOUS
  <2>1. recs[i] \in Records
    BY <1>1, LenProperties, ElementOfSeq
  <2>2. QED BY <2>1 DEF Records
\* What a checkpoint c of which p is the outcome gives.
<1>4. ASSUME NEW c \in Projection, c.stale = FALSE, Reaches(c, recs, p)
      PROVE /\ from(c) \in Projection /\ from(c).stale = FALSE /\ Agree(from(c), p)
            /\ (\A i \in DOMAIN recs : recs[i].cursor <= c.cursor) => from(c) = c
  <2>1. Prune(c) = c /\ c.cursor \in Nat
    BY <1>4, PruneFields DEF Projection
  <2>2. contiguous(c)
    <3> SUFFICES ASSUME NEW i \in DOMAIN recs, recs[i].cursor > c.cursor
                 PROVE \E k \in DOMAIN recs : recs[k].cursor = c.cursor + 1
      OBVIOUS
    <3>1. recs[i].cursor <= p.cursor
      BY <1>2 DEF Ends
    <3>2. p.cursor > c.cursor
      BY <1>1, <1>3, <2>1, <3>1
    <3>3. QED BY <1>4, <3>2 DEF Reaches
  <2>3. from(c) = Prune(Replay(c, recs, b))
    BY <2>1, <2>2
  <2> HIDE DEF from
  <2>4. Replay(c, recs, b) \in Projection /\ Agree(Replay(c, recs, b), p)
    BY <1>1, <1>4, ReplayType DEF Reaches
  <2>5. from(c) \in Projection /\ from(c).stale = FALSE /\ Agree(from(c), Replay(c, recs, b))
    BY <2>3, <2>4, PruneFields
  <2>6. (\A i \in DOMAIN recs : recs[i].cursor <= c.cursor) => from(c) = c
    BY <1>1, <2>1, <2>3, ReplayNothing
  <2>7. QED BY <2>4, <2>5, <2>6 DEF Agree
<1>5. CASE m = None
  <2>1. q = from(Bootstrap(b))
    BY <1>2, <1>5 DEF RecoverProjection, recs, m
  <2>2. Bootstrap(b) \in Projection /\ Bootstrap(b).stale = FALSE /\ Reaches(Bootstrap(b), recs, p)
    BY <1>5, BootstrapFields DEF Sound, recs, m
  <2> HIDE DEF q, from
  <2>3. q \in Projection /\ q.stale = FALSE /\ Agree(q, p)
    BY <1>4, <2>1, <2>2
  <2>4. \A a \in Nat : Reaches(Bootstrap(a), recs, q)
    BY <1>5, <2>3 DEF Sound, Reaches, Agree, recs, m
  <2>5. Sound(R, q)
    BY <1>5, <2>3, <2>4 DEF Sound, Agree, recs, m
  <2>6. QED BY <1>1, <2>3, <2>5 DEF q
<1>6. CASE m # None
  <2>1. m \in Manifest /\ Names(R, m, p)
    BY <1>1, <1>6 DEF Sound, m
  <2> DEFINE c == m.current
  <2>2. c \in Projection /\ c # None
    BY <1>1, <2>1, ManifestFields
  <2>3. usable(c) /\ ValidParentLineage(m)
    BY <2>1, <2>2 DEF Names, Anchored, AnchoredIn
  <2>4. q = from(c)
    BY <1>2, <1>6, <2>3 DEF RecoverProjection, recs, m
  <2>5. c.stale = FALSE /\ Reaches(c, recs, p)
    BY <2>1 DEF Names, recs
  <2> HIDE DEF q, from, c
  <2>6. q \in Projection /\ q.stale = FALSE /\ Agree(q, p)
    BY <1>4, <2>2, <2>4, <2>5
  <2>7. Reaches(c, recs, q)
    BY <2>5, <2>6 DEF Reaches, Agree
  <2>8. c.cursor = q.cursor => c = q
    <3> SUFFICES ASSUME c.cursor = q.cursor PROVE c = q
      OBVIOUS
    <3>1. \A i \in DOMAIN recs : recs[i].cursor <= c.cursor
      BY <1>2, <2>6 DEF Ends, Agree
    <3>2. QED BY <1>4, <2>2, <2>4, <2>5, <3>1
  <2>9. Names(R, m, q)
    BY <2>1, <2>6, <2>7, <2>8 DEF Names, Agree, recs, c
  <2>10. Sound(R, q)
    BY <1>6, <2>6, <2>9 DEF Sound, Agree, m
  <2>11. QED BY <1>1, <2>6, <2>10 DEF q
<1>7. QED BY <1>5, <1>6

-----------------------------------------------------------------------------
(* A record is appended.                                                   *)

LEMMA AppendRoot ==
  ASSUME NEW R \in Roots, NEW r \in Records, Linked(R.wal), NEW S, S = AppendOutcomes(R, <<r>>)
  PROVE /\ S \in Roots /\ S.ckpt = R.ckpt /\ S.manifest = R.manifest /\ Linked(S.wal)
        /\ RecordsOf(S.wal) = Append(RecordsOf(R.wal), r)
        /\ \A q : AnchoredIn(R.wal, q) => AnchoredIn(S.wal, q)
<1> DEFINE w == R.wal
           full == w = <<>> \/ Len(Last(w).lines) >= SegmentRecords
           v == IF full THEN Append(w, Segment(w, r.cursor, None)) ELSE w
           u == [v EXCEPT ![Len(v)].lines = @ \o <<r>>]
<1>1. w \in Seq(Segments) /\ r.cursor \in Nat /\ <<r>> \in Seq(Records) /\ None \in Projection \cup {None}
  BY RootFields DEF Records
<1>2. S = [R EXCEPT !.wal = u]
  BY DEF AppendOutcomes
<1>3. /\ v \in Seq(Segments) /\ v # <<>> /\ Linked(v) /\ RecordsOf(v) = RecordsOf(w)
      /\ \A q : AnchoredIn(w, q) => AnchoredIn(v, q)
  <2>1. CASE full
    <3>1. v = Append(w, Segment(w, r.cursor, None))
      BY <2>1
    <3> HIDE DEF v, w
    <3>2. Linked(w)
      BY DEF w
    <3>3. QED BY <1>1, <3>1, <3>2, SegmentAdded
  <2>2. CASE ~full
    BY <1>1, <2>2
  <2>3. QED BY <2>1, <2>2
<1> HIDE DEF v
<1>4. /\ u \in Seq(Segments) /\ Linked(u) /\ RecordsOf(u) = RecordsOf(v) \o <<r>>
      /\ \A q : AnchoredIn(v, q) => AnchoredIn(u, q)
  BY <1>1, <1>3, LinesAdded
<1> HIDE DEF u
<1>5. RecordsOf(w) \in Seq(Records)
  BY <1>1, RecordsType
<1>6. RecordsOf(u) = Append(RecordsOf(w), r)
  BY <1>3, <1>4, <1>5, AppendIsConcat
<1>7. S \in Roots /\ S.wal = u /\ S.ckpt = R.ckpt /\ S.manifest = R.manifest
  BY <1>2, <1>4 DEF Roots
<1>8. QED BY <1>3, <1>4, <1>6, <1>7

LEMMA ReachesMore ==
  ASSUME NEW c \in Projection, NEW recs \in Seq(Records), NEW p \in Projection, NEW r \in Records,
         NEW a \in Nat, Reaches(c, recs, p), c.cursor <= p.cursor, r.cursor = p.cursor + 1
  PROVE Reaches(c, Append(recs, r), Evaluate(p, r, a))
<1> DEFINE t == Append(recs, r)
<1>1. /\ Len(t) = Len(recs) + 1 /\ t[Len(recs) + 1] = r /\ \A i \in 1..Len(recs) : t[i] = recs[i]
      /\ Len(recs) \in Nat /\ DOMAIN recs = 1..Len(recs) /\ DOMAIN t = 1..Len(t)
  BY AppendProperties, LenProperties
<1>2. c.cursor \in Nat /\ p.cursor \in Nat /\ Evaluate(p, r, a).cursor = p.cursor + 1
  BY EvaluateFields DEF Projection
<1>3. \E i \in DOMAIN t : t[i].cursor = c.cursor + 1
  <2>1. CASE p.cursor > c.cursor
    <3>1. PICK i \in DOMAIN recs : recs[i].cursor = c.cursor + 1
      BY <2>1 DEF Reaches
    <3>2. i \in DOMAIN t /\ t[i] = recs[i]
      BY <1>1
    <3> HIDE DEF t
    <3>3. QED BY <3>1, <3>2
  <2>2. CASE p.cursor = c.cursor
    <3>1. Len(recs) + 1 \in DOMAIN t
      BY <1>1
    <3>2. t[Len(recs) + 1].cursor = c.cursor + 1
      BY <1>1, <2>2
    <3> HIDE DEF t
    <3>3. QED BY <3>1, <3>2
  <2>3. QED BY <1>2, <2>1, <2>2
<1>4. ASSUME NEW b \in Nat PROVE Agree(Replay(c, t, b), Evaluate(p, r, a))
  <2>1. Replay(c, t, b) = Evaluate(Replay(c, recs, b), r, b)
    <3>1. ~(r.cursor <= c.cursor)
      BY <1>2
    <3>2. QED BY <3>1, ReplayAppend
  <2>2. Replay(c, recs, b) \in Projection /\ Agree(Replay(c, recs, b), p)
    BY ReplayType DEF Reaches
  <2> HIDE DEF t
  <2>3. QED BY <2>1, <2>2, EvaluateAgree
<1> HIDE DEF t
<1>5. QED BY <1>3, <1>4 DEF Reaches, t

LEMMA EndsMore ==
  ASSUME NEW recs \in Seq(Records), NEW n \in Nat, NEW r \in Records, r.cursor = n + 1,
         Consecutive(recs), Ends(recs, n)
  PROVE Consecutive(Append(recs, r)) /\ Ends(Append(recs, r), n + 1)
<1> DEFINE t == Append(recs, r)
           k == Len(recs)
<1>1. /\ Len(t) = k + 1 /\ t[k + 1] = r /\ \A i \in 1..k : t[i] = recs[i]
      /\ k \in Nat /\ DOMAIN recs = 1..k /\ DOMAIN t = 1..(k + 1) /\ t # <<>> /\ (k # 0 => recs # <<>>)
  BY AppendProperties, LenProperties, EmptySeq
<1> HIDE DEF t
<1>2. \A i \in 1..k : recs[i].cursor \in Nat
  <2>1. \A i \in 1..k : recs[i] \in Records
    BY ElementOfSeq
  <2>2. QED BY <2>1 DEF Records
<1>3. Ends(t, n + 1)
  <2> SUFFICES ASSUME NEW i \in 1..(k + 1) PROVE t[i].cursor <= n + 1
    BY <1>1 DEF Ends
  <2>1. CASE i \in 1..k
    <3>1. t[i] = recs[i] /\ recs[i].cursor <= n /\ recs[i].cursor \in Nat
      BY <1>1, <1>2, <2>1 DEF Ends
    <3>2. QED BY <3>1
  <2>2. CASE i = k + 1
    BY <1>1, <2>2
  <2>3. QED BY <1>1, <2>1, <2>2
<1>4. Consecutive(t)
  <2> SUFFICES ASSUME NEW i \in 1..k PROVE t[i + 1].cursor = t[i].cursor + 1
    BY <1>1 DEF Consecutive
  <2>1. CASE i \in 1..k - 1
    <3>1. i + 1 \in 1..k /\ t[i + 1] = recs[i + 1] /\ t[i] = recs[i]
      BY <1>1, <2>1
    <3>2. QED BY <2>1, <3>1 DEF Consecutive
  <2>2. CASE i = k
    <3>1. t[i + 1] = r /\ t[i] = recs[k] /\ recs # <<>>
      BY <1>1, <2>2
    <3>2. recs[k].cursor = n
      BY <3>1 DEF Ends
    <3>3. QED BY <3>1, <3>2
  <2>3. i \in 1..k - 1 \/ i = k
    <3>1. \A j \in Nat : \A h \in 1..j : h \in 1..j - 1 \/ h = j
      OBVIOUS
    <3>2. QED BY <1>1, <3>1
  <2>4. QED BY <2>1, <2>2, <2>3
<1>5. QED BY <1>3, <1>4 DEF t

LEMMA AppendSound ==
  ASSUME NEW R \in Roots, NEW p \in Projection, NEW r \in Records, NEW b \in Nat, Sound(R, p),
         r.cursor = p.cursor + 1, r.kind # "late", NEW S, S = AppendOutcomes(R, <<r>>)
  PROVE /\ S \in Roots /\ Sound(S, Evaluate(p, r, b)) /\ Evaluate(p, r, b) \in Projection
        /\ RecordsOf(S.wal) = Append(RecordsOf(R.wal), r) /\ S.manifest = R.manifest
<1> DEFINE recs == RecordsOf(R.wal)
           q == Evaluate(p, r, b)
           m == R.manifest
<1>1. /\ recs \in Seq(Records) /\ p.cursor \in Nat /\ m \in Manifest \cup {None}
      /\ q \in Projection /\ q.cursor = p.cursor + 1 /\ Linked(R.wal) /\ p.stale = FALSE
      /\ Consecutive(recs) /\ Ends(recs, p.cursor)
  BY RootFields, EvaluateFields DEF Projection, Sound
<1>2. q.stale = FALSE
  BY <1>1, EvaluateFields
<1>3. /\ S \in Roots /\ S.ckpt = R.ckpt /\ S.manifest = m /\ Linked(S.wal)
      /\ RecordsOf(S.wal) = Append(recs, r)
      /\ \A c : AnchoredIn(R.wal, c) => AnchoredIn(S.wal, c)
  BY <1>1, AppendRoot
<1> HIDE DEF recs, q
<1>4. Consecutive(RecordsOf(S.wal)) /\ Ends(RecordsOf(S.wal), q.cursor)
  BY <1>1, <1>3, EndsMore
<1>5. CASE m = None
  <2>1. ASSUME NEW a \in Nat PROVE Reaches(Bootstrap(a), Append(recs, r), q)
    <3>0. Bootstrap(a) \in Projection /\ Bootstrap(a).cursor = 0
      BY BootstrapFields
    <3>1. Bootstrap(a).cursor <= p.cursor
      BY <1>1, <3>0
    <3>2. Reaches(Bootstrap(a), recs, p)
      BY <1>5 DEF Sound, recs
    <3>3. QED BY <1>1, <3>0, <3>1, <3>2, ReachesMore DEF q
  <2>2. QED BY <1>1, <1>2, <1>3, <1>4, <1>5, <2>1 DEF Sound, q, recs
<1>6. CASE m # None
  <2>1. m \in Manifest /\ Names(R, m, p)
    BY <1>1, <1>6 DEF Sound
  <2> DEFINE c == m.current
  <2>2. c \in Projection /\ c.cursor \in Nat /\ c.cursor <= p.cursor /\ Reaches(c, recs, p)
    BY <2>1, ManifestFields DEF Names, Projection, recs
  <2> HIDE DEF c
  <2>3. Reaches(c, Append(recs, r), q)
    BY <1>1, <2>2, ReachesMore DEF q
  <2>4. c.cursor <= q.cursor /\ c.cursor # q.cursor
    BY <1>1, <2>2
  <2>5. Names(S, m, q)
    BY <1>3, <2>1, <2>3, <2>4 DEF Names, Loads, c
  <2>6. QED BY <1>1, <1>2, <1>3, <1>4, <1>6, <2>5 DEF Sound, q, recs
<1>7. QED BY <1>5, <1>6

-----------------------------------------------------------------------------
(* Sequences of writes.                                                    *)

LEMMA LastIn == ASSUME NEW S, NEW s \in Seq(S), s # <<>> PROVE Last(s) \in S /\ Last(s) = s[Len(s)]
<1>1. Len(s) \in 1..Len(s)
  BY LenProperties, EmptySeq
<1>2. QED BY <1>1, ElementOfSeq DEF Last

LEMMA LastConcat ==
  ASSUME NEW S, NEW s \in Seq(S), NEW t \in Seq(S), t # <<>>
  PROVE s \o t \in Seq(S) /\ s \o t # <<>> /\ Last(s \o t) = Last(t)
<1>1. Len(t) \in Nat \ {0} /\ Len(s) \in Nat
  BY LenProperties, EmptySeq
<1>2. /\ s \o t \in Seq(S) /\ Len(s \o t) = Len(s) + Len(t)
      /\ \A i \in 1..Len(s) + Len(t) : (s \o t)[i] = IF i <= Len(s) THEN s[i] ELSE t[i - Len(s)]
  BY ConcatProperties
<1>3. Len(s) + Len(t) \in 1..Len(s) + Len(t) /\ ~(Len(s) + Len(t) <= Len(s))
      /\ (Len(s) + Len(t)) - Len(s) = Len(t)
  BY <1>1
<1>4. (s \o t)[Len(s \o t)] = t[Len(t)]
  BY <1>2, <1>3
<1>5. s \o t # <<>>
  BY <1>1, <1>2, EmptySeq
<1>6. QED BY <1>2, <1>4, <1>5, LastIn

\* A sequence of one and of three.
LEMMA OneSeq ==
  ASSUME NEW S, NEW x \in S
  PROVE <<x>> \in Seq(S) /\ <<x>> # <<>> /\ Last(<<x>>) = x /\ Len(<<x>>) = 1 /\ <<x>>[1] = x
BY DEF Last

LEMMA ThreeSeq ==
  ASSUME NEW S, NEW x \in S, NEW y \in S, NEW z \in S
  PROVE /\ <<x, y, z>> \in Seq(S) /\ <<x, y, z>> # <<>> /\ Last(<<x, y, z>>) = z
        /\ Len(<<x, y, z>>) = 3
BY DEF Last

-----------------------------------------------------------------------------
(* Checkpoints.                                                            *)

\* Roots with the records recs from which p is recovered.
SoundRoots(p, recs) == {R \in Roots : Sound(R, p) /\ RecordsOf(R.wal) = recs}

LEMMA WithFileType ==
  ASSUME NEW files \in Files, NEW p \in Projection
  PROVE /\ WithFile(files, p) \in Files /\ p.cursor \in DOMAIN WithFile(files, p)
        /\ WithFile(files, p)[p.cursor] = p
        /\ \A c \in DOMAIN files : c # p.cursor => c \in DOMAIN WithFile(files, p)
                                                   /\ WithFile(files, p)[c] = files[c]
<1>1. PICK D \in SUBSET Nat : files \in [D -> Projection]
  BY DEF Files
<1>2. p.cursor \in Nat
  BY DEF Projection
<1> DEFINE E == D \cup {p.cursor}
<1>3. E \in SUBSET Nat /\ WithFile(files, p) \in [E -> Projection]
  BY <1>1, <1>2 DEF WithFile
<1>4. WithFile(files, p) \in Files
  BY <1>3 DEF Files
<1>5. QED BY <1>1, <1>4 DEF WithFile

LEMMA FileSound ==
  ASSUME NEW R \in Roots, NEW p \in Projection, Sound(R, p),
         NEW S, S = [R EXCEPT !.ckpt = WithFile(@, p)]
  PROVE S \in Roots /\ S.wal = R.wal /\ S.manifest = R.manifest /\ Sound(S, p) /\ Loads(S, p)
<1>1. /\ S.wal = R.wal /\ S.manifest = R.manifest /\ S.ckpt = WithFile(R.ckpt, p)
      /\ R.ckpt \in Files
  BY DEF Roots
<1>2. WithFile(R.ckpt, p) \in Files
  BY <1>1, WithFileType
<1>3. S \in Roots
  BY <1>2 DEF Roots
<1>4. Loads(S, p)
  BY <1>1, WithFileType DEF Loads
<1>5. ASSUME NEW m, Names(R, m, p) PROVE Names(S, m, p)
  <2>1. Loads(S, m.current)
    <3>1. CASE m.current.cursor = p.cursor
      BY <1>4, <1>5, <3>1 DEF Names
    <3>2. CASE m.current.cursor # p.cursor
      BY <1>1, <1>5, <3>2, WithFileType DEF Names, Loads
    <3>3. QED BY <3>1, <3>2
  <2>2. QED BY <1>1, <1>5, <2>1 DEF Names
<1>6. Sound(S, p)
  BY <1>1, <1>5 DEF Sound
<1>7. QED BY <1>1, <1>3, <1>4, <1>6

\* The chain grows by a segment that holds no record.
LEMMA WalSound ==
  ASSUME NEW R, NEW p, Sound(R, p), NEW S, S.ckpt = R.ckpt, S.manifest = R.manifest,
         Linked(S.wal), RecordsOf(S.wal) = RecordsOf(R.wal),
         \A q : AnchoredIn(R.wal, q) => AnchoredIn(S.wal, q)
  PROVE Sound(S, p)
<1>1. ASSUME NEW m, Names(R, m, p) PROVE Names(S, m, p)
  BY <1>1 DEF Names, Loads
<1>2. QED BY <1>1 DEF Sound

\* The manifest names p.
LEMMA NamedSound ==
  ASSUME NEW R \in Roots, NEW p \in Projection, p.stale = FALSE, Linked(R.wal),
         Consecutive(RecordsOf(R.wal)), Ends(RecordsOf(R.wal), p.cursor),
         AnchoredIn(R.wal, p), Loads(R, p), NEW m \in Manifest, m.current = p,
         ValidParentLineage(m), NEW S, S.manifest = m, S.wal = R.wal, S.ckpt = R.ckpt
  PROVE Sound(S, p)
<1>2. m # None /\ p.cursor \in Nat /\ RecordsOf(R.wal) \in Seq(Records)
  BY RootFields, NoneAssumption DEF Projection
<1>3. Reaches(p, RecordsOf(R.wal), p)
  <2>1. ASSUME NEW b \in Nat PROVE Agree(Replay(p, RecordsOf(R.wal), b), p)
    <3>1. \A i \in DOMAIN RecordsOf(R.wal) : RecordsOf(R.wal)[i].cursor <= p.cursor
      BY DEF Ends
    <3>2. Replay(p, RecordsOf(R.wal), b) = p
      BY <1>2, <3>1, ReplayNothing
    <3>3. QED BY <3>2 DEF Agree
  <2>2. ~(p.cursor > p.cursor)
    BY <1>2
  <2>3. QED BY <2>1, <2>2 DEF Reaches
<1>4. Loads(S, p) /\ p.cursor <= p.cursor
  BY <1>2 DEF Loads
<1>5. Names(S, m, p)
  BY <1>3, <1>4 DEF Names
<1>6. QED BY <1>2, <1>5 DEF Sound

LEMMA CheckpointSound ==
  ASSUME NEW R \in Roots, NEW p \in Projection, Sound(R, p),
         NEW C, C = CheckpointWrites(R, p, R.manifest)
  PROVE /\ C.ok \in BOOLEAN /\ C.writes \in Seq(SoundRoots(p, RecordsOf(R.wal))) /\ C.writes # <<>>
        /\ C.ok => Last(C.writes).manifest # None /\ Last(C.writes).manifest.current = p
        /\ ~C.ok => Last(C.writes).manifest = R.manifest
<1> DEFINE m == R.manifest
           recs == RecordsOf(R.wal)
           file == [R EXCEPT !.ckpt = WithFile(@, p)]
           reuse == /\ R.wal # <<>>
                    /\ Last(R.wal).first = p.cursor + 1
                    /\ Last(R.wal).anchor = p
                    /\ Last(R.wal).lines = <<>>
           clash == ~reuse /\ \E i \in DOMAIN R.wal : R.wal[i].first = p.cursor + 1
           anchored == IF reuse THEN file
                       ELSE [file EXCEPT !.wal = Append(@, Segment(@, p.cursor + 1, p))]
           previous == CASE m = None -> None
                         [] m # None /\ m.current.cursor # p.cursor -> m.current
                         [] OTHER -> m.previous
           lineage == IF m = None THEN None ELSE m.lineage
           M == [current |-> p, previous |-> previous, lineage |-> lineage]
           named == [anchored EXCEPT !.manifest = M]
<1>1. C = IF clash THEN [writes |-> <<file>>, ok |-> FALSE]
                   ELSE [writes |-> <<file, anchored, named>>, ok |-> TRUE]
  BY DEF CheckpointWrites
<1>2. /\ R.wal \in Seq(Segments) /\ m \in Manifest \cup {None} /\ p.cursor \in Nat /\ p # None
      /\ recs \in Seq(Records) /\ Linked(R.wal) /\ Consecutive(recs) /\ Ends(recs, p.cursor)
      /\ p.stale = FALSE
  BY RootFields, NoneAssumption DEF Projection, Sound
<1>3. file \in Roots /\ file.wal = R.wal /\ file.manifest = m /\ Sound(file, p) /\ Loads(file, p)
  BY FileSound
<1> HIDE DEF file
<1>4. /\ anchored \in Roots /\ anchored.ckpt = file.ckpt /\ anchored.manifest = m
      /\ Linked(anchored.wal) /\ RecordsOf(anchored.wal) = recs /\ AnchoredIn(anchored.wal, p)
      /\ \A q : AnchoredIn(R.wal, q) => AnchoredIn(anchored.wal, q)
  <2>1. CASE reuse
    <3>1. anchored = file
      BY <2>1
    <3>2. Len(R.wal) \in DOMAIN R.wal /\ Last(R.wal) = R.wal[Len(R.wal)]
      BY <1>2, <2>1, LenProperties, EmptySeq DEF Last
    <3>3. AnchoredIn(R.wal, p)
      BY <2>1, <3>2 DEF AnchoredIn
    <3> HIDE DEF reuse, anchored
    <3>4. QED BY <1>2, <1>3, <3>1, <3>3
  <2>2. CASE ~reuse
    <3> DEFINE w == Append(R.wal, Segment(R.wal, p.cursor + 1, p))
    <3>1. anchored = [file EXCEPT !.wal = w]
      BY <1>3, <2>2
    <3>2. /\ w \in Seq(Segments) /\ Linked(w) /\ RecordsOf(w) = recs /\ AnchoredIn(w, p)
          /\ \A q : AnchoredIn(R.wal, q) => AnchoredIn(w, q)
      <4>1. p.cursor + 1 \in Nat /\ p \in Projection \cup {None}
        BY <1>2
      <4>2. QED BY <1>2, <4>1, SegmentAdded
    <3> HIDE DEF w, reuse, anchored
    <3>3. anchored \in Roots /\ anchored.wal = w /\ anchored.ckpt = file.ckpt /\ anchored.manifest = m
      BY <1>3, <3>1, <3>2 DEF Roots
    <3>4. QED BY <3>2, <3>3
  <2>3. QED BY <2>1, <2>2
<1> HIDE DEF anchored, reuse
<1>5. Sound(anchored, p) /\ Loads(anchored, p)
  <2>1. Sound(anchored, p)
    BY <1>3, <1>4, WalSound
  <2>2. QED BY <1>3, <1>4, <2>1 DEF Loads
<1>6. M \in Manifest /\ ValidParentLineage(M) /\ M.current = p
  <2>1. m # None => /\ m.current \in Projection /\ m.previous \in Projection \cup {None}
                    /\ m.lineage \in Projection \cup {None} /\ ValidParentLineage(m)
                    /\ m.current.cursor <= p.cursor
    BY <1>2, ManifestFields DEF Sound, Names
  <2>2. previous \in Projection \cup {None} /\ lineage \in Projection \cup {None}
    BY <2>1
  <2>3. lineage = None \/ lineage.cursor <= p.cursor
    <3>1. CASE m # None /\ m.lineage # None
      <4>1. /\ m.lineage.cursor \in Nat /\ m.current.cursor \in Nat
            /\ m.lineage.cursor <= m.current.cursor /\ m.current.cursor <= p.cursor
        BY <2>1, <3>1 DEF ValidParentLineage, Projection
      <4>2. QED BY <1>2, <3>1, <4>1
    <3>2. QED BY <3>1
  <2> HIDE DEF previous, lineage
  <2>4. QED BY <2>2, <2>3 DEF Manifest, ValidParentLineage
<1> HIDE DEF M, m
<1>61. Consecutive(RecordsOf(anchored.wal)) /\ Ends(RecordsOf(anchored.wal), p.cursor)
  BY <1>2, <1>4
<1> HIDE DEF recs
<1>7. named \in Roots /\ named.manifest = M /\ named.wal = anchored.wal /\ Sound(named, p)
  <2>1. anchored \in Roots /\ Linked(anchored.wal) /\ AnchoredIn(anchored.wal, p) /\ p.stale = FALSE
    BY <1>2, <1>4
  <2>2. /\ named \in Roots /\ named.manifest = M /\ named.wal = anchored.wal
        /\ named.ckpt = anchored.ckpt
    BY <1>4, <1>6 DEF Roots
  <2> HIDE DEF named
  <2>3. Sound(named, p)
    BY ONLY <2>1, <2>2, <1>5, <1>6, <1>61, p \in Projection, NamedSound
  <2>4. QED BY <2>2, <2>3
<1> HIDE DEF named
<1>8. /\ file \in SoundRoots(p, recs) /\ anchored \in SoundRoots(p, recs)
      /\ named \in SoundRoots(p, recs)
  BY <1>3, <1>4, <1>5, <1>7 DEF SoundRoots, recs
<1>9. M # None
  BY <1>6, NoneAssumption
<1>10. CASE clash
  <2>1. C.writes = <<file>> /\ C.ok = FALSE
    BY <1>1, <1>10
  <2>2. <<file>> \in Seq(SoundRoots(p, recs)) /\ <<file>> # <<>> /\ Last(<<file>>) = file
    BY <1>8, OneSeq
  <2>3. QED BY <1>3, <2>1, <2>2 DEF recs, m
<1>11. CASE ~clash
  <2>1. C.writes = <<file, anchored, named>> /\ C.ok = TRUE
    BY <1>1, <1>11
  <2>2. /\ <<file, anchored, named>> \in Seq(SoundRoots(p, recs))
        /\ <<file, anchored, named>> # <<>> /\ Last(<<file, anchored, named>>) = named
    BY <1>8, ThreeSeq
  <2>3. QED BY <1>6, <1>7, <1>9, <2>1, <2>2 DEF recs
<1>12. QED BY <1>10, <1>11

-----------------------------------------------------------------------------
(* Seeding and forking a generation.                                       *)

\* Writes of which the i-th brings p up to the i-th of the records recs, or to
\* all of them, in a root that held the records old.
BringsUp(writes, p, old, recs, b) ==
    \A i \in DOMAIN writes :
        LET done == SubSeq(recs, 1, IF i < Len(recs) THEN i ELSE Len(recs)) IN
        Replay(p, done, b) \in Projection /\ writes[i] \in SoundRoots(Replay(p, done, b), old \o done)

\* The records that bring projection p to generation g.
SeedRecords(recs, p, g) ==
    /\ recs \in Seq(Records)
    /\ \A i \in DOMAIN recs : recs[i].gen = g /\ recs[i].cursor = p.cursor + i
    /\ p.catalog # CatalogOf[g] => recs # <<>> /\ recs[1].kind = "catalog"

Seeds(W, R, p, g, b) ==
    /\ W.ok \in BOOLEAN
    /\ SeedRecords(W.recs, p, g)
    /\ W.proj \in Projection /\ W.proj = Replay(p, W.recs, b)
    /\ W.proj.catalog = CatalogOf[g] /\ W.proj.cursor = p.cursor + Len(W.recs)
    /\ W.writes \in Seq(Roots) /\ W.writes # <<>>
    /\ BringsUp(W.writes, p, RecordsOf(R.wal), W.recs, b)
    /\ Last(W.writes) \in SoundRoots(W.proj, RecordsOf(R.wal) \o W.recs)
    /\ Last(W.writes).manifest = W.manifest

LEMMA RecordType ==
  ASSUME NEW kind \in {"catalog", "book", "gap"} \cup Kinds, NEW n \in Nat, NEW g \in Generations
  PROVE /\ Record(kind, n, g) \in Records /\ Record(kind, n, g).kind = kind
        /\ Record(kind, n, g).cursor = n /\ Record(kind, n, g).gen = g
        /\ Record(kind, n, g).catalog = CatalogOf[g]
<1>1. CatalogOf[g] \in Nat
  BY LiveAssumption
<1>2. kind \in AllKinds
  BY DEF AllKinds
<1>3. QED BY <1>1, <1>2 DEF Record, Records

LEMMA SeedEnd ==
  ASSUME NEW R \in Roots, NEW p \in Projection, NEW b \in Nat, NEW old \in Seq(Records),
         NEW recs \in Seq(Records), recs # <<>>, NEW appended \in Seq(Roots), Len(appended) = Len(recs),
         BringsUp(appended, p, old, recs, b), Last(appended).manifest = R.manifest,
         NEW C, C = CheckpointWrites(Last(appended), Replay(p, recs, b), R.manifest)
  PROVE /\ appended \o C.writes \in Seq(Roots) /\ appended \o C.writes # <<>>
        /\ BringsUp(appended \o C.writes, p, old, recs, b)
        /\ Last(appended \o C.writes) \in SoundRoots(Replay(p, recs, b), old \o recs)
        /\ Last(appended \o C.writes) = Last(C.writes) /\ C.ok \in BOOLEAN
<1> DEFINE k == Len(recs)
           q == Replay(p, recs, b)
           T == Last(appended)
           S == SoundRoots(q, old \o recs)
           all == appended \o C.writes
<1>1. k \in Nat \ {0} /\ DOMAIN appended = 1..k /\ k \in DOMAIN appended
  BY EmptySeq, LenProperties
<1>2. appended # <<>> /\ SubSeq(recs, 1, k) = recs /\ T = appended[k]
  BY <1>1, EmptySeq, SubSeqFull DEF Last
<1>3. q \in Projection /\ T \in S
  BY <1>1, <1>2, ReplayType DEF BringsUp
<1>4. T \in Roots /\ Sound(T, q) /\ RecordsOf(T.wal) = old \o recs /\ T.manifest = R.manifest
  BY <1>3 DEF SoundRoots
<1> HIDE DEF q, T
<1>5. C = CheckpointWrites(T, q, T.manifest)
  BY <1>4 DEF q, T
<1>6. /\ C.ok \in BOOLEAN /\ C.writes \in Seq(SoundRoots(q, RecordsOf(T.wal))) /\ C.writes # <<>>
  BY <1>3, <1>4, <1>5, CheckpointSound
<1>7. C.writes \in Seq(S)
  BY <1>4, <1>6
<1> HIDE DEF S
<1>8. Last(C.writes) \in S
  BY <1>6, <1>7, LastIn
<1>9. C.writes \in Seq(Roots)
  <2>1. S \subseteq Roots
    BY DEF S, SoundRoots
  <2>2. QED BY <1>7, <2>1
<1>10. all \in Seq(Roots) /\ all # <<>> /\ Last(all) = Last(C.writes)
  BY <1>6, <1>9, LastConcat
<1>11. BringsUp(all, p, old, recs, b)
  <2>0. /\ Len(all) = k + Len(C.writes)
        /\ \A i \in 1..k + Len(C.writes) : all[i] = IF i <= k THEN appended[i] ELSE C.writes[i - k]
    <3> DEFINE t == C.writes
    <3>1. t \in Seq(Roots)
      BY <1>9
    <3> HIDE DEF t
    <3>2. /\ Len(appended \o t) = Len(appended) + Len(t)
          /\ \A i \in 1..Len(appended) + Len(t) :
               (appended \o t)[i] = IF i <= Len(appended) THEN appended[i] ELSE t[i - Len(appended)]
      BY ONLY appended \in Seq(Roots), <3>1, ConcatProperties
    <3>3. QED BY <3>2 DEF t
  <2>1. Len(C.writes) \in Nat /\ DOMAIN all = 1..k + Len(C.writes)
    BY <1>9, <1>10, <2>0, LenProperties
  <2> HIDE DEF all
  <2> SUFFICES ASSUME NEW i \in 1..k + Len(C.writes)
      PROVE LET done == SubSeq(recs, 1, IF i < k THEN i ELSE k) IN
            Replay(p, done, b) \in Projection /\ all[i] \in SoundRoots(Replay(p, done, b), old \o done)
    BY <2>1 DEF BringsUp
  <2>2. CASE i <= k
    <3>1. i \in DOMAIN appended /\ all[i] = appended[i]
      BY <1>1, <2>0, <2>2
    <3>2. QED BY <3>1 DEF BringsUp
  <2>3. CASE ~(i <= k)
    <3>0. ~(i < k) /\ i - k \in 1..Len(C.writes)
      BY <1>1, <2>1, <2>3
    <3>1. (IF i < k THEN i ELSE k) = k /\ all[i] = C.writes[i - k]
      BY <2>0, <2>3, <3>0
    <3>2. C.writes[i - k] \in S
      BY <1>7, <3>0, ElementOfSeq
    <3>3. QED BY <1>2, <1>3, <3>1, <3>2 DEF S, q
  <2>4. QED BY <2>2, <2>3
<1>12. QED BY <1>6, <1>8, <1>10, <1>11 DEF S, q

LEMMA PairSeq ==
  ASSUME NEW S, NEW x \in S, NEW y \in S
  PROVE /\ <<x>> \in Seq(S) /\ <<x, y>> \in Seq(S) /\ Append(<<x>>, y) = <<x, y>>
        /\ <<x>> \o <<y>> = <<x, y>>
<1>1. <<x>> \in Seq(S) /\ Len(<<x>>) = 1 /\ <<x>>[1] = x
  BY OneSeq
<1>2. <<x, y>> \in Seq(S) /\ Len(<<x, y>>) = 2 /\ <<x, y>>[1] = x /\ <<x, y>>[2] = y
  OBVIOUS
<1>3. Append(<<x>>, y) = <<x, y>>
  <2> DEFINE s == <<x>>
             t == <<x, y>>
  <2>1. s \in Seq(S) /\ Len(s) = 1 /\ s[1] = x /\ t \in Seq(S) /\ Len(t) = 2 /\ t[1] = x /\ t[2] = y
    BY <1>1, <1>2
  <2> HIDE DEF s, t
  <2>2. /\ Append(s, y) \in Seq(S) /\ Len(Append(s, y)) = 2 /\ Append(s, y)[1] = x
        /\ Append(s, y)[2] = y
    <3>1. Append(s, y) \in Seq(S) /\ Len(Append(s, y)) = Len(s) + 1
          /\ (\A i \in 1..Len(s) : Append(s, y)[i] = s[i]) /\ Append(s, y)[Len(s) + 1] = y
      <4>1. s \in Seq(S)
        BY <2>1
      <4>2. QED BY ONLY <4>1, y \in S, AppendProperties
    <3>2. QED BY <2>1, <3>1
  <2>3. \A i \in 1..Len(t) : Append(s, y)[i] = t[i]
    BY <2>1, <2>2
  <2>4. Append(s, y) = t
    BY <2>1, <2>2, <2>3, SeqEqual
  <2>5. QED BY <2>4 DEF s, t
<1>4. QED BY <1>1, <1>2, <1>3, AppendIsConcat

LEMMA OneRecord ==
  ASSUME NEW p \in Projection, NEW r \in Records, NEW b \in Nat, r.cursor = p.cursor + 1
  PROVE <<r>> \in Seq(Records) /\ Replay(p, <<r>>, b) = Evaluate(p, r, b)
<1>1. <<>> \in Seq(Records) /\ Append(<<>>, r) = <<r>> /\ p.cursor \in Nat
  BY EmptySeq DEF Projection
<1>2. Replay(p, <<>>, b) = p
  BY ReplayNone
<1>3. ~(r.cursor <= p.cursor)
  BY <1>1
<1>4. Replay(p, Append(<<>>, r), b)
        = IF r.cursor <= p.cursor THEN Replay(p, <<>>, b) ELSE Evaluate(Replay(p, <<>>, b), r, b)
  <2> DEFINE none == <<>>
  <2>1. none \in Seq(Records)
    BY <1>1
  <2> HIDE DEF none
  <2>2. Replay(p, Append(none, r), b)
          = IF r.cursor <= p.cursor THEN Replay(p, none, b) ELSE Evaluate(Replay(p, none, b), r, b)
    BY <2>1, ReplayAppend
  <2>3. QED BY <2>2 DEF none
<1>5. QED BY <1>1, <1>2, <1>3, <1>4

LEMMA TwoRecords ==
  ASSUME NEW p \in Projection, NEW r \in Records, NEW s \in Records, NEW b \in Nat,
         r.cursor = p.cursor + 1, s.cursor = p.cursor + 2
  PROVE <<r, s>> \in Seq(Records) /\ Replay(p, <<r, s>>, b) = Evaluate(Evaluate(p, r, b), s, b)
<1>1. <<r>> \in Seq(Records) /\ <<r, s>> \in Seq(Records) /\ Append(<<r>>, s) = <<r, s>>
  BY PairSeq
<1>0. p.cursor \in Nat
  BY DEF Projection
<1>2. Replay(p, <<r>>, b) = Evaluate(p, r, b)
  BY OneRecord
<1>3. ~(s.cursor <= p.cursor)
  BY <1>0
<1>4. Replay(p, Append(<<r>>, s), b)
        = IF s.cursor <= p.cursor THEN Replay(p, <<r>>, b) ELSE Evaluate(Replay(p, <<r>>, b), s, b)
  <2> DEFINE t == <<r>>
  <2>1. t \in Seq(Records)
    BY <1>1
  <2> HIDE DEF t
  <2>2. Replay(p, Append(t, s), b)
          = IF s.cursor <= p.cursor THEN Replay(p, t, b) ELSE Evaluate(Replay(p, t, b), s, b)
    BY <2>1, ReplayAppend
  <2>3. QED BY <2>2 DEF t
<1>5. QED BY <1>1, <1>2, <1>3, <1>4

\* Prefixes of a sequence of one and of two.
LEMMA ShortPrefixes ==
  ASSUME NEW S, NEW x \in S, NEW y \in S
  PROVE /\ SubSeq(<<x>>, 1, 1) = <<x>>
        /\ SubSeq(<<x, y>>, 1, 1) = <<x>> /\ SubSeq(<<x, y>>, 1, 2) = <<x, y>>
<1>1. /\ <<x>> \in Seq(S) /\ Len(<<x>>) = 1 /\ <<x, y>> \in Seq(S) /\ Len(<<x, y>>) = 2
      /\ <<x>>[1] = x /\ <<x, y>>[1] = x
  OBVIOUS
<1>2. SubSeq(<<x>>, 1, 1) = <<x>> /\ SubSeq(<<x, y>>, 1, 2) = <<x, y>>
  BY <1>1, SubSeqFull
<1>3. SubSeq(<<x, y>>, 1, 1) = <<x>>
  <2> DEFINE s == <<x, y>>
  <2>1. s \in Seq(S) /\ 1 \in 1..Len(s) /\ s[1] = x
    BY <1>1
  <2> HIDE DEF s
  <2>2. SubSeq(s, 1, 1) = <<s[1]>> \o SubSeq(s, 2, 1)
    BY <2>1, SubSeqRecursiveFirst
  <2>3. SubSeq(s, 2, 1) = <<>>
    BY SubSeqEmpty
  <2>4. <<s[1]>> \o <<>> = <<s[1]>>
    BY <1>1, <2>1, ConcatEmptySeq
  <2>5. QED BY <2>1, <2>2, <2>3, <2>4 DEF s
<1>4. QED BY <1>2, <1>3

\* One book, or a catalog and a book, is appended.
LEMMA SeedBook ==
  ASSUME NEW R \in Roots, NEW p \in Projection, Sound(R, p), NEW r \in Records, NEW b \in Nat,
         r.cursor = p.cursor + 1, r.kind # "late", NEW one, one = AppendOutcomes(R, <<r>>)
  PROVE /\ <<one>> \in Seq(Roots) /\ Len(<<one>>) = Len(<<r>>) /\ Last(<<one>>).manifest = R.manifest
        /\ BringsUp(<<one>>, p, RecordsOf(R.wal), <<r>>, b)
<1> DEFINE old == RecordsOf(R.wal)
           q == Replay(p, <<r>>, b)
<1>1. old \in Seq(Records)
  BY RootFields
<1>2. /\ one \in Roots /\ Sound(one, Evaluate(p, r, b)) /\ Evaluate(p, r, b) \in Projection
      /\ RecordsOf(one.wal) = Append(old, r) /\ one.manifest = R.manifest
  BY AppendSound
<1>3. q = Evaluate(p, r, b) /\ Append(old, r) = old \o <<r>>
  BY <1>1, OneRecord, AppendIsConcat
<1>4. SubSeq(<<r>>, 1, 1) = <<r>> /\ Len(<<r>>) = 1
  BY ShortPrefixes, OneSeq
<1>5. <<one>> \in Seq(Roots) /\ Len(<<one>>) = 1 /\ Last(<<one>>) = one /\ <<one>>[1] = one
  BY <1>2, OneSeq
<1>6. q \in Projection /\ one \in SoundRoots(q, old \o <<r>>)
  BY <1>2, <1>3 DEF SoundRoots
<1> HIDE DEF q, old
<1>7. BringsUp(<<one>>, p, old, <<r>>, b)
  <2> SUFFICES ASSUME NEW i \in DOMAIN <<one>>
      PROVE LET done == SubSeq(<<r>>, 1, IF i < Len(<<r>>) THEN i ELSE Len(<<r>>)) IN
            Replay(p, done, b) \in Projection /\ <<one>>[i] \in SoundRoots(Replay(p, done, b), old \o done)
    BY DEF BringsUp
  <2>1. i = 1
    BY <1>5, LenProperties
  <2>2. (IF i < Len(<<r>>) THEN i ELSE Len(<<r>>)) = 1
    BY <1>4, <2>1
  <2>3. QED BY <1>4, <1>5, <1>6, <2>1, <2>2 DEF q
<1>8. QED BY <1>2, <1>4, <1>5, <1>7 DEF old

LEMMA SeedCatalog ==
  ASSUME NEW R \in Roots, NEW p \in Projection, Sound(R, p), NEW r \in Records, NEW s \in Records,
         NEW b \in Nat, r.cursor = p.cursor + 1, r.kind # "late", s.cursor = p.cursor + 2,
         s.kind # "late", NEW one, one = AppendOutcomes(R, <<r>>),
         NEW two, two = AppendOutcomes(one, <<s>>)
  PROVE /\ <<one, two>> \in Seq(Roots) /\ Len(<<one, two>>) = Len(<<r, s>>)
        /\ Last(<<one, two>>).manifest = R.manifest
        /\ BringsUp(<<one, two>>, p, RecordsOf(R.wal), <<r, s>>, b)
<1> DEFINE old == RecordsOf(R.wal)
           p1 == Evaluate(p, r, b)
           p2 == Evaluate(p1, s, b)
<1>1. old \in Seq(Records) /\ p.cursor \in Nat
  BY RootFields DEF Projection
<1>2. /\ one \in Roots /\ Sound(one, p1) /\ p1 \in Projection
      /\ RecordsOf(one.wal) = Append(old, r) /\ one.manifest = R.manifest
  BY AppendSound
<1>3. p1.cursor = r.cursor
  BY EvaluateFields
<1> HIDE DEF p1
<1>4. s.cursor = p1.cursor + 1
  BY <1>1, <1>3
<1>5. /\ two \in Roots /\ Sound(two, p2) /\ p2 \in Projection
      /\ RecordsOf(two.wal) = Append(RecordsOf(one.wal), s) /\ two.manifest = one.manifest
  <2>1. one \in Roots /\ Sound(one, p1) /\ p1 \in Projection
    BY <1>2
  <2>2. QED BY ONLY <2>1, <1>4, s \in Records, b \in Nat, s.kind # "late",
                    two = AppendOutcomes(one, <<s>>), AppendSound
<1>6. /\ p1 = Replay(p, <<r>>, b) /\ p2 = Replay(p, <<r, s>>, b)
      /\ <<r>> \in Seq(Records) /\ <<r, s>> \in Seq(Records)
  BY OneRecord, TwoRecords DEF p1
<1> HIDE DEF p2, old
<1>7. Append(old, r) = old \o <<r>> /\ Append(old \o <<r>>, s) = old \o <<r, s>>
  <2>1. Append(old, r) = old \o <<r>> /\ old \o <<r>> \in Seq(Records)
    BY <1>1, <1>6, AppendIsConcat, ConcatProperties
  <2>2. Append(old \o <<r>>, s) = (old \o <<r>>) \o <<s>>
    BY <2>1, AppendIsConcat
  <2>3. <<s>> \in Seq(Records) /\ <<r>> \o <<s>> = <<r, s>>
    BY PairSeq
  <2>4. (old \o <<r>>) \o <<s>> = old \o (<<r>> \o <<s>>)
    BY <1>1, <1>6, <2>3, ConcatAssociative
  <2>5. QED BY <2>1, <2>2, <2>3, <2>4
<1>8. /\ SubSeq(<<r, s>>, 1, 1) = <<r>> /\ SubSeq(<<r, s>>, 1, 2) = <<r, s>> /\ Len(<<r, s>>) = 2
  BY ShortPrefixes
<1>9. /\ <<one, two>> \in Seq(Roots) /\ Len(<<one, two>>) = 2 /\ Last(<<one, two>>) = two
      /\ <<one, two>>[1] = one /\ <<one, two>>[2] = two
  BY <1>2, <1>5 DEF Last
<1>10. one \in SoundRoots(p1, old \o <<r>>) /\ two \in SoundRoots(p2, old \o <<r, s>>)
  BY <1>2, <1>5, <1>7 DEF SoundRoots
<1>11. BringsUp(<<one, two>>, p, old, <<r, s>>, b)
  <2> SUFFICES ASSUME NEW i \in DOMAIN <<one, two>>
      PROVE LET done == SubSeq(<<r, s>>, 1, IF i < Len(<<r, s>>) THEN i ELSE Len(<<r, s>>)) IN
            /\ Replay(p, done, b) \in Projection
            /\ <<one, two>>[i] \in SoundRoots(Replay(p, done, b), old \o done)
    BY DEF BringsUp
  <2>1. i = 1 \/ i = 2
    BY <1>9, LenProperties
  <2>2. CASE i = 1
    <3>1. (IF i < Len(<<r, s>>) THEN i ELSE Len(<<r, s>>)) = 1
      BY <1>8, <2>2
    <3>2. QED BY <1>2, <1>6, <1>8, <1>9, <1>10, <2>2, <3>1
  <2>3. CASE i = 2
    <3>1. (IF i < Len(<<r, s>>) THEN i ELSE Len(<<r, s>>)) = 2
      BY <1>8, <2>3
    <3>2. QED BY <1>5, <1>6, <1>8, <1>9, <1>10, <2>3, <3>1
  <2>4. QED BY <2>1, <2>2, <2>3
<1>12. QED BY <1>2, <1>5, <1>8, <1>9, <1>11 DEF old

LEMMA SeedSound ==
  ASSUME NEW R \in Roots, NEW p \in Projection, Sound(R, p), NEW g \in Generations, boots \in Nat,
         NEW W, W = SeedWrites(R, p, g, R.manifest)
  PROVE Seeds(W, R, p, g, boots)
<1> DEFINE matches == p.catalog = CatalogOf[g] /\ p.books
           kinds == CASE matches -> <<>>
                      [] p.catalog # CatalogOf[g] -> <<"catalog", "book">>
                      [] OTHER -> <<"book">>
           recs == [i \in DOMAIN kinds |-> Record(kinds[i], p.cursor + i, g)]
           one == AppendOutcomes(R, <<recs[1]>>)
           appended == IF Len(recs) = 1 THEN <<one>> ELSE <<one, AppendOutcomes(one, <<recs[2]>>)>>
           q == Replay(p, recs, boots)
           check == CheckpointWrites(Last(appended), q, R.manifest)
           old == RecordsOf(R.wal)
           r1 == Record("book", p.cursor + 1, g)
           c1 == Record("catalog", p.cursor + 1, g)
           r2 == Record("book", p.cursor + 2, g)
<1>1. W = IF matches
          THEN [writes |-> <<R>>, ok |-> TRUE, proj |-> p, recs |-> <<>>, manifest |-> R.manifest]
          ELSE [writes |-> appended \o check.writes, ok |-> check.ok, proj |-> q, recs |-> recs,
                manifest |-> Last(check.writes).manifest]
  BY DEF SeedWrites
<1>2. p.cursor \in Nat /\ old \in Seq(Records) /\ CatalogOf[g] \in Nat
  BY RootFields, LiveAssumption DEF Projection
<1>3. /\ r1 \in Records /\ r1.kind = "book" /\ r1.cursor = p.cursor + 1 /\ r1.gen = g
      /\ c1 \in Records /\ c1.kind = "catalog" /\ c1.cursor = p.cursor + 1 /\ c1.gen = g
      /\ c1.catalog = CatalogOf[g]
      /\ r2 \in Records /\ r2.kind = "book" /\ r2.cursor = p.cursor + 2 /\ r2.gen = g
  <2>1. p.cursor + 1 \in Nat /\ p.cursor + 2 \in Nat
    BY <1>2
  <2>2. r1 \in Records /\ r1.kind = "book" /\ r1.cursor = p.cursor + 1 /\ r1.gen = g
    BY <2>1, RecordType
  <2>3. /\ c1 \in Records /\ c1.kind = "catalog" /\ c1.cursor = p.cursor + 1 /\ c1.gen = g
        /\ c1.catalog = CatalogOf[g]
    BY <2>1, RecordType
  <2>4. r2 \in Records /\ r2.kind = "book" /\ r2.cursor = p.cursor + 2 /\ r2.gen = g
    BY <2>1, RecordType
  <2>5. QED BY <2>2, <2>3, <2>4
\* The projection matches already.
<1>4. CASE matches
  <2>1. /\ W.writes = <<R>> /\ W.ok = TRUE /\ W.proj = p /\ W.recs = <<>> /\ W.manifest = R.manifest
    BY <1>1, <1>4
  <2> HIDE DEF old
  <2>2. /\ <<>> \in Seq(Records) /\ Len(<<>>) = 0 /\ Replay(p, <<>>, boots) = p /\ old \o <<>> = old
        /\ SubSeq(<<>>, 1, 0) = <<>> /\ <<R>> \in Seq(Roots) /\ <<R>> # <<>> /\ Last(<<R>>) = R
        /\ Len(<<R>>) = 1 /\ <<R>>[1] = R
    BY <1>2, EmptySeq, ReplayNone, ConcatEmptySeq, SubSeqEmpty, OneSeq
  <2>3. R \in SoundRoots(p, old)
    BY DEF SoundRoots, old
  <2>4. BringsUp(<<R>>, p, old, <<>>, boots)
    <3> SUFFICES ASSUME NEW i \in DOMAIN <<R>>
        PROVE LET done == SubSeq(<<>>, 1, IF i < Len(<<>>) THEN i ELSE Len(<<>>)) IN
              Replay(p, done, boots) \in Projection
              /\ <<R>>[i] \in SoundRoots(Replay(p, done, boots), old \o done)
      BY DEF BringsUp
    <3>1. i = 1
      BY <2>2, LenProperties
    <3>2. (IF i < Len(<<>>) THEN i ELSE Len(<<>>)) = 0
      BY <2>2, <3>1
    <3>3. QED BY <2>2, <2>3, <3>1, <3>2
  <2>5. SeedRecords(<<>>, p, g)
    BY <1>4, <2>2 DEF SeedRecords
  <2>6. p.catalog = CatalogOf[g] /\ p.cursor = p.cursor + 0
    BY <1>2, <1>4
  <2>7. QED BY <2>1, <2>2, <2>3, <2>4, <2>5, <2>6 DEF Seeds, old
\* What the two other cases share.
<1>5. ASSUME ~matches, SeedRecords(recs, p, g), recs # <<>>, appended \in Seq(Roots),
             Len(appended) = Len(recs), Last(appended).manifest = R.manifest,
             BringsUp(appended, p, old, recs, boots), q.catalog = CatalogOf[g],
             q.cursor = p.cursor + Len(recs)
      PROVE Seeds(W, R, p, g, boots)
  <2>1. /\ W.writes = appended \o check.writes /\ W.ok = check.ok /\ W.proj = q /\ W.recs = recs
        /\ W.manifest = Last(check.writes).manifest
    <3> HIDE DEF recs, appended, check, q, matches
    <3>1. QED BY <1>1, <1>5
  <2> HIDE DEF recs, appended, q, old
  <2>2. recs \in Seq(Records)
    BY <1>5 DEF SeedRecords
  <2>3. q \in Projection
    BY <2>2, ReplayType DEF q
  <2>4. /\ appended \o check.writes \in Seq(Roots) /\ appended \o check.writes # <<>>
        /\ BringsUp(appended \o check.writes, p, old, recs, boots)
        /\ Last(appended \o check.writes) \in SoundRoots(q, old \o recs)
        /\ Last(appended \o check.writes) = Last(check.writes) /\ check.ok \in BOOLEAN
    BY <1>2, <1>5, <2>2, SeedEnd DEF q
  <2> HIDE DEF check
  <2>5. QED BY <1>5, <2>1, <2>2, <2>3, <2>4 DEF Seeds, q, old
<1>6. CASE p.catalog = CatalogOf[g] /\ ~p.books
  <2>1. kinds = <<"book">> /\ ~matches
    BY <1>6
  <2>2. recs = <<r1>>
    <3>1. recs = [i \in 1..1 |-> Record(<<"book">>[i], p.cursor + i, g)]
      BY <2>1
    <3>2. <<r1>> = [i \in 1..1 |-> r1]
      OBVIOUS
    <3>3. \A i \in 1..1 : Record(<<"book">>[i], p.cursor + i, g) = r1
      OBVIOUS
    <3> HIDE DEF recs, r1
    <3>4. QED BY <3>1, <3>2, <3>3
  <2> HIDE DEF recs, kinds, r1, old
  <2>3. /\ Len(<<r1>>) = 1 /\ <<r1>>[1] = r1 /\ <<r1>> # <<>> /\ <<r1>> \in Seq(Records)
        /\ DOMAIN <<r1>> = 1..1
    BY <1>3, OneSeq
  <2>4. appended = <<AppendOutcomes(R, <<r1>>)>>
    BY <2>2, <2>3
  <2>5. /\ appended \in Seq(Roots) /\ Len(appended) = Len(recs) /\ Last(appended).manifest = R.manifest
        /\ BringsUp(appended, p, old, recs, boots)
    BY <1>3, <2>2, <2>4, SeedBook DEF old
  <2>6. q = Evaluate(p, r1, boots)
    BY <1>3, <2>2, OneRecord
  <2>7. q.catalog = CatalogOf[g] /\ q.cursor = p.cursor + Len(recs)
    <3>0. Evaluate(p, r1, boots).catalog = p.catalog /\ Evaluate(p, r1, boots).cursor = r1.cursor
      BY <1>3, BookEvaluates
    <3> HIDE DEF q
    <3>1. q.catalog = p.catalog /\ q.cursor = r1.cursor
      BY <2>6, <3>0
    <3>2. QED BY <1>3, <1>6, <2>2, <2>3, <3>1
  <2>8. SeedRecords(recs, p, g)
    <3>1. \A i \in DOMAIN recs : recs[i].gen = g /\ recs[i].cursor = p.cursor + i
      BY <1>3, <2>2, <2>3
    <3>2. QED BY <1>6, <2>2, <2>3, <3>1 DEF SeedRecords
  <2> HIDE DEF appended, q
  <2>9. QED BY <1>5, <2>1, <2>2, <2>3, <2>5, <2>7, <2>8
<1>7. CASE p.catalog # CatalogOf[g]
  <2>1. kinds = <<"catalog", "book">> /\ ~matches
    BY <1>7
  <2>2. recs = <<c1, r2>>
    <3>1. recs = [i \in 1..2 |-> Record(<<"catalog", "book">>[i], p.cursor + i, g)]
      BY <2>1
    <3>2. recs[1] = c1 /\ recs[2] = r2
      BY <3>1
    <3>3. recs = [i \in 1..2 |-> recs[i]] /\ <<c1, r2>> = [i \in 1..2 |-> <<c1, r2>>[i]]
      BY <3>1
    <3> HIDE DEF recs, c1, r2
    <3>4. \A i \in 1..2 : recs[i] = <<c1, r2>>[i]
      BY <3>2
    <3>5. QED BY <3>3, <3>4
  <2> HIDE DEF recs, kinds, c1, r2, old
  <2>3. /\ Len(<<c1, r2>>) = 2 /\ <<c1, r2>>[1] = c1 /\ <<c1, r2>>[2] = r2 /\ <<c1, r2>> # <<>>
        /\ <<c1, r2>> \in Seq(Records) /\ DOMAIN <<c1, r2>> = 1..2
    BY <1>3
  <2>4. appended = <<AppendOutcomes(R, <<c1>>), AppendOutcomes(AppendOutcomes(R, <<c1>>), <<r2>>)>>
    BY <2>2, <2>3
  <2>5. /\ appended \in Seq(Roots) /\ Len(appended) = Len(recs) /\ Last(appended).manifest = R.manifest
        /\ BringsUp(appended, p, old, recs, boots)
    <3> DEFINE first == AppendOutcomes(R, <<c1>>)
               second == AppendOutcomes(first, <<r2>>)
    <3>1. c1.kind # "late" /\ r2.kind # "late"
      BY <1>3
    <3>2. /\ <<first, second>> \in Seq(Roots) /\ Len(<<first, second>>) = Len(<<c1, r2>>)
          /\ Last(<<first, second>>).manifest = R.manifest
          /\ BringsUp(<<first, second>>, p, RecordsOf(R.wal), <<c1, r2>>, boots)
      BY <1>3, <3>1, SeedCatalog
    <3>3. appended = <<first, second>>
      BY <2>4
    <3> HIDE DEF first, second, appended
    <3>4. QED BY <2>2, <3>2, <3>3 DEF old
  <2>6. q = Evaluate(Evaluate(p, c1, boots), r2, boots)
    BY <1>3, <2>2, TwoRecords
  <2>7. q.catalog = CatalogOf[g] /\ q.cursor = p.cursor + Len(recs)
    <3> DEFINE p1 == Evaluate(p, c1, boots)
    <3>1. p1 \in Projection /\ p1.catalog = CatalogOf[g]
      BY <1>3, EvaluateFields
    <3> HIDE DEF p1
    <3>2. Evaluate(p1, r2, boots).catalog = p1.catalog /\ Evaluate(p1, r2, boots).cursor = r2.cursor
      BY <1>3, <3>1, BookEvaluates
    <3>3. q = Evaluate(p1, r2, boots)
      BY <2>6 DEF p1
    <3> HIDE DEF q
    <3>4. QED BY <1>3, <2>2, <2>3, <3>1, <3>2, <3>3
  <2>8. SeedRecords(recs, p, g)
    <3>1. \A i \in 1..2 : <<c1, r2>>[i].gen = g /\ <<c1, r2>>[i].cursor = p.cursor + i
      <4>1. \A i \in 1..2 : i = 1 \/ i = 2
        OBVIOUS
      <4>2. QED BY <1>3, <2>3, <4>1
    <3>2. QED BY <1>3, <2>2, <2>3, <3>1 DEF SeedRecords
  <2> HIDE DEF appended, q
  <2>9. QED BY <1>5, <2>1, <2>2, <2>3, <2>5, <2>7, <2>8
<1>8. QED BY <1>4, <1>6, <1>7

LEMMA EmptyRootType ==
  /\ EmptyRoot \in Roots /\ EmptyRoot.wal = <<>> /\ EmptyRoot.manifest = None
<1> DEFINE none == [c \in {} |-> None]
<1>1. none \in [{} -> Projection]
  OBVIOUS
<1>2. {} \in SUBSET Nat
  OBVIOUS
<1> HIDE DEF none
<1>3. none \in Files
  BY <1>1, <1>2 DEF Files
<1>4. EmptyRoot = [wal |-> <<>>, ckpt |-> none, manifest |-> None]
  BY DEF EmptyRoot, none
<1>5. <<>> \in Seq(Segments)
  BY EmptySeq
<1>6. QED BY <1>3, <1>4, <1>5 DEF Roots

LEMMA ForkSound ==
  ASSUME NEW p \in Projection, p.stale = FALSE, NEW parent \in Manifest, parent.current = p,
         NEW W, W = ForkWrites(p, parent)
  PROVE W \in Seq(Roots) /\ W # <<>> /\ Last(W) \in SoundRoots(p, <<>>)
<1> DEFINE file == [EmptyRoot EXCEPT !.ckpt = WithFile(@, p)]
           seg == Segment(<<>>, p.cursor + 1, p)
           anchored == [file EXCEPT !.wal = <<seg>>]
           M == [current |-> p, previous |-> None, lineage |-> parent.current]
           named == [anchored EXCEPT !.manifest = M]
<1>1. W = <<file, anchored, named>>
  BY DEF ForkWrites
<1>2. p.cursor \in Nat /\ p # None
  BY NoneAssumption DEF Projection
<1>3. file \in Roots /\ file.wal = <<>> /\ file.ckpt = WithFile(EmptyRoot.ckpt, p)
  <2>1. EmptyRoot.ckpt \in Files
    BY EmptyRootType DEF Roots
  <2>2. WithFile(EmptyRoot.ckpt, p) \in Files
    BY <2>1, WithFileType
  <2>3. QED BY <2>2, EmptyRootType DEF Roots
<1>4. Loads(file, p)
  <2>1. EmptyRoot.ckpt \in Files
    BY EmptyRootType DEF Roots
  <2> HIDE DEF file
  <2>2. QED BY <1>3, <2>1, WithFileType DEF Loads
<1>5. /\ <<seg>> \in Seq(Segments) /\ Linked(<<seg>>) /\ RecordsOf(<<seg>>) = <<>>
      /\ AnchoredIn(<<seg>>, p)
  <2> DEFINE none == <<>>
  <2>1. none \in Seq(Segments) /\ Linked(none) /\ RecordsOf(none) = <<>> /\ p.cursor + 1 \in Nat
        /\ p \in Projection \cup {None}
    BY <1>2, EmptySeq, RecordsNone DEF Linked
  <2>2. Append(none, seg) = <<seg>>
    OBVIOUS
  <2>3. seg = Segment(none, p.cursor + 1, p)
    OBVIOUS
  <2> HIDE DEF none, seg
  <2>4. LET v == Append(none, Segment(none, p.cursor + 1, p)) IN
        v \in Seq(Segments) /\ Linked(v) /\ RecordsOf(v) = RecordsOf(none) /\ AnchoredIn(v, p)
    BY <2>1, SegmentAdded
  <2>5. QED BY <2>1, <2>2, <2>3, <2>4
<1> HIDE DEF file, seg
<1>6. anchored \in Roots /\ anchored.wal = <<seg>> /\ anchored.ckpt = file.ckpt
  BY <1>3, <1>5 DEF Roots
<1> HIDE DEF anchored
<1>7. Loads(anchored, p)
  BY <1>4, <1>6 DEF Loads
<1>8. M \in Manifest /\ M.current = p /\ ValidParentLineage(M)
  <2>1. M.lineage.cursor <= M.current.cursor
    BY <1>2
  <2>2. QED BY <2>1 DEF Manifest, ValidParentLineage
<1> HIDE DEF M
<1>9. /\ named \in Roots /\ named.manifest = M /\ named.wal = anchored.wal
      /\ named.ckpt = anchored.ckpt
  BY <1>6, <1>8 DEF Roots
<1> HIDE DEF named
<1>10. Sound(named, p)
  <2>1. /\ Linked(anchored.wal) /\ AnchoredIn(anchored.wal, p)
        /\ Consecutive(RecordsOf(anchored.wal)) /\ Ends(RecordsOf(anchored.wal), p.cursor)
    <3>1. RecordsOf(anchored.wal) = <<>> /\ Len(<<>>) = 0 /\ DOMAIN <<>> = {}
      BY <1>5, <1>6
    <3>2. Linked(anchored.wal) /\ AnchoredIn(anchored.wal, p)
      BY <1>5, <1>6
    <3>3. QED BY <3>1, <3>2 DEF Consecutive, Ends
  <2>2. p.stale = FALSE
    OBVIOUS
  <2>3. QED BY ONLY <1>6, <1>7, <1>8, <1>9, <2>1, <2>2, p \in Projection, NamedSound
<1>11. named \in SoundRoots(p, <<>>)
  BY <1>5, <1>6, <1>9, <1>10 DEF SoundRoots
<1>12. QED BY <1>1, <1>3, <1>6, <1>9, <1>11, ThreeSeq

-----------------------------------------------------------------------------
(* Preparing a generation.                                                 *)

\* The writes ws of roots of S as generation h's files keep the files in T.
Stays(roots, h, S, T) == \A x \in S : [roots EXCEPT ![h] = x] \in T
Writes(roots, h, ws, S, T) == ws \in Seq(S) /\ ws # <<>> /\ Stays(roots, h, S, T)
Written(roots, h, ws, T) ==
    /\ In(roots, h, ws) \in Seq(T) /\ In(roots, h, ws) # <<>>
    /\ Last(In(roots, h, ws)) = [roots EXCEPT ![h] = Last(ws)]

LEMMA InSeq ==
  ASSUME NEW roots, NEW h, NEW S, NEW T, NEW ws, Writes(roots, h, ws, S, T)
  PROVE Written(roots, h, ws, T)
<1>0. ws \in Seq(S) /\ ws # <<>> /\ Stays(roots, h, S, T)
  BY DEF Writes
<1> DEFINE n == Len(ws)
           s == In(roots, h, ws)
<1>1. n \in Nat \ {0} /\ DOMAIN ws = 1..n /\ n \in 1..n
  BY <1>0, EmptySeq, LenProperties
<1>2. \A i \in 1..n : ws[i] \in S
  BY <1>0, ElementOfSeq
<1>3. s = [i \in 1..n |-> [roots EXCEPT ![h] = ws[i]]]
  BY <1>1 DEF In
<1>4. s \in [1..n -> T]
  BY <1>0, <1>2, <1>3 DEF Stays
<1> HIDE DEF s, n
<1>5. s \in Seq(T) /\ Len(s) = n
  BY <1>1, <1>4
<1>6. s # <<>> /\ s[n] = [roots EXCEPT ![h] = ws[n]]
  BY <1>1, <1>3, <1>5, EmptySeq
<1>7. Last(s) = s[n] /\ Last(ws) = ws[n]
  BY <1>5 DEF Last, n
<1>8. QED BY <1>5, <1>6, <1>7 DEF s, Written

\* All files, those of generation h being sound for p with the records recs.
Held(h, p, recs) == {roots \in [Generations -> Roots] : roots[h] \in SoundRoots(p, recs)}

Runtimes == [gen : Generations, proj : Projection, recent : Seq(Records),
             manifest : Manifest \cup {None}]

LEMMA RuntimeFields ==
  ASSUME NEW r \in Runtimes
  PROVE /\ r.gen \in Generations /\ r.proj \in Projection /\ r.recent \in Seq(Records)
        /\ r.manifest \in Manifest \cup {None}
BY DEF Runtimes

LEMMA RecentType == ASSUME NEW S, NEW s \in Seq(S) PROVE Recent(s) \in Seq(S)
<1>1. Len(s) \in Nat /\ \A i \in 1..Len(s) : s[i] \in S
  BY LenProperties, ElementOfSeq
<1>2. CASE Len(s) <= RecentCapacity
  BY <1>2 DEF Recent
<1>3. CASE ~(Len(s) <= RecentCapacity)
  <2>1. Len(s) - RecentCapacity + 1 \in Int /\ Len(s) - RecentCapacity + 1 >= 1
    BY <1>1, <1>3, LiveAssumption
  <2>2. \A i \in (Len(s) - RecentCapacity + 1)..Len(s) : s[i] \in S
    BY <1>1, <2>1
  <2>3. SubSeq(s, Len(s) - RecentCapacity + 1, Len(s)) \in Seq(S)
    BY <1>1, <2>1, <2>2, SubSeqProperties
  <2>4. QED BY <1>3, <2>3 DEF Recent
<1>4. QED BY <1>2, <1>3

\* The candidate c of generation g, forked from the runtime r, and its files.
CandidateOf(c, r, g, files) ==
    /\ c \in Runtimes
    /\ c.gen = g /\ c.proj \in Projection /\ c.proj.catalog = CatalogOf[g]
    /\ \E recs : /\ SeedRecords(recs, r.proj, g)
                 /\ c.proj.cursor = r.proj.cursor + Len(recs)
                 /\ c.recent = Recent(r.recent \o recs)
                 /\ files \in SoundRoots(c.proj, recs)
    /\ c.manifest = files.manifest

LEMMA PrepareSound ==
  ASSUME root \in [Generations -> Roots], runtime.gen \in Generations, runtime.proj \in Projection,
         Sound(root[runtime.gen], runtime.proj), runtime.manifest = root[runtime.gen].manifest,
         runtime.recent \in Seq(Records), boots \in Nat, NEW g \in Generations, g # runtime.gen,
         NEW P, P = Prepare(g)
  PROVE /\ P.writes \in Seq(Held(runtime.gen, runtime.proj, RecordsOf(root[runtime.gen].wal)))
        /\ P.writes # <<>>
        /\ P.manifest = Last(P.writes)[runtime.gen].manifest
        /\ P.runtime # None => CandidateOf(P.runtime, runtime, g, Last(P.writes)[g])
<1> DEFINE G == runtime.gen
           p == runtime.proj
           R == root[G]
           recs == RecordsOf(R.wal)
           H == Held(G, p, recs)
           cleared == [root EXCEPT ![g] = EmptyRoot]
           own == CheckpointWrites(cleared[runtime.gen], runtime.proj, runtime.manifest)
           ownIn == In(cleared, runtime.gen, own.writes)
           first == <<cleared>> \o ownIn
           parent == Last(own.writes).manifest
           forks == ForkWrites(runtime.proj, parent)
           fork == In(Last(first), g, forks)
           forked == Last(fork)[g]
           seed == SeedWrites(forked, Prune(runtime.proj), g, forked.manifest)
           seeded == In(Last(fork), g, seed.writes)
           final == CheckpointWrites(Last(seed.writes), seed.proj, seed.manifest)
           last == In(Last(seeded), g, final.writes)
           prepared == [gen |-> g, proj |-> seed.proj, manifest |-> Last(final.writes).manifest,
                        recent |-> Recent(runtime.recent \o seed.recs)]
<1>1. P = CASE ~own.ok -> [writes |-> first, runtime |-> None, manifest |-> runtime.manifest]
            [] own.ok /\ ~seed.ok -> [writes |-> first \o fork \o seeded, runtime |-> None,
                                      manifest |-> parent]
            [] OTHER -> [writes |-> first \o fork \o seeded \o last, manifest |-> parent,
                         runtime |-> IF final.ok THEN prepared ELSE None]
  BY DEF Prepare
<1>2. /\ R \in Roots /\ R \in SoundRoots(p, recs) /\ Sound(R, p) /\ p.stale = FALSE
      /\ runtime.manifest = R.manifest /\ g # G /\ G \in Generations /\ p \in Projection
  BY DEF SoundRoots, Sound
<1>3. cleared \in H /\ cleared[G] = R
  BY <1>2, EmptyRootType DEF Held
<1>4. own = CheckpointWrites(R, p, R.manifest)
  BY <1>2, <1>3
<1> HIDE DEF G, p, R, recs
<1>5. /\ own.ok \in BOOLEAN /\ own.writes \in Seq(SoundRoots(p, recs)) /\ own.writes # <<>>
      /\ own.ok => parent # None /\ parent.current = p
      /\ ~own.ok => parent = R.manifest
  BY <1>2, <1>4, CheckpointSound DEF recs
<1> HIDE DEF own
\* Files that differ in generation g or G only are held.
<1>6. \A roots \in H : Stays(roots, G, SoundRoots(p, recs), H)
  BY <1>2 DEF Held, SoundRoots, Stays
<1>7. \A roots \in H : Stays(roots, g, Roots, H)
  BY <1>2 DEF Held, Stays
<1> HIDE DEF H, cleared
<1>8. /\ first \in Seq(H) /\ first # <<>> /\ Last(first) = [cleared EXCEPT ![G] = Last(own.writes)]
  <2>1. /\ ownIn \in Seq(H) /\ ownIn # <<>> /\ Last(ownIn) = [cleared EXCEPT ![G] = Last(own.writes)]
    <3> DEFINE ws == own.writes
               S == SoundRoots(p, recs)
    <3>2. ws \in Seq(S) /\ ws # <<>> /\ ownIn = In(cleared, G, ws)
      BY <1>5 DEF G
    <3>3. Stays(cleared, G, S, H)
      BY <1>3, <1>6
    <3> HIDE DEF ws, S, ownIn
    <3>4. Writes(cleared, G, ws, S, H)
      BY <3>2, <3>3 DEF Writes
    <3>5. Written(cleared, G, ws, H)
      BY <3>4, InSeq, Zenon
    <3>6. QED BY <3>2, <3>5 DEF ws, Written
  <2>2. <<cleared>> \in Seq(H)
    BY <1>3, OneSeq
  <2> HIDE DEF ownIn
  <2>3. /\ <<cleared>> \o ownIn \in Seq(H) /\ <<cleared>> \o ownIn # <<>>
        /\ Last(<<cleared>> \o ownIn) = Last(ownIn)
    BY ONLY <2>1, <2>2, LastConcat
  <2>4. QED BY <2>1, <2>3
<1>9. Last(first) \in H /\ Last(first)[G].manifest = parent
  <2>1. Last(first) \in H
    BY <1>8, LastIn
  <2>2. cleared \in [Generations -> Roots]
    BY <1>3 DEF H, Held
  <2>3. QED BY <1>2, <1>8, <2>1, <2>2
<1> HIDE DEF first
<1>10. CASE ~own.ok
  <2>1. P.writes = first /\ P.runtime = None /\ P.manifest = runtime.manifest
    <3> HIDE DEF fork, seeded, last, prepared, parent, seed, final
    <3>1. P = [writes |-> first, runtime |-> None, manifest |-> runtime.manifest]
      BY <1>1, <1>10
    <3>2. QED BY <3>1
  <2>2. P.manifest = Last(first)[G].manifest
    BY <1>2, <1>5, <1>9, <1>10, <2>1
  <2>3. QED BY <1>8, <2>1, <2>2 DEF H, G, p, recs, R
<1>11. CASE own.ok
  <2>1. parent \in Manifest /\ parent.current = p
    <3>1. Last(own.writes) \in SoundRoots(p, recs)
      BY <1>5, LastIn
    <3>2. Last(own.writes) \in Roots
      BY <3>1 DEF SoundRoots
    <3>3. parent \in Manifest \cup {None}
      BY <3>2, RootFields
    <3>4. QED BY <1>5, <1>11, <3>3
  <2> HIDE DEF parent
  <2>2. forks \in Seq(Roots) /\ forks # <<>> /\ Last(forks) \in SoundRoots(p, <<>>)
    BY <1>2, <2>1, ForkSound DEF p
  <2> HIDE DEF forks
  <2>3. fork \in Seq(H) /\ fork # <<>> /\ Last(fork) = [Last(first) EXCEPT ![g] = Last(forks)]
    <3> DEFINE base == Last(first)
    <3>1. Stays(base, g, Roots, H)
      BY <1>7, <1>9
    <3>2. forks \in Seq(Roots) /\ forks # <<>> /\ fork = In(base, g, forks)
      BY <2>2
    <3> HIDE DEF base, fork
    <3>3. Writes(base, g, forks, Roots, H)
      BY <3>1, <3>2 DEF Writes
    <3>4. Written(base, g, forks, H)
      BY <3>3, InSeq, Zenon
    <3>5. QED BY <3>2, <3>4 DEF base, Written
  <2> HIDE DEF fork
  <2>4. Last(fork) \in H
    BY <2>3, LastIn
  <2>5. Last(first) \in [Generations -> Roots] /\ Last(fork) \in [Generations -> Roots]
    BY <1>9, <2>4 DEF H, Held
  <2>6. forked = Last(forks) /\ Last(fork)[G] = Last(first)[G]
    BY <1>2, <2>3, <2>5
  <2>7. forked \in Roots /\ Sound(forked, p) /\ RecordsOf(forked.wal) = <<>>
    BY <2>2, <2>6 DEF SoundRoots
  <2> HIDE DEF forked
  <2>8. seed = SeedWrites(forked, p, g, forked.manifest)
    BY <1>2, PruneFields DEF p
  <2>9. Seeds(seed, forked, p, g, boots)
    BY <1>2, <2>7, <2>8, SeedSound
  <2> HIDE DEF seed
  <2>10. /\ seed.ok \in BOOLEAN /\ SeedRecords(seed.recs, p, g) /\ seed.proj \in Projection
         /\ seed.proj.catalog = CatalogOf[g] /\ seed.proj.cursor = p.cursor + Len(seed.recs)
         /\ seed.writes \in Seq(Roots) /\ seed.writes # <<>>
         /\ Last(seed.writes) \in SoundRoots(seed.proj, <<>> \o seed.recs)
         /\ Last(seed.writes).manifest = seed.manifest
    BY <2>7, <2>9 DEF Seeds
  <2>11. /\ seeded \in Seq(H) /\ seeded # <<>>
         /\ Last(seeded) = [Last(fork) EXCEPT ![g] = Last(seed.writes)]
    <3>1. Stays(Last(fork), g, Roots, H)
      BY <1>7, <2>4
    <3>2. Writes(Last(fork), g, seed.writes, Roots, H)
      BY <2>10, <3>1 DEF Writes
    <3>3. Written(Last(fork), g, seed.writes, H)
      BY <3>2, InSeq, Zenon
    <3>4. QED BY <3>3 DEF Written
  <2> HIDE DEF seeded
  <2>12. Last(seeded) \in H
    BY <2>11, LastIn
  <2>13. Last(seeded) \in [Generations -> Roots] /\ Last(seeded)[G] = Last(first)[G]
    BY <1>2, <2>5, <2>6, <2>11, <2>12 DEF H, Held
  <2>14. /\ first \o fork \in Seq(H) /\ first \o fork # <<>>
         /\ (first \o fork) \o seeded \in Seq(H) /\ (first \o fork) \o seeded # <<>>
         /\ Last((first \o fork) \o seeded) = Last(seeded)
    <3>1. first \o fork \in Seq(H) /\ first \o fork # <<>>
      BY <1>8, <2>3, LastConcat
    <3> DEFINE both == first \o fork
    <3>2. both \in Seq(H)
      BY <3>1
    <3> HIDE DEF both
    <3>3. both \o seeded \in Seq(H) /\ both \o seeded # <<>> /\ Last(both \o seeded) = Last(seeded)
      BY <2>11, <3>2, LastConcat
    <3>4. QED BY <3>1, <3>3 DEF both
  <2>15. CASE ~seed.ok
    <3>1. P.writes = first \o fork \o seeded /\ P.runtime = None /\ P.manifest = parent
      BY <1>1, <1>11, <2>15
    <3>2. P.manifest = Last(P.writes)[G].manifest
      BY <1>9, <2>13, <2>14, <3>1
    <3>3. QED BY <2>14, <3>1, <3>2 DEF H, G, p, recs, R
  <2>16. CASE seed.ok
    <3> DEFINE all == first \o fork \o seeded
               S == SoundRoots(seed.proj, seed.recs)
    <3>1. /\ P.writes = all \o last /\ P.manifest = parent
          /\ P.runtime = IF final.ok THEN prepared ELSE None
      <4> DEFINE outcome == IF final.ok THEN prepared ELSE None
      <4> HIDE DEF final, last, prepared, outcome
      <4>1. P = [writes |-> all \o last, manifest |-> parent, runtime |-> outcome]
        BY <1>1, <1>11, <2>16 DEF outcome
      <4> HIDE DEF all
      <4>2. P.writes = all \o last /\ P.manifest = parent /\ P.runtime = outcome
        BY <4>1
      <4>3. QED BY <4>2 DEF outcome
    <3>2. seed.recs \in Seq(Records) /\ <<>> \o seed.recs = seed.recs
      BY <2>10, ConcatEmptySeq DEF SeedRecords
    <3>3. Last(seed.writes) \in S
      BY <2>10, <3>2
    <3>4. /\ Last(seed.writes) \in Roots /\ Sound(Last(seed.writes), seed.proj)
          /\ RecordsOf(Last(seed.writes).wal) = seed.recs
      BY <3>3 DEF SoundRoots
    <3>5. final = CheckpointWrites(Last(seed.writes), seed.proj, Last(seed.writes).manifest)
      BY <2>10
    <3> HIDE DEF final
    <3>6. final.writes \in Seq(S) /\ final.writes # <<>>
      BY <2>10, <3>4, <3>5, CheckpointSound
    <3>7. Last(final.writes) \in S
      BY <3>6, LastIn
    <3> HIDE DEF S
    <3>8. /\ last \in Seq(H) /\ last # <<>>
          /\ Last(last) = [Last(seeded) EXCEPT ![g] = Last(final.writes)]
      <4> DEFINE base == Last(seeded)
                 ws == final.writes
      <4>1. Stays(base, g, S, H)
        <5>1. Stays(base, g, Roots, H)
          BY <1>7, <2>12
        <5>2. S \subseteq Roots
          BY DEF S, SoundRoots
        <5> HIDE DEF base
        <5>3. QED BY <5>1, <5>2 DEF Stays
      <4>2. ws \in Seq(S) /\ ws # <<>> /\ last = In(base, g, ws)
        BY <3>6
      <4> HIDE DEF base, ws, last
      <4>3. Writes(base, g, ws, S, H)
        BY <4>1, <4>2 DEF Writes
      <4>4. Written(base, g, ws, H)
        BY <4>3, InSeq, Zenon
      <4>5. QED BY <4>2, <4>4 DEF base, ws, Written
    <3> HIDE DEF last, all
    <3>9. all \in Seq(H)
      BY <2>14 DEF all
    <3>10. all \o last \in Seq(H) /\ all \o last # <<>> /\ Last(all \o last) = Last(last)
      BY <3>8, <3>9, LastConcat
    <3>11. /\ Last(P.writes)[G].manifest = parent /\ Last(P.writes)[g] = Last(final.writes)
      BY <1>2, <1>9, <2>13, <3>1, <3>8, <3>10
    <3>12. P.runtime # None => CandidateOf(P.runtime, runtime, g, Last(P.writes)[g])
      <4> SUFFICES ASSUME P.runtime # None PROVE CandidateOf(P.runtime, runtime, g, Last(P.writes)[g])
        OBVIOUS
      <4>1. P.runtime = prepared
        BY <3>1
      <4>2. /\ P.runtime.gen = g /\ P.runtime.proj = seed.proj
            /\ P.runtime.manifest = Last(final.writes).manifest
            /\ P.runtime.recent = Recent(runtime.recent \o seed.recs)
        BY <4>1
      <4>3. runtime.recent \o seed.recs \in Seq(Records)
        BY <3>2, ConcatProperties
      <4>4. Recent(runtime.recent \o seed.recs) \in Seq(Records)
        BY <4>3, RecentType
      <4>5. Last(final.writes).manifest \in Manifest \cup {None}
        BY <3>7, RootFields DEF S, SoundRoots
      <4>6. P.runtime \in Runtimes
        BY <2>10, <4>1, <4>4, <4>5 DEF Runtimes
      <4> HIDE DEF prepared
      <4>7. QED BY <2>10, <3>7, <3>11, <4>2, <4>6 DEF CandidateOf, S, p
    <3>13. QED BY <3>1, <3>10, <3>11, <3>12 DEF H, G, p, recs, R
  <2>17. QED BY <2>10, <2>15, <2>16
<1>12. QED BY <1>5, <1>10, <1>11

-----------------------------------------------------------------------------
(* A restart loses nothing.                                                *)

TypeOK ==
    /\ root \in [Generations -> Roots] /\ pointer \in Generations
    /\ boots \in Nat /\ up \in BOOLEAN
    /\ runtime \in Runtimes /\ switches \in Seq(Generations) /\ outbox \in Seq(Records)

\* The files of the active generation hold what the runtime has, and a
\* prepared candidate has files of its own from which it is recovered.
Durable ==
    /\ TypeOK
    /\ pointer = runtime.gen /\ Sound(root[pointer], runtime.proj)
    /\ up => runtime.manifest = root[pointer].manifest
    /\ up /\ owner \notin {"swapped", "stored"} => active = runtime.gen
    /\ up /\ owner = "prepared" =>
         /\ candidate \in Runtimes /\ candidate.gen # runtime.gen
         /\ Sound(root[candidate.gen], candidate.proj)
         /\ candidate.manifest = root[candidate.gen].manifest

LEMMA InitDurable == Init => Durable
<1> SUFFICES ASSUME Init PROVE Durable
  OBVIOUS
<1> DEFINE p == Bootstrap(0)
<1>1. p \in Projection /\ p.cursor = 0 /\ p.stale = FALSE
  BY BootstrapFields
<1>2. /\ root = [g \in Generations |-> EmptyRoot] /\ pointer = 1 /\ 1 \in Generations
      /\ runtime = [gen |-> 1, proj |-> p, recent |-> <<>>, manifest |-> None]
      /\ boots = 0 /\ up = FALSE /\ switches = <<>> /\ outbox = <<>>
  BY LiveAssumption DEF Init
<1> HIDE DEF p
<1>3. <<>> \in Seq(Records) /\ <<>> \in Seq(Generations)
  BY EmptySeq
<1>4. TypeOK
  BY <1>1, <1>2, <1>3, EmptyRootType DEF TypeOK, Runtimes
<1>5. root[pointer] = EmptyRoot /\ runtime.proj = p /\ runtime.gen = 1
  BY <1>2
<1>6. Sound(EmptyRoot, p)
  <2>1. RecordsOf(EmptyRoot.wal) = <<>> /\ EmptyRoot.manifest = None /\ EmptyRoot.wal = <<>>
    BY EmptyRootType, RecordsNone
  <2>2. Linked(<<>>) /\ Consecutive(<<>>) /\ Ends(<<>>, p.cursor)
    <3>1. DOMAIN <<>> = {} /\ Len(<<>>) = 0
      BY EmptySeq
    <3>2. QED BY <3>1 DEF Linked, Consecutive, Ends
  <2>3. ASSUME NEW b \in Nat PROVE Reaches(Bootstrap(b), <<>>, p)
    <3>1. Bootstrap(b) \in Projection /\ Bootstrap(b).cursor = 0 /\ Agree(Bootstrap(b), p)
      BY BootstrapFields DEF p
    <3>2. \A a \in Nat : Replay(Bootstrap(b), <<>>, a) = Bootstrap(b)
      BY <3>1, ReplayNone
    <3>3. QED BY <1>1, <3>1, <3>2 DEF Reaches
  <2>4. QED BY <1>1, <2>1, <2>2, <2>3 DEF Sound
<1>7. QED BY <1>2, <1>4, <1>5, <1>6 DEF Durable

\* A checkpoint of the running generation.
LEMMA CheckpointStep ==
  ASSUME Durable, up, NEW ok \in BOOLEAN, CheckpointRuntime(ok)
  PROVE /\ root' \in [Generations -> Roots] /\ runtime' \in Runtimes
        /\ runtime'.gen = runtime.gen /\ runtime'.proj = runtime.proj
        /\ runtime'.recent = runtime.recent
        /\ root'[runtime.gen] \in SoundRoots(runtime.proj, RecordsOf(root[runtime.gen].wal))
        /\ runtime'.manifest = root'[runtime.gen].manifest
        /\ \A h \in Generations : h # runtime.gen => root'[h] = root[h]
        /\ published' \in {published, runtime.proj}
<1> DEFINE G == runtime.gen
           C == CheckpointWrites(root[G], runtime.proj, runtime.manifest)
<1>1. /\ G \in Generations /\ runtime.proj \in Projection /\ runtime \in Runtimes
      /\ root \in [Generations -> Roots] /\ root[G] \in Roots /\ Sound(root[G], runtime.proj)
      /\ runtime.manifest = root[G].manifest
  BY RuntimeFields DEF Durable, TypeOK
<1>2. /\ ok = C.ok /\ root' = [root EXCEPT ![G] = Last(C.writes)]
      /\ runtime' = IF ok THEN [runtime EXCEPT !.manifest = Last(C.writes).manifest] ELSE runtime
      /\ published' = IF ok THEN runtime.proj ELSE published
  BY DEF CheckpointRuntime
<1>3. C = CheckpointWrites(root[G], runtime.proj, root[G].manifest)
  BY <1>1
<1> HIDE DEF C, G
<1>4. /\ C.writes \in Seq(SoundRoots(runtime.proj, RecordsOf(root[G].wal))) /\ C.writes # <<>>
      /\ ~C.ok => Last(C.writes).manifest = root[G].manifest
  BY <1>1, <1>3, CheckpointSound
<1>5. Last(C.writes) \in SoundRoots(runtime.proj, RecordsOf(root[G].wal))
  BY <1>4, LastIn
<1>6. Last(C.writes) \in Roots /\ Last(C.writes).manifest \in Manifest \cup {None}
  BY <1>5, RootFields DEF SoundRoots
<1>7. /\ root' \in [Generations -> Roots] /\ root'[G] = Last(C.writes)
      /\ \A h \in Generations : h # G => root'[h] = root[h]
  BY <1>1, <1>2, <1>6
<1>8. /\ runtime' \in Runtimes /\ runtime'.gen = runtime.gen /\ runtime'.proj = runtime.proj
      /\ runtime'.recent = runtime.recent /\ runtime'.manifest = Last(C.writes).manifest
  <2>1. CASE ok
    BY <1>1, <1>2, <1>6, <2>1 DEF Runtimes
  <2>2. CASE ~ok
    BY <1>1, <1>2, <1>4, <2>2
  <2>3. QED BY <2>1, <2>2
<1>9. QED BY <1>2, <1>5, <1>7, <1>8 DEF G

\* The owner stays where it is, or had no switch under way and takes none up.
OwnerKept == owner' = owner \/ (owner \notin {"swapped", "stored"} /\ owner' # "prepared")

\* After such a checkpoint, with an owner that holds no candidate or the same.
LEMMA CheckpointDurable ==
  ASSUME Durable, up, NEW ok \in BOOLEAN, CheckpointRuntime(ok),
         UNCHANGED <<pointer, boots, candidate, active, switches>>, outbox' \in Seq(Records),
         up' \in BOOLEAN, OwnerKept
  PROVE Durable'
<1>1. /\ root' \in [Generations -> Roots] /\ runtime' \in Runtimes
      /\ runtime'.gen = runtime.gen /\ runtime'.proj = runtime.proj
      /\ root'[runtime.gen] \in SoundRoots(runtime.proj, RecordsOf(root[runtime.gen].wal))
      /\ runtime'.manifest = root'[runtime.gen].manifest
      /\ \A h \in Generations : h # runtime.gen => root'[h] = root[h]
  BY CheckpointStep
<1>2. Sound(root'[runtime.gen], runtime.proj)
  BY <1>1 DEF SoundRoots
<1>3. TypeOK'
  BY <1>1 DEF Durable, TypeOK
<1>4. (up /\ owner \notin {"swapped", "stored"} => active = runtime.gen)'
  BY <1>1 DEF Durable, OwnerKept
<1>5. ASSUME owner' = "prepared"
      PROVE /\ candidate \in Runtimes /\ candidate.gen # runtime.gen
            /\ Sound(root'[candidate.gen], candidate.proj)
            /\ candidate.manifest = root'[candidate.gen].manifest
  <2>1. /\ candidate \in Runtimes /\ candidate.gen # runtime.gen /\ candidate.gen \in Generations
        /\ Sound(root[candidate.gen], candidate.proj)
        /\ candidate.manifest = root[candidate.gen].manifest
    BY <1>5, RuntimeFields DEF Durable, OwnerKept
  <2>2. root'[candidate.gen] = root[candidate.gen]
    BY <1>1, <2>1
  <2>3. QED BY <2>1, <2>2
<1>6. QED BY <1>1, <1>2, <1>3, <1>4, <1>5 DEF Durable

\* A record is appended and applied.
LEMMA ApplyStep ==
  ASSUME "late" \notin Kinds, Durable, NEW kind \in {"book", "gap"} \cup Kinds, ApplyRaw(kind)
  PROVE LET rec == Record(kind, runtime.proj.cursor + 1, runtime.gen)
            p == Evaluate(runtime.proj, rec, boots)
        IN /\ rec \in Records /\ rec.kind = kind /\ rec.gen = runtime.gen
           /\ rec.cursor = runtime.proj.cursor + 1
           /\ root' \in [Generations -> Roots] /\ runtime' \in Runtimes
           /\ runtime'.gen = runtime.gen /\ runtime'.manifest = runtime.manifest
           /\ runtime'.proj = p /\ runtime'.recent = Recent(Append(runtime.recent, rec))
           /\ root'[runtime.gen] \in SoundRoots(p, Append(RecordsOf(root[runtime.gen].wal), rec))
           /\ root'[runtime.gen].manifest = root[runtime.gen].manifest
           /\ \A h \in Generations : h # runtime.gen => root'[h] = root[h]
           /\ outbox' = <<rec>> /\ published' = p
<1> DEFINE G == runtime.gen
           rec == Record(kind, runtime.proj.cursor + 1, runtime.gen)
           p == Evaluate(runtime.proj, rec, boots)
           S == AppendOutcomes(root[G], <<rec>>)
<1>1. /\ G \in Generations /\ runtime.proj \in Projection /\ runtime \in Runtimes
      /\ runtime.recent \in Seq(Records) /\ boots \in Nat
      /\ root \in [Generations -> Roots] /\ root[G] \in Roots /\ Sound(root[G], runtime.proj)
  BY RuntimeFields DEF Durable, TypeOK
<1>2. /\ root' = [root EXCEPT ![G] = S] /\ outbox' = <<rec>> /\ published' = p
      /\ runtime' = [runtime EXCEPT !.proj = p, !.recent = Recent(Append(@, rec))]
  BY DEF ApplyRaw
<1>3. runtime.proj.cursor + 1 \in Nat
  BY <1>1 DEF Projection
<1>4. rec \in Records /\ rec.kind = kind /\ rec.gen = G /\ rec.cursor = runtime.proj.cursor + 1
  BY <1>1, <1>3, RecordType
<1>5. rec.kind # "late"
  BY <1>4
<1> HIDE DEF rec, G
<1>6. /\ S \in Roots /\ Sound(S, p) /\ p \in Projection
      /\ RecordsOf(S.wal) = Append(RecordsOf(root[G].wal), rec) /\ S.manifest = root[G].manifest
  BY <1>1, <1>4, <1>5, AppendSound
<1> HIDE DEF S, p
<1>7. /\ root' \in [Generations -> Roots] /\ root'[G] = S
      /\ \A h \in Generations : h # G => root'[h] = root[h]
  BY <1>1, <1>2, <1>6
<1>8. S \in SoundRoots(p, Append(RecordsOf(root[G].wal), rec))
  BY <1>6 DEF SoundRoots
<1>9. Recent(Append(runtime.recent, rec)) \in Seq(Records)
  BY <1>1, <1>4, AppendProperties, RecentType
<1>10. /\ runtime' \in Runtimes /\ runtime'.gen = runtime.gen /\ runtime'.manifest = runtime.manifest
       /\ runtime'.proj = p /\ runtime'.recent = Recent(Append(runtime.recent, rec))
  BY <1>1, <1>2, <1>6, <1>9 DEF Runtimes
<1>11. QED BY <1>2, <1>4, <1>6, <1>7, <1>8, <1>10 DEF G, rec, p

LEMMA ApplyDurable ==
  ASSUME "late" \notin Kinds, Durable, NEW kind \in {"book", "gap"} \cup Kinds, ApplyRaw(kind)
  PROVE Durable'
<1> DEFINE rec == Record(kind, runtime.proj.cursor + 1, runtime.gen)
           p == Evaluate(runtime.proj, rec, boots)
           recs == Append(RecordsOf(root[runtime.gen].wal), rec)
<1>1. /\ rec \in Records /\ root' \in [Generations -> Roots] /\ runtime' \in Runtimes
      /\ runtime'.gen = runtime.gen /\ runtime'.manifest = runtime.manifest /\ runtime'.proj = p
      /\ root'[runtime.gen] \in SoundRoots(p, recs)
      /\ root'[runtime.gen].manifest = root[runtime.gen].manifest /\ outbox' = <<rec>>
  BY ApplyStep
<1> HIDE DEF rec, p, recs
<1>2. /\ owner = "serving" /\ up
      /\ UNCHANGED <<pointer, process, candidate, active, owner, switches>>
  BY DEF ApplyRaw
<1>3. Sound(root'[runtime.gen], p)
  BY <1>1 DEF SoundRoots
<1>4. TypeOK'
  BY <1>1, <1>2, OneSeq DEF Durable, TypeOK, process
<1>5. QED BY <1>1, <1>2, <1>3, <1>4 DEF Durable, process

\* Dying leaves what a restart needs.
LEMMA DieDurable ==
  ASSUME Durable, Die, root' \in [Generations -> Roots], runtime' \in Runtimes,
         runtime'.gen = pointer, Sound(root'[pointer], runtime'.proj)
  PROVE Durable'
<1>1. up' = FALSE /\ UNCHANGED <<pointer, boots, switches, outbox>>
  BY DEF Die
<1>2. TypeOK'
  BY <1>1 DEF Durable, TypeOK
<1>3. QED BY <1>1, <1>2 DEF Durable

LEMMA CrashDurable == ASSUME Durable, Crash PROVE Durable'
<1>1. Die /\ UNCHANGED <<root, runtime>>
  BY DEF Crash
<1>2. QED BY <1>1, DieDurable DEF Durable, TypeOK

LEMMA CrashInCheckpointDurable == ASSUME Durable, CrashInCheckpoint PROVE Durable'
<1> DEFINE G == runtime.gen
           C == CheckpointWrites(root[G], runtime.proj, runtime.manifest)
<1>1. /\ G \in Generations /\ runtime.proj \in Projection /\ runtime \in Runtimes /\ G = pointer
      /\ root \in [Generations -> Roots] /\ root[G] \in Roots /\ Sound(root[G], runtime.proj)
      /\ runtime.manifest = root[G].manifest
  BY RuntimeFields DEF Durable, TypeOK, CrashInCheckpoint
<1>2. PICK files \in Range(C.writes) : root' = [root EXCEPT ![G] = files]
  BY DEF CrashInCheckpoint
<1>3. Die /\ UNCHANGED runtime
  BY DEF CrashInCheckpoint
<1>4. C = CheckpointWrites(root[G], runtime.proj, root[G].manifest)
  BY <1>1
<1> HIDE DEF C, G
<1>5. C.writes \in Seq(SoundRoots(runtime.proj, RecordsOf(root[G].wal)))
  BY <1>1, <1>4, CheckpointSound
<1>6. files \in SoundRoots(runtime.proj, RecordsOf(root[G].wal))
  BY <1>5, RangeEquality, ElementOfSeq
<1>7. files \in Roots /\ Sound(files, runtime.proj)
  BY <1>6 DEF SoundRoots
<1>8. root' \in [Generations -> Roots] /\ root'[G] = files
  BY <1>1, <1>2, <1>7
<1>9. QED BY <1>1, <1>3, <1>7, <1>8, DieDurable DEF G

\* What a running process prepares, from a generation of its own.
LEMMA PrepareStep ==
  ASSUME Durable, up, owner \in {"serving", "waiting"}, NEW g \in Generations, g = active + 1,
         NEW P, P = Prepare(g)
  PROVE /\ P.writes \in Seq(Held(runtime.gen, runtime.proj, RecordsOf(root[runtime.gen].wal)))
        /\ P.writes # <<>> /\ active = runtime.gen /\ g # runtime.gen
        /\ P.manifest = Last(P.writes)[runtime.gen].manifest
        /\ P.runtime # None => CandidateOf(P.runtime, runtime, g, Last(P.writes)[g])
<1>1. /\ root \in [Generations -> Roots] /\ runtime.gen \in Generations /\ runtime.proj \in Projection
      /\ Sound(root[runtime.gen], runtime.proj) /\ runtime.manifest = root[runtime.gen].manifest
      /\ runtime.recent \in Seq(Records) /\ boots \in Nat /\ active = runtime.gen
  BY RuntimeFields DEF Durable, TypeOK
<1>2. runtime.gen \in Nat
  BY <1>1, LiveAssumption
<1>3. g # runtime.gen
  BY <1>1, <1>2
<1>4. QED BY <1>1, <1>3, PrepareSound

LEMMA CrashInPrepareDurable == ASSUME Durable, CrashInPrepare PROVE Durable'
<1> DEFINE g == Head(switches)
           P == Prepare(g)
           H == Held(runtime.gen, runtime.proj, RecordsOf(root[runtime.gen].wal))
<1>1. /\ up /\ owner \in {"serving", "waiting"} /\ g = active + 1 /\ g \in Generations
      /\ root' \in Range(P.writes) /\ Die /\ UNCHANGED runtime
  BY DEF CrashInPrepare
<1> HIDE DEF g, H
<1>2. P.writes \in Seq(H)
  BY <1>1, PrepareStep DEF H
<1> HIDE DEF P
<1>3. root' \in H
  BY <1>1, <1>2, RangeEquality, ElementOfSeq
<1>4. root' \in [Generations -> Roots] /\ Sound(root'[runtime.gen], runtime.proj)
  BY <1>3 DEF H, Held, SoundRoots
<1>5. QED BY <1>1, <1>4, DieDurable DEF Durable, TypeOK

\* Opening the active generation.
LEMMA OpenStep ==
  ASSUME Durable, NEW p, p = RecoverProjection(root[pointer], boots),
         NEW W, W = SeedWrites(root[pointer], p, pointer, root[pointer].manifest)
  PROVE p \in Projection /\ p # None /\ Agree(p, runtime.proj) /\ Seeds(W, root[pointer], p, pointer, boots)
<1>1. pointer \in Generations /\ root[pointer] \in Roots /\ boots \in Nat /\ runtime.proj \in Projection
  BY RuntimeFields DEF Durable, TypeOK
<1>2. Sound(root[pointer], runtime.proj)
  BY DEF Durable
<1>3. p \in Projection /\ p # None /\ Agree(p, runtime.proj) /\ Sound(root[pointer], p)
  BY <1>1, <1>2, RecoverSound
<1>4. Seeds(W, root[pointer], p, pointer, boots)
  BY <1>1, <1>3, SeedSound
<1>5. QED BY <1>3, <1>4

LEMMA CrashInOpenDurable == ASSUME Durable, CrashInOpen PROVE Durable'
<1> DEFINE p == RecoverProjection(root[pointer], boots)
           W == SeedWrites(root[pointer], p, pointer, root[pointer].manifest)
           old == RecordsOf(root[pointer].wal)
<1>1. PICK i \in DOMAIN W.writes :
         /\ root' = [root EXCEPT ![pointer] = W.writes[i]]
         /\ runtime' = [runtime EXCEPT !.gen = pointer, !.proj = Replay(p, SubSeq(W.recs, 1,
                          IF i < Len(W.recs) THEN i ELSE Len(W.recs)), boots)]
  BY DEF CrashInOpen
<1>2. Die
  BY DEF CrashInOpen
<1>3. p \in Projection /\ Seeds(W, root[pointer], p, pointer, boots)
  BY OpenStep
<1> HIDE DEF p, W
<1> DEFINE q == Replay(p, SubSeq(W.recs, 1, IF i < Len(W.recs) THEN i ELSE Len(W.recs)), boots)
           S == W.writes[i]
<1>4. q \in Projection /\ S \in Roots /\ Sound(S, q)
  BY <1>1, <1>3 DEF Seeds, BringsUp, SoundRoots
<1>5. root' = [root EXCEPT ![pointer] = S] /\ runtime' = [runtime EXCEPT !.gen = pointer, !.proj = q]
  BY <1>1
<1> HIDE DEF q, S
<1>6. runtime \in Runtimes /\ pointer \in Generations /\ root \in [Generations -> Roots]
  BY DEF Durable, TypeOK
<1>7. root' \in [Generations -> Roots] /\ root'[pointer] = S
  BY <1>4, <1>5, <1>6
<1>8. runtime' \in Runtimes /\ runtime'.gen = pointer /\ runtime'.proj = q
  BY <1>4, <1>5, <1>6 DEF Runtimes
<1>9. QED BY <1>2, <1>4, <1>7, <1>8, DieDurable

LEMMA OpenDurable == ASSUME Durable, Open PROVE Durable'
<1> DEFINE p == RecoverProjection(root[pointer], boots)
           W == SeedWrites(root[pointer], p, pointer, root[pointer].manifest)
           S == Last(W.writes)
<1>1. p \in Projection /\ p # None /\ Seeds(W, root[pointer], p, pointer, boots)
  BY OpenStep
<1>2. /\ root' = [root EXCEPT ![pointer] = S]
      /\ runtime' = [gen |-> pointer, proj |-> W.proj, manifest |-> W.manifest,
                     recent |-> Recent(RecordsOf(S.wal))]
      /\ active' = pointer /\ owner' \in {"serving", "refused"} /\ up' = W.ok
      /\ UNCHANGED <<pointer, boots, candidate, outbox, switches>>
  <2>1. /\ owner' = IF p # None /\ W.ok THEN "serving" ELSE "refused"
        /\ up' = (p # None /\ W.ok)
        /\ IF p = None THEN UNCHANGED <<root, runtime, published, active, dirty>>
           ELSE /\ root' = [root EXCEPT ![pointer] = S]
                /\ runtime' = [gen |-> pointer, proj |-> W.proj, manifest |-> W.manifest,
                               recent |-> Recent(RecordsOf(S.wal))]
                /\ published' = W.proj /\ active' = pointer /\ dirty' = FALSE
        /\ UNCHANGED <<pointer, boots, candidate, outbox, switches, client>>
    BY DEF Open
  <2>2. W.ok \in BOOLEAN
    BY <1>1 DEF Seeds
  <2> HIDE DEF p, W, S
  <2>3. QED BY <1>1, <2>1, <2>2
<1> HIDE DEF p, W
<1>3. /\ S \in SoundRoots(W.proj, RecordsOf(root[pointer].wal) \o W.recs) /\ W.ok \in BOOLEAN
      /\ W.proj \in Projection /\ S.manifest = W.manifest
  BY <1>1 DEF Seeds
<1> HIDE DEF S
<1>4. S \in Roots /\ Sound(S, W.proj)
  BY <1>3 DEF SoundRoots
<1>5. W.manifest \in Manifest \cup {None} /\ Recent(RecordsOf(S.wal)) \in Seq(Records)
  BY <1>3, <1>4, RootFields, RecentType
<1>6. pointer \in Generations /\ root \in [Generations -> Roots]
  BY DEF Durable, TypeOK
<1>7. root' \in [Generations -> Roots] /\ root'[pointer] = S
  BY <1>2, <1>4, <1>6
<1>8. runtime' \in Runtimes /\ runtime'.gen = pointer /\ runtime'.proj = W.proj
      /\ runtime'.manifest = W.manifest
  BY <1>2, <1>3, <1>5, <1>6 DEF Runtimes
<1>9. TypeOK'
  BY <1>2, <1>3, <1>7, <1>8 DEF Durable, TypeOK
<1>10. QED BY <1>2, <1>3, <1>4, <1>7, <1>8, <1>9 DEF Durable

LEMMA PrepareSwitchDurable == ASSUME Durable, PrepareSwitch PROVE Durable'
<1> DEFINE g == Head(switches)
           P == Prepare(g)
           H == Held(runtime.gen, runtime.proj, RecordsOf(root[runtime.gen].wal))
<1>1. /\ up /\ owner \in {"serving", "waiting"} /\ switches # <<>> /\ switches' = Tail(switches)
      /\ UNCHANGED <<pointer, boots, up, active, outbox>>
      /\ IF g = active + 1
         THEN /\ root' = Last(P.writes) /\ candidate' = P.runtime
              /\ runtime' = [runtime EXCEPT !.manifest = P.manifest]
              /\ owner' = IF P.runtime = None THEN "waiting" ELSE "prepared"
         ELSE owner' = "waiting" /\ UNCHANGED <<root, candidate, runtime>>
  BY DEF PrepareSwitch, process
<1> HIDE DEF P, H
<1>2. g \in Generations /\ switches' \in Seq(Generations)
  BY <1>1, HeadTailProperties DEF Durable, TypeOK
<1> HIDE DEF g
<1>3. CASE g = active + 1
  <2>1. /\ P.writes \in Seq(H) /\ P.writes # <<>> /\ active = runtime.gen /\ g # runtime.gen
        /\ P.manifest = Last(P.writes)[runtime.gen].manifest
        /\ P.runtime # None => CandidateOf(P.runtime, runtime, g, Last(P.writes)[g])
    BY <1>1, <1>2, <1>3, PrepareStep DEF P, H
  <2>2. root' = Last(P.writes) /\ root' \in H
    BY <1>1, <1>3, <2>1, LastIn
  <2>3. /\ root' \in [Generations -> Roots] /\ root'[runtime.gen] \in Roots
        /\ Sound(root'[runtime.gen], runtime.proj)
    BY <2>2 DEF H, Held, SoundRoots
  <2>4. root'[runtime.gen].manifest \in Manifest \cup {None}
    BY <2>3, RootFields
  <2>5. /\ runtime' \in Runtimes /\ runtime'.gen = runtime.gen /\ runtime'.proj = runtime.proj
        /\ runtime'.manifest = root'[runtime.gen].manifest
    <3>1. runtime' = [runtime EXCEPT !.manifest = root'[runtime.gen].manifest]
      BY <1>1, <1>3, <2>1, <2>2
    <3>2. QED BY <2>4, <3>1 DEF Durable, TypeOK, Runtimes
  <2>6. TypeOK'
    BY <1>1, <1>2, <2>3, <2>5 DEF Durable, TypeOK
  <2>7. ASSUME owner' = "prepared"
        PROVE /\ candidate' \in Runtimes /\ candidate'.gen # runtime.gen
              /\ Sound(root'[candidate'.gen], candidate'.proj)
              /\ candidate'.manifest = root'[candidate'.gen].manifest
    <3>1. P.runtime # None /\ candidate' = P.runtime
      BY <1>1, <1>3, <2>7
    <3>2. CandidateOf(candidate', runtime, g, root'[g])
      BY <2>1, <2>2, <3>1
    <3>3. QED BY <2>1, <3>2 DEF CandidateOf, SoundRoots
  <2>8. QED BY <1>1, <1>3, <2>1, <2>3, <2>5, <2>6, <2>7 DEF Durable
<1>4. CASE g # active + 1
  <2>1. owner' = "waiting" /\ UNCHANGED <<root, candidate, runtime>>
    BY <1>1, <1>4
  <2>2. TypeOK'
    BY <1>1, <1>2, <2>1 DEF Durable, TypeOK
  <2>3. QED BY <1>1, <2>1, <2>2 DEF Durable
<1>5. QED BY <1>3, <1>4

\* The checkpoint of the old generation leaves the candidate's files alone.
LEMMA CommitStep ==
  ASSUME "audit" \notin Faults, Durable, CommitSwitch
  PROVE /\ root' \in [Generations -> Roots]
        /\ root'[runtime.gen] \in SoundRoots(runtime.proj, RecordsOf(root[runtime.gen].wal))
        /\ \A h \in Generations : h # runtime.gen => root'[h] = root[h]
        /\ \/ /\ owner' = "swapped" /\ pointer' = candidate.gen /\ runtime' = candidate
           \/ /\ owner' = "waiting" /\ UNCHANGED <<pointer, runtime>>
              /\ root'[runtime.gen].manifest = runtime.manifest
<1> DEFINE G == runtime.gen
           C == CheckpointWrites(root[G], runtime.proj, runtime.manifest)
<1>0. up /\ owner = "prepared"
  BY DEF CommitSwitch
<1>1. /\ G \in Generations /\ runtime.proj \in Projection
      /\ root \in [Generations -> Roots] /\ root[G] \in Roots /\ Sound(root[G], runtime.proj)
      /\ runtime.manifest = root[G].manifest
  BY <1>0, RuntimeFields DEF Durable, TypeOK
<1>2. /\ root' = [root EXCEPT ![G] = Last(C.writes)]
      /\ pointer' = IF C.ok THEN candidate.gen ELSE pointer
      /\ owner' = IF C.ok THEN "swapped" ELSE "waiting"
      /\ runtime' = IF C.ok THEN candidate ELSE runtime
  <2>1. PICK audit \in {TRUE} :
           /\ root' = [root EXCEPT ![G] = Last(C.writes)]
           /\ pointer' = IF C.ok THEN candidate.gen ELSE pointer
           /\ owner' = IF C.ok /\ audit THEN "swapped" ELSE "waiting"
           /\ runtime' = CASE C.ok /\ audit -> candidate
                           [] C.ok /\ ~audit ->
                                [runtime EXCEPT !.manifest = Last(C.writes).manifest]
                           [] OTHER -> runtime
    BY DEF CommitSwitch
  <2> HIDE DEF C
  <2>2. QED BY <2>1
<1>3. C = CheckpointWrites(root[G], runtime.proj, root[G].manifest)
  BY <1>1
<1> HIDE DEF C, G
<1>4. /\ C.ok \in BOOLEAN /\ C.writes \in Seq(SoundRoots(runtime.proj, RecordsOf(root[G].wal)))
      /\ C.writes # <<>>
      /\ ~C.ok => Last(C.writes).manifest = root[G].manifest
  BY <1>1, <1>3, CheckpointSound
<1>5. Last(C.writes) \in SoundRoots(runtime.proj, RecordsOf(root[G].wal))
  BY <1>4, LastIn
<1>6. Last(C.writes) \in Roots
  BY <1>5 DEF SoundRoots
<1>7. /\ root' \in [Generations -> Roots] /\ root'[G] = Last(C.writes)
      /\ \A h \in Generations : h # G => root'[h] = root[h]
  BY <1>1, <1>2, <1>6
<1>8. QED BY <1>1, <1>2, <1>4, <1>5, <1>7 DEF G

LEMMA CommitDurable == ASSUME "audit" \notin Faults, Durable, CommitSwitch PROVE Durable'
<1>1. /\ root' \in [Generations -> Roots]
      /\ root'[runtime.gen] \in SoundRoots(runtime.proj, RecordsOf(root[runtime.gen].wal))
      /\ \A h \in Generations : h # runtime.gen => root'[h] = root[h]
      /\ \/ /\ owner' = "swapped" /\ pointer' = candidate.gen /\ runtime' = candidate
         \/ /\ owner' = "waiting" /\ UNCHANGED <<pointer, runtime>>
            /\ root'[runtime.gen].manifest = runtime.manifest
  BY CommitStep
<1>2. /\ up /\ owner = "prepared" /\ UNCHANGED <<boots, up, active, outbox, switches>>
  BY DEF CommitSwitch, process
<1>3. Sound(root'[runtime.gen], runtime.proj)
  BY <1>1 DEF SoundRoots
<1>4. CASE owner' = "swapped" /\ pointer' = candidate.gen /\ runtime' = candidate
  <2>1. /\ candidate \in Runtimes /\ candidate.gen # runtime.gen /\ candidate.gen \in Generations
        /\ Sound(root[candidate.gen], candidate.proj)
        /\ candidate.manifest = root[candidate.gen].manifest
    BY <1>2, RuntimeFields DEF Durable
  <2>2. root'[candidate.gen] = root[candidate.gen]
    BY <1>1, <2>1
  <2>3. TypeOK'
    BY <1>1, <1>2, <1>4, <2>1 DEF Durable, TypeOK
  <2>4. QED BY <1>4, <2>1, <2>2, <2>3 DEF Durable
<1>5. CASE /\ owner' = "waiting" /\ UNCHANGED <<pointer, runtime>>
           /\ root'[runtime.gen].manifest = runtime.manifest
  <2>1. TypeOK'
    BY <1>1, <1>2, <1>5 DEF Durable, TypeOK
  <2>2. QED BY <1>2, <1>3, <1>5, <2>1 DEF Durable
<1>6. QED BY <1>1, <1>4, <1>5

\* Steps that write no file.
QuietStep ==
    /\ UNCHANGED <<root, pointer, up, runtime, candidate>>
    /\ boots' \in Nat /\ switches' \in Seq(Generations) /\ outbox' \in Seq(Records)
    /\ \/ active' = active /\ (OwnerKept \/ owner' = "stored")
       \/ active' = runtime.gen /\ owner' # "prepared"

LEMMA QuietDurable == ASSUME Durable, QuietStep PROVE Durable'
<1>1. TypeOK'
  BY DEF Durable, TypeOK, QuietStep
<1>2. QED BY <1>1 DEF Durable, QuietStep, OwnerKept

LEMMA NextDurable ==
  ASSUME "late" \notin Kinds, "audit" \notin Faults, Durable, [Next]_vars
  PROVE Durable'
<1> USE DEF disk, process, memory
<1>0. boots \in Nat /\ switches \in Seq(Generations) /\ outbox \in Seq(Records) /\ up \in BOOLEAN
  BY DEF Durable, TypeOK
<1>00. <<>> \in Seq(Generations) /\ <<>> \in Seq(Records)
  BY EmptySeq
<1>1. CASE Start
  <2>1. up = FALSE /\ UNCHANGED <<root, pointer, up, runtime, active>>
        /\ boots' = boots + 1 /\ owner' = "starting" /\ outbox' = <<>> /\ switches' = <<>>
    BY <1>0, <1>1 DEF Start
  <2>2. TypeOK'
    BY <1>0, <1>00, <2>1 DEF Durable, TypeOK
  <2>3. QED BY <2>1, <2>2 DEF Durable
<1>2. CASE Open
  BY <1>2, OpenDurable
<1>3. CASE Shutdown
  <2>1. up /\ up' = FALSE /\ owner' = "stopped" /\ owner \notin {"swapped", "stored"}
        /\ UNCHANGED <<pointer, boots, candidate, active, outbox, switches>>
    BY <1>3 DEF Shutdown
  <2>2. CASE owner = "serving"
    <3>1. PICK ok \in BOOLEAN : CheckpointRuntime(ok)
      BY <1>3, <2>2 DEF Shutdown
    <3>2. OwnerKept /\ up' \in BOOLEAN /\ outbox' \in Seq(Records)
      BY <1>0, <2>1, <3>1 DEF OwnerKept
    <3>3. QED BY <1>0, <2>1, <3>1, <3>2, CheckpointDurable
  <2>3. CASE owner # "serving"
    <3>1. UNCHANGED <<root, runtime>>
      BY <1>3, <2>3 DEF Shutdown
    <3>2. TypeOK'
      BY <2>1, <3>1 DEF Durable, TypeOK
    <3>3. QED BY <2>1, <3>1, <3>2 DEF Durable
  <2>4. QED BY <2>2, <2>3
<1>4. CASE Crash \/ CrashInOpen \/ CrashInCheckpoint \/ CrashInPrepare
  BY <1>4, CrashDurable, CrashInOpenDurable, CrashInCheckpointDurable, CrashInPrepareDurable
<1>5. CASE OwnerStep
  <2>1. ASSUME NEW kind \in Kinds, ApplyFrames(kind) PROVE Durable'
    BY <2>1, ApplyDurable DEF ApplyFrames
  <2>2. CASE RefreshQuarantines \/ RefreshRecovers
    <3>1. PICK kind \in {"book", "gap"} : ApplyRaw(kind)
      BY <2>2 DEF RefreshQuarantines, RefreshRecovers, RecoverySnapshot
    <3>2. QED BY <3>1, ApplyDurable
  <2>3. CASE AppendFails \/ TransportEnds
    <3>1. PICK ok \in BOOLEAN : CheckpointRuntime(ok)
      BY <2>3 DEF AppendFails, TransportEnds
    <3>2. /\ up /\ owner = "serving" /\ owner' = "waiting"
          /\ UNCHANGED <<pointer, boots, up, candidate, active, outbox, switches>>
      BY <2>3 DEF AppendFails, TransportEnds
    <3>3. OwnerKept /\ up' \in BOOLEAN /\ outbox' \in Seq(Records)
      BY <1>0, <3>1, <3>2 DEF OwnerKept
    <3>4. QED BY <1>0, <3>1, <3>2, <3>3, CheckpointDurable
  <2>4. CASE Publish
    <3>1. ~\E i \in DOMAIN outbox : outbox[i].kind = "late"
      <4>1. ASSUME NEW i \in DOMAIN outbox PROVE outbox[i].kind # "late"
        <5>1. outbox[i] \in Records
          BY <1>0, LenProperties, ElementOfSeq
        <5>2. QED BY <5>1 DEF Records, AllKinds
      <4>2. QED BY <4>1
    <3>2. /\ UNCHANGED <<root, pointer, up, runtime, candidate>>
          /\ boots' = boots /\ active' = active /\ owner' = owner /\ switches' = switches
          /\ outbox' = <<>>
      BY <2>4, <3>1 DEF Publish
    <3>3. QuietStep
      BY <1>0, <1>00, <3>2 DEF QuietStep, OwnerKept
    <3>4. QED BY <3>3, QuietDurable
  <2>5. CASE CheckpointTick
    <3>1. PICK ok \in BOOLEAN : CheckpointRuntime(ok) /\ owner' = IF ok THEN owner ELSE "stopped"
      BY <2>5 DEF CheckpointTick
    <3>2. /\ up /\ owner = "serving"
          /\ UNCHANGED <<pointer, boots, up, candidate, active, outbox, switches>>
      BY <2>5 DEF CheckpointTick
    <3>3. OwnerKept /\ up' \in BOOLEAN /\ outbox' \in Seq(Records)
      BY <1>0, <3>1, <3>2 DEF OwnerKept
    <3>4. QED BY <1>0, <3>1, <3>2, <3>3, CheckpointDurable
  <2>6. CASE Retry
    <3>1. /\ owner = "waiting" /\ owner' = "serving"
          /\ UNCHANGED <<root, pointer, boots, up, runtime, candidate, active, outbox, switches>>
      BY <2>6 DEF Retry
    <3>2. QuietStep
      BY <1>0, <3>1 DEF QuietStep, OwnerKept
    <3>3. QED BY <3>2, QuietDurable
  <2>7. CASE PrepareSwitch
    BY <2>7, PrepareSwitchDurable
  <2>8. CASE CommitSwitch
    BY <2>8, CommitDurable
  <2>9. CASE StoreProjection
    <3>1. /\ owner' = "stored"
          /\ UNCHANGED <<root, pointer, boots, up, runtime, candidate, active, outbox, switches>>
      BY <2>9 DEF StoreProjection
    <3>2. QuietStep
      BY <1>0, <3>1 DEF QuietStep, OwnerKept
    <3>3. QED BY <3>2, QuietDurable
  <2>10. CASE StoreScope
    <3>1. /\ owner' = "activated" /\ active' = runtime.gen
          /\ UNCHANGED <<root, pointer, boots, up, runtime, candidate, outbox, switches>>
      BY <2>10 DEF StoreScope
    <3>2. QuietStep
      BY <1>0, <3>1 DEF QuietStep, OwnerKept
    <3>3. QED BY <3>2, QuietDurable
  <2>11. CASE SendCatalog
    <3>1. /\ owner = "activated" /\ owner' = "serving"
          /\ UNCHANGED <<root, pointer, boots, up, runtime, candidate, active, outbox, switches>>
      BY <2>11 DEF SendCatalog
    <3>2. QuietStep
      BY <1>0, <3>1 DEF QuietStep, OwnerKept
    <3>3. QED BY <3>2, QuietDurable
  <2>12. QED BY <1>5, <2>1, <2>2, <2>3, <2>4, <2>5, <2>6, <2>7, <2>8, <2>9, <2>10, <2>11 DEF OwnerStep
<1>6. CASE AdminCheckpoint
  <2>1. PICK ok \in BOOLEAN : CheckpointRuntime(ok)
    BY <1>6 DEF AdminCheckpoint
  <2>2. /\ up /\ up' = up /\ owner' = owner /\ outbox' = outbox
        /\ UNCHANGED <<pointer, boots, candidate, active, switches>>
    BY <1>6 DEF AdminCheckpoint
  <2>3. OwnerKept /\ up' \in BOOLEAN /\ outbox' \in Seq(Records)
    BY <1>0, <2>1, <2>2 DEF OwnerKept
  <2>4. QED BY <1>0, <2>1, <2>2, <2>3, CheckpointDurable
<1>7. ASSUME NEW g \in Generations, RequestSwitch(g) PROVE Durable'
  <2>1. /\ UNCHANGED <<root, pointer, up, runtime, candidate>>
        /\ boots' = boots /\ active' = active /\ owner' = owner
        /\ outbox' = outbox /\ switches' = <<g>>
    BY <1>7 DEF RequestSwitch
  <2>2. <<g>> \in Seq(Generations)
    BY OneSeq
  <2>3. QuietStep
    BY <1>0, <2>1, <2>2 DEF QuietStep, OwnerKept
  <2>4. QED BY <2>3, QuietDurable
<1>8. ASSUME NEW c \in Clients, ClientStep(c) PROVE Durable'
  <2>1. /\ UNCHANGED <<root, pointer, up, runtime, candidate>>
        /\ boots' = boots /\ active' = active /\ owner' = owner /\ switches' = switches
        /\ outbox' = outbox
    BY <1>8 DEF ClientStep, Subscribe, Capture, Begin, Receive, Lagged, ReplayWindow,
                FreshnessCheck, Disconnect, Streams
  <2>2. QuietStep
    BY <1>0, <2>1 DEF QuietStep, OwnerKept
  <2>3. QED BY <2>2, QuietDurable
<1>9. CASE UNCHANGED vars
  <2>1. /\ UNCHANGED <<root, pointer, up, runtime, candidate>>
        /\ boots' = boots /\ active' = active /\ owner' = owner /\ switches' = switches
        /\ outbox' = outbox
    BY <1>9 DEF vars
  <2>2. QuietStep
    BY <1>0, <2>1 DEF QuietStep, OwnerKept
  <2>3. QED BY <2>2, QuietDurable
<1>10. QED BY <1>1, <1>2, <1>3, <1>4, <1>5, <1>6, <1>7, <1>8, <1>9 DEF Next

\* Wherever the process dies - between two writes of a checkpoint, of a
\* preparation, of a switch or of the seed of a start - recovery opens the
\* generation that active-scope.json names with exactly what was durable.
THEOREM NothingLost ==
  ASSUME "late" \notin Kinds, "audit" \notin Faults
  PROVE Spec => []RestartLosesNothing
<1>1. Init => Durable
  BY InitDurable
<1>2. Durable /\ [Next]_vars => Durable'
  BY NextDurable
<1>3. Durable => RestartLosesNothing
  <2> SUFFICES ASSUME Durable PROVE LET p == RecoverProjection(root[pointer], 0) IN
                                    p # None /\ Committed(p) = Committed(runtime.proj)
    BY DEF RestartLosesNothing
  <2> DEFINE p == RecoverProjection(root[pointer], 0)
  <2>1. root[pointer] \in Roots /\ runtime.proj \in Projection /\ Sound(root[pointer], runtime.proj)
    BY RuntimeFields DEF Durable, TypeOK
  <2>2. p \in Projection /\ p # None /\ Agree(p, runtime.proj)
    BY <2>1, RecoverSound
  <2> HIDE DEF p
  <2>3. Committed(p) = Committed(runtime.proj)
    BY <2>1, <2>2, AgreeCommitted
  <2>4. QED BY <2>2, <2>3 DEF p
<1>4. QED BY <1>1, <1>2, <1>3, PTL DEF Spec

-----------------------------------------------------------------------------
(* The cursors of the generations.                                         *)

\* Generation g holds the cursors after st[g] up to Until; the last of the ptr
\* generations has come to cursor n.
Until(st, ptr, n, g) == IF g = ptr THEN n ELSE st[g + 1]

Starts(st, ptr, n) ==
    /\ ptr \in Nat \ {0} /\ n \in Nat /\ st \in [1..ptr -> Nat] /\ st[ptr] <= n
    /\ \A g \in 1..ptr : \A h \in 1..ptr : g <= h => st[g] <= st[h]
    /\ \A g \in 1..ptr : g # 1 => st[g] < Until(st, ptr, n, g)

\* A record of its generation; the first one of a later generation is a catalog.
Genuine(st, ptr, n) ==
    {r \in Records : /\ r.gen \in 1..ptr /\ st[r.gen] < r.cursor
                     /\ r.cursor <= Until(st, ptr, n, r.gen)
                     /\ r.gen # 1 /\ r.cursor = st[r.gen] + 1 => r.kind = "catalog"}

\* A client that holds generation g up to cursor x.
Placed(x, g, st, ptr, n) ==
    /\ g \in 1..ptr /\ x \in Nat /\ st[g] <= x /\ x <= Until(st, ptr, n, g)
    /\ g # 1 => st[g] < x

LEMMA UntilType ==
  ASSUME NEW st, NEW ptr, NEW n, Starts(st, ptr, n), NEW g \in 1..ptr
  PROVE /\ Until(st, ptr, n, g) \in Nat /\ Until(st, ptr, n, g) <= n /\ st[g] \in Nat
        /\ st[g] <= Until(st, ptr, n, g)
<1>1. /\ ptr \in Nat \ {0} /\ n \in Nat /\ st \in [1..ptr -> Nat] /\ st[ptr] <= n /\ ptr \in 1..ptr
      /\ \A f \in 1..ptr : \A h \in 1..ptr : f <= h => st[f] <= st[h]
  BY DEF Starts
<1>2. CASE g = ptr
  BY <1>1, <1>2 DEF Until
<1>3. CASE g # ptr
  <2>1. g + 1 \in 1..ptr /\ g <= g + 1 /\ g + 1 <= ptr
    BY <1>1, <1>3
  <2>2. st[g + 1] \in Nat /\ st[ptr] \in Nat /\ st[g] \in Nat /\ st[g + 1] <= st[ptr] /\ st[g] <= st[g + 1]
    BY <1>1, <2>1
  <2>3. QED BY <1>1, <1>3, <2>2 DEF Until
<1>4. QED BY <1>2, <1>3

\* A cursor belongs to one generation.
LEMMA OneGeneration ==
  ASSUME NEW st, NEW ptr, NEW n, Starts(st, ptr, n), NEW g \in 1..ptr, NEW h \in 1..ptr,
         NEW x \in Nat, st[g] < x, x <= Until(st, ptr, n, g), st[h] < x, x <= Until(st, ptr, n, h)
  PROVE g = h
<1>1. /\ ptr \in Nat \ {0} /\ st \in [1..ptr -> Nat]
      /\ \A e \in 1..ptr : \A f \in 1..ptr : e <= f => st[e] <= st[f]
  BY DEF Starts
<1>2. ASSUME NEW e \in 1..ptr, NEW f \in 1..ptr, e < f, x <= Until(st, ptr, n, e), st[f] < x PROVE FALSE
  <2>1. e # ptr /\ e + 1 \in 1..ptr /\ e + 1 <= f
    BY <1>1, <1>2
  <2>2. x <= st[e + 1] /\ st[e + 1] <= st[f] /\ st[e + 1] \in Nat /\ st[f] \in Nat
    BY <1>1, <1>2, <2>1 DEF Until
  <2>3. QED BY <1>2, <2>2
<1>3. g < h \/ h < g \/ g = h
  BY <1>1
<1>4. QED BY <1>2, <1>3

\* Consecutive records after x without a catalog are of x's generation.
LEMMA WindowStays ==
  ASSUME NEW st, NEW ptr, NEW n, Starts(st, ptr, n), NEW x, NEW g, Placed(x, g, st, ptr, n),
         NEW w \in Seq(Genuine(st, ptr, n)), \A i \in DOMAIN w : w[i].cursor = x + i,
         \A i \in DOMAIN w : ~NeedsResync(w[i]), NEW i \in DOMAIN w
  PROVE w[i].gen = g /\ Placed(w[i].cursor, g, st, ptr, n)
<1>1. /\ Len(w) \in Nat /\ DOMAIN w = 1..Len(w) /\ g \in 1..ptr /\ x \in Nat /\ st[g] <= x
      /\ ptr \in Nat \ {0}
  BY LenProperties DEF Placed, Starts
<1>2. st[g] \in Nat /\ Until(st, ptr, n, g) \in Nat /\ Until(st, ptr, n, g) <= n /\ n \in Nat
  BY <1>1, UntilType DEF Starts
<1>3. ASSUME NEW k \in DOMAIN w
      PROVE /\ w[k].gen \in 1..ptr /\ st[w[k].gen] < w[k].cursor /\ w[k].cursor \in Nat
            /\ w[k].cursor <= Until(st, ptr, n, w[k].gen) /\ w[k].cursor = x + k
            /\ w[k].gen # 1 => w[k].cursor # st[w[k].gen] + 1
  <2>1. w[k] \in Genuine(st, ptr, n)
    BY <1>1, ElementOfSeq
  <2>2. w[k].cursor \in Nat
    BY <2>1 DEF Genuine, Records
  <2>3. w[k].kind # "catalog"
    BY DEF NeedsResync
  <2>4. QED BY <2>1, <2>2, <2>3 DEF Genuine
<1>4. x + i <= Until(st, ptr, n, g)
  <2> SUFFICES ASSUME ~(x + i <= Until(st, ptr, n, g)) PROVE FALSE
    OBVIOUS
  <2>1. CASE g = ptr
    <3>1. w[i].cursor = x + i /\ w[i].gen \in 1..ptr /\ w[i].cursor <= Until(st, ptr, n, w[i].gen)
      BY <1>3
    <3>2. Until(st, ptr, n, w[i].gen) <= n /\ Until(st, ptr, n, w[i].gen) \in Nat
      BY <3>1, UntilType
    <3>3. Until(st, ptr, n, g) = n
      BY <2>1 DEF Until
    <3>4. QED BY <1>1, <1>2, <3>1, <3>2, <3>3
  <2>2. CASE g # ptr
    <3> DEFINE e == st[g + 1]
               k == e + 1 - x
    <3>1. /\ g + 1 \in 1..ptr /\ e \in Nat /\ Until(st, ptr, n, g) = e /\ x <= e
          /\ e < Until(st, ptr, n, g + 1) /\ Until(st, ptr, n, g + 1) \in Nat
      <4>1. g + 1 \in 1..ptr /\ g + 1 # 1
        BY <1>1, <2>2
      <4>2. QED BY <4>1, <2>2, UntilType DEF Until, Starts, Placed
    <3> HIDE DEF e
    <3>2. k \in 1..i /\ x + k = e + 1
      BY <1>1, <3>1
    <3>3. k \in DOMAIN w
      BY <1>1, <3>2
    <3> HIDE DEF k
    <3>4. /\ w[k].gen \in 1..ptr /\ st[w[k].gen] < e + 1 /\ e + 1 <= Until(st, ptr, n, w[k].gen)
          /\ w[k].gen # 1 => e + 1 # st[w[k].gen] + 1
      BY <1>3, <3>2, <3>3
    <3>5. e < e + 1 /\ e + 1 <= Until(st, ptr, n, g + 1) /\ st[g + 1] = e
      BY <3>1 DEF e
    <3>6. w[k].gen = g + 1
      <4>1. e + 1 \in Nat
        BY <3>1
      <4>2. QED BY <3>1, <3>4, <3>5, <4>1, OneGeneration
    <3>7. QED BY <1>1, <3>4, <3>5, <3>6
  <2>3. QED BY <2>1, <2>2
<1>5. w[i].gen = g
  <2>1. st[g] < x + i /\ x + i \in Nat
    BY <1>1, <1>2
  <2>2. w[i].gen \in 1..ptr /\ st[w[i].gen] < x + i /\ x + i <= Until(st, ptr, n, w[i].gen)
    BY <1>3
  <2>3. QED BY <1>1, <1>4, <2>1, <2>2, OneGeneration
<1>6. Placed(x + i, g, st, ptr, n)
  BY <1>1, <1>2, <1>4 DEF Placed
<1>7. QED BY <1>3, <1>5, <1>6

-----------------------------------------------------------------------------
(* The generations grow and switch.                                        *)

\* What is genuine and where clients are stays so.
Keeps(st, ptr, n, st2, ptr2, n2) ==
    /\ Starts(st2, ptr2, n2) /\ Genuine(st, ptr, n) \subseteq Genuine(st2, ptr2, n2)
    /\ \A x, g : Placed(x, g, st, ptr, n) => Placed(x, g, st2, ptr2, n2)

LEMMA KeepsAll ==
  ASSUME NEW st, NEW ptr, NEW n, NEW st2, NEW ptr2, NEW n2, Starts(st, ptr, n), Starts(st2, ptr2, n2),
         ptr <= ptr2, \A g \in 1..ptr : st2[g] = st[g],
         \A g \in 1..ptr : Until(st, ptr, n, g) <= Until(st2, ptr2, n2, g)
  PROVE Keeps(st, ptr, n, st2, ptr2, n2)
<1>1. 1..ptr \subseteq 1..ptr2
  BY DEF Starts
<1>2. ASSUME NEW g \in 1..ptr
      PROVE g \in 1..ptr2 /\ st2[g] = st[g] /\ Until(st, ptr, n, g) \in Nat /\ Until(st2, ptr2, n2, g) \in Nat
  BY <1>1, UntilType
<1>3. ASSUME NEW r \in Genuine(st, ptr, n) PROVE r \in Genuine(st2, ptr2, n2)
  <2>1. r.gen \in 1..ptr /\ r.cursor \in Nat /\ r \in Records
    BY DEF Genuine, Records
  <2>2. r.cursor <= Until(st2, ptr2, n2, r.gen)
    BY <1>2, <2>1 DEF Genuine
  <2>3. QED BY <1>2, <2>1, <2>2 DEF Genuine
<1>4. ASSUME NEW x, NEW g, Placed(x, g, st, ptr, n) PROVE Placed(x, g, st2, ptr2, n2)
  <2>1. g \in 1..ptr /\ x \in Nat
    BY <1>4 DEF Placed
  <2>2. x <= Until(st2, ptr2, n2, g)
    BY <1>2, <1>4, <2>1 DEF Placed
  <2>3. QED BY <1>2, <1>4, <2>1, <2>2 DEF Placed
<1>5. QED BY <1>3, <1>4 DEF Keeps

\* The running generation gets records.
LEMMA GrowKeeps ==
  ASSUME NEW st, NEW ptr, NEW n, Starts(st, ptr, n), NEW n2 \in Nat, n <= n2
  PROVE Keeps(st, ptr, n, st, ptr, n2)
<1>1. ptr \in Nat \ {0} /\ n \in Nat /\ st \in [1..ptr -> Nat] /\ ptr \in 1..ptr /\ st[ptr] \in Nat
  BY DEF Starts
<1>2. ASSUME NEW g \in 1..ptr PROVE Until(st, ptr, n, g) <= Until(st, ptr, n2, g)
  <2>1. CASE g = ptr
    BY <2>1 DEF Until
  <2>2. CASE g # ptr
    <3>1. g + 1 \in 1..ptr
      BY <1>1, <2>2
    <3>2. st[g + 1] \in Nat
      BY <1>1, <3>1
    <3>3. QED BY <2>2, <3>2 DEF Until
  <2>3. QED BY <2>1, <2>2
<1>3. Starts(st, ptr, n2)
  <2>1. ASSUME NEW g \in 1..ptr, g # 1 PROVE st[g] < Until(st, ptr, n2, g)
    <3>1. st[g] < Until(st, ptr, n, g)
      BY <2>1 DEF Starts
    <3>2. Until(st, ptr, n, g) \in Nat /\ st[g] \in Nat
      BY UntilType
    <3>3. Until(st, ptr, n2, g) \in Nat
      <4>1. CASE g = ptr
        BY <4>1 DEF Until
      <4>2. CASE g # ptr
        BY <3>2, <4>2 DEF Until
      <4>3. QED BY <4>1, <4>2
    <3>4. QED BY <1>2, <3>1, <3>2, <3>3
  <2>2. st[ptr] <= n2
    BY <1>1 DEF Starts
  <2>3. QED BY <1>1, <2>1, <2>2 DEF Starts
<1>4. ptr <= ptr
  BY <1>1
<1>5. QED BY <1>2, <1>3, <1>4, KeepsAll

\* The next generation begins at n.
Begun(st, ptr, n) == [g \in 1..(ptr + 1) |-> IF g = ptr + 1 THEN n ELSE st[g]]

LEMMA SwitchKeeps ==
  ASSUME NEW st, NEW ptr, NEW n, Starts(st, ptr, n), NEW n2 \in Nat, n < n2
  PROVE Keeps(st, ptr, n, Begun(st, ptr, n), ptr + 1, n2)
<1> DEFINE new == Begun(st, ptr, n)
<1>1. /\ ptr \in Nat \ {0} /\ n \in Nat /\ st \in [1..ptr -> Nat] /\ ptr \in 1..ptr /\ st[ptr] <= n
      /\ \A g \in 1..ptr : \A h \in 1..ptr : g <= h => st[g] <= st[h]
      /\ \A g \in 1..ptr : g # 1 => st[g] < Until(st, ptr, n, g)
  BY DEF Starts
<1>2. /\ new \in [1..(ptr + 1) -> Nat] /\ new[ptr + 1] = n
      /\ \A g \in 1..ptr : g \in 1..(ptr + 1) /\ g # ptr + 1 /\ new[g] = st[g]
  BY <1>1 DEF Begun
<1> HIDE DEF new
<1>3. \A g \in 1..(ptr + 1) : g \in 1..ptr \/ g = ptr + 1
  BY <1>1
<1>4. ASSUME NEW g \in 1..ptr PROVE Until(new, ptr + 1, n2, g) = Until(st, ptr, n, g)
  <2>1. CASE g = ptr
    BY <1>1, <1>2, <2>1 DEF Until
  <2>2. CASE g # ptr
    <3>1. g + 1 \in 1..ptr
      BY <1>1, <2>2
    <3>2. QED BY <1>2, <2>2, <3>1 DEF Until
  <2>3. QED BY <2>1, <2>2
<1>5. ASSUME NEW g \in 1..ptr PROVE Until(st, ptr, n, g) <= Until(new, ptr + 1, n2, g)
  BY <1>4, UntilType
<1>6. Starts(new, ptr + 1, n2)
  <2>1. \A g \in 1..ptr : st[g] <= n /\ st[g] \in Nat
    <3> SUFFICES ASSUME NEW g \in 1..ptr PROVE st[g] <= n /\ st[g] \in Nat
      OBVIOUS
    <3>1. g <= ptr /\ st[g] \in Nat /\ st[ptr] \in Nat
      BY <1>1
    <3>2. st[g] <= st[ptr]
      BY <1>1, <3>1
    <3>3. QED BY <1>1, <3>1, <3>2
  <2>2. ASSUME NEW g \in 1..(ptr + 1), NEW h \in 1..(ptr + 1), g <= h PROVE new[g] <= new[h]
    <3>1. CASE h = ptr + 1
      BY <1>1, <1>2, <1>3, <2>1, <3>1
    <3>2. CASE h \in 1..ptr
      <4>1. g \in 1..ptr
        BY <1>1, <2>2, <3>2
      <4>2. QED BY <1>1, <1>2, <2>2, <3>2, <4>1
    <3>3. QED BY <1>3, <3>1, <3>2
  <2>3. ASSUME NEW g \in 1..(ptr + 1), g # 1 PROVE new[g] < Until(new, ptr + 1, n2, g)
    <3>1. CASE g = ptr + 1
      BY <1>2, <3>1 DEF Until
    <3>2. CASE g \in 1..ptr
      BY <1>1, <1>2, <1>4, <2>3, <3>2
    <3>3. QED BY <1>3, <3>1, <3>2
  <2>4. ptr + 1 \in Nat \ {0} /\ new[ptr + 1] <= n2
    BY <1>1, <1>2
  <2>5. QED BY <1>2, <2>2, <2>3, <2>4 DEF Starts
<1>7. ptr <= ptr + 1
  BY <1>1
<1>8. QED BY <1>2, <1>5, <1>6, <1>7, KeepsAll DEF new

-----------------------------------------------------------------------------
(* What clients hold.                                                      *)

Phases == {"away", "subscribed", "captured", "streaming", "replaying"}
ClientStates(V) ==
    [phase : Phases, resume : Nat \cup {None}, gen : Nat, seen : Nat, universe : Nat, last : Nat,
     boundary : Nat, records : Seq(V), view : Projection \cup {None}, queue : Seq(V),
     lagged : BOOLEAN]

\* The client has seen no other generation than its own and is placed in it.
Follows(s, st, ptr, n) ==
    /\ s.seen = s.gen
    /\ s.phase \in {"streaming", "replaying"} => Placed(s.last, s.gen, st, ptr, n)
    /\ s.phase \notin {"streaming", "replaying"} /\ s.resume # None
         => Placed(s.resume, s.gen, st, ptr, n)
    /\ s.phase = "captured" /\ s.resume = None => Placed(s.boundary, s.gen, st, ptr, n)

Seen(st, ptr, n) ==
    {s \in ClientStates(Genuine(st, ptr, n)) : Follows(s, st, ptr, n)}

LEMMA ClientFields ==
  ASSUME NEW V, NEW s \in ClientStates(V)
  PROVE /\ s.phase \in Phases /\ s.resume \in Nat \cup {None} /\ s.gen \in Nat /\ s.seen \in Nat
        /\ s.universe \in Nat /\ s.last \in Nat /\ s.boundary \in Nat /\ s.records \in Seq(V)
        /\ s.view \in Projection \cup {None} /\ s.queue \in Seq(V) /\ s.lagged \in BOOLEAN
BY DEF ClientStates

LEMMA SeqGrows == ASSUME NEW V, NEW W, V \subseteq W, NEW s \in Seq(V) PROVE s \in Seq(W)
<1>1. Len(s) \in Nat /\ s \in [1..Len(s) -> V]
  BY LenProperties
<1>2. s \in [1..Len(s) -> W]
  BY <1>1
<1>3. QED BY <1>1, <1>2

LEMMA SeenKeeps ==
  ASSUME NEW st, NEW ptr, NEW n, NEW st2, NEW ptr2, NEW n2, Keeps(st, ptr, n, st2, ptr2, n2),
         NEW s \in Seen(st, ptr, n)
  PROVE s \in Seen(st2, ptr2, n2)
<1>1. /\ Genuine(st, ptr, n) \subseteq Genuine(st2, ptr2, n2)
      /\ \A x, g : Placed(x, g, st, ptr, n) => Placed(x, g, st2, ptr2, n2)
  BY DEF Keeps
<1>2. s \in ClientStates(Genuine(st, ptr, n)) /\ Follows(s, st, ptr, n)
  BY DEF Seen
<1>3. Follows(s, st2, ptr2, n2)
  BY <1>1, <1>2 DEF Follows
<1>4. s.records \in Seq(Genuine(st2, ptr2, n2)) /\ s.queue \in Seq(Genuine(st2, ptr2, n2))
  BY <1>1, <1>2, ClientFields, SeqGrows
<1>5. s \in ClientStates(Genuine(st2, ptr2, n2))
  BY <1>2, <1>4 DEF ClientStates
<1>6. QED BY <1>3, <1>5 DEF Seen

LEMMA AwaySeen ==
  ASSUME NEW st, NEW ptr, NEW n, NEW g \in Nat, NEW x \in Nat \cup {None},
         x # None => Placed(x, g, st, ptr, n)
  PROVE Away(x, g) \in Seen(st, ptr, n)
<1> DEFINE V == Genuine(st, ptr, n)
<1>1. <<>> \in Seq(V)
  BY EmptySeq
<1> HIDE DEF V
<1>2. Away(x, g) \in ClientStates(V)
  BY <1>1 DEF Away, ClientStates, Phases
<1>3. Follows(Away(x, g), st, ptr, n)
  BY DEF Away, Follows
<1>4. QED BY <1>2, <1>3 DEF Seen, V

LEMMA ResyncedSeen == ASSUME NEW st, NEW ptr, NEW n PROVE Resynced \in Seen(st, ptr, n)
BY AwaySeen DEF Resynced

LEMMA DroppedSeen ==
  ASSUME NEW st, NEW ptr, NEW n, NEW s \in Seen(st, ptr, n)
  PROVE Dropped(s) \in Seen(st, ptr, n)
<1>1. s \in ClientStates(Genuine(st, ptr, n)) /\ Follows(s, st, ptr, n)
  BY DEF Seen
<1>2. s.gen \in Nat /\ s.last \in Nat /\ s.resume \in Nat \cup {None}
  BY <1>1, ClientFields
<1>3. CASE s.phase = "streaming" \/ s.phase = "replaying"
  <2>1. Placed(s.last, s.gen, st, ptr, n)
    BY <1>1, <1>3 DEF Follows
  <2>2. Away(s.last, s.gen) \in Seen(st, ptr, n)
    BY <1>2, <2>1, AwaySeen
  <2>3. QED BY <1>3, <2>2 DEF Dropped
<1>4. CASE ~(s.phase = "streaming" \/ s.phase = "replaying")
  <2>1. s.resume # None => Placed(s.resume, s.gen, st, ptr, n)
    BY <1>1, <1>4 DEF Follows
  <2>2. Away(s.resume, s.gen) \in Seen(st, ptr, n)
    BY <1>2, <2>1, AwaySeen
  <2>3. QED BY <1>4, <2>2 DEF Dropped
<1>5. QED BY <1>3, <1>4

\* A new queue.
LEMMA QueueSeen ==
  ASSUME NEW st, NEW ptr, NEW n, NEW s \in Seen(st, ptr, n), NEW q \in Seq(Genuine(st, ptr, n)),
         NEW b \in BOOLEAN
  PROVE /\ [s EXCEPT !.queue = q] \in Seen(st, ptr, n)
        /\ [s EXCEPT !.queue = q, !.lagged = b] \in Seen(st, ptr, n)
<1> DEFINE V == Genuine(st, ptr, n)
           t == [s EXCEPT !.queue = q]
           u == [s EXCEPT !.queue = q, !.lagged = b]
<1>1. s \in ClientStates(V) /\ Follows(s, st, ptr, n) /\ q \in Seq(V)
  BY DEF Seen
<1> HIDE DEF V
<1>2. t \in ClientStates(V) /\ u \in ClientStates(V)
  BY <1>1 DEF ClientStates
<1>3. /\ t.seen = s.seen /\ t.gen = s.gen /\ t.phase = s.phase /\ t.last = s.last
      /\ t.resume = s.resume /\ t.boundary = s.boundary
      /\ u.seen = s.seen /\ u.gen = s.gen /\ u.phase = s.phase /\ u.last = s.last
      /\ u.resume = s.resume /\ u.boundary = s.boundary
  BY <1>1 DEF ClientStates
<1> HIDE DEF t, u
<1>4. Follows(t, st, ptr, n) /\ Follows(u, st, ptr, n)
  BY <1>1, <1>3 DEF Follows
<1>5. QED BY <1>2, <1>4 DEF Seen, V, t, u

LEMMA PushSeen ==
  ASSUME NEW st, NEW ptr, NEW n, NEW s \in Seen(st, ptr, n), NEW recs \in Seq(Genuine(st, ptr, n))
  PROVE Push(s, recs) \in Seen(st, ptr, n)
<1> DEFINE V == Genuine(st, ptr, n)
           queue == s.queue \o recs
           over == Len(queue) - StreamCapacity
           kept == SubSeq(queue, over + 1, Len(queue))
<1>1. s.queue \in Seq(V) /\ recs \in Seq(V)
  BY ClientFields DEF Seen
<1> HIDE DEF V
<1>2. queue \in Seq(V)
  BY <1>1, ConcatProperties
<1> HIDE DEF queue
<1>3. Len(queue) \in Nat /\ \A i \in 1..Len(queue) : queue[i] \in V
  BY <1>2, LenProperties, ElementOfSeq
<1>4. ASSUME over > 0 PROVE kept \in Seq(V)
  <2>1. over + 1 \in Int /\ over + 1 >= 1
    BY <1>3, <1>4, LiveAssumption
  <2>2. \A i \in (over + 1)..Len(queue) : queue[i] \in V
    BY <1>3, <2>1
  <2> HIDE DEF over
  <2>3. QED BY <1>3, <2>1, <2>2, SubSeqProperties
<1>5. Push(s, recs) = IF over > 0 THEN [s EXCEPT !.queue = kept, !.lagged = TRUE]
                                  ELSE [s EXCEPT !.queue = queue]
  BY DEF Push, queue
<1> HIDE DEF over, kept
<1>6. CASE over > 0
  <2>1. kept \in Seq(Genuine(st, ptr, n))
    BY <1>4, <1>6 DEF V
  <2>2. [s EXCEPT !.queue = kept, !.lagged = TRUE] \in Seen(st, ptr, n)
    BY <2>1, QueueSeen
  <2>3. QED BY <1>5, <1>6, <2>2
<1>7. CASE ~(over > 0)
  <2>1. queue \in Seq(Genuine(st, ptr, n))
    BY <1>2 DEF V
  <2>2. [s EXCEPT !.queue = queue] \in Seen(st, ptr, n)
    BY <2>1, QueueSeen
  <2>3. QED BY <1>5, <1>7, <2>2
<1>8. QED BY <1>6, <1>7

-----------------------------------------------------------------------------
(* Delivering records.                                                     *)

LEMMA UpToType ==
  ASSUME NEW V, NEW recs \in Seq(V), NEW n
  PROVE UpTo(recs, n) \in 0..Len(recs)
<1> DEFINE S == {i \in DOMAIN recs : recs[i].cursor <= n}
<1>1. Len(recs) \in Nat /\ DOMAIN recs = 1..Len(recs)
  BY LenProperties
<1>2. IsFiniteSet(1..Len(recs)) /\ Cardinality(1..Len(recs)) = Len(recs)
  <2>1. 1 \in Int /\ Len(recs) \in Int
    BY <1>1
  <2>2. Cardinality(1..Len(recs)) = IF 1 > Len(recs) THEN 0 ELSE Len(recs) - 1 + 1
    BY <2>1, FS_Interval
  <2>3. QED BY <1>1, <2>1, <2>2, FS_Interval
<1>3. S \subseteq 1..Len(recs)
  BY <1>1
<1> HIDE DEF S
<1>4. IsFiniteSet(S) /\ Cardinality(S) <= Cardinality(1..Len(recs))
  BY <1>2, <1>3, FS_Subset
<1>5. Cardinality(S) \in Nat
  BY <1>4, FS_CardinalityType
<1>6. QED BY <1>1, <1>2, <1>4, <1>5 DEF UpTo, S

LEMMA WindowType ==
  ASSUME NEW V, NEW recs \in Seq(V), NEW resume, NEW boundary
  PROVE Window(recs, resume, boundary) \in Seq(V)
<1> DEFINE a == UpTo(recs, resume)
           b == UpTo(recs, boundary)
<1>1. Len(recs) \in Nat /\ \A i \in 1..Len(recs) : recs[i] \in V
  BY LenProperties, ElementOfSeq
<1>2. a \in 0..Len(recs) /\ b \in 0..Len(recs)
  BY UpToType
<1> HIDE DEF a, b
<1>3. a + 1 \in 1..Len(recs) + 1 /\ a + 1 \in Int /\ b \in Int
  BY <1>1, <1>2
<1>4. \A i \in (a + 1)..b : recs[i] \in V
  BY <1>1, <1>2
<1>5. SubSeq(recs, a + 1, b) \in Seq(V)
  BY <1>1, <1>3, <1>4, SubSeqProperties
<1>6. QED BY <1>5 DEF Window, a, b

LEMMA DeliverSeen ==
  ASSUME NEW st, NEW ptr, NEW n, Starts(st, ptr, n), NEW s \in Seen(st, ptr, n),
         s.phase \in {"streaming", "replaying"}, NEW recs \in Seq(Genuine(st, ptr, n)),
         \A i \in DOMAIN recs : recs[i].cursor = s.last + i
  PROVE Deliver(s, recs) \in Seen(st, ptr, n)
<1> DEFINE V == Genuine(st, ptr, n)
           t == [s EXCEPT !.last = IF recs = <<>> THEN @ ELSE Last(recs).cursor,
                          !.seen = IF recs = <<>> THEN @ ELSE Last(recs).gen]
<1>1. s \in ClientStates(V) /\ Follows(s, st, ptr, n) /\ Placed(s.last, s.gen, st, ptr, n)
  BY DEF Seen, Follows
<1>2. CASE \E i \in DOMAIN recs : NeedsResync(recs[i])
  BY <1>2, ResyncedSeen DEF Deliver
<1>3. CASE ~\E i \in DOMAIN recs : NeedsResync(recs[i])
  <2>1. Deliver(s, recs) = t
    BY <1>3 DEF Deliver
  <2>2. CASE recs = <<>>
    <3>1. t = s
      BY <1>1, <2>2 DEF ClientStates
    <3>2. QED BY <2>1, <3>1
  <2>3. CASE recs # <<>>
    <3> DEFINE x == Last(recs).cursor
               g == Last(recs).gen
    <3>1. Len(recs) \in DOMAIN recs /\ Last(recs) = recs[Len(recs)]
      <4>1. Len(recs) \in Nat \ {0} /\ DOMAIN recs = 1..Len(recs)
        BY <2>3, LenProperties, EmptySeq
      <4>2. QED BY <4>1 DEF Last
    <3>2. g = s.gen /\ Placed(x, s.gen, st, ptr, n)
      <4> DEFINE y == s.last
                 h == s.gen
                 k == Len(recs)
      <4>1. Placed(y, h, st, ptr, n) /\ k \in DOMAIN recs
        BY <1>1, <3>1
      <4>2. \A i \in DOMAIN recs : recs[i].cursor = y + i
        OBVIOUS
      <4>3. \A i \in DOMAIN recs : ~NeedsResync(recs[i])
        BY <1>3
      <4> HIDE DEF y, h, k
      <4>4. recs[k].gen = h /\ Placed(recs[k].cursor, h, st, ptr, n)
        BY ONLY Starts(st, ptr, n), recs \in Seq(Genuine(st, ptr, n)), <4>1, <4>2, <4>3, WindowStays
      <4>5. QED BY <3>1, <4>4 DEF h, k
    <3>3. t = [s EXCEPT !.last = x, !.seen = g]
      BY <2>3
    <3>4. x \in Nat /\ g \in Nat
      BY <1>1, <3>2, ClientFields DEF Placed
    <3> HIDE DEF x, g, t, V
    <3>5. /\ t \in ClientStates(V) /\ t.seen = g /\ t.last = x /\ t.gen = s.gen /\ t.phase = s.phase
      BY <1>1, <3>3, <3>4 DEF ClientStates
    <3>6. Follows(t, st, ptr, n)
      BY <3>2, <3>5 DEF Follows
    <3>7. QED BY <2>1, <3>5, <3>6 DEF Seen, V
  <2>4. QED BY <2>2, <2>3
<1>4. QED BY <1>2, <1>3

-----------------------------------------------------------------------------
(* The steps of a client.                                                  *)

\* Where the runtime is, with what it lets clients read.
Serves(st) ==
    /\ Starts(st, pointer, runtime.proj.cursor) /\ runtime.gen = pointer
    /\ runtime.recent \in Seq(Genuine(st, pointer, runtime.proj.cursor))
    /\ runtime.proj \in Projection /\ published \in Projection /\ active \in Nat

Holding(st) == Seen(st, pointer, runtime.proj.cursor)

\* What a client state that is held is.
LEMMA HoldingFields ==
  ASSUME NEW st, NEW s \in Holding(st)
  PROVE /\ s \in ClientStates(Genuine(st, pointer, runtime.proj.cursor))
        /\ Follows(s, st, pointer, runtime.proj.cursor)
BY DEF Holding, Seen

\* The position of a client that takes or took a full sync from the runtime.
LEMMA RuntimePlaced ==
  ASSUME NEW st, Serves(st)
  PROVE /\ Placed(runtime.proj.cursor, runtime.gen, st, pointer, runtime.proj.cursor)
        /\ runtime.proj.cursor \in Nat /\ runtime.gen \in Nat
<1>1. /\ pointer \in Nat \ {0} /\ runtime.proj.cursor \in Nat /\ runtime.gen = pointer
      /\ pointer \in 1..pointer /\ st[pointer] <= runtime.proj.cursor
      /\ pointer # 1 => st[pointer] < Until(st, pointer, runtime.proj.cursor, pointer)
  BY DEF Serves, Starts
<1>2. Until(st, pointer, runtime.proj.cursor, pointer) = runtime.proj.cursor
  BY DEF Until
<1>3. QED BY <1>1, <1>2 DEF Placed

LEMMA SubscribeSeen ==
  ASSUME NEW st, NEW s \in Holding(st), s.phase = "away"
  PROVE [s EXCEPT !.phase = "subscribed"] \in Holding(st)
<1> DEFINE t == [s EXCEPT !.phase = "subscribed"]
           V == Genuine(st, pointer, runtime.proj.cursor)
<1>1. s \in ClientStates(V) /\ Follows(s, st, pointer, runtime.proj.cursor)
  BY HoldingFields
<1> HIDE DEF V
<1>2. /\ t \in ClientStates(V) /\ t.seen = s.seen /\ t.gen = s.gen /\ t.phase = "subscribed"
      /\ t.resume = s.resume
  BY <1>1 DEF ClientStates, Phases
<1> HIDE DEF t
<1>3. Follows(t, st, pointer, runtime.proj.cursor)
  BY <1>1, <1>2 DEF Follows
<1>4. QED BY <1>2, <1>3 DEF Holding, Seen, V, t

LEMMA CaptureSeen ==
  ASSUME NEW st, Serves(st), NEW s \in Holding(st), s.phase = "subscribed"
  PROVE /\ Away(s.resume, s.gen) \in Holding(st)
        /\ [s EXCEPT !.phase = "captured", !.boundary = runtime.proj.cursor,
                     !.records = runtime.recent,
                     !.gen = IF s.resume = None THEN runtime.gen ELSE @,
                     !.seen = IF s.resume = None THEN runtime.gen ELSE @] \in Holding(st)
<1> DEFINE V == Genuine(st, pointer, runtime.proj.cursor)
           n == runtime.proj.cursor
           recs == runtime.recent
           x == IF s.resume = None THEN runtime.gen ELSE s.gen
           y == IF s.resume = None THEN runtime.gen ELSE s.seen
           t == [s EXCEPT !.phase = "captured", !.boundary = n, !.records = recs, !.gen = x, !.seen = y]
<1>1. s \in ClientStates(V) /\ Follows(s, st, pointer, n)
  BY HoldingFields
<1>2. /\ s.resume # None => Placed(s.resume, s.gen, st, pointer, n)
      /\ s.seen = s.gen /\ s.gen \in Nat /\ s.resume \in Nat \cup {None}
  BY <1>1, ClientFields DEF Follows
<1>3. Away(s.resume, s.gen) \in Holding(st)
  BY <1>2, AwaySeen DEF Holding
<1>4. n \in Nat /\ runtime.gen \in Nat /\ Placed(n, runtime.gen, st, pointer, n)
  BY RuntimePlaced
<1>5. recs \in Seq(V)
  BY DEF Serves
<1>6. x \in Nat /\ y = x
  BY <1>2, <1>4
<1>7. s.resume = None => x = runtime.gen
  OBVIOUS
<1>8. s.resume # None => x = s.gen
  OBVIOUS
<1>9. [s EXCEPT !.phase = "captured", !.boundary = runtime.proj.cursor,
                !.records = runtime.recent,
                !.gen = IF s.resume = None THEN runtime.gen ELSE @,
                !.seen = IF s.resume = None THEN runtime.gen ELSE @] = t
  OBVIOUS
<1> HIDE DEF V, x, y, n, recs
<1>10. /\ t \in ClientStates(V) /\ t.seen = y /\ t.gen = x /\ t.phase = "captured"
       /\ t.resume = s.resume /\ t.boundary = n
  BY <1>1, <1>4, <1>5, <1>6 DEF ClientStates, Phases
<1> HIDE DEF t
<1>11. Follows(t, st, pointer, n)
  BY <1>2, <1>4, <1>6, <1>7, <1>8, <1>10 DEF Follows
<1>12. t \in Holding(st)
  BY <1>10, <1>11 DEF Holding, Seen, V, n
<1>13. QED BY <1>3, <1>9, <1>12

\* A complete window continues the client's cursor.
LEMMA CompleteWindow ==
  ASSUME NEW V, NEW recs \in Seq(V), NEW x, NEW b, Complete(recs, x, b)
  PROVE \A i \in DOMAIN Window(recs, x, b) : Window(recs, x, b)[i].cursor = x + i
BY DEF Complete

LEMMA BeginSeen ==
  ASSUME NEW st, Serves(st), NEW s \in Holding(st), s.phase = "captured",
         NEW begun, begun = [s EXCEPT !.phase = "streaming", !.universe = active, !.records = <<>>,
                              !.boundary = 0, !.resume = None,
                              !.last = IF s.resume = None THEN s.boundary ELSE s.resume]
  PROVE /\ begun \in Holding(st)
        /\ s.resume # None /\ Complete(s.records, s.resume, s.boundary)
             => Deliver(begun, Window(s.records, s.resume, s.boundary)) \in Holding(st)
<1> DEFINE V == Genuine(st, pointer, runtime.proj.cursor)
           n == runtime.proj.cursor
           x == IF s.resume = None THEN s.boundary ELSE s.resume
<1>1. s \in ClientStates(V) /\ Follows(s, st, pointer, n) /\ active \in Nat
  BY HoldingFields DEF Serves
<1>2. /\ s.boundary \in Nat /\ s.resume \in Nat \cup {None} /\ s.seen = s.gen
      /\ s.records \in Seq(V)
  BY <1>1, ClientFields DEF Follows
<1>3. Placed(x, s.gen, st, pointer, n)
  BY <1>1 DEF Follows
<1>4. x \in Nat
  BY <1>2
<1>5. <<>> \in Seq(V)
  BY EmptySeq
<1> HIDE DEF V, n
<1>6. begun = [s EXCEPT !.phase = "streaming", !.universe = active, !.records = <<>>,
                        !.boundary = 0, !.resume = None, !.last = x]
  OBVIOUS
<1>7. s.resume # None => x = s.resume
  OBVIOUS
<1> HIDE DEF x
<1>8. /\ begun \in ClientStates(V) /\ begun.seen = s.seen /\ begun.gen = s.gen
      /\ begun.phase = "streaming" /\ begun.last = x
  <2> DEFINE none == <<>>
             mid == [s EXCEPT !.phase = "streaming", !.universe = active, !.records = none]
  <2>1. none \in Seq(V)
    BY <1>5
  <2>2. begun = [mid EXCEPT !.boundary = 0, !.resume = None, !.last = x]
    BY ONLY <1>1, <1>6 DEF ClientStates
  <2> HIDE DEF none
  <2>3. /\ mid \in ClientStates(V) /\ mid.seen = s.seen /\ mid.gen = s.gen
        /\ mid.phase = "streaming"
    BY ONLY <1>1, <2>1 DEF ClientStates, Phases
  <2> HIDE DEF mid
  <2>4. QED BY ONLY <1>4, <2>2, <2>3 DEF ClientStates
<1>9. Follows(begun, st, pointer, n)
  BY <1>2, <1>3, <1>8 DEF Follows
<1>10. begun \in Seen(st, pointer, n)
  BY <1>8, <1>9 DEF Seen, V, n
<1>11. ASSUME s.resume # None, Complete(s.records, s.resume, s.boundary)
       PROVE Deliver(begun, Window(s.records, s.resume, s.boundary)) \in Seen(st, pointer, n)
  <2> DEFINE w == Window(s.records, s.resume, s.boundary)
  <2>1. w \in Seq(V)
    BY <1>2, WindowType
  <2>2. \A i \in DOMAIN w : w[i].cursor = s.resume + i
    BY <1>2, <1>11, CompleteWindow
  <2>3. \A i \in DOMAIN w : w[i].cursor = begun.last + i
    BY <1>7, <1>8, <1>11, <2>2
  <2> HIDE DEF w
  <2>4. Starts(st, pointer, n) /\ begun.phase \in {"streaming", "replaying"}
    BY <1>8 DEF Serves, n
  <2>5. w \in Seq(Genuine(st, pointer, n))
    BY <2>1 DEF V, n
  <2>6. Deliver(begun, w) \in Seen(st, pointer, n)
    BY ONLY <1>10, <2>3, <2>4, <2>5, DeliverSeen
  <2>7. QED BY <2>6 DEF w
<1>12. QED BY <1>10, <1>11 DEF Holding, n

LEMMA ReceiveSeen ==
  ASSUME NEW st, Serves(st), NEW s \in Holding(st), s.phase = "streaming", s.queue # <<>>,
         NEW rec, rec = Head(s.queue), NEW rest, rest = [s EXCEPT !.queue = Tail(s.queue)]
  PROVE /\ rest \in Holding(st)
        /\ rec.cursor = s.last + 1 => Deliver(rest, <<rec>>) \in Holding(st)
        /\ [rest EXCEPT !.phase = "replaying", !.boundary = rec.cursor, !.view = published]
             \in Holding(st)
<1> DEFINE V == Genuine(st, pointer, runtime.proj.cursor)
           n == runtime.proj.cursor
           q == Tail(s.queue)
           t == [rest EXCEPT !.phase = "replaying", !.boundary = rec.cursor, !.view = published]
<1>1. /\ s \in ClientStates(V) /\ Follows(s, st, pointer, n) /\ published \in Projection
      /\ s \in Seen(st, pointer, n)
  BY HoldingFields DEF Serves, Holding
<1>2. s.queue \in Seq(V)
  BY <1>1, ClientFields
<1>3. rec \in V /\ q \in Seq(V)
  BY <1>2, HeadTailProperties
<1>4. rec.cursor \in Nat
  BY <1>3 DEF Genuine, Records
<1>5. rest \in Seen(st, pointer, n)
  <2>1. q \in Seq(Genuine(st, pointer, n))
    BY <1>3
  <2>2. rest = [s EXCEPT !.queue = q]
    OBVIOUS
  <2> HIDE DEF q, n
  <2>3. [s EXCEPT !.queue = q] \in Seen(st, pointer, n)
    <3>1. TRUE \in BOOLEAN
      OBVIOUS
    <3>2. q \in Seq(Genuine(st, pointer, n))
      BY <2>1 DEF n
    <3>3. QED BY ONLY <1>1, <3>1, <3>2, QueueSeen
  <2>4. QED BY <2>2, <2>3
<1> HIDE DEF V, q
<1>6. /\ rest \in ClientStates(V) /\ rest.seen = s.seen /\ rest.gen = s.gen
      /\ rest.phase = "streaming" /\ rest.last = s.last
  BY <1>1, <1>3 DEF ClientStates, q
<1>7. ASSUME rec.cursor = s.last + 1 PROVE Deliver(rest, <<rec>>) \in Seen(st, pointer, n)
  <2> DEFINE w == <<rec>>
  <2>1. w \in Seq(V) /\ Len(w) = 1 /\ w[1] = rec
    BY <1>3, OneSeq
  <2> HIDE DEF w
  <2>2. DOMAIN w = 1..1
    BY <2>1, LenProperties
  <2>3. \A i \in DOMAIN w : w[i].cursor = rest.last + i
    BY <1>6, <1>7, <2>1, <2>2
  <2>4. Starts(st, pointer, n) /\ rest.phase \in {"streaming", "replaying"}
    BY <1>6 DEF Serves
  <2>5. w \in Seq(Genuine(st, pointer, n))
    BY <2>1 DEF V
  <2>6. Deliver(rest, w) \in Seen(st, pointer, n)
    BY ONLY <1>5, <2>3, <2>4, <2>5, DeliverSeen
  <2>7. QED BY <2>6 DEF w
<1>8. t \in Seen(st, pointer, n)
  <2>1. /\ t \in ClientStates(V) /\ t.seen = s.seen /\ t.gen = s.gen
        /\ t.phase = "replaying" /\ t.last = s.last
    BY <1>1, <1>4, <1>6 DEF ClientStates, Phases
  <2> HIDE DEF t
  <2>2. Follows(t, st, pointer, n)
    BY <1>1, <2>1 DEF Follows
  <2>3. QED BY <2>1, <2>2 DEF Seen, V
<1>9. QED BY <1>5, <1>7, <1>8 DEF Holding

LEMMA LaggedSeen ==
  ASSUME NEW st, Serves(st), NEW s \in Holding(st), s.phase = "streaming"
  PROVE [s EXCEPT !.lagged = FALSE, !.phase = "replaying", !.boundary = published.cursor,
                  !.view = published] \in Holding(st)
<1> DEFINE V == Genuine(st, pointer, runtime.proj.cursor)
           n == runtime.proj.cursor
           t == [s EXCEPT !.lagged = FALSE, !.phase = "replaying", !.boundary = published.cursor,
                          !.view = published]
<1>1. /\ s \in ClientStates(V) /\ Follows(s, st, pointer, n) /\ published \in Projection
      /\ published.cursor \in Nat
  BY HoldingFields DEF Serves, Projection
<1> HIDE DEF V
<1>2. /\ t \in ClientStates(V) /\ t.seen = s.seen /\ t.gen = s.gen
      /\ t.phase = "replaying" /\ t.last = s.last
  BY <1>1 DEF ClientStates, Phases
<1> HIDE DEF t
<1>3. Follows(t, st, pointer, n)
  BY <1>1, <1>2 DEF Follows
<1>4. QED BY <1>2, <1>3 DEF Holding, Seen, V, t

LEMMA ReplaySeen ==
  ASSUME NEW st, Serves(st), NEW s \in Holding(st), s.phase = "replaying",
         Complete(runtime.recent, s.last, s.boundary)
  PROVE Deliver([s EXCEPT !.phase = "streaming", !.boundary = 0, !.view = None],
                Window(runtime.recent, s.last, s.boundary)) \in Holding(st)
<1> DEFINE V == Genuine(st, pointer, runtime.proj.cursor)
           n == runtime.proj.cursor
           t == [s EXCEPT !.phase = "streaming", !.boundary = 0, !.view = None]
           w == Window(runtime.recent, s.last, s.boundary)
<1>1. s \in ClientStates(V) /\ Follows(s, st, pointer, n) /\ runtime.recent \in Seq(V)
  BY HoldingFields DEF Serves
<1>2. w \in Seq(V) /\ \A i \in DOMAIN w : w[i].cursor = s.last + i
  BY <1>1, WindowType, CompleteWindow
<1> HIDE DEF V, w
<1>3. /\ t \in ClientStates(V) /\ t.seen = s.seen /\ t.gen = s.gen
      /\ t.phase = "streaming" /\ t.last = s.last
  BY <1>1 DEF ClientStates, Phases
<1> HIDE DEF t
<1>4. Follows(t, st, pointer, n)
  BY <1>1, <1>3 DEF Follows
<1>5. t \in Seen(st, pointer, n)
  BY <1>3, <1>4 DEF Seen, V
<1>6. \A i \in DOMAIN w : w[i].cursor = t.last + i
  BY <1>2, <1>3
<1>7. Starts(st, pointer, n) /\ t.phase \in {"streaming", "replaying"}
  BY <1>3 DEF Serves
<1>8. w \in Seq(Genuine(st, pointer, n))
  BY <1>2 DEF V
<1>9. Deliver(t, w) \in Seen(st, pointer, n)
  BY ONLY <1>5, <1>6, <1>7, <1>8, DeliverSeen
<1>10. QED BY <1>9 DEF Holding, t, w

\* A step of a client leaves it with what it may hold.
LEMMA ClientStepHolds ==
  ASSUME NEW st, Serves(st), client \in [Clients -> Holding(st)], NEW c \in Clients, ClientStep(c)
  PROVE client' \in [Clients -> Holding(st)] /\ UNCHANGED <<disk, process, memory>>
<1> DEFINE s == client[c]
<1>1. s \in Holding(st)
  OBVIOUS
<1>2. SUFFICES \E next \in Holding(st) : Streams(c, next)
  BY DEF Streams
<1>3. Resynced \in Holding(st) /\ Dropped(s) \in Holding(st)
  BY <1>1, ResyncedSeen, DroppedSeen DEF Holding
<1>4. CASE Subscribe(c)
  <2>1. s.phase = "away" /\ Streams(c, [s EXCEPT !.phase = "subscribed"])
    BY <1>4 DEF Subscribe
  <2>2. QED BY <1>1, <2>1, SubscribeSeen
<1>5. CASE Capture(c)
  <2> DEFINE t == [s EXCEPT !.phase = "captured", !.boundary = runtime.proj.cursor,
                     !.records = runtime.recent,
                     !.gen = IF s.resume = None THEN runtime.gen ELSE @,
                     !.seen = IF s.resume = None THEN runtime.gen ELSE @]
  <2>1. s.phase = "subscribed"
        /\ Streams(c, IF Ready(runtime.proj, active) THEN t ELSE Away(s.resume, s.gen))
    BY <1>5 DEF Capture
  <2>2. t \in Holding(st) /\ Away(s.resume, s.gen) \in Holding(st)
    BY <1>1, <2>1, CaptureSeen
  <2> HIDE DEF t
  <2>3. QED BY <2>1, <2>2
<1>6. CASE Begin(c)
  <2> DEFINE begun == [s EXCEPT !.phase = "streaming", !.universe = active, !.records = <<>>,
                           !.boundary = 0, !.resume = None,
                           !.last = IF s.resume = None THEN s.boundary ELSE s.resume]
             w == Window(s.records, s.resume, s.boundary)
             complete == Complete(s.records, s.resume, s.boundary)
  <2>1. s.phase = "captured"
        /\ Streams(c, CASE s.resume = None -> begun
                        [] s.resume # None /\ complete -> Deliver(begun, w)
                        [] OTHER -> Resynced)
    BY <1>6 DEF Begin
  <2>2. begun \in Holding(st) /\ (s.resume # None /\ complete => Deliver(begun, w) \in Holding(st))
    BY <1>1, <2>1, BeginSeen
  <2> HIDE DEF begun, w, complete
  <2>3. QED BY <1>3, <2>1, <2>2
<1>7. CASE Receive(c)
  <2> DEFINE rec == Head(s.queue)
             rest == [s EXCEPT !.queue = Tail(s.queue)]
             t == [rest EXCEPT !.phase = "replaying", !.boundary = rec.cursor, !.view = published]
             delivered == Deliver(rest, <<rec>>)
  <2>1. /\ s.phase = "streaming" /\ s.queue # <<>>
        /\ Streams(c, CASE rec.cursor <= s.last -> rest
                    [] rec.cursor > s.last /\ s.universe # active -> Resynced
                    [] rec.cursor = s.last + 1 /\ s.universe = active ->
                         IF Ready(published, active) THEN delivered ELSE Resynced
                    [] OTHER -> t)
    BY <1>7 DEF Receive
  <2>2. /\ rest \in Holding(st) /\ t \in Holding(st)
        /\ rec.cursor = s.last + 1 => delivered \in Holding(st)
    BY <1>1, <2>1, ReceiveSeen
  <2> HIDE DEF rest, t, delivered, rec, s
  <2>3. QED BY <1>3, <2>1, <2>2
<1>8. CASE Lagged(c)
  <2>1. s.phase = "streaming"
        /\ Streams(c, [s EXCEPT !.lagged = FALSE, !.phase = "replaying",
                                !.boundary = published.cursor, !.view = published])
    BY <1>8 DEF Lagged
  <2>2. QED BY <1>1, <2>1, LaggedSeen
<1>9. CASE ReplayWindow(c)
  <2> DEFINE complete == Complete(runtime.recent, s.last, s.boundary)
             next == Deliver([s EXCEPT !.phase = "streaming", !.boundary = 0, !.view = None],
                             Window(runtime.recent, s.last, s.boundary))
  <2>1. s.phase = "replaying"
        /\ Streams(c, IF (runtime.proj.cursor >= s.boundary /\ complete) /\ Ready(s.view, active)
                      THEN next ELSE Resynced)
    BY <1>9 DEF ReplayWindow
  <2>2. complete => next \in Holding(st)
    BY <1>1, <2>1, ReplaySeen
  <2> HIDE DEF complete, next
  <2>3. QED BY <1>3, <2>1, <2>2
<1>10. CASE FreshnessCheck(c)
  BY <1>3, <1>10 DEF FreshnessCheck
<1>11. CASE Disconnect(c)
  BY <1>3, <1>11 DEF Disconnect
<1>12. QED BY <1>4, <1>5, <1>6, <1>7, <1>8, <1>9, <1>10, <1>11 DEF ClientStep

-----------------------------------------------------------------------------
(* No stream carries a record of another generation.                       *)

\* The files and the recent records of a prepared candidate begin where the
\* running generation is, and go further.
Forked(st) ==
    up /\ owner = "prepared" =>
        /\ candidate.gen = pointer + 1 /\ runtime.proj.cursor < candidate.proj.cursor
        /\ candidate.proj.catalog = CatalogOf[candidate.gen]
        /\ candidate.recent \in Seq(Genuine(Begun(st, pointer, runtime.proj.cursor), pointer + 1,
                                            candidate.proj.cursor))
        /\ RecordsOf(root[candidate.gen].wal)
             \in Seq(Genuine(Begun(st, pointer, runtime.proj.cursor), pointer + 1,
                             candidate.proj.cursor))

\* Where each generation began: st.
Origins(st) ==
    /\ Starts(st, pointer, runtime.proj.cursor)
    /\ RecordsOf(root[pointer].wal) \in Seq(Genuine(st, pointer, runtime.proj.cursor))
    /\ runtime.recent \in Seq(Genuine(st, pointer, runtime.proj.cursor))
    /\ outbox \in Seq(Genuine(st, pointer, runtime.proj.cursor))
    /\ client \in [Clients -> Holding(st)]
    /\ Forked(st)

CatalogHeld == up => runtime.proj.catalog = CatalogOf[runtime.gen]

Unmixed ==
    /\ Durable /\ active \in Nat /\ published \in Projection /\ CatalogHeld
    /\ \E st : Origins(st)

LEMMA DurableFields ==
  ASSUME Durable
  PROVE /\ root \in [Generations -> Roots] /\ pointer \in Generations /\ pointer \in Nat
        /\ root[pointer] \in Roots /\ runtime \in Runtimes /\ runtime.gen = pointer
        /\ runtime.proj \in Projection /\ runtime.proj.cursor \in Nat /\ boots \in Nat
        /\ runtime.recent \in Seq(Records) /\ RecordsOf(root[pointer].wal) \in Seq(Records)
<1>1. /\ root \in [Generations -> Roots] /\ pointer \in Generations /\ boots \in Nat
      /\ runtime \in Runtimes /\ runtime.gen = pointer
  BY DEF Durable, TypeOK
<1>2. pointer \in Nat /\ root[pointer] \in Roots
  BY <1>1, LiveAssumption
<1>3. runtime.proj \in Projection /\ runtime.recent \in Seq(Records)
  BY <1>1, RuntimeFields
<1>4. runtime.proj.cursor \in Nat
  BY <1>3 DEF Projection
<1>5. QED BY <1>1, <1>2, <1>3, <1>4, RootFields

\* The candidate of this step is the one of before, or there is none.
CandidateKept ==
    up' /\ owner' = "prepared" =>
        /\ up /\ owner = "prepared" /\ candidate' = candidate
        /\ RecordsOf(root'[candidate.gen].wal) = RecordsOf(root[candidate.gen].wal)

\* The generation stays where it is.
LEMMA StillOrigins ==
  ASSUME NEW st, Origins(st), pointer' = pointer, runtime'.proj = runtime.proj,
         runtime'.recent = runtime.recent,
         RecordsOf(root'[pointer].wal) = RecordsOf(root[pointer].wal),
         outbox' \in Seq(Genuine(st, pointer, runtime.proj.cursor)),
         client' \in [Clients -> Holding(st)], CandidateKept
  PROVE Origins(st)'
<1>1. Forked(st)'
  <2>1. CASE up' /\ owner' = "prepared"
    <3>1. /\ up /\ owner = "prepared" /\ candidate' = candidate
          /\ RecordsOf(root'[candidate.gen].wal) = RecordsOf(root[candidate.gen].wal)
      BY <2>1 DEF CandidateKept
    <3>2. /\ candidate.gen = pointer + 1 /\ runtime.proj.cursor < candidate.proj.cursor
        /\ candidate.proj.catalog = CatalogOf[candidate.gen]
        /\ candidate.recent \in Seq(Genuine(Begun(st, pointer, runtime.proj.cursor), pointer + 1,
                                            candidate.proj.cursor))
        /\ RecordsOf(root[candidate.gen].wal)
             \in Seq(Genuine(Begun(st, pointer, runtime.proj.cursor), pointer + 1,
                             candidate.proj.cursor))
      BY <3>1 DEF Origins, Forked
    <3>3. QED BY <3>1, <3>2 DEF Forked
  <2>2. CASE ~(up' /\ owner' = "prepared")
    BY <2>2 DEF Forked
  <2>3. QED BY <2>1, <2>2
<1>2. Holding(st)' = Holding(st)
  BY DEF Holding
<1>3. /\ Starts(st, pointer, runtime.proj.cursor)
      /\ RecordsOf(root[pointer].wal) \in Seq(Genuine(st, pointer, runtime.proj.cursor))
      /\ runtime.recent \in Seq(Genuine(st, pointer, runtime.proj.cursor))
  BY DEF Origins
<1>4. (RecordsOf(root[pointer].wal))' = RecordsOf(root'[pointer].wal)
  OBVIOUS
<1>5. QED BY <1>1, <1>2, <1>3, <1>4 DEF Origins

\* The generation gets records.
LEMMA GrownOrigins ==
  ASSUME NEW st, Origins(st), pointer' = pointer, NEW n \in Nat, runtime'.proj.cursor = n,
         runtime.proj.cursor <= n,
         RecordsOf(root'[pointer].wal) \in Seq(Genuine(st, pointer, n)),
         runtime'.recent \in Seq(Genuine(st, pointer, n)),
         outbox' \in Seq(Genuine(st, pointer, n)),
         client' \in [Clients -> Holding(st)], ~(up' /\ owner' = "prepared")
  PROVE Origins(st)'
<1> DEFINE old == runtime.proj.cursor
<1>1. Starts(st, pointer, old)
  BY DEF Origins
<1>2. Keeps(st, pointer, old, st, pointer, n)
  BY <1>1, GrowKeeps
<1>3. Starts(st, pointer, n)
  BY <1>2 DEF Keeps
<1>4. ASSUME NEW c \in Clients PROVE client'[c] \in Seen(st, pointer, n)
  <2>1. client'[c] \in Seen(st, pointer, old)
    BY DEF Holding
  <2> HIDE DEF old
  <2>2. QED BY <1>2, <2>1, SeenKeeps
<1>5. client' \in [Clients -> Seen(st, pointer, n)]
  BY <1>4
<1>6. Holding(st)' = Seen(st, pointer, n)
  BY DEF Holding
<1>7. Forked(st)'
  BY DEF Forked
<1>8. QED BY <1>3, <1>5, <1>6, <1>7 DEF Origins

\* Records after the cursor of their generation are genuine.
LEMMA NewRecords ==
  ASSUME NEW st, NEW ptr, NEW n, Starts(st, ptr, n), NEW n2 \in Nat, n <= n2,
         NEW old \in Seq(Genuine(st, ptr, n)), NEW recs \in Seq(Records),
         \A i \in DOMAIN recs : recs[i].gen = ptr /\ n < recs[i].cursor /\ recs[i].cursor <= n2
  PROVE /\ recs \in Seq(Genuine(st, ptr, n2)) /\ old \in Seq(Genuine(st, ptr, n2))
        /\ old \o recs \in Seq(Genuine(st, ptr, n2))
<1> DEFINE V == Genuine(st, ptr, n2)
<1>1. Genuine(st, ptr, n) \subseteq V
  BY GrowKeeps DEF Keeps
<1>2. old \in Seq(V)
  BY <1>1, SeqGrows
<1>3. Len(recs) \in Nat /\ DOMAIN recs = 1..Len(recs)
  BY LenProperties
<1>4. ASSUME NEW i \in 1..Len(recs) PROVE recs[i] \in V
  <2>1. recs[i] \in Records /\ recs[i].gen = ptr /\ n < recs[i].cursor /\ recs[i].cursor <= n2
    BY <1>3, ElementOfSeq
  <2>2. /\ ptr \in Nat \ {0} /\ n \in Nat /\ ptr \in 1..ptr /\ st[ptr] \in Nat /\ st[ptr] <= n
        /\ ptr # 1 => st[ptr] < n
    BY DEF Starts, Until
  <2>3. recs[i].cursor \in Nat
    BY <2>1 DEF Records
  <2>4. Until(st, ptr, n2, recs[i].gen) = n2
    BY <2>1 DEF Until
  <2>5. st[recs[i].gen] < recs[i].cursor
    BY <2>1, <2>2, <2>3
  <2>6. recs[i].gen # 1 => recs[i].cursor # st[recs[i].gen] + 1
    BY <2>1, <2>2, <2>3
  <2>7. QED BY <2>1, <2>2, <2>4, <2>5, <2>6 DEF Genuine
<1> HIDE DEF V
<1>5. recs \in Seq(V)
  BY <1>3, <1>4
<1>6. old \o recs \in Seq(V)
  BY <1>2, <1>5, ConcatProperties
<1>7. QED BY <1>2, <1>5, <1>6 DEF V

-----------------------------------------------------------------------------
(* Clients of a step of the process.                                       *)

ClientsHold == \A st : Origins(st) => client' \in [Clients -> Holding(st)]

LEMMA SameClients == ASSUME client' = client PROVE ClientsHold
BY DEF ClientsHold, Origins

LEMMA DroppedClients ==
  ASSUME client' = [c \in Clients |-> Dropped(client[c])]
  PROVE ClientsHold
<1> SUFFICES ASSUME NEW st, Origins(st) PROVE client' \in [Clients -> Holding(st)]
  BY DEF ClientsHold
<1>1. ASSUME NEW c \in Clients PROVE Dropped(client[c]) \in Holding(st)
  <2>1. client[c] \in Holding(st)
    BY DEF Origins
  <2>2. QED BY <2>1, DroppedSeen DEF Holding
<1>2. QED BY <1>1

LEMMA SentClients ==
  ASSUME NEW recs, Send(recs),
         \A st : Origins(st) => recs \in Seq(Genuine(st, pointer, runtime.proj.cursor))
  PROVE ClientsHold
<1> SUFFICES ASSUME NEW st, Origins(st) PROVE client' \in [Clients -> Holding(st)]
  BY DEF ClientsHold
<1>1. ASSUME NEW c \in Clients
      PROVE (IF client[c].phase = "away" THEN client[c] ELSE Push(client[c], recs)) \in Holding(st)
  <2>1. client[c] \in Holding(st) /\ recs \in Seq(Genuine(st, pointer, runtime.proj.cursor))
    BY DEF Origins
  <2>2. Push(client[c], recs) \in Holding(st)
    BY <2>1, PushSeen DEF Holding
  <2>3. QED BY <2>1, <2>2
<1>2. QED BY <1>1 DEF Send

LEMMA SteppedClients ==
  ASSUME Unmixed, NEW c \in Clients, ClientStep(c)
  PROVE ClientsHold /\ UNCHANGED <<disk, process, memory>>
<1>1. ASSUME NEW st, Origins(st)
      PROVE client' \in [Clients -> Holding(st)] /\ UNCHANGED <<disk, process, memory>>
  <2>1. Serves(st) /\ client \in [Clients -> Holding(st)]
    BY <1>1, DurableFields DEF Origins, Serves, Unmixed
  <2>2. QED BY <2>1, ClientStepHolds
<1>2. QED BY <1>1 DEF ClientsHold, Unmixed

-----------------------------------------------------------------------------
(* Steps that keep the generation and its cursor.                          *)

StillStep ==
    /\ pointer' = pointer /\ runtime'.gen = runtime.gen /\ runtime'.proj = runtime.proj
    /\ runtime'.recent = runtime.recent
    /\ RecordsOf(root'[pointer].wal) = RecordsOf(root[pointer].wal)
    /\ (outbox' = outbox \/ outbox' = <<>>) /\ ClientsHold /\ CandidateKept
    /\ active' \in Nat /\ published' \in Projection /\ (up' => up)

LEMMA StillUnmixed == ASSUME Unmixed, Durable', StillStep PROVE Unmixed'
<1>1. PICK st : Origins(st)
  BY DEF Unmixed
<1>2. outbox' \in Seq(Genuine(st, pointer, runtime.proj.cursor))
  <2>1. outbox \in Seq(Genuine(st, pointer, runtime.proj.cursor))
    BY <1>1 DEF Origins
  <2>2. <<>> \in Seq(Genuine(st, pointer, runtime.proj.cursor))
    BY EmptySeq
  <2>3. QED BY <2>1, <2>2 DEF StillStep
<1>3. client' \in [Clients -> Holding(st)]
  BY <1>1 DEF StillStep, ClientsHold
<1>4. Origins(st)'
  BY <1>1, <1>2, <1>3, StillOrigins DEF StillStep
<1>5. CatalogHeld'
  BY DEF Unmixed, CatalogHeld, StillStep
<1>6. QED BY <1>4, <1>5 DEF Unmixed, StillStep

\* A checkpoint of the running generation is such a step.
LEMMA CheckpointUnmixed ==
  ASSUME Unmixed, Durable', up, NEW ok \in BOOLEAN, CheckpointRuntime(ok),
         UNCHANGED <<pointer, candidate, active>>, outbox' = outbox \/ outbox' = <<>>,
         OwnerKept, ClientsHold
  PROVE Unmixed'
<1>1. /\ root' \in [Generations -> Roots] /\ runtime' \in Runtimes
      /\ runtime'.gen = runtime.gen /\ runtime'.proj = runtime.proj
      /\ runtime'.recent = runtime.recent
      /\ root'[runtime.gen] \in SoundRoots(runtime.proj, RecordsOf(root[runtime.gen].wal))
      /\ \A h \in Generations : h # runtime.gen => root'[h] = root[h]
      /\ published' \in {published, runtime.proj}
  BY CheckpointStep DEF Unmixed
<1>2. runtime.gen = pointer /\ runtime.proj \in Projection
  BY DurableFields DEF Unmixed
<1>3. RecordsOf(root'[pointer].wal) = RecordsOf(root[pointer].wal)
  BY <1>1, <1>2 DEF SoundRoots
<1>4. CandidateKept
  <2> SUFFICES ASSUME up', owner' = "prepared"
               PROVE owner = "prepared" /\ RecordsOf(root'[candidate.gen].wal) = RecordsOf(root[candidate.gen].wal)
    BY DEF CandidateKept
  <2>1. owner = "prepared"
    BY DEF OwnerKept
  <2>2. candidate.gen \in Generations /\ candidate.gen # runtime.gen
    BY <2>1, RuntimeFields DEF Unmixed, Durable
  <2>3. root'[candidate.gen] = root[candidate.gen]
    BY <1>1, <2>2
  <2>4. QED BY <2>1, <2>3
<1>5. published' \in Projection /\ active' \in Nat
  BY <1>1, <1>2 DEF Unmixed
<1>6. StillStep
  BY <1>1, <1>3, <1>4, <1>5 DEF StillStep
<1>7. QED BY <1>6, StillUnmixed

\* Steps that write no file.
QuietUnmixedStep ==
    /\ UNCHANGED <<root, pointer, up, runtime, candidate>>
    /\ (outbox' = outbox \/ outbox' = <<>>) /\ ClientsHold
    /\ owner' = owner \/ owner' # "prepared"
    /\ active' \in {active, runtime.gen} /\ published' \in {published, runtime.proj}

LEMMA QuietUnmixed == ASSUME Unmixed, Durable', QuietUnmixedStep PROVE Unmixed'
<1>1. /\ UNCHANGED <<root, pointer, up, runtime, candidate>>
      /\ (outbox' = outbox \/ outbox' = <<>>) /\ ClientsHold
      /\ owner' = owner \/ owner' # "prepared"
      /\ active' \in {active, runtime.gen} /\ published' \in {published, runtime.proj}
  BY DEF QuietUnmixedStep
<1>2. runtime.gen \in Nat /\ runtime.proj \in Projection /\ active \in Nat /\ published \in Projection
  BY DurableFields DEF Unmixed
<1>3. CandidateKept
  BY <1>1 DEF CandidateKept
<1>4. StillStep
  BY <1>1, <1>2, <1>3 DEF StillStep
<1>5. QED BY <1>4, StillUnmixed

\* The process dies where it is; the records of its files stay.
LEMMA DieUnmixed ==
  ASSUME Unmixed, Durable', Die, UNCHANGED runtime,
         RecordsOf(root'[pointer].wal) = RecordsOf(root[pointer].wal)
  PROVE Unmixed'
<1>1. /\ up' = FALSE /\ client' = [c \in Clients |-> Dropped(client[c])]
      /\ UNCHANGED <<pointer, published, active, outbox>>
  BY DEF Die
<1>2. CandidateKept
  BY <1>1 DEF CandidateKept
<1>3. StillStep
  BY <1>1, <1>2, DroppedClients DEF StillStep, Unmixed
<1>4. QED BY <1>3, StillUnmixed

LEMMA CrashInCheckpointUnmixed ==
  ASSUME Unmixed, Durable', CrashInCheckpoint
  PROVE Unmixed'
<1> DEFINE G == runtime.gen
           C == CheckpointWrites(root[G], runtime.proj, runtime.manifest)
<1>1. /\ G \in Generations /\ runtime.proj \in Projection /\ runtime \in Runtimes /\ G = pointer
      /\ root \in [Generations -> Roots] /\ root[G] \in Roots /\ Sound(root[G], runtime.proj)
      /\ runtime.manifest = root[G].manifest
  BY RuntimeFields DEF Unmixed, Durable, TypeOK, CrashInCheckpoint
<1>2. PICK files \in Range(C.writes) : root' = [root EXCEPT ![G] = files]
  BY DEF CrashInCheckpoint
<1>3. Die /\ UNCHANGED runtime
  BY DEF CrashInCheckpoint
<1>4. C = CheckpointWrites(root[G], runtime.proj, root[G].manifest)
  BY <1>1
<1> HIDE DEF C, G
<1>5. C.writes \in Seq(SoundRoots(runtime.proj, RecordsOf(root[G].wal)))
  BY <1>1, <1>4, CheckpointSound
<1>6. files \in SoundRoots(runtime.proj, RecordsOf(root[G].wal))
  BY <1>5, RangeEquality, ElementOfSeq
<1>7. root'[G] = files
  BY <1>1, <1>2
<1>8. RecordsOf(root'[pointer].wal) = RecordsOf(root[pointer].wal)
  BY <1>1, <1>6, <1>7 DEF SoundRoots
<1>9. QED BY <1>3, <1>8, DieUnmixed

LEMMA CrashInPrepareUnmixed ==
  ASSUME Unmixed, Durable', CrashInPrepare
  PROVE Unmixed'
<1> DEFINE g == Head(switches)
           P == Prepare(g)
           H == Held(runtime.gen, runtime.proj, RecordsOf(root[runtime.gen].wal))
<1>1. /\ up /\ owner \in {"serving", "waiting"} /\ g = active + 1 /\ g \in Generations
      /\ root' \in Range(P.writes) /\ Die /\ UNCHANGED runtime
  BY DEF CrashInPrepare
<1> HIDE DEF g, H
<1>2. P.writes \in Seq(H)
  BY <1>1, PrepareStep DEF H, Unmixed
<1> HIDE DEF P
<1>3. root' \in H
  BY <1>1, <1>2, RangeEquality, ElementOfSeq
<1>4. runtime.gen = pointer
  BY DurableFields DEF Unmixed
<1>5. RecordsOf(root'[pointer].wal) = RecordsOf(root[pointer].wal)
  BY <1>3, <1>4 DEF H, Held, SoundRoots
<1>6. QED BY <1>1, <1>5, DieUnmixed

-----------------------------------------------------------------------------
(* Steps that bring the generation further.                                *)

\* What was genuine stays so.
LEMMA MoreGenuine ==
  ASSUME NEW st, NEW ptr, NEW n, Starts(st, ptr, n), NEW n2 \in Nat, n <= n2,
         NEW s \in Seq(Genuine(st, ptr, n))
  PROVE s \in Seq(Genuine(st, ptr, n2))
BY GrowKeeps, SeqGrows DEF Keeps

LEMMA InitUnmixed == Init => Unmixed
<1> SUFFICES ASSUME Init PROVE Unmixed
  OBVIOUS
<1>1. Durable
  BY InitDurable
<1> DEFINE p == Bootstrap(0)
           st == [g \in 1..1 |-> 0]
<1>2. p \in Projection /\ p.cursor = 0
  BY BootstrapFields
<1>3. /\ root = [g \in Generations |-> EmptyRoot] /\ pointer = 1 /\ 1 \in Generations /\ up = FALSE
      /\ runtime = [gen |-> 1, proj |-> p, recent |-> <<>>, manifest |-> None]
      /\ outbox = <<>> /\ published = p /\ active = 1
      /\ client = [c \in Clients |-> Resynced]
  BY LiveAssumption DEF Init
<1> HIDE DEF p
<1>4. runtime.proj.cursor = 0 /\ runtime.recent = <<>>
  BY <1>2, <1>3
<1>5. RecordsOf(root[pointer].wal) = <<>>
  BY <1>3, EmptyRootType, RecordsNone
<1>6. Starts(st, 1, 0)
  BY DEF Starts
<1> HIDE DEF st
<1>7. <<>> \in Seq(Genuine(st, 1, 0))
  BY EmptySeq
<1>8. Resynced \in Holding(st)
  BY ResyncedSeen DEF Holding
<1>9. Forked(st)
  BY <1>3 DEF Forked
<1>10. Origins(st)
  BY <1>3, <1>4, <1>5, <1>6, <1>7, <1>8, <1>9 DEF Origins
<1>11. QED BY <1>1, <1>2, <1>3, <1>10 DEF Unmixed, CatalogHeld

LEMMA ApplyUnmixed ==
  ASSUME "late" \notin Kinds, Unmixed, Durable', NEW kind \in {"book", "gap"} \cup Kinds,
         ApplyRaw(kind)
  PROVE Unmixed'
<1> DEFINE rec == Record(kind, runtime.proj.cursor + 1, runtime.gen)
           p == Evaluate(runtime.proj, rec, boots)
           old == RecordsOf(root[pointer].wal)
           n == runtime.proj.cursor
<1>1. /\ runtime.gen = pointer /\ runtime.proj \in Projection /\ n \in Nat /\ boots \in Nat
      /\ runtime.recent \in Seq(Records) /\ old \in Seq(Records) /\ runtime.gen \in Generations
  BY DurableFields DEF Unmixed
<1>2. /\ rec \in Records /\ rec.gen = runtime.gen /\ rec.cursor = n + 1
      /\ runtime'.gen = runtime.gen /\ runtime'.proj = p
      /\ runtime'.recent = Recent(Append(runtime.recent, rec))
      /\ root'[runtime.gen] \in SoundRoots(p, Append(RecordsOf(root[runtime.gen].wal), rec))
      /\ outbox' = <<rec>> /\ published' = p
  BY ApplyStep DEF Unmixed
<1>3. /\ owner = "serving" /\ up /\ UNCHANGED <<pointer, boots, up, active, owner, client>>
  BY DEF ApplyRaw, process
<1>4. p \in Projection /\ p.cursor = n + 1
      /\ p.catalog = IF rec.kind = "catalog" THEN rec.catalog ELSE runtime.proj.catalog
  BY <1>1, <1>2, EvaluateFields
<1>5. rec.catalog = CatalogOf[runtime.gen]
  BY DEF Record
<1> HIDE DEF p, rec
<1>6. p.catalog = CatalogOf[runtime.gen]
  BY <1>3, <1>4, <1>5 DEF Unmixed, CatalogHeld
<1>7. RecordsOf(root'[pointer].wal) = Append(old, rec)
  BY <1>1, <1>2 DEF SoundRoots
<1>8. Append(old, rec) = old \o <<rec>> /\ Append(runtime.recent, rec) = runtime.recent \o <<rec>>
  BY <1>1, <1>2, AppendIsConcat
<1> DEFINE recs == <<rec>>
<1>9. recs \in Seq(Records) /\ \A i \in DOMAIN recs : recs[i].gen = pointer /\ n < recs[i].cursor
                                                    /\ recs[i].cursor <= n + 1
  <2>1. recs \in Seq(Records) /\ Len(recs) = 1 /\ recs[1] = rec
    BY <1>2, OneSeq
  <2> HIDE DEF recs
  <2>2. DOMAIN recs = 1..1
    BY <2>1, LenProperties
  <2>3. QED BY <1>1, <1>2, <2>1, <2>2
<1> HIDE DEF recs, n, old
<1>10. PICK st : Origins(st)
  BY DEF Unmixed
<1>11. /\ Starts(st, pointer, n) /\ old \in Seq(Genuine(st, pointer, n))
       /\ runtime.recent \in Seq(Genuine(st, pointer, n))
       /\ client \in [Clients -> Holding(st)]
  BY <1>10 DEF Origins, n, old
<1>12. n + 1 \in Nat /\ n <= n + 1
  BY <1>1
<1>13. /\ recs \in Seq(Genuine(st, pointer, n + 1))
       /\ old \o recs \in Seq(Genuine(st, pointer, n + 1))
       /\ runtime.recent \o recs \in Seq(Genuine(st, pointer, n + 1))
  BY <1>9, <1>11, <1>12, NewRecords
<1>14. /\ RecordsOf(root'[pointer].wal) \in Seq(Genuine(st, pointer, n + 1))
       /\ runtime'.recent \in Seq(Genuine(st, pointer, n + 1))
       /\ outbox' \in Seq(Genuine(st, pointer, n + 1))
  BY <1>2, <1>7, <1>8, <1>13, RecentType DEF recs
<1>15. runtime'.proj.cursor = n + 1 /\ runtime.proj.cursor <= n + 1
  BY <1>2, <1>4, <1>12 DEF n
<1>16. ~(up' /\ owner' = "prepared") /\ pointer' = pointer /\ client' \in [Clients -> Holding(st)]
  BY <1>3, <1>11
<1>17. Origins(st)'
  BY <1>10, <1>12, <1>14, <1>15, <1>16, GrownOrigins
<1>18. CatalogHeld'
  BY <1>2, <1>6 DEF CatalogHeld
<1>19. QED BY <1>2, <1>3, <1>4, <1>17, <1>18 DEF Unmixed

LEMMA CrashInOpenUnmixed ==
  ASSUME Unmixed, Durable', CrashInOpen
  PROVE Unmixed'
<1> DEFINE p == RecoverProjection(root[pointer], boots)
           W == SeedWrites(root[pointer], p, pointer, root[pointer].manifest)
           old == RecordsOf(root[pointer].wal)
           n == runtime.proj.cursor
<1>1. PICK i \in DOMAIN W.writes :
         /\ root' = [root EXCEPT ![pointer] = W.writes[i]]
         /\ runtime' = [runtime EXCEPT !.gen = pointer, !.proj = Replay(p, SubSeq(W.recs, 1,
                          IF i < Len(W.recs) THEN i ELSE Len(W.recs)), boots)]
  BY DEF CrashInOpen
<1>2. /\ up' = FALSE /\ client' = [c \in Clients |-> Dropped(client[c])]
      /\ UNCHANGED <<pointer, boots, published, active, outbox>>
  BY DEF CrashInOpen, Die
<1>3. /\ p \in Projection /\ Seeds(W, root[pointer], p, pointer, boots)
      /\ Agree(p, runtime.proj)
  BY OpenStep DEF Unmixed
<1>4. p.cursor = n /\ n \in Nat
  BY <1>3, DurableFields DEF Agree, Unmixed
<1> HIDE DEF p, W
<1> DEFINE l == IF i < Len(W.recs) THEN i ELSE Len(W.recs)
           done == SubSeq(W.recs, 1, l)
           q == Replay(p, done, boots)
           S == W.writes[i]
<1>5. /\ q \in Projection /\ Sound(S, q) /\ RecordsOf(S.wal) = old \o done
      /\ W.recs \in Seq(Records) /\ W.writes \in Seq(Roots)
      /\ \A j \in DOMAIN W.recs : W.recs[j].gen = pointer /\ W.recs[j].cursor = p.cursor + j
  BY <1>1, <1>3 DEF Seeds, BringsUp, SoundRoots, SeedRecords
<1>6. /\ done \in Seq(Records) /\ Len(done) = l /\ l \in 0..Len(W.recs)
      /\ \A j \in 1..l : done[j] = W.recs[j] /\ j \in DOMAIN W.recs
  <2>1. /\ Len(W.recs) \in Nat /\ DOMAIN W.recs = 1..Len(W.recs) /\ DOMAIN W.writes = 1..Len(W.writes)
        /\ Len(W.writes) \in Nat /\ \A j \in 1..Len(W.recs) : W.recs[j] \in Records
    BY <1>5, LenProperties, ElementOfSeq
  <2>2. l \in 0..Len(W.recs)
    BY <1>1, <2>1
  <2> HIDE DEF l
  <2>3. \A j \in 1..l : j \in 1..Len(W.recs) /\ W.recs[j] \in Records
    BY <2>1, <2>2
  <2>4. done \in Seq(Records) /\ Len(done) = l /\ \A j \in 1..l : done[j] = W.recs[j]
    BY <2>1, <2>2, <2>3, SubSeqProperties
  <2>5. QED BY <2>1, <2>2, <2>3, <2>4
<1>7. Replay(p, <<>>, boots) = p
  BY <1>3, DurableFields, ReplayNone DEF Unmixed
<1>8. root' = [root EXCEPT ![pointer] = S] /\ runtime' = [runtime EXCEPT !.gen = pointer, !.proj = q]
  BY <1>1
<1>9. old \in Seq(Records) /\ pointer \in Generations /\ root \in [Generations -> Roots]
      /\ runtime \in Runtimes
  BY DurableFields DEF Unmixed
<1>10. /\ RecordsOf(root'[pointer].wal) = old \o done /\ runtime'.proj = q
       /\ runtime'.recent = runtime.recent
  BY <1>5, <1>8, <1>9 DEF Runtimes
<1> HIDE DEF l
<1>11. q.cursor \in Nat
  BY <1>5 DEF Projection
<1>12. done = <<>> => q = p
  BY <1>7
<1> HIDE DEF done, q, S, old, n
<1>13. \A j \in 1..Len(done) : done[j].gen = pointer /\ done[j].cursor = n + j
                               /\ done[j].cursor <= q.cursor
  <2> SUFFICES ASSUME NEW j \in 1..Len(done)
               PROVE done[j].gen = pointer /\ done[j].cursor = n + j /\ done[j].cursor <= q.cursor
    OBVIOUS
  <2>1. done[j].gen = pointer /\ done[j].cursor = n + j
    BY <1>4, <1>5, <1>6
  <2>2. \A k \in DOMAIN (old \o done) : (old \o done)[k].cursor <= q.cursor
    BY <1>5 DEF Sound, Ends
  <2>3. /\ Len(old) \in Nat /\ Len(done) \in Nat
        /\ old \o done \in Seq(Records) /\ Len(old \o done) = Len(old) + Len(done)
        /\ \A k \in 1..Len(old) + Len(done) :
             (old \o done)[k] = IF k <= Len(old) THEN old[k] ELSE done[k - Len(old)]
    BY <1>6, <1>9, LenProperties, ConcatProperties
  <2>4. DOMAIN (old \o done) = 1..Len(old) + Len(done)
    BY <2>3, LenProperties
  <2>5. Len(old) + j \in 1..Len(old) + Len(done) /\ ~(Len(old) + j <= Len(old))
        /\ (Len(old) + j) - Len(old) = j
    BY <2>3
  <2>6. QED BY <2>1, <2>2, <2>3, <2>4, <2>5
<1>14. n <= q.cursor
  <2>1. CASE done = <<>>
    BY <1>4, <1>12, <2>1
  <2>2. CASE done # <<>>
    <3>1. 1 \in 1..Len(done)
      BY <1>6, <2>2, LenProperties, EmptySeq
    <3>2. QED BY <1>4, <1>11, <1>13, <3>1
  <2>3. QED BY <2>1, <2>2
<1>15. \A j \in DOMAIN done : done[j].gen = pointer /\ n < done[j].cursor /\ done[j].cursor <= q.cursor
  <2>1. DOMAIN done = 1..Len(done) /\ Len(done) \in Nat
    BY <1>6, LenProperties
  <2>2. QED BY <1>4, <1>13, <2>1
<1>16. PICK st : Origins(st)
  BY DEF Unmixed
<1>17. /\ Starts(st, pointer, n) /\ old \in Seq(Genuine(st, pointer, n))
       /\ runtime.recent \in Seq(Genuine(st, pointer, n)) /\ outbox \in Seq(Genuine(st, pointer, n))
  BY <1>16 DEF Origins, n, old
<1>18. old \o done \in Seq(Genuine(st, pointer, q.cursor))
  BY <1>6, <1>11, <1>14, <1>15, <1>17, NewRecords
<1>19. /\ runtime.recent \in Seq(Genuine(st, pointer, q.cursor))
       /\ outbox \in Seq(Genuine(st, pointer, q.cursor))
  BY <1>11, <1>14, <1>17, MoreGenuine
<1>20. client' \in [Clients -> Holding(st)]
  BY <1>2, <1>16, DroppedClients DEF ClientsHold
<1>21. runtime'.proj.cursor = q.cursor /\ runtime.proj.cursor <= q.cursor
  BY <1>10, <1>14 DEF n
<1>22. /\ RecordsOf(root'[pointer].wal) \in Seq(Genuine(st, pointer, q.cursor))
       /\ runtime'.recent \in Seq(Genuine(st, pointer, q.cursor))
       /\ outbox' \in Seq(Genuine(st, pointer, q.cursor))
  BY <1>2, <1>10, <1>18, <1>19
<1>23. Origins(st)'
  BY <1>2, <1>11, <1>16, <1>20, <1>21, <1>22, GrownOrigins
<1>24. QED BY <1>2, <1>23 DEF Unmixed, CatalogHeld

LEMMA OpenUnmixed ==
  ASSUME Unmixed, Durable', Open
  PROVE Unmixed'
<1> DEFINE p == RecoverProjection(root[pointer], boots)
           W == SeedWrites(root[pointer], p, pointer, root[pointer].manifest)
           S == Last(W.writes)
           old == RecordsOf(root[pointer].wal)
           n == runtime.proj.cursor
<1>1. /\ p \in Projection /\ p # None /\ Seeds(W, root[pointer], p, pointer, boots)
      /\ Agree(p, runtime.proj)
  BY OpenStep DEF Unmixed
<1>2. p.cursor = n /\ n \in Nat
  BY <1>1, DurableFields DEF Agree, Unmixed
<1>3. /\ root' = [root EXCEPT ![pointer] = S]
      /\ runtime' = [gen |-> pointer, proj |-> W.proj, manifest |-> W.manifest,
                     recent |-> Recent(RecordsOf(S.wal))]
      /\ published' = W.proj /\ active' = pointer /\ owner' \in {"serving", "refused"}
      /\ UNCHANGED <<pointer, outbox, client>>
  <2>1. /\ owner' = IF p # None /\ W.ok THEN "serving" ELSE "refused"
        /\ IF p = None THEN UNCHANGED <<root, runtime, published, active, dirty>>
           ELSE /\ root' = [root EXCEPT ![pointer] = S]
                /\ runtime' = [gen |-> pointer, proj |-> W.proj, manifest |-> W.manifest,
                               recent |-> Recent(RecordsOf(S.wal))]
                /\ published' = W.proj /\ active' = pointer /\ dirty' = FALSE
        /\ UNCHANGED <<pointer, boots, candidate, outbox, switches, client>>
    BY DEF Open
  <2> HIDE DEF p, W, S
  <2>2. QED BY <1>1, <2>1
<1> HIDE DEF p, W
<1>4. /\ S \in SoundRoots(W.proj, old \o W.recs) /\ W.recs \in Seq(Records)
      /\ W.proj \in Projection /\ W.proj.catalog = CatalogOf[pointer]
      /\ W.proj.cursor = p.cursor + Len(W.recs)
      /\ \A j \in DOMAIN W.recs : W.recs[j].gen = pointer /\ W.recs[j].cursor = p.cursor + j
  BY <1>1 DEF Seeds, SeedRecords
<1> HIDE DEF S
<1>5. pointer \in Generations /\ root \in [Generations -> Roots] /\ pointer \in Nat
  BY DurableFields DEF Unmixed
<1>6. root'[pointer] = S /\ RecordsOf(S.wal) = old \o W.recs
  BY <1>3, <1>4, <1>5 DEF SoundRoots
<1>7. /\ runtime'.gen = pointer /\ runtime'.proj = W.proj
      /\ runtime'.recent = Recent(old \o W.recs)
  BY <1>3, <1>6
<1> DEFINE n2 == W.proj.cursor
           recs == W.recs
<1>8. Len(recs) \in Nat /\ DOMAIN recs = 1..Len(recs) /\ n2 = n + Len(recs)
  BY <1>2, <1>4, LenProperties
<1>9. n2 \in Nat /\ n <= n2
  BY <1>2, <1>8
<1>10. \A j \in DOMAIN recs : recs[j].gen = pointer /\ n < recs[j].cursor /\ recs[j].cursor <= n2
  BY <1>2, <1>4, <1>8
<1>11. recs \in Seq(Records)
  BY <1>4
<1> HIDE DEF n, n2, recs, old
<1>12. PICK st : Origins(st)
  BY DEF Unmixed
<1>13. /\ Starts(st, pointer, n) /\ old \in Seq(Genuine(st, pointer, n))
       /\ outbox \in Seq(Genuine(st, pointer, n)) /\ client \in [Clients -> Holding(st)]
  BY <1>12 DEF Origins, n, old
<1>14. old \o recs \in Seq(Genuine(st, pointer, n2))
  BY <1>9, <1>10, <1>11, <1>13, NewRecords
<1>15. outbox \in Seq(Genuine(st, pointer, n2))
  BY <1>9, <1>13, MoreGenuine
<1>16. /\ RecordsOf(root'[pointer].wal) \in Seq(Genuine(st, pointer, n2))
       /\ runtime'.recent \in Seq(Genuine(st, pointer, n2))
       /\ outbox' \in Seq(Genuine(st, pointer, n2))
  BY <1>3, <1>6, <1>7, <1>14, <1>15, RecentType DEF recs
<1>17. /\ runtime'.proj.cursor = n2 /\ runtime.proj.cursor <= n2 /\ pointer' = pointer
       /\ client' \in [Clients -> Holding(st)] /\ ~(up' /\ owner' = "prepared")
  BY <1>3, <1>7, <1>9, <1>13 DEF n, n2
<1>18. Origins(st)'
  BY <1>9, <1>12, <1>16, <1>17, GrownOrigins
<1>19. QED BY <1>3, <1>4, <1>5, <1>7, <1>18 DEF Unmixed, CatalogHeld

-----------------------------------------------------------------------------
(* The switch.                                                             *)

\* The catalogs of successive generations differ.
CatalogsDiffer == \A g \in Generations : g + 1 \in Generations => CatalogOf[g] # CatalogOf[g + 1]

\* The records that seed the next generation begin with its catalog.
LEMMA SeedGenuine ==
  ASSUME NEW st, NEW ptr, NEW n, Starts(st, ptr, n), NEW recs \in Seq(Records), recs # <<>>,
         \A i \in DOMAIN recs : recs[i].gen = ptr + 1 /\ recs[i].cursor = n + i,
         recs[1].kind = "catalog", NEW n2, n2 = n + Len(recs)
  PROVE /\ n2 \in Nat /\ n < n2
        /\ recs \in Seq(Genuine(Begun(st, ptr, n), ptr + 1, n2))
<1> DEFINE new == Begun(st, ptr, n)
           V == Genuine(new, ptr + 1, n2)
<1>1. Len(recs) \in Nat \ {0} /\ DOMAIN recs = 1..Len(recs)
  BY LenProperties, EmptySeq
<1>2. ptr \in Nat \ {0} /\ n \in Nat
  BY DEF Starts
<1>3. n2 \in Nat /\ n < n2
  BY <1>1, <1>2
<1>4. ptr + 1 \in 1..(ptr + 1) /\ new[ptr + 1] = n /\ Until(new, ptr + 1, n2, ptr + 1) = n2
  BY <1>2 DEF Begun, Until
<1> HIDE DEF new
<1>5. ASSUME NEW i \in 1..Len(recs) PROVE recs[i] \in V
  <2>1. recs[i] \in Records /\ recs[i].gen = ptr + 1 /\ recs[i].cursor = n + i
    BY <1>1, ElementOfSeq
  <2>2. n < n + i /\ n + i <= n2 /\ (n + i = n + 1 => i = 1)
    BY <1>1, <1>2
  <2>3. recs[i].cursor = n + 1 => recs[i].kind = "catalog"
    BY <2>1, <2>2
  <2>4. QED BY <1>4, <2>1, <2>2, <2>3 DEF Genuine
<1> HIDE DEF V
<1>6. recs \in Seq(V)
  BY <1>1, <1>5
<1>7. QED BY <1>3, <1>6 DEF V, new

LEMMA PrepareSwitchUnmixed ==
  ASSUME CatalogsDiffer, Unmixed, Durable', PrepareSwitch
  PROVE Unmixed'
<1> DEFINE g == Head(switches)
           P == Prepare(g)
           n == runtime.proj.cursor
           H == Held(runtime.gen, runtime.proj, RecordsOf(root[runtime.gen].wal))
<1>1. /\ up /\ owner \in {"serving", "waiting"} /\ switches # <<>>
      /\ UNCHANGED <<pointer, boots, up, published, active, outbox, client>>
      /\ IF g = active + 1
         THEN /\ root' = Last(P.writes) /\ candidate' = P.runtime
              /\ runtime' = [runtime EXCEPT !.manifest = P.manifest]
              /\ owner' = IF P.runtime = None THEN "waiting" ELSE "prepared"
         ELSE owner' = "waiting" /\ UNCHANGED <<root, candidate, runtime>>
  BY DEF PrepareSwitch, process
<1> HIDE DEF P, H
<1>2. g \in Generations
  BY <1>1, HeadTailProperties DEF Unmixed, Durable, TypeOK
<1> HIDE DEF g
<1>3. /\ runtime \in Runtimes /\ runtime.gen = pointer /\ pointer \in Generations /\ pointer \in Nat
      /\ runtime.proj \in Projection /\ n \in Nat
  BY DurableFields DEF Unmixed
<1>4. ClientsHold
  BY <1>1, SameClients
<1>5. CASE g = active + 1
  <2>1. /\ P.writes \in Seq(H) /\ P.writes # <<>> /\ active = runtime.gen /\ g # runtime.gen
        /\ P.runtime # None => CandidateOf(P.runtime, runtime, g, Last(P.writes)[g])
    BY <1>1, <1>2, <1>5, PrepareStep DEF P, H, Unmixed
  <2>2. root' = Last(P.writes) /\ root' \in H
    BY <1>1, <1>5, <2>1, LastIn
  <2>3. RecordsOf(root'[pointer].wal) = RecordsOf(root[pointer].wal)
    BY <1>3, <2>2 DEF H, Held, SoundRoots
  <2>4. runtime'.gen = runtime.gen /\ runtime'.proj = runtime.proj /\ runtime'.recent = runtime.recent
    <3>1. runtime' = [runtime EXCEPT !.manifest = P.manifest]
      BY <1>1, <1>5
    <3>2. QED BY <1>3, <3>1 DEF Runtimes
  <2>5. CASE owner' # "prepared"
    <3>1. StillStep
      BY <1>1, <1>4, <2>3, <2>4, <2>5 DEF StillStep, CandidateKept, Unmixed
    <3>2. QED BY <3>1, StillUnmixed
  <2>6. CASE owner' = "prepared"
    <3>1. CandidateOf(candidate', runtime, g, root'[g]) /\ g = pointer + 1
      BY <1>1, <1>3, <1>5, <2>1, <2>2, <2>6
    <3>2. PICK recs : /\ SeedRecords(recs, runtime.proj, g)
                      /\ candidate'.proj.cursor = n + Len(recs)
                      /\ candidate'.recent = Recent(runtime.recent \o recs)
                      /\ root'[g] \in SoundRoots(candidate'.proj, recs)
      BY <3>1 DEF CandidateOf
    <3>3. candidate'.gen = g /\ candidate'.proj.catalog = CatalogOf[g]
      BY <3>1 DEF CandidateOf
    <3>4. runtime.proj.catalog # CatalogOf[g]
      BY <1>1, <1>2, <1>3, <3>1 DEF Unmixed, CatalogHeld, CatalogsDiffer
    <3>5. /\ recs \in Seq(Records) /\ recs # <<>> /\ recs[1].kind = "catalog"
          /\ \A i \in DOMAIN recs : recs[i].gen = pointer + 1 /\ recs[i].cursor = n + i
      BY <3>1, <3>2, <3>4 DEF SeedRecords
    <3>6. PICK st : Origins(st)
      BY DEF Unmixed
    <3>7. Starts(st, pointer, n) /\ runtime.recent \in Seq(Genuine(st, pointer, n))
      BY <3>6 DEF Origins
    <3> DEFINE n2 == n + Len(recs)
               V == Genuine(Begun(st, pointer, n), pointer + 1, n2)
    <3>8. n2 \in Nat /\ n < n2 /\ recs \in Seq(V)
      BY <3>5, <3>7, SeedGenuine
    <3>9. runtime.recent \in Seq(V)
      <4>1. Genuine(st, pointer, n) \subseteq V
        BY <3>7, <3>8, SwitchKeeps DEF Keeps
      <4> HIDE DEF V
      <4>2. QED BY <3>7, <4>1, SeqGrows
    <3>10. candidate'.recent \in Seq(V)
      <4> HIDE DEF V
      <4>1. runtime.recent \o recs \in Seq(V)
        BY <3>8, <3>9, ConcatProperties
      <4>2. QED BY <3>2, <4>1, RecentType
    <3>11. RecordsOf(root'[g].wal) = recs
      BY <3>2 DEF SoundRoots
    <3>12. Forked(st)'
      <4>1. /\ candidate'.gen = pointer' + 1 /\ runtime'.proj.cursor < candidate'.proj.cursor
            /\ candidate'.proj.catalog = CatalogOf[candidate'.gen]
        BY <1>1, <2>4, <3>1, <3>2, <3>3, <3>8
      <4>2. pointer' = pointer /\ runtime'.proj.cursor = n /\ candidate'.proj.cursor = n2
            /\ RecordsOf(root'[candidate'.gen].wal) = recs
        BY <1>1, <2>4, <3>2, <3>3, <3>11
      <4>3. /\ candidate'.recent \in Seq(Genuine(Begun(st, pointer', runtime'.proj.cursor),
                                                 pointer' + 1, candidate'.proj.cursor))
            /\ RecordsOf(root'[candidate'.gen].wal)
                 \in Seq(Genuine(Begun(st, pointer', runtime'.proj.cursor),
                                 pointer' + 1, candidate'.proj.cursor))
        BY <3>8, <3>10, <4>2
      <4>4. QED BY <4>1, <4>3 DEF Forked
    <3>13. Holding(st)' = Holding(st)
      BY <1>1, <2>4 DEF Holding
    <3>14. Origins(st)'
      BY <1>1, <2>3, <2>4, <3>6, <3>12, <3>13 DEF Origins
    <3>15. CatalogHeld'
      BY <1>1, <2>4 DEF CatalogHeld, Unmixed
    <3>16. QED BY <1>1, <3>14, <3>15 DEF Unmixed
  <2>7. QED BY <2>5, <2>6
<1>6. CASE g # active + 1
  <2>1. owner' = "waiting" /\ UNCHANGED <<root, candidate, runtime>>
    BY <1>1, <1>6
  <2>2. StillStep
    BY <1>1, <1>4, <2>1 DEF StillStep, CandidateKept, Unmixed
  <2>3. QED BY <2>2, StillUnmixed
<1>7. QED BY <1>5, <1>6

LEMMA CommitUnmixed ==
  ASSUME "audit" \notin Faults, Unmixed, Durable', CommitSwitch
  PROVE Unmixed'
<1> DEFINE n == runtime.proj.cursor
           n2 == candidate.proj.cursor
<1>1. /\ root' \in [Generations -> Roots]
      /\ root'[runtime.gen] \in SoundRoots(runtime.proj, RecordsOf(root[runtime.gen].wal))
      /\ \A h \in Generations : h # runtime.gen => root'[h] = root[h]
      /\ \/ /\ owner' = "swapped" /\ pointer' = candidate.gen /\ runtime' = candidate
         \/ /\ owner' = "waiting" /\ UNCHANGED <<pointer, runtime>>
            /\ root'[runtime.gen].manifest = runtime.manifest
  BY CommitStep DEF Unmixed
<1>2. /\ up /\ owner = "prepared" /\ UNCHANGED <<boots, up, active, published, outbox, switches, client>>
  BY DEF CommitSwitch, process
<1>3. runtime.gen = pointer /\ n \in Nat
  BY DurableFields DEF Unmixed
<1>4. CASE owner' = "swapped" /\ pointer' = candidate.gen /\ runtime' = candidate
  <2>1. candidate \in Runtimes /\ candidate.gen # runtime.gen /\ candidate.gen \in Generations
    BY <1>2, RuntimeFields DEF Unmixed, Durable
  <2>2. root'[candidate.gen] = root[candidate.gen]
    BY <1>1, <2>1
  <2>3. n2 \in Nat
    BY <2>1, RuntimeFields DEF Projection
  <2>4. PICK st : Origins(st)
    BY DEF Unmixed
  <2>50. PICK new : new = Begun(st, pointer, n)
    OBVIOUS
  <2> DEFINE V == Genuine(st, pointer, n)
             W == Genuine(new, pointer + 1, n2)
  <2>5. /\ Starts(st, pointer, n) /\ outbox \in Seq(V) /\ client \in [Clients -> Seen(st, pointer, n)]
    BY <2>4 DEF Origins, Holding
  <2>6. /\ candidate.gen = pointer + 1 /\ n < n2 /\ candidate.proj.catalog = CatalogOf[candidate.gen]
        /\ candidate.recent \in Seq(W) /\ RecordsOf(root[candidate.gen].wal) \in Seq(W)
    BY <1>2, <2>4, <2>50 DEF Origins, Forked
  <2>7. Keeps(st, pointer, n, new, pointer + 1, n2)
    BY <2>3, <2>5, <2>50, <2>6, SwitchKeeps
  <2>8. Starts(new, pointer + 1, n2) /\ V \subseteq W
    BY <2>7 DEF Keeps
  <2> HIDE DEF n
  <2>9. ASSUME NEW c \in Clients PROVE client[c] \in Seen(new, pointer + 1, n2)
    <3>1. client[c] \in Seen(st, pointer, n)
      BY <2>5
    <3> HIDE DEF n2
    <3>2. QED BY <2>7, <3>1, SeenKeeps
  <2>10. client' \in [Clients -> Seen(new, pointer + 1, n2)]
    BY <1>2, <2>5, <2>9
  <2>11. outbox' \in Seq(W)
    <3> HIDE DEF V, W
    <3>1. QED BY <1>2, <2>5, <2>8, SeqGrows
  <2>12. pointer' = pointer + 1 /\ runtime'.proj.cursor = n2 /\ runtime'.recent = candidate.recent
    BY <1>4, <2>6
  <2>13. RecordsOf(root'[pointer'].wal) \in Seq(W)
    BY <1>4, <2>2, <2>6
  <2>14. Holding(new)' = Seen(new, pointer + 1, n2)
    BY <2>12 DEF Holding
  <2>15. Forked(new)'
    BY <1>4 DEF Forked
  <2>16. Origins(new)'
    BY <2>6, <2>8, <2>10, <2>11, <2>12, <2>13, <2>14, <2>15 DEF Origins
  <2>17. CatalogHeld'
    BY <1>4, <2>6 DEF CatalogHeld
  <2>18. QED BY <1>2, <2>16, <2>17 DEF Unmixed
<1>5. CASE owner' = "waiting" /\ UNCHANGED <<pointer, runtime>>
  <2>1. RecordsOf(root'[pointer].wal) = RecordsOf(root[pointer].wal)
    BY <1>1, <1>3 DEF SoundRoots
  <2>2. ClientsHold
    BY <1>2, SameClients
  <2>3. StillStep
    BY <1>2, <1>5, <2>1, <2>2 DEF StillStep, CandidateKept, Unmixed
  <2>4. QED BY <2>3, StillUnmixed
<1>6. QED BY <1>1, <1>4, <1>5

\* The catalog events of a committed generation.
LEMMA SendCatalogUnmixed ==
  ASSUME Unmixed, Durable', SendCatalog
  PROVE Unmixed'
<1> DEFINE catalogs == {rec \in Range(runtime.recent) : rec.kind = "catalog" /\ rec.gen = runtime.gen}
           recs == Kept(runtime.recent, catalogs)
<1>1. /\ Send(recs) /\ owner' = "serving"
      /\ UNCHANGED <<root, pointer, up, runtime, candidate, published, active, outbox>>
  BY DEF SendCatalog, disk, process
<1>2. ASSUME NEW st, Origins(st) PROVE recs \in Seq(Genuine(st, pointer, runtime.proj.cursor))
  <2> DEFINE V == Genuine(st, pointer, runtime.proj.cursor)
  <2>1. runtime.recent \in Seq(V)
    BY <1>2 DEF Origins
  <2> HIDE DEF V, catalogs
  <2>2. recs \in Seq(V \cap catalogs)
    BY <2>1, KeptMembers
  <2> HIDE DEF recs
  <2>3. recs \in Seq(V)
    BY <2>2, SeqGrows
  <2>4. QED BY <2>3 DEF V
<1> HIDE DEF recs
<1>3. ClientsHold
  BY <1>1, <1>2, SentClients
<1>4. QuietUnmixedStep
  BY <1>1, <1>3 DEF QuietUnmixedStep
<1>5. QED BY <1>4, QuietUnmixed

LEMMA NextUnmixed ==
  ASSUME "late" \notin Kinds, "audit" \notin Faults, CatalogsDiffer, Unmixed, [Next]_vars
  PROVE Unmixed'
<1> USE DEF disk, process, memory
<1>0. Durable'
  BY NextDurable DEF Unmixed
<1>1. CASE Start
  <2>1. up = FALSE /\ UNCHANGED <<root, pointer, up, runtime, published, active, client>>
        /\ outbox' = <<>>
    BY <1>1 DEF Start, Unmixed, Durable, TypeOK
  <2>2. CandidateKept
    BY <2>1 DEF CandidateKept
  <2>3. StillStep
    BY <2>1, <2>2, SameClients DEF StillStep, Unmixed
  <2>4. QED BY <1>0, <2>3, StillUnmixed
<1>2. CASE Open
  BY <1>0, <1>2, OpenUnmixed
<1>3. CASE Shutdown
  <2>1. up /\ up' = FALSE /\ owner' = "stopped" /\ owner \notin {"swapped", "stored"}
        /\ UNCHANGED <<pointer, candidate, active, outbox>>
        /\ client' = [c \in Clients |-> Dropped(client[c])]
    BY <1>3 DEF Shutdown
  <2>2. ClientsHold
    BY <2>1, DroppedClients
  <2>3. CASE owner = "serving"
    <3>1. PICK ok \in BOOLEAN : CheckpointRuntime(ok)
      BY <1>3, <2>3 DEF Shutdown
    <3>2. OwnerKept
      BY <2>1 DEF OwnerKept
    <3>3. QED BY <1>0, <2>1, <2>2, <3>1, <3>2, CheckpointUnmixed
  <2>4. CASE owner # "serving"
    <3>1. UNCHANGED <<root, runtime, published>>
      BY <1>3, <2>4 DEF Shutdown
    <3>2. CandidateKept
      BY <2>1 DEF CandidateKept
    <3>3. StillStep
      BY <2>1, <2>2, <3>1, <3>2 DEF StillStep, Unmixed
    <3>4. QED BY <1>0, <3>3, StillUnmixed
  <2>5. QED BY <2>3, <2>4
<1>4. CASE Crash
  BY <1>0, <1>4, DieUnmixed DEF Crash
<1>5. CASE CrashInOpen \/ CrashInCheckpoint \/ CrashInPrepare
  BY <1>0, <1>5, CrashInOpenUnmixed, CrashInCheckpointUnmixed, CrashInPrepareUnmixed
<1>6. CASE OwnerStep
  <2>1. ASSUME NEW kind \in Kinds, ApplyFrames(kind) PROVE Unmixed'
    BY <1>0, <2>1, ApplyUnmixed DEF ApplyFrames
  <2>2. CASE RefreshQuarantines \/ RefreshRecovers
    <3>1. PICK kind \in {"book", "gap"} : ApplyRaw(kind)
      BY <2>2 DEF RefreshQuarantines, RefreshRecovers, RecoverySnapshot
    <3>2. QED BY <1>0, <3>1, ApplyUnmixed
  <2>3. CASE AppendFails \/ TransportEnds
    <3>1. PICK ok \in BOOLEAN : CheckpointRuntime(ok)
      BY <2>3 DEF AppendFails, TransportEnds
    <3>2. /\ up /\ owner = "serving" /\ owner' = "waiting"
          /\ UNCHANGED <<pointer, candidate, active, outbox, client>>
      BY <2>3 DEF AppendFails, TransportEnds
    <3>3. OwnerKept /\ ClientsHold
      BY <3>2, SameClients DEF OwnerKept
    <3>4. QED BY <1>0, <3>1, <3>2, <3>3, CheckpointUnmixed
  <2>4. CASE Publish
    <3>1. /\ up /\ Send(outbox) /\ outbox' = <<>> /\ UNCHANGED <<pointer, up, candidate, active>>
      BY <2>4 DEF Publish
    <3>2. ClientsHold
      BY <3>1, SentClients DEF Origins
    <3>3. ~\E i \in DOMAIN outbox : outbox[i].kind = "late"
      <4>1. ASSUME NEW i \in DOMAIN outbox PROVE outbox[i].kind # "late"
        <5>1. outbox[i] \in Records
          BY LenProperties, ElementOfSeq DEF Unmixed, Durable, TypeOK
        <5>2. QED BY <5>1 DEF Records, AllKinds
      <4>2. QED BY <4>1
    <3>4. UNCHANGED <<root, runtime, published>> /\ owner' = owner
      BY <2>4, <3>3 DEF Publish
    <3>5. QuietUnmixedStep
      BY <3>1, <3>2, <3>4 DEF QuietUnmixedStep
    <3>6. QED BY <1>0, <3>5, QuietUnmixed
  <2>5. CASE CheckpointTick
    <3>1. PICK ok \in BOOLEAN : CheckpointRuntime(ok) /\ owner' = IF ok THEN owner ELSE "stopped"
      BY <2>5 DEF CheckpointTick
    <3>2. /\ up /\ owner = "serving" /\ UNCHANGED <<pointer, candidate, active, outbox, client>>
      BY <2>5 DEF CheckpointTick
    <3>3. OwnerKept /\ ClientsHold
      BY <3>1, <3>2, SameClients DEF OwnerKept
    <3>4. QED BY <1>0, <3>1, <3>2, <3>3, CheckpointUnmixed
  <2>6. CASE Retry
    <3>1. /\ owner' = "serving"
          /\ UNCHANGED <<root, pointer, up, runtime, candidate, published, active, outbox, client>>
      BY <2>6 DEF Retry
    <3>2. QuietUnmixedStep
      BY <3>1, SameClients DEF QuietUnmixedStep
    <3>3. QED BY <1>0, <3>2, QuietUnmixed
  <2>7. CASE PrepareSwitch
    BY <1>0, <2>7, PrepareSwitchUnmixed
  <2>8. CASE CommitSwitch
    BY <1>0, <2>8, CommitUnmixed
  <2>9. CASE StoreProjection
    <3>1. /\ owner' = "stored" /\ published' = runtime.proj
          /\ UNCHANGED <<root, pointer, up, runtime, candidate, active, outbox, client>>
      BY <2>9 DEF StoreProjection
    <3>2. QuietUnmixedStep
      BY <3>1, SameClients DEF QuietUnmixedStep
    <3>3. QED BY <1>0, <3>2, QuietUnmixed
  <2>10. CASE StoreScope
    <3>1. /\ owner' = "activated" /\ active' = runtime.gen
          /\ UNCHANGED <<root, pointer, up, runtime, candidate, published, outbox, client>>
      BY <2>10 DEF StoreScope
    <3>2. QuietUnmixedStep
      BY <3>1, SameClients DEF QuietUnmixedStep
    <3>3. QED BY <1>0, <3>2, QuietUnmixed
  <2>11. CASE SendCatalog
    BY <1>0, <2>11, SendCatalogUnmixed
  <2>12. QED BY <1>6, <2>1, <2>2, <2>3, <2>4, <2>5, <2>6, <2>7, <2>8, <2>9, <2>10, <2>11 DEF OwnerStep
<1>7. CASE AdminCheckpoint
  <2>1. PICK ok \in BOOLEAN : CheckpointRuntime(ok)
    BY <1>7 DEF AdminCheckpoint
  <2>2. /\ up /\ owner' = owner /\ UNCHANGED <<pointer, candidate, active, outbox, client>>
    BY <1>7 DEF AdminCheckpoint
  <2>3. OwnerKept /\ ClientsHold
    BY <2>2, SameClients DEF OwnerKept
  <2>4. QED BY <1>0, <2>1, <2>2, <2>3, CheckpointUnmixed
<1>8. ASSUME NEW g \in Generations, RequestSwitch(g) PROVE Unmixed'
  <2>1. /\ owner' = owner
        /\ UNCHANGED <<root, pointer, up, runtime, candidate, published, active, outbox, client>>
    BY <1>8 DEF RequestSwitch
  <2>2. QuietUnmixedStep
    BY <2>1, SameClients DEF QuietUnmixedStep
  <2>3. QED BY <1>0, <2>2, QuietUnmixed
<1>9. ASSUME NEW c \in Clients, ClientStep(c) PROVE Unmixed'
  <2>1. ClientsHold /\ UNCHANGED <<disk, process, memory>>
    BY <1>9, SteppedClients
  <2>2. QuietUnmixedStep
    BY <2>1 DEF QuietUnmixedStep
  <2>3. QED BY <1>0, <2>2, QuietUnmixed
<1>10. CASE UNCHANGED vars
  <2>1. /\ owner' = owner
        /\ UNCHANGED <<root, pointer, up, runtime, candidate, published, active, outbox, client>>
    BY <1>10 DEF vars
  <2>2. QuietUnmixedStep
    BY <2>1, SameClients DEF QuietUnmixedStep
  <2>3. QED BY <1>0, <2>2, QuietUnmixed
<1>11. QED BY <1>1, <1>2, <1>3, <1>4, <1>5, <1>6, <1>7, <1>8, <1>9, <1>10 DEF Next

\* No interleaving of the switch with a client's capture, replay, lag and
\* reconnects streams a record of another generation than the one it holds.
THEOREM NeverMixed ==
  ASSUME "late" \notin Kinds, "audit" \notin Faults, CatalogsDiffer
  PROVE Spec => []GenerationsNotMixed
<1>1. Init => Unmixed
  BY InitUnmixed
<1>2. Unmixed /\ [Next]_vars => Unmixed'
  BY NextUnmixed
<1>3. Unmixed => GenerationsNotMixed
  <2> SUFFICES ASSUME Unmixed, NEW c \in Clients PROVE client[c].seen = client[c].gen
    BY DEF GenerationsNotMixed
  <2>1. PICK st : Origins(st)
    BY DEF Unmixed
  <2>2. client[c] \in Holding(st)
    BY <2>1 DEF Origins
  <2>3. QED BY <2>2, HoldingFields DEF Follows
<1>4. QED BY <1>1, <1>2, <1>3, PTL DEF Spec

=============================================================================
