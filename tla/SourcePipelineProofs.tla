------------------------ MODULE SourcePipelineProofs ------------------------
(***************************************************************************)
(* Proofs about SourcePipeline: its three safety invariants hold for every *)
(* set of tokens, every capacity and every number of faults.               *)
(*                                                                         *)
(* The handlers compose calls as functions of the state record Now, so the *)
(* inductive invariant is a predicate of that record, and there is a lemma *)
(* for each call: a state in which it holds is taken to one in which it    *)
(* holds.  It is written per token and over the parts it relates:          *)
(*   - Typed: the shape of the record;                                     *)
(*   - AgesOK: where a book from before the last barrier may still be;     *)
(*   - MirrorsOK: how the owner's router, the control record and the       *)
(*     reducer differ by what is queued, reduced or on its way;            *)
(*   - ServedOK: what restores a token that is not served.                 *)
(***************************************************************************)
EXTENDS SourcePipeline, Integers, FiniteSetsExt, SequencesExt, FiniteSetTheorems,
        SequenceTheorems, WellFoundedInduction, TLAPS

-----------------------------------------------------------------------------
(* Induction over data, in a form that first-order provers can use: the    *)
(* property that is proved by induction is a set, not an operator.         *)

\* A set of numbers has a least one.
LEMMA LeastNat ==
  ASSUME NEW T \in SUBSET Nat, T # {} PROVE \E x \in T : \A y \in T : x <= y
<1> DEFINE R == OpToRel(<, Nat)
<1>1. IsWellFoundedOn(R, Nat)
  BY NatLessThanWellFounded
<1>2. \A x, y \in Nat : <<y, x>> \in R <=> y < x
  BY DEF OpToRel
<1> HIDE DEF R
<1>3. PICK x \in T : \A y \in T : ~ (<<y, x>> \in R)
  BY <1>1, WFMin
<1>4. \A y \in T : ~(y < x)
  BY <1>2, <1>3
<1>5. QED BY <1>4

\* Min and Max are what they say: of a set of numbers, and of one that is bounded.
LEMMA MinIsLeast ==
  ASSUME NEW T \in SUBSET Nat, T # {} PROVE Min(T) \in T /\ \A y \in T : Min(T) <= y
BY LeastNat DEF Min

\* Induction over the numbers.
LEMMA NatSetInduction ==
  ASSUME NEW S, 0 \in S, \A n \in Nat : n \in S => n + 1 \in S
  PROVE Nat \subseteq S
<1> SUFFICES ASSUME Nat \ S # {} PROVE FALSE
  OBVIOUS
<1>1. PICK x \in Nat \ S : \A y \in Nat \ S : x <= y
  BY LeastNat
<1>2. x # 0 /\ x - 1 \in Nat
  BY <1>1
<1>3. x - 1 \in S
  BY <1>1, <1>2
<1>4. QED BY <1>1, <1>2, <1>3

\* A function defined by recursion over an initial segment exists.
LEMMA RecursionExists ==
  ASSUME NEW S, NEW base \in S, NEW N \in Nat, NEW step \in [1..N -> [S -> S]]
  PROVE \E f \in [0..N -> S] : f[0] = base /\ \A i \in 1..N : f[i] = step[i][f[i - 1]]
<1> DEFINE Good(n, f) == f[0] = base /\ \A i \in 1..n : f[i] = step[i][f[i - 1]]
           D == {n \in Nat : n <= N => \E f \in [0..n -> S] : Good(n, f)}
<1>1. 0 \in D
  <2>1. [i \in 0..0 |-> base] \in [0..0 -> S] /\ Good(0, [i \in 0..0 |-> base])
    OBVIOUS
  <2>2. QED BY <2>1
<1>2. ASSUME NEW n \in Nat, n \in D PROVE n + 1 \in D
  <2>1. CASE n + 1 <= N
    <3>1. PICK f \in [0..n -> S] : Good(n, f)
      BY <1>2, <2>1
    <3> DEFINE g == [i \in 0..(n + 1) |-> IF i <= n THEN f[i] ELSE step[n + 1][f[n]]]
    <3>2. n + 1 \in 1..N /\ f[n] \in S
      BY <2>1
    <3>3. step[n + 1][f[n]] \in S
      BY <3>2
    <3>4. g \in [0..(n + 1) -> S]
      BY <3>3
    <3>5. \A i \in 1..(n + 1) : g[i] = step[i][g[i - 1]]
      <4> SUFFICES ASSUME NEW i \in 1..(n + 1) PROVE g[i] = step[i][g[i - 1]]
        OBVIOUS
      <4>1. CASE i <= n
        BY <3>1, <4>1
      <4>2. CASE i = n + 1
        BY <4>2
      <4>3. QED BY <4>1, <4>2
    <3>6. g[0] = base
      BY <3>1
    <3> HIDE DEF g
    <3>7. QED BY <3>4, <3>5, <3>6
  <2>2. QED BY <2>1
<1> HIDE DEF D
<1>3. N \in D
  BY <1>1, <1>2, NatSetInduction
<1>4. QED BY <1>3 DEF D

Ages == {"none", "fresh", "old", "paused", "witness"}
InputKinds == {"delta", "book", "gap", "bad", "rest", "replacement", "checkpoint"}
Kinds == InputKinds \cup {"none", "barrier"}
IdMap == [Tokens -> Nat]
BookMap == [Tokens -> Ages]
Controls == [gen : Nat, attempts : IdMap, baseline : BOOLEAN, pending : IdMap]
Works == [gen : Nat, kind : Kinds, started : IdMap, books : BookMap, completed : IdMap]
Actors == [gen : Nat, wait : SUBSET Tokens, rec : IdMap, book : BookMap, open : BOOLEAN,
           work : Works]
Inputs == [kind : InputKinds, tokens : SUBSET Tokens, recovery : IdMap, age : Ages \ {"none"},
           gen : Nat]
Completions == [gen : Nat, error : {"none", "capacity", "worker"}, started : IdMap,
                completed : IdMap]
Pubs == [accepting : BOOLEAN, rec : IdMap, book : BookMap, seed : SUBSET Tokens,
         snap : SUBSET Tokens, fenced : BOOLEAN, terminal : BOOLEAN]
Jobs == [on : BOOLEAN, attempts : IdMap, age : BookMap]
States == [control : Controls, router : IdMap, actor : Actors, queue : Seq(Inputs),
           done : Seq(Completions), pub : Pubs, job : Jobs, probe : {"none", "fresh", "old"}]

-----------------------------------------------------------------------------
(* Ages.                                                                   *)

\* A published book from before the barrier is hidden by the recovery it started or by
\* a seed that is still missing.
HiddenIfOld(p) ==
    \A t \in Tokens : p.book[t] = "old" => t \in p.seed \/ (p.rec[t] # None /\ t \notin p.snap)

\* What the reducer holds under the current generation is from after the last barrier.
CurrentIsNew(c, a) ==
    /\ a.gen = c.gen => \A t \in Tokens : a.book[t] # "old"
    /\ a.work.gen = c.gen => \A t \in Tokens : a.work.books[t] # "old"

\* An input from before a barrier that is still current carries attempts that the reducer
\* no longer has, or will not have once it follows the generation.
RecOf(c, a) == IF a.gen = c.gen THEN a.rec ELSE c.attempts
OldIsSuperseded(c, a, q) ==
    \A i \in 1..Len(q) : q[i].gen = c.gen /\ q[i].age = "old" =>
        /\ Held(q[i].recovery) # {}
        /\ \A t \in Held(q[i].recovery) : RecOf(c, a)[t] # q[i].recovery[t]

\* The same of the snapshots of a job; they have an age.
OldJobIsSuperseded(c, a, j) ==
    \A t \in Tokens : j.attempts[t] # None =>
        /\ j.age[t] # "none"
        /\ j.age[t] = "old" => c.attempts[t] # j.attempts[t] /\ RecOf(c, a)[t] # j.attempts[t]

\* The attempts that a reduced input starts are nowhere else yet; it covers the tokens
\* whose recovery it completes.
StartedIsNew(a, r, d, j) ==
    \A t \in Tokens :
        /\ a.work.started[t] # None =>
              /\ a.rec[t] \in {None, a.work.started[t]}
              /\ r[t] # a.work.started[t] /\ j.attempts[t] # a.work.started[t]
              /\ \A i \in 1..Len(d) : d[i].started[t] # a.work.started[t]
        /\ a.work.completed[t] # None => a.work.books[t] # "none"
        /\ a.work.kind \in {"delta", "checkpoint"} =>
              a.work.started[t] = None /\ a.work.completed[t] = None

AgesOK(s) ==
    /\ HiddenIfOld(s.pub)
    /\ CurrentIsNew(s.control, s.actor)
    /\ OldIsSuperseded(s.control, s.actor, s.queue)
    /\ OldJobIsSuperseded(s.control, s.actor, s.job)
    /\ StartedIsNew(s.actor, s.router, s.done, s.job)

-----------------------------------------------------------------------------
(* Mirrors.                                                                *)

\* A completion that the owner will mirror changes a token; to what.
Touches(d, c, t) == /\ d.error = "none" /\ d.gen = c.gen
                    /\ d.started[t] # None \/ d.completed[t] # None
Outcome(d, t) == IF d.completed[t] # None THEN None ELSE d.started[t]

\* The control record is the router after the completions on their way: a token has
\* what the last of them that touches it says.
RouterCatchesUp(c, r, d) ==
    \A t \in Tokens :
        /\ (\A i \in 1..Len(d) : ~Touches(d[i], c, t)) => c.attempts[t] = r[t]
        /\ \A i \in 1..Len(d) :
              Touches(d[i], c, t) /\ (\A k \in (i + 1)..Len(d) : ~Touches(d[k], c, t))
                  => c.attempts[t] = Outcome(d[i], t)

\* The reducer is ahead of the control record by the input it reduced, unless that
\* was refused.
Refusal(d, c) == d.error # "none" /\ d.gen = c.gen
ReducerIsAhead(c, a, d) ==
    a.gen = c.gen /\ (\A i \in 1..Len(d) : ~Refusal(d[i], c)) =>
        \A t \in Tokens : a.rec[t] = Mirrored(c.attempts, a.work)[t]

\* Work under the current generation means that a baseline was admitted.
Admitted(c, a, q, d) ==
    /\ a.work = NoWork \/ a.work.gen = a.gen
    /\ \A i \in 1..Len(q) : q[i].gen = c.gen /\ q[i].kind # "checkpoint" => c.baseline
    /\ a.work # NoWork /\ a.work.gen = c.gen /\ a.work.kind # "checkpoint" => c.baseline
    /\ \A i \in 1..Len(d) : d[i].error = "capacity" /\ d[i].gen = c.gen => c.baseline

MirrorsOK(s) ==
    /\ s.actor.open => /\ RouterCatchesUp(s.control, s.router, s.done)
                       /\ ReducerIsAhead(s.control, s.actor, s.done)
    /\ Admitted(s.control, s.actor, s.queue, s.done)

-----------------------------------------------------------------------------
(* Service.                                                                *)

Clear(p, t) == p.book[t] # "none" /\ t \notin p.seed /\ (p.rec[t] # None => t \in p.snap)

\* While a barrier is pending, every token is in recovery and nothing current is queued.
PendingIsTotal(c, r, a, q, d) ==
    Held(c.pending) # {} =>
        /\ \A t \in Tokens : r[t] # None /\ c.attempts[t] # None
        /\ \A i \in 1..Len(q) : q[i].gen # c.gen
        /\ a.work # NoWork => a.work.gen # c.gen
        /\ \A i \in 1..Len(d) : d[i].error = "none" => d[i].gen # c.gen

\* A full book of the token is queued or reduced under the current generation.
UnderWay(c, a, q, t) ==
    \/ \E i \in 1..Len(q) : /\ q[i].gen = c.gen /\ q[i].kind = "book" /\ t \in q[i].tokens
                            /\ Held(q[i].recovery) = {}
    \/ a.work.gen = c.gen /\ a.work.kind # "checkpoint" /\ a.work.books[t] # "none"

\* What restores a token that is not served; or the socket does, or its snapshot was refused.
Restoring(s, t) ==
    \/ Clear(s.pub, t) \/ s.control.attempts[t] # None \/ ~s.actor.open
    \/ \E i \in 1..Len(s.done) : Refusal(s.done[i], s.control)
    \/ UnderWay(s.control, s.actor, s.queue, t)
Restored(s, t, d) == Restoring(s, t) \/ t \in d.owed \/ t \in d.refused

ServedOK(s) ==
    /\ PendingIsTotal(s.control, s.router, s.actor, s.queue, s.done)
    /\ s.pub.fenced => \E t \in Tokens :
          t \in s.pub.seed \/ s.pub.rec[t] # None \/ s.pub.book[t] = "none"

\* Readers know of no recovery that the control record does not; what they are not
\* served is restored.  Once the market is removed, nothing current is left.
RecKnown(s) == \A t \in Tokens : s.pub.rec[t] # None => s.control.attempts[t] # None
Over(s) == /\ \A i \in 1..Len(s.queue) : s.queue[i].gen # s.control.gen
           /\ s.actor.work # NoWork => s.actor.work.gen # s.control.gen
Leased(s, en, own, d) ==
    /\ own \in {"loop", "pausing", "retiring", "failed", "gone"} /\ en \in BOOLEAN
    /\ d \in [owed : SUBSET Tokens, refused : SUBSET Tokens]
    /\ own = "pausing" => ~en
    /\ s.pub.accepting = en
    /\ ~en => \A t \in Tokens : s.pub.rec[t] = None
    /\ IF own = "gone" THEN Over(s) ELSE RecKnown(s)
    /\ en /\ own = "loop" => \A t \in Tokens : Restored(s, t, d)

StateInv(s) == s \in States /\ AgesOK(s) /\ MirrorsOK(s) /\ ServedOK(s)
Inv == StateInv(Now) /\ Leased(Now, enabled, owner, due)

-----------------------------------------------------------------------------
(* Fresh ids and generations.                                              *)

\* The least number of an interval that is longer than the set is not in the set.
LEMMA Unused ==
  ASSUME NEW U, IsFiniteSet(U), NEW lo \in {0, 1}
  PROVE LET hi == IF lo = 0 THEN Cardinality(U) ELSE Cardinality(U) + 1
            m == Min(lo..hi \ U)
        IN m \in Nat /\ m >= lo /\ m \notin U
<1> DEFINE hi == IF lo = 0 THEN Cardinality(U) ELSE Cardinality(U) + 1
           I == lo..hi
<1>1. Cardinality(U) \in Nat /\ hi \in Nat /\ lo \in Nat
  BY FS_CardinalityType
<1>2. IsFiniteSet(I) /\ Cardinality(I) = Cardinality(U) + 1
  <2>1. lo \in Int /\ hi \in Int
    BY <1>1
  <2>2. IsFiniteSet(I) /\ Cardinality(I) = IF lo > hi THEN 0 ELSE hi - lo + 1
    BY <2>1, FS_Interval
  <2>3. QED BY <1>1, <2>2
<1>3. I \ U # {}
  <2> SUFFICES ASSUME I \subseteq U PROVE FALSE
    OBVIOUS
  <2>1. Cardinality(I) <= Cardinality(U)
    BY FS_Subset
  <2>2. QED BY <1>1, <1>2, <2>1
<1>4. I \ U \in SUBSET Nat
  BY <1>1
<1>5. Min(I \ U) \in I \ U
  BY <1>3, <1>4, MinIsLeast
<1>6. QED BY <1>1, <1>5

\* An image of a finite set is finite, and so is a set of a few.
LEMMA ImageFinite ==
  ASSUME NEW S, IsFiniteSet(S), NEW f PROVE IsFiniteSet({f[x] : x \in S})
<1> DEFINE T == {f[x] : x \in S}
           g == [x \in S |-> f[x]]
<1>1. g \in Surjection(S, T)
  BY DEF Surjection
<1>2. QED BY <1>1, FS_Surjection

LEMMA FewFinite ==
  ASSUME NEW a, NEW b, NEW c, NEW d PROVE IsFiniteSet({a, b, c, d})
<1>1. IsFiniteSet({a}) /\ IsFiniteSet({b}) /\ IsFiniteSet({c}) /\ IsFiniteSet({d})
  BY FS_Singleton
<1>2. IsFiniteSet({a} \cup {b}) /\ IsFiniteSet({c} \cup {d})
  BY <1>1, FS_Union
<1>3. IsFiniteSet(({a} \cup {b}) \cup ({c} \cup {d}))
  BY <1>2, FS_Union
<1>4. {a, b, c, d} = ({a} \cup {b}) \cup ({c} \cup {d})
  OBVIOUS
<1>5. QED BY <1>3, <1>4

\* What the ids of a state are.
LEMMA UsedIdsAre ==
  ASSUME NEW s \in States
  PROVE /\ \A t \in Tokens :
              /\ s.router[t] \in UsedIds(s) /\ s.control.attempts[t] \in UsedIds(s)
              /\ s.actor.rec[t] \in UsedIds(s) /\ s.actor.work.started[t] \in UsedIds(s)
              /\ s.job.attempts[t] \in UsedIds(s)
              /\ \A i \in 1..Len(s.queue) : s.queue[i].recovery[t] \in UsedIds(s)
              /\ \A i \in 1..Len(s.done) : s.done[i].started[t] \in UsedIds(s)
        /\ IsFiniteSet(UsedIds(s))

<1> DEFINE Q == {s.queue[i].recovery : i \in 1..Len(s.queue)}
           D == UNION {{s.done[i].started, s.done[i].completed} : i \in 1..Len(s.done)}
           R == {s.router, s.control.attempts, s.control.pending, s.actor.rec,
                 s.actor.work.started, s.actor.work.completed, s.pub.rec, s.job.attempts}
           V(f) == {f[t] : t \in Tokens}
           F == R \cup Q \cup D
<1>1. UsedIds(s) = UNION {V(f) : f \in F}
  BY Zenon DEF UsedIds
<1>2. \A f \in F : \A t \in Tokens : f[t] \in UsedIds(s)
  <2> HIDE DEF F
  <2>1. QED BY <1>1
<1>3. /\ s.router \in F /\ s.control.attempts \in F /\ s.actor.rec \in F
      /\ s.actor.work.started \in F /\ s.job.attempts \in F
      /\ \A i \in 1..Len(s.queue) : s.queue[i].recovery \in F
      /\ \A i \in 1..Len(s.done) : s.done[i].started \in F
  OBVIOUS
<1>4. IsFiniteSet(F)
  <2>1. Len(s.queue) \in Nat /\ Len(s.done) \in Nat
    BY LenProperties DEF States
  <2>2. IsFiniteSet(1..Len(s.queue)) /\ IsFiniteSet(1..Len(s.done))
    <3>1. 1 \in Int /\ Len(s.queue) \in Int /\ Len(s.done) \in Int
      BY <2>1
    <3>2. QED BY <3>1, FS_Interval
  <2>3. IsFiniteSet(Q)
    <3> DEFINE f == [i \in 1..Len(s.queue) |-> s.queue[i].recovery]
    <3>1. IsFiniteSet({f[i] : i \in 1..Len(s.queue)})
      BY <2>2, ImageFinite
    <3>2. QED BY <3>1
  <2>4. IsFiniteSet(D)
    <3> DEFINE P == {{s.done[i].started, s.done[i].completed} : i \in 1..Len(s.done)}
    <3>1. IsFiniteSet(P)
      <4> DEFINE f == [i \in 1..Len(s.done) |-> {s.done[i].started, s.done[i].completed}]
      <4>1. IsFiniteSet({f[i] : i \in 1..Len(s.done)})
        BY <2>2, ImageFinite
      <4>2. QED BY <4>1
    <3>2. \A p \in P : IsFiniteSet(p)
      <4>1. \A i \in 1..Len(s.done) : IsFiniteSet({s.done[i].started, s.done[i].completed})
        <5> SUFFICES ASSUME NEW i \in 1..Len(s.done)
                     PROVE IsFiniteSet({s.done[i].started, s.done[i].completed})
          OBVIOUS
        <5> DEFINE x == s.done[i].started
                   y == s.done[i].completed
        <5> HIDE DEF x, y
        <5>1. IsFiniteSet({x, x, x, y})
          BY FewFinite
        <5>2. {x, x, x, y} = {x, y}
          OBVIOUS
        <5>3. QED BY <5>1, <5>2 DEF x, y
      <4>2. QED BY <4>1
    <3>3. QED BY <3>1, <3>2, FS_UNION
  <2>5. IsFiniteSet(R)
    <3> DEFINE X == {s.router, s.control.attempts, s.control.pending, s.actor.rec}
               Y == {s.actor.work.started, s.actor.work.completed, s.pub.rec, s.job.attempts}
    <3>1. IsFiniteSet(X) /\ IsFiniteSet(Y)
      BY FewFinite
    <3>2. R = X \cup Y
      OBVIOUS
    <3> HIDE DEF R, X, Y
    <3>3. QED BY <3>1, <3>2, FS_Union
  <2> HIDE DEF Q, D, R
  <2>6. QED BY <2>3, <2>4, <2>5, FS_Union
<1>5. IsFiniteSet(UsedIds(s))
  <2> DEFINE W == {V(f) : f \in F}
  <2> HIDE DEF F
  <2>1. IsFiniteSet(W)
    <3> DEFINE g == [f \in F |-> V(f)]
    <3>1. IsFiniteSet({g[f] : f \in F})
      BY <1>4, ImageFinite
    <3>2. QED BY <3>1
  <2>2. \A w \in W : IsFiniteSet(w)
    <3>1. \A f \in F : IsFiniteSet(V(f))
      <4>1. IsFiniteSet(Tokens)
        BY PipelineAssumption
      <4>2. \A f : IsFiniteSet({f[t] : t \in Tokens})
        BY <4>1, ImageFinite
      <4>3. QED BY <4>2
    <3>2. QED BY <3>1
  <2>3. QED BY <1>1, <2>1, <2>2, FS_UNION
<1> HIDE DEF F
<1>6. QED BY <1>2, <1>3, <1>5

LEMMA FreshIdIs ==
  ASSUME NEW s \in States PROVE FreshId(s) \in Nat \ {0} /\ FreshId(s) \notin UsedIds(s)
<1>1. IsFiniteSet(UsedIds(s))
  BY UsedIdsAre
<1>2. FreshId(s) = Min(1..(Cardinality(UsedIds(s)) + 1) \ UsedIds(s))
  BY DEF FreshId
<1>3. QED
  <2> DEFINE U == UsedIds(s)
             lo == 1
  <2>1. LET hi == IF lo = 0 THEN Cardinality(U) ELSE Cardinality(U) + 1
            m == Min(lo..hi \ U)
        IN m \in Nat /\ m >= lo /\ m \notin U
    <3>1. lo \in {0, 1} /\ IsFiniteSet(U)
      BY <1>1
    <3> HIDE DEF U, lo
    <3>2. QED BY <3>1, Unused
  <2> HIDE DEF U
  <2>2. QED BY <1>2, <2>1 DEF U

\* What the generations of a state are.
LEMMA NextGenIs ==
  ASSUME NEW s \in States
  PROVE /\ NextGen(s) \in Nat
        /\ NextGen(s) # s.control.gen /\ NextGen(s) # s.actor.gen
        /\ NextGen(s) # s.actor.work.gen
        /\ \A i \in 1..Len(s.queue) : NextGen(s) # s.queue[i].gen
        /\ \A i \in 1..Len(s.done) : NextGen(s) # s.done[i].gen
<1> DEFINE U == UsedGens(s)
           lo == 0
           Q == {s.queue[i].gen : i \in 1..Len(s.queue)}
           D == {s.done[i].gen : i \in 1..Len(s.done)}
           C == {s.control.gen, s.actor.gen, s.actor.work.gen}
<1>1. U = C \cup Q \cup D
  BY DEF UsedGens
<1>2. IsFiniteSet(U)
  <2>1. Len(s.queue) \in Nat /\ Len(s.done) \in Nat
    BY LenProperties DEF States
  <2>2. IsFiniteSet(1..Len(s.queue)) /\ IsFiniteSet(1..Len(s.done))
    <3>1. 1 \in Int /\ Len(s.queue) \in Int /\ Len(s.done) \in Int
      BY <2>1
    <3>2. QED BY <3>1, FS_Interval
  <2>3. IsFiniteSet(Q)
    <3> DEFINE f == [i \in 1..Len(s.queue) |-> s.queue[i].gen]
    <3>1. IsFiniteSet({f[i] : i \in 1..Len(s.queue)})
      BY <2>2, ImageFinite
    <3>2. QED BY <3>1
  <2>4. IsFiniteSet(D)
    <3> DEFINE f == [i \in 1..Len(s.done) |-> s.done[i].gen]
    <3>1. IsFiniteSet({f[i] : i \in 1..Len(s.done)})
      BY <2>2, ImageFinite
    <3>2. QED BY <3>1
  <2>5. IsFiniteSet(C)
    <3> DEFINE x == s.control.gen
               y == s.actor.gen
               z == s.actor.work.gen
    <3> HIDE DEF x, y, z
    <3>1. IsFiniteSet({x, x, y, z})
      BY FewFinite
    <3>2. {x, x, y, z} = {x, y, z}
      OBVIOUS
    <3>3. QED BY <3>1, <3>2 DEF x, y, z
  <2> HIDE DEF Q, D, C, U
  <2>6. IsFiniteSet(C \cup Q)
    BY <2>3, <2>5, FS_Union
  <2>7. QED BY <1>1, <2>4, <2>6, FS_Union
<1>3. LET hi == IF lo = 0 THEN Cardinality(U) ELSE Cardinality(U) + 1
          m == Min(lo..hi \ U)
      IN m \in Nat /\ m >= lo /\ m \notin U
  <2>1. lo \in {0, 1}
    OBVIOUS
  <2> HIDE DEF U, lo
  <2>2. QED BY <1>2, <2>1, Unused
<1>4. NextGen(s) = Min(0..Cardinality(U) \ U)
  BY DEF NextGen
<1>5. NextGen(s) \in Nat /\ NextGen(s) \notin U
  <2> HIDE DEF U
  <2>1. QED BY <1>3, <1>4
<1>6. QED BY <1>1, <1>5

-----------------------------------------------------------------------------
(* The calls of the owner: what they leave in each part.                   *)

\* Ageing changes books only.
LEMMA AgeIs ==
  ASSUME NEW s \in States, NEW age \in {"old", "paused"}
  PROVE LET u == Age(s, age)
        IN /\ u \in States
           /\ u.control = s.control /\ u.router = s.router /\ u.done = s.done
           /\ u.actor.gen = s.actor.gen /\ u.actor.wait = s.actor.wait
           /\ u.actor.rec = s.actor.rec /\ u.actor.open = s.actor.open
           /\ u.actor.work.gen = s.actor.work.gen /\ u.actor.work.kind = s.actor.work.kind
           /\ u.actor.work.started = s.actor.work.started
           /\ u.actor.work.completed = s.actor.work.completed
           /\ u.actor.work.books = Older(s.actor.work.books, age)
           /\ s.actor.work = NoWork => u.actor.work = NoWork
           /\ Len(u.queue) = Len(s.queue)
           /\ \A i \in 1..Len(s.queue) : /\ u.queue[i].gen = s.queue[i].gen
                                         /\ u.queue[i].kind = s.queue[i].kind
                                         /\ u.queue[i].tokens = s.queue[i].tokens
                                         /\ u.queue[i].recovery = s.queue[i].recovery
           /\ u.pub.book = Older(s.pub.book, age) /\ u.pub.rec = s.pub.rec
           /\ u.pub.seed = s.pub.seed /\ u.pub.snap = s.pub.snap
           /\ u.pub.fenced = s.pub.fenced /\ u.pub.accepting = s.pub.accepting
           /\ u.job.attempts = s.job.attempts /\ u.job.on = s.job.on
           /\ u.job.age = Older(s.job.age, age)
<1> DEFINE u == Age(s, age)
           w == [s.actor.work EXCEPT !.books = Older(s.actor.work.books, age)]
           a == [s.actor EXCEPT !.book = Older(s.actor.book, age), !.work = w]
           q == [i \in DOMAIN s.queue |-> [s.queue[i] EXCEPT !.age = Aged(s.queue[i].age, age)]]
           p == [s.pub EXCEPT !.book = Older(s.pub.book, age)]
           j == [s.job EXCEPT !.age = Older(s.job.age, age)]
           b == Aged(s.probe, "old")
<1>1. u = [s EXCEPT !.actor = a, !.queue = q, !.pub = p, !.job = j, !.probe = b]
  BY Zenon DEF Age
<1>2. \A f \in BookMap : Older(f, age) \in BookMap
  BY DEF BookMap, Ages, Older, Aged
<1>3. w \in Works /\ w.gen = s.actor.work.gen /\ w.kind = s.actor.work.kind
      /\ w.started = s.actor.work.started /\ w.completed = s.actor.work.completed
      /\ w.books = Older(s.actor.work.books, age)
  BY <1>2 DEF States, Actors, Works
<1>4. /\ a \in Actors /\ a.gen = s.actor.gen /\ a.wait = s.actor.wait /\ a.rec = s.actor.rec
      /\ a.open = s.actor.open /\ a.work = w
  BY <1>2, <1>3 DEF States, Actors
<1>5. /\ p \in Pubs /\ p.book = Older(s.pub.book, age) /\ p.rec = s.pub.rec
      /\ p.seed = s.pub.seed /\ p.snap = s.pub.snap /\ p.fenced = s.pub.fenced
      /\ p.accepting = s.pub.accepting
  BY <1>2 DEF States, Pubs
<1>6. j \in Jobs /\ j.attempts = s.job.attempts /\ j.on = s.job.on
      /\ j.age = Older(s.job.age, age)
  BY <1>2 DEF States, Jobs
<1>7. /\ q \in Seq(Inputs) /\ Len(q) = Len(s.queue)
      /\ \A i \in 1..Len(s.queue) : /\ q[i].gen = s.queue[i].gen
                                    /\ q[i].kind = s.queue[i].kind
                                    /\ q[i].tokens = s.queue[i].tokens
                                    /\ q[i].recovery = s.queue[i].recovery
  <2>1. /\ s.queue \in Seq(Inputs) /\ Len(s.queue) \in Nat /\ DOMAIN s.queue = 1..Len(s.queue)
        /\ \A i \in 1..Len(s.queue) : s.queue[i] \in Inputs
    BY LenProperties, ElementOfSeq DEF States
  <2> DEFINE g(x) == [x EXCEPT !.age = Aged(x.age, age)]
  <2>2. \A x \in Inputs : /\ g(x) \in Inputs /\ g(x).gen = x.gen /\ g(x).kind = x.kind
                          /\ g(x).tokens = x.tokens /\ g(x).recovery = x.recovery
    BY DEF Inputs, Ages, Aged
  <2>3. /\ q = [i \in 1..Len(s.queue) |-> g(s.queue[i])]
        /\ \A i \in 1..Len(s.queue) : q[i] = g(s.queue[i])
    BY <2>1
  <2> HIDE DEF g
  <2>4. q \in [1..Len(s.queue) -> Inputs]
    BY <2>1, <2>2, <2>3
  <2>5. q \in Seq(Inputs) /\ Len(q) = Len(s.queue)
    BY <2>1, <2>4, IsASeq
  <2> HIDE DEF q
  <2>6. QED BY ONLY <2>1, <2>2, <2>3, <2>5
<1>8. b \in {"none", "fresh", "old"}
  BY DEF States, Aged
<1>9. s.actor.work = NoWork => w = NoWork
  BY DEF NoWork, NoBooks, Older, Aged
<1> HIDE DEF w, a, q, p, j, b
<1>10. /\ u \in States /\ u.control = s.control /\ u.router = s.router /\ u.done = s.done
       /\ u.actor = a /\ u.queue = q /\ u.pub = p /\ u.job = j
  BY <1>1, <1>4, <1>5, <1>6, <1>7, <1>8 DEF States
<1> HIDE DEF u
<1>11. QED BY <1>3, <1>4, <1>5, <1>6, <1>7, <1>9, <1>10 DEF u

\* The owner bumps the generation: everything queued, reduced or on its way belongs to an
\* earlier one.  A barrier brings an id that nothing holds, a pause keeps the router's.
FencedPub(p) == p.fenced => \E t \in Tokens : t \in p.seed \/ p.rec[t] # None \/ p.book[t] = "none"
NewId(s, ids) == \A t \in Tokens : ids[t] # None /\ ids[t] \notin UsedIds(s)
\* The part of the invariant that this needs; it holds between the calls of a handler too.
BumpSafe(s) == /\ s \in States /\ OldJobIsSuperseded(s.control, s.actor, s.job)
               /\ StartedIsNew(s.actor, s.router, s.done, s.job)
               /\ s.actor.work = NoWork \/ s.actor.work.gen = s.actor.gen
LEMMA InvIsBumpSafe == ASSUME NEW s, StateInv(s) PROVE BumpSafe(s)
BY DEF StateInv, BumpSafe, AgesOK, MirrorsOK, Admitted

LEMMA BumpKeeps ==
  ASSUME NEW s, BumpSafe(s), NEW age \in {"old", "paused"}, NEW u \in States,
         u.actor = Age(s, age).actor, u.queue = Age(s, age).queue, u.job = Age(s, age).job,
         u.done = s.done, u.control.attempts = u.router,
         u.control.gen # s.actor.gen, u.control.gen # s.actor.work.gen,
         \A i \in 1..Len(s.queue) : u.control.gen # s.queue[i].gen,
         \A i \in 1..Len(s.done) : u.control.gen # s.done[i].gen,
         age = "old" => NewId(s, u.router), age = "paused" => u.router = s.router,
         Held(u.control.pending) # {} => \A t \in Tokens : u.router[t] # None,
         HiddenIfOld(u.pub), FencedPub(u.pub)
  PROVE StateInv(u)
<1> DEFINE x == Age(s, age)
<1>0. s \in States
  BY DEF BumpSafe
<1>1. /\ u.actor.gen = s.actor.gen /\ u.actor.rec = s.actor.rec /\ u.actor.open = s.actor.open
      /\ u.actor.work.gen = s.actor.work.gen /\ u.actor.work.kind = s.actor.work.kind
      /\ u.actor.work.started = s.actor.work.started
      /\ u.actor.work.completed = s.actor.work.completed
      /\ u.actor.work.books = Older(s.actor.work.books, age)
      /\ s.actor.work = NoWork => u.actor.work = NoWork
      /\ Len(u.queue) = Len(s.queue)
      /\ \A i \in 1..Len(s.queue) : u.queue[i].gen = s.queue[i].gen
      /\ u.job.attempts = s.job.attempts
      /\ u.job.age = Older(s.job.age, age)
  <2>1. /\ x.actor.gen = s.actor.gen /\ x.actor.rec = s.actor.rec /\ x.actor.open = s.actor.open
        /\ x.actor.work.gen = s.actor.work.gen /\ x.actor.work.kind = s.actor.work.kind
        /\ x.actor.work.started = s.actor.work.started
        /\ x.actor.work.completed = s.actor.work.completed
        /\ x.actor.work.books = Older(s.actor.work.books, age)
        /\ s.actor.work = NoWork => x.actor.work = NoWork
        /\ Len(x.queue) = Len(s.queue)
        /\ \A i \in 1..Len(s.queue) : x.queue[i].gen = s.queue[i].gen
        /\ x.job.attempts = s.job.attempts
        /\ x.job.age = Older(s.job.age, age)
    BY <1>0, AgeIs
  <2>2. u.actor = x.actor /\ u.queue = x.queue /\ u.job = x.job
    OBVIOUS
  <2> HIDE DEF x
  <2>3. QED BY <2>1, <2>2
<1>2. /\ s.actor.work \in Works /\ s.job \in Jobs /\ s.control \in Controls /\ s.actor \in Actors
      /\ s.router \in IdMap /\ s.done \in Seq(Completions)
  BY <1>0 DEF States, Actors
<1>3. u.control.gen # u.actor.gen /\ u.control.gen # u.actor.work.gen
  BY <1>1
<1>4. \A i \in 1..Len(u.queue) : u.queue[i].gen # u.control.gen
  BY <1>1
<1>5. age = "old" => \A t \in Tokens : /\ u.router[t] # s.actor.work.started[t]
                                       /\ u.router[t] # s.job.attempts[t]
  BY <1>0, UsedIdsAre DEF NewId
<1>6. CurrentIsNew(u.control, u.actor) /\ OldIsSuperseded(u.control, u.actor, u.queue)
  BY <1>3, <1>4 DEF CurrentIsNew, OldIsSuperseded
<1>7. OldJobIsSuperseded(u.control, u.actor, u.job)
  <2> SUFFICES ASSUME NEW t \in Tokens, u.job.attempts[t] # None
               PROVE /\ u.job.age[t] # "none"
                     /\ u.job.age[t] = "old" =>
                          /\ u.control.attempts[t] # u.job.attempts[t]
                          /\ RecOf(u.control, u.actor)[t] # u.job.attempts[t]
    BY DEF OldJobIsSuperseded
  <2>1. s.job.age[t] # "none"
    BY <1>1 DEF BumpSafe, OldJobIsSuperseded
  <2>2. u.job.age[t] = age
    BY <1>1, <2>1 DEF Older, Aged
  <2>3. RecOf(u.control, u.actor) = u.router
    BY <1>3 DEF RecOf
  <2>4. QED BY <1>1, <1>5, <2>2, <2>3
<1>8. StartedIsNew(u.actor, u.router, u.done, u.job)
  <2> SUFFICES ASSUME NEW t \in Tokens
               PROVE /\ u.actor.work.started[t] # None =>
                           /\ u.actor.rec[t] \in {None, u.actor.work.started[t]}
                           /\ u.router[t] # u.actor.work.started[t]
                           /\ u.job.attempts[t] # u.actor.work.started[t]
                           /\ \A i \in 1..Len(u.done) : u.done[i].started[t] # u.actor.work.started[t]
                     /\ u.actor.work.completed[t] # None => u.actor.work.books[t] # "none"
                     /\ u.actor.work.kind \in {"delta", "checkpoint"} =>
                           u.actor.work.started[t] = None /\ u.actor.work.completed[t] = None
    BY DEF StartedIsNew
  <2>1. StartedIsNew(s.actor, s.router, s.done, s.job)
    BY DEF BumpSafe
  <2>2. s.actor.work.books[t] # "none" => u.actor.work.books[t] # "none"
    BY <1>1 DEF Older, Aged
  <2>3. QED BY <1>1, <1>5, <2>1, <2>2 DEF StartedIsNew
<1>9. RouterCatchesUp(u.control, u.router, u.done)
  BY DEF RouterCatchesUp, Touches
<1>10. ReducerIsAhead(u.control, u.actor, u.done)
  BY <1>3 DEF ReducerIsAhead
<1>11. Admitted(u.control, u.actor, u.queue, u.done)
  <2>1. s.actor.work = NoWork \/ s.actor.work.gen = s.actor.gen
    BY DEF BumpSafe
  <2>2. QED BY <1>1, <1>3, <1>4, <2>1 DEF Admitted
<1>12. PendingIsTotal(u.control, u.router, u.actor, u.queue, u.done)
  BY <1>3, <1>4 DEF PendingIsTotal
<1>13. QED
  BY <1>6, <1>7, <1>8, <1>9, <1>10, <1>11, <1>12
  DEF StateInv, AgesOK, MirrorsOK, ServedOK, FencedPub

\* What a published group makes of the read state.
LEMMA GroupAppliedIs ==
  ASSUME NEW p \in Pubs, NEW g \in Works
  PROVE LET u == GroupApplied(p, g)
        IN /\ u \in Pubs /\ FencedPub(u) /\ u.accepting = p.accepting
           /\ u.fenced => p.fenced
           /\ \A t \in Tokens :
                /\ u.rec[t] = IF g.completed[t] # None THEN None
                              ELSE IF g.started[t] # None THEN g.started[t] ELSE p.rec[t]
                /\ u.book[t] = IF g.books[t] # "none" THEN g.books[t]
                               ELSE IF g.started[t] # None THEN Aged(p.book[t], "old")
                               ELSE p.book[t]
                /\ t \in u.seed <=> t \in p.seed /\ g.books[t] = "none"
                /\ t \in u.snap <=>
                     /\ u.rec[t] # None
                     /\ IF g.kind = "delta" THEN t \in p.snap /\ g.books[t] = "none"
                        ELSE (t \in p.snap /\ g.started[t] = None) \/ g.books[t] # "none"
<1> DEFINE over == Override(p.rec, g.started)
           rec == [t \in Tokens |-> IF g.completed[t] # None THEN None ELSE over[t]]
           written == {t \in Tokens : g.books[t] # "none"}
           book == [t \in Tokens |-> IF t \in written THEN g.books[t]
                                     ELSE IF g.started[t] # None THEN Aged(p.book[t], "old")
                                     ELSE p.book[t]]
           seed == p.seed \ written
           snap0 == IF g.kind = "delta" THEN p.snap \ written
                    ELSE (p.snap \ Held(g.started)) \cup written
           snap == {t \in snap0 : rec[t] # None}
           fenced == p.fenced /\ ~(/\ seed = {} /\ Held(rec) = {}
                                   /\ \A t \in Tokens : book[t] # "none")
           u == GroupApplied(p, g)
<1>1. u = [p EXCEPT !.rec = rec, !.book = book, !.seed = seed, !.snap = snap, !.fenced = fenced]
  BY Zenon DEF GroupApplied
<1>2. /\ g.started \in IdMap /\ g.completed \in IdMap /\ g.books \in BookMap
      /\ p.rec \in IdMap /\ p.book \in BookMap /\ p.seed \in SUBSET Tokens
      /\ p.snap \in SUBSET Tokens /\ p.fenced \in BOOLEAN
  BY DEF Works, Pubs
<1>3. \A t \in Tokens :
        /\ rec[t] = IF g.completed[t] # None THEN None
                    ELSE IF g.started[t] # None THEN g.started[t] ELSE p.rec[t]
        /\ rec[t] \in Nat
  BY <1>2 DEF Override, IdMap, None
<1>4. \A t \in Tokens :
        /\ book[t] = IF g.books[t] # "none" THEN g.books[t]
                     ELSE IF g.started[t] # None THEN Aged(p.book[t], "old") ELSE p.book[t]
        /\ book[t] \in Ages
  BY <1>2 DEF BookMap, Ages, Aged
<1>5. \A t \in Tokens : t \in seed <=> t \in p.seed /\ g.books[t] = "none"
  BY <1>2
<1>6. \A t \in Tokens : t \in snap <=>
          /\ rec[t] # None
          /\ IF g.kind = "delta" THEN t \in p.snap /\ g.books[t] = "none"
             ELSE (t \in p.snap /\ g.started[t] = None) \/ g.books[t] # "none"
  <2> HIDE DEF rec
  <2>1. QED BY <1>2 DEF Held
<1>7. rec \in IdMap /\ book \in BookMap /\ seed \in SUBSET Tokens /\ snap \in SUBSET Tokens
      /\ fenced \in BOOLEAN
  <2>1. snap \in SUBSET Tokens
    BY <1>2
  <2>2. rec \in IdMap
    BY <1>3 DEF IdMap
  <2>3. book \in BookMap
    BY <1>4 DEF BookMap
  <2>4. QED BY <1>2, <2>1, <2>2, <2>3
<1>8. fenced => /\ p.fenced
                /\ \E t \in Tokens : t \in seed \/ rec[t] # None \/ book[t] = "none"
  <2>1. seed \subseteq Tokens
    BY <1>2
  <2> HIDE DEF seed, rec, book
  <2>2. QED BY <2>1 DEF Held
<1> HIDE DEF rec, book, seed, snap, fenced
<1>9. /\ u \in Pubs /\ u.accepting = p.accepting /\ u.rec = rec /\ u.book = book
      /\ u.seed = seed /\ u.snap = snap /\ u.fenced = fenced
  BY <1>1, <1>7 DEF Pubs
<1> HIDE DEF u
<1>10. FencedPub(u)
  BY <1>8, <1>9 DEF FencedPub
<1>11. QED BY <1>3, <1>4, <1>5, <1>6, <1>8, <1>9, <1>10 DEF u

\* It hides the books from before a barrier when it writes none of them and covers the
\* tokens whose recovery it completes.
LEMMA GroupHidesOld ==
  ASSUME NEW p \in Pubs, NEW g \in Works, HiddenIfOld(p),
         \A t \in Tokens : /\ g.books[t] # "old"
                           /\ g.completed[t] # None => g.books[t] # "none"
                           /\ g.kind = "delta" => g.started[t] = None
  PROVE HiddenIfOld(GroupApplied(p, g))
<1> DEFINE u == GroupApplied(p, g)
<1>1. \A t \in Tokens :
        /\ u.rec[t] = IF g.completed[t] # None THEN None
                      ELSE IF g.started[t] # None THEN g.started[t] ELSE p.rec[t]
        /\ u.book[t] = IF g.books[t] # "none" THEN g.books[t]
                       ELSE IF g.started[t] # None THEN Aged(p.book[t], "old")
                       ELSE p.book[t]
        /\ t \in u.seed <=> t \in p.seed /\ g.books[t] = "none"
        /\ t \in u.snap <=>
             /\ u.rec[t] # None
             /\ IF g.kind = "delta" THEN t \in p.snap /\ g.books[t] = "none"
                ELSE (t \in p.snap /\ g.started[t] = None) \/ g.books[t] # "none"
  BY GroupAppliedIs
<1> HIDE DEF u
<1>2. HiddenIfOld(u)
  BY <1>1 DEF HiddenIfOld, Aged
<1>3. QED BY <1>2 DEF u

LEMMA MapsAre ==
  /\ Nothing \in IdMap /\ NoBooks \in BookMap /\ NoWork \in Works
  /\ \A ids \in IdMap : /\ Barrier(ids) \in Works /\ Barrier(ids).started = ids
                        /\ Barrier(ids).books = NoBooks /\ Barrier(ids).completed = Nothing
                        /\ Barrier(ids).kind = "barrier"
  /\ \A t \in Tokens : Nothing[t] = None /\ NoBooks[t] = "none"
BY DEF Nothing, NoBooks, NoWork, Works, IdMap, BookMap, Ages, Kinds, InputKinds, None, Barrier

\* The barrier of a capacity fence, and the one that a recovery_started event is.
LEMMA FenceHidesOld ==
  ASSUME NEW p \in Pubs
  PROVE LET u == FenceMarketCapacity(p)
        IN /\ u \in Pubs /\ HiddenIfOld(u) /\ FencedPub(u)
           /\ u.accepting = p.accepting /\ u.rec = p.rec /\ u.fenced /\ u.book = p.book
<1> DEFINE u == FenceMarketCapacity(p)
<1>1. /\ u \in Pubs /\ u.seed = Tokens /\ u.accepting = p.accepting /\ u.rec = p.rec /\ u.fenced
      /\ u.book = p.book
  BY DEF Pubs, FenceMarketCapacity
<1> HIDE DEF u
<1>2. HiddenIfOld(u) /\ FencedPub(u)
  BY <1>1, PipelineAssumption DEF HiddenIfOld, FencedPub
<1>3. QED BY <1>1, <1>2 DEF u

LEMMA BarrierHidesOld ==
  ASSUME NEW p \in Pubs, NEW ids \in IdMap, HiddenIfOld(p) \/ \A t \in Tokens : ids[t] # None
  PROVE LET u == GroupApplied(p, Barrier(ids))
        IN /\ u \in Pubs /\ HiddenIfOld(u) /\ FencedPub(u) /\ u.accepting = p.accepting
           /\ \A t \in Tokens : u.rec[t] # None => ids[t] # None \/ p.rec[t] # None
<1> DEFINE b == Barrier(ids)
           u == GroupApplied(p, b)
<1>1. /\ b \in Works
      /\ \A t \in Tokens : b.started[t] = ids[t] /\ b.books[t] = "none" /\ b.completed[t] = None
      /\ b.kind = "barrier"
  BY MapsAre
<1> HIDE DEF b
<1>2. /\ u \in Pubs /\ FencedPub(u) /\ u.accepting = p.accepting
      /\ \A t \in Tokens :
           /\ u.rec[t] = IF b.completed[t] # None THEN None
                         ELSE IF b.started[t] # None THEN b.started[t] ELSE p.rec[t]
           /\ t \in u.snap <=>
                /\ u.rec[t] # None
                /\ IF b.kind = "delta" THEN t \in p.snap /\ b.books[t] = "none"
                   ELSE (t \in p.snap /\ b.started[t] = None) \/ b.books[t] # "none"
  BY <1>1, GroupAppliedIs
<1>3. HiddenIfOld(u)
  <2>1. CASE HiddenIfOld(p)
    BY <1>1, <2>1, GroupHidesOld
  <2>2. CASE \A t \in Tokens : ids[t] # None
    <3> HIDE DEF u
    <3>1. \A t \in Tokens : u.rec[t] # None /\ t \notin u.snap
      BY <1>1, <1>2, <2>2
    <3>2. QED BY <3>1 DEF HiddenIfOld
  <2>3. QED BY <2>1, <2>2
<1>4. QED BY <1>1, <1>2, <1>3 DEF b

\* What a barrier of the owner leaves: every token in recovery under a new id and a new
\* generation, and the readers told or the market fenced.
Quiet(p) == ~p.accepting => \A t \in Tokens : p.rec[t] = None
LEMMA InvalidateKeeps ==
  ASSUME NEW s, BumpSafe(s), Quiet(s.pub), NEW reason, NEW full \in BOOLEAN,
         ~(reason = "capacity" /\ Unavailable(s))
  PROVE LET u == InvalidateMarket(s, reason, full)
        IN /\ StateInv(u) /\ Quiet(u.pub) /\ u.pub.accepting = s.pub.accepting
           /\ \A t \in Tokens : u.control.attempts[t] # None
           /\ u.actor.open = s.actor.open /\ u.control.attempts = u.router
           /\ u.actor.work.gen # u.control.gen
           /\ u.job.attempts = s.job.attempts
<1> DEFINE id == FreshId(s)
           ids == [t \in Tokens |-> id]
           x == Age(s, "old")
           r == [x EXCEPT !.router = ids]
           g == NextGen(r)
           ctl(pd) == [gen |-> g, attempts |-> ids, baseline |-> FALSE, pending |-> pd]
           v(pd, p) == [r EXCEPT !.control = ctl(pd), !.pub = p]
           Good(p) == /\ p \in Pubs /\ HiddenIfOld(p) /\ FencedPub(p)
                      /\ p.accepting = s.pub.accepting /\ Quiet(p)
<1>0. s \in States
  BY DEF BumpSafe
<1>1. id \in Nat \ {0} /\ id \notin UsedIds(s)
  BY <1>0, FreshIdIs
<1>2. ids \in IdMap /\ NewId(s, ids) /\ \A t \in Tokens : ids[t] # None
  <2> HIDE DEF id
  <2>1. QED BY <1>1 DEF IdMap, NewId, None
<1> HIDE DEF ids
<1>3. /\ x \in States /\ x.done = s.done /\ x.pub.book = Older(s.pub.book, "old")
      /\ x.pub.rec = s.pub.rec /\ x.pub.seed = s.pub.seed /\ x.pub.snap = s.pub.snap
      /\ x.pub.accepting = s.pub.accepting
      /\ x.actor.gen = s.actor.gen /\ x.actor.work.gen = s.actor.work.gen
      /\ x.actor.open = s.actor.open /\ x.job.attempts = s.job.attempts
      /\ Len(x.queue) = Len(s.queue)
      /\ \A i \in 1..Len(s.queue) : x.queue[i].gen = s.queue[i].gen
  <2>1. "old" \in {"old", "paused"}
    OBVIOUS
  <2>2. QED BY <1>0, <2>1, AgeIs
<1> HIDE DEF x
<1>4. /\ r \in States /\ r.router = ids /\ r.actor = x.actor /\ r.queue = x.queue /\ r.done = s.done
      /\ r.job = x.job /\ r.pub = x.pub
  BY <1>2, <1>3 DEF States
<1> HIDE DEF r
<1>5. /\ g \in Nat /\ g # s.actor.gen /\ g # s.actor.work.gen
      /\ \A i \in 1..Len(s.queue) : g # s.queue[i].gen
      /\ \A i \in 1..Len(s.done) : g # s.done[i].gen
  <2>1. /\ NextGen(r) \in Nat /\ NextGen(r) # r.actor.gen /\ NextGen(r) # r.actor.work.gen
        /\ \A i \in 1..Len(r.queue) : NextGen(r) # r.queue[i].gen
        /\ \A i \in 1..Len(r.done) : NextGen(r) # r.done[i].gen
    BY <1>4, NextGenIs
  <2>2. QED BY <2>1, <1>3, <1>4
<1> HIDE DEF g
<1>6. ASSUME NEW pd \in IdMap, NEW p, Good(p)
      PROVE LET u == v(pd, p)
            IN /\ StateInv(u) /\ Quiet(u.pub) /\ u.pub.accepting = s.pub.accepting
               /\ \A t \in Tokens : u.control.attempts[t] # None
               /\ u.actor.open = s.actor.open /\ u.control.attempts = u.router
               /\ u.actor.work.gen # u.control.gen
               /\ u.job.attempts = s.job.attempts
  <2> DEFINE u == v(pd, p)
             c == ctl(pd)
  <2>1. c \in Controls /\ c.gen = g /\ c.attempts = ids
    BY <1>2, <1>5 DEF Controls
  <2> HIDE DEF c
  <2>2. u = [r EXCEPT !.control = c, !.pub = p]
    BY DEF c
  <2> HIDE DEF u, v, ctl
  <2>3. /\ u \in States /\ u.control = c /\ u.pub = p /\ u.router = ids /\ u.actor = x.actor
        /\ u.queue = x.queue /\ u.done = s.done /\ u.job = x.job
    BY <1>4, <1>6, <2>1, <2>2 DEF States
  <2>4. StateInv(u)
    <3> DEFINE age == "old"
    <3>1. age \in {"old", "paused"} /\ age # "paused"
      OBVIOUS
    <3>2. u.actor = Age(s, age).actor /\ u.queue = Age(s, age).queue /\ u.job = Age(s, age).job
      BY <2>3 DEF x
    <3> HIDE DEF age
    <3>3. HiddenIfOld(u.pub) /\ FencedPub(u.pub)
      BY <2>3, <1>6
    <3>4. QED
      BY <1>2, <1>5, <2>1, <2>3, <3>1, <3>2, <3>3, BumpKeeps
  <2>5. QED BY <1>2, <1>3, <1>5, <1>6, <2>1, <2>3, <2>4 DEF u
<1>7. x.pub \in Pubs /\ s.control.pending \in IdMap /\ Nothing \in IdMap
  BY <1>0, <1>3, MapsAre DEF States, Controls
<1>8. InvalidateMarket(s, reason, full)
      = IF ~s.pub.accepting THEN FenceFailedMarket(r)
        ELSE IF full THEN [Bumped(r, ids, ids) EXCEPT !.pub = FenceMarketCapacity(@)]
        ELSE [Bumped(r, ids, s.control.pending) EXCEPT !.pub = GroupApplied(@, Barrier(ids))]
  BY DEF InvalidateMarket, r, x, ids, id
<1>9. CASE ~s.pub.accepting
  <2> DEFINE p == FenceMarketCapacity(r.pub)
             b == Bumped(r, ids, Nothing)
  <2>1. InvalidateMarket(s, reason, full) = [b EXCEPT !.pub = FenceMarketCapacity(b.pub)]
    BY <1>4, <1>8, <1>9 DEF FenceFailedMarket
  <2>2. b = [r EXCEPT !.control = ctl(Nothing)] /\ b.pub = r.pub
    BY <1>4 DEF Bumped, g, ctl, States
  <2> HIDE DEF b
  <2>3. InvalidateMarket(s, reason, full) = v(Nothing, p)
    BY <1>4, <2>1, <2>2 DEF v, States
  <2>4. Good(p)
    BY <1>3, <1>4, <1>7, FenceHidesOld DEF Quiet
  <2> HIDE DEF p, Good, v, ctl
  <2>5. QED BY <1>6, <1>7, <2>3, <2>4
<1>10. CASE s.pub.accepting /\ full
  <2> DEFINE p == FenceMarketCapacity(r.pub)
             b == Bumped(r, ids, ids)
  <2>1. InvalidateMarket(s, reason, full) = [b EXCEPT !.pub = FenceMarketCapacity(b.pub)]
    BY <1>8, <1>10
  <2>2. b = [r EXCEPT !.control = ctl(ids)] /\ b.pub = r.pub
    BY <1>4 DEF Bumped, g, ctl, States
  <2> HIDE DEF b
  <2>3. InvalidateMarket(s, reason, full) = v(ids, p)
    BY <1>4, <2>1, <2>2 DEF v, States
  <2>4. Good(p)
    BY <1>3, <1>4, <1>7, <1>10, FenceHidesOld DEF Quiet
  <2> HIDE DEF p, Good, v, ctl
  <2>5. QED BY <1>2, <1>6, <2>3, <2>4
<1>11. CASE s.pub.accepting /\ ~full
  <2> DEFINE p == GroupApplied(r.pub, Barrier(ids))
             pd == s.control.pending
             b == Bumped(r, ids, pd)
  <2>1. InvalidateMarket(s, reason, full) = [b EXCEPT !.pub = GroupApplied(b.pub, Barrier(ids))]
    BY <1>8, <1>11
  <2>2. b = [r EXCEPT !.control = ctl(pd)] /\ b.pub = r.pub
    BY <1>4 DEF Bumped, g, ctl, States
  <2> HIDE DEF b
  <2>3. InvalidateMarket(s, reason, full) = v(pd, p)
    BY <1>4, <2>1, <2>2 DEF v, States
  <2>4. Good(p)
    BY <1>2, <1>3, <1>4, <1>7, <1>11, BarrierHidesOld DEF Quiet
  <2> HIDE DEF p, Good, v, ctl
  <2>5. QED BY <1>6, <1>7, <2>3, <2>4
<1>12. QED BY <1>9, <1>10, <1>11

\* A call that touches only the read state, the pending barrier and the probe.
LEMMA PubChanges ==
  ASSUME NEW s, StateInv(s), NEW u \in States,
         u.actor = s.actor, u.queue = s.queue, u.done = s.done, u.router = s.router,
         u.job = s.job, u.control.gen = s.control.gen,
         u.control.attempts = s.control.attempts, u.control.baseline = s.control.baseline,
         Held(u.control.pending) = {} \/ u.control.pending = s.control.pending,
         HiddenIfOld(u.pub), FencedPub(u.pub)
  PROVE StateInv(u)
<1>1. AgesOK(u)
  <2>1. CurrentIsNew(u.control, u.actor)
    BY DEF StateInv, AgesOK, CurrentIsNew
  <2>2. RecOf(u.control, u.actor) = RecOf(s.control, s.actor)
    BY DEF RecOf
  <2>3. OldIsSuperseded(u.control, u.actor, u.queue)
    <3>1. OldIsSuperseded(s.control, s.actor, s.queue)
      BY DEF StateInv, AgesOK
    <3>2. QED BY <2>2, <3>1 DEF OldIsSuperseded
  <2>4. OldJobIsSuperseded(u.control, u.actor, u.job)
    <3>1. OldJobIsSuperseded(s.control, s.actor, s.job)
      BY DEF StateInv, AgesOK
    <3>2. QED BY <2>2, <3>1 DEF OldJobIsSuperseded
  <2>5. StartedIsNew(u.actor, u.router, u.done, u.job)
    BY DEF StateInv, AgesOK
  <2>6. QED BY <2>1, <2>3, <2>4, <2>5 DEF AgesOK
<1>2. MirrorsOK(u)
  <2>1. MirrorsOK(s)
    BY DEF StateInv
  <2>2. s.actor.open => RouterCatchesUp(u.control, u.router, u.done)
    BY <2>1 DEF MirrorsOK, RouterCatchesUp, Touches
  <2>3. s.actor.open => ReducerIsAhead(u.control, u.actor, u.done)
    BY <2>1 DEF MirrorsOK, ReducerIsAhead, Refusal
  <2>4. Admitted(u.control, u.actor, u.queue, u.done)
    BY <2>1 DEF MirrorsOK, Admitted
  <2>5. QED BY <2>2, <2>3, <2>4 DEF MirrorsOK
<1>3. PendingIsTotal(u.control, u.router, u.actor, u.queue, u.done)
  <2>1. PendingIsTotal(s.control, s.router, s.actor, s.queue, s.done)
    BY DEF StateInv, ServedOK
  <2>2. QED BY <2>1 DEF PendingIsTotal
<1>4. QED BY <1>1, <1>2, <1>3 DEF StateInv, ServedOK, FencedPub

\* The pending barrier is published when the lane has room again.
LEMMA FlushKeeps ==
  ASSUME NEW s, StateInv(s), RecKnown(s)
  PROVE LET u == FlushPendingBarrier(s)
        IN /\ StateInv(u) /\ RecKnown(u) /\ u.pub.accepting = s.pub.accepting
           /\ Held(u.control.pending) = {} /\ u.control.gen = s.control.gen
           /\ u.control.attempts = s.control.attempts
           /\ u.control.baseline = s.control.baseline
           /\ u.actor = s.actor /\ u.queue = s.queue /\ u.done = s.done
           /\ u.router = s.router /\ u.job = s.job
           /\ Held(s.control.pending) # {} => \A t \in Tokens : u.control.attempts[t] # None
           /\ Held(s.control.pending) = {} => u = s
<1> DEFINE u == FlushPendingBarrier(s)
           pd == s.control.pending
           p == GroupApplied(s.pub, Barrier(pd))
           c == [s.control EXCEPT !.pending = Nothing]
<1>1. CASE Held(pd) = {}
  BY <1>1 DEF FlushPendingBarrier
<1>2. CASE Held(pd) # {}
  <2>1. u = [s EXCEPT !.pub = p, !.control = c]
    BY <1>2 DEF FlushPendingBarrier
  <2>2. /\ s \in States /\ s.control \in Controls /\ s.pub \in Pubs /\ pd \in IdMap
    BY DEF StateInv, States, Controls
  <2>3. HiddenIfOld(s.pub)
    BY DEF StateInv, AgesOK
  <2>4. /\ p \in Pubs /\ HiddenIfOld(p) /\ FencedPub(p) /\ p.accepting = s.pub.accepting
    BY <2>2, <2>3, BarrierHidesOld
  <2>5. /\ c \in Controls /\ c.gen = s.control.gen /\ c.attempts = s.control.attempts
        /\ c.baseline = s.control.baseline /\ c.pending = Nothing
    BY <2>2, MapsAre DEF Controls
  <2> HIDE DEF p, c
  <2>6. /\ u \in States /\ u.control = c /\ u.pub = p /\ u.router = s.router
        /\ u.actor = s.actor /\ u.queue = s.queue /\ u.done = s.done /\ u.job = s.job
    BY <2>1, <2>2, <2>4, <2>5 DEF States
  <2> HIDE DEF u
  <2>7. Held(u.control.pending) = {}
    BY <2>5, <2>6, MapsAre DEF Held
  <2>8. StateInv(u)
    BY <2>4, <2>5, <2>6, <2>7, PubChanges
  <2>9. \A t \in Tokens : u.control.attempts[t] # None
    BY <1>2, <2>5, <2>6 DEF StateInv, ServedOK, PendingIsTotal
  <2>10. QED BY <1>2, <2>4, <2>5, <2>6, <2>7, <2>8, <2>9 DEF u, RecKnown
<1>3. QED BY <1>1, <1>2

\* An input takes a slot under the current generation; one that was asked for before a
\* barrier carries attempts that are over.
Superseded(s, in) ==
    in.age = "old" => /\ Held(in.recovery) # {}
                      /\ \A t \in Held(in.recovery) :
                            RecOf(s.control, s.actor)[t] # in.recovery[t]
LEMMA EnqueueKeeps ==
  ASSUME NEW s, StateInv(s), NEW in \in Inputs, in.gen = s.control.gen, Superseded(s, in),
         Held(s.control.pending) = {}, NEW u \in States, u.queue = Append(s.queue, in),
         u.actor = s.actor, u.done = s.done, u.router = s.router, u.job = s.job, u.pub = s.pub,
         u.control.gen = s.control.gen, u.control.attempts = s.control.attempts,
         u.control.pending = s.control.pending,
         s.control.baseline \/ in.kind # "checkpoint" => u.control.baseline
  PROVE /\ StateInv(u)
        /\ \A t \in Tokens : Restoring(s, t) => Restoring(u, t)
        /\ in.kind = "book" /\ Held(in.recovery) = {} => \A t \in in.tokens : Restoring(u, t)
<1> DEFINE n == Len(s.queue)
<1>0. s \in States /\ s.queue \in Seq(Inputs) /\ n \in Nat
  BY LenProperties DEF StateInv, States
<1>1. /\ Len(u.queue) = n + 1 /\ u.queue[n + 1] = in
      /\ \A i \in 1..n : u.queue[i] = s.queue[i]
  BY <1>0, AppendProperties
<1>2. \A i \in 1..Len(u.queue) : i \in 1..n \/ i = n + 1
  BY <1>0, <1>1
<1>3. n + 1 \in 1..Len(u.queue) /\ \A i \in 1..n : i \in 1..Len(u.queue)
  BY <1>0, <1>1
<1> HIDE DEF n
<1>4. RecOf(u.control, u.actor) = RecOf(s.control, s.actor)
  BY DEF RecOf
<1>5. AgesOK(u)
  <2>1. CurrentIsNew(u.control, u.actor)
    BY DEF StateInv, AgesOK, CurrentIsNew
  <2>2. OldIsSuperseded(u.control, u.actor, u.queue)
    <3>1. OldIsSuperseded(s.control, s.actor, s.queue)
      BY DEF StateInv, AgesOK
    <3>2. SUFFICES ASSUME NEW i \in 1..Len(u.queue), u.queue[i].gen = u.control.gen,
                          u.queue[i].age = "old"
                   PROVE /\ Held(u.queue[i].recovery) # {}
                         /\ \A t \in Held(u.queue[i].recovery) :
                               RecOf(u.control, u.actor)[t] # u.queue[i].recovery[t]
      BY DEF OldIsSuperseded
    <3>3. CASE i \in 1..n
      BY <1>1, <1>4, <3>1, <3>2, <3>3 DEF OldIsSuperseded, n
    <3>4. CASE i = n + 1
      BY <1>1, <1>4, <3>2, <3>4 DEF Superseded
    <3>5. QED BY <1>2, <3>3, <3>4
  <2>3. OldJobIsSuperseded(u.control, u.actor, u.job)
    <3>1. OldJobIsSuperseded(s.control, s.actor, s.job)
      BY DEF StateInv, AgesOK
    <3>2. QED BY <1>4, <3>1 DEF OldJobIsSuperseded
  <2>4. HiddenIfOld(u.pub) /\ StartedIsNew(u.actor, u.router, u.done, u.job)
    BY DEF StateInv, AgesOK
  <2>5. QED BY <2>1, <2>2, <2>3, <2>4 DEF AgesOK
<1>6. MirrorsOK(u)
  <2>1. MirrorsOK(s)
    BY DEF StateInv
  <2>2. s.actor.open => RouterCatchesUp(u.control, u.router, u.done)
    BY <2>1 DEF MirrorsOK, RouterCatchesUp, Touches
  <2>3. s.actor.open => ReducerIsAhead(u.control, u.actor, u.done)
    BY <2>1 DEF MirrorsOK, ReducerIsAhead, Refusal
  <2>4. Admitted(s.control, s.actor, s.queue, s.done)
    BY <2>1 DEF MirrorsOK
  <2>5. \A i \in 1..Len(u.queue) : u.queue[i].gen = u.control.gen
            /\ u.queue[i].kind # "checkpoint" => u.control.baseline
    BY <1>1, <1>2, <2>4 DEF Admitted, n
  <2>6. Admitted(u.control, u.actor, u.queue, u.done)
    BY <2>4, <2>5 DEF Admitted
  <2>7. QED BY <2>2, <2>3, <2>6 DEF MirrorsOK
<1>7. ServedOK(u)
  BY DEF StateInv, ServedOK, PendingIsTotal
<1>8. \A t \in Tokens : UnderWay(s.control, s.actor, s.queue, t)
                        => UnderWay(u.control, u.actor, u.queue, t)
  BY <1>1, <1>3 DEF UnderWay, n
<1>9. \A t \in Tokens : Restoring(s, t) => Restoring(u, t)
  BY <1>8 DEF Restoring, Refusal
<1>10. in.kind = "book" /\ Held(in.recovery) = {} => \A t \in in.tokens : Restoring(u, t)
  <2>1. in.tokens \subseteq Tokens
    BY DEF Inputs
  <2>2. SUFFICES ASSUME in.kind = "book", Held(in.recovery) = {}, NEW t \in in.tokens
                 PROVE UnderWay(u.control, u.actor, u.queue, t)
    BY DEF Restoring
  <2>3. QED BY <1>1, <1>3, <2>2 DEF UnderWay
<1>11. QED BY <1>5, <1>6, <1>7, <1>9, <1>10 DEF StateInv

\* submit_market_frames, submit_rest_recovery and submit_rest_replacement, whatever they meet.
LEMMA SubmitKeeps ==
  ASSUME NEW s, StateInv(s), RecKnown(s), s.pub.accepting,
         NEW kind \in InputKinds \ {"checkpoint"}, NEW T \in SUBSET Tokens, NEW recovery \in IdMap,
         NEW age \in Ages \ {"none"}, NEW full \in BOOLEAN,
         age = "old" => /\ Held(recovery) # {}
                        /\ \A t \in Held(recovery) : RecOf(s.control, s.actor)[t] # recovery[t]
  PROVE LET u == Submit(s, kind, T, recovery, age, full)
        IN /\ StateInv(u) /\ RecKnown(u) /\ u.pub.accepting /\ u.job.attempts = s.job.attempts
           /\ \A t \in Tokens : Restoring(s, t) => Restoring(u, t)
           /\ kind = "book" /\ Held(recovery) = {} /\ ~Dropped(s, full) =>
                 \A t \in T : Restoring(u, t)
<1> DEFINE u == Submit(s, kind, T, recovery, age, full)
           f == FlushPendingBarrier(s)
           in == Input(f, kind, T, recovery, age)
           reason == IF f.actor.open \/ kind \in {"rest", "replacement"} THEN "capacity" ELSE "closed"
           m == InvalidateMarket(f, reason, full)
<1>1. CASE ~CanFlush(s, full)
  BY <1>1 DEF Submit, Dropped
<1>2. /\ StateInv(f) /\ RecKnown(f) /\ f.pub.accepting = s.pub.accepting
      /\ Held(f.control.pending) = {} /\ f.control.gen = s.control.gen
      /\ f.control.attempts = s.control.attempts
      /\ f.control.baseline = s.control.baseline
      /\ f.actor = s.actor /\ f.queue = s.queue /\ f.done = s.done
      /\ f.router = s.router /\ f.job = s.job
      /\ Held(s.control.pending) # {} => \A t \in Tokens : f.control.attempts[t] # None
      /\ Held(s.control.pending) = {} => f = s
  BY FlushKeeps
<1>3. u = IF ~CanFlush(s, full) THEN s
          ELSE IF IgnoresIncremental(f, kind) THEN f
          ELSE IF HasRoom(f) THEN Enqueue(f, in) ELSE m
  BY DEF Submit
<1> HIDE DEF u, f, reason
<1>4. \A t \in Tokens : Restoring(s, t) => Restoring(f, t)
  <2>1. CASE Held(s.control.pending) = {}
    BY <1>2, <2>1
  <2>2. CASE Held(s.control.pending) # {}
    BY <1>2, <2>2 DEF Restoring
  <2>3. QED BY <2>1, <2>2
<1>5. f \in States
  BY <1>2 DEF StateInv
<1>6. CASE CanFlush(s, full) /\ IgnoresIncremental(f, kind)
  BY <1>2, <1>3, <1>4, <1>6 DEF IgnoresIncremental, u
<1>7. CASE CanFlush(s, full) /\ ~IgnoresIncremental(f, kind) /\ HasRoom(f)
  <2> DEFINE c == [f.control EXCEPT !.baseline = TRUE]
             q == Append(f.queue, in)
  <2>1. u = [f EXCEPT !.queue = q, !.control = c]
    BY <1>3, <1>7 DEF Enqueue
  <2>2. /\ in \in Inputs /\ in.gen = f.control.gen /\ in.kind = kind /\ in.tokens = T
        /\ in.recovery = recovery /\ in.age = age
    BY <1>5 DEF Input, Inputs, States, Controls
  <2> HIDE DEF in
  <2>3. /\ c \in Controls /\ c.gen = f.control.gen /\ c.attempts = f.control.attempts
        /\ c.pending = f.control.pending /\ c.baseline
    BY <1>5 DEF States, Controls
  <2>4. q \in Seq(Inputs)
    BY <1>5, <2>2, AppendProperties DEF States
  <2> HIDE DEF c
  <2>5. /\ u \in States /\ u.queue = Append(f.queue, in) /\ u.control = c /\ u.actor = f.actor
        /\ u.done = f.done /\ u.router = f.router /\ u.job = f.job /\ u.pub = f.pub
    BY <1>5, <2>1, <2>3, <2>4 DEF States
  <2>6. Superseded(f, in)
    BY <1>2, <2>2 DEF Superseded, RecOf
  <2>7. /\ StateInv(u)
        /\ \A t \in Tokens : Restoring(f, t) => Restoring(u, t)
        /\ in.kind = "book" /\ Held(in.recovery) = {} => \A t \in in.tokens : Restoring(u, t)
    BY <1>2, <2>2, <2>3, <2>5, <2>6, EnqueueKeeps
  <2>8. RecKnown(u) /\ u.pub.accepting /\ u.job.attempts = s.job.attempts
    BY <1>2, <2>3, <2>5 DEF RecKnown
  <2>9. QED BY <1>4, <2>2, <2>7, <2>8 DEF u
<1>8. CASE CanFlush(s, full) /\ ~IgnoresIncremental(f, kind) /\ ~HasRoom(f)
  <2>1. u = m
    BY <1>3, <1>8
  <2>2. CASE reason = "capacity" /\ Unavailable(f)
    <3>1. u = f
      BY <2>1, <2>2 DEF InvalidateMarket
    <3>2. s.actor.open /\ kind = "book" => Dropped(s, full)
      BY <1>2, <1>8, <2>2 DEF Dropped, HasRoom, Unavailable
    <3>3. ~s.actor.open => \A t \in Tokens : Restoring(u, t)
      BY <1>2, <3>1 DEF Restoring
    <3>4. T \subseteq Tokens
      OBVIOUS
    <3>5. QED BY <1>2, <1>4, <3>1, <3>2, <3>3, <3>4 DEF u
  <2>3. CASE ~(reason = "capacity" /\ Unavailable(f))
    <3>1. Quiet(f.pub)
      BY <1>2 DEF Quiet
    <3>2. /\ StateInv(m) /\ m.pub.accepting = f.pub.accepting
          /\ \A t \in Tokens : m.control.attempts[t] # None
          /\ m.job.attempts = f.job.attempts
      <4>1. StateInv(f)
        BY <1>2
      <4>2. ~(reason = "capacity" /\ Unavailable(f))
        BY <2>3
      <4>3. BumpSafe(f)
        BY <4>1, InvIsBumpSafe
      <4>4. QED BY ONLY <3>1, <4>2, <4>3, full \in BOOLEAN, InvalidateKeeps
    <3> HIDE DEF m
    <3>3. RecKnown(m) /\ \A t \in Tokens : Restoring(m, t)
      BY <3>2 DEF RecKnown, Restoring
    <3>4. T \subseteq Tokens
      OBVIOUS
    <3>5. QED BY <1>2, <2>1, <3>2, <3>3, <3>4 DEF u
  <2>4. QED BY <2>2, <2>3
<1>9. QED BY <1>1, <1>6, <1>7, <1>8

\* A finished recovery job submits its snapshots one after the other; each may lose the
\* slot to the barrier that the one before it met.
LEMMA SnapshotKeeps ==
  ASSUME NEW s, StateInv(s), RecKnown(s), s.pub.accepting, NEW t \in Tokens
  PROVE LET u == SubmitSnapshot(s, t)
        IN /\ StateInv(u) /\ RecKnown(u) /\ u.pub.accepting
           /\ \A x \in Tokens : Restoring(s, x) => Restoring(u, x)
<1>1. CASE ~Matching(s, t)
  BY <1>1 DEF SubmitSnapshot
<1>2. CASE Matching(s, t)
  <2> DEFINE recovery == Only(s.job.attempts, {t})
             age == s.job.age[t]
             T == {t}
             u == Submit(s, "book", T, recovery, age, FALSE)
  <2>1. s \in States /\ s.job \in Jobs
    BY DEF StateInv, States
  <2>2. recovery \in IdMap /\ recovery[t] = s.job.attempts[t] /\ Held(recovery) = {t}
    BY <1>2, <2>1 DEF Jobs, IdMap, Only, Held, None, Matching
  <2>3. age \in Ages \ {"none"} /\ (age = "old" => RecOf(s.control, s.actor)[t] # recovery[t])
    BY <1>2, <2>1, <2>2 DEF Jobs, BookMap, Matching, StateInv, AgesOK, OldJobIsSuperseded
  <2>4. T \in SUBSET Tokens /\ "book" \in InputKinds \ {"checkpoint"} /\ FALSE \in BOOLEAN
    BY DEF InputKinds
  <2>5. age = "old" => /\ Held(recovery) # {}
                       /\ \A x \in Held(recovery) : RecOf(s.control, s.actor)[x] # recovery[x]
    BY <2>2, <2>3
  <2> HIDE DEF recovery, age, T
  <2>6. /\ StateInv(u) /\ RecKnown(u) /\ u.pub.accepting
        /\ \A x \in Tokens : Restoring(s, x) => Restoring(u, x)
    BY <2>2, <2>3, <2>4, <2>5, SubmitKeeps
  <2>7. SubmitSnapshot(s, t) = u
    BY <1>2 DEF SubmitSnapshot, recovery, age, T
  <2> HIDE DEF u
  <2>8. QED BY <2>6, <2>7
<1>3. QED BY <1>1, <1>2

LEMMA SubmittedKeeps ==
  ASSUME NEW s, StateInv(s), RecKnown(s), s.pub.accepting, NEW order \in Seq(Tokens)
  PROVE LET u == Submitted(s, order)
        IN /\ StateInv(u) /\ RecKnown(u) /\ u.pub.accepting
           /\ \A x \in Tokens : Restoring(s, x) => Restoring(u, x)
<1> DEFINE N == Len(order)
           S == {x \in States : /\ StateInv(x) /\ RecKnown(x) /\ x.pub.accepting
                                /\ \A t \in Tokens : Restoring(s, t) => Restoring(x, t)}
           next(x, i) == SubmitSnapshot(x, order[i])
           step == [i \in 1..N |-> [x \in S |-> next(x, i)]]
           Def(G) == [i \in 0..N |-> IF i = 0 THEN s ELSE next(G[i - 1], i)]
<1>1. N \in Nat /\ \A i \in 1..N : order[i] \in Tokens
  BY LenProperties, ElementOfSeq
<1>2. s \in S
  BY DEF StateInv
<1>3. \A i \in 1..N : \A x \in S : next(x, i) \in S
  <2> SUFFICES ASSUME NEW i \in 1..N, NEW x \in S PROVE next(x, i) \in S
    OBVIOUS
  <2>1. /\ StateInv(next(x, i)) /\ RecKnown(next(x, i)) /\ next(x, i).pub.accepting
        /\ \A t \in Tokens : Restoring(x, t) => Restoring(next(x, i), t)
    BY <1>1, SnapshotKeeps
  <2> HIDE DEF next
  <2>2. next(x, i) \in States
    BY <2>1 DEF StateInv
  <2>3. QED BY <2>1, <2>2
<1> HIDE DEF S, next
<1>4. step \in [1..N -> [S -> S]]
  BY <1>3
<1>5. PICK f \in [0..N -> S] : f[0] = s /\ \A i \in 1..N : f[i] = step[i][f[i - 1]]
  <2>0. s \in S /\ N \in Nat /\ step \in [1..N -> [S -> S]]
    BY <1>1, <1>2, <1>4
  <2> HIDE DEF step, N
  <2>1. \E f \in [0..N -> S] : f[0] = s /\ \A i \in 1..N : f[i] = step[i][f[i - 1]]
    BY ONLY <2>0, RecursionExists
  <2>2. QED BY <2>1
<1>6. \A i \in 1..N : f[i] = next(f[i - 1], i)
  <2>1. \A i \in 1..N : f[i - 1] \in S
    BY <1>1
  <2>2. QED BY <1>5, <2>1
<1> HIDE DEF step
<1>7. \A G : Def(G)[0] = s /\ DOMAIN Def(G) = 0..N /\ \A i \in 1..N : Def(G)[i] = next(G[i - 1], i)
  <2> SUFFICES ASSUME NEW G
               PROVE Def(G)[0] = s /\ DOMAIN Def(G) = 0..N
                     /\ \A i \in 1..N : Def(G)[i] = next(G[i - 1], i)
    OBVIOUS
  <2>1. 0 \in 0..N /\ \A i \in 1..N : i \in 0..N /\ i # 0
    BY <1>1
  <2>2. DOMAIN Def(G) = 0..N /\ Def(G)[0] = s
    BY <2>1
  <2>3. ASSUME NEW i \in 1..N PROVE Def(G)[i] = next(G[i - 1], i)
    BY <2>1, Zenon
  <2>4. QED BY <2>2, <2>3
<1>8. f = Def(f)
  <2>1. \A i \in 0..N : f[i] = Def(f)[i]
    <3> SUFFICES ASSUME NEW i \in 0..N PROVE f[i] = Def(f)[i]
      OBVIOUS
    <3>1. CASE i = 0
      BY <1>5, <3>1
    <3>2. CASE i \in 1..N
      BY <1>6, <1>7, <3>2, Zenon
    <3>3. QED BY <1>1, <3>1, <3>2
  <2>2. QED BY <2>1
<1> DEFINE F == CHOOSE G : G = Def(G)
<1>9. F = Def(F)
  BY <1>8
<1>10. Submitted(s, order) = F[N]
  BY DEF Submitted, next
<1> HIDE DEF F
<1>11. F[0] = s /\ \A i \in 1..N : F[i] = next(F[i - 1], i)
  BY <1>7, <1>9, Zenon
<1>12. F[N] \in S
  <2> DEFINE D == {n \in Nat : n <= N => F[n] \in S}
  <2>1. 0 \in D
    BY <1>2, <1>11
  <2>2. ASSUME NEW n \in Nat, n \in D PROVE n + 1 \in D
    <3>1. SUFFICES ASSUME n + 1 <= N PROVE F[n + 1] \in S
      OBVIOUS
    <3>2. n + 1 \in 1..N /\ (n + 1) - 1 = n /\ F[n] \in S
      BY <1>1, <2>2, <3>1
    <3>3. QED BY <1>3, <1>11, <3>2
  <2> HIDE DEF D
  <2>3. Nat \subseteq D
    BY <2>1, <2>2, NatSetInduction
  <2>4. QED BY <1>1, <2>3 DEF D
<1>13. QED BY <1>10, <1>12 DEF S

\* The owner takes a completion: it mirrors a current one.
LEMMA DeliveredKeeps ==
  ASSUME NEW s, StateInv(s), s.done # <<>>, NEW u \in States, u.done = Tail(s.done),
         u.router = IF Head(s.done).error = "none" /\ Head(s.done).gen = s.control.gen
                    THEN Mirrored(s.router, Head(s.done)) ELSE s.router,
         u.control = s.control, u.actor = s.actor, u.queue = s.queue, u.pub = s.pub,
         u.job = s.job
  PROVE /\ BumpSafe(u)
        /\ ~Refusal(Head(s.done), s.control) =>
              StateInv(u) /\ \A t \in Tokens : Restoring(s, t) => Restoring(u, t)
<1> DEFINE h == Head(s.done)
           n == Len(s.done)
<1>0. /\ s \in States /\ s.done \in Seq(Completions) /\ n \in Nat /\ n > 0 /\ h = s.done[1]
      /\ h \in Completions
  <2>1. s \in States /\ s.done \in Seq(Completions)
    BY DEF StateInv, States
  <2>2. n \in Nat /\ n > 0 /\ h = s.done[1] /\ 1 \in 1..n
    BY <2>1, EmptySeq, LenProperties
  <2>3. h \in Completions
    BY <2>1, <2>2, ElementOfSeq
  <2>4. QED BY <2>1, <2>2, <2>3
<1>1. /\ Len(u.done) = n - 1
      /\ \A i \in 1..(n - 1) : u.done[i] = s.done[i + 1] /\ i + 1 \in 1..n
  BY <1>0, HeadTailProperties
<1>2. \A i \in 1..n : i = 1 \/ (i - 1 \in 1..(n - 1) /\ u.done[i - 1] = s.done[i])
  BY <1>0, <1>1
<1> HIDE DEF h, n
<1>3. \A t \in Tokens :
        u.router[t] = IF Touches(h, s.control, t) THEN Outcome(h, t) ELSE s.router[t]
  <2>1. \A t \in Tokens :
          Mirrored(s.router, h)[t] = IF h.completed[t] # None THEN None
                                     ELSE IF h.started[t] # None THEN h.started[t]
                                     ELSE s.router[t]
    BY DEF Mirrored, Override
  <2>2. QED BY <2>1 DEF Touches, Outcome, h
<1>4. StartedIsNew(u.actor, u.router, u.done, u.job)
  <2>1. StartedIsNew(s.actor, s.router, s.done, s.job)
    BY DEF StateInv, AgesOK
  <2>2. \A t \in Tokens : s.actor.work.started[t] # None =>
          /\ u.router[t] # s.actor.work.started[t]
          /\ \A i \in 1..Len(u.done) : u.done[i].started[t] # s.actor.work.started[t]
    <3>1. \A t \in Tokens : s.actor.work.started[t] # None =>
            h.started[t] # s.actor.work.started[t]
      BY <1>0, <2>1 DEF StartedIsNew, n
    <3>2. QED BY <1>1, <1>3, <2>1, <3>1 DEF StartedIsNew, Outcome, n
  <2>3. QED BY <2>1, <2>2 DEF StartedIsNew
<1>5. BumpSafe(u)
  <2>1. OldJobIsSuperseded(u.control, u.actor, u.job)
    BY DEF StateInv, AgesOK
  <2>2. u.actor.work = NoWork \/ u.actor.work.gen = u.actor.gen
    BY DEF StateInv, MirrorsOK, Admitted
  <2>3. QED BY <1>4, <2>1, <2>2 DEF BumpSafe
<1>6. ASSUME ~Refusal(h, s.control)
      PROVE StateInv(u) /\ \A t \in Tokens : Restoring(s, t) => Restoring(u, t)
  <2>1. AgesOK(u)
    BY <1>4 DEF StateInv, AgesOK
  <2>2. u.actor.open => RouterCatchesUp(u.control, u.router, u.done)
    <3> DEFINE c == s.control
               d == u.done
               r == u.router
    <3> SUFFICES ASSUME u.actor.open PROVE RouterCatchesUp(c, r, d)
      OBVIOUS
    <3> SUFFICES ASSUME NEW t \in Tokens
                 PROVE /\ (\A i \in 1..Len(u.done) : ~Touches(u.done[i], s.control, t))
                             => s.control.attempts[t] = u.router[t]
                       /\ \A i \in 1..Len(u.done) :
                            /\ Touches(u.done[i], s.control, t)
                            /\ \A k \in (i + 1)..Len(u.done) : ~Touches(u.done[k], s.control, t)
                            => s.control.attempts[t] = Outcome(u.done[i], t)
      <4> HIDE DEF c, d, r
      <4>1. QED BY Zenon DEF RouterCatchesUp, c, d, r
    <3>1. RouterCatchesUp(s.control, s.router, s.done)
      BY DEF StateInv, MirrorsOK
    <3>2. (\A i \in 1..n : ~Touches(s.done[i], s.control, t)) => s.control.attempts[t] = s.router[t]
      BY <3>1 DEF RouterCatchesUp, n
    <3>3. \A i \in 1..n : /\ Touches(s.done[i], s.control, t)
                          /\ \A k \in (i + 1)..n : ~Touches(s.done[k], s.control, t)
                          => s.control.attempts[t] = Outcome(s.done[i], t)
      BY <3>1 DEF RouterCatchesUp, n
    <3>4. ASSUME \A i \in 1..Len(u.done) : ~Touches(u.done[i], s.control, t)
          PROVE s.control.attempts[t] = u.router[t]
      <4>1. \A i \in 1..n : i = 1 \/ ~Touches(s.done[i], s.control, t)
        BY <1>1, <1>2, <3>4
      <4>2. CASE Touches(h, s.control, t)
        <5>1. \A k \in 2..n : ~Touches(s.done[k], s.control, t)
          BY <1>0, <4>1
        <5>2. 1 \in 1..n /\ 1 + 1 = 2
          BY <1>0
        <5>3. s.control.attempts[t] = Outcome(h, t)
          BY <1>0, <3>3, <4>2, <5>1, <5>2
        <5>4. QED BY <1>3, <4>2, <5>3
      <4>3. CASE ~Touches(h, s.control, t)
        BY <1>0, <1>3, <3>2, <4>1, <4>3
      <4>4. QED BY <4>2, <4>3
    <3>5. ASSUME NEW i \in 1..Len(u.done), Touches(u.done[i], s.control, t),
                 \A k \in (i + 1)..Len(u.done) : ~Touches(u.done[k], s.control, t)
          PROVE s.control.attempts[t] = Outcome(u.done[i], t)
      <4>1. i + 1 \in 1..n /\ s.done[i + 1] = u.done[i]
        BY <1>1
      <4>2. \A k \in (i + 2)..n : ~Touches(s.done[k], s.control, t)
        <5> SUFFICES ASSUME NEW k \in (i + 2)..n PROVE ~Touches(s.done[k], s.control, t)
          OBVIOUS
        <5>1. k \in 1..n /\ k # 1 /\ k - 1 \in (i + 1)..Len(u.done)
          BY <1>0, <1>1
        <5>2. QED BY <1>2, <3>5, <5>1
      <4>3. (i + 1) + 1 = i + 2
        BY <1>0, <1>1
      <4>4. QED BY <3>3, <3>5, <4>1, <4>2, <4>3
    <3>6. QED BY <3>4, <3>5
  <2>3. u.actor.open => ReducerIsAhead(u.control, u.actor, u.done)
    <3>1. ASSUME \A i \in 1..Len(u.done) : ~Refusal(u.done[i], s.control)
          PROVE \A i \in 1..n : ~Refusal(s.done[i], s.control)
      BY <1>0, <1>1, <1>2, <1>6, <3>1
    <3>2. QED BY <3>1 DEF StateInv, MirrorsOK, ReducerIsAhead, n
  <2>4. Admitted(u.control, u.actor, u.queue, u.done)
    <3>1. Admitted(s.control, s.actor, s.queue, s.done)
      BY DEF StateInv, MirrorsOK
    <3>2. QED BY <1>1, <3>1 DEF Admitted, n
  <2>5. PendingIsTotal(u.control, u.router, u.actor, u.queue, u.done)
    <3>1. PendingIsTotal(s.control, s.router, s.actor, s.queue, s.done)
      BY DEF StateInv, ServedOK
    <3>2. Held(s.control.pending) # {} =>
             /\ ~(h.error = "none" /\ h.gen = s.control.gen)
             /\ \A i \in 1..Len(u.done) : u.done[i].error = "none" => u.done[i].gen # s.control.gen
      BY <1>0, <1>1, <3>1 DEF PendingIsTotal, n
    <3>3. QED BY <3>1, <3>2 DEF PendingIsTotal, h
  <2>6. StateInv(u)
    BY <2>1, <2>2, <2>3, <2>4, <2>5 DEF StateInv, MirrorsOK, ServedOK
  <2>7. \A i \in 1..n : Refusal(s.done[i], s.control) =>
            \E k \in 1..Len(u.done) : Refusal(u.done[k], u.control)
    BY <1>0, <1>1, <1>2, <1>6
  <2>8. QED BY <2>6, <2>7 DEF Restoring, n
<1>7. QED BY <1>5, <1>6 DEF h

\* A job that asks for what the router recovers now, or none.
LEMMA JobChanges ==
  ASSUME NEW s, StateInv(s), NEW j \in Jobs, NEW u, u = [s EXCEPT !.job = j],
         \A t \in Tokens : j.attempts[t] # None => /\ j.attempts[t] = s.router[t]
                                                   /\ j.age[t] = "fresh"
  PROVE /\ StateInv(u) /\ u.pub = s.pub /\ u.control = s.control
        /\ \A t \in Tokens : Restoring(s, t) => Restoring(u, t)
<1>1. /\ u \in States /\ u.control = s.control /\ u.router = s.router /\ u.actor = s.actor
      /\ u.queue = s.queue /\ u.done = s.done /\ u.pub = s.pub /\ u.job = j
  BY DEF StateInv, States
<1>2. OldJobIsSuperseded(u.control, u.actor, u.job)
  BY <1>1 DEF OldJobIsSuperseded
<1>3. StartedIsNew(u.actor, u.router, u.done, u.job)
  <2>1. StartedIsNew(s.actor, s.router, s.done, s.job)
    BY DEF StateInv, AgesOK
  <2>2. \A t \in Tokens : s.actor.work.started[t] # None => j.attempts[t] # s.actor.work.started[t]
    BY <2>1 DEF StartedIsNew
  <2>3. QED BY <1>1, <2>1, <2>2 DEF StartedIsNew
<1>4. AgesOK(u) /\ MirrorsOK(u) /\ ServedOK(u)
  BY <1>1, <1>2, <1>3 DEF StateInv, AgesOK, MirrorsOK, ServedOK
<1>5. QED BY <1>1, <1>4 DEF StateInv, Restoring

LEMMA WithJobKeeps ==
  ASSUME NEW s, StateInv(s)
  PROVE LET u == WithJob(s)
        IN /\ StateInv(u) /\ u.pub = s.pub /\ u.control = s.control
           /\ \A t \in Tokens : Restoring(s, t) => Restoring(u, t)
<1> DEFINE j == [on |-> TRUE, attempts |-> s.router, age |-> BooksOf(Tokens, "fresh")]
           u == [s EXCEPT !.job = j]
<1>1. j \in Jobs /\ j.attempts = s.router /\ \A t \in Tokens : j.age[t] = "fresh"
  BY DEF StateInv, States, Jobs, BooksOf, BookMap, Ages
<1>2. WithJob(s) = s \/ WithJob(s) = u
  BY DEF WithJob
<1> HIDE DEF j
<1>3. /\ StateInv(u) /\ u.pub = s.pub /\ u.control = s.control
      /\ \A t \in Tokens : Restoring(s, t) => Restoring(u, t)
  BY <1>1, JobChanges
<1> HIDE DEF u
<1>4. QED BY <1>2, <1>3

LEMMA NoJobKeeps ==
  ASSUME NEW s, StateInv(s)
  PROVE LET u == [s EXCEPT !.job = NoJob]
        IN /\ StateInv(u) /\ u.pub = s.pub /\ u.control = s.control
           /\ \A t \in Tokens : Restoring(s, t) => Restoring(u, t)
<1>1. NoJob \in Jobs /\ \A t \in Tokens : NoJob.attempts[t] = None
  BY MapsAre DEF NoJob, Jobs
<1> DEFINE j == NoJob
           u == [s EXCEPT !.job = j]
<1> HIDE DEF j
<1>2. /\ StateInv(u) /\ u.pub = s.pub /\ u.control = s.control
      /\ \A t \in Tokens : Restoring(s, t) => Restoring(u, t)
  BY <1>1, JobChanges DEF j
<1>3. QED BY <1>2 DEF j

\* A new actor starts with the router's recoveries and an empty queue.
LEMMA RestartKeeps ==
  ASSUME NEW s, StateInv(s), s.router = s.control.attempts, RecKnown(s),
         \A t \in Tokens : s.control.attempts[t] # None
  PROVE LET u == Restarted(s)
        IN /\ StateInv(u) /\ u.pub = s.pub /\ RecKnown(u)
           /\ \A t \in Tokens : Restoring(u, t)
<1> DEFINE a == NewActor(s)
           u == Restarted(s)
           e == << >>
<1>1. /\ a \in Actors /\ a.gen = s.control.gen /\ a.rec = s.router /\ a.work = NoWork
      /\ \A t \in Tokens : a.book[t] = "none"
  BY MapsAre DEF NewActor, Actors, StateInv, States, Controls
<1>2. e \in Seq(Inputs) /\ e \in Seq(Completions) /\ Len(e) = 0
  BY EmptySeq
<1>3. u = [s EXCEPT !.actor = a, !.queue = e, !.done = e]
  BY DEF Restarted
<1> HIDE DEF a, e
<1>4. /\ u \in States /\ u.control = s.control /\ u.router = s.router /\ u.actor = a
      /\ u.queue = e /\ u.done = e /\ u.pub = s.pub /\ u.job = s.job
  BY <1>1, <1>2, <1>3 DEF StateInv, States
<1> HIDE DEF u
<1>5. /\ \A t \in Tokens : /\ NoWork.started[t] = None /\ NoWork.completed[t] = None
                           /\ NoWork.books[t] = "none"
      /\ \A i \in 1..Len(e) : FALSE
  BY <1>2, MapsAre DEF NoWork
<1>6. AgesOK(u)
  <2>1. HiddenIfOld(u.pub)
    BY <1>4 DEF StateInv, AgesOK
  <2>2. CurrentIsNew(u.control, u.actor)
    BY <1>1, <1>4, <1>5 DEF CurrentIsNew
  <2>3. OldIsSuperseded(u.control, u.actor, u.queue)
    BY <1>4, <1>5 DEF OldIsSuperseded
  <2>4. RecOf(u.control, u.actor) = s.control.attempts
    BY <1>1, <1>4 DEF RecOf
  <2>5. OldJobIsSuperseded(u.control, u.actor, u.job)
    BY <1>4, <2>4 DEF StateInv, AgesOK, OldJobIsSuperseded
  <2>6. StartedIsNew(u.actor, u.router, u.done, u.job)
    BY <1>1, <1>4, <1>5 DEF StartedIsNew
  <2>7. QED BY <2>1, <2>2, <2>3, <2>5, <2>6 DEF AgesOK
<1>7. MirrorsOK(u)
  <2>1. RouterCatchesUp(u.control, u.router, u.done)
    BY <1>4, <1>5 DEF RouterCatchesUp
  <2>2. ReducerIsAhead(u.control, u.actor, u.done)
    BY <1>1, <1>4, <1>5 DEF ReducerIsAhead, Mirrored, Override
  <2>3. Admitted(u.control, u.actor, u.queue, u.done)
    BY <1>1, <1>4, <1>5 DEF Admitted
  <2>4. QED BY <2>1, <2>2, <2>3 DEF MirrorsOK
<1>8. PendingIsTotal(u.control, u.router, u.actor, u.queue, u.done)
  BY <1>1, <1>4, <1>5 DEF PendingIsTotal
<1>9. StateInv(u)
  BY <1>4, <1>6, <1>7, <1>8 DEF StateInv, ServedOK
<1>10. RecKnown(u) /\ \A t \in Tokens : Restoring(u, t)
  BY <1>4 DEF RecKnown, Restoring
<1>11. QED BY <1>4, <1>9, <1>10 DEF u

-----------------------------------------------------------------------------
(* The reducer.                                                            *)

LEMMA InvalidatedIs ==
  ASSUME NEW a \in Actors, NEW ids \in IdMap
  PROVE LET b == Invalidated(a, ids)
        IN /\ b \in Actors /\ b.gen = a.gen /\ b.open = a.open /\ b.work = a.work
           /\ \A t \in Tokens :
                /\ b.rec[t] = IF ids[t] # None THEN ids[t] ELSE a.rec[t]
                /\ b.book[t] = IF ids[t] # None THEN "none" ELSE a.book[t]
<1> DEFINE rec == Override(a.rec, ids)
           wait == a.wait \cup Held(ids)
           book == [t \in Tokens |-> IF t \in Held(ids) THEN "none" ELSE a.book[t]]
           b == Invalidated(a, ids)
<1>1. b = [a EXCEPT !.rec = rec, !.wait = wait, !.book = book]
  BY DEF Invalidated
<1>2. a.rec \in IdMap /\ a.book \in BookMap /\ a.wait \in SUBSET Tokens
  BY DEF Actors
<1>3. rec \in IdMap /\ \A t \in Tokens : rec[t] = IF ids[t] # None THEN ids[t] ELSE a.rec[t]
  BY <1>2 DEF Override, IdMap
<1>4. book \in BookMap /\ \A t \in Tokens : book[t] = IF ids[t] # None THEN "none" ELSE a.book[t]
  BY <1>2 DEF BookMap, Ages, Held
<1>5. wait \in SUBSET Tokens
  BY <1>2 DEF Held
<1> HIDE DEF rec, book, wait
<1>6. /\ b \in Actors /\ b.gen = a.gen /\ b.open = a.open /\ b.work = a.work
      /\ b.rec = rec /\ b.book = book
  BY <1>1, <1>3, <1>4, <1>5 DEF Actors
<1> HIDE DEF b
<1>7. QED BY <1>3, <1>4, <1>6 DEF b

LEMMA SeededIs ==
  ASSUME NEW a \in Actors, NEW T \in SUBSET Tokens, NEW age \in Ages, NEW ids \in IdMap
  PROVE LET b == Seeded(a, T, age, ids)
        IN /\ b \in Actors /\ b.gen = a.gen /\ b.open = a.open /\ b.work = a.work
           /\ \A t \in Tokens :
                /\ b.rec[t] = IF ids[t] # None THEN None ELSE a.rec[t]
                /\ b.book[t] = IF t \in T THEN age ELSE a.book[t]
<1> DEFINE rec == [t \in Tokens |-> IF ids[t] # None THEN None ELSE a.rec[t]]
           wait == a.wait \ T
           book == [t \in Tokens |-> IF t \in T THEN age ELSE a.book[t]]
           b == Seeded(a, T, age, ids)
<1>1. b = [a EXCEPT !.wait = wait, !.book = book, !.rec = rec]
  BY DEF Seeded
<1>2. a.rec \in IdMap /\ a.book \in BookMap /\ a.wait \in SUBSET Tokens
  BY DEF Actors
<1>3. rec \in IdMap /\ book \in BookMap /\ wait \in SUBSET Tokens
  BY <1>2 DEF IdMap, BookMap, None
<1>4. \A t \in Tokens : /\ rec[t] = IF ids[t] # None THEN None ELSE a.rec[t]
                        /\ book[t] = IF t \in T THEN age ELSE a.book[t]
  OBVIOUS
<1> HIDE DEF rec, book, wait
<1>5. /\ b \in Actors /\ b.gen = a.gen /\ b.open = a.open /\ b.work = a.work
      /\ b.rec = rec /\ b.book = book
  BY <1>1, <1>3 DEF Actors
<1> HIDE DEF b
<1>6. QED BY <1>4, <1>5 DEF b

\* What an input makes of the reducer: it is ahead by the group it wants published.
Follows(a, b, in, id) ==
    /\ b \in Actors /\ b.gen = a.gen /\ b.open = a.open
    /\ b.work = NoWork \/ (b.work.gen = in.gen /\ b.work.kind = in.kind)
    /\ \A t \in Tokens :
         /\ b.rec[t] = IF b.work.completed[t] # None THEN None
                       ELSE IF b.work.started[t] # None THEN b.work.started[t] ELSE a.rec[t]
         /\ b.work.started[t] \in {None, id}
         /\ b.book[t] # "old" /\ b.work.books[t] # "old"
         /\ b.work.completed[t] # None => b.work.books[t] # "none"
         /\ b.work.kind \in {"delta", "checkpoint"} =>
               b.work.started[t] = None /\ b.work.completed[t] = None
         /\ in.kind = "book" /\ t \in in.tokens => b.work # NoWork /\ b.work.books[t] # "none"
LEMMA ReducedIs ==
  ASSUME NEW a \in Actors, a.work = NoWork, NEW in \in Inputs, NEW id \in Nat \ {0},
         \A t \in Tokens : a.book[t] # "old", in.age # "old",
         NEW b, b = [Reduced(a, in, id).actor EXCEPT !.work = Reduced(a, in, id).work]
  PROVE Follows(a, b, in, id)
<1> DEFINE ids(T) == [t \in Tokens |-> IF t \in T THEN id ELSE None]
           r == Reduced(a, in, id)
<1>1. /\ a.gen \in Nat /\ a.rec \in IdMap /\ a.book \in BookMap /\ a.wait \in SUBSET Tokens
      /\ in.gen \in Nat /\ in.kind \in InputKinds /\ in.tokens \in SUBSET Tokens
      /\ in.recovery \in IdMap /\ in.age \in Ages /\ in.age # "none"
  BY DEF Actors, Inputs
<1>2. \A T \in SUBSET Tokens : /\ ids(T) \in IdMap
                               /\ \A t \in Tokens : ids(T)[t] = IF t \in T THEN id ELSE None
  BY DEF IdMap, None
<1>3. ASSUME NEW x \in Actors, x.gen = a.gen, x.open = a.open, NEW w \in Works, b = [x EXCEPT !.work = w]
      PROVE /\ b \in Actors /\ b.gen = a.gen /\ b.open = a.open /\ b.rec = x.rec
            /\ b.book = x.book /\ b.work = w
  BY <1>3 DEF Actors
<1>4. /\ NoWork \in Works /\ NoWork.kind = "none"
      /\ \A t \in Tokens : NoWork.started[t] = None /\ NoWork.completed[t] = None
                           /\ NoWork.books[t] = "none"
  BY MapsAre DEF NoWork
<1>5. ASSUME NEW st \in IdMap, NEW bk \in BookMap, NEW co \in IdMap
      PROVE LET w == Work(in, st, bk, co)
            IN /\ w \in Works /\ w.gen = in.gen /\ w.kind = in.kind /\ w.started = st
               /\ w.books = bk /\ w.completed = co
  BY <1>1 DEF Work, Works, Kinds
<1>6. CASE r = [actor |-> a, work |-> NoWork]
  <2>1. b = [a EXCEPT !.work = NoWork]
    BY <1>6
  <2>2. b \in Actors /\ b.gen = a.gen /\ b.open = a.open /\ b.rec = a.rec /\ b.book = a.book
        /\ b.work = NoWork
    BY <1>3, <1>4, <2>1
  <2>3. in.kind # "book"
    BY <1>6 DEF Reduced, Work, NoWork
  <2>4. QED BY <1>4, <2>2, <2>3 DEF Follows
<1>7. CASE in.kind = "delta" /\ r # [actor |-> a, work |-> NoWork]
  <2> DEFINE bk == OnlyBooks(a.book, in.tokens)
             w == Work(in, Nothing, bk, Nothing)
  <2>1. r = [actor |-> a, work |-> w]
    BY <1>7 DEF Reduced
  <2>2. bk \in BookMap /\ \A t \in Tokens : bk[t] # "old"
    BY <1>1 DEF OnlyBooks, BookMap, Ages
  <2> HIDE DEF bk
  <2>3. /\ w \in Works /\ w.gen = in.gen /\ w.kind = in.kind /\ w.started = Nothing
        /\ w.books = bk /\ w.completed = Nothing
    BY <1>5, <2>2, MapsAre
  <2>4. b = [a EXCEPT !.work = w]
    BY <2>1
  <2> HIDE DEF w
  <2>5. b \in Actors /\ b.gen = a.gen /\ b.open = a.open /\ b.rec = a.rec /\ b.book = a.book
        /\ b.work = w
    BY <1>3, <2>3, <2>4
  <2>6. QED BY <1>7, <2>2, <2>3, <2>5, MapsAre DEF Follows
<1>8. CASE in.kind = "book"
  <2> DEFINE co == Only(a.rec, in.tokens)
             bk == BooksOf(in.tokens, in.age)
             x == Seeded(a, in.tokens, in.age, co)
             w == Work(in, Nothing, bk, co)
  <2>1. r = [actor |-> x, work |-> w]
    BY <1>8 DEF Reduced
  <2>2. /\ bk \in BookMap /\ co \in IdMap
        /\ \A t \in Tokens : /\ bk[t] = IF t \in in.tokens THEN in.age ELSE "none"
                             /\ co[t] = IF t \in in.tokens THEN a.rec[t] ELSE None
    BY <1>1 DEF BooksOf, BookMap, Only, IdMap, Ages, None
  <2> HIDE DEF bk, co
  <2>3. /\ w \in Works /\ w.gen = in.gen /\ w.kind = in.kind /\ w.started = Nothing
        /\ w.books = bk /\ w.completed = co
    BY <1>5, <2>2, MapsAre
  <2>4. /\ x \in Actors /\ x.gen = a.gen /\ x.open = a.open
        /\ \A t \in Tokens : /\ x.rec[t] = IF co[t] # None THEN None ELSE a.rec[t]
                             /\ x.book[t] = IF t \in in.tokens THEN in.age ELSE a.book[t]
    BY <1>1, <2>2, SeededIs
  <2>5. b = [x EXCEPT !.work = w]
    BY <2>1
  <2> HIDE DEF w, x
  <2>6. b \in Actors /\ b.gen = a.gen /\ b.open = a.open /\ b.rec = x.rec /\ b.book = x.book
        /\ b.work = w
    BY <1>3, <2>3, <2>4, <2>5
  <2>7. w # NoWork
    BY <1>4, <1>8, <2>3
  <2>8. QED BY <1>1, <1>8, <2>2, <2>3, <2>4, <2>6, <2>7, MapsAre DEF Follows
<1>9. ASSUME NEW T \in SUBSET Tokens, in.kind \in {"gap", "bad"},
             r = [actor |-> Invalidated(a, ids(T)), work |-> Work(in, ids(T), NoBooks, Nothing)]
      PROVE Follows(a, b, in, id)
  <2> DEFINE st == ids(T)
             x == Invalidated(a, st)
             w == Work(in, st, NoBooks, Nothing)
  <2>1. st \in IdMap /\ \A t \in Tokens : st[t] = IF t \in T THEN id ELSE None
    BY <1>2
  <2>2. b = [x EXCEPT !.work = w]
    BY <1>9
  <2> HIDE DEF st
  <2>3. /\ w \in Works /\ w.gen = in.gen /\ w.kind = in.kind /\ w.started = st
        /\ w.books = NoBooks /\ w.completed = Nothing
    BY <1>5, <2>1, MapsAre
  <2>4. /\ x \in Actors /\ x.gen = a.gen /\ x.open = a.open
        /\ \A t \in Tokens : /\ x.rec[t] = IF st[t] # None THEN st[t] ELSE a.rec[t]
                             /\ x.book[t] = IF st[t] # None THEN "none" ELSE a.book[t]
    BY <2>1, InvalidatedIs
  <2> HIDE DEF w, x
  <2>5. b \in Actors /\ b.gen = a.gen /\ b.open = a.open /\ b.rec = x.rec /\ b.book = x.book
        /\ b.work = w
    BY <1>3, <2>2, <2>3, <2>4
  <2>6. QED BY <1>9, <2>1, <2>3, <2>4, <2>5, MapsAre DEF Follows
<1>10. CASE in.kind = "rest"
  <2> DEFINE co == [t \in Tokens |-> IF in.recovery[t] = a.rec[t] THEN a.rec[t] ELSE None]
             bk == BooksOf(Tokens, in.age)
             x == Seeded(a, Tokens, in.age, co)
             w == Work(in, Nothing, bk, co)
  <2>1. r = [actor |-> x, work |-> w]
    BY <1>10 DEF Reduced
  <2>2. /\ bk \in BookMap /\ co \in IdMap /\ Tokens \in SUBSET Tokens
        /\ \A t \in Tokens : /\ bk[t] = in.age
                             /\ co[t] # None => co[t] = a.rec[t]
    BY <1>1 DEF BooksOf, BookMap, IdMap, None
  <2> HIDE DEF bk, co
  <2>3. /\ w \in Works /\ w.gen = in.gen /\ w.kind = in.kind /\ w.started = Nothing
        /\ w.books = bk /\ w.completed = co
    BY <1>5, <2>2, MapsAre
  <2>4. /\ x \in Actors /\ x.gen = a.gen /\ x.open = a.open
        /\ \A t \in Tokens : /\ x.rec[t] = IF co[t] # None THEN None ELSE a.rec[t]
                             /\ x.book[t] = in.age
    BY <1>1, <2>2, SeededIs
  <2>5. b = [x EXCEPT !.work = w]
    BY <2>1
  <2> HIDE DEF w, x
  <2>6. b \in Actors /\ b.gen = a.gen /\ b.open = a.open /\ b.rec = x.rec /\ b.book = x.book
        /\ b.work = w
    BY <1>3, <2>3, <2>4, <2>5
  <2>7. QED BY <1>1, <1>10, <2>2, <2>3, <2>4, <2>6, MapsAre DEF Follows
<1>11. CASE in.kind = "replacement"
  <2> DEFINE st == ids(Tokens)
             bk == BooksOf(Tokens, in.age)
             y == Invalidated(a, st)
             x == Seeded(y, Tokens, in.age, st)
             w == Work(in, st, bk, st)
  <2>1. r = [actor |-> x, work |-> w]
    BY <1>11 DEF Reduced
  <2>2. /\ bk \in BookMap /\ st \in IdMap /\ Tokens \in SUBSET Tokens
        /\ \A t \in Tokens : bk[t] = in.age /\ st[t] = id
    BY <1>1, <1>2 DEF BooksOf, BookMap
  <2> HIDE DEF bk, st
  <2>3. /\ w \in Works /\ w.gen = in.gen /\ w.kind = in.kind /\ w.started = st
        /\ w.books = bk /\ w.completed = st
    BY <1>5, <2>2
  <2>4. y \in Actors /\ y.gen = a.gen /\ y.open = a.open
    BY <2>2, InvalidatedIs
  <2>5. /\ x \in Actors /\ x.gen = y.gen /\ x.open = y.open
        /\ \A t \in Tokens : /\ x.rec[t] = IF st[t] # None THEN None ELSE y.rec[t]
                             /\ x.book[t] = in.age
    BY <1>1, <2>2, <2>4, SeededIs
  <2>6. b = [x EXCEPT !.work = w]
    BY <2>1
  <2> HIDE DEF w, x, y
  <2>7. b \in Actors /\ b.gen = a.gen /\ b.open = a.open /\ b.rec = x.rec /\ b.book = x.book
        /\ b.work = w
    BY <1>3, <2>3, <2>4, <2>5, <2>6
  <2>8. QED BY <1>1, <1>11, <2>2, <2>3, <2>5, <2>7 DEF Follows, None
<1>12. CASE in.kind = "checkpoint" /\ r # [actor |-> a, work |-> NoWork]
  <2> DEFINE bk == BooksOf(Tokens, in.age)
             w == Work(in, Nothing, bk, Nothing)
  <2>1. r = [actor |-> a, work |-> w]
    BY <1>12 DEF Reduced
  <2>2. bk \in BookMap /\ \A t \in Tokens : bk[t] # "old"
    BY <1>1 DEF BooksOf, BookMap
  <2> HIDE DEF bk
  <2>3. /\ w \in Works /\ w.gen = in.gen /\ w.kind = in.kind /\ w.started = Nothing
        /\ w.books = bk /\ w.completed = Nothing
    BY <1>5, <2>2, MapsAre
  <2>4. b = [a EXCEPT !.work = w]
    BY <2>1
  <2> HIDE DEF w
  <2>5. b \in Actors /\ b.gen = a.gen /\ b.open = a.open /\ b.rec = a.rec /\ b.book = a.book
        /\ b.work = w
    BY <1>3, <2>3, <2>4
  <2>6. QED BY <1>12, <2>2, <2>3, <2>5, MapsAre DEF Follows
<1>13. QED
  <2>1. CASE in.kind = "gap"
    <3> DEFINE T == Tokens \ Held(a.rec)
    <3>1. r = [actor |-> a, work |-> NoWork]
          \/ r = [actor |-> Invalidated(a, ids(T)), work |-> Work(in, ids(T), NoBooks, Nothing)]
      BY <2>1 DEF Reduced
    <3>2. QED BY <1>6, <1>9, <2>1, <3>1
  <2>2. CASE in.kind = "bad"
    <3> DEFINE T == in.tokens
    <3>1. r = [actor |-> a, work |-> NoWork]
          \/ r = [actor |-> Invalidated(a, ids(T)), work |-> Work(in, ids(T), NoBooks, Nothing)]
      BY <2>2 DEF Reduced
    <3>2. QED BY <1>1, <1>6, <1>9, <2>2, <3>1
  <2>3. QED BY <1>1, <1>6, <1>7, <1>8, <1>10, <1>11, <1>12, <2>1, <2>2 DEF InputKinds

\* The reducer takes an input and follows the generation.
SyncedTo(c, a) == IF a.gen = c.gen THEN a
                  ELSE [a EXCEPT !.gen = c.gen, !.wait = Tokens, !.book = NoBooks,
                                 !.rec = c.attempts]
FullBook(in, c, t) == /\ in.gen = c.gen /\ in.kind = "book" /\ t \in in.tokens
                      /\ Held(in.recovery) = {}
LEMMA TakeKeeps ==
  ASSUME NEW s, StateInv(s), s.queue # <<>>, s.actor.work = NoWork,
         NEW a, a = s.actor \/ a = SyncedTo(s.control, s.actor),
         NEW u \in States, u.actor = a, u.queue = Tail(s.queue), u.control = s.control,
         u.router = s.router, u.done = s.done, u.pub = s.pub, u.job = s.job
  PROVE /\ StateInv(u) /\ u.pub = s.pub /\ u.control = s.control
        /\ RecOf(u.control, u.actor) = RecOf(s.control, s.actor)
        /\ \A t \in Tokens : Restoring(s, t) =>
              Restoring(u, t) \/ FullBook(Head(s.queue), s.control, t)
<1> DEFINE n == Len(s.queue)
           h == Head(s.queue)
<1>0. s \in States /\ s.queue \in Seq(Inputs) /\ n \in Nat /\ n > 0 /\ h = s.queue[1]
  BY EmptySeq, LenProperties DEF StateInv, States
<1>1. /\ Tail(s.queue) \in Seq(Inputs) /\ Len(Tail(s.queue)) = n - 1
      /\ \A i \in 1..(n - 1) : Tail(s.queue)[i] = s.queue[i + 1] /\ i + 1 \in 1..n
  BY <1>0, HeadTailProperties
<1>2. /\ a \in Actors /\ a.work = NoWork /\ a.open = s.actor.open
      /\ a = s.actor \/ (/\ s.actor.gen # s.control.gen /\ a.gen = s.control.gen
                         /\ a.rec = s.control.attempts
                         /\ \A t \in Tokens : a.book[t] = "none")
  <2>1. s.actor \in Actors /\ s.control.gen \in Nat /\ s.control.attempts \in IdMap
    BY <1>0 DEF States, Controls
  <2>2. CASE a = s.actor
    BY <2>1, <2>2
  <2>3. CASE a = SyncedTo(s.control, s.actor) /\ a # s.actor
    BY ONLY <2>1, <2>3, s.actor.work = NoWork, MapsAre DEF SyncedTo, Actors
  <2>4. QED BY <2>2, <2>3
<1>3. /\ u \in States /\ u.control = s.control /\ u.router = s.router /\ u.actor = a
      /\ u.queue = Tail(s.queue) /\ u.done = s.done /\ u.pub = s.pub /\ u.job = s.job
  BY <1>0, <1>1, <1>2 DEF States
<1>4. RecOf(u.control, u.actor) = RecOf(s.control, s.actor)
  BY <1>2, <1>3 DEF RecOf
<1>5. \A t \in Tokens : NoWork.started[t] = None /\ NoWork.completed[t] = None
                        /\ NoWork.books[t] = "none"
  BY MapsAre DEF NoWork
<1>6. AgesOK(u)
  <2>1. CurrentIsNew(u.control, u.actor)
    BY <1>2, <1>3, <1>5 DEF StateInv, AgesOK, CurrentIsNew
  <2>2. OldIsSuperseded(u.control, u.actor, u.queue)
    <3>1. OldIsSuperseded(s.control, s.actor, s.queue)
      BY DEF StateInv, AgesOK
    <3>2. SUFFICES ASSUME NEW i \in 1..Len(u.queue), u.queue[i].gen = u.control.gen,
                          u.queue[i].age = "old"
                   PROVE /\ Held(u.queue[i].recovery) # {}
                         /\ \A t \in Held(u.queue[i].recovery) :
                               RecOf(u.control, u.actor)[t] # u.queue[i].recovery[t]
      BY DEF OldIsSuperseded
    <3>3. i + 1 \in 1..n /\ u.queue[i] = s.queue[i + 1]
      BY <1>1, <1>3
    <3>4. QED BY <1>3, <1>4, <3>1, <3>2, <3>3 DEF OldIsSuperseded
  <2>3. OldJobIsSuperseded(u.control, u.actor, u.job)
    <3>1. OldJobIsSuperseded(s.control, s.actor, s.job)
      BY DEF StateInv, AgesOK
    <3>2. QED BY <1>3, <1>4, <3>1 DEF OldJobIsSuperseded
  <2>4. StartedIsNew(u.actor, u.router, u.done, u.job)
    BY <1>2, <1>3, <1>5 DEF StartedIsNew
  <2>5. HiddenIfOld(u.pub)
    BY <1>3 DEF StateInv, AgesOK
  <2>6. QED BY <2>1, <2>2, <2>3, <2>4, <2>5 DEF AgesOK
<1>7. MirrorsOK(u)
  <2>1. MirrorsOK(s)
    BY DEF StateInv
  <2>2. u.actor.open => RouterCatchesUp(u.control, u.router, u.done)
    BY <1>2, <1>3, <2>1 DEF MirrorsOK
  <2>3. u.actor.open => ReducerIsAhead(u.control, u.actor, u.done)
    BY <1>2, <1>3, <1>5, <2>1 DEF MirrorsOK, ReducerIsAhead, Mirrored, Override
  <2>4. Admitted(u.control, u.actor, u.queue, u.done)
    BY <1>1, <1>2, <1>3, <2>1 DEF MirrorsOK, Admitted
  <2>5. QED BY <2>2, <2>3, <2>4 DEF MirrorsOK
<1>8. ServedOK(u)
  <2>1. PendingIsTotal(s.control, s.router, s.actor, s.queue, s.done)
    BY DEF StateInv, ServedOK
  <2>2. PendingIsTotal(u.control, u.router, u.actor, u.queue, u.done)
    BY <1>1, <1>2, <1>3, <2>1 DEF PendingIsTotal
  <2>3. QED BY <1>3, <2>2 DEF StateInv, ServedOK
<1>9. \A t \in Tokens : Restoring(s, t) =>
         Restoring(u, t) \/ FullBook(Head(s.queue), s.control, t)
  <2>1. ASSUME NEW t \in Tokens, UnderWay(s.control, s.actor, s.queue, t)
        PROVE UnderWay(u.control, u.actor, u.queue, t) \/ FullBook(h, s.control, t)
    <3>1. PICK i \in 1..n : FullBook(s.queue[i], s.control, t)
      BY <1>5, <2>1 DEF UnderWay, FullBook
    <3>2. CASE i = 1
      BY <1>0, <3>1, <3>2
    <3>3. CASE i # 1
      <4>1. i - 1 \in 1..(n - 1) /\ (i - 1) + 1 = i
        BY <1>0, <3>3
      <4>2. u.queue[i - 1] = s.queue[i] /\ i - 1 \in 1..Len(u.queue)
        BY <1>1, <1>3, <4>1
      <4>3. QED BY <1>3, <3>1, <4>2 DEF UnderWay, FullBook
    <3>4. QED BY <3>2, <3>3
  <2>2. QED BY <1>2, <1>3, <2>1 DEF Restoring
<1>10. QED BY <1>3, <1>4, <1>6, <1>7, <1>8, <1>9 DEF StateInv

\* The group it wants published waits for the control lock.
LEMMA ReduceKeeps ==
  ASSUME NEW s, StateInv(s), s.actor.work = NoWork, s.actor.gen = s.control.gen,
         NEW in \in Inputs, in.gen = s.control.gen,
         in.kind # "checkpoint" => s.control.baseline, Held(s.control.pending) = {},
         NEW id, id # None,
         \A t \in Tokens : /\ id # s.router[t] /\ id # s.job.attempts[t]
                           /\ \A i \in 1..Len(s.queue) : id # s.queue[i].recovery[t]
                           /\ \A i \in 1..Len(s.done) : id # s.done[i].started[t],
         NEW b, Follows(s.actor, b, in, id), NEW u \in States, u.actor = b,
         u.queue = s.queue, u.control = s.control, u.router = s.router,
         u.done = s.done, u.pub = s.pub, u.job = s.job
  PROVE /\ StateInv(u) /\ u.pub = s.pub /\ u.control = s.control
        /\ \A t \in Tokens : Restoring(s, t) => Restoring(u, t)
        /\ in.kind = "book" => \A t \in in.tokens : Restoring(u, t)
<1>0. s \in States /\ s.actor \in Actors
  BY DEF StateInv, States
<1>1. /\ u \in States /\ u.control = s.control /\ u.router = s.router /\ u.actor = b
      /\ u.queue = s.queue /\ u.done = s.done /\ u.pub = s.pub /\ u.job = s.job
  BY <1>0 DEF States, Follows
<1>2. /\ b.gen = s.actor.gen /\ b.open = s.actor.open /\ b \in Actors
      /\ b.work = NoWork \/ (b.work.gen = in.gen /\ b.work.kind = in.kind)
  BY DEF Follows
<1>3. \A t \in Tokens :
         /\ b.rec[t] = IF b.work.completed[t] # None THEN None
                       ELSE IF b.work.started[t] # None THEN b.work.started[t]
                       ELSE s.actor.rec[t]
         /\ b.work.started[t] \in {None, id}
         /\ b.rec[t] \in {None, id, s.actor.rec[t]}
         /\ b.book[t] # "old" /\ b.work.books[t] # "old"
         /\ b.work.completed[t] # None => b.work.books[t] # "none"
         /\ b.work.kind \in {"delta", "checkpoint"} =>
               b.work.started[t] = None /\ b.work.completed[t] = None
  BY DEF Follows
<1>4. RecOf(s.control, s.actor) = s.actor.rec /\ RecOf(u.control, u.actor) = b.rec
  BY <1>1, <1>2 DEF RecOf
<1>5. AgesOK(u)
  <2>1. CurrentIsNew(u.control, u.actor)
    BY <1>1, <1>3 DEF CurrentIsNew
  <2>2. OldIsSuperseded(u.control, u.actor, u.queue)
    <3>1. OldIsSuperseded(s.control, s.actor, s.queue)
      BY DEF StateInv, AgesOK
    <3>2. \A i \in 1..Len(s.queue) : \A t \in Held(s.queue[i].recovery) :
             t \in Tokens /\ s.queue[i].recovery[t] # None
      BY DEF Held
    <3>3. QED BY <1>1, <1>3, <1>4, <3>1, <3>2 DEF OldIsSuperseded
  <2>3. OldJobIsSuperseded(u.control, u.actor, u.job)
    <3>1. OldJobIsSuperseded(s.control, s.actor, s.job)
      BY DEF StateInv, AgesOK
    <3>2. QED BY <1>1, <1>3, <1>4, <3>1 DEF OldJobIsSuperseded
  <2>4. StartedIsNew(u.actor, u.router, u.done, u.job)
    BY <1>1, <1>3 DEF StartedIsNew
  <2>5. HiddenIfOld(u.pub)
    BY <1>1 DEF StateInv, AgesOK
  <2>6. QED BY <2>1, <2>2, <2>3, <2>4, <2>5 DEF AgesOK
<1>6. MirrorsOK(u)
  <2>1. MirrorsOK(s)
    BY DEF StateInv
  <2>2. u.actor.open => RouterCatchesUp(u.control, u.router, u.done)
    BY <1>1, <1>2, <2>1 DEF MirrorsOK
  <2>3. u.actor.open => ReducerIsAhead(u.control, u.actor, u.done)
    <3> SUFFICES ASSUME u.actor.open, \A i \in 1..Len(u.done) : ~Refusal(u.done[i], u.control),
                        NEW t \in Tokens
                 PROVE u.actor.rec[t] = Mirrored(u.control.attempts, u.actor.work)[t]
      BY DEF ReducerIsAhead
    <3>1. s.actor.rec[t] = Mirrored(s.control.attempts, NoWork)[t]
      BY <1>1, <1>2, <2>1 DEF MirrorsOK, ReducerIsAhead
    <3>2. s.actor.rec[t] = s.control.attempts[t]
      BY <3>1, MapsAre DEF Mirrored, Override, NoWork
    <3>3. QED BY <1>1, <1>3, <3>2 DEF Mirrored, Override
  <2>4. Admitted(u.control, u.actor, u.queue, u.done)
    BY <1>1, <1>2, <2>1 DEF MirrorsOK, Admitted
  <2>5. QED BY <2>2, <2>3, <2>4 DEF MirrorsOK
<1>7. ServedOK(u)
  BY <1>1 DEF StateInv, ServedOK, PendingIsTotal
<1>8. \A t \in Tokens : Restoring(s, t) => Restoring(u, t)
  <2>1. \A t \in Tokens : NoWork.books[t] = "none"
    BY MapsAre DEF NoWork
  <2>2. QED BY <1>1, <1>2, <2>1 DEF Restoring, UnderWay
<1>9. in.kind = "book" => \A t \in in.tokens : Restoring(u, t)
  <2>1. in.tokens \subseteq Tokens
    BY DEF Inputs
  <2>2. in.kind = "book" => \A t \in in.tokens : b.work # NoWork /\ b.work.books[t] # "none"
    BY <2>1 DEF Follows
  <2>3. QED BY <1>1, <1>2, <2>1, <2>2 DEF Restoring, UnderWay
<1>10. QED BY <1>1, <1>5, <1>6, <1>7, <1>8, <1>9 DEF StateInv

\* A panic closes the actor; the error it leaves ends what was on its way.
LEMMA PanicKeeps ==
  ASSUME NEW s, StateInv(s), s.actor.work = NoWork, NEW k \in 0..Len(s.done),
         NEW e \in Completions, e.error = "worker", NEW u \in States, u.queue = <<>>,
         u.actor = [s.actor EXCEPT !.open = FALSE], u.done = Append(SubSeq(s.done, 1, k), e),
         u.control = s.control, u.router = s.router, u.pub = s.pub, u.job = s.job
  PROVE /\ StateInv(u) /\ u.pub = s.pub /\ u.control = s.control
        /\ \A t \in Tokens : Restoring(u, t)
<1> DEFINE n == Len(s.done)
           d == Append(SubSeq(s.done, 1, k), e)
           a == [s.actor EXCEPT !.open = FALSE]
           q == << >>
<1>0. s \in States /\ s.done \in Seq(Completions) /\ n \in Nat /\ s.actor \in Actors
  BY LenProperties DEF StateInv, States
<1>1. /\ d \in Seq(Completions) /\ Len(d) = k + 1
      /\ \A i \in 1..Len(d) : d[i] = e \/ (i \in 1..n /\ d[i] = s.done[i])
  <2> DEFINE p == SubSeq(s.done, 1, k)
  <2>1. /\ p \in Seq(Completions) /\ Len(p) = k
        /\ \A i \in 1..k : p[i] = s.done[i]
    <3>1. 1 \in 1..(n + 1) /\ k \in 0..n /\ k \in Nat
      BY <1>0
    <3>2. /\ p \in Seq(Completions) /\ Len(p) = IF 1 <= k THEN k - 1 + 1 ELSE 0
          /\ \A i \in 1..(k - 1 + 1) : p[i] = s.done[1 + i - 1]
      BY <1>0, <3>1, SubSeqProperties
    <3>3. \A i \in 1..k : i \in 1..(k - 1 + 1) /\ 1 + i - 1 = i
      BY <3>1
    <3>4. QED BY <3>1, <3>2, <3>3
  <2> HIDE DEF p
  <2>2. /\ d \in Seq(Completions) /\ Len(d) = k + 1 /\ d[k + 1] = e
        /\ \A i \in 1..k : d[i] = p[i]
    BY <2>1, AppendProperties DEF p
  <2>3. \A i \in 1..(k + 1) : i = k + 1 \/ (i \in 1..k /\ i \in 1..n)
    BY <1>0
  <2>4. QED BY <2>1, <2>2, <2>3
<1>2. /\ a \in Actors /\ a.gen = s.actor.gen /\ a.rec = s.actor.rec /\ a.book = s.actor.book
      /\ a.work = NoWork /\ ~a.open
  BY <1>0 DEF Actors
<1>3. q \in Seq(Inputs) /\ Len(q) = 0 /\ \A i \in 1..Len(q) : FALSE
  BY EmptySeq
<1>5. /\ u \in States /\ u.control = s.control /\ u.router = s.router /\ u.actor = a
      /\ u.queue = q /\ u.done = d /\ u.pub = s.pub /\ u.job = s.job
  OBVIOUS
<1> HIDE DEF a, q, d
<1>6. RecOf(u.control, u.actor) = RecOf(s.control, s.actor)
  <2>1. /\ u.actor.gen = s.actor.gen /\ u.actor.rec = s.actor.rec /\ u.control = s.control
    BY <1>2, <1>5
  <2>2. QED BY ONLY <2>1 DEF RecOf
<1>7. \A t \in Tokens : NoWork.started[t] = None /\ NoWork.completed[t] = None
                        /\ NoWork.books[t] = "none"
  BY MapsAre DEF NoWork
<1>8. AgesOK(u)
  <2>1. CurrentIsNew(u.control, u.actor)
    BY <1>2, <1>5, <1>7 DEF StateInv, AgesOK, CurrentIsNew
  <2>2. OldIsSuperseded(u.control, u.actor, u.queue)
    BY <1>3, <1>5 DEF OldIsSuperseded
  <2>3. OldJobIsSuperseded(u.control, u.actor, u.job)
    <3>1. OldJobIsSuperseded(s.control, s.actor, s.job)
      BY DEF StateInv, AgesOK
    <3>2. QED BY <1>5, <1>6, <3>1 DEF OldJobIsSuperseded
  <2>4. StartedIsNew(u.actor, u.router, u.done, u.job)
    BY <1>2, <1>5, <1>7 DEF StartedIsNew
  <2>5. HiddenIfOld(u.pub)
    BY <1>5 DEF StateInv, AgesOK
  <2>6. QED BY <2>1, <2>2, <2>3, <2>4, <2>5 DEF AgesOK
<1>9. MirrorsOK(u)
  <2>1. Admitted(s.control, s.actor, s.queue, s.done)
    BY DEF StateInv, MirrorsOK
  <2>2. Admitted(u.control, u.actor, u.queue, u.done)
    BY <1>1, <1>2, <1>3, <1>5, <2>1 DEF Admitted
  <2>3. QED BY <1>2, <1>5, <2>2 DEF MirrorsOK
<1>10. ServedOK(u)
  <2>1. PendingIsTotal(s.control, s.router, s.actor, s.queue, s.done)
    BY DEF StateInv, ServedOK
  <2>2. PendingIsTotal(u.control, u.router, u.actor, u.queue, u.done)
    BY <1>1, <1>2, <1>3, <1>5, <2>1 DEF PendingIsTotal
  <2>3. QED BY <1>5, <2>2 DEF StateInv, ServedOK
<1>11. QED BY <1>2, <1>5, <1>8, <1>9, <1>10 DEF StateInv, Restoring

\* The reduced input is dropped: its generation is over.
LEMMA FencedKeeps ==
  ASSUME NEW s, StateInv(s), s.actor.work # NoWork, s.actor.work.gen # s.control.gen,
         NEW u \in States, u.actor = [s.actor EXCEPT !.work = NoWork], u.done = s.done,
         u.control = s.control,
         u.router = s.router, u.queue = s.queue, u.pub = s.pub, u.job = s.job
  PROVE /\ StateInv(u) /\ u.pub = s.pub /\ u.control = s.control
        /\ \A t \in Tokens : Restoring(s, t) => Restoring(u, t)
<1> DEFINE a == [s.actor EXCEPT !.work = NoWork]
<1>0. s \in States /\ s.actor \in Actors
  BY DEF StateInv, States
<1>1. /\ a \in Actors /\ a.gen = s.actor.gen /\ a.rec = s.actor.rec /\ a.book = s.actor.book
      /\ a.work = NoWork /\ a.open = s.actor.open
  BY <1>0, MapsAre DEF Actors
<1>2. u.actor = a
  OBVIOUS
<1> HIDE DEF a
<1>3. /\ u \in States /\ u.control = s.control /\ u.router = s.router /\ u.actor = a
      /\ u.queue = s.queue /\ u.done = s.done /\ u.pub = s.pub /\ u.job = s.job
  BY <1>0, <1>1, <1>2 DEF States
<1>4. RecOf(u.control, u.actor) = RecOf(s.control, s.actor)
  BY <1>1, <1>3 DEF RecOf
<1>5. \A t \in Tokens : NoWork.started[t] = None /\ NoWork.completed[t] = None
                        /\ NoWork.books[t] = "none"
  BY MapsAre DEF NoWork
<1>6. s.actor.gen # s.control.gen
  BY DEF StateInv, MirrorsOK, Admitted
<1>7. AgesOK(u)
  <2>1. CurrentIsNew(u.control, u.actor)
    BY <1>1, <1>3, <1>5 DEF StateInv, AgesOK, CurrentIsNew
  <2>2. OldIsSuperseded(u.control, u.actor, u.queue)
    <3>1. OldIsSuperseded(s.control, s.actor, s.queue)
      BY DEF StateInv, AgesOK
    <3>2. QED BY <1>3, <1>4, <3>1 DEF OldIsSuperseded
  <2>3. OldJobIsSuperseded(u.control, u.actor, u.job)
    <3>1. OldJobIsSuperseded(s.control, s.actor, s.job)
      BY DEF StateInv, AgesOK
    <3>2. QED BY <1>3, <1>4, <3>1 DEF OldJobIsSuperseded
  <2>4. StartedIsNew(u.actor, u.router, u.done, u.job)
    BY <1>1, <1>3, <1>5 DEF StartedIsNew
  <2>5. HiddenIfOld(u.pub)
    BY <1>3 DEF StateInv, AgesOK
  <2>6. QED BY <2>1, <2>2, <2>3, <2>4, <2>5 DEF AgesOK
<1>8. MirrorsOK(u)
  <2>1. MirrorsOK(s)
    BY DEF StateInv
  <2>2. u.actor.open => RouterCatchesUp(u.control, u.router, u.done)
    BY <1>1, <1>3, <2>1 DEF MirrorsOK
  <2>3. ReducerIsAhead(u.control, u.actor, u.done)
    BY <1>1, <1>3, <1>6 DEF ReducerIsAhead
  <2>4. Admitted(u.control, u.actor, u.queue, u.done)
    BY <1>1, <1>3, <2>1 DEF MirrorsOK, Admitted
  <2>5. QED BY <2>2, <2>3, <2>4 DEF MirrorsOK
<1>9. ServedOK(u)
  BY <1>1, <1>3 DEF StateInv, ServedOK, PendingIsTotal
<1>10. \A t \in Tokens : Restoring(s, t) => Restoring(u, t)
  BY <1>1, <1>3 DEF Restoring, UnderWay
<1>11. QED BY <1>3, <1>7, <1>8, <1>9, <1>10 DEF StateInv

\* A group that is refused, or finds no capacity, becomes an error for the owner; a
\* checkpoint is only dropped.
LEMMA RefusedKeeps ==
  ASSUME NEW s, StateInv(s), s.actor.work # NoWork, s.actor.work.gen = s.control.gen,
         NEW e \in Completions, e.error # "none", e.gen = s.control.gen,
         \A t \in Tokens : e.started[t] = None /\ e.completed[t] = None,
         NEW u \in States, u.actor = [s.actor EXCEPT !.work = NoWork],
         u.done = IF s.actor.work.kind = "checkpoint" THEN s.done ELSE Append(s.done, e),
         u.control = s.control,
         u.router = s.router, u.queue = s.queue, u.pub = s.pub, u.job = s.job
  PROVE /\ StateInv(u) /\ u.pub = s.pub /\ u.control = s.control
        /\ \A t \in Tokens : Restoring(s, t) => Restoring(u, t)
<1> PICK d : d = u.done
  OBVIOUS
<1> DEFINE n == Len(s.done)
           a == [s.actor EXCEPT !.work = NoWork]
           w == s.actor.work
<1>0. s \in States /\ s.done \in Seq(Completions) /\ n \in Nat /\ s.actor \in Actors
  BY LenProperties DEF StateInv, States
<1>1. /\ d \in Seq(Completions) /\ Len(d) >= n
      /\ \A i \in 1..n : d[i] = s.done[i] /\ i \in 1..Len(d)
      /\ \A i \in 1..Len(d) : d[i] = e \/ (i \in 1..n /\ d[i] = s.done[i])
      /\ w.kind # "checkpoint" => \E i \in 1..Len(d) : d[i] = e
  <2>1. CASE w.kind = "checkpoint"
    BY <1>0, <2>1
  <2>2. CASE w.kind # "checkpoint"
    <3>1. /\ d \in Seq(Completions) /\ Len(d) = n + 1 /\ d[n + 1] = e
          /\ \A i \in 1..n : d[i] = s.done[i]
      BY <1>0, <2>2, AppendProperties
    <3>2. n + 1 \in 1..(n + 1) /\ \A i \in 1..(n + 1) : i = n + 1 \/ i \in 1..n
      BY <1>0
    <3> HIDE DEF n
    <3>3. QED BY <1>0, <3>1, <3>2
  <2>3. QED BY <2>1, <2>2
<1>2. /\ a \in Actors /\ a.gen = s.actor.gen /\ a.rec = s.actor.rec /\ a.book = s.actor.book
      /\ a.work = NoWork /\ a.open = s.actor.open
  BY <1>0, MapsAre DEF Actors
<1>3. u.actor = a /\ u.done = d
  OBVIOUS
<1> HIDE DEF a
<1>4. /\ u \in States /\ u.control = s.control /\ u.router = s.router /\ u.actor = a
      /\ u.queue = s.queue /\ u.done = d /\ u.pub = s.pub /\ u.job = s.job
  BY <1>0, <1>1, <1>2, <1>3 DEF States
<1>5. RecOf(u.control, u.actor) = RecOf(s.control, s.actor)
  <2>1. /\ u.actor.gen = s.actor.gen /\ u.actor.rec = s.actor.rec /\ u.control = s.control
    BY <1>2, <1>4
  <2>2. QED BY ONLY <2>1 DEF RecOf
<1>6. \A t \in Tokens : NoWork.started[t] = None /\ NoWork.completed[t] = None
                        /\ NoWork.books[t] = "none"
  BY MapsAre DEF NoWork
<1>7. Refusal(e, s.control)
  BY DEF Refusal
<1>8. AgesOK(u)
  <2>1. CurrentIsNew(u.control, u.actor)
    BY <1>2, <1>4, <1>6 DEF StateInv, AgesOK, CurrentIsNew
  <2>2. OldIsSuperseded(u.control, u.actor, u.queue)
    <3>1. OldIsSuperseded(s.control, s.actor, s.queue)
      BY DEF StateInv, AgesOK
    <3>2. QED BY <1>4, <1>5, <3>1 DEF OldIsSuperseded
  <2>3. OldJobIsSuperseded(u.control, u.actor, u.job)
    <3>1. OldJobIsSuperseded(s.control, s.actor, s.job)
      BY DEF StateInv, AgesOK
    <3>2. QED BY <1>4, <1>5, <3>1 DEF OldJobIsSuperseded
  <2>4. StartedIsNew(u.actor, u.router, u.done, u.job)
    BY <1>2, <1>4, <1>6 DEF StartedIsNew
  <2>5. HiddenIfOld(u.pub)
    BY <1>4 DEF StateInv, AgesOK
  <2>6. QED BY <2>1, <2>2, <2>3, <2>4, <2>5 DEF AgesOK
<1>9. MirrorsOK(u)
  <2>1. MirrorsOK(s)
    BY DEF StateInv
  <2>2. ASSUME u.actor.open PROVE RouterCatchesUp(u.control, u.router, u.done)
    <3>1. RouterCatchesUp(s.control, s.router, s.done)
      BY <1>2, <1>4, <2>1, <2>2 DEF MirrorsOK
    <3>2. \A t \in Tokens : ~Touches(e, s.control, t)
      BY DEF Touches
    <3>3. \A t \in Tokens : \A i \in 1..Len(d) : Touches(d[i], s.control, t) =>
             i \in 1..n /\ d[i] = s.done[i]
      BY <1>1, <3>2
    <3>4. ASSUME NEW t \in Tokens, \A i \in 1..Len(d) : ~Touches(d[i], s.control, t)
          PROVE s.control.attempts[t] = s.router[t]
      BY <1>1, <3>1, <3>4 DEF RouterCatchesUp
    <3>5. ASSUME NEW t \in Tokens, NEW i \in 1..Len(d), Touches(d[i], s.control, t),
                 \A k \in (i + 1)..Len(d) : ~Touches(d[k], s.control, t)
          PROVE s.control.attempts[t] = Outcome(d[i], t)
      <4>1. i \in 1..n /\ d[i] = s.done[i]
        BY <3>3, <3>5
      <4>2. \A k \in (i + 1)..n : ~Touches(s.done[k], s.control, t)
        <5> SUFFICES ASSUME NEW k \in (i + 1)..n PROVE ~Touches(s.done[k], s.control, t)
          OBVIOUS
        <5>1. k \in 1..n /\ k \in (i + 1)..Len(d) /\ d[k] = s.done[k]
          BY <1>0, <1>1, <4>1
        <5>2. QED BY <3>5, <5>1
      <4>3. QED BY <3>1, <3>5, <4>1, <4>2 DEF RouterCatchesUp
    <3>6. RouterCatchesUp(s.control, s.router, d)
      <4> DEFINE c == s.control
                 r == s.router
      <4>1. \A t \in Tokens : (\A i \in 1..Len(d) : ~Touches(d[i], c, t)) => c.attempts[t] = r[t]
        BY <3>4
      <4>2. \A t \in Tokens : \A i \in 1..Len(d) :
              Touches(d[i], c, t) /\ (\A k \in (i + 1)..Len(d) : ~Touches(d[k], c, t))
                  => c.attempts[t] = Outcome(d[i], t)
        BY <3>5
      <4> HIDE DEF c, r
      <4>3. RouterCatchesUp(c, r, d)
        BY <4>1, <4>2, Zenon DEF RouterCatchesUp
      <4>4. QED BY <4>3 DEF c, r
    <3>7. QED BY <1>4, <3>6
  <2>3. ASSUME u.actor.open PROVE ReducerIsAhead(u.control, u.actor, u.done)
    <3>1. ReducerIsAhead(s.control, s.actor, s.done)
      BY <1>2, <1>4, <2>1, <2>3 DEF MirrorsOK
    <3>2. CASE w.kind # "checkpoint"
      BY <1>1, <1>4, <1>7, <3>2 DEF ReducerIsAhead
    <3>3. CASE w.kind = "checkpoint"
      <4>1. \A t \in Tokens : w.started[t] = None /\ w.completed[t] = None
        BY <3>3 DEF StateInv, AgesOK, StartedIsNew
      <4>2. d = s.done
        BY <3>3
      <4>3. QED BY <1>2, <1>4, <1>6, <3>1, <4>1, <4>2 DEF ReducerIsAhead, Mirrored, Override
    <3>4. QED BY <3>2, <3>3
  <2>4. Admitted(u.control, u.actor, u.queue, u.done)
    <3>1. Admitted(s.control, s.actor, s.queue, s.done)
      BY <2>1 DEF MirrorsOK
    <3>2. w.kind # "checkpoint" => s.control.baseline
      BY <3>1 DEF Admitted
    <3>3. \A i \in 1..Len(d) : d[i].error = "capacity" /\ d[i].gen = s.control.gen
                                  => s.control.baseline
      BY <1>1, <3>1, <3>2 DEF Admitted
    <3>4. QED BY <1>2, <1>4, <3>1, <3>3 DEF Admitted
  <2>5. QED BY <2>2, <2>3, <2>4 DEF MirrorsOK
<1>10. ServedOK(u)
  <2>1. Held(s.control.pending) = {}
    BY DEF StateInv, ServedOK, PendingIsTotal
  <2>2. QED BY <1>4, <2>1 DEF StateInv, ServedOK, PendingIsTotal
<1>11. \A t \in Tokens : Restoring(s, t) => Restoring(u, t)
  <2> SUFFICES ASSUME NEW t \in Tokens, Restoring(s, t) PROVE Restoring(u, t)
    OBVIOUS
  <2>1. CASE UnderWay(s.control, s.actor, s.queue, t)
    <3>1. CASE w.kind = "checkpoint"
      BY <1>4, <2>1, <3>1 DEF UnderWay, Restoring
    <3>2. CASE w.kind # "checkpoint"
      BY <1>1, <1>4, <1>7, <3>2 DEF Restoring
    <3>3. QED BY <3>1, <3>2
  <2>2. CASE \E i \in 1..Len(s.done) : Refusal(s.done[i], s.control)
    BY <1>1, <1>4, <2>2 DEF Restoring
  <2>3. QED BY <1>2, <1>4, <2>1, <2>2 DEF Restoring
<1>12. QED BY <1>4, <1>8, <1>9, <1>10, <1>11 DEF StateInv

\* A group that is published: the control record mirrors it, its completion follows, and
\* its books are served unless their token is still in recovery.
Writes(w, t) == w.books[t] # "none"
LEMMA PublishedKeeps ==
  ASSUME NEW s, StateInv(s), RecKnown(s), s.actor.work # NoWork,
         s.actor.work.gen = s.control.gen,
         NEW e \in Completions, e.error = "none", e.gen = s.control.gen,
         e.started = s.actor.work.started, e.completed = s.actor.work.completed,
         NEW u \in States,
         u.done = IF Held(s.actor.work.started) \cup Held(s.actor.work.completed) # {}
                  THEN Append(s.done, e) ELSE s.done,
         u.actor.gen = s.actor.gen, u.actor.rec = s.actor.rec, u.actor.open = s.actor.open,
         u.actor.work = NoWork, \A t \in Tokens : u.actor.book[t] # "old",
         u.control.gen = s.control.gen, u.control.baseline = s.control.baseline,
         u.control.pending = s.control.pending,
         u.control.attempts = Mirrored(s.control.attempts, s.actor.work),
         u.pub = GroupApplied(s.pub, s.actor.work), u.job.attempts = s.job.attempts,
         \A t \in Tokens : u.job.age[t] = IF s.actor.work.started[t] # None
                                          THEN Aged(s.job.age[t], "old") ELSE s.job.age[t],
         u.router = s.router, u.queue = s.queue
  PROVE /\ StateInv(u) /\ RecKnown(u) /\ u.pub.accepting = s.pub.accepting
        /\ \A t \in Tokens : Restoring(s, t) \/ Writes(s.actor.work, t) => Restoring(u, t)
<1> DEFINE n == Len(s.done)
           w == s.actor.work
           d == u.done
<1>0. /\ s \in States /\ s.done \in Seq(Completions) /\ n \in Nat /\ w \in Works
      /\ s.pub \in Pubs
  BY LenProperties DEF StateInv, States, Actors
<1>1. /\ Len(d) >= n /\ \A i \in 1..n : d[i] = s.done[i] /\ i \in 1..Len(d)
      /\ \A i \in 1..Len(d) : (i = n + 1 /\ d[i] = e) \/ (i \in 1..n /\ d[i] = s.done[i])
      /\ Held(w.started) \cup Held(w.completed) # {} => Len(d) = n + 1 /\ d[n + 1] = e
      /\ Held(w.started) \cup Held(w.completed) = {} => d = s.done
  <2>1. CASE Held(w.started) \cup Held(w.completed) = {}
    BY <1>0, <2>1
  <2>2. CASE Held(w.started) \cup Held(w.completed) # {}
    <3>1. /\ Len(d) = n + 1 /\ d[n + 1] = e /\ \A i \in 1..n : d[i] = s.done[i]
      BY <1>0, <2>2, AppendProperties
    <3>2. n + 1 \in 1..(n + 1) /\ \A i \in 1..(n + 1) : i = n + 1 \/ i \in 1..n
      BY <1>0
    <3> HIDE DEF n, d
    <3>3. QED BY <1>0, <2>2, <3>1, <3>2
  <2>3. QED BY <2>1, <2>2
<1>2. s.actor.gen = s.control.gen
  BY DEF StateInv, MirrorsOK, Admitted
<1>3. \A t \in Tokens :
        u.control.attempts[t] = IF w.completed[t] # None THEN None
                                ELSE IF w.started[t] # None THEN w.started[t]
                                ELSE s.control.attempts[t]
  BY DEF Mirrored, Override
<1>4. \A t \in Tokens : NoWork.started[t] = None /\ NoWork.completed[t] = None
                        /\ NoWork.books[t] = "none"
  BY MapsAre DEF NoWork
<1>5. \A t \in Tokens :
        /\ w.started[t] # None => /\ s.actor.rec[t] \in {None, w.started[t]}
                                  /\ s.job.attempts[t] # w.started[t]
        /\ w.completed[t] # None => w.books[t] # "none"
        /\ w.kind = "delta" => w.started[t] = None
        /\ w.books[t] # "old"
  BY <1>2 DEF StateInv, AgesOK, StartedIsNew, CurrentIsNew
<1>6. /\ FencedPub(u.pub) /\ u.pub.accepting = s.pub.accepting
      /\ \A t \in Tokens :
           /\ u.pub.rec[t] = IF w.completed[t] # None THEN None
                             ELSE IF w.started[t] # None THEN w.started[t] ELSE s.pub.rec[t]
           /\ u.pub.book[t] = IF w.books[t] # "none" THEN w.books[t]
                              ELSE IF w.started[t] # None THEN Aged(s.pub.book[t], "old")
                              ELSE s.pub.book[t]
           /\ t \in u.pub.seed <=> t \in s.pub.seed /\ w.books[t] = "none"
  <2> HIDE DEF w
  <2>1. /\ FencedPub(GroupApplied(s.pub, w)) /\ GroupApplied(s.pub, w).accepting = s.pub.accepting
        /\ \A t \in Tokens :
             /\ GroupApplied(s.pub, w).rec[t] = IF w.completed[t] # None THEN None
                               ELSE IF w.started[t] # None THEN w.started[t] ELSE s.pub.rec[t]
             /\ GroupApplied(s.pub, w).book[t] = IF w.books[t] # "none" THEN w.books[t]
                                ELSE IF w.started[t] # None THEN Aged(s.pub.book[t], "old")
                                ELSE s.pub.book[t]
             /\ t \in GroupApplied(s.pub, w).seed <=> t \in s.pub.seed /\ w.books[t] = "none"
    BY <1>0, GroupAppliedIs
  <2>2. u.pub = GroupApplied(s.pub, w)
    BY DEF w
  <2>3. QED BY <2>1, <2>2
<1>7. HiddenIfOld(u.pub)
  <2>1. HiddenIfOld(s.pub)
    BY DEF StateInv, AgesOK
  <2>2. u.pub = GroupApplied(s.pub, w)
    OBVIOUS
  <2> HIDE DEF w
  <2>3. QED BY <1>0, <1>5, <2>1, <2>2, GroupHidesOld
<1>8. RecOf(u.control, u.actor) = s.actor.rec /\ RecOf(s.control, s.actor) = s.actor.rec
  BY <1>2 DEF RecOf
<1>9. AgesOK(u)
  <2>1. CurrentIsNew(u.control, u.actor)
    BY <1>4 DEF CurrentIsNew
  <2>2. OldIsSuperseded(u.control, u.actor, u.queue)
    <3>1. OldIsSuperseded(s.control, s.actor, s.queue)
      BY DEF StateInv, AgesOK
    <3>2. QED BY <1>8, <3>1 DEF OldIsSuperseded
  <2>3. OldJobIsSuperseded(u.control, u.actor, u.job)
    <3>1. OldJobIsSuperseded(s.control, s.actor, s.job)
      BY DEF StateInv, AgesOK
    <3> SUFFICES ASSUME NEW t \in Tokens, s.job.attempts[t] # None
                 PROVE /\ u.job.age[t] # "none"
                       /\ u.job.age[t] = "old" => /\ u.control.attempts[t] # s.job.attempts[t]
                                                  /\ s.actor.rec[t] # s.job.attempts[t]
      BY <1>8 DEF OldJobIsSuperseded
    <3>2. /\ s.job.age[t] # "none"
          /\ s.job.age[t] = "old" => /\ s.control.attempts[t] # s.job.attempts[t]
                                     /\ s.actor.rec[t] # s.job.attempts[t]
      BY <1>8, <3>1 DEF OldJobIsSuperseded
    <3>3. CASE w.started[t] # None
      BY <1>3, <1>5, <3>2, <3>3 DEF Aged
    <3>4. CASE w.started[t] = None
      BY <1>3, <3>2, <3>4
    <3>5. QED BY <3>3, <3>4
  <2>4. StartedIsNew(u.actor, u.router, u.done, u.job)
    BY <1>4 DEF StartedIsNew
  <2>5. QED BY <1>7, <2>1, <2>2, <2>3, <2>4 DEF AgesOK
<1>10. ASSUME u.actor.open PROVE RouterCatchesUp(u.control, u.router, u.done)
  <2>1. RouterCatchesUp(s.control, s.router, s.done)
    BY <1>10 DEF StateInv, MirrorsOK
  <2>2. \A t \in Tokens : Touches(e, s.control, t) <=> w.started[t] # None \/ w.completed[t] # None
    BY DEF Touches
  <2>3. \A x : \A t \in Tokens : Touches(x, u.control, t) <=> Touches(x, s.control, t)
    BY DEF Touches
  <2>4. \A t \in Tokens : Touches(e, s.control, t) => u.control.attempts[t] = Outcome(e, t)
    BY <1>3, <2>2 DEF Outcome
  <2>5. \A t \in Tokens : ~Touches(e, s.control, t) => u.control.attempts[t] = s.control.attempts[t]
    BY <1>3, <2>2
  <2>6. \A t \in Tokens : Touches(e, s.control, t) => Len(d) = n + 1 /\ d[n + 1] = e
    BY <1>1, <2>2 DEF Held
  <2>7. ASSUME NEW t \in Tokens, \A i \in 1..Len(d) : ~Touches(d[i], s.control, t)
        PROVE u.control.attempts[t] = s.router[t]
    <3>1. \A i \in 1..n : ~Touches(s.done[i], s.control, t)
      BY <1>1, <2>7
    <3>2. ~Touches(e, s.control, t)
      <4>1. Len(d) = n + 1 => n + 1 \in 1..Len(d)
        BY <1>0
      <4>2. QED BY <2>6, <2>7, <4>1
    <3>3. s.control.attempts[t] = s.router[t]
      BY <2>1, <3>1 DEF RouterCatchesUp
    <3>4. QED BY <2>5, <3>2, <3>3
  <2>8. ASSUME NEW t \in Tokens, NEW i \in 1..Len(d), Touches(d[i], s.control, t),
               \A k \in (i + 1)..Len(d) : ~Touches(d[k], s.control, t)
        PROVE u.control.attempts[t] = Outcome(d[i], t)
    <3>1. CASE i = n + 1 /\ d[i] = e
      BY <2>4, <2>8, <3>1
    <3>2. CASE i \in 1..n /\ d[i] = s.done[i]
      <4>1. ~Touches(e, s.control, t)
        <5>1. Len(d) = n + 1 => n + 1 \in (i + 1)..Len(d)
          BY <1>0, <3>2
        <5>2. QED BY <2>6, <2>8, <5>1
      <4>2. \A k \in (i + 1)..n : ~Touches(s.done[k], s.control, t)
        <5> SUFFICES ASSUME NEW k \in (i + 1)..n PROVE ~Touches(s.done[k], s.control, t)
          OBVIOUS
        <5>1. k \in 1..n
          BY <1>0, <3>2
        <5>2. k \in (i + 1)..Len(d) /\ d[k] = s.done[k]
          BY <1>0, <1>1, <5>1
        <5>3. QED BY <2>8, <5>2
      <4>3. s.control.attempts[t] = Outcome(d[i], t)
        BY <2>1, <2>8, <3>2, <4>2 DEF RouterCatchesUp
      <4>4. QED BY <2>5, <4>1, <4>3
    <3>3. QED BY <1>1, <3>1, <3>2
  <2> DEFINE c == u.control
             r == u.router
  <2>9. \A t \in Tokens : (\A i \in 1..Len(d) : ~Touches(d[i], c, t)) => c.attempts[t] = r[t]
    BY <2>3, <2>7
  <2>10. \A t \in Tokens : \A i \in 1..Len(d) :
          Touches(d[i], c, t) /\ (\A k \in (i + 1)..Len(d) : ~Touches(d[k], c, t))
              => c.attempts[t] = Outcome(d[i], t)
    BY <2>3, <2>8
  <2> HIDE DEF c, r, d
  <2>11. RouterCatchesUp(c, r, d)
    BY <2>9, <2>10, Zenon DEF RouterCatchesUp
  <2>12. QED BY <2>11 DEF c, r, d
<1>11. ASSUME u.actor.open PROVE ReducerIsAhead(u.control, u.actor, u.done)
  <2>1. ReducerIsAhead(s.control, s.actor, s.done)
    BY <1>11 DEF StateInv, MirrorsOK
  <2> SUFFICES ASSUME \A i \in 1..Len(d) : ~Refusal(d[i], u.control), NEW t \in Tokens
               PROVE u.actor.rec[t] = Mirrored(u.control.attempts, u.actor.work)[t]
    BY DEF ReducerIsAhead
  <2>2. \A i \in 1..n : ~Refusal(s.done[i], s.control)
    BY <1>1 DEF Refusal
  <2>3. s.actor.rec[t] = Mirrored(s.control.attempts, w)[t]
    BY <1>2, <2>1, <2>2 DEF ReducerIsAhead
  <2>4. Mirrored(u.control.attempts, NoWork)[t] = u.control.attempts[t]
    BY <1>4 DEF Mirrored, Override
  <2>5. QED BY <2>3, <2>4
<1>12. Admitted(u.control, u.actor, u.queue, u.done)
  <2>1. Admitted(s.control, s.actor, s.queue, s.done)
    BY DEF StateInv, MirrorsOK
  <2>2. \A i \in 1..Len(d) : d[i].error = "capacity" /\ d[i].gen = s.control.gen
                                => s.control.baseline
    BY <1>1, <2>1 DEF Admitted
  <2>3. QED BY <2>1, <2>2 DEF Admitted
<1>13. ServedOK(u)
  <2>1. Held(s.control.pending) = {}
    BY DEF StateInv, ServedOK, PendingIsTotal
  <2>2. QED BY <1>6, <2>1 DEF ServedOK, PendingIsTotal, FencedPub
<1>14. RecKnown(u)
  BY <1>3, <1>6 DEF RecKnown
<1>15. \A t \in Tokens : w.books[t] # "none" => Restoring(u, t)
  BY <1>6, <1>14 DEF RecKnown, Restoring, Clear
<1>16. \A t \in Tokens : Restoring(s, t) => Restoring(u, t)
  <2> SUFFICES ASSUME NEW t \in Tokens, Restoring(s, t), u.control.attempts[t] = None,
                      w.books[t] = "none"
               PROVE Restoring(u, t)
    BY <1>15 DEF Restoring
  <2>1. /\ w.completed[t] = None /\ w.started[t] = None /\ s.control.attempts[t] = None
    BY <1>3, <1>5
  <2>2. Clear(s.pub, t) => Clear(u.pub, t)
    BY <1>6, <1>14, <2>1 DEF Clear, RecKnown
  <2>3. (\E i \in 1..n : Refusal(s.done[i], s.control))
           => \E i \in 1..Len(u.done) : Refusal(u.done[i], u.control)
    BY <1>1 DEF Refusal
  <2>4. UnderWay(s.control, s.actor, s.queue, t) => UnderWay(u.control, u.actor, u.queue, t)
    BY DEF UnderWay
  <2>5. QED BY <2>1, <2>2, <2>3, <2>4 DEF Restoring
<1>17. QED
  BY <1>6, <1>9, <1>10, <1>11, <1>12, <1>13, <1>14, <1>15, <1>16
     DEF StateInv, MirrorsOK, Writes

-----------------------------------------------------------------------------
(* Leases.                                                                 *)

LEMMA PauseKeeps ==
  ASSUME NEW s, StateInv(s), NEW u, u = Bumped(Age(s, "paused"), s.router, s.control.pending)
  PROVE StateInv(u) /\ u.pub.rec = s.pub.rec /\ u.pub.accepting = s.pub.accepting
<1> DEFINE age == "paused"
           x == Age(s, age)
           c == [gen |-> NextGen(x), attempts |-> s.router, baseline |-> FALSE,
                 pending |-> s.control.pending]
<1>0. s \in States
  BY DEF StateInv
<1>1. age \in {"old", "paused"} /\ age # "old"
  OBVIOUS
<1>2. u = [x EXCEPT !.control = c]
  BY DEF Bumped
<1> HIDE DEF age
<1>3. /\ x \in States /\ x.router = s.router /\ x.done = s.done
      /\ x.actor.gen = s.actor.gen /\ x.actor.work.gen = s.actor.work.gen
      /\ Len(x.queue) = Len(s.queue)
      /\ \A i \in 1..Len(s.queue) : x.queue[i].gen = s.queue[i].gen
      /\ x.pub.book = Older(s.pub.book, age) /\ x.pub.rec = s.pub.rec
      /\ x.pub.seed = s.pub.seed /\ x.pub.fenced = s.pub.fenced
      /\ x.pub.accepting = s.pub.accepting
  BY <1>0, <1>1, AgeIs
<1> HIDE DEF x
<1>4. /\ NextGen(x) \in Nat /\ NextGen(x) # x.actor.gen /\ NextGen(x) # x.actor.work.gen
      /\ \A i \in 1..Len(x.queue) : NextGen(x) # x.queue[i].gen
      /\ \A i \in 1..Len(x.done) : NextGen(x) # x.done[i].gen
  BY <1>3, NextGenIs
<1>5. /\ c \in Controls /\ c.gen = NextGen(x) /\ c.attempts = s.router
      /\ c.pending = s.control.pending
  BY <1>0, <1>4 DEF Controls, States
<1> HIDE DEF c
<1>6. /\ u \in States /\ u.control = c /\ u.router = s.router /\ u.actor = x.actor
      /\ u.queue = x.queue /\ u.done = s.done /\ u.pub = x.pub /\ u.job = x.job
  BY <1>2, <1>3, <1>5 DEF States
<1>7. HiddenIfOld(u.pub)
  BY <1>1, <1>3, <1>6 DEF HiddenIfOld, Older, Aged, age
<1>8. FencedPub(u.pub)
  <2>1. FencedPub(s.pub)
    BY DEF StateInv, ServedOK, FencedPub
  <2>2. \A t \in Tokens : s.pub.book[t] = "none" => x.pub.book[t] = "none"
    BY <1>3 DEF Older, Aged
  <2>3. QED BY <1>3, <1>6, <2>1, <2>2 DEF FencedPub
<1>9. Held(u.control.pending) # {} => \A t \in Tokens : u.router[t] # None
  BY <1>5, <1>6 DEF StateInv, ServedOK, PendingIsTotal
<1>10. u.actor = Age(s, age).actor /\ u.queue = Age(s, age).queue /\ u.job = Age(s, age).job
  BY <1>6 DEF x
<1>11. BumpSafe(s)
  BY InvIsBumpSafe
<1>12. StateInv(u)
  <2>1. /\ u.control.gen # s.actor.gen /\ u.control.gen # s.actor.work.gen
        /\ \A i \in 1..Len(s.queue) : u.control.gen # s.queue[i].gen
        /\ \A i \in 1..Len(s.done) : u.control.gen # s.done[i].gen
    BY <1>3, <1>4, <1>5, <1>6
  <2>2. /\ u \in States /\ u.done = s.done /\ u.control.attempts = u.router
        /\ age = "old" => NewId(s, u.router)
        /\ age = "paused" => u.router = s.router
    BY <1>1, <1>5, <1>6
  <2>3. QED BY ONLY <1>1, <1>7, <1>8, <1>9, <1>10, <1>11, <2>1, <2>2, BumpKeeps
<1>13. QED BY <1>3, <1>6, <1>12

LEMMA RemoveKeeps ==
  ASSUME NEW s, StateInv(s), NEW u \in States, u.control.gen = NextGen(s),
         u.control.attempts = Nothing, u.control.pending = Nothing, u.router = Nothing,
         u.job = NoJob, u.done = <<>>, u.actor = s.actor, u.queue = s.queue, u.pub = s.pub
  PROVE StateInv(u) /\ Over(u)
<1>0. s \in States
  BY DEF StateInv
<1>1. /\ u.control.gen # s.actor.gen /\ u.control.gen # s.actor.work.gen
      /\ \A i \in 1..Len(s.queue) : u.control.gen # s.queue[i].gen
  BY <1>0, NextGenIs
<1>2. /\ \A t \in Tokens : Nothing[t] = None /\ NoJob.attempts[t] = None
      /\ Held(Nothing) = {} /\ \A i \in 1..Len(u.done) : FALSE
  <2>1. NoJob.attempts = Nothing
    BY DEF NoJob
  <2>2. Len(u.done) = 0
    BY EmptySeq
  <2>3. QED BY <2>1, <2>2, MapsAre DEF Held
<1>3. AgesOK(u)
  <2>1. CurrentIsNew(u.control, u.actor) /\ OldIsSuperseded(u.control, u.actor, u.queue)
    BY <1>1 DEF CurrentIsNew, OldIsSuperseded
  <2>2. OldJobIsSuperseded(u.control, u.actor, u.job)
    BY <1>2 DEF OldJobIsSuperseded
  <2>3. StartedIsNew(u.actor, u.router, u.done, u.job)
    BY <1>2 DEF StateInv, AgesOK, StartedIsNew
  <2>4. HiddenIfOld(u.pub)
    BY DEF StateInv, AgesOK
  <2>5. QED BY <2>1, <2>2, <2>3, <2>4 DEF AgesOK
<1>4. MirrorsOK(u)
  <2>1. RouterCatchesUp(u.control, u.router, u.done)
    BY <1>2 DEF RouterCatchesUp
  <2>2. ReducerIsAhead(u.control, u.actor, u.done)
    BY <1>1 DEF ReducerIsAhead
  <2>3. Admitted(u.control, u.actor, u.queue, u.done)
    BY <1>1, <1>2 DEF StateInv, MirrorsOK, Admitted
  <2>4. QED BY <2>1, <2>2, <2>3 DEF MirrorsOK
<1>5. ServedOK(u)
  BY <1>2 DEF StateInv, ServedOK, PendingIsTotal
<1>6. QED BY <1>1, <1>3, <1>4, <1>5 DEF StateInv, Over

\* A step that changes neither the lease nor what the socket owes.
Keeps(s, u) == /\ StateInv(u) /\ RecKnown(u) /\ u.pub.accepting = s.pub.accepting /\ Quiet(u.pub)
              /\ \A t \in Tokens : Restoring(s, t) => Restoring(u, t)
LEMMA LeaseKeeps ==
  ASSUME NEW s, NEW u, NEW en, NEW own, NEW d, Leased(s, en, own, d), Keeps(s, u), own # "gone"
  PROVE Leased(u, en, own, d)
BY DEF Leased, Keeps, Quiet, Restored

-----------------------------------------------------------------------------
(* The invariant.                                                          *)

LEMMA RecordIs ==
  ASSUME NEW s \in States
  PROVE s = [control |-> s.control, router |-> s.router, actor |-> s.actor, queue |-> s.queue,
             done |-> s.done, pub |-> s.pub, job |-> s.job, probe |-> s.probe]
BY DEF States

LEMMA InitInv == Init => Inv
<1> SUFFICES ASSUME Init PROVE Inv
  OBVIOUS
<1> PICK s : s = Now
  OBVIOUS
<1> DEFINE q == << >>
<1>1. /\ s.control = [gen |-> 0, attempts |-> Nothing, baseline |-> FALSE, pending |-> Nothing]
      /\ s.router = Nothing
      /\ s.actor = [gen |-> 0, wait |-> Tokens, rec |-> Nothing, book |-> NoBooks,
                    open |-> TRUE, work |-> NoWork]
      /\ s.queue = q /\ s.done = q
      /\ s.pub = [accepting |-> TRUE, rec |-> Nothing, book |-> NoBooks, seed |-> {},
                  snap |-> {}, fenced |-> FALSE, terminal |-> FALSE]
      /\ s.job = NoJob /\ s.probe = "none"
  BY DEF Init, Now
<1>2. q \in Seq(Inputs) /\ q \in Seq(Completions) /\ Len(q) = 0 /\ \A i \in 1..Len(q) : FALSE
  BY EmptySeq
<1> HIDE DEF q
<1>3. NoJob \in Jobs /\ NoJob.attempts = Nothing
  BY MapsAre DEF NoJob, Jobs
<1>4. s \in States
  <2>1. s.control \in Controls /\ s.actor \in Actors /\ s.pub \in Pubs /\ s.router \in IdMap
    BY <1>1, MapsAre DEF Controls, Actors, Pubs
  <2>2. s = [control |-> s.control, router |-> s.router, actor |-> s.actor, queue |-> s.queue,
             done |-> s.done, pub |-> s.pub, job |-> s.job, probe |-> s.probe]
    BY DEF Now
  <2>3. QED BY <1>1, <1>2, <1>3, <2>1, <2>2 DEF States
<1>5. \A t \in Tokens : /\ Nothing[t] = None /\ NoBooks[t] = "none" /\ NoWork.started[t] = None
                        /\ NoWork.completed[t] = None /\ NoWork.books[t] = "none"
  BY MapsAre DEF NoWork
<1>6. AgesOK(s)
  <2>1. HiddenIfOld(s.pub)
    BY <1>1, <1>5 DEF HiddenIfOld
  <2>2. CurrentIsNew(s.control, s.actor)
    BY <1>1, <1>5 DEF CurrentIsNew
  <2>3. OldIsSuperseded(s.control, s.actor, s.queue)
    BY <1>1, <1>2 DEF OldIsSuperseded
  <2>4. OldJobIsSuperseded(s.control, s.actor, s.job)
    BY <1>1, <1>3, <1>5 DEF OldJobIsSuperseded
  <2>5. StartedIsNew(s.actor, s.router, s.done, s.job)
    BY <1>1, <1>5 DEF StartedIsNew
  <2>6. QED BY <2>1, <2>2, <2>3, <2>4, <2>5 DEF AgesOK
<1>7. MirrorsOK(s)
  <2>1. RouterCatchesUp(s.control, s.router, s.done)
    BY <1>1, <1>2 DEF RouterCatchesUp
  <2>2. ReducerIsAhead(s.control, s.actor, s.done)
    BY <1>1, <1>5 DEF ReducerIsAhead, Mirrored, Override
  <2>3. Admitted(s.control, s.actor, s.queue, s.done)
    BY <1>1, <1>2 DEF Admitted
  <2>4. QED BY <2>1, <2>2, <2>3 DEF MirrorsOK
<1>8. ServedOK(s)
  BY <1>1, <1>5 DEF ServedOK, PendingIsTotal, Held
<1>9. Leased(s, enabled, owner, due)
  <2>1. /\ owner = "loop" /\ enabled = TRUE /\ due = [owed |-> Tokens, refused |-> {}]
    BY DEF Init, Owed
  <2>2. RecKnown(s)
    BY <1>1, <1>5 DEF RecKnown
  <2>3. QED BY <1>1, <2>1, <2>2 DEF Leased, Restored
<1>10. QED BY <1>4, <1>6, <1>7, <1>8, <1>9 DEF Inv, StateInv

\* What every step starts from.
LEMMA Before ==
  ASSUME Inv, NEW s, s = Now
  PROVE /\ StateInv(s) /\ Leased(s, enabled, owner, due) /\ Quiet(s.pub)
        /\ s \in States /\ BumpSafe(s)
        /\ s.control = control /\ s.router = router /\ s.actor = actor /\ s.queue = queue
        /\ s.done = done /\ s.pub = pub /\ s.job = job /\ s.probe = probe
        /\ s.pub.accepting = enabled /\ (owner # "gone" => RecKnown(s))
<1>1. StateInv(s) /\ Leased(s, enabled, owner, due)
  BY DEF Inv
<1>2. BumpSafe(s) /\ s \in States
  BY <1>1, InvIsBumpSafe DEF BumpSafe
<1>3. s.pub.accepting = enabled /\ Quiet(s.pub) /\ (owner # "gone" => RecKnown(s))
  BY <1>1 DEF Leased, Quiet
<1>4. QED BY <1>1, <1>2, <1>3 DEF Now

\* How a step ends.
LEMMA Becomes == ASSUME NEW n \in States, Become(n) PROVE Now' = n
<1>1. /\ control' = n.control /\ router' = n.router /\ actor' = n.actor /\ queue' = n.queue
      /\ done' = n.done /\ pub' = n.pub /\ job' = n.job /\ probe' = n.probe
  BY DEF Become
<1>2. QED BY <1>1, RecordIs DEF Now

LEMMA After ==
  ASSUME NEW u, Now' = u, StateInv(u), Leased(u, enabled', owner', due') PROVE Inv'
BY DEF Inv

LEMMA StepKeeps ==
  ASSUME Inv, NEW s, s = Now, NEW u, Now' = u, Keeps(s, u), owner # "gone",
         UNCHANGED <<due, owner, enabled>>
  PROVE Inv'
<1>1. Leased(s, enabled, owner, due)
  BY Before
<1>2. Leased(u, enabled, owner, due)
  BY <1>1, LeaseKeeps
<1>3. StateInv(u)
  BY DEF Keeps
<1>4. QED BY <1>2, <1>3, After

\* The owner receives a frame.
LEMMA FrameKeeps ==
  ASSUME Inv, NEW kind \in {"delta", "book", "gap", "bad"}, NEW T \in SUBSET Tokens,
         ReceiveFrame(kind, T)
  PROVE Inv'
<1> PICK s : s = Now
  OBVIOUS
<1> PICK d : d = due
  OBVIOUS
<1>1. /\ StateInv(s) /\ Leased(s, enabled, owner, due) /\ s.pub.accepting = enabled
      /\ owner # "gone" => RecKnown(s)
  BY Before
<1>2. owner = "loop" /\ enabled /\ enabled' = enabled /\ owner' = owner
  BY DEF ReceiveFrame, Running
<1>3. PICK full \in BOOLEAN :
        /\ Become(Submit(s, kind, T, Nothing, "fresh", full))
        /\ due' = CASE kind = "book" ->
                         [owed |-> d.owed \ T,
                          refused |-> IF Dropped(s, full) THEN d.refused \cup T
                                      ELSE d.refused \ T]
                    [] kind = "gap" -> Owed(Tokens)
                    [] OTHER -> d
  BY DEF ReceiveFrame
<1> PICK u : u = Submit(s, kind, T, Nothing, "fresh", full)
  OBVIOUS
<1>4. Nothing \in IdMap /\ Held(Nothing) = {}
  BY MapsAre DEF Held
<1>5. /\ StateInv(u) /\ RecKnown(u) /\ u.pub.accepting
      /\ \A t \in Tokens : Restoring(s, t) => Restoring(u, t)
      /\ kind = "book" /\ ~Dropped(s, full) => \A t \in T : Restoring(u, t)
  <2>1. kind \in InputKinds \ {"checkpoint"} /\ RecKnown(s) /\ s.pub.accepting
    BY <1>1, <1>2 DEF InputKinds
  <2> PICK age : age = "fresh"
    OBVIOUS
  <2> PICK r : r = Nothing
    OBVIOUS
  <2> DEFINE v == Submit(s, kind, T, r, age, full)
  <2>2. age \in Ages \ {"none"} /\ ~(age = "old")
    BY DEF Ages
  <2>3. r \in IdMap /\ Held(r) = {}
    BY <1>4
  <2>4. age = "old" => /\ Held(r) # {}
                       /\ \A t \in Held(r) : RecOf(s.control, s.actor)[t] # r[t]
    BY <2>2
  <2>5. /\ StateInv(s) /\ RecKnown(s) /\ s.pub.accepting /\ full \in BOOLEAN
        /\ T \in SUBSET Tokens
    BY <1>1, <1>3, <2>1
  <2>6. StateInv(v) /\ RecKnown(v) /\ v.pub.accepting
    BY ONLY <2>1, <2>2, <2>3, <2>4, <2>5, SubmitKeeps
  <2>7. \A t \in Tokens : Restoring(s, t) => Restoring(v, t)
    BY ONLY <2>1, <2>2, <2>3, <2>4, <2>5, SubmitKeeps
  <2>8. kind = "book" /\ Held(r) = {} /\ ~Dropped(s, full) =>
           \A t \in T : Restoring(v, t)
    BY ONLY <2>1, <2>2, <2>3, <2>4, <2>5, SubmitKeeps
  <2>9. v = u
    OBVIOUS
  <2> HIDE DEF v
  <2>10. QED BY <2>3, <2>6, <2>7, <2>8, <2>9
<1>6. Now' = u
  BY <1>3, <1>5, Becomes DEF StateInv
<1>7. /\ d \in [owed : SUBSET Tokens, refused : SUBSET Tokens]
      /\ \A t \in Tokens : Restoring(s, t) \/ t \in d.owed \/ t \in d.refused
  BY <1>1, <1>2 DEF Leased, Restored
<1>8. /\ due' \in [owed : SUBSET Tokens, refused : SUBSET Tokens]
      /\ \A t \in Tokens : Restoring(u, t) \/ t \in due'.owed \/ t \in due'.refused
  <2>1. CASE kind = "book"
    <3>1. due' = [owed |-> d.owed \ T, refused |-> IF Dropped(s, full) THEN d.refused \cup T
                                                   ELSE d.refused \ T]
      BY <1>3, <2>1
    <3>2. CASE Dropped(s, full)
      BY <1>5, <1>7, <3>1, <3>2
    <3>3. CASE ~Dropped(s, full)
      BY <1>5, <1>7, <2>1, <3>1, <3>3
    <3>4. QED BY <3>2, <3>3
  <2>2. CASE kind = "gap"
    BY <1>3, <2>2 DEF Owed
  <2>3. CASE kind \in {"delta", "bad"}
    <3>1. due' = d
      BY <1>3, <2>3
    <3>2. QED BY <1>5, <1>7, <3>1
  <2>4. QED BY <2>1, <2>2, <2>3
<1>9. Leased(u, enabled', owner', due')
  BY <1>2, <1>5, <1>8 DEF Leased, Restored
<1>10. QED BY <1>5, <1>6, <1>9, After

\* The socket fails.
LEMMA SocketKeeps == ASSUME Inv, SocketFailed PROVE Inv'
<1> PICK s : s = Now
  OBVIOUS
<1>1. BumpSafe(s) /\ Quiet(s.pub) /\ s.pub.accepting = enabled
  BY Before
<1>2. /\ owner = "loop" /\ enabled /\ enabled' = enabled /\ owner' = owner
      /\ due' = [owed |-> Tokens, refused |-> {}]
  BY DEF SocketFailed, Running, Owed
<1>3. PICK full \in BOOLEAN : Become(InvalidateMarket(s, "socket", full))
  BY DEF SocketFailed
<1> PICK u : u = InvalidateMarket(s, "socket", full)
  OBVIOUS
<1>4. StateInv(u) /\ u.pub.accepting /\ \A t \in Tokens : u.control.attempts[t] # None
  BY <1>1, <1>2, InvalidateKeeps, ZenonT(60)
<1>5. Now' = u
  BY <1>3, <1>4, Becomes DEF StateInv
<1>6. Leased(u, enabled', owner', due')
  BY <1>1, <1>2, <1>4 DEF Leased, Restored, RecKnown
<1>7. QED BY <1>4, <1>5, <1>6, After

\* The owner adds a checkpoint, takes a completion, and retries.
LEMMA CheckpointKeeps == ASSUME Inv, SubmitCheckpoint PROVE Inv'
<1> PICK s : s = Now
  OBVIOUS
<1> PICK u : u = Now'
  OBVIOUS
<1> PICK in : in = Input(s, "checkpoint", Tokens, Nothing, "fresh")
  OBVIOUS
<1>1. /\ StateInv(s) /\ s \in States /\ Quiet(s.pub) /\ (owner # "gone" => RecKnown(s))
      /\ s.control = control /\ s.router = router /\ s.actor = actor /\ s.queue = queue
      /\ s.done = done /\ s.pub = pub /\ s.job = job /\ s.probe = probe
  BY Before
<1>2. /\ owner = "loop" /\ Held(s.control.pending) = {} /\ UNCHANGED <<due, owner, enabled>>
      /\ u.queue = Append(s.queue, in) /\ u.control = s.control /\ u.router = s.router
      /\ u.actor = s.actor /\ u.done = s.done /\ u.pub = s.pub /\ u.job = s.job
      /\ u.probe = s.probe
      /\ u = [control |-> u.control, router |-> u.router, actor |-> u.actor,
              queue |-> u.queue, done |-> u.done, pub |-> u.pub, job |-> u.job,
              probe |-> u.probe]
  BY <1>1 DEF SubmitCheckpoint, Running, Now
<1>3. in \in Inputs /\ in.gen = s.control.gen /\ in.age = "fresh" /\ in.kind = "checkpoint"
  BY <1>1, MapsAre DEF Input, Inputs, InputKinds, Ages, States, Controls
<1>4. u \in States
  <2>1. s.queue \in Seq(Inputs)
    BY <1>1 DEF States
  <2>2. u.queue \in Seq(Inputs)
    BY ONLY <1>2, <1>3, <2>1, AppendProperties
  <2>3. QED BY <1>1, <1>2, <2>2 DEF States
<1>5. Superseded(s, in)
  BY <1>3 DEF Superseded
<1>6. StateInv(u) /\ \A t \in Tokens : Restoring(s, t) => Restoring(u, t)
  BY <1>1, <1>2, <1>3, <1>4, <1>5, EnqueueKeeps, ZenonT(60)
<1>7. Keeps(s, u)
  BY <1>1, <1>2, <1>6 DEF Keeps, RecKnown
<1>8. QED BY <1>2, <1>7, StepKeeps

LEMMA PublishKeeps == ASSUME Inv, Publish PROVE Inv'
<1> PICK s : s = Now
  OBVIOUS
<1> PICK d : d = Head(s.done)
  OBVIOUS
<1>1. /\ StateInv(s) /\ s \in States /\ Quiet(s.pub) /\ (owner # "gone" => RecKnown(s))
      /\ s.control = control /\ s.router = router /\ s.actor = actor /\ s.queue = queue
      /\ s.done = done /\ s.pub = pub /\ s.job = job /\ s.probe = probe
  BY Before
<1>2. owner = "loop" /\ s.done # <<>> /\ UNCHANGED <<due, owner, enabled>> /\ RecKnown(s)
  BY <1>1 DEF Publish
<1>3. d \in Completions /\ Tail(s.done) \in Seq(Completions) /\ d = s.done[1] /\ 1 \in 1..Len(s.done)
  <2>1. s.done \in Seq(Completions)
    BY <1>1 DEF States
  <2>2. QED BY <1>2, <2>1, HeadTailProperties, LenProperties
<1>4. CASE d.error # "none"
  <2> PICK v : v = [s EXCEPT !.done = Tail(s.done)]
    OBVIOUS
  <2>1. PICK full \in BOOLEAN : Become(InvalidateMarket(v, d.error, full))
    BY <1>1, <1>4 DEF Publish
  <2>2. /\ v \in States /\ v.done = Tail(s.done) /\ v.control = s.control
        /\ v.router = s.router /\ v.actor = s.actor /\ v.queue = s.queue /\ v.pub = s.pub
        /\ v.job = s.job
    BY <1>1, <1>3 DEF States
  <2>3. v.router = IF Head(s.done).error = "none" /\ Head(s.done).gen = s.control.gen
                   THEN Mirrored(s.router, Head(s.done)) ELSE s.router
    BY <1>4, <2>2
  <2>4. /\ BumpSafe(v)
        /\ ~Refusal(d, s.control) =>
              StateInv(v) /\ \A t \in Tokens : Restoring(s, t) => Restoring(v, t)
    BY ONLY <1>1, <1>2, <2>2, <2>3, d = Head(s.done), DeliveredKeeps
  <2> PICK u : u = InvalidateMarket(v, d.error, full)
    OBVIOUS
  <2>5. CASE d.error = "capacity" /\ Unavailable(v)
    <3>1. u = v
      BY <2>5 DEF InvalidateMarket
    <3>2. ~Refusal(d, s.control)
      BY <1>1, <1>3, <2>2, <2>5 DEF Refusal, StateInv, MirrorsOK, Admitted, Unavailable
    <3>6. StateInv(v) /\ \A t \in Tokens : Restoring(s, t) => Restoring(v, t)
      BY <2>4, <3>2
    <3>7. Keeps(s, v) /\ v \in States
      BY <1>1, <1>2, <2>2, <3>6 DEF Keeps, RecKnown
    <3>3. Keeps(s, u) /\ u \in States
      BY <3>1, <3>7
    <3>4. Now' = u
      BY <2>1, <3>3, Becomes
    <3>5. QED BY <1>2, <3>3, <3>4, StepKeeps
  <2>6. CASE ~(d.error = "capacity" /\ Unavailable(v))
    <3>1. Quiet(v.pub)
      BY <1>1, <2>2
    <3>2. /\ StateInv(u) /\ Quiet(u.pub) /\ u.pub.accepting = v.pub.accepting
          /\ \A t \in Tokens : u.control.attempts[t] # None
      <4> PICK reason : reason = d.error
        OBVIOUS
      <4>1. BumpSafe(v)
        BY <2>4
      <4>2. ~(reason = "capacity" /\ Unavailable(v))
        BY <2>6
      <4> DEFINE i == InvalidateMarket(v, reason, full)
      <4>3. /\ StateInv(i) /\ Quiet(i.pub) /\ i.pub.accepting = v.pub.accepting
            /\ \A t \in Tokens : i.control.attempts[t] # None
        BY ONLY <2>1, <3>1, <4>1, <4>2, InvalidateKeeps
      <4>4. QED BY <4>3
    <3>3. Keeps(s, u) /\ u \in States
      BY <2>2, <3>2 DEF Keeps, RecKnown, Restoring, StateInv
    <3>4. Now' = u
      BY <2>1, <3>3, Becomes
    <3>5. QED BY <1>2, <3>3, <3>4, StepKeeps
  <2>7. QED BY <2>5, <2>6
<1>5. CASE d.error = "none"
  <2> PICK r : r = IF d.gen = s.control.gen THEN Mirrored(s.router, d) ELSE s.router
    OBVIOUS
  <2> PICK u : u = [s EXCEPT !.done = Tail(s.done), !.router = r]
    OBVIOUS
  <2>1. r \in IdMap
    BY <1>1, <1>3 DEF Mirrored, Override, States, Completions, IdMap, None
  <2>2. /\ u \in States /\ u.done = Tail(s.done) /\ u.control = s.control
        /\ u.router = r /\ u.actor = s.actor /\ u.queue = s.queue /\ u.pub = s.pub
        /\ u.job = s.job
    BY <1>1, <1>3, <2>1 DEF States
  <2>3. Now' = u
    <3> DEFINE v == [s EXCEPT !.done = Tail(s.done)]
    <3>1. Become(IF d.gen = s.control.gen THEN [v EXCEPT !.router = Mirrored(v.router, d)]
                 ELSE v)
      BY <1>1, <1>5 DEF Publish
    <3>2. v \in States /\ v.router = s.router
      BY <1>1, <1>3 DEF States
    <3>3. (IF d.gen = s.control.gen THEN [v EXCEPT !.router = Mirrored(v.router, d)] ELSE v) = u
      BY <1>1, <3>2 DEF States
    <3> HIDE DEF v
    <3>4. Become(u)
      BY <3>1, <3>3
    <3>5. QED BY <2>2, <3>4, Becomes
  <2>4. u.router = IF Head(s.done).error = "none" /\ Head(s.done).gen = s.control.gen
                   THEN Mirrored(s.router, Head(s.done)) ELSE s.router
    BY <1>5, <2>2
  <2>5. ~Refusal(Head(s.done), s.control)
    BY <1>5 DEF Refusal
  <2>6. StateInv(u) /\ \A t \in Tokens : Restoring(s, t) => Restoring(u, t)
    <3>1. /\ u \in States /\ u.done = Tail(s.done) /\ u.control = s.control
          /\ u.actor = s.actor /\ u.queue = s.queue /\ u.pub = s.pub /\ u.job = s.job
      BY <2>2
    <3>2. /\ BumpSafe(u)
          /\ ~Refusal(Head(s.done), s.control) =>
                StateInv(u) /\ \A t \in Tokens : Restoring(s, t) => Restoring(u, t)
      BY ONLY <1>1, <1>2, <2>4, <3>1, DeliveredKeeps
    <3>3. QED BY <2>5, <3>2
  <2>7. Keeps(s, u)
    BY <1>1, <1>2, <2>2, <2>6 DEF Keeps, RecKnown
  <2>8. QED BY <1>2, <2>3, <2>7, StepKeeps
<1>6. QED BY <1>4, <1>5

LEMMA RetryKeeps == ASSUME Inv, RetryTick PROVE Inv'
<1> PICK s : s = Now
  OBVIOUS
<1>1. /\ StateInv(s) /\ s \in States /\ Quiet(s.pub) /\ (owner # "gone" => RecKnown(s))
      /\ s.control = control /\ s.router = router /\ s.actor = actor /\ BumpSafe(s)
  BY Before
<1>2. owner = "loop" /\ UNCHANGED <<due, owner, enabled>> /\ RecKnown(s)
  BY <1>1 DEF RetryTick
<1>3. PICK full \in BOOLEAN :
        Become(WithJob(IF s.actor.open THEN s
                       ELSE Restarted(IF AlreadyUnavailable THEN s
                                      ELSE InvalidateMarket(s, "closed", full))))
  BY <1>1 DEF RetryTick
<1> PICK m : m = IF AlreadyUnavailable THEN s ELSE InvalidateMarket(s, "closed", full)
  OBVIOUS
<1> PICK n : n = IF s.actor.open THEN s ELSE Restarted(m)
  OBVIOUS
<1>4. /\ StateInv(n) /\ RecKnown(n) /\ n.pub.accepting = s.pub.accepting /\ Quiet(n.pub)
      /\ \A t \in Tokens : Restoring(s, t) => Restoring(n, t)
  <2>1. CASE s.actor.open
    BY <1>1, <1>2, <2>1
  <2>2. CASE ~s.actor.open
    <3>1. /\ StateInv(m) /\ m.pub.accepting = s.pub.accepting /\ Quiet(m.pub)
          /\ m.router = m.control.attempts
          /\ \A t \in Tokens : m.control.attempts[t] # None
      <4>1. CASE AlreadyUnavailable
        BY <1>1, <4>1 DEF AlreadyUnavailable, Held
      <4>2. CASE ~AlreadyUnavailable
        <5> PICK reason : reason = "closed"
          OBVIOUS
        <5> DEFINE i == InvalidateMarket(s, reason, full)
        <5>1. ~(reason = "capacity" /\ Unavailable(s))
          OBVIOUS
        <5>2. /\ StateInv(i) /\ Quiet(i.pub) /\ i.pub.accepting = s.pub.accepting
              /\ \A t \in Tokens : i.control.attempts[t] # None
              /\ i.control.attempts = i.router
          BY ONLY <1>1, <1>3, <5>1, InvalidateKeeps
        <5>3. m = i
          BY <4>2
        <5> HIDE DEF i
        <5>4. QED BY <5>2, <5>3
      <4>3. QED BY <4>1, <4>2
    <3>2. RecKnown(m)
      BY <3>1 DEF RecKnown
    <3> DEFINE r == Restarted(m)
    <3>3. StateInv(r) /\ r.pub = m.pub /\ RecKnown(r) /\ \A t \in Tokens : Restoring(r, t)
      BY ONLY <3>1, <3>2, RestartKeeps
    <3>4. n = r
      BY <2>2
    <3> HIDE DEF r
    <3>5. QED BY <3>1, <3>3, <3>4
  <2>3. QED BY <2>1, <2>2
<1> DEFINE w == WithJob(n)
<1>5. /\ StateInv(w) /\ w.pub = n.pub /\ w.control = n.control
      /\ \A t \in Tokens : Restoring(n, t) => Restoring(w, t)
  BY ONLY <1>4, WithJobKeeps
<1>6. Become(w)
  BY <1>3
<1> PICK u : u = w
  OBVIOUS
<1> HIDE DEF w
<1>7. Now' = u
  BY <1>5, <1>6, Becomes DEF StateInv
<1>8. Keeps(s, u)
  BY <1>4, <1>5 DEF Keeps, RecKnown
<1>9. QED BY <1>2, <1>7, <1>8, StepKeeps

\* A recovery job ends with an answer or without.
LEMMA AnsweredKeeps == ASSUME Inv, JobAnswered PROVE Inv'
<1> PICK s : s = Now
  OBVIOUS
<1>1. /\ StateInv(s) /\ Quiet(s.pub) /\ s.pub.accepting = enabled
      /\ (owner # "gone" => RecKnown(s))
  BY Before
<1>2. owner = "loop" /\ UNCHANGED <<due, owner, enabled>> /\ RecKnown(s)
  BY <1>1 DEF JobAnswered
<1>3. PICK n : /\ Become([n EXCEPT !.job = NoJob])
               /\ n = s \/ (enabled /\ \E order \in SetToSeqs(Tokens) : n = Submitted(s, order))
  BY DEF JobAnswered
<1>4. /\ StateInv(n) /\ RecKnown(n) /\ n.pub.accepting = s.pub.accepting /\ Quiet(n.pub)
      /\ \A t \in Tokens : Restoring(s, t) => Restoring(n, t)
  <2>1. CASE n = s
    BY <1>1, <1>2, <2>1
  <2>2. CASE enabled /\ \E order \in SetToSeqs(Tokens) : n = Submitted(s, order)
    <3>1. PICK order \in SetToSeqs(Tokens) : n = Submitted(s, order)
      BY <2>2
    <3>2. order \in Seq(Tokens)
      <4>1. IsFiniteSet(Tokens)
        BY PipelineAssumption
      <4> PICK k : k = Cardinality(Tokens)
        OBVIOUS
      <4>2. k \in Nat
        BY <4>1, FS_CardinalityType
      <4>3. order \in [1..k -> Tokens]
        BY DEF SetToSeqs
      <4>4. QED BY <4>2, <4>3, IsASeq
    <3> DEFINE i == Submitted(s, order)
    <3>3. s.pub.accepting
      BY <1>1, <2>2
    <3>4. /\ StateInv(i) /\ RecKnown(i) /\ i.pub.accepting
          /\ \A x \in Tokens : Restoring(s, x) => Restoring(i, x)
      BY ONLY <1>1, <1>2, <3>2, <3>3, SubmittedKeeps
    <3>5. n = i
      BY <3>1
    <3> HIDE DEF i
    <3>6. QED BY <1>1, <3>3, <3>4, <3>5 DEF Quiet, StateInv, States, Pubs
  <2>3. QED BY <1>3, <2>1, <2>2
<1> PICK u : u = [n EXCEPT !.job = NoJob]
  OBVIOUS
<1>5. /\ StateInv(u) /\ u.pub = n.pub /\ u.control = n.control
      /\ \A t \in Tokens : Restoring(n, t) => Restoring(u, t)
  BY <1>4, NoJobKeeps
<1>6. Now' = u
  BY <1>3, <1>5, Becomes DEF StateInv
<1>7. Keeps(s, u)
  BY <1>4, <1>5 DEF Keeps, RecKnown
<1>8. QED BY <1>2, <1>6, <1>7, StepKeeps

LEMMA FailedKeeps == ASSUME Inv, JobFailed PROVE Inv'
<1> PICK s : s = Now
  OBVIOUS
<1> PICK u : u = [s EXCEPT !.job = NoJob]
  OBVIOUS
<1>1. /\ StateInv(s) /\ s \in States /\ Quiet(s.pub) /\ (owner # "gone" => RecKnown(s))
  BY Before
<1>2. owner = "loop" /\ UNCHANGED <<due, owner, enabled>> /\ RecKnown(s)
  BY <1>1 DEF JobFailed
<1>3. /\ StateInv(u) /\ u.pub = s.pub /\ u.control = s.control
      /\ \A t \in Tokens : Restoring(s, t) => Restoring(u, t)
  BY <1>1, NoJobKeeps
<1>4. Now' = u
  BY DEF JobFailed, Now
<1>5. Keeps(s, u)
  BY <1>1, <1>2, <1>3 DEF Keeps, RecKnown
<1>6. QED BY <1>2, <1>4, <1>5, StepKeeps

\* A confirmation is asked for and answered.
LEMMA ProbeKeeps ==
  ASSUME NEW s, StateInv(s), NEW p \in {"none", "fresh", "old"}, NEW u,
         u = [s EXCEPT !.probe = p]
  PROVE /\ StateInv(u) /\ u.pub = s.pub /\ u.control = s.control
        /\ \A t \in Tokens : Restoring(s, t) => Restoring(u, t)
<1>1. /\ s \in States /\ HiddenIfOld(s.pub) /\ FencedPub(s.pub)
  BY DEF StateInv, AgesOK, ServedOK, FencedPub
<1>2. /\ u \in States /\ u.actor = s.actor /\ u.queue = s.queue /\ u.done = s.done
      /\ u.router = s.router /\ u.job = s.job /\ u.control = s.control /\ u.pub = s.pub
  BY <1>1 DEF States
<1>3. /\ u.control.gen = s.control.gen /\ u.control.attempts = s.control.attempts
      /\ u.control.baseline = s.control.baseline /\ u.control.pending = s.control.pending
      /\ HiddenIfOld(u.pub) /\ FencedPub(u.pub)
  BY <1>1, <1>2
<1>4. StateInv(u)
  <2>1. u \in States
    BY <1>2
  <2>2. /\ u.actor = s.actor /\ u.queue = s.queue /\ u.done = s.done
        /\ u.router = s.router /\ u.job = s.job
    BY <1>2
  <2>3. QED BY ONLY StateInv(s), <1>3, <2>1, <2>2, PubChanges
<1>5. QED BY <1>2, <1>4 DEF Restoring

LEMMA AskedKeeps == ASSUME Inv, AskConfirmation PROVE Inv'
<1> PICK s : s = Now
  OBVIOUS
<1> PICK p : p = "fresh"
  OBVIOUS
<1> PICK u : u = [s EXCEPT !.probe = p]
  OBVIOUS
<1>1. /\ StateInv(s) /\ Quiet(s.pub) /\ (owner # "gone" => RecKnown(s))
  BY Before
<1>2. owner = "loop" /\ UNCHANGED <<due, owner, enabled>> /\ RecKnown(s)
  BY <1>1 DEF AskConfirmation, Running
<1>3. /\ StateInv(u) /\ u.pub = s.pub /\ u.control = s.control
      /\ \A t \in Tokens : Restoring(s, t) => Restoring(u, t)
  BY <1>1, ProbeKeeps
<1>4. Now' = u
  BY DEF AskConfirmation, Now
<1>5. Keeps(s, u)
  BY <1>1, <1>2, <1>3 DEF Keeps, RecKnown
<1>6. QED BY <1>2, <1>4, <1>5, StepKeeps

LEMMA ConfirmedKeeps == ASSUME Inv, ConfirmationAnswered PROVE Inv'
<1> PICK s : s = Now
  OBVIOUS
<1> PICK p : p = "none"
  OBVIOUS
<1> PICK v : v = [s EXCEPT !.probe = p]
  OBVIOUS
<1>1. /\ StateInv(s) /\ s \in States /\ Quiet(s.pub) /\ s.pub.accepting = enabled
      /\ (owner # "gone" => RecKnown(s)) /\ s.router = router
  BY Before
<1>2. owner = "loop" /\ UNCHANGED <<due, owner, enabled>> /\ RecKnown(s)
  BY <1>1 DEF ConfirmationAnswered
<1>3. /\ StateInv(v) /\ v.pub = s.pub /\ v.control = s.control
      /\ \A t \in Tokens : Restoring(s, t) => Restoring(v, t)
  BY <1>1, ProbeKeeps
<1>4. RecKnown(v)
  BY <1>2, <1>3 DEF RecKnown
<1>5. CASE Become(v)
  <2>1. Now' = v
    BY <1>3, <1>5, Becomes DEF StateInv
  <2>2. Keeps(s, v)
    BY <1>1, <1>3, <1>4 DEF Keeps
  <2>3. QED BY <1>2, <2>1, <2>2, StepKeeps
<1>6. CASE enabled /\ ~Become(v)
  <2> PICK age : age = IF probe = "old" THEN "witness" ELSE "fresh"
    OBVIOUS
  <2> PICK kind : kind = IF Held(router) # {} THEN "rest" ELSE "replacement"
    OBVIOUS
  <2> PICK r : r = IF kind = "rest" THEN router ELSE Nothing
    OBVIOUS
  <2>1. PICK full \in BOOLEAN : Become(Submit(v, kind, Tokens, r, age, full))
    BY <1>6 DEF ConfirmationAnswered
  <2> PICK T : T = Tokens
    OBVIOUS
  <2> DEFINE w == Submit(v, kind, T, r, age, full)
  <2>2. kind \in InputKinds \ {"checkpoint"} /\ T \in SUBSET Tokens
    BY DEF InputKinds
  <2>3. age \in Ages \ {"none"} /\ ~(age = "old")
    BY DEF Ages
  <2>4. r \in IdMap
    BY <1>1, MapsAre DEF States
  <2>5. age = "old" => /\ Held(r) # {}
                       /\ \A t \in Held(r) : RecOf(v.control, v.actor)[t] # r[t]
    BY <2>3
  <2>6. v.pub.accepting /\ full \in BOOLEAN
    BY <1>1, <1>3, <1>6
  <2>7. /\ StateInv(w) /\ RecKnown(w) /\ w.pub.accepting
        /\ \A t \in Tokens : Restoring(v, t) => Restoring(w, t)
    BY ONLY <1>3, <1>4, <2>2, <2>3, <2>4, <2>5, <2>6, SubmitKeeps
  <2>8. Become(w)
    BY <2>1
  <2> PICK u : u = w
    OBVIOUS
  <2> HIDE DEF w
  <2>9. Now' = u
    BY <2>7, <2>8, Becomes DEF StateInv
  <2>10. Keeps(s, u)
    BY <1>1, <1>3, <1>6, <2>7 DEF Keeps, Quiet
  <2>11. QED BY <1>2, <2>9, <2>10, StepKeeps
<1>7. Become(v) \/ enabled
  BY DEF ConfirmationAnswered
<1>8. QED BY <1>5, <1>6, <1>7

\* The lease ends and comes back; the market is retired.
LEMMA PubOnly ==
  ASSUME NEW s, StateInv(s), NEW p \in Pubs, HiddenIfOld(p), FencedPub(p),
         NEW u, u = [s EXCEPT !.pub = p]
  PROVE StateInv(u) /\ u.pub = p /\ u.control = s.control
<1>1. s \in States
  BY DEF StateInv
<1>2. /\ u \in States /\ u.actor = s.actor /\ u.queue = s.queue /\ u.done = s.done
      /\ u.router = s.router /\ u.job = s.job /\ u.control = s.control /\ u.pub = p
  BY <1>1 DEF States
<1>3. /\ u.control.gen = s.control.gen /\ u.control.attempts = s.control.attempts
      /\ u.control.baseline = s.control.baseline /\ u.control.pending = s.control.pending
      /\ HiddenIfOld(u.pub) /\ FencedPub(u.pub)
  BY <1>2
<1>4. /\ u \in States /\ u.actor = s.actor /\ u.queue = s.queue /\ u.done = s.done
      /\ u.router = s.router /\ u.job = s.job
  BY <1>2
<1>5. StateInv(u)
  BY ONLY StateInv(s), <1>3, <1>4, PubChanges
<1>6. QED BY <1>2, <1>5

LEMMA PausingKeeps == ASSUME Inv, PauseSource PROVE Inv'
<1> PICK s : s = Now
  OBVIOUS
<1> PICK p : p = [s.pub EXCEPT !.accepting = FALSE, !.rec = Nothing, !.book = NoBooks,
                               !.seed = Tokens, !.snap = {}, !.fenced = FALSE]
  OBVIOUS
<1> PICK u : u = [s EXCEPT !.pub = p]
  OBVIOUS
<1>1. StateInv(s) /\ s.pub \in Pubs /\ s.pub = pub
  BY Before DEF States
<1>2. /\ p \in Pubs /\ p.accepting = FALSE /\ p.rec = Nothing /\ p.book = NoBooks
      /\ p.fenced = FALSE
  BY <1>1, MapsAre DEF Pubs
<1>3. HiddenIfOld(p) /\ FencedPub(p) /\ \A t \in Tokens : p.rec[t] = None
  BY <1>2, MapsAre DEF HiddenIfOld, FencedPub
<1>4. StateInv(u) /\ u.pub = p
  BY ONLY <1>1, <1>2, <1>3, PubOnly, u = [s EXCEPT !.pub = p]
<1>5. Now' = u
  BY <1>1 DEF PauseSource, Now
<1>6. /\ enabled' = FALSE /\ owner' = "pausing"
      /\ due' \in [owed : SUBSET Tokens, refused : SUBSET Tokens]
  BY DEF PauseSource, Owed
<1>7. Leased(u, enabled', owner', due')
  BY <1>2, <1>3, <1>4, <1>6 DEF Leased, RecKnown
<1>8. QED BY <1>4, <1>5, <1>7, After

LEMMA PausedKeeps == ASSUME Inv, PauseAll PROVE Inv'
<1> PICK s : s = Now
  OBVIOUS
<1> DEFINE w == Bumped(Age(s, "paused"), s.router, s.control.pending)
<1>1. /\ StateInv(s) /\ Leased(s, enabled, owner, due)
      /\ s.router = router /\ s.control = control
  BY Before
<1>2. owner = "pausing" /\ owner' = "loop" /\ enabled' = enabled /\ due' = due /\ Become(w)
  BY <1>1 DEF PauseAll
<1>3. StateInv(w) /\ w.pub.rec = s.pub.rec /\ w.pub.accepting = s.pub.accepting
  BY ONLY <1>1, PauseKeeps
<1> PICK u : u = w
  OBVIOUS
<1> HIDE DEF w
<1>4. Now' = u
  BY <1>2, <1>3, Becomes DEF StateInv
<1>5. Leased(u, enabled', owner', due')
  BY <1>1, <1>2, <1>3 DEF Leased, RecKnown
<1>6. QED BY <1>3, <1>4, <1>5, After

LEMMA LeasedKeeps == ASSUME Inv, AcquireLease PROVE Inv'
<1> PICK s : s = Now
  OBVIOUS
<1> PICK p : p = [s.pub EXCEPT !.accepting = TRUE]
  OBVIOUS
<1> PICK u : u = [s EXCEPT !.pub = p]
  OBVIOUS
<1>1. /\ StateInv(s) /\ s.pub \in Pubs /\ s.pub = pub /\ (owner # "gone" => RecKnown(s))
  BY Before DEF States
<1>2. /\ p \in Pubs /\ p.accepting = TRUE /\ p.rec = s.pub.rec /\ p.book = s.pub.book
      /\ p.fenced = s.pub.fenced /\ p.seed = s.pub.seed /\ p.snap = s.pub.snap
  BY <1>1 DEF Pubs
<1>3. HiddenIfOld(p) /\ FencedPub(p)
  BY <1>1, <1>2 DEF StateInv, AgesOK, ServedOK, HiddenIfOld, FencedPub
<1>4. StateInv(u) /\ u.pub = p /\ u.control = s.control
  BY ONLY <1>1, <1>2, <1>3, PubOnly, u = [s EXCEPT !.pub = p]
<1>5. Now' = u
  BY <1>1 DEF AcquireLease, Now
<1>6. /\ owner = "loop" /\ enabled' = TRUE /\ owner' = "loop"
      /\ due' = [owed |-> Tokens, refused |-> {}]
  BY DEF AcquireLease, Owed
<1>7. RecKnown(u)
  <2>1. RecKnown(s) /\ u.pub.rec = s.pub.rec
    BY <1>1, <1>2, <1>4, <1>6
  <2>2. QED BY ONLY <1>4, <2>1 DEF RecKnown
<1>8. Leased(u, enabled', owner', due')
  BY <1>2, <1>4, <1>6, <1>7 DEF Leased, Restored
<1>9. QED BY <1>4, <1>5, <1>8, After

LEMMA TerminalKeeps == ASSUME Inv, TerminalPublished PROVE Inv'
<1> PICK s : s = Now
  OBVIOUS
<1>1. /\ StateInv(s) /\ s.pub \in Pubs /\ s.pub = pub /\ (owner # "gone" => RecKnown(s))
      /\ s.pub.accepting = enabled /\ Leased(s, enabled, owner, due)
  BY Before DEF States
<1>2. owner = "loop" /\ enabled /\ enabled' = enabled /\ due' = due /\ RecKnown(s)
  BY <1>1 DEF TerminalPublished, Running
<1>3. due' \in [owed : SUBSET Tokens, refused : SUBSET Tokens] /\ enabled' \in BOOLEAN
  BY <1>1, <1>2 DEF Leased
<1>4. CASE owner' = "failed" /\ UNCHANGED pub
  <2>1. Now' = s
    BY <1>4 DEF TerminalPublished, Now
  <2>2. Leased(s, enabled', owner', due')
    BY <1>1, <1>2, <1>3, <1>4 DEF Leased
  <2>3. QED BY <1>1, <2>1, <2>2, After
<1>5. CASE owner' = "retiring"
  <2> PICK p : p = [s.pub EXCEPT !.rec = Nothing, !.book = NoBooks, !.snap = {}, !.terminal = TRUE]
    OBVIOUS
  <2> PICK u : u = [s EXCEPT !.pub = p]
    OBVIOUS
  <2>1. p \in Pubs /\ p.rec = Nothing /\ p.book = NoBooks /\ p.accepting = s.pub.accepting
    BY <1>1, MapsAre DEF Pubs
  <2>2. HiddenIfOld(p) /\ FencedPub(p) /\ \A t \in Tokens : p.rec[t] = None
    BY <2>1, MapsAre, PipelineAssumption DEF HiddenIfOld, FencedPub
  <2>3. StateInv(u) /\ u.pub = p
    BY ONLY <1>1, <2>1, <2>2, PubOnly, u = [s EXCEPT !.pub = p]
  <2>4. Now' = u
    <3>1. /\ pub' = p /\ UNCHANGED <<control, router, actor, queue, done, job, probe>>
      BY <1>1, <1>5 DEF TerminalPublished
    <3>2. QED BY <3>1 DEF Now
  <2>5. Leased(u, enabled', owner', due')
    BY <1>1, <1>2, <1>3, <1>5, <2>1, <2>2, <2>3 DEF Leased, RecKnown
  <2>6. QED BY <2>3, <2>4, <2>5, After
<1>6. QED BY <1>4, <1>5 DEF TerminalPublished

LEMMA RemovedKeeps == ASSUME Inv, RemoveMarket PROVE Inv'
<1> PICK s : s = Now
  OBVIOUS
<1> PICK c : c = [s.control EXCEPT !.gen = NextGen(s), !.attempts = Nothing, !.pending = Nothing]
  OBVIOUS
<1> PICK none : none = << >>
  OBVIOUS
<1> PICK u : u = [s EXCEPT !.control = c, !.router = Nothing, !.job = NoJob, !.probe = "none",
                           !.done = none]
  OBVIOUS
<1>1. /\ StateInv(s) /\ s \in States /\ Leased(s, enabled, owner, due)
      /\ s.control = control /\ s.pub.accepting = enabled
  BY Before
<1>2. /\ owner = "retiring" /\ owner' = "gone" /\ enabled' = enabled
      /\ due' \in [owed : SUBSET Tokens, refused : SUBSET Tokens]
  BY DEF RemoveMarket, Owed
<1>3. /\ c \in Controls /\ c.gen = NextGen(s) /\ c.attempts = Nothing /\ c.pending = Nothing
  BY <1>1, NextGenIs, MapsAre DEF States, Controls
<1>4. NoJob \in Jobs /\ none \in Seq(Completions)
  BY MapsAre, EmptySeq DEF NoJob, Jobs
<1>5. /\ u \in States /\ u.control = c /\ u.router = Nothing /\ u.job = NoJob
      /\ u.done = none /\ u.actor = s.actor /\ u.queue = s.queue /\ u.pub = s.pub
  BY <1>1, <1>3, <1>4, MapsAre DEF States
<1>6. /\ u.control.gen = NextGen(s) /\ u.control.attempts = Nothing
      /\ u.control.pending = Nothing /\ u.done = <<>>
  BY <1>3, <1>5
<1>7. StateInv(u) /\ Over(u)
  BY ONLY <1>1, <1>5, <1>6, RemoveKeeps
<1>8. Now' = u
  BY <1>1 DEF RemoveMarket, Now
<1>9. Leased(u, enabled', owner', due')
  BY <1>1, <1>2, <1>5, <1>7 DEF Leased
<1>10. QED BY <1>7, <1>8, <1>9, After

\* The actor takes an input, fails, and publishes.
LEMMA ActorStep ==
  ASSUME Inv, NEW s, s = Now, NEW u, Now' = u, StateInv(u), u.pub = s.pub,
         u.control = s.control, \A t \in Tokens : Restoring(s, t) => Restoring(u, t),
         owner = "gone" => Over(u), UNCHANGED <<due, owner, enabled>>
  PROVE Inv'
<1>1. /\ StateInv(s) /\ Leased(s, enabled, owner, due) /\ Quiet(s.pub)
      /\ (owner # "gone" => RecKnown(s))
  BY Before
<1>2. CASE owner = "gone"
  <2>1. Leased(u, enabled', owner', due')
    BY <1>1, <1>2 DEF Leased
  <2>2. QED BY <2>1, After
<1>3. CASE owner # "gone"
  <2>1. Keeps(s, u)
    BY <1>1, <1>3 DEF Keeps, RecKnown
  <2>2. QED BY <1>3, <2>1, StepKeeps
<1>4. QED BY <1>2, <1>3

LEMMA PanickedKeeps == ASSUME Inv, ActorPanics PROVE Inv'
<1> PICK s : s = Now
  OBVIOUS
<1> PICK e : e = [gen |-> s.control.gen, error |-> "worker", started |-> Nothing,
                  completed |-> Nothing]
  OBVIOUS
<1>1. /\ StateInv(s) /\ s \in States
      /\ s.control = control /\ s.router = router /\ s.actor = actor /\ s.queue = queue
      /\ s.done = done /\ s.pub = pub /\ s.job = job /\ s.probe = probe
  BY Before
<1>2. PICK k \in 0..Len(s.done) : done' = Append(SubSeq(s.done, 1, k), e)
  BY <1>1 DEF ActorPanics
<1> PICK u : u = Now'
  OBVIOUS
<1>3. s.actor.work = NoWork
  BY <1>1 DEF ActorPanics, ActorTakes
<1>4. e \in Completions /\ e.error = "worker"
  BY <1>1, MapsAre DEF Completions, States, Controls
<1>5. /\ u.actor = [s.actor EXCEPT !.open = FALSE] /\ u.queue = <<>>
      /\ u.done = Append(SubSeq(s.done, 1, k), e)
      /\ u.control = s.control /\ u.router = s.router /\ u.pub = s.pub /\ u.job = s.job
      /\ u.probe = s.probe
      /\ u = [control |-> u.control, router |-> u.router, actor |-> u.actor,
              queue |-> u.queue, done |-> u.done, pub |-> u.pub, job |-> u.job,
              probe |-> u.probe]
  BY <1>1, <1>2 DEF ActorPanics, Now
<1>6. u \in States
  <2>1. u.actor \in Actors
    BY <1>1, <1>5 DEF States, Actors
  <2>2. u.queue \in Seq(Inputs)
    BY <1>5, EmptySeq
  <2>3. u.done \in Seq(Completions)
    <3> PICK p : p = SubSeq(s.done, 1, k)
      OBVIOUS
    <3>1. s.done \in Seq(Completions) /\ Len(s.done) \in Nat
      BY <1>1, LenProperties DEF States
    <3>2. 1 \in 1..(Len(s.done) + 1) /\ k \in 0..Len(s.done)
      BY <1>2, <3>1
    <3>3. p \in Seq(Completions)
      BY <3>1, <3>2, SubSeqProperties
    <3>4. Append(p, e) \in Seq(Completions)
      BY ONLY <1>4, <3>3, AppendProperties
    <3>5. QED BY <1>5, <3>4
  <2>4. QED BY <1>1, <1>5, <2>1, <2>2, <2>3 DEF States
<1>9. /\ StateInv(u) /\ u.pub = s.pub /\ u.control = s.control
      /\ \A t \in Tokens : Restoring(u, t)
  <2>1. StateInv(s) /\ k \in 0..Len(s.done)
    BY <1>1, <1>2
  <2>2. QED BY ONLY <1>3, <1>4, <1>5, <1>6, <2>1, PanicKeeps
<1>7. Over(u)
  <2>1. u.actor.work = NoWork /\ u.queue = <<>>
    BY <1>1, <1>3, <1>5 DEF States, Actors
  <2>2. Len(u.queue) = 0
    BY <2>1, EmptySeq
  <2>3. QED BY <2>1, <2>2 DEF Over
<1>8. UNCHANGED <<due, owner, enabled>>
  BY DEF ActorPanics
<1>10. QED BY ONLY Inv, s = Now, u = Now', <1>7, <1>8, <1>9, ActorStep

LEMMA ReducesKeeps == ASSUME Inv, ActorReduces PROVE Inv'
<1> PICK s : s = Now
  OBVIOUS
<1> PICK in : in = Head(s.queue)
  OBVIOUS
<1> PICK a : a = SyncedTo(s.control, s.actor)
  OBVIOUS
<1> PICK id : id = FreshId(s)
  OBVIOUS
<1> PICK b : b = [Reduced(a, in, id).actor EXCEPT !.work = Reduced(a, in, id).work]
  OBVIOUS
<1>1. /\ StateInv(s) /\ s \in States /\ Leased(s, enabled, owner, due)
      /\ s.control = control /\ s.router = router /\ s.actor = actor /\ s.queue = queue
      /\ s.done = done /\ s.pub = pub /\ s.job = job /\ s.probe = probe
  BY Before
<1>2. s.actor.work = NoWork /\ s.queue # <<>> /\ UNCHANGED <<due, owner, enabled>>
  BY <1>1 DEF ActorReduces, ActorTakes
<1>3. /\ s.queue \in Seq(Inputs) /\ in \in Inputs /\ in = s.queue[1] /\ 1 \in 1..Len(s.queue)
      /\ Len(Tail(s.queue)) = Len(s.queue) - 1 /\ Len(s.queue) \in Nat
      /\ \A i \in 1..Len(Tail(s.queue)) :
            i + 1 \in 1..Len(s.queue) /\ Tail(s.queue)[i] = s.queue[i + 1]
  <2>1. s.queue \in Seq(Inputs)
    BY <1>1 DEF States
  <2>2. QED BY <1>2, <2>1, HeadTailProperties, LenProperties
<1>4. a = Synced(s.actor)
  BY <1>1 DEF SyncedTo, Synced
<1> PICK u : u = Now'
  OBVIOUS
<1>5. /\ u.actor = IF in.gen # s.control.gen THEN s.actor
                   ELSE IF StaleRecovery(a, in) THEN a ELSE b
      /\ u.queue = Tail(s.queue) /\ u.control = s.control /\ u.router = s.router
      /\ u.done = s.done /\ u.pub = s.pub /\ u.job = s.job /\ u.probe = s.probe
      /\ u = [control |-> u.control, router |-> u.router, actor |-> u.actor,
              queue |-> u.queue, done |-> u.done, pub |-> u.pub, job |-> u.job,
              probe |-> u.probe]
  <2>1. /\ actor' = IF in.gen # s.control.gen THEN s.actor
                    ELSE IF StaleRecovery(a, in) THEN a ELSE b
        /\ queue' = Tail(s.queue) /\ UNCHANGED <<control, router, done, pub, job, probe>>
    BY <1>1, <1>4 DEF ActorReduces
  <2>2. QED BY <1>1, <2>1 DEF Now
<1>6. owner = "gone" => in.gen # s.control.gen
  BY <1>1, <1>3 DEF Leased, Over
<1>7. /\ a \in Actors /\ s.actor \in Actors /\ Tail(s.queue) \in Seq(Inputs)
      /\ s.queue # <<>> /\ StateInv(s)
      /\ a = s.actor \/ a = SyncedTo(s.control, s.actor)
  <2>1. s.queue \in Seq(Inputs)
    BY <1>1 DEF States
  <2>2. QED
    BY <1>1, <1>2, <2>1, HeadTailProperties, MapsAre DEF SyncedTo, States, Actors, Controls
<1>8. ASSUME NEW x, x = s.actor \/ x = SyncedTo(s.control, s.actor), u.actor = x,
             \A t \in Tokens : ~FullBook(Head(s.queue), s.control, t),
             owner = "gone" => x = s.actor
      PROVE Inv'
  <2>1. u \in States
    <3>1. x \in Actors
      BY <1>7, <1>8
    <3>2. QED BY <1>1, <1>5, <1>7, <1>8, <3>1 DEF States
  <2>2. /\ StateInv(u) /\ u.pub = s.pub /\ u.control = s.control
        /\ \A t \in Tokens : Restoring(s, t) =>
              Restoring(u, t) \/ FullBook(Head(s.queue), s.control, t)
    BY ONLY <1>1, <1>2, <1>5, <1>7, <1>8, <2>1, TakeKeeps
  <2>3. \A t \in Tokens : Restoring(s, t) => Restoring(u, t)
    BY <1>8, <2>2
  <2>4. owner = "gone" => Over(u)
    BY <1>1, <1>2, <1>3, <1>5, <1>8 DEF Leased, Over
  <2>5. QED BY ONLY Inv, s = Now, u = Now', <1>2, <2>2, <2>3, <2>4, ActorStep
<1>9. CASE in.gen # s.control.gen
  <2>1. u.actor = s.actor /\ \A t \in Tokens : ~FullBook(Head(s.queue), s.control, t)
    BY <1>5, <1>9 DEF FullBook
  <2>2. QED BY <1>8, <2>1
<1>10. CASE in.gen = s.control.gen
  <2>1. owner # "gone"
    BY <1>6, <1>10
  <2>2. CASE StaleRecovery(a, in)
    <3>1. u.actor = a /\ \A t \in Tokens : ~FullBook(Head(s.queue), s.control, t)
      BY <1>5, <1>10, <2>2 DEF FullBook, StaleRecovery
    <3>2. QED BY <1>7, <1>8, <2>1, <3>1
  <2>3. CASE ~StaleRecovery(a, in)
    <3> PICK v : v = [s EXCEPT !.actor = a, !.queue = Tail(s.queue)]
      OBVIOUS
    <3>1. /\ v.actor = a /\ v.queue = Tail(s.queue) /\ v.router = s.router /\ v.job = s.job
          /\ v.done = s.done /\ v \in States /\ v.pub = s.pub /\ v.control = s.control
      BY <1>1, <1>7 DEF States
    <3>0. /\ StateInv(v)
          /\ \A t \in Tokens : Restoring(s, t) =>
                Restoring(v, t) \/ FullBook(Head(s.queue), s.control, t)
      BY ONLY <1>2, <1>7, <3>1, TakeKeeps
    <3>2. /\ u.actor = b /\ u.queue = v.queue /\ u.control = v.control /\ u.router = v.router
          /\ u.done = v.done /\ u.pub = v.pub /\ u.job = v.job
      BY <1>5, <1>10, <2>3, <3>1
    <3>3. a \in Actors /\ a.gen = s.control.gen /\ a.work = NoWork
      BY <1>1, <1>2, <1>7, <3>0, <3>1 DEF SyncedTo, StateInv, States, Actors
    <3>4. \A t \in Tokens : a.book[t] # "old"
      BY <3>0, <3>1, <3>3 DEF StateInv, AgesOK, CurrentIsNew
    <3>5. in.age # "old"
      <4>1. RecOf(s.control, s.actor) = a.rec
        BY <1>1 DEF SyncedTo, RecOf, States, Actors
      <4>2. OldIsSuperseded(s.control, s.actor, s.queue)
        BY <1>1 DEF StateInv, AgesOK
      <4>3. QED BY <1>3, <1>10, <2>3, <4>1, <4>2 DEF OldIsSuperseded, StaleRecovery
    <3>6. id \in Nat \ {0} /\ id \notin UsedIds(s)
      BY <1>1, FreshIdIs
    <3>7. Follows(a, b, in, id)
      BY ONLY <1>3, <3>3, <3>4, <3>5, <3>6, ReducedIs,
              b = [Reduced(a, in, id).actor EXCEPT !.work = Reduced(a, in, id).work]
    <3>8. \A t \in Tokens : /\ id # v.router[t] /\ id # v.job.attempts[t]
                            /\ \A i \in 1..Len(v.queue) : id # v.queue[i].recovery[t]
                            /\ \A i \in 1..Len(v.done) : id # v.done[i].started[t]
      <4>1. \A t \in Tokens :
               /\ s.router[t] \in UsedIds(s) /\ s.job.attempts[t] \in UsedIds(s)
               /\ \A i \in 1..Len(s.queue) : s.queue[i].recovery[t] \in UsedIds(s)
               /\ \A i \in 1..Len(s.done) : s.done[i].started[t] \in UsedIds(s)
        BY <1>1, UsedIdsAre
      <4>2. QED BY ONLY <1>3, <3>1, <3>6, <4>1
    <3>9. /\ v.actor.work = NoWork /\ v.actor.gen = v.control.gen /\ in.gen = v.control.gen
          /\ in.kind # "checkpoint" => v.control.baseline
          /\ Held(v.control.pending) = {}
      <4>1. in.kind # "checkpoint" => s.control.baseline
        BY <1>1, <1>3, <1>10 DEF StateInv, MirrorsOK, Admitted
      <4>2. Held(s.control.pending) = {}
        BY <1>1, <1>3, <1>10 DEF StateInv, ServedOK, PendingIsTotal
      <4>3. QED BY <1>10, <3>1, <3>3, <4>1, <4>2
    <3>10. Follows(v.actor, b, in, id) /\ id # None
      BY <3>1, <3>6, <3>7 DEF None
    <3>11. /\ StateInv(u) /\ u.pub = v.pub /\ u.control = v.control
           /\ \A t \in Tokens : Restoring(v, t) => Restoring(u, t)
           /\ in.kind = "book" => \A t \in in.tokens : Restoring(u, t)
      <4>1. StateInv(v) /\ in \in Inputs
        BY <1>3, <3>0
      <4>2. u \in States
        <5>1. b \in Actors /\ v \in States
          BY <3>7, <4>1 DEF Follows, StateInv
        <5>2. QED BY <1>1, <1>5, <3>2, <5>1 DEF States
      <4>3. QED BY ONLY <3>2, <3>8, <3>9, <3>10, <4>1, <4>2, ReduceKeeps
    <3>12. \A t \in Tokens : Restoring(s, t) => Restoring(u, t)
      BY <3>0, <3>11 DEF FullBook
    <3>13. u.pub = s.pub /\ u.control = s.control /\ (owner = "gone" => Over(u))
      BY <1>10, <2>1, <3>1, <3>11
    <3>14. QED BY ONLY Inv, s = Now, u = Now', <1>2, <3>11, <3>12, <3>13, ActorStep
  <2>4. QED BY <2>2, <2>3
<1>11. QED BY <1>9, <1>10

LEMMA PublishesKeeps == ASSUME Inv, ActorPublishes PROVE Inv'
<1> PICK s : s = Now
  OBVIOUS
<1> PICK u : u = Now'
  OBVIOUS
<1> PICK w : w = s.actor.work
  OBVIOUS
<1>1. /\ StateInv(s) /\ s \in States /\ Leased(s, enabled, owner, due)
      /\ (owner # "gone" => RecKnown(s))
      /\ s.control = control /\ s.router = router /\ s.actor = actor /\ s.queue = queue
      /\ s.done = done /\ s.pub = pub /\ s.job = job /\ s.probe = probe
  BY Before
<1>2. /\ s.actor.work = w /\ w # NoWork /\ w \in Works /\ s.actor \in Actors
      /\ UNCHANGED <<owner, enabled>>
  BY <1>1 DEF ActorPublishes, States, Actors
<1>3. /\ u.control = control' /\ u.router = s.router /\ u.actor = actor' /\ u.queue = s.queue
      /\ u.done = done' /\ u.pub = pub' /\ u.job = job' /\ u.probe = probe'
      /\ u = [control |-> u.control, router |-> u.router, actor |-> u.actor,
              queue |-> u.queue, done |-> u.done, pub |-> u.pub, job |-> u.job,
              probe |-> u.probe]
  BY <1>1 DEF ActorPublishes, Now
<1>4. CASE w.gen # s.control.gen
  <2>1. /\ u.actor = [s.actor EXCEPT !.work = NoWork] /\ u.control = s.control
        /\ u.done = s.done /\ u.pub = s.pub /\ u.job = s.job /\ u.probe = s.probe
        /\ due' = due
    BY <1>1, <1>2, <1>3, <1>4 DEF ActorPublishes, Fenced
  <2>2. u.actor \in Actors /\ u.actor.work = NoWork
    BY <1>2, <2>1, MapsAre DEF Actors
  <2>3. u \in States
    BY <1>1, <1>3, <2>1, <2>2 DEF States
  <2>4. StateInv(s) /\ s.actor.work # NoWork /\ s.actor.work.gen # s.control.gen
    BY <1>1, <1>2, <1>4
  <2>5. /\ StateInv(u) /\ u.pub = s.pub /\ u.control = s.control
        /\ \A t \in Tokens : Restoring(s, t) => Restoring(u, t)
    BY ONLY <1>3, <2>1, <2>3, <2>4, FencedKeeps
  <2>6. owner = "gone" => Over(u)
    BY <1>1, <1>3, <2>1, <2>2 DEF Leased, Over
  <2>7. UNCHANGED <<due, owner, enabled>>
    BY <1>2, <2>1
  <2>8. QED BY ONLY Inv, s = Now, u = Now', <2>5, <2>6, <2>7, ActorStep
<1>5. CASE w.gen = s.control.gen
  <2>1. owner # "gone" /\ RecKnown(s)
    BY <1>1, <1>2, <1>5 DEF Leased, Over
  <2>2. CASE /\ GroupAccepted(s.pub, w) /\ pub' = GroupApplied(s.pub, w)
             /\ control' = [s.control EXCEPT !.attempts = Mirrored(s.control.attempts, w)]
             /\ done' = Reported(w, "none")
             /\ actor' = [Committed(w) EXCEPT !.work = NoWork]
             /\ job' = [s.job EXCEPT !.age = [t \in Tokens |->
                           IF w.started[t] # None THEN Aged(s.job.age[t], "old")
                           ELSE s.job.age[t]]]
             /\ probe' = IF Held(w.started) # {} THEN Aged(s.probe, "old") ELSE s.probe
             /\ due' = [due EXCEPT !.refused = {t \in due.refused : w.books[t] = "none"}]
    <3> PICK e : e = Completion(w, "none")
      OBVIOUS
    <3>1. /\ e \in Completions /\ e.error = "none" /\ e.gen = s.control.gen
          /\ e.started = w.started /\ e.completed = w.completed
      BY <1>2, <1>5 DEF Completion, Completions, Works
    <3>2. /\ AgesOK(s) /\ \A t \in Tokens : w.books[t] # "old" /\ s.actor.book[t] # "old"
      BY <1>1, <1>2, <1>5 DEF StateInv, AgesOK, CurrentIsNew, MirrorsOK, Admitted
    <3>3. /\ u.actor \in Actors /\ u.actor.gen = s.actor.gen /\ u.actor.rec = s.actor.rec
          /\ u.actor.open = s.actor.open /\ u.actor.work = NoWork
          /\ \A t \in Tokens : u.actor.book[t] # "old"
      <4> PICK c : c = Committed(w)
        OBVIOUS
      <4>1. /\ c \in Actors /\ c.gen = s.actor.gen /\ c.rec = s.actor.rec
            /\ c.open = s.actor.open /\ \A t \in Tokens : c.book[t] # "old"
        <5>1. CASE w.kind # "checkpoint"
          BY <1>1, <1>2, <3>2, <5>1 DEF Committed
        <5>2. CASE w.kind = "checkpoint"
          <6> PICK x \in Tokens : x = CHOOSE t \in Tokens : TRUE
            BY PipelineAssumption
          <6> PICK age : age = w.books[x]
            OBVIOUS
          <6> PICK T : T = Tokens
            OBVIOUS
          <6> PICK ids : ids = Nothing
            OBVIOUS
          <6> DEFINE b == Seeded(s.actor, T, age, ids)
          <6>1. age \in Ages /\ age # "old"
            BY <1>2, <3>2 DEF Works, BookMap
          <6>6. T \in SUBSET Tokens /\ ids \in IdMap /\ s.actor \in Actors
            BY <1>2, MapsAre
          <6>2. /\ b \in Actors /\ b.gen = s.actor.gen /\ b.open = s.actor.open
                /\ \A t \in Tokens :
                     /\ b.rec[t] = IF ids[t] # None THEN None ELSE s.actor.rec[t]
                     /\ b.book[t] = IF t \in T THEN age ELSE s.actor.book[t]
            BY ONLY <6>1, <6>6, SeededIs
          <6>3. c = b
            BY <1>1, <5>2 DEF Committed
          <6> HIDE DEF b
          <6>4. c.rec = s.actor.rec
            BY <1>2, <6>2, <6>3, MapsAre DEF Actors, IdMap
          <6>5. QED BY <6>1, <6>2, <6>3, <6>4
        <5>3. QED BY <5>1, <5>2
      <4>2. u.actor = [c EXCEPT !.work = NoWork]
        BY <1>3, <2>2
      <4>3. QED BY ONLY <4>1, <4>2, MapsAre DEF Actors
    <3>4. /\ u.control \in Controls /\ u.control.gen = s.control.gen
          /\ u.control.baseline = s.control.baseline /\ u.control.pending = s.control.pending
          /\ u.control.attempts = Mirrored(s.control.attempts, s.actor.work)
      <4> PICK m : m = Mirrored(s.control.attempts, w)
        OBVIOUS
      <4>1. m \in IdMap /\ s.control \in Controls
        BY <1>1, <1>2 DEF Mirrored, Override, States, Controls, Works, IdMap, None
      <4>2. u.control = [s.control EXCEPT !.attempts = m]
        BY <1>3, <2>2
      <4>3. QED BY <1>2, <4>1, <4>2 DEF Controls
    <3>5. u.pub = GroupApplied(s.pub, s.actor.work) /\ u.pub \in Pubs
      BY <1>1, <1>2, <1>3, <2>2, GroupAppliedIs DEF States
    <3>6. /\ u.done = IF Held(s.actor.work.started) \cup Held(s.actor.work.completed) # {}
                      THEN Append(s.done, e) ELSE s.done
          /\ u.done \in Seq(Completions)
      <4>1. u.done = IF Held(s.actor.work.started) \cup Held(s.actor.work.completed) # {}
                     THEN Append(s.done, e) ELSE s.done
        BY <1>1, <1>2, <1>3, <2>2 DEF Reported
      <4>2. s.done \in Seq(Completions)
        BY <1>1 DEF States
      <4>3. Append(s.done, e) \in Seq(Completions)
        BY ONLY <3>1, <4>2, AppendProperties
      <4>4. QED BY <4>1, <4>2, <4>3
    <3>7. /\ u.job \in Jobs /\ u.job.attempts = s.job.attempts
          /\ \A t \in Tokens : u.job.age[t] = IF s.actor.work.started[t] # None
                                              THEN Aged(s.job.age[t], "old") ELSE s.job.age[t]
      <4> PICK g : g = [t \in Tokens |-> IF w.started[t] # None THEN Aged(s.job.age[t], "old")
                                         ELSE s.job.age[t]]
        OBVIOUS
      <4>1. g \in BookMap /\ s.job \in Jobs
        BY <1>1 DEF States, Jobs, BookMap, Aged, Ages
      <4>2. u.job = [s.job EXCEPT !.age = g]
        BY <1>3, <2>2
      <4>3. QED BY <1>2, <4>1, <4>2 DEF Jobs
    <3>8. u.probe \in {"none", "fresh", "old"}
      BY <1>1, <1>3, <2>2 DEF Aged, States
    <3>9. u \in States
      BY <1>1, <1>3, <3>3, <3>4, <3>5, <3>6, <3>7, <3>8 DEF States
    <3>10. /\ StateInv(s) /\ s.actor.work # NoWork /\ s.actor.work.gen = s.control.gen
           /\ e.started = s.actor.work.started /\ e.completed = s.actor.work.completed
      BY <1>1, <1>2, <1>5, <3>1
    <3>11. /\ StateInv(u) /\ RecKnown(u) /\ u.pub.accepting = s.pub.accepting
           /\ \A t \in Tokens : Restoring(s, t) \/ w.books[t] # "none" => Restoring(u, t)
      <4>1. u.router = s.router /\ u.queue = s.queue
        BY <1>3
      <4>2. StateInv(u) /\ RecKnown(u) /\ u.pub.accepting = s.pub.accepting
        BY ONLY <2>1, <3>1, <3>3, <3>4, <3>5, <3>6, <3>7, <3>9, <3>10, <4>1, PublishedKeeps,
                ZenonT(60)
      <4>3. \A t \in Tokens : Restoring(s, t) \/ Writes(s.actor.work, t) => Restoring(u, t)
        BY ONLY <2>1, <3>1, <3>3, <3>4, <3>5, <3>6, <3>7, <3>9, <3>10, <4>1, PublishedKeeps,
                ZenonT(60)
      <4>4. QED BY <1>2, <4>2, <4>3 DEF Writes
    <3> PICK d : d = due
      OBVIOUS
    <3>12. /\ d \in [owed : SUBSET Tokens, refused : SUBSET Tokens]
           /\ due' = [d EXCEPT !.refused = {t \in d.refused : w.books[t] = "none"}]
      BY <1>1, <2>2 DEF Leased
    <3>13. /\ due' \in [owed : SUBSET Tokens, refused : SUBSET Tokens]
           /\ due'.owed = d.owed /\ due'.refused = {t \in d.refused : w.books[t] = "none"}
      BY <3>12
    <3>14. s.pub.accepting = TRUE
      BY <1>1, <2>2 DEF GroupAccepted, States, Pubs
    <3>15. Leased(u, enabled', owner', due')
      <4>1. /\ s.pub.accepting = enabled /\ enabled' = enabled /\ owner' = owner
            /\ owner \in {"loop", "pausing", "retiring", "failed", "gone"}
            /\ (owner = "pausing" => ~enabled) /\ enabled \in BOOLEAN
            /\ (enabled /\ owner = "loop" => \A t \in Tokens : Restored(s, t, d))
        BY <1>1, <1>2 DEF Leased
      <4>2. enabled /\ owner = "loop" => \A t \in Tokens : Restored(u, t, due')
        BY <1>2, <3>11, <3>13, <4>1 DEF Restored
      <4>3. QED BY <2>1, <3>11, <3>13, <3>14, <4>1, <4>2 DEF Leased
    <3>16. QED BY <3>11, <3>15, After
  <2>3. CASE \E error \in {"capacity", "worker"} :
               /\ done' = IF w.kind = "checkpoint" THEN s.done ELSE Reported(w, error)
               /\ actor' = [s.actor EXCEPT !.work = NoWork]
               /\ UNCHANGED <<control, pub, job, probe, due>>
    <3>1. PICK error \in {"capacity", "worker"} :
            /\ done' = IF w.kind = "checkpoint" THEN s.done ELSE Reported(w, error)
            /\ actor' = [s.actor EXCEPT !.work = NoWork]
            /\ UNCHANGED <<control, pub, job, probe, due>>
      BY <2>3
    <3> PICK e : e = Completion(w, error)
      OBVIOUS
    <3> PICK d : d = IF w.kind = "checkpoint" THEN s.done ELSE Append(s.done, e)
      OBVIOUS
    <3>2. /\ e \in Completions /\ e.error # "none" /\ e.gen = s.control.gen
          /\ \A t \in Tokens : e.started[t] = None /\ e.completed[t] = None
      BY <1>2, <1>5, MapsAre DEF Completion, Completions, Works
    <3>3. d \in Seq(Completions)
      <4>1. s.done \in Seq(Completions)
        BY <1>1 DEF States
      <4>2. Append(s.done, e) \in Seq(Completions)
        BY ONLY <3>2, <4>1, AppendProperties
      <4>3. QED BY <4>1, <4>2
    <3>4. /\ u.done = d /\ u.actor = [s.actor EXCEPT !.work = NoWork] /\ u.control = s.control
          /\ u.pub = s.pub /\ u.job = s.job /\ u.probe = s.probe
          /\ u.done = IF s.actor.work.kind = "checkpoint" THEN s.done ELSE Append(s.done, e)
      BY <1>1, <1>2, <1>3, <3>1 DEF Reported
    <3>5. u.actor \in Actors
      BY <1>2, <3>4, MapsAre DEF Actors
    <3>6. u \in States
      BY <1>1, <1>3, <3>3, <3>4, <3>5 DEF States
    <3>7. StateInv(s) /\ s.actor.work # NoWork /\ s.actor.work.gen = s.control.gen
      BY <1>1, <1>2, <1>5
    <3>8. /\ StateInv(u) /\ u.pub = s.pub /\ u.control = s.control
          /\ \A t \in Tokens : Restoring(s, t) => Restoring(u, t)
      <4>1. u.router = s.router /\ u.queue = s.queue
        BY <1>3
      <4>2. QED BY ONLY <3>2, <3>4, <3>6, <3>7, <4>1, RefusedKeeps
    <3>9. UNCHANGED <<due, owner, enabled>> /\ (owner = "gone" => Over(u))
      BY <1>2, <2>1, <3>1
    <3>10. QED BY ONLY Inv, s = Now, u = Now', <3>8, <3>9, ActorStep
  <2>4. QED BY <1>1, <1>2, <1>5, <2>2, <2>3 DEF ActorPublishes, Fenced
<1>6. QED BY <1>4, <1>5

\* Every step keeps the invariant.
LEMMA NextKeeps == ASSUME Inv, [Next]_vars PROVE Inv'
<1>1. ASSUME NEW T \in Covers, ReceiveDelta(T) \/ ReceiveInvalid(T) PROVE Inv'
  <2>1. T \in SUBSET Tokens
    BY PipelineAssumption
  <2>2. ReceiveFrame("delta", T) \/ ReceiveFrame("bad", T)
    BY <1>1 DEF ReceiveDelta, ReceiveInvalid
  <2>3. QED BY <2>1, <2>2, FrameKeeps
<1>2. CASE ReceiveGap
  <2>1. ReceiveFrame("gap", Tokens) /\ Tokens \in SUBSET Tokens
    BY <1>2 DEF ReceiveGap
  <2>2. QED BY <2>1, FrameKeeps
<1>3. ASSUME NEW t \in Tokens, ReceiveBook(t) PROVE Inv'
  <2>1. ReceiveFrame("book", {t}) /\ {t} \in SUBSET Tokens
    BY <1>3 DEF ReceiveBook
  <2>2. QED BY <2>1, FrameKeeps
<1>4. CASE SocketFailed \/ SubmitCheckpoint \/ Publish \/ RetryTick
  BY <1>4, SocketKeeps, CheckpointKeeps, PublishKeeps, RetryKeeps
<1>5. CASE JobAnswered \/ JobFailed \/ AskConfirmation \/ ConfirmationAnswered
  BY <1>5, AnsweredKeeps, FailedKeeps, AskedKeeps, ConfirmedKeeps
<1>6. CASE PauseSource \/ PauseAll \/ AcquireLease \/ TerminalPublished \/ RemoveMarket
  BY <1>6, PausingKeeps, PausedKeeps, LeasedKeeps, TerminalKeeps, RemovedKeeps
<1>7. CASE ActorReduces \/ ActorPanics \/ ActorPublishes
  BY <1>7, ReducesKeeps, PanickedKeeps, PublishesKeeps
<1>8. CASE UNCHANGED vars
  <2> PICK s : s = Now
    OBVIOUS
  <2>1. Now' = s /\ UNCHANGED <<due, owner, enabled>>
    BY <1>8 DEF vars, Now
  <2>2. StateInv(s) /\ Leased(s, enabled', owner', due')
    BY <2>1, Before
  <2>3. QED BY <2>1, <2>2, After
<1>9. QED BY <1>1, <1>2, <1>3, <1>4, <1>5, <1>6, <1>7, <1>8 DEF Next

LEMMA Invariant == Spec => []Inv
<1>1. Init => Inv
  BY InitInv
<1>2. Inv /\ [Next]_vars => Inv'
  BY NextKeeps
<1>3. QED BY <1>1, <1>2, PTL DEF Spec

-----------------------------------------------------------------------------
(* The properties.                                                         *)

\* No reader is ever served a book from before the token's last barrier, whether it was
\* queued, reduced or asked for when the barrier came: a published "old" book is hidden by
\* the recovery that the barrier started or by a seed that is still missing, and what may
\* still be published is new or carries attempts that are over.
THEOREM NeverServedStale == Spec => []ReadableIsAfterBarrier
<1>1. Inv => ReadableIsAfterBarrier
  BY DEF Inv, StateInv, AgesOK, HiddenIfOld, ReadableIsAfterBarrier, Readable, Now
<1>2. QED BY <1>1, Invariant, PTL

\* What the reducer, the control record and the owner hold of a settled market.
LEMMA SettledIs ==
  ASSUME Inv, Settled
  PROVE /\ router = control.attempts
        /\ actor.gen = control.gen => actor.rec = control.attempts
        /\ \A t \in Tokens : ~UnderWay(control, actor, queue, t)
        /\ \A i \in 1..Len(done) : FALSE
<1> PICK s : s = Now
  OBVIOUS
<1>1. /\ StateInv(s) /\ s \in States
      /\ s.control = control /\ s.router = router /\ s.actor = actor /\ s.queue = queue
      /\ s.done = done /\ s.pub = pub /\ s.job = job /\ s.probe = probe
  BY Before
<1>2. /\ s.actor.open /\ s.actor.work = NoWork /\ s.queue = <<>> /\ s.done = <<>>
  BY <1>1 DEF Settled
<1>3. Len(s.queue) = 0 /\ Len(s.done) = 0 /\ 1..0 = {}
  BY <1>2, EmptySeq
<1>4. /\ s.router \in IdMap /\ s.control.attempts \in IdMap /\ s.actor.rec \in IdMap
  BY <1>1 DEF States, Controls, Actors
<1>5. \A t \in Tokens : s.router[t] = s.control.attempts[t]
  BY <1>1, <1>2, <1>3 DEF StateInv, MirrorsOK, RouterCatchesUp
<1>6. s.router = s.control.attempts
  BY <1>4, <1>5 DEF IdMap
<1>7. s.actor.gen = s.control.gen => s.actor.rec = s.control.attempts
  <2> SUFFICES ASSUME s.actor.gen = s.control.gen PROVE s.actor.rec = s.control.attempts
    OBVIOUS
  <2>1. \A t \in Tokens : s.actor.rec[t] = Mirrored(s.control.attempts, NoWork)[t]
    BY <1>1, <1>2, <1>3 DEF StateInv, MirrorsOK, ReducerIsAhead
  <2>2. \A t \in Tokens : NoWork.started[t] = None /\ NoWork.completed[t] = None
    BY MapsAre DEF NoWork
  <2>3. \A t \in Tokens : s.actor.rec[t] = s.control.attempts[t]
    BY <2>1, <2>2 DEF Mirrored, Override
  <2>4. QED BY <1>4, <2>3 DEF IdMap
<1>8. \A t \in Tokens : ~UnderWay(s.control, s.actor, s.queue, t)
  <2>1. \A t \in Tokens : NoWork.books[t] = "none"
    BY MapsAre DEF NoWork
  <2>2. QED BY <1>2, <1>3, <2>1 DEF UnderWay
<1>9. QED BY <1>1, <1>3, <1>6, <1>7, <1>8

\* Whenever nothing is queued, reduced or on its way, the owner's router, the control record
\* and the reducer hold the same recovery attempts, whatever completions and refusals came
\* before and however often the generation changed.
THEOREM MirrorsAlwaysAgree == Spec => []MirrorsAgree
<1>1. Inv => MirrorsAgree
  BY SettledIs DEF MirrorsAgree
<1>2. QED BY <1>1, Invariant, PTL

\* No sequence of barriers, refused groups, late answers, failures and leases leaves a
\* token unserved with nothing that restores it, except for a snapshot that the owner
\* dropped as already unavailable.
THEOREM NeverStranded == Spec => []NoStrandedRecovery
<1>1. Inv => NoStrandedRecovery
  <2> SUFFICES ASSUME Inv, Settled, enabled, NEW t \in Tokens, ~Readable(pub, t)
               PROVE \E u \in IF pub.fenced THEN Tokens ELSE {t} :
                        Restorable(u) \/ u \in due.refused
    BY DEF NoStrandedRecovery
  <2> PICK s : s = Now
    OBVIOUS
  <2>1. /\ StateInv(s) /\ Leased(s, enabled, owner, due)
        /\ s.control = control /\ s.router = router /\ s.actor = actor /\ s.queue = queue
        /\ s.done = done /\ s.pub = pub
    BY Before
  <2>2. owner = "loop" /\ s.actor.open
    BY <2>1 DEF Settled
  <2>3. RecKnown(s) /\ \A u \in Tokens : Restored(s, u, due)
    BY <2>1, <2>2 DEF Leased
  <2>4. /\ s.router = s.control.attempts
        /\ \A u \in Tokens : ~UnderWay(s.control, s.actor, s.queue, u)
        /\ \A i \in 1..Len(s.done) : FALSE
    BY <2>1, SettledIs
  <2>5. \A u \in Tokens : ~Clear(s.pub, u) => Restorable(u) \/ u \in due.refused
    BY <2>1, <2>2, <2>3, <2>4 DEF Restored, Restoring, Restorable
  <2>6. CASE s.pub.fenced
    <3>1. PICK u \in Tokens : u \in s.pub.seed \/ s.pub.rec[u] # None \/ s.pub.book[u] = "none"
      BY <2>1, <2>6 DEF StateInv, ServedOK
    <3>2. CASE s.pub.rec[u] # None
      BY <2>1, <2>3, <2>4, <2>6, <3>2 DEF RecKnown, Restorable
    <3>3. CASE s.pub.rec[u] = None
      <4>1. ~Clear(s.pub, u)
        BY <3>1, <3>3 DEF Clear
      <4>2. QED BY <2>1, <2>5, <2>6, <4>1
    <3>4. QED BY <3>2, <3>3
  <2>7. CASE ~s.pub.fenced
    <3>1. ~Clear(s.pub, t)
      BY <2>1, <2>7 DEF Clear, Readable
    <3>2. QED BY <2>1, <2>5, <2>7, <3>1
  <2>8. QED BY <2>6, <2>7
<1>2. QED BY <1>1, Invariant, PTL
=============================================================================
