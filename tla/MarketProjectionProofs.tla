---------------------- MODULE MarketProjectionProofs ----------------------
(***************************************************************************)
(* Proofs about MarketProjection, for every set of markets and tokens and  *)
(* every input.                                                            *)
(*                                                                         *)
(* Two arguments.  An invariant of one projection (Sound) is kept by       *)
(* Evaluate and by Prune, so that it holds of the published projection and *)
(* of the replayed one.  And Evaluate respects the relation Alike between  *)
(* the two: they agree but for readiness and for gaps of tokens that have  *)
(* no book, which no later event can tell apart.  Since what is persisted  *)
(* of an event is persisted of it again (PersistedTwice), replay then      *)
(* takes every step that the writer took.                                  *)
(***************************************************************************)
EXTENDS MarketProjection, TLAPS

Books == [bids : SUBSET Nat, asks : SUBSET Nat, tick : Nat, at : Nat, refresh : Nat]
Statuses == {None, "ready", "recovering", "quarantined", "unavailable"}
Gaps == Tokens \cup {CatalogGap, GroupGap, ConditionGap}

Faults ==
  {"invalid_catalog_snapshot", "catalog_refresh_required", "market_resolution_source_mismatch",
   "token_not_in_active_catalog", "invalid_tick_full_book", "crossed_or_locked_full_book",
   "full_book_recovery_required", "invalid_tick_delta", "crossed_or_locked_delta",
   "invalid_tick_atomic_delta", "best_bid_ask_source_mismatch",
   "crossed_or_locked_atomic_delta", "invalid_tick_last_trade", "tick_size_source_mismatch",
   "tick_size_recovery_required", "source_data_delayed", "source_gap"}
Reasons ==
  Faults \cup {None, "bootstrap_required", "instrument_tick_inconsistent",
              "one_sided_active_book", "no_healthy_markets", "unresolved_gap"}

Projections ==
  [cursor : Nat, catalog : BOOLEAN, markets : [Markets -> {"absent", "active", "resolved"}],
   fact : [Markets -> Nat], relation : BOOLEAN, monitoring : SUBSET Markets,
   books : [Tokens -> Books], health : [Markets -> Statuses],
   sequence : [Markets -> Nat], quarantined : SUBSET Tokens,
   recovery : [Markets -> SUBSET Tokens], gaps : SUBSET Gaps, ready : BOOLEAN,
   reason : Reasons]

(* A token outside the active markets has no book, and before the first    *)
(* catalog there is neither a market nor anything it would leave behind.   *)
Scoped(p) ==
  IF p.catalog THEN \A t \in Tokens \ Configured(p) : p.books[t] = NoBook
  ELSE p.monitoring = {} /\ \A m \in Markets : p.markets[m] = "absent" /\ p.recovery[m] = {}

Uncrossed(p) == \A t \in Tokens : ~ Crossed(p.books[t])

(* A broken group keeps its gap until the next catalog.                    *)
Related(p) == p.relation \/ GroupGap \in p.gaps

(* A market with a quarantined token is not public, and a quarantined one  *)
(* has collected no book yet.  Only books of its own tokens count.         *)
Isolated(p) ==
  /\ \A t \in p.quarantined : ~ Public(p, MarketOf[t])
  /\ \A m \in Markets : p.recovery[m] \subseteq TokensOf(m)
  /\ \A m \in Markets : p.health[m] = "quarantined" => p.recovery[m] = {}

Offered(p) == p.ready /\ p.catalog => \A m \in PublicMarkets(p) : Executable(p, m)

(* What every stage of an event keeps, and what holds between events.      *)
Steady(p) == p \in Projections /\ Scoped(p) /\ Uncrossed(p) /\ Related(p) /\ Isolated(p)
Sound(p) == Steady(p) /\ Offered(p)

Alike(p, q) ==
  /\ q.cursor = p.cursor /\ q.catalog = p.catalog /\ q.markets = p.markets
  /\ q.fact = p.fact /\ q.relation = p.relation /\ q.monitoring = p.monitoring
  /\ q.books = p.books /\ q.health = p.health /\ q.sequence = p.sequence
  /\ q.quarantined = p.quarantined /\ q.recovery = p.recovery
  /\ \A g \in (p.gaps \cup q.gaps) \ (p.gaps \cap q.gaps) : g \in Tokens /\ p.books[g] = NoBook

(* A collected book is a fresh one, unless it is gone again.               *)
Collects ==
  \A m \in Markets : \A t \in live.recovery[m] : t \in fresh \/ live.books[t] = NoBook

IInv ==
  /\ Sound(live) /\ Sound(shadow) /\ Alike(live, shadow)
  /\ ~ diverged /\ consumer \in [Tokens -> Books] /\ fresh \subseteq Tokens
  /\ Collects /\ DeltasAreComplete
-----------------------------------------------------------------------------
(* Events *)

AtomicEvents ==
  [kind : {"atomic"}, delayed : BOOLEAN, token : Tokens, changes : SUBSET LevelChange,
   bid : Quote, ask : Quote, observed : Nat, received : Nat]

LEMMA EventTypes ==
  ASSUME NEW e \in EventKind
  PROVE  /\ e.kind \in TokenKinds \cup {"catalog", "new", "resolved"}
         /\ e.delayed \in BOOLEAN
         /\ e.kind \in TokenKinds =>
              e.token \in Tokens /\ e.observed \in Nat /\ e.received \in Nat
         /\ e.kind = "atomic" => e \in AtomicEvents
         /\ e.kind = "delta" => e.changes \subseteq LevelChange
         /\ e.kind = "book" => e.bids \subseteq Nat /\ e.asks \subseteq Nat /\ e.tick \in Nat
         /\ e.kind = "tick" => e.tick \in Nat
         /\ e.kind = "resolved" => e.market \in Markets
         /\ e.kind = "catalog" => e.active \subseteq Markets /\ e.fact \in [Markets -> Nat]
BY DEF EventKind, TokenKinds, AtomicEvents

LEMMA AtomicIsAnEvent == AtomicEvents \subseteq EventKind
BY DEF AtomicEvents, EventKind

(* Completing the changes of a frame.                                      *)
LEMMA CompleteFacts ==
  ASSUME NEW book \in Books, NEW e \in AtomicEvents
  PROVE  /\ Complete(book, e) \subseteq LevelChange
         /\ Observed(e) => /\ \A x \in book.bids : AboveBid(e, x) =>
                                [side |-> "bid", price |-> x, zero |-> TRUE] \in Complete(book, e)
                           /\ \A x \in book.asks : BelowAsk(e, x) =>
                                [side |-> "ask", price |-> x, zero |-> TRUE] \in Complete(book, e)
                           /\ \A c \in Complete(book, e) :
                                ~ c.zero => IF c.side = "bid" THEN ~ AboveBid(e, c.price)
                                            ELSE ~ BelowAsk(e, c.price)
<1> DEFINE bids == {x \in book.bids \cup Prices(e.changes, "bid", FALSE) : AboveBid(e, x)}
           asks == {x \in book.asks \cup Prices(e.changes, "ask", FALSE) : BelowAsk(e, x)}
           kept == {c \in e.changes : c.price \notin (IF c.side = "bid" THEN bids ELSE asks)}
           gone(side, xs) == {[side |-> side, price |-> x, zero |-> TRUE] : x \in xs}
<1>1. e.changes \subseteq LevelChange
  BY DEF AtomicEvents
<1>2. Complete(book, e) = IF ~ Observed(e) THEN e.changes
                          ELSE kept \cup gone("bid", bids) \cup gone("ask", asks)
  BY DEF Complete
<1>3. bids \subseteq Nat /\ asks \subseteq Nat
  <2>1. \A c \in e.changes : c.price \in Nat
    BY <1>1 DEF LevelChange
  <2>2. Prices(e.changes, "bid", FALSE) \subseteq Nat /\ Prices(e.changes, "ask", FALSE) \subseteq Nat
    BY <2>1 DEF Prices
  <2>3. book.bids \subseteq Nat /\ book.asks \subseteq Nat
    BY DEF Books
  <2>4. QED BY <2>2, <2>3
<1>4. gone("bid", bids) \subseteq LevelChange /\ gone("ask", asks) \subseteq LevelChange
  <2>1. \A x \in Nat : /\ [side |-> "bid", price |-> x, zero |-> TRUE] \in LevelChange
                       /\ [side |-> "ask", price |-> x, zero |-> TRUE] \in LevelChange
    BY DEF LevelChange
  <2> HIDE DEF bids, asks
  <2>2. QED BY <2>1, <1>3
<1>5. Complete(book, e) \subseteq LevelChange
  BY <1>1, <1>2, <1>4
<1>6. ASSUME Observed(e), NEW c \in kept, ~ c.zero
      PROVE  IF c.side = "bid" THEN ~ AboveBid(e, c.price) ELSE ~ BelowAsk(e, c.price)
  <2>1. c \in LevelChange /\ c \in e.changes /\ c.zero = FALSE
    BY <1>1, <1>6 DEF LevelChange
  <2>2. CASE c.side = "bid"
    <3>1. c.price \in Prices(e.changes, "bid", FALSE)
      BY <2>1, <2>2 DEF Prices
    <3>2. QED BY <3>1, <2>2
  <2>3. CASE c.side # "bid"
    <3>1. c.price \in Prices(e.changes, "ask", FALSE)
      BY <2>1, <2>3 DEF Prices, LevelChange
    <3>2. QED BY <3>1, <2>3
  <2>4. QED BY <2>2, <2>3
<1>7. ASSUME NEW c \in gone("bid", bids) \cup gone("ask", asks) PROVE c.zero = TRUE
  <2>1. PICK x : \/ c = [side |-> "bid", price |-> x, zero |-> TRUE]
                 \/ c = [side |-> "ask", price |-> x, zero |-> TRUE]
    OBVIOUS
  <2>2. QED BY <2>1
<1>8. QED BY <1>2, <1>5, <1>6, <1>7

(* Completed changes are complete.                                         *)
LEMMA CompleteTwice ==
  ASSUME NEW book \in Books, NEW e \in AtomicEvents, NEW f,
         f = [e EXCEPT !.changes = Complete(book, e)]
  PROVE  Complete(book, f) = Complete(book, e)
<1> DEFINE bids(c) == {x \in book.bids \cup Prices(c, "bid", FALSE) : AboveBid(e, x)}
           asks(c) == {x \in book.asks \cup Prices(c, "ask", FALSE) : BelowAsk(e, x)}
           side(d, c) == IF d.side = "bid" THEN bids(c) ELSE asks(c)
           kept(c) == {d \in c : d.price \notin side(d, c)}
           gone(s, xs) == {[side |-> s, price |-> x, zero |-> TRUE] : x \in xs}
           C == e.changes
           D == Complete(book, e)
<1>1. C \subseteq LevelChange /\ D \subseteq LevelChange
  BY CompleteFacts DEF AtomicEvents
<1>2. /\ f.changes = D
      /\ Observed(f) = Observed(e)
      /\ \A x : AboveBid(f, x) = AboveBid(e, x) /\ BelowAsk(f, x) = BelowAsk(e, x)
  BY DEF AtomicEvents, Observed, AboveBid, BelowAsk, ExpectedBid, ExpectedAsk
<1>3. CASE ~ Observed(e)
  BY <1>2, <1>3 DEF Complete
<1>4. CASE Observed(e)
  <2>1. D = kept(C) \cup gone("bid", bids(C)) \cup gone("ask", asks(C))
    BY <1>4 DEF Complete
  <2>2. Complete(book, f) = kept(D) \cup gone("bid", bids(D)) \cup gone("ask", asks(D))
    BY <1>2, <1>4 DEF Complete
  <2>3. bids(D) = {x \in book.bids : AboveBid(e, x)} /\ asks(D) = {x \in book.asks : BelowAsk(e, x)}
    <3>1. \A c \in D : ~ c.zero => IF c.side = "bid" THEN ~ AboveBid(e, c.price)
                                   ELSE ~ BelowAsk(e, c.price)
      BY <1>4, CompleteFacts
    <3>2. QED BY <3>1 DEF Prices
  <2>4. bids(D) \subseteq bids(C) /\ asks(D) \subseteq asks(C)
    BY <2>3
  <2>5. ASSUME NEW d \in D PROVE d \in Complete(book, f)
    <3>1. CASE d.price \notin side(d, D)
      BY <3>1, <2>2
    <3>2. CASE d.price \in side(d, D)
      <4>1. d.price \in side(d, C)
        BY <3>2, <2>4
      <4>2. d \in gone("bid", bids(C)) \cup gone("ask", asks(C))
        BY <4>1, <2>1
      <4>3. PICK x : \/ d = [side |-> "bid", price |-> x, zero |-> TRUE]
                     \/ d = [side |-> "ask", price |-> x, zero |-> TRUE]
        BY <4>2
      <4>4. QED BY <4>3, <3>2, <2>2
    <3>3. QED BY <3>1, <3>2
  <2>6. ASSUME NEW d \in Complete(book, f) PROVE d \in D
    <3>1. gone("bid", bids(D)) \subseteq gone("bid", bids(C))
      BY <2>4
    <3>2. gone("ask", asks(D)) \subseteq gone("ask", asks(C))
      BY <2>4
    <3>3. QED BY <3>1, <3>2, <2>1, <2>2
  <2>7. QED BY <2>5, <2>6
<1>5. QED BY <1>3, <1>4

(* The levels that completed changes leave lie within the best prices.     *)
LEMMA CompletePrunes ==
  ASSUME NEW book \in Books, NEW e \in AtomicEvents, Observed(e),
         NEW raw, raw = ApplyLevels(book, Complete(book, e))
  PROVE  /\ \A x \in raw.bids : ~ AboveBid(e, x)
         /\ \A x \in raw.asks : ~ BelowAsk(e, x)
<1> DEFINE D == Complete(book, e)
<1>1. /\ D \subseteq LevelChange
      /\ \A x \in book.bids : AboveBid(e, x) => [side |-> "bid", price |-> x, zero |-> TRUE] \in D
      /\ \A x \in book.asks : BelowAsk(e, x) => [side |-> "ask", price |-> x, zero |-> TRUE] \in D
      /\ \A c \in D : ~ c.zero => IF c.side = "bid" THEN ~ AboveBid(e, c.price)
                                  ELSE ~ BelowAsk(e, c.price)
  BY CompleteFacts
<1> HIDE DEF D
<1>2. raw.bids = (book.bids \ Prices(D, "bid", TRUE)) \cup Prices(D, "bid", FALSE)
  BY DEF ApplyLevels, Books, D
<1>3. raw.asks = (book.asks \ Prices(D, "ask", TRUE)) \cup Prices(D, "ask", FALSE)
  BY DEF ApplyLevels, Books, D
<1>4. ASSUME NEW x \in raw.bids PROVE ~ AboveBid(e, x)
  <2>1. CASE x \in Prices(D, "bid", FALSE)
    BY <2>1, <1>1 DEF Prices
  <2>2. CASE x \in book.bids /\ x \notin Prices(D, "bid", TRUE)
    <3>1. [side |-> "bid", price |-> x, zero |-> TRUE] \notin D
      BY <2>2 DEF Prices
    <3>2. QED BY <3>1, <2>2, <1>1
  <2>3. QED BY <2>1, <2>2, <1>2
<1>5. ASSUME NEW x \in raw.asks PROVE ~ BelowAsk(e, x)
  <2>1. CASE x \in Prices(D, "ask", FALSE)
    BY <2>1, <1>1 DEF Prices
  <2>2. CASE x \in book.asks /\ x \notin Prices(D, "ask", TRUE)
    <3>1. [side |-> "ask", price |-> x, zero |-> TRUE] \notin D
      BY <2>2 DEF Prices
    <3>2. QED BY <3>1, <2>2, <1>1
  <2>3. QED BY <2>1, <2>2, <1>3
<1>6. QED BY <1>4, <1>5

(* What is persisted of an event looks at the books only.                  *)
LEMMA SameBooks ==
  ASSUME NEW p, NEW q, NEW e, q.books = p.books
  PROVE  Superseded(q, e) = Superseded(p, e) /\ Persisted(q, e) = Persisted(p, e)
BY DEF Superseded, Persisted

LEMMA PersistedFacts ==
  ASSUME NEW p \in Projections, NEW e \in EventKind, NEW f, f = Persisted(p, e)
  PROVE  /\ f \in EventKind
         /\ f.kind = e.kind /\ f.delayed = e.delayed
         /\ e.kind # "atomic" => f = e
         /\ e.kind \in TokenKinds => f.token = e.token
         /\ Superseded(p, f) = Superseded(p, e)
         /\ Persisted(p, f) = f
<1>1. CASE e.kind # "atomic"
  BY <1>1 DEF Persisted
<1>2. CASE e.kind = "atomic"
  <2>1. e \in AtomicEvents
    BY <1>2, EventTypes
  <2>2. p.books[e.token] \in Books
    BY <2>1 DEF AtomicEvents, Projections
  <2>3. ASSUME NEW c \in SUBSET LevelChange, NEW g, g = [e EXCEPT !.changes = c]
        PROVE  /\ g \in AtomicEvents /\ g.changes = c
               /\ g.kind = e.kind /\ g.delayed = e.delayed /\ g.token = e.token
               /\ g.received = e.received /\ g.observed = e.observed
               /\ \A d : [g EXCEPT !.changes = d] = [e EXCEPT !.changes = d]
    BY <2>1, <2>3 DEF AtomicEvents
  <2>4. ASSUME NEW c \in SUBSET LevelChange, NEW g, g = [e EXCEPT !.changes = c]
        PROVE  Superseded(p, g) = Superseded(p, e)
    BY <2>3, <2>4 DEF Superseded
  <2>5. CASE Superseded(p, e)
    <3> PICK c : c = {}
      OBVIOUS
    <3>1. c \in SUBSET LevelChange /\ f = [e EXCEPT !.changes = c]
      BY <1>2, <2>5 DEF Persisted
    <3>2. /\ f \in AtomicEvents /\ f.kind = e.kind /\ f.delayed = e.delayed /\ f.token = e.token
          /\ [f EXCEPT !.changes = c] = f
      BY <3>1, <2>3
    <3>3. Superseded(p, f) = Superseded(p, e)
      BY <3>1, <2>4
    <3>4. Persisted(p, f) = f
      BY <3>2, <3>3, <2>5, <1>2 DEF Persisted
    <3>5. QED BY <3>2, <3>3, <3>4, AtomicIsAnEvent, <1>2
  <2>6. CASE ~ Superseded(p, e) /\ (e.delayed \/ p.books[e.token] = NoBook)
    <3>1. f = e
      BY <1>2, <2>6 DEF Persisted
    <3>2. QED BY <3>1
  <2>7. CASE ~ Superseded(p, e) /\ ~ (e.delayed \/ p.books[e.token] = NoBook)
    <3>1. PICK c : c = Complete(p.books[e.token], e)
      OBVIOUS
    <3>2. c \in SUBSET LevelChange
      BY <3>1, <2>1, <2>2, CompleteFacts
    <3>3. f = [e EXCEPT !.changes = c]
      BY <1>2, <2>7, <3>1 DEF Persisted
    <3>4. /\ f \in AtomicEvents /\ f.kind = e.kind /\ f.delayed = e.delayed /\ f.token = e.token
          /\ [f EXCEPT !.changes = c] = f
      BY <3>2, <3>3, <2>3
    <3>5. Superseded(p, f) = Superseded(p, e)
      BY <3>2, <3>3, <2>4
    <3>6. Complete(p.books[f.token], f) = c
      BY <3>1, <3>3, <3>4, <2>1, <2>2, CompleteTwice
    <3>7. Persisted(p, f) = f
      BY <3>4, <3>5, <3>6, <2>7, <1>2 DEF Persisted
    <3>8. QED BY <3>4, <3>5, <3>7, AtomicIsAnEvent, <1>2
  <2>8. QED BY <2>5, <2>6, <2>7
<1>3. QED BY <1>1, <1>2

(* The removals that the venue's best prices imply are in a persisted      *)
(* frame, and a superseded frame changes no level.                         *)
Completed(p, f) ==
  f.kind = "atomic" /\ p.books[f.token] # NoBook =>
    IF Superseded(p, f) THEN f.changes = {}
    ELSE ~ f.delayed /\ Observed(f) =>
           /\ \A x \in ApplyLevels(p.books[f.token], f.changes).bids : ~ AboveBid(f, x)
           /\ \A x \in ApplyLevels(p.books[f.token], f.changes).asks : ~ BelowAsk(f, x)

LEMMA PersistedIsCompleted ==
  ASSUME NEW p \in Projections, NEW e \in EventKind, NEW f, f = Persisted(p, e)
  PROVE  Completed(p, f)
<1> SUFFICES ASSUME f.kind = "atomic", p.books[f.token] # NoBook
             PROVE  IF Superseded(p, f) THEN f.changes = {}
                    ELSE ~ f.delayed /\ Observed(f) =>
                      /\ \A x \in ApplyLevels(p.books[f.token], f.changes).bids : ~ AboveBid(f, x)
                      /\ \A x \in ApplyLevels(p.books[f.token], f.changes).asks : ~ BelowAsk(f, x)
  BY DEF Completed
<1>1. f \in EventKind /\ Persisted(p, f) = f
  BY PersistedFacts
<1>2. f \in AtomicEvents
  BY <1>1, EventTypes
<1>3. CASE Superseded(p, f)
  <2>1. f = [f EXCEPT !.changes = {}]
    BY <1>1, <1>3 DEF Persisted
  <2>2. QED BY <2>1, <1>2, <1>3 DEF AtomicEvents
<1>4. CASE ~ Superseded(p, f) /\ ~ f.delayed /\ Observed(f)
  <2>1. f = [f EXCEPT !.changes = Complete(p.books[f.token], f)]
    BY <1>1, <1>4 DEF Persisted
  <2>2. f.changes = Complete(p.books[f.token], f)
    BY <2>1, <1>2 DEF AtomicEvents
  <2>3. p.books[f.token] \in Books
    BY <1>2 DEF AtomicEvents, Projections
  <2>4. QED BY <1>2, <1>4, <2>2, <2>3, CompletePrunes
<1>5. QED BY <1>3, <1>4

-----------------------------------------------------------------------------
(* The stages of an event *)

(* An event whose persisted form is f, on projection p.                    *)
Judge(p, f) ==
  Judged(p, EventMarket(p, f), f, Effect(Started(p, EventMarket(p, f)), f))

LEMMA EvaluateIsJudge ==
  ASSUME NEW p \in Projections, NEW e \in EventKind, NEW f, f = Persisted(p, e)
  PROVE  Evaluate(p, e) = Judge(p, f)
<1>1. /\ f \in EventKind /\ f.kind = e.kind /\ (e.kind # "atomic" => f = e)
      /\ e.kind \in TokenKinds => f.token = e.token
  BY PersistedFacts
<1>2. EventMarket(p, f) = EventMarket(p, e)
  BY <1>1 DEF EventMarket, TokenKinds
<1> PICK m : m = EventMarket(p, e)
  OBVIOUS
<1> PICK start : start = Started(p, m)
  OBVIOUS
<1>3. start.books = p.books
  BY DEF Started, Projections
<1>4. Persisted(start, e) = f
  BY <1>3, SameBooks
<1> PICK effect : effect = Effect(start, f)
  OBVIOUS
<1>5. Evaluate(p, e) = Judged(p, m, e, effect)
  BY <1>4 DEF Evaluate, Applied
<1>6. Judged(p, m, e, effect) = Judged(p, m, f, effect)
  <2>1. CASE e.kind # "atomic"
    BY <2>1, <1>1
  <2>2. CASE e.kind = "atomic"
    <3>1. f.kind = e.kind /\ f.token = e.token
      BY <2>2, <1>1 DEF TokenKinds
    <3>2. Local(m, f) = Local(m, e) /\ Faulty(m, f, effect) = Faulty(m, e, effect)
      BY <3>1 DEF Local, Faulty
    <3>3. Marked(m, f, effect) = Marked(m, e, effect)
      BY <3>1, <3>2 DEF Marked
    <3>4. \A r : Collected(r, m, f, effect) = Collected(r, m, e, effect)
      BY <3>1, <3>2 DEF Collected
    <3>5. \A r, c : Settle(p, m, f, effect, r, c) = Settle(p, m, e, effect, r, c)
      BY <3>1, <3>2 DEF Settle
    <3>6. QED BY <3>3, <3>4, <3>5 DEF Judged, Reconciled
  <2>3. QED BY <2>1, <2>2
<1>7. QED BY <1>2, <1>5, <1>6 DEF Judge

(* Replay evaluates the same persisted event.                              *)
LEMMA PersistedTwice ==
  ASSUME NEW p \in Projections, NEW e \in EventKind, NEW f, f = Persisted(p, e),
         NEW q \in Projections, q.books = p.books
  PROVE  Evaluate(q, f) = Judge(q, f)
<1>1. f \in EventKind /\ Persisted(p, f) = f
  BY PersistedFacts
<1>2. Persisted(q, f) = f
  BY <1>1, SameBooks
<1>3. QED BY <1>1, <1>2, EvaluateIsJudge

LEMMA EventMarketType ==
  ASSUME NEW p \in Projections, NEW f \in EventKind, NEW m, m = EventMarket(p, f)
  PROVE  /\ m \in Markets \cup {None}
         /\ m # None /\ f.kind \in TokenKinds => m = MarketOf[f.token]
         /\ m # None => p.markets[m] # "absent"
         /\ m # None => f.kind \in TokenKinds \cup {"resolved"}
BY EventTypes, ScopeAssumption DEF EventMarket

LEMMA StartedFacts ==
  ASSUME NEW p \in Projections, NEW m \in Markets \cup {None}, NEW s, s = Started(p, m)
  PROVE  /\ s \in Projections
         /\ s.cursor = p.cursor + 1 /\ s.catalog = p.catalog /\ s.markets = p.markets
         /\ s.fact = p.fact /\ s.relation = p.relation /\ s.monitoring = p.monitoring
         /\ s.books = p.books /\ s.sequence = p.sequence
         /\ s.quarantined = p.quarantined /\ s.recovery = p.recovery /\ s.gaps = p.gaps
         /\ \A k \in Markets :
              \/ s.health[k] = p.health[k]
              \/ k = m /\ p.health[k] = None /\ s.health[k] = "ready" /\ Executable(p, k)
         /\ m = None => s.health = p.health
<1> DEFINE H == [k \in Markets |->
             IF k = m /\ p.health[k] = None /\ Executable(p, m) THEN "ready" ELSE p.health[k]]
<1>1. H \in [Markets -> Statuses]
  BY DEF Projections, Statuses
<1>2. \A k \in Markets :
         \/ H[k] = p.health[k]
         \/ k = m /\ p.health[k] = None /\ H[k] = "ready" /\ Executable(p, k)
  OBVIOUS
<1> PICK c \in Nat : c = p.cursor + 1
  BY DEF Projections
<1>3. s = [p EXCEPT !.cursor = c, !.health = H]
  BY DEF Started, Projections
<1>4. m = None => H = p.health
  BY NamesAssumption DEF Projections
<1> HIDE DEF H
<1>5. s \in Projections
  BY <1>1, <1>3 DEF Projections
<1>6. /\ s.cursor = c /\ s.catalog = p.catalog /\ s.markets = p.markets
      /\ s.fact = p.fact /\ s.relation = p.relation /\ s.monitoring = p.monitoring
      /\ s.books = p.books /\ s.sequence = p.sequence
      /\ s.quarantined = p.quarantined /\ s.recovery = p.recovery /\ s.gaps = p.gaps
      /\ s.health = H
  BY <1>3 DEF Projections
<1>7. QED BY <1>2, <1>4, <1>5, <1>6

-----------------------------------------------------------------------------
(* What one event does to a projection *)

(* The book of a token is replaced and the gaps in d end.                  *)
Put(p, t, b, d) == [p EXCEPT !.books[t] = b, !.gaps = @ \ d]

LEMMA PutFacts ==
  ASSUME NEW p \in Projections, NEW t \in Tokens, NEW b \in Books, NEW d,
         NEW r, r = Put(p, t, b, d)
  PROVE  /\ r \in Projections
         /\ r.cursor = p.cursor /\ r.catalog = p.catalog /\ r.markets = p.markets
         /\ r.fact = p.fact /\ r.relation = p.relation /\ r.monitoring = p.monitoring
         /\ r.health = p.health /\ r.sequence = p.sequence
         /\ r.quarantined = p.quarantined /\ r.recovery = p.recovery
         /\ r.books[t] = b /\ r.gaps = p.gaps \ d
         /\ \A u \in Tokens \ {t} : r.books[u] = p.books[u]
         /\ r.books = [p.books EXCEPT ![t] = b]
<1>1. r = [p EXCEPT !.books = [p.books EXCEPT ![t] = b], !.gaps = p.gaps \ d]
  BY DEF Put
<1>2. [p.books EXCEPT ![t] = b] \in [Tokens -> Books] /\ p.gaps \ d \subseteq Gaps
  BY DEF Projections
<1>3. r \in Projections
  BY <1>1, <1>2 DEF Projections
<1>4. /\ r.cursor = p.cursor /\ r.catalog = p.catalog /\ r.markets = p.markets
      /\ r.fact = p.fact /\ r.relation = p.relation /\ r.monitoring = p.monitoring
      /\ r.health = p.health /\ r.sequence = p.sequence
      /\ r.quarantined = p.quarantined /\ r.recovery = p.recovery
      /\ r.gaps = p.gaps \ d
      /\ r.books = [p.books EXCEPT ![t] = b]
  BY <1>1 DEF Projections
<1>5. QED BY <1>3, <1>4 DEF Projections

LEMMA PutBook ==
  ASSUME NEW p \in Projections, NEW t \in Tokens, NEW b
  PROVE  [p EXCEPT !.books[t] = b] = Put(p, t, b, {})
<1>1. p.gaps \ {} = p.gaps
  OBVIOUS
<1> PICK r : r = [p EXCEPT !.books[t] = b]
  OBVIOUS
<1>2. r.gaps = p.gaps /\ r = [r EXCEPT !.gaps = r.gaps]
  BY DEF Projections
<1>3. Put(p, t, b, {}) = [r EXCEPT !.gaps = p.gaps]
  BY <1>1 DEF Put, Projections
<1>4. QED BY <1>2, <1>3

LEMMA PutSame ==
  ASSUME NEW p \in Projections, NEW t \in Tokens
  PROVE  p = Put(p, t, p.books[t], {})
<1>1. p = [p EXCEPT !.books[t] = p.books[t]]
  BY DEF Projections
<1>2. QED BY <1>1, PutBook

LEMMA NeedsAlike ==
  ASSUME NEW p, NEW q, Alike(p, q), NEW t \in Tokens
  PROVE  NeedsBook(q, t) = NeedsBook(p, t)
BY DEF Alike, NeedsBook

(* The outcomes of an event of token t: rejected, or the new book b.       *)
Refuses(p, q, r, s, t) == \E w \in Faults : r = Reject(p, t, w) /\ s = Reject(q, t, w)
Rebooks(p, q, r, s, t, b, d) == r = Accept(Put(p, t, b, d)) /\ s = Accept(Put(q, t, b, d))
SameSides(b, c) == b.bids = c.bids /\ b.asks = c.asks

LEMMA SidesCross ==
  ASSUME NEW b, NEW c, SameSides(b, c)
  PROVE  Crossed(b) = Crossed(c)
BY DEF SameSides, Crossed

LEMMA LevelsType ==
  ASSUME NEW book \in Books, NEW c, c \subseteq LevelChange, NEW at \in Nat,
         NEW r, r = [ApplyLevels(book, c) EXCEPT !.at = at]
  PROVE  /\ ApplyLevels(book, c) \in Books /\ r \in Books
         /\ SameSides(r, ApplyLevels(book, c))
<1>1. \A s, z : Prices(c, s, z) \subseteq Nat
  BY DEF Prices, LevelChange
<1>2. ApplyLevels(book, c) \in Books
  BY <1>1 DEF ApplyLevels, Books
<1>3. QED BY <1>2 DEF Books, SameSides

LEMMA DeltaEffect ==
  ASSUME NEW p \in Projections, NEW q \in Projections, Alike(p, q),
         NEW f \in EventKind, f.kind = "delta", NEW t, t = f.token
  PROVE  \/ Refuses(p, q, OnDelta(p, f), OnDelta(q, f), t)
         \/ \E b \in Books :
              /\ Rebooks(p, q, OnDelta(p, f), OnDelta(q, f), t, b, {})
              /\ ~ Crossed(b) /\ p.books[t] # NoBook
              /\ SameSides(b, ApplyLevels(p.books[t], f.changes))
<1>1. t \in Tokens /\ f.changes \subseteq LevelChange /\ f.observed \in Nat
  BY EventTypes DEF TokenKinds
<1>2. p.books[t] \in Books /\ q.books = p.books
  BY <1>1 DEF Projections, Alike
<1> PICK b : b = [ApplyLevels(p.books[t], f.changes) EXCEPT !.at = f.observed]
  OBVIOUS
<1>3. b \in Books /\ SameSides(b, ApplyLevels(p.books[t], f.changes))
  BY <1>1, <1>2, LevelsType
<1>4. NeedsBook(q, t) = NeedsBook(p, t)
  BY <1>1, NeedsAlike
<1>5. /\ [p EXCEPT !.books[t] = b] = Put(p, t, b, {})
      /\ [q EXCEPT !.books[t] = b] = Put(q, t, b, {})
  BY <1>1, PutBook
<1>6. CASE NeedsBook(p, t)
  <2>1. /\ OnDelta(p, f) = Reject(p, t, "full_book_recovery_required")
        /\ OnDelta(q, f) = Reject(q, t, "full_book_recovery_required")
    BY <1>4, <1>6 DEF OnDelta
  <2>2. QED BY <2>1 DEF Refuses, Faults
<1>7. CASE ~ NeedsBook(p, t) /\ ~ Aligned(p.books[t].tick, {c.price : c \in f.changes})
  <2>1. /\ OnDelta(p, f) = Reject(p, t, "invalid_tick_delta")
        /\ OnDelta(q, f) = Reject(q, t, "invalid_tick_delta")
    BY <1>2, <1>4, <1>7 DEF OnDelta
  <2>2. QED BY <2>1 DEF Refuses, Faults
<1>8. CASE /\ ~ NeedsBook(p, t) /\ Aligned(p.books[t].tick, {c.price : c \in f.changes})
           /\ Crossed(b)
  <2>1. /\ OnDelta(p, f) = Reject(p, t, "crossed_or_locked_delta")
        /\ OnDelta(q, f) = Reject(q, t, "crossed_or_locked_delta")
    BY <1>2, <1>4, <1>8 DEF OnDelta
  <2>2. QED BY <2>1 DEF Refuses, Faults
<1>9. CASE /\ ~ NeedsBook(p, t) /\ Aligned(p.books[t].tick, {c.price : c \in f.changes})
           /\ ~ Crossed(b)
  <2>1. OnDelta(p, f) = Accept(Put(p, t, b, {})) /\ OnDelta(q, f) = Accept(Put(q, t, b, {}))
    BY <1>2, <1>4, <1>5, <1>9 DEF OnDelta
  <2>2. p.books[t] # NoBook
    BY <1>9 DEF NeedsBook
  <2>3. QED BY <2>1, <2>2, <1>3, <1>9 DEF Rebooks
<1>10. QED BY <1>6, <1>7, <1>8, <1>9

LEMMA AtomicEffect ==
  ASSUME NEW p \in Projections, NEW q \in Projections, Alike(p, q),
         NEW f \in EventKind, f.kind = "atomic", ~ Superseded(p, f), ~ f.delayed,
         NEW t, t = f.token
  PROVE  \/ Refuses(p, q, OnAtomicDelta(p, f), OnAtomicDelta(q, f), t)
         \/ \E b \in Books :
              /\ Rebooks(p, q, OnAtomicDelta(p, f), OnAtomicDelta(q, f), t, b, {})
              /\ ~ Crossed(b) /\ p.books[t] # NoBook
              /\ Completed(p, f) => SameSides(b, ApplyLevels(p.books[t], f.changes))
<1>1. f \in AtomicEvents
  BY EventTypes
<1>2. t \in Tokens /\ f.changes \subseteq LevelChange /\ f.observed \in Nat
  BY <1>1 DEF AtomicEvents
<1>3. p.books[t] \in Books /\ q.books = p.books
  BY <1>2 DEF Projections, Alike
<1> PICK raw : raw = [ApplyLevels(p.books[t], f.changes) EXCEPT !.at = f.observed]
  OBVIOUS
<1> PICK b : b = IF Observed(f)
                 THEN [raw EXCEPT !.bids = {x \in @ : ~ AboveBid(f, x)},
                                  !.asks = {x \in @ : ~ BelowAsk(f, x)}]
                 ELSE raw
  OBVIOUS
<1>4. raw \in Books /\ SameSides(raw, ApplyLevels(p.books[t], f.changes))
  BY <1>2, <1>3, LevelsType
<1>5. /\ b \in Books
      /\ ~ Observed(f) => b = raw
      /\ Observed(f) => /\ b.bids = {x \in raw.bids : ~ AboveBid(f, x)}
                        /\ b.asks = {x \in raw.asks : ~ BelowAsk(f, x)}
  BY <1>4 DEF Books
<1>6. ASSUME Completed(p, f), p.books[t] # NoBook
      PROVE  SameSides(b, ApplyLevels(p.books[t], f.changes))
  <2>1. Observed(f) => /\ \A x \in raw.bids : ~ AboveBid(f, x)
                       /\ \A x \in raw.asks : ~ BelowAsk(f, x)
    BY <1>4, <1>6 DEF Completed, SameSides
  <2>2. SameSides(b, raw)
    BY <1>5, <2>1 DEF SameSides
  <2>3. QED BY <2>2, <1>4 DEF SameSides
<1>7. NeedsBook(q, t) = NeedsBook(p, t)
  BY <1>2, NeedsAlike
<1>8. /\ [p EXCEPT !.books[t] = b] = Put(p, t, b, {})
      /\ [q EXCEPT !.books[t] = b] = Put(q, t, b, {})
  BY <1>2, PutBook
<1> DEFINE needs == f.changes = {} \/ NeedsBook(p, t)
           skew == ~ Aligned(p.books[t].tick, {c.price : c \in f.changes})
           wrong == \/ /\ NoPrice \notin {ExpectedBid(f), ExpectedAsk(f)}
                       /\ ExpectedBid(f) >= ExpectedAsk(f)
                    \/ /\ Observed(f)
                       /\ <<Top(b.bids), Bottom(b.asks)>> # <<ExpectedBid(f), ExpectedAsk(f)>>
           result(r) == IF needs THEN Reject(r, t, "full_book_recovery_required")
                        ELSE IF skew THEN Reject(r, t, "invalid_tick_atomic_delta")
                        ELSE IF wrong THEN Reject(r, t, "best_bid_ask_source_mismatch")
                        ELSE IF Crossed(b) THEN Reject(r, t, "crossed_or_locked_atomic_delta")
                        ELSE Accept([r EXCEPT !.books[t] = b])
<1>9. OnAtomicDelta(p, f) = result(p)
  BY DEF OnAtomicDelta
<1>10. OnAtomicDelta(q, f) = result(q)
  BY <1>3, <1>7 DEF OnAtomicDelta
<1>11. needs \/ p.books[t] # NoBook
  BY DEF NeedsBook
<1> HIDE DEF needs, skew, wrong
<1>12. CASE needs
  BY <1>9, <1>10, <1>12 DEF Refuses, Faults
<1>13. CASE ~ needs /\ skew
  BY <1>9, <1>10, <1>13 DEF Refuses, Faults
<1>14. CASE ~ needs /\ ~ skew /\ wrong
  BY <1>9, <1>10, <1>14 DEF Refuses, Faults
<1>15. CASE ~ needs /\ ~ skew /\ ~ wrong /\ Crossed(b)
  BY <1>9, <1>10, <1>15 DEF Refuses, Faults
<1>16. CASE ~ needs /\ ~ skew /\ ~ wrong /\ ~ Crossed(b)
  <2>1. Rebooks(p, q, OnAtomicDelta(p, f), OnAtomicDelta(q, f), t, b, {})
    BY <1>8, <1>9, <1>10, <1>16 DEF Rebooks
  <2>2. QED BY <2>1, <1>5, <1>6, <1>11, <1>16
<1>17. QED BY <1>12, <1>13, <1>14, <1>15, <1>16

LEMMA BestEffect ==
  ASSUME NEW p \in Projections, NEW q \in Projections, Alike(p, q),
         NEW f \in EventKind, f.kind = "bbo", NEW t, t = f.token
  PROVE  \/ Refuses(p, q, OnBestBidAsk(p, f), OnBestBidAsk(q, f), t)
         \/ \E b \in Books :
              /\ Rebooks(p, q, OnBestBidAsk(p, f), OnBestBidAsk(q, f), t, b, {})
              /\ p.books[t] # NoBook /\ SameSides(b, p.books[t])
<1>1. t \in Tokens /\ f.observed \in Nat
  BY EventTypes DEF TokenKinds
<1>2. p.books[t] \in Books /\ q.books = p.books
  BY <1>1 DEF Projections, Alike
<1> PICK b : b = [p.books[t] EXCEPT !.at = f.observed]
  OBVIOUS
<1>3. b \in Books /\ SameSides(b, p.books[t])
  BY <1>1, <1>2 DEF Books, SameSides
<1>4. NeedsBook(q, t) = NeedsBook(p, t)
  BY <1>1, NeedsAlike
<1>5. /\ [p EXCEPT !.books[t].at = f.observed] = Put(p, t, b, {})
      /\ [q EXCEPT !.books[t].at = f.observed] = Put(q, t, b, {})
  <2>1. /\ [p EXCEPT !.books[t].at = f.observed] = [p EXCEPT !.books[t] = b]
        /\ [q EXCEPT !.books[t].at = f.observed] = [q EXCEPT !.books[t] = b]
    BY <1>1, <1>2 DEF Projections
  <2>2. QED BY <2>1, <1>1, PutBook
<1> DEFINE off == <<Top(p.books[t].bids), Bottom(p.books[t].asks)>> # <<f.bid, f.ask>>
           result(r) == IF NeedsBook(p, t) THEN Reject(r, t, "full_book_recovery_required")
                        ELSE IF off THEN Reject(r, t, "best_bid_ask_source_mismatch")
                        ELSE Accept(Put(r, t, b, {}))
<1>6. OnBestBidAsk(p, f) = result(p)
  BY <1>5 DEF OnBestBidAsk
<1>7. OnBestBidAsk(q, f) = result(q)
  BY <1>2, <1>4, <1>5 DEF OnBestBidAsk
<1> HIDE DEF off
<1>8. CASE NeedsBook(p, t)
  BY <1>6, <1>7, <1>8 DEF Refuses, Faults
<1>9. CASE ~ NeedsBook(p, t) /\ off
  BY <1>6, <1>7, <1>9 DEF Refuses, Faults
<1>10. CASE ~ NeedsBook(p, t) /\ ~ off
  <2>1. Rebooks(p, q, OnBestBidAsk(p, f), OnBestBidAsk(q, f), t, b, {})
    BY <1>6, <1>7, <1>10 DEF Rebooks
  <2>2. QED BY <2>1, <1>3, <1>10 DEF NeedsBook
<1>11. QED BY <1>8, <1>9, <1>10

LEMMA TradeEffect ==
  ASSUME NEW p \in Projections, NEW q \in Projections, Alike(p, q),
         NEW f \in EventKind, f.kind = "trade", NEW t, t = f.token
  PROVE  \/ Refuses(p, q, OnLastTrade(p, f), OnLastTrade(q, f), t)
         \/ \E b \in Books :
              /\ Rebooks(p, q, OnLastTrade(p, f), OnLastTrade(q, f), t, b, {})
              /\ p.books[t] # NoBook /\ SameSides(b, p.books[t])
<1>1. t \in Tokens
  BY EventTypes DEF TokenKinds
<1>2. p.books[t] \in Books /\ q.books = p.books
  BY <1>1 DEF Projections, Alike
<1>3. NeedsBook(q, t) = NeedsBook(p, t)
  BY <1>1, NeedsAlike
<1> PICK b : b = p.books[t]
  OBVIOUS
<1>4. p = Put(p, t, b, {}) /\ q = Put(q, t, b, {})
  BY <1>1, <1>2, PutSame
<1> DEFINE skew == ~ Aligned(p.books[t].tick, {f.price})
           result(r) == IF NeedsBook(p, t) THEN Reject(r, t, "full_book_recovery_required")
                        ELSE IF skew THEN Reject(r, t, "invalid_tick_last_trade")
                        ELSE Accept(r)
<1>5. OnLastTrade(p, f) = result(p) /\ OnLastTrade(q, f) = result(q)
  BY <1>2, <1>3 DEF OnLastTrade
<1> HIDE DEF skew
<1>6. CASE NeedsBook(p, t)
  BY <1>5, <1>6 DEF Refuses, Faults
<1>7. CASE ~ NeedsBook(p, t) /\ skew
  BY <1>5, <1>7 DEF Refuses, Faults
<1>8. CASE ~ NeedsBook(p, t) /\ ~ skew
  <2>1. OnLastTrade(p, f) = Accept(p) /\ OnLastTrade(q, f) = Accept(q)
    BY <1>5, <1>8
  <2>2. Rebooks(p, q, OnLastTrade(p, f), OnLastTrade(q, f), t, b, {})
    BY <2>1, <1>4 DEF Rebooks
  <2>3. QED BY <2>2, <1>2, <1>8 DEF NeedsBook, SameSides
<1>9. QED BY <1>6, <1>7, <1>8

LEMMA TickEffect ==
  ASSUME NEW p \in Projections, NEW q \in Projections, Alike(p, q),
         NEW f \in EventKind, f.kind = "tick", NEW t, t = f.token
  PROVE  \/ Refuses(p, q, OnTickChange(p, f), OnTickChange(q, f), t)
         \/ \E b \in Books :
              /\ Rebooks(p, q, OnTickChange(p, f), OnTickChange(q, f), t, b, {})
              /\ p.books[t] # NoBook /\ SameSides(b, p.books[t])
<1>1. t \in Tokens /\ f.tick \in Nat
  BY EventTypes DEF TokenKinds
<1>2. p.books[t] \in Books /\ q.books = p.books
  BY <1>1 DEF Projections, Alike
<1> PICK b : b = [p.books[t] EXCEPT !.tick = f.tick]
  OBVIOUS
<1>3. b \in Books /\ SameSides(b, p.books[t])
  BY <1>1, <1>2 DEF Books, SameSides
<1>4. NeedsBook(q, t) = NeedsBook(p, t)
  BY <1>1, NeedsAlike
<1>5. /\ [p EXCEPT !.books[t].tick = f.tick] = Put(p, t, b, {})
      /\ [q EXCEPT !.books[t].tick = f.tick] = Put(q, t, b, {})
  <2>1. /\ [p EXCEPT !.books[t].tick = f.tick] = [p EXCEPT !.books[t] = b]
        /\ [q EXCEPT !.books[t].tick = f.tick] = [q EXCEPT !.books[t] = b]
    BY <1>1, <1>2 DEF Projections
  <2>2. QED BY <2>1, <1>1, PutBook
<1> DEFINE stale == f.old # 0 /\ f.old # p.books[t].tick
           skew == ~ Aligned(f.tick, p.books[t].bids \cup p.books[t].asks)
           result(r) == IF NeedsBook(p, t) THEN Reject(r, t, "full_book_recovery_required")
                        ELSE IF stale THEN Reject(r, t, "tick_size_source_mismatch")
                        ELSE IF skew THEN Reject(r, t, "tick_size_recovery_required")
                        ELSE Accept(Put(r, t, b, {}))
<1>6. OnTickChange(p, f) = result(p)
  BY <1>5 DEF OnTickChange
<1>7. OnTickChange(q, f) = result(q)
  BY <1>2, <1>4, <1>5 DEF OnTickChange
<1> HIDE DEF stale, skew
<1>8. CASE NeedsBook(p, t)
  BY <1>6, <1>7, <1>8 DEF Refuses, Faults
<1>9. CASE ~ NeedsBook(p, t) /\ stale
  BY <1>6, <1>7, <1>9 DEF Refuses, Faults
<1>10. CASE ~ NeedsBook(p, t) /\ ~ stale /\ skew
  BY <1>6, <1>7, <1>10 DEF Refuses, Faults
<1>11. CASE ~ NeedsBook(p, t) /\ ~ stale /\ ~ skew
  <2>1. Rebooks(p, q, OnTickChange(p, f), OnTickChange(q, f), t, b, {})
    BY <1>6, <1>7, <1>11 DEF Rebooks
  <2>2. QED BY <2>1, <1>3, <1>11 DEF NeedsBook
<1>12. QED BY <1>8, <1>9, <1>10, <1>11

LEMMA BookEffect ==
  ASSUME NEW p \in Projections, NEW q \in Projections, Alike(p, q),
         NEW f \in EventKind, f.kind = "book", NEW t, t = f.token
  PROVE  \/ Refuses(p, q, OnFullBook(p, f), OnFullBook(q, f), t)
         \/ \E b \in Books :
              /\ Rebooks(p, q, OnFullBook(p, f), OnFullBook(q, f), t, b, {t})
              /\ ~ Crossed(b) /\ b # NoBook /\ (p.catalog => t \in Configured(p))
<1>1. /\ t \in Tokens /\ f.bids \subseteq Nat /\ f.asks \subseteq Nat /\ f.tick \in Nat
      /\ f.observed \in Nat /\ f.received \in Nat
  BY EventTypes DEF TokenKinds
<1>2. q.catalog = p.catalog /\ Configured(q) = Configured(p)
  BY DEF Alike, Configured, Active
<1> PICK b : b = [bids |-> f.bids, asks |-> f.asks, tick |-> f.tick, at |-> f.observed,
                  refresh |-> IF f.http THEN f.received ELSE 0]
  OBVIOUS
<1>3. b \in Books
  BY <1>1 DEF Books
<1> DEFINE outside == p.catalog /\ t \notin Configured(p)
           skew == ~ Aligned(f.tick, f.bids \cup f.asks)
           result(r) == IF outside THEN Reject(r, t, "token_not_in_active_catalog")
                        ELSE IF skew THEN Reject(r, t, "invalid_tick_full_book")
                        ELSE IF Crossed(b) THEN Reject(r, t, "crossed_or_locked_full_book")
                        ELSE Accept(Put(r, t, b, {t}))
<1>4. OnFullBook(p, f) = result(p)
  BY DEF OnFullBook, Put
<1>5. OnFullBook(q, f) = result(q)
  BY <1>2 DEF OnFullBook, Put
<1>6. ~ skew => b # NoBook
  BY DEF Aligned, NoBook
<1> HIDE DEF skew
<1>7. CASE outside
  BY <1>4, <1>5, <1>7 DEF Refuses, Faults
<1>8. CASE ~ outside /\ skew
  BY <1>4, <1>5, <1>8 DEF Refuses, Faults
<1>9. CASE ~ outside /\ ~ skew /\ Crossed(b)
  BY <1>4, <1>5, <1>9 DEF Refuses, Faults
<1>10. CASE ~ outside /\ ~ skew /\ ~ Crossed(b)
  <2>1. Rebooks(p, q, OnFullBook(p, f), OnFullBook(q, f), t, b, {t})
    BY <1>4, <1>5, <1>10 DEF Rebooks
  <2>2. QED BY <2>1, <1>3, <1>6, <1>10
<1>11. QED BY <1>7, <1>8, <1>9, <1>10

(* The new book of a token and what the event says of it.                  *)
Fits(p, f, b, d) ==
  /\ ~ Crossed(b)
  /\ IF f.kind = "book"
     THEN b # NoBook /\ d = {f.token} /\ (p.catalog => f.token \in Configured(p))
     ELSE p.books[f.token] # NoBook /\ d = {}
  /\ f.kind \in {"delta", "atomic"} /\ Completed(p, f) =>
       SameSides(b, ApplyLevels(p.books[f.token], f.changes))
  /\ f.kind \notin {"book", "delta", "atomic"} => SameSides(b, p.books[f.token])

LEMMA TokenEffect ==
  ASSUME NEW p \in Projections, NEW q \in Projections, Alike(p, q), Uncrossed(p),
         NEW f \in EventKind, f.kind \in TokenKinds
  PROVE  \/ Refuses(p, q, Effect(p, f), Effect(q, f), f.token)
         \/ \E b \in Books, d \in {{}, {f.token}} :
              /\ Rebooks(p, q, Effect(p, f), Effect(q, f), f.token, b, d)
              /\ Fits(p, f, b, d)
<1> PICK t : t = f.token
  OBVIOUS
<1>1. t \in Tokens
  BY EventTypes
<1>2. q.books = p.books /\ Superseded(q, f) = Superseded(p, f)
  BY SameBooks DEF Alike
<1>3. p.books[t] \in Books /\ ~ Crossed(p.books[t])
  BY <1>1 DEF Projections, Uncrossed
<1>4. CASE Superseded(p, f)
  <2>1. Effect(p, f) = Accept(p) /\ Effect(q, f) = Accept(q)
    BY <1>2, <1>4 DEF Effect
  <2>2. p = Put(p, t, p.books[t], {}) /\ q = Put(q, t, p.books[t], {})
    BY <1>1, <1>2, PutSame
  <2>3. Rebooks(p, q, Effect(p, f), Effect(q, f), t, p.books[t], {})
    BY <2>1, <2>2 DEF Rebooks
  <2>4. f.kind \in {"atomic", "bbo"} /\ p.books[t] # NoBook
    BY <1>4 DEF Superseded
  <2>5. f.kind = "atomic" /\ Completed(p, f) =>
          SameSides(p.books[t], ApplyLevels(p.books[t], f.changes))
    <3>1. f.kind = "atomic" /\ Completed(p, f) => f.changes = {}
      BY <1>4, <2>4 DEF Completed
    <3>2. SameSides(p.books[t], ApplyLevels(p.books[t], {}))
      <4>1. \A s, z : Prices({}, s, z) = {}
        BY DEF Prices
      <4>2. QED BY <4>1, <1>3 DEF ApplyLevels, SameSides, Books
    <3>3. QED BY <3>1, <3>2
  <2>6. Fits(p, f, p.books[t], {})
    BY <1>3, <2>4, <2>5 DEF Fits, SameSides
  <2>7. QED BY <2>3, <2>6, <1>3
<1>5. CASE ~ Superseded(p, f) /\ f.delayed
  <2>1. /\ Effect(p, f) = Reject(p, t, "source_data_delayed")
        /\ Effect(q, f) = Reject(q, t, "source_data_delayed")
    BY <1>2, <1>5 DEF Effect
  <2>2. QED BY <2>1 DEF Refuses, Faults
<1>6. CASE ~ Superseded(p, f) /\ ~ f.delayed
  <2>1. CASE f.kind = "gap"
    <3>1. Effect(p, f) = Reject(p, t, "source_gap") /\ Effect(q, f) = Reject(q, t, "source_gap")
      BY <1>2, <1>6, <2>1 DEF Effect
    <3>2. QED BY <3>1 DEF Refuses, Faults
  <2>2. CASE f.kind = "book"
    <3>1. Effect(p, f) = OnFullBook(p, f) /\ Effect(q, f) = OnFullBook(q, f)
      BY <1>2, <1>6, <2>2 DEF Effect
    <3>2. QED BY <3>1, <2>2, BookEffect DEF Fits
  <2>3. CASE f.kind = "delta"
    <3>1. Effect(p, f) = OnDelta(p, f) /\ Effect(q, f) = OnDelta(q, f)
      BY <1>2, <1>6, <2>3 DEF Effect
    <3>2. QED BY <3>1, <2>3, DeltaEffect DEF Fits
  <2>4. CASE f.kind = "atomic"
    <3>1. Effect(p, f) = OnAtomicDelta(p, f) /\ Effect(q, f) = OnAtomicDelta(q, f)
      BY <1>2, <1>6, <2>4 DEF Effect
    <3>2. QED BY <3>1, <1>6, <2>4, AtomicEffect DEF Fits
  <2>5. CASE f.kind = "bbo"
    <3>1. Effect(p, f) = OnBestBidAsk(p, f) /\ Effect(q, f) = OnBestBidAsk(q, f)
      BY <1>2, <1>6, <2>5 DEF Effect
    <3>2. QED BY <3>1, <1>3, <2>5, BestEffect, SidesCross DEF Fits
  <2>6. CASE f.kind = "trade"
    <3>1. Effect(p, f) = OnLastTrade(p, f) /\ Effect(q, f) = OnLastTrade(q, f)
      BY <1>2, <1>6, <2>6 DEF Effect
    <3>2. QED BY <3>1, <1>3, <2>6, TradeEffect, SidesCross DEF Fits
  <2>7. CASE f.kind = "tick"
    <3>1. Effect(p, f) = OnTickChange(p, f) /\ Effect(q, f) = OnTickChange(q, f)
      BY <1>2, <1>6, <2>7 DEF Effect
    <3>2. QED BY <3>1, <1>3, <2>7, TickEffect, SidesCross DEF Fits
  <2>8. QED BY <2>1, <2>2, <2>3, <2>4, <2>5, <2>6, <2>7 DEF TokenKinds
<1>7. QED BY <1>4, <1>5, <1>6

-----------------------------------------------------------------------------
(* The stages after the event: quarantine, ticks, recovery, readiness *)

(* Only gaps, quarantine, recovery and health of market m may differ.      *)
SameFacts(p, r) ==
  /\ r.cursor = p.cursor /\ r.catalog = p.catalog /\ r.markets = p.markets
  /\ r.relation = p.relation /\ r.monitoring = p.monitoring /\ r.books = p.books
SameElsewhere(p, r, m) ==
  \A k \in Markets \ {m} : r.health[k] = p.health[k] /\ r.recovery[k] = p.recovery[k]

LEMMA ScopedFacts ==
  ASSUME NEW p, NEW r, Scoped(p), SameFacts(p, r),
         \A m \in Markets : p.recovery[m] = {} /\ ~ p.catalog => r.recovery[m] = {}
  PROVE  Scoped(r)
BY DEF Scoped, SameFacts, Configured, Active

LEMMA UncrossedFacts ==
  ASSUME NEW p, NEW r, Uncrossed(p), r.books = p.books
  PROVE  Uncrossed(r)
BY DEF Uncrossed

(* Quarantine(p, m, t) is r.                                               *)
Quarantines(p, m, t, r) ==
  /\ r \in Projections
  /\ SameFacts(p, r) /\ SameElsewhere(p, r, m) /\ r.fact = p.fact
  /\ r.sequence = p.sequence
  /\ r.gaps = p.gaps \ {t} /\ r.quarantined = p.quarantined \cup {t}
  /\ r.health[m] = "quarantined" /\ r.recovery[m] = {}
  /\ r.health = [p.health EXCEPT ![m] = "quarantined"]
  /\ r.recovery = [p.recovery EXCEPT ![m] = {}]

LEMMA QuarantineFacts ==
  ASSUME NEW p \in Projections, NEW m \in Markets, NEW t \in Tokens, MarketOf[t] = m,
         NEW r, r = Quarantine(p, m, t)
  PROVE  Quarantines(p, m, t, r)
<1> PICK H : H = [p.health EXCEPT ![m] = "quarantined"]
  OBVIOUS
<1> PICK R : R = [p.recovery EXCEPT ![m] = {}]
  OBVIOUS
<1> PICK G : G = p.gaps \ {t}
  OBVIOUS
<1> PICK Q : Q = p.quarantined \cup {t}
  OBVIOUS
<1>1. H \in [Markets -> Statuses] /\ R \in [Markets -> SUBSET Tokens]
  BY DEF Projections, Statuses
<1>2. r = [p EXCEPT !.gaps = G, !.quarantined = Q, !.recovery = R, !.health = H]
  BY DEF Quarantine
<1>3. G \in SUBSET Gaps /\ Q \in SUBSET Tokens
  BY DEF Projections
<1>4. r \in Projections
  BY ONLY p \in Projections, <1>1, <1>2, <1>3 DEF Projections
<1>5. /\ SameFacts(p, r) /\ r.fact = p.fact /\ r.sequence = p.sequence
      /\ r.gaps = G /\ r.quarantined = Q /\ r.health = H /\ r.recovery = R
  BY <1>2 DEF Projections, SameFacts
<1>6. H[m] = "quarantined" /\ R[m] = {}
      /\ \A k \in Markets \ {m} : H[k] = p.health[k] /\ R[k] = p.recovery[k]
  BY DEF Projections
<1>7. QED BY <1>4, <1>5, <1>6 DEF SameElsewhere, Quarantines

LEMMA QuarantineSteady ==
  ASSUME NEW p, Steady(p), NEW m \in Markets, NEW t \in Tokens, MarketOf[t] = m,
         NEW r, r = Quarantine(p, m, t)
  PROVE  Steady(r)
<1> p \in Projections
  BY DEF Steady
<1>1. /\ r \in Projections
      /\ SameFacts(p, r) /\ SameElsewhere(p, r, m)
      /\ r.gaps = p.gaps \ {t} /\ r.quarantined = p.quarantined \cup {t}
      /\ r.health[m] = "quarantined" /\ r.recovery[m] = {}
  <2>1. Quarantines(p, m, t, r)
    BY QuarantineFacts
  <2>2. QED BY <2>1 DEF Quarantines
<1>2. Scoped(r)
  BY <1>1, ScopedFacts DEF Steady, SameElsewhere
<1>3. Uncrossed(r)
  BY <1>1, UncrossedFacts DEF Steady, SameFacts
<1>4. Related(r)
  BY <1>1, NamesAssumption DEF Steady, Related, SameFacts
<1>5. Isolated(r)
  <2>1. ASSUME NEW u \in r.quarantined PROVE ~ Public(r, MarketOf[u])
    <3>1. u \in Tokens /\ MarketOf[u] \in Markets
      BY <1>1, ScopeAssumption DEF Projections
    <3>2. CASE MarketOf[u] = m
      BY <3>2, <1>1 DEF Public, None
    <3>3. CASE MarketOf[u] # m
      BY <3>1, <3>3, <1>1 DEF Public, SameElsewhere, Steady, Isolated
    <3>4. QED BY <3>2, <3>3
  <2>2. QED BY <2>1, <1>1 DEF Isolated, Steady, SameElsewhere
<1>6. QED BY <1>1, <1>2, <1>3, <1>4, <1>5 DEF Steady

LEMMA QuarantineAlike ==
  ASSUME NEW p \in Projections, NEW q \in Projections, Alike(p, q),
         NEW m \in Markets, NEW t \in Tokens, MarketOf[t] = m
  PROVE  Alike(Quarantine(p, m, t), Quarantine(q, m, t))
<1> PICK r : r = Quarantine(p, m, t)
  OBVIOUS
<1> PICK s : s = Quarantine(q, m, t)
  OBVIOUS
<1>1. Quarantines(p, m, t, r)
  BY QuarantineFacts
<1>2. Quarantines(q, m, t, s)
  BY QuarantineFacts
<1>3. QED BY <1>1, <1>2 DEF Alike, SameFacts, Quarantines

(* Only the instrument facts differ.                                       *)
Reconciliation(p, r) ==
  /\ r \in Projections
  /\ SameFacts(p, r)
  /\ r.health = p.health /\ r.sequence = p.sequence /\ r.quarantined = p.quarantined
  /\ r.recovery = p.recovery /\ r.gaps = p.gaps
  /\ p.catalog /\ Reconciles(p) =>
       \A m \in PublicMarkets(p) : \A t \in TokensOf(m) : r.books[t].tick = r.fact[m]

LEMMA ReconcileFacts ==
  ASSUME NEW p \in Projections, NEW r, r = Reconcile(p)
  PROVE  Reconciliation(p, r)
<1>1. CASE ~ p.catalog \/ ~ Reconciles(p)
  <2>1. r = p
    BY <1>1 DEF Reconcile
  <2>2. QED BY <2>1, <1>1 DEF Reconciliation, SameFacts
<1>2. CASE p.catalog /\ Reconciles(p)
  <2> DEFINE F == [m \in Markets |->
                     IF m \in Active(p) /\ CommonTick(p, m)
                     THEN p.books[CHOOSE t \in TokensOf(m) : TRUE].tick ELSE p.fact[m]]
  <2>1. ASSUME NEW m \in Markets
        PROVE  (CHOOSE t \in TokensOf(m) : TRUE) \in TokensOf(m)
    <3>1. \E t \in TokensOf(m) : TRUE
      BY ScopeAssumption DEF TokensOf
    <3>2. QED BY <3>1
  <2>2. \A t \in Tokens : p.books[t].tick \in Nat
    BY DEF Projections, Books
  <2>3. \A m \in Markets : TokensOf(m) \subseteq Tokens
    BY DEF TokensOf
  <2>4. F \in [Markets -> Nat]
    BY <2>1, <2>2, <2>3 DEF Projections
  <2>5. r = [p EXCEPT !.fact = F]
    BY <1>2 DEF Reconcile
  <2>6. ASSUME NEW m \in PublicMarkets(p), NEW t \in TokensOf(m)
        PROVE  p.books[t].tick = F[m]
    <3>1. m \in Markets /\ m \in Active(p) /\ CommonTick(p, m)
      BY <1>2 DEF PublicMarkets, Active, Reconciles
    <3>2. F[m] = p.books[CHOOSE u \in TokensOf(m) : TRUE].tick
      BY <3>1
    <3>3. QED BY <2>1, <3>1, <3>2 DEF CommonTick
  <2> HIDE DEF F
  <2>7. r \in Projections
    BY <2>4, <2>5 DEF Projections
  <2>8. /\ SameFacts(p, r) /\ r.fact = F
        /\ r.health = p.health /\ r.sequence = p.sequence /\ r.quarantined = p.quarantined
        /\ r.recovery = p.recovery /\ r.gaps = p.gaps
    BY <2>5 DEF Projections, SameFacts
  <2>9. QED BY <2>6, <2>7, <2>8 DEF Reconciliation, SameFacts
<1>3. QED BY <1>1, <1>2

LEMMA ReconcileSteady ==
  ASSUME NEW p, Steady(p), NEW r, r = Reconcile(p)
  PROVE  Steady(r)
<1>1. Reconciliation(p, r)
  BY ReconcileFacts DEF Steady
<1>2. Scoped(r)
  BY <1>1, ScopedFacts DEF Steady, Reconciliation
<1>3. Uncrossed(r)
  BY <1>1, UncrossedFacts DEF Steady, Reconciliation, SameFacts
<1>4. Related(r) /\ Isolated(r)
  BY <1>1 DEF Steady, Reconciliation, SameFacts, Related, Isolated, Public
<1>5. QED BY <1>1, <1>2, <1>3, <1>4 DEF Steady, Reconciliation

(* Predicates that look at nothing in which like projections differ.       *)
LEMMA LikePredicates ==
  ASSUME NEW p, NEW q, Alike(p, q)
  PROVE  /\ Active(q) = Active(p) /\ PublicMarkets(q) = PublicMarkets(p)
         /\ Configured(q) = Configured(p)
         /\ Reconciles(q) = Reconciles(p)
         /\ \A m : CommonTick(q, m) = CommonTick(p, m) /\ Executable(q, m) = Executable(p, m)
<1>1. \A m : CommonTick(q, m) = CommonTick(p, m)
  BY DEF Alike, CommonTick
<1>2. \A m : Executable(q, m) = Executable(p, m)
  BY DEF Alike, Executable
<1>3. Active(q) = Active(p) /\ Configured(q) = Configured(p)
  BY DEF Alike, Active, Configured
<1>4. PublicMarkets(q) = PublicMarkets(p)
  BY <1>3 DEF Alike, PublicMarkets, Public
<1>5. Reconciles(q) = Reconciles(p)
  BY <1>1, <1>4 DEF Reconciles, Alike
<1>6. QED BY <1>1, <1>2, <1>3, <1>4, <1>5

LEMMA ReconcileAlike ==
  ASSUME NEW p \in Projections, NEW q \in Projections, Alike(p, q)
  PROVE  Alike(Reconcile(p), Reconcile(q))
<1>1. /\ Active(q) = Active(p) /\ Reconciles(q) = Reconciles(p)
      /\ \A m : CommonTick(q, m) = CommonTick(p, m)
  BY LikePredicates
<1> PICK r : r = Reconcile(p)
  OBVIOUS
<1> PICK s : s = Reconcile(q)
  OBVIOUS
<1>2. Reconciliation(p, r)
  BY ReconcileFacts
<1>3. Reconciliation(q, s)
  BY ReconcileFacts
<1>4. q.catalog = p.catalog /\ q.books = p.books /\ q.fact = p.fact
  BY DEF Alike
<1>5. s.fact = r.fact
  <2>1. CASE ~ p.catalog \/ ~ Reconciles(p)
    BY <1>1, <1>4, <2>1 DEF Reconcile
  <2>2. CASE p.catalog /\ Reconciles(p)
    <3> DEFINE F(x) == [m \in Markets |->
                     IF m \in Active(x) /\ CommonTick(x, m)
                     THEN x.books[CHOOSE t \in TokensOf(m) : TRUE].tick ELSE x.fact[m]]
    <3>1. r.fact = F(p)
      BY <2>2 DEF Reconcile, Projections
    <3>2. s.fact = F(q)
      BY <1>1, <1>4, <2>2 DEF Reconcile, Projections
    <3>3. F(q) = F(p)
      BY <1>1, <1>4
    <3>4. QED BY <3>1, <3>2, <3>3
  <2>3. QED BY <2>1, <2>2
<1>6. QED BY <1>2, <1>3, <1>5 DEF Alike, Reconciliation, SameFacts

(* Recover(p, m, t) is r.                                                  *)
Whole(p, m, t) == p.health[m] = "ready" \/ TokensOf(m) \subseteq p.recovery[m] \cup {t}
Cleared(p, m, t) ==
  IF Whole(p, m, t) THEN [p EXCEPT !.quarantined = @ \ TokensOf(m), !.recovery[m] = {}]
  ELSE [p EXCEPT !.recovery[m] = p.recovery[m] \cup {t}]
Recovers(p, m, t, r) ==
  /\ r \in Projections
  /\ SameFacts(p, r) /\ r.fact = p.fact /\ r.sequence = p.sequence /\ r.gaps = p.gaps
  /\ r.quarantined = IF Whole(p, m, t) THEN p.quarantined \ TokensOf(m) ELSE p.quarantined
  /\ r.recovery = [p.recovery EXCEPT ![m] = IF Whole(p, m, t) THEN {} ELSE p.recovery[m] \cup {t}]
  /\ r.health = IF Whole(p, m, t) /\ Executable(Cleared(p, m, t), m)
                THEN [p.health EXCEPT ![m] = "ready"]
                ELSE IF p.health[m] # "ready" THEN [p.health EXCEPT ![m] = "recovering"]
                ELSE p.health
  /\ Executable(r, m) = Executable(Cleared(p, m, t), m)

LEMMA RecoverFacts ==
  ASSUME NEW p \in Projections, NEW m \in Markets, NEW t \in Tokens, NEW r, r = Recover(p, m, t)
  PROVE  Recovers(p, m, t, r)
<1> PICK c : c = Cleared(p, m, t)
  OBVIOUS
<1> PICK Q : Q = IF Whole(p, m, t) THEN p.quarantined \ TokensOf(m) ELSE p.quarantined
  OBVIOUS
<1> PICK R : R = [p.recovery EXCEPT ![m] = IF Whole(p, m, t) THEN {} ELSE p.recovery[m] \cup {t}]
  OBVIOUS
<1>1. Q \in SUBSET Tokens
  BY DEF Projections
<1>2. R \in [Markets -> SUBSET Tokens]
  BY DEF Projections
<1>3. c \in Projections /\ c.quarantined = Q /\ c.recovery = R /\ c.health = p.health
      /\ SameFacts(p, c) /\ c.fact = p.fact /\ c.sequence = p.sequence /\ c.gaps = p.gaps
  <2>1. CASE Whole(p, m, t)
    <3>1. c = [p EXCEPT !.quarantined = Q, !.recovery = R]
      BY <2>1 DEF Cleared
    <3>2. c \in Projections
      BY ONLY p \in Projections, <3>1, <1>1, <1>2 DEF Projections
    <3>3. QED BY <3>1, <3>2 DEF Projections, SameFacts
  <2>2. CASE ~ Whole(p, m, t)
    <3>1. c = [p EXCEPT !.recovery = R]
      BY <2>2 DEF Cleared
    <3>2. c \in Projections
      BY ONLY p \in Projections, <3>1, <1>2 DEF Projections
    <3>3. Q = p.quarantined
      BY <2>2
    <3>4. QED BY <3>1, <3>2, <3>3 DEF Projections, SameFacts
  <2>3. QED BY <2>1, <2>2
<1>4. r = IF Whole(p, m, t) /\ Executable(c, m) THEN [c EXCEPT !.health[m] = "ready"]
          ELSE IF p.health[m] # "ready" THEN [c EXCEPT !.health[m] = "recovering"]
          ELSE c
  BY DEF Recover, Cleared, Whole
<1> PICK H : H = IF Whole(p, m, t) /\ Executable(c, m) THEN [p.health EXCEPT ![m] = "ready"]
                 ELSE IF p.health[m] # "ready" THEN [p.health EXCEPT ![m] = "recovering"]
                 ELSE p.health
  OBVIOUS
<1>5. H \in [Markets -> Statuses]
  BY DEF Projections, Statuses
<1>6. r = [c EXCEPT !.health = H]
  <2>1. c = [c EXCEPT !.health = c.health]
    BY <1>3 DEF Projections
  <2>2. QED BY <1>3, <1>4, <2>1
<1>7. r \in Projections
  BY ONLY <1>3, <1>5, <1>6 DEF Projections
<1>8. /\ SameFacts(c, r) /\ r.fact = c.fact /\ r.sequence = c.sequence /\ r.gaps = c.gaps
      /\ r.quarantined = c.quarantined /\ r.recovery = c.recovery /\ r.health = H
  BY ONLY <1>3, <1>6 DEF Projections, SameFacts
<1>9. Executable(r, m) = Executable(c, m)
  BY <1>8 DEF Executable, SameFacts
<1>10. QED BY <1>3, <1>7, <1>8, <1>9 DEF Recovers, SameFacts

LEMMA RecoverAlike ==
  ASSUME NEW p \in Projections, NEW q \in Projections, Alike(p, q),
         NEW m \in Markets, NEW t \in Tokens
  PROVE  Alike(Recover(p, m, t), Recover(q, m, t))
<1> PICK r : r = Recover(p, m, t)
  OBVIOUS
<1> PICK s : s = Recover(q, m, t)
  OBVIOUS
<1>1. Recovers(p, m, t, r)
  BY RecoverFacts
<1>2. Recovers(q, m, t, s)
  BY RecoverFacts
<1>3. Whole(q, m, t) = Whole(p, m, t)
  BY DEF Alike, Whole
<1>4. s.quarantined = r.quarantined /\ s.recovery = r.recovery
  BY <1>1, <1>2, <1>3 DEF Recovers, Alike
<1>5. Executable(s, m) = Executable(r, m)
  BY <1>1, <1>2, <1>4 DEF Recovers, Alike, SameFacts, Executable
<1>6. s.health = r.health
  BY <1>1, <1>2, <1>3, <1>5 DEF Recovers, Alike
<1>7. QED BY <1>1, <1>2, <1>4, <1>6 DEF Recovers, Alike, SameFacts

(* A market comes back with all its tokens, and executable.                *)
Returns(p, m, t, r) ==
  /\ SameElsewhere(p, r, m) /\ r.recovery[m] \subseteq p.recovery[m] \cup {t}
  /\ r.health[m] \in {"ready", "recovering"} /\ r.quarantined \subseteq p.quarantined
  /\ r.health[m] = "ready" /\ p.health[m] # "ready" =>
       Executable(r, m) /\ TokensOf(m) \subseteq p.recovery[m] \cup {t}

LEMMA RecoverSteady ==
  ASSUME NEW p, Steady(p), NEW m \in Markets, NEW t \in Tokens, MarketOf[t] = m,
         p.markets[m] # "absent", NEW r, r = Recover(p, m, t)
  PROVE  Steady(r) /\ Returns(p, m, t, r)
<1> p \in Projections
  BY DEF Steady
<1>1. Recovers(p, m, t, r)
  BY RecoverFacts
<1>2. SameFacts(p, r) /\ r \in Projections
  BY <1>1 DEF Recovers
<1>3. SameElsewhere(p, r, m)
  BY <1>1 DEF Recovers, Projections, SameElsewhere
<1>4. r.recovery[m] = IF Whole(p, m, t) THEN {} ELSE p.recovery[m] \cup {t}
  BY <1>1 DEF Recovers, Projections
<1>5. r.quarantined \subseteq p.quarantined
  BY <1>1 DEF Recovers
<1>6. r.health[m] = IF Whole(p, m, t) /\ Executable(r, m) THEN "ready"
                    ELSE IF p.health[m] # "ready" THEN "recovering" ELSE "ready"
  BY <1>1 DEF Recovers, Projections
<1>7. Returns(p, m, t, r)
  BY <1>3, <1>4, <1>5, <1>6 DEF Returns, Whole
<1>8. p.catalog
  BY DEF Steady, Scoped
<1>9. Scoped(r)
  BY <1>2, <1>8, ScopedFacts DEF Steady
<1>10. Uncrossed(r)
  BY <1>2, UncrossedFacts DEF Steady, SameFacts
<1>11. Related(r)
  BY <1>1 DEF Recovers, Related, Steady, SameFacts
<1>12. Isolated(r)
  <2>1. ASSUME NEW u \in r.quarantined PROVE ~ Public(r, MarketOf[u])
    <3>1. u \in Tokens /\ MarketOf[u] \in Markets /\ ~ Public(p, MarketOf[u])
      BY <1>2, <1>5, ScopeAssumption DEF Projections, Steady, Isolated
    <3>2. CASE MarketOf[u] = m
      <4>1. ~ Whole(p, m, t)
        BY <3>1, <3>2, <1>1 DEF Recovers, TokensOf
      <4>2. QED BY <4>1, <1>6, <3>2 DEF Whole, Public, None
    <3>3. CASE MarketOf[u] # m
      BY <3>1, <3>3, <1>3 DEF Public, SameElsewhere
    <3>4. QED BY <3>2, <3>3
  <2>2. \A k \in Markets : r.recovery[k] \subseteq TokensOf(k)
    BY <1>3, <1>4 DEF SameElsewhere, Steady, Isolated, TokensOf
  <2>3. \A k \in Markets : r.health[k] = "quarantined" => r.recovery[k] = {}
    BY <1>3, <1>6 DEF SameElsewhere, Steady, Isolated
  <2>4. QED BY <2>1, <2>2, <2>3 DEF Isolated
<1>13. QED BY <1>2, <1>7, <1>9, <1>10, <1>11, <1>12 DEF Steady

(* Everything but readiness and its reason.                                *)
SameState(p, r) ==
  /\ SameFacts(p, r) /\ r.fact = p.fact /\ r.health = p.health /\ r.sequence = p.sequence
  /\ r.quarantined = p.quarantined /\ r.recovery = p.recovery /\ r.gaps = p.gaps

LEMMA SameStateSteady ==
  ASSUME NEW p, Steady(p), NEW r \in Projections, SameState(p, r)
  PROVE  Steady(r)
<1>1. Scoped(r)
  BY ScopedFacts DEF Steady, SameState
<1>2. Uncrossed(r)
  BY UncrossedFacts DEF Steady, SameState, SameFacts
<1>3. Related(r) /\ Isolated(r)
  BY DEF Steady, SameState, SameFacts, Related, Isolated, Public
<1>4. QED BY <1>1, <1>2, <1>3 DEF Steady

LEMMA SameStateAlike ==
  ASSUME NEW p, NEW q, NEW r, NEW s, Alike(p, q), SameState(p, r), SameState(q, s)
  PROVE  Alike(r, s)
BY DEF Alike, SameState, SameFacts

LEMMA SameStatePublic ==
  ASSUME NEW p, NEW r, SameState(p, r)
  PROVE  /\ PublicMarkets(r) = PublicMarkets(p)
         /\ \A m : Executable(r, m) = Executable(p, m)
<1>1. PublicMarkets(r) = PublicMarkets(p)
  BY DEF SameState, SameFacts, PublicMarkets, Active, Public
<1>2. QED BY <1>1 DEF SameState, SameFacts, Executable

(* A projection without gaps whose public books are two-sided and carry    *)
(* the ticks of their markets offers executable markets only.              *)
LEMMA ReadyOffers ==
  ASSUME NEW p, Steady(p), p.gaps = {}, p.catalog, TicksConsistent(p), BooksTwoSided(p),
         NEW m \in PublicMarkets(p)
  PROVE  Executable(p, m)
<1>1. m \in Markets /\ p.markets[m] = "active" /\ Public(p, m)
  BY DEF PublicMarkets, Active
<1>2. p.relation
  BY DEF Steady, Related
<1>3. ASSUME NEW t \in TokensOf(m)
      PROVE  /\ p.books[t].tick = p.fact[m] /\ t \notin p.quarantined
             /\ TwoSided(p.books[t]) /\ ~ Crossed(p.books[t])
  <2>1. t \in Tokens /\ MarketOf[t] = m
    BY DEF TokensOf
  <2>2. QED BY <1>1, <2>1 DEF TicksConsistent, BooksTwoSided, Steady, Isolated, Uncrossed
<1>4. QED BY <1>1, <1>2, <1>3 DEF Executable

LEMMA ReadinessFacts ==
  ASSUME NEW p \in Projections, NEW why \in Reasons, NEW c \in BOOLEAN,
         NEW r, r = Readiness(p, why, c)
  PROVE  /\ r \in Projections /\ SameState(p, r)
         /\ r.ready => p.gaps = {} /\ c /\ BooksTwoSided(p)
<1> PICK d : d = (p.gaps = {} /\ Usable(p) /\ BooksComplete(p) /\ c /\ BooksTwoSided(p))
  OBVIOUS
<1> PICK w : w = CASE why # None -> why
                   [] why = None /\ ~ c -> "instrument_tick_inconsistent"
                   [] why = None /\ c /\ ~ BooksTwoSided(p) -> "one_sided_active_book"
                   [] OTHER -> IF d THEN None
                               ELSE IF p.gaps = {} THEN "no_healthy_markets"
                               ELSE "unresolved_gap"
  OBVIOUS
<1>1. d \in BOOLEAN
  OBVIOUS
<1>2. w \in Reasons
  <2>1. {None, "instrument_tick_inconsistent", "one_sided_active_book",
         "no_healthy_markets", "unresolved_gap"} \subseteq Reasons
    BY DEF Reasons
  <2>2. QED BY <2>1
<1>3. r = [p EXCEPT !.ready = d, !.reason = w]
  BY DEF Readiness
<1>4. r \in Projections
  BY ONLY p \in Projections, <1>1, <1>2, <1>3 DEF Projections
<1>5. SameState(p, r) /\ r.ready = d
  BY ONLY p \in Projections, <1>3 DEF Projections, SameState, SameFacts
<1>6. QED BY <1>4, <1>5

LEMMA ReadinessSound ==
  ASSUME NEW p, Steady(p), NEW why \in Reasons, NEW c \in BOOLEAN, c => TicksConsistent(p),
         NEW r, r = Readiness(p, why, c)
  PROVE  Sound(r) /\ SameState(p, r)
<1> p \in Projections
  BY DEF Steady
<1>1. /\ r \in Projections /\ SameState(p, r)
      /\ r.ready => p.gaps = {} /\ c /\ BooksTwoSided(p)
  BY ReadinessFacts
<1>2. Steady(r)
  BY <1>1, SameStateSteady
<1>3. PublicMarkets(r) = PublicMarkets(p) /\ \A m : Executable(r, m) = Executable(p, m)
  BY <1>1, SameStatePublic
<1>4. r.catalog = p.catalog
  BY <1>1 DEF SameState, SameFacts
<1>5. Offered(r)
  BY <1>1, <1>3, <1>4, ReadyOffers DEF Offered
<1>6. QED BY <1>1, <1>2, <1>5 DEF Sound

(* The projection of Record.                                               *)
Records(p, m, n, r) ==
  /\ r \in Projections
  /\ SameFacts(p, r) /\ r.fact = p.fact /\ r.quarantined = p.quarantined
  /\ r.recovery = p.recovery /\ r.gaps = p.gaps /\ r.ready = p.ready
  /\ r.health = [k \in Markets |->
                   IF k = m /\ p.health[k] = None THEN "recovering" ELSE p.health[k]]
  /\ r.sequence = [k \in Markets |-> IF k = m THEN n ELSE p.sequence[k]]

LEMMA RecordFacts ==
  ASSUME NEW p \in Projections, NEW m \in Markets \cup {None}, NEW n \in Nat,
         NEW a, NEW w, NEW l, NEW r, r = Record(p, m, n, a, w, l).p
  PROVE  Records(p, m, n, r)
<1> PICK H : H = [k \in Markets |->
                    IF k = m /\ p.health[k] = None THEN "recovering" ELSE p.health[k]]
  OBVIOUS
<1> PICK S : S = [k \in Markets |-> IF k = m THEN n ELSE p.sequence[k]]
  OBVIOUS
<1>1. H \in [Markets -> Statuses] /\ S \in [Markets -> Nat]
  BY DEF Projections, Statuses
<1>2. CASE m = None
  <2>1. r = p
    BY <1>2 DEF Record
  <2>2. H = p.health /\ S = p.sequence
    BY <1>2, NamesAssumption DEF Projections
  <2>3. QED BY <2>1, <2>2 DEF Records, SameFacts
<1>3. CASE m \in Markets
  <2>1. m # None
    BY <1>3, NamesAssumption
  <2>2. r = [p EXCEPT !.health[m] = IF p.health[m] = None THEN "recovering" ELSE p.health[m],
                      !.sequence[m] = n]
    BY <2>1 DEF Record
  <2>3. /\ H = [p.health EXCEPT ![m] = IF p.health[m] = None THEN "recovering" ELSE p.health[m]]
        /\ S = [p.sequence EXCEPT ![m] = n]
    BY <1>3 DEF Projections
  <2>4. r = [p EXCEPT !.health = H, !.sequence = S]
    BY <2>2, <2>3
  <2>5. r \in Projections
    BY ONLY p \in Projections, <1>1, <2>4 DEF Projections
  <2>6. /\ SameFacts(p, r) /\ r.fact = p.fact /\ r.quarantined = p.quarantined
        /\ r.recovery = p.recovery /\ r.gaps = p.gaps /\ r.ready = p.ready
        /\ r.health = H /\ r.sequence = S
    BY ONLY p \in Projections, <2>4 DEF Projections, SameFacts
  <2>7. QED BY <2>5, <2>6 DEF Records
<1>4. QED BY <1>2, <1>3

LEMMA RecordSound ==
  ASSUME NEW p, Sound(p), NEW m \in Markets \cup {None}, NEW n \in Nat, NEW r, Records(p, m, n, r)
  PROVE  Sound(r)
<1>1. /\ r \in Projections
      /\ SameFacts(p, r) /\ r.fact = p.fact /\ r.quarantined = p.quarantined
      /\ r.recovery = p.recovery /\ r.gaps = p.gaps /\ r.ready = p.ready
  BY DEF Records
<1>2. \A k \in Markets : r.health[k] = IF k = m /\ p.health[k] = None THEN "recovering"
                                       ELSE p.health[k]
  BY DEF Records
<1>3. \A k \in Markets : Public(r, k) => Public(p, k)
  BY <1>2 DEF Public, None
<1>4. Scoped(r)
  BY <1>1, ScopedFacts DEF Steady, Sound
<1>5. Uncrossed(r)
  BY <1>1, UncrossedFacts DEF Steady, Sound, SameFacts
<1>6. Related(r)
  BY <1>1 DEF Steady, Sound, SameFacts, Related
<1>7. Isolated(r)
  <2>1. \A t \in r.quarantined : MarketOf[t] \in Markets
    BY <1>1, ScopeAssumption DEF Projections
  <2>2. \A k \in Markets : r.health[k] = "quarantined" => p.health[k] = "quarantined"
    BY <1>2
  <2>3. QED BY <1>1, <1>3, <2>1, <2>2 DEF Steady, Sound, Isolated
<1>8. Offered(r)
  <2>1. PublicMarkets(r) \subseteq PublicMarkets(p)
    BY <1>1, <1>3 DEF PublicMarkets, Active, SameFacts
  <2>2. \A k : Executable(r, k) = Executable(p, k)
    BY <1>1 DEF SameFacts, Executable
  <2>3. QED BY <1>1, <2>1, <2>2 DEF Sound, Offered, SameFacts
<1>9. QED BY <1>1, <1>4, <1>5, <1>6, <1>7, <1>8 DEF Sound, Steady

LEMMA RecordAlike ==
  ASSUME NEW p, NEW q, Alike(p, q), NEW m, NEW n, NEW r, NEW s,
         Records(p, m, n, r), Records(q, m, n, s)
  PROVE  Alike(r, s)
BY DEF Alike, Records, SameFacts

LEMMA RecordOutcome ==
  ASSUME NEW p, NEW q, Alike(p, q), NEW m, NEW n, NEW a, NEW w, NEW l
  PROVE  Record(q, m, n, a, w, l).outcome = Record(p, m, n, a, w, l).outcome
BY DEF Alike, Record

LEMMA RecordApplied ==
  ASSUME NEW p, NEW m, NEW n, NEW a, NEW w, NEW l
  PROVE  Record(p, m, n, a, w, l).outcome.applied = a
BY DEF Record

-----------------------------------------------------------------------------
(* From the effect of an event to the next projection *)

(* An effect that later stages may start from.                             *)
Effective(m, f, x) ==
  /\ Steady(x.p) /\ x.applied \in BOOLEAN /\ x.why \in Faults \cup {None}
  /\ m # None => x.p.markets[m] # "absent"

(* The market of an event.                                                 *)
Owns(m, f) ==
  /\ m \in Markets \cup {None} /\ f \in EventKind
  /\ m # None /\ f.kind \in TokenKinds => m = MarketOf[f.token] /\ f.token \in Tokens

Spoilt(b, m, f, x, y) ==
  Local(m, f) /\ ~ Faulty(m, f, x) /\ Started(b, m).health[m] = "ready" /\ ~ Executable(y, m)
After(b, m, f, x, y) == IF Spoilt(b, m, f, x, y) THEN Quarantine(y, m, f.token) ELSE y
Why(m, f, x) == IF Faulty(m, f, x) THEN None ELSE x.why
Fault(b, m, f, x, y) ==
  IF Faulty(m, f, x) THEN x.why
  ELSE IF Spoilt(b, m, f, x, y) THEN "market_book_not_executable" ELSE None
Number(b, m) == IF m = None THEN 0 ELSE b.sequence[m] + 1

LEMMA JudgedStages ==
  ASSUME NEW b, NEW m, NEW f, NEW x, NEW x1, x1 = Marked(m, f, x),
         NEW x3, x3 = Collected(Reconcile(x1), m, f, x),
         NEW x5, x5 = Readiness(After(b, m, f, x, x3), Why(m, f, x), Reconciles(x1))
  PROVE  Judged(b, m, f, x) =
           Record(x5, m, Number(b, m), x.applied, Why(m, f, x), Fault(b, m, f, x, x3))
BY DEF Judged, Reconciled, Settle, After, Why, Number, Fault, Spoilt

(* What a stage may do to the health of the event's market.                *)
Moves(x, y, m, f, a) ==
  /\ SameFacts(x, y) /\ SameElsewhere(x, y, m)
  /\ m \in Markets =>
       /\ y.recovery[m] \subseteq x.recovery[m] \cup (IF f.kind = "book" /\ a THEN {f.token} ELSE {})
       /\ y.health[m] = "ready" /\ x.health[m] # "ready" =>
            /\ f.kind = "book" /\ a /\ TokensOf(m) \subseteq x.recovery[m] \cup {f.token}
            /\ y.markets[m] = "active" /\ \A t \in TokensOf(m) : y.books[t] # NoBook
       /\ y.health[m] = "quarantined" /\ x.health[m] # "quarantined" => f.kind \in LocalKinds

LEMMA ExecutableBooks ==
  ASSUME NEW p, NEW m, Executable(p, m)
  PROVE  p.markets[m] = "active" /\ \A t \in TokensOf(m) : p.books[t] # NoBook
BY DEF Executable, TwoSided, NoBook

LEMMA LocalMarket ==
  ASSUME NEW m, NEW f, Owns(m, f), Local(m, f)
  PROVE  m \in Markets /\ f.token \in Tokens /\ MarketOf[f.token] = m /\ f.kind \in LocalKinds
BY DEF Owns, Local, LocalKinds

LEMMA MarkedStage ==
  ASSUME NEW m, NEW f, NEW x, Owns(m, f), Effective(m, f, x), NEW r, r = Marked(m, f, x)
  PROVE  /\ Steady(r) /\ Moves(x.p, r, m, f, x.applied)
         /\ IF Faulty(m, f, x) THEN Quarantines(x.p, m, f.token, r) ELSE r = x.p
<1>1. Steady(x.p) /\ x.p \in Projections
  BY DEF Effective, Steady
<1>2. CASE Faulty(m, f, x)
  <2>1. m \in Markets /\ f.token \in Tokens /\ MarketOf[f.token] = m /\ f.kind \in LocalKinds
    BY <1>2, LocalMarket DEF Faulty
  <2>2. r = Quarantine(x.p, m, f.token)
    BY <1>2 DEF Marked
  <2>3. Quarantines(x.p, m, f.token, r)
    BY <1>1, <2>1, <2>2, QuarantineFacts
  <2>4. Steady(r)
    BY <1>1, <2>1, <2>2, QuarantineSteady
  <2>5. QED BY <1>2, <2>1, <2>3, <2>4 DEF Moves, Quarantines
<1>3. CASE ~ Faulty(m, f, x)
  <2>1. r = x.p
    BY <1>3 DEF Marked
  <2>2. QED BY <1>1, <1>3, <2>1 DEF Moves, SameFacts, SameElsewhere
<1>4. QED BY <1>2, <1>3

(* Ticks of public markets survive when no market becomes public unless it *)
(* is executable.                                                          *)
LEMMA TicksKept ==
  ASSUME NEW p, NEW r, SameFacts(p, r), r.fact = p.fact, TicksConsistent(p),
         \A m \in Markets : r.markets[m] = "active" /\ Public(r, m) =>
                              Public(p, m) \/ Executable(r, m)
  PROVE  TicksConsistent(r)
<1> SUFFICES ASSUME r.catalog, NEW m \in PublicMarkets(r), NEW t \in TokensOf(m)
             PROVE  r.books[t].tick = r.fact[m]
  BY DEF TicksConsistent
<1>1. m \in Markets /\ r.markets[m] = "active" /\ Public(r, m)
  BY DEF PublicMarkets, Active
<1>2. CASE Public(p, m)
  BY <1>1, <1>2 DEF PublicMarkets, Active, SameFacts, TicksConsistent
<1>3. CASE Executable(r, m)
  BY <1>3 DEF Executable
<1>4. QED BY <1>1, <1>2, <1>3

LEMMA CollectedStage ==
  ASSUME NEW m, NEW f, NEW x, Owns(m, f), Effective(m, f, x),
         NEW p, Steady(p), m # None => p.markets[m] # "absent",
         NEW r, r = Collected(p, m, f, x)
  PROVE  /\ Steady(r) /\ Moves(p, r, m, f, x.applied) /\ r.fact = p.fact
         /\ Faulty(m, f, x) => r = p
         /\ TicksConsistent(p) => TicksConsistent(r)
<1> DEFINE collects == f.kind = "book" /\ m # None /\ x.applied /\ ~ Faulty(m, f, x)
<1>1. CASE ~ collects
  <2>1. r = p
    BY <1>1 DEF Collected
  <2>2. QED BY <2>1 DEF Moves, SameFacts, SameElsewhere
<1>2. CASE collects
  <2>1. m \in Markets /\ f.token \in Tokens /\ MarketOf[f.token] = m /\ f.kind \in TokenKinds
    BY <1>2 DEF Owns, TokenKinds
  <2>2. r = Recover(p, m, f.token)
    BY <1>2 DEF Collected
  <2>3. p \in Projections
    BY DEF Steady
  <2>4. Recovers(p, m, f.token, r)
    BY <2>1, <2>2, <2>3, RecoverFacts
  <2>5. Steady(r) /\ Returns(p, m, f.token, r)
    BY <1>2, <2>1, <2>2, RecoverSteady
  <2>6. SameFacts(p, r) /\ r.fact = p.fact
    BY <2>4 DEF Recovers
  <2>7. Moves(p, r, m, f, x.applied)
    BY <1>2, <2>5, <2>6, ExecutableBooks DEF Moves, Returns
  <2>8. TicksConsistent(p) => TicksConsistent(r)
    <3>1. \A k \in Markets : Public(r, k) => Public(p, k) \/ Executable(r, k)
      BY <2>5 DEF Returns, SameElsewhere, Public, None
    <3>2. QED BY <2>6, <3>1, TicksKept
  <2>9. QED BY <1>2, <2>5, <2>6, <2>7, <2>8
<1>3. QED BY <1>1, <1>2

LEMMA AfterStage ==
  ASSUME NEW b, NEW m, NEW f, NEW x, Owns(m, f), Effective(m, f, x),
         NEW p, Steady(p), NEW r, r = After(b, m, f, x, p)
  PROVE  /\ Steady(r) /\ Moves(p, r, m, f, x.applied) /\ r.fact = p.fact
         /\ TicksConsistent(p) => TicksConsistent(r)
<1>1. CASE ~ Spoilt(b, m, f, x, p)
  <2>1. r = p
    BY <1>1 DEF After
  <2>2. QED BY <2>1 DEF Moves, SameFacts, SameElsewhere
<1>2. CASE Spoilt(b, m, f, x, p)
  <2>1. m \in Markets /\ f.token \in Tokens /\ MarketOf[f.token] = m /\ f.kind \in LocalKinds
    BY <1>2, LocalMarket DEF Spoilt
  <2>2. r = Quarantine(p, m, f.token)
    BY <1>2 DEF After
  <2>3. p \in Projections
    BY DEF Steady
  <2>4. Quarantines(p, m, f.token, r)
    BY <2>1, <2>2, <2>3, QuarantineFacts
  <2>5. Steady(r)
    BY <2>1, <2>2, QuarantineSteady
  <2>6. SameFacts(p, r) /\ r.fact = p.fact
    BY <2>4 DEF Quarantines
  <2>7. Moves(p, r, m, f, x.applied)
    BY <2>1, <2>4 DEF Moves, Quarantines
  <2>8. TicksConsistent(p) => TicksConsistent(r)
    <3>1. \A k \in Markets : Public(r, k) => Public(p, k)
      BY <2>4 DEF Quarantines, SameElsewhere, Public, None
    <3>2. QED BY <2>6, <3>1, TicksKept
  <2>9. QED BY <2>5, <2>6, <2>7, <2>8
<1>3. QED BY <1>1, <1>2

LEMMA MovesTwice ==
  ASSUME NEW x, NEW y, NEW z, NEW m, NEW f, NEW a, Moves(x, y, m, f, a), Moves(y, z, m, f, a)
  PROVE  Moves(x, z, m, f, a)
<1>1. SameFacts(x, z) /\ SameElsewhere(x, z, m)
  BY DEF Moves, SameFacts, SameElsewhere
<1>2. ASSUME m \in Markets
      PROVE  z.recovery[m] \subseteq x.recovery[m] \cup (IF f.kind = "book" /\ a THEN {f.token} ELSE {})
  BY <1>2 DEF Moves
<1>3. ASSUME m \in Markets, z.health[m] = "ready", x.health[m] # "ready"
      PROVE  /\ f.kind = "book" /\ a /\ TokensOf(m) \subseteq x.recovery[m] \cup {f.token}
             /\ z.markets[m] = "active" /\ \A t \in TokensOf(m) : z.books[t] # NoBook
  <2>1. CASE y.health[m] = "ready"
    BY <1>3, <2>1 DEF Moves, SameFacts
  <2>2. CASE y.health[m] # "ready"
    <3>1. /\ f.kind = "book" /\ a /\ TokensOf(m) \subseteq y.recovery[m] \cup {f.token}
          /\ z.markets[m] = "active" /\ \A t \in TokensOf(m) : z.books[t] # NoBook
      BY <1>3, <2>2 DEF Moves
    <3>2. y.recovery[m] \subseteq x.recovery[m] \cup {f.token}
      BY <1>3, <3>1 DEF Moves
    <3>3. QED BY <3>1, <3>2
  <2>3. QED BY <2>1, <2>2
<1>4. ASSUME m \in Markets, z.health[m] = "quarantined", x.health[m] # "quarantined"
      PROVE  f.kind \in LocalKinds
  BY <1>4 DEF Moves
<1>5. QED BY <1>1, <1>2, <1>3, <1>4 DEF Moves

LEMMA MovesNothing ==
  ASSUME NEW x, NEW y, NEW m, NEW f, NEW a, SameFacts(x, y), y.recovery = x.recovery,
         SameElsewhere(x, y, m), y.health[m] \in {x.health[m], "recovering"}
  PROVE  Moves(x, y, m, f, a)
BY DEF Moves

LEMMA JudgedFacts ==
  ASSUME NEW b \in Projections, NEW m, NEW f, NEW x, Owns(m, f), Effective(m, f, x),
         NEW j, j = Judged(b, m, f, x)
  PROVE  /\ Sound(j.p) /\ Moves(x.p, j.p, m, f, x.applied)
         /\ j.outcome.applied = x.applied
<1> PICK x1 : x1 = Marked(m, f, x)
  OBVIOUS
<1> PICK x2 : x2 = Reconcile(x1)
  OBVIOUS
<1> PICK x3 : x3 = Collected(x2, m, f, x)
  OBVIOUS
<1> PICK x4 : x4 = After(b, m, f, x, x3)
  OBVIOUS
<1> PICK x5 : x5 = Readiness(x4, Why(m, f, x), Reconciles(x1))
  OBVIOUS
<1>1. j = Record(x5, m, Number(b, m), x.applied, Why(m, f, x), Fault(b, m, f, x, x3))
  BY JudgedStages
<1>2. Steady(x1) /\ Moves(x.p, x1, m, f, x.applied)
  BY MarkedStage
<1>3. x1 \in Projections /\ (m # None => x1.markets[m] # "absent")
  BY <1>2 DEF Steady, Moves, SameFacts, Effective
<1>4. Reconciliation(x1, x2)
  BY <1>3, ReconcileFacts
<1>5. Steady(x2)
  BY <1>2, ReconcileSteady
<1>6. Moves(x1, x2, m, f, x.applied)
  BY <1>4, MovesNothing DEF Reconciliation, SameElsewhere
<1>7. Reconciles(x1) => TicksConsistent(x2)
  BY <1>4 DEF Reconciliation, TicksConsistent, SameFacts, PublicMarkets, Active, Public
<1>8. m # None => x2.markets[m] # "absent"
  BY <1>3, <1>4 DEF Reconciliation, SameFacts
<1>9. /\ Steady(x3) /\ Moves(x2, x3, m, f, x.applied)
      /\ TicksConsistent(x2) => TicksConsistent(x3)
  BY <1>5, <1>8, CollectedStage
<1>10. /\ Steady(x4) /\ Moves(x3, x4, m, f, x.applied)
       /\ TicksConsistent(x3) => TicksConsistent(x4)
  BY <1>9, AfterStage
<1>11. Why(m, f, x) \in Reasons /\ Reconciles(x1) \in BOOLEAN
  BY DEF Why, Effective, Reasons, Reconciles
<1>12. Sound(x5) /\ SameState(x4, x5)
  BY <1>7, <1>9, <1>10, <1>11, ReadinessSound
<1>13. Moves(x4, x5, m, f, x.applied)
  BY <1>12, MovesNothing DEF SameState, SameElsewhere
<1>14. m \in Markets \cup {None} /\ Number(b, m) \in Nat
  <2>1. m \in Markets \cup {None}
    BY DEF Owns
  <2>2. m # None => b.sequence[m] \in Nat
    BY <2>1 DEF Projections
  <2>3. QED BY <2>1, <2>2 DEF Number
<1>15. Records(x5, m, Number(b, m), j.p)
  <2>1. x5 \in Projections
    BY <1>12 DEF Sound, Steady
  <2>2. QED BY <2>1, <1>1, <1>14, RecordFacts
<1>16. Sound(j.p)
  BY <1>12, <1>14, <1>15, RecordSound
<1>17. Moves(x5, j.p, m, f, x.applied)
  <2>1. \A k \in Markets : j.p.health[k] = IF k = m /\ x5.health[k] = None THEN "recovering"
                                           ELSE x5.health[k]
    BY <1>15 DEF Records
  <2>2. SameFacts(x5, j.p) /\ j.p.recovery = x5.recovery
    BY <1>15 DEF Records
  <2>3. CASE m \in Markets
    BY <2>1, <2>2, <2>3, MovesNothing DEF SameElsewhere
  <2>4. CASE m = None
    BY <2>1, <2>2, <2>4, NamesAssumption DEF Moves, SameElsewhere
  <2>5. QED BY <2>3, <2>4, <1>14
<1>18. Moves(x.p, x2, m, f, x.applied)
  BY <1>2, <1>6, MovesTwice
<1>19. Moves(x.p, x3, m, f, x.applied)
  BY <1>9, <1>18, MovesTwice
<1>20. Moves(x.p, x4, m, f, x.applied)
  BY <1>10, <1>19, MovesTwice
<1>21. Moves(x.p, x5, m, f, x.applied)
  BY <1>13, <1>20, MovesTwice
<1>22. Moves(x.p, j.p, m, f, x.applied)
  BY <1>17, <1>21, MovesTwice
<1>23. j.outcome.applied = x.applied
  BY <1>1, RecordApplied
<1>24. QED BY <1>16, <1>22, <1>23

(* Like effects on like projections are judged alike.                      *)
LEMMA JudgedAlike ==
  ASSUME NEW b \in Projections, NEW c \in Projections, Alike(b, c), NEW m, NEW f, Owns(m, f),
         NEW x, Effective(m, f, x), NEW y, Effective(m, f, y),
         Alike(x.p, y.p), y.applied = x.applied, y.why = x.why,
         NEW j, j = Judged(b, m, f, x), NEW k, k = Judged(c, m, f, y)
  PROVE  Alike(j.p, k.p) /\ j.outcome = k.outcome
<1>1. Faulty(m, f, y) = Faulty(m, f, x) /\ Why(m, f, y) = Why(m, f, x)
  BY DEF Faulty, Why
<1>2. x.p \in Projections /\ y.p \in Projections
  BY DEF Effective, Steady
<1> PICK x1 : x1 = Marked(m, f, x)
  OBVIOUS
<1> PICK y1 : y1 = Marked(m, f, y)
  OBVIOUS
<1>3. x1 \in Projections /\ y1 \in Projections /\ Steady(x1) /\ Steady(y1)
      /\ (m # None => x1.markets[m] # "absent" /\ y1.markets[m] # "absent")
  <2>1. Steady(x1) /\ Moves(x.p, x1, m, f, x.applied)
    BY MarkedStage
  <2>2. Steady(y1) /\ Moves(y.p, y1, m, f, y.applied)
    BY MarkedStage
  <2>3. QED BY <2>1, <2>2 DEF Steady, Moves, SameFacts, Effective
<1>4. Alike(x1, y1)
  <2>1. CASE Faulty(m, f, x)
    <3>1. m \in Markets /\ f.token \in Tokens /\ MarketOf[f.token] = m
      BY <2>1, LocalMarket DEF Faulty
    <3>2. x1 = Quarantine(x.p, m, f.token) /\ y1 = Quarantine(y.p, m, f.token)
      BY <1>1, <2>1 DEF Marked
    <3>3. QED BY <1>2, <3>1, <3>2, QuarantineAlike
  <2>2. CASE ~ Faulty(m, f, x)
    BY <1>1, <2>2 DEF Marked
  <2>3. QED BY <2>1, <2>2
<1> PICK x2 : x2 = Reconcile(x1)
  OBVIOUS
<1> PICK y2 : y2 = Reconcile(y1)
  OBVIOUS
<1>5. Alike(x2, y2) /\ Reconciles(y1) = Reconciles(x1)
  BY <1>3, <1>4, ReconcileAlike, LikePredicates
<1>6. Steady(x2) /\ Steady(y2) /\ Reconciliation(x1, x2) /\ Reconciliation(y1, y2)
  BY <1>3, ReconcileSteady, ReconcileFacts
<1>7. /\ x2 \in Projections /\ y2 \in Projections
      /\ m # None => x2.markets[m] # "absent" /\ y2.markets[m] # "absent"
  BY <1>3, <1>6 DEF Reconciliation, SameFacts
<1> PICK x3 : x3 = Collected(x2, m, f, x)
  OBVIOUS
<1> PICK y3 : y3 = Collected(y2, m, f, y)
  OBVIOUS
<1>8. Steady(x3) /\ Steady(y3)
  BY <1>6, <1>7, CollectedStage
<1>9. Alike(x3, y3)
  <2> DEFINE collects == f.kind = "book" /\ m # None /\ x.applied /\ ~ Faulty(m, f, x)
  <2>1. CASE collects
    <3>1. m \in Markets /\ f.token \in Tokens
      BY <2>1 DEF Owns, TokenKinds
    <3>2. x3 = Recover(x2, m, f.token) /\ y3 = Recover(y2, m, f.token)
      BY <1>1, <2>1 DEF Collected
    <3>3. QED BY <1>5, <1>7, <3>1, <3>2, RecoverAlike
  <2>2. CASE ~ collects
    BY <1>1, <1>5, <2>2 DEF Collected
  <2>3. QED BY <2>1, <2>2
<1> PICK x4 : x4 = After(b, m, f, x, x3)
  OBVIOUS
<1> PICK y4 : y4 = After(c, m, f, y, y3)
  OBVIOUS
<1>10. Spoilt(c, m, f, y, y3) = Spoilt(b, m, f, x, x3)
  <2>1. Executable(y3, m) = Executable(x3, m)
    BY <1>9, LikePredicates
  <2>2. Started(c, m).health = Started(b, m).health
    <3>1. Executable(c, m) = Executable(b, m) /\ c.health = b.health
      BY LikePredicates DEF Alike
    <3>2. QED BY <3>1 DEF Started, Projections
  <2>3. QED BY <1>1, <2>1, <2>2 DEF Spoilt
<1>11. Steady(x4) /\ Steady(y4)
  BY <1>8, AfterStage
<1>12. Alike(x4, y4)
  <2>1. CASE Spoilt(b, m, f, x, x3)
    <3>1. m \in Markets /\ f.token \in Tokens /\ MarketOf[f.token] = m
      BY <2>1, LocalMarket DEF Spoilt
    <3>2. x4 = Quarantine(x3, m, f.token) /\ y4 = Quarantine(y3, m, f.token)
      BY <1>10, <2>1 DEF After
    <3>3. x3 \in Projections /\ y3 \in Projections
      BY <1>8 DEF Steady
    <3>4. QED BY <1>9, <3>1, <3>2, <3>3, QuarantineAlike
  <2>2. CASE ~ Spoilt(b, m, f, x, x3)
    BY <1>9, <1>10, <2>2 DEF After
  <2>3. QED BY <2>1, <2>2
<1> PICK x5 : x5 = Readiness(x4, Why(m, f, x), Reconciles(x1))
  OBVIOUS
<1> PICK y5 : y5 = Readiness(y4, Why(m, f, x), Reconciles(x1))
  OBVIOUS
<1>13. Why(m, f, x) \in Reasons /\ Reconciles(x1) \in BOOLEAN /\ x4 \in Projections /\ y4 \in Projections
  BY <1>11 DEF Why, Effective, Reasons, Reconciles, Steady
<1>14. x5 \in Projections /\ SameState(x4, x5)
  BY <1>13, ReadinessFacts
<1>15. y5 \in Projections /\ SameState(y4, y5)
  BY <1>13, ReadinessFacts
<1>16. Alike(x5, y5)
  BY <1>12, <1>14, <1>15, SameStateAlike
<1> PICK n : n = Number(b, m)
  OBVIOUS
<1> PICK l : l = Fault(b, m, f, x, x3)
  OBVIOUS
<1>17. Number(c, m) = n /\ Fault(c, m, f, y, y3) = l
  BY <1>1, <1>10 DEF Number, Alike, Fault
<1>18. j = Record(x5, m, n, x.applied, Why(m, f, x), l)
  BY JudgedStages
<1>19. k = Record(y5, m, n, x.applied, Why(m, f, x), l)
  BY <1>1, <1>5, <1>17, JudgedStages
<1>20. m \in Markets \cup {None} /\ n \in Nat
  <2>1. m \in Markets \cup {None}
    BY DEF Owns
  <2>2. m # None => b.sequence[m] \in Nat
    BY <2>1 DEF Projections
  <2>3. QED BY <2>1, <2>2 DEF Number
<1>21. Records(x5, m, n, j.p)
  BY <1>14, <1>18, <1>20, RecordFacts
<1>22. Records(y5, m, n, k.p)
  BY <1>15, <1>19, <1>20, RecordFacts
<1>23. Alike(j.p, k.p)
  BY <1>16, <1>21, <1>22, RecordAlike
<1>24. j.outcome = k.outcome
  BY <1>16, <1>18, <1>19, RecordOutcome
<1>25. QED BY <1>23, <1>24

-----------------------------------------------------------------------------
(* Pruning, and the effects of events *)

LEMMA AlikeSelf ==
  ASSUME NEW p
  PROVE  Alike(p, p)
BY DEF Alike

LEMMA AlikeBack ==
  ASSUME NEW p, NEW q, Alike(p, q)
  PROVE  Alike(q, p)
BY DEF Alike

LEMMA AlikeTwice ==
  ASSUME NEW p, NEW q, NEW r, Alike(p, q), Alike(q, r)
  PROVE  Alike(p, r)
<1>1. \A g \in (p.gaps \cup r.gaps) \ (p.gaps \cap r.gaps) : g \in Tokens /\ p.books[g] = NoBook
  <2> SUFFICES ASSUME NEW g \in (p.gaps \cup r.gaps) \ (p.gaps \cap r.gaps)
               PROVE  g \in Tokens /\ p.books[g] = NoBook
    OBVIOUS
  <2>1. \/ g \in (p.gaps \cup q.gaps) \ (p.gaps \cap q.gaps)
        \/ g \in (q.gaps \cup r.gaps) \ (q.gaps \cap r.gaps)
    OBVIOUS
  <2>2. QED BY <2>1 DEF Alike
<1>2. QED BY <1>1 DEF Alike

Stale(p) == {t \in p.gaps \cap Tokens : MarketOf[t] \in p.monitoring} \ Configured(p)

(* Prune(p) is r.                                                          *)
Prunes(p, r) ==
  /\ r \in Projections
  /\ SameFacts(p, r) /\ r.fact = p.fact /\ r.health = p.health /\ r.sequence = p.sequence
  /\ r.quarantined = p.quarantined /\ r.recovery = p.recovery
  /\ r.gaps = p.gaps \ Stale(p)
  /\ \/ r.ready = p.ready
     \/ r.ready => r.gaps = {} /\ TicksConsistent(p) /\ BooksTwoSided(p)

LEMMA PruneFacts ==
  ASSUME NEW p \in Projections, NEW r, r = Prune(p)
  PROVE  Prunes(p, r)
<1> PICK G : G = p.gaps \ Stale(p)
  OBVIOUS
<1> PICK d : d = (/\ G = {} /\ Usable(p) /\ BooksComplete(p)
                  /\ TicksConsistent(p) /\ BooksTwoSided(p))
  OBVIOUS
<1> PICK w : w = IF d THEN None ELSE p.reason
  OBVIOUS
<1>1. CASE Stale(p) = {}
  <2>1. r = p
    BY <1>1 DEF Prune, Stale
  <2>2. p.gaps \ Stale(p) = p.gaps
    BY <1>1
  <2>3. QED BY <2>1, <2>2 DEF Prunes, SameFacts
<1>2. CASE Stale(p) # {}
  <2>1. [p EXCEPT !.gaps = @ \ Stale(p)].gaps = G
    BY DEF Projections
  <2>2. r = [[p EXCEPT !.gaps = G] EXCEPT !.ready = d, !.reason = IF d THEN None ELSE @]
    BY <1>2, <2>1 DEF Prune, Stale
  <2>3. r = [[[p EXCEPT !.gaps = G] EXCEPT !.ready = d] EXCEPT !.reason = w]
    BY <2>2 DEF Projections
  <2>4. G \in SUBSET Gaps /\ d \in BOOLEAN /\ w \in Reasons
    BY DEF Projections, Reasons
  <2>5. r \in Projections
    BY ONLY p \in Projections, <2>3, <2>4 DEF Projections
  <2>6. /\ SameFacts(p, r) /\ r.fact = p.fact /\ r.health = p.health
        /\ r.sequence = p.sequence
        /\ r.quarantined = p.quarantined /\ r.recovery = p.recovery
        /\ r.gaps = G /\ r.ready = d
    BY ONLY p \in Projections, <2>3 DEF Projections, SameFacts
  <2>7. QED BY <2>5, <2>6 DEF Prunes
<1>3. QED BY <1>1, <1>2

LEMMA PruneSteady ==
  ASSUME NEW p, Steady(p), NEW r, r = Prune(p)
  PROVE  Steady(r) /\ Prunes(p, r) /\ Alike(p, r)
<1> p \in Projections
  BY DEF Steady
<1>1. Prunes(p, r)
  BY PruneFacts
<1>2. /\ r \in Projections
      /\ SameFacts(p, r) /\ r.fact = p.fact /\ r.health = p.health /\ r.sequence = p.sequence
      /\ r.quarantined = p.quarantined /\ r.recovery = p.recovery
      /\ r.gaps = p.gaps \ Stale(p)
  BY <1>1 DEF Prunes
<1>3. Scoped(r)
  BY <1>2, ScopedFacts DEF Steady
<1>4. Uncrossed(r)
  BY <1>2, UncrossedFacts DEF Steady, SameFacts
<1>5. Related(r)
  BY <1>2, NamesAssumption DEF Steady, Related, SameFacts, Stale
<1>6. Isolated(r)
  BY <1>2 DEF Steady, Isolated, Public
<1>7. Alike(p, r)
  <2>1. \A g \in Stale(p) : g \in Tokens /\ p.books[g] = NoBook
    BY DEF Stale, Steady, Scoped
  <2>2. QED BY <1>2, <2>1 DEF Alike, SameFacts
<1>8. QED BY <1>1, <1>2, <1>3, <1>4, <1>5, <1>6, <1>7 DEF Steady

LEMMA PruneSound ==
  ASSUME NEW p, Sound(p), NEW r, r = Prune(p)
  PROVE  Sound(r) /\ Alike(p, r)
<1>1. Steady(r) /\ Prunes(p, r) /\ Alike(p, r)
  BY PruneSteady DEF Sound
<1>2. PublicMarkets(r) = PublicMarkets(p) /\ \A m : Executable(r, m) = Executable(p, m)
  BY <1>1, LikePredicates
<1>3. r.catalog = p.catalog
  BY <1>1 DEF Alike
<1>4. ASSUME r.ready, r.catalog, NEW m \in PublicMarkets(r) PROVE Executable(r, m)
  <2>1. CASE r.ready = p.ready
    BY <1>2, <1>3, <1>4, <2>1 DEF Sound, Offered
  <2>2. CASE r.gaps = {} /\ TicksConsistent(p) /\ BooksTwoSided(p)
    <3>1. TicksConsistent(r) /\ BooksTwoSided(r)
      BY <1>1, <1>2, <2>2 DEF Prunes, SameFacts, TicksConsistent, BooksTwoSided
    <3>2. QED BY <1>1, <1>4, <2>2, <3>1, ReadyOffers
  <2>3. QED BY <1>1, <1>4, <2>1, <2>2 DEF Prunes
<1>5. QED BY <1>1, <1>4 DEF Sound, Offered

LEMMA StartedSteady ==
  ASSUME NEW p, Steady(p), NEW m \in Markets \cup {None}, NEW s, s = Started(p, m)
  PROVE  Steady(s)
<1> p \in Projections
  BY DEF Steady
<1>1. /\ s \in Projections
      /\ s.catalog = p.catalog /\ s.markets = p.markets
      /\ s.relation = p.relation /\ s.monitoring = p.monitoring
      /\ s.books = p.books
      /\ s.quarantined = p.quarantined /\ s.recovery = p.recovery /\ s.gaps = p.gaps
      /\ \A k \in Markets :
           \/ s.health[k] = p.health[k]
           \/ p.health[k] = None /\ s.health[k] = "ready"
  BY StartedFacts
<1>2. Scoped(s) /\ Uncrossed(s) /\ Related(s)
  BY <1>1 DEF Steady, Scoped, Uncrossed, Related, Configured, Active
<1>3. Isolated(s)
  <2>1. \A t \in s.quarantined : MarketOf[t] \in Markets
    BY <1>1, ScopeAssumption DEF Projections
  <2>2. \A k \in Markets : Public(s, k) => Public(p, k)
    BY <1>1 DEF Public
  <2>3. \A k \in Markets : s.health[k] = "quarantined" => p.health[k] = "quarantined"
    BY <1>1
  <2>4. QED BY <1>1, <2>1, <2>2, <2>3 DEF Steady, Isolated
<1>4. QED BY <1>1, <1>2, <1>3 DEF Steady

LEMMA StartedAlike ==
  ASSUME NEW p \in Projections, NEW q \in Projections, Alike(p, q), NEW m \in Markets \cup {None}
  PROVE  Alike(Started(p, m), Started(q, m))
<1>1. Executable(q, m) = Executable(p, m) /\ q.health = p.health /\ q.cursor = p.cursor
  BY LikePredicates DEF Alike
<1> PICK r : r = Started(p, m)
  OBVIOUS
<1> PICK s : s = Started(q, m)
  OBVIOUS
<1>2. s.health = r.health
  BY <1>1 DEF Started, Projections
<1>3. /\ r.cursor = p.cursor + 1 /\ r.catalog = p.catalog /\ r.markets = p.markets
      /\ r.fact = p.fact /\ r.relation = p.relation /\ r.monitoring = p.monitoring
      /\ r.books = p.books /\ r.sequence = p.sequence
      /\ r.quarantined = p.quarantined /\ r.recovery = p.recovery /\ r.gaps = p.gaps
  BY StartedFacts
<1>4. /\ s.cursor = q.cursor + 1 /\ s.catalog = q.catalog /\ s.markets = q.markets
      /\ s.fact = q.fact /\ s.relation = q.relation /\ s.monitoring = q.monitoring
      /\ s.books = q.books /\ s.sequence = q.sequence
      /\ s.quarantined = q.quarantined /\ s.recovery = q.recovery /\ s.gaps = q.gaps
  BY StartedFacts
<1>5. QED BY <1>2, <1>3, <1>4 DEF Alike

(* A gap is added.                                                         *)
Gapped(p, g) == [p EXCEPT !.gaps = @ \cup {g}]

LEMMA GappedFacts ==
  ASSUME NEW p, Steady(p), NEW g \in Gaps, NEW r, r = Gapped(p, g)
  PROVE  /\ Steady(r) /\ SameFacts(p, r) /\ r.fact = p.fact /\ r.health = p.health
         /\ r.sequence = p.sequence /\ r.quarantined = p.quarantined
         /\ r.recovery = p.recovery /\ r.gaps = p.gaps \cup {g}
<1> p \in Projections
  BY DEF Steady
<1> PICK G : G = p.gaps \cup {g}
  OBVIOUS
<1>1. r = [p EXCEPT !.gaps = G] /\ G \in SUBSET Gaps
  BY DEF Gapped, Projections
<1>2. r \in Projections
  BY ONLY p \in Projections, <1>1 DEF Projections
<1>3. /\ SameFacts(p, r) /\ r.fact = p.fact /\ r.health = p.health
      /\ r.sequence = p.sequence /\ r.quarantined = p.quarantined
      /\ r.recovery = p.recovery /\ r.gaps = G
  BY <1>1 DEF Projections, SameFacts
<1>4. Scoped(r)
  BY <1>3, ScopedFacts DEF Steady
<1>5. Uncrossed(r)
  BY <1>3, UncrossedFacts DEF Steady, SameFacts
<1>6. Related(r) /\ Isolated(r)
  BY <1>3 DEF Steady, Related, Isolated, Public, SameFacts
<1>7. QED BY <1>2, <1>3, <1>4, <1>5, <1>6 DEF Steady

LEMMA GappedAlike ==
  ASSUME NEW p, Steady(p), NEW q, Steady(q), Alike(p, q), NEW g \in Gaps
  PROVE  Alike(Gapped(p, g), Gapped(q, g))
<1> PICK r : r = Gapped(p, g)
  OBVIOUS
<1> PICK s : s = Gapped(q, g)
  OBVIOUS
<1>1. /\ SameFacts(p, r) /\ r.fact = p.fact /\ r.health = p.health
      /\ r.sequence = p.sequence /\ r.quarantined = p.quarantined
      /\ r.recovery = p.recovery /\ r.gaps = p.gaps \cup {g}
  BY GappedFacts
<1>2. /\ SameFacts(q, s) /\ s.fact = q.fact /\ s.health = q.health
      /\ s.sequence = q.sequence /\ s.quarantined = q.quarantined
      /\ s.recovery = q.recovery /\ s.gaps = q.gaps \cup {g}
  BY GappedFacts
<1>3. QED BY <1>1, <1>2 DEF Alike, SameFacts

(* What the effect x of event f may change of a projection.                *)
Effected(p, f, x) ==
  /\ x.p.cursor = p.cursor
  /\ \A m \in Markets :
       /\ x.p.recovery[m] \subseteq p.recovery[m]
       /\ x.p.health[m] = "ready" => p.health[m] = "ready"
       /\ x.p.health[m] = "quarantined" => p.health[m] = "quarantined"
  /\ f.kind \in TokenKinds =>
       /\ x.p.health = p.health
       /\ \A t \in Tokens \ {f.token} : x.p.books[t] = p.books[t]
       /\ ~ x.applied => x.p.books = p.books
       /\ x.applied /\ f.kind # "book" => p.books[f.token] # NoBook
       /\ x.applied /\ f.kind \in {"delta", "atomic"} /\ Completed(p, f) =>
            SameSides(x.p.books[f.token], ApplyLevels(p.books[f.token], f.changes))
       /\ x.applied /\ f.kind \notin {"book", "delta", "atomic"} =>
            SameSides(x.p.books[f.token], p.books[f.token])
  /\ f.kind \notin TokenKinds => \A t \in Tokens : x.p.books[t] \in {p.books[t], NoBook}

(* Two effects that are judged alike.                                      *)
Twins(x, y) == Alike(x.p, y.p) /\ y.applied = x.applied /\ y.why = x.why

Proper(m, f, p, q, x, y) ==
  Effective(m, f, x) /\ Effective(m, f, y) /\ Twins(x, y) /\ Effected(p, f, x)

LEMMA GapProper ==
  ASSUME NEW m, NEW f, Owns(m, f), NEW p, Steady(p), NEW q, Steady(q), Alike(p, q),
         m # None => p.markets[m] # "absent", NEW g \in Gaps, NEW w \in Faults,
         NEW a \in BOOLEAN, a => f.kind \notin TokenKinds,
         NEW x, x = [p |-> Gapped(p, g), applied |-> a, why |-> w],
         NEW y, y = [p |-> Gapped(q, g), applied |-> a, why |-> w]
  PROVE  Proper(m, f, p, q, x, y)
<1>1. /\ x.p = Gapped(p, g) /\ x.applied = a /\ x.why = w
      /\ y.p = Gapped(q, g) /\ y.applied = a /\ y.why = w
  OBVIOUS
<1>2. /\ Steady(x.p) /\ SameFacts(p, x.p) /\ x.p.health = p.health
      /\ x.p.recovery = p.recovery
  BY <1>1, GappedFacts
<1>3. Steady(y.p) /\ SameFacts(q, y.p)
  BY <1>1, GappedFacts
<1>4. Alike(x.p, y.p)
  BY <1>1, GappedAlike
<1>5. Effective(m, f, x) /\ Effective(m, f, y)
  BY <1>1, <1>2, <1>3 DEF Effective, SameFacts, Alike
<1>6. Effected(p, f, x)
  BY <1>1, <1>2 DEF Effected, SameFacts
<1>7. QED BY <1>1, <1>4, <1>5, <1>6 DEF Proper, Twins

LEMMA RejectProper ==
  ASSUME NEW m, NEW f, Owns(m, f), NEW p, Steady(p), NEW q, Steady(q), Alike(p, q),
         m # None => p.markets[m] # "absent", NEW g \in Gaps, NEW w \in Faults,
         NEW x, x = Reject(p, g, w), NEW y, y = Reject(q, g, w)
  PROVE  Proper(m, f, p, q, x, y)
<1>1. /\ x = [p |-> Gapped(p, g), applied |-> FALSE, why |-> w]
      /\ y = [p |-> Gapped(q, g), applied |-> FALSE, why |-> w]
  BY DEF Reject, Gapped
<1>2. QED BY <1>1, GapProper

LEMMA RebookProper ==
  ASSUME NEW m, NEW f, Owns(m, f), f.kind \in TokenKinds,
         NEW p, Steady(p), NEW q, Steady(q), Alike(p, q),
         m # None => p.markets[m] # "absent",
         NEW b \in Books, NEW d, Fits(p, f, b, d),
         NEW x, x = Accept(Put(p, f.token, b, d)), NEW y, y = Accept(Put(q, f.token, b, d))
  PROVE  Proper(m, f, p, q, x, y)
<1> PICK t : t = f.token
  OBVIOUS
<1>1. t \in Tokens
  BY EventTypes DEF Owns
<1>2. p \in Projections /\ q \in Projections
  BY DEF Steady
<1>3. /\ x.p = Put(p, t, b, d) /\ x.applied = TRUE /\ x.why = None
      /\ y.p = Put(q, t, b, d) /\ y.applied = TRUE /\ y.why = None
  BY DEF Accept
<1>4. d \in {{}, {t}} /\ (d = {} => p.books[t] # NoBook)
      /\ (d = {t} => b # NoBook /\ (p.catalog => t \in Configured(p)))
  BY DEF Fits
<1> DEFINE Shape(o, r) ==
             /\ r \in Projections
             /\ r.cursor = o.cursor /\ r.catalog = o.catalog /\ r.markets = o.markets
             /\ r.fact = o.fact /\ r.relation = o.relation /\ r.monitoring = o.monitoring
             /\ r.health = o.health /\ r.sequence = o.sequence
             /\ r.quarantined = o.quarantined /\ r.recovery = o.recovery
             /\ r.books[t] = b /\ r.gaps = o.gaps \ d
             /\ \A u \in Tokens \ {t} : r.books[u] = o.books[u]
             /\ r.books = [o.books EXCEPT ![t] = b]
<1>5. Shape(p, x.p)
  BY <1>1, <1>2, <1>3, PutFacts
<1>6. Shape(q, y.p)
  BY <1>1, <1>2, <1>3, PutFacts
<1>7. ASSUME NEW o, NEW r, Steady(o), Shape(o, r), o.books = p.books, o.catalog = p.catalog,
             o.markets = p.markets
      PROVE  Steady(r)
  <2>1. t \in Configured(o) \/ ~ o.catalog
    BY <1>1, <1>4, <1>7 DEF Steady, Scoped, Configured, Active
  <2>2. Scoped(r)
    BY <1>7, <2>1 DEF Steady, Scoped, Configured, Active
  <2>3. Uncrossed(r)
    BY <1>7 DEF Steady, Uncrossed, Fits
  <2>4. Related(r)
    BY <1>1, <1>4, <1>7, NamesAssumption DEF Steady, Related
  <2>5. Isolated(r)
    BY <1>7 DEF Steady, Isolated, Public
  <2>6. QED BY <1>7, <2>2, <2>3, <2>4, <2>5 DEF Steady
<1>8. Steady(x.p)
  BY <1>5, <1>7
<1>9. Steady(y.p)
  BY <1>6, <1>7 DEF Alike
<1>10. Alike(x.p, y.p)
  <2>1. ASSUME NEW g \in (x.p.gaps \cup y.p.gaps) \ (x.p.gaps \cap y.p.gaps)
        PROVE  g \in Tokens /\ x.p.books[g] = NoBook
    <3>1. g \in (p.gaps \cup q.gaps) \ (p.gaps \cap q.gaps) /\ g \notin d
      BY <1>5, <1>6
    <3>2. g \in Tokens /\ p.books[g] = NoBook
      BY <3>1 DEF Alike
    <3>3. g # t
      BY <1>4, <3>1, <3>2
    <3>4. QED BY <1>5, <3>2, <3>3
  <2>2. QED BY <1>5, <1>6, <2>1 DEF Alike
<1>11. Effective(m, f, x) /\ Effective(m, f, y)
  <2>1. x.p.markets = p.markets /\ y.p.markets = p.markets
    BY <1>5, <1>6 DEF Alike
  <2> HIDE DEF Shape
  <2>2. QED BY <2>1, <1>3, <1>8, <1>9 DEF Effective
<1>12. Effected(p, f, x)
  BY <1>1, <1>3, <1>5 DEF Effected, Fits
<1>13. QED BY <1>3, <1>10, <1>11, <1>12 DEF Proper, Twins

LEMMA TokenProper ==
  ASSUME NEW m, NEW f, Owns(m, f), f.kind \in TokenKinds,
         NEW p, Steady(p), NEW q, Steady(q), Alike(p, q),
         m # None => p.markets[m] # "absent",
         NEW x, x = Effect(p, f), NEW y, y = Effect(q, f)
  PROVE  Proper(m, f, p, q, x, y)
<1>1. p \in Projections /\ q \in Projections /\ Uncrossed(p) /\ f \in EventKind
  BY DEF Steady, Owns
<1>2. \/ Refuses(p, q, x, y, f.token)
      \/ \E b \in Books, d \in {{}, {f.token}} :
           Rebooks(p, q, x, y, f.token, b, d) /\ Fits(p, f, b, d)
  BY <1>1, TokenEffect
<1>3. CASE Refuses(p, q, x, y, f.token)
  <2>1. f.token \in Gaps
    BY <1>1, EventTypes DEF Gaps
  <2>2. PICK w \in Faults : x = Reject(p, f.token, w) /\ y = Reject(q, f.token, w)
    BY <1>3 DEF Refuses
  <2>3. QED BY <2>1, <2>2, RejectProper
<1>4. ASSUME NEW b \in Books, NEW d, Rebooks(p, q, x, y, f.token, b, d), Fits(p, f, b, d)
      PROVE  Proper(m, f, p, q, x, y)
  BY <1>4, RebookProper DEF Rebooks
<1>5. QED BY <1>2, <1>3, <1>4

(* A resolved market.                                                      *)
Resolution(p, m) ==
  [p EXCEPT !.markets[m] = "resolved",
            !.books = [t \in Tokens |-> IF MarketOf[t] = m THEN NoBook ELSE @[t]],
            !.relation = @ /\ m \notin NegRisk,
            !.gaps = (@ \ TokensOf(m)) \cup {CatalogGap}
                       \cup (IF m \in NegRisk THEN {GroupGap} ELSE {})]
Resolves(p, m, r) ==
  /\ r \in Projections
  /\ r.cursor = p.cursor /\ r.catalog = p.catalog
  /\ r.fact = p.fact /\ r.monitoring = p.monitoring
  /\ r.health = p.health /\ r.sequence = p.sequence
  /\ r.quarantined = p.quarantined /\ r.recovery = p.recovery
  /\ r.markets = [p.markets EXCEPT ![m] = "resolved"]
  /\ r.books = [t \in Tokens |-> IF MarketOf[t] = m THEN NoBook ELSE p.books[t]]
  /\ r.relation = (p.relation /\ m \notin NegRisk)
  /\ r.gaps = (p.gaps \ TokensOf(m)) \cup {CatalogGap}
                \cup (IF m \in NegRisk THEN {GroupGap} ELSE {})

LEMMA NoBookFacts == NoBook \in Books /\ ~ Crossed(NoBook)
BY DEF NoBook, Books, Crossed

LEMMA ResolutionFacts ==
  ASSUME NEW p \in Projections, NEW m \in Markets, NEW r, r = Resolution(p, m)
  PROVE  Resolves(p, m, r)
<1> PICK K : K = [p.markets EXCEPT ![m] = "resolved"]
  OBVIOUS
<1> PICK B : B = [t \in Tokens |-> IF MarketOf[t] = m THEN NoBook ELSE p.books[t]]
  OBVIOUS
<1> PICK R : R = (p.relation /\ m \notin NegRisk)
  OBVIOUS
<1> PICK G : G = (p.gaps \ TokensOf(m)) \cup {CatalogGap}
                   \cup (IF m \in NegRisk THEN {GroupGap} ELSE {})
  OBVIOUS
<1>1. K \in [Markets -> {"absent", "active", "resolved"}]
  BY DEF Projections
<1>2. B \in [Tokens -> Books]
  BY NoBookFacts DEF Projections
<1>3. R \in BOOLEAN
  OBVIOUS
<1>4. G \in SUBSET Gaps
  BY DEF Projections, Gaps
<1>5. r = [p EXCEPT !.markets = K, !.books = B, !.relation = R, !.gaps = G]
  BY DEF Resolution
<1>6. r \in Projections
  BY ONLY p \in Projections, <1>1, <1>2, <1>3, <1>4, <1>5 DEF Projections
<1>7. /\ r.cursor = p.cursor /\ r.catalog = p.catalog
      /\ r.fact = p.fact /\ r.monitoring = p.monitoring
      /\ r.health = p.health /\ r.sequence = p.sequence
      /\ r.quarantined = p.quarantined /\ r.recovery = p.recovery
      /\ r.markets = K /\ r.books = B /\ r.relation = R /\ r.gaps = G
  BY ONLY p \in Projections, <1>5 DEF Projections
<1>8. QED BY <1>6, <1>7 DEF Resolves

LEMMA ResolutionSteady ==
  ASSUME NEW p, Steady(p), NEW m \in Markets, p.markets[m] # "absent",
         NEW r, r = Resolution(p, m)
  PROVE  Steady(r) /\ Resolves(p, m, r)
<1> p \in Projections
  BY DEF Steady
<1>1. Resolves(p, m, r)
  BY ResolutionFacts
<1>2. r.catalog = p.catalog /\ p.catalog
  BY <1>1 DEF Resolves, Steady, Scoped
<1>3. \A k \in Markets \ {m} : r.markets[k] = p.markets[k]
  BY <1>1 DEF Resolves, Projections
<1>4. \A t \in Tokens : r.books[t] = IF MarketOf[t] = m THEN NoBook ELSE p.books[t]
  BY <1>1 DEF Resolves
<1>5. Scoped(r)
  <2>1. ASSUME NEW t \in Tokens \ Configured(r), MarketOf[t] # m PROVE t \notin Configured(p)
    BY <1>3, <2>1, ScopeAssumption DEF Configured, Active
  <2>2. QED BY <1>2, <1>4, <2>1 DEF Steady, Scoped
<1>6. Uncrossed(r)
  BY <1>4, NoBookFacts DEF Steady, Uncrossed
<1>7. Related(r)
  <2>1. r.relation = (p.relation /\ m \notin NegRisk)
    BY <1>1 DEF Resolves
  <2>2. r.gaps = (p.gaps \ TokensOf(m)) \cup {CatalogGap}
                   \cup (IF m \in NegRisk THEN {GroupGap} ELSE {})
    BY <1>1 DEF Resolves
  <2>3. GroupGap \notin TokensOf(m)
    BY NamesAssumption DEF TokensOf
  <2>4. CASE m \in NegRisk
    BY <2>2, <2>4 DEF Related
  <2>5. CASE m \notin NegRisk
    BY <2>1, <2>2, <2>3, <2>5 DEF Related, Steady
  <2>6. QED BY <2>4, <2>5
<1>8. Isolated(r)
  BY <1>1 DEF Steady, Resolves, Isolated, Public
<1>9. QED BY <1>1, <1>5, <1>6, <1>7, <1>8 DEF Steady, Resolves

LEMMA ResolutionAlike ==
  ASSUME NEW p, NEW q, Alike(p, q), NEW m \in Markets, NEW r, Resolves(p, m, r),
         NEW s, Resolves(q, m, s)
  PROVE  Alike(r, s)
<1>1. ASSUME NEW g \in (r.gaps \cup s.gaps) \ (r.gaps \cap s.gaps)
      PROVE  g \in Tokens /\ r.books[g] = NoBook
  <2>1. g \in (p.gaps \cup q.gaps) \ (p.gaps \cap q.gaps)
    BY DEF Resolves
  <2>2. g \in Tokens /\ p.books[g] = NoBook
    BY <2>1 DEF Alike
  <2>3. QED BY <2>2 DEF Resolves
<1>2. QED BY <1>1 DEF Resolves, Alike

LEMMA ResolvedProper ==
  ASSUME NEW m, NEW f, Owns(m, f), f.kind = "resolved",
         NEW p, Steady(p), NEW q, Steady(q), Alike(p, q),
         m # None => p.markets[m] # "absent",
         NEW x, x = OnResolved(p, f), NEW y, y = OnResolved(q, f)
  PROVE  Proper(m, f, p, q, x, y)
<1>1. f.market \in Markets
  BY EventTypes DEF Owns
<1>2. q.markets = p.markets
  BY DEF Alike
<1>3. CatalogGap \in Gaps
  BY DEF Gaps
<1>4. CASE p.markets[f.market] = "absent"
  <2>1. /\ x = Reject(p, CatalogGap, "catalog_refresh_required")
        /\ y = Reject(q, CatalogGap, "catalog_refresh_required")
    BY <1>2, <1>4 DEF OnResolved
  <2>2. "catalog_refresh_required" \in Faults
    BY DEF Faults
  <2>3. QED BY <1>3, <2>1, <2>2, RejectProper
<1>5. CASE p.markets[f.market] # "absent" /\ ~ f.valid
  <2>1. /\ x = Reject(p, CatalogGap, "market_resolution_source_mismatch")
        /\ y = Reject(q, CatalogGap, "market_resolution_source_mismatch")
    BY <1>2, <1>5 DEF OnResolved
  <2>2. "market_resolution_source_mismatch" \in Faults
    BY DEF Faults
  <2>3. QED BY <1>3, <2>1, <2>2, RejectProper
<1>6. CASE p.markets[f.market] # "absent" /\ f.valid
  <2>1. x = Accept(Resolution(p, f.market)) /\ y = Accept(Resolution(q, f.market))
    BY <1>2, <1>6 DEF OnResolved, Resolution
  <2>2. /\ x.p = Resolution(p, f.market) /\ x.applied = TRUE /\ x.why = None
        /\ y.p = Resolution(q, f.market) /\ y.applied = TRUE /\ y.why = None
    BY <2>1 DEF Accept
  <2>3. Steady(x.p) /\ Resolves(p, f.market, x.p)
    BY <1>1, <1>6, <2>2, ResolutionSteady
  <2>4. Steady(y.p) /\ Resolves(q, f.market, y.p)
    BY <1>1, <1>2, <1>6, <2>2, ResolutionSteady
  <2>5. Alike(x.p, y.p)
    BY <1>1, <2>3, <2>4, ResolutionAlike
  <2>6. m # None => m \in Markets
    BY DEF Owns
  <2>7. m # None => x.p.markets[m] # "absent" /\ y.p.markets[m] # "absent"
    BY <1>1, <1>2, <2>3, <2>4, <2>6 DEF Resolves, Steady, Projections
  <2>8. Effective(m, f, x) /\ Effective(m, f, y)
    BY <2>2, <2>3, <2>4, <2>7 DEF Effective
  <2>9. Effected(p, f, x)
    BY <2>3 DEF Effected, Resolves, TokenKinds
  <2>10. QED BY <2>2, <2>5, <2>8, <2>9 DEF Proper, Twins
<1>7. QED BY <1>4, <1>5, <1>6

(* A catalog, before it is pruned.                                         *)
Dropped(p, e) == {m \in Markets : p.markets[m] = "resolved"} \ e.active
Removed(p, e) == Active(p) \ e.active
Listed(p, e) ==
  [m \in Markets |-> IF m \in e.active THEN "active"
                     ELSE IF m \in Dropped(p, e) THEN "resolved" ELSE "absent"]
Monitored(p, e) == (p.monitoring \cup Removed(p, e)) \ (e.active \cup Dropped(p, e))
Outcomes(e) == {t \in Tokens : MarketOf[t] \in e.active}
Healths(p, e) ==
  [m \in Markets |->
     IF m \in Removed(p, e) THEN "unavailable"
     ELSE IF m \in e.active THEN IF p.health[m] = None THEN "recovering" ELSE p.health[m]
     ELSE IF m \in Monitored(p, e) THEN p.health[m] ELSE None]
Listing(p, e) ==
  [p EXCEPT !.catalog = TRUE, !.markets = Listed(p, e), !.fact = e.fact,
            !.relation = TRUE, !.monitoring = Monitored(p, e),
            !.books = [t \in Tokens |-> IF t \in Outcomes(e) THEN @[t] ELSE NoBook],
            !.quarantined = @ \cap Outcomes(e),
            !.recovery = [m \in Markets |-> IF Listed(p, e)[m] = "absent" THEN {} ELSE @[m]],
            !.health = Healths(p, e),
            !.sequence = [m \in Markets |-> IF Healths(p, e)[m] = None THEN 0 ELSE @[m]],
            !.gaps = @ \ {CatalogGap, GroupGap}]
Lists(p, e, r) ==
  /\ r \in Projections /\ r.cursor = p.cursor /\ r.catalog = TRUE /\ r.relation = TRUE
  /\ r.markets = Listed(p, e) /\ r.fact = e.fact /\ r.monitoring = Monitored(p, e)
  /\ r.books = [t \in Tokens |-> IF t \in Outcomes(e) THEN p.books[t] ELSE NoBook]
  /\ r.quarantined = p.quarantined \cap Outcomes(e)
  /\ r.recovery = [m \in Markets |-> IF Listed(p, e)[m] = "absent" THEN {} ELSE p.recovery[m]]
  /\ r.health = Healths(p, e)
  /\ r.sequence = [m \in Markets |-> IF Healths(p, e)[m] = None THEN 0 ELSE p.sequence[m]]
  /\ r.gaps = p.gaps \ {CatalogGap, GroupGap}

LEMMA ListingFacts ==
  ASSUME NEW p \in Projections, NEW e \in EventKind, e.kind = "catalog", NEW r, r = Listing(p, e)
  PROVE  Lists(p, e, r)
<1> PICK K : K = Listed(p, e)
  OBVIOUS
<1> PICK F : F = e.fact
  OBVIOUS
<1> PICK N : N = Monitored(p, e)
  OBVIOUS
<1> PICK B : B = [t \in Tokens |-> IF t \in Outcomes(e) THEN p.books[t] ELSE NoBook]
  OBVIOUS
<1> PICK Q : Q = p.quarantined \cap Outcomes(e)
  OBVIOUS
<1> PICK R : R = [m \in Markets |-> IF Listed(p, e)[m] = "absent" THEN {} ELSE p.recovery[m]]
  OBVIOUS
<1> PICK H : H = Healths(p, e)
  OBVIOUS
<1> PICK S : S = [m \in Markets |-> IF Healths(p, e)[m] = None THEN 0 ELSE p.sequence[m]]
  OBVIOUS
<1> PICK G : G = p.gaps \ {CatalogGap, GroupGap}
  OBVIOUS
<1>1. e.active \subseteq Markets /\ F \in [Markets -> Nat]
  BY EventTypes
<1>2. K \in [Markets -> {"absent", "active", "resolved"}]
  BY DEF Listed
<1>3. N \in SUBSET Markets
  BY DEF Monitored, Removed, Active, Projections
<1>4. B \in [Tokens -> Books]
  BY NoBookFacts DEF Projections
<1>5. Q \in SUBSET Tokens
  BY DEF Projections
<1>6. R \in [Markets -> SUBSET Tokens]
  BY DEF Projections
<1>7. H \in [Markets -> Statuses]
  BY DEF Healths, Projections, Statuses
<1>8. S \in [Markets -> Nat]
  BY DEF Projections
<1>9. G \in SUBSET Gaps
  BY DEF Projections
<1>10. r = [p EXCEPT !.catalog = TRUE, !.markets = K, !.fact = F, !.relation = TRUE,
                     !.monitoring = N, !.books = B, !.quarantined = Q, !.recovery = R,
                     !.health = H, !.sequence = S, !.gaps = G]
  BY DEF Listing
<1>11. r \in Projections
  BY ONLY p \in Projections, <1>1, <1>2, <1>3, <1>4, <1>5, <1>6, <1>7, <1>8, <1>9, <1>10
     DEF Projections
<1>12. /\ r.cursor = p.cursor /\ r.catalog = TRUE /\ r.relation = TRUE
       /\ r.markets = K /\ r.fact = F /\ r.monitoring = N /\ r.books = B
       /\ r.quarantined = Q /\ r.recovery = R /\ r.health = H /\ r.sequence = S
       /\ r.gaps = G
  BY ONLY p \in Projections, <1>10 DEF Projections
<1>13. QED BY <1>11, <1>12 DEF Lists

LEMMA ListingSteady ==
  ASSUME NEW p, Steady(p), NEW e \in EventKind, e.kind = "catalog", NEW r, r = Listing(p, e)
  PROVE  Steady(r) /\ Lists(p, e, r)
<1> p \in Projections
  BY DEF Steady
<1>1. Lists(p, e, r)
  BY ListingFacts
<1>2. e.active \subseteq Markets
  BY EventTypes
<1>3. Scoped(r)
  <2>1. \A m \in Markets : m \in e.active => r.markets[m] = "active"
    BY <1>1 DEF Lists, Listed
  <2>2. \A t \in Tokens : t \in Outcomes(e) => t \in Configured(r)
    BY <2>1, <1>2 DEF Configured, Active, Outcomes
  <2>3. QED BY <1>1, <2>2 DEF Lists, Scoped
<1>4. Uncrossed(r)
  BY <1>1, NoBookFacts DEF Lists, Steady, Uncrossed
<1>5. Related(r)
  BY <1>1 DEF Lists, Related
<1>6. \A m \in Markets : r.health[m] = Healths(p, e)[m] /\ r.recovery[m] \subseteq p.recovery[m]
  BY <1>1 DEF Lists
<1>7. Isolated(r)
  <2>1. ASSUME NEW t \in r.quarantined PROVE ~ Public(r, MarketOf[t])
    <3>1. t \in Tokens /\ MarketOf[t] \in Markets /\ t \in p.quarantined /\ MarketOf[t] \in e.active
      BY <1>1, ScopeAssumption DEF Lists, Projections, Outcomes
    <3>2. p.health[MarketOf[t]] \notin {None, "ready"}
      BY <3>1 DEF Steady, Isolated, Public
    <3>3. Healths(p, e)[MarketOf[t]] = p.health[MarketOf[t]]
      BY <3>1, <3>2 DEF Healths, Removed
    <3>4. QED BY <1>6, <3>1, <3>2, <3>3 DEF Public
  <2>2. \A m \in Markets : r.health[m] = "quarantined" => p.health[m] = "quarantined"
    BY <1>6 DEF Healths, None
  <2>3. QED BY <1>6, <2>1, <2>2 DEF Steady, Isolated
<1>8. QED BY <1>1, <1>3, <1>4, <1>5, <1>7 DEF Steady, Lists

LEMMA ListingAlike ==
  ASSUME NEW p, NEW q, Alike(p, q), NEW e, NEW r, Lists(p, e, r), NEW s, Lists(q, e, s)
  PROVE  Alike(r, s)
<1>1. /\ Listed(q, e) = Listed(p, e) /\ Monitored(q, e) = Monitored(p, e)
      /\ Removed(q, e) = Removed(p, e)
  BY DEF Alike, Listed, Dropped, Monitored, Removed, Active
<1>2. Healths(q, e) = Healths(p, e)
  BY <1>1 DEF Alike, Healths
<1>3. ASSUME NEW g \in (r.gaps \cup s.gaps) \ (r.gaps \cap s.gaps)
      PROVE  g \in Tokens /\ r.books[g] = NoBook
  <2>1. g \in (p.gaps \cup q.gaps) \ (p.gaps \cap q.gaps)
    BY DEF Lists
  <2>2. g \in Tokens /\ p.books[g] = NoBook
    BY <2>1 DEF Alike
  <2>3. QED BY <2>2 DEF Lists
<1>4. /\ s.cursor = r.cursor /\ s.catalog = r.catalog /\ s.relation = r.relation
      /\ s.fact = r.fact /\ s.quarantined = r.quarantined
  BY DEF Lists, Alike
<1>5. s.markets = r.markets /\ s.monitoring = r.monitoring /\ s.health = r.health
  BY <1>1, <1>2 DEF Lists
<1>6. s.books = r.books
  BY DEF Lists, Alike
<1>7. s.recovery = r.recovery
  BY <1>1 DEF Lists, Alike
<1>8. s.sequence = r.sequence
  BY <1>2 DEF Lists, Alike
<1>9. QED BY <1>3, <1>4, <1>5, <1>6, <1>7, <1>8 DEF Alike

LEMMA CatalogProper ==
  ASSUME NEW m, NEW f, Owns(m, f), f.kind = "catalog", m = None,
         NEW p, Steady(p), NEW q, Steady(q), Alike(p, q),
         NEW x, x = OnCatalog(p, f), NEW y, y = OnCatalog(q, f)
  PROVE  Proper(m, f, p, q, x, y)
<1>1. CASE ~ f.valid
  <2>1. /\ x = Reject(p, CatalogGap, "invalid_catalog_snapshot")
        /\ y = Reject(q, CatalogGap, "invalid_catalog_snapshot")
    BY <1>1 DEF OnCatalog
  <2>2. "invalid_catalog_snapshot" \in Faults /\ CatalogGap \in Gaps
    BY DEF Faults, Gaps
  <2>3. QED BY <2>1, <2>2, RejectProper
<1>2. CASE f.valid
  <2>1. x = Accept(Prune(Listing(p, f))) /\ y = Accept(Prune(Listing(q, f)))
    BY <1>2 DEF OnCatalog, Listing, Listed, Dropped, Removed, Monitored, Outcomes, Healths
  <2> PICK r : r = Listing(p, f)
    OBVIOUS
  <2> PICK s : s = Listing(q, f)
    OBVIOUS
  <2>2. /\ x.p = Prune(r) /\ x.applied = TRUE /\ x.why = None
        /\ y.p = Prune(s) /\ y.applied = TRUE /\ y.why = None
    BY <2>1 DEF Accept
  <2>3. f \in EventKind
    BY DEF Owns
  <2>4. Steady(r) /\ Lists(p, f, r) /\ Steady(s) /\ Lists(q, f, s)
    BY <2>3, ListingSteady
  <2>5. Steady(x.p) /\ Prunes(r, x.p) /\ Alike(r, x.p)
    BY <2>2, <2>4, PruneSteady
  <2>6. Steady(y.p) /\ Alike(s, y.p)
    BY <2>2, <2>4, PruneSteady
  <2>7. Alike(x.p, y.p)
    <3>1. Alike(r, s)
      BY <2>4, ListingAlike
    <3>2. Alike(r, y.p)
      BY <2>6, <3>1, AlikeTwice
    <3>3. Alike(x.p, r)
      BY <2>5, AlikeBack
    <3>4. QED BY <3>2, <3>3, AlikeTwice
  <2>8. Effective(m, f, x) /\ Effective(m, f, y)
    BY <2>2, <2>5, <2>6 DEF Effective
  <2>9. Effected(p, f, x)
    <3>1. /\ x.p.cursor = p.cursor /\ x.p.recovery = r.recovery
          /\ x.p.health = Healths(p, f) /\ x.p.books = r.books
      BY <2>4, <2>5 DEF Lists, Prunes, SameFacts
    <3>2. \A k \in Markets : r.recovery[k] \subseteq p.recovery[k]
      BY <2>4 DEF Lists
    <3>3. \A t \in Tokens : r.books[t] \in {p.books[t], NoBook}
      BY <2>4 DEF Lists
    <3>4. \A k \in Markets : Healths(p, f)[k] \in {"unavailable", "recovering", None, p.health[k]}
      BY DEF Healths
    <3>5. QED BY <3>1, <3>2, <3>3, <3>4 DEF Effected, TokenKinds, None
  <2>10. QED BY <2>2, <2>7, <2>8, <2>9 DEF Proper, Twins
<1>3. QED BY <1>1, <1>2

LEMMA EffectProper ==
  ASSUME NEW m, NEW f, Owns(m, f), m # None => f.kind \in TokenKinds \cup {"resolved"},
         NEW p, Steady(p), NEW q, Steady(q), Alike(p, q),
         m # None => p.markets[m] # "absent",
         NEW x, x = Effect(p, f), NEW y, y = Effect(q, f)
  PROVE  Proper(m, f, p, q, x, y)
<1>1. f.kind \in TokenKinds \cup {"catalog", "new", "resolved"}
  BY EventTypes DEF Owns
<1>2. CASE f.kind \in TokenKinds
  BY <1>2, TokenProper
<1>3. CASE f.kind \notin TokenKinds
  <2>1. ~ Superseded(p, f) /\ ~ Superseded(q, f)
    BY <1>3 DEF Superseded, TokenKinds
  <2>2. CASE f.delayed
    <3>1. /\ x = Reject(p, ConditionGap, "source_data_delayed")
          /\ y = Reject(q, ConditionGap, "source_data_delayed")
      BY <1>3, <2>1, <2>2 DEF Effect
    <3>2. "source_data_delayed" \in Faults /\ ConditionGap \in Gaps
      BY DEF Faults, Gaps
    <3>3. QED BY <3>1, <3>2, RejectProper
  <2>3. CASE ~ f.delayed /\ f.kind = "catalog"
    <3>1. x = OnCatalog(p, f) /\ y = OnCatalog(q, f)
      BY <2>1, <2>3 DEF Effect
    <3>2. m = None
      BY <1>3, <2>3
    <3>3. QED BY <2>3, <3>1, <3>2, CatalogProper
  <2>4. CASE ~ f.delayed /\ f.kind = "resolved"
    <3>1. x = OnResolved(p, f) /\ y = OnResolved(q, f)
      BY <2>1, <2>4 DEF Effect
    <3>2. QED BY <2>4, <3>1, ResolvedProper
  <2>5. CASE ~ f.delayed /\ f.kind = "new"
    <3>1. x = OnNewMarket(p) /\ y = OnNewMarket(q)
      BY <2>1, <2>5 DEF Effect
    <3>2. /\ x = [p |-> Gapped(p, CatalogGap), applied |-> TRUE, why |-> "catalog_refresh_required"]
          /\ y = [p |-> Gapped(q, CatalogGap), applied |-> TRUE, why |-> "catalog_refresh_required"]
      BY <3>1 DEF OnNewMarket, Gapped
    <3>3. "catalog_refresh_required" \in Faults /\ CatalogGap \in Gaps
      BY DEF Faults, Gaps
    <3>4. QED BY <1>3, <3>2, <3>3, GapProper
  <2>6. QED BY <1>1, <1>3, <2>2, <2>3, <2>4, <2>5
<1>4. QED BY <1>2, <1>3
-----------------------------------------------------------------------------
(* A whole event *)

(* Event f, applied or not, takes projection p to projection r.            *)
KeepsRecovery(p, f, a, r) ==
  \A k \in Markets :
    r.recovery[k] \subseteq p.recovery[k] \cup (IF f.kind = "book" /\ a THEN {f.token} ELSE {})
KeepsBooks(p, f, a, r) ==
  /\ f.kind \in TokenKinds =>
       /\ f.token \in Tokens
       /\ \A t \in Tokens \ {f.token} : r.books[t] = p.books[t]
       /\ ~ a => r.books = p.books
       /\ a /\ f.kind # "book" => p.books[f.token] # NoBook
       /\ a /\ f.kind \in {"delta", "atomic"} =>
            SameSides(r.books[f.token], ApplyLevels(p.books[f.token], f.changes))
       /\ a /\ f.kind \notin {"book", "delta", "atomic"} =>
            SameSides(r.books[f.token], p.books[f.token])
  /\ f.kind \notin TokenKinds => \A t \in Tokens : r.books[t] \in {p.books[t], NoBook}
Returned(p, f, a, r) ==
  \A k \in Markets : p.health[k] \notin {None, "ready"} /\ r.health[k] = "ready" =>
    /\ f.kind = "book" /\ a /\ TokensOf(k) \subseteq p.recovery[k] \cup {f.token}
    /\ r.markets[k] = "active" /\ \A t \in TokensOf(k) : r.books[t] # NoBook
Isolates(p, f, r) ==
  \A k \in Markets : r.health[k] = "quarantined" /\ p.health[k] # "quarantined" =>
    /\ f.kind \in LocalKinds /\ k = MarketOf[f.token]
    /\ \A l \in Markets \ {k} : r.health[l] = p.health[l]
Stepped(p, f, a, r) ==
  /\ Sound(r) /\ r.cursor = p.cursor + 1
  /\ KeepsRecovery(p, f, a, r) /\ KeepsBooks(p, f, a, r)
  /\ Returned(p, f, a, r) /\ Isolates(p, f, r)

(* What the start of an event, its effect and its judgment make of it.     *)
LEMMA StagesStep ==
  ASSUME NEW p \in Projections, NEW m, NEW f, Owns(m, f), Completed(p, f),
         m # None => f.kind \in TokenKinds \cup {"resolved"},
         NEW s, s = Started(p, m), NEW x, Effected(s, f, x),
         NEW r, Sound(r), Moves(x.p, r, m, f, x.applied)
  PROVE  Stepped(p, f, x.applied, r)
<1> PICK a : a = x.applied
  OBVIOUS
<1> PICK y : y = x.p
  OBVIOUS
<1>1. /\ m \in Markets \cup {None} /\ f \in EventKind
      /\ m # None /\ f.kind \in TokenKinds => m = MarketOf[f.token] /\ f.token \in Tokens
      /\ f.kind \in TokenKinds => f.token \in Tokens
  BY EventTypes DEF Owns
<1>2. /\ s.cursor = p.cursor + 1 /\ s.books = p.books /\ s.recovery = p.recovery
      /\ \A k \in Markets :
           \/ s.health[k] = p.health[k]
           \/ k = m /\ p.health[k] = None /\ s.health[k] = "ready"
      /\ \A k \in Markets \ {m} : s.health[k] = p.health[k]
  BY <1>1, StartedFacts
<1>3. /\ y.cursor = s.cursor
      /\ \A k \in Markets :
           /\ y.recovery[k] \subseteq s.recovery[k]
           /\ y.health[k] = "ready" => s.health[k] = "ready"
           /\ y.health[k] = "quarantined" => s.health[k] = "quarantined"
      /\ f.kind \in TokenKinds => y.health = s.health
  BY DEF Effected
<1>4. /\ r.cursor = y.cursor /\ r.books = y.books /\ r.markets = y.markets
      /\ \A k \in Markets \ {m} : r.health[k] = y.health[k] /\ r.recovery[k] = y.recovery[k]
  BY DEF Moves, SameFacts, SameElsewhere
<1>5. m \in Markets =>
        /\ r.recovery[m] \subseteq y.recovery[m] \cup (IF f.kind = "book" /\ a THEN {f.token} ELSE {})
        /\ r.health[m] = "ready" /\ y.health[m] # "ready" =>
             /\ f.kind = "book" /\ a /\ TokensOf(m) \subseteq y.recovery[m] \cup {f.token}
             /\ r.markets[m] = "active" /\ \A t \in TokensOf(m) : r.books[t] # NoBook
        /\ r.health[m] = "quarantined" /\ y.health[m] # "quarantined" => f.kind \in LocalKinds
  <2>1. Moves(y, r, m, f, a)
    OBVIOUS
  <2>2. QED BY <2>1 DEF Moves
<1>6. KeepsRecovery(p, f, a, r)
  <2>1. ASSUME NEW k \in Markets
        PROVE  r.recovery[k] \subseteq
                 p.recovery[k] \cup (IF f.kind = "book" /\ a THEN {f.token} ELSE {})
    <3>1. CASE k = m
      BY <1>2, <1>3, <1>5, <3>1
    <3>2. CASE k # m
      BY <1>2, <1>3, <1>4, <3>2
    <3>3. QED BY <3>1, <3>2
  <2>2. QED BY <2>1 DEF KeepsRecovery
<1>7. KeepsBooks(p, f, a, r)
  <2>1. Completed(s, f)
    BY <1>2 DEF Completed, Superseded
  <2>2. /\ f.kind \in TokenKinds =>
             /\ \A t \in Tokens \ {f.token} : y.books[t] = s.books[t]
             /\ ~ a => y.books = s.books
             /\ a /\ f.kind # "book" => s.books[f.token] # NoBook
             /\ a /\ f.kind \in {"delta", "atomic"} =>
                  SameSides(y.books[f.token], ApplyLevels(s.books[f.token], f.changes))
             /\ a /\ f.kind \notin {"book", "delta", "atomic"} =>
                  SameSides(y.books[f.token], s.books[f.token])
        /\ f.kind \notin TokenKinds => \A t \in Tokens : y.books[t] \in {s.books[t], NoBook}
    BY <2>1 DEF Effected
  <2>3. QED BY <1>1, <1>2, <1>4, <2>2 DEF KeepsBooks
<1>8. Returned(p, f, a, r)
  <2> SUFFICES ASSUME NEW k \in Markets, p.health[k] \notin {None, "ready"}, r.health[k] = "ready"
               PROVE  /\ f.kind = "book" /\ a /\ TokensOf(k) \subseteq p.recovery[k] \cup {f.token}
                      /\ r.markets[k] = "active" /\ \A t \in TokensOf(k) : r.books[t] # NoBook
    BY DEF Returned
  <2>1. s.health[k] # "ready"
    BY <1>2
  <2>2. y.health[k] # "ready"
    BY <1>3, <2>1
  <2>3. k = m
    BY <1>4, <2>2
  <2>4. QED BY <1>2, <1>3, <1>5, <2>2, <2>3
<1>9. Isolates(p, f, r)
  <2> SUFFICES ASSUME NEW k \in Markets, r.health[k] = "quarantined", p.health[k] # "quarantined"
               PROVE  /\ f.kind \in LocalKinds /\ k = MarketOf[f.token]
                      /\ \A l \in Markets \ {k} : r.health[l] = p.health[l]
    BY DEF Isolates
  <2>1. s.health[k] # "quarantined"
    BY <1>2
  <2>2. y.health[k] # "quarantined"
    BY <1>3, <2>1
  <2>3. k = m
    BY <1>4, <2>2
  <2>4. f.kind \in LocalKinds /\ f.kind \in TokenKinds
    BY <1>5, <2>2, <2>3 DEF LocalKinds
  <2>5. m # None
    BY <2>3, NamesAssumption
  <2>6. QED BY <1>1, <1>2, <1>3, <1>4, <2>3, <2>4, <2>5
<1>10. r.cursor = p.cursor + 1
  BY <1>2, <1>3, <1>4
<1>11. QED BY <1>6, <1>7, <1>8, <1>9, <1>10 DEF Stepped

LEMMA JudgeSteps ==
  ASSUME NEW p, Sound(p), NEW q, Sound(q), Alike(p, q), NEW f \in EventKind, Completed(p, f),
         NEW j, j = Judge(p, f), NEW k, k = Judge(q, f)
  PROVE  /\ Stepped(p, f, j.outcome.applied, j.p)
         /\ Sound(k.p) /\ Alike(j.p, k.p) /\ j.outcome = k.outcome
<1> PICK m : m = EventMarket(p, f)
  OBVIOUS
<1> PICK s : s = Started(p, m)
  OBVIOUS
<1> PICK t : t = Started(q, m)
  OBVIOUS
<1> PICK x : x = Effect(s, f)
  OBVIOUS
<1> PICK y : y = Effect(t, f)
  OBVIOUS
<1>1. p \in Projections /\ q \in Projections /\ Steady(p) /\ Steady(q)
  BY DEF Sound, Steady
<1>2. EventMarket(q, f) = m
  BY DEF Alike, EventMarket
<1>3. /\ m \in Markets \cup {None}
      /\ m # None => p.markets[m] # "absent"
      /\ m # None => f.kind \in TokenKinds \cup {"resolved"}
      /\ m # None /\ f.kind \in TokenKinds => m = MarketOf[f.token]
  BY <1>1, EventMarketType
<1>4. Owns(m, f)
  BY <1>3, EventTypes DEF Owns
<1>5. Steady(s) /\ Steady(t) /\ s.markets = p.markets
  BY <1>1, <1>3, StartedSteady, StartedFacts
<1>6. Alike(s, t)
  BY <1>1, <1>3, StartedAlike
<1>7. Proper(m, f, s, t, x, y)
  BY <1>3, <1>4, <1>5, <1>6, EffectProper
<1>8. /\ Effective(m, f, x) /\ Effective(m, f, y)
      /\ Alike(x.p, y.p) /\ y.applied = x.applied /\ y.why = x.why
      /\ Effected(s, f, x)
  BY <1>7 DEF Proper, Twins
<1>9. j = Judged(p, m, f, x) /\ k = Judged(q, m, f, y)
  BY <1>2 DEF Judge
<1>10. Sound(j.p) /\ Moves(x.p, j.p, m, f, x.applied) /\ j.outcome.applied = x.applied
  BY <1>1, <1>4, <1>8, <1>9, JudgedFacts
<1>11. Sound(k.p)
  BY <1>1, <1>4, <1>8, <1>9, JudgedFacts
<1>12. Alike(j.p, k.p) /\ j.outcome = k.outcome
  BY <1>1, <1>4, <1>8, <1>9, JudgedAlike
<1>13. Stepped(p, f, x.applied, j.p)
  BY <1>1, <1>3, <1>4, <1>8, <1>10, StagesStep
<1>14. QED BY <1>10, <1>11, <1>12, <1>13

(* The writer evaluates an event and replay its persisted form.            *)
LEMMA EvaluateSteps ==
  ASSUME NEW p, Sound(p), NEW q, Sound(q), Alike(p, q), NEW e \in EventKind,
         NEW f, f = Persisted(p, e), NEW j, j = Evaluate(p, e), NEW k, k = Evaluate(q, f)
  PROVE  /\ Stepped(p, f, j.outcome.applied, j.p)
         /\ Sound(k.p) /\ Alike(j.p, k.p) /\ j.outcome = k.outcome
<1>1. p \in Projections /\ q \in Projections /\ q.books = p.books
  BY DEF Sound, Steady, Alike
<1>2. j = Judge(p, f) /\ k = Judge(q, f)
  BY <1>1, EvaluateIsJudge, PersistedTwice
<1>3. f \in EventKind /\ Completed(p, f)
  BY <1>1, PersistedFacts, PersistedIsCompleted
<1>4. QED BY <1>2, <1>3, JudgeSteps
-----------------------------------------------------------------------------
(* The invariant *)

LEMMA BootstrapSound == Sound(Bootstrap)
<1> PICK p : p = Bootstrap
  OBVIOUS
<1>1. /\ p.cursor = 0 /\ p.catalog = FALSE /\ p.relation = TRUE /\ p.monitoring = {}
      /\ p.markets = [m \in Markets |-> "absent"]
      /\ p.books = [t \in Tokens |-> NoBook]
      /\ p.recovery = [m \in Markets |-> {}]
      /\ p.quarantined = {} /\ p.gaps = {} /\ p.ready = FALSE
      /\ p.health = [m \in Markets |-> None]
  BY DEF Bootstrap
<1>2. p \in Projections
  BY NoBookFacts DEF Bootstrap, Projections, Statuses, Reasons, Faults, None
<1>3. Scoped(p) /\ Uncrossed(p) /\ Related(p) /\ Isolated(p) /\ Offered(p)
  BY <1>1, NoBookFacts DEF Scoped, Uncrossed, Related, Isolated, Offered
<1>4. QED BY <1>2, <1>3 DEF Sound, Steady

LEMMA InitInv == Init => IInv
<1> SUFFICES ASSUME Init PROVE IInv
  OBVIOUS
<1>1. Sound(live) /\ Sound(shadow)
  BY BootstrapSound DEF Init
<1>2. Alike(live, shadow)
  BY AlikeSelf DEF Init
<1>3. consumer \in [Tokens -> Books] /\ ~ diverged /\ fresh \subseteq Tokens
  BY NoBookFacts DEF Init
<1>4. /\ live.books = [t \in Tokens |-> NoBook]
      /\ live.recovery = [m \in Markets |-> {}]
  BY DEF Init, Bootstrap
<1>5. Collects /\ DeltasAreComplete
  BY <1>4 DEF Collects, DeltasAreComplete
<1>6. QED BY <1>1, <1>2, <1>3, <1>5 DEF IInv

(* A token that leaves the fresh ones has left every recovery.             *)
LEMMA SoundRecovery ==
  ASSUME NEW r, Sound(r), NEW m \in Markets, NEW t \in r.recovery[m]
  PROVE  /\ t \in Tokens /\ MarketOf[t] = m /\ r.health[m] # "quarantined"
         /\ r.markets[m] = "active" \/ r.books[t] = NoBook
<1>1. t \in Tokens /\ MarketOf[t] = m /\ r.health[m] # "quarantined"
  BY DEF Sound, Steady, Isolated, TokensOf
<1>2. r.markets[m] = "active" \/ r.books[t] = NoBook
  BY <1>1 DEF Sound, Steady, Scoped, Configured, Active
<1>3. QED BY <1>1, <1>2

Refreshed(old, f, a, r) ==
  {t \in old \cup (IF f.kind = "book" /\ a THEN {f.token} ELSE {}) :
     r.health[MarketOf[t]] # "quarantined" /\ r.markets[MarketOf[t]] = "active"}

LEMMA CollectsStep ==
  ASSUME NEW p, NEW f \in EventKind, NEW a, NEW r, Stepped(p, f, a, r), NEW old,
         \A m \in Markets : \A t \in p.recovery[m] : t \in old \/ p.books[t] = NoBook,
         NEW m \in Markets, NEW t \in r.recovery[m]
  PROVE  t \in Refreshed(old, f, a, r) \/ r.books[t] = NoBook
<1>1. /\ t \in Tokens /\ MarketOf[t] = m /\ r.health[m] # "quarantined"
      /\ r.markets[m] = "active" \/ r.books[t] = NoBook
  BY SoundRecovery DEF Stepped
<1>2. t \in p.recovery[m] \/ (f.kind = "book" /\ a /\ t = f.token)
  BY DEF Stepped, KeepsRecovery
<1>3. CASE f.kind = "book" /\ a /\ t = f.token
  BY <1>1, <1>3 DEF Refreshed
<1>4. CASE ~ (f.kind = "book" /\ a /\ t = f.token) /\ p.books[t] = NoBook
  <2>1. r.books[t] = NoBook
    BY <1>1, <1>4 DEF Stepped, KeepsBooks
  <2>2. QED BY <2>1
<1>5. CASE t \in old
  BY <1>1, <1>5 DEF Refreshed
<1>6. QED BY <1>2, <1>3, <1>4, <1>5

LEMMA ReturnStep ==
  ASSUME NEW p, NEW f \in EventKind, NEW a, NEW r, Stepped(p, f, a, r), NEW old,
         \A m \in Markets : \A t \in p.recovery[m] : t \in old \/ p.books[t] = NoBook,
         NEW m \in Markets, p.health[m] \notin {None, "ready"}, r.health[m] = "ready"
  PROVE  TokensOf(m) \subseteq Refreshed(old, f, a, r)
<1> SUFFICES ASSUME NEW t \in TokensOf(m) PROVE t \in Refreshed(old, f, a, r)
  OBVIOUS
<1>1. /\ f.kind = "book" /\ a /\ t \in p.recovery[m] \cup {f.token}
      /\ r.markets[m] = "active" /\ r.books[t] # NoBook
  BY DEF Stepped, Returned
<1>2. t \in Tokens /\ MarketOf[t] = m
  BY DEF TokensOf
<1>3. CASE t = f.token
  BY <1>1, <1>2, <1>3 DEF Refreshed
<1>4. CASE t # f.token
  <2>1. r.books[t] = p.books[t]
    BY <1>1, <1>2, <1>4 DEF Stepped, KeepsBooks, TokenKinds
  <2>2. t \in old
    BY <1>1, <1>4, <2>1
  <2>3. QED BY <1>1, <1>2, <2>2 DEF Refreshed
<1>5. QED BY <1>3, <1>4

(* What the consumer holds of token t after event f.                       *)
Consumed(f, a, r, c, t) ==
  IF r.books[t] = NoBook THEN NoBook
  ELSE IF f.kind \notin TokenKinds \/ ~ a THEN c
  ELSE IF t # f.token THEN c
  ELSE IF f.kind = "book" THEN r.books[t]
  ELSE IF f.kind \in {"delta", "atomic"} THEN ApplyLevels(c, f.changes)
  ELSE c

LEMMA ConsumedFacts ==
  ASSUME NEW p, NEW f \in EventKind, NEW a, NEW r, Stepped(p, f, a, r), NEW t \in Tokens,
         NEW c \in Books, p.books[t] # NoBook => SameSides(c, p.books[t]),
         NEW d, d = Consumed(f, a, r, c, t)
  PROVE  d \in Books /\ (r.books[t] # NoBook => SameSides(d, r.books[t]))
<1>1. r.books[t] \in Books
  BY DEF Stepped, Sound, Steady, Projections
<1>2. KeepsBooks(p, f, a, r)
  BY DEF Stepped
<1>3. CASE r.books[t] = NoBook
  BY <1>3, NoBookFacts DEF Consumed
<1>4. CASE r.books[t] # NoBook /\ (f.kind \notin TokenKinds \/ ~ a \/ t # f.token)
  <2>1. d = c
    BY <1>4 DEF Consumed
  <2>2. r.books[t] = p.books[t]
    BY <1>2, <1>4 DEF KeepsBooks
  <2>3. QED BY <1>4, <2>1, <2>2
<1>5. CASE r.books[t] # NoBook /\ f.kind \in TokenKinds /\ a /\ t = f.token
  <2>1. CASE f.kind = "book"
    <3>1. d = r.books[t]
      BY <1>5, <2>1 DEF Consumed
    <3>2. QED BY <1>1, <3>1 DEF SameSides
  <2>2. CASE f.kind \in {"delta", "atomic"}
    <3>1. d = ApplyLevels(c, f.changes)
      BY <1>5, <2>2 DEF Consumed
    <3>2. p.books[t] # NoBook /\ SameSides(r.books[t], ApplyLevels(p.books[t], f.changes))
      BY <1>2, <1>5, <2>2 DEF KeepsBooks
    <3>3. f.changes \subseteq LevelChange
      BY <2>2, EventTypes DEF AtomicEvents
    <3>4. d \in Books
      BY <3>1, <3>3, LevelsType, 0 \in Nat
    <3> PICK b : b = p.books[t]
      OBVIOUS
    <3>5. SameSides(c, b)
      BY <3>2
    <3>6. SameSides(ApplyLevels(c, f.changes), ApplyLevels(b, f.changes))
      BY <3>5 DEF SameSides, ApplyLevels
    <3>7. QED BY <3>1, <3>2, <3>4, <3>6 DEF SameSides
  <2>3. CASE f.kind \notin {"book", "delta", "atomic"}
    <3>1. d = c
      BY <1>5, <2>3 DEF Consumed
    <3>2. p.books[t] # NoBook /\ SameSides(r.books[t], p.books[t])
      BY <1>2, <1>5, <2>3 DEF KeepsBooks
    <3>3. QED BY <3>1, <3>2 DEF SameSides
  <2>4. QED BY <2>1, <2>2, <2>3
<1>6. QED BY <1>3, <1>4, <1>5
(* An event takes the writer and the replay to projections that are alike. *)
Takes(p, old, c, f, a, r, s, new, d) ==
  /\ Stepped(p, f, a, r) /\ Sound(s) /\ Alike(r, s)
  /\ new = Refreshed(old, f, a, r)
  /\ d = [t \in Tokens |-> Consumed(f, a, r, c[t], t)]

LEMMA ReceiveStep ==
  ASSUME IInv, Receive
  PROVE  /\ ~ diverged'
         /\ \E f \in EventKind : \E a :
              Takes(live, fresh, consumer, f, a, live', shadow', fresh', consumer')
<1> PICK e \in Inputs :
      /\ live' = Evaluate(live, e).p
      /\ shadow' = Evaluate(shadow, Persisted(live, e)).p
      /\ diverged' = (diverged \/ Evaluate(live, e).outcome
                                    # Evaluate(shadow, Persisted(live, e)).outcome)
      /\ consumer' = Consume(Persisted(live, e), Evaluate(live, e).outcome, Evaluate(live, e).p)
      /\ fresh' = {t \in fresh \cup (IF e.kind = "book" /\ Evaluate(live, e).outcome.applied
                                     THEN {e.token} ELSE {}) :
                     /\ Evaluate(live, e).p.health[MarketOf[t]] # "quarantined"
                     /\ Evaluate(live, e).p.markets[MarketOf[t]] = "active"}
  BY DEF Receive
<1> PICK p : p = live
  OBVIOUS
<1> PICK f : f = Persisted(live, e)
  OBVIOUS
<1> PICK j : j = Evaluate(live, e)
  OBVIOUS
<1> PICK k : k = Evaluate(shadow, f)
  OBVIOUS
<1> PICK a : a = j.outcome.applied
  OBVIOUS
<1>1. e \in EventKind
  BY InputsAssumption
<1>2. Sound(live) /\ Sound(shadow) /\ Alike(live, shadow) /\ ~ diverged
  BY DEF IInv
<1>3. /\ Stepped(live, f, a, j.p)
      /\ Sound(k.p) /\ Alike(j.p, k.p) /\ j.outcome = k.outcome
  BY <1>1, <1>2, EvaluateSteps
<1>4. f \in EventKind /\ f.kind = e.kind /\ (e.kind # "atomic" => f = e)
  <2>1. live \in Projections
    BY <1>2 DEF Sound, Steady
  <2>2. QED BY <1>1, <2>1, PersistedFacts
<1>5. live' = j.p /\ shadow' = k.p
  OBVIOUS
<1>6. ~ diverged'
  BY <1>2, <1>3
<1>7. fresh' = Refreshed(fresh, f, a, live')
  BY <1>4 DEF Refreshed
<1>8. consumer' = [t \in Tokens |-> Consumed(f, a, live', consumer[t], t)]
  <2>1. consumer' = Consume(f, j.outcome, j.p)
    OBVIOUS
  <2>2. QED BY <2>1, <1>5 DEF Consume, Consumed
<1>9. Takes(live, fresh, consumer, f, a, live', shadow', fresh', consumer')
  BY <1>3, <1>5, <1>7, <1>8 DEF Takes
<1>10. QED BY <1>4, <1>6, <1>9

(* What Collects and DeltasAreComplete say of a projection.                *)
Collecting(p, old) ==
  \A m \in Markets : \A t \in p.recovery[m] : t \in old \/ p.books[t] = NoBook
Following(p, c) == \A t \in Tokens : p.books[t] # NoBook => SameSides(c[t], p.books[t])

LEMMA TakesKeeps ==
  ASSUME NEW p, NEW old, old \subseteq Tokens, NEW c \in [Tokens -> Books],
         Collecting(p, old), Following(p, c),
         NEW f \in EventKind, NEW a, NEW r, NEW s, NEW new, NEW d,
         Takes(p, old, c, f, a, r, s, new, d)
  PROVE  /\ new \subseteq Tokens /\ d \in [Tokens -> Books]
         /\ Collecting(r, new) /\ Following(r, d)
<1>1. /\ Stepped(p, f, a, r) /\ new = Refreshed(old, f, a, r)
      /\ d = [t \in Tokens |-> Consumed(f, a, r, c[t], t)]
  BY DEF Takes
<1>2. new \subseteq Tokens
  <2>1. f.kind = "book" => f.token \in Tokens
    BY EventTypes DEF TokenKinds
  <2>2. QED BY <1>1, <2>1 DEF Refreshed
<1>3. \A t \in Tokens : /\ d[t] \in Books
                        /\ r.books[t] # NoBook => SameSides(d[t], r.books[t])
  <2> TAKE t \in Tokens
  <2>1. c[t] \in Books /\ (p.books[t] # NoBook => SameSides(c[t], p.books[t]))
    BY DEF Following
  <2>2. d[t] = Consumed(f, a, r, c[t], t)
    BY <1>1
  <2>3. QED BY <1>1, <2>1, <2>2, ConsumedFacts
<1>4. Collecting(r, new)
  <2>1. \A m \in Markets : \A t \in p.recovery[m] : t \in old \/ p.books[t] = NoBook
    BY DEF Collecting
  <2>2. ASSUME NEW m \in Markets, NEW t \in r.recovery[m]
        PROVE  t \in new \/ r.books[t] = NoBook
    BY <1>1, <2>1, CollectsStep
  <2>3. QED BY <2>2 DEF Collecting
<1>5. QED BY <1>1, <1>2, <1>3, <1>4 DEF Following

LEMMA ReceiveInv ==
  ASSUME IInv, Receive
  PROVE  IInv'
<1> PICK f \in EventKind : \E a :
      Takes(live, fresh, consumer, f, a, live', shadow', fresh', consumer')
  BY ReceiveStep
<1> PICK a : Takes(live, fresh, consumer, f, a, live', shadow', fresh', consumer')
  OBVIOUS
<1>1. /\ fresh \subseteq Tokens /\ consumer \in [Tokens -> Books]
      /\ Collecting(live, fresh) /\ Following(live, consumer)
  BY DEF IInv, Collects, DeltasAreComplete, Collecting, Following, SameSides
<1>2. /\ fresh' \subseteq Tokens /\ consumer' \in [Tokens -> Books]
      /\ Collecting(live', fresh') /\ Following(live', consumer')
  BY <1>1, TakesKeeps
<1>3. Collects' /\ DeltasAreComplete'
  BY <1>2 DEF Collects, DeltasAreComplete, Collecting, Following, SameSides
<1>4. Sound(live') /\ Sound(shadow') /\ Alike(live', shadow')
  BY DEF Takes, Stepped
<1>5. ~ diverged'
  BY ReceiveStep
<1>6. QED BY <1>2, <1>3, <1>4, <1>5 DEF IInv

LEMMA CheckpointInv ==
  ASSUME IInv, Checkpoint
  PROVE  IInv'
<1>1. /\ live' = live /\ shadow' = Prune(live) /\ diverged' = diverged
      /\ consumer' = consumer /\ fresh' = fresh
  BY DEF Checkpoint
<1>2. Sound(shadow') /\ Alike(live, shadow')
  BY <1>1, PruneSound DEF IInv
<1>3. Collects' /\ DeltasAreComplete'
  BY <1>1 DEF IInv, Collects, DeltasAreComplete
<1>4. QED BY <1>1, <1>2, <1>3 DEF IInv

LEMMA RestartInv ==
  ASSUME IInv, Restart
  PROVE  IInv' /\ live'.health = live.health /\ live'.books = live.books
         /\ live'.cursor = live.cursor
<1>1. /\ shadow' = shadow /\ live' = Prune(shadow) /\ diverged' = diverged
      /\ consumer' = consumer /\ fresh' = fresh
  BY DEF Restart
<1>2. Sound(live') /\ Alike(shadow, live')
  BY <1>1, PruneSound DEF IInv
<1>3. Alike(live', shadow')
  BY <1>1, <1>2, AlikeBack
<1>4. /\ live'.health = live.health /\ live'.books = live.books
      /\ live'.cursor = live.cursor /\ live'.recovery = live.recovery
  BY <1>2 DEF IInv, Alike
<1>5. Collects' /\ DeltasAreComplete'
  BY <1>1, <1>4 DEF IInv, Collects, DeltasAreComplete
<1>6. QED BY <1>1, <1>2, <1>3, <1>4, <1>5 DEF IInv

LEMMA NextInv == IInv /\ [Next]_vars => IInv'
<1> SUFFICES ASSUME IInv, [Next]_vars PROVE IInv'
  OBVIOUS
<1>1. CASE Receive
  BY <1>1, ReceiveInv
<1>2. CASE Checkpoint
  BY <1>2, CheckpointInv
<1>3. CASE Restart
  BY <1>3, RestartInv
<1>4. CASE UNCHANGED vars
  BY <1>4 DEF vars, IInv, Collects, DeltasAreComplete
<1>5. QED BY <1>1, <1>2, <1>3, <1>4 DEF Next

LEMMA Invariant == Spec => []IInv
BY InitInv, NextInv, PTL DEF Spec
-----------------------------------------------------------------------------
(* The properties *)

(* Replay judges every persisted event as the writer did, so that a store  *)
(* this code wrote can be opened again (replay_after_checkpoint refuses    *)
(* one whose recorded outcome differs).                                    *)
THEOREM NeverDiverges == Spec => []ReplayNeverDiverges
<1>1. IInv => ReplayNeverDiverges
  BY DEF IInv, ReplayNeverDiverges
<1>2. QED BY <1>1, Invariant, PTL

(* A projection that reports itself ready offers only markets whose books  *)
(* are executable (evaluate_event's readiness and prune_stale_scope_gaps). *)
THEOREM ReadyMeansExecutable == Spec => []ReadyIsExecutable
<1>1. IInv => ReadyIsExecutable
  BY DEF IInv, Sound, Offered, ReadyIsExecutable
<1>2. QED BY <1>1, Invariant, PTL

(* What a restart recovers differs from the published projection only in   *)
(* readiness and in gaps of tokens that have no book.                      *)
LEMMA AlikeMatches ==
  ASSUME NEW p \in Projections, NEW q \in Projections, Alike(p, q)
  PROVE  [q EXCEPT !.gaps = {}, !.ready = FALSE, !.reason = None]
           = [p EXCEPT !.gaps = {}, !.ready = FALSE, !.reason = None]
BY DEF Alike, Projections

THEOREM RecoveryAlwaysMatches == Spec => []RecoveryMatches
<1>1. IInv => RecoveryMatches
  <2> SUFFICES ASSUME IInv PROVE RecoveryMatches
    OBVIOUS
  <2>1. live \in Projections /\ shadow \in Projections /\ Alike(live, shadow)
    BY DEF IInv, Sound, Steady
  <2>2. [shadow EXCEPT !.gaps = {}, !.ready = FALSE, !.reason = None]
          = [live EXCEPT !.gaps = {}, !.ready = FALSE, !.reason = None]
    BY <2>1, AlikeMatches
  <2>3. \A g \in (live.gaps \cup shadow.gaps) \ (live.gaps \cap shadow.gaps) :
          g \in Tokens /\ live.books[g] = NoBook
    BY <2>1 DEF Alike
  <2>4. QED BY <2>2, <2>3 DEF RecoveryMatches
<1>2. QED BY <1>1, Invariant, PTL

(* The persisted level changes alone rebuild every book: the removals that *)
(* the venue's best prices imply were made explicit                        *)
(* (replay_complete_atomic_changes).                                       *)
THEOREM DeltasAlwaysComplete == Spec => []DeltasAreComplete
<1>1. IInv => DeltasAreComplete
  BY DEF IInv
<1>2. QED BY <1>1, Invariant, PTL

(* A market becomes ready only after a full book of each of its outcomes   *)
(* since its fault or its listing (market_recovery_token_ids, kept by      *)
(* evaluate_event).                                                        *)
THEOREM RecoveryIsAlwaysAtomic == Spec => RecoveryIsAtomic
<1> DEFINE Wakes ==
      \A m \in Markets :
        (live.health[m] \notin {None, "ready"} /\ live'.health[m] = "ready"
           /\ live'.cursor > live.cursor)
          => TokensOf(m) \subseteq fresh'
<1>1. IInv /\ [Next]_vars => [Wakes]_vars
  <2> SUFFICES ASSUME IInv, Next PROVE Wakes
    OBVIOUS
  <2> SUFFICES ASSUME NEW m \in Markets, live.health[m] \notin {None, "ready"},
                      live'.health[m] = "ready", live'.cursor > live.cursor
               PROVE  TokensOf(m) \subseteq fresh'
    OBVIOUS
  <2>1. CASE Receive
    <3> PICK f \in EventKind : \E a :
          Takes(live, fresh, consumer, f, a, live', shadow', fresh', consumer')
      BY <2>1, ReceiveStep
    <3> PICK a : Takes(live, fresh, consumer, f, a, live', shadow', fresh', consumer')
      OBVIOUS
    <3>1. Stepped(live, f, a, live') /\ fresh' = Refreshed(fresh, f, a, live')
      BY DEF Takes
    <3>2. \A k \in Markets : \A t \in live.recovery[k] : t \in fresh \/ live.books[t] = NoBook
      BY DEF IInv, Collects
    <3>3. QED BY <3>1, <3>2, ReturnStep
  <2>2. CASE Checkpoint
    BY <2>2 DEF Checkpoint
  <2>3. CASE Restart
    <3>1. live'.health = live.health
      BY <2>3, RestartInv
    <3>2. QED BY <3>1
  <2>4. QED BY <2>1, <2>2, <2>3 DEF Next
<1>2. Spec => [][Wakes]_vars
  BY <1>1, Invariant, PTL DEF Spec
<1>3. QED BY <1>2 DEF RecoveryIsAtomic

(* A fault of one market leaves the books and the health of every other    *)
(* market as they are (quarantine_market).                                 *)
THEOREM FaultsAreAlwaysLocal == Spec => FaultsAreLocal
<1> DEFINE Contained ==
      \A m, k \in Markets :
        (m # k /\ live'.health[m] = "quarantined" /\ live.health[m] # "quarantined")
          => /\ live'.health[k] = live.health[k]
             /\ \A t \in TokensOf(k) : live'.books[t] = live.books[t]
<1>1. IInv /\ [Next]_vars => [Contained]_vars
  <2> SUFFICES ASSUME IInv, Next PROVE Contained
    OBVIOUS
  <2> SUFFICES ASSUME NEW m \in Markets, NEW k \in Markets, m # k,
                      live'.health[m] = "quarantined", live.health[m] # "quarantined"
               PROVE  /\ live'.health[k] = live.health[k]
                      /\ \A t \in TokensOf(k) : live'.books[t] = live.books[t]
    OBVIOUS
  <2>1. CASE Receive
    <3> PICK f \in EventKind : \E a :
          Takes(live, fresh, consumer, f, a, live', shadow', fresh', consumer')
      BY <2>1, ReceiveStep
    <3> PICK a : Takes(live, fresh, consumer, f, a, live', shadow', fresh', consumer')
      OBVIOUS
    <3>1. Isolates(live, f, live') /\ KeepsBooks(live, f, a, live')
      BY DEF Takes, Stepped
    <3>2. /\ f.kind \in TokenKinds /\ m = MarketOf[f.token]
          /\ live'.health[k] = live.health[k]
      BY <3>1 DEF Isolates, LocalKinds
    <3>3. \A t \in Tokens \ {f.token} : live'.books[t] = live.books[t]
      BY <3>1, <3>2 DEF KeepsBooks
    <3>4. QED BY <3>2, <3>3 DEF TokensOf
  <2>2. CASE Checkpoint
    BY <2>2 DEF Checkpoint
  <2>3. CASE Restart
    <3>1. live'.health = live.health
      BY <2>3, RestartInv
    <3>2. QED BY <3>1
  <2>4. QED BY <2>1, <2>2, <2>3 DEF Next
<1>2. Spec => [][Contained]_vars
  BY <1>1, Invariant, PTL DEF Spec
<1>3. QED BY <1>2 DEF FaultsAreLocal
============================================================================
