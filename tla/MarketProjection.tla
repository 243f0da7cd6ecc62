------------------------- MODULE MarketProjection -------------------------
(***************************************************************************)
(* The Polymarket projection of marketcow-core: what SingleWriter derives  *)
(* from one canonical event (evaluate_event), and what a restart derives   *)
(* from the persisted events after the last checkpoint                     *)
(* (replay_after_checkpoint).                                              *)
(*                                                                         *)
(* A projection is a record.  A book keeps the prices of its two sides; an *)
(* amount is only zero or not.  Times are small naturals.  A market that   *)
(* is not in the catalog is "absent"; its health is "none" until an event  *)
(* or a catalog names it.                                                  *)
(***************************************************************************)
EXTENDS Integers, FiniteSets

CONSTANTS
    Tokens, Markets,
    MarketOf,   \* the market whose outcome a token is
    NegRisk,    \* the markets of the one negative-risk group
    One,        \* the price 1; prices of levels are in 1..One - 1
    Inputs,     \* the events upstream may send
    MaxCursor   \* bound: events applied

\* A market has outcomes (MarketRecord.outcomes is an array of two).
ASSUME ScopeAssumption ==
    /\ MarketOf \in [Tokens -> Markets]
    /\ \A m \in Markets : \E t \in Tokens : MarketOf[t] = m
    /\ NegRisk \subseteq Markets
    /\ One \in Nat /\ MaxCursor \in Nat

VARIABLES
    live,      \* the published projection
    shadow,    \* what replaying the WAL after the last checkpoint yields
    diverged,  \* replay met an outcome that differs from the recorded one
    consumer,  \* books of a public consumer that applies the persisted events
    fresh      \* tokens with an accepted full book since their market was last ready

vars == <<live, shadow, diverged, consumer, fresh>>

None == "none"
NoPrice == -1
NoBook == [bids |-> {}, asks |-> {}, tick |-> 0, at |-> 0, refresh |-> 0]
TokensOf(m) == {t \in Tokens : MarketOf[t] = m}

\* Gaps that no single token explains.
CatalogGap == "catalog:"
GroupGap == "negative_risk:"
ConditionGap == "condition"   \* a delayed market event, named by its condition

\* A market has a name, and the gaps of no token have one that a token could have.
ASSUME NamesAssumption ==
    None \notin Markets /\ {CatalogGap, GroupGap, ConditionGap} \cap Tokens = {}

\* EventKind: what each kind of event carries.  A quote may be missing.
LevelChange == [side : {"bid", "ask"}, price : Nat, zero : BOOLEAN]
Quote == Nat \cup {NoPrice}
EventKind ==
    [kind : {"catalog"}, delayed : BOOLEAN, valid : BOOLEAN, active : SUBSET Markets,
     fact : [Markets -> Nat]]
    \cup [kind : {"new"}, delayed : BOOLEAN]
    \cup [kind : {"resolved"}, delayed : BOOLEAN, valid : BOOLEAN, market : Markets]
    \cup [kind : {"gap"}, delayed : BOOLEAN, token : Tokens, boundary : BOOLEAN,
          observed : Nat, received : Nat]
    \cup [kind : {"book"}, delayed : BOOLEAN, token : Tokens, bids : SUBSET Nat,
          asks : SUBSET Nat, tick : Nat, http : BOOLEAN, observed : Nat, received : Nat]
    \cup [kind : {"delta"}, delayed : BOOLEAN, token : Tokens, changes : SUBSET LevelChange,
          observed : Nat, received : Nat]
    \cup [kind : {"atomic"}, delayed : BOOLEAN, token : Tokens, changes : SUBSET LevelChange,
          bid : Quote, ask : Quote, observed : Nat, received : Nat]
    \cup [kind : {"bbo"}, delayed : BOOLEAN, token : Tokens, bid : Quote, ask : Quote,
          observed : Nat, received : Nat]
    \cup [kind : {"trade"}, delayed : BOOLEAN, token : Tokens, price : Nat,
          observed : Nat, received : Nat]
    \cup [kind : {"tick"}, delayed : BOOLEAN, token : Tokens, old : Nat, tick : Nat,
          observed : Nat, received : Nat]

ASSUME InputsAssumption == Inputs \subseteq EventKind

Bootstrap ==
    [cursor |-> 0, catalog |-> FALSE,
     markets |-> [m \in Markets |-> "absent"],
     fact |-> [m \in Markets |-> 0],
     relation |-> TRUE,
     monitoring |-> {},
     books |-> [t \in Tokens |-> NoBook],
     health |-> [m \in Markets |-> None], sequence |-> [m \in Markets |-> 0],
     quarantined |-> {},
     recovery |-> [m \in Markets |-> {}],
     gaps |-> {}, ready |-> FALSE, reason |-> "bootstrap_required"]

-----------------------------------------------------------------------------
(* Books *)

Aligned(tick, prices) == tick # 0 /\ \A x \in prices : x % tick = 0

Top(bids) == IF bids = {} THEN NoPrice ELSE CHOOSE x \in bids : \A y \in bids : y <= x
Bottom(asks) == IF asks = {} THEN NoPrice ELSE CHOOSE x \in asks : \A y \in asks : x <= y

Crossed(book) == book.bids # {} /\ book.asks # {} /\ Top(book.bids) >= Bottom(book.asks)

\* changes is a set of [side, price, zero]: the last assignment of each price.
Prices(changes, side, zero) ==
    {c.price : c \in {d \in changes : d.side = side /\ d.zero = zero}}

ApplyLevels(book, changes) ==
    [book EXCEPT
       !.bids = (@ \ Prices(changes, "bid", TRUE)) \cup Prices(changes, "bid", FALSE),
       !.asks = (@ \ Prices(changes, "ask", TRUE)) \cup Prices(changes, "ask", FALSE)]

\* The venue reports an empty side as 0 or 1, and an unknown one not at all.
ExpectedBid(e) == IF e.bid = 0 THEN NoPrice ELSE e.bid
ExpectedAsk(e) == IF e.ask = One THEN NoPrice ELSE e.ask
Observed(e) == e.bid # NoPrice \/ e.ask # NoPrice
AboveBid(e, x) == ExpectedBid(e) = NoPrice \/ x > ExpectedBid(e)
BelowAsk(e, x) == ExpectedAsk(e) = NoPrice \/ x < ExpectedAsk(e)

\* Mutant: only levels the frame does not mention are removed.
CompleteUntouched(book, e) ==
    IF ~ Observed(e) THEN e.changes
    ELSE e.changes
           \cup {[side |-> "bid", price |-> x, zero |-> TRUE] :
                   x \in {y \in book.bids : AboveBid(e, y)}
                           \ Prices(e.changes, "bid", FALSE)}
           \cup {[side |-> "ask", price |-> x, zero |-> TRUE] :
                   x \in {y \in book.asks : BelowAsk(e, y)}
                           \ Prices(e.changes, "ask", FALSE)}

\* replay_complete_atomic_changes: every level outside the venue's best prices
\* after the frame becomes an explicit removal.
Complete(book, e) ==
    LET bids == {x \in book.bids \cup Prices(e.changes, "bid", FALSE) : AboveBid(e, x)}
        asks == {x \in book.asks \cup Prices(e.changes, "ask", FALSE) : BelowAsk(e, x)}
        kept == {c \in e.changes : c.price \notin (IF c.side = "bid" THEN bids ELSE asks)}
    IN  IF ~ Observed(e) THEN e.changes
        ELSE kept \cup {[side |-> "bid", price |-> x, zero |-> TRUE] : x \in bids}
                  \cup {[side |-> "ask", price |-> x, zero |-> TRUE] : x \in asks}

-----------------------------------------------------------------------------
(* Readiness *)

Active(p) == {m \in Markets : p.markets[m] = "active"}
Public(p, m) == p.health[m] \in {None, "ready"}
PublicMarkets(p) == {m \in Active(p) : Public(p, m)}

TwoSided(book) == book.bids # {} /\ book.asks # {}

Executable(p, m) ==
    /\ p.markets[m] = "active"
    /\ m \in NegRisk => p.relation
    /\ \A t \in TokensOf(m) :
         /\ p.books[t].tick = p.fact[m]
         /\ t \notin p.quarantined
         /\ TwoSided(p.books[t]) /\ ~ Crossed(p.books[t])

BooksComplete(p) ==
    p.catalog => \A m \in PublicMarkets(p) : \A t \in TokensOf(m) : p.books[t] # NoBook
BooksTwoSided(p) ==
    p.catalog => \A m \in PublicMarkets(p) : \A t \in TokensOf(m) : TwoSided(p.books[t])
Usable(p) ==
    IF p.catalog THEN PublicMarkets(p) # {} ELSE \E t \in Tokens : p.books[t] # NoBook

TicksConsistent(p) ==
    p.catalog => \A m \in PublicMarkets(p) : \A t \in TokensOf(m) :
                   p.books[t].tick = p.fact[m]

\* Both books of the market carry the same tick.
CommonTick(p, m) ==
    /\ \A t \in TokensOf(m) : p.books[t] # NoBook
    /\ \A t, u \in TokensOf(m) : p.books[t].tick = p.books[u].tick

\* Mutant: the ticks of the two outcomes are not compared.
ReconcilesPresence(p) ==
    p.catalog => \A m \in PublicMarkets(p) : \A t \in TokensOf(m) : p.books[t] # NoBook

\* reconcile_active_market_instrument_ticks: all facts follow the books, or,
\* when a public market's books disagree, none does.
Reconciles(p) == p.catalog => \A m \in PublicMarkets(p) : CommonTick(p, m)

Reconcile(p) ==
    IF ~ p.catalog \/ ~ Reconciles(p) THEN p
    ELSE [p EXCEPT !.fact = [m \in Markets |->
            IF m \in Active(p) /\ CommonTick(p, m)
            THEN p.books[CHOOSE t \in TokensOf(m) : TRUE].tick ELSE @[m]]]

Configured(p) == {t \in Tokens : MarketOf[t] \in Active(p)}

\* Mutant: every gap of a token is taken for stale.
PruneTokens(p) == [p EXCEPT !.gaps = @ \ Tokens]

\* prune_stale_scope_gaps
Prune(p) ==
    LET stale  == {t \in p.gaps \cap Tokens : MarketOf[t] \in p.monitoring} \ Configured(p)
        pruned == [p EXCEPT !.gaps = @ \ stale]
        ready  == /\ pruned.gaps = {} /\ Usable(p) /\ BooksComplete(p)
                  /\ TicksConsistent(p) /\ BooksTwoSided(p)
    IN  IF stale = {} THEN p
        ELSE [pruned EXCEPT !.ready = ready, !.reason = IF ready THEN None ELSE @]

-----------------------------------------------------------------------------
(* One event on the projection, before health is derived *)

Accept(p) == [p |-> p, applied |-> TRUE, why |-> None]
Reject(p, gap, why) ==
    [p |-> [p EXCEPT !.gaps = @ \cup {gap}], applied |-> FALSE, why |-> why]

NeedsBook(p, t) == t \in p.gaps \cup p.quarantined \/ p.books[t] = NoBook

OnCatalog(p, e) ==
    LET resolved == {m \in Markets : p.markets[m] = "resolved"} \ e.active
        removed  == Active(p) \ e.active
        markets  == [m \in Markets |-> IF m \in e.active THEN "active"
                                       ELSE IF m \in resolved THEN "resolved" ELSE "absent"]
        monitor  == (p.monitoring \cup removed) \ (e.active \cup resolved)
        tokens   == {t \in Tokens : MarketOf[t] \in e.active}
        health   == [m \in Markets |->
                       IF m \in removed THEN "unavailable"
                       ELSE IF m \in e.active
                            THEN IF p.health[m] = None THEN "recovering" ELSE p.health[m]
                       ELSE IF m \in monitor THEN p.health[m] ELSE None]
    IN  IF ~ e.valid THEN Reject(p, CatalogGap, "invalid_catalog_snapshot")
        ELSE Accept(Prune([p EXCEPT
               !.catalog = TRUE, !.markets = markets, !.fact = e.fact,
               !.relation = TRUE, !.monitoring = monitor,
               !.books = [t \in Tokens |-> IF t \in tokens THEN @[t] ELSE NoBook],
               !.quarantined = @ \cap tokens,
               !.recovery = [m \in Markets |-> IF markets[m] = "absent" THEN {} ELSE @[m]],
               !.health = health,
               !.sequence = [m \in Markets |-> IF health[m] = None THEN 0 ELSE @[m]],
               !.gaps = @ \ {CatalogGap, GroupGap}]))

\* The refresh is announced as required although the event is applied.
OnNewMarket(p) ==
    [p |-> [p EXCEPT !.gaps = @ \cup {CatalogGap}], applied |-> TRUE,
     why |-> "catalog_refresh_required"]

OnResolved(p, e) ==
    IF p.markets[e.market] = "absent" THEN Reject(p, CatalogGap, "catalog_refresh_required")
    ELSE IF ~ e.valid THEN Reject(p, CatalogGap, "market_resolution_source_mismatch")
    ELSE Accept([p EXCEPT
           !.markets[e.market] = "resolved",
           !.books = [t \in Tokens |-> IF MarketOf[t] = e.market THEN NoBook ELSE @[t]],
           !.relation = @ /\ e.market \notin NegRisk,
           !.gaps = (@ \ TokensOf(e.market)) \cup {CatalogGap}
                      \cup (IF e.market \in NegRisk THEN {GroupGap} ELSE {})])

OnFullBook(p, e) ==
    LET t    == e.token
        book == [bids |-> e.bids, asks |-> e.asks, tick |-> e.tick, at |-> e.observed,
                 refresh |-> IF e.http THEN e.received ELSE 0]
    IN  IF p.catalog /\ t \notin Configured(p) THEN Reject(p, t, "token_not_in_active_catalog")
        ELSE IF ~ Aligned(e.tick, e.bids \cup e.asks) THEN Reject(p, t, "invalid_tick_full_book")
        ELSE IF Crossed(book) THEN Reject(p, t, "crossed_or_locked_full_book")
        ELSE Accept([p EXCEPT !.books[t] = book, !.gaps = @ \ {t}])

OnDelta(p, e) ==
    LET t    == e.token
        book == [ApplyLevels(p.books[t], e.changes) EXCEPT !.at = e.observed]
    IN  IF NeedsBook(p, t) THEN Reject(p, t, "full_book_recovery_required")
        ELSE IF ~ Aligned(p.books[t].tick, {c.price : c \in e.changes})
        THEN Reject(p, t, "invalid_tick_delta")
        ELSE IF Crossed(book) THEN Reject(p, t, "crossed_or_locked_delta")
        ELSE Accept([p EXCEPT !.books[t] = book])

\* The levels of the frame are applied and the venue's best prices prune and
\* then confirm the result.
OnAtomicDelta(p, e) ==
    LET t    == e.token
        raw  == [ApplyLevels(p.books[t], e.changes) EXCEPT !.at = e.observed]
        book == IF Observed(e)
                THEN [raw EXCEPT !.bids = {x \in @ : ~ AboveBid(e, x)},
                                 !.asks = {x \in @ : ~ BelowAsk(e, x)}]
                ELSE raw
        wrong == \/ /\ NoPrice \notin {ExpectedBid(e), ExpectedAsk(e)}
                    /\ ExpectedBid(e) >= ExpectedAsk(e)
                 \/ /\ Observed(e)
                    /\ <<Top(book.bids), Bottom(book.asks)>> # <<ExpectedBid(e), ExpectedAsk(e)>>
    IN  IF e.changes = {} \/ NeedsBook(p, t) THEN Reject(p, t, "full_book_recovery_required")
        ELSE IF ~ Aligned(p.books[t].tick, {c.price : c \in e.changes})
        THEN Reject(p, t, "invalid_tick_atomic_delta")
        ELSE IF wrong THEN Reject(p, t, "best_bid_ask_source_mismatch")
        ELSE IF Crossed(book) THEN Reject(p, t, "crossed_or_locked_atomic_delta")
        ELSE Accept([p EXCEPT !.books[t] = book])

OnBestBidAsk(p, e) ==
    LET book == p.books[e.token]
    IN  IF NeedsBook(p, e.token) THEN Reject(p, e.token, "full_book_recovery_required")
        ELSE IF <<Top(book.bids), Bottom(book.asks)>> # <<e.bid, e.ask>>
        THEN Reject(p, e.token, "best_bid_ask_source_mismatch")
        ELSE Accept([p EXCEPT !.books[e.token].at = e.observed])

OnLastTrade(p, e) ==
    IF NeedsBook(p, e.token) THEN Reject(p, e.token, "full_book_recovery_required")
    ELSE IF ~ Aligned(p.books[e.token].tick, {e.price})
    THEN Reject(p, e.token, "invalid_tick_last_trade")
    ELSE Accept(p)

OnTickChange(p, e) ==
    LET book == p.books[e.token]
    IN  IF NeedsBook(p, e.token) THEN Reject(p, e.token, "full_book_recovery_required")
        ELSE IF e.old # 0 /\ e.old # book.tick THEN Reject(p, e.token, "tick_size_source_mismatch")
        ELSE IF ~ Aligned(e.tick, book.bids \cup book.asks)
        THEN Reject(p, e.token, "tick_size_recovery_required")
        ELSE Accept([p EXCEPT !.books[e.token].tick = e.tick])

TokenKinds == {"book", "delta", "atomic", "bbo", "trade", "tick", "gap"}
LocalKinds == TokenKinds \ {"tick"}

\* An incremental frame that is older than the book it would change.
Superseded(p, e) ==
    /\ e.kind \in {"atomic", "bbo"} /\ p.books[e.token] # NoBook
    /\ LET book == p.books[e.token]
           late == book.refresh # 0 /\ e.received < book.refresh
       IN  IF e.kind = "atomic"
           THEN \/ e.delayed /\ e.observed <= book.at
                \/ book.refresh # 0 /\ (late \/ e.observed < book.at)
           ELSE late \/ e.observed < book.at

\* What is persisted for the event.
Persisted(p, e) ==
    IF e.kind # "atomic" THEN e
    ELSE IF Superseded(p, e) THEN [e EXCEPT !.changes = {}]
    ELSE IF e.delayed \/ p.books[e.token] = NoBook THEN e
    ELSE [e EXCEPT !.changes = Complete(p.books[e.token], e)]

Effect(p, e) ==
    IF Superseded(p, e) THEN Accept(p)
    ELSE IF e.delayed
    THEN Reject(p, IF e.kind \in TokenKinds THEN e.token ELSE ConditionGap,
                "source_data_delayed")
    ELSE CASE e.kind = "catalog"  -> OnCatalog(p, e)
           [] e.kind = "new"      -> OnNewMarket(p)
           [] e.kind = "resolved" -> OnResolved(p, e)
           [] e.kind = "gap"      -> Reject(p, e.token, "source_gap")
           [] e.kind = "book"     -> OnFullBook(p, e)
           [] e.kind = "delta"    -> OnDelta(p, e)
           [] e.kind = "atomic"   -> OnAtomicDelta(p, e)
           [] e.kind = "bbo"      -> OnBestBidAsk(p, e)
           [] e.kind = "trade"    -> OnLastTrade(p, e)
           [] e.kind = "tick"     -> OnTickChange(p, e)

-----------------------------------------------------------------------------
(* Health, recovery and readiness after the event *)

\* The market an event is attributed to.  A connection boundary is nobody's.
EventMarket(p, e) ==
    LET m == IF e.kind \in TokenKinds THEN MarketOf[e.token]
             ELSE IF e.kind = "resolved" THEN e.market ELSE None
    IN  IF m = None \/ (e.kind = "gap" /\ e.boundary) \/ p.markets[m] = "absent"
        THEN None ELSE m

\* Mutant: every market is taken off with the faulty one.
QuarantineAll(p, m, t) ==
    [p EXCEPT !.gaps = @ \ {t}, !.quarantined = @ \cup {t}, !.recovery[m] = {},
              !.health = [k \in Markets |-> IF p.markets[k] = "active" THEN "quarantined" ELSE @[k]]]

Quarantine(p, m, t) ==
    [p EXCEPT !.gaps = @ \ {t}, !.quarantined = @ \cup {t},
              !.recovery[m] = {}, !.health[m] = "quarantined"]

\* Mutant: the first full book ends a quarantine.
RecoverOneBook(p, m, t) ==
    LET cleared == [p EXCEPT !.quarantined = @ \ TokensOf(m), !.recovery[m] = {}]
    IN  IF Executable(cleared, m) THEN [cleared EXCEPT !.health[m] = "ready"]
        ELSE IF p.health[m] # "ready" THEN [cleared EXCEPT !.health[m] = "recovering"]
        ELSE cleared

\* An accepted full book of the market: a market that is not ready collects one
\* book per outcome before its quarantine ends.
Recover(p, m, t) ==
    LET ready   == p.health[m] = "ready"
        seen    == p.recovery[m] \cup {t}
        whole   == ready \/ TokensOf(m) \subseteq seen
        cleared == IF whole
                   THEN [p EXCEPT !.quarantined = @ \ TokensOf(m), !.recovery[m] = {}]
                   ELSE [p EXCEPT !.recovery[m] = seen]
    IN  IF whole /\ Executable(cleared, m) THEN [cleared EXCEPT !.health[m] = "ready"]
        ELSE IF ~ ready THEN [cleared EXCEPT !.health[m] = "recovering"]
        ELSE cleared

Readiness(p, why, consistent) ==
    LET ready == /\ p.gaps = {} /\ Usable(p) /\ BooksComplete(p)
                 /\ consistent /\ BooksTwoSided(p)
    IN  [p EXCEPT !.ready = ready,
                  !.reason = CASE why # None -> why
                               [] why = None /\ ~ consistent -> "instrument_tick_inconsistent"
                               [] why = None /\ consistent /\ ~ BooksTwoSided(p) ->
                                    "one_sided_active_book"
                               [] OTHER -> IF ready THEN None
                                           ELSE IF p.gaps = {} THEN "no_healthy_markets"
                                           ELSE "unresolved_gap"]

\* A market known to be executable before its first event counts as ready.
Started(p, m) ==
    [p EXCEPT !.cursor = @ + 1,
              !.health = [k \in Markets |->
                IF k = m /\ @[k] = None /\ Executable(p, m) THEN "ready" ELSE @[k]]]

\* Events that fault a market instead of the projection.
Local(m, e) == m # None /\ e.kind \in LocalKinds
Faulty(m, e, effect) == Local(m, e) /\ effect.why # None

Marked(m, e, effect) ==
    IF Faulty(m, e, effect) THEN Quarantine(effect.p, m, e.token) ELSE effect.p

Collected(p, m, e, effect) ==
    IF e.kind = "book" /\ m # None /\ effect.applied /\ ~ Faulty(m, e, effect)
    THEN Recover(p, m, e.token) ELSE p

\* The projection with the market's health, and the recorded outcome.
Record(p, m, sequence, applied, why, fault) ==
    LET health == IF p.health[m] = None THEN "recovering" ELSE p.health[m]
    IN  [p |-> IF m = None THEN p
               ELSE [p EXCEPT !.health[m] = health, !.sequence[m] = sequence],
         outcome |-> [applied |-> applied, why |-> why, fault |-> fault, market |-> m,
                      sequence |-> sequence, status |-> IF m = None THEN None ELSE health]]

\* A ready market whose books an accepted event left not executable is quarantined too.
Settle(before, m, e, effect, p, consistent) ==
    LET faulty == Faulty(m, e, effect)
        spoilt == Local(m, e) /\ ~ faulty /\ Started(before, m).health[m] = "ready"
                    /\ ~ Executable(p, m)
        after  == IF spoilt THEN Quarantine(p, m, e.token) ELSE p
        why    == IF faulty THEN None ELSE effect.why
    IN  Record(Readiness(after, why, consistent), m,
               IF m = None THEN 0 ELSE before.sequence[m] + 1, effect.applied, why,
               IF faulty THEN effect.why
               ELSE IF spoilt THEN "market_book_not_executable" ELSE None)

\* evaluate_event: the next projection and the recorded outcome.  Facts follow the
\* books once the event is applied and its fault is marked.
Reconciled(before, m, e, effect, marked) ==
    Settle(before, m, e, effect, Collected(Reconcile(marked), m, e, effect), Reconciles(marked))
Judged(before, m, e, effect) == Reconciled(before, m, e, effect, Marked(m, e, effect))
Applied(before, m, e, start) == Judged(before, m, e, Effect(start, Persisted(start, e)))
Evaluate(before, e) ==
    LET m == EventMarket(before, e) IN Applied(before, m, e, Started(before, m))

-----------------------------------------------------------------------------
(* The writer, its checkpoints and its restarts *)

Init ==
    /\ live = Bootstrap /\ shadow = Bootstrap /\ diverged = FALSE
    /\ consumer = [t \in Tokens |-> NoBook]
    /\ fresh = {}

\* A consumer of the public stream takes accepted books and level changes.
Consume(e, outcome, p) ==
    [t \in Tokens |->
       IF p.books[t] = NoBook THEN NoBook
       ELSE IF e.kind \notin TokenKinds \/ ~ outcome.applied THEN consumer[t]
       ELSE IF t # e.token THEN consumer[t]
       ELSE IF e.kind = "book" THEN p.books[t]
       ELSE IF e.kind \in {"delta", "atomic"} THEN ApplyLevels(consumer[t], e.changes)
       ELSE consumer[t]]

Receive ==
    \E e \in Inputs :
      LET persisted == Persisted(live, e)
          a == Evaluate(live, e)
          r == Evaluate(shadow, persisted)
      IN  /\ live.cursor < MaxCursor
          /\ live' = a.p /\ shadow' = r.p
          /\ diverged' = (diverged \/ a.outcome # r.outcome)
          /\ consumer' = Consume(persisted, a.outcome, a.p)
          /\ fresh' = {t \in fresh \cup (IF e.kind = "book" /\ a.outcome.applied
                                         THEN {e.token} ELSE {}) :
                         /\ a.p.health[MarketOf[t]] # "quarantined"
                         /\ a.p.markets[MarketOf[t]] = "active"}

\* Mutant: the checkpoint leaves out the books a recovery has collected.
CheckpointForgets ==
    /\ shadow' = Prune([live EXCEPT !.recovery = [m \in Markets |-> {}]])
    /\ UNCHANGED <<live, diverged, consumer, fresh>>

\* A checkpoint of the published projection becomes the base of recovery.
Checkpoint ==
    /\ shadow' = Prune(live)
    /\ UNCHANGED <<live, diverged, consumer, fresh>>

\* The process ends and a new one recovers; the base stays what it was.
Restart ==
    /\ ~ diverged
    /\ live' = Prune(shadow)
    /\ UNCHANGED <<shadow, diverged, consumer, fresh>>

Next == Receive \/ Checkpoint \/ Restart

Spec == Init /\ [][Next]_vars

-----------------------------------------------------------------------------
(* Properties *)

\* Replay never meets an outcome other than the recorded one, so a store this
\* code wrote can always be opened again (replay_after_checkpoint).
ReplayNeverDiverges == ~ diverged

\* A ready projection offers only markets whose two books are executable.
ReadyIsExecutable ==
    live.ready /\ live.catalog => \A m \in PublicMarkets(live) : Executable(live, m)

\* A restart recovers the published projection, but for gaps of tokens whose
\* market once left the catalog: recovery prunes them and the writer does not.
\* Such a token has no book, so no later event is judged differently.
RecoveryMatches ==
    LET same(p) == [p EXCEPT !.gaps = {}, !.ready = FALSE, !.reason = None]
        differ  == (live.gaps \cup shadow.gaps) \ (live.gaps \cap shadow.gaps)
    IN  /\ same(shadow) = same(live)
        /\ \A g \in differ : g \in Tokens /\ live.books[g] = NoBook

\* The persisted changes alone rebuild the levels of a book: the removals that
\* the venue's best prices imply are part of them (replay_complete_atomic_changes).
DeltasAreComplete ==
    \A t \in Tokens : live.books[t] # NoBook =>
      /\ consumer[t].bids = live.books[t].bids
      /\ consumer[t].asks = live.books[t].asks

\* A market becomes ready only after a full book of each of its outcomes since
\* it was quarantined or entered the catalog.
RecoveryIsAtomic ==
    [][\A m \in Markets :
         (live.health[m] \notin {None, "ready"} /\ live'.health[m] = "ready"
            /\ live'.cursor > live.cursor)
           => TokensOf(m) \subseteq fresh']_vars

\* A fault of one market leaves the books and the health of every other market
\* as they are.
FaultsAreLocal ==
    [][\A m, k \in Markets :
         (m # k /\ live'.health[m] = "quarantined" /\ live.health[m] # "quarantined")
           => /\ live'.health[k] = live.health[k]
              /\ \A t \in TokensOf(k) : live'.books[t] = live.books[t]]_vars

============================================================================
