------------------------ MODULE MCMarketProjection ------------------------
(* Two markets with two outcomes each, and the events of the runs. *)
EXTENDS MarketProjection, TLC

T == {"t1", "t2", "u1", "u2"}
M == {"m", "n"}
Of == [t \in T |-> IF t \in {"t1", "t2"} THEN "m" ELSE "n"]

Group == M

Base(kind) == [kind |-> kind, delayed |-> FALSE]
Times(observed, received) == [observed |-> observed, received |-> received]

FullBook(t, bids, asks, tick, http, at) ==
    [token |-> t, bids |-> bids, asks |-> asks, tick |-> tick, http |-> http]
      @@ Times(at, at) @@ Base("book")
Level(side, price, zero) == [side |-> side, price |-> price, zero |-> zero]
Atomic(t, changes, bid, ask, observed, received) ==
    [token |-> t, changes |-> changes, bid |-> bid, ask |-> ask]
      @@ Times(observed, received) @@ Base("atomic")
Catalog(active) ==
    [active |-> active, fact |-> [m \in M |-> 1], valid |-> TRUE] @@ Base("catalog")
Gap(t, boundary) == [token |-> t, boundary |-> boundary] @@ Times(1, 1) @@ Base("gap")
Resolved(m, valid) == [market |-> m, valid |-> valid] @@ Base("resolved")
Good(t) == FullBook(t, {2}, {4}, 1, FALSE, 1)
Late(e) == [e EXCEPT !.delayed = TRUE]

\* Every kind of book event on the outcomes of one market.
BookInputs ==
    {Catalog({"m"}), Good("t1"), Good("t2"),
     FullBook("t1", {2, 3}, {4}, 1, TRUE, 2), FullBook("t1", {2}, {}, 1, FALSE, 2),
     FullBook("t1", {4}, {2}, 1, FALSE, 1), FullBook("t1", {1}, {4}, 2, FALSE, 1),
     Atomic("t1", {Level("bid", 3, FALSE)}, 3, 4, 2, 2),
     Atomic("t1", {Level("bid", 3, FALSE)}, 2, 4, 2, 1),
     Atomic("t1", {Level("ask", 4, TRUE)}, 2, One, 2, 2),
     Late(Atomic("t1", {Level("bid", 1, FALSE)}, NoPrice, NoPrice, 1, 2)),
     [token |-> "t1", changes |-> {Level("bid", 4, FALSE)}] @@ Times(2, 2) @@ Base("delta"),
     [token |-> "t1", changes |-> {Level("bid", 1, FALSE)}] @@ Times(2, 2) @@ Base("delta"),
     [token |-> "t1", bid |-> 2, ask |-> 4] @@ Times(2, 2) @@ Base("bbo"),
     [token |-> "t1", price |-> 3] @@ Times(2, 2) @@ Base("trade"),
     [token |-> "t1", old |-> 1, tick |-> 2] @@ Times(2, 2) @@ Base("tick"),
     [token |-> "t2", old |-> 0, tick |-> 2] @@ Times(2, 2) @@ Base("tick"),
     Gap("t1", FALSE)}

\* Catalogs that change the scope, resolutions and gaps of two markets.
ScopeInputs ==
    {Catalog(active) : active \in {{"m"}, {"m", "n"}}}
      \cup {[Catalog({"m"}) EXCEPT !.valid = FALSE], Base("new"), Late(Base("new")),
            Resolved("m", TRUE), Resolved("m", FALSE)}
      \cup {Good(t) : t \in T}
      \cup {Gap("t1", FALSE), Gap("t2", TRUE),
            Atomic("t1", {Level("bid", 3, FALSE)}, NoPrice, NoPrice, 2, 2)}

\* Both together.
AllInputs == BookInputs \cup ScopeInputs
============================================================================
