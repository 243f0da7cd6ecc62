---------------------------- MODULE MCMarketLane ----------------------------
EXTENDS MarketLane, TLC

\* The markets are interchangeable.
Interchangeable == Permutations(Markets)
=============================================================================
