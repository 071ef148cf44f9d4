------------------------------ MODULE MCMarketData ------------------------------
(* Instances of MarketData for TLC. *)
EXTENDS MarketDataProperties, TLC

CONSTANTS c1, c2, i1, i2

Symmetric == Permutations(Clients)
===============================================================================
