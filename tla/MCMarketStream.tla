---------------------------- MODULE MCMarketStream ----------------------------
(* MarketStream for TLC: five candles, a channel of two events. *)
EXTENDS MarketStream

MCCandle == 1 .. 5
=============================================================================
