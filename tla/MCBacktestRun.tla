--------------------------- MODULE MCBacktestRun ---------------------------
(* BacktestRun for TLC: two processes that publish to one directory do the  *)
(* same run, the first one then another; the candles of d1 and d2 trade     *)
(* differently.                                                             *)
EXTENDS BacktestRun

CONSTANTS p1, p2, r1, r2, d1, d2, here

MCTrades    == [d \in Data |-> IF d = d2 THEN <<"t2">> ELSE <<"t1">>]
MCKinds     == r1 :> {"report", "trades"} @@ r2 :> {"trades"}
MCPlan      == p1 :> <<r1, r2>> @@ p2 :> <<r1>>
MCDirectory == [p \in Process |-> [r \in {r1, r2} |-> here]]
MCConfig    == [p \in Process |-> "c"]
=============================================================================
