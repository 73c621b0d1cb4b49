------------------------- MODULE MCCommissionLedger -------------------------
(* CommissionLedger for TLC: an order whose price falls between its two      *)
(* trades, on two days, and one whose two trades cost the same.              *)
EXTENDS CommissionLedger, TLC

CONSTANTS o1, o2, t1, t2, t3, t4

MCOrderID   == {o1, o2}
MCTrade     == {t1, t2, t3, t4}
MCDay       == {1, 2}
MCOrderOf   == t1 :> o1 @@ t2 :> o1 @@ t3 :> o2 @@ t4 :> o2
MCDayOf     == t1 :> 1 @@ t2 :> 2 @@ t3 :> 2 @@ t4 :> 2
MCRate      == t1 :> 4 @@ t2 :> 2 @@ t3 :> 2 @@ t4 :> 2
=============================================================================
