----------------------------- MODULE MCRiskGate -----------------------------
(* RiskGate for TLC: prices and positions chosen so that averages are exact. *)
EXTENDS RiskGate

MCPrice    == {16, 32}
MCLots     == {1}
MCAction   == {"buy", "sell"}
MCCloseToo == {"buy", "sell", "close"}
=============================================================================
