----------------------------- MODULE RiskLimits -----------------------------
(***************************************************************************)
(* The decisions of internal/risk, shared by the agent and the backtest:   *)
(* the daily loss limit, the limit on the value of a position and the      *)
(* pause.                                                                  *)
(***************************************************************************)
EXTENDS Statistics

CONSTANTS
    MaxDailyLoss,       \* the limit, or None
    MaxPositionValue,   \* the limit, or None
    Mode,               \* "realized" or "total"
    None                \* no limit, no price

\* NewManager: a limit, if there is one, is positive.
ValidLimits ==
    /\ MaxDailyLoss \in (Nat \ {0}) \cup {None}
    /\ MaxPositionValue \in (Nat \ {0}) \cup {None}
    /\ Mode \in {"realized", "total"}
    /\ None \notin Int

ASSUME LimitsAssumption == ValidLimits

\* What the day made, as the mode counts it.
DailyAmount(pnl) == IF Mode = "realized" THEN RealizedNet(pnl) ELSE Total(pnl)

\* Mutant: the limit itself is still within the limit.
LossExceeded(pnl) == MaxDailyLoss # None /\ DailyAmount(pnl) < -MaxDailyLoss

\* Equality is a breach.
LossReached(pnl) == MaxDailyLoss # None /\ DailyAmount(pnl) <= -MaxDailyLoss

Running == "running"
Paused  == "risk_paused"

\* Mutant: the signal is judged by the position before it.
UnchangedPosition(position, signal) == position

Projected(position, signal) ==
    CASE signal.action = "buy"   -> position + signal.quantity
      [] signal.action = "sell"  -> position - signal.quantity
      [] signal.action = "close" -> 0

\* A limit order is valued at its limit.
Valuation(signal, snapshot) ==
    IF signal.limit = None THEN snapshot.mark ELSE signal.limit

TooLarge(signal, snapshot) ==
    /\ MaxPositionValue # None
    /\ Abs(Projected(snapshot.position, signal)) * Valuation(signal, snapshot)
           > MaxPositionValue

\* A snapshot of another trading day pauses.
Observe(snapshot, today) ==
    CASE snapshot.day # today -> "pause"
      [] snapshot.day = today /\ snapshot.status # Running -> "reject"
      [] snapshot.day = today /\ snapshot.status = Running ->
             IF LossReached(snapshot.daily) THEN "pause" ELSE "allow"

Evaluate(signal, snapshot, today) ==
    IF Observe(snapshot, today) = "allow" /\ TooLarge(signal, snapshot)
    THEN "reject"
    ELSE Observe(snapshot, today)

\* A reject leaves the status alone, and nothing but Resume weakens a pause.
StatusAfter(status, decision) == IF decision = "pause" THEN Paused ELSE status
=============================================================================
