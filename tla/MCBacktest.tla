----------------------------- MODULE MCBacktest -----------------------------
(* Backtest for TLC: prices at which fees, slippage and averages are exact. *)
EXTENDS Backtest

Flat(price) == [open |-> price, high |-> price, low |-> price, close |-> price]

\* Low, high, rising, and a shadow that reaches down to the buyer's limit.
MCCandle == {Flat(50), Flat(200),
             [open |-> 100, high |-> 200, low |-> 100, close |-> 200],
             [open |-> 200, high |-> 200, low |-> 100, close |-> 200]}

\* The last limit is off the tick.
MCDraft == {[action |-> "buy", quantity |-> 1, limit |-> None],
            [action |-> "close", quantity |-> 1, limit |-> None],
            [action |-> "buy", quantity |-> 1, limit |-> 100],
            [action |-> "sell", quantity |-> 1, limit |-> 200],
            [action |-> "sell", quantity |-> 1, limit |-> 125]}

\* The next candle, one after a gap, and one off the interval.
MCSpacing == {2, 4, 3}
=============================================================================
