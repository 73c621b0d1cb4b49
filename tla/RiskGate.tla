------------------------------ MODULE RiskGate ------------------------------
(***************************************************************************)
(* The risk gate of the agent over the positions and the daily statistics  *)
(* in the database: internal/agent/risk.go and signal_pipeline.go around   *)
(* the decisions of RiskLimits, with the projections of                    *)
(* internal/storage/sqlite/fill.go.  One strategy and one instrument.      *)
(*                                                                         *)
(* A market event moves the gate's clock and its mark price; the strategy  *)
(* may answer with a signal; an allowed signal becomes an order, which the *)
(* exchange fills at a later price.  The account is not allowed to go      *)
(* short.  Status and mark live in memory, everything else survives a      *)
(* restart, the signal too.  The built-in strategies only ask for market   *)
(* orders, so no signal here has a limit.                                  *)
(***************************************************************************)
EXTENDS RiskLimits, Sequences, SequencesExt, FiniteSetsExt

CONSTANTS
    Price,          \* prices the market may have
    Lots,           \* quantities the strategy may ask for
    Action,         \* actions it may ask for
    Fee,            \* commission of a fill
    DayLength,      \* ticks of a trading day
    MaxTime,        \* bound on time
    MaxOpen,        \* orders that wait for their fill at the same time
    MaxPosition,    \* bound on the position
    MaxFills,       \* bound on the number of fills
    MaxRestarts     \* bound on restarts

ASSUME GateAssumption ==
    /\ Price \subseteq Nat \ {0} /\ Lots \subseteq Nat \ {0}
    /\ Action \subseteq {"buy", "sell", "close"} /\ Fee \in Nat
    /\ DayLength \in Nat \ {0} /\ MaxTime \in Nat /\ MaxOpen \in Nat
    /\ MaxPosition \in Nat /\ MaxFills \in Nat /\ MaxRestarts \in Nat

VARIABLES
    clock,          \* time of the last event
    mark,           \* the gate's mark price, or None
    status,         \* the gate's status
    signal,         \* the signal waiting for a decision, or None
    open,           \* orders placed and not filled
    position,       \* positions.quantity
    average,        \* positions.average_price
    realized,       \* daily_statistics.realized_pnl
    commissions,    \* daily_statistics.commissions
    cash,           \* money the broker moved for this strategy
    opening,        \* its equity when the trading day began
    fills,          \* fills so far (bound)
    restarts        \* restarts so far (bound)

ledger == <<position, average, realized, commissions, cash>>
vars   == <<clock, mark, status, signal, open, ledger, opening, fills, restarts>>

Days   == 0 .. (MaxTime \div DayLength)
Signal == [action : Action, quantity : Lots, limit : {None}]
Order  == [side : {"buy", "sell"}, quantity : Lots]

SumOf(amount) == MapThenSumSet(LAMBDA d : amount[d], Days)

\* TradingDayPolicy.At
DayAt(time) == time \div DayLength
Today == DayAt(clock)

Unrealized(price) == (price - average) * position

\* What the strategy is worth to the broker at the given price.
Equity(price) == cash + position * price

TypeOK ==
    /\ clock \in 0 .. MaxTime
    /\ mark \in Price \cup {None}
    /\ status \in {Running, Paused}
    /\ signal \in Signal \cup {None}
    /\ open \in Seq(Order) /\ Len(open) <= MaxOpen
    /\ position \in 0 .. MaxPosition
    /\ average \in Nat
    /\ realized \in [Days -> Int] /\ commissions \in [Days -> Nat]
    /\ cash \in Int /\ opening \in Int
    /\ fills \in 0 .. MaxFills /\ restarts \in 0 .. MaxRestarts

Init ==
    /\ clock = 0 /\ mark = None /\ status = Running
    /\ signal = None /\ open = <<>>
    /\ position = 0 /\ average = 0
    /\ realized = [d \in Days |-> 0] /\ commissions = [d \in Days |-> 0]
    /\ cash = 0 /\ opening = 0
    /\ fills = 0 /\ restarts = 0
-----------------------------------------------------------------------------
\* Mutant: a new trading day starts with a running gate.
ObserveResumes(price, time) ==
    /\ signal = None \/ mark = None
    /\ mark' = price /\ clock' = time
    /\ status' = IF DayAt(time) # Today THEN Running ELSE status
    /\ opening' = IF DayAt(time) # Today THEN Equity(price) ELSE opening
    /\ UNCHANGED <<signal, open, ledger, fills, restarts>>

\* ObserveMarket; a new trading day opens at the price of its first event.
ObserveMarket(price, time) ==
    /\ signal = None \/ mark = None
    /\ mark' = price /\ clock' = time
    /\ opening' = IF DayAt(time) # Today THEN Equity(price) ELSE opening
    /\ UNCHANGED <<status, signal, open, ledger, fills, restarts>>

\* The strategy answers an event.
Emit(s) ==
    /\ signal = None /\ mark # None
    /\ Len(open) < MaxOpen
    /\ signal' = s
    /\ UNCHANGED <<clock, mark, status, open, ledger, opening, fills, restarts>>

DailyPnL ==
    [realized |-> realized[Today], commissions |-> commissions[Today],
     unrealized |-> Unrealized(mark)]

Snapshot ==
    [status |-> status, day |-> Today, position |-> position, mark |-> mark,
     daily |-> DailyPnL]

\* A close is sold with the quantity of its signal.
OrderFor(s) ==
    [side |-> IF s.action = "buy" THEN "buy" ELSE "sell", quantity |-> s.quantity]

Decision == Evaluate(signal, Snapshot, Today)

Decide ==
    /\ signal # None /\ mark # None
    /\ signal' = None
    /\ status' = StatusAfter(status, Decision)
    /\ open' = IF Decision = "allow" THEN Append(open, OrderFor(signal)) ELSE open
    /\ UNCHANGED <<clock, mark, ledger, opening, fills, restarts>>
-----------------------------------------------------------------------------
(* Fills *)

Buy(quantity, price) ==
    /\ position + quantity <= MaxPosition
    /\ position' = position + quantity
    /\ average' = IF position = 0
                  THEN price
                  ELSE (average * position + price * quantity) \div (position + quantity)
    /\ UNCHANGED realized

\* Mutant: a sell moves the average price like a buy.
SellAverages(quantity, price) ==
    /\ quantity <= position
    /\ position' = position - quantity
    /\ average' = (average + price) \div 2
    /\ realized' = [realized EXCEPT ![Today] = @ + (price - average) * quantity]

\* A sell realises against the average, which stays.
Sell(quantity, price) ==
    /\ quantity <= position
    /\ position' = position - quantity
    /\ UNCHANGED average
    /\ realized' = [realized EXCEPT ![Today] = @ + (price - average) * quantity]

\* The exchange fills the i-th order, and the drain applies it.
Fill(i, price) ==
    /\ i \in DOMAIN open /\ fills < MaxFills
    /\ fills' = fills + 1
    /\ LET order == open[i]
       IN  /\ IF order.side = "buy"
              THEN Buy(order.quantity, price)
              ELSE Sell(order.quantity, price)
           /\ cash' = cash - Fee + (IF order.side = "buy" THEN -1 ELSE 1)
                                   * order.quantity * price
    /\ commissions' = [commissions EXCEPT ![Today] = @ + Fee]
    /\ open' = RemoveAt(open, i)
    /\ UNCHANGED <<clock, mark, status, signal, opening, restarts>>

\* A new process builds a running gate.
Restart ==
    /\ restarts < MaxRestarts
    /\ restarts' = restarts + 1
    /\ mark' = None /\ status' = Running
    /\ UNCHANGED <<clock, signal, open, ledger, opening, fills>>
-----------------------------------------------------------------------------
Next ==
    \/ \E price \in Price, time \in {clock, clock + 1} :
           time <= MaxTime /\ ObserveMarket(price, time)
    \/ \E s \in Signal : Emit(s)
    \/ Decide
    \/ \E i \in 1 .. MaxOpen, price \in Price : Fill(i, price)
    \/ Restart

Spec == Init /\ [][Next]_vars
-----------------------------------------------------------------------------
(* Correctness *)

\* The profit and loss in the database is money: realized, minus commissions,
\* plus the position at any price, is what the broker moved (fill.go:192-283).
\* "Daily P&L is defined by the change of equity: current equity - start-of-day
\* equity" (docs/specs/implementation-plan.md:747): on the first day, which
\* begins without a position, the amount the gate compares with the limit is
\* the change of equity.  A position kept overnight brings its whole profit
\* since entry into the next day's amount (agent/risk.go:80-98).
ProfitIsMoney ==
    /\ TypeOK
    /\ \A price \in Price :
          SumOf(realized) - SumOf(commissions) + Unrealized(price) = Equity(price)
    /\ mark # None /\ Today = 0 => Total(DailyPnL) = Equity(mark) - opening

\* While a pause lasts no order is placed, and nothing in the process ends it:
\* no new day, no recovered price, no fill (manager.go:121-152, status.go:27).
PauseEndsTrading ==
    [][status = Paused =>
          /\ Len(open') <= Len(open)
          /\ status' = Paused \/ restarts' # restarts]_vars

\* The value of the position once the order is filled.
ValueWith(order) ==
    Abs(position + (IF order.side = "buy" THEN 1 ELSE -1) * order.quantity) * mark

\* An order is only placed while the day's loss, with every fill so far, is
\* above the limit, and none takes the position beyond the limit on its value,
\* unless another order is still waiting: the gate's snapshot lists no open
\* orders (manager.go:131, 136-151, 166-189).
NoOrderBeyondTheLimits ==
    [][/\ Len(open') > Len(open) =>
              MaxDailyLoss = None \/ DailyAmount(DailyPnL) > -MaxDailyLoss
       /\ \A order \in Order :
              open = <<>> /\ open' = <<order>> =>
                  MaxPositionValue = None \/ ValueWith(order) <= MaxPositionValue]_vars

\* "Resume is the only transition from risk_paused to running"
\* (internal/risk/status.go:27), and nothing here resumes.
PausedUntilResumed == [][status = Paused => status' = Paused]_vars
=============================================================================
