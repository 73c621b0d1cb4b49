------------------------------ MODULE Backtest ------------------------------
(***************************************************************************)
(* One backtest run: the event loop of internal/backtest/runner.go with    *)
(* the CSV iterator (dataset.go), the simulated broker (broker.go), the    *)
(* managed risk (managed_risk.go) and the report (report.go).              *)
(*                                                                         *)
(* Time is counted in the iterator's unit; a candle lasts Interval.  The   *)
(* dataset and the strategy's answers are arbitrary.  The id of an order   *)
(* is a hash of its signal's id: any id that is not taken.  Amounts have   *)
(* no fractions in the instances; percentages are chosen accordingly.      *)
(***************************************************************************)
EXTENDS RiskLimits, Sequences, SequencesExt

CONSTANTS
    Candle,             \* [open, high, low, close]: candles a row may hold
    Draft,              \* [action, quantity, limit]: signals it may ask for
    Interval,           \* length of a candle
    Spacing,            \* differences of the timestamps of two candles
    GapPolicy,          \* "fail", "allow" or "mark"
    DayLength,          \* length of a trading day
    InitialCash,
    TickSize,
    CommissionPercent,
    SlippageBPS,
    MaxRows,            \* bound on the candles of the dataset
    MaxSignals,         \* bound on the signals of an event
    MaxOrders           \* bound on the orders of the run

ASSUME BacktestAssumption ==
    /\ Candle \subseteq [open : Nat \ {0}, high : Nat \ {0}, low : Nat \ {0}, close : Nat \ {0}]
    /\ \A c \in Candle : /\ c.low <= c.open /\ c.open <= c.high
                         /\ c.low <= c.close /\ c.close <= c.high
    /\ Draft \subseteq [action : {"buy", "sell", "close"}, quantity : Nat \ {0},
                        limit : (Nat \ {0}) \cup {None}]
    /\ Interval \in Nat \ {0} /\ Spacing \subseteq Int /\ DayLength \in Nat \ {0}
    /\ GapPolicy \in {"fail", "allow", "mark"}
    /\ InitialCash \in Nat /\ TickSize \in Nat \ {0}
    /\ CommissionPercent \in 0 .. 100 /\ SlippageBPS \in 0 .. 9999
    /\ MaxRows \in Nat /\ MaxSignals \in Nat /\ MaxOrders \in Nat

VARIABLES
    pc,             \* what the loop does next
    candles,        \* the candles read so far, each with its start
    gaps,           \* gaps the iterator has marked
    broker,         \* [cash, position, orders, commissions, slippageCost]
    fresh,          \* executions of the current event
    book,           \* the book of the risk evaluator
    baseline,       \* the book when the trading day began
    day,            \* the trading day, or None
    status,         \* running or risk_paused
    queue,          \* signals of the current event not evaluated yet
    report,         \* the report's own book and counters
    opening         \* equity after the fills of the day's first event

loopVars == <<pc, candles, gaps, broker, fresh, book, baseline, day, status, queue,
          report, opening>>

Ids   == 1 .. MaxOrders
Order == [side : {"buy", "sell"}, quantity : Nat \ {0}, limit : (Nat \ {0}) \cup {None},
          cause : Nat, status : {"accepted", "filled", "rejected"}]

Current == candles[Len(candles)]
End(row) == row.start + Interval

\* TradingDayPolicy.At: a candle belongs to the day in which it ends.
DayAt(time) == time \div DayLength

Equity == broker.cash + broker.position * (IF candles = <<>> THEN 0 ELSE Current.close)

LoopInit ==
    /\ pc = "next" /\ candles = <<>> /\ gaps = 0
    /\ broker = [cash |-> InitialCash, position |-> 0, orders |-> [i \in Ids |-> None],
                 commissions |-> 0, slippageCost |-> 0]
    /\ fresh = <<>>
    /\ book = EmptyBook /\ baseline = EmptyBook /\ day = None /\ status = Running
    /\ queue = <<>>
    /\ report = [book |-> EmptyBook, closed |-> 0, winning |-> 0, losing |-> 0,
                 grossProfit |-> 0, grossLoss |-> 0, peak |-> InitialCash,
                 drawdown |-> 0, drawdownPct |-> 0, exposure |-> 0,
                 rejections |-> 0, pauses |-> 0]
    /\ opening = InitialCash
-----------------------------------------------------------------------------
(* The iterator *)

Aligned(delta) == delta > 0 /\ delta % Interval = 0
IsGap(delta)   == delta # Interval

\* A row that is out of order, off the interval or, if the policy says so,
\* after a gap ends the run.
RowRefused(delta) ==
    /\ pc = "next" /\ candles # <<>> /\ Len(candles) < MaxRows
    /\ ~Aligned(delta) \/ (IsGap(delta) /\ GapPolicy = "fail")
    /\ pc' = "failed"
    /\ UNCHANGED <<candles, gaps, broker, fresh, book, baseline, day, status, queue, report, opening>>

NextRow(candle, delta) ==
    /\ pc = "next" /\ Len(candles) < MaxRows
    /\ candles # <<>> => Aligned(delta) /\ ~(IsGap(delta) /\ GapPolicy = "fail")
    /\ LET start == IF candles = <<>> THEN 0 ELSE Current.start + delta
       IN  candles' = Append(candles, [start |-> start, open |-> candle.open, high |-> candle.high,
                                       low |-> candle.low, close |-> candle.close])
    /\ gaps' = IF candles # <<>> /\ IsGap(delta) /\ GapPolicy = "mark" THEN gaps + 1 ELSE gaps
    /\ pc' = "broker"
    /\ UNCHANGED <<broker, fresh, book, baseline, day, status, queue, report, opening>>
-----------------------------------------------------------------------------
(* The simulated broker *)

\* Mutant: a limit is only touched when the candle goes through it.
TouchedThrough(order) ==
    CASE order.limit = None -> TRUE
      [] order.limit # None /\ order.side = "buy"  -> Current.low < order.limit
      [] order.limit # None /\ order.side = "sell" -> Current.high > order.limit

Touched(order) ==
    CASE order.limit = None -> TRUE
      [] order.limit # None /\ order.side = "buy"  -> Current.low <= order.limit
      [] order.limit # None /\ order.side = "sell" -> Current.high >= order.limit

\* rawFill: the open, or the limit if the open is on its other side.
RawPrice(order) ==
    CASE order.limit = None -> Current.open
      [] order.limit # None /\ order.side = "buy"  -> Least(Current.open, order.limit)
      [] order.limit # None /\ order.side = "sell" ->
             IF Current.open > order.limit THEN Current.open ELSE order.limit

\* adverseRound: a buy is rounded up to a tick, a sell down.
Slipped(order, raw) ==
    LET buy  == raw * (10000 + SlippageBPS)
        sell == raw * (10000 - SlippageBPS)
        unit == 10000 * TickSize
    IN  TickSize * (IF order.side = "buy" THEN (buy + unit - 1) \div unit ELSE sell \div unit)

Commission(notional) == (notional * CommissionPercent) \div 100

Payable(state, order, price) ==
    IF order.side = "buy"
    THEN state.cash >= price * order.quantity + Commission(price * order.quantity)
    ELSE state.position >= order.quantity

CashAfter(cash, signed, price, fee) == cash - signed * price - fee

Marked(orders, id, end) == [orders EXCEPT ![id] = [orders[id] EXCEPT !.status = end]]

Filled(state, id, price) ==
    LET order    == state.broker.orders[id]
        signed   == IF order.side = "buy" THEN order.quantity ELSE -order.quantity
        fee      == Commission(price * order.quantity)
        slippage == Abs(price - RawPrice(order)) * order.quantity
    IN  [broker |-> [cash         |-> CashAfter(state.broker.cash, signed, price, fee),
                     position     |-> state.broker.position + signed,
                     orders       |-> Marked(state.broker.orders, id, "filled"),
                     commissions  |-> state.broker.commissions + fee,
                     slippageCost |-> state.broker.slippageCost + slippage],
         executions |-> Append(state.executions,
                               [id |-> id, side |-> order.side, quantity |-> order.quantity,
                                price |-> price, commission |-> fee]),
         failed |-> FALSE]

\* An order is not filled by the candle it was caused by.
Waits(order) == Current.start < order.cause

Waiting(order) == order # None /\ order.status = "accepted"

\* An accepted order that can be filled is filled or, without the means,
\* rejected.  A price of nothing ends the run.
FillOrder(state, id) ==
    LET order == state.broker.orders[id]
        price == Slipped(order, RawPrice(order))
    IN  IF state.failed \/ ~Waiting(order) \/ Waits(order) \/ ~Touched(order)
        THEN state
        ELSE IF price <= 0
        THEN [state EXCEPT !.failed = TRUE]
        ELSE IF Payable(state.broker, order, price)
        THEN Filled(state, id, price)
        ELSE [state EXCEPT !.broker = [state.broker EXCEPT !.orders = Marked(@, id, "rejected")]]

\* The orders one after the other, in the order of their ids.
BeforeFills == [broker |-> broker, executions |-> <<>>, failed |-> FALSE]
Fills(n)    == FoldLeft(FillOrder, BeforeFills, [i \in 1 .. n |-> i])

OnMarketEvent ==
    /\ pc = "broker"
    /\ LET after == Fills(MaxOrders)
       IN  IF after.failed
           THEN pc' = "failed" /\ UNCHANGED <<broker, fresh>>
           ELSE pc' = "observe" /\ broker' = after.broker /\ fresh' = after.executions
    /\ UNCHANGED <<candles, gaps, book, baseline, day, status, queue, report, opening>>
-----------------------------------------------------------------------------
(* Report and risk *)

\* Mutant: a fill that adds to a position takes over its price.
ReportAverageOfLast(own, signed, price) ==
    IF own.position + signed = 0 THEN 0 ELSE price

\* The report keeps a book of its own.
ReportAverage(own, signed, price) ==
    LET left == own.position + signed
    IN  CASE Opens(own.position, signed) -> Averaged(own.position, own.average, signed, price)
          [] ~Opens(own.position, signed) /\ left = 0 -> 0
          [] ~Opens(own.position, signed) /\ left # 0 ->
                 IF Sign(left) # Sign(own.position) THEN price ELSE own.average

ReportFill(r, execution) ==
    LET own    == r.book
        signed == SignedQuantity(execution)
        closes == ~Opens(own.position, signed)
        made   == IF closes
                  THEN (execution.price - own.average) * Sign(own.position)
                           * Least(Abs(own.position), Abs(signed))
                  ELSE 0
    IN  [r EXCEPT
            !.book          = [own EXCEPT !.realized = @ + made, !.position = @ + signed,
                                          !.average = ReportAverage(own, signed, execution.price)],
            !.closed        = IF closes THEN @ + 1 ELSE @,
            !.winning       = IF made > 0 THEN @ + 1 ELSE @,
            !.losing        = IF made < 0 THEN @ + 1 ELSE @,
            !.grossProfit   = IF made > 0 THEN @ + made ELSE @,
            !.grossLoss     = IF made < 0 THEN @ - made ELSE @]

\* The percentage is the one of the largest drawdown.
ObserveEquity(r) ==
    LET peak == IF Equity > r.peak THEN Equity ELSE r.peak
    IN  IF peak - Equity > r.drawdown
        THEN [r EXCEPT !.peak = peak, !.drawdown = peak - Equity,
                       !.drawdownPct = IF peak > 0 THEN ((peak - Equity) * 100) \div peak ELSE @]
        ELSE [r EXCEPT !.peak = peak]

\* A position that was open before the event has been open since the last one.
Exposed(r) ==
    IF r.book.position # 0 /\ Len(candles) > 1
    THEN [r EXCEPT !.exposure = @ + Current.start - candles[Len(candles) - 1].start]
    ELSE r

ReportObserve(r) == ObserveEquity(FoldLeft(ReportFill, Exposed(r), fresh))

Snapshot(daily) ==
    [status |-> status, day |-> DayAt(End(Current)), position |-> book.position,
     mark |-> Current.close, daily |-> daily]

Today == DayAt(End(Current))

CountPause(decision) == IF decision = "pause" THEN 1 ELSE 0

\* ManagedRiskEvaluator.Observe: the event is applied to the book first, and a
\* new day begins with the book it left.
RiskObserve ==
    LET marked == MarkToMarket(FoldLeft(ApplyExecution, book, fresh), Current.close)
        base   == IF day # Today THEN marked ELSE baseline
        shot   == [status |-> status, day |-> Today, position |-> marked.position,
                   mark |-> Current.close, daily |-> Delta(marked, base)]
        decision == Observe(shot, Today)
    IN  /\ book' = marked /\ baseline' = base /\ day' = Today
        /\ status' = StatusAfter(status, decision)
        /\ report' = [ReportObserve(report) EXCEPT !.pauses = @ + CountPause(decision)]

ObserveEvent ==
    /\ pc = "observe" /\ pc' = "strategy"
    /\ RiskObserve
    /\ opening' = IF day # Today THEN Equity ELSE opening
    /\ UNCHANGED <<candles, gaps, broker, fresh, queue>>
-----------------------------------------------------------------------------
(* Strategy and signals *)

OnEvent(signals) ==
    /\ pc = "strategy" /\ pc' = "signals"
    /\ queue' = signals
    /\ UNCHANGED <<candles, gaps, broker, fresh, book, baseline, day, status, report, opening>>

Decision == Evaluate(Head(queue), Snapshot(Delta(book, baseline)), Today)

\* requestForSignal: a close is sold with the quantity of its signal.
Requested(signal) ==
    [side |-> IF signal.action = "buy" THEN "buy" ELSE "sell", quantity |-> signal.quantity,
     limit |-> signal.limit, cause |-> End(Current), status |-> "accepted"]

OnTick(signal) == signal.limit # None => signal.limit % TickSize = 0

Refuse ==
    /\ pc = "signals" /\ queue # <<>> /\ Decision # "allow"
    /\ status' = StatusAfter(status, Decision)
    /\ report' = [report EXCEPT !.rejections = @ + 1]
    /\ queue' = Tail(queue)
    /\ UNCHANGED <<pc, candles, gaps, broker, fresh, book, baseline, day, opening>>

Submit(id) ==
    /\ pc = "signals" /\ queue # <<>> /\ Decision = "allow"
    /\ OnTick(Head(queue))
    /\ broker.orders[id] = None
    /\ broker' = [broker EXCEPT !.orders[id] = Requested(Head(queue))]
    /\ queue' = Tail(queue)
    /\ UNCHANGED <<pc, candles, gaps, fresh, book, baseline, day, status, report, opening>>

\* A limit off the tick ends the run.
SubmitRefused ==
    /\ pc = "signals" /\ queue # <<>> /\ Decision = "allow"
    /\ ~OnTick(Head(queue))
    /\ pc' = "failed"
    /\ UNCHANGED <<candles, gaps, broker, fresh, book, baseline, day, status, queue, report, opening>>

EventDone ==
    /\ pc = "signals" /\ queue = <<>>
    /\ pc' = "next" /\ fresh' = <<>>
    /\ report' = ObserveEquity(report)
    /\ UNCHANGED <<candles, gaps, broker, book, baseline, day, status, queue, opening>>

\* The result the report states: Finalize.
Totals ==
    [total |-> Equity - InitialCash, realized |-> report.book.realized,
     unrealized |-> IF candles = <<>> THEN 0
                    ELSE MarkToMarket(report.book, Current.close).unrealized]

Finish ==
    /\ pc = "next" /\ pc' = "done"
    /\ UNCHANGED <<candles, gaps, broker, fresh, book, baseline, day, status, queue, report, opening>>
-----------------------------------------------------------------------------
LoopNext ==
    \/ \E candle \in Candle, delta \in Spacing : NextRow(candle, delta)
    \/ \E delta \in Spacing : RowRefused(delta)
    \/ OnMarketEvent
    \/ ObserveEvent
    \/ \E signals \in BoundedSeq(Draft, MaxSignals) : OnEvent(signals)
    \/ Refuse
    \/ \E id \in Ids : Submit(id)
    \/ SubmitRefused
    \/ EventDone
    \/ Finish

LoopSpec == LoopInit /\ [][LoopNext]_loopVars
-----------------------------------------------------------------------------
(* Correctness *)

Settled == pc \in {"strategy", "signals", "next", "done"}

\* Nothing is bought on credit and nothing sold short (broker.go:216-229).
LoopTypeOK ==
    /\ pc \in {"next", "broker", "observe", "strategy", "signals", "done", "failed"}
    /\ Len(candles) <= MaxRows /\ gaps \in Nat
    /\ broker.cash \in Nat /\ broker.position \in Nat
    /\ broker.commissions \in Nat /\ broker.slippageCost \in Nat
    /\ \A i \in Ids : broker.orders[i] \in Order \cup {None}
    /\ status \in {Running, Paused}
    /\ report.peak \in Nat /\ report.drawdown \in Nat /\ report.exposure \in Nat

\* What broker, risk and report keep each on its own.
BooksMatch ==
    /\ book.position = broker.position /\ report.book.position = broker.position
    /\ book.average = report.book.average
    /\ book.realized = report.book.realized
    /\ book.commissions = broker.commissions
    /\ Totals.realized = report.grossProfit - report.grossLoss

AddsUp == Totals.total = Totals.realized + Totals.unrealized - broker.commissions

PausesCounted == report.pauses = IF status = Paused THEN 1 ELSE 0

\* Broker, risk and report each keep the position, and risk and report each
\* work out its average and the realized result: they agree after each event
\* (broker.go:216-229, reducer.go:99-127, report.go:113-151).  The report adds
\* up: the change of equity is the realized and the unrealized result less
\* commissions, the realized result is profits less losses, and a run that
\* paused has counted one pause (report.go:176-196, runner.go:72-79).
LedgersAgree == LoopTypeOK /\ PausesCounted /\ (Settled => BooksMatch /\ AddsUp)

\* An order that is still accepted could not have been filled: no candle since
\* its signal has touched its limit, and a market order has seen no candle
\* (docs/specs/strategy-backtest-contracts.md, 9.1 to 9.3; broker.go:157-184).
TouchedMeansFilled ==
    Settled =>
        \A i \in {j \in Ids : Waiting(broker.orders[j])}, n \in DOMAIN candles :
            LET order == broker.orders[i]
            IN  candles[n].start >= order.cause =>
                    /\ order.limit # None
                    /\ IF order.side = "buy" THEN candles[n].low > order.limit
                                             ELSE candles[n].high < order.limit

\* A loss of equity that reaches the limit has paused the strategy before it
\* sees the event (strategy-backtest-contracts.md, 11; managed_risk.go:57-66),
\* counted from the fills of the day's first event on, the last the baseline
\* waits for.  The pause lasts until the run ends: no order is submitted
\* meanwhile (manager.go:128, managed_risk.go:88-96).
LimitReached == Settled /\ MaxDailyLoss # None /\ Equity - opening <= -MaxDailyLoss
LossEndsTrading ==
    [][/\ LimitReached' => status' = Paused
       /\ status = Paused =>
              /\ status' = Paused
              /\ \A i \in Ids : broker.orders[i] = None => broker'.orders[i] = None]_loopVars
=============================================================================
