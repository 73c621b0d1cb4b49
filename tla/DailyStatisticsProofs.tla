----------------------- MODULE DailyStatisticsProofs -----------------------
(***************************************************************************)
(* Machine-checked theorems about the two writers of daily_statistics, for *)
(* any value of the constants: RiskGate, which reads them again to decide, *)
(* and CommissionLedger, which books what an order cost.                   *)
(*                                                                         *)
(* The first part is about RiskGate, for any prices, quantities, limits,   *)
(* mode and length of the trading day.  What concerns averages is proved   *)
(* for behaviours in which they are whole (WholeAverages).  The second is  *)
(* about CommissionLedger, for any orders, trades, days and rates.         *)
(***************************************************************************)
EXTENDS RiskGate, CommissionLedger, FiniteSums, TLAPS

\* A strategy buys and sells; none in the repository asks for a close, which the
\* gate values at zero whatever quantity it is sold with.
NoClose == "close" \notin Action

\* What a decision is taken from: amounts are numbers, the order book a sequence.
GateInv ==
    /\ clock \in 0 .. MaxTime
    /\ mark \in Price \cup {None}
    /\ signal \in Signal \cup {None}
    /\ open \in Seq(Order)
    /\ position \in Nat /\ average \in Int
    /\ realized \in [Days -> Int] /\ commissions \in [Days -> Int]

\* An order has a side and a quantity that is not zero.
LEMMA OrdersAreWhole ==
    /\ \A o \in Order : o.quantity \in Nat \ {0} /\ o.side \in {"buy", "sell"}
    /\ \A s \in Signal : OrderFor(s) \in Order
BY GateAssumption DEF Order, Signal, OrderFor

\* The day of a time is a day of the instance.
LEMMA DayInDays ==
    ASSUME NEW t \in 0 .. MaxTime
    PROVE  DayAt(t) \in Days
<1> DEFINE q == t \div DayLength
           m == MaxTime \div DayLength
<1>1. DayLength \in Nat /\ DayLength > 0 /\ MaxTime \in Nat /\ t \in Nat /\ t <= MaxTime
  BY GateAssumption
<1>2. q \in Nat /\ m \in Nat
  BY <1>1
<1>3. DayLength * q <= t /\ MaxTime < DayLength * (m + 1)
  BY <1>1
<1>4. DayLength * q < DayLength * (m + 1)
  <2>1. DayLength * q \in Int /\ DayLength * (m + 1) \in Int
    BY <1>1, <1>2
  <2> HIDE DEF q, m
  <2> QED BY <1>1, <1>3, <2>1
<1>5. q <= m
  <2> HIDE DEF q, m
  <2>1. CASE q >= m + 1
    BY <1>1, <1>2, <1>4, <2>1
  <2> QED BY <1>2, <2>1
<1> QED BY <1>2, <1>5 DEF DayAt, Days

\* The invariant of the gate holds when the agent starts.
LEMMA GateInitially == Init => GateInv
BY GateAssumption DEF Init, GateInv, Order, Signal, Days

\* Filling an order takes it out of the sequence.
LEMMA OrderTakenOut ==
    ASSUME open \in Seq(Order), NEW i \in DOMAIN open
    PROVE  RemoveAt(open, i) \in Seq(Order) /\ Len(RemoveAt(open, i)) < Len(open)
<1>1. Len(open) \in Nat /\ i \in 1 .. Len(open)
  OBVIOUS
<1>2. /\ SubSeq(open, 1, i - 1) \in Seq(Order)
      /\ Len(SubSeq(open, 1, i - 1)) = i - 1
  BY <1>1
<1>3. /\ SubSeq(open, i + 1, Len(open)) \in Seq(Order)
      /\ Len(SubSeq(open, i + 1, Len(open))) = Len(open) - i
  BY <1>1
<1> QED BY <1>1, <1>2, <1>3 DEF RemoveAt

\* A fill keeps it.
LEMMA FillKeepsGate ==
    ASSUME GateInv, NEW i \in 1 .. MaxOpen, NEW price \in Price, Fill(i, price)
    PROVE  GateInv'
<1> DEFINE order == open[i]
           fee   == [commissions EXCEPT ![Today] = @ + Fee]
<1>1. /\ i \in DOMAIN open /\ order \in Order
      /\ order.quantity \in Nat \ {0} /\ order.side \in {"buy", "sell"}
  BY OrdersAreWhole DEF Fill, GateInv
<1>2. Today \in Days
  BY DayInDays DEF GateInv, Today
<1>3. price \in Int /\ Fee \in Int
  BY GateAssumption
<1>4. open' \in Seq(Order)
  BY <1>1, OrderTakenOut DEF Fill, GateInv
<1>5. commissions' \in [Days -> Int]
  BY <1>2, <1>3 DEF Fill, GateInv
<1>6. position' \in Nat /\ average' \in Int /\ realized' \in [Days -> Int]
  <2>1. CASE order.side = "buy"
    <3>1. Buy(order.quantity, price)
      BY <1>1, <2>1 DEF Fill
    <3>2. /\ position + order.quantity \in Nat \ {0}
          /\ average * position + price * order.quantity \in Int
      BY <1>1, <1>3 DEF GateInv
    <3>3. average' \in Int
      BY <1>3, <3>1, <3>2 DEF Buy
    <3> QED BY <3>1, <3>2, <3>3 DEF Buy, GateInv
  <2>2. CASE order.side = "sell"
    <3>1. Sell(order.quantity, price)
      BY <1>1, <2>2 DEF Fill
    <3>2. (price - average) * order.quantity \in Int
      BY <1>1, <1>3 DEF GateInv
    <3>3. realized' \in [Days -> Int]
      BY <1>2, <3>1, <3>2 DEF Sell, GateInv
    <3> QED BY <1>1, <3>1, <3>3 DEF Sell, GateInv
  <2> QED BY <1>1, <2>1, <2>2
<1> QED BY <1>4, <1>5, <1>6 DEF Fill, GateInv

\* Every step keeps it.
LEMMA GateStep == GateInv /\ [Next]_vars => GateInv'
<1> SUFFICES ASSUME GateInv, [Next]_vars PROVE GateInv'
  OBVIOUS
<1>1. ASSUME NEW price \in Price, NEW time \in {clock, clock + 1}, time <= MaxTime,
             ObserveMarket(price, time)
      PROVE  GateInv'
  BY <1>1, GateAssumption DEF ObserveMarket, GateInv, ledger
<1>2. ASSUME NEW s \in Signal, Emit(s) PROVE GateInv'
  BY <1>2 DEF Emit, GateInv, ledger
<1>3. CASE Decide
  <2>1. signal \in Signal /\ open' \in Seq(Order)
    BY <1>3, OrdersAreWhole DEF Decide, GateInv
  <2> QED BY <1>3, <2>1 DEF Decide, GateInv, ledger
<1>4. ASSUME NEW i \in 1 .. MaxOpen, NEW price \in Price, Fill(i, price) PROVE GateInv'
  BY <1>4, FillKeepsGate
<1>5. CASE Restart
  BY <1>5 DEF Restart, GateInv, ledger
<1>6. CASE UNCHANGED vars
  BY <1>6 DEF vars, GateInv, ledger
<1> QED BY <1>1, <1>2, <1>3, <1>4, <1>5, <1>6 DEF Next

\* It holds always.
LEMMA GateInvariant == Spec => []GateInv
BY GateInitially, GateStep, PTL DEF Spec
-----------------------------------------------------------------------------
\* Only a decision to allow places an order, and just one.
LEMMA OnlyAllowPlaces ==
    ASSUME GateInv, [Next]_vars
    PROVE  \/ Len(open') <= Len(open) /\ ~ Len(open') > Len(open)
           \/ /\ Decide /\ Decision = "allow"
              /\ open' = Append(open, OrderFor(signal)) /\ signal \in Signal
<1>0. Len(open) \in Nat
  BY DEF GateInv
<1>1. CASE open' = open
  BY <1>0, <1>1
<1>2. CASE Decide
  BY <1>0, <1>2 DEF Decide, GateInv
<1>3. ASSUME NEW i \in 1 .. MaxOpen, NEW price \in Price, Fill(i, price)
      PROVE  Len(open') <= Len(open) /\ ~ Len(open') > Len(open)
  <2>1. i \in DOMAIN open /\ open' = RemoveAt(open, i)
    BY <1>3 DEF Fill
  <2>2. Len(open') < Len(open) /\ Len(open') \in Nat
    BY <2>1, OrderTakenOut DEF GateInv
  <2> QED BY <1>0, <2>2
<1> QED BY <1>1, <1>2, <1>3 DEF Next, ObserveMarket, Emit, Restart, vars

\* What the decision to allow was taken from.
LEMMA AllowMeans ==
    ASSUME Decision = "allow"
    PROVE  status = Running /\ ~ LossReached(DailyPnL) /\ ~ TooLarge(signal, Snapshot)
<1>1. Observe(Snapshot, Today) = "allow" /\ ~ TooLarge(signal, Snapshot)
  BY DEF Decision, Evaluate
<1>2. Snapshot.day = Today /\ Snapshot.status = status /\ Snapshot.daily = DailyPnL
  BY DEF Snapshot
<1>3. status = Running /\ ~ LossReached(DailyPnL)
  BY <1>1, <1>2 DEF Observe
<1> QED BY <1>1, <1>3

\* While a pause lasts no order is placed, and only a restart ends it.
THEOREM PausedMeansStopped == Spec => PauseEndsTrading
<1> DEFINE Stops == status = Paused =>
                       /\ Len(open') <= Len(open)
                       /\ status' = Paused \/ restarts' # restarts
<1>1. GateInv /\ [Next]_vars => Stops
  <2> SUFFICES ASSUME GateInv, [Next]_vars, status = Paused
               PROVE  /\ Len(open') <= Len(open)
                      /\ status' = Paused \/ restarts' # restarts
    OBVIOUS
  <2>1. Len(open') <= Len(open)
    BY OnlyAllowPlaces, AllowMeans DEF Running, Paused
  <2>2. status' = Paused \/ restarts' # restarts
    <3>1. CASE Decide
      BY <3>1 DEF Decide, StatusAfter
    <3>2. CASE Restart
      BY <3>2 DEF Restart
    <3> QED
      BY <3>1, <3>2 DEF Next, ObserveMarket, Emit, Fill, vars
  <2> QED BY <2>1, <2>2
<1>2. GateInv /\ [Next]_vars => [Stops]_vars
  BY <1>1
<1> QED BY GateInvariant, <1>2, PTL DEF Spec, PauseEndsTrading
-----------------------------------------------------------------------------
\* The day's amounts are numbers once there is a mark.
LEMMA AmountsAreNumbers ==
    ASSUME GateInv, mark # None
    PROVE  DailyAmount(DailyPnL) \in Int
<1>1. Today \in Days
  BY DayInDays DEF GateInv, Today
<1>2. realized[Today] \in Int /\ commissions[Today] \in Int
  BY <1>1 DEF GateInv
<1>3. mark \in Int
  BY GateAssumption DEF GateInv
<1>4. Unrealized(mark) \in Int
  BY <1>3 DEF GateInv, Unrealized
<1> QED BY <1>2, <1>4 DEF DailyAmount, DailyPnL, RealizedNet, Total

\* What the gate values is the position the order leads to.
LEMMA ProjectedIsTheOutcome ==
    ASSUME GateInv, NoClose, mark # None, signal \in Signal
    PROVE  Abs(Projected(position, signal)) * Valuation(signal, Snapshot)
               = ValueWith(OrderFor(signal))
<1>1. signal.action \in {"buy", "sell"} /\ signal.quantity \in Nat /\ signal.limit = None
  BY GateAssumption DEF Signal, NoClose
<1>2. Valuation(signal, Snapshot) = mark
  BY <1>1 DEF Valuation, Snapshot
<1>3. CASE signal.action = "buy"
  <2>1. Projected(position, signal) = position + 1 * signal.quantity
    BY <1>1, <1>3 DEF Projected, GateInv
  <2>2. OrderFor(signal).side = "buy" /\ OrderFor(signal).quantity = signal.quantity
    BY <1>3 DEF OrderFor
  <2> QED BY <1>2, <2>1, <2>2 DEF ValueWith
<1>4. CASE signal.action = "sell"
  <2>1. Projected(position, signal) = position + (-1) * signal.quantity
    BY <1>1, <1>4 DEF Projected, GateInv
  <2>2. OrderFor(signal).side = "sell" /\ OrderFor(signal).quantity = signal.quantity
    BY <1>4 DEF OrderFor
  <2> QED BY <1>2, <2>1, <2>2 DEF ValueWith
<1> QED BY <1>1, <1>3, <1>4

\* No order is placed on a day whose loss has reached the limit, and none of a
\* strategy that buys and sells takes the position beyond the limit on its
\* value, unless another order is still waiting.
THEOREM LimitsAreKept ==
    ASSUME NoClose
    PROVE  Spec => NoOrderBeyondTheLimits
<1> DEFINE Limited ==
        /\ Len(open') > Len(open) =>
              MaxDailyLoss = None \/ DailyAmount(DailyPnL) > -MaxDailyLoss
        /\ \A order \in Order :
              open = <<>> /\ open' = <<order>> =>
                  MaxPositionValue = None \/ ValueWith(order) <= MaxPositionValue
<1>1. ASSUME GateInv, [Next]_vars PROVE Limited
  <2>1. ASSUME Len(open') > Len(open), MaxDailyLoss # None
        PROVE  DailyAmount(DailyPnL) > -MaxDailyLoss
    <3>1. Decide /\ Decision = "allow"
      BY <1>1, <2>1, OnlyAllowPlaces
    <3>2. ~ DailyAmount(DailyPnL) <= -MaxDailyLoss
      BY <2>1, <3>1, AllowMeans DEF LossReached
    <3>3. DailyAmount(DailyPnL) \in Int
      BY <1>1, <3>1, AmountsAreNumbers DEF Decide
    <3>4. MaxDailyLoss \in Nat
      BY <2>1, LimitsAssumption DEF ValidLimits
    <3> QED BY <3>2, <3>3, <3>4
  <2>2. ASSUME NEW order \in Order, open = <<>>, open' = <<order>>, MaxPositionValue # None
        PROVE  ValueWith(order) <= MaxPositionValue
    <3>1. Len(open') = 1 /\ Len(open) = 0
      BY <2>2
    <3>2. /\ Decide /\ Decision = "allow" /\ signal \in Signal
          /\ open' = Append(open, OrderFor(signal))
      BY <1>1, <3>1, OnlyAllowPlaces
    <3>3. order = OrderFor(signal)
      BY <2>2, <3>2
    <3>4. ~ Abs(Projected(position, signal)) * Valuation(signal, Snapshot) > MaxPositionValue
      <4>1. Snapshot.position = position
        BY DEF Snapshot
      <4> QED BY <2>2, <3>2, <4>1, AllowMeans DEF TooLarge
    <3>5. ~ ValueWith(order) > MaxPositionValue
      BY <1>1, <3>2, <3>3, <3>4, ProjectedIsTheOutcome DEF Decide
    <3>6. ValueWith(order) \in Int /\ MaxPositionValue \in Nat
      <4>1. mark \in Int /\ position \in Int /\ order.quantity \in Int
        BY <1>1, <3>2, OrdersAreWhole, GateAssumption DEF Decide, GateInv
      <4>2. MaxPositionValue \in Nat
        BY <2>2, LimitsAssumption DEF ValidLimits
      <4> QED BY <4>1, <4>2 DEF ValueWith, Abs
    <3> QED BY <3>5, <3>6
  <2> QED BY <2>1, <2>2
<1>2. GateInv /\ [Next]_vars => [Limited]_vars
  BY <1>1
<1> QED BY GateInvariant, <1>2, PTL DEF Spec, NoOrderBeyondTheLimits
-----------------------------------------------------------------------------
\* No purchase leaves a remainder when its average price is worked out: the code divides
\* decimals (statistics/reducer.go:99-127), the model whole numbers.
WholeAverage ==
    \A i \in DOMAIN open, price \in Price :
        Fill(i, price) /\ open[i].side = "buy" =>
            (average * position + price * open[i].quantity)
                % (position + open[i].quantity) = 0

\* All averages of a behaviour are whole.
WholeAverages == [][WholeAverage]_vars

\* What was realised, less commissions and less what the position has cost, is
\* what the broker moved; on the first day all of it is that day's.
MoneyInv ==
    /\ TypeOK
    /\ signal # None => Len(open) < MaxOpen
    /\ SumOf(realized) - SumOf(commissions) - average * position = cash
    /\ Today = 0 => /\ opening = 0
                    /\ SumOf(realized) = realized[0] /\ SumOf(commissions) = commissions[0]

\* TypeOK says what the invariant of the gate does.
LEMMA TypesOfGate ==
    ASSUME TypeOK
    PROVE  /\ GateInv /\ Today \in Days /\ Len(open) \in Nat
           /\ \A p \in Price : p \in Nat \ {0}
<1>1. GateInv
  BY DEF TypeOK, GateInv
<1>2. Today \in Days
  BY DayInDays DEF TypeOK, Today
<1> QED BY <1>1, <1>2, GateAssumption DEF TypeOK

\* There are finitely many days; the first one is one of them.
LEMMA DaysAreFinite == IsFiniteSet(Days) /\ 0 \in Days
<1>1. MaxTime \div DayLength \in Nat
  BY GateAssumption
<1> QED BY <1>1, FS_Interval DEF Days

\* A day is the first one up to its end.
LEMMA FirstDay == \A t \in Nat : DayAt(t) = 0 <=> t < DayLength
<1> SUFFICES ASSUME NEW t \in Nat PROVE t \div DayLength = 0 <=> t < DayLength
  BY DEF DayAt
<1> DEFINE q == t \div DayLength
<1>1. DayLength \in Nat /\ DayLength > 0
  BY GateAssumption
<1>2. q \in Nat /\ DayLength * q <= t /\ t < DayLength * (q + 1)
  BY <1>1
<1> HIDE DEF q
<1>3. ASSUME q = 0 PROVE t < DayLength
  BY <1>1, <1>2, <1>3
<1>4. ASSUME t < DayLength PROVE q = 0
  <2>1. CASE q >= 1
    <3>1. DayLength * q >= DayLength
      BY <1>1, <1>2, <2>1
    <3>2. DayLength * q \in Int
      BY <1>1, <1>2
    <3> QED BY <1>1, <1>2, <1>4, <3>1, <3>2
  <2> QED BY <1>2, <2>1
<1> QED BY <1>3, <1>4 DEF q

\* Where one day differs, the days together do.
LEMMA DayDiffers ==
    ASSUME NEW amount \in [Days -> Int], NEW after \in [Days -> Int], NEW d \in Days,
           \A x \in Days \ {d} : after[x] = amount[x]
    PROVE  SumOf(after) = SumOf(amount) + after[d] - amount[d] /\ SumOf(amount) \in Int
<1>1. \A x \in Days : amount[x] \in Int /\ after[x] \in Int
  OBVIOUS
<1>2. IsFiniteSet(Days)
  BY DaysAreFinite
<1>3. SumOver(after, Days) = SumOver(amount, Days) + after[d] - amount[d]
  BY ONLY <1>1, <1>2, SumChanged, \A x \in Days \ {d} : after[x] = amount[x], d \in Days
<1>4. SumOver(amount, Days) \in Int
  BY <1>1, <1>2, SumIsWhole
<1> QED BY <1>3, <1>4 DEF SumOf, SumOver

\* Nothing is earned, paid or owned.
LEMMA MoneyInitially == Init => MoneyInv
<1> SUFFICES ASSUME Init PROVE MoneyInv
  OBVIOUS
<1>1. TypeOK
  BY GateAssumption DEF Init, TypeOK, Order, Signal, Days
<1>2. realized \in [Days -> Int] /\ commissions \in [Days -> Nat]
  BY <1>1 DEF TypeOK
<1>3. SumOf(realized) = 0 /\ SumOf(commissions) = 0
  <2>1. \A d \in Days : realized[d] = 0 /\ commissions[d] = 0
    BY DEF Init
  <2>2. SumOver(realized, Days) = 0 /\ SumOver(commissions, Days) = 0
    BY ONLY <2>1, DaysAreFinite, SumOfZeros
  <2> QED BY <2>2 DEF SumOf, SumOver
<1>4. realized[0] = 0 /\ commissions[0] = 0
  BY DaysAreFinite DEF Init
<1> QED BY <1>1, <1>3, <1>4 DEF MoneyInv, Init

\* A purchase moves what it costs from the cash to the position.
LEMMA BuyKeepsMoney ==
    ASSUME TypeOK, NEW q \in Nat \ {0}, NEW price \in Nat \ {0}, Buy(q, price),
           (average * position + price * q) % (position + q) = 0
    PROVE  average' \in Nat /\ average' * position' = average * position + price * q
<1> DEFINE x == average * position + price * q
           d == position + q
<1>1. position \in Nat /\ average \in Nat
  BY DEF TypeOK
<1>2. d \in Nat \ {0} /\ x \in Nat
  BY <1>1
<1>3. CASE position = 0
  <2>1. average' = price /\ position' = q
    BY <1>3 DEF Buy
  <2>2. average * position = 0
    BY <1>1, <1>3
  <2> QED BY <2>1, <2>2
<1>4. CASE position # 0
  <2>1. average' = x \div d /\ position' = d
    BY <1>4 DEF Buy
  <2>2. x % d = 0
    OBVIOUS
  <2> HIDE DEF x, d
  <2>3. x \div d \in Nat /\ (x \div d) * d = x
    BY <1>2, <2>2
  <2> QED BY <2>1, <2>3 DEF x
<1> QED BY <1>3, <1>4

\* A sale moves what it brings from the position and its result to the cash.
LEMMA SellKeepsMoney ==
    ASSUME TypeOK, NEW q \in Nat \ {0}, NEW price \in Nat \ {0}, Sell(q, price)
    PROVE  /\ realized' \in [Days -> Int]
           /\ \A d \in Days \ {Today} : realized'[d] = realized[d]
           /\ SumOf(realized') - average' * position'
                 = SumOf(realized) - average * position + price * q
<1>1. position \in Nat /\ average \in Nat /\ realized \in [Days -> Int] /\ Today \in Days
  BY TypesOfGate DEF TypeOK
<1> DEFINE delta == (price - average) * q
<1>2. delta \in Int /\ delta = price * q - average * q
  BY <1>1
<1> HIDE DEF delta
<1>3. realized' = [realized EXCEPT ![Today] = @ + delta]
  BY DEF Sell, delta
<1>4. SumOf(realized') = SumOf(realized) + delta /\ SumOf(realized) \in Int
  <2>1. /\ realized' \in [Days -> Int] /\ realized[Today] \in Int
        /\ realized'[Today] = realized[Today] + delta
        /\ \A x \in Days \ {Today} : realized'[x] = realized[x]
    BY <1>1, <1>2, <1>3
  <2>2. /\ SumOf(realized') = SumOf(realized) + realized'[Today] - realized[Today]
        /\ SumOf(realized) \in Int
    BY ONLY <1>1, <2>1, DayDiffers
  <2> QED BY ONLY <1>2, <2>1, <2>2
<1>5. average' * position' = average * position - average * q
  <2>1. average' = average /\ position' = position - q
    BY DEF Sell
  <2> QED BY <1>1, <2>1
<1>6. average * position \in Int /\ average * q \in Int /\ price * q \in Int
  BY <1>1
<1>7. SumOf(realized') - average' * position'
         = SumOf(realized) - average * position + price * q
  BY ONLY <1>2, <1>4, <1>5, <1>6
<1>8. realized' \in [Days -> Int] /\ \A d \in Days \ {Today} : realized'[d] = realized[d]
  BY <1>1, <1>2, <1>3
<1> QED BY <1>7, <1>8

\* What a fill does to the books, whichever side it has.
LEMMA FillKeepsMoney ==
    ASSUME TypeOK, NEW i \in DOMAIN open, NEW price \in Price, Fill(i, price),
           open[i].side = "buy" =>
              (average * position + price * open[i].quantity)
                  % (position + open[i].quantity) = 0
    PROVE  /\ realized' \in [Days -> Int] /\ average' \in Nat /\ position' \in 0 .. MaxPosition
           /\ cash' \in Int
           /\ \A d \in Days \ {Today} : realized'[d] = realized[d]
           /\ SumOf(realized') - average' * position' - cash'
                 = SumOf(realized) - average * position - cash + Fee
<1> DEFINE q == open[i].quantity
           side == open[i].side
<1>1. /\ open[i] \in Order /\ q \in Nat \ {0} /\ side \in {"buy", "sell"}
      /\ price \in Nat \ {0} /\ price * q \in Int /\ Fee \in Nat
  <2>1. open[i] \in Order
    BY DEF TypeOK
  <2> QED BY <2>1, OrdersAreWhole, GateAssumption
<1>2. /\ position \in Nat /\ average \in Nat /\ realized \in [Days -> Int] /\ Today \in Days
      /\ cash \in Int /\ MaxPosition \in Nat /\ position <= MaxPosition
      /\ average * position \in Int
  <2>1. Today \in Days /\ MaxPosition \in Nat
    BY TypesOfGate, GateAssumption
  <2>2. /\ position \in 0 .. MaxPosition /\ average \in Nat /\ realized \in [Days -> Int]
        /\ cash \in Int
    BY ONLY TypeOK DEF TypeOK
  <2>3. position \in Nat /\ position <= MaxPosition
    BY ONLY <2>1, <2>2
  <2>4. average * position \in Int
    BY ONLY <2>2, <2>3
  <2> QED BY ONLY <2>1, <2>2, <2>3, <2>4
<1>3. CASE side = "buy"
  <2>1. Buy(q, price) /\ cash' = cash - Fee + (-1) * q * price
    BY <1>3 DEF Fill
  <2>2. (average * position + price * q) % (position + q) = 0
    BY <1>3
  <2>3. average' \in Nat /\ average' * position' = average * position + price * q
    BY <1>1, <2>1, <2>2, BuyKeepsMoney
  <2>4. cash' = cash - Fee - price * q
    BY <1>1, <1>2, <2>1
  <2>5. UNCHANGED realized /\ position' \in 0 .. MaxPosition
    BY <1>1, <1>2, <2>1 DEF Buy
  <2>6. SumOf(realized') = SumOf(realized) /\ SumOf(realized) \in Int
    BY <1>2, <2>5, DayDiffers
  <2>7. /\ realized' \in [Days -> Int]
        /\ \A d \in Days \ {Today} : realized'[d] = realized[d]
    BY <1>2, <2>5
  <2>8. SumOf(realized') - average' * position' - cash'
           = SumOf(realized) - average * position - cash + Fee
    BY ONLY <1>1, <1>2, <2>3, <2>4, <2>6
  <2>9. cash' \in Int
    BY <1>1, <1>2, <2>4
  <2> QED BY ONLY <1>2, <2>3, <2>5, <2>7, <2>8, <2>9
<1>4. CASE side = "sell"
  <2>1. Sell(q, price) /\ cash' = cash - Fee + 1 * q * price
    BY <1>4 DEF Fill
  <2>2. /\ realized' \in [Days -> Int]
        /\ \A d \in Days \ {Today} : realized'[d] = realized[d]
        /\ SumOf(realized') - average' * position'
              = SumOf(realized) - average * position + price * q
    BY <1>1, <2>1, SellKeepsMoney
  <2>3. cash' = cash - Fee + price * q
    BY <1>1, <1>2, <2>1
  <2>4. average' \in Nat /\ position' \in 0 .. MaxPosition
    BY <1>1, <1>2, <2>1 DEF Sell
  <2>5. SumOf(realized') \in Int /\ SumOf(realized) \in Int
    BY <1>2, <2>2, DayDiffers
  <2>6. average' * position' \in Int
    BY <2>4
  <2>7. SumOf(realized') - average' * position' - cash'
           = SumOf(realized) - average * position - cash + Fee
    BY ONLY <1>1, <1>2, <2>2, <2>3, <2>5, <2>6
  <2>8. cash' \in Int /\ \A d \in Days \ {Today} : realized'[d] = realized[d]
    BY <1>1, <1>2, <2>2, <2>3
  <2> QED BY <2>2, <2>4, <2>7, <2>8
<1> QED BY <1>1, <1>3, <1>4

\* A fill keeps the books, the broker's fee being the commission of the day.
LEMMA FillKeepsInv ==
    ASSUME MoneyInv, NEW i \in DOMAIN open, NEW price \in Price, Fill(i, price),
           open[i].side = "buy" =>
              (average * position + price * open[i].quantity)
                  % (position + open[i].quantity) = 0
    PROVE  MoneyInv'
<1>1. TypeOK /\ Today \in Days /\ Len(open) \in Nat /\ Fee \in Nat /\ MaxFills \in Nat
  BY TypesOfGate, GateAssumption DEF MoneyInv
<1>2. /\ realized' \in [Days -> Int] /\ average' \in Nat /\ position' \in 0 .. MaxPosition
      /\ cash' \in Int
      /\ \A d \in Days \ {Today} : realized'[d] = realized[d]
      /\ SumOf(realized') - average' * position' - cash'
            = SumOf(realized) - average * position - cash + Fee
  BY <1>1, FillKeepsMoney
<1>3. /\ commissions \in [Days -> Int] /\ commissions' \in [Days -> Int]
      /\ commissions' \in [Days -> Nat]
      /\ commissions'[Today] = commissions[Today] + Fee /\ commissions[Today] \in Int
      /\ \A d \in Days \ {Today} : commissions'[d] = commissions[d]
  BY <1>1 DEF Fill, TypeOK
<1>4. /\ SumOf(commissions') = SumOf(commissions) + commissions'[Today] - commissions[Today]
      /\ SumOf(commissions) \in Int
  BY ONLY <1>1, <1>3, DayDiffers
<1>5. /\ SumOf(realized') = SumOf(realized) + realized'[Today] - realized[Today]
      /\ SumOf(realized) \in Int /\ realized[Today] \in Int /\ realized'[Today] \in Int
  <2>1. realized \in [Days -> Int]
    BY <1>1 DEF TypeOK
  <2>2. /\ SumOf(realized') = SumOf(realized) + realized'[Today] - realized[Today]
        /\ SumOf(realized) \in Int
    BY ONLY <1>1, <1>2, <2>1, DayDiffers
  <2> QED BY <1>1, <1>2, <2>1, <2>2
<1>6. open' \in Seq(Order) /\ Len(open') \in Nat /\ Len(open') < Len(open)
  <2>1. open' = RemoveAt(open, i) /\ open \in Seq(Order)
    BY <1>1 DEF Fill, TypeOK
  <2>2. open' \in Seq(Order) /\ Len(open') < Len(open)
    BY <2>1, OrderTakenOut
  <2> QED BY <2>2
<1>7. UNCHANGED <<clock, mark, status, signal, opening, restarts>>
  BY DEF Fill
<1>8. fills' \in 0 .. MaxFills
  BY <1>1 DEF Fill, TypeOK
<1>9. MaxOpen \in Nat
  BY GateAssumption
<1>10. TypeOK'
  <2>1. /\ clock \in 0 .. MaxTime /\ mark \in Price \cup {None} /\ status \in {Running, Paused}
        /\ signal \in Signal \cup {None} /\ opening \in Int /\ restarts \in 0 .. MaxRestarts
        /\ Len(open) <= MaxOpen
    BY <1>1 DEF TypeOK
  <2>2. Len(open') <= MaxOpen
    BY <1>1, <1>6, <1>9, <2>1
  <2> QED BY <1>2, <1>3, <1>6, <1>7, <1>8, <2>1, <2>2 DEF TypeOK
<1>11. (signal # None => Len(open) < MaxOpen)'
  BY <1>1, <1>6, <1>7, <1>9 DEF MoneyInv
<1>12. (SumOf(realized) - SumOf(commissions) - average * position = cash)'
  <2>1. SumOf(realized) - SumOf(commissions) - average * position = cash
    BY DEF MoneyInv
  <2>2. average \in Nat /\ position \in Nat /\ position' \in Nat /\ cash \in Int
    BY <1>1, <1>2, GateAssumption DEF TypeOK
  <2> DEFINE cost == average * position
             costAfter == average' * position'
  <2>3. cost \in Int /\ costAfter \in Int
    BY <1>2, <2>2
  <2>4. SumOf(commissions') = SumOf(commissions) + Fee
    BY ONLY <1>1, <1>3, <1>4
  <2>5. SumOf(realized') \in Int /\ SumOf(commissions') \in Int
    BY ONLY <1>1, <1>4, <1>5, <2>4
  <2>6. SumOf(realized') - costAfter - cash' = SumOf(realized) - cost - cash + Fee
    BY <1>2
  <2>7. SumOf(realized) - SumOf(commissions) - cost = cash
    BY <2>1
  <2> HIDE DEF cost, costAfter
  <2>8. SumOf(realized) \in Int /\ SumOf(commissions) \in Int /\ cash' \in Int /\ Fee \in Int
    BY <1>1, <1>2, <1>4, <1>5
  <2>9. SumOf(realized') - SumOf(commissions') - costAfter = cash'
    BY ONLY <2>2, <2>3, <2>4, <2>5, <2>6, <2>7, <2>8
  <2> QED BY <2>9 DEF costAfter
<1>13. (Today = 0 => /\ opening = 0
                     /\ SumOf(realized) = realized[0] /\ SumOf(commissions) = commissions[0])'
  <2>1. Today' = Today
    BY <1>7 DEF Today
  <2>2. ASSUME Today = 0
        PROVE  SumOf(realized') = realized'[0] /\ SumOf(commissions') = commissions'[0]
    <3>1. SumOf(realized) = realized[0] /\ SumOf(commissions) = commissions[0]
      BY <2>2 DEF MoneyInv
    <3>2. commissions'[0] \in Int /\ commissions[0] \in Int
      BY <1>1, <1>3, <2>2
    <3> QED BY ONLY <1>4, <1>5, <2>2, <3>1, <3>2
  <2> QED BY <1>7, <2>1, <2>2 DEF MoneyInv
<1> QED BY <1>10, <1>11, <1>12, <1>13 DEF MoneyInv

\* The invariant is kept by every step.
LEMMA MoneyStep ==
    ASSUME MoneyInv, [Next]_vars, [WholeAverage]_vars
    PROVE  MoneyInv'
<1>1. TypeOK
  BY DEF MoneyInv
<1>2. ASSUME NEW price \in Price, NEW time \in {clock, clock + 1}, time <= MaxTime,
             ObserveMarket(price, time)
      PROVE  MoneyInv'
  <2>1. /\ clock \in Nat /\ time \in Nat /\ clock <= time /\ MaxTime \in Nat
        /\ DayLength \in Nat /\ cash \in Int /\ position \in Int /\ price \in Int
    BY <1>1, GateAssumption DEF TypeOK
  <2>2. TypeOK'
    <3>1. Equity(price) \in Int
      BY <2>1 DEF Equity
    <3>2. opening' \in Int
      BY <1>1, <1>2, <3>1 DEF ObserveMarket, TypeOK
    <3>3. clock' \in 0 .. MaxTime
      BY <1>2, <2>1 DEF ObserveMarket
    <3> QED BY <1>1, <1>2, <3>2, <3>3 DEF ObserveMarket, TypeOK, ledger
  <2>3. Today' = 0 => Today = 0 /\ opening' = opening
    <3>1. Today' = DayAt(time)
      BY <1>2 DEF Today, ObserveMarket
    <3>2. DayAt(time) = 0 => DayAt(clock) = 0
      BY <2>1, FirstDay
    <3> QED BY <1>2, <3>1, <3>2 DEF Today, ObserveMarket
  <2> QED BY <1>2, <2>2, <2>3 DEF MoneyInv, ObserveMarket, ledger
<1>3. CASE Decide \/ Restart \/ UNCHANGED vars \/ \E s \in Signal : Emit(s)
  <2>1. UNCHANGED ledger /\ UNCHANGED <<clock, opening>>
    BY <1>3 DEF Decide, Restart, vars, Emit
  <2>2. Today' = Today
    BY <2>1 DEF Today
  <2>3. TypeOK' /\ (signal # None => Len(open) < MaxOpen)'
    <3>0. MaxOpen \in Nat /\ Len(open) \in Nat /\ open \in Seq(Order)
      BY <1>1, GateAssumption DEF TypeOK
    <3>1. CASE Decide
      <4>1. signal \in Signal /\ OrderFor(signal) \in Order /\ Len(open) < MaxOpen
        BY <1>1, <3>1, OrdersAreWhole DEF Decide, TypeOK, MoneyInv
      <4>2. open' \in Seq(Order) /\ Len(open') <= MaxOpen
        BY <3>0, <3>1, <4>1 DEF Decide
      <4>3. status' \in {Running, Paused}
        BY <1>1, <3>1 DEF Decide, StatusAfter, TypeOK
      <4> QED BY <1>1, <3>1, <4>2, <4>3 DEF Decide, TypeOK, ledger
    <3>2. CASE Restart
      <4>1. restarts' \in 0 .. MaxRestarts
        BY <1>1, <3>2, GateAssumption DEF Restart, TypeOK
      <4> QED BY <1>1, <3>2, <4>1 DEF Restart, TypeOK, ledger, MoneyInv
    <3>3. CASE UNCHANGED vars
      BY <1>1, <3>3 DEF vars, TypeOK, ledger, MoneyInv
    <3>4. ASSUME NEW s \in Signal, Emit(s) PROVE TypeOK' /\ (signal # None => Len(open) < MaxOpen)'
      BY <1>1, <3>4 DEF Emit, TypeOK, ledger
    <3> QED BY <1>3, <3>1, <3>2, <3>3, <3>4
  <2> QED BY <2>1, <2>2, <2>3 DEF MoneyInv, ledger
<1>4. ASSUME NEW i \in 1 .. MaxOpen, NEW price \in Price, Fill(i, price) PROVE MoneyInv'
  <2>1. CASE UNCHANGED vars
    BY <1>3, <2>1
  <2>2. CASE ~ UNCHANGED vars
    <3>1. i \in DOMAIN open
      BY <1>4 DEF Fill
    <3>2. open[i].side = "buy" =>
            (average * position + price * open[i].quantity)
                % (position + open[i].quantity) = 0
      BY <1>4, <2>2, <3>1 DEF WholeAverage
    <3> QED BY <1>4, <3>1, <3>2, FillKeepsInv
  <2> QED BY <2>1, <2>2
<1> QED BY <1>2, <1>3, <1>4 DEF Next

\* It says that profit is money.
LEMMA MoneyShows == MoneyInv => ProfitIsMoney
<1> SUFFICES ASSUME MoneyInv PROVE ProfitIsMoney
  OBVIOUS
<1>1. TypeOK /\ Today \in Days /\ \A p \in Price : p \in Nat
  BY TypesOfGate DEF MoneyInv
<1>2. /\ realized \in [Days -> Int] /\ commissions \in [Days -> Int]
      /\ position \in Nat /\ average \in Nat /\ cash \in Int
  BY <1>1, GateAssumption DEF TypeOK
<1>3. SumOf(realized) \in Int /\ SumOf(commissions) \in Int
  BY <1>1, <1>2, DayDiffers
<1>4. SumOf(realized) - SumOf(commissions) - average * position = cash
  BY DEF MoneyInv
<1>5. ASSUME NEW price \in Price
      PROVE  SumOf(realized) - SumOf(commissions) + Unrealized(price) = Equity(price)
  <2>1. price \in Nat
    BY <1>1
  <2>2. /\ Unrealized(price) = position * price - average * position
        /\ Equity(price) = cash + position * price
    BY <1>2, <2>1 DEF Unrealized, Equity
  <2>3. position * price \in Int /\ average * position \in Int
    BY <1>2, <2>1
  <2> QED BY ONLY <1>2, <1>3, <1>4, <2>2, <2>3
<1>6. ASSUME mark # None, Today = 0 PROVE Total(DailyPnL) = Equity(mark) - opening
  <2>1. mark \in Price
    BY <1>1, <1>6 DEF TypeOK
  <2>2. Total(DailyPnL) = realized[0] + Unrealized(mark) - commissions[0]
    BY <1>6 DEF Total, DailyPnL
  <2>3. opening = 0 /\ SumOf(realized) = realized[0] /\ SumOf(commissions) = commissions[0]
    BY <1>6 DEF MoneyInv
  <2>4. SumOf(realized) - SumOf(commissions) + Unrealized(mark) = Equity(mark)
    BY <1>5, <2>1
  <2>5. Unrealized(mark) \in Int /\ Equity(mark) \in Int
    BY <1>1, <1>2, <2>1 DEF Unrealized, Equity
  <2> QED BY ONLY <1>3, <2>2, <2>3, <2>4, <2>5
<1> QED BY <1>1, <1>5, <1>6 DEF ProfitIsMoney

\* Over any number of days, orders and restarts, what the database calls profit is what the
\* broker moved, and on the first day what the gate compares with the limit is the change
\* of equity (fill.go:192-283, agent/risk.go:80-98), as long as averages are whole.
THEOREM ProfitIsWhatMoved == Spec /\ WholeAverages => []ProfitIsMoney
<1>1. MoneyInv /\ [Next]_vars /\ [WholeAverage]_vars => MoneyInv'
  BY MoneyStep
<1> QED BY MoneyInitially, <1>1, MoneyShows, PTL DEF Spec, WholeAverages
-----------------------------------------------------------------------------
(* What the sums of the ledger are, now and after a step.                   *)

\* The ledger adds up as FiniteSums does.
LEMMA AllAreSums == \A f, S : SumOfAll(f, S) = SumOver(f, S)
BY DEF SumOfAll, SumOver

\* So do the shares of an order, whose fills and shares a step may change.
LEMMA SharesAreSums ==
    /\ \A S : Shares(S) = SumOver(share, S)
    /\ \A o : Shares(AppliedOf(o))' = SumOver(share', AppliedOf(o)')
BY AllAreSums DEF Shares

\* And what the exchange charges.
LEMMA ChargesAreSums ==
    /\ \A S : Charged(S) = SumOver(Rate, S)
    /\ \A o : Charged(ExecutedOf(o))' = SumOver(Rate, ExecutedOf(o)')
BY AllAreSums DEF Charged

\* Only finitely many trades fill an order.
LEMMA OrdersAreFinite ==
    /\ \A S \in SUBSET Trade : IsFiniteSet(S)
    /\ \A o : /\ FillsOf(o) \in SUBSET Trade
              /\ AppliedOf(o) \in SUBSET Trade /\ AppliedOf(o)' \in SUBSET Trade
              /\ ExecutedOf(o) \in SUBSET Trade /\ ExecutedOf(o)' \in SUBSET Trade
<1>1. \A S \in SUBSET Trade : IsFiniteSet(S)
  BY LedgerAssumption, FS_Subset
<1> QED BY <1>1 DEF FillsOf, AppliedOf, ExecutedOf

\* Amounts of trades are numbers, and so are their sums.
LEMMA SumsAreNumbers ==
    ASSUME NEW f \in [Trade -> Nat], NEW S \in SUBSET Trade
    PROVE  SumOver(f, S) \in Nat
<1>1. IsFiniteSet(S) /\ \A x \in S : f[x] \in Nat
  BY OrdersAreFinite
<1> QED BY <1>1, SumIsNatural

\* The amount of an order.
LEMMA OrderAmountsAreNumbers ==
    ASSUME LedgerTypeOK
    PROVE  \A o \in OrderID : /\ Current(o) \in Nat /\ Shares(AppliedOf(o)) \in Nat
                              /\ Charged(ExecutedOf(o)) \in Nat
<1> TAKE o \in OrderID
<1>1. Shares(AppliedOf(o)) \in Nat
  BY SharesAreSums, OrdersAreFinite, SumsAreNumbers DEF LedgerTypeOK
<1>2. Charged(ExecutedOf(o)) \in Nat
  BY ChargesAreSums, OrdersAreFinite, SumsAreNumbers, LedgerAssumption
<1>3. Current(o) \in Nat
  BY <1>1 DEF Current, LedgerTypeOK
<1> QED BY <1>1, <1>2, <1>3

\* What does not touch the tables leaves the amounts as they are.
LEMMA AmountsStay ==
    ASSUME inbox' = inbox, share' = share, cumulative' = cumulative
    PROVE  \A o : Current(o)' = Current(o) /\ Shares(AppliedOf(o))' = Shares(AppliedOf(o))
<1> TAKE o
<1>1. AppliedOf(o)' = AppliedOf(o)
  BY DEF AppliedOf, FillsOf
<1>2. Shares(AppliedOf(o))' = Shares(AppliedOf(o))
  BY <1>1, SharesAreSums
<1> QED BY <1>2 DEF Current

\* Staging changes the share of a row that is not applied.
LEMMA StagingKeepsAmounts ==
    ASSUME LedgerTypeOK, NEW t \in Trade, NEW amount \in Nat, StageExecution(t, amount)
    PROVE  \A o : Current(o)' = Current(o) /\ Shares(AppliedOf(o))' = Shares(AppliedOf(o))
<1> TAKE o
<1>1. AppliedOf(o)' = AppliedOf(o)
  BY DEF AppliedOf, FillsOf, StageExecution, LedgerTypeOK
<1>2. \A u \in AppliedOf(o) : share'[u] = share[u]
  BY DEF AppliedOf, FillsOf, StageExecution, LedgerTypeOK
<1>3. SumOver(share', AppliedOf(o)) = SumOver(share, AppliedOf(o))
  BY <1>2, OrdersAreFinite, SumOfEquals
<1>4. Shares(AppliedOf(o))' = Shares(AppliedOf(o))
  BY <1>1, <1>3, SharesAreSums
<1>5. cumulative' = cumulative
  BY DEF StageExecution
<1> QED BY <1>4, <1>5 DEF Current
-----------------------------------------------------------------------------
\* What the tables and a scan say of each other: only executed trades are staged,
\* streamed and read; the scan charges orders it has read a fill of; and an order
\* it is done with, or did not read, holds at least what the scan knows of it.
ScanInv ==
    /\ \A t \in Trade : inbox[t] # "absent" \/ streamed[t] # Nothing => t \in executed
    /\ recovered \subseteq executed /\ unstaged \subseteq recovered
    /\ \A o \in uncharged : FillsOf(o) \cap recovered # {}
    /\ pc \in {"read", "stage", "drain"} => \A o \in OrderID \ uncharged : snapshot[o] = 0
    /\ pc \in {"charge", "running"} => \A o \in OrderID \ uncharged : snapshot[o] <= Current(o)
    /\ pc = "running" => uncharged = {}

\* A scan reads no more than is charged, and no fill of an order whose lots cost
\* the same has a share larger than what its lot costs.
RateInv ==
    /\ \A o \in OrderID : snapshot[o] <= Charged(ExecutedOf(o))
    /\ \A t \in Trade : OneRate(OrderOf[t]) =>
          share[t] <= Rate[t] /\ (streamed[t] # Nothing => streamed[t] <= Rate[t])
    /\ \A o \in OrderID : OneRate(o) => Current(o) <= Charged(ExecutedOf(o))

\* The day a scan books on is one of the days.
LEMMA LastDayIsDay ==
    ASSUME LedgerTypeOK, NEW o, FillsOf(o) \cap recovered # {}
    PROVE  LastDay(o) \in Day
<1> DEFINE T == {DayOf[t] : t \in FillsOf(o) \cap recovered}
<1>1. T \subseteq Day /\ T # {}
  BY LedgerAssumption DEF FillsOf
<1>2. IsFiniteSet(T) /\ T \subseteq Nat
  BY <1>1, LedgerAssumption, FS_Subset
<1>3. \E m \in T : \A n \in T : m >= n
  <2> HIDE DEF T
  <2> QED BY <1>1, <1>2, GreatestNumber
<1>4. Max(T) \in T
  <2> HIDE DEF T
  <2> QED BY <1>3 DEF Max
<1> QED BY <1>1, <1>4 DEF LastDay

\* Trades of an order that are executed can be counted.
LEMMA ExecutedCounted ==
    ASSUME LedgerTypeOK, NEW t \in executed
    PROVE  Cardinality(ExecutedOf(OrderOf[t])) \in Nat \ {0}
<1>1. t \in ExecutedOf(OrderOf[t])
  BY DEF ExecutedOf, FillsOf, LedgerTypeOK
<1>2. IsFiniteSet(ExecutedOf(OrderOf[t]))
  BY OrdersAreFinite
<1> QED BY <1>1, <1>2, FS_CardinalityType, FS_EmptySet

\* The share of a trade is a number.
LEMMA ShareIsNumber ==
    ASSUME LedgerTypeOK, NEW t \in executed
    PROVE  ShareNow(OrderOf[t]) \in Nat
<1> DEFINE n == Cardinality(ExecutedOf(OrderOf[t]))
           c == Charged(ExecutedOf(OrderOf[t]))
<1>1. n \in Nat \ {0} /\ c \in Nat
  BY ExecutedCounted, OrderAmountsAreNumbers, LedgerAssumption DEF LedgerTypeOK
<1>2. (2 * c + n) \div (2 * n) \in Nat
  <2> HIDE DEF n, c
  <2> QED BY <1>1
<1> QED BY <1>2 DEF ShareNow

\* Rounding half up does not round what is divided without remainder.
LEMMA EvenShare ==
    ASSUME NEW n \in Nat \ {0}, NEW r \in Nat
    PROVE  (2 * (n * r) + n) \div (2 * n) = r
<1> DEFINE a == 2 * (n * r) + n
           b == 2 * n
           q == a \div b
<1>1. a \in Nat /\ b \in Nat \ {0} /\ q \in Int
  OBVIOUS
<1>2. b * q <= a /\ a < b * (q + 1)
  BY <1>1
<1>3. b * r <= a /\ a < b * (r + 1)
  OBVIOUS
<1>4. ~ q < r
  <2> SUFFICES ASSUME q < r PROVE FALSE
    OBVIOUS
  <2>1. b * (q + 1) <= b * r
    <3> HIDE DEF a, b, q
    <3> QED BY <1>1
  <2>2. b * (q + 1) \in Int /\ b * r \in Int
    BY <1>1
  <2> HIDE DEF a, b, q
  <2> QED BY <1>1, <1>2, <1>3, <2>1, <2>2
<1>5. ~ r < q
  <2> SUFFICES ASSUME r < q PROVE FALSE
    OBVIOUS
  <2>1. b * (r + 1) <= b * q
    <3> HIDE DEF a, b, q
    <3> QED BY <1>1
  <2>2. b * (r + 1) \in Int /\ b * q \in Int
    BY <1>1
  <2> HIDE DEF a, b, q
  <2> QED BY <1>1, <1>2, <1>3, <2>1, <2>2
<1> QED BY <1>1, <1>4, <1>5

\* Where all lots of an order cost the same, each fill gets what its lot costs.
LEMMA ShareAtOneRate ==
    ASSUME LedgerTypeOK, NEW t \in executed, OneRate(OrderOf[t])
    PROVE  ShareNow(OrderOf[t]) = Rate[t]
<1> DEFINE S == ExecutedOf(OrderOf[t])
           n == Cardinality(S)
           r == Rate[t]
<1>1. IsFiniteSet(S) /\ n \in Nat \ {0}
  BY OrdersAreFinite, ExecutedCounted
<1>2. r \in Nat /\ \A x \in S : Rate[x] = r
  BY LedgerAssumption DEF LedgerTypeOK, OneRate, ExecutedOf, FillsOf
<1>3. SumOver(Rate, S) = n * r
  <2> HIDE DEF S, r
  <2> QED BY <1>1, <1>2, SumOfSame
<1>4. Charged(S) = n * r
  BY <1>3, ChargesAreSums
<1>5. (2 * (n * r) + n) \div (2 * n) = r
  <2> HIDE DEF n, r
  <2> QED BY <1>1, <1>2, EvenShare
<1> QED BY <1>4, <1>5 DEF ShareNow

\* Some of the fills of an order, each with no more than its lot costs, hold no
\* more than the exchange charged for the order.
LEMMA SharesWithinCharge ==
    ASSUME LedgerTypeOK, NEW o, NEW S, S \subseteq ExecutedOf(o),
           \A t \in S : share[t] <= Rate[t]
    PROVE  Shares(S) <= Charged(ExecutedOf(o))
<1>1. S \in SUBSET Trade /\ ExecutedOf(o) \in SUBSET Trade
  BY OrdersAreFinite
<1>2. IsFiniteSet(S) /\ IsFiniteSet(ExecutedOf(o))
  BY <1>1, OrdersAreFinite
<1>3. \A x \in S : share[x] \in Int /\ Rate[x] \in Int
  BY <1>1, LedgerAssumption DEF LedgerTypeOK
<1>4. SumOver(share, S) <= SumOver(Rate, S)
  BY <1>2, <1>3, SumAtMost
<1>5. /\ SumOver(Rate, S) \in Nat /\ SumOver(Rate, ExecutedOf(o)) \in Nat
      /\ SumOver(Rate, S) <= SumOver(Rate, ExecutedOf(o))
  <2>1. \A x \in ExecutedOf(o) : Rate[x] \in Nat
    BY <1>1, LedgerAssumption
  <2> QED BY <1>2, <2>1, SumOfPart
<1>6. SumOver(share, S) \in Nat
  BY <1>1, SumsAreNumbers DEF LedgerTypeOK
<1> QED BY <1>4, <1>5, <1>6, SharesAreSums, ChargesAreSums
-----------------------------------------------------------------------------
(* What the steps that book do.                                             *)

\* An amount is booked for order o on day d, and nothing else.
Books(o, d) ==
    /\ Current(o)' \in Nat /\ Current(o)' >= Current(o)
    /\ cumulative' = [cumulative EXCEPT ![o] = Current(o)']
    /\ \A p \in OrderID \ {o} : Current(p)' = Current(p)
    /\ daily' = [daily EXCEPT ![d] = @ + (Current(o)' - Current(o))]

\* An execution of the stream books for its order and its day alike.
LEMMA SynchronizeBooks ==
    ASSUME LedgerTypeOK, NEW t \in Trade, SynchronizeExecution(t)
    PROVE  /\ Books(OrderOf[t], DayOf[t])
           /\ AppliedOf(OrderOf[t])' = AppliedOf(OrderOf[t]) \cup {t}
           /\ Current(OrderOf[t])' \in {Current(OrderOf[t]), Shares(AppliedOf(OrderOf[t]) \cup {t})}
<1> DEFINE o      == OrderOf[t]
           target == Shares(AppliedOf(o) \cup {t})
           next   == LargerOf(Current(o), target)
<1>1. o \in OrderID /\ Current(o) \in Nat
  BY LedgerAssumption, OrderAmountsAreNumbers
<1>2. target \in Nat
  <2>1. AppliedOf(o) \cup {t} \in SUBSET Trade
    BY OrdersAreFinite
  <2> QED BY <2>1, SharesAreSums, SumsAreNumbers DEF LedgerTypeOK
<1>3. /\ inbox' = [inbox EXCEPT ![t] = "applied"]
      /\ cumulative' = [cumulative EXCEPT ![o] = next]
      /\ daily' = [daily EXCEPT ![DayOf[t]] = @ + (next - Current(o))]
      /\ share' = share
  BY DEF SynchronizeExecution, Book
<1>4. next \in Nat /\ next >= Current(o) /\ next \in {Current(o), target}
  <2> HIDE DEF target
  <2> QED BY <1>1, <1>2 DEF LargerOf
<1>5. Current(o)' = next
  <2> HIDE DEF next
  <2> QED BY <1>1, <1>3, <1>4, LedgerAssumption DEF Current, LedgerTypeOK
<1>6. AppliedOf(o)' = AppliedOf(o) \cup {t}
  BY <1>3 DEF AppliedOf, FillsOf, LedgerTypeOK
<1>7. \A p \in OrderID \ {o} : Current(p)' = Current(p)
  <2> TAKE p \in OrderID \ {o}
  <2>1. AppliedOf(p)' = AppliedOf(p)
    BY <1>3 DEF AppliedOf, FillsOf, LedgerTypeOK
  <2>2. Shares(AppliedOf(p))' = Shares(AppliedOf(p))
    BY <1>3, <2>1, SharesAreSums
  <2>3. cumulative'[p] = cumulative[p]
    BY <1>3 DEF LedgerTypeOK
  <2> QED BY <2>2, <2>3 DEF Current
<1> HIDE DEF next
<1> QED BY <1>3, <1>4, <1>5, <1>6, <1>7 DEF Books

\* What the scan read is booked; a zero, or an amount that is there, adds nothing.
LEMMA CumulativeBooks ==
    ASSUME LedgerTypeOK, NEW o \in OrderID, ApplyCumulative(o)
    PROVE  \/ Books(o, LastDay(o)) /\ Current(o)' = snapshot[o]
           \/ /\ snapshot[o] = 0 /\ UNCHANGED <<cumulative, daily>>
              /\ \A p \in OrderID : Current(p)' = Current(p)
<1>1. Current(o) \in Nat /\ snapshot[o] \in Nat /\ inbox' = inbox /\ share' = share
  BY OrderAmountsAreNumbers DEF LedgerTypeOK, ApplyCumulative
<1>2. CASE snapshot[o] = 0
  BY <1>1, <1>2, AmountsStay DEF ApplyCumulative
<1>3. CASE snapshot[o] # 0
  <2>1. /\ cumulative' = [cumulative EXCEPT ![o] = snapshot[o]]
        /\ daily' = [daily EXCEPT ![LastDay(o)] = @ + (snapshot[o] - Current(o))]
        /\ snapshot[o] >= Current(o)
    BY <1>3 DEF ApplyCumulative, Book
  <2>2. Current(o)' = snapshot[o]
    BY <1>1, <2>1, LedgerAssumption DEF Current, LedgerTypeOK
  <2>3. \A p \in OrderID \ {o} : Current(p)' = Current(p)
    <3> TAKE p \in OrderID \ {o}
    <3>1. AppliedOf(p)' = AppliedOf(p)
      BY <1>1 DEF AppliedOf, FillsOf
    <3>2. Shares(AppliedOf(p))' = Shares(AppliedOf(p))
      BY <1>1, <3>1, SharesAreSums
    <3>3. cumulative'[p] = cumulative[p]
      BY <2>1 DEF LedgerTypeOK
    <3> QED BY <3>2, <3>3 DEF Current
  <2> QED BY <1>1, <2>1, <2>2, <2>3 DEF Books
<1> QED BY <1>2, <1>3

\* Steps that book nothing.
LEMMA OthersBookNothing ==
    ASSUME LedgerTypeOK, ScanInv,
           \/ UNCHANGED <<inbox, share, cumulative, daily>>
           \/ \E t \in Trade : PumpStage(t) \/ StageHistory(t)
    PROVE  /\ \A o : Current(o)' = Current(o)
           /\ daily' = daily /\ cumulative' = cumulative
<1>1. CASE UNCHANGED <<inbox, share, cumulative, daily>>
  BY <1>1, AmountsStay
<1>2. ASSUME NEW t \in Trade, PumpStage(t) \/ StageHistory(t)
      PROVE  \A o : Current(o)' = Current(o) /\ daily' = daily /\ cumulative' = cumulative
  <2>1. PICK amount \in Nat : StageExecution(t, amount)
    <3>1. CASE PumpStage(t)
      BY <3>1 DEF PumpStage, LedgerTypeOK
    <3>2. CASE StageHistory(t)
      BY <3>2 DEF StageHistory
    <3> QED BY <1>2, <3>1, <3>2
  <2>2. \A o : Current(o)' = Current(o)
    BY <2>1, StagingKeepsAmounts
  <2> QED BY <2>1, <2>2 DEF StageExecution
<1> QED BY <1>1, <1>2

\* Three kinds of steps: those that leave the tables alone, those that stage, and
\* those that may book.
LEMMA StepKinds ==
    ASSUME [LedgerNext]_ledgerVars
    PROVE  \/ \/ UNCHANGED <<inbox, share, cumulative, daily>>
              \/ \E t \in Trade : PumpStage(t) \/ StageHistory(t)
           \/ \E t \in Trade : SynchronizeExecution(t)
           \/ \E o \in OrderID : ApplyCumulative(o)
<1>1. CASE UNCHANGED ledgerVars
  BY <1>1 DEF ledgerVars, tables
<1>2. CASE Start \/ ReadDone \/ StageDone \/ DrainDone \/ ChargeDone \/ Stop
  BY <1>2 DEF Start, ReadDone, StageDone, DrainDone, ChargeDone, Stop, tables
<1>3. ASSUME NEW t \in Trade, Execute(t) \/ Receive(t)
      PROVE  UNCHANGED <<inbox, share, cumulative, daily>>
  BY <1>3 DEF Execute, Receive, tables
<1>4. ASSUME NEW o \in OrderID, ReadOrder(o) \/ RefuseCumulative(o)
      PROVE  UNCHANGED <<inbox, share, cumulative, daily>>
  BY <1>4 DEF ReadOrder, RefuseCumulative, tables
<1> QED BY <1>1, <1>2, <1>3, <1>4 DEF LedgerNext

\* Any step books nothing, or books for one order on one of the days.
LEMMA StepBooks ==
    ASSUME LedgerTypeOK, ScanInv, [LedgerNext]_ledgerVars
    PROVE  \/ /\ daily' = daily /\ cumulative' = cumulative
              /\ \A o \in OrderID : Current(o)' = Current(o)
           \/ \E o \in OrderID, d \in Day : Books(o, d)
<1>1. CASE \/ UNCHANGED <<inbox, share, cumulative, daily>>
           \/ \E t \in Trade : PumpStage(t) \/ StageHistory(t)
  BY <1>1, OthersBookNothing
<1>2. ASSUME NEW t \in Trade, SynchronizeExecution(t)
      PROVE  \E o \in OrderID, d \in Day : Books(o, d)
  BY <1>2, SynchronizeBooks, LedgerAssumption
<1>3. ASSUME NEW o \in OrderID, ApplyCumulative(o)
      PROVE  \/ /\ daily' = daily /\ cumulative' = cumulative
                /\ \A p \in OrderID : Current(p)' = Current(p)
             \/ \E p \in OrderID, d \in Day : Books(p, d)
  <2>1. LastDay(o) \in Day
    BY <1>3, LastDayIsDay DEF ApplyCumulative, ScanInv
  <2> QED BY <1>3, <2>1, CumulativeBooks
<1> QED BY <1>1, <1>2, <1>3, StepKinds
-----------------------------------------------------------------------------
(* Days and orders hold the same.                                           *)

\* Every step leaves the sum of the days that of the orders.
LEMMA BooksStep ==
    ASSUME LedgerTypeOK, ScanInv, SumOfAll(daily, Day) = SumOfAll(Amounts, OrderID),
           [LedgerNext]_ledgerVars
    PROVE  SumOfAll(daily', Day) = SumOfAll(Amounts', OrderID)
<1>1. SumOver(daily, Day) = SumOver(Amounts, OrderID)
  BY AllAreSums
<1>2. /\ IsFiniteSet(Day) /\ IsFiniteSet(OrderID)
      /\ \A o \in OrderID : Amounts[o] = Current(o) /\ Amounts'[o] = Current(o)'
      /\ \A o \in OrderID : Current(o) \in Nat
  BY LedgerAssumption, OrderAmountsAreNumbers DEF Amounts
<1>3. CASE daily' = daily /\ \A o \in OrderID : Current(o)' = Current(o)
  <2>1. SumOver(Amounts', OrderID) = SumOver(Amounts, OrderID)
    BY <1>2, <1>3, SumOfEquals
  <2> QED BY <1>1, <1>3, <2>1, AllAreSums
<1>4. ASSUME NEW o \in OrderID, NEW d \in Day, Books(o, d)
      PROVE  SumOver(daily', Day) = SumOver(Amounts', OrderID)
  <2> DEFINE delta == Current(o)' - Current(o)
  <2>1. Current(o)' \in Nat /\ Current(o) \in Nat /\ delta \in Int
    BY <1>2, <1>4 DEF Books
  <2>2. \A p \in OrderID : Amounts[p] \in Int /\ Amounts'[p] \in Int
    BY <1>2, <1>4, <2>1 DEF Books
  <2>3. \A p \in OrderID \ {o} : Amounts'[p] = Amounts[p]
    BY <1>2, <1>4 DEF Books
  <2>4. SumOver(Amounts', OrderID) = SumOver(Amounts, OrderID) + Amounts'[o] - Amounts[o]
    BY ONLY <1>2, <2>2, <2>3, SumChanged
  <2>5. \A e \in Day : daily[e] \in Nat
    BY DEF LedgerTypeOK
  <2>6. daily'[d] = daily[d] + delta /\ \A e \in Day \ {d} : daily'[e] = daily[e]
    BY <1>4 DEF Books, LedgerTypeOK
  <2>7. \A e \in Day : daily[e] \in Int /\ daily'[e] \in Int
    <3> HIDE DEF delta
    <3> QED BY <2>1, <2>5, <2>6
  <2>8. SumOver(daily', Day) = SumOver(daily, Day) + daily'[d] - daily[d]
    BY ONLY <1>2, <2>6, <2>7, SumChanged
  <2>9. SumOver(daily, Day) \in Int
    BY <1>2, <2>7, SumIsWhole
  <2>10. Amounts'[o] = Current(o)' /\ Amounts[o] = Current(o)
    BY <1>2
  <2> QED BY <1>1, <2>1, <2>4, <2>5, <2>6, <2>8, <2>9, <2>10
<1> QED BY <1>3, <1>4, StepBooks, AllAreSums

\* The sums are equal when the program starts.
LEMMA BooksInitially == LedgerInit => SumOfAll(daily, Day) = SumOfAll(Amounts, OrderID)
<1> SUFFICES ASSUME LedgerInit PROVE SumOver(daily, Day) = SumOver(Amounts, OrderID)
  BY AllAreSums
<1>1. /\ IsFiniteSet(executed) /\ IsFiniteSet(Day) /\ IsFiniteSet(OrderID)
      /\ \A t \in executed : Rate[t] \in Int /\ DayOf[t] \in Day /\ OrderOf[t] \in OrderID
  BY LedgerAssumption, OrdersAreFinite DEF LedgerInit
<1> DEFINE OnDay == [d \in Day |-> {t \in executed : DayOf[t] = d}]
           Of    == [o \in OrderID |-> {t \in executed : OrderOf[t] = o}]
<1>2. /\ \A d \in Day : daily[d] = SumOver(Rate, OnDay[d]) /\ OnDay[d] \subseteq executed
      /\ \A t \in executed : \A d \in Day : t \in OnDay[d] <=> DayOf[t] = d
  BY ChargesAreSums DEF LedgerInit
<1>3. /\ \A o \in OrderID : Amounts[o] = SumOver(Rate, Of[o]) /\ Of[o] \subseteq executed
      /\ \A t \in executed : \A o \in OrderID : t \in Of[o] <=> OrderOf[t] = o
  <2> SUFFICES ASSUME NEW o \in OrderID PROVE Amounts[o] = SumOver(Rate, Of[o])
    OBVIOUS
  <2>1. AppliedOf(o) = Of[o]
    BY DEF AppliedOf, FillsOf, LedgerInit
  <2>2. IsFiniteSet(AppliedOf(o)) /\ \A t \in AppliedOf(o) : share[t] = Rate[t]
    BY OrdersAreFinite DEF LedgerInit, AppliedOf, FillsOf
  <2>3. SumOver(share, AppliedOf(o)) = SumOver(Rate, AppliedOf(o))
    BY <2>2, SumOfEquals
  <2>4. Amounts[o] = Shares(AppliedOf(o))
    BY DEF Amounts, Current, LedgerInit
  <2> QED BY <2>1, <2>3, <2>4, SharesAreSums
<1> HIDE DEF OnDay, Of
<1>4. SumOver(daily, Day) = SumOver(Rate, executed)
  BY <1>1, <1>2, SumByGroups
<1>5. SumOver(Amounts, OrderID) = SumOver(Rate, executed)
  BY <1>1, <1>3, SumByGroups
<1> QED BY <1>4, <1>5
-----------------------------------------------------------------------------
(* The invariants, step by step.                                            *)

\* No step breaks the types.
LEMMA TypeStep ==
    ASSUME LedgerTypeOK, ScanInv, [LedgerNext]_ledgerVars
    PROVE  LedgerTypeOK'
<1>1. daily' \in [Day -> Nat] /\ cumulative' \in [OrderID -> Nat \cup {Nothing}]
  <2>1. ASSUME NEW o \in OrderID, NEW d \in Day, Books(o, d)
        PROVE  daily' \in [Day -> Nat] /\ cumulative' \in [OrderID -> Nat \cup {Nothing}]
    <3>1. Current(o) \in Nat /\ Current(o)' \in Nat /\ Current(o)' - Current(o) \in Nat
      BY <2>1, OrderAmountsAreNumbers DEF Books
    <3> QED BY <2>1, <3>1 DEF Books, LedgerTypeOK
  <2> QED BY <2>1, StepBooks DEF LedgerTypeOK
<1> DEFINE Rest == /\ executed' \subseteq Trade
                   /\ streamed' \in [Trade -> Nat \cup {Nothing}]
                   /\ inbox' \in [Trade -> {"absent", "pending", "applied"}]
                   /\ share' \in [Trade -> Nat]
                   /\ pc' \in {"down", "read", "stage", "drain", "charge", "running", "blocked"}
                   /\ snapshot' \in [OrderID -> Nat]
                   /\ recovered' \subseteq Trade /\ unstaged' \subseteq Trade
                   /\ uncharged' \subseteq OrderID /\ faults' \in Nat
<1>2. CASE UNCHANGED ledgerVars
  BY <1>2 DEF LedgerTypeOK, ledgerVars, tables, scan
<1>3. CASE Start \/ ReadDone \/ StageDone \/ DrainDone \/ ChargeDone \/ Stop
  BY <1>3 DEF LedgerTypeOK, tables, scan, Start, ReadDone, StageDone, DrainDone, ChargeDone, Stop
<1>4. ASSUME NEW t \in Trade, Execute(t) PROVE Rest
  BY <1>4 DEF LedgerTypeOK, tables, scan, Execute
<1>5. ASSUME NEW t \in Trade, Receive(t) PROVE Rest
  <2>1. ShareNow(OrderOf[t]) \in Nat
    BY <1>5, ShareIsNumber DEF Receive
  <2> QED BY <1>5, <2>1 DEF LedgerTypeOK, tables, scan, Receive
<1>6. ASSUME NEW t \in Trade, PumpStage(t) PROVE Rest
  BY <1>6 DEF LedgerTypeOK, tables, scan, PumpStage, StageExecution
<1>7. ASSUME NEW t \in Trade, StageHistory(t) PROVE Rest
  BY <1>7 DEF LedgerTypeOK, tables, scan, StageHistory, StageExecution
<1>8. ASSUME NEW t \in Trade, SynchronizeExecution(t) PROVE Rest
  BY <1>8 DEF LedgerTypeOK, tables, scan, SynchronizeExecution
<1>9. ASSUME NEW o \in OrderID, ReadOrder(o) PROVE Rest
  <2>1. Charged(ExecutedOf(o)) \in Nat /\ ExecutedOf(o) \subseteq Trade
    BY OrderAmountsAreNumbers, OrdersAreFinite
  <2> QED BY <1>9, <2>1 DEF LedgerTypeOK, tables, scan, ReadOrder
<1>10. ASSUME NEW o \in OrderID, ApplyCumulative(o) \/ RefuseCumulative(o) PROVE Rest
  BY <1>10 DEF LedgerTypeOK, tables, scan, ApplyCumulative, RefuseCumulative
<1>11. Rest
  BY <1>2, <1>3, <1>4, <1>5, <1>6, <1>7, <1>8, <1>9, <1>10 DEF LedgerNext, LedgerTypeOK
<1> QED BY <1>1, <1>11 DEF LedgerTypeOK

\* Only what is executed is staged, streamed and read.
LEMMA KnownStep ==
    ASSUME LedgerTypeOK, ScanInv, [LedgerNext]_ledgerVars
    PROVE  /\ \A t \in Trade : inbox'[t] # "absent" \/ streamed'[t] # Nothing => t \in executed'
           /\ recovered' \subseteq executed' /\ unstaged' \subseteq recovered'
           /\ \A o \in uncharged' : (FillsOf(o) \cap recovered)' # {}
<1> DEFINE Known == \A t \in Trade :
                       inbox'[t] # "absent" \/ streamed'[t] # Nothing => t \in executed'
           Read  == /\ recovered' \subseteq executed' /\ unstaged' \subseteq recovered'
                    /\ \A o \in uncharged' : FillsOf(o) \cap recovered' # {}
<1>1. CASE UNCHANGED ledgerVars
  BY <1>1 DEF ScanInv, ledgerVars, tables, scan, FillsOf
<1>2. CASE Start \/ ReadDone \/ StageDone \/ DrainDone \/ ChargeDone \/ Stop
  <2>1. Known
    BY <1>2 DEF LedgerTypeOK, ScanInv, tables, scan, Start, ReadDone, StageDone, DrainDone, ChargeDone, Stop
  <2>2. Read
    BY <1>2 DEF ScanInv, tables, scan, Start, ReadDone, StageDone, DrainDone, ChargeDone, Stop
  <2> QED BY <2>1, <2>2 DEF FillsOf
<1>3. ASSUME NEW t \in Trade, Execute(t) \/ Receive(t) PROVE Known /\ Read
  BY <1>3 DEF LedgerTypeOK, ScanInv, tables, scan, Execute, Receive
<1>4. ASSUME NEW t \in Trade, PumpStage(t) \/ StageHistory(t) PROVE Known /\ Read
  BY <1>4 DEF LedgerTypeOK, ScanInv, tables, scan, PumpStage, StageHistory, StageExecution
<1>5. ASSUME NEW t \in Trade, SynchronizeExecution(t) PROVE Known /\ Read
  BY <1>5 DEF LedgerTypeOK, ScanInv, tables, scan, SynchronizeExecution
<1>6. ASSUME NEW o \in OrderID, ReadOrder(o) PROVE Known /\ Read
  <2>1. Known
    BY <1>6 DEF ScanInv, tables, ReadOrder
  <2>2. recovered' \subseteq executed' /\ unstaged' \subseteq recovered'
    BY <1>6 DEF ScanInv, ReadOrder, ExecutedOf
  <2>3. ASSUME NEW p \in uncharged' PROVE FillsOf(p) \cap recovered' # {}
    <3>1. CASE p = o
      BY <1>6, <3>1 DEF ReadOrder, ExecutedOf
    <3>2. CASE p # o
      BY <1>6, <2>3, <3>2 DEF ReadOrder, ScanInv
    <3> QED BY <3>1, <3>2
  <2> QED BY <2>1, <2>2, <2>3
<1>7. ASSUME NEW o \in OrderID, ApplyCumulative(o) \/ RefuseCumulative(o) PROVE Known /\ Read
  BY <1>7 DEF ScanInv, tables, scan, ApplyCumulative, RefuseCumulative
<1>8. \A o : (FillsOf(o) \cap recovered)' = FillsOf(o) \cap recovered'
  BY DEF FillsOf
<1> QED BY <1>1, <1>2, <1>3, <1>4, <1>5, <1>6, <1>7, <1>8 DEF LedgerNext

\* An amount never shrinks.
LEMMA AmountsGrow ==
    ASSUME LedgerTypeOK, ScanInv, [LedgerNext]_ledgerVars
    PROVE  \A o \in OrderID : Current(o)' \in Nat /\ Current(o)' >= Current(o)
<1>1. \A o \in OrderID : Current(o) \in Nat
  BY OrderAmountsAreNumbers
<1>2. CASE \A o \in OrderID : Current(o)' = Current(o)
  BY <1>1, <1>2
<1>3. ASSUME NEW p \in OrderID, NEW d \in Day, Books(p, d), NEW o \in OrderID
      PROVE  Current(o)' \in Nat /\ Current(o)' >= Current(o)
  <2>1. CASE o = p
    BY <1>3, <2>1 DEF Books
  <2>2. CASE o # p
    BY <1>1, <1>3, <2>2 DEF Books
  <2> QED BY <2>1, <2>2
<1> QED BY <1>2, <1>3, StepBooks

\* What the scan knows of an order is booked once it is done with the order.
LEMMA ChargedStep ==
    ASSUME LedgerTypeOK, ScanInv, [LedgerNext]_ledgerVars
    PROVE  /\ pc' \in {"read", "stage", "drain"} =>
                 \A o \in OrderID \ uncharged' : snapshot'[o] = 0
           /\ pc' \in {"charge", "running"} =>
                 \A o \in OrderID \ uncharged' : snapshot'[o] <= Current(o)'
           /\ pc' = "running" => uncharged' = {}
<1> DEFINE Reading == pc' \in {"read", "stage", "drain"} =>
                         \A o \in OrderID \ uncharged' : snapshot'[o] = 0
           Booked  == pc' \in {"charge", "running"} =>
                         \A o \in OrderID \ uncharged' : snapshot'[o] <= Current(o)'
           Done    == pc' = "running" => uncharged' = {}
<1>0. \A o \in OrderID : /\ Current(o) \in Nat /\ Current(o)' \in Nat /\ snapshot[o] \in Nat
                         /\ Current(o)' >= Current(o)
  BY OrderAmountsAreNumbers, AmountsGrow DEF LedgerTypeOK
<1>1. ASSUME pc' = pc, snapshot' = snapshot, uncharged' = uncharged
      PROVE  Reading /\ Booked /\ Done
  <2>1. Reading /\ Done
    BY <1>1 DEF ScanInv
  <2>2. ASSUME pc \in {"charge", "running"}, NEW o \in OrderID \ uncharged
        PROVE  snapshot[o] <= Current(o)'
    <3>1. snapshot[o] <= Current(o)
      BY <2>2 DEF ScanInv
    <3> QED BY <1>0, <3>1
  <2> QED BY <1>1, <2>1, <2>2
<1>2. CASE UNCHANGED ledgerVars
  BY <1>1, <1>2 DEF ledgerVars, scan
<1>3. CASE Start \/ ReadDone \/ StageDone \/ Stop
  BY <1>3 DEF Start, ReadDone, StageDone, Stop, scan, ScanInv
<1>4. CASE DrainDone
  <2>1. pc' = "charge" /\ \A o \in OrderID \ uncharged : snapshot'[o] = 0
    BY <1>4 DEF DrainDone, scan, ScanInv
  <2>2. uncharged' = uncharged
    BY <1>4 DEF DrainDone, scan
  <2> QED BY <1>0, <2>1, <2>2
<1>5. CASE ChargeDone
  <2>1. /\ pc' = "running" /\ uncharged' = {} /\ snapshot' = snapshot
        /\ \A o \in OrderID : snapshot[o] <= Current(o)
    BY <1>5 DEF ChargeDone, scan, ScanInv
  <2>2. \A o \in OrderID : snapshot[o] <= Current(o)'
    <3> TAKE o \in OrderID
    <3>1. snapshot[o] <= Current(o)
      BY <2>1
    <3> QED BY <1>0, <3>1
  <2> QED BY <2>1, <2>2
<1>6. ASSUME NEW t \in Trade, Execute(t) \/ Receive(t) \/ PumpStage(t) \/ SynchronizeExecution(t)
      PROVE  Reading /\ Booked /\ Done
  BY <1>1, <1>6 DEF Execute, Receive, PumpStage, SynchronizeExecution, scan
<1>7. ASSUME NEW t \in Trade, StageHistory(t) PROVE Reading /\ Booked /\ Done
  BY <1>1, <1>7 DEF StageHistory
<1>8. ASSUME NEW o \in OrderID, ReadOrder(o) PROVE Reading /\ Booked /\ Done
  BY <1>8 DEF ReadOrder, ScanInv, LedgerTypeOK
<1>9. ASSUME NEW o \in OrderID, RefuseCumulative(o) PROVE Reading /\ Booked /\ Done
  BY <1>9 DEF RefuseCumulative
<1>10. ASSUME NEW o \in OrderID, ApplyCumulative(o) PROVE Reading /\ Booked /\ Done
  <2>1. /\ pc' = "charge" /\ snapshot' = snapshot /\ uncharged' = uncharged \ {o}
        /\ pc = "charge"
    BY <1>10 DEF ApplyCumulative
  <2>2. snapshot[o] <= Current(o)'
    BY <1>0, <1>10, CumulativeBooks
  <2>3. ASSUME NEW p \in OrderID \ uncharged PROVE snapshot[p] <= Current(p)'
    <3>1. snapshot[p] <= Current(p)
      BY <2>1 DEF ScanInv
    <3> QED BY <1>0, <3>1
  <2> QED BY <2>1, <2>2, <2>3
<1> QED BY <1>2, <1>3, <1>4, <1>5, <1>6, <1>7, <1>8, <1>9, <1>10 DEF LedgerNext

\* No step breaks what holds of the scan of history.
LEMMA ScanStep ==
    ASSUME LedgerTypeOK, ScanInv, [LedgerNext]_ledgerVars
    PROVE  ScanInv'
BY KnownStep, ChargedStep DEF ScanInv

\* What an order is charged only grows.
LEMMA ChargesGrow ==
    ASSUME LedgerTypeOK, LedgerTypeOK', executed \subseteq executed'
    PROVE  \A o \in OrderID : /\ Charged(ExecutedOf(o)) \in Nat /\ Charged(ExecutedOf(o))' \in Nat
                              /\ Charged(ExecutedOf(o)) <= Charged(ExecutedOf(o))'
<1> TAKE o \in OrderID
<1>1. ExecutedOf(o) \subseteq ExecutedOf(o)'
  BY DEF ExecutedOf, FillsOf
<1>2. IsFiniteSet(ExecutedOf(o)') /\ \A x \in ExecutedOf(o)' : Rate[x] \in Nat
  BY OrdersAreFinite, LedgerAssumption
<1>3. /\ SumOver(Rate, ExecutedOf(o)) \in Nat /\ SumOver(Rate, ExecutedOf(o)') \in Nat
      /\ SumOver(Rate, ExecutedOf(o)) <= SumOver(Rate, ExecutedOf(o)')
  BY <1>1, <1>2, SumOfPart
<1> QED BY <1>3, ChargesAreSums

\* No trade is forgotten by the exchange.
LEMMA ExecutedGrows == [LedgerNext]_ledgerVars => executed \subseteq executed'
BY DEF LedgerNext, ledgerVars, Start, ReadDone, StageDone, DrainDone, ChargeDone, Stop, Execute,
       Receive, PumpStage, StageHistory, SynchronizeExecution, ReadOrder, ApplyCumulative,
       RefuseCumulative

\* No scan reads more than is charged.
LEMMA SnapshotStep ==
    ASSUME LedgerTypeOK, LedgerTypeOK', RateInv, [LedgerNext]_ledgerVars
    PROVE  \A o \in OrderID : snapshot'[o] <= Charged(ExecutedOf(o))'
<1>1. \A o \in OrderID : /\ Charged(ExecutedOf(o)) \in Nat /\ Charged(ExecutedOf(o))' \in Nat
                         /\ Charged(ExecutedOf(o)) <= Charged(ExecutedOf(o))'
                         /\ snapshot[o] \in Nat /\ snapshot[o] <= Charged(ExecutedOf(o))
  BY ChargesGrow, ExecutedGrows DEF RateInv, LedgerTypeOK
<1>2. CASE snapshot' = snapshot
  <2> TAKE o \in OrderID
  <2> QED BY <1>1, <1>2
<1>3. CASE Start
  BY <1>1, <1>3 DEF Start
<1>4. ASSUME NEW p \in OrderID, ReadOrder(p), NEW o \in OrderID
      PROVE  snapshot'[o] <= Charged(ExecutedOf(o))'
  <2>1. CASE o = p
    <3>1. snapshot'[o] = Charged(ExecutedOf(o))
      BY <1>4, <2>1 DEF ReadOrder, LedgerTypeOK
    <3> QED BY <1>1, <3>1
  <2>2. CASE o # p
    <3>1. snapshot'[o] = snapshot[o]
      BY <1>4, <2>2 DEF ReadOrder, LedgerTypeOK
    <3> QED BY <1>1, <3>1
  <2> QED BY <2>1, <2>2
<1>5. snapshot' = snapshot \/ Start \/ \E o \in OrderID : ReadOrder(o)
  BY DEF LedgerNext, ledgerVars, scan, ReadDone, StageDone, DrainDone, ChargeDone, Stop, Execute,
         Receive, PumpStage, StageHistory, SynchronizeExecution, ApplyCumulative, RefuseCumulative
<1> QED BY <1>2, <1>3, <1>4, <1>5

\* No share is larger than what its lot costs.
LEMMA ShareStep ==
    ASSUME LedgerTypeOK, RateInv, [LedgerNext]_ledgerVars,
           NEW u \in Trade, OneRate(OrderOf[u])
    PROVE  share'[u] <= Rate[u] /\ (streamed'[u] # Nothing => streamed'[u] <= Rate[u])
<1>0. /\ share[u] <= Rate[u] /\ (streamed[u] # Nothing => streamed[u] <= Rate[u])
      /\ Rate[u] \in Nat
  BY LedgerAssumption DEF RateInv
<1>1. CASE UNCHANGED <<share, streamed>>
  BY <1>0, <1>1
<1>2. CASE Stop
  BY <1>0, <1>2 DEF Stop, tables
<1>3. ASSUME NEW t \in Trade, Receive(t)
      PROVE  share'[u] <= Rate[u] /\ (streamed'[u] # Nothing => streamed'[u] <= Rate[u])
  <2>1. CASE u = t
    <3>1. ShareNow(OrderOf[u]) = Rate[u]
      BY <1>3, <2>1, ShareAtOneRate DEF Receive
    <3> QED BY <1>0, <1>3, <2>1, <3>1 DEF Receive, tables, LedgerTypeOK
  <2>2. CASE u # t
    BY <1>0, <1>3, <2>2 DEF Receive, tables, LedgerTypeOK
  <2> QED BY <2>1, <2>2
<1>4. ASSUME NEW t \in Trade, PumpStage(t)
      PROVE  share'[u] <= Rate[u] /\ (streamed'[u] # Nothing => streamed'[u] <= Rate[u])
  BY <1>0, <1>4 DEF PumpStage, StageExecution, LedgerTypeOK
<1>5. ASSUME NEW t \in Trade, StageHistory(t)
      PROVE  share'[u] <= Rate[u] /\ (streamed'[u] # Nothing => streamed'[u] <= Rate[u])
  BY <1>0, <1>5 DEF StageHistory, StageExecution, LedgerTypeOK
<1>6. \/ UNCHANGED <<share, streamed>> \/ Stop
      \/ \E t \in Trade : Receive(t) \/ PumpStage(t) \/ StageHistory(t)
  BY DEF LedgerNext, ledgerVars, tables, Start, ReadDone, StageDone, DrainDone, ChargeDone, Execute,
         SynchronizeExecution, ReadOrder, ApplyCumulative, RefuseCumulative
<1> QED BY <1>1, <1>2, <1>3, <1>4, <1>5, <1>6

\* An order whose lots cost the same is not booked with more than is charged.
LEMMA AmountStep ==
    ASSUME LedgerTypeOK, LedgerTypeOK', ScanInv, RateInv, [LedgerNext]_ledgerVars,
           NEW o \in OrderID, OneRate(o)
    PROVE  Current(o)' <= Charged(ExecutedOf(o))'
<1>0. /\ Charged(ExecutedOf(o)) \in Nat /\ Charged(ExecutedOf(o))' \in Nat
      /\ Charged(ExecutedOf(o)) <= Charged(ExecutedOf(o))'
      /\ Current(o) \in Nat /\ snapshot[o] \in Nat
      /\ snapshot[o] <= Charged(ExecutedOf(o)) /\ Current(o) <= Charged(ExecutedOf(o))
  BY ChargesGrow, ExecutedGrows, OrderAmountsAreNumbers DEF RateInv, LedgerTypeOK
<1>1. CASE Current(o)' = Current(o)
  BY <1>0, <1>1
<1>2. ASSUME NEW t \in Trade, SynchronizeExecution(t), OrderOf[t] = o
      PROVE  Current(o)' <= Charged(ExecutedOf(o))'
  <2> DEFINE S == AppliedOf(o) \cup {t}
  <2>1. S \subseteq ExecutedOf(o)
    BY <1>2 DEF AppliedOf, ExecutedOf, FillsOf, ScanInv, SynchronizeExecution
  <2>2. \A u \in S : share[u] <= Rate[u]
    BY <1>2 DEF RateInv, AppliedOf, FillsOf
  <2>3. Shares(S) <= Charged(ExecutedOf(o))
    BY <2>1, <2>2, SharesWithinCharge
  <2>4. Current(o)' \in {Current(o), Shares(S)}
    BY <1>2, SynchronizeBooks
  <2>5. Shares(S) \in Nat
    <3>1. S \in SUBSET Trade
      BY OrdersAreFinite
    <3> QED BY <3>1, SharesAreSums, SumsAreNumbers DEF LedgerTypeOK
  <2> HIDE DEF S
  <2> QED BY <1>0, <2>3, <2>4, <2>5
<1>3. CASE ApplyCumulative(o)
  <2>1. Current(o)' = snapshot[o] \/ Current(o)' = Current(o)
    BY <1>3, CumulativeBooks
  <2> QED BY <1>0, <2>1
<1>4. \/ Current(o)' = Current(o) \/ ApplyCumulative(o)
      \/ \E t \in Trade : SynchronizeExecution(t) /\ OrderOf[t] = o
  <2>1. CASE \/ UNCHANGED <<inbox, share, cumulative, daily>>
             \/ \E t \in Trade : PumpStage(t) \/ StageHistory(t)
    BY <2>1, OthersBookNothing
  <2>2. ASSUME NEW t \in Trade, SynchronizeExecution(t), OrderOf[t] # o
        PROVE  Current(o)' = Current(o)
    BY <2>2, SynchronizeBooks DEF Books
  <2>3. ASSUME NEW p \in OrderID, ApplyCumulative(p), p # o
        PROVE  Current(o)' = Current(o)
    BY <2>3, CumulativeBooks DEF Books
  <2> QED BY <2>1, <2>2, <2>3, StepKinds
<1> QED BY <1>1, <1>2, <1>3, <1>4

\* No step breaks what holds of orders whose trades share one rate.
LEMMA RateStep ==
    ASSUME LedgerTypeOK, LedgerTypeOK', ScanInv, RateInv, [LedgerNext]_ledgerVars
    PROVE  RateInv'
<1>1. \A o : OneRate(o)' <=> OneRate(o)
  BY DEF OneRate
<1> QED BY <1>1, SnapshotStep, ShareStep, AmountStep DEF RateInv

\* The invariants hold when the program starts.
LEMMA LedgerInitially == LedgerInit => LedgerTypeOK /\ ScanInv /\ RateInv
<1> SUFFICES ASSUME LedgerInit PROVE LedgerTypeOK /\ ScanInv /\ RateInv
  OBVIOUS
<1>1. LedgerTypeOK
  <2>1. \A d \in Day : Charged({t \in executed : DayOf[t] = d}) \in Nat
    <3> TAKE d \in Day
    <3>1. {t \in executed : DayOf[t] = d} \in SUBSET Trade
      BY DEF LedgerInit
    <3> QED BY <3>1, ChargesAreSums, SumsAreNumbers, LedgerAssumption
  <2> QED BY <2>1, LedgerAssumption DEF LedgerInit, LedgerTypeOK
<1>2. ScanInv
  BY DEF LedgerInit, ScanInv
<1>3. RateInv
  <2>1. \A t \in Trade : share[t] <= Rate[t] /\ streamed[t] = Nothing
    BY LedgerAssumption DEF LedgerInit
  <2>2. \A o \in OrderID : snapshot[o] <= Charged(ExecutedOf(o))
    BY <1>1, OrderAmountsAreNumbers DEF LedgerInit
  <2>3. \A o \in OrderID : Current(o) <= Charged(ExecutedOf(o))
    <3> TAKE o \in OrderID
    <3>1. AppliedOf(o) \subseteq ExecutedOf(o)
      BY DEF LedgerInit, AppliedOf, ExecutedOf, FillsOf
    <3>2. \A t \in AppliedOf(o) : share[t] <= Rate[t]
      BY <2>1, OrdersAreFinite
    <3>3. Current(o) = Shares(AppliedOf(o))
      BY DEF Current, LedgerInit
    <3> QED BY <1>1, <3>1, <3>2, <3>3, SharesWithinCharge
  <2> QED BY <2>1, <2>2, <2>3 DEF RateInv
<1> QED BY <1>1, <1>2, <1>3

\* The three together are inductive.
LEMMA LedgerInvariant == LedgerSpec => [](LedgerTypeOK /\ ScanInv /\ RateInv)
<1>1. LedgerTypeOK /\ ScanInv /\ RateInv /\ [LedgerNext]_ledgerVars
      => (LedgerTypeOK /\ ScanInv /\ RateInv)'
  BY TypeStep, ScanStep, RateStep
<1> QED BY <1>1, LedgerInitially, PTL DEF LedgerSpec
-----------------------------------------------------------------------------
\* BooksAgree, for any orders, trades, days and rates: what the trading days hold
\* is what the orders' rows hold (commission.go:84-108, 168-189, 191-231).
THEOREM DaysAndOrdersAgree == LedgerSpec => []BooksAgree
<1> DEFINE Same == SumOfAll(daily, Day) = SumOfAll(Amounts, OrderID)
<1>1. LedgerInit => Same
  BY BooksInitially
<1>2. LedgerTypeOK /\ ScanInv /\ Same /\ [LedgerNext]_ledgerVars => Same'
  <2> SUFFICES ASSUME LedgerTypeOK, ScanInv, Same, [LedgerNext]_ledgerVars
               PROVE  SumOfAll(daily', Day) = SumOfAll(Amounts', OrderID)
    OBVIOUS
  <2> QED BY BooksStep
<1>3. LedgerTypeOK /\ Same => BooksAgree
  BY DEF BooksAgree
<1> HIDE DEF Same
<1> QED BY <1>1, <1>2, <1>3, LedgerInvariant, PTL DEF LedgerSpec

\* BookedAsCharged: after a scan at least what it read is booked, and of an order
\* whose lots cost the same no more than was charged, whatever came by stream,
\* by history, twice or late (execution_ingress.go:182-200, commission.go:122-142).
THEOREM NoMoreThanCharged == LedgerSpec => []BookedAsCharged
<1>1. LedgerTypeOK /\ ScanInv /\ RateInv => BookedAsCharged
  <2> SUFFICES ASSUME LedgerTypeOK, ScanInv, RateInv, NEW o \in OrderID
               PROVE  /\ pc = "running" => Current(o) >= snapshot[o]
                      /\ OneRate(o) => Current(o) <= Charged(ExecutedOf(o))
    BY DEF BookedAsCharged
  <2>1. ASSUME pc = "running" PROVE Current(o) >= snapshot[o]
    <3>1. snapshot[o] <= Current(o)
      BY <2>1 DEF ScanInv
    <3> QED BY <3>1, OrderAmountsAreNumbers DEF LedgerTypeOK
  <2> QED BY <2>1 DEF RateInv
<1> QED BY <1>1, LedgerInvariant, PTL

\* AmountIsReported: an amount only grows, to a total that the fills or a snapshot
\* of the exchange really had (commission.go:122-142).
THEOREM AmountsAreReported == LedgerSpec => AmountIsReported
<1> DEFINE Reported ==
             \A o \in OrderID :
                 cumulative'[o] # cumulative[o] =>
                     /\ cumulative'[o] >= Current(o)
                     /\ cumulative'[o] \in {snapshot[o], Current(o), Shares(AppliedOf(o)')}
<1>1. LedgerTypeOK /\ ScanInv /\ [LedgerNext]_ledgerVars => Reported
  <2> SUFFICES ASSUME LedgerTypeOK, ScanInv, [LedgerNext]_ledgerVars,
                      NEW o \in OrderID, cumulative'[o] # cumulative[o]
               PROVE  /\ cumulative'[o] >= Current(o)
                      /\ cumulative'[o] \in {snapshot[o], Current(o), Shares(AppliedOf(o)')}
    OBVIOUS
  <2>1. CASE \/ UNCHANGED <<inbox, share, cumulative, daily>>
             \/ \E t \in Trade : PumpStage(t) \/ StageHistory(t)
    BY <2>1, OthersBookNothing
  <2>2. ASSUME NEW t \in Trade, SynchronizeExecution(t)
        PROVE  /\ cumulative'[o] >= Current(o)
               /\ cumulative'[o] \in {Current(o), Shares(AppliedOf(o)')}
    <3>1. Books(OrderOf[t], DayOf[t]) /\ OrderOf[t] \in OrderID
      BY <2>2, SynchronizeBooks, LedgerAssumption
    <3>2. o = OrderOf[t] /\ cumulative'[o] = Current(o)' /\ Current(o)' >= Current(o)
      BY <3>1 DEF Books, LedgerTypeOK
    <3>3. /\ AppliedOf(o)' = AppliedOf(o) \cup {t}
          /\ Current(o)' \in {Current(o), Shares(AppliedOf(o) \cup {t})}
      BY <2>2, <3>2, SynchronizeBooks
    <3> QED BY <3>2, <3>3
  <2>3. ASSUME NEW p \in OrderID, ApplyCumulative(p)
        PROVE  cumulative'[o] >= Current(o) /\ cumulative'[o] = snapshot[o]
    <3>1. Books(p, LastDay(p)) /\ Current(p)' = snapshot[p]
      BY <2>3, CumulativeBooks
    <3>2. o = p /\ cumulative'[o] = Current(o)' /\ Current(o)' >= Current(o)
      BY <3>1 DEF Books, LedgerTypeOK
    <3> QED BY <3>1, <3>2
  <2> QED BY <2>1, <2>2, <2>3, StepKinds
<1>2. LedgerTypeOK /\ ScanInv /\ RateInv /\ [LedgerNext]_ledgerVars => [Reported]_ledgerVars
  BY <1>1
<1> QED BY <1>2, LedgerInvariant, PTL DEF LedgerSpec, AmountIsReported
=============================================================================
