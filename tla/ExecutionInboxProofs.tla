------------------------ MODULE ExecutionInboxProofs ------------------------
(***************************************************************************)
(* Machine-checked theorems about ExecutionInbox, for any orders, trades   *)
(* and books, any lag of the history that overlap and delay outlast, and   *)
(* any number of crashes and lost connections.                             *)
(***************************************************************************)
EXTENDS ExecutionInbox, FiniteSums

\* SumOver says what Total and Net are.
LEMMA TotalIsSum == \A S : Total(S) = SumOver(Quantity, S)
BY DEF Total, SumOver

\* The net amount of a book is the sum over its trades.
LEMMA NetIsSum == \A b, S : Net(b, S) = SumOver(Signed, {t \in S : BookOf[t] = b})
BY DEF Net, SumOver

\* What TradeAssumption says of single trades and of sets of them.
LEMMA TradeTypes ==
    /\ \A t \in Trade : Quantity[t] \in Nat /\ Quantity[t] > 0 /\ Signed[t] \in Int
    /\ \A t \in Trade : OrderOf[t] \in Order /\ BookOf[t] \in Book
    /\ \A S \in SUBSET Trade : IsFiniteSet(S)
    /\ \A o : FillsOf(o) \in SUBSET Trade
<1>1. \A S \in SUBSET Trade : IsFiniteSet(S)
  BY TradeAssumption, FS_Subset
<1> QED BY <1>1, TradeAssumption DEF Signed, BookOf, FillsOf

\* A set of trades has a total.
LEMMA TotalTypes ==
    ASSUME NEW S \in SUBSET Trade
    PROVE  Total(S) \in Nat
BY TradeTypes, TotalIsSum, SumIsNatural

\* A part of the trades fills no more than all of them.
LEMMA TotalOfPart ==
    ASSUME NEW S \in SUBSET Trade, NEW U \in SUBSET S
    PROVE  Total(U) <= Total(S)
BY TradeTypes, TotalIsSum, SumOfPart

\* Disjoint sets of trades fill the sum of what each fills.
LEMMA TotalOfUnion ==
    ASSUME NEW S \in SUBSET Trade, NEW U \in SUBSET Trade, S \cap U = {}
    PROVE  Total(S \cup U) = Total(S) + Total(U)
<1>1. \A x \in S \cup U : Quantity[x] \in Int
  BY TradeTypes
<1> QED BY <1>1, TradeTypes, TotalIsSum, SumOfUnion

\* A set of trades has a net amount in every book.
LEMMA NetTypes ==
    ASSUME NEW S \in SUBSET Trade, NEW b
    PROVE  Net(b, S) \in Int
<1>1. {t \in S : BookOf[t] = b} \in SUBSET Trade
  OBVIOUS
<1> QED BY <1>1, TradeTypes, NetIsSum, SumIsWhole

\* Disjoint sets of trades net the sum of what each nets.
LEMMA NetOfUnion ==
    ASSUME NEW S \in SUBSET Trade, NEW U \in SUBSET Trade, S \cap U = {}, NEW b
    PROVE  Net(b, S \cup U) = Net(b, S) + Net(b, U)
<1> DEFINE SB == {t \in S : BookOf[t] = b}
           UB == {t \in U : BookOf[t] = b}
<1>1. /\ SB \in SUBSET Trade /\ UB \in SUBSET Trade /\ SB \cap UB = {}
      /\ {t \in S \cup U : BookOf[t] = b} = SB \cup UB
  OBVIOUS
<1>2. \A x \in SB \cup UB : Signed[x] \in Int
  BY <1>1, TradeTypes
<1>3. IsFiniteSet(SB) /\ IsFiniteSet(UB)
  BY <1>1, TradeTypes
<1>4. SumOver(Signed, SB \cup UB) = SumOver(Signed, SB) + SumOver(Signed, UB)
  BY <1>1, <1>2, <1>3, SumOfUnion
<1> QED BY <1>1, <1>4, NetIsSum

\* A trade counts in its own book only.
LEMMA NetOfOne ==
    ASSUME NEW t \in Trade, NEW b
    PROVE  Net(b, {t}) = IF BookOf[t] = b THEN Signed[t] ELSE 0
<1>1. CASE BookOf[t] = b
  <2>1. {u \in {t} : BookOf[u] = b} = {t} /\ {t} \ {t} = {}
    BY <1>1
  <2>2. SumOver(Signed, {t}) = Signed[t] + SumOver(Signed, {})
    BY <2>1, TradeTypes, FS_Singleton, SumWithout
  <2> QED BY <1>1, <2>1, <2>2, SumOfNothing, NetIsSum, TradeTypes
<1>2. CASE BookOf[t] # b
  <2>1. {u \in {t} : BookOf[u] = b} = {}
    BY <1>2
  <2> QED BY <1>2, <2>1, SumOfNothing, NetIsSum
<1> QED BY <1>1, <1>2

\* One trade fills its quantity.
LEMMA TotalOfOne ==
    ASSUME NEW t \in Trade
    PROVE  Total({t}) = Quantity[t]
<1>1. SumOver(Quantity, {t}) = Quantity[t] + SumOver(Quantity, {t} \ {t})
  BY TradeTypes, FS_Singleton, SumWithout
<1>2. SumOver(Quantity, {t} \ {t}) = 0
  <2>1. {t} \ {t} = {}
    OBVIOUS
  <2> QED BY <2>1, SumOfNothing
<1>3. Quantity[t] + 0 = Quantity[t]
  BY TradeTypes
<1> QED BY <1>1, <1>2, <1>3, TotalIsSum
-----------------------------------------------------------------------------
\* The exchange has executed t.
Known(t) == executedAt[t] > 0

\* Nothing is staged, held, on the stream or recovered that the exchange did not
\* execute, for an order that was sent.
SourceInv ==
    /\ pump \in {"held", "staged"} => hand \in Trade
    /\ pump = "staged" => inbox[hand] # "absent"
    /\ pump \in {"off", "idle", "failed"} => hand = None
    /\ \A t \in Trade : inbox[t] # "absent" => Known(t)
    /\ hand # None => Known(hand)
    /\ \A i \in 1 .. Len(stream) : Known(stream[i])
    /\ \A t \in recovered : Known(t)
    /\ unstaged \subseteq recovered
    /\ \A t \in Trade : Known(t) => OrderOf[t] \in accepted /\ executedAt[t] <= now
    /\ \A o \in accepted : intent[o] \in {"submitting", "submitted"}

\* The initial state has the right types and nothing to account for.
LEMMA TypesInitially == Init => TypeOK /\ SourceInv
<1> SUFFICES ASSUME Init PROVE TypeOK /\ SourceInv
  OBVIOUS
<1>1. TypeOK
  <2>1. connected \in BOOLEAN /\ notified \in BOOLEAN
    BY DEF Init
  <2>2. stream \in Seq(Trade)
    BY DEF Init
  <2>3. /\ executedAt \in [Trade -> Nat] /\ receivedAt \in [Trade -> Int]
        /\ filled \in [Order -> Nat] /\ position \in [Book -> Int]
    BY DEF Init
  <2> QED BY <2>1, <2>2, <2>3 DEF Init, TypeOK
<1>2. SourceInv
  BY TradeAssumption DEF Init, SourceInv, Known
<1> QED BY <1>1, <1>2

\* What the exchange reports of an order is a number of lots.
LEMMA LotsTypes == TypeOK => \A o : Lots(o) \in Nat /\ FillsOf(o) \cap Executed \in SUBSET Trade
<1> SUFFICES ASSUME NEW o PROVE Lots(o) \in Nat /\ FillsOf(o) \cap Executed \in SUBSET Trade
  OBVIOUS
<1>1. FillsOf(o) \cap Executed \in SUBSET Trade
  BY TradeTypes
<1> QED BY <1>1, TotalTypes DEF Lots

\* Steps of the exchange keep types and sources.
LEMMA ExchangeTypes ==
    ASSUME TypeOK, SourceInv, Exchange
    PROVE  TypeOK' /\ SourceInv'
<1>1. CASE Tick
  BY <1>1 DEF Tick, TypeOK, SourceInv, Known, channel, tables, pumpVars, scan
<1>2. CASE LoseConnection
  <2>1. /\ connected' \in BOOLEAN /\ faults' = faults + 1
        /\ UNCHANGED <<exchange, stream, tables, pumpVars, pc, scan>>
    BY <1>2 DEF LoseConnection
  <2>2. TypeOK'
    BY <2>1 DEF TypeOK, exchange, tables, pumpVars, scan
  <2> QED BY <2>1, <2>2 DEF SourceInv, Known, exchange, tables, pumpVars, scan
<1>3. ASSUME NEW o \in Order, Accept(o) PROVE TypeOK' /\ SourceInv'
  BY <1>3 DEF Accept, TypeOK, SourceInv, Known, channel, tables, pumpVars, scan
<1>4. ASSUME NEW t \in Trade, Execute(t) PROVE TypeOK' /\ SourceInv'
  <2>1. /\ stream' \in Seq(Trade)
        /\ \A i \in 1 .. Len(stream') :
               stream'[i] = t \/ (i \in 1 .. Len(stream) /\ stream'[i] = stream[i])
    <3>1. stream \in Seq(Trade) /\ (stream' = Append(stream, t) \/ stream' = stream)
      BY <1>4 DEF Execute, TypeOK
    <3> QED BY <3>1
  <2>2. TypeOK'
    <3>1. executedAt' \in [Trade -> Nat] /\ now' \in Nat
      BY <1>4 DEF Execute, TypeOK
    <3> QED BY <1>4, <2>1, <3>1 DEF Execute, TypeOK, tables, pumpVars, scan
  <2>3. executedAt' = [executedAt EXCEPT ![t] = now + 1] /\ now' = now + 1 /\ OrderOf[t] \in accepted
    BY <1>4 DEF Execute
  <2>4. \A u \in Trade : Known(u)' <=> u = t \/ Known(u)
    BY <2>3 DEF TypeOK, Known
  <2>5. UNCHANGED <<accepted, tables, pumpVars, scan>>
    BY <1>4 DEF Execute
  <2>6. SourceInv'
    BY <2>1, <2>3, <2>4, <2>5 DEF TypeOK, SourceInv, tables, pumpVars, scan
  <2> QED BY <2>2, <2>6
<1>5. ASSUME NEW t \in Trade, List(t) PROVE TypeOK' /\ SourceInv'
  BY <1>5 DEF List, TypeOK, SourceInv, Known, channel, tables, pumpVars, scan
<1> QED BY <1>1, <1>2, <1>3, <1>4, <1>5 DEF Exchange

\* Steps of the pump do: what it stages it took from the stream.
LEMMA PumpTypes ==
    ASSUME TypeOK, SourceInv, Pump
    PROVE  TypeOK' /\ SourceInv'
<1>1. CASE PumpReceive
  <2>1. /\ stream \in Seq(Trade) /\ stream # <<>> /\ now \in Nat /\ lastReceived \in Nat
        /\ hand' = Head(stream) /\ stream' = Tail(stream) /\ pump' = "held"
    BY <1>1 DEF PumpReceive, TypeOK
  <2>2. /\ hand' \in Trade /\ hand' = stream[1] /\ 1 \in 1 .. Len(stream)
        /\ stream' \in Seq(Trade)
        /\ \A i \in 1 .. Len(stream') : i + 1 \in 1 .. Len(stream) /\ stream'[i] = stream[i + 1]
    BY <2>1
  <2>3. lastReceived' \in Nat
    BY <1>1, <2>1, TimeAssumption DEF PumpReceive
  <2>4. UNCHANGED <<exchange, connected, tables, notified, pc, scan, faults>>
    BY <1>1 DEF PumpReceive
  <2>5. TypeOK'
    BY <2>1, <2>2, <2>3, <2>4 DEF TypeOK, exchange, tables, scan
  <2>6. SourceInv'
    BY <2>1, <2>2, <2>4 DEF SourceInv, Known, exchange, tables, scan
  <2> QED BY <2>5, <2>6
<1>2. CASE PumpStage
  <2>1. /\ hand \in Trade /\ Known(hand) /\ pump' = "staged"
        /\ inbox' = IF inbox[hand] = "absent" THEN [inbox EXCEPT ![hand] = "pending"] ELSE inbox
        /\ receivedAt' = IF inbox[hand] = "absent" THEN [receivedAt EXCEPT ![hand] = lastReceived]
                         ELSE receivedAt
    BY <1>2, TradeAssumption DEF PumpStage, StageExecution, SourceInv
  <2>2. UNCHANGED <<exchange, channel, intent, filled, position, checkpoint, hand,
                    lastReceived, notified, pc, scan, faults>>
    BY <1>2 DEF PumpStage
  <2>3. TypeOK'
    BY <2>1, <2>2 DEF TypeOK, exchange, channel, scan
  <2>4. SourceInv'
    BY <2>1, <2>2 DEF TypeOK, SourceInv, Known, exchange, channel, scan
  <2> QED BY <2>3, <2>4
<1>3. CASE PumpNotify
  BY <1>3 DEF PumpNotify, TypeOK, SourceInv, Known, exchange, channel, tables, scan
<1>4. CASE PumpSeesEnd
  BY <1>4 DEF PumpSeesEnd, TypeOK, SourceInv, Known, exchange, channel, tables, scan
<1>5. CASE PumpFails
  BY <1>5, TimeAssumption DEF PumpFails, TypeOK, SourceInv, Known, exchange, channel, tables, scan
<1> QED BY <1>1, <1>2, <1>3, <1>4, <1>5 DEF Pump

\* Steps of the main goroutine that only take it to its next call.
Moves ==
    \/ Start \/ ResolveDone \/ StageDone \/ DrainDone \/ DrainAgain
    \/ ComparePositions \/ CompareOrders
    \/ ReadyDone \/ PumpErrorSeen \/ CallFails
    \/ \E t \in Trade : DrainFails(t)

\* They leave everything else alone, a fault count apart.
LEMMA MovesLeave ==
    ASSUME Moves
    PROVE  /\ UNCHANGED <<exchange, channel, tables, pumpVars, scan>>
           /\ pc' \in {"stopped"} \cup Starting \cup Trading
           /\ faults' = faults \/ faults' = faults + 1
<1>1. /\ UNCHANGED <<exchange, channel, tables, pumpVars, scan>>
      /\ faults' = faults \/ faults' = faults + 1
  BY DEF Moves, Start, ResolveDone, StageDone, DrainDone, DrainAgain, ComparePositions,
         CompareOrders, ReadyDone, PumpErrorSeen, CallFails, DrainFails
<1>2. pc' \in {"stopped"} \cup Starting \cup Trading
  BY DEF Moves, Start, ResolveDone, StageDone, DrainDone, DrainAgain, ComparePositions,
         CompareOrders, ReadyDone, PumpErrorSeen, CallFails, DrainFails, Stop, Starting, Trading
<1> QED BY <1>1, <1>2

\* So they keep types and sources.
LEMMA MovesTypes ==
    ASSUME TypeOK, SourceInv, Moves
    PROVE  TypeOK' /\ SourceInv'
<1>1. /\ UNCHANGED <<exchange, channel, tables, pumpVars, scan>>
      /\ pc' \in {"stopped"} \cup Starting \cup Trading
      /\ faults' = faults \/ faults' = faults + 1
  BY MovesLeave
<1>2. TypeOK'
  BY <1>1 DEF TypeOK, exchange, channel, tables, pumpVars, scan
<1>3. SourceInv'
  BY <1>1 DEF SourceInv, Known, exchange, channel, tables, pumpVars, scan
<1> QED BY <1>2, <1>3

\* Subscription, window, checkpoint and the end of a process do.
LEMMA StartTypes ==
    ASSUME TypeOK, SourceInv, Subscribe \/ OpenWindow \/ ReadDone \/ TakeNotification
                              \/ AdvanceCheckpoint \/ Exit \/ Crash
    PROVE  TypeOK' /\ SourceInv'
<1>1. CASE Subscribe
  <2>1. /\ connected' \in BOOLEAN /\ notified' \in BOOLEAN
        /\ stream' \in Seq(Trade) /\ Len(stream') = 0
    <3>1. connected' \in BOOLEAN /\ notified' \in BOOLEAN
      BY <1>1 DEF Subscribe
    <3>2. stream' \in Seq(Trade) /\ Len(stream') = 0
      BY <1>1 DEF Subscribe
    <3> QED BY <3>1, <3>2
  <2>2. /\ pump' = "idle" /\ hand' = None /\ lastReceived' = 0 /\ pc' = "window"
        /\ UNCHANGED <<exchange, tables, scan, faults>>
    BY <1>1 DEF Subscribe
  <2>3. TypeOK'
    BY <2>1, <2>2 DEF TypeOK, exchange, tables, scan, Starting
  <2>4. SourceInv'
    BY <2>1, <2>2 DEF SourceInv, Known, exchange, tables, scan
  <2> QED BY <2>3, <2>4
<1>2. CASE OpenWindow
  <2>1. /\ recoveryTo' \in Int /\ pc' \in {"stopped", "read"}
        /\ UNCHANGED <<exchange, channel, tables, pumpVars, recovered, unstaged, faults>>
    BY <1>2, TimeAssumption DEF OpenWindow, TypeOK, Stop
  <2>2. toRead' \subseteq Order
    <3> DEFINE to == now - VisibilityDelay
               seen == {u \in listed : executedAt[u] >= WindowFrom(to) /\ executedAt[u] <= to}
    <3>1. toRead' = {OrderOf[t] : t \in seen} \/ toRead' = toRead
      BY <1>2 DEF OpenWindow
    <3>2. seen \subseteq Trade
      BY DEF TypeOK
    <3> HIDE DEF seen
    <3>3. {OrderOf[t] : t \in seen} \subseteq Order
      BY <3>2, TradeTypes
    <3> QED BY <3>1, <3>3 DEF TypeOK
  <2>3. TypeOK'
    BY <2>1, <2>2 DEF TypeOK, exchange, channel, tables, pumpVars, Starting
  <2>4. SourceInv'
    BY <2>1 DEF SourceInv, Known, exchange, channel, tables, pumpVars
  <2> QED BY <2>3, <2>4
<1>3. CASE ReadDone
  <2>1. /\ unstaged' = recovered /\ pc' = "stage"
        /\ UNCHANGED <<exchange, channel, tables, pumpVars, recoveryTo, toRead, recovered, faults>>
    BY <1>3 DEF ReadDone
  <2>2. TypeOK'
    BY <2>1 DEF TypeOK, exchange, channel, tables, pumpVars, Starting
  <2>3. SourceInv'
    BY <2>1 DEF SourceInv, Known, exchange, channel, tables, pumpVars
  <2> QED BY <2>2, <2>3
<1>4. CASE TakeNotification
  <2>1. /\ notified' \in BOOLEAN /\ pc' = "drainLoop"
        /\ UNCHANGED <<exchange, channel, tables, pump, hand, lastReceived, scan, faults>>
    BY <1>4 DEF TakeNotification
  <2>2. TypeOK'
    BY <2>1 DEF TypeOK, exchange, channel, tables, scan, Trading
  <2>3. SourceInv'
    BY <2>1 DEF SourceInv, Known, exchange, channel, tables, scan
  <2> QED BY <2>2, <2>3
<1>5. CASE AdvanceCheckpoint
  <2>1. /\ checkpoint' \in Int \cup {None} /\ pc' \in {"stopped", "ready"}
        /\ UNCHANGED <<exchange, channel, intent, filled, inbox, receivedAt, position, pumpVars,
                       scan, faults>>
    BY <1>5 DEF AdvanceCheckpoint, Stop, TypeOK
  <2>2. TypeOK'
    BY <2>1 DEF TypeOK, exchange, channel, pumpVars, scan, Starting
  <2>3. SourceInv'
    BY <2>1 DEF SourceInv, Known, exchange, channel, pumpVars, scan
  <2> QED BY <2>2, <2>3
<1>6. CASE Exit \/ Crash
  <2>1. Die /\ (faults' = faults \/ faults' = faults + 1)
    BY <1>6 DEF Exit, Crash
  <2>2. /\ connected' \in BOOLEAN /\ notified' \in BOOLEAN
        /\ stream' \in Seq(Trade) /\ Len(stream') = 0
    <3>1. connected' \in BOOLEAN /\ notified' \in BOOLEAN
      BY <2>1 DEF Die
    <3>2. stream' \in Seq(Trade) /\ Len(stream') = 0
      BY <2>1 DEF Die
    <3> QED BY <3>1, <3>2
  <2>3. /\ pump' = "off" /\ hand' = None /\ lastReceived' = 0 /\ pc' = "down"
        /\ recoveryTo' = 0 /\ toRead' = {} /\ recovered' = {} /\ unstaged' = {}
        /\ UNCHANGED <<exchange, tables>>
    BY <2>1 DEF Die
  <2>4. TypeOK'
    BY <2>1, <2>2, <2>3 DEF TypeOK, exchange, tables
  <2>5. SourceInv'
    BY <2>2, <2>3 DEF SourceInv, Known, exchange, tables
  <2> QED BY <2>4, <2>5
<1> QED BY <1>1, <1>2, <1>3, <1>4, <1>5, <1>6

\* Staging from the history and applying a row do.
LEMMA StagingTypes ==
    ASSUME TypeOK, SourceInv, NEW t \in Trade, StageHistory(t) \/ ApplyExecution(t)
    PROVE  TypeOK' /\ SourceInv'
<1>1. CASE StageHistory(t)
  <2>1. /\ t \in unstaged /\ t \in recovered
        /\ inbox' = IF inbox[t] = "absent" THEN [inbox EXCEPT ![t] = "pending"] ELSE inbox
        /\ unstaged' = unstaged \ {t}
        /\ UNCHANGED <<exchange, channel, intent, filled, position, checkpoint, pumpVars, pc,
                       recoveryTo, toRead, recovered, faults>>
    BY <1>1 DEF StageHistory, StageExecution, SourceInv
  <2>2. receivedAt' \in [Trade -> Int]
    <3> DEFINE at == Micros * recoveryTo + Cardinality(recovered \ unstaged)
    <3>1. Cardinality(recovered \ unstaged) \in Nat
      BY TradeTypes, FS_CardinalityType DEF TypeOK
    <3>2. at \in Int
      BY <3>1, TimeAssumption DEF TypeOK
    <3>3. receivedAt' = IF inbox[t] = "absent" THEN [receivedAt EXCEPT ![t] = at]
                        ELSE receivedAt
      BY <1>1 DEF StageHistory, StageExecution
    <3> HIDE DEF at
    <3> QED BY <3>2, <3>3 DEF TypeOK
  <2>3. TypeOK'
    BY <2>1, <2>2 DEF TypeOK, exchange, channel, pumpVars
  <2>4. SourceInv'
    BY <2>1 DEF TypeOK, SourceInv, Known, exchange, channel, pumpVars
  <2> QED BY <2>3, <2>4
<1>2. CASE ApplyExecution(t)
  <2>1. /\ t \in Pending
        /\ inbox' = [inbox EXCEPT ![t] = "applied"]
        /\ filled' = [filled EXCEPT ![OrderOf[t]] = FilledWith(t)]
        /\ position' = [position EXCEPT ![BookOf[t]] = @ + Signed[t]]
        /\ UNCHANGED <<exchange, channel, intent, receivedAt, checkpoint, pumpVars, pc, scan,
                       faults>>
    BY <1>2 DEF ApplyExecution, Oldest
  <2>2. FilledWith(t) \in Nat
    <3> DEFINE total == Total(FillsOf(OrderOf[t]) \cap (Applied \cup {t}))
    <3>1. total \in Nat /\ filled[OrderOf[t]] \in Nat
      BY TotalTypes, TradeTypes DEF TypeOK
    <3> HIDE DEF total
    <3>2. Max({filled[OrderOf[t]], total}) \in Nat
      BY <3>1 DEF Max
    <3> QED BY <3>2 DEF FilledWith, total
  <2>3. position' \in [Book -> Int]
    BY <2>1, TradeTypes DEF TypeOK
  <2>4. TypeOK'
    BY <2>1, <2>2, <2>3 DEF TypeOK, exchange, channel, pumpVars, scan
  <2>5. SourceInv'
    BY <2>1 DEF TypeOK, SourceInv, Known, Pending, exchange, channel, pumpVars, scan
  <2> QED BY <2>4, <2>5
<1> QED BY <1>1, <1>2

\* Steps about one order do.
LEMMA OrderTypes ==
    ASSUME TypeOK, SourceInv, NEW o \in Order,
           ReadOrder(o) \/ ResolveIntent(o) \/ BeginSubmission(o) \/ Placed(o) \/ NewIntent(o)
    PROVE  TypeOK' /\ SourceInv'
<1>1. CASE ReadOrder(o)
  <2>1. /\ recovered' \in {recovered, recovered \cup (FillsOf(o) \cap Executed)}
        /\ toRead' \subseteq toRead /\ pc' \in {"stopped", "read"}
        /\ UNCHANGED <<exchange, channel, tables, pumpVars, recoveryTo, unstaged, faults>>
    BY <1>1 DEF ReadOrder, Stop
  <2>2. TypeOK'
    BY <2>1 DEF TypeOK, FillsOf, exchange, channel, tables, pumpVars, Starting
  <2>3. SourceInv'
    BY <2>1 DEF SourceInv, Known, Executed, exchange, channel, tables, pumpVars
  <2> QED BY <2>2, <2>3
<1>2. CASE ResolveIntent(o) \/ Placed(o)
  <2>1. /\ UNCHANGED <<inbox, receivedAt, position, checkpoint>>
        /\ \/ UNCHANGED <<intent, filled>>
           \/ /\ intent' = [intent EXCEPT ![o] = "submitted"]
              /\ filled' = [filled EXCEPT ![o] = Lots(o)]
        /\ UNCHANGED <<exchange, channel, pumpVars, scan, faults>>
    BY <1>2 DEF ResolveIntent, Placed, RecordSubmitted, tables
  <2>2. pc' \in {"stopped", "resolve", "ready", "running"}
    BY <1>2 DEF ResolveIntent, Placed, Stop
  <2>3. filled' \in [Order -> Nat]
    <3>1. Lots(o) \in Nat
      BY LotsTypes
    <3> QED BY <2>1, <3>1 DEF TypeOK
  <2>4. intent' \in [Order -> {"none", "ready", "submitting", "submitted"}]
    BY <2>1 DEF TypeOK
  <2>5. TypeOK'
    BY <2>1, <2>2, <2>3, <2>4 DEF TypeOK, exchange, channel, pumpVars, scan, Starting, Trading
  <2>6. SourceInv'
    BY <2>1 DEF TypeOK, SourceInv, Known, exchange, channel, pumpVars, scan
  <2> QED BY <2>5, <2>6
<1>3. CASE BeginSubmission(o) \/ NewIntent(o)
  <2>1. /\ intent[o] \in {"none", "ready"}
        /\ \E i \in {"ready", "submitting"} : intent' = [intent EXCEPT ![o] = i]
        /\ UNCHANGED <<exchange, channel, filled, inbox, receivedAt, position, checkpoint,
                       pumpVars, scan, faults>>
    BY <1>3 DEF BeginSubmission, NewIntent
  <2>2. pc' \in {"readyCall", "call", "begin"}
    BY <1>3 DEF BeginSubmission, NewIntent
  <2>3. TypeOK'
    BY <2>1, <2>2 DEF TypeOK, exchange, channel, pumpVars, scan, Starting, Trading
  <2>4. SourceInv'
    BY <2>1 DEF TypeOK, SourceInv, Known, exchange, channel, pumpVars, scan
  <2> QED BY <2>3, <2>4
<1> QED BY <1>1, <1>2, <1>3

\* Every step is one of those above.
LEMMA Steps ==
    ASSUME Next
    PROVE  \/ Exchange \/ Pump \/ Moves
           \/ Subscribe \/ OpenWindow \/ ReadDone \/ TakeNotification
           \/ AdvanceCheckpoint \/ Exit \/ Crash
           \/ \E t \in Trade : StageHistory(t) \/ ApplyExecution(t)
           \/ \E o \in Order : ReadOrder(o) \/ ResolveIntent(o) \/ BeginSubmission(o)
                                \/ Placed(o) \/ NewIntent(o)
BY DEF Next, Main, History, Drain, Reconcile, Moves

\* Types and sources are inductive together.
LEMMA TypesStep == TypeOK /\ SourceInv /\ [Next]_vars => TypeOK' /\ SourceInv'
<1> SUFFICES ASSUME TypeOK, SourceInv, [Next]_vars PROVE TypeOK' /\ SourceInv'
  OBVIOUS
<1>1. CASE UNCHANGED vars
  BY <1>1 DEF TypeOK, SourceInv, Known, vars, exchange, channel, tables, pumpVars, scan
<1>2. CASE Next
  BY <1>2, Steps, ExchangeTypes, PumpTypes, MovesTypes, StartTypes, StagingTypes, OrderTypes
<1> QED BY <1>1, <1>2

\* Type correctness, for all values of the constants.
THEOREM TypeCorrect == Spec => []TypeOK
BY TypesInitially, TypesStep, PTL DEF Spec
-----------------------------------------------------------------------------
\* Only an execution and the drain change what the ledger shows.
LEMMA LedgerQuiet ==
    ASSUME TypeOK, SourceInv,
           \/ Pump \/ Moves \/ Tick \/ LoseConnection
           \/ Subscribe \/ OpenWindow \/ ReadDone \/ TakeNotification
           \/ AdvanceCheckpoint \/ Exit \/ Crash
           \/ \E t \in Trade : StageHistory(t) \/ List(t)
           \/ \E o \in Order : \/ Accept(o) \/ ReadOrder(o) \/ ResolveIntent(o)
                               \/ BeginSubmission(o) \/ Placed(o) \/ NewIntent(o)
    PROVE  UNCHANGED <<executedAt, position>> /\ Applied' = Applied
<1>1. CASE PumpStage
  BY <1>1, TradeAssumption DEF PumpStage, StageExecution, exchange, Applied, SourceInv, TypeOK
<1>2. CASE \E t \in Trade : StageHistory(t)
  BY <1>2 DEF StageHistory, StageExecution, exchange, Applied, TypeOK
<1>3. CASE PumpReceive \/ PumpNotify \/ PumpSeesEnd \/ PumpFails \/ Tick \/ LoseConnection
  BY <1>3 DEF PumpReceive, PumpNotify, PumpSeesEnd, PumpFails, Tick, LoseConnection,
              exchange, tables, Applied
<1>4. CASE Moves
  BY <1>4, MovesLeave DEF exchange, tables, Applied
<1>5. CASE \/ Subscribe \/ OpenWindow \/ ReadDone \/ TakeNotification
           \/ AdvanceCheckpoint \/ Exit \/ Crash
  BY <1>5 DEF Subscribe, OpenWindow, ReadDone, TakeNotification, AdvanceCheckpoint, Exit, Crash,
              Die, exchange, tables, Applied
<1>6. CASE \E t \in Trade : List(t)
  BY <1>6 DEF List, tables, Applied
<1>7. CASE \E o \in Order : Accept(o) \/ ReadOrder(o) \/ BeginSubmission(o) \/ NewIntent(o)
  BY <1>7 DEF Accept, ReadOrder, BeginSubmission, NewIntent, exchange, tables, Applied
<1>8. CASE \E o \in Order : ResolveIntent(o) \/ Placed(o)
  BY <1>8 DEF ResolveIntent, Placed, RecordSubmitted, exchange, tables, Applied
<1> QED BY <1>1, <1>2, <1>3, <1>4, <1>5, <1>6, <1>7, <1>8 DEF Pump

\* An execution on the exchange, as the ledger and its sums see it.
LEMMA ExecuteEffect ==
    ASSUME TypeOK, SourceInv, NEW t \in Trade, Execute(t)
    PROVE  /\ t \notin Executed /\ Executed' = Executed \cup {t} /\ Known(t)'
           /\ inbox[t] = "absent"
           /\ now' = now + 1 /\ executedAt' = [executedAt EXCEPT ![t] = now + 1]
           /\ UNCHANGED <<accepted, listed, connected, tables, pumpVars, pc, scan, faults>>
<1>1. /\ executedAt[t] = 0 /\ now' = now + 1 /\ executedAt' = [executedAt EXCEPT ![t] = now + 1]
      /\ UNCHANGED <<accepted, listed, connected, tables, pumpVars, pc, scan, faults>>
  BY DEF Execute
<1>2. t \notin Executed /\ Executed' = Executed \cup {t} /\ Known(t)'
  BY <1>1 DEF TypeOK, Executed, Known
<1>3. inbox[t] = "absent"
  BY <1>1 DEF SourceInv, Known
<1> QED BY <1>1, <1>2, <1>3

\* The drain of one row, as the ledger and its sums see it.
LEMMA ApplyEffect ==
    ASSUME TypeOK, SourceInv, NEW t \in Trade, ApplyExecution(t)
    PROVE  /\ t \in Executed /\ t \notin Applied /\ t \in Pending
           /\ Applied' = Applied \cup {t} /\ Pending' = Pending \ {t} /\ Missing' = Missing
           /\ UNCHANGED <<exchange, channel, intent, receivedAt, checkpoint, pumpVars, pc,
                          scan, faults>>
<1>1. /\ inbox[t] = "pending" /\ inbox' = [inbox EXCEPT ![t] = "applied"]
      /\ UNCHANGED <<exchange, channel, intent, receivedAt, checkpoint, pumpVars, pc,
                     scan, faults>>
  BY DEF ApplyExecution, Oldest, Pending
<1>2. t \in Executed
  BY <1>1 DEF SourceInv, Known, Executed
<1>3. Applied' = Applied \cup {t} /\ Pending' = Pending \ {t} /\ t \notin Applied /\ t \in Pending
  BY <1>1 DEF TypeOK, Applied, Pending
<1>4. Missing' = Missing
  BY <1>1 DEF TypeOK, Missing, Executed, exchange
<1> QED BY <1>1, <1>2, <1>3, <1>4

\* Every step is a step of the ledger, or invisible there.
LEMMA LedgerStep == TypeOK /\ SourceInv /\ [Next]_vars => [Ledger!Next]_(Ledger!ledger)
<1> SUFFICES ASSUME TypeOK, SourceInv, [Next]_vars PROVE [Ledger!Next]_(Ledger!ledger)
  OBVIOUS
<1> USE DEF Ledger!Next, Ledger!ledger
<1>1. CASE UNCHANGED vars
  BY <1>1 DEF vars, exchange, tables, Executed, Applied
<1>2. ASSUME NEW t \in Trade, Execute(t) PROVE Ledger!Execute(t)
  <2>1. t \notin Executed /\ Executed' = Executed \cup {t} /\ UNCHANGED tables
    BY <1>2, ExecuteEffect
  <2> QED BY <2>1 DEF Ledger!Execute, tables, Applied
<1>3. ASSUME NEW t \in Trade, ApplyExecution(t) PROVE Ledger!Apply(t)
  <2>1. t \in Executed \ Applied /\ Applied' = Applied \cup {t} /\ UNCHANGED exchange
    BY <1>3, ApplyEffect
  <2>2. /\ position[BookOf[t]] + Signed[t] >= 0
        /\ position' = [position EXCEPT ![BookOf[t]] = @ + Signed[t]]
    BY <1>3 DEF ApplyExecution, Applicable
  <2> QED BY <2>1, <2>2 DEF Ledger!Apply, exchange, Executed
<1>4. CASE /\ Next
           /\ ~ \E t \in Trade : Execute(t) \/ ApplyExecution(t)
  <2>1. UNCHANGED <<executedAt, position>> /\ Applied' = Applied
    BY <1>4, Steps, LedgerQuiet DEF Exchange
  <2> QED BY <2>1 DEF Executed
<1> QED BY <1>1, <1>2, <1>3, <1>4

\* Whatever is lost, repeated or delivered late, and however often the agent
\* restarts, the positions are the sum of executed trades, each counted once.
THEOREM LedgerKept == Spec => KeepsTheLedger
<1>1. Init => Ledger!Init
  BY DEF Init, Ledger!Init, Executed, Applied
<1>2. Spec => [](TypeOK /\ SourceInv)
  BY TypesInitially, TypesStep, PTL DEF Spec
<1> QED BY <1>1, <1>2, LedgerStep, PTL DEF Spec, KeepsTheLedger, Ledger!Spec
-----------------------------------------------------------------------------
\* Where a step that only moves on leads, and what it found.
Goes(here, there) == pc = here /\ pc' = there

\* Every such step, with the guard that matters to the invariants.
LEMMA MovesGo ==
    ASSUME Moves
    PROVE  \/ pc' = "stopped"
           \/ Goes("down", "resolve")
           \/ Goes("resolve", "subscribe") /\ \A o \in Order : intent[o] # "submitting"
           \/ Goes("stage", "drainHistory") /\ unstaged = {}
           \/ Goes("drainHistory", "commissions") /\ Pending = {}
           \/ Goes("commissions", "drainStart")
           \/ Goes("drainStart", "positions1") /\ Pending = {}
           \/ Goes("drainLoop", "running") /\ Pending = {}
           \/ Goes("positions1", "orders1") /\ \A b \in Book : position[b] = Net(b, Executed)
           \/ Goes("positions2", "orders2")
           \/ /\ Goes("orders1", "advance")
              /\ \A o \in Order : OpenHere(o) <=> OpenThere(o)
              /\ \A o \in Order : OpenHere(o) => filled[o] = Lots(o)
           \/ Goes("orders2", "running")
           \/ Goes("ready", "positions2")
<1> USE DEF Goes
<1>1. CASE Start
  BY <1>1 DEF Start
<1>2. CASE ResolveDone
  BY <1>2 DEF ResolveDone
<1>3. CASE StageDone
  BY <1>3 DEF StageDone
<1>4. CASE DrainDone \/ DrainAgain
  BY <1>4 DEF DrainDone, DrainAgain, Drains
<1>5. CASE ComparePositions
  BY <1>5 DEF ComparePositions, Stop
<1>6. CASE CompareOrders
  BY <1>6 DEF CompareOrders, Stop
<1>7. CASE ReadyDone
  BY <1>7 DEF ReadyDone
<1>8. CASE PumpErrorSeen \/ CallFails \/ \E t \in Trade : DrainFails(t)
  BY <1>8 DEF PumpErrorSeen, CallFails, DrainFails, Stop
<1> QED BY <1>1, <1>2, <1>3, <1>4, <1>5, <1>6, <1>7, <1>8 DEF Moves

\* Past the resolution of the intents no order is in flight.
Settled == (Starting \ {"resolve", "readyCall"}) \cup {"running", "drainLoop", "begin"}
\* Past the checkpoint of this start.
Scanned == {"ready", "readyCall", "positions2", "orders2"} \cup Trading

\* At most one order is in flight, only where its caller waits for it, and none
\* was created before the first checkpoint.
IntentInv ==
    /\ pc \in Settled => \A o \in Order : intent[o] # "submitting"
    /\ pc \in {"readyCall", "call"} =>
          \A o, p \in Order : intent[o] = "submitting" /\ intent[p] = "submitting" => o = p
    /\ \A o \in Order : intent[o] # "none" => checkpoint # None
    /\ pc \in Scanned => checkpoint # None

\* No intent, so nothing to relate.
LEMMA IntentInitially == Init => IntentInv
BY DEF Init, IntentInv, Settled, Scanned, Starting, Trading

\* IntentInv is inductive: only the goroutine that waits submits.
LEMMA IntentStep == TypeOK /\ IntentInv /\ [Next]_vars => IntentInv'
<1> SUFFICES ASSUME TypeOK, IntentInv, [Next]_vars PROVE IntentInv'
  OBVIOUS
<1> USE DEF IntentInv
<1>1. CASE UNCHANGED vars \/ Exchange \/ Pump
  <2>1. UNCHANGED <<intent, checkpoint, pc>>
    BY <1>1 DEF vars, Exchange, Tick, LoseConnection, Accept, Execute, List, Pump, PumpReceive,
                PumpStage, PumpNotify, PumpSeesEnd, PumpFails, tables
  <2> QED BY <2>1
<1>2. CASE Moves
  <2>1. UNCHANGED <<intent, checkpoint>>
    BY <1>2, MovesLeave DEF tables
  <2>2. pc' \in Settled => \A o \in Order : intent[o] # "submitting"
    BY <1>2, MovesGo DEF Goes, Settled, Starting, Trading
  <2>3. pc' \notin {"readyCall", "call"}
    BY <1>2, MovesGo DEF Goes
  <2>4. pc' \in Scanned => pc \in Scanned
    BY <1>2, MovesGo DEF Goes, Scanned, Trading
  <2> QED BY <2>1, <2>2, <2>3, <2>4
<1>3. CASE \/ Subscribe \/ OpenWindow \/ ReadDone \/ TakeNotification \/ Exit \/ Crash
           \/ \E t \in Trade : StageHistory(t) \/ ApplyExecution(t)
           \/ \E o \in Order : ReadOrder(o)
  <2>1. UNCHANGED <<intent, checkpoint>>
    BY <1>3 DEF Subscribe, OpenWindow, ReadDone, TakeNotification, Exit, Crash, Die,
                StageHistory, ApplyExecution, ReadOrder, tables
  <2>2. \/ pc' = pc \/ pc' \in {"stopped", "down"}
        \/ Goes("subscribe", "window") \/ Goes("window", "read") \/ Goes("read", "stage")
        \/ Goes("running", "drainLoop")
    BY <1>3 DEF Goes, Subscribe, OpenWindow, ReadDone, TakeNotification, Exit, Crash, Die, Stop,
                StageHistory, ApplyExecution, ReadOrder
  <2>3. /\ pc' \in Settled => pc \in Settled
        /\ pc' \in {"readyCall", "call"} => pc \in {"readyCall", "call"}
        /\ pc' \in Scanned => pc \in Scanned
    BY <2>2 DEF Goes, Settled, Scanned, Starting, Trading
  <2> QED BY <2>1, <2>3
<1>4. CASE AdvanceCheckpoint
  <2>1. /\ pc = "advance" /\ intent' = intent /\ checkpoint' \in {checkpoint, recoveryTo}
        /\ recoveryTo # None
        /\ pc' = "stopped" \/ (pc' = "ready" /\ checkpoint' = recoveryTo)
    BY <1>4, TradeAssumption DEF AdvanceCheckpoint, Stop, TypeOK
  <2> QED BY <2>1 DEF Settled, Scanned, Starting, Trading
<1>5. ASSUME NEW o \in Order, ResolveIntent(o) \/ Placed(o) PROVE IntentInv'
  <2>1. /\ checkpoint' = checkpoint
        /\ UNCHANGED intent \/ intent' = [intent EXCEPT ![o] = "submitted"]
        /\ intent[o] = "submitting"
    BY <1>5 DEF ResolveIntent, Placed, RecordSubmitted, tables
  <2>2. \/ pc = "resolve" /\ pc' \in {"resolve", "stopped"}
        \/ /\ Goes("readyCall", "ready") \/ Goes("call", "running")
           /\ intent' = [intent EXCEPT ![o] = "submitted"]
    BY <1>5 DEF Goes, ResolveIntent, Placed, RecordSubmitted, Stop
  <2>3. CASE pc = "resolve"
    BY <2>1, <2>2, <2>3 DEF Goes, TypeOK, Settled, Scanned, Starting, Trading
  <2>4. CASE pc \in {"readyCall", "call"}
    <3>1. \A p \in Order : intent'[p] # "submitting"
      BY <2>1, <2>2, <2>4 DEF Goes, TypeOK
    <3>2. checkpoint' # None
      BY <2>1, <2>4 DEF Scanned, Trading
    <3> QED BY <3>1, <3>2
  <2> QED BY <2>2, <2>3, <2>4 DEF Goes
<1>6. ASSUME NEW o \in Order, BeginSubmission(o) \/ NewIntent(o) PROVE IntentInv'
  <2>1. /\ checkpoint' = checkpoint
        /\ pc \in {"ready", "begin", "running"}
        /\ \/ /\ pc' = "begin" /\ intent' = [intent EXCEPT ![o] = "ready"]
           \/ /\ pc' \in {"readyCall", "call"} /\ intent' = [intent EXCEPT ![o] = "submitting"]
    BY <1>6 DEF BeginSubmission, NewIntent
  <2>2. checkpoint # None /\ \A p \in Order : intent[p] # "submitting"
    BY <2>1 DEF Settled, Scanned, Starting, Trading
  <2> QED BY <2>1, <2>2 DEF TypeOK, Settled, Scanned, Starting, Trading
<1> QED BY <1>1, <1>2, <1>3, <1>4, <1>5, <1>6, Steps
-----------------------------------------------------------------------------
\* From the window of this start to its checkpoint.
Scanning == {"read", "stage", "drainHistory", "commissions", "drainStart", "positions1",
             "orders1", "advance"}

\* Past the drain that ends the recovery of the history.
AfterHistory == {"commissions", "drainStart", "positions1", "orders1", "advance"}

\* This start is still going to stage trade t from the history.
ToStage(t) ==
    \/ pc = "read" /\ (OrderOf[t] \in toRead \/ t \in recovered)
    \/ pc = "stage" /\ t \in unstaged

\* Executions that the history does not show yet are recent; those out of reach
\* of the next window are staged already.
CoverInv ==
    /\ \A t \in Trade : Known(t) /\ t \notin listed => now <= executedAt[t] + Lag
    /\ checkpoint # None =>
          /\ checkpoint <= now
          /\ \A t \in Trade :
                Known(t) /\ executedAt[t] < checkpoint - Overlap => inbox[t] # "absent"

\* What the window of this start covers is staged, or still to be staged; what
\* it found is applied when the checkpoint is written.
WindowInv ==
    /\ pc \in Scanning =>
          /\ recoveryTo <= now - VisibilityDelay
          /\ \A t \in Trade : Known(t) /\ executedAt[t] < recoveryTo - Overlap =>
                inbox[t] # "absent" \/ ToStage(t)
    /\ pc = "stage" => \A t \in recovered \ unstaged : inbox[t] # "absent"
    /\ pc = "drainHistory" => \A t \in recovered : inbox[t] # "absent"
    /\ pc \in AfterHistory => recovered \subseteq Applied

\* No execution and no checkpoint, so nothing to cover.
LEMMA ScanInitially == Init => CoverInv /\ WindowInv
BY TradeAssumption DEF Init, CoverInv, WindowInv, Known, Scanning

\* The clock, executions and listings keep what windows and checkpoint cover.
LEMMA ScanExchange ==
    ASSUME TypeOK, SourceInv, CoverInv, WindowInv, Exchange
    PROVE  CoverInv' /\ WindowInv'
<1> USE TimeAssumption
<1>1. CASE Tick
  <2>1. /\ now' = now + 1 /\ \A t \in Executed \ listed : now < executedAt[t] + Lag
        /\ UNCHANGED <<executedAt, listed, tables, pc, scan>>
    BY <1>1 DEF Tick, ClockMayAdvance
  <2>2. CoverInv'
    BY <2>1 DEF TypeOK, CoverInv, Known, Executed, tables
  <2>3. WindowInv'
    BY <2>1 DEF TypeOK, WindowInv, ToStage, Known, Applied, tables, scan
  <2> QED BY <2>2, <2>3
<1>2. CASE LoseConnection \/ (\E o \in Order : Accept(o)) \/ (\E t \in Trade : List(t))
  <2>1. /\ UNCHANGED <<now, executedAt, tables, pc, scan>>
        /\ listed \subseteq listed'
    BY <1>2 DEF LoseConnection, Accept, List, exchange
  <2>2. CoverInv'
    BY <2>1 DEF CoverInv, Known, tables
  <2>3. WindowInv'
    BY <2>1 DEF WindowInv, ToStage, Known, Applied, tables, scan
  <2> QED BY <2>2, <2>3
<1>3. ASSUME NEW t \in Trade, Execute(t) PROVE CoverInv' /\ WindowInv'
  <2>1. /\ now' = now + 1 /\ executedAt' = [executedAt EXCEPT ![t] = now + 1]
        /\ UNCHANGED <<listed, tables, pc, scan>>
    BY <1>3, ExecuteEffect
  <2>2. \A u \in Executed \ listed : now < executedAt[u] + Lag
    BY <1>3 DEF Execute, ClockMayAdvance
  <2>3. \A u \in Trade : u # t => (Known(u)' <=> Known(u)) /\ executedAt'[u] = executedAt[u]
    BY <2>1 DEF TypeOK, Known
  <2>4. executedAt'[t] = now + 1 /\ now \in Nat
    BY <2>1 DEF TypeOK
  <2>5. CoverInv'
    <3>1. \A u \in Trade : Known(u)' /\ u \notin listed' => now' <= executedAt'[u] + Lag
      BY <2>1, <2>2, <2>3, <2>4 DEF TypeOK, Known, Executed
    <3>2. checkpoint' # None =>
             /\ checkpoint' <= now'
             /\ \A u \in Trade : Known(u)' /\ executedAt'[u] < checkpoint' - Overlap =>
                   inbox'[u] # "absent"
      BY <2>1, <2>3, <2>4 DEF TypeOK, CoverInv, tables
    <3> QED BY <3>1, <3>2 DEF CoverInv
  <2>6. WindowInv'
    <3>1. pc' \in Scanning =>
             /\ recoveryTo' <= now' - VisibilityDelay
             /\ \A u \in Trade : Known(u)' /\ executedAt'[u] < recoveryTo' - Overlap =>
                   inbox'[u] # "absent" \/ ToStage(u)'
      BY <2>1, <2>3, <2>4 DEF TypeOK, WindowInv, ToStage, tables, scan
    <3> QED BY <2>1, <3>1 DEF WindowInv, Applied, tables, scan
  <2> QED BY <2>5, <2>6
<1> QED BY <1>1, <1>2, <1>3 DEF Exchange

\* The pump only adds to what is staged.
LEMMA ScanPump ==
    ASSUME TypeOK, SourceInv, CoverInv, WindowInv, Pump
    PROVE  CoverInv' /\ WindowInv'
<1>1. /\ UNCHANGED <<exchange, checkpoint, pc, scan>>
      /\ \A t \in Trade : inbox[t] # "absent" => inbox'[t] # "absent"
      /\ Applied' = Applied
  <2>1. CASE PumpStage
    <3>1. UNCHANGED <<exchange, checkpoint, pc, scan>>
      BY <2>1 DEF PumpStage
    <3>2. \/ inbox' = inbox
          \/ hand \in Trade /\ inbox[hand] = "absent" /\ inbox' = [inbox EXCEPT ![hand] = "pending"]
      BY <2>1, TradeAssumption DEF PumpStage, StageExecution, SourceInv
    <3> QED BY <3>1, <3>2 DEF TypeOK, Applied
  <2>2. CASE PumpReceive \/ PumpNotify \/ PumpSeesEnd \/ PumpFails
    BY <2>2 DEF PumpReceive, PumpNotify, PumpSeesEnd, PumpFails, tables, Applied
  <2> QED BY <2>1, <2>2 DEF Pump
<1>2. CoverInv'
  BY <1>1 DEF CoverInv, Known, exchange
<1>3. WindowInv'
  <2>1. UNCHANGED <<now, executedAt, pc, recoveryTo, toRead, recovered, unstaged>>
    BY <1>1 DEF exchange, scan
  <2>2. \A t \in Trade : (ToStage(t)' <=> ToStage(t)) /\ (Known(t)' <=> Known(t))
    BY <2>1 DEF ToStage, Known
  <2>3. recovered \subseteq Trade
    BY DEF TypeOK
  <2> QED BY <1>1, <2>1, <2>2, <2>3 DEF WindowInv
<1> QED BY <1>2, <1>3

\* From one phase of the startup to the next, what was to be staged is.
LEMMA ScanMoves ==
    ASSUME TypeOK, SourceInv, CoverInv, WindowInv, Moves
    PROVE  CoverInv' /\ WindowInv'
<1>1. UNCHANGED <<now, executedAt, listed, inbox, checkpoint, recoveryTo, toRead, recovered,
                  unstaged>>
  BY MovesLeave DEF exchange, tables, scan
<1>2. CoverInv'
  BY <1>1 DEF CoverInv, Known
<1>3. WindowInv'
  <2>1. pc' \in Scanning =>
           /\ pc \in Scanning
           /\ \A t \in Trade : ToStage(t) => ToStage(t)' \/ inbox[t] # "absent"
    BY MovesGo, <1>1 DEF Goes, Scanning, ToStage, WindowInv, SourceInv
  <2>2. pc' # "stage"
    BY MovesGo DEF Goes
  <2>3. pc' = "drainHistory" => \A t \in recovered : inbox[t] # "absent"
    BY MovesGo DEF Goes, WindowInv
  <2>4. Applied' = Applied
    BY <1>1 DEF Applied
  <2>5. pc = "drainHistory" /\ Pending = {} => recovered \subseteq Applied
    BY DEF WindowInv, TypeOK, Pending, Applied
  <2>6. pc' \in AfterHistory => recovered \subseteq Applied
    BY MovesGo, <2>5 DEF Goes, WindowInv, AfterHistory
  <2>7. \A t \in Trade : Known(t)' <=> Known(t)
    BY <1>1 DEF Known
  <2>8. pc' \in Scanning =>
           /\ recoveryTo <= now - VisibilityDelay
           /\ \A t \in Trade : Known(t)' /\ executedAt[t] < recoveryTo - Overlap =>
                 inbox[t] # "absent" \/ ToStage(t)'
    BY <2>1, <2>7 DEF WindowInv
  <2> QED BY <1>1, <2>2, <2>3, <2>4, <2>6, <2>8 DEF WindowInv
<1> QED BY <1>2, <1>3

\* What makes the window of a start sufficient: an execution that the window
\* does not reach is staged, and one it reaches is listed by now, because delay
\* and overlap outlast the lag.
LEMMA WindowReaches ==
    ASSUME TypeOK, SourceInv, IntentInv, CoverInv, NEW t \in Trade, Known(t),
           executedAt[t] < (now - VisibilityDelay) - Overlap
    PROVE  \/ inbox[t] # "absent"
           \/ /\ t \in listed /\ executedAt[t] >= WindowFrom(now - VisibilityDelay)
              /\ executedAt[t] <= now - VisibilityDelay
<1>1. checkpoint # None
  <2>1. OrderOf[t] \in accepted /\ OrderOf[t] \in Order
    BY TradeTypes DEF SourceInv
  <2>2. intent[OrderOf[t]] # "none"
    BY <2>1 DEF SourceInv
  <2> QED BY <2>1, <2>2 DEF IntentInv
<1>2. WindowFrom(now - VisibilityDelay) = checkpoint - Overlap
  BY <1>1 DEF WindowFrom
<1>3. /\ now \in Nat /\ executedAt[t] \in Nat /\ checkpoint \in Int
      /\ Overlap \in Nat /\ VisibilityDelay \in Nat /\ Lag \in Nat
  BY <1>1, TimeAssumption DEF TypeOK
<1>4. executedAt[t] < checkpoint - Overlap => inbox[t] # "absent"
  BY <1>1 DEF CoverInv
<1>5. t \notin listed => now <= executedAt[t] + Lag
  BY DEF CoverInv
<1>6. t \in listed
  BY <1>3, <1>5, LagAssumption
<1> QED BY <1>2, <1>3, <1>4, <1>6

\* The window, its end, and the checkpoint written from it.
LEMMA ScanStart ==
    ASSUME TypeOK, SourceInv, IntentInv, CoverInv, WindowInv,
           \/ Subscribe \/ OpenWindow \/ ReadDone \/ TakeNotification
           \/ AdvanceCheckpoint \/ Exit \/ Crash
    PROVE  CoverInv' /\ WindowInv'
<1>1. CASE Subscribe \/ TakeNotification \/ Exit \/ Crash
  <2>1. UNCHANGED <<exchange, tables>> /\ pc' \in {"window", "drainLoop", "down"}
    BY <1>1 DEF Subscribe, TakeNotification, Exit, Crash, Die
  <2> QED BY <2>1 DEF CoverInv, WindowInv, AfterHistory, Known, Scanning, exchange, tables
<1>2. CASE OpenWindow
  <2> DEFINE to == now - VisibilityDelay
  <2>1. /\ recoveryTo' = to /\ pc' \in {"stopped", "read"}
        /\ UNCHANGED <<exchange, tables, recovered, unstaged>>
    BY <1>2 DEF OpenWindow, Stop
  <2>2. CoverInv'
    BY <2>1 DEF CoverInv, Known, exchange, tables
  <2>3. pc' = "read" =>
           toRead' = {OrderOf[u] : u \in {v \in listed : executedAt[v] >= WindowFrom(to)
                                                         /\ executedAt[v] <= to}}
    BY <1>2 DEF OpenWindow, Stop
  <2> HIDE DEF to
  <2>4. ASSUME NEW t \in Trade, Known(t), executedAt[t] < to - Overlap, pc' = "read"
        PROVE  inbox[t] # "absent" \/ OrderOf[t] \in toRead'
    BY <2>3, <2>4, WindowReaches DEF to
  <2>5. to <= now - VisibilityDelay
    BY TimeAssumption DEF to, TypeOK
  <2>6. UNCHANGED <<now, executedAt, inbox>> /\ \A t \in Trade : Known(t)' <=> Known(t)
    BY <2>1 DEF exchange, tables, Known
  <2>7. \A t \in Trade : pc' = "read" /\ Known(t)' /\ executedAt'[t] < recoveryTo' - Overlap =>
             inbox'[t] # "absent" \/ ToStage(t)'
    BY <2>1, <2>4, <2>6 DEF ToStage
  <2>8. WindowInv'
    BY <2>1, <2>5, <2>6, <2>7 DEF WindowInv, AfterHistory, Scanning
  <2> QED BY <2>2, <2>8
<1>3. CASE ReadDone
  <2>1. /\ pc = "read" /\ toRead = {} /\ unstaged' = recovered /\ pc' = "stage"
        /\ UNCHANGED <<exchange, tables, recoveryTo, toRead, recovered>>
    BY <1>3 DEF ReadDone
  <2>2. CoverInv'
    BY <2>1 DEF CoverInv, Known, exchange, tables
  <2>3. WindowInv'
    BY <2>1 DEF WindowInv, AfterHistory, ToStage, Known, Scanning, exchange, tables
  <2> QED BY <2>2, <2>3
<1>4. CASE AdvanceCheckpoint
  <2>1. /\ pc = "advance" /\ pc' \in {"stopped", "ready"}
        /\ checkpoint' = checkpoint \/ checkpoint' = recoveryTo
        /\ UNCHANGED <<exchange, inbox>>
    BY <1>4 DEF AdvanceCheckpoint, Stop
  <2>2. /\ recoveryTo <= now - VisibilityDelay
        /\ \A t \in Trade : Known(t) /\ executedAt[t] < recoveryTo - Overlap => inbox[t] # "absent"
    BY <2>1 DEF WindowInv, Scanning, ToStage
  <2>3. recoveryTo <= now
    BY <2>2, TimeAssumption DEF TypeOK
  <2>4. CoverInv'
    BY <2>1, <2>2, <2>3 DEF CoverInv, Known, exchange
  <2>5. WindowInv'
    BY <2>1 DEF WindowInv, AfterHistory, Scanning
  <2> QED BY <2>4, <2>5
<1> QED BY <1>1, <1>2, <1>3, <1>4

\* A trade leaves the list of those to stage when its row is there.
LEMMA ScanStaging ==
    ASSUME TypeOK, SourceInv, CoverInv, WindowInv,
           NEW t \in Trade, StageHistory(t) \/ ApplyExecution(t)
    PROVE  CoverInv' /\ WindowInv'
<1>1. /\ UNCHANGED <<exchange, checkpoint, pc, recoveryTo, toRead, recovered>>
      /\ \A u \in Trade : inbox[u] # "absent" => inbox'[u] # "absent"
      /\ Applied \subseteq Applied'
  <2>1. CASE StageHistory(t)
    <3>1. /\ UNCHANGED <<exchange, checkpoint, pc, recoveryTo, toRead, recovered>>
          /\ inbox' = inbox \/ (inbox[t] = "absent" /\ inbox' = [inbox EXCEPT ![t] = "pending"])
      BY <2>1 DEF StageHistory, StageExecution
    <3> QED BY <3>1 DEF TypeOK, Applied
  <2>2. CASE ApplyExecution(t)
    <3>1. /\ UNCHANGED <<exchange, checkpoint, pc, scan>>
          /\ inbox' = [inbox EXCEPT ![t] = "applied"]
      BY <2>2 DEF ApplyExecution
    <3> QED BY <3>1 DEF TypeOK, Applied, scan
  <2> QED BY <2>1, <2>2
<1>2. CoverInv'
  BY <1>1 DEF CoverInv, Known, exchange
<1>3. \/ unstaged' = unstaged
      \/ pc = "stage" /\ unstaged' = unstaged \ {t} /\ inbox'[t] # "absent"
  <2>1. CASE StageHistory(t)
    BY <2>1 DEF StageHistory, StageExecution, TypeOK
  <2>2. CASE ApplyExecution(t)
    BY <2>2 DEF ApplyExecution, scan
  <2> QED BY <2>1, <2>2
<1>4. WindowInv'
  <2>1. /\ UNCHANGED <<now, executedAt, pc, recoveryTo, recovered>>
        /\ \A u \in Trade : Known(u)' <=> Known(u)
    BY <1>1 DEF exchange, Known
  <2>2. \A u \in Trade : ToStage(u) => ToStage(u)' \/ inbox'[u] # "absent"
    BY <1>1, <1>3 DEF ToStage
  <2>3. pc' \in Scanning =>
           /\ recoveryTo' <= now' - VisibilityDelay
           /\ \A u \in Trade : Known(u)' /\ executedAt'[u] < recoveryTo' - Overlap =>
                 inbox'[u] # "absent" \/ ToStage(u)'
    BY <1>1, <2>1, <2>2 DEF WindowInv
  <2>4. recovered \subseteq Trade
    BY DEF TypeOK
  <2>5. pc' = "stage" => \A u \in recovered' \ unstaged' : inbox'[u] # "absent"
    BY <1>1, <1>3, <2>1, <2>4 DEF WindowInv
  <2>6. pc' = "drainHistory" => \A u \in recovered' : inbox'[u] # "absent"
    BY <1>1, <2>1, <2>4 DEF WindowInv
  <2>7. pc' \in AfterHistory => recovered' \subseteq Applied'
    BY <1>1, <2>1 DEF WindowInv
  <2> QED BY <2>3, <2>5, <2>6, <2>7 DEF WindowInv
<1> QED BY <1>2, <1>4

\* An order leaves the list of those to read when its fills are recovered.
LEMMA ScanOrder ==
    ASSUME TypeOK, SourceInv, CoverInv, WindowInv, NEW o \in Order,
           ReadOrder(o) \/ ResolveIntent(o) \/ BeginSubmission(o) \/ Placed(o) \/ NewIntent(o)
    PROVE  CoverInv' /\ WindowInv'
<1>1. CASE ReadOrder(o)
  <2>1. /\ pc = "read" /\ pc' \in {"read", "stopped"}
        /\ UNCHANGED <<exchange, tables, recoveryTo, unstaged>>
        /\ pc' = "read" => /\ recovered' = recovered \cup (FillsOf(o) \cap Executed)
                           /\ toRead' = toRead \ {o}
    BY <1>1 DEF ReadOrder, Stop
  <2>2. CoverInv'
    BY <2>1 DEF CoverInv, Known, exchange, tables
  <2>3. UNCHANGED <<now, executedAt, inbox, recoveryTo>> /\ \A t \in Trade : Known(t)' <=> Known(t)
    BY <2>1 DEF exchange, tables, Known
  <2>4. \A t \in Trade : pc' = "read" /\ Known(t) /\ ToStage(t) => ToStage(t)'
    BY <2>1 DEF ToStage, Known, Executed, FillsOf
  <2>5. WindowInv'
    BY <2>1, <2>3, <2>4 DEF WindowInv, AfterHistory, Scanning
  <2> QED BY <2>2, <2>5
<1>2. CASE ResolveIntent(o) \/ BeginSubmission(o) \/ Placed(o) \/ NewIntent(o)
  <2>1. /\ UNCHANGED <<exchange, inbox, checkpoint>>
        /\ pc' \in {"resolve", "stopped", "readyCall", "call", "ready", "running", "begin"}
    BY <1>2 DEF ResolveIntent, BeginSubmission, Placed, NewIntent, RecordSubmitted, Stop, tables
  <2> QED BY <2>1 DEF CoverInv, WindowInv, AfterHistory, Known, Scanning, exchange
<1> QED BY <1>1, <1>2

\* What windows and checkpoint cover is inductive.
LEMMA ScanStep ==
    TypeOK /\ SourceInv /\ IntentInv /\ CoverInv /\ WindowInv /\ [Next]_vars
        => CoverInv' /\ WindowInv'
<1> SUFFICES ASSUME TypeOK, SourceInv, IntentInv, CoverInv, WindowInv, [Next]_vars
             PROVE  CoverInv' /\ WindowInv'
  OBVIOUS
<1>1. CASE UNCHANGED vars
  <2>1. UNCHANGED <<now, executedAt, listed, inbox, checkpoint, pc, recoveryTo, toRead,
                    recovered, unstaged>>
    BY <1>1 DEF vars, exchange, tables, scan
  <2> QED BY <2>1 DEF CoverInv, WindowInv, Known, ToStage, Applied
<1>2. CASE Next
  BY <1>2, Steps, ScanExchange, ScanPump, ScanMoves, ScanStart, ScanStaging, ScanOrder
<1> QED BY <1>1, <1>2
-----------------------------------------------------------------------------
\* After the drains of the startup, outside a drain.
Watching == {"positions1", "orders1", "advance", "ready", "readyCall", "positions2", "orders2",
             "running", "begin", "call"}

\* A row staged since the last drain is announced, or about to be.
AnnounceInv == pc \in Watching /\ Pending # {} => notified \/ pump = "staged"

\* AnnounceInv is inductive: every path from a staged row passes the channel.
LEMMA AnnounceStep == TypeOK /\ AnnounceInv /\ [Next]_vars => AnnounceInv'
<1> SUFFICES ASSUME TypeOK, AnnounceInv, [Next]_vars PROVE AnnounceInv'
  OBVIOUS
<1> USE DEF AnnounceInv
<1>1. CASE UNCHANGED vars \/ Exchange
  <2>1. UNCHANGED <<inbox, notified, pump, pc>>
    BY <1>1 DEF vars, Exchange, Tick, LoseConnection, Accept, Execute, List, tables, pumpVars
  <2> QED BY <2>1 DEF Pending
<1>2. CASE Pump
  <2>1. CASE PumpStage \/ PumpNotify
    BY <2>1 DEF PumpStage, PumpNotify
  <2>2. CASE PumpReceive \/ PumpSeesEnd \/ PumpFails
    BY <2>2 DEF PumpReceive, PumpSeesEnd, PumpFails, tables, Pending
  <2> QED BY <1>2, <2>1, <2>2 DEF Pump
<1>3. CASE Moves
  <2>1. UNCHANGED <<inbox, notified, pump>>
    BY <1>3, MovesLeave DEF tables, pumpVars
  <2>2. pc' \in Watching => pc \in Watching \/ Pending = {}
    BY <1>3, MovesGo DEF Goes, Watching
  <2> QED BY <2>1, <2>2 DEF Pending
<1>4. CASE \/ Subscribe \/ OpenWindow \/ ReadDone \/ TakeNotification \/ Exit \/ Crash
           \/ \E o \in Order : ReadOrder(o)
  <2>1. pc' \notin Watching
    BY <1>4 DEF Subscribe, OpenWindow, ReadDone, TakeNotification, Exit, Crash, Die, Stop,
                ReadOrder, Watching
  <2> QED BY <2>1
<1>5. CASE \E t \in Trade : StageHistory(t) \/ ApplyExecution(t)
  BY <1>5 DEF StageHistory, ApplyExecution, Drains, Watching
<1>6. CASE \/ AdvanceCheckpoint
           \/ \E o \in Order : \/ ResolveIntent(o) \/ BeginSubmission(o) \/ Placed(o)
                               \/ NewIntent(o)
  <2>1. /\ UNCHANGED <<inbox, notified, pump>>
        /\ pc' \in Watching => pc \in Watching
    BY <1>6 DEF AdvanceCheckpoint, ResolveIntent, BeginSubmission, Placed, NewIntent,
                RecordSubmitted, Stop, tables, pumpVars, Watching
  <2> QED BY <2>1 DEF Pending
<1> QED BY <1>1, <1>2, <1>3, <1>4, <1>5, <1>6, Steps
-----------------------------------------------------------------------------
\* The inductive invariant of the ingress.
IngressInv == TypeOK /\ SourceInv /\ IntentInv /\ CoverInv /\ WindowInv /\ AnnounceInv

\* It is an invariant.
LEMMA IngressHolds == Spec => []IngressInv
<1>1. Init => IngressInv
  <2>1. Init => AnnounceInv
    BY DEF Init, AnnounceInv, Watching
  <2> QED BY <2>1, TypesInitially, IntentInitially, ScanInitially DEF IngressInv
<1>2. IngressInv /\ [Next]_vars => IngressInv'
  BY TypesStep, IntentStep, ScanStep, AnnounceStep DEF IngressInv
<1> QED BY <1>1, <1>2, PTL DEF Spec

\* It says that no execution is forgotten.
LEMMA IngressShows == IngressInv => NoExecutionIsForgotten
<1> SUFFICES ASSUME IngressInv PROVE NoExecutionIsForgotten
  OBVIOUS
<1> USE DEF IngressInv
<1>1. ScansOverlap
  <2>1. accepted # {} => checkpoint # None
    BY DEF TypeOK, SourceInv, IntentInv
  <2> QED BY <2>1 DEF ScansOverlap, CoverInv, Executed, Known
<1>2. DrainFindsTheOrder
  <2> SUFFICES ASSUME pc \in Drains, NEW t \in Pending PROVE RowStored(OrderOf[t])
    BY DEF DrainFindsTheOrder
  <2>1. t \in Trade /\ inbox[t] # "absent" /\ OrderOf[t] \in Order
    BY TradeTypes DEF Pending
  <2>2. intent[OrderOf[t]] \in {"submitting", "submitted"}
    BY <2>1 DEF SourceInv
  <2>3. intent[OrderOf[t]] # "submitting"
    BY <2>1 DEF IntentInv, Drains, Settled, Starting, Trading
  <2> QED BY <2>2, <2>3 DEF RowStored
<1>3. FillsAreAnnounced
  BY DEF FillsAreAnnounced, AnnounceInv, Watching, Trading
<1> QED BY <1>1, <1>2, <1>3 DEF NoExecutionIsForgotten

\* An execution that is not applied is read again by the next start, or staged
\* with its order row stored before any drain and the loop told of it
\* (execution_ingress.go:62-80, 109-113, startup.go:45-91, fill.go:77-83).
THEOREM NothingForgotten == Spec => []NoExecutionIsForgotten
BY IngressHolds, IngressShows, PTL

\* Only AdvanceCheckpoint writes the checkpoint, after the window is applied.
LEMMA CheckpointStep ==
    IngressInv /\ [Next]_vars =>
        [checkpoint' # checkpoint =>
            /\ recovered \subseteq Applied
            /\ checkpoint = None \/ checkpoint < checkpoint']_vars
<1> SUFFICES ASSUME IngressInv, [Next]_vars, checkpoint' # checkpoint
             PROVE  /\ recovered \subseteq Applied
                    /\ checkpoint = None \/ checkpoint < checkpoint'
  OBVIOUS
<1>1. AdvanceCheckpoint
  <2>1. ~ UNCHANGED vars /\ ~ Exchange /\ ~ Pump
    BY DEF vars, Exchange, Tick, LoseConnection, Accept, Execute, List, Pump, PumpReceive,
           PumpStage, PumpNotify, PumpSeesEnd, PumpFails, tables
  <2>2. ~ Moves
    BY MovesLeave DEF tables
  <2>3. ~ (\/ Subscribe \/ OpenWindow \/ ReadDone \/ TakeNotification \/ Exit \/ Crash
           \/ \E t \in Trade : StageHistory(t) \/ ApplyExecution(t))
    BY DEF Subscribe, OpenWindow, ReadDone, TakeNotification, Exit, Crash, Die, StageHistory,
           ApplyExecution, tables
  <2>4. ~ \E o \in Order : \/ ReadOrder(o) \/ ResolveIntent(o) \/ BeginSubmission(o) \/ Placed(o)
                           \/ NewIntent(o)
    BY DEF ReadOrder, ResolveIntent, BeginSubmission, Placed, NewIntent, RecordSubmitted, tables
  <2> QED BY <2>1, <2>2, <2>3, <2>4, Steps
<1>2. /\ pc = "advance" /\ checkpoint' = recoveryTo
      /\ checkpoint = None \/ ~ recoveryTo < checkpoint
  BY <1>1 DEF AdvanceCheckpoint
<1>3. recovered \subseteq Applied
  BY <1>2 DEF IngressInv, WindowInv, AfterHistory
<1>4. checkpoint = None \/ checkpoint < checkpoint'
  BY <1>2 DEF IngressInv, TypeOK
<1> QED BY <1>3, <1>4

\* The checkpoint only moves forward, and only once all the history of its
\* window is applied (startup.go:66-83).
THEOREM CheckpointIsEarned == Spec => CheckpointFollowsTheScan
BY IngressHolds, CheckpointStep, PTL DEF Spec, CheckpointFollowsTheScan
-----------------------------------------------------------------------------
\* One more trade counts for its order and for its book.
LEMMA TotalWith ==
    ASSUME NEW S \in SUBSET Trade, NEW t \in Trade, t \notin S, NEW o
    PROVE  Total(FillsOf(o) \cap (S \cup {t}))
               = Total(FillsOf(o) \cap S) + (IF OrderOf[t] = o THEN Quantity[t] ELSE 0)
<1> DEFINE F == FillsOf(o) \cap S
<1>1. F \in SUBSET Trade /\ Total(F) \in Nat
  BY TotalTypes
<1>2. CASE OrderOf[t] = o
  <2>1. FillsOf(o) \cap (S \cup {t}) = F \cup {t} /\ F \cap {t} = {}
    BY <1>2 DEF FillsOf
  <2> HIDE DEF F
  <2>2. Total(F \cup {t}) = Total(F) + Total({t})
    BY <1>1, <2>1, TotalOfUnion
  <2> QED BY <1>2, <2>1, <2>2, TotalOfOne DEF F
<1>3. CASE OrderOf[t] # o
  <2>1. FillsOf(o) \cap (S \cup {t}) = F
    BY <1>3 DEF FillsOf
  <2> QED BY <1>1, <1>3, <2>1
<1> QED BY <1>2, <1>3

\* The same for the net amount of a book.
LEMMA NetWith ==
    ASSUME NEW S \in SUBSET Trade, NEW t \in Trade, t \notin S, NEW b
    PROVE  Net(b, S \cup {t}) = Net(b, S) + (IF BookOf[t] = b THEN Signed[t] ELSE 0)
<1>1. {t} \in SUBSET Trade /\ S \cap {t} = {}
  OBVIOUS
<1>2. Net(b, S \cup {t}) = Net(b, S) + Net(b, {t})
  BY <1>1, NetOfUnion
<1>3. Net(b, {t}) = IF BookOf[t] = b THEN Signed[t] ELSE 0
  BY NetOfOne
<1> QED BY <1>2, <1>3

\* How the trades on their way move: from the stream to the hand of the pump to
\* the inbox.
LEMMA FlowTypes ==
    ASSUME TypeOK, SourceInv
    PROVE  /\ OnItsWay \in SUBSET Trade /\ Pending \in SUBSET Trade
           /\ Applied \in SUBSET Trade /\ Executed \in SUBSET Trade
           /\ OnItsWay \subseteq Executed /\ Pending \subseteq Executed
           /\ Applied \subseteq Executed
           /\ OnItsWay \cap (Applied \cup Pending) = {}
BY DEF SourceInv, Known, OnItsWay, Missing, Pending, Applied, Executed

\* Steps that leave the flow as it is.
Still ==
    \/ Tick \/ LoseConnection \/ Moves \/ OpenWindow \/ ReadDone \/ TakeNotification
    \/ AdvanceCheckpoint
    \/ \E t \in Trade : List(t)
    \/ \E o \in Order : \/ Accept(o) \/ ReadOrder(o) \/ ResolveIntent(o) \/ BeginSubmission(o)
                        \/ Placed(o) \/ NewIntent(o)

\* They touch neither executions nor inbox, hand or stream.
LEMMA StillLeaves ==
    ASSUME Still
    PROVE  UNCHANGED <<executedAt, inbox, position, hand, stream, pump>>
<1>1. CASE Tick \/ LoseConnection \/ \E t \in Trade : List(t)
  BY <1>1 DEF Tick, LoseConnection, List, exchange, channel, tables, pumpVars
<1>2. CASE Moves
  BY <1>2, MovesLeave DEF exchange, channel, tables, pumpVars
<1>3. CASE OpenWindow \/ ReadDone \/ TakeNotification \/ AdvanceCheckpoint
  BY <1>3 DEF OpenWindow, ReadDone, TakeNotification, AdvanceCheckpoint, exchange, channel,
              tables, pumpVars
<1>4. CASE \E o \in Order : \/ Accept(o) \/ ReadOrder(o) \/ ResolveIntent(o) \/ BeginSubmission(o)
                            \/ Placed(o) \/ NewIntent(o)
  BY <1>4 DEF Accept, ReadOrder, ResolveIntent, BeginSubmission, Placed, NewIntent,
              RecordSubmitted, exchange, channel, tables, pumpVars
<1> QED BY <1>1, <1>2, <1>3, <1>4 DEF Still

\* So the same trades are on their way and pending.
LEMMA StillFlow ==
    ASSUME Still
    PROVE  /\ OnItsWay' = OnItsWay /\ Pending' = Pending /\ Executed' = Executed
           /\ position' = position /\ pump' = pump
           /\ \A o : Lots(o)' = Lots(o)
<1>1. UNCHANGED <<executedAt, inbox, position, hand, stream, pump>>
  BY StillLeaves
<1> QED BY <1>1 DEF OnItsWay, Missing, Pending, Executed, Lots

\* An execution is on its way if the stream is open.
LEMMA ExecuteFlow ==
    ASSUME TypeOK, SourceInv, NEW t \in Trade, Execute(t)
    PROVE  /\ OnItsWay' = IF connected THEN OnItsWay \cup {t} ELSE OnItsWay
           /\ Pending' = Pending /\ t \notin OnItsWay
<1>1. /\ executedAt[t] = 0 /\ now' = now + 1 /\ executedAt' = [executedAt EXCEPT ![t] = now + 1]
      /\ stream' = IF connected THEN Append(stream, t) ELSE stream
      /\ UNCHANGED <<inbox, hand>>
  BY DEF Execute, tables, pumpVars
<1>2. stream \in Seq(Trade) /\ inbox[t] = "absent" /\ hand # t
  BY <1>1, TradeAssumption DEF TypeOK, SourceInv, Known
<1>3. \A i \in 1 .. Len(stream) : stream[i] # t
  BY <1>1 DEF TypeOK, SourceInv, Known
<1>4. Missing' = Missing \cup {t}
  BY <1>1, <1>2 DEF TypeOK, Missing, Executed
<1>5. ASSUME NEW u
      PROVE  (\E i \in 1 .. Len(stream') : stream'[i] = u)
                <=> (\E i \in 1 .. Len(stream) : stream[i] = u) \/ (connected /\ u = t)
  <2>1. CASE connected
    <3>1. /\ stream' = Append(stream, t) /\ Len(stream') = Len(stream) + 1
          /\ stream'[Len(stream) + 1] = t /\ Len(stream) \in Nat
          /\ \A i \in 1 .. Len(stream) : stream'[i] = stream[i]
      BY <1>1, <1>2, <2>1
    <3> QED BY <2>1, <3>1
  <2>2. CASE ~ connected
    BY <1>1, <2>2
  <2> QED BY <2>1, <2>2
<1>6. OnItsWay' = IF connected THEN OnItsWay \cup {t} ELSE OnItsWay
  BY <1>1, <1>2, <1>3, <1>4, <1>5 DEF OnItsWay
<1>7. Pending' = Pending /\ t \notin OnItsWay
  BY <1>1, <1>2, <1>3 DEF Pending, OnItsWay
<1> QED BY <1>6, <1>7

\* The pump only moves trades along, unless it fails.
LEMMA PumpFlow ==
    ASSUME TypeOK, SourceInv, Pump
    PROVE  /\ OnItsWay' \cup Pending' \subseteq OnItsWay \cup Pending
           /\ OnItsWay' \subseteq OnItsWay
           /\ pump' # "failed" =>
                 pump # "failed" /\ OnItsWay' \cup Pending' = OnItsWay \cup Pending
           /\ UNCHANGED <<exchange, connected, filled, position, pc>>
<1>1. CASE PumpReceive
  <2>1. /\ pump = "idle" /\ hand = None /\ stream \in Seq(Trade) /\ stream # <<>>
        /\ hand' = Head(stream) /\ stream' = Tail(stream) /\ pump' = "held"
        /\ UNCHANGED <<exchange, connected, tables, pc>>
    BY <1>1 DEF PumpReceive, TypeOK, SourceInv
  <2>2. ASSUME NEW u \in Trade
        PROVE  (\E i \in 1 .. Len(stream) : stream[i] = u)
                  <=> u = hand' \/ (\E i \in 1 .. Len(stream') : stream'[i] = u)
    <3>1. /\ Len(stream) \in Nat /\ Len(stream) >= 1 /\ Len(stream') = Len(stream) - 1
          /\ hand' = stream[1]
          /\ \A i \in 1 .. Len(stream') : stream'[i] = stream[i + 1]
      BY <2>1
    <3>2. ASSUME NEW i \in 1 .. Len(stream), stream[i] = u
          PROVE  u = hand' \/ \E j \in 1 .. Len(stream') : stream'[j] = u
      <4>1. CASE i = 1
        BY <3>1, <3>2, <4>1
      <4>2. CASE i # 1
        <5>1. i - 1 \in 1 .. Len(stream') /\ stream'[i - 1] = u
          BY <3>1, <3>2, <4>2
        <5> QED BY <5>1
      <4> QED BY <4>1, <4>2
    <3>3. ASSUME NEW j \in 1 .. Len(stream'), stream'[j] = u
          PROVE  \E i \in 1 .. Len(stream) : stream[i] = u
      <4>1. j + 1 \in 1 .. Len(stream) /\ stream[j + 1] = u
        BY <3>1, <3>3
      <4> QED BY <4>1
    <3>4. 1 \in 1 .. Len(stream)
      BY <3>1
    <3> QED BY <3>1, <3>2, <3>3, <3>4
  <2>3. Missing' = Missing /\ Pending' = Pending /\ Missing \subseteq Trade
    BY <2>1 DEF Missing, Pending, Executed, exchange, tables
  <2>4. OnItsWay' = OnItsWay
    BY <2>1, <2>2, <2>3, TradeAssumption DEF OnItsWay
  <2> QED BY <2>1, <2>3, <2>4 DEF tables
<1>2. CASE PumpStage
  <2>1. /\ pump = "held" /\ pump' = "staged" /\ hand \in Trade /\ Known(hand)
        /\ inbox' = IF inbox[hand] = "absent" THEN [inbox EXCEPT ![hand] = "pending"] ELSE inbox
        /\ UNCHANGED <<exchange, connected, stream, hand, filled, position, pc>>
    BY <1>2, TradeAssumption DEF PumpStage, StageExecution, SourceInv, channel
  <2>2. CASE inbox[hand] # "absent"
    BY <2>1, <2>2 DEF OnItsWay, Missing, Pending, Executed, exchange
  <2>3. CASE inbox[hand] = "absent"
    <3>1. inbox' = [inbox EXCEPT ![hand] = "pending"] /\ Executed' = Executed
      BY <2>1, <2>3 DEF Executed, exchange
    <3>2. Missing' = Missing \ {hand} /\ Pending' = Pending \cup {hand}
      BY <2>1, <3>1 DEF TypeOK, Missing, Pending
    <3>3. OnItsWay' = OnItsWay \ {hand} /\ hand \in OnItsWay
      BY <2>1, <2>3, <3>2 DEF OnItsWay, Missing, Executed, Known
    <3> QED BY <2>1, <3>2, <3>3
  <2> QED BY <2>2, <2>3
<1>3. CASE PumpNotify \/ PumpSeesEnd \/ PumpFails
  <2>1. /\ UNCHANGED <<exchange, channel, tables, pc>>
        /\ hand' = hand \/ hand' = None
        /\ pump' = "failed" \/ (pump = "staged" /\ pump' = "idle")
    BY <1>3 DEF PumpNotify, PumpSeesEnd, PumpFails
  <2>2. Missing' = Missing /\ Pending' = Pending /\ stream' = stream
    BY <2>1 DEF Missing, Pending, Executed, exchange, channel, tables
  <2>3. Missing \subseteq Trade
    BY DEF Missing, Executed
  <2>4. OnItsWay' \subseteq OnItsWay
    BY <2>1, <2>2, <2>3, TradeAssumption DEF OnItsWay
  <2>5. pump = "staged" => hand \notin Missing
    BY DEF SourceInv, Missing
  <2>6. pump = "staged" => OnItsWay' = OnItsWay
    BY <2>1, <2>2, <2>3, <2>5, TradeAssumption DEF OnItsWay
  <2>7. UNCHANGED <<exchange, connected, filled, position, pc>>
    BY <2>1 DEF channel, tables
  <2> QED BY <2>1, <2>2, <2>4, <2>6, <2>7
<1> QED BY <1>1, <1>2, <1>3 DEF Pump
-----------------------------------------------------------------------------
\* From the subscription to the last drain before reconciliation.
Catching == {"window", "read", "stage", "drainHistory", "commissions", "drainStart"}

\* The stored fill of o leaves room for the trades of S still to come.
Fits(o, S) == filled[o] + Total(FillsOf(o) \cap S) <= Lots(o)

\* No order is stored with more than the exchange filled, not even with the
\* trades on their way and those staged after the last drain.
FillInv ==
    /\ \A o \in Order : filled[o] <= Lots(o)
    /\ pc \in Catching => \A o \in Order : Fits(o, OnItsWay)
    /\ pc \in {"positions1", "orders1"} => \A o \in Order : Fits(o, OnItsWay \cup Pending)

\* What leaves room for some trades leaves room for fewer.
LEMMA FitsPart ==
    ASSUME TypeOK, NEW o \in Order, NEW S \in SUBSET Trade, NEW U \in SUBSET S, Fits(o, S)
    PROVE  Fits(o, U)
<1>1. FillsOf(o) \cap S \in SUBSET Trade /\ FillsOf(o) \cap U \in SUBSET (FillsOf(o) \cap S)
  OBVIOUS
<1>2. Total(FillsOf(o) \cap U) <= Total(FillsOf(o) \cap S)
  BY <1>1, TotalOfPart
<1>3. Total(FillsOf(o) \cap U) \in Nat /\ Total(FillsOf(o) \cap S) \in Nat
  BY <1>1, TotalTypes
<1>4. filled[o] \in Nat /\ Lots(o) \in Nat
  BY LotsTypes DEF TypeOK
<1> QED BY <1>2, <1>3, <1>4 DEF Fits

\* Nothing to come always fits.
LEMMA FitsNothing ==
    ASSUME TypeOK, NEW o \in Order, filled[o] <= Lots(o)
    PROVE  Fits(o, {})
<1>1. FillsOf(o) \cap {} = {}
  OBVIOUS
<1>2. Total({}) = 0
  BY SumOfNothing, TotalIsSum
<1>3. filled[o] \in Nat
  BY DEF TypeOK
<1> QED BY <1>1, <1>2, <1>3 DEF Fits

\* If the trades to come only get fewer, the stored fills still fit.
LEMMA FitsStill ==
    ASSUME TypeOK, SourceInv, FillInv, filled' = filled, Executed' = Executed,
           pc' \in Catching => pc \in Catching /\ OnItsWay' \subseteq OnItsWay,
           pc' \in {"positions1", "orders1"} =>
               \/ /\ pc \in {"positions1", "orders1"}
                  /\ OnItsWay' \cup Pending' \subseteq OnItsWay \cup Pending
               \/ pc \in Catching /\ OnItsWay' \cup Pending' \subseteq OnItsWay
    PROVE  FillInv'
<1>1. \A o \in Order : Lots(o)' = Lots(o)
  BY DEF Lots
<1>2. ASSUME pc' \in Catching, NEW o \in Order PROVE Fits(o, OnItsWay)'
  <2>1. Fits(o, OnItsWay')
    BY <1>2, FlowTypes, FitsPart DEF FillInv
  <2> QED BY <1>1, <2>1 DEF Fits
<1>3. ASSUME pc' \in {"positions1", "orders1"}, NEW o \in Order
      PROVE  Fits(o, OnItsWay \cup Pending)'
  <2>1. Fits(o, OnItsWay' \cup Pending')
    <3>1. CASE /\ pc \in {"positions1", "orders1"}
               /\ OnItsWay' \cup Pending' \subseteq OnItsWay \cup Pending
      BY <3>1, FlowTypes, FitsPart DEF FillInv
    <3>2. CASE pc \in Catching /\ OnItsWay' \cup Pending' \subseteq OnItsWay
      BY <3>2, FlowTypes, FitsPart DEF FillInv
    <3> QED BY <1>3, <3>1, <3>2
  <2> QED BY <1>1, <2>1 DEF Fits
<1> QED BY <1>1, <1>2, <1>3 DEF FillInv

\* An execution: the exchange counts it, and so does the stream if it is open.
LEMMA FitsExecution ==
    ASSUME TypeOK, SourceInv, FillInv, NEW t \in Trade, Execute(t)
    PROVE  FillInv'
<1>1. /\ Executed' = Executed \cup {t} /\ t \notin Executed
      /\ UNCHANGED <<filled, pc>> /\ Pending' = Pending
      /\ OnItsWay' \in {OnItsWay, OnItsWay \cup {t}} /\ t \notin OnItsWay /\ t \notin Pending
  BY ExecuteEffect, ExecuteFlow, FlowTypes DEF tables
<1> DEFINE q(o) == IF OrderOf[t] = o THEN Quantity[t] ELSE 0
<1>2. \A o \in Order : Lots(o)' = Lots(o) + q(o)
  BY <1>1, FlowTypes, TotalWith DEF Lots
<1>3. \A o \in Order : q(o) \in Nat /\ Lots(o) \in Nat /\ filled[o] \in Nat
  BY TradeTypes, LotsTypes DEF TypeOK
<1>4. ASSUME NEW o \in Order, NEW S \in SUBSET Trade, t \notin S, Fits(o, S),
             NEW U \in {S, S \cup {t}}
      PROVE  filled[o] + Total(FillsOf(o) \cap U) <= Lots(o) + q(o)
  <2>1. Total(FillsOf(o) \cap (S \cup {t})) = Total(FillsOf(o) \cap S) + q(o)
    BY <1>4, TotalWith
  <2>2. Total(FillsOf(o) \cap S) \in Nat
    BY TotalTypes
  <2>3. filled[o] + Total(FillsOf(o) \cap S) <= Lots(o)
    BY <1>4 DEF Fits
  <2>4. q(o) \in Nat /\ Lots(o) \in Nat /\ filled[o] \in Nat
    BY <1>3
  <2> HIDE DEF q
  <2>5. CASE U = S
    BY <2>2, <2>3, <2>4, <2>5
  <2>6. CASE U = S \cup {t}
    BY <2>1, <2>2, <2>3, <2>4, <2>6
  <2> QED BY <1>4, <2>5, <2>6
<1> HIDE DEF q
<1>5. \A o \in Order : filled'[o] <= Lots(o)'
  BY <1>1, <1>2, <1>3 DEF FillInv
<1>6. ASSUME pc' \in Catching, NEW o \in Order PROVE Fits(o, OnItsWay)'
  <2>1. filled[o] + Total(FillsOf(o) \cap OnItsWay') <= Lots(o) + q(o)
    BY <1>1, <1>4, <1>6, FlowTypes DEF FillInv
  <2> QED BY <1>1, <1>2, <2>1 DEF Fits
<1>7. ASSUME pc' \in {"positions1", "orders1"}, NEW o \in Order
      PROVE  Fits(o, OnItsWay \cup Pending)'
  <2> DEFINE S == OnItsWay \cup Pending
  <2>1. S \in SUBSET Trade /\ t \notin S /\ Fits(o, S)
    BY <1>1, <1>7, FlowTypes DEF FillInv
  <2>2. OnItsWay' \cup Pending' \in {S, S \cup {t}}
    BY <1>1
  <2> HIDE DEF S
  <2>3. filled[o] + Total(FillsOf(o) \cap (OnItsWay' \cup Pending')) <= Lots(o) + q(o)
    BY <1>4, <2>1, <2>2
  <2> QED BY <1>1, <1>2, <2>3 DEF Fits
<1> QED BY <1>5, <1>6, <1>7 DEF FillInv

\* A row applied: its order counts it, and leaves the room it left.
LEMMA FitsApplied ==
    ASSUME TypeOK, SourceInv, FillInv, NEW t \in Trade, ApplyExecution(t)
    PROVE  FillInv'
<1> DEFINE p == OrderOf[t]
           A == FillsOf(p) \cap (Applied \cup {t})
           W == FillsOf(p) \cap OnItsWay
<1>1. /\ pc \in Drains /\ p \in Order /\ filled' = [filled EXCEPT ![p] = FilledWith(t)]
      /\ UNCHANGED <<exchange, channel, pumpVars, pc>>
      /\ Missing' = Missing /\ t \in Executed /\ t \in Pending
  BY ApplyEffect, TradeTypes DEF ApplyExecution
<1>2. OnItsWay' = OnItsWay /\ \A o : Lots(o)' = Lots(o)
  BY <1>1 DEF OnItsWay, Lots, Executed, exchange, channel, pumpVars
<1>3. /\ A \in SUBSET (FillsOf(p) \cap Executed) /\ W \in SUBSET (FillsOf(p) \cap Executed)
      /\ A \cap W = {} /\ FillsOf(p) \cap Executed \in SUBSET Trade
      /\ A \cup W \in SUBSET (FillsOf(p) \cap Executed)
      /\ A \in SUBSET Trade /\ W \in SUBSET Trade
  BY <1>1, FlowTypes
<1>4. FilledWith(t) = filled[p] \/ FilledWith(t) = Total(A)
  <2> DEFINE a == filled[p]
             b == Total(A)
  <2>1. FilledWith(t) = Max({a, b})
    BY DEF FilledWith
  <2>2. a \in Nat /\ b \in Nat
    BY <1>1, <1>3, TotalTypes DEF TypeOK
  <2> HIDE DEF a, b
  <2>3. Max({a, b}) = a \/ Max({a, b}) = b
    BY <2>2 DEF Max
  <2> QED BY <2>1, <2>3 DEF a, b
<1>5. Total(A \cup W) = Total(A) + Total(W) /\ Total(A \cup W) <= Lots(p)
  <2> HIDE DEF A, W
  <2>1. Total(A \cup W) = Total(A) + Total(W)
    BY <1>3, TotalOfUnion
  <2>2. Total(A \cup W) <= Total(FillsOf(p) \cap Executed)
    BY <1>3, TotalOfPart
  <2> QED BY <2>1, <2>2 DEF Lots
<1>6. Total(A) \in Nat /\ Total(W) \in Nat /\ Lots(p) \in Nat /\ filled[p] \in Nat
  BY <1>1, <1>3, TotalTypes, LotsTypes DEF TypeOK
<1>7. Total(A) <= Lots(p) /\ Total(A) + Total(W) <= Lots(p)
  BY <1>5, <1>6
<1> HIDE DEF A
<1>8. filled'[p] = FilledWith(t) /\ \A o \in Order : o # p => filled'[o] = filled[o]
  BY <1>1 DEF TypeOK
<1>9. \A o \in Order : filled'[o] <= Lots(o)'
  BY <1>2, <1>4, <1>7, <1>8 DEF FillInv
<1>10. ASSUME pc' \in Catching, NEW o \in Order PROVE Fits(o, OnItsWay)'
  <2>1. Fits(o, OnItsWay)
    BY <1>1, <1>10 DEF FillInv
  <2>2. CASE o # p
    BY <1>2, <1>8, <2>1, <2>2 DEF Fits
  <2>3. CASE o = p
    <3>1. filled'[p] + Total(W) <= Lots(p)
      BY <1>4, <1>7, <1>8, <2>1, <2>3 DEF Fits
    <3> QED BY <1>2, <2>3, <3>1 DEF Fits
  <2> QED BY <2>2, <2>3
<1>11. pc' \notin {"positions1", "orders1"}
  BY <1>1 DEF Drains
<1> QED BY <1>9, <1>10, <1>11 DEF FillInv

\* The fill of an order state the exchange returned is the exchange's own.
LEMMA FitsRecorded ==
    ASSUME TypeOK, FillInv, NEW o \in Order, ResolveIntent(o) \/ Placed(o)
    PROVE  FillInv'
<1>1. /\ pc' \in {"resolve", "stopped", "ready", "running"}
      /\ \/ UNCHANGED filled
         \/ filled' = [filled EXCEPT ![o] = Lots(o)]
  BY DEF ResolveIntent, Placed, RecordSubmitted, Stop, tables
<1>2. \A p \in Order : Lots(p)' = Lots(p)
  BY StillFlow DEF Still
<1>3. \A p \in Order : Lots(p) \in Nat /\ filled[p] <= Lots(p)
  BY LotsTypes DEF FillInv
<1>4. \A p \in Order : filled'[p] \in {filled[p], Lots(p)}
  <2>1. filled \in [Order -> Nat]
    BY DEF TypeOK
  <2>2. CASE UNCHANGED filled
    BY <2>2
  <2>3. CASE filled' = [filled EXCEPT ![o] = Lots(o)]
    BY <2>1, <2>3
  <2> QED BY <1>1, <2>2, <2>3
<1>5. \A p \in Order : filled'[p] <= Lots(p)'
  BY <1>2, <1>3, <1>4
<1> QED BY <1>1, <1>5 DEF FillInv, Catching

\* The connection and the pump of a run begin with nothing on its way.
LEMMA NothingOnItsWay ==
    ASSUME Subscribe \/ Exit \/ Crash
    PROVE  OnItsWay' = {} /\ Executed' = Executed /\ UNCHANGED <<filled, position, inbox>>
<1>1. hand' = None /\ stream' = <<>> /\ UNCHANGED <<exchange, tables>>
  BY DEF Subscribe, Exit, Crash, Die
<1>2. Len(stream') = 0
  BY <1>1
<1>3. OnItsWay' = {}
  BY <1>1, <1>2, TradeAssumption DEF OnItsWay, Missing, Executed
<1> QED BY <1>1, <1>3 DEF Executed, exchange, tables

\* FillInv is inductive.
LEMMA FillStep == TypeOK /\ SourceInv /\ FillInv /\ [Next]_vars => FillInv'
<1> SUFFICES ASSUME TypeOK, SourceInv, FillInv, [Next]_vars PROVE FillInv'
  OBVIOUS
<1>1. CASE UNCHANGED vars
  <2>1. UNCHANGED <<executedAt, inbox, hand, stream, filled, pc>>
    BY <1>1 DEF vars, exchange, channel, tables, pumpVars
  <2>2. OnItsWay' = OnItsWay /\ Pending' = Pending /\ Executed' = Executed
    BY <2>1 DEF OnItsWay, Missing, Pending, Executed
  <2> QED BY <2>1, <2>2, FitsStill
<1>2. CASE Exchange
  <2>1. CASE \E t \in Trade : Execute(t)
    BY <2>1, FitsExecution
  <2>2. CASE Tick \/ LoseConnection \/ (\E o \in Order : Accept(o)) \/ \E t \in Trade : List(t)
    <3>1. UNCHANGED <<filled, pc>>
      BY <2>2 DEF Tick, LoseConnection, Accept, List, tables
    <3>2. OnItsWay' = OnItsWay /\ Pending' = Pending /\ Executed' = Executed
      BY <2>2, StillFlow DEF Still
    <3> QED BY <3>1, <3>2, FitsStill
  <2> QED BY <1>2, <2>1, <2>2 DEF Exchange
<1>3. CASE Pump
  <2>1. /\ OnItsWay' \cup Pending' \subseteq OnItsWay \cup Pending /\ OnItsWay' \subseteq OnItsWay
        /\ UNCHANGED <<filled, pc>> /\ Executed' = Executed
    BY <1>3, PumpFlow DEF exchange, Executed
  <2> QED BY <2>1, FitsStill
<1>4. CASE Moves
  <2>1. OnItsWay' = OnItsWay /\ Pending' = Pending /\ Executed' = Executed /\ UNCHANGED filled
    BY <1>4, MovesLeave, StillFlow DEF Still, tables
  <2>2. /\ pc' \in Catching => pc \in Catching
        /\ pc' \in {"positions1", "orders1"} =>
              pc \in {"positions1", "orders1"} \/ (pc \in Catching /\ Pending = {})
    BY <1>4, MovesGo DEF Goes, Catching
  <2> QED BY <2>1, <2>2, FitsStill
<1>5. CASE Subscribe \/ Exit \/ Crash
  <2>1. OnItsWay' = {} /\ Executed' = Executed /\ filled' = filled
    BY <1>5, NothingOnItsWay
  <2>2. pc' \in {"window", "down"}
    BY <1>5 DEF Subscribe, Exit, Crash, Die
  <2>3. \A o \in Order : Lots(o)' = Lots(o) /\ filled[o] <= Lots(o) /\ Fits(o, {})
    BY <2>1, FitsNothing DEF FillInv, Lots
  <2>4. \A o \in Order : Fits(o, OnItsWay)'
    BY <2>1, <2>3 DEF Fits
  <2> QED BY <2>1, <2>2, <2>3, <2>4 DEF FillInv
<1>6. CASE \/ OpenWindow \/ ReadDone \/ TakeNotification \/ AdvanceCheckpoint
           \/ \E o \in Order : ReadOrder(o) \/ BeginSubmission(o) \/ NewIntent(o)
  <2>1. filled' = filled
    BY <1>6 DEF OpenWindow, ReadDone, TakeNotification, AdvanceCheckpoint, ReadOrder,
                BeginSubmission, NewIntent, tables
  <2>2. OnItsWay' = OnItsWay /\ Pending' = Pending /\ Executed' = Executed
    BY <1>6, StillFlow DEF Still
  <2>3. /\ pc' \in Catching => pc \in Catching
        /\ pc' \notin {"positions1", "orders1"}
    BY <1>6 DEF OpenWindow, ReadDone, TakeNotification, AdvanceCheckpoint, ReadOrder,
                BeginSubmission, NewIntent, Stop, Catching
  <2> QED BY <2>1, <2>2, <2>3, FitsStill
<1>7. ASSUME NEW t \in Trade, StageHistory(t) PROVE FillInv'
  <2>1. /\ pc = "stage" /\ UNCHANGED <<executedAt, hand, stream, filled, pc>>
        /\ \A u \in Trade : inbox[u] # "absent" => inbox'[u] # "absent"
    BY <1>7 DEF StageHistory, StageExecution, TypeOK, exchange, channel, pumpVars
  <2>2. OnItsWay' \subseteq OnItsWay /\ Executed' = Executed
    BY <2>1 DEF OnItsWay, Missing, Executed
  <2> QED BY <2>1, <2>2, FitsStill
<1> QED BY <1>1, <1>2, <1>3, <1>4, <1>5, <1>6, <1>7, FitsApplied, FitsRecorded, Steps
-----------------------------------------------------------------------------
\* The stream of this run is open and the pump takes from it.
Streaming == connected /\ pump # "failed"

\* Past the comparison of orders.
Compared == {"advance", "ready", "readyCall", "positions2", "orders2"} \cup Trading

\* After equal positions: if no trade has moved since, they are still equal.
\* After equal orders: the stored position and the trades on their way are exact.
ExactInv ==
    /\ pc = "orders1" /\ Streaming /\ OnItsWay \cup Pending = {} =>
          \A b \in Book : Net(b, Executed) = position[b]
    /\ pc \in Compared /\ Streaming =>
          \A b \in Book : Net(b, Executed) = position[b] + Net(b, Pending \cup OnItsWay)

\* Equal open orders leave no room for a trade on its way: its order would be
\* open on the exchange with more filled than stored.
LEMMA EqualOrdersMeanNoneToCome ==
    ASSUME TypeOK, SourceInv, IntentInv, FillInv, pc = "orders1",
           \A o \in Order : OpenHere(o) => filled[o] = Lots(o)
    PROVE  OnItsWay \cup Pending = {}
<1> DEFINE S == OnItsWay \cup Pending
<1> SUFFICES ASSUME NEW t \in S PROVE FALSE
  OBVIOUS
<1> DEFINE o == OrderOf[t]
<1>1. t \in Trade /\ t \in Executed /\ S \in SUBSET Trade /\ o \in Order
  BY FlowTypes, TradeTypes
<1>2. Fits(o, S)
  BY <1>1 DEF FillInv
<1> HIDE DEF S
<1>3. {t} \in SUBSET (FillsOf(o) \cap S) /\ FillsOf(o) \cap S \in SUBSET Trade
  BY <1>1 DEF FillsOf
<1>4. Quantity[t] <= Total(FillsOf(o) \cap S)
  BY <1>1, <1>3, TotalOfPart, TotalOfOne
<1>5. /\ Quantity[t] \in Nat /\ Quantity[t] > 0 /\ Total(FillsOf(o) \cap S) \in Nat
      /\ filled[o] \in Nat /\ Lots(o) \in Nat
  BY <1>1, <1>3, TradeTypes, TotalTypes, LotsTypes DEF TypeOK
<1>6. filled[o] < Lots(o)
  BY <1>2, <1>4, <1>5 DEF Fits
<1>7. Lots(o) <= Requested(o)
  <2>1. FillsOf(o) \in SUBSET Trade /\ FillsOf(o) \cap Executed \in SUBSET FillsOf(o)
    BY TradeTypes
  <2> QED BY <2>1, TotalOfPart DEF Lots, Requested
<1>8. Requested(o) \in Nat
  BY TradeTypes, TotalTypes DEF Requested
<1>9. RowStored(o)
  <2>1. o \in accepted
    BY <1>1 DEF SourceInv, Executed, Known
  <2>2. intent[o] \in {"submitting", "submitted"}
    BY <2>1 DEF SourceInv
  <2>3. intent[o] # "submitting"
    BY <1>1 DEF IntentInv, Settled, Starting
  <2> QED BY <2>2, <2>3 DEF RowStored
<1>10. OpenHere(o)
  BY <1>5, <1>6, <1>7, <1>8, <1>9 DEF OpenHere
<1>11. filled[o] = Lots(o)
  BY <1>1, <1>10
<1> QED BY <1>5, <1>6, <1>11

\* As long as trades only move within the flow, the account stays as exact as
\* it was.
LEMMA ExactStill ==
    ASSUME ExactInv, position' = position, Executed' = Executed, Streaming' => Streaming,
           Streaming' => OnItsWay' \cup Pending' = OnItsWay \cup Pending,
           pc' = "orders1" => pc = "orders1", pc' \in Compared => pc \in Compared
    PROVE  ExactInv'
<1>1. /\ Pending' \cup OnItsWay' = OnItsWay' \cup Pending'
      /\ Pending \cup OnItsWay = OnItsWay \cup Pending
  OBVIOUS
<1> QED BY <1>1 DEF ExactInv

\* Both comparisons, and the steps between and after them.
LEMMA ExactMoves ==
    ASSUME TypeOK, SourceInv, IntentInv, FillInv, ExactInv, Moves
    PROVE  ExactInv'
<1>1. /\ OnItsWay' = OnItsWay /\ Pending' = Pending /\ Executed' = Executed
      /\ UNCHANGED <<position, pump, connected>>
  BY MovesLeave, StillFlow DEF Still, channel
<1>2. Streaming' <=> Streaming
  BY <1>1 DEF Streaming
<1>3. CASE Goes("positions1", "orders1") /\ \A b \in Book : position[b] = Net(b, Executed)
  BY <1>1, <1>3 DEF Goes, ExactInv, Compared, Trading
<1>4. CASE /\ Goes("orders1", "advance")
           /\ \A o \in Order : OpenHere(o) => filled[o] = Lots(o)
  <2>1. OnItsWay \cup Pending = {}
    BY <1>4, EqualOrdersMeanNoneToCome DEF Goes
  <2>2. Pending \cup OnItsWay = {} /\ \A b : Net(b, {}) = 0
    <3>1. \A b : {t \in {} : BookOf[t] = b} = {}
      OBVIOUS
    <3>2. \A b : Net(b, {}) = SumOver(Signed, {t \in {} : BookOf[t] = b})
      BY NetIsSum
    <3> QED BY <2>1, <3>1, <3>2, SumOfNothing
  <2>3. Streaming => \A b \in Book : Net(b, Executed) = position[b]
    BY <1>4, <2>1 DEF Goes, ExactInv
  <2>4. \A b \in Book : position[b] \in Int
    BY DEF TypeOK
  <2>5. \A b \in Book : position[b] + Net(b, Pending \cup OnItsWay) = position[b]
    <3> TAKE b \in Book
    <3>1. position[b] + 0 = position[b]
      BY <2>4
    <3> QED BY <2>2, <3>1
  <2>6. Streaming' => \A b \in Book :
                Net(b, Executed') = position'[b] + Net(b, Pending' \cup OnItsWay')
    BY <1>1, <1>2, <2>3, <2>5
  <2>7. pc' # "orders1"
    BY <1>4 DEF Goes
  <2> QED BY <2>6, <2>7 DEF ExactInv
<1>5. CASE (pc' = "orders1" => pc = "orders1") /\ (pc' \in Compared => pc \in Compared)
  BY <1>1, <1>2, <1>5, ExactStill
<1>6. \/ Goes("positions1", "orders1") /\ \A b \in Book : position[b] = Net(b, Executed)
      \/ Goes("orders1", "advance") /\ \A o \in Order : OpenHere(o) => filled[o] = Lots(o)
      \/ (pc' = "orders1" => pc = "orders1") /\ (pc' \in Compared => pc \in Compared)
  BY MovesGo DEF Goes, Compared, Trading
<1> QED BY <1>3, <1>4, <1>5, <1>6

\* An execution adds the same to the exchange's position and to what is on its
\* way, if the stream is open.
LEMMA ExactExecution ==
    ASSUME TypeOK, SourceInv, ExactInv, NEW t \in Trade, Execute(t)
    PROVE  ExactInv'
<1>1. /\ Executed' = Executed \cup {t} /\ t \notin Executed
      /\ UNCHANGED <<position, connected, pump, pc>> /\ Pending' = Pending
      /\ OnItsWay' = IF connected THEN OnItsWay \cup {t} ELSE OnItsWay
      /\ t \notin OnItsWay /\ t \notin Pending
  BY ExecuteEffect, ExecuteFlow, FlowTypes DEF tables, pumpVars
<1>2. CASE ~ Streaming
  BY <1>1, <1>2 DEF ExactInv, Streaming
<1>3. CASE Streaming
  <2> DEFINE S == Pending \cup OnItsWay
  <2>1. Pending' \cup OnItsWay' = S \cup {t} /\ S \in SUBSET Trade /\ t \notin S
    BY <1>1, <1>3, FlowTypes DEF Streaming
  <2>2. OnItsWay' \cup Pending' # {}
    BY <2>1
  <2> HIDE DEF S
  <2>3. ASSUME pc \in Compared, NEW b \in Book
        PROVE  Net(b, Executed') = position'[b] + Net(b, Pending' \cup OnItsWay')
    <3> DEFINE q == IF BookOf[t] = b THEN Signed[t] ELSE 0
    <3>1. Net(b, S \cup {t}) = Net(b, S) + q
      BY <2>1, NetWith
    <3>2. Net(b, Executed \cup {t}) = Net(b, Executed) + q
      BY <1>1, FlowTypes, NetWith
    <3>3. Net(b, Executed) = position[b] + Net(b, S)
      BY <1>3, <2>3 DEF ExactInv, S
    <3>4. q \in Int /\ Net(b, S) \in Int /\ position[b] \in Int
      BY <2>1, NetTypes, TradeTypes DEF TypeOK
    <3> HIDE DEF q
    <3>5. (position[b] + Net(b, S)) + q = position[b] + (Net(b, S) + q)
      BY <3>4
    <3> QED BY <1>1, <2>1, <3>1, <3>2, <3>3, <3>5
  <2> QED BY <1>1, <2>2, <2>3 DEF ExactInv
<1> QED BY <1>2, <1>3

\* A row applied moves its amount from the inbox to the position.
LEMMA ExactApplied ==
    ASSUME TypeOK, SourceInv, ExactInv, NEW t \in Trade, ApplyExecution(t)
    PROVE  ExactInv'
<1>1. /\ Pending' = Pending \ {t} /\ t \in Pending /\ t \in Trade /\ Missing' = Missing
      /\ UNCHANGED <<exchange, channel, pumpVars, pc>> /\ pc \in Drains
      /\ position' = [position EXCEPT ![BookOf[t]] = @ + Signed[t]]
  BY ApplyEffect DEF ApplyExecution
<1>2. OnItsWay' = OnItsWay /\ Executed' = Executed /\ Streaming' = Streaming
  BY <1>1 DEF OnItsWay, Executed, Streaming, exchange, channel, pumpVars
<1> DEFINE R == (Pending \ {t}) \cup OnItsWay
<1>3. /\ R \in SUBSET Trade /\ t \notin R /\ Pending \cup OnItsWay = R \cup {t}
      /\ Pending' \cup OnItsWay' = R
  BY <1>1, <1>2, FlowTypes
<1> HIDE DEF R
<1>4. ASSUME pc \in Compared, Streaming, NEW b \in Book
      PROVE  Net(b, Executed) = position'[b] + Net(b, R)
  <2> DEFINE q == IF BookOf[t] = b THEN Signed[t] ELSE 0
  <2>1. Net(b, R \cup {t}) = Net(b, R) + q
    BY <1>3, NetWith
  <2>2. Net(b, Executed) = position[b] + Net(b, R \cup {t})
    BY <1>3, <1>4 DEF ExactInv
  <2>3. Signed[t] \in Int /\ Net(b, R) \in Int /\ position \in [Book -> Int]
    BY <1>3, NetTypes, TradeTypes DEF TypeOK
  <2>4. position'[b] = position[b] + q /\ q \in Int
    BY <1>1, <2>3
  <2> HIDE DEF q
  <2>5. position[b] + (Net(b, R) + q) = (position[b] + q) + Net(b, R)
    BY <2>3, <2>4
  <2> QED BY <2>1, <2>2, <2>4, <2>5
<1>5. pc' # "orders1"
  BY <1>1 DEF Drains
<1> QED BY <1>1, <1>2, <1>3, <1>4, <1>5 DEF ExactInv

\* ExactInv is inductive, given the rest.
LEMMA ExactStep ==
    TypeOK /\ SourceInv /\ IntentInv /\ FillInv /\ ExactInv /\ [Next]_vars => ExactInv'
<1> SUFFICES ASSUME TypeOK, SourceInv, IntentInv, FillInv, ExactInv, [Next]_vars
             PROVE  ExactInv'
  OBVIOUS
<1>1. CASE UNCHANGED vars
  <2>1. UNCHANGED <<executedAt, inbox, hand, stream, position, pc, connected, pump>>
    BY <1>1 DEF vars, exchange, channel, tables, pumpVars
  <2>2. OnItsWay' = OnItsWay /\ Pending' = Pending /\ Executed' = Executed /\ Streaming' = Streaming
    BY <2>1 DEF OnItsWay, Missing, Pending, Executed, Streaming
  <2> QED BY <2>1, <2>2, ExactStill
<1>2. CASE Exchange
  <2>1. CASE \E t \in Trade : Execute(t)
    BY <2>1, ExactExecution
  <2>2. CASE Tick \/ LoseConnection \/ (\E o \in Order : Accept(o)) \/ \E t \in Trade : List(t)
    <3>1. UNCHANGED <<position, pc, pump>> /\ connected' \in {connected, FALSE}
      BY <2>2 DEF Tick, LoseConnection, Accept, List, channel, tables, pumpVars
    <3>2. OnItsWay' = OnItsWay /\ Pending' = Pending /\ Executed' = Executed
      BY <2>2, StillFlow DEF Still
    <3>3. Streaming' => Streaming
      BY <3>1 DEF Streaming
    <3> QED BY <3>1, <3>2, <3>3, ExactStill
  <2> QED BY <1>2, <2>1, <2>2 DEF Exchange
<1>3. CASE Pump
  <2>1. /\ pump' # "failed" =>
              pump # "failed" /\ OnItsWay' \cup Pending' = OnItsWay \cup Pending
        /\ UNCHANGED <<position, connected, pc>> /\ Executed' = Executed
    BY <1>3, PumpFlow DEF exchange, Executed
  <2>2. /\ Streaming' => Streaming
        /\ Streaming' => OnItsWay' \cup Pending' = OnItsWay \cup Pending
    BY <2>1 DEF Streaming
  <2> QED BY <2>1, <2>2, ExactStill
<1>4. CASE \/ Subscribe \/ OpenWindow \/ ReadDone \/ Exit \/ Crash
           \/ (\E o \in Order : ReadOrder(o)) \/ \E t \in Trade : StageHistory(t)
  <2>1. pc' \notin Compared \cup {"orders1"}
    BY <1>4 DEF Subscribe, OpenWindow, ReadDone, Exit, Crash, Die, Stop, ReadOrder, StageHistory,
                Compared, Trading
  <2> QED BY <2>1 DEF ExactInv
<1>5. CASE \/ TakeNotification \/ AdvanceCheckpoint
           \/ \E o \in Order : ResolveIntent(o) \/ BeginSubmission(o) \/ Placed(o) \/ NewIntent(o)
  <2>1. connected' = connected
    BY <1>5 DEF TakeNotification, AdvanceCheckpoint, ResolveIntent, BeginSubmission, Placed,
                NewIntent, channel
  <2>2. /\ OnItsWay' = OnItsWay /\ Pending' = Pending /\ Executed' = Executed
        /\ UNCHANGED <<position, pump>>
    BY <1>5, StillFlow DEF Still
  <2>3. /\ pc' # "orders1"
        /\ pc' \in Compared => pc \in Compared
    BY <1>5 DEF TakeNotification, AdvanceCheckpoint, ResolveIntent, BeginSubmission, Placed,
                NewIntent, Stop, Compared, Trading
  <2>4. Streaming' <=> Streaming
    BY <2>1, <2>2 DEF Streaming
  <2> QED BY <2>2, <2>3, <2>4, ExactStill
<1> QED BY <1>1, <1>2, <1>3, <1>4, <1>5, ExactMoves, ExactApplied, Steps

\* While the market loop trades on an open stream, the exchange's position is
\* the stored one plus the fills staged or still on the way: two comparisons
\* with snapshots of different moments suffice for it (reconcile.go:39-77,
\* startup.go:74-96).
THEOREM TradesOnTruth == Spec => []TradingOnTheTruePosition
<1>1. Init => FillInv /\ ExactInv
  <2> SUFFICES ASSUME Init PROVE FillInv /\ ExactInv
    OBVIOUS
  <2>1. TypeOK
    BY TypesInitially
  <2>2. \A o \in Order : filled[o] = 0 /\ Lots(o) \in Nat
    BY <2>1, LotsTypes DEF Init
  <2>3. pc = "down"
    BY DEF Init
  <2> QED BY <2>2, <2>3 DEF FillInv, ExactInv, Catching, Compared, Trading
<1>2. FillInv /\ ExactInv /\ IngressInv /\ [Next]_vars => FillInv' /\ ExactInv'
  BY FillStep, ExactStep DEF IngressInv
<1>3. ExactInv => TradingOnTheTruePosition
  BY DEF ExactInv, TradingOnTheTruePosition, Compared, Streaming
<1> QED BY <1>1, <1>2, <1>3, IngressHolds, PTL DEF Spec
=============================================================================
