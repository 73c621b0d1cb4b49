--------------------------- MODULE ExecutionInbox ---------------------------
(***************************************************************************)
(* How an execution on the exchange becomes a position in the database:    *)
(* internal/agent (the execution pump, history recovery, the drain,        *)
(* reconciliation and the startup sequence that orders them) over the      *)
(* tables execution_inbox, order_executions, orders, positions and the     *)
(* history checkpoint of internal/storage/sqlite.                          *)
(*                                                                         *)
(* Two goroutines of the agent share the database under one mutex: the     *)
(* pump stages what the stream delivers, the main goroutine recovers       *)
(* history, drains the inbox, reconciles, and places orders.  The          *)
(* exchange is external.  It executes accepted orders piecewise, shows a   *)
(* trade on the stream of the connection that is open at that moment (or   *)
(* nowhere), and lists it in its operation history up to Lag later.  The   *)
(* account is not allowed to go short.                                     *)
(*                                                                         *)
(* Time is counted in ticks, at most one execution per tick; a tick is     *)
(* Micros microseconds.  Commissions are the subject of CommissionLedger.  *)
(***************************************************************************)
EXTENDS Integers, Sequences, FiniteSets, FiniteSetsExt

CONSTANTS
    Order,          \* orders the strategies may place
    Trade,          \* trades the exchange may execute
    Book,           \* (strategy, instrument) pairs that hold a position
    OrderOf,        \* OrderOf[t]: the order trade t fills
    BookOfOrder,    \* BookOfOrder[o]: the book of the strategy that placed o
    Side,           \* Side[o]: "buy" or "sell"
    Quantity,       \* Quantity[t]
    Hash,           \* Hash[t]: rank of the hash of its idempotency key
    None,           \* stands for "no trade"
    Overlap,        \* HistoryOverlap
    Bootstrap,      \* HistoryBootstrap
    VisibilityDelay,\* HistoryVisibilityDelay
    Lag,            \* within Lag ticks the exchange lists a trade in its history
    Micros,         \* microseconds per tick
    MaxTime,        \* bound on the clock; executions stop VisibilityDelay before it
    MaxFaults       \* bound on crashes, lost connections and failed calls

ASSUME TradeAssumption ==
    /\ OrderOf \in [Trade -> Order] /\ BookOfOrder \in [Order -> Book]
    /\ Side \in [Order -> {"buy", "sell"}] /\ Quantity \in [Trade -> Nat \ {0}]
    /\ Hash \in [Trade -> Nat] /\ \A t, u \in Trade : Hash[t] = Hash[u] => t = u
    /\ None \notin Trade /\ None \notin Int /\ IsFiniteSet(Trade)
ASSUME TimeAssumption ==
    /\ Overlap \in Nat \ {0} /\ Bootstrap \in Nat \ {0}
    /\ VisibilityDelay \in Nat /\ Lag \in Nat \ {0}
    /\ Micros \in Nat \ {0} /\ MaxTime \in Nat /\ MaxFaults \in Nat
\* The overlap and the delay are chosen to outlast the lag of the history.
ASSUME LagAssumption == Lag <= VisibilityDelay + Overlap

VARIABLES
    (* the exchange *)
    now,            \* its clock, which the agent shares
    executedAt,     \* executedAt[t]: tick of the execution, 0 before it
    accepted,       \* orders it knows
    listed,         \* trades its operation history shows
    (* the connection of this run *)
    connected,      \* the execution stream delivers
    stream,         \* trades delivered and not yet taken by the pump
    (* SQLite: survives a crash *)
    intent,         \* the order's intent and row
    filled,         \* orders.filled_quantity
    inbox,          \* execution_inbox.status, "absent" if no row
    receivedAt,     \* execution_inbox.received_at
    position,       \* positions.quantity
    checkpoint,     \* covered_through of the last history checkpoint, or None
    (* memory of the agent: lost in a crash *)
    pump,           \* where the pump goroutine is
    hand,           \* the trade it is staging
    lastReceived,   \* the reception time it assigned last
    notified,       \* an element is in the notification channel
    pc,             \* where the main goroutine is
    recoveryTo,     \* upper bound of the history window of this start
    toRead,         \* orders of the window whose state is still to be read
    recovered,      \* fills read from the history
    unstaged,       \* those not yet handed to StageExecution
    faults          \* faults so far (bound)

exchange == <<now, executedAt, accepted, listed>>
channel  == <<connected, stream>>
tables   == <<intent, filled, inbox, receivedAt, position, checkpoint>>
pumpVars == <<pump, hand, lastReceived, notified>>
scan     == <<recoveryTo, toRead, recovered, unstaged>>
vars     == <<exchange, channel, tables, pumpVars, pc, scan, faults>>

Executed   == {t \in Trade : executedAt[t] > 0}
Applied    == {t \in Trade : inbox[t] = "applied"}
Pending    == {t \in Trade : inbox[t] = "pending"}
FillsOf(o) == {t \in Trade : OrderOf[t] = o}
BookOf     == [t \in Trade |-> BookOfOrder[OrderOf[t]]]
Signed     == [t \in Trade |-> IF Side[OrderOf[t]] = "buy" THEN Quantity[t] ELSE -Quantity[t]]

Total(S)  == MapThenSumSet(LAMBDA t : Quantity[t], S)
Net(b, S) == MapThenSumSet(LAMBDA t : Signed[t], {t \in S : BookOf[t] = b})

\* An order is placed for exactly what its trades can fill.
Requested(o) == Total(FillsOf(o))

\* lots_executed of the order state the exchange returns now.
Lots(o) == Total(FillsOf(o) \cap Executed)
-----------------------------------------------------------------------------
Drains   == {"drainHistory", "drainStart", "drainLoop"}
Starting == {"resolve", "subscribe", "window", "read", "stage", "drainHistory",
             "commissions", "drainStart", "positions1", "orders1", "advance", "ready", "readyCall",
             "positions2", "orders2"}
Trading  == {"running", "drainLoop", "begin", "call"}

TypeOK ==
    /\ now \in Nat /\ executedAt \in [Trade -> Nat]
    /\ accepted \subseteq Order /\ listed \subseteq Trade
    /\ connected \in BOOLEAN /\ stream \in Seq(Trade)
    /\ intent \in [Order -> {"none", "ready", "submitting", "submitted"}]
    /\ filled \in [Order -> Nat]
    /\ inbox \in [Trade -> {"absent", "pending", "applied"}]
    /\ receivedAt \in [Trade -> Int]
    /\ position \in [Book -> Int]
    /\ checkpoint \in Int \cup {None}
    /\ pump \in {"off", "idle", "held", "staged", "failed"}
    /\ hand \in Trade \cup {None} /\ lastReceived \in Nat /\ notified \in BOOLEAN
    /\ pc \in {"down", "stopped"} \cup Starting \cup Trading
    /\ recoveryTo \in Int
    /\ toRead \subseteq Order /\ recovered \subseteq Trade /\ unstaged \subseteq Trade
    /\ faults \in Nat

Init ==
    /\ now = 0 /\ executedAt = [t \in Trade |-> 0]
    /\ accepted = {} /\ listed = {}
    /\ connected = FALSE /\ stream = <<>>
    /\ intent = [o \in Order |-> "none"] /\ filled = [o \in Order |-> 0]
    /\ inbox = [t \in Trade |-> "absent"] /\ receivedAt = [t \in Trade |-> 0]
    /\ position = [b \in Book |-> 0]
    /\ checkpoint = None
    /\ pump = "off" /\ hand = None /\ lastReceived = 0 /\ notified = FALSE
    /\ pc = "down"
    /\ recoveryTo = 0 /\ toRead = {} /\ recovered = {} /\ unstaged = {}
    /\ faults = 0
-----------------------------------------------------------------------------
(* The exchange *)

\* Time passes, but no further than the lag of an unlisted trade allows.
ClockMayAdvance ==
    /\ now < MaxTime
    /\ \A t \in Executed \ listed : now < executedAt[t] + Lag

Tick ==
    /\ ClockMayAdvance
    /\ now' = now + 1
    /\ UNCHANGED <<executedAt, accepted, listed, channel, tables, pumpVars, pc, scan, faults>>

\* A request that was sent arrives, possibly long after the caller gave up.
Accept(o) ==
    /\ intent[o] = "submitting" /\ o \notin accepted
    /\ accepted' = accepted \cup {o}
    /\ UNCHANGED <<now, executedAt, listed, channel, tables, pumpVars, pc, scan, faults>>

Execute(t) ==
    /\ OrderOf[t] \in accepted /\ executedAt[t] = 0
    /\ Net(BookOf[t], Executed) + Signed[t] >= 0
    /\ ClockMayAdvance /\ now < MaxTime - VisibilityDelay
    /\ now' = now + 1
    /\ executedAt' = [executedAt EXCEPT ![t] = now + 1]
    /\ stream' = IF connected THEN Append(stream, t) ELSE stream
    /\ UNCHANGED <<accepted, listed, connected, tables, pumpVars, pc, scan, faults>>

List(t) ==
    /\ executedAt[t] > 0 /\ t \notin listed
    /\ listed' = listed \cup {t}
    /\ UNCHANGED <<now, executedAt, accepted, channel, tables, pumpVars, pc, scan, faults>>

LoseConnection ==
    /\ connected /\ faults < MaxFaults
    /\ connected' = FALSE /\ faults' = faults + 1
    /\ UNCHANGED <<exchange, stream, tables, pumpVars, pc, scan>>
-----------------------------------------------------------------------------
(* The pump *)

\* Mutant: a repeated delivery sets the row back to pending.
StageAgain(t, at) ==
    /\ inbox' = [inbox EXCEPT ![t] = "pending"]
    /\ receivedAt' = [receivedAt EXCEPT ![t] = at]

\* StageExecution: the first row of a trade wins, a later one is a no-op.
StageExecution(t, at) ==
    /\ inbox' = IF inbox[t] = "absent" THEN [inbox EXCEPT ![t] = "pending"] ELSE inbox
    /\ receivedAt' = IF inbox[t] = "absent" THEN [receivedAt EXCEPT ![t] = at] ELSE receivedAt

\* The mutex is held by a drain from its first to its last row.
MutexFree == pc \notin Drains

\* The reception time, half a tick after the clock, is taken before the mutex
\* and strictly increases.
PumpReceive ==
    /\ pump = "idle" /\ stream # <<>>
    /\ pump' = "held" /\ hand' = Head(stream) /\ stream' = Tail(stream)
    /\ LET at == Micros * now + Micros \div 2
       IN  lastReceived' = IF at > lastReceived THEN at ELSE lastReceived + 1
    /\ UNCHANGED <<exchange, connected, tables, notified, pc, scan, faults>>

\* The owner of a fill is found by the client ID of its intent, so before the
\* order row exists; drains need the row.
OwnerKnown(t) == intent[OrderOf[t]] # "none"
RowStored(o)  == intent[o] = "submitted"

PumpStage ==
    /\ pump = "held" /\ MutexFree
    /\ OwnerKnown(hand)
    /\ StageExecution(hand, lastReceived)
    /\ pump' = "staged"
    /\ UNCHANGED <<exchange, channel, intent, filled, position, checkpoint, hand,
                   lastReceived, notified, pc, scan, faults>>

PumpNotify ==
    /\ pump = "staged"
    /\ pump' = "idle" /\ hand' = None /\ notified' = TRUE
    /\ UNCHANGED <<exchange, channel, tables, lastReceived, pc, scan, faults>>

\* The stream ended: select may take its error before the trades still queued.
PumpSeesEnd ==
    /\ pump = "idle" /\ ~connected
    /\ pump' = "failed"
    /\ UNCHANGED <<exchange, channel, tables, hand, lastReceived, notified, pc, scan, faults>>

\* Attribution or staging fails.
PumpFails ==
    /\ pump = "held" /\ MutexFree
    /\ \/ ~OwnerKnown(hand) /\ UNCHANGED faults
       \/ faults < MaxFaults /\ faults' = faults + 1
    /\ pump' = "failed" /\ hand' = None
    /\ UNCHANGED <<exchange, channel, tables, lastReceived, notified, pc, scan>>
-----------------------------------------------------------------------------
(* Ending a run *)

\* An error ends startup or the loop; the pump lives until the process exits.
Stop == pc' = "stopped"

Die ==
    /\ pc' = "down"
    /\ connected' = FALSE /\ stream' = <<>>
    /\ pump' = "off" /\ hand' = None /\ lastReceived' = 0 /\ notified' = FALSE
    /\ recoveryTo' = 0 /\ toRead' = {} /\ recovered' = {} /\ unstaged' = {}
    /\ UNCHANGED <<exchange, tables>>

Exit  == pc = "stopped" /\ Die /\ UNCHANGED faults
Crash == pc # "down" /\ faults < MaxFaults /\ Die /\ faults' = faults + 1

\* A call to the exchange or to the database fails.
CallFails ==
    /\ pc \in (Starting \cup Trading) \ {"running"}
    /\ faults < MaxFaults
    /\ Stop /\ faults' = faults + 1
    /\ UNCHANGED <<exchange, channel, tables, pumpVars, scan>>
-----------------------------------------------------------------------------
(* Startup: intents, stream, history *)

Start ==
    /\ pc = "down"
    /\ pc' = "resolve"
    /\ UNCHANGED <<exchange, channel, tables, pumpVars, scan, faults>>

\* recordSubmitted copies the filled quantity of the order the exchange returns.
RecordSubmitted(o) ==
    /\ intent' = [intent EXCEPT ![o] = "submitted"]
    /\ filled' = [filled EXCEPT ![o] = Lots(o)]
    /\ UNCHANGED <<inbox, receivedAt, position, checkpoint>>

ResolveIntent(o) ==
    /\ pc = "resolve" /\ intent[o] = "submitting"
    /\ IF o \in accepted
       THEN RecordSubmitted(o) /\ UNCHANGED pc
       ELSE Stop /\ UNCHANGED tables
    /\ UNCHANGED <<exchange, channel, pumpVars, scan, faults>>

ResolveDone ==
    /\ pc = "resolve"
    /\ \A o \in Order : intent[o] # "submitting"
    /\ pc' = "subscribe"
    /\ UNCHANGED <<exchange, channel, tables, pumpVars, scan, faults>>

Subscribe ==
    /\ pc = "subscribe"
    /\ connected' = TRUE /\ stream' = <<>>
    /\ pump' = "idle" /\ hand' = None /\ lastReceived' = 0 /\ notified' = FALSE
    /\ pc' = "window"
    /\ UNCHANGED <<exchange, tables, scan, faults>>

\* Mutant: the window starts where the last one ended.
WindowFromCheckpoint(to) == IF checkpoint = None THEN to - Bootstrap ELSE checkpoint

WindowFrom(to) == IF checkpoint = None THEN to - Bootstrap ELSE checkpoint - Overlap

\* The operation history names the orders with a listed trade in the window.
OpenWindow ==
    /\ pc = "window"
    /\ LET to   == now - VisibilityDelay
           from == WindowFrom(to)
       IN  /\ recoveryTo' = to
           /\ IF from < to
              THEN /\ toRead' = {OrderOf[t] : t \in
                                    {u \in listed : executedAt[u] >= from /\ executedAt[u] <= to}}
                   /\ pc' = "read"
              ELSE Stop /\ UNCHANGED toRead
    /\ UNCHANGED <<exchange, channel, tables, pumpVars, recovered, unstaged, faults>>

\* Mutant: only the first execution of an order is taken.
ReadFirst(o) ==
    /\ pc = "read" /\ o \in toRead
    /\ IF RowStored(o)
       THEN /\ recovered' = recovered \cup
                   {t \in FillsOf(o) \cap Executed :
                       \A u \in FillsOf(o) \cap Executed : executedAt[t] <= executedAt[u]}
            /\ toRead' = toRead \ {o}
            /\ UNCHANGED pc
       ELSE Stop /\ UNCHANGED <<recovered, toRead>>
    /\ UNCHANGED <<exchange, channel, tables, pumpVars, recoveryTo, unstaged, faults>>

\* One order state at a time: all its fills of that moment, listed or not.
ReadOrder(o) ==
    /\ pc = "read" /\ o \in toRead
    /\ IF RowStored(o)
       THEN /\ recovered' = recovered \cup (FillsOf(o) \cap Executed)
            /\ toRead' = toRead \ {o}
            /\ UNCHANGED pc
       ELSE Stop /\ UNCHANGED <<recovered, toRead>>
    /\ UNCHANGED <<exchange, channel, tables, pumpVars, recoveryTo, unstaged, faults>>

\* Mutant: the checkpoint is saved as soon as the window is read.
ReadSaves ==
    /\ pc = "read" /\ toRead = {}
    /\ unstaged' = recovered /\ checkpoint' = recoveryTo
    /\ pc' = "stage"
    /\ UNCHANGED <<exchange, channel, intent, filled, inbox, receivedAt, position, pumpVars,
                   recoveryTo, toRead, recovered, faults>>

ReadDone ==
    /\ pc = "read" /\ toRead = {}
    /\ unstaged' = recovered
    /\ pc' = "stage"
    /\ UNCHANGED <<exchange, channel, tables, pumpVars, recoveryTo, toRead, recovered, faults>>

\* In order of execution; the index in that order is added in microseconds.
StageHistory(t) ==
    /\ pc = "stage" /\ t \in unstaged
    /\ \A u \in unstaged : executedAt[t] <= executedAt[u]
    /\ StageExecution(t, Micros * recoveryTo + Cardinality(recovered \ unstaged))
    /\ unstaged' = unstaged \ {t}
    /\ UNCHANGED <<exchange, channel, intent, filled, position, checkpoint, pumpVars, pc,
                   recoveryTo, toRead, recovered, faults>>

StageDone ==
    /\ pc = "stage" /\ unstaged = {}
    /\ pc' = "drainHistory"
    /\ UNCHANGED <<exchange, channel, tables, pumpVars, scan, faults>>
-----------------------------------------------------------------------------
(* The drain *)

\* ORDER BY received_at, then the hash of the key.
Before(t, u) ==
    \/ receivedAt[t] < receivedAt[u]
    \/ receivedAt[t] = receivedAt[u] /\ Hash[t] <= Hash[u]
Oldest(t) == t \in Pending /\ \A u \in Pending : Before(t, u)

\* The checks of applyExecutionProjection and applyPosition.
Applicable(t) ==
    /\ RowStored(OrderOf[t])
    /\ Total(FillsOf(OrderOf[t]) \cap (Applied \cup {t})) <= Requested(OrderOf[t])
    /\ position[BookOf[t]] + Signed[t] >= 0

\* max(filled_quantity, sum of the stored executions and this one).
FilledWith(t) ==
    LET o == OrderOf[t]
    IN  Max({filled[o], Total(FillsOf(o) \cap (Applied \cup {t}))})

\* ApplyStagedExecution: one transaction over the row and its projections.
ApplyExecution(t) ==
    /\ pc \in Drains
    /\ Oldest(t) /\ Applicable(t)
    /\ inbox' = [inbox EXCEPT ![t] = "applied"]
    /\ filled' = [filled EXCEPT ![OrderOf[t]] = FilledWith(t)]
    /\ position' = [position EXCEPT ![BookOf[t]] = @ + Signed[t]]
    /\ UNCHANGED <<exchange, channel, intent, receivedAt, checkpoint, pumpVars, pc, scan, faults>>

\* The first error ends the drain; the row and those behind it stay pending.
DrainFails(t) ==
    /\ pc \in Drains
    /\ Oldest(t) /\ ~Applicable(t)
    /\ Stop
    /\ UNCHANGED <<exchange, channel, tables, pumpVars, scan, faults>>

DrainDone ==
    /\ pc \in Drains /\ Pending = {}
    /\ pc' = CASE pc = "drainHistory" -> "commissions"
               [] pc = "drainStart" -> "positions1"
               [] OTHER -> "running"
    /\ UNCHANGED <<exchange, channel, tables, pumpVars, scan, faults>>

\* The mutex is free while commissions are applied: the pump may stage again
\* before the second drain takes it.
DrainAgain ==
    /\ pc = "commissions"
    /\ pc' = "drainStart"
    /\ UNCHANGED <<exchange, channel, tables, pumpVars, scan, faults>>
-----------------------------------------------------------------------------
(* Reconciliation and the rest of startup *)

\* Mutant: a position smaller than the exchange's passes.
CompareBelow ==
    /\ pc \in {"positions1", "positions2"}
    /\ IF \A b \in Book : position[b] <= Net(b, Executed)
       THEN pc' = IF pc = "positions1" THEN "orders1" ELSE "orders2"
       ELSE Stop
    /\ UNCHANGED <<exchange, channel, tables, pumpVars, scan, faults>>

ComparePositions ==
    /\ pc \in {"positions1", "positions2"}
    /\ IF \A b \in Book : position[b] = Net(b, Executed)
       THEN pc' = IF pc = "positions1" THEN "orders1" ELSE "orders2"
       ELSE Stop
    /\ UNCHANGED <<exchange, channel, tables, pumpVars, scan, faults>>

OpenHere(o)  == RowStored(o) /\ filled[o] < Requested(o)
OpenThere(o) == o \in accepted /\ Lots(o) < Requested(o)

CompareOrders ==
    /\ pc \in {"orders1", "orders2"}
    /\ IF \A o \in Order : /\ OpenHere(o) <=> OpenThere(o)
                           /\ OpenHere(o) => filled[o] = Lots(o)
       THEN pc' = IF pc = "orders1" THEN "advance" ELSE "running"
       ELSE Stop
    /\ UNCHANGED <<exchange, channel, tables, pumpVars, scan, faults>>

AdvanceCheckpoint ==
    /\ pc = "advance"
    /\ IF checkpoint # None /\ recoveryTo < checkpoint
       THEN Stop /\ UNCHANGED checkpoint
       ELSE pc' = "ready" /\ checkpoint' = recoveryTo
    /\ UNCHANGED <<exchange, channel, intent, filled, inbox, receivedAt, position, pumpVars,
                   scan, faults>>

ReadyDone ==
    /\ pc = "ready"
    /\ \A o \in Order : intent[o] # "ready"
    /\ pc' = "positions2"
    /\ UNCHANGED <<exchange, channel, tables, pumpVars, scan, faults>>
-----------------------------------------------------------------------------
(* Orders: a new one in the loop, a ready one left by a crash at startup *)

NewIntent(o) ==
    /\ pc = "running" /\ intent[o] = "none"
    /\ intent' = [intent EXCEPT ![o] = "ready"]
    /\ pc' = "begin"
    /\ UNCHANGED <<exchange, channel, filled, inbox, receivedAt, position, checkpoint,
                   pumpVars, scan, faults>>

BeginSubmission(o) ==
    /\ pc \in {"ready", "begin"} /\ intent[o] = "ready"
    /\ intent' = [intent EXCEPT ![o] = "submitting"]
    /\ pc' = IF pc = "ready" THEN "readyCall" ELSE "call"
    /\ UNCHANGED <<exchange, channel, filled, inbox, receivedAt, position, checkpoint,
                   pumpVars, scan, faults>>

Placed(o) ==
    /\ pc \in {"readyCall", "call"} /\ intent[o] = "submitting" /\ o \in accepted
    /\ RecordSubmitted(o)
    /\ pc' = IF pc = "readyCall" THEN "ready" ELSE "running"
    /\ UNCHANGED <<exchange, channel, pumpVars, scan, faults>>
-----------------------------------------------------------------------------
(* The loop *)

TakeNotification ==
    /\ pc = "running" /\ notified
    /\ notified' = FALSE /\ pc' = "drainLoop"
    /\ UNCHANGED <<exchange, channel, tables, pump, hand, lastReceived, scan, faults>>

PumpErrorSeen ==
    /\ pc = "running" /\ pump = "failed"
    /\ Stop
    /\ UNCHANGED <<exchange, channel, tables, pumpVars, scan, faults>>
-----------------------------------------------------------------------------
Exchange ==
    \/ Tick \/ LoseConnection
    \/ \E o \in Order : Accept(o)
    \/ \E t \in Trade : Execute(t) \/ List(t)

Pump == PumpReceive \/ PumpStage \/ PumpNotify \/ PumpSeesEnd \/ PumpFails

History ==
    \/ OpenWindow \/ ReadDone \/ StageDone
    \/ \E o \in Order : ReadOrder(o)
    \/ \E t \in Trade : StageHistory(t)

Drain == DrainDone \/ DrainAgain \/ \E t \in Trade : ApplyExecution(t) \/ DrainFails(t)

Reconcile == ComparePositions \/ CompareOrders \/ AdvanceCheckpoint

\* What the main goroutine does by itself; a strategy decides on NewIntent.
Main ==
    \/ Start \/ ResolveDone \/ Subscribe \/ History \/ Drain \/ Reconcile \/ ReadyDone
    \/ TakeNotification \/ PumpErrorSeen \/ Exit
    \/ \E o \in Order : ResolveIntent(o) \/ BeginSubmission(o) \/ Placed(o)

Next == Exchange \/ Pump \/ Main \/ Crash \/ CallFails \/ \E o \in Order : NewIntent(o)

Spec == Init /\ [][Next]_vars
-----------------------------------------------------------------------------
(* Correctness *)

\* Every position is made of executed trades, each applied once, and startup,
\* restarts and repeated delivery never show through (fill.go:18-190).
Ledger == INSTANCE ExecutionLedger WITH executed <- Executed, applied <- Applied
KeepsTheLedger == Ledger!Spec

\* No trade older than the part of the window the next start reads again is
\* missing from the inbox: checkpoint, overlap and visibility delay together
\* cover trades the stream lost and the history lists late; an order exists
\* only after the first checkpoint, so the bootstrap window never has to.
ScansOverlap ==
    /\ accepted # {} => checkpoint # None
    /\ \A t \in Executed :
          checkpoint # None /\ executedAt[t] < checkpoint - Overlap => inbox[t] # "absent"

\* What the pump may stage by client ID while PlaceOrder is in flight is
\* resolved before any drain.
DrainFindsTheOrder ==
    pc \in Drains => \A t \in Pending : RowStored(OrderOf[t])

\* A fill staged while the loop runs is announced, is being announced, or its
\* notification is the drain in progress.
FillsAreAnnounced ==
    pc \in Trading \ {"drainLoop"} /\ Pending # {} => notified \/ pump = "staged"

\* An execution that is not applied is still going to be read again, or it is
\* staged, with its order row known to the drain and the loop told of it
\* (execution_ingress.go:62-80, 109-113, startup.go:45-91, fill.go:77-83).
NoExecutionIsForgotten ==
    TypeOK /\ ScansOverlap /\ DrainFindsTheOrder /\ FillsAreAnnounced

Missing == {t \in Executed : inbox[t] = "absent"}
OnItsWay == {t \in Missing : t = hand \/ \E i \in 1 .. Len(stream) : stream[i] = t}

\* While the market loop trades on an open stream, the exchange's position is
\* the stored one plus the fills staged or still in the stream: what two
\* reconciliations with unsynchronised snapshots are there for
\* (reconcile.go:39-77, startup.go:74-96).
TradingOnTheTruePosition ==
    pc \in Trading /\ connected /\ pump # "failed" =>
        \A b \in Book : Net(b, Executed) = position[b] + Net(b, Pending \cup OnItsWay)

\* The checkpoint moves forward only, and only once all the history of its
\* window is applied (startup.go:66-83).
CheckpointFollowsTheScan ==
    [][checkpoint' # checkpoint =>
           /\ recovered \subseteq Applied
           /\ checkpoint = None \/ checkpoint < checkpoint']_vars

\* Every execution is applied some day, if the agent is restarted whenever it
\* stops and the requests it sent reach the exchange.
Fairness ==
    /\ WF_vars(Main) /\ WF_vars(Pump) /\ WF_vars(Tick)
    /\ \A o \in Order : WF_vars(Accept(o))
    /\ \A t \in Trade : WF_vars(List(t))
LiveSpec == Spec /\ Fairness

EveryExecutionIsApplied ==
    \A t \in Trade : executedAt[t] > 0 ~> inbox[t] = "applied"
=============================================================================
