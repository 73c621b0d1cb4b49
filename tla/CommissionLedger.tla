-------------------------- MODULE CommissionLedger --------------------------
(***************************************************************************)
(* The commission of an order reaches the database twice: as the share the *)
(* adapter gives every fill of the stream, and as the cumulative amount of *)
(* an order snapshot of the history.  internal/storage/sqlite keeps one    *)
(* cumulative amount per order and books only what exceeds it into the     *)
(* statistics of a trading day.                                            *)
(*                                                                         *)
(* Every trade is one lot.  The exchange charges Rate[t] for it at the     *)
(* moment of execution, so its cumulative commission never falls.  Trades  *)
(* of the past may come from a database older than order_commissions.      *)
(***************************************************************************)
EXTENDS Integers, FiniteSets, FiniteSetsExt

CONSTANTS
    OrderID,
    Trade,
    Day,            \* trading days, numbered
    OrderOf,        \* OrderOf[t]: the order trade t fills
    DayOf,          \* DayOf[t]: the trading day trade t falls on
    Rate,           \* Rate[t]: what the exchange charges for it
    Nothing,        \* no row, or nothing in flight
    MaxFaults       \* bound on restarts and lost deliveries

ASSUME LedgerAssumption ==
    /\ IsFiniteSet(OrderID) /\ IsFiniteSet(Trade) /\ IsFiniteSet(Day) /\ Day \subseteq Nat
    /\ OrderOf \in [Trade -> OrderID] /\ DayOf \in [Trade -> Day]
    /\ Rate \in [Trade -> Nat] /\ Nothing \notin Nat /\ MaxFaults \in Nat

VARIABLES
    executed,       \* trades the exchange executed
    streamed,       \* streamed[t]: share of a fill on its way to the pump, or Nothing
    inbox,          \* execution_inbox.status, "absent" if no row
    share,          \* share[t]: commission_amount of the staged fill
    cumulative,     \* order_commissions.cumulative_amount, Nothing if no row
    daily,          \* daily_statistics.commissions
    pc,             \* where the main goroutine is
    snapshot,       \* snapshot[o]: cumulative commission the scan read
    recovered,      \* fills the scan read
    unstaged,       \* those not staged yet
    uncharged,      \* orders of the scan whose commission is not applied yet
    faults

tables     == <<inbox, share, cumulative, daily>>
scan       == <<snapshot, recovered, unstaged, uncharged>>
ledgerVars == <<executed, streamed, tables, pc, scan, faults>>

FillsOf(o)    == {t \in Trade : OrderOf[t] = o}
AppliedOf(o)  == {t \in FillsOf(o) : inbox[t] = "applied"}
ExecutedOf(o) == FillsOf(o) \cap executed
LargerOf(a, b) == IF a > b THEN a ELSE b

\* What the members of S amount to.
SumOfAll(amount, S) == MapThenSumSet(LAMBDA x : amount[x], S)

\* executed_commission of an order whose trades in S are executed.
Charged(S) == SumOfAll(Rate, S)

\* persistedOrderCommission over the trades in S.
Shares(S) == SumOfAll(share, S)

\* Mutant: every fill gets the commission of the whole order.
ShareUndivided(o) == Charged(ExecutedOf(o))

\* commission * quantity / total executed, rounded half up.
ShareNow(o) ==
    LET n == Cardinality(ExecutedOf(o))
    IN  (2 * Charged(ExecutedOf(o)) + n) \div (2 * n)

LedgerTypeOK ==
    /\ executed \subseteq Trade
    /\ streamed \in [Trade -> Nat \cup {Nothing}]
    /\ inbox \in [Trade -> {"absent", "pending", "applied"}]
    /\ share \in [Trade -> Nat]
    /\ cumulative \in [OrderID -> Nat \cup {Nothing}]
    /\ daily \in [Day -> Nat]
    /\ pc \in {"down", "read", "stage", "drain", "charge", "running", "blocked"}
    /\ snapshot \in [OrderID -> Nat]
    /\ recovered \subseteq Trade /\ unstaged \subseteq Trade /\ uncharged \subseteq OrderID
    /\ faults \in Nat

\* Trades of an older database are applied, their commission is booked, and no
\* row holds the cumulative amount yet.
LedgerInit ==
    /\ executed \in SUBSET Trade
    /\ streamed = [t \in Trade |-> Nothing]
    /\ inbox = [t \in Trade |-> IF t \in executed THEN "applied" ELSE "absent"]
    /\ share = [t \in Trade |-> IF t \in executed THEN Rate[t] ELSE 0]
    /\ cumulative = [o \in OrderID |-> Nothing]
    /\ daily = [d \in Day |-> Charged({t \in executed : DayOf[t] = d})]
    /\ pc = "down"
    /\ snapshot = [o \in OrderID |-> 0]
    /\ recovered = {} /\ unstaged = {} /\ uncharged = {}
    /\ faults = 0
-----------------------------------------------------------------------------
(* The exchange and its stream *)

Execute(t) ==
    /\ t \notin executed
    /\ \A u \in executed : DayOf[u] <= DayOf[t]
    /\ executed' = executed \cup {t}
    /\ UNCHANGED <<streamed, tables, pc, scan, faults>>

\* The adapter reads the order state when the trade arrives, which may be long
\* after its execution.
Receive(t) ==
    /\ pc # "down" /\ pc # "blocked"
    /\ t \in executed /\ inbox[t] = "absent" /\ streamed[t] = Nothing
    /\ streamed' = [streamed EXCEPT ![t] = ShareNow(OrderOf[t])]
    /\ UNCHANGED <<executed, tables, pc, scan, faults>>

\* The first row of a trade keeps its commission; the checksum ignores it.
StageExecution(t, amount) ==
    /\ inbox' = IF inbox[t] = "absent" THEN [inbox EXCEPT ![t] = "pending"] ELSE inbox
    /\ share' = IF inbox[t] = "absent" THEN [share EXCEPT ![t] = amount] ELSE share
    /\ UNCHANGED <<cumulative, daily>>

PumpStage(t) ==
    /\ streamed[t] # Nothing /\ pc # "drain"
    /\ StageExecution(t, streamed[t])
    /\ streamed' = [streamed EXCEPT ![t] = Nothing]
    /\ UNCHANGED <<executed, pc, scan, faults>>
-----------------------------------------------------------------------------
(* History at startup *)

Start ==
    /\ pc = "down"
    /\ pc' = "read" /\ snapshot' = [o \in OrderID |-> 0]
    /\ recovered' = {} /\ unstaged' = {} /\ uncharged' = {}
    /\ UNCHANGED <<executed, streamed, tables, faults>>

\* The window names some of the orders with an execution.
ReadOrder(o) ==
    /\ pc = "read" /\ o \notin uncharged /\ ExecutedOf(o) # {}
    /\ snapshot' = [snapshot EXCEPT ![o] = Charged(ExecutedOf(o))]
    /\ recovered' = recovered \cup ExecutedOf(o)
    /\ unstaged' = unstaged \cup ExecutedOf(o)
    /\ uncharged' = uncharged \cup {o}
    /\ UNCHANGED <<executed, streamed, tables, pc, faults>>

ReadDone ==
    /\ pc = "read"
    /\ pc' = "stage"
    /\ UNCHANGED <<executed, streamed, tables, scan, faults>>

\* A fill of the history carries no commission of its own.
StageHistory(t) ==
    /\ pc = "stage" /\ t \in unstaged
    /\ StageExecution(t, 0)
    /\ unstaged' = unstaged \ {t}
    /\ UNCHANGED <<executed, streamed, pc, snapshot, recovered, uncharged, faults>>

StageDone ==
    /\ pc = "stage" /\ unstaged = {}
    /\ pc' = "drain"
    /\ UNCHANGED <<executed, streamed, tables, scan, faults>>

DrainDone ==
    /\ pc = "drain" /\ \A t \in Trade : inbox[t] # "pending"
    /\ pc' = "charge"
    /\ UNCHANGED <<executed, streamed, tables, scan, faults>>
-----------------------------------------------------------------------------
(* The ledger *)

\* The stored amount; a missing row is created from the fills stored so far.
Current(o) == IF cumulative[o] = Nothing THEN Shares(AppliedOf(o)) ELSE cumulative[o]

\* Mutant: the statistics of the day are replaced instead of added to.
BookReplaces(day, delta) == daily' = [daily EXCEPT ![day] = delta]

Book(day, delta) == daily' = [daily EXCEPT ![day] = @ + delta]

\* The sum of the fills' shares advances the stored amount if it exceeds it.
SynchronizeExecution(t) ==
    LET o      == OrderOf[t]
        target == Shares(AppliedOf(o) \cup {t})
        next   == LargerOf(Current(o), target)
    IN  /\ pc \in {"drain", "running"} /\ inbox[t] = "pending"
        /\ inbox' = [inbox EXCEPT ![t] = "applied"]
        /\ cumulative' = [cumulative EXCEPT ![o] = next]
        /\ Book(DayOf[t], next - Current(o))
        /\ UNCHANGED <<executed, streamed, share, pc, scan, faults>>

LastDay(o) == Max({DayOf[t] : t \in FillsOf(o) \cap recovered})

\* Mutant: an amount below the stored one is written as well.
ApplyAnyCumulative(o) ==
    /\ pc = "charge" /\ o \in uncharged
    /\ uncharged' = uncharged \ {o}
    /\ cumulative' = [cumulative EXCEPT ![o] = snapshot[o]]
    /\ Book(LastDay(o), snapshot[o] - Current(o))
    /\ UNCHANGED <<executed, streamed, inbox, share, pc, snapshot, recovered, unstaged, faults>>

\* A zero amount is skipped; one below the stored amount is refused.
ApplyCumulative(o) ==
    /\ pc = "charge" /\ o \in uncharged
    /\ snapshot[o] = 0 \/ snapshot[o] >= Current(o)
    /\ uncharged' = uncharged \ {o}
    /\ IF snapshot[o] = 0
       THEN UNCHANGED <<cumulative, daily>>
       ELSE /\ cumulative' = [cumulative EXCEPT ![o] = snapshot[o]]
            /\ Book(LastDay(o), snapshot[o] - Current(o))
    /\ UNCHANGED <<executed, streamed, inbox, share, pc, snapshot, recovered, unstaged, faults>>

RefuseCumulative(o) ==
    /\ pc = "charge" /\ o \in uncharged
    /\ snapshot[o] # 0 /\ snapshot[o] < Current(o)
    /\ pc' = "blocked"
    /\ UNCHANGED <<executed, streamed, tables, scan, faults>>

ChargeDone ==
    /\ pc = "charge" /\ uncharged = {}
    /\ pc' = "running"
    /\ UNCHANGED <<executed, streamed, tables, scan, faults>>

\* A crash or a stop at any point: what is on the stream is lost.
Stop ==
    /\ pc # "down" /\ faults < MaxFaults
    /\ pc' = "down" /\ faults' = faults + 1
    /\ streamed' = [t \in Trade |-> Nothing]
    /\ UNCHANGED <<executed, tables, scan>>
-----------------------------------------------------------------------------
LedgerNext ==
    \/ Start \/ ReadDone \/ StageDone \/ DrainDone \/ ChargeDone \/ Stop
    \/ \E t \in Trade : \/ Execute(t) \/ Receive(t) \/ PumpStage(t)
                        \/ StageHistory(t) \/ SynchronizeExecution(t)
    \/ \E o \in OrderID : ReadOrder(o) \/ ApplyCumulative(o) \/ RefuseCumulative(o)

LedgerSpec == LedgerInit /\ [][LedgerNext]_ledgerVars
-----------------------------------------------------------------------------
(* Correctness *)

\* What the orders cost, one by one.
Amounts == [o \in OrderID |-> Current(o)]

\* The trading days hold exactly the commission the orders' rows hold, through
\* both sources, repeated scans, restarts and the rows created for an older
\* database (commission.go:84-108, 168-189, 191-231).
BooksAgree ==
    /\ LedgerTypeOK
    /\ SumOfAll(daily, Day) = SumOfAll(Amounts, OrderID)

\* An order's amount only grows, and only to a total that fills or the
\* exchange really reported: no combination of the two (commission.go:122-142).
AmountIsReported ==
    [][\A o \in OrderID :
          cumulative'[o] # cumulative[o] =>
              /\ cumulative'[o] >= Current(o)
              /\ cumulative'[o] \in {snapshot[o], Current(o), Shares(AppliedOf(o)')}]_ledgerVars

\* Every lot of the order costs the same.
OneRate(o) == \A t, u \in Trade : OrderOf[t] = o /\ OrderOf[u] = o => Rate[t] = Rate[u]

\* "Cumulative commission is stored separately so as to apply only the positive
\* delta and not to count commission twice" (docs/architecture/overview.md:144):
\* once startup is over, at least what its scan has read is booked
\* (execution_ingress.go:182-200), and an order whose lots cost the same is
\* never booked with more than the exchange charged for it.  Otherwise the share
\* the exchange splits off evenly may come to more than what it charges in the
\* end (commission.go:122-142).
BookedAsCharged ==
    \A o \in OrderID :
        /\ pc = "running" => Current(o) >= snapshot[o]
        /\ OneRate(o) => Current(o) <= Charged(ExecutedOf(o))
=============================================================================
