----------------------------- MODULE SmokeTest -----------------------------
(***************************************************************************)
(* The sandbox smoke test of internal/cli/account_smoke.go: it buys, waits *)
(* for the fill, sells, waits again, and on any failure after the buy was  *)
(* sent it tries to leave the account flat.  It runs against the account's *)
(* orders (external), whose states GetOrder shows with a lag.              *)
(*                                                                         *)
(* Nobody else trades on the account, and it may hold a short position.    *)
(***************************************************************************)
EXTENDS Integers, FiniteSets

CONSTANTS
    Quantity,       \* what the test buys and sells
    Resting,        \* orders that need not be filled by the time they are placed
    Unreliable      \* TRUE: GetOrder may fail, or not know an order yet

Name == {"buy", "sell", "cleanup"}

ASSUME SmokeTestAssumption ==
    Quantity \in Nat \ {0} /\ Resting \subseteq Name /\ Unreliable \in BOOLEAN

VARIABLES
    call,           \* the call the test makes next
    order,          \* the account's orders: [state, size, filled]
    view,           \* the state of each order GetOrder answers with
    events,         \* fills on the execution stream not received yet
    received,       \* quantity the wait for an order has seen
    buyID,          \* the test knows the exchange's id of its buy
    rest,           \* the position the cleanup has read
    cancels,        \* CancelOrder calls for the buy
    unread          \* the cleanup could not read the state of the buy

smokeVars == <<call, order, view, events, received, buyID, rest, cancels, unread>>

State == {"none", "inflight", "lost", "accepted", "filled", "cancelled", "rejected"}
Terminal == {"filled", "cancelled", "rejected"}

Main    == {"flat", "noOrders", "subscribe", "buy", "buyLookup", "buyWait", "bought",
            "sell", "sellLookup", "sellWait", "finalPosition", "finalOrders"}
Cleanup == {"resolve", "buyState", "cancel", "observe", "position", "sellRest",
            "restLookup", "restWait", "verifyPosition", "verifyOrders"}
Ended   == {"failed", "ok", "clean", "dirty"}

SmokeTypeOK ==
    /\ call \in Main \cup Cleanup \cup Ended
    /\ order \in [Name -> [state : State, size : 0 .. Quantity, filled : 0 .. Quantity]]
    /\ view \in [Name -> State]
    /\ events \in [Name -> 0 .. Quantity] /\ received \in 0 .. Quantity
    /\ buyID \in BOOLEAN /\ rest \in 0 .. Quantity /\ cancels \in Nat
    /\ unread \in BOOLEAN

SmokeInit ==
    /\ call = "flat"
    /\ order = [o \in Name |-> [state |-> "none", size |-> 0, filled |-> 0]]
    /\ view = [o \in Name |-> "none"]
    /\ events = [o \in Name |-> 0]
    /\ received = 0 /\ buyID = FALSE /\ rest = 0 /\ cancels = 0
    /\ unread = FALSE

Position == order["buy"].filled - order["sell"].filled - order["cleanup"].filled
OpenOrders == {o \in Name : order[o].state = "accepted"}

-----------------------------------------------------------------------------
(* The account.                                                             *)

\* A fill, and its event on the stream.
Fill(o, quantity) ==
    /\ order[o].state = "accepted" /\ quantity \in 1 .. order[o].size - order[o].filled
    /\ LET filled == order[o].filled + quantity IN
         order' = [order EXCEPT ![o] =
                     [state |-> IF filled = order[o].size THEN "filled" ELSE "accepted",
                      size |-> order[o].size, filled |-> filled]]
    /\ events' = [events EXCEPT ![o] = @ + quantity]
    /\ UNCHANGED <<call, view, received, buyID, rest, cancels, unread>>

\* The exchange ends an order, perhaps by a cancellation that came late.
EndOrder(o) ==
    /\ order[o].state = "accepted" /\ o \in Resting
    /\ \E state \in {"cancelled", "rejected"} :
         /\ state = "rejected" => order[o].filled = 0
         /\ order' = [order EXCEPT ![o].state = state]
    /\ UNCHANGED <<call, view, events, received, buyID, rest, cancels, unread>>

\* What GetOrder shows of an order the exchange has just accepted.
Appears(o, state) == view' = IF Unreliable THEN view ELSE [view EXCEPT ![o] = state]

\* A request whose answer was lost reaches the exchange.
Arrive(o) ==
    /\ order[o].state = "inflight"
    /\ order' = [order EXCEPT ![o].state = "accepted"]
    /\ Appears(o, "accepted")
    /\ UNCHANGED <<call, events, received, buyID, rest, cancels, unread>>

\* GetOrder catches up with the order.
Sync(o) ==
    /\ view[o] # order[o].state /\ order[o].state \notin {"inflight", "lost"}
    /\ view' = [view EXCEPT ![o] = order[o].state]
    /\ UNCHANGED <<call, order, events, received, buyID, rest, cancels, unread>>

-----------------------------------------------------------------------------
(* Calls of the test.                                                       *)

Proceed(from, to) == call = from /\ call' = to
account == <<order, view, events>>

\* PlaceOrder has reached the exchange: an order that does not rest is filled.
Placed(o, size) ==
    IF o \in Resting
      THEN /\ order' = [order EXCEPT ![o] = [state |-> "accepted", size |-> size, filled |-> 0]]
           /\ Appears(o, "accepted") /\ UNCHANGED events
      ELSE /\ order' = [order EXCEPT ![o] = [state |-> "filled", size |-> size, filled |-> size]]
           /\ Appears(o, "filled") /\ events' = [events EXCEPT ![o] = size]

\* placeSmokeOrder with an answer.
PlaceOrder(o, size, from, to) ==
    /\ Proceed(from, to) /\ Placed(o, size)
    /\ received' = 0 /\ buyID' = (buyID \/ o = "buy")
    /\ UNCHANGED <<rest, cancels, unread>>

\* The outcome is unknown: applied, on its way, or lost.
PlaceUnknown(o, size, from, lookup) ==
    /\ Proceed(from, lookup)
    /\ \/ Placed(o, size)
       \/ /\ \E state \in {"lost"} \cup (IF o \in Resting THEN {"inflight"} ELSE {}) :
               order' = [order EXCEPT ![o] = [state |-> state, size |-> size, filled |-> 0]]
          /\ UNCHANGED <<view, events>>
    /\ received' = 0
    /\ UNCHANGED <<buyID, rest, cancels, unread>>

\* GetOrderByClientID finds it.
Lookup(o, from, to) ==
    /\ Proceed(from, to) /\ order[o].state \notin {"none", "inflight", "lost"}
    /\ buyID' = (buyID \/ o = "buy")
    /\ UNCHANGED <<account, received, rest, cancels, unread>>

\* waitSmokeFill: an execution of the order.
Receive(o, at) ==
    /\ call = at /\ events[o] > 0
    /\ received' = received + events[o]
    /\ events' = [events EXCEPT ![o] = 0]
    /\ UNCHANGED <<call, order, view, buyID, rest, cancels, unread>>

\* waitSmokeFill: the order is filled and its executions add up.
FillSeen(o, from, to) ==
    /\ Proceed(from, to) /\ view[o] = "filled" /\ received = order[o].size
    /\ UNCHANGED <<account, received, buyID, rest, cancels, unread>>

\* A read whose result lets the test go on.
Check(condition, from, to) ==
    /\ Proceed(from, to) /\ condition
    /\ UNCHANGED <<account, received, buyID, rest, cancels, unread>>

\* Any call fails, answers otherwise than wanted, or the time is over.
Fail ==
    /\ call \in Main
    /\ call' = IF call \in {"flat", "noOrders", "subscribe"} THEN "failed"
             ELSE IF buyID THEN "buyState" ELSE "resolve"
    /\ UNCHANGED <<account, received, buyID, rest, cancels, unread>>

RunSandboxSmokeTest ==
    \/ Check(Position = 0, "flat", "noOrders")
    \/ Check(OpenOrders = {}, "noOrders", "subscribe")
    \/ Check(TRUE, "subscribe", "buy")
    \/ PlaceOrder("buy", Quantity, "buy", "buyWait")
    \/ PlaceUnknown("buy", Quantity, "buy", "buyLookup")
    \/ Lookup("buy", "buyLookup", "buyWait")
    \/ Receive("buy", "buyWait")
    \/ FillSeen("buy", "buyWait", "bought")
    \/ Check(Position = Quantity, "bought", "sell")
    \/ PlaceOrder("sell", Quantity, "sell", "sellWait")
    \/ PlaceUnknown("sell", Quantity, "sell", "sellLookup")
    \/ Lookup("sell", "sellLookup", "sellWait")
    \/ Receive("sell", "sellWait")
    \/ FillSeen("sell", "sellWait", "finalPosition")
    \/ Check(Position = 0, "finalPosition", "finalOrders")
    \/ Check(OpenOrders = {}, "finalOrders", "ok")
    \/ Fail

-----------------------------------------------------------------------------
(* cleanupSmokePosition.                                                    *)

\* Mutant: an open buy is not cancelled.
BuyStateIgnored == Check(view["buy"] # "none", "buyState", "position")

\* The state of the buy as GetOrder shows it decides on the cancellation.
BuyState ==
    \/ Check(view["buy"] = "accepted", "buyState", "cancel")
    \/ Check(view["buy"] \in Terminal, "buyState", "position")

\* An error of this GetOrder is not one of the cleanup: it goes on.
BuyStateUnread ==
    /\ Proceed("buyState", "position") /\ Unreliable
    /\ unread' = TRUE
    /\ UNCHANGED <<account, received, buyID, rest, cancels>>

\* CancelOrder reached the exchange: answered, or with an unknown outcome.
CancelBuy ==
    /\ Proceed("cancel", "observe") /\ order["buy"].state = "accepted"
    /\ order' = [order EXCEPT !["buy"].state = "cancelled"]
    /\ cancels' = cancels + 1
    /\ UNCHANGED <<view, events, received, buyID, rest, unread>>

\* It did not, or came late, and the outcome is unknown.
CancelUnknown ==
    /\ Proceed("cancel", "observe")
    /\ cancels' = cancels + 1
    /\ UNCHANGED <<account, received, buyID, rest, unread>>

\* cancelOnceAndObserve reads the order until it shows a terminal state.
Observe ==
    Check(view["buy"] \in Terminal, "observe", "position")

\* The position decides: there is nothing to sell, or a part of the buy.
NothingLeft == Check(Position = 0, "position", "verifyPosition")

\* Mutant: it sells what was to be bought.
ReadQuantity ==
    /\ Proceed("position", "sellRest") /\ Position \in 1 .. Quantity
    /\ rest' = Quantity
    /\ UNCHANGED <<account, received, buyID, cancels, unread>>

ReadRest ==
    /\ Proceed("position", "sellRest") /\ Position \in 1 .. Quantity
    /\ rest' = Position
    /\ UNCHANGED <<account, received, buyID, cancels, unread>>

\* waitOrderTerminal: only a filled sell goes on.
RestSold == Check(view["cleanup"] = "filled", "restWait", "verifyPosition")

\* Mutant: observing the cancellation has no deadline.
ObservesForEver ==
    /\ call \in Cleanup \ {"observe"} /\ call' = "dirty"
    /\ UNCHANGED <<account, received, buyID, rest, cancels, unread>>

\* A call fails, the state is not the wanted one, or the deadline is over.
CleanupFails ==
    /\ call \in Cleanup /\ call' = "dirty"
    /\ UNCHANGED <<account, received, buyID, rest, cancels, unread>>

CleanupSmokePosition ==
    \/ Lookup("buy", "resolve", "buyState")
    \/ BuyState \/ BuyStateUnread \/ CancelBuy \/ CancelUnknown \/ Observe
    \/ NothingLeft \/ ReadRest
    \/ PlaceOrder("cleanup", rest, "sellRest", "restWait")
    \/ PlaceUnknown("cleanup", rest, "sellRest", "restLookup")
    \/ Lookup("cleanup", "restLookup", "restWait")
    \/ RestSold
    \/ Check(Position = 0, "verifyPosition", "verifyOrders")
    \/ Check(OpenOrders = {}, "verifyOrders", "clean")
    \/ CleanupFails

-----------------------------------------------------------------------------
Step == RunSandboxSmokeTest \/ CleanupSmokePosition

Account == \E o \in Name : \/ \E quantity \in 1 .. Quantity : Fill(o, quantity)
                           \/ EndOrder(o) \/ Arrive(o) \/ Sync(o)

SmokeNext == Step \/ Account
SmokeSpec == SmokeInit /\ [][SmokeNext]_smokeVars

\* Every wait ends at its deadline, whatever the account does.
SmokeLiveSpec == SmokeSpec /\ WF_smokeVars(Step)

-----------------------------------------------------------------------------
\* A test that reports success, at once or after its cleanup, has left the
\* account flat: nothing is held and nothing can still be filled.  The cleanup
\* knows that much only of a buy whose state it could read, and only if the
\* test's own sell was not sent yet: it does not look for that order.
CleanReportIsFlat ==
    /\ SmokeTypeOK
    /\ \/ call = "ok"
       \/ call = "clean" /\ ~unread /\ order["sell"].state = "none"
       => Position = 0 /\ \A o \in Name : order[o].state \notin {"inflight", "accepted"}

\* Whatever part of its buy was filled, the test never sells more than that,
\* unless its own sell is still open when the cleanup sells again; and an
\* unknown outcome of the cancellation is resolved by reading the order: the
\* buy is cancelled at most once.
NothingIsDoneTwice ==
    /\ order["sell"].state = "none" \/ order["cleanup"].state = "none" => Position >= 0
    /\ cancels <= 1

\* The test ends although an order may rest for ever and a cancellation may
\* never become visible.
Ends == <>(call \in Ended)
=============================================================================
