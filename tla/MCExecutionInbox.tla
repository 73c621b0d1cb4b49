-------------------------- MODULE MCExecutionInbox --------------------------
(* ExecutionInbox for TLC: a buy and the sell that closes it, whose trade has *)
(* the lower key, or a buy in two trades.                                     *)
EXTENDS ExecutionInbox, TLC

CONSTANTS buy, sell, t1, t2, t3, book

MCOrder    == {buy, sell}
MCTrade    == {t1, t3}
MCBook     == {book}
MCOrderOf  == t1 :> buy @@ t3 :> sell
MCBookOf   == [o \in MCOrder |-> book]
MCSide     == buy :> "buy" @@ sell :> "sell"
MCQuantity == [t \in MCTrade |-> 1]
MCSellFirst == t1 :> 2 @@ t3 :> 1

MCBuyOnly      == {buy}
MCBuyTrades    == {t1, t2}
MCBuyOrderOf   == t1 :> buy @@ t2 :> buy
MCBuyBookOf    == [o \in MCBuyOnly |-> book]
MCBuySide      == buy :> "buy"
MCBuyQuantity  == [t \in MCBuyTrades |-> 1]
MCBuyHash      == t1 :> 1 @@ t2 :> 2
=============================================================================
