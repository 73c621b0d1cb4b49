----------------------------- MODULE Statistics -----------------------------
(***************************************************************************)
(* The profit and loss of a strategy: internal/statistics.  A book holds a *)
(* position, its average price and the components of the result; amounts   *)
(* are in the settlement asset.  Nothing in the code writes funding, so it *)
(* is left out.  Averages are exact where the instances are chosen so.     *)
(***************************************************************************)
EXTENDS Integers

Abs(n)  == IF n < 0 THEN -n ELSE n
Sign(n) == IF n < 0 THEN -1 ELSE IF n = 0 THEN 0 ELSE 1
Least(m, n) == IF m < n THEN m ELSE n

EmptyBook ==
    [position |-> 0, average |-> 0, realized |-> 0, unrealized |-> 0, commissions |-> 0]

\* A fill that opens or adds to a position.
Opens(position, signed) == position = 0 \/ Sign(position) = Sign(signed)

Averaged(position, average, signed, price) ==
    IF position = 0
    THEN price
    ELSE (average * Abs(position) + price * Abs(signed)) \div Abs(position + signed)

\* A fill against the position realises the part it closes; the rest of it
\* opens a position the other way.
ApplyFill(book, signed, price) ==
    LET left == book.position + signed
    IN  IF Opens(book.position, signed)
        THEN [book EXCEPT !.position = left,
                          !.average  = Averaged(book.position, @, signed, price)]
        ELSE [book EXCEPT
                 !.position = left,
                 !.average  = CASE left = 0 -> 0
                                [] left # 0 /\ Sign(left) = Sign(book.position) -> @
                                [] left # 0 /\ Sign(left) # Sign(book.position) -> price,
                 !.realized = @ + (price - book.average) * Sign(book.position)
                                    * Least(Abs(book.position), Abs(signed))]

SignedQuantity(execution) ==
    IF execution.side = "buy" THEN execution.quantity ELSE -execution.quantity

ApplyExecution(book, execution) ==
    ApplyFill([book EXCEPT !.commissions = @ + execution.commission],
              SignedQuantity(execution), execution.price)

MarkToMarket(book, price) ==
    [book EXCEPT !.unrealized = (price - book.average) * book.position]

RealizedNet(pnl) == pnl.realized - pnl.commissions
Total(pnl)       == pnl.realized + pnl.unrealized - pnl.commissions

Delta(pnl, baseline) ==
    [realized    |-> pnl.realized - baseline.realized,
     unrealized  |-> pnl.unrealized - baseline.unrealized,
     commissions |-> pnl.commissions - baseline.commissions]
=============================================================================
