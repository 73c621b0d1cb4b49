--------------------------- MODULE ExecutionLedger ---------------------------
(***************************************************************************)
(* What the ingress of executions promises, whatever is lost, repeated or  *)
(* reordered on the way: the positions are the sum of trades the exchange  *)
(* really executed, each counted once, and they never fall below zero.     *)
(***************************************************************************)
EXTENDS Integers

CONSTANTS
    Trade,          \* trades the exchange may execute
    Book,           \* (strategy, instrument) pairs that hold a position
    BookOf,         \* BookOf[t]: the book trade t belongs to
    Signed          \* Signed[t]: its quantity, negative for a sell

VARIABLES
    executed,       \* trades the exchange executed
    applied,        \* trades the positions account for
    position        \* position[b]

ledger == <<executed, applied, position>>

Init ==
    /\ executed = {} /\ applied = {}
    /\ position = [b \in Book |-> 0]

Execute(t) ==
    /\ t \notin executed
    /\ executed' = executed \cup {t}
    /\ UNCHANGED <<applied, position>>

Apply(t) ==
    /\ t \in executed \ applied
    /\ position[BookOf[t]] + Signed[t] >= 0
    /\ applied' = applied \cup {t}
    /\ position' = [position EXCEPT ![BookOf[t]] = @ + Signed[t]]
    /\ UNCHANGED executed

Next == \E t \in Trade : Execute(t) \/ Apply(t)

Spec == Init /\ [][Next]_ledger
=============================================================================
