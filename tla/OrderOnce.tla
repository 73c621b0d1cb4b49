------------------------------ MODULE OrderOnce ------------------------------
(***************************************************************************)
(* What the agent promises about one trading signal, without saying how:   *)
(* the signal is decided once, only an allowed signal may become an order  *)
(* on the exchange, it becomes at most one, and the verdict the agent      *)
(* writes down is final and true.  OrderSubmission implements this module. *)
(***************************************************************************)
EXTENDS Naturals

CONSTANT Signal     \* every signal the strategies may ever emit

VARIABLES
    decision,       \* decision[s]: the outbox row of s and its risk decision
    orders,         \* orders[s]: how many orders the exchange executed for s
    verdict         \* verdict[s]: what the agent has durably concluded

vars == <<decision, orders, verdict>>

Decision == {"none", "pending", "allowed", "rejected"}
Verdict  == {"open", "placed", "refused"}

TypeOK ==
    /\ decision \in [Signal -> Decision]
    /\ orders \in [Signal -> Nat]
    /\ verdict \in [Signal -> Verdict]

Init ==
    /\ decision = [s \in Signal |-> "none"]
    /\ orders = [s \in Signal |-> 0]
    /\ verdict = [s \in Signal |-> "open"]

\* One market event commits any number of fresh signals at once.
Emit(S) ==
    /\ S # {}
    /\ \A s \in S : decision[s] = "none"
    /\ decision' = [s \in Signal |-> IF s \in S THEN "pending" ELSE decision[s]]
    /\ UNCHANGED <<orders, verdict>>

Decide(s) ==
    /\ decision[s] = "pending"
    /\ \E d \in {"allowed", "rejected"} : decision' = [decision EXCEPT ![s] = d]
    /\ UNCHANGED <<orders, verdict>>

\* The exchange executes the order; it can do so once, and never after the
\* agent has concluded that it refused.
Place(s) ==
    /\ decision[s] = "allowed"
    /\ verdict[s] = "open"
    /\ orders[s] = 0
    /\ orders' = [orders EXCEPT ![s] = 1]
    /\ UNCHANGED <<decision, verdict>>

Conclude(s) ==
    /\ decision[s] = "allowed"
    /\ verdict[s] = "open"
    /\ verdict' = [verdict EXCEPT ![s] = IF orders[s] = 1 THEN "placed" ELSE "refused"]
    /\ UNCHANGED <<decision, orders>>

Next ==
    \/ \E S \in SUBSET Signal : Emit(S)
    \/ \E s \in Signal : Decide(s) \/ Place(s) \/ Conclude(s)

Spec == Init /\ [][Next]_vars
=============================================================================
