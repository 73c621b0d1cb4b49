--------------------------- MODULE MCStrategyWorker ---------------------------
(* StrategyWorker for TLC: two nanoseconds to the microsecond. *)
EXTENDS StrategyWorker, FiniteSets, TLC

CONSTANTS w1, w2, p1, p2, a, b, c, d

MCWorker  == {w1, w2}
MCPort    == {p1, p2}
MCEvent   == {a, b, c, d}
MCInstant == 0 .. 5
MCMicros  == [t \in MCInstant |-> 2 * (t \div 2)]

\* Two kinds of event at one time, twice.
MCAt   == a :> 2 @@ b :> 2 @@ c :> 4 @@ d :> 4
MCRank == a :> 1 @@ b :> 2 @@ c :> 1 @@ d :> 2

\* Never on b, and not on an event that follows a.
MCEmits(h, e) == e # b /\ (h = <<>> \/ h[Len(h)] # a)

\* A state that keeps no more than the period of its last event, as that of the
\* periodic investment does.
MCDigest(h) == IF h = <<>> THEN <<>> ELSE <<MCAt[h[Len(h)]] \div 3>>

MCOwnPort == w1 :> p1 @@ w2 :> p2
=============================================================================
