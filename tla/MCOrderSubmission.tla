-------------------------- MODULE MCOrderSubmission --------------------------
(* OrderSubmission for TLC: a strategy with two signals and one with one. *)
EXTENDS OrderSubmission, TLC

CONSTANTS s1, s2, s3, k1, k2

MCSignal   == {s1, s2, s3}
MCStrategy == {k1, k2}
MCOwner    == s1 :> k1 @@ s2 :> k1 @@ s3 :> k2
=============================================================================
