---------------------------- MODULE MCSmokeTest ----------------------------
(* SmokeTest for TLC: two units, so that a buy can be filled in part.       *)
EXTENDS SmokeTest
=============================================================================
