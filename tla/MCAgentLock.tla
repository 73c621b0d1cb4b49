----------------------------- MODULE MCAgentLock -----------------------------
(* AgentLock for TLC: agents a and b and a backtest c on one database. *)
EXTENDS AgentLock, TLC

CONSTANTS a, b, c

MCProcess == {a, b, c}
MCAgents  == {a, b}

\* All derive the name of the lock from the same name of the database.
MCLockPath == [p \in MCProcess |-> "db.lock"]
MCVersion  == [p \in MCProcess |-> 2]
=============================================================================
