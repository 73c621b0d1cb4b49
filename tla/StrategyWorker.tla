---------------------------- MODULE StrategyWorker ----------------------------
(***************************************************************************)
(* How a market event becomes strategy state and signals:                  *)
(*   strategy.Worker.Process, strategy.DurableStatePort and the SQLite     *)
(*   transaction CommitEvent, for one strategy.                            *)
(*                                                                         *)
(* A worker serialises its own events; several workers may meet in the     *)
(* database, where only the revision keeps them apart, or even share a     *)
(* port.  Any event may be delivered at any time and again.  Stored times  *)
(* have a coarser unit than the times of events, and the checksum a commit *)
(* is recognised by covers the state, not how it came about.               *)
(***************************************************************************)
EXTENDS Naturals, Sequences

CONSTANTS
    Worker,         \* instances of the strategy's worker
    Port,           \* instances of its state port
    PortOf,         \* PortOf[w]: the port w was built with
    Event,          \* market events of its instrument
    Instant,        \* exchange times, in nanoseconds
    At,             \* At[e]: exchange time of e
    Rank,           \* Rank[e]: priority of its kind and sequence, as one number
    Micros,         \* Micros[t]: t as it is read back from the database
    Emits(_, _),    \* Emits(h, e): the (deterministic) strategy, having seen h,
                    \* signals on e
    Digest(_),      \* Digest(h): checksum of the state made of h
    MaxRevision,    \* bound: commits considered
    None            \* "no event"

ASSUME EventAssumption ==
    /\ Instant \subseteq Nat
    /\ At \in [Event -> Instant] /\ Rank \in [Event -> Nat]
    /\ None \notin Event /\ PortOf \in [Worker -> Port]
    /\ MaxRevision \in Nat

\* Truncation is monotonic and idempotent and never goes forward.
ASSUME MicrosAssumption ==
    /\ Micros \in [Instant -> Instant]
    /\ \A t \in Instant : Micros[t] <= t /\ Micros[Micros[t]] = Micros[t]
    /\ \A t, u \in Instant : t <= u => Micros[t] <= Micros[u]

VARIABLES
    (* SQLite *)
    seen,           \* strategy_states: the state, as the events it was made of
    cursor,         \* the cursor stored with it
    revision,       \* its revision, 0 if there is no row
    outbox,         \* rows of the table signals
    (* memory of the workers and ports *)
    job,            \* job[w]: the event Process is working on
    base,           \* base[p]: revision the port believes current
    next,           \* next[w]: state computed by OnEvent
    (* the agent *)
    acked           \* events Process has returned without an error for

row    == <<seen, cursor, revision, outbox>>
memory == <<job, base, next>>
vars   == <<row, memory, acked>>

CursorOf(e) == [time |-> At[e], rank |-> Rank[e]]
Stored(e)   == [time |-> Micros[At[e]], rank |-> Rank[e]]

CursorLess(c, d) == c.time < d.time \/ (c.time = d.time /\ c.rank < d.rank)

Cursor == [time : Instant, rank : Nat]

TypeOK ==
    /\ seen \in Seq(Event)
    /\ cursor \in Cursor \cup {None}
    /\ revision \in 0 .. MaxRevision
    /\ outbox \subseteq Event
    /\ job \in [Worker -> Event \cup {None}]
    /\ base \in [Port -> 0 .. MaxRevision]
    /\ next \in [Worker -> Seq(Event)]
    /\ acked \subseteq Event

Init ==
    /\ seen = <<>> /\ cursor = None /\ revision = 0 /\ outbox = {}
    /\ job = [w \in Worker |-> None]
    /\ base = [p \in Port |-> 0]
    /\ next = [w \in Worker |-> <<>>]
    /\ acked = {}
-----------------------------------------------------------------------------
(* Process, up to the commit *)

\* Mutant: an event that is not newer than the state is processed all the same.
LoadAnyEvent(w, e) ==
    /\ job[w] = None
    /\ job' = [job EXCEPT ![w] = e]
    /\ base' = [base EXCEPT ![PortOf[w]] = revision]
    /\ next' = [next EXCEPT ![w] = Append(seen, e)]
    /\ UNCHANGED <<row, acked>>

IsNews(e) == revision > 0 => CursorLess(cursor, CursorOf(e))

\* Load and OnEvent.
Load(w, e) ==
    /\ job[w] = None
    /\ IsNews(e)
    /\ job' = [job EXCEPT ![w] = e]
    /\ base' = [base EXCEPT ![PortOf[w]] = revision]
    /\ next' = [next EXCEPT ![w] = Append(seen, e)]
    /\ UNCHANGED <<row, acked>>

\* Load, and the event is not processed: with the stored cursor it is a retry (no
\* error, no signals), an older one is ErrOutOfOrderEvent.
Refuse(w, e) ==
    /\ job[w] = None
    /\ ~IsNews(e)
    /\ base' = [base EXCEPT ![PortOf[w]] = revision]
    /\ acked' = acked \cup {x \in {e} : CursorOf(x) = cursor}
    /\ UNCHANGED <<row, job, next>>

\* Process returns, or the worker's process dies.
Leave(w) == job' = [job EXCEPT ![w] = None] /\ UNCHANGED next

Abandon(w) ==
    /\ job[w] # None
    /\ Leave(w)
    /\ UNCHANGED <<row, base, acked>>
-----------------------------------------------------------------------------
(* CommitEvent *)

Emitted(w) == IF Emits(SubSeq(next[w], 1, Len(next[w]) - 1), job[w]) THEN {job[w]} ELSE {}

\* A second signal with this ID, or at this stored cursor, violates a key.
SignalConflict(w) ==
    \E x \in outbox : Emitted(w) # {} /\ Stored(x) = Stored(job[w])

\* Mutant: the state is written, the signals are left to a second transaction.
WriteStateOnly(w) ==
    /\ seen' = next[w] /\ cursor' = Stored(job[w]) /\ revision' = revision + 1
    /\ UNCHANGED outbox

\* State, cursor and signals are one transaction.
Write(w) ==
    /\ seen' = next[w]
    /\ cursor' = Stored(job[w])
    /\ revision' = revision + 1
    /\ outbox' = outbox \cup Emitted(w)

\* Mutant: the revision is not compared.
MayWriteUnchecked(w) ==
    /\ revision < MaxRevision
    /\ revision > 0 => ~CursorLess(CursorOf(job[w]), cursor)
    /\ ~SignalConflict(w)

\* The revision is the one loaded and the cursor does not regress.
MayWrite(w) ==
    /\ revision < MaxRevision
    /\ revision = base[PortOf[w]]
    /\ revision > 0 => ~CursorLess(CursorOf(job[w]), cursor)
    /\ ~SignalConflict(w)

\* The port counts a revision, Process returns the signals of the event.
Return(w) ==
    /\ base' = [base EXCEPT ![PortOf[w]] = @ + 1]
    /\ acked' = acked \cup {job[w]}
    /\ Leave(w)

Commit(w) ==
    /\ job[w] # None
    /\ MayWrite(w)
    /\ Write(w)
    /\ Return(w)

\* The transaction is committed but the worker never learns it.
CommitUnobserved(w) ==
    /\ job[w] # None
    /\ MayWrite(w)
    /\ Write(w)
    /\ Leave(w)
    /\ UNCHANGED <<base, acked>>

\* Mutant: equal states count as the same commit, whatever event made them.
SameCommitByState(w) == Digest(seen) = Digest(next[w])

\* Same cursor and same checksum: the commit was already made.
SameCommit(w) == cursor = Stored(job[w]) /\ Digest(seen) = Digest(next[w])

\* The revision has moved on, but to exactly what this worker wanted to write.
CommitRepeated(w) ==
    /\ job[w] # None
    /\ revision # base[PortOf[w]] /\ revision > 0
    /\ SameCommit(w)
    /\ Return(w)
    /\ UNCHANGED row
-----------------------------------------------------------------------------
Next ==
    \E w \in Worker :
        \/ \E e \in Event : Load(w, e) \/ Refuse(w, e)
        \/ Abandon(w)
        \/ Commit(w)
        \/ CommitUnobserved(w)
        \/ CommitRepeated(w)

Spec == Init /\ [][Next]_vars
-----------------------------------------------------------------------------
\* Every worker has a port of its own, as the agent builds them.
OwnPorts == \A v, w \in Worker : PortOf[v] = PortOf[w] => v = w

\* Every event time survives storage unchanged: true of candle ends, which are
\* whole seconds, not of every trade or price time.
TimesAreExact == \A e \in Event : Micros[At[e]] = At[e]

\* The state is made of events in the order of their cursors, each at most once,
\* however often and to whichever worker they are delivered (if times are exact).
AppliedOnceInOrder ==
    \A i, j \in DOMAIN seen : i < j => CursorLess(CursorOf(seen[i]), CursorOf(seen[j]))

\* State and outbox agree: a signal is stored if and only if the event that
\* caused it is part of the state (one transaction, also for a lost commit).
OutboxMatchesState ==
    outbox = {seen[i] : i \in {j \in DOMAIN seen : Emits(SubSeq(seen, 1, j - 1), seen[j])}}

\* An event Process returned for without an error is part of the state (up to the
\* unit of stored times), and stays so: neither a retry nor a repeated commit is
\* taken for done because somebody else's event left an equal state.
AcknowledgedIsApplied ==
    \A e \in acked : \E i \in DOMAIN seen : Stored(seen[i]) = Stored(e)

\* No worker overwrites what another one committed: the state only grows, by one
\* event and one revision at a time.  internal/strategy/durable.go:17 claims it
\* also for a shared port ("accidental concurrent use fail through optimistic
\* revisions instead of losing updates").
NoLostUpdate ==
    [][seen' # seen => /\ SubSeq(seen', 1, Len(seen)) = seen
                       /\ Len(seen') = Len(seen) + 1
                       /\ revision' = revision + 1]_vars
=============================================================================
