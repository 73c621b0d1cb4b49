------------------------- MODULE StrategyWorkerProofs -------------------------
(***************************************************************************)
(* Proofs about StrategyWorker, for any number of workers and events, any  *)
(* deterministic strategy and any monotonic truncation of stored times.    *)
(* Each worker needs a port of its own; the order of the events also needs *)
(* the times to be stored exactly.                                         *)
(***************************************************************************)
EXTENDS StrategyWorker, TLAPS

\* The row: one revision per event, and the cursor of the last one.
RowInv ==
    /\ revision = Len(seen)
    /\ revision > 0 => cursor = Stored(seen[Len(seen)])

\* No port is ahead of the row.
PortInv == \A p \in Port : base[p] <= revision

\* A worker holds some earlier state plus its event; if its base is still the
\* current revision that state is the current one and the event is news.
Holds(w) ==
    /\ \E h \in Seq(Event) : next[w] = Append(h, job[w])
    /\ base[PortOf[w]] = revision => next[w] = Append(seen, job[w]) /\ IsNews(job[w])

JobInv == \A w \in Worker : job[w] # None => Holds(w)

IInv == OwnPorts /\ TypeOK /\ RowInv /\ PortInv /\ JobInv /\ OutboxMatchesState
-----------------------------------------------------------------------------
\* The two ways a worker writes the row differ only in what Process returns.
Writes(w) == job[w] # None /\ MayWrite(w) /\ Write(w) /\ Leave(w)

\* A port that counts a revision counts no further than the row.
Counts(w) == base' = base \/ base' = [base EXCEPT ![PortOf[w]] = @ + 1]

LEMMA CommitsWrite ==
    ASSUME NEW w \in Worker, Commit(w) \/ CommitUnobserved(w)
    PROVE  Writes(w) /\ Counts(w) /\ (acked' = acked \/ acked' = acked \cup {job[w]})
  BY DEF Commit, CommitUnobserved, Writes, Return, Counts

\* What a write does to the row.
LEMMA WriteAppends ==
    ASSUME IInv, NEW w \in Worker, Writes(w)
    PROVE  /\ job[w] \in Event
           /\ seen' = Append(seen, job[w])
           /\ cursor' = Stored(job[w])
           /\ revision' = revision + 1
           /\ IsNews(job[w])
           /\ Emitted(w) = IF Emits(seen, job[w]) THEN {job[w]} ELSE {}
           /\ outbox' = outbox \cup Emitted(w)
<1>1. job[w] \in Event /\ seen \in Seq(Event)
  BY DEF IInv, TypeOK, Writes
<1>2. next[w] = Append(seen, job[w]) /\ IsNews(job[w])
  BY DEF IInv, JobInv, Holds, Writes, MayWrite
<1>3. SubSeq(next[w], 1, Len(next[w]) - 1) = seen
  BY <1>1, <1>2
<1> QED BY <1>1, <1>2, <1>3 DEF Writes, Write, Emitted

\* A cursor read back from the database is one again.
LEMMA StoredIsCursor == \A e \in Event : Stored(e) \in Cursor
  BY EventAssumption, MicrosAssumption DEF Stored, Cursor

\* Every step keeps the types.
LEMMA TypeStep == IInv /\ [Next]_vars => TypeOK'
<1> SUFFICES ASSUME IInv, [Next]_vars PROVE TypeOK'
  OBVIOUS
<1>0. TypeOK
  BY DEF IInv
<1> USE <1>0, EventAssumption DEF TypeOK
<1>1. ASSUME NEW w \in Worker, NEW e \in Event, Load(w, e) PROVE TypeOK'
  BY <1>1 DEF Load, row
<1>2. ASSUME NEW w \in Worker, NEW e \in Event, Refuse(w, e) PROVE TypeOK'
  <2>1. acked' \subseteq Event
    BY <1>2 DEF Refuse
  <2> QED BY <1>2, <2>1 DEF Refuse, row
<1>3. ASSUME NEW w \in Worker, Abandon(w) PROVE TypeOK'
  BY <1>3 DEF Abandon, Leave, row
<1>4. ASSUME NEW w \in Worker, Writes(w), Counts(w),
             acked' = acked \/ acked' = acked \cup {job[w]}
      PROVE  TypeOK'
  <2>1. seen' \in Seq(Event) /\ cursor' \in Cursor
    <3>1. job[w] \in Event /\ seen' = Append(seen, job[w]) /\ cursor' = Stored(job[w])
      BY <1>4, WriteAppends
    <3> QED BY <3>1, StoredIsCursor
  <2>2. revision' \in 0 .. MaxRevision
    BY <1>4, EventAssumption DEF Writes, MayWrite, Write
  <2>3. Emitted(w) \subseteq Event
    BY <1>4 DEF Emitted, Writes
  <2>4. outbox' \subseteq Event /\ acked' \subseteq Event
    BY <1>4, <2>3 DEF Writes, Write
  <2>5. job' \in [Worker -> Event \cup {None}] /\ next' \in [Worker -> Seq(Event)]
    BY <1>4 DEF Writes, Leave
  <2>6. base' \in [Port -> 0 .. MaxRevision]
    <3>1. base[PortOf[w]] + 1 \in 0 .. MaxRevision
      BY <1>4 DEF Writes, MayWrite
    <3> QED BY <1>4, <3>1 DEF Counts
  <2> QED BY <2>1, <2>2, <2>4, <2>5, <2>6
<1>5. ASSUME NEW w \in Worker, CommitRepeated(w) PROVE TypeOK'
  <2>1. base[PortOf[w]] + 1 \in 0 .. MaxRevision
    <3>1. PortOf[w] \in Port
      OBVIOUS
    <3> QED BY <1>5, <3>1 DEF CommitRepeated, IInv, PortInv
  <2>2. base' \in [Port -> 0 .. MaxRevision]
    BY <1>5, <2>1 DEF CommitRepeated, Return
  <2> QED BY <1>5, <2>2 DEF CommitRepeated, Return, Leave, row
<1>6. CASE UNCHANGED vars
  BY <1>6 DEF vars, row, memory
<1> QED BY <1>1, <1>2, <1>3, <1>4, <1>5, <1>6, CommitsWrite DEF Next

\* Only a write touches the row, and it keeps revision, state and cursor together.
LEMMA RowStep == IInv /\ [Next]_vars => RowInv'
<1> SUFFICES ASSUME IInv, [Next]_vars PROVE RowInv'
  OBVIOUS
<1>1. CASE UNCHANGED row
  BY <1>1 DEF IInv, RowInv, Stored, row
<1>2. ASSUME NEW w \in Worker, Writes(w) PROVE RowInv'
  BY <1>2, WriteAppends DEF IInv, TypeOK, RowInv, Stored
<1>3. UNCHANGED row \/ \E w \in Worker : Writes(w)
  BY CommitsWrite DEF Next, Load, Refuse, Abandon, CommitRepeated, vars
<1> QED BY <1>1, <1>2, <1>3

\* A port loads the revision of the row, and counts one only if the row has it.
LEMMA PortStep == IInv /\ [Next]_vars => PortInv'
<1> SUFFICES ASSUME IInv, [Next]_vars, NEW p \in Port
             PROVE  base'[p] <= revision'
  BY DEF PortInv
<1>0. /\ revision \in Nat /\ base[p] \in Nat /\ base[p] <= revision
      /\ base \in [Port -> 0 .. MaxRevision]
  BY EventAssumption DEF IInv, TypeOK, PortInv
<1>1. CASE UNCHANGED <<row, base>>
  BY <1>0, <1>1 DEF row
<1>2. CASE \E w \in Worker : Writes(w) /\ Counts(w)
  <2> PICK w \in Worker : Writes(w) /\ Counts(w)
    BY <1>2
  <2>1. revision' = revision + 1 /\ base[PortOf[w]] = revision
    BY DEF Writes, Write, MayWrite
  <2>2. base'[p] \in {base[p], base[PortOf[w]] + 1}
    BY <1>0 DEF Counts
  <2> QED BY <1>0, <2>1, <2>2
<1>3. CASE \E w \in Worker : CommitRepeated(w)
  <2> PICK w \in Worker : CommitRepeated(w)
    BY <1>3
  <2>1. revision' = revision /\ base[PortOf[w]] # revision
    BY DEF CommitRepeated, row
  <2>2. base'[p] = IF p = PortOf[w] THEN base[p] + 1 ELSE base[p]
    BY <1>0 DEF CommitRepeated, Return
  <2> QED BY <1>0, <2>1, <2>2
<1>4. CASE \E w \in Worker, e \in Event : Load(w, e) \/ Refuse(w, e)
  <2> PICK w \in Worker, e \in Event : Load(w, e) \/ Refuse(w, e)
    BY <1>4
  <2>1. revision' = revision /\ base'[p] \in {base[p], revision}
    BY <1>0 DEF Load, Refuse, row
  <2> QED BY <1>0, <2>1
<1>5. \/ UNCHANGED <<row, base>>
      \/ \E w \in Worker : Writes(w) /\ Counts(w)
      \/ \E w \in Worker : CommitRepeated(w)
      \/ \E w \in Worker, e \in Event : Load(w, e) \/ Refuse(w, e)
  BY CommitsWrite DEF Next, Abandon, vars, memory
<1> QED BY <1>1, <1>2, <1>3, <1>4, <1>5

\* Every step keeps what each worker holds; a write makes the other bases stale.
LEMMA JobStep == IInv /\ [Next]_vars => JobInv'
<1> SUFFICES ASSUME IInv, [Next]_vars, NEW w \in Worker, job'[w] # None
             PROVE  Holds(w)'
  BY DEF JobInv
<1> USE EventAssumption DEF IInv, TypeOK
<1>1. ASSUME NEW v \in Worker, NEW e \in Event, Load(v, e)
      PROVE  Holds(w)'
  <2>1. UNCHANGED row /\ IsNews(e)
    BY <1>1 DEF Load
  <2>2. CASE v = w
    <3>1. job'[w] = e /\ next'[w] = Append(seen, e)
      BY <1>1, <2>2 DEF Load
    <3>2. seen' = seen /\ seen \in Seq(Event)
      BY <2>1 DEF row
    <3>3. IsNews(job[w])'
      BY <2>1, <3>1 DEF IsNews, CursorLess, CursorOf, row
    <3> QED BY <3>1, <3>2, <3>3 DEF Holds
  <2>3. CASE v # w
    <3>1. job'[w] = job[w] /\ next'[w] = next[w] /\ job[w] # None
      BY <1>1, <2>3 DEF Load
    <3>2. PortOf[w] # PortOf[v]
      BY <2>3 DEF OwnPorts
    <3>3. base'[PortOf[w]] = base[PortOf[w]]
      BY <1>1, <3>2 DEF Load
    <3> QED BY <3>1, <3>3, <2>1 DEF JobInv, Holds, IsNews, CursorLess, CursorOf, row
  <2> QED BY <2>2, <2>3
<1>2. ASSUME NEW v \in Worker, Leave(v), UNCHANGED row,
             \A p \in Port \ {PortOf[v]} : base'[p] = base[p]
      PROVE  Holds(w)'
  <2>1. v # w /\ job'[w] = job[w] /\ next'[w] = next[w] /\ job[w] # None
    BY <1>2 DEF Leave
  <2>2. base'[PortOf[w]] = base[PortOf[w]]
    BY <1>2, <2>1 DEF OwnPorts
  <2> QED BY <1>2, <2>1, <2>2 DEF JobInv, Holds, IsNews, CursorLess, CursorOf, row
<1>3. ASSUME NEW v \in Worker, Writes(v), Counts(v)
      PROVE  Holds(w)'
  <2>1. v # w /\ job'[w] = job[w] /\ next'[w] = next[w] /\ job[w] # None
    BY <1>3 DEF Writes, Leave
  <2>2. base'[PortOf[w]] = base[PortOf[w]]
    BY <1>3, <2>1 DEF Counts, OwnPorts
  <2>3. base[PortOf[w]] <= revision /\ base[PortOf[w]] \in Nat /\ revision \in Nat
    BY DEF PortInv
  <2>4. base'[PortOf[w]] # revision'
    BY <1>3, <2>2, <2>3, WriteAppends
  <2> QED BY <2>1, <2>4 DEF JobInv, Holds
<1>4. ASSUME NEW v \in Worker, Abandon(v) \/ CommitRepeated(v)
      PROVE  /\ Leave(v) /\ UNCHANGED row
             /\ \A p \in Port \ {PortOf[v]} : base'[p] = base[p]
  BY <1>4 DEF Abandon, CommitRepeated, Return
<1>5. CASE UNCHANGED vars
  BY <1>5 DEF JobInv, Holds, IsNews, CursorLess, CursorOf, vars, row, memory
<1>6. CASE \E v \in Worker : Abandon(v) \/ CommitRepeated(v)
  BY <1>2, <1>4, <1>6
<1>7. CASE \E v \in Worker : Commit(v) \/ CommitUnobserved(v)
  BY <1>3, <1>7, CommitsWrite
<1>8. CASE \E v \in Worker, e \in Event : Load(v, e)
  BY <1>1, <1>8
<1>9. CASE \E v \in Worker, e \in Event : Refuse(v, e)
  <2> PICK v \in Worker, e \in Event : Refuse(v, e)
    BY <1>9
  <2>1. v # w /\ job'[w] = job[w] /\ next'[w] = next[w] /\ job[w] # None /\ UNCHANGED row
    BY DEF Refuse
  <2>2. base'[PortOf[w]] = base[PortOf[w]]
    BY <2>1 DEF Refuse, OwnPorts
  <2> QED BY <2>1, <2>2 DEF JobInv, Holds, IsNews, CursorLess, CursorOf, row
<1> QED BY <1>5, <1>6, <1>7, <1>8, <1>9 DEF Next

\* The prefix a state had when its i-th event arrived does not change later.
LEMMA PrefixOfAppend ==
    ASSUME NEW h \in Seq(Event), NEW e \in Event
    PROVE  /\ DOMAIN Append(h, e) = 1 .. Len(h) + 1
           /\ SubSeq(Append(h, e), 1, Len(h)) = h
           /\ Append(h, e)[Len(h) + 1] = e
           /\ \A i \in DOMAIN h : /\ Append(h, e)[i] = h[i]
                                 /\ SubSeq(Append(h, e), 1, i - 1) = SubSeq(h, 1, i - 1)
  OBVIOUS

\* A write adds one event and, if it emits, its signal.
LEMMA OutboxStep == IInv /\ [Next]_vars => OutboxMatchesState'
<1> SUFFICES ASSUME IInv, [Next]_vars PROVE OutboxMatchesState'
  OBVIOUS
<1>1. CASE UNCHANGED row
  BY <1>1 DEF IInv, OutboxMatchesState, row
<1>2. ASSUME NEW w \in Worker, Writes(w) PROVE OutboxMatchesState'
  <2> DEFINE e == job[w]
             S(h) == {j \in DOMAIN h : Emits(SubSeq(h, 1, j - 1), h[j])}
  <2>1. /\ e \in Event /\ seen \in Seq(Event) /\ seen' = Append(seen, e)
        /\ outbox' = outbox \cup (IF Emits(seen, e) THEN {e} ELSE {})
    BY <1>2, WriteAppends DEF IInv, TypeOK
  <2>2. outbox = {seen[i] : i \in S(seen)}
    BY DEF IInv, OutboxMatchesState
  <2>3. /\ DOMAIN seen' = 1 .. Len(seen) + 1 /\ DOMAIN seen = 1 .. Len(seen)
        /\ seen'[Len(seen) + 1] = e /\ SubSeq(seen', 1, (Len(seen) + 1) - 1) = seen
        /\ \A i \in DOMAIN seen : /\ seen'[i] = seen[i]
                                 /\ SubSeq(seen', 1, i - 1) = SubSeq(seen, 1, i - 1)
    BY <2>1, PrefixOfAppend
  <2>4. S(seen') = S(seen) \cup (IF Emits(seen, e) THEN {Len(seen) + 1} ELSE {})
    <3>1. DOMAIN seen' = DOMAIN seen \cup {Len(seen) + 1}
      BY <2>1, <2>3
    <3>2. \A i \in DOMAIN seen : i \in S(seen') <=> i \in S(seen)
      BY <3>1, <2>3
    <3>3. Len(seen) + 1 \in S(seen') <=> Emits(seen, e)
      BY <3>1, <2>3
    <3>4. Len(seen) + 1 \notin DOMAIN seen
      BY <2>1, <2>3
    <3> QED BY <3>1, <3>2, <3>3, <3>4
  <2>5. {seen'[i] : i \in S(seen')} = outbox'
    <3>1. \A i \in S(seen) : seen'[i] = seen[i]
      BY <2>3
    <3> HIDE DEF S
    <3>2. CASE Emits(seen, e)
      <4>1. S(seen') = S(seen) \cup {Len(seen) + 1} /\ outbox' = outbox \cup {e}
        BY <3>2, <2>1, <2>4
      <4> QED BY <4>1, <3>1, <2>2, <2>3
    <3>3. CASE ~Emits(seen, e)
      BY <3>1, <3>3, <2>1, <2>2, <2>4
    <3> QED BY <3>2, <3>3
  <2> QED BY <2>5 DEF OutboxMatchesState
<1>3. UNCHANGED row \/ \E w \in Worker : Writes(w)
  BY CommitsWrite DEF Next, Load, Refuse, Abandon, CommitRepeated, vars
<1> QED BY <1>1, <1>2, <1>3

\* Before any event there is no row and no job.
LEMMA InductiveInit ==
    ASSUME OwnPorts, Init
    PROVE  IInv
<1> USE DEF Init
<1>1. TypeOK
  BY EventAssumption DEF TypeOK
<1>2. RowInv /\ PortInv
  BY DEF RowInv, PortInv
<1>3. JobInv
  BY DEF JobInv
<1>4. OutboxMatchesState
  BY DEF OutboxMatchesState
<1> QED BY <1>1, <1>2, <1>3, <1>4 DEF IInv

\* The invariant is inductive.
LEMMA InductiveStep == IInv /\ [Next]_vars => IInv'
<1> SUFFICES ASSUME IInv, [Next]_vars PROVE IInv'
  OBVIOUS
<1>1. OwnPorts'
  BY DEF IInv, OwnPorts
<1> QED BY <1>1, TypeStep, RowStep, PortStep, JobStep, OutboxStep DEF IInv

\* The invariant holds throughout.
LEMMA Inductive ==
    ASSUME OwnPorts
    PROVE  Spec => []IInv
<1>1. Init => IInv
  BY InductiveInit
<1> QED BY <1>1, InductiveStep, PTL DEF Spec
-----------------------------------------------------------------------------
(* The theorems *)

\* Every variable keeps its type.
THEOREM TypeCorrect ==
    ASSUME OwnPorts
    PROVE  Spec => []TypeOK
<1>1. IInv => TypeOK
  BY DEF IInv
<1> QED BY <1>1, Inductive, PTL

\* State and outbox are written together: neither a lost acknowledgement nor a
\* second worker separates a signal from the event that caused it.
THEOREM StateAndOutboxAgree ==
    ASSUME OwnPorts
    PROVE  Spec => []OutboxMatchesState
<1>1. IInv => OutboxMatchesState
  BY DEF IInv
<1> QED BY <1>1, Inductive, PTL

\* What reads back with the stored cursor was stored with it.
LEMMA SameStored ==
    ASSUME NEW e \in Event, NEW x \in Event, CursorOf(e) = Stored(x)
    PROVE  Stored(e) = Stored(x)
<1>1. At[e] = Micros[At[x]] /\ Rank[e] = Rank[x] /\ At[x] \in Instant
  BY EventAssumption DEF CursorOf, Stored
<1>2. Micros[At[e]] = Micros[At[x]]
  BY <1>1, MicrosAssumption
<1> QED BY <1>1, <1>2 DEF Stored

\* Every acknowledgement finds its event, or one with its cursor, as the last of
\* the state, and the state only grows.
LEMMA AcknowledgedStep ==
    ASSUME IInv, AcknowledgedIsApplied, [Next]_vars
    PROVE  AcknowledgedIsApplied'
<1> DEFINE n == Len(seen)
           Applied(e, h) == \E i \in DOMAIN h : Stored(h[i]) = Stored(e)
<1>0. seen \in Seq(Event) /\ acked \subseteq Event /\ n \in Nat /\ DOMAIN seen = 1 .. n
  BY DEF IInv, TypeOK
<1>1. ASSUME NEW e \in acked PROVE Applied(e, seen)
  BY <1>1 DEF AcknowledgedIsApplied
<1>2. ASSUME NEW w \in Worker, Writes(w), acked' = acked \/ acked' = acked \cup {job[w]}
      PROVE  AcknowledgedIsApplied'
  <2>1. job[w] \in Event /\ seen' = Append(seen, job[w])
    BY <1>2, WriteAppends
  <2>2. /\ DOMAIN seen' = 1 .. n + 1 /\ seen'[n + 1] = job[w]
        /\ \A i \in DOMAIN seen : seen'[i] = seen[i]
    BY <1>0, <2>1, PrefixOfAppend
  <2>3. \A e \in acked : Applied(e, seen')
    BY <1>0, <1>1, <2>2
  <2>4. Applied(job[w], seen')
    BY <1>0, <2>2
  <2>5. \A e \in acked' : Applied(e, seen')
    BY <1>2, <2>3, <2>4
  <2> QED BY <2>5 DEF AcknowledgedIsApplied, Stored
<1>3. ASSUME UNCHANGED row, NEW e, acked' \subseteq acked \cup {e}, Applied(e, seen) \/ acked' = acked
      PROVE  AcknowledgedIsApplied'
  <2>1. seen' = seen /\ \A x \in acked' : Applied(x, seen)
    BY <1>1, <1>3 DEF row
  <2> QED BY <2>1 DEF AcknowledgedIsApplied, Stored
<1>4. ASSUME revision > 0 PROVE n \in DOMAIN seen /\ cursor = Stored(seen[n])
  BY <1>0, <1>4 DEF IInv, RowInv
<1>5. ASSUME NEW w \in Worker, CommitRepeated(w) PROVE AcknowledgedIsApplied'
  <2>1. Applied(job[w], seen)
    BY <1>4, <1>5 DEF CommitRepeated, SameCommit
  <2>2. UNCHANGED row /\ acked' = acked \cup {job[w]}
    BY <1>5 DEF CommitRepeated, Return
  <2> HIDE DEF Applied
  <2> QED BY <1>3, <2>1, <2>2
<1>6. ASSUME NEW w \in Worker, NEW e \in Event, Refuse(w, e) PROVE AcknowledgedIsApplied'
  <2>1. UNCHANGED row /\ acked' \subseteq acked \cup {e}
    BY <1>6 DEF Refuse
  <2>2. CASE CursorOf(e) = cursor
    <3>1. revision > 0
      BY <1>0, <1>6 DEF Refuse, IsNews, IInv, RowInv
    <3>2. n \in DOMAIN seen /\ seen[n] \in Event /\ CursorOf(e) = Stored(seen[n])
      BY <1>0, <1>4, <2>2, <3>1
    <3>3. Applied(e, seen)
      BY <3>2, SameStored
    <3> HIDE DEF Applied
    <3> QED BY <1>3, <2>1, <3>3
  <2>3. CASE CursorOf(e) # cursor
    <3>1. acked' = acked
      BY <1>6, <2>3 DEF Refuse
    <3> HIDE DEF Applied
    <3> QED BY <1>3, <2>1, <3>1
  <2> QED BY <2>2, <2>3
<1>7. CASE UNCHANGED <<row, acked>>
  <2> HIDE DEF Applied
  <2> QED BY <1>3, <1>7
<1>8. \/ \E w \in Worker : Commit(w) \/ CommitUnobserved(w) \/ CommitRepeated(w)
      \/ \E w \in Worker, e \in Event : Refuse(w, e)
      \/ UNCHANGED <<row, acked>>
  BY DEF Next, Load, Abandon, vars
<1> QED BY <1>2, <1>5, <1>6, <1>7, <1>8, CommitsWrite

\* What Process acknowledged stays part of the state, whatever the strategy and
\* however coarse its checksum.
THEOREM AcknowledgedEventsSurvive ==
    ASSUME OwnPorts
    PROVE  Spec => []AcknowledgedIsApplied
<1>1. Init => AcknowledgedIsApplied
  BY DEF Init, AcknowledgedIsApplied
<1>2. IInv /\ AcknowledgedIsApplied /\ [Next]_vars => AcknowledgedIsApplied'
  BY AcknowledgedStep
<1> QED BY <1>1, <1>2, Inductive, PTL DEF Spec

\* The state grows by one event and one revision at a time, whoever writes it.
THEOREM NobodyOverwrites ==
    ASSUME OwnPorts
    PROVE  Spec => NoLostUpdate
<1>1. IInv /\ [Next]_vars =>
        [seen' # seen => /\ SubSeq(seen', 1, Len(seen)) = seen
                         /\ Len(seen') = Len(seen) + 1
                         /\ revision' = revision + 1]_vars
  <2> SUFFICES ASSUME IInv, [Next]_vars, seen' # seen
               PROVE  /\ SubSeq(seen', 1, Len(seen)) = seen
                      /\ Len(seen') = Len(seen) + 1
                      /\ revision' = revision + 1
    OBVIOUS
  <2>1. PICK w \in Worker : Writes(w)
    BY CommitsWrite DEF Next, Load, Refuse, Abandon, CommitRepeated, vars, row
  <2>2. seen \in Seq(Event) /\ job[w] \in Event /\ seen' = Append(seen, job[w])
    BY <2>1, WriteAppends DEF IInv, TypeOK
  <2>3. revision' = revision + 1
    BY <2>1, WriteAppends
  <2> QED BY <2>2, <2>3, PrefixOfAppend
<1> QED BY <1>1, Inductive, PTL DEF Spec, NoLostUpdate
-----------------------------------------------------------------------------
(* Order of the events *)

\* The order of cursors is transitive.
LEMMA CursorLessTransitive ==
    ASSUME NEW c \in Cursor, NEW d \in Cursor, NEW e \in Cursor,
           CursorLess(c, d), CursorLess(d, e)
    PROVE  CursorLess(c, e)
<1>1. c.time \in Nat /\ d.time \in Nat /\ e.time \in Nat
  BY EventAssumption DEF Cursor
<1>2. c.rank \in Nat /\ d.rank \in Nat /\ e.rank \in Nat
  BY DEF Cursor
<1> QED BY <1>1, <1>2 DEF CursorLess

\* With exact times a write only appends an event that is newer than all others.
LEMMA OrderStep ==
    ASSUME TimesAreExact, IInv, AppliedOnceInOrder, [Next]_vars
    PROVE  AppliedOnceInOrder'
<1>1. CASE UNCHANGED row
  BY <1>1 DEF AppliedOnceInOrder, CursorLess, CursorOf, row
<1>2. ASSUME NEW w \in Worker, Writes(w) PROVE AppliedOnceInOrder'
  <2> DEFINE e == job[w]  n == Len(seen)
  <2>1. e \in Event /\ seen \in Seq(Event) /\ seen' = Append(seen, e) /\ IsNews(e)
    BY <1>2, WriteAppends DEF IInv, TypeOK
  <2>2. \A x \in Event : CursorOf(x) \in Cursor /\ Stored(x) = CursorOf(x)
    BY StoredIsCursor DEF TimesAreExact, Stored, CursorOf
  <2>3. \A i \in 1 .. n : CursorLess(CursorOf(seen[i]), CursorOf(e))
    <3> SUFFICES ASSUME NEW i \in 1 .. n PROVE CursorLess(CursorOf(seen[i]), CursorOf(e))
      OBVIOUS
    <3>1. n \in DOMAIN seen /\ i \in DOMAIN seen /\ seen[i] \in Event /\ seen[n] \in Event
      BY <2>1
    <3>2. revision > 0 /\ cursor = Stored(seen[n])
      BY <2>1 DEF IInv, RowInv
    <3>3. CursorLess(CursorOf(seen[n]), CursorOf(e))
      BY <3>1, <3>2, <2>1, <2>2 DEF IsNews
    <3>4. CASE i = n
      BY <3>3, <3>4
    <3>5. CASE i < n
      <4>1. CursorLess(CursorOf(seen[i]), CursorOf(seen[n]))
        BY <3>1, <3>5 DEF AppliedOnceInOrder
      <4> QED BY <4>1, <3>1, <3>3, <2>1, <2>2, CursorLessTransitive
    <3> QED BY <3>4, <3>5, <2>1
  <2>4. ASSUME NEW i \in 1 .. n + 1, NEW j \in 1 .. n + 1, i < j
        PROVE  CursorLess(CursorOf(seen'[i]), CursorOf(seen'[j]))
    <3>1. n \in Nat /\ DOMAIN seen = 1 .. n
      BY <2>1
    <3>2. i \in DOMAIN seen /\ seen'[i] = seen[i]
      BY <2>1, <2>4, <3>1, PrefixOfAppend
    <3>3. CASE j = n + 1
      BY <2>1, <2>3, <3>1, <3>2, <3>3, PrefixOfAppend
    <3>4. CASE j \in DOMAIN seen
      BY <2>1, <2>4, <3>2, <3>4, PrefixOfAppend DEF AppliedOnceInOrder
    <3> QED BY <3>1, <3>3, <3>4
  <2>5. DOMAIN seen' = 1 .. n + 1
    BY <2>1, PrefixOfAppend
  <2>6. \A x : CursorOf(x)' = CursorOf(x)
    BY DEF CursorOf
  <2> QED BY <2>4, <2>5 DEF AppliedOnceInOrder, CursorLess, CursorOf
<1>3. UNCHANGED row \/ \E w \in Worker : Writes(w)
  BY CommitsWrite DEF Next, Load, Refuse, Abandon, CommitRepeated, vars
<1> QED BY <1>1, <1>2, <1>3

\* If times are stored exactly, the state is made of events in cursor order, each
\* at most once, whatever is delivered how often and to which worker.
THEOREM EventsAppliedOnceInOrder ==
    ASSUME OwnPorts, TimesAreExact
    PROVE  Spec => []AppliedOnceInOrder
<1>1. Init => AppliedOnceInOrder
  BY DEF Init, AppliedOnceInOrder
<1>2. IInv /\ AppliedOnceInOrder /\ [Next]_vars => AppliedOnceInOrder'
  BY OrderStep
<1> QED BY <1>1, <1>2, Inductive, PTL DEF Spec
=============================================================================
