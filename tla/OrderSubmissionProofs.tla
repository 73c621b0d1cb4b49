------------------------ MODULE OrderSubmissionProofs ------------------------
(***************************************************************************)
(* Machine-checked theorems about OrderSubmission, for any set of signals  *)
(* and strategies, any number of crashes and any behaviour of the exchange *)
(* the model allows.                                                       *)
(***************************************************************************)
EXTENDS OrderSubmission, TLAPS

(* The inductive invariant. *)

\* What the exchange has of a signal, as far as the intent can tell.
LedgerInv ==
    \A s \in Signal :
        /\ requests[s] + orders[s] <= 1
        /\ intent[s] \in {"none", "ready", "rejected", "not_submitted"} =>
               requests[s] = 0 /\ orders[s] = 0
        /\ intent[s] = "submitted" => orders[s] = 1

\* What submitIntent knows about its signal at each stage.
CallInv ==
    /\ stage # "idle" => current \in Signal
    /\ stage \in {"begin", "calling"} => reply = "none"
    /\ stage = "begin" => intent[current] = "ready"
    /\ stage \in {"calling", "waiting"} => intent[current] = "submitting"
    /\ stage = "calling" => requests[current] = 0 /\ orders[current] = 0
    /\ stage = "waiting" /\ reply = "ok" => orders[current] = 1
    /\ stage = "waiting" /\ reply \in {"refused", "limited", "not_found"} =>
           requests[current] = 0 /\ orders[current] = 0

\* A signal has an intent exactly when it was allowed.
DecisionInv == \A s \in Signal : intent[s] # "none" <=> decision[s] = "allowed"

\* Where in the run an intent may be unresolved.
FlowInv ==
    /\ stage # "idle" => pc \in {"submit_ready", "recover", "signals"}
    /\ stage # "idle" => \A s \in Open : s = current
    /\ stage = "idle" /\ pc \in {"closing", "running", "recover", "process",
                                 "signals", "isolate"} => Open = {}
    /\ pc \in {"ingress", "submit_ready"} /\ stage = "idle" =>
           \A s \in Open : intent[s] = "ready"
    /\ \A s, t \in Open : s = t

\* An isolated strategy has nothing left that could become an order.
IsolationInv ==
    /\ pc \in {"process", "signals", "recover", "isolate"} => event \in Strategy \ failed
    /\ pc \in {"down", "repair", "resolve", "ingress", "submit_ready", "closing"} => failed = {}
    /\ \A s \in Signal : decision[s] = "pending" => Owner[s] \notin failed
    /\ stage # "idle" => Owner[current] \notin failed

\* A run that is ending knows how.
EndInv == pc = "stopping" => outcome # "none"

IInv ==
    /\ TypeOK /\ LedgerInv /\ CallInv /\ DecisionInv
    /\ FlowInv /\ IsolationInv /\ EndInv
-----------------------------------------------------------------------------
\* A sum of at most one leaves room for one of its terms.
LEMMA OneOfTwo ==
    ASSUME NEW a \in Nat, NEW b \in Nat, a > 0, a + b <= 1
    PROVE  a = 1 /\ b = 0
  OBVIOUS

\* Every step keeps the types.
LEMMA TypeStep == IInv /\ [Next]_vars => TypeOK'
<1> SUFFICES ASSUME IInv, [Next]_vars PROVE TypeOK'
  OBVIOUS
<1> USE OwnerAssumption, NoneAssumption DEF IInv, TypeOK, CallInv,
          IsolationInv, EndInv, Lifecycle, Unresolved, Concluded, vars,
          durable, exchange, call, session
<1>1. CASE Startup
  BY <1>1 DEF Startup, Start, RepairSignal, EnterReconciling, ResolveFound,
      ResolveInconclusive, ResolveDone, IngressDone, SubmitReadyDone,
      EnterRunning, Halt, Idle, SetLifecycle
<1>2. CASE MarketLoop
  <2>1. ASSUME NEW k \in Strategy, ObserveMarket(k) PROVE TypeOK'
    BY <2>1 DEF ObserveMarket, ReceiveEvent
  <2>2. ASSUME NEW k \in Strategy, ObserveFails(k) PROVE TypeOK'
    BY <2>2 DEF ObserveFails, ReceiveEvent
  <2>3. CASE RecoverDone
    BY <2>3 DEF RecoverDone
  <2>4. ASSUME NEW S \in SUBSET Signal, WorkerCommits(S) PROVE TypeOK'
    BY <2>4 DEF WorkerCommits
  <2>5. ASSUME NEW s \in Signal, RejectSignal(s) PROVE TypeOK'
    BY <2>5 DEF RejectSignal, Handed
  <2>6. ASSUME NEW s \in Signal, AllowSignal(s) PROVE TypeOK'
    BY <2>6 DEF AllowSignal, Handed
  <2>7. ASSUME NEW s \in Signal, TerminalizeSignal(s) PROVE TypeOK'
    BY <2>7 DEF TerminalizeSignal, PendingOf
  <2>8. CASE FinishIsolation
    BY <2>8 DEF FinishIsolation, PendingOf, IsolatedStatus, Halt, Idle, Open
  <2> QED BY <1>2, <2>1, <2>2, <2>3, <2>4, <2>5, <2>6, <2>7, <2>8 DEF
          MarketLoop, WorkerFails, SignalsDone
<1>3. CASE Submission
  <2>1. CASE PlaceOrder
    BY <2>1 DEF PlaceOrder
  <2>2. CASE RecordSubmitted
    BY <2>2 DEF RecordSubmitted, SetIntent, Idle
  <2>3. CASE RecordRejected
    BY <2>3 DEF RecordRejected, SetIntent, Idle, CallEnded
  <2>4. CASE ReturnToReady
    BY <2>4 DEF ReturnToReady, SetIntent, Halt, Idle, CallEnded
  <2>5. CASE RecordUnknown
    BY <2>5 DEF RecordUnknown, SetIntent, Halt, Idle
  <2> QED BY <1>3, <2>1, <2>2, <2>3, <2>4, <2>5 DEF Submission,
          BeginSubmission, LeaveSubmitting, CallEnded, Halt, Idle
<1>4. CASE Ending
  <2>1. ASSUME NEW K \in SUBSET Strategy, WriteTerminal(K) PROVE TypeOK'
    BY <2>1 DEF WriteTerminal, SetLifecycle, Forget, Idle
  <2> QED BY <1>4, <2>1 DEF Ending, Crash, Cancel, PlainError, BlockingError,
          Forget, Halt, Idle
<1>5. CASE Exchange
  BY <1>5 DEF Exchange, ExecuteRequest, RefuseRequest, Answers
<1>6. CASE UNCHANGED vars
  BY <1>6
<1> QED BY <1>1, <1>2, <1>3, <1>4, <1>5, <1>6 DEF Next

\* The row of an intent agrees with what the exchange holds of its signal.
LEMMA LedgerStep == IInv /\ [Next]_vars => LedgerInv'
<1> SUFFICES ASSUME IInv, [Next]_vars PROVE LedgerInv'
  OBVIOUS
<1> USE OwnerAssumption, NoneAssumption DEF IInv, TypeOK, LedgerInv, CallInv,
          FlowInv, Open, Unresolved, Concluded, vars, durable, exchange, call,
          session
<1>1. CASE Startup
  <2>1. ASSUME NEW s \in Signal, ResolveFound(s) PROVE LedgerInv'
    <3>1. orders[s] > 0 /\ orders[s] + requests[s] <= 1
      BY <2>1 DEF ResolveFound
    <3>2. orders[s] \in Nat /\ requests[s] \in Nat
      OBVIOUS
    <3>3. orders[s] = 1
      BY <3>1, <3>2, OneOfTwo
    <3> QED BY <2>1, <3>3 DEF ResolveFound
  <2> QED BY <1>1, <2>1 DEF Startup, Start, RepairSignal, EnterReconciling,
          ResolveInconclusive, ResolveDone, IngressDone, SubmitReadyDone,
          EnterRunning, Halt, Idle, SetLifecycle
<1>2. CASE MarketLoop
  <2>1. ASSUME NEW s \in Signal, AllowSignal(s) PROVE LedgerInv'
    BY <2>1 DEF AllowSignal, Handed
  <2>2. CASE FinishIsolation
    BY <2>2 DEF FinishIsolation, PendingOf, IsolatedStatus, Halt, Idle
  <2> QED BY <1>2, <2>1, <2>2 DEF MarketLoop, ObserveMarket, ObserveFails,
          RecoverDone, WorkerCommits, WorkerFails, SignalsDone, RejectSignal,
          TerminalizeSignal, Handed, PendingOf, ReceiveEvent
<1>3. CASE Submission
  <2>1. ASSUME NEW s \in Signal, BeginSubmission(s) PROVE LedgerInv'
    BY <2>1 DEF BeginSubmission
  <2>2. CASE PlaceOrder
    BY <2>2 DEF PlaceOrder
  <2>3. CASE RecordSubmitted
    BY <2>3 DEF RecordSubmitted, SetIntent, Idle
  <2>4. CASE RecordRejected
    BY <2>4 DEF RecordRejected, SetIntent, Idle, CallEnded
  <2>5. CASE ReturnToReady
    BY <2>5 DEF ReturnToReady, SetIntent, Halt, Idle, CallEnded
  <2>6. CASE RecordUnknown
    BY <2>6 DEF RecordUnknown, SetIntent, Halt, Idle
  <2> QED BY <1>3, <2>1, <2>2, <2>3, <2>4, <2>5, <2>6 DEF Submission,
          LeaveSubmitting, CallEnded, Halt, Idle
<1>4. CASE Ending
  BY <1>4 DEF Ending, WriteTerminal, Crash, Cancel, PlainError, BlockingError,
      Forget, Halt, Idle, SetLifecycle
<1>5. CASE Exchange
  <2>1. ASSUME NEW s \in Signal, ExecuteRequest(s) PROVE LedgerInv'
    BY <2>1 DEF ExecuteRequest, Answers
  <2>2. ASSUME NEW s \in Signal, RefuseRequest(s) PROVE LedgerInv'
    BY <2>2 DEF RefuseRequest, Answers
  <2> QED BY <1>5, <2>1, <2>2 DEF Exchange
<1>6. CASE UNCHANGED vars
  BY <1>6
<1> QED BY <1>1, <1>2, <1>3, <1>4, <1>5, <1>6 DEF Next

\* submitIntent knows what it needs to know at each of its stages.
LEMMA CallStep == IInv /\ [Next]_vars => CallInv'
<1> SUFFICES ASSUME IInv, [Next]_vars PROVE CallInv'
  OBVIOUS
<1> USE OwnerAssumption, NoneAssumption DEF IInv, TypeOK, LedgerInv, CallInv,
          FlowInv, vars, durable, exchange, call, session
<1>1. CASE Startup
  <2>1. ASSUME NEW s \in Signal, ResolveFound(s) PROVE CallInv'
    BY <2>1 DEF ResolveFound
  <2> QED BY <1>1, <2>1 DEF Startup, Start, RepairSignal, EnterReconciling,
          ResolveInconclusive, ResolveDone, IngressDone, SubmitReadyDone,
          EnterRunning, Halt, Idle, SetLifecycle
<1>2. CASE MarketLoop
  <2>1. ASSUME NEW s \in Signal, AllowSignal(s) PROVE CallInv'
    BY <2>1 DEF AllowSignal, Handed
  <2>2. CASE FinishIsolation
    BY <2>2 DEF FinishIsolation, PendingOf, IsolatedStatus, Halt, Idle, Open,
        Unresolved
  <2> QED BY <1>2, <2>1, <2>2 DEF MarketLoop, ObserveMarket, ObserveFails,
          RecoverDone, WorkerCommits, WorkerFails, SignalsDone, RejectSignal,
          TerminalizeSignal, Handed, PendingOf, ReceiveEvent
<1>3. CASE Submission
  <2>1. ASSUME NEW s \in Signal, BeginSubmission(s) PROVE CallInv'
    BY <2>1 DEF BeginSubmission
  <2>2. CASE PlaceOrder
    BY <2>2 DEF PlaceOrder
  <2>3. CASE RecordSubmitted
    BY <2>3 DEF RecordSubmitted, SetIntent, Idle
  <2>4. CASE RecordRejected
    BY <2>4 DEF RecordRejected, SetIntent, Idle, CallEnded
  <2>5. CASE ReturnToReady
    BY <2>5 DEF ReturnToReady, SetIntent, Halt, Idle, CallEnded
  <2>6. CASE LeaveSubmitting
    BY <2>6 DEF LeaveSubmitting, Halt, Idle, CallEnded
  <2>7. CASE RecordUnknown
    BY <2>7 DEF RecordUnknown, SetIntent, Halt, Idle
  <2> QED BY <1>3, <2>1, <2>2, <2>3, <2>4, <2>5, <2>6, <2>7 DEF Submission
<1>4. CASE Ending
  BY <1>4 DEF Ending, WriteTerminal, Crash, Cancel, PlainError, BlockingError,
      Forget, Halt, Idle, SetLifecycle
<1>5. CASE Exchange
  <2>1. ASSUME NEW s \in Signal, ExecuteRequest(s) PROVE CallInv'
    <3>1. requests[s] > 0 /\ requests[s] + orders[s] <= 1
      BY <2>1 DEF ExecuteRequest
    <3>2. orders[s] \in Nat /\ requests[s] \in Nat
      OBVIOUS
    <3>3. requests[s] = 1 /\ orders[s] = 0
      BY <3>1, <3>2, OneOfTwo
    <3>4. intent' = intent /\ stage' = stage /\ current' = current
      BY <2>1 DEF ExecuteRequest
    <3>5. requests'[s] = 0 /\ orders'[s] = 1
      BY <2>1, <3>3 DEF ExecuteRequest
    <3>6. CASE stage = "waiting" /\ current = s
      BY <2>1, <3>3, <3>4, <3>5, <3>6 DEF ExecuteRequest, Answers
    <3>7. CASE ~(stage = "waiting" /\ current = s)
      BY <2>1, <3>3, <3>4, <3>7 DEF ExecuteRequest, Answers
    <3> QED BY <3>6, <3>7
  <2>2. ASSUME NEW s \in Signal, RefuseRequest(s) PROVE CallInv'
    <3>1. requests[s] > 0 /\ requests[s] + orders[s] <= 1
      BY <2>2 DEF RefuseRequest
    <3>2. orders[s] \in Nat /\ requests[s] \in Nat
      OBVIOUS
    <3>3. requests[s] = 1 /\ orders[s] = 0
      BY <3>1, <3>2, OneOfTwo
    <3>4. intent' = intent /\ stage' = stage /\ current' = current /\ orders' = orders
      BY <2>2 DEF RefuseRequest
    <3>5. requests'[s] = 0 /\ orders'[s] = 0
      BY <2>2, <3>3 DEF RefuseRequest
    <3>6. CASE stage = "waiting" /\ current = s
      BY <2>2, <3>3, <3>4, <3>5, <3>6 DEF RefuseRequest, Answers
    <3>7. CASE ~(stage = "waiting" /\ current = s)
      BY <2>2, <3>3, <3>4, <3>7 DEF RefuseRequest, Answers
    <3> QED BY <3>6, <3>7
  <2> QED BY <1>5, <2>1, <2>2 DEF Exchange
<1>6. CASE UNCHANGED vars
  BY <1>6
<1> QED BY <1>1, <1>2, <1>3, <1>4, <1>5, <1>6 DEF Next

\* Decision and intent are written by one transaction.
LEMMA DecisionStep == IInv /\ [Next]_vars => DecisionInv'
<1> SUFFICES ASSUME IInv, [Next]_vars PROVE DecisionInv'
  OBVIOUS
<1> USE OwnerAssumption, NoneAssumption DEF IInv, TypeOK, CallInv,
          DecisionInv, Unresolved, Concluded, vars, durable, exchange, call,
          session
<1>1. CASE Startup
  <2>1. ASSUME NEW s \in Signal, RepairSignal(s) PROVE DecisionInv'
    BY <2>1 DEF RepairSignal
  <2>2. ASSUME NEW s \in Signal, ResolveFound(s) PROVE DecisionInv'
    BY <2>2 DEF ResolveFound
  <2> QED BY <1>1, <2>1, <2>2 DEF Startup, Start, EnterReconciling,
          ResolveInconclusive, ResolveDone, IngressDone, SubmitReadyDone,
          EnterRunning, Halt, Idle, SetLifecycle
<1>2. CASE MarketLoop
  <2>1. ASSUME NEW S \in SUBSET Signal, WorkerCommits(S) PROVE DecisionInv'
    BY <2>1 DEF WorkerCommits
  <2>2. ASSUME NEW s \in Signal, RejectSignal(s) PROVE DecisionInv'
    BY <2>2 DEF RejectSignal, Handed
  <2>3. ASSUME NEW s \in Signal, AllowSignal(s) PROVE DecisionInv'
    BY <2>3 DEF AllowSignal, Handed
  <2>4. ASSUME NEW s \in Signal, TerminalizeSignal(s) PROVE DecisionInv'
    BY <2>4 DEF TerminalizeSignal, PendingOf
  <2>5. CASE FinishIsolation
    BY <2>5 DEF FinishIsolation, PendingOf, IsolatedStatus, Halt, Idle, Open
  <2> QED BY <1>2, <2>1, <2>2, <2>3, <2>4, <2>5 DEF MarketLoop, ObserveMarket,
          ObserveFails, RecoverDone, WorkerFails, SignalsDone, ReceiveEvent
<1>3. CASE Submission
  <2>1. ASSUME NEW s \in Signal, BeginSubmission(s) PROVE DecisionInv'
    BY <2>1 DEF BeginSubmission
  <2>2. CASE RecordSubmitted
    BY <2>2 DEF RecordSubmitted, SetIntent, Idle
  <2>3. CASE RecordRejected
    BY <2>3 DEF RecordRejected, SetIntent, Idle, CallEnded
  <2>4. CASE ReturnToReady
    BY <2>4 DEF ReturnToReady, SetIntent, Halt, Idle, CallEnded
  <2>5. CASE RecordUnknown
    BY <2>5 DEF RecordUnknown, SetIntent, Halt, Idle
  <2> QED BY <1>3, <2>1, <2>2, <2>3, <2>4, <2>5 DEF Submission, PlaceOrder,
          LeaveSubmitting, CallEnded, Halt, Idle
<1>4. CASE Ending
  BY <1>4 DEF Ending, WriteTerminal, Crash, Cancel, PlainError, BlockingError,
      Forget, Halt, Idle, SetLifecycle
<1>5. CASE Exchange
  BY <1>5 DEF Exchange, ExecuteRequest, RefuseRequest, Answers
<1>6. CASE UNCHANGED vars
  BY <1>6
<1> QED BY <1>1, <1>2, <1>3, <1>4, <1>5, <1>6 DEF Next

\* Only one intent is unresolved, and only where the run expects it.
LEMMA FlowStep == IInv /\ [Next]_vars => FlowInv'
<1> SUFFICES ASSUME IInv, [Next]_vars PROVE FlowInv'
  OBVIOUS
<1> USE OwnerAssumption, NoneAssumption DEF IInv, TypeOK, CallInv, FlowInv,
          Open, Unresolved, Concluded, vars, durable, exchange, call, session
<1>1. CASE Startup
  <2>1. ASSUME NEW s \in Signal, ResolveFound(s) PROVE FlowInv'
    BY <2>1 DEF ResolveFound
  <2>2. CASE ResolveDone
    BY <2>2 DEF ResolveDone
  <2>3. CASE SubmitReadyDone
    BY <2>3 DEF SubmitReadyDone
  <2> QED BY <1>1, <2>1, <2>2, <2>3 DEF Startup, Start, RepairSignal,
          EnterReconciling, ResolveInconclusive, IngressDone, EnterRunning,
          Halt, Idle, SetLifecycle
<1>2. CASE MarketLoop
  <2>1. ASSUME NEW s \in Signal, AllowSignal(s) PROVE FlowInv'
    BY <2>1 DEF AllowSignal, Handed
  <2>2. CASE FinishIsolation
    BY <2>2 DEF FinishIsolation, PendingOf, IsolatedStatus, Halt, Idle
  <2> QED BY <1>2, <2>1, <2>2 DEF MarketLoop, ObserveMarket, ObserveFails,
          RecoverDone, WorkerCommits, WorkerFails, SignalsDone, RejectSignal,
          TerminalizeSignal, Handed, PendingOf, ReceiveEvent
<1>3. CASE Submission
  <2>1. ASSUME NEW s \in Signal, BeginSubmission(s) PROVE FlowInv'
    BY <2>1 DEF BeginSubmission
  <2>2. CASE RecordSubmitted
    BY <2>2 DEF RecordSubmitted, SetIntent, Idle
  <2>3. CASE RecordRejected
    BY <2>3 DEF RecordRejected, SetIntent, Idle, CallEnded
  <2>4. CASE ReturnToReady
    BY <2>4 DEF ReturnToReady, SetIntent, Halt, Idle, CallEnded
  <2>5. CASE LeaveSubmitting
    BY <2>5 DEF LeaveSubmitting, Halt, Idle, CallEnded
  <2>6. CASE RecordUnknown
    BY <2>6 DEF RecordUnknown, SetIntent, Halt, Idle
  <2> QED BY <1>3, <2>1, <2>2, <2>3, <2>4, <2>5, <2>6 DEF Submission,
          PlaceOrder
<1>4. CASE Ending
  BY <1>4 DEF Ending, WriteTerminal, Crash, Cancel, PlainError, BlockingError,
      Forget, Halt, Idle, SetLifecycle
<1>5. CASE Exchange
  BY <1>5 DEF Exchange, ExecuteRequest, RefuseRequest, Answers
<1>6. CASE UNCHANGED vars
  BY <1>6
<1> QED BY <1>1, <1>2, <1>3, <1>4, <1>5, <1>6 DEF Next

\* Isolation leaves no pending signal and no call of the strategy.
LEMMA IsolationStep == IInv /\ [Next]_vars => IsolationInv'
<1> SUFFICES ASSUME IInv, [Next]_vars PROVE IsolationInv'
  OBVIOUS
<1> USE OwnerAssumption, NoneAssumption DEF IInv, TypeOK, CallInv, FlowInv,
          IsolationInv, PendingOf, vars, durable, exchange, call, session
<1>1. CASE Startup
  <2>1. ASSUME NEW s \in Signal, RepairSignal(s) PROVE IsolationInv'
    BY <2>1 DEF RepairSignal
  <2> QED BY <1>1, <2>1 DEF Startup, Start, EnterReconciling, ResolveFound,
          ResolveInconclusive, ResolveDone, IngressDone, SubmitReadyDone,
          EnterRunning, Halt, Idle, SetLifecycle
<1>2. CASE MarketLoop
  <2>1. ASSUME NEW k \in Strategy, ObserveMarket(k) PROVE IsolationInv'
    BY <2>1 DEF ObserveMarket, ReceiveEvent
  <2>2. ASSUME NEW k \in Strategy, ObserveFails(k) PROVE IsolationInv'
    BY <2>2 DEF ObserveFails, ReceiveEvent
  <2>3. ASSUME NEW S \in SUBSET Signal, WorkerCommits(S) PROVE IsolationInv'
    BY <2>3 DEF WorkerCommits
  <2>4. CASE SignalsDone
    BY <2>4 DEF SignalsDone
  <2>5. ASSUME NEW s \in Signal, RejectSignal(s) PROVE IsolationInv'
    BY <2>5 DEF RejectSignal, Handed
  <2>6. ASSUME NEW s \in Signal, AllowSignal(s) PROVE IsolationInv'
    BY <2>6 DEF AllowSignal, Handed
  <2>7. ASSUME NEW s \in Signal, TerminalizeSignal(s) PROVE IsolationInv'
    BY <2>7 DEF TerminalizeSignal
  <2>8. CASE FinishIsolation
    BY <2>8 DEF FinishIsolation, IsolatedStatus, Halt, Idle, Open, Unresolved
  <2> QED BY <1>2, <2>1, <2>2, <2>3, <2>4, <2>5, <2>6, <2>7, <2>8 DEF
          MarketLoop, RecoverDone, WorkerFails
<1>3. CASE Submission
  <2>1. ASSUME NEW s \in Signal, BeginSubmission(s) PROVE IsolationInv'
    BY <2>1 DEF BeginSubmission
  <2> QED BY <1>3, <2>1 DEF Submission, PlaceOrder, RecordSubmitted,
          RecordRejected, ReturnToReady, LeaveSubmitting, RecordUnknown,
          CallEnded, Halt, Idle, SetIntent
<1>4. CASE Ending
  BY <1>4 DEF Ending, WriteTerminal, Crash, Cancel, PlainError, BlockingError,
      Forget, Halt, Idle, SetLifecycle
<1>5. CASE Exchange
  BY <1>5 DEF Exchange, ExecuteRequest, RefuseRequest, Answers
<1>6. CASE UNCHANGED vars
  BY <1>6
<1> QED BY <1>1, <1>2, <1>3, <1>4, <1>5, <1>6 DEF Next

\* A run never stops without an outcome.
LEMMA EndStep == IInv /\ [Next]_vars => EndInv'
<1> SUFFICES ASSUME IInv, [Next]_vars PROVE EndInv'
  OBVIOUS
<1> USE OwnerAssumption, NoneAssumption DEF IInv, TypeOK, EndInv, vars,
          durable, exchange, call, session
<1>1. CASE Startup
  BY <1>1 DEF Startup, Start, RepairSignal, EnterReconciling, ResolveFound,
      ResolveInconclusive, ResolveDone, IngressDone, SubmitReadyDone,
      EnterRunning, Halt, Idle, SetLifecycle
<1>2. CASE MarketLoop
  BY <1>2 DEF MarketLoop, ObserveMarket, ObserveFails, RecoverDone,
      WorkerCommits, WorkerFails, SignalsDone, RejectSignal, AllowSignal,
      TerminalizeSignal, FinishIsolation, Halt, Handed, Idle, IsolatedStatus,
      Open, PendingOf, ReceiveEvent, Unresolved
<1>3. CASE Submission
  BY <1>3 DEF Submission, BeginSubmission, PlaceOrder, RecordSubmitted,
      RecordRejected, ReturnToReady, LeaveSubmitting, RecordUnknown,
      CallEnded, Halt, Idle, SetIntent
<1>4. CASE Ending
  BY <1>4 DEF Ending, WriteTerminal, Crash, Cancel, PlainError, BlockingError,
      Forget, Halt, Idle, SetLifecycle
<1>5. CASE Exchange
  BY <1>5 DEF Exchange, ExecuteRequest, RefuseRequest, Answers
<1>6. CASE UNCHANGED vars
  BY <1>6
<1> QED BY <1>1, <1>2, <1>3, <1>4, <1>5, <1>6 DEF Next

\* The invariant is inductive.
LEMMA InductiveStep == IInv /\ [Next]_vars => IInv'
  BY TypeStep, LedgerStep, CallStep, DecisionStep, FlowStep, IsolationStep, EndStep
     DEF IInv

\* The first start satisfies it.
LEMMA InductiveInit == Init => IInv
<1> SUFFICES ASSUME Init PROVE IInv
  OBVIOUS
<1> USE DEF Init
<1>1. TypeOK
  BY DEF TypeOK, Lifecycle, Unresolved, Concluded
<1>2. LedgerInv /\ DecisionInv
  BY DEF LedgerInv, DecisionInv
<1>3. CallInv /\ IsolationInv /\ EndInv
  BY DEF CallInv, IsolationInv, EndInv
<1>4. FlowInv
  BY DEF FlowInv, Open, Unresolved
<1> QED BY <1>1, <1>2, <1>3, <1>4 DEF IInv

\* The invariant holds throughout.
LEMMA Inductive == Spec => []IInv
<1>1. Init => IInv
  BY InductiveInit
<1>2. IInv /\ [Next]_vars => IInv'
  BY InductiveStep
<1> QED BY <1>1, <1>2, PTL DEF Spec
-----------------------------------------------------------------------------
(* The theorems *)

\* Every variable keeps its type.
THEOREM TypeCorrect == Spec => []TypeOK
<1>1. IInv => TypeOK
  BY DEF IInv
<1> QED BY Inductive, <1>1, PTL

\* The exchange executes at most one order per signal: no crash, timeout, late
\* execution or restart makes the agent send a second request.
THEOREM OneOrderPerSignal == Spec => []AtMostOneOrder
<1>1. IInv => AtMostOneOrder
  <2> SUFFICES ASSUME IInv, NEW s \in Signal PROVE orders[s] <= 1
    BY DEF AtMostOneOrder
  <2>1. requests[s] + orders[s] <= 1
    BY DEF IInv, LedgerInv
  <2>2. requests[s] \in Nat /\ orders[s] \in Nat
    BY DEF IInv, TypeOK
  <2> QED BY <2>1, <2>2
<1> QED BY Inductive, <1>1, PTL

\* What startup takes a "ready" row for, it is.
THEOREM ReadyIsSafeToSubmit == Spec => []ReadyNeverCrossedTheAPI
<1>1. IInv => ReadyNeverCrossedTheAPI
  BY DEF IInv, LedgerInv, ReadyNeverCrossedTheAPI
<1> QED BY Inductive, <1>1, PTL

\* Recorded conclusions agree with what the exchange did and can still do.
THEOREM ConclusionsHold == Spec => []ConclusionsAreTrue
<1>1. IInv => ConclusionsAreTrue
  BY DEF IInv, LedgerInv, ConclusionsAreTrue
<1> QED BY Inductive, <1>1, PTL

\* Never two unresolved intents, and none but the call in progress while trading.
THEOREM OneIntentAtATime == Spec => [](OneOpenIntent /\ NothingOpenWhileTrading)
<1>1. IInv => OneOpenIntent /\ NothingOpenWhileTrading
  <2> SUFFICES ASSUME IInv PROVE OneOpenIntent /\ NothingOpenWhileTrading
    OBVIOUS
  <2>1. OneOpenIntent
    BY DEF IInv, FlowInv, OneOpenIntent
  <2>2. NothingOpenWhileTrading
    <3>1. CASE stage = "idle"
      BY <3>1 DEF IInv, FlowInv, NothingOpenWhileTrading
    <3>2. CASE stage # "idle"
      BY <3>2 DEF IInv, FlowInv, NothingOpenWhileTrading
    <3> QED BY <3>1, <3>2
  <2> QED BY <2>1, <2>2
<1> QED BY Inductive, <1>1, PTL

\* While the market loop runs, the only unresolved intent is that of the call in
\* progress.
THEOREM NothingIsOpenWhileTrading == Spec => []NothingOpenWhileTrading
BY OneIntentAtATime, PTL
-----------------------------------------------------------------------------
(* What a step may do *)

\* Once a strategy is isolated, no request of its signals is sent in that run.
THEOREM IsolationHolds == Spec => IsolatedStrategySendsNothing
<1>1. IInv /\ [Next]_vars =>
          [\A s \in Signal : requests'[s] > requests[s] => Owner[s] \notin failed]_vars
  <2> SUFFICES ASSUME IInv, [Next]_vars, NEW s \in Signal, requests'[s] > requests[s]
               PROVE  Owner[s] \notin failed
    OBVIOUS
  <2>1. requests[s] \in Nat
    BY DEF IInv, TypeOK
  <2>2. CASE PlaceOrder
    <3>1. s = current
      BY <2>1, <2>2 DEF PlaceOrder, IInv, TypeOK
    <3> QED BY <2>2, <3>1 DEF PlaceOrder, IInv, IsolationInv
  <2>3. CASE Exchange
    BY <2>1, <2>3 DEF Exchange, ExecuteRequest, RefuseRequest, IInv, TypeOK
  <2>4. CASE requests' = requests
    BY <2>1, <2>4
  <2> QED
    BY <2>2, <2>3, <2>4
       DEF Next, Startup, MarketLoop, Submission, Ending, vars, exchange, durable,
           Start, RepairSignal, EnterReconciling, ResolveFound, ResolveInconclusive,
           ResolveDone, IngressDone, SubmitReadyDone, EnterRunning, ReceiveEvent,
           ObserveMarket, ObserveFails, RecoverDone, WorkerCommits, WorkerFails,
           SignalsDone, RejectSignal, AllowSignal, TerminalizeSignal, FinishIsolation,
           BeginSubmission, RecordSubmitted, RecordRejected, ReturnToReady,
           LeaveSubmitting, RecordUnknown, WriteTerminal, Crash, Cancel, PlainError,
           BlockingError
<1> QED BY Inductive, <1>1, PTL DEF Spec, IsolatedStrategySendsNothing
-----------------------------------------------------------------------------
(* OrderSubmission implements OrderOnce *)

\* How intents are recorded, after a write to one row.
LEMMA RecordedAfterWrite ==
    ASSUME TypeOK, NEW s \in Signal, NEW status, intent' = [intent EXCEPT ![s] = status]
    PROVE  /\ status = "submitted" => recorded' = [recorded EXCEPT ![s] = "placed"]
           /\ status = "rejected" => recorded' = [recorded EXCEPT ![s] = "refused"]
           /\ status \in Unresolved /\ intent[s] \in Unresolved \cup {"none"} =>
                  recorded' = recorded
  BY DEF TypeOK, recorded, Unresolved, Concluded

\* A decision of the agent is Decide of the promise.
LEMMA DecideStep ==
    ASSUME NEW s \in Signal, decision[s] = "pending",
           NEW d \in {"allowed", "rejected"}, decision' = [decision EXCEPT ![s] = d],
           orders' = orders, recorded' = recorded
    PROVE  Promise!Next
  BY DEF Promise!Next, Promise!Decide

\* Resolving an intent is Conclude of the promise.
LEMMA ConcludeStep ==
    ASSUME NEW s \in Signal, decision[s] = "allowed", recorded[s] = "open",
           recorded' = [recorded EXCEPT ![s] = IF orders[s] = 1 THEN "placed" ELSE "refused"],
           orders' = orders, decision' = decision
    PROVE  Promise!Next
  BY DEF Promise!Next, Promise!Conclude

\* Every step of the agent is a step of the promise or a stutter.
LEMMA RefinementStep == IInv /\ [Next]_vars => [Promise!Next]_(Promise!vars)
<1> SUFFICES ASSUME IInv, [Next]_vars PROVE [Promise!Next]_(Promise!vars)
  OBVIOUS
<1> USE DEF IInv
<1>0. ASSUME decision' = decision, orders' = orders, intent' = intent
      PROVE  UNCHANGED Promise!vars
  BY <1>0 DEF recorded, Promise!vars
<1>1. CASE Startup
  <2>1. ASSUME NEW s \in Signal, RepairSignal(s) PROVE Promise!Next
    <3>1. recorded' = recorded
      BY <2>1 DEF RepairSignal, recorded
    <3> QED BY <2>1, <3>1, DecideStep DEF RepairSignal, exchange
  <2>2. ASSUME NEW s \in Signal, ResolveFound(s) PROVE Promise!Next
    <3>1. orders[s] > 0 /\ orders[s] + requests[s] <= 1
      BY <2>2 DEF ResolveFound, LedgerInv, TypeOK
    <3>2. orders[s] \in Nat /\ requests[s] \in Nat
      BY DEF TypeOK
    <3>3. orders[s] = 1
      BY <3>1, <3>2, OneOfTwo
    <3>4. recorded' = [recorded EXCEPT ![s] = "placed"]
      BY <2>2, RecordedAfterWrite DEF ResolveFound
    <3>5. decision[s] = "allowed" /\ recorded[s] = "open"
      BY <2>2 DEF ResolveFound, DecisionInv, recorded
    <3>6. orders' = orders /\ decision' = decision
      BY <2>2 DEF ResolveFound, exchange
    <3> QED BY <3>3, <3>4, <3>5, <3>6, ConcludeStep
  <2> QED
    BY <1>0, <1>1, <2>1, <2>2
       DEF Startup, Start, EnterReconciling, ResolveInconclusive, ResolveDone, IngressDone,
           SubmitReadyDone, EnterRunning, durable, exchange
<1>2. CASE MarketLoop
  <2>1. ASSUME NEW S \in SUBSET Signal, WorkerCommits(S)
        PROVE  [Promise!Next]_(Promise!vars)
    <3>1. recorded' = recorded /\ orders' = orders
      BY <2>1 DEF WorkerCommits, recorded, exchange
    <3>2. CASE S = {}
      <4>1. decision' = decision
        BY <2>1, <3>2 DEF WorkerCommits, TypeOK
      <4> QED BY <3>1, <4>1 DEF Promise!vars
    <3>3. CASE S # {}
      BY <2>1, <3>1, <3>3 DEF WorkerCommits, Promise!Next, Promise!Emit
    <3> QED BY <3>2, <3>3
  <2>2. ASSUME NEW s \in Signal, RejectSignal(s) PROVE Promise!Next
    <3>1. recorded' = recorded
      BY <2>2 DEF RejectSignal, recorded
    <3> QED BY <2>2, <3>1, DecideStep DEF RejectSignal, exchange
  <2>3. ASSUME NEW s \in Signal, AllowSignal(s) PROVE Promise!Next
    <3>1. recorded' = recorded
      BY <2>3, RecordedAfterWrite DEF AllowSignal, Unresolved
    <3> QED BY <2>3, <3>1, DecideStep DEF AllowSignal, exchange
  <2>4. ASSUME NEW s \in Signal, TerminalizeSignal(s) PROVE Promise!Next
    <3>1. recorded' = recorded
      BY <2>4 DEF TerminalizeSignal, recorded
    <3> QED BY <2>4, <3>1, DecideStep DEF TerminalizeSignal, PendingOf, exchange
  <2>5. ASSUME FinishIsolation PROVE UNCHANGED Promise!vars
    <3>1. Open = {}
      BY <2>5 DEF FinishIsolation, FlowInv
    <3>2. intent' = intent
      BY <2>5, <3>1 DEF FinishIsolation, TypeOK
    <3> QED BY <1>0, <2>5, <3>2 DEF FinishIsolation, exchange
  <2> QED
    BY <1>0, <1>2, <2>1, <2>2, <2>3, <2>4, <2>5
       DEF MarketLoop, ReceiveEvent, ObserveMarket, ObserveFails, RecoverDone, WorkerFails,
           SignalsDone, durable, exchange
<1>3. CASE Submission
  <2>0. stage \in {"calling", "waiting"} =>
            /\ current \in Signal /\ intent[current] = "submitting"
            /\ decision[current] = "allowed" /\ recorded[current] = "open"
    BY DEF CallInv, DecisionInv, recorded
  <2>1. ASSUME NEW s \in Signal, BeginSubmission(s) PROVE UNCHANGED Promise!vars
    <3>1. recorded' = recorded
      BY <2>1, RecordedAfterWrite DEF BeginSubmission, Unresolved
    <3> QED BY <2>1, <3>1 DEF BeginSubmission, exchange, Promise!vars
  <2>2. CASE RecordSubmitted
    <3>1. recorded' = [recorded EXCEPT ![current] = "placed"]
      BY <2>0, <2>2, RecordedAfterWrite DEF RecordSubmitted, SetIntent
    <3>2. orders[current] = 1
      BY <2>2 DEF RecordSubmitted, CallInv
    <3>3. orders' = orders /\ decision' = decision
      BY <2>2 DEF RecordSubmitted, SetIntent, exchange
    <3> QED BY <2>0, <2>2, <3>1, <3>2, <3>3, ConcludeStep DEF RecordSubmitted
  <2>3. CASE RecordRejected
    <3>1. recorded' = [recorded EXCEPT ![current] = "refused"]
      BY <2>0, <2>3, RecordedAfterWrite DEF RecordRejected, SetIntent, CallEnded
    <3>2. orders[current] = 0
      BY <2>3 DEF RecordRejected, CallEnded, CallInv
    <3>3. orders' = orders /\ decision' = decision
      BY <2>3 DEF RecordRejected, SetIntent, exchange
    <3>4. recorded' = [recorded EXCEPT ![current] =
                            IF orders[current] = 1 THEN "placed" ELSE "refused"]
      BY <3>1, <3>2
    <3>5. /\ current \in Signal
          /\ decision[current] = "allowed" /\ recorded[current] = "open"
      BY <2>0, <2>3 DEF RecordRejected, CallEnded
    <3> QED BY <3>3, <3>4, <3>5, ConcludeStep
  <2>4. CASE ReturnToReady
    <3>1. recorded' = recorded
      BY <2>0, <2>4, RecordedAfterWrite DEF ReturnToReady, SetIntent, CallEnded, Unresolved
    <3> QED BY <2>4, <3>1 DEF ReturnToReady, SetIntent, exchange, Promise!vars
  <2>5. CASE RecordUnknown
    <3>1. recorded' = recorded
      BY <2>0, <2>5, RecordedAfterWrite DEF RecordUnknown, SetIntent, Unresolved
    <3> QED BY <2>5, <3>1 DEF RecordUnknown, SetIntent, exchange, Promise!vars
  <2> QED
    BY <1>0, <1>3, <2>1, <2>2, <2>3, <2>4, <2>5
       DEF Submission, PlaceOrder, LeaveSubmitting, durable, exchange
<1>4. CASE Ending
  BY <1>0, <1>4
     DEF Ending, WriteTerminal, Crash, Cancel, PlainError, BlockingError, durable, exchange
<1>5. CASE Exchange
  <2>1. ASSUME NEW s \in Signal, ExecuteRequest(s) PROVE Promise!Next
    <3>1. requests[s] > 0 /\ requests[s] + orders[s] <= 1
      BY <2>1 DEF ExecuteRequest, LedgerInv, TypeOK
    <3>2. orders[s] \in Nat /\ requests[s] \in Nat
      BY DEF TypeOK
    <3>3. requests[s] = 1 /\ orders[s] = 0
      BY <3>1, <3>2, OneOfTwo
    <3>4. intent[s] \in {"submitting", "unknown"}
      BY <3>3 DEF LedgerInv, TypeOK, Unresolved, Concluded
    <3>5. decision[s] = "allowed" /\ recorded[s] = "open"
      BY <3>4 DEF DecisionInv, recorded
    <3>6. orders' = [orders EXCEPT ![s] = 1]
      BY <2>1, <3>3 DEF ExecuteRequest, TypeOK
    <3>7. decision' = decision /\ recorded' = recorded
      BY <2>1 DEF ExecuteRequest, durable, recorded
    <3> QED BY <3>3, <3>5, <3>6, <3>7 DEF Promise!Next, Promise!Place
  <2>2. ASSUME NEW s \in Signal, RefuseRequest(s) PROVE UNCHANGED Promise!vars
    BY <1>0, <2>2 DEF RefuseRequest, durable
  <2> QED BY <1>5, <2>1, <2>2 DEF Exchange
<1>6. CASE UNCHANGED vars
  BY <1>0, <1>6 DEF vars, durable, exchange
<1> QED BY <1>1, <1>2, <1>3, <1>4, <1>5, <1>6 DEF Next

\* Deciding once, ordering at most once and concluding truthfully and for good:
\* every behaviour of the agent is one of OrderOnce.
THEOREM KeepsThePromise == Spec => ImplementsPromise
<1>1. Init => Promise!Init
  BY DEF Init, Promise!Init, recorded
<1> QED BY Inductive, RefinementStep, <1>1, PTL DEF Spec, ImplementsPromise, Promise!Spec
=============================================================================
