--------------------------- MODULE OrderSubmission ---------------------------
(***************************************************************************)
(* The path from a strategy signal to an order on the exchange:            *)
(*   internal/agent (Run, startup, runMarketLoop, submitIntent, isolation  *)
(*   of a failed strategy) over the tables signals, risk_decisions,        *)
(*   order_intents and strategy_lifecycle of internal/storage/sqlite.      *)
(*                                                                         *)
(* One agent process runs one goroutine that writes these tables; it may   *)
(* crash between any two transactions and be started again.  The exchange  *)
(* is external: a PlaceOrder request may be executed long after the caller *)
(* stopped waiting, may be refused, and its answer may be lost.  It is NOT *)
(* assumed to drop a second request with the same client order ID, and a   *)
(* lookup by client order ID may miss an order that exists.                *)
(***************************************************************************)
EXTENDS Naturals, FiniteSets

CONSTANTS
    Signal,         \* signals the strategies may ever emit (one order each)
    Strategy,       \* configured strategy bindings, one instrument each
    Owner,          \* Owner[s]: the strategy that emits signal s
    None            \* stands for "no signal" and "no strategy"

ASSUME OwnerAssumption == Owner \in [Signal -> Strategy]
ASSUME NoneAssumption  == None \notin Signal \cup Strategy

VARIABLES
    (* SQLite: survives a crash *)
    decision,       \* outbox row of a signal joined with its risk decision
    intent,         \* status of the signal's order intent, "none" if no row
    lifecycle,      \* strategy_lifecycle.runtime_status
    (* the exchange *)
    requests,       \* PlaceOrder requests on the wire, not yet processed
    orders,         \* orders the exchange executed for the signal
    (* memory of the running agent: lost in a crash *)
    pc,             \* where Runtime.Run is
    queue,          \* signals returned by worker.Process, not yet processed
    current,        \* the signal whose intent is being submitted
    stage,          \* how far submitIntent got with it
    reply,          \* the answer PlaceOrder has received
    event,          \* strategy the current market event (or failure) is about
    observed,       \* strategies no longer in pendingObservers
    recovered,      \* signalsRecovered
    failed,         \* failedStrategies: isolated in this run
    outcome         \* how the run ends: runtimeTerminalStatus

durable  == <<decision, intent, lifecycle>>
exchange == <<requests, orders>>
call     == <<current, stage, reply>>
session  == <<event, observed, recovered, failed>>
vars     == <<durable, exchange, pc, queue, call, session, outcome>>

Lifecycle == {"reconciling", "running", "stopped", "failed", "blocked"}
Unresolved == {"ready", "submitting", "unknown"}
Concluded  == {"submitted", "rejected", "not_submitted"}

\* The intents ListPendingOrderIntents returns.
Open == {s \in Signal : intent[s] \in Unresolved}

PendingOf(k) == {s \in Signal : Owner[s] = k /\ decision[s] = "pending"}

TypeOK ==
    /\ decision \in [Signal -> {"none", "pending", "allowed", "rejected"}]
    /\ intent \in [Signal -> {"none"} \cup Unresolved \cup Concluded]
    /\ lifecycle \in [Strategy -> Lifecycle]
    /\ requests \in [Signal -> Nat]
    /\ orders \in [Signal -> Nat]
    /\ pc \in {"down", "repair", "resolve", "ingress", "submit_ready", "closing",
               "running", "recover", "process", "signals", "isolate", "stopping"}
    /\ queue \subseteq Signal
    /\ current \in Signal \cup {None}
    /\ stage \in {"idle", "begin", "calling", "waiting"}
    /\ reply \in {"none", "ok", "refused", "limited", "not_found"}
    /\ event \in Strategy \cup {None}
    /\ observed \subseteq Strategy
    /\ recovered \in BOOLEAN
    /\ failed \subseteq Strategy
    /\ outcome \in {"none", "stopped", "failed", "blocked"}

Idle == current' = None /\ stage' = "idle" /\ reply' = "none"

Init ==
    /\ decision = [s \in Signal |-> "none"]
    /\ intent = [s \in Signal |-> "none"]
    /\ lifecycle = [k \in Strategy |-> "stopped"]
    /\ requests = [s \in Signal |-> 0]
    /\ orders = [s \in Signal |-> 0]
    /\ pc = "down" /\ queue = {}
    /\ current = None /\ stage = "idle" /\ reply = "none"
    /\ event = None /\ observed = {} /\ recovered = FALSE /\ failed = {}
    /\ outcome = "none"
-----------------------------------------------------------------------------
(* Ending a run *)

\* The call in progress returns an error up to Run, whose deferred function
\* writes the terminal lifecycle.
Halt(how) ==
    /\ pc' = "stopping" /\ outcome' = how
    /\ queue' = {} /\ Idle

Forget ==
    /\ pc' = "down" /\ outcome' = "none"
    /\ queue' = {} /\ Idle
    /\ event' = None /\ observed' = {} /\ recovered' = FALSE /\ failed' = {}

\* setLifecycle goes on after a failed update, so any subset K may be written.
SetLifecycle(K, status) ==
    lifecycle' = [k \in Strategy |-> IF k \in K THEN status ELSE lifecycle[k]]

\* setTerminalLifecycle skips the strategies isolated in this run.
WriteTerminal(K) ==
    /\ pc = "stopping"
    /\ K \subseteq Strategy \ failed
    /\ SetLifecycle(K, outcome)
    /\ Forget
    /\ UNCHANGED <<decision, intent, exchange>>

\* The process dies between two transactions; a request stays on the wire.
Crash ==
    /\ pc # "down"
    /\ Forget
    /\ UNCHANGED <<durable, exchange>>

\* The context is cancelled: every write after it fails, so nothing changes.
Cancel ==
    /\ pc \notin {"down", "repair", "stopping"}
    /\ Halt("stopped")
    /\ UNCHANGED <<durable, exchange, session>>

\* A storage call, the risk gate or a drain returns a plain error.
PlainError ==
    /\ pc \in {"resolve", "submit_ready", "running", "recover", "process",
               "signals", "isolate"}
    /\ Halt("failed")
    /\ UNCHANGED <<durable, exchange, session>>

\* A stream closes, history or reconciliation fails, or an order the exchange
\* confirmed cannot be recorded: blockedRuntimeError.
BlockingError ==
    /\ \/ pc \in {"resolve", "ingress", "closing", "running", "isolate"}
       \/ stage = "waiting" /\ reply = "ok"
    /\ Halt("blocked")
    /\ UNCHANGED <<durable, exchange, session>>
-----------------------------------------------------------------------------
(* Startup *)

Start ==
    /\ pc = "down"
    /\ pc' = "repair"
    /\ UNCHANGED <<durable, exchange, queue, call, session, outcome>>

\* Signals left by a strategy whose last run failed are rejected, one
\* transaction each.
RepairSignal(s) ==
    /\ pc = "repair"
    /\ lifecycle[Owner[s]] = "failed"
    /\ decision[s] = "pending"
    /\ decision' = [decision EXCEPT ![s] = "rejected"]
    /\ UNCHANGED <<intent, lifecycle, exchange, pc, queue, call, session, outcome>>

EnterReconciling(K) ==
    /\ pc = "repair"
    /\ \A k \in Strategy : lifecycle[k] = "failed" => PendingOf(k) = {}
    /\ SetLifecycle(K, "reconciling")
    /\ pc' = IF K = Strategy THEN "resolve" ELSE "down"
    /\ UNCHANGED <<decision, intent, exchange, queue, call, session, outcome>>

\* Mutant: only "submitting" intents are looked up.
ResolveFoundSubmittingOnly(s) ==
    /\ pc = "resolve" /\ intent[s] = "submitting" /\ orders[s] > 0
    /\ intent' = [intent EXCEPT ![s] = "submitted"]
    /\ UNCHANGED <<decision, lifecycle, exchange, pc, queue, call, session, outcome>>

\* GetOrderByClientID finds the order of an uncertain intent.
ResolveFound(s) ==
    /\ pc = "resolve"
    /\ intent[s] \in {"submitting", "unknown"}
    /\ orders[s] > 0
    /\ intent' = [intent EXCEPT ![s] = "submitted"]
    /\ UNCHANGED <<decision, lifecycle, exchange, pc, queue, call, session, outcome>>

\* Mutant: NotFound is taken as proof that nothing was placed.
ResolveNotFoundRetries(s) ==
    /\ pc = "resolve" /\ intent[s] \in {"submitting", "unknown"}
    /\ intent' = [intent EXCEPT ![s] = "ready"]
    /\ UNCHANGED <<decision, lifecycle, exchange, pc, queue, call, session, outcome>>

\* It does not, or fails: NotFound proves nothing.
ResolveInconclusive(s) ==
    /\ pc = "resolve"
    /\ intent[s] \in {"submitting", "unknown"}
    /\ Halt("blocked")
    /\ UNCHANGED <<durable, exchange, session>>

\* Mutant: uncertain intents do not keep the agent from going on.
ResolveDoneAnyway ==
    /\ pc = "resolve" /\ pc' = "ingress"
    /\ UNCHANGED <<durable, exchange, queue, call, session, outcome>>

ResolveDone ==
    /\ pc = "resolve"
    /\ \A s \in Open : intent[s] = "ready"
    /\ pc' = "ingress"
    /\ UNCHANGED <<durable, exchange, queue, call, session, outcome>>

\* Execution stream, history, drain, reconciliation and checkpoint succeed.
IngressDone ==
    /\ pc = "ingress"
    /\ pc' = "submit_ready"
    /\ UNCHANGED <<durable, exchange, queue, call, session, outcome>>

SubmitReadyDone ==
    /\ pc = "submit_ready" /\ stage = "idle"
    /\ \A s \in Signal : intent[s] # "ready"
    /\ pc' = "closing"
    /\ UNCHANGED <<durable, exchange, queue, call, session, outcome>>

\* Post-subscription reconciliation, market subscription, lifecycle running.
EnterRunning(K) ==
    /\ pc = "closing"
    /\ SetLifecycle(K, "running")
    /\ IF K = Strategy
         THEN pc' = "running" /\ UNCHANGED outcome
         ELSE pc' = "stopping" /\ outcome' = "failed"
    /\ UNCHANGED <<decision, intent, exchange, queue, call, session>>
-----------------------------------------------------------------------------
(* The market loop *)

\* Mutant: the worker of an isolated strategy is not removed.
ReceiveAnyEvent(k) ==
    /\ pc = "running"
    /\ event' = k /\ observed' = observed \cup {k}
    /\ UNCHANGED <<durable, exchange, queue, call, recovered, failed, outcome>>

\* An event of an isolated strategy is skipped (it has no active worker), so
\* only the others are enumerated.
ReceiveEvent(k) ==
    /\ pc = "running"
    /\ k \notin failed
    /\ event' = k
    /\ observed' = observed \cup {k}
    /\ UNCHANGED <<durable, exchange, queue, call, recovered, failed, outcome>>

\* The risk gate takes the price.  When it was the last one to wait for, the
\* signals of earlier runs are processed before this event.
ObserveMarket(k) ==
    /\ ReceiveEvent(k)
    /\ pc' = IF ~recovered /\ observed' = Strategy THEN "recover" ELSE "process"

ObserveFails(k) ==
    /\ ReceiveEvent(k)
    /\ pc' = "isolate"

RecoverDone ==
    /\ pc = "recover" /\ stage = "idle"
    /\ \A s \in Signal : decision[s] # "pending"
    /\ recovered' = TRUE
    /\ pc' = "process"
    /\ UNCHANGED <<durable, exchange, queue, call, event, observed, failed, outcome>>

\* worker.Process commits the new state and the signals S in one transaction.
WorkerCommits(S) ==
    /\ pc = "process"
    /\ \A s \in S : Owner[s] = event /\ decision[s] = "none"
    /\ decision' = [s \in Signal |-> IF s \in S THEN "pending" ELSE decision[s]]
    /\ queue' = S
    /\ pc' = "signals"
    /\ UNCHANGED <<intent, lifecycle, exchange, call, session, outcome>>

WorkerFails ==
    /\ pc = "process"
    /\ pc' = "isolate"
    /\ UNCHANGED <<durable, exchange, queue, call, session, outcome>>

SignalsDone ==
    /\ pc = "signals" /\ stage = "idle" /\ queue = {}
    /\ pc' = "running" /\ event' = None
    /\ UNCHANGED <<durable, exchange, queue, call, observed, recovered, failed, outcome>>

\* processSignalWith has been handed s: by the recovery scan or by the event.
Handed(s) ==
    /\ stage = "idle"
    /\ \/ pc = "recover" /\ decision[s] = "pending"
       \/ pc = "signals" /\ s \in queue

RejectSignal(s) ==
    /\ Handed(s)
    /\ decision[s] = "pending"
    /\ decision' = [decision EXCEPT ![s] = "rejected"]
    /\ queue' = queue \ {s}
    /\ UNCHANGED <<intent, lifecycle, exchange, pc, call, session, outcome>>

\* Decision and ready intent are one transaction; submitIntent follows.
AllowSignal(s) ==
    /\ Handed(s)
    /\ decision[s] = "pending" /\ intent[s] = "none"
    /\ decision' = [decision EXCEPT ![s] = "allowed"]
    /\ intent' = [intent EXCEPT ![s] = "ready"]
    /\ queue' = queue \ {s}
    /\ current' = s /\ stage' = "begin" /\ reply' = "none"
    /\ UNCHANGED <<lifecycle, exchange, pc, session, outcome>>
-----------------------------------------------------------------------------
(* submitIntent *)

\* Compare-and-set ready -> submitting, before the exchange is called.
BeginSubmission(s) ==
    /\ \/ pc = "submit_ready" /\ stage = "idle"
       \/ stage = "begin" /\ current = s
    /\ intent[s] = "ready"
    /\ intent' = [intent EXCEPT ![s] = "submitting"]
    /\ current' = s /\ stage' = "calling" /\ reply' = "none"
    /\ UNCHANGED <<decision, lifecycle, exchange, pc, queue, session, outcome>>

PlaceOrder ==
    /\ stage = "calling"
    /\ requests' = [requests EXCEPT ![current] = @ + 1]
    /\ stage' = "waiting"
    /\ UNCHANGED <<durable, orders, pc, queue, current, reply, session, outcome>>

\* The adapter fails before PostOrder (validation, instrument metadata), or
\* the exchange answered in kind.
CallEnded(answer) == stage = "calling" \/ (stage = "waiting" /\ reply = answer)

SetIntent(status) ==
    /\ intent' = [intent EXCEPT ![current] = status]
    /\ UNCHANGED <<decision, lifecycle>>

RecordSubmitted ==
    /\ stage = "waiting" /\ reply = "ok"
    /\ SetIntent("submitted")
    /\ Idle
    /\ UNCHANGED <<exchange, pc, queue, session, outcome>>

\* Mutant: a call that timed out counts as rejected.
RecordRejectedOnTimeout ==
    /\ stage \in {"calling", "waiting"} /\ SetIntent("rejected") /\ Idle
    /\ UNCHANGED <<exchange, pc, queue, session, outcome>>

RecordRejected ==
    /\ CallEnded("refused")
    /\ SetIntent("rejected")
    /\ Idle
    /\ UNCHANGED <<exchange, pc, queue, session, outcome>>

\* Mutant: every error of the call returns the intent to ready.
ReturnToReadyOnAnyError ==
    /\ stage \in {"calling", "waiting"} /\ SetIntent("ready") /\ Halt("failed")
    /\ UNCHANGED <<exchange, session>>

\* Rate limited, or a transient failure before the call.
ReturnToReady ==
    /\ CallEnded("limited")
    /\ SetIntent("ready")
    /\ Halt("failed")
    /\ UNCHANGED <<exchange, session>>

\* Any other error known not to be applied is returned with the row untouched.
LeaveSubmitting ==
    /\ CallEnded("not_found")
    /\ Halt("failed")
    /\ UNCHANGED <<durable, exchange, session>>

\* Mutant: the run goes on after an unknown outcome.
RecordUnknownAndGoOn ==
    /\ stage \in {"calling", "waiting"} /\ SetIntent("unknown") /\ Idle
    /\ UNCHANGED <<exchange, pc, queue, session, outcome>>

\* Timeout, transport failure or malformed answer (whatever the exchange has
\* done), and errors the adapter does not classify.
RecordUnknown ==
    /\ stage \in {"calling", "waiting"}
    /\ SetIntent("unknown")
    /\ Halt("failed")
    /\ UNCHANGED <<exchange, session>>
-----------------------------------------------------------------------------
(* isolateStrategyFailure *)

\* Mutant: decided signals of the failed strategy are rejected as well.
TerminalizeAnySignal(s) ==
    /\ pc = "isolate"
    /\ Owner[s] = event /\ decision[s] \in {"pending", "allowed"}
    /\ decision' = [decision EXCEPT ![s] = "rejected"]
    /\ UNCHANGED <<intent, lifecycle, exchange, pc, queue, call, session, outcome>>

TerminalizeSignal(s) ==
    /\ pc = "isolate"
    /\ s \in PendingOf(event)
    /\ decision' = [decision EXCEPT ![s] = "rejected"]
    /\ UNCHANGED <<intent, lifecycle, exchange, pc, queue, call, session, outcome>>

\* What resolveFailedStrategyIntents makes of an unresolved intent.
IsolatedStatus(s) ==
    IF intent[s] = "ready" THEN "not_submitted"
    ELSE IF orders[s] > 0 THEN "submitted" ELSE intent[s]

FinishIsolation ==
    LET resolved == [s \in Signal |->
            IF s \in Open /\ Owner[s] = event THEN IsolatedStatus(s) ELSE intent[s]]
        stuck == {s \in Signal : Owner[s] = event /\ resolved[s] \in Unresolved}
    IN  /\ pc = "isolate"
        /\ PendingOf(event) = {}
        /\ intent' = resolved
        /\ IF stuck = {}
             THEN /\ lifecycle' = [lifecycle EXCEPT ![event] = "failed"]
                  /\ failed' = failed \cup {event}
                  /\ pc' = "running" /\ event' = None
                  /\ UNCHANGED <<queue, call, outcome>>
             ELSE Halt("blocked") /\ UNCHANGED <<lifecycle, failed, event>>
        /\ UNCHANGED <<decision, exchange, observed, recovered>>
-----------------------------------------------------------------------------
(* The exchange (external) *)

Answers(s, answer) ==
    reply' = IF stage = "waiting" /\ current = s /\ reply = "none" THEN answer ELSE reply

ExecuteRequest(s) ==
    /\ requests[s] > 0
    /\ requests' = [requests EXCEPT ![s] = @ - 1]
    /\ orders' = [orders EXCEPT ![s] = @ + 1]
    /\ Answers(s, "ok")
    /\ UNCHANGED <<durable, pc, queue, current, stage, session, outcome>>

RefuseRequest(s) ==
    /\ requests[s] > 0
    /\ requests' = [requests EXCEPT ![s] = @ - 1]
    /\ \E answer \in {"refused", "limited", "not_found"} : Answers(s, answer)
    /\ UNCHANGED <<durable, orders, pc, queue, current, stage, session, outcome>>
-----------------------------------------------------------------------------
Submission ==
    \/ \E s \in Signal : BeginSubmission(s)
    \/ PlaceOrder \/ RecordSubmitted \/ RecordRejected
    \/ ReturnToReady \/ LeaveSubmitting \/ RecordUnknown

Startup ==
    \/ Start \/ ResolveDone \/ IngressDone \/ SubmitReadyDone
    \/ \E s \in Signal : RepairSignal(s) \/ ResolveFound(s) \/ ResolveInconclusive(s)
    \/ \E K \in SUBSET Strategy : EnterReconciling(K) \/ EnterRunning(K)

MarketLoop ==
    \/ \E k \in Strategy : ObserveMarket(k) \/ ObserveFails(k)
    \/ \E S \in SUBSET Signal : WorkerCommits(S)
    \/ \E s \in Signal : RejectSignal(s) \/ AllowSignal(s) \/ TerminalizeSignal(s)
    \/ RecoverDone \/ WorkerFails \/ SignalsDone \/ FinishIsolation

Ending ==
    \/ \E K \in SUBSET Strategy : WriteTerminal(K)
    \/ Crash \/ Cancel \/ PlainError \/ BlockingError

Exchange == \E s \in Signal : ExecuteRequest(s) \/ RefuseRequest(s)

Next == Startup \/ MarketLoop \/ Submission \/ Ending \/ Exchange

Spec == Init /\ [][Next]_vars

(***************************************************************************)
(* The operator starts the agent again after every end, an error return    *)
(* reaches the deferred terminal write, a submission in progress ends (its *)
(* RPC has a timeout), and crashes do not forever hit the same transaction *)
(* nor lookups forever miss an order that exists (eventual consistency).   *)
(***************************************************************************)
Fairness ==
    /\ WF_vars(Start)
    /\ WF_vars(\E K \in SUBSET Strategy : WriteTerminal(K))
    /\ WF_vars(RecordSubmitted \/ RecordUnknown)
    /\ SF_vars(EnterReconciling(Strategy))
    /\ \A s \in Signal : SF_vars(RepairSignal(s)) /\ SF_vars(ResolveFound(s))

LiveSpec == Spec /\ Fairness
-----------------------------------------------------------------------------
(* Safety *)

\* The exchange never executes two orders for one signal, although it does not
\* deduplicate and a request may be executed after its caller has died.
AtMostOneOrder == \A s \in Signal : orders[s] <= 1

\* "ready" is durable proof that no request of the signal ever reached the
\* wire: the licence startup uses to submit it (startup.go:84).
ReadyNeverCrossedTheAPI ==
    \A s \in Signal : intent[s] = "ready" => requests[s] = 0 /\ orders[s] = 0

\* A concluded intent tells the truth for good: "submitted" has its order, and
\* after "rejected" or "not_submitted" no request is left that could execute.
ConclusionsAreTrue ==
    \A s \in Signal :
        /\ intent[s] = "submitted" => orders[s] = 1
        /\ intent[s] \in {"rejected", "not_submitted"} =>
               requests[s] = 0 /\ orders[s] = 0

\* At most one intent is ever unresolved, across crashes and restarts: the
\* 1000-row limits of the recovery scans cannot be reached by the agent.
OneOpenIntent == \A s, t \in Open : s = t

\* The market loop takes no event and isolates no strategy while the outcome of
\* an earlier submission is open; only the call in progress is.
NothingOpenWhileTrading ==
    pc \in {"running", "recover", "process", "signals", "isolate"} =>
        \A s \in Open : s = current /\ stage # "idle"

\* No order leaves for a strategy that was isolated in this run.
IsolatedStrategySendsNothing ==
    [][\A s \in Signal : requests'[s] > requests[s] => Owner[s] \notin failed]_vars

\* Every order the exchange executed is eventually on record as submitted, also
\* when its answer was lost or the agent crashed before writing it down: the
\* unknown outcome is resolved by reading the exchange (startup.go:139-170).
ExecutedOrderIsRecorded ==
    \A s \in Signal : orders[s] = 1 ~> intent[s] = "submitted"

\* The agent implements the promise of OrderOnce: a signal is decided once, an
\* order needs an allowed signal, and what was concluded is final and true.
recorded ==
    [s \in Signal |-> IF intent[s] = "submitted" THEN "placed"
                      ELSE IF intent[s] \in {"rejected", "not_submitted"} THEN "refused"
                      ELSE "open"]

Promise == INSTANCE OrderOnce WITH verdict <- recorded

ImplementsPromise == Promise!Spec
=============================================================================
