---------------------------- MODULE MarketStream ----------------------------
(***************************************************************************)
(* A subscription to market data and the loop that consumes it:            *)
(*   tinvest.Adapter.SubscribeMarketData and receive, the channels of      *)
(*   exchange.MarketStream, the select of agent.runMarketLoop and the      *)
(*   cursor by which strategy.Worker accepts or refuses a candle.          *)
(*                                                                         *)
(* The goroutine of the adapter reads the broker's stream, numbers the     *)
(* events and offers them on a bounded channel; when the stream ends it    *)
(* leaves one error and closes both channels, in the order of its deferred *)
(* calls.  The loop selects among whatever is ready.  Either may be        *)
(* overtaken by the cancellation of the context.  Nothing reconnects: the  *)
(* process ends and is started again.  The broker is external.             *)
(***************************************************************************)
EXTENDS Naturals, Sequences, SequencesExt

CONSTANTS
    Candle,         \* closed candles of the instrument, named by their end
    Capacity,       \* capacity of the channel of events (128 in the code)
    MaxReceived,    \* bound: responses received in one run
    MaxRuns         \* bound: runs of the process

ASSUME CandleAssumption == Candle \subseteq Nat \ {0}
ASSUME BoundsAssumption ==
    /\ Capacity \in Nat \ {0}
    /\ MaxReceived \in Nat /\ MaxRuns \in Nat \ {0}

VARIABLES
    (* SQLite: survives the process *)
    cursor,         \* cursor of the last candle the worker committed
    applied,        \* the candles OnEvent was called for, over all runs
    (* the broker *)
    sent,           \* the last candle it has sent, 0 before the first
    (* the goroutine of the adapter and what it shares with the agent *)
    reader,         \* where it is
    rpc,            \* the context of the stream's RPC
    sequence,       \* events numbered so far
    offer,          \* the event it offers, Nothing if none
    failure,        \* why receive returned, "none" while it has not
    events,         \* the buffered channel of events
    errors,         \* the channel of errors, of capacity one
    closed,         \* the channels it has closed
    (* the agent *)
    context,        \* the context of the run
    loop,           \* where runMarketLoop is
    outcome,        \* how the run ended
    active,         \* FALSE once the strategy is isolated
    run,            \* runs so far
    (* bookkeeping *)
    received,       \* events of this run, as the goroutine numbered them
    taken           \* events of this run, as the loop received them

durable == <<cursor, applied>>
channel == <<events, errors, closed>>
agent   == <<context, loop, outcome, active, run, taken>>
adapter == <<reader, rpc, sequence, offer, failure, received>>
vars    == <<durable, sent, channel, agent, adapter>>

Nothing == [candle |-> 0, sequence |-> 0]
Event   == [candle : Candle, sequence : 1 .. MaxReceived]

Readers  == {"absent", "receiving", "sending", "failed", "reporting", "cancelling",
             "closing_errors", "closing_events", "gone"}
Failures == {"broken", "canceled"}
Outcomes == {"none", "cancelled", "cause", "errors_closed", "events_closed", "other"}

TypeOK ==
    /\ cursor \in Event \cup {Nothing}
    /\ applied \in Seq(Candle) /\ sent \in Candle \cup {0}
    /\ reader \in Readers
    /\ rpc \in {"open", "cancelled"}
    /\ sequence \in 0 .. MaxReceived
    /\ offer \in Event \cup {Nothing}
    /\ events \in Seq(Event) /\ Len(events) <= Capacity
    /\ failure \in Failures \cup {"none"}
    /\ errors \in Seq(Failures) /\ Len(errors) <= 1 /\ closed \subseteq {"events", "errors"}
    /\ context \in {"live", "cancelled"}
    /\ loop \in {"starting", "selecting", "peeking", "over"} /\ outcome \in Outcomes
    /\ active \in BOOLEAN /\ run \in 1 .. MaxRuns
    /\ received \in Seq(Event) /\ taken \in Seq(Event)

Init ==
    /\ cursor = Nothing /\ applied = <<>> /\ sent = 0
    /\ reader = "absent" /\ rpc = "open" /\ sequence = 0
    /\ offer = Nothing /\ failure = "none"
    /\ events = <<>> /\ errors = <<>> /\ closed = {}
    /\ context = "live" /\ loop = "starting" /\ outcome = "none"
    /\ active = TRUE /\ run = 1
    /\ received = <<>> /\ taken = <<>>
-----------------------------------------------------------------------------
(* SubscribeMarketData *)

\* The metadata, the RPC or a subscription request fails: no stream, the run ends.
SubscribeFails ==
    /\ loop = "starting"
    /\ rpc' = "cancelled"
    /\ loop' = "over" /\ outcome' = "other"
    /\ UNCHANGED <<durable, sent, channel, context, active, run, taken,
                   reader, sequence, offer, failure, received>>

Subscribe ==
    /\ loop = "starting"
    /\ reader' = "receiving"
    /\ loop' = "selecting"
    /\ UNCHANGED <<durable, sent, channel, context, outcome, active, run, taken,
                   rpc, sequence, offer, failure, received>>

(* receive.  A response without an event (an acknowledgement, a ping) changes
   nothing. *)

\* The broker's closed candles follow one another; it may skip some, but it does
\* not send one again.
MaySend(c) == c > sent

ReceiveCandle(c) ==
    /\ reader = "receiving"
    /\ sequence < MaxReceived
    /\ MaySend(c)
    /\ sent' = c
    /\ sequence' = sequence + 1
    /\ offer' = [candle |-> c, sequence |-> sequence']
    /\ received' = Append(received, offer')
    /\ reader' = "sending"
    /\ UNCHANGED <<durable, channel, agent, rpc, failure>>

Fail(why) ==
    /\ reader' = "failed" /\ failure' = why /\ offer' = Nothing
    /\ UNCHANGED <<durable, sent, channel, agent, rpc, sequence, received>>

\* Recv fails or ends, or a response cannot be mapped or is not a valid event.
ReceiveBroken == reader = "receiving" /\ Fail("broken")

ReceiveCanceled == reader = "receiving" /\ context = "cancelled" /\ Fail("canceled")

\* Mutant: the event waits for room, whatever happens to the context.
GiveUpNever == FALSE /\ Fail("canceled")

GiveUp == reader = "sending" /\ context = "cancelled" /\ Fail("canceled")

\* Mutant: with a full buffer, the oldest event makes room for the newest.
OfferDroppingOldest ==
    /\ reader = "sending"
    /\ events' = IF Len(events) < Capacity THEN Append(events, offer)
                 ELSE Append(Tail(events), offer)
    /\ offer' = Nothing /\ reader' = "receiving"
    /\ UNCHANGED <<durable, sent, errors, closed, agent, rpc, sequence, failure, received>>

Offer ==
    /\ reader = "sending"
    /\ Len(events) < Capacity
    /\ events' = Append(events, offer)
    /\ offer' = Nothing /\ reader' = "receiving"
    /\ UNCHANGED <<durable, sent, errors, closed, agent, rpc, sequence, failure, received>>

(* The goroutine around receive, and its deferred calls *)

Proceed(where) ==
    /\ reader' = where
    /\ UNCHANGED <<durable, sent, events, agent, sequence, offer, failure, received>>

\* An error counts only if the caller has not cancelled.
Check ==
    /\ reader = "failed"
    /\ Proceed(IF context = "live" THEN "reporting" ELSE "cancelling")
    /\ UNCHANGED <<errors, closed, rpc>>

Report ==
    /\ reader = "reporting" /\ Proceed("cancelling")
    /\ errors' = Append(errors, failure)
    /\ UNCHANGED <<closed, rpc>>

CancelRPC ==
    /\ reader = "cancelling" /\ Proceed("closing_errors")
    /\ rpc' = "cancelled"
    /\ UNCHANGED <<errors, closed>>

CloseErrors ==
    /\ reader = "closing_errors" /\ Proceed("closing_events")
    /\ closed' = closed \cup {"errors"}
    /\ UNCHANGED <<errors, rpc>>

CloseEvents ==
    /\ reader = "closing_events" /\ Proceed("gone")
    /\ closed' = closed \cup {"events"}
    /\ UNCHANGED <<errors, rpc>>
-----------------------------------------------------------------------------
(* Worker.Process: which candles the strategy sees *)

\* Mutant: the position in the stream decides before the time does.
IsNewerBySequence(e) == cursor = Nothing \/ e.sequence > cursor.sequence

\* CompareCursors; all candles have one priority.
IsNewer(e) ==
    \/ e.candle > cursor.candle
    \/ e.candle = cursor.candle /\ e.sequence > cursor.sequence

\* The state is committed with the cursor.
Apply(e) ==
    /\ cursor' = e /\ applied' = Append(applied, e.candle)
    /\ UNCHANGED active

\* The cursor of the last commit is a retry; an older one isolates the strategy.
Refuse(e) ==
    /\ active' = (active /\ e = cursor)
    /\ UNCHANGED durable
-----------------------------------------------------------------------------
(* The select of runMarketLoop: whatever is ready may be chosen *)

Over(how) ==
    /\ loop' = "over" /\ outcome' = how
    /\ UNCHANGED <<durable, sent, events, closed, context, active, run, taken, adapter>>

SelectCancelled ==
    /\ loop = "selecting" /\ context = "cancelled"
    /\ Over("cancelled") /\ UNCHANGED errors

SelectError ==
    /\ loop = "selecting" /\ errors # <<>>
    /\ Over("cause") /\ errors' = <<>>

SelectErrorsClosed ==
    /\ loop = "selecting" /\ errors = <<>> /\ "errors" \in closed
    /\ Over(IF context = "cancelled" THEN "cancelled" ELSE "errors_closed")
    /\ UNCHANGED errors

\* The execution stream ends, or the handling of an event or a fill fails for good.
SelectOther ==
    /\ loop = "selecting"
    /\ Over("other") /\ UNCHANGED errors

SelectEvent ==
    /\ loop = "selecting" /\ events # <<>>
    /\ events' = Tail(events)
    /\ taken' = Append(taken, Head(events))
    /\ IF active /\ IsNewer(Head(events))
       THEN Apply(Head(events))
       ELSE Refuse(Head(events))
    /\ UNCHANGED <<sent, errors, closed, context, loop, outcome, run, adapter>>

SelectEventsClosed ==
    /\ loop = "selecting" /\ events = <<>> /\ "events" \in closed
    /\ IF context = "cancelled"
       THEN Over("cancelled") /\ UNCHANGED errors
       ELSE /\ loop' = "peeking"
            /\ UNCHANGED <<durable, sent, channel, context, outcome, active, run, taken, adapter>>

\* Mutant: the closed channel of events is the reason.
PeekNot ==
    /\ loop = "peeking"
    /\ Over("events_closed") /\ UNCHANGED errors

\* A buffered cause is preferred to the closed channel.
Peek ==
    /\ loop = "peeking"
    /\ Over(IF errors # <<>> THEN "cause" ELSE "events_closed")
    /\ errors' = <<>>
-----------------------------------------------------------------------------
(* The process *)

CancelContext ==
    /\ context = "live"
    /\ context' = "cancelled"
    /\ UNCHANGED <<durable, sent, channel, adapter, loop, outcome, active, run, taken>>

\* SIGINT or SIGTERM.
Interrupt == loop # "over" /\ CancelContext

\* The command returns and releases its context.
Return == loop = "over" /\ CancelContext

\* The process is started again, after it ended or died at any moment; sequence
\* numbers begin anew.
Restart ==
    /\ run < MaxRuns
    /\ run' = run + 1
    /\ reader' = "absent" /\ rpc' = "open" /\ sequence' = 0
    /\ offer' = Nothing /\ failure' = "none"
    /\ events' = <<>> /\ errors' = <<>> /\ closed' = {}
    /\ context' = "live" /\ loop' = "starting" /\ outcome' = "none" /\ active' = TRUE
    /\ received' = <<>> /\ taken' = <<>>
    /\ UNCHANGED <<durable, sent>>

Reading == Offer \/ GiveUp \/ ReceiveCanceled
Closing == Check \/ Report \/ CancelRPC \/ CloseErrors \/ CloseEvents
Receiving == ReceiveBroken \/ \E c \in Candle : ReceiveCandle(c)
Selecting == SelectCancelled \/ SelectError \/ SelectErrorsClosed \/ SelectEvent
             \/ SelectEventsClosed \/ Peek
Process == Subscribe \/ SubscribeFails \/ SelectOther \/ Interrupt \/ Return \/ Restart

Next == Reading \/ Closing \/ Receiving \/ Selecting \/ Process

Spec == Init /\ [][Next]_vars

\* The goroutines run; the loop's handlers return (their calls have time limits);
\* the command's deferred stop() runs.  Nothing is assumed of the broker, except
\* that a cancelled RPC does not deliver for ever.
Fairness ==
    /\ WF_vars(Offer) /\ WF_vars(GiveUp) /\ SF_vars(ReceiveCanceled)
    /\ WF_vars(Closing) /\ WF_vars(Selecting) /\ WF_vars(Return)

LiveSpec == Spec /\ Fairness
-----------------------------------------------------------------------------
(* Properties *)

CandlesOf(s) == [i \in DOMAIN s |-> s[i].candle]

\* Between Recv and the loop no event is lost, repeated or overtaken, except the
\* one the goroutine gives up on when the run is cancelled.
InOrder ==
    LET through == taken \o events
    IN  /\ TypeOK
        /\ IsPrefix(through, received)
        /\ Len(received) - Len(through) <= (IF reader = "receiving" THEN 0 ELSE 1)
        /\ failure = "broken" => received = through

\* A run that was not cancelled ends with the reason the stream left, never with
\* the mere fact that a channel is closed (market_loop.go: preserve a buffered
\* terminal cause), whichever channel the select picks and whenever; and
\* cancellation closes the channels without an error (models.go:51).
CauseIsReported ==
    /\ outcome \notin {"errors_closed", "events_closed"}
    /\ \A i \in DOMAIN errors : errors[i] # "canceled"

\* The strategy sees every candle the loop takes, in the order and only as often as
\* the broker sent it, over restarts, where sequence numbers begin anew; no
\* candle is refused, and no strategy isolated, for its cursor.
EveryCandleTakenIsApplied ==
    /\ active
    /\ IsSuffix(CandlesOf(taken), applied)

\* A failure of the stream ends the run: the agent does not go on without data.
\* After the loop ended for whatever reason, the goroutine ends too, even if it
\* waits to offer an event on a full channel: RPC and channels are released.
RunAndStreamEndTogether ==
    \A n \in 1 .. MaxRuns :
        /\ (run = n /\ reader = "failed") ~> (run > n \/ loop = "over")
        /\ (run = n /\ loop = "over")
              ~> (run > n \/ reader = "absent" \/ (rpc = "cancelled" /\ reader = "gone"))
=============================================================================
