-------------------------- MODULE MarketStreamProofs --------------------------
(***************************************************************************)
(* Machine-checked theorems about MarketStream, for any candles, any       *)
(* capacity of the channel and any number of runs.                         *)
(***************************************************************************)
EXTENDS MarketStream, SequenceTheorems, TLAPS

EndTypes ==
    /\ reader \in Readers /\ failure \in Failures \cup {"none"}
    /\ errors \in Seq(Failures) /\ closed \subseteq {"events", "errors"}
    /\ context \in {"live", "cancelled"}
    /\ loop \in {"starting", "selecting", "peeking", "over"}

\* How far the goroutine is in ending.
Ending == {"cancelling", "closing_errors", "closing_events", "gone"}

EndInv ==
    /\ EndTypes
    /\ loop = "starting" => reader = "absent"
    \* A failure for cancellation is preceded by the cancellation, and is not reported.
    /\ failure = "canceled" => context = "cancelled"
    /\ reader \in {"failed", "reporting"} => failure # "none"
    /\ reader = "reporting" => failure # "canceled"
    /\ \A i \in DOMAIN errors : errors[i] # "canceled"
    \* Channels are closed after the report.
    /\ "errors" \in closed => reader \in Ending
    /\ "events" \in closed => reader \in Ending
    /\ reader \in Ending /\ context = "live" => errors # <<>> \/ loop = "over"
    /\ loop = "peeking" => errors # <<>>
    /\ outcome \notin {"errors_closed", "events_closed"}

LEMMA EndInitially == Init => EndInv
BY DEF Init, EndInv, EndTypes, Readers, Ending

LEMMA SubscribeKeepsEnd ==
    ASSUME EndInv, Subscribe \/ SubscribeFails \/ (\E c \in Candle : ReceiveCandle(c))
    PROVE  EndInv'
<1>1. CASE Subscribe
  BY <1>1 DEF Subscribe, EndInv, EndTypes, Readers, Ending, durable, channel
<1>2. CASE SubscribeFails
  BY <1>2 DEF SubscribeFails, EndInv, EndTypes, Readers, Ending, durable, channel
<1>3. ASSUME NEW c \in Candle, ReceiveCandle(c) PROVE EndInv'
  BY <1>3 DEF ReceiveCandle, EndInv, EndTypes, Readers, Ending, durable, channel, agent
<1> QED BY <1>1, <1>2, <1>3

LEMMA ReadingKeepsEnd ==
    ASSUME EndInv, Offer \/ GiveUp \/ ReceiveCanceled \/ ReceiveBroken
    PROVE  EndInv'
<1>1. CASE Offer
  BY <1>1 DEF Offer, EndInv, EndTypes, Readers, Ending, durable, agent
<1>2. CASE GiveUp
  BY <1>2 DEF GiveUp, Fail, EndInv, EndTypes, Readers, Failures, Ending, durable, channel, agent
<1>3. CASE ReceiveCanceled
  BY <1>3 DEF ReceiveCanceled, Fail, EndInv, EndTypes, Readers, Failures, Ending,
              durable, channel, agent
<1>4. CASE ReceiveBroken
  BY <1>4 DEF ReceiveBroken, Fail, EndInv, EndTypes, Readers, Failures, Ending,
              durable, channel, agent
<1> QED BY <1>1, <1>2, <1>3, <1>4

LEMMA ClosingKeepsEnd ==
    ASSUME EndInv, Closing
    PROVE  EndInv'
<1>1. CASE Check
  BY <1>1 DEF Check, Proceed, EndInv, EndTypes, Readers, Ending, agent
<1>2. CASE Report
  <2>1. /\ reader = "reporting" /\ failure # "canceled" /\ errors \in Seq(Failures)
        /\ errors' = Append(errors, failure) /\ \A i \in DOMAIN errors : errors[i] # "canceled"
    <3>1. errors' = Append(errors, failure) /\ reader = "reporting"
      BY <1>2 DEF Report
    <3> QED BY <3>1 DEF EndInv, EndTypes
  <2>2. failure \in Failures
    BY <1>2, <2>1 DEF Report, EndInv, EndTypes, Failures
  <2>3. errors' \in Seq(Failures) /\ errors' # <<>>
    BY <2>1, <2>2
  <2>4. \A i \in DOMAIN errors' : errors'[i] # "canceled"
    BY <2>1, <2>2
  <2>5. reader' = "cancelling" /\ UNCHANGED <<failure, closed, context, loop, outcome>>
    BY <1>2 DEF Report, Proceed, agent
  <2> QED
    <3>1. EndTypes'
      BY <2>3, <2>5 DEF EndInv, EndTypes, Readers
    <3>2. reader' \in Ending /\ reader' \notin {"absent", "reporting"}
      BY <2>5 DEF Ending
    <3>3. loop' # "starting"
      BY <2>1, <2>5 DEF EndInv
    <3> QED BY <2>3, <2>4, <2>5, <3>1, <3>2, <3>3 DEF EndInv
<1>3. CASE CancelRPC
  BY <1>3 DEF CancelRPC, Proceed, EndInv, EndTypes, Readers, Ending, agent
<1>4. CASE CloseErrors
  BY <1>4 DEF CloseErrors, Proceed, EndInv, EndTypes, Readers, Ending, agent
<1>5. CASE CloseEvents
  BY <1>5 DEF CloseEvents, Proceed, EndInv, EndTypes, Readers, Ending, agent
<1> QED BY <1>1, <1>2, <1>3, <1>4, <1>5 DEF Closing

LEMMA SelectingKeepsEnd ==
    ASSUME EndInv, Selecting
    PROVE  EndInv'
<1>1. CASE SelectCancelled
  BY <1>1 DEF SelectCancelled, Over, EndInv, EndTypes, Readers, Ending, adapter
<1>2. CASE SelectError
  BY <1>2 DEF SelectError, Over, EndInv, EndTypes, Readers, Ending, adapter
<1>3. CASE SelectErrorsClosed
  \* A closed channel of errors without an error means cancellation.
  <2>1. context = "cancelled"
    BY <1>3 DEF SelectErrorsClosed, EndInv, EndTypes
  <2> QED
    BY <1>3, <2>1 DEF SelectErrorsClosed, Over, EndInv, EndTypes, Readers, Ending, adapter
<1>4. CASE SelectEvent
  <2>1. UNCHANGED <<reader, failure, errors, closed, context, loop, outcome>>
    BY <1>4 DEF SelectEvent, adapter
  <2> QED BY <2>1 DEF EndInv, EndTypes
<1>5. CASE SelectEventsClosed
  <2>1. CASE context = "cancelled"
    BY <1>5, <2>1 DEF SelectEventsClosed, Over, EndInv, EndTypes, Readers, Ending, adapter
  <2>2. CASE context # "cancelled"
    \* The goroutine has reported before it closed the channel of events.
    <3>1. errors # <<>>
      BY <1>5, <2>2 DEF SelectEventsClosed, EndInv, EndTypes
    <3>2. loop' = "peeking" /\ UNCHANGED <<reader, failure, errors, closed, context, outcome>>
      BY <1>5, <2>2 DEF SelectEventsClosed, channel, adapter
    <3> QED BY <3>1, <3>2 DEF EndInv, EndTypes
  <2> QED BY <2>1, <2>2
<1>6. CASE Peek
  BY <1>6 DEF Peek, Over, EndInv, EndTypes, Readers, Ending, adapter
<1> QED BY <1>1, <1>2, <1>3, <1>4, <1>5, <1>6 DEF Selecting

LEMMA ProcessKeepsEnd ==
    ASSUME EndInv, SelectOther \/ Interrupt \/ Return \/ Restart
    PROVE  EndInv'
<1>1. CASE SelectOther
  BY <1>1 DEF SelectOther, Over, EndInv, EndTypes, Readers, Ending, adapter
<1>2. CASE Interrupt \/ Return
  BY <1>2 DEF Interrupt, Return, CancelContext, EndInv, EndTypes, channel, adapter
<1>3. CASE Restart
  BY <1>3 DEF Restart, EndInv, EndTypes, Readers, Failures, Ending
<1> QED BY <1>1, <1>2, <1>3

LEMMA StutteringKeepsEnd ==
    ASSUME EndInv, UNCHANGED vars
    PROVE  EndInv'
BY DEF EndInv, EndTypes, vars, channel, agent, adapter

\* A run that was not cancelled ends with the reason the stream left, never with
\* the fact that a channel is closed, whatever is ready when the loop selects.
THEOREM TheCauseIsReported == Spec => []CauseIsReported
<1>1. EndInv /\ [Next]_vars => EndInv'
  BY SubscribeKeepsEnd, ReadingKeepsEnd, ClosingKeepsEnd, SelectingKeepsEnd,
     ProcessKeepsEnd, StutteringKeepsEnd
     DEF Next, Reading, Receiving, Process
<1>2. EndInv => CauseIsReported
  BY DEF EndInv, CauseIsReported
<1> QED BY EndInitially, <1>1, <1>2, PTL DEF Spec
-----------------------------------------------------------------------------
\* The goroutine still reads, or waits to offer what it has read.
Reads == {"receiving", "sending"}

\* Before it runs, and until it fails, nothing has failed and nothing is numbered
\* but what it offers.
ReaderInv ==
    /\ loop = "starting" => reader = "absent"
    /\ reader = "absent" => received = <<>> /\ taken = <<>> /\ events = <<>>
    /\ reader \in Reads \cup {"absent"} => failure = "none"
    /\ reader = "sending" => offer \in Event
    /\ reader \in {"failed", "reporting"} => failure \in Failures
    /\ reader \notin Ending => errors = <<>>

\* What the loop took and the channel holds is what was received, in its order,
\* but for the one event that is offered or was given up.
FlowInv ==
    /\ sequence = Len(received)
    /\ Len(taken) + Len(events) <= Len(received)
    /\ Len(received) <= Len(taken) + Len(events) + 1
    /\ reader = "receiving" => Len(received) = Len(taken) + Len(events)
    /\ reader = "sending" => /\ Len(received) = Len(taken) + Len(events) + 1
                             /\ offer = received[Len(received)]
    /\ failure = "broken" => Len(received) = Len(taken) + Len(events)
    /\ \A i \in 1 .. Len(taken) : taken[i] = received[i]
    /\ \A i \in 1 .. Len(events) : events[i] = received[Len(taken) + i]

\* The broker's order is the order of the cursor, and what is still to be taken
\* is newer than what was applied.
OrderInv ==
    /\ \A i, j \in 1 .. Len(received) : i < j => received[i].candle < received[j].candle
    /\ \A i \in 1 .. Len(received) : received[i].candle <= sent
    /\ cursor.candle <= sent
    /\ \A i \in 1 .. Len(received) : i > Len(taken) => cursor.candle < received[i].candle
    /\ active
    /\ Len(taken) <= Len(applied)
    /\ \A i \in 1 .. Len(taken) : applied[Len(applied) - Len(taken) + i] = taken[i].candle

StreamInv == TypeOK /\ ReaderInv /\ FlowInv /\ OrderInv

\* What an event is made of.
LEMMA EventTypes ==
    /\ \A e \in Event : e.candle \in Candle /\ e.candle \in Nat /\ e.candle > 0 /\ e # Nothing
    /\ Nothing.candle = 0
    /\ \A c \in Candle : c \in Nat /\ c > 0
<1>1. \A c \in Candle : c \in Nat /\ c > 0
  BY CandleAssumption
<1>2. Nothing.candle = 0
  BY DEF Nothing
<1>3. ASSUME NEW e \in Event PROVE e.candle \in Candle
  BY DEF Event
<1>4. ASSUME NEW e \in Event PROVE e # Nothing
  <2>1. e.candle # Nothing.candle
    BY <1>1, <1>2, <1>3
  <2> QED BY <2>1
<1> QED BY <1>1, <1>2, <1>3, <1>4

\* The first run begins with nothing received.
LEMMA StreamInitially == Init => StreamInv
<1> SUFFICES ASSUME Init PROVE StreamInv
  OBVIOUS
<1>1. /\ events = <<>> /\ errors = <<>> /\ received = <<>> /\ taken = <<>> /\ applied = <<>>
      /\ cursor = Nothing /\ sent = 0 /\ sequence = 0 /\ reader = "absent" /\ failure = "none"
      /\ active = TRUE
  BY DEF Init
<1>2. TypeOK
  <2>1. /\ events \in Seq(Event) /\ errors \in Seq(Failures) /\ received \in Seq(Event)
        /\ taken \in Seq(Event) /\ applied \in Seq(Candle)
    BY <1>1
  <2>2. Len(events) = 0 /\ Len(errors) = 0
    BY <1>1
  <2>3. active \in BOOLEAN /\ closed \subseteq {"events", "errors"}
    BY DEF Init
  <2>4. run \in 1 .. MaxRuns /\ sequence \in 0 .. MaxReceived /\ 0 <= Capacity
    BY BoundsAssumption DEF Init
  <2> QED BY <2>1, <2>2, <2>3, <2>4 DEF Init, TypeOK, Readers, Outcomes
<1>3. ReaderInv
  BY <1>1 DEF ReaderInv, Reads
<1>4. FlowInv
  BY <1>1 DEF FlowInv
<1>5. OrderInv
  BY <1>1, EventTypes DEF OrderInv
<1> QED BY <1>2, <1>3, <1>4, <1>5 DEF StreamInv

\* Of a step that moves no event and no candle, only the types and the goroutine's
\* own invariant are left to prove.
LEMMA MovingNothing ==
    ASSUME StreamInv,
           UNCHANGED <<cursor, applied, sent, sequence, offer, failure, events, active,
                       received, taken, run>>,
           reader' \in Readers, reader' \in Reads => reader' = reader,
           rpc' \in {"open", "cancelled"}, closed' \subseteq {"events", "errors"},
           errors' \in Seq(Failures), Len(errors') <= 1,
           context' \in {"live", "cancelled"},
           loop' \in {"starting", "selecting", "peeking", "over"}, outcome' \in Outcomes,
           ReaderInv'
    PROVE  StreamInv'
<1>1. TypeOK'
  BY DEF StreamInv, TypeOK
<1>2. FlowInv'
  BY DEF StreamInv, FlowInv, Reads
<1>3. OrderInv'
  BY DEF StreamInv, OrderInv
<1> QED BY <1>1, <1>2, <1>3 DEF StreamInv

\* The goroutine begins to read, or there is nothing to read.
LEMMA StartingKeepsStream ==
    ASSUME StreamInv, Subscribe \/ SubscribeFails
    PROVE  StreamInv'
<1>1. reader = "absent" /\ received = <<>> /\ taken = <<>> /\ events = <<>> /\ failure = "none"
  BY DEF Subscribe, SubscribeFails, StreamInv, ReaderInv
<1>2. UNCHANGED <<cursor, applied, sent, sequence, offer, failure, events, active,
                  received, taken, run, errors, closed, context>>
  BY DEF Subscribe, SubscribeFails, durable, channel
<1>3. CASE Subscribe
  <2>1. reader' = "receiving" /\ loop' = "selecting" /\ UNCHANGED <<rpc, outcome>>
    BY <1>3 DEF Subscribe
  <2>2. TypeOK'
    BY <1>2, <2>1 DEF StreamInv, TypeOK, Readers
  <2>3. ReaderInv'
    BY <1>1, <1>2, <2>1 DEF StreamInv, ReaderInv, Reads, Ending
  <2>4. FlowInv'
    BY <1>1, <1>2, <2>1 DEF StreamInv, FlowInv
  <2>5. OrderInv'
    BY <1>2 DEF StreamInv, OrderInv
  <2> QED BY <2>2, <2>3, <2>4, <2>5 DEF StreamInv
<1>4. CASE SubscribeFails
  <2>1. reader' = reader /\ rpc' = "cancelled" /\ loop' = "over" /\ outcome' = "other"
    BY <1>4 DEF SubscribeFails
  <2>2. ReaderInv'
    BY <1>2, <2>1 DEF StreamInv, ReaderInv
  <2>3. outcome' \in Outcomes
    BY <2>1 DEF Outcomes
  <2> QED BY <1>2, <2>1, <2>2, <2>3, MovingNothing DEF StreamInv, TypeOK
<1> QED BY <1>3, <1>4

\* Receiving stops; only of a broken stream is it certain that every event went through.
LEMMA FailingKeepsStream ==
    ASSUME StreamInv, ReceiveBroken \/ ReceiveCanceled \/ GiveUp
    PROVE  StreamInv'
<1>1. /\ reader' = "failed" /\ failure' \in Failures /\ offer' = Nothing
      /\ failure' = "broken" => reader = "receiving"
      /\ reader \in Reads
  BY DEF ReceiveBroken, ReceiveCanceled, GiveUp, Fail, Failures, Reads
<1>2. UNCHANGED <<cursor, applied, sent, sequence, events, errors, closed, context, loop,
                  outcome, active, run, taken, rpc, received>>
  BY DEF ReceiveBroken, ReceiveCanceled, GiveUp, Fail, durable, channel, agent
<1>3. TypeOK'
  BY <1>1, <1>2 DEF StreamInv, TypeOK, Readers
<1>4. ReaderInv'
  BY <1>1, <1>2 DEF StreamInv, ReaderInv, Reads, Ending
<1>5. FlowInv'
  BY <1>1, <1>2 DEF StreamInv, FlowInv
<1>6. OrderInv'
  BY <1>2 DEF StreamInv, OrderInv
<1> QED BY <1>3, <1>4, <1>5, <1>6 DEF StreamInv

\* The deferred calls touch no event.
LEMMA ClosingKeepsStream ==
    ASSUME StreamInv, Closing
    PROVE  StreamInv'
<1>1. UNCHANGED <<cursor, applied, sent, sequence, offer, failure, events, active,
                  received, taken, run, context, loop, outcome>>
  BY DEF Closing, Check, Report, CancelRPC, CloseErrors, CloseEvents, Proceed, durable, agent
<1>2. /\ reader \in {"failed", "reporting"} \cup Ending
      /\ reader' \in {"reporting"} \cup Ending
      /\ reader' = "reporting" => reader = "failed"
  BY DEF Closing, Check, Report, CancelRPC, CloseErrors, CloseEvents, Proceed, Ending
<1>3. /\ rpc' \in {"open", "cancelled"} /\ closed' \subseteq {"events", "errors"}
      /\ reader' = "reporting" => errors' = errors
  BY DEF Closing, Check, Report, CancelRPC, CloseErrors, CloseEvents, Proceed, StreamInv, TypeOK
<1>4. errors' \in Seq(Failures) /\ Len(errors') <= 1
  <2>1. CASE Report
    <3>1. errors = <<>> /\ failure \in Failures /\ errors' = Append(errors, failure)
      BY <2>1 DEF Report, StreamInv, ReaderInv, Ending
    <3> QED BY <3>1
  <2>2. CASE ~Report
    <3>1. errors' = errors
      BY <2>2 DEF Closing, Check, CancelRPC, CloseErrors, CloseEvents
    <3> QED BY <3>1 DEF StreamInv, TypeOK
  <2> QED BY <2>1, <2>2
<1>5. ReaderInv'
  BY <1>1, <1>2, <1>3 DEF StreamInv, ReaderInv, Reads, Ending
<1>6. reader' \in Readers /\ reader' \notin Reads
  BY <1>2 DEF Ending, Readers, Reads
<1> QED BY <1>1, <1>3, <1>4, <1>5, <1>6, MovingNothing DEF StreamInv, TypeOK

\* The loop ends, or looks for the cause, without taking an event.
LEMMA EndingKeepsStream ==
    ASSUME StreamInv,
           \/ SelectCancelled \/ SelectError \/ SelectErrorsClosed \/ SelectOther
           \/ SelectEventsClosed \/ Peek
    PROVE  StreamInv'
<1>1. UNCHANGED <<cursor, applied, sent, sequence, offer, failure, events, active,
                  received, taken, run, context, reader, rpc, closed>>
  BY DEF SelectCancelled, SelectError, SelectErrorsClosed, SelectOther, SelectEventsClosed,
         Peek, Over, durable, channel, adapter
<1>2. errors' = errors \/ errors' = <<>>
  BY DEF SelectCancelled, SelectError, SelectErrorsClosed, SelectOther, SelectEventsClosed,
         Peek, Over, channel
<1>3. loop' \in {"peeking", "over"} /\ outcome' \in Outcomes
  BY DEF SelectCancelled, SelectError, SelectErrorsClosed, SelectOther, SelectEventsClosed,
         Peek, Over, Outcomes, StreamInv, TypeOK
<1>4. errors' \in Seq(Failures) /\ Len(errors') <= 1
  <2>1. CASE errors' = errors
    BY <2>1 DEF StreamInv, TypeOK
  <2>2. CASE errors' = <<>>
    BY <2>2
  <2> QED BY <1>2, <2>1, <2>2
<1>5. ReaderInv'
  BY <1>1, <1>2, <1>3 DEF StreamInv, ReaderInv
<1> QED BY <1>1, <1>3, <1>4, <1>5, MovingNothing DEF StreamInv, TypeOK

\* The context of the run ends.
LEMMA CancellingKeepsStream ==
    ASSUME StreamInv, Interrupt \/ Return
    PROVE  StreamInv'
<1>1. /\ context' = "cancelled"
      /\ UNCHANGED <<cursor, applied, sent, sequence, offer, failure, events, active, received,
                     taken, run, reader, rpc, closed, errors, loop, outcome>>
  BY DEF Interrupt, Return, CancelContext, durable, channel, adapter
<1>2. ReaderInv'
  BY <1>1 DEF StreamInv, ReaderInv
<1> QED BY <1>1, <1>2, MovingNothing DEF StreamInv, TypeOK

\* What is received is numbered, newer than all before it, and offered.
LEMMA ReceivingKeepsStream ==
    ASSUME StreamInv, NEW c \in Candle, ReceiveCandle(c)
    PROVE  StreamInv'
<1>1. /\ reader = "receiving" /\ sequence < MaxReceived /\ sent < c
      /\ sequence' = sequence + 1 /\ sent' = c
      /\ offer' = [candle |-> c, sequence |-> sequence'] /\ received' = Append(received, offer')
      /\ reader' = "sending"
  <2>1. c > sent
    BY DEF ReceiveCandle, MaySend
  <2>2. c \in Nat /\ sent \in Nat
    BY EventTypes DEF StreamInv, TypeOK
  <2>3. sent < c
    BY <2>1, <2>2
  <2> QED BY <2>3 DEF ReceiveCandle
<1>2. UNCHANGED <<cursor, applied, events, errors, closed, context, loop, outcome, active, run,
                  taken, rpc, failure>>
  BY DEF ReceiveCandle, durable, channel, agent
<1>3. /\ received \in Seq(Event) /\ taken \in Seq(Event) /\ events \in Seq(Event)
      /\ sequence = Len(received) /\ sent \in Nat /\ c \in Nat /\ MaxReceived \in Nat
      /\ cursor \in Event \cup {Nothing}
  BY EventTypes, BoundsAssumption DEF StreamInv, TypeOK, FlowInv
<1>4. offer' \in Event /\ offer'.candle = c
  <2>1. sequence' \in 1 .. MaxReceived
    BY <1>1, <1>3
  <2> QED BY <1>1, <2>1 DEF Event
<1>5. /\ received' \in Seq(Event) /\ Len(received') = Len(received) + 1
      /\ received'[Len(received) + 1] = offer'
      /\ \A i \in 1 .. Len(received) : received'[i] = received[i]
  BY <1>1, <1>3, <1>4
<1>6. TypeOK'
  <2>1. sequence' \in 0 .. MaxReceived /\ reader' \in Readers
    BY <1>1, <1>3 DEF Readers
  <2> QED BY <1>1, <1>2, <1>4, <1>5, <2>1 DEF StreamInv, TypeOK
<1>7. ReaderInv'
  BY <1>1, <1>2, <1>4 DEF StreamInv, ReaderInv, Reads, Ending
<1>8. Len(taken) \in Nat /\ Len(events) \in Nat /\ Len(received) \in Nat
  BY <1>3
<1>9. FlowInv'
  <2>1. Len(received) = Len(taken) + Len(events) /\ failure = "none"
    BY <1>1 DEF StreamInv, FlowInv, ReaderInv, Reads
  <2>2. \A i \in 1 .. Len(taken) : taken[i] = received'[i]
    BY <1>5, <1>8, <2>1 DEF StreamInv, FlowInv
  <2>3. \A i \in 1 .. Len(events) : events[i] = received'[Len(taken) + i]
    BY <1>5, <1>8, <2>1 DEF StreamInv, FlowInv
  <2>4. sequence' = Len(received') /\ Len(received') = Len(taken) + Len(events) + 1
    BY <1>1, <1>3, <1>5, <2>1
  <2> QED BY <1>1, <1>2, <1>5, <1>8, <2>1, <2>2, <2>3, <2>4 DEF FlowInv
<1>10. OrderInv'
  <2>1. \A i \in 1 .. Len(received) : received[i].candle \in Nat /\ received[i].candle <= sent
    BY <1>3, EventTypes DEF StreamInv, OrderInv
  <2>2. cursor.candle \in Nat /\ cursor.candle <= sent
    BY <1>3, EventTypes DEF StreamInv, OrderInv
  <2>3. \A i \in 1 .. Len(received') : received'[i].candle <= sent'
    BY <1>1, <1>3, <1>4, <1>5, <1>8, <2>1
  <2>4. \A i, j \in 1 .. Len(received') : i < j => received'[i].candle < received'[j].candle
    <3> SUFFICES ASSUME NEW i \in 1 .. Len(received'), NEW j \in 1 .. Len(received'), i < j
                 PROVE  received'[i].candle < received'[j].candle
      OBVIOUS
    <3>1. CASE j = Len(received) + 1
      BY <3>1, <1>1, <1>3, <1>4, <1>5, <1>8, <2>1
    <3>2. CASE j # Len(received) + 1
      BY <3>2, <1>5, <1>8 DEF StreamInv, OrderInv
    <3> QED BY <3>1, <3>2
  <2>5. \A i \in 1 .. Len(received') : i > Len(taken) => cursor.candle < received'[i].candle
    <3> SUFFICES ASSUME NEW i \in 1 .. Len(received'), i > Len(taken)
                 PROVE  cursor.candle < received'[i].candle
      OBVIOUS
    <3>1. CASE i = Len(received) + 1
      BY <3>1, <1>1, <1>3, <1>4, <1>5, <2>2
    <3>2. CASE i # Len(received) + 1
      BY <3>2, <1>5, <1>8 DEF StreamInv, OrderInv
    <3> QED BY <3>1, <3>2
  <2>6. cursor.candle <= sent'
    BY <1>1, <1>3, <2>2
  <2> QED BY <1>2, <2>3, <2>4, <2>5, <2>6 DEF StreamInv, OrderInv
<1> QED BY <1>6, <1>7, <1>9, <1>10 DEF StreamInv

\* The event offered is the next one of the channel.
LEMMA OfferKeepsStream ==
    ASSUME StreamInv, Offer
    PROVE  StreamInv'
<1>1. /\ reader = "sending" /\ Len(events) < Capacity /\ events' = Append(events, offer)
      /\ offer' = Nothing /\ reader' = "receiving"
  BY DEF Offer
<1>2. UNCHANGED <<cursor, applied, sent, errors, closed, context, loop, outcome, active, run,
                  taken, rpc, sequence, failure, received>>
  BY DEF Offer, durable, agent
<1>3. /\ events \in Seq(Event) /\ offer \in Event /\ Capacity \in Nat
      /\ Len(taken) \in Nat /\ Len(received) \in Nat /\ Len(events) \in Nat
  BY <1>1, BoundsAssumption DEF StreamInv, TypeOK, ReaderInv
<1>4. /\ events' \in Seq(Event) /\ Len(events') = Len(events) + 1
      /\ events'[Len(events) + 1] = offer
      /\ \A i \in 1 .. Len(events) : events'[i] = events[i]
  BY <1>1, <1>3
<1>5. TypeOK'
  <2>1. Len(events') <= Capacity /\ reader' \in Readers
    BY <1>1, <1>3, <1>4 DEF Readers
  <2> QED BY <1>1, <1>2, <1>4, <2>1 DEF StreamInv, TypeOK
<1>6. ReaderInv'
  BY <1>1, <1>2 DEF StreamInv, ReaderInv, Reads, Ending
<1>7. FlowInv'
  <2>1. Len(received) = Len(taken) + Len(events) + 1 /\ offer = received[Len(received)]
    BY <1>1 DEF StreamInv, FlowInv
  <2>2. failure = "none"
    BY <1>1 DEF StreamInv, ReaderInv, Reads
  <2>3. \A i \in 1 .. Len(events') : events'[i] = received[Len(taken) + i]
    <3> SUFFICES ASSUME NEW i \in 1 .. Len(events')
                 PROVE  events'[i] = received[Len(taken) + i]
      OBVIOUS
    <3>1. CASE i = Len(events) + 1
      <4>1. Len(taken) + i = Len(received)
        BY <3>1, <1>3, <2>1
      <4> QED BY <3>1, <4>1, <1>4, <2>1
    <3>2. CASE i # Len(events) + 1
      BY <3>2, <1>3, <1>4 DEF StreamInv, FlowInv
    <3> QED BY <3>1, <3>2
  <2>4. Len(received) = Len(taken) + Len(events')
    BY <1>3, <1>4, <2>1
  <2>5. sequence = Len(received) /\ \A i \in 1 .. Len(taken) : taken[i] = received[i]
    BY DEF StreamInv, FlowInv
  <2> QED BY <1>1, <1>2, <1>3, <2>2, <2>3, <2>4, <2>5 DEF FlowInv
<1>8. OrderInv'
  BY <1>2 DEF StreamInv, OrderInv
<1> QED BY <1>5, <1>6, <1>7, <1>8 DEF StreamInv

\* The event at the head of the channel is newer than all that were applied: it is
\* applied, and whatever remains is newer still.
LEMMA TakingKeepsStream ==
    ASSUME StreamInv, SelectEvent
    PROVE  StreamInv'
<1> DEFINE e == Head(events)
<1>1. /\ events # <<>> /\ events \in Seq(Event) /\ taken \in Seq(Event)
      /\ received \in Seq(Event) /\ applied \in Seq(Candle) /\ cursor \in Event \cup {Nothing}
  BY DEF SelectEvent, StreamInv, TypeOK
<1>2. /\ events' = Tail(events) /\ taken' = Append(taken, e)
      /\ UNCHANGED <<sent, errors, closed, context, loop, outcome, run, reader, rpc, sequence,
                     offer, failure, received>>
      /\ loop = "selecting"
      /\ IF active /\ IsNewer(e) THEN Apply(e) ELSE Refuse(e)
  BY DEF SelectEvent, adapter
<1>3. /\ Len(events) \in Nat \ {0} /\ Len(taken) \in Nat /\ Len(received) \in Nat
      /\ Len(applied) \in Nat
  BY <1>1
<1>4. e \in Event /\ e = events[1]
  BY <1>1, <1>3
<1>5. /\ events' \in Seq(Event) /\ Len(events') = Len(events) - 1
      /\ \A i \in 1 .. Len(events) - 1 : events'[i] = events[i + 1]
  BY <1>1, <1>2, <1>3
<1>6. /\ taken' \in Seq(Event) /\ Len(taken') = Len(taken) + 1
      /\ taken'[Len(taken) + 1] = e
      /\ \A i \in 1 .. Len(taken) : taken'[i] = taken[i]
  BY <1>1, <1>2, <1>4
<1>7. /\ e = received[Len(taken) + 1]
      /\ Len(taken) + Len(events) <= Len(received)
  BY <1>3, <1>4 DEF StreamInv, FlowInv
<1>8. cursor.candle < e.candle /\ cursor.candle \in Nat /\ e.candle \in Nat
  <2>1. Len(taken) + 1 \in 1 .. Len(received) /\ Len(taken) + 1 > Len(taken)
    BY <1>3, <1>7
  <2>2. cursor.candle < received[Len(taken) + 1].candle
    BY <2>1 DEF StreamInv, OrderInv
  <2> QED BY <2>2, <1>1, <1>4, <1>7, EventTypes
<1>9. cursor' = e /\ applied' = Append(applied, e.candle) /\ active' = TRUE /\ active = TRUE
  <2>1. active = TRUE
    BY DEF StreamInv, OrderInv, TypeOK
  <2>2. IsNewer(e)
    BY <1>8 DEF IsNewer
  <2> QED BY <2>1, <2>2, <1>2 DEF Apply
<1>10. /\ applied' \in Seq(Candle) /\ Len(applied') = Len(applied) + 1
       /\ applied'[Len(applied) + 1] = e.candle
       /\ \A i \in 1 .. Len(applied) : applied'[i] = applied[i]
  <2>1. e.candle \in Candle
    BY <1>4, EventTypes
  <2> QED BY <2>1, <1>1, <1>9
<1> HIDE DEF e
<1>11. TypeOK'
  <2>1. Len(events') <= Capacity
    BY <1>3, <1>5, BoundsAssumption DEF StreamInv, TypeOK
  <2>2. cursor' \in Event \cup {Nothing} /\ active' \in BOOLEAN
    BY <1>4, <1>9
  <2> QED BY <1>2, <1>5, <1>6, <1>10, <2>1, <2>2 DEF StreamInv, TypeOK
<1>12. ReaderInv'
  <2>1. reader # "absent"
    BY <1>1 DEF StreamInv, ReaderInv
  <2> QED BY <1>2, <2>1 DEF StreamInv, ReaderInv
<1>13. Len(taken') + Len(events') = Len(taken) + Len(events)
  BY <1>3, <1>5, <1>6
<1>14. FlowInv'
  <2>1. \A i \in 1 .. Len(taken') : taken'[i] = received[i]
    <3> SUFFICES ASSUME NEW i \in 1 .. Len(taken') PROVE taken'[i] = received[i]
      OBVIOUS
    <3>1. CASE i = Len(taken) + 1
      BY <3>1, <1>6, <1>7
    <3>2. CASE i # Len(taken) + 1
      BY <3>2, <1>3, <1>6 DEF StreamInv, FlowInv
    <3> QED BY <3>1, <3>2
  <2>2. \A i \in 1 .. Len(events') : events'[i] = received[Len(taken') + i]
    <3> SUFFICES ASSUME NEW i \in 1 .. Len(events')
                 PROVE  events'[i] = received[Len(taken') + i]
      OBVIOUS
    <3>1. i + 1 \in 1 .. Len(events) /\ events'[i] = events[i + 1]
      BY <1>3, <1>5
    <3>2. events[i + 1] = received[Len(taken) + (i + 1)]
      BY <3>1 DEF StreamInv, FlowInv
    <3>3. Len(taken) + (i + 1) = Len(taken') + i
      BY <1>3, <1>6
    <3> QED BY <3>1, <3>2, <3>3
  <2> QED BY <1>2, <1>13, <2>1, <2>2 DEF StreamInv, FlowInv
<1>15. OrderInv'
  <2>1. /\ \A i \in 1 .. Len(received) : received[i].candle <= sent
        /\ e.candle <= sent
    BY <1>3, <1>7 DEF StreamInv, OrderInv
  <2>2. \A i \in 1 .. Len(received) : i > Len(taken') => cursor'.candle < received[i].candle
    <3>1. Len(taken) + 1 \in 1 .. Len(received)
      BY <1>3, <1>7
    <3>2. \A i \in 1 .. Len(received) :
              i > Len(taken) + 1 => received[Len(taken) + 1].candle < received[i].candle
      BY <3>1 DEF StreamInv, OrderInv
    <3> QED BY <3>2, <1>6, <1>7, <1>9
  <2>3. Len(taken') <= Len(applied')
    BY <1>3, <1>6, <1>10 DEF StreamInv, OrderInv
  <2>4. \A i \in 1 .. Len(taken') :
            applied'[Len(applied') - Len(taken') + i] = taken'[i].candle
    <3> SUFFICES ASSUME NEW i \in 1 .. Len(taken')
                 PROVE  applied'[Len(applied') - Len(taken') + i] = taken'[i].candle
      OBVIOUS
    <3>1. Len(applied') - Len(taken') + i = Len(applied) - Len(taken) + i
      BY <1>3, <1>6, <1>10
    <3>2. CASE i = Len(taken) + 1
      <4>1. Len(applied) - Len(taken) + i = Len(applied) + 1
        BY <3>2, <1>3
      <4> QED BY <3>1, <3>2, <4>1, <1>6, <1>10
    <3>3. CASE i # Len(taken) + 1
      <4>1. i \in 1 .. Len(taken)
        BY <3>3, <1>3, <1>6
      <4>2. Len(applied) - Len(taken) + i \in 1 .. Len(applied)
        BY <4>1, <1>3 DEF StreamInv, OrderInv
      <4>3. applied[Len(applied) - Len(taken) + i] = taken[i].candle
        BY <4>1 DEF StreamInv, OrderInv
      <4> QED BY <3>1, <4>1, <4>2, <4>3, <1>6, <1>10
    <3> QED BY <3>2, <3>3
  <2>5. \A i, j \in 1 .. Len(received) : i < j => received[i].candle < received[j].candle
    BY DEF StreamInv, OrderInv
  <2> QED BY <1>2, <1>9, <2>1, <2>2, <2>3, <2>4, <2>5 DEF OrderInv
<1> QED BY <1>11, <1>12, <1>14, <1>15 DEF StreamInv

\* A new run begins with nothing received; the cursor and what was applied remain.
LEMMA RestartKeepsStream ==
    ASSUME StreamInv, Restart
    PROVE  StreamInv'
<1>1. /\ run' = run + 1 /\ run < MaxRuns
      /\ reader' = "absent" /\ rpc' = "open" /\ sequence' = 0
      /\ offer' = Nothing /\ failure' = "none"
      /\ events' = <<>> /\ errors' = <<>> /\ closed' = {}
      /\ context' = "live" /\ loop' = "starting" /\ outcome' = "none" /\ active' = TRUE
      /\ received' = <<>> /\ taken' = <<>>
      /\ UNCHANGED <<cursor, applied, sent>>
  BY DEF Restart, durable
<1>2. TypeOK'
  <2>1. /\ events' \in Seq(Event) /\ errors' \in Seq(Failures) /\ received' \in Seq(Event)
        /\ taken' \in Seq(Event) /\ Len(events') = 0 /\ Len(errors') = 0
    BY <1>1
  <2>2. active' \in BOOLEAN /\ closed' \subseteq {"events", "errors"}
    BY <1>1
  <2>3. run' \in 1 .. MaxRuns /\ sequence' \in 0 .. MaxReceived /\ 0 <= Capacity
    BY <1>1, BoundsAssumption DEF StreamInv, TypeOK
  <2> QED BY <1>1, <2>1, <2>2, <2>3 DEF StreamInv, TypeOK, Readers, Outcomes
<1>3. ReaderInv'
  BY <1>1 DEF ReaderInv, Reads
<1>4. FlowInv'
  BY <1>1 DEF FlowInv
<1>5. OrderInv'
  <2>1. Len(applied) \in Nat /\ cursor.candle <= sent
    BY DEF StreamInv, TypeOK, OrderInv
  <2> QED BY <1>1, <2>1 DEF OrderInv
<1> QED BY <1>2, <1>3, <1>4, <1>5 DEF StreamInv

\* Every step keeps the order of the stream.
LEMMA StepKeepsStream ==
    ASSUME StreamInv, [Next]_vars
    PROVE  StreamInv'
<1>1. CASE UNCHANGED vars
  BY <1>1 DEF vars, durable, channel, agent, adapter, StreamInv, TypeOK, ReaderInv, FlowInv,
              OrderInv
<1>2. CASE Next
  BY <1>2, StartingKeepsStream, FailingKeepsStream, ClosingKeepsStream, EndingKeepsStream,
     CancellingKeepsStream, ReceivingKeepsStream, OfferKeepsStream, TakingKeepsStream,
     RestartKeepsStream
     DEF Next, Reading, Receiving, Selecting, Process
<1> QED BY <1>1, <1>2
-----------------------------------------------------------------------------
\* A sequence that agrees with a longer one position by position is its prefix.
LEMMA AgreeingIsPrefix ==
    ASSUME NEW S, NEW s \in Seq(S), NEW t \in Seq(S), Len(s) <= Len(t),
           \A i \in 1 .. Len(s) : s[i] = t[i]
    PROVE  IsPrefix(s, t)
<1> DEFINE n == Len(s)
<1>1. n \in Nat /\ Len(t) \in Nat
  OBVIOUS
<1>2. /\ SubSeq(s, 1, n) \in Seq(S) /\ Len(SubSeq(s, 1, n)) = n
      /\ \A i \in 1 .. n : SubSeq(s, 1, n)[i] = s[i]
  <2>1. \A i \in 1 .. n : s[i] \in S
    OBVIOUS
  <2> QED BY <1>1, <2>1, SubSeqProperties
<1>3. /\ SubSeq(t, 1, n) \in Seq(S) /\ Len(SubSeq(t, 1, n)) = n
      /\ \A i \in 1 .. n : SubSeq(t, 1, n)[i] = t[i]
  <2>1. \A i \in 1 .. n : t[i] \in S
    BY <1>1
  <2> QED BY <1>1, <2>1, SubSeqProperties
<1>4. SubSeq(s, 1, n) = SubSeq(t, 1, n)
  BY <1>2, <1>3, SeqEqual
<1> QED BY <1>4 DEF IsPrefix

\* What a reversed sequence consists of.
LEMMA Reversed ==
    ASSUME NEW S, NEW s \in Seq(S)
    PROVE  /\ Reverse(s) \in Seq(S) /\ Len(Reverse(s)) = Len(s)
           /\ \A i \in 1 .. Len(s) : Reverse(s)[i] = s[(Len(s) - i) + 1]
<1>1. Len(s) \in Nat
  OBVIOUS
<1>2. \A i \in 1 .. Len(s) : (Len(s) - i) + 1 \in 1 .. Len(s)
  BY <1>1
<1>3. \A i \in 1 .. Len(s) : s[(Len(s) - i) + 1] \in S
  BY <1>2
<1> QED BY <1>1, <1>3 DEF Reverse

\* A sequence that agrees with the end of a longer one is its suffix.
LEMMA AgreeingIsSuffix ==
    ASSUME NEW S, NEW s \in Seq(S), NEW t \in Seq(S), Len(s) <= Len(t),
           \A i \in 1 .. Len(s) : t[Len(t) - Len(s) + i] = s[i]
    PROVE  IsSuffix(s, t)
<1>1. Len(s) \in Nat /\ Len(t) \in Nat
  OBVIOUS
<1>2. \A i \in 1 .. Len(s) : Reverse(s)[i] = Reverse(t)[i]
  <2> SUFFICES ASSUME NEW i \in 1 .. Len(s) PROVE Reverse(s)[i] = Reverse(t)[i]
    OBVIOUS
  <2>1. (Len(s) - i) + 1 \in 1 .. Len(s) /\ i \in 1 .. Len(t)
    BY <1>1
  <2>2. Len(t) - Len(s) + ((Len(s) - i) + 1) = (Len(t) - i) + 1
    BY <1>1
  <2>3. t[(Len(t) - i) + 1] = s[(Len(s) - i) + 1]
    BY <2>1, <2>2
  <2>4. Reverse(s)[i] = s[(Len(s) - i) + 1]
    BY Reversed
  <2>5. Reverse(t)[i] = t[(Len(t) - i) + 1]
    BY <2>1, Reversed
  <2> QED BY <2>3, <2>4, <2>5
<1>3. IsPrefix(Reverse(s), Reverse(t))
  <2>1. Reverse(s) \in Seq(S) /\ Len(Reverse(s)) = Len(s)
    BY Reversed
  <2>2. Reverse(t) \in Seq(S) /\ Len(Reverse(t)) = Len(t)
    BY Reversed
  <2> QED BY <1>2, <2>1, <2>2, AgreeingIsPrefix
<1> QED BY <1>3 DEF IsSuffix

\* Between Recv and the loop no event is lost, repeated or overtaken, except the one the
\* goroutine gives up on when the run is cancelled: for any capacity of the channel.
THEOREM NoEventIsLost == Spec => []InOrder
<1>1. StreamInv => InOrder
  <2> SUFFICES ASSUME StreamInv PROVE InOrder
    OBVIOUS
  <2> DEFINE through == taken \o events
  <2>1. /\ taken \in Seq(Event) /\ events \in Seq(Event) /\ received \in Seq(Event)
        /\ Len(taken) \in Nat /\ Len(events) \in Nat /\ Len(received) \in Nat
    BY DEF StreamInv, TypeOK
  <2>2. /\ through \in Seq(Event) /\ Len(through) = Len(taken) + Len(events)
        /\ \A i \in 1 .. Len(taken) + Len(events) :
               through[i] = IF i <= Len(taken) THEN taken[i] ELSE events[i - Len(taken)]
    BY <2>1, ConcatProperties
  <2> HIDE DEF through
  <2>3. \A i \in 1 .. Len(through) : through[i] = received[i]
    <3> SUFFICES ASSUME NEW i \in 1 .. Len(through) PROVE through[i] = received[i]
      OBVIOUS
    <3>1. CASE i <= Len(taken)
      BY <3>1, <2>1, <2>2 DEF StreamInv, FlowInv
    <3>2. CASE i > Len(taken)
      <4>1. i - Len(taken) \in 1 .. Len(events) /\ through[i] = events[i - Len(taken)]
        BY <3>2, <2>1, <2>2
      <4>2. events[i - Len(taken)] = received[Len(taken) + (i - Len(taken))]
        BY <4>1 DEF StreamInv, FlowInv
      <4>3. Len(taken) + (i - Len(taken)) = i
        BY <2>1, <2>2
      <4> QED BY <4>1, <4>2, <4>3
    <3> QED BY <3>1, <3>2, <2>1, <2>2
  <2>4. Len(through) <= Len(received)
    BY <2>1, <2>2 DEF StreamInv, FlowInv
  <2>5. IsPrefix(through, received)
    BY <2>1, <2>2, <2>3, <2>4, AgreeingIsPrefix
  <2>6. Len(received) - Len(through) <= (IF reader = "receiving" THEN 0 ELSE 1)
    BY <2>1, <2>2 DEF StreamInv, FlowInv
  <2>7. failure = "broken" => received = through
    <3>1. failure = "broken" => Len(received) = Len(through)
      BY <2>2 DEF StreamInv, FlowInv
    <3> QED BY <3>1, <2>1, <2>2, <2>3, SeqEqual
  <2>8. TypeOK
    BY DEF StreamInv
  <2> QED BY <2>5, <2>6, <2>7, <2>8 DEF InOrder, through
<1> QED BY StreamInitially, StepKeepsStream, <1>1, PTL DEF Spec

\* Over any number of restarts, where the numbers of the stream begin anew, the strategy
\* is given every candle the loop takes, once and in order, and is not isolated for one.
THEOREM NoCandleIsRefused == Spec => []EveryCandleTakenIsApplied
<1>1. StreamInv => EveryCandleTakenIsApplied
  <2> SUFFICES ASSUME StreamInv PROVE EveryCandleTakenIsApplied
    OBVIOUS
  <2>1. taken \in Seq(Event) /\ applied \in Seq(Candle) /\ active = TRUE
    BY DEF StreamInv, TypeOK, OrderInv
  <2>2. DOMAIN taken = 1 .. Len(taken) /\ Len(taken) \in Nat
    BY <2>1
  <2>3. \A i \in 1 .. Len(taken) : taken[i].candle \in Candle
    BY <2>1, EventTypes
  <2>4. /\ CandlesOf(taken) \in Seq(Candle) /\ Len(CandlesOf(taken)) = Len(taken)
        /\ \A i \in 1 .. Len(taken) : CandlesOf(taken)[i] = taken[i].candle
    BY <2>2, <2>3 DEF CandlesOf
  <2>5. \A i \in 1 .. Len(taken) :
            applied[Len(applied) - Len(taken) + i] = CandlesOf(taken)[i]
    BY <2>4 DEF StreamInv, OrderInv
  <2>6. Len(taken) <= Len(applied)
    BY DEF StreamInv, OrderInv
  <2>7. IsSuffix(CandlesOf(taken), applied)
    BY <2>1, <2>4, <2>5, <2>6, AgreeingIsSuffix
  <2> QED BY <2>1, <2>7 DEF EveryCandleTakenIsApplied
<1> QED BY StreamInitially, StepKeepsStream, <1>1, PTL DEF Spec
=============================================================================
