----------------------------- MODULE NativeForward -----------------------------
(***************************************************************************)
(* A request of the external API that already speaks the protocol of its   *)
(* model's provider: the reply is handed through byte for byte, while an   *)
(* observer task reads a copy of a streamed reply to learn its usage, its  *)
(* finish reason and its failure for the record of the call.               *)
(*                                                                         *)
(* A chunk carries at most one event.  The record's own batches and        *)
(* retries are in CallRecorder.                                            *)
(***************************************************************************)
EXTENDS Naturals, Sequences, SequencesExt

CONSTANTS
    MaxChunks,  \* bound on the chunks of a reply
    Capacity    \* the slots of the observer's channel (8 in the code)

VARIABLES
    protocol,   \* "messages" or "responses" (a chat reply is read like a message)
    streaming,  \* the request asks for a stream
    at,         \* where the handler or its stream stands; "over" when it is gone
    read,       \* the chunks read from upstream
    passed,     \* the chunks the client received
    channel,    \* the chunks on their way to the observer
    observer,   \* "none", "reading" or "ended"
    summary,    \* NativeSummary: usage by field, finish and failure
    row         \* the record of the call

forwardVars ==
    <<protocol, streaming, at, read, passed, channel, observer, summary, row>>

Fields == {"input", "output"}

(* An event: the usage fields it states, its finish reason, whether it      *)
(* holds a function call, and whether it is an error.                       *)
Says(usage, reason, call, error) ==
    [usage |-> usage, reason |-> reason, call |-> call, error |-> error]

Text   == Says({}, "none", FALSE, FALSE)
Begin  == Says(Fields, "none", FALSE, FALSE)
Cut    == Says({"output"}, "length", FALSE, FALSE)
CutCall == Says({"output"}, "length", TRUE, FALSE)
Item   == Says({}, "none", TRUE, FALSE)
Broken == Says({}, "none", FALSE, TRUE)

Events ==
    IF protocol = "responses" THEN {Text, Item, Cut, CutCall, Broken}
    ELSE {Text, Begin, Cut, Broken}

(* Bytes the event source cannot read. *)
Garbage == Says({"garbage"}, "none", FALSE, FALSE)

Empty == [usage |-> [f \in Fields |-> 0], finish |-> "none", failure |-> FALSE]

Init ==
    /\ protocol \in {"messages", "responses"}
    /\ streaming \in BOOLEAN
    /\ at = "start"
    /\ read = <<>> /\ passed = <<>> /\ channel = <<>>
    /\ observer = "none"
    /\ summary = Empty
    /\ row = [status |-> "none", usage |-> Empty.usage, finish |-> "none"]

-----------------------------------------------------------------------------
ObserveFirst(s, event, n) ==
    [usage |-> [f \in Fields |-> IF f \in event.usage /\ s.usage[f] = 0 THEN n ELSE s.usage[f]],
     finish |-> IF event.call /\ protocol = "responses" THEN "tool-use"
                ELSE IF event.reason # "none" THEN event.reason ELSE s.finish,
     failure |-> s.failure \/ event.error]

(* NativeSummary::observe.  A field keeps the last value stated, here the   *)
(* place n of the event that stated it; a function call of a response wins  *)
(* over the reason in the same event.                                       *)
Observe(s, event, n) ==
    [usage |-> [f \in Fields |-> IF f \in event.usage THEN n ELSE s.usage[f]],
     finish |-> IF event.call /\ protocol = "responses" THEN "tool-use"
                ELSE IF event.reason # "none" THEN event.reason ELSE s.finish,
     failure |-> s.failure \/ event.error]

Finished(status, finish) ==
    row' = IF row.status = "running" THEN [row EXCEPT !.status = status, !.finish = finish]
           ELSE row

(* What a summary makes of the call: its usage, then failed or completed. *)
Settled(s) ==
    row' = [status |-> IF s.failure THEN "failed" ELSE "completed",
            usage |-> s.usage,
            finish |-> IF s.failure THEN "none"
                       ELSE IF s.finish = "none" THEN "stop" ELSE s.finish]

Forward ==
    /\ at = "start"
    /\ row' = [row EXCEPT !.status = "running"]
    /\ at' = "sending"
    /\ UNCHANGED <<protocol, streaming, read, passed, channel, observer, summary>>

SendFails ==
    /\ at = "sending"
    /\ Finished("failed", "none")
    /\ at' = "over"
    /\ UNCHANGED <<protocol, streaming, read, passed, channel, observer, summary>>

(* The reply's head: a stream is handed through, anything else read whole. *)
Replied(success) ==
    /\ at = "sending"
    /\ at' = IF ~success THEN "refused" ELSE IF streaming THEN "opened" ELSE "whole"
    /\ UNCHANGED <<protocol, streaming, read, passed, channel, observer, summary, row>>

Refused ==
    /\ at = "refused"
    /\ Finished("failed", "none")
    /\ at' = "over"
    /\ UNCHANGED <<protocol, streaming, read, passed, channel, observer, summary>>

BodyFails ==
    /\ at \in {"whole", "refused"}
    /\ Finished("failed", "none")
    /\ at' = "over"
    /\ UNCHANGED <<protocol, streaming, read, passed, channel, observer, summary>>

Whole(event) ==
    /\ at = "whole"
    /\ read' = <<event>> /\ passed' = <<event>>
    /\ IF event = Garbage THEN Finished("completed", "stop") ELSE Settled(Observe(Empty, event, 1))
    /\ at' = "over"
    /\ UNCHANGED <<protocol, streaming, channel, observer, summary>>

-----------------------------------------------------------------------------
(* The stream and its observer. *)

(* The body is first polled: its CancelOnDrop and its observer exist. *)
StreamResponse ==
    /\ at = "opened"
    /\ at' = "reading"
    /\ observer' = "reading"
    /\ UNCHANGED <<protocol, streaming, read, passed, channel, summary, row>>

Chunk(event) ==
    /\ at = "reading"
    /\ Len(read) < MaxChunks
    /\ read' = Append(read, event)
    /\ at' = "feeding"
    /\ UNCHANGED <<protocol, streaming, passed, channel, observer, summary, row>>

(* sender.send waits for a free slot, and fails at once when the observer   *)
(* is gone; the chunk is passed on either way.                              *)
Feed ==
    /\ at = "feeding"
    /\ IF observer = "ended" THEN UNCHANGED channel
       ELSE Len(channel) < Capacity /\ channel' = Append(channel, Last(read))
    /\ passed' = Append(passed, Last(read))
    /\ at' = "reading"
    /\ UNCHANGED <<protocol, streaming, read, observer, summary, row>>

(* An error of upstream, or nothing from it for stream_idle_timeout. *)
UpstreamFails ==
    /\ at = "reading"
    /\ Finished("failed", "none")
    /\ at' = "over"
    /\ UNCHANGED <<protocol, streaming, read, passed, channel, observer, summary>>

UpstreamEnds ==
    /\ at = "reading"
    /\ at' = "draining"
    /\ UNCHANGED <<protocol, streaming, read, passed, channel, observer, summary, row>>

(* observe_events: one chunk of the channel.  The place of an event is the  *)
(* number of chunks passed on before it, counted from the channel's head.   *)
ObserveEvents ==
    /\ observer = "reading" /\ channel # <<>>
    /\ LET fed == IF at = "feeding" THEN Len(read) - 1 ELSE Len(read)
           n == fed - Len(channel) + 1
       IN IF Head(channel) = Garbage
          THEN /\ observer' = "ended" /\ channel' = <<>>
               /\ UNCHANGED summary
          ELSE /\ summary' = Observe(summary, Head(channel), n)
               /\ channel' = Tail(channel)
               /\ UNCHANGED observer
    /\ UNCHANGED <<protocol, streaming, at, read, passed, row>>

(* The channel is empty and its sender gone. *)
ObserverEnds ==
    /\ observer = "reading" /\ channel = <<>>
    /\ at \in {"draining", "over"}
    /\ observer' = "ended"
    /\ UNCHANGED <<protocol, streaming, at, read, passed, channel, summary, row>>

(* The stream's end: the observer is awaited, then the call is settled. *)
Settle ==
    /\ at = "draining" /\ observer = "ended"
    /\ Settled(summary)
    /\ at' = "over"
    /\ UNCHANGED <<protocol, streaming, read, passed, channel, observer, summary>>

(* The client goes away, or a write of the record fails, and the handler or *)
(* its stream is dropped.  Only a stream that was polled holds a            *)
(* CancelOnDrop.                                                            *)
Dropped ==
    /\ at \in {"sending", "whole", "refused", "opened", "reading", "feeding",
             "draining"}
    /\ IF observer # "none" THEN Finished("cancelled", "none") ELSE UNCHANGED row
    /\ at' = "over"
    /\ UNCHANGED <<protocol, streaming, read, passed, channel, observer, summary>>

Next ==
    \/ Forward \/ SendFails \/ Refused \/ BodyFails \/ Dropped
    \/ \E success \in BOOLEAN : Replied(success)
    \/ \E event \in Events \cup {Garbage} : Whole(event) \/ Chunk(event)
    \/ StreamResponse \/ Feed \/ UpstreamFails \/ UpstreamEnds
    \/ ObserveEvents \/ ObserverEnds \/ Settle

Spec == Init /\ [][Next]_forwardVars

-----------------------------------------------------------------------------
LastWith(P(_)) ==
    LET places == {i \in 1..Len(passed) : P(passed[i])}
    IN IF places = {} THEN 0 ELSE CHOOSE i \in places : \A j \in places : j <= i

Stated ==
    LET last == LastWith(LAMBDA e : e.reason # "none" \/ e.call)
    IN IF last = 0 THEN "stop" ELSE IF passed[last].call THEN "tool-use" ELSE passed[last].reason

(* What is recorded of a streamed reply is what the client received: each   *)
(* usage field as last stated, the last finish reason, and a failure        *)
(* whenever an error event was passed on, though the observer runs behind   *)
(* the stream by up to a full channel (observe_events, stream_response).    *)
(* Bytes that are no events end the observation and are set aside.          *)
RecordIsReply ==
    /\ row.status \in {"completed", "failed"} /\ at = "over" /\ observer # "none"
    /\ Garbage \notin ToSet(passed)
    => /\ row.status = "completed" =>
             /\ \A f \in Fields : row.usage[f] = LastWith(LAMBDA e : f \in e.usage)
             /\ row.finish = Stated
             /\ \A i \in 1..Len(passed) : ~passed[i].error

(* The reply reaches the client whole: every chunk read is passed on, in    *)
(* order, whatever becomes of the observer (stream_response: the result of  *)
(* sender.send is ignored).                                                 *)
PassedThrough ==
    /\ IsPrefix(passed, read)
    /\ at = "draining" \/ row.status = "completed" => passed = read

(* A stream that was read and is over is not recorded as running any more,     *)
(* wherever it was dropped (stream_response: cancel_on_drop).                        *)
StreamSettles ==
    at = "over" /\ observer # "none" => row.status # "running"

=============================================================================
