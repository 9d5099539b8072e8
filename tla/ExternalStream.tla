---------------------------- MODULE ExternalStream ----------------------------
(***************************************************************************)
(* An answer of the external API (/byok/v1): the events of a provider's    *)
(* stream written out as an OpenAI chat completion, an OpenAI response or  *)
(* an Anthropic message, streamed or in one piece.                         *)
(*                                                                         *)
(* The provider's stream is external to this module.  It may leave out the *)
(* start of its text and the ends of its contents, which streamed makes up *)
(* for.  Content 0 is the text and content k the k-th tool call; of deltas *)
(* only their number is kept.                                              *)
(***************************************************************************)
EXTENDS Naturals, Sequences, FiniteSets, SequencesExt, FiniteSetsExt

CONSTANTS
    MaxTools,   \* bound on the tool calls of an answer
    MaxDeltas,  \* bound on the deltas of an answer
    TextFirst   \* whether the provider sends its text before its tool calls

VARIABLES
    protocol,  \* "chat", "responses" or "messages"
    streaming, \* whether the client asked for a stream
    source,    \* the provider's stream: contents begun and ended, and its end
    output,    \* Output: the deltas of each content, the usage and the finish
    flags,     \* text_started, text_closed and closed_tools
    wire,      \* the events sent to the client
    at         \* "open", "ended", "failed" or "dropped"

streamVars == <<protocol, streaming, source, output, flags, wire, at>>

Contents == 0..MaxTools

Init ==
    /\ protocol \in {"chat", "responses", "messages"}
    /\ streaming \in BOOLEAN
    /\ source = [begun |-> {}, ended |-> {}, done |-> "no"]
    /\ output = [deltas |-> [c \in Contents |-> 0], tools |-> {}, usage |-> FALSE,
                 finish |-> "none"]
    /\ flags = [started |-> FALSE, closed |-> FALSE, tools |-> {}]
    /\ wire = <<>>
    /\ at = "open"

-----------------------------------------------------------------------------
(* Writing one provider event. *)

Event(kind, index, content) == [kind |-> kind, index |-> index, content |-> content]

(* The index of a tool's item or block: its own index, after the text if    *)
(* the text was started by then.  Tool k has the provider's index k - 1.    *)
ToolIndex(tool, started) == IF started THEN tool ELSE tool - 1

Reasons == {"stop", "length", "tool-use"}

(* In a chat completion nothing is closed. *)
ChatEvents(event, content) ==
    CASE event = "TextDelta" -> <<Event("delta", 0, 0)>>
      [] event = "ToolCallStart" -> <<Event("open", content - 1, content)>>
      [] event = "ToolCallArgumentsDelta" -> <<Event("delta", content - 1, content)>>
      [] event \in Reasons ->
            <<Event(event, 0, 0)>>
            \o IF output.usage THEN <<Event("usage", 0, 0)>> ELSE <<>>
      [] OTHER -> <<>>

(* The items of a response and the blocks of a message.  An "open" or a     *)
(* "close" stands for the one to three events that open or close an item    *)
(* and its content part.  A response carries no reason of its end.          *)
ItemEvents(event, content, started) ==
    CASE event = "TextStart" -> IF started THEN <<>> ELSE <<Event("open", 0, 0)>>
      [] event = "TextDelta" -> <<Event("delta", 0, 0)>>
      [] event = "TextEnd" -> IF started THEN <<Event("close", 0, 0)>> ELSE <<>>
      [] event = "ToolCallStart" ->
            <<Event("open", ToolIndex(content, started), content)>>
      [] event = "ToolCallArgumentsDelta" ->
            <<Event("delta", ToolIndex(content, started), content)>>
      [] event = "ToolCallEnd" ->
            <<Event("close", ToolIndex(content, started), content)>>
      [] event \in Reasons ->
            IF protocol = "responses" THEN <<Event("completed", 0, 0)>>
            ELSE <<Event(event, 0, 0), Event("message_stop", 0, 0)>>

StreamEvents(event, content, started) ==
    IF protocol = "chat" THEN ChatEvents(event, content)
    ELSE ItemEvents(event, content, started)

(* Output::json: the answer in one piece.  A message with tools says that   *)
(* it ended for them, whatever its reason was.                              *)
Answer ==
    CASE protocol = "chat" -> <<Event(output.finish, 0, 0)>>
      [] protocol = "responses" -> <<Event("completed", 0, 0)>>
      [] protocol = "messages" ->
            <<Event(IF output.tools # {} THEN "tool-use" ELSE output.finish, 0, 0)>>

(* Output::update *)
Update(event, content) ==
    output' = CASE event \in {"TextDelta", "ToolCallArgumentsDelta"} ->
                     [output EXCEPT !.deltas[content] = @ + 1]
                [] event = "ToolCallStart" -> [output EXCEPT !.tools = @ \cup {content}]
                [] OTHER -> output

(* One event of the provider but its usage and its end, streamed or         *)
(* collected.  A text that comes without its start is opened first.         *)
Streamed(event, content) ==
    LET implicit == event = "TextDelta" /\ ~flags.started /\ protocol # "chat"
        started == flags.started
                   \/ (protocol # "chat" /\ event \in {"TextStart", "TextDelta"})
    IN /\ Update(event, content)
       /\ IF streaming
          THEN /\ wire' = wire \o (IF implicit THEN StreamEvents("TextStart", 0, FALSE) ELSE <<>>)
                               \o StreamEvents(event, content,
                                     IF event = "TextStart" THEN flags.started ELSE started)
               /\ flags' = [started |-> started,
                            closed |-> flags.closed \/ event = "TextEnd",
                            tools |-> IF event = "ToolCallEnd" THEN flags.tools \cup {content}
                                      ELSE flags.tools]
          ELSE UNCHANGED <<wire, flags>>

-----------------------------------------------------------------------------
(* The provider's stream. *)

Busy == source.begun \ source.ended

Deltas == MapThenSumSet(LAMBDA content : output.deltas[content], Contents)

TextStart ==
    /\ at = "open" /\ source.done = "no"
    /\ 0 \notin Busy
    /\ TextFirst => source.begun = {}
    /\ Deltas < MaxDeltas
    /\ source' = [source EXCEPT !.begun = @ \cup {0}, !.ended = @ \ {0}]
    /\ Streamed("TextStart", 0)
    /\ UNCHANGED <<protocol, streaming, at>>

ToolCallStart ==
    /\ at = "open" /\ source.done = "no"
    /\ Cardinality(output.tools) < MaxTools
    /\ LET tool == Cardinality(output.tools) + 1 IN
       /\ source' = [source EXCEPT !.begun = @ \cup {tool}]
       /\ Streamed("ToolCallStart", tool)
    /\ UNCHANGED <<protocol, streaming, at>>

(* A text may come without its start. *)
Delta(content) ==
    /\ at = "open" /\ source.done = "no"
    /\ content \in Busy \/ (content = 0 /\ (source.begun = {} \/ (~TextFirst /\ 0 \notin source.begun)))
    /\ Deltas < MaxDeltas
    /\ source' = [source EXCEPT !.begun = @ \cup {content}]
    /\ Streamed(IF content = 0 THEN "TextDelta" ELSE "ToolCallArgumentsDelta", content)
    /\ UNCHANGED <<protocol, streaming, at>>

End(content) ==
    /\ at = "open" /\ source.done = "no"
    /\ content \in Busy
    /\ source' = [source EXCEPT !.ended = @ \cup {content}]
    /\ Streamed(IF content = 0 THEN "TextEnd" ELSE "ToolCallEnd", content)
    /\ UNCHANGED <<protocol, streaming, at>>

Usage ==
    /\ at = "open" /\ source.done = "no" /\ ~output.usage
    /\ output' = [output EXCEPT !.usage = TRUE]
    /\ UNCHANGED <<protocol, streaming, source, flags, wire, at>>

(* The end: what is still open is closed, then the end is written. *)
Done(reason) ==
    /\ at = "open" /\ source.done = "no"
    /\ reason = "length" \/ (reason = "tool-use") = (output.tools # {})
    /\ source' = [source EXCEPT !.done = reason]
    /\ output' = [output EXCEPT !.finish = reason]
    /\ wire' = IF ~streaming THEN wire
               ELSE wire
                    \o (IF flags.started /\ ~flags.closed
                        THEN StreamEvents("TextEnd", 0, TRUE) ELSE <<>>)
                    \o FlattenSeq([i \in 1..MaxTools |->
                          IF i \in output.tools \ flags.tools
                          THEN StreamEvents("ToolCallEnd", i, flags.started) ELSE <<>>])
                    \o StreamEvents(reason, 0, flags.started)
    /\ UNCHANGED <<protocol, streaming, flags, at>>

(* The stream ends after its Done: a chat is marked as done, a collected    *)
(* answer is written in one piece.                                          *)
Ends ==
    /\ at = "open" /\ source.done # "no"
    /\ wire' = CASE ~streaming -> Answer
                 [] streaming /\ protocol = "chat" -> Append(wire, Event("[DONE]", 0, 0))
                 [] OTHER -> wire
    /\ at' = "ended"
    /\ UNCHANGED <<protocol, streaming, source, output, flags>>

(* The provider fails, before its Done or, when the router cannot record    *)
(* the call, after it.                                                      *)
Fails ==
    /\ at = "open"
    /\ wire' = Append(wire, Event("error", 0, 0))
    /\ at' = "failed"
    /\ UNCHANGED <<protocol, streaming, source, output, flags>>

(* The client goes away: the stream is dropped and the call cancelled. *)
Dropped ==
    /\ at = "open" /\ streaming
    /\ at' = "dropped"
    /\ UNCHANGED <<protocol, streaming, source, output, flags, wire>>

Next ==
    \/ TextStart \/ ToolCallStart \/ Usage \/ Ends \/ Fails \/ Dropped
    \/ \E content \in Contents : Delta(content) \/ End(content)
    \/ \E reason \in Reasons : Done(reason)

Spec == Init /\ [][Next]_streamVars

-----------------------------------------------------------------------------
(* The events before the n-th that open or close the given index. *)
Opened(index, n) ==
    Cardinality({i \in 1..(n - 1) : wire[i].kind = "open" /\ wire[i].index = index})

Closed(index, n) ==
    Cardinality({i \in 1..(n - 1) : wire[i].kind = "close" /\ wire[i].index = index})

ContentAt(index, n) ==
    {wire[i].content : i \in {j \in 1..(n - 1) : wire[j].kind = "open" /\ wire[j].index = index}}

(* Every item of a streamed response and every block of a streamed message  *)
(* has an index of its own: it is opened once, its deltas and its close     *)
(* name the index it was opened with, and it is closed before the end       *)
(* (stream_events: text_started and text_closed).             *)
BlocksConsistent ==
    protocol # "chat" =>
        \A n \in 1..Len(wire) :
            LET e == wire[n] IN
            /\ e.kind = "open" => Opened(e.index, n) = 0
            /\ e.kind \in {"delta", "close"} =>
                  /\ ContentAt(e.index, n) = {e.content}
                  /\ Closed(e.index, n) = 0
            /\ e.kind \in Reasons \cup {"completed"} =>
                  \A i \in 0..MaxTools : Opened(i, n) = Closed(i, n)

(* What a client pieces together from a stream is what it would have got in *)
(* one piece: as many deltas of each content were sent as were collected.   *)
(* The response.completed event repeats the collected answer, so both are   *)
(* seen by the client.                                                      *)
WireIsAnswer ==
    streaming =>
        \A content \in Contents :
            Len(SelectSeq(wire, LAMBDA e : e.kind = "delta" /\ e.content = content))
                = output.deltas[content]

(* A client that reads to the end learns how the answer ended: one final    *)
(* event or one error, and after an error nothing (streamed, complete).     *)
EndIsTold ==
    at \in {"ended", "failed"} =>
        LET last == wire[Len(wire)].kind
            finals == SelectSeq(wire, LAMBDA e : e.kind \in Reasons \cup {"completed"})
        IN IF at = "failed" THEN last = "error"
           ELSE /\ Len(finals) = 1
                /\ \A i \in 1..Len(wire) : wire[i].kind # "error"

=============================================================================
