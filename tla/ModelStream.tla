----------------------------- MODULE ModelStream -----------------------------
(* One model call: a provider's server-sent events are turned into            *)
(* ModelEvents by one of three adapters (OpenAI Chat, OpenAI Responses,       *)
(* Anthropic), and consume_model_cycle checks them and passes them on to the  *)
(* client.  A failed attempt is repeated by the engine.                       *)
(* The text of a block is a sequence of fragments, tool arguments are the     *)
(* number of fragments; the server is external and keeps to its API, except   *)
(* for the liberties the adapters make room for: omitted starts and stops,    *)
(* names and ids that come late, texts that come only in the final item.      *)
EXTENDS Naturals, Sequences, SequencesExt, FiniteSets

CONSTANTS
  Index,         \* indices of content blocks and tool calls
  MaxArgs,       \* argument fragments of one call
  MaxRetries     \* MAX_MODEL_RETRIES of the engine

VARIABLES
  api,           \* the provider's protocol
  server,        \* what the server has sent in this attempt
  adapter,       \* the adapter's locals
  cycle,         \* the locals of consume_model_cycle, and how it returned
  client,        \* the blocks the client has been shown, open or closed
  retries

vars == <<api, server, adapter, cycle, client, retries>>

Apis == {"chat", "responses", "anthropic"}
Messages == {1, 2}
FullText(m) == <<m, m>>

NoTool == [id |-> FALSE, name |-> FALSE, got |-> 0, given |-> 0,
           started |-> FALSE, ended |-> FALSE, seen |-> FALSE]
NoAdapter == [text |-> FALSE, thinking |-> FALSE, streamed |-> <<>>,
              tools |-> [i \in Index |-> NoTool], blocks |-> [i \in Index |-> "none"],
              reason |-> "none", sawTool |-> FALSE, sawItem |-> FALSE,
              usage |-> FALSE, replay |-> FALSE, signed |-> {}, terminal |-> FALSE]
NoCycle == [start |-> FALSE, text |-> <<>>, textOpen |-> FALSE, thinking |-> FALSE,
            tools |-> [i \in Index |-> "none"], args |-> [i \in Index |-> 0],
            replay |-> FALSE, usage |-> FALSE, finish |-> "none", result |-> "running"]
NoClient == [text |-> FALSE, thinking |-> FALSE, tools |-> [i \in Index |-> "none"]]
NoServer == [text |-> <<>>, said |-> [m \in Messages |-> "none"], thought |-> FALSE,
             used |-> {}, told |-> {}, args |-> [i \in Index |-> 0], shut |-> {},
             blocks |-> [i \in Index |-> "none"], reason |-> "none", usage |-> FALSE,
             state |-> "asked"]

Init ==
  /\ api \in Apis
  /\ server = NoServer
  /\ adapter = NoAdapter
  /\ cycle = NoCycle
  /\ client = NoClient
  /\ retries = 0

----------------------------------------------------------------------------
(* consume_model_cycle: one event.  Whatever breaks the event grammar fails   *)
(* the attempt; every accepted content event is sent to the client.           *)

Protocol(c) == [c EXCEPT !.result = "protocol"]

ConsumeText(c, e) ==
  CASE e[1] = "TextStart" ->
         IF ~c.start \/ c.textOpen THEN Protocol(c) ELSE [c EXCEPT !.textOpen = TRUE]
    [] e[1] = "TextDelta" ->
         IF ~c.textOpen THEN Protocol(c) ELSE [c EXCEPT !.text = @ \o e[2]]
    [] e[1] = "TextEnd" ->
         IF ~c.textOpen THEN Protocol(c) ELSE [c EXCEPT !.textOpen = FALSE]

ConsumeThinking(c, e) ==
  CASE e[1] = "ThinkingStart" ->
         IF ~c.start \/ c.thinking THEN Protocol(c) ELSE [c EXCEPT !.thinking = TRUE]
    [] e[1] = "ThinkingDelta" -> IF ~c.thinking THEN Protocol(c) ELSE c
    [] e[1] = "ThinkingEnd" ->
         IF ~c.thinking THEN Protocol(c) ELSE [c EXCEPT !.thinking = FALSE]

ConsumeTool(c, e) ==
  CASE e[1] = "ToolStart" ->
         IF ~c.start \/ c.tools[e[2]] # "none" THEN Protocol(c)
         ELSE [c EXCEPT !.tools[e[2]] = "open"]
    [] e[1] = "ToolArgs" ->
         IF c.tools[e[2]] # "open" THEN Protocol(c) ELSE [c EXCEPT !.args[e[2]] = @ + e[3]]
    [] e[1] = "ToolEnd" ->
         IF c.tools[e[2]] # "open" THEN Protocol(c) ELSE [c EXCEPT !.tools[e[2]] = "ended"]

OpenBlock(c) == c.textOpen \/ c.thinking \/ \E i \in Index : c.tools[i] = "open"

ConsumeRest(c, e) ==
  CASE e[1] = "Start" -> IF c.start THEN Protocol(c) ELSE [c EXCEPT !.start = TRUE]
    [] e[1] = "Replay" -> IF c.replay THEN Protocol(c) ELSE [c EXCEPT !.replay = TRUE]
    [] e[1] = "Usage" -> IF c.usage THEN Protocol(c) ELSE [c EXCEPT !.usage = TRUE]
    [] e[1] = "Done" ->
         IF ~c.start \/ OpenBlock(c) THEN Protocol(c) ELSE [c EXCEPT !.finish = e[2]]

Consume(c, e) ==
  IF c.result # "running" THEN c
  ELSE IF c.finish # "none" THEN Protocol(c)
  ELSE IF e[1] \in {"TextStart", "TextDelta", "TextEnd"} THEN ConsumeText(c, e)
  ELSE IF e[1] \in {"ThinkingStart", "ThinkingDelta", "ThinkingEnd"} THEN ConsumeThinking(c, e)
  ELSE IF e[1] \in {"ToolStart", "ToolArgs", "ToolEnd"} THEN ConsumeTool(c, e)
  ELSE ConsumeRest(c, e)

(* The end of the stream: without Done it is a failure, a truncated answer    *)
(* is a final one, and the finish reason must agree with the calls.           *)
Conclude(c) ==
  IF c.result # "running" THEN c
  ELSE [c EXCEPT !.result =
    CASE c.finish = "none" -> "provider"
      [] c.finish = "length" -> "truncated"
      [] (c.finish = "tool_use") # (\E i \in Index : c.tools[i] # "none") -> "protocol"
      [] OTHER -> "ok"]

(* What the client has been shown after the accepted events of c.             *)
Shown(c) == [text |-> c.textOpen, thinking |-> c.thinking, tools |-> c.tools]

(* The adapter answers one wire event: its new locals, the events it yields,  *)
(* and whether it then fails.                                                 *)
Yield(a, out) == [a |-> a, out |-> out, err |-> FALSE]
Break(a, out) == [a |-> a, out |-> out, err |-> TRUE]

Feed(r) ==
  LET c == FoldLeft(Consume, cycle, r.out)
  IN  /\ adapter' = r.a
      /\ cycle' = IF r.err /\ c.result = "running" THEN [c EXCEPT !.result = "provider"] ELSE c
      /\ client' = Shown(c)
      /\ UNCHANGED <<api, retries>>

(* The same, and then the stream ends.                                        *)
FeedEnd(r) ==
  LET c == FoldLeft(Consume, cycle, r.out)
  IN  /\ adapter' = r.a
      /\ cycle' = IF r.err /\ c.result = "running" THEN [c EXCEPT !.result = "provider"]
                  ELSE Conclude(c)
      /\ client' = Shown(c)
      /\ UNCHANGED <<api, retries>>

Streaming == cycle.result = "running" /\ server.state = "streaming"

----------------------------------------------------------------------------
(* Tool calls of the two OpenAI adapters: the start is held back until both   *)
(* id and name are known, arguments that came earlier follow it.              *)

Announce(t, i) ==
  LET start == ~t.started /\ t.id /\ t.name
      u == [t EXCEPT !.started = @ \/ start]
      more == u.started /\ u.given < u.got
  IN  [tool |-> IF more THEN [u EXCEPT !.given = u.got] ELSE u,
       out |-> (IF start THEN << <<"ToolStart", i>> >> ELSE <<>>)
               \o (IF more THEN << <<"ToolArgs", i, u.got - u.given>> >> ELSE <<>>)]

UpdateChatTool(a, i, id, name, n) ==
  LET t == [a.tools[i] EXCEPT !.id = @ \/ id, !.name = @ \/ name, !.seen = TRUE,
                              !.got = @ + n]
      r == Announce(t, i)
  IN  Yield([a EXCEPT !.tools[i] = r.tool], r.out)

(* update_response_tool: n is the arguments' length after the event (a delta  *)
(* adds a fragment, a snapshot brings them all); done ends the call once.     *)
UpdateResponseTool(a, i, known, n, done) ==
  LET t == [a.tools[i] EXCEPT !.id = @ \/ known, !.name = @ \/ known, !.seen = TRUE,
                              !.got = n]
      r == Announce(t, i)
  IN  IF n < a.tools[i].got THEN Break(a, <<>>)
      ELSE IF done /\ ~r.tool.ended THEN
             IF ~r.tool.started THEN Break([a EXCEPT !.tools[i] = r.tool], <<>>)
             ELSE Yield([a EXCEPT !.tools[i] = [r.tool EXCEPT !.ended = TRUE]],
                        r.out \o << <<"ToolEnd", i>> >>)
      ELSE Yield([a EXCEPT !.tools[i] = r.tool], r.out)

EndBlocks(a) ==
  (IF a.thinking THEN << <<"ThinkingEnd">> >> ELSE <<>>)
  \o (IF a.text THEN << <<"TextEnd">> >> ELSE <<>>)
Closed(a) == [a EXCEPT !.text = FALSE, !.thinking = FALSE]

Sorted(S) == SetToSortSeq(S, LAMBDA x, y : x < y)
Seen(a) == {i \in Index : a.tools[i].seen}
When(b, e) == IF b THEN <<e>> ELSE <<>>

----------------------------------------------------------------------------
(* OpenAI Chat                                                                *)

(* Mutant: observed tool calls outrank every other label.                     *)
MapFinishToolsFirst(reason, hasTools) ==
  IF hasTools THEN "tool_use" ELSE IF reason = "length" THEN "length" ELSE "stop"

MapFinish(reason, hasTools) ==
  CASE reason = "tool_calls" -> "tool_use"
    [] reason = "length" -> "length"
    [] reason = "content_filter" -> "stop"
    [] OTHER -> IF hasTools THEN "tool_use" ELSE "stop"

(* A call that never got an id is named after its index; one without a name   *)
(* fails the stream.                                                          *)
ChatCallEnd(a, r, i) ==
  IF r.err THEN r
  ELSE IF a.tools[i].started THEN [r EXCEPT !.out = @ \o << <<"ToolEnd", i>> >>]
  ELSE IF ~a.tools[i].name THEN [r EXCEPT !.err = TRUE]
  ELSE [r EXCEPT !.out = @ \o << <<"ToolStart", i>> >>
                  \o When(a.tools[i].got > 0, <<"ToolArgs", i, a.tools[i].got>>)
                  \o << <<"ToolEnd", i>> >>]

ChatEnd(a, doneMarker) ==
  LET r == FoldLeft(LAMBDA q, i : ChatCallEnd(a, q, i), Yield(Closed(a), EndBlocks(a)),
                    Sorted(Seen(a)))
      finish == IF a.reason # "none" THEN a.reason
                ELSE IF ~doneMarker THEN "none"
                ELSE IF Seen(a) = {} THEN "stop" ELSE "tool_use"
      tail == r.out \o When(a.usage, <<"Usage">>) \o When(a.replay, <<"Replay">>)
  IN  IF r.err THEN r
      ELSE IF finish = "none" THEN Break(r.a, tail)
      ELSE Yield(r.a, tail \o << <<"Done", finish>> >>)

ChatReasoning ==
  /\ api = "chat" /\ Streaming /\ server.reason = "none" /\ ~server.thought
  /\ Feed(Yield([adapter EXCEPT !.thinking = TRUE, !.replay = TRUE],
                When(~adapter.thinking, <<"ThinkingStart">>) \o << <<"ThinkingDelta">> >>))
  /\ server' = [server EXCEPT !.thought = TRUE]

ChatContent ==
  /\ api = "chat" /\ Streaming /\ server.reason = "none" /\ Len(server.text) < 2
  /\ Feed(Yield([adapter EXCEPT !.thinking = FALSE, !.text = TRUE],
                When(adapter.thinking, <<"ThinkingEnd">>)
                \o When(~adapter.text, <<"TextStart">>) \o << <<"TextDelta", <<1>> >> >>))
  /\ server' = [server EXCEPT !.text = Append(@, 1)]

ChatTool(i, id, name, n) ==
  /\ api = "chat" /\ Streaming /\ server.reason = "none"
  /\ server.args[i] + n <= MaxArgs
  /\ id \/ name \/ n > 0
  /\ Feed(UpdateChatTool(adapter, i, id, name, n))
  /\ server' = [server EXCEPT !.used = @ \cup {i}, !.told = IF name THEN @ \cup {i} ELSE @,
                             !.args[i] = @ + n]

ChatFinish(reason) ==
  /\ api = "chat" /\ Streaming /\ server.reason = "none"
  /\ server.used \subseteq server.told
  /\ reason = "tool_calls" => server.used # {}
  /\ Feed(Yield([adapter EXCEPT !.reason = MapFinish(reason, Seen(adapter) # {})], <<>>))
  /\ server' = [server EXCEPT !.reason = reason]

ChatUsage ==
  /\ api = "chat" /\ Streaming /\ ~server.usage
  /\ Feed(Yield([adapter EXCEPT !.usage = TRUE], <<>>))
  /\ server' = [server EXCEPT !.usage = TRUE]

ChatDone ==
  /\ api = "chat" /\ Streaming /\ server.used \subseteq server.told
  /\ FeedEnd(ChatEnd(adapter, TRUE))
  /\ server' = [server EXCEPT !.state = "over",
                             !.reason = IF @ = "none" THEN "done" ELSE @]

ChatEof ==
  /\ api = "chat" /\ Streaming
  /\ FeedEnd(ChatEnd(adapter, FALSE))
  /\ server' = [server EXCEPT !.state = "over"]
----------------------------------------------------------------------------
(* Anthropic                                                                  *)

Start(kind, i) ==
  CASE kind = "text" -> << <<"TextStart">> >>
    [] kind = "thinking" -> << <<"ThinkingStart">> >>
    [] kind = "tool" -> << <<"ToolStart", i>> >>
    [] OTHER -> <<>>

(* close_anthropic_block: a thinking block is replayed only with a signature. *)
CloseBlock(r, i) ==
  LET kind == r.a.blocks[i]
  IN  Yield([r.a EXCEPT !.blocks[i] = "none",
                        !.replay = @ \/ (kind = "thinking" /\ i \in r.a.signed)],
            r.out \o CASE kind = "text" -> << <<"TextEnd">> >>
                       [] kind = "thinking" -> << <<"ThinkingEnd">> >>
                       [] kind = "tool" -> << <<"ToolEnd", i>> >>
                       [] OTHER -> <<>>)

MessageEnd(a) ==
  LET r == FoldLeft(CloseBlock, Yield([a EXCEPT !.terminal = TRUE], <<>>),
                    Sorted({i \in Index : a.blocks[i] # "none"}))
      finish == IF a.reason = "length" THEN "length"
                ELSE IF a.sawTool THEN "tool_use"
                ELSE IF a.reason # "none" THEN a.reason ELSE "stop"
  IN  Yield(r.a, r.out \o When(r.a.replay, <<"Replay">>) \o When(a.usage, <<"Usage">>)
                 \o << <<"Done", finish>> >>)

FreshBlock(i, kind) ==
  /\ server.blocks[i] = "none"
  /\ \A j \in Index : j < i => server.blocks[j] # "none"
  /\ kind # "tool" => \A j \in Index : server.blocks[j] # kind

BlockStart(i, kind) ==
  /\ api = "anthropic" /\ Streaming /\ server.reason = "none"
  /\ FreshBlock(i, kind)
  /\ Feed(Yield([adapter EXCEPT !.blocks[i] = kind, !.sawTool = @ \/ kind = "tool",
                                !.replay = @ \/ kind = "redacted"], Start(kind, i)))
  /\ server' = [server EXCEPT !.blocks[i] = kind,
                             !.used = IF kind = "tool" THEN @ \cup {i} ELSE @]

(* A delta of a block whose start was omitted opens it.                       *)
BlockDelta(i, kind) ==
  /\ api = "anthropic" /\ Streaming /\ server.reason = "none"
  /\ server.blocks[i] = kind \/ (kind # "tool" /\ FreshBlock(i, kind))
  /\ kind = "text" => Len(server.text) < 2
  /\ kind = "tool" => server.args[i] < MaxArgs
  /\ Feed(Yield([adapter EXCEPT !.blocks[i] = IF @ = "none" THEN kind ELSE @],
                When(adapter.blocks[i] = "none" /\ kind = "text", <<"TextStart">>)
                \o When(adapter.blocks[i] = "none" /\ kind = "thinking", <<"ThinkingStart">>)
                \o CASE kind = "text" -> << <<"TextDelta", <<1>> >> >>
                     [] kind = "thinking" -> << <<"ThinkingDelta">> >>
                     [] kind = "tool" -> << <<"ToolArgs", i, 1>> >>))
  /\ server' = [server EXCEPT !.blocks[i] = kind,
                             !.text = IF kind = "text" THEN Append(@, 1) ELSE @,
                             !.args[i] = IF kind = "tool" THEN @ + 1 ELSE @]

SignatureDelta(i) ==
  /\ api = "anthropic" /\ Streaming /\ server.reason = "none"
  /\ server.blocks[i] = "thinking" \/ FreshBlock(i, "thinking")
  /\ i \notin adapter.signed
  /\ Feed(Yield([adapter EXCEPT !.blocks[i] = IF @ = "none" THEN "thinking" ELSE @,
                                !.signed = @ \cup {i}],
                When(adapter.blocks[i] = "none", <<"ThinkingStart">>)))
  /\ server' = [server EXCEPT !.blocks[i] = "thinking"]

BlockStop(i) ==
  /\ api = "anthropic" /\ Streaming /\ server.reason = "none"
  /\ server.blocks[i] \notin {"none", "stopped"}
  /\ Feed(CloseBlock(Yield(adapter, <<>>), i))
  /\ server' = [server EXCEPT !.blocks[i] = "stopped"]

MessageDelta(reason) ==
  /\ api = "anthropic" /\ Streaming /\ server.reason = "none"
  /\ reason = "tool_use" => server.used # {}
  /\ Feed(Yield([adapter EXCEPT !.usage = TRUE,
                   !.reason = CASE reason = "tool_use" -> "tool_use"
                                [] reason = "max_tokens" -> "length"
                                [] reason = "end_turn" -> "stop"
                                [] OTHER -> IF adapter.sawTool THEN "tool_use" ELSE "stop"], <<>>))
  /\ server' = [server EXCEPT !.reason = IF reason = "max_tokens" THEN "length" ELSE reason]

MessageStop ==
  /\ api = "anthropic" /\ Streaming /\ ~adapter.terminal
  /\ Feed(MessageEnd(adapter))
  /\ server' = [server EXCEPT !.reason = IF @ = "none" THEN "done" ELSE @]

AnthropicEof ==
  /\ api = "anthropic" /\ Streaming
  /\ FeedEnd(IF adapter.terminal THEN Yield(adapter, <<>>)
             ELSE IF adapter.reason # "none" THEN MessageEnd(adapter)
             ELSE Break(adapter, <<>>))
  /\ server' = [server EXCEPT !.state = "over"]
----------------------------------------------------------------------------
(* OpenAI Responses                                                           *)

Reconcile(a, final) ==
  IF IsStrictPrefix(a.streamed, final)
  THEN Yield([a EXCEPT !.text = TRUE, !.streamed = final],
             When(~a.text, <<"TextStart">>)
             \o << <<"TextDelta", SubSeq(final, Len(a.streamed) + 1, Len(final))>> >>)
  ELSE Yield(a, <<>>)

TextFinished(r) ==
  Yield([r.a EXCEPT !.text = FALSE], r.out \o When(r.a.text, <<"TextEnd">>))

FragmentsOf(m) == Len(SelectSeq(server.text, LAMBDA x : x = m))
Asking == api = "responses" /\ Streaming /\ server.reason = "none"

OutputTextDelta(m) ==
  /\ Asking /\ server.said[m] \in {"none", "streaming"} /\ FragmentsOf(m) < 2
  /\ \A n \in Messages : n < m => server.said[n] = "done"
  /\ Feed(Yield([adapter EXCEPT !.thinking = FALSE, !.text = TRUE, !.streamed = Append(@, m)],
                When(adapter.thinking, <<"ThinkingEnd">>) \o When(~adapter.text, <<"TextStart">>)
                \o << <<"TextDelta", <<m>> >> >>))
  /\ server' = [server EXCEPT !.text = Append(@, m), !.said[m] = "streaming"]

(* output_text.done and output_item.done of a message bring its whole text.   *)
(* A later message is streamed in full before they come.                      *)
MessageDone(m, item) ==
  /\ Asking
  /\ \A n \in Messages : n < m => server.said[n] = "done" /\ FragmentsOf(m) = 2
  /\ \A n \in Messages : n > m => server.said[n] = "none"
  /\ server.said[m] # "done" \/ (item /\ ~adapter.sawItem)
  /\ Feed(TextFinished(Reconcile([adapter EXCEPT !.sawItem = @ \/ item], FullText(m))))
  /\ server' = [server EXCEPT !.said[m] = "done",
                             !.text = SelectSeq(@, LAMBDA x : x # m) \o FullText(m)]

ReasoningDelta ==
  /\ Asking /\ ~server.thought
  /\ Feed(Yield([adapter EXCEPT !.thinking = TRUE],
                When(~adapter.thinking, <<"ThinkingStart">>) \o << <<"ThinkingDelta">> >>))
  /\ server' = [server EXCEPT !.thought = TRUE]

(* reasoning_text.done, and output_item.done of the reasoning item, which is  *)
(* kept for the replay state.                                                 *)
ReasoningDone(item) ==
  /\ Asking /\ server.thought /\ ~adapter.replay
  /\ Feed(Yield([adapter EXCEPT !.thinking = FALSE, !.replay = item],
                When(adapter.thinking, <<"ThinkingEnd">>)))
  /\ UNCHANGED server

CallAdded(i) ==
  /\ Asking /\ i \notin server.told
  /\ Feed(UpdateResponseTool([adapter EXCEPT !.sawTool = TRUE], i, TRUE, adapter.tools[i].got, FALSE))
  /\ server' = [server EXCEPT !.used = @ \cup {i}, !.told = @ \cup {i}]

ArgumentsDelta(i) ==
  /\ Asking /\ i \notin server.shut /\ server.args[i] < MaxArgs
  /\ Feed(UpdateResponseTool([adapter EXCEPT !.sawTool = TRUE], i, FALSE,
                             adapter.tools[i].got + 1, FALSE))
  /\ server' = [server EXCEPT !.used = @ \cup {i}, !.args[i] = @ + 1]

(* arguments.done with all the arguments, or with an empty string, which does *)
(* not end the call.                                                          *)
ArgumentsDone(i, n) ==
  /\ Asking /\ i \in server.told \ server.shut /\ n >= server.args[i]
  /\ Feed(IF n = 0 THEN UpdateResponseTool(adapter, i, FALSE, adapter.tools[i].got, FALSE)
          ELSE UpdateResponseTool(adapter, i, FALSE, n, TRUE))
  /\ server' = [server EXCEPT !.args[i] = n, !.shut = IF n = 0 THEN @ ELSE @ \cup {i}]

CallDone(i, n) ==
  /\ Asking /\ n >= server.args[i] /\ (i \in server.shut => n = server.args[i])
  /\ ~(adapter.tools[i].ended /\ adapter.sawItem)
  /\ Feed(UpdateResponseTool([adapter EXCEPT !.sawTool = TRUE, !.sawItem = TRUE], i, TRUE, n, TRUE))
  /\ server' = [server EXCEPT !.used = @ \cup {i}, !.told = @ \cup {i}, !.args[i] = n,
                             !.shut = @ \cup {i}]

ToEnd(a) == {i \in Index : a.tools[i].started /\ ~a.tools[i].ended}
EndCalls(a) == LET q == Sorted(ToEnd(a)) IN [k \in DOMAIN q |-> <<"ToolEnd", q[k]>>]
Ended(a) == [Closed(a) EXCEPT !.terminal = TRUE,
               !.tools = [i \in Index |-> [a.tools[i] EXCEPT !.ended = @ \/ i \in ToEnd(a)]]]
Finished(a) == <<"Done", IF a.sawTool THEN "tool_use" ELSE "stop">>

Completed ==
  /\ Asking /\ server.used \subseteq server.told
  /\ \A m \in Messages : server.said[m] # "streaming"
  /\ LET out == << <<"Usage">> >> \o EndBlocks(adapter) \o EndCalls(adapter)
     IN  Feed(IF \E i \in Seen(adapter) : ~adapter.tools[i].started THEN Break(adapter, out)
              ELSE Yield(Ended(adapter),
                         out \o When(adapter.replay, <<"Replay">>) \o <<Finished(adapter)>>))
  /\ server' = [server EXCEPT !.reason = "done"]

Incomplete ==
  /\ Asking
  /\ Feed(Yield(Ended(adapter), EndBlocks(adapter) \o EndCalls(adapter) \o << <<"Done", "length">> >>))
  /\ server' = [server EXCEPT !.reason = "length"]

(* The stream ends: without a terminal event a completed item is enough,      *)
(* unless some call is still open.                                            *)
ResponsesEof ==
  /\ api = "responses" /\ Streaming
  /\ FeedEnd(IF adapter.terminal THEN Yield(adapter, <<>>)
             ELSE IF ~adapter.sawItem THEN Break(adapter, <<>>)
             ELSE IF \E i \in Seen(adapter) : ~adapter.tools[i].ended
                  THEN Break(adapter, EndBlocks(adapter))
             ELSE Yield(Ended(adapter), EndBlocks(adapter) \o When(adapter.replay, <<"Replay">>)
                                         \o <<Finished(adapter)>>))
  /\ server' = [server EXCEPT !.state = "over"]

----------------------------------------------------------------------------
(* The attempt and its repetition                                             *)

(* send_once: the provider answers, refuses, or cannot be reached.            *)
Respond ==
  /\ server.state = "asked" /\ cycle.result = "running"
  /\ server' = [server EXCEPT !.state = "streaming"]
  /\ Feed(Yield(adapter, << <<"Start">> >>))

Refuse(result) ==
  /\ server.state = "asked" /\ cycle.result = "running"
  /\ cycle' = [cycle EXCEPT !.result = result]
  /\ server' = [server EXCEPT !.state = "over"]
  /\ UNCHANGED <<api, adapter, client, retries>>

(* An error event, a broken connection or the idle timeout of the router.     *)
ServerFails ==
  /\ Streaming /\ server.reason = "none"
  /\ Feed(Break(adapter, <<>>))
  /\ server' = [server EXCEPT !.state = "over"]

(* Cancellation: the adapter's stream ends and interrupt_cycle closes what    *)
(* the client was shown open.                                                 *)
Cancel ==
  /\ cycle.result = "running"
  /\ cycle' = [cycle EXCEPT !.result = "cancelled"]
  /\ server' = [server EXCEPT !.state = "over"]
  /\ client' = [client EXCEPT !.text = FALSE, !.thinking = FALSE]
  /\ UNCHANGED <<api, adapter, retries>>

(* should_retry; the session is told (ModelAttemptFailed) and drops the       *)
(* failed attempt's blocks and calls.                                         *)
Retry ==
  /\ cycle.result \in {"provider", "protocol"} /\ retries < MaxRetries
  /\ retries' = retries + 1
  /\ server' = NoServer /\ adapter' = NoAdapter /\ cycle' = NoCycle /\ client' = NoClient
  /\ UNCHANGED api

Over == cycle.result \in {"ok", "truncated", "cancelled", "rejected"}
        \/ (cycle.result \in {"provider", "protocol"} /\ retries = MaxRetries)
Finish == Over /\ UNCHANGED vars

Chat ==
  \/ ChatReasoning \/ ChatContent \/ ChatUsage \/ ChatDone \/ ChatEof
  \/ \E i \in Index, id, name \in BOOLEAN, n \in 0..1 : ChatTool(i, id, name, n)
  \/ \E r \in {"stop", "tool_calls", "length", "content_filter"} : ChatFinish(r)

Anthropic ==
  \/ \E i \in Index, k \in {"text", "thinking", "redacted", "tool"} : BlockStart(i, k)
  \/ \E i \in Index, k \in {"text", "thinking", "tool"} : BlockDelta(i, k)
  \/ \E i \in Index : SignatureDelta(i) \/ BlockStop(i)
  \/ \E r \in {"tool_use", "max_tokens", "end_turn", "other"} : MessageDelta(r)
  \/ MessageStop \/ AnthropicEof

Responses ==
  \/ \E m \in Messages : OutputTextDelta(m) \/ MessageDone(m, TRUE) \/ MessageDone(m, FALSE)
  \/ ReasoningDelta \/ ReasoningDone(TRUE) \/ ReasoningDone(FALSE)
  \/ \E i \in Index : CallAdded(i) \/ ArgumentsDelta(i)
  \/ \E i \in Index, n \in 0..MaxArgs : ArgumentsDone(i, n) \/ CallDone(i, n)
  \/ Completed \/ Incomplete \/ ResponsesEof

Next ==
  \/ Respond \/ Refuse("rejected") \/ Refuse("provider")
  \/ Chat \/ Anthropic \/ Responses
  \/ ServerFails \/ Cancel \/ Retry \/ Finish

Spec == Init /\ [][Next]_vars
----------------------------------------------------------------------------
(* Properties                                                                 *)

TypeOK ==
  /\ api \in Apis /\ retries \in 0..MaxRetries
  /\ server.state \in {"asked", "streaming", "over"}
  /\ cycle.result \in {"running", "ok", "protocol", "provider", "truncated", "cancelled", "rejected"}
  /\ cycle.finish \in {"none", "stop", "length", "tool_use"}
  /\ \A i \in Index : /\ cycle.args[i] \in 0..MaxArgs
                      /\ adapter.tools[i].given <= adapter.tools[i].got

(* A stream that keeps to its API is never refused by consume_model_cycle,    *)
(* however it is cut into events: each adapter opens, closes and finishes     *)
(* exactly as the cycle demands.  The one exception is a filtered answer      *)
(* with tool calls, which is refused on purpose (map_finish).                 *)
ConformingAccepted ==
  cycle.result = "protocol" =>
    api = "chat" /\ server.reason = "content_filter" /\ server.used # {}

(* Tool calls of an answer that was cut short (max tokens) or filtered are    *)
(* never executed (the tests next to map_finish, the Length branch of the     *)
(* cycle).                                                                    *)
TruncatedRunsNothing ==
  cycle.result = "ok" /\ (\E i \in Index : cycle.tools[i] # "none")
    => server.reason \notin {"length", "content_filter"}

(* An accepted answer is the server's answer: all its text in order, and      *)
(* every call with all its arguments, although ids, names, arguments and      *)
(* texts may come late, twice, or only in the final item.                     *)
AnswerWhole ==
  cycle.result = "ok" =>
    /\ cycle.text = server.text
    /\ \A i \in server.used : cycle.tools[i] = "ended" /\ cycle.args[i] = server.args[i]

(* A connection that breaks is not taken for the end of the answer: success   *)
(* needs a stop reason or a terminal event.  Only the Responses adapter also  *)
(* accepts a stream that ends after a completed item.                         *)
CutIsNotSuccess ==
  cycle.result = "ok" =>
    server.reason # "none" \/ (api = "responses" /\ adapter.sawItem)

(* After a cancellation the client is left with no open text or thinking      *)
(* block (interrupt_cycle).                                                   *)
CancelCloses ==
  cycle.result = "cancelled" => ~client.text /\ ~client.thinking

-----------------------------------------------------------------------------
(* The OpenAI adapters of the plugin SDK (openai_chat.ts and                  *)
(* openai_responses.ts), run beside the host's own adapters of ModelStream    *)
(* on the same server events.  What the SDK emits passes wire::model_event    *)
(* and meets the same consume_model_cycle.                                    *)

VARIABLES
  port,          \* the locals of the SDK's adapter; order: its tools as a Map keeps them
  portCycle      \* consume_model_cycle fed by the SDK

sdkVars == <<vars, port, portCycle>>

NoPort == [text |-> FALSE, thinking |-> FALSE, streamed |-> <<>>, order |-> <<>>,
           tools |-> [i \in Index |-> NoTool], finish |-> "none", sawTool |-> FALSE,
           sawItem |-> FALSE, usage |-> FALSE, reasoning |-> FALSE, terminal |-> FALSE]

SdkInit == Init /\ api # "anthropic" /\ port = NoPort /\ portCycle = NoCycle

(* What the adapter emits or throws reaches the cycle; ended when its         *)
(* invocation is over.                                                        *)
Emit(r, ended) ==
  LET c == FoldLeft(Consume, portCycle, r.out)
  IN  /\ port' = r.a
      /\ portCycle' = IF r.err /\ c.result = "running" THEN [c EXCEPT !.result = "provider"]
                      ELSE IF ended THEN Conclude(c) ELSE c

Known(p, i) == IF i \in ToSet(p.order) THEN p ELSE [p EXCEPT !.order = Append(@, i)]
CloseThinking(p) == Yield([p EXCEPT !.thinking = FALSE], When(p.thinking, <<"ThinkingEnd">>))
CloseText(r) == Yield([r.a EXCEPT !.text = FALSE], r.out \o When(r.a.text, <<"TextEnd">>))
Close(p) == CloseText(CloseThinking(p))

(* The events of updateTool: the start once id and name are known, then the   *)
(* arguments not yet emitted.                                                 *)
Push(p, i, t) ==
  LET starts == ~t.started /\ t.id /\ t.name
      more == (t.started \/ starts) /\ t.given < t.got
  IN  Yield([Known(p, i) EXCEPT !.tools[i] =
               [t EXCEPT !.started = @ \/ starts, !.given = IF more THEN t.got ELSE @]],
            When(starts, <<"ToolStart", i>>) \o When(more, <<"ToolArgs", i, t.got - t.given>>))

----------------------------------------------------------------------------
(* openai_chat.ts                                                             *)

(* Unlike the host's map_finish, "stop" is taken at its word.                 *)
SdkMapFinish(reason, hasTools) ==
  CASE reason \in {"tool_calls", "function_call"} -> "tool_use"
    [] reason = "length" -> "length"
    [] reason \in {"stop", "content_filter"} -> "stop"
    [] OTHER -> IF hasTools THEN "tool_use" ELSE "stop"

SdkReasoningDelta ==
  Yield([port EXCEPT !.thinking = TRUE, !.reasoning = TRUE],
        When(~port.thinking, <<"ThinkingStart">>) \o << <<"ThinkingDelta">> >>)

SdkContent(piece) ==
  LET r == CloseThinking(port)
  IN  Yield([r.a EXCEPT !.text = TRUE, !.streamed = @ \o piece],
            r.out \o When(~port.text, <<"TextStart">>) \o << <<"TextDelta", piece>> >>)

SdkChatTool(i, id, name, n) ==
  Push(port, i, [port.tools[i] EXCEPT !.id = @ \/ id, !.name = @ \/ name, !.got = @ + n])

SdkChatCallEnd(p, r, i) ==
  LET t == p.tools[i]
  IN  IF r.err \/ (~t.started /\ ~t.name) THEN [r EXCEPT !.err = TRUE]
      ELSE [r EXCEPT !.out = @ \o When(~t.started, <<"ToolStart", i>>)
                              \o When(~t.started /\ t.got > 0, <<"ToolArgs", i, t.got>>)
                              \o << <<"ToolEnd", i>> >>]

(* After the last line: what is open is closed, and the reason is the stated  *)
(* one or what [DONE] implies.                                                *)
SdkChatEnd(sawDoneMarker) ==
  LET r == FoldLeft(LAMBDA q, i : SdkChatCallEnd(port, q, i), Close(port), port.order)
      tail == When(port.usage, <<"Usage">>) \o When(port.reasoning, <<"Replay">>)
      reason == IF port.finish # "none" THEN port.finish
                ELSE IF ~sawDoneMarker THEN "none"
                ELSE IF port.order = <<>> THEN "stop" ELSE "tool_use"
  IN  IF r.err THEN r
      ELSE IF reason = "none" THEN Break(r.a, r.out \o tail)
      ELSE Yield(r.a, r.out \o tail \o << <<"Done", reason>> >>)

SdkChat ==
  \/ ChatReasoning /\ Emit(SdkReasoningDelta, FALSE)
  \/ ChatContent /\ Emit(SdkContent(<<1>>), FALSE)
  \/ ChatUsage /\ Emit(Yield([port EXCEPT !.usage = TRUE], <<>>), FALSE)
  \/ ChatDone /\ Emit(SdkChatEnd(TRUE), TRUE)
  \/ ChatEof /\ Emit(SdkChatEnd(FALSE), TRUE)
  \/ \E i \in Index, id, name \in BOOLEAN, n \in 0..1 :
       ChatTool(i, id, name, n) /\ Emit(SdkChatTool(i, id, name, n), FALSE)
  \/ \E reason \in {"stop", "tool_calls", "length", "content_filter"} :
       ChatFinish(reason)
       /\ Emit(Yield([port EXCEPT !.finish = SdkMapFinish(reason, port.order # <<>>)], <<>>), FALSE)

----------------------------------------------------------------------------
(* openai_responses.ts                                                        *)

(* updateTool: a snapshot must continue the arguments streamed so far.        *)
SdkUpdateTool(p, i, known, n, done) ==
  LET t == p.tools[i]
      r == Push(p, i, [t EXCEPT !.id = @ \/ known, !.name = @ \/ known, !.got = n])
  IN  CASE n < t.got -> Break(p, <<>>)
        [] n >= t.got /\ done /\ ~t.ended /\ ~r.a.tools[i].started -> Break(r.a, <<>>)
        [] n >= t.got /\ done /\ ~t.ended /\ r.a.tools[i].started ->
             Yield([r.a EXCEPT !.tools[i].ended = TRUE], r.out \o << <<"ToolEnd", i>> >>)
        [] OTHER -> r

SdkReconcile(p, final) ==
  IF Len(final) > Len(p.streamed) /\ IsPrefix(p.streamed, final)
  THEN Yield([p EXCEPT !.text = TRUE, !.streamed = final],
             When(~p.text, <<"TextStart">>)
             \o << <<"TextDelta", SubSeq(final, Len(p.streamed) + 1, Len(final))>> >>)
  ELSE Yield(p, <<>>)

(* endStartedTools, in the order the Map keeps.                               *)
Unended(p) == SelectSeq(p.order, LAMBDA i : p.tools[i].started /\ ~p.tools[i].ended)
EndStartedTools(r) ==
  Yield([r.a EXCEPT !.tools = [i \in Index |-> [r.a.tools[i] EXCEPT
                                                  !.ended = @ \/ i \in ToSet(Unended(r.a))]],
                    !.terminal = TRUE],
        r.out \o [k \in DOMAIN Unended(r.a) |-> <<"ToolEnd", Unended(r.a)[k]>>])

Replaying(p) ==
  When(p.reasoning, <<"Replay">>) \o << <<"Done", IF p.sawTool THEN "tool_use" ELSE "stop">> >>

SdkCompleted ==
  LET r == EndStartedTools(Close(port))
      out == << <<"Usage">> >> \o r.out
  IN  IF \E i \in ToSet(port.order) : ~port.tools[i].started THEN Break(r.a, out)
      ELSE Yield(r.a, out \o Replaying(port))

SdkIncomplete ==
  LET r == EndStartedTools(Close(port)) IN Yield(r.a, r.out \o << <<"Done", "length">> >>)

(* The lines end.  A completed item stands for the missing terminal event.    *)
SdkResponsesEnd ==
  IF port.terminal THEN Yield(port, <<>>)
  ELSE IF ~port.sawItem THEN Break(port, <<>>)
  ELSE LET r == Close(port) IN
       IF \E i \in ToSet(port.order) : ~port.tools[i].ended THEN Break(r.a, r.out)
       ELSE Yield(r.a, r.out \o Replaying(port))

SdkItemDone(i, n) ==
  SdkUpdateTool([port EXCEPT !.sawTool = TRUE, !.sawItem = TRUE], i, TRUE, n, TRUE)

(* An empty snapshot does not end the call.                                   *)
SdkArgumentsDone(i, n) ==
  IF n = 0 THEN SdkUpdateTool(port, i, FALSE, port.tools[i].got, FALSE)
  ELSE SdkUpdateTool(port, i, FALSE, n, TRUE)

SdkResponses ==
  \/ \E m \in Messages : OutputTextDelta(m) /\ Emit(SdkContent(<<m>>), FALSE)
  \/ \E m \in Messages, item \in BOOLEAN :
       /\ MessageDone(m, item)
       /\ Emit(CloseText(SdkReconcile([port EXCEPT !.sawItem = @ \/ item], FullText(m))), FALSE)
  \/ ReasoningDelta
     /\ Emit(Yield([port EXCEPT !.thinking = TRUE],
                   When(~port.thinking, <<"ThinkingStart">>) \o << <<"ThinkingDelta">> >>), FALSE)
  \/ \E item \in BOOLEAN :
       /\ ReasoningDone(item)
       /\ Emit(CloseThinking([port EXCEPT !.reasoning = item]), FALSE)
  \/ \E i \in Index :
       \/ CallAdded(i) /\ Emit(SdkUpdateTool([port EXCEPT !.sawTool = TRUE], i, TRUE,
                                             port.tools[i].got, FALSE), FALSE)
       \/ ArgumentsDelta(i) /\ Emit(SdkUpdateTool([port EXCEPT !.sawTool = TRUE], i, FALSE,
                                                  port.tools[i].got + 1, FALSE), FALSE)
  \/ \E i \in Index, n \in 0..MaxArgs :
       \/ ArgumentsDone(i, n) /\ Emit(SdkArgumentsDone(i, n), FALSE)
       \/ CallDone(i, n) /\ Emit(SdkItemDone(i, n), FALSE)
  \/ Completed /\ Emit(SdkCompleted, FALSE)
  \/ Incomplete /\ Emit(SdkIncomplete, FALSE)
  \/ ResponsesEof /\ Emit(SdkResponsesEnd, TRUE)

----------------------------------------------------------------------------
SdkRespond == Respond /\ Emit(Yield(port, << <<"Start">> >>), FALSE)

(* The connection breaks, or the provider sends response.failed or an error   *)
(* object: both adapters fail.                                                *)
SdkFails == ServerFails /\ Emit(Break(port, <<>>), TRUE)

(* A Responses event of type "error": the host fails, the SDK has no case for *)
(* it and reads on to the end of the lines.                                   *)
SdkErrorEvent ==
  /\ api = "responses" /\ ServerFails
  /\ Emit(SdkResponsesEnd, TRUE)

SdkNext == SdkRespond \/ SdkChat \/ SdkResponses \/ SdkFails

(* With the two events the SDK treats in a way of its own.                    *)
SdkNextAll == SdkNext \/ SdkErrorEvent

SdkSpec == SdkInit /\ [][SdkNext]_sdkVars
SdkSpecAll == SdkInit /\ [][SdkNextAll]_sdkVars
----------------------------------------------------------------------------
Content(c) == [text |-> c.text, tools |-> c.tools, args |-> c.args, usage |-> c.usage,
               replay |-> c.replay]

StoppedWithTools == api = "chat" /\ server.reason = "stop" /\ server.used # {}

(* The SDK's adapters are the host's: on the same server events the run gets  *)
(* the same text, the same calls with the same arguments, usage and replay    *)
(* state, and the attempt ends the same way (the SDK documents its events as  *)
(* those of the host's providers).  A chat that ends its tool calls with      *)
(* "stop" is set aside.                                                       *)
PortAgrees ==
  ~StoppedWithTools =>
    /\ portCycle.result = cycle.result
    /\ cycle.result \in {"running", "ok", "truncated"} => Content(portCycle) = Content(cycle)

(* The same with nothing set aside.                                           *)
PortIsHost ==
  /\ portCycle.result = cycle.result
  /\ cycle.result \in {"running", "ok", "truncated"} => Content(portCycle) = Content(cycle)
=============================================================================
