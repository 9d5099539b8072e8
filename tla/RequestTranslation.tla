-------------------------- MODULE RequestTranslation --------------------------
(***************************************************************************)
(* A conversation on its way to a provider.  It comes from a run of the    *)
(* agent or, in one of three protocols, from a client of the external API, *)
(* whose request is parsed into the same history.  The history is then     *)
(* written in the provider's protocol by one of the host's builders or,    *)
(* through the wire contract of the plugins, by the SDK or the Antigravity *)
(* plugin.                                                                 *)
(*                                                                         *)
(* What is said is a sequence of atoms, named by turn and position: texts, *)
(* images, tool calls, tool results and the provider's own reasoning.      *)
(***************************************************************************)
EXTENDS Naturals, Sequences, FiniteSets, SequencesExt

CONSTANTS
    MaxTurns,  \* bound on the turns of a conversation
    MaxCalls   \* bound on the tool calls of one turn

VARIABLES
    entry,  \* "run", or the protocol of the external request
    exit,   \* the builder that writes the request
    talk    \* the conversation, turn by turn

translationVars == <<entry, exit, talk>>

Entries == {"run", "chat", "responses", "messages"}
Builders == {"chat", "responses", "anthropic", "sdk-chat", "sdk-responses", "cloud"}
Replays == {"openai_chat", "openai_responses", "anthropic", "antigravity", "none"}

(* A request that already speaks the protocol of its provider is forwarded  *)
(* as it is (NativeForward).                                                *)
Native == {<<"chat", "chat">>, <<"responses", "responses">>, <<"messages", "anthropic">>}

Init ==
    /\ entry \in Entries
    /\ exit \in Builders
    /\ <<entry, exit>> \notin Native
    /\ talk = <<>>

-----------------------------------------------------------------------------
(* The conversation.  It starts with the user, and every call is answered   *)
(* in the next turn.                                                        *)

Awaiting == talk # <<>> /\ Last(talk).who = "assistant" /\ Last(talk).calls > 0

UserTurn(parts) ==
    /\ Len(talk) < MaxTurns /\ ~Awaiting
    /\ talk' = Append(talk, [who |-> "user", parts |-> parts])
    /\ UNCHANGED <<entry, exit>>

(* Only a run keeps the replay state of an earlier answer. *)
AssistantTurn(text, calls, replay) ==
    /\ Len(talk) < MaxTurns /\ talk # <<>> /\ Last(talk).who # "assistant"
    /\ replay # "none" => entry = "run"
    /\ talk' = Append(talk, [who |-> "assistant", text |-> text, calls |-> calls,
                             replay |-> replay])
    /\ UNCHANGED <<entry, exit>>

(* The tools end in any order. *)
ToolTurn(order) ==
    /\ Len(talk) < MaxTurns /\ Awaiting
    /\ DOMAIN order = 1..Last(talk).calls
    /\ talk' = Append(talk, [who |-> "tools", calls |-> Last(talk).calls, order |-> order])
    /\ UNCHANGED <<entry, exit>>

Next ==
    \/ \E parts \in {<<"text">>, <<"text", "image">>, <<"blank">>} : UserTurn(parts)
    \/ \E text \in BOOLEAN, calls \in 0..MaxCalls, replay \in Replays :
          AssistantTurn(text, calls, replay)
    \/ \E n \in 1..MaxCalls : \E order \in {f \in [1..n -> 1..n] : IsInjective(f)} : ToolTurn(order)

Spec == Init /\ [][Next]_translationVars

-----------------------------------------------------------------------------
(* Atoms.  A call is named by the turn it is made in; its result carries    *)
(* that name and the tool's name, 0 standing for a name that was not found. *)

Atom(kind, turn, k) == [kind |-> kind, turn |-> turn, k |-> k, tool |-> <<0, 0>>]
Result(turn, k, tool) == [kind |-> "result", turn |-> turn, k |-> k, tool |-> tool]

AnswerText(t) == IF talk[t].text THEN <<Atom("text", t, 0)>> ELSE <<>>
Calls(t) == [k \in 1..talk[t].calls |-> Atom("call", t, k)]
Results(t) ==
    [k \in 1..talk[t].calls |-> LET c == talk[t].order[k] IN Result(t - 1, c, <<t - 1, c>>)]
Parts(t) == [k \in 1..Len(talk[t].parts) |-> Atom(talk[t].parts[k], t, k)]

Spoken(t) ==
    CASE talk[t].who = "user" -> Parts(t)
      [] talk[t].who = "assistant" -> AnswerText(t) \o Calls(t)
      [] talk[t].who = "tools" -> Results(t)

Turns == [t \in 1..Len(talk) |-> t]

Saying(role, atoms) == [role |-> role, atoms |-> atoms]
Each(role, atoms) == [k \in 1..Len(atoms) |-> Saying(role, <<atoms[k]>>)]

-----------------------------------------------------------------------------
(* The messages of the history (ProjectedMessage). *)

HParts(role, atoms) ==
    [kind |-> "parts", role |-> role, atoms |-> atoms, calls |-> <<>>, replay |-> "none", turn |-> 0]
HAssistant(atoms, calls, replay, turn) ==
    [kind |-> "assistant", role |-> "assistant", atoms |-> atoms, calls |-> calls,
     replay |-> replay, turn |-> turn]
HResult(atom) ==
    [kind |-> "result", role |-> "tool", atoms |-> <<atom>>, calls |-> <<>>,
     replay |-> "none", turn |-> 0]

(* What the store keeps of a round (commit_tool_result): for every result,  *)
(* in the order they came, an answer with its one call, the first of them   *)
(* with the text and the replay state, and the result.  Nothing is kept of  *)
(* a call that has no result yet.                                           *)
Committed(t) ==
    FlattenSeq([k \in 1..talk[t + 1].calls |->
        <<HAssistant(IF k = 1 THEN AnswerText(t) ELSE <<>>,
                     <<Atom("call", t, talk[t + 1].order[k])>>,
                     IF k = 1 THEN talk[t].replay ELSE "none", t),
          HResult(Results(t + 1)[k])>>])

Canonical ==
    FoldLeft(LAMBDA stored, t : stored \o
        CASE talk[t].who = "user" -> <<HParts("user", Parts(t))>>
          [] talk[t].who = "assistant" ->
                IF talk[t].calls > 0 THEN <<>>
                ELSE <<HAssistant(AnswerText(t), <<>>, talk[t].replay, t)>>
          [] talk[t].who = "tools" -> Committed(t - 1),
        <<>>, Turns)

(* The round at the end of a projection: an answer with calls, and results  *)
(* of them only.                                                            *)
OpenRound(projected) ==
    {i \in 1..Len(projected) :
        /\ projected[i].calls # <<>>
        /\ \A j \in (i + 1)..Len(projected) : \E atom \in ToSet(projected[j].atoms) :
              atom.kind = "result" /\ Atom("call", atom.turn, atom.k) \in ToSet(projected[i].calls)}

Joined(answer, m) ==
    [answer EXCEPT !.atoms = @ \o m.atoms,
                   !.calls = SetToSortSeq(ToSet(@ \o m.calls), LAMBDA c, d : c.k < d.k),
                   !.replay = IF m.replay = "none" THEN @ ELSE IF @ = "none" THEN m.replay
                              ELSE "repeated"]

(* project_messages: the parts of one round become one answer with all its  *)
(* calls, in the order of the model, and the results behind it.             *)
Projected ==
    FoldLeft(LAMBDA projected, m :
        LET same == {i \in OpenRound(projected) : m.calls # <<>> /\ projected[i].turn = m.turn}
        IN  IF same = {} THEN Append(projected, m)
            ELSE [projected EXCEPT ![Max(same)] = Joined(@, m)],
        <<>>, Canonical)

(* project_tool_round gives up: the replay state is there twice, or a call  *)
(* has no result or two.                                                    *)
Refused(projected) ==
    \E i \in 1..Len(projected) :
        \/ projected[i].replay = "repeated"
        \/ \E call \in ToSet(projected[i].calls) :
              Cardinality({j \in (i + 1)..Len(projected) :
                             \E atom \in ToSet(projected[j].atoms) :
                                atom.kind = "result" /\ <<atom.turn, atom.k>> = <<call.turn, call.k>>}) # 1

(* tool_name: the tool of the latest call with that id. *)
ToolName(history, atom) ==
    IF \E i \in 1..Len(history) : Atom("call", atom.turn, atom.k) \in ToSet(history[i].calls)
    THEN <<atom.turn, atom.k>> ELSE <<0, 0>>

Named(history, atom) == HResult(Result(atom.turn, atom.k, ToolName(history, atom)))

(* A Chat request as a client writes it, and how it is read. *)
ChatRequest ==
    FoldLeft(LAMBDA messages, t : messages \o
        IF talk[t].who = "tools" THEN Each("tool", Spoken(t))
        ELSE <<Saying(talk[t].who, Spoken(t))>>, <<>>, Turns)

IsCall(atom) == atom.kind = "call"
IsText(atom) == atom.kind \in {"text", "blank"}

ParseChatMessages(messages) ==
    FoldLeft(LAMBDA history, m : Append(history,
        CASE m.role = "user" -> HParts("user", m.atoms)
          [] m.role = "assistant" ->
                HAssistant(SelectSeq(m.atoms, IsText), SelectSeq(m.atoms, IsCall), "none", 0)
          [] m.role = "tool" -> Named(history, m.atoms[1])), <<>>, messages)

(* A Responses request: every call and every result is an item of its own,  *)
(* and becomes a message of its own.                                        *)
ResponsesRequest ==
    FoldLeft(LAMBDA items, t : items \o
        CASE talk[t].who = "user" -> <<Saying("user", Parts(t))>>
          [] talk[t].who = "assistant" ->
                Each("assistant", AnswerText(t)) \o Each("function_call", Calls(t))
          [] talk[t].who = "tools" -> Each("function_call_output", Results(t)), <<>>, Turns)

ParseResponsesInput(items) ==
    FoldLeft(LAMBDA history, item : Append(history,
        CASE item.role = "function_call_output" -> Named(history, item.atoms[1])
          [] item.role = "function_call" -> HAssistant(<<>>, item.atoms, "none", 0)
          [] OTHER -> HParts(item.role, item.atoms)), <<>>, items)

(* A Messages request: results open the user's message they precede. *)
MessagesRequest ==
    FoldLeft(LAMBDA messages, t :
        IF talk[t].who = "user" /\ t > 1 /\ talk[t - 1].who = "tools"
        THEN [messages EXCEPT ![Len(messages)].atoms = @ \o Parts(t)]
        ELSE Append(messages, Saying(IF talk[t].who = "assistant" THEN "assistant" ELSE "user",
                                     Spoken(t))), <<>>, Turns)

ParseBlocksLate(history, m) ==
    LET results == SelectSeq(m.atoms, LAMBDA atom : atom.kind = "result")
        rest == SelectSeq(m.atoms, LAMBDA atom : atom.kind \notin {"result", "call"})
    IN IF m.role = "assistant"
       THEN Append(history, HAssistant(SelectSeq(rest, IsText), SelectSeq(m.atoms, IsCall), "none", 0))
       ELSE history
            \o (IF rest = <<>> THEN <<>> ELSE <<HParts("user", rest)>>)
            \o [k \in 1..Len(results) |-> Named(history, results[k])]

(* The texts before a result become a message of their own before it, those *)
(* after the last one a message after it.  A lone text is sent as a string. *)
ParseBlocks(history, m) ==
    LET step(acc, atom) ==
            CASE atom.kind = "call" -> [acc EXCEPT !.calls = Append(@, atom)]
              [] atom.kind = "result" ->
                    [acc EXCEPT !.texts = <<>>,
                        !.history = @ \o (IF acc.texts = <<>> THEN <<>>
                                          ELSE <<HParts("user", acc.texts)>>)
                                      \o <<Named(@, atom)>>]
              [] OTHER -> [acc EXCEPT !.texts = Append(@, atom)]
        end == FoldLeft(step, [history |-> history, texts |-> <<>>, calls |-> <<>>], m.atoms)
    IN IF Len(m.atoms) = 1 /\ IsText(m.atoms[1]) THEN Append(history, HParts(m.role, m.atoms))
       ELSE IF m.role = "assistant"
       THEN Append(end.history, HAssistant(SelectSeq(end.texts, IsText), end.calls, "none", 0))
       ELSE IF end.texts = <<>> THEN end.history
       ELSE Append(end.history, HParts("user", end.texts))

ParseAnthropicMessages(messages) == FoldLeft(ParseBlocks, <<>>, messages)

(* parse: the history of a request. *)
History ==
    CASE entry = "run" -> Projected
      [] entry = "chat" -> ParseChatMessages(ChatRequest)
      [] entry = "responses" -> ParseResponsesInput(ResponsesRequest)
      [] entry = "messages" -> ParseAnthropicMessages(MessagesRequest)

-----------------------------------------------------------------------------
(* The builders. *)

Solid(atoms) == SelectSeq(atoms, LAMBDA atom : atom.kind # "blank")

(* The reasoning of an answer is sent back to the kind of provider it came  *)
(* from.                                                                    *)
Reasoning(m, kind) == IF m.replay = kind THEN <<Atom("reasoning", m.turn, 0)>> ELSE <<>>

(* openai_chat_messages: an answer with nothing to show is left out. *)
OpenAiChatMessages(history) ==
    FoldLeft(LAMBDA output, m : output \o
        LET shown == Reasoning(m, "openai_chat") \o m.atoms \o m.calls IN
        IF m.kind = "assistant" /\ Solid(shown) = <<>> THEN <<>>
        ELSE <<Saying(m.role, shown)>>, <<>>, history)

(* responses_input: reasoning, text and calls are items of their own; empty *)
(* texts are dropped.                                                       *)
ResponsesInput(history) ==
    FoldLeft(LAMBDA input, m : input \o
        CASE m.kind = "parts" ->
                IF Solid(m.atoms) = <<>> THEN <<>> ELSE <<Saying(m.role, Solid(m.atoms))>>
          [] m.kind = "result" -> <<Saying("function_call_output", m.atoms)>>
          [] m.kind = "assistant" ->
                Each("reasoning", Reasoning(m, "openai_responses"))
                \o Each("assistant", Solid(m.atoms)) \o Each("function_call", m.calls),
        <<>>, history)

(* push_anthropic: messages of one role in a row become one. *)
Push(output, role, content) ==
    IF output # <<>> /\ Last(output).role = role
    THEN [output EXCEPT ![Len(output)].atoms = @ \o content]
    ELSE Append(output, Saying(role, content))

AnthropicMessages(history) ==
    FoldLeft(LAMBDA output, m :
        LET content == Reasoning(m, "anthropic") \o Solid(m.atoms) \o m.calls IN
        IF content = <<>> THEN output
        ELSE Push(output, IF m.role = "assistant" THEN "assistant" ELSE "user", content),
        <<>>, history)

(* wire_message: a plain answer of the history loses its images. *)
WireMessage(m) ==
    IF m.kind = "parts" /\ m.role = "assistant"
    THEN HAssistant(SelectSeq(m.atoms, IsText), <<>>, "none", 0) ELSE m

LlmRequest(history) == [i \in 1..Len(history) |-> WireMessage(history[i])]

(* buildChatBody *)
BuildChatBody(messages) ==
    FoldLeft(LAMBDA output, m : output \o
        IF m.role # "assistant" THEN <<Saying(m.role, m.atoms)>>
        ELSE LET reasoning == Reasoning(m, "openai_chat") IN
             IF Solid(m.atoms) = <<>> /\ m.calls = <<>> /\ reasoning = <<>> THEN <<>>
             ELSE <<Saying("assistant", reasoning \o Solid(m.atoms) \o m.calls)>>,
        <<>>, messages)

(* buildResponsesBody *)
BuildResponsesBody(messages) ==
    FoldLeft(LAMBDA input, m : input \o
        CASE m.role = "assistant" ->
                Each("reasoning", Reasoning(m, "openai_responses"))
                \o Each("assistant", Solid(m.atoms)) \o Each("function_call", m.calls)
          [] m.role = "tool" -> <<Saying("function_call_output", m.atoms)>>
          [] OTHER ->
                IF Solid(m.atoms) = <<>> THEN <<>> ELSE <<Saying(m.role, Solid(m.atoms))>>,
        <<>>, messages)

(* convertToCloudCodeContents: the signature of an answer goes with its     *)
(* calls, an empty message of the user is sent as a blank, and the contents *)
(* start with the user.                                                     *)
ConvertToCloudCodeContents(messages) ==
    LET content(m) ==
            IF m.role = "assistant"
            THEN Solid(m.atoms)
                 \o (IF m.calls = <<>> THEN <<>> ELSE Reasoning(m, "antigravity")) \o m.calls
            ELSE IF m.role = "user" /\ Solid(m.atoms) = <<>> THEN <<Atom("blank", 0, 0)>>
            ELSE Solid(m.atoms)
        contents == FoldLeft(LAMBDA output, m :
            IF content(m) = <<>> THEN output
            ELSE Push(output, IF m.role = "assistant" THEN "model" ELSE "user", content(m)),
            <<>>, messages)
    IN IF contents # <<>> /\ contents[1].role # "user"
       THEN <<Saying("user", <<Atom("blank", 0, 0)>>)>> \o contents
       ELSE contents

Upstream ==
    CASE exit = "chat" -> OpenAiChatMessages(History)
      [] exit = "responses" -> ResponsesInput(History)
      [] exit = "anthropic" -> AnthropicMessages(History)
      [] exit = "sdk-chat" -> BuildChatBody(LlmRequest(History))
      [] exit = "sdk-responses" -> BuildResponsesBody(LlmRequest(History))
      [] exit = "cloud" -> ConvertToCloudCodeContents(LlmRequest(History))

-----------------------------------------------------------------------------
Flat(messages) == FlattenSeq([i \in 1..Len(messages) |-> messages[i].atoms])
Spelled(atoms) == SelectSeq(atoms, LAMBDA atom : atom.kind \notin {"blank", "reasoning"})

(* The provider is sent what was said: every text, image, call and result   *)
(* of the conversation, once and in its order, whatever protocol it came in *)
(* and whatever protocol it leaves in, and each result under its tool's     *)
(* name (tool_name).  The calls of a run are in the order of the model and  *)
(* the results in theirs, and its history is never refused.  A run asks for *)
(* nothing while calls are open.                                            *)
NothingLost ==
    /\ entry = "run" => ~Refused(Projected)
    /\ ~(entry = "run" /\ Awaiting) =>
         Spelled(Flat(Upstream)) = Spelled(FlattenSeq([t \in 1..Len(talk) |-> Spoken(t)]))

KindOf ==
    CASE exit \in {"chat", "sdk-chat"} -> "openai_chat"
      [] exit \in {"responses", "sdk-responses"} -> "openai_responses"
      [] exit = "anthropic" -> "anthropic"
      [] exit = "cloud" -> "antigravity"

(* A provider gets back the reasoning it gave, in front of the calls it led *)
(* to, and never the reasoning of another provider (replay_state).          *)
ReasoningStaysHome ==
    LET sent == Flat(Upstream) IN
    \A i \in 1..Len(sent) :
        sent[i].kind = "reasoning" =>
            /\ talk[sent[i].turn].replay = KindOf
            /\ \A j \in 1..i : sent[j].kind = "call" => sent[j].turn # sent[i].turn

(* Anthropic and Cloud Code demand that the roles alternate, though turns   *)
(* of one side follow each other and empty ones disappear (push_anthropic,  *)
(* convertToCloudCodeContents).                                             *)
RolesAlternate ==
    exit \in {"anthropic", "cloud"} =>
        LET sent == Upstream IN
        /\ \A i \in 1..(Len(sent) - 1) : sent[i].role # sent[i + 1].role
        /\ exit = "cloud" /\ sent # <<>> => sent[1].role = "user"

CallsIn(m) == {<<a.turn, a.k>> : a \in {x \in ToSet(m.atoms) : x.kind = "call"}}
ResultsIn(m) == {<<a.turn, a.k>> : a \in {x \in ToSet(m.atoms) : x.kind = "result"}}

(* The results that follow the i-th message with nothing between. *)
Answers(sent, i) ==
    UNION {ResultsIn(sent[j]) :
             j \in {n \in (i + 1)..Len(sent) :
                      \A h \in (i + 1)..n : ResultsIn(sent[h]) # {}}}

Answered ==
    LET sent == Upstream IN
    \A i \in 1..Len(sent) : CallsIn(sent[i]) \subseteq Answers(sent, i)

(* Where a provider reads whole messages, the calls of one are answered     *)
(* right after it: no call is left open, and none is answered after         *)
(* something else was said.  A Responses request with several calls in one  *)
(* turn is set aside for the Chat builders.                                 *)
CallsAnswered ==
    /\ exit \in {"chat", "sdk-chat", "anthropic", "cloud"}
    /\ ~Awaiting
    /\ ~(entry = "responses" /\ exit \in {"chat", "sdk-chat"}
         /\ \E t \in 1..Len(talk) : talk[t].who = "tools" /\ talk[t].calls > 1)
    => Answered

(* The same for every request. *)
EveryCallAnswered ==
    exit \in {"chat", "sdk-chat", "anthropic", "cloud"} /\ ~Awaiting => Answered

=============================================================================
