---------------------------- MODULE PromptHistory ----------------------------
(***************************************************************************)
(* What the model of a conversation is shown, turn after turn              *)
(* (cursor/compile, cursor/checkpoint, store/checkpoints.rs): a Run is     *)
(* prepared from the state that the client sends, which is decoded into    *)
(* messages and imported into the store; its own input is compiled,        *)
(* deduplicated and appended; and what it adds is encoded again into roots *)
(* that the client keeps and sends with the next Run.                      *)
(*                                                                         *)
(* A message is its id, its body and whether it has an image.  The body is *)
(* a tuple whose first element is the kind: <<"context", c>> the request   *)
(* context, <<"text", t, n>> an input compiled by Run n (the timestamp),   *)
(* <<"call", n, k>> what the model said in call k of Run n, <<"result",    *)
(* n, k>> the tool's answer to it, <<"foreign", i>> a message that was     *)
(* written elsewhere.  A digest is the value it is taken of.               *)
(***************************************************************************)
EXTENDS Naturals, Sequences, SequencesExt

CONSTANTS Inputs,      \* ids of the client's user messages
          Texts,       \* what a user message says
          Contexts,    \* compiled request contexts
          Tasks,       \* background tasks
          Plans,       \* plans that were approved
          Prompts,     \* system prompts (one per mode)
          Images,      \* subset of BOOLEAN: may a tool result carry an image
          Replacing,   \* subset of {"manual", "automatic"}: compactions
          Rounds,      \* bound: model calls of the first, second, ... and last Run
          None

VARIABLES client,      \* the state that the client holds
          rewinds,     \* the state it held before it first sent an input
          checkpoints, \* the store's checkpoints, the root first
          current,     \* the conversation's current checkpoint
          anchors,     \* input_anchors
          prepared,    \* Runs prepared so far
          run          \* the Run in progress

historyVars == <<client, rewinds, checkpoints, current, anchors, prepared, run>>

Kind(m) == m.body[1]

Message(i, b) == [id |-> i, body |-> b, image |-> FALSE]

\* What a provider is sent of a message: project_message, and
\* hydrate_tool_images for the image of a result.
Seen(ms) == [i \in DOMAIN ms |-> <<ms[i].body, ms[i].image>>]

Idle == [phase |-> "idle"]

Ended == run.phase \in {"idle", "done", "stopped", "refused"}

\* The states a conversation may have when this server first sees it: new, or
\* written by another backend.
FirstStates ==
  {<<>>} \cup { <<[id |-> <<"system">>, body |-> <<"system", p>>],
                  [id |-> <<"foreign", 1>>, body |-> <<"foreign", 1>>]>> : p \in Prompts }

-----------------------------------------------------------------------------
(* Roots: the wire form of a message, and back. *)

WireId(m) ==
  CASE Kind(m) = "call"   -> <<"1">>
    [] Kind(m) = "result" -> m.body
    [] OTHER              -> m.id

Wire(m) == [id |-> WireId(m), body |-> m.body]

StableMessages(p, ms) ==
  <<[id |-> <<"system">>, body |-> <<"system", p>>]>> \o [i \in DOMAIN ms |-> Wire(ms[i])]

\* decode: the id of a runtime message and of a request context is kept; any
\* other message gets one from its Blob and its place.
Decode(w, ordinal) ==
  Message(IF w.id[1] \in {"runtime", "request-context"} THEN w.id ELSE <<"root", w, ordinal>>,
          w.body)

\* hydrate_messages, and the system prompt taken out.
Hydrate(roots) ==
  SelectSeq([i \in DOMAIN roots |-> Decode(roots[i], i)], LAMBDA m : Kind(m) # "system")

\* validate_prompt_root
OnePromptRoot(roots) ==
  roots # <<>> => { i \in DOMAIN roots : roots[i].body[1] = "system" } = {1}

-----------------------------------------------------------------------------
(* The store. *)

Stored == UNION { Range(checkpoints[c].messages) : c \in DOMAIN checkpoints }

\* Store::message
StoredAs(i) == { m \in Stored : m.id = i }

\* put_message_tx refuses an id that names another message.
CanPut(ms) == \A m \in Range(ms) : \A s \in Stored : s.id = m.id => s = m

Find(table, ms) == { c \in DOMAIN table : table[c].messages = ms }

Checkpoint(parent, ms) == [parent |-> parent, messages |-> ms]

\* import_checkpoint of the client's messages: a known history is found by its
\* digest, a new one is stored below the current checkpoint that it extends or
\* below the root.
Imported(ms) ==
  IF Find(checkpoints, ms) # {} THEN checkpoints
  ELSE Append(checkpoints,
              Checkpoint(IF IsPrefix(checkpoints[current].messages, ms) THEN current ELSE 1, ms))

\* match_checkpoint_prefix: the checkpoint below `base` that ends with the
\* first of the additions which an earlier attempt stored.
Matched(table, base, additions) ==
  LET Child(c, m) == { d \in DOMAIN table :
                         /\ table[d].parent = c
                         /\ table[d].messages = Append(table[c].messages, m) }
      At[k \in 0 .. Len(additions)] ==
        IF k = 0 THEN <<base, 0>>
        ELSE LET before == At[k - 1]
                 next == IF before[2] = k - 1 THEN Child(before[1], additions[k]) ELSE {}
             IN  IF next = {} THEN before ELSE <<CHOOSE d \in next : TRUE, k>>
  IN  At[Len(additions)]

-----------------------------------------------------------------------------
(* The compiler: a Run's own input. *)

IsContext(m) == m.id[1] = "request-context"

\* should_project_request_context: the latest context says something else.
ShouldProject(history, c) ==
  LET old == SelectSeq(history, IsContext)
  IN  old = <<>> \/ old[Len(old)].body # <<"context", c>>

\* compile_request_context
ProjectedContext(history, c) == IF ShouldProject(history, c) THEN c ELSE None

\* user_event_id: what the input says, without its time, and the context that
\* goes with it.
UserEvent(i, projected, t) == <<"user", i, projected, t>>

\* execute_plan: the event is a digest of the plan, the same whenever it is approved.
PlanEvent(plan) == <<"execute-plan", plan>>

\* action: what the client asks for.  A user message is anchored by its id and gets its event
\* when it is compiled; a background task and a plan bring theirs; the message "/summarize"
\* asks for a compaction as SummarizeAction does, and everything else resumes.
Action(kind, what) ==
  [input      |-> IF kind = "user" THEN {what} ELSE {},
   event      |-> CASE kind = "background" -> {<<"background", what>>}
                    [] kind = "plan"       -> {PlanEvent(what)}
                    [] OTHER               -> {},
   compacting |-> kind = "compact"]

\* The message an earlier attempt stored, else one compiled now.
RuntimeMessage(event, t) ==
  LET old == StoredAs(<<"runtime", event>>)
  IN  IF old # {} THEN CHOOSE m \in old : TRUE
      ELSE Message(<<"runtime", event>>, <<"text", t, prepared + 1>>)

ContextMessage(event, projected) ==
  LET i == <<"request-context", event>>
      old == StoredAs(i)
  IN  IF old # {} THEN <<CHOOSE m \in old : TRUE>>
      ELSE IF projected = None THEN <<>> ELSE <<Message(i, <<"context", projected>>)>>

\* The Run as it leaves the compiler and CheckpointBuilder::new: `base` is the
\* checkpoint it starts from, `input` what it has to append; the builder's
\* roots are those of the client's state.
Start(kind, p, c, base, input, state, expects) ==
  [phase |-> "prepared", kind |-> kind, prompt |-> p, context |-> c,
   text |-> None, head |-> base, input |-> input, initial |-> input, changed |-> FALSE, round |-> 0,
   roots |-> state, baseCount |-> Len(state), generated |-> <<>>,
   expects |-> expects]

-----------------------------------------------------------------------------
Init ==
  /\ \E s \in FirstStates : client = [roots |-> s, seen |-> Seen(Hydrate(s)), tasks |-> {}]
  /\ rewinds = [i \in Inputs |-> None]
  /\ checkpoints = <<Checkpoint(0, <<>>)>>
  /\ current = 1
  /\ anchors = [i \in Inputs |-> 0]
  /\ prepared = 0
  /\ run = Idle

\* anchor_input: the base with which an input first came.
AnchorInput(i, base) ==
  anchors' = [anchors EXCEPT ![i] = IF @ = 0 THEN base ELSE @]

\* prepare, for a user message.
PrepareUser(i, t, c, p, state) ==
  LET history == Hydrate(state.roots)
      table == Imported(history)
      projected == ProjectedContext(history, c)
      event == UserEvent(i, projected, t)
      input == Append(ContextMessage(event, projected), RuntimeMessage(event, t))
  IN  /\ Ended /\ prepared < Len(Rounds)
      /\ OnePromptRoot(state.roots)
      /\ CanPut(history)
      /\ checkpoints' = table
      /\ AnchorInput(i, CHOOSE b \in Find(table, history) : TRUE)
      /\ rewinds' = [rewinds EXCEPT ![i] = IF @ = None THEN state ELSE @]
      /\ LET match == Matched(table, anchors'[i], input)
         IN  run' = [Start("user", p, c, match[1],
                           SubSeq(input, match[2] + 1, Len(input)), state.roots,
                           rewinds'[i].seen)
                     EXCEPT !.text = t]
      /\ client' = state
      /\ prepared' = prepared + 1
      /\ UNCHANGED current

FirstTime(i, t, c, p) == anchors[i] = 0 /\ PrepareUser(i, t, c, p, client)

\* The client sends the message again, rewound to where it was typed.
Again(i, t, c, p) == anchors[i] # 0 /\ PrepareUser(i, t, c, p, rewinds[i])

\* prepare, for the completion of a background task.  The compiled message
\* goes through the conversation's queue, and the Run that takes it from there
\* starts from the current checkpoint.
PrepareBackground(task, p) ==
  LET history == Hydrate(client.roots)
  IN \E event \in Action("background", task).event :
      /\ Ended /\ prepared < Len(Rounds) /\ task \in client.tasks
      /\ OnePromptRoot(client.roots)
      /\ CanPut(history)
      /\ checkpoints' = Imported(history)
      /\ run' = Start("background", p, None, current, <<RuntimeMessage(event, task)>>,
                      client.roots, client.seen)
      /\ prepared' = prepared + 1
      /\ UNCHANGED <<client, rewinds, current, anchors>>

\* prepare, for a plan that was approved: no input anchors it, and it starts where the
\* client's state ends.
PreparePlan(plan, c, p) ==
  LET history == Hydrate(client.roots)
      table == Imported(history)
  IN \E event \in Action("plan", plan).event :
      /\ Ended /\ prepared < Len(Rounds)
      /\ OnePromptRoot(client.roots)
      /\ CanPut(history)
      /\ checkpoints' = table
      /\ LET input == Append(ContextMessage(event, ProjectedContext(history, c)),
                             RuntimeMessage(event, plan))
             match == Matched(table, CHOOSE b \in Find(table, history) : TRUE, input)
         IN  run' = [Start("plan", p, c, match[1], SubSeq(input, match[2] + 1, Len(input)),
                           client.roots, client.seen)
                     EXCEPT !.text = plan]
      /\ prepared' = prepared + 1
      /\ UNCHANGED <<client, rewinds, current, anchors>>

\* prepare, for a Run without input: a resumed one or a compaction.
PrepareBare(kind, p) ==
  LET history == Hydrate(client.roots)
      table == Imported(history)
  IN  /\ Ended /\ prepared < Len(Rounds)
      /\ Action(kind, None).compacting => "manual" \in Replacing
      /\ client.roots # <<>>
      /\ OnePromptRoot(client.roots)
      /\ CanPut(history)
      /\ checkpoints' = table
      /\ run' = Start(kind, p, None, CHOOSE b \in Find(table, history) : TRUE, <<>>,
                      client.roots, client.seen)
      /\ prepared' = prepared + 1
      /\ UNCHANGED <<client, rewinds, current, anchors>>

-----------------------------------------------------------------------------
(* The engine. *)

\* claim_run
Claim ==
  /\ run.phase = "prepared"
  /\ current' = run.head
  /\ run' = [run EXCEPT !.phase = "appending"]
  /\ UNCHANGED <<client, rewinds, checkpoints, anchors, prepared>>

History == checkpoints[run.head].messages

Holds(m) == \E i \in DOMAIN History : History[i].id = m.id

\* append_checkpoint: a new checkpoint below the head.  It is an error when
\* the store has one with these messages, or another message with this id.
CanAppend(ms) == Find(checkpoints, History \o ms) = {} /\ CanPut(ms)

AppendTo(ms) ==
  /\ checkpoints' = Append(checkpoints, Checkpoint(run.head, History \o ms))
  /\ current' = Len(checkpoints')

\* append_message_once, for the next message of the input.
AppendInput ==
  /\ run.phase = "appending" /\ run.input # <<>>
  /\ LET m == Head(run.input)
         rest == [run EXCEPT !.input = Tail(@)]
     IN  \/ /\ Holds(m) /\ m \in Range(History)
            /\ run' = rest
            /\ UNCHANGED <<checkpoints, current>>
         \/ /\ ~ Holds(m) /\ CanAppend(<<m>>)
            /\ AppendTo(<<m>>)
            /\ run' = [rest EXCEPT !.head = Len(checkpoints'), !.changed = TRUE]
         \/ /\ IF Holds(m) THEN m \notin Range(History) ELSE ~ CanAppend(<<m>>)
            /\ run' = [run EXCEPT !.phase = "refused"]
            /\ UNCHANGED <<checkpoints, current>>
  /\ UNCHANGED <<client, rewinds, anchors, prepared>>

Appended ==
  /\ run.phase = "appending" /\ run.input = <<>>
  /\ run' = [run EXCEPT !.phase = IF run.changed THEN "publish" ELSE "ready"]
  /\ UNCHANGED <<client, rewinds, checkpoints, current, anchors, prepared>>

\* project_roots: the roots published before are still there.
FrontierHolds(wire, ids) ==
  /\ Len(wire) >= Len(ids)
  /\ \A i \in DOMAIN run.generated : wire[run.baseCount + i] = run.generated[i]

\* Mutation: everything since the base is added.
RootsSinceBase(wire, ids) ==
  (IF ids = <<>> THEN <<>> ELSE [ids EXCEPT ![1] = wire[1]])
    \o SubSeq(wire, run.baseCount + 1, Len(wire))

\* project_roots: the system root is replaced, the new ones are added.
Roots(wire, ids) ==
  (IF ids = <<>> THEN <<>> ELSE [ids EXCEPT ![1] = wire[1]])
    \o SubSeq(wire, Len(ids) + 1, Len(wire))

\* publish_settled: the client gets the roots of the Run's head; a history
\* that does not extend them ends the Run.
Publish(next) ==
  LET wire == StableMessages(run.prompt, History)
  IN  IF FrontierHolds(wire, run.roots)
      THEN /\ client' = [client EXCEPT !.roots = Roots(wire, run.roots), !.seen = Seen(History)]
           /\ run' = [run EXCEPT !.phase = next, !.roots = Roots(wire, run.roots),
                                 !.generated = @ \o SubSeq(wire, Len(run.roots) + 1, Len(wire))]
      ELSE /\ run' = [run EXCEPT !.phase = "stopped"]
           /\ UNCHANGED client

PublishHead ==
  /\ run.phase \in {"publish", "publishFinal"}
  /\ Publish(IF run.phase = "publish" THEN "ready" ELSE "done")
  /\ UNCHANGED <<rewinds, checkpoints, current, anchors, prepared>>

ModelCall ==
  /\ run.phase = "ready" /\ run.kind # "compact" /\ run.round < Rounds[prepared]
  /\ run' = [run EXCEPT !.phase = "calling", !.round = @ + 1]
  /\ UNCHANGED <<client, rewinds, checkpoints, current, anchors, prepared>>

Said == Message(<<"call", prepared, run.round>>, <<"call", prepared, run.round>>)

Result(image) ==
  [id |-> <<"result", prepared, run.round>>, body |-> <<"result", prepared, run.round>>,
   image |-> image]

Answer ==
  /\ run.phase = "calling"
  /\ AppendTo(<<Said>>)
  /\ run' = [run EXCEPT !.phase = "publishFinal", !.head = Len(checkpoints'),
                        !.expects = Seen(Append(History, Said))]
  /\ UNCHANGED <<client, rewinds, anchors, prepared>>

\* A round of tools; background tasks are started by one.
UseTool(image) ==
  /\ run.phase = "calling" /\ run.round < Rounds[prepared]
  /\ AppendTo(<<Said, Result(image)>>)
  /\ run' = [run EXCEPT !.phase = "publish", !.head = Len(checkpoints'),
                        !.expects = Seen(History \o <<Said, Result(image)>>)]
  /\ client' = [client EXCEPT !.tasks = Tasks]
  /\ UNCHANGED <<rewinds, anchors, prepared>>

\* partition: the latest request context is kept by a compaction.
LatestContext(ms) ==
  LET old == SelectSeq(ms, IsContext)
  IN  IF old = <<>> THEN <<>> ELSE <<old[Len(old)]>>

Summary == Message(<<"runtime", <<"summary", prepared>>>>, <<"text", None, prepared>>)

\* replace_checkpoint, and CheckpointBuilder::compacted with replace_roots.
\* An automatic compaction keeps the latest context and the Run's input.
Replace(ms, next) ==
  LET wire == StableMessages(run.prompt, ms)
  IN  /\ checkpoints' = Append(checkpoints, Checkpoint(1, ms))
      /\ current' = Len(checkpoints')
      /\ client' = [client EXCEPT !.roots = wire, !.seen = Seen(ms)]
      /\ run' = [run EXCEPT !.phase = next, !.head = Len(checkpoints'), !.roots = wire,
                            !.baseCount = Len(wire), !.generated = <<>>,
                            !.expects = Seen(ms)]
      /\ UNCHANGED <<rewinds, anchors, prepared>>

Compacted ==
  SelectSeq(LatestContext(History), LAMBDA m : m \notin Range(run.initial))
    \o <<Summary>> \o run.initial

AutoCompact ==
  /\ run.phase = "ready" /\ run.kind # "compact" /\ "automatic" \in Replacing
  /\ Summary \notin Stored
  /\ \E m \in Range(History) : m \notin Range(run.initial) \cup Range(LatestContext(History))
  /\ Replace(Compacted, "ready")

ManualCompact ==
  /\ run.phase = "ready" /\ run.kind = "compact"
  /\ Replace(<<Summary>>, "done")

\* The Run ends before it is finished: cancelled, superseded, failed, or the
\* process dies.
Cut ==
  /\ ~ Ended
  /\ run' = Idle
  /\ UNCHANGED <<client, rewinds, checkpoints, current, anchors, prepared>>

Next ==
  \/ \E i \in Inputs, t \in Texts, c \in Contexts, p \in Prompts :
       FirstTime(i, t, c, p) \/ Again(i, t, c, p)
  \/ \E task \in Tasks, p \in Prompts : PrepareBackground(task, p)
  \/ \E plan \in Plans, c \in Contexts, p \in Prompts : PreparePlan(plan, c, p)
  \/ \E kind \in {"resume", "compact"}, p \in Prompts : PrepareBare(kind, p)
  \/ Claim \/ AppendInput \/ Appended \/ PublishHead
  \/ ModelCall \/ Answer \/ \E image \in Images : UseTool(image)
  \/ AutoCompact \/ ManualCompact
  \/ Cut

Spec == Init /\ [][Next]_historyVars

-----------------------------------------------------------------------------
(* The provider-visible history of a Run extends the history that the      *)
(* client's state stood for when the Run was prepared, and what the Run    *)
(* itself added since: without a compaction nothing earlier is edited,     *)
(* removed or reordered.                                                   *)
HistoryIsPrefix ==
  run.phase \in {"publish", "ready", "calling"} => IsPrefix(run.expects, Seen(History))

(* The latest request context that a request of a user turn holds is the   *)
(* context the turn came with.                                             *)
ContextSeen ==
  run.phase = "calling" /\ run.kind = "user" =>
    LET ms == SelectSeq(History, LAMBDA m : Kind(m) = "context")
    IN  ms # <<>> /\ ms[Len(ms)].body = <<"context", run.context>>

(* Two contexts that follow each other in a history differ: a context is   *)
(* appended when it changed, also after a retry, a compaction or the       *)
(* decoding of a state.  Only a plan brings the context that it was first  *)
(* approved with wherever it is approved again (the event of a plan, not   *)
(* that of a message, is the same with another context).                   *)
ContextOnce ==
  run.phase = "calling" =>
    LET ms == SelectSeq(History, LAMBDA m : Kind(m) = "context")
    IN  \A k \in 1 .. Len(ms) - 1 :
          ms[k].body = ms[k + 1].body => ms[k + 1].id[2] \in {PlanEvent(plan) : plan \in Plans}

(* The input of a Run never collides with a message that an earlier        *)
(* attempt at it stored: no Run is refused by the store.                   *)
RetriesAccepted == run.phase # "refused"

(* The roots the client holds after a publication are the Run's history:   *)
(* the next Run will be prepared from what this one showed the model.      *)
PublishedIsHistory ==
  run.phase \in {"ready", "calling", "done"} /\ run.generated # <<>> =>
    /\ Len(client.roots) = Len(History) + 1
    /\ \A i \in DOMAIN History : client.roots[i + 1].body = History[i].body

(* No Run is stopped because its history does not extend the client's.     *)
FrontierKept == run.phase # "stopped"
=============================================================================
