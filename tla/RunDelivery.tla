---------------------------- MODULE RunDelivery ----------------------------
(***************************************************************************)
(* One active Run and everything that talks to it: the phase gate of its   *)
(* RunHandle, the engine's loop over model cycles and tool rounds, the     *)
(* session that turns RunEvents into client output (ConversationOutput),   *)
(* the tasks that deliver messages to the Run, and the registry's queue of *)
(* messages for the next Run (run/handle.rs, run/engine.rs,                *)
(* run/tool_round.rs, run/messages.rs, cursor/conversation/output.rs and   *)
(* registry.rs, cursor/tools/runtime.rs).                                  *)
(*                                                                         *)
(* Threads interleave at every await; what a task does between two awaits  *)
(* is one action.  Store calls succeed: what the store may refuse is the   *)
(* subject of ConversationStore.  Retries of a model attempt are cycles    *)
(* that go on, since they keep the engine's locals.                        *)
(***************************************************************************)
EXTENDS Integers, Sequences, FiniteSets, Functions

CONSTANTS
  Delivery,   \* attempts to deliver a message, each handled by its own task
  MessageOf,  \* the message (event id) that an attempt carries
  Path,       \* "user", "inject": through the session; "background": registry
  MaxRounds,  \* bound on the tool rounds of the Run
  CallsOf     \* round -> ids the model may use for its calls in that round

ASSUME DeliveryAssumption ==
  /\ MaxRounds \in Nat
  /\ Path \in [Delivery -> {"user", "inject", "background"}]
  /\ DOMAIN MessageOf = Delivery
  /\ DOMAIN CallsOf = 1 .. MaxRounds
  /\ \A k \in 1 .. MaxRounds : IsFiniteSet(CallsOf[k])

VARIABLES
  phase,      \* RunPhase
  cancelled,  \* the Run's cancellation token
  commands,   \* RunCommands sent and not received
  engine,     \* where the engine is, and its locals
  history,    \* messages of the Run's head checkpoint
  committed,  \* calls of the current round that have a stored result
  events,     \* RunEvents sent and not received
  barrier,    \* the barrier the engine waits on: "none", "open", "ok", "lost"
  actions,    \* runtime actions on their way to the session
  session,    \* ConversationOutput
  running,    \* tools at work
  results,    \* completions on their way to the session
  task,       \* the state of each delivery
  parked      \* the registry's pending messages

handle == <<phase, cancelled, commands>>
stored == <<history, committed>>
channel == <<events, barrier>>
client == <<actions, session, running, results>>
vars == <<handle, engine, stored, channel, client, task, parked>>

Message == {MessageOf[d] : d \in Delivery}
Call == UNION {CallsOf[k] : k \in 1 .. MaxRounds}

Insert(d) == [kind |-> "insert", what |-> d]
Break(d) == [kind |-> "break", what |-> d]
ToolResult(c) == [kind |-> "result", what |-> c]
Cancel == [kind |-> "cancel"]

\* The places of the batches in a queue of commands, and what drain_accepted
\* collects from it, in the order of the queue.
Batches(q) == {i \in DOMAIN q : q[i].kind \in {"insert", "break"}}
Nth(S, n) == CHOOSE i \in S : Cardinality({k \in S : k <= i}) = n
Deliveries(q) == [n \in 1 .. Cardinality(Batches(q)) |-> q[Nth(Batches(q), n)].what]

\* Calls in an order, none of them twice.
Orders == {s \in UNION {[1 .. n -> Call] : n \in 0 .. Cardinality(Call)} : IsInjective(s)}

Init ==
  /\ phase = "Running" /\ cancelled = FALSE /\ commands = <<>>
  /\ engine = [at |-> "model", then |-> "model", round |-> 0, calls |-> {},
               held |-> <<>>, todo |-> <<>>, inserted |-> FALSE]
  /\ history = {} /\ committed = {}
  /\ events = <<>> /\ barrier = "none"
  /\ actions = <<>>
  /\ session = [state |-> "up", pending |-> {}, ids |-> {}, round |-> 0, calls |-> {},
                cutRounds |-> {}, cutCalls |-> {}, typed |-> {}, done |-> {}, doneRound |-> 0, ready |-> <<>>]
  /\ running = {} /\ results = <<>>
  /\ task = [d \in Delivery |-> "idle"]
  /\ parked = {}

-----------------------------------------------------------------------------
(* Delivery: the runtime actor, the deliver tasks, the registry. *)

\* The session's task is over, and its channels with it.
SessionOver == session.state \in {"down", "superseded"}

\* The actor hands a user message to the session of a Running Run, and an
\* injection to the session's channel.  After a completed turn the transport stays
\* open and that channel is closed: the error goes to a channel nobody reads.
\* A background completion calls the registry from a task of its own.
Submit(d) ==
  /\ task[d] = "idle"
  /\ \/ /\ Path[d] = "background"
        /\ task' = [task EXCEPT ![d] = "spawned"]
        /\ UNCHANGED actions
     \/ /\ Path[d] = "inject" \/ (Path[d] = "user" /\ phase = "Running")
        /\ ~ SessionOver
        /\ task' = [task EXCEPT ![d] = "queued"]
        /\ actions' = Append(actions, d)
     \/ /\ Path[d] = "inject" /\ session.state = "down" /\ engine.then = "completed"
        /\ task' = [task EXCEPT ![d] = "discarded"]
        /\ UNCHANGED actions
  /\ UNCHANGED <<handle, engine, stored, channel, session, running, results, parked>>

\* Mutation: a finalizing Run still accepts.
SendBatchUnlessEnded(d) ==
  /\ task[d] = "spawned"
  /\ IF phase # "Ended"
     THEN /\ commands' = Append(commands, IF Path[d] = "background" THEN Insert(d) ELSE Break(d))
          /\ task' = [task EXCEPT ![d] = "sent"]
     ELSE /\ task' = [task EXCEPT ![d] = "refused"]
          /\ UNCHANGED commands
  /\ UNCHANGED <<phase, cancelled, engine, stored, channel, client, parked>>

\* RunHandle::submit_messages: the phase decides under its lock, so a batch is
\* either in the channel before begin_finalizing or refused.
SendBatch(d) ==
  /\ task[d] = "spawned"
  /\ IF phase = "Running"
     THEN /\ commands' = Append(commands, IF Path[d] = "background" THEN Insert(d) ELSE Break(d))
          /\ task' = [task EXCEPT ![d] = "sent"]
     ELSE /\ task' = [task EXCEPT ![d] = "refused"]
          /\ UNCHANGED commands
  /\ UNCHANGED <<phase, cancelled, engine, stored, channel, client, parked>>

\* ConversationRegistry::deliver after RunClosing or RunEnded.  A task whose
\* oneshot was dropped is refused as well.
Park(d) ==
  /\ task[d] = "refused"
  /\ task' = [task EXCEPT ![d] = "parked"]
  /\ parked' = parked \cup {MessageOf[d]}
  /\ UNCHANGED <<handle, engine, stored, channel, client>>

\* RunHandle::cancel
CancelCommand ==
  /\ cancelled' = TRUE
  /\ commands' = IF engine.at = "ended" THEN commands ELSE Append(commands, Cancel)

\* CancelAction, which aborts the client's tools, or a Run of another transport
\* that takes the conversation over.
CancelRun ==
  /\ ~ cancelled /\ engine.at # "ended"
  /\ CancelCommand
  /\ running' \in SUBSET running
  /\ UNCHANGED <<phase, engine, stored, channel, actions, session, results, task, parked>>

-----------------------------------------------------------------------------
(* The engine. *)

Settle(ds, as) == [d \in Delivery |-> IF d \in Range(ds) THEN as ELSE task[d]]

\* run_claimed returned: finish_run, phase.finish, Ended.  Batches that the
\* engine or its channel hold are dropped and their senders see it.
Stop(outcome) ==
  /\ engine' = [engine EXCEPT !.at = "ended", !.then = outcome, !.held = <<>>, !.todo = <<>>]
  /\ phase' = "Ended"
  /\ task' = Settle(Deliveries(commands) \o engine.held \o engine.todo, "refused")
  /\ commands' = <<>>
  /\ barrier' = "none"
  /\ events' = IF SessionOver THEN events ELSE Append(events, [kind |-> "ended"])
  /\ UNCHANGED <<cancelled, client, parked>>

\* The engine emits `evs` and goes on as `next`, with `rest` of its commands.  A
\* closed channel is a client failure.
EmitThen(evs, next, rest) ==
  IF SessionOver THEN Stop("client")
  ELSE /\ events' = events \o evs
       /\ engine' = next
       /\ commands' = rest
       /\ barrier' = IF evs[Len(evs)].barrier THEN "open" ELSE "none"
       /\ UNCHANGED <<phase, cancelled, client, task, parked>>

Event(kind) == [kind |-> kind, barrier |-> TRUE]

Received(kind) == commands # <<>> /\ Head(commands).kind = kind

\* In a model cycle, between two attempts, in a compaction and in a tool round
\* the engine listens to its commands and holds insertions back.
Listening == {"model", "compact", "round"}
Awaiting == {"await_append", "await_compaction", "await_settled", "await_final"}

ReceiveInsert ==
  /\ engine.at \in Listening
  /\ Received("insert")
  /\ commands' = Tail(commands)
  /\ engine' = [engine EXCEPT !.held = Append(@, Head(commands).what)]
  /\ UNCHANGED <<phase, cancelled, stored, channel, client, task, parked>>

\* Mutation: what was held back is forgotten when a break arrives.
AppendingLast(at, last, then) ==
  [engine EXCEPT !.at = at, !.then = then, !.todo = last, !.held = <<>>, !.inserted = FALSE]

\* The engine at `at`, where it appends what it held back and then `last`, before
\* it goes on at `then`.
Appending(at, last, then) ==
  [engine EXCEPT !.at = at, !.then = then, !.todo = engine.held \o last,
                 !.held = <<>>, !.inserted = FALSE]

ReceiveBreak ==
  /\ engine.at = "model"
  /\ Received("break")
  /\ commands' = Tail(commands)
  /\ engine' = Appending("append", <<Head(commands).what>>, "model")
  /\ UNCHANGED <<phase, cancelled, stored, channel, client, task, parked>>

ReceiveCancel ==
  /\ engine.at \in Listening
  /\ Received("cancel")
  /\ Stop("cancelled")
  /\ UNCHANGED stored

\* The token is looked at by the model loop, by a round and by a wait whose
\* barrier is not complete; a compaction does not look at it.
NoticeCancellation ==
  /\ cancelled
  /\ engine.at \in {"model", "round"} \/ (engine.at \in Awaiting /\ barrier = "open")
  /\ Stop("cancelled")
  /\ UNCHANGED stored

\* The provider fails and the attempt is not retried, or nothing is left to
\* compact, or the compacted history is still too large.
CycleFails ==
  /\ engine.at \in {"model", "compact"} /\ commands = <<>>
  /\ Stop("failed")
  /\ UNCHANGED stored

\* The prompt is too large, by the estimate before a cycle or by the refusal of
\* the provider.
StartCompaction ==
  /\ engine.at = "model" /\ ~ cancelled
  /\ engine.held = <<>> \/ commands = <<>>
  /\ engine' = Appending("append", <<>>, "compact")
  /\ UNCHANGED <<handle, stored, channel, client, task, parked>>

\* auto_compact ends by itself, for a break, or (with a fallback summary) because
\* the token fired before the command came, and replaces the checkpoint; what it
\* held back and the break are appended after that.
EndCompaction ==
  LET broken == Received("break") IN
  /\ engine.at = "compact"
  /\ commands = <<>> \/ broken \/ cancelled
  /\ history' = {}
  /\ EmitThen(<<Event("compacted")>>,
              Appending("await_compaction", IF broken THEN <<Head(commands).what>> ELSE <<>>, "model"),
              IF broken THEN Tail(commands) ELSE commands)
  /\ UNCHANGED committed

\* The sender of a batch learns that it was applied or is a duplicate.
Acknowledged(d) == [task EXCEPT ![d] = "done"]

\* messages::append_one for the next batch.
AppendNext ==
  LET d == Head(engine.todo)
      m == MessageOf[d]
  IN
  /\ engine.at = "append" /\ engine.todo # <<>>
  /\ IF m \in history
     THEN /\ task' = Acknowledged(d)
          /\ engine' = [engine EXCEPT !.todo = Tail(@)]
          /\ UNCHANGED <<handle, channel, client, parked>>
     ELSE EmitThen(<<[kind |-> "runtime", what |-> m, barrier |-> TRUE]>>,
                   [engine EXCEPT !.at = "await_append"], commands)
  /\ history' = history \cup {m}
  /\ UNCHANGED committed

\* All batches are appended.  After an answer, a Run that got insertions goes on
\* and one whose insertions were all duplicates is about to end.
AppendedAll ==
  /\ engine.at = "append" /\ engine.todo = <<>>
  /\ engine' = [engine EXCEPT !.at = IF engine.then # "answered" THEN engine.then
                                     ELSE IF engine.inserted THEN "model" ELSE "finalize"]
  /\ UNCHANGED <<handle, stored, channel, client, task, parked>>

\* The model answered without tool calls.
Answer ==
  /\ engine.at = "model" /\ commands = <<>>
  /\ engine' = Appending("append", <<>>, "answered")
  /\ UNCHANGED <<handle, stored, channel, client, task, parked>>

\* phase.begin_finalizing and drain_accepted, which does not await.
Finalize ==
  /\ engine.at = "finalize"
  /\ IF \E i \in DOMAIN commands : commands[i] = Cancel
     THEN Stop("cancelled")
     ELSE /\ phase' = "Finalizing"
          /\ commands' = <<>>
          /\ engine' = IF Batches(commands) = {} THEN [engine EXCEPT !.at = "final"]
                       ELSE Appending("append", Deliveries(commands), "resume")
          /\ UNCHANGED <<cancelled, channel, client, task, parked>>
  /\ UNCHANGED stored

\* phase.resume_running after the closing insertions are appended.
ResumeRunning ==
  /\ engine.at = "resume"
  /\ phase' = "Running"
  /\ engine' = [engine EXCEPT !.at = "model"]
  /\ UNCHANGED <<cancelled, commands, stored, channel, client, task, parked>>

CommitFinal ==
  /\ engine.at = "final"
  /\ EmitThen(<<Event("final")>>, [engine EXCEPT !.at = "await_final"], commands)
  /\ UNCHANGED stored

\* wait_for_state_ready.
BarrierPasses ==
  /\ barrier = "ok" /\ engine.at \in Awaiting
  /\ IF engine.at = "await_final" THEN Stop("completed")
     ELSE /\ barrier' = "none"
          /\ IF engine.at = "await_append"
             THEN /\ task' = Acknowledged(Head(engine.todo))
                  /\ engine' = [engine EXCEPT !.at = "append", !.todo = Tail(@), !.inserted = TRUE]
             ELSE /\ engine' = [engine EXCEPT !.at = "append"]
                  /\ UNCHANGED task
          /\ UNCHANGED <<handle, events, client, parked>>
  /\ UNCHANGED stored

BarrierLost ==
  /\ barrier = "lost" /\ engine.at \in Awaiting
  /\ Stop("client")
  /\ UNCHANGED stored

\* A cycle that streams finds the channel closed.
CycleLosesClient ==
  /\ engine.at = "model" /\ SessionOver
  /\ Stop("client")
  /\ UNCHANGED stored

-----------------------------------------------------------------------------
(* Tool rounds. *)

\* The model answered with tool calls: create_tool_round and its two events.
StartRound(cs) ==
  LET k == engine.round + 1 IN
  /\ engine.at = "model" /\ commands = <<>>
  /\ k <= MaxRounds /\ cs # {} /\ cs \subseteq CallsOf[k]
  /\ committed' = {}
  /\ EmitThen(<<[kind |-> "started", round |-> k],
                [kind |-> "execute", round |-> k, calls |-> cs, barrier |-> FALSE]>>,
              [engine EXCEPT !.at = "round", !.round = k, !.calls = cs], commands)
  /\ UNCHANGED history

\* Mutation: an interrupted result is announced like one the client sent.
CommitPlain(c, interrupted, last, rest) ==
  LET settled == committed \cup {c} = engine.calls IN
  /\ committed' = committed \cup {c}
  /\ EmitThen(<<[kind |-> "result", what |-> c, interrupted |-> FALSE, barrier |-> settled]>>,
              IF settled THEN Appending("await_settled", last, "model") ELSE engine, rest)
  /\ UNCHANGED history

\* commit_tool_result and its event.  The last result of a round carries the
\* barrier; behind it the engine appends what it held back and then `last`.
Commit(c, interrupted, last, rest) ==
  LET settled == committed \cup {c} = engine.calls IN
  /\ committed' = committed \cup {c}
  /\ EmitThen(<<[kind |-> "result", what |-> c, interrupted |-> interrupted, barrier |-> settled]>>,
              IF settled THEN Appending("await_settled", last, "model") ELSE engine, rest)
  /\ UNCHANGED history

\* In a round, a second result of a call is ignored and an unknown call refused;
\* outside a round any tool result is a protocol failure of the Run.
ReceiveResult ==
  LET c == Head(commands).what IN
  /\ engine.at \in Listening
  /\ Received("result")
  /\ IF engine.at # "round" \/ c \notin engine.calls
     THEN Stop("stray_result") /\ UNCHANGED stored
     ELSE IF c \in committed
     THEN /\ commands' = Tail(commands)
          /\ UNCHANGED <<phase, cancelled, engine, stored, channel, client, task, parked>>
     ELSE Commit(c, FALSE, <<>>, Tail(commands))

\* BreakMessages in a round: the calls without a result get an interrupted one,
\* one transaction each.
ReceiveBreakInRound ==
  /\ engine.at = "round"
  /\ Received("break")
  /\ commands' = Tail(commands)
  /\ engine' = [engine EXCEPT !.at = "cut", !.todo = <<Head(commands).what>>]
  /\ UNCHANGED <<phase, cancelled, stored, channel, client, task, parked>>

CutCall(c) ==
  /\ engine.at = "cut"
  /\ c \in engine.calls \ committed
  /\ Commit(c, TRUE, engine.todo, commands)

Engine ==
  \/ ReceiveInsert \/ ReceiveBreak \/ ReceiveCancel
  \/ ReceiveResult \/ ReceiveBreakInRound \/ NoticeCancellation
  \/ CycleFails \/ CycleLosesClient \/ StartCompaction \/ EndCompaction
  \/ Answer \/ Finalize \/ ResumeRunning \/ CommitFinal
  \/ AppendNext \/ AppendedAll \/ BarrierPasses \/ BarrierLost
  \/ \E cs \in SUBSET Call : StartRound(cs)
  \/ \E c \in Call : CutCall(c)

-----------------------------------------------------------------------------
(* The session.  Its loop is biased: runtime actions, completions at hand,    *)
(* events, then completions of running tools.                                 *)

\* CommitBarrier::complete, or its end without completion ("lost"), which the
\* engine sees if it still waits.
Complete(as) == IF barrier = "open" THEN as ELSE barrier

\* The session returned an error: it aborts the tools and cancels the Run.
SessionFails ==
  /\ CancelCommand
  /\ session' = [session EXCEPT !.state = "failing"]
  /\ running' \in SUBSET running
  /\ UNCHANGED <<phase, engine, stored, channel, actions, results, task, parked>>

\* A checkpoint cannot be published, or a tool completion is an error.
SessionBreaks ==
  /\ session.state = "up"
  /\ SessionFails

\* A newer RunRequest on the same transport: the session leaves its loop.
Supersede ==
  /\ session.state = "up"
  /\ CancelCommand
  /\ session' = [session EXCEPT !.state = "superseded"]
  /\ running' = {} /\ results' = <<>> /\ actions' = <<>> /\ events' = <<>>
  /\ task' = Settle(actions, "superseded")
  /\ barrier' = Complete("lost")
  /\ UNCHANGED <<phase, engine, stored, parked>>

\* The session's task is over: its channels are dropped with what is in them.
CloseSession ==
  /\ session.state \in {"failing", "publishing"}
  /\ session' = [session EXCEPT !.state = "down"]
  /\ task' = Settle(actions, IF engine.then = "completed" THEN "discarded" ELSE "failed")
  /\ actions' = <<>> /\ results' = <<>> /\ running' = {} /\ events' = <<>>
  /\ barrier' = Complete("lost")
  /\ UNCHANGED <<handle, engine, stored, parked>>

\* Mutation: an injection does not remember the calls it interrupts.
InterruptsNothing == {}

\* The calls of the active round that an injection interrupts.
Interrupted == session.calls \ session.typed

\* forward_injection drops an id it has seen; forward_user_message has no such
\* check.  queue_injection interrupts the client's tools, and spawns the delivery;
\* some tools go on, and what they return is ignored.
TakeAction ==
  LET d == Head(actions)
      m == MessageOf[d]
  IN
  /\ session.state = "up" /\ actions # <<>>
  /\ actions' = Tail(actions)
  /\ IF Path[d] = "inject" /\ m \in session.ids
     THEN /\ task' = [task EXCEPT ![d] = "done"]
          /\ UNCHANGED <<session, running>>
     ELSE /\ task' = [task EXCEPT ![d] = "spawned"]
          /\ session' = [session EXCEPT
               !.ids = @ \cup {m},
               !.pending = @ \cup {m},
               !.cutCalls = @ \cup Interrupted,
               !.cutRounds = @ \cup ({session.round} \ {0})]
          /\ running' \in SUBSET running
  /\ UNCHANGED <<handle, engine, stored, channel, results, parked>>

NextEvent(kind) ==
  /\ session.state = "up" /\ actions = <<>> /\ session.ready = <<>>
  /\ events # <<>> /\ Head(events).kind = kind

\* ToolRoundStarted
SeeStarted ==
  /\ NextEvent("started")
  /\ events' = Tail(events)
  /\ session' = [session EXCEPT !.round = Head(events).round]
  /\ UNCHANGED <<handle, engine, stored, barrier, actions, running, results, task, parked>>

\* ExecuteToolRound: start_batch, unless an injection is on its way.  The tools
\* in `now` complete at once.
SeeExecute(now) ==
  LET k == Head(events).round
      cs == Head(events).calls
      done == IF session.doneRound = k THEN session.done ELSE {}
      cut == k \in session.cutRounds \/ session.pending # {}
      dispatched == IF cut THEN {} ELSE cs \ done
  IN
  /\ NextEvent("execute")
  /\ Range(now) \subseteq dispatched
  /\ events' = Tail(events)
  /\ session' = [session EXCEPT
       !.doneRound = k, !.done = done, !.round = k, !.calls = cs,
       !.ready = now,
       !.cutRounds = IF cut THEN @ \cup {k} ELSE @,
       !.cutCalls = IF cut THEN @ \cup cs ELSE @]
  /\ running' = running \cup (dispatched \ Range(now))
  /\ UNCHANGED <<handle, engine, stored, barrier, actions, results, task, parked>>

\* Mutation: the id under which an injection is pending is not recognised.
StillPending(m) == session.pending

StillToDeliver(m) == session.pending \ {m}

\* A RuntimeEvent commit: the injection was delivered.  While a round is active
\* the session publishes without completing the barrier.
SeeRuntime ==
  /\ NextEvent("runtime")
  /\ events' = Tail(events)
  /\ session' = [session EXCEPT !.pending = StillToDeliver(Head(events).what)]
  /\ barrier' = Complete(IF session.round = 0 THEN "ok" ELSE "lost")
  /\ UNCHANGED <<handle, engine, stored, actions, running, results, task, parked>>

\* Compaction and FinalTurn commits.
SeeCheckpoint ==
  /\ NextEvent("compacted") \/ NextEvent("final")
  /\ events' = Tail(events)
  /\ barrier' = Complete("ok")
  /\ UNCHANGED <<handle, engine, stored, client, task, parked>>

\* The round as the store has it now, not as it was when the event was sent.
StoredSettled == session.round < engine.round \/ committed = engine.calls

\* A ToolResult commit.
SeeResult ==
  LET e == Head(events)
      seen == [session EXCEPT !.typed = IF e.interrupted THEN @ ELSE @ \ {e.what},
                              !.done = @ \cup {e.what}]
  IN
  /\ NextEvent("result")
  /\ IF \/ session.round = 0
        \/ ~ e.interrupted /\ e.what \notin session.typed
        \/ StoredSettled /\ ~ e.barrier
     THEN SessionFails
     ELSE /\ events' = Tail(events)
          /\ IF StoredSettled
             THEN /\ session' = [seen EXCEPT !.cutRounds = @ \ {session.round},
                                             !.round = 0, !.calls = {}]
                  /\ barrier' = Complete("ok")
             ELSE session' = seen /\ UNCHANGED barrier
          /\ UNCHANGED <<handle, engine, stored, actions, running, results, task, parked>>

\* Ended: the session publishes the final checkpoints and is done.
SeeEnded ==
  /\ NextEvent("ended")
  /\ events' = Tail(events)
  /\ session' = [session EXCEPT !.state = "publishing"]
  /\ running' = {}
  /\ UNCHANGED <<handle, engine, stored, barrier, actions, results, task, parked>>

\* A tool ends, at the client or in this process.
ToolEnds(c) ==
  /\ c \in running
  /\ running' = running \ {c}
  /\ results' = Append(results, c)
  /\ UNCHANGED <<handle, engine, stored, channel, actions, session, task, parked>>

\* forward_completion and RunHandle::tool_result.
ForwardCompletion ==
  LET atHand == session.ready # <<>>
      c == Head(IF atHand THEN session.ready ELSE results)
      taken == IF atHand THEN [session EXCEPT !.ready = Tail(@)] ELSE session
  IN
  /\ session.state = "up" /\ actions = <<>>
  /\ atHand \/ (events = <<>> /\ results # <<>>)
  /\ IF c \in session.typed \ session.cutCalls THEN SessionFails
     ELSE /\ results' = IF atHand THEN results ELSE Tail(results)
          /\ IF c \in session.cutCalls \/ phase # "Running"
             THEN session' = taken /\ UNCHANGED commands
             ELSE /\ commands' = Append(commands, ToolResult(c))
                  /\ session' = [taken EXCEPT !.typed = @ \cup {c}]
          /\ UNCHANGED <<phase, cancelled, engine, stored, channel, actions, running, task, parked>>

Session ==
  \/ TakeAction \/ SeeStarted \/ SeeRuntime \/ SeeCheckpoint \/ SeeResult \/ SeeEnded
  \/ ForwardCompletion \/ CloseSession
  \/ \E now \in Orders : SeeExecute(now)

-----------------------------------------------------------------------------
Task(d) == SendBatch(d) \/ Park(d)

Next ==
  \/ Engine \/ Session
  \/ \E d \in Delivery : Submit(d) \/ Task(d)
  \/ \E c \in Call : ToolEnds(c)
  \/ CancelRun \/ SessionBreaks \/ Supersede

\* Every spawned task runs on, a provider stream ends, and so does a tool.
Fairness ==
  /\ WF_vars(Engine) /\ WF_vars(Session)
  /\ \A d \in Delivery : WF_vars(Task(d))
  /\ \A c \in Call : WF_vars(ToolEnds(c))

Spec == Init /\ [][Next]_vars /\ Fairness

-----------------------------------------------------------------------------
(* Properties. *)

TaskState == {"idle", "queued", "spawned", "sent", "refused", "parked", "done",
              "discarded", "superseded", "failed"}
Step == Listening \cup Awaiting \cup {"append", "cut", "finalize", "resume", "final", "ended"}
Outcome == {"cancelled", "failed", "client", "completed", "stray_result"}

EngineState ==
  [at : Step, then : {"model", "compact", "resume", "answered"} \cup Outcome,
   round : 0 .. MaxRounds, calls : SUBSET Call,
   held : Seq(Delivery), todo : Seq(Delivery), inserted : BOOLEAN]

SessionState ==
  [state : {"up", "failing", "publishing", "down", "superseded"},
   pending : SUBSET Message, ids : SUBSET Message, round : 0 .. MaxRounds, calls : SUBSET Call,
   cutRounds : SUBSET (1 .. MaxRounds), cutCalls : SUBSET Call, typed : SUBSET Call,
   done : SUBSET Call, doneRound : 0 .. MaxRounds, ready : Seq(Call)]

Command ==
  [kind : {"insert", "break"}, what : Delivery] \cup [kind : {"result"}, what : Call] \cup {Cancel}

RunEvent ==
  [kind : {"started"}, round : 1 .. MaxRounds]
  \cup [kind : {"execute"}, round : 1 .. MaxRounds, calls : SUBSET Call, barrier : {FALSE}]
  \cup [kind : {"result"}, what : Call, interrupted : BOOLEAN, barrier : BOOLEAN]
  \cup [kind : {"runtime"}, what : Message, barrier : {TRUE}]
  \cup [kind : {"compacted", "final"}, barrier : {TRUE}]
  \cup [kind : {"ended"}]

\* The variables have their types; a barrier is open only while the engine waits.
TypeOK ==
  /\ phase \in {"Running", "Finalizing", "Ended"}
  /\ cancelled \in BOOLEAN
  /\ commands \in Seq(Command)
  /\ engine \in EngineState
  /\ history \subseteq Message /\ committed \subseteq engine.calls
  /\ events \in Seq(RunEvent)
  /\ barrier \in {"none", "open", "ok", "lost"}
  /\ barrier = "none" <=> engine.at \notin Awaiting
  /\ actions \in Seq(Delivery)
  /\ session \in SessionState
  /\ session.pending \subseteq session.ids
  /\ session.round <= engine.round
  /\ running \subseteq Call /\ results \in Seq(Call)
  /\ task \in [Delivery -> TaskState]
  /\ parked \subseteq Message

\* No tool result reaches the engine where it does not wait for one, which would
\* fail the Run: the session drops what was interrupted, and what it forwarded is
\* in front of the break that ends the round (engine.rs, "received a tool result
\* while the model was running").
NoStrayResult == engine.then # "stray_result"

\* A result that the engine committed finds in the session the round and the typed
\* completion it came from (output.rs, "tool commit has no active round" and "core
\* committed a tool result without typed Cursor state").
CommitFindsCompletion ==
  NextEvent("result") =>
    /\ session.round # 0
    /\ Head(events).interrupted \/ Head(events).what \in session.typed

\* The session never drops the barrier of a runtime message, as it does when it
\* still has an active round (the ToolStarted branch of MessagesCommitted): the
\* engine appends messages only behind the settlement of the round.
RuntimeCommitOutsideRound == NextEvent("runtime") => session.round = 0

\* Every commit the session sees finds it in the round the engine committed in.
CommitFindsRound == CommitFindsCompletion /\ RuntimeCommitOutsideRound

\* Where a batch is that a task has sent.
Held == Deliveries(commands) \o engine.held \o engine.todo

\* A batch that a task has sent, and only such a batch, is in the channel or in
\* the engine's hands, once: no path of the engine forgets one without an answer.
SentIsHeld ==
  /\ IsInjective(Held)
  /\ Range(Held) = {d \in Delivery : task[d] = "sent"}

\* Once the engine has decided to end, nothing is in its channel that a sender
\* believes accepted: submit_messages and begin_finalizing exclude each other.
ClosedIsDrained ==
  engine.at \in {"final", "await_final", "ended"} => Batches(commands) = {}

Underway(d) == task[d] \in {"spawned", "sent", "refused"}
Delivered(d) == task[d] \in {"done", "parked"}
InRound == engine.at = "round"

\* Every delivery that a task has taken on ends: in the history, as a duplicate,
\* or parked for the next Run.
DeliveryEnds == \A d \in Delivery : Underway(d) ~> Delivered(d)

\* A tool round ends, by its results, a break or the end of the Run (output.rs,
\* ExecuteToolRound: the engine must not "wait forever for a result nothing will
\* ever produce").
RoundEnds == InRound ~> ~ InRound

\* The commit that settles a round carries the barrier (output.rs, "settled tool
\* round has no completion barrier"): a break cuts the cycle and not the Run.
SettledHasBarrier == NextEvent("result") /\ StoredSettled => Head(events).barrier

\* An injection that reaches the transport is delivered, or kept for the next Run
\* (cursor.md, the delivery table).
NotDiscarded == \A d \in Delivery : task[d] # "discarded"
=============================================================================
