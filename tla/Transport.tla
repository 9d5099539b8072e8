----------------------------- MODULE Transport -----------------------------
(***************************************************************************)
(* One transport: the actor that owns a request id, the admission gate in  *)
(* front of its command queue, the Run generations it starts one after the *)
(* other, the OutputHub, and the RunSSE streams that read from it          *)
(* (cursor/conversation/runtime.rs, cursor/transport/lifecycle.rs,         *)
(* cursor/transport/output.rs, api/cursor/bidi.rs, api/cursor/run_sse.rs). *)
(*                                                                         *)
(* Appends are handled in the order they are queued; reordering by seqno   *)
(* is OrderedInbox.  What happens inside a Run is RunDelivery.  The queue  *)
(* never closes under the actor, whose registry keeps a sender.            *)
(***************************************************************************)
EXTENDS Integers, Sequences, FiniteSets

CONSTANTS
  Post,    \* BidiAppend calls
  Kind,    \* what each call may carry: a RunRequest ("run"), a UserMessageAction
           \* ("user"), a CancelAction ("cancel"), or anything else ("other")
  Stream   \* RunSSE calls

ASSUME TransportAssumption ==
  /\ Kind \in [Post -> SUBSET {"run", "user", "cancel", "other"}]
  /\ IsFiniteSet(Stream)

VARIABLES
  lifecycle,  \* TransportState
  admitted,   \* calls that hold an admission
  post,       \* how far each call has come
  queue,      \* commands sent to the actor
  actor,      \* the actor's locals, and how it ended
  gens,       \* the generations started so far; a generation's id is its index
  hub,        \* OutputHub
  stream,     \* how far each RunSSE stream has come
  notices,    \* epochs of the DisconnectIfUnsubscribed tasks not yet run
  shutdown    \* the server has asked the transport to end

calls == <<admitted, post>>
reading == <<hub, stream, notices>>
vars == <<lifecycle, calls, queue, actor, gens, reading, shutdown>>

Finish == {"turn", "success", "failed", "cancelled", "none"}
None == [gen |-> 0, finish |-> "none"]

Init ==
  /\ lifecycle = "Open" /\ admitted = {} /\ post = [p \in Post |-> "idle"]
  /\ queue = <<>> /\ shutdown = FALSE
  /\ actor = [at |-> "up", current |-> 0, pending |-> None,
              draining |-> FALSE, waiting |-> FALSE]
  /\ gens = <<>>
  /\ hub = [closed |-> FALSE, terminal |-> "none", active |-> 0, epoch |-> 0, sealed |-> FALSE]
  /\ stream = [s \in Stream |-> [state |-> "new", acquired |-> FALSE, late |-> FALSE]]
  /\ notices = {}

-----------------------------------------------------------------------------
(* bidi::append: admission, then the queue, then the admission is dropped. *)

\* TransportLifecycle::admit.
Admit(p) ==
  /\ post[p] = "idle"
  /\ IF lifecycle = "Open"
     THEN admitted' = admitted \cup {p} /\ post' = [post EXCEPT ![p] = "admitted"]
     ELSE post' = [post EXCEPT ![p] = "refused"] /\ UNCHANGED admitted
  /\ UNCHANGED <<lifecycle, queue, actor, gens, reading, shutdown>>

\* The command is sent, or the call fails: a conflicting conversation or parent
\* id, a heartbeat after the end, or an actor that is gone.
SendAppend(p) ==
  /\ post[p] = "admitted"
  /\ \/ /\ actor.at # "drained" /\ actor.at # "disconnected"
        /\ \E kind \in Kind[p] :
             queue' = Append(queue, [cmd |-> "append", post |-> p, kind |-> kind])
        /\ post' = [post EXCEPT ![p] = "sent"]
     \/ post' = [post EXCEPT ![p] = "refused"] /\ UNCHANGED queue
  /\ UNCHANGED <<lifecycle, admitted, actor, gens, reading, shutdown>>

\* Drop of TransportAdmission, when the call returns.
DropAdmission(p) ==
  /\ p \in admitted /\ post[p] # "admitted"
  /\ admitted' = admitted \ {p}
  /\ UNCHANGED <<lifecycle, post, queue, actor, gens, reading, shutdown>>

-----------------------------------------------------------------------------
(* The tasks of the generations (spawn_run_request). *)

Up == actor.at \notin {"drained", "disconnected"}
Superseding(gs, g) == IF g = 0 THEN gs ELSE [gs EXCEPT ![g].superseded = TRUE]
SetGen(g, state) == gens' = [gens EXCEPT ![g].state = state]

\* RunFinished, unless a newer generation has taken over.
Report(g, finish) ==
  /\ gens' = [gens EXCEPT ![g].state = "finished"]
  /\ queue' = IF gens[g].superseded \/ ~ Up THEN queue
              ELSE Append(queue, [cmd |-> "finished", gen |-> g, finish |-> finish])

\* Preparation, once the predecessor has finished: the Run is activated, or
\* preparation fails, or a background completion went to the active Run.
Prepare(g) ==
  /\ gens[g].state = "preparing" /\ ~ gens[g].superseded /\ ~ gens[g].cancelled
  /\ g > 1 => gens[g - 1].state = "finished"
  /\ \/ SetGen(g, "running") /\ UNCHANGED queue
     \/ \E finish \in {"failed", "success"} : Report(g, finish)
  /\ UNCHANGED <<lifecycle, calls, actor, reading, shutdown>>

\* Mutation: no FinishGeneration guard, so an abandoned preparation never counts as
\* finished.
GiveUpUnfinished(g) ==
  /\ gens[g].state = "preparing" /\ (gens[g].superseded \/ gens[g].cancelled)
  /\ SetGen(g, "abandoned")
  /\ UNCHANGED <<lifecycle, calls, queue, actor, reading, shutdown>>

\* A superseded or cancelled generation gives up its preparation.
GiveUp(g) ==
  /\ gens[g].state = "preparing" /\ (gens[g].superseded \/ gens[g].cancelled)
  /\ Report(g, "cancelled")
  /\ UNCHANGED <<lifecycle, calls, actor, reading, shutdown>>

\* The Run's phase leaves Running, or comes back when messages arrived.
ChangePhase(g) ==
  /\ \/ gens[g].state = "running" /\ SetGen(g, "closing")
     \/ gens[g].state = "closing" /\ ~ gens[g].superseded /\ SetGen(g, "running")
  /\ UNCHANGED <<lifecycle, calls, queue, actor, reading, shutdown>>

\* The session and the engine are over; the conversation and the Run handle are
\* released before the actor is told.
Release(g) ==
  /\ \E finish \in {"turn", "failed", "cancelled"} :
       /\ gens[g].state = "closing" \/ (gens[g].state = "running" /\ finish # "turn")
       /\ gens' = [gens EXCEPT ![g].state = "released", ![g].finish = finish]
  /\ UNCHANGED <<lifecycle, calls, queue, actor, reading, shutdown>>

ReportEnd(g) ==
  /\ gens[g].state = "released"
  /\ Report(g, gens[g].finish)
  /\ UNCHANGED <<lifecycle, calls, actor, reading, shutdown>>

-----------------------------------------------------------------------------
(* OutputHub and the RunSSE streams. *)

\* OutputHub::subscribe replays the history, and registers unless sealed.
Subscribe(s) ==
  /\ stream[s].state = "new"
  /\ stream' = [stream EXCEPT ![s].state = "subscribed", ![s].late = hub.sealed /\ ~ hub.closed]
  /\ UNCHANGED <<lifecycle, calls, queue, actor, gens, hub, notices, shutdown>>

\* LocalRunGuard::new, OutputHub::acquire_http.
Acquire(s) ==
  /\ stream[s].state = "subscribed"
  /\ IF hub.closed \/ hub.sealed
     THEN stream' = [stream EXCEPT ![s].state = "open"] /\ UNCHANGED hub
     ELSE /\ stream' = [stream EXCEPT ![s].state = "open", ![s].acquired = TRUE]
          /\ hub' = [hub EXCEPT !.active = @ + 1, !.epoch = @ + 1]
  /\ UNCHANGED <<lifecycle, calls, queue, actor, gens, notices, shutdown>>

\* The stream ends by itself: at the terminal frame, or because its channel has
\* no sender.  The guard is complete and sends no notice.
EndStream(s) ==
  /\ stream[s].state = "open" /\ (hub.closed \/ stream[s].late)
  /\ stream' = [stream EXCEPT ![s].state = "ended", ![s].acquired = FALSE]
  /\ hub' = [hub EXCEPT !.active = IF stream[s].acquired THEN @ - 1 ELSE @]
  /\ UNCHANGED <<lifecycle, calls, queue, actor, gens, notices, shutdown>>

\* The client goes away: LocalRunGuard::drop, OutputHub::release_http.
DropStream(s) ==
  /\ stream[s].state = "open"
  /\ stream' = [stream EXCEPT ![s].state = "dropped", ![s].acquired = FALSE]
  /\ IF stream[s].acquired
     THEN /\ hub' = [hub EXCEPT !.active = @ - 1]
          /\ notices' = IF hub.active = 1 /\ ~ hub.closed
                        THEN notices \cup {hub.epoch} ELSE notices
     ELSE UNCHANGED <<hub, notices>>
  /\ UNCHANGED <<lifecycle, calls, queue, actor, gens, shutdown>>

SendNotice(e) ==
  /\ e \in notices /\ notices' = notices \ {e}
  /\ queue' = IF Up THEN Append(queue, [cmd |-> "unsubscribed", epoch |-> e]) ELSE queue
  /\ UNCHANGED <<lifecycle, calls, actor, gens, hub, stream, shutdown>>

\* TransportRegistry::shutdown.
Shutdown ==
  /\ ~ shutdown /\ shutdown' = TRUE
  /\ queue' = IF Up THEN Append(queue, [cmd |-> "disconnect"]) ELSE queue
  /\ UNCHANGED <<lifecycle, calls, actor, gens, reading>>

-----------------------------------------------------------------------------
(* The actor. *)

\* The next command is taken; a drained lifecycle is marked on the way.
Take(cmd) ==
  /\ actor.at = "up" /\ queue # <<>> /\ Head(queue).cmd = cmd
  /\ queue' = Tail(queue)

Marked == IF actor.draining /\ admitted = {} /\ lifecycle = "Closing"
          THEN "Draining" ELSE lifecycle

\* TransportLifecycle::reopen.
Reopened == IF lifecycle \in {"Closing", "Draining"} THEN "Open" ELSE lifecycle

Handled == post' = [post EXCEPT ![Head(queue).post] = "handled"] /\ UNCHANGED admitted
Carries(kind) == Head(queue).kind = kind

\* start_generation: the current generation is superseded, the next one spawned.
NextGeneration ==
  gens' = Append(Superseding(gens, actor.current),
                 [state |-> "preparing", superseded |-> FALSE, cancelled |-> FALSE,
                  finish |-> "none"])

\* A RunRequest reopens a draining transport and starts a generation.
ReceiveRun ==
  /\ Take("append") /\ Carries("run")
  /\ Handled
  /\ NextGeneration
  /\ lifecycle' = IF actor.draining THEN Reopened ELSE lifecycle
  /\ actor' = [actor EXCEPT !.current = Len(gens) + 1, !.waiting = FALSE, !.draining = FALSE,
                            !.pending = IF actor.draining THEN None ELSE @]
  /\ UNCHANGED <<reading, shutdown>>

\* UserMessageAction: to the session of a Running Run, or else the input of a
\* generation of its own.  Without a generation it is dropped.
ReceiveUser ==
  /\ Take("append") /\ Carries("user")
  /\ Handled
  /\ lifecycle' = Marked
  /\ IF actor.current = 0 \/ gens[actor.current].state = "running"
     THEN UNCHANGED <<gens, actor>>
     ELSE /\ NextGeneration
          /\ actor' = [actor EXCEPT !.current = Len(gens) + 1, !.waiting = FALSE]
  /\ UNCHANGED <<reading, shutdown>>

ReceiveCancel ==
  /\ Take("append") /\ Carries("cancel")
  /\ Handled
  /\ lifecycle' = Marked
  /\ gens' = IF actor.current = 0 THEN gens ELSE [gens EXCEPT ![actor.current].cancelled = TRUE]
  /\ UNCHANGED <<actor, reading, shutdown>>

\* Tool results, heartbeats, injections, unsupported actions.
ReceiveOther ==
  /\ Take("append") /\ Carries("other")
  /\ Handled
  /\ lifecycle' = Marked
  /\ UNCHANGED <<actor, gens, reading, shutdown>>

BeginClose == IF lifecycle = "Open" THEN "Closing" ELSE lifecycle

\* RunFinished counts only for the current generation.  A completed turn leaves
\* the transport open for the next action; anything else begins to close it.
ReceiveFinished ==
  LET done == Head(queue) IN
  /\ Take("finished")
  /\ IF done.gen # actor.current
     THEN lifecycle' = Marked /\ UNCHANGED actor
     ELSE IF done.finish = "turn"
     THEN /\ actor' = [actor EXCEPT !.pending = None, !.draining = FALSE, !.waiting = TRUE]
          /\ lifecycle' = Marked
     ELSE /\ actor' = [actor EXCEPT !.pending = [gen |-> done.gen, finish |-> done.finish],
                                    !.draining = TRUE, !.waiting = FALSE]
          /\ lifecycle' = IF lifecycle = "Open" THEN "Closing" ELSE Marked
  /\ UNCHANGED <<calls, gens, reading, shutdown>>

\* CONTINUATION_IDLE_TIMEOUT.
IdleTimeout ==
  /\ actor.at = "up" /\ actor.waiting /\ ~ actor.draining
  /\ lifecycle' = BeginClose
  /\ actor' = [actor EXCEPT !.pending = [gen |-> actor.current, finish |-> "success"],
                            !.draining = TRUE, !.waiting = FALSE]
  /\ UNCHANGED <<calls, queue, gens, reading, shutdown>>

\* Mutation: a notice counts whatever has attached since it was sent.
UnsubscribedUnlessClosed(e) == ~ hub.closed

\* OutputHub::disconnect_if_unsubscribed.
Unsubscribed(e) == ~ hub.closed /\ hub.active = 0 /\ hub.epoch = e

\* Disconnect: from shutdown, or because the last stream has gone.  The current
\* generation is superseded, and its running tools are aborted (an await).
ReceiveDisconnect ==
  /\ \/ Take("disconnect") /\ UNCHANGED hub
     \/ /\ Take("unsubscribed") /\ Unsubscribed(Head(queue).epoch)
        /\ hub' = [hub EXCEPT !.sealed = TRUE]
  /\ lifecycle' = Marked
  /\ gens' = Superseding(gens, actor.current)
  /\ actor' = [actor EXCEPT !.at = "disconnecting"]
  /\ UNCHANGED <<calls, stream, notices, shutdown>>

IgnoreDisconnect ==
  /\ Take("unsubscribed") /\ ~ Unsubscribed(Head(queue).epoch)
  /\ lifecycle' = Marked
  /\ UNCHANGED <<calls, actor, gens, reading, shutdown>>

\* finish_success, finish_failed, finish_cancelled: the frame, then the close.
FinishTransport(finish) ==
  hub' = IF hub.closed THEN hub ELSE [hub EXCEPT !.closed = TRUE, !.terminal = finish]

FinishDisconnect ==
  /\ actor.at = "disconnecting"
  /\ FinishTransport(IF actor.waiting \/ (actor.current # 0 /\ gens[actor.current].state # "running")
                     THEN "success" ELSE "cancelled")
  /\ actor' = [actor EXCEPT !.at = "disconnected"]
  /\ lifecycle' = "Closed"
  /\ UNCHANGED <<calls, queue, gens, stream, notices, shutdown>>

\* Mutation: the actor leaves without waiting for admitted calls.
DrainAtOnce ==
  /\ actor.at = "up" /\ actor.draining /\ queue = <<>>
  /\ IF actor.pending.gen # 0 /\ actor.pending.gen = actor.current
     THEN FinishTransport(actor.pending.finish) ELSE UNCHANGED hub
  /\ actor' = [actor EXCEPT !.at = "drained"]
  /\ lifecycle' = "Closed"
  /\ UNCHANGED <<calls, queue, gens, stream, notices, shutdown>>

\* Mutation: finish_pending does not compare generations.
DrainAnyPending ==
  /\ actor.at = "up" /\ actor.draining /\ admitted = {} /\ queue = <<>>
  /\ IF actor.pending.gen # 0 THEN FinishTransport(actor.pending.finish) ELSE UNCHANGED hub
  /\ actor' = [actor EXCEPT !.at = "drained"]
  /\ lifecycle' = "Closed"
  /\ UNCHANGED <<calls, queue, gens, stream, notices, shutdown>>

\* The queue is empty and no admitted call can still send: finish_pending, and
\* the actor ends.  Its guard closes the lifecycle.
Drain ==
  /\ actor.at = "up" /\ actor.draining /\ admitted = {} /\ queue = <<>>
  /\ IF actor.pending.gen # 0 /\ actor.pending.gen = actor.current
     THEN FinishTransport(actor.pending.finish) ELSE UNCHANGED hub
  /\ actor' = [actor EXCEPT !.at = "drained"]
  /\ lifecycle' = "Closed"
  /\ UNCHANGED <<calls, queue, gens, stream, notices, shutdown>>

-----------------------------------------------------------------------------

Call(p) == Admit(p) \/ SendAppend(p) \/ DropAdmission(p)
Generation(g) == Prepare(g) \/ GiveUp(g) \/ ChangePhase(g) \/ Release(g) \/ ReportEnd(g)
Reader(s) == Subscribe(s) \/ Acquire(s) \/ EndStream(s) \/ DropStream(s)
Receive ==
  \/ ReceiveRun \/ ReceiveUser \/ ReceiveCancel \/ ReceiveOther
  \/ ReceiveFinished \/ ReceiveDisconnect \/ IgnoreDisconnect
Actor == Receive \/ IdleTimeout \/ FinishDisconnect \/ Drain

Next ==
  \/ \E p \in Post : Call(p)
  \/ \E g \in DOMAIN gens : Generation(g)
  \/ \E s \in Stream : Reader(s)
  \/ \E e \in notices : SendNotice(e)
  \/ Shutdown
  \/ Actor

\* A call that began returns, a generation's task comes to an end (a provider's
\* stream and the client's tools do), a spawned notice is sent, and the actor's
\* task is scheduled.  Nobody has to call, to attach, to leave or to shut down.
Fairness ==
  /\ \A p \in Post : WF_vars(SendAppend(p)) /\ WF_vars(DropAdmission(p))
  /\ \A g \in 1 .. Cardinality(Post) :
       /\ WF_vars(g \in DOMAIN gens /\ (Prepare(g) \/ GiveUp(g) \/ ReportEnd(g)))
       /\ SF_vars(g \in DOMAIN gens /\ Release(g))
  /\ \A s \in Stream : WF_vars(Acquire(s)) /\ WF_vars(EndStream(s))
  /\ WF_vars(\E e \in notices : SendNotice(e))
  /\ WF_vars(Receive \/ FinishDisconnect \/ Drain)
  /\ WF_vars(IdleTimeout)

Spec == Init /\ [][Next]_vars /\ Fairness

-----------------------------------------------------------------------------
(* Properties. *)

Command ==
  [cmd : {"append"}, post : Post, kind : {"run", "user", "cancel", "other"}]
    \cup [cmd : {"finished"}, gen : Nat, finish : Finish]
    \cup [cmd : {"disconnect"}]
    \cup [cmd : {"unsubscribed"}, epoch : Nat]

RunGeneration ==
  [state : {"preparing", "running", "closing", "released", "finished"},
   superseded : BOOLEAN, cancelled : BOOLEAN, finish : Finish]

\* The streams whose guard holds a lease on the hub.
Guards == {s \in Stream : stream[s].acquired}

\* Type invariant: values of the lifecycle, the actor's locals, the generations,
\* the hub and the streams; http_active (a usize) counts the acquired guards, so
\* it never wraps below zero.
TypeOK ==
  /\ lifecycle \in {"Open", "Closing", "Draining", "Closed"}
  /\ admitted \subseteq Post
  /\ post \in [Post -> {"idle", "admitted", "sent", "handled", "refused"}]
  /\ queue \in Seq(Command)
  /\ actor \in [at : {"up", "disconnecting", "disconnected", "drained"},
               current : 0 .. Len(gens),
               pending : [gen : 0 .. Len(gens), finish : Finish],
               draining : BOOLEAN, waiting : BOOLEAN]
  /\ gens \in Seq(RunGeneration)
  /\ hub \in [closed : BOOLEAN, terminal : Finish, active : Nat, epoch : Nat, sealed : BOOLEAN]
  /\ hub.active = Cardinality(Guards)
  /\ stream \in [Stream -> [state : {"new", "subscribed", "open", "ended", "dropped"},
                           acquired : BOOLEAN, late : BOOLEAN]]
  /\ notices \subseteq Nat
  /\ shutdown \in BOOLEAN

\* An append that was admitted is handled by the actor, unless the client or the
\* server disconnects: an actor that drains its queue and leaves drops none.
AdmittedIsHandled ==
  actor.at = "drained" => \A p \in Post : post[p] \notin {"admitted", "sent"}

\* A notice that the last stream has gone never ends a transport to which another
\* stream has attached in the meantime (http_epoch, http_sealed).
SealedHasNoReader ==
  hub.sealed => hub.active = 0

\* A stream ends with a terminal frame; the exception is one that attaches
\* between the sealing of the hub and the terminal frame of the disconnect.
EndsWithTerminal ==
  \A s \in Stream : stream[s].state = "ended" => hub.terminal # "none" \/ stream[s].late

\* A transport that drains writes its terminal frame only after the newest
\* generation has ended: the end of a generation that was replaced is not taken
\* for the end of its successor (generation ids in RunFinished and finish_pending).
TerminalAfterNewest ==
  actor.at = "drained" /\ hub.closed => gens[Len(gens)].state = "finished"

\* The terminal frame comes after the newest generation, and no stream that was
\* there in time ends without it.
TerminalFrames == TerminalAfterNewest /\ EndsWithTerminal

\* When the actor leaves, the OutputHub is closed; nobody else may close it.
ActorClosesOutput ==
  actor.at \in {"disconnected", "drained"} => hub.closed

\* Once a generation has started, every stream that is attached comes to an end.
StreamEnds ==
  \A s \in Stream :
    stream[s].state = "open" /\ actor.current # 0 ~> stream[s].state \in {"ended", "dropped"}

=============================================================================
