----------------------------- MODULE ToolRuntime -----------------------------
(***************************************************************************)
(* The tools of one transport: CursorToolRuntime's tables of pending Execs *)
(* and interactions, the ToolDispatcher with its schedule of edits, the    *)
(* session that starts tools and takes their completions, and the actor    *)
(* that decodes the client's answers (cursor/tools/runtime.rs, schedule.rs,*)
(* mod.rs, tool_call_dispatch/, codec/response.rs).                        *)
(*                                                                         *)
(* The session and the actor are two tasks.  They meet in the tables, each *)
(* behind a lock of its own, so that an interruption by the session is     *)
(* three steps and an answer handled by the actor is two or three.         *)
(* A terminal answer may come at any time, again, and after an abort.      *)
(* Streamed output that is no terminal answer changes no table.            *)
(***************************************************************************)
EXTENDS Integers, SequencesExt, FiniteSets

CONSTANTS
  KindOf,      \* call -> "exec", "task", "edit", "ask", "web", "spawn"
  PathOf,      \* edit call -> execution path of the edit
  RoundsOf,    \* generation -> tool rounds of its Run, each a sequence of calls
  MaxId,       \* u32::MAX
  MaxInject    \* bound on the messages that interrupt a Run

VARIABLES
  gen,         \* the current RunGeneration
  nextId,      \* next_id, shared by all generations
  execs,       \* pending Execs of every generation's runtime
  asks,        \* pending interactions
  completed,   \* ids answered in a generation
  interrupted, \* ids of interrupted requests, shared by all generations
  paths,       \* EditSchedule.paths
  activePaths, \* EditSchedule.active_paths
  session,     \* the session of one generation
  actor,       \* what the actor has in hand
  results,     \* completions and errors on their way to the session
  tasks,       \* spawned searches and fetches
  sent,        \* requests the client has received
  settled,     \* ids the client has answered or was told to abort
  stop,        \* the generation was cancelled or superseded
  injected     \* messages injected so far

tables == <<execs, asks, completed, interrupted>>
schedule == <<paths, activePaths>>
wire == <<sent, settled>>
vars == <<gen, nextId, tables, schedule, session, actor, results, tasks, wire, stop, injected>>

Call == DOMAIN KindOf
Idle == [at |-> "idle"]
Done(c) == [ok |-> TRUE, call |-> c]
UnknownExec == [ok |-> FALSE, why |-> "unknown terminal Exec id"]
OtherError == [ok |-> FALSE, why |-> "other"]
NewSession(g) == [gen |-> g, at |-> "wait", round |-> 0, active |-> {}, todo |-> <<>>,
                  outbox |-> {}, ready |-> <<>>, cut |-> {}, taken |-> {},
                  held |-> {}, aborts |-> {}, pending |-> FALSE]
EmptyMap == [x \in {} |-> x]
Without(f, x) == [y \in DOMAIN f \ {x} |-> f[y]]
With(f, x, v) == [y \in DOMAIN f \cup {x} |-> IF y = x THEN v ELSE f[y]]
IdsOf(entries, g) == {e.id : e \in {x \in entries : x.gen = g}}
OfOthers(entries, g) == {e \in entries : e.gen # g}

Init ==
  /\ gen = 1 /\ nextId = 0
  /\ execs = {} /\ asks = {} /\ completed = {} /\ interrupted = {}
  /\ paths = EmptyMap /\ activePaths = EmptyMap
  /\ session = NewSession(1) /\ actor = Idle
  /\ results = <<>> /\ tasks = {} /\ sent = {} /\ settled = {}
  /\ stop = FALSE /\ injected = 0

-----------------------------------------------------------------------------
(* Starting tools. *)

\* allocate_exec_id: a checked increment, so an exhausted space gives no id.
HasId == nextId < MaxId
NewId == nextId + 1

Request(c, stage, g) == [id |-> NewId, call |-> c, stage |-> stage, gen |-> g]

\* tool_call_dispatch::start for call c of generation g, before its messages are
\* emitted.  `how` is "refused": the call completes at once, validation failures,
\* local tools and exhausted ids included; "leaked": the request could not be
\* encoded after the id was reserved; "sent": the request goes to the outbox.
\* The result is the session's next state.
StartTool(c, how, s) ==
  LET g == s.gen
      stage == IF KindOf[c] = "edit" THEN "read" ELSE KindOf[c]
  IN  /\ how \in {"leaked", "sent"} => HasId
      /\ \/ /\ how \in {"refused", "leaked"}
            /\ session' = [s EXCEPT !.ready = Append(@, c)]
            /\ UNCHANGED tasks
         \/ /\ how = "sent" /\ KindOf[c] # "spawn"
            /\ session' = [s EXCEPT !.outbox = @ \cup {Request(c, stage, g)}]
            /\ UNCHANGED tasks
         \/ /\ how = "sent" /\ KindOf[c] = "spawn"
            /\ session' = s
            /\ tasks' = tasks \cup {[call |-> c, gen |-> g]}
      /\ IF how = "refused" \/ KindOf[c] = "spawn"
         THEN UNCHANGED <<nextId, execs, asks>>
         ELSE /\ nextId' = NewId
              /\ IF KindOf[c] \in {"ask", "web"}
                 THEN asks' = asks \cup {Request(c, stage, g)} /\ UNCHANGED execs
                 ELSE execs' = execs \cup {Request(c, stage, g)} /\ UNCHANGED asks

\* The engine asks for the next round.  A round that an accepted message has
\* already interrupted starts no tool.
ExecuteToolRound ==
  /\ session.at = "wait" /\ session.ready = <<>> /\ ~ stop
  /\ session.active \subseteq session.taken \cup session.cut
  /\ session.round < Len(RoundsOf[session.gen])
  /\ LET calls == RoundsOf[session.gen][session.round + 1]
         s == [session EXCEPT !.round = @ + 1, !.active = Range(calls)]
     IN  session' = IF session.pending
                    THEN [s EXCEPT !.cut = @ \cup Range(calls)]
                    ELSE [s EXCEPT !.at = "batch", !.todo = calls]
  /\ UNCHANGED <<gen, nextId, tables, schedule, actor, results, tasks, wire, stop, injected>>

\* The batch's next call: an edit of a busy path waits, every other call starts.
StartBatch(how) ==
  /\ session.at = "batch" /\ session.todo # <<>>
  /\ LET c == Head(session.todo)
         s == [session EXCEPT !.todo = Tail(@)]
     IN  IF KindOf[c] = "edit" /\ PathOf[c] \in DOMAIN paths
         THEN /\ how = "sent"
              /\ paths' = [paths EXCEPT ![PathOf[c]].waiting = Append(@, c)]
              /\ session' = s
              /\ UNCHANGED <<nextId, execs, asks, tasks, activePaths>>
         ELSE /\ StartTool(c, how, s)
              /\ IF KindOf[c] = "edit"
                 THEN /\ paths' = With(paths, PathOf[c], [active |-> c, waiting |-> <<>>])
                      /\ activePaths' = With(activePaths, c, PathOf[c])
                 ELSE UNCHANGED schedule
  /\ UNCHANGED <<gen, completed, interrupted, actor, results, wire, stop, injected>>

\* The messages of a batch, or of a continued edit, are emitted once it is started.
Emit ==
  /\ session.at \in {"batch", "emit"} /\ session.todo = <<>>
  /\ sent' = sent \cup session.outbox
  /\ session' = [session EXCEPT !.at = "wait", !.outbox = {}]
  /\ UNCHANGED <<gen, nextId, tables, schedule, actor, results, tasks, settled, stop, injected>>

-----------------------------------------------------------------------------
(* Completions. *)

\* ToolDispatcher::continue_after: EditSchedule::complete hands the path to the
\* edit that waited longest, which starts; the last one gives the path up.
ContinueAfter(c, s, how) ==
  IF c \in DOMAIN activePaths /\ paths[activePaths[c]].waiting # <<>>
  THEN LET p == activePaths[c]
           next == Head(paths[p].waiting)
       IN  /\ paths' = [paths EXCEPT ![p] = [active |-> next, waiting |-> Tail(@.waiting)]]
           /\ activePaths' = With(Without(activePaths, c), next, p)
           /\ StartTool(next, how, [s EXCEPT !.at = "emit"])
  ELSE /\ how = "sent"
       /\ paths' = IF c \in DOMAIN activePaths THEN Without(paths, activePaths[c]) ELSE paths
       /\ activePaths' = Without(activePaths, c)
       /\ session' = s
       /\ UNCHANGED <<nextId, execs, asks, tasks>>

\* forward_completion for call c: a cut call is dropped, a second completion of a
\* call fails the session, any other goes to the Run.
Forward(c, s, how) ==
  \/ /\ c \in s.cut /\ how = "sent"
     /\ session' = s
     /\ UNCHANGED <<nextId, execs, asks, tasks, schedule>>
  \/ /\ c \notin s.cut /\ c \in s.taken /\ how = "sent"
     /\ session' = [s EXCEPT !.at = "duplicate"]
     /\ UNCHANGED <<nextId, execs, asks, tasks, schedule>>
  \/ /\ c \notin s.cut \cup s.taken
     /\ ContinueAfter(c, [s EXCEPT !.taken = @ \cup {c}], how)

\* Completions of the batch's own calls come first.
ForwardReady(how) ==
  /\ session.at = "wait" /\ session.ready # <<>>
  /\ Forward(Head(session.ready), [session EXCEPT !.ready = Tail(@)], how)
  /\ UNCHANGED <<gen, completed, interrupted, actor, results, wire, stop, injected>>

\* Completions sent by the actor and by spawned tasks; an error ends the session.
TakeResult(how) ==
  /\ session.at = "wait" /\ session.ready = <<>>
  /\ session.gen = gen /\ results # <<>>
  /\ results' = Tail(results)
  /\ IF Head(results).ok
     THEN Forward(Head(results).call, session, how)
     ELSE /\ how = "sent"
          /\ session' = [session EXCEPT !.at = "failed"]
          /\ UNCHANGED <<nextId, execs, asks, tasks, schedule>>
  /\ UNCHANGED <<gen, completed, interrupted, actor, wire, stop, injected>>

-----------------------------------------------------------------------------
(* Interruption by a message: queue_injection and interrupt_execs. *)

\* Mutation: the schedule keeps the edits of the interrupted round.
InjectKeepingSchedule ==
  /\ session.at = "wait" /\ session.ready = <<>> /\ ~ stop
  /\ injected < MaxInject
  /\ injected' = injected + 1
  /\ LET mine == {e \in execs : e.gen = session.gen}
         kept == {e \in mine : KindOf[e.call] = "task"}
     IN  /\ execs' = execs \ (mine \ kept)
         /\ session' = [session EXCEPT !.at = "cutAsks", !.pending = TRUE,
                          !.cut = @ \cup (session.active \ session.taken),
                          !.held = {e.id : e \in mine}, !.aborts = {e.id : e \in mine \ kept}]
  /\ UNCHANGED <<gen, nextId, asks, completed, interrupted, schedule, actor, results, tasks, wire, stop>>

\* The unfinished calls are cut, the schedule is cleared, and the Execs leave their
\* table, except that a Task goes on.
Inject ==
  /\ session.at = "wait" /\ session.ready = <<>> /\ ~ stop
  /\ injected < MaxInject
  /\ injected' = injected + 1
  /\ paths' = EmptyMap /\ activePaths' = EmptyMap
  /\ LET mine == {e \in execs : e.gen = session.gen}
         kept == {e \in mine : KindOf[e.call] = "task"}
     IN  /\ execs' = execs \ (mine \ kept)
         /\ session' = [session EXCEPT !.at = "cutAsks", !.pending = TRUE,
                          !.cut = @ \cup (session.active \ session.taken),
                          !.held = {e.id : e \in mine}, !.aborts = {e.id : e \in mine \ kept}]
  /\ UNCHANGED <<gen, nextId, asks, completed, interrupted, actor, results, tasks, wire, stop>>

\* Then the interactions leave theirs,
CutAsks ==
  /\ session.at = "cutAsks"
  /\ asks' = OfOthers(asks, session.gen)
  /\ session' = [session EXCEPT !.at = "cutMarks", !.held = @ \cup IdsOf(asks, session.gen)]
  /\ UNCHANGED <<gen, nextId, execs, completed, interrupted, schedule, actor, results, tasks, wire, stop, injected>>

\* and last the ids are marked, and the client is told to abort.
CutMarks ==
  /\ session.at = "cutMarks"
  /\ interrupted' = interrupted \cup session.held
  /\ settled' = settled \cup session.aborts
  /\ session' = [session EXCEPT !.at = "wait", !.held = {}, !.aborts = {}]
  /\ UNCHANGED <<gen, nextId, execs, asks, completed, schedule, actor, results, tasks, sent, stop, injected>>

\* The engine commits the injected message.
Commit ==
  /\ session.at = "wait" /\ session.pending
  /\ session' = [session EXCEPT !.pending = FALSE]
  /\ UNCHANGED <<gen, nextId, tables, schedule, actor, results, tasks, wire, stop, injected>>

-----------------------------------------------------------------------------
(* The end of a Run. *)

\* drain_running on the runtime of generation g, and an abort for each Exec.
Drain(g) ==
  /\ execs' = OfOthers(execs, g)
  /\ asks' = OfOthers(asks, g)
  /\ completed' = OfOthers(completed, g)
  /\ interrupted' = {}
  /\ settled' = settled \cup IdsOf(execs, g)

\* RunEvent::Ended of a cancelled or superseded Run: abort_execs.
End ==
  /\ session.at = "wait" /\ stop
  /\ Drain(session.gen)
  /\ session' = [session EXCEPT !.at = "down"]
  /\ UNCHANGED <<gen, nextId, schedule, actor, results, tasks, sent, stop, injected>>

\* CancelAction and disconnects: the actor cancels the Run and drains its tools.
CancelAction ==
  /\ actor = Idle /\ ~ stop
  /\ Drain(gen)
  /\ stop' = TRUE
  /\ UNCHANGED <<gen, nextId, schedule, session, actor, results, tasks, sent, injected>>

\* start_generation over a running one: interrupt_for_run_replacement, then a
\* runtime from next_run and a result channel of its own.
Replace ==
  /\ actor = Idle /\ gen + 1 \in DOMAIN RoundsOf
  /\ execs' = OfOthers(execs, gen) /\ asks' = OfOthers(asks, gen)
  /\ completed' = OfOthers(completed, gen)
  /\ interrupted' = interrupted \cup IdsOf(execs, gen) \cup IdsOf(asks, gen)
  /\ settled' = settled \cup IdsOf(execs, gen)
  /\ gen' = gen + 1 /\ stop' = TRUE /\ results' = <<>>
  /\ UNCHANGED <<nextId, schedule, session, actor, tasks, sent, injected>>

\* The new generation's session starts when the previous one has finished.
NextSession ==
  /\ session.at \in {"down", "failed"} /\ session.gen < gen
  /\ session' = NewSession(gen) /\ stop' = FALSE
  /\ paths' = EmptyMap /\ activePaths' = EmptyMap
  /\ UNCHANGED <<gen, nextId, tables, actor, results, tasks, wire, injected>>

-----------------------------------------------------------------------------
(* The actor: answers of the client. *)

Complete(c) == results' = Append(results, Done(c))
Fail(error) == results' = Append(results, error)
TakenBy(e) == [id |-> e.id, gen |-> e.gen]

\* client_event for a terminal answer to request r, up to exec_call: an interrupted
\* id is discarded, and one that is unknown or was answered is ignored.
ExecAnswer(r) ==
  /\ actor = Idle /\ r \in sent /\ r.stage \notin {"ask", "web"}
  /\ settled' = settled \cup {r.id}
  /\ LET mine == {e \in execs : e.gen = gen /\ e.id = r.id}
     IN  IF r.id \in interrupted
         THEN execs' = execs \ mine /\ UNCHANGED actor
         ELSE /\ UNCHANGED execs
              /\ actor' = IF mine = {} THEN Idle ELSE [at |-> "found", id |-> r.id]
  /\ UNCHANGED <<gen, nextId, asks, completed, interrupted, schedule, session, results, tasks, sent, stop, injected>>

\* take: the entry may have gone since exec_call, which is an error.  The read of an
\* edit is followed by its write; any other answer completes the call.
TakeExec ==
  /\ actor.at = "found"
  /\ LET mine == {e \in execs : e.gen = gen /\ e.id = actor.id}
     IN  IF mine = {}
         THEN Fail(UnknownExec) /\ actor' = Idle /\ UNCHANGED <<execs, completed>>
         ELSE LET e == CHOOSE x \in mine : TRUE
              IN  /\ execs' = execs \ {e}
                  /\ completed' = completed \cup {TakenBy(e)}
                  /\ IF e.stage = "read"
                     THEN actor' = [at |-> "read", entry |-> e] /\ UNCHANGED results
                     ELSE actor' = Idle /\ Complete(e.call)
  /\ UNCHANGED <<gen, nextId, asks, interrupted, schedule, session, tasks, wire, stop, injected>>

\* advance_edit: a read that failed, or text to replace that is not there, completes
\* the call.  Otherwise the write gets an id of its own and is emitted; without an id
\* the error goes to the session.
AdvanceEdit ==
  /\ actor.at = "read"
  /\ actor' = Idle
  /\ LET write == [Request(actor.entry.call, "write", gen) EXCEPT !.gen = gen]
     IN  \/ /\ Complete(actor.entry.call)
            /\ UNCHANGED <<nextId, execs, wire>>
         \/ /\ HasId
            /\ nextId' = NewId
            /\ execs' = execs \cup {write}
            /\ sent' = sent \cup {write}
            /\ UNCHANGED <<results, settled>>
         \/ /\ ~ HasId /\ Fail(OtherError)
            /\ UNCHANGED <<nextId, execs, wire>>
  /\ UNCHANGED <<gen, asks, completed, interrupted, schedule, session, tasks, stop, injected>>

\* The client closes the stream of an Exec, or reports that it failed.
StreamClosed(r) ==
  /\ actor = Idle /\ r \in sent /\ r.stage \notin {"ask", "web"}
  /\ settled' = settled \cup {r.id}
  /\ LET mine == {e \in execs : e.gen = gen /\ e.id = r.id}
     IN  /\ execs' = execs \ mine
         /\ IF r.id \notin interrupted /\ mine # {}
            THEN /\ completed' = completed \cup {TakenBy(e) : e \in mine}
                 /\ Complete(r.call)
            ELSE UNCHANGED <<completed, results>>
  /\ UNCHANGED <<gen, nextId, asks, interrupted, schedule, session, actor, tasks, sent, stop, injected>>

\* interaction_response: the answer completes the call, except that an approved
\* search or fetch is spawned.
InteractionResponse(r) ==
  /\ actor = Idle /\ r \in sent /\ r.stage \in {"ask", "web"}
  /\ settled' = settled \cup {r.id}
  /\ LET mine == {e \in asks : e.gen = gen /\ e.id = r.id}
     IN  IF r.id \in interrupted \/ mine = {}
         THEN UNCHANGED <<asks, completed, results, tasks>>
         ELSE /\ asks' = asks \ mine
              /\ completed' = completed \cup {TakenBy(e) : e \in mine}
              /\ \/ Complete(r.call) /\ UNCHANGED tasks
                 \/ /\ r.stage = "web"
                    /\ tasks' = tasks \cup {[call |-> r.call, gen |-> gen]}
                    /\ UNCHANGED results
  /\ UNCHANGED <<gen, nextId, execs, interrupted, schedule, session, actor, sent, stop, injected>>

\* A spawned task sends its completion to the channel of its own generation.
TaskDone(t) ==
  /\ t \in tasks
  /\ tasks' = tasks \ {t}
  /\ IF t.gen = gen THEN Complete(t.call) ELSE UNCHANGED results
  /\ UNCHANGED <<gen, nextId, tables, schedule, session, actor, wire, stop, injected>>

Next ==
  \/ ExecuteToolRound \/ Emit \/ Inject \/ CutAsks \/ CutMarks \/ Commit
  \/ End \/ CancelAction \/ Replace \/ NextSession \/ TakeExec \/ AdvanceEdit
  \/ \E how \in {"refused", "leaked", "sent"} :
       StartBatch(how) \/ ForwardReady(how) \/ TakeResult(how)
  \/ \E r \in sent : ExecAnswer(r) \/ StreamClosed(r) \/ InteractionResponse(r)
  \/ \E t \in tasks : TaskDone(t)

Spec == Init /\ [][Next]_vars

-----------------------------------------------------------------------------
(* Properties. *)

\* The tables hold requests that were issued, and the schedule holds edits.
TypeOK ==
  /\ gen \in DOMAIN RoundsOf /\ nextId \in 0 .. MaxId
  /\ \A e \in execs \cup asks \cup sent :
       e.id \in 1 .. MaxId /\ e.call \in Call /\ e.gen \in 1 .. gen
  /\ settled \subseteq 1 .. MaxId
  /\ interrupted \subseteq 1 .. MaxId
  /\ DOMAIN activePaths \subseteq DOMAIN PathOf
  /\ \A p \in DOMAIN paths : PathOf[paths[p].active] = p

\* An id names one request for the life of the transport, over Run replacements,
\* interruptions and up to the last id: an answer that comes late is never taken for
\* the answer to another call.
IdsNameOneRequest ==
  \A p, q \in sent \cup execs \cup asks : p.id = q.id => p = q

\* active_paths and the path queues describe the same edits, so that
\* EditSchedule::complete never meets a path that disappeared or is active for
\* another call.
ScheduleAgrees ==
  /\ {activePaths[c] : c \in DOMAIN activePaths} = DOMAIN paths
  /\ \A c \in DOMAIN activePaths : paths[activePaths[c]].active = c

\* The edit that holds a path is on its way to a completion that the session will
\* take, so that edits waiting for the path are never stuck behind a call that was
\* interrupted, refused or lost.
HeldPathsMove ==
  session.at \in {"wait", "batch", "emit"} /\ ~ stop =>
    \A p \in DOMAIN paths :
      LET c == paths[p].active
      IN  /\ c \notin session.cut
          /\ \/ \E e \in execs : e.call = c /\ e.gen = session.gen
             \/ actor.at = "read" /\ actor.entry.call = c
             \/ \E i \in DOMAIN results : results[i] = Done(c)
             \/ \E i \in DOMAIN session.ready : session.ready[i] = c
             \/ \E i \in DOMAIN results : ~ results[i].ok

\* No call completes twice, whatever the client repeats or answers after an abort:
\* the session never ends on a duplicate tool result.
NoDuplicateResult == session.at # "duplicate"

\* When a cancelled or superseded Run has ended, every Exec it sent was answered or
\* named in an abort, except the write of an edit whose read the actor held while the
\* tools were drained.
EndAborts ==
  session.at = "down" =>
    \A r \in sent : r.gen = session.gen /\ r.stage \notin {"write", "ask", "web"}
                      => r.id \in settled

\* A result that comes after a message interrupted its tool is ignored, and does not
\* fail the session.
LateResultsIgnored ==
  \A i \in DOMAIN results : results[i] # UnknownExec
=============================================================================
