---------------------------- MODULE CheckpointSync ----------------------------
(***************************************************************************)
(* How a Run's state reaches the client (cursor/checkpoint,                *)
(* services/blob_sync.rs).  The output session queues jobs for a worker;   *)
(* the worker turns messages and steps into Blobs, asks the client to set  *)
(* each of them, waits for the acknowledgement, and publishes a checkpoint *)
(* that names them.  Requests and answers travel separately: an answer may *)
(* be an error, be wrong, be late or be lost, and the stream may break.    *)
(*                                                                         *)
(* A Blob is named by its content: <<"root", m>>, <<"user", n>>,           *)
(* <<"step", k>>, <<"turn", user, steps>>, <<"todo", id, status>>,         *)
(* <<"archive", roots, root>>.  A message is <<"system", p>>, <<"say", n>>,*)
(* <<"summary", n>> or <<"todos", n, write>>, the round of a TodoWrite.    *)
(***************************************************************************)
EXTENDS Naturals, Sequences, SequencesExt

CONSTANTS Writes,      \* TodoWrite arguments: [merge, todos: Seq(<<id, status>>)]
          Prompts,     \* system prompts
          MaxCommits,  \* bound: commits
          MaxSteps,    \* bound: steps
          MaxRequests, \* bound: KV requests
          MaxFaults,   \* bound: wrong or missing answers, cancelled Runs
          MaxRuns      \* bound: Runs

VARIABLES session,    \* the output session: history, steps, what it waits for
          jobs,       \* the worker's queue
          worker,     \* the job in hand and the Blobs it still needs
          builder,    \* CheckpointBuilder
          kv,         \* BlobSynchronizer: pending requests, acked_blobs, next_id
          requests,   \* KV requests on their way to the client
          answers,    \* and answers on their way back
          blobs,      \* the store's Blobs
          held,       \* the client's Blobs
          published,  \* the checkpoint the client received last
          given,      \* ghost: the steps of the turn, in order
          todoList,   \* ghost: the todos after every TodoWrite so far
          troubles    \* faults so far

syncVars == <<session, jobs, worker, builder, kv, requests, answers, blobs, held,
              published, given, todoList, troubles>>

RootBlob(m) == <<"root", m>>
StepBlob(k) == <<"step", k>>
TodoBlob(t) == <<"todo", t[1], t[2]>>
TurnBlob(user, steps) == <<"turn", user, steps>>

\* The Blobs that a Blob names.
Children(b) ==
  CASE b[1] = "turn"    -> {b[2]} \cup Range(b[3])
    [] b[1] = "archive" -> Range(b[2]) \cup {b[3]}
    [] OTHER            -> {}

Named(c) ==
  LET direct == Range(c.roots) \cup Range(c.turns) \cup Range(c.todos) \cup Range(c.archive)
  IN  direct \cup UNION { Children(b) : b \in direct }

-----------------------------------------------------------------------------
(* fold_derived_state: what the TodoWrites of a history make of the todos. *)

Patch(todos, t) ==
  IF \E i \in DOMAIN todos : todos[i][1] = t[1]
  THEN [i \in DOMAIN todos |-> IF todos[i][1] = t[1] THEN t ELSE todos[i]]
  ELSE Append(todos, t)

ApplyTodoWrite(todos, write) ==
  IF write.merge THEN FoldLeft(Patch, todos, write.todos) ELSE write.todos

TodoWrites(messages) == SelectSeq(messages, LAMBDA m : m[1] = "todos")

FoldTodos(base, messages) ==
  FoldLeft(LAMBDA todos, m : ApplyTodoWrite(todos, m[3]), base, TodoWrites(messages))

\* build_derived_state: no write leaves the todos of the base.
DerivedTodos(base, messages) ==
  IF TodoWrites(messages) = <<>> THEN base ELSE FoldTodos(base, messages)

TodoBlobs(todos) == [i \in DOMAIN todos |-> TodoBlob(todos[i])]

\* base_todo_state: the Blobs decoded again.
DecodeTodos(ids) == [i \in DOMAIN ids |-> <<ids[i][2], ids[i][3]>>]

-----------------------------------------------------------------------------
(* CheckpointBuilder: what a job needs before its checkpoint can be built. *)

Set(b) == [op |-> "set", blob |-> b]
Get(b) == [op |-> "get", blob |-> b]

Wire(prompt, messages) ==
  <<RootBlob(<<"system", prompt>>)>> \o [i \in DOMAIN messages |-> RootBlob(messages[i])]

\* project_roots; replace_roots after a compaction.
NewRoots(job) ==
  LET wire == Wire(builder.prompt, job.messages)
      ids == builder.roots
      system == IF ids = <<>> \/ ids[1] = wire[1] THEN <<>> ELSE <<wire[1]>>
  IN  IF job.kind = "compaction"
      THEN (IF ids # <<>> /\ ids[1] = wire[1] THEN Tail(wire) ELSE wire)
      ELSE system \o SubSeq(wire, Len(ids) + 1, Len(wire))

Roots(job) ==
  LET wire == Wire(builder.prompt, job.messages)
      ids == builder.roots
  IN  IF job.kind = "compaction" \/ ids = <<>> THEN wire
      ELSE <<wire[1]>> \o SubSeq(ids, 2, Len(ids)) \o SubSeq(wire, Len(ids) + 1, Len(wire))

Shrank(job) ==
  job.kind # "compaction" /\ Len(job.messages) + 1 < Len(builder.roots)

\* ensure_turn: a new user message opens a turn; otherwise the Run continues
\* the last turn of the base, if there is one.
EnsureTurn ==
  IF builder.initialized THEN <<>>
  ELSE IF builder.user # <<>> THEN builder.user
  ELSE IF builder.turns = <<>> THEN <<>> ELSE <<Last(builder.turns)>>

EnsuredTurn ==
  IF builder.initialized THEN builder.turn
  ELSE IF builder.user # <<>>
       THEN [open |-> TRUE, preceding |-> builder.turns, user |-> builder.user[1],
             steps |-> <<>>, stored |-> FALSE]
  ELSE IF builder.turns = <<>> THEN builder.turn
       ELSE [open |-> TRUE, preceding |-> Front(builder.turns),
             user |-> Last(builder.turns)[2], steps |-> Last(builder.turns)[3],
             stored |-> TRUE]

\* project_turns: the turn with the job's steps.
TurnWith(job) ==
  LET t == EnsuredTurn
  IN  [t EXCEPT !.steps = @ \o [i \in DOMAIN job.steps |-> StepBlob(job.steps[i])]]

TurnIds(t) ==
  IF t.open THEN Append(t.preceding, TurnBlob(t.user, t.steps)) ELSE builder.turns

NewTurn(job) ==
  LET t == TurnWith(job)
      first == EnsureTurn
      fetch == [i \in DOMAIN first |-> IF builder.user # <<>> THEN Set(first[i]) ELSE Get(first[i])]
  IN  fetch \o [i \in DOMAIN job.steps |-> Set(StepBlob(job.steps[i]))]
        \o IF t.open /\ (job.steps # <<>> \/ ~ t.stored)
           THEN <<Set(TurnBlob(t.user, t.steps))>> ELSE <<>>

NewTodos(job) ==
  LET ids == builder.todos
      now == TodoBlobs(DerivedTodos(DecodeTodos(ids), job.messages))
      fetch == IF TodoWrites(job.messages) = <<>> THEN <<>> ELSE [i \in DOMAIN ids |-> Get(ids[i])]
      fresh == SelectSeq([i \in DOMAIN now |-> i], LAMBDA i : i \notin DOMAIN ids \/ ids[i] # now[i])
  IN  fetch \o [k \in DOMAIN fresh |-> Set(now[fresh[k]])]

\* compacted: the archive of what the summary replaces.
Archive(job) == <<"archive", SubSeq(builder.baseRoots, 2, Len(builder.baseRoots)), Last(Roots(job))>>

\* Everything a job makes sure of before it has its checkpoint: build_state,
\* or compacted.
Plan(job) ==
  LET roots == NewRoots(job)
  IN  [i \in DOMAIN roots |-> Set(roots[i])] \o
      IF job.kind = "compaction"
      THEN <<Set(<<"summary", Len(builder.archive)>>), Set(Archive(job))>> \o NewTurn(job)
      ELSE NewTurn(job) \o NewTodos(job)

\* The builder when the plan is done.
Built(job) ==
  LET t == TurnWith(job)
      next == [builder EXCEPT !.roots = Roots(job), !.initialized = TRUE,
                              !.turn = [t EXCEPT !.stored = t.open]]
  IN  IF job.kind = "compaction"
      THEN [next EXCEPT !.baseRoots = Roots(job), !.turns = TurnIds(t),
                        !.archive = Append(@, Archive(job))]
      ELSE [next EXCEPT !.todos = TodoBlobs(DerivedTodos(DecodeTodos(@), job.messages))]

Checkpoint(b) ==
  [roots |-> b.roots, todos |-> b.todos, archive |-> b.archive,
   turns |-> IF b.turn.open THEN Append(b.turn.preceding, TurnBlob(b.turn.user, b.turn.steps))
             ELSE b.turns]

\* CheckpointBuilder::new and configure, from the state that the client sends.
NewBuilder(c, user, prompt) ==
  [prompt |-> prompt, roots |-> c.roots, baseRoots |-> c.roots, turns |-> c.turns,
   todos |-> c.todos, archive |-> c.archive, user |-> user, initialized |-> FALSE,
   turn |-> [open |-> FALSE, preceding |-> <<>>, user |-> <<>>, steps |-> <<>>,
             stored |-> FALSE]]

-----------------------------------------------------------------------------
NoJob == [phase |-> "idle"]

NoSession == [phase |-> "none", number |-> 0, history |-> <<>>, buffer |-> <<>>,
              commits |-> 0, steps |-> 0, settled |-> FALSE]

\* A new conversation, or one whose state another server made: the client
\* holds its Blobs, this store does not.
FirstCheckpoints ==
  LET root == RootBlob(<<"system", CHOOSE p \in Prompts : TRUE>>)
      said == RootBlob(<<"say", 0>>)
      turn == TurnBlob(<<"user", 0>>, <<StepBlob(0)>>)
  IN  { [roots |-> <<>>, turns |-> <<>>, todos |-> <<>>, archive |-> <<>>],
        [roots |-> <<root, said>>, turns |-> <<turn>>, todos |-> <<TodoBlob(<<"a", "pending">>)>>,
         archive |-> <<>>] }

Init ==
  /\ \E c \in FirstCheckpoints :
       /\ published = c
       /\ held = Named(c)
       /\ builder = NewBuilder(c, <<>>, CHOOSE p \in Prompts : TRUE)
       /\ todoList = DecodeTodos(c.todos)
  /\ session = NoSession
  /\ jobs = <<>>
  /\ worker = NoJob
  /\ kv = [pending |-> <<>>, acked |-> {}]
  /\ requests = {} /\ answers = {}
  /\ blobs = {}
  /\ given = <<>>
  /\ troubles = 0

\* The messages that the roots of a state stand for.
Messages(roots) == [i \in 1 .. Len(roots) - 1 |-> roots[i + 1][2]]

\* A Run begins: a new turn, or the last one resumed.  The worker and the
\* builder are new; the synchronizer belongs to the stream and stays.
StartRun(opens, prompt) ==
  LET number == session.number + 1
      user == IF opens THEN << <<"user", number>> >> ELSE <<>>
  IN  /\ session.phase \in {"none", "ended"} /\ number <= MaxRuns
      /\ opens \/ published.roots # <<>>
      /\ session' = [NoSession EXCEPT
                       !.phase = "running", !.number = number, !.commits = session.commits,
                       !.steps = session.steps,
                       !.history = IF published.roots = <<>> THEN <<>> ELSE Messages(published.roots)]
      /\ builder' = NewBuilder(published, user, prompt)
      /\ worker' = NoJob
      /\ jobs' = <<>>
      /\ given' = IF opens \/ published.turns = <<>> THEN <<>> ELSE Last(published.turns)[3]
      /\ todoList' = DecodeTodos(published.todos)
      /\ UNCHANGED <<kv, requests, answers, blobs, held, published, troubles>>

\* The session buffers a step that the client has seen.
AddStep ==
  LET k == session.number * 10 + session.steps + 1
  IN  /\ session.phase = "running" /\ session.steps < MaxSteps
      /\ session' = [session EXCEPT !.buffer = Append(@, k), !.steps = @ + 1]
      /\ given' = Append(given, StepBlob(k))
      /\ UNCHANGED <<jobs, worker, builder, kv, requests, answers, blobs, held, published,
                     todoList, troubles>>

\* A commit of the engine becomes a job.  The session waits for all but the
\* staged ones.
Commit(kind, message, replaces) ==
  LET history == IF replaces THEN <<message>> ELSE Append(session.history, message)
  IN  /\ session.phase = "running" /\ session.commits < MaxCommits
      /\ session' = [session EXCEPT !.commits = @ + 1, !.buffer = <<>>, !.settled = FALSE,
                       !.history = IF kind = "staged" THEN @ ELSE history,
                       !.phase = IF kind = "staged" THEN "running" ELSE "waiting"]
      /\ jobs' = Append(jobs, [kind |-> kind, steps |-> session.buffer,
                               messages |-> IF kind = "staged" THEN session.history ELSE history])
      /\ UNCHANGED <<worker, builder, kv, requests, answers, blobs, held, published, given,
                     troubles>>

CommitMessage ==
  /\ \E kind \in {"settled", "final", "staged"} :
       Commit(kind, <<"say", session.number * 10 + session.commits>>, FALSE)
  /\ UNCHANGED todoList

CommitTodos ==
  \E w \in Writes :
    /\ Commit("settled", <<"todos", session.number * 10 + session.commits, w>>, FALSE)
    /\ todoList' = ApplyTodoWrite(todoList, w)

Compact ==
  /\ session.history # <<>>
  /\ Commit("compaction", <<"summary", session.number * 10 + session.commits>>, TRUE)
  /\ UNCHANGED todoList

-----------------------------------------------------------------------------
(* The worker. *)

Fail ==
  /\ worker' = [phase |-> "failed"]
  /\ UNCHANGED builder

TakeJob ==
  /\ worker.phase = "idle" /\ jobs # <<>> /\ session.phase \in {"running", "waiting"}
  /\ jobs' = Tail(jobs)
  /\ IF Shrank(Head(jobs)) THEN Fail
     ELSE /\ worker' = [phase |-> "busy", job |-> Head(jobs), plan |-> Plan(Head(jobs)), waits |-> 0]
          /\ UNCHANGED builder
  /\ UNCHANGED <<session, kv, requests, answers, blobs, held, published, given, todoList, troubles>>

\* The next Blob is there already: acknowledged before, or in the store.
Skip ==
  /\ worker.phase = "busy" /\ worker.waits = 0 /\ worker.plan # <<>>
  /\ LET next == Head(worker.plan)
     IN  /\ IF next.op = "set" THEN next.blob \in kv.acked ELSE next.blob \in blobs
         /\ blobs' = IF next.op = "set" THEN blobs \cup {next.blob} ELSE blobs
         /\ worker' = [worker EXCEPT !.plan = Tail(@)]
  /\ UNCHANGED <<session, jobs, builder, kv, requests, answers, held, published, given,
                 todoList, troubles>>

\* persist and ensure_set, or get: the client is asked.
Ask ==
  /\ worker.phase = "busy" /\ worker.waits = 0 /\ worker.plan # <<>>
  /\ Len(kv.pending) < MaxRequests
  /\ LET next == Head(worker.plan)
         id == Len(kv.pending) + 1
     IN  /\ IF next.op = "set" THEN next.blob \notin kv.acked ELSE next.blob \notin blobs
         /\ blobs' = IF next.op = "set" THEN blobs \cup {next.blob} ELSE blobs
         /\ kv' = [kv EXCEPT !.pending = Append(@, [op |-> next.op, blob |-> next.blob])]
         /\ requests' = requests \cup {[id |-> id, op |-> next.op, blob |-> next.blob]}
         /\ worker' = [worker EXCEPT !.waits = id]
  /\ UNCHANGED <<session, jobs, builder, answers, held, published, given, todoList, troubles>>

NoRequest == [op |-> "none", blob |-> <<>>]

Forget(id) == [kv.pending EXCEPT ![id] = NoRequest]

\* The wait ends without an answer: a timeout, or the stream broke.
GiveUp ==
  /\ worker.phase = "busy" /\ worker.waits # 0 /\ troubles < MaxFaults
  /\ kv' = [kv EXCEPT !.pending = Forget(worker.waits)]
  /\ troubles' = troubles + 1
  /\ Fail
  /\ UNCHANGED <<session, jobs, requests, answers, blobs, held, published, given, todoList>>

\* The job has all its Blobs.  What can be published is, by the worker; the
\* result of a compaction or of the final turn goes to the session.
Finish ==
  /\ worker.phase = "busy" /\ worker.plan = <<>>
  /\ LET next == Built(worker.job)
     IN  /\ builder' = next
         /\ published' = IF worker.job.kind = "compaction" THEN published ELSE Checkpoint(next)
  /\ worker' = NoJob
  /\ session' = [session EXCEPT
                   !.phase = CASE worker.job.kind = "staged" -> @
                               [] worker.job.kind = "final" -> "ended"
                               [] OTHER -> "running",
                   !.settled = worker.job.kind \in {"settled", "final"}]
  /\ UNCHANGED <<jobs, kv, requests, answers, blobs, held, given, todoList, troubles>>

\* A failed worker ends the session; a cancelled session aborts its worker,
\* whose request stays pending.
End ==
  /\ session.phase \in {"running", "waiting"}
  /\ \/ worker.phase = "failed" /\ UNCHANGED troubles
     \/ worker.phase # "failed" /\ troubles < MaxFaults /\ troubles' = troubles + 1
  /\ session' = [session EXCEPT !.phase = "ended", !.settled = FALSE]
  /\ worker' = NoJob
  /\ jobs' = <<>>
  /\ UNCHANGED <<builder, kv, requests, answers, blobs, held, published, given, todoList>>

-----------------------------------------------------------------------------
(* The client and handle_client. *)

\* The client answers a request: as asked, or with an error, nothing, or
\* another Blob.
ClientAnswers(r) ==
  /\ requests' = requests \ {r}
  /\ \/ /\ r.op = "set"
        /\ held' = held \cup {r.blob}
        /\ answers' = answers \cup {[id |-> r.id, op |-> r.op, value |-> r.blob]}
        /\ UNCHANGED troubles
     \/ /\ r.op = "get" /\ r.blob \in held
        /\ answers' = answers \cup {[id |-> r.id, op |-> r.op, value |-> r.blob]}
        /\ UNCHANGED <<held, troubles>>
     \/ /\ troubles < MaxFaults
        /\ \E value \in IF r.op = "set" THEN {<<"error">>}
                         ELSE {<<"error">>, <<"none">>, <<"other">>} :
             answers' = answers \cup {[id |-> r.id, op |-> r.op, value |-> value]}
        /\ troubles' = troubles + 1
        /\ UNCHANGED held
  /\ UNCHANGED <<session, jobs, worker, builder, kv, blobs, published, given, todoList>>

\* Mutation: an error counts as an acknowledgement.
AcceptedSet(a) == TRUE

Acknowledges(a) == a.value # <<"error">>

Delivers(a, blob) == a.value = blob

\* handle_client: an answer ends the wait it belongs to.  An answer to a
\* request that is no longer pending is ignored; one whose waiter is gone
\* still tells what the client holds.
HandleAnswer(a) ==
  LET p == kv.pending[a.id]
      ok == IF a.op = "set" THEN Acknowledges(a) ELSE Delivers(a, p.blob)
      awaited == worker.phase = "busy" /\ worker.waits = a.id
  IN  /\ answers' = answers \ {a}
      /\ IF p.op # a.op THEN UNCHANGED <<kv, blobs, worker, builder>>
         ELSE /\ kv' = [pending |-> Forget(a.id),
                        acked |-> IF a.op = "set" /\ ok THEN kv.acked \cup {p.blob} ELSE kv.acked]
              /\ blobs' = IF a.op = "get" /\ ok THEN blobs \cup {p.blob} ELSE blobs
              /\ IF ~ awaited THEN UNCHANGED <<worker, builder>>
                 ELSE IF ok THEN /\ worker' = [worker EXCEPT !.waits = 0, !.plan = Tail(@)]
                                 /\ UNCHANGED builder
                 ELSE Fail
      /\ UNCHANGED <<session, jobs, requests, held, published, given, todoList, troubles>>

Next ==
  \/ \E opens \in BOOLEAN, p \in Prompts : StartRun(opens, p)
  \/ AddStep \/ CommitMessage \/ CommitTodos \/ Compact
  \/ TakeJob \/ Skip \/ Ask \/ GiveUp \/ Finish \/ End
  \/ \E r \in requests : ClientAnswers(r)
  \/ \E a \in answers : HandleAnswer(a)

Spec == Init /\ [][Next]_syncVars

-----------------------------------------------------------------------------
(* Every Blob that a published checkpoint names, directly or through       *)
(* another Blob, is one the client holds: the next Run can be prepared     *)
(* from it.                                                                *)
PublishedIsHeld == Named(published) \subseteq held

(* The steps of the published turn are the steps of the turn in their      *)
(* order, none twice and none left out between two others.                 *)
StepsInOrder ==
  session.phase # "none" /\ session.settled /\ published.turns # <<>> =>
    LET steps == Last(published.turns)[3]
    IN  IsPrefix(steps, given) /\ Len(steps) + Len(session.buffer) = Len(given)

(* When a commit's barrier is completed, the client has the history that   *)
(* was committed.                                                          *)
BarrierMeansPublished ==
  session.settled => published.roots = Wire(builder.prompt, session.history)

(* The published todos are what all TodoWrites of the conversation made of *)
(* them, also when the messages of some are compacted away or are folded   *)
(* a second time onto the todos of the base.                               *)
TodosKept == session.settled => DecodeTodos(published.todos) = todoList
=============================================================================
