------------------------- MODULE ConversationStore -------------------------
(***************************************************************************)
(* The SQLite store of one conversation: its checkpoints, messages, Runs   *)
(* and tool rounds (store/checkpoints.rs, messages.rs, conversations.rs,   *)
(* runs.rs, tool_rounds.rs).                                               *)
(*                                                                         *)
(* Every operation is one action: the store takes its write lock and a     *)
(* BEGIN IMMEDIATE transaction, and an Err rolls the transaction back, so  *)
(* a refused call changes nothing and is not a step.  All rows carry the   *)
(* conversation id and no operation touches two conversations, so one      *)
(* conversation is enough.                                                 *)
(*                                                                         *)
(* A Run that was replaced keeps running until it notices, and a Run of a  *)
(* process that crashed never calls again: both are covered, since any Run *)
(* that was ever claimed may call, or not call, any operation at any time. *)
(* A caller passes the checkpoint it was last given, which is the head in  *)
(* its row of `runs`.                                                      *)
(***************************************************************************)
EXTENDS Integers, Sequences, Functions

CONSTANTS
  Run,              \* run ids: "{request_id}:{uuid}", never reused
  NoRun,            \* conversations.active_run_id IS NULL
  Call,             \* tool call ids, unique within a round only
  ExternalId,       \* ids of user, runtime and client-supplied messages
  Body,             \* contents of external messages
  MaxCheckpoints,   \* bound on conversation_checkpoints rows
  MaxProviderCalls  \* bound on provider_call_index of a Run

ASSUME NoRunAssumption == NoRun \notin Run
ASSUME BoundsAssumption == MaxCheckpoints \in Nat /\ MaxProviderCalls \in Nat
ASSUME BodyAssumption == "absent" \notin Body

VARIABLES
  checkpoints,  \* conversation_checkpoints and checkpoint_messages, by row id
  messages,     \* messages table: id -> payload, "absent" when there is no row
  current,      \* conversations.current_checkpoint_id, 0 before the first use
  active,       \* conversations.active_run_id
  runs,         \* runs table
  rounds        \* tool_rounds and tool_round_calls

vars == <<checkpoints, messages, current, active, runs, rounds>>

\* A round is named after its Run and provider call; 0 is the round a resumed
\* Run re-executes before its first provider call ("{run_id}:round:resume").
Round == Run \X (0 .. MaxProviderCalls)

\* "{round_id}:{call_id}:assistant" and "...:result", "{run_id}:assistant:{n}",
\* "runtime:summary:{run_id}:{n}", and the ids that come from outside.
CallId(k, c) == <<k, c, "assistant">>
ResultId(k, c) == <<k, c, "result">>
FinalId(k) == <<k, "assistant">>
SummaryId(k) == <<k, "summary">>

MessageId ==
  ExternalId \cup (Round \X Call \X {"assistant", "result"})
             \cup (Round \X {"assistant", "summary"})

\* The ids that come from outside have none of the forms above.
ASSUME IdsAssumption ==
  ExternalId \cap ((Round \X Call \X {"assistant", "result"}) \cup (Round \X {"assistant", "summary"})) = {}

\* What the model, its tools and the summaries say is told apart only by whether
\* there is text: the first assistant message of a round carries the model's.
Content == Body \cup {"text", "empty"}

Message == [id : MessageId, body : Content]

Message1(i, b) == [id |-> i, body |-> b]

\* Client-supplied histories: ids are positional, so they never repeat.
History ==
  {<<>>} \cup { <<Message1(i, b)>> : i \in ExternalId, b \in Body }
         \cup { <<Message1(ij[1], a), Message1(ij[2], b)>> : a, b \in Body,
                ij \in { p \in ExternalId \X ExternalId : p[1] # p[2] } }

Init ==
  /\ checkpoints = <<>>
  /\ messages = [i \in MessageId |-> "absent"]
  /\ current = 0
  /\ active = NoRun
  /\ runs = [r \in Run |-> [status |-> "none", head |-> 0, calls |-> 0]]
  /\ rounds = [k \in Round |-> [status |-> "none", calls |-> {}, done |-> <<>>]]

Root == [parent |-> 0, added |-> <<>>, digest |-> <<>>]

\* ensure_conversation_tx: the conversation row and its root checkpoint.
Ensured == IF current = 0 THEN <<Root>> ELSE checkpoints
EnsuredCurrent == IF current = 0 THEN 1 ELSE current

-----------------------------------------------------------------------------
(* Checkpoints.  state_digest hashes the whole message list of a checkpoint *)
(* and is modelled as that list.                                           *)

\* What load_checkpoint_messages returns: the lineage walk joined with the
\* payloads of the messages table, oldest checkpoint first.
Loaded[c \in DOMAIN checkpoints] ==
  LET own == [i \in DOMAIN checkpoints[c].added |->
                Message1(checkpoints[c].added[i], messages[checkpoints[c].added[i]])]
  IN  IF checkpoints[c].parent = 0 THEN own ELSE Loaded[checkpoints[c].parent] \o own

\* Mutation: INSERT OR REPLACE instead of INSERT OR IGNORE and the comparison.
CanPutAnything(ms) == \A i, j \in DOMAIN ms : ms[i].id = ms[j].id => i = j

\* put_message_tx accepts the messages: an id already stored must have the same
\* payload; and one checkpoint lists an id once (UNIQUE in checkpoint_messages).
CanPut(ms) ==
  /\ \A i, j \in DOMAIN ms : ms[i].id = ms[j].id => i = j
  /\ \A i \in DOMAIN ms : messages[ms[i].id] \in {"absent", ms[i].body}

PutMessages(ms) ==
  messages' = [k \in MessageId |->
                 IF \E i \in DOMAIN ms : ms[i].id = k
                 THEN ms[CHOOSE i \in DOMAIN ms : ms[i].id = k].body
                 ELSE messages[k]]

Exists(table, full) == \E c \in DOMAIN table : table[c].digest = full

\* insert_checkpoint_tx; a digest that exists already violates the UNIQUE
\* constraint of conversation_checkpoints.
InsertCheckpoint(table, parent, additions, full) ==
  /\ Len(table) < MaxCheckpoints
  /\ ~ Exists(table, full)
  /\ CanPut(additions)
  /\ PutMessages(additions)
  /\ checkpoints' = Append(table, [parent |-> parent,
                                   added  |-> [i \in DOMAIN additions |-> additions[i].id],
                                   digest |-> full])

EnsureConversation ==
  /\ current = 0
  /\ checkpoints' = Ensured
  /\ current' = EnsuredCurrent
  /\ UNCHANGED <<messages, active, runs, rounds>>

StartsWith(ms, prefix) ==
  Len(prefix) <= Len(ms) /\ SubSeq(ms, 1, Len(prefix)) = prefix

\* import_checkpoint: the history a client sends.  A known history is found by
\* its digest; a new one extends the current checkpoint when it can, else the
\* root.  The current checkpoint does not move.
ImportCheckpoint(ms) ==
  LET below == Ensured[EnsuredCurrent].digest
      extends == StartsWith(ms, below)
  IN  /\ IF Exists(Ensured, ms)
         THEN checkpoints' = Ensured /\ UNCHANGED messages
         ELSE InsertCheckpoint(Ensured,
                IF extends THEN EnsuredCurrent ELSE 1,
                IF extends THEN SubSeq(ms, Len(below) + 1, Len(ms)) ELSE ms,
                ms)
      /\ current' = EnsuredCurrent
      /\ UNCHANGED <<active, runs, rounds>>

\* Mutation: only the head is compared, not the owner.
AtHeadOnly(r) == current # 0 /\ current = runs[r].head

\* require_active_head_tx, and the same conditions of the UPDATE that follows.
ActiveHead(r) == active = r /\ current # 0 /\ current = runs[r].head

\* UPDATE conversations and UPDATE runs to the checkpoint just inserted.
Advance(r) ==
  /\ current' = Len(checkpoints')
  /\ runs' = [runs EXCEPT ![r].head = Len(checkpoints')]
  /\ UNCHANGED active

\* append_checkpoint_with_digest_tx: a child of the caller's head.  The list the
\* code loads from `expected` is Loaded[expected], and LoadedIsDigest says that
\* this is the list its digest was taken of.
AppendCheckpoint(r, additions) ==
  /\ ActiveHead(r)
  /\ InsertCheckpoint(checkpoints, runs[r].head, additions,
                      checkpoints[runs[r].head].digest \o additions)
  /\ Advance(r)

\* Mutation: the check for an existing message is missing.
AppendMessageAgain(r, m) ==
  /\ AppendCheckpoint(r, <<m>>)
  /\ UNCHANGED rounds

\* append_message_once: an id that the caller's history holds is a duplicate
\* or an error, and appends nothing.
AppendMessageOnce(r, m) ==
  /\ current # 0 /\ runs[r].head # 0
  /\ \A i \in DOMAIN checkpoints[runs[r].head].digest :
       checkpoints[runs[r].head].digest[i].id # m.id
  /\ AppendCheckpoint(r, <<m>>)
  /\ UNCHANGED rounds

\* The engine ends a cycle without tool calls: one assistant message, whose id
\* comes from a provider call that has appended nothing yet.
AppendAssistant(r) ==
  LET k == <<r, runs[r].calls>> IN
  /\ runs[r].calls > 0
  /\ messages[FinalId(k)] = "absent"
  /\ rounds[k].status = "none"
  /\ AppendCheckpoint(r, <<Message1(FinalId(k), "text")>>)
  /\ UNCHANGED rounds

\* replace_checkpoint: compaction puts the request context, a summary and the
\* Run's own input below the root.
ReplaceCheckpoint(r, before, after) ==
  LET ms == before \o <<Message1(SummaryId(<<r, runs[r].calls>>), "text")>> \o after IN
  /\ runs[r].calls > 0
  /\ ActiveHead(r)
  /\ InsertCheckpoint(checkpoints, 1, ms, ms)
  /\ Advance(r)
  /\ UNCHANGED rounds

-----------------------------------------------------------------------------
(* Runs. *)

\* Mutation: the Run that is replaced keeps its status.
ClaimLeavesOld(r, base) ==
  /\ runs[r].status = "none"
  /\ base \in DOMAIN checkpoints
  /\ runs' = [runs EXCEPT ![r] = [status |-> "running", head |-> base, calls |-> 0]]
  /\ current' = base
  /\ active' = r
  /\ UNCHANGED <<checkpoints, messages, rounds>>

\* claim_run: takes the conversation over from whoever has it and moves it to
\* the base the Run was prepared from.
ClaimRun(r, base) ==
  /\ runs[r].status = "none"
  /\ base \in DOMAIN checkpoints
  /\ runs' = [x \in Run |->
       CASE x = r -> [status |-> "running", head |-> base, calls |-> 0]
         [] x # r /\ x = active /\ runs[x].status = "running" ->
              [runs[x] EXCEPT !.status = "cancelled"]
         [] OTHER -> runs[x]]
  /\ current' = base
  /\ active' = r
  /\ UNCHANGED <<checkpoints, messages, rounds>>

BeginProviderCall(r) ==
  /\ runs[r].status = "running"
  /\ runs[r].calls < MaxProviderCalls
  /\ runs' = [runs EXCEPT ![r].calls = @ + 1]
  /\ UNCHANGED <<checkpoints, messages, current, active, rounds>>

\* finish_run: only a running row takes the outcome, and the conversation is
\* released only by the Run that has it.
FinishRun(r, outcome) ==
  /\ runs[r].status # "none"
  /\ runs' = IF runs[r].status = "running"
             THEN [runs EXCEPT ![r].status = outcome]
             ELSE runs
  /\ active' = IF active = r THEN NoRun ELSE active
  /\ UNCHANGED <<checkpoints, messages, current, rounds>>

-----------------------------------------------------------------------------
(* Tool rounds. *)

CreateToolRound(r, cs) ==
  LET k == <<r, runs[r].calls>> IN
  /\ cs # {}
  /\ runs[r].status = "running"
  /\ ActiveHead(r)
  /\ rounds[k].status = "none"
  /\ messages[FinalId(k)] = "absent"
  /\ rounds' = [rounds EXCEPT ![k] = [status |-> "pending", calls |-> cs, done |-> <<>>]]
  /\ UNCHANGED <<checkpoints, messages, current, active, runs>>

\* The two messages a completed call contributes.
Pair(k, c) ==
  <<Message1(CallId(k, c), IF rounds[k].done = <<>> THEN "text" ELSE "empty"),
    Message1(ResultId(k, c), "text")>>

\* Mutation: the result is appended before the call it answers.
CommitResultFirst(r, k, c) ==
  LET done == Append(rounds[k].done, c) IN
  /\ k[1] = r
  /\ rounds[k].status = "pending"
  /\ c \in rounds[k].calls \ Range(rounds[k].done)
  /\ AppendCheckpoint(r, <<Pair(k, c)[2], Pair(k, c)[1]>>)
  /\ rounds' = [rounds EXCEPT ![k].done = done,
                              ![k].status = IF Range(done) = rounds[k].calls
                                            THEN "settled" ELSE "pending"]

\* commit_tool_result: the call must be pending in a pending round of the Run;
\* `done` is the calls by completion_seq, and version = next_completion_seq =
\* Len(done).
CommitToolResult(r, k, c) ==
  LET done == Append(rounds[k].done, c) IN
  /\ k[1] = r
  /\ rounds[k].status = "pending"
  /\ c \in rounds[k].calls \ Range(rounds[k].done)
  /\ AppendCheckpoint(r, Pair(k, c))
  /\ rounds' = [rounds EXCEPT ![k].done = done,
                              ![k].status = IF Range(done) = rounds[k].calls
                                            THEN "settled" ELSE "pending"]

-----------------------------------------------------------------------------
Next ==
  \/ EnsureConversation
  \/ \E ms \in History : ImportCheckpoint(ms)
  \/ \E r \in Run :
       \/ \E base \in DOMAIN checkpoints : ClaimRun(r, base)
       \/ BeginProviderCall(r)
       \/ \E outcome \in {"completed", "cancelled", "failed"} : FinishRun(r, outcome)
       \/ \E i \in ExternalId, b \in Body : AppendMessageOnce(r, Message1(i, b))
       \/ AppendAssistant(r)
       \/ \E before, after \in {ms \in History : Len(ms) <= 1} :
            ReplaceCheckpoint(r, before, after)
       \/ \E cs \in SUBSET Call : CreateToolRound(r, cs)
       \/ \E k \in Round, c \in Call : CommitToolResult(r, k, c)

Spec == Init /\ [][Next]_vars

-----------------------------------------------------------------------------
CheckpointType ==
  [parent : Nat, added : Seq(MessageId), digest : Seq(Message)]

(* Every head, of the conversation and of each Run, is a stored checkpoint, *)
(* and the tables hold what their columns may.                             *)
TypeOK ==
  /\ checkpoints \in Seq(CheckpointType)
  /\ messages \in [MessageId -> Content \cup {"absent"}]
  /\ current \in 0 .. Len(checkpoints)
  /\ active \in Run \cup {NoRun}
  /\ runs \in [Run -> [status : {"none", "running", "completed", "cancelled", "failed"},
                       head : 0 .. Len(checkpoints),
                       calls : 0 .. MaxProviderCalls]]
  /\ rounds \in [Round -> [status : {"none", "pending", "settled"},
                           calls : SUBSET Call,
                           done : Seq(Call)]]

(* A conversation has at most one running Run, that Run is the one the      *)
(* conversation names, and both agree on the head: claim_run cancels the    *)
(* Run it replaces, and only a Run that owns the conversation moves it.     *)
OwnerRunsAtHead ==
  /\ active # NoRun => runs[active].status = "running" /\ runs[active].head = current
  /\ \A r \in Run : runs[r].status = "running" => active = r

(* A checkpoint is immutable: reading it back through its lineage and the   *)
(* messages table gives, at any later time, the list it was created with.  *)
LoadedIsDigest == \A c \in DOMAIN checkpoints : Loaded[c] = checkpoints[c].digest

(* No history holds a message twice, however often the message is          *)
(* delivered: append_message_once, the ids of provider calls and rounds,   *)
(* and the refusal of a second result for a call see to it together.       *)
NoMessageTwice ==
  \A c \in DOMAIN checkpoints : \A i, j \in DOMAIN checkpoints[c].digest :
    checkpoints[c].digest[i].id = checkpoints[c].digest[j].id => i = j

(* Providers reject a tool call without its result: in every history each   *)
(* call message of a round is followed at once by the result of that call. *)
CallsAreAnswered ==
  \A c \in DOMAIN checkpoints, k \in Round, x \in Call :
    LET h == checkpoints[c].digest
    IN  /\ \A i \in DOMAIN h : h[i].id = CallId(k, x) =>
             i + 1 \in DOMAIN h /\ h[i + 1].id = ResultId(k, x)
        /\ \A i \in DOMAIN h : h[i].id = ResultId(k, x) =>
             i - 1 \in DOMAIN h /\ h[i - 1].id = CallId(k, x)

(* A round is settled exactly when each of its calls has one committed      *)
(* result, and the model's text is stored with the first of them only.     *)
RoundLedger ==
  \A k \in Round :
    LET q == rounds[k] IN
    /\ IsInjective(q.done) /\ Range(q.done) \subseteq q.calls
    /\ q.status = "settled" <=> q.calls # {} /\ Range(q.done) = q.calls
    /\ \A c \in Call : messages[CallId(k, c)] # "absent" <=> c \in Range(q.done)
    /\ \A i \in DOMAIN q.done : messages[CallId(k, q.done[i])] = "text" <=> i = 1

(* A Run that was replaced or has ended has no further effect: its row is  *)
(* final, so neither its head nor, by OwnerRunsAtHead, the conversation    *)
(* moves on its behalf, and a late finish_run does not rewrite an outcome. *)
EndedRunIsFinal ==
  [][\A r \in Run : runs[r].status \notin {"none", "running"} => runs'[r] = runs[r]]_vars
=============================================================================
