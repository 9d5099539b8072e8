# Verification of the My Cursor server

My Cursor is a local backend for the Cursor editor. The editor talks to it over
two HTTP channels that share a `request_id`: BidiAppend requests carry client
messages upstream, one RunSSE response carries frames downstream. Behind them an
agent loop calls a language model, hands tool calls to the editor, and commits
the conversation to SQLite. Around it stand providers and plugins, an external
API, settings, the takeover of the editor and a desktop application that updates
itself.
This directory holds TLA+ models of that machinery, the TLC configurations that
check them, and TLAPS proofs about them.

Paths below are relative to `src/server/src` unless they begin with `src/`.

## 1. The system

`bidi::append` admits a message and queues it for the actor of its transport; the
actor puts it through the inbox and either starts a *generation* (a Run with its
preparation), passes it to the session of the running one, or forwards a tool
answer. A generation asks for the context it lacks, builds its history from the
state the client sent, waits until the conversation is idle, claims it in the
store, runs the engine and the session side by side, and reports its end to the
actor. Engine and session exchange events one way, tool results the other, and
*barriers*: the engine waits for the session to have published a checkpoint before
it goes on. Messages from elsewhere (background completions, injections) go
through the conversation registry to the command channel of the Run, or are kept
for the next. The model is called through an adapter for the provider's API or
through a plugin in a process of its own; each call leaves a record.

`PROJECT.json` lists every part with its sources, what of it is modelled, and the
hazards that bear most on the code, each with the properties that would catch it.

## 2. Modules

Definitions that begin with "Mutation:" in their comment are deliberately wrong
variants of a definition that follows; no specification uses them, they show which
fault each property catches.

### The path of a request

| Module | Models | State and steps |
|---|---|---|
| `OrderedInbox` | `cursor/transport/inbox.rs` | `next` and `pending` are the fields of the struct; `handled` records what `push` returned, `first` the first body that came for each number |
| `RequestRoutes` | `cursor/transport/registry.rs`, `api/cursor/handlers.rs` | the two tables for one request id, watchers, lease releases and expiry timers as sets of tasks; one step per lock |
| `Transport` | lifecycle, actor, generations, hub and streams | an append is admitted, queued and released in three steps, since the close may fall between any two |
| `ConversationRegistry` | `cursor/conversation/registry.rs`, `pending.rs` | the table of the active Run and the queue of kept messages are two locks; starters and couriers take one at a time |
| `ConversationMailbox` | the abstract promise of that queue | the place of each message: on its way, kept, taken, stored, dropped |
| `ContextSync` | `cursor/services/context_sync.rs`, `cursor/compile/context.rs` | one slot shared by the Runs of a stream, digests and cached parts |
| `RunDelivery` | `run/handle.rs`, `run/engine.rs`, `cursor/conversation/output.rs` | `engine.at` names the await at which the engine stands; what a task does between two awaits is one action |
| `ToolRuntime` | `cursor/tools/` | session and actor are two tasks that meet in the tables of execs, interactions and edits |
| `CheckpointSync` | `cursor/checkpoint/`, `cursor/services/blob_sync.rs` | jobs, Blobs named by content, acknowledgements that are wrong, late or lost |
| `PromptHistory` | `cursor/compile/`, `cursor/checkpoint/`, `store/checkpoints.rs` | turn after turn: what the client sends, what is compiled from it (plans included), what the model is shown |
| `ConversationStore` | `store/` | one variable per table or pair of tables; one action per transaction; an `Err` rolls back and is no step |
| `TraceWorker` | `cursor/services/observability/` | a bounded queue with one worker |
| `ResultGates` | `cursor/tools/tool_call_result/gate.rs` | shared budgets, and in its second part the loops that fit a notice to its text |
| `WebTools` | `search/` | the fusion of the engines' lists, redirects of a fetch, the engine that is loaded once |

### Models and providers

| Module | Models | State and steps |
|---|---|---|
| `ModelStream` | three adapters, `run/model_cycle.rs`, retries | server events, the adapter's fields, the cycle's fields; its second part runs the adapters of the plugin SDK beside the host's on the same events |
| `CallRecorder` | `provider/recorder.rs`, `store/llm_calls.rs` | one step per store access, because the stream can be dropped at each |
| `ContextWindow` | `run/compaction.rs`, `model/token_count.rs`, the engine's loop | messages as kind and size, the usage anchor, compactions; its second part is the split of the tokens in `usage.rs` |
| `RequestTranslation` | the ways into and out of the common history, `model/projection.rs` included | a conversation as atoms named by turn and position |
| `ExternalStream`, `NativeForward` | `api/byok/` | answers written in another protocol; replies handed through with an observer |
| `AntigravityCall`, `AccountQuota` | `src/server/plugins/build-in/` | a call with its token and endpoints; quotas and rests of accounts |
| `ModelCatalog` | `store/models.rs`, `model/configuration.rs`, the picker | rows, the copy that Cursor holds, its variants, and the specification of a Run |
| `ModelProbe` | the models page in `control/service.rs`: connectivity tests, discovery, the list of calls | a test may be cancelled before it arrives; pages of an endpoint's listing |

### Platform

| Module | Models | State and steps |
|---|---|---|
| `PluginWorker` | `plugin/worker.rs`, `plugin/sdk/worker.ts` | calls over one process that may die; in its second part, lines over a bounded channel |
| `PluginState`, `PluginOAuth` | `plugin/state.rs`, `registry.rs`, `builtin.rs`, `oauth_callback.rs` | read and write of a file as two steps; the embedded plugins written file by file; sign-in sessions and cards |
| `RuntimeInstall` | `plugin/runtime.rs`, `installation.rs` | files on disk, crashes, cancelled and repeated requests |
| `KnowledgeRules` | `cursor/services/knowledge/` | files, journal, upstream |
| `CommitMessage` | `cursor/services/commit_message.rs` | budgets, a deadline, cleaning |
| `CursorHarness` | `local_app/` | settings, proxy, CA files, handlers that overlap |
| `ServiceSettings` | `store/settings.rs`, `network.rs`, `control/settings.rs` | rows, their handlers, the remembered port and the cached outbound clients, interleaved at every await |
| `StoreUpgrade` | `store/migrations.rs`, `store/legacy_config.rs` | the recorded scripts, processes that open the store at once, the imported file |
| `PortableUpdate` | `src/apps/desktop/src-tauri/src/update/` | three executables, two processes, markers |

In `ConversationStore` a Run calls with the checkpoint it was last given; any Run
that was ever claimed may call anything at any time, which covers Runs that were
replaced without noticing and processes that stopped. Digests, there and in the
other modules, are the values they were computed from: hashes are taken to be
free of collisions. In `RunDelivery` store calls succeed; what the store refuses
is the other module's subject. In `PromptHistory` the client keeps the last state
it was sent and rewinds it when it sends an input again; whether it may resend an
input with a newer state cannot be seen from the code. Its instance has no images.

## 3. Runs

Components that share no state are checked together in one *suite*. A suite
module extends the component whose theorems section 5 lists and declares, for the
others, a variable `part`, fixed in the initial state, and slots `x1, x2, ...`,
which the component of that part uses as its variables through `INSTANCE ... WITH`;
the variables of all other parts stay as they began. Each component is thus
explored completely and on its own. A property of a suite is one guarantee: it
reads `part = "..." =>` and names the invariants of the component that make it up,
each of which its module states and explains; where a guarantee also says what a
step may never do, it is a temporal formula with the action part under
`[][...]_suiteVars`.

| Run | Components | What it shows |
|---|---|---|
| `agent` | `ConversationRegistry` with `ConversationMailbox`, `OrderedInbox`, `RequestRoutes`, `CheckpointSync`, `ResultGates` twice, `WebTools`, `ModelCatalog` | appends in any order and repetition are handled once and in order; no delivery between two Runs is lost; a route stays while it is leased and has a timer otherwise; a published checkpoint names only what the client holds; results keep their limits and say what was left out; a search fuses what the engines gave and a fetch stays in its bounds; a Run gets the model that was chosen |
| `store` | `ConversationStore` twice, `PromptHistory` | two Runs that replace each other at any point leave one owner at the head and immutable histories; a round of two calls is answered; the prompt of a turn continues the prompt before it |
| `delivery` | `RunDelivery`, `ToolRuntime`, `ContextSync` | a user message and a background completion at any moment of a Run; edits of one file and late answers; a context that changes while it is loaded |
| `transport` | `Transport` | two appends of any kind, two streams and a shutdown, in the module of `liveness` |
| `provider` | `RuntimeInstall`, `ModelStream` twice, `CallRecorder`, `TraceWorker`, `ContextWindow` twice, `RequestTranslation`, `PluginWorker` twice | what conforming servers send is accepted whole, cut streams are no success, records agree with replies, compaction terminates and keeps a history the provider accepts; the plugin process and its runtime survive concurrent requests, crashes and failing disks |
| `platform` | `PortableUpdate`, `CommitMessage`, `CursorHarness`, `ServiceSettings` twice, `KnowledgeRules`, `StoreUpgrade`, `ExternalStream`, `NativeForward`, `ModelProbe`, `AntigravityCall`, `AccountQuota`, `PluginState` twice, `PluginOAuth` | crashes, failing writes and overlapping requests leave each of them in a state it can go on from; what was stored is kept through upgrades; external clients and the models page are told what happened |
| `liveness` | `Transport`, `RunDelivery`, `RequestRoutes`, `CallRecorder` | streams, deliveries, rounds, handlers and calls end |
| `barrier` | `RunDelivery` | `SettledHasBarrier` fails |
| `reused_id` | `RunDelivery` | `RoundEnds` fails |
| `user_while_draining` | `Transport` | `ActorClosesOutput` fails |

**Bounds.** The instances are small but contain the cases: two Runs are a replaced
one and its successor; a round of two calls has a first and a last result, and one
of one call shows the next round; two deliveries are one that is held while
another arrives; two appends to a transport are a request and what races with it, and give up
to two generations; numbers 0 to 4 let appends wait behind two gaps; two streams are an old one and its reconnection; three requests to
install are one at work, one that comes meanwhile and one after a crash. Names that
begin with `Max` bound counters that the code does not bound (checkpoints, rounds,
faults, restarts); limits in bytes, tokens and seconds are scaled down so that the
cases below, at and above them are all reached. `MaxFaults` bounds crashes and
failing writes of one behaviour, at one to three per instance.

`CHECK_DEADLOCK FALSE`: every suite holds components that come to rest when the
calls have been made, the Run has ended or a bound is reached. Symmetry is used in
`store` only, over constants that are interchangeable in each component; that run
checks no liveness (`EndedRunIsFinal` is an action property).

**Fairness** is stated in `liveness`, for each part on its own. `RunDelivery`: the
engine, the session and each delivery task are tokio tasks that are polled when
they can go on, and the client's tools come back (`ToolEnds`); nobody is obliged to
send a message, to cancel, or to fail. `Transport`: calls that began return,
spawned tasks run, the actor's loop and its timer run, and a generation comes to an
end. The last is strong fairness on `Release`, since a Run may go back from
finalizing to running, but only for another message, of which there are finitely
many. `RequestRoutes`: a handler that can go on does, its timeout included, and
spawned tasks run. `CallRecorder`: a stream is dropped at the latest with its Run,
and the task that then marks the call cancelled runs. Nobody has to call, attach,
leave or shut down.

## 4. Disagreements

Three runs each show behaviour that a line of the repository denies.

1. `barrier`. While it handles one committed result the session reads the round's
   *current* status (`cursor/conversation/output.rs:648`). After a break has cut a
   round of two calls, the first of the two commits already finds the round
   settled, without a barrier, and the Run fails. `cursor.md:463` says that a
   break cancels the cycle and not the Run.
2. `reused_id`. `interrupted_tool_calls` is never cleared, so a call id that was
   interrupted once and is used again in a later round has its completion dropped
   (`output.rs:798`). `server/tests/tool_round.rs:1260` says that a reused id must
   not wedge the run.
3. `user_while_draining`. A user message starts a generation without reopening a
   draining transport as a request does (`runtime.rs:435`); the actor then leaves
   with the hub open, and its streams do not end.

The modules state further properties that no run checks, because TLC refutes them
on the instances of the runs above. They are kept beside the weaker form that
holds, and the hazards of `PROJECT.json` say where each one bites.

| Statement | Where the code departs |
|---|---|
| `RoundEnds` of `RunDelivery`, when an injection is refused while the Run finalizes and the engine resumes | the injection stays in `pending_injections`, and each further round is detached with nothing to settle it (`cursor/conversation/output.rs:450`) |
| `NotDiscarded` of `RunDelivery` | an injection whose session has ended is answered by an error that nobody reads (`cursor/conversation/runtime.rs:470`); `cursor.md:378` has it start the next Run |
| `LateResultsIgnored` of `ToolRuntime` | the result of a tool that was interrupted between two locks fails the session (`cursor/tools/codec/response.rs:264`) |
| `CancelReachesNetwork` of `PluginWorker` | a host call that looks its token up after the release gets a fresh one (`plugin/worker.rs:517`) |
| `PatchesAreAtomic` of `PluginState` | two operations read the same file and each writes all of it (`plugin/state.rs:284`) |
| `OneActive` of `PluginOAuth` | two sign-ins that begin together both enter their session (`plugin/registry.rs:328`) |
| `InstalledIsEmbedded` of `PluginState` | a plugin whose synchronisation was cut short after its manifest is taken for current (`plugin/builtin.rs:211`) |
| `RemovalsKept` of `KnowledgeRules` | the replay gives the rule another id, and the removal then removes nothing (`cursor/services/knowledge/mod.rs:323`) |
| `OffMeansCleared` of `CursorHarness` | an enable between the two steps of disable writes the settings again (`local_app/mod.rs:226`) |
| `PortIsHost` of `ModelStream` | tool calls that end with the reason stop, and error events, are read differently (`plugin/sdk/protocol/openai_chat.ts:181`) |
| `ReasonAgrees` of `AntigravityCall` | a reply with a tool call may be reported as stop (`antigravity-auth/provider.ts:552`) |
| `EveryCallAnswered` of `RequestTranslation` | calls of one turn that come as items of their own are written apart (`api/byok/protocol.rs:293`) |
| `GrepNoticeIsTrue` of `ResultGates` | a blank match ends its file as if the budget were spent (`cursor/tools/tool_call_result/gate.rs:257`) |
| `AnchorCountsPersisted` of `ContextWindow` | the anchor may come from a call whose request held a transient message (`store/llm_calls.rs:280`) |

## 5. Proofs

TLC checks the instances above; the theorems hold for every value of the
constants that satisfies the assumptions named. `ConversationStoreProofs` and
`TransportProofs` are about the module they are named after;
`ConversationRegistryProofs` is about the registry, its mailbox and the inbox,
`InstallationProofs` about `RuntimeInstall` and `PortableUpdate`. The proof about
`RunDelivery` is in four modules: `RunExchangeInvariant` has the two invariants
and the engine's steps, `RunSessionInvariant` the session's, `RunDeliveryInvariant`
the steps of the first invariant, `RunDeliveryProofs` the tools, the tasks and the
theorems.

| Theorem | States | Assumes |
|---|---|---|
| `AppendsComeInOrder` | `InboxTypeOK` and `HandledInOrder` of the inbox | `MaxSeqAssumption` |
| `AppendsAreKept` | `NothingStuckOrLost` of the inbox | the same |
| `FirstCopyStays` | `FirstCopyWins` of the inbox | the same |
| `OwnershipHolds` | `TypeOK` and `OwnerRunsAtHead` of the store | `NoRunAssumption`, `BoundsAssumption` |
| `EndedRunsStayFinal` | `EndedRunIsFinal` of the store | the same |
| `HistoriesAreKept` | `LoadedIsDigest` of the store | the same, `BodyAssumption`, `IdsAssumption` |
| `MessagesOnce` | `NoMessageTwice` of the store | the same |
| `RoundsAreSettled` | `CallsAreAnswered` and `RoundLedger` of the store | the same |
| `AppendsAreHandled` | `TypeOK` and `AdmittedIsHandled` of the transport | `TransportAssumption` (finitely many streams) |
| `SealedHubIsUnread` | `SealedHasNoReader` of the transport | the same |
| `FramesAreTerminal` | `TerminalFrames` of the transport | the same |
| `RunTypes` | `TypeOK` of a Run and its session | `DeliveryAssumption` (finitely many deliveries, finite sets of calls) |
| `AcceptedIsHeld` | `SentIsHeld` of a Run | the same |
| `EndIsDrained` | `ClosedIsDrained` of a Run | the same |
| `ResultsAreAwaited` | `NoStrayResult` of a Run | the same, and `OwnMessages` |
| `CommitsFindTheirRound` | `CommitFindsRound` of a Run | the same |
| `RunsTakeTurns` | `RunningIsCurrent` of the registry | `None` is no starter |
| `ReleaseWillCome` | `CurrentIsReleasedLater` and `NoMissedRelease` | the same |
| `DeliveriesArePlaced` | `DeliveredIsPlaced` | the same, and no starter is a courier |
| `RegistryIsMailbox` | `ImplementsMailbox`: the registry implements `ConversationMailbox` | `None` is no starter |
| `InstalledIsValidated` | `CompleteIsValidated` of the installation | none |
| `InstallerIsAlone` | `OneInstaller` | none |
| `FailuresSettle` | `FailureIsClean` and `RestsSettled` | none |
| `InstallHolds` | `InstallIsSafe`, the four together | none |
| `CopySurvives` | `WorkingCopyKept` of the update | none |
| `VersionsTakeTurns` | `OneAppAlive` | none |
| `UpdateComesBack` | `AppComesBack` | none |
| `UpdateHolds` | `UpdateIsSafe`, the three together | none |

*Inbox.* The conjunction of the four properties is inductive (`Invariance`). The work is in
`FreshPush`: the loop that drains from `next` to the first gap returns a run of
consecutive numbers, and what it leaves lies beyond the gap.

*Store.* `TypeOK` and `OwnerRunsAtHead` become inductive with `Unused`: before the
first use there is neither a checkpoint nor an owner. `AdvanceIInv` serves every
append: moving the head of the conversation and that of its owner together keeps
them equal. That an ended Run is final follows because every write asks
`require_active_head_tx`, and by the invariant an ended Run is not the owner.
What the checkpoints hold is a second invariant, `StoreInv`, over the first. `Sound`
ties each row to the row below it, which is older: its digest is the one below with
its own messages added, and each of these is in the messages table with the payload
it had, where `put_message_tx` leaves it alone (`PutFacts`, `TiedKept`). `Loaded`
walks the lineage recursively. That it gives the digest is shown by an induction
over the row numbers: a set of numbers has a least element (`LeastElement`, from the
library's well-founded relations), so if the walk differed anywhere there would be
an oldest row at which it does, and its parent is older (`LoadedFacts`). `Distinct`
and `Answered` say that no history repeats an id and that a call is followed by its
result; an append keeps them when its ids are new (`ConcatFacts`, `InsertGood`). That
they are new is different for each operation: `append_message_once` has looked, the
ids of an answer, a summary or a result belong to one cycle, and for a result it is
the ledger that says neither message is stored. So the ledger is part of the
invariant: `RowSound` relates the row of each round to the messages table, and
`RowCommitted` is what `commit_tool_result` makes of it. `IdsAssumption` says that
ids from outside are none of those the store builds (they are UUIDs and hashes),
`BodyAssumption` that no payload is the mark for a missing row.

*Transport.* `AdmittedIsHandled` says nothing about an actor that is still up, so
the invariant has to say where an append is meanwhile. `Accounted` does: a call
that was admitted and has not sent holds an admission, and one that has sent is in
the queue. `QueueGrows` and `QueueShrinks` carry that through every send and
receive. The drain looks at both, and finds neither, in one step of the actor.
The last conjunct, that a drained transport is closed, keeps later calls out.
For the hub, `http_active` is the number of acquired guards, only an open stream
holds one (so a stream acquires once), and a sealed hub has none; `ReaderKeeps`
does the counting.
The terminal frame needs a second invariant, `Ends`, over the first. A frame is
written for the generation in `pending`, so every place where the end of a
generation is noted must be about one that is over: the `RunFinished` commands in
the queue (`Reports`), the kept finish and the wait for the next action
(`Current`). Being over is stable (`OverStays`), and `current` is always the newest
generation; hence the comparison in `finish_pending` is with the newest one, and a
`RunFinished` of a replaced generation, which may be queued behind the request that
replaced it, cannot close the hub. `Released` and `ClosedLast` carry the finish
itself from the task to the frame, so that no stream ends at a frame that is not
there.

*Run.* `SentIsHeld` counts an accepted message in the command channel and in the
engine's hands. The engine may leave the loop that appends a batch at every item,
so the invariant carries where each accepted message is (`Placed`), which phase of
the handle goes with which await of the engine (`Phases`), and that the requests in
the session's inbox are exactly the deliveries that wait there (`Queued`). The
message that `AppendNext` answers is then in no other place. `ClosedIsDrained`
follows: under the phase lock the end of a Run and the last look into the channel
are one step, and no message enters the channel once the phase is not `Running`.
`DrainCollects`, that draining the channel finds every batch in it once, is about
finite sets of positions and is proved apart.
The two theorems about results need what is under way in all four channels at once,
`JInv`. A result in the command channel is one the engine's round waits for, and no
break is in front of it (`Awaited`); what the session forwarded is on its way to the
engine or back (`Forwarded`); what it will forward is what the round still lacks, in
one place (`InFlight`); while a break is under way its message is pending at the
session, so that nothing is forwarded behind it (`Pending`, `Own`); a round that
goes on lacks a result (`Rounds`); each event finds the session in the round it is
about (`Order`), and where the engine is in no round and waits for no barrier the
session has seen everything (`Sync`). `OwnMessages`, the hypothesis of both, is that
a message is delivered by one attempt unless it is an injection: event ids are
unique, and `forward_injection` looks for the ids it has seen, which the other paths
do not. The instances of the runs satisfy it.

*Conversation registry.* The three invariants become inductive with `PhaseFits`
(the phase of a Run agrees with the step of the generation that started it) and
`CargoFits` (only a generation between `take_pending` and its claim holds
messages). The refinement maps each message to its place: stored, else in the
queue, else held by some generation, else outside. `PlaceIs` reads that map case by
case. A refused delivery is a `Keep`, unless the message is there already;
`take_pending` is a `Hand` of everything kept with the starter's own messages, for
which `CargoFits` is needed, since the take would otherwise overwrite messages; a
claim and an answer are a `Store`; the end of a generation is a `Drop` of what no
other generation holds. All other steps stutter.

*Installation.* The files, the flag and the status move in different steps, so the
invariant ties each to the step of the one request that is at work: `FlagHeld` (who
holds the flag), `MarkerFollows` (what is on the disk at each step), `Cleaning` and
`Reports`.

*Update.* `Alone` ties the two processes together (the replacement swaps only when
the application is gone, and has a child only while it waits for it), `CopyPlaced`
follows the copy that has run through every rename, and `NewPlaced` says what the
new version's files and marker are worth at each step. `WorkingCopyKept` alone is
not inductive: the rename that places the new version would overwrite the only copy
if the backup had not been made in the step before.

Model-checked only: the properties of the modules without a proof module. Most of
them are about sequences that loops cut, split and join, with `RECURSIVE` operators
or folds, for which the proof system has no induction principle that its backends
can instantiate; where the recursion goes along numbers, as in the store, the least
element serves instead. And all liveness properties, since the proof system handles
neither fairness nor `ENABLED`.

## 6. Not modelled

Prompt texts, framing, HTTP itself, certificates and processes; overview queries;
the code index, whose ranking works on floating-point scores; the SQL of the
migrations; the user interface. In `RunDelivery`,
Runs whose action is Compact and the resumption of an unfinished round are left
out; in `Transport`, the content of frames other than the terminal one, and the
order of appends by number, which is `OrderedInbox`. `PROJECT.json` lists every
component with its state, every modelled definition with its lines, and the
hazards, including those that no property covers.

Four things the modules show and no property claims. A settings handler that is
dropped between writing the proxy row and dropping the cached clients leaves the old
clients in use (`SavedProxyIsUsed` counts only the saves whose handler came to its end). Two
handlers that change different ports of the same row can lose one of the changes.
With an outbound proxy it is the proxy that resolves the address of a fetch, so
`FetchIsBounded` is about direct connections. A plan that is approved again brings
the context it was first approved with.
