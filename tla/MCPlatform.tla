----------------------------- MODULE MCPlatform -----------------------------
(***************************************************************************)
(* The application around the agent, each component explored from its own  *)
(* initial states: the update of the application, the settings and what is *)
(* built from them, the takeover of the Cursor application, the rules, the *)
(* upgrade of the store, commit messages, the two ways an external client  *)
(* reaches a model, the page of the models, and the plugins with their     *)
(* records and their accounts.                                             *)
(***************************************************************************)
EXTENDS PortableUpdate, Sequences

VARIABLES part,  \* the component explored
          x1, x2, x3, x4, x5, x6, x7, x8, x9, x10, x11, x12, x13, x14  \* its variables

(* What an answer of the quota service says about the reset of a window.     *)
Resets == {[form |-> "none", value |-> 0], [form |-> "at", value |-> 2],
           [form |-> "at", value |-> 4], [form |-> "after", value |-> 0]}
KindOf == [import |-> "import", invoke |-> "invoke", refresh |-> "refresh",
           delete |-> "delete", sync |-> "sync", switch |-> "switch"]

(* The files of a plugin in two versions: one is left out, one is new.       *)
FilesOf == << <<"plugin.json", "main.ts", "old.ts">>, <<"plugin.json", "main.ts", "new.ts">> >>

(* Requests for a commit message, and completions with fences and labels.    *)
Completions ==
    UNION {[1..n -> {<<>>, <<"word">>, <<"label", "word">>, <<"label", "label", "word">>, <<"fence">>}] :
           n \in 0..3}
Diffs == UNION {[1..n -> {4, 9}] : n \in 0..3}
Asks ==
    [direct : {FALSE}, known : {TRUE}, diffs : {<<3>>}, previous : {<<>>}, timeout : {0, 1, 3}]
    \cup [direct : BOOLEAN, known : BOOLEAN, diffs : {<<0>>}, previous : {<<>>}, timeout : {0}]
    \cup [direct : {FALSE}, known : {TRUE}, diffs : Diffs, previous : {<<0, 2, 2, 2>>}, timeout : {2}]

(* Models of the file of v0.0.49, with one that is stored already.           *)
Adapter(type, path, endpoint, name) ==
    [type |-> type, url |-> TRUE, path |-> path, endpoint |-> endpoint, extras |-> "none", name |-> name]
Known == Adapter("openai", "responses", "", "m")
ModelFiles ==
    {[adapters |-> s] :
        s \in {<<>>, <<Known, Known, Adapter("openai", "chat", "/v1/responses", "n")>>,
               <<Adapter("openai", "base", "/custom", "m"), Adapter("anthropic", "messages", "", "a")>>,
               <<Adapter("openai", "base", "", "n"), Adapter("openai", "version", "", "n")>>,
               <<Known, Adapter("openai", "base", "/other", "n")>>, <<Adapter("gemini", "base", "", "n")>>}}

(* What the settings page sends.                                             *)
Proxy(custom, address, auth, password) ==
    [key |-> "proxy",
     value |-> [custom |-> custom, address |-> address, auth |-> auth, password |-> password]]
PageInputs ==
    <<Proxy(FALSE, "", TRUE, "p"), Proxy(TRUE, "words", FALSE, ""), Proxy(TRUE, "local", FALSE, "p"),
     Proxy(TRUE, "socks", TRUE, ""),
     [key |-> "external", value |-> [enabled |-> TRUE, key |-> "blank"]],
     [key |-> "tab", value |-> [mode |-> "custom", address |-> "query"]],
     [key |-> "tab", value |-> [mode |-> "custom", address |-> "http"]],
     [key |-> "ports", value |-> [proxy |-> 2, service |-> 2]], [key |-> "plain", value |-> "chosen"]>>

(* What endpoints list: one page, two pages, and a page that does not say    *)
(* where the next one begins.                                                *)
Page(ids, last) == [ids |-> ids, last |-> last, ok |-> TRUE]
Listings ==
    {<<Page({1}, TRUE)>>, <<Page({1}, TRUE), Page({2}, TRUE)>>, <<Page({3}, FALSE), Page({4}, TRUE)>>}

-----------------------------------------------------------------------------
Commit == INSTANCE CommitMessage WITH
    Asks <- Asks, Completions <- Completions, TotalLimit <- 12, SingleLimit <- 6,
    PreviousLimit <- 2, Notice <- 1, Margin <- 1, Generation <- 3,
    ask <- x1, at <- x2, prompt <- x3, now <- x4, reply <- x5, text <- x6,
    finished <- x7, message <- x8

Harness == INSTANCE CursorHarness WITH
    Handlers <- {"a", "b"}, MaxCalls <- 5, MaxFaults <- 1,
    process <- x1, stored <- x2, proxy <- x3, lock <- x4, settings <- x5, at <- x6,
    fresh <- x7, ca <- x8, caLock <- x9, last <- x10, since <- x11, cut <- x12,
    calls <- x13, faults <- x14

Rules == INSTANCE KnowledgeRules WITH
    MaxRules <- 2, MaxRequests <- 4, MaxFaults <- 1,
    files <- x1, titled <- x2, journal <- x3, upstream <- x4, lastId <- x5,
    request <- x6, todo <- x7, told <- x8, doubt <- x9, renamed <- x10,
    served <- x11, faults <- x12

External == INSTANCE ExternalStream WITH
    MaxTools <- 2, MaxDeltas <- 2, TextFirst <- TRUE,
    protocol <- x1, streaming <- x2, source <- x3, output <- x4, flags <- x5,
    wire <- x6, at <- x7

Native == INSTANCE NativeForward WITH
    MaxChunks <- 4, Capacity <- 2,
    protocol <- x1, streaming <- x2, at <- x3, read <- x4, passed <- x5,
    channel <- x6, observer <- x7, summary <- x8, row <- x9

Probe == INSTANCE ModelProbe WITH
    Tests <- {1, 2}, MaxEvents <- 3,
    Bases <- {"models", "version", "endpoint", "ENDPOINT", "root", "other"},
    Listings <- Listings, Times <- 1 .. 3, Limits <- {0, 1, 9}, MaxCalls <- 2,
    task <- x1, tests <- x2, cancelled <- x3, asked <- x4, test <- x5,
    search <- x6, records <- x7, list <- x8

Antigravity == INSTANCE AntigravityCall WITH
    Endpoints <- 3, MaxParts <- 3, MaxTokens <- 3, MaxCalls <- 2,
    stored <- x1, issued <- x2, call <- x3, reply <- x4, out <- x5, calls <- x6

Quota == INSTANCE AccountQuota WITH
    FiveHours <- 3, OneHour <- 2, Minute <- 1, FiveSeconds <- 1, Resets <- Resets,
    MaxTime <- 4, MaxCalls <- 2, Cards <- {1},
    plugin <- x1, now <- x2, account <- x3, invoke <- x4, refresh <- x5,
    redeem <- x6, left <- x7, calls <- x8

Resources == INSTANCE PluginState WITH
    Handlers <- {"import", "invoke", "delete", "switch"}, KindOf <- KindOf,
    Drafts <- {<<"k1", "k2">>, <<"k2", "k2">>}, Models <- {"m", "n"}, MaxIds <- 5,
    MaxWrites <- 3, Plugins <- {}, FilesOf <- {}, Versions <- {}, MaxStarts <- {},
    MaxFaults <- {},
    records <- x1, models <- x2, handlers <- x3, nextId <- x4, writes <- x5,
    told <- x6, overlapped <- x7, version <- 0, disk <- 0, todo <- 0, entries <- 0,
    starts <- 0, faults <- 0, torn <- 0

OAuth == INSTANCE PluginOAuth WITH
    Cards <- {1, 2}, Flows <- {"device", "code"}, Lifetime <- 2, MaxTime <- 2,
    MaxSessions <- 2,
    flow <- x1, now <- x2, sessions <- x3, lastId <- x4, cards <- x5, polls <- x6,
    sender <- x7, sent <- x8, page <- x9, stored <- x10, granted <- x11,
    dismissed <- x12

Builtin == INSTANCE PluginState WITH
    Plugins <- <<"codex-auth", "grok-auth">>, FilesOf <- FilesOf,
    Versions <- {1, 2}, MaxStarts <- 4, MaxFaults <- 2, Handlers <- {},
    KindOf <- {}, Drafts <- {}, Models <- {}, MaxIds <- {}, MaxWrites <- {},
    version <- x1, disk <- x2, todo <- x3, entries <- x4, starts <- x5,
    faults <- x6, torn <- x7, records <- 0, models <- 0, handlers <- 0,
    nextId <- 0, writes <- 0, told <- 0, overlapped <- 0

Upgrade == INSTANCE StoreUpgrade WITH
    Processes <- {"p", "q"}, MaxVersion <- 3, Changed <- 2, MaxStarts <- 3,
    ModelFiles <- ModelFiles, Stored <- << <<"responses">>, "m", "/v1/responses">>,
    MaxImports <- 2,
    task <- x1, history <- x2, runs <- x3, process <- x4, starts <- x5, file <- x6,
    models <- x7, import <- x8, created <- x9, deleted <- x10

Settings == INSTANCE ServiceSettings WITH
    Requests <- {"r", "s"}, Inputs <- PageInputs, Users <- {}, Kinds <- {},
    Timeouts <- {}, Ports <- {1}, LocalPorts <- {2}, Broken <- {"ports", "proxy"},
    MaxProxies <- 1,
    rows <- x1, request <- x2, harness <- x3, service <- x4, lock <- x5,
    cache <- x6, user <- x7, settled <- x8

Clients == INSTANCE ServiceSettings WITH
    Requests <- {"r", "s"}, Inputs <- <<Proxy(FALSE, "", FALSE, "")>>,
    Users <- {"u", "v"}, Kinds <- {"default"}, Timeouts <- {1, 2}, Ports <- {1},
    LocalPorts <- {}, Broken <- {}, MaxProxies <- 2,
    rows <- x1, request <- x2, harness <- x3, service <- x4, lock <- x5,
    cache <- x6, user <- x7, settled <- x8

-----------------------------------------------------------------------------
(* The variables a component leaves over. *)
Rest12 == x13 = 0 /\ x14 = 0
Rest10 == x11 = 0 /\ x12 = 0 /\ Rest12
Rest9 == x10 = 0 /\ Rest10
Rest8 == x9 = 0 /\ Rest9
Rest7 == x8 = 0 /\ Rest8
Rest6 == x7 = 0 /\ Rest7
Rest0 == x1 = 0 /\ x2 = 0 /\ x3 = 0 /\ x4 = 0 /\ x5 = 0 /\ x6 = 0 /\ Rest6

SuiteInit ==
    /\ Init
    /\ \/ part = "update" /\ Rest0
       \/ part = "commit" /\ Commit!Init /\ Rest8
       \/ part = "harness" /\ Harness!Init
       \/ part = "rules" /\ Rules!Init /\ Rest12
       \/ part = "external" /\ External!Init /\ Rest7
       \/ part = "native" /\ Native!Init /\ Rest9
       \/ part = "probe" /\ Probe!Init /\ Rest8
       \/ part = "antigravity" /\ Antigravity!Init /\ Rest6
       \/ part = "quota" /\ Quota!Init /\ Rest8
       \/ part = "resources" /\ Resources!Init /\ Rest7
       \/ part = "oauth" /\ OAuth!Init /\ Rest12
       \/ part = "builtin" /\ Builtin!BuiltinInit /\ Rest7
       \/ part = "upgrade" /\ Upgrade!Init /\ Rest10
       \/ part = "settings" /\ Settings!Init /\ Rest8
       \/ part = "clients" /\ Clients!Init /\ Rest8

CommitStep ==
    /\ part = "commit" /\ Commit!Next
    /\ UNCHANGED <<part, updateVars, x9, x10, x11, x12, x13, x14>>
HarnessStep == part = "harness" /\ Harness!Next /\ UNCHANGED <<part, updateVars>>
RulesStep == part = "rules" /\ Rules!Next /\ UNCHANGED <<part, updateVars, x13, x14>>
ExternalStep ==
    /\ part = "external" /\ External!Next
    /\ UNCHANGED <<part, updateVars, x8, x9, x10, x11, x12, x13, x14>>
NativeStep ==
    /\ part = "native" /\ Native!Next
    /\ UNCHANGED <<part, updateVars, x10, x11, x12, x13, x14>>
ProbeStep ==
    /\ part = "probe" /\ Probe!Next
    /\ UNCHANGED <<part, updateVars, x9, x10, x11, x12, x13, x14>>
AntigravityStep ==
    /\ part = "antigravity" /\ Antigravity!Next
    /\ UNCHANGED <<part, updateVars, x7, x8, x9, x10, x11, x12, x13, x14>>
QuotaStep ==
    /\ part = "quota" /\ Quota!Next
    /\ UNCHANGED <<part, updateVars, x9, x10, x11, x12, x13, x14>>
ResourcesStep ==
    /\ part = "resources" /\ Resources!Next
    /\ UNCHANGED <<part, updateVars, x8, x9, x10, x11, x12, x13, x14>>
OAuthStep == part = "oauth" /\ OAuth!Next /\ UNCHANGED <<part, updateVars, x13, x14>>
BuiltinStep ==
    /\ part = "builtin" /\ Builtin!BuiltinNext
    /\ UNCHANGED <<part, updateVars, x8, x9, x10, x11, x12, x13, x14>>
UpgradeStep ==
    /\ part = "upgrade" /\ Upgrade!Next
    /\ UNCHANGED <<part, updateVars, x11, x12, x13, x14>>
SettingsStep ==
    /\ part = "settings" /\ Settings!Next
    /\ UNCHANGED <<part, updateVars, x9, x10, x11, x12, x13, x14>>
ClientsStep ==
    /\ part = "clients" /\ Clients!Next
    /\ UNCHANGED <<part, updateVars, x9, x10, x11, x12, x13, x14>>
UpdateStep ==
    /\ part = "update" /\ Next
    /\ UNCHANGED <<part, x1, x2, x3, x4, x5, x6, x7, x8, x9, x10, x11, x12, x13, x14>>

SuiteNext ==
    \/ UpdateStep \/ CommitStep \/ HarnessStep \/ RulesStep \/ ExternalStep
    \/ NativeStep \/ ProbeStep \/ AntigravityStep \/ QuotaStep \/ ResourcesStep
    \/ OAuthStep \/ BuiltinStep \/ UpgradeStep \/ SettingsStep \/ ClientsStep

suiteVars == <<part, updateVars, x1, x2, x3, x4, x5, x6, x7, x8, x9, x10, x11, x12, x13, x14>>

SuiteSpec == SuiteInit /\ [][SuiteNext]_suiteVars

-----------------------------------------------------------------------------
(* A commit message is made of what the model wrote: the diffs fit their    *)
(* limits with nothing left out while there is room, the answer is whole or *)
(* cut by the deadline, it comes before the client gives up, and the        *)
(* message has neither label nor fence.                                     *)
CommitMessageHolds ==
    part = "commit" =>
      /\ Commit!DiffsFit
      /\ Commit!AnswerIsWhole
      /\ Commit!AnsweredInTime
      /\ Commit!MessageIsClean

(* The editor is never sent to a proxy of an earlier process, a proxy that  *)
(* runs between requests is the one announced, and the files of the CA      *)
(* belong together. Whoever asks for an HTTP client after the outbound      *)
(* proxy was saved gets one built from what was saved or from something     *)
(* newer; only settings that pass their checks are stored, and no           *)
(* unreadable row stands in the way of its own replacement.                 *)
TakeoverHolds ==
    /\ part = "harness" =>
         /\ Harness!NoStaleProxy
         /\ Harness!RunningIsAnnounced
         /\ Harness!CaBelongsTogether
    /\ part = "settings" => Settings!StoredIsValid /\ Settings!RowsAreReplaceable
    /\ part = "clients" => Clients!SavedProxyIsUsed

(* What the user was told of a rule is what the store holds, and what       *)
(* upstream holds or the journal will make it hold; no rule is doubled by   *)
(* its replay, and the journal names a rule once. The database of an        *)
(* earlier build is taken over: every migration runs once and in order      *)
(* whichever processes open it and wherever they stop, a history a shipped  *)
(* build wrote is accepted and never rewritten, and an import of models     *)
(* adds what the file has and the store lacks.                              *)
StoredIsKept ==
    /\ [](part = "rules" =>
            /\ Rules!AcknowledgedKept /\ Rules!RulesOnce /\ Rules!JournalFolded)
    /\ [](part = "upgrade" =>
            /\ Upgrade!MigrationsRunOnce /\ Upgrade!HistoryAccepted /\ Upgrade!ImportIsExact)
    /\ [][part = "upgrade" => Upgrade!HistoryStep]_suiteVars

(* An external client gets the answer: blocks are opened once and closed    *)
(* before the end, the deltas are what was collected, the end or the error  *)
(* is told once, and a reply that is passed through is passed whole and     *)
(* recorded as it was. The page of the models is told the truth: a test is  *)
(* reached by its cancellation whenever that comes and passes only with an  *)
(* answer, what is discovered is the whole list of one endpoint, and the    *)
(* list of calls holds the newest.                                          *)
ClientsAreTold ==
    /\ part = "external" =>
         /\ External!BlocksConsistent
         /\ External!WireIsAnswer
         /\ External!EndIsTold
    /\ part = "native" =>
         /\ Native!RecordIsReply
         /\ Native!PassedThrough
         /\ Native!StreamSettles
    /\ part = "probe" =>
         /\ Probe!CancelReachesTest
         /\ Probe!PassedIsAnswered
         /\ Probe!EndedIsRemoved
         /\ Probe!DiscoveredIsListing
         /\ Probe!ListIsNewest

(* A call on an account answers once: all its events come from one attempt  *)
(* and end in one done, with the replay state before it and its blocks      *)
(* closed; a refresh token issued on the way is stored; and an account that *)
(* met its limit rests until every window used up is open again.            *)
AccountCallsHold ==
    /\ part = "antigravity" =>
         /\ Antigravity!OneAnswer
         /\ Antigravity!ReplayOnce
         /\ Antigravity!DoneMeansCompleted
         /\ Antigravity!BlocksBalanced
         /\ Antigravity!TokensKept
    /\ part = "quota" => Quota!RestsAfterExhaustion /\ Quota!WaitsForEveryWindow

(* What is stored for a plugin is what was acknowledged: one record per     *)
(* key, changes that later operations leave alone, switches that survive a  *)
(* new listing, sign-ins that are stored when they are reported and         *)
(* reported when they are stored, and the files this version of the         *)
(* application embeds.                                                      *)
PluginsAreKept ==
    /\ part = "resources" =>
         /\ Resources!KeysUnique
         /\ Resources!ResourcesKept
         /\ Resources!SwitchesKept
    /\ part = "oauth" =>
         /\ OAuth!SuccessIsStored
         /\ OAuth!StoredIsReported
         /\ OAuth!GrantKept
    /\ part = "builtin" => Builtin!SyncedIsEmbedded

=============================================================================
