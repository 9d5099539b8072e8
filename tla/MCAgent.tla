------------------------------ MODULE MCAgent ------------------------------
(***************************************************************************)
(* The components around one request of the agent, each explored from its  *)
(* own initial states: the registry of a conversation, the inbox of a      *)
(* transport, the routes of a request, the checkpoints, the limits of tool *)
(* results, the web tools, and the models a request may choose.            *)
(***************************************************************************)
EXTENDS ConversationRegistry, OrderedInbox, TLC

CONSTANTS NoRun

VARIABLES part,  \* the component explored
          x1, x2, x3, x4, x5, x6, x7, x8, x9, x10, x11, x12, x13  \* its variables

(* A background task and a user message that carry the same event, and a     *)
(* second user message.                                                      *)
Events == [c1 |-> "e1", s1 |-> "e1", s2 |-> "e2"]

(* A todo list that is replaced, and one that is merged out of order.        *)
Writes == {[merge |-> FALSE, todos |-> << <<"a", "pending">> >>],
           [merge |-> TRUE, todos |-> << <<"b", "pending">>, <<"a", "done">> >>]}

(* Texts at, just over and far over their limits.                            *)
Blanks(w) == IF w = 1 THEN {<<0, 0>>, <<20, 26>>, <<930, 1100>>} ELSE {<<0, 0>>}

Text(cut, limits, names, over, widths) ==
    UNION {{[cut |-> cut, limit |-> l, name |-> n, length |-> (l + o) * w, width |-> w,
             blank |-> b] : l \in limits, n \in names, o \in over, b \in Blanks(w)} :
           w \in widths}

Jobs ==
    Text("text", (60 .. 100) \cup (1040 .. 1100) \cup {2048, 4096, 32768, 65536},
         {4, 16}, {0, 1, 900, 9000}, {1, 3})
    \cup Text("edges", {16384, 32768}, {12, 24}, {1, 70000, 990000}, {1, 2, 3, 4})
    \cup Text("replay", {4096, 16384, 32768, 65536, 131072}, 4 .. 17, {1, 99000}, {1, 3})
    \cup Text("middle", {16384, 32768}, {12, 24}, {1, 70000}, {1, 3})

(* Results of each shape around the limits of the gates.                     *)
Hit(file, bytes, blank) == [file |-> file, bytes |-> bytes, blank |-> blank]
FileHits(file) ==
    {<<Hit(file, 1, FALSE)>>, <<Hit(file, 5, FALSE)>>, <<Hit(file, 3, FALSE), Hit(file, 4, FALSE)>>,
     <<Hit(file, 1, FALSE), Hit(file, 1, TRUE), Hit(file, 2, FALSE)>>,
     <<Hit(file, 1, TRUE), Hit(file, 1, FALSE)>>,
     <<Hit(file, 2, FALSE), Hit(file, 2, FALSE), Hit(file, 1, FALSE)>>}
Found == FileHits(1) \cup {a \o b : a \in FileHits(1), b \in FileHits(2)}
Items == {[image |-> FALSE, bytes |-> 5], [image |-> FALSE, bytes |-> 14],
          [image |-> FALSE, bytes |-> 0], [image |-> TRUE, bytes |-> 20]}
References == {[link |-> 1, bytes |-> 2], [link |-> 3, bytes |-> 9], [link |-> 7, bytes |-> 1]}

Results ==
    {[kind |-> "grep", contents |-> c] : c \in {<<f>> : f \in Found} \cup (Found \X Found)}
    \cup {[kind |-> "mcp", items |-> s, structured |-> b] : s \in SeqOf(Items, 4), b \in BOOLEAN}
    \cup {[kind |-> "web", references |-> s] : s \in SeqOf(References, 4)}
    \cup {[kind |-> "list", files |-> n, total |-> t, glob |-> g] :
            n \in 0 .. 4, t \in {0, 4, 9}, g \in BOOLEAN}

(* Answers of two search engines: links, one of them behind a redirect, an   *)
(* item without a title and one without a usable link.                       *)
Link(page) == [http |-> TRUE, page |-> page, behind |-> {}]
Wrapped(page) == [http |-> TRUE, page |-> 9, behind |-> {Link(page)}]
Mail == [http |-> FALSE, page |-> 8, behind |-> {}]
Item(links, chunk) == [titled |-> TRUE, links |-> links, chunk |-> chunk]
WebItems == {Item({Link(1)}, 1), Item({Wrapped(1)}, 2), Item({Link(2)}, 1), Item({Link(3)}, 0)}
NoHits == {Item({Mail}, 1), Item({}, 0), [titled |-> FALSE, links |-> {Link(3)}, chunk |-> 1]}
WebAnswers ==
    {[kind |-> "failed"]} \cup
    {[kind |-> "items", items |-> s] :
        s \in SeqOf(WebItems, 2) \cup {<<a, b, c>> : a \in NoHits, b \in WebItems, c \in {Item({Link(2)}, 1)}}}
WebPages ==
    {[fits |-> TRUE, domain |-> TRUE, host |-> "name"], [fits |-> TRUE, domain |-> FALSE, host |-> "public"],
     [fits |-> TRUE, domain |-> FALSE, host |-> "local"], [fits |-> FALSE, domain |-> TRUE, host |-> "name"]}

(* The context windows offered, and the models an import or an edit saves.   *)
Menu == {<<200, 1000>>, <<1, 1000000>>}

Saved(name, kind, key, thinking, fast, effort, window, limit, budget, order) ==
    [name |-> name, kind |-> kind, key |-> key, thinking |-> thinking,
     fast |-> fast, effort |-> effort, window |-> window, limit |-> limit,
     budget |-> budget, order |-> order]

Chat   == Saved(1, "openai", "k", FALSE, TRUE, {"low"}, {200000}, {600}, {}, 0)
Think  == Saved(1, "openai", "k", TRUE, FALSE, {"low"}, {300000}, {}, {}, 0)
Tight  == Saved(2, "anthropic", "k", TRUE, FALSE, {}, {}, {1025}, {1024}, 0)
Renamed == Saved(1, "anthropic", "", TRUE, TRUE, {"low"}, {1000000}, {1024}, {1024}, 2)

Batches == {<<Chat>>, <<Chat, Tight>>, <<Think>>, <<Renamed>>}

-----------------------------------------------------------------------------
Routes == INSTANCE RequestRoutes WITH
    Appends <- {"a1", "a2"}, Streams <- {"s1"}, MaxEpoch <- 3,
    message <- x1, local <- x2, transport <- x3, watchers <- x4, route <- x5,
    routes <- x6, timers <- x7, ends <- x8, at <- x9, found <- x10,
    listening <- x11, notices <- x12

Checkpoints == INSTANCE CheckpointSync WITH
    Writes <- Writes, Prompts <- {"p"}, MaxCommits <- 2, MaxSteps <- 2,
    MaxRequests <- 5, MaxFaults <- 1, MaxRuns <- 2,
    session <- x1, jobs <- x2, worker <- x3, builder <- x4, kv <- x5,
    requests <- x6, answers <- x7, blobs <- x8, held <- x9, published <- x10,
    given <- x11, todoList <- x12, troubles <- x13

Texts == INSTANCE ResultGates WITH
    Jobs <- Jobs, MaxTurns <- 8, Results <- {}, TextLimit <- {}, MatchLimit <- {},
    PerFile <- {}, TotalMatches <- {}, ListLimit <- {}, Notice <- {},
    job <- x1, inLoop <- x2, shown <- x3, previous <- x4, turns <- x5,
    output <- x6, given <- 0, at <- 0, contents <- 0, left <- 0, kept <- 0,
    room <- 0, slots <- 0, cut <- 0, gated <- 0

Gates == INSTANCE ResultGates WITH
    Results <- Results, TextLimit <- 12, MatchLimit <- 4, PerFile <- 2,
    TotalMatches <- 4, ListLimit <- 3, Notice <- 3, Jobs <- {}, MaxTurns <- {},
    given <- x1, at <- x2, contents <- x3, left <- x4, kept <- x5, room <- x6,
    slots <- x7, cut <- x8, gated <- x9, job <- 0, inLoop <- 0, shown <- 0,
    previous <- 0, turns <- 0, output <- 0

Web == INSTANCE WebTools WITH
    Engines <- <<"a", "b">>, Answers <- WebAnswers, Pages <- WebPages,
    PerEngine <- 2, MaxResults <- 2, MaxRedirects <- 1, MaxBody <- 2,
    Callers <- {1, 2, 3},
    tool <- x1, answers <- x2, merged <- x3, failures <- x4, results <- x5,
    fetch <- x6, asked <- x7, cache <- x8, files <- x9, page <- x10, cell <- x11,
    caller <- x12

Catalog == INSTANCE ModelCatalog WITH
    Menu <- Menu, Efforts <- {"low", "xhigh"}, Batches <- Batches, Limits <- {500},
    MaxIds <- 2, MaxEdits <- 3,
    rows <- x1, lastId <- x2, commit <- x3, picker <- x4, sorting <- x5,
    call <- x6, edits <- x7, staleSave <- x8

-----------------------------------------------------------------------------
(* The variables a component leaves over. *)
Rest12 == x13 = 0
Rest9 == x10 = 0 /\ x11 = 0 /\ x12 = 0 /\ Rest12
Rest8 == x9 = 0 /\ Rest9
Rest6 == x7 = 0 /\ x8 = 0 /\ Rest8
Rest0 == x1 = 0 /\ x2 = 0 /\ x3 = 0 /\ x4 = 0 /\ x5 = 0 /\ x6 = 0 /\ Rest6

SuiteInit ==
    /\ Init
    /\ InboxInit
    /\ \/ part = "registry" /\ Rest0
       \/ part = "inbox" /\ Rest0
       \/ part = "routes" /\ Routes!Init /\ Rest12
       \/ part = "checkpoints" /\ Checkpoints!Init
       \/ part = "limits" /\ Texts!LimitInit /\ Rest6
       \/ part = "gates" /\ Gates!Init /\ Rest9
       \/ part = "web" /\ Web!Init /\ Rest12
       \/ part = "catalog" /\ Catalog!Init /\ Rest8
    /\ part # "registry" => background = {}

RoutesStep == part = "routes" /\ Routes!Next /\ UNCHANGED <<part, vars, inboxVars, x13>>
CheckpointsStep ==
    /\ part = "checkpoints" /\ Checkpoints!Next
    /\ UNCHANGED <<part, vars, inboxVars>>
TextsStep ==
    /\ part = "limits" /\ Texts!LimitNext
    /\ UNCHANGED <<part, vars, inboxVars, x7, x8, x9, x10, x11, x12, x13>>
GatesStep ==
    /\ part = "gates" /\ Gates!Next
    /\ UNCHANGED <<part, vars, inboxVars, x10, x11, x12, x13>>
WebStep == part = "web" /\ Web!Next /\ UNCHANGED <<part, vars, inboxVars, x13>>
CatalogStep ==
    /\ part = "catalog" /\ Catalog!Next
    /\ UNCHANGED <<part, vars, inboxVars, x9, x10, x11, x12, x13>>
RegistryStep ==
    /\ part = "registry" /\ Next
    /\ UNCHANGED <<part, inboxVars, x1, x2, x3, x4, x5, x6, x7, x8, x9, x10, x11, x12, x13>>
InboxStep ==
    /\ part = "inbox" /\ InboxNext
    /\ UNCHANGED <<part, vars, x1, x2, x3, x4, x5, x6, x7, x8, x9, x10, x11, x12, x13>>

SuiteNext ==
    \/ RegistryStep \/ InboxStep \/ RoutesStep \/ CheckpointsStep \/ TextsStep
    \/ GatesStep \/ WebStep \/ CatalogStep

suiteVars == <<part, vars, inboxVars, x1, x2, x3, x4, x5, x6, x7, x8, x9, x10, x11, x12, x13>>

SuiteSpec == SuiteInit /\ [][SuiteNext]_suiteVars

-----------------------------------------------------------------------------
(* The routes of a request agree with those who use them. `active` counts   *)
(* exactly the leases of the route's own generation, a route nobody holds   *)
(* has an expiry task that will match it, and a handler asleep in           *)
(* wait_route has nothing to be woken for. No step takes away a route on    *)
(* which another stream holds a lease, and only shutdown removes a          *)
(* transport that takes appends.                                            *)
RoutesAreKept ==
    /\ [](part = "routes" =>
            /\ Routes!ActiveCountsLeases /\ Routes!IdleRouteHasTimer /\ Routes!NoLostWakeup)
    /\ [][part = "routes" => Routes!LeasedRouteStep /\ Routes!AcceptingTransportStep]_suiteVars

(* A published checkpoint can be resumed: the client holds every Blob it    *)
(* names, the steps of a turn are there in order, once a commit's barrier   *)
(* is completed its history is published, and the todos are what all        *)
(* TodoWrites made of them.                                                 *)
CheckpointsHold ==
    part = "checkpoints" =>
      /\ Checkpoints!PublishedIsHeld
      /\ Checkpoints!StepsInOrder
      /\ Checkpoints!BarrierMeansPublished
      /\ Checkpoints!TodosKept

(* What the model is given of a tool's result stays within its limits and   *)
(* says what was left out: the loops that fit a notice come to an end, no   *)
(* text exceeds its limit or is cut inside a character, the matches of      *)
(* several workspaces share one budget, and nothing is dropped in silence.  *)
(* A web search returns the links its engines rank best, a fetch connects   *)
(* only where it looked and returns a page it kept whole, and the engine of *)
(* the code search is loaded once.                                          *)
ResultsFit ==
    /\ part = "limits" =>
         /\ Texts!WithinLimit
         /\ Texts!LoopsSettle
         /\ Texts!NoticeCovers
    /\ part = "gates" =>
         /\ Gates!GrepBudgetShared
         /\ Gates!NothingDroppedSilently
         /\ Gates!WebBounded
    /\ part = "web" =>
         /\ Web!RanksAreFused
         /\ Web!FetchIsBounded
         /\ Web!EngineLoadedOnce

(* The model a request uses is the one that was chosen: every published     *)
(* model has one default, a request asks for nothing the model as routed    *)
(* lacks, the chosen variant is the one used, a saved budget fits its       *)
(* limits, the commit settings name no deleted model, and a reorder is      *)
(* listed as it was asked for.                                              *)
ModelsAreObeyed ==
    /\ [](part = "catalog" =>
            /\ Catalog!OneDefault /\ Catalog!CapabilitiesObeyed /\ Catalog!ChoiceObeyed
            /\ Catalog!BudgetFits /\ Catalog!CommitModelPresent)
    /\ [][part = "catalog" => Catalog!OrderStep]_suiteVars

=============================================================================
