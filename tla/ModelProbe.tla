------------------------------ MODULE ModelProbe ------------------------------
(* What the models page asks of the service: the connectivity test of a model, *)
(* which another request may cancel at any time, even before it arrives; the   *)
(* discovery of the models an endpoint lists; and the list of past calls.      *)
EXTENDS Integers, Sequences, FiniteSetsExt, Functions

CONSTANTS
  Tests,        \* the ids of tests; the page makes a new one for each test
  MaxEvents,    \* bound on the events of a test's stream
  Bases,        \* what the path of a base URL may end in
  Listings,     \* what an endpoint may list: a sequence of pages [ids, last, ok]
  Times,        \* when calls were made
  Limits,       \* how many calls are asked for
  MaxCalls      \* the 500 calls a list never exceeds

VARIABLES
  task,         \* which of the three is looked at: "test", "discover" or "calls"
  tests,        \* the registry: test id -> its token
  cancelled,    \* the tokens that are cancelled
  asked,        \* the ids a cancellation has been handled for
  test,         \* test id -> the handler of its test
  search,       \* the discovery: [at, urls, page, found, served]
  records,      \* the recorded calls and the traces of Runs: [calls, traces]
  list          \* what is listed of them, and the call opened from it

vars == <<task, tests, cancelled, asked, test, search, records, list>>

NoTest == [at |-> "none", token |-> 0, valid |-> FALSE, done |-> FALSE, usage |-> 0, text |-> 0, events |-> 0]

-----------------------------------------------------------------------------
(* Connectivity tests. *)

\* entry(test_id).or_insert: the token an earlier cancellation left, or a new one.
TokenOf(id) == IF id \in DOMAIN tests THEN tests[id] ELSE [id |-> id, made |-> test[id].at]
Entry(id) == tests' = [i \in DOMAIN tests \cup {id} |-> IF i = id THEN TokenOf(id) ELSE tests[i]]
Removed(id) == tests' = Restrict(tests, DOMAIN tests \ {id})
Ends(id, at) == test' = [test EXCEPT ![id] = [@ EXCEPT !.at = at, !.events = 0]]
aside == <<task, search, records, list>>

\* POST: the token is registered, then the model is looked up.
TestModel(id) ==
  /\ test[id].at = "none"
  /\ Entry(id)
  /\ test' = [test EXCEPT ![id] = [NoTest EXCEPT !.at = "lookup", !.token = TokenOf(id)]]
  /\ UNCHANGED <<cancelled, asked, aside>>

\* The model is there and its stream begins, or it is not and the test ends.
Lookup(id) ==
  /\ test[id].at = "lookup"
  /\ \/ test' = [test EXCEPT ![id].at = "stream"] /\ UNCHANGED tests
     \/ Ends(id, "failed") /\ Removed(id)
  /\ UNCHANGED <<cancelled, asked, aside>>

\* One event of the stream: the first valid one, the text, the largest usage, Done.
Valid == {"text", "thinking", "tool"}
Event(id, kind, tokens) ==
  /\ test[id].at = "stream" /\ test[id].events < MaxEvents
  /\ test' = [test EXCEPT ![id] =
       [@ EXCEPT !.valid = @ \/ kind \in Valid, !.done = @ \/ kind = "done",
                 !.text = IF kind = "text" THEN @ + 1 ELSE @,
                 !.usage = IF kind = "usage" THEN Max({@, tokens}) ELSE @,
                 !.events = @ + 1]]
  /\ UNCHANGED <<tests, cancelled, asked, aside>>

\* The stream ends: cancelled, without Done, without a valid event, or with a result.
Verdict(id) ==
  CASE test[id].token \in cancelled -> "cancelled"
    [] test[id].token \notin cancelled /\ ~ test[id].done -> "unfinished"
    [] test[id].token \notin cancelled /\ test[id].done /\ ~ test[id].valid -> "silent"
    [] OTHER -> "passed"

\* The tokens of the result: what the provider counted, or the words of the answer.
OutputTokens(id) == IF test[id].usage > 0 THEN test[id].usage ELSE test[id].text

StreamEnds(id) ==
  /\ test[id].at = "stream"
  /\ test' = [test EXCEPT ![id] = [@ EXCEPT !.at = Verdict(id), !.usage = OutputTokens(id), !.events = 0]]
  /\ Removed(id)
  /\ UNCHANGED <<cancelled, asked, aside>>

\* An event is an error.
StreamFails(id) ==
  /\ test[id].at = "stream" /\ Ends(id, "failed") /\ Removed(id)
  /\ UNCHANGED <<cancelled, asked, aside>>

\* 45 seconds: the token is cancelled, the call's record is closed, then the test ends.
Timeout(id) ==
  /\ test[id].at = "stream"
  /\ cancelled' = cancelled \cup {test[id].token}
  /\ Ends(id, "timeout") /\ Removed(id)
  /\ UNCHANGED <<asked, aside>>

\* DELETE: the token that is registered, or one for the test to find, is cancelled.
CancelTest(id) ==
  /\ Entry(id)
  /\ cancelled' = cancelled \cup {TokenOf(id)} /\ asked' = asked \cup {id}
  /\ UNCHANGED <<test, aside>>

\* The page gives up its request, and the handler is dropped where it waits.
Abort(id) ==
  /\ test[id].at \in {"lookup", "stream"} /\ Ends(id, "dropped")
  /\ UNCHANGED <<tests, cancelled, asked, aside>>

-----------------------------------------------------------------------------
(* Discovery. *)

\* The URLs tried, in order, by what the base URL's path ends in: a list of models is taken
\* as it is, a version or an endpoint is completed or replaced, and anything else may or may
\* not need a version before "models".
DiscoveryUrls(base) ==
  CASE base = "models" -> <<"given">>
    [] base = "version" -> <<"given models">>
    [] base = "endpoint" -> <<"parent models">>
    [] base = "ENDPOINT" -> <<"given v1 models">>
    [] base \in {"root", "other"} -> <<"given v1 models", "given models">>

idle == <<task, tests, cancelled, asked, test, records, list>>

\* discover_models: a request for the first page of the first URL.
Discover(base, anthropic) ==
  /\ search.at = "idle"
  /\ search' = [at |-> "asking", urls |-> DiscoveryUrls(base), anthropic |-> anthropic,
                page |-> 1, found |-> {}, served |-> <<>>]
  /\ UNCHANGED idle

\* The endpoint behind the first of the URLs answers with one page of what it lists: OpenAI's
\* only page ends the search; Anthropic's are asked for until one says there are no more.
Page(listing) ==
  LET page == listing[search.page] IN
  /\ search.at = "asking" /\ search.page <= Len(listing)
  /\ search.served \in {<<>>, listing} /\ page.ok
  /\ search' =
       LET seen == [search EXCEPT !.found = @ \cup page.ids, !.served = listing] IN
       CASE ~ search.anthropic -> [seen EXCEPT !.at = "found"]
         [] search.anthropic /\ search.page = Len(listing) -> [seen EXCEPT !.at = "found"]
         [] search.anthropic /\ search.page < Len(listing) /\ page.last -> [seen EXCEPT !.page = @ + 1]
         [] OTHER -> [seen EXCEPT !.at = "refused"]
  /\ UNCHANGED idle

\* A page is an error: everything found behind this URL is forgotten.
PageFails ==
  /\ search.at = "asking"
  /\ search' = [search EXCEPT !.at = "refused"]
  /\ UNCHANGED idle

\* The next URL, if there is one, is asked from its first page.
NextUrl ==
  /\ search.at = "refused"
  /\ search' = [search EXCEPT !.at = IF Len(search.urls) > 1 THEN "asking" ELSE "failed",
                              !.urls = Tail(@), !.page = 1, !.found = {}, !.served = <<>>]
  /\ UNCHANGED idle

-----------------------------------------------------------------------------
(* The list of calls, and the call that is opened from it. *)

Clamped(limit) == Max({1, Min({limit, MaxCalls})})

\* ORDER BY ... DESC LIMIT: the newest of them.
Newest(all, n) ==
  {c \in all : Cardinality({d \in all : d.at > c.at}) < n}

\* The trace of a Run that Cursor served itself, as a call; the clock may have been set back.
OfficialCall(trace) ==
  [id |-> <<"cursor", trace.request>>, run |-> trace.request, at |-> trace.at, kind |-> "cursor_official",
   duration |-> {Max({0, end - trace.at}) : end \in trace.finished}]

\* official_cursor_traces: the traces of local Runs are not calls.
OfficialTraces == {t \in records.traces : t.route = "cursor_official"}

\* Both tables are asked for as many, and the newest of what they give are kept.
ListCalls(limit) ==
  LET official == {OfficialCall(t) : t \in Newest(OfficialTraces, Clamped(limit))} IN
  /\ list.at = "none"
  /\ list' = [list EXCEPT !.at = "listed", !.limit = limit,
                 !.calls = Newest(Newest(records.calls, Clamped(limit)) \cup official, Clamped(limit))]
  /\ UNCHANGED <<task, tests, cancelled, asked, test, search, records>>

\* cursor_trace_detail: the trace of a request, whoever served it.
TraceDetail(request) == {t \in records.traces : t.request = request}

\* strip_prefix
RequestOf(id) == IF id[1] = "cursor" THEN id[2] ELSE id

\* The record of a call with the trace of its Run, or a trace that stands for a call.
OpenCall(id) ==
  LET found == {c \in records.calls : c.id = id}
      official == {t \in TraceDetail(RequestOf(id)) : t.route = "cursor_official"} IN
  /\ list.at = "listed"
  /\ list' = [list EXCEPT !.at = "opened", !.opened = <<id>>,
                 !.detail = IF found # {} THEN [call |-> found, trace |-> UNION {TraceDetail(c.run) : c \in found}]
                            ELSE [call |-> {OfficialCall(t) : t \in official}, trace |-> official]]
  /\ UNCHANGED <<task, tests, cancelled, asked, test, search, records>>

-----------------------------------------------------------------------------
\* Calls of different times, some with the trace of their Run, and traces of other Runs, which
\* are served by Cursor or failed before a model was called.
Init ==
  /\ task \in {"test", "discover", "calls"}
  /\ tests = <<>> /\ cancelled = {} /\ asked = {}
  /\ test = [id \in Tests |-> NoTest]
  /\ search = [at |-> "idle", urls |-> <<>>, anthropic |-> FALSE, page |-> 1, found |-> {}, served |-> <<>>]
  /\ \E calls \in SUBSET Times :
       \E traced \in SUBSET calls, official \in SUBSET (Times \ calls) :
         \E early \in SUBSET (Times \ (calls \cup official)), end \in {{}, {0}, {5}} :
           /\ task # "calls" => calls = {} /\ official = {} /\ early = {} /\ end = {}
           /\ records =
                [calls |-> {[id |-> <<"call", t>>, run |-> t, at |-> t, kind |-> "provider_llm",
                             duration |-> {}] : t \in calls},
                 traces |-> {[request |-> t, at |-> t, finished |-> end,
                              route |-> IF t \in official THEN "cursor_official" ELSE "local_byok"]
                              : t \in traced \cup official \cup early}]
  /\ list = [at |-> "none", limit |-> 0, calls |-> {}, opened |-> <<>>,
             detail |-> [call |-> {}, trace |-> {}]]

Next ==
  \/ /\ task = "test"
     /\ \E id \in Tests :
          \/ TestModel(id) \/ Lookup(id) \/ StreamEnds(id) \/ StreamFails(id) \/ Timeout(id)
          \/ CancelTest(id) \/ Abort(id)
          \/ \E kind \in {"text", "tool", "done"} : Event(id, kind, 0)
          \/ \E tokens \in 0 .. 2 : Event(id, "usage", tokens)
  \/ /\ task = "discover"
     /\ \/ \E base \in Bases, anthropic \in BOOLEAN : Discover(base, anthropic)
        \/ \E listing \in Listings : Page(listing)
        \/ PageFails \/ NextUrl
  \/ task = "calls" /\ \E limit \in Limits : ListCalls(limit)
  \/ task = "calls" /\ \E call \in list.calls : OpenCall(call.id)

Spec == Init /\ [][Next]_vars

-----------------------------------------------------------------------------
\* A cancellation reaches its test whether it is handled before the test or during it: a test
\* that goes on holds a cancelled token, and a test cancelled before its end does not pass.
CancelReachesTest ==
  \A id \in asked : test[id].at \in {"lookup", "stream"} => test[id].token \in cancelled

\* A test passes only with an answer: a valid event and Done, and the tokens it reports
\* are not zero when text came.
PassedIsAnswered ==
  \A id \in Tests : test[id].at = "passed" =>
    test[id].valid /\ test[id].done /\ (test[id].text > 0 => test[id].usage > 0)

\* The registry keeps no test that ended by itself.
EndedIsRemoved ==
  \A id \in DOMAIN tests : id \notin asked => test[id].at \in {"lookup", "stream", "dropped"}

\* What is discovered is all that one endpoint lists, never parts of two.
DiscoveredIsListing ==
  search.at = "found" =>
    \E listing \in Listings :
      search.found = IF search.anthropic THEN UNION {listing[i].ids : i \in 1 .. Len(listing)}
                     ELSE listing[1].ids

\* The list holds the newest of all calls, as if they were in one table and without the
\* traces of local Runs; and what is opened from it is the call that was listed, with the
\* trace of its own Run.
ListIsNewest ==
  list.at # "none" =>
    /\ list.calls = Newest(records.calls \cup {OfficialCall(t) : t \in OfficialTraces}, Clamped(list.limit))
    /\ \A call \in list.calls : <<call.id>> = list.opened =>
         /\ list.detail.call = {call}
         /\ list.detail.trace = {t \in records.traces : t.request = call.run}
=============================================================================
