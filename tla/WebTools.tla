------------------------------ MODULE WebTools ------------------------------
(***************************************************************************)
(* What the web tools of a Run do on the server (search/): web search asks *)
(* every engine and fuses their lists, web fetch follows redirects to one  *)
(* page and keeps a copy of it, and code search loads its engine once for  *)
(* the process.  The engines, the resolver and the sites are external.     *)
(***************************************************************************)
EXTENDS SequencesExt

CONSTANTS Engines,      \* the engines of the catalogue, in its order
          Answers,      \* what an engine may answer: a failure or a list of items
          Pages,        \* where the fetched link and its redirects may point
          PerEngine,    \* hits taken of one engine (10)
          MaxResults,   \* hits returned (15)
          MaxRedirects, \* redirects followed (5)
          MaxBody,      \* bytes of a body (5 MiB)
          Callers       \* calls of the code search

VARIABLES tool,     \* the tool explored
          answers,  \* engine -> what it answered
          merged,   \* link -> the hit that was fused for it
          failures, \* engines that gave no hit
          results,  \* what the search returned
          fetch,    \* the fetch: where it is, its link, its hops, its bytes
          asked,    \* addresses the fetch connected to, with the form of their link
          cache,    \* the web cache: whether there is one, and the address of its server
          files,    \* texts in the cache directory
          page,     \* what the fetch returned
          cell,     \* ENGINE: the code search engine, and who loads it
          caller    \* where the callers of the code search are

searchVars == <<answers, merged, failures, results>>
fetchVars  == <<fetch, asked, cache, files, page>>
codeVars   == <<cell, caller>>
vars       == <<tool, searchVars, fetchVars, codeVars>>

IsEngine == DOMAIN Engines
Waiting  == [kind |-> "waiting"]
Nothing  == [kind |-> "none"]

Init ==
    /\ tool \in {"search", "fetch", "code"}
    /\ answers = [e \in IsEngine |-> Waiting]
    /\ merged = <<>>
    /\ failures = {}
    /\ results = Nothing
    /\ fetch = [at |-> "parse", link |-> CHOOSE p \in Pages : TRUE, hops |-> 0,
                addresses |-> {}, reply |-> Nothing, body |-> 0]
    /\ asked = {}
    /\ cache \in [managed : BOOLEAN, address : {{}}]
    /\ files = {}
    /\ page = Nothing
    /\ cell = [loaded |-> 0, by |-> {}]
    /\ caller = [c \in Callers |-> "start"]

-----------------------------------------------------------------------------
(* Web search. *)

\* canonicalize: the link behind the wrapper of a search engine, if it parses;
\* without the fragment, the tracking parameters and the final slash, which tell
\* no two pages apart.
Canonical(link) ==
    LET target == IF link.behind = {} THEN link ELSE CHOOSE t \in link.behind : TRUE
    IN  IF target.http THEN {target.page} ELSE {}

\* parse_item of both kinds of engine: an item without a title or a usable link
\* is no hit, one without a snippet is.
Hits(item) ==
    IF item.titled /\ item.links # {}
    THEN {[url |-> u, chunk |-> item.chunk] : u \in UNION {Canonical(l) : l \in item.links}}
    ELSE {}

\* The first PerEngine hits of a list.
Parsed(items) ==
    LET hits == FlattenSeq([i \in DOMAIN items |-> SetToSeq(Hits(items[i]))])
    IN  SubSeq(hits, 1, IF Len(hits) < PerEngine THEN Len(hits) ELSE PerEngine)

\* An engine answers, fails, or runs into its timeout of 12 s.
EngineAnswers(e) ==
    /\ tool = "search" /\ results = Nothing
    /\ answers[e] = Waiting
    /\ \E a \in Answers : answers' = [answers EXCEPT ![e] = a]
    /\ UNCHANGED <<tool, merged, failures, results, fetchVars, codeVars>>

HitsOf(e) == IF answers[e].kind = "items" THEN Parsed(answers[e].items) ELSE <<>>

\* One over 60 + rank, scaled to an integer for the ranks there are.
Scale == 61 * 62 * 63
Score(rank) == Scale \div (60 + rank)

\* merge, for one hit of one engine.
Fused(table, e, rank, hit) ==
    IF hit.url \notin DOMAIN table
    THEN [u \in DOMAIN table \cup {hit.url} |->
            IF u = hit.url THEN [engines |-> <<e>>, score |-> Score(rank), chunk |-> hit.chunk]
            ELSE table[u]]
    ELSE LET known == table[hit.url]
             new   == ~ Contains(known.engines, e)
         IN  [table EXCEPT ![hit.url] =
                [engines |-> IF new THEN Append(known.engines, e) ELSE known.engines,
                 score   |-> IF new THEN known.score + Score(rank) ELSE known.score,
                 chunk   |-> IF hit.chunk > known.chunk THEN hit.chunk ELSE known.chunk]]

Merge(table, e) ==
    LET hits == HitsOf(e)
    IN  FoldLeft(LAMBDA t, rank : Fused(t, e, rank, hits[rank]), table,
                 [i \in DOMAIN hits |-> i])

\* The best first, and equals by their links.
Before(u, v) ==
    merged'[u].score > merged'[v].score \/ (merged'[u].score = merged'[v].score /\ u < v)

\* join_all has every answer: they are merged in the order of the catalogue,
\* sorted and cut.
Search ==
    /\ tool = "search" /\ results = Nothing
    /\ \A e \in IsEngine : answers[e] # Waiting
    /\ merged' = FoldLeft(Merge, merged, [e \in IsEngine |-> e])
    /\ failures' = {e \in IsEngine : HitsOf(e) = <<>>}
    /\ LET sorted == SetToSortSeq(DOMAIN merged', Before)
       IN  results' = IF sorted = <<>> THEN [kind |-> "error", engines |-> failures']
                      ELSE [kind |-> "found",
                            urls |-> SubSeq(sorted, 1, IF Len(sorted) < MaxResults THEN Len(sorted)
                                                       ELSE MaxResults)]
    /\ UNCHANGED <<tool, answers, fetchVars, codeVars>>

\* An empty query, or a client that cannot be built.
SearchRefused ==
    /\ tool = "search" /\ results = Nothing
    /\ \A e \in IsEngine : answers[e] = Waiting
    /\ results' = [kind |-> "error", engines |-> {}]
    /\ UNCHANGED <<tool, answers, merged, failures, fetchVars, codeVars>>

-----------------------------------------------------------------------------
(* Web fetch.  A failure of any step ends it with an error; FETCH_TIMEOUT may  *)
(* do so wherever it waits, but not while the copy is written.                 *)

Fail == fetch' = [fetch EXCEPT !.at = "failed"]
Kept == UNCHANGED <<tool, searchVars, codeVars>>

\* parse_url: http or https, no credentials, a host.
Parse ==
    /\ tool = "fetch" /\ fetch.at = "parse"
    /\ \E p \in Pages :
         fetch' = [fetch EXCEPT !.link = p, !.at = IF p.fits THEN "resolve" ELSE "failed"]
    /\ UNCHANGED <<asked, cache, files, page>> /\ Kept

\* safe_resolution: a public address, or for a name the range that local proxies
\* answer with.
Safe(address, domain) == address = "public" \/ (domain /\ address = "bench")

\* request, up to the look-up: a name has whatever addresses the resolver says
\* now, an address has itself.
Resolve ==
    /\ tool = "fetch" /\ fetch.at = "resolve"
    /\ \E found \in IF fetch.link.domain THEN SUBSET {"public", "bench", "local"}
                    ELSE {{fetch.link.host}} :
         IF found = {} \/ \E a \in found : ~ Safe(a, fetch.link.domain) THEN Fail
         ELSE fetch' = [fetch EXCEPT !.at = "send", !.addresses = found]
    /\ UNCHANGED <<asked, cache, files, page>> /\ Kept

\* The client of this hop: pinned to the addresses that were looked up if the
\* host is a name, following no redirect by itself.
Pinned == IF fetch.link.domain THEN fetch.addresses ELSE {fetch.link.host}

\* What a site replies: a status, for a redirect where to, for a page what it is.
Reply ==
    [kind : {"error"}] \cup [kind : {"redirect"}, to : {{}} \cup {{p} : p \in Pages}]
    \cup [kind : {"page"}, announced : {0, MaxBody + 1},
          media : {"html", "text", "unsupported"}, charset : BOOLEAN]

\* The request goes to one of them, or to the outbound proxy in its place.
Send ==
    /\ tool = "fetch" /\ fetch.at = "send"
    /\ \E a \in Pinned : asked' = asked \cup {<<a, fetch.link.domain>>}
    /\ \/ Fail
       \/ \E r \in Reply : fetch' = [fetch EXCEPT !.at = "reply", !.reply = r]
    /\ UNCHANGED <<cache, files, page>> /\ Kept

\* A redirect is parsed like the link itself; the last one is not followed.
Redirect ==
    /\ tool = "fetch" /\ fetch.at = "reply" /\ fetch.reply.kind = "redirect"
    /\ IF fetch.hops = MaxRedirects \/ fetch.reply.to = {} THEN Fail
       ELSE \E p \in fetch.reply.to :
              IF p.fits THEN fetch' = [fetch EXCEPT !.at = "resolve", !.link = p, !.hops = @ + 1]
              ELSE Fail
    /\ UNCHANGED <<asked, cache, files, page>> /\ Kept

\* A status that is no success, or a body announced to be too long.
Refuse ==
    /\ tool = "fetch" /\ fetch.at = "reply"
    /\ fetch.reply.kind = "error" \/ (fetch.reply.kind = "page" /\ fetch.reply.announced > MaxBody)
    /\ Fail
    /\ UNCHANGED <<asked, cache, files, page>> /\ Kept

\* limited_body: a chunk is kept if it fits, whatever was announced.
ReadChunk ==
    /\ tool = "fetch" /\ fetch.at \in {"reply", "read"} /\ fetch.reply.kind = "page"
    /\ fetch.reply.announced <= MaxBody
    /\ \E n \in 1 .. MaxBody :
         IF fetch.body + n > MaxBody THEN Fail
         ELSE fetch' = [fetch EXCEPT !.at = "read", !.body = @ + n]
    /\ UNCHANGED <<asked, cache, files, page>> /\ Kept

\* decode and readable_markdown: the text of a body in a known charset; HTML may
\* turn out to have none.
Markdown == IF fetch.reply.charset /\ fetch.body > 0 THEN {fetch.body} ELSE {}

\* page, after the body: malformed text, an unknown charset or medium and a page
\* without text are errors.
Extract ==
    /\ tool = "fetch" /\ fetch.at \in {"reply", "read"} /\ fetch.reply.kind = "page"
    /\ fetch.reply.announced <= MaxBody
    /\ \/ Fail
       \/ /\ fetch.reply.media # "unsupported" /\ Markdown # {}
          /\ fetch' = [fetch EXCEPT !.at = "store"]
    /\ UNCHANGED <<asked, cache, files, page>> /\ Kept

Timeout ==
    /\ tool = "fetch" /\ fetch.at \in {"resolve", "send", "reply", "read"}
    /\ Fail
    /\ UNCHANGED <<asked, cache, files, page>> /\ Kept

\* local_address: what a server that listens everywhere is reached at.
LocalAddress(a) == IF a = "0.0.0.0" THEN "127.0.0.1" ELSE a

\* set_service_addr, when a server begins to listen.
SetServiceAddr ==
    /\ tool = "fetch" /\ cache.managed /\ cache.address = {}
    /\ \E a \in {"0.0.0.0", "10.0.0.1"} : cache' = [cache EXCEPT !.address = {LocalAddress(a)}]
    /\ UNCHANGED <<fetch, asked, files, page>> /\ Kept

Fetched(entry) == [kind |-> "page", from |-> fetch.link, bytes |-> fetch.body, entry |-> entry]

\* WebCache::store under a fresh name.  Without a cache there is no copy; before a
\* server listens the fetch fails, and so it does when the file cannot be written,
\* which may leave a part of it.
StoreCopy ==
    /\ tool = "fetch" /\ fetch.at = "store"
    /\ \/ /\ ~ cache.managed
          /\ fetch' = [fetch EXCEPT !.at = "done"]
          /\ page' = Fetched({})
          /\ UNCHANGED files
       \/ /\ cache.managed
          /\ Fail
          /\ files' \in {files} \cup (IF cache.address = {} THEN {} ELSE {files \cup {<<fetch.link, 0>>}})
          /\ UNCHANGED page
       \/ \E a \in cache.address :
            /\ fetch' = [fetch EXCEPT !.at = "done"]
            /\ files' = files \cup {<<fetch.link, fetch.body>>}
            /\ page' = Fetched({a})
    /\ UNCHANGED <<asked, cache>> /\ Kept

-----------------------------------------------------------------------------
(* Code search. *)

\* execute reads its arguments and asks for the engine; one caller at a time
\* loads it into the cell, the others wait.
BeginLoad(c) ==
    /\ tool = "code" /\ caller[c] = "start" /\ cell.loaded = 0 /\ cell.by = {}
    /\ cell' = [cell EXCEPT !.by = {c}]
    /\ caller' = [caller EXCEPT ![c] = "loading"]
    /\ UNCHANGED <<tool, searchVars, fetchVars>>

\* The client could not be built, the model not be loaded, or the caller was
\* dropped with its Run: the cell stays empty for the next one.
LoadFails(c) ==
    /\ tool = "code" /\ caller[c] = "loading"
    /\ cell' = [cell EXCEPT !.by = {}]
    /\ caller' = [caller EXCEPT ![c] = "failed"]
    /\ UNCHANGED <<tool, searchVars, fetchVars>>

Load(c) ==
    /\ tool = "code" /\ caller[c] = "loading"
    /\ cell' = [loaded |-> cell.loaded + 1, by |-> {}]
    /\ caller' = [caller EXCEPT ![c] = "searching"]
    /\ UNCHANGED <<tool, searchVars, fetchVars>>

UseLoaded(c) ==
    /\ tool = "code" /\ caller[c] = "start" /\ cell.loaded > 0
    /\ caller' = [caller EXCEPT ![c] = "searching"]
    /\ UNCHANGED <<tool, cell, searchVars, fetchVars>>

\* The worker answers or fails; arguments that do not parse fail at once.
Answer(c) ==
    /\ tool = "code" /\ caller[c] \in {"start", "searching"}
    /\ \E end \in {"failed"} \cup (IF caller[c] = "searching" THEN {"answered"} ELSE {}) :
         caller' = [caller EXCEPT ![c] = end]
    /\ UNCHANGED <<tool, cell, searchVars, fetchVars>>

-----------------------------------------------------------------------------
Next ==
    \/ \E e \in IsEngine : EngineAnswers(e)
    \/ Search \/ SearchRefused
    \/ Parse \/ Resolve \/ Send \/ Redirect \/ Refuse \/ ReadChunk \/ Extract \/ Timeout
    \/ SetServiceAddr \/ StoreCopy
    \/ \E c \in Callers : BeginLoad(c) \/ LoadFails(c) \/ Load(c) \/ UseLoaded(c) \/ Answer(c)

Spec == Init /\ [][Next]_vars

-----------------------------------------------------------------------------
(* Properties. *)

\* The places of a link in the list of an engine, and what the best of them adds.
PlacesOf(e, u) == {i \in DOMAIN HitsOf(e) : HitsOf(e)[i].url = u}
Fusion(u) ==
    MapThenFoldSet(+, 0, LAMBDA e : Score(Min(PlacesOf(e, u))), LAMBDA S : CHOOSE e \in S : TRUE,
                   {e \in IsEngine : PlacesOf(e, u) # {}})

\* "Reciprocal Rank Fusion sums one term per ranked list" (federation.rs): the
\* search returns each link once, the best sums first, leaves none out for a
\* worse one, and shows the longest snippet anyone gave for it.  It fails only
\* if no engine had a hit, and then names them all.
RanksAreFused ==
    /\ results.kind = "found" =>
         /\ \A i, j \in DOMAIN results.urls :
              i < j => LET u == results.urls[i] v == results.urls[j]
                       IN  Fusion(u) > Fusion(v) \/ (Fusion(u) = Fusion(v) /\ u < v)
         /\ \A e \in IsEngine : \A k \in DOMAIN HitsOf(e) :
              LET h == HitsOf(e)[k]
              IN  \/ /\ Contains(results.urls, h.url)
                     /\ merged[h.url].chunk >= h.chunk
                  \/ /\ Len(results.urls) = MaxResults
                     /\ Fusion(h.url) <= Fusion(Last(results.urls))
    /\ results.kind = "error" /\ (\E e \in IsEngine : answers[e] # Waiting) =>
         \A e \in IsEngine : HitsOf(e) = <<>> /\ e \in results.engines

\* A fetch connects only where it looked, however the resolver's answers change
\* from hop to hop; it makes one request more than it follows redirects, keeps no
\* more of a body than its limit, and a page it returns is in the cache whole,
\* under an address the client of the server can open.
FetchIsBounded ==
    /\ \A a \in asked : Safe(a[1], a[2])
    /\ fetch.hops <= MaxRedirects /\ fetch.body <= MaxBody
    /\ page.kind = "page" =>
         /\ cache.managed = (page.entry # {})
         /\ cache.managed => <<page.from, page.bytes>> \in files /\ "0.0.0.0" \notin page.entry

\* The engine is loaded once in the process, a load that failed is tried again by
\* the next caller, and nobody searches without it.
EngineLoadedOnce ==
    /\ cell.loaded <= 1
    /\ cell.by = {c \in Callers : caller[c] = "loading"}
    /\ (\E c \in Callers : caller[c] \in {"searching", "answered"}) => cell.loaded = 1

=============================================================================
