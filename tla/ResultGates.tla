----------------------------- MODULE ResultGates ------------------------------
(***************************************************************************)
(* The gate a finished tool call passes (tool_call_result/gate.rs): what   *)
(* of a result made of many texts is kept for the model.  Grep contents    *)
(* share one budget of bytes and matches, the texts of an MCP result share *)
(* one budget of bytes, web references are dropped from the end, lists     *)
(* are shortened.  How one text is cut is the second part of the module;   *)
(* here a cut text has exactly the bytes it was cut to.                    *)
(***************************************************************************)
EXTENDS Integers, Sequences, SequencesExt, FiniteSetsExt

CONSTANTS
    Results,        \* results to gate, one record per kind (see Init)
    TextLimit,      \* GREP_CONTENT_LIMIT, MCP_TEXT_LIMIT, WEB_SEARCH_LIMIT
    MatchLimit,     \* GREP_MATCH_LIMIT, WEB_SEARCH_SNIPPET_LIMIT
    PerFile,        \* GREP_MATCHES_PER_FILE
    TotalMatches,   \* GREP_TOTAL_MATCHES
    ListLimit,      \* MCP_CONTENT_ITEM_LIMIT, GLOB_FILE_LIMIT, GREP_LIST_LIMIT
    Notice          \* bytes of a truncation notice

VARIABLES
    given,     \* the result as the tool returned it
    at,        \* the gate it is in, or "done"
    contents,  \* grep: contents not gated yet, after the current one
    left,      \* parts of the current content not looked at yet
    kept,      \* parts of the current content kept so far
    room,      \* bytes left of the budget
    slots,     \* grep: matches left of the budget
    cut,       \* something of the current content was left out
    gated      \* contents done: [parts, notices, total]

gateVars == <<given, at, contents, left, kept, room, slots, cut, gated>>

Lesser(a, b) == IF a <= b THEN a ELSE b
Positive(a) == IF a < 0 THEN 0 ELSE a
Bytes(parts) == FoldLeft(LAMBDA sum, p : sum + p.bytes, 0, parts)
CutTo(part, limit) == [part EXCEPT !.bytes = Lesser(@, limit)]

\* gate_mcp: the first items, and one notice for each limit that was passed
\* before the texts are looked at.
McpItems(r) == SubSeq(r.items, 1, Lesser(Len(r.items), ListLimit))
McpNotices(r) ==
    (IF r.structured THEN 1 ELSE 0) + (IF Len(r.items) > ListLimit THEN 1 ELSE 0)

\* gate_web_search: each title and snippet first gets its own limit.
Trimmed(references) ==
    [i \in DOMAIN references |-> CutTo(references[i], MatchLimit)]

\* given is [kind |-> "grep", contents |-> <<match, ...>>s], in the order of
\* the sorted workspace names, the active editor last; [kind |-> "mcp", items,
\* structured]; [kind |-> "web", references]; or [kind |-> "list", files, total].
\* A match is [file, bytes, blank], an item [image, bytes].
Init ==
    /\ given \in Results
    /\ at = given.kind
    /\ contents = IF given.kind = "grep" THEN Tail(given.contents) ELSE <<>>
    /\ left = CASE given.kind = "grep" -> Head(given.contents)
                [] given.kind = "mcp"  -> McpItems(given)
                [] given.kind = "web"  -> Trimmed(given.references)
                [] given.kind = "list" -> <<>>
    /\ kept = <<>>
    /\ room = TextLimit
    /\ slots = TotalMatches
    /\ cut = FALSE
    /\ gated = <<>>

-----------------------------------------------------------------------------
(* Grep.                                                                   *)

KeptOf(file) == Len(SelectSeq(kept, LAMBDA m : m.file = file))

SkipFile(file) ==
    /\ left' = SelectSeq(left, LAMBDA m : m.file # file)
    /\ cut' = TRUE
    /\ UNCHANGED <<given, at, contents, kept, room, slots, gated>>

\* A match too many, or no budget left: the rest of the file is skipped.
GrepFull ==
    /\ at = "grep"
    /\ left # <<>>
    /\ \/ KeptOf(Head(left).file) >= PerFile
       \/ slots = 0
       \/ room = 0
    /\ SkipFile(Head(left).file)

\* The bytes taken from the budget are those of the match as it was cut.
Spent(short) == Positive(room - short.bytes)

ShortenedByLimit(match, short) == match.bytes > MatchLimit

Shortened(match, short) == short # match

\* A match cut to what is left of the budget may hold nothing but blanks; a
\* match that is blank ends its file as well.
GrepMatch ==
    /\ at = "grep"
    /\ left # <<>>
    /\ KeptOf(Head(left).file) < PerFile /\ slots > 0 /\ room > 0
    /\ LET match == Head(left)
           short == CutTo(CutTo(match, MatchLimit), room)
       IN  \/ /\ match.blank \/ (short.bytes = room /\ short.bytes < match.bytes)
              /\ SkipFile(match.file)
           \/ /\ ~match.blank
              /\ left' = Tail(left)
              /\ kept' = Append(kept, short)
              /\ room' = Spent(short)
              /\ slots' = slots - 1
              /\ cut' = (cut \/ Shortened(match, short))
              /\ UNCHANGED <<given, at, contents, gated>>

NextContent(parts, notices) ==
    /\ gated' = Append(gated, [parts |-> parts, notices |-> notices, total |-> 0])
    /\ at' = IF contents = <<>> THEN "done" ELSE "grep"
    /\ left' = IF contents = <<>> THEN <<>> ELSE Head(contents)
    /\ contents' = IF contents = <<>> THEN <<>> ELSE Tail(contents)
    /\ kept' = <<>>
    /\ cut' = FALSE
    /\ UNCHANGED <<given, room, slots>>

\* add_grep_notice: matches are dropped from the end until the notice fits.
NoticeFits(parts) == Bytes(parts) + Notice <= TextLimit

GrepEnd ==
    /\ at = "grep"
    /\ left = <<>>
    /\ \/ ~cut /\ NextContent(kept, 0)
       \/ cut /\ NoticeFits(kept) /\ NextContent(kept, 1)
       \/ /\ cut /\ ~NoticeFits(kept)
          /\ kept' = Front(kept)
          /\ UNCHANGED <<given, at, contents, left, room, slots, cut, gated>>

-----------------------------------------------------------------------------
(* MCP contents, web references and lists.                                 *)

\* An image is never cut; a text gets what is left, and is left out at zero.
McpItem ==
    /\ at = "mcp"
    /\ left # <<>>
    /\ LET item == Head(left)
           whole == CutTo(item, TextLimit)
           short == CutTo(whole, room)
       IN  \/ /\ item.image
              /\ kept' = Append(kept, item)
              /\ UNCHANGED <<room, cut>>
           \/ /\ ~item.image /\ room = 0
              /\ cut' = (cut \/ item.bytes > 0)
              /\ UNCHANGED <<kept, room>>
           \/ /\ ~item.image /\ room > 0
              /\ kept' = Append(kept, short)
              /\ room' = room - short.bytes
              /\ cut' = (cut \/ short # whole)
    /\ left' = Tail(left)
    /\ UNCHANGED <<given, at, contents, slots, gated>>

McpNoticesOfText(r) == McpNotices(r) + (IF cut THEN 1 ELSE 0)

McpEnd ==
    /\ at = "mcp"
    /\ left = <<>>
    /\ gated' = <<[parts |-> kept, notices |-> McpNoticesOfText(given), total |-> 0]>>
    /\ at' = "done"
    /\ UNCHANGED <<given, contents, left, kept, room, slots, cut>>

Size(references) ==
    FoldLeft(LAMBDA sum, r : sum + r.link + r.bytes, 0, references)

Pops(references) == Len(references) > 1 /\ Size(references) > TextLimit

WebPop ==
    /\ at = "web"
    /\ Pops(left)
    /\ left' = Front(left)
    /\ UNCHANGED <<given, at, contents, kept, room, slots, cut, gated>>

\* The last reference left gives way to the notice.
WebEnd ==
    /\ at = "web"
    /\ ~Pops(left)
    /\ LET over  == Size(Trimmed(given.references)) > TextLimit
           other == Size(left) - Last(left).bytes
       IN  gated' = <<[parts |-> IF over /\ left # <<>>
                                 THEN [left EXCEPT ![Len(left)] =
                                         CutTo(@, Positive(TextLimit - (other + Notice)))]
                                 ELSE left,
                       notices |-> IF over /\ left # <<>> THEN 1 ELSE 0,
                       total |-> 0]>>
    /\ at' = "done"
    /\ UNCHANGED <<given, contents, left, kept, room, slots, cut>>

\* gate_glob, and the files and counts of a grep: the list is shortened, the
\* client's own total is kept, unless it is missing or (glob) too small.
TotalOf(r) ==
    IF r.total <= 0 THEN r.files
    ELSE IF r.glob /\ r.files > ListLimit /\ r.total < r.files THEN r.files
    ELSE r.total

GateList ==
    /\ at = "list"
    /\ gated' = <<[parts |-> <<Lesser(given.files, ListLimit)>>,
                   notices |-> IF given.files > ListLimit THEN 1 ELSE 0,
                   total |-> TotalOf(given)]>>
    /\ at' = "done"
    /\ UNCHANGED <<given, contents, left, kept, room, slots, cut>>

Next ==
    GrepFull \/ GrepMatch \/ GrepEnd \/ McpItem \/ McpEnd \/ WebPop \/ WebEnd \/ GateList

Spec == Init /\ [][Next]_gateVars

-----------------------------------------------------------------------------
(* Properties.                                                             *)

\* However many workspaces a grep searched, the matches kept of all of them
\* stay within one budget of matches and of bytes, and each content has room
\* for its notice.
GrepBudgetShared ==
    given.kind = "grep" =>
      LET all == FlattenSeq([i \in DOMAIN gated |-> gated[i].parts]) \o kept
      IN  /\ Len(all) <= TotalMatches
          /\ Bytes(all) <= TextLimit
          /\ \A i \in DOMAIN gated :
                Bytes(gated[i].parts) + gated[i].notices * Notice <= TextLimit

NonEmpty(parts) == SelectSeq(parts, LAMBDA p : p.bytes > 0)

\* Nothing is left out in silence: a result that is not the one the tool
\* returned carries a notice, or the text that was cut does.
NothingDroppedSilently ==
    at = "done" =>
      CASE given.kind = "grep" ->
             \A i \in DOMAIN gated :
               gated[i].parts # given.contents[i] => gated[i].notices = 1
        [] given.kind = "mcp" ->
             \/ gated[1].notices > 0
             \/ NonEmpty(gated[1].parts) =
                  NonEmpty([i \in DOMAIN given.items |->
                     IF given.items[i].image THEN given.items[i]
                     ELSE CutTo(given.items[i], TextLimit)])
        [] given.kind = "web" ->
             gated[1].notices = 1 \/ gated[1].parts = Trimmed(given.references)
        [] given.kind = "list" ->
             gated[1].total > gated[1].parts[1] \/ given.files = gated[1].parts[1]

\* The references kept cost no more than the limit and one notice, unless a
\* single link is longer than the limit.
WebBounded ==
    (at = "done" /\ given.kind = "web") =>
      \/ Len(gated[1].parts) = 1
      \/ Size(gated[1].parts) + gated[1].notices * Notice <= TextLimit + Notice

\* "[truncated: Grep result exceeded 32768 bytes; ...]" is said only of a grep
\* that passed one of the limits.
GrepNoticeIsTrue ==
    given.kind = "grep" =>
      \A i \in DOMAIN gated : gated[i].notices = 1 =>
        \/ Bytes(FlattenSeq(given.contents)) > TextLimit
        \/ Len(FlattenSeq(given.contents)) > TotalMatches
        \/ \E j \in DOMAIN given.contents[i] :
              \/ given.contents[i][j].bytes > MatchLimit
              \/ Len(SelectSeq(given.contents[i],
                       LAMBDA m : m.file = given.contents[i][j].file)) > PerFile

-----------------------------------------------------------------------------
(***************************************************************************)
(* Cutting one text of a tool result to a number of bytes, as done when    *)
(* the result is completed (tool_call_result/gate.rs) and again when the   *)
(* conversation is replayed (model/tool_result_replay.rs).                 *)
(*                                                                         *)
(* The notice put in place of the rest tells how many bytes are shown.     *)
(* Its own length depends on the digits of that number, so each function   *)
(* looks for the number in a loop; one action is one turn of the loop.  A  *)
(* text is its length, the width of its characters and one run of          *)
(* newlines; the words of a notice are their length.                       *)
(***************************************************************************)

CONSTANTS
    Jobs,        \* texts to cut: [cut, limit, name, length, width, blank]
    MaxTurns     \* bound on the turns of a loop that does not end

VARIABLES
    job,         \* the text being cut
    inLoop,      \* the loop it is in, or "done"
    shown,       \* bytes the notice of this turn will tell
    previous,    \* {bytes told the turn before}
    turns,       \* turns taken so far
    output       \* [kept, told, bytes]: bytes kept, bytes told, total length

limitVars == <<job, inLoop, shown, previous, turns, output>>

Least(a, b) == IF a <= b THEN a ELSE b
Saturating(a) == IF a < 0 THEN 0 ELSE a

Digits(n) == IF n < 10 THEN 1 ELSE IF n < 100 THEN 2 ELSE IF n < 1000 THEN 3
             ELSE IF n < 10000 THEN 4 ELSE IF n < 100000 THEN 5
             ELSE IF n < 1000000 THEN 6 ELSE 7

\* "\n\n[truncated: {name} result exceeded {limit} bytes; showing {told} of
\* {original} bytes]", and the longer one of a text cut in the middle.
NoticeLen(told) ==
    (IF job.cut \in {"edges", "middle"} THEN 76 ELSE 58)
      + job.name + Digits(job.limit) + Digits(told) + Digits(job.length)

\* What the notice leaves for the text.
Available(told) == Saturating(job.limit - NoticeLen(told))
TooLong(told) == NoticeLen(told) >= job.limit

\* Both stop at the boundary of a character.
Utf8Prefix(limit) ==
    LET end == Least(limit, job.length) IN end - (end % job.width)
Utf8Suffix(limit) ==
    LET start == Saturating(job.length - limit)
    IN  job.length - Least(job.length,
                           start + ((job.width - (start % job.width)) % job.width))

\* The newlines at the end of the first `end' bytes are not kept.
TrimEnd(end) ==
    IF job.blank[1] < end /\ end <= job.blank[2] THEN job.blank[1] ELSE end

Whole(j) == [kept |-> j.length, told |-> j.length, bytes |-> j.length]

LimitInit ==
    /\ job \in Jobs
    /\ shown = job.limit
    /\ previous = {}
    /\ turns = 0
    /\ inLoop = IF job.length <= job.limit THEN "done" ELSE job.cut
    /\ output = Whole(job)

Return(out) ==
    /\ inLoop' = "done"
    /\ output' = out
    /\ UNCHANGED <<job, shown, previous, turns>>

Turn(loop, next, last) ==
    /\ turns < MaxTurns
    /\ turns' = turns + 1
    /\ inLoop' = loop
    /\ shown' = next
    /\ previous' = last
    /\ UNCHANGED <<job, output>>

PlainPrefix ==
    [kept |-> Utf8Prefix(job.limit), told |-> Utf8Prefix(job.limit),
     bytes |-> Utf8Prefix(job.limit)]

-----------------------------------------------------------------------------
(* truncate_text (gate.rs), which is also called with what is left of a    *)
(* budget and so with limits of any size.                                  *)

Found(keeps) == keeps = shown \/ previous = {keeps}

TruncateText ==
    /\ inLoop = "text"
    /\ LET keeps == Utf8Prefix(Available(shown)) IN
       \/ /\ TooLong(shown)
          /\ Return(PlainPrefix)
       \/ /\ ~TooLong(shown)
          /\ Found(keeps)
          /\ Turn("prefix", keeps, {})
       \/ /\ ~TooLong(shown)
          /\ ~Found(keeps)
          /\ Turn("text", keeps, {shown})

\* truncated_prefix_with_notice: `shown' is the cap of this turn.
PrefixWithNotice ==
    /\ inLoop = "prefix"
    /\ LET keeps == TrimEnd(Utf8Prefix(shown)) IN
       IF TooLong(keeps) THEN Return(PlainPrefix)
       ELSE IF keeps <= Available(keeps)
            THEN Return([kept |-> keeps, told |-> keeps, bytes |-> keeps + NoticeLen(keeps)])
            ELSE Turn("prefix", Available(keeps), {})

-----------------------------------------------------------------------------
(* The other three have a fixed limit for every tool.                      *)

Halves(available) ==
    LET head == Utf8Prefix(available \div 2)
    IN  head + Utf8Suffix(available - head)

\* truncate_edges (gate.rs): the middle of a shell output is left out.
TruncateEdges ==
    /\ inLoop = "edges"
    /\ LET keeps == Halves(Available(shown)) IN
       \/ /\ keeps = shown
          /\ Return([kept |-> keeps, told |-> shown, bytes |-> keeps + NoticeLen(shown)])
       \/ /\ keeps # shown
          /\ Turn("edges", keeps, {})

\* truncate_replay_text (tool_result_replay.rs).
TruncateReplay ==
    /\ inLoop = "replay"
    /\ LET keeps == Utf8Prefix(Available(shown)) IN
       \/ /\ keeps = shown
          /\ Return([kept |-> TrimEnd(keeps), told |-> shown,
                     bytes |-> TrimEnd(keeps) + NoticeLen(shown)])
       \/ /\ keeps # shown
          /\ Turn("replay", keeps, {})

\* truncate_middle (tool_result_replay.rs).
TruncateMiddle ==
    /\ inLoop = "middle"
    /\ LET keeps   == Halves(Available(shown))
           length == keeps + NoticeLen(keeps)
       IN  IF length <= job.limit \/ keeps = shown
           THEN Return([kept |-> keeps, told |-> keeps, bytes |-> length])
           ELSE Turn("middle", keeps, {})

LimitNext ==
    TruncateText \/ PrefixWithNotice \/ TruncateEdges \/ TruncateReplay \/ TruncateMiddle

LimitSpec == LimitInit /\ [][LimitNext]_limitVars

-----------------------------------------------------------------------------
(* Properties.                                                             *)

\* "the result never costs more than `limit` bytes" (gate.rs), with whatever
\* remains of a budget as the limit, for characters of any width.
WithinLimit == inLoop = "done" => output.bytes <= job.limit

\* The loops settle on a number although the length of the notice goes up and
\* down with its digits: no text keeps one of them turning.
LoopsSettle == turns < MaxTurns

\* A notice never tells fewer bytes than the text before it has, and the text
\* is cut only where a character ends.
NoticeCovers ==
    inLoop = "done" =>
      /\ output.kept <= output.told
      /\ output.kept % job.width = 0 \/ output.kept = job.length
=============================================================================
