---------------------------- MODULE ContextWindow ---------------------------
(* Keeping one conversation inside its model's context window: the estimate   *)
(* before each provider call, the usage anchor it starts from, automatic      *)
(* compaction when the estimate or the provider says that the prompt does     *)
(* not fit, the history sent to the summarizer, the Compact action, and the   *)
(* loop around them.  A message is its kind, its size in tokens, and the Run  *)
(* whose initial input it is (0: none).                                       *)
EXTENDS Integers, Sequences, SequencesExt, FiniteSetsExt

CONSTANTS
  Window,       \* context_window_tokens
  OutputTokens, \* OUTPUT_TOKENS
  Sizes,        \* sizes of messages (bound)
  Drift,        \* what the provider counts beyond the estimate (bound)
  MaxRuns,      \* Runs of the conversation (bound)
  MaxLength     \* messages of the history (bound)

VARIABLES
  history,    \* messages of the head checkpoint
  stored,     \* latest_context_usage: what the newest llm_calls row says
  anchor,     \* run_claimed: context_usage_anchor
  phase,      \* where run_claimed is
  turn,       \* the Run: number, action, overflow_compacted
  request,    \* history of the provider call under way
  compacted,  \* the history as the Run's last compaction left it
  barren      \* compactions since a message last arrived (up to 3)

windowVars == <<history, stored, anchor, phase, turn, request, compacted, barren>>

NoAnchor == [tokens |-> 0, count |-> 0, set |-> FALSE]
PromptTokens == 1
UserKinds == {"context", "user", "summary"}     \* role User with Parts
Message(kind, size, run) == [kind |-> kind, size |-> size, run |-> run]

Init ==
  /\ history = <<>> /\ stored = NoAnchor /\ anchor = NoAnchor /\ phase = "idle"
  /\ turn = [run |-> 0, compact |-> FALSE, overflowed |-> FALSE]
  /\ request = <<>> /\ compacted = <<>> /\ barren = 0

----------------------------------------------------------------------------
(* Estimates (compaction.rs, token_count.rs)                                  *)

(* estimate_projected_messages_tokens                                         *)
Tokens(messages) ==
  LET sum[i \in 0..Len(messages)] == IF i = 0 THEN 0 ELSE sum[i - 1] + messages[i].size
  IN  sum[Len(messages)]
(* estimate_context_tokens                                                    *)
ContextTokens(messages) == PromptTokens + Tokens(messages)
(* context_budget                                                             *)
ContextBudget == Window - Window \div 10

(* estimated_tokens                                                           *)
EstimatedTokens(messages, a) ==
  IF a.set /\ a.count <= Len(messages)
  THEN a.tokens + Tokens(SubSeq(messages, a.count + 1, Len(messages)))
  ELSE ContextTokens(messages)

(* compaction_estimate, and the Compact action's exemption                    *)
MustCompact == ~turn.compact /\ EstimatedTokens(history, anchor) > ContextBudget

----------------------------------------------------------------------------
(* What is sent                                                               *)

(* user_terminated: a transient user message after an assistant's             *)
UserTerminated(messages) ==
  IF messages # <<>> /\ Last(messages).kind = "assistant"
  THEN Append(messages, Message("user", 1, 0))
  ELSE messages

(* is_turn_boundary                                                           *)
Boundaries(messages) == {i \in DOMAIN messages : messages[i].kind \in UserKinds}

(* trim_to_context: the newest whole turns that fit, or the newest turn       *)
TrimToContext(messages) ==
  LET budget == IF ContextBudget > OutputTokens THEN ContextBudget - OutputTokens ELSE 0
      tail(i) == SubSeq(messages, i, Len(messages))
      turns == Boundaries(messages)
      fits == {i \in turns : Tokens(tail(i)) <= budget}
  IN  IF budget = 0 \/ Tokens(messages) <= budget \/ turns = {} THEN messages
      ELSE IF fits # {} THEN tail(Min(fits)) ELSE tail(Max(turns))

(* compaction_history                                                         *)
CompactionHistory(messages) == UserTerminated(TrimToContext(messages))

(* partition: the newest request context and the Run's own input stay out     *)
LatestContext(messages) ==
  LET at == {i \in DOMAIN messages : messages[i].kind = "context"}
  IN  IF at = {} THEN 0 ELSE Max(at)
Compactable(messages) ==
  LET keep == {i \in DOMAIN messages : i # LatestContext(messages) /\ messages[i].run # turn.run}
  IN  SelectSeq([i \in DOMAIN messages |-> [at |-> i, m |-> messages[i]]], LAMBDA e : e.at \in keep)
Compacted(messages) == LET c == Compactable(messages) IN [i \in DOMAIN c |-> c[i].m]
Retained(messages) ==
  LET i == LatestContext(messages)
  IN  IF i # 0 /\ messages[i].run # turn.run THEN <<messages[i]>> ELSE <<>>

(* prepared.initial_messages, as they stand in the history                    *)
OwnInput(messages) == SelectSeq(messages, LAMBDA m : m.run = turn.run)

----------------------------------------------------------------------------
(* A Run                                                                      *)

Room(n) == Len(history) + n <= MaxLength
EndRun == phase' = "idle" /\ request' = <<>>

(* The call's row: usage is kept with the number of messages sent.            *)
Charge(reported, drift) ==
  stored' = IF reported
            THEN [tokens |-> ContextTokens(request) + drift, count |-> Len(request), set |-> TRUE]
            ELSE stored
(* update_context_usage_anchor: with the number of persisted messages         *)
Anchor(reported, drift) ==
  anchor' = IF reported
            THEN [tokens |-> ContextTokens(request) + drift, count |-> Len(history), set |-> TRUE]
            ELSE anchor

(* A new Run: on the head, or on an earlier turn that the user edits; with    *)
(* input of its own, or to resume, or to compact.                             *)
StartRun(base, input, compact) ==
  /\ phase = "idle" /\ turn.run < MaxRuns
  /\ base = Len(history) \/ base + 1 \in Boundaries(history)
  /\ base + Len(input) <= MaxLength
  /\ history' = SubSeq(history, 1, base) \o [i \in DOMAIN input |-> [input[i] EXCEPT !.run = turn.run + 1]]
  /\ history' # <<>>
  /\ anchor' = stored
  /\ turn' = [run |-> turn.run + 1, compact |-> compact, overflowed |-> FALSE]
  /\ phase' = "loop" /\ compacted' = <<>> /\ barren' = 0
  /\ UNCHANGED <<stored, request>>

(* The head of 'model: a provider call, or a compaction first                 *)
BeginCall ==
  /\ phase = "loop" /\ ~MustCompact
  /\ phase' = "calling" /\ request' = UserTerminated(history)
  /\ UNCHANGED <<history, stored, anchor, turn, compacted, barren>>

(* auto_compact, up to its provider call                                      *)
Compact(messages) ==
  IF Compacted(messages) = <<>> THEN EndRun /\ UNCHANGED barren
  ELSE /\ phase' = "compacting" /\ barren' = IF barren < 3 THEN barren + 1 ELSE 3
       /\ request' = CompactionHistory(Compacted(messages))

BeginCompaction ==
  /\ phase = "loop" /\ MustCompact
  /\ Compact(history)
  /\ UNCHANGED <<history, stored, anchor, turn, compacted>>

Replacement(summary) ==
  Retained(history) \o <<Message("summary", summary, 0)>> \o OwnInput(history)

(* Mutant: the anchor of the long history stays.                              *)
ReplaceKeepingAnchor(summary, inserted) ==
  IF ContextTokens(Replacement(summary)) > ContextBudget
  THEN EndRun /\ UNCHANGED <<history, anchor, compacted>>
  ELSE /\ history' = Replacement(summary) \o inserted
       /\ compacted' = Replacement(summary)
       /\ phase' = "loop" /\ request' = <<>> /\ UNCHANGED anchor
Replace(summary, inserted) ==
  IF ContextTokens(Replacement(summary)) > ContextBudget
  THEN EndRun /\ UNCHANGED <<history, anchor, compacted>>
  ELSE /\ history' = Replacement(summary) \o inserted
       /\ compacted' = Replacement(summary)
       /\ phase' = "loop" /\ request' = <<>> /\ anchor' = NoAnchor

(* The summarizer answers; when it fails, calls tools, says nothing, is       *)
(* interrupted by a message, or is stopped by the Run's cancellation token    *)
(* before the Cancel command is read, fallback_summary takes its place.       *)
Summarized(summary, inserted, reported, drift) ==
  /\ phase = "compacting"
  /\ Len(Replacement(summary)) + Len(inserted) <= MaxLength
  /\ Charge(reported, drift)
  /\ Replace(summary, inserted)
  /\ barren' = IF inserted = <<>> THEN barren ELSE 0
  /\ UNCHANGED turn

(* RunCommand::Cancel, a stray tool result, or a closed channel               *)
CompactionStopped ==
  /\ phase = "compacting" /\ EndRun
  /\ UNCHANGED <<history, stored, anchor, turn, compacted, barren>>

(* A final answer; messages inserted meanwhile keep the Run going.            *)
Answered(size, inserted, reported, drift) ==
  /\ phase = "calling" /\ ~turn.compact /\ Room(1 + Len(inserted))
  /\ history' = Append(history, Message("assistant", size, 0)) \o inserted
  /\ Charge(reported, drift) /\ Anchor(reported, drift)
  /\ IF inserted = <<>> THEN EndRun ELSE phase' = "loop" /\ request' = <<>>
  /\ barren' = 0 /\ UNCHANGED <<turn, compacted>>

(* A round of tools, its results, and messages inserted meanwhile             *)
CalledTools(size, inserted, reported, drift) ==
  /\ phase = "calling" /\ ~turn.compact /\ Room(2 + Len(inserted))
  /\ history' = history \o <<Message("call", 1, 0), Message("tool", size, 0)>> \o inserted
  /\ Charge(reported, drift) /\ Anchor(reported, drift)
  /\ phase' = "loop" /\ request' = <<>>
  /\ barren' = 0 /\ UNCHANGED <<turn, compacted>>

(* The Compact action's answer replaces everything.                           *)
CompactAnswered(size, reported, drift) ==
  /\ phase = "calling" /\ turn.compact
  /\ history' = <<Message("summary", size, 0)>>
  /\ Charge(reported, drift) /\ Anchor(reported, drift)
  /\ EndRun /\ UNCHANGED <<turn, compacted, barren>>

(* The provider refuses the prompt as too long: one compaction per Run.       *)
Refused ==
  /\ phase = "calling"
  /\ ContextTokens(request) + Drift > Window
  /\ IF turn.overflowed \/ turn.compact
     THEN EndRun /\ UNCHANGED <<turn, barren>>
     ELSE Compact(history) /\ turn' = [turn EXCEPT !.overflowed = TRUE]
  /\ UNCHANGED <<history, stored, anchor, compacted>>

(* Any other failure, or a cancellation                                       *)
CallFailed ==
  /\ phase = "calling" /\ EndRun
  /\ UNCHANGED <<history, stored, anchor, turn, compacted, barren>>

Inputs == {<<>>} \cup {<<Message("user", s, 0)>> : s \in Sizes}
                 \cup {<<Message("context", 1, 0), Message("user", s, 0)>> : s \in Sizes}
Inserted == {<<>>, <<Message("user", 1, 0)>>}

Next ==
  \/ \E base \in 0..Len(history), input \in Inputs : StartRun(base, input, FALSE)
  \/ StartRun(Len(history), <<>>, TRUE)
  \/ BeginCall \/ BeginCompaction \/ CompactionStopped \/ CallFailed \/ Refused
  \/ \E size \in Sizes, inserted \in Inserted, reported \in BOOLEAN, drift \in {0, Drift} :
       \/ Summarized(size, inserted, reported, drift)
       \/ Answered(size, inserted, reported, drift)
       \/ CalledTools(size, inserted, reported, drift)
  \/ \E size \in Sizes, reported \in BOOLEAN : CompactAnswered(size, reported, Drift)

Spec == Init /\ [][Next]_windowVars

----------------------------------------------------------------------------
Paired(messages) ==
  \A i \in DOMAIN messages :
    /\ messages[i].kind = "tool" => i > 1 /\ messages[i - 1].kind = "call"
    /\ messages[i].kind = "call" => i < Len(messages) /\ messages[i + 1].kind = "tool"

(* Whatever is trimmed, partitioned or replaced, a tool result is never sent  *)
(* or kept without its call, nor a call without its result, and a request is  *)
(* not empty and does not end with the assistant (compaction_history's two    *)
(* requirements on what providers accept).                                    *)
RequestsAcceptable ==
  /\ Paired(history) /\ Paired(request)
  /\ phase \in {"calling", "compacting"} => request # <<>> /\ Last(request).kind # "assistant"

InputStep ==
    phase # "idle" => OwnInput(history') = OwnInput(history) \/ turn.compact

(* However often a Run compacts, the input it was started with stays in the   *)
(* history, once and in order (current_ids keep it out of the summary, and    *)
(* auto_compact puts it back).                                                *)
InputKept == [][InputStep]_windowVars

ContextStep ==
    phase = "compacting" /\ LatestContext(history) # 0 =>
      history[LatestContext(history)] \in Range(history')

(* Automatic compaction never takes away the newest request context.          *)
ContextKept == [][ContextStep]_windowVars

SettlingStep ==
    BeginCompaction => history # compacted

(* A compaction settles its estimate: the engine does not compact again the   *)
(* history that a compaction has just left, because the anchor of the long    *)
(* history is forgotten and the replacement was validated.                    *)
CompactionSettles == [][SettlingStep]_windowVars

(* Refusals and estimates alone cannot keep a Run compacting: between two     *)
(* messages that arrive it compacts at most twice, once for the estimate and  *)
(* once for a refusal (overflow_compacted).                                   *)
CompactionBounded == barren <= 2

(* The comment at engine.rs:239: the usage anchor counts persisted messages   *)
(* only, not the transient tail.                                              *)
AnchorCountsPersisted ==
  [][phase = "calling" /\ stored' # stored => stored'.count <= Len(history)]_windowVars

-----------------------------------------------------------------------------
(***************************************************************************)
(* The breakdown of a conversation's tokens by category that goes with     *)
(* every checkpoint.  The runtime's context is one text with tagged parts; *)
(* a part is measured under its category and the rest as conversation, and *)
(* the estimates are fitted to the tokens the provider counted.            *)
(*                                                                         *)
(* A text is a sequence of marks: an opening or a closing tag, or "a", an  *)
(* ASCII character, or "w", another one; each counts as one character.     *)
(***************************************************************************)

CONSTANTS
    Tags,      \* the tags that occur, of the ones measure_runtime looks for
    MaxText,   \* bound on the context's marks
    Used,      \* the token counts the provider may report
    MaxReports    \* bound on the runs

VARIABLES
    text,      \* the runtime's context
    baseline,  \* the summary in the breakdown the run started from
    shown,     \* the breakdown written for this text, if one was
    used,      \* its total
    runs

usageVars == <<text, baseline, shown, used, runs>>

Special == <<"system_prompt", "tools", "rules", "skills", "mcp", "subagents",
             "summarized_conversation">>
Categories == ToSet(Special) \cup {"conversation"}

(* The tags in the order they are looked for, with their categories. *)
Looked == <<<<"rules", "rules">>, <<"rule", "rules">>, <<"agent_skills", "skills">>,
            <<"skill", "skills">>, <<"subagents", "subagents">>, <<"mcp_meta_tools", "mcp">>,
            <<"conversation_summary", "summarized_conversation">>>>

Open(tag) == <<"open", tag>>
Close(tag) == <<"close", tag>>
Marks == {<<"a", "">>, <<"w", "">>} \cup {Open(tag) : tag \in Tags} \cup {Close(tag) : tag \in Tags}

NoPart == [tokens |-> 0, characters |-> 0]
NoBreakdown == [c \in Categories |-> NoPart]

UsageInit ==
    /\ text = <<>> /\ baseline = NoPart /\ shown = NoBreakdown
    /\ used = 0 /\ runs = 0

-----------------------------------------------------------------------------
(* The ranges of a text. *)

(* The opening of a tag is sought without its end: "<rule" is found in      *)
(* "<rules>" too.                                                           *)
OpensWith(mark, tag) ==
    mark[1] = "open" /\ (mark[2] = tag \/ (tag = "rule" /\ mark[2] = "rules"))

(* collect_ranges, from a position on; a range is <<first, last, category>>.*)
Ranges[tag \in {Looked[i] : i \in 1..Len(Looked)}, from \in 1..(MaxText + 1)] ==
    LET starts == {i \in from..Len(text) : OpensWith(text[i], tag[1])}
        ends == {j \in (Min(starts) + 1)..Len(text) : text[j] = Close(tag[1])}
    IN IF starts = {} THEN <<>>
       ELSE IF ends = {} THEN <<>>
       ELSE <<<<Min(starts), Min(ends), tag[2]>>>> \o Ranges[tag, Min(ends) + 1]

CollectRanges ==
    FlattenSeq([i \in 1..Len(Looked) |-> Ranges[Looked[i], 1]])

(* Sorted by their start; the sort keeps the order of equal ones. *)
Sorted(ranges) ==
    LET before(i) == {j \in 1..Len(ranges) :
                         ranges[j][1] < ranges[i][1] \/ (ranges[j][1] = ranges[i][1] /\ j < i)}
    IN [n \in 1..Len(ranges) |->
          ranges[CHOOSE i \in 1..Len(ranges) : Cardinality(before(i)) = n - 1]]

Weight(mark) == IF mark[1] = "w" THEN 550 ELSE 273

(* Measure::add *)
Add(measures, category, marks) ==
    [measures EXCEPT ![category] =
        [characters |-> @.characters + Len(marks),
         units |-> FoldLeft(LAMBDA u, mark : u + Weight(mark), @.units, marks)]]

(* measure_runtime: a range that starts inside the one before is skipped. *)
MeasureRuntime(measures) ==
    LET step(acc, range) ==
            IF range[1] < acc.cursor THEN acc
            ELSE [cursor |-> range[2] + 1,
                  measures |-> Add(Add(acc.measures, "conversation",
                                       SubSeq(text, acc.cursor, range[1] - 1)),
                                   range[3], SubSeq(text, range[1], range[2]))]
        end == FoldLeft(step, [cursor |-> 1, measures |-> measures], Sorted(CollectRanges))
    IN Add(end.measures, "conversation", SubSeq(text, end.cursor, Len(text)))

NoMeasure == [c \in Categories |-> [characters |-> 0, units |-> 0]]

BreakdownTokens(measure) == (measure.units + 999) \div 1000

-----------------------------------------------------------------------------
(* The fitting. *)

Total(estimates) == FoldLeft(LAMBDA n, c : n + estimates[c], 0, Special)

(* fit_special_estimates: the shares are rounded down, and the ones with    *)
(* the largest remainders get one more.                                     *)
FitSpecialEstimates(estimates, total) ==
    LET special == Total(estimates)
        share(c) == (estimates[c] * total) \div special
        rest(c) == (estimates[c] * total) % special
        remainder == total - FoldLeft(LAMBDA n, c : n + share(c), 0, Special)
        before(i) == {j \in 1..Len(Special) :
                         rest(Special[j]) > rest(Special[i])
                         \/ (rest(Special[j]) = rest(Special[i]) /\ j < i)}
        lucky == {Special[i] : i \in {n \in 1..Len(Special) : Cardinality(before(n)) < remainder}}
    IN IF special <= total THEN estimates
       ELSE [c \in DOMAIN estimates |-> share(c) + (IF c \in lucky THEN 1 ELSE 0)]

(* breakdown.  The prompt and the tools are the same in every checkpoint; a *)
(* summary no message holds any more is taken from the baseline.            *)
Breakdown(total) ==
    LET prompt == Add(Add(NoMeasure, "system_prompt", <<<<"a", "">>, <<"a", "">>>>),
                      "tools", <<<<"a", "">>>>)
        measured == MeasureRuntime(prompt)
        summary == "summarized_conversation"
        estimates == [c \in ToSet(Special) |->
            IF c = summary /\ measured[c].characters = 0 THEN baseline.tokens
            ELSE BreakdownTokens(measured[c])]
        fitted == FitSpecialEstimates(estimates, total)
    IN [c \in Categories |->
          [tokens |-> IF c = "conversation" THEN total - Min({Total(fitted), total})
                      ELSE fitted[c],
           characters |-> IF c = summary /\ measured[c].characters = 0
                          THEN baseline.characters ELSE measured[c].characters]]

-----------------------------------------------------------------------------
Say(mark) ==
    /\ Len(text) < MaxText
    /\ text' = Append(text, mark)
    /\ shown' = NoBreakdown /\ used' = 0
    /\ UNCHANGED <<baseline, runs>>

(* build_state writes the breakdown of a checkpoint. *)
BuildState(total) ==
    /\ shown' = Breakdown(total) /\ used' = total
    /\ UNCHANGED <<text, baseline, runs>>

(* The next run starts from the last checkpoint, with a new context. *)
NextRun ==
    /\ runs < MaxReports
    /\ runs' = runs + 1 /\ text' = <<>>
    /\ baseline' = shown["summarized_conversation"]
    /\ shown' = NoBreakdown /\ used' = 0

UsageNext ==
    \/ \E mark \in Marks : Say(mark)
    \/ \E total \in Used : BuildState(total)
    \/ NextRun

UsageSpec == UsageInit /\ [][UsageNext]_usageVars

-----------------------------------------------------------------------------
(* The categories of a breakdown add up to the tokens that were used, no    *)
(* matter how the estimates compare with the provider's count (breakdown,   *)
(* fit_special_estimates).                                                  *)
SumsToUsed == Total([c \in Categories |-> shown[c].tokens]) + shown["conversation"].tokens = used

(* Every character of the context is measured once, under one category,     *)
(* though tags nest, overlap and stay open (measure_runtime).               *)
MeasuredOnce ==
    LET measured == MeasureRuntime(NoMeasure)
    IN FoldSet(LAMBDA c, n : n + measured[c].characters, 0, Categories) = Len(text)

(* Whatever stands between the first tag and its end, with no tag before    *)
(* it, is not conversation: a rule within the rules is no second part, and  *)
(* "<rule" found in "<rules>" changes nothing while the rules are closed    *)
(* (collect_ranges).                                                        *)
PartsAreNotConversation ==
    \A tag \in Tags, last \in 1..Len(text) :
        /\ text # <<>> /\ text[1] = Open(tag) /\ text[last] = Close(tag)
        /\ \A i \in 2..(last - 1) : text[i] # Close(tag)
        => MeasureRuntime(NoMeasure)["conversation"].characters <= Len(text) - last
=============================================================================
