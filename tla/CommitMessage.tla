----------------------------- MODULE CommitMessage -----------------------------
(***************************************************************************)
(* The message of a Git commit, written by a local model: the diffs cut to *)
(* a budget, the stream read up to a deadline, the completion cleaned.     *)
(*                                                                         *)
(* A diff and a former message are their length after trimming; a          *)
(* completion is a sequence of lines, a line a sequence of words, "fence"  *)
(* and "label" being the ones the cleaning looks for.                      *)
(***************************************************************************)
EXTENDS Naturals, Sequences, FiniteSetsExt, SequencesExt

CONSTANTS
    Asks,         \* the requests: [direct, known, diffs, previous, timeout]
    Completions,  \* what the model may write, line by line
    TotalLimit, SingleLimit, PreviousLimit,
    Notice,       \* the length of "\n...[truncated]"
    Margin,       \* what the deadline leaves of the client's timeout
    Generation    \* GENERATION_TIMEOUT

VARIABLES
    ask,       \* the request being answered
    at,        \* "asked", "forwarded", "generating", "answered" or "failed"
    prompt,    \* [diffs, previous] sent to the model
    now,       \* the time since generation began
    reply,     \* what the model is writing
    text,      \* the lines received
    finished,  \* "no", "done", "cut" at the deadline, or "ended" without Done
    message    \* the answer

commitVars == <<ask, at, prompt, now, reply, text, finished, message>>

Init ==
    /\ ask \in Asks
    /\ at = "asked" /\ prompt = [diffs |-> <<>>, previous |-> <<>>] /\ now = 0
    /\ reply \in Completions
    /\ text = <<>> /\ finished = "no" /\ message = <<>>

-----------------------------------------------------------------------------
(* The prompt. *)

Fewer(a, b) == IF a < b THEN a ELSE b

(* truncate_text: the length of what is left of a text.  The cut may end in *)
(* blanks, which are trimmed; the longest result is the one modelled.       *)
TruncateText(length, limit) ==
    IF length = 0 \/ limit = 0 THEN 0
    ELSE IF length <= limit THEN length ELSE limit + Notice

Monus(a, b) == IF a > b THEN a - b ELSE 0

(* truncate_diffs *)
TruncateDiffs(input) ==
    LET step(acc, length) ==
            LET cut == TruncateText(length, Fewer(acc.left, SingleLimit)) IN
            IF length = 0 \/ acc.left = 0 \/ cut = 0 THEN acc
            ELSE [left |-> Monus(acc.left, cut), result |-> Append(acc.result, cut)]
    IN FoldLeft(step, [left |-> TotalLimit, result |-> <<>>], input).result

(* truncate_previous_commits *)
TruncatePreviousCommits(input) ==
    LET given == SelectSeq(input, LAMBDA n : n > 0)
    IN SubSeq(given, 1, Fewer(Len(given), PreviousLimit))

BuildUserContent ==
    [diffs |-> TruncateDiffs(ask.diffs), previous |-> TruncatePreviousCommits(ask.previous)]

-----------------------------------------------------------------------------
(* The handler. *)

ForwardDirect ==
    /\ at = "asked" /\ ask.direct
    /\ at' = "forwarded"
    /\ UNCHANGED <<ask, prompt, now, reply, text, finished, message>>

(* No diff is left, or the model is not configured. *)
Refuse ==
    /\ at = "asked" /\ ~ask.direct
    /\ TruncateDiffs(ask.diffs) = <<>> \/ ~ask.known
    /\ at' = "failed"
    /\ UNCHANGED <<ask, prompt, now, reply, text, finished, message>>

GenerateLocal ==
    /\ at = "asked" /\ ~ask.direct
    /\ TruncateDiffs(ask.diffs) # <<>> /\ ask.known
    /\ at' = "generating" /\ prompt' = BuildUserContent
    /\ UNCHANGED <<ask, now, reply, text, finished, message>>

DeadlineWithoutMargin == IF ask.timeout > 0 THEN Fewer(ask.timeout, Generation) ELSE Generation

(* The client's timeout less a margin; none, or one within the margin,      *)
(* leaves the limit of the generation (timeout 0 stands for none).          *)
Deadline ==
    IF Monus(ask.timeout, Margin) = 0 THEN Generation
    ELSE Fewer(Monus(ask.timeout, Margin), Generation)

Tick ==
    /\ at = "generating" /\ finished = "no" /\ now < Deadline
    /\ now' = now + 1
    /\ UNCHANGED <<ask, at, prompt, reply, text, finished, message>>

TextDelta ==
    /\ at = "generating" /\ finished = "no" /\ now < Deadline
    /\ Len(text) < Len(reply)
    /\ text' = Append(text, reply[Len(text) + 1])
    /\ UNCHANGED <<ask, at, prompt, now, reply, finished, message>>

DeadlineHit ==
    /\ at = "generating" /\ finished = "no" /\ now = Deadline
    /\ finished' = "cut"
    /\ UNCHANGED <<ask, at, prompt, now, reply, text, message>>

(* Done, or the stream's end without it. *)
StreamEnds ==
    /\ at = "generating" /\ finished = "no" /\ now < Deadline
    /\ \/ Len(text) = Len(reply) /\ finished' = "done"
       \/ finished' = "ended"
    /\ UNCHANGED <<ask, at, prompt, now, reply, text, message>>

(* A provider's error or a tool call. *)
StreamFails ==
    /\ at = "generating" /\ finished = "no"
    /\ at' = "failed"
    /\ UNCHANGED <<ask, prompt, now, reply, text, finished, message>>

-----------------------------------------------------------------------------
(* The cleaning. *)

TrimLines(lines) ==
    LET solid == {i \in 1..Len(lines) : lines[i] # <<>>}
    IN IF solid = {} THEN <<>> ELSE SubSeq(lines, Min(solid), Max(solid))

Starts(line, word) == line # <<>> /\ line[1] = word

(* strip_code_fence: the first line goes whole, the last one if it closes. *)
StripCodeFence(lines) ==
    LET trimmed == TrimLines(lines)
        body == Tail(trimmed)
    IN IF trimmed = <<>> \/ ~Starts(Head(trimmed), "fence") THEN trimmed
       ELSE TrimLines(IF body # <<>> /\ Starts(Last(body), "fence") THEN Front(body) ELSE body)

(* One "commit message:" after the other. *)
StripLabels[lines \in Seq(Seq({"fence", "label", "word"}))] ==
    IF lines # <<>> /\ Starts(Head(lines), "label")
    THEN StripLabels[TrimLines(<<Tail(Head(lines))>> \o Tail(lines))]
    ELSE lines

(* clean_generated_commit_message *)
Clean(lines) == StripLabels[StripCodeFence(lines)]

Answer ==
    /\ at = "generating" /\ finished # "no"
    /\ IF finished # "ended" /\ Clean(text) # <<>>
       THEN at' = "answered" /\ message' = Clean(text)
       ELSE at' = "failed" /\ UNCHANGED message
    /\ UNCHANGED <<ask, prompt, now, reply, text, finished>>

Next ==
    \/ ForwardDirect \/ Refuse \/ GenerateLocal
    \/ Tick \/ TextDelta \/ DeadlineHit \/ StreamEnds \/ StreamFails \/ Answer

Spec == Init /\ [][Next]_commitVars

-----------------------------------------------------------------------------
Sum(s) == FoldLeft(LAMBDA a, b : a + b, 0, s)

(* The model is sent as much of the diffs as the limits allow and no more:  *)
(* every diff is cut at its own limit, all of them together at the total,   *)
(* notices aside, and none is left out while there is room (truncate_diffs).*)
DiffsFit ==
    at \in {"generating", "answered"} =>
        LET sent == prompt.diffs
            given == SelectSeq(ask.diffs, LAMBDA n : n > 0)
        IN /\ \A i \in 1..Len(sent) : sent[i] <= SingleLimit + Notice
           /\ Sum(sent) <= TotalLimit + Len(sent) * Notice
           /\ Len(sent) < Len(given) => Sum(sent) >= TotalLimit

(* An answer is the model's whole completion, or what there was of it when  *)
(* the deadline was hit; a stream that just ended is an error (generate).   *)
AnswerIsWhole == at = "answered" => finished = "cut" \/ (text = reply /\ finished = "done")

(* A client whose timeout is longer than the margin hears an answer or an   *)
(* error before it gives up (soft_deadline).                                *)
AnsweredInTime == at = "generating" /\ ask.timeout > Margin => now < ask.timeout

(* One block between two fences. *)
Fenced(lines) == {i \in 1..Len(lines) : Starts(lines[i], "fence")} = {1, Len(lines)}

(* What is committed has no label in front, is not empty, is a part of what *)
(* the model wrote, and has no fence left if the model wrote one fenced     *)
(* block (clean_generated_commit_message).                                  *)
MessageIsClean ==
    at = "answered" =>
        /\ message # <<>> /\ Head(message) # <<>>
        /\ ~Starts(Head(message), "label")
        /\ Fenced(TrimLines(text)) => \A i \in 1..Len(message) : ~Starts(message[i], "fence")
        /\ \A i \in 1..Len(message) :
              \E j \in 1..Len(text) : IsSuffix(message[i], text[j])
=============================================================================
