--------------------------- MODULE AntigravityCall ---------------------------
(***************************************************************************)
(* A model call of the built-in Antigravity plugin: invoke, the access     *)
(* token it renews before the call or after a refusal, and the stream it   *)
(* asks of one endpoint after the other.  What the host sees is `out', the *)
(* events the plugin emits; what it stores is the patch of the result.     *)
(***************************************************************************)
EXTENDS Naturals, Sequences, SequencesExt

CONSTANTS
    Endpoints,   \* how many endpoints are tried in turn
    MaxParts,    \* bound on the parts of one reply
    MaxTokens,   \* bound on the refresh tokens Google issues
    MaxCalls     \* bound on the calls

VARIABLES
    stored,  \* the account the host keeps: refresh token (0: an API key), state,
             \* and whether it has an access token at all
    issued,  \* the refresh token Google honours
    call,    \* the call: its position, endpoint, tokens and result
    reply,   \* the locals of the loop over one reply
    out,     \* the events the host has received, each with its attempt
    calls    \* calls made so far

callVars == <<stored, issued, call, reply, out, calls>>

Idle == [at |-> "idle", second |-> FALSE, endpoint |-> 1, snapshot |-> 0, refresh |-> 0,
         received |-> 0, patched |-> FALSE, result |-> "none"]

NoReply == [thinking |-> FALSE, text |-> FALSE, tools |-> FALSE, signature |-> FALSE,
            usage |-> FALSE, parts |-> 0]

Init ==
    /\ stored \in [refresh : {0, 1}, state : {"ready"}, whole : BOOLEAN]
    /\ issued = 1
    /\ call = Idle
    /\ reply = NoReply
    /\ out = <<>>
    /\ calls = 0

-----------------------------------------------------------------------------
(* The events of one reply. *)

Attempt == <<call.second, call.endpoint>>

Events(types) == [i \in 1..Len(types) |-> [type |-> types[i], attempt |-> Attempt]]

If(condition, event) == IF condition THEN <<event>> ELSE <<>>

(* A part of a chunk: a thought, a text, either of them empty once its      *)
(* think tags are removed, or a call of a tool; any of them may carry a     *)
(* thought signature.                                                       *)
Kinds == {"thought", "text", "blankThought", "blankText", "call"}

PartEvents(kind) ==
    CASE kind = "thought" ->
            If(~reply.thinking, "thinking-start") \o <<"thinking-delta">>
      [] kind = "blankThought" -> <<>>
      [] kind = "text" ->
            If(reply.thinking, "thinking-end") \o If(~reply.text, "text-start")
            \o <<"text-delta">>
      [] kind = "blankText" -> If(reply.thinking, "thinking-end")
      [] kind = "call" ->
            If(reply.thinking, "thinking-end") \o If(reply.text, "text-end")
            \o <<"tool-call-start", "tool-call-arguments-delta", "tool-call-end">>

ReadPart(kind, signed) ==
    /\ call.at = "reading"
    /\ reply.parts < MaxParts
    /\ out' = out \o Events(PartEvents(kind))
    /\ reply' = [reply EXCEPT
         !.thinking = IF kind = "thought" THEN TRUE
                      ELSE @ /\ kind = "blankThought",
         !.text = CASE kind = "text" -> TRUE [] kind = "call" -> FALSE [] OTHER -> @,
         !.tools = @ \/ kind = "call",
         !.signature = @ \/ signed,
         !.parts = @ + 1]
    /\ UNCHANGED <<stored, issued, call, calls>>

(* What is closed and reported when a reply finishes. *)
Closing ==
    If(reply.thinking, "thinking-end") \o If(reply.text, "text-end")
    \o If(reply.signature, "replay-state") \o If(reply.usage, "usage")

-----------------------------------------------------------------------------
(* The result of the call, and the patch of it that the host applies. *)

IsQuotaError(error) == error \in {"quota", "quotaText"}

Patched(tokens, state) == [stored EXCEPT !.refresh = tokens, !.state = state]

QuotaExhausted(tokens) == Patched(tokens, "cooling")

(* stream_model of the host stores the patch of a result, if it has one,    *)
(* before it ends the stream or fails it.                                   *)
Finish(c, result, patch) ==
    /\ call' = [c EXCEPT !.at = "idle", !.result = result]
    /\ stored' = patch

(* The stream was read to its end.  The first stream reports the tokens it  *)
(* renewed before the call, the second always those it renewed after the    *)
(* refusal.                                                                  *)
Completed ==
    Finish(call, "completed",
           IF call.second \/ call.patched
           THEN Patched(call.refresh, "ready") ELSE stored)

(* The stream failed.  A refusal of the first stream renews the token and   *)
(* asks again; a failure of the second is dropped and the refusal reported. *)
Failed(error) ==
    CASE ~call.second /\ error = "unauthorized" /\ call.refresh # 0 ->
            call' = [call EXCEPT !.at = "renewing", !.second = TRUE, !.endpoint = 1]
            /\ UNCHANGED stored
      [] ~call.second /\ IsQuotaError(error) ->
            Finish(call, "resource-error", QuotaExhausted(call.refresh))
      [] OTHER -> Finish(call, "request-error", stored)

-----------------------------------------------------------------------------
(* The call. *)

(* The host hands over its account whatever its state: an account that is   *)
(* not ready is taken when no other one is.  An account without an access   *)
(* token is declared invalid.                                               *)
Invoke ==
    /\ call.at = "idle"
    /\ calls < MaxCalls
    /\ \E expired \in IF stored.refresh = 0 THEN {FALSE} ELSE BOOLEAN :
         LET started == [Idle EXCEPT !.at = IF expired THEN "renewing" ELSE "asking",
                                     !.snapshot = stored.refresh,
                                     !.refresh = stored.refresh,
                                     !.received = stored.refresh] IN
         IF stored.whole
         THEN call' = started /\ UNCHANGED stored
         ELSE Finish(started, "resource-error", [stored EXCEPT !.state = "invalid"])
    /\ calls' = calls + 1
    /\ out' = <<>>
    /\ reply' = NoReply
    /\ UNCHANGED issued

(* refreshAccount with the token of the account the call was given, not     *)
(* with the one an earlier renewal of this call brought.  Google may issue  *)
(* a new refresh token with the access token; an answer may be lost.        *)
Renewed(rotated) ==
    /\ call.at = "renewing"
    /\ call.snapshot = issued
    /\ issued < MaxTokens
    /\ issued' = IF rotated THEN issued + 1 ELSE issued
    /\ call' = [call EXCEPT !.at = "asking", !.refresh = issued', !.received = issued',
                            !.patched = TRUE]
    /\ UNCHANGED <<stored, reply, out, calls>>

(* The renewal is refused, fails or its answer is lost: a first renewal is  *)
(* ignored and the old token used, a second one ends the call.              *)
RenewalFailed ==
    /\ call.at = "renewing"
    /\ IF call.second
       THEN Finish(call, "request-error", stored)
       ELSE call' = [call EXCEPT !.at = "asking"] /\ UNCHANGED stored
    /\ \E lost \in BOOLEAN :
         issued' = IF lost /\ call.snapshot = issued /\ issued < MaxTokens
                   THEN issued + 1 ELSE issued
    /\ UNCHANGED <<reply, out, calls>>

AttemptFailedAfterTools(error) ==
    IF (\A i \in 1..Len(out) : out[i].type # "text-delta") /\ call.endpoint < Endpoints
    THEN /\ call' = [call EXCEPT !.at = "asking", !.endpoint = @ + 1]
         /\ UNCHANGED stored
    ELSE Failed(error)

(* One endpoint's attempt failed.  Before anything was emitted the next     *)
(* endpoint is asked, whatever the error; the last one's error is thrown.   *)
AttemptFailed(error) ==
    IF out = <<>> /\ call.endpoint < Endpoints
    THEN /\ call' = [call EXCEPT !.at = "asking", !.endpoint = @ + 1]
         /\ UNCHANGED stored
    ELSE Failed(error)

Answered ==
    /\ call.at = "asking"
    /\ call' = [call EXCEPT !.at = "reading"]
    /\ reply' = NoReply
    /\ UNCHANGED <<stored, issued, out, calls>>

Refused(error) ==
    /\ call.at = "asking"
    /\ AttemptFailed(error)
    /\ UNCHANGED <<issued, reply, out, calls>>

ReadUsage ==
    /\ call.at = "reading"
    /\ ~reply.usage
    /\ reply' = [reply EXCEPT !.usage = TRUE]
    /\ UNCHANGED <<stored, issued, call, out, calls>>

(* A finish reason: everything is closed and reported, and "tool-use" only  *)
(* for a STOP after a tool call.  The signature and the usage are forgotten *)
(* so that the lines after the loop do not report them again.               *)
ReadFinish(reason) ==
    /\ call.at = "reading"
    /\ out' = out \o Events(Closing
                 \o <<IF reason = "STOP" /\ reply.tools THEN "done:tool-use" ELSE "done:stop">>)
    /\ reply' = NoReply
    /\ Completed
    /\ UNCHANGED <<issued, calls>>

(* The lines end, or [DONE] is read, without a finish reason. *)
ReadEnd ==
    /\ call.at = "reading"
    /\ out' = out \o Events(Closing
                 \o <<IF reply.tools THEN "done:tool-use" ELSE "done:stop">>)
    /\ reply' = NoReply
    /\ Completed
    /\ UNCHANGED <<issued, calls>>

(* The connection breaks while the lines are read. *)
ReadBreaks(error) ==
    /\ call.at = "reading"
    /\ AttemptFailed(error)
    /\ reply' = NoReply
    /\ UNCHANGED <<issued, out, calls>>

(* The run is cancelled: the host drops the stream and with it the result.  *)
Cancelled ==
    /\ call.at # "idle"
    /\ call' = [call EXCEPT !.at = "idle", !.result = "cancelled"]
    /\ reply' = NoReply
    /\ UNCHANGED <<stored, issued, out, calls>>

Next ==
    \/ Invoke
    \/ Cancelled
    \/ \E rotated \in BOOLEAN : Renewed(rotated)
    \/ RenewalFailed
    \/ Answered
    \/ \E error \in {"unavailable", "unauthorized", "quota", "other", "network"} : Refused(error)
    \/ \E kind \in Kinds, signed \in BOOLEAN : ReadPart(kind, signed)
    \/ ReadUsage
    \/ \E reason \in {"STOP", "MAX_TOKENS"} : ReadFinish(reason)
    \/ ReadEnd
    \/ \E error \in {"network", "quotaText"} : ReadBreaks(error)

Spec == Init /\ [][Next]_callVars

-----------------------------------------------------------------------------
Count(type, n) == Len(SelectSeq(SubSeq(out, 1, n), LAMBDA e : e.type = type))

IsDone(e) == e.type \in {"done:stop", "done:tool-use"}

(* The endpoint fallback and the retry after a refused token never repeat   *)
(* an answer: all events of a call come from one attempt                    *)
(* (hasEmittedAnyChunk in streamCloudCode, and the retry in invoke).        *)
OneAnswer == \A i, j \in 1..Len(out) : out[i].attempt = out[j].attempt

(* The host is told the end exactly once, as the last event, and exactly    *)
(* when the call reports success (doneEmitted).                             *)
DoneMeansCompleted ==
    call.at = "idle" /\ calls > 0 =>
        /\ (call.result = "completed") = (\E i \in 1..Len(out) : IsDone(out[i]))
        /\ \A i \in 1..Len(out) : IsDone(out[i]) => i = Len(out)

(* Text and thinking blocks are opened before their deltas, never opened    *)
(* twice, and closed when the answer is done (textStarted and               *)
(* thinkingStarted, which three places in streamCloudCode reset); no tool   *)
(* call begins inside a text block.                                         *)
BlocksBalanced ==
    \A block \in {"text", "thinking"} : \A n \in 1..Len(out) :
        LET open == Count(block \o "-start", n) - Count(block \o "-end", n) IN
        /\ Count(block \o "-end", n) <= Count(block \o "-start", n)
        /\ open <= 1
        /\ out[n].type = block \o "-delta" => open = 1
        /\ IsDone(out[n]) \/ out[n].type = "tool-call-start" => open = 0

(* The replay state of an answer is sent at most once, before its end, as   *)
(* the provider contract asks.                                              *)
ReplayOnce ==
    /\ Count("replay-state", Len(out)) <= 1
    /\ \A i, j \in 1..Len(out) :
          out[i].type = "replay-state" /\ IsDone(out[j]) => i < j

(* A refresh token that Google issued during a call is in the stored        *)
(* account when the call succeeds, and also when the account is put to rest *)
(* for its quota (patchData, freshData and quotaExhaustedPatch(data)).      *)
TokensKept ==
    call.at = "idle" /\ call.result \in {"completed", "resource-error"}
        => stored.refresh = call.received

(* The end the plugin reports agrees with the tool calls it emitted; the    *)
(* model cycle rejects an answer where they disagree.                       *)
ReasonAgrees ==
    \A i \in 1..Len(out) : IsDone(out[i]) =>
        (out[i].type = "done:tool-use") = (Count("tool-call-start", Len(out)) > 0)

=============================================================================
