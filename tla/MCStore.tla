------------------------------ MODULE MCStore ------------------------------
(***************************************************************************)
(* A conversation in the store. The tables of ConversationStore with two   *)
(* Runs that compete for a conversation, two external messages with two    *)
(* contents and one call; the same tables with one Run whose rounds have up*)
(* to two calls; and the prompt history that a request leaves behind.      *)
(***************************************************************************)
EXTENDS ConversationStore, TLC

CONSTANTS u1, u2, v1, v2, w1, w2, t, bg, p, None

VARIABLES part,  \* the component explored
          x1, x2, x3, x4, x5, x6, x7  \* its variables

(* The parts share the values, so that one small group of permutations     *)
(* serves them all.                                                        *)
Symmetry == Permutations({u1, u2}) \cup Permutations({v1, v2}) \cup Permutations({w1, w2})

-----------------------------------------------------------------------------
ToolRounds == INSTANCE ConversationStore WITH
    Run <- {t}, NoRun <- NoRun, Call <- {u1, u2}, ExternalId <- {v1}, Body <- {w1},
    MaxCheckpoints <- 6, MaxProviderCalls <- 1,
    checkpoints <- x1, messages <- x2, current <- x3, active <- x4, runs <- x5,
    rounds <- x6

Prompting == INSTANCE PromptHistory WITH
    Inputs <- {u1, u2}, Texts <- {t}, Contexts <- {v1, v2}, Tasks <- {bg},
    Plans <- {bg}, Prompts <- {p}, Images <- {FALSE},
    Replacing <- {"manual", "automatic"}, Rounds <- <<2, 1, 1>>, None <- None,
    client <- x1, rewinds <- x2, checkpoints <- x3, current <- x4, anchors <- x5,
    prepared <- x6, run <- x7

-----------------------------------------------------------------------------
(* The variables a component leaves over. *)
Rest6 == x7 = 0
Rest0 == x1 = 0 /\ x2 = 0 /\ x3 = 0 /\ x4 = 0 /\ x5 = 0 /\ x6 = 0 /\ Rest6

SuiteInit ==
    /\ Init
    /\ \/ part = "runs" /\ Rest0
       \/ part = "rounds" /\ ToolRounds!Init /\ Rest6
       \/ part = "history" /\ Prompting!Init

ToolRoundsStep == part = "rounds" /\ ToolRounds!Next /\ UNCHANGED <<part, vars, x7>>
PromptingStep == part = "history" /\ Prompting!Next /\ UNCHANGED <<part, vars>>
RunsStep ==
    /\ part = "runs" /\ Next
    /\ UNCHANGED <<part, x1, x2, x3, x4, x5, x6, x7>>

SuiteNext ==
    \/ RunsStep \/ ToolRoundsStep \/ PromptingStep

suiteVars == <<part, vars, x1, x2, x3, x4, x5, x6, x7>>

SuiteSpec == SuiteInit /\ [][SuiteNext]_suiteVars

-----------------------------------------------------------------------------
(* In the history of a Run whose rounds have several calls, every call is   *)
(* followed by its result before anything else is said, results come at     *)
(* most once and in the order of the calls, and the rows of the round agree *)
(* with the history.                                                        *)
RoundsAreAnswered ==
    part = "rounds" =>
      /\ ToolRounds!CallsAreAnswered
      /\ ToolRounds!RoundLedger

(* The prompt of a Run is the history the conversation published, extended: *)
(* a prefix is never rewritten, each context and each background result is  *)
(* in it once, a retried request is accepted, and what is published is the  *)
(* history the next Run will find.                                          *)
PromptIsHistory ==
    part = "history" =>
      /\ Prompting!HistoryIsPrefix
      /\ Prompting!ContextSeen
      /\ Prompting!ContextOnce
      /\ Prompting!RetriesAccepted
      /\ Prompting!PublishedIsHistory
      /\ Prompting!FrontierKept

=============================================================================
