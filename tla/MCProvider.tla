----------------------------- MODULE MCProvider -----------------------------
(***************************************************************************)
(* From a Run to a model and back, each component explored from its own    *)
(* initial states: the stream of a model call, its record and its trace,   *)
(* the context window and the display of usage, the translation of         *)
(* requests; and the plugins that serve a call, with the installation of   *)
(* their runtime.                                                          *)
(***************************************************************************)
EXTENDS RuntimeInstall, Sequences

VARIABLES part,  \* the component explored
          x1, x2, x3, x4, x5, x6, x7, x8, x9, x10, x11, x12, x13  \* its variables

(* Pieces of a line protocol, cut where a line is not.                       *)
Chunks == {<<"a">>, <<"a", "cr">>, <<"lf", "a">>, <<"lf", "lf">>, <<"cr", "lf">>}

-----------------------------------------------------------------------------
Stream == INSTANCE ModelStream WITH
    Index <- {1, 2}, MaxArgs <- 2, MaxRetries <- 1,
    api <- x1, server <- x2, adapter <- x3, cycle <- x4, client <- x5,
    retries <- x6, port <- 0, portCycle <- 0

Sdk == INSTANCE ModelStream WITH
    Index <- {1, 2}, MaxArgs <- 2, MaxRetries <- 1,
    api <- x1, server <- x2, adapter <- x3, cycle <- x4, client <- x5,
    retries <- x6, port <- x7, portCycle <- x8

Recorder == INSTANCE CallRecorder WITH
    MaxBuffered <- 3, MaxChunks <- 5, MaxErrors <- 2,
    row <- x1, payload <- x2, buffer <- x3, stamp <- x4, timers <- x5,
    nextChunk <- x6, finished <- x7, stream <- x8, flight <- x9, guard <- x10,
    errors <- x11, lost <- x12, swept <- x13

Trace == INSTANCE TraceWorker WITH
    MaxSeq <- 1, MaxPieces <- 2, Capacity <- 2, MaxBatch <- 2, MaxFaults <- 1,
    events <- x1, activation <- x2, closedBy <- x3, handler <- x4, reply <- x5,
    state <- x6, pieces <- x7, order <- x8, trace <- x9, artifacts <- x10,
    detailed <- x11, seen <- x12, faults <- x13

Fitting == INSTANCE ContextWindow WITH
    Window <- 9, OutputTokens <- 1, Sizes <- {1, 4}, Drift <- 2, MaxRuns <- 2,
    MaxLength <- 5, Tags <- {}, MaxText <- {}, Used <- {}, MaxReports <- {},
    history <- x1, stored <- x2, anchor <- x3, phase <- x4, turn <- x5,
    request <- x6, compacted <- x7, barren <- x8, text <- 0, baseline <- 0,
    shown <- 0, used <- 0, runs <- 0

Usage == INSTANCE ContextWindow WITH
    Tags <- {"rules", "rule", "conversation_summary"}, MaxText <- 3,
    Used <- {0, 1, 3}, MaxReports <- 1, Window <- {}, OutputTokens <- {},
    Sizes <- {}, Drift <- {}, MaxRuns <- {}, MaxLength <- {},
    text <- x1, baseline <- x2, shown <- x3, used <- x4, runs <- x5, history <- 0,
    stored <- 0, anchor <- 0, phase <- 0, turn <- 0, request <- 0, compacted <- 0,
    barren <- 0

Translation == INSTANCE RequestTranslation WITH
    MaxTurns <- 4, MaxCalls <- 2,
    entry <- x1, exit <- x2, talk <- x3

Worker == INSTANCE PluginWorker WITH
    Streams <- {"a"}, Unaries <- {"u"}, MaxProcesses <- 2, MaxSaid <- 1,
    Chunks <- {}, MaxChunks <- {}, MaxBytes <- {}, Capacity <- {}, Batch <- {},
    process <- x1, procs <- x2, pending <- x3, invocations <- x4, calls <- x5,
    hosts <- x6, stopping <- x7, said <- x8, body <- 0, taken <- 0, buffered <- 0,
    pump <- 0, channel <- 0, listed <- 0, plugin <- 0, got <- 0

Lines == INSTANCE PluginWorker WITH
    Chunks <- Chunks, MaxChunks <- 4, MaxBytes <- 6, Capacity <- 2, Batch <- 2,
    Streams <- {}, Unaries <- {}, MaxProcesses <- {}, MaxSaid <- {},
    body <- x1, taken <- x2, buffered <- x3, pump <- x4, channel <- x5,
    listed <- x6, plugin <- x7, got <- x8, process <- 0, procs <- 0, pending <- 0,
    invocations <- 0, calls <- 0, hosts <- 0, stopping <- 0, said <- 0

-----------------------------------------------------------------------------
(* The variables a component leaves over. *)
Rest8 == x9 = 0 /\ x10 = 0 /\ x11 = 0 /\ x12 = 0 /\ x13 = 0
Rest6 == x7 = 0 /\ x8 = 0 /\ Rest8
Rest5 == x6 = 0 /\ Rest6
Rest3 == x4 = 0 /\ x5 = 0 /\ Rest5
Rest0 == x1 = 0 /\ x2 = 0 /\ x3 = 0 /\ Rest3

SuiteInit ==
    /\ InstallInit
    /\ \/ part = "install" /\ Rest0
       \/ part = "stream" /\ Stream!Init /\ Rest6
       \/ part = "sdk" /\ Sdk!SdkInit /\ Rest8
       \/ part = "recorder" /\ Recorder!Init
       \/ part = "trace" /\ Trace!Init
       \/ part = "window" /\ Fitting!Init /\ Rest8
       \/ part = "usage" /\ Usage!UsageInit /\ Rest5
       \/ part = "translation" /\ Translation!Init /\ Rest3
       \/ part = "worker" /\ Worker!Init /\ Rest8
       \/ part = "lines" /\ Lines!StreamInit /\ Rest8

StreamStep ==
    /\ part = "stream" /\ Stream!Next
    /\ UNCHANGED <<part, installVars, x7, x8, x9, x10, x11, x12, x13>>
SdkStep ==
    /\ part = "sdk" /\ Sdk!SdkNext
    /\ UNCHANGED <<part, installVars, x9, x10, x11, x12, x13>>
RecorderStep == part = "recorder" /\ Recorder!Next /\ UNCHANGED <<part, installVars>>
TraceStep == part = "trace" /\ Trace!Next /\ UNCHANGED <<part, installVars>>
FittingStep ==
    /\ part = "window" /\ Fitting!Next
    /\ UNCHANGED <<part, installVars, x9, x10, x11, x12, x13>>
UsageStep ==
    /\ part = "usage" /\ Usage!UsageNext
    /\ UNCHANGED <<part, installVars, x6, x7, x8, x9, x10, x11, x12, x13>>
TranslationStep ==
    /\ part = "translation" /\ Translation!Next
    /\ UNCHANGED <<part, installVars, x4, x5, x6, x7, x8, x9, x10, x11, x12, x13>>
WorkerStep ==
    /\ part = "worker" /\ Worker!Next
    /\ UNCHANGED <<part, installVars, x9, x10, x11, x12, x13>>
LinesStep ==
    /\ part = "lines" /\ Lines!StreamNext
    /\ UNCHANGED <<part, installVars, x9, x10, x11, x12, x13>>
InstallStep ==
    /\ part = "install" /\ InstallNext
    /\ UNCHANGED <<part, x1, x2, x3, x4, x5, x6, x7, x8, x9, x10, x11, x12, x13>>

SuiteNext ==
    \/ InstallStep \/ StreamStep \/ SdkStep \/ RecorderStep \/ TraceStep
    \/ FittingStep \/ UsageStep \/ TranslationStep \/ WorkerStep \/ LinesStep

suiteVars == <<part, installVars, x1, x2, x3, x4, x5, x6, x7, x8, x9, x10, x11, x12, x13>>

SuiteSpec == SuiteInit /\ [][SuiteNext]_suiteVars

-----------------------------------------------------------------------------
(* An answer is taken as the server meant it: a stream that keeps to its    *)
(* API is never refused, an accepted answer is whole, calls of an answer    *)
(* that was cut short are not run, a broken connection is no end, and a     *)
(* cancellation leaves no block open (consume_model_cycle and the           *)
(* adapters).                                                               *)
StreamIsAnswer ==
    part = "stream" =>
      /\ Stream!ConformingAccepted
      /\ Stream!TruncatedRunsNothing
      /\ Stream!AnswerWhole
      /\ Stream!CutIsNotSuccess
      /\ Stream!CancelCloses

(* The record of a call and the trace of a request hold what was received,  *)
(* once and in the order it came in, whichever flush wins, whatever the     *)
(* store refuses and whenever the stream is dropped. A call is finished     *)
(* only when its chunks are stored, and its outcome is never overwritten.   *)
RecordsAreWhole ==
    /\ [](part = "recorder" =>
            /\ Recorder!ChunksOnce /\ Recorder!PayloadInOrder /\ Recorder!FinishedIsFlushed)
    /\ [](part = "trace" =>
            /\ Trace!RequestsInOrder /\ Trace!ChunksInOrder /\ Trace!RequestsKept)
    /\ [][part = "recorder" => Recorder!OutcomeStep]_suiteVars

(* The context window is kept and accounted for. Between two messages a Run *)
(* compacts at most twice, and never the history a compaction has just      *)
(* left; a compaction keeps the input of the Run and its newest request     *)
(* context; no request has a result without its call or a call without its  *)
(* result. The categories of a breakdown add up to what was used, and every *)
(* character of the context is in one of them.                              *)
WindowIsRespected ==
    /\ [](part = "window" => Fitting!CompactionBounded /\ Fitting!RequestsAcceptable)
    /\ [](part = "usage" =>
            /\ Usage!SumsToUsed /\ Usage!MeasuredOnce /\ Usage!PartsAreNotConversation)
    /\ [][part = "window" =>
           Fitting!InputStep /\ Fitting!ContextStep /\ Fitting!SettlingStep]_suiteVars

(* The provider is sent what was said: every text, image, call and result   *)
(* once and in its order whatever protocols it came and leaves in, its own  *)
(* reasoning and nobody else's, in the roles and with the answers to calls  *)
(* its API demands.                                                         *)
TranslationKeeps ==
    part = "translation" =>
      /\ Translation!NothingLost
      /\ Translation!ReasoningStaysHome
      /\ Translation!RolesAlternate
      /\ Translation!CallsAnswered

(* A plugin serves a call as the host would: nobody waits for a process     *)
(* that is gone and nothing is left of a call that is over, the lines of a  *)
(* stream come in order and whole before its end, and the SDK's adapters    *)
(* agree with the host's on every stream.                                   *)
PluginCallsHold ==
    /\ part = "worker" => Worker!NoOrphanCall /\ Worker!NothingLeft
    /\ part = "lines" => Lines!LinesInOrder /\ Lines!DoneIsWhole
    /\ part = "sdk" => Sdk!PortAgrees

=============================================================================
