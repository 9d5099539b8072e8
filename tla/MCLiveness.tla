----------------------------- MODULE MCLiveness -----------------------------
(***************************************************************************)
(* What must come about. The transport with one stream and no user action, *)
(* the deliveries of a Run with two attempts to inject one message, the    *)
(* handlers of a request and the record of a call, each under the fairness *)
(* its module states. TransportSpec is the transport alone, for its safety.*)
(***************************************************************************)
EXTENDS Transport, TLC

CONSTANTS p1, p2, s1, s2, d1, d2, c1, c2

VARIABLES part,  \* the component explored
          x1, x2, x3, x4, x5, x6, x7, x8, x9, x10, x11, x12, x13, x14  \* its variables

(* A RunRequest, and one more append of these kinds.                         *)
AnyAction == p1 :> {"run"} @@ p2 :> {"user", "cancel", "other"}
NoUserAction == p1 :> {"run"} @@ p2 :> {"run", "cancel", "other"}

-----------------------------------------------------------------------------
Delivering == INSTANCE RunDelivery WITH
    Delivery <- {d1, d2}, MessageOf <- [d \in {d1, d2} |-> d1],
    Path <- [d \in {d1, d2} |-> "inject"], MaxRounds <- 2, CallsOf <- <<{c1}, {c2}>>,
    phase <- x1, cancelled <- x2, commands <- x3, engine <- x4, history <- x5,
    committed <- x6, events <- x7, barrier <- x8, actions <- x9, session <- x10,
    running <- x11, results <- x12, task <- x13, parked <- x14

Routes == INSTANCE RequestRoutes WITH
    Appends <- {"a1"}, Streams <- {"s1"}, MaxEpoch <- 2,
    message <- x1, local <- x2, transport <- x3, watchers <- x4, route <- x5,
    routes <- x6, timers <- x7, ends <- x8, at <- x9, found <- x10,
    listening <- x11, notices <- x12

Recorder == INSTANCE CallRecorder WITH
    MaxBuffered <- 2, MaxChunks <- 3, MaxErrors <- 1,
    row <- x1, payload <- x2, buffer <- x3, stamp <- x4, timers <- x5,
    nextChunk <- x6, finished <- x7, stream <- x8, flight <- x9, guard <- x10,
    errors <- x11, lost <- x12, swept <- x13

-----------------------------------------------------------------------------
(* The variables a component leaves over. *)
Rest13 == x14 = 0
Rest12 == x13 = 0 /\ Rest13
Rest0 ==
    /\ x1 = 0 /\ x2 = 0 /\ x3 = 0 /\ x4 = 0 /\ x5 = 0 /\ x6 = 0 /\ x7 = 0
    /\ x8 = 0 /\ x9 = 0 /\ x10 = 0 /\ x11 = 0 /\ x12 = 0 /\ Rest12

SuiteInit ==
    /\ Init
    /\ \/ part = "transport" /\ Rest0
       \/ part = "delivery" /\ Delivering!Init
       \/ part = "routes" /\ Routes!Init /\ Rest12
       \/ part = "recorder" /\ Recorder!Init /\ Rest13

DeliveringStep == part = "delivery" /\ Delivering!Next /\ UNCHANGED <<part, vars>>
RoutesStep == part = "routes" /\ Routes!Next /\ UNCHANGED <<part, vars, x13, x14>>
RecorderStep == part = "recorder" /\ Recorder!Next /\ UNCHANGED <<part, vars, x14>>
TransportStep ==
    /\ part = "transport" /\ Next
    /\ UNCHANGED <<part, x1, x2, x3, x4, x5, x6, x7, x8, x9, x10, x11, x12, x13, x14>>

SuiteNext ==
    \/ TransportStep \/ DeliveringStep \/ RoutesStep \/ RecorderStep

suiteVars == <<part, vars, x1, x2, x3, x4, x5, x6, x7, x8, x9, x10, x11, x12, x13, x14>>

(* The fairness of Transport, RunDelivery, RequestRoutes and CallRecorder,   *)
(* each for its own part.                                                    *)
TransportFairly ==
    /\ \A p \in Post : WF_vars(part = "transport" /\ SendAppend(p))
                       /\ WF_vars(part = "transport" /\ DropAdmission(p))
    /\ \A g \in 1 .. Cardinality(Post) :
         /\ WF_vars(part = "transport" /\ g \in DOMAIN gens /\ (Prepare(g) \/ GiveUp(g) \/ ReportEnd(g)))
         /\ SF_vars(part = "transport" /\ g \in DOMAIN gens /\ Release(g))
    /\ \A s \in Stream : WF_vars(part = "transport" /\ Acquire(s))
                         /\ WF_vars(part = "transport" /\ EndStream(s))
    /\ WF_vars(part = "transport" /\ \E e \in notices : SendNotice(e))
    /\ WF_vars(part = "transport" /\ (Receive \/ FinishDisconnect \/ Drain))
    /\ WF_vars(part = "transport" /\ IdleTimeout)

DeliveryFairly ==
    /\ WF_(Delivering!vars)(part = "delivery" /\ Delivering!Engine)
    /\ WF_(Delivering!vars)(part = "delivery" /\ Delivering!Session)
    /\ \A d \in {d1, d2} : WF_(Delivering!vars)(part = "delivery" /\ Delivering!Task(d))
    /\ \A c \in {c1, c2} : WF_(Delivering!vars)(part = "delivery" /\ Delivering!ToolEnds(c))

RoutesFairly ==
    /\ WF_(Routes!vars)(part = "routes" /\ (Routes!Handle("a1") \/ Routes!HandleAppend("a1")))
    /\ WF_(Routes!vars)(part = "routes" /\ (Routes!Handle("s1") \/ Routes!HandleStream("s1")))
    /\ WF_(Routes!vars)(part = "routes" /\ Routes!Watching)
    /\ WF_(Routes!vars)(part = "routes" /\ Routes!Ending)
    /\ WF_(Routes!vars)(part = "routes" /\ Routes!Expiring)

RecorderFairly ==
    /\ WF_(Recorder!recorderVars)(part = "recorder" /\ Recorder!DropStream)
    /\ WF_(Recorder!recorderVars)(part = "recorder" /\ Recorder!MarkCancelled)

Fairly == TransportFairly /\ DeliveryFairly /\ RoutesFairly /\ RecorderFairly

SuiteSpec == SuiteInit /\ [][SuiteNext]_suiteVars /\ Fairly

-----------------------------------------------------------------------------
(* What was begun comes to an end. A delivery that a task has taken on ends *)
(* in the history, as a duplicate, or parked for the next Run; a tool round *)
(* ends, by its results, a break or the end of the Run; a handler that      *)
(* waits for a route answers; and a call does not stay running, unless the  *)
(* store refused a write.                                                   *)
WorkEnds ==
    /\ \A d \in {d1, d2} :
         part = "delivery" /\ Delivering!Underway(d) ~> part = "delivery" /\ Delivering!Delivered(d)
    /\ part = "delivery" /\ Delivering!InRound ~> part = "delivery" /\ ~ Delivering!InRound
    /\ \A h \in {"a1", "s1"} :
         part = "routes" /\ Routes!Waits(h) ~> part = "routes" /\ Routes!Answered(h)
    /\ part = "recorder" ~> part = "recorder" /\ Recorder!CallOver

-----------------------------------------------------------------------------
(* The transport alone, without fairness.                                    *)
TransportInit == SuiteInit /\ part = "transport"
TransportSpec == TransportInit /\ [][TransportStep]_suiteVars

=============================================================================
