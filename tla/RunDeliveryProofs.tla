------------------------- MODULE RunDeliveryProofs -------------------------
(* What holds of RunDelivery for any deliveries, any number of rounds and any *)
(* finite sets of calls.  The invariants are those of RunExchangeInvariant,   *)
(* and their steps are put together here.                                     *)
EXTENDS RunDeliveryInvariant, RunSessionInvariant, FiniteSetTheorems

-----------------------------------------------------------------------------
(* The tools. *)

\* A tool ends: its completion is under way to the session.
LEMMA ToolEndsJInv ==
  ASSUME IInv, JInv, NEW c \in Call, ToolEnds(c)
  PROVE  JInv'
<1>1. /\ c \in running /\ running' = running \ {c} /\ results' = Append(results, c)
      /\ UNCHANGED <<commands, engine, committed, events, barrier, session, task>>
  BY Zenon DEF ToolEnds, handle, stored, channel
<1>2. /\ Range(results') = Range(results) \cup {c}
      /\ DOMAIN results = 1 .. Len(results) /\ Len(results) \in Nat
      /\ DOMAIN results' = DOMAIN results \cup {Len(results) + 1}
      /\ \A i \in DOMAIN results : results'[i] = results[i]
      /\ results'[Len(results) + 1] = c
  BY <1>1, Channels, AppendSet, Extended
<1>3. Up' = Up /\ Going' = Going /\ Quiet' = Quiet /\ Breaking' = Breaking /\ Uncut' = Uncut
  BY Zenon, <1>1, <1>2 DEF Up, Going, Quiet, Breaking, Uncut, Flight
<1>4. ASSUME NEW x \in Uncut, Once(x) PROVE Once(x)'
  <2>1. CASE x # c
    BY Zenon, <1>1, <1>2, <1>4, <2>1 DEF Once
  <2>2. CASE x = c
    <3>1. c \notin Range(results) /\ c \notin Range(session.ready)
      BY Zenon, <1>1, <1>4, <2>2 DEF Once
    <3>2. \A i \in DOMAIN results : results[i] # c
      BY Zenon, <3>1 DEF Range
    <3> QED BY Zenon, <1>1, <1>2, <1>4, <2>2, <3>1, <3>2 DEF Once
  <2> QED BY Zenon, <2>1, <2>2
<1>5. Awaited' /\ Forwarded'
  BY <1>1, <1>3 DEF JInv, Awaited, Forwarded, Has
<1>6. InFlight'
  BY Zenon, <1>1, <1>3, <1>4 DEF JInv, InFlight, Has
<1>7. Pending'
  BY Zenon, <1>1, <1>3 DEF JInv, Pending, Has
<1>8. Own' /\ Rounds'
  BY Zenon, <1>1, <1>3 DEF JInv, Own, Rounds, Has
<1>9. Order'
  BY <1>1, <1>3 DEF JInv, Order, Ordered, OnlyEnd, Has
<1>10. Sync'
  BY Zenon, <1>1, <1>3 DEF JInv, Sync, Has
<1> QED BY Zenon, <1>5, <1>6, <1>7, <1>8, <1>9, <1>10 DEF JInv

\* The session forwards a completion of a round that goes on, and drops others.
LEMMA ForwardCompletionJInv ==
  ASSUME IInv, JInv, ForwardCompletion
  PROVE  JInv'
<1> PICK c : c = Head(IF session.ready # <<>> THEN session.ready ELSE results)
  BY Zenon
<1>1. CASE SessionFails
  BY Zenon, <1>1, SessionEndsJInv
<1>2. CASE ~ SessionFails
  <2>1. /\ Up /\ session \in SessionState
        /\ session.ready # <<>> \/ results # <<>>
        /\ c \notin session.typed \ session.cutCalls
        /\ results' = IF session.ready # <<>> THEN results ELSE Tail(results)
        /\ UNCHANGED <<engine, committed, events, barrier, running, task>>
    BY Zenon, <1>2, SessionFields DEF ForwardCompletion, Up, stored, channel
  <2>2. /\ session'.state = session.state /\ session'.round = session.round
        /\ session'.calls = session.calls /\ session'.cutCalls = session.cutCalls
        /\ session'.pending = session.pending /\ session'.ids = session.ids
        /\ session'.ready = IF session.ready # <<>> THEN Tail(session.ready) ELSE session.ready
        /\ \/ session'.typed = session.typed /\ commands' = commands
           \/ /\ c \notin session.cutCalls /\ phase = "Running"
              /\ session'.typed = session.typed \cup {c}
              /\ commands' = Append(commands, ToolResult(c))
    <3> DEFINE taken == IF session.ready # <<>> THEN [session EXCEPT !.ready = Tail(@)] ELSE session
    <3>1. \/ session' = taken /\ commands' = commands
          \/ /\ c \notin session.cutCalls /\ phase = "Running"
             /\ session' = [taken EXCEPT !.typed = @ \cup {c}]
             /\ commands' = Append(commands, ToolResult(c))
      BY Zenon, <1>2 DEF ForwardCompletion
    <3>2. /\ taken \in SessionState
          /\ taken.state = session.state /\ taken.round = session.round
          /\ taken.calls = session.calls /\ taken.cutCalls = session.cutCalls
          /\ taken.pending = session.pending /\ taken.ids = session.ids
          /\ taken.typed = session.typed
          /\ taken.ready = IF session.ready # <<>> THEN Tail(session.ready) ELSE session.ready
      <4>1. session.ready \in Seq(Call)
        BY Zenon, Channels
      <4>2. session.ready # <<>> => Tail(session.ready) \in Seq(Call)
        BY Zenon, <4>1, TailSet
      <4> QED BY Zenon, <2>1, <4>2 DEF SessionState
    <3> HIDE DEF taken
    <3> QED BY Zenon, <3>1, <3>2 DEF SessionState
  <2>3. /\ c \in Range(IF session.ready # <<>> THEN session.ready ELSE results) /\ c \in Call
        /\ Range(results') \subseteq Range(results) /\ Range(session'.ready) \subseteq Range(session.ready)
    BY <2>1, <2>2, Channels, TailSet
  <2>4. /\ c \in Flight /\ Flight' \subseteq Flight /\ Uncut' \subseteq Uncut
    BY Zenon, <2>1, <2>2, <2>3 DEF Flight, Uncut
  <2>5. \A x : Once(x) => Once(x)'
    <3>1. ASSUME NEW x, NEW i \in DOMAIN results', NEW j \in DOMAIN results', Once(x),
                 results'[i] = x, results'[j] = x
          PROVE  i = j
      <4>1. CASE session.ready # <<>>
        BY Zenon, <2>1, <3>1, <4>1 DEF Once
      <4>2. CASE session.ready = <<>>
        <5>1. /\ i \in Nat /\ i + 1 \in DOMAIN results /\ results'[i] = results[i + 1]
              /\ j \in Nat /\ j + 1 \in DOMAIN results /\ results'[j] = results[j + 1]
          BY <2>1, <4>2, Channels, Shortened
        <5>2. i + 1 = j + 1
          BY Zenon, <3>1, <5>1 DEF Once
        <5> QED BY <5>1, <5>2
      <4> QED BY Zenon, <4>1, <4>2
    <3>2. ASSUME NEW x, NEW i \in DOMAIN session'.ready, NEW j \in DOMAIN session'.ready, Once(x),
                 session'.ready[i] = x, session'.ready[j] = x
          PROVE  i = j
      <4>1. CASE session.ready = <<>>
        BY Zenon, <2>2, <3>2, <4>1 DEF Once
      <4>2. CASE session.ready # <<>>
        <5>1. /\ i \in Nat /\ i + 1 \in DOMAIN session.ready /\ session'.ready[i] = session.ready[i + 1]
              /\ j \in Nat /\ j + 1 \in DOMAIN session.ready /\ session'.ready[j] = session.ready[j + 1]
          BY <2>2, <4>2, Channels, Shortened
        <5>2. i + 1 = j + 1
          BY Zenon, <3>2, <5>1 DEF Once
        <5> QED BY <5>1, <5>2
      <4> QED BY Zenon, <4>1, <4>2
    <3> SUFFICES ASSUME NEW x, Once(x) PROVE Once(x)'
      BY Zenon
    <3>3. /\ x \in running => x \notin Range(results) /\ x \notin Range(session.ready)
          /\ x \in Range(results) => x \notin Range(session.ready)
      BY Zenon DEF Once
    <3>4. /\ x \in running' => x \notin Range(results') /\ x \notin Range(session'.ready)
          /\ x \in Range(results') => x \notin Range(session'.ready)
      BY Zenon, <2>1, <2>3, <3>3
    <3> QED BY Zenon, <3>1, <3>2, <3>4 DEF Once
  <2>6. Once(c) => c \notin Flight'
    <3> SUFFICES ASSUME Once(c) PROVE c \notin Flight'
      BY Zenon
    <3>1. CASE session.ready # <<>>
      <4>1. c \in Range(session.ready) /\ c = Head(session.ready)
        BY Zenon, <2>3, <3>1
      <4>2. c \notin running /\ c \notin Range(results)
        BY Zenon, <4>1 DEF Once
      <4>3. ASSUME NEW i \in DOMAIN Tail(session.ready), Tail(session.ready)[i] = c PROVE FALSE
        <5>1. /\ 1 \in DOMAIN session.ready /\ session.ready[1] = c
              /\ i \in Nat /\ i > 0 /\ i + 1 \in DOMAIN session.ready
              /\ session.ready[i + 1] = c
          BY Zenon, <3>1, <4>1, <4>3, Channels, Shortened
        <5>2. i + 1 = 1
          BY Zenon, <5>1 DEF Once
        <5> QED BY <5>1, <5>2
      <4>4. c \notin Range(Tail(session.ready))
        BY Zenon, <4>3 DEF Range
      <4> QED BY Zenon, <2>1, <2>2, <3>1, <4>2, <4>4 DEF Flight
    <3>2. CASE session.ready = <<>>
      <4>1. c \in Range(results) /\ c = Head(results) /\ results # <<>>
        BY Zenon, <2>1, <2>3, <3>2
      <4>2. c \notin running /\ c \notin Range(session.ready)
        BY Zenon, <4>1 DEF Once
      <4>3. ASSUME NEW i \in DOMAIN Tail(results), Tail(results)[i] = c PROVE FALSE
        <5>1. /\ 1 \in DOMAIN results /\ results[1] = c
              /\ i \in Nat /\ i > 0 /\ i + 1 \in DOMAIN results
              /\ results[i + 1] = c
          BY Zenon, <4>1, <4>3, Channels, Shortened
        <5>2. i + 1 = 1
          BY Zenon, <5>1 DEF Once
        <5> QED BY <5>1, <5>2
      <4>4. c \notin Range(Tail(results))
        BY Zenon, <4>3 DEF Range
      <4> QED BY Zenon, <2>1, <2>2, <3>2, <4>2, <4>4 DEF Flight
    <3> QED BY Zenon, <3>1, <3>2
  <2>7. Up' = Up /\ Going' = Going /\ Quiet' = Quiet /\ Breaking' = Breaking
    BY Zenon, <2>1, <2>2 DEF Up, Going, Quiet, Breaking
  <2>8. Pending' /\ Rounds'
    BY Zenon, <2>1, <2>2, <2>4, <2>7 DEF JInv, Pending, Rounds, Has
  <2>9. Sync'
    BY Zenon, <2>1, <2>2, <2>7 DEF JInv, Sync, Has
  <2>10. session.typed \subseteq session'.typed
    BY Zenon, <2>2
  <2>11. Order'
    BY <2>1, <2>2, <2>7, <2>10 DEF JInv, Order, Ordered, OnlyEnd, Has
  <2>12. CASE session'.typed = session.typed /\ commands' = commands
    <3>1. Awaited' /\ Forwarded'
      BY <2>1, <2>7, <2>12 DEF JInv, Awaited, Forwarded, Has
    <3>2. InFlight'
      BY Zenon, <2>1, <2>2, <2>4, <2>5, <2>7, <2>12 DEF JInv, InFlight, Has
    <3>3. Own'
      BY Zenon, <2>1, <2>2, <2>7, <2>12 DEF JInv, Own
    <3> QED BY Zenon, <2>8, <2>9, <2>11, <3>1, <3>2, <3>3 DEF JInv
  <2>13. CASE /\ c \notin session.cutCalls /\ phase = "Running"
              /\ session'.typed = session.typed \cup {c}
              /\ commands' = Append(commands, ToolResult(c))
    <3>1. Going /\ c \in Uncut
      BY Zenon, <2>4, <2>13 DEF IInv, HandleTypes, Phases, Going, Uncut
    <3>2. /\ engine.at = "round" /\ c \in engine.calls \ committed
          /\ c \notin session.typed /\ ~ Has("execute") /\ Once(c)
      BY Zenon, <2>1, <3>1 DEF JInv, InFlight
    <3>3. ASSUME NEW i \in DOMAIN commands, commands[i].kind = "break" PROVE FALSE
      <4>1. commands[i].what \in Breaking
        BY Zenon, <3>3, BreakIsBreaking DEF JInv
      <4> QED BY Zenon, <2>1, <3>1, <4>1 DEF JInv, Pending
    <3>4. ASSUME NEW i \in DOMAIN commands, commands[i].kind = "result" PROVE commands[i].what # c
      BY Zenon, <2>1, <3>2, <3>4 DEF JInv, Awaited
    <3> PICK n : n = Len(commands) + 1
      BY Zenon
    <3>5. ToolResult(c) \in Command /\ ToolResult(c).kind = "result" /\ ToolResult(c).what = c
      BY Zenon, <2>3, CommandFields DEF ToolResult
    <3>6. /\ DOMAIN commands' = DOMAIN commands \cup {n} /\ n \notin DOMAIN commands
          /\ \A i \in DOMAIN commands : commands'[i] = commands[i]
          /\ commands'[n] = ToolResult(c)
      BY <2>13, <3>5, Channels, Extended
    <3>7. \A i \in DOMAIN commands' : commands'[i].kind # "break"
      BY Zenon, <3>3, <3>5, <3>6
    <3>8. Awaited'
      <4> SUFFICES ASSUME NEW i \in DOMAIN commands', commands'[i].kind = "result"
                   PROVE  /\ commands'[i].what \in engine.calls \ committed
                          /\ commands'[i].what \in session'.typed
                          /\ \A j \in DOMAIN commands' :
                               commands'[j].kind = "result" /\ commands'[j].what = commands'[i].what
                                 => j = i
        BY Zenon, <2>1, <3>2, <3>7 DEF Awaited, Has
      <4>1. CASE i = n
        BY <2>13, <3>2, <3>4, <3>5, <3>6, <4>1
      <4>2. CASE i \in DOMAIN commands
        <5>1. commands[i].kind = "result" /\ commands'[i] = commands[i] /\ commands[i].what # c
          BY Zenon, <3>4, <3>6, <4>2
        <5> QED BY <2>1, <2>10, <3>5, <3>6, <4>2, <5>1 DEF JInv, Awaited
      <4> QED BY Zenon, <3>6, <4>1, <4>2
    <3>9. Forwarded'
      BY <2>1, <2>7, <2>13, <3>5, <3>6 DEF JInv, Forwarded
    <3>10. c \notin Uncut'
      BY Zenon, <2>6, <3>2 DEF Uncut
    <3>11. InFlight'
      BY Zenon, <2>1, <2>2, <2>4, <2>5, <2>7, <2>13, <3>10 DEF JInv, InFlight, Has
    <3>12. Own'
      BY Zenon, <2>1, <2>2, <2>7, <3>7 DEF JInv, Own
    <3> QED BY Zenon, <2>8, <2>9, <2>11, <3>8, <3>9, <3>11, <3>12 DEF JInv
  <2> QED BY Zenon, <2>2, <2>12, <2>13
<1> QED BY Zenon, <1>1, <1>2

-----------------------------------------------------------------------------
(* The invariant is inductive, and no result is stray. *)

\* A new Run has exchanged nothing.
LEMMA InitJInv == Init => JInv
<1> SUFFICES ASSUME Init PROVE JInv
  BY Zenon
<1>1. /\ DOMAIN commands = {} /\ DOMAIN events = {} /\ events = <<>> /\ engine.at = "model"
      /\ session.round = 0 /\ session.typed = {} /\ session.ready = <<>>
      /\ running = {} /\ results = <<>> /\ barrier = "none"
  BY Zenon, SeqEmpty DEF Init
<1>2. Breaking = {} /\ Uncut = {}
  BY Zenon, <1>1, EmptySet DEF Init, Breaking, Uncut, Flight
<1>3. Awaited /\ Forwarded /\ InFlight
  BY Zenon, <1>1, <1>2 DEF Awaited, Forwarded, InFlight
<1>4. Pending /\ Own /\ Rounds
  BY Zenon, <1>1, <1>2 DEF Pending, Own, Rounds, Has
<1>5. Order /\ Sync
  BY Zenon, <1>1 DEF Order, Sync, Has, Awaiting
<1> QED BY Zenon, <1>3, <1>4, <1>5 DEF JInv

\* Every step keeps it.
LEMMA NextJInv == OwnMessages /\ IInv /\ JInv /\ [Next]_vars => JInv'
<1> SUFFICES ASSUME OwnMessages, IInv, JInv, [Next]_vars PROVE JInv'
  BY Zenon
<1>1. CASE Engine
  <2>1. CASE ReceiveInsert
    BY Zenon, <2>1, ReceiveInsertJInv
  <2>2. CASE ReceiveBreak \/ StartCompaction \/ Answer \/ AppendedAll \/ ResumeRunning
    BY Zenon, <2>2, CycleJInv
  <2>3. CASE ReceiveCancel \/ NoticeCancellation \/ CycleFails \/ BarrierLost \/ CycleLosesClient
    BY Zenon, <2>3, StopsJInv
  <2>4. CASE ReceiveResult
    BY Zenon, <2>4, ReceiveResultJInv
  <2>5. CASE ReceiveBreakInRound
    BY <2>5, ReceiveBreakInRoundJInv
  <2>6. CASE EndCompaction
    BY <2>6, EndCompactionJInv
  <2>7. CASE Finalize
    BY <2>7, FinalizeJInv
  <2>8. CASE CommitFinal
    BY <2>8, CommitFinalJInv
  <2>9. CASE AppendNext
    BY <2>9, AppendNextJInv
  <2>10. CASE BarrierPasses
    BY <2>10, BarrierPassesJInv
  <2>11. CASE \E cs \in SUBSET Call : StartRound(cs)
    BY Zenon, <2>11, StartRoundJInv
  <2>12. CASE \E c \in Call : CutCall(c)
    BY Zenon, <2>12, CutCallJInv
  <2> QED BY Zenon, <1>1, <2>1, <2>2, <2>3, <2>4, <2>5, <2>6, <2>7, <2>8, <2>9, <2>10, <2>11, <2>12
             DEF Engine
<1>2. CASE Session
  <2>1. CASE TakeAction
    BY Zenon, <2>1, TakeActionJInv
  <2>2. CASE SeeStarted
    BY <2>2, SeeStartedJInv
  <2>3. CASE SeeRuntime
    BY <2>3, SeeRuntimeJInv
  <2>4. CASE SeeCheckpoint
    BY <2>4, SeeCheckpointJInv
  <2>5. CASE SeeResult
    BY <2>5, SeeResultJInv
  <2>6. CASE SeeEnded \/ CloseSession
    BY Zenon, <2>6, SessionEndsJInv
  <2>7. CASE ForwardCompletion
    BY <2>7, ForwardCompletionJInv
  <2>8. CASE \E now \in Orders : SeeExecute(now)
    BY <2>8, SeeExecuteJInv
  <2> QED BY Zenon, <1>2, <2>1, <2>2, <2>3, <2>4, <2>5, <2>6, <2>7, <2>8 DEF Session
<1>3. CASE \E d \in Delivery : Submit(d) \/ Task(d)
  BY Zenon, <1>3, DeliveryJInv
<1>4. CASE \E c \in Call : ToolEnds(c)
  BY <1>4, ToolEndsJInv
<1>5. CASE CancelRun
  BY <1>5, CancelRunJInv
<1>6. CASE SessionBreaks \/ Supersede
  BY Zenon, <1>6, SessionEndsJInv DEF SessionBreaks
<1>7. CASE UNCHANGED vars
  <2>1. /\ UNCHANGED <<commands, engine, committed, events, barrier, session, running, results>>
        /\ Breaking' = Breaking
    BY Zenon, <1>7 DEF vars, handle, stored, channel, client, Breaking
  <2> QED BY Zenon, <2>1, ExchangeSame
<1> QED BY Zenon, <1>1, <1>2, <1>3, <1>4, <1>5, <1>6, <1>7 DEF Next

\* The Run ends for another reason, if it ends.
LEMMA EndsOtherwise ==
  ASSUME IInv, NEW o, o # "stray_result", Stop(o)
  PROVE  NoStrayResult'
  BY Zenon DEF IInv, EngineTypes, EngineState, Stop, NoStrayResult

\* An event is emitted and the Run goes on, or its client is gone.
LEMMA EmitsOtherwise ==
  ASSUME IInv, NEW evs, NEW next, NEW rest, EmitThen(evs, next, rest), next.then # "stray_result"
  PROVE  NoStrayResult'
<1>1. CASE SessionOver
  BY Zenon, <1>1, EndsOtherwise DEF EmitThen
<1>2. CASE ~ SessionOver
  BY Zenon, <1>2 DEF EmitThen, NoStrayResult
<1> QED BY Zenon, <1>1, <1>2

\* No step of the engine ends the Run for a stray result.
LEMMA EngineNoStray ==
  ASSUME IInv, JInv, NoStrayResult, Engine
  PROVE  NoStrayResult'
<1>1. engine \in EngineState /\ engine.then # "stray_result"
  BY Zenon DEF IInv, EngineTypes, NoStrayResult
<1>2. \A at, last, then : then # "stray_result" => Appending(at, last, then).then # "stray_result"
  BY Zenon, <1>1 DEF EngineState, Appending
<1>3. CASE ReceiveInsert \/ AppendedAll \/ ResumeRunning \/ ReceiveBreakInRound
  BY Zenon, <1>1, <1>3 DEF ReceiveInsert, AppendedAll, ResumeRunning, ReceiveBreakInRound, EngineState,
                    NoStrayResult
<1>4. CASE ReceiveBreak \/ StartCompaction \/ Answer
  BY Zenon, <1>2, <1>4 DEF ReceiveBreak, StartCompaction, Answer, NoStrayResult
<1>5. CASE ReceiveCancel \/ NoticeCancellation \/ CycleFails \/ BarrierLost \/ CycleLosesClient
  BY Zenon, <1>5, EndsOtherwise DEF ReceiveCancel, NoticeCancellation, CycleFails, BarrierLost,
                             CycleLosesClient
<1>6. CASE ReceiveResult
  BY Zenon, <1>6, ReceiveResultJInv DEF NoStrayResult
<1>7. CASE EndCompaction
  <2>1. PICK evs, last, rest : EmitThen(evs, Appending("await_compaction", last, "model"), rest)
    BY Zenon, <1>7 DEF EndCompaction
  <2> QED BY Zenon, <1>2, <2>1, EmitsOtherwise
<1>8. CASE Finalize
  <2>1. CASE Stop("cancelled")
    BY Zenon, <2>1, EndsOtherwise
  <2>2. CASE \/ engine' = [engine EXCEPT !.at = "final"]
             \/ engine' = Appending("append", Deliveries(commands), "resume")
    BY Zenon, <1>1, <1>2, <2>2 DEF EngineState, NoStrayResult
  <2> QED BY Zenon, <1>8, <2>1, <2>2 DEF Finalize
<1>9. CASE CommitFinal
  <2>1. [engine EXCEPT !.at = "await_final"].then # "stray_result"
    BY Zenon, <1>1 DEF EngineState
  <2> QED BY Zenon, <1>9, <2>1, EmitsOtherwise DEF CommitFinal
<1>10. CASE AppendNext
  <2>1. CASE engine' = [engine EXCEPT !.todo = Tail(@)]
    BY Zenon, <1>1, <2>1 DEF EngineState, NoStrayResult
  <2>2. ASSUME NEW evs, EmitThen(evs, [engine EXCEPT !.at = "await_append"], commands)
        PROVE  NoStrayResult'
    <3>1. [engine EXCEPT !.at = "await_append"].then # "stray_result"
      BY Zenon, <1>1 DEF EngineState
    <3> QED BY Zenon, <2>2, <3>1, EmitsOtherwise
  <2> QED BY Zenon, <1>10, <2>1, <2>2 DEF AppendNext
<1>11. CASE BarrierPasses
  <2>1. CASE Stop("completed")
    BY Zenon, <2>1, EndsOtherwise
  <2>2. CASE \/ engine' = [engine EXCEPT !.at = "append", !.todo = Tail(@), !.inserted = TRUE]
             \/ engine' = [engine EXCEPT !.at = "append"]
    BY Zenon, <1>1, <2>2 DEF EngineState, NoStrayResult
  <2> QED BY Zenon, <1>11, <2>1, <2>2 DEF BarrierPasses
<1>12. CASE \E cs \in SUBSET Call : StartRound(cs)
  <2>1. PICK evs, cs : EmitThen(evs, [engine EXCEPT !.at = "round", !.round = engine.round + 1,
                                                    !.calls = cs], commands)
    BY Zenon, <1>12 DEF StartRound
  <2>2. [engine EXCEPT !.at = "round", !.round = engine.round + 1, !.calls = cs].then # "stray_result"
    BY Zenon, <1>1 DEF EngineState
  <2> QED BY Zenon, <2>1, <2>2, EmitsOtherwise
<1>13. CASE \E c \in Call : CutCall(c)
  <2>1. PICK evs, next : /\ EmitThen(evs, next, commands)
                         /\ next \in {engine, Appending("await_settled", engine.todo, "model")}
    BY Zenon, <1>13 DEF CutCall, Commit
  <2>2. next.then # "stray_result"
    BY Zenon, <1>1, <1>2, <2>1
  <2> QED BY Zenon, <2>1, <2>2, EmitsOtherwise
<1> QED BY Zenon, <1>3, <1>4, <1>5, <1>6, <1>7, <1>8, <1>9, <1>10, <1>11, <1>12, <1>13 DEF Engine

\* Nothing but the engine ends the Run.
LEMMA NextNoStray == IInv /\ JInv /\ NoStrayResult /\ [Next]_vars => NoStrayResult'
<1> SUFFICES ASSUME IInv, JInv, NoStrayResult, [Next]_vars PROVE NoStrayResult'
  BY Zenon
<1>1. CASE Engine
  BY Zenon, <1>1, EngineNoStray
<1>2. CASE engine' = engine
  BY Zenon, <1>2 DEF NoStrayResult
<1>3. CASE Session
  <2>1. engine' = engine
    BY Zenon, <1>3 DEF Session, TakeAction, SeeStarted, SeeRuntime, SeeCheckpoint, SeeResult, SeeEnded,
                ForwardCompletion, CloseSession, SeeExecute, SessionFails
  <2> QED BY Zenon, <1>2, <2>1
<1>4. CASE \/ \E d \in Delivery : Submit(d) \/ Task(d)
           \/ \E c \in Call : ToolEnds(c)
           \/ CancelRun \/ SessionBreaks \/ Supersede \/ UNCHANGED vars
  <2>1. engine' = engine
    BY Zenon, <1>4 DEF Submit, Task, SendBatch, Park, ToolEnds, CancelRun, SessionBreaks, SessionFails,
                Supersede, vars
  <2> QED BY <1>2, <2>1
<1> QED BY Zenon, <1>1, <1>3, <1>4 DEF Next

\* The first event finds the session where the engine left it.
LEMMA JInvFindsRound == IInv /\ JInv => CommitFindsRound
<1> SUFFICES ASSUME IInv, JInv PROVE CommitFindsRound
  BY Zenon
<1>1. ASSUME NEW kind, NextEvent(kind) PROVE Ordered(1) /\ Head(events) = events[1] /\ events[1].kind = kind
  <2>1. Up /\ events # <<>> /\ Head(events).kind = kind
    BY Zenon, <1>1 DEF NextEvent, Up
  <2>2. 1 \in DOMAIN events /\ Head(events) = events[1]
    BY Zenon, <2>1, Channels, Shortened
  <2> QED BY Zenon, <2>1, <2>2 DEF JInv, Order
<1>2. CommitFindsCompletion
  BY Zenon, <1>1 DEF CommitFindsCompletion, Ordered
<1>3. RuntimeCommitOutsideRound
  BY Zenon, <1>1 DEF RuntimeCommitOutsideRound, Ordered
<1> QED BY Zenon, <1>2, <1>3 DEF CommitFindsRound

-----------------------------------------------------------------------------
(* What drain_accepted collects. *)

\* The places of a finite set of positions are numbered from 1, each once.
LEMMA Ranks ==
  ASSUME NEW n \in Nat, NEW S \in SUBSET (1 .. n)
  PROVE  /\ IsFiniteSet(S) /\ Cardinality(S) \in Nat
         /\ \A m \in 1 .. Cardinality(S) :
              Nth(S, m) \in S /\ Cardinality({k \in S : k <= Nth(S, m)}) = m
         /\ \A i \in S : \E m \in 1 .. Cardinality(S) : Nth(S, m) = i
<1> DEFINE Upto(i) == {k \in S : k <= i}
           rank == [i \in S |-> Cardinality(Upto(i))]
           T == 1 .. Cardinality(S)
<1>1. IsFiniteSet(1 .. n)
  BY FS_Interval
<1>2. IsFiniteSet(S)
  BY Zenon, <1>1, FS_Subset
<1>3. Cardinality(S) \in Nat
  BY Zenon, <1>2, FS_CardinalityType
<1>4. ASSUME NEW i \in S
      PROVE  /\ IsFiniteSet(Upto(i)) /\ Cardinality(Upto(i)) \in Nat
             /\ Cardinality(Upto(i)) <= Cardinality(S) /\ Cardinality(Upto(i)) # 0
  <2>1. Upto(i) \in SUBSET S /\ i \in Upto(i)
    OBVIOUS
  <2>2. IsFiniteSet(Upto(i)) /\ Cardinality(Upto(i)) <= Cardinality(S)
    BY Zenon, <1>2, <2>1, FS_Subset
  <2>3. Cardinality(Upto(i)) \in Nat
    BY Zenon, <2>2, FS_CardinalityType
  <2>4. Cardinality(Upto(i)) # 0
    BY Zenon, <2>1, <2>2, FS_EmptySet
  <2> QED BY Zenon, <2>2, <2>3, <2>4
<1>5. ASSUME NEW i \in S, NEW j \in S, i < j
      PROVE  Cardinality(Upto(i)) < Cardinality(Upto(j))
  <2>1. Upto(i) \in SUBSET Upto(j) /\ j \in Upto(j) /\ j \notin Upto(i)
    <3>1. i \in Int /\ j \in Int
      OBVIOUS
    <3>2. j \in Upto(j) /\ j \notin Upto(i)
      BY <3>1, <1>5
    <3>3. ASSUME NEW k \in Upto(i) PROVE k \in Upto(j)
      <4>1. k \in S /\ k \in Int /\ k <= i
        OBVIOUS
      <4>2. k <= j
        BY <4>1, <3>1, <1>5
      <4> QED BY Zenon, <4>1, <4>2
    <3> QED BY Zenon, <3>2, <3>3
  <2>2. Upto(i) # Upto(j)
    BY Zenon, <2>1
  <2>3. IsFiniteSet(Upto(j))
    BY Zenon, <1>4
  <2>4. Cardinality(Upto(i)) <= Cardinality(Upto(j)) /\ Cardinality(Upto(i)) # Cardinality(Upto(j))
    BY Zenon, <2>1, <2>2, <2>3, FS_Subset
  <2> QED BY <2>4, <1>4
<1>6. rank \in [S -> T]
  BY <1>3, <1>4
<1>7. ASSUME NEW i \in S, NEW j \in S, rank[i] = rank[j]
      PROVE  i = j
  <2>1. i \in Nat /\ j \in Nat
    OBVIOUS
  <2>2. ~ (i < j) /\ ~ (j < i)
    BY <1>4, <1>5, <1>7
  <2> QED BY <2>1, <2>2
<1>8. rank \in Injection(S, T)
  BY Zenon, <1>6, <1>7 DEF Injection, IsInjective
<1>9. IsFiniteSet(T) /\ Cardinality(T) = Cardinality(S)
  BY <1>3, FS_Interval
<1>10. rank \in Surjection(S, T)
  BY Zenon, <1>8, <1>9, FS_Injection
<1>11. \A m \in T : \E i \in S : rank[i] = m
  BY Zenon, <1>10 DEF Surjection
<1>12. ASSUME NEW m \in T
       PROVE  Nth(S, m) \in S /\ Cardinality(Upto(Nth(S, m))) = m
  <2>1. \E i \in S : Cardinality(Upto(i)) = m
    BY Zenon, <1>11
  <2> QED BY Zenon, <2>1 DEF Nth
<1>13. ASSUME NEW i \in S
       PROVE  \E m \in T : Nth(S, m) = i
  <2>1. rank[i] \in T
    BY Zenon, <1>6
  <2>2. Nth(S, rank[i]) \in S /\ rank[Nth(S, rank[i])] = rank[i]
    BY Zenon, <1>12, <2>1
  <2>3. Nth(S, rank[i]) = i
    BY Zenon, <1>7, <2>2
  <2> QED BY Zenon, <2>1, <2>3
<1> QED BY Zenon, <1>2, <1>3, <1>12, <1>13

\* drain_accepted collects every batch of the queue, and each once.
LEMMA DeliveriesSet ==
  ASSUME NEW q \in Seq(Command)
  PROVE  /\ Deliveries(q) \in Seq(Delivery)
         /\ Range(Deliveries(q)) = BatchesIn(q)
         /\ Distinct(q) => IsInjective(Deliveries(q))
<1> DEFINE S == Batches(q)
           N == Cardinality(S)
<1>1. Len(q) \in Nat /\ DOMAIN q = 1 .. Len(q) /\ \A i \in DOMAIN q : q[i] \in Command
  BY Zenon, SeqLength
<1>2. S \in SUBSET (1 .. Len(q))
  BY Zenon, <1>1 DEF Batches
<1>3. \A i \in S : q[i].what \in Delivery
  <2> SUFFICES ASSUME NEW i \in S PROVE q[i].what \in Delivery
    BY Zenon
  <2>1. q[i] \in Command /\ q[i].kind \in {"insert", "break"}
    BY Zenon, <1>1 DEF Batches
  <2> QED BY <2>1 DEF Command, Cancel
<1>4. /\ N \in Nat
      /\ \A m \in 1 .. N : Nth(S, m) \in S /\ Cardinality({k \in S : k <= Nth(S, m)}) = m
      /\ \A i \in S : \E m \in 1 .. N : Nth(S, m) = i
  BY Zenon, <1>1, <1>2, Ranks
<1>5. Deliveries(q) = [m \in 1 .. N |-> q[Nth(S, m)].what]
  BY Zenon DEF Deliveries
<1> HIDE DEF S, N
<1>6. DOMAIN Deliveries(q) = 1 .. N /\ \A m \in 1 .. N : Deliveries(q)[m] = q[Nth(S, m)].what
  BY Zenon, <1>5
<1>7. Deliveries(q) \in Seq(Delivery)
  <2>1. Deliveries(q) \in [1 .. N -> Delivery]
    BY Zenon, <1>3, <1>4, <1>5
  <2> QED BY <1>4, <2>1
<1>8. Range(Deliveries(q)) = {q[i].what : i \in S}
  <2>1. Range(Deliveries(q)) = {q[Nth(S, m)].what : m \in 1 .. N}
    BY Zenon, <1>6 DEF Range
  <2>2. {q[Nth(S, m)].what : m \in 1 .. N} \subseteq {q[i].what : i \in S}
    BY Zenon, <1>4
  <2>3. ASSUME NEW i \in S
        PROVE  q[i].what \in {q[Nth(S, m)].what : m \in 1 .. N}
    <3>1. PICK m \in 1 .. N : Nth(S, m) = i
      BY Zenon, <1>4
    <3> QED BY Zenon, <3>1
  <2> QED BY Zenon, <2>1, <2>2, <2>3
<1>9. ASSUME Distinct(q), NEW m \in 1 .. N, NEW k \in 1 .. N, Deliveries(q)[m] = Deliveries(q)[k]
      PROVE  m = k
  <2>1. Nth(S, m) = Nth(S, k)
    BY Zenon, <1>4, <1>6, <1>9 DEF Distinct, S
  <2> QED BY Zenon, <1>4, <2>1
<1> QED BY Zenon, <1>6, <1>7, <1>8, <1>9 DEF BatchesIn, S, IsInjective

\* The constant part of the invariant holds.
LEMMA Drained == DrainCollects
  BY Zenon, DeliveriesSet DEF DrainCollects

-----------------------------------------------------------------------------
(* The batches and the types. *)

\* It holds in every state of every behaviour.
LEMMA Invariance == Spec => []IInv
<1>1. Init => IInv
  BY Zenon, InitIInv, Drained
<1> QED BY <1>1, NextIInv, PTL DEF Spec

\* Engine, session, tasks and channels keep their types; a barrier is open only
\* while the engine waits for it, and the session is in no round that the engine
\* has not begun (run/engine.rs, cursor/conversation/output.rs).
THEOREM RunTypes == Spec => []TypeOK
  BY Invariance, IInvTypeOK, PTL

\* For any messages, at any moment and in any number, what was accepted is in one
\* place until its sender is answered: the engine forgets no batch on any of its
\* paths, and holds none twice (run/messages.rs, run/engine.rs).
THEOREM AcceptedIsHeld == Spec => []SentIsHeld
  BY Invariance, IInvSentIsHeld, PTL

\* Nothing is accepted that the ending Run would not look at: begin_finalizing and
\* submit_messages exclude each other (run/handle.rs).
THEOREM EndIsDrained == Spec => []ClosedIsDrained
<1>1. IInv => ClosedIsDrained
  BY Zenon DEF IInv
<1> QED BY <1>1, Invariance, PTL

-----------------------------------------------------------------------------
(* The exchange. *)

\* Both invariants, and no stray result, in every state of every behaviour.
LEMMA Exchange == OwnMessages => (Spec => [](IInv /\ JInv /\ NoStrayResult))
<1> SUFFICES ASSUME OwnMessages PROVE Spec => [](IInv /\ JInv /\ NoStrayResult)
  BY Zenon
<1>1. Init => IInv /\ JInv /\ NoStrayResult
  BY Drained, InitIInv, InitJInv DEF Init, NoStrayResult
<1>2. IInv /\ JInv /\ NoStrayResult /\ [Next]_vars => (IInv /\ JInv /\ NoStrayResult)'
  BY Zenon, NextIInv, NextJInv, NextNoStray
<1> QED BY <1>1, <1>2, PTL DEF Spec

\* Whatever is delivered, cancelled, superseded or compacted meanwhile, a tool
\* result reaches the engine only in the round that waits for it: the failure
\* "received a tool result while the model was running" cannot occur
\* (run/engine.rs, run/tool_round.rs).
THEOREM ResultsAreAwaited == OwnMessages => (Spec => []NoStrayResult)
<1> SUFFICES ASSUME OwnMessages PROVE Spec => []NoStrayResult
  BY Zenon
<1>1. Spec => [](IInv /\ JInv /\ NoStrayResult)
  BY Zenon, Exchange
<1> QED BY <1>1, PTL

\* Every commit the session sees finds the round and the typed completion it came
\* from, and a runtime message finds no round: the two protocol errors of the
\* session's ToolResult branch cannot occur, and no barrier of a runtime message is
\* dropped (cursor/conversation/output.rs).
THEOREM CommitsFindTheirRound == OwnMessages => (Spec => []CommitFindsRound)
<1> SUFFICES ASSUME OwnMessages PROVE Spec => []CommitFindsRound
  OBVIOUS
<1>1. Spec => [](IInv /\ JInv /\ NoStrayResult)
  BY Exchange
<1> QED BY <1>1, JInvFindsRound, PTL

=============================================================================
