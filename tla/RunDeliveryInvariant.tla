------------------------- MODULE RunDeliveryInvariant -------------------------
(* The steps of the first invariant of RunDelivery (RunExchangeInvariant): where *)
(* every delivery is, from the call that was accepted to the step that held it.  *)
EXTENDS RunExchangeInvariant

-----------------------------------------------------------------------------
(* Sequences as the sets of their elements. *)

\* Two sequences, one after the other.
LEMMA ConcatSet ==
  ASSUME NEW S, NEW s \in Seq(S), NEW t \in Seq(S)
  PROVE  /\ s \o t \in Seq(S)
         /\ Range(s \o t) = Range(s) \cup Range(t)
         /\ IsInjective(s) /\ IsInjective(t) /\ Range(s) \cap Range(t) = {}
              => IsInjective(s \o t)
<1> DEFINE u == s \o t
<1>1. /\ u \in Seq(S) /\ Len(u) = Len(s) + Len(t)
      /\ \A i \in 1 .. Len(s) + Len(t) : u[i] = IF i <= Len(s) THEN s[i] ELSE t[i - Len(s)]
  BY Zenon, SeqConcat
<1>2. /\ Len(s) \in Nat /\ Len(t) \in Nat /\ DOMAIN s = 1 .. Len(s) /\ DOMAIN t = 1 .. Len(t)
      /\ DOMAIN u = 1 .. (Len(s) + Len(t))
  BY Zenon, <1>1, SeqLength
<1> HIDE DEF u
<1>3. /\ \A i \in DOMAIN s : i \in DOMAIN u /\ u[i] = s[i]
      /\ \A j \in DOMAIN t : j + Len(s) \in DOMAIN u /\ u[j + Len(s)] = t[j]
      /\ \A i \in DOMAIN u : (i \in DOMAIN s /\ u[i] = s[i])
                             \/ (i - Len(s) \in DOMAIN t /\ u[i] = t[i - Len(s)])
  BY <1>1, <1>2
<1>4. Range(u) = Range(s) \cup Range(t)
  BY <1>3 DEF Range
<1>5. ASSUME IsInjective(s), IsInjective(t), Range(s) \cap Range(t) = {},
             NEW i \in DOMAIN u, NEW j \in DOMAIN u, u[i] = u[j]
      PROVE  i = j
  <2>1. \A a \in DOMAIN s, b \in DOMAIN t : s[a] # t[b]
    BY Zenon, <1>5 DEF Range
  <2>2. CASE i \in DOMAIN s /\ j \in DOMAIN s /\ u[i] = s[i] /\ u[j] = s[j]
    BY Zenon, <1>5, <2>2 DEF IsInjective
  <2>3. CASE /\ i - Len(s) \in DOMAIN t /\ j - Len(s) \in DOMAIN t
             /\ u[i] = t[i - Len(s)] /\ u[j] = t[j - Len(s)]
    <3>1. i - Len(s) = j - Len(s)
      BY Zenon, <1>5, <2>3 DEF IsInjective
    <3> QED BY <3>1, <1>2
  <2> QED BY <1>3, <1>5, <2>1, <2>2, <2>3
<1>6. u = s \o t
  BY Zenon DEF u
<1> QED BY Zenon, <1>1, <1>4, <1>5, <1>6 DEF IsInjective

\* A sequence of one element.
LEMMA SingleSet ==
  ASSUME NEW S, NEW x \in S
  PROVE  <<x>> \in Seq(S) /\ Range(<<x>>) = {x} /\ IsInjective(<<x>>)
<1>1. <<x>> \in Seq(S) /\ DOMAIN <<x>> = {1} /\ <<x>>[1] = x
  OBVIOUS
<1> QED BY Zenon, <1>1 DEF Range, IsInjective

-----------------------------------------------------------------------------
(* The batches in a queue of commands. *)

\* A command that is sent.
LEMMA CommandSent ==
  ASSUME NEW q \in Seq(Command), NEW x \in Command
  PROVE  /\ Append(q, x) \in Seq(Command)
         /\ x.kind \notin {"insert", "break"} =>
              /\ Batches(Append(q, x)) = Batches(q)
              /\ BatchesIn(Append(q, x)) = BatchesIn(q)
              /\ Distinct(q) => Distinct(Append(q, x))
         /\ x.kind \in {"insert", "break"} =>
              /\ BatchesIn(Append(q, x)) = BatchesIn(q) \cup {x.what}
              /\ Distinct(q) /\ x.what \notin BatchesIn(q) => Distinct(Append(q, x))
<1> DEFINE r == Append(q, x)
<1>1. /\ r \in Seq(Command) /\ Len(r) = Len(q) + 1
      /\ \A i \in 1 .. Len(q) : r[i] = q[i]
      /\ r[Len(q) + 1] = x
  BY SeqAppend
<1>2. Len(q) \in Nat /\ DOMAIN q = 1 .. Len(q) /\ DOMAIN r = 1 .. (Len(q) + 1)
  BY Zenon, <1>1, SeqLength
<1> HIDE DEF r
<1>3. \A i \in Batches(q) : i \in 1 .. Len(q) /\ r[i] = q[i]
  BY Zenon, <1>1, <1>2 DEF Batches
<1>4. CASE x.kind \notin {"insert", "break"}
  <2>1. Batches(r) = Batches(q)
    BY <1>1, <1>2, <1>4 DEF Batches
  <2>2. BatchesIn(r) = BatchesIn(q) /\ (Distinct(q) => Distinct(r))
    BY Zenon, <1>3, <2>1 DEF BatchesIn, Distinct
  <2> QED BY Zenon, <1>1, <1>4, <2>1, <2>2 DEF r
<1>5. CASE x.kind \in {"insert", "break"}
  <2>1. Batches(r) = Batches(q) \cup {Len(q) + 1}
    BY <1>1, <1>2, <1>5 DEF Batches
  <2>2. BatchesIn(r) = BatchesIn(q) \cup {x.what}
    BY <1>1, <1>3, <2>1 DEF BatchesIn
  <2>3. Distinct(q) /\ x.what \notin BatchesIn(q) => Distinct(r)
    BY <1>1, <1>3, <2>1 DEF Distinct, BatchesIn
  <2> QED BY Zenon, <1>1, <1>5, <2>2, <2>3 DEF r
<1> QED BY Zenon, <1>4, <1>5

\* A command that is received.
LEMMA CommandReceived ==
  ASSUME NEW q \in Seq(Command), q # <<>>
  PROVE  /\ Tail(q) \in Seq(Command) /\ Head(q) \in Command
         /\ Head(q).kind \notin {"insert", "break"} =>
              /\ BatchesIn(Tail(q)) = BatchesIn(q)
              /\ Distinct(q) => Distinct(Tail(q))
         /\ Head(q).kind \in {"insert", "break"} /\ Distinct(q) =>
              /\ Head(q).what \in BatchesIn(q)
              /\ BatchesIn(Tail(q)) = BatchesIn(q) \ {Head(q).what}
              /\ Distinct(Tail(q))
<1> DEFINE r == Tail(q)
<1>1. /\ Head(q) \in Command /\ r \in Seq(Command) /\ Len(r) = Len(q) - 1
      /\ \A i \in 1 .. Len(r) : r[i] = q[i + 1]
  BY Zenon, SeqTail
<1>2. /\ Len(q) \in Nat /\ Len(q) # 0 /\ DOMAIN q = 1 .. Len(q)
      /\ DOMAIN r = 1 .. (Len(q) - 1) /\ Head(q) = q[1]
  BY <1>1, SeqLength, SeqEmpty
<1> HIDE DEF r
<1>3. \A i \in Batches(r) : i \in Nat /\ i + 1 # 1 /\ i + 1 \in Batches(q) /\ r[i] = q[i + 1]
  BY <1>1, <1>2 DEF Batches
<1>4. ASSUME NEW i \in Batches(q), i # 1
      PROVE  i - 1 \in Batches(r) /\ r[i - 1] = q[i]
  <2>1. i \in 2 .. Len(q)
    BY <1>2, <1>4 DEF Batches
  <2>2. i - 1 \in 1 .. Len(r) /\ (i - 1) + 1 = i
    BY <1>1, <1>2, <2>1
  <2>3. r[i - 1] = q[i]
    BY Zenon, <1>1, <2>2
  <2> QED BY Zenon, <1>1, <1>2, <2>2, <2>3 DEF Batches
<1>5. Distinct(q) => Distinct(r)
  <2> SUFFICES ASSUME Distinct(q), NEW i \in Batches(r), NEW j \in Batches(r), r[i].what = r[j].what
               PROVE  i = j
    BY Zenon DEF Distinct
  <2>1. i + 1 = j + 1
    BY <1>3 DEF Distinct
  <2> QED BY <1>3, <2>1
<1>6. BatchesIn(r) \subseteq BatchesIn(q)
  BY Zenon, <1>3 DEF BatchesIn
<1>7. 1 \in Batches(q) <=> Head(q).kind \in {"insert", "break"}
  BY <1>2 DEF Batches
<1>8. ASSUME NEW i \in Batches(q), i # 1
      PROVE  q[i].what \in BatchesIn(r)
  BY Zenon, <1>4, <1>8 DEF BatchesIn
<1>9. ASSUME Head(q).kind \notin {"insert", "break"}
      PROVE  BatchesIn(r) = BatchesIn(q)
  BY Zenon, <1>6, <1>7, <1>8, <1>9 DEF BatchesIn
<1>10. ASSUME Head(q).kind \in {"insert", "break"}, Distinct(q)
       PROVE  Head(q).what \in BatchesIn(q) /\ BatchesIn(r) = BatchesIn(q) \ {Head(q).what}
  <2>1. 1 \in Batches(q) /\ q[1].what = Head(q).what
    BY Zenon, <1>2, <1>7, <1>10
  <2>2. Head(q).what \in BatchesIn(q)
    BY Zenon, <2>1 DEF BatchesIn
  <2>3. Head(q).what \notin BatchesIn(r)
    BY <1>3, <1>10, <2>1 DEF BatchesIn, Distinct
  <2>4. BatchesIn(q) \subseteq {Head(q).what} \cup BatchesIn(r)
    BY Zenon, <1>8, <2>1 DEF BatchesIn
  <2> QED BY Zenon, <1>6, <2>2, <2>3, <2>4
<1> QED BY Zenon, <1>1, <1>5, <1>9, <1>10 DEF r

\* Nothing is in the empty queue.
LEMMA CommandsEmpty ==
  <<>> \in Seq(Command) /\ Batches(<<>>) = {} /\ BatchesIn(<<>>) = {} /\ Distinct(<<>>)
<1>1. <<>> \in Seq(Command) /\ DOMAIN <<>> = {}
  BY Zenon, SeqEmpty
<1>2. Batches(<<>>) = {}
  BY Zenon, <1>1 DEF Batches
<1> QED BY Zenon, <1>1, <1>2 DEF BatchesIn, Distinct

\* The parts give the type invariant back.
LEMMA IInvTypeOK == IInv => TypeOK
  BY Zenon DEF IInv, TypeOK, HandleTypes, EngineTypes, ChannelTypes, ClientTypes, TaskTypes, RoundsBegun

\* They give SentIsHeld as well.
LEMMA IInvSentIsHeld == IInv => SentIsHeld
<1> SUFFICES ASSUME IInv PROVE SentIsHeld
  BY Zenon
<1> DEFINE q == Deliveries(commands)
<1>1. commands \in Seq(Command) /\ engine.held \in Seq(Delivery) /\ engine.todo \in Seq(Delivery)
  BY Zenon DEF IInv, HandleTypes, EngineTypes, EngineState
<1>2. q \in Seq(Delivery) /\ Range(q) = BatchesIn(commands) /\ IsInjective(q)
  BY Zenon, <1>1 DEF IInv, Placed, DrainCollects
<1> HIDE DEF q
<1>3. /\ q \o engine.held \in Seq(Delivery)
      /\ Range(q \o engine.held) = BatchesIn(commands) \cup Range(engine.held)
      /\ IsInjective(q \o engine.held)
  BY <1>1, <1>2, ConcatSet DEF IInv, Placed
<1>4. /\ Range((q \o engine.held) \o engine.todo)
           = BatchesIn(commands) \cup Range(engine.held) \cup Range(engine.todo)
      /\ IsInjective((q \o engine.held) \o engine.todo)
  <2>1. (BatchesIn(commands) \cup Range(engine.held)) \cap Range(engine.todo) = {}
    BY Zenon DEF IInv, Placed
  <2>2. IsInjective(engine.todo)
    BY Zenon DEF IInv, Placed
  <2> DEFINE u == q \o engine.held
  <2>3. u \in Seq(Delivery) /\ IsInjective(u) /\ Range(u) \cap Range(engine.todo) = {}
    BY Zenon, <1>3, <2>1
  <2>4. Range(u) = BatchesIn(commands) \cup Range(engine.held)
    BY Zenon, <1>3
  <2> HIDE DEF u
  <2>5. Range(u \o engine.todo) = Range(u) \cup Range(engine.todo) /\ IsInjective(u \o engine.todo)
    BY <1>1, <2>2, <2>3, ConcatSet
  <2> QED BY Zenon, <2>4, <2>5 DEF u
<1>5. Held = (q \o engine.held) \o engine.todo
  BY Zenon DEF Held, q
<1> QED BY Zenon, <1>4, <1>5 DEF SentIsHeld, IInv, Placed

\* The constant part stays.
LEMMA DrainStays == DrainCollects => DrainCollects'
  BY Zenon DEF DrainCollects

\* A Run starts with nothing sent.
LEMMA InitIInv == DrainCollects /\ Init => IInv
<1> SUFFICES ASSUME DrainCollects, Init PROVE IInv
  BY Zenon
<1> USE DeliveryAssumption
<1>1. HandleTypes
  BY Zenon, CommandsEmpty DEF Init, HandleTypes
<1>2. EngineTypes
  BY DEF Init, EngineTypes, EngineState, Step, Listening
<1>3. ChannelTypes
  BY DEF Init, ChannelTypes, Awaiting
<1>4. ClientTypes
  BY DEF Init, ClientTypes, SessionState
<1>5. TaskTypes
  BY Zenon DEF Init, TaskTypes, TaskState
<1>6. RoundsBegun
  BY DEF Init, RoundsBegun
<1>7. Phases
  BY Zenon DEF Init, Phases, Outcome
<1>8. Placed
  BY Zenon, EmptySet, CommandsEmpty DEF Init, Placed
<1>9. ClosedIsDrained
  BY Zenon, CommandsEmpty DEF Init, ClosedIsDrained
<1>10. Queued
  BY Zenon, EmptySet DEF Init, Queued
<1> QED BY Zenon, <1>1, <1>2, <1>3, <1>4, <1>5, <1>6, <1>7, <1>8, <1>9, <1>10 DEF IInv

-----------------------------------------------------------------------------
(* Steps that several actions share. *)

\* The engine about to append what it held back.
LEMMA AppendingFields ==
  IInv =>
    \A at \in Step, last \in Seq(Delivery), then \in Then :
      engine' = Appending(at, last, then) =>
        /\ engine' \in EngineState
        /\ engine'.at = at /\ engine'.then = then
        /\ engine'.round = engine.round /\ engine'.calls = engine.calls
        /\ engine'.held = <<>> /\ engine'.todo = engine.held \o last
<1> SUFFICES ASSUME IInv, NEW at \in Step, NEW last \in Seq(Delivery), NEW then \in Then,
                    engine' = Appending(at, last, then)
             PROVE  /\ engine' \in EngineState
                    /\ engine'.at = at /\ engine'.then = then
                    /\ engine'.round = engine.round /\ engine'.calls = engine.calls
                    /\ engine'.held = <<>> /\ engine'.todo = engine.held \o last
  BY Zenon
<1>1. engine \in EngineState
  BY Zenon DEF IInv, EngineTypes
<1>2. engine.held \o last \in Seq(Delivery)
  BY Zenon, <1>1, ConcatSet DEF EngineState
<1>3. engine' \in EngineState
  BY Zenon, <1>1, <1>2, EmptySet DEF Appending, EngineState, Then
<1>4. /\ engine'.at = at /\ engine'.then = then
      /\ engine'.round = engine.round /\ engine'.calls = engine.calls
      /\ engine'.held = <<>> /\ engine'.todo = engine.held \o last
  BY Zenon, <1>1 DEF Appending, EngineState
<1> QED BY Zenon, <1>3, <1>4

\* Its batches stay where one of them can be found.
LEMMA AppendingPlaced ==
  ASSUME IInv, NEW at \in Step, NEW last \in Seq(Delivery), NEW then \in Then,
         engine' = Appending(at, last, then), commands' \in Seq(Command),
         task' = task, Distinct(commands'), IsInjective(last),
         BatchesIn(commands') \cap Range(last) = {},
         BatchesIn(commands) \cup Range(engine.todo) = BatchesIn(commands') \cup Range(last)
  PROVE  Placed'
<1>1. engine.held \in Seq(Delivery)
  BY Zenon DEF IInv, EngineTypes, EngineState
<1>2. engine'.held = <<>> /\ engine'.todo = engine.held \o last
  BY Zenon, AppendingFields
<1>3. Range(<<>>) = {} /\ IsInjective(<<>>)
  BY Zenon, EmptySet
<1>4. Range(engine.held) \cap Range(last) = {} /\ IsInjective(engine.held)
  BY Zenon DEF IInv, Placed
<1>5. /\ Range(engine'.todo) = Range(engine.held) \cup Range(last)
      /\ IsInjective(engine'.todo)
  BY <1>1, <1>2, <1>4, ConcatSet
<1> QED BY Zenon, <1>2, <1>3, <1>5 DEF IInv, Placed

\* The end of the Run answers every sender and empties every place.
LEMMA StopIInv ==
  ASSUME IInv, NEW o \in Outcome, Stop(o), history' \subseteq Message,
         committed' \subseteq engine.calls
  PROVE  IInv'
<1>1. engine \in EngineState /\ task \in [Delivery -> TaskState] /\ events \in Seq(RunEvent)
  BY Zenon DEF IInv, EngineTypes, TaskTypes, ChannelTypes
<1>2. /\ engine' \in EngineState /\ engine'.at = "ended" /\ engine'.then = o
      /\ engine'.round = engine.round /\ engine'.calls = engine.calls
      /\ engine'.held = <<>> /\ engine'.todo = <<>>
  BY Zenon, <1>1, EmptySet DEF Stop, EngineState, Step
<1>3. task' = Settle(Held, "refused")
  BY Zenon DEF Stop, Held
<1>4. HandleTypes'
  BY Zenon, CommandsEmpty DEF IInv, HandleTypes, Stop
<1>5. EngineTypes'
  BY Zenon, <1>2 DEF EngineTypes
<1>6. /\ events' \in Seq(RunEvent)
      /\ \A i \in DOMAIN events' : events'[i].kind \in {"started", "execute"} =>
           i \in DOMAIN events /\ events'[i] = events[i]
  <2>1. CASE SessionOver
    BY Zenon, <1>1, <2>1 DEF Stop
  <2>2. CASE ~ SessionOver
    <3> DEFINE e == [kind |-> "ended"]
    <3>1. e \in RunEvent /\ e.kind \notin {"started", "execute"}
      BY Zenon DEF RunEvent
    <3>2. events' = Append(events, e)
      BY Zenon, <2>2 DEF Stop
    <3> HIDE DEF e
    <3>3. /\ events' \in Seq(RunEvent) /\ Len(events') = Len(events) + 1
          /\ \A i \in 1 .. Len(events) : events'[i] = events[i]
          /\ events'[Len(events) + 1] = e
      BY <1>1, <3>1, <3>2, SeqAppend
    <3>4. Len(events) \in Nat /\ DOMAIN events = 1 .. Len(events) /\ DOMAIN events' = 1 .. (Len(events) + 1)
      BY Zenon, <1>1, <3>3, SeqLength
    <3> QED BY <3>1, <3>3, <3>4
  <2> QED BY Zenon, <2>1, <2>2
<1>7. ChannelTypes'
  BY Zenon, <1>2, <1>6 DEF ChannelTypes, Stop, Awaiting
<1>8. ClientTypes'
  BY Zenon DEF IInv, ClientTypes, Stop, client
<1>9. TaskTypes'
  BY Zenon, <1>1, <1>3 DEF IInv, TaskTypes, Settle, TaskState, Stop
<1>10. RoundsBegun'
  BY Zenon, <1>2, <1>6 DEF IInv, RoundsBegun, Stop, client
<1>11. Phases'
  BY Zenon, <1>2 DEF Phases, Stop, Outcome
<1>12. {d \in Delivery : task'[d] = "sent"} = {}
  BY Zenon, <1>3, IInvSentIsHeld DEF Settle, SentIsHeld
<1>13. Placed'
  BY Zenon, <1>2, <1>12, EmptySet, CommandsEmpty DEF Placed, Stop
<1>14. ClosedIsDrained'
  BY Zenon, CommandsEmpty DEF ClosedIsDrained, Stop
<1>15. {d \in Delivery : task'[d] = "queued"} = {d \in Delivery : task[d] = "queued"}
  BY Zenon, <1>3, IInvSentIsHeld DEF Settle, SentIsHeld
<1>16. Queued'
  BY Zenon, <1>15 DEF IInv, Queued, Stop, client
<1> QED BY Zenon, <1>4, <1>5, <1>7, <1>8, <1>9, <1>10, <1>11, <1>13, <1>14, <1>16, DrainStays DEF IInv

\* What each kind of event carries.
LEMMA EventFields ==
  ASSUME NEW e \in RunEvent
  PROVE  /\ e.kind \in {"started", "execute", "result", "runtime", "compacted", "final", "ended"}
         /\ e.kind = "started" => e.round \in 1 .. MaxRounds
         /\ e.kind = "execute" => e.round \in 1 .. MaxRounds /\ e.calls \subseteq Call
         /\ e.kind = "result" => e.what \in Call /\ e.interrupted \in BOOLEAN /\ e.barrier \in BOOLEAN
         /\ e.kind = "runtime" => e.what \in Message
<1>1. CASE e \in [kind : {"started"}, round : 1 .. MaxRounds]
  BY Zenon, <1>1
<1>2. CASE e \in [kind : {"execute"}, round : 1 .. MaxRounds, calls : SUBSET Call, barrier : {FALSE}]
  BY Zenon, <1>2
<1>3. CASE e \in [kind : {"result"}, what : Call, interrupted : BOOLEAN, barrier : BOOLEAN]
  BY Zenon, <1>3
<1>4. CASE e \in [kind : {"runtime"}, what : Message, barrier : {TRUE}]
  BY Zenon, <1>4
<1>5. CASE e \in [kind : {"compacted", "final"}, barrier : {TRUE}]
  BY Zenon, <1>5
<1>6. CASE e \in [kind : {"ended"}]
  BY Zenon, <1>6
<1> QED BY Zenon, <1>1, <1>2, <1>3, <1>4, <1>5, <1>6 DEF RunEvent

\* What the engine sends.
LEMMA EmitChannel ==
  ASSUME IInv, NEW evs \in Seq(RunEvent), events' = events \o evs, session' = session,
         engine'.round \in Nat, engine.round <= engine'.round,
         \A i \in DOMAIN evs : evs[i].kind \in {"started", "execute"} => evs[i].round <= engine'.round
  PROVE  events' \in Seq(RunEvent) /\ RoundsBegun'
<1>1. events \in Seq(RunEvent) /\ engine.round \in Nat /\ session.round \in Nat
  BY DeliveryAssumption DEF IInv, ChannelTypes, EngineTypes, EngineState, ClientTypes, SessionState
<1>2. /\ events' \in Seq(RunEvent) /\ Len(events') = Len(events) + Len(evs)
      /\ \A i \in 1 .. Len(events) + Len(evs) :
           events'[i] = IF i <= Len(events) THEN events[i] ELSE evs[i - Len(events)]
  BY Zenon, <1>1, SeqConcat
<1>3. /\ Len(events) \in Nat /\ Len(evs) \in Nat /\ DOMAIN events = 1 .. Len(events)
      /\ DOMAIN evs = 1 .. Len(evs) /\ DOMAIN events' = 1 .. (Len(events) + Len(evs))
  BY Zenon, <1>1, <1>2, SeqLength
<1>4. \A i \in DOMAIN events' : \/ i \in DOMAIN events /\ events'[i] = events[i]
                                \/ i - Len(events) \in DOMAIN evs /\ events'[i] = evs[i - Len(events)]
  BY <1>2, <1>3
<1>5. ASSUME NEW i \in DOMAIN events', events'[i].kind \in {"started", "execute"}
      PROVE  events'[i].round <= engine'.round
  <2>1. CASE i \in DOMAIN events /\ events'[i] = events[i]
    <3>1. events[i] \in RunEvent /\ events[i].round <= engine.round
      BY Zenon, <1>1, <1>5, <2>1, SeqLength, <1>3 DEF IInv, RoundsBegun
    <3>2. events[i].round \in Nat
      BY DeliveryAssumption, <1>5, <2>1, <3>1, EventFields
    <3> QED BY <1>1, <2>1, <3>1, <3>2
  <2>2. CASE i - Len(events) \in DOMAIN evs /\ events'[i] = evs[i - Len(events)]
    BY Zenon, <1>5, <2>2
  <2> QED BY Zenon, <1>4, <2>1, <2>2
<1>6. session'.round <= engine'.round
  BY <1>1 DEF IInv, RoundsBegun
<1> QED BY Zenon, <1>2, <1>5, <1>6 DEF RoundsBegun

\* What leaves the engine and the batches alone, and sends the engine no more
\* than a result or a cancel command, keeps the rest.
LEMMA ClientStep ==
  ASSUME IInv, engine' = engine, phase' = phase, cancelled' \in BOOLEAN,
         history' = history, committed' = committed,
         \/ commands' = commands
         \/ \E x \in Command : x.kind \notin {"insert", "break"} /\ commands' = Append(commands, x),
         {d \in Delivery : task'[d] = "sent"} = {d \in Delivery : task[d] = "sent"},
         ChannelTypes', ClientTypes', TaskTypes', RoundsBegun', Queued'
  PROVE  IInv'
<1>1. commands \in Seq(Command)
  BY Zenon DEF IInv, HandleTypes
<1>2. /\ commands' \in Seq(Command) /\ Batches(commands') = Batches(commands)
      /\ BatchesIn(commands') = BatchesIn(commands) /\ Distinct(commands')
  <2>1. CASE commands' = commands
    BY Zenon, <1>1, <2>1 DEF IInv, Placed
  <2>2. CASE \E x \in Command : x.kind \notin {"insert", "break"} /\ commands' = Append(commands, x)
    BY <1>1, <2>2, CommandSent DEF IInv, Placed
  <2> QED BY Zenon, <2>1, <2>2
<1>3. HandleTypes' /\ EngineTypes' /\ Phases' /\ ClosedIsDrained'
  BY Zenon, <1>2 DEF IInv, HandleTypes, EngineTypes, Phases, ClosedIsDrained
<1>4. Placed'
  BY Zenon, <1>2 DEF IInv, Placed
<1> QED BY Zenon, <1>3, <1>4, DrainStays DEF IInv

-----------------------------------------------------------------------------
(* The tasks and the commands. *)

\* A batch enters the channel as its task becomes "sent".
LEMMA SendBatchIInv ==
  ASSUME IInv, NEW d \in Delivery, SendBatch(d)
  PROVE  IInv'
<1>1. task \in [Delivery -> TaskState] /\ commands \in Seq(Command) /\ task[d] = "spawned"
  BY Zenon DEF IInv, TaskTypes, HandleTypes, SendBatch
<1>2. TaskTypes'
  BY Zenon, <1>1 DEF IInv, TaskTypes, SendBatch, TaskState
<1>3. EngineTypes' /\ ChannelTypes' /\ ClientTypes' /\ RoundsBegun' /\ Phases' /\ cancelled' \in BOOLEAN
  BY Zenon DEF IInv, EngineTypes, ChannelTypes, ClientTypes, RoundsBegun, Phases, SendBatch, stored,
         channel, client, HandleTypes
<1>0. Queued'
  <2>1. {e \in Delivery : task'[e] = "queued"} = {e \in Delivery : task[e] = "queued"}
    BY Zenon, <1>1 DEF SendBatch
  <2> QED BY Zenon, <2>1 DEF IInv, Queued, SendBatch, client
<1>4. CASE phase = "Running"
  <2> DEFINE x == IF Path[d] = "background" THEN Insert(d) ELSE Break(d)
  <2>1. x \in Command /\ x.kind \in {"insert", "break"} /\ x.what = d
    BY Zenon, CommandFields DEF Insert, Break
  <2>2. commands' = Append(commands, x) /\ task' = [task EXCEPT ![d] = "sent"]
    BY Zenon, <1>4 DEF SendBatch
  <2> HIDE DEF x
  <2>3. d \notin BatchesIn(commands) \cup Range(engine.held) \cup Range(engine.todo)
    BY Zenon, <1>1 DEF IInv, Placed
  <2>4. /\ commands' \in Seq(Command) /\ BatchesIn(commands') = BatchesIn(commands) \cup {d}
        /\ Distinct(commands')
    BY Zenon, <1>1, <2>1, <2>2, <2>3, CommandSent DEF IInv, Placed
  <2>5. HandleTypes'
    BY Zenon, <2>4 DEF IInv, HandleTypes, SendBatch
  <2>6. {e \in Delivery : task'[e] = "sent"} = {e \in Delivery : task[e] = "sent"} \cup {d}
    BY Zenon, <1>1, <2>2
  <2>7. engine' = engine
    BY Zenon DEF SendBatch
  <2>8. Placed'
    BY Zenon, <2>3, <2>4, <2>6, <2>7 DEF IInv, Placed
  <2>9. ClosedIsDrained'
    BY Zenon, <1>4, <2>7 DEF IInv, Phases, ClosedIsDrained
  <2> QED BY Zenon, <1>0, <1>2, <1>3, <2>5, <2>8, <2>9, DrainStays DEF IInv
<1>5. CASE phase # "Running"
  <2>1. /\ {e \in Delivery : task'[e] = "sent"} = {e \in Delivery : task[e] = "sent"}
        /\ engine' = engine /\ commands' = commands /\ phase' = phase /\ cancelled' = cancelled
        /\ history' = history /\ committed' = committed
    BY Zenon, <1>1, <1>5 DEF SendBatch, stored
  <2> QED BY Zenon, <1>0, <1>2, <1>3, <2>1, ClientStep
<1> QED BY Zenon, <1>4, <1>5

\* A task that moves outside the channel of the Run.
LEMMA SubmitIInv ==
  ASSUME IInv, NEW d \in Delivery, Submit(d) \/ Park(d)
  PROVE  IInv'
<1>1. task \in [Delivery -> TaskState] /\ actions \in Seq(Delivery) /\ parked \subseteq Message
  BY Zenon DEF IInv, TaskTypes, ClientTypes
<1>2. TaskTypes'
  BY Zenon, <1>1 DEF TaskTypes, Submit, Park, TaskState, Message
<1>3. actions' \in Seq(Delivery)
  BY <1>1, AppendSet DEF Submit, Park, client
<1>4. ChannelTypes' /\ ClientTypes' /\ RoundsBegun'
  BY Zenon, <1>3 DEF IInv, ChannelTypes, ClientTypes, RoundsBegun, Submit, Park, channel, client
<1>5. /\ {e \in Delivery : task'[e] = "sent"} = {e \in Delivery : task[e] = "sent"}
      /\ engine' = engine /\ commands' = commands /\ phase' = phase /\ cancelled' \in BOOLEAN
      /\ history' = history /\ committed' = committed
  BY Zenon, <1>1 DEF Submit, Park, handle, stored, IInv, HandleTypes
<1>6. Queued'
  <2>1. CASE /\ actions' = actions
             /\ {e \in Delivery : task'[e] = "queued"} = {e \in Delivery : task[e] = "queued"}
    BY Zenon, <2>1 DEF IInv, Queued
  <2>2. CASE /\ actions' = Append(actions, d) /\ d \notin {e \in Delivery : task[e] = "queued"}
             /\ {e \in Delivery : task'[e] = "queued"} = {e \in Delivery : task[e] = "queued"} \cup {d}
    BY <1>1, <2>2, AppendSet DEF IInv, Queued
  <2>3. CASE Submit(d)
    BY Zenon, <1>1, <2>1, <2>2, <2>3 DEF Submit
  <2>4. CASE Park(d)
    BY Zenon, <1>1, <2>1, <2>4 DEF Park, client
  <2> QED BY Zenon, <2>3, <2>4
<1> QED BY Zenon, <1>2, <1>4, <1>5, <1>6, ClientStep

\* A cancel command is no batch.
LEMMA CancelCommandIInv ==
  ASSUME IInv, CancelCommand, engine' = engine, phase' = phase, history' = history,
         committed' = committed, task' = task,
         ChannelTypes', ClientTypes', RoundsBegun', Queued', parked' = parked
  PROVE  IInv'
<1>1. /\ cancelled' \in BOOLEAN
      /\ commands' = commands \/ commands' = Append(commands, Cancel)
  BY Zenon DEF CancelCommand
<1>2. Cancel \in Command /\ Cancel.kind \notin {"insert", "break"}
  BY Zenon, CommandFields
<1>3. TaskTypes'
  BY Zenon DEF IInv, TaskTypes
<1> QED BY Zenon, <1>1, <1>2, <1>3, ClientStep

\* A CancelAction, or a Run that takes over.
LEMMA CancelRunIInv ==
  ASSUME IInv, CancelRun
  PROVE  IInv'
<1>1. ChannelTypes' /\ ClientTypes' /\ RoundsBegun' /\ Queued'
  BY Zenon DEF IInv, ChannelTypes, ClientTypes, RoundsBegun, Queued, CancelRun, channel
<1> QED BY Zenon, <1>1, CancelCommandIInv DEF CancelRun, stored

-----------------------------------------------------------------------------
(* The engine. *)

\* The parts that only the session and the tasks change.
LEMMA EngineStep ==
  ASSUME IInv, UNCHANGED <<actions, session, running, results, parked>>, task' \in [Delivery -> TaskState],
         {d \in Delivery : task'[d] = "queued"} = {d \in Delivery : task[d] = "queued"},
         HandleTypes', EngineTypes', ChannelTypes', RoundsBegun', Phases', Placed',
         ClosedIsDrained'
  PROVE  IInv'
<1>1. ClientTypes' /\ TaskTypes' /\ Queued'
  BY Zenon DEF IInv, ClientTypes, TaskTypes, Queued
<1> QED BY Zenon, <1>1, DrainStays DEF IInv

\* An insertion is held back.
LEMMA ReceiveInsertIInv ==
  ASSUME IInv, ReceiveInsert
  PROVE  IInv'
<1> DEFINE d == Head(commands).what
<1>1. /\ commands \in Seq(Command) /\ commands # <<>> /\ Head(commands).kind = "insert"
      /\ commands' = Tail(commands) /\ engine \in EngineState
  BY Zenon DEF IInv, HandleTypes, EngineTypes, ReceiveInsert, Received
<1>2. /\ commands' \in Seq(Command) /\ d \in BatchesIn(commands) /\ Head(commands) \in Command
      /\ BatchesIn(commands') = BatchesIn(commands) \ {d} /\ Distinct(commands')
  BY Zenon, <1>1, CommandReceived DEF IInv, Placed
<1>3. d \in Delivery
  BY Zenon, <1>1, <1>2, CommandFields
<1> HIDE DEF d
<1>4. engine' = [engine EXCEPT !.held = Append(@, d)]
  BY Zenon DEF ReceiveInsert, d
<1>5. /\ Append(engine.held, d) \in Seq(Delivery)
      /\ Range(Append(engine.held, d)) = Range(engine.held) \cup {d}
      /\ IsInjective(Append(engine.held, d))
  BY <1>1, <1>2, <1>3, AppendSet DEF EngineState, IInv, Placed
<1>6. /\ engine' \in EngineState /\ engine'.at = engine.at /\ engine'.then = engine.then
      /\ engine'.round = engine.round /\ engine'.calls = engine.calls
      /\ engine'.held = Append(engine.held, d) /\ engine'.todo = engine.todo
  BY Zenon, <1>1, <1>4, <1>5 DEF EngineState
<1>7. HandleTypes'
  BY Zenon, <1>2 DEF IInv, HandleTypes, ReceiveInsert
<1>8. EngineTypes' /\ ChannelTypes' /\ RoundsBegun' /\ Phases'
  BY Zenon, <1>6 DEF IInv, EngineTypes, ChannelTypes, RoundsBegun, Phases, ReceiveInsert, stored,
              channel, client
<1>9. Placed'
  BY <1>2, <1>5, <1>6 DEF IInv, Placed, ReceiveInsert
<1>10. ClosedIsDrained'
  BY Zenon, <1>6 DEF ReceiveInsert, ClosedIsDrained, Listening
<1> QED BY Zenon, <1>7, <1>8, <1>9, <1>10, EngineStep DEF ReceiveInsert, IInv, TaskTypes, client

\* The engine turns to appending, with what `last` adds to the batches it held.
LEMMA AppendingIInv ==
  ASSUME IInv, NEW at \in Step \ {"ended", "final", "await_final", "await_append", "resume"},
         NEW last \in Seq(Delivery), NEW then \in Then,
         at \notin {"append", "cut", "await_append", "await_compaction", "await_settled"} =>
           engine.held \o last = <<>>,
         engine' = Appending(at, last, then), commands' \in Seq(Command),
         UNCHANGED <<cancelled, actions, session, running, results, task, parked>>,
         history' \subseteq Message, committed' \subseteq engine.calls,
         ChannelTypes', RoundsBegun',
         phase' = IF then = "resume" /\ at = "append" THEN "Finalizing" ELSE "Running",
         at \in {"await_compaction", "await_settled"} => then = "model",
         Distinct(commands'), IsInjective(last), BatchesIn(commands') \cap Range(last) = {},
         BatchesIn(commands) \cup Range(engine.todo) = BatchesIn(commands') \cup Range(last)
  PROVE  IInv'
<1>0. at \in Step
  BY Zenon
<1>1. /\ engine' \in EngineState /\ engine'.at = at /\ engine'.then = then
      /\ engine'.round = engine.round /\ engine'.calls = engine.calls
      /\ engine'.held = <<>> /\ engine'.todo = engine.held \o last
  BY Zenon, <1>0, AppendingFields
<1>2. HandleTypes' /\ EngineTypes'
  BY Zenon, <1>1 DEF IInv, HandleTypes, EngineTypes
<1>3. Phases'
  BY Zenon, <1>1 DEF Phases, Outcome, Then
<1>4. Placed'
  BY Zenon, <1>0, AppendingPlaced
<1>5. ClosedIsDrained'
  BY Zenon, <1>1 DEF ClosedIsDrained
<1> QED BY Zenon, <1>2, <1>3, <1>4, <1>5, EngineStep DEF IInv, TaskTypes

\* A break ends the cycle; it is appended behind what was held back.
LEMMA ReceiveBreakIInv ==
  ASSUME IInv, ReceiveBreak
  PROVE  IInv'
<1> DEFINE d == Head(commands).what
<1>1. /\ commands \in Seq(Command) /\ commands # <<>> /\ Head(commands).kind = "break"
      /\ commands' = Tail(commands) /\ engine \in EngineState /\ engine.at = "model"
  BY Zenon DEF IInv, HandleTypes, EngineTypes, ReceiveBreak, Received
<1>2. /\ commands' \in Seq(Command) /\ d \in BatchesIn(commands) /\ Head(commands) \in Command
      /\ BatchesIn(commands') = BatchesIn(commands) \ {d} /\ Distinct(commands')
  BY Zenon, <1>1, CommandReceived DEF IInv, Placed
<1>3. d \in Delivery
  BY Zenon, <1>1, <1>2, CommandFields
<1>4. engine' = Appending("append", <<d>>, "model")
  BY Zenon DEF ReceiveBreak
<1> HIDE DEF d
<1>5. <<d>> \in Seq(Delivery) /\ Range(<<d>>) = {d} /\ IsInjective(<<d>>)
  BY Zenon, <1>3, SingleSet
<1>6. Range(engine.todo) = {} /\ phase = "Running"
  BY Zenon, <1>1, EmptySet DEF IInv, Phases, HandleTypes
<1>7. "append" \in Step \ {"ended", "final", "await_final", "await_append", "resume"} /\ "model" \in Then
  BY Zenon DEF Step, Then
<1>8. ChannelTypes' /\ RoundsBegun'
  <2>1. engine'.at = "append" /\ engine'.round = engine.round
    BY Zenon, <1>4, <1>5, <1>7, AppendingFields DEF Step
  <2> QED BY Zenon, <1>1, <2>1
          DEF IInv, ChannelTypes, RoundsBegun, ReceiveBreak, channel, client, Awaiting
<1>9. /\ UNCHANGED <<cancelled, actions, session, running, results, task, parked>> /\ phase' = "Running"
      /\ history' \subseteq Message /\ committed' \subseteq engine.calls
  BY Zenon, <1>6 DEF IInv, EngineTypes, ReceiveBreak, stored, client
<1>10. /\ BatchesIn(commands') \cap Range(<<d>>) = {}
       /\ BatchesIn(commands) \cup Range(engine.todo) = BatchesIn(commands') \cup Range(<<d>>)
  BY Zenon, <1>2, <1>5, <1>6
<1> QED BY Zenon, <1>2, <1>4, <1>5, <1>7, <1>8, <1>9, <1>10, AppendingIInv

\* StartCompaction and Answer: nothing is added to what is held.
LEMMA AppendHeldIInv ==
  ASSUME IInv, StartCompaction \/ Answer
  PROVE  IInv'
<1>1. PICK then \in {"compact", "answered"} : engine' = Appending("append", <<>>, then)
  BY Zenon DEF StartCompaction, Answer
<1>2. engine.at = "model" /\ UNCHANGED <<handle, stored, channel, client, task, parked>>
  BY Zenon DEF StartCompaction, Answer
<1>3. <<>> \in Seq(Delivery) /\ Range(<<>>) = {} /\ IsInjective(<<>>)
  BY Zenon, EmptySet
<1>4. Range(engine.todo) = {} /\ phase' = "Running" /\ engine.at \notin Awaiting
  BY Zenon, <1>2, <1>3 DEF IInv, Phases, HandleTypes, handle, Awaiting
<1>5. "append" \in Step \ {"ended", "final", "await_final", "await_append", "resume"} /\ then \in Then
  BY Zenon DEF Step, Then
<1>6. ChannelTypes' /\ RoundsBegun'
  <2>1. engine'.at = "append" /\ engine'.round = engine.round
    BY Zenon, <1>1, <1>3, <1>5, AppendingFields DEF Step
  <2> QED BY Zenon, <1>2, <1>4, <2>1 DEF IInv, ChannelTypes, RoundsBegun, channel, client, Awaiting
<1>7. /\ commands' \in Seq(Command) /\ Distinct(commands') /\ BatchesIn(commands') = BatchesIn(commands)
      /\ history' \subseteq Message /\ committed' \subseteq engine.calls
      /\ UNCHANGED <<cancelled, actions, session, running, results, task, parked>>
  BY Zenon, <1>2 DEF IInv, HandleTypes, EngineTypes, Placed, handle, stored, client
<1>8. then # "resume"
  BY Zenon
<1> QED BY Zenon, <1>1, <1>3, <1>4, <1>5, <1>6, <1>7, <1>8, AppendingIInv

\* Every way the Run ends at once.
LEMMA StopsIInv ==
  ASSUME IInv,
         ReceiveCancel \/ NoticeCancellation \/ CycleFails \/ BarrierLost \/ CycleLosesClient
  PROVE  IInv'
<1>1. PICK o \in Outcome : Stop(o)
  BY Zenon DEF ReceiveCancel, NoticeCancellation, CycleFails, BarrierLost, CycleLosesClient, Outcome
<1>2. history' \subseteq Message /\ committed' \subseteq engine.calls
  BY Zenon DEF ReceiveCancel, NoticeCancellation, CycleFails, BarrierLost, CycleLosesClient, stored,
         IInv, EngineTypes
<1> QED BY Zenon, <1>1, <1>2, StopIInv

\* One event that ends in a barrier or in none.
LEMMA EmitOne ==
  ASSUME IInv, NEW e \in RunEvent, NEW next, NEW rest, EmitThen(<<e>>, next, rest),
         ~ SessionOver, e.kind \notin {"started", "execute"}, next.round = engine.round
  PROVE  /\ events' \in Seq(RunEvent) /\ RoundsBegun'
         /\ engine' = next /\ commands' = rest
         /\ barrier' = IF e.barrier THEN "open" ELSE "none"
         /\ UNCHANGED <<phase, cancelled, actions, session, running, results, task, parked>>
<1>1. /\ events' = events \o <<e>> /\ engine' = next /\ commands' = rest
      /\ UNCHANGED <<phase, cancelled, actions, session, running, results, task, parked>>
      /\ barrier' = IF <<e>>[Len(<<e>>)].barrier THEN "open" ELSE "none"
  BY Zenon DEF EmitThen, client
<1>2. <<e>>[Len(<<e>>)] = e
  BY Zenon
<1>3. <<e>> \in Seq(RunEvent) /\ \A i \in DOMAIN <<e>> : <<e>>[i] = e
  OBVIOUS
<1>4. engine.round \in Nat /\ engine'.round = engine.round
  BY <1>1, DeliveryAssumption DEF IInv, EngineTypes, EngineState
<1>5. engine.round <= engine'.round
  BY <1>4
<1>6. events' \in Seq(RunEvent) /\ RoundsBegun'
  BY Zenon, <1>1, <1>3, <1>4, <1>5, EmitChannel
<1> QED BY Zenon, <1>1, <1>2, <1>6

\* A compaction replaces the history and announces it.
LEMMA EndCompactionIInv ==
  ASSUME IInv, EndCompaction
  PROVE  IInv'
<1> DEFINE broken == Received("break")
           last == IF broken THEN <<Head(commands).what>> ELSE <<>>
           rest == IF broken THEN Tail(commands) ELSE commands
           next == Appending("await_compaction", last, "model")
<1>1. /\ engine.at = "compact" /\ history' = {} /\ committed' = committed
      /\ EmitThen(<<Event("compacted")>>, next, rest)
  BY Zenon DEF EndCompaction
<1>2. history' \subseteq Message /\ committed' \subseteq engine.calls
  BY Zenon, <1>1 DEF IInv, EngineTypes
<1>3. CASE SessionOver
  BY Zenon, <1>1, <1>2, <1>3, StopIInv DEF EmitThen, Outcome
<1>4. CASE ~ SessionOver
  <2>1. commands \in Seq(Command) /\ Distinct(commands)
    BY Zenon DEF IInv, HandleTypes, Placed
  <2>2. /\ rest \in Seq(Command) /\ Distinct(rest) /\ last \in Seq(Delivery) /\ IsInjective(last)
        /\ BatchesIn(rest) \cap Range(last) = {}
        /\ BatchesIn(commands) = BatchesIn(rest) \cup Range(last)
    <3>1. CASE broken
      <4>1. commands # <<>> /\ Head(commands).kind = "break"
        BY Zenon, <3>1 DEF Received
      <4>2. /\ Head(commands) \in Command /\ Tail(commands) \in Seq(Command)
            /\ Head(commands).what \in BatchesIn(commands) /\ Distinct(Tail(commands))
            /\ BatchesIn(Tail(commands)) = BatchesIn(commands) \ {Head(commands).what}
        BY Zenon, <2>1, <4>1, CommandReceived
      <4>3. Head(commands).what \in Delivery
        BY Zenon, <4>1, <4>2, CommandFields
      <4>4. last \in Seq(Delivery) /\ Range(last) = {Head(commands).what} /\ IsInjective(last)
        BY Zenon, <3>1, <4>3, SingleSet
      <4> QED BY Zenon, <3>1, <4>2, <4>4
    <3>2. CASE ~ broken
      BY Zenon, <2>1, <3>2, EmptySet
    <3> QED BY Zenon, <3>1, <3>2
  <2> HIDE DEF last, rest
  <2>3. "await_compaction" \in Step \ {"ended", "final", "await_final", "await_append", "resume"}
        /\ "await_compaction" \in Step /\ "model" \in Then /\ "await_compaction" \in Awaiting
    BY Zenon DEF Step, Awaiting, Then
  <2>4. engine' = next
    BY Zenon, <1>1, <1>4 DEF EmitThen
  <2>5. engine'.at = "await_compaction" /\ engine'.round = engine.round
    BY Zenon, <2>2, <2>3, <2>4, AppendingFields
  <2> DEFINE e == Event("compacted")
  <2>6. e \in RunEvent /\ e.kind = "compacted" /\ e.barrier = TRUE
    BY Zenon DEF Event, RunEvent
  <2>7. EmitThen(<<e>>, next, rest) /\ next.round = engine.round
    BY Zenon, <1>1, <2>4, <2>5 DEF rest, last
  <2> HIDE DEF e, next
  <2>8. /\ events' \in Seq(RunEvent) /\ RoundsBegun' /\ commands' = rest /\ barrier' = "open"
        /\ UNCHANGED <<phase, cancelled, actions, session, running, results, task, parked>>
    BY Zenon, <1>4, <2>6, <2>7, EmitOne
  <2>9. ChannelTypes'
    BY Zenon, <2>3, <2>5, <2>8 DEF ChannelTypes
  <2>10. Range(engine.todo) = {} /\ phase = "Running"
    BY Zenon, <1>1, EmptySet DEF IInv, Phases, HandleTypes
  <2>11. engine' = Appending("await_compaction", last, "model")
    BY Zenon, <2>4 DEF next
  <2> QED BY Zenon, <1>2, <2>2, <2>3, <2>8, <2>9, <2>10, <2>11, AppendingIInv
<1> QED BY Zenon, <1>3, <1>4

\* Nothing is left to append.
LEMMA AppendedAllIInv ==
  ASSUME IInv, AppendedAll
  PROVE  IInv'
<1>1. /\ engine \in EngineState /\ engine.at = "append" /\ engine.todo = <<>>
      /\ engine.then \in Then
  BY Zenon DEF IInv, EngineTypes, EngineState, AppendedAll, Phases, Then
<1>2. engine' = [engine EXCEPT !.at = IF engine.then # "answered" THEN engine.then
                                      ELSE IF engine.inserted THEN "model" ELSE "finalize"]
  BY Zenon DEF AppendedAll
<1>3. /\ engine' \in EngineState /\ engine'.then = engine.then
      /\ engine'.round = engine.round /\ engine'.calls = engine.calls
      /\ engine'.held = engine.held /\ engine'.todo = engine.todo
      /\ engine'.at \in {"model", "compact", "resume", "finalize"}
      /\ engine'.at = "resume" <=> engine.then = "resume"
  BY Zenon, <1>1, <1>2 DEF EngineState, Then, Step, Listening
<1>4. HandleTypes' /\ EngineTypes' /\ RoundsBegun' /\ Placed'
  BY Zenon, <1>3 DEF AppendedAll, IInv, HandleTypes, EngineTypes, RoundsBegun, Placed, handle, stored,
              channel, client
<1>5. ChannelTypes' /\ Phases' /\ ClosedIsDrained'
  BY Zenon, <1>1, <1>3 DEF AppendedAll, IInv, ChannelTypes, Phases, ClosedIsDrained, handle, channel,
                    Awaiting, Then, Outcome
<1> QED BY Zenon, <1>4, <1>5, EngineStep DEF AppendedAll, IInv, TaskTypes, client

\* The Run goes on after the closing insertions.
LEMMA ResumeRunningIInv ==
  ASSUME IInv, ResumeRunning
  PROVE  IInv'
<1>1. engine \in EngineState /\ engine.at = "resume"
  BY Zenon DEF IInv, EngineTypes, ResumeRunning
<1>2. /\ engine' \in EngineState /\ engine'.at = "model" /\ engine'.then = engine.then
      /\ engine'.round = engine.round /\ engine'.calls = engine.calls
      /\ engine'.held = engine.held /\ engine'.todo = engine.todo
  BY Zenon, <1>1 DEF ResumeRunning, EngineState, Step, Listening
<1>3. HandleTypes' /\ EngineTypes' /\ RoundsBegun' /\ Placed'
  BY Zenon, <1>2 DEF ResumeRunning, IInv, HandleTypes, EngineTypes, RoundsBegun, Placed, stored,
              channel, client
<1>4. ChannelTypes' /\ Phases' /\ ClosedIsDrained'
  BY Zenon, <1>1, <1>2 DEF ResumeRunning, IInv, ChannelTypes, Phases, ClosedIsDrained, channel, Awaiting
<1> QED BY Zenon, <1>3, <1>4, EngineStep DEF ResumeRunning, IInv, TaskTypes, client

\* A batch leaves the engine as its sender is answered.
LEMMA AcknowledgedPlaced ==
  ASSUME IInv, engine.todo # <<>>, task' = Acknowledged(Head(engine.todo)),
         commands' = commands, engine'.held = engine.held, engine'.todo = Tail(engine.todo)
  PROVE  /\ Placed' /\ task' \in [Delivery -> TaskState]
         /\ {e \in Delivery : task'[e] = "queued"} = {e \in Delivery : task[e] = "queued"}
<1> DEFINE d == Head(engine.todo)
<1>1. engine.todo \in Seq(Delivery) /\ task \in [Delivery -> TaskState]
  BY Zenon DEF IInv, EngineTypes, EngineState, TaskTypes
<1>2. /\ d \in Delivery /\ d \in Range(engine.todo)
      /\ IsInjective(Tail(engine.todo)) /\ Range(Tail(engine.todo)) = Range(engine.todo) \ {d}
  BY Zenon, <1>1, TailSet DEF IInv, Placed
<1>3. task' = [task EXCEPT ![d] = "done"]
  BY Zenon DEF Acknowledged
<1> HIDE DEF d
<1>4. {e \in Delivery : task'[e] = "sent"} = {e \in Delivery : task[e] = "sent"} \ {d}
  BY Zenon, <1>1, <1>2, <1>3
<1>5. task' \in [Delivery -> TaskState]
  BY Zenon, <1>1, <1>3 DEF TaskState
<1>6. {e \in Delivery : task'[e] = "sent"}
        = BatchesIn(commands) \cup Range(engine.held) \cup Range(Tail(engine.todo))
  BY Zenon, <1>2, <1>4 DEF IInv, Placed
<1>7. task[d] = "sent"
  BY Zenon, <1>2 DEF IInv, Placed
<1>8. {e \in Delivery : task'[e] = "queued"} = {e \in Delivery : task[e] = "queued"}
  BY Zenon, <1>1, <1>2, <1>3, <1>7
<1> QED BY Zenon, <1>2, <1>5, <1>6, <1>8 DEF IInv, Placed

\* The next batch is appended, or is a duplicate and leaves.
LEMMA AppendNextIInv ==
  ASSUME IInv, AppendNext
  PROVE  IInv'
<1> DEFINE d == Head(engine.todo)
           m == MessageOf[d]
           e == [kind |-> "runtime", what |-> m, barrier |-> TRUE]
           next == [engine EXCEPT !.at = "await_append"]
<1>1. /\ engine \in EngineState /\ engine.at = "append" /\ engine.todo # <<>>
      /\ engine.todo \in Seq(Delivery)
  BY Zenon DEF IInv, EngineTypes, EngineState, AppendNext
<1>2. d \in Delivery /\ Tail(engine.todo) \in Seq(Delivery)
  BY Zenon, <1>1, TailSet
<1>3. m \in Message
  BY Zenon, <1>2 DEF Message
<1>4. history' \subseteq Message /\ committed' \subseteq engine.calls
  BY Zenon, <1>3 DEF AppendNext, IInv, EngineTypes
<1>5. CASE m \in history
  <2>1. /\ task' = Acknowledged(d) /\ engine' = [engine EXCEPT !.todo = Tail(@)]
        /\ UNCHANGED <<handle, channel, client, parked>>
    BY Zenon, <1>5 DEF AppendNext
  <2>2. /\ engine' \in EngineState /\ engine'.at = engine.at /\ engine'.then = engine.then
        /\ engine'.round = engine.round /\ engine'.calls = engine.calls
        /\ engine'.held = engine.held /\ engine'.todo = Tail(engine.todo)
    BY Zenon, <1>1, <1>2, <2>1 DEF EngineState
  <2>3. /\ Placed' /\ task' \in [Delivery -> TaskState]
        /\ {x \in Delivery : task'[x] = "queued"} = {x \in Delivery : task[x] = "queued"}
    BY Zenon, <1>1, <2>1, <2>2, AcknowledgedPlaced DEF handle
  <2>4. HandleTypes' /\ ChannelTypes' /\ RoundsBegun' /\ Phases' /\ ClosedIsDrained'
    BY Zenon, <1>1, <2>1, <2>2 DEF IInv, HandleTypes, ChannelTypes, RoundsBegun, Phases,
                            ClosedIsDrained, handle, channel, client
  <2>5. EngineTypes'
    BY Zenon, <1>4, <2>2 DEF EngineTypes
  <2> QED BY Zenon, <2>1, <2>3, <2>4, <2>5, EngineStep DEF client
<1>6. CASE m \notin history
  <2>1. EmitThen(<<e>>, next, commands)
    BY Zenon, <1>6 DEF AppendNext
  <2>2. CASE SessionOver
    BY Zenon, <1>4, <2>1, <2>2, StopIInv DEF EmitThen, Outcome
  <2>3. CASE ~ SessionOver
    <3>1. e \in RunEvent /\ e.kind = "runtime" /\ e.barrier = TRUE
      BY Zenon, <1>3 DEF RunEvent
    <3>2. /\ next \in EngineState /\ next.at = "await_append" /\ next.then = engine.then
          /\ next.round = engine.round /\ next.calls = engine.calls
          /\ next.held = engine.held /\ next.todo = engine.todo
      BY Zenon, <1>1 DEF EngineState, Step, Awaiting
    <3> HIDE DEF e, next
    <3>3. /\ events' \in Seq(RunEvent) /\ RoundsBegun' /\ engine' = next
          /\ commands' = commands /\ barrier' = "open"
          /\ UNCHANGED <<phase, cancelled, actions, session, running, results, task, parked>>
      BY Zenon, <2>1, <2>3, <3>1, <3>2, EmitOne
    <3>4. HandleTypes' /\ EngineTypes' /\ Placed'
      BY Zenon, <1>4, <3>2, <3>3 DEF IInv, HandleTypes, EngineTypes, Placed
    <3>5. ChannelTypes' /\ Phases' /\ ClosedIsDrained'
      BY Zenon, <1>1, <3>2, <3>3 DEF IInv, ChannelTypes, Phases, ClosedIsDrained, Awaiting
    <3> QED BY Zenon, <3>3, <3>4, <3>5, EngineStep DEF IInv, TaskTypes
  <2> QED BY <2>2, <2>3
<1> QED BY Zenon, <1>5, <1>6

\* The final turn is committed.
LEMMA CommitFinalIInv ==
  ASSUME IInv, CommitFinal
  PROVE  IInv'
<1> DEFINE e == Event("final")
           next == [engine EXCEPT !.at = "await_final"]
<1>1. /\ engine \in EngineState /\ engine.at = "final"
      /\ EmitThen(<<e>>, next, commands) /\ UNCHANGED stored
  BY Zenon DEF IInv, EngineTypes, CommitFinal
<1>2. history' \subseteq Message /\ committed' \subseteq engine.calls
  BY Zenon, <1>1 DEF IInv, EngineTypes, stored
<1>3. CASE SessionOver
  BY Zenon, <1>1, <1>2, <1>3, StopIInv DEF EmitThen, Outcome
<1>4. CASE ~ SessionOver
  <2>1. e \in RunEvent /\ e.kind = "final" /\ e.barrier = TRUE
    BY Zenon DEF RunEvent, Event
  <2>2. /\ next \in EngineState /\ next.at = "await_final" /\ next.then = engine.then
        /\ next.round = engine.round /\ next.calls = engine.calls
        /\ next.held = engine.held /\ next.todo = engine.todo
    BY Zenon, <1>1 DEF EngineState, Step, Awaiting
  <2> HIDE DEF e, next
  <2>3. /\ events' \in Seq(RunEvent) /\ RoundsBegun' /\ engine' = next
        /\ commands' = commands /\ barrier' = "open"
        /\ UNCHANGED <<phase, cancelled, actions, session, running, results, task, parked>>
    BY Zenon, <1>1, <1>4, <2>1, <2>2, EmitOne
  <2>4. HandleTypes' /\ EngineTypes' /\ Placed'
    BY Zenon, <1>2, <2>2, <2>3 DEF IInv, HandleTypes, EngineTypes, Placed
  <2>5. ChannelTypes' /\ Phases' /\ ClosedIsDrained'
    BY Zenon, <1>1, <2>2, <2>3 DEF IInv, ChannelTypes, Phases, ClosedIsDrained, Awaiting
  <2> QED BY <2>3, <2>4, <2>5, EngineStep DEF IInv, TaskTypes
<1> QED BY <1>3, <1>4

\* The phase changes and the channel is drained in one step.
LEMMA FinalizeIInv ==
  ASSUME IInv, Finalize
  PROVE  IInv'
<1>1. /\ engine \in EngineState /\ engine.at = "finalize" /\ UNCHANGED stored
      /\ commands \in Seq(Command)
  BY Zenon DEF IInv, EngineTypes, HandleTypes, Finalize
<1>2. history' \subseteq Message /\ committed' \subseteq engine.calls
  BY Zenon, <1>1 DEF IInv, EngineTypes, stored
<1>3. CASE \E i \in DOMAIN commands : commands[i] = Cancel
  BY Zenon, <1>2, <1>3, StopIInv DEF Finalize, Outcome
<1>4. CASE ~ \E i \in DOMAIN commands : commands[i] = Cancel
  <2>1. /\ phase' = "Finalizing" /\ commands' = <<>>
        /\ engine' = IF Batches(commands) = {} THEN [engine EXCEPT !.at = "final"]
                     ELSE Appending("append", Deliveries(commands), "resume")
        /\ UNCHANGED <<cancelled, channel, client, task, parked>>
    BY Zenon, <1>4 DEF Finalize
  <2>2. commands' \in Seq(Command) /\ Batches(commands') = {} /\ BatchesIn(commands') = {} /\ Distinct(commands')
    BY Zenon, <2>1, CommandsEmpty
  <2>3. CASE Batches(commands) = {}
    <3>1. /\ engine' \in EngineState /\ engine'.at = "final" /\ engine'.then = engine.then
          /\ engine'.round = engine.round /\ engine'.calls = engine.calls
          /\ engine'.held = engine.held /\ engine'.todo = engine.todo
      BY Zenon, <1>1, <2>1, <2>3 DEF EngineState, Step
    <3>2. BatchesIn(commands) = {}
      BY Zenon, <2>3 DEF BatchesIn
    <3>3. HandleTypes' /\ EngineTypes' /\ RoundsBegun'
      BY Zenon, <1>2, <2>1, <2>2, <3>1 DEF IInv, HandleTypes, EngineTypes, RoundsBegun, channel, client
    <3>4. Placed'
      BY Zenon, <2>1, <2>2, <3>1, <3>2 DEF IInv, Placed
    <3>5. ChannelTypes' /\ Phases' /\ ClosedIsDrained'
      BY Zenon, <1>1, <2>1, <2>2, <3>1 DEF IInv, ChannelTypes, Phases, ClosedIsDrained, Awaiting, channel
    <3> QED BY Zenon, <2>1, <3>3, <3>4, <3>5, EngineStep DEF IInv, TaskTypes, client
  <2>4. CASE Batches(commands) # {}
    <3> DEFINE last == Deliveries(commands)
    <3>1. engine' = Appending("append", last, "resume")
      BY Zenon, <2>1, <2>4
    <3>2. last \in Seq(Delivery) /\ Range(last) = BatchesIn(commands) /\ IsInjective(last)
      BY Zenon, <1>1 DEF IInv, Placed, DrainCollects
    <3> HIDE DEF last
    <3>3. Range(engine.todo) = {}
      BY Zenon, <1>1, EmptySet DEF IInv, Phases
    <3>4. /\ "append" \in Step \ {"ended", "final", "await_final", "await_append", "resume"}
          /\ "append" \in Step /\ "resume" \in Then
      BY Zenon DEF Step, Then
    <3>5. engine'.at = "append" /\ engine'.round = engine.round
      BY Zenon, <3>1, <3>2, <3>4, AppendingFields
    <3>6. ChannelTypes' /\ RoundsBegun'
      BY Zenon, <1>1, <2>1, <3>5 DEF IInv, ChannelTypes, RoundsBegun, channel, client, Awaiting
    <3>7. UNCHANGED <<cancelled, actions, session, running, results, task, parked>>
      BY Zenon, <2>1 DEF client
    <3>8. /\ BatchesIn(commands') \cap Range(last) = {}
          /\ BatchesIn(commands) \cup Range(engine.todo) = BatchesIn(commands') \cup Range(last)
      BY Zenon, <2>2, <3>2, <3>3
    <3> QED BY Zenon, <1>2, <2>1, <2>2, <3>1, <3>2, <3>4, <3>6, <3>7, <3>8, AppendingIInv
  <2> QED BY Zenon, <2>3, <2>4
<1> QED BY Zenon, <1>3, <1>4

\* The client has what the engine waited for.
LEMMA BarrierPassesIInv ==
  ASSUME IInv, BarrierPasses
  PROVE  IInv'
<1>1. /\ engine \in EngineState /\ engine.at \in Awaiting /\ UNCHANGED stored
      /\ engine.todo \in Seq(Delivery)
  BY Zenon DEF IInv, EngineTypes, EngineState, BarrierPasses
<1>2. history' \subseteq Message /\ committed' \subseteq engine.calls
  BY Zenon, <1>1 DEF IInv, EngineTypes, stored
<1>3. CASE engine.at = "await_final"
  BY Zenon, <1>2, <1>3, StopIInv DEF BarrierPasses, Outcome
<1>4. CASE engine.at = "await_append"
  <2>1. /\ task' = Acknowledged(Head(engine.todo)) /\ barrier' = "none"
        /\ engine' = [engine EXCEPT !.at = "append", !.todo = Tail(@), !.inserted = TRUE]
        /\ UNCHANGED <<handle, events, client, parked>>
    BY Zenon, <1>4 DEF BarrierPasses
  <2>2. engine.todo # <<>>
    BY Zenon, <1>4 DEF IInv, Phases
  <2>3. Tail(engine.todo) \in Seq(Delivery)
    BY Zenon, <1>1, <2>2, TailSet
  <2>4. /\ engine' \in EngineState /\ engine'.at = "append" /\ engine'.then = engine.then
        /\ engine'.round = engine.round /\ engine'.calls = engine.calls
        /\ engine'.held = engine.held /\ engine'.todo = Tail(engine.todo)
    BY Zenon, <1>1, <2>1, <2>3 DEF EngineState, Step
  <2>5. /\ Placed' /\ task' \in [Delivery -> TaskState]
        /\ {e \in Delivery : task'[e] = "queued"} = {e \in Delivery : task[e] = "queued"}
    BY Zenon, <2>1, <2>2, <2>4, AcknowledgedPlaced DEF handle
  <2>6. HandleTypes' /\ EngineTypes' /\ RoundsBegun'
    BY Zenon, <1>2, <2>1, <2>4 DEF IInv, HandleTypes, EngineTypes, RoundsBegun, handle, client
  <2>7. ChannelTypes' /\ Phases' /\ ClosedIsDrained'
    BY Zenon, <1>4, <2>1, <2>4 DEF IInv, ChannelTypes, Phases, ClosedIsDrained, handle, Awaiting
  <2> QED BY Zenon, <2>1, <2>5, <2>6, <2>7, EngineStep DEF client
<1>5. CASE engine.at \in {"await_compaction", "await_settled"}
  <2>1. /\ task' = task /\ barrier' = "none" /\ engine' = [engine EXCEPT !.at = "append"]
        /\ UNCHANGED <<handle, events, client, parked>>
    BY Zenon, <1>5 DEF BarrierPasses
  <2>2. /\ engine' \in EngineState /\ engine'.at = "append" /\ engine'.then = engine.then
        /\ engine'.round = engine.round /\ engine'.calls = engine.calls
        /\ engine'.held = engine.held /\ engine'.todo = engine.todo
    BY Zenon, <1>1, <2>1 DEF EngineState, Step
  <2>3. HandleTypes' /\ EngineTypes' /\ RoundsBegun' /\ Placed'
    BY Zenon, <1>2, <2>1, <2>2 DEF IInv, HandleTypes, EngineTypes, RoundsBegun, Placed, handle, client
  <2>4. ChannelTypes' /\ Phases' /\ ClosedIsDrained'
    BY Zenon, <1>5, <2>1, <2>2 DEF IInv, ChannelTypes, Phases, ClosedIsDrained, handle, Awaiting, Outcome
  <2> QED BY Zenon, <2>1, <2>3, <2>4, EngineStep DEF client, IInv, TaskTypes
<1> QED BY Zenon, <1>1, <1>3, <1>4, <1>5 DEF Awaiting

-----------------------------------------------------------------------------
(* Tool rounds. *)

\* The round and the execution of its calls are announced together.
LEMMA StartRoundIInv ==
  ASSUME IInv, NEW cs \in SUBSET Call, StartRound(cs)
  PROVE  IInv'
<1> DEFINE k == engine.round + 1
           a == [kind |-> "started", round |-> k]
           b == [kind |-> "execute", round |-> k, calls |-> cs, barrier |-> FALSE]
           next == [engine EXCEPT !.at = "round", !.round = k, !.calls = cs]
<1>1. /\ engine \in EngineState /\ engine.at = "model" /\ commands = <<>> /\ k <= MaxRounds
      /\ committed' = {} /\ history' = history
      /\ EmitThen(<<a, b>>, next, commands)
  BY Zenon DEF IInv, EngineTypes, StartRound
<1>2. history' \subseteq Message /\ committed' \subseteq engine.calls
  BY Zenon, <1>1 DEF IInv, EngineTypes
<1>3. CASE SessionOver
  BY Zenon, <1>1, <1>2, <1>3, StopIInv DEF EmitThen, Outcome
<1>4. CASE ~ SessionOver
  <2>1. engine.round \in 0 .. MaxRounds
    BY Zenon, <1>1 DEF EngineState
  <2>2. k \in 1 .. MaxRounds /\ k \in Nat /\ engine.round <= k
    BY DeliveryAssumption, <1>1, <2>1
  <2>3. /\ next \in EngineState /\ next.at = "round" /\ next.then = engine.then
        /\ next.round = k /\ next.calls = cs
        /\ next.held = engine.held /\ next.todo = engine.todo
    <3>1. k \in 0 .. MaxRounds
      BY <2>2, DeliveryAssumption
    <3> HIDE DEF k
    <3>2. next \in EngineState
      BY Zenon, <1>1, <3>1 DEF EngineState, Step, Listening
    <3> QED BY Zenon, <1>1, <3>2 DEF EngineState
  <2>4. a \in RunEvent /\ b \in RunEvent /\ a.round = k /\ b.round = k /\ b.barrier = FALSE
    <3> HIDE DEF k
    <3> QED BY Zenon, <2>2 DEF RunEvent
  <2> HIDE DEF k, a, b, next
  <2>5. /\ <<a, b>> \in Seq(RunEvent) /\ <<a, b>>[Len(<<a, b>>)] = b
        /\ \A i \in DOMAIN <<a, b>> : <<a, b>>[i] \in {a, b}
    BY <2>4
  <2>6. /\ events' = events \o <<a, b>> /\ engine' = next /\ commands' = commands
        /\ UNCHANGED <<phase, cancelled, actions, session, running, results, task, parked>>
        /\ barrier' = IF <<a, b>>[Len(<<a, b>>)].barrier THEN "open" ELSE "none"
    BY Zenon, <1>1, <1>4 DEF EmitThen, client
  <2>7. barrier' = "none"
    BY Zenon, <2>4, <2>5, <2>6
  <2>8. \A i \in DOMAIN <<a, b>> : <<a, b>>[i].round <= engine'.round
    BY <2>2, <2>3, <2>4, <2>5, <2>6
  <2>9. events' \in Seq(RunEvent) /\ RoundsBegun'
    BY Zenon, <2>2, <2>3, <2>5, <2>6, <2>8, EmitChannel
  <2>10. HandleTypes' /\ EngineTypes' /\ Placed'
    BY Zenon, <1>1, <1>2, <2>3, <2>6 DEF IInv, HandleTypes, EngineTypes, Placed
  <2>11. ChannelTypes' /\ Phases' /\ ClosedIsDrained'
    BY Zenon, <1>1, <2>3, <2>6, <2>7, <2>9 DEF IInv, ChannelTypes, Phases, ClosedIsDrained, Awaiting
  <2> QED BY Zenon, <2>6, <2>9, <2>10, <2>11, EngineStep DEF IInv, TaskTypes
<1> QED BY Zenon, <1>3, <1>4

\* A result is committed, by a completion or by a break.
LEMMA CommitIInv ==
  ASSUME IInv, engine.at \in {"round", "cut"}, NEW c \in engine.calls, NEW i \in BOOLEAN,
         NEW rest \in Seq(Command), Distinct(rest), BatchesIn(rest) = BatchesIn(commands),
         Commit(c, i, engine.todo, rest)
  PROVE  IInv'
<1> DEFINE settled == committed \cup {c} = engine.calls
           e == [kind |-> "result", what |-> c, interrupted |-> i, barrier |-> settled]
           next == IF settled THEN Appending("await_settled", engine.todo, "model") ELSE engine
<1>1. /\ committed' = committed \cup {c} /\ history' = history
      /\ EmitThen(<<e>>, next, rest)
  BY Zenon DEF Commit
<1>2. /\ engine \in EngineState /\ history' \subseteq Message /\ committed' \subseteq engine.calls
      /\ engine.todo \in Seq(Delivery) /\ c \in Call /\ engine.calls \subseteq Call
  BY Zenon, <1>1 DEF IInv, EngineTypes, EngineState
<1>3. CASE SessionOver
  BY Zenon, <1>1, <1>2, <1>3, StopIInv DEF EmitThen, Outcome
<1>4. CASE ~ SessionOver
  <2>1. e \in RunEvent /\ e.kind = "result" /\ e.barrier = settled
    <3>1. settled \in BOOLEAN
      BY Zenon
    <3> HIDE DEF settled
    <3> QED BY Zenon, <1>2, <3>1 DEF RunEvent
  <2>2. engine' = next
    BY Zenon, <1>1, <1>4 DEF EmitThen
  <2>3. /\ "await_settled" \in Step \ {"ended", "final", "await_final", "await_append", "resume"}
        /\ "await_settled" \in Step /\ "model" \in Then /\ "await_settled" \in Awaiting
    BY Zenon DEF Step, Awaiting, Then
  <2>4. CASE settled
    <3>1. engine' = Appending("await_settled", engine.todo, "model")
      BY Zenon, <2>2, <2>4
    <3>2. engine'.at = "await_settled" /\ engine'.round = engine.round
      BY Zenon, <1>2, <2>3, <3>1, AppendingFields
    <3>3. EmitThen(<<e>>, next, rest) /\ next.round = engine.round /\ e.barrier = TRUE
      BY Zenon, <1>1, <2>1, <2>2, <2>4, <3>2
    <3> HIDE DEF e, next
    <3>4. /\ events' \in Seq(RunEvent) /\ RoundsBegun' /\ commands' = rest /\ barrier' = "open"
          /\ UNCHANGED <<phase, cancelled, actions, session, running, results, task, parked>>
      BY Zenon, <1>4, <2>1, <3>3, EmitOne
    <3>5. ChannelTypes'
      BY Zenon, <2>3, <3>2, <3>4 DEF ChannelTypes
    <3>6. phase = "Running"
      BY Zenon DEF IInv, Phases, HandleTypes
    <3>7. IsInjective(engine.todo) /\ BatchesIn(commands') \cap Range(engine.todo) = {}
      BY Zenon, <3>4 DEF IInv, Placed
    <3> QED BY Zenon, <1>2, <2>3, <3>1, <3>4, <3>5, <3>6, <3>7, AppendingIInv
  <2>5. CASE ~ settled
    <3>1. engine' = engine /\ next = engine /\ e.barrier = FALSE
      BY Zenon, <2>1, <2>2, <2>5
    <3>2. EmitThen(<<e>>, next, rest) /\ next.round = engine.round
      BY Zenon, <1>1, <3>1
    <3> HIDE DEF e, next
    <3>3. /\ events' \in Seq(RunEvent) /\ RoundsBegun' /\ commands' = rest /\ barrier' = "none"
          /\ UNCHANGED <<phase, cancelled, actions, session, running, results, task, parked>>
      BY Zenon, <1>4, <2>1, <3>1, <3>2, EmitOne
    <3>4. HandleTypes' /\ EngineTypes' /\ Placed'
      BY Zenon, <1>2, <3>1, <3>3 DEF IInv, HandleTypes, EngineTypes, Placed
    <3>5. ChannelTypes' /\ Phases' /\ ClosedIsDrained'
      BY Zenon, <3>1, <3>3 DEF IInv, ChannelTypes, Phases, ClosedIsDrained, Awaiting
    <3> QED BY Zenon, <3>3, <3>4, <3>5, EngineStep DEF IInv, TaskTypes
  <2> QED BY Zenon, <2>4, <2>5
<1> QED BY Zenon, <1>3, <1>4

\* A tool result is committed, ignored or fails the Run.
LEMMA ReceiveResultIInv ==
  ASSUME IInv, ReceiveResult
  PROVE  IInv'
<1> DEFINE c == Head(commands).what
<1>1. /\ commands \in Seq(Command) /\ commands # <<>> /\ Head(commands).kind = "result"
      /\ engine \in EngineState
  BY Zenon DEF IInv, HandleTypes, EngineTypes, ReceiveResult, Received
<1>2. /\ Tail(commands) \in Seq(Command) /\ BatchesIn(Tail(commands)) = BatchesIn(commands)
      /\ Distinct(Tail(commands))
  BY Zenon, <1>1, CommandReceived DEF IInv, Placed
<1>3. CASE engine.at # "round" \/ c \notin engine.calls
  <2>1. Stop("stray_result") /\ UNCHANGED stored
    BY Zenon, <1>3 DEF ReceiveResult
  <2> QED BY Zenon, <2>1, StopIInv DEF Outcome, stored, IInv, EngineTypes
<1>4. CASE engine.at = "round" /\ c \in engine.calls /\ c \in committed
  <2>1. /\ commands' = Tail(commands)
        /\ UNCHANGED <<phase, cancelled, engine, stored, channel, client, task, parked>>
    BY Zenon, <1>4 DEF ReceiveResult
  <2>2. HandleTypes' /\ EngineTypes' /\ ChannelTypes' /\ RoundsBegun' /\ Phases'
    BY Zenon, <1>2, <2>1 DEF IInv, HandleTypes, EngineTypes, ChannelTypes, RoundsBegun, Phases, stored,
                      channel, client
  <2>3. Placed' /\ ClosedIsDrained'
    BY Zenon, <1>2, <1>4, <2>1 DEF IInv, Placed, ClosedIsDrained
  <2> QED BY Zenon, <2>1, <2>2, <2>3, EngineStep DEF IInv, TaskTypes, client
<1>5. CASE engine.at = "round" /\ c \in engine.calls /\ c \notin committed
  <2>1. Commit(c, FALSE, <<>>, Tail(commands))
    BY Zenon, <1>5 DEF ReceiveResult
  <2>2. engine.todo = <<>>
    BY Zenon, <1>5 DEF IInv, Phases
  <2>3. Commit(c, FALSE, engine.todo, Tail(commands))
    BY Zenon, <2>1, <2>2
  <2> HIDE DEF c
  <2> QED BY Zenon, <1>2, <1>5, <2>3, CommitIInv
<1> QED BY Zenon, <1>3, <1>4, <1>5

\* An interrupted result takes the place of one that will not come.
LEMMA CutCallIInv ==
  ASSUME IInv, NEW c \in Call, CutCall(c)
  PROVE  IInv'
<1>1. /\ commands \in Seq(Command) /\ Distinct(commands) /\ engine.at = "cut" /\ c \in engine.calls
      /\ Commit(c, TRUE, engine.todo, commands)
  BY Zenon DEF IInv, HandleTypes, Placed, CutCall
<1> QED BY Zenon, <1>1, CommitIInv

\* A break turns the round to cutting its calls.
LEMMA ReceiveBreakInRoundIInv ==
  ASSUME IInv, ReceiveBreakInRound
  PROVE  IInv'
<1> DEFINE d == Head(commands).what
<1>1. /\ commands \in Seq(Command) /\ commands # <<>> /\ Head(commands).kind = "break"
      /\ commands' = Tail(commands) /\ engine \in EngineState /\ engine.at = "round"
  BY Zenon DEF IInv, HandleTypes, EngineTypes, ReceiveBreakInRound, Received
<1>2. /\ commands' \in Seq(Command) /\ d \in BatchesIn(commands) /\ Head(commands) \in Command
      /\ BatchesIn(commands') = BatchesIn(commands) \ {d} /\ Distinct(commands')
  BY Zenon, <1>1, CommandReceived DEF IInv, Placed
<1>3. d \in Delivery
  BY Zenon, <1>1, <1>2, CommandFields
<1>4. engine' = [engine EXCEPT !.at = "cut", !.todo = <<d>>]
  BY Zenon DEF ReceiveBreakInRound
<1> HIDE DEF d
<1>5. <<d>> \in Seq(Delivery) /\ Range(<<d>>) = {d} /\ IsInjective(<<d>>)
  BY <1>3, SingleSet
<1>6. /\ engine' \in EngineState /\ engine'.at = "cut" /\ engine'.then = engine.then
      /\ engine'.round = engine.round /\ engine'.calls = engine.calls
      /\ engine'.held = engine.held /\ engine'.todo = <<d>>
  BY Zenon, <1>1, <1>4, <1>5 DEF EngineState, Step
<1>7. Range(engine.todo) = {}
  BY Zenon, <1>1, EmptySet DEF IInv, Phases
<1>8. HandleTypes'
  BY Zenon, <1>2 DEF IInv, HandleTypes, ReceiveBreakInRound
<1>9. EngineTypes' /\ ChannelTypes' /\ RoundsBegun' /\ Phases'
  BY Zenon, <1>1, <1>6 DEF IInv, EngineTypes, ChannelTypes, RoundsBegun, Phases, ReceiveBreakInRound,
                    stored, channel, client, Awaiting
<1>10. Placed'
  BY ZenonT(30), <1>2, <1>5, <1>6, <1>7 DEF IInv, Placed, ReceiveBreakInRound
<1>11. ClosedIsDrained'
  BY Zenon, <1>6 DEF ClosedIsDrained
<1> QED BY Zenon, <1>8, <1>9, <1>10, <1>11, EngineStep DEF ReceiveBreakInRound, IInv, TaskTypes, client

-----------------------------------------------------------------------------
(* The session. *)

\* An event is taken from the channel.
LEMMA EventReceived ==
  ASSUME IInv, events # <<>>, events' = Tail(events), engine' = engine
  PROVE  /\ Head(events) \in RunEvent /\ Head(events) = events[1] /\ 1 \in DOMAIN events
         /\ events' \in Seq(RunEvent)
         /\ \A i \in DOMAIN events' : i + 1 \in DOMAIN events /\ events'[i] = events[i + 1]
         /\ session'.round <= engine.round => RoundsBegun'
<1>1. events \in Seq(RunEvent)
  BY Zenon DEF IInv, ChannelTypes
<1>2. /\ Head(events) \in RunEvent /\ events' \in Seq(RunEvent) /\ Len(events') = Len(events) - 1
      /\ \A i \in 1 .. Len(events') : events'[i] = events[i + 1]
  BY Zenon, <1>1, SeqTail
<1>3. /\ Len(events) \in Nat /\ Len(events) # 0 /\ DOMAIN events = 1 .. Len(events)
      /\ DOMAIN events' = 1 .. (Len(events) - 1) /\ Head(events) = events[1]
  BY <1>1, <1>2, SeqLength, SeqEmpty
<1>4. \A i \in DOMAIN events' : i + 1 \in DOMAIN events /\ events'[i] = events[i + 1]
  BY <1>2, <1>3
<1>5. session'.round <= engine.round => RoundsBegun'
  BY Zenon, <1>4 DEF IInv, RoundsBegun
<1> QED BY <1>2, <1>3, <1>4, <1>5

\* A step of the session that leaves the commands and the tasks alone.
LEMMA SessionStep ==
  ASSUME IInv, UNCHANGED <<phase, cancelled, commands, engine, history, committed, actions, task, parked>>,
         events' \in Seq(RunEvent), barrier' \in {barrier, Complete("ok"), Complete("lost")},
         session' \in SessionState, session'.pending \subseteq session'.ids,
         running' \subseteq Call, results' \in Seq(Call), RoundsBegun'
  PROVE  IInv'
<1>1. ChannelTypes'
  BY Zenon DEF IInv, ChannelTypes, Complete
<1>2. ClientTypes' /\ TaskTypes' /\ Queued' /\ cancelled' \in BOOLEAN
  BY Zenon DEF IInv, ClientTypes, TaskTypes, Queued, HandleTypes
<1> QED BY Zenon, <1>1, <1>2, ClientStep

\* The session fails and cancels the Run.
LEMMA SessionFailsIInv ==
  ASSUME IInv, SessionFails
  PROVE  IInv'
<1>1. session' \in SessionState /\ session'.pending = session.pending /\ session'.ids = session.ids
      /\ session'.round = session.round
  BY Zenon, SessionFields DEF SessionFails, SessionState
<1>2. ChannelTypes' /\ ClientTypes' /\ RoundsBegun' /\ Queued'
  BY Zenon, <1>1 DEF IInv, ChannelTypes, ClientTypes, RoundsBegun, Queued, SessionFails, channel
<1> QED BY Zenon, <1>2, CancelCommandIInv DEF SessionFails, stored

\* What is on its way to the session is dropped, and its tasks see it.
LEMMA SettleActions ==
  ASSUME IInv, NEW as \in {"superseded", "discarded", "failed"}, task' = Settle(actions, as),
         actions' = <<>>, parked' = parked
  PROVE  /\ TaskTypes' /\ Queued'
         /\ {d \in Delivery : task'[d] = "sent"} = {d \in Delivery : task[d] = "sent"}
<1>1. task \in [Delivery -> TaskState]
  BY Zenon DEF IInv, TaskTypes
<1>2. Range(actions) = {d \in Delivery : task[d] = "queued"}
  BY Zenon DEF IInv, Queued
<1>3. task' = [d \in Delivery |-> IF d \in Range(actions) THEN as ELSE task[d]]
  BY Zenon DEF Settle
<1>4. TaskTypes'
  BY Zenon, <1>1, <1>3 DEF IInv, TaskTypes, TaskState
<1>5. {d \in Delivery : task'[d] = "sent"} = {d \in Delivery : task[d] = "sent"}
  BY Zenon, <1>1, <1>2, <1>3
<1>6. {d \in Delivery : task'[d] = "queued"} = {}
  BY Zenon, <1>1, <1>2, <1>3
<1>7. Queued'
  BY Zenon, <1>6, EmptySet DEF Queued
<1> QED BY Zenon, <1>4, <1>5, <1>7

\* A newer request takes the session away.
LEMMA SupersedeIInv ==
  ASSUME IInv, Supersede
  PROVE  IInv'
<1>1. session' \in SessionState /\ session'.pending = session.pending /\ session'.ids = session.ids
      /\ session'.round = session.round
  BY Zenon, SessionFields DEF Supersede, SessionState
<1>2. <<>> \in Seq(RunEvent) /\ DOMAIN <<>> = {} /\ <<>> \in Seq(Call) /\ <<>> \in Seq(Delivery)
  BY Zenon, SeqEmpty
<1>3. ChannelTypes' /\ ClientTypes' /\ RoundsBegun'
  BY Zenon, <1>1, <1>2 DEF IInv, ChannelTypes, ClientTypes, RoundsBegun, Supersede, Complete
<1>4. /\ TaskTypes' /\ Queued'
      /\ {d \in Delivery : task'[d] = "sent"} = {d \in Delivery : task[d] = "sent"}
  BY Zenon, SettleActions DEF Supersede
<1>5. /\ cancelled' \in BOOLEAN
      /\ commands' = commands \/ commands' = Append(commands, Cancel)
      /\ engine' = engine /\ phase' = phase /\ history' = history /\ committed' = committed
  BY Zenon DEF Supersede, CancelCommand, stored
<1>6. Cancel \in Command /\ Cancel.kind \notin {"insert", "break"}
  BY Zenon, CommandFields
<1> QED BY Zenon, <1>3, <1>4, <1>5, <1>6, ClientStep

\* The session's task ends and drops its channels.
LEMMA CloseSessionIInv ==
  ASSUME IInv, CloseSession
  PROVE  IInv'
<1>1. session' \in SessionState /\ session'.pending = session.pending /\ session'.ids = session.ids
      /\ session'.round = session.round
  BY Zenon, SessionFields DEF CloseSession, SessionState
<1>2. <<>> \in Seq(RunEvent) /\ DOMAIN <<>> = {} /\ <<>> \in Seq(Call) /\ <<>> \in Seq(Delivery)
  BY SeqEmpty
<1>3. ChannelTypes' /\ ClientTypes' /\ RoundsBegun'
  BY Zenon, <1>1, <1>2 DEF IInv, ChannelTypes, ClientTypes, RoundsBegun, CloseSession, Complete
<1>4. /\ TaskTypes' /\ Queued'
      /\ {d \in Delivery : task'[d] = "sent"} = {d \in Delivery : task[d] = "sent"}
  BY Zenon, SettleActions DEF CloseSession
<1>5. /\ cancelled' \in BOOLEAN /\ commands' = commands
      /\ engine' = engine /\ phase' = phase /\ history' = history /\ committed' = committed
  BY Zenon DEF CloseSession, handle, stored, IInv, HandleTypes
<1> QED BY Zenon, <1>3, <1>4, <1>5, ClientStep

\* The session takes a message: its task goes on, or the message is a duplicate.
LEMMA TakeActionIInv ==
  ASSUME IInv, TakeAction
  PROVE  IInv'
<1> DEFINE d == Head(actions)
           m == MessageOf[d]
<1>1. /\ actions \in Seq(Delivery) /\ actions # <<>> /\ actions' = Tail(actions)
      /\ task \in [Delivery -> TaskState] /\ running \subseteq Call
  BY Zenon DEF IInv, ClientTypes, TaskTypes, TakeAction
<1>2. /\ d \in Delivery /\ d \in Range(actions) /\ Tail(actions) \in Seq(Delivery)
      /\ IsInjective(Tail(actions)) /\ Range(Tail(actions)) = Range(actions) \ {d}
  BY Zenon, <1>1, TailSet DEF IInv, Queued
<1>3. task[d] = "queued" /\ m \in Message
  BY Zenon, <1>2 DEF IInv, Queued, Message
<1>4. \E as \in {"done", "spawned"} : task' = [task EXCEPT ![d] = as]
  BY Zenon DEF TakeAction
<1>5. /\ session' \in SessionState /\ session'.pending \subseteq session'.ids
      /\ session'.round = session.round /\ running' \subseteq Call
  <2>1. CASE Path[d] = "inject" /\ m \in session.ids
    BY Zenon, <1>1, <2>1, SessionFields DEF TakeAction
  <2>2. CASE ~ (Path[d] = "inject" /\ m \in session.ids)
    <3> DEFINE i == session.cutCalls \cup Interrupted
               k == session.cutRounds \cup ({session.round} \ {0})
    <3>1. /\ session' = [session EXCEPT !.ids = @ \cup {m}, !.pending = @ \cup {m},
                                        !.cutCalls = i, !.cutRounds = k]
          /\ running' \in SUBSET running
      BY Zenon, <2>2 DEF TakeAction
    <3>2. i \subseteq Call /\ k \subseteq 1 .. MaxRounds
      BY SessionFields, DeliveryAssumption DEF Interrupted
    <3> HIDE DEF i, k, m
    <3>3. session' \in SessionState
      BY Zenon, <1>3, <3>1, <3>2, SessionFields DEF SessionState
    <3>4. /\ session'.ids = session.ids \cup {m} /\ session'.pending = session.pending \cup {m}
          /\ session'.round = session.round
      BY Zenon, <3>1, SessionFields DEF SessionState
    <3> QED BY Zenon, <1>1, <3>1, <3>3, <3>4, SessionFields
  <2> QED BY Zenon, <2>1, <2>2
<1> HIDE DEF d, m
<1>6. /\ {e \in Delivery : task'[e] = "sent"} = {e \in Delivery : task[e] = "sent"}
      /\ {e \in Delivery : task'[e] = "queued"} = {e \in Delivery : task[e] = "queued"} \ {d}
      /\ task' \in [Delivery -> TaskState]
  BY Zenon, <1>1, <1>2, <1>3, <1>4 DEF TaskState
<1>7. Queued' /\ TaskTypes'
  BY Zenon, <1>1, <1>2, <1>6 DEF IInv, Queued, TaskTypes, TakeAction
<1>8. ChannelTypes' /\ ClientTypes' /\ RoundsBegun'
  BY Zenon, <1>1, <1>2, <1>5 DEF IInv, ChannelTypes, ClientTypes, RoundsBegun, TakeAction, channel
<1>9. /\ cancelled' \in BOOLEAN /\ commands' = commands
      /\ engine' = engine /\ phase' = phase /\ history' = history /\ committed' = committed
  BY Zenon DEF TakeAction, handle, stored, IInv, HandleTypes
<1> QED BY Zenon, <1>6, <1>7, <1>8, <1>9, ClientStep

\* A round begins for the session.
LEMMA SeeStartedIInv ==
  ASSUME IInv, SeeStarted
  PROVE  IInv'
<1>1. /\ events # <<>> /\ events' = Tail(events) /\ Head(events).kind = "started"
      /\ session' = [session EXCEPT !.round = Head(events).round]
      /\ UNCHANGED <<phase, cancelled, commands, engine, history, committed, actions, task, parked>>
      /\ UNCHANGED <<barrier, running, results>>
  BY Zenon DEF SeeStarted, NextEvent, handle, stored
<1>2. /\ Head(events) \in RunEvent /\ Head(events) = events[1] /\ 1 \in DOMAIN events
      /\ events' \in Seq(RunEvent) /\ (session'.round <= engine.round => RoundsBegun')
  BY Zenon, <1>1, EventReceived
<1>3. Head(events).round \in 0 .. MaxRounds /\ Head(events).round <= engine.round
  BY <1>1, <1>2, EventFields, DeliveryAssumption DEF IInv, RoundsBegun
<1>4. /\ session' \in SessionState /\ session'.round = Head(events).round
      /\ session'.pending = session.pending /\ session'.ids = session.ids
  BY Zenon, <1>1, <1>3, SessionFields DEF SessionState
<1>5. running' \subseteq Call /\ results' \in Seq(Call)
  BY Zenon, <1>1 DEF IInv, ClientTypes
<1> QED BY Zenon, <1>1, <1>2, <1>3, <1>4, <1>5, SessionFields, SessionStep

\* The tools of a round start.
LEMMA SeeExecuteIInv ==
  ASSUME IInv, NEW ready \in Orders, SeeExecute(ready)
  PROVE  IInv'
<1> DEFINE k == Head(events).round
           cs == Head(events).calls
           done == IF session.doneRound = k THEN session.done ELSE {}
           cut == k \in session.cutRounds \/ session.pending # {}
           dispatched == IF cut THEN {} ELSE cs \ done
           now == Range(ready)
           rounds == IF cut THEN session.cutRounds \cup {k} ELSE session.cutRounds
           calls == IF cut THEN session.cutCalls \cup cs ELSE session.cutCalls
<1>1. /\ events # <<>> /\ events' = Tail(events) /\ Head(events).kind = "execute"
      /\ session' = [session EXCEPT !.doneRound = k, !.done = done, !.round = k, !.calls = cs,
                       !.ready = ready, !.cutRounds = rounds, !.cutCalls = calls]
      /\ running' = running \cup (dispatched \ now)
      /\ UNCHANGED <<phase, cancelled, commands, engine, history, committed, actions, task, parked>>
      /\ UNCHANGED <<barrier, results>>
  BY Zenon DEF SeeExecute, NextEvent, handle, stored
<1>2. /\ Head(events) \in RunEvent /\ Head(events) = events[1] /\ 1 \in DOMAIN events
      /\ events' \in Seq(RunEvent) /\ (session'.round <= engine.round => RoundsBegun')
  BY Zenon, <1>1, EventReceived
<1>3. k \in 1 .. MaxRounds /\ cs \subseteq Call /\ k <= engine.round
  BY Zenon, <1>1, <1>2, EventFields DEF IInv, RoundsBegun
<1>4. ready \in Seq(Call)
  BY Zenon, OrderSet
<1>5. k \in 0 .. MaxRounds
  BY <1>3, DeliveryAssumption
<1>6. /\ done \subseteq Call /\ dispatched \subseteq Call
      /\ rounds \subseteq 1 .. MaxRounds /\ calls \subseteq Call
  BY Zenon, <1>3, SessionFields
<1> HIDE DEF k, cs, done, cut, dispatched, now, rounds, calls
<1>7. session' \in SessionState
  BY Zenon, <1>1, <1>3, <1>4, <1>5, <1>6, SessionFields DEF SessionState
<1>8. session'.pending = session.pending /\ session'.ids = session.ids /\ session'.round = k
  BY Zenon, <1>1, SessionFields DEF SessionState
<1>9. running' \subseteq Call /\ results' \in Seq(Call)
  BY Zenon, <1>1, <1>6 DEF IInv, ClientTypes
<1>10. session'.pending \subseteq session'.ids /\ RoundsBegun'
  BY Zenon, <1>2, <1>3, <1>8, SessionFields
<1> QED BY Zenon, <1>1, <1>2, <1>7, <1>9, <1>10, SessionStep

\* The session publishes what the engine committed.
LEMMA SeeCommitIInv ==
  ASSUME IInv, SeeRuntime \/ SeeCheckpoint
  PROVE  IInv'
<1>1. /\ events # <<>> /\ events' = Tail(events)
      /\ UNCHANGED <<phase, cancelled, commands, engine, history, committed, actions, task, parked>>
      /\ UNCHANGED <<running, results>>
      /\ barrier' \in {barrier, Complete("ok"), Complete("lost")}
  BY Zenon DEF SeeRuntime, SeeCheckpoint, NextEvent, handle, stored, client
<1>2. events' \in Seq(RunEvent) /\ (session'.round <= engine.round => RoundsBegun')
  BY Zenon, <1>1, EventReceived
<1>3. /\ session' \in SessionState /\ session'.round = session.round
      /\ session'.pending \subseteq session'.ids
  <2>1. CASE SeeRuntime
    <3> DEFINE p == StillToDeliver(Head(events).what)
    <3>1. session' = [session EXCEPT !.pending = p] /\ p \subseteq session.pending
      BY Zenon, <2>1 DEF SeeRuntime, StillToDeliver
    <3> HIDE DEF p
    <3> QED BY Zenon, <3>1, SessionFields DEF SessionState
  <2>2. CASE SeeCheckpoint
    BY Zenon, <2>2, SessionFields DEF SeeCheckpoint, client
  <2> QED BY Zenon, <2>1, <2>2
<1>4. running' \subseteq Call /\ results' \in Seq(Call) /\ RoundsBegun'
  BY Zenon, <1>1, <1>2, <1>3 DEF IInv, ClientTypes, RoundsBegun
<1> QED BY Zenon, <1>1, <1>2, <1>3, <1>4, SessionStep

\* The session sees a result, and the end of the round with the last of them.
LEMMA SeeResultIInv ==
  ASSUME IInv, SeeResult
  PROVE  IInv'
<1> DEFINE e == Head(events)
           typed == IF e.interrupted THEN session.typed ELSE session.typed \ {e.what}
           done == session.done \cup {e.what}
           seen == [session EXCEPT !.typed = typed, !.done = done]
<1>1. CASE SessionFails
  BY Zenon, <1>1, SessionFailsIInv
<1>2. CASE ~ SessionFails
  <2>1. /\ events # <<>> /\ events' = Tail(events) /\ e.kind = "result"
        /\ \/ /\ session' = [seen EXCEPT !.cutRounds = @ \ {session.round}, !.round = 0, !.calls = {}]
              /\ barrier' = Complete("ok")
           \/ session' = seen /\ UNCHANGED barrier
        /\ UNCHANGED <<phase, cancelled, commands, engine, history, committed, actions, task, parked>>
        /\ UNCHANGED <<running, results>>
    BY Zenon, <1>2 DEF SeeResult, NextEvent, handle, stored
  <2>2. e \in RunEvent /\ events' \in Seq(RunEvent) /\ (session'.round <= engine.round => RoundsBegun')
    BY Zenon, <2>1, EventReceived
  <2>3. typed \subseteq Call /\ done \subseteq Call
    BY Zenon, <2>1, <2>2, EventFields, SessionFields
  <2> HIDE DEF typed, done, e
  <2>4. /\ seen \in SessionState /\ seen.pending = session.pending /\ seen.ids = session.ids
        /\ seen.round = session.round
    BY Zenon, <2>3, SessionFields DEF SessionState
  <2> HIDE DEF seen
  <2>5. engine.round \in Nat /\ session.round <= engine.round /\ 0 \in 0 .. MaxRounds
    BY DeliveryAssumption DEF IInv, RoundsBegun, EngineTypes, EngineState
  <2>6. /\ session' \in SessionState /\ session'.pending = session.pending /\ session'.ids = session.ids
        /\ session'.round <= engine.round
    <3>1. CASE session' = seen
      BY Zenon, <2>4, <2>5, <3>1
    <3>2. CASE session' = [seen EXCEPT !.cutRounds = @ \ {session.round}, !.round = 0, !.calls = {}]
      <4>1. session' \in SessionState
        BY Zenon, <2>4, <2>5, <3>2 DEF SessionState
      <4>2. session'.pending = session.pending /\ session'.ids = session.ids /\ session'.round = 0
        BY Zenon, <2>4, <3>2 DEF SessionState
      <4> QED BY <2>5, <4>1, <4>2
    <3> QED BY Zenon, <2>1, <3>1, <3>2
  <2>7. running' \subseteq Call /\ results' \in Seq(Call)
    BY Zenon, <2>1 DEF IInv, ClientTypes
  <2>8. barrier' \in {barrier, Complete("ok"), Complete("lost")}
    BY Zenon, <2>1
  <2> QED BY Zenon, <2>1, <2>2, <2>6, <2>7, <2>8, SessionFields, SessionStep
<1> QED BY <1>1, <1>2

\* The Run has ended.
LEMMA SeeEndedIInv ==
  ASSUME IInv, SeeEnded
  PROVE  IInv'
<1>1. /\ events # <<>> /\ events' = Tail(events)
      /\ session' = [session EXCEPT !.state = "publishing"] /\ running' = {}
      /\ UNCHANGED <<phase, cancelled, commands, engine, history, committed, actions, task, parked>>
      /\ UNCHANGED <<barrier, results>>
  BY Zenon DEF SeeEnded, NextEvent, handle, stored
<1>2. events' \in Seq(RunEvent) /\ (session'.round <= engine.round => RoundsBegun')
  BY Zenon, <1>1, EventReceived
<1>3. /\ session' \in SessionState /\ session'.pending = session.pending /\ session'.ids = session.ids
      /\ session'.round = session.round
  BY Zenon, <1>1, SessionFields DEF SessionState
<1>4. running' \subseteq Call /\ results' \in Seq(Call) /\ RoundsBegun'
  BY Zenon, <1>1, <1>2, <1>3 DEF IInv, ClientTypes, RoundsBegun
<1> QED BY Zenon, <1>1, <1>2, <1>3, <1>4, SessionFields, SessionStep

\* A tool's completion is on its way.
LEMMA ToolEndsIInv ==
  ASSUME IInv, NEW c \in Call, ToolEnds(c)
  PROVE  IInv'
<1>1. /\ results \in Seq(Call) /\ results' = Append(results, c) /\ running' \subseteq Call
      /\ UNCHANGED <<phase, cancelled, commands, engine, history, committed, actions, task, parked>>
      /\ UNCHANGED <<session, events, barrier>>
  BY Zenon DEF IInv, ClientTypes, ToolEnds, handle, stored, channel
<1>2. results' \in Seq(Call)
  BY Zenon, <1>1, AppendSet
<1>3. events' \in Seq(RunEvent) /\ RoundsBegun'
  BY Zenon, <1>1 DEF IInv, ChannelTypes, RoundsBegun
<1> QED BY Zenon, <1>1, <1>2, <1>3, SessionFields, SessionStep

\* A completion goes to the engine, or nowhere.
LEMMA ForwardCompletionIInv ==
  ASSUME IInv, ForwardCompletion
  PROVE  IInv'
<1> DEFINE atHand == session.ready # <<>>
           c == Head(IF atHand THEN session.ready ELSE results)
           taken == IF atHand THEN [session EXCEPT !.ready = Tail(@)] ELSE session
<1>1. CASE SessionFails
  BY <1>1, SessionFailsIInv
<1>2. CASE ~ SessionFails
  <2>1. /\ atHand \/ results # <<>>
        /\ results' = IF atHand THEN results ELSE Tail(results)
        /\ \/ session' = taken /\ commands' = commands
           \/ commands' = Append(commands, ToolResult(c)) /\ session' = [taken EXCEPT !.typed = @ \cup {c}]
        /\ UNCHANGED <<phase, cancelled, engine, history, committed, actions, task, parked>>
        /\ UNCHANGED <<events, barrier, running>>
    BY Zenon, <1>2 DEF ForwardCompletion, stored, channel
  <2>2. session.ready \in Seq(Call) /\ results \in Seq(Call) /\ session \in SessionState
    BY Zenon, SessionFields DEF IInv, ClientTypes
  <2>3. c \in Call /\ results' \in Seq(Call) /\ (atHand => Tail(session.ready) \in Seq(Call))
    BY Zenon, <2>1, <2>2, TailSet
  <2>4. /\ taken \in SessionState /\ taken.pending = session.pending /\ taken.ids = session.ids
        /\ taken.round = session.round
    BY Zenon, <2>2, <2>3 DEF SessionState
  <2> HIDE DEF taken, c, atHand
  <2>5. /\ session' \in SessionState /\ session'.pending = session.pending /\ session'.ids = session.ids
        /\ session'.round = session.round
    <3>1. CASE session' = taken
      BY Zenon, <2>4, <3>1
    <3>2. CASE session' = [taken EXCEPT !.typed = @ \cup {c}]
      <4>1. taken.typed \cup {c} \subseteq Call
        BY Zenon, <2>3, <2>4 DEF SessionState
      <4>2. session' \in SessionState
        BY Zenon, <2>4, <3>2, <4>1 DEF SessionState
      <4>3. session'.pending = taken.pending /\ session'.ids = taken.ids /\ session'.round = taken.round
        BY Zenon, <2>4, <3>2 DEF SessionState
      <4> QED BY Zenon, <2>4, <4>2, <4>3
    <3> QED BY Zenon, <2>1, <3>1, <3>2
  <2>6. ChannelTypes' /\ ClientTypes' /\ RoundsBegun'
    BY Zenon, <2>1, <2>3, <2>5 DEF IInv, ChannelTypes, ClientTypes, RoundsBegun
  <2>7. TaskTypes' /\ Queued' /\ cancelled' \in BOOLEAN
    BY Zenon, <2>1 DEF IInv, TaskTypes, Queued, HandleTypes
  <2>8. ToolResult(c) \in Command /\ ToolResult(c).kind \notin {"insert", "break"}
    BY Zenon, <2>3, CommandFields DEF ToolResult
  <2>9. \/ commands' = commands
        \/ \E x \in Command : x.kind \notin {"insert", "break"} /\ commands' = Append(commands, x)
    BY Zenon, <2>1, <2>8
  <2> QED BY Zenon, <2>1, <2>6, <2>7, <2>9, ClientStep
<1> QED BY <1>1, <1>2

-----------------------------------------------------------------------------
(* The invariant is inductive. *)

\* Every step of the Run, of the session and of a task keeps it.
LEMMA NextIInv == IInv /\ [Next]_vars => IInv'
<1> SUFFICES ASSUME IInv, [Next]_vars PROVE IInv'
  BY Zenon
<1>1. CASE Engine
  <2>1. CASE ReceiveInsert
    BY Zenon, <2>1, ReceiveInsertIInv
  <2>2. CASE ReceiveBreak
    BY <2>2, ReceiveBreakIInv
  <2>3. CASE ReceiveCancel \/ NoticeCancellation \/ CycleFails \/ BarrierLost \/ CycleLosesClient
    BY Zenon, <2>3, StopsIInv
  <2>4. CASE ReceiveResult
    BY <2>4, ReceiveResultIInv
  <2>5. CASE ReceiveBreakInRound
    BY <2>5, ReceiveBreakInRoundIInv
  <2>6. CASE StartCompaction \/ Answer
    BY Zenon, <2>6, AppendHeldIInv
  <2>7. CASE EndCompaction
    BY <2>7, EndCompactionIInv
  <2>8. CASE Finalize
    BY <2>8, FinalizeIInv
  <2>9. CASE ResumeRunning
    BY <2>9, ResumeRunningIInv
  <2>10. CASE CommitFinal
    BY <2>10, CommitFinalIInv
  <2>11. CASE AppendNext
    BY <2>11, AppendNextIInv
  <2>12. CASE AppendedAll
    BY <2>12, AppendedAllIInv
  <2>13. CASE BarrierPasses
    BY <2>13, BarrierPassesIInv
  <2>14. CASE \E cs \in SUBSET Call : StartRound(cs)
    BY Zenon, <2>14, StartRoundIInv
  <2>15. CASE \E c \in Call : CutCall(c)
    BY Zenon, <2>15, CutCallIInv
  <2> QED BY Zenon, <1>1, <2>1, <2>2, <2>3, <2>4, <2>5, <2>6, <2>7, <2>8, <2>9, <2>10, <2>11, <2>12,
             <2>13, <2>14, <2>15 DEF Engine
<1>2. CASE Session
  <2>1. CASE TakeAction
    BY <2>1, TakeActionIInv
  <2>2. CASE SeeStarted
    BY <2>2, SeeStartedIInv
  <2>3. CASE SeeRuntime \/ SeeCheckpoint
    BY <2>3, SeeCommitIInv
  <2>4. CASE SeeResult
    BY <2>4, SeeResultIInv
  <2>5. CASE SeeEnded
    BY <2>5, SeeEndedIInv
  <2>6. CASE ForwardCompletion
    BY <2>6, ForwardCompletionIInv
  <2>7. CASE CloseSession
    BY <2>7, CloseSessionIInv
  <2>8. CASE \E now \in Orders : SeeExecute(now)
    BY <2>8, SeeExecuteIInv
  <2> QED BY Zenon, <1>2, <2>1, <2>2, <2>3, <2>4, <2>5, <2>6, <2>7, <2>8 DEF Session
<1>3. CASE \E d \in Delivery : Submit(d) \/ Task(d)
  BY Zenon, <1>3, SubmitIInv, SendBatchIInv DEF Task
<1>4. CASE \E c \in Call : ToolEnds(c)
  BY <1>4, ToolEndsIInv
<1>5. CASE CancelRun
  BY <1>5, CancelRunIInv
<1>6. CASE SessionBreaks
  BY Zenon, <1>6, SessionFailsIInv DEF SessionBreaks
<1>7. CASE Supersede
  BY <1>7, SupersedeIInv
<1>8. CASE UNCHANGED vars
  BY Zenon, <1>8, DrainStays DEF vars, handle, stored, channel, client, IInv, HandleTypes, EngineTypes, ChannelTypes,
              ClientTypes, TaskTypes, RoundsBegun, Phases, Placed, Queued, ClosedIsDrained
<1> QED BY Zenon, <1>1, <1>2, <1>3, <1>4, <1>5, <1>6, <1>7, <1>8 DEF Next

=============================================================================
