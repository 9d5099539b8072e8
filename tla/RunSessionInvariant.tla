------------------------- MODULE RunSessionInvariant -------------------------
(* The steps of the session for the second invariant of RunDelivery            *)
(* (RunExchangeInvariant): what it was sent, what it forwards and what it has  *)
(* seen of the engine's events.                                                *)
EXTENDS RunExchangeInvariant

-----------------------------------------------------------------------------
(* The session. *)

\* An injection reaches the session, which forwards nothing until it is delivered.
LEMMA TakeActionJInv ==
  ASSUME OwnMessages, IInv, JInv, TakeAction
  PROVE  JInv'
<1> PICK d : d = Head(actions)
  OBVIOUS
<1>1. /\ session \in SessionState /\ task \in [Delivery -> TaskState]
      /\ d \in Delivery /\ task[d] = "queued" /\ Up
  <2>1. actions \in Seq(Delivery) /\ actions # <<>>
    BY DEF IInv, ClientTypes, TakeAction
  <2>2. d \in Range(actions)
    BY <2>1, TailSet
  <2> QED BY <2>2, SessionFields DEF IInv, TaskTypes, Queued, TakeAction, Up
<1>2. UNCHANGED <<commands, engine, committed, events, barrier, results>>
  BY DEF TakeAction, handle, stored, channel
<1>3. CASE Path[d] = "inject" /\ MessageOf[d] \in session.ids
  <2>1. task' = [task EXCEPT ![d] = "done"] /\ UNCHANGED <<session, running>>
    BY <1>3 DEF TakeAction
  <2>2. Breaking' = Breaking
    BY <1>1, <2>1 DEF Breaking
  <2> QED BY <1>2, <2>1, <2>2, ExchangeSame
<1>4. CASE ~ (Path[d] = "inject" /\ MessageOf[d] \in session.ids)
  <2>1. /\ task' = [task EXCEPT ![d] = "spawned"] /\ running' \subseteq running
        /\ session' = [session EXCEPT
             !.ids = @ \cup {MessageOf[d]},
             !.pending = @ \cup {MessageOf[d]},
             !.cutCalls = @ \cup Interrupted,
             !.cutRounds = @ \cup ({session.round} \ {0})]
    BY <1>4 DEF TakeAction
  <2>2. /\ session'.ids = session.ids \cup {MessageOf[d]}
        /\ session'.pending = session.pending \cup {MessageOf[d]}
        /\ session'.cutCalls = session.cutCalls \cup Interrupted
        /\ session'.state = session.state /\ session'.round = session.round
        /\ session'.calls = session.calls /\ session'.typed = session.typed
        /\ session'.ready = session.ready
    BY <1>1, <2>1 DEF SessionState
  <2>3. Breaking' \subseteq Breaking \cup {d} /\ Breaking \subseteq Breaking' /\ d \notin Breaking
    BY <1>1, <2>1 DEF Breaking
  <2>4. Up' = Up /\ Going' = Going /\ Quiet' = Quiet
    BY <1>2, <2>2 DEF Up, Going, Quiet
  <2>5. Uncut' \subseteq Uncut \ Interrupted
    BY <1>2, <2>1, <2>2 DEF Uncut, Flight
  <2>6. Going => Uncut' = {}
    BY <1>1, <2>5 DEF JInv, InFlight, Interrupted
  <2>7. Awaited' /\ Forwarded'
    BY <1>2, <2>2, <2>4 DEF JInv, Awaited, Forwarded, Has
  <2>8. InFlight'
    BY <2>4, <2>6 DEF InFlight
  <2>9. Pending'
    BY <1>2, <2>2, <2>3, <2>4, <2>6 DEF JInv, Pending, Has
  <2>10. ASSUME NEW x \in Breaking, MessageOf[x] = MessageOf[d] PROVE FALSE
    <3>1. x \in Delivery /\ x # d /\ MessageOf[x] \in session.ids
      BY <2>3 DEF Breaking, JInv, Own
    <3>2. Path[d] = "inject"
      BY <1>1, <2>10, <3>1 DEF OwnMessages
    <3> QED BY <1>4, <2>10, <3>1, <3>2
  <2>11. Own'
    BY <1>2, <2>2, <2>3, <2>10 DEF JInv, Own
  <2>12. Rounds'
    BY <1>2, <2>4 DEF JInv, Rounds, Has
  <2>13. Order'
    BY <1>2, <2>2, <2>4 DEF JInv, Order, Ordered, OnlyEnd, Has
  <2>14. Sync'
    BY <1>2, <2>2, <2>4 DEF JInv, Sync, Has
  <2> QED BY <2>7, <2>8, <2>9, <2>11, <2>12, <2>13, <2>14 DEF JInv
<1> QED BY <1>3, <1>4

\* What the session finds at the front, and what is behind it.
LEMMA EventTaken ==
  ASSUME IInv, JInv, events # <<>>, Up, events' = Tail(events)
  PROVE  /\ 1 \in DOMAIN events /\ Head(events) = events[1] /\ Ordered(1)
         /\ Quiet => ~ Going
         /\ Len(events) \in Nat /\ Len(events') = Len(events) - 1
         /\ \A i \in DOMAIN events' :
              /\ i \in Nat /\ i > 0 /\ i + 1 \in DOMAIN events /\ events'[i] = events[i + 1]
              /\ Ordered(i + 1) /\ events'[i].kind \notin {"started", "runtime", "compacted", "final"}
         /\ \A i \in DOMAIN events :
              /\ i \in Nat /\ i > 0
              /\ i = 1 \/ (i > 1 /\ i - 1 \in DOMAIN events' /\ events'[i - 1] = events[i])
         /\ \A kind : Has(kind)' => Has(kind)
         /\ \A kind : kind # Head(events).kind => (Has(kind)' <=> Has(kind))
         /\ ~ Has("started")' /\ ~ Has("runtime")' /\ ~ Has("compacted")' /\ ~ Has("final")'
<1>1. /\ 1 \in DOMAIN events /\ Head(events) = events[1] /\ DOMAIN events = 1 .. Len(events)
      /\ Len(events) \in Nat /\ Len(events') = Len(events) - 1
      /\ \A i \in DOMAIN events' :
           /\ i \in Nat /\ i > 0 /\ i + 1 \in DOMAIN events /\ events'[i] = events[i + 1]
      /\ \A i \in DOMAIN events :
           /\ i \in Nat
           /\ i = 1 \/ (i > 1 /\ i - 1 \in DOMAIN events' /\ events'[i - 1] = events[i])
  BY Channels, Shortened
<1>2. \A i \in DOMAIN events : Ordered(i)
  BY DEF JInv, Order
<1>3. ASSUME NEW i \in DOMAIN events'
      PROVE  Ordered(i + 1) /\ events'[i].kind \notin {"started", "runtime", "compacted", "final"}
  <2>1. i \in Nat /\ i > 0 /\ Ordered(i + 1) /\ events'[i] = events[i + 1]
    BY <1>1, <1>2
  <2>2. i + 1 # 1
    BY <2>1
  <2> QED BY <2>1, <2>2 DEF Ordered
<1>4. Quiet => ~ Going
  BY DEF JInv, Sync
<1>5. ASSUME NEW kind PROVE Has(kind)' => Has(kind)
  BY <1>1 DEF Has
<1>6. ASSUME NEW kind, kind # Head(events).kind PROVE Has(kind) => Has(kind)'
  BY Zenon, <1>1, <1>6 DEF Has
<1>7. ~ Has("started")' /\ ~ Has("runtime")' /\ ~ Has("compacted")' /\ ~ Has("final")'
  BY <1>3 DEF Has
<1> QED BY <1>1, <1>2, <1>3, <1>4, <1>5, <1>6, <1>7

\* The events behind the first keep their order, if the session is in their round
\* and remembers what it forwarded.
LEMMA OrderBehind ==
  ASSUME IInv, JInv, events # <<>>, Up, events' = Tail(events), UNCHANGED <<engine, committed>>,
         \A i \in DOMAIN events' : events'[i].kind \in {"execute", "result"} =>
           session'.round = engine.round,
         \A i \in DOMAIN events' : events'[i].kind = "result" /\ ~ events'[i].interrupted =>
           events'[i].what \in session'.typed
  PROVE  Order'
<1> SUFFICES ASSUME NEW i \in DOMAIN events' PROVE Ordered(i)'
  BY Zenon DEF Order
<1>1. /\ Len(events) \in Nat /\ Len(events') = Len(events) - 1
      /\ \A j \in DOMAIN events' :
           /\ j \in Nat /\ j > 0 /\ j + 1 \in DOMAIN events /\ events'[j] = events[j + 1]
           /\ Ordered(j + 1) /\ events'[j].kind \notin {"started", "runtime", "compacted", "final"}
      /\ Has("execute")' => Has("execute")
  BY EventTaken
<1>2. /\ i \in Nat /\ i > 0 /\ i + 1 \in DOMAIN events /\ events'[i] = events[i + 1]
      /\ Ordered(i + 1) /\ events'[i].kind \notin {"started", "runtime", "compacted", "final"}
  BY <1>1
<1>3. events'[i].kind = "execute" => i = 1
  BY <1>2 DEF Ordered
<1>4. OnlyEnd(i + 1) => OnlyEnd(i)'
  BY <1>1, <1>2 DEF OnlyEnd
<1>5. events'[i].kind = "result" =>
        \A j \in DOMAIN events' : events'[j].kind = "result" /\ events'[j].what = events'[i].what => j = i
  <2> SUFFICES ASSUME events'[i].kind = "result", NEW j \in DOMAIN events',
                      events'[j].kind = "result", events'[j].what = events'[i].what
               PROVE  j = i
    OBVIOUS
  <2>1. j \in Nat /\ j + 1 \in DOMAIN events /\ events'[j] = events[j + 1]
    BY <1>1
  <2>2. j + 1 = i + 1
    BY <1>2, <2>1 DEF Ordered
  <2> QED BY <1>2, <2>1, <2>2
<1>6. events'[i].kind = "ended" => i = Len(events') /\ engine'.at = "ended"
  BY <1>1, <1>2 DEF Ordered
<1>7. events'[i].kind = "execute" => Ordered(i)'
  BY Zenon, <1>2, <1>3 DEF Ordered
<1>8. events'[i].kind = "result" => Ordered(i)'
  BY Zenon, <1>1, <1>2, <1>4, <1>5 DEF Ordered
<1> QED BY Zenon, <1>2, <1>6, <1>7, <1>8 DEF Ordered

\* The session enters the round that has begun.
LEMMA SeeStartedJInv ==
  ASSUME IInv, JInv, SeeStarted
  PROVE  JInv'
<1>1. /\ events # <<>> /\ Head(events).kind = "started" /\ Up /\ session \in SessionState
      /\ events' = Tail(events) /\ session' = [session EXCEPT !.round = Head(events).round]
      /\ UNCHANGED <<commands, engine, committed, barrier, running, results, task>>
  BY SessionFields DEF SeeStarted, NextEvent, Up, handle, stored
<1>2. /\ 1 \in DOMAIN events /\ Head(events) = events[1] /\ Ordered(1)
      /\ Quiet => ~ Going
      /\ Len(events) \in Nat /\ Len(events') = Len(events) - 1
      /\ \A i \in DOMAIN events' :
           /\ i \in Nat /\ i > 0 /\ i + 1 \in DOMAIN events /\ events'[i] = events[i + 1]
           /\ Ordered(i + 1) /\ events'[i].kind \notin {"started", "runtime", "compacted", "final"}
      /\ \A i \in DOMAIN events :
           /\ i \in Nat /\ i > 0
           /\ i = 1 \/ (i > 1 /\ i - 1 \in DOMAIN events' /\ events'[i - 1] = events[i])
      /\ \A kind : kind # "started" => (Has(kind)' <=> Has(kind))
      /\ ~ Has("started")' /\ ~ Has("runtime")' /\ ~ Has("compacted")' /\ ~ Has("final")'
  BY <1>1, EventTaken
<1>3. events[1].round = engine.round
  BY <1>1, <1>2 DEF Ordered
<1>4. /\ session'.round = engine.round /\ session'.state = session.state
      /\ session'.typed = session.typed /\ session'.calls = session.calls
      /\ session'.cutCalls = session.cutCalls /\ session'.ready = session.ready
      /\ session'.pending = session.pending /\ session'.ids = session.ids
  BY <1>1, <1>2, <1>3 DEF SessionState
<1>5. Up' = Up /\ Going' = Going /\ Quiet' = Quiet /\ Breaking' = Breaking /\ Uncut' = Uncut
  BY <1>1, <1>4 DEF Up, Going, Quiet, Breaking, Uncut, Flight
<1>6. Awaited'
  BY <1>1, <1>2, <1>4, <1>5 DEF JInv, Awaited
<1>7. Forwarded'
  <2> SUFFICES ASSUME Going, NEW c \in session.typed
               PROVE  \/ \E i \in DOMAIN commands : commands[i].kind = "result" /\ commands[i].what = c
                      \/ \E i \in DOMAIN events' : /\ events'[i].kind = "result" /\ events'[i].what = c
                                                   /\ ~ events'[i].interrupted
    BY <1>1, <1>4, <1>5 DEF Forwarded
  <2>1. ASSUME NEW i \in DOMAIN events, events[i].kind = "result"
        PROVE  i - 1 \in DOMAIN events' /\ events'[i - 1] = events[i]
    BY Zenon, <1>1, <1>2, <2>1
  <2> QED BY <1>1, <2>1 DEF JInv, Forwarded
<1>8. InFlight'
  BY <1>1, <1>2, <1>4, <1>5 DEF JInv, InFlight, Once
<1>9. Pending'
  BY <1>1, <1>2, <1>4, <1>5 DEF JInv, Pending
<1>10. Own' /\ Rounds'
  BY <1>1, <1>2, <1>4, <1>5 DEF JInv, Own, Rounds
<1>11. Order'
  BY <1>1, <1>2, <1>4, OrderBehind DEF Ordered
<1>12. Sync'
  BY <1>1, <1>2, <1>4, <1>5 DEF JInv, Sync
<1> QED BY <1>6, <1>7, <1>8, <1>9, <1>10, <1>11, <1>12 DEF JInv

\* The session starts the tools of the round, unless a break is under way.
LEMMA SeeExecuteJInv ==
  ASSUME IInv, JInv, NEW ready \in Orders, SeeExecute(ready)
  PROVE  JInv'
<1> DEFINE k == Head(events).round
           cs == Head(events).calls
           done == IF session.doneRound = k THEN session.done ELSE {}
           cut == k \in session.cutRounds \/ session.pending # {}
           dispatched == IF cut THEN {} ELSE cs \ done
           now == Range(ready)
<1>1. /\ events # <<>> /\ Head(events).kind = "execute" /\ Up /\ session \in SessionState
      /\ session.ready = <<>> /\ now \subseteq dispatched
      /\ events' = Tail(events) /\ running' = running \cup (dispatched \ now)
      /\ UNCHANGED <<commands, engine, committed, barrier, results, task>>
  BY SessionFields DEF SeeExecute, NextEvent, Up, handle, stored
<1>2. /\ 1 \in DOMAIN events /\ Head(events) = events[1] /\ Ordered(1)
      /\ Quiet => ~ Going
      /\ \A i \in DOMAIN events' :
           /\ i \in Nat /\ i > 0 /\ i + 1 \in DOMAIN events /\ events'[i] = events[i + 1]
           /\ Ordered(i + 1)
      /\ ~ Has("started")' /\ ~ Has("runtime")' /\ ~ Has("compacted")' /\ ~ Has("final")'
  BY <1>1, EventTaken
<1>3. k = engine.round /\ cs = engine.calls /\ session.round = engine.round
  BY Zenon, <1>1, <1>2 DEF Ordered
<1>4. /\ session'.state = session.state /\ session'.typed = session.typed
      /\ session'.pending = session.pending /\ session'.ids = session.ids
      /\ session'.round = engine.round /\ session'.calls = engine.calls
      /\ session'.ready = ready
      /\ session'.cutCalls = IF cut THEN session.cutCalls \cup cs ELSE session.cutCalls
  <2>1. session' = [session EXCEPT
          !.doneRound = k, !.done = done, !.round = k, !.calls = cs, !.ready = ready,
          !.cutRounds = IF cut THEN @ \cup {k} ELSE @,
          !.cutCalls = IF cut THEN @ \cup cs ELSE @]
    BY DEF SeeExecute
  <2> HIDE DEF k, cs, done, cut
  <2> QED BY <1>1, <1>3, <2>1 DEF SessionState
<1> HIDE DEF k, cs, done, now
<1>5. Range(session'.ready) = now /\ IsInjective(session'.ready)
  BY <1>4, OrderSet DEF now
<1>6. ~ Has("execute")' /\ Has("execute")
  <2>1. ASSUME NEW i \in DOMAIN events', events'[i].kind = "execute" PROVE FALSE
    <3>1. i \in Nat /\ i > 0 /\ events[i + 1].kind = "execute" /\ Ordered(i + 1)
      BY <1>2, <2>1
    <3>2. i + 1 # 1
      BY <3>1
    <3> QED BY Zenon, <1>1, <1>2, <3>1, <3>2 DEF Ordered
  <2> QED BY <1>1, <1>2, <2>1 DEF Has
<1>7. \A i \in DOMAIN commands : commands[i].kind # "result"
  BY Zenon, <1>1, <1>6 DEF JInv, Awaited
<1>8. Up' = Up /\ Going' = Going /\ Breaking' = Breaking /\ Quiet' = Quiet
  BY <1>1, <1>4 DEF Up, Going, Breaking, Quiet
<1>9. Going => session.typed = {}
  <2> SUFFICES ASSUME Going, NEW c \in session.typed PROVE FALSE
    OBVIOUS
  <2>1. PICK i \in DOMAIN events : events[i].kind = "result" /\ ~ events[i].interrupted
    BY Zenon, <1>1, <1>7 DEF JInv, Forwarded
  <2> QED BY Zenon, <1>1, <1>6, <2>1 DEF JInv, Order, Ordered
<1>10. Going => Uncut = {}
  BY <1>1, <1>6 DEF JInv, InFlight
<1>11. Going /\ Breaking # {} => cut
  <2> SUFFICES ASSUME Going, NEW d \in Breaking PROVE cut
    OBVIOUS
  <2>1. engine.at \in {"round", "cut", "await_settled"}
    BY <1>1, <1>6 DEF JInv, Pending
  <2>2. MessageOf[d] \in session.pending
    BY <1>1, <2>1 DEF JInv, Pending
  <2> QED BY <2>2
<1>12. Going /\ ~ cut => engine.at = "round" /\ committed = {}
  BY Zenon, <1>1, <1>6, <1>11 DEF JInv, Pending, Rounds
<1>13. cut => dispatched = {}
  OBVIOUS
<1>14. dispatched \subseteq engine.calls
  BY <1>3
<1> HIDE DEF cut, dispatched
<1>15. ASSUME Going, NEW c \in Uncut'
       PROVE  /\ c \in dispatched /\ ~ cut
              /\ c \notin running /\ c \notin Range(results)
  <2>1. c \notin session'.cutCalls /\ c \notin session.cutCalls
    BY <1>4 DEF Uncut
  <2>2. c \notin running /\ c \notin Range(results)
    BY <1>10, <1>15, <2>1 DEF Uncut, Flight
  <2>3. c \in dispatched
    BY Zenon, <1>1, <1>5, <1>15, <2>2 DEF Uncut, Flight
  <2> QED BY <1>13, <2>2, <2>3
<1>16. Awaited' /\ Forwarded'
  BY Zenon, <1>1, <1>4, <1>7, <1>8, <1>9 DEF Awaited, Forwarded
<1>17. InFlight'
  <2> SUFFICES ASSUME Going, NEW c \in Uncut'
               PROVE  /\ engine.at = "round" /\ c \in engine.calls \ committed
                      /\ c \in session'.calls \ session'.typed /\ Once(c)'
    BY Zenon, <1>1, <1>6, <1>8 DEF InFlight
  <2>1. c \in dispatched /\ ~ cut /\ c \notin running /\ c \notin Range(results)
    BY <1>15
  <2>2. Once(c)'
    <3>1. c \notin Range(results') /\ (c \in running' => c \notin Range(session'.ready))
      BY <1>1, <1>5, <2>1
    <3>2. \A i \in DOMAIN results' : results'[i] # c
      BY <3>1 DEF Range
    <3> QED BY <1>5, <3>1, <3>2 DEF Once, IsInjective
  <2> QED BY Zenon, <1>4, <1>9, <1>12, <1>14, <2>1, <2>2
<1>18. Pending'
  <2>1. Going /\ Breaking # {} => Uncut' = {}
    BY <1>11, <1>15
  <2> QED BY Zenon, <1>1, <1>4, <1>6, <1>8, <2>1 DEF JInv, Pending
<1>19. Own' /\ Rounds'
  BY Zenon, <1>1, <1>4, <1>6, <1>8 DEF JInv, Own, Rounds
<1>20. Order'
  <2>1. \A i \in DOMAIN events' : events'[i].kind = "result" /\ ~ events'[i].interrupted
          => events'[i].what \in session'.typed
    BY Zenon, <1>2, <1>4 DEF Ordered
  <2> QED BY Zenon, <1>1, <1>4, <2>1, OrderBehind
<1>21. Sync'
  BY Zenon, <1>1, <1>2, <1>4, <1>8 DEF JInv, Sync
<1> QED BY <1>16, <1>17, <1>18, <1>19, <1>20, <1>21 DEF JInv

\* Behind a commit with a barrier there is at most the end, and the engine waits.
LEMMA CommitSeen ==
  ASSUME IInv, JInv, Up, events # <<>>, events' = Tail(events),
         Head(events).kind \in {"runtime", "compacted", "final"},
         UNCHANGED <<commands, engine, committed, running, results, task>>,
         session'.state = session.state, session'.typed = session.typed,
         session'.round = session.round, session'.calls = session.calls,
         session'.cutCalls = session.cutCalls, session'.ready = session.ready,
         session'.ids = session.ids, barrier' = Complete("ok"), Pending'
  PROVE  JInv'
<1>1. /\ 1 \in DOMAIN events /\ Head(events) = events[1] /\ Ordered(1)
      /\ Quiet => ~ Going
      /\ Len(events) \in Nat /\ Len(events') = Len(events) - 1
      /\ \A i \in DOMAIN events' :
           /\ i \in Nat /\ i > 0 /\ i + 1 \in DOMAIN events /\ events'[i] = events[i + 1]
           /\ Ordered(i + 1)
      /\ \A i \in DOMAIN events :
           /\ i \in Nat /\ i > 0
           /\ i = 1 \/ (i > 1 /\ i - 1 \in DOMAIN events' /\ events'[i - 1] = events[i])
      /\ \A kind : kind # Head(events).kind => (Has(kind)' <=> Has(kind))
      /\ ~ Has("started")' /\ ~ Has("runtime")' /\ ~ Has("compacted")' /\ ~ Has("final")'
  BY Zenon, EventTaken
<1>2. session.round = 0 /\ \A i \in DOMAIN events' : events'[i].kind = "ended"
  BY <1>1 DEF Ordered, OnlyEnd
<1>3. Going => events' = <<>>
  <2> SUFFICES ASSUME Going PROVE events' = <<>>
    OBVIOUS
  <2>1. DOMAIN events' = {}
    BY <1>1, <1>2 DEF Ordered, Going
  <2>2. events' \in Seq(RunEvent)
    BY Zenon, Channels, TailSet
  <2> QED BY <2>1, <2>2, SeqEmpty
<1>4. Going => barrier' = "ok" /\ engine.at \in Awaiting
  <2> SUFFICES ASSUME Going PROVE barrier' = "ok" /\ engine.at \in Awaiting
    OBVIOUS
  <2>1. engine.at \in Awaiting
    BY <1>1 DEF JInv, Sync, Has, Awaiting
  <2>2. barrier = "open"
    BY <1>1, <2>1 DEF IInv, ChannelTypes, JInv, Sync, Quiet
  <2> QED BY <2>1, <2>2 DEF Complete
<1>5. Up' = Up /\ Going' = Going /\ Breaking' = Breaking /\ Uncut' = Uncut
  BY DEF Up, Going, Breaking, Uncut, Flight
<1>6. Awaited'
  BY <1>1, <1>5 DEF JInv, Awaited
<1>7. Forwarded'
  <2> SUFFICES ASSUME Going, NEW c \in session.typed PROVE FALSE
    BY Zenon, <1>5 DEF Forwarded
  <2>1. \A i \in DOMAIN commands : commands[i].kind # "result"
    BY <1>4 DEF JInv, Awaited, Awaiting
  <2>2. \A i \in DOMAIN events : events[i].kind # "result"
    BY Zenon, <1>1, <1>2
  <2> QED BY <2>1, <2>2 DEF JInv, Forwarded
<1>8. InFlight'
  <2>1. Going => Uncut = {}
    BY <1>4 DEF JInv, InFlight, Awaiting
  <2> QED BY <1>5, <2>1 DEF InFlight
<1>9. Own' /\ Rounds'
  BY Zenon, <1>1, <1>5 DEF JInv, Own, Rounds
<1>10. Order'
  BY Zenon, <1>1, <1>2, OrderBehind
<1>11. Sync'
  BY Zenon, <1>2, <1>3, <1>4, <1>5, SeqEmpty DEF Sync, Has, Awaiting
<1> QED BY Zenon, <1>6, <1>7, <1>8, <1>9, <1>10, <1>11 DEF JInv

\* A runtime message is in the history: it is not pending any more.
LEMMA SeeRuntimeJInv ==
  ASSUME OwnMessages, IInv, JInv, SeeRuntime
  PROVE  JInv'
<1>1. /\ events # <<>> /\ Head(events).kind = "runtime" /\ Up /\ session \in SessionState
      /\ events' = Tail(events)
      /\ session' = [session EXCEPT !.pending = session.pending \ {Head(events).what}]
      /\ barrier' = Complete(IF session.round = 0 THEN "ok" ELSE "lost")
      /\ UNCHANGED <<commands, engine, committed, running, results, task>>
  BY SessionFields DEF SeeRuntime, NextEvent, StillToDeliver, Up, handle, stored
<1>2. /\ 1 \in DOMAIN events /\ Head(events) = events[1] /\ Ordered(1) /\ Has("runtime")
      /\ ~ Has("execute")'
  <2>1. /\ 1 \in DOMAIN events /\ Head(events) = events[1] /\ Ordered(1)
        /\ \A i \in DOMAIN events' :
             i \in Nat /\ i > 0 /\ i + 1 \in DOMAIN events /\ events'[i] = events[i + 1]
    BY <1>1, EventTaken
  <2>2. \A i \in DOMAIN events' : events'[i].kind = "ended"
    BY <1>1, <2>1 DEF Ordered, OnlyEnd
  <2> QED BY <1>1, <2>1, <2>2 DEF Has
<1>3. session.round = 0 /\ barrier' = Complete("ok")
  BY <1>1, <1>2 DEF Ordered
<1>4. /\ session'.pending = session.pending \ {Head(events).what}
      /\ session'.state = session.state /\ session'.typed = session.typed
      /\ session'.round = session.round /\ session'.calls = session.calls
      /\ session'.cutCalls = session.cutCalls /\ session'.ready = session.ready
      /\ session'.ids = session.ids
  BY <1>1 DEF SessionState
<1>5. Up' = Up /\ Going' = Going /\ Breaking' = Breaking /\ Uncut' = Uncut
  BY <1>1, <1>4 DEF Up, Going, Breaking, Uncut, Flight
<1>6. ASSUME Going PROVE Pending'
  <2>1. /\ engine.at = "await_append" /\ barrier = "open"
        /\ Head(events).what = MessageOf[Head(engine.todo)]
    BY <1>1, <1>2, <1>6 DEF JInv, Sync
  <2>2. barrier' = "ok"
    BY <1>3, <2>1 DEF Complete
  <2>3. Head(engine.todo) \in Delivery /\ task[Head(engine.todo)] = "sent"
    <3>1. engine.todo \in Seq(Delivery) /\ engine.todo # <<>>
      BY <2>1 DEF IInv, EngineTypes, EngineState, Phases
    <3>2. Head(engine.todo) \in Delivery /\ Head(engine.todo) \in Range(engine.todo)
      BY <3>1, TailSet
    <3> QED BY Zenon, <3>2 DEF IInv, Placed
  <2>4. ASSUME NEW d \in Breaking PROVE MessageOf[d] \in session'.pending \/ d = Head(engine.todo)
    <3>1. MessageOf[d] \in session.pending /\ d \in Delivery /\ Path[d] # "background"
      BY <1>1, <1>6, <2>1 DEF JInv, Pending, Breaking
    <3>2. MessageOf[d] = MessageOf[Head(engine.todo)] => d = Head(engine.todo)
      <4> SUFFICES ASSUME MessageOf[d] = MessageOf[Head(engine.todo)], d # Head(engine.todo)
                   PROVE  FALSE
        OBVIOUS
      <4>1. Path[Head(engine.todo)] = "inject"
        BY <2>3, <3>1 DEF OwnMessages
      <4>2. Head(engine.todo) \in Breaking
        BY <2>3, <4>1 DEF Breaking
      <4> QED BY <4>2 DEF JInv, Own
    <3> QED BY <1>4, <2>1, <3>1, <3>2
  <2> QED BY <1>1, <1>2, <1>5, <2>1, <2>2, <2>4 DEF JInv, Pending
<1>7. Pending'
  BY <1>5, <1>6 DEF Pending
<1> QED BY <1>1, <1>3, <1>4, <1>7, CommitSeen

\* A compaction or the final checkpoint reaches the session.
LEMMA SeeCheckpointJInv ==
  ASSUME IInv, JInv, SeeCheckpoint
  PROVE  JInv'
<1>1. /\ events # <<>> /\ Head(events).kind \in {"compacted", "final"} /\ Up
      /\ events' = Tail(events) /\ barrier' = Complete("ok")
      /\ UNCHANGED <<commands, engine, committed, session, running, results, task>>
  BY DEF SeeCheckpoint, NextEvent, Up, handle, stored, client
<1>2. Has("execute")' => Has("execute")
  BY <1>1, EventTaken
<1>3. Up' = Up /\ Going' = Going /\ Breaking' = Breaking /\ Uncut' = Uncut
  BY <1>1 DEF Up, Going, Breaking, Uncut, Flight
<1>4. barrier = "ok" => barrier' = "ok"
  BY <1>1 DEF Complete
<1>5. Pending'
  BY <1>1, <1>2, <1>3, <1>4 DEF JInv, Pending
<1> QED BY <1>1, <1>5, CommitSeen

\* A result comes back to the session: it is not typed any more, and the last one
\* ends the round.
LEMMA SeeResultJInv ==
  ASSUME IInv, JInv, SeeResult
  PROVE  JInv'
<1> PICK e : e = Head(events)
  OBVIOUS
<1> DEFINE left == IF e.interrupted THEN session.typed ELSE session.typed \ {e.what}
<1>1. /\ events # <<>> /\ Head(events).kind = "result" /\ Up /\ session \in SessionState
      /\ e = events[1] /\ e.kind = "result"
  <2>1. events # <<>> /\ Head(events).kind = "result" /\ Up /\ session \in SessionState
    BY SessionFields DEF SeeResult, NextEvent, Up
  <2>2. Head(events) = events[1]
    BY <2>1, Channels, Shortened
  <2> QED BY <2>1, <2>2
<1>2. CASE SessionFails
  BY <1>2, SessionEndsJInv
<1>3. CASE ~ SessionFails
  <2>1. /\ events' = Tail(events) /\ ~ (StoredSettled /\ ~ e.barrier)
        /\ UNCHANGED <<commands, engine, committed, running, results, task>>
    BY <1>3 DEF SeeResult, handle, stored
  <2>2. /\ 1 \in DOMAIN events /\ Head(events) = events[1] /\ Ordered(1)
        /\ Quiet => ~ Going
        /\ Len(events) \in Nat /\ Len(events') = Len(events) - 1
        /\ \A i \in DOMAIN events' :
             /\ i \in Nat /\ i > 0 /\ i + 1 \in DOMAIN events /\ events'[i] = events[i + 1]
             /\ Ordered(i + 1)
        /\ \A i \in DOMAIN events :
             /\ i \in Nat /\ i > 0
             /\ i = 1 \/ (i > 1 /\ i - 1 \in DOMAIN events' /\ events'[i - 1] = events[i])
        /\ \A kind : kind # Head(events).kind => (Has(kind)' <=> Has(kind))
        /\ ~ Has("started")' /\ ~ Has("runtime")' /\ ~ Has("compacted")' /\ ~ Has("final")'
    BY <1>1, <2>1, EventTaken
  <2>3. /\ e.what \in committed /\ session.round = engine.round /\ engine.round # 0
        /\ e.interrupted \/ (e.what \in session.typed /\ ~ Has("execute"))
        /\ \A j \in DOMAIN events : events[j].kind = "result" /\ events[j].what = e.what => j = 1
        /\ e.barrier => committed = engine.calls /\ OnlyEnd(1)
    BY Zenon, <1>1, <2>2 DEF Ordered
  <2>4. Has("execute")' <=> Has("execute")
    BY <1>1, <2>2
  <2>5. /\ session'.typed = left /\ session'.state = session.state
        /\ session'.cutCalls = session.cutCalls /\ session'.ready = session.ready
        /\ session'.pending = session.pending /\ session'.ids = session.ids
        /\ \/ /\ StoredSettled /\ e.barrier /\ session'.round = 0 /\ session'.calls = {}
              /\ barrier' = Complete("ok")
           \/ /\ ~ StoredSettled /\ session'.round = session.round /\ session'.calls = session.calls
              /\ barrier' = barrier
    <3> DEFINE seen == [session EXCEPT !.typed = IF e.interrupted THEN @ ELSE @ \ {e.what},
                                       !.done = @ \cup {e.what}]
    <3>1. \/ /\ StoredSettled /\ e.barrier /\ barrier' = Complete("ok")
             /\ session' = [seen EXCEPT !.cutRounds = @ \ {session.round}, !.round = 0, !.calls = {}]
          \/ ~ StoredSettled /\ session' = seen /\ barrier' = barrier
      BY <1>3, <2>1 DEF SeeResult
    <3>2. /\ seen.typed = left /\ seen.state = session.state
          /\ seen.cutCalls = session.cutCalls /\ seen.ready = session.ready
          /\ seen.pending = session.pending /\ seen.ids = session.ids
          /\ seen.round = session.round /\ seen.calls = session.calls
          /\ DOMAIN seen = DOMAIN session
      BY <1>1 DEF SessionState
    <3> HIDE DEF seen, left
    <3>3. DOMAIN session = {"state", "pending", "ids", "round", "calls", "cutRounds", "cutCalls",
                            "typed", "done", "doneRound", "ready"}
      BY <1>1 DEF SessionState
    <3> QED BY Zenon, <3>1, <3>2, <3>3
  <2>6. Up' = Up /\ Going' = Going /\ Breaking' = Breaking /\ Uncut' = Uncut
    BY <2>1, <2>5 DEF Up, Going, Breaking, Uncut, Flight
  <2>7. left \subseteq session.typed /\ \A c \in session.typed : c \in left \/ (c = e.what /\ ~ e.interrupted)
    OBVIOUS
  <2>8. StoredSettled <=> committed = engine.calls
    BY <2>3 DEF StoredSettled, IInv, EngineTypes, EngineState
  <2> HIDE DEF left
  <2>9. \A i \in DOMAIN events' : events'[i].kind = "result" => events'[i].what # e.what
    BY <2>2, <2>3
  <2>10. Awaited'
    <3> SUFFICES ASSUME NEW i \in DOMAIN commands, commands[i].kind = "result"
                 PROVE  commands[i].what \in left
      BY <2>1, <2>4, <2>5, <2>6 DEF JInv, Awaited
    <3> QED BY <1>1, <2>3, <2>7 DEF JInv, Awaited
  <2>11. Forwarded'
    <3> SUFFICES ASSUME Going, NEW c \in left
                 PROVE  \/ \E i \in DOMAIN commands : commands[i].kind = "result" /\ commands[i].what = c
                        \/ \E i \in DOMAIN events' : /\ events'[i].kind = "result" /\ events'[i].what = c
                                                     /\ ~ events'[i].interrupted
      BY <2>1, <2>5, <2>6 DEF Forwarded
    <3>1. ASSUME NEW i \in DOMAIN events, events[i].kind = "result", events[i].what = c,
                 ~ events[i].interrupted
          PROVE  i - 1 \in DOMAIN events' /\ events'[i - 1] = events[i]
      <4>1. i # 1
        BY <1>1, <3>1 DEF left
      <4> QED BY <2>2, <4>1
    <3> QED BY <1>1, <2>7, <3>1 DEF JInv, Forwarded
  <2>12. InFlight'
    <3>1. ASSUME Going, NEW c \in Uncut PROVE session'.calls = session.calls
      <4>1. c \in engine.calls \ committed
        BY <1>1, <3>1 DEF JInv, InFlight
      <4> QED BY <2>5, <2>8, <4>1
    <3> QED BY <2>1, <2>4, <2>5, <2>6, <2>7, <3>1 DEF JInv, InFlight, Once
  <2>13. Pending'
    <3>1. barrier = "ok" => barrier' = "ok"
      BY <2>5 DEF Complete
    <3> QED BY Zenon, <2>1, <2>4, <2>5, <2>6, <3>1 DEF JInv, Pending
  <2>14. Own' /\ Rounds'
    BY Zenon, <2>1, <2>4, <2>5, <2>6 DEF JInv, Own, Rounds
  <2>15. e.barrier /\ StoredSettled => \A i \in DOMAIN events' : events'[i].kind = "ended"
    BY <2>2, <2>3 DEF OnlyEnd
  <2>16. Order'
    <3>1. \A i \in DOMAIN events' : events'[i].kind \in {"execute", "result"} =>
            session'.round = engine.round
      BY <2>3, <2>5, <2>15
    <3>2. \A i \in DOMAIN events' : events'[i].kind = "result" /\ ~ events'[i].interrupted =>
            events'[i].what \in session'.typed
      BY <2>2, <2>5, <2>7, <2>9 DEF Ordered
    <3> QED BY <1>1, <2>1, <3>1, <3>2, OrderBehind
  <2>17. ASSUME Going PROVE Sync'
    <3>1. CASE ~ StoredSettled
      <4>1. Quiet' = Quiet /\ barrier' = barrier /\ session'.round = session.round
        BY Zenon, <2>1, <2>5, <3>1 DEF Quiet
      <4> QED BY Zenon, <2>1, <2>2, <2>3, <2>6, <4>1, <1>1, <2>17 DEF JInv, Sync
    <3>2. CASE StoredSettled
      <4>1. engine.at \in Awaiting /\ barrier = "open"
        <5>1. engine.at \notin {"round", "cut"}
          BY <2>8, <3>2 DEF JInv, Rounds
        <5>2. engine.at \in Step
          BY DEF IInv, EngineTypes, EngineState
        <5>3. engine.at \in Awaiting
          BY <2>2, <2>17, <5>1, <5>2 DEF Quiet, Step, Listening, Going
        <5> QED BY <1>1, <2>2, <2>17, <5>3 DEF IInv, ChannelTypes, JInv, Sync, Quiet
      <4>2. events' = <<>>
        <5>1. DOMAIN events' = {}
          BY <2>2, <2>5, <2>15, <2>17, <3>2 DEF Ordered, Going
        <5>2. events' \in Seq(RunEvent)
          BY <1>1, <2>1, Channels, TailSet
        <5> QED BY <5>1, <5>2, SeqEmpty
      <4>3. barrier' = "ok" /\ session'.round = 0
        BY <2>5, <3>2, <4>1 DEF Complete
      <4> QED BY <2>1, <2>2, <4>1, <4>2, <4>3 DEF Sync, Awaiting
    <3> QED BY <3>1, <3>2
  <2>18. Sync'
    BY <2>6, <2>17 DEF Sync
  <2> QED BY <2>10, <2>11, <2>12, <2>13, <2>14, <2>16, <2>18 DEF JInv
<1> QED BY <1>2, <1>3

=============================================================================
