-------------------------- MODULE TransportProofs --------------------------
(* Proofs about Transport for any number of appends, of whatever kinds, and *)
(* any finite number of streams.                                           *)
EXTENDS Transport, SequenceTheorems, FiniteSetTheorems, TLAPS

Queued(p) == \E i \in DOMAIN queue : queue[i].cmd = "append" /\ queue[i].post = p

\* Where an append is that was admitted and not handled yet: its call holds the
\* admission, or its command is in the queue.  A lifecycle that is closed admits
\* no more.
Accounted ==
  /\ \A p \in Post : post[p] = "admitted" => p \in admitted
  /\ \A p \in Post : post[p] = "sent" => Queued(p)
  /\ actor.at = "drained" => lifecycle = "Closed"

\* TypeOK, by the parts that change together.
CallTypes ==
  /\ lifecycle \in {"Open", "Closing", "Draining", "Closed"}
  /\ admitted \subseteq Post
  /\ post \in [Post -> {"idle", "admitted", "sent", "handled", "refused"}]
  /\ queue \in Seq(Command)
  /\ notices \subseteq Nat /\ shutdown \in BOOLEAN

ActorState(n) == [at : {"up", "disconnecting", "disconnected", "drained"},
                  current : 0 .. n, pending : [gen : 0 .. n, finish : Finish],
                  draining : BOOLEAN, waiting : BOOLEAN]
ActorTypes == gens \in Seq(RunGeneration) /\ actor \in ActorState(Len(gens))

\* Only a stream that is open holds a lease.
StreamState == [state : {"new", "subscribed", "open", "ended", "dropped"},
                acquired : BOOLEAN, late : BOOLEAN]
HubState == [closed : BOOLEAN, terminal : Finish, active : Nat, epoch : Nat, sealed : BOOLEAN]
Streams ==
  /\ hub \in HubState /\ stream \in [Stream -> StreamState]
  /\ hub.active = Cardinality(Guards)
  /\ \A s \in Guards : stream[s].state = "open"

\* The inductive invariant.
IInv ==
  /\ CallTypes /\ ActorTypes /\ Streams
  /\ Accounted /\ AdmittedIsHandled /\ SealedHasNoReader

\* The parts give the type invariant back.
LEMMA IInvTypeOK == IInv => TypeOK
  BY Zenon DEF IInv, TypeOK, CallTypes, ActorTypes, ActorState, Streams, StreamState, HubState

-----------------------------------------------------------------------------
(* The queue. *)

\* A command that is sent leaves what is queued in its place.
LEMMA QueueGrows ==
  ASSUME TypeOK, NEW c \in Command, queue' = Append(queue, c)
  PROVE  /\ queue' \in Seq(Command)
         /\ \A p : Queued(p) => Queued(p)'
         /\ \A p : c.cmd = "append" /\ c.post = p => Queued(p)'
<1>1. queue \in Seq(Command)
  BY Zenon DEF TypeOK
<1>2. /\ queue' \in Seq(Command) /\ Len(queue') = Len(queue) + 1
      /\ \A i \in 1 .. Len(queue) : queue'[i] = queue[i]
      /\ queue'[Len(queue) + 1] = c
  BY <1>1, AppendProperties
<1>3. /\ DOMAIN queue = 1 .. Len(queue) /\ DOMAIN queue' = 1 .. Len(queue')
      /\ Len(queue) \in Nat
  BY Zenon, <1>1, <1>2, LenProperties
<1>4. \A p : Queued(p) => Queued(p)'
  BY <1>2, <1>3 DEF Queued
<1>5. Len(queue) + 1 \in DOMAIN queue'
  BY <1>2, <1>3
<1>6. \A p : c.cmd = "append" /\ c.post = p => Queued(p)'
  BY Zenon, <1>2, <1>5 DEF Queued
<1> QED BY Zenon, <1>2, <1>4, <1>6

\* A command that is taken was the head, and the others stay.
LEMMA QueueShrinks ==
  ASSUME TypeOK, NEW cmd, Take(cmd)
  PROVE  /\ queue' \in Seq(Command)
         /\ Head(queue) \in Command /\ Head(queue).cmd = cmd
         /\ \A p : Queued(p) /\ ~ (cmd = "append" /\ Head(queue).post = p) => Queued(p)'
<1>1. queue \in Seq(Command) /\ queue # <<>> /\ queue' = Tail(queue) /\ Head(queue).cmd = cmd
  BY Zenon DEF TypeOK, Take
<1>2. /\ Head(queue) \in Command /\ queue' \in Seq(Command)
      /\ Len(queue') = Len(queue) - 1
      /\ \A i \in 1 .. Len(queue') : queue'[i] = queue[i + 1]
  BY Zenon, <1>1, HeadTailProperties
<1>3. /\ DOMAIN queue = 1 .. Len(queue) /\ DOMAIN queue' = 1 .. Len(queue')
      /\ Len(queue) \in Nat /\ Head(queue) = queue[1]
  BY <1>1, <1>2, LenProperties
<1>4. ASSUME NEW p, Queued(p), ~ (cmd = "append" /\ Head(queue).post = p)
      PROVE  Queued(p)'
  <2>1. PICK i \in DOMAIN queue : queue[i].cmd = "append" /\ queue[i].post = p
    BY Zenon, <1>4 DEF Queued
  <2>2. i # 1
    BY Zenon, <1>1, <1>3, <1>4, <2>1
  <2>3. i - 1 \in DOMAIN queue' /\ queue'[i - 1] = queue[i]
    BY <1>2, <1>3, <2>1, <2>2
  <2> QED BY Zenon, <2>1, <2>3 DEF Queued
<1> QED BY Zenon, <1>1, <1>2, <1>4

-----------------------------------------------------------------------------
(* The generations. *)

\* Replacing a generation keeps the sequence and its length.
LEMMA GenReplaced ==
  ASSUME NEW gs \in Seq(RunGeneration), NEW g \in DOMAIN gs, NEW x \in RunGeneration
  PROVE  [gs EXCEPT ![g] = x] \in Seq(RunGeneration) /\ Len([gs EXCEPT ![g] = x]) = Len(gs)
<1>1. g \in 1 .. Len(gs)
  BY Zenon, LenProperties
<1> HIDE DEF RunGeneration
<1> QED BY Zenon, <1>1, ExceptSeq

\* So does marking a generation superseded.
LEMMA SupersedingKeeps ==
  ASSUME TypeOK, NEW g \in 0 .. Len(gens)
  PROVE  /\ Superseding(gens, g) \in Seq(RunGeneration)
         /\ Len(Superseding(gens, g)) = Len(gens)
<1>1. gens \in Seq(RunGeneration) /\ Len(gens) \in Nat /\ DOMAIN gens = 1 .. Len(gens)
  BY Zenon, LenProperties DEF TypeOK
<1>2. CASE g = 0
  BY Zenon, <1>1, <1>2 DEF Superseding
<1>3. CASE g # 0
  <2> DEFINE x == [gens[g] EXCEPT !.superseded = TRUE]
  <2>1. g \in DOMAIN gens /\ gens[g] \in RunGeneration
    BY <1>1, <1>3, ElementOfSeq
  <2>2. x \in RunGeneration
    BY Zenon, <2>1 DEF RunGeneration
  <2>3. Superseding(gens, g) = [gens EXCEPT ![g] = x]
    BY Zenon, <1>3 DEF Superseding
  <2> HIDE DEF x
  <2> QED BY <1>1, <2>1, <2>2, <2>3, GenReplaced
<1> QED BY Zenon, <1>2, <1>3

\* A new generation gets the next index.
LEMMA NextGenerationAdds ==
  ASSUME TypeOK, NextGeneration
  PROVE  gens' \in Seq(RunGeneration) /\ Len(gens') = Len(gens) + 1
<1> DEFINE new == [state |-> "preparing", superseded |-> FALSE, cancelled |-> FALSE,
                   finish |-> "none"]
           old == Superseding(gens, actor.current)
<1>1. new \in RunGeneration
  BY Zenon DEF RunGeneration, Finish
<1>2. old \in Seq(RunGeneration) /\ Len(old) = Len(gens)
  BY Zenon, SupersedingKeeps DEF TypeOK
<1>3. gens' = Append(old, new)
  BY Zenon DEF NextGeneration
<1> HIDE DEF new, old
<1> QED BY <1>1, <1>2, <1>3, AppendProperties

\* A step of a generation's task keeps the sequence and its length.
LEMMA GenerationKeeps ==
  ASSUME TypeOK, NEW g \in DOMAIN gens, Generation(g)
  PROVE  gens' \in Seq(RunGeneration) /\ Len(gens') = Len(gens)
<1>1. gens \in Seq(RunGeneration) /\ gens[g] \in RunGeneration
  BY ElementOfSeq, LenProperties DEF TypeOK
<1>2. \E st \in {"running", "closing", "released", "finished"}, fi \in Finish :
        gens' = [gens EXCEPT ![g] = [gens[g] EXCEPT !.state = st, !.finish = fi]]
  <2>1. gens[g] = [gens[g] EXCEPT !.finish = gens[g].finish] /\ gens[g].finish \in Finish
    BY Zenon, <1>1 DEF RunGeneration
  <2>2. ASSUME NEW st \in {"running", "closing", "finished"},
               gens' = [gens EXCEPT ![g].state = st]
        PROVE  <1>2!(st, gens[g].finish)
    BY Zenon, <1>1, <2>1, <2>2 DEF RunGeneration
  <2>3. CASE Prepare(g)
    BY Zenon, <2>1, <2>2, <2>3 DEF Prepare, SetGen, Report
  <2>4. CASE GiveUp(g)
    BY Zenon, <2>1, <2>2, <2>4 DEF GiveUp, Report
  <2>5. CASE ChangePhase(g)
    BY Zenon, <2>1, <2>2, <2>5 DEF ChangePhase, SetGen
  <2>6. CASE Release(g)
    <3>1. PICK fi \in {"turn", "failed", "cancelled"} :
            gens' = [gens EXCEPT ![g].state = "released", ![g].finish = fi]
      BY Zenon, <2>6 DEF Release
    <3> QED BY Zenon, <1>1, <3>1 DEF RunGeneration, Finish
  <2>7. CASE ReportEnd(g)
    BY Zenon, <2>1, <2>2, <2>7 DEF ReportEnd, Report
  <2> QED BY Zenon, <2>3, <2>4, <2>5, <2>6, <2>7 DEF Generation
<1>3. PICK x \in RunGeneration : gens' = [gens EXCEPT ![g] = x]
  BY Zenon, <1>1, <1>2 DEF RunGeneration
<1> QED BY Zenon, <1>1, <1>3, GenReplaced

-----------------------------------------------------------------------------
(* The streams. *)

\* The number of leases after a stream took one, or gave one back.
LEMMA GuardCounts ==
  ASSUME Streams, NEW s \in Stream
  PROVE  /\ Cardinality(Guards) = hub.active
         /\ s \notin Guards => Cardinality(Guards \cup {s}) = hub.active + 1
         /\ s \in Guards => hub.active > 0 /\ Cardinality(Guards \ {s}) = hub.active - 1
<1>1. IsFiniteSet(Guards)
  BY Zenon, TransportAssumption, FS_Subset DEF Guards
<1>2. hub.active = Cardinality(Guards) /\ hub.active \in Nat
  BY Zenon DEF Streams, HubState
<1> HIDE DEF Guards
<1>3. s \in Guards => hub.active > 0
  <2>1. s \in Guards => hub.active # 0
    BY Zenon, <1>1, <1>2, FS_EmptySet
  <2> QED BY <1>2, <2>1
<1>4. s \notin Guards => Cardinality(Guards \cup {s}) = hub.active + 1
  BY Zenon, <1>1, <1>2, FS_AddElement
<1>5. s \in Guards => Cardinality(Guards \ {s}) = hub.active - 1
  BY Zenon, <1>1, <1>2, FS_RemoveElement
<1> QED BY Zenon, <1>2, <1>3, <1>4, <1>5

\* Streams that come and go keep the count, and a sealed hub takes no more.
LEMMA ReaderKeeps ==
  ASSUME Streams, SealedHasNoReader, notices \subseteq Nat, NEW s \in Stream, Reader(s)
  PROVE  Streams' /\ SealedHasNoReader' /\ notices' \subseteq Nat
<1>1. /\ stream \in [Stream -> StreamState] /\ stream[s] \in StreamState /\ hub \in HubState
      /\ hub.active \in Nat /\ hub.epoch \in Nat
  BY Zenon DEF Streams, HubState
<1>2. s \in Guards <=> stream[s].acquired
  BY Zenon DEF Guards
<1>3. CASE Subscribe(s)
  <2>1. stream' \in [Stream -> StreamState]
    BY Zenon, <1>1, <1>3 DEF Subscribe, StreamState, HubState
  <2>2. \A t \in Stream : stream'[t].acquired = stream[t].acquired
    BY Zenon, <1>1, <1>3 DEF Subscribe, StreamState
  <2>open. \A t \in Guards' : stream'[t].state = "open"
    BY Zenon, <1>1, <1>3 DEF Subscribe, StreamState, Streams, Guards
  <2>3. Guards' = Guards /\ hub' = hub /\ notices' = notices
    BY Zenon, <1>3, <2>2 DEF Guards, Subscribe
  <2> QED BY Zenon, <2>1, <2>3, <2>open, GuardCounts DEF Streams, SealedHasNoReader
<1>4. CASE Acquire(s) /\ (hub.closed \/ hub.sealed)
  <2>1. stream' \in [Stream -> StreamState]
    BY <1>1, <1>4 DEF Acquire, StreamState
  <2>2. \A t \in Stream : stream'[t].acquired = stream[t].acquired
    BY <1>1, <1>4 DEF Acquire, StreamState
  <2>open. \A t \in Guards' : stream'[t].state = "open"
    BY <1>1, <1>4 DEF Acquire, StreamState, Streams, Guards
  <2>3. Guards' = Guards /\ hub' = hub /\ notices' = notices
    BY Zenon, <1>4, <2>2 DEF Guards, Acquire
  <2> QED BY <2>1, <2>3, <2>open, GuardCounts DEF Streams, SealedHasNoReader
<1>5. CASE Acquire(s) /\ ~ (hub.closed \/ hub.sealed)
  <2>1. stream' \in [Stream -> StreamState]
    BY <1>1, <1>5 DEF Acquire, StreamState
  <2>2. \A t \in Stream : stream'[t].acquired <=> stream[t].acquired \/ t = s
    BY <1>1, <1>5 DEF Acquire, StreamState
  <2>open. \A t \in Guards' : stream'[t].state = "open"
    BY <1>1, <1>5 DEF Acquire, StreamState, Streams, Guards
  <2>3. Guards' = Guards \cup {s}
    BY Zenon, <2>2 DEF Guards
  <2> DEFINE a == hub.active + 1
             e == hub.epoch + 1
  <2>4. hub' = [hub EXCEPT !.active = a, !.epoch = e] /\ notices' = notices /\ a \in Nat /\ e \in Nat
    BY <1>1, <1>5 DEF Acquire
  <2> HIDE DEF a, e
  <2>8. hub' \in HubState
    BY Zenon, <1>1, <2>4 DEF HubState
  <2>9. hub'.active = a /\ hub'.sealed = hub.sealed
    BY Zenon, <1>1, <2>4 DEF HubState
  <2>6. hub' \in HubState /\ hub'.active = hub.active + 1 /\ hub'.sealed = hub.sealed
    BY Zenon, <2>8, <2>9 DEF a
  <2>7. ~ hub'.sealed
    BY Zenon, <1>5, <2>6
  <2>5. s \notin Guards
    BY Zenon, <1>5 DEF Acquire, Streams
  <2> QED BY Zenon, <2>1, <2>3, <2>4, <2>5, <2>6, <2>7, <2>open, GuardCounts DEF Streams, SealedHasNoReader
<1>6. CASE (EndStream(s) \/ DropStream(s)) /\ stream[s].acquired
  <2>1. stream' \in [Stream -> StreamState]
    BY <1>1, <1>6 DEF EndStream, DropStream, StreamState
  <2>2. \A t \in Stream : stream'[t].acquired <=> stream[t].acquired /\ t # s
    BY <1>1, <1>6 DEF EndStream, DropStream, StreamState
  <2>open. \A t \in Guards' : stream'[t].state = "open"
    BY <1>1, <1>6 DEF EndStream, DropStream, StreamState, Streams, Guards
  <2>3. Guards' = Guards \ {s}
    BY Zenon, <2>2 DEF Guards
  <2>4. hub.active > 0 /\ s \in Guards
    BY Zenon, <1>2, <1>6, GuardCounts
  <2>5. /\ hub' \in HubState /\ hub'.active = hub.active - 1 /\ hub'.sealed = hub.sealed
    BY <1>1, <1>6, <2>4 DEF EndStream, DropStream, HubState
  <2>6. notices' \subseteq Nat
    BY Zenon, <1>1, <1>6 DEF EndStream, DropStream
  <2> QED BY <1>1, <2>1, <2>3, <2>4, <2>5, <2>6, <2>open, GuardCounts DEF Streams, SealedHasNoReader
<1>7. CASE (EndStream(s) \/ DropStream(s)) /\ ~ stream[s].acquired
  <2>1. stream' \in [Stream -> StreamState]
    BY <1>1, <1>7 DEF EndStream, DropStream, StreamState
  <2>2. \A t \in Stream : stream'[t].acquired <=> stream[t].acquired
    BY <1>1, <1>7 DEF EndStream, DropStream, StreamState
  <2>open. \A t \in Guards' : stream'[t].state = "open"
    BY <1>1, <1>7 DEF EndStream, DropStream, StreamState, Streams, Guards
  <2>3. Guards' = Guards
    BY Zenon, <2>2 DEF Guards
  <2>4. hub' \in HubState /\ hub'.active = hub.active /\ hub'.sealed = hub.sealed
    BY Zenon, <1>1, <1>7 DEF EndStream, DropStream, HubState
  <2>5. notices' = notices
    BY Zenon, <1>7 DEF EndStream, DropStream
  <2> QED BY Zenon, <2>1, <2>3, <2>4, <2>5, <2>open, GuardCounts DEF Streams, SealedHasNoReader
<1> QED BY Zenon, <1>3, <1>4, <1>5, <1>6, <1>7 DEF Reader

-----------------------------------------------------------------------------
(* Appends. *)

\* A step that neither handles an append nor lets the actor leave.
LEMMA AccountedKept ==
  ASSUME IInv, post' = post, admitted' = admitted, \A p : Queued(p) => Queued(p)',
         actor'.at = "drained" => actor.at = "drained" /\ lifecycle' = lifecycle
  PROVE  Accounted' /\ AdmittedIsHandled'
<1>1. Accounted'
  BY Zenon DEF IInv, Accounted
<1>2. AdmittedIsHandled'
  BY Zenon DEF IInv, AdmittedIsHandled
<1> QED BY Zenon, <1>1, <1>2

\* The actor handles the append at the head of the queue.
LEMMA AppendHandled ==
  ASSUME IInv, Take("append"), Handled, actor'.at = actor.at
  PROVE  /\ admitted' \subseteq Post
         /\ post' \in [Post -> {"idle", "admitted", "sent", "handled", "refused"}]
         /\ queue' \in Seq(Command)
         /\ Accounted' /\ AdmittedIsHandled'
<1> DEFINE h == Head(queue).post
<1>1. TypeOK /\ CallTypes /\ Accounted
  BY Zenon, IInvTypeOK DEF IInv
<1>2. /\ queue' \in Seq(Command) /\ Head(queue) \in Command /\ Head(queue).cmd = "append"
      /\ \A p : Queued(p) /\ h # p => Queued(p)'
  BY Zenon, <1>1, QueueShrinks
<1>3. h \in Post
  BY Zenon, <1>2 DEF Command
<1>4. actor.at = "up" /\ admitted' = admitted /\ post' = [post EXCEPT ![h] = "handled"]
  BY Zenon DEF Take, Handled
<1> HIDE DEF h
<1>5. post' \in [Post -> {"idle", "admitted", "sent", "handled", "refused"}]
  BY Zenon, <1>1, <1>3, <1>4 DEF CallTypes
<1>6. \A p \in Post : post'[p] = IF p = h THEN "handled" ELSE post[p]
  BY Zenon, <1>1, <1>4 DEF CallTypes
<1>7. Accounted'
  BY <1>1, <1>2, <1>4, <1>6 DEF Accounted
<1>8. AdmittedIsHandled'
  BY Zenon, <1>4 DEF AdmittedIsHandled
<1> QED BY Zenon, <1>1, <1>2, <1>4, <1>5, <1>7, <1>8 DEF CallTypes

\* The steps of the append endpoint.
LEMMA CallKeeps ==
  ASSUME IInv, NEW p \in Post, Call(p)
  PROVE  CallTypes' /\ Accounted' /\ AdmittedIsHandled'
<1>1. TypeOK /\ CallTypes /\ Accounted /\ AdmittedIsHandled
  BY Zenon, IInvTypeOK DEF IInv
<1>2. CASE Admit(p)
  <2>1. CallTypes'
    BY <1>1, <1>2 DEF Admit, CallTypes, reading
  <2>2. Accounted'
    BY <1>1, <1>2 DEF Admit, CallTypes, Accounted, Queued
  <2>3. AdmittedIsHandled'
    BY Zenon, <1>1, <1>2 DEF Admit, CallTypes, Accounted, AdmittedIsHandled
  <2> QED BY Zenon, <2>1, <2>2, <2>3
<1>3. CASE SendAppend(p)
  <2>1. CASE post' = [post EXCEPT ![p] = "refused"] /\ UNCHANGED queue
    <3>1. CallTypes'
      BY Zenon, <1>1, <1>3, <2>1 DEF SendAppend, CallTypes, reading
    <3>2. Accounted'
      BY Zenon, <1>1, <1>3, <2>1 DEF SendAppend, CallTypes, Accounted, Queued
    <3>3. AdmittedIsHandled'
      BY Zenon, <1>1, <1>3, <2>1 DEF SendAppend, CallTypes, AdmittedIsHandled
    <3> QED BY <3>1, <3>2, <3>3
  <2>2. CASE /\ actor.at # "drained" /\ post' = [post EXCEPT ![p] = "sent"]
             /\ \E kind \in Kind[p] :
                  queue' = Append(queue, [cmd |-> "append", post |-> p, kind |-> kind])
    <3>1. PICK kind \in Kind[p] :
            queue' = Append(queue, [cmd |-> "append", post |-> p, kind |-> kind])
      BY Zenon, <2>2
    <3> DEFINE c == [cmd |-> "append", post |-> p, kind |-> kind]
    <3>2. c \in Command /\ c.cmd = "append" /\ c.post = p
      BY Zenon, TransportAssumption DEF Command
    <3> HIDE DEF c
    <3>3. /\ queue' \in Seq(Command) /\ Queued(p)' /\ \A q : Queued(q) => Queued(q)'
      BY Zenon, <1>1, <3>1, <3>2, QueueGrows DEF c
    <3>4. \A q \in Post : post'[q] = IF q = p THEN "sent" ELSE post[q]
      BY Zenon, <1>1, <2>2 DEF CallTypes
    <3>5. UNCHANGED <<lifecycle, admitted, actor, notices, shutdown>>
      BY Zenon, <1>3 DEF SendAppend, reading
    <3>6. CallTypes'
      BY Zenon, <1>1, <2>2, <3>3, <3>5 DEF CallTypes
    <3>7. Accounted'
      BY Zenon, <1>1, <3>3, <3>4, <3>5 DEF Accounted
    <3>8. AdmittedIsHandled'
      BY Zenon, <2>2, <3>5 DEF AdmittedIsHandled
    <3> QED BY Zenon, <3>6, <3>7, <3>8
  <2> QED BY Zenon, <1>3, <2>1, <2>2 DEF SendAppend
<1>4. CASE DropAdmission(p)
  <2>1. CallTypes'
    BY Zenon, <1>1, <1>4 DEF DropAdmission, CallTypes, reading
  <2>2. Accounted'
    BY Zenon, <1>1, <1>4 DEF DropAdmission, Accounted, Queued
  <2>3. AdmittedIsHandled'
    BY Zenon, <1>1, <1>4 DEF DropAdmission, AdmittedIsHandled
  <2> QED BY <2>1, <2>2, <2>3
<1> QED BY Zenon, <1>2, <1>3, <1>4 DEF Call

-----------------------------------------------------------------------------
(* The actor and the other tasks. *)

\* mark_draining leaves a TransportState.
LEMMA MarkedType == CallTypes => Marked \in {"Open", "Closing", "Draining", "Closed"}
  BY Zenon DEF CallTypes, Marked

\* What a step may do to the actor's locals, when no generation disappears.
LEMMA ActorWidens ==
  ASSUME NEW m \in Nat, NEW n \in Nat, m <= n
  PROVE  ActorState(m) \subseteq ActorState(n)
<1>1. 0 .. m \subseteq 0 .. n
  OBVIOUS
<1> QED BY Zenon, <1>1 DEF ActorState

\* A generation's task: at most a RunFinished is queued.
LEMMA TaskKeeps ==
  ASSUME IInv, NEW g \in DOMAIN gens, Generation(g)
  PROVE  IInv'
<1>1. TypeOK /\ CallTypes /\ ActorTypes
  BY Zenon, IInvTypeOK DEF IInv
<1>2. gens' \in Seq(RunGeneration) /\ Len(gens') = Len(gens)
  BY Zenon, <1>1, GenerationKeeps
<1>3. UNCHANGED <<lifecycle, admitted, post, actor, hub, stream, notices, shutdown>>
  BY Zenon DEF Generation, Prepare, GiveUp, ChangePhase, Release, ReportEnd, calls, reading
<1>4. gens[g] \in RunGeneration /\ g \in Nat
  BY <1>1, ElementOfSeq, LenProperties DEF ActorTypes
<1>5. \/ queue' = queue
      \/ \E finish \in Finish :
           queue' = Append(queue, [cmd |-> "finished", gen |-> g, finish |-> finish])
  <2>1. gens[g].finish \in Finish
    BY Zenon, <1>4 DEF RunGeneration
  <2>2. "failed" \in Finish /\ "success" \in Finish /\ "cancelled" \in Finish
    BY Zenon DEF Finish
  <2>3. CASE Prepare(g)
    BY Zenon, <2>2, <2>3 DEF Prepare, Report
  <2>4. CASE GiveUp(g)
    BY Zenon, <2>2, <2>4 DEF GiveUp, Report
  <2>5. CASE ChangePhase(g) \/ Release(g)
    BY Zenon, <2>5 DEF ChangePhase, Release
  <2>6. CASE ReportEnd(g)
    BY Zenon, <2>1, <2>6 DEF ReportEnd, Report
  <2> QED BY Zenon, <2>3, <2>4, <2>5, <2>6 DEF Generation
<1>6. queue' \in Seq(Command) /\ \A p : Queued(p) => Queued(p)'
  <2>1. CASE queue' = queue
    BY Zenon, <1>1, <2>1 DEF CallTypes, Queued
  <2>2. CASE \E finish \in Finish :
               queue' = Append(queue, [cmd |-> "finished", gen |-> g, finish |-> finish])
    <3>1. PICK c \in Command : queue' = Append(queue, c)
      BY Zenon, <1>4, <2>2 DEF Command
    <3> QED BY Zenon, <1>1, <3>1, QueueGrows
  <2> QED BY Zenon, <1>5, <2>1, <2>2
<1>7. CallTypes' /\ ActorTypes'
  BY Zenon, <1>1, <1>2, <1>3, <1>6 DEF CallTypes, ActorTypes
<1>8. Streams' /\ SealedHasNoReader'
  BY Zenon, <1>3 DEF IInv, Streams, Guards, SealedHasNoReader
<1>9. Accounted' /\ AdmittedIsHandled'
  BY Zenon, <1>3, <1>6, AccountedKept
<1> QED BY Zenon, <1>7, <1>8, <1>9 DEF IInv

\* The disconnect that a notice or the server sends is queued.
LEMMA SenderKeeps ==
  ASSUME IInv, Shutdown \/ \E e \in notices : SendNotice(e)
  PROVE  IInv'
<1>1. TypeOK /\ CallTypes /\ ActorTypes
  BY Zenon, IInvTypeOK DEF IInv
<1>2. UNCHANGED <<lifecycle, admitted, post, actor, gens, hub, stream>>
  BY Zenon DEF Shutdown, SendNotice, calls, reading
<1>3. notices' \subseteq Nat /\ shutdown' \in BOOLEAN
  BY Zenon, <1>1 DEF Shutdown, SendNotice, CallTypes, reading
<1>4. queue' = queue \/ \E c \in Command : queue' = Append(queue, c)
  <2>1. [cmd |-> "disconnect"] \in Command
    BY Zenon DEF Command
  <2>2. \A e \in notices : [cmd |-> "unsubscribed", epoch |-> e] \in Command
    BY Zenon, <1>1 DEF Command, CallTypes
  <2> QED BY Zenon, <2>1, <2>2 DEF Shutdown, SendNotice
<1>5. queue' \in Seq(Command) /\ \A p : Queued(p) => Queued(p)'
  <2>1. CASE queue' = queue
    BY Zenon, <1>1, <2>1 DEF CallTypes, Queued
  <2> QED BY Zenon, <1>1, <1>4, <2>1, QueueGrows
<1>6. CallTypes' /\ ActorTypes'
  BY Zenon, <1>1, <1>2, <1>3, <1>5 DEF CallTypes, ActorTypes
<1>7. Streams' /\ SealedHasNoReader'
  BY Zenon, <1>2 DEF IInv, Streams, Guards, SealedHasNoReader
<1>8. Accounted' /\ AdmittedIsHandled'
  BY Zenon, <1>2, <1>5, AccountedKept
<1> QED BY Zenon, <1>6, <1>7, <1>8 DEF IInv

\* An append is handled: a generation more, or one marked as cancelled.
LEMMA ReceiveAppendKeeps ==
  ASSUME IInv, ReceiveRun \/ ReceiveUser \/ ReceiveCancel \/ ReceiveOther
  PROVE  IInv'
<1> DEFINE n == Len(gens)
           Lifecycle == {"Open", "Closing", "Draining", "Closed"}
<1>1. TypeOK /\ CallTypes /\ ActorTypes /\ actor \in ActorState(n) /\ n \in Nat
      /\ gens \in Seq(RunGeneration)
  BY Zenon, IInvTypeOK, LenProperties DEF IInv, ActorTypes
<1>2. Take("append") /\ Handled /\ UNCHANGED <<hub, stream, notices, shutdown>>
  BY Zenon DEF ReceiveRun, ReceiveUser, ReceiveCancel, ReceiveOther, reading
<1>3. lifecycle' \in Lifecycle
  BY Zenon, <1>1, MarkedType DEF ReceiveRun, ReceiveUser, ReceiveCancel, ReceiveOther, Reopened, CallTypes
<1>4. actor'.at = actor.at /\ ActorTypes'
  <2>1. ASSUME NextGeneration, actor' \in ActorState(n + 1), actor'.at = actor.at
        PROVE  actor'.at = actor.at /\ ActorTypes'
    BY Zenon, <1>1, <2>1, NextGenerationAdds DEF ActorTypes
  <2>2. CASE ReceiveRun
    <3>1. actor \in ActorState(n + 1) /\ n + 1 \in 0 .. n + 1 /\ None \in [gen : 0 .. n + 1, finish : Finish]
      BY <1>1, ActorWidens DEF None, Finish
    <3> HIDE DEF n
    <3>2. /\ NextGeneration
          /\ actor' = [actor EXCEPT !.current = n + 1, !.waiting = FALSE, !.draining = FALSE,
                            !.pending = IF actor.draining THEN None ELSE @]
      BY Zenon, <2>2 DEF ReceiveRun, n
    <3>3. actor' \in ActorState(n + 1) /\ actor'.at = actor.at
      BY Zenon, <3>1, <3>2 DEF ActorState
    <3> QED BY Zenon, <2>1, <3>2, <3>3
  <2>3. CASE ReceiveUser
    <3>1. actor \in ActorState(n + 1) /\ n + 1 \in 0 .. n + 1
      BY <1>1, ActorWidens
    <3>2. \/ UNCHANGED <<gens, actor>>
          \/ NextGeneration /\ actor' = [actor EXCEPT !.current = n + 1, !.waiting = FALSE]
      BY Zenon, <2>3 DEF ReceiveUser
    <3>3. CASE UNCHANGED <<gens, actor>>
      BY Zenon, <1>1, <3>3 DEF ActorTypes
    <3>4. CASE NextGeneration /\ actor' = [actor EXCEPT !.current = n + 1, !.waiting = FALSE]
      <4> HIDE DEF n
      <4>1. actor' \in ActorState(n + 1) /\ actor'.at = actor.at
        BY Zenon, <3>1, <3>4 DEF ActorState
      <4> QED BY Zenon, <2>1, <3>4, <4>1
    <3> QED BY Zenon, <3>2, <3>3, <3>4
  <2>4. CASE ReceiveCancel
    <3>1. actor' = actor /\ actor.current \in 0 .. n /\ DOMAIN gens = 1 .. n
      BY Zenon, <1>1, <2>4, LenProperties DEF ReceiveCancel, ActorState
    <3>2. CASE actor.current = 0
      BY Zenon, <1>1, <2>4, <3>1, <3>2 DEF ReceiveCancel, ActorTypes
    <3>3. CASE actor.current # 0
      <4> DEFINE g == actor.current
                 x == [gens[g] EXCEPT !.cancelled = TRUE]
      <4>1. g \in DOMAIN gens /\ gens[g] \in RunGeneration
        BY <1>1, <3>1, <3>3, ElementOfSeq
      <4>2. x \in RunGeneration
        BY Zenon, <4>1 DEF RunGeneration
      <4>3. gens' = [gens EXCEPT ![g] = x]
        BY Zenon, <2>4, <3>3 DEF ReceiveCancel
      <4> HIDE DEF g, x
      <4>4. gens' \in Seq(RunGeneration) /\ Len(gens') = n
        BY Zenon, <1>1, <4>1, <4>2, <4>3, GenReplaced
      <4> QED BY Zenon, <1>1, <3>1, <4>4 DEF ActorTypes
    <3> QED BY Zenon, <3>2, <3>3
  <2>5. CASE ReceiveOther
    BY Zenon, <1>1, <2>5 DEF ReceiveOther, ActorTypes
  <2> QED BY Zenon, <2>2, <2>3, <2>4, <2>5
<1>5. /\ admitted' \subseteq Post /\ queue' \in Seq(Command)
      /\ post' \in [Post -> {"idle", "admitted", "sent", "handled", "refused"}]
      /\ Accounted' /\ AdmittedIsHandled'
  BY Zenon, <1>2, <1>4, AppendHandled
<1>6. CallTypes'
  BY Zenon, <1>1, <1>2, <1>3, <1>5 DEF CallTypes
<1>7. Streams' /\ SealedHasNoReader'
  BY Zenon, <1>2 DEF IInv, Streams, Guards, SealedHasNoReader
<1> QED BY Zenon, <1>4, <1>5, <1>6, <1>7 DEF IInv

\* RunFinished and the idle timer begin the close, or leave it.
LEMMA FinishedKeeps ==
  ASSUME IInv, ReceiveFinished \/ IdleTimeout \/ IgnoreDisconnect
  PROVE  IInv'
<1> DEFINE n == Len(gens)
           Lifecycle == {"Open", "Closing", "Draining", "Closed"}
<1>1. TypeOK /\ CallTypes /\ ActorTypes /\ actor \in ActorState(n) /\ n \in Nat
  BY Zenon, IInvTypeOK, LenProperties DEF IInv, ActorTypes
<1>2. UNCHANGED <<admitted, post, gens, hub, stream, notices, shutdown>> /\ actor.at = "up"
  BY Zenon DEF ReceiveFinished, IdleTimeout, IgnoreDisconnect, Take, calls, reading
<1>3. lifecycle' \in Lifecycle
  BY Zenon, <1>1, MarkedType DEF ReceiveFinished, IdleTimeout, IgnoreDisconnect, BeginClose, CallTypes
<1>4. queue' \in Seq(Command) /\ \A p : Queued(p) => Queued(p)'
  <2>1. CASE IdleTimeout
    BY Zenon, <1>1, <2>1 DEF IdleTimeout, CallTypes, Queued
  <2>2. CASE Take("finished") \/ Take("unsubscribed")
    BY <1>1, <2>2, QueueShrinks
  <2> QED BY Zenon, <2>1, <2>2 DEF ReceiveFinished, IgnoreDisconnect
<1>5. actor' \in ActorState(n) /\ actor'.at = "up"
  <2>1. CASE IgnoreDisconnect
    BY Zenon, <1>1, <1>2, <2>1 DEF IgnoreDisconnect
  <2>2. CASE IdleTimeout
    <3>1. [gen |-> actor.current, finish |-> "success"] \in [gen : 0 .. n, finish : Finish]
      BY Zenon, <1>1 DEF ActorState, Finish
    <3> HIDE DEF n
    <3> QED BY Zenon, <1>1, <1>2, <2>2, <3>1 DEF IdleTimeout, ActorState
  <2>3. CASE ReceiveFinished
    <3>1. Head(queue) \in Command /\ Head(queue).cmd = "finished"
      BY Zenon, <1>1, <2>3, QueueShrinks DEF ReceiveFinished
    <3>2. Head(queue).finish \in Finish
      BY Zenon, <3>1 DEF Command
    <3>3. None \in [gen : 0 .. n, finish : Finish]
      BY <1>1 DEF None, Finish
    <3>4. CASE actor' = actor
      BY Zenon, <1>1, <1>2, <3>4
    <3>5. CASE actor' = [actor EXCEPT !.pending = None, !.draining = FALSE, !.waiting = TRUE]
      <4> HIDE DEF n
      <4> QED BY Zenon, <1>1, <1>2, <3>3, <3>5 DEF ActorState
    <3>6. CASE /\ Head(queue).gen = actor.current
               /\ actor' = [actor EXCEPT !.pending = [gen |-> Head(queue).gen, finish |-> Head(queue).finish],
                                         !.draining = TRUE, !.waiting = FALSE]
      <4>1. [gen |-> Head(queue).gen, finish |-> Head(queue).finish] \in [gen : 0 .. n, finish : Finish]
        BY Zenon, <1>1, <3>2, <3>6 DEF ActorState
      <4> HIDE DEF n
      <4> QED BY Zenon, <1>1, <1>2, <3>6, <4>1 DEF ActorState
    <3> QED BY Zenon, <2>3, <3>4, <3>5, <3>6 DEF ReceiveFinished
  <2> QED BY Zenon, <2>1, <2>2, <2>3
<1>6. CallTypes' /\ ActorTypes'
  BY Zenon, <1>1, <1>2, <1>3, <1>4, <1>5 DEF CallTypes, ActorTypes
<1>7. Streams' /\ SealedHasNoReader'
  BY Zenon, <1>2 DEF IInv, Streams, Guards, SealedHasNoReader
<1>8. Accounted' /\ AdmittedIsHandled'
  BY Zenon, <1>2, <1>4, <1>5, AccountedKept
<1> QED BY Zenon, <1>6, <1>7, <1>8 DEF IInv

\* A disconnect supersedes the current generation; a notice seals the hub only
\* when no stream holds a lease.
LEMMA DisconnectKeeps ==
  ASSUME IInv, ReceiveDisconnect
  PROVE  IInv'
<1>1. /\ TypeOK /\ CallTypes /\ ActorTypes /\ Streams /\ SealedHasNoReader
      /\ actor \in ActorState(Len(gens)) /\ hub \in HubState
  BY Zenon, IInvTypeOK DEF IInv, ActorTypes, Streams
<1>2. /\ UNCHANGED <<admitted, post, stream, notices, shutdown>> /\ lifecycle' = Marked
      /\ Take("disconnect") \/ Take("unsubscribed")
      /\ actor' = [actor EXCEPT !.at = "disconnecting"]
      /\ gens' = Superseding(gens, actor.current)
  BY Zenon DEF ReceiveDisconnect, calls
<1>3. queue' \in Seq(Command) /\ \A p : Queued(p) => Queued(p)'
  BY <1>1, <1>2, QueueShrinks
<1>4. gens' \in Seq(RunGeneration) /\ Len(gens') = Len(gens)
  BY Zenon, <1>1, <1>2, SupersedingKeeps DEF ActorState
<1>5. actor' \in ActorState(Len(gens)) /\ actor'.at = "disconnecting"
  BY Zenon, <1>1, <1>2 DEF ActorState
<1>6. CallTypes' /\ ActorTypes'
  BY Zenon, <1>1, <1>2, <1>3, <1>4, <1>5, MarkedType DEF CallTypes, ActorTypes
<1>7. Streams' /\ SealedHasNoReader'
  <2>1. Guards' = Guards
    BY Zenon, <1>2 DEF Guards
  <2>2. CASE hub' = hub
    BY Zenon, <1>1, <1>2, <2>1, <2>2 DEF Streams, SealedHasNoReader
  <2>3. CASE hub.active = 0 /\ hub' = [hub EXCEPT !.sealed = TRUE]
    <3>1. hub' \in HubState
      BY Zenon, <1>1, <2>3 DEF HubState
    <3>2. hub'.active = hub.active
      BY Zenon, <1>1, <2>3 DEF HubState
    <3> QED BY Zenon, <1>1, <1>2, <2>1, <2>3, <3>1, <3>2 DEF Streams, SealedHasNoReader
  <2> QED BY Zenon, <2>2, <2>3 DEF ReceiveDisconnect, Unsubscribed
<1>8. Accounted' /\ AdmittedIsHandled'
  BY Zenon, <1>2, <1>3, <1>5, AccountedKept
<1> QED BY Zenon, <1>6, <1>7, <1>8 DEF IInv

\* The actor ends.  An actor that drains has seen that no call holds an admission
\* and that the queue is empty.
LEMMA EndKeeps ==
  ASSUME IInv, FinishDisconnect \/ Drain
  PROVE  IInv'
<1>1. /\ TypeOK /\ CallTypes /\ ActorTypes /\ Streams /\ SealedHasNoReader /\ Accounted
      /\ actor \in ActorState(Len(gens)) /\ hub \in HubState
  BY Zenon, IInvTypeOK DEF IInv, ActorTypes, Streams
<1>2. /\ UNCHANGED <<admitted, post, queue, gens, stream, notices, shutdown>>
      /\ lifecycle' = "Closed"
  BY Zenon DEF FinishDisconnect, Drain, calls
<1>3. actor' \in ActorState(Len(gens))
  BY Zenon, <1>1 DEF FinishDisconnect, Drain, ActorState
<1>4. CallTypes' /\ ActorTypes'
  BY Zenon, <1>1, <1>2, <1>3 DEF CallTypes, ActorTypes
<1>5. Streams' /\ SealedHasNoReader'
  <2>1. \E f \in Finish : hub' = hub \/ FinishTransport(f)
    <3>1. actor.pending.finish \in Finish /\ "success" \in Finish /\ "cancelled" \in Finish
      BY Zenon, <1>1 DEF ActorState, Finish
    <3> QED BY Zenon, <3>1 DEF FinishDisconnect, Drain
  <2>2. PICK f \in Finish : hub' = hub \/ hub' = [hub EXCEPT !.closed = TRUE, !.terminal = f]
    BY Zenon, <2>1 DEF FinishTransport
  <2>3. hub' \in HubState
    BY Zenon, <1>1, <2>2 DEF HubState
  <2>4. hub'.active = hub.active /\ hub'.sealed = hub.sealed
    BY Zenon, <1>1, <2>2 DEF HubState
  <2>5. Guards' = Guards
    BY Zenon, <1>2 DEF Guards
  <2> QED BY Zenon, <1>1, <1>2, <2>3, <2>4, <2>5 DEF Streams, SealedHasNoReader
<1>6. Accounted'
  BY Zenon, <1>1, <1>2 DEF Accounted, Queued
<1>7. AdmittedIsHandled'
  <2>1. CASE FinishDisconnect
    <3>1. actor'.at = "disconnected"
      BY Zenon, <1>1, <2>1 DEF FinishDisconnect, ActorState
    <3> QED BY Zenon, <3>1 DEF AdmittedIsHandled
  <2>2. CASE Drain
    <3>1. admitted = {} /\ queue = <<>>
      BY Zenon, <2>2 DEF Drain
    <3>2. \A p : ~ Queued(p)
      BY <3>1 DEF Queued
    <3> QED BY Zenon, <1>1, <1>2, <3>1, <3>2 DEF Accounted, AdmittedIsHandled
  <2> QED BY Zenon, <2>1, <2>2
<1> QED BY Zenon, <1>4, <1>5, <1>6, <1>7 DEF IInv

-----------------------------------------------------------------------------

\* A new transport satisfies the invariant.
LEMMA InitIInv == Init => IInv
<1> SUFFICES ASSUME Init PROVE IInv
  BY Zenon
<1>1. CallTypes
  <2>1. queue = <<>> /\ queue \in Seq(Command)
    BY Zenon, EmptySeq DEF Init
  <2> QED BY Zenon, <2>1 DEF Init, CallTypes
<1>2. ActorTypes
  <2>1. gens = <<>> /\ gens \in Seq(RunGeneration) /\ Len(gens) = 0
    BY Zenon, EmptySeq DEF Init
  <2>2. actor \in ActorState(0)
    BY DEF Init, ActorState, None, Finish
  <2> QED BY Zenon, <2>1, <2>2 DEF ActorTypes
<1>3. Streams
  <2>1. Guards = {}
    BY Zenon DEF Init, Guards
  <2>2. hub \in HubState /\ hub.active = 0
    BY Zenon DEF Init, HubState, Finish
  <2>3. stream \in [Stream -> StreamState]
    BY Zenon DEF Init, StreamState
  <2> QED BY Zenon, <2>1, <2>2, <2>3, FS_EmptySet DEF Streams
<1>4. Accounted /\ AdmittedIsHandled
  BY Zenon DEF Init, Accounted, AdmittedIsHandled
<1>5. SealedHasNoReader
  BY Zenon DEF Init, SealedHasNoReader
<1> QED BY Zenon, <1>1, <1>2, <1>3, <1>4, <1>5 DEF IInv

\* Every step keeps it.
LEMMA NextIInv == IInv /\ [Next]_vars => IInv'
<1> SUFFICES ASSUME IInv, [Next]_vars PROVE IInv'
  BY Zenon
<1>1. CASE UNCHANGED vars
  <2>1. UNCHANGED <<lifecycle, admitted, post, queue, actor, gens, hub, stream, notices, shutdown>>
    BY Zenon, <1>1 DEF vars, calls, reading
  <2>2. CallTypes' /\ ActorTypes'
    BY Zenon, <2>1 DEF IInv, CallTypes, ActorTypes
  <2>3. Streams' /\ SealedHasNoReader'
    BY Zenon, <2>1 DEF IInv, Streams, Guards, SealedHasNoReader
  <2>4. Accounted' /\ AdmittedIsHandled'
    BY Zenon, <2>1 DEF IInv, Accounted, Queued, AdmittedIsHandled
  <2> QED BY Zenon, <2>2, <2>3, <2>4 DEF IInv
<1>2. ASSUME NEW p \in Post, Call(p) PROVE IInv'
  <2>1. UNCHANGED <<actor, gens, hub, stream>>
    BY Zenon, <1>2 DEF Call, Admit, SendAppend, DropAdmission, reading
  <2>2. ActorTypes' /\ Streams' /\ SealedHasNoReader'
    BY Zenon, <2>1 DEF IInv, ActorTypes, Streams, Guards, SealedHasNoReader
  <2> QED BY Zenon, <1>2, <2>2, CallKeeps DEF IInv
<1>3. ASSUME NEW s \in Stream, Reader(s) PROVE IInv'
  <2>1. UNCHANGED <<lifecycle, admitted, post, queue, actor, gens, shutdown>>
    BY Zenon, <1>3 DEF Reader, Subscribe, Acquire, EndStream, DropStream, calls
  <2>2. Streams' /\ SealedHasNoReader' /\ notices' \subseteq Nat
    BY Zenon, <1>3, ReaderKeeps DEF IInv, CallTypes
  <2>3. CallTypes' /\ ActorTypes'
    BY Zenon, <2>1, <2>2 DEF IInv, CallTypes, ActorTypes
  <2>4. Accounted' /\ AdmittedIsHandled'
    BY Zenon, <2>1 DEF IInv, Accounted, Queued, AdmittedIsHandled
  <2> QED BY Zenon, <2>2, <2>3, <2>4 DEF IInv
<1>4. CASE Actor
  BY Zenon, <1>4, ReceiveAppendKeeps, FinishedKeeps, DisconnectKeeps, EndKeeps DEF Actor, Receive
<1> QED BY Zenon, <1>1, <1>2, <1>3, <1>4, TaskKeeps, SenderKeeps DEF Next

\* An actor that drains its queue and ends (runtime.rs, the draining arm) has
\* handled every append that TransportLifecycle::admit let in, for any number of
\* appends, generations and streams.
THEOREM AppendsAreHandled == Spec => [](TypeOK /\ AdmittedIsHandled)
<1>1. IInv => TypeOK /\ AdmittedIsHandled
  BY Zenon, IInvTypeOK DEF IInv
<1> QED BY <1>1, InitIInv, NextIInv, PTL DEF Spec

\* The notice of a stream that has gone seals the OutputHub only while no other
\* stream holds a lease, and no stream takes one afterwards
\* (disconnect_if_unsubscribed, acquire_http).
THEOREM SealedHubIsUnread == Spec => []SealedHasNoReader
<1>1. IInv => SealedHasNoReader
  BY Zenon DEF IInv
<1> QED BY <1>1, InitIInv, NextIInv, PTL DEF Spec

-----------------------------------------------------------------------------
(* The terminal frame. *)

\* The task of generation g is over, which it stays.
Over(g) == g \in DOMAIN gens /\ gens[g].state = "finished"

\* A generation that is released knows how it ended.
Released == \A g \in DOMAIN gens : gens[g].state = "released" => gens[g].finish # "none"

\* A RunFinished in the queue is about a generation that is over.
Reports ==
  \A i \in DOMAIN queue :
    queue[i].cmd = "finished" => Over(queue[i].gen) /\ queue[i].finish # "none"

\* So is what the actor made of one: the finish it keeps until it has drained,
\* or the wait for the next action.  It knows the newest generation.
Current ==
  /\ actor.current = Len(gens)
  /\ actor.pending.gen # 0 => Over(actor.pending.gen) /\ actor.pending.finish # "none"
  /\ actor.waiting => Over(actor.current)

\* The hub is closed last, with a frame, and by an actor that drains only when
\* the newest generation is over.
ClosedLast ==
  hub.closed =>
    /\ actor.at \in {"drained", "disconnected"} /\ hub.terminal # "none"
    /\ actor.at = "drained" => Over(Len(gens))

\* The inductive invariant of the terminal frame, over IInv.
Ends == Released /\ Reports /\ Current /\ ClosedLast /\ EndsWithTerminal

\* A generation that changes keeps what is over, and a release names its finish.
LEMMA OverStays ==
  ASSUME gens \in Seq(RunGeneration), Released,
         NEW g \in DOMAIN gens, NEW x \in RunGeneration, gens' = [gens EXCEPT ![g] = x],
         gens[g].state = "finished" => x.state = "finished",
         x.state = "released" => x.finish # "none"
  PROVE  Released' /\ \A h : Over(h) => Over(h)'
<1>1. DOMAIN gens' = DOMAIN gens /\ \A h \in DOMAIN gens : gens'[h] = IF h = g THEN x ELSE gens[h]
  BY Zenon, LenProperties
<1> QED BY Zenon, <1>1 DEF Released, Over

\* Superseding the current generation is such a change, or none.
LEMMA SupersedingStays ==
  ASSUME TypeOK, Released, NEW gs, gs = Superseding(gens, actor.current)
  PROVE  /\ DOMAIN gs = DOMAIN gens
         /\ \A h \in DOMAIN gens : gs[h].state = gens[h].state /\ gs[h].finish = gens[h].finish
<1>1. gens \in Seq(RunGeneration) /\ DOMAIN gens = 1 .. Len(gens) /\ actor.current \in 0 .. Len(gens)
      /\ Len(gens) \in Nat
  BY Zenon, LenProperties DEF TypeOK
<1>2. CASE actor.current = 0
  BY Zenon, <1>2 DEF Superseding
<1>3. CASE actor.current # 0
  <2> DEFINE c == actor.current
  <2>1. c \in DOMAIN gens /\ gens[c] \in RunGeneration
    BY <1>1, <1>3, ElementOfSeq
  <2>2. gs = [gens EXCEPT ![c] = [gens[c] EXCEPT !.superseded = TRUE]]
    BY Zenon, <1>3 DEF Superseding
  <2> HIDE DEF c
  <2> QED BY <1>1, <2>1, <2>2 DEF RunGeneration
<1> QED BY Zenon, <1>2, <1>3

\* A new generation is not over, and leaves the others as they were.
LEMMA NextGenerationStays ==
  ASSUME TypeOK, Released, NextGeneration
  PROVE  Released' /\ \A h : Over(h) => Over(h)'
<1> DEFINE new == [state |-> "preparing", superseded |-> FALSE, cancelled |-> FALSE,
                   finish |-> "none"]
           old == Superseding(gens, actor.current)
<1>1. DOMAIN old = DOMAIN gens
      /\ \A h \in DOMAIN gens : old[h].state = gens[h].state /\ old[h].finish = gens[h].finish
  BY Zenon, SupersedingStays
<1>2. old \in Seq(RunGeneration) /\ Len(old) = Len(gens) /\ DOMAIN old = 1 .. Len(gens)
      /\ Len(gens) \in Nat
  BY SupersedingKeeps, LenProperties DEF TypeOK
<1>3. new \in RunGeneration /\ new.state = "preparing"
  BY Zenon DEF RunGeneration, Finish
<1>4. gens' = Append(old, new)
  BY Zenon DEF NextGeneration
<1> HIDE DEF new, old
<1>5. /\ gens' \in Seq(RunGeneration) /\ Len(gens') = Len(gens) + 1
      /\ \A h \in 1 .. Len(gens) : gens'[h] = old[h]
      /\ gens'[Len(gens) + 1] = new
  BY <1>2, <1>3, <1>4, AppendProperties
<1>6. DOMAIN gens' = 1 .. Len(gens) + 1
  BY Zenon, <1>5, LenProperties
<1> QED BY <1>1, <1>2, <1>3, <1>5, <1>6 DEF Released, Over

\* A report that is sent is about a generation that is over; the others stay.
LEMMA ReportsGrow ==
  ASSUME TypeOK, Reports, NEW c \in Command, queue' = Append(queue, c),
         \A h : Over(h) => Over(h)',
         c.cmd = "finished" => Over(c.gen)' /\ c.finish # "none"
  PROVE  Reports'
<1>1. queue \in Seq(Command)
  BY Zenon DEF TypeOK
<1>2. /\ queue' \in Seq(Command) /\ Len(queue') = Len(queue) + 1
      /\ \A i \in 1 .. Len(queue) : queue'[i] = queue[i]
      /\ queue'[Len(queue) + 1] = c
  BY <1>1, AppendProperties
<1>3. /\ DOMAIN queue = 1 .. Len(queue) /\ DOMAIN queue' = 1 .. Len(queue')
      /\ Len(queue) \in Nat
  BY Zenon, <1>1, <1>2, LenProperties
<1>4. \A i \in DOMAIN queue' : i \in DOMAIN queue \/ i = Len(queue) + 1
  BY <1>2, <1>3
<1> QED BY Zenon, <1>2, <1>3, <1>4 DEF Reports

\* The head of the queue is a report like the others, which stay when it is taken.
LEMMA ReportsShrink ==
  ASSUME TypeOK, Reports, NEW cmd, Take(cmd), \A h : Over(h) => Over(h)'
  PROVE  /\ Reports'
         /\ cmd = "finished" => Over(Head(queue).gen) /\ Head(queue).finish # "none"
<1>1. queue \in Seq(Command) /\ queue # <<>> /\ queue' = Tail(queue) /\ Head(queue).cmd = cmd
  BY Zenon DEF TypeOK, Take
<1>2. /\ queue' \in Seq(Command) /\ Len(queue') = Len(queue) - 1
      /\ \A i \in 1 .. Len(queue') : queue'[i] = queue[i + 1]
  BY Zenon, <1>1, HeadTailProperties
<1>3. /\ DOMAIN queue = 1 .. Len(queue) /\ DOMAIN queue' = 1 .. Len(queue')
      /\ Len(queue) \in Nat /\ Len(queue) # 0 /\ Head(queue) = queue[1]
  BY <1>1, <1>2, LenProperties, EmptySeq
<1>4. \A i \in DOMAIN queue' : i + 1 \in DOMAIN queue /\ queue'[i] = queue[i + 1]
  BY <1>2, <1>3
<1>5. 1 \in DOMAIN queue
  BY <1>3
<1>6. Reports'
  BY Zenon, <1>4 DEF Reports
<1> QED BY Zenon, <1>1, <1>3, <1>5, <1>6 DEF Reports

\* What the actor knows stays true when it does nothing, and nothing is forgotten.
LEMMA CurrentStays ==
  ASSUME Current, \A h : Over(h) => Over(h)', Len(gens') = Len(gens),
         actor'.current = actor.current, actor'.pending = actor.pending, actor'.waiting = actor.waiting
  PROVE  Current'
BY Zenon DEF Current

\* A hub and streams that stay as they are keep their frame.
LEMMA ClosedStays ==
  ASSUME ClosedLast, EndsWithTerminal, UNCHANGED <<hub, stream>>, \A h : Over(h) => Over(h)',
         hub.closed => actor'.at = actor.at /\ Len(gens') = Len(gens)
  PROVE  ClosedLast' /\ EndsWithTerminal'
<1>1. EndsWithTerminal'
  BY Zenon DEF EndsWithTerminal
<1>2. ClosedLast'
  BY Zenon DEF ClosedLast
<1> QED BY Zenon, <1>1, <1>2

\* The steps of the tasks: what a generation reports is over when it is queued.
LEMMA TaskEnds ==
  ASSUME IInv, Ends, NEW g \in DOMAIN gens, Generation(g)
  PROVE  Ends'
<1>1. /\ TypeOK /\ gens \in Seq(RunGeneration) /\ gens[g] \in RunGeneration /\ g \in Nat
      /\ Len(gens') = Len(gens)
  BY IInvTypeOK, GenerationKeeps, ElementOfSeq, LenProperties DEF IInv, ActorTypes
<1>2. UNCHANGED <<actor, hub, stream>>
  BY Zenon DEF Generation, Prepare, GiveUp, ChangePhase, Release, ReportEnd, calls, reading
<1>3. Released /\ Reports /\ Current /\ ClosedLast /\ EndsWithTerminal
  BY Zenon DEF Ends
<1>4. ASSUME NEW st \in {"running", "closing", "finished"}, gens[g].state # "finished",
             gens' = [gens EXCEPT ![g].state = st]
      PROVE  /\ Released' /\ \A h : Over(h) => Over(h)'
             /\ st = "finished" => Over(g)'
  <2> DEFINE x == [gens[g] EXCEPT !.state = st]
  <2>1. x \in RunGeneration /\ x.state = st
    BY Zenon, <1>1 DEF RunGeneration
  <2>2. gens' = [gens EXCEPT ![g] = x]
    BY Zenon, <1>4
  <2> HIDE DEF x
  <2>3. Released' /\ \A h : Over(h) => Over(h)'
    BY Zenon, <1>1, <1>3, <1>4, <2>1, <2>2, OverStays
  <2>4. DOMAIN gens' = DOMAIN gens /\ gens'[g] = x
    BY Zenon, <2>2
  <2> QED BY Zenon, <2>1, <2>3, <2>4 DEF Over
<1>5. ASSUME NEW finish \in Finish, Report(g, finish), finish # "none", gens[g].state # "finished"
      PROVE  Released' /\ (\A h : Over(h) => Over(h)') /\ Reports'
  <2>1. /\ Released' /\ \A h : Over(h) => Over(h)'
        /\ Over(g)'
    BY Zenon, <1>4, <1>5 DEF Report
  <2>2. CASE queue' = queue
    BY Zenon, <1>3, <2>1, <2>2 DEF Reports
  <2>3. CASE queue' = Append(queue, [cmd |-> "finished", gen |-> g, finish |-> finish])
    <3> DEFINE c == [cmd |-> "finished", gen |-> g, finish |-> finish]
    <3>1. c \in Command /\ c.gen = g /\ c.finish = finish
      BY Zenon, <1>1 DEF Command
    <3> HIDE DEF c
    <3> QED BY Zenon, <1>1, <1>3, <1>5, <2>1, <2>3, <3>1, ReportsGrow DEF c
  <2> QED BY Zenon, <1>5, <2>1, <2>2, <2>3 DEF Report
<1>6. Released' /\ (\A h : Over(h) => Over(h)') /\ Reports'
  <2>1. ASSUME UNCHANGED queue, Released', \A h : Over(h) => Over(h)'
        PROVE  Reports'
    BY Zenon, <1>3, <2>1 DEF Reports
  <2>2. CASE Prepare(g)
    <3>1. gens[g].state # "finished" /\ "failed" \in Finish /\ "success" \in Finish
      BY Zenon, <2>2 DEF Prepare, Finish
    <3>2. CASE SetGen(g, "running") /\ UNCHANGED queue
      BY Zenon, <1>4, <2>1, <3>1, <3>2 DEF SetGen
    <3> QED BY Zenon, <1>5, <2>2, <3>1, <3>2 DEF Prepare
  <2>3. CASE GiveUp(g)
    <3>1. gens[g].state # "finished" /\ "cancelled" \in Finish
      BY Zenon, <2>3 DEF GiveUp, Finish
    <3> QED BY Zenon, <1>5, <2>3, <3>1 DEF GiveUp
  <2>4. CASE ChangePhase(g)
    BY Zenon, <1>4, <2>1, <2>4 DEF ChangePhase, SetGen
  <2>5. CASE Release(g)
    <3>1. PICK fi \in {"turn", "failed", "cancelled"} :
            gens' = [gens EXCEPT ![g].state = "released", ![g].finish = fi]
      BY Zenon, <2>5 DEF Release
    <3> DEFINE x == [gens[g] EXCEPT !.state = "released", !.finish = fi]
    <3>2. x \in RunGeneration /\ x.finish # "none"
      BY Zenon, <1>1 DEF RunGeneration, Finish
    <3>3. gens' = [gens EXCEPT ![g] = x] /\ gens[g].state # "finished" /\ UNCHANGED queue
      BY Zenon, <1>1, <2>5, <3>1 DEF Release
    <3> HIDE DEF x
    <3>4. Released' /\ \A h : Over(h) => Over(h)'
      BY Zenon, <1>1, <1>3, <3>2, <3>3, OverStays
    <3> QED BY Zenon, <2>1, <3>3, <3>4
  <2>6. CASE ReportEnd(g)
    <3>1. gens[g].state # "finished" /\ gens[g].finish \in Finish /\ gens[g].finish # "none"
      BY Zenon, <1>1, <1>3, <2>6 DEF ReportEnd, Released, RunGeneration
    <3> QED BY Zenon, <1>5, <2>6, <3>1 DEF ReportEnd
  <2> QED BY Zenon, <2>2, <2>3, <2>4, <2>5, <2>6 DEF Generation
<1>7. Current'
  BY Zenon, <1>1, <1>2, <1>3, <1>6, CurrentStays
<1>8. ClosedLast' /\ EndsWithTerminal'
  BY Zenon, <1>1, <1>2, <1>3, <1>6, ClosedStays
<1> QED BY Zenon, <1>6, <1>7, <1>8 DEF Ends

\* The calls and the notices report nothing.
LEMMA SenderEnds ==
  ASSUME IInv, Ends,
         (\E p \in Post : Call(p)) \/ (\E e \in notices : SendNotice(e)) \/ Shutdown
  PROVE  Ends'
<1>1. TypeOK /\ UNCHANGED <<actor, gens, hub, stream>>
  BY Zenon, IInvTypeOK DEF Call, Admit, SendAppend, DropAdmission, SendNotice, Shutdown, calls, reading
<1>2. Released /\ Reports /\ Current /\ ClosedLast /\ EndsWithTerminal
  BY Zenon DEF Ends
<1>3. Released' /\ \A h : Over(h) => Over(h)'
  BY Zenon, <1>1, <1>2 DEF Released, Over
<1>4. UNCHANGED queue \/ \E c \in Command : c.cmd # "finished" /\ queue' = Append(queue, c)
  <2>1. ASSUME NEW p \in Post, Call(p) PROVE <1>4
    <3>1. \A kind \in Kind[p] : [cmd |-> "append", post |-> p, kind |-> kind] \in Command
      BY Zenon, TransportAssumption DEF Command
    <3> QED BY Zenon, <2>1, <3>1 DEF Call, Admit, SendAppend, DropAdmission
  <2>2. ASSUME NEW e \in notices, SendNotice(e) PROVE <1>4
    <3>1. [cmd |-> "unsubscribed", epoch |-> e] \in Command
      BY Zenon, <1>1 DEF Command, TypeOK
    <3> QED BY Zenon, <2>2, <3>1 DEF SendNotice
  <2>3. CASE Shutdown
    <3>1. [cmd |-> "disconnect"] \in Command
      BY Zenon DEF Command
    <3> QED BY Zenon, <2>3, <3>1 DEF Shutdown
  <2> QED BY Zenon, <2>1, <2>2, <2>3
<1>5. Reports'
  <2>1. CASE UNCHANGED queue
    BY Zenon, <1>2, <1>3, <2>1 DEF Reports
  <2>2. ASSUME NEW c \in Command, c.cmd # "finished", queue' = Append(queue, c) PROVE Reports'
    BY Zenon, <1>1, <1>2, <1>3, <2>2, ReportsGrow
  <2> QED BY Zenon, <1>4, <2>1, <2>2
<1>6. Current' /\ ClosedLast' /\ EndsWithTerminal'
  BY Zenon, <1>1, <1>2, <1>3, CurrentStays, ClosedStays
<1> QED BY Zenon, <1>3, <1>5, <1>6 DEF Ends

\* A stream that ends by itself has its frame, or attached too late for it.
LEMMA ReaderEnds ==
  ASSUME IInv, Ends, NEW s \in Stream, Reader(s)
  PROVE  Ends'
<1>1. UNCHANGED <<queue, actor, gens>>
  BY Zenon DEF Reader, Subscribe, Acquire, EndStream, DropStream, calls
<1>2. Released /\ Reports /\ Current /\ ClosedLast /\ EndsWithTerminal /\ hub \in HubState
      /\ stream \in [Stream -> StreamState] /\ stream[s] \in StreamState
  BY Zenon DEF Ends, IInv, Streams
<1>3. Released' /\ Reports' /\ Current'
  BY Zenon, <1>1, <1>2 DEF Released, Reports, Over, Current
<1>4. hub'.closed = hub.closed /\ hub'.terminal = hub.terminal
  BY Zenon, <1>2 DEF Reader, Subscribe, Acquire, EndStream, DropStream, HubState
<1>5. ClosedLast'
  BY Zenon, <1>1, <1>2, <1>4 DEF ClosedLast, Over
<1>6. ASSUME NEW t \in Stream, stream'[t].state = "ended"
      PROVE  hub'.terminal # "none" \/ stream'[t].late
  <2>1. CASE t # s \/ ~ EndStream(s)
    <3>1. stream'[t].state = stream[t].state /\ stream'[t].late = stream[t].late
      BY <1>2, <1>6, <2>1 DEF Reader, Subscribe, Acquire, EndStream, DropStream, StreamState
    <3> QED BY Zenon, <1>2, <1>4, <1>6, <3>1 DEF EndsWithTerminal
  <2>2. CASE t = s /\ EndStream(s)
    <3>1. stream'[s].late = stream[s].late /\ (hub.closed \/ stream[s].late)
      BY Zenon, <1>2, <2>2 DEF EndStream, StreamState
    <3> QED BY Zenon, <1>2, <1>4, <2>2, <3>1 DEF ClosedLast
  <2> QED BY Zenon, <2>1, <2>2
<1>7. EndsWithTerminal'
  BY Zenon, <1>6 DEF EndsWithTerminal
<1> QED BY Zenon, <1>3, <1>5, <1>7 DEF Ends

\* An append may start a generation, which the actor then takes for the current one.
LEMMA ReceiveAppendEnds ==
  ASSUME IInv, Ends, ReceiveRun \/ ReceiveUser \/ ReceiveCancel \/ ReceiveOther
  PROVE  Ends'
<1> DEFINE n == Len(gens)
<1>1. /\ TypeOK /\ actor \in ActorState(n) /\ gens \in Seq(RunGeneration) /\ n \in Nat
      /\ DOMAIN gens = 1 .. n
  BY Zenon, IInvTypeOK, LenProperties DEF IInv, ActorTypes
<1>2. Released /\ Reports /\ Current /\ ClosedLast /\ EndsWithTerminal
  BY Zenon DEF Ends
<1>3. Take("append") /\ actor.at = "up" /\ ~ hub.closed /\ UNCHANGED <<hub, stream>>
  BY Zenon, <1>2 DEF ReceiveRun, ReceiveUser, ReceiveCancel, ReceiveOther, Take, ClosedLast, reading
<1>4. Released' /\ (\A h : Over(h) => Over(h)') /\ Current'
  <2>1. CASE UNCHANGED <<gens, actor>>
    BY Zenon, <1>2, <2>1 DEF Released, Over, Current
  <2>2. ASSUME NextGeneration, actor'.current = n + 1, actor'.waiting = FALSE,
               actor'.pending = actor.pending \/ actor'.pending = None
        PROVE  Released' /\ (\A h : Over(h) => Over(h)') /\ Current'
    <3>1. Released' /\ (\A h : Over(h) => Over(h)') /\ Len(gens') = n + 1
      BY Zenon, <1>1, <1>2, <2>2, NextGenerationStays, NextGenerationAdds
    <3>2. Current'
      BY <1>2, <2>2, <3>1 DEF Current, None
    <3> QED BY Zenon, <3>1, <3>2
  <2>3. CASE ReceiveRun
    <3>1. /\ NextGeneration
          /\ actor' = [actor EXCEPT !.current = n + 1, !.waiting = FALSE, !.draining = FALSE,
                            !.pending = IF actor.draining THEN None ELSE @]
      BY Zenon, <2>3 DEF ReceiveRun
    <3> HIDE DEF n
    <3>2. /\ actor'.current = n + 1 /\ actor'.waiting = FALSE
          /\ actor'.pending = actor.pending \/ actor'.pending = None
      BY Zenon, <1>1, <3>1 DEF ActorState
    <3> QED BY Zenon, <2>2, <3>1, <3>2
  <2>4. CASE ReceiveUser
    <3>1. CASE NextGeneration /\ actor' = [actor EXCEPT !.current = n + 1, !.waiting = FALSE]
      <4> HIDE DEF n
      <4>1. /\ actor'.current = n + 1 /\ actor'.waiting = FALSE /\ actor'.pending = actor.pending
        BY Zenon, <1>1, <3>1 DEF ActorState
      <4> QED BY Zenon, <2>2, <3>1, <4>1
    <3> QED BY Zenon, <2>1, <2>4, <3>1 DEF ReceiveUser
  <2>5. CASE ReceiveCancel
    <3>1. CASE actor.current = 0
      BY Zenon, <2>1, <2>5, <3>1 DEF ReceiveCancel
    <3>2. CASE actor.current # 0
      <4> DEFINE g == actor.current
                 x == [gens[g] EXCEPT !.cancelled = TRUE]
      <4>1. g \in DOMAIN gens /\ gens[g] \in RunGeneration
        BY <1>1, <3>2, ElementOfSeq DEF ActorState
      <4>2. x \in RunGeneration /\ x.state = gens[g].state /\ x.finish = gens[g].finish
        BY Zenon, <4>1 DEF RunGeneration
      <4>3. gens' = [gens EXCEPT ![g] = x] /\ actor' = actor
        BY Zenon, <2>5, <3>2 DEF ReceiveCancel
      <4> HIDE DEF g, x
      <4>4. Released' /\ \A h : Over(h) => Over(h)'
        BY Zenon, <1>1, <1>2, <4>1, <4>2, <4>3, OverStays DEF Released
      <4>5. Len(gens') = Len(gens)
        BY Zenon, <1>1, <4>1, <4>2, <4>3, GenReplaced
      <4> QED BY Zenon, <1>2, <4>3, <4>4, <4>5, CurrentStays
    <3> QED BY Zenon, <3>1, <3>2
  <2>6. CASE ReceiveOther
    BY Zenon, <2>1, <2>6 DEF ReceiveOther
  <2> QED BY Zenon, <2>3, <2>4, <2>5, <2>6
<1>5. Reports'
  BY Zenon, <1>1, <1>2, <1>3, <1>4, ReportsShrink
<1>6. ClosedLast' /\ EndsWithTerminal'
  BY Zenon, <1>2, <1>3, <1>4, ClosedStays
<1> QED BY Zenon, <1>4, <1>5, <1>6 DEF Ends

\* A RunFinished of the current generation, and the idle timer that follows a
\* completed turn, are about a generation that is over.
LEMMA FinishedEnds ==
  ASSUME IInv, Ends, ReceiveFinished \/ IdleTimeout \/ IgnoreDisconnect
  PROVE  Ends'
<1>1. TypeOK /\ actor \in ActorState(Len(gens))
  BY Zenon, IInvTypeOK DEF IInv, ActorTypes
<1>2. Released /\ Reports /\ Current /\ ClosedLast /\ EndsWithTerminal
  BY Zenon DEF Ends
<1>3. UNCHANGED <<gens, hub, stream>> /\ ~ hub.closed
  BY Zenon, <1>2 DEF ReceiveFinished, IdleTimeout, IgnoreDisconnect, Take, ClosedLast, reading
<1>4. Released' /\ \A h : Over(h) <=> Over(h)'
  BY Zenon, <1>2, <1>3 DEF Released, Over
<1>5. ClosedLast' /\ EndsWithTerminal'
  BY Zenon, <1>2, <1>3, <1>4, ClosedStays
<1>6. CASE IdleTimeout
  <2>1. actor.waiting /\ queue' = queue
        /\ actor' = [actor EXCEPT !.pending = [gen |-> actor.current, finish |-> "success"],
                                  !.draining = TRUE, !.waiting = FALSE]
    BY Zenon, <1>6 DEF IdleTimeout
  <2>2. /\ actor'.current = actor.current /\ ~ actor'.waiting
        /\ actor'.pending.gen = actor.current /\ actor'.pending.finish = "success"
    BY Zenon, <1>1, <2>1 DEF ActorState
  <2>3. Current' /\ Reports'
    BY Zenon, <1>2, <1>3, <1>4, <2>1, <2>2 DEF Current, Reports
  <2> QED BY Zenon, <1>4, <1>5, <2>3 DEF Ends
<1>7. CASE IgnoreDisconnect
  <2>1. Take("unsubscribed") /\ actor' = actor
    BY Zenon, <1>7 DEF IgnoreDisconnect
  <2>2. Current'
    BY Zenon, <1>2, <1>3, <1>4, <2>1, CurrentStays
  <2> QED BY Zenon, <1>1, <1>2, <1>4, <1>5, <2>1, <2>2, ReportsShrink DEF Ends
<1>8. CASE ReceiveFinished
  <2> DEFINE done == Head(queue)
  <2>1. Take("finished")
    BY Zenon, <1>8 DEF ReceiveFinished
  <2>2. Reports' /\ Over(done.gen) /\ done.finish # "none"
    BY Zenon, <1>1, <1>2, <1>4, <2>1, ReportsShrink
  <2>3. CASE actor' = actor
    <3>1. Current'
      BY Zenon, <1>2, <1>3, <1>4, <2>3, CurrentStays
    <3> QED BY Zenon, <1>4, <1>5, <2>2, <3>1 DEF Ends
  <2>4. CASE /\ done.gen = actor.current
             /\ actor' = [actor EXCEPT !.pending = None, !.draining = FALSE, !.waiting = TRUE]
    <3>1. actor'.current = actor.current /\ actor'.pending.gen = 0
      BY Zenon, <1>1, <2>4 DEF ActorState, None
    <3>2. Current'
      BY Zenon, <1>2, <1>3, <1>4, <2>2, <2>4, <3>1 DEF Current
    <3> QED BY <1>4, <1>5, <2>2, <3>2 DEF Ends
  <2>5. CASE /\ done.gen = actor.current
             /\ actor' = [actor EXCEPT !.pending = [gen |-> done.gen, finish |-> done.finish],
                                       !.draining = TRUE, !.waiting = FALSE]
    <3> HIDE DEF done
    <3>1. /\ actor'.current = actor.current /\ ~ actor'.waiting
          /\ actor'.pending.gen = done.gen /\ actor'.pending.finish = done.finish
      BY Zenon, <1>1, <2>5 DEF ActorState
    <3>2. Current'
      BY Zenon, <1>2, <1>3, <1>4, <2>2, <3>1 DEF Current
    <3> QED BY Zenon, <1>4, <1>5, <2>2, <3>2 DEF Ends
  <2> QED BY Zenon, <1>8, <2>3, <2>4, <2>5 DEF ReceiveFinished
<1> QED BY Zenon, <1>6, <1>7, <1>8

\* A disconnect begins: the current generation is superseded, no frame is written.
LEMMA DisconnectEnds ==
  ASSUME IInv, Ends, ReceiveDisconnect
  PROVE  Ends'
<1>1. /\ TypeOK /\ actor \in ActorState(Len(gens)) /\ hub \in HubState
      /\ actor.current \in 0 .. Len(gens)
  BY Zenon, IInvTypeOK DEF IInv, ActorTypes, ActorState, Streams
<1>2. Released /\ Reports /\ Current /\ ClosedLast /\ EndsWithTerminal
  BY Zenon DEF Ends
<1>3. /\ Take("disconnect") \/ Take("unsubscribed")
      /\ actor.at = "up" /\ gens' = Superseding(gens, actor.current) /\ stream' = stream
      /\ actor' = [actor EXCEPT !.at = "disconnecting"]
      /\ hub' = hub \/ hub' = [hub EXCEPT !.sealed = TRUE]
  BY Zenon DEF ReceiveDisconnect, Take
<1>4. Len(gens') = Len(gens) /\ Released' /\ \A h : Over(h) => Over(h)'
  <2>1. Len(gens') = Len(gens)
    BY Zenon, <1>1, <1>3, SupersedingKeeps
  <2>2. /\ DOMAIN gens' = DOMAIN gens
        /\ \A h \in DOMAIN gens : gens'[h].state = gens[h].state /\ gens'[h].finish = gens[h].finish
    BY Zenon, <1>1, <1>2, <1>3, SupersedingStays
  <2> QED BY Zenon, <1>2, <2>1, <2>2 DEF Released, Over
<1>5. Reports'
  BY Zenon, <1>1, <1>2, <1>3, <1>4, ReportsShrink
<1>6. Current'
  <2>1. /\ actor'.current = actor.current /\ actor'.pending = actor.pending
        /\ actor'.waiting = actor.waiting
    BY Zenon, <1>1, <1>3 DEF ActorState
  <2> QED BY Zenon, <1>2, <1>4, <2>1, CurrentStays
<1>7. ~ hub.closed /\ hub'.closed = hub.closed /\ hub'.terminal = hub.terminal
  BY Zenon, <1>1, <1>2, <1>3 DEF ClosedLast, HubState
<1>8. ClosedLast' /\ EndsWithTerminal'
  BY Zenon, <1>2, <1>3, <1>7 DEF ClosedLast, EndsWithTerminal
<1> QED BY Zenon, <1>4, <1>5, <1>6, <1>8 DEF Ends

\* The actor closes the hub with a frame; one that drains does so only for the
\* newest generation, whose end it has kept.
LEMMA EndEnds ==
  ASSUME IInv, Ends, FinishDisconnect \/ Drain
  PROVE  Ends'
<1>1. /\ TypeOK /\ actor \in ActorState(Len(gens)) /\ hub \in HubState
  BY Zenon, IInvTypeOK DEF IInv, ActorTypes, Streams
<1>2. Released /\ Reports /\ Current /\ ClosedLast /\ EndsWithTerminal
  BY Zenon DEF Ends
<1>3. UNCHANGED <<queue, gens, stream>>
  BY Zenon DEF FinishDisconnect, Drain
<1>4. /\ actor'.current = actor.current /\ actor'.pending = actor.pending
      /\ actor'.waiting = actor.waiting
  BY Zenon, <1>1 DEF FinishDisconnect, Drain, ActorState
<1>5. Released' /\ Reports' /\ \A h : Over(h) <=> Over(h)'
  BY Zenon, <1>2, <1>3 DEF Released, Reports, Over
<1>6. Current'
  BY Zenon, <1>2, <1>3, <1>4, <1>5, CurrentStays
<1>7. ~ hub.closed
  BY Zenon, <1>2 DEF ClosedLast, FinishDisconnect, Drain
<1>8. ASSUME NEW f, FinishTransport(f), f # "none"
      PROVE  hub'.terminal # "none"
  BY Zenon, <1>1, <1>7, <1>8 DEF FinishTransport, HubState
<1>9. ClosedLast' /\ EndsWithTerminal'
  <2>1. CASE FinishDisconnect
    <3>1. hub'.terminal # "none" /\ actor'.at = "disconnected"
      BY Zenon, <1>1, <1>8, <2>1 DEF FinishDisconnect, ActorState
    <3> QED BY Zenon, <3>1 DEF ClosedLast, EndsWithTerminal
  <2>2. CASE Drain /\ actor.pending.gen # 0 /\ actor.pending.gen = actor.current
    <3>1. hub'.terminal # "none" /\ actor'.at = "drained" /\ Over(Len(gens))'
      BY Zenon, <1>1, <1>2, <1>3, <1>5, <1>8, <2>2 DEF Drain, ActorState, Current
    <3> QED BY Zenon, <3>1 DEF ClosedLast, EndsWithTerminal
  <2>3. CASE Drain /\ ~ (actor.pending.gen # 0 /\ actor.pending.gen = actor.current)
    <3>1. hub' = hub
      BY Zenon, <2>3 DEF Drain
    <3> QED BY Zenon, <1>2, <1>3, <1>7, <3>1 DEF ClosedLast, EndsWithTerminal
  <2> QED BY Zenon, <2>1, <2>2, <2>3
<1> QED BY Zenon, <1>5, <1>6, <1>9 DEF Ends

\* Every step keeps the invariant of the terminal frame.
LEMMA NextEnds == IInv /\ Ends /\ [Next]_vars => Ends'
<1> SUFFICES ASSUME IInv, Ends, [Next]_vars PROVE Ends'
  BY Zenon
<1>1. CASE UNCHANGED vars
  <2>1. UNCHANGED <<queue, actor, gens, hub, stream>>
    BY Zenon, <1>1 DEF vars, calls, reading
  <2> QED BY Zenon, <2>1 DEF Ends, Released, Reports, Over, Current, ClosedLast, EndsWithTerminal
<1>2. CASE Actor
  BY Zenon, <1>2, ReceiveAppendEnds, FinishedEnds, DisconnectEnds, EndEnds DEF Actor, Receive
<1> QED BY Zenon, <1>1, <1>2, TaskEnds, SenderEnds, ReaderEnds DEF Next

\* The actor writes a terminal frame of its own accord only after the newest
\* generation has ended, however many RunFinished of replaced generations it was
\* sent; and a stream of api/cursor/run_sse.rs ends with that frame, unless it
\* attached after the hub was sealed.
THEOREM FramesAreTerminal == Spec => []TerminalFrames
<1>1. Init => Ends
  <2> SUFFICES ASSUME Init PROVE Ends
    OBVIOUS
  <2>1. gens = <<>> /\ queue = <<>> /\ Len(gens) = 0
    BY Zenon, EmptySeq DEF Init
  <2> QED BY <2>1 DEF Init, Ends, Released, Reports, Current, ClosedLast, EndsWithTerminal, None
<1>2. Ends => TerminalFrames
  BY Zenon DEF Ends, ClosedLast, Over, TerminalFrames, TerminalAfterNewest
<1> QED BY <1>1, <1>2, InitIInv, NextIInv, NextEnds, PTL DEF Spec
=============================================================================
