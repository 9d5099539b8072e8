---------------------- MODULE ConversationRegistryProofs ----------------------
(* Proofs about ConversationRegistry, for any generations, deliveries and      *)
(* messages.  The starters are not couriers, and None is not one of them.      *)
(* The last part is about OrderedInbox, which puts what reaches a generation   *)
(* into order: for every number of appends and every set of bodies.            *)
EXTENDS ConversationRegistry, OrderedInbox, TLAPS

Steps == {"idle", "lookup", "submit", "sent", "closing", "ended", "listen", "check",
          "asleep", "take", "activate", "run", "release", "gone"}

RegistryTypes == current \in Starter \cup {None} /\ shut \in BOOLEAN
QueueTypes == queue \in Seq(Event) /\ cargo \in [Starter -> Seq(Event)] /\ stored \subseteq Event
TaskTypes == step \in [Task -> Steps] /\ run \in [Starter -> {"none", "Running", "Finalizing", "Ended"}]

\* The phase of a Run and the step of the generation that started it agree.
PhaseFits ==
  \A s \in Starter :
    /\ step[s] = "run" => run[s] \in {"Running", "Finalizing"}
    /\ run[s] \in {"Running", "Finalizing"} => step[s] = "run"
    /\ step[s] = "release" => run[s] = "Ended"
    /\ run[s] = "Ended" => step[s] \in {"release", "gone"}

\* Only a generation that is about to start its Run, or whose Run has not claimed
\* the conversation, holds messages.
CargoFits == \A s \in Starter : step[s] \notin {"activate", "run"} => cargo[s] = <<>>

\* The inductive invariant.
IInv ==
  /\ RegistryTypes /\ QueueTypes /\ TaskTypes /\ PhaseFits /\ CargoFits
  /\ RunningIsCurrent /\ CurrentIsReleasedLater /\ NoMissedRelease

-----------------------------------------------------------------------------
LEMMA InitIInv ==
  ASSUME Init PROVE IInv
<1>1. RegistryTypes /\ TaskTypes /\ PhaseFits /\ CargoFits
  BY Zenon DEF Init, RegistryTypes, TaskTypes, PhaseFits, CargoFits, Steps, Task
<1>2. QueueTypes
  BY DEF Init, QueueTypes
<1>3. RunningIsCurrent /\ CurrentIsReleasedLater /\ NoMissedRelease
  BY Zenon DEF Init, RunningIsCurrent, CurrentIsReleasedLater, NoMissedRelease
<1> QED BY Zenon, <1>1, <1>2, <1>3 DEF IInv

\* The queue after a push, as a set: the message has joined it.
LEMMA PushAdds ==
  ASSUME queue \in Seq(Event), NEW t \in Task
  PROVE  /\ PushPending(EventOf[t]) \in Seq(Event)
         /\ \A e : Contains(PushPending(EventOf[t]), e) <=> Contains(queue, e) \/ e = EventOf[t]
<1>1. EventOf[t] \in Event
  BY Zenon DEF Event
<1>2. CASE Contains(queue, EventOf[t])
  BY Zenon, <1>2 DEF PushPending
<1>3. CASE ~ Contains(queue, EventOf[t])
  <2>1. PushPending(EventOf[t]) = Append(queue, EventOf[t])
    BY Zenon, <1>3 DEF PushPending
  <2>2. Append(queue, EventOf[t]) \in Seq(Event)
    BY <1>1
  <2>3. \A e : Contains(Append(queue, EventOf[t]), e) <=> Contains(queue, e) \/ e = EventOf[t]
    BY <1>1 DEF Contains
  <2> QED BY Zenon, <2>1, <2>2, <2>3
<1> QED BY Zenon, <1>2, <1>3

\* What a generation takes: the queue and its own messages.
LEMMA TakeJoins ==
  ASSUME queue \in Seq(Event), NEW s \in Starter
  PROVE  /\ queue \o Own(s) \in Seq(Event)
         /\ \A e : Contains(queue \o Own(s), e) <=> Contains(queue, e) \/ Contains(Own(s), e)
<1>0. EventOf[s] \in Event
  BY Zenon DEF Event, Task
<1>1. Own(s) \in Seq(Event)
  BY <1>0 DEF Own
<1>2. \A e : Contains(queue \o Own(s), e) => Contains(queue, e) \/ Contains(Own(s), e)
  BY <1>1 DEF Contains
<1>3. ASSUME NEW e, Contains(queue, e)
      PROVE  Contains(queue \o Own(s), e)
  BY <1>1, <1>3 DEF Contains
<1>4. ASSUME NEW e, Contains(Own(s), e)
      PROVE  Contains(queue \o Own(s), e)
  <2>1. PICK i \in 1 .. Len(Own(s)) : Own(s)[i] = e
    BY Zenon, <1>4 DEF Contains
  <2>2. (queue \o Own(s))[Len(queue) + i] = e /\ Len(queue) + i \in 1 .. Len(queue \o Own(s))
    BY <1>1, <2>1
  <2> QED BY Zenon, <2>2 DEF Contains
<1> QED BY <1>1, <1>2, <1>3, <1>4

\* The messages of a sequence, as a set.
LEMMA SetOf ==
  ASSUME NEW q \in Seq(Event)
  PROVE  ToSet(q) \subseteq Event /\ \A e : e \in ToSet(q) <=> Contains(q, e)
  BY DEF ToSet, Contains

\* A delivery.
LEMMA DeliverStep ==
  ASSUME None \notin Starter, IInv, NEW t \in Task,
         Begin(t) \/ Lookup(t) \/ Submit(t) \/ QueueMessage(t) \/ Applied(t)
  PROVE  IInv'
<1> USE DEF IInv
<1>1. CASE Begin(t)
  <2>1. RegistryTypes' /\ TaskTypes'
    BY Zenon, <1>1 DEF Begin, registry, runs, To, GiveUp, RegistryTypes, TaskTypes, Steps, Task
  <2>2. PhaseFits' /\ CargoFits'
    BY Zenon, <1>1
      DEF Begin, registry, runs, To, GiveUp, RegistryTypes, TaskTypes, QueueTypes, Steps, Task,
          PhaseFits, CargoFits
  <2>3. QueueTypes'
    BY Zenon, <1>1 DEF Begin, registry, runs, GiveUp, QueueTypes, Event
  <2>4. RunningIsCurrent' /\ CurrentIsReleasedLater'
    BY Zenon, <1>1
      DEF Begin, registry, runs, To, GiveUp, RegistryTypes, TaskTypes, Steps, Task, PhaseFits,
          RunningIsCurrent, CurrentIsReleasedLater
  <2>5. NoMissedRelease'
    BY Zenon, <1>1
      DEF Begin, registry, runs, To, GiveUp, RegistryTypes, TaskTypes, Steps, Task, PhaseFits,
          NoMissedRelease
  <2> QED BY Zenon, <2>1, <2>2, <2>3, <2>4, <2>5
<1>2. CASE Lookup(t)
  <2>1. RegistryTypes' /\ TaskTypes'
    BY Zenon, <1>2 DEF Lookup, registry, runs, To, GiveUp, RegistryTypes, TaskTypes, Steps, Task
  <2>2. PhaseFits' /\ CargoFits'
    BY Zenon, <1>2
      DEF Lookup, registry, runs, To, GiveUp, RegistryTypes, TaskTypes, QueueTypes, Steps, Task,
          PhaseFits, CargoFits
  <2>3. QueueTypes'
    BY Zenon, <1>2 DEF Lookup, registry, runs, GiveUp, QueueTypes, Event
  <2>4. RunningIsCurrent' /\ CurrentIsReleasedLater'
    BY Zenon, <1>2
      DEF Lookup, registry, runs, To, GiveUp, RegistryTypes, TaskTypes, Steps, Task, PhaseFits,
          RunningIsCurrent, CurrentIsReleasedLater
  <2>5. NoMissedRelease'
    BY Zenon, <1>2
      DEF Lookup, registry, runs, To, GiveUp, RegistryTypes, TaskTypes, Steps, Task, PhaseFits,
          NoMissedRelease
  <2> QED BY <2>1, <2>2, <2>3, <2>4, <2>5
<1>3. CASE Submit(t)
  <2>1. RegistryTypes' /\ TaskTypes'
    BY Zenon, <1>3 DEF Submit, registry, runs, To, GiveUp, RegistryTypes, TaskTypes, Steps, Task
  <2>2. PhaseFits' /\ CargoFits'
    BY Zenon, <1>3
      DEF Submit, registry, runs, To, GiveUp, RegistryTypes, TaskTypes, QueueTypes, Steps, Task,
          PhaseFits, CargoFits
  <2>3. QueueTypes'
    BY Zenon, <1>3 DEF Submit, registry, runs, GiveUp, QueueTypes, Event
  <2>4. RunningIsCurrent' /\ CurrentIsReleasedLater'
    BY Zenon, <1>3
      DEF Submit, registry, runs, To, GiveUp, RegistryTypes, TaskTypes, Steps, Task, PhaseFits,
          RunningIsCurrent, CurrentIsReleasedLater
  <2>5. NoMissedRelease'
    BY Zenon, <1>3
      DEF Submit, registry, runs, To, GiveUp, RegistryTypes, TaskTypes, Steps, Task, PhaseFits,
          NoMissedRelease
  <2> QED BY <2>1, <2>2, <2>3, <2>4, <2>5
<1>4. CASE QueueMessage(t)
  <2>1. RegistryTypes' /\ TaskTypes'
    BY Zenon, <1>4 DEF QueueMessage, registry, runs, To, GiveUp, RegistryTypes, TaskTypes, Steps, Task
  <2>2. PhaseFits' /\ CargoFits'
    BY Zenon, <1>4
      DEF QueueMessage, registry, runs, To, GiveUp, RegistryTypes, TaskTypes, QueueTypes, Steps, Task,
          PhaseFits, CargoFits
  <2>3. QueueTypes'
    BY Zenon, <1>4, PushAdds DEF QueueMessage, runs, QueueTypes
  <2>4. RunningIsCurrent' /\ CurrentIsReleasedLater'
    BY Zenon, <1>4
      DEF QueueMessage, registry, runs, To, GiveUp, RegistryTypes, TaskTypes, Steps, Task, PhaseFits,
          RunningIsCurrent, CurrentIsReleasedLater
  <2>5. NoMissedRelease'
    BY Zenon, <1>4
      DEF QueueMessage, registry, runs, To, GiveUp, RegistryTypes, TaskTypes, Steps, Task, PhaseFits,
          NoMissedRelease
  <2> QED BY <2>1, <2>2, <2>3, <2>4, <2>5
<1>5. CASE Applied(t)
  <2>1. RegistryTypes' /\ TaskTypes'
    BY Zenon, <1>5 DEF Applied, registry, runs, To, GiveUp, RegistryTypes, TaskTypes, Steps, Task
  <2>2. PhaseFits' /\ CargoFits'
    BY Zenon, <1>5
      DEF Applied, registry, runs, To, GiveUp, RegistryTypes, TaskTypes, QueueTypes, Steps, Task,
          PhaseFits, CargoFits
  <2>3. QueueTypes'
    BY Zenon, <1>5 DEF Applied, registry, runs, GiveUp, QueueTypes, Event
  <2>4. RunningIsCurrent' /\ CurrentIsReleasedLater'
    BY Zenon, <1>5
      DEF Applied, registry, runs, To, GiveUp, RegistryTypes, TaskTypes, Steps, Task, PhaseFits,
          RunningIsCurrent, CurrentIsReleasedLater
  <2>5. NoMissedRelease'
    BY Zenon, <1>5
      DEF Applied, registry, runs, To, GiveUp, RegistryTypes, TaskTypes, Steps, Task, PhaseFits,
          NoMissedRelease
  <2> QED BY <2>1, <2>2, <2>3, <2>4, <2>5
<1> QED BY Zenon, <1>1, <1>2, <1>3, <1>4, <1>5

\* A generation on the way to its Run.
LEMMA StartStep ==
  ASSUME None \notin Starter, IInv, NEW s \in Starter,
         Listen(s) \/ Check(s) \/ Woken(s) \/ TakePending(s) \/ Activate(s) \/ Abandon(s)
  PROVE  IInv'
<1> USE DEF IInv
<1>1. CASE Listen(s)
  <2>1. RegistryTypes' /\ TaskTypes'
    BY Zenon, <1>1 DEF Listen, registry, runs, To, GiveUp, RegistryTypes, TaskTypes, Steps, Task
  <2>2. PhaseFits' /\ CargoFits'
    BY Zenon, <1>1
      DEF Listen, registry, runs, To, GiveUp, RegistryTypes, TaskTypes, QueueTypes, Steps, Task,
          PhaseFits, CargoFits
  <2>3. QueueTypes'
    BY Zenon, <1>1 DEF Listen, registry, runs, GiveUp, QueueTypes, Event
  <2>4. RunningIsCurrent' /\ CurrentIsReleasedLater'
    BY Zenon, <1>1
      DEF Listen, registry, runs, To, GiveUp, RegistryTypes, TaskTypes, Steps, Task, PhaseFits,
          RunningIsCurrent, CurrentIsReleasedLater
  <2>5. NoMissedRelease'
    BY Zenon, <1>1
      DEF Listen, registry, runs, To, GiveUp, RegistryTypes, TaskTypes, Steps, Task, PhaseFits,
          NoMissedRelease
  <2> QED BY Zenon, <2>1, <2>2, <2>3, <2>4, <2>5
<1>2. CASE Check(s)
  <2>1. RegistryTypes' /\ TaskTypes'
    BY Zenon, <1>2 DEF Check, registry, runs, To, GiveUp, RegistryTypes, TaskTypes, Steps, Task
  <2>2. PhaseFits' /\ CargoFits'
    BY Zenon, <1>2
      DEF Check, registry, runs, To, GiveUp, RegistryTypes, TaskTypes, QueueTypes, Steps, Task,
          PhaseFits, CargoFits
  <2>3. QueueTypes'
    BY Zenon, <1>2 DEF Check, registry, runs, GiveUp, QueueTypes, Event
  <2>4. RunningIsCurrent' /\ CurrentIsReleasedLater'
    BY Zenon, <1>2
      DEF Check, registry, runs, To, GiveUp, RegistryTypes, TaskTypes, Steps, Task, PhaseFits,
          RunningIsCurrent, CurrentIsReleasedLater
  <2>5. NoMissedRelease'
    BY Zenon, <1>2
      DEF Check, registry, runs, To, GiveUp, RegistryTypes, TaskTypes, Steps, Task, PhaseFits,
          NoMissedRelease
  <2> QED BY <2>1, <2>2, <2>3, <2>4, <2>5
<1>3. CASE Woken(s)
  <2>1. RegistryTypes' /\ TaskTypes'
    BY Zenon, <1>3 DEF Woken, registry, runs, To, GiveUp, RegistryTypes, TaskTypes, Steps, Task
  <2>2. PhaseFits' /\ CargoFits'
    BY Zenon, <1>3
      DEF Woken, registry, runs, To, GiveUp, RegistryTypes, TaskTypes, QueueTypes, Steps, Task,
          PhaseFits, CargoFits
  <2>3. QueueTypes'
    BY Zenon, <1>3 DEF Woken, registry, runs, GiveUp, QueueTypes, Event
  <2>4. RunningIsCurrent' /\ CurrentIsReleasedLater'
    BY Zenon, <1>3
      DEF Woken, registry, runs, To, GiveUp, RegistryTypes, TaskTypes, Steps, Task, PhaseFits,
          RunningIsCurrent, CurrentIsReleasedLater
  <2>5. NoMissedRelease'
    BY Zenon, <1>3
      DEF Woken, registry, runs, To, GiveUp, RegistryTypes, TaskTypes, Steps, Task, PhaseFits,
          NoMissedRelease
  <2> QED BY <2>1, <2>2, <2>3, <2>4, <2>5
<1>4. CASE TakePending(s)
  <2>1. RegistryTypes' /\ TaskTypes'
    BY Zenon, <1>4 DEF TakePending, registry, runs, To, GiveUp, RegistryTypes, TaskTypes, Steps, Task
  <2>2. PhaseFits' /\ CargoFits'
    BY Zenon, <1>4
      DEF TakePending, registry, runs, To, GiveUp, RegistryTypes, TaskTypes, QueueTypes, Steps, Task,
          PhaseFits, CargoFits
  <2>3. QueueTypes'
    <3>1. queue \o Own(s) \in Seq(Event)
      BY Zenon, TakeJoins DEF QueueTypes
    <3> QED BY <1>4, <3>1 DEF TakePending, runs, QueueTypes
  <2>4. RunningIsCurrent' /\ CurrentIsReleasedLater'
    BY Zenon, <1>4
      DEF TakePending, registry, runs, To, GiveUp, RegistryTypes, TaskTypes, Steps, Task, PhaseFits,
          RunningIsCurrent, CurrentIsReleasedLater
  <2>5. NoMissedRelease'
    BY Zenon, <1>4
      DEF TakePending, registry, runs, To, GiveUp, RegistryTypes, TaskTypes, Steps, Task, PhaseFits,
          NoMissedRelease
  <2> QED BY <2>1, <2>2, <2>3, <2>4, <2>5
<1>5. CASE Activate(s)
  <2>1. RegistryTypes' /\ TaskTypes'
    BY Zenon, <1>5 DEF Activate, registry, runs, To, GiveUp, RegistryTypes, TaskTypes, Steps, Task
  <2>2. PhaseFits' /\ CargoFits'
    BY Zenon, <1>5
      DEF Activate, registry, runs, To, GiveUp, RegistryTypes, TaskTypes, QueueTypes, Steps, Task,
          PhaseFits, CargoFits
  <2>3. QueueTypes'
    BY Zenon, <1>5 DEF Activate, registry, runs, GiveUp, QueueTypes, Event
  <2>4. RunningIsCurrent' /\ CurrentIsReleasedLater'
    BY Zenon, <1>5
      DEF Activate, registry, runs, To, GiveUp, RegistryTypes, TaskTypes, Steps, Task, PhaseFits,
          RunningIsCurrent, CurrentIsReleasedLater
  <2>5. NoMissedRelease'
    BY Zenon, <1>5
      DEF Activate, registry, runs, To, GiveUp, RegistryTypes, TaskTypes, Steps, Task, PhaseFits,
          NoMissedRelease
  <2> QED BY <2>1, <2>2, <2>3, <2>4, <2>5
<1>6. CASE Abandon(s)
  <2>1. RegistryTypes' /\ TaskTypes'
    BY Zenon, <1>6 DEF Abandon, registry, runs, To, GiveUp, RegistryTypes, TaskTypes, Steps, Task
  <2>2. PhaseFits' /\ CargoFits'
    BY Zenon, <1>6
      DEF Abandon, registry, runs, To, GiveUp, RegistryTypes, TaskTypes, QueueTypes, Steps, Task,
          PhaseFits, CargoFits
  <2>3. QueueTypes'
    BY <1>6 DEF Abandon, registry, runs, GiveUp, QueueTypes, Event
  <2>4. RunningIsCurrent' /\ CurrentIsReleasedLater'
    BY Zenon, <1>6
      DEF Abandon, registry, runs, To, GiveUp, RegistryTypes, TaskTypes, Steps, Task, PhaseFits,
          RunningIsCurrent, CurrentIsReleasedLater
  <2>5. NoMissedRelease'
    BY Zenon, <1>6
      DEF Abandon, registry, runs, To, GiveUp, RegistryTypes, TaskTypes, Steps, Task, PhaseFits,
          NoMissedRelease
  <2> QED BY <2>1, <2>2, <2>3, <2>4, <2>5
<1> QED BY Zenon, <1>1, <1>2, <1>3, <1>4, <1>5, <1>6

\* The Run and its end.
LEMMA EngineStep ==
  ASSUME None \notin Starter, IInv, NEW s \in Starter,
         Claim(s) \/ EndRun(s) \/ Release(s) \/ BeginFinalizing(s) \/ ResumeRunning(s) \/ Doom(s)
  PROVE  IInv'
<1> USE DEF IInv
<1>1. CASE Claim(s)
  <2>1. RegistryTypes' /\ TaskTypes'
    BY Zenon, <1>1 DEF Claim, registry, runs, To, GiveUp, RegistryTypes, TaskTypes, Steps, Task
  <2>2. PhaseFits' /\ CargoFits'
    BY Zenon, <1>1
      DEF Claim, registry, runs, To, GiveUp, RegistryTypes, TaskTypes, QueueTypes, Steps, Task,
          PhaseFits, CargoFits
  <2>3. QueueTypes'
    <3>1. ToSet(cargo[s]) \subseteq Event
      BY Zenon, SetOf DEF QueueTypes
    <3> QED BY <1>1, <3>1 DEF Claim, registry, QueueTypes
  <2>4. RunningIsCurrent' /\ CurrentIsReleasedLater'
    BY Zenon, <1>1
      DEF Claim, registry, runs, To, GiveUp, RegistryTypes, TaskTypes, Steps, Task, PhaseFits,
          RunningIsCurrent, CurrentIsReleasedLater
  <2>5. NoMissedRelease'
    BY Zenon, <1>1
      DEF Claim, registry, runs, To, GiveUp, RegistryTypes, TaskTypes, Steps, Task, PhaseFits,
          NoMissedRelease
  <2> QED BY Zenon, <2>1, <2>2, <2>3, <2>4, <2>5
<1>2. CASE EndRun(s)
  <2>1. RegistryTypes' /\ TaskTypes'
    BY Zenon, <1>2 DEF EndRun, registry, runs, To, GiveUp, RegistryTypes, TaskTypes, Steps, Task
  <2>2. PhaseFits' /\ CargoFits'
    BY Zenon, <1>2
      DEF EndRun, registry, runs, To, GiveUp, RegistryTypes, TaskTypes, QueueTypes, Steps, Task,
          PhaseFits, CargoFits
  <2>3. QueueTypes'
    BY <1>2 DEF EndRun, registry, runs, GiveUp, QueueTypes, Event
  <2>4. RunningIsCurrent' /\ CurrentIsReleasedLater'
    BY Zenon, <1>2
      DEF EndRun, registry, runs, To, GiveUp, RegistryTypes, TaskTypes, Steps, Task, PhaseFits,
          RunningIsCurrent, CurrentIsReleasedLater
  <2>5. NoMissedRelease'
    BY Zenon, <1>2
      DEF EndRun, registry, runs, To, GiveUp, RegistryTypes, TaskTypes, Steps, Task, PhaseFits,
          NoMissedRelease
  <2> QED BY <2>1, <2>2, <2>3, <2>4, <2>5
<1>3. CASE Release(s)
  <2>1. RegistryTypes' /\ TaskTypes'
    BY Zenon, <1>3 DEF Release, registry, runs, To, GiveUp, RegistryTypes, TaskTypes, Steps, Task
  <2>2. PhaseFits' /\ CargoFits'
    BY Zenon, <1>3
      DEF Release, registry, runs, To, GiveUp, RegistryTypes, TaskTypes, QueueTypes, Steps, Task,
          PhaseFits, CargoFits
  <2>3. QueueTypes'
    BY Zenon, <1>3 DEF Release, registry, runs, GiveUp, QueueTypes, Event
  <2>4. RunningIsCurrent' /\ CurrentIsReleasedLater'
    BY Zenon, <1>3
      DEF Release, registry, runs, To, GiveUp, RegistryTypes, TaskTypes, Steps, Task, PhaseFits,
          RunningIsCurrent, CurrentIsReleasedLater
  <2>5. NoMissedRelease'
    BY Zenon, <1>3
      DEF Release, registry, runs, To, GiveUp, RegistryTypes, TaskTypes, Steps, Task, PhaseFits,
          NoMissedRelease
  <2> QED BY <2>1, <2>2, <2>3, <2>4, <2>5
<1>4. CASE BeginFinalizing(s)
  <2>1. RegistryTypes' /\ TaskTypes'
    BY Zenon, <1>4 DEF BeginFinalizing, registry, runs, To, GiveUp, RegistryTypes, TaskTypes, Steps, Task
  <2>2. PhaseFits' /\ CargoFits'
    BY Zenon, <1>4
      DEF BeginFinalizing, registry, runs, To, GiveUp, RegistryTypes, TaskTypes, QueueTypes, Steps,
          Task, PhaseFits, CargoFits
  <2>3. QueueTypes'
    BY Zenon, <1>4 DEF BeginFinalizing, registry, runs, GiveUp, QueueTypes, Event
  <2>4. RunningIsCurrent' /\ CurrentIsReleasedLater'
    BY Zenon, <1>4
      DEF BeginFinalizing, registry, runs, To, GiveUp, RegistryTypes, TaskTypes, Steps, Task, PhaseFits,
          RunningIsCurrent, CurrentIsReleasedLater
  <2>5. NoMissedRelease'
    BY Zenon, <1>4
      DEF BeginFinalizing, registry, runs, To, GiveUp, RegistryTypes, TaskTypes, Steps, Task, PhaseFits,
          NoMissedRelease
  <2> QED BY <2>1, <2>2, <2>3, <2>4, <2>5
<1>5. CASE ResumeRunning(s)
  <2>1. RegistryTypes' /\ TaskTypes'
    BY Zenon, <1>5 DEF ResumeRunning, registry, runs, To, GiveUp, RegistryTypes, TaskTypes, Steps, Task
  <2>2. PhaseFits' /\ CargoFits'
    BY Zenon, <1>5
      DEF ResumeRunning, registry, runs, To, GiveUp, RegistryTypes, TaskTypes, QueueTypes, Steps, Task,
          PhaseFits, CargoFits
  <2>3. QueueTypes'
    BY Zenon, <1>5 DEF ResumeRunning, registry, runs, GiveUp, QueueTypes, Event
  <2>4. RunningIsCurrent' /\ CurrentIsReleasedLater'
    BY Zenon, <1>5
      DEF ResumeRunning, registry, runs, To, GiveUp, RegistryTypes, TaskTypes, Steps, Task, PhaseFits,
          RunningIsCurrent, CurrentIsReleasedLater
  <2>5. NoMissedRelease'
    BY Zenon, <1>5
      DEF ResumeRunning, registry, runs, To, GiveUp, RegistryTypes, TaskTypes, Steps, Task, PhaseFits,
          NoMissedRelease
  <2> QED BY <2>1, <2>2, <2>3, <2>4, <2>5
<1>6. CASE Doom(s)
  <2>1. RegistryTypes' /\ TaskTypes'
    BY Zenon, <1>6 DEF Doom, registry, runs, To, GiveUp, RegistryTypes, TaskTypes, Steps, Task
  <2>2. PhaseFits' /\ CargoFits'
    BY Zenon, <1>6
      DEF Doom, registry, runs, To, GiveUp, RegistryTypes, TaskTypes, QueueTypes, Steps, Task,
          PhaseFits, CargoFits
  <2>3. QueueTypes'
    BY Zenon, <1>6 DEF Doom, registry, runs, GiveUp, QueueTypes, Event
  <2>4. RunningIsCurrent' /\ CurrentIsReleasedLater'
    BY Zenon, <1>6
      DEF Doom, registry, runs, To, GiveUp, RegistryTypes, TaskTypes, Steps, Task, PhaseFits,
          RunningIsCurrent, CurrentIsReleasedLater
  <2>5. NoMissedRelease'
    BY Zenon, <1>6
      DEF Doom, registry, runs, To, GiveUp, RegistryTypes, TaskTypes, Steps, Task, PhaseFits,
          NoMissedRelease
  <2> QED BY <2>1, <2>2, <2>3, <2>4, <2>5
<1> QED BY <1>1, <1>2, <1>3, <1>4, <1>5, <1>6

LEMMA ShutdownStep ==
  ASSUME None \notin Starter, IInv, Shutdown
  PROVE  IInv'
  BY Zenon DEF IInv, Shutdown, RegistryTypes, TaskTypes, QueueTypes, PhaseFits, CargoFits,
         RunningIsCurrent, CurrentIsReleasedLater, NoMissedRelease

LEMMA NextIInv ==
  ASSUME None \notin Starter, IInv, [Next]_vars
  PROVE  IInv'
<1>1. CASE UNCHANGED vars
  BY Zenon, <1>1 DEF vars, registry, runs, IInv, RegistryTypes, TaskTypes, QueueTypes, PhaseFits,
              CargoFits, RunningIsCurrent, CurrentIsReleasedLater, NoMissedRelease
<1>2. CASE Next
  BY Zenon, <1>2, DeliverStep, StartStep, EngineStep, ShutdownStep DEF Next, Deliver, Start, Engine
<1> QED BY Zenon, <1>1, <1>2

LEMMA Invariance ==
  ASSUME None \notin Starter
  PROVE  Spec => []IInv
<1>1. Init => IInv
  BY Zenon, InitIInv
<1>2. IInv /\ [Next]_vars => IInv'
  BY Zenon, NextIInv
<1> QED BY <1>1, <1>2, PTL DEF Spec

-----------------------------------------------------------------------------
\* However many generations of however many transports start, end and are
\* superseded, a Run that was not told to stop is the one the registry names
\* (activate cancels the Run that loses its place).
THEOREM RunsTakeTurns ==
  ASSUME None \notin Starter
  PROVE  Spec => []RunningIsCurrent
<1>1. IInv => RunningIsCurrent
  BY Zenon DEF IInv
<1> QED BY <1>1, Invariance, PTL

\* The registry names a Run only as long as its release is still to come, and a
\* starter that sleeps in wait_until_idle will be woken by one, until shutdown.
THEOREM ReleaseWillCome ==
  ASSUME None \notin Starter
  PROVE  Spec => [](CurrentIsReleasedLater /\ NoMissedRelease)
<1>1. IInv => CurrentIsReleasedLater /\ NoMissedRelease
  BY Zenon DEF IInv
<1> QED BY <1>1, Invariance, PTL

-----------------------------------------------------------------------------
(* The registry implements the mailbox.                                        *)

IsHeld(e) == \E s \in Starter : Contains(cargo[s], e)

\* Where a message is, case by case.
LEMMA PlaceIs ==
  ASSUME NEW e \in Event
  PROVE  /\ placeOf[e] = "stored" <=> e \in stored
         /\ placeOf[e] = "kept" <=> e \notin stored /\ Contains(queue, e)
         /\ placeOf[e] = "held" <=> e \notin stored /\ ~ Contains(queue, e) /\ IsHeld(e)
         /\ placeOf[e] = "outside" <=> e \notin stored /\ ~ Contains(queue, e) /\ ~ IsHeld(e)
         /\ placeOf'[e] = "stored" <=> e \in stored'
         /\ placeOf'[e] = "kept" <=> e \notin stored' /\ Contains(queue', e)
         /\ placeOf'[e] = "held" <=> e \notin stored' /\ ~ Contains(queue', e) /\ IsHeld(e)'
         /\ placeOf'[e] = "outside" <=> e \notin stored' /\ ~ Contains(queue', e) /\ ~ IsHeld(e)'
         /\ placeOf[e] \in {"stored", "kept", "held", "outside"}
         /\ placeOf'[e] \in {"stored", "kept", "held", "outside"}
  BY Zenon DEF placeOf, IsHeld

\* A move of the mailbox, message by message.
LEMMA MoveIs ==
  ASSUME NEW es, NEW to,
         \A e \in Event : placeOf'[e] = IF e \in es THEN to ELSE placeOf[e]
  PROVE  Mailbox!Move(es, to)
  BY Zenon DEF Mailbox!Move, placeOf

\* A message refused by its Run is kept.
LEMMA QueueKeeps ==
  ASSUME IInv, NEW t \in Task, QueueMessage(t)
  PROVE  [Mailbox!MailboxNext]_placeOf
<1> DEFINE m == EventOf[t]
<1>1. m \in Event
  BY Zenon DEF Event
<1>2. \A e \in Event : /\ e \in stored' <=> e \in stored
                       /\ Contains(queue', e) <=> Contains(queue, e) \/ e = m
                       /\ IsHeld(e)' <=> IsHeld(e)
  BY Zenon, PushAdds DEF QueueMessage, runs, IInv, QueueTypes, IsHeld
<1>3. CASE placeOf[m] \in {"outside", "held"}
  <2>1. \A e \in Event : placeOf'[e] = IF e \in {m} THEN "kept" ELSE placeOf[e]
    BY Zenon, <1>1, <1>2, <1>3, PlaceIs
  <2>2. Mailbox!Move({m}, "kept")
    BY Zenon, <2>1, MoveIs
  <2> QED BY Zenon, <1>1, <1>3, <2>2 DEF Mailbox!MailboxNext, Mailbox!Keep
<1>4. CASE placeOf[m] \notin {"outside", "held"}
  <2>1. \A e \in Event : placeOf'[e] = placeOf[e]
    BY Zenon, <1>1, <1>2, <1>4, PlaceIs
  <2> QED BY Zenon, <2>1 DEF placeOf
<1> QED BY Zenon, <1>3, <1>4

\* A generation takes all that is kept, and brings its own.
LEMMA TakeHands ==
  ASSUME IInv, NEW s \in Starter, TakePending(s)
  PROVE  Mailbox!MailboxNext
<1> DEFINE own == {e \in Event : placeOf[e] = "outside" /\ Contains(Own(s), e)}
           es == {e \in Event : placeOf[e] = "kept"} \cup own
<1>1. cargo[s] = <<>> /\ stored' = stored /\ queue' = <<>>
  BY Zenon DEF TakePending, runs, IInv, CargoFits
<1>2. \A e : ~ Contains(<<>>, e)
  BY DEF Contains
<1>3. \A r \in Starter : cargo'[r] = IF r = s THEN queue \o Own(s) ELSE cargo[r]
  BY Zenon DEF TakePending, IInv, QueueTypes
<1>4. \A e : IsHeld(e)' <=> IsHeld(e) \/ Contains(queue, e) \/ Contains(Own(s), e)
  BY Zenon, <1>1, <1>2, <1>3, TakeJoins DEF IsHeld, IInv, QueueTypes
<1>5. \A e \in Event : placeOf'[e] = IF e \in es THEN "held" ELSE placeOf[e]
  BY Zenon, <1>1, <1>2, <1>4, PlaceIs
<1>6. Mailbox!Move(es, "held")
  BY Zenon, <1>5, MoveIs
<1>7. Mailbox!Hand(own)
  BY Zenon, <1>6 DEF Mailbox!Hand
<1>8. own \in SUBSET Event
  BY Zenon
<1> QED BY Zenon, <1>7, <1>8 DEF Mailbox!MailboxNext

\* A Run that claims the conversation, or applies what it was sent, stores it.
LEMMA ClaimStores ==
  ASSUME IInv, NEW s \in Starter, Claim(s)
  PROVE  Mailbox!MailboxNext
<1> DEFINE es == ToSet(cargo[s])
<1>1. cargo[s] \in Seq(Event) /\ cargo[s] # <<>>
  BY Zenon DEF Claim, IInv, QueueTypes
<1>2. es \subseteq Event /\ \A e : e \in es <=> Contains(cargo[s], e)
  BY Zenon, <1>1, SetOf
<1>3. Contains(cargo[s], cargo[s][1])
  BY <1>1 DEF Contains
<1>4. \A e : ~ Contains(<<>>, e)
  BY DEF Contains
<1>5. \A r \in Starter : cargo'[r] = IF r = s THEN <<>> ELSE cargo[r]
  BY Zenon DEF Claim, IInv, QueueTypes
<1>6. stored' = stored \cup es /\ queue' = queue
  BY Zenon DEF Claim, registry
<1>7. \A e : e \notin es => (IsHeld(e)' <=> IsHeld(e))
  BY Zenon, <1>2, <1>4, <1>5 DEF IsHeld
<1> HIDE DEF es
<1>8. \A e \in Event : placeOf'[e] = IF e \in es THEN "stored" ELSE placeOf[e]
  BY Zenon, <1>2, <1>6, <1>7, PlaceIs
<1>9. Mailbox!Store(es)
  BY Zenon, <1>2, <1>3, <1>8, MoveIs DEF Mailbox!Store
<1> QED BY Zenon, <1>2, <1>9 DEF Mailbox!MailboxNext

LEMMA AppliedStores ==
  ASSUME IInv, NEW t \in Task, Applied(t)
  PROVE  Mailbox!MailboxNext
<1> DEFINE es == {EventOf[t]}
<1>1. es \in SUBSET Event /\ es # {}
  BY Zenon DEF Event
<1>2. /\ \A e \in Event : e \in stored' <=> e \in stored \/ e \in es
      /\ queue' = queue
      /\ \A e : IsHeld(e)' <=> IsHeld(e)
  BY Zenon DEF Applied, registry, IsHeld
<1> HIDE DEF es
<1>3. \A e \in Event : placeOf'[e] = IF e \in es THEN "stored" ELSE placeOf[e]
  BY Zenon, <1>2, PlaceIs
<1>4. Mailbox!Store(es)
  BY Zenon, <1>1, <1>3, MoveIs DEF Mailbox!Store
<1> QED BY Zenon, <1>1, <1>4 DEF Mailbox!MailboxNext

\* A generation that ends or gives up drops what it held, unless another holds
\* it too.
LEMMA EndDrops ==
  ASSUME IInv, NEW s \in Starter, EndRun(s) \/ Abandon(s)
  PROVE  Mailbox!MailboxNext
<1> DEFINE es == {e \in Event : placeOf[e] = "held" /\ ~ IsHeld(e)'}
<1>1. queue' = queue /\ stored' = stored
  BY Zenon DEF EndRun, Abandon, registry, runs
<1>2. \A r \in Starter : cargo'[r] = IF r = s THEN <<>> ELSE cargo[r]
  BY Zenon DEF EndRun, Abandon, GiveUp, IInv, QueueTypes
<1>3. \A e : ~ Contains(<<>>, e)
  BY DEF Contains
<1>4. \A e : IsHeld(e)' => IsHeld(e)
  BY Zenon, <1>2, <1>3 DEF IsHeld
<1>5. \A e \in Event : placeOf'[e] = IF e \in es THEN "outside" ELSE placeOf[e]
  BY Zenon, <1>1, <1>4, PlaceIs
<1>6. Mailbox!Drop(es)
  BY Zenon, <1>5, MoveIs DEF Mailbox!Drop
<1>7. es \in SUBSET Event
  BY Zenon
<1> QED BY Zenon, <1>6, <1>7 DEF Mailbox!MailboxNext

\* Every other step leaves each message where it is.
LEMMA StepsStay ==
  ASSUME UNCHANGED <<queue, cargo, stored>>
  PROVE  placeOf' = placeOf
  BY Zenon DEF placeOf

LEMMA NextMoves ==
  ASSUME IInv, [Next]_vars
  PROVE  [Mailbox!MailboxNext]_placeOf
<1>1. CASE UNCHANGED vars
  BY Zenon, <1>1, StepsStay DEF vars, registry, runs
<1>2. ASSUME NEW t \in Task, Deliver(t)
      PROVE  [Mailbox!MailboxNext]_placeOf
  <2>1. CASE Begin(t) \/ Lookup(t) \/ Submit(t)
    <3>1. UNCHANGED <<queue, cargo, stored>>
      BY Zenon, <2>1 DEF Begin, Lookup, Submit, registry, runs
    <3> QED BY Zenon, <3>1, StepsStay
  <2> QED BY Zenon, <1>2, <2>1, QueueKeeps, AppliedStores DEF Deliver
<1>3. ASSUME NEW s \in Starter, Start(s)
      PROVE  [Mailbox!MailboxNext]_placeOf
  <2>1. CASE Listen(s) \/ Check(s) \/ Woken(s) \/ Activate(s)
    <3>1. UNCHANGED <<queue, cargo, stored>>
      BY Zenon, <2>1 DEF Listen, Check, Woken, Activate, registry, runs
    <3> QED BY Zenon, <3>1, StepsStay
  <2> QED BY Zenon, <1>3, <2>1, TakeHands, EndDrops DEF Start
<1>4. ASSUME NEW s \in Starter, Engine(s) \/ BeginFinalizing(s) \/ ResumeRunning(s) \/ Doom(s)
      PROVE  [Mailbox!MailboxNext]_placeOf
  <2>1. CASE Release(s) \/ BeginFinalizing(s) \/ ResumeRunning(s) \/ Doom(s)
    <3>1. UNCHANGED <<queue, cargo, stored>>
      BY Zenon, <2>1 DEF Release, BeginFinalizing, ResumeRunning, Doom, registry, runs
    <3> QED BY <3>1, StepsStay
  <2> QED BY Zenon, <1>4, <2>1, ClaimStores, EndDrops DEF Engine
<1>5. CASE Shutdown
  BY Zenon, <1>5, StepsStay DEF Shutdown
<1> QED BY Zenon, <1>1, <1>2, <1>3, <1>4, <1>5 DEF Next

LEMMA InitOutside ==
  ASSUME Init
  PROVE  Mailbox!MailboxInit
<1>1. \A e : ~ Contains(<<>>, e)
  BY DEF Contains
<1> QED BY Zenon, <1>1 DEF Init, Mailbox!MailboxInit, placeOf

\* The registry, its queue and the generations implement the mailbox: for any
\* deliveries, starts and ends of Runs, a message is kept until a generation
\* takes all that is kept, and what is stored stays stored.
THEOREM RegistryIsMailbox ==
  ASSUME None \notin Starter
  PROVE  Spec => ImplementsMailbox
<1>1. Init => Mailbox!MailboxInit
  BY InitOutside
<1>2. IInv /\ [Next]_vars => [Mailbox!MailboxNext]_placeOf
  BY Zenon, NextMoves
<1> QED BY <1>1, <1>2, Invariance, PTL DEF Spec, ImplementsMailbox, Mailbox!MailboxSpec

\* A courier leaves by a push to the queue or by the answer of its Run.
LEMMA CourierPlaces ==
  ASSUME Starter \cap Courier = {}, IInv, [Next]_vars
  PROVE  [DeliveryPlaces]_vars
<1> SUFFICES ASSUME NEW c \in Courier, step'[c] = "gone", step[c] # "gone"
             PROVE  placeOf'[EventOf[c]] # "outside"
  BY Zenon DEF DeliveryPlaces
<1>1. c \in Task /\ c \notin Starter /\ EventOf[c] \in Event
  BY Zenon DEF Task, Event
<1>2. QueueMessage(c) \/ Applied(c)
  <2>1. step' # step
    BY Zenon, <1>1
  <2>2. ASSUME NEW t \in Task, Begin(t) \/ Lookup(t) \/ Submit(t) PROVE FALSE
    <3>1. CASE Begin(t)
      BY Zenon, <1>1, <2>2, <3>1 DEF Begin, To, IInv, TaskTypes
    <3>2. CASE Lookup(t)
      BY Zenon, <1>1, <2>2, <3>2 DEF Lookup, To, IInv, TaskTypes
    <3>3. CASE Submit(t)
      <4>1. step'[c] \in {step[c], "sent", "closing", "ended"}
        BY <1>1, <3>3, Zenon DEF Submit, To, IInv, TaskTypes
      <4> QED BY Zenon, <4>1
    <3> QED BY Zenon, <2>2, <3>1, <3>2, <3>3
  <2>3. ASSUME NEW t \in Task, QueueMessage(t) \/ Applied(t) PROVE t = c
    BY Zenon, <1>1, <2>3 DEF QueueMessage, Applied, To, IInv, TaskTypes
  <2>4. ASSUME NEW s \in Starter,
               Start(s) \/ Engine(s) \/ BeginFinalizing(s) \/ ResumeRunning(s) \/ Doom(s)
        PROVE  FALSE
    BY Zenon, <1>1, <2>4 DEF Start, Listen, Check, Woken, TakePending, Activate, Abandon, GiveUp, Engine,
       Claim, EndRun, Release, BeginFinalizing, ResumeRunning, Doom, To, IInv, TaskTypes
  <2>5. ~ Shutdown
    BY Zenon, <2>1 DEF Shutdown
  <2> QED BY Zenon, <2>1, <2>2, <2>3, <2>4, <2>5 DEF Next, Deliver, vars
<1>3. CASE QueueMessage(c)
  <2>1. Contains(queue', EventOf[c])
    BY Zenon, <1>1, <1>3, PushAdds DEF QueueMessage, IInv, QueueTypes
  <2> QED BY Zenon, <1>1, <2>1, PlaceIs
<1>4. CASE Applied(c)
  <2>1. EventOf[c] \in stored'
    BY Zenon, <1>4 DEF Applied
  <2> QED BY Zenon, <1>1, <2>1, PlaceIs
<1> QED BY Zenon, <1>2, <1>3, <1>4

\* A delivery returns only when its message is in the queue, with a generation or
\* in the conversation, whatever the Run it met was doing (deliver).
THEOREM DeliveriesArePlaced ==
  ASSUME None \notin Starter, Starter \cap Courier = {}
  PROVE  Spec => DeliveredIsPlaced
<1>1. IInv /\ [Next]_vars => [DeliveryPlaces]_vars
  BY Zenon, CourierPlaces
<1> QED BY <1>1, Invariance, PTL DEF Spec, DeliveredIsPlaced

-----------------------------------------------------------------------------
(* OrderedInbox.  Its four invariants are inductive only together: that      *)
(* nothing is stuck gives the gap-freedom of what push returns, and the      *)
(* domain of `first` carries FirstCopyWins across a drain.                   *)
InboxInv ==
  /\ InboxTypeOK
  /\ HandledInOrder
  /\ NothingStuckOrLost
  /\ FirstCopyWins

\* A function on 1..m is a sequence of length m.
LEMMA FunctionIsSeq ==
  ASSUME NEW S, NEW m \in Nat, NEW f \in [1 .. m -> S]
  PROVE  f \in Seq(S) /\ Len(f) = m
  OBVIOUS

\* What is handed over is put behind what was.
LEMMA Concatenation ==
  ASSUME NEW S, NEW s \in Seq(S), NEW t \in Seq(S)
  PROVE  /\ s \o t \in Seq(S)
         /\ Len(s \o t) = Len(s) + Len(t)
         /\ \A i \in 1 .. Len(s) + Len(t) :
              (s \o t)[i] = IF i <= Len(s) THEN s[i] ELSE t[i - Len(s)]
  OBVIOUS

\* The empty inbox satisfies the inductive invariant.
LEMMA InitInbox == InboxInit => InboxInv
  BY MaxSeqAssumption
  DEF InboxInit, InboxInv, InboxTypeOK, HandledInOrder, NothingStuckOrLost, FirstCopyWins, Seqno

\* What push returns when it drains from next up to n.
Burst(held, n) ==
  [i \in 1 .. n - next |-> [seqno |-> next + i - 1, body |-> held[next + i - 1]]]

\* A push that is not a duplicate, with the stop of its loop named.
LEMMA FreshPush ==
  ASSUME InboxInv, NEW s \in Seqno, NEW v \in Payload, ~ Duplicate(s),
         Witness(s, v),
         NEW n \in next .. MaxSeq + 1, Drains(Held(s, v), n),
         next' = n,
         pending' = [t \in DOMAIN Held(s, v) \ (next .. n - 1) |-> Held(s, v)[t]],
         handled' = handled \o Burst(Held(s, v), n)
  PROVE  InboxInv'
<1> DEFINE held == Held(s, v)
           burst == Burst(held, n)
<1>1. /\ next \in Nat /\ n \in Nat /\ next <= n /\ n <= MaxSeq + 1 /\ MaxSeq \in Nat
      /\ s >= next /\ s \notin DOMAIN pending /\ s \notin DOMAIN first
  BY MaxSeqAssumption DEF InboxInv, InboxTypeOK, NothingStuckOrLost, Duplicate, Seqno
<1>2. /\ DOMAIN held = DOMAIN pending \cup {s}
      /\ held[s] = v
      /\ \A t \in DOMAIN pending : held[t] = pending[t]
  BY Zenon, <1>1 DEF Held
<1>3. /\ DOMAIN first' = DOMAIN first \cup {s}
      /\ first'[s] = v
      /\ \A t \in DOMAIN first : first'[t] = first[t]
  BY Zenon, <1>1 DEF Witness
<1>4. \A t \in DOMAIN held : held[t] \in Payload /\ held[t] = first'[t] /\ t \in Seqno
  BY Zenon, <1>2, <1>3 DEF InboxInv, InboxTypeOK, FirstCopyWins, NothingStuckOrLost
<1>5. \A t \in next .. n - 1 : t \in DOMAIN held
  BY Zenon DEF Drains
<1>6. /\ burst \in Seq([seqno : Seqno, body : Payload])
      /\ Len(burst) = n - next
      /\ \A i \in 1 .. n - next : burst[i] = [seqno |-> next + i - 1, body |-> held[next + i - 1]]
  <2>1. \A i \in 1 .. n - next : next + i - 1 \in next .. n - 1
    BY <1>1
  <2>2. \A i \in 1 .. n - next : [seqno |-> next + i - 1, body |-> held[next + i - 1]]
                                   \in [seqno : Seqno, body : Payload]
    BY Zenon, <2>1, <1>4, <1>5
  <2>3. n - next \in Nat
    BY <1>1
  <2>4. burst \in [1 .. n - next -> [seqno : Seqno, body : Payload]]
    BY Zenon, <2>2 DEF Burst
  <2>5. burst \in Seq([seqno : Seqno, body : Payload])
    BY Zenon, <2>3, <2>4, FunctionIsSeq
  <2>6. Len(burst) = n - next
    BY Zenon, <2>3, <2>4, FunctionIsSeq
  <2> QED BY Zenon, <2>5, <2>6 DEF Burst
<1>7. /\ handled \in Seq([seqno : Seqno, body : Payload])
      /\ Len(handled) = next
  BY Zenon DEF InboxInv, InboxTypeOK, HandledInOrder
<1>8. /\ handled' \in Seq([seqno : Seqno, body : Payload])
      /\ Len(handled') = n
      /\ \A i \in 1 .. next : handled'[i] = handled[i]
      /\ \A i \in next + 1 .. n : handled'[i] = burst[i - next]
  <2> HIDE DEF burst
  <2>1. /\ handled' = handled \o burst
        /\ Len(handled) + Len(burst) = n
    BY <1>1, <1>6, <1>7 DEF burst
  <2>2. /\ handled \o burst \in Seq([seqno : Seqno, body : Payload])
        /\ Len(handled \o burst) = n
        /\ \A i \in 1 .. n : (handled \o burst)[i] =
             IF i <= Len(handled) THEN handled[i] ELSE burst[i - Len(handled)]
    BY Zenon, <2>1, <1>6, <1>7, Concatenation
  <2>3. /\ \A i \in 1 .. next : i \in 1 .. n /\ i <= next
        /\ \A i \in next + 1 .. n : i \in 1 .. n /\ ~ (i <= next)
    BY <1>1
  <2> QED BY Zenon, <2>1, <2>2, <2>3, <1>7
<1>9. \A i \in next + 1 .. n : handled'[i] = [seqno |-> i - 1, body |-> held[i - 1]]
  <2> HIDE DEF burst
  <2>1. \A i \in next + 1 .. n : i - next \in 1 .. n - next /\ next + (i - next) - 1 = i - 1
    BY <1>1
  <2> QED BY Zenon, <2>1, <1>6, <1>8
<1>9e. ASSUME NEW i \in next + 1 .. n
       PROVE  handled'[i].seqno = i - 1 /\ handled'[i].body = held[i - 1]
  <2> DEFINE e == [seqno |-> i - 1, body |-> held[i - 1]]
  <2>1. handled'[i] = e
    BY Zenon, <1>9
  <2>2. e.seqno = i - 1 /\ e.body = held[i - 1]
    BY Zenon
  <2> HIDE DEF e, held
  <2> QED BY Zenon, <2>1, <2>2
<1>10. /\ DOMAIN pending' = (DOMAIN pending \cup {s}) \ (next .. n - 1)
       /\ \A t \in DOMAIN pending' : pending'[t] = held[t]
  BY Zenon, <1>2
<1>11. InboxTypeOK'
  <2>1. next' \in 0 .. MaxSeq + 1
    BY <1>1
  <2>2. DOMAIN pending' \subseteq Seqno /\ \A t \in DOMAIN pending' : pending'[t] \in Payload
    BY Zenon, <1>2, <1>4, <1>10
  <2>3. DOMAIN first' \subseteq Seqno /\ \A t \in DOMAIN first' : first'[t] \in Payload
    BY Zenon, <1>3 DEF InboxInv, InboxTypeOK
  <2> QED BY Zenon, <1>8, <2>1, <2>2, <2>3 DEF InboxTypeOK, Seqno
<1>12. HandledInOrder'
  <2>1. \A i \in 1 .. n : handled'[i].seqno = i - 1
    <3>1. \A i \in 1 .. next : handled'[i].seqno = i - 1
      BY Zenon, <1>7, <1>8 DEF InboxInv, HandledInOrder
    <3>2. \A i \in next + 1 .. n : handled'[i].seqno = i - 1
      BY Zenon, <1>9e
    <3>3. \A i \in 1 .. n : i \in 1 .. next \/ i \in next + 1 .. n
      BY <1>1
    <3> QED BY <3>1, <3>2, <3>3, Zenon
  <2> QED BY Zenon, <2>1, <1>8 DEF HandledInOrder
<1>13. NothingStuckOrLost'
  <2>1. next' \notin DOMAIN pending'
    BY Zenon, <1>2, <1>10 DEF Drains
  <2>2. DOMAIN first' = (0 .. next - 1) \cup DOMAIN held
    BY Zenon, <1>2, <1>3 DEF InboxInv, NothingStuckOrLost
  <2>3. (0 .. next - 1) \cup DOMAIN held = (0 .. n - 1) \cup (DOMAIN held \ (next .. n - 1))
    BY <1>1, <1>5
  <2> QED BY Zenon, <2>1, <2>2, <2>3, <1>2, <1>10 DEF NothingStuckOrLost
<1>14. FirstCopyWins'
  <2>1. \A t \in DOMAIN pending' : pending'[t] = first'[t]
    BY Zenon, <1>2, <1>4, <1>10
  <2>2. \A i \in 1 .. next : handled'[i].body = first'[handled'[i].seqno]
    <3>1. \A i \in 1 .. next : handled[i].seqno = i - 1 /\ handled[i].seqno \in DOMAIN first
      <4>1. \A i \in 1 .. next : i - 1 \in 0 .. next - 1
        BY <1>1
      <4>2. \A i \in 1 .. next : handled[i].seqno = i - 1
        BY Zenon, <1>7 DEF InboxInv, HandledInOrder
      <4>3. \A j \in 0 .. next - 1 : j \in DOMAIN first
        BY Zenon DEF InboxInv, NothingStuckOrLost
      <4> QED BY Zenon, <4>1, <4>2, <4>3
    <3>2. \A i \in 1 .. next : handled[i].body = first[handled[i].seqno]
      BY Zenon, <1>7 DEF InboxInv, FirstCopyWins
    <3>3. ASSUME NEW i \in 1 .. next PROVE handled'[i].body = first'[handled'[i].seqno]
      <4>1. handled'[i] = handled[i]
        BY Zenon, <1>8
      <4>2. first'[handled[i].seqno] = first[handled[i].seqno]
        BY Zenon, <3>1, <1>3
      <4>3. handled[i].body = first[handled[i].seqno]
        BY Zenon, <3>2
      <4> QED BY Zenon, <4>1, <4>2, <4>3
    <3> QED BY Zenon, <3>3
  <2>3. \A i \in next + 1 .. n : handled'[i].body = first'[handled'[i].seqno]
    <3>1. \A i \in next + 1 .. n : i - 1 \in next .. n - 1
      BY <1>1
    <3>2. \A i \in next + 1 .. n : held[i - 1] = first'[i - 1]
      BY Zenon, <3>1, <1>4, <1>5
    <3>3. \A i \in next + 1 .. n : handled'[i].seqno = i - 1 /\ handled'[i].body = held[i - 1]
      BY Zenon, <1>9e
    <3> QED BY Zenon, <3>2, <3>3
  <2>4. \A i \in 1 .. n : i \in 1 .. next \/ i \in next + 1 .. n
    BY <1>1
  <2> QED BY Zenon, <2>1, <2>2, <2>3, <2>4, <1>8 DEF FirstCopyWins
<1> QED BY Zenon, <1>11, <1>12, <1>13, <1>14 DEF InboxInv

\* Every arrival preserves the inductive invariant.
LEMMA NextInbox == InboxInv /\ [InboxNext]_inboxVars => InboxInv'
<1> SUFFICES ASSUME InboxInv, [InboxNext]_inboxVars PROVE InboxInv'
  BY Zenon
<1>1. CASE Arrive
  <2>1. PICK s \in Wire, v \in Payload :
          /\ Push(s, v)
          /\ IF s \in Seqno THEN Witness(s, v) ELSE UNCHANGED first
    BY Zenon, <1>1 DEF Arrive
  <2>2. CASE Duplicate(s)
    <3>1. UNCHANGED <<next, pending, handled>>
      BY Zenon, <2>1, <2>2 DEF Push
    <3>2. s \in Seqno => s \in DOMAIN first
      BY <2>2, MaxSeqAssumption DEF InboxInv, InboxTypeOK, NothingStuckOrLost, Duplicate, Seqno
    <3>3. UNCHANGED first
      BY Zenon, <2>1, <3>2 DEF Witness
    <3> QED BY Zenon, <3>1, <3>3
            DEF InboxInv, InboxTypeOK, HandledInOrder, NothingStuckOrLost, FirstCopyWins
  <2>3. CASE ~ Duplicate(s)
    <3>1. s \in Seqno
      BY <2>3, MaxSeqAssumption DEF InboxInv, InboxTypeOK, Duplicate, Wire, Seqno
    <3>2. PICK n \in next .. MaxSeq + 1 :
            /\ Drains(Held(s, v), n)
            /\ next' = n
            /\ pending' = [t \in DOMAIN Held(s, v) \ (next .. n - 1) |-> Held(s, v)[t]]
            /\ handled' = handled \o Burst(Held(s, v), n)
      BY Zenon, <2>1, <2>3 DEF Push, Burst
    <3> QED BY Zenon, <2>1, <2>3, <3>1, <3>2, FreshPush
  <2> QED BY Zenon, <2>2, <2>3
<1>2. CASE UNCHANGED inboxVars
  BY Zenon, <1>2 DEF inboxVars, InboxInv, InboxTypeOK, HandledInOrder, NothingStuckOrLost, FirstCopyWins
<1> QED BY Zenon, <1>1, <1>2 DEF InboxNext

\* Hence it holds in every state.
LEMMA InboxInvariance == InboxSpec => []InboxInv
  BY InitInbox, NextInbox, PTL DEF InboxSpec

(* OrderedInbox::push hands the actor the appends in append_seqno order,    *)
(* each exactly once and with no gap, whatever the order of arrival.        *)
THEOREM AppendsComeInOrder == InboxSpec => [](InboxTypeOK /\ HandledInOrder)
<1>1. InboxInv => InboxTypeOK /\ HandledInOrder
  BY Zenon DEF InboxInv
<1> QED BY <1>1, InboxInvariance, PTL

(* push loses no append and holds none back that could be handled: what has *)
(* arrived was returned or waits for a number that has not arrived.         *)
THEOREM AppendsAreKept == InboxSpec => []NothingStuckOrLost
<1>1. InboxInv => NothingStuckOrLost
  BY Zenon DEF InboxInv
<1> QED BY <1>1, InboxInvariance, PTL

(* A retry under a used append_seqno never replaces the first copy.         *)
THEOREM FirstCopyStays == InboxSpec => []FirstCopyWins
<1>1. InboxInv => FirstCopyWins
  BY Zenon DEF InboxInv
<1> QED BY <1>1, InboxInvariance, PTL
==============================================================================
