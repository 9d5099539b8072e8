------------------------ MODULE ConversationRegistry ------------------------
(***************************************************************************)
(* The table of active Runs and the queue of pending messages of one       *)
(* conversation (cursor/conversation/registry.rs and pending.rs), with the *)
(* generations that start Runs (runtime.rs, spawn_run_request) and the     *)
(* tasks that deliver injections (output.rs).  `current` and `pending` are *)
(* two locks: every task looks at one, lets go of it and then looks at the *)
(* other.  What a Run does with a message it was sent is RunDelivery's     *)
(* subject; here it stores it or ends without it.                          *)
(***************************************************************************)
EXTENDS Naturals, Sequences, SequencesExt, FiniteSets

CONSTANTS
  Starter,    \* generations of the conversation's transports; each starts one Run
  Courier,    \* tasks that deliver an injection
  EventOf,    \* the message (event id) of a starter or a courier
  None        \* no Run

Task == Starter \cup Courier
Event == {EventOf[t] : t \in Task}

VARIABLES
  background, \* starters whose request is the completion of a background task
  current,    \* the registry's active Run, or None
  queue,      \* pending messages, in order
  step,       \* where each task stands
  target,     \* the Run a task found active
  cargo,      \* messages that a starter prepared for its Run
  run,        \* phase of each starter's Run
  cancelled,  \* Runs whose handle was cancelled
  doomed,     \* generations superseded or cancelled by their transport
  idleWaits,  \* starters registered with `changed` and not notified
  stored,     \* messages that are part of the conversation
  shut        \* shutdown was called

registry == <<current, queue, shut>>
runs == <<run, cancelled, doomed, stored>>
vars == <<background, registry, step, target, cargo, runs, idleWaits>>

TypeOK ==
  /\ background \subseteq Starter
  /\ current \in Starter \cup {None}
  /\ queue \in Seq(Event)
  /\ step \in [Task -> {"idle", "lookup", "submit", "sent", "closing", "ended", "listen", "check",
                        "asleep", "take", "activate", "run", "release", "gone"}]
  /\ target \in [Task -> Starter \cup {None}]
  /\ cargo \in [Starter -> Seq(Event)]
  /\ run \in [Starter -> {"none", "Running", "Finalizing", "Ended"}]
  /\ cancelled \subseteq Starter /\ doomed \subseteq Starter /\ idleWaits \subseteq Starter
  /\ stored \subseteq Event /\ shut \in BOOLEAN

Init ==
  /\ background \in SUBSET Starter
  /\ current = None /\ queue = <<>>
  /\ step = [t \in Task |-> "idle"]
  /\ target = [t \in Task |-> None]
  /\ cargo = [s \in Starter |-> <<>>]
  /\ run = [s \in Starter |-> "none"]
  /\ cancelled = {} /\ doomed = {} /\ idleWaits = {}
  /\ stored = {} /\ shut = FALSE

To(t, place) == step' = [step EXCEPT ![t] = place]

\* A starter that gives up leaves its prepared messages behind.
GiveUp(s) ==
  /\ To(s, "gone")
  /\ cargo' = [cargo EXCEPT ![s] = <<>>]

-----------------------------------------------------------------------------
(* Delivery. *)

\* A prepared request: the completion of a background task is delivered first.
Begin(t) ==
  /\ step[t] = "idle"
  /\ To(t, IF t \in Courier \cup background THEN "lookup" ELSE "take")
  /\ UNCHANGED <<background, registry, target, cargo, runs, idleWaits>>

\* deliver: the active Run, under the lock of `current`.
Lookup(t) ==
  /\ step[t] = "lookup"
  /\ target' = [target EXCEPT ![t] = current]
  /\ To(t, IF current = None THEN "ended" ELSE "submit")
  /\ UNCHANGED <<background, registry, cargo, runs, idleWaits>>

\* RunHandle::insert_messages and break_messages.
Submit(t) ==
  /\ step[t] = "submit"
  /\ To(t, CASE run[target[t]] = "Running" -> "sent"
             [] run[target[t]] = "Finalizing" -> "closing"
             [] OTHER -> "ended")
  /\ UNCHANGED <<background, registry, target, cargo, runs, idleWaits>>

\* PendingMessages::push
PushPending(e) == IF Contains(queue, e) THEN queue ELSE Append(queue, e)

\* RunClosing and RunEnded put the message in the queue.  A starter whose message
\* came too late waits for the Run that is closing, then starts its own.
QueueMessage(t) ==
  /\ step[t] \in {"closing", "ended"}
  /\ queue' = PushPending(EventOf[t])
  /\ To(t, IF t \in Courier THEN "gone" ELSE IF step[t] = "closing" THEN "listen" ELSE "take")
  /\ UNCHANGED <<background, current, shut, target, cargo, runs, idleWaits>>

\* wait_until_idle: register, look, sleep until the next release.
Listen(s) ==
  /\ step[s] = "listen"
  /\ idleWaits' = idleWaits \cup {s}
  /\ To(s, "check")
  /\ UNCHANGED <<background, registry, target, cargo, runs>>

\* Mutation: the starter sleeps without another look.
SleepUnchecked(s) ==
  /\ step[s] = "check"
  /\ To(s, "asleep")
  /\ UNCHANGED <<background, registry, target, cargo, runs, idleWaits>>

Check(s) ==
  /\ step[s] = "check"
  /\ To(s, IF current = None THEN "take" ELSE "asleep")
  /\ idleWaits' = IF current = None THEN idleWaits \ {s} ELSE idleWaits
  /\ UNCHANGED <<background, registry, target, cargo, runs>>

Woken(s) ==
  /\ step[s] = "asleep" /\ s \notin idleWaits
  /\ To(s, "listen")
  /\ UNCHANGED <<background, registry, target, cargo, runs, idleWaits>>

-----------------------------------------------------------------------------
(* Starting a Run. *)

\* initial_messages of the prepared request; a background completion's was delivered.
Own(s) == IF s \in background THEN <<>> ELSE <<EventOf[s]>>

\* Mutation: one message is taken and the others wait on.
TakeOne(s) ==
  /\ step[s] = "take"
  /\ cargo' = [cargo EXCEPT ![s] = (IF queue = <<>> THEN queue ELSE <<Head(queue)>>) \o Own(s)]
  /\ queue' = IF queue = <<>> THEN queue ELSE Tail(queue)
  /\ To(s, "activate")
  /\ UNCHANGED <<background, current, shut, target, runs, idleWaits>>

\* take_pending: what was queued comes before the request's own messages.
TakePending(s) ==
  /\ step[s] = "take"
  /\ cargo' = [cargo EXCEPT ![s] = queue \o Own(s)]
  /\ queue' = <<>>
  /\ To(s, "activate")
  /\ UNCHANGED <<background, current, shut, target, runs, idleWaits>>

\* Mutation: the Run that loses its place goes on.
ActivateBeside(s) ==
  /\ step[s] = "activate" /\ s \notin doomed
  /\ current' = s
  /\ run' = [run EXCEPT ![s] = "Running"]
  /\ To(s, "run")
  /\ UNCHANGED <<background, queue, shut, target, cargo, cancelled, doomed, stored, idleWaits>>

\* activate: the Run that loses its place is cancelled.  The Run's channel is open
\* from here on, before its engine claims the conversation.
Activate(s) ==
  /\ step[s] = "activate" /\ s \notin doomed
  /\ current' = s
  /\ cancelled' = IF current = None THEN cancelled ELSE cancelled \cup {current}
  /\ run' = [run EXCEPT ![s] = "Running"]
  /\ To(s, "run")
  /\ UNCHANGED <<background, queue, shut, target, cargo, doomed, stored, idleWaits>>

\* The transport supersedes or cancels a generation; its Run, if any, with it.
Doom(s) ==
  /\ s \notin doomed /\ step[s] \notin {"release", "gone"}
  /\ doomed' = doomed \cup {s}
  /\ cancelled' = IF run[s] = "none" THEN cancelled ELSE cancelled \cup {s}
  /\ UNCHANGED <<background, registry, step, target, cargo, run, stored, idleWaits>>

\* A doomed generation drops its preparation at any await of it.
Abandon(s) ==
  /\ s \in doomed /\ run[s] = "none" /\ step[s] # "gone"
  /\ GiveUp(s)
  /\ idleWaits' = idleWaits \ {s}
  /\ UNCHANGED <<background, registry, target, runs>>

-----------------------------------------------------------------------------
(* The Run and its end. *)

\* claim_run appends the prepared messages, once each.
Claim(s) ==
  /\ step[s] = "run" /\ run[s] = "Running" /\ cargo[s] # <<>>
  /\ stored' = stored \cup ToSet(cargo[s])
  /\ cargo' = [cargo EXCEPT ![s] = <<>>]
  /\ UNCHANGED <<background, registry, step, target, run, cancelled, doomed, idleWaits>>

\* The Run stores a message it was sent and answers, unless it ends before it
\* does.  With the answer a task is over: a background starter needs no Run.
Applied(t) ==
  /\ step[t] = "sent" /\ run[target[t]] \in {"Running", "Finalizing"}
  /\ cargo[target[t]] = <<>>
  /\ stored' = stored \cup {EventOf[t]}
  /\ To(t, "gone") \/ (EventOf[t] \notin stored /\ UNCHANGED step)
  /\ UNCHANGED <<background, registry, target, cargo, run, cancelled, doomed, idleWaits>>

\* begin_finalizing: what was sent before it is still applied.
BeginFinalizing(s) ==
  /\ run[s] = "Running" /\ cargo[s] = <<>>
  /\ run' = [run EXCEPT ![s] = "Finalizing"]
  /\ UNCHANGED <<background, registry, step, target, cargo, cancelled, doomed, stored, idleWaits>>

\* The closing messages keep the Run going.
ResumeRunning(s) ==
  /\ run[s] = "Finalizing"
  /\ run' = [run EXCEPT ![s] = "Running"]
  /\ UNCHANGED <<background, registry, step, target, cargo, cancelled, doomed, stored, idleWaits>>

\* A Run ends after finalizing, by cancellation or by a failure, of the claim for
\* one; the senders it did not answer see the end of the Run.
EndRun(s) ==
  /\ run[s] \in {"Running", "Finalizing"}
  /\ run' = [run EXCEPT ![s] = "Ended"]
  /\ step' = [t \in Task |-> IF t = s THEN "release"
                             ELSE IF step[t] = "sent" /\ target[t] = s THEN "ended" ELSE step[t]]
  /\ cargo' = [cargo EXCEPT ![s] = <<>>]
  /\ UNCHANGED <<background, registry, target, cancelled, doomed, stored, idleWaits>>

\* release: a Run forgets its own entry only, and wakes the starters that wait.
Release(s) ==
  /\ step[s] = "release"
  /\ current' = IF current = s THEN None ELSE current
  /\ idleWaits' = IF current = s THEN {} ELSE idleWaits
  /\ To(s, "gone")
  /\ UNCHANGED <<background, queue, shut, target, cargo, runs>>

\* shutdown cancels what is active and wakes nobody.
Shutdown ==
  /\ current # None
  /\ current' = None /\ shut' = TRUE
  /\ cancelled' = cancelled \cup {current}
  /\ UNCHANGED <<background, queue, step, target, cargo, run, doomed, stored, idleWaits>>

-----------------------------------------------------------------------------
Deliver(t) == Begin(t) \/ Lookup(t) \/ Submit(t) \/ QueueMessage(t) \/ Applied(t)
Start(s) == Listen(s) \/ Check(s) \/ Woken(s) \/ TakePending(s) \/ Activate(s) \/ Abandon(s)
Engine(s) == Claim(s) \/ EndRun(s) \/ Release(s)

Next ==
  \/ \E t \in Task : Deliver(t)
  \/ \E s \in Starter : Start(s) \/ Engine(s) \/ BeginFinalizing(s) \/ ResumeRunning(s) \/ Doom(s)
  \/ Shutdown

Spec == Init /\ [][Next]_vars

-----------------------------------------------------------------------------
(* Properties. *)

\* A Run that has not been told to stop is the conversation's current one: two
\* Runs of a conversation never go on side by side (registry.rs, activate,
\* release and shutdown).
RunningIsCurrent ==
  \A s \in Starter : run[s] \in {"Running", "Finalizing"} /\ s \notin cancelled => current = s

\* The registry names a Run that has started and whose release is still to come,
\* so that a starter waiting for the conversation to be idle does not wait for
\* a Run that is gone.
CurrentIsReleasedLater == current # None => step[current] \in {"run", "release"}

\* A starter asleep in wait_until_idle waits for a Run: a release between its
\* look at the table and its sleep is not missed.  Only shutdown wakes nobody.
NoMissedRelease ==
  ~ shut => \A s \in Starter : step[s] = "asleep" /\ s \in idleWaits => current # None

\* The place of each message in the sense of ConversationMailbox.
placeOf == [e \in Event |->
  IF e \in stored THEN "stored"
  ELSE IF Contains(queue, e) THEN "kept"
  ELSE IF \E s \in Starter : Contains(cargo[s], e) THEN "held"
  ELSE "outside"]

DeliveryPlaces ==
  \A c \in Courier : step'[c] = "gone" /\ step[c] # "gone" => placeOf'[EventOf[c]] # "outside"

\* A delivery that returned has left its message in the queue, with the next
\* generation or in the conversation, whatever the Run it met was doing
\* (registry.rs, deliver).
DeliveredIsPlaced == [][DeliveryPlaces]_vars

Mailbox == INSTANCE ConversationMailbox WITH place <- placeOf

\* The registry implements the mailbox: no interleaving of deliveries, starts and
\* ends of Runs loses a message from the queue, hands it to two generations, or
\* takes it out of the conversation.
ImplementsMailbox == Mailbox!MailboxSpec
=============================================================================
