------------------------- MODULE RunExchangeInvariant -------------------------
(* The inductive invariants of RunDelivery for any deliveries, any number of   *)
(* rounds and any finite sets of calls, and the steps of the engine for the    *)
(* second of them: what is on its way between engine and session in the four   *)
(* channels agrees with where both of them are.  RunSessionInvariant has the   *)
(* steps of the session, RunDeliveryInvariant those of the first invariant.    *)
EXTENDS RunDelivery, TLAPS

-----------------------------------------------------------------------------
(* Sequences as the sets of their elements. *)

\* The length and the elements of a sequence.
LEMMA SeqLength ==
  ASSUME NEW S, NEW s \in Seq(S)
  PROVE  /\ Len(s) \in Nat /\ DOMAIN s = 1 .. Len(s) /\ s \in [1 .. Len(s) -> S]
         /\ \A i \in 1 .. Len(s) : s[i] \in S
         /\ s # <<>> => Len(s) # 0
BY SMT

\* The sequence nothing was put in yet.
LEMMA SeqEmpty ==
  ASSUME NEW S
  PROVE  /\ <<>> \in Seq(S) /\ Len(<<>>) = 0 /\ DOMAIN <<>> = {}
         /\ \A s \in Seq(S) : s # <<>> => Len(s) \in Nat \ {0}
BY SMT

\* One more element at the end.
LEMMA SeqAppend ==
  ASSUME NEW S, NEW s \in Seq(S), NEW x \in S
  PROVE  /\ Append(s, x) \in Seq(S) /\ Append(s, x) # <<>>
         /\ Len(Append(s, x)) = Len(s) + 1 /\ Append(s, x)[Len(s) + 1] = x
         /\ \A i \in 1 .. Len(s) : Append(s, x)[i] = s[i]
BY SMT

\* The first element and the others.
LEMMA SeqTail ==
  ASSUME NEW S, NEW s \in Seq(S), s # <<>>
  PROVE  /\ Head(s) \in S /\ Tail(s) \in Seq(S) /\ Len(Tail(s)) = Len(s) - 1
         /\ \A i \in 1 .. Len(Tail(s)) : Tail(s)[i] = s[i + 1]
BY SMT

\* Two sequences one after the other.
LEMMA SeqConcat ==
  ASSUME NEW S, NEW s \in Seq(S), NEW t \in Seq(S)
  PROVE  /\ s \o t \in Seq(S) /\ Len(s \o t) = Len(s) + Len(t)
         /\ \A i \in 1 .. (Len(s) + Len(t)) :
              (s \o t)[i] = IF i <= Len(s) THEN s[i] ELSE t[i - Len(s)]
BY SMT

\* One element after the others.
LEMMA SeqAdded ==
  ASSUME NEW S, NEW s \in Seq(S), NEW x \in S
  PROVE  s \o <<x>> = Append(s, x)
<1>1. /\ <<x>> \in Seq(S) /\ Len(<<x>>) = 1 /\ <<x>>[1] = x
  BY SMT
<1>2. DOMAIN (s \o <<x>>) = DOMAIN Append(s, x)
  BY <1>1, SeqConcat, SeqAppend, SeqLength
<1>3. \A i \in DOMAIN Append(s, x) : (s \o <<x>>)[i] = Append(s, x)[i]
  BY <1>1, SeqConcat, SeqAppend, SeqLength
<1> QED BY <1>1, <1>2, <1>3, SeqConcat, SeqAppend, SeqLength

\* What an element added at the end changes.
LEMMA AppendSet ==
  ASSUME NEW S, NEW s \in Seq(S), NEW x \in S
  PROVE  /\ Append(s, x) \in Seq(S)
         /\ Range(Append(s, x)) = Range(s) \cup {x}
         /\ IsInjective(s) /\ x \notin Range(s) => IsInjective(Append(s, x))
<1>1. /\ Append(s, x) \in Seq(S) /\ Len(Append(s, x)) = Len(s) + 1
      /\ \A i \in 1 .. Len(s) : Append(s, x)[i] = s[i]
      /\ Append(s, x)[Len(s) + 1] = x
  BY SeqAppend
<1>2. /\ Len(s) \in Nat /\ DOMAIN s = 1 .. Len(s)
      /\ DOMAIN Append(s, x) = 1 .. (Len(s) + 1)
  BY Zenon, <1>1, SeqLength
<1>3. Range(Append(s, x)) = Range(s) \cup {x}
  BY <1>1, <1>2 DEF Range
<1>4. IsInjective(s) /\ x \notin Range(s) => IsInjective(Append(s, x))
  BY <1>1, <1>2 DEF Range, IsInjective
<1> QED BY Zenon, <1>1, <1>3, <1>4

\* What is left behind the head.
LEMMA TailSet ==
  ASSUME NEW S, NEW s \in Seq(S), s # <<>>
  PROVE  /\ Head(s) \in S /\ Head(s) \in Range(s) /\ Tail(s) \in Seq(S)
         /\ Range(s) = {Head(s)} \cup Range(Tail(s))
         /\ IsInjective(s) => /\ IsInjective(Tail(s))
                              /\ Range(Tail(s)) = Range(s) \ {Head(s)}
<1>1. /\ Head(s) \in S /\ Tail(s) \in Seq(S) /\ Len(Tail(s)) = Len(s) - 1
      /\ \A i \in 1 .. Len(Tail(s)) : Tail(s)[i] = s[i + 1]
  BY Zenon, SeqTail
<1>2. /\ Len(s) \in Nat /\ Len(s) # 0 /\ DOMAIN s = 1 .. Len(s)
      /\ DOMAIN Tail(s) = 1 .. (Len(s) - 1) /\ Head(s) = s[1]
  BY <1>1, SeqLength, SeqEmpty
<1>3. \A i \in 1 .. Len(s) : i = 1 \/ (i - 1 \in 1 .. (Len(s) - 1) /\ Tail(s)[i - 1] = s[i])
  BY <1>1, <1>2
<1>4. Head(s) \in Range(s) /\ Range(Tail(s)) \subseteq Range(s)
  BY <1>1, <1>2 DEF Range
<1>5. ASSUME NEW i \in DOMAIN s
      PROVE  s[i] \in {Head(s)} \cup Range(Tail(s))
  <2>1. i = 1 \/ (i - 1 \in DOMAIN Tail(s) /\ Tail(s)[i - 1] = s[i])
    BY Zenon, <1>2, <1>3
  <2> QED BY Zenon, <1>2, <2>1 DEF Range
<1>6. ASSUME IsInjective(s)
      PROVE  IsInjective(Tail(s)) /\ Head(s) \notin Range(Tail(s))
  BY <1>1, <1>2, <1>6 DEF Range, IsInjective
<1>7. Range(s) \subseteq {Head(s)} \cup Range(Tail(s))
  BY Zenon, <1>5 DEF Range
<1> QED BY Zenon, <1>1, <1>4, <1>6, <1>7

\* Nothing is in the empty sequence.
LEMMA EmptySet ==
  ASSUME NEW S
  PROVE  <<>> \in Seq(S) /\ Range(<<>>) = {} /\ IsInjective(<<>>)
<1>1. DOMAIN <<>> = {} /\ <<>> \in Seq(S)
  BY Zenon, SeqEmpty
<1> QED BY Zenon, <1>1 DEF Range, IsInjective

-----------------------------------------------------------------------------
(* The inductive invariant. *)

BatchesIn(q) == {q[i].what : i \in Batches(q)}
Distinct(q) == \A i, j \in Batches(q) : q[i].what = q[j].what => i = j

Then == {"model", "compact", "resume", "answered"}

\* TypeOK, by the parts that change together.
HandleTypes ==
  /\ phase \in {"Running", "Finalizing", "Ended"} /\ cancelled \in BOOLEAN
  /\ commands \in Seq(Command)
EngineTypes ==
  engine \in EngineState /\ history \subseteq Message /\ committed \subseteq engine.calls
ChannelTypes ==
  /\ events \in Seq(RunEvent)
  /\ barrier \in {"none", "open", "ok", "lost"}
  /\ barrier = "none" <=> engine.at \notin Awaiting
ClientTypes ==
  /\ actions \in Seq(Delivery)
  /\ session \in SessionState /\ session.pending \subseteq session.ids
  /\ running \subseteq Call /\ results \in Seq(Call)
TaskTypes == task \in [Delivery -> TaskState] /\ parked \subseteq Message

\* The session is in no round that the engine has not begun.
RoundsBegun ==
  /\ session.round <= engine.round
  /\ \A i \in DOMAIN events :
       events[i].kind \in {"started", "execute"} => events[i].round <= engine.round

\* What the place where the engine is says of the phase and of its batches.
Phases ==
  /\ phase = "Ended" <=> engine.at = "ended"
  /\ phase = "Finalizing" <=> \/ engine.at \in {"resume", "final", "await_final"}
                              \/ engine.at \in {"append", "await_append"} /\ engine.then = "resume"
  /\ engine.then \in Outcome <=> engine.at = "ended"
  /\ engine.at = "await_append" => engine.todo # <<>>
  /\ engine.at \notin {"append", "cut", "await_append", "await_compaction", "await_settled"}
       => engine.todo = <<>>
  /\ engine.at \in {"await_compaction", "await_settled"} => engine.then = "model"

\* Every batch that a task has sent is in one place, and nothing else is there.
Placed ==
  /\ Distinct(commands) /\ IsInjective(engine.held) /\ IsInjective(engine.todo)
  /\ Range(engine.held) \cap Range(engine.todo) = {}
  /\ BatchesIn(commands) \cap Range(engine.held) = {}
  /\ BatchesIn(commands) \cap Range(engine.todo) = {}
  /\ {d \in Delivery : task[d] = "sent"}
       = BatchesIn(commands) \cup Range(engine.held) \cup Range(engine.todo)

\* A delivery is queued while it is on its way to the session, and once.
Queued == IsInjective(actions) /\ Range(actions) = {d \in Delivery : task[d] = "queued"}

\* drain_accepted collects every batch of a queue, and each once.  Of the constants
\* only; the invariant carries it because its proof is about finite sets.
DrainCollects ==
  \A q \in Seq(Command) :
    /\ Deliveries(q) \in Seq(Delivery)
    /\ Range(Deliveries(q)) = BatchesIn(q)
    /\ Distinct(q) => IsInjective(Deliveries(q))

IInv ==
  /\ DrainCollects
  /\ HandleTypes /\ EngineTypes /\ ChannelTypes /\ ClientTypes /\ TaskTypes
  /\ RoundsBegun /\ Phases /\ Placed /\ Queued /\ ClosedIsDrained

\* What each kind of command carries.
LEMMA CommandFields ==
  /\ \A d \in Delivery : Insert(d) \in Command /\ Break(d) \in Command
  /\ \A c \in Call : ToolResult(c) \in Command
  /\ Cancel \in Command /\ Cancel.kind \notin {"insert", "break", "result"}
  /\ \A x \in Command : /\ x.kind \in {"insert", "break", "result", "cancel"}
                        /\ x.kind \in {"insert", "break"} => x.what \in Delivery
                        /\ x.kind = "result" => x.what \in Call
<1>1. ASSUME NEW x \in Command
      PROVE  /\ x.kind \in {"insert", "break", "result", "cancel"}
             /\ x.kind \in {"insert", "break"} => x.what \in Delivery
             /\ x.kind = "result" => x.what \in Call
  BY DEF Command, Cancel
<1>2. /\ \A d \in Delivery : Insert(d) \in Command /\ Break(d) \in Command
      /\ \A c \in Call : ToolResult(c) \in Command
      /\ Cancel \in Command /\ Cancel.kind \notin {"insert", "break", "result"}
  BY Zenon DEF Command, Cancel, Insert, Break, ToolResult
<1> QED BY Zenon, <1>1, <1>2

\* The fields of the session that a step of its own leaves alone or sets.
LEMMA SessionFields ==
  IInv => /\ session \in SessionState /\ session.pending \subseteq session.ids
          /\ session.state \in {"up", "failing", "publishing", "down", "superseded"}
          /\ session.pending \subseteq Message /\ session.ids \subseteq Message
          /\ session.round \in 0 .. MaxRounds /\ session.calls \subseteq Call
          /\ session.cutRounds \subseteq 1 .. MaxRounds /\ session.cutCalls \subseteq Call
          /\ session.typed \subseteq Call /\ session.done \subseteq Call
          /\ session.doneRound \in 0 .. MaxRounds /\ session.ready \in Seq(Call)
  BY Zenon DEF IInv, ClientTypes, SessionState

\* Calls in an order are a sequence of calls.
LEMMA OrderSet ==
  ASSUME NEW s \in Orders
  PROVE  s \in Seq(Call) /\ IsInjective(s)
<1>1. PICK n \in 0 .. Cardinality(Call) : s \in [1 .. n -> Call]
  BY Zenon DEF Orders
<1>2. n \in Nat
  OBVIOUS
<1> QED BY <1>1, <1>2 DEF Orders

-----------------------------------------------------------------------------
(* The exchange of engine and session. *)

\* A message is delivered by one attempt, except that an injection may be repeated:
\* event ids are unique, and forward_injection looks for the ones it has seen.
OwnMessages ==
  \A d, e \in Delivery :
    MessageOf[d] = MessageOf[e] => d = e \/ (Path[d] = "inject" /\ Path[e] = "inject")

Up == session.state = "up"
Going == engine.at # "ended"
Has(kind) == \E i \in DOMAIN events : events[i].kind = kind

\* Deliveries that interrupt a round, from the session to the engine's answer.
Breaking == {d \in Delivery : Path[d] # "background" /\ task[d] \in {"spawned", "sent"}}

\* Calls whose completion the session will see, and those it will forward.
Flight == running \cup Range(results) \cup Range(session.ready)
Uncut == Flight \ session.cutCalls

\* A result on its way to the engine is one the engine waits for, and no break is
\* in front of it.
Awaited ==
  \A i \in DOMAIN commands : commands[i].kind = "result" =>
    /\ engine.at = "round" /\ commands[i].what \in engine.calls \ committed
    /\ Up => commands[i].what \in session.typed /\ ~ Has("execute")
    /\ \A j \in DOMAIN commands :
         /\ commands[j].kind = "result" /\ commands[j].what = commands[i].what => j = i
         /\ commands[j].kind = "break" => j > i

\* What the session forwarded is on its way to the engine, or on its way back.
Forwarded ==
  Up /\ Going => \A c \in session.typed :
    \/ \E i \in DOMAIN commands : commands[i].kind = "result" /\ commands[i].what = c
    \/ \E i \in DOMAIN events : /\ events[i].kind = "result" /\ events[i].what = c
                                /\ ~ events[i].interrupted

\* A completion is under way once.
Once(c) ==
  /\ c \in running => c \notin Range(results) /\ c \notin Range(session.ready)
  /\ c \in Range(results) => c \notin Range(session.ready)
  /\ \A i, j \in DOMAIN results : results[i] = c /\ results[j] = c => i = j
  /\ \A i, j \in DOMAIN session.ready : session.ready[i] = c /\ session.ready[j] = c => i = j

\* What the session will forward is what the engine's round still waits for.
InFlight ==
  Up /\ Going => \A c \in Uncut :
    /\ engine.at = "round" /\ c \in engine.calls \ committed
    /\ c \in session.calls \ session.typed /\ ~ Has("execute")
    /\ Once(c)

\* While a break is under way its message is pending at the session, so that no
\* tool is started and no completion forwarded.
Pending ==
  Up /\ Going =>
    /\ \A d \in Breaking :
         \/ MessageOf[d] \in session.pending
         \/ engine.at = "await_append" /\ barrier = "ok" /\ d = Head(engine.todo)
    /\ Breaking # {} => Uncut = {}
    /\ Has("execute") => \/ engine.at = "round"
                         \/ engine.at \in {"cut", "await_settled"} /\ Breaking # {}

\* Breaks come from the session, each with a message of its own.
Own ==
  /\ \A i \in DOMAIN commands : commands[i].kind = "break" => Path[commands[i].what] # "background"
  /\ engine.at = "cut" => engine.todo # <<>> /\ Path[Head(engine.todo)] # "background"
  /\ \A d \in Breaking : MessageOf[d] \in session.ids
  /\ \A d, e \in Breaking : MessageOf[d] = MessageOf[e] => d = e

\* A round that goes on lacks a result; before its tools start it has none.
Rounds ==
  /\ engine.at \in {"round", "cut"} => engine.calls # committed /\ engine.round # 0
  /\ Up /\ Has("execute") /\ engine.at = "round" => committed = {}

\* The order of the events, and the round in which each finds the session.
OnlyEnd(i) == \A j \in DOMAIN events : j > i => events[j].kind = "ended"
Ordered(i) ==
  LET e == events[i] IN
  /\ e.kind = "started" =>
       i = 1 /\ session.round = 0 /\ 2 \in DOMAIN events /\ events[2].kind = "execute"
       /\ e.round = engine.round
  /\ e.kind = "execute" =>
       /\ (i = 1 /\ session.round = engine.round) \/ (i = 2 /\ events[1].kind = "started")
       /\ e.round = engine.round /\ e.calls = engine.calls
  /\ e.kind = "result" =>
       /\ e.what \in committed /\ engine.round # 0
       /\ events[1].kind = "started" \/ session.round = engine.round
       /\ e.interrupted \/ (e.what \in session.typed /\ ~ Has("execute"))
       /\ \A j \in DOMAIN events : events[j].kind = "result" /\ events[j].what = e.what => j = i
       /\ e.barrier => committed = engine.calls /\ OnlyEnd(i)
  /\ e.kind \in {"runtime", "compacted", "final"} => i = 1 /\ session.round = 0 /\ OnlyEnd(i)
  /\ e.kind = "ended" => i = Len(events) /\ engine.at = "ended"
Order == Up => \A i \in DOMAIN events : Ordered(i)

\* Where the engine neither is in a round nor waits for a barrier, the session has
\* seen everything and is in no round either.
Quiet ==
  \/ engine.at \in {"model", "compact", "append", "finalize", "resume", "final"}
  \/ engine.at \in Awaiting /\ barrier = "ok"
Sync ==
  Up /\ Going =>
    /\ barrier # "lost"
    /\ Quiet => events = <<>> /\ session.round = 0
    /\ engine.at \in {"round", "cut"} => Has("started") \/ session.round = engine.round
    /\ Has("runtime") => /\ engine.at = "await_append" /\ barrier = "open"
                         /\ events[1].what = MessageOf[Head(engine.todo)]
    /\ Has("compacted") \/ Has("final") => engine.at \in Awaiting

JInv == Awaited /\ Forwarded /\ InFlight /\ Pending /\ Own /\ Rounds /\ Order /\ Sync


-----------------------------------------------------------------------------
(* Places in a channel. *)

\* An element is added at the end.
LEMMA Extended ==
  ASSUME NEW S, NEW s \in Seq(S), NEW x \in S
  PROVE  /\ DOMAIN s = 1 .. Len(s) /\ Len(s) \in Nat /\ Len(Append(s, x)) = Len(s) + 1
         /\ DOMAIN Append(s, x) = DOMAIN s \cup {Len(s) + 1}
         /\ \A i \in DOMAIN s : i < Len(s) + 1 /\ Append(s, x)[i] = s[i]
         /\ Append(s, x)[Len(s) + 1] = x
<1>1. /\ Append(s, x) \in Seq(S) /\ Len(Append(s, x)) = Len(s) + 1
      /\ \A i \in 1 .. Len(s) : Append(s, x)[i] = s[i]
      /\ Append(s, x)[Len(s) + 1] = x
  BY SeqAppend
<1>2. Len(s) \in Nat /\ DOMAIN s = 1 .. Len(s) /\ DOMAIN Append(s, x) = 1 .. (Len(s) + 1)
  BY Zenon, <1>1, SeqLength
<1> QED BY <1>1, <1>2

\* The first element is taken.
LEMMA Shortened ==
  ASSUME NEW S, NEW s \in Seq(S), s # <<>>
  PROVE  /\ 1 \in DOMAIN s /\ Head(s) = s[1] /\ Len(s) \in Nat /\ Len(Tail(s)) = Len(s) - 1
         /\ \A i \in DOMAIN Tail(s) :
              /\ i \in Nat /\ i > 0 /\ i + 1 \in DOMAIN s /\ Tail(s)[i] = s[i + 1]
         /\ \A i \in DOMAIN s :
              /\ i \in Nat
              /\ i = 1 \/ (i > 1 /\ i - 1 \in DOMAIN Tail(s) /\ Tail(s)[i - 1] = s[i])
<1>1. /\ Tail(s) \in Seq(S) /\ Len(Tail(s)) = Len(s) - 1
      /\ \A i \in 1 .. Len(Tail(s)) : Tail(s)[i] = s[i + 1]
  BY Zenon, SeqTail
<1>2. /\ Len(s) \in Nat /\ Len(s) # 0 /\ DOMAIN s = 1 .. Len(s)
      /\ DOMAIN Tail(s) = 1 .. (Len(s) - 1) /\ Head(s) = s[1]
  BY <1>1, SeqLength, SeqEmpty
<1> QED BY <1>1, <1>2

\* The channels are sequences.
LEMMA Channels ==
  IInv => /\ commands \in Seq(Command) /\ events \in Seq(RunEvent) /\ results \in Seq(Call)
          /\ session.ready \in Seq(Call) /\ Len(events) \in Nat /\ DOMAIN events = 1 .. Len(events)
          /\ Len(commands) \in Nat /\ DOMAIN commands = 1 .. Len(commands)
<1> SUFFICES ASSUME IInv
             PROVE  /\ commands \in Seq(Command) /\ events \in Seq(RunEvent) /\ results \in Seq(Call)
                    /\ session.ready \in Seq(Call) /\ Len(events) \in Nat
                    /\ DOMAIN events = 1 .. Len(events)
                    /\ Len(commands) \in Nat /\ DOMAIN commands = 1 .. Len(commands)
  BY Zenon
<1>1. /\ commands \in Seq(Command) /\ events \in Seq(RunEvent) /\ results \in Seq(Call)
      /\ session.ready \in Seq(Call)
  BY Zenon, SessionFields DEF IInv, HandleTypes, ChannelTypes, ClientTypes
<1> QED BY Zenon, <1>1, SeqLength

\* A batch in the channel that breaks is a delivery that is breaking.
LEMMA BreakIsBreaking ==
  ASSUME IInv, Own, NEW i \in DOMAIN commands, commands[i].kind = "break"
  PROVE  commands[i].what \in Breaking
<1>1. commands[i].what \in BatchesIn(commands)
  BY Zenon DEF BatchesIn, Batches
<1> QED BY Zenon, <1>1 DEF IInv, Placed, Own, Breaking

-----------------------------------------------------------------------------
(* Steps that leave the exchange alone, add a command or end the session. *)

\* Only deliveries change; one stops breaking only where no tools are to start.
LEMMA ExchangeSame ==
  ASSUME JInv, Breaking' \subseteq Breaking,
         Breaking' = Breaking \/ engine.at \notin {"cut", "await_settled"},
         UNCHANGED <<commands, engine, committed, events, barrier, session, running, results>>
  PROVE  JInv'
<1>1. Awaited' /\ Forwarded'
  BY DEF JInv, Awaited, Forwarded, Up, Going, Has
<1>2. InFlight'
  BY DEF JInv, InFlight, Up, Going, Has, Once, Uncut, Flight
<1>3. Pending'
  BY Zenon DEF JInv, Pending, Up, Going, Has, Uncut, Flight
<1>4. Own' /\ Rounds'
  BY Zenon DEF JInv, Own, Rounds, Up, Has
<1>5. Order'
  BY DEF JInv, Order, Ordered, OnlyEnd, Up, Has
<1>6. Sync'
  BY Zenon DEF JInv, Sync, Quiet, Up, Going, Has
<1> QED BY Zenon, <1>1, <1>2, <1>3, <1>4, <1>5, <1>6 DEF JInv

\* A batch or a cancellation is sent; tools may stop.
LEMMA ExchangeSent ==
  ASSUME IInv, JInv, Breaking' = Breaking, NEW x \in Command, x.kind # "result",
         x.kind = "break" => Path[x.what] # "background", commands' = Append(commands, x),
         running' \subseteq running,
         UNCHANGED <<engine, committed, events, barrier, session, results>>
  PROVE  JInv'
<1>1. /\ DOMAIN commands' = DOMAIN commands \cup {Len(commands) + 1} /\ Len(commands) \in Nat
      /\ \A i \in DOMAIN commands : i < Len(commands) + 1 /\ commands'[i] = commands[i]
      /\ commands'[Len(commands) + 1] = x
  BY Channels, Extended
<1>2. Awaited'
  BY <1>1 DEF JInv, Awaited, Up, Has
<1>3. Forwarded'
  BY <1>1 DEF JInv, Forwarded, Up, Going
<1>4. Uncut' \subseteq Uncut
  BY Zenon DEF Uncut, Flight
<1>5. InFlight'
  BY <1>4 DEF JInv, InFlight, Up, Going, Has, Once
<1>6. Pending'
  BY Zenon, <1>4 DEF JInv, Pending, Up, Going, Has
<1>7. Own' /\ Rounds'
  BY Zenon, <1>1 DEF JInv, Own, Rounds, Up, Has
<1>8. Order'
  BY DEF JInv, Order, Ordered, OnlyEnd, Up, Has
<1>9. Sync'
  BY Zenon DEF JInv, Sync, Quiet, Up, Going, Has
<1> QED BY Zenon, <1>2, <1>3, <1>5, <1>6, <1>7, <1>8, <1>9 DEF JInv

\* The session leaves its loop: what remains is between the tasks and the engine.
LEMMA ExchangeLeft ==
  ASSUME IInv, JInv, Breaking' = Breaking, ~ Up', session'.ids = session.ids,
         commands' = commands \/ commands' = Append(commands, Cancel),
         UNCHANGED <<engine, committed>>
  PROVE  JInv'
<1>1. /\ DOMAIN commands \subseteq DOMAIN commands' /\ DOMAIN commands \subseteq Nat
      /\ \A i \in DOMAIN commands : commands'[i] = commands[i]
      /\ \A i \in DOMAIN commands' : i \in DOMAIN commands \/ commands'[i] = Cancel
      /\ Cancel.kind \notin {"result", "break"}
  <2>1. Cancel \in Command /\ Cancel.kind \notin {"result", "break"}
    BY Zenon, CommandFields
  <2>2. CASE commands' = commands
    BY <2>1, <2>2, Channels
  <2>3. CASE commands' = Append(commands, Cancel)
    BY <2>1, <2>3, Channels, Extended
  <2> QED BY Zenon, <2>2, <2>3
<1>2. Awaited'
  BY <1>1 DEF JInv, Awaited
<1>3. Own' /\ Rounds'
  BY Zenon, <1>1 DEF JInv, Own, Rounds
<1> QED BY Zenon, <1>2, <1>3 DEF JInv, Forwarded, InFlight, Pending, Order, Sync

\* A delivery that starts, is sent, refused or parked.
LEMMA DeliveryJInv ==
  ASSUME IInv, JInv, NEW d \in Delivery, Submit(d) \/ Task(d)
  PROVE  JInv'
<1>1. task \in [Delivery -> TaskState]
  BY Zenon DEF IInv, TaskTypes
<1>2. CASE Submit(d)
  <2>1. Breaking' = Breaking
    BY Zenon, <1>1, <1>2 DEF Submit, Breaking
  <2> QED BY Zenon, <1>2, <2>1, ExchangeSame DEF Submit, handle, stored, channel
<1>3. CASE Park(d)
  <2>1. Breaking' = Breaking
    BY Zenon, <1>1, <1>3 DEF Park, Breaking
  <2> QED BY Zenon, <1>3, <2>1, ExchangeSame DEF Park, handle, stored, channel, client
<1>4. CASE SendBatch(d) /\ phase = "Running"
  <2> DEFINE x == IF Path[d] = "background" THEN Insert(d) ELSE Break(d)
  <2>1. Breaking' = Breaking
    BY Zenon, <1>1, <1>4 DEF SendBatch, Breaking
  <2>2. x \in Command /\ x.kind # "result" /\ (x.kind = "break" => Path[x.what] # "background")
    BY Zenon, CommandFields DEF Insert, Break
  <2>3. /\ commands' = Append(commands, x)
        /\ UNCHANGED <<engine, committed, events, barrier, session, results, running>>
    BY Zenon, <1>4 DEF SendBatch, stored, channel, client
  <2> HIDE DEF x
  <2> QED BY Zenon, <2>1, <2>2, <2>3, ExchangeSent
<1>5. CASE SendBatch(d) /\ phase # "Running"
  <2>1. Breaking' \subseteq Breaking
    BY Zenon, <1>1, <1>5 DEF SendBatch, Breaking
  <2>2. engine.at \notin {"cut", "await_settled"}
    BY Zenon, <1>5 DEF IInv, HandleTypes, Phases
  <2> QED BY Zenon, <1>5, <2>1, <2>2, ExchangeSame DEF SendBatch, stored, channel, client
<1> QED BY Zenon, <1>2, <1>3, <1>4, <1>5 DEF Task

\* The Run is cancelled.
LEMMA CancelRunJInv ==
  ASSUME IInv, JInv, CancelRun
  PROVE  JInv'
<1>1. /\ commands' = Append(commands, Cancel) /\ running' \subseteq running
      /\ UNCHANGED <<engine, committed, events, barrier, session, results, task>>
  BY Zenon DEF CancelRun, CancelCommand, stored, channel
<1>2. Breaking' = Breaking
  BY Zenon, <1>1 DEF Breaking
<1>3. Cancel \in Command /\ Cancel.kind \notin {"result", "break"}
  BY Zenon, CommandFields
<1> QED BY Zenon, <1>1, <1>2, <1>3, ExchangeSent

\* The session fails, is superseded, sees the end or closes.
LEMMA SessionEndsJInv ==
  ASSUME IInv, JInv, SessionFails \/ Supersede \/ CloseSession \/ SeeEnded
  PROVE  JInv'
<1>1. task \in [Delivery -> TaskState] /\ session \in SessionState
  BY Zenon, SessionFields DEF IInv, TaskTypes
<1>2. UNCHANGED <<engine, committed>>
  BY Zenon DEF SessionFails, Supersede, CloseSession, SeeEnded, stored
<1>3. commands' = commands \/ commands' = Append(commands, Cancel)
  BY Zenon DEF SessionFails, Supersede, CloseSession, SeeEnded, handle, CancelCommand
<1>4. ~ Up' /\ session'.ids = session.ids
  BY Zenon, <1>1 DEF SessionFails, Supersede, CloseSession, SeeEnded, Up, SessionState
<1>5. Breaking' = Breaking
  <2>1. CASE UNCHANGED task
    BY Zenon, <2>1 DEF Breaking
  <2>2. ASSUME NEW as, as \notin {"spawned", "sent"}, task' = Settle(actions, as)
        PROVE  Breaking' = Breaking
    BY Zenon, <1>1, <2>2 DEF Breaking, Settle, IInv, Queued
  <2> QED BY Zenon, <2>1, <2>2 DEF SessionFails, Supersede, CloseSession, SeeEnded
<1> QED BY Zenon, <1>2, <1>3, <1>4, <1>5, ExchangeLeft

-----------------------------------------------------------------------------
(* The engine. *)

\* The Run ends: nothing is awaited, and the session is told last.
LEMMA StopJInv ==
  ASSUME IInv, JInv, NEW o \in Outcome, Stop(o), Going, committed' = committed \/ ~ Up
  PROVE  JInv'
<1>1. engine \in EngineState /\ task \in [Delivery -> TaskState] /\ events \in Seq(RunEvent)
  BY Zenon, Channels DEF IInv, EngineTypes, TaskTypes
<1>2. engine'.at = "ended" /\ engine'.round = engine.round /\ engine'.calls = engine.calls
  BY Zenon, <1>1 DEF Stop, EngineState
<1>3. /\ commands' = <<>> /\ UNCHANGED <<session, running, results>>
      /\ events' = IF SessionOver THEN events ELSE Append(events, [kind |-> "ended"])
  BY Zenon DEF Stop, client
<1>4. DOMAIN commands' = {}
  BY Zenon, <1>3, SeqEmpty
<1>5. Breaking' \subseteq Breaking
  BY Zenon, <1>1 DEF Breaking, Stop, Settle
<1>6. Awaited'
  BY Zenon, <1>4 DEF Awaited
<1>7. Own' /\ Rounds'
  BY Zenon, <1>2, <1>3, <1>4, <1>5 DEF JInv, Own, Rounds
<1>8. ASSUME Up PROVE Order'
  <2> PICK n : n = Len(events) + 1
    BY Zenon
  <2>1. [kind |-> "ended"] \in RunEvent
    BY Zenon DEF RunEvent
  <2>2. events' = Append(events, [kind |-> "ended"])
    BY Zenon, <1>3, <1>8 DEF Up, SessionOver
  <2>3. /\ DOMAIN events = 1 .. Len(events) /\ Len(events) \in Nat /\ Len(events') = n
        /\ DOMAIN events' = DOMAIN events \cup {n}
        /\ \A i \in DOMAIN events : i < n /\ events'[i] = events[i]
        /\ events'[n].kind = "ended"
    BY <1>1, <2>1, <2>2, Extended
  <2>4. Has("execute")' => Has("execute")
    BY Zenon, <2>3 DEF Has
  <2>5. \A i \in DOMAIN events : Ordered(i) /\ events[i].kind # "ended"
    BY Zenon, <1>8 DEF JInv, Order, Ordered, Going
  <2>6. committed' = committed /\ session' = session
    BY Zenon, <1>3, <1>8
  <2>7. ASSUME NEW i \in DOMAIN events PROVE Ordered(i)'
    <3>1. OnlyEnd(i) => OnlyEnd(i)'
      BY Zenon, <2>3 DEF OnlyEnd
    <3>2. 1 \in DOMAIN events /\ events'[1] = events[1]
      BY <2>3
    <3>3. Ordered(i) /\ events[i].kind # "ended" /\ events'[i] = events[i]
      BY Zenon, <2>3, <2>5
    <3> QED BY Zenon, <1>2, <2>3, <2>4, <2>6, <3>1, <3>2, <3>3 DEF Ordered
  <2>8. Ordered(n)'
    BY Zenon, <1>2, <2>3 DEF Ordered
  <2> QED BY Zenon, <2>3, <2>7, <2>8 DEF Order
<1>9. Order'
  BY Zenon, <1>3, <1>8 DEF Order, Up
<1>10. ~ Going'
  BY Zenon, <1>2 DEF Going
<1> QED BY Zenon, <1>6, <1>7, <1>9, <1>10 DEF JInv, Forwarded, InFlight, Pending, Sync

\* The ends that nothing else belongs to.
LEMMA StopsJInv ==
  ASSUME IInv, JInv,
         ReceiveCancel \/ NoticeCancellation \/ CycleFails \/ BarrierLost \/ CycleLosesClient
  PROVE  JInv'
<1>1. \E o \in Outcome : Stop(o) /\ Going /\ committed' = committed
  BY Zenon DEF ReceiveCancel, NoticeCancellation, CycleFails, BarrierLost, CycleLosesClient, stored,
         Outcome, Going, Listening, Awaiting
<1> QED BY Zenon, <1>1, StopJInv

\* Where the engine goes when it is about to append.
LEMMA AppendingAt ==
  IInv => \A at, last, then :
    engine' = Appending(at, last, then) =>
      engine'.at = at /\ engine'.round = engine.round /\ engine'.calls = engine.calls
  BY Zenon DEF IInv, EngineTypes, EngineState, Appending

\* What is in the channel behind its head was in it before.
LEMMA TailDrawn ==
  ASSUME IInv, commands # <<>>
  PROVE  \A i \in DOMAIN Tail(commands) : \E j \in DOMAIN commands : Tail(commands)[i] = commands[j]
  BY Zenon, Channels, Shortened

\* Between rounds nothing is under way between engine and session.
LEMMA QuietExchange ==
  ASSUME IInv, JInv, Quiet
  PROVE  /\ Going /\ engine.at \notin {"round", "cut"}
         /\ \A i \in DOMAIN commands : commands[i].kind # "result"
         /\ Up => /\ events = <<>> /\ DOMAIN events = {} /\ Len(events) = 0 /\ session.round = 0
                  /\ session.typed = {} /\ Uncut = {}
<1>1. Going /\ engine.at \notin {"round", "cut"}
  BY Zenon DEF Quiet, Going, Awaiting
<1>2. \A i \in DOMAIN commands : commands[i].kind # "result"
  BY Zenon, <1>1 DEF JInv, Awaited
<1>3. ASSUME Up
      PROVE  events = <<>> /\ DOMAIN events = {} /\ Len(events) = 0 /\ session.round = 0
  <2>1. events = <<>> /\ session.round = 0
    BY Zenon, <1>1, <1>3 DEF JInv, Sync
  <2>2. DOMAIN <<>> = {} /\ Len(<<>>) = 0
    OBVIOUS
  <2> QED BY Zenon, <2>1, <2>2
<1>4. ASSUME Up PROVE session.typed = {}
  BY Zenon, <1>1, <1>2, <1>3, <1>4 DEF JInv, Forwarded
<1>5. ASSUME Up PROVE Uncut = {}
  BY Zenon, <1>1, <1>5 DEF JInv, InFlight
<1> QED BY Zenon, <1>1, <1>2, <1>3, <1>4, <1>5

\* A step between rounds.
LEMMA QuietJInv ==
  ASSUME IInv, JInv, Quiet,
         engine'.at \in {"model", "compact", "append", "finalize", "resume", "final"},
         barrier' # "lost", Breaking' \subseteq Breaking,
         engine.at = "await_append" => Head(engine.todo) \notin Breaking',
         \A i \in DOMAIN commands' : \E j \in DOMAIN commands : commands'[i] = commands[j],
         UNCHANGED <<committed, events, session, running, results>>
  PROVE  JInv'
<1>1. /\ Going /\ engine.at \notin {"round", "cut"}
      /\ \A i \in DOMAIN commands' : commands'[i].kind # "result"
      /\ Up => /\ events = <<>> /\ DOMAIN events = {} /\ session.round = 0
               /\ session.typed = {} /\ Uncut = {}
  BY Zenon, QuietExchange
<1>2. Up' = Up /\ Uncut' = Uncut
  BY Zenon DEF Up, Uncut, Flight
<1>3. Awaited'
  BY Zenon, <1>1 DEF Awaited
<1>4. Forwarded'
  BY Zenon, <1>1, <1>2 DEF Forwarded
<1>5. InFlight'
  BY Zenon, <1>1, <1>2 DEF InFlight
<1>6. Pending'
  BY Zenon, <1>1, <1>2 DEF JInv, Pending, Has
<1>7. Own'
  BY Zenon DEF JInv, Own
<1>8. Rounds' /\ Order'
  BY Zenon, <1>1, <1>2 DEF Rounds, Order, Has
<1>9. Sync'
  BY Zenon, <1>1, <1>2 DEF Sync, Has
<1> QED BY Zenon, <1>3, <1>4, <1>5, <1>6, <1>7, <1>8, <1>9 DEF JInv

\* What one event adds to the channel.
LEMMA EmitAppends ==
  ASSUME IInv, NEW e \in RunEvent, NEW next, NEW rest, EmitThen(<<e>>, next, rest), ~ SessionOver
  PROVE  /\ events' = Append(events, e) /\ engine' = next /\ commands' = rest
         /\ barrier' = IF e.barrier THEN "open" ELSE "none"
         /\ UNCHANGED <<session, running, results, task>>
<1>1. events' = events \o <<e>> /\ events \in Seq(RunEvent)
  BY Zenon, Channels DEF EmitThen
<1>2. events' = Append(events, e)
  BY Zenon, <1>1, SeqAdded
<1>3. <<e>>[Len(<<e>>)] = e
  BY Zenon
<1> QED BY Zenon, <1>2, <1>3 DEF EmitThen, client

\* An event that is sent between rounds and carries a barrier.
LEMMA EmitJInv ==
  ASSUME IInv, JInv, engine.at \in {"compact", "append", "final"}, NEW e \in RunEvent,
         e.kind \in {"runtime", "compacted", "final"}, events' = Append(events, e),
         engine'.at \in Awaiting, barrier' = "open",
         e.kind = "runtime" => engine'.at = "await_append" /\ e.what = MessageOf[Head(engine'.todo)],
         \A i \in DOMAIN commands' : \E j \in DOMAIN commands : commands'[i] = commands[j],
         UNCHANGED <<committed, session, running, results, task>>
  PROVE  JInv'
<1>1. /\ Going /\ engine.at \notin {"round", "cut"}
      /\ \A i \in DOMAIN commands' : commands'[i].kind # "result"
      /\ Up => /\ events = <<>> /\ DOMAIN events = {} /\ Len(events) = 0 /\ session.round = 0
               /\ session.typed = {} /\ Uncut = {}
  <2>1. Quiet
    BY Zenon DEF Quiet
  <2> QED BY Zenon, <2>1, QuietExchange
<1>2. Up' = Up /\ Uncut' = Uncut /\ Breaking' = Breaking
  BY Zenon DEF Up, Uncut, Flight, Breaking
<1>3. Going' /\ ~ Quiet' /\ engine'.at \notin {"round", "cut"}
  BY Zenon DEF Going, Quiet, Awaiting
<1>4. ASSUME Up PROVE DOMAIN events' = {1} /\ events'[1] = e
  <2>1. events \in Seq(RunEvent)
    BY Zenon, Channels
  <2>2. /\ DOMAIN events' = DOMAIN events \cup {Len(events) + 1}
        /\ events'[Len(events) + 1] = e
    BY <2>1, Extended
  <2> QED BY <1>1, <1>4, <2>2
<1>5. Awaited'
  BY Zenon, <1>1 DEF Awaited
<1>6. Forwarded'
  BY Zenon, <1>1, <1>2 DEF Forwarded
<1>7. InFlight'
  BY Zenon, <1>1, <1>2 DEF InFlight
<1>8. ASSUME Up PROVE ~ Has("execute")'
  BY Zenon, <1>4, <1>8 DEF Has
<1>9. Pending'
  BY Zenon, <1>1, <1>2, <1>8 DEF JInv, Pending
<1>10. Own' /\ Rounds'
  BY Zenon, <1>2, <1>3 DEF JInv, Own, Rounds
<1>11. Order'
  <2>1. ASSUME Up PROVE Ordered(1)'
    <3>1. DOMAIN events' = {1} /\ events'[1] = e /\ session'.round = 0
      BY Zenon, <1>1, <1>4, <2>1
    <3>2. OnlyEnd(1)'
      BY <3>1 DEF OnlyEnd
    <3> QED BY Zenon, <3>1, <3>2 DEF Ordered
  <2> QED BY Zenon, <1>2, <1>4, <2>1 DEF Order
<1>12. Sync'
  BY Zenon, <1>2, <1>3, <1>4 DEF Sync, Has
<1> QED BY Zenon, <1>5, <1>6, <1>7, <1>9, <1>10, <1>11, <1>12 DEF JInv

\* What is held back leaves the channel and nothing else changes.
LEMMA ReceiveInsertJInv ==
  ASSUME IInv, JInv, ReceiveInsert
  PROVE  JInv'
<1>1. /\ commands # <<>> /\ Head(commands).kind = "insert" /\ commands' = Tail(commands)
      /\ UNCHANGED <<committed, events, barrier, session, running, results, task>>
  BY Zenon DEF ReceiveInsert, Received, stored, channel, client
<1>2. /\ engine'.at = engine.at /\ engine'.round = engine.round /\ engine'.calls = engine.calls
      /\ engine'.todo = engine.todo
  BY Zenon DEF IInv, EngineTypes, EngineState, ReceiveInsert
<1>3. /\ commands[1].kind = "insert"
      /\ \A i \in DOMAIN commands' :
           /\ i \in Nat /\ i + 1 \in DOMAIN commands /\ commands'[i] = commands[i + 1]
      /\ \A i \in DOMAIN commands :
           /\ i \in Nat
           /\ i = 1 \/ (i - 1 \in DOMAIN commands' /\ commands'[i - 1] = commands[i])
  BY Zenon, <1>1, Channels, Shortened
<1>4. Breaking' = Breaking /\ Uncut' = Uncut /\ Up' = Up /\ Going' = Going /\ Quiet' = Quiet
  BY Zenon, <1>1, <1>2 DEF Breaking, Uncut, Flight, Up, Going, Quiet
<1>5. Awaited'
  <2> SUFFICES ASSUME NEW i \in DOMAIN commands', commands'[i].kind = "result"
               PROVE  /\ engine'.at = "round" /\ commands'[i].what \in engine'.calls \ committed'
                      /\ Up' => commands'[i].what \in session'.typed /\ ~ Has("execute")'
                      /\ \A j \in DOMAIN commands' :
                           /\ commands'[j].kind = "result" /\ commands'[j].what = commands'[i].what => j = i
                           /\ commands'[j].kind = "break" => j > i
    BY Zenon DEF Awaited
  <2>1. i + 1 \in DOMAIN commands /\ commands[i + 1] = commands'[i] /\ commands[i + 1].kind = "result"
    BY Zenon, <1>3
  <2>2. /\ engine.at = "round" /\ commands[i + 1].what \in engine.calls \ committed
        /\ Up => commands[i + 1].what \in session.typed /\ ~ Has("execute")
    BY Zenon, <2>1 DEF JInv, Awaited
  <2>3. ASSUME NEW j \in DOMAIN commands'
        PROVE  /\ commands'[j].kind = "result" /\ commands'[j].what = commands'[i].what => j = i
               /\ commands'[j].kind = "break" => j > i
    BY <1>3, <2>1, <2>3 DEF JInv, Awaited
  <2> QED BY Zenon, <1>1, <1>2, <1>4, <2>1, <2>2, <2>3 DEF Has
<1>6. Forwarded'
  <2> SUFFICES ASSUME Up, Going, NEW c \in session.typed
               PROVE  \/ \E i \in DOMAIN commands' : commands'[i].kind = "result" /\ commands'[i].what = c
                      \/ \E i \in DOMAIN events : /\ events[i].kind = "result" /\ events[i].what = c
                                                  /\ ~ events[i].interrupted
    BY Zenon, <1>1, <1>4 DEF Forwarded
  <2> QED BY <1>3 DEF JInv, Forwarded
<1>7. InFlight' /\ Pending'
  BY ZenonT(30), <1>1, <1>2, <1>4 DEF JInv, InFlight, Pending, Once, Has
<1>8. Own' /\ Rounds'
  BY <1>1, <1>2, <1>3, <1>4 DEF JInv, Own, Rounds, Has
<1>9. Order'
  BY <1>1, <1>2, <1>4 DEF JInv, Order, Ordered, OnlyEnd, Has
<1>10. Sync'
  BY Zenon, <1>1, <1>2, <1>4 DEF JInv, Sync, Has
<1> QED BY Zenon, <1>5, <1>6, <1>7, <1>8, <1>9, <1>10 DEF JInv

\* Breaks, compactions and answers between rounds.
LEMMA CycleJInv ==
  ASSUME IInv, JInv, ReceiveBreak \/ StartCompaction \/ Answer \/ AppendedAll \/ ResumeRunning
  PROVE  JInv'
<1>1. engine \in EngineState /\ barrier # "lost" /\ Quiet /\ engine.at # "await_append"
  BY Zenon DEF IInv, EngineTypes, ChannelTypes, Awaiting, Quiet, ReceiveBreak, StartCompaction, Answer,
         AppendedAll, ResumeRunning
<1>2. engine'.at \in {"model", "compact", "append", "finalize", "resume", "final"}
  <2>1. CASE ReceiveBreak \/ StartCompaction \/ Answer
    BY Zenon, <2>1, AppendingAt DEF ReceiveBreak, StartCompaction, Answer
  <2>2. CASE AppendedAll
    <3>1. engine.then \in {"model", "compact", "resume", "answered"}
      BY Zenon, <1>1, <2>2 DEF IInv, Phases, AppendedAll, EngineState
    <3>2. engine'.at = IF engine.then # "answered" THEN engine.then
                       ELSE IF engine.inserted THEN "model" ELSE "finalize"
      BY Zenon, <1>1, <2>2 DEF AppendedAll, EngineState
    <3> QED BY Zenon, <3>1, <3>2
  <2>3. CASE ResumeRunning
    BY Zenon, <1>1, <2>3 DEF ResumeRunning, EngineState
  <2> QED BY Zenon, <2>1, <2>2, <2>3
<1>3. UNCHANGED <<committed, events, barrier, session, running, results, task>>
  BY Zenon DEF ReceiveBreak, StartCompaction, Answer, AppendedAll, ResumeRunning, stored, channel, client
<1>4. \A i \in DOMAIN commands' : \E j \in DOMAIN commands : commands'[i] = commands[j]
  <2>1. CASE ReceiveBreak
    BY Zenon, <2>1, TailDrawn DEF ReceiveBreak, Received
  <2>2. CASE commands' = commands
    BY Zenon, <2>2
  <2> QED BY Zenon, <2>1, <2>2 DEF StartCompaction, Answer, AppendedAll, ResumeRunning, handle
<1>5. Breaking' = Breaking
  BY Zenon, <1>3 DEF Breaking
<1> QED BY Zenon, <1>1, <1>2, <1>3, <1>4, <1>5, QuietJInv

\* The Run is about to end, or finds that it was cancelled or has more to append.
LEMMA FinalizeJInv ==
  ASSUME IInv, JInv, Finalize
  PROVE  JInv'
<1>1. CASE Stop("cancelled")
  BY Zenon, <1>1, StopJInv DEF Finalize, Going, Outcome, stored
<1>2. CASE ~ Stop("cancelled")
  <2>1. /\ engine.at = "finalize" /\ commands' = <<>>
        /\ UNCHANGED <<committed, events, barrier, session, running, results, task>>
        /\ engine' = IF Batches(commands) = {} THEN [engine EXCEPT !.at = "final"]
                     ELSE Appending("append", Deliveries(commands), "resume")
    BY Zenon, <1>2 DEF Finalize, stored, channel, client
  <2>2. engine'.at \in {"final", "append"}
    <3>1. CASE engine' = [engine EXCEPT !.at = "final"]
      BY Zenon, <3>1 DEF IInv, EngineTypes, EngineState
    <3>2. CASE engine' = Appending("append", Deliveries(commands), "resume")
      BY Zenon, <3>2, AppendingAt
    <3> QED BY Zenon, <2>1, <3>1, <3>2
  <2>3. Quiet /\ barrier # "lost" /\ Breaking' = Breaking
    BY Zenon, <2>1 DEF IInv, ChannelTypes, Awaiting, Quiet, Breaking
  <2>4. DOMAIN commands' = {}
    BY Zenon, <2>1, SeqEmpty
  <2> QED BY Zenon, <2>1, <2>2, <2>3, <2>4, QuietJInv
<1> QED BY Zenon, <1>1, <1>2

\* A barrier is passed: the sender is answered, or the Run is complete.
LEMMA BarrierPassesJInv ==
  ASSUME IInv, JInv, BarrierPasses
  PROVE  JInv'
<1>1. CASE Stop("completed")
  BY Zenon, <1>1, StopJInv DEF BarrierPasses, Going, Outcome, stored, Awaiting
<1>2. CASE ~ Stop("completed")
  <2>1. /\ engine \in EngineState /\ task \in [Delivery -> TaskState]
        /\ Quiet /\ barrier' = "none"
        /\ UNCHANGED <<commands, committed, events, session, running, results>>
        /\ \/ /\ engine.at = "await_append" /\ task' = Acknowledged(Head(engine.todo))
              /\ engine' = [engine EXCEPT !.at = "append", !.todo = Tail(@), !.inserted = TRUE]
           \/ engine.at # "await_append" /\ engine' = [engine EXCEPT !.at = "append"] /\ task' = task
    BY Zenon, <1>2 DEF BarrierPasses, IInv, EngineTypes, TaskTypes, Quiet, stored, handle, client
  <2>2. engine'.at = "append"
    BY Zenon, <2>1 DEF EngineState
  <2>3. /\ Breaking' \subseteq Breaking
        /\ engine.at = "await_append" => Head(engine.todo) \notin Breaking'
    BY Zenon, <2>1 DEF Breaking, Acknowledged
  <2> QED BY Zenon, <2>1, <2>2, <2>3, QuietJInv
<1> QED BY Zenon, <1>1, <1>2

\* A message is appended, or known.
LEMMA AppendNextJInv ==
  ASSUME IInv, JInv, AppendNext
  PROVE  JInv'
<1> DEFINE d == Head(engine.todo)
           e == [kind |-> "runtime", what |-> MessageOf[d], barrier |-> TRUE]
           next == [engine EXCEPT !.at = "await_append"]
<1>1. /\ engine \in EngineState /\ engine.at = "append" /\ engine.todo # <<>>
      /\ task \in [Delivery -> TaskState] /\ committed' = committed
  BY Zenon DEF IInv, EngineTypes, TaskTypes, AppendNext
<1>2. CASE MessageOf[d] \in history
  <2>1. /\ task' = Acknowledged(d) /\ engine' = [engine EXCEPT !.todo = Tail(@)]
        /\ UNCHANGED <<commands, events, barrier, session, running, results>>
    BY Zenon, <1>2 DEF AppendNext, handle, channel, client
  <2>2. engine'.at = "append"
    BY Zenon, <1>1, <2>1 DEF EngineState
  <2>3. Quiet /\ barrier # "lost" /\ Breaking' \subseteq Breaking
    BY Zenon, <1>1, <2>1 DEF IInv, ChannelTypes, Awaiting, Quiet, Breaking, Acknowledged
  <2> QED BY Zenon, <1>1, <2>1, <2>2, <2>3, QuietJInv
<1>3. CASE MessageOf[d] \notin history /\ SessionOver
  <2>1. Stop("client")
    BY Zenon, <1>3 DEF AppendNext, EmitThen
  <2> QED BY Zenon, <1>1, <2>1, StopJInv DEF Going, Outcome
<1>4. CASE MessageOf[d] \notin history /\ ~ SessionOver
  <2>1. d \in Delivery
    BY Zenon, <1>1, TailSet DEF EngineState
  <2>2. e \in RunEvent /\ e.kind = "runtime" /\ e.what = MessageOf[d] /\ e.barrier = TRUE
    BY Zenon, <2>1 DEF RunEvent, Message
  <2>3. EmitThen(<<e>>, next, commands)
    BY Zenon, <1>4 DEF AppendNext
  <2>4. next.at = "await_append" /\ next.todo = engine.todo
    BY Zenon, <1>1 DEF EngineState
  <2> HIDE DEF e, next
  <2>5. /\ events' = Append(events, e) /\ engine' = next /\ commands' = commands /\ barrier' = "open"
        /\ UNCHANGED <<session, running, results, task>>
    BY Zenon, <1>4, <2>2, <2>3, EmitAppends
  <2>6. engine'.at \in Awaiting /\ engine'.at = "await_append" /\ e.what = MessageOf[Head(engine'.todo)]
    BY Zenon, <2>2, <2>4, <2>5 DEF Awaiting
  <2> QED BY Zenon, <1>1, <2>2, <2>5, <2>6, EmitJInv
<1> QED BY Zenon, <1>2, <1>3, <1>4

\* The final turn and a compaction are committed.
LEMMA CommitFinalJInv ==
  ASSUME IInv, JInv, CommitFinal
  PROVE  JInv'
<1> DEFINE e == Event("final")
           next == [engine EXCEPT !.at = "await_final"]
<1>1. engine.at = "final" /\ committed' = committed /\ EmitThen(<<e>>, next, commands)
  BY Zenon DEF CommitFinal, stored
<1>2. CASE SessionOver
  BY Zenon, <1>1, <1>2, StopJInv DEF EmitThen, Going, Outcome
<1>3. CASE ~ SessionOver
  <2>1. e \in RunEvent /\ e.kind = "final" /\ e.barrier = TRUE
    BY Zenon DEF RunEvent, Event
  <2>2. next.at = "await_final"
    BY Zenon DEF IInv, EngineTypes, EngineState
  <2> HIDE DEF e, next
  <2>3. /\ events' = Append(events, e) /\ engine' = next /\ commands' = commands /\ barrier' = "open"
        /\ UNCHANGED <<session, running, results, task>>
    BY Zenon, <1>1, <1>3, <2>1, EmitAppends
  <2>4. engine'.at \in Awaiting
    BY Zenon, <2>2, <2>3 DEF Awaiting
  <2> QED BY Zenon, <1>1, <2>1, <2>3, <2>4, EmitJInv
<1> QED BY Zenon, <1>2, <1>3

\* A compaction ends, by itself or for a break.
LEMMA EndCompactionJInv ==
  ASSUME IInv, JInv, EndCompaction
  PROVE  JInv'
<1> DEFINE broken == Received("break")
           e == Event("compacted")
           last == IF broken THEN <<Head(commands).what>> ELSE <<>>
           next == Appending("await_compaction", last, "model")
           rest == IF broken THEN Tail(commands) ELSE commands
<1>1. engine.at = "compact" /\ committed' = committed /\ EmitThen(<<e>>, next, rest)
  BY Zenon DEF EndCompaction
<1>2. CASE SessionOver
  BY Zenon, <1>1, <1>2, StopJInv DEF EmitThen, Going, Outcome
<1>3. CASE ~ SessionOver
  <2>1. e \in RunEvent /\ e.kind = "compacted" /\ e.barrier = TRUE
    BY Zenon DEF RunEvent, Event
  <2>2. \A i \in DOMAIN rest : \E j \in DOMAIN commands : rest[i] = commands[j]
    BY Zenon, TailDrawn DEF Received
  <2>3. engine' = next
    BY Zenon, <1>1, <1>3 DEF EmitThen
  <2>4. engine'.at = "await_compaction"
    BY Zenon, <2>3, AppendingAt
  <2> HIDE DEF e, next, rest
  <2>5. /\ events' = Append(events, e) /\ commands' = rest /\ barrier' = "open"
        /\ UNCHANGED <<session, running, results, task>>
    BY Zenon, <1>1, <1>3, <2>1, EmitAppends
  <2>6. engine'.at \in Awaiting
    BY Zenon, <2>4 DEF Awaiting
  <2> QED BY Zenon, <1>1, <2>1, <2>2, <2>5, <2>6, EmitJInv
<1> QED BY <1>2, <1>3

-----------------------------------------------------------------------------
(* Rounds. *)

\* A round begins: the session learns of it by two events.
LEMMA StartRoundJInv ==
  ASSUME IInv, JInv, NEW cs \in SUBSET Call, StartRound(cs)
  PROVE  JInv'
<1> DEFINE k == engine.round + 1
           a == [kind |-> "started", round |-> k]
           b == [kind |-> "execute", round |-> k, calls |-> cs, barrier |-> FALSE]
           next == [engine EXCEPT !.at = "round", !.round = k, !.calls = cs]
<1>1. /\ engine \in EngineState /\ engine.at = "model" /\ commands = <<>> /\ k <= MaxRounds
      /\ committed' = {} /\ cs # {}
      /\ EmitThen(<<a, b>>, next, commands)
  BY Zenon DEF IInv, EngineTypes, StartRound
<1>2. Quiet /\ Going
  BY Zenon, <1>1 DEF Quiet, Going
<1>3. CASE SessionOver
  <2>1. Stop("client") /\ ~ Up
    BY Zenon, <1>1, <1>3 DEF EmitThen, SessionOver, Up
  <2> QED BY Zenon, <1>2, <2>1, StopJInv DEF Outcome
<1>4. CASE ~ SessionOver
  <2>1. engine.round \in Nat /\ MaxRounds \in Nat
    BY <1>1, DeliveryAssumption DEF EngineState
  <2>2. k # 0 /\ k \in 1 .. MaxRounds
    BY <1>1, <2>1
  <2>3. next.at = "round" /\ next.round = k /\ next.calls = cs
    BY Zenon, <1>1 DEF EngineState
  <2>4. a \in RunEvent /\ b \in RunEvent
    <3> HIDE DEF k
    <3> QED BY Zenon, <2>2 DEF RunEvent
  <2>5. /\ a.kind = "started" /\ a.round = k
        /\ b.kind = "execute" /\ b.round = k /\ b.calls = cs /\ b.barrier = FALSE
    BY Zenon
  <2> HIDE DEF k, a, b, next
  <2>6. /\ <<a, b>> \in Seq(RunEvent) /\ <<a, b>>[Len(<<a, b>>)] = b /\ Len(<<a, b>>) = 2
        /\ <<a, b>>[1] = a /\ <<a, b>>[2] = b
    BY <2>4
  <2>7. /\ events' = events \o <<a, b>> /\ engine' = next /\ commands' = commands
        /\ UNCHANGED <<session, running, results, task>>
        /\ barrier' = IF <<a, b>>[Len(<<a, b>>)].barrier THEN "open" ELSE "none"
    BY Zenon, <1>1, <1>4 DEF EmitThen, client
  <2>8. barrier' = "none" /\ engine'.at = "round" /\ engine'.round = k /\ engine'.calls = cs
    BY Zenon, <2>3, <2>5, <2>6, <2>7
  <2>9. DOMAIN commands' = {}
    BY Zenon, <1>1, <2>7, SeqEmpty
  <2>10. Up => /\ events = <<>> /\ Len(events) = 0 /\ session.round = 0
               /\ session.typed = {} /\ Uncut = {}
    BY Zenon, <1>2, QuietExchange
  <2>11. ASSUME Up PROVE DOMAIN events' = {1, 2} /\ events'[1] = a /\ events'[2] = b
    <3>1. events \in Seq(RunEvent)
      BY Zenon, Channels
    <3>2. /\ events' \in Seq(RunEvent) /\ Len(events') = Len(events) + 2
          /\ \A i \in 1 .. Len(events) + 2 :
               events'[i] = IF i <= Len(events) THEN events[i] ELSE <<a, b>>[i - Len(events)]
      BY Zenon, <2>6, <2>7, <3>1, SeqConcat
    <3>3. Len(events') = 2 /\ \A i \in 1 .. 2 : events'[i] = <<a, b>>[i]
      BY <2>10, <2>11, <3>2
    <3>4. DOMAIN events' = 1 .. 2
      BY Zenon, <3>2, <3>3, SeqLength
    <3> QED BY <2>6, <3>3, <3>4
  <2>12. Up' = Up /\ Breaking' = Breaking /\ Uncut' = Uncut
    BY Zenon, <2>7 DEF Up, Breaking, Uncut, Flight
  <2>13. Awaited'
    BY Zenon, <2>9 DEF Awaited
  <2>14. Forwarded' /\ InFlight'
    BY Zenon, <2>7, <2>10, <2>12 DEF Forwarded, InFlight
  <2>15. Pending'
    BY Zenon, <1>1, <1>2, <2>7, <2>8, <2>10, <2>12 DEF JInv, Pending
  <2>16. Own' /\ Rounds'
    BY Zenon, <1>1, <2>2, <2>7, <2>8, <2>9, <2>12 DEF JInv, Own, Rounds
  <2>17. ASSUME Up PROVE Ordered(1)' /\ Ordered(2)'
    <3>1. /\ DOMAIN events' = {1, 2} /\ session'.round = 0
          /\ events'[1].kind = "started" /\ events'[1].round = engine'.round
          /\ events'[2].kind = "execute" /\ events'[2].round = engine'.round
          /\ events'[2].calls = engine'.calls
      BY Zenon, <2>5, <2>7, <2>8, <2>10, <2>11, <2>17
    <3> QED BY Zenon, <3>1 DEF Ordered
  <2>18. Order'
    BY Zenon, <2>11, <2>12, <2>17 DEF Order
  <2>19. Sync'
    BY Zenon, <2>5, <2>8, <2>11, <2>12 DEF Sync, Has, Quiet, Awaiting
  <2> QED BY Zenon, <2>13, <2>14, <2>15, <2>16, <2>18, <2>19 DEF JInv
<1> QED BY Zenon, <1>3, <1>4

\* A break reaches the engine in a round: the results are in front of it, so none
\* is left, and the session forwards no more.
LEMMA ReceiveBreakInRoundJInv ==
  ASSUME IInv, JInv, ReceiveBreakInRound
  PROVE  JInv'
<1>1. /\ engine \in EngineState /\ engine.at = "round"
      /\ commands # <<>> /\ Head(commands).kind = "break" /\ commands' = Tail(commands)
      /\ UNCHANGED <<committed, events, barrier, session, running, results, task>>
  BY Zenon DEF IInv, EngineTypes, ReceiveBreakInRound, Received, stored, channel, client
<1>2. /\ engine'.at = "cut" /\ engine'.round = engine.round /\ engine'.calls = engine.calls
      /\ engine'.todo = <<Head(commands).what>>
  BY Zenon, <1>1 DEF ReceiveBreakInRound, EngineState
<1>3. /\ 1 \in DOMAIN commands /\ Head(commands) = commands[1]
      /\ \A i \in DOMAIN commands : i \in Nat
      /\ \A i \in DOMAIN commands' : i + 1 \in DOMAIN commands /\ commands'[i] = commands[i + 1]
  BY Zenon, <1>1, Channels, Shortened
<1>4. \A i \in DOMAIN commands : commands[i].kind # "result"
  <2> SUFFICES ASSUME NEW i \in DOMAIN commands, commands[i].kind = "result" PROVE FALSE
    BY Zenon
  <2>1. 1 > i
    BY Zenon, <1>1, <1>3 DEF JInv, Awaited
  <2>2. i \in 1 .. Len(commands) /\ Len(commands) \in Nat
    BY Zenon, Channels
  <2> QED BY <2>1, <2>2
<1>5. Head(commands).what \in Breaking /\ Path[Head(commands).what] # "background"
  BY Zenon, <1>1, <1>3, BreakIsBreaking DEF JInv, Own
<1>6. Up' = Up /\ Going /\ Going' /\ Breaking' = Breaking /\ Uncut' = Uncut
  BY Zenon, <1>1, <1>2 DEF Up, Going, Breaking, Uncut, Flight
<1>7. Up => Uncut = {}
  BY Zenon, <1>5, <1>6 DEF JInv, Pending
<1>8. Awaited'
  BY Zenon, <1>3, <1>4 DEF Awaited
<1>9. Forwarded'
  BY Zenon, <1>1, <1>4, <1>6 DEF JInv, Forwarded
<1>10. InFlight'
  BY Zenon, <1>6, <1>7 DEF InFlight
<1>11. Pending'
  BY Zenon, <1>1, <1>2, <1>5, <1>6, <1>7 DEF JInv, Pending, Has
<1>12. Own'
  <2>1. engine'.todo # <<>> /\ Head(engine'.todo) = Head(commands).what
    BY <1>2
  <2> QED BY Zenon, <1>1, <1>3, <1>5, <1>6, <2>1 DEF JInv, Own
<1>13. Rounds'
  BY Zenon, <1>1, <1>2 DEF JInv, Rounds
<1>14. Order'
  <2>1. engine.at = "round" /\ events' = events /\ committed' = committed /\ session' = session
    BY Zenon, <1>1
  <2>2. ASSUME NEW i \in DOMAIN events, Ordered(i) PROVE Ordered(i)'
    <3>1. (OnlyEnd(i)' <=> OnlyEnd(i)) /\ (Has("execute")' <=> Has("execute"))
      BY Zenon, <2>1 DEF OnlyEnd, Has
    <3> QED BY Zenon, <1>2, <2>1, <2>2, <3>1 DEF Ordered
  <2> QED BY Zenon, <1>6, <2>1, <2>2 DEF JInv, Order
<1>15. Sync'
  BY Zenon, <1>1, <1>2, <1>6 DEF JInv, Sync, Has, Quiet, Awaiting
<1> QED BY Zenon, <1>8, <1>9, <1>10, <1>11, <1>12, <1>13, <1>14, <1>15 DEF JInv

\* A result is committed, for a completion that the engine received or because the
\* round is cut.
LEMMA CommitJInv ==
  ASSUME IInv, JInv, NEW c \in engine.calls \ committed, NEW b \in BOOLEAN, NEW last, NEW rest,
         Commit(c, b, last, rest),
         \/ engine.at = "cut" /\ b = TRUE /\ rest = commands
         \/ /\ engine.at = "round" /\ b = FALSE /\ rest = Tail(commands)
            /\ commands # <<>> /\ Head(commands).kind = "result" /\ Head(commands).what = c
  PROVE  JInv'
<1> DEFINE settled == committed \cup {c} = engine.calls
           e == [kind |-> "result", what |-> c, interrupted |-> b, barrier |-> settled]
           next == IF settled THEN Appending("await_settled", last, "model") ELSE engine
<1>1. committed' = committed \cup {c} /\ EmitThen(<<e>>, next, rest)
  BY Zenon DEF Commit
<1>2. engine.at \in {"round", "cut"} /\ Going /\ c \in Call
  BY Zenon DEF Going, IInv, EngineTypes, EngineState
<1>3. CASE SessionOver
  <2>1. Stop("client") /\ ~ Up
    BY Zenon, <1>1, <1>3 DEF EmitThen, SessionOver, Up
  <2> QED BY Zenon, <1>2, <2>1, StopJInv DEF Outcome
<1>4. CASE ~ SessionOver
  <2>1. settled \in BOOLEAN
    BY Zenon
  <2>2. e \in RunEvent
    <3> HIDE DEF settled
    <3> QED BY Zenon, <1>2, <2>1 DEF RunEvent
  <2>3. e.kind = "result" /\ e.what = c /\ e.interrupted = b /\ e.barrier = settled
    BY Zenon
  <2>4. engine' = next
    BY Zenon, <1>1, <1>4 DEF EmitThen
  <2>5. /\ engine'.at = IF settled THEN "await_settled" ELSE engine.at
        /\ engine'.round = engine.round /\ engine'.calls = engine.calls
        /\ ~ settled => engine'.todo = engine.todo
    BY Zenon, <2>4, AppendingAt
  <2>6. settled <=> committed' = engine.calls
    BY Zenon, <1>1
  <2> HIDE DEF e, next, settled
  <2>7. /\ events' = Append(events, e) /\ commands' = rest
        /\ barrier' = IF settled THEN "open" ELSE "none"
        /\ UNCHANGED <<session, running, results, task>>
    BY Zenon, <1>1, <1>4, <2>2, <2>3, EmitAppends
  <2> PICK n : n = Len(events) + 1
    BY Zenon
  <2>8. /\ DOMAIN events = 1 .. Len(events) /\ Len(events) \in Nat /\ Len(events') = n
        /\ DOMAIN events' = DOMAIN events \cup {n}
        /\ \A i \in DOMAIN events : i < n /\ events'[i] = events[i]
        /\ events'[n] = e
    BY <2>2, <2>7, Channels, Extended
  <2>9. \A kind : kind # "result" => (Has(kind)' <=> Has(kind))
    BY Zenon, <2>3, <2>8 DEF Has
  <2>10. Up' = Up /\ Going' /\ Breaking' = Breaking /\ Uncut' = Uncut /\ ~ Quiet'
    BY Zenon, <1>2, <2>5, <2>7 DEF Up, Going, Breaking, Uncut, Flight, Quiet, Awaiting
  <2>11. engine.at = "round" =>
           /\ 1 \in DOMAIN commands /\ commands[1] = Head(commands)
           /\ \A i \in DOMAIN rest :
                /\ i \in Nat /\ i > 0 /\ i + 1 \in DOMAIN commands /\ rest[i] = commands[i + 1]
           /\ \A i \in DOMAIN commands :
                /\ i \in Nat
                /\ i = 1 \/ (i > 1 /\ i - 1 \in DOMAIN rest /\ rest[i - 1] = commands[i])
    BY Channels, Shortened
  <2>12. engine.at = "cut" => \A i \in DOMAIN commands : commands[i].kind # "result"
    BY Zenon DEF JInv, Awaited
  <2>13. engine.at = "round" /\ Up => c \in session.typed /\ ~ Has("execute")
    BY <2>11 DEF JInv, Awaited
  <2>14. Awaited'
    <3>1. CASE engine.at = "cut"
      BY <2>7, <2>12, <3>1 DEF Awaited
    <3>2. CASE engine.at = "round"
      <4> SUFFICES ASSUME NEW i \in DOMAIN rest, rest[i].kind = "result"
                   PROVE  /\ engine'.at = "round" /\ rest[i].what \in engine.calls \ committed'
                          /\ Up => rest[i].what \in session.typed /\ ~ Has("execute")
                          /\ \A j \in DOMAIN rest :
                               /\ rest[j].kind = "result" /\ rest[j].what = rest[i].what => j = i
                               /\ rest[j].kind = "break" => j > i
        BY <2>5, <2>7, <2>9, <2>10 DEF Awaited
      <4>1. /\ i \in Nat /\ i > 0 /\ i + 1 \in DOMAIN commands /\ rest[i] = commands[i + 1]
            /\ 1 \in DOMAIN commands /\ commands[1].kind = "result" /\ commands[1].what = c
        BY Zenon, <2>11, <3>2
      <4>2. /\ rest[i].what \in engine.calls \ committed
            /\ Up => rest[i].what \in session.typed /\ ~ Has("execute")
        BY Zenon, <4>1 DEF JInv, Awaited
      <4>3. rest[i].what # c
        <5>1. rest[i].what = c => 1 = i + 1
          BY Zenon, <4>1 DEF JInv, Awaited
        <5> QED BY <4>1, <5>1
      <4>4. ~ settled /\ engine'.at = "round"
        BY Zenon, <1>1, <2>5, <2>6, <3>2, <4>2, <4>3
      <4>5. ASSUME NEW j \in DOMAIN rest
            PROVE  /\ rest[j].kind = "result" /\ rest[j].what = rest[i].what => j = i
                   /\ rest[j].kind = "break" => j > i
        <5>1. j \in Nat /\ j + 1 \in DOMAIN commands /\ rest[j] = commands[j + 1]
          BY Zenon, <2>11, <3>2
        <5>2. /\ rest[j].kind = "result" /\ rest[j].what = rest[i].what => j + 1 = i + 1
              /\ rest[j].kind = "break" => j + 1 > i + 1
          BY Zenon, <4>1, <5>1 DEF JInv, Awaited
        <5> QED BY <4>1, <5>1, <5>2
      <4> QED BY Zenon, <1>1, <4>2, <4>3, <4>4, <4>5
    <3> QED BY Zenon, <1>2, <3>1, <3>2
  <2>15. Forwarded'
    <3> SUFFICES ASSUME Up, NEW x \in session.typed
                 PROVE  \/ \E i \in DOMAIN rest : rest[i].kind = "result" /\ rest[i].what = x
                        \/ \E i \in DOMAIN events' : /\ events'[i].kind = "result" /\ events'[i].what = x
                                                     /\ ~ events'[i].interrupted
      BY <2>7, <2>10 DEF Forwarded
    <3>1. CASE \E i \in DOMAIN events : /\ events[i].kind = "result" /\ events[i].what = x
                                        /\ ~ events[i].interrupted
      BY Zenon, <2>8, <3>1
    <3>2. CASE engine.at = "round" /\ x = c
      BY Zenon, <2>3, <2>8, <3>2
    <3>3. CASE engine.at = "round" /\ x # c
                /\ \E i \in DOMAIN commands : commands[i].kind = "result" /\ commands[i].what = x
      BY <2>11, <3>3
    <3> QED BY Zenon, <1>2, <2>12, <3>1, <3>2, <3>3 DEF JInv, Forwarded
  <2>16. InFlight'
    <3> SUFFICES ASSUME Up, NEW x \in Uncut
                 PROVE  /\ engine'.at = "round" /\ x \in engine.calls \ committed'
                        /\ x \in session.calls \ session.typed /\ ~ Has("execute") /\ Once(x)'
      BY Zenon, <2>5, <2>7, <2>9, <2>10 DEF InFlight
    <3>1. /\ engine.at = "round" /\ x \in engine.calls \ committed
          /\ x \in session.calls \ session.typed /\ ~ Has("execute") /\ Once(x)
      BY Zenon, <1>2 DEF JInv, InFlight
    <3>2. x # c
      BY Zenon, <2>13, <3>1
    <3>3. ~ settled
      <4>1. committed' = committed \cup {c}
        BY Zenon, <1>1
      <4> QED BY <2>6, <3>1, <3>2, <4>1
    <3>4. Once(x)'
      BY Zenon, <2>7, <3>1 DEF Once
    <3> QED BY Zenon, <1>1, <2>5, <3>1, <3>2, <3>3, <3>4
  <2>17. Pending'
    <3> SUFFICES ASSUME Up
                 PROVE  /\ \A d \in Breaking : MessageOf[d] \in session.pending
                        /\ Breaking # {} => Uncut = {}
                        /\ Has("execute") => \/ engine'.at = "round"
                                             \/ engine'.at \in {"cut", "await_settled"} /\ Breaking # {}
      BY Zenon, <2>7, <2>9, <2>10 DEF Pending
    <3>1. \A d \in Breaking : MessageOf[d] \in session.pending
      BY Zenon, <1>2 DEF JInv, Pending
    <3>2. Breaking # {} => Uncut = {}
      BY Zenon, <1>2 DEF JInv, Pending
    <3>3. Has("execute") => engine.at = "cut" /\ Breaking # {}
      BY Zenon, <1>2, <2>13 DEF JInv, Pending
    <3> QED BY Zenon, <2>5, <3>1, <3>2, <3>3
  <2>18. Own'
    <3>1. \A i \in DOMAIN rest : \E j \in DOMAIN commands : rest[i] = commands[j]
      BY Zenon, <2>11
    <3>2. engine'.at = "cut" => engine.at = "cut" /\ engine'.todo = engine.todo
      BY Zenon, <2>5
    <3> QED BY Zenon, <2>7, <2>10, <3>1, <3>2 DEF JInv, Own
  <2>19. Rounds'
    <3>1. engine'.at \in {"round", "cut"} => engine'.calls # committed' /\ engine'.round # 0
      BY Zenon, <1>2, <2>5, <2>6 DEF JInv, Rounds
    <3>2. ~ (Up' /\ Has("execute")' /\ engine'.at = "round")
      BY Zenon, <2>5, <2>9, <2>10, <2>13
    <3> QED BY Zenon, <3>1, <3>2 DEF Rounds
  <2>20. Order'
    <3> SUFFICES ASSUME Up PROVE \A i \in DOMAIN events' : Ordered(i)'
      BY Zenon, <2>10 DEF Order
    <3>1. ASSUME NEW i \in DOMAIN events
          PROVE  /\ Ordered(i) /\ events[i].kind \notin {"runtime", "compacted", "final", "ended"}
                 /\ events[i].kind = "result" => ~ events[i].barrier /\ events[i].what # c
      <4>1. Ordered(i)
        BY Zenon DEF JInv, Order
      <4>2. engine.calls # committed
        BY Zenon
      <4>3. events[i].kind \notin {"runtime", "compacted", "final"}
        BY Zenon, <1>2 DEF JInv, Sync, Has, Awaiting
      <4> QED BY Zenon, <1>2, <4>1, <4>2, <4>3 DEF Ordered
    <3>2. ASSUME NEW i \in DOMAIN events PROVE Ordered(i)'
      <4>1. 1 \in DOMAIN events /\ events'[1] = events[1] /\ events'[i] = events[i] /\ i # n
        BY <2>8
      <4>2. /\ Ordered(i) /\ events[i].kind \notin {"runtime", "compacted", "final", "ended"}
            /\ events[i].kind = "result" => ~ events[i].barrier /\ events[i].what # c
        BY Zenon, <3>1
      <4>3. events[i].kind = "result" =>
              \A j \in DOMAIN events' : events'[j].kind = "result" /\ events'[j].what = events[i].what => j = i
        BY Zenon, <2>3, <2>8, <4>2 DEF Ordered
      <4> QED BY ZenonT(30), <1>1, <2>5, <2>7, <2>8, <2>9, <4>1, <4>2, <4>3 DEF Ordered
    <3>3. Ordered(n)'
      <4>1. \/ 1 \in DOMAIN events /\ events[1].kind = "started"
            \/ session.round = engine.round
        <5>1. Has("started") \/ session.round = engine.round
          BY Zenon, <1>2 DEF JInv, Sync
        <5>2. Has("started") => 1 \in DOMAIN events /\ events[1].kind = "started"
          BY Zenon, <3>1 DEF Has, Ordered
        <5> QED BY Zenon, <5>1, <5>2
      <4>2. events'[1].kind = "started" \/ session'.round = engine'.round
        BY Zenon, <2>5, <2>7, <2>8, <4>1
      <4>3. engine'.round # 0 /\ e.what \in committed'
        BY Zenon, <1>1, <1>2, <2>3, <2>5 DEF JInv, Rounds
      <4>4. b \/ (c \in session'.typed /\ ~ Has("execute")')
        BY Zenon, <2>7, <2>9, <2>13
      <4>5. \A j \in DOMAIN events' : events'[j].kind = "result" /\ events'[j].what = e.what => j = n
        BY Zenon, <2>3, <2>8, <3>1
      <4>6. OnlyEnd(n)'
        BY <2>8 DEF OnlyEnd
      <4>7. e.barrier => committed' = engine'.calls
        BY Zenon, <2>3, <2>5, <2>6
      <4> QED BY Zenon, <2>3, <2>8, <4>2, <4>3, <4>4, <4>5, <4>6, <4>7 DEF Ordered
    <3> QED BY Zenon, <2>8, <3>2, <3>3
  <2>21. Sync'
    <3> SUFFICES ASSUME Up
                 PROVE  /\ barrier' # "lost"
                        /\ engine'.at \in {"round", "cut"} => Has("started") \/ session.round = engine.round
                        /\ ~ Has("runtime") /\ ~ Has("compacted") /\ ~ Has("final")
      BY Zenon, <2>5, <2>7, <2>9, <2>10 DEF Sync
    <3> QED BY Zenon, <1>2, <2>5, <2>7 DEF JInv, Sync, Awaiting
  <2> QED BY Zenon, <2>14, <2>15, <2>16, <2>17, <2>18, <2>19, <2>20, <2>21 DEF JInv
<1> QED BY Zenon, <1>3, <1>4

\* A tool result is received: the engine waits for it.
LEMMA ReceiveResultJInv ==
  ASSUME IInv, JInv, ReceiveResult
  PROVE  JInv' /\ engine'.then # "stray_result"
<1> DEFINE c == Head(commands).what
<1>1. /\ commands # <<>> /\ Head(commands).kind = "result"
      /\ 1 \in DOMAIN commands /\ Head(commands) = commands[1]
  BY Zenon, Channels, Shortened DEF ReceiveResult, Received
<1>2. engine.at = "round" /\ c \in engine.calls \ committed
  BY Zenon, <1>1 DEF JInv, Awaited
<1>3. Commit(c, FALSE, <<>>, Tail(commands))
  BY Zenon, <1>2 DEF ReceiveResult
<1>4. JInv'
  <2> HIDE DEF c
  <2>1. Head(commands).what = c
    BY Zenon DEF c
  <2> QED BY Zenon, <1>1, <1>2, <1>3, <2>1, CommitJInv
<1>5. engine'.then # "stray_result"
  <2>1. CASE SessionOver
    BY Zenon, <1>3, <2>1 DEF Commit, EmitThen, Stop, IInv, EngineTypes, EngineState
  <2>2. CASE ~ SessionOver
    <3>1. engine.then # "stray_result" /\ engine \in EngineState
      BY Zenon, <1>2 DEF IInv, Phases, Outcome, EngineTypes
    <3>2. \/ engine' = Appending("await_settled", <<>>, "model")
          \/ engine' = engine
      BY Zenon, <1>3, <2>2 DEF Commit, EmitThen
    <3> QED BY Zenon, <3>1, <3>2 DEF Appending, EngineState
  <2> QED BY Zenon, <2>1, <2>2
<1> QED BY Zenon, <1>4, <1>5

\* A call of a round that is cut gets its result.
LEMMA CutCallJInv ==
  ASSUME IInv, JInv, NEW c \in Call, CutCall(c)
  PROVE  JInv'
<1>1. /\ engine.at = "cut" /\ c \in engine.calls \ committed
      /\ Commit(c, TRUE, engine.todo, commands)
  BY Zenon DEF CutCall
<1> QED BY Zenon, <1>1, CommitJInv

=============================================================================
