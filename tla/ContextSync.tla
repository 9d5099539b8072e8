------------------------------ MODULE ContextSync ------------------------------
(***************************************************************************)
(* How a Run gets its request context (services/context_sync.rs,           *)
(* compile/context.rs).  A request names the parts of the context by their *)
(* digests; the parts that are cached are read from the store, and if one  *)
(* is missing the whole context is asked of the client, through one slot   *)
(* that all Runs of the stream share.  Runs of a stream follow each other: *)
(* each waits until the one it supersedes has finished.                    *)
(***************************************************************************)
EXTENDS Naturals, Sequences

CONSTANTS Parts,      \* parts of a request context
          MaxEdits,   \* bound: changes of the context in the client
          MaxRuns,    \* bound: Runs of the stream
          MaxFailures \* bound: errors, lost answers, cancellations

VARIABLES context,    \* the client's context through time: Seq([Parts -> Nat])
          gens,       \* the Runs' preparations
          slot,       \* pending: the id of the request in the slot, 0 when free
          lastId,     \* exec ids handed out
          cached,     \* the store's parts: a set of <<part, version>>
          asked,      \* requests on their way to the client
          told,       \* answers on their way back
          failures

contextVars == <<context, gens, slot, lastId, cached, asked, told, failures>>

Now == Len(context)

Number == Len(gens)

Ended == {"done", "failed", "refused", "dropped", "skipped"}

Init ==
  /\ context = <<[p \in Parts |-> 1]>>
  /\ gens = <<>>
  /\ slot = 0 /\ lastId = 0
  /\ cached \in SUBSET { <<p, 1>> : p \in Parts }
  /\ asked = {} /\ told = {}
  /\ failures = 0

\* The user edits a rule, installs a skill, ...
Edit(p) ==
  /\ Now < MaxEdits
  /\ context' = Append(context, [context[Now] EXCEPT ![p] = @ + 1])
  /\ UNCHANGED <<gens, slot, lastId, cached, asked, told, failures>>

\* start_generation: the Run before is superseded.  The request names the
\* parts of the context of now, or none when it is a background completion.
StartRun(named) ==
  /\ Number < MaxRuns
  /\ gens' = Append(
       [g \in 1 .. Number |-> [gens[g] EXCEPT !.superseded = TRUE]],
       [phase |-> "waiting", superseded |-> FALSE, named |-> named, since |-> Now,
        id |-> 0, result |-> <<>>])
  /\ UNCHANGED <<context, slot, lastId, cached, asked, told, failures>>

\* spawn_run_request waits for the previous generation.
Begin(g) ==
  /\ gens[g].phase = "waiting"
  /\ g > 1 => gens[g - 1].phase \in Ended
  /\ gens' = [gens EXCEPT ![g].phase = "checking"]
  /\ UNCHANGED <<context, slot, lastId, cached, asked, told, failures>>

Referenced(g) == { <<p, context[gens[g].since][p]>> : p \in Parts }

\* has_missing_part finds all parts: they are decoded.
HydrateCached(g) ==
  /\ gens[g].phase = "checking" /\ gens[g].named
  /\ Referenced(g) \subseteq cached
  /\ gens' = [gens EXCEPT ![g].phase = "done", ![g].result = <<context[gens[g].since]>>]
  /\ UNCHANGED <<context, slot, lastId, cached, asked, told, failures>>

\* load: the slot is taken and the client asked, if nobody else is waiting.
Load(g) ==
  /\ gens[g].phase = "checking"
  /\ gens[g].named => ~ (Referenced(g) \subseteq cached)
  /\ lastId' = lastId + 1
  /\ IF slot # 0
     THEN /\ gens' = [gens EXCEPT ![g].phase = "refused"]
          /\ UNCHANGED <<slot, asked>>
     ELSE /\ gens' = [gens EXCEPT ![g].phase = "loading", ![g].id = lastId']
          /\ slot' = lastId'
          /\ asked' = asked \cup {lastId'}
  /\ UNCHANGED <<context, cached, told, failures>>

\* The client answers with the context of now, or fails.
ClientAnswers(id) ==
  /\ id \in asked
  /\ asked' = asked \ {id}
  /\ \/ told' = told \cup {[id |-> id, value |-> <<context[Now]>>]} /\ UNCHANGED failures
     \/ /\ failures < MaxFailures
        /\ told' = told \cup {[id |-> id, value |-> <<>>]}
        /\ failures' = failures + 1
  /\ UNCHANGED <<context, gens, slot, lastId, cached>>

\* Mutation: any answer fills the slot.
MatchesAny(id) == slot # 0

Matches(id) == slot = id

\* handle_client and handle_throw: the answer to the request in the slot goes
\* to the Run that waits for it; any other is dropped.  The Run may have
\* stopped waiting in between.
HandleAnswer(a) ==
  /\ told' = told \ {a}
  /\ IF Matches(a.id)
     THEN /\ slot' = 0
          /\ gens' = [g \in 1 .. Number |->
                        IF gens[g].phase = "loading" /\ gens[g].id = slot
                        THEN [gens[g] EXCEPT !.phase = "answered", !.result = a.value]
                        ELSE gens[g]]
     ELSE UNCHANGED <<slot, gens>>
  /\ UNCHANGED <<context, lastId, cached, asked, failures>>

\* cache_parts and hydrate, after a context was loaded.
TakeAnswer(g) ==
  /\ gens[g].phase = "answered"
  /\ IF gens[g].result = <<>>
     THEN gens' = [gens EXCEPT ![g].phase = "failed"] /\ UNCHANGED cached
     ELSE /\ gens' = [gens EXCEPT ![g].phase = "done"]
          /\ cached' = IF gens[g].named
                       THEN cached \cup { <<p, gens[g].result[1][p]>> : p \in Parts }
                       ELSE cached
  /\ UNCHANGED <<context, slot, lastId, asked, told, failures>>

\* PendingContext::drop: the slot is freed if it is still this Run's.
Freed(g) == IF slot = gens[g].id THEN 0 ELSE slot

\* The wait times out.
TimeOut(g) ==
  /\ gens[g].phase \in {"loading", "answered"} /\ failures < MaxFailures
  /\ gens' = [gens EXCEPT ![g].phase = "failed"]
  /\ slot' = Freed(g)
  /\ failures' = failures + 1
  /\ UNCHANGED <<context, lastId, cached, asked, told>>

\* A superseded preparation is dropped wherever it is; one that still waits
\* for its predecessor does not wait any longer.
Drop(g) ==
  /\ gens[g].superseded /\ gens[g].phase \notin Ended
  /\ gens' = [gens EXCEPT ![g].phase = IF @ = "waiting" THEN "skipped" ELSE "dropped"]
  /\ slot' = Freed(g)
  /\ UNCHANGED <<context, lastId, cached, asked, told, failures>>

Next ==
  \/ \E p \in Parts : Edit(p)
  \/ \E named \in BOOLEAN : StartRun(named)
  \/ \E g \in 1 .. Number :
       Begin(g) \/ HydrateCached(g) \/ Load(g) \/ TakeAnswer(g) \/ TimeOut(g) \/ Drop(g)
  \/ \E id \in asked : ClientAnswers(id)
  \/ \E a \in told : HandleAnswer(a)

Spec == Init /\ [][Next]_contextVars

-----------------------------------------------------------------------------
(* The slot is taken exactly while the Run whose request it names waits: a *)
(* Run that timed out or was superseded leaves it free for the next.       *)
SlotHasWaiter ==
  slot # 0 => \E g \in 1 .. Number : gens[g].phase = "loading" /\ gens[g].id = slot

(* A Run that replaces a Run is not refused because that one is loading    *)
(* its context; only a Run whose predecessor was itself replaced while it  *)
(* waited may meet the load of the Run before.                             *)
RefusedOnlyAfterSkip ==
  \A g \in 1 .. Number :
    gens[g].phase = "refused" /\ ~ gens[g].superseded =>
      g > 1 /\ gens[g - 1].phase = "skipped"

(* A Run works with one context that the client had, as a whole, at or     *)
(* after the Run's request: never with an older one, nor with parts of     *)
(* two, also when an answer to an earlier Run's request comes late.        *)
ContextIsWhole ==
  \A g \in 1 .. Number :
    gens[g].phase = "done" =>
      \E v \in gens[g].since .. Now : gens[g].result[1] = context[v]
=============================================================================
