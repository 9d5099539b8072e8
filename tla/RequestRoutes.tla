--------------------------- MODULE RequestRoutes ---------------------------
(***************************************************************************)
(* Which side serves one request id: the table of local transports and     *)
(* the table of routes to the official upstream, kept by TransportRegistry *)
(* (cursor/transport/registry.rs), and the two HTTP handlers that read and *)
(* fill them (api/cursor/handlers.rs, bidi.rs, run_sse.rs).  The tables    *)
(* are keyed by request id and the ids do not interact, so there is one.   *)
(*                                                                         *)
(* Every lock acquisition is a step of its own: a handler decides from the *)
(* tables in one step and acts on the decision in another.  The spawned    *)
(* tasks (watchers of local transports, releases of upstream leases and    *)
(* expiry timers) are sets of tasks that run whenever they like.           *)
(***************************************************************************)
EXTENDS Naturals, FiniteSets

CONSTANTS
    Appends,        \* BidiAppend handlers
    Streams,        \* RunSSE handlers
    MaxEpoch        \* bound on the epoch of a route: on the leases it grants

(* A model-bearing RunRequest for a local or an official model, any other  *)
(* client message, or a first message that can never select a model.       *)
Messages == {"local_model", "official_model", "control", "no_model"}

Handlers == Appends \cup Streams
(* A handler creates at most one transport or route, so none is refused.   *)
MaxGeneration == Cardinality(Appends) + Cardinality(Streams)
Generations == 1..MaxGeneration
NoRoute == [generation |-> 0, active |-> 0, epoch |-> 0]

VARIABLES
    message,        \* what each append carries: an input, never changed
    local,          \* generation of the entry of `local`, 0 when there is none
    transport,          \* generation -> transport of that transport
    watchers,       \* generations whose lifecycle task is still waiting
    route,          \* the entry of `upstream`, or NoRoute
    routes,         \* upstream generations handed out so far
    timers,         \* <<generation, epoch>> of the expiry tasks asleep
    ends,           \* <<stream, generation, complete>>: end_upstream tasks spawned
    at,             \* where each handler stands
    found,           \* generation of the transport or route each handler found
    listening,        \* waiters registered with route_changed and not notified
    notices         \* notify_waiters calls due, one per handler

tables == <<message, local, transport, watchers, route, routes, timers, ends>>
vars == <<message, local, transport, watchers, route, routes, timers, ends, at, found, listening, notices>>

TypeOK ==
    /\ message \in [Appends -> Messages]
    /\ local \in 0..MaxGeneration
    /\ transport \in [Generations -> {"none", "accepting", "closing", "closed"}]
    /\ watchers \subseteq Generations
    /\ route \in [generation : 0..MaxGeneration, active : 0..Cardinality(Streams), epoch : 0..MaxEpoch + 1]
    /\ routes \in 0..MaxGeneration
    /\ timers \subseteq Generations \X (0..MaxEpoch + 1)
    /\ ends \subseteq Streams \X Generations \X BOOLEAN
    /\ at \in [Handlers -> {"start", "look_upstream", "enable", "see_local", "see_upstream",
                            "blocked", "create", "admit", "mark", "forward", "begin",
                            "streaming", "done", "failed"}]
    /\ found \in [Handlers -> 0..MaxGeneration]
    /\ listening \subseteq Handlers
    /\ notices \subseteq Handlers

Init ==
    /\ message \in [Appends -> Messages]
    /\ local = 0
    /\ transport = [g \in Generations |-> "none"]
    /\ watchers = {}
    /\ route = NoRoute
    /\ routes = 0
    /\ timers = {}
    /\ ends = {}
    /\ at = [h \in Handlers |-> "start"]
    /\ found = [h \in Handlers |-> 0]
    /\ listening = {}
    /\ notices = {}

Go(h, place) == at' = [at EXCEPT ![h] = place]
Created == {g \in Generations : transport[g] # "none"}
FreshLocal == Cardinality(Created) + 1

-----------------------------------------------------------------------------
(* bidi_handler and run_sse_handler up to the choice of a route.           *)

(* A model-bearing append chooses the route from the model id alone.       *)
RouteByModel(a) ==
    /\ at[a] = "start"
    /\ message[a] \in {"local_model", "official_model"}
    /\ Go(a, IF message[a] = "local_model" THEN "create" ELSE "mark")
    /\ UNCHANGED <<tables, found, listening, notices>>

(* Any other append follows the local entry when there is one.             *)
LookLocal(a) ==
    /\ at[a] = "start"
    /\ message[a] \in {"control", "no_model"}
    /\ Go(a, IF local # 0 THEN "create" ELSE "look_upstream")
    /\ UNCHANGED <<tables, found, listening, notices>>

(* It then follows an upstream route.  A message that could never select a *)
(* model is refused; the others wait for the model-bearing request.        *)
LookUpstream(a) ==
    /\ at[a] = "look_upstream"
    /\ Go(a, IF route # NoRoute THEN "forward"
             ELSE IF message[a] = "no_model" THEN "failed"
             ELSE "enable")
    /\ UNCHANGED <<tables, found, listening, notices>>

StartStream(s) ==
    /\ at[s] = "start"
    /\ Go(s, "enable")
    /\ UNCHANGED <<tables, found, listening, notices>>

-----------------------------------------------------------------------------
(* wait_route.                                                             *)

(* notified() and enable(): a notice from here on is not missed.           *)
EnableNotice(h) ==
    /\ at[h] = "enable"
    /\ listening' = listening \cup {h}
    /\ Go(h, "see_local")
    /\ UNCHANGED <<tables, found, notices>>

SeeLocal(h) ==
    /\ at[h] = "see_local"
    /\ Go(h, IF local # 0 THEN "create" ELSE "see_upstream")
    /\ listening' = IF local # 0 THEN listening \ {h} ELSE listening
    /\ UNCHANGED <<tables, found, notices>>

SeeUpstream(h) ==
    /\ at[h] = "see_upstream"
    /\ IF route = NoRoute
       THEN /\ Go(h, "blocked")
            /\ UNCHANGED <<found, listening>>
       ELSE /\ Go(h, IF h \in Streams THEN "begin" ELSE "forward")
            /\ found' = [found EXCEPT ![h] = route.generation]
            /\ listening' = listening \ {h}
    /\ UNCHANGED <<tables, notices>>

Wake(h) ==
    /\ at[h] = "blocked"
    /\ h \notin listening
    /\ Go(h, "enable")
    /\ UNCHANGED <<tables, found, listening, notices>>

(* The callers bound the wait to 60 seconds.                               *)
WaitTimeout(h) ==
    /\ at[h] = "blocked"
    /\ Go(h, "failed")
    /\ listening' = listening \ {h}
    /\ UNCHANGED <<tables, found, notices>>

(* notify_waiters, called after the table's lock is released.              *)
Notify(h) ==
    /\ h \in notices
    /\ notices' = notices \ {h}
    /\ listening' = {}
    /\ UNCHANGED <<tables, at, found>>

-----------------------------------------------------------------------------
(* Local transports.                                                       *)

(* The entry survives when it still takes appends or the caller does not   *)
(* insist; otherwise a new transport takes its place.                      *)
KeepsEntry(replaceClosing) ==
    local # 0 /\ (transport[local] = "accepting" \/ ~replaceClosing)

ReplacesClosing(h) == h \in Appends /\ message[h] \in {"local_model", "official_model"}

(* get_or_create_for_append up to the release of the lock.  A RunSSE       *)
(* handler is subscribed after it, an append is still to be admitted.      *)
GetOrCreate(h) ==
    /\ at[h] = "create"
    /\ h \notin notices
    /\ IF KeepsEntry(ReplacesClosing(h))
       THEN /\ found' = [found EXCEPT ![h] = local]
            /\ UNCHANGED <<message, local, transport, watchers, notices>>
       ELSE /\ local' = FreshLocal
            /\ transport' = [transport EXCEPT ![FreshLocal] = "accepting"]
            /\ watchers' = watchers \cup {FreshLocal}
            /\ notices' = notices \cup {h}
            /\ found' = [found EXCEPT ![h] = FreshLocal]
    /\ Go(h, IF h \in Streams THEN "done" ELSE "admit")
    /\ UNCHANGED <<message, route, routes, timers, ends, listening>>

(* bidi::append: admit() refuses a transport that stopped taking appends.  *)
Admit(a) ==
    /\ at[a] = "admit"
    /\ a \notin notices
    /\ Go(a, IF transport[found[a]] = "accepting" THEN "done" ELSE "failed")
    /\ UNCHANGED <<tables, found, listening, notices>>

(* The transport's own life, see Transport.tla: it stops taking appends    *)
(* and later its actor ends.                                               *)
TransportCloses(g) ==
    /\ transport[g] \in {"accepting", "closing"}
    /\ transport' = [transport EXCEPT ![g] = IF @ = "accepting" THEN "closing" ELSE "closed"]
    /\ UNCHANGED <<message, local, watchers, route, routes, timers, ends, at, found, listening, notices>>

(* The lifecycle task of a transport forgets the entry that is still its.  *)
Watcher(g) ==
    /\ g \in watchers
    /\ transport[g] = "closed"
    /\ watchers' = watchers \ {g}
    /\ local' = IF local = g THEN 0 ELSE local
    /\ UNCHANGED <<message, transport, route, routes, timers, ends, at, found, listening, notices>>

-----------------------------------------------------------------------------
(* Routes to the official upstream.                                        *)

MarkUpstream(a) ==
    /\ at[a] = "mark"
    /\ routes' = routes + 1
    /\ route' = [generation |-> routes + 1, active |-> 0, epoch |-> 0]
    /\ timers' = timers \cup {<<routes + 1, 0>>}
    /\ notices' = notices \cup {a}
    /\ Go(a, "forward")
    /\ UNCHANGED <<message, local, transport, watchers, ends, found, listening>>

(* proxy::forward of an append; the client sees the upstream's answer or   *)
(* the error.                                                              *)
ForwardAppend(a) ==
    /\ at[a] = "forward"
    /\ a \notin notices
    /\ \/ Go(a, "done")
       \/ Go(a, "failed")
    /\ UNCHANGED <<tables, found, listening, notices>>

(* UpstreamRunGuard::new: the lease is taken before the request is sent.   *)
BeginUpstream(s) ==
    /\ at[s] = "begin"
    /\ route.epoch < MaxEpoch
    /\ IF route # NoRoute /\ route.generation = found[s]
       THEN /\ route' = [route EXCEPT !.active = @ + 1, !.epoch = @ + 1]
            /\ Go(s, "streaming")
       ELSE /\ Go(s, "failed")
            /\ UNCHANGED route
    /\ UNCHANGED <<message, local, transport, watchers, routes, timers, ends, found, listening, notices>>

(* The guard is dropped with the response body, or when forwarding failed. *)
(* Only a successful response whose terminal envelope passed through whole *)
(* is complete: either can happen.                                         *)
DropGuard(s) ==
    /\ at[s] = "streaming"
    /\ \E complete \in BOOLEAN :
          /\ ends' = ends \cup {<<s, found[s], complete>>}
          /\ Go(s, IF complete THEN "done" ELSE "failed")
    /\ UNCHANGED <<message, local, transport, watchers, route, routes, timers, found, listening, notices>>

(* The client asks again after an abnormal end.                            *)
Reconnect(s) ==
    /\ at[s] = "failed"
    /\ ~\E e \in ends : e[1] = s
    /\ Go(s, "start")
    /\ UNCHANGED <<tables, found, listening, notices>>

(* The decrement saturates at zero.                                        *)
Released(r) ==
    LET left == IF r.active > 0 THEN r.active - 1 ELSE 0
    IN  [r EXCEPT !.active = left, !.epoch = IF left = 0 THEN @ + 1 ELSE @]

EndUpstream(e) ==
    /\ e \in ends
    /\ ends' = ends \ {e}
    /\ IF route = NoRoute \/ route.generation # e[2]
       THEN UNCHANGED <<route, timers>>
       ELSE IF e[3]
       THEN /\ route' = NoRoute
            /\ UNCHANGED timers
       ELSE /\ route' = Released(route)
            /\ timers' = IF Released(route).active = 0
                         THEN timers \cup {<<route.generation, Released(route).epoch>>}
                         ELSE timers
    /\ UNCHANGED <<message, local, transport, watchers, routes, at, found, listening, notices>>

(* Mutation: the expiry looks at the generation only.                      *)
ExpireGeneration(t) ==
    /\ t \in timers
    /\ timers' = timers \ {t}
    /\ route' = IF route # NoRoute /\ route.generation = t[1] THEN NoRoute ELSE route
    /\ UNCHANGED <<message, local, transport, watchers, routes, ends, at, found, listening, notices>>

(* An expiry task wakes 60 seconds after it was spawned.                   *)
ExpireUpstream(t) ==
    /\ t \in timers
    /\ timers' = timers \ {t}
    /\ route' = IF route # NoRoute /\ route.generation = t[1] /\ route.active = 0 /\ route.epoch = t[2]
                THEN NoRoute ELSE route
    /\ UNCHANGED <<message, local, transport, watchers, routes, ends, at, found, listening, notices>>

(* shutdown empties both tables and disconnects every local transport.     *)
Shutdown ==
    /\ local # 0 \/ route # NoRoute
    /\ local' = 0
    /\ route' = NoRoute
    /\ transport' = [g \in Generations |->
                    IF g = local /\ transport[g] = "accepting" THEN "closing" ELSE transport[g]]
    /\ UNCHANGED <<message, watchers, routes, timers, ends, at, found, listening, notices>>

-----------------------------------------------------------------------------
Handle(h) ==
    \/ EnableNotice(h) \/ SeeLocal(h) \/ SeeUpstream(h) \/ Wake(h) \/ WaitTimeout(h)
    \/ Notify(h) \/ GetOrCreate(h)

HandleAppend(a) ==
    \/ RouteByModel(a) \/ LookLocal(a) \/ LookUpstream(a) \/ Admit(a)
    \/ MarkUpstream(a) \/ ForwardAppend(a)

HandleStream(s) == StartStream(s) \/ BeginUpstream(s) \/ DropGuard(s)

Watching == \E g \in Generations : Watcher(g)
Ending == \E e \in ends : EndUpstream(e)
Expiring == \E t \in timers : ExpireUpstream(t)
Tasks == (\E g \in Generations : TransportCloses(g)) \/ Watching \/ Ending \/ Expiring

Next ==
    \/ \E h \in Handlers : Handle(h)
    \/ \E a \in Appends : HandleAppend(a)
    \/ \E s \in Streams : HandleStream(s) \/ Reconnect(s)
    \/ Tasks
    \/ Shutdown

Spec == Init /\ [][Next]_vars

(* Handlers and spawned tasks are tasks of a multi-threaded runtime and    *)
(* the sleeps they wait on elapse.  When a transport closes, a body ends   *)
(* or a client reconnects is up to others: the ends of a body are fair     *)
(* because both sides of a connection time out.                            *)
Fairness ==
    /\ \A a \in Appends : WF_vars(Handle(a) \/ HandleAppend(a))
    /\ \A s \in Streams : WF_vars(Handle(s) \/ HandleStream(s))
    /\ WF_vars(Watching) /\ WF_vars(Ending) /\ WF_vars(Expiring)

FairSpec == Spec /\ Fairness

-----------------------------------------------------------------------------
(* Properties.                                                             *)

Leases(g) ==
    {s \in Streams : at[s] = "streaming" /\ found[s] = g} \cup {e[1] : e \in {x \in ends : x[2] = g}}

(* `active` counts exactly the leases of the route's own generation, those *)
(* whose release task has not run yet included: a lease is never counted   *)
(* on, or released from, another generation's route.                       *)
ActiveCountsLeases ==
    route # NoRoute => route.active = Cardinality(Leases(route.generation))

(* A route nobody holds a lease on always has an expiry task that will     *)
(* match its generation and its epoch: the table cannot keep it forever.   *)
IdleRouteHasTimer ==
    route # NoRoute /\ route.active = 0 => <<route.generation, route.epoch>> \in timers

LeasedRouteStep ==
    route # NoRoute /\ route'.generation # route.generation
       => \/ \A s \in Streams : ~(at[s] = "streaming" /\ found[s] = route.generation)
          \/ \E e \in ends : e[2] = route.generation /\ e[3]
          \/ routes' # routes
          \/ local' = 0 /\ route' = NoRoute /\ timers' = timers

(* An expiry task or a release never takes away a route on which another   *)
(* stream still holds a lease, unless the run's terminal envelope passed.  *)
LeasedRouteStays == [][LeasedRouteStep]_vars

(* A handler asleep in wait_route with no notice on its way has nothing to *)
(* be woken for: no insertion slips between its look at a table and its    *)
(* sleep.                                                                  *)
NoLostWakeup ==
    \A h \in Handlers :
        at[h] = "blocked" /\ h \in listening /\ notices = {} => local = 0 /\ route = NoRoute

AcceptingTransportStep ==
    local # 0 /\ transport[local] = "accepting" /\ local' # local
       => local' = 0 /\ transport'[local] = "closing"

(* While a transport takes appends, only shutdown removes it from the      *)
(* table: neither a model-bearing append nor the watcher of an earlier     *)
(* transport does.                                                         *)
AcceptingTransportStays == [][AcceptingTransportStep]_vars

Waits(h) == at[h] = "enable"
Answered(h) == at[h] \in {"done", "failed"}

(* Every handler answers: the wait for a route is bounded, and a route     *)
(* that came meanwhile is followed.                                        *)
HandlersAnswer == \A h \in Handlers : Waits(h) ~> Answered(h)

=============================================================================
