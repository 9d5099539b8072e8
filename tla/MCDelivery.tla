----------------------------- MODULE MCDelivery -----------------------------
(***************************************************************************)
(* A Run and what reaches it. The deliveries of RunDelivery, a user message*)
(* and a background completion, over two rounds of calls; the tools of a   *)
(* Run; and the request context it asks for.                               *)
(***************************************************************************)
EXTENDS RunDelivery, TLC

CONSTANTS d1, d2, c1, c2, c3

VARIABLES part,  \* the component explored
          x1, x2, x3, x4, x5, x6, x7, x8, x9, x10, x11, x12, x13, x14, x15, x16  \* its variables

(* Each attempt carries a message of its own; the first is the user's, or    *)
(* an injection.                                                             *)
EachItsOwn == [d \in Delivery |-> d]
UserAndBackground == [d \in Delivery |-> IF d = d1 THEN "user" ELSE "background"]
AllInject == [d \in Delivery |-> "inject"]

(* The ids of the calls of a round: fresh in each round, or used again.      *)
Fresh == <<{c1, c2}, {c3}>>
Pair == <<{c1, c2}>>
Reused == <<{c1}, {c1}>>

(* Three edits of one file in two calls of a round, then a task, a web       *)
(* search and a spawned agent in one.                                        *)
KindOf == [e1 |-> "edit", e2 |-> "edit", e3 |-> "edit", t1 |-> "task", w1 |-> "web", s1 |-> "spawn"]
PathOf == [e1 |-> "p", e2 |-> "p", e3 |-> "p"]
RoundsOf == << << <<"e1", "e2">>, <<"e3">> >>, << <<"t1", "w1", "s1">> >> >>

-----------------------------------------------------------------------------
Tools == INSTANCE ToolRuntime WITH
    KindOf <- KindOf, PathOf <- PathOf, RoundsOf <- RoundsOf, MaxId <- 6,
    MaxInject <- 1,
    gen <- x1, nextId <- x2, execs <- x3, asks <- x4, completed <- x5,
    interrupted <- x6, paths <- x7, activePaths <- x8, session <- x9, actor <- x10,
    results <- x11, tasks <- x12, sent <- x13, settled <- x14, stop <- x15,
    injected <- x16

Context == INSTANCE ContextSync WITH
    Parts <- {"rules", "skills"}, MaxEdits <- 2, MaxRuns <- 3, MaxFailures <- 1,
    context <- x1, gens <- x2, slot <- x3, lastId <- x4, cached <- x5, asked <- x6,
    told <- x7, failures <- x8

-----------------------------------------------------------------------------
(* The variables a component leaves over. *)
Rest8 ==
    /\ x9 = 0 /\ x10 = 0 /\ x11 = 0 /\ x12 = 0 /\ x13 = 0 /\ x14 = 0
    /\ x15 = 0 /\ x16 = 0
Rest0 ==
    /\ x1 = 0 /\ x2 = 0 /\ x3 = 0 /\ x4 = 0 /\ x5 = 0 /\ x6 = 0 /\ x7 = 0
    /\ x8 = 0 /\ Rest8

SuiteInit ==
    /\ Init
    /\ \/ part = "delivery" /\ Rest0
       \/ part = "tools" /\ Tools!Init
       \/ part = "context" /\ Context!Init /\ Rest8

ToolsStep == part = "tools" /\ Tools!Next /\ UNCHANGED <<part, vars>>
ContextStep ==
    /\ part = "context" /\ Context!Next
    /\ UNCHANGED <<part, vars, x9, x10, x11, x12, x13, x14, x15, x16>>
DeliveryStep ==
    /\ part = "delivery" /\ Next
    /\ UNCHANGED <<part, x1, x2, x3, x4, x5, x6, x7, x8, x9, x10, x11, x12, x13, x14, x15, x16>>

SuiteNext ==
    \/ DeliveryStep \/ ToolsStep \/ ContextStep

suiteVars == <<part, vars, x1, x2, x3, x4, x5, x6, x7, x8, x9, x10, x11, x12, x13, x14, x15, x16>>

SuiteSpec == SuiteInit /\ [][SuiteNext]_suiteVars

-----------------------------------------------------------------------------
(* Whatever is interrupted, repeated or answered late, an id names one      *)
(* request for the life of the transport, no call completes twice, the edit *)
(* that holds a path is on its way to a completion and the schedule of      *)
(* edits agrees with it, and the end of a Run leaves no Exec unanswered and *)
(* unaborted.                                                               *)
ToolsSettle ==
    part = "tools" =>
      /\ Tools!IdsNameOneRequest
      /\ Tools!ScheduleAgrees
      /\ Tools!HeldPathsMove
      /\ Tools!NoDuplicateResult
      /\ Tools!EndAborts

(* A Run works with one context that the client had, as a whole, at or      *)
(* after the Run's request; the slot for it is taken exactly while a Run    *)
(* waits; and a Run is refused only when its predecessor was itself         *)
(* replaced while it waited.                                                *)
ContextIsCurrent ==
    part = "context" =>
      /\ Context!SlotHasWaiter
      /\ Context!RefusedOnlyAfterSkip
      /\ Context!ContextIsWhole

-----------------------------------------------------------------------------
(* The deliveries alone, with the fairness of RunDelivery.                   *)
DeliveryInit == SuiteInit /\ part = "delivery"
DeliverySpec == DeliveryInit /\ [][DeliveryStep]_suiteVars /\ Fairness

=============================================================================
