----------------------------- MODULE AccountQuota -----------------------------
(***************************************************************************)
(* The quota of an account of the built-in plugins, and the state the host *)
(* derives its choice of an account from.  A model call that meets a quota *)
(* error puts the account to rest; a refresh replaces the quota by what    *)
(* the service reports; a Codex reset card is redeemed and the account     *)
(* refreshed.  Each reads the stored account when it starts and writes its *)
(* patch when it ends.                                                     *)
(*                                                                         *)
(* Time is counted in units in which the plugins' fallback pauses are      *)
(* whole numbers.  The services are external: any reply of the modelled    *)
(* shape may come at any time.                                             *)
(***************************************************************************)
EXTENDS Integers, FiniteSetsExt

CONSTANTS
    FiveHours, OneHour, Minute, FiveSeconds,  \* the pauses of the sources
    Resets,       \* the reset times a reply may state
    MaxTime,      \* bound on the clock
    MaxCalls,     \* bound on the operations started
    Cards         \* the reset cards of the account

VARIABLES
    plugin,   \* "codex", "grok" or "antigravity"
    now,
    account,  \* the stored quota and state
    invoke,   \* a model call in flight and the quota it was given, of which only the
              \* weekly window is used again
    refresh,  \* a refresh in flight
    redeem,   \* a reset card being redeemed
    left,     \* the cards not spent yet
    calls

quotaVars == <<plugin, now, account, invoke, refresh, redeem, left, calls>>

NoTime == -1

(* A window of a quota: whether nothing of it remains, and its reset.  A    *)
(* remaining share that the service does not report counts as some.         *)
NoWindow == [zero |-> FALSE, reset |-> NoTime]

Ready == [status |-> "ready", retry |-> NoTime]

Cooling(until) == [status |-> "cooling", retry |-> until]

Invalid == [status |-> "invalid", retry |-> NoTime]

(* A reset as a reply states it: a time, a number of seconds from now, or   *)
(* nothing.                                                                 *)
ResetAt(reset, t) ==
    CASE reset.form = "at" -> reset.value
      [] reset.form = "after" -> t + reset.value
      [] reset.form = "none" -> NoTime

Windows == [zero : BOOLEAN, reset : Resets]

-----------------------------------------------------------------------------
(* Codex. *)

QuotaWindow(window, t) == [zero |-> window.zero, reset |-> ResetAt(window.reset, t)]

(* With one window it is the weekly one.  The limit is the one the service  *)
(* states, or else whether a window is used up.                             *)
ParseCodexUsage(body, t) ==
    LET weekly == QuotaWindow(IF body.two THEN body.secondary ELSE body.primary, t)
        fiveHour == IF body.two THEN QuotaWindow(body.primary, t) ELSE NoWindow
    IN [weekly |-> weekly, fiveHour |-> fiveHour,
        limit |-> IF body.limit = "unstated" THEN weekly.zero \/ fiveHour.zero
                  ELSE body.limit = "reached"]

CodexBodies ==
    [two : BOOLEAN, primary : Windows, secondary : Windows,
     limit : {"unstated", "reached", "open"}]

WindowCoolingUntil(window, t) ==
    IF ~window.zero \/ (window.reset # NoTime /\ window.reset <= t) THEN NoTime
    ELSE IF window.reset = NoTime THEN t + FiveHours ELSE window.reset

QuotaCoolingUntil(quota, t) ==
    LET resets == {WindowCoolingUntil(quota.weekly, t), WindowCoolingUntil(quota.fiveHour, t)}
                  \ {NoTime}
    IN IF resets # {} THEN Max(resets)
       ELSE IF quota.limit THEN t + FiveHours ELSE NoTime

CodexState(quota, t) ==
    LET until == QuotaCoolingUntil(quota, t)
    IN IF until = NoTime THEN Ready ELSE Cooling(until)

ResetFromError(reset, t) ==
    IF reset.form = "none" THEN t + FiveHours ELSE ResetAt(reset, t)

(* The five-hour window is used up; the weekly window is the one the call   *)
(* was given.                                                               *)
CodexExhausted(quota, reset, t) ==
    [weekly |-> quota.weekly,
     fiveHour |-> [zero |-> TRUE, reset |-> ResetFromError(reset, t)],
     limit |-> TRUE]

-----------------------------------------------------------------------------
(* Grok has one window, its billing period. *)

ParseGrokUsage(body, t) ==
    [weekly |-> QuotaWindow(body.primary, t), fiveHour |-> NoWindow, limit |-> body.primary.zero]

GrokState(quota, t) ==
    IF ~quota.limit \/ (quota.weekly.reset # NoTime /\ quota.weekly.reset <= t) THEN Ready
    ELSE Cooling(IF quota.weekly.reset = NoTime THEN t + OneHour ELSE quota.weekly.reset)

(* A known reset that is still to come is kept, one in the past dropped. *)
GrokExhausted(quota, t) ==
    [weekly |-> [zero |-> TRUE,
                 reset |-> IF quota.weekly.reset > t THEN quota.weekly.reset ELSE NoTime],
     fiveHour |-> NoWindow, limit |-> TRUE]

-----------------------------------------------------------------------------
(* Antigravity keeps the end of the pause itself; what its service reports  *)
(* of the models is shown only, and never puts the account to rest.         *)

QueryAccountQuota == [weekly |-> NoWindow, fiveHour |-> NoWindow, limit |-> FALSE]

AntigravityState(quota, t) ==
    IF quota.limit /\ quota.weekly.reset > t THEN Cooling(quota.weekly.reset) ELSE Ready

(* The pause of the error text, as a duration, or as a time; at least five  *)
(* seconds.                                                                 *)
AntigravityExhausted(reset, t) ==
    LET retryAfter == CASE reset.form = "none" -> Minute
                        [] reset.form = "after" -> IF reset.value > 0 THEN reset.value ELSE Minute
                        [] reset.form = "at" -> reset.value - t
    IN [weekly |-> [zero |-> TRUE, reset |-> t + Max({FiveSeconds, retryAfter})],
        fiveHour |-> NoWindow, limit |-> TRUE]

-----------------------------------------------------------------------------
StateOf(quota, t) ==
    CASE plugin = "codex" -> CodexState(quota, t)
      [] plugin = "grok" -> GrokState(quota, t)
      [] plugin = "antigravity" -> AntigravityState(quota, t)

Exhausted(quota, reset, t) ==
    CASE plugin = "codex" -> CodexExhausted(quota, reset, t)
      [] plugin = "grok" -> GrokExhausted(quota, t)
      [] plugin = "antigravity" -> AntigravityExhausted(reset, t)

Unused == [weekly |-> NoWindow, fiveHour |-> NoWindow, limit |-> FALSE]

Idle == [at |-> "idle", quota |-> Unused]

NoCard == [at |-> "idle", card |-> 0]

Init ==
    /\ plugin \in {"codex", "grok", "antigravity"}
    /\ now = 1
    /\ account = [quota |-> Unused, state |-> Ready, writer |-> "import", written |-> now]
    /\ invoke = Idle
    /\ refresh = Idle
    /\ redeem = NoCard
    /\ left = Cards
    /\ calls = 0

(* apply_patch: the quota, if the patch has one, and the state.  `writer'   *)
(* and `written' only say who wrote and when.                               *)
Store(quota, state, writer) ==
    account' = [quota |-> quota, state |-> state, writer |-> writer, written |-> now]

Start(op) ==
    /\ calls < MaxCalls
    /\ calls' = calls + 1
    /\ op.at = "idle"

-----------------------------------------------------------------------------
(* A model call. *)

Invoke ==
    /\ Start(invoke)
    /\ invoke' = [at |-> "calling", quota |-> [Unused EXCEPT !.weekly = account.quota.weekly]]
    /\ UNCHANGED <<plugin, now, account, refresh, redeem, left>>

(* The call succeeds, or fails in a way that says nothing of the account. *)
InvokeEnds ==
    /\ invoke.at = "calling"
    /\ invoke' = Idle
    /\ UNCHANGED <<plugin, now, account, refresh, redeem, left, calls>>

InvokeUnauthorized ==
    /\ invoke.at = "calling"
    /\ plugin # "antigravity"
    /\ invoke' = Idle
    /\ Store(account.quota, Invalid, "unauthorized")
    /\ UNCHANGED <<plugin, now, refresh, redeem, left, calls>>

InvokeExhausted(reset) ==
    /\ invoke.at = "calling"
    /\ invoke' = Idle
    /\ LET quota == Exhausted(invoke.quota, reset, now)
       IN Store(quota, StateOf(quota, now), "exhausted")
    /\ UNCHANGED <<plugin, now, refresh, redeem, left, calls>>

-----------------------------------------------------------------------------
(* A refresh. *)

Refresh ==
    /\ Start(refresh)
    /\ refresh' = [Idle EXCEPT !.at = "asking"]
    /\ UNCHANGED <<plugin, now, account, invoke, redeem, left>>

(* refreshAccount of Codex, Grok and Antigravity, given the service's reply *)
RefreshAccount(writer) ==
    \/ /\ plugin = "codex"
       /\ \E body \in CodexBodies :
             LET quota == ParseCodexUsage(body, now)
             IN Store(quota, CodexState(quota, now), writer)
    \/ /\ plugin = "grok"
       /\ \E window \in Windows :
             LET quota == ParseGrokUsage([primary |-> window], now)
             IN Store(quota, GrokState(quota, now), writer)
    \/ /\ plugin = "antigravity"
       /\ Store(QueryAccountQuota, Ready, writer)

(* The service refuses the account, or for Antigravity answers with another *)
(* failure, after which the account counts as ready.                        *)
RefreshRefused(writer) ==
    \/ Store(account.quota, Invalid, writer)
    \/ plugin = "antigravity" /\ Store(account.quota, Ready, writer)

Refreshed ==
    /\ refresh.at = "asking"
    /\ refresh' = Idle
    /\ RefreshAccount("refresh") \/ RefreshRefused("refresh") \/ UNCHANGED account
    /\ UNCHANGED <<plugin, now, invoke, redeem, left, calls>>

-----------------------------------------------------------------------------
(* A Codex reset card: the cards are listed, the chosen one is redeemed,    *)
(* the account is refreshed and the cards are listed again.  Every request  *)
(* may fail; the patch is stored only with the result of the last one.      *)

Redeem(card) ==
    /\ plugin = "codex"
    /\ Start(redeem)
    /\ redeem' = [at |-> "listing", card |-> card]
    /\ UNCHANGED <<plugin, now, account, invoke, refresh, left>>

Listed ==
    /\ redeem.at = "listing"
    /\ redeem' = IF redeem.card \in left THEN [redeem EXCEPT !.at = "redeeming"] ELSE NoCard
    /\ UNCHANGED <<plugin, now, account, invoke, refresh, left, calls>>

Redeemed ==
    /\ redeem.at = "redeeming"
    /\ left' = left \ {redeem.card}
    /\ redeem' = [redeem EXCEPT !.at = "refreshing"]
    /\ UNCHANGED <<plugin, now, account, invoke, refresh, calls>>

(* A request of the action fails; the redemption may have been done. *)
RedeemFails ==
    /\ redeem.at # "idle"
    /\ redeem' = NoCard
    /\ left' \in IF redeem.at = "redeeming" THEN {left, left \ {redeem.card}} ELSE {left}
    /\ UNCHANGED <<plugin, now, account, invoke, refresh, calls>>

(* The refreshed account and the new list arrive. *)
RedeemDone ==
    /\ redeem.at = "refreshing"
    /\ redeem' = [NoCard EXCEPT !.at = "done"]
    /\ RefreshAccount("redeem") \/ Store(account.quota, Invalid, "redeem")
    /\ UNCHANGED <<plugin, now, invoke, refresh, left, calls>>

Dismiss ==
    /\ redeem.at = "done"
    /\ redeem' = NoCard
    /\ UNCHANGED <<plugin, now, account, invoke, refresh, left, calls>>

Tick ==
    /\ now < MaxTime
    /\ now' = now + 1
    /\ UNCHANGED <<plugin, account, invoke, refresh, redeem, left, calls>>

Next ==
    \/ Invoke \/ InvokeEnds \/ InvokeUnauthorized
    \/ \E reset \in Resets : InvokeExhausted(reset)
    \/ Refresh \/ Refreshed
    \/ \E card \in Cards : Redeem(card)
    \/ Listed \/ Redeemed \/ RedeemFails \/ RedeemDone \/ Dismiss
    \/ Tick

Spec == Init /\ [][Next]_quotaVars

-----------------------------------------------------------------------------
(* An account that just met its limit is not chosen again at once: when the *)
(* last write is the one of a quota error, the account rests until a time   *)
(* still to come, whatever reset the error stated, one in the past included *)
(* (quotaExhaustedPatch of the three plugins).                              *)
RestsAfterExhaustion ==
    account.writer = "exhausted" =>
        account.state.status = "cooling" /\ account.state.retry > account.written

(* A Codex account waits for every window that is used up: it is not ready  *)
(* before the last of the resets still to come (quotaCoolingUntil), the     *)
(* weekly one that a call remembers from an earlier refresh included.       *)
WaitsForEveryWindow ==
    plugin = "codex" /\ account.state.status # "invalid" =>
        \A window \in {account.quota.weekly, account.quota.fiveHour} :
            window.zero /\ window.reset > account.written
                => account.state.status = "cooling" /\ account.state.retry >= window.reset
=============================================================================
