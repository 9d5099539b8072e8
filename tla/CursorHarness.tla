----------------------------- MODULE CursorHarness ----------------------------
(***************************************************************************)
(* Taking over the Cursor editor (local_app/): a local proxy is started    *)
(* and its address is written into the editor's settings file; turning the *)
(* takeover off removes it and stops the proxy.  Asking for the status     *)
(* turns a stored takeover on again.  Handlers run concurrently, only the  *)
(* proxy is behind a lock; writes may fail, and the process may stop at    *)
(* any time, leaving the settings, the stored flag and the files of the    *)
(* certificate authority (CA) behind.                                      *)
(***************************************************************************)
EXTENDS Integers, FiniteSets

CONSTANTS
    Handlers,    \* requests in flight at most
    MaxCalls,    \* requests made
    MaxFaults    \* writes that fail, and crashes

VARIABLES
    process,     \* "down", "up", "quitting"
    stored,      \* the takeover flag in the database
    proxy,       \* address of the running proxy, 0 when there is none
    lock,        \* {handler holding the proxy lock}
    settings,    \* proxy address in the editor's settings: 0 none, -1 the user's own
    at,          \* [Handlers -> step]
    fresh,       \* handlers that started the proxy they are about to announce
    ca,          \* [key, cert, trusted]: generation of each, 0 for a missing one
    caLock,      \* {handler initializing the CA}
    last,        \* last address and last generation used
    since,       \* last address used by an earlier process
    cut,         \* the CA was left half written
    calls,
    faults

harnessVars == <<process, stored, proxy, lock, settings, at, fresh, ca, caLock, last,
                 since, cut, calls, faults>>

Own == -1

\* parse_issuer: the certificate is the one made for the key.
CaPaired == ca.key = ca.cert
CaReady == ca.cert # 0 /\ CaPaired /\ ca.trusted = ca.cert
CaMissing == ca.key = 0 /\ ca.cert = 0

Init ==
    /\ process = "up"
    /\ stored = FALSE
    /\ proxy = 0
    /\ lock = {}
    /\ settings \in {0, Own}
    /\ at = [h \in Handlers |-> "idle"]
    /\ fresh = {}
    /\ ca = [key |-> 0, cert |-> 0, trusted |-> 0]
    /\ caLock = {}
    /\ last = [address |-> 0, generation |-> 0]
    /\ since = 0
    /\ cut = FALSE
    /\ calls = 0
    /\ faults = 0

Fault == faults < MaxFaults /\ faults' = faults + 1
Step(h, from, to) == at[h] = from /\ at' = [at EXCEPT ![h] = to]

\* ProxyRuntime::start: a proxy that runs is kept, a new one has a new address.
StartProxy(h) ==
    IF proxy = 0
    THEN /\ last' = [last EXCEPT !.address = @ + 1]
         /\ proxy' = last.address + 1
         /\ fresh' = fresh \cup {h}
    ELSE UNCHANGED <<last, proxy, fresh>>

\* The editor's settings file is replaced whole.
WriteProxySettings == settings' = proxy
ClearProxySettings == settings' = 0

-----------------------------------------------------------------------------
(* Requests.                                                               *)

\* status, set_enabled, initialize_ca.
Request(h) ==
    /\ process = "up"
    /\ at[h] = "idle"
    /\ calls < MaxCalls
    /\ calls' = calls + 1
    /\ \/ /\ at' = [at EXCEPT ![h] = "look"]
          /\ UNCHANGED stored
       \/ /\ stored' = TRUE
          /\ at' = [at EXCEPT ![h] = "enable"]
       \/ /\ stored' = FALSE
          /\ at' = [at EXCEPT ![h] = "clear"]
       \/ /\ at' = [at EXCEPT ![h] = "ca"]
          /\ UNCHANGED stored
    /\ UNCHANGED <<process, proxy, lock, settings, fresh, ca, caLock, last, since, cut, faults>>

\* status: a takeover that is stored is turned on, when the CA is trusted.
StatusLooks(h) ==
    /\ Step(h, "look", IF stored /\ CaReady THEN "again" ELSE "report")
    /\ UNCHANGED <<process, stored, proxy, lock, settings, fresh, ca, caLock, last, since,
                   cut, calls, faults>>

StatusReports(h) ==
    /\ lock = {}
    /\ Step(h, "report", "idle")
    /\ UNCHANGED <<process, stored, proxy, lock, settings, fresh, ca, caLock, last, since,
                   cut, calls, faults>>

\* enable: refused without a trusted CA; otherwise under the lock.
EnableRefused(h) ==
    /\ ~CaReady
    /\ Step(h, "enable", "idle")
    /\ UNCHANGED <<process, stored, proxy, lock, settings, fresh, ca, caLock, last, since,
                   cut, calls, faults>>

\* Called by set_enabled (then "look" follows) or by status (then "report").
EnableLocks(h) ==
    /\ CaReady
    /\ lock = {}
    /\ lock' = {h}
    /\ \/ Step(h, "enable", "announce")
       \/ Step(h, "again", "announce2")
    /\ StartProxy(h)
    /\ UNCHANGED <<process, stored, settings, ca, caLock, since, cut, calls, faults>>

\* write_proxy_settings: a new proxy that cannot be announced is stopped again.
Announce(h) ==
    /\ at[h] \in {"announce", "announce2"}
    /\ \/ /\ WriteProxySettings
          /\ at' = [at EXCEPT ![h] = IF @ = "announce" THEN "look" ELSE "report"]
          /\ UNCHANGED <<proxy, faults>>
       \/ /\ Fault
          /\ UNCHANGED settings
          /\ proxy' = IF h \in fresh THEN 0 ELSE proxy
          /\ at' = [at EXCEPT ![h] = "idle"]
    /\ lock' = {}
    /\ fresh' = fresh \ {h}
    /\ UNCHANGED <<process, stored, ca, caLock, last, since, cut, calls>>

\* disable: the settings are cleared, whoever wrote them, before the lock is
\* taken; when that fails the proxy is left alone.
Clear(h) ==
    /\ \/ /\ ClearProxySettings
          /\ \/ Step(h, "clear", "stop")
             \/ Step(h, "clear2", "stop2")
          /\ UNCHANGED faults
       \/ /\ Fault
          /\ UNCHANGED settings
          /\ \/ Step(h, "clear", "idle")
             \/ Step(h, "clear2", "exit")
    /\ UNCHANGED <<process, stored, proxy, lock, fresh, ca, caLock, last, since, cut, calls>>

Stop(h) ==
    /\ lock = {}
    /\ \/ Step(h, "stop", "look")
       \/ Step(h, "stop2", "exit")
    /\ proxy' = 0
    /\ UNCHANGED <<process, stored, lock, settings, fresh, ca, caLock, last, since, cut,
                   calls, faults>>

\* The proxy's task ends with an error.
ProxyDies ==
    /\ proxy # 0
    /\ lock = {}
    /\ Fault
    /\ proxy' = 0
    /\ UNCHANGED <<process, stored, lock, settings, at, fresh, ca, caLock, last, since, cut,
                   calls>>

-----------------------------------------------------------------------------
(* The certificate authority: initialize_ca.                               *)

\* The key is written first.  A CA whose files exist is never made again, and
\* one that is incomplete is an error.
InitializeCa(h) ==
    /\ at[h] = "ca"
    /\ caLock = {}
    /\ caLock' = {h}
    /\ \/ /\ CaMissing
          /\ last' = [last EXCEPT !.generation = @ + 1]
          /\ ca' = [ca EXCEPT !.key = last.generation + 1]
          /\ at' = [at EXCEPT ![h] = "cert"]
       \/ /\ ~CaMissing
          /\ at' = [at EXCEPT ![h] = IF CaPaired THEN "caEnd" ELSE "caError"]
          /\ UNCHANGED <<ca, last>>
    /\ UNCHANGED <<process, stored, proxy, lock, settings, fresh, since, cut, calls, faults>>

WriteCert(h) ==
    /\ \/ /\ ca' = [ca EXCEPT !.cert = last.generation]
          /\ Step(h, "cert", "caEnd")
          /\ UNCHANGED <<cut, faults>>
       \/ /\ Fault
          /\ cut' = TRUE
          /\ Step(h, "cert", "caError")
          /\ UNCHANGED ca
    /\ UNCHANGED <<process, stored, proxy, lock, settings, fresh, caLock, last, since, calls>>

CaEnds(h) ==
    /\ Step(h, "caEnd", "look") \/ Step(h, "caError", "idle")
    /\ caLock' = {}
    /\ UNCHANGED <<process, stored, proxy, lock, settings, fresh, ca, last, since, cut, calls,
                   faults>>

\* The user installs the certificate with the command they are shown.
UserTrusts ==
    /\ ca.cert # 0
    /\ ca.trusted # ca.cert
    /\ ca' = [ca EXCEPT !.trusted = ca.cert]
    /\ UNCHANGED <<process, stored, proxy, lock, settings, at, fresh, caLock, last, since, cut,
                   calls, faults>>

-----------------------------------------------------------------------------
(* The process.                                                            *)

\* serve_on: disable runs while the requests in flight finish.
Quit(h) ==
    /\ process = "up"
    /\ at[h] = "idle"
    /\ process' = "quitting"
    /\ at' = [at EXCEPT ![h] = "clear2"]
    /\ UNCHANGED <<stored, proxy, lock, settings, fresh, ca, caLock, last, since, cut, calls,
                   faults>>

Down ==
    /\ process' = "down"
    /\ proxy' = 0
    /\ lock' = {}
    /\ caLock' = {}
    /\ fresh' = {}
    /\ at' = [h \in Handlers |-> "idle"]
    /\ UNCHANGED <<stored, settings, ca, last, since, calls>>

Exit(h) ==
    /\ at[h] = "exit"
    /\ Down
    /\ cut' = (cut \/ ~CaPaired)
    /\ UNCHANGED faults

Crash ==
    /\ process # "down"
    /\ Fault
    /\ cut' = (cut \/ ~CaPaired)
    /\ Down

\* The desktop starts: settings it recognizes as its own are cleared.
Restore ==
    /\ settings' = settings
    /\ since' = last.address

CleanupStale ==
    /\ settings' = IF settings > 0 THEN 0 ELSE settings
    /\ since' = last.address

Start ==
    /\ process = "down"
    /\ process' = "up"
    /\ CleanupStale
    /\ UNCHANGED <<stored, proxy, lock, at, fresh, ca, caLock, last, cut, calls, faults>>

Next ==
    \/ \E h \in Handlers :
         \/ Request(h) \/ StatusLooks(h) \/ StatusReports(h)
         \/ EnableRefused(h) \/ EnableLocks(h) \/ Announce(h) \/ Clear(h) \/ Stop(h)
         \/ InitializeCa(h) \/ WriteCert(h) \/ CaEnds(h) \/ Quit(h) \/ Exit(h)
    \/ ProxyDies \/ UserTrusts \/ Crash \/ Start

Spec == Init /\ [][Next]_harnessVars

-----------------------------------------------------------------------------
(* Properties.                                                             *)

AtRest == process = "up" /\ \A h \in Handlers : at[h] = "idle"

\* Whenever the process runs, the editor is not sent to a proxy of an earlier
\* process, however that one ended.
NoStaleProxy == process # "down" => (settings <= 0 \/ settings > since)

\* Between requests a proxy that runs is the one the editor is told to use:
\* one that could not be announced does not stay.
RunningIsAnnounced == (AtRest /\ proxy # 0) => settings = proxy

\* The files of the CA belong together, and stay as they are once written,
\* unless a write failed or the process ended between the two.
CaBelongsTogether == (caLock = {} /\ ~cut) => CaPaired

\* Between requests, with the takeover stored as off, no local proxy is left in
\* the editor's settings.
OffMeansCleared == (AtRest /\ ~stored /\ faults = 0) => settings <= 0

=============================================================================
