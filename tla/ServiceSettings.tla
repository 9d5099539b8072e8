--------------------------- MODULE ServiceSettings ---------------------------
(* The settings page: the rows of service_settings, the handlers that read and *)
(* replace them, the listener that remembers its port in one of them, and the  *)
(* outbound HTTP clients that are built from another and kept until a handler  *)
(* drops them.  Handlers and users of clients interleave at every await.       *)
EXTENDS Integers, FiniteSetsExt

CONSTANTS
  Requests,     \* the handlers of settings that may be running
  Inputs,       \* what one of them may be asked: a sequence of [key, value]
  Users,        \* those who ask for a client
  Kinds,        \* the kinds of clients that are asked for
  Timeouts,     \* the request timeouts provider clients are built with
  Ports,        \* the ports the service can listen on
  LocalPorts,   \* the ports the local proxy can run on
  Broken,       \* the rows another build may have left that this one cannot parse
  MaxProxies    \* bound on the proxy settings that are stored

VARIABLES
  rows,         \* key -> the row [state, value]; of the proxy, also its version
  request,      \* request -> what its handler is doing
  harness,      \* the port of the running local proxy, 0 for none
  service,      \* the listener: [at, port]
  lock,         \* who holds the client cache for writing, "free" for nobody
  cache,        \* the client kept of each kind: [version, timeout], version -1 for none
  user,         \* user -> [at, kind, timeout, since, got]
  settled       \* the newest proxy settings whose handler has returned

vars == <<rows, request, harness, service, lock, cache, user, settled>>

Keys == {"ports", "proxy", "external", "tab", "plain"}

\* What is read where no row is: the Default of every settings type ("plain" stands for the
\* desktop, commit and pricing rows, whose setters refuse nothing).
Default == [ports |-> [proxy |-> 0, service |-> 0],
            proxy |-> [custom |-> FALSE, address |-> "", auth |-> FALSE, password |-> ""],
            external |-> [enabled |-> FALSE, key |-> ""],
            tab |-> [mode |-> "public", address |-> ""],
            plain |-> "default"]

NoRow == [state |-> "none", value |-> 0, version |-> 0]
Row(value, version) == [state |-> "stored", value |-> value, version |-> version]
Idle == [at |-> "idle", key |-> "plain", value |-> Default.plain, why |-> "none", version |-> 0]
NoClient == [version |-> -1, timeout |-> 0]
Waiting == [at |-> "idle", kind |-> "default", timeout |-> 0, since |-> 0, got |-> 0]

\* Addresses by what the checks tell apart: "" and "words" are no URL, "local" is the local
\* proxy's own host, "query" an http address with a query, "socks" and "ftp" other schemes.
ProxyUrls == {"http", "query", "local", "socks"}
TabUrls == {"http", "local"}

-----------------------------------------------------------------------------
(* What a row says. *)

\* A row that does not parse is an error of its reader, except for the proxy's: it is read
\* as no proxy, so that it can be replaced.
Readable(key) == key = "proxy" \/ rows[key].state # "broken"
Setting(key) == IF rows[key].state = "stored" THEN rows[key].value ELSE Default[key]

\* The checks of the setters, on what they would store: a key where the external API is on,
\* a base URL for a TAB service of one's own, an address reqwest takes for a proxy of one's own.
ExternalAccepted(value) == value.enabled => value.key \notin {"", "blank"}
TabAccepted(value) == value.mode = "custom" => value.address \in TabUrls
ProxyAccepted(value) == value.custom => value.address \in ProxyUrls

Accepted(key, value) ==
  CASE key = "external" -> ExternalAccepted(value)
    [] key = "tab" -> TabAccepted(value)
    [] key = "proxy" -> ProxyAccepted(value)
    [] OTHER -> TRUE

\* What is stored of what was given: keys are trimmed.
Normal(key, value) ==
  IF key = "external" /\ value.key = "blank" THEN [value EXCEPT !.key = ""] ELSE value

\* The proxy's password: none without authentication, the stored one if none is given.
WithPassword(value, existing) ==
  [value EXCEPT !.password = IF ~ value.auth THEN ""
                             ELSE IF value.password = "" THEN existing.password
                             ELSE value.password]

\* An outbound proxy that is the local proxy itself.
SelfProxy(address, port) == port # 0 /\ address = "local"

-----------------------------------------------------------------------------
(* The handlers. *)

Becomes(r, next) == request' = [request EXCEPT ![r] = next]
\* An error of a handler; what it was asked is kept of the errors of rows.
Fails(r, why) ==
  Becomes(r, IF why = "row" THEN [request[r] EXCEPT !.at = "failed", !.why = why]
             ELSE [Idle EXCEPT !.at = "failed", !.why = why])

clients == <<lock, cache, user, settled>>

\* The setters without a proxy check what they are given before anything else.
Validated(key, value) ==
  IF Accepted(key, Normal(key, value))
    THEN [Idle EXCEPT !.at = "write", !.key = key, !.value = Normal(key, value)]
    ELSE [Idle EXCEPT !.at = "failed", !.why = "input"]

\* PUT of a setting; the listener and the local proxy use the same store for their ports.
Begin(r, input) ==
  /\ request[r].at \in {"idle", "failed"} /\ service.at = "serving"
  /\ Becomes(r, IF input.key = "proxy" THEN [Idle EXCEPT !.at = "begun", !.key = "proxy", !.value = input.value]
                ELSE Validated(input.key, input.value))
  /\ UNCHANGED <<rows, harness, service, clients>>

\* GET of a setting: the row, its default, or the error of a row that does not parse.
Get(r, key) ==
  /\ request[r].at \in {"idle", "failed"} /\ service.at = "serving"
  /\ Becomes(r, IF Readable(key)
                  THEN Idle
                  ELSE [Idle EXCEPT !.at = "failed", !.key = key, !.why = "get"])
  /\ UNCHANGED <<rows, harness, service, clients>>

\* The port of the local proxy if it runs, else the stored one; the proxy's own address is refused.
CheckSelf(r) ==
  LET port == IF harness # 0 THEN harness ELSE Setting("ports").proxy IN
  /\ request[r].at = "begun" /\ request[r].key = "proxy" /\ request[r].value.custom
  /\ \/ harness = 0 /\ ~ Readable("ports") /\ Fails(r, "row")
     \/ /\ harness # 0 \/ Readable("ports")
        /\ IF SelfProxy(request[r].value.address, port) \/ (port # 0 /\ request[r].value.address \in {"", "words"})
             THEN Fails(r, "input")
             ELSE Becomes(r, [request[r] EXCEPT !.at = "checked"])
  /\ UNCHANGED <<rows, harness, service, clients>>

\* set_proxy_settings up to the write: the row is read first, for its password.
ReadExisting(r) ==
  /\ request[r].key = "proxy"
  /\ request[r].at = IF request[r].value.custom THEN "checked" ELSE "begun"
  /\ IF ProxyAccepted(request[r].value)
       THEN Becomes(r, [request[r] EXCEPT !.at = "write", !.value = WithPassword(@, Setting("proxy"))])
       ELSE Fails(r, "input")
  /\ UNCHANGED <<rows, harness, service, clients>>

\* set_proxy_port: both ports are read, one is replaced.
ReadPorts(r) ==
  LET q == request[r] IN
  /\ q.at = "begun" /\ q.key = "proxyPort"
  /\ IF Readable("ports")
       THEN Becomes(r, [q EXCEPT !.at = "write", !.key = "ports",
                                 !.value = [Setting("ports") EXCEPT !.proxy = q.value]])
       ELSE Fails(r, "row")
  /\ UNCHANGED <<rows, harness, service, clients>>

\* The row is replaced under the lock of the store; for a proxy the clients are dropped next.
Write(r) ==
  LET q == request[r]
      version == rows.proxy.version + IF q.key = "proxy" THEN 1 ELSE 0 IN
  /\ q.at = "write" /\ version <= MaxProxies
  /\ rows' = [rows EXCEPT ![q.key] = Row(q.value, IF q.key = "proxy" THEN version ELSE 0)]
  /\ Becomes(r, IF q.key = "proxy" THEN [q EXCEPT !.at = "written", !.version = version]
                ELSE Idle)
  /\ UNCHANGED <<harness, service, clients>>

\* NetworkClients::invalidate, and the handler returns.
Invalidate(r) ==
  /\ request[r].at = "written" /\ lock = "free"
  /\ cache' = [kind \in DOMAIN cache |-> NoClient]
  /\ settled' = Max({settled, request[r].version})
  /\ Becomes(r, Idle)
  /\ UNCHANGED <<rows, harness, service, lock, user>>

\* A query fails: the write, or the read of the proxy's row behind it.
StoreFails(r) ==
  /\ request[r].at \in {"begun", "checked", "write", "written"}
  /\ Fails(r, "store") /\ UNCHANGED <<rows, harness, service, clients>>

\* The handler is dropped where it waits, with its connection.
Drop(r) ==
  /\ request[r].at \in {"begun", "checked", "write", "written"}
  /\ Becomes(r, Idle) /\ UNCHANGED <<rows, harness, service, clients>>

-----------------------------------------------------------------------------
(* The listener and the local proxy. *)

\* App::bind: the configured port or, for ports that are remembered, any other.
Bind(port) ==
  /\ service.at = "starting"
  /\ service' = [at |-> "bound", port |-> port]
  /\ UNCHANGED <<rows, request, harness, clients>>

\* ... and its port is stored for the next start; a row that does not parse ends the start.
Remember ==
  /\ service.at = "bound"
  /\ \/ /\ Readable("ports")
        /\ rows' = [rows EXCEPT !.ports = Row([Setting("ports") EXCEPT !.service = service.port], 0)]
        /\ service' = [service EXCEPT !.at = "serving"]
     \/ ~ Readable("ports") /\ service' = [service EXCEPT !.at = "failed"] /\ UNCHANGED rows
  /\ UNCHANGED <<request, harness, clients>>

\* The local proxy starts on a port, and stores it, or stops.
Harness(r, port) ==
  /\ service.at = "serving" /\ harness = 0 /\ request[r].at \in {"idle", "failed"}
  /\ harness' = port
  /\ Becomes(r, [Idle EXCEPT !.at = "begun", !.key = "proxyPort", !.value = port])
  /\ UNCHANGED <<rows, service, clients>>

HarnessStops ==
  /\ harness # 0 /\ harness' = 0 /\ UNCHANGED <<rows, request, service, clients>>

-----------------------------------------------------------------------------
(* NetworkClients: one client of each kind, the provider's for one timeout. *)

Kept(kind, timeout) ==
  cache[kind].version # -1 /\ (kind = "provider" => cache[kind].timeout = timeout)

\* A user that has its client, of a version.
Got(u, version) == [Waiting EXCEPT !.at = "got", !.since = user[u].since, !.got = version]
UserIs(u, next) == user' = [user EXCEPT ![u] = next]
others == <<rows, request, harness, service, settled>>

\* Under the read lock: a client that is kept is used.
Ask(u, kind, timeout) ==
  /\ user[u].at \in {"idle", "got", "failed"} /\ lock = "free"
  /\ UserIs(u, IF Kept(kind, timeout)
                 THEN [Waiting EXCEPT !.at = "got", !.since = settled, !.got = cache[kind].version]
                 ELSE [at |-> "lock", kind |-> kind, timeout |-> timeout, since |-> settled, got |-> 0])
  /\ UNCHANGED <<lock, cache, others>>

\* Under the write lock it is looked for again.
Acquire(u) ==
  /\ user[u].at = "lock" /\ lock = "free"
  /\ IF Kept(user[u].kind, user[u].timeout)
       THEN UserIs(u, Got(u, cache[user[u].kind].version)) /\ UNCHANGED lock
       ELSE UserIs(u, [user[u] EXCEPT !.at = "build"]) /\ lock' = u
  /\ UNCHANGED <<cache, others>>

\* client_builder reads the proxy's row; a custom address that is no proxy's is an error.
BuildRead(u) ==
  /\ user[u].at = "build"
  /\ IF ~ ProxyAccepted(Setting("proxy"))
       THEN UserIs(u, [Waiting EXCEPT !.at = "failed"]) /\ lock' = "free"
       ELSE UserIs(u, [user[u] EXCEPT !.at = "store", !.got = rows.proxy.version]) /\ UNCHANGED lock
  /\ UNCHANGED <<cache, others>>

\* The client is kept and the lock released.
BuildStore(u) ==
  /\ user[u].at = "store"
  /\ cache' = [cache EXCEPT ![user[u].kind] = [version |-> user[u].got, timeout |-> user[u].timeout]]
  /\ UserIs(u, Got(u, user[u].got)) /\ lock' = "free"
  /\ UNCHANGED others

\* The read fails, or the user is dropped while it builds: nothing is kept.
BuildEnds(u) ==
  /\ user[u].at \in {"build", "store"}
  /\ UserIs(u, [Waiting EXCEPT !.at = "failed"]) /\ lock' = "free"
  /\ UNCHANGED <<cache, others>>

-----------------------------------------------------------------------------
\* A store of another build may hold rows this one cannot parse.
Init ==
  /\ \E broken \in SUBSET Broken :
       rows = [key \in Keys |-> IF key \in broken THEN [NoRow EXCEPT !.state = "broken"] ELSE NoRow]
  /\ request = [r \in Requests |-> Idle]
  /\ harness = 0 /\ service = [at |-> "starting", port |-> 0]
  /\ lock = "free" /\ cache = [kind \in Kinds \cup {"provider"} |-> NoClient]
  /\ user = [u \in Users |-> Waiting] /\ settled = 0

Next ==
  \/ \E r \in Requests :
       \/ \E n \in DOMAIN Inputs : Begin(r, Inputs[n])
       \/ \E key \in Broken : Get(r, key)
       \/ \E port \in LocalPorts : Harness(r, port)
       \/ CheckSelf(r) \/ ReadExisting(r) \/ ReadPorts(r)
       \/ Write(r) \/ Invalidate(r) \/ StoreFails(r) \/ Drop(r)
  \/ \E port \in Ports : Bind(port)
  \/ Remember \/ HarnessStops
  \/ \E u \in Users :
       \/ \E kind \in Kinds : Ask(u, kind, 0)
       \/ \E timeout \in Timeouts : Ask(u, "provider", timeout)
       \/ Acquire(u) \/ BuildRead(u) \/ BuildStore(u) \/ BuildEnds(u)

Spec == Init /\ [][Next]_vars

-----------------------------------------------------------------------------
\* Whoever asks for a client after a proxy was saved gets one that was built from these
\* settings or from later ones, whichever builds and other saves were under way.
SavedProxyIsUsed == \A u \in Users : user[u].at = "got" => user[u].got >= user[u].since

\* What this program stored can be read, passes the checks of its setter, and holds no
\* password of a proxy without authentication.
StoredIsValid ==
  \A key \in Keys : rows[key].state = "stored" =>
    /\ Accepted(key, rows[key].value)
    /\ key = "proxy" /\ ~ rows[key].value.auth => rows[key].value.password = ""

\* No unreadable row stands in the way of its own replacement: the only handlers it stops
\* are those that change one port of the two, and the check against the local proxy's port.
RowsAreReplaceable ==
  \A r \in Requests :
    /\ request[r].why = "row" => \/ request[r].key = "proxyPort"
                                 \/ request[r].key = "proxy" /\ request[r].value.custom
    /\ request[r].why = "get" => request[r].key # "proxy"
=============================================================================
