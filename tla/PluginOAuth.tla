----------------------------- MODULE PluginOAuth -----------------------------
(***************************************************************************)
(* Signing in to an account of a plugin: oauth_begin and oauth_poll of      *)
(* PluginRegistry (src/server/src/plugin/registry.rs), the loopback server  *)
(* the browser is sent back to (oauth_callback.rs) and the card of the      *)
(* desktop application that polls (PluginResourcePanels.tsx).  All cards    *)
(* are for one method of one plugin, of the device-code or of the           *)
(* authorization-code flow.  The plugin and the user may answer anything.   *)
(***************************************************************************)
EXTENDS Integers, FiniteSets

CONSTANTS Cards,        \* the sign-in cards that are mounted in turn
          Flows,        \* the flows to explore: subset of {"device", "code"}
          Lifetime,     \* how long a session lives
          MaxTime,      \* bound: the clock
          MaxSessions   \* bound: sign-ins begun

VARIABLES flow,        \* the flow of the method
          now,         \* now_ms, one unit being the least poll interval
          sessions,    \* oauth_sessions: expires, next and interval, by id
          lastId,      \* session ids are fresh
          cards,       \* each card: its step, its session, is it mounted
          polls,       \* the poll each card waits for
          sender,      \* CallbackState.sender: "held", "taken" or "lost"
          sent,        \* what is in the channel of CallbackHandle
          page,        \* what the browser shows
          stored,      \* ghost: sessions whose account was upserted
          granted,     \* ghost: sessions the plugin called completed
          dismissed    \* ghost: sessions that expired, were replaced or refused

oauthVars == <<flow, now, sessions, lastId, cards, polls, sender, sent, page, stored,
               granted, dismissed>>

Ids == 1..MaxSessions
Card == [step |-> "idle", id |-> 0, mounted |-> TRUE]
Dropped(gone) == [s \in DOMAIN sessions \ gone |-> sessions[s]]

Init == /\ flow \in Flows /\ now = 0 /\ lastId = 0
        /\ sessions = [s \in {} |-> 0]
        /\ cards = [c \in Cards |-> Card] /\ polls = [c \in Cards |-> "none"]
        /\ sender = [s \in Ids |-> "none"] /\ sent = [s \in Ids |-> "none"]
        /\ page = [s \in Ids |-> "none"]
        /\ stored = {} /\ granted = {} /\ dismissed = {}

(* Dropping a CallbackHandle drops the request in its channel, and with it  *)
(* what the page is waiting for.                                            *)
DropHandles(gone) ==
  /\ page' = [s \in Ids |-> IF s \in gone /\ sent[s] # "none" THEN "failed" ELSE page[s]]
  /\ sent' = [s \in Ids |-> IF s \in gone THEN "none" ELSE sent[s]]

Remove(gone) == sessions' = Dropped(gone) /\ DropHandles(gone)

Tick == /\ now < MaxTime /\ now' = now + 1
        /\ UNCHANGED <<flow, sessions, lastId, cards, polls, sender, sent, page, stored,
                       granted, dismissed>>

-----------------------------------------------------------------------------
(* oauth_begin: the sessions of the method go first; then the plugin is     *)
(* asked, and the new session is entered.                                   *)
Start(c) ==
  /\ cards[c].mounted /\ cards[c].step \notin {"starting", "polling"} /\ lastId < MaxSessions
  /\ cards' = [cards EXCEPT ![c].step = "starting", ![c].id = 0]
  /\ Remove(DOMAIN sessions) /\ dismissed' = dismissed \cup DOMAIN sessions
  /\ UNCHANGED <<flow, now, lastId, polls, sender, stored, granted>>

(* The port is taken, the plugin fails, or its session is already expired.  *)
BeginFails(c) ==
  /\ cards[c].step = "starting"
  /\ cards' = [cards EXCEPT ![c].step = "error"]
  /\ UNCHANGED <<flow, now, sessions, lastId, polls, sender, sent, page, stored, granted,
                 dismissed>>

Begun(c) ==
  /\ cards[c].step = "starting" /\ lastId < MaxSessions
  /\ lastId' = lastId + 1
  /\ sessions' = [s \in DOMAIN sessions \cup {lastId'} |->
                    IF s = lastId' THEN [expires |-> now + Lifetime, next |-> now + 1,
                                         interval |-> 1]
                    ELSE sessions[s]]
  /\ sender' = [sender EXCEPT ![lastId'] = IF flow = "code" THEN "held" ELSE "none"]
  /\ cards' = [cards EXCEPT ![c].step = "polling", ![c].id = lastId']
  /\ UNCHANGED <<flow, now, polls, sent, page, stored, granted, dismissed>>

(* The timer oauth_begin leaves behind.                                     *)
CleanUp ==
  /\ \E s \in DOMAIN sessions :
       /\ now >= sessions[s].expires
       /\ Remove({s}) /\ dismissed' = dismissed \cup {s}
  /\ UNCHANGED <<flow, now, lastId, cards, polls, sender, stored, granted>>

Unmount(c) ==
  /\ cards[c].mounted
  /\ cards' = [cards EXCEPT ![c].mounted = FALSE]
  /\ UNCHANGED <<flow, now, sessions, lastId, polls, sender, sent, page, stored, granted,
                 dismissed>>

-----------------------------------------------------------------------------
(* What the card makes of an answer; a card that is gone makes nothing.     *)
Pending(c) == polls' = [polls EXCEPT ![c] = "none"] /\ UNCHANGED cards

Shows(c, step) ==
  /\ polls' = [polls EXCEPT ![c] = "none"]
  /\ cards' = IF cards[c].mounted THEN [cards EXCEPT ![c].step = step] ELSE cards

(* oauth_poll, up to the call of the plugin.  The timer of the card is left *)
(* out: it polls at any time.                                               *)
PollMissing(c) ==
  /\ cards[c].id \notin DOMAIN sessions
  /\ Shows(c, "error")
  /\ UNCHANGED <<sessions, sent, page, dismissed>>

PollExpired(c) ==
  LET s == cards[c].id
  IN  /\ s \in DOMAIN sessions /\ now >= sessions[s].expires
      /\ Remove({s}) /\ dismissed' = dismissed \cup {s}
      /\ Shows(c, "error")

PollEarly(c) ==
  LET s == cards[c].id
  IN  /\ s \in DOMAIN sessions /\ now < sessions[s].expires /\ now < sessions[s].next
      /\ Pending(c)
      /\ UNCHANGED <<sessions, sent, page, dismissed>>

PollWork(c) ==
  LET s == cards[c].id
  IN  /\ s \in DOMAIN sessions /\ now < sessions[s].expires /\ now >= sessions[s].next
      /\ \/ /\ flow = "device" \/ sent[s] # "none"
            /\ sessions' = [sessions EXCEPT ![s].next = now + sessions[s].interval]
            /\ polls' = [polls EXCEPT ![c] = IF sent[s] = "denied" THEN "denied" ELSE "asked"]
            /\ sent' = [sent EXCEPT ![s] = "none"]
            /\ UNCHANGED <<cards, page, dismissed>>
         \/ /\ flow = "code" /\ sent[s] = "none" /\ sender[s] = "held"
            /\ sessions' = [sessions EXCEPT ![s].next = now + sessions[s].interval]
            /\ Pending(c)
            /\ UNCHANGED <<sent, page, dismissed>>
         \/ /\ sender[s] = "lost" /\ sent[s] = "none"
            /\ Remove({s}) /\ dismissed' = dismissed \cup {s}
            /\ Shows(c, "error")

Poll(c) ==
  /\ cards[c].mounted /\ cards[c].step = "polling" /\ polls[c] = "none"
  /\ PollMissing(c) \/ PollExpired(c) \/ PollEarly(c) \/ PollWork(c)
  /\ UNCHANGED <<flow, now, lastId, sender, stored, granted>>

(* poll_device_code: what the plugin answers.                               *)
DevicePending(c) ==
  /\ flow = "device" /\ polls[c] = "asked"
  /\ \/ UNCHANGED sessions
     \/ sessions' = [s \in DOMAIN sessions |->
                       IF s = cards[c].id THEN [sessions[s] EXCEPT !.interval = @ + 1]
                       ELSE sessions[s]]
  /\ Pending(c)
  /\ UNCHANGED <<flow, now, lastId, sender, sent, page, stored, granted, dismissed>>

Refused(c) ==
  /\ flow = "device" /\ polls[c] = "asked"
  /\ LET s == cards[c].id IN Remove({s}) /\ dismissed' = dismissed \cup {s}
  /\ Shows(c, "error")
  /\ UNCHANGED <<flow, now, lastId, sender, stored, granted>>

(* Mutation: the session goes as soon as the plugin is done.                *)
GrantedAndGone(c) ==
  /\ polls[c] = "asked"
  /\ polls' = [polls EXCEPT ![c] = "persist"]
  /\ granted' = granted \cup {cards[c].id}
  /\ Remove({cards[c].id})
  /\ UNCHANGED <<flow, now, lastId, cards, sender, stored, dismissed>>

(* The plugin has the account: it is stored before anything else.           *)
Granted(c) ==
  /\ polls[c] = "asked"
  /\ polls' = [polls EXCEPT ![c] = "persist"]
  /\ granted' = granted \cup {cards[c].id}
  /\ UNCHANGED <<flow, now, sessions, lastId, cards, sender, sent, page, stored, dismissed>>

Persisted(c) ==
  /\ polls[c] = "persist"
  /\ stored' = stored \cup {cards[c].id}
  /\ polls' = [polls EXCEPT ![c] = "sync"]
  /\ UNCHANGED <<flow, now, sessions, lastId, cards, sender, sent, page, granted, dismissed>>

(* The page is answered last; a page that gave up stays as it is.           *)
Answer(s, outcome) ==
  /\ page' = [page EXCEPT ![s] = IF @ = "waiting" THEN outcome ELSE @]
  /\ sent' = [sent EXCEPT ![s] = "none"]
  /\ sessions' = Dropped({s})

(* sync_provider_models_for_resource; its failure is only reported.         *)
Synced(c) ==
  /\ polls[c] = "sync"
  /\ Shows(c, "success") \/ Shows(c, "saved")
  /\ Answer(cards[c].id, "success")
  /\ UNCHANGED <<flow, now, lastId, sender, stored, granted, dismissed>>

(* An error of the worker or of the store: a device code is polled again,   *)
(* a code of the browser is spent.                                          *)
Fails(c) ==
  /\ polls[c] \in {"asked", "persist"}
  /\ \/ /\ flow = "device" /\ Pending(c)
        /\ UNCHANGED <<sessions, sent, page, dismissed>>
     \/ /\ flow = "code" /\ Shows(c, "error") /\ Answer(cards[c].id, "failed")
        /\ dismissed' = dismissed \cup {cards[c].id}
  /\ UNCHANGED <<flow, now, lastId, sender, stored, granted>>

(* complete_authorization_code with the error the browser brought.          *)
Denied(c) ==
  /\ polls[c] = "denied"
  /\ Shows(c, "error") /\ Answer(cards[c].id, "failed")
  /\ dismissed' = dismissed \cup {cards[c].id}
  /\ UNCHANGED <<flow, now, lastId, sender, stored, granted>>

-----------------------------------------------------------------------------
(* handle_callback, for a request with the state of this session.  The      *)
(* first one takes the sender; the session may be gone already.             *)
Visit(s) ==
  /\ sender[s] = "held" /\ page[s] = "none"
  /\ sender' = [sender EXCEPT ![s] = "taken"]
  /\ IF s \in DOMAIN sessions
     THEN /\ \E result \in {"code", "denied"} : sent' = [sent EXCEPT ![s] = result]
          /\ page' = [page EXCEPT ![s] = "waiting"]
     ELSE page' = [page EXCEPT ![s] = "failed"] /\ UNCHANGED sent
  /\ UNCHANGED <<flow, now, sessions, lastId, cards, polls, stored, granted, dismissed>>

(* CALLBACK_RESPONSE_TIMEOUT.                                               *)
PageTimesOut(s) ==
  /\ page[s] = "waiting"
  /\ page' = [page EXCEPT ![s] = "timed out"]
  /\ UNCHANGED <<flow, now, sessions, lastId, cards, polls, sender, sent, stored, granted,
                 dismissed>>

(* The loopback server fails.                                               *)
ServerDies(s) ==
  /\ sender[s] = "held"
  /\ sender' = [sender EXCEPT ![s] = "lost"]
  /\ UNCHANGED <<flow, now, sessions, lastId, cards, polls, sent, page, stored, granted,
                 dismissed>>

Next == \/ Tick \/ CleanUp
        \/ \E c \in Cards : \/ Start(c) \/ BeginFails(c) \/ Begun(c) \/ Unmount(c) \/ Poll(c)
                            \/ DevicePending(c) \/ Refused(c) \/ Granted(c) \/ Persisted(c)
                            \/ Synced(c) \/ Fails(c) \/ Denied(c)
        \/ \E s \in Ids : Visit(s) \/ PageTimesOut(s) \/ ServerDies(s)

Spec == Init /\ [][Next]_oauthVars

-----------------------------------------------------------------------------
(* Neither the card nor the page of the browser announces an account that   *)
(* was not stored (persist_oauth_resources).                                *)
SuccessIsStored ==
  /\ \A c \in Cards : cards[c].step \in {"success", "saved"} => cards[c].id \in stored
  /\ \A s \in Ids : page[s] = "success" => s \in stored

(* A stored account is never reported as a failure: not by the card, even   *)
(* if the session expired or was replaced meanwhile, and not by the page,   *)
(* unless it gave up waiting.                                               *)
StoredIsReported ==
  /\ \A c \in Cards : cards[c].id \in stored => cards[c].step \in {"polling", "success", "saved"}
  /\ \A s \in stored : page[s] # "failed"

(* "The device-code session is destroyed only once the account is stored:   *)
(* after a transient failure of the disk the next poll can retry" (comment  *)
(* in poll_device_code): a session the plugin granted stays until its       *)
(* account is stored, or it expires, is replaced or is refused.             *)
GrantKept == \A s \in granted : s \in DOMAIN sessions \cup stored \cup dismissed

(* "One method of adding has only one active session" (comment in           *)
(* oauth_begin).                                                            *)
OneActive == Cardinality(DOMAIN sessions) <= 1
=============================================================================
