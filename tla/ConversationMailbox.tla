------------------------ MODULE ConversationMailbox ------------------------
(***************************************************************************)
(* What the queue of messages between two Runs of a conversation promises, *)
(* without the tasks and locks of ConversationRegistry: a message that no  *)
(* Run took is kept, all that is kept is handed at once to one generation, *)
(* what is part of the conversation stays part of it, and only a           *)
(* generation that holds a message can drop it.                            *)
(***************************************************************************)
CONSTANT Event      \* identities of messages

VARIABLE place      \* where each message is

Places == {"outside", "kept", "held", "stored"}

MailboxInit == place = [e \in Event |-> "outside"]

Move(es, to) == place' = [e \in Event |-> IF e \in es THEN to ELSE place[e]]

\* No Run took the message; it may be held as well, under the same identity.
Keep(e) == place[e] \in {"outside", "held"} /\ Move({e}, "kept")

\* A generation takes everything that is kept, and brings messages of its own.
Hand(own) ==
  /\ \A e \in own : place[e] = "outside"
  /\ Move({e \in Event : place[e] = "kept"} \cup own, "held")

\* A Run appends messages.
Store(es) == es # {} /\ Move(es, "stored")

\* A generation that is superseded, cancelled or not claimed drops what it holds.
Drop(es) == (\A e \in es : place[e] = "held") /\ Move(es, "outside")

MailboxNext ==
  \/ \E e \in Event : Keep(e)
  \/ \E es \in SUBSET Event : Hand(es) \/ Store(es) \/ Drop(es)

MailboxSpec == MailboxInit /\ [][MailboxNext]_place
=============================================================================
