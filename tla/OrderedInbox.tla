---------------------------- MODULE OrderedInbox ----------------------------
(***************************************************************************)
(* The per-transport inbox that puts BidiAppend messages back into the     *)
(* order of their append_seqno (cursor/transport/inbox.rs).                *)
(*                                                                         *)
(* Every HTTP append is its own request, so appends reach the transport    *)
(* actor in any order, and a client retry delivers a sequence number       *)
(* again, possibly with another body.  The payload is one of a small set   *)
(* of values that tells the copies of one append apart.                    *)
(*                                                                         *)
(* `next` is an i64 in the code and saturates at 2^63 - 1; MaxSeq stays    *)
(* below that, so the increment is exact here.                             *)
(***************************************************************************)
EXTENDS Integers, Sequences

CONSTANTS
  MaxSeq,    \* the highest append_seqno the client uses
  Payload    \* bodies an append may carry

ASSUME MaxSeqAssumption == MaxSeq \in Nat

VARIABLES
  next,      \* OrderedInbox.next
  pending,   \* OrderedInbox.pending: held appends, by sequence number
  handled,   \* observer: everything push returned, in the order of the returns
  first      \* observer: the body of the first copy to arrive, by sequence number

inboxVars == <<next, pending, handled, first>>

Seqno == 0 .. MaxSeq

\* The append_seqno values a request may carry: -1 stands for those below the
\* first number the actor expects.
Wire == -1 .. MaxSeq

\* OrderedInbox::starting_at(0), the only start the actor uses.
InboxInit ==
  /\ next = 0
  /\ pending = [s \in {} |-> 0]
  /\ handled = <<>>
  /\ first = [s \in {} |-> 0]

\* Observer: remember the first body that arrives under s.
Witness(s, v) ==
  first' = IF s \in DOMAIN first THEN first
           ELSE [t \in DOMAIN first \cup {s} |-> IF t = s THEN v ELSE first[t]]

\* Mutation: one half of the duplicate check is missing.
DuplicateHandledOnly(s) == s < next

\* A copy of an append that was handled, or is held already.
Duplicate(s) == s < next \/ s \in DOMAIN pending

\* The map after BTreeMap::insert(s, v).
Held(s, v) == [t \in DOMAIN pending \cup {s} |-> IF t = s THEN v ELSE pending[t]]

\* Mutation: push hands over at most one message.
DrainsOne(held, n) == n = IF next \in DOMAIN held THEN next + 1 ELSE next

\* The loop of push stops at n: everything from next up to n is held, n is not.
Drains(held, n) ==
  /\ n >= next
  /\ n \notin DOMAIN held
  /\ \A t \in next .. n - 1 : t \in DOMAIN held

\* Mutation: messages are handed over as they arrive.
PushUnordered(s, v) ==
  IF Duplicate(s)
  THEN UNCHANGED <<next, pending, handled>>
  ELSE /\ next' = s + 1
       /\ handled' = Append(handled, [seqno |-> s, body |-> v])
       /\ UNCHANGED pending

\* OrderedInbox::push: a duplicate changes nothing; anything else is stored and
\* the run of consecutive messages that starts at `next` is handed over.
Push(s, v) ==
  IF Duplicate(s)
  THEN UNCHANGED <<next, pending, handled>>
  ELSE LET held == Held(s, v) IN
       \E n \in next .. MaxSeq + 1 :
         /\ Drains(held, n)
         /\ next' = n
         /\ pending' = [t \in DOMAIN held \ (next .. n - 1) |-> held[t]]
         /\ handled' = handled \o
              [i \in 1 .. n - next |->
                 [seqno |-> next + i - 1, body |-> held[next + i - 1]]]

\* An append request, a retry included, reaches the actor.
Arrive ==
  \E s \in Wire, v \in Payload :
    /\ Push(s, v)
    /\ IF s \in Seqno THEN Witness(s, v) ELSE UNCHANGED first

InboxNext == Arrive

InboxSpec == InboxInit /\ [][InboxNext]_inboxVars

-----------------------------------------------------------------------------
InboxTypeOK ==
  /\ next \in 0 .. MaxSeq + 1
  /\ DOMAIN pending \subseteq Seqno
  /\ \A s \in DOMAIN pending : pending[s] \in Payload
  /\ handled \in Seq([seqno : Seqno, body : Payload])
  /\ DOMAIN first \subseteq Seqno
  /\ \A s \in DOMAIN first : first[s] \in Payload

(* push returns messages in append_seqno order, each number exactly once,  *)
(* with no gap: the i-th message the actor handles is number i - 1.        *)
HandledInOrder ==
  /\ Len(handled) = next
  /\ \A i \in 1 .. Len(handled) : handled[i].seqno = i - 1

(* A message is never held back once everything before it has arrived, and *)
(* never dropped while it waits: whatever has arrived was handled or is    *)
(* held, and the number `next` waits for has really not arrived.           *)
NothingStuckOrLost ==
  /\ DOMAIN first = (0 .. next - 1) \cup DOMAIN pending
  /\ next \notin DOMAIN pending

(* A retry with another body never replaces the first copy, held or        *)
(* handled: the check for a duplicate precedes the insert in push.         *)
FirstCopyWins ==
  /\ \A s \in DOMAIN pending : pending[s] = first[s]
  /\ \A i \in 1 .. Len(handled) : handled[i].body = first[handled[i].seqno]
=============================================================================
