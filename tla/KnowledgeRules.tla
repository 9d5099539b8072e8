--------------------------- MODULE KnowledgeRules ---------------------------
(* The rules of the user, kept upstream and, as markdown files beside a     *)
(* meta.json, on this machine (cursor/services/knowledge).  Every request   *)
(* first replays the journal of what was done while upstream was away, then *)
(* is forwarded, and is done locally and journalled when it cannot be.  One *)
(* lock serialises the requests; the process may stop between two writes.   *)
EXTENDS Integers, Sequences, FiniteSets, SequencesExt, Functions

CONSTANTS MaxRules,     \* rules added
          MaxRequests,  \* requests served
          MaxFaults     \* crashes and answers lost after the change was made

VARIABLES files,     \* the markdown files: id -> the rule and its version
          titled,    \* the ids meta.json describes
          journal,   \* the journal in meta.json
          upstream,  \* the rules upstream keeps: id -> the rule and its version
          lastId,    \* ids assigned, here and upstream
          request,   \* the request being served
          todo,      \* the writes to the disk it still has to make
          told,      \* per rule: the version acknowledged, 0 none, -1 removed
          doubt,     \* rules whose last request upstream or a crash left open
          renamed,   \* rules named by an id the replay of that request changed
          served, faults

ruleVars == <<files, titled, journal, upstream, lastId, request, todo, told, doubt, renamed, served, faults>>

Rules == 1..MaxRules
None == <<"none", 0>>
Local(n) == <<"local", n>>
Remote(n) == <<"remote", n>>
IsLocal(id) == id[1] = "local"

Idle == [op |-> "none", at |-> "idle", id |-> None, rule |-> 0, version |-> 0]

Init ==
  /\ files = << >> /\ titled = {} /\ journal = <<>> /\ upstream = << >> /\ lastId = 0
  /\ request = Idle /\ todo = <<>>
  /\ told = [r \in Rules |-> 0] /\ doubt = {} /\ renamed = {} /\ served = 0 /\ faults = 0

Put(f, id, v) == [x \in DOMAIN f \cup {id} |-> IF x = id THEN v ELSE f[x]]
Without(f, id) == [x \in DOMAIN f \ {id} |-> f[x]]

-----------------------------------------------------------------------------
(* What the store writes, one atomic replacement of a file after another.   *)
Do(what, id) == [what |-> what, id |-> id, rule |-> 0, version |-> 0, to |-> None, keep |-> {}]
WriteFile(id, v) == [Do("write", id) EXCEPT !.rule = v.rule, !.version = v.version]

(* RuleStore::upsert: the markdown file, then the metadata.                 *)
Upsert(id, v) == <<WriteFile(id, v), Do("describe", id)>>

(* RuleStore::remove.                                                       *)
RemoveRule(id) == <<Do("unlink", id)>> \o IF id \in titled THEN <<Do("undescribe", id)>> ELSE <<>>

(* RuleStore::promote: the file takes the id upstream gave, and then the    *)
(* metadata and every journal entry of it.                                  *)
Promote(old, new) == <<[Do("rename", old) EXCEPT !.to = new], [Do("renamed", old) EXCEPT !.to = new]>>

(* RuleStore::replace_all: every listed rule is written, every other file   *)
(* deleted, the metadata replaced.                                          *)
MirrorAll(items) ==
  [i \in 1..Cardinality(items) |-> LET id == SetToSeq(items)[i] IN WriteFile(id, upstream[id])]
  \o [i \in 1..Cardinality(DOMAIN files \ items) |-> Do("unlink", SetToSeq(DOMAIN files \ items)[i])]
  \o <<[Do("mirrored", None) EXCEPT !.keep = items]>>

JournalContains(id, op) == \E i \in DOMAIN journal : journal[i] = <<op, id>>

(* RuleStore::record_update: the add still to be replayed reads the newest  *)
(* text by itself.                                                          *)
RecordUpdate(id) ==
  LET op == IF IsLocal(id) THEN "add" ELSE "update"
  IN  IF JournalContains(id, "add") \/ JournalContains(id, op) THEN journal ELSE Append(journal, <<op, id>>)

(* A removal that drops the entries of the rule and adds none.              *)
RecordRemoveNothing(id) == SelectSeq(journal, LAMBDA e : e[2] # id)

(* RuleStore::record_remove: what upstream never saw needs no removal.      *)
RecordRemove(id) ==
  LET others == SelectSeq(journal, LAMBDA e : e[2] # id)
  IN  IF JournalContains(id, "add") \/ IsLocal(id) THEN others ELSE Append(others, <<"remove", id>>)

Rename(id, old, new) == IF id = old THEN new ELSE id

(* One write of the list.                                                   *)
Write ==
  LET w == Head(todo) IN
  /\ todo # <<>>
  /\ todo' = Tail(todo)
  /\ files' = CASE w.what = "write"  -> Put(files, w.id, [rule |-> w.rule, version |-> w.version])
                [] w.what = "unlink" -> Without(files, w.id)
                [] w.what = "rename" -> Put(Without(files, w.id), w.to, files[w.id])
                [] OTHER -> files
  /\ titled' = CASE w.what = "describe"   -> titled \cup {w.id}
                 [] w.what = "undescribe" -> titled \ {w.id}
                 [] w.what = "renamed"    -> {Rename(id, w.id, w.to) : id \in titled}
                 [] w.what = "mirrored"   -> w.keep
                 [] OTHER -> titled
  /\ journal' = CASE w.what = "pop"     -> Tail(journal)
                  [] w.what = "added"   -> Append(journal, <<"add", w.id>>)
                  [] w.what = "updated" -> RecordUpdate(w.id)
                  [] w.what = "removed" -> RecordRemove(w.id)
                  [] w.what = "renamed" ->
                       [i \in DOMAIN journal |-> <<journal[i][1], Rename(journal[i][2], w.id, w.to)>>]
                  [] OTHER -> journal
  /\ UNCHANGED <<upstream, lastId, request, told, doubt, served, faults, renamed>>

Pop == <<Do("pop", None)>>

-----------------------------------------------------------------------------
(* What becomes of a call upstream: it is done and says so, it is refused   *)
(* with an answer, it never gets there (or is answered with an error        *)
(* status), or it is done and the answer is lost.                           *)
Outcomes == {"done", "refused", "away"} \cup (IF faults < MaxFaults THEN {"late"} ELSE {})

Lose(outcome, r) ==
  IF outcome = "late" THEN doubt' = doubt \cup {r} /\ faults' = faults + 1
  ELSE UNCHANGED <<doubt, faults>>

(* Upstream keeps a new rule under an id of its own; it changes and removes *)
(* only what it keeps.                                                      *)
Apply(op, id, v, outcome) ==
  IF outcome \notin {"done", "late"} THEN UNCHANGED <<upstream, lastId>>
  ELSE CASE op = "add" -> /\ upstream' = Put(upstream, Remote(lastId + 1), v)
                          /\ lastId' = lastId + 1
         [] op = "update" -> /\ id \in DOMAIN upstream
                             /\ upstream' = Put(upstream, id, v)
                             /\ UNCHANGED lastId
         [] op = "remove" -> /\ id \in DOMAIN upstream
                             /\ upstream' = Without(upstream, id)
                             /\ UNCHANGED lastId
         [] op = "list" -> outcome = "done" /\ UNCHANGED <<upstream, lastId>>

-----------------------------------------------------------------------------
(* A request of the editor takes the lock.                                  *)
Begin(op, id, rule) ==
  /\ request = Idle /\ served < MaxRequests
  /\ request' = [op |-> op, at |-> "replay", id |-> id, rule |-> rule, version |-> served + 1]
  /\ served' = served + 1
  /\ UNCHANGED <<files, titled, journal, upstream, lastId, todo, told, doubt, faults, renamed>>

Fresh(r) == told[r] = 0 /\ r \notin doubt /\ \A q \in Rules : q < r => told[q] # 0 \/ q \in doubt

RuleOf(id) == files[id].rule

Ask ==
  \/ \E r \in Rules : Fresh(r) /\ Begin("add", None, r)
  \/ \E op \in {"update", "remove"}, id \in DOMAIN files : Begin(op, id, RuleOf(id))
  \/ Begin("list", None, 0)

(* The journal is empty: the request is forwarded.                          *)
Replayed ==
  /\ request.at = "replay" /\ todo = <<>> /\ journal = <<>>
  /\ request' = [request EXCEPT !.at = "forward"]
  /\ UNCHANGED <<files, titled, journal, upstream, lastId, todo, told, doubt, served, faults, renamed>>

(* replay_add and replay_update: the file is gone, the entry is void.       *)
ReplayVoid ==
  /\ request.at = "replay" /\ todo = <<>> /\ journal # <<>>
  /\ Head(journal)[1] # "remove" /\ Head(journal)[2] \notin DOMAIN files
  /\ todo' = Pop
  /\ UNCHANGED <<files, titled, journal, upstream, lastId, request, told, doubt, served, faults, renamed>>

(* What follows a replayed entry.                                           *)
After(op, id) == (IF op = "add" THEN Promote(id, Remote(lastId + 1)) ELSE <<>>) \o Pop

(* replay_add, replay_update, replay_remove of the first entry.             *)
Replay(outcome) ==
  LET op == Head(journal)[1]
      id == Head(journal)[2]
      v == IF op = "remove" THEN [rule |-> 0, version |-> 0] ELSE files[id]
      rule == IF op # "remove" THEN v.rule
              ELSE IF id \in DOMAIN upstream THEN upstream[id].rule ELSE 0
  IN
  /\ request.at = "replay" /\ todo = <<>> /\ journal # <<>>
  /\ op # "remove" => id \in DOMAIN files
  /\ Apply(op, id, v, outcome)
  /\ CASE outcome = "done" -> /\ todo' = After(op, id)
                              /\ UNCHANGED <<request, doubt, faults>>
       [] outcome = "refused" -> /\ todo' = Pop
                                 /\ doubt' = doubt \cup {rule}
                                 /\ UNCHANGED <<request, faults>>
       [] OTHER -> /\ request' = [request EXCEPT !.at = "local"]
                   /\ Lose(outcome, rule)
                   /\ UNCHANGED todo
  /\ UNCHANGED <<files, titled, journal, told, served, renamed>>

Version == [rule |-> request.rule, version |-> request.version]

(* What each handler writes when upstream has done what it was asked.       *)
AddDone == Upsert(Remote(lastId + 1), Version)
UpdateDone == Upsert(request.id, Version)
RemoveDone == RemoveRule(request.id)
ListDone == MirrorAll(DOMAIN upstream)

WritesWhenDone ==
  CASE request.op = "add" -> AddDone
    [] request.op = "update" -> UpdateDone
    [] request.op = "remove" -> RemoveDone
    [] request.op = "list" -> ListDone

(* The request is forwarded to upstream.                                    *)
Forward(outcome) ==
  /\ request.at = "forward"
  /\ Apply(request.op, request.id, Version, outcome)
  /\ CASE outcome = "done" -> /\ todo' = WritesWhenDone
                              /\ request' = [request EXCEPT !.at = "done"]
                              /\ UNCHANGED <<doubt, faults>>
       [] outcome = "refused" -> /\ request' = [request EXCEPT !.at = "refused"]
                                 /\ UNCHANGED <<todo, doubt, faults>>
       [] OTHER -> /\ request' = [request EXCEPT !.at = "local"]
                   /\ Lose(outcome, request.rule)
                   /\ UNCHANGED todo
  /\ UNCHANGED <<files, titled, journal, told, served, renamed>>

(* Upstream is away: the request is done here and journalled; a list reads  *)
(* the files.                                                               *)
AddLocally == Upsert(Local(lastId + 1), Version) \o <<Do("added", Local(lastId + 1))>>
UpdateLocally == Upsert(request.id, Version) \o <<Do("updated", request.id)>>
RemoveLocally == RemoveRule(request.id) \o <<Do("removed", request.id)>>

LocalWrites ==
  CASE request.op = "add" -> AddLocally
    [] request.op = "update" -> UpdateLocally
    [] request.op = "remove" -> RemoveLocally
    [] request.op = "list" -> <<>>

ServeLocally ==
  /\ request.at = "local"
  /\ IF request.op = "update" /\ request.id \notin DOMAIN files
     THEN /\ request' = [request EXCEPT !.at = "refused"]
          /\ UNCHANGED todo
     ELSE /\ request' = [request EXCEPT !.at = "done"]
          /\ todo' = LocalWrites
  /\ lastId' = IF request.op = "add" THEN lastId + 1 ELSE lastId
  /\ UNCHANGED <<files, titled, journal, upstream, told, doubt, served, faults, renamed>>

(* Rules kept under another id than the given one.                          *)
KeptUnderAnother(id) == {files[x].rule : x \in DOMAIN files \ {id}}

Acknowledged ==
  CASE request.op = "remove" -> [told EXCEPT ![request.rule] = -1]
    [] request.op \in {"add", "update"} -> [told EXCEPT ![request.rule] = request.version]
    [] OTHER -> told

(* The answer goes out and the lock is released.                            *)
Answer ==
  /\ request.at \in {"done", "refused"} /\ todo = <<>>
  /\ told' = IF request.at = "done" THEN Acknowledged ELSE told
  /\ doubt' = IF request.at = "refused" /\ request.op = "add" THEN doubt \cup {request.rule} ELSE doubt
  /\ renamed' = IF IsLocal(request.id) /\ request.rule \in KeptUnderAnother(request.id)
               THEN renamed \cup {request.rule} ELSE renamed
  /\ request' = Idle
  /\ UNCHANGED <<files, titled, journal, upstream, lastId, todo, served, faults>>

(* The process stops: the request is not answered, and the rule an          *)
(* unfinished promotion is about is in doubt as well.                       *)
Interrupted ==
  (IF request.at = "done" THEN {request.rule} ELSE {})
  \cup (IF request.at = "replay" /\ todo # <<>> /\ Head(journal)[1] = "add"
        THEN {files[id].rule : id \in DOMAIN files \cap {Head(journal)[2], todo[1].to}}
        ELSE {})

Crash ==
  /\ request # Idle /\ faults < MaxFaults
  /\ faults' = faults + 1
  /\ doubt' = doubt \cup Interrupted
  /\ request' = Idle /\ todo' = <<>>
  /\ UNCHANGED <<files, titled, journal, upstream, lastId, told, served, renamed>>

Next ==
  \/ Ask \/ Write \/ Replayed \/ ReplayVoid \/ ServeLocally \/ Answer \/ Crash
  \/ \E outcome \in Outcomes : Replay(outcome) \/ Forward(outcome)

Spec == Init /\ [][Next]_ruleVars
-----------------------------------------------------------------------------
Copies(keep, r) == {id \in DOMAIN keep : keep[id].rule = r}
Journalled(id, ops) == \E op \in ops : JournalContains(id, op)

(* Between requests, what the user was told of a rule is what the store     *)
(* holds and what upstream holds or the journal will make it hold: a rule   *)
(* added or changed is in one file, with its metadata, and upstream has     *)
(* that text unless the journal names it; a rule removed has no file, and   *)
(* upstream has none unless the journal removes it.  Rules in doubt apart:  *)
(* upstream refused them, or an answer or the process was lost midway; and  *)
(* rules named by an id that was changed meanwhile, see RemovalsKept.       *)
AcknowledgedKept ==
  request = Idle =>
    \A r \in Rules \ (doubt \cup renamed) :
      /\ told[r] > 0 =>
           \E id \in Copies(files, r) :
             /\ files[id].version = told[r] /\ id \in titled
             /\ \/ id \in DOMAIN upstream /\ upstream[id] = files[id]
                \/ Journalled(id, {"add", "update"})
      /\ told[r] = -1 =>
           /\ Copies(files, r) = {}
           /\ \A id \in Copies(upstream, r) : Journalled(id, {"remove"})

(* A rule is not doubled, neither in the files nor upstream, by the offline *)
(* add, its replay, and the list that mirrors it back.                      *)
RulesOnce ==
  request = Idle =>
    \A r \in Rules \ doubt :
      Cardinality(Copies(files, r)) <= 1 /\ Cardinality(Copies(upstream, r)) <= 1

(* The journal names a rule once, and only the adds name ids upstream never *)
(* gave: record_update and record_remove fold a change into the entry that  *)
(* is already there, across the renaming of the ids.                        *)
JournalFolded ==
  /\ \A i, j \in DOMAIN journal : i # j => journal[i][2] # journal[j][2]
  /\ \A i \in DOMAIN journal : IsLocal(journal[i][2]) => journal[i][1] = "add"

(* A removal that was answered with success has removed the rule from the   *)
(* files, and from upstream or into the journal, when no answer and no      *)
(* write was lost.                                                          *)
RemovalsKept ==
  request = Idle =>
    \A r \in Rules \ doubt :
      told[r] = -1 => /\ Copies(files, r) = {}
                      /\ \A id \in Copies(upstream, r) : Journalled(id, {"remove"})
=============================================================================
