----------------------------- MODULE PluginState -----------------------------
(***************************************************************************)
(* The resources (accounts) and the model catalog the core keeps for a      *)
(* plugin: PluginStateStore (src/server/src/plugin/state.rs) over JSON      *)
(* files (data.rs), and the handlers of PluginRegistry (registry.rs) that   *)
(* use them.  Every operation of the store reads its file under the         *)
(* plugin's lock, lets it go, and takes it again to write the whole file:   *)
(* two operations may overlap.  What the plugin answers to a call of the    *)
(* worker is any list of drafts, any patch and any list of models.          *)
(***************************************************************************)
EXTENDS Integers, Sequences, SequencesExt, FiniteSets

CONSTANTS Handlers,   \* the requests and Runs that use the store
          KindOf,     \* what each does: "import", "invoke", "refresh", ...
          Drafts,     \* the lists of keys an import or a sign-in may yield
          Models,     \* the models a provider may list
          MaxIds,     \* bound: records ever added
          MaxWrites   \* bound: writes of the files

VARIABLES records,    \* resources-<type>.json: a sequence of ResourceRecord
          models,     \* models-<provider>.json: is it enabled, by model
          handlers,   \* each handler: its step, its resource, what it has read
          nextId,     \* ids are fresh (Uuid::new_v4)
          writes,     \* counts writes, for the bound
          told,       \* ghost: what the writes so far promised
          overlapped  \* ghost: a write replaced what its handler had not read

stateVars == <<records, models, handlers, nextId, writes, told, overlapped>>

States == {"ready", "cooling", "invalid"}
Nothing == [x \in {} |-> "ready"]
Idle == [step |-> "start", id |-> 0, records |-> <<>>, models |-> Nothing]

Record(key, id) == [id |-> id, key |-> key, state |-> "ready"]

(* A new installation, or what an earlier process left: an account and the  *)
(* models listed with it.                                                   *)
Init == /\ \/ records = <<>> /\ models = Nothing
           \/ /\ \E keys \in Drafts : records = <<Record(Head(keys), 1)>>
              /\ models = [m \in Models |-> "on"]
        /\ handlers = [h \in Handlers |-> Idle]
        /\ nextId = 2 /\ writes = 0
        /\ told = [resources |-> Nothing, models |-> Nothing]
        /\ overlapped = FALSE

-----------------------------------------------------------------------------
(* What an operation makes of the records or models it has read.            *)

(* upsert_resources: a draft replaces the record of its key, or is added.   *)
UpsertDraft(s, key) ==
  IF \E i \in DOMAIN s : s[i].key = key
  THEN [i \in DOMAIN s |-> IF s[i].key = key THEN Record(key, s[i].id) ELSE s[i]]
  ELSE Append(s, Record(key, nextId + Len(s)))

Upserted(s, keys) == FoldLeft(UpsertDraft, s, keys)

(* apply_patch, on the record of that id.                                   *)
Patched(s, id, state) ==
  [i \in DOMAIN s |-> IF s[i].id = id THEN [s[i] EXCEPT !.state = state] ELSE s[i]]

Without(s, id) == SelectSeq(s, LAMBDA r : r.id # id)

(* replace_models: the new list, each model as enabled as it was.           *)
Relisted(old, list) == [m \in list |-> IF m \in DOMAIN old THEN old[m] ELSE "on"]

Has(s, id) == \E i \in DOMAIN s : s[i].id = id

(* select_resource: the first ready record, or the first.                   *)
Selected ==
  LET usable == SelectSeq(records, LAMBDA r : r.state = "ready")
  IN  IF usable # <<>> THEN usable[1].id ELSE records[1].id

-----------------------------------------------------------------------------
(* The handlers.  A step is a piece between two awaits.                     *)

Go(h, step) == handlers' = [handlers EXCEPT ![h].step = step]
Finish(h) == handlers' = [handlers EXCEPT ![h] = Idle]

FirstStep == [import |-> "ask", switch |-> "read", sync |-> "resync"]

(* find_record, select_resource, or neither; no record is an error.         *)
Begin(h) ==
  /\ handlers[h].step = "start" /\ writes < MaxWrites
  /\ \/ KindOf[h] \in DOMAIN FirstStep /\ Go(h, FirstStep[KindOf[h]])
     \/ /\ KindOf[h] = "invoke" /\ records # <<>>
        /\ handlers' = [handlers EXCEPT ![h].step = "ask", ![h].id = Selected]
     \/ /\ KindOf[h] \in {"refresh", "delete"}
        /\ \E i \in DOMAIN records :
             handlers' = [handlers EXCEPT ![h].step = "ask", ![h].id = records[i].id]
  /\ UNCHANGED <<records, models, nextId, writes, told, overlapped>>

(* The worker's answer.  Its failure ends a handler, except a removal: the  *)
(* user must be able to remove a resource that has become invalid.          *)
Answered(h) ==
  /\ handlers[h].step = "ask"
  /\ Go(h, "read") \/ (KindOf[h] # "delete" /\ Finish(h))
  /\ UNCHANGED <<records, models, nextId, writes, told, overlapped>>

(* The read of a read-modify-write; a record that is gone is an error.      *)
ReadFile(h) ==
  /\ handlers[h].step = "read"
  /\ IF KindOf[h] \in {"invoke", "refresh", "delete"} /\ ~Has(records, handlers[h].id)
     THEN Finish(h)
     ELSE handlers' = [handlers EXCEPT ![h].step = "write",
                         ![h].records = IF KindOf[h] = "switch" THEN <<>> ELSE records,
                         ![h].models = IF KindOf[h] = "switch" THEN models ELSE Nothing]
  /\ UNCHANGED <<records, models, nextId, writes, told, overlapped>>

(* update replaces the file by a rename, or fails and leaves it.            *)
SaveRecords(h, new, promise) ==
  /\ records' = new
  /\ told' = [told EXCEPT !.resources = promise]
  /\ overlapped' = (overlapped \/ records # handlers[h].records)
  /\ UNCHANGED models

SaveModels(h, new, promise) ==
  /\ models' = new
  /\ told' = [told EXCEPT !.models = promise]
  /\ overlapped' = (overlapped \/ models # handlers[h].models)
  /\ UNCHANGED <<records, nextId>>

Promise(old, x, value) ==
  [y \in DOMAIN old \cup {x} |-> IF y = x THEN value ELSE old[y]]

WriteUpsert(h) ==
  /\ KindOf[h] = "import"
  /\ \E keys \in Drafts :
       LET new == Upserted(handlers[h].records, keys)
           fresh == {new[i].id : i \in {j \in DOMAIN new : new[j].key \in Range(keys)}}
       IN  /\ nextId + Len(new) <= MaxIds
           /\ SaveRecords(h, new, [y \in DOMAIN told.resources \cup fresh |->
                                     IF y \in fresh THEN "ready" ELSE told.resources[y]])
           /\ nextId' = nextId + Len(new)
  /\ handlers' = [handlers EXCEPT ![h] = [Idle EXCEPT !.step = "resync"]]

WritePatch(h) ==
  /\ KindOf[h] \in {"invoke", "refresh"}
  /\ \E state \in States :
       LET id == handlers[h].id
       IN  SaveRecords(h, Patched(handlers[h].records, id, state),
                       Promise(told.resources, id, state))
  /\ Finish(h) /\ UNCHANGED nextId

WriteRemoval(h) ==
  /\ KindOf[h] = "delete"
  /\ LET id == handlers[h].id
     IN  SaveRecords(h, Without(handlers[h].records, id), Promise(told.resources, id, "removed"))
  /\ Finish(h) /\ UNCHANGED nextId

WriteSwitch(h) ==
  /\ KindOf[h] = "switch"
  /\ \E m \in DOMAIN handlers[h].models, value \in {"on", "off"} :
       SaveModels(h, [handlers[h].models EXCEPT ![m] = value], Promise(told.models, m, value))
  /\ Finish(h)

WriteFile(h) ==
  /\ handlers[h].step = "write" /\ writes < MaxWrites
  /\ writes' = writes + 1
  /\ WriteUpsert(h) \/ WritePatch(h) \/ WriteRemoval(h) \/ WriteSwitch(h)

(* The write fails, or the model to switch is not in the catalog.           *)
WriteFails(h) ==
  /\ handlers[h].step = "write"
  /\ Finish(h)
  /\ UNCHANGED <<records, models, nextId, writes, told, overlapped>>

(* sync_provider_models, after an import as well: the plugin lists the      *)
(* models with a resource; a failure leaves the catalog.                    *)
Resync(h) ==
  /\ handlers[h].step = "resync"
  /\ (records # <<>> /\ Go(h, "relist")) \/ Finish(h)
  /\ UNCHANGED <<records, models, nextId, writes, told, overlapped>>

ReadListed(h) ==
  /\ handlers[h].step = "relist"
  /\ handlers' = [handlers EXCEPT ![h].step = "listed", ![h].models = models]
  /\ UNCHANGED <<records, models, nextId, writes, told, overlapped>>

WriteListed(h) ==
  /\ handlers[h].step = "listed" /\ writes < MaxWrites
  /\ writes' = writes + 1
  /\ \E list \in SUBSET Models \ {{}} :
       SaveModels(h, Relisted(handlers[h].models, list),
                  [m \in DOMAIN told.models \cap list |-> told.models[m]])
  /\ Finish(h)

(* PluginRegistry::remove: the directory of the plugin goes.                *)
Clear ==
  /\ writes < MaxWrites /\ writes' = writes + 1
  /\ records' = <<>> /\ models' = Nothing
  /\ told' = [resources |-> Nothing, models |-> Nothing]
  /\ overlapped' = (overlapped \/ \E h \in Handlers : handlers[h].step \in {"write", "listed"})
  /\ UNCHANGED <<handlers, nextId>>

Next == \/ \E h \in Handlers : \/ Begin(h) \/ Answered(h) \/ ReadFile(h) \/ WriteFile(h)
                               \/ WriteFails(h) \/ Resync(h) \/ ReadListed(h) \/ WriteListed(h)
        \/ Clear

Spec == Init /\ [][Next]_stateVars

-----------------------------------------------------------------------------
(* Whatever overlaps, the file never holds two records of one key or of one *)
(* id (upsert_resources looks for the key of each draft).                   *)
KeysUnique ==
  \A i, j \in DOMAIN records :
    i # j => records[i].key # records[j].key /\ records[i].id # records[j].id

Kept(id) ==
  IF told.resources[id] = "removed" THEN ~Has(records, id)
  ELSE \E i \in DOMAIN records : records[i].id = id /\ records[i].state = told.resources[id]

(* What an operation that answered Ok wrote is what the file says until a   *)
(* later operation on that resource, unless two operations overlapped:      *)
(* patches, sign-ins and removals leave the other records alone.            *)
ResourcesKept == overlapped \/ \A id \in DOMAIN told.resources : Kept(id)

(* A model the user switched off stays off when the catalog is listed       *)
(* again, as long as it stays in the catalog (replace_models).              *)
SwitchesKept ==
  overlapped \/ \A m \in DOMAIN told.models : m \in DOMAIN models => models[m] = told.models[m]

(* A patch is "a partial update the host applies atomically to a single     *)
(* resource" (src/server/src/plugin/sdk/resource.ts): no other operation,   *)
(* overlapping or not, undoes it.                                           *)
PatchesAreAtomic == \A id \in DOMAIN told.resources : Kept(id)

-----------------------------------------------------------------------------
(***************************************************************************)
(* The plugins that come with the application: builtin::install             *)
(* (src/server/src/plugin/builtin.rs) brings the directory of each up to    *)
(* date when a process starts, the catalog (catalog.rs) loads the plugins   *)
(* it finds, and PluginRegistry keeps what was loaded.  The application may *)
(* be updated or downgraded between two starts.                             *)
(***************************************************************************)

CONSTANTS Plugins,      \* the names of the built-in plugins, in their order
          FilesOf,      \* the embedded files of a version, plugin.json first
          Versions,     \* the versions of the application
          MaxStarts,    \* bound: starts of the application
          MaxFaults     \* bound: starts that end in the middle, failed loads

VARIABLES version,   \* the version of the application that runs, or 0
          disk,      \* the version of each file, by plugin
          todo,      \* what this start has still to write: plugin and file
          entries,   \* PluginRegistry.entries: None until the first load
          starts, faults,
          torn       \* ghost: plugins whose last synchronisation was cut short

builtinVars == <<version, disk, todo, entries, starts, faults, torn>>

None == {"not loaded"}
Embedded(v) == [f \in Range(FilesOf[v]) |-> v]
DiskVersion(p) == IF "plugin.json" \in DOMAIN disk[p] THEN disk[p]["plugin.json"] ELSE 0

BuiltinInit == /\ version = 0 /\ todo = <<>> /\ entries = None /\ starts = 0 /\ faults = 0 /\ torn = {}
               /\ disk = [p \in Range(Plugins) |-> [f \in {} |-> 0]]

Start ==
  /\ version = 0 /\ starts < MaxStarts /\ starts' = starts + 1
  /\ version' \in Versions
  /\ todo' = [i \in DOMAIN Plugins |-> <<Plugins[i], "check">>] /\ entries' = None
  /\ UNCHANGED <<disk, faults, torn>>

Plugin == Head(todo)[1]
At(step) == version # 0 /\ todo # <<>> /\ Head(todo)[2] = step
Files(p) == [i \in DOMAIN FilesOf[version] |-> <<p, FilesOf[version][i]>>]

(* A plugin whose manifest has the embedded version is left alone.          *)
(* Otherwise write_plugin: the files in their order, then the others go.    *)
Check ==
  /\ At("check")
  /\ IF DiskVersion(Plugin) = version THEN todo' = Tail(todo) /\ UNCHANGED torn
     ELSE /\ todo' = Files(Plugin) \o <<<<Plugin, "prune">>>> \o Tail(todo)
          /\ torn' = torn \cup {Plugin}
  /\ UNCHANGED <<version, disk, entries, starts, faults>>

Write ==
  /\ \E f \in UNION {Range(FilesOf[v]) : v \in Versions} :
       /\ At(f)
       /\ disk' = [disk EXCEPT ![Plugin] = [g \in DOMAIN disk[Plugin] \cup {f} |->
                                             IF g = f THEN version ELSE disk[Plugin][g]]]
  /\ todo' = Tail(todo)
  /\ UNCHANGED <<version, entries, starts, faults, torn>>

Pruned(files) == [f \in DOMAIN files \cap Range(FilesOf[version]) |-> files[f]]

Prune ==
  /\ At("prune")
  /\ disk' = [disk EXCEPT ![Plugin] = Pruned(disk[Plugin])]
  /\ todo' = Tail(todo) /\ torn' = torn \ {Plugin}
  /\ UNCHANGED <<version, entries, starts, faults>>

(* The process dies or the disk is full: install fails and so does the start. *)
Interrupt ==
  /\ version # 0 /\ todo # <<>> /\ faults < MaxFaults /\ faults' = faults + 1
  /\ version' = 0 /\ todo' = <<>>
  /\ UNCHANGED <<disk, entries, starts, torn>>

Quit ==
  /\ version # 0 /\ todo = <<>> /\ version' = 0 /\ entries' = None
  /\ UNCHANGED <<disk, todo, starts, faults, torn>>

(* PluginCatalog::entries: plugins that load, an invalid one being skipped; *)
(* the first answer is kept.                                                *)
Load ==
  /\ version # 0 /\ todo = <<>> /\ entries = None
  /\ \E failed \in SUBSET Range(Plugins) :
       /\ faults + Cardinality(failed) <= MaxFaults
       /\ faults' = faults + Cardinality(failed)
       /\ entries' = {p \in Range(Plugins) : "plugin.json" \in DOMAIN disk[p]} \ failed
  /\ UNCHANGED <<version, disk, todo, starts, torn>>

BuiltinNext == Start \/ Check \/ Write \/ Prune \/ Interrupt \/ Quit \/ Load

BuiltinSpec == BuiltinInit /\ [][BuiltinNext]_builtinVars

-----------------------------------------------------------------------------
(* "The version of the manifest is the cache key: nothing is written when   *)
(* it agrees, and the whole directory is synchronised and left-over files   *)
(* of an old version removed when it changes" (comment of install): once a  *)
(* start is done, the directory of a plugin holds the embedded files.       *)
InstalledIsEmbedded ==
  version # 0 /\ todo = <<>> => \A p \in Range(Plugins) : disk[p] = Embedded(version)

(* The same, for a plugin whose last synchronisation was not cut short:     *)
(* through updates and downgrades, and cut-short starts of other plugins.   *)
SyncedIsEmbedded ==
  version # 0 /\ todo = <<>> => \A p \in Range(Plugins) \ torn : disk[p] = Embedded(version)
=============================================================================
