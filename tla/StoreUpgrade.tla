---------------------------- MODULE StoreUpgrade ----------------------------
(***************************************************************************)
(* What an installation brings along: the database of an earlier build,    *)
(* migrated when the store is opened (store/migrations.rs), and the model  *)
(* file of v0.0.49, imported on request (store/legacy_config.rs).  SQLx,   *)
(* which runs and records a migration in one transaction, is external.     *)
(***************************************************************************)
EXTENDS FiniteSetsExt, Integers

CONSTANTS Processes,  \* processes that may open the database
          MaxVersion, \* the newest migration there is
          Changed,    \* the one that was changed after it had been shipped (10)
          MaxStarts,  \* times the store is opened
          ModelFiles, \* contents of the v0.0.49 file
          Stored,     \* a model stored before
          MaxImports  \* imports asked for

VARIABLES task,     \* whether the store is opened, or is open and asked to import
          history,  \* _sqlx_migrations: version -> the script that was recorded
          runs,     \* version -> how often its script changed the schema
          process,  \* where each process is
          starts,   \* times the store was opened
          file,     \* the v0.0.49 file
          models,   \* config hashes of the stored models
          import,   \* the imports: where they are, what they found
          created,  \* rows that imports inserted
          deleted   \* models of the file that the user deleted

upgradeVars == <<task, history, runs, process, starts>>
importVars  == <<file, models, import, created, deleted>>
vars        == <<upgradeVars, importVars>>

Version == 1 .. MaxVersion
Script  == [ending : {"lf", "crlf"}, text : {"now", "before"}]
Idle    == [at |-> "down", build |-> 0, chosen |-> [ending |-> "lf", old |-> FALSE],
            applied |-> {}, next |-> 0, listed |-> {}]

\* The script of a version in a migrator: with one kind of line endings, the
\* changed one as it is now or as it was shipped first.
ScriptOf(m, v) == [ending |-> m.ending, text |-> IF v = Changed /\ m.old THEN "before" ELSE "now"]

\* What shipped builds left behind: nothing, or the first migrations in one kind
\* of line endings.
Init ==
    /\ task \in {"open", "import"}
    /\ \E n \in 0 .. MaxVersion : \E m \in [ending : {"lf", "crlf"}, old : BOOLEAN] :
         /\ task = "import" => n = MaxVersion /\ m = [ending |-> "lf", old |-> FALSE]
         /\ history = [v \in 1 .. n |-> ScriptOf(m, v)]
    /\ runs = [v \in Version |-> IF v \in DOMAIN history THEN 1 ELSE 0]
    /\ process = [p \in Processes |-> Idle]
    /\ starts = 0
    /\ IF task = "import" THEN file \in ModelFiles /\ models \in {{}, {Stored}}
       ELSE file = [adapters |-> <<>>] /\ models = {}
    /\ import = [i \in 1 .. MaxImports |-> [at |-> "new", total |-> 0, missing |-> {}, imported |-> 0]]
    /\ created = 0
    /\ deleted = {}

-----------------------------------------------------------------------------
(* Opening the store. *)

\* history_matches: every row is of a version the build knows, with its checksum.
HistoryMatches(h, build, m) == \A v \in DOMAIN h : v <= build /\ h[v] = ScriptOf(m, v)

\* select_migrator: each kind of line endings, as the script is now and, if the
\* row of the changed version says so, as it was; else the plain one.
SelectMigrator(h, build) ==
    LET With(e, old) == [ending |-> e, old |-> old]
        Recorded(e)  == Changed \in DOMAIN h /\ Changed <= build
                        /\ h[Changed] = ScriptOf(With(e, TRUE), Changed)
        Fits(e)      == {o \in BOOLEAN : (o => Recorded(e)) /\ HistoryMatches(h, build, With(e, o))}
        First(e)     == With(e, FALSE \notin Fits(e))
    IN  IF Fits("lf") # {} THEN First("lf")
        ELSE IF Fits("crlf") # {} THEN First("crlf")
        ELSE With("lf", FALSE)

Set(p, r) == process' = [process EXCEPT ![p] = r]

\* Store::connect, by one build or the one before it.
Connect(p) ==
    /\ task = "open" /\ process[p].at = "down" /\ starts < MaxStarts
    /\ starts' = starts + 1
    /\ \E build \in {MaxVersion - 1, MaxVersion} : Set(p, [Idle EXCEPT !.at = "run", !.build = build])
    /\ UNCHANGED <<task, history, runs, importVars>>

\* load_applied_migrations: no rows where there is no table yet.
AppliedVersions == DOMAIN history

\* run, up to its stages: the rows are read and the migrator is chosen.
Run(p) ==
    LET build == process[p].build
        m     == SelectMigrator(history, build)
    IN
    /\ process[p].at = "run"
    /\ Set(p, [process[p] EXCEPT !.at = IF HistoryMatches(history, build, m) THEN "stage" ELSE "invalid",
                                 !.chosen = m, !.applied = AppliedVersions, !.next = 1])
    /\ UNCHANGED <<task, history, runs, starts, importVars>>

\* What SQLx validates: no row that differs, and none it does not know unless the
\* migrator ignores those.
Valid(p, upTo, ignoreMissing) ==
    \A v \in DOMAIN history :
      IF v <= upTo THEN history[v] = ScriptOf(process[p].chosen, v) ELSE ignoreMissing

\* The history is invalid: SQLx is run for its error.
ValidateInvalid(p) ==
    /\ process[p].at = "invalid"
    /\ Set(p, [process[p] EXCEPT !.at = IF Valid(p, process[p].build, FALSE) THEN "up" ELSE "refused"])
    /\ UNCHANGED <<task, history, runs, starts, importVars>>

\* The versions that were not there when the rows were read have a stage each;
\* the stage lists the rows again and validates them.
BeginStage(p) ==
    LET s == process[p] IN
    /\ s.at = "stage" /\ s.next <= s.build
    /\ IF s.next \in s.applied THEN Set(p, [s EXCEPT !.next = @ + 1])
       ELSE IF Valid(p, s.next, TRUE)
       THEN Set(p, [s EXCEPT !.at = "apply", !.listed = DOMAIN history])
       ELSE Set(p, [s EXCEPT !.at = "failed"])
    /\ UNCHANGED <<task, history, runs, starts, importVars>>

\* SQLx applies what the list lacks, up to the version of the stage: script and
\* row in one transaction, which a row that is there by now makes fail.
Apply(p) ==
    LET s == process[p]
        todo == (1 .. s.next) \ s.listed
    IN
    /\ s.at = "apply"
    /\ IF todo = {}
       THEN /\ Set(p, [s EXCEPT !.at = "stage", !.next = @ + 1])
            /\ UNCHANGED <<history, runs>>
       ELSE LET v == Min(todo) IN
            IF v \in DOMAIN history
            THEN Set(p, [s EXCEPT !.at = "failed"]) /\ UNCHANGED <<history, runs>>
            ELSE /\ history' = [u \in DOMAIN history \cup {v} |->
                                  IF u = v THEN ScriptOf(s.chosen, v) ELSE history[u]]
                 /\ runs' = [runs EXCEPT ![v] = @ + 1]
                 /\ Set(p, [s EXCEPT !.listed = @ \cup {v}])
    /\ UNCHANGED <<task, starts, importVars>>

\* The last stage validates everything; it has nothing left to apply.
ValidateAll(p) ==
    LET s == process[p] IN
    /\ s.at = "stage" /\ s.next > s.build
    /\ Set(p, [s EXCEPT !.at = IF Valid(p, s.build, FALSE) THEN "up" ELSE "failed"])
    /\ UNCHANGED <<task, history, runs, starts, importVars>>

\* log_sqlite_state: a look at the state of the database, before the first stage
\* and between two of them, fails.
StateUnreadable(p) ==
    /\ process[p].at \in {"run", "stage"}
    /\ Set(p, [process[p] EXCEPT !.at = "failed"])
    /\ UNCHANGED <<task, history, runs, starts, importVars>>

\* run_stage_with_limits gives a stage 30 s, whether or not its transaction has
\* been committed by then.
StageFails(p) ==
    /\ \/ process[p].at \in {"invalid", "apply"}
       \/ process[p].at = "stage" /\ process[p].next > process[p].build
    /\ Set(p, [process[p] EXCEPT !.at = "failed"])
    /\ UNCHANGED <<task, history, runs, starts, importVars>>

\* The process ends, wherever it was.
Exit(p) ==
    /\ process[p].at # "down"
    /\ Set(p, Idle)
    /\ UNCHANGED <<task, history, runs, starts, importVars>>

-----------------------------------------------------------------------------
(* Importing the models of v0.0.49. *)

Responses == "/v1/responses"
Chat      == "/v1/chat/completions"
Messages  == "/v1/messages"

\* openai_protocol_from_url, for a path that ends like one of the endpoints.
Detected(path) ==
    CASE path = "responses" -> {Responses} [] path = "chat" -> {Chat} [] OTHER -> {}

\* url_path_ends_with.
EndsWith(path, suffix) == path = suffix

\* legacy_request_configuration: the protocol, and whether the path is the whole
\* request path; nothing for an URL or an endpoint that is an error.
RequestConfiguration(a) ==
    LET configured == CASE a.endpoint \in {"", Responses} -> {Responses}
                        [] a.endpoint \in {Chat, "/custom"} -> {Chat}
                        [] OTHER -> {}
    IN  IF ~ a.url THEN {}
        ELSE IF a.type = "anthropic"
        THEN {[protocol |-> Messages, full |-> EndsWith(a.path, "messages")]}
        ELSE {[protocol |-> IF Detected(a.path) # {} THEN CHOOSE d \in Detected(a.path) : TRUE ELSE c,
               full |-> Detected(a.path) # {} \/ a.endpoint = "/custom"] : c \in configured}

\* enabled_json_object, for the extra parameters and headers that are switched on.
FieldsParse(a) == a.extras # "malformed"

\* model_input: nothing where the type, the request or a field is an error.
ModelInput(a) ==
    {[name |-> a.name, type |-> a.type, path |-> a.path, protocol |-> c.protocol, full |-> c.full] :
        c \in IF a.type \in {"openai", "anthropic"} /\ FieldsParse(a) THEN RequestConfiguration(a)
              ELSE {}}

\* append_standard_endpoint: a server URL that ends in a version has the endpoint
\* without its own, and so means the same as one without.
WithEndpoint(path, endpoint) == IF path = "version" THEN <<"base", endpoint>> ELSE <<path, endpoint>>

\* resolve_request_url: as it is written, or followed by the endpoint.
RequestUrl(m) == IF m.full THEN <<m.path>> ELSE WithEndpoint(m.path, m.protocol)

\* model_config_hash, of what tells two models apart.
ConfigHash(m) == <<RequestUrl(m), m.name, IF m.type = "openai" THEN m.protocol ELSE "">>

\* load_v0049_model_config: all adapters of the file, or an error.
Loaded(f) == f.adapters # <<>> /\ \A i \in DOMAIN f.adapters : ModelInput(f.adapters[i]) # {}
Inputs(f) == UNION {ModelInput(f.adapters[i]) : i \in DOMAIN f.adapters}
Hashes(f) == {ConfigHash(m) : m \in Inputs(f)}

\* preview_v0049_model_config: the models of the file, each once, and which of
\* them the store has.
Preview(i) ==
    /\ task = "import" /\ import[i].at = "new"
    /\ import' = [import EXCEPT ![i] =
         IF Loaded(file)
         THEN [@ EXCEPT !.at = "insert", !.total = Cardinality(Hashes(file)),
                        !.missing = Hashes(file) \ models]
         ELSE [@ EXCEPT !.at = "failed"]]
    /\ UNCHANGED <<upgradeVars, file, models, created, deleted>>

\* create_models_if_missing: one transaction that leaves alone what is there.
CreatedIfMissing(missing) == missing \ models

\* import_v0049_model_config, after its preview.
Insert(i) ==
    LET new == CreatedIfMissing(import[i].missing) IN
    /\ import[i].at = "insert"
    /\ models' = models \cup new
    /\ created' = created + Cardinality(new)
    /\ import' = [import EXCEPT ![i].at = "done", ![i].imported = Cardinality(new)]
    /\ UNCHANGED <<upgradeVars, file, deleted>>

\* The transaction fails and leaves nothing.
InsertFails(i) ==
    /\ import[i].at = "insert"
    /\ import' = [import EXCEPT ![i].at = "failed"]
    /\ UNCHANGED <<upgradeVars, file, models, created, deleted>>

\* Meanwhile the user deletes a model or adds one that the file has as well.
EditModels ==
    /\ task = "import"
    /\ \E h \in Hashes(file) :
         /\ models' = (models \ {h}) \cup ({h} \ models)
         /\ deleted' = deleted \cup ({h} \cap models)
    /\ UNCHANGED <<upgradeVars, file, import, created>>

Next ==
    \/ \E p \in Processes :
         \/ Connect(p) \/ Run(p) \/ ValidateInvalid(p) \/ BeginStage(p) \/ Apply(p)
         \/ ValidateAll(p) \/ StateUnreadable(p) \/ StageFails(p) \/ Exit(p)
    \/ \E i \in 1 .. MaxImports : Preview(i) \/ Insert(i) \/ InsertFails(i)
    \/ EditModels

Spec == Init /\ [][Next]_vars

-----------------------------------------------------------------------------
(* Properties. *)

\* Whichever builds open a database, one after the other or at once, and wherever
\* they stop: every migration changes the schema once, in order, and has its row;
\* a store that is open has all of its build's.
MigrationsRunOnce ==
    /\ \A v \in Version : runs[v] = IF v \in DOMAIN history THEN 1 ELSE 0
    /\ \A v \in DOMAIN history : v > 1 => v - 1 \in DOMAIN history
    /\ \A p \in Processes :
         process[p].at = "up" => 1 .. process[p].build \subseteq DOMAIN history

\* A history that a shipped build wrote, in either line endings and with either
\* script of the changed version, is refused only by a build that lacks a version
\* of it; what is added to it stays acceptable.
HistoryAccepted ==
    \A p \in Processes :
      process[p].at \in {"invalid", "refused"} => \E v \in DOMAIN history : v > process[p].build

\* "never rewrite history" (migrations.rs): a row stays as it was recorded.
HistoryStep ==
    \A v \in DOMAIN history : v \in DOMAIN history' /\ history'[v] = history[v]

\* An import adds what the file has and the store lacks, each model once whatever
\* another import or the user adds meanwhile, and says how much: afterwards the
\* store lacks only what the user deleted.  A model is asked in the protocol of the
\* path it is sent to.
ImportIsExact ==
    /\ \A i \in 1 .. MaxImports :
         /\ import[i].imported <= import[i].total
         /\ import[i].at = "failed" => import[i].imported = 0
         /\ import[i].at = "done" => Hashes(file) \subseteq models \cup deleted
    /\ created = MapThenSumSet(LAMBDA i : import[i].imported, 1 .. MaxImports)
    /\ \A m \in Inputs(file) :
         m.full /\ m.type = "openai" /\ Detected(m.path) # {} => m.protocol \in Detected(m.path)

=============================================================================
