---------------------------- MODULE ModelCatalog ----------------------------
(***************************************************************************)
(* The configured models: the rows of model_configs and the operations of  *)
(* the control API on them (store/models.rs), the picker Cursor shows from *)
(* them (services/model_catalog.rs), the decoding of the variant a run     *)
(* asks for (compile/model.rs), and the specification that reaches the     *)
(* provider after a saved model has been applied to it, once when the run  *)
(* is prepared and once more by the router (model/configuration.rs).       *)
(*                                                                         *)
(* The rows may change between any two of these steps; the picker is a     *)
(* copy that Cursor refreshes when it likes.  An optional value is a set   *)
(* of at most one element.                                                 *)
(***************************************************************************)
EXTENDS Integers, Sequences, FiniteSets

CONSTANTS
    Menu,         \* the context sizes every model offers, as <<number, unit>>
    Efforts,      \* the efforts of the menu other than "default"
    Batches,      \* batches of configurations the settings page may save
    Limits,       \* output limits an external API request may name
    MaxIds,       \* bound on the models created
    MaxEdits      \* bound on the writes of the settings page

VARIABLES
    rows,         \* id -> saved configuration: the table model_configs
    lastId,       \* the last generated id
    commit,       \* model of the commit settings; 0 when requests go direct
    picker,       \* id -> configuration as last published to Cursor
    sorting,      \* order a reorder request has checked and not yet written
    call,         \* the model call in progress
    edits,
    staleSave     \* the commit settings were saved naming no present model

catalogVars ==
    <<rows, lastId, commit, picker, sorting, call, edits, staleSave>>

Or(a, b) == IF a # {} THEN a ELSE b

Min2(a, b) == IF a <= b THEN a ELSE b
Max2(a, b) == IF a >= b THEN a ELSE b

DefaultContext == 200000
DefaultMaxOutput == 65000
CommitMaxOutput == 30000
MinBudget == 1024

ParseTokenCount(written) == written[1] * written[2]

-----------------------------------------------------------------------------
(* Saving a configuration.                                                 *)

\* The output limit the saved model's provider reads.
MaxOutputTokens(cfg) == cfg.limit

NormalizeEffort(in) ==
    IF ~in.thinking THEN {}
    ELSE IF in.kind = "openai" THEN in.effort ELSE Or(in.effort, {"xhigh"})

\* Fields the chosen provider has no use for are cleared.
Normalized(in) ==
    [in EXCEPT !.effort = NormalizeEffort(in),
               !.fast   = in.kind = "openai" /\ @,
               !.budget = IF in.thinking THEN @ ELSE {}]

BudgetValid(in) ==
    \A b \in Normalized(in).budget : in.kind = "anthropic" =>
        /\ b >= MinBudget
        /\ \A l \in Or(MaxOutputTokens(in), {DefaultMaxOutput}) : b < l

Valid(in) ==
    /\ in.key # ""
    /\ 0 \notin in.window \cup in.limit \cup Normalized(in).budget
    /\ BudgetValid(in)

\* The digest is taken to be free of collisions.
ConfigHash(cfg) == <<cfg.name, cfg.kind, cfg.key>>

Conflicts(rs, id, cfg) ==
    \E other \in DOMAIN rs \ {id} : ConfigHash(rs[other]) = ConfigHash(cfg)

PutRow(rs, id, cfg) ==
    [i \in DOMAIN rs \cup {id} |-> IF i = id THEN cfg ELSE rs[i]]

Init ==
    /\ rows = <<>>
    /\ lastId = 0
    /\ commit = 0
    /\ picker = <<>>
    /\ sorting = <<>>
    /\ call = [at |-> "idle"]
    /\ edits = 0
    /\ staleSave = FALSE

Edit ==
    /\ edits < MaxEdits
    /\ edits' = edits + 1

\* create_models: all or none; the first conflict rolls the batch back.
CreateModels(batch) ==
    /\ Edit
    /\ lastId + Len(batch) <= MaxIds
    /\ \A i \in DOMAIN batch : Valid(batch[i])
    /\ Cardinality({ConfigHash(Normalized(batch[i])) : i \in DOMAIN batch})
         = Len(batch)
    /\ \A i \in DOMAIN batch : ~Conflicts(rows, 0, Normalized(batch[i]))
    /\ rows' = [id \in DOMAIN rows \cup (lastId + 1 .. lastId + Len(batch)) |->
                  IF id \in DOMAIN rows THEN rows[id]
                  ELSE Normalized(batch[id - lastId])]
    /\ lastId' = lastId + Len(batch)
    /\ UNCHANGED <<commit, picker, sorting, call, staleSave>>

\* create_models_if_missing: the import of an old configuration file, which
\* skips what is already there.
InsertMissing(rs, id, in) ==
    IF Conflicts(rs, 0, Normalized(in)) THEN rs
    ELSE PutRow(rs, id, Normalized(in))

ImportModels(batch) ==
    /\ Edit
    /\ lastId + Len(batch) <= MaxIds
    /\ \A i \in DOMAIN batch : Valid(batch[i])
    /\ LET Inserted[i \in 0 .. Len(batch)] ==
             IF i = 0 THEN rows
             ELSE InsertMissing(Inserted[i - 1], lastId + i, batch[i])
       IN  rows' = Inserted[Len(batch)]
    /\ lastId' = lastId + Len(batch)
    /\ UNCHANGED <<commit, picker, sorting, call, staleSave>>

\* update_models, one row of the batch: the empty set is a failed transaction.
WithStoredKey(in, cfg) == IF in.key = "" THEN [in EXCEPT !.key = cfg.key] ELSE in

UpdateRow(done, id, in) ==
    UNION {IF id \notin DOMAIN rs THEN {}
           ELSE LET full == WithStoredKey(in, rs[id]) IN
                IF ~Valid(full) \/ Conflicts(rs, id, Normalized(full)) THEN {}
                ELSE {PutRow(rs, id, Normalized(full))}
           : rs \in done}

UpdateModels(ids, batch) ==
    /\ Edit
    /\ Len(ids) = Len(batch)
    /\ Cardinality({ids[i] : i \in DOMAIN ids}) = Len(ids)
    /\ LET Updated[i \in 0 .. Len(batch)] ==
             IF i = 0 THEN {rows} ELSE UpdateRow(Updated[i - 1], ids[i], batch[i])
       IN  \E rs \in Updated[Len(batch)] : rows' = rs
    /\ UNCHANGED <<lastId, commit, picker, sorting, call, staleSave>>

\* delete_model: the commit settings stop naming the model in the same
\* transaction.
DeleteModel(id) ==
    /\ Edit
    /\ id \in DOMAIN rows
    /\ commit' = IF commit = id THEN 0 ELSE commit
    /\ rows' = [i \in DOMAIN rows \ {id} |-> rows[i]]
    /\ UNCHANGED <<lastId, picker, sorting, call, staleSave>>

\* reorder_models compares the request with the table before it takes the
\* write lock, and numbers the rows that are still there afterwards.
CheckOrder(order) ==
    /\ sorting = <<>>
    /\ Len(order) > 1
    /\ Len(order) = Cardinality(DOMAIN rows)
    /\ {order[i] : i \in DOMAIN order} = DOMAIN rows
    /\ sorting' = order
    /\ UNCHANGED <<rows, lastId, commit, picker, call, edits, staleSave>>

Position(id, order) == CHOOSE i \in DOMAIN order : order[i] = id

OrderLast(rs, order) ==
    [id \in DOMAIN rs |->
       IF \E i \in DOMAIN order : order[i] = id
       THEN [rs[id] EXCEPT !.order = Len(order)] ELSE rs[id]]

Ordered(rs, order) ==
    [id \in DOMAIN rs |->
       IF \E i \in DOMAIN order : order[i] = id
       THEN [rs[id] EXCEPT !.order = Position(id, order)] ELSE rs[id]]

WriteOrder ==
    /\ sorting # <<>>
    /\ rows' = Ordered(rows, sorting)
    /\ sorting' = <<>>
    /\ UNCHANGED <<lastId, commit, picker, call, edits, staleSave>>

\* set_commit_settings does not look whether the model is still there.
SaveCommit(id) ==
    /\ Edit
    /\ commit' = id
    /\ staleSave' = (id \notin DOMAIN rows \cup {0})
    /\ UNCHANGED <<rows, lastId, picker, sorting, call>>

-----------------------------------------------------------------------------
(* Publishing the models.                                                  *)

ContextOptions(window) ==
    Menu \cup {<<w, 1>> : w \in {x \in window :
                                  \A m \in Menu : ParseTokenCount(m) # x}}

\* model_parameters: what Cursor lets the user choose, by the values of each parameter.
ModelParameters(contexts, thinking, fast) ==
    [context |-> {{c} : c \in contexts},
     effort  |-> IF thinking THEN {{e} : e \in Efforts \cup {"default"}} ELSE {{}},
     fast    |-> IF fast THEN {{TRUE}, {FALSE}} ELSE {{}}]

\* model_variant: the values of the parameters, the slug, in which a variant that is not
\* fast is one without the parameter, and whether it is a default by itself.
ModelVariant(context, effort, fast) ==
    [context |-> context, effort |-> effort, fast |-> fast,
     slug    |-> <<context, effort, TRUE \in fast>>,
     default |-> ParseTokenCount(context) = DefaultContext /\ TRUE \notin fast /\ effort \subseteq {"high"}]

\* The grid of variants: what a model does not support is no parameter of it.
VariantGrid(contexts, thinking, fast) ==
    {ModelVariant(c, e, f) : c \in contexts,
                             e \in IF thinking THEN {{e} : e \in Efforts \cup {"default"}} ELSE {{}},
                             f \in IF fast THEN {{TRUE}, {FALSE}} ELSE {{}}}

ModelVariants(cfg) == VariantGrid(ContextOptions(cfg.window), cfg.thinking, cfg.fast)

IsDefault(cfg, v) ==
    /\ \A w \in Or(cfg.window, {DefaultContext}) : ParseTokenCount(v.context) = w
    /\ v.effort \subseteq Or(cfg.effort, {"default"})
    /\ TRUE \notin v.fast

\* A saved model as it is published: its default is the one that was saved.
AvailableModel(cfg) ==
    [parameters |-> ModelParameters(ContextOptions(cfg.window), cfg.thinking, cfg.fast),
     variants   |-> {[v EXCEPT !.default = IsDefault(cfg, v)] : v \in ModelVariants(cfg)}]

\* A plugin's model, of which nothing but its images is known.
AvailablePluginModel ==
    [parameters |-> ModelParameters(ContextOptions({}), FALSE, FALSE),
     variants   |-> VariantGrid(ContextOptions({}), FALSE, FALSE)]

\* available_models and usable_models list every row, merged into Cursor's
\* own answer or alone when that cannot be had.
RefreshPicker ==
    /\ picker' = rows
    /\ picker' # picker
    /\ UNCHANGED <<rows, lastId, commit, sorting, call, edits, staleSave>>

-----------------------------------------------------------------------------
(* From the variant a run asks for to the provider's request.              *)

NewSpec == [effort |-> {}, enabled |-> FALSE, budget |-> {}, fast |-> FALSE,
            output |-> {}, window |-> {}]

FromRequested(v) ==
    LET effort == v.effort \ {"none", "default", ""} IN
    [NewSpec EXCEPT !.effort  = effort,
                    !.enabled = effort # {},
                    !.fast    = TRUE \in v.fast,
                    !.window  = {ParseTokenCount(v.context)}]

\* The CLI names a model and says only whether it can think.
FromDetails(cfg) == [NewSpec EXCEPT !.enabled = cfg.thinking]

LimitOutput(spec, limit) ==
    [spec EXCEPT !.output =
       IF limit = {} THEN @
       ELSE IF @ = {} THEN limit
       ELSE {Min2(a, b) : a \in spec.output, b \in limit}]

\* configure: the saved model fills in what the request left open, and takes
\* away what the model cannot do.
SavedReasoning(cfg, spec) ==
    LET effort == Or(spec.effort, cfg.effort)
        budget == IF cfg.kind = "anthropic" THEN cfg.budget ELSE {}
    IN  [spec EXCEPT !.effort = effort, !.budget = budget,
                     !.enabled = @ \/ effort # {} \/ budget # {}]

Configure(cfg, spec) ==
    LET limited == LimitOutput(spec, MaxOutputTokens(cfg))
        sized   == [limited EXCEPT !.window = Or(@, cfg.window)]
        thought == IF cfg.thinking THEN SavedReasoning(cfg, sized)
                   ELSE [sized EXCEPT !.effort = {}, !.budget = {}, !.enabled = FALSE]
    IN  [thought EXCEPT !.fast = @ /\ cfg.fast]

ConfigureIfSaved(id, spec) ==
    IF id \in DOMAIN rows THEN Configure(rows[id], spec) ELSE spec

StoredConfig(id) == {rows[i] : i \in DOMAIN rows \cap {id}}

Prepared(kind, id, chosen, spec) ==
    [at |-> "prepared", kind |-> kind, id |-> id, chosen |-> chosen,
     spec |-> spec, saved |-> StoredConfig(id)]

Unchanged == UNCHANGED <<rows, lastId, commit, picker, sorting, edits, staleSave>>

StartRun(id, v) ==
    /\ call.at = "idle"
    /\ call' = Prepared("run", id, {v}, ConfigureIfSaved(id, FromRequested(v)))
    /\ Unchanged

StartCliRun(id) ==
    /\ call.at = "idle"
    /\ call' = Prepared("cli", id, {}, ConfigureIfSaved(id, FromDetails(picker[id])))
    /\ Unchanged

\* default_model and default_model_for_cli name the model listed first, by order
\* and then by name; without any model the question goes to Cursor.
ListedBefore(a, b) == a.order < b.order \/ (a.order = b.order /\ a.name < b.name)

DefaultModels == {id \in DOMAIN rows : \A other \in DOMAIN rows :
                                        ~ListedBefore(rows[other], rows[id])}

StartDefaultRun(id) ==
    /\ call.at = "idle"
    /\ call' = Prepared("cli", id, {}, Configure(rows[id], FromDetails(rows[id])))
    /\ Unchanged

\* test_model leaves room for the answer beside a fixed thinking budget.
ProbeSpec(cfg) ==
    LET spec == Configure(cfg, NewSpec)
        room == {b + 4096 : b \in Or(spec.budget, {0})}
    IN  LimitOutput([spec EXCEPT !.output = room], MaxOutputTokens(cfg))

StartProbe(id) ==
    /\ call.at = "idle"
    /\ call' = Prepared("probe", id, {}, ProbeSpec(rows[id]))
    /\ Unchanged

\* A request of the external API names its own output limit.
StartExternal(id, limit) ==
    /\ call.at = "idle"
    /\ call' = Prepared("external", id, {}, [NewSpec EXCEPT !.output = {limit}])
    /\ Unchanged

\* write_git_commit_message reads the settings, then looks for the model.
ReadCommit ==
    /\ call.at = "idle"
    /\ commit # 0
    /\ call' = [at |-> "settings", id |-> commit]
    /\ Unchanged

EnsureCommit ==
    /\ call.at = "settings"
    /\ call' = IF call.id \in DOMAIN rows
               THEN Prepared("commit", call.id, {},
                             [NewSpec EXCEPT !.output = {CommitMaxOutput}])
               ELSE [at |-> "idle"]
    /\ Unchanged

\* The body of a request to Anthropic: max_tokens and the thinking budget.
MaxTokens(cfg, spec) ==
    CHOOSE m \in Or(Or(spec.output, MaxOutputTokens(cfg)), {DefaultMaxOutput}) : TRUE

ApplyModel(max, budget) ==
    IF budget < MinBudget \/ max <= MinBudget THEN {}
    ELSE {Min2(budget, Max2(max - MinBudget, MinBudget))}

FixedThinking(cfg, spec) ==
    cfg.kind = "anthropic" /\ spec.enabled /\ spec.budget # {}

\* The router reads the row again and applies it to the request.
Route ==
    /\ call.at = "prepared"
    /\ call.id \in DOMAIN rows
    /\ LET cfg  == rows[call.id]
           spec == Configure(cfg, call.spec)
           max  == MaxTokens(cfg, spec)
           wire == IF FixedThinking(cfg, spec)
                   THEN UNION {ApplyModel(max, b) : b \in spec.budget} ELSE {}
       IN  call' = [at |-> "routed", kind |-> call.kind, chosen |-> call.chosen,
                    saved |-> call.saved, cfg |-> cfg, spec |-> spec, max |-> max,
                    budget |-> wire]
    /\ Unchanged

RouteUnknown ==
    /\ call.at = "prepared"
    /\ call.id \notin DOMAIN rows
    /\ call' = [at |-> "idle"]
    /\ Unchanged

Finish ==
    /\ call.at = "routed"
    /\ call' = [at |-> "idle"]
    /\ Unchanged

Next ==
    \/ \E batch \in Batches : CreateModels(batch) \/ ImportModels(batch)
    \/ \E batch \in Batches : \E ids \in [DOMAIN batch -> 1 .. lastId] :
         UpdateModels(ids, batch)
    \/ \E id \in 1 .. lastId : DeleteModel(id)
    \/ \E id \in 0 .. lastId : SaveCommit(id)
    \/ \E order \in [1 .. Cardinality(DOMAIN rows) -> DOMAIN rows] : CheckOrder(order)
    \/ WriteOrder
    \/ RefreshPicker
    \/ \E id \in DOMAIN picker : StartCliRun(id)
    \/ \E id \in DefaultModels : StartDefaultRun(id)
    \/ \E id \in DOMAIN picker : \E v \in ModelVariants(picker[id]) : StartRun(id, v)
    \/ \E id \in DOMAIN rows : StartProbe(id)
    \/ \E id \in DOMAIN rows, limit \in Limits : StartExternal(id, limit)
    \/ ReadCommit \/ EnsureCommit
    \/ Route \/ RouteUnknown \/ Finish

Spec == Init /\ [][Next]_catalogVars

-----------------------------------------------------------------------------
(* Properties.                                                             *)

\* Every published model has exactly one default variant, whatever window and effort were
\* saved for it (available_model); every choice of the parameters it offers is one of its
\* variants, and no two variants have the same slug.
\* (A request under way leaves the published list alone: looked at between requests.)
OneDefault ==
    call.at = "idle" => \A model \in {AvailableModel(picker[id]) : id \in DOMAIN picker} \cup {AvailablePluginModel} :
      /\ Cardinality({v \in model.variants : v.default}) = 1
      /\ {<<{v.context}, v.effort, v.fast>> : v \in model.variants}
           = model.parameters.context \X model.parameters.effort \X model.parameters.fast
      /\ Cardinality({v.slug : v \in model.variants}) = Cardinality(model.variants)

Routed == call.at = "routed"

\* A request never asks the provider for thinking or for the fast tier when
\* the model as routed has none, even if the run chose them from a picker
\* published before the model was edited (configure, ProviderRouter::stream).
CapabilitiesObeyed ==
    Routed =>
      /\ ~call.cfg.thinking => ~call.spec.enabled /\ call.spec.effort = {}
                                 /\ call.spec.budget = {}
      /\ call.spec.fast => call.cfg.fast

\* The variant a run chose is the variant it gets.  The chosen context wins
\* over every saved one; a chosen effort is kept by a model that thinks; the
\* default variant of an unchanged model gives its saved effort and window.
ChoiceObeyed ==
    Routed => \A v \in call.chosen :
      /\ call.spec.window = {ParseTokenCount(v.context)}
      /\ \A cfg \in call.saved :
           /\ cfg.thinking /\ call.cfg.thinking /\ v.effort \cap Efforts # {}
                => call.spec.effort = v.effort
           /\ cfg = call.cfg /\ IsDefault(cfg, v)
                => /\ call.spec.effort = cfg.effort
                   /\ call.spec.window = Or(cfg.window, {DefaultContext})
                   /\ ~call.spec.fast

\* A saved fixed thinking budget never makes the provider refuse a request of
\* the application itself: every check that admits a configuration leaves room
\* between the budget and each limit it meets later (normalize_model_input,
\* apply_connectivity_budget, apply_model).  Only the limit of an external
\* request, or one read before the model was edited, can be too small; and a
\* budget that is sent is always below max_tokens.
BudgetFits ==
    Routed /\ FixedThinking(call.cfg, call.spec) =>
      /\ \A b \in call.budget : MinBudget <= b /\ b < call.max
      /\ call.kind # "external" /\ call.saved = {call.cfg} => call.budget # {}

\* The commit settings never name a deleted model because of the deletion
\* (delete_model); only a save made with an outdated page can leave one there.
CommitModelPresent == commit \in DOMAIN rows \cup {0} \/ staleSave

OrderStep ==
    sorting # <<>> /\ sorting' = <<>> =>
      \A i, j \in DOMAIN sorting :
        i < j /\ {sorting[i], sorting[j]} \subseteq DOMAIN rows' =>
          ListedBefore(rows'[sorting[i]], rows'[sorting[j]])

\* Immediately after a reorder is written the models are listed in the
\* requested order, whatever was created or deleted since it was checked
\* (reorder_models, and the ORDER BY of models).
OrderObeyed == [][OrderStep]_catalogVars

=============================================================================
