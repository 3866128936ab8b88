--------------------------------- MODULE Catalog ---------------------------------
(***************************************************************************)
(* From a model name to a runtime: the authoritative registry file          *)
(* (registry.py, Runtime._load_registry), the router (routing.py), the      *)
(* external path bound to a request between its resolution and its          *)
(* dispatch, and what the model lists show.  Registry file, routes and disk *)
(* change under the requests.                                               *)
(***************************************************************************)
EXTENDS ExternalModels

CONSTANTS
    Calls,          \* inference requests
    Plain,          \* names that are no external id, as public ids without suffix
    GgufFile,       \* those of them that end in .gguf
    RegistryFiles,  \* what the registry file may hold: [state, models]
    Loaded,         \* per runtime kind, the model id it reports
    StoreListed,    \* ids the model store advertises
    AdapterSets,    \* kinds the application may register at start; the stub always is
    Managed         \* kinds whose server whooshd starts itself

Engines == {"mlx_lm", "mlx_vlm", "llama_cpp"}
Kinds0 == {"stub", "mlx_lm", "mlx_lm_server", "mlx_vlm", "llama_cpp"}
EngineKind == [e \in Engines |-> IF e = "mlx_lm" THEN "mlx_lm_server" ELSE e]

PublicIds == {PublicId(Repos[i], Quant[Files[j]]) : i \in DOMAIN Repos, j \in DOMAIN Files}
             \cup {PublicId(Repos[i], None) : i \in DOMAIN Repos}
Names == PublicIds \cup Plain

NoPath == [root |-> None, file |-> None, repo |-> None, format |-> None]

\* What the schema of the registry file lets through, and the kinds there are.
ASSUME CatalogAssumption ==
    /\ \A f \in RegistryFiles : \A m \in DOMAIN f.models : f.models[m].engine \in Engines
    /\ \A s \in AdapterSets : s \subseteq Kinds0

VARIABLES
    explicit,   \* whether WHOOSHD_MODEL_REGISTRY_PATH is set
    stubOnly,   \* whether the configured backend is the stub
    file,       \* the registry file
    cache,      \* Runtime._registry
    adapters,   \* kinds registered with the router
    call,       \* per request: [pc, model, kind, source, found]
    bound,      \* per request and kind, the external path of its context
    sent        \* per request, what its adapter was told to run

catVars == <<shelf, mounted, moves, explicit, stubOnly, file, cache, adapters, call, bound, sent>>

------------------------------------------------------------------------------
(* The registry.                                                            *)

ValidateRegistryEntry(e) ==
    /\ (e.format = "gguf") = (e.engine = "llama_cpp")
    /\ e.vision => e.engine = "mlx_vlm"

Unread == [state |-> "unread", models |-> << >>]
Failed == [state |-> "failed", models |-> << >>]

LoadModelRegistry(f) ==
    IF f.state = "ok" /\ \A m \in DOMAIN f.models : ValidateRegistryEntry(f.models[m]) THEN f ELSE Failed

\* Runtime._load_registry: the first outcome, good or bad, is kept.
LoadRegistry == IF cache = Unread /\ explicit THEN LoadModelRegistry(file) ELSE cache

------------------------------------------------------------------------------
(* The router.                                                              *)

Refused == [kind |-> "refused", source |-> "none", found |-> NoPath, resolved |-> PublicId(None, None)]

\* RuntimeRouter._resolution
Resolution(kind, m, source, found) ==
    [kind |-> kind, source |-> source, found |-> found,
     resolved |-> IF Loaded[kind].repo # None THEN Loaded[kind] ELSE m]

\* Faulty variant: the registry's entry is used whether it is enabled or not.
ViaRegistryAny(reg, m) ==
    IF m \in DOMAIN reg.models /\ EngineKind[reg.models[m].engine] \in adapters
    THEN Resolution(EngineKind[reg.models[m].engine], m, "authoritative_registry", NoPath)
    ELSE Refused

ViaRegistry(reg, m) ==
    IF /\ m \in DOMAIN reg.models /\ reg.models[m].enabled
       /\ EngineKind[reg.models[m].engine] \in adapters
    THEN Resolution(EngineKind[reg.models[m].engine], m, "authoritative_registry", NoPath)
    ELSE Refused

Listing(m) == {e \in ListExternalModelInventory : e.id = m}

\* _resolve_external_model, for a name the inventory lists.
ResolveExternalModel(e) ==
    LET found == ResolveExternalRuntimeModel(e)
        kind == IF e.runtime = "mlx_lm" THEN "mlx_lm_server" ELSE e.runtime
    IN  IF found.status # "found" \/ kind \notin adapters THEN Refused
        ELSE Resolution(kind, e.id, "external_route",
                        [root |-> found.root, file |-> found.file, repo |-> e.id.repo, format |-> e.format])

NonStub == adapters \ {"stub"}

ByHeuristics(m) ==
    LET reporting == {k \in adapters : Loaded[k].repo # None /\ Loaded[k] = m}
    IN  IF m \in GgufFile
        THEN IF "llama_cpp" \in adapters THEN Resolution("llama_cpp", m, "format_heuristic", NoPath) ELSE Refused
        ELSE IF reporting # {} THEN Resolution(CHOOSE k \in reporting : TRUE, m, "loaded_model_match", NoPath)
        ELSE IF stubOnly /\ "stub" \in adapters THEN Resolution("stub", m, "configured_stub", NoPath)
        ELSE IF Cardinality(NonStub) = 1
        THEN Resolution(CHOOSE k \in NonStub : TRUE, m, "single_runtime_compatibility", NoPath)
        ELSE IF adapters = {"stub"} THEN Resolution("stub", m, "stub_only_compatibility", NoPath)
        ELSE Refused

ResolveModelRuntime(reg, m) ==
    IF explicit THEN ViaRegistry(reg, m)
    ELSE IF Listing(m) # {} THEN ResolveExternalModel(CHOOSE e \in Listing(m) : TRUE)
    ELSE ByHeuristics(m)

------------------------------------------------------------------------------
(* The model lists.                                                         *)

\* build_openai_model_list: built-in names, then the store's, then external ones,
\* each skipping the names already there.  An empty registry counts as none.
BuiltIn(reg) ==
    IF explicit /\ reg.models # << >> THEN {m \in DOMAIN reg.models : reg.models[m].enabled}
    ELSE IF explicit /\ reg = Failed THEN {}
    ELSE {Loaded[k] : k \in IF NonStub = {} THEN {"stub"} ELSE NonStub}

AppendRegisteredModels(ids) == {[id |-> m, source |-> "registered"] : m \in StoreListed \ ids}

AppendExternalModels(ids) ==
    {[id |-> e.id, source |-> "external"] : e \in {x \in ListExternalModelInventory : x.id \notin ids}}

BuildModelList(reg) ==
    LET base == BuiltIn(reg)
    IN  {[id |-> m, source |-> "built_in"] : m \in base} \cup AppendRegisteredModels(base)
        \cup AppendExternalModels(base \cup StoreListed)

------------------------------------------------------------------------------
Fresh == [pc |-> "new", model |-> PublicId(None, None), kind |-> "refused", source |-> "none", found |-> NoPath]
Nothing == [kind |-> None, path |-> NoPath]

CatTypeOK ==
    /\ explicit \in BOOLEAN /\ stubOnly \in BOOLEAN /\ file \in RegistryFiles
    /\ cache \in RegistryFiles \cup {Unread, Failed} /\ adapters \subseteq Kinds0
    /\ \A c \in Calls : /\ call[c].pc \in {"new", "resolved", "refused", "done"}
                        /\ call[c].kind \in Kinds0 \cup {"refused"}
                        /\ DOMAIN bound[c] = Kinds0

\* Without a registry path the registry file plays no part, and with one the
\* configured backend does not.
CatInit ==
    /\ DiskInit /\ explicit \in BOOLEAN /\ stubOnly \in BOOLEAN /\ file \in RegistryFiles
    /\ (explicit => ~stubOnly) /\ (~explicit => file.state = "absent")
    /\ cache = Unread /\ adapters \in AdapterSets
    /\ call = [c \in Calls |-> Fresh] /\ bound = [c \in Calls |-> [k \in Kinds0 |-> NoPath]]
    /\ sent = [c \in Calls |-> Nothing]

\* Faulty variant: the path is an attribute of the adapter, shared by all requests.
SetExternalPathShared(c, kind, path) == bound' = [x \in Calls |-> [bound[x] EXCEPT ![kind] = path]]

\* set_external_model_path on an adapter: a ContextVar, so of this request only.
SetExternalPath(c, kind, path) == bound' = [bound EXCEPT ![c][kind] = path]

Resolve(c, m) ==
    /\ call[c].pc = "new" /\ cache' = LoadRegistry
    /\ LET r == ResolveModelRuntime(LoadRegistry, m)
       IN  /\ call' = [call EXCEPT ![c] = [pc |-> IF r.kind = "refused" THEN "refused" ELSE "resolved",
                                           model |-> m, kind |-> r.kind, source |-> r.source, found |-> r.found]]
           /\ IF r.found # NoPath THEN SetExternalPath(c, r.kind, r.found) ELSE UNCHANGED bound
    /\ UNCHANGED <<shelf, mounted, moves, explicit, stubOnly, file, adapters, sent>>

\* The adapter forwards its effective path, and clears the binding at the end; a
\* managed llama.cpp server refuses a bound path.
Dispatch(c) ==
    /\ call[c].pc = "resolved"
    /\ LET kind == call[c].kind
       IN  /\ IF kind = "llama_cpp" /\ kind \in Managed /\ bound[c][kind] # NoPath
              THEN UNCHANGED sent
              ELSE sent' = [sent EXCEPT ![c] = [kind |-> kind, path |-> bound[c][kind]]]
           /\ bound' = [bound EXCEPT ![c][kind] = NoPath]
    /\ call' = [call EXCEPT ![c].pc = "done"]
    /\ UNCHANGED <<shelf, mounted, moves, explicit, stubOnly, file, cache, adapters>>

\* RuntimeRouter.register and unregister.
RegisterAdapter(k) ==
    /\ moves < MaxMoves /\ moves' = moves + 1 /\ k # "stub"
    /\ adapters' = IF k \in adapters THEN adapters \ {k} ELSE adapters \cup {k}
    /\ UNCHANGED <<shelf, mounted, explicit, stubOnly, file, cache, call, bound, sent>>

EditRegistry(f) ==
    /\ moves < MaxMoves /\ moves' = moves + 1 /\ explicit /\ f # file /\ file' = f
    /\ UNCHANGED <<shelf, mounted, explicit, stubOnly, cache, adapters, call, bound, sent>>

CatNext ==
    \/ DiskNext /\ UNCHANGED <<explicit, stubOnly, file, cache, adapters, call, bound, sent>>
    \/ \E c \in Calls, m \in Names : Resolve(c, m)
    \/ \E c \in Calls : Dispatch(c)
    \/ \E k \in Kinds0 : RegisterAdapter(k)
    \/ \E f \in RegistryFiles : EditRegistry(f)

CatSpec == CatInit /\ [][CatNext]_catVars

------------------------------------------------------------------------------
\* With a registry configured, a request reaches a runtime only for a model the
\* registry that was loaded has enabled, on the runtime of its engine, with weights
\* of a format that runtime reads and a vision model only on the vision runtime;
\* nothing on the disk, no loaded model and no fallback gets around it.
RegistryIsAuthoritative ==
    \A c \in Calls : explicit /\ sent[c] # Nothing =>
        /\ cache.state = "ok" /\ call[c].model \in DOMAIN cache.models
        /\ LET e == cache.models[call[c].model]
           IN  /\ e.enabled /\ sent[c].kind = EngineKind[e.engine]
               /\ (e.format = "gguf") = (sent[c].kind = "llama_cpp")
               /\ e.vision => sent[c].kind = "mlx_vlm"

\* What an adapter runs for a request is the path that very request's resolution
\* found, whatever other requests resolved in between, and a server whooshd loaded
\* with its own model never runs an external one.
BindingIsOwn ==
    \A c \in Calls : sent[c] # Nothing =>
        /\ sent[c].path = call[c].found
        /\ ~(sent[c].kind = "llama_cpp" /\ "llama_cpp" \in Managed /\ sent[c].path # NoPath)

\* One entry per name in the model lists, and a name the registry knows is listed
\* as the registry's, whatever the store and the routes hold under it.
ListedOnce ==
    \A a, b \in BuildModelList(LoadRegistry) :
        /\ a.id = b.id => a = b
        /\ a.id \in BuiltIn(LoadRegistry) => a.source = "built_in"

\* A file that answers to a quantization under which the inventory does not list it:
\* it is hidden, or that of another file occurs in its name.
Stray(name, suffix) == name \in Hidden \/ Quant[name] # suffix

\* A public id the inventory lists, once resolved, leads to the root and the file
\* it was listed for, wherever the same repository lies twice and whatever was
\* mounted or moved, if a GGUF repository has GGUF in its name.  Two things come
\* between, and no other: a stray file that _validate_gguf meets first, and a listed
\* file whose name does not contain its own id, which gives way to a namesake beside it.
ListedIsServed ==
    \A e \in ListExternalModelInventory :
        LET found == ResolveExternalRuntimeModel(e)
        IN  found.status = "found" /\ (e.format = "gguf" => e.id.repo \in GgufNamed)
            => \/ found.root = e.root /\ found.file = e.file
               \/ e.format = "gguf" /\ Stray(found.file, e.id.suffix)
               \/ /\ e.format = "gguf" /\ e.id.suffix \notin Spells[e.file]
                  /\ found.root = e.root

\* The lists can be relied on as far as ListedIsServed says: a name stands there
\* once, for what it will be resolved to.
ListingsHonest == ListedOnce /\ ListedIsServed
================================================================================
