------------------------------- MODULE MCOffline -------------------------------
(***************************************************************************)
(* The parts of whooshd that never share state with one another: snapshot   *)
(* planning, the KV event ring, the model store, the model catalogue, the   *)
(* context policy, one forwarded exchange, the command line and the batch   *)
(* analysis.  A behaviour exercises one of them, the others stay as they    *)
(* were at start.                                                           *)
(***************************************************************************)
EXTENDS Snapshots, KVLifecycle, ModelStore, Catalog, ContextPolicy, Forwarding, Daemon, Batching

VARIABLE focus      \* the part this behaviour exercises

offVars == <<snapVars, ringVars, storeVars, catVars, ctxVars, fwdVars, dmnVars, batVars, focus>>

\* The parts out of focus have one initial state each.
MCInit ==
    /\ focus \in {"snapshots", "ring", "store", "catalog", "context", "forwarding", "daemon",
                 "batching"}
    /\ SnapInit /\ RingInit /\ CtxInit /\ DmnInit
    /\ focus # "snapshots" => conn
    /\ StoreInit
    /\ focus # "store" =>
          /\ source = [p \in Paths |-> CHOOSE s \in Sources : TRUE]
          /\ ~dirs
    /\ CatInit
    /\ focus # "catalog" =>
          /\ explicit /\ file.state = "absent"
          /\ adapters = {"stub"} /\ shelf = [r \in Roots |-> << >>]
    /\ FwdInit
    /\ focus # "forwarding" =>
          exchange = CHOOSE x \in {[pc |-> "new", kind |-> k, stream |-> TRUE, fields |-> {}, body |-> {}, answer |-> 0] :
                                    k \in AdapterKinds} : TRUE
    /\ BatInit
    /\ focus # "batching" => input = CHOOSE l \in CandidateLists : TRUE

MCNext ==
    /\ UNCHANGED focus
    /\ \/ focus = "snapshots" /\ SnapNext /\ UNCHANGED <<ringVars, storeVars, catVars, ctxVars, fwdVars, dmnVars, batVars>>
       \/ focus = "ring" /\ RingNext /\ UNCHANGED <<snapVars, storeVars, catVars, ctxVars, fwdVars, dmnVars, batVars>>
       \/ focus = "store" /\ StoreNext /\ UNCHANGED <<snapVars, ringVars, catVars, ctxVars, fwdVars, dmnVars, batVars>>
       \/ focus = "catalog" /\ CatNext /\ UNCHANGED <<snapVars, ringVars, storeVars, ctxVars, fwdVars, dmnVars, batVars>>
       \/ focus = "context" /\ CtxNext /\ UNCHANGED <<snapVars, ringVars, storeVars, catVars, fwdVars, dmnVars, batVars>>
       \/ focus = "forwarding" /\ FwdNext /\ UNCHANGED <<snapVars, ringVars, storeVars, catVars, ctxVars, dmnVars, batVars>>
       \/ focus = "daemon" /\ DmnNext /\ UNCHANGED <<snapVars, ringVars, storeVars, catVars, ctxVars, fwdVars, batVars>>
       \/ focus = "batching" /\ BatNext
          /\ UNCHANGED <<snapVars, ringVars, storeVars, catVars, ctxVars, fwdVars, dmnVars>>

MCSpec == MCInit /\ [][MCNext]_offVars

TypeOK == SnapTypeOK /\ RingTypeOK /\ StoreTypeOK /\ CatTypeOK /\ CtxTypeOK
          /\ FwdTypeOK /\ DmnTypeOK /\ BatTypeOK

------------------------------------------------------------------------------
(* Snapshots: a prompt, one that extends it, and an estimated tokenization.  *)

MCTokenized ==
    {[model |-> "m", real |-> TRUE, tokens |-> <<1, 2>>], [model |-> "m", real |-> TRUE, tokens |-> <<1, 2, 3>>],
     [model |-> "n", real |-> FALSE, tokens |-> <<1, 2>>]}

(* Store: a text model, a vision model and a GGUF file at paths of one name.  *)

Artifact(kind, files, hints, words) ==
    [kind |-> kind, files |-> files, hints |-> hints, readable |-> TRUE, words |-> words]
MCSources ==
    {Artifact("dir", {"tokenizer", "weights"}, {}, << >>),
     Artifact("dir", {"config", "weights"}, {"vision_config", "artifact"}, <<{}, {"qwen"}, {"llama"}>>),
     Artifact("gguf", {}, {}, << >>)}
MCStem == [p \in {"m", "m2"} |-> "a"]
MCNameWords == [p \in {"m", "m2"} |-> {"llama"}]
MCCut == [i \in {"a", "a1", "bad"} |-> IF i = "a1" THEN "a" ELSE i]

(* Catalogue: one GGUF repository on two roots, in part or as other formats.  *)

Bare(name) == PublicId(name, None)
MCRoutes == <<[root |-> "nas", enabled |-> TRUE, priority |-> 100], [root |-> "ssd", enabled |-> TRUE, priority |-> 10]>>
MCRepos == <<"p/m-GGUF">>
MCFiles == <<"._m-Q4_K_M", "m-Q4_K_M", "m-Q8_0">>
MCQuant == [f \in Range(MCFiles) |-> IF f = "m-Q8_0" THEN "Q8_0" ELSE "Q4_K_M"]
MCSpells == [f \in Range(MCFiles) |-> {MCQuant[f]}]
MCPlain == {Bare("chat"), Bare("w.gguf")}
MCGgufFile == {Bare("w.gguf")}
MCLoaded ==
    [k \in Kinds0 |-> Bare(CASE k = "mlx_lm_server" -> "chat" [] k = "stub" -> "stub" [] OTHER -> None)]
Registered0(engine, format, vision, enabled) ==
    [engine |-> engine, format |-> format, vision |-> vision, enabled |-> enabled]
MCRegistryFiles ==
    {[state |-> "absent", models |-> << >>],
     [state |-> "ok", models |-> (Bare("chat") :> Registered0("mlx_lm", "mlx", FALSE, FALSE))
                              @@ (Bare("w.gguf") :> Registered0("llama_cpp", "gguf", FALSE, TRUE))],
     [state |-> "ok", models |-> (Bare("chat") :> Registered0("mlx_vlm", "mlx", TRUE, TRUE))
                              @@ (PublicId("p/m-GGUF", "Q8_0") :> Registered0("mlx_lm", "mlx", TRUE, TRUE))]}
MCStoreListed == {Bare("chat"), PublicId("p/m-GGUF", "Q8_0")}
MCShelves ==
    {[r \in {"nas", "ssd"} |-> << >>],
     ("nas" :> (<<"gguf", "p/m-GGUF">> :> {"m-Q4_K_M", "m-Q8_0"})) @@ ("ssd" :> (<<"gguf", "p/m-GGUF">> :> {"m-Q4_K_M"})),
     ("nas" :> (<<"safetensors", "p/m-GGUF">> :> {"weights.safetensors"})) @@ ("ssd" :> (<<"mlx", "p/m-GGUF">> :> {"config.json"}))}

(* Context: profiles of this model, of another spelling of it, of another     *)
(* runtime and of another host, and requests around their budgets.            *)

Room0(hard, recommended, maxIn, maxOut, media) ==
    [hard |-> hard, recommended |-> recommended, interactive |-> 1, maxIn |-> maxIn, maxOut |-> maxOut, media |-> media]
Profile0(model, runtime, memory, budgets) ==
    [model |-> model, runtime |-> runtime, machine |-> "m3", memory |-> memory, budgets |-> budgets]
MCProfiles ==
    {Profile0("org/a", "mlx", Off, Room0(4, 3, Off, Off, 2)), Profile0("cache/a", "mlx", 64, Room0(6, Off, 3, 2, Off)),
     Profile0("org/a", "llama", Off, Room0(1, Off, Off, Off, Off)), Profile0("a", "mlx", 32, Room0(1, Off, Off, Off, Off)),
     Profile0("a", "mlx", 64, Room0(1, Off, Off, 0, Off))}
MCIdentity ==
    [m \in {"org/a", "cache/a", "a"} |-> [repo |-> IF m = "a" THEN Unnamed ELSE "org/a", name |-> "a"]]
MCHost == [runtime |-> "mlx", machine |-> "m3", memory |-> 64]
MCAsks ==
    [route : {"chat"}, model : {"org/a", "a"}, text : {1, 9}, structured : {0}, media : {0, 1},
     maxTokens : {Off, 1}, maxCompletion : {Off, 3}]
    \cup [route : {"chat"}, model : {"org/a"}, text : {1}, structured : {5}, media : {0},
          maxTokens : {Off}, maxCompletion : {Off, 3}]
    \cup [route : {"generate"}, model : {"org/a", "a"}, text : {1, 9}, structured : {0}, media : {0},
          maxTokens : {Off, 3}, maxCompletion : {Off}]

(* Forwarding: a canonical field, an extension of one adapter, a control name *)
(* and a null.                                                               *)

Field0(name, class, extension, null) == [name |-> name, class |-> class, extension |-> extension, null |-> null]
MCFieldSets ==
    SUBSET {Field0("temperature", "canonical", {}, FALSE), Field0("seed", "canonical", {}, TRUE),
            Field0("top_k", "inference", {"llama_cpp"}, FALSE), Field0("trace_id", "internal", {}, FALSE)}

(* Batching: a short and a long request, a streaming one, another model.      *)

Queued0(model, stream, tokens) ==
    [model |-> model, backend |-> "none", stream |-> stream, image |-> FALSE, sampling |-> "none", tokens |-> tokens]
MCCandidateLists ==
    [1..4 -> {Queued0("a", FALSE, 1), Queued0("a", FALSE, 3), Queued0("a", TRUE, 1), Queued0("b", FALSE, 1)}]
================================================================================
