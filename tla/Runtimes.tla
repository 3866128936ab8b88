--------------------------------- MODULE Runtimes ---------------------------------
(***************************************************************************)
(* The runtimes behind the broker: the in-process mlx adapter, the          *)
(* mlx_lm.server and mlx-vlm servers (external: no code path gives those   *)
(* adapters a child process), and llama.cpp, whose llama-server child the  *)
(* broker may own; with the warmup and unload endpoints, the model          *)
(* lifecycle they publish, and the per-adapter semaphores.                 *)
(*                                                                         *)
(* Handlers are coroutines of one event loop: an action is the code        *)
(* between two suspensions.  Awaiting a coroutine that never suspends      *)
(* (unload, mlx loading) is no suspension.                                 *)
(***************************************************************************)
EXTENDS Naturals, FiniteSets

CONSTANTS
    Warmups,        \* calls of POST /runtime/model/warmup
    Requests,       \* requests dispatched to a runtime
    Lanes,          \* the lanes requests use
    Kinds,          \* "chat" (streaming or not) or "generate"
    LlamaModes,     \* configurations of llama.cpp
    MaxConcurrent,  \* semaphore size of every forwarding adapter
    StartupTimeout, \* startup_timeout_seconds, in clock ticks
    VlmModels,      \* model ids the mlx-vlm server may report
    None

ASSUME RuntimesAssumption ==
    /\ IsFiniteSet(Warmups) /\ IsFiniteSet(Requests)
    /\ Lanes \subseteq {"llama_cpp", "mlx_lm_server", "mlx_vlm", "mlx"}
    /\ Kinds \subseteq {"chat", "generate"}
    /\ LlamaModes \subseteq {"managed", "external", "unconfigured"}
    /\ MaxConcurrent \in Nat \ {0}
    /\ StartupTimeout \in Nat \ {0}
    /\ None \notin Warmups \cup VlmModels

VARIABLES
    mode,       \* llama.cpp: "managed" (auto_start), "external" (server_url), "unconfigured"
    lifecycle,  \* RuntimeState.model_lifecycle
    runner,     \* RuntimeState.status
    wpc,        \* where each warmup call is suspended
    someReady,  \* whether results of warmup_all has a real kind that is "ready"
    left,       \* time left until the deadline of wait_until_ready
    awaited,    \* the server whose wait_until_ready each warmup is in
    server,     \* LlamaCppAdapter._managed_process, named by the warmup that made it
    held,       \* held[s]: the child in ManagedLlamaServer._process of server s
    child,      \* the llama-server child started by each warmup; "unkilled" outlives its SIGKILL
    mlxLoaded,  \* MLXInferenceAdapter._loaded
    observed,   \* MlxVlmAdapter._observed_upstream_model_id
    evidence,   \* _qualification_attestations: the observed models it has evidence for
    rq,         \* lane and kind of each request in its handler
    rpc,        \* where the handler of each request is suspended
    active,     \* requests whose lifecycle record is running or streaming
    holders     \* requests that hold their adapter's semaphore

warmVars == <<lifecycle, wpc, someReady, left, awaited>>
llamaVars == <<mode, server, held, child>>
vlmVars == <<observed, evidence>>
reqVars == <<rq, rpc, active, holders>>
vars == <<mode, lifecycle, runner, wpc, someReady, left, awaited, server, held, child,
          mlxLoaded, observed, evidence, rq, rpc, active, holders>>


\* "lm", "vlm", "verify", "probe": awaiting an HTTP health probe; "sleep": between
\* two probes of wait_until_ready.
WarmupPCs == {"idle", "lm", "vlm", "verify", "probe", "sleep", "done"}
Jobs == [lane : Lanes, kind : Kinds]
NoJob == [lane |-> None, kind |-> None]
ChildStates == {"none", "starting", "serving", "unkilled", "exited"}
RequestPCs == {"idle", "acquiring", "checking", "forwarding", "role", "generating", "done"}

TypeOK ==
    /\ mode \in LlamaModes
    /\ lifecycle \in {"unloaded", "warming", "ready", "failed"}
    /\ runner \in {"ready", "warming", "generating", "degraded"}
    /\ wpc \in [Warmups -> WarmupPCs]
    /\ someReady \in [Warmups -> BOOLEAN]
    /\ left \in [Warmups -> 0..StartupTimeout]
    /\ awaited \in [Warmups -> Warmups \cup {None}]
    /\ server \in Warmups \cup {None}
    /\ held \in [Warmups -> Warmups \cup {None}]
    /\ child \in [Warmups -> ChildStates]
    /\ mlxLoaded \in BOOLEAN
    /\ observed \in VlmModels \cup {None}
    /\ evidence \in SUBSET (VlmModels \cup {None})
    /\ rq \in [Requests -> Jobs \cup {NoJob}]
    /\ rpc \in [Requests -> RequestPCs]
    /\ active \in SUBSET Requests
    /\ holders \in SUBSET Requests

\* _init_lifecycle: the stub is registered first and always loaded, so a broker
\* starts READY whatever its other adapters are.
Init ==
    /\ mode \in LlamaModes
    /\ lifecycle = "ready"
    /\ runner = "ready"
    /\ wpc = [w \in Warmups |-> "idle"]
    /\ someReady = [w \in Warmups |-> FALSE]
    /\ left = [w \in Warmups |-> 0]
    /\ awaited = [w \in Warmups |-> None]
    /\ server = None
    /\ held = [w \in Warmups |-> None]
    /\ child = [w \in Warmups |-> "none"]
    /\ mlxLoaded = FALSE
    /\ observed = None
    /\ evidence = {}
    /\ rq = [r \in Requests |-> NoJob]
    /\ rpc = [r \in Requests |-> "idle"]
    /\ active = {}
    /\ holders = {}

(***************************************************************************)
(* The llama-server child                                                  *)
(***************************************************************************)
Alive(c) == child[c] \in {"starting", "serving", "unkilled"}

\* ManagedLlamaServer.is_running
IsRunning(s) == held[s] # None /\ Alive(held[s])

\* ManagedLlamaServer.check_exited: a dead child's handle is cleared.
AfterCheckExited(s) ==
    IF held[s] # None /\ ~Alive(held[s]) THEN [held EXCEPT ![s] = None] ELSE held

\* A probe of the server's URL can be answered when a child listens there; an
\* external server may always answer.  Any probe may fail: it has a timeout.
LlamaAnswers ==
    mode = "managed" => \E c \in Warmups : child[c] = "serving"

\* ManagedLlamaServer.stop: terminate, wait, kill, wait.  Synchronous.  When the
\* second wait times out too, kill_failed is logged and the handle is dropped all
\* the same: the child lives on, serves nothing more and is in nobody's hands.
Stop(s) ==
    /\ IF IsRunning(s)
       THEN \E end \in {"exited", "unkilled"} : child' = [child EXCEPT ![held[s]] = end]
       ELSE UNCHANGED child
    /\ held' = [held EXCEPT ![s] = None]

ChildListens(c) ==
    /\ child[c] = "starting"
    /\ child' = [child EXCEPT ![c] = "serving"]
    /\ UNCHANGED <<warmVars, runner, mode, server, held, mlxLoaded, vlmVars, reqVars>>

ChildDies(c) ==
    /\ Alive(c)
    /\ child' = [child EXCEPT ![c] = "exited"]
    /\ UNCHANGED <<warmVars, runner, mode, server, held, mlxLoaded, vlmVars, reqVars>>

(***************************************************************************)
(* The other runtimes                                                      *)
(***************************************************************************)
\* MLXInferenceAdapter._ensure_loaded publishes its own result as the lifecycle of
\* the whole runner; nothing happens when the model is loaded.
EnsureLoaded(ok) ==
    IF mlxLoaded
    THEN ok /\ UNCHANGED <<mlxLoaded, lifecycle, runner>>
    ELSE /\ mlxLoaded' = ok
         /\ lifecycle' = IF ok THEN "ready" ELSE "failed"
         /\ runner' = IF ok THEN "ready" ELSE "degraded"

\* _observe_upstream_model: another model than last time clears the evidence.
Observe(m) ==
    /\ observed' = m
    /\ evidence' = IF m = observed THEN evidence ELSE {}

\* qualification_attestation_for_target: evidence is measured once per observed
\* model and then reused.
Qualify ==
    /\ observed \notin evidence
    /\ evidence' = evidence \cup {observed}
    /\ UNCHANGED <<warmVars, runner, llamaVars, mlxLoaded, observed, reqVars>>

\* check_health of mlx-vlm, as every health endpoint calls it; an answer names the
\* model that is served.
VlmHealth(m) ==
    /\ Observe(m)
    /\ UNCHANGED <<warmVars, runner, llamaVars, mlxLoaded, reqVars>>

\* check_health of a managed llama.cpp, as every health endpoint calls it.
LlamaHealth ==
    /\ mode = "managed" /\ server # None
    /\ held' = AfterCheckExited(server)
    /\ UNCHANGED <<warmVars, runner, mode, server, child, mlxLoaded, vlmVars, reqVars>>

(***************************************************************************)
(* POST /runtime/model/warmup: warmup_all visits the adapters in the order *)
(* of registration: stub, mlx_lm.server, mlx, mlx-vlm, llama.cpp.          *)
(***************************************************************************)
At(w, p) == wpc[w] = p
Goto(w, p) == wpc' = [wpc EXCEPT ![w] = p]

\* Faulty variant: the verdict is left to the adapters to publish.
FinishSilently(w, ready) ==
    /\ someReady' = [someReady EXCEPT ![w] = FALSE]
    /\ UNCHANGED lifecycle
    /\ Goto(w, "done")
    /\ left' = [left EXCEPT ![w] = 0]
    /\ awaited' = [awaited EXCEPT ![w] = None]

\* The handler's verdict once warmup_all has returned.
Finish(w, ready) ==
    /\ someReady' = [someReady EXCEPT ![w] = FALSE]
    /\ lifecycle' = IF ready THEN "ready" ELSE "failed"
    /\ Goto(w, "done")
    /\ left' = [left EXCEPT ![w] = 0]
    /\ awaited' = [awaited EXCEPT ![w] = None]

WarmupBegins(w) ==
    /\ At(w, "idle")
    /\ lifecycle' = "warming"
    /\ Goto(w, "lm")
    /\ UNCHANGED <<someReady, left, awaited, runner, llamaVars, mlxLoaded, vlmVars, reqVars>>

\* mlx_lm.server answers or not; the in-process model is loaded in the same step.
LmProbed(w) ==
    /\ At(w, "lm")
    /\ \E answers, loads \in BOOLEAN :
         /\ EnsureLoaded(loads)
         /\ someReady' = [someReady EXCEPT ![w] = answers \/ loads]
    /\ Goto(w, "vlm")
    /\ UNCHANGED <<left, awaited, llamaVars, vlmVars, reqVars>>

\* LlamaCppAdapter.warmup up to its first suspension, with ready the
\* result so far.
StartLlama(w, ready) ==
    LET s == IF server = None THEN w ELSE server IN
    /\ server' = s
    /\ \/ /\ IsRunning(s)                       \* already running: verify only
          /\ Goto(w, "verify")
          /\ someReady' = [someReady EXCEPT ![w] = ready]
          /\ UNCHANGED <<held, child, left, awaited, lifecycle>>
       \/ /\ ~IsRunning(s)                      \* started
          /\ child' = [child EXCEPT ![w] = "starting"]
          /\ held' = [held EXCEPT ![s] = w]
          /\ left' = [left EXCEPT ![w] = StartupTimeout]
          /\ awaited' = [awaited EXCEPT ![w] = s]
          /\ Goto(w, "probe")
          /\ someReady' = [someReady EXCEPT ![w] = ready]
          /\ UNCHANGED lifecycle
       \/ /\ ~IsRunning(s)                      \* bad configuration, or Popen fails
          /\ held' = AfterCheckExited(s)
          /\ Finish(w, ready)
          /\ UNCHANGED child

EnterLlama(w, ready) ==
    \/ mode = "managed" /\ StartLlama(w, ready)
    \/ /\ mode = "external"
       /\ Goto(w, "verify")
       /\ someReady' = [someReady EXCEPT ![w] = ready]
       /\ UNCHANGED <<server, held, child, left, awaited, lifecycle>>
    \/ /\ mode = "unconfigured"
       /\ Finish(w, TRUE)
       /\ UNCHANGED <<server, held, child>>

VlmProbed(w) ==
    /\ At(w, "vlm")
    /\ \/ \E m \in VlmModels : Observe(m) /\ EnterLlama(w, TRUE)
       \/ UNCHANGED <<observed, evidence>> /\ EnterLlama(w, someReady[w])
    /\ UNCHANGED <<runner, mode, mlxLoaded, reqVars>>

\* The health check after "already running", or of an external server: its answer
\* is not looked at.
LlamaVerified(w) ==
    /\ At(w, "verify")
    /\ Finish(w, TRUE)
    /\ UNCHANGED <<runner, llamaVars, mlxLoaded, vlmVars, reqVars>>

\* One probe of wait_until_ready returns.
LlamaReady(w) ==
    /\ At(w, "probe")
    /\ LlamaAnswers
    /\ Finish(w, TRUE)
    /\ UNCHANGED <<runner, llamaVars, mlxLoaded, vlmVars, reqVars>>

LlamaNotYet(w) ==
    /\ At(w, "probe")
    /\ Goto(w, "sleep")
    /\ UNCHANGED <<lifecycle, someReady, left, awaited, runner, llamaVars, mlxLoaded, vlmVars, reqVars>>

\* Faulty variant: the deadline is never looked at.
StartupNeverTimesOut(w) ==
    /\ At(w, "sleep") /\ left[w] = 0
    /\ Goto(w, "probe")
    /\ UNCHANGED <<lifecycle, someReady, left, awaited, runner, llamaVars, mlxLoaded, vlmVars, reqVars>>

\* wait_until_ready wakes: its deadline first, then whether the child lives.  On a
\* timeout it stops whatever child its server holds by then.
StartupTimesOut(w) ==
    /\ At(w, "sleep") /\ left[w] = 0
    /\ Stop(awaited[w])
    /\ Finish(w, someReady[w])
    /\ UNCHANGED <<runner, mode, server, mlxLoaded, vlmVars, reqVars>>

ChildFoundDead(w) ==
    /\ At(w, "sleep") /\ left[w] > 0
    /\ ~IsRunning(awaited[w])
    /\ Finish(w, someReady[w])
    /\ UNCHANGED <<runner, llamaVars, mlxLoaded, vlmVars, reqVars>>

ProbesAgain(w) ==
    /\ At(w, "sleep") /\ left[w] > 0
    /\ IsRunning(awaited[w])
    /\ Goto(w, "probe")
    /\ UNCHANGED <<lifecycle, someReady, left, awaited, runner, llamaVars, mlxLoaded, vlmVars, reqVars>>

Tick ==
    /\ \E w \in Warmups : left[w] > 0
    /\ left' = [w \in Warmups |-> IF left[w] > 0 THEN left[w] - 1 ELSE 0]
    /\ UNCHANGED <<lifecycle, wpc, someReady, awaited, runner, llamaVars, mlxLoaded, vlmVars, reqVars>>

WarmupStep(w) ==
    \/ LmProbed(w) \/ VlmProbed(w) \/ LlamaVerified(w) \/ LlamaReady(w)
    \/ LlamaNotYet(w) \/ StartupTimesOut(w) \/ ChildFoundDead(w) \/ ProbesAgain(w)

(***************************************************************************)
(* POST /runtime/model/unload: refused while a request is active, then     *)
(* every adapter unloads without suspension.                               *)
(***************************************************************************)
\* MLXInferenceAdapter.unload
MlxUnload == mlxLoaded' = FALSE

\* MlxVlmAdapter.unload: what was observed and measured is forgotten.
VlmUnload == observed' = None /\ evidence' = {}

\* Faulty variant: the handle is dropped and the child left running.
LlamaUnloadForgets == server' = None /\ UNCHANGED <<mode, held, child>>

\* LlamaCppAdapter.unload: stop the child, drop the server object.
LlamaUnload ==
    /\ IF server = None THEN UNCHANGED <<held, child>> ELSE Stop(server)
    /\ server' = None
    /\ UNCHANGED mode

\* RuntimeRouter.unload_all
UnloadAll == MlxUnload /\ VlmUnload /\ LlamaUnload

\* Faulty variant: nobody asks whether a request is active.
UnloadBusy ==
    /\ UnloadAll
    /\ lifecycle' = "unloaded"
    /\ UNCHANGED <<runner, wpc, someReady, left, awaited, reqVars>>

Unload ==
    /\ active = {}
    /\ UnloadAll
    /\ lifecycle' = "unloaded"
    /\ UNCHANGED <<runner, wpc, someReady, left, awaited, reqVars>>

(***************************************************************************)
(* Requests.  Admission has let them through: their record is active.      *)
(***************************************************************************)
ReqGoto(r, p) == rpc' = [rpc EXCEPT ![r] = p]

\* Faulty variant: the semaphore is kept on the way out.
ReqEndsHolding(r) ==
    /\ ReqGoto(r, "done")
    /\ rq' = [rq EXCEPT ![r] = NoJob]
    /\ holders' = holders
    /\ active' = active \ {r}

\* The handler ends: the finally clause gives the semaphore back, the record is
\* no longer active.
ReqEnds(r) ==
    /\ ReqGoto(r, "done")
    /\ rq' = [rq EXCEPT ![r] = NoJob]
    /\ holders' = holders \ {r}
    /\ active' = active \ {r}

LaneHolders(l) == {r \in holders : rq[r].lane = l}

\* generate of llama.cpp and of mlx_lm.server takes no semaphore.
TakesSemaphore(j) == j.kind = "chat" \/ j.lane = "mlx_vlm"

\* llama.cpp without a server URL refuses before it takes the semaphore.
NotConfigured(j) == j.lane = "llama_cpp" /\ mode = "unconfigured"

\* The part of check_health before its probe: a managed llama.cpp whose child is
\* gone is unavailable at once.
RuntimeGone(j) ==
    /\ j.lane = "llama_cpp" /\ mode = "managed"
    /\ ~(server # None /\ IsRunning(server))

\* check_health of the request's lane up to its probe; check_exited runs on the way.
BeginsCheck(r, j) ==
    /\ \/ RuntimeGone(j) /\ ReqEnds(r)
       \/ /\ ~RuntimeGone(j)
          /\ ReqGoto(r, "checking")
          /\ rq' = [rq EXCEPT ![r] = j]
          /\ holders' = IF TakesSemaphore(j) THEN holders \cup {r} ELSE holders
          /\ IF rpc[r] = "idle" THEN active' = active \cup {r} ELSE UNCHANGED active
    /\ held' = IF j.lane = "llama_cpp" /\ server # None THEN AfterCheckExited(server) ELSE held

RequestRefused(r) ==
    /\ rpc[r] = "idle"
    /\ \E j \in Jobs : NotConfigured(j)
    /\ ReqGoto(r, "done")
    /\ UNCHANGED <<warmVars, runner, llamaVars, mlxLoaded, vlmVars, rq, active, holders>>

ChatArrives(r) ==
    /\ rpc[r] = "idle"
    /\ \E j \in Jobs :
         /\ j.lane # "mlx" /\ ~NotConfigured(j) /\ TakesSemaphore(j)
         /\ rq' = [rq EXCEPT ![r] = j]
    /\ ReqGoto(r, "acquiring")
    /\ active' = active \cup {r}
    /\ UNCHANGED <<warmVars, runner, llamaVars, mlxLoaded, vlmVars, holders>>

GenerateArrives(r) ==
    /\ rpc[r] = "idle"
    /\ \E j \in Jobs :
         /\ j.lane # "mlx" /\ ~NotConfigured(j) /\ ~TakesSemaphore(j)
         /\ BeginsCheck(r, j)
    /\ UNCHANGED <<warmVars, runner, mode, server, child, mlxLoaded, vlmVars>>

\* _acquire_slot returns; a request cancelled meanwhile goes on.
Acquires(r) ==
    /\ rpc[r] = "acquiring"
    /\ Cardinality(LaneHolders(rq[r].lane)) < MaxConcurrent
    /\ BeginsCheck(r, rq[r])
    /\ UNCHANGED <<warmVars, runner, mode, server, child, mlxLoaded, vlmVars>>

\* RuntimeOverloaded: the acquire timeout passes.
AcquireTimesOut(r) ==
    /\ rpc[r] = "acquiring"
    /\ Cardinality(LaneHolders(rq[r].lane)) >= MaxConcurrent
    /\ ReqEnds(r)
    /\ UNCHANGED <<warmVars, runner, llamaVars, mlxLoaded, vlmVars>>

\* The probe finds the server ready and the request is forwarded to its URL.
CheckPasses(r) ==
    /\ rpc[r] = "checking"
    /\ rq[r].lane = "llama_cpp" => LlamaAnswers
    /\ ReqGoto(r, "forwarding")
    /\ IF rq[r].lane = "mlx_vlm" THEN \E m \in VlmModels : Observe(m)
                                 ELSE UNCHANGED vlmVars
    /\ UNCHANGED <<warmVars, runner, llamaVars, mlxLoaded, rq, active, holders>>

\* The server is down, or the probe times out.
CheckFails(r) ==
    /\ rpc[r] = "checking"
    /\ ReqEnds(r)
    /\ UNCHANGED <<warmVars, runner, llamaVars, mlxLoaded, vlmVars>>

\* The upstream answers, fails, or the 300 s timeout passes.
ForwardEnds(r) ==
    /\ rpc[r] = "forwarding"
    /\ ReqEnds(r)
    /\ UNCHANGED <<warmVars, runner, llamaVars, mlxLoaded, vlmVars>>

\* The in-process model: a plain request runs to its end without suspension.  So
\* does a stream whose model cannot be loaded.
MlxGenerates(r) ==
    /\ rpc[r] = "idle" /\ "mlx" \in Lanes
    /\ \E loads \in BOOLEAN :
         /\ IF mlxLoaded THEN loads /\ UNCHANGED <<mlxLoaded, lifecycle>>
            ELSE mlxLoaded' = loads /\ lifecycle' = IF loads THEN "ready" ELSE "failed"
         /\ runner' = IF loads THEN "ready" ELSE "degraded"
    /\ ReqGoto(r, "done")
    /\ UNCHANGED <<wpc, someReady, left, awaited, llamaVars, vlmVars, rq, active, holders>>

\* A stream suspends after its role chunk and then at every chunk.
MlxStreams(r) ==
    /\ rpc[r] = "idle" /\ "mlx" \in Lanes
    /\ EnsureLoaded(TRUE)
    /\ ReqGoto(r, "role")
    /\ active' = active \cup {r}
    /\ UNCHANGED <<wpc, someReady, left, awaited, llamaVars, vlmVars, rq, holders>>

\* The model reference is read again after the role chunk; without a model the
\* generation fails.
MlxFirstToken(r) ==
    /\ rpc[r] = "role"
    /\ IF mlxLoaded
       THEN ReqGoto(r, "generating") /\ runner' = "generating" /\ UNCHANGED active
       ELSE ReqGoto(r, "done") /\ runner' = "degraded" /\ active' = active \ {r}
    /\ UNCHANGED <<warmVars, llamaVars, mlxLoaded, vlmVars, rq, holders>>

MlxStreamEnds(r) ==
    /\ rpc[r] = "generating"
    /\ \E ok \in BOOLEAN : runner' = IF ok THEN "ready" ELSE "degraded"
    /\ ReqGoto(r, "done")
    /\ active' = active \ {r}
    /\ UNCHANGED <<warmVars, llamaVars, mlxLoaded, vlmVars, rq, holders>>

\* The cancel endpoint ends the record; the handler is still in its adapter call.
Cancel(r) ==
    /\ r \in active
    /\ active' = active \ {r}
    /\ UNCHANGED <<warmVars, runner, llamaVars, mlxLoaded, vlmVars, rq, rpc, holders>>

RequestStep(r) ==
    \/ RequestRefused(r) \/ ChatArrives(r) \/ GenerateArrives(r)
    \/ Acquires(r) \/ AcquireTimesOut(r) \/ CheckPasses(r) \/ CheckFails(r)
    \/ ForwardEnds(r) \/ MlxGenerates(r) \/ MlxStreams(r)
    \/ MlxFirstToken(r) \/ MlxStreamEnds(r) \/ Cancel(r)

AllQuiet ==
    /\ \A w \in Warmups : wpc[w] = "done"
    /\ \A r \in Requests : rpc[r] = "done"
    /\ UNCHANGED vars

Next ==
    \/ \E w \in Warmups : WarmupBegins(w) \/ WarmupStep(w) \/ ChildListens(w) \/ ChildDies(w)
    \/ \E r \in Requests : RequestStep(r)
    \/ \E m \in VlmModels : VlmHealth(m)
    \/ Qualify \/ LlamaHealth \/ Unload \/ Tick \/ AllQuiet

Spec == Init /\ [][Next]_vars

\* Health probes carry a timeout, sleeps end, the clock runs.
FairSpec == Spec /\ WF_vars(Tick) /\ \A w \in Warmups : WF_vars(WarmupStep(w))

(***************************************************************************)
(* Properties                                                              *)
(***************************************************************************)
\* A failed kill is the only way to lose a llama-server child: every other living
\* child is held by the adapter's current server, so that unload and restart can
\* stop it, however warmups, readiness timeouts, crashes and unloads overlap.
OnlyFailedKillsOrphan ==
    \A c \in Warmups :
      Alive(c) => child[c] = "unkilled" \/ (server # None /\ held[server] = c)

\* The lifecycle says WARMING only while some warmup call is still under way.
WarmingHasAWarmer ==
    lifecycle = "warming" => \E w \in Warmups : wpc[w] \notin {"idle", "done"}

\* A semaphore bounds the chat requests an adapter works on, cancelled requests
\* whose handler is still in the adapter included, and none is lost: a request
\* that has left the adapter holds nothing.
SemaphoreBounds ==
    /\ \A l \in Lanes : Cardinality(LaneHolders(l)) <= MaxConcurrent
    /\ \A r \in Requests :
         r \in holders <=> TakesSemaphore(rq[r]) /\ rpc[r] \in {"checking", "forwarding"}

\* Evidence about a vision model is reused only while the server reports the same
\* model: evidence for an earlier one does not survive a change and back.
EvidenceIsCurrent == evidence \subseteq {observed}

\* What the adapters keep for themselves, semaphores and evidence, stays in step
\* with the requests they serve and the servers behind them.
AdaptersConsistent == TypeOK /\ SemaphoreBounds /\ EvidenceIsCurrent

\* Unload never takes the in-process model from under a stream that is running and
\* that nobody cancelled.
StreamsKeepTheirModel ==
    \A r \in active : rpc[r] \in {"role", "generating"} => mlxLoaded

\* Every warmup call returns, whatever the child and the servers do.
WarmupEnds == \A w \in Warmups : wpc[w] # "idle" ~> wpc[w] = "done"
===============================================================================
