------------------------------- MODULE RuntimeProofs -------------------------------
(***************************************************************************)
(* Theorems about the runtimes behind the broker, for any number of        *)
(* warmups and requests and any semaphore size: the llama-server child,    *)
(* the published lifecycle, the semaphores, the evidence about a vision    *)
(* model and the in-process model under its streams.                       *)
(***************************************************************************)
EXTENDS Runtimes, FiniteSetTheorems, TLAPS

(***************************************************************************)
(* Types                                                                   *)
(***************************************************************************)
\* The variables of a warmup, of the runtimes and of the requests.
WarmTypes ==
    /\ lifecycle \in {"unloaded", "warming", "ready", "failed"}
    /\ wpc \in [Warmups -> WarmupPCs]
    /\ someReady \in [Warmups -> BOOLEAN]
    /\ left \in [Warmups -> 0..StartupTimeout]
    /\ awaited \in [Warmups -> Warmups \cup {None}]

LlamaTypes ==
    /\ mode \in LlamaModes
    /\ server \in Warmups \cup {None}
    /\ held \in [Warmups -> Warmups \cup {None}]
    /\ child \in [Warmups -> ChildStates]

OtherTypes ==
    /\ runner \in {"ready", "warming", "generating", "degraded"}
    /\ mlxLoaded \in BOOLEAN
    /\ observed \in VlmModels \cup {None}
    /\ evidence \in SUBSET (VlmModels \cup {None})

RequestTypes ==
    /\ rq \in [Requests -> Jobs \cup {NoJob}]
    /\ rpc \in [Requests -> RequestPCs]
    /\ active \in SUBSET Requests
    /\ holders \in SUBSET Requests

\* TypeOK, part by part.
LEMMA TypeParts ==
    /\ TypeOK <=> WarmTypes /\ LlamaTypes /\ OtherTypes /\ RequestTypes
    /\ TypeOK' <=> WarmTypes' /\ LlamaTypes' /\ OtherTypes' /\ RequestTypes'
  BY DEF TypeOK, WarmTypes, LlamaTypes, OtherTypes, RequestTypes

\* A warmup that ends leaves its variables of their types.
LEMMA FinishTypes ==
    ASSUME WarmTypes, NEW w \in Warmups, NEW ready, Finish(w, ready)
    PROVE  WarmTypes' /\ lifecycle' \in {"ready", "failed"}
  <1>1. "done" \in WarmupPCs /\ 0 \in 0..StartupTimeout
    BY RuntimesAssumption DEF WarmupPCs
  <1> QED BY <1>1 DEF WarmTypes, Finish, Goto

\* What StartLlama and EnterLlama leave behind.
LEMMA EnterTypes ==
    ASSUME WarmTypes, LlamaTypes, NEW w \in Warmups, NEW ready \in BOOLEAN, mode' = mode,
           EnterLlama(w, ready)
    PROVE  WarmTypes' /\ LlamaTypes'
  <1>1. {"verify", "probe"} \subseteq WarmupPCs /\ StartupTimeout \in 0..StartupTimeout
    BY RuntimesAssumption DEF WarmupPCs
  <1>2. ASSUME Goto(w, "verify"), someReady' = [someReady EXCEPT ![w] = ready],
               UNCHANGED <<held, child, left, awaited, lifecycle>>, server' \in Warmups \cup {None}
        PROVE  WarmTypes' /\ LlamaTypes'
    BY <1>1, <1>2 DEF WarmTypes, LlamaTypes, Goto
  <1>3. CASE mode = "managed" /\ StartLlama(w, ready)
    <2> DEFINE s == IF server = None THEN w ELSE server
    <2>1. s \in Warmups /\ server' = s
      BY <1>3 DEF LlamaTypes, StartLlama
    <2>2. CASE /\ Goto(w, "verify") /\ someReady' = [someReady EXCEPT ![w] = ready]
               /\ UNCHANGED <<held, child, left, awaited, lifecycle>>
      BY <1>2, <2>1, <2>2
    <2>3. CASE /\ child' = [child EXCEPT ![w] = "starting"]
               /\ held' = [held EXCEPT ![s] = w]
               /\ left' = [left EXCEPT ![w] = StartupTimeout]
               /\ awaited' = [awaited EXCEPT ![w] = s]
               /\ Goto(w, "probe") /\ someReady' = [someReady EXCEPT ![w] = ready]
               /\ UNCHANGED lifecycle
      BY <1>1, <2>1, <2>3 DEF WarmTypes, LlamaTypes, Goto, ChildStates
    <2>4. CASE held' = AfterCheckExited(s) /\ Finish(w, ready) /\ UNCHANGED child
      <3>1. held' \in [Warmups -> Warmups \cup {None}]
        BY <2>4 DEF LlamaTypes, AfterCheckExited
      <3> QED BY <2>1, <2>4, <3>1, FinishTypes DEF LlamaTypes
    <2> HIDE DEF s
    <2>5. \/ Goto(w, "verify") /\ someReady' = [someReady EXCEPT ![w] = ready]
                 /\ UNCHANGED <<held, child, left, awaited, lifecycle>>
          \/ /\ child' = [child EXCEPT ![w] = "starting"]
             /\ held' = [held EXCEPT ![s] = w]
             /\ left' = [left EXCEPT ![w] = StartupTimeout]
             /\ awaited' = [awaited EXCEPT ![w] = s]
             /\ Goto(w, "probe") /\ someReady' = [someReady EXCEPT ![w] = ready]
             /\ UNCHANGED lifecycle
          \/ held' = AfterCheckExited(s) /\ Finish(w, ready) /\ UNCHANGED child
      BY <1>3 DEF StartLlama, s
    <2> QED BY <2>2, <2>3, <2>4, <2>5
  <1>4. CASE mode = "external" /\ Goto(w, "verify") /\ someReady' = [someReady EXCEPT ![w] = ready]
               /\ UNCHANGED <<server, held, child, left, awaited, lifecycle>>
    BY <1>2, <1>4 DEF LlamaTypes
  <1>5. CASE mode = "unconfigured" /\ Finish(w, TRUE) /\ UNCHANGED <<server, held, child>>
    BY <1>5, FinishTypes DEF LlamaTypes
  <1> QED BY <1>3, <1>4, <1>5 DEF EnterLlama

\* Observing a model that is served keeps the types, and evidence with it.
LEMMA ObserveFacts ==
    ASSUME OtherTypes, NEW m \in VlmModels, Observe(m)
    PROVE  /\ observed' \in VlmModels \cup {None} /\ evidence' \in SUBSET (VlmModels \cup {None})
           /\ EvidenceIsCurrent => EvidenceIsCurrent'
  BY DEF OtherTypes, Observe, EvidenceIsCurrent

\* Loading the in-process model keeps the types, and never takes a model away.
LEMMA LoadFacts ==
    ASSUME WarmTypes, OtherTypes, NEW ok \in BOOLEAN, EnsureLoaded(ok)
    PROVE  /\ lifecycle' \in {"unloaded", "warming", "ready", "failed"}
           /\ runner' \in {"ready", "warming", "generating", "degraded"}
           /\ mlxLoaded' \in BOOLEAN
           /\ mlxLoaded => mlxLoaded'
           /\ ok => mlxLoaded'
  BY DEF WarmTypes, OtherTypes, EnsureLoaded

\* Stopping a server keeps the types.
LEMMA StopTypes ==
    ASSUME LlamaTypes, NEW s, Stop(s)
    PROVE  /\ held' \in [Warmups -> Warmups \cup {None}]
           /\ child' \in [Warmups -> ChildStates]
  BY DEF LlamaTypes, Stop, ChildStates

\* A warmup's steps keep the types.
LEMMA WarmupTypes ==
    ASSUME TypeOK, NEW w \in Warmups, WarmupBegins(w) \/ WarmupStep(w)
    PROVE  TypeOK'
  <1> USE TypeParts
  <1>1. {"lm", "vlm", "sleep", "probe"} \subseteq WarmupPCs
    BY DEF WarmupPCs
  <1>2. CASE WarmupBegins(w)
    BY <1>1, <1>2 DEF WarmupBegins, Goto, WarmTypes, LlamaTypes, OtherTypes, RequestTypes,
                      llamaVars, vlmVars, reqVars
  <1>3. CASE LmProbed(w)
    <2>1. PICK answers \in BOOLEAN, loads \in BOOLEAN :
             EnsureLoaded(loads) /\ someReady' = [someReady EXCEPT ![w] = answers \/ loads]
      BY <1>3 DEF LmProbed
    <2>2. (answers \/ loads) \in BOOLEAN
      OBVIOUS
    <2>3. WarmTypes'
      BY <1>1, <1>3, <2>1, <2>2, LoadFacts DEF LmProbed, Goto, WarmTypes
    <2>4. OtherTypes'
      BY <1>3, <2>1, LoadFacts DEF LmProbed, OtherTypes, vlmVars
    <2> QED BY <1>3, <2>3, <2>4 DEF LmProbed, LlamaTypes, RequestTypes, llamaVars, reqVars
  <1>4. CASE VlmProbed(w)
    <2>1. UNCHANGED <<runner, mode, mlxLoaded, reqVars>>
      BY <1>4 DEF VlmProbed
    <2>2. \/ \E m \in VlmModels : Observe(m) /\ EnterLlama(w, TRUE)
          \/ UNCHANGED <<observed, evidence>> /\ EnterLlama(w, someReady[w])
      BY <1>4 DEF VlmProbed
    <2>3. OtherTypes'
      BY <2>1, <2>2, ObserveFacts DEF OtherTypes
    <2>4. someReady[w] \in BOOLEAN
      BY DEF WarmTypes
    <2>5. WarmTypes' /\ LlamaTypes'
      BY <2>1, <2>2, <2>4, EnterTypes
    <2>6. RequestTypes'
      BY <2>1 DEF RequestTypes, reqVars
    <2> QED BY <2>3, <2>5, <2>6
  <1>5. ASSUME LlamaVerified(w) \/ LlamaReady(w) \/ ChildFoundDead(w) PROVE TypeOK'
    <2>1. \E ready : Finish(w, ready)
      BY <1>5 DEF LlamaVerified, LlamaReady, ChildFoundDead
    <2>2. UNCHANGED <<runner, llamaVars, mlxLoaded, vlmVars, reqVars>>
      BY <1>5 DEF LlamaVerified, LlamaReady, ChildFoundDead
    <2>3. WarmTypes'
      BY <2>1, FinishTypes
    <2> QED BY <2>2, <2>3 DEF LlamaTypes, OtherTypes, RequestTypes, llamaVars, vlmVars, reqVars
  <1>6. ASSUME LlamaNotYet(w) \/ ProbesAgain(w) PROVE TypeOK'
    <2>1. Goto(w, "sleep") \/ Goto(w, "probe")
      BY <1>6 DEF LlamaNotYet, ProbesAgain
    <2>2. UNCHANGED <<lifecycle, someReady, left, awaited, runner, llamaVars, mlxLoaded, vlmVars, reqVars>>
      BY <1>6 DEF LlamaNotYet, ProbesAgain
    <2> QED BY <1>1, <2>1, <2>2 DEF Goto, WarmTypes, LlamaTypes, OtherTypes, RequestTypes,
                                    llamaVars, vlmVars, reqVars
  <1>7. CASE StartupTimesOut(w)
    <2>1. /\ Stop(awaited[w]) /\ Finish(w, someReady[w])
          /\ UNCHANGED <<runner, mode, server, mlxLoaded, vlmVars, reqVars>>
      BY <1>7 DEF StartupTimesOut
    <2>2. WarmTypes'
      BY <2>1, FinishTypes
    <2>3. LlamaTypes'
      BY <2>1, StopTypes DEF LlamaTypes
    <2> QED BY <2>1, <2>2, <2>3 DEF OtherTypes, RequestTypes, vlmVars, reqVars
  <1> QED BY <1>2, <1>3, <1>4, <1>5, <1>6, <1>7 DEF WarmupStep
\* A check_exited only forgets a handle.
LEMMA CheckExitedTypes ==
    ASSUME LlamaTypes, NEW s, held' = AfterCheckExited(s) \/ held' = held
    PROVE  held' \in [Warmups -> Warmups \cup {None}]
  BY DEF LlamaTypes, AfterCheckExited

\* A request that ends stays of its types.
LEMMA ReqEndsTypes ==
    ASSUME RequestTypes, NEW r \in Requests, ReqEnds(r)
    PROVE  RequestTypes'
  BY DEF RequestTypes, ReqEnds, ReqGoto, RequestPCs

\* So does a request whose health check begins.
LEMMA BeginsCheckTypes ==
    ASSUME RequestTypes, LlamaTypes, NEW r \in Requests, NEW j \in Jobs \cup {NoJob}, BeginsCheck(r, j),
           UNCHANGED <<mode, server, child>>
    PROVE  RequestTypes' /\ LlamaTypes'
  <1>1. LlamaTypes'
    <2>1. \E s : held' = AfterCheckExited(s) \/ held' = held
      BY DEF BeginsCheck
    <2> QED BY <2>1, CheckExitedTypes DEF LlamaTypes
  <1>2. CASE ReqEnds(r)
    BY <1>1, <1>2, ReqEndsTypes
  <1>3. CASE /\ ReqGoto(r, "checking") /\ rq' = [rq EXCEPT ![r] = j]
             /\ holders' = IF TakesSemaphore(j) THEN holders \cup {r} ELSE holders
             /\ IF rpc[r] = "idle" THEN active' = active \cup {r} ELSE UNCHANGED active
    BY <1>1, <1>3 DEF RequestTypes, ReqGoto, RequestPCs
  <1> QED BY <1>2, <1>3 DEF BeginsCheck

\* A request's steps keep the types.
LEMMA RequestStepTypes ==
    ASSUME TypeOK, NEW r \in Requests, RequestStep(r)
    PROVE  TypeOK'
  <1> USE TypeParts
  <1>1. {"idle", "acquiring", "checking", "forwarding", "role", "generating", "done"} \subseteq RequestPCs
    BY DEF RequestPCs
  <1>2. ASSUME UNCHANGED <<warmVars, runner, llamaVars, mlxLoaded, vlmVars>>, RequestTypes'
        PROVE  TypeOK'
    BY <1>2 DEF WarmTypes, LlamaTypes, OtherTypes, warmVars, llamaVars, vlmVars
  <1>3. CASE RequestRefused(r)
    BY <1>1, <1>2, <1>3 DEF RequestRefused, ReqGoto, RequestTypes
  <1>4. CASE ChatArrives(r)
    BY <1>1, <1>2, <1>4 DEF ChatArrives, ReqGoto, RequestTypes
  <1>5. ASSUME NEW j \in Jobs \cup {NoJob}, BeginsCheck(r, j),
               UNCHANGED <<warmVars, runner, mode, server, child, mlxLoaded, vlmVars>>
        PROVE  TypeOK'
    <2>1. RequestTypes' /\ LlamaTypes'
      BY <1>5, BeginsCheckTypes
    <2> QED BY <1>5, <2>1 DEF WarmTypes, OtherTypes, warmVars, vlmVars
  <1>6. CASE GenerateArrives(r)
    BY <1>5, <1>6 DEF GenerateArrives
  <1>7. CASE Acquires(r)
    BY <1>5, <1>7 DEF Acquires, RequestTypes
  <1>8. ASSUME AcquireTimesOut(r) \/ CheckFails(r) \/ ForwardEnds(r) PROVE TypeOK'
    BY <1>2, <1>8, ReqEndsTypes DEF AcquireTimesOut, CheckFails, ForwardEnds
  <1>9. CASE CheckPasses(r)
    <2>1. /\ ReqGoto(r, "forwarding")
          /\ (\E m \in VlmModels : Observe(m)) \/ UNCHANGED vlmVars
          /\ UNCHANGED <<warmVars, runner, llamaVars, mlxLoaded, rq, active, holders>>
      BY <1>9 DEF CheckPasses
    <2>2. OtherTypes'
      BY <2>1, ObserveFacts DEF OtherTypes, vlmVars
    <2>3. RequestTypes'
      BY <1>1, <2>1 DEF RequestTypes, ReqGoto
    <2> QED BY <2>1, <2>2, <2>3 DEF WarmTypes, LlamaTypes, warmVars, llamaVars
  <1>10. CASE MlxGenerates(r)
    <2>1. RequestTypes'
      BY <1>1, <1>10 DEF MlxGenerates, RequestTypes, ReqGoto
    <2>2. /\ lifecycle' \in {lifecycle, "ready", "failed"} /\ runner' \in {"ready", "degraded"}
          /\ mlxLoaded' \in BOOLEAN
      BY <1>10 DEF MlxGenerates, OtherTypes
    <2>3. UNCHANGED <<wpc, someReady, left, awaited, llamaVars, vlmVars>>
      BY <1>10 DEF MlxGenerates
    <2> QED BY <2>1, <2>2, <2>3 DEF WarmTypes, LlamaTypes, OtherTypes, llamaVars, vlmVars
  <1>11. CASE MlxStreams(r)
    <2>1. RequestTypes'
      BY <1>1, <1>11 DEF MlxStreams, RequestTypes, ReqGoto
    <2>2. EnsureLoaded(TRUE) /\ UNCHANGED <<wpc, someReady, left, awaited, llamaVars, vlmVars>>
      BY <1>11 DEF MlxStreams
    <2>3. WarmTypes' /\ OtherTypes'
      BY <2>2, LoadFacts DEF WarmTypes, OtherTypes, vlmVars
    <2> QED BY <2>1, <2>2, <2>3 DEF LlamaTypes, llamaVars
  <1>12. CASE MlxFirstToken(r) \/ MlxStreamEnds(r)
    <2>1. RequestTypes'
      BY <1>1, <1>12 DEF MlxFirstToken, MlxStreamEnds, RequestTypes, ReqGoto
    <2>2. /\ runner' \in {"ready", "generating", "degraded"}
          /\ UNCHANGED <<warmVars, llamaVars, mlxLoaded, vlmVars>>
      BY <1>12 DEF MlxFirstToken, MlxStreamEnds
    <2> QED BY <2>1, <2>2 DEF WarmTypes, LlamaTypes, OtherTypes, warmVars, llamaVars, vlmVars
  <1>13. CASE Cancel(r)
    BY <1>2, <1>13 DEF Cancel, RequestTypes
  <1> QED BY <1>3, <1>4, <1>6, <1>7, <1>8, <1>9, <1>10, <1>11, <1>12, <1>13 DEF RequestStep

\* Unload, as far as the child and its handles go.
LEMMA UnloadFacts ==
    ASSUME LlamaTypes, LlamaUnload
    PROVE  LlamaTypes'
  <1>1. /\ held' \in [Warmups -> Warmups \cup {None}]
        /\ child' \in [Warmups -> ChildStates]
    BY StopTypes DEF LlamaUnload, LlamaTypes
  <1> QED BY <1>1 DEF LlamaUnload, LlamaTypes

\* Every step keeps the types.
LEMMA TypeStep ==
    ASSUME TypeOK, [Next]_vars
    PROVE  TypeOK'
  <1> USE TypeParts
  <1>1. ASSUME NEW w \in Warmups, ChildListens(w) \/ ChildDies(w) PROVE TypeOK'
    BY <1>1 DEF ChildListens, ChildDies, ChildStates, WarmTypes, LlamaTypes, OtherTypes, RequestTypes,
                warmVars, vlmVars, reqVars
  <1>2. ASSUME NEW m \in VlmModels, VlmHealth(m) PROVE TypeOK'
    <2>1. OtherTypes'
      BY <1>2, ObserveFacts DEF VlmHealth, OtherTypes
    <2> QED BY <1>2, <2>1 DEF VlmHealth, WarmTypes, LlamaTypes, RequestTypes, warmVars, llamaVars, reqVars
  <1>3. CASE Qualify
    BY <1>3 DEF Qualify, WarmTypes, LlamaTypes, OtherTypes, RequestTypes, warmVars, llamaVars, reqVars
  <1>4. CASE LlamaHealth
    <2>1. LlamaTypes'
      BY <1>4, CheckExitedTypes DEF LlamaHealth, LlamaTypes
    <2> QED BY <1>4, <2>1 DEF LlamaHealth, WarmTypes, OtherTypes, RequestTypes, warmVars, vlmVars, reqVars
  <1>5. CASE Unload
    <2>1. LlamaTypes'
      BY <1>5, UnloadFacts DEF Unload, UnloadAll
    <2>2. OtherTypes'
      BY <1>5 DEF Unload, UnloadAll, MlxUnload, VlmUnload, OtherTypes
    <2> QED BY <1>5, <2>1, <2>2 DEF Unload, WarmTypes, RequestTypes, reqVars
  <1>6. CASE Tick
    <2>1. left' \in [Warmups -> 0..StartupTimeout]
      <3>1. StartupTimeout \in Nat
        BY RuntimesAssumption
      <3>2. \A w \in Warmups : left[w] \in 0..StartupTimeout
        BY DEF WarmTypes
      <3>3. \A w \in Warmups : (IF left[w] > 0 THEN left[w] - 1 ELSE 0) \in 0..StartupTimeout
        BY <3>1, <3>2
      <3> QED BY <1>6, <3>3 DEF Tick
    <2> QED BY <1>6, <2>1 DEF Tick, WarmTypes, LlamaTypes, OtherTypes, RequestTypes, llamaVars, vlmVars, reqVars
  <1>7. CASE UNCHANGED vars
    BY <1>7 DEF vars, TypeOK
  <1> QED BY <1>1, <1>2, <1>3, <1>4, <1>5, <1>6, <1>7, WarmupTypes, RequestStepTypes DEF Next, AllQuiet

(***************************************************************************)
(* The child                                                               *)
(***************************************************************************)
\* Every step keeps a living child in the hands of the current server.
LEMMA ChildStep ==
    ASSUME TypeOK, OnlyFailedKillsOrphan, [Next]_vars
    PROVE  OnlyFailedKillsOrphan'
  <1>1. LlamaTypes
    BY TypeParts
  <1>2. None \notin Warmups
    BY RuntimesAssumption
  <1>3. ASSUME UNCHANGED <<server, held, child>> PROVE OnlyFailedKillsOrphan'
    BY <1>3 DEF OnlyFailedKillsOrphan, Alive
  <1>4. ASSUME server' = server, child' = child, held' = AfterCheckExited(server) \/ held' = held
        PROVE  OnlyFailedKillsOrphan'
    BY <1>1, <1>4 DEF OnlyFailedKillsOrphan, Alive, AfterCheckExited, LlamaTypes
  <1>5. ASSUME NEW s, Stop(s), server' = server PROVE OnlyFailedKillsOrphan'
    <2>1. ASSUME NEW c \in Warmups, Alive(c)', child'[c] # "unkilled"
          PROVE  server # None /\ held'[server] = c
      <3>1. Alive(c) /\ server \in Warmups /\ held[server] = c
        BY <1>1, <1>5, <2>1 DEF OnlyFailedKillsOrphan, Alive, Stop, LlamaTypes
      <3>2. s # server
        <4> SUFFICES ASSUME s = server PROVE FALSE
          OBVIOUS
        <4>1. IsRunning(s)
          BY <1>2, <3>1 DEF IsRunning
        <4> QED BY <1>1, <1>5, <2>1, <3>1, <4>1 DEF Stop, Alive, LlamaTypes
      <3> QED BY <1>1, <1>2, <1>5, <3>1, <3>2 DEF Stop, LlamaTypes
    <2> QED BY <1>5, <2>1 DEF OnlyFailedKillsOrphan
  <1>6. ASSUME NEW c \in Warmups, ChildListens(c) \/ ChildDies(c) PROVE OnlyFailedKillsOrphan'
    <2>1. \A d \in Warmups : Alive(d)' => Alive(d) /\ (child[d] = "unkilled" => child'[d] = "unkilled")
      BY <1>1, <1>6 DEF ChildListens, ChildDies, Alive, LlamaTypes
    <2> QED BY <1>6, <2>1 DEF ChildListens, ChildDies, OnlyFailedKillsOrphan
  <1>7. ASSUME NEW w \in Warmups, NEW ready, StartLlama(w, ready) PROVE OnlyFailedKillsOrphan'
    <2> DEFINE s == IF server = None THEN w ELSE server
    <2>1. s \in Warmups /\ server' = s /\ (server # None => s = server)
      BY <1>1, <1>7 DEF StartLlama, LlamaTypes
    <2>2. CASE IsRunning(s) /\ UNCHANGED <<held, child>>
      <3>1. \A c \in Warmups :
              Alive(c)' => child'[c] = "unkilled" \/ (server # None /\ held[server] = c)
        BY <2>2 DEF OnlyFailedKillsOrphan, Alive
      <3> QED BY <1>2, <2>1, <2>2, <3>1 DEF OnlyFailedKillsOrphan
    <2>3. ASSUME ~IsRunning(s), NEW c \in Warmups PROVE Alive(c) => child[c] = "unkilled"
      <3> SUFFICES ASSUME Alive(c), child[c] # "unkilled" PROVE FALSE
        OBVIOUS
      <3>1. server # None /\ held[server] = c
        BY DEF OnlyFailedKillsOrphan
      <3> QED BY <1>2, <2>1, <2>3, <3>1 DEF IsRunning
    <2>4. CASE ~IsRunning(s) /\ child' = [child EXCEPT ![w] = "starting"] /\ held' = [held EXCEPT ![s] = w]
      <3>1. \A c \in Warmups : Alive(c)' => child'[c] = "unkilled" \/ c = w
        BY <1>1, <2>3, <2>4 DEF Alive, LlamaTypes
      <3>2. held'[s] = w /\ s # None
        BY <1>1, <1>2, <2>1, <2>4 DEF LlamaTypes
      <3> QED BY <2>1, <3>1, <3>2 DEF OnlyFailedKillsOrphan
    <2>5. CASE ~IsRunning(s) /\ child' = child
      BY <2>3, <2>5 DEF OnlyFailedKillsOrphan, Alive
    <2> HIDE DEF s
    <2>6. \/ IsRunning(s) /\ UNCHANGED <<held, child>>
          \/ ~IsRunning(s) /\ child' = [child EXCEPT ![w] = "starting"] /\ held' = [held EXCEPT ![s] = w]
          \/ ~IsRunning(s) /\ child' = child
      BY <1>7 DEF StartLlama, s
    <2> QED BY <2>2, <2>4, <2>5, <2>6
  <1>8. ASSUME NEW w \in Warmups, WarmupBegins(w) \/ WarmupStep(w) PROVE OnlyFailedKillsOrphan'
    <2>1. CASE VlmProbed(w)
      <3>1. \E ready : EnterLlama(w, ready)
        BY <2>1 DEF VlmProbed
      <3> QED BY <1>3, <1>7, <3>1 DEF EnterLlama
    <2>2. CASE StartupTimesOut(w)
      BY <1>5, <2>2 DEF StartupTimesOut
    <2>3. CASE WarmupBegins(w) \/ LmProbed(w) \/ LlamaVerified(w) \/ LlamaReady(w) \/ LlamaNotYet(w)
               \/ ChildFoundDead(w) \/ ProbesAgain(w)
      BY <1>3, <2>3 DEF WarmupBegins, LmProbed, LlamaVerified, LlamaReady, LlamaNotYet, ChildFoundDead,
                        ProbesAgain, llamaVars
    <2> QED BY <1>8, <2>1, <2>2, <2>3 DEF WarmupStep
  <1>9. ASSUME NEW r \in Requests, RequestStep(r) PROVE OnlyFailedKillsOrphan'
    <2>1. ASSUME NEW j, BeginsCheck(r, j), UNCHANGED <<server, child>> PROVE OnlyFailedKillsOrphan'
      BY <1>4, <2>1 DEF BeginsCheck
    <2>2. CASE GenerateArrives(r) \/ Acquires(r)
      BY <2>1, <2>2 DEF GenerateArrives, Acquires
    <2>3. CASE RequestRefused(r) \/ ChatArrives(r) \/ AcquireTimesOut(r) \/ CheckPasses(r) \/ CheckFails(r)
               \/ ForwardEnds(r)
      BY <1>3, <2>3 DEF RequestRefused, ChatArrives, AcquireTimesOut, CheckPasses, CheckFails, ForwardEnds,
                        llamaVars
    <2>4. CASE MlxGenerates(r) \/ MlxStreams(r) \/ MlxFirstToken(r) \/ MlxStreamEnds(r) \/ Cancel(r)
      BY <1>3, <2>4 DEF MlxGenerates, MlxStreams, MlxFirstToken, MlxStreamEnds, Cancel, llamaVars
    <2> QED BY <1>9, <2>2, <2>3, <2>4 DEF RequestStep
  <1>10. CASE LlamaHealth
    BY <1>4, <1>10 DEF LlamaHealth
  <1>11. CASE Unload
    <2>1. ASSUME NEW c \in Warmups PROVE Alive(c)' => child'[c] = "unkilled"
      <3>1. Alive(c) => child[c] = "unkilled" \/ (server # None /\ held[server] = c)
        BY DEF OnlyFailedKillsOrphan
      <3>2. CASE server = None
        BY <1>11, <3>1, <3>2 DEF Unload, UnloadAll, LlamaUnload, Alive
      <3>3. CASE server # None
        <4>1. Stop(server)
          BY <1>11, <3>3 DEF Unload, UnloadAll, LlamaUnload
        <4>2. CASE Alive(c) /\ child[c] # "unkilled"
          <5>1. IsRunning(server) /\ held[server] = c
            BY <1>2, <3>1, <4>2 DEF IsRunning
          <5> QED BY <1>1, <4>1, <5>1 DEF Stop, Alive, LlamaTypes
        <4>3. CASE ~Alive(c) \/ child[c] = "unkilled"
          BY <1>1, <4>1, <4>3 DEF Stop, Alive, LlamaTypes
        <4> QED BY <4>2, <4>3
      <3> QED BY <3>2, <3>3
    <2> QED BY <2>1 DEF OnlyFailedKillsOrphan
  <1>12. CASE Qualify \/ Tick \/ UNCHANGED vars \/ \E m \in VlmModels : VlmHealth(m)
    BY <1>3, <1>12 DEF Qualify, Tick, vars, VlmHealth, llamaVars
  <1> QED BY <1>6, <1>8, <1>9, <1>10, <1>11, <1>12 DEF Next, AllQuiet

(***************************************************************************)
(* The lifecycle                                                           *)
(***************************************************************************)
\* Every step that leaves the lifecycle at WARMING leaves a warmup under way.
LEMMA LifecycleStep ==
    ASSUME TypeOK, WarmingHasAWarmer, [Next]_vars
    PROVE  WarmingHasAWarmer'
  <1>1. wpc \in [Warmups -> WarmupPCs]
    BY DEF TypeOK
  <1>2. ASSUME lifecycle' \in {lifecycle, "ready", "failed", "unloaded"}, wpc' = wpc
        PROVE  WarmingHasAWarmer'
    BY <1>2 DEF WarmingHasAWarmer
  <1>3. ASSUME NEW w \in Warmups, NEW p, p \notin {"idle", "done"}, Goto(w, p) PROVE WarmingHasAWarmer'
    BY <1>1, <1>3 DEF WarmingHasAWarmer, Goto
  <1>4. ASSUME NEW w \in Warmups, NEW ready, Finish(w, ready) PROVE WarmingHasAWarmer'
    BY <1>4 DEF WarmingHasAWarmer, Finish
  <1>5. ASSUME NEW w \in Warmups, NEW ready, EnterLlama(w, ready) PROVE WarmingHasAWarmer'
    BY <1>3, <1>4, <1>5 DEF EnterLlama, StartLlama
  <1>6. ASSUME NEW w \in Warmups, WarmupBegins(w) \/ WarmupStep(w) PROVE WarmingHasAWarmer'
    <2>1. CASE WarmupBegins(w) \/ LmProbed(w) \/ LlamaNotYet(w) \/ ProbesAgain(w)
      BY <1>3, <2>1 DEF WarmupBegins, LmProbed, LlamaNotYet, ProbesAgain
    <2>2. CASE VlmProbed(w)
      BY <1>5, <2>2 DEF VlmProbed
    <2>3. CASE LlamaVerified(w) \/ LlamaReady(w) \/ StartupTimesOut(w) \/ ChildFoundDead(w)
      BY <1>4, <2>3 DEF LlamaVerified, LlamaReady, StartupTimesOut, ChildFoundDead
    <2> QED BY <1>6, <2>1, <2>2, <2>3 DEF WarmupStep
  <1>7. ASSUME NEW r \in Requests, RequestStep(r) PROVE WarmingHasAWarmer'
    <2>1. CASE MlxGenerates(r) \/ MlxStreams(r)
      BY <1>2, <2>1 DEF MlxGenerates, MlxStreams, EnsureLoaded
    <2>2. CASE RequestRefused(r) \/ ChatArrives(r) \/ GenerateArrives(r) \/ Acquires(r) \/ AcquireTimesOut(r)
               \/ CheckPasses(r) \/ CheckFails(r) \/ ForwardEnds(r)
      BY <1>2, <2>2 DEF RequestRefused, ChatArrives, GenerateArrives, Acquires, AcquireTimesOut, CheckPasses,
                        CheckFails, ForwardEnds, warmVars
    <2>3. CASE MlxFirstToken(r) \/ MlxStreamEnds(r) \/ Cancel(r)
      BY <1>2, <2>3 DEF MlxFirstToken, MlxStreamEnds, Cancel, warmVars
    <2> QED BY <1>7, <2>1, <2>2, <2>3 DEF RequestStep
  <1>8. ASSUME NEW c \in Warmups, ChildListens(c) \/ ChildDies(c) PROVE WarmingHasAWarmer'
    BY <1>2, <1>8 DEF ChildListens, ChildDies, warmVars
  <1>9. CASE Qualify \/ LlamaHealth \/ Unload \/ Tick \/ UNCHANGED vars \/ \E m \in VlmModels : VlmHealth(m)
    BY <1>2, <1>9 DEF Qualify, LlamaHealth, Unload, Tick, vars, VlmHealth, warmVars
  <1> QED BY <1>6, <1>7, <1>8, <1>9 DEF Next, AllQuiet

(***************************************************************************)
(* Semaphores, evidence and the model under a stream                       *)
(***************************************************************************)
InAdapter == {"checking", "forwarding"}

\* Every step keeps the semaphores within their size and with the requests that
\* are in the adapter.
LEMMA SemaphoreStep ==
    ASSUME TypeOK, SemaphoreBounds, [Next]_vars
    PROVE  SemaphoreBounds'
  <1>1. RequestTypes /\ IsFiniteSet(Requests) /\ MaxConcurrent \in Nat
    BY TypeParts, RuntimesAssumption
  <1>2. /\ \A l \in Lanes : Cardinality(LaneHolders(l)) <= MaxConcurrent
        /\ \A r \in Requests : r \in holders <=> TakesSemaphore(rq[r]) /\ rpc[r] \in InAdapter
    BY DEF SemaphoreBounds, InAdapter
  <1>3. \A l : IsFiniteSet(LaneHolders(l)) /\ Cardinality(LaneHolders(l)) \in Nat
    <2>1. \A l : LaneHolders(l) \subseteq Requests
      BY <1>1 DEF LaneHolders, RequestTypes
    <2> QED BY <1>1, <2>1, FS_Subset, FS_CardinalityType
  <1>4. ASSUME \A l \in Lanes : LaneHolders(l)' \subseteq LaneHolders(l),
               \A q \in Requests : q \in holders' <=> TakesSemaphore(rq'[q]) /\ rpc'[q] \in InAdapter
        PROVE  SemaphoreBounds'
    <2>1. ASSUME NEW l \in Lanes PROVE Cardinality(LaneHolders(l)') <= MaxConcurrent
      <3>1. /\ Cardinality(LaneHolders(l)') <= Cardinality(LaneHolders(l))
            /\ IsFiniteSet(LaneHolders(l)')
        BY <1>3, <1>4, FS_Subset
      <3>2. Cardinality(LaneHolders(l)') \in Nat
        BY <3>1, FS_CardinalityType
      <3> QED BY <1>1, <1>2, <1>3, <3>1, <3>2
    <2> QED BY <1>4, <2>1 DEF SemaphoreBounds, InAdapter
  <1>5. ASSUME UNCHANGED <<rq, rpc, holders>> PROVE SemaphoreBounds'
    BY <1>2, <1>4, <1>5 DEF LaneHolders
  <1>6. ASSUME NEW r \in Requests, r \notin holders, holders' = holders,
               \A q \in Requests \ {r} : rq'[q] = rq[q] /\ rpc'[q] = rpc[q],
               ~(TakesSemaphore(rq'[r]) /\ rpc'[r] \in InAdapter)
        PROVE  SemaphoreBounds'
    <2>1. \A l \in Lanes : LaneHolders(l)' \subseteq LaneHolders(l)
      BY <1>1, <1>6 DEF LaneHolders, RequestTypes
    <2>2. ASSUME NEW q \in Requests
          PROVE  q \in holders' <=> TakesSemaphore(rq'[q]) /\ rpc'[q] \in InAdapter
      BY <1>2, <1>6
    <2> QED BY <1>4, <2>1, <2>2
  <1>7. ASSUME NEW r \in Requests, ReqEnds(r) PROVE SemaphoreBounds'
    <2>1. /\ rpc'[r] = "done" /\ holders' = holders \ {r}
          /\ \A q \in Requests \ {r} : rq'[q] = rq[q] /\ rpc'[q] = rpc[q]
      BY <1>1, <1>7 DEF ReqEnds, ReqGoto, RequestTypes
    <2>2. \A l \in Lanes : LaneHolders(l)' \subseteq LaneHolders(l)
      BY <1>1, <2>1 DEF LaneHolders, RequestTypes
    <2>3. ASSUME NEW q \in Requests
          PROVE  q \in holders' <=> TakesSemaphore(rq'[q]) /\ rpc'[q] \in InAdapter
      BY <1>2, <2>1 DEF InAdapter
    <2> QED BY <1>4, <2>2, <2>3
  <1>8. ASSUME NEW r \in Requests, rpc[r] = "idle" PROVE r \notin holders
    BY <1>2, <1>8 DEF InAdapter
  <1>9. ASSUME NEW r \in Requests, Acquires(r) PROVE SemaphoreBounds'
    <2>1. /\ rpc[r] = "acquiring" /\ BeginsCheck(r, rq[r])
          /\ Cardinality(LaneHolders(rq[r].lane)) < MaxConcurrent
      BY <1>9 DEF Acquires
    <2>2. CASE /\ ReqGoto(r, "checking") /\ rq' = [rq EXCEPT ![r] = rq[r]]
               /\ holders' = IF TakesSemaphore(rq[r]) THEN holders \cup {r} ELSE holders
      <3>1. rq' = rq /\ rpc'[r] = "checking" /\ \A q \in Requests \ {r} : rpc'[q] = rpc[q]
        BY <1>1, <2>2 DEF ReqGoto, RequestTypes
      <3>2. r \notin holders
        BY <1>2, <2>1 DEF InAdapter
      <3>3. ASSUME NEW q \in Requests
            PROVE  q \in holders' <=> TakesSemaphore(rq'[q]) /\ rpc'[q] \in InAdapter
        BY <1>2, <2>2, <3>1, <3>2 DEF InAdapter
      <3>4. ASSUME NEW l \in Lanes PROVE Cardinality(LaneHolders(l)') <= MaxConcurrent
        <4>1. CASE l # rq[r].lane \/ holders' = holders
          <5>1. LaneHolders(l)' = LaneHolders(l)
            BY <2>2, <3>1, <4>1 DEF LaneHolders
          <5> QED BY <1>2, <5>1
        <4>2. CASE l = rq[r].lane /\ holders' # holders
          <5>1. LaneHolders(l)' = LaneHolders(l) \cup {r} /\ r \notin LaneHolders(l)
            BY <2>2, <3>1, <3>2, <4>2 DEF LaneHolders
          <5>2. Cardinality(LaneHolders(l) \cup {r}) = Cardinality(LaneHolders(l)) + 1
            BY <1>3, <5>1, FS_AddElement
          <5>3. Cardinality(LaneHolders(l)) < MaxConcurrent /\ Cardinality(LaneHolders(l)) \in Nat
            BY <1>3, <2>1, <4>2
          <5> QED BY <1>1, <5>1, <5>2, <5>3
        <4> QED BY <4>1, <4>2
      <3> QED BY <3>3, <3>4 DEF SemaphoreBounds, InAdapter
    <2> QED BY <1>7, <2>1, <2>2 DEF BeginsCheck
  <1>10. ASSUME NEW r \in Requests, GenerateArrives(r) PROVE SemaphoreBounds'
    <2>1. PICK j \in Jobs : ~TakesSemaphore(j) /\ BeginsCheck(r, j)
      BY <1>10 DEF GenerateArrives
    <2>2. CASE /\ ReqGoto(r, "checking") /\ rq' = [rq EXCEPT ![r] = j]
               /\ holders' = IF TakesSemaphore(j) THEN holders \cup {r} ELSE holders
      <3>1. /\ rq'[r] = j /\ holders' = holders
            /\ \A q \in Requests \ {r} : rq'[q] = rq[q] /\ rpc'[q] = rpc[q]
        BY <1>1, <2>1, <2>2 DEF ReqGoto, RequestTypes
      <3>2. r \notin holders
        BY <1>8, <1>10 DEF GenerateArrives
      <3> QED BY <1>6, <2>1, <3>1, <3>2
    <2> QED BY <1>7, <2>1, <2>2 DEF BeginsCheck
  <1>11. ASSUME NEW r \in Requests, RequestRefused(r) \/ ChatArrives(r) \/ MlxGenerates(r) \/ MlxStreams(r)
         PROVE  SemaphoreBounds'
    <2>1. /\ rpc[r] = "idle" /\ holders' = holders
          /\ ReqGoto(r, "done") \/ ReqGoto(r, "acquiring") \/ ReqGoto(r, "role")
          /\ rq' = rq \/ \E j : rq' = [rq EXCEPT ![r] = j]
      BY <1>11 DEF RequestRefused, ChatArrives, MlxGenerates, MlxStreams
    <2>2. /\ rpc'[r] \notin InAdapter
          /\ \A q \in Requests \ {r} : rq'[q] = rq[q] /\ rpc'[q] = rpc[q]
      BY <1>1, <2>1 DEF ReqGoto, RequestTypes, InAdapter
    <2> QED BY <1>6, <1>8, <2>1, <2>2
  <1>12. ASSUME NEW r \in Requests, MlxFirstToken(r) \/ MlxStreamEnds(r) PROVE SemaphoreBounds'
    <2>1. /\ rpc[r] \in {"role", "generating"} /\ holders' = holders /\ rq' = rq
          /\ ReqGoto(r, "done") \/ ReqGoto(r, "generating")
      BY <1>12 DEF MlxFirstToken, MlxStreamEnds
    <2>2. /\ rpc'[r] \notin InAdapter /\ rpc[r] \notin InAdapter
          /\ \A q \in Requests \ {r} : rq'[q] = rq[q] /\ rpc'[q] = rpc[q]
      BY <1>1, <2>1 DEF ReqGoto, RequestTypes, InAdapter
    <2> QED BY <1>2, <1>6, <2>1, <2>2
  <1>13. ASSUME NEW r \in Requests, CheckPasses(r) PROVE SemaphoreBounds'
    <2>1. rpc[r] = "checking" /\ ReqGoto(r, "forwarding") /\ holders' = holders /\ rq' = rq
      BY <1>13 DEF CheckPasses
    <2>2. \A q \in Requests : rpc'[q] \in InAdapter <=> rpc[q] \in InAdapter
      BY <1>1, <2>1 DEF ReqGoto, RequestTypes, InAdapter
    <2>3. \A l \in Lanes : LaneHolders(l)' \subseteq LaneHolders(l)
      BY <2>1 DEF LaneHolders
    <2> QED BY <1>2, <1>4, <2>1, <2>2, <2>3
  <1>14. ASSUME NEW r \in Requests, AcquireTimesOut(r) \/ CheckFails(r) \/ ForwardEnds(r) \/ Cancel(r)
         PROVE  SemaphoreBounds'
    BY <1>5, <1>7, <1>14 DEF AcquireTimesOut, CheckFails, ForwardEnds, Cancel
  <1>15. ASSUME NEW w \in Warmups, WarmupBegins(w) \/ WarmupStep(w) PROVE SemaphoreBounds'
    BY <1>5, <1>15 DEF WarmupBegins, WarmupStep, LmProbed, VlmProbed, LlamaVerified, LlamaReady, LlamaNotYet,
                       StartupTimesOut, ChildFoundDead, ProbesAgain, reqVars
  <1>16. ASSUME NEW c \in Warmups, ChildListens(c) \/ ChildDies(c) PROVE SemaphoreBounds'
    BY <1>5, <1>16 DEF ChildListens, ChildDies, reqVars
  <1>17. CASE Qualify \/ LlamaHealth \/ Unload \/ Tick \/ UNCHANGED vars \/ \E m \in VlmModels : VlmHealth(m)
    BY <1>5, <1>17 DEF Qualify, LlamaHealth, Unload, Tick, vars, VlmHealth, reqVars
  <1> QED BY <1>9, <1>10, <1>11, <1>12, <1>13, <1>14, <1>15, <1>16, <1>17 DEF Next, RequestStep, AllQuiet

\* Every step keeps the evidence about the model that is served.
LEMMA EvidenceStep ==
    ASSUME TypeOK, EvidenceIsCurrent, [Next]_vars
    PROVE  EvidenceIsCurrent'
  <1>1. ASSUME UNCHANGED vlmVars PROVE EvidenceIsCurrent'
    BY <1>1 DEF EvidenceIsCurrent, vlmVars
  <1>2. ASSUME NEW m, Observe(m) PROVE EvidenceIsCurrent'
    BY <1>2 DEF EvidenceIsCurrent, Observe
  <1>3. ASSUME NEW w \in Warmups, WarmupBegins(w) \/ WarmupStep(w) PROVE EvidenceIsCurrent'
    <2>1. CASE VlmProbed(w)
      BY <1>1, <1>2, <2>1 DEF VlmProbed, vlmVars
    <2>2. CASE ~VlmProbed(w)
      BY <1>1, <1>3, <2>2 DEF WarmupBegins, WarmupStep, LmProbed, LlamaVerified, LlamaReady, LlamaNotYet,
                              StartupTimesOut, ChildFoundDead, ProbesAgain
    <2> QED BY <2>1, <2>2
  <1>4. ASSUME NEW r \in Requests, RequestStep(r) PROVE EvidenceIsCurrent'
    <2>1. CASE CheckPasses(r)
      BY <1>1, <1>2, <2>1 DEF CheckPasses
    <2>2. CASE RequestRefused(r) \/ ChatArrives(r) \/ GenerateArrives(r) \/ Acquires(r) \/ AcquireTimesOut(r)
               \/ CheckFails(r) \/ ForwardEnds(r)
      BY <1>1, <2>2 DEF RequestRefused, ChatArrives, GenerateArrives, Acquires, AcquireTimesOut, CheckFails,
                        ForwardEnds
    <2>3. CASE MlxGenerates(r) \/ MlxStreams(r) \/ MlxFirstToken(r) \/ MlxStreamEnds(r) \/ Cancel(r)
      BY <1>1, <2>3 DEF MlxGenerates, MlxStreams, MlxFirstToken, MlxStreamEnds, Cancel
    <2> QED BY <1>4, <2>1, <2>2, <2>3 DEF RequestStep
  <1>5. ASSUME NEW c \in Warmups, ChildListens(c) \/ ChildDies(c) PROVE EvidenceIsCurrent'
    BY <1>1, <1>5 DEF ChildListens, ChildDies
  <1>6. CASE LlamaHealth \/ Tick
    BY <1>1, <1>6 DEF LlamaHealth, Tick
  <1>7. CASE UNCHANGED vars
    BY <1>1, <1>7 DEF vars, vlmVars
  <1>8. CASE Unload \/ Qualify
    BY <1>8 DEF Unload, UnloadAll, VlmUnload, Qualify, EvidenceIsCurrent
  <1>9. CASE \E m \in VlmModels : VlmHealth(m)
    BY <1>2, <1>9 DEF VlmHealth
  <1> QED BY <1>3, <1>4, <1>5, <1>6, <1>7, <1>8, <1>9 DEF Next, AllQuiet

\* Every step leaves an active stream its model.
LEMMA StreamModelStep ==
    ASSUME TypeOK, StreamsKeepTheirModel, [Next]_vars
    PROVE  StreamsKeepTheirModel'
  <1>1. RequestTypes
    BY TypeParts
  <1> DEFINE Streaming == {"role", "generating"}
  <1>2. ASSUME mlxLoaded => mlxLoaded',
               \A r \in active' : rpc'[r] \in Streaming => r \in active /\ rpc[r] \in Streaming
        PROVE  StreamsKeepTheirModel'
    BY <1>2 DEF StreamsKeepTheirModel
  <1>3. ASSUME NEW ok, EnsureLoaded(ok) PROVE mlxLoaded => mlxLoaded'
    BY <1>3 DEF EnsureLoaded
  <1>4. ASSUME NEW r \in Requests, mlxLoaded => mlxLoaded', active' \subseteq active \cup {r},
               NEW p, p \notin Streaming, ReqGoto(r, p)
        PROVE  StreamsKeepTheirModel'
    BY <1>1, <1>2, <1>4 DEF ReqGoto, RequestTypes
  <1>5. ASSUME NEW r \in Requests, MlxStreams(r) PROVE StreamsKeepTheirModel'
    <2>1. mlxLoaded'
      BY <1>5 DEF MlxStreams, EnsureLoaded
    <2> QED BY <2>1 DEF StreamsKeepTheirModel
  <1>6. ASSUME NEW r \in Requests, MlxFirstToken(r) PROVE StreamsKeepTheirModel'
    <2>1. CASE mlxLoaded
      BY <1>6, <2>1 DEF MlxFirstToken, StreamsKeepTheirModel
    <2>2. CASE ~mlxLoaded
      BY <1>4, <1>6, <2>2 DEF MlxFirstToken
    <2> QED BY <2>1, <2>2
  <1>7. ASSUME NEW r \in Requests, MlxGenerates(r) \/ MlxStreamEnds(r) PROVE StreamsKeepTheirModel'
    BY <1>4, <1>7 DEF MlxGenerates, MlxStreamEnds
  <1>8. ASSUME NEW r \in Requests, NEW j, BeginsCheck(r, j), mlxLoaded' = mlxLoaded
        PROVE  StreamsKeepTheirModel'
    BY <1>4, <1>8 DEF BeginsCheck, ReqEnds
  <1>9. ASSUME NEW r \in Requests, GenerateArrives(r) \/ Acquires(r) PROVE StreamsKeepTheirModel'
    BY <1>8, <1>9 DEF GenerateArrives, Acquires
  <1>10. ASSUME NEW r \in Requests, RequestRefused(r) \/ ChatArrives(r) \/ AcquireTimesOut(r) \/ CheckPasses(r)
                                     \/ CheckFails(r) \/ ForwardEnds(r)
         PROVE  StreamsKeepTheirModel'
    BY <1>4, <1>10 DEF RequestRefused, ChatArrives, AcquireTimesOut, CheckPasses, CheckFails, ForwardEnds, ReqEnds
  <1>11. ASSUME NEW r \in Requests, Cancel(r) PROVE StreamsKeepTheirModel'
    BY <1>2, <1>11 DEF Cancel
  <1>12. ASSUME NEW w \in Warmups, WarmupBegins(w) \/ WarmupStep(w) PROVE StreamsKeepTheirModel'
    <2>1. CASE LmProbed(w)
      BY <1>2, <1>3, <2>1 DEF LmProbed, reqVars
    <2>2. CASE ~LmProbed(w)
      BY <1>2, <1>12, <2>2 DEF WarmupBegins, WarmupStep, VlmProbed, LlamaVerified, LlamaReady, LlamaNotYet,
                               StartupTimesOut, ChildFoundDead, ProbesAgain, reqVars
    <2> QED BY <2>1, <2>2
  <1>13. ASSUME NEW c \in Warmups, ChildListens(c) \/ ChildDies(c) PROVE StreamsKeepTheirModel'
    BY <1>2, <1>13 DEF ChildListens, ChildDies, reqVars
  <1>14. CASE Unload
    BY <1>14 DEF Unload, reqVars, StreamsKeepTheirModel
  <1>15. CASE Qualify \/ LlamaHealth \/ Tick \/ UNCHANGED vars \/ \E m \in VlmModels : VlmHealth(m)
    BY <1>2, <1>15 DEF Qualify, LlamaHealth, Tick, vars, VlmHealth, reqVars
  <1> QED BY <1>5, <1>6, <1>7, <1>9, <1>10, <1>11, <1>12, <1>13, <1>14, <1>15 DEF Next, RequestStep, AllQuiet

(***************************************************************************)
(* The theorems                                                            *)
(***************************************************************************)
\* The initial state satisfies every part of the invariant.
LEMMA RuntimesBegin ==
    ASSUME Init
    PROVE  /\ TypeOK /\ OnlyFailedKillsOrphan /\ WarmingHasAWarmer /\ SemaphoreBounds /\ EvidenceIsCurrent
           /\ StreamsKeepTheirModel
  <1>1. TypeOK
    <2>1. 0 \in 0..StartupTimeout /\ "idle" \in WarmupPCs /\ "idle" \in RequestPCs
      BY RuntimesAssumption DEF WarmupPCs, RequestPCs
    <2> QED BY <2>1 DEF Init, TypeOK, ChildStates
  <1>2. OnlyFailedKillsOrphan /\ WarmingHasAWarmer /\ EvidenceIsCurrent /\ StreamsKeepTheirModel
    BY DEF Init, OnlyFailedKillsOrphan, Alive, WarmingHasAWarmer, EvidenceIsCurrent, StreamsKeepTheirModel
  <1>3. SemaphoreBounds
    <2>1. \A l : LaneHolders(l) = {}
      BY DEF Init, LaneHolders
    <2>2. Cardinality({}) = 0 /\ 0 <= MaxConcurrent
      BY RuntimesAssumption, FS_EmptySet
    <2>3. \A r \in Requests : r \notin holders /\ rpc[r] = "idle"
      BY DEF Init
    <2> QED BY <2>1, <2>2, <2>3 DEF SemaphoreBounds
  <1> QED BY <1>1, <1>2, <1>3

\* A failed kill is the only way to lose a llama-server child: every other living child
\* is held by the adapter's current server, so unload and restart can stop it, however
\* warmups, readiness timeouts, crashes and unloads overlap (LlamaCppAdapter,
\* ManagedLlamaServer.stop).
THEOREM ChildrenAreHeld == Spec => []OnlyFailedKillsOrphan
  <1>1. Init => TypeOK /\ OnlyFailedKillsOrphan
    BY RuntimesBegin
  <1>2. (TypeOK /\ OnlyFailedKillsOrphan) /\ [Next]_vars => (TypeOK /\ OnlyFailedKillsOrphan)'
    BY TypeStep, ChildStep
  <1> QED BY <1>1, <1>2, PTL DEF Spec

\* The lifecycle says WARMING only while some warmup call is still under way: no
\* overlap of warmups, loads and unloads leaves it there (model_warmup, Finish).
THEOREM WarmingEndsWithItsWarmers == Spec => []WarmingHasAWarmer
  <1>1. Init => TypeOK /\ WarmingHasAWarmer
    BY RuntimesBegin
  <1>2. (TypeOK /\ WarmingHasAWarmer) /\ [Next]_vars => (TypeOK /\ WarmingHasAWarmer)'
    BY TypeStep, LifecycleStep
  <1> QED BY <1>1, <1>2, PTL DEF Spec

\* Semaphores bound what an adapter works on and are never lost, and evidence about a
\* vision model is about the model the server reports now (_acquire_slot, the finally
\* clauses, _observe_upstream_model).
THEOREM AdaptersStayConsistent == Spec => []AdaptersConsistent
  <1> DEFINE Inv == TypeOK /\ SemaphoreBounds /\ EvidenceIsCurrent
  <1>1. Init => Inv
    BY RuntimesBegin
  <1>2. Inv /\ [Next]_vars => Inv'
    BY TypeStep, SemaphoreStep, EvidenceStep
  <1>3. Inv => AdaptersConsistent
    BY DEF AdaptersConsistent
  <1> QED BY <1>1, <1>2, <1>3, PTL DEF Spec

\* Unload never takes the in-process model from under a stream that is running and
\* that nobody cancelled (model_unload's active check, MLXInferenceAdapter.unload).
THEOREM ModelStaysUnderItsStreams == Spec => []StreamsKeepTheirModel
  <1>1. Init => TypeOK /\ StreamsKeepTheirModel
    BY RuntimesBegin
  <1>2. (TypeOK /\ StreamsKeepTheirModel) /\ [Next]_vars => (TypeOK /\ StreamsKeepTheirModel)'
    BY TypeStep, StreamModelStep
  <1> QED BY <1>1, <1>2, PTL DEF Spec

===============================================================================
