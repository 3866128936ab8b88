# Whoosh'd: TLA+ models, checks and proofs

Whoosh'd is an inference broker: one asyncio process that accepts OpenAI-style
requests, decides whether each may run, must wait or is refused, and forwards
it to an in-process or managed backend. This directory holds TLA+ models of the
broker, the TLC configurations that check them, and theorems checked by TLAPS.
Paths below are relative to `src/whooshd/` unless they start with `docs/`.

## 1. Inventory

| Part | State | Operations | Hard behaviour |
|---|---|---|---|
| HTTP handlers (`app.py`) | none of their own; a handler is suspended at an `await` | chat completions, generate, SSE body, cancel, warmup, unload | handlers interleave at every `await`; the cancel endpoint hits a request anywhere |
| Request queue (`queue.py`) | deque of entries, grant flags, deadlines, capacity event | enqueue, select_and_dequeue, remove, wait_for_execution | the waiter that selects is not the one that runs; deadlines pass between a grant and its use |
| Scheduler (`scheduler.py`) | bypass counts | choose_next (FIFO, cache-aware) | fairness bound under lane filtering |
| Lifecycle and counters (`runtime/__init__.py`) | records, reservations, cancellation tokens, counters | begin, mark_*, complete, cancel, fail, reserve, release | counters are recomputed from two collections; terminal states |
| Admission and capacity (`admission.py`, `capacity_controller.py`, `capacity_profile.py`) | cached calibration profile | evaluate, effective_active_limit | the limit changes under running work |
| Context policy (`capacity_context.py`) | profile file and its cache | token estimates and budget bands | boundaries, unknown costs, a profile rewritten under the cache |
| Model lifecycle (`app.py`, `runtime/__init__.py`, `routing.py`) | lifecycle state | warmup, unload | test of idleness, then an `await` |
| Managed backends (`adapters/llama_cpp.py`, `mlx_lm_server.py`, `mlx_vlm.py`) | child process, lane semaphore, bound model | start, wait until ready, stop, restart, acquire slot | crash while starting, readiness timeout, a cancelled request still holding the semaphore |
| Routing and registries (`routing.py`, `registry.py`, `model_registry/`, `models/`) | adapters, registered models on disk | resolve, register, inventory | resolution order, partial writes |
| ThreadWake (`runtime/threadwake/`) | prefix index, thread tips, KV handles, artifact store | observe, put, get, mark_ready, evict, flush, ephemeral execution | an index entry that outlives its handle; eviction against use |
| Continuous batching prototypes (`continuous_*.py`, `token_step_scheduler.py`, `mlx_slot_lifecycle.py`, ...) | slots, streams, step counters | admit, step, cancel, time out, release | a failure in a shared step; order of tokens per stream |
| Batching (`batching.py`, `guarded_adapter_batching.py`) | none | group by compatibility | limits, isolation of failures |
| CLI (`cli.py`) | pid and nonce files | start, stop, status | process numbers used again, interrupted commands |
| Forwarding and request policy (`http_forwarding.py`, `backend_request_policy.py`) | none | filter fields, forward, stream | a stream that breaks after output, cancellation in mid-stream |
| Log safety, config | none | redaction, parsing | pure |

What makes the parts correct:

* *queue*: each waiting handler is in the deque exactly once; nobody is
  forgotten; nobody runs after its deadline; each lane is served in order;
* *lifecycle*: a slot has exactly one owner; an ended record stays ended; the
  counters agree with the requests they count;
* *admission*: neither the broker nor a lane is over-committed, even in the gap
  between a grant and the waking of the granted waiter, and even when the limit
  has just been lowered; a request is refused for its context exactly when a
  profile in force gives it too little room;
* *runtimes*: no child process is orphaned, but by a kill that failed, no warmup
  hangs, no semaphore slot leaks, no model is unloaded under a running stream;
* *forwarding*: the client gets the upstream's chunks in order and is told of a
  failure whenever there was one; canonical fields and the extensions an adapter
  declares arrive, other names that look like inference are refused, and the rest
  is dropped;
* *ThreadWake*: the id a hit passes on names exactly the request's prefix, within
  its scope, and what is computed on it is the whole prompt;
  index, LRU list and handles agree; snapshot rows are never lost silently;
* *continuous batching*: a slot has one owner and an id one slot, unless it is
  admitted again while it runs; streams are ordered, sequences do not disturb each
  other;
* *models*: registrations survive crashes and name whole copies; the registry is
  authoritative; a listed model is served as listed, up to stray files beside it,
  with the path its own request found;
* *daemon*: while the recorded daemon lives, a stop signals nothing else, and the
  files keep naming it.

## 2. Modules

| Module | Models |
|---|---|
| `CapacityController` | operators: the limit in force and the verdict on a request |
| `Scheduler` | operators: which queue position the policy selects, which counts it raises |
| `Broker` | the request path: handlers, queue, records, reservations, cancellation, deadlines; extends the two above |
| `SlotPool` | abstract specification: what the broker promises about execution slots |
| `Runtimes` | warmup and unload endpoints, published lifecycle, the llama-server child, adapter semaphores, in-process streams, vision evidence |
| `Forwarding` | one exchange with an upstream server: field policy, body, status, stream, record |
| `Prompts` | operators: segments, stable prefix, tokenizers, cache key |
| `ThreadWake` | the prefix index, session tips, observation, execution and flush; extends `Prompts` |
| `Snapshots` | snapshot planning from candidate to validation, the artifact registry and the store |
| `KVLifecycle` | the ring buffer of KV events |
| `Continuous` | the continuous scheduler and the stream demultiplexer |
| `TokenSteps` | the token-step schedule and its backend |
| `ModelStore` | bootstrap, inspection, registration and advertisement of managed models |
| `ExternalModels` | operators: what is listed from external roots, and how a listed id becomes a file |
| `Catalog` | registry, router, path binding and model lists; extends `ExternalModels` |
| `ContextPolicy` | capacity profile file and cache, costs, budgets |
| `Batching` | grouping of queued candidates, one anchor, removal and group at a time |
| `Daemon` | `whoosh up` and `whoosh down`, process groups, the two files |
| `MCBroker`, `MCRuntimes`, `MCThreadWake`, `MCContinuous`, `MCOffline` | instances for TLC |
| `BrokerProofs` | lemmas about the operators, the inductive invariant, types, queue integrity, capacity and lane bounds, who may take a slot, ended records, deadlines |
| `RecordProofs` | who owns a slot, what the counters say, order of service, bypasses, refinement of `SlotPool`; extends `BrokerProofs` |
| `RuntimeProofs` | theorems about `Runtimes` |
| `ThreadWakeProofs` | theorems about `ThreadWake` and `Prompts` |
| `RequestPathProofs` | theorems about `ContextPolicy`, `Forwarding` and `Catalog` |
| `StorageProofs` | theorems about `KVLifecycle`, `ModelStore` and `Snapshots` |
| `ContinuousProofs` | theorems about `Continuous`, `TokenSteps` and `Batching` |
| `DaemonProofs` | theorems about `Daemon` |

Definitions commented "Faulty variant" are not part of the model. Each is a
plausible mistake in the definition that follows it; `PROJECT.json` lists, for
each property, the variant that must break it. Names such as `Tick0` carry a
digit only to stay apart from another module's in `MCOffline`.

### Broker: state and actions

The broker runs on one event loop, so the code between two `await`s is atomic.
Each action is such a stretch of one handler; an interleaving of actions is an
interleaving of coroutines.

| Variable | Code |
|---|---|
| `req` | what the client sent: lane (after route resolution), kind, cache hint |
| `pc` | where the handler is suspended: not sent, in `wait_for_execution`, awaiting the adapter, in the SSE body, returned |
| `status` | `_RequestRecord.status`; `"none"` when there is no record |
| `token` | `CancellationToken` set |
| `queue`, `granted`, `remaining` | `RequestQueue._deque`, `QueueEntry.granted`, `deadline_at - monotonic()` |
| `bypass` | `Scheduler._bypass_counts` |
| `reservations` | `RuntimeState._reservations` |
| `profile` | the calibration profile file, as its recommended concurrency |
| `gone` | the client has disconnected |
| `tally` | `total_queued`, `total_dequeued`, `total_queue_timeout`, `total_queue_cancelled` |

`ACCEPTED` is entered and left within one stretch, so no other coroutine sees
it. Arrival is `Refuse`, `ChatRuns`, `ChatQueues`, `ChatOverloaded`,
`GenerateRuns`, `GenerateOverloaded`. One iteration of the wait loop, together
with what the handler does when the loop returns, is one of the eight actions of
`Poll`. The adapter's answers are `AdapterStep`. `CancelEndpoint`,
`ClientHangsUp`, `Tick` and `Recalibrate` are the rest of the world.

Abstractions: the structural refusals (too many messages, prompt too large,
unknown model, context budget, images, unsupported fields) are one action that
leaves no record; an adapter returns, fails or streams at any moment; a profile
that is missing, malformed or for another host is "no profile"; time is counted
in ticks and only the time left to each entry is kept. `cache_ready` is read by
`build_candidates` but set only by `tests/test_queue_execution_ownership.py`;
no handler sets it. Runs with `CacheHints = {FALSE, TRUE}` check the queue as
those tests drive it, all other runs have `{FALSE}`.

The live batch attempt between the queue and the adapter is left out because it
never does anything: `find_batch_group` looks for the selected request in the
deque, which it has already left.

### Runtimes

An action is a stretch of a coroutine between two suspensions; a warmup is at
`wpc` and a request at `rpc`, and every stretch of one may fall between two of
another. `awaited` and `left` are the server and the deadline a warmup took
before an `await` and uses after it. The llama-server child lives, becomes
ready, crashes or is stopped (`Alive`, `held`, `server`). A kill may fail: the
wait after it times out, the failure is logged (`kill_failed`) and the reference
dropped all the same (`adapters/llama_cpp.py:366-380`), so a living child is
left that nobody holds. `OnlyFailedKillsOrphan` says that nothing else leaves
one; `evidence` is what the vision adapter knows about the model it `observed`.
The mlx servers are external processes: the classes that would manage a child
for them (`ManagedMlxLmServer`, `ManagedMlxVlmServer`) are created nowhere.

What the model shows and no property forbids: the deadline of an earlier warmup
can stop the child a later warmup started; a warmup that overlaps an unload can
publish READY with nothing loaded; a stream whose request was cancelled can lose
its model to an unload, whose generation then fails on `None` and leaves the
runtime DEGRADED; a llama adapter without configuration always reports a warmup
as ready, so `fail_warmup` is unreachable by default.

### Forwarding

One request, from the field policy (before a record exists) to the end of the
body. The first chunk is fetched ahead of the response, so an upstream that
fails early is a plain error answer, and later an error frame. Upstream lines
are chunks, malformed frames, `[DONE]` or noise. What the model shows: the
upstream's own `[DONE]` is ignored, so a stream closed cleanly but early counts
as complete; malformed frames are dropped without a trace; an upstream that
fails after output leaves a CANCELLED record, counted as a disconnect of the
client; internal field prefixes win over inference names; a name that neither is
declared nor looks like inference is dropped silently, so
`InferenceFieldsArrive` is about the others.

The body yields its `[DONE]` and completes the record afterwards (`BodyEnds`); a
client that leaves at the `[DONE]` has its record cancelled. `ClientLeaves` closes
the body only: the generator that reads the upstream is closed by its finalizer,
later (`FinalizerCloses`).

### Prompts, ThreadWake, Snapshots, KVLifecycle

A hash is the value it is taken of; a segment is one token. Each manager
operation runs without suspension and is one action; a request is `pending`
between its observation (on arrival) and its execution (after admission), which
is where other requests and flushes come in. Line endings are made equal before
content is hashed (`Canonical`), tool schemas and the tool choice are segments,
and requests with images are not eligible. The mlx tokenizer reads the raw text;
its key and the stable prefix are canonical.

The index keeps a handle's id; the model keeps with it what was prefilled under
it and for whom. A hit and a continuation build a new handle from the id alone
(`Reopened`, `runtime/threadwake/manager.py:416-421` and `530-542`), without the
`store_key` by which the backend finds its state (`PrefixFound`,
`runtime/threadwake/backend.py:207-210`). Two properties keep the two apart:
`HitNamesItsPrefix` is about the index, whose id is the right one;
`ReuseIsComplete` is about what the backend makes of it, and fails. Even with
its store found, a continuation would miss the segments that became stable
between the tip and the new prompt, which are neither in the tip's state nor in
the tail (`manager.py:521`, `542`).

The index is the table of entries and the list of
keys by use; `Evicted` is the number of keys the eviction loop drops, the least
for which the rest fits or the list is empty, and a memory limit of 0 means none.
`Snapshots` runs the pipeline one write at a time;
each write may fail, and the process may restart between any two; the database may
fail to open, at the start and later.

Other behaviour met while modelling: tips survive a flush
(`docs/threadwake/security.md:95` says the next request is a full prefill);
`mlx_tokenizer.py` uses segment positions as message indexes, off by one with
tools; ephemeral mode also continues sessions; KV handles are never released;
`clone_kv` of the mlx adapter always raises, so a hit there degrades to stale;
unloading the mlx adapter calls an `unregister` the KV registry does not have.

### Continuous, TokenSteps

The scheduler's four phases are one `Tick`. `admit` does not look whether the id
is known: admitting a live one overwrites its record and leaves its slot to it,
and the next tick gives it a second one, of which an end releases only one. In
the repository only tests call `admit`, with fresh ids. The model admits any id
at any time; `reused` remembers the ids that were admitted over a slot, and
`SlotSingleOwner` holds of the others, which keep theirs. The driver takes
chunks and routes them in any order, loses and repeats them.
`_update_slot_state` has an empty body, so a completed request leaves its slot
reserved and at most `max_slots` requests ever run
(`docs/continuous-batching-runtime-contract.md:24` says the slot is released);
`SlottedRequestsEnd` therefore speaks of requests that have a slot. `TokenSteps`
states as a reference what each sequence would get alone (`Alone`) and checks
that the shared schedule gives it just that.

### ModelStore, ExternalModels, Catalog

`ModelStore` takes one step per file operation, crashes between any two, and
lets the operator change sources. A copy takes the listing of its source once,
at the start: files added later are left out, one taken away before its turn
makes the copy fail. What is inside a file is not modelled, so neither is a file
rewritten while it is read. One worker is assumed: two registrations at once
lose an entry to a stale manifest. After a failed copy the partial destination
stays, so every retry answers `managed_destination_exists`; deleting a copy by
hand and registering again answers success without copying.

`ExternalModels` describes a scan by its places (route, format, repository, file)
and the order in which they are visited (`Precedes`): an entry is listed when no
earlier place has its id. Resolution takes the first route that has the
directory in the same order of routes (`Before`: priority, then id).

`Catalog` composes the registry, the router and the external roots; files move
and the registry file changes under the requests. `ListedIsServed` leaves out
what the code does not serve: a repository without GGUF in its name loses its
quantisation when parsed, so the first file is taken (`models/inventory.py:403`
says otherwise); the resolver stops at the first root that has the directory
although the inventory lists files of all roots; the inventory skips dotfiles
(`models/inventory.py:253`) and the resolver does not
(`models/resolver.py:219`), so `._m-Q4_K_M.gguf`, which sorts first, is served
where another file was listed; the resolver looks for the quantization anywhere
in a file's name, so a file of a longer quantization may answer to a shorter
one, and a listed file whose name does not hold its own id gives way to a
namesake. The property excuses just these (`Stray`); a name the authoritative
registry refuses is still listed. The outcome of loading the registry, good or
bad, is kept for the life of the process. In the instance no adapter manages its
server (`Managed = {}`), so the run checks the first part of `BindingIsOwn`;
`BindingsAreOwn` proves both for every `Managed`.

### ContextPolicy, Batching, Daemon

Texts are lengths, budgets small numbers; `Off` is an absent value. The profile
is written in place and read through a cache keyed by its time stamp, whose
clock is coarse. `RefusedExactlyWhenItCannotFit` restates the policy as one
sentence about room, and compares.

`Batching` takes the loop of `analyze` in three steps: the anchor and its matches,
the removal of one matched place (from the back, which is what keeps the other
places right), and the group. The property asks of every pair what the code tests
for pairs with the anchor only.

`Daemon` models process groups, their leader and reloader child, numbers used
again, and commands interrupted between any two file operations (a signal that
is not permitted ends the command like an interrupt). A stop reads the record
(`Down`), verifies the group (`Verifies`) and signals it (`Terminates`) in
separate steps, and the number may change hands in between: the signal then goes
to whoever has it. Verification, several calls of `pgrep` and `ps`, is one step,
that of the last look. A forced stop kills without verifying again (`Forces`).
`StopsAimAtTheDaemon` says what is left: while the recorded daemon lives, it
gets every signal; a program that is no whooshd server is hit only if it took
its number after the check. One command at a time: nothing is locked, and with
two terminals two starts both launch and the later one overwrites the record of
the earlier. An interrupt between the launch and the pid file leaves a daemon
nobody recorded.

## 3. Runs

Passing runs:

| Run | Instance | Shows |
|---|---|---|
| `lanes` | 5 chat requests, one serial and one uncapped lane, FIFO, limit 2, depth 2, one cancellation | `SlotsBounded`, `QueueIntegrity`, `FifoWithinLane`, `NoLateExecution` |
| `kinds` | 3 requests of all kinds, adaptive limit 1 or 2, one lane that cannot stream, one hang-up | `TypeOK`, `OnlyAbandonedStreamsLeak`, `SlotOwnership`, `CountersHonest`, `SlotsWithinLimit`, `TerminalStaysTerminal`, `ImplementsSlotPool` |
| `cache` | 5 requests, two of them warm, on one lane or two, limit 1 or 2, cache-aware policy | `BypassBound` |
| `hung` | 3 requests, two lanes, changing limit, adapters may hang, the clock runs | `QueuedIsAnswered` |
| `runtimes` | 2 warmups and 2 requests, at most 3 of them, all lanes, llama managed, external or unconfigured | `OnlyFailedKillsOrphan`, `WarmingHasAWarmer`, `AdaptersConsistent`, `StreamsKeepTheirModel` |
| `warmup_ends` | 2 warmups and 1 request | `WarmupEnds` |
| `threadwake` | 2 requests in flight, 2 entries, 4 tokens, both tokenizers | `IndexConsistent`, `HitNamesItsPrefix`, `TipsStayInThread` |
| `continuous` | 2 requests with ids used again, live ones too, 2 slots; 2 sequences, 3 steps | `SchedulerConsistent`, `StreamsAreOrdered`, `SlottedRequestsEnd`; `SequencesAreIndependent` |
| `offline` | one part at a time, see `MCOffline` | snapshots: `AttemptsAccountedFor`, `StoredOnlyGrows`; events: `RingHoldsLatest`; store: `StoreConsistent`, `RegistrationsSurvive`; catalogue: `RegistryIsAuthoritative`, `BindingIsOwn`, `ListingsHonest`; context: `StaleOnlyInOneTick`, `RefusedExactlyWhenItCannotFit`; exchange: `ExchangeFaithful`; daemon: `StopsAimAtTheDaemon`, `LaunchedStaysTracked`; batching: `GroupsPartitionTheQueue`; and `TypeOK` of all |

Some of these are conjunctions of named parts, each with its own comment in the
module:

| Property | Parts |
|---|---|
| `SlotsBounded` | `CapacityBound`, `LaneBound` |
| `CountersHonest` | `DepthHonest`, `QueueLedger` |
| `AdaptersConsistent` | types of `Runtimes`, `SemaphoreBounds`, `EvidenceIsCurrent` |
| `IndexConsistent` | types of `ThreadWake`, `LruMatchesEntries`, `WithinLimits`, `ReadyHasHandle` |
| `SchedulerConsistent` | types of `Continuous`, `SlotSingleOwner`, `NoRequestForgotten` |
| `SequencesAreIndependent` | types of `TokenSteps`, `PeerIsolation`, `ReportBalances` |
| `AttemptsAccountedFor` | `NothingLostSilently`, `RegistryMatchesStore` |
| `StoreConsistent` | `CopiesAreWhole`, `AdvertisedAsInspected`, `DoneIsRecorded` |
| `ListingsHonest` | `ListedOnce`, `ListedIsServed` |
| `ExchangeFaithful` | `InferenceFieldsArrive`, `DeliveredInOrder`, `OutcomeAgrees` |

Bounds. Four requests are enough for a running request in each lane and a
waiter behind each; the fifth in `lanes` is the newcomer that arrives between a
grant to the other lane's waiter and its waking. The constraints `OneCancel` and
`OneHangup` keep the searches small: the theorems cover the rest for every
instance. `WarmTraffic` does the same in `cache`: it leaves out refusals, adapter
failures, a second lost request and a lowering of the limit after the first grant,
and keeps the case of two lanes in which an entry is bypassed more often than the
maximum. In `kinds` and `hung` the changing profile takes the place of a fourth
request: the limit drops to 1, both lanes queue up, the limit rises and the
front entry's lane is saturated. `QueueTimeout` is 1 tick, so an entry is either
in time or expired; longer waits only add states between the two. Requests are
interchangeable except through `req`, whose values are permuted with them, so
symmetry is sound for the safety runs; the liveness runs use none. The limits
1 and 2 and depth 2 or 3 make both "full" and "one left" happen. Two warmups are
what an overlap needs, and three calls let an unload or a request join it. Two
cache entries for three prefixes make eviction happen, two pending requests make
one overtake the other. Two slots and ids used again make release and reuse
happen. In `offline` every fault has its own bound (`MaxFailures`,
`MaxRestarts`, `MaxCrashes`, `MaxEdits`, `MaxMoves`, `MaxInterrupts`), at least
one of each, and a ring of two takes five events, so that it wraps twice. The
parts it runs share no variable, so exploring them one at a time loses nothing.
Deadlock is checked except in `continuous` and `offline`, whose parts come to an
end; the broker and the runtimes may rest only when every call was answered.

Fairness. `WaitersPoll`: `_wait_for_signal` returns at the latest after the poll
interval, so a waiter whose iteration could act acts in the end; `hung` requires
in addition that time passes, and not that adapters answer. `FairSpec` of
`Runtimes`: the event loop resumes a warmup that can go on, and time passes.
`CbSpec`: the scheduler ticks. None assumes that anyone arrives, cancels, or that
the profile settles.

Runs that find a disagreement:

| Run | The code | The text |
|---|---|---|
| `hangup_leak` (`EveryRecordEnds`) | a stream whose client is gone before the body generator starts keeps its record and its slot | `runtime/__init__.py:853-854`: the caller ends every record |
| `scope` (`ScopeIsolation`) | `put_observation` gives an existing entry the scope of the new request and keeps its READY state and handle, and the handler observes before it executes | `docs/threadwake/overview.md:17-18`: "cross-scope reuse is prevented by design" |
| `reuse` (`ReuseIsComplete`) | a hit or a continuation reopens the handle by its id, without the `store_key` the backend looks its state up by, and passes only the dynamic tail: the tail is computed on an empty prefix | `docs/threadwake/overview.md:55-56`: "Clone the stored KV handle, skip the prefill phase for stable tokens, and generate only from the dynamic tail." |

`BodyNeverStarts`, which `hangup_leak` needs, models the HTTP server, not the
repository: a server that learns of the disconnect before it iterates the
streaming response drops the generator unstarted, and the `finally` clause of an
unstarted generator does not run. `scope` needs no such assumption. With the mlx
adapter as it is, `clone_kv` raises; `scope` and `reuse` are about the
manager with an adapter that can clone, as its tests use.

Other disagreements met while modelling, without a run: cancelling a running
request frees its slot while the adapter call goes on (`docs/queue-policy.md:50`
"bounds active execution"); a newcomer takes a free slot ahead of the front
waiter (`queue.py:6-7`); a queued request whose client hung up is executed
(`docs/queue-policy.md:209-216`); `fail_request` overwrites `CANCELLED`
(`docs/queue-policy.md:92` draws terminal states without successors); an entry
whose token is set can still be granted a slot until its own waiter wakes
(`docs/queue-policy.md:192` "or skip on dequeue"); a saturated front lane lets a
later entry proceed (`docs/queue-and-admission.md:85-86` "lets only the front
queue entry proceed"); with several lanes an entry can be bypassed more than the
maximum, because only the oldest eligible candidate's count is tested
(`config.py:612`; `BypassBound` states the bound that does hold); a queue
timeout answers 504 (`docs/queue-and-admission.md:118` says 429); a request
cancelled in the queue is counted twice in `total_requests_cancelled`; a forced
stop kills a group it has not verified again, which may be another program's by
then (`cli.py:191-193` "an arbitrary live PID or process group remains outside
the CLI's authority").

## 4. Proofs

Every theorem holds for every value of the constants that satisfies the module's
named assumption. TLC evaluates the same assumptions in the runs.

### Assumptions

| Module | Assumption | Why the code justifies it |
|---|---|---|
| `Broker` and its parts | finitely many requests; types of the constants | limits and lane ceilings may be any integers, as environment variables may |
| `Runtimes` | finitely many warmups and requests, semaphore size and start-up timeout at least 1 | settings of the adapters |
| `ThreadWake` | messages are sequences of role and text; `NoValue` is not a handle | request schema; `None` is no handle |
| `ContextPolicy` | limits and sizes are not negative; names of one repository are one model | `ge=0`, `ge=1` in the profile and request schemas; a repository id ends in the model's name |
| `Catalog` | the engines of registry entries and the configured adapters are known ones | enumerations of the registry schema and the factory |
| `ExternalModels` | routes have a root, a switch and an integer priority; every `.gguf` file has a public suffix | schema of the routes file; `_scan_gguf_dir` falls back to the file's stem |
| `Batching` | group size at least 1; candidates have the fields of `BatchCandidate` | `BatchAnalyzer.__init__`, the dataclass |
| `KVLifecycle` | the ring has at least one slot | `max_events` |
| `ModelStore` | a directory's files are of the kinds inspection tells apart | `inspection.py` |
| `Continuous`, `TokenSteps` | finitely many requests, numbered in order of arrival; limits at least 1 | requests are kept in order of arrival; the configuration's limits are positive counts (`continuous_scheduler.py:38-41`), though nothing validates them |
| `Daemon` | `NoPid` is no process group number | a pid file is absent or holds a number |

Two theorems have a hypothesis besides, `RecordedDaemonStaysTracked` and
`StopsAimAtRecordedDaemon`: one terminal. The code locks neither file, so two
commands at once can lose track of a daemon. The instance TLC checks has one.

### Broker

The inductive invariant `StateInv` is `TypeOK /\ QueueIntegrity /\ HandlerInv`.
`SlotsBounded` alone is not inductive. When a granted waiter wakes, its record
becomes active; that this takes no new slot rests on its reservation still being
there (`HandlerInv`, last conjunct). That a grant reserves for a handler that is
waiting rests on the deque holding waiting handlers only (`QueueIntegrity`).
That `active_jobs`, a sum of two counts, counts slots rests on records and
reservations being disjoint (`SlotCount`). `HandlerInv` also fixes the status of
a waiting handler, which is what makes `mark_running` succeed.

* `BrokerProofs`: `RemoveAtFacts`, `WithoutFacts`, `AppendFacts` about the deque,
  `LimitBounds` about the limit; `TypeStep`, `QueueStep`, `HandlerStep` (one step
  per action); theorems `StateInvariant`, `TypeCorrect`, `QueueIsIntact`. From
  `SlotStep` (a step takes at most one slot, for a request with room) follow
  `CapacityIsBounded` (the broker and each lane) and `SlotsAreTakenWithinLimit`;
  then `RecordsStayEnded` and `NobodyStartsLate`.
* `RecordProofs`: `HandlerInv` speaks of handlers that have not started.
  `RecordInv` is the other half: the record of a started handler is the one its
  start set, or has ended; a handler that is done leaves no open record but that
  of a stream whose body never ran. It gives `SlotsAreOwned` and
  `OtherRecordsEnd`. `CountersAreHonest` is a counting argument: each step moves
  at most one request out of the queue, and into exactly one tally
  (`DepthStep`, `LedgerStep`). `LanesAreServedInOrder` rests on the grant choosing
  the oldest eligible entry (`GrantIsOldest`).
* `BypassesAreBounded`: the scheduler tests the count of the oldest candidate only,
  so `BypassBound` is not inductive. `BypassInv` has two arguments. With one lane
  (`OrderInv`), counts do not increase among live entries from the front of the
  deque to the back: a grant adds one to every live entry it skips, these are all
  the live entries ahead of the chosen one (`SkippedHaveRoom`), and the tested
  count bounds them all. With several lanes (`SlackInv`), call slack of an entry the bypasses
  that it and those ahead of it still have before they reach the maximum. A grant that
  skips the entry takes one from the oldest candidate's, which was below the
  maximum (`OldestHasRoom`, `GrantBypass`), so an entry's count and slack together
  never grow. A newcomer has count 0 and slack for every entry in the deque, which
  are at most `MaxQueueDepth` and the cancelled ones whose waiters have not woken yet:
  admission counts records, and theirs have ended (`PlacesAhead`, from
  `RecordInv`).
* `BrokerImplementsSlotPool`: initial states map to initial states, and a step
  maps to `TakeSlot` of one request or only moves phases on (`MovesStep`,
  `PhaseMovesOn`, `PhaseTakesSlot`, `PoolStep`). The pool states no fairness.

### The other modules

| Theorems | Inductive invariant, and why it is needed |
|---|---|
| `ChildrenAreHeld`, `WarmingEndsWithItsWarmers`, `AdaptersStayConsistent`, `ModelStaysUnderItsStreams` | the properties are inductive given the types (`TypeStep`), that of the children because a child is let go of only when it has exited or survived its kill; each has its own step lemma: `ChildStep`, `LifecycleStep`, `SemaphoreStep` (permits and holders balance), `EvidenceStep`, `StreamModelStep` |
| `HitsNameTheirPrefix`, `ReadyEntriesCarryState` | `IndexInv`: every handle was prefilled by some request whose key is the entry's. Two requests of one key have the same stable tokens (`SamePrefixSameTokens`), though their texts may differ in line endings, and stable tokens and tail make up the prompt (`SplitIsExact`) |
| `TheIndexIsConsistent` | `IndexTables`: the list holds each key of the table once, and entries of one key have one token count, the key's. The second is why an update in place, which evicts nothing, cannot exceed the memory limit (`UpdateTables`). Memory is counted as a set of units (`UnitsFacts`), and dropping keys only shrinks it; the eviction loop ends because the empty table fits (`EvictedFacts`, `EmptyFits`) |
| `TipsKeepTheirThread` | `TipInv`: a tip's handle was prefilled for that thread, and its history extends the handle's; extensions compose (`AppendsCompose`) |
| `ProfilesAreFresh`, `RefusedOnlyWithoutRoom` | `CacheInv`: a cached profile under the file's signature is the file's, unless a write collided with the read's tick. The refusal theorem is arithmetic over costs and budgets (`CostFacts`, `BudgetFacts`, `OutputFacts`) |
| `ExchangesAreFaithful` | `ExchangeInv`: what the client received is as long as the chunks the upstream sent, less the one held back before the body starts, and the record follows the phase of the exchange |
| `BindingsAreOwn` | `BindingInv`: a resolved request's own context holds the path its resolution found |
| `RegistryDecides` | `AuthorityInv`: a loaded registry is valid, and a resolved request's model is enabled in it |
| `ListingsAreHonest` | no invariant and no hypothesis: the lists are functions of the disk as it is, so the theorem is about the operators. `RouteOrder` (routes are strictly ordered), `FirstRoute` (the route chosen comes before all others), `ListedPlace` (nothing of a listed id comes before its place); then `GgufIsServed` and `MlxIsServed`: a listed place lies on the first route that has the directory, or resolution finds nothing |
| `RingKeepsTheLatest` | `RingInv`: slots up to the cursor hold the events of this lap, the others those of the lap before; with arithmetic modulo the size (`ModStep`) |
| `StoreStaysConsistent`, `RegistrationsAreKept` | `StoreInv`: the manifest a registration read is still the manifest when it writes back, the job's id and destination are not in it, and the copy is whole when the entry is appended |
| `AttemptsStayAccountedFor`, `StoreNeverShrinks` | `SnapInv`: the open transaction's view is never behind the committed rows (`RowsInv`), a stage's candidate is a known one (`IndexInv`), attempts not stored are finitely many and at most the reported errors (`CountsInv`), and without failures the connection's artifacts are the committed ones and only registered candidates have any (`RegistryInv`) |
| `StreamsStayOrdered` | `StreamInv`: types and order; it uses nothing of the scheduler, so the driver may drop, repeat and reorder chunks |
| `SchedulerStaysConsistent` | `SchedulerInv` (types, one owner per slot and, for ids not admitted over a slot, one slot per request, no request forgotten) and `LengthInv` (a stream has no more events than decode steps and one terminal event); admission, prefill, decode and drain each keep it (`AdmissionOwned`, `PrefillOwned`, `DecodeOwned`, `DrainOwned`) |
| `SequencesStayIndependent` | `ScheduleInv`: an active sequence has one token per step and no strike behind it, a finished one has what it would have had alone, and the tallies count the modes |
| `EveryCandidateIsGroupedOnce` | `BatchInv`: the queue is in order, the places still to be popped hold members of the group being made and nothing else does, and any two members of that group are compatible; matching tests the anchor only, but compatibility is equality of fields and absence of streams and images, so it carries over (`MatchedFacts`) |
| `GroupInvariant`, `StopsAimAtRecordedDaemon` | `GroupInv`: process group numbers are reused, so a group is identified by its birth; what a command verified or launched is the group born then, or that group is gone and its number has gone to one born later (`NumberAges`). With `TrackInvariant` of the next row, a signal sent while the recorded daemon lives goes to the group the pid file names, which is the daemon (`SignalAims`) |
| `RecordedDaemonStaysTracked` | `TrackInv`: a command about to touch the files knows that the recorded daemon is gone, and one that waits is waiting for the group the pid file names |

### Only model-checked

* Liveness (`QueuedIsAnswered`, `WarmupEnds`, `SlottedRequestsEnd`): arguments
  under fairness are out of the prover's reach.
* What a recursive function or a fold computes: the token total of a batch group
  decides `eligible`, which no property speaks of.
* The joint `TypeOK` of `MCOffline`, which composes parts for one run only.

Where a proof needs a least or a largest number (the first entry with a count,
the first place of a key, the last place to pop) it takes it from the
well-foundedness of the numbers (`LeastNumber`, `LargestNumber`); sequences with
entries removed are described by the ranks of what is kept (`Kept`, `RankIn`),
so that no induction over the sequence is needed.

## 5. Not modelled, and what is left

* Inference itself, the stub adapter and the adapter factory: an adapter call
  returns, fails or streams.
* Live batching in the queue and `guarded_adapter_batching.py`: never reached.
* Readiness checks of continuous batching (`continuous_primitives.py`,
  `continuous_live_prototype.py`, `mlx_*.py` outside `adapters/`,
  `token_loop_feasibility.py`): probes of a library outside the repository.
* `runtime/threadwake/materialization.py`, `snapshot_creation.py`: placeholders
  that answer "not available".
* Log redaction, configuration parsing, correlation, reports, benchmarks, probes
  and operations scripts: they keep no state of the serving path.
* Two processes on one model store, two commands at once on one daemon: the code
  locks nothing, and the models say what one at a time gives.

Left to prove: the type invariants of the offline modules, as far as the proofs of
section 4 do not need them. Whether the bound on bypasses with several lanes is
reached is open: the instance of `cache` comes to twice the maximum.
