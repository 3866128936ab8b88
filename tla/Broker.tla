--------------------------------- MODULE Broker ---------------------------------
(***************************************************************************)
(* The request path of the Whoosh'd broker: the HTTP handlers of app.py,   *)
(* the bounded queue of queue.py, the lifecycle records and capacity       *)
(* reservations of runtime/__init__.py, admission.py and, through EXTENDS, *)
(* the capacity controller and the scheduler.                              *)
(*                                                                         *)
(* The broker is one asyncio event loop.  A handler runs without           *)
(* interruption from one await to the next, so each action below is the    *)
(* code between two awaits of one handler, and the interleavings of        *)
(* actions are the interleavings of the event loop.                        *)
(***************************************************************************)
EXTENDS CapacityController, Scheduler, Sequences, FiniteSets

CONSTANTS
    Req,            \* the requests clients will send
    Lanes,          \* inference lanes (runtime kinds)
    LaneMax,        \* LaneMax[l]: lane_max_concurrent
    Uncapped,       \* lanes that declare no ceiling (lane_max_concurrent is None)
    NonStreaming,   \* lanes whose adapter does not support streaming
    Kinds,          \* kinds of request sent: "chat", "stream", "generate"
    CacheHints,     \* values the cache_ready hint of an entry may have
    EnableQueue,    \* WHOOSHD_ENABLE_QUEUE
    MaxQueueDepth,  \* WHOOSHD_MAX_QUEUE_DEPTH
    QueueTimeout,   \* WHOOSHD_QUEUE_TIMEOUT_SECONDS, in clock ticks
    Profiles,       \* calibration profiles that appear on disk
    Disconnects     \* whether clients may hang up before they are answered

ASSUME BrokerAssumption ==
    /\ IsFiniteSet(Req)
    /\ LaneMax \in [Lanes -> Int]
    /\ Uncapped \subseteq Lanes
    /\ NonStreaming \subseteq Lanes
    /\ Kinds \subseteq {"chat", "stream", "generate"}
    /\ CacheHints \subseteq BOOLEAN
    /\ EnableQueue \in BOOLEAN
    /\ MaxQueueDepth \in Nat
    /\ QueueTimeout \in Nat \ {0}
    /\ Profiles \subseteq Nat
    /\ Disconnects \in BOOLEAN

VARIABLES
    req,          \* what each request asks for: its lane, kind and cache hint
    pc,           \* where the handler of each request is suspended
    status,       \* status of the lifecycle record ("none": no record)
    token,        \* requests whose cancellation token is set
    queue,        \* RequestQueue._deque
    granted,      \* entries marked granted
    remaining,    \* deadline_at - monotonic(), cut off at 0, in ticks
    bypass,       \* Scheduler._bypass_counts
    reservations, \* RuntimeState._reservations (the lane is the request's)
    profile,      \* the calibration profile on disk
    gone,         \* requests whose client has hung up
    tally         \* the queue counters of RuntimeState

vars == <<req, pc, status, token, queue, granted, remaining, bypass,
          reservations, profile, gone, tally>>

Statuses == {"none", "queued", "running", "streaming",
             "completed", "cancelled", "failed", "timed_out"}
Terminal == {"completed", "cancelled", "failed", "timed_out"}

\* "idle": not sent.  "waiting": in wait_for_execution.  "executing": awaiting
\* the adapter (a stream: its first chunk).  "body": the SSE body generator is
\* running.  "done": the handler has returned.
PCs == {"idle", "waiting", "executing", "body", "done"}

\* total_queued, total_dequeued, total_queue_timeout and total_queue_cancelled.
Counters == {"queued", "dequeued", "timedOut", "cancelled"}

\* ACCEPTED is left in the same atomic step as begin_request, so no interleaving
\* sees it; the counters below read it in the code.
TypeOK ==
    /\ req \in [Req -> [lane : Lanes, kind : Kinds, ready : CacheHints]]
    /\ pc \in [Req -> PCs]
    /\ status \in [Req -> Statuses]
    /\ token \in SUBSET Req
    /\ queue \in Seq(Req)
    /\ granted \in SUBSET Req
    /\ remaining \in [Req -> 0..QueueTimeout]
    /\ bypass \in [Req -> Nat]
    /\ reservations \in SUBSET Req
    /\ profile \in Profiles \cup {NoProfile}
    /\ gone \in SUBSET Req
    /\ tally \in [Counters -> Nat]

Init ==
    /\ req \in [Req -> [lane : Lanes, kind : Kinds, ready : CacheHints]]
    /\ pc = [r \in Req |-> "idle"]
    /\ status = [r \in Req |-> "none"]
    /\ token = {}
    /\ queue = <<>>
    /\ granted = {}
    /\ remaining = [r \in Req |-> 0]
    /\ bypass = [r \in Req |-> 0]
    /\ reservations = {}
    /\ profile \in Profiles \cup {NoProfile}
    /\ gone = {}
    /\ tally = [c \in Counters |-> 0]

(***************************************************************************)
(* Counters                                                                *)
(***************************************************************************)
ActiveRecords == {r \in Req : status[r] \in {"running", "streaming"}}

ActiveJobs == Cardinality(ActiveRecords) + Cardinality(reservations)

InLane(S, l) == {r \in S : req[r].lane = l}

\* Faulty variant: a reservation does not know its lane.
LaneJobsUnreserved(l) == Cardinality(InLane(ActiveRecords, l))

ActiveJobsForLane(l) ==
    Cardinality(InLane(ActiveRecords, l)) + Cardinality(InLane(reservations, l))

Waiting == {r \in Req : status[r] = "queued" /\ r \notin reservations}

QueueDepth == Cardinality(Waiting)

\* RuntimeState.memory is set once, to NORMAL, and never updated.
MemoryPressure == "normal"

Limit == EffectiveActiveLimit(profile, MemoryPressure)

\* What admission tells the controller about a request.
CapacityContext(r) ==
    [activeJobs    |-> ActiveJobs,
     queueDepth    |-> QueueDepth,
     maxQueueDepth |-> MaxQueueDepth,
     laneCapped    |-> req[r].lane \notin Uncapped,
     laneMax       |-> LaneMax[req[r].lane],
     laneActive    |-> ActiveJobsForLane(req[r].lane),
     overBudget    |-> FALSE,
     runtimeReady  |-> TRUE]

\* active_capacity_available(rt), and with the lane of a request.
CapacityAvailable == ActiveJobs < Limit

LaneHasRoom(l) == l \in Uncapped \/ ActiveJobsForLane(l) < AtLeastOne(LaneMax[l])

EntryEligible(r) == CapacityAvailable /\ LaneHasRoom(req[r].lane)

(***************************************************************************)
(* Fragments shared by the actions                                         *)
(***************************************************************************)
Entries(q) == {q[i] : i \in DOMAIN q}

RemoveAt(q, i) == SubSeq(q, 1, i - 1) \o SubSeq(q, i + 1, Len(q))

\* RequestQueue.remove: a no-op when the entry is not in the queue.
Without(q, r) ==
    IF r \in Entries(q)
    THEN RemoveAt(q, CHOOSE i \in DOMAIN q : q[i] = r)
    ELSE q

\* The handler returns.
Return(r) == pc' = [pc EXCEPT ![r] = "done"]

SetStatus(r, s) == status' = [status EXCEPT ![r] = s]

Release(r) == reservations' = reservations \ {r}

Count(c) == tally' = [tally EXCEPT ![c] = @ + 1]

\* Faulty variant: positional dequeue instead of removal by request id.
LeaveQueueByPosition(r) ==
    /\ queue' = IF queue = <<>> THEN queue ELSE Tail(queue)
    /\ bypass' = [bypass EXCEPT ![r] = 0]

\* remove() also pops the bypass count of the entry.
LeaveQueue(r) ==
    /\ queue' = Without(queue, r)
    /\ bypass' = [bypass EXCEPT ![r] = 0]

StreamUnsupported(r) == req[r].kind = "stream" /\ req[r].lane \in NonStreaming

StartedStatus(r) == IF req[r].kind = "stream" THEN "streaming" ELSE "running"

(***************************************************************************)
(* A request arrives                                                       *)
(***************************************************************************)
Idle(r) == pc[r] = "idle"

IsChat(r) == req[r].kind \in {"chat", "stream"}

Verdict(r) == Evaluate(CapacityContext(r), profile, MemoryPressure).action

\* Refused for what it is, not for the load: unknown model, structural rule,
\* context budget, images on a text adapter, unsupported fields, or a stream on
\* an adapter that cannot stream.  No record is created.
Refuse(r) ==
    /\ Idle(r)
    /\ Return(r)
    /\ UNCHANGED <<req, status, token, queue, granted, remaining, bypass,
                   reservations, profile, gone, tally>>

\* Begin a record and call the adapter at once.
StartNow(r) ==
    /\ SetStatus(r, StartedStatus(r))
    /\ pc' = [pc EXCEPT ![r] = "executing"]
    /\ UNCHANGED <<req, token, queue, granted, remaining, bypass,
                   reservations, profile, gone, tally>>

ChatRuns(r) ==
    /\ Idle(r) /\ IsChat(r)
    /\ Verdict(r) = "RUN"
    /\ ~StreamUnsupported(r)
    /\ StartNow(r)

\* The first iteration of wait_for_execution follows without an await; under
\* normal memory pressure it changes nothing: a request is queued because
\* nothing is free for it, and its deadline lies ahead.
ChatQueues(r) ==
    /\ Idle(r) /\ IsChat(r)
    /\ Verdict(r) = "QUEUE" /\ EnableQueue
    /\ SetStatus(r, "queued")
    /\ queue' = Append(queue, r)
    /\ remaining' = [remaining EXCEPT ![r] = QueueTimeout]
    /\ pc' = [pc EXCEPT ![r] = "waiting"]
    /\ Count("queued")
    /\ UNCHANGED <<req, token, granted, bypass, reservations, profile, gone>>

\* 429: the queue is full, or off.
ChatOverloaded(r) ==
    /\ Idle(r) /\ IsChat(r)
    /\ Verdict(r) = "REJECT" \/ (Verdict(r) = "QUEUE" /\ ~EnableQueue)
    /\ Return(r)
    /\ UNCHANGED <<req, status, token, queue, granted, remaining, bypass,
                   reservations, profile, gone, tally>>

\* Faulty variant: the lane of the request is not consulted.
GenerateRunsAnyLane(r) ==
    /\ Idle(r) /\ req[r].kind = "generate"
    /\ CapacityAvailable
    /\ StartNow(r)

\* /v1/generate never queues.
GenerateRuns(r) ==
    /\ Idle(r) /\ req[r].kind = "generate"
    /\ EntryEligible(r)
    /\ StartNow(r)

GenerateOverloaded(r) ==
    /\ Idle(r) /\ req[r].kind = "generate"
    /\ ~EntryEligible(r)
    /\ Return(r)
    /\ UNCHANGED <<req, status, token, queue, granted, remaining, bypass,
                   reservations, profile, gone, tally>>

(***************************************************************************)
(* One iteration of wait_for_execution, with what the handler does after   *)
(* it returns.  An iteration that finds nothing to do is a stuttering      *)
(* step.                                                                   *)
(***************************************************************************)
\* Not cancelled, not granted: the waiter still looks for a slot.
Looking(r) == pc[r] = "waiting" /\ r \notin token /\ r \notin granted

Expired(r) == remaining[r] = 0

IsFront(r) == Len(queue) > 0 /\ queue[1] = r

\* Positions select_and_dequeue offers to the scheduler: not past their own
\* deadline, and with room in their own lane.
Candidates ==
    {i \in DOMAIN queue : ~Expired(queue[i]) /\ EntryEligible(queue[i])}

ReadyPositions == {i \in DOMAIN queue : req[queue[i]].ready}

BypassAt == [i \in DOMAIN queue |-> bypass[queue[i]]]

Selects(i) ==
    /\ CapacityAvailable
    /\ i \in Candidates
    /\ ChooseNext(i, Candidates, ReadyPositions, BypassAt)

\* The cancellation check comes first, before a grant is honoured.
WaiterCancelled(r) ==
    /\ pc[r] = "waiting" /\ r \in token
    /\ LeaveQueue(r)
    /\ SetStatus(r, "cancelled")
    /\ Release(r)
    /\ Return(r)
    /\ Count("cancelled")
    /\ UNCHANGED <<req, token, granted, remaining, profile, gone>>

\* A dequeued handler goes on to the adapter; a stream the adapter cannot serve
\* is only found out here.
Proceed(r) ==
    /\ SetStatus(r, IF StreamUnsupported(r) THEN "failed" ELSE StartedStatus(r))
    /\ pc' = [pc EXCEPT ![r] = IF StreamUnsupported(r) THEN "done" ELSE "executing"]
    /\ Count("dequeued")

\* Faulty variant: a grant is honoured however late the waiter wakes.
WaiterGrantedLate(r) ==
    /\ pc[r] = "waiting" /\ r \notin token /\ r \in granted
    /\ Proceed(r)
    /\ Release(r)
    /\ UNCHANGED <<req, token, queue, granted, remaining, bypass, profile, gone>>

\* The waiter finds that another waiter granted its entry.
WaiterGranted(r) ==
    /\ pc[r] = "waiting" /\ r \notin token /\ r \in granted
    /\ ~Expired(r)
    /\ Proceed(r)
    /\ Release(r)
    /\ UNCHANGED <<req, token, queue, granted, remaining, bypass, profile, gone>>

\* Faulty variant: the reservation of the expired grant is kept.
WaiterGrantExpiredKeeps(r) ==
    /\ pc[r] = "waiting" /\ r \notin token /\ r \in granted
    /\ Expired(r)
    /\ SetStatus(r, "timed_out")
    /\ Return(r)
    /\ Count("timedOut")
    /\ UNCHANGED <<req, token, queue, granted, remaining, bypass, reservations,
                   profile, gone>>

\* The grant came in time but the waiter woke after the deadline.
WaiterGrantExpired(r) ==
    /\ pc[r] = "waiting" /\ r \notin token /\ r \in granted
    /\ Expired(r)
    /\ SetStatus(r, "timed_out")
    /\ Release(r)
    /\ Return(r)
    /\ Count("timedOut")
    /\ UNCHANGED <<req, token, queue, granted, remaining, bypass, profile, gone>>

\* The front waiter selects its own entry.  The reservation made by the grant
\* is handed over to the record in the same step.
FrontRuns(r) ==
    /\ Looking(r) /\ IsFront(r)
    /\ Selects(1)
    /\ LeaveQueue(r)
    /\ granted' = granted \cup {r}
    /\ Proceed(r)
    /\ UNCHANGED <<req, token, remaining, reservations, profile, gone>>

\* Faulty variant: the slot is granted but not reserved.
GrantUnreserved(i, leaving) ==
    /\ granted' = granted \cup {queue[i]}
    /\ reservations' = reservations
    /\ bypass' = [x \in Req |-> IF x \in leaving \cup {queue[i]} THEN 0 ELSE bypass[x]]

\* The front waiter grants the entry at position i to another waiter; entries in
\* leaving quit the queue in the same step.
GrantOther(i, leaving) ==
    /\ granted' = granted \cup {queue[i]}
    /\ reservations' = reservations \cup {queue[i]}
    /\ bypass' = [x \in Req |->
                    IF x \in leaving \cup {queue[i]} THEN 0
                    ELSE IF \E j \in Bypassed(i, Candidates) : queue[j] = x
                         THEN bypass[x] + 1 ELSE bypass[x]]

FrontDefers(r) ==
    /\ Looking(r) /\ IsFront(r) /\ ~Expired(r)
    /\ \E i \in Candidates \ {1} :
         /\ Selects(i)
         /\ GrantOther(i, {})
         /\ queue' = RemoveAt(queue, i)
    /\ UNCHANGED <<req, pc, status, token, remaining, profile, gone, tally>>

\* Faulty variant: the timeout is not counted.
TimedOutUncounted(r) ==
    /\ SetStatus(r, "timed_out")
    /\ Return(r)
    /\ UNCHANGED tally

\* mark_timed_out for a waiter that leaves the queue unserved.
TimedOut(r) ==
    /\ SetStatus(r, "timed_out")
    /\ Return(r)
    /\ Count("timedOut")

\* As FrontDefers, but the front waiter's own deadline has passed: it grants the
\* other entry and times out itself in the same iteration.
FrontDefersAndExpires(r) ==
    /\ Looking(r) /\ IsFront(r) /\ Expired(r)
    /\ \E i \in Candidates \ {1} :
         /\ Selects(i)
         /\ GrantOther(i, {r})
         /\ queue' = Without(RemoveAt(queue, i), r)
    /\ TimedOut(r)
    /\ UNCHANGED <<req, token, remaining, profile, gone>>

\* Faulty variant: an expired front entry retries the selection for ever.
FrontSpins(r) ==
    /\ Looking(r) /\ IsFront(r) /\ Expired(r)
    /\ CapacityAvailable /\ Candidates = {}
    /\ UNCHANGED vars

\* There is capacity but the front waiter finds no candidate, itself included.
FrontExpires(r) ==
    /\ Looking(r) /\ IsFront(r) /\ Expired(r)
    /\ CapacityAvailable /\ Candidates = {}
    /\ LeaveQueue(r)
    /\ TimedOut(r)
    /\ Release(r)
    /\ UNCHANGED <<req, token, granted, remaining, profile, gone>>

\* The deadline passes while there is no capacity or the entry is not in front.
WaiterExpires(r) ==
    /\ Looking(r) /\ Expired(r)
    /\ ~(IsFront(r) /\ CapacityAvailable)
    /\ LeaveQueue(r)
    /\ TimedOut(r)
    /\ Release(r)
    /\ UNCHANGED <<req, token, granted, remaining, profile, gone>>

Poll(r) ==
    \/ WaiterCancelled(r) \/ WaiterGranted(r) \/ WaiterGrantExpired(r)
    \/ FrontRuns(r) \/ FrontDefers(r) \/ FrontDefersAndExpires(r)
    \/ FrontExpires(r) \/ WaiterExpires(r)

(***************************************************************************)
(* The adapter answers                                                     *)
(***************************************************************************)
\* complete_request keeps a terminal status other than COMPLETED.
Complete(r) ==
    /\ SetStatus(r, IF status[r] \in {"cancelled", "failed", "timed_out"}
                    THEN status[r] ELSE "completed")
    /\ Release(r)

\* fail_request and cancel_request overwrite any status.
Fail(r) == SetStatus(r, "failed") /\ Release(r)

CancelRecord(r) == SetStatus(r, "cancelled") /\ Release(r)

Executing(r) == pc[r] = "executing"

\* The full response, or a stream that ends before its first chunk.
AdapterReturns(r) ==
    /\ Executing(r)
    /\ Complete(r)
    /\ Return(r)
    /\ UNCHANGED <<req, token, queue, granted, remaining, bypass, profile, gone, tally>>

AdapterFails(r) ==
    /\ Executing(r)
    /\ Fail(r)
    /\ Return(r)
    /\ UNCHANGED <<req, token, queue, granted, remaining, bypass, profile, gone, tally>>

\* Faulty variant: the record is marked streaming again at the first chunk.
FirstChunkRemarks(r) ==
    /\ Executing(r) /\ req[r].kind = "stream"
    /\ SetStatus(r, "streaming")
    /\ pc' = [pc EXCEPT ![r] = "body"]
    /\ UNCHANGED <<req, token, queue, granted, remaining, bypass, reservations,
                   profile, gone, tally>>

\* The first chunk is there: the streaming response is handed to the server,
\* which starts the body generator.
FirstChunk(r) ==
    /\ Executing(r) /\ req[r].kind = "stream"
    /\ pc' = [pc EXCEPT ![r] = "body"]
    /\ UNCHANGED <<req, status, token, queue, granted, remaining, bypass,
                   reservations, profile, gone, tally>>

\* The same, but the client has hung up: the server may drop the response
\* before it starts the body generator, whose finally clause then never runs.
BodyNeverStarts(r) ==
    /\ Executing(r) /\ req[r].kind = "stream" /\ r \in gone
    /\ Return(r)
    /\ UNCHANGED <<req, status, token, queue, granted, remaining, bypass,
                   reservations, profile, gone, tally>>

\* Faulty variant: the stream ends without complete_request.
BodyFinishesSilently(r) ==
    /\ pc[r] = "body" /\ Return(r)
    /\ UNCHANGED <<req, status, token, queue, granted, remaining, bypass,
                   reservations, profile, gone, tally>>

BodyFinishes(r) ==
    /\ pc[r] = "body" /\ Complete(r) /\ Return(r)
    /\ UNCHANGED <<req, token, queue, granted, remaining, bypass, profile, gone, tally>>

\* An upstream error after the first chunk, or a client that hung up.
BodyBreaks(r) ==
    /\ pc[r] = "body" /\ CancelRecord(r) /\ Return(r)
    /\ UNCHANGED <<req, token, queue, granted, remaining, bypass, profile, gone, tally>>

AdapterStep(r) ==
    \/ AdapterReturns(r) \/ AdapterFails(r) \/ FirstChunk(r)
    \/ BodyNeverStarts(r) \/ BodyFinishes(r) \/ BodyBreaks(r)

(***************************************************************************)
(* The cancel endpoint, clients, the clock and the operator                *)
(***************************************************************************)
\* POST /runtime/requests/{id}/cancel: the token is set and the record is made
\* terminal at once, wherever the handler is.
CancelEndpoint(r) ==
    /\ status[r] \notin Terminal \cup {"none"}
    /\ token' = token \cup {r}
    /\ CancelRecord(r)
    /\ UNCHANGED <<req, pc, queue, granted, remaining, bypass, profile, gone, tally>>

ClientHangsUp(r) ==
    /\ Disconnects
    /\ pc[r] \in {"waiting", "executing"} /\ r \notin gone
    /\ gone' = gone \cup {r}
    /\ UNCHANGED <<req, pc, status, token, queue, granted, remaining, bypass,
                   reservations, profile, tally>>

\* Faulty variant: the remaining wait is not cut off at zero.
TickUnclamped ==
    /\ \E r \in Req : remaining[r] > 0
    /\ remaining' = [r \in Req |-> remaining[r] - 1]
    /\ UNCHANGED <<req, pc, status, token, queue, granted, bypass,
                   reservations, profile, gone, tally>>

Tick ==
    /\ \E r \in Req : remaining[r] > 0
    /\ remaining' = [r \in Req |-> IF remaining[r] > 0 THEN remaining[r] - 1 ELSE 0]
    /\ UNCHANGED <<req, pc, status, token, queue, granted, bypass,
                   reservations, profile, gone, tally>>

\* The profile file changes; the next evaluation reads the new one.
Recalibrate(p) ==
    /\ p # profile
    /\ profile' = p
    /\ UNCHANGED <<req, pc, status, token, queue, granted, remaining, bypass,
                   reservations, gone, tally>>

Arrive(r) ==
    \/ Refuse(r) \/ ChatRuns(r) \/ ChatQueues(r) \/ ChatOverloaded(r)
    \/ GenerateRuns(r) \/ GenerateOverloaded(r)

\* The broker may rest when every request was answered, and only then.
AllAnswered == (\A r \in Req : pc[r] = "done") /\ UNCHANGED vars

Next ==
    \/ \E r \in Req : Arrive(r) \/ Poll(r) \/ AdapterStep(r)
                      \/ CancelEndpoint(r) \/ ClientHangsUp(r)
    \/ \E p \in Profiles \cup {NoProfile} : Recalibrate(p)
    \/ Tick
    \/ AllAnswered

Spec == Init /\ [][Next]_vars

(***************************************************************************)
(* Fairness.  A waiter is woken at least once per poll interval, so an     *)
(* iteration that could act is not put off for ever.                       *)
(***************************************************************************)
WaitersPoll == \A r \in Req : WF_vars(Poll(r))

\* Adapters may hang for ever, but the clock runs.
HungSpec == Spec /\ WaitersPoll /\ WF_vars(Tick)

(***************************************************************************)
(* Safety                                                                  *)
(***************************************************************************)
\* Active jobs never exceed the operator's ceiling, whatever happens between a
\* grant and the waking of the granted waiter, and whatever the profile says.
CapacityBound == ActiveJobs <= OperatorCeiling

\* The same for each lane that declares a ceiling.
LaneBound ==
    \A l \in Lanes \ Uncapped : ActiveJobsForLane(l) <= AtLeastOne(LaneMax[l])

\* Neither the broker nor a lane is over-committed: active_jobs and
\* active_jobs_for_lane stay within what the operator and the adapter allow.
SlotsBounded == CapacityBound /\ LaneBound

\* No slot is lost or taken twice: a reservation belongs to a granted handler
\* that has not woken yet, an active record to a handler that still runs or to a
\* stream its client abandoned, and a granted waiter nobody cancelled finds its
\* reservation.
SlotOwnership ==
    \A r \in Req :
      /\ r \in reservations => pc[r] = "waiting" /\ r \in granted
      /\ r \in ActiveRecords => pc[r] \in {"executing", "body"} \/ (pc[r] = "done" /\ r \in gone)
      /\ (pc[r] = "waiting" /\ r \in granted /\ r \notin token)
            => r \in reservations /\ status[r] = "queued"

NoDuplicates(q) == \A i, j \in DOMAIN q : q[i] = q[j] => i = j

\* The deque holds each waiting, ungranted handler exactly once and nothing else:
\* no entry outlives its handler and no waiting handler is forgotten.
QueueIntegrity ==
    /\ NoDuplicates(queue)
    /\ Entries(queue) = {r \in Req : pc[r] = "waiting" /\ r \notin granted}

\* queue_depth, which admission compares with the maximum, is the number of
\* entries of the deque that nobody has cancelled, and never exceeds it.
DepthHonest ==
    /\ QueueDepth = Cardinality(Entries(queue) \ token)
    /\ QueueDepth <= MaxQueueDepth

\* Every request that was ever queued was dequeued, timed out, was cancelled in
\* the queue, or is still there: the four counters of /runtime/admission agree.
QueueLedger ==
    tally["queued"] = tally["dequeued"] + tally["timedOut"] + tally["cancelled"]
                   + Cardinality({r \in Req : pc[r] = "waiting"})

\* The counters other code and operators rely on agree with the queue: the depth
\* admission tests (queue_depth) and the ledger of queued requests.
CountersHonest == DepthHonest /\ QueueLedger

\* All requests go to one lane, as with a single configured adapter.
SameLane == \A r, s \in Req : req[r].lane = req[s].lane

\* Cache affinity starves nobody.  When the requests share a lane none is bypassed
\* more than MaxBypass times (get_scheduler_max_bypass).  With several lanes one may
\* be, because choose_next tests the count of the oldest candidate only; but then at
\* most MaxBypass times for each place in the queue, and for each request that was
\* cancelled, as admission does not count a cancelled entry that is still there.
BypassBound ==
    \A r \in Req : /\ bypass[r] <= MaxBypass * (MaxQueueDepth + Cardinality(token))
                   /\ SameLane => bypass[r] <= MaxBypass

\* When its handler has returned, the record of a request is terminal.
EveryRecordEnds == \A r \in Req : pc[r] = "done" => status[r] \in Terminal \cup {"none"}

\* When clients hang up, the only record that outlives its handler is that of a
\* stream whose client was gone before the body generator started.
OnlyAbandonedStreamsLeak ==
    \A r \in Req : (pc[r] = "done" /\ status[r] \notin Terminal \cup {"none"})
                     => r \in gone /\ status[r] = "streaming"

(***************************************************************************)
(* Action properties                                                       *)
(***************************************************************************)
StartsExecuting(r) == pc[r] # "executing" /\ pc'[r] = "executing"

\* A queued request reaches the adapter neither after its own deadline nor after
\* its cancellation, whoever selected it.
NoLateExecution ==
    [][\A r \in Req : (pc[r] = "waiting" /\ StartsExecuting(r))
                        => ~Expired(r) /\ r \notin token]_vars

\* A slot is taken only while the limit in force and the lane have room, even
\* when a new profile has just lowered the limit below the running work.
TakesSlot(r) ==
    /\ r \notin ActiveRecords \cup reservations
    /\ r \in ActiveRecords' \cup reservations'

SlotsWithinLimit == [][\A r \in Req : TakesSlot(r) => EntryEligible(r)]_vars

\* A terminal record never becomes active, queued or absent again.
TerminalStaysTerminal ==
    [][\A r \in Req : status[r] \in Terminal => status'[r] \in Terminal]_vars

\* r comes before s in the queue.
Before(r, s) == \E i, j \in DOMAIN queue : i < j /\ queue[i] = r /\ queue[j] = s

Leaves(r) == r \notin granted /\ r \in granted'

\* Under the FIFO policy the queue serves each lane in order of arrival: a grant
\* passes over an older entry of its lane only when that entry has expired.
FifoWithinLane ==
    [][Policy = "fifo" =>
         \A r, s \in Req :
           (Leaves(s) /\ Before(r, s) /\ req[r].lane = req[s].lane) => Expired(r)]_vars

(***************************************************************************)
(* Liveness                                                                *)
(***************************************************************************)
\* No waiter is forgotten: every queued request is executed or answered.
QueuedIsAnswered ==
    \A r \in Req : pc[r] = "waiting" ~> pc[r] \in {"executing", "done"}

(***************************************************************************)
(* The broker implements the slot pool.                                    *)
(***************************************************************************)
Phase(r) ==
    CASE r \in ActiveRecords \cup reservations                    -> "holding"
      [] r \notin ActiveRecords \cup reservations /\ pc[r] = "idle" -> "new"
      [] r \notin ActiveRecords \cup reservations /\ pc[r] = "done" -> "done"
      [] r \notin ActiveRecords \cup reservations
         /\ pc[r] = "waiting" /\ r \notin granted                 -> "waiting"
      [] OTHER                                                     -> "draining"

\* A lane without a ceiling is bounded by the pool alone.
LaneSlots == [l \in Lanes |-> IF l \in Uncapped THEN OperatorCeiling
                                                ELSE AtLeastOne(LaneMax[l])]

Pool == INSTANCE SlotPool WITH
          Requests <- Req, Size <- OperatorCeiling,
          LaneNames <- Lanes, LaneSize <- LaneSlots,
          phase <- [r \in Req |-> Phase(r)], laneOf <- [r \in Req |-> req[r].lane]

\* Every behaviour of the broker is a behaviour of the slot pool: the queue, the
\* scheduler and the cancellation paths never hand out a slot the pool would not.
ImplementsSlotPool == Pool!PoolSpec
===============================================================================
