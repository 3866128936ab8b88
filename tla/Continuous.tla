------------------------------- MODULE Continuous -------------------------------
(***************************************************************************)
(* The continuous-batching prototype: FakeTokenLevelScheduler (slots,       *)
(* ticks, chunks) and FakeStreamingDemux (one ordered stream per request),  *)
(* driven by a caller that takes chunks from the scheduler and routes them, *)
(* in any order, to the demultiplexer.                                      *)
(*                                                                         *)
(* Requests are numbered in the order of their first admission, which is   *)
(* the iteration order of _requests.  An id may be admitted again at any    *)
(* time: admit replaces the record, looks at nothing and frees nothing.    *)
(***************************************************************************)
EXTENDS Naturals, FiniteSets, SequencesExt

CONSTANTS
    Requests,           \* 1..n
    Ends,               \* the ways a caller ends a request: cancelled, timed_out, failed
    MaxSlots,           \* max_slots
    MaxPrefill,         \* max_prefill_per_tick
    MaxDecode,          \* max_decode_per_tick
    MaxDecodeSteps,     \* max_decode_steps_per_request
    MaxAdmissions       \* bound: admissions, repeated ids included

ASSUME ContinuousAssumption ==
    /\ IsFiniteSet(Requests) /\ Requests = 1..Cardinality(Requests)
    /\ Ends \subseteq {"cancelled", "timed_out", "failed"}
    /\ {MaxSlots, MaxPrefill, MaxDecode, MaxDecodeSteps, MaxAdmissions} \subseteq Nat \ {0}

VARIABLES
    job,        \* _requests: state, slot_id, decode_steps_completed, output_chunks
    pending,    \* _pending_admission
    slot,       \* _slots: state and request_id
    stream,     \* FakeStreamingDemux._streams; events holds the drained ones too
    wire,       \* chunks the driver drained and has yet to route
    admissions, \* ghost: number of admissions so far
    reused      \* ghost: ids that were admitted again while they held a slot

cbVars == <<job, pending, slot, stream, wire, admissions, reused>>

None == 0
Slots == 1..MaxSlots
Terminal == {"completed", "failed", "cancelled", "timed_out"}
Running == {"prefill_pending", "prefill_running", "decode_active", "stream_draining"}

Chunk == [req : Requests, slot : Slots, index : 0..(MaxDecodeSteps - 1)]
StreamEvent == [kind : {"chunk"} \cup Terminal, index : 0..MaxDecodeSteps]

CbTypeOK ==
    /\ \A r \in Requests :
          /\ job[r].state \in {"absent", "admitted"} \cup Running \cup Terminal
          /\ job[r].slot \in Slots \cup {None}
          /\ job[r].steps \in 0..MaxDecodeSteps
          /\ job[r].chunks \in Seq(Chunk)
          /\ stream[r].state \in {"absent", "open"} \cup Terminal
          /\ stream[r].events \in Seq(StreamEvent)
    /\ pending \in Seq(Requests)
    /\ slot \in [Slots -> [state : {"empty", "reserved", "released"},
                           owner : Requests \cup {None}]]
    /\ wire \subseteq Chunk
    /\ reused \subseteq Requests

NewJob == [state |-> "admitted", slot |-> None, steps |-> 0, chunks |-> << >>]

CbInit ==
    /\ job = [r \in Requests |-> [NewJob EXCEPT !.state = "absent"]]
    /\ pending = << >>
    /\ slot = [s \in Slots |-> [state |-> "empty", owner |-> None]]
    /\ stream = [r \in Requests |-> [state |-> "absent", events |-> << >>]]
    /\ wire = {}
    /\ admissions = 0
    /\ reused = {}

-----------------------------------------------------------------------------
(* The scheduler.                                                          *)

\* Faulty variant: the id is not put on the pending list again.
AdmitOnce(r) ==
    /\ admissions < MaxAdmissions
    /\ \A q \in 1..(r - 1) : job[q].state # "absent"
    /\ job' = [job EXCEPT ![r] = NewJob]
    /\ pending' = IF job[r].state = "absent" THEN Append(pending, r) ELSE pending
    /\ admissions' = admissions + 1
    /\ reused' = IF job[r].state \in Running THEN reused \cup {r} ELSE reused
    /\ UNCHANGED <<slot, stream, wire>>

\* admit: a new record, at the end of the pending list, whatever the id's request
\* was doing.  A slot it held keeps the id and the next tick finds it another.
Admit(r) ==
    /\ admissions < MaxAdmissions
    /\ \A q \in 1..(r - 1) : job[q].state # "absent"
    /\ job' = [job EXCEPT ![r] = NewJob]
    /\ pending' = Append(pending, r)
    /\ admissions' = admissions + 1
    /\ reused' = IF job[r].state \in Running THEN reused \cup {r} ELSE reused
    /\ UNCHANGED <<slot, stream, wire>>

SlotsHeld(r, slots) == {s \in Slots : slots[s].owner = r}

\* _release_slot_for: the first slot with the id is marked released, not empty.
ReleaseSlotFor(r, slots) ==
    IF SlotsHeld(r, slots) = {} THEN slots
    ELSE [slots EXCEPT ![Min(SlotsHeld(r, slots))] = [state |-> "released", owner |-> None]]

\* cancel, timeout, fail_request: a no-op on a request that ended.
End(r, how) ==
    /\ job[r].state \in Running \cup {"admitted"}
    /\ job' = [job EXCEPT ![r].state = how]
    /\ slot' = ReleaseSlotFor(r, slot)
    /\ UNCHANGED <<pending, stream, wire, admissions, reused>>

\* _process_admission works through the pending list: an entry whose request no
\* longer waits is dropped, the k-th that waits gets the k-th empty slot
\* (_find_empty_slot), and the first that finds none ends the loop.
EmptySlots == {s \in Slots : slot[s].state = "empty"}
Waits(i) ==
    /\ job[pending[i]].state = "admitted"
    /\ \A k \in 1..(i - 1) : pending[k] # pending[i]
Rank(i) == Cardinality({k \in 1..i : Waits(k)})
Placed == {i \in 1..Len(pending) : Waits(i) /\ Rank(i) <= Cardinality(EmptySlots)}
SlotOf(i) == CHOOSE s \in EmptySlots : Cardinality({t \in EmptySlots : t <= s}) = Rank(i)
StillPending ==
    LET turnedAway == {i \in 1..Len(pending) : Waits(i) /\ i \notin Placed}
    IN IF turnedAway = {} THEN << >>
       ELSE SubSeq(pending, Min(turnedAway), Len(pending))

\* _process_admission, its effect on requests and on slots.
ProcessAdmission ==
    [r \in Requests |->
        IF \E i \in Placed : pending[i] = r
        THEN [job[r] EXCEPT !.state = "prefill_pending",
                            !.slot = SlotOf(CHOOSE i \in Placed : pending[i] = r)]
        ELSE job[r]]
AdmissionSlots ==
    [s \in Slots |->
        IF \E i \in Placed : SlotOf(i) = s
        THEN [state |-> "reserved", owner |-> pending[CHOOSE i \in Placed : SlotOf(i) = s]]
        ELSE slot[s]]

\* _process_prefill goes through the requests until it has started MaxPrefill
\* of them; a prefill lasts one tick, and going on to decode costs nothing.
ProcessPrefill(jobs) ==
    LET startsBefore(r) == Cardinality({q \in 1..(r - 1) : jobs[q].state = "prefill_pending"})
        next == [prefill_pending |-> "prefill_running", prefill_running |-> "decode_active"]
    IN [r \in Requests |->
           IF jobs[r].state \in DOMAIN next /\ startsBefore(r) < MaxPrefill
           THEN [jobs[r] EXCEPT !.state = next[@]]
           ELSE jobs[r]]

\* Faulty variant: the request that has all its tokens is never drained.
DecodedStuck(j, r) ==
    IF j.steps >= MaxDecodeSteps THEN j
    ELSE [j EXCEPT !.chunks = Append(@, [req |-> r, slot |-> j.slot, index |-> j.steps]),
                   !.steps = @ + 1]

\* One request in _process_decode: emit a chunk, or start draining.
Decoded(j, r) ==
    IF j.steps >= MaxDecodeSteps THEN [j EXCEPT !.state = "stream_draining"]
    ELSE [j EXCEPT !.chunks = Append(@, [req |-> r, slot |-> j.slot, index |-> j.steps]),
                   !.steps = @ + 1]

\* _process_decode, until MaxDecode chunks were emitted.
ProcessDecode(jobs) ==
    LET active(r) == jobs[r].state = "decode_active"
        emitsBefore(r) ==
            Cardinality({q \in 1..(r - 1) : active(q) /\ jobs[q].steps < MaxDecodeSteps})
    IN [r \in Requests |-> IF active(r) /\ emitsBefore(r) < MaxDecode
                           THEN Decoded(jobs[r], r) ELSE jobs[r]]

\* _process_drain, its two effects: the request is completed and its slot has
\* no owner.  _update_slot_state has an empty body: the slot stays reserved.
Drained(jobs) ==
    [r \in Requests |-> IF jobs[r].state = "stream_draining"
                        THEN [jobs[r] EXCEPT !.state = "completed"] ELSE jobs[r]]
DrainedSlots(jobs, slots) ==
    [s \in Slots |->
        IF \E r \in Requests : jobs[r].state = "stream_draining" /\ jobs[r].slot = s
        THEN [slots[s] EXCEPT !.owner = None] ELSE slots[s]]

\* tick: the four phases in order.
Tick ==
    \E jobs \in {ProcessDecode(ProcessPrefill(ProcessAdmission))} :
        /\ job' = Drained(jobs)
        /\ slot' = DrainedSlots(jobs, AdmissionSlots)
        /\ pending' = StillPending
        /\ UNCHANGED <<stream, wire, admissions, reused>>

-----------------------------------------------------------------------------
(* The driver and the demultiplexer.                                       *)

\* drain_outputs: the driver takes every chunk of a request.
DrainOutputs(r) ==
    /\ job[r].chunks # << >>
    /\ wire' = wire \cup ToSet(job[r].chunks)
    /\ job' = [job EXCEPT ![r].chunks = << >>]
    /\ UNCHANGED <<pending, slot, stream, admissions, reused>>

\* open_stream: idempotent.
OpenStream(r) ==
    /\ job[r].state # "absent"
    /\ stream[r].state = "absent"
    /\ stream' = [stream EXCEPT ![r].state = "open"]
    /\ UNCHANGED <<job, pending, slot, wire, admissions, reused>>

\* Faulty variant: the sequence index is not compared.
AcceptsAnyIndex(c) == stream[c.req].state = "open"

\* route_chunk's refusals: no stream, a closed stream, another index than the
\* next.  A request or slot that is not active is reported, not refused.
Accepts(c) ==
    /\ stream[c.req].state = "open"
    /\ c.index = Len(stream[c.req].events)

\* route_chunk, the chunk lost on the driver's side or sent twice.
RouteChunk(c, again) ==
    /\ stream' = IF Accepts(c)
                 THEN [stream EXCEPT ![c.req].events =
                          Append(@, [kind |-> "chunk", index |-> c.index])]
                 ELSE stream
    /\ wire' = IF again THEN wire ELSE wire \ {c}
    /\ UNCHANGED <<job, pending, slot, admissions, reused>>

\* complete, cancel, timeout, fail: _emit_terminal, once per stream.
EmitTerminal(r, how) ==
    /\ stream[r].state = "open"
    /\ stream' = [stream EXCEPT ![r] =
          [state |-> how, events |-> Append(@.events, [kind |-> how, index |-> Len(@.events)])]]
    /\ UNCHANGED <<job, pending, slot, wire, admissions, reused>>

\* The driver closes a stream when the request it serves has ended.
Close(r) ==
    /\ job[r].state \in Terminal
    /\ EmitTerminal(r, job[r].state)

CbNext ==
    \/ Tick
    \/ \E r \in Requests : Admit(r)
    \/ \E r \in Requests, how \in Ends : End(r, how)
    \/ \E r \in Requests : DrainOutputs(r) \/ OpenStream(r) \/ Close(r)
    \/ \E c \in wire, again \in BOOLEAN : RouteChunk(c, again)

CbSpec == CbInit /\ [][CbNext]_cbVars /\ WF_cbVars(Tick)

-----------------------------------------------------------------------------
(* Properties.                                                             *)

\* A running request owns the slot it names and a released slot has no owner,
\* through ends, ticks and ids that are used again.  An id owns no other slot, and
\* none when its request does not run: validate_slot_assignments stays silent.
\* That does not hold of an id admitted again while it held a slot: admit leaves the
\* old slot to it, and one end gives back one slot.
SlotSingleOwner ==
    /\ \A r \in Requests :
          job[r].state \in Running => job[r].slot \in SlotsHeld(r, slot)
    /\ \A r \in Requests \ reused :
          SlotsHeld(r, slot) \subseteq IF job[r].state \in Running THEN {job[r].slot} ELSE {}
    /\ \A s \in Slots : slot[s].owner # None => slot[s].state = "reserved"

\* What a stream delivers is chunk 0, 1, 2, ... without gap or repetition, and
\* at most one terminal event, which is the last (route_chunk, _emit_terminal),
\* however the driver orders and repeats chunks.
StreamsAreOrdered ==
    \A r \in Requests :
        LET e == stream[r].events
        IN /\ \A i \in 1..Len(e) : e[i].index = i - 1
           /\ \A i \in 1..Len(e) : (e[i].kind # "chunk") <=> (i = Len(e) /\ stream[r].state \in Terminal)

\* A request that waits for a slot is on the pending list, also when its id was
\* cancelled and admitted again between two ticks (admit, _process_admission).
NoRequestForgotten ==
    \A r \in Requests : job[r].state = "admitted" => r \in ToSet(pending)

\* A request that has a slot ends, whatever the others do, as long as the
\* scheduler ticks: the per-tick limits starve nobody.
SlottedRequestsEnd ==
    \A r \in Requests : (job[r].state \in Running) ~> (job[r].state \notin Running)

\* The scheduler's tables agree with one another between any two calls: slots with
\* requests, and waiting requests with the pending list.
SchedulerConsistent == CbTypeOK /\ SlotSingleOwner /\ NoRequestForgotten
================================================================================
