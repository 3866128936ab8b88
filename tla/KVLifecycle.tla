------------------------------ MODULE KVLifecycle ------------------------------
(***************************************************************************)
(* KVLifecycleObserver: the ring buffer of KV events and the estimate of    *)
(* live handles.  Every method holds the observer's lock: one action each. *)
(***************************************************************************)
EXTENDS Naturals, Sequences

CONSTANTS
    EventTypes,     \* the event types recorded
    RingSize,       \* max_events
    MaxRecorded     \* bound: events recorded between two clears

ASSUME KVLifecycleAssumption == RingSize \in Nat \ {0} /\ MaxRecorded \in Nat

VARIABLES
    ring,       \* _events
    cursor,     \* _cursor
    handles,    \* _active_handles
    history     \* ghost: every event since the last clear, in order

ringVars == <<ring, cursor, handles, history>>

\* An event is its type and its place in the history.
Event == [type : EventTypes, at : 1..MaxRecorded]

RingTypeOK ==
    /\ ring \in Seq(Event) /\ Len(ring) <= RingSize
    /\ cursor \in 0..MaxRecorded
    /\ handles \in Nat
    /\ history \in Seq(EventTypes)

RingInit == ring = << >> /\ cursor = 0 /\ handles = 0 /\ history = << >>

\* _update_stats
Handles(type) ==
    CASE type \in {"kv_created", "kv_cloned"}   -> handles + 1
      [] type \in {"kv_released", "kv_evicted"} -> IF handles > 0 THEN handles - 1 ELSE 0
      [] OTHER                                  -> handles

\* Faulty variant: the cursor only moves once the buffer is full, from 1 on.
RecordedLate(e) ==
    IF Len(ring) < RingSize THEN Append(ring, e)
    ELSE [ring EXCEPT ![((cursor - 1) % RingSize) + 1] = e]

\* record: append until the buffer is full, then overwrite at the cursor.
Recorded(e) ==
    IF Len(ring) < RingSize THEN Append(ring, e)
    ELSE [ring EXCEPT ![(cursor % RingSize) + 1] = e]

Record(type) ==
    /\ Len(history) < MaxRecorded
    /\ history' = Append(history, type)
    /\ ring' = Recorded([type |-> type, at |-> Len(history) + 1])
    /\ cursor' = cursor + 1
    /\ handles' = Handles(type)

\* clear
Clear ==
    /\ history # << >>
    /\ ring' = << >> /\ cursor' = 0 /\ handles' = 0 /\ history' = << >>

RingNext == (\E type \in EventTypes : Record(type)) \/ Clear

RingSpec == RingInit /\ [][RingNext]_ringVars

\* The buffer holds exactly the latest events, as many as it has room for,
\* through wrap-around and clears (KVLifecycleObserver.record, clear).
RingHoldsLatest ==
    LET n == Len(history)
        first == IF n > RingSize THEN n - RingSize + 1 ELSE 1
    IN {ring[i] : i \in 1..Len(ring)} = {[type |-> history[k], at |-> k] : k \in first..n}
================================================================================
