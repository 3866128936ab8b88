------------------------------- MODULE Scheduler -------------------------------
(***************************************************************************)
(* The selection policy of whooshd/scheduler.py.  Candidates are positions *)
(* of the queue: the queue is appended to and enqueued_at is stamped at    *)
(* the append, so the order of positions is the order of queued_at (the    *)
(* wall clock is taken to be strictly increasing between two enqueues).    *)
(***************************************************************************)
EXTENDS Naturals

CONSTANTS
    Policy,     \* WHOOSHD_SCHEDULER_POLICY: "fifo" or "cache_aware_fifo"
    MaxBypass   \* WHOOSHD_SCHEDULER_MAX_BYPASS

ASSUME SchedulerAssumption ==
    /\ Policy \in {"fifo", "cache_aware_fifo"}
    /\ MaxBypass \in Nat

IsOldest(i, cands) == i \in cands /\ \A j \in cands : i <= j

\* Faulty variant: the newest candidate goes first.
ChooseNewest(i, cands) == i \in cands /\ \A j \in cands : j <= i

ChooseFifo(i, cands) == IsOldest(i, cands)

\* Faulty variant: one bypass too many before fairness is forced.
ChooseCacheAwareLate(i, cands, ready, bypass) ==
    \/ /\ IsOldest(i, cands)
       /\ bypass[i] > MaxBypass \/ cands \cap ready = {}
    \/ /\ \A j \in cands : IsOldest(j, cands) => bypass[j] <= MaxBypass
       /\ IsOldest(i, cands \cap ready)

\* The oldest candidate runs when it was bypassed often enough or nobody has a
\* warm prefix; otherwise the first cache-ready candidate does.  ready is the
\* set of cache-ready positions, bypass[i] the bypass count of the position.
ChooseCacheAware(i, cands, ready, bypass) ==
    \/ /\ IsOldest(i, cands)
       /\ bypass[i] >= MaxBypass \/ cands \cap ready = {}
    \/ /\ \A j \in cands : IsOldest(j, cands) => bypass[j] < MaxBypass
       /\ IsOldest(i, cands \cap ready)

\* choose_next(cands) returns position i.
ChooseNext(i, cands, ready, bypass) ==
    IF Policy = "fifo" THEN ChooseFifo(i, cands)
                       ELSE ChooseCacheAware(i, cands, ready, bypass)

\* The candidates whose bypass count the choice of i increments.  Only a
\* cache-affinity choice has older candidates to skip.
Bypassed(i, cands) == {j \in cands : j < i}
===============================================================================
