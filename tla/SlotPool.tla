-------------------------------- MODULE SlotPool --------------------------------
(***************************************************************************)
(* What the broker promises about execution slots, with the queue, the     *)
(* scheduler, grants, deadlines and records left out.  A request waits,    *)
(* holds one slot, drains (its slot is given back but its handler has not  *)
(* returned) and is done.  In one step at most one request takes a slot,   *)
(* and only when the pool and its lane have a free one; any number may     *)
(* move on.  A slot given back is never resumed.                           *)
(***************************************************************************)
EXTENDS Naturals, FiniteSets

CONSTANTS Requests, Size, LaneNames, LaneSize

VARIABLES phase, laneOf

poolVars == <<phase, laneOf>>

Phases == {"new", "waiting", "holding", "draining", "done"}

Holders == {r \in Requests : phase[r] = "holding"}

LaneHolders(l) == {r \in Holders : laneOf[r] = l}

PoolInit ==
    /\ laneOf \in [Requests -> LaneNames]
    /\ phase = [r \in Requests |-> "new"]

HasSlotFor(r) ==
    /\ Cardinality(Holders) < Size
    /\ Cardinality(LaneHolders(laneOf[r])) < LaneSize[laneOf[r]]

\* The ways a request moves on without taking a slot.
MovesOn ==
    [new      |-> {"new", "waiting", "done"},
     waiting  |-> {"waiting", "done"},
     holding  |-> {"holding", "draining", "done"},
     draining |-> {"draining", "done"},
     done     |-> {"done"}]

TakeSlot(r) ==
    /\ phase[r] \in {"new", "waiting"}
    /\ HasSlotFor(r)
    /\ phase'[r] = "holding"

PoolNext ==
    /\ phase' \in [Requests -> Phases]
    /\ \A r \in Requests :
         \/ phase'[r] \in MovesOn[phase[r]]
         \/ TakeSlot(r) /\ \A s \in Requests \ {r} : phase'[s] \in MovesOn[phase[s]]
    /\ UNCHANGED laneOf

PoolSpec == PoolInit /\ [][PoolNext]_poolVars
===============================================================================
