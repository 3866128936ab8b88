-------------------------- MODULE CapacityController --------------------------
(***************************************************************************)
(* The capacity controller of whooshd/capacity_controller.py: the global   *)
(* active limit in force, and the verdict on one incoming request.  The    *)
(* controller keeps no state of its own beyond a cache of the calibration  *)
(* profile, so it is a module of operators; Broker.tla feeds it the live   *)
(* counters.                                                               *)
(***************************************************************************)
EXTENDS Integers

CONSTANTS
    Mode,              \* WHOOSHD_CAPACITY_MODE: "fixed" or "adaptive"
    MaxActiveRequests, \* WHOOSHD_MAX_ACTIVE_REQUESTS, any integer
    PressureDeny       \* WHOOSHD_CAPACITY_MEMORY_PRESSURE_DENY

ASSUME ControllerAssumption ==
    /\ Mode \in {"fixed", "adaptive"}
    /\ MaxActiveRequests \in Int
    /\ PressureDeny \in BOOLEAN

AtLeastOne(n) == IF n < 1 THEN 1 ELSE n

\* The operator's hard upper bound on concurrent work.
OperatorCeiling == AtLeastOne(MaxActiveRequests)

\* A profile is the recommended concurrency (>= 1) measured for this model,
\* runtime and machine.  0 stands for a profile that is missing, unreadable or
\* not eligible here.
NoProfile == 0

EffectiveActiveLimit(profile, pressure) ==
    LET calibrated == IF profile < OperatorCeiling THEN profile ELSE OperatorCeiling
        halved     == AtLeastOne(calibrated \div 2)
    IN  IF Mode = "fixed" \/ profile = NoProfile
        THEN OperatorCeiling
        ELSE IF /\ PressureDeny
                /\ pressure \in {"high", "critical"}
                /\ calibrated > 1
             THEN halved
             ELSE AtLeastOne(calibrated)

(***************************************************************************)
(* What evaluate() decides for a request: it sees the counters of the      *)
(* runtime, the lane the request is bound for and whether the request fits *)
(* the context budget of its model.                                        *)
(*   ctx.activeJobs, ctx.queueDepth, ctx.maxQueueDepth : the counters      *)
(*   ctx.laneCapped : the lane declares a ceiling, ctx.laneMax             *)
(*   ctx.laneActive : active jobs of that lane                             *)
(*   ctx.overBudget, ctx.runtimeReady : context policy and readiness       *)
(***************************************************************************)
GlobalAvailable(ctx, limit) == ctx.activeJobs < limit

LaneAvailable(ctx) == ctx.laneCapped => ctx.laneActive < AtLeastOne(ctx.laneMax)

QueueHasRoom(ctx) == ctx.queueDepth < ctx.maxQueueDepth

PressureOverride(ctx, limit, pressure) ==
    PressureDeny /\ pressure = "high" /\ limit <= ctx.activeJobs + 1

Evaluate(ctx, profile, pressure) ==
    LET limit == EffectiveActiveLimit(profile, pressure)
    IN  CASE ctx.overBudget         -> [action |-> "REJECT", reason |-> "context_overflow"]
          [] /\ ~ctx.overBudget
             /\ ~ctx.runtimeReady   -> [action |-> "REJECT", reason |-> "runtime_not_ready"]
          [] /\ ~ctx.overBudget
             /\ ctx.runtimeReady
             /\ GlobalAvailable(ctx, limit)
             /\ LaneAvailable(ctx)  ->
                IF PressureOverride(ctx, limit, pressure)
                THEN [action |-> "QUEUE", reason |-> "memory_pressure_high"]
                ELSE [action |-> "RUN", reason |-> "available"]
          [] OTHER ->
                [action |-> IF QueueHasRoom(ctx) THEN "QUEUE" ELSE "REJECT",
                 reason |-> IF ~LaneAvailable(ctx) THEN "lane_capacity"
                            ELSE IF QueueHasRoom(ctx) THEN "limit"
                            ELSE "queue_full"]
===============================================================================
