------------------------------ MODULE MCContinuous ------------------------------
(***************************************************************************)
(* The two continuous-batching prototypes side by side: a behaviour is one  *)
(* of the token-level scheduler or one of the token-step scheduler.         *)
(***************************************************************************)
EXTENDS Continuous, TokenSteps

VARIABLE focus      \* the prototype this behaviour exercises

TsIdle ==
    /\ limit = [r \in Seqs |-> 0] /\ strikes = [k \in Kinds |-> {}] /\ shared = {}
    /\ mode = [r \in Seqs |-> "ready_to_decode"] /\ emitted = [r \in Seqs |-> << >>]
    /\ stepCount = 0 /\ tally = [k \in Kinds |-> 0] /\ phase = "loop"

MCInit ==
    \/ focus = "ticks" /\ CbInit /\ TsIdle
    \/ focus = "steps" /\ CbInit /\ TsInit

MCNext ==
    \/ focus = "ticks" /\ CbNext /\ UNCHANGED <<focus, tsVars>>
    \/ focus = "steps" /\ TsNext /\ UNCHANGED <<focus, cbVars>>

MCSpec ==
    /\ MCInit /\ [][MCNext]_<<cbVars, tsVars, focus>>
    /\ WF_cbVars(focus = "ticks" /\ Tick /\ UNCHANGED <<focus, tsVars>>)
================================================================================
