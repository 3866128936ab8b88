------------------------------- MODULE TokenSteps -------------------------------
(***************************************************************************)
(* run_fake_token_step_schedule over FakeTokenStepBackend: sequences decode *)
(* together, one token per step, while planned cancellations, timeouts and  *)
(* failures strike some of them and a shared failure strikes all.           *)
(*                                                                         *)
(* A sequence is named by its request: prefill gives each its own id, and   *)
(* the two route tables are inverse to each other.                         *)
(***************************************************************************)
EXTENDS Naturals, FiniteSets, Sequences

CONSTANTS
    Seqs,           \* the request ids of one schedule
    MaxTokens,      \* bound: max_tokens of a request
    LastStep        \* bound: the last step a plan may name

ASSUME TokenStepsAssumption == IsFiniteSet(Seqs) /\ MaxTokens \in Nat /\ LastStep \in Nat

VARIABLES
    limit,      \* max_tokens of each request
    strikes,    \* the three per-request plans: kind -> set of <<request, step>>
    shared,     \* shared_fail_at
    mode,       \* FakeTokenStepBackend._states
    emitted,    \* accumulators: the tokens routed to each request
    stepCount,  \* step_count
    tally,      \* cancelled, timed_out, failed
    phase       \* "loop", "report" or "clean": where the function is

tsVars == <<limit, strikes, shared, mode, emitted, stepCount, tally, phase>>

Kinds == {"cancelled", "timed_out", "failed"}
Finished == Kinds \cup {"finished"}

\* A token names the sequence it was decoded for and its position.
Token == [req : Seqs, at : 0..(MaxTokens - 1)]

TsTypeOK ==
    /\ mode \in [Seqs -> Finished \cup {"ready_to_decode", "decoding", "cleaned_up"}]
    /\ emitted \in [Seqs -> Seq(Token)]
    /\ stepCount \in 0..(MaxTokens + 1)
    /\ tally \in [Kinds -> 0..Cardinality(Seqs)]
    /\ phase \in {"loop", "report", "clean"}

\* Plans with at most one entry of each kind.
OnePlan == {{}} \cup {{<<r, n>>} : r \in Seqs, n \in 0..LastStep}

\* Entry and the prefill loop: every sequence is ready to decode.
TsInit ==
    /\ limit \in [Seqs -> 0..MaxTokens]
    /\ strikes \in [Kinds -> OnePlan]
    /\ shared \in {{}} \cup {{n} : n \in 0..LastStep}
    /\ mode = [r \in Seqs |-> "ready_to_decode"]
    /\ emitted = [r \in Seqs |-> << >>]
    /\ stepCount = 0
    /\ tally = [k \in Kinds |-> 0]
    /\ phase = "loop"

\* is_finished, _active
Active(m) == {r \in Seqs : m[r] \notin Finished}

\* _apply with cancel_sequence, timeout_sequence or fail_sequence.
Apply(acc, kind) ==
    LET hit == {r \in Active(acc.mode) : <<r, stepCount>> \in strikes[kind]}
    IN [mode  |-> [r \in Seqs |-> IF r \in hit THEN kind ELSE acc.mode[r]],
        tally |-> [acc.tally EXCEPT ![kind] = @ + Cardinality(hit)]]

\* The loop's order: cancellations, timeouts, failures.
Struck ==
    LET cancelled == Apply([mode |-> mode, tally |-> tally], "cancelled")
        timedOut == Apply(cancelled, "timed_out")
    IN  Apply(timedOut, "failed")

\* decode_step, the state it leaves: a step beyond the last token finishes.
Decodes(m, r) ==
    IF r \notin Active(m) THEN m[r]
    ELSE IF Len(emitted[r]) < limit[r] THEN "decoding" ELSE "finished"

\* decode_step, the tokens it returns, routed to their requests.
Routed(m, r) ==
    IF r \in Active(m) /\ Len(emitted[r]) < limit[r]
    THEN Append(emitted[r], [req |-> r, at |-> Len(emitted[r])])
    ELSE emitted[r]

\* Faulty variant: the shared failure strikes after the step's decode.
SharedFailureLate ==
    /\ phase = "loop" /\ Active(mode) # {} /\ stepCount \in shared
    /\ mode' = [r \in Seqs |-> IF r \in Active(mode) THEN "failed" ELSE mode[r]]
    /\ emitted' = [r \in Seqs |-> Routed(mode, r)]
    /\ tally' = [tally EXCEPT !["failed"] = @ + Cardinality(Active(mode))]
    /\ stepCount' = stepCount + 1
    /\ phase' = "report"
    /\ UNCHANGED <<limit, strikes, shared>>

\* A shared failure ends every active sequence and the loop.
SharedFailure ==
    /\ phase = "loop" /\ Active(mode) # {} /\ stepCount \in shared
    /\ mode' = [r \in Seqs |-> IF r \in Active(mode) THEN "failed" ELSE mode[r]]
    /\ tally' = [tally EXCEPT !["failed"] = @ + Cardinality(Active(mode))]
    /\ stepCount' = stepCount + 1
    /\ phase' = "report"
    /\ UNCHANGED <<limit, strikes, shared, emitted>>

\* An iteration without one: strike, stop if nobody is left, decode the rest.
DecodeStep ==
    /\ phase = "loop" /\ Active(mode) # {} /\ stepCount \notin shared
    /\ tally' = Struck.tally
    /\ IF Active(Struck.mode) = {}
       THEN /\ mode' = Struck.mode /\ phase' = "report"
            /\ UNCHANGED <<emitted, stepCount>>
       ELSE /\ mode' = [r \in Seqs |-> Decodes(Struck.mode, r)]
            /\ emitted' = [r \in Seqs |-> Routed(Struck.mode, r)]
            /\ stepCount' = stepCount + 1
            /\ UNCHANGED phase
    /\ UNCHANGED <<limit, strikes, shared>>

\* The loop's exit: no active sequence.
LoopEnds ==
    /\ phase = "loop" /\ Active(mode) = {}
    /\ phase' = "report"
    /\ UNCHANGED <<limit, strikes, shared, mode, emitted, stepCount, tally>>

\* _finish_reason of a result.
FinishReason(r) == IF mode[r] \in Kinds THEN mode[r] ELSE "stop"

\* Cleanup: release_sequence for every handle, after the results are built.
CleanUp ==
    /\ phase = "report"
    /\ mode' = [r \in Seqs |-> "cleaned_up"]
    /\ phase' = "clean"
    /\ UNCHANGED <<limit, strikes, shared, emitted, stepCount, tally>>

TsNext == SharedFailure \/ DecodeStep \/ LoopEnds \/ CleanUp

TsSpec == TsInit /\ [][TsNext]_tsVars

\* The report's sequences_finished.
SequencesFinished ==
    Cardinality(Seqs) - tally["cancelled"] - tally["timed_out"] - tally["failed"]

-----------------------------------------------------------------------------
(* Properties.                                                             *)

\* The steps at which a request is struck on its own or together with all.
StrikesOf(r) == {n \in 0..LastStep : n \in shared \/ \E k \in Kinds : <<r, n>> \in strikes[k]}

\* The number of tokens and the finish reason a request would have if it were
\* the only one of the schedule: it decodes one token per step, notices the end
\* one step later, and the first strike up to that step wins; among strikes of
\* the same step the shared failure wins, then cancel, timeout and failure.
Alone(r) ==
    LET hits == {n \in StrikesOf(r) : n <= limit[r]}
        first == CHOOSE n \in hits : \A m \in hits : n <= m
        struckBy(k) == <<r, first>> \in strikes[k]
    IN IF hits = {} THEN [tokens |-> limit[r], reason |-> "stop"]
       ELSE [tokens |-> first,
             reason |-> CASE first \in shared       -> "failed"
                          [] first \notin shared /\ struckBy("cancelled") -> "cancelled"
                          [] first \notin shared /\ ~struckBy("cancelled") /\ struckBy("timed_out") -> "timed_out"
                          [] OTHER -> "failed"]

\* Peer isolation: whatever happens to the other sequences of the schedule, a
\* request gets exactly the tokens, all its own and in order, and the finish
\* reason it would get alone (run_fake_token_step_schedule).
PeerIsolation ==
    phase = "report" =>
        \A r \in Seqs :
            /\ emitted[r] = [i \in 1..Alone(r).tokens |-> [req |-> r, at |-> i - 1]]
            /\ FinishReason(r) = Alone(r).reason

\* The report balances: sequences_finished is the number of requests that
\* ended by themselves, and each tally the number of results with its reason.
ReportBalances ==
    phase = "report" =>
        /\ SequencesFinished = Cardinality({r \in Seqs : FinishReason(r) = "stop"})
        /\ \A k \in Kinds : tally[k] = Cardinality({r \in Seqs : FinishReason(r) = k})

\* A shared schedule is as good as one schedule for each sequence, in what the
\* sequences get and in what the report says of them.
SequencesAreIndependent == TsTypeOK /\ PeerIsolation /\ ReportBalances
================================================================================
