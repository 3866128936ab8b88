-------------------------------- MODULE Batching --------------------------------
(***************************************************************************)
(* BatchAnalyzer.analyze (batching.py): queued candidates are grouped, one   *)
(* anchor per turn of the loop.  A candidate is [model, backend, stream,     *)
(* image, sampling, tokens]; groups hold positions of the input.             *)
(***************************************************************************)
EXTENDS Naturals, Sequences, FiniteSets, SequencesExt, FiniteSetsExt

CONSTANTS
    CandidateLists,     \* the inputs
    MaxGroupSize,       \* max_group_size
    MaxTotalTokens      \* max_total_tokens

BatchCandidate ==
    [model : STRING, backend : STRING, stream : BOOLEAN, image : BOOLEAN, sampling : STRING, tokens : Nat]

ASSUME BatchingAssumption ==
    /\ MaxGroupSize \in Nat \ {0} /\ MaxTotalTokens \in Nat
    /\ \A l \in CandidateLists : l \in Seq(BatchCandidate)

VARIABLES
    input,      \* the candidates
    remaining,  \* positions still without a group, in order
    compatible, \* the members of the group being made
    toRemove,   \* places in remaining that hold such members, still to be popped
    groups      \* the groups made: [members, eligible]

batVars == <<input, remaining, compatible, toRemove, groups>>

BatTypeOK ==
    /\ input \in CandidateLists /\ Range(remaining) \cup compatible \subseteq DOMAIN input
    /\ toRemove \subseteq DOMAIN remaining /\ Len(groups) <= Len(input)

BatInit ==
    /\ input \in CandidateLists /\ remaining = [i \in DOMAIN input |-> i]
    /\ compatible = {} /\ toRemove = {} /\ groups = << >>

\* _check_compatibility has no reason against the pair.
CheckCompatibility(a, b) ==
    /\ a.model = b.model /\ a.backend = b.backend
    /\ ~a.stream /\ ~b.stream /\ ~a.image /\ ~b.image
    /\ a.sampling = b.sampling

\* Places in the rest of the queue that join the anchor, as far as there is room.
Matched(anchor, rest) ==
    LET fits == {i \in DOMAIN rest : CheckCompatibility(input[anchor], input[rest[i]])}
    IN  {i \in fits : Cardinality({j \in fits : j < i}) < MaxGroupSize - 1}

\* The head of the queue takes the candidates that may run with it.
TakeAnchor ==
    /\ remaining # << >> /\ compatible = {}
    /\ LET anchor == Head(remaining)
           rest == Tail(remaining)
       IN  /\ remaining' = rest
           /\ toRemove' = Matched(anchor, rest)
           /\ compatible' = {anchor} \cup {rest[i] : i \in Matched(anchor, rest)}
    /\ UNCHANGED <<input, groups>>

\* Faulty variant: front to back, each removal shifting the places behind it.
PlaceToPopForward(places) == CHOOSE i \in places : \A j \in places : i <= j

\* The matched candidates are removed in reverse order, to preserve indices.
PlaceToPop(places) == CHOOSE i \in places : \A j \in places : j <= i

PopMatched ==
    /\ toRemove # {}
    /\ remaining' = RemoveAt(remaining, PlaceToPop(toRemove))
    /\ toRemove' = toRemove \ {PlaceToPop(toRemove)}
    /\ UNCHANGED <<input, compatible, groups>>

TotalTokens(members) == MapThenSumSet(LAMBDA i : input[i].tokens, members)

BuildGroup ==
    /\ compatible # {} /\ toRemove = {}
    /\ groups' = Append(groups, [members |-> compatible,
                                 eligible |-> /\ Cardinality(compatible) > 1
                                              /\ TotalTokens(compatible) <= MaxTotalTokens])
    /\ compatible' = {}
    /\ UNCHANGED <<input, remaining, toRemove>>

BatNext == TakeAnchor \/ PopMatched \/ BuildGroup

BatSpec == BatInit /\ [][BatNext]_batVars

------------------------------------------------------------------------------
\* Candidates that wait for a group: those in places that are not to be popped.
Waiting == {remaining[k] : k \in DOMAIN remaining \ toRemove}

Grouped == UNION {groups[g].members : g \in DOMAIN groups}

\* Every candidate is in exactly one group, in the one being made or still waiting
\* for one, the queue keeps its order, no group is over the size, and any two members
\* of a group, not only each with the anchor, may run together (analyze).
GroupsPartitionTheQueue ==
    /\ Grouped \cup compatible \cup Waiting = DOMAIN input
    /\ Grouped \cap compatible = {} /\ (Grouped \cup compatible) \cap Waiting = {}
    /\ \A g, h \in DOMAIN groups : g # h => groups[g].members \cap groups[h].members = {}
    /\ \A j, k \in DOMAIN remaining : j < k => remaining[j] < remaining[k]
    /\ \A g \in DOMAIN groups :
          /\ Cardinality(groups[g].members) <= MaxGroupSize
          /\ \A i, j \in groups[g].members : i # j => CheckCompatibility(input[i], input[j])
================================================================================
