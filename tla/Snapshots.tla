------------------------------- MODULE Snapshots -------------------------------
(***************************************************************************)
(* Snapshot planning: prefix proofs between tokenized prompts, candidate     *)
(* selection, the snapshot policy, and the pipeline that turns an eligible   *)
(* candidate into a manifest, an artifact, a declared material and a        *)
(* validation, with the in-memory artifact registry and the SQLite storage. *)
(*                                                                         *)
(* The analysis loop runs the pipeline to the artifact for every candidate; *)
(* the lifecycle harness runs all of it for one.  Storage is best effort:   *)
(* a write that fails is counted and the pipeline goes on.  A run is one    *)
(* synchronous call: only a crash comes between its stages.  Identifiers    *)
(* are hashes of what they identify and are modelled by it.                *)
(***************************************************************************)
EXTENDS Naturals, Sequences, FiniteSets

CONSTANTS
    Tokenized,      \* tokenized prompts: [model, real, tokens]
    MinPrefix,      \* SnapshotCandidateSelector.min_prefix_tokens
    MinSeen,        \* SnapshotPolicyConfig.minimum_seen_count
    MinWorth,       \* shortest prefix whose score and saved ratio pass the policy
    MaxSeen,        \* bound: sightings of a candidate
    MaxWrites,      \* bound: upserts of a row
    MaxFailures,    \* bound: failed writes
    MaxRestarts     \* bound: crashes of the process

ASSUME SnapshotsAssumption ==
    /\ \A t \in Tokenized : t.real \in BOOLEAN
    /\ {MinPrefix, MinSeen, MinWorth, MaxSeen, MaxWrites, MaxFailures, MaxRestarts} \subseteq Nat
    /\ MinPrefix > 0

(***************************************************************************)
(* Proofs and candidates                                                   *)
(***************************************************************************)
\* StablePrefixProofEngine.shared_prefix_length
SharedPrefix(a, b) ==
    CHOOSE n \in 0..Len(a) :
        /\ n <= Len(b)
        /\ \A i \in 1..n : a[i] = b[i]
        /\ (n < Len(a) /\ n < Len(b)) => a[n + 1] # b[n + 1]

\* StablePrefixProofEngine.compare
Compatible(a, b) ==
    /\ a.real /\ b.real
    /\ a.model = b.model
    /\ SharedPrefix(a.tokens, b.tokens) > 0

\* SnapshotCandidateSelector.evaluate
Selected(a, b) == Compatible(a, b) /\ SharedPrefix(a.tokens, b.tokens) >= MinPrefix

\* SnapshotCandidate: hash_prefix of the shared tokens, and where they were seen.
Candidate(a, b) ==
    [prefix |-> SubSeq(a.tokens, 1, SharedPrefix(a.tokens, b.tokens)), model |-> a.model]

Candidates ==
    {Candidate(p[1], p[2]) : p \in {q \in Tokenized \X Tokenized : Selected(q[1], q[2])}}

VARIABLES
    seen,       \* candidate_seen_count of the index entries
    aged,       \* candidates last seen longer ago than maximum_candidate_age_days
    todo,       \* candidates the current run has still to evaluate
    stage,      \* the next stage of the candidate in hand
    hand,       \* the candidate in hand
    full,       \* whether the run is the harness's
    registry,   \* SnapshotArtifactRegistry._artifacts: build_attempts
    db,         \* what is committed
    view,       \* what the connection sees: committed and not yet committed
    conn,       \* whether the database could be opened
    issued,     \* ghost: artifact upserts issued, per artifact
    failed,     \* ghost: failed writes over all lives of the process
    restarts    \* ghost: crashes so far

snapVars == <<seen, aged, todo, stage, hand, full, registry, db, view, conn, issued, failed, restarts>>
pipeline == <<todo, stage, hand, full>>

Nowhere == [prefix |-> << >>, model |-> "none"]
NoRows == [candidates |-> << >>, manifests |-> {}, artifacts |-> << >>, materials |-> {}, validations |-> 0]

SnapTypeOK ==
    /\ DOMAIN seen \subseteq Candidates /\ \A c \in DOMAIN seen : seen[c] \in 1..MaxSeen
    /\ aged \subseteq DOMAIN seen
    /\ todo \subseteq Candidates
    /\ stage \in {"evaluate", "manifest", "register", "artifact", "material", "validation"}
    /\ hand \in Candidates \cup {Nowhere}
    /\ full \in BOOLEAN
    /\ DOMAIN registry \subseteq Candidates /\ \A c \in DOMAIN registry : registry[c] \in Nat
    /\ \A rows \in {db, view} :
         /\ DOMAIN rows.candidates \subseteq {c.prefix : c \in Candidates}
         /\ rows.manifests \cup rows.materials \cup DOMAIN rows.artifacts \subseteq Candidates
         /\ rows.validations \in Nat
    /\ conn \in BOOLEAN
    /\ DOMAIN issued = Candidates
    /\ failed \in 0..MaxFailures /\ restarts \in 0..MaxRestarts

SnapInit ==
    /\ seen = << >> /\ aged = {} /\ todo = {} /\ stage = "evaluate" /\ hand = Nowhere /\ full = FALSE
    /\ registry = << >>
    /\ db = NoRows /\ view = NoRows
    /\ conn \in BOOLEAN
    /\ issued = [c \in Candidates |-> 0]
    /\ failed = 0 /\ restarts = 0

\* Adds one to the count of a key, which starts at first.
Bump(f, k, first) ==
    [x \in DOMAIN f \cup {k} |-> IF x # k THEN f[x] ELSE IF k \in DOMAIN f THEN f[k] + 1 ELSE first]

(***************************************************************************)
(* The index: sightings of candidates                                      *)
(***************************************************************************)
\* No run is in progress.
Idle == todo = {} /\ stage = "evaluate"

\* mark_candidate_selected
SelectCandidate(a, b) ==
    /\ Idle /\ Selected(a, b)
    /\ LET c == Candidate(a, b) IN
       /\ c \in DOMAIN seen => seen[c] < MaxSeen
       /\ seen' = Bump(seen, c, 1)
       /\ aged' = aged \ {c}
    /\ UNCHANGED <<pipeline, registry, db, view, conn, issued, failed, restarts>>

\* Faulty variant: what is not in the index is taken to be expired.
AgeAll ==
    /\ Idle /\ aged # Candidates
    /\ aged' = Candidates
    /\ UNCHANGED <<seen, pipeline, registry, db, view, conn, issued, failed, restarts>>

\* Thirty days pass.
Age ==
    /\ Idle /\ aged # DOMAIN seen
    /\ aged' = DOMAIN seen
    /\ UNCHANGED <<seen, pipeline, registry, db, view, conn, issued, failed, restarts>>

(***************************************************************************)
(* Storage writes.  An exception in execute leaves no trace; one in commit  *)
(* leaves the row in the open transaction, for the next commit to take      *)
(* along, or makes SQLite roll the transaction back.                       *)
(***************************************************************************)
Write(rows) ==
    \/ ~conn /\ UNCHANGED <<db, view, failed>>
    \/ conn /\ db' = rows /\ view' = rows /\ UNCHANGED failed
    \/ /\ conn /\ failed < MaxFailures
       /\ failed' = failed + 1
       /\ view' \in {view, rows, db}
       /\ UNCHANGED db

\* Faulty variant: a conflict takes the column's default of 0.
UpsertCandidateReplaces(c) ==
    Write([view EXCEPT !.candidates =
             [p \in DOMAIN @ \cup {c.prefix} |->
                IF p = c.prefix THEN [model |-> c.model, seen |-> IF p \in DOMAIN @ THEN 0 ELSE 1] ELSE @[p]]])

\* upsert_candidate: the key is the prefix alone; a conflict keeps the model.
UpsertCandidate(c) ==
    LET row == IF c.prefix \in DOMAIN view.candidates
               THEN [view.candidates[c.prefix] EXCEPT !.seen = @ + 1]
               ELSE [model |-> c.model, seen |-> 1]
    IN Write([view EXCEPT !.candidates =
                [p \in DOMAIN @ \cup {c.prefix} |-> IF p = c.prefix THEN row ELSE @[p]]])

\* Faulty variant: INSERT OR REPLACE starts the attempts again.
UpsertArtifactReplaces(c) ==
    Write([view EXCEPT !.artifacts = [x \in DOMAIN @ \cup {c} |-> IF x = c THEN 0 ELSE @[x]]])

\* upsert_snapshot_artifact: a conflict counts a build attempt.
UpsertArtifact(c) == Write([view EXCEPT !.artifacts = Bump(@, c, 0)])

UpsertManifest(c) == Write([view EXCEPT !.manifests = @ \cup {c}])
UpsertMaterial(c) == Write([view EXCEPT !.materials = @ \cup {c}])
RecordValidation == Write([view EXCEPT !.validations = @ + 1])

(***************************************************************************)
(* The pipeline                                                            *)
(***************************************************************************)
\* SnapshotPolicyEngine.evaluate_candidate
SnapEligible(c) ==
    /\ seen[c] >= MinSeen
    /\ Len(c.prefix) >= MinWorth
    /\ c \notin aged

\* rank_candidates: sightings weigh more than all else together.
Top(cs) == {c \in cs : \A d \in cs : seen[d] <= seen[c]}

StartLoop ==
    /\ Idle /\ seen # << >>
    /\ todo' = DOMAIN seen /\ full' = FALSE
    /\ UNCHANGED <<seen, aged, stage, hand, registry, db, view, conn, issued, failed, restarts>>

StartHarness(c) ==
    /\ Idle
    /\ c.prefix \in DOMAIN view.candidates => view.candidates[c.prefix].seen < MaxWrites
    /\ todo' = {c} /\ full' = TRUE
    /\ UNCHANGED <<seen, aged, stage, hand, registry, db, view, conn, issued, failed, restarts>>

\* The harness stores the candidate whether or not it is eligible.
Evaluate(c) ==
    /\ stage = "evaluate" /\ c \in Top(todo)
    /\ IF full THEN UpsertCandidate(c) ELSE UNCHANGED <<db, view, failed>>
    /\ todo' = todo \ {c}
    /\ stage' = IF SnapEligible(c) THEN "manifest" ELSE "evaluate"
    /\ hand' = IF SnapEligible(c) THEN c ELSE Nowhere
    /\ UNCHANGED <<seen, aged, full, registry, conn, issued, restarts>>

Goto(s) == stage' = s /\ hand' = (IF s = "evaluate" THEN Nowhere ELSE hand)

BuildManifest ==
    /\ stage = "manifest" /\ UpsertManifest(hand) /\ Goto("register")
    /\ UNCHANGED <<seen, aged, todo, full, registry, conn, issued, restarts>>

\* register_artifact
Registered == Bump(registry, hand, 0)

RegisterArtifact ==
    /\ stage = "register" /\ (hand \in DOMAIN registry => registry[hand] < MaxWrites)
    /\ registry' = Registered /\ Goto("artifact")
    /\ UNCHANGED <<seen, aged, todo, full, db, view, conn, issued, failed, restarts>>

StoreArtifact ==
    /\ stage = "artifact" /\ issued[hand] < MaxWrites
    /\ UpsertArtifact(hand)
    /\ issued' = IF conn THEN [issued EXCEPT ![hand] = @ + 1] ELSE issued
    /\ Goto(IF full THEN "material" ELSE "evaluate")
    /\ UNCHANGED <<seen, aged, todo, full, registry, conn, restarts>>

DeclareMaterial ==
    /\ stage = "material" /\ UpsertMaterial(hand) /\ Goto("validation")
    /\ UNCHANGED <<seen, aged, todo, full, registry, conn, issued, restarts>>

\* SnapshotMaterialValidator.validate accepts a declared material; the event is stored.
Validate ==
    /\ stage = "validation" /\ view.validations < MaxWrites
    /\ RecordValidation /\ Goto("evaluate")
    /\ UNCHANGED <<seen, aged, todo, full, registry, conn, issued, restarts>>

\* The process dies: only what is committed survives.  The database may fail
\* to open on the way up.
Restart ==
    /\ restarts < MaxRestarts
    /\ restarts' = restarts + 1
    /\ seen' = << >> /\ aged' = {} /\ todo' = {} /\ stage' = "evaluate" /\ hand' = Nowhere
    /\ full' = FALSE /\ registry' = << >>
    /\ view' = db
    /\ conn' \in BOOLEAN
    /\ UNCHANGED <<db, issued, failed>>

SnapNext ==
    \/ \E a, b \in Tokenized : SelectCandidate(a, b)
    \/ Age \/ StartLoop
    \/ \E c \in DOMAIN seen : StartHarness(c) \/ Evaluate(c)
    \/ BuildManifest \/ RegisterArtifact \/ StoreArtifact \/ DeclareMaterial \/ Validate
    \/ Restart

SnapSpec == SnapInit /\ [][SnapNext]_snapVars

(***************************************************************************)
(* Properties                                                              *)
(***************************************************************************)
Attempts(rows, c) == IF c \in DOMAIN rows.artifacts THEN rows.artifacts[c] + 1 ELSE 0

\* The upserts of artifacts issued beyond the attempts that are stored.
Lost == {u \in Candidates \X (1..MaxWrites) : Attempts(db, u[1]) < u[2] /\ u[2] <= issued[u[1]]}

\* Whatever fails and whenever the process dies, the stored attempts are never
\* more than the upserts issued, and every upsert that is not durable was
\* reported as a persistence error (storage.py, upsert_snapshot_artifact).
NothingLostSilently ==
    /\ \A c \in Candidates : Attempts(view, c) <= issued[c]
    /\ Cardinality(Lost) <= failed

\* While the database is open, no write fails and the process lives, the registry's
\* build attempts and the stored ones are the same number (artifacts.py, storage.py).
RegistryMatchesStore ==
    conn /\ failed = 0 /\ restarts = 0 =>
        \A c \in DOMAIN registry :
            Attempts(db, c) = registry[c] + (IF stage = "artifact" /\ hand = c THEN 0 ELSE 1)

\* Every attempt to build a snapshot is accounted for, in memory, in the store or
\* among the reported errors.
AttemptsAccountedFor == NothingLostSilently /\ RegistryMatchesStore

\* No step, failure or restart takes a stored row away or lowers a stored count.
StoredOnlyGrows ==
    [][/\ db.manifests \subseteq db'.manifests /\ db.materials \subseteq db'.materials
       /\ db.validations <= db'.validations
       /\ \A c \in Candidates : Attempts(db, c) <= Attempts(db', c)
       /\ \A p \in DOMAIN db.candidates :
            p \in DOMAIN db'.candidates /\ db.candidates[p].seen <= db'.candidates[p].seen]_snapVars
================================================================================
