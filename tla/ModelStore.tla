------------------------------- MODULE ModelStore -------------------------------
(***************************************************************************)
(* The managed model store (whooshd/model_registry): a store is             *)
(* bootstrapped, artifacts are inspected into candidate records, a          *)
(* candidate is registered by copying its source into the store and         *)
(* appending to the manifest, and registered models that pass the           *)
(* compatibility check are advertised.  One process works on the store at a *)
(* time; it may crash between any two steps, and the operator may change    *)
(* sources at any time.  Copies in the store are left alone.                *)
(*                                                                          *)
(* A source is [kind, files, hints, readable, words]: a directory, a .gguf  *)
(* file or another file; which of the files that matter it has; what in it  *)
(* points at vision; whether config.json parses; and the sets of family     *)
(* names that its model_type and then each of its architectures contain.    *)
(***************************************************************************)
EXTENDS Naturals, Sequences, FiniteSets, SequencesExt

CONSTANTS
    Paths,          \* where artifacts lie
    Sources,        \* what a path may hold
    NameWords,      \* per path, the family names its file name contains
    Stem,           \* per path, the model id derived from its file name
    Ids,            \* model ids an operator may ask for or derive
    SafeIds,        \* those _SAFE_MODEL_ID_RE accepts
    Cut,            \* per id, the directory name _safe_filename leaves of it
    MaxEdits,       \* bound: changes the operator makes
    MaxCrashes,     \* bound: crashes
    MaxModels       \* bound: entries of the manifest

Absent == [kind |-> "absent"]
NoId == "none"

ASSUME StoreAssumption ==
    /\ Stem \in [Paths -> Ids] /\ SafeIds \subseteq Ids /\ NoId \notin Ids
    /\ DOMAIN Cut = Ids /\ DOMAIN NameWords = Paths
    /\ \A s \in Sources : s.kind = "dir" => s.files \subseteq {"config", "tokenizer", "weights"}

VARIABLES
    source,     \* per path, what lies there now
    dirs,       \* whether the registry directory exists
    manifest,   \* registry/models.json: [state, models]
    records,    \* registry/candidates: candidate id -> candidate
    managed,    \* models/: destination -> copy
    job,        \* the registration in progress
    answer,     \* the last success an operator was told of
    edits, crashes

storeVars == <<source, dirs, manifest, records, managed, job, answer, edits, crashes>>

------------------------------------------------------------------------------
(* Inspection of a candidate.                                               *)

Families == <<"gemma", "qwen", "llama">>
VisionHints == <<"vlm_type", "vision_config", "vlm_arch", "artifact">>

\* The first in order of the members of a set, when it has any in common with it.
FirstOf(order, set) == order[Min({i \in DOMAIN order : order[i] \in set})]

FamilyIn(words) == IF Range(Families) \cap words = {} THEN "unknown" ELSE FirstOf(Families, words)

DetectFamily(p) == FamilyIn(NameWords[p])

\* The model_type decides before the architectures, and those in their order.
DetectFamilyFromConfig(s) ==
    LET named == {i \in DOMAIN s.words : FamilyIn(s.words[i]) # "unknown"}
    IN  IF ~s.readable \/ named = {} THEN "unknown" ELSE FamilyIn(s.words[Min(named)])

\* An unreadable config is an empty one; artifacts of the directory still count.
HintsSeen(s) == IF s.readable THEN s.hints ELSE s.hints \cap {"artifact"}

\* The first hint decides, and is the only one recorded as evidence.
DetectModalities(s) ==
    IF Range(VisionHints) \cap HintsSeen(s) = {}
    THEN [modalities |-> {"text"}, evidence |-> {}]
    ELSE [modalities |-> {"text", "vision"}, evidence |-> {FirstOf(VisionHints, HintsSeen(s))}]

HasExplicitVisionEvidence(evidence) == evidence \cap Range(VisionHints) # {}

NormalizeModalities(modalities, evidence) ==
    IF HasExplicitVisionEvidence(evidence) THEN modalities ELSE modalities \ {"vision"}

MakeCandidateId(p, evidence) == <<p, evidence>>

Candidate0(p, status, format, family, modalities, evidence) ==
    [key |-> MakeCandidateId(p, evidence), path |-> p, status |-> status, format |-> format,
     family |-> family, modalities |-> modalities, evidence |-> evidence]

InspectDirectory(p, s) ==
    LET config == "config" \in s.files
        seen == IF config THEN DetectModalities(s) ELSE [modalities |-> {"text"}, evidence |-> {}]
        family == IF config THEN DetectFamilyFromConfig(s) ELSE DetectFamily(p)
        evidence == s.files \cup seen.evidence
                    \cup IF config /\ family # "unknown" THEN {family} ELSE {}
        enough == "weights" \in s.files /\ s.files \cap {"config", "tokenizer"} # {}
    IN  IF s.files = {} THEN Candidate0(p, "unsupported", "unknown", "unknown", {}, {})
        ELSE Candidate0(p, IF enough THEN "candidate" ELSE "unsupported",
                        IF enough THEN "mlx" ELSE "unknown", family,
                        NormalizeModalities(seen.modalities, evidence), evidence)

InspectModelCandidate(p) ==
    LET s == source[p]
    IN  CASE s.kind = "absent" -> Candidate0(p, "invalid", "unknown", "unknown", {}, {})
          [] s.kind = "gguf"   -> Candidate0(p, "candidate", "gguf", DetectFamily(p), {"text"}, {"gguf"})
          [] s.kind = "dir"    -> InspectDirectory(p, s)
          [] OTHER             -> Candidate0(p, "unsupported", "unknown", "unknown", {}, {})

------------------------------------------------------------------------------
(* Compatibility and advertisement: read only.                              *)

Entries == Range(manifest.models)
\* _find_existing: the first entry of an id, when it has one.
Known(models, id) == \E i \in DOMAIN models : models[i].id = id
FindExisting(models, id) == models[Min({i \in DOMAIN models : models[i].id = id})]
Usable == dirs /\ manifest.state = "ok"

AdapterKind(e) ==
    CASE e.format = "gguf" -> "llama_cpp"
      [] e.format = "mlx" /\ "vision" \in e.modalities -> "mlx_vlm"
      [] e.format = "mlx" /\ "vision" \notin e.modalities -> "mlx_lm_server"

CheckManagedFiles(copy, format) ==
    \/ format = "gguf" /\ copy.kind = "gguf"
    \/ /\ format = "mlx" /\ copy.kind = "dir" /\ "config" \in copy.files
       /\ copy.files \cap {"tokenizer", "weights"} # {}

\* validate_registered_model_compatibility(...).advertisable
Advertisable(id) ==
    /\ Usable /\ Known(manifest.models, id)
    /\ LET e == FindExisting(manifest.models, id)
       IN  /\ e.dest \in DOMAIN managed
           /\ CheckManagedFiles(managed[e.dest], e.format)

Advertised == {id \in Ids : Advertisable(id)}

------------------------------------------------------------------------------
Idle0 == [pc |-> "idle"]
NoAnswer == [told |-> FALSE]

StoreTypeOK ==
    /\ source \in [Paths -> Sources \cup {Absent}] /\ dirs \in BOOLEAN
    /\ manifest.state \in {"absent", "unreadable", "schema", "ok"}
    /\ \A k \in DOMAIN records : records[k].key = k /\ records[k].path \in Paths
    /\ \A e \in Entries : e.id \in SafeIds /\ e.format \in {"mlx", "gguf"}
    /\ \A d \in DOMAIN managed : d[1] \in {"mlx", "vlm", "gguf"} /\ managed[d].whole \in BOOLEAN
    /\ job.pc \in {"idle", "bootstrap", "copying", "append"}
    /\ edits \in 0..MaxEdits /\ crashes \in 0..MaxCrashes

\* An existing manifest may be one this version cannot use.
StoreInit ==
    /\ source \in [Paths -> Sources] /\ dirs \in BOOLEAN
    /\ manifest \in [state : {"absent", "unreadable", "schema"}, models : {<< >>}]
    /\ (manifest.state # "absent") => dirs
    /\ records = << >> /\ managed = << >> /\ job = Idle0 /\ answer = NoAnswer
    /\ edits = 0 /\ crashes = 0

BootstrapDirs ==
    /\ job.pc = "idle" /\ dirs' = TRUE /\ job' = [pc |-> "bootstrap"]
    /\ UNCHANGED <<source, manifest, records, managed, answer, edits, crashes>>

\* Faulty variant: every start writes an empty manifest.
BootstrapManifestAnew == manifest' = [state |-> "ok", models |-> << >>]

\* The manifest is created, or read and rewritten as it was; one that cannot be
\* read or has another schema is left alone.
BootstrapManifest ==
    IF manifest.state = "absent" THEN manifest' = [state |-> "ok", models |-> << >>]
    ELSE UNCHANGED manifest

BootstrapEnds ==
    /\ job.pc = "bootstrap" /\ BootstrapManifest /\ job' = Idle0
    /\ UNCHANGED <<source, dirs, records, managed, answer, edits, crashes>>

\* inspect_model_candidate, then write_candidate_record, which needs the registry.
Inspect(p) ==
    /\ job.pc = "idle" /\ dirs
    /\ LET c == InspectModelCandidate(p)
       IN  records' = [k \in DOMAIN records \cup {c.key} |-> IF k = c.key THEN c ELSE records[k]]
    /\ UNCHANGED <<source, dirs, manifest, managed, job, answer, edits, crashes>>

ManagedDestination(c, id) ==
    CASE c.format = "gguf" -> <<"gguf", Cut[id], c.path>>
      [] c.format # "gguf" /\ "vision" \in c.modalities -> <<"vlm", Cut[id]>>
      [] c.format # "gguf" /\ "vision" \notin c.modalities -> <<"mlx", Cut[id]>>

ModelsMatch(e, c, id) == e.id = id /\ e.cand = c.key /\ e.format = c.format

ResolvedId(c, wanted) == IF wanted = NoId THEN Stem[c.path] ELSE wanted

DestinationTaken(d) == d \in DOMAIN managed

\* The first reason not to copy: "copy" when there is none.
Verdict(k, wanted) ==
    IF ~Usable THEN manifest.state
    ELSE IF k \notin DOMAIN records THEN "candidate_missing"
    ELSE LET c == records[k]
             id == ResolvedId(c, wanted)
         IN  CASE c.status # "candidate" -> "candidate_not_registrable"
               [] c.status = "candidate" /\ id \notin SafeIds -> "unsafe_model_id"
               [] OTHER ->
                  IF Known(manifest.models, id)
                  THEN IF ModelsMatch(FindExisting(manifest.models, id), c, id) THEN "already" ELSE "duplicate_model_id"
                  ELSE IF source[c.path] = Absent THEN "candidate_missing"
                  ELSE IF DestinationTaken(ManagedDestination(c, id)) THEN "managed_destination_exists"
                  ELSE "copy"

Told(k, id) == [told |-> TRUE, key |-> k, id |-> id]

\* A registration made before is answered with the entry it left; every other
\* verdict is a problem code, and nothing changes.
RegisterAnswered(k, wanted) ==
    /\ job.pc = "idle" /\ Verdict(k, wanted) # "copy"
    /\ answer' = IF Verdict(k, wanted) = "already" THEN Told(k, ResolvedId(records[k], wanted)) ELSE answer
    /\ UNCHANGED <<source, dirs, manifest, records, managed, job, edits, crashes>>

Placed(d, copy) == [x \in DOMAIN managed \cup {d} |-> IF x = d THEN copy ELSE managed[x]]

PartCopy(s, some) == [whole |-> FALSE, kind |-> s.kind, files |-> some]

\* shutil.copytree or copy2 starts writing the destination.
RegisterCopies(k, wanted) ==
    /\ job.pc = "idle" /\ Verdict(k, wanted) = "copy" /\ Len(manifest.models) < MaxModels
    /\ LET c == records[k]
           id == ResolvedId(c, wanted)
       IN  /\ job' = [pc |-> "copying", cand |-> c, id |-> id, dest |-> ManagedDestination(c, id),
                      base |-> manifest.models, listed |-> source[c.path].files]
           /\ \E some \in SUBSET source[c.path].files :
                managed' = Placed(ManagedDestination(c, id), PartCopy(source[c.path], some))
    /\ UNCHANGED <<source, dirs, manifest, records, answer, edits, crashes>>

\* The directory is listed once, at the start.  What the operator adds meanwhile
\* is not copied; what is taken away before its turn makes the copy fail.
CopyEnds ==
    /\ job.pc = "copying" /\ source[job.cand.path] # Absent
    /\ job.listed \subseteq managed[job.dest].files \cup source[job.cand.path].files
    /\ managed' = Placed(job.dest, [whole |-> TRUE, kind |-> managed[job.dest].kind, files |-> job.listed])
    /\ job' = [job EXCEPT !.pc = "append"]
    /\ UNCHANGED <<source, dirs, manifest, records, answer, edits, crashes>>

\* Faulty variant: a copy that fails goes on to the manifest.
CopyFailsRegistering ==
    /\ job.pc = "copying" /\ job' = [job EXCEPT !.pc = "append"]
    /\ UNCHANGED <<source, dirs, manifest, records, managed, answer, edits, crashes>>

\* What was copied so far stays.
CopyFails ==
    /\ job.pc = "copying" /\ job' = Idle0
    /\ UNCHANGED <<source, dirs, manifest, records, managed, answer, edits, crashes>>

RegisteredModel(j) ==
    [id |-> j.id, dest |-> j.dest, cand |-> j.cand.key, format |-> j.cand.format, family |-> j.cand.family,
     modalities |-> j.cand.modalities, evidence |-> j.cand.evidence]

\* The manifest read at the start, with the new entry, replaces the file at once.
AppendManifest ==
    /\ job.pc = "append"
    /\ manifest' = [manifest EXCEPT !.models = Append(job.base, RegisteredModel(job))]
    /\ answer' = Told(job.cand.key, job.id) /\ job' = Idle0
    /\ UNCHANGED <<source, dirs, records, managed, edits, crashes>>

Crash ==
    /\ crashes < MaxCrashes /\ job.pc # "idle"
    /\ crashes' = crashes + 1 /\ job' = Idle0
    /\ UNCHANGED <<source, dirs, manifest, records, managed, answer, edits>>

OperatorChanges(p, s) ==
    /\ edits < MaxEdits /\ source[p] # s
    /\ source' = [source EXCEPT ![p] = s] /\ edits' = edits + 1
    /\ UNCHANGED <<dirs, manifest, records, managed, job, answer, crashes>>

StoreNext ==
    \/ BootstrapDirs
    \/ BootstrapEnds
    \/ \E p \in Paths : Inspect(p)
    \/ \E k \in DOMAIN records, w \in Ids \cup {NoId} : RegisterAnswered(k, w)
    \/ \E k \in DOMAIN records, w \in Ids \cup {NoId} : RegisterCopies(k, w)
    \/ CopyEnds
    \/ CopyFails
    \/ AppendManifest
    \/ Crash
    \/ \E p \in Paths, s \in Sources \cup {Absent} : OperatorChanges(p, s)

StoreSpec == StoreInit /\ [][StoreNext]_storeVars

------------------------------------------------------------------------------
\* No entry of the manifest names a missing copy or one that was cut short, whatever copy failed
\* or crashed before it, and no two entries share a copy, even when their ids are
\* cut to the same directory name (registration.py writes the manifest last).
CopiesAreWhole ==
    /\ \A e \in Entries : e.dest \in DOMAIN managed /\ managed[e.dest].whole
    /\ \A i, j \in DOMAIN manifest.models :
         i # j => /\ manifest.models[i].id # manifest.models[j].id
                  /\ manifest.models[i].dest # manifest.models[j].dest

\* A model that is advertised has the adapter its directory of the store stands
\* for, and counts as vision only on evidence of vision its inspection recorded.
AdvertisedAsInspected ==
    \A e \in Entries : e.id \in Advertised =>
        /\ AdapterKind(e) = CASE e.dest[1] = "vlm" -> "mlx_vlm"
                              [] e.dest[1] = "mlx" -> "mlx_lm_server"
                              [] e.dest[1] = "gguf" -> "llama_cpp"
        /\ ("vision" \in e.modalities) = (e.evidence \cap Range(VisionHints) # {})

\* A registration answered as done, or as done before, is in the manifest under
\* that id for that very candidate, and stays there through later crashes.
DoneIsRecorded ==
    answer.told => \E e \in Entries : e.id = answer.id /\ e.cand = answer.key

\* What the manifest says, what was answered and what is advertised are backed by
\* the files of the store.
StoreConsistent == CopiesAreWhole /\ AdvertisedAsInspected /\ DoneIsRecorded

\* No step drops or changes an entry of the manifest, and no bootstrap replaces a
\* manifest it cannot read.
RegistrationsSurvive ==
    [][manifest.state # "absent" => /\ manifest'.state = manifest.state
                                    /\ IsPrefix(manifest.models, manifest'.models)]_storeVars
================================================================================
