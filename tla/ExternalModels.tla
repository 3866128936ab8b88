----------------------------- MODULE ExternalModels -----------------------------
(***************************************************************************)
(* Models outside the store (whooshd/models): the roots operators configure *)
(* as routes, what is listed from them, and how a listed public id is       *)
(* turned back into a file.  Everything here reads the disk as it is.       *)
(*                                                                          *)
(* A public id is [repo, suffix]; suffix is None for a repository that is   *)
(* served as a whole.  A file name is known by the quantization             *)
(* _extract_quant finds in it and by the suffixes it contains.              *)
(***************************************************************************)
EXTENDS Integers, Sequences, FiniteSets, SequencesExt, Functions

CONSTANTS
    Routes,         \* the configured routes, in the order of their ids: [root, enabled, priority]
    Repos,          \* publisher/repo names, in the order they are scanned
    GgufNamed,      \* repositories whose name contains GGUF
    Files,          \* names of .gguf files, in sorted order
    Hidden,         \* the ones of them that start with a dot
    Quant,          \* per file, the quantization in its name, or its stem
    Spells,         \* per file, the suffixes that occur in its name
    Shelves,        \* what the roots may hold at start
    MaxMoves        \* bound: changes to the disk

None == "none"
Formats == <<"gguf", "mlx", "safetensors">>
Roots == {Routes[i].root : i \in DOMAIN Routes}

ASSUME ExternalModelsAssumption ==
    /\ Routes \in Seq([root : STRING, enabled : BOOLEAN, priority : Int])
    /\ Repos \in Seq(STRING) /\ Files \in Seq(STRING)
    /\ \A n \in DOMAIN Files : Quant[Files[n]] # None

VARIABLES
    shelf,      \* root -> (format, repository) -> files there, for directories that exist
    mounted,    \* roots that are directories now
    moves

diskVars == <<shelf, mounted, moves>>

------------------------------------------------------------------------------
(* Routes.                                                                  *)

RouteAvailable(r) == r.enabled /\ r.root \in mounted

\* get_available_route_paths: the available routes, by priority, then by id.
AvailableRoutes == {i \in DOMAIN Routes : RouteAvailable(Routes[i])}

Before(i, j) ==
    \/ Routes[i].priority < Routes[j].priority
    \/ Routes[i].priority = Routes[j].priority /\ i < j

------------------------------------------------------------------------------
(* The inventory.                                                           *)

HasDir(root, format, repo) == <<format, repo>> \in DOMAIN shelf[root]
Held(root, format, repo) == shelf[root][<<format, repo>>]

PublicId(repo, suffix) == [repo |-> repo, suffix |-> suffix]

Entry(id, format, root, file) ==
    [id |-> id, format |-> format, root |-> root, file |-> file,
     runtime |-> CASE format = "gguf" -> "llama_cpp" [] format = "mlx" -> "mlx_lm"
                   [] format = "safetensors" -> "unsupported"]

\* The positions in Files of the .gguf files of a directory.
GgufFiles(root, repo) == {n \in DOMAIN Files : Files[n] \in Held(root, "gguf", repo)}

\* Where the scan of a repository may find an entry: at its n-th .gguf file, unless
\* that is hidden, or, for a repository that is served as a whole, at n = 0.
ScanRepo(root, format, repo) ==
    IF ~HasDir(root, format, repo) THEN {}
    ELSE CASE format = "gguf" -> {n \in GgufFiles(root, repo) : Files[n] \notin Hidden}
           [] format = "mlx" -> {n \in {0} : "config.json" \in Held(root, "mlx", repo)}
           [] format = "safetensors" -> {n \in {0} : Held(root, "safetensors", repo) # {}}

\* The scan visits routes, formats, repositories and files in this order.
Places ==
    {p \in AvailableRoutes \X (DOMAIN Formats) \X (DOMAIN Repos) \X (0..Len(Files)) :
        p[4] \in ScanRepo(Routes[p[1]].root, Formats[p[2]], Repos[p[3]])}

Precedes(p, q) ==
    \/ Before(p[1], q[1])
    \/ p[1] = q[1] /\ \/ p[2] < q[2]
                      \/ p[2] = q[2] /\ \/ p[3] < q[3]
                                        \/ p[3] = q[3] /\ p[4] < q[4]

EntryAt(p) ==
    LET root == Routes[p[1]].root
        repo == Repos[p[3]]
    IN  IF Formats[p[2]] = "gguf"
        THEN Entry(PublicId(repo, Quant[Files[p[4]]]), "gguf", root, Files[p[4]])
        ELSE Entry(PublicId(repo, None), Formats[p[2]], root, None)

\* The first entry of an id is listed, later ones are skipped.
ListExternalModelInventory ==
    LET places == Places
        firsts == {p \in places : ~\E q \in places : Precedes(q, p) /\ EntryAt(q).id = EntryAt(p).id}
    IN  {EntryAt(p) : p \in firsts}

------------------------------------------------------------------------------
(* Resolution of a public id.                                               *)

\* Only a repository named GGUF gives its suffix as a quantization.
ParseExternalModelPublicId(id) ==
    IF id.suffix # None /\ id.repo \in GgufNamed THEN id.suffix ELSE None

Missing == [status |-> "missing", root |-> None, file |-> None]

\* The first file whose name contains the quantization, or the first of all; a hidden
\* file is as good as any.
ValidateGguf(root, repo, quant) ==
    LET files == GgufFiles(root, repo)
        matched == {n \in files : quant = None \/ quant \in Spells[Files[n]]}
        first == CHOOSE n \in matched : \A m \in matched : n <= m
    IN  CASE files = {} -> [Missing EXCEPT !.status = "invalid_layout"]
          [] files # {} /\ matched = {} -> Missing
          [] matched # {} -> [status |-> "found", root |-> root, file |-> Files[first]]

ValidateMlx(root, repo) ==
    IF "config.json" \in Held(root, "mlx", repo) THEN [status |-> "found", root |-> root, file |-> None]
    ELSE [Missing EXCEPT !.status = "invalid_layout"]

ValidateDirectory(root, format, repo, quant) ==
    IF format = "gguf" THEN ValidateGguf(root, repo, quant) ELSE ValidateMlx(root, repo)

RoutesHaving(format, repo) == {i \in AvailableRoutes : HasDir(Routes[i].root, format, repo)}

\* Faulty variant: the last root that has the directory answers.
ResolveModelLast(format, repo, quant) ==
    LET having == RoutesHaving(format, repo)
        last == CHOOSE i \in having : \A j \in having : ~Before(i, j)
    IN  IF having = {} THEN Missing ELSE ValidateDirectory(Routes[last].root, format, repo, quant)

\* The first root that has the directory answers, whatever it finds in it.
ResolveModel(format, repo, quant) ==
    LET having == RoutesHaving(format, repo)
        first == CHOOSE i \in having : \A j \in having : ~Before(j, i)
    IN  IF having = {} THEN Missing ELSE ValidateDirectory(Routes[first].root, format, repo, quant)

\* resolve_external_runtime_model for the entry an id matched.
ResolveExternalRuntimeModel(e) ==
    IF e.runtime = "unsupported" THEN [Missing EXCEPT !.status = "not_servable"]
    ELSE ResolveModel(e.format, e.id.repo, ParseExternalModelPublicId(e.id))

------------------------------------------------------------------------------
(* The operator's disk.                                                     *)

DirsOf(root) == {<<Formats[f], Repos[r]>> : f \in DOMAIN Formats, r \in DOMAIN Repos}
FilesOf(format) == IF format = "gguf" THEN Range(Files)
                   ELSE IF format = "mlx" THEN {"config.json"} ELSE {"weights.safetensors"}

DiskInit ==
    /\ shelf \in Shelves /\ mounted = Roots /\ moves = 0

MountOrUnmount(root) ==
    /\ moves < MaxMoves /\ moves' = moves + 1
    /\ mounted' = IF root \in mounted THEN mounted \ {root} ELSE mounted \cup {root}
    /\ UNCHANGED shelf

\* A directory appears, gains or loses files; the rest of the root stays.
Rearrange(root, dir, files) ==
    /\ moves < MaxMoves /\ moves' = moves + 1
    /\ shelf' = [shelf EXCEPT ![root] =
                    [d \in DOMAIN shelf[root] \cup {dir} |-> IF d = dir THEN files ELSE shelf[root][d]]]
    /\ UNCHANGED mounted

DiskNext ==
    \/ \E root \in Roots : MountOrUnmount(root)
    \/ \E root \in Roots : \E dir \in DirsOf(root) : \E files \in SUBSET FilesOf(dir[1]) :
          Rearrange(root, dir, files)
================================================================================
