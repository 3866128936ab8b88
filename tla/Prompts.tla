-------------------------------- MODULE Prompts --------------------------------
(***************************************************************************)
(* How ThreadWake reads a prompt: segments and their stability, the         *)
(* client's segment metadata, the stable prefix, the two tokenizers, and   *)
(* the exact-prefix comparisons.  Pure operators.                          *)
(*                                                                         *)
(* A prompt is a record [tools, choice, msgs, meta]: whether the request    *)
(* carries tool schemas and a tool choice, its messages (role and text),   *)
(* and the sequence of metadata entries the client sent.  A hash is the    *)
(* value it is taken of, canonicalize_content applied first: SHA-256 is    *)
(* assumed not to collide.  Every segment counts as one token.             *)
(***************************************************************************)
EXTENDS Naturals, Sequences

CONSTANTS
    AllowGlobal,
    Canonical(_),   \* _normalize_text: texts that differ in line endings have one form
    NoValue

Message(role, text) == [role |-> role, text |-> text]

(***************************************************************************)
(* compile_prompt_graph                                                    *)
(***************************************************************************)
\* _latest_user_index, 0 when there is none.
LatestUser(msgs) ==
    LET us == {i \in 1..Len(msgs) : msgs[i].role = "user"}
    IN IF us = {} THEN 0 ELSE CHOOSE i \in us : \A j \in us : j <= i

\* _message_stability
MessageStability(msgs, i) ==
    LET role == msgs[i].role IN
    CASE role \in {"system", "developer"}             -> "stable"
      [] role = "user" /\ i = LatestUser(msgs)         -> "dynamic"
      [] role \in {"user", "assistant"} /\ i # LatestUser(msgs) -> "semi_stable"
      [] OTHER                                         -> "dynamic"

Segment(content, stability) == [content |-> content, stability |-> stability]

\* What tells a segment apart is the hash of its canonical content.
Hashed(msg) == Message(msg.role, Canonical(msg.text))

\* Tool schemas and the tool choice come before the messages.
ToolSegments(p) ==
    (IF p.tools THEN <<Segment(Message("tools", "schemas"), "stable")>> ELSE <<>>)
    \o (IF p.choice THEN <<Segment(Message("tools", "choice"), "stable")>> ELSE <<>>)

\* The segments inferred from the request.
Inferred(p) ==
    ToolSegments(p)
    \o [i \in 1..Len(p.msgs) |-> Segment(Hashed(p.msgs[i]), MessageStability(p.msgs, i))]

(***************************************************************************)
(* Segment metadata (validate_and_merge_segments): entry i is looked up by *)
(* the position of a segment and checked against the message it names.     *)
(***************************************************************************)
TypeDefault(type) ==
    CASE type \in {"system", "persona", "tools", "project"} -> "stable"
      [] type \in {"retrieval", "thread"}                   -> "semi_stable"
      [] OTHER                                              -> "dynamic"

\* The first entry for a position wins, later ones are reported as duplicates.
MetaAt(p, i) ==
    LET ms == {k \in 1..Len(p.meta) : p.meta[k].index = i}
    IN IF ms = {} THEN NoValue ELSE p.meta[CHOOSE k \in ms : \A l \in ms : k <= l]

\* _validate_single_meta
ValidMeta(p, m) ==
    /\ m.index \in 1..Len(p.msgs)
    /\ m.hash # NoValue => m.hash = Canonical(p.msgs[m.index].text)
    /\ m.scope = "global" => AllowGlobal

\* _apply_meta
AppliedStability(m) ==
    LET given == IF m.stability # NoValue THEN m.stability ELSE TypeDefault(m.type) IN
    IF m.cacheable = FALSE \/ m.type \in {"user", "tool_output"} THEN "dynamic"
    ELSE IF m.type = "retrieval" /\ given = "stable" /\ m.hash = NoValue THEN "semi_stable"
    ELSE given

Segments(p) ==
    LET segs == Inferred(p)
        At(i) == LET m == MetaAt(p, i) IN
                 IF m = NoValue THEN segs[i]
                 ELSE IF ValidMeta(p, m) THEN [segs[i] EXCEPT !.stability = AppliedStability(m)]
                 ELSE segs[i]
    IN [i \in 1..Len(segs) |-> At(i)]

(***************************************************************************)
(* The stable prefix: the leading segments that are not dynamic.           *)
(***************************************************************************)
StableLen(p) ==
    LET segs == Segments(p)
    IN CHOOSE n \in 0..Len(segs) :
         /\ \A i \in 1..n : segs[i].stability # "dynamic"
         /\ n < Len(segs) => segs[n + 1].stability = "dynamic"

\* Faulty variant: roles and stability are hashed, contents are not.
StablePrefixRoles(p) ==
    [i \in 1..StableLen(p) |-> Segment(Message(Segments(p)[i].content.role, ""), Segments(p)[i].stability)]

\* stable_prefix_hash; stability and content are both hashed.
StablePrefix(p) == SubSeq(Segments(p), 1, StableLen(p))

\* ordered_segment_hashes: contents only.
Contents(p) == [i \in 1..Len(Segments(p)) |-> Segments(p)[i].content]

\* build_threadwake_cache_key
CacheKey(p, scope) == [prefix |-> StablePrefix(p), scope |-> scope]

(***************************************************************************)
(* Exact-prefix comparisons                                                *)
(***************************************************************************)
\* validate_monotonic_append
MonotonicAppend(old, new) ==
    Len(new) >= Len(old) /\ SubSeq(new, 1, Len(old)) = old

(***************************************************************************)
(* The tokenizers.  "fake" makes its tokens of the segments' hashes.  "mlx" *)
(* renders the messages as they are through the chat template, which       *)
(* closes with the assistant's header, and accepts a split only when the   *)
(* rendered stable part leads the whole.                                   *)
(***************************************************************************)
\* render_mlx_chat_prompt: a header and a text per message, then a header.
Header(role) == Message(role, "")
Rendered(msgs) ==
    [i \in 1..(2 * Len(msgs) + 1) |->
        IF i = 2 * Len(msgs) + 1 THEN Header("assistant")
        ELSE IF i % 2 = 1 THEN Header(msgs[(i + 1) \div 2].role) ELSE Message("", msgs[i \div 2].text)]

\* MLXInProcessTokenizerAdapter: the messages at the positions of stable segments.
MlxStable(p) ==
    LET n  == IF StableLen(p) < Len(p.msgs) THEN StableLen(p) ELSE Len(p.msgs)
        st == Rendered(SubSeq(p.msgs, 1, n))
    IN IF n > 0 /\ n < Len(p.msgs) /\ MonotonicAppend(st, Rendered(p.msgs)) THEN st ELSE <<>>

\* token_ids and stable_prefix_token_ids of the TokenizedPrompt.
AllTokens(tok, p) == IF tok = "mlx" THEN Rendered(p.msgs) ELSE Contents(p)
StableTokens(tok, p) == IF tok = "mlx" THEN MlxStable(p) ELSE SubSeq(Contents(p), 1, StableLen(p))
\* dynamic_tail_token_ids
TailTokens(tok, p) ==
    SubSeq(AllTokens(tok, p), Len(StableTokens(tok, p)) + 1, Len(AllTokens(tok, p)))

================================================================================
