------------------------------ MODULE ThreadWake ------------------------------
(***************************************************************************)
(* The ThreadWake prefix cache: the LRU index of cache entries, the thread *)
(* tips of session continuation, and the manager's three operations:       *)
(* observe_request, which the chat handler calls for every request,        *)
(* execute_ephemeral_chat_completion, which it calls once the request has   *)
(* been admitted, and flush.                                               *)
(*                                                                         *)
(* Each operation runs on the event loop without suspension: one action.   *)
(* One model and one backend; keys of others are disjoint from these.      *)
(* A KV handle id stands for the tokens that were prefilled under it and   *)
(* the context they were prefilled for.                                    *)
(***************************************************************************)
EXTENDS Prompts, FiniteSets, Functions

CONSTANTS
    Requests,       \* [prompt, ctx, scope, mode]
    Media,          \* the message texts that carry images or audio
    Tokenizers,     \* adapters that may be registered: "fake", "mlx"
    MinTokens,      \* min_stable_prefix_tokens
    MaxEntries,
    MaxTokens,      \* max_memory_bytes, in tokens; 0 is no limit
    MaxPending      \* bound: requests between observe and execute

ASSUME ThreadWakeAssumption ==
    /\ \A r \in Requests : r.mode \in {"off", "observe", "ephemeral", "session", "advanced"}
    /\ \A r \in Requests : r.scope \in {"request", "thread", "project", "user", "global"}
    /\ \A r \in Requests : r.prompt.msgs \in Seq([role : STRING, text : STRING])
    /\ Tokenizers \subseteq {"fake", "mlx"}
    /\ MinTokens \in Nat /\ MaxEntries \in Nat /\ MaxTokens \in Nat /\ MaxPending \in Nat

VARIABLES
    tokenizer,  \* the tokenizer adapter
    wired,      \* whether it is registered: the in-process model is loaded
    entries,    \* ThreadWakeIndex._entries
    lru,        \* ThreadWakeIndex._lru, least recently used first
    tips,       \* ThreadWakeIndex._thread_tips
    pending     \* requests observed and waiting to be executed

vars == <<tokenizer, wired, entries, lru, tips, pending>>

Contexts == {r.ctx : r \in Requests}
Threads == {c.thread : c \in Contexts} \ {NoValue}
Key(r) == CacheKey(r.prompt, r.scope)
Keys == {Key(r) : r \in Requests}
Handles == [tokens : {StableTokens(t, r.prompt) : t \in Tokenizers, r \in Requests}, ctx : Contexts]
Histories == {Contents(r.prompt) : r \in Requests}
ASSUME HandleAssumption == NoValue \notin Handles
ScopeIds == {NoValue, "global"} \cup UNION {{c.thread, c.user, c.project} : c \in Contexts}

TypeOK ==
    /\ tokenizer \in Tokenizers
    /\ wired \in BOOLEAN
    /\ DOMAIN entries \subseteq Keys
    /\ \A k \in DOMAIN entries :
         entries[k] \in [status : {"observed", "ready", "stale"}, sid : ScopeIds,
                         handle : Handles \cup {NoValue}, tokens : Nat]
    /\ lru \in Seq(Keys)
    /\ DOMAIN tips \subseteq Threads
    /\ \A t \in DOMAIN tips :
         tips[t] \in [hashes : Histories, handle : Handles]
    /\ pending \subseteq Requests

Init ==
    /\ tokenizer \in Tokenizers
    /\ wired = FALSE
    /\ entries = << >>
    /\ lru = << >>
    /\ tips = << >>
    /\ pending = {}

(***************************************************************************)
(* The index                                                               *)
(***************************************************************************)
Without(f, x) == [y \in DOMAIN f \ {x} |-> f[y]]
With(f, x, v) == [y \in DOMAIN f \cup {x} |-> IF y = x THEN v ELSE f[y]]

\* What is left of a list, in its order, when the keys outside S are removed.
Kept(q, S) ==
    LET at == {i \in DOMAIN q : q[i] \in S}
    IN [n \in 1..Cardinality(at) |->
          q[CHOOSE i \in at : Cardinality({j \in at : j <= i}) = n]]

\* Faulty variant: the key is appended again on every use.
PromoteAppends(k, q) == Append(q, k)

\* _promote_lru
Promote(k, q) == Append(Kept(q, Range(q) \ {k}), k)

\* _scope_id_for
ScopeId(scope, ctx) ==
    CASE scope = "thread"  -> ctx.thread
      [] scope = "user"    -> ctx.user
      [] scope = "project" -> ctx.project
      [] scope = "global"  -> "global"
      [] OTHER             -> NoValue

\* _scope_matches: an entry or a request without identity matches nothing.
ScopeMatches(k, ctx) ==
    CASE k.scope = "request" -> TRUE
      [] k.scope = "global"  -> AllowGlobal
      [] OTHER               -> entries[k].sid # NoValue /\ ScopeId(k.scope, ctx) = entries[k].sid

\* The entry of a key that get() returns: present, in scope and not stale.
Found(r) ==
    /\ Key(r) \in DOMAIN entries
    /\ ScopeMatches(Key(r), r.ctx)
    /\ entries[Key(r)].status # "stale"

\* The memory of a set of entries: one unit for every token of every entry.
Units(es) == UNION {{k} \X (1..es[k].tokens) : k \in DOMAIN es}

Fits(es) ==
    /\ Cardinality(DOMAIN es) <= MaxEntries
    /\ MaxTokens > 0 => Cardinality(Units(es)) <= MaxTokens

\* The entries that are left when the n least recently used keys are dropped.
After(es, q, n) == LET gone == Range(SubSeq(q, 1, n)) IN [x \in DOMAIN es \ gone |-> es[x]]

\* How many keys _evict_if_needed drops, the one just inserted included: it stops
\* when the rest fits, or when the list is empty.
Evicted(es, q) ==
    LET Stops(n) == n = Len(q) \/ Fits(After(es, q, n))
    IN CHOOSE n \in 0..Len(q) : Stops(n) /\ \A m \in 0..(n - 1) : ~Stops(m)

\* The index is the pair [es, q]: put_observation updates an entry in place, its
\* scope identity included, or inserts one and evicts.
Put(ix, r, handle) ==
    LET k   == Key(r)
        new == [status |-> "observed", sid |-> ScopeId(r.scope, r.ctx),
                handle |-> handle, tokens |-> StableLen(r.prompt)]
    IN IF k \in DOMAIN ix.es
       THEN [es |-> [ix.es EXCEPT ![k].sid = new.sid, ![k].tokens = new.tokens,
                                  ![k].handle = IF handle = NoValue THEN @ ELSE handle],
             q  |-> Promote(k, ix.q)]
       ELSE LET es == With(ix.es, k, new)
                q  == Append(ix.q, k)
                n  == Evicted(es, q)
            IN [es |-> After(es, q, n), q |-> SubSeq(q, n + 1, Len(q))]

\* mark_ready: nothing when the entry was evicted by its own insertion.
MarkReady(ix, k) ==
    IF k \in DOMAIN ix.es
    THEN [es |-> [ix.es EXCEPT ![k].status = "ready"], q |-> Promote(k, ix.q)]
    ELSE ix

(***************************************************************************)
(* observe_request                                                         *)
(***************************************************************************)
\* evaluate_threadwake_policy
Eligible(r) ==
    /\ r.mode \in {"observe", "ephemeral", "session"}
    /\ \A s \in Range(StablePrefix(r.prompt)) : s.content.text \notin Media
    /\ StableLen(r.prompt) >= MinTokens

SetIndex(ix) == entries' = ix.es /\ lru' = ix.q

\* The chat handler observes the request before admission; put_observation
\* refuses the global scope when it is not allowed, and that is ignored.
ObserveRequest(r) ==
    /\ r \notin pending
    /\ Cardinality(pending) < MaxPending
    /\ pending' = pending \cup {r}
    /\ IF Eligible(r) /\ (r.scope = "global" => AllowGlobal)
       THEN SetIndex(Put([es |-> entries, q |-> lru], r, NoValue))
       ELSE UNCHANGED <<entries, lru>>
    /\ UNCHANGED <<tokenizer, wired, tips>>

\* The request is refused, cancelled, timed out, or streams: it never executes.
Leave(r) ==
    /\ r \in pending
    /\ pending' = pending \ {r}
    /\ UNCHANGED <<tokenizer, wired, entries, lru, tips>>

(***************************************************************************)
(* execute_ephemeral_chat_completion.  The MLX backend's clone_kv always    *)
(* raises; another one's may.                                              *)
(***************************************************************************)
CanClone == tokenizer # "mlx"

\* The handle a hit or a continuation clones is built anew from the id alone.
\* The store_key that prefill_to_kv put into its own handle is not in it.
Reopened(handle) == [handle_id |-> handle]

\* generate_from_kv of the fake backend looks its store up by the handle's
\* store_key, and computes on nothing when there is none.  (The store, one slot
\* per model that every prefill overwrites, is read nowhere else: it is no state
\* of this module.)
PrefixFound(ref) == IF "store_key" \in DOMAIN ref THEN ref.store_key ELSE << >>

CanReuse(r) == wired /\ r.mode \in {"ephemeral", "session"} /\ Eligible(r)

Tip(r) == r.ctx.thread \in DOMAIN tips /\ Len(r.prompt.msgs) > 0

Continues(r) ==
    Tip(r) /\ MonotonicAppend(tips[r.ctx.thread].hashes, Contents(r.prompt))

\* _try_session_continuation succeeds: the tip moves on, its handle stays.
ContinueSession(r) ==
    /\ CanReuse(r) /\ Continues(r) /\ CanClone
    /\ tips' = [tips EXCEPT ![r.ctx.thread].hashes = Contents(r.prompt)]
    /\ UNCHANGED <<entries, lru>>

\* The history was edited, or the clone failed: the tip is cleared and the
\* request goes on to the index.
AfterTip(r) == IF Tip(r) THEN Without(tips, r.ctx.thread) ELSE tips

\* get() promotes what it returns.
Looked(r) == [es |-> entries, q |-> IF Found(r) THEN Promote(Key(r), lru) ELSE lru]

IsReady(r) == Found(r) /\ entries[Key(r)].status = "ready"

\* _ephemeral_hit: a failed clone marks the entry stale and falls back.
Hit(r) ==
    /\ CanReuse(r) /\ IsReady(r)
    /\ tips' = AfterTip(r)
    /\ \/ CanClone /\ SetIndex(Looked(r))
       \/ SetIndex([Looked(r) EXCEPT !.es[Key(r)].status = "stale"])

\* thread_id and continuation_candidate: the request may leave a tip.
Chains(r) == r.ctx.thread # NoValue /\ r.prompt.msgs # << >>

\* Faulty variant: tips are kept per model only.
TipOwnerShared(r) == CHOOSE t \in Threads : TRUE

\* _tip_key: the thread whose tip a request stores.
TipOwner(r) == r.ctx.thread

\* _ephemeral_miss, after the full generation: prefill the stable tokens, store
\* the handle, and remember it as the thread's tip even if the entry is gone.
Miss(r) ==
    LET handle == [tokens |-> StableTokens(tokenizer, r.prompt), ctx |-> r.ctx]
        stored == MarkReady(Put(Looked(r), r, handle), Key(r))
        tip    == [hashes |-> Contents(r.prompt), handle |-> handle]
    IN
    /\ CanReuse(r) /\ ~IsReady(r)
    /\ \/ /\ handle.tokens # << >>
          /\ r.scope = "global" => AllowGlobal
          /\ SetIndex(stored)
          /\ tips' = IF Chains(r) THEN With(AfterTip(r), TipOwner(r), tip) ELSE AfterTip(r)
       \/ SetIndex(Looked(r)) /\ tips' = AfterTip(r)     \* the prefill or the store raises

Execute(r) ==
    /\ r \in pending
    /\ pending' = pending \ {r}
    /\ \/ ~CanReuse(r) /\ UNCHANGED <<entries, lru, tips>>
       \/ ContinueSession(r)
       \/ Hit(r)
       \/ Miss(r)
    /\ UNCHANGED <<tokenizer, wired>>

(***************************************************************************)
(* Flush, and the model's load and unload                                  *)
(***************************************************************************)
\* ThreadWakeIndex.flush: the filters given are conjoined; tips are not touched.
Flushed(scope, sid) ==
    {k \in DOMAIN entries : /\ scope # NoValue => k.scope = scope
                            /\ sid # NoValue => entries[k].sid = sid}

FlushCache(scope, sid) ==
    LET keep == DOMAIN entries \ Flushed(scope, sid) IN
    /\ entries # << >>
    /\ entries' = [k \in keep |-> entries[k]]
    /\ lru' = Kept(lru, keep)
    /\ UNCHANGED <<tokenizer, wired, tips, pending>>

Load ==
    /\ ~wired /\ wired' = TRUE
    /\ UNCHANGED <<tokenizer, entries, lru, tips, pending>>

\* Unload unregisters the tokenizer; the index, its handles and the tips stay.
Unload ==
    /\ wired /\ wired' = FALSE
    /\ UNCHANGED <<tokenizer, entries, lru, tips, pending>>

Next ==
    \/ \E r \in Requests : ObserveRequest(r) \/ Leave(r) \/ Execute(r)
    \/ \E scope \in {k.scope : k \in DOMAIN entries} \cup {NoValue},
          sid \in {entries[k].sid : k \in DOMAIN entries} \cup {NoValue} : FlushCache(scope, sid)
    \/ Load \/ Unload

Spec == Init /\ [][Next]_vars

(***************************************************************************)
(* Properties                                                              *)
(***************************************************************************)
\* The LRU list names every entry exactly once: eviction and flush, which work
\* through it, can neither miss an entry nor fail on a missing one
\* (ThreadWakeIndex._promote_lru, _evict_if_needed, flush).
LruMatchesEntries ==
    /\ Range(lru) = DOMAIN entries
    /\ Len(lru) = Cardinality(DOMAIN entries)

\* The index never holds more than max_entries or max_memory_bytes, whatever
\* the order of observations, prefills and flushes (_evict_if_needed runs on
\* insertion only, not on the in-place update).
WithinLimits ==
    /\ Cardinality(DOMAIN entries) <= MaxEntries
    /\ MaxTokens > 0 => Cardinality(Units(entries)) <= MaxTokens

\* An entry offered for reuse always carries a KV handle of a non-empty prefix,
\* although every request re-observes its key without one before it executes
\* (put_observation: "Preserve an existing KV handle").
ReadyHasHandle ==
    \A k \in DOMAIN entries : entries[k].status = "ready" =>
        entries[k].handle # NoValue /\ entries[k].handle.tokens # << >>

WouldHit(r) == CanClone /\ IsReady(r) /\ CanReuse(r) /\ ~Continues(r)
WouldContinue(r) == CanReuse(r) /\ CanClone /\ Continues(r)

\* The index's tables agree between any two calls: entries, LRU list, limits and
\* handles.
IndexConsistent == TypeOK /\ LruMatchesEntries /\ WithinLimits /\ ReadyHasHandle

\* The id a hit passes on names the right prefix: what was prefilled under it,
\* followed by the dynamic tail, is the whole prompt, for any request that can
\* reach the entry, whichever request prefilled it (cache key, _ephemeral_hit).
\* This is about the index; what the backend makes of the id is ReuseIsComplete.
HitNamesItsPrefix ==
    \A r \in Requests : WouldHit(r) =>
        entries[Key(r)].handle.tokens \o TailTokens(tokenizer, r.prompt)
            = AllTokens(tokenizer, r.prompt)

\* A thread's tip names state that was prefilled for that thread, and a history
\* that extends it (store_thread_tip, _try_session_continuation).
TipsStayInThread ==
    \A t \in DOMAIN tips :
        /\ tips[t].handle.ctx.thread = t
        /\ CanClone => MonotonicAppend(tips[t].handle.tokens, tips[t].hashes)

\* What the documentation says: KV state prefilled in one thread, user or
\* project is not served to another.
ScopeIsolation ==
    \A r \in pending : WouldHit(r) /\ r.scope \in {"thread", "user", "project"} =>
        ScopeId(r.scope, entries[Key(r)].handle.ctx) = ScopeId(r.scope, r.ctx)

\* The id a request's hit or continuation would reopen.
ReusedHandle(r) ==
    IF Continues(r) THEN tips[r.ctx.thread].handle ELSE entries[Key(r)].handle

\* What the overview says of a hit, and the comment in _try_session_continuation of
\* a continuation: generation goes on from the stored state, so what the backend
\* finds under the reopened handle and the tokens it is given are the whole prompt.
ReuseIsComplete ==
    \A r \in pending : WouldHit(r) \/ WouldContinue(r) =>
        PrefixFound(Reopened(ReusedHandle(r))) \o TailTokens(tokenizer, r.prompt)
            = AllTokens(tokenizer, r.prompt)
================================================================================
