----------------------------- MODULE ThreadWakeProofs -----------------------------
(***************************************************************************)
(* Theorems about the ThreadWake prefix cache, for every set of requests,  *)
(* every metadata a client may send and every limit: which prefix a hit    *)
(* names, what a ready entry carries and whose state a thread's tip names. *)
(***************************************************************************)
EXTENDS ThreadWake, SequenceTheorems, FiniteSetTheorems, WellFoundedInduction, TLAPS

(***************************************************************************)
(* Prompts                                                                 *)
(***************************************************************************)
\* A non-empty set of numbers has a least element.
LEMMA LeastNumber ==
    ASSUME NEW T, T \subseteq Nat, T # {}
    PROVE  \E x \in T : \A y \in T : x <= y
  <1>1. PICK x \in T : \A y \in T : ~(<<y, x>> \in OpToRel(<, Nat))
    BY NatLessThanWellFounded, WFMin
  <1>2. ASSUME NEW y \in T PROVE x <= y
    <2>1. x \in Nat /\ y \in Nat
      OBVIOUS
    <2>2. ~(y < x)
      BY <1>1, <2>1 DEF OpToRel
    <2> QED BY <2>1, <2>2
  <1> QED BY <1>2

\* The number of segments of a prompt.
Size(p) == Len(Inferred(p))

\* Segments and contents are sequences, one element per segment.
LEMMA SegmentFacts ==
    ASSUME NEW p, p.msgs \in Seq([role : STRING, text : STRING])
    PROVE  /\ Size(p) \in Nat
           /\ Len(Segments(p)) = Size(p) /\ DOMAIN Segments(p) = 1..Size(p)
           /\ Segments(p) \in Seq(Range(Segments(p)))
           /\ Len(Contents(p)) = Size(p) /\ Contents(p) \in Seq(Range(Contents(p)))
           /\ \A i \in 1..Size(p) : Contents(p)[i] = Segments(p)[i].content
  <1> DEFINE front == ToolSegments(p)
             back == [i \in 1..Len(p.msgs) |-> Segment(Hashed(p.msgs[i]), MessageStability(p.msgs, i))]
  <1>1. Len(p.msgs) \in Nat
    OBVIOUS
  <1>2. Inferred(p) = front \o back
    BY DEF Inferred
  <1>3. Len(front) \in Nat /\ front \in Seq(Range(front))
    <2>1. PICK a, b : /\ a = <<Segment(Message("tools", "schemas"), "stable")>> \/ a = << >>
                      /\ b = <<Segment(Message("tools", "choice"), "stable")>> \/ b = << >>
                      /\ front = a \o b
      BY DEF ToolSegments
    <2> DEFINE schemas == Segment(Message("tools", "schemas"), "stable")
               choice == Segment(Message("tools", "choice"), "stable")
    <2> HIDE DEF schemas, choice
    <2>2. a \in Seq({schemas, choice}) /\ b \in Seq({schemas, choice})
      <3>1. (a = <<schemas>> \/ a = << >>) /\ (b = <<choice>> \/ b = << >>)
        BY <2>1 DEF schemas, choice
      <3>2. << >> \in Seq({schemas, choice})
        OBVIOUS
      <3>3. <<schemas>> \in Seq({schemas, choice}) /\ <<choice>> \in Seq({schemas, choice})
        OBVIOUS
      <3> QED BY <3>1, <3>2, <3>3
    <2>3. front \in Seq({schemas, choice})
      BY <2>1, <2>2
    <2> HIDE DEF front
    <2>4. Len(front) \in Nat /\ DOMAIN front = 1..Len(front)
      BY <2>3
    <2> QED BY <2>3, <2>4 DEF Range
  <1>4. Len(back) \in Nat /\ back \in Seq(Range(back))
    <2>1. DOMAIN back = 1..Len(p.msgs) /\ back = [i \in 1..Len(p.msgs) |-> back[i]]
      OBVIOUS
    <2> HIDE DEF back
    <2>2. back \in Seq(Range(back))
      BY <1>1, <2>1 DEF Range
    <2> QED BY <2>2
  <1> HIDE DEF front, back
  <1>5. Size(p) \in Nat
    <2> DEFINE R == Range(front) \cup Range(back)
    <2>1. front \in Seq(R) /\ back \in Seq(R)
      BY <1>3, <1>4
    <2> HIDE DEF R
    <2>2. front \o back \in Seq(R)
      BY <2>1
    <2> QED BY <1>2, <2>2 DEF Size
  <1>6. DOMAIN Segments(p) = 1..Size(p) /\ Segments(p) = [i \in 1..Size(p) |-> Segments(p)[i]]
    BY DEF Segments, Size
  <1>7. Segments(p) \in Seq(Range(Segments(p))) /\ Len(Segments(p)) = Size(p)
    BY <1>5, <1>6 DEF Range
  <1>8. Contents(p) = [i \in 1..Size(p) |-> Segments(p)[i].content]
    BY <1>7 DEF Contents
  <1>9. /\ DOMAIN Contents(p) = 1..Size(p)
        /\ \A i \in 1..Size(p) : Contents(p)[i] = Segments(p)[i].content
    BY <1>8
  <1>10. Contents(p) \in Seq(Range(Contents(p))) /\ Len(Contents(p)) = Size(p)
    BY <1>5, <1>8, <1>9 DEF Range
  <1> QED BY <1>5, <1>6, <1>7, <1>9, <1>10

\* A prompt has a stable prefix, possibly empty, within its segments.
LEMMA StableLenType ==
    ASSUME NEW p, p.msgs \in Seq([role : STRING, text : STRING])
    PROVE  StableLen(p) \in 0..Size(p)
  <1> DEFINE segs == Segments(p)
             Dynamic == {i \in 1..Size(p) : segs[i].stability = "dynamic"}
             Cuts(n) == /\ \A i \in 1..n : segs[i].stability # "dynamic"
                        /\ n < Size(p) => segs[n + 1].stability = "dynamic"
  <1>1. Size(p) \in Nat /\ Len(segs) = Size(p)
    BY SegmentFacts
  <1>2. \E n \in 0..Size(p) : Cuts(n)
    <2>1. CASE Dynamic = {}
      <3>1. Cuts(Size(p))
        BY <1>1, <2>1
      <3> QED BY <1>1, <3>1
    <2>2. CASE Dynamic # {}
      <3>1. Dynamic \subseteq Nat
        BY <1>1
      <3>2. PICK d \in Dynamic : \A y \in Dynamic : d <= y
        <4> HIDE DEF Dynamic
        <4> QED BY <2>2, <3>1, LeastNumber
      <3>3. d \in 1..Size(p) /\ segs[d].stability = "dynamic"
        OBVIOUS
      <3>4. ASSUME NEW i \in 1..(d - 1) PROVE segs[i].stability # "dynamic"
        <4>1. i \in 1..Size(p) /\ ~(d <= i)
          BY <1>1, <3>3
        <4> QED BY <3>2, <4>1
      <3>5. d - 1 \in 0..Size(p) /\ d - 1 + 1 = d
        BY <1>1, <3>3
      <3>6. Cuts(d - 1)
        BY <3>3, <3>4, <3>5
      <3> QED BY <3>5, <3>6
    <2> QED BY <2>1, <2>2
  <1>3. StableLen(p) = CHOOSE n \in 0..Size(p) : Cuts(n)
    BY <1>1 DEF StableLen
  <1> HIDE DEF Cuts
  <1> QED BY <1>2, <1>3

\* Equal keys mean equal stable tokens: what one request prefilled is what another
\* with its key would have prefilled, for a tokenizer that splits by segment.
LEMMA SamePrefixSameTokens ==
    ASSUME NEW p, p.msgs \in Seq([role : STRING, text : STRING]),
           NEW q, q.msgs \in Seq([role : STRING, text : STRING]),
           StablePrefix(p) = StablePrefix(q), NEW tok, tok # "mlx"
    PROVE  StableTokens(tok, p) = StableTokens(tok, q)
  <1>1. ASSUME NEW x, x.msgs \in Seq([role : STRING, text : STRING])
        PROVE  /\ StableLen(x) \in Nat
               /\ Len(StablePrefix(x)) = StableLen(x)
               /\ \A i \in 1..StableLen(x) : StablePrefix(x)[i] = Segments(x)[i]
               /\ Len(StableTokens(tok, x)) = StableLen(x)
               /\ StableTokens(tok, x) \in Seq(Range(Contents(x)))
               /\ \A i \in 1..StableLen(x) : StableTokens(tok, x)[i] = Segments(x)[i].content
    <2> DEFINE n == StableLen(x)
    <2>1. Size(x) \in Nat /\ n \in 0..Size(x) /\ n \in Nat
      BY <1>1, SegmentFacts, StableLenType
    <2>2. /\ Segments(x) \in Seq(Range(Segments(x))) /\ Len(Segments(x)) = Size(x)
          /\ Contents(x) \in Seq(Range(Contents(x))) /\ Len(Contents(x)) = Size(x)
          /\ \A i \in 1..Size(x) : Contents(x)[i] = Segments(x)[i].content
      BY <1>1, SegmentFacts
    <2>3. StablePrefix(x) = SubSeq(Segments(x), 1, n) /\ StableTokens(tok, x) = SubSeq(Contents(x), 1, n)
      BY DEF StablePrefix, StableTokens
    <2> HIDE DEF n
    <2>4. Len(SubSeq(Segments(x), 1, n)) = n /\ \A i \in 1..n : SubSeq(Segments(x), 1, n)[i] = Segments(x)[i]
      BY <2>1, <2>2
    <2>5. /\ Len(SubSeq(Contents(x), 1, n)) = n /\ SubSeq(Contents(x), 1, n) \in Seq(Range(Contents(x)))
          /\ \A i \in 1..n : SubSeq(Contents(x), 1, n)[i] = Contents(x)[i]
      BY <2>1, <2>2
    <2>6. \A i \in 1..n : i \in 1..Size(x)
      BY <2>1
    <2> QED BY <2>1, <2>2, <2>3, <2>4, <2>5, <2>6 DEF n
  <1>2. StableLen(p) = StableLen(q)
    BY <1>1
  <1>3. \A i \in 1..StableLen(p) : StableTokens(tok, p)[i] = StableTokens(tok, q)[i]
    BY SMTT(40), <1>1, <1>2
  <1>4. /\ StableTokens(tok, p) \in Seq(Range(Contents(p)) \cup Range(Contents(q)))
        /\ StableTokens(tok, q) \in Seq(Range(Contents(p)) \cup Range(Contents(q)))
        /\ Len(StableTokens(tok, p)) = Len(StableTokens(tok, q))
        /\ Len(StableTokens(tok, p)) = StableLen(p)
    BY <1>1, <1>2
  <1> DEFINE a == StableTokens(tok, p)
             b == StableTokens(tok, q)
  <1> HIDE DEF a, b
  <1>5. ASSUME NEW S, a \in Seq(S), b \in Seq(S), Len(a) = Len(b), \A i \in 1..Len(a) : a[i] = b[i]
        PROVE  a = b
    BY <1>5
  <1> QED BY <1>3, <1>4, <1>5 DEF a, b

\* The stable tokens lead the prompt and the dynamic tail is the rest of it.
LEMMA SplitIsExact ==
    ASSUME NEW p, p.msgs \in Seq([role : STRING, text : STRING]), NEW tok, tok # "mlx"
    PROVE  /\ StableTokens(tok, p) \o TailTokens(tok, p) = AllTokens(tok, p)
           /\ MonotonicAppend(StableTokens(tok, p), Contents(p))
           /\ StableTokens(tok, p) \in Seq(Range(Contents(p)))
  <1> DEFINE n == StableLen(p)
             c == Contents(p)
  <1>1. n \in 0..Size(p) /\ Size(p) \in Nat /\ c \in Seq(Range(c)) /\ Len(c) = Size(p)
    BY SegmentFacts, StableLenType
  <1>2. StableTokens(tok, p) = SubSeq(c, 1, n) /\ AllTokens(tok, p) = c
    BY DEF StableTokens, AllTokens
  <1> HIDE DEF c, n
  <1>3. Len(SubSeq(c, 1, n)) = n /\ SubSeq(c, 1, n) \in Seq(Range(c))
    BY <1>1
  <1>4. TailTokens(tok, p) = SubSeq(c, n + 1, Len(c))
    BY <1>2, <1>3 DEF TailTokens
  <1>5. SubSeq(c, 1, n) \o SubSeq(c, n + 1, Len(c)) = SubSeq(c, 1, Len(c))
    <2>1. 1 \in 1..(Len(c) + 1) /\ n \in (1 - 1)..Len(c) /\ Len(c) \in n..Len(c)
      BY <1>1
    <2> QED BY <1>1, <2>1, ConcatAdjacentSubSeq
  <1>6. SubSeq(c, 1, Len(c)) = c
    BY <1>1, SubSeqFull
  <1>7. MonotonicAppend(SubSeq(c, 1, n), c)
    BY <1>1, <1>3 DEF MonotonicAppend
  <1> QED BY <1>2, <1>3, <1>4, <1>5, <1>6, <1>7 DEF c

\* What extends an extension extends the original.
LEMMA AppendsCompose ==
    ASSUME NEW S, NEW a \in Seq(S), NEW b \in Seq(S), NEW c \in Seq(S),
           MonotonicAppend(a, b), MonotonicAppend(b, c)
    PROVE  MonotonicAppend(a, c)
  <1>1. /\ Len(a) \in Nat /\ Len(b) \in Nat /\ Len(c) \in Nat
        /\ Len(b) >= Len(a) /\ Len(c) >= Len(b)
        /\ SubSeq(b, 1, Len(a)) = a /\ SubSeq(c, 1, Len(b)) = b
    BY DEF MonotonicAppend
  <1>2. ASSUME NEW i \in 1..Len(a) PROVE c[i] = a[i]
    <2>1. i \in 1..Len(b)
      BY <1>1
    <2>2. SubSeq(b, 1, Len(a))[i] = b[i]
      BY <1>1
    <2>3. SubSeq(c, 1, Len(b))[i] = c[i]
      BY <1>1, <2>1
    <2> QED BY <1>1, <2>2, <2>3
  <1>3. /\ SubSeq(c, 1, Len(a)) \in Seq(S) /\ Len(SubSeq(c, 1, Len(a))) = Len(a)
        /\ \A i \in 1..Len(a) : SubSeq(c, 1, Len(a))[i] = c[i]
    BY <1>1
  <1>4. SubSeq(c, 1, Len(a)) = a
    BY <1>2, <1>3
  <1> QED BY <1>1, <1>4 DEF MonotonicAppend
(***************************************************************************)
(* The index.  The invariant remembers, for every handle in an entry, that *)
(* some request with the entry's key prefilled it.                         *)
(***************************************************************************)
EntryRec ==
    [status : {"observed", "ready", "stale"}, sid : ScopeIds, handle : Handles \cup {NoValue}, tokens : Nat]

MadeFor(k, h) ==
    /\ h \in Handles /\ h.tokens # << >>
    /\ \E r \in Requests : Key(r) = k /\ h.tokens = StableTokens(tokenizer, r.prompt)

GoodEntry(k, e) ==
    /\ e \in EntryRec
    /\ e.handle # NoValue => MadeFor(k, e.handle)
    /\ e.status = "ready" => e.handle # NoValue

GoodIndex(es) ==
    /\ es = [k \in DOMAIN es |-> es[k]] /\ DOMAIN es \subseteq Keys
    /\ \A k \in DOMAIN es : GoodEntry(k, es[k])

IndexInv == tokenizer \in Tokenizers /\ GoodIndex(entries)

\* The message lists of requests, and the identities of their scopes.
LEMMA RequestFacts ==
    ASSUME NEW r \in Requests
    PROVE  /\ r.prompt.msgs \in Seq([role : STRING, text : STRING])
           /\ StableLen(r.prompt) \in Nat /\ Key(r) \in Keys
           /\ ScopeId(r.scope, r.ctx) \in ScopeIds
  <1>1. r.prompt.msgs \in Seq([role : STRING, text : STRING])
    BY ThreadWakeAssumption
  <1>2. StableLen(r.prompt) \in 0..Size(r.prompt) /\ Size(r.prompt) \in Nat
    BY <1>1, StableLenType, SegmentFacts
  <1>3. StableLen(r.prompt) \in Nat
    BY <1>2
  <1>4. Key(r) \in Keys
    BY DEF Keys
  <1>5. ScopeId(r.scope, r.ctx) \in ScopeIds
    <2>1. r.ctx \in Contexts
      BY DEF Contexts
    <2>2. ScopeId(r.scope, r.ctx) \in {r.ctx.thread, r.ctx.user, r.ctx.project, NoValue, "global"}
      BY DEF ScopeId
    <2> QED BY <2>1, <2>2 DEF ScopeIds
  <1> QED BY <1>1, <1>3, <1>4, <1>5

\* put_observation keeps the index good, and leaves the handle it is given in the
\* entry if the entry is still there.
LEMMA PutGood ==
    ASSUME NEW es, NEW lq, GoodIndex(es), NEW r \in Requests, NEW h, h = NoValue \/ MadeFor(Key(r), h)
    PROVE  /\ GoodIndex(Put([es |-> es, q |-> lq], r, h).es)
           /\ h # NoValue /\ Key(r) \in DOMAIN Put([es |-> es, q |-> lq], r, h).es
                => Put([es |-> es, q |-> lq], r, h).es[Key(r)].handle = h
  <1> DEFINE k == Key(r)
             new == [status |-> "observed", sid |-> ScopeId(r.scope, r.ctx), handle |-> h,
                     tokens |-> StableLen(r.prompt)]
             after == Put([es |-> es, q |-> lq], r, h).es
  <1>1. /\ k \in Keys /\ StableLen(r.prompt) \in Nat /\ ScopeId(r.scope, r.ctx) \in ScopeIds
        /\ h \in Handles \cup {NoValue}
    BY RequestFacts DEF MadeFor
  <1>2. CASE k \in DOMAIN es
    <2> DEFINE e == es[k]
               f == [e EXCEPT !.sid = ScopeId(r.scope, r.ctx), !.tokens = StableLen(r.prompt),
                              !.handle = IF h = NoValue THEN e.handle ELSE h]
    <2>1. after = [es EXCEPT ![k] = f]
      BY <1>2 DEF Put
    <2>2. e \in EntryRec /\ GoodEntry(k, e)
      BY <1>2 DEF GoodIndex, GoodEntry
    <2>3. f \in EntryRec /\ f.status = e.status /\ f.handle = IF h = NoValue THEN e.handle ELSE h
      BY <1>1, <2>2 DEF EntryRec
    <2>4. GoodEntry(k, f)
      BY <2>2, <2>3 DEF GoodEntry
    <2> HIDE DEF f
    <2>5. DOMAIN after = DOMAIN es /\ after[k] = f /\ \A x \in DOMAIN es : x # k => after[x] = es[x]
      BY <1>2, <2>1
    <2>6. after = [x \in DOMAIN after |-> after[x]]
      BY <2>1
    <2> HIDE DEF after
    <2>7. GoodIndex(after)
      BY <2>4, <2>5, <2>6 DEF GoodIndex
    <2> QED BY <2>3, <2>5, <2>7 DEF after
  <1>3. CASE k \notin DOMAIN es
    <2> DEFINE all == With(es, k, new)
    <2>1. PICK gone : after = [x \in DOMAIN all \ gone |-> all[x]]
      BY <1>3 DEF Put, After
    <2>2. DOMAIN all = DOMAIN es \cup {k} /\ all[k] = new /\ \A x \in DOMAIN es : all[x] = es[x]
      BY <1>3 DEF With
    <2>3. new \in EntryRec /\ new.handle = h /\ new.status = "observed"
      BY <1>1 DEF EntryRec
    <2>4. GoodEntry(k, new)
      BY <2>3 DEF GoodEntry
    <2> HIDE DEF all, new, after
    <2>5. DOMAIN after \subseteq DOMAIN all /\ \A x \in DOMAIN after : after[x] = all[x]
      BY <2>1
    <2>6. after = [x \in DOMAIN after |-> after[x]]
      BY <2>1
    <2>7. DOMAIN after \subseteq Keys
      BY <1>1, <2>2, <2>5 DEF GoodIndex
    <2>8. ASSUME NEW x \in DOMAIN after PROVE GoodEntry(x, after[x])
      BY <2>2, <2>4, <2>5 DEF GoodIndex
    <2>9. GoodIndex(after)
      BY <2>6, <2>7, <2>8 DEF GoodIndex
    <2> QED BY <2>2, <2>3, <2>5, <2>9 DEF after
  <1> QED BY <1>2, <1>3

\* Another status, ready only where there is a handle, keeps the index good.
LEMMA StatusGood ==
    ASSUME NEW es, GoodIndex(es), NEW k \in DOMAIN es, NEW st \in {"ready", "stale"},
           st = "ready" => es[k].handle # NoValue
    PROVE  GoodIndex([es EXCEPT ![k].status = st])
  <1> DEFINE f == [es[k] EXCEPT !.status = st]
             after == [es EXCEPT ![k] = f]
  <1>1. es[k] \in EntryRec /\ GoodEntry(k, es[k])
    BY DEF GoodIndex, GoodEntry
  <1>2. f \in EntryRec /\ f.status = st /\ f.handle = es[k].handle
    BY <1>1 DEF EntryRec
  <1>3. GoodEntry(k, f)
    BY <1>1, <1>2 DEF GoodEntry
  <1> HIDE DEF f
  <1>4. /\ DOMAIN after = DOMAIN es /\ after[k] = f /\ \A x \in DOMAIN es : x # k => after[x] = es[x]
        /\ after = [x \in DOMAIN after |-> after[x]]
    OBVIOUS
  <1>5. [es EXCEPT ![k].status = st] = after
    BY DEF f
  <1> HIDE DEF after
  <1>6. GoodIndex(after)
    BY <1>3, <1>4 DEF GoodIndex
  <1> QED BY <1>5, <1>6

\* Every step keeps the index good.
LEMMA IndexStep ==
    ASSUME IndexInv, [Next]_vars
    PROVE  IndexInv'
  <1>1. tokenizer' = tokenizer
    BY DEF Next, vars, ObserveRequest, Leave, Execute, FlushCache, Load, Unload
  <1>2. ASSUME GoodIndex(entries') PROVE IndexInv'
    BY <1>1, <1>2 DEF IndexInv, GoodIndex, GoodEntry, MadeFor
  <1>3. GoodIndex(entries)
    BY DEF IndexInv
  <1>4. ASSUME entries' = entries PROVE IndexInv'
    BY <1>2, <1>3, <1>4
  <1>5. ASSUME NEW r \in Requests, ObserveRequest(r) PROVE IndexInv'
    <2>1. CASE SetIndex(Put([es |-> entries, q |-> lru], r, NoValue))
      BY <1>2, <1>3, <2>1, PutGood DEF SetIndex
    <2> QED BY <1>4, <1>5, <2>1 DEF ObserveRequest
  <1>6. ASSUME NEW r \in Requests, Hit(r) PROVE IndexInv'
    <2>1. Looked(r).es = entries /\ Key(r) \in DOMAIN entries
      BY <1>6 DEF Looked, Hit, IsReady, Found
    <2>2. CASE SetIndex(Looked(r))
      BY <1>4, <2>1, <2>2 DEF SetIndex
    <2>3. CASE SetIndex([Looked(r) EXCEPT !.es[Key(r)].status = "stale"])
      <3>1. [Looked(r) EXCEPT !.es[Key(r)].status = "stale"].es = [entries EXCEPT ![Key(r)].status = "stale"]
        BY DEF Looked
      <3>2. GoodIndex([entries EXCEPT ![Key(r)].status = "stale"])
        BY <1>3, <2>1, StatusGood
      <3> QED BY <1>2, <2>3, <3>1, <3>2 DEF SetIndex
    <2> QED BY <1>6, <2>2, <2>3 DEF Hit
  <1>7. ASSUME NEW r \in Requests, Miss(r) PROVE IndexInv'
    <2> DEFINE h == [tokens |-> StableTokens(tokenizer, r.prompt), ctx |-> r.ctx]
               put == Put(Looked(r), r, h)
    <2>1. CASE SetIndex(Looked(r))
      BY <1>4, <2>1 DEF SetIndex, Looked
    <2>2. CASE h.tokens # << >> /\ SetIndex(MarkReady(put, Key(r)))
      <3>1. h \in Handles /\ h.tokens = StableTokens(tokenizer, r.prompt)
        BY DEF Handles, Contexts, IndexInv
      <3>2. MadeFor(Key(r), h) /\ h # NoValue
        BY <2>2, <3>1, HandleAssumption DEF MadeFor
      <3>3. \E lq : Looked(r) = [es |-> entries, q |-> lq]
        BY DEF Looked
      <3> HIDE DEF h
      <3>4. GoodIndex(put.es) /\ (Key(r) \in DOMAIN put.es => put.es[Key(r)].handle = h)
        BY <1>3, <3>2, <3>3, PutGood
      <3> HIDE DEF put
      <3>5. GoodIndex(MarkReady(put, Key(r)).es)
        <4>1. CASE Key(r) \in DOMAIN put.es
          <5>1. MarkReady(put, Key(r)).es = [put.es EXCEPT ![Key(r)].status = "ready"]
            BY <4>1 DEF MarkReady
          <5>2. GoodIndex([put.es EXCEPT ![Key(r)].status = "ready"])
            BY <3>2, <3>4, <4>1, StatusGood
          <5> QED BY <5>1, <5>2
        <4>2. CASE Key(r) \notin DOMAIN put.es
          BY <3>4, <4>2 DEF MarkReady
        <4> QED BY <4>1, <4>2
      <3> QED BY <1>2, <2>2, <3>5 DEF SetIndex
    <2> QED BY <1>7, <2>1, <2>2 DEF Miss
  <1>8. ASSUME NEW r \in Requests, Execute(r) PROVE IndexInv'
    BY <1>4, <1>6, <1>7, <1>8 DEF Execute, ContinueSession
  <1>9. ASSUME NEW scope, NEW sid, FlushCache(scope, sid) PROVE IndexInv'
    <2>1. PICK keep : keep \subseteq DOMAIN entries /\ entries' = [k \in keep |-> entries[k]]
      BY <1>9 DEF FlushCache
    <2>2. GoodIndex(entries')
      BY <1>3, <2>1 DEF GoodIndex
    <2> QED BY <1>2, <2>2
  <1>10. ASSUME NEW r \in Requests, Leave(r) PROVE IndexInv'
    BY <1>4, <1>10 DEF Leave
  <1>11. CASE Load \/ Unload \/ UNCHANGED vars
    BY <1>4, <1>11 DEF Load, Unload, vars
  <1> QED BY <1>5, <1>8, <1>9, <1>10, <1>11 DEF Next

\* Nothing is cached at the start.
LEMMA IndexBegins ==
    ASSUME Init
    PROVE  IndexInv
  <1>1. entries = << >> /\ DOMAIN entries = {}
    BY DEF Init
  <1>2. GoodIndex(entries)
    BY <1>1 DEF GoodIndex
  <1> QED BY <1>2 DEF IndexInv, Init

\* The id a hit passes on names the right prefix: what was prefilled under it, followed
\* by the dynamic tail, is the whole prompt, whichever request prefilled the entry and
\* whatever metadata moved the stable prefix (_ephemeral_hit, build_threadwake_cache_key).
THEOREM HitsNameTheirPrefix == Spec => []HitNamesItsPrefix
  <1>1. Init => IndexInv
    BY IndexBegins
  <1>2. IndexInv /\ [Next]_vars => IndexInv'
    BY IndexStep
  <1>3. IndexInv => HitNamesItsPrefix
    <2> SUFFICES ASSUME IndexInv, NEW r \in Requests, WouldHit(r)
                 PROVE  entries[Key(r)].handle.tokens \o TailTokens(tokenizer, r.prompt)
                            = AllTokens(tokenizer, r.prompt)
      BY DEF HitNamesItsPrefix
    <2>1. Key(r) \in DOMAIN entries /\ entries[Key(r)].status = "ready" /\ tokenizer # "mlx"
      BY DEF WouldHit, IsReady, Found, CanClone
    <2>2. MadeFor(Key(r), entries[Key(r)].handle)
      BY <2>1 DEF IndexInv, GoodIndex, GoodEntry
    <2>3. PICK q \in Requests :
             Key(q) = Key(r) /\ entries[Key(r)].handle.tokens = StableTokens(tokenizer, q.prompt)
      BY <2>2 DEF MadeFor
    <2>4. StablePrefix(q.prompt) = StablePrefix(r.prompt)
      BY <2>3 DEF Key, CacheKey
    <2>5. StableTokens(tokenizer, q.prompt) = StableTokens(tokenizer, r.prompt)
      BY <2>1, <2>4, RequestFacts, SamePrefixSameTokens
    <2> QED BY <2>1, <2>3, <2>5, RequestFacts, SplitIsExact
  <1> QED BY <1>1, <1>2, <1>3, PTL DEF Spec

\* An entry offered for reuse always carries a KV handle of a non-empty prefix, although
\* every request re-observes its key without one before it executes (put_observation).
THEOREM ReadyEntriesCarryState == Spec => []ReadyHasHandle
  <1>1. Init => IndexInv
    BY IndexBegins
  <1>2. IndexInv /\ [Next]_vars => IndexInv'
    BY IndexStep
  <1>3. IndexInv => ReadyHasHandle
    BY DEF IndexInv, GoodIndex, GoodEntry, MadeFor, ReadyHasHandle
  <1> QED BY <1>1, <1>2, <1>3, PTL DEF Spec

(***************************************************************************)
(* The thread tips                                                         *)
(***************************************************************************)
AnyContent == UNION {Range(Contents(r.prompt)) : r \in Requests}

TipRec == [hashes : {Contents(r.prompt) : r \in Requests}, handle : Handles]

GoodTip(t, x) ==
    /\ x \in TipRec /\ x.handle.ctx.thread = t
    /\ CanClone => /\ x.handle.tokens \in Seq(AnyContent)
                   /\ MonotonicAppend(x.handle.tokens, x.hashes)

GoodTips(f) == f = [t \in DOMAIN f |-> f[t]] /\ \A t \in DOMAIN f : GoodTip(t, f[t])

TipInv == tokenizer \in Tokenizers /\ GoodTips(tips)

\* Every step keeps the tips with their threads.
LEMMA TipStep ==
    ASSUME TipInv, [Next]_vars
    PROVE  TipInv'
  <1>1. tokenizer' = tokenizer
    BY DEF Next, vars, ObserveRequest, Leave, Execute, FlushCache, Load, Unload
  <1>2. ASSUME GoodTips(tips') PROVE TipInv'
    BY <1>1, <1>2 DEF TipInv, GoodTips, GoodTip, CanClone
  <1>3. GoodTips(tips)
    BY DEF TipInv
  <1>4. ASSUME tips' = tips PROVE TipInv'
    BY <1>2, <1>3, <1>4
  <1>5. ASSUME NEW r \in Requests PROVE GoodTips(AfterTip(r))
    BY <1>3 DEF AfterTip, Without, GoodTips
  <1>6. \A r \in Requests : Contents(r.prompt) \in Seq(AnyContent)
    <2> SUFFICES ASSUME NEW r \in Requests PROVE Contents(r.prompt) \in Seq(AnyContent)
      OBVIOUS
    <2>1. Contents(r.prompt) \in Seq(Range(Contents(r.prompt)))
      BY RequestFacts, SegmentFacts
    <2>2. Range(Contents(r.prompt)) \subseteq AnyContent
      BY DEF AnyContent
    <2> QED BY <2>1, <2>2
  <1>7. ASSUME NEW r \in Requests, ContinueSession(r) PROVE TipInv'
    <2> DEFINE t == r.ctx.thread
               x == [tips[t] EXCEPT !.hashes = Contents(r.prompt)]
    <2>1. /\ t \in DOMAIN tips /\ CanClone /\ MonotonicAppend(tips[t].hashes, Contents(r.prompt))
          /\ tips' = [tips EXCEPT ![t] = x]
      BY <1>7 DEF ContinueSession, Continues, Tip
    <2>2. GoodTip(t, tips[t]) /\ tips[t] \in TipRec
      BY <1>3, <2>1 DEF GoodTips, GoodTip
    <2>3. tips[t].hashes \in Seq(AnyContent)
      BY <1>6, <2>2 DEF TipRec
    <2>4. MonotonicAppend(tips[t].handle.tokens, Contents(r.prompt))
      BY <1>6, <2>1, <2>2, <2>3, AppendsCompose DEF GoodTip
    <2>5. x \in TipRec /\ x.handle = tips[t].handle /\ x.hashes = Contents(r.prompt)
      BY <2>2 DEF TipRec
    <2> HIDE DEF x
    <2>6. GoodTip(t, x)
      BY <2>2, <2>4, <2>5 DEF GoodTip
    <2>7. /\ tips' = [u \in DOMAIN tips' |-> tips'[u]] /\ DOMAIN tips' = DOMAIN tips
          /\ tips'[t] = x /\ \A u \in DOMAIN tips : u # t => tips'[u] = tips[u]
      BY <2>1
    <2>8. GoodTips(tips')
      BY <1>3, <2>6, <2>7 DEF GoodTips
    <2> QED BY <1>2, <2>8
  <1>8. ASSUME NEW r \in Requests, Miss(r) PROVE TipInv'
    <2> DEFINE t == r.ctx.thread
               h == [tokens |-> StableTokens(tokenizer, r.prompt), ctx |-> r.ctx]
               x == [hashes |-> Contents(r.prompt), handle |-> h]
    <2>1. CASE tips' = AfterTip(r)
      BY <1>2, <1>5, <2>1
    <2>2. CASE tips' = With(AfterTip(r), t, x)
      <3>1. h \in Handles /\ h.tokens = StableTokens(tokenizer, r.prompt) /\ h.ctx.thread = t
        BY DEF Handles, Contexts, TipInv
      <3> HIDE DEF h
      <3>2. x \in TipRec /\ x.handle = h /\ x.hashes = Contents(r.prompt)
        BY <3>1 DEF TipRec
      <3>3. ASSUME CanClone
            PROVE  h.tokens \in Seq(AnyContent) /\ MonotonicAppend(h.tokens, Contents(r.prompt))
        <4>1. tokenizer # "mlx"
          BY <3>3 DEF CanClone
        <4>2. /\ MonotonicAppend(h.tokens, Contents(r.prompt))
              /\ h.tokens \in Seq(Range(Contents(r.prompt)))
          BY <3>1, <4>1, RequestFacts, SplitIsExact
        <4>3. Range(Contents(r.prompt)) \subseteq AnyContent
          BY DEF AnyContent
        <4> QED BY <4>2, <4>3
      <3> HIDE DEF x
      <3>4. GoodTip(t, x)
        BY <3>1, <3>2, <3>3 DEF GoodTip
      <3> DEFINE f == AfterTip(r)
      <3>5. GoodTips(f)
        BY <1>5
      <3> HIDE DEF f
      <3>6. /\ tips' = [u \in DOMAIN tips' |-> tips'[u]] /\ DOMAIN tips' = DOMAIN f \cup {t}
            /\ tips'[t] = x /\ \A u \in DOMAIN f : u # t => tips'[u] = f[u]
        BY <2>2 DEF With, f
      <3>7. GoodTips(tips')
        BY <3>4, <3>5, <3>6 DEF GoodTips
      <3> QED BY <1>2, <3>7
    <2>3. tips' = AfterTip(r) \/ tips' = With(AfterTip(r), t, x)
      BY <1>8 DEF Miss, TipOwner
    <2> QED BY <2>1, <2>2, <2>3
  <1>9. ASSUME NEW r \in Requests, Hit(r) PROVE TipInv'
    BY <1>2, <1>5, <1>9 DEF Hit
  <1>10. ASSUME NEW r \in Requests, Execute(r) PROVE TipInv'
    BY <1>4, <1>7, <1>8, <1>9, <1>10 DEF Execute
  <1>11. ASSUME NEW r \in Requests, ObserveRequest(r) \/ Leave(r) PROVE TipInv'
    BY <1>4, <1>11 DEF ObserveRequest, Leave
  <1>12. ASSUME NEW scope, NEW sid, FlushCache(scope, sid) PROVE TipInv'
    BY <1>4, <1>12 DEF FlushCache
  <1>13. CASE Load \/ Unload \/ UNCHANGED vars
    BY <1>4, <1>13 DEF Load, Unload, vars
  <1> QED BY <1>10, <1>11, <1>12, <1>13 DEF Next

\* A thread's tip names state that was prefilled for that thread, and a history that
\* extends it, through continuations, edited histories and misses of any number of
\* threads (store_thread_tip, _try_session_continuation).
THEOREM TipsKeepTheirThread == Spec => []TipsStayInThread
  <1>1. Init => TipInv
    <2> SUFFICES ASSUME Init PROVE TipInv
      OBVIOUS
    <2>1. tips = << >> /\ DOMAIN tips = {}
      BY DEF Init
    <2>2. GoodTips(tips)
      BY <2>1 DEF GoodTips
    <2> QED BY <2>2 DEF TipInv, Init
  <1>2. TipInv /\ [Next]_vars => TipInv'
    BY TipStep
  <1>3. TipInv => TipsStayInThread
    BY DEF TipInv, GoodTips, GoodTip, TipsStayInThread
  <1> QED BY <1>1, <1>2, <1>3, PTL DEF Spec

(***************************************************************************)
(* The tables of the index: the LRU list, the limits and the memory         *)
(***************************************************************************)
\* There are n numbers from one to n.
LEMMA FirstNumbers ==
    ASSUME NEW n \in Nat
    PROVE  IsFiniteSet(1..n) /\ Cardinality(1..n) = n
  <1>1. 1 \in Int /\ n \in Int
    OBVIOUS
  <1>2. IsFiniteSet(1..n) /\ Cardinality(1..n) = IF 1 > n THEN 0 ELSE n - 1 + 1
    BY <1>1, FS_Interval
  <1> QED BY <1>2

\* The place of an element in a set of numbers, counted from one.
RankIn(E, s) == Cardinality({t \in E : t <= s})

\* A larger element has a larger rank, and ranks count from one to the size.
LEMMA RankGrows ==
    ASSUME NEW E, E \subseteq Nat, IsFiniteSet(E), NEW s \in E
    PROVE  /\ RankIn(E, s) \in 1..Cardinality(E)
           /\ \A u \in E : s < u => RankIn(E, s) < RankIn(E, u)
  <1> DEFINE Below(u) == {t \in E : t <= u}
  <1>1. ASSUME NEW u \in E
        PROVE  /\ IsFiniteSet(Below(u)) /\ Cardinality(Below(u)) \in Nat
               /\ Cardinality(Below(u)) <= Cardinality(E) /\ u \in Below(u)
    <2>1. Below(u) \subseteq E /\ u \in Nat
      OBVIOUS
    <2>2. u \in Below(u)
      BY <2>1
    <2> QED BY <2>1, <2>2, FS_Subset, FS_CardinalityType
  <1>2. Cardinality(Below(s)) # 0
    BY <1>1, FS_EmptySet
  <1>3. ASSUME NEW u \in E, s < u PROVE Cardinality(Below(s)) < Cardinality(Below(u))
    <2>1. s \in Nat /\ u \in Nat /\ \A t \in E : t \in Nat
      OBVIOUS
    <2>2. Below(s) \subseteq Below(u) /\ u \notin Below(s)
      <3>1. ASSUME NEW t \in E, t <= s PROVE t <= u
        BY <1>3, <2>1, <3>1
      <3>2. ~(u <= s)
        BY <1>3, <2>1
      <3> QED BY <3>1, <3>2
    <2>3. /\ Cardinality(Below(s)) <= Cardinality(Below(u))
          /\ Cardinality(Below(u)) = Cardinality(Below(s)) => Below(u) = Below(s)
      BY <1>1, <2>2, FS_Subset
    <2> HIDE DEF Below
    <2> QED BY <1>1, <2>2, <2>3
  <1>4. Cardinality(E) \in Nat
    BY FS_CardinalityType
  <1>5. \A u : RankIn(E, u) = Cardinality(Below(u))
    BY DEF RankIn
  <1> HIDE DEF Below
  <1> QED BY <1>1, <1>2, <1>3, <1>4, <1>5

\* Every rank up to the size of the set is the rank of one of its elements.
LEMMA RankExists ==
    ASSUME NEW E, E \subseteq Nat, IsFiniteSet(E), NEW k \in 1..Cardinality(E)
    PROVE  \E s \in E : RankIn(E, s) = k
  <1> DEFINE f == [s \in E |-> RankIn(E, s)]
             N == 1..Cardinality(E)
  <1>1. Cardinality(E) \in Nat
    BY FS_CardinalityType
  <1>2. f \in [E -> N]
    BY RankGrows
  <1>3. ASSUME NEW s \in E, NEW u \in E, f[s] = f[u] PROVE s = u
    <2>1. RankIn(E, s) = RankIn(E, u) /\ s \in Nat /\ u \in Nat
      BY <1>3
    <2>2. RankIn(E, s) \in 1..Cardinality(E) /\ (s < u => RankIn(E, s) < RankIn(E, u))
      BY RankGrows
    <2>3. u < s => RankIn(E, u) < RankIn(E, s)
      BY RankGrows
    <2> QED BY <1>1, <2>1, <2>2, <2>3
  <1>4. f \in Injection(E, N)
    BY <1>2, <1>3 DEF Injection, IsInjective
  <1>5. IsFiniteSet(N) /\ Cardinality(N) = Cardinality(E)
    BY <1>1, FirstNumbers
  <1>6. f \in Surjection(E, N)
    BY <1>4, <1>5, FS_Injection
  <1> QED BY <1>6 DEF Surjection

\* Removing keys from a list without repetitions leaves a list of the others,
\* without repetitions.
LEMMA KeptFacts ==
    ASSUME NEW q \in Seq(Keys), IsInjective(q), NEW S
    PROVE  /\ Kept(q, S) \in Seq(Keys) /\ IsInjective(Kept(q, S))
           /\ Range(Kept(q, S)) = Range(q) \cap S
  <1> DEFINE at == {i \in DOMAIN q : q[i] \in S}
             N == Cardinality(at)
             Pos(n) == CHOOSE i \in at : RankIn(at, i) = n
             kept == [n \in 1..N |-> q[Pos(n)]]
  <1>1. DOMAIN q = 1..Len(q) /\ Len(q) \in Nat /\ \A i \in DOMAIN q : q[i] \in Keys
    OBVIOUS
  <1>2. at \subseteq Nat /\ IsFiniteSet(at)
    <2>1. IsFiniteSet(1..Len(q)) /\ at \subseteq 1..Len(q)
      BY <1>1, FirstNumbers
    <2> QED BY <1>1, <2>1, FS_Subset
  <1>3. N \in Nat
    BY <1>2, FS_CardinalityType
  <1>4. Kept(q, S) = kept
    BY DEF Kept, RankIn
  <1>5. at \subseteq DOMAIN q /\ \A i \in at : q[i] \in S
    OBVIOUS
  <1>5a. \A i \in DOMAIN q : q[i] \in S => i \in at
    OBVIOUS
  <1> HIDE DEF at
  <1>6. ASSUME NEW n \in 1..N PROVE Pos(n) \in at /\ RankIn(at, Pos(n)) = n
    <2>1. \E i \in at : RankIn(at, i) = n
      BY <1>2, RankExists
    <2> QED BY <2>1
  <1>7. ASSUME NEW i \in at PROVE RankIn(at, i) \in 1..N /\ Pos(RankIn(at, i)) = i
    <2>1. RankIn(at, i) \in 1..N
      BY <1>2, RankGrows
    <2> DEFINE j == Pos(RankIn(at, i))
    <2>2. j \in at /\ RankIn(at, j) = RankIn(at, i)
      BY <1>6, <2>1
    <2> HIDE DEF j
    <2>3. (i < j => RankIn(at, i) < RankIn(at, j)) /\ (j < i => RankIn(at, j) < RankIn(at, i))
      BY <1>2, <2>2, RankGrows
    <2>4. i \in Nat /\ j \in Nat /\ RankIn(at, i) \in Nat
      BY <1>2, <1>3, <2>1, <2>2
    <2> QED BY <2>1, <2>2, <2>3, <2>4 DEF j
  <1> HIDE DEF Pos
  <1>8. DOMAIN kept = 1..N /\ \A n \in 1..N : kept[n] = q[Pos(n)] /\ kept[n] \in Keys
    BY <1>1, <1>5, <1>6
  <1>9. kept \in Seq(Keys)
    BY <1>3, <1>8
  <1> HIDE DEF kept
  <1>10. IsInjective(kept)
    <2> SUFFICES ASSUME NEW a \in 1..N, NEW b \in 1..N, kept[a] = kept[b] PROVE a = b
      BY <1>8 DEF IsInjective
    <2>1. Pos(a) \in DOMAIN q /\ Pos(b) \in DOMAIN q /\ q[Pos(a)] = q[Pos(b)]
      BY <1>5, <1>6, <1>8
    <2>2. Pos(a) = Pos(b)
      BY <2>1 DEF IsInjective
    <2> QED BY <1>6, <2>2
  <1>11. ASSUME NEW x \in Range(kept) PROVE x \in Range(q) /\ x \in S
    <2>1. PICK n \in 1..N : x = q[Pos(n)]
      BY <1>8 DEF Range
    <2> QED BY <1>5, <1>6, <2>1 DEF Range
  <1>12. ASSUME NEW x \in Range(q), x \in S PROVE x \in Range(kept)
    <2>1. PICK i \in DOMAIN q : x = q[i]
      BY DEF Range
    <2>2. i \in at
      BY <1>5a, <1>12, <2>1
    <2>3. RankIn(at, i) \in 1..N /\ kept[RankIn(at, i)] = x
      BY <1>7, <1>8, <2>1, <2>2
    <2> QED BY <1>8, <2>3 DEF Range
  <1> QED BY <1>4, <1>9, <1>10, <1>11, <1>12

\* A key that the list does not name goes to its end.
LEMMA AppendFacts ==
    ASSUME NEW q \in Seq(Keys), IsInjective(q), NEW k \in Keys, k \notin Range(q)
    PROVE  /\ Append(q, k) \in Seq(Keys) /\ IsInjective(Append(q, k))
           /\ Range(Append(q, k)) = Range(q) \cup {k}
  <1> DEFINE p == Append(q, k)
             n == Len(q)
  <1>1. /\ n \in Nat /\ DOMAIN q = 1..n /\ p \in Seq(Keys) /\ DOMAIN p = 1..(n + 1)
        /\ p[n + 1] = k /\ \A i \in 1..n : p[i] = q[i]
    OBVIOUS
  <1> HIDE DEF p, n
  <1>2. \A i \in 1..n : q[i] # k
    BY <1>1 DEF Range
  <1>3. \A i \in 1..(n + 1) : i \in 1..n \/ i = n + 1
    BY <1>1
  <1>4. IsInjective(p)
    <2> SUFFICES ASSUME NEW a \in 1..(n + 1), NEW b \in 1..(n + 1), p[a] = p[b] PROVE a = b
      BY <1>1 DEF IsInjective
    <2>1. CASE a \in 1..n /\ b \in 1..n
      BY <1>1, <2>1 DEF IsInjective
    <2> QED BY <1>1, <1>2, <1>3, <2>1
  <1>5. Range(p) = Range(q) \cup {k}
    <2>1. \A i \in 1..n : i \in 1..(n + 1)
      BY <1>1
    <2>2. n + 1 \in 1..(n + 1)
      BY <1>1
    <2> QED BY <1>1, <1>3, <2>1, <2>2 DEF Range
  <1> QED BY <1>1, <1>4, <1>5 DEF p

\* A key's entry counts the tokens of the key's own prefix.
Counts(k, n) == \E r \in Requests : Key(r) = k /\ n = StableLen(r.prompt)

\* The tables agree: the list names the entries once, and they fit.
Tables(es, q) ==
    /\ q \in Seq(Keys) /\ IsInjective(q) /\ Range(q) = DOMAIN es
    /\ IsFiniteSet(DOMAIN es) /\ IsFiniteSet(Units(es)) /\ Fits(es)
    /\ \A k \in DOMAIN es : Counts(k, es[k].tokens)

\* All requests with a key have as many stable tokens.
LEMMA CountsAgree ==
    ASSUME NEW r \in Requests, NEW n, Counts(Key(r), n)
    PROVE  n = StableLen(r.prompt)
  <1>1. PICK x \in Requests : Key(x) = Key(r) /\ n = StableLen(x.prompt)
    BY DEF Counts
  <1>2. StablePrefix(x.prompt) = StablePrefix(r.prompt)
    BY <1>1 DEF Key, CacheKey
  <1>3. ASSUME NEW p, p.msgs \in Seq([role : STRING, text : STRING])
        PROVE  Len(StablePrefix(p)) = StableLen(p)
    <2>1. StableLen(p) \in 0..Size(p) /\ Size(p) \in Nat
      BY <1>3, SegmentFacts, StableLenType
    <2>2. Segments(p) \in Seq(Range(Segments(p))) /\ Len(Segments(p)) = Size(p)
      BY <1>3, SegmentFacts
    <2> DEFINE m == StableLen(p)
               segs == Segments(p)
    <2> HIDE DEF m, segs
    <2>3. Len(SubSeq(segs, 1, m)) = m
      BY <2>1, <2>2 DEF m, segs
    <2> QED BY <2>3 DEF StablePrefix, m, segs
  <1>4. x.prompt.msgs \in Seq([role : STRING, text : STRING]) /\ r.prompt.msgs \in Seq([role : STRING, text : STRING])
    BY RequestFacts
  <1> QED BY <1>1, <1>2, <1>3, <1>4

\* The memory depends on nothing but the keys and their token counts, and a part of
\* the entries takes no more than all of them.
LEMMA UnitsFacts ==
    ASSUME NEW es, NEW fs, DOMAIN fs \subseteq DOMAIN es,
           \A k \in DOMAIN fs : fs[k].tokens = es[k].tokens
    PROVE  Units(fs) \subseteq Units(es) /\ (DOMAIN fs = DOMAIN es => Units(fs) = Units(es))
  <1>1. ASSUME NEW u \in Units(fs) PROVE u \in Units(es)
    <2>1. PICK k \in DOMAIN fs : u \in {k} \X (1..fs[k].tokens)
      BY DEF Units
    <2> QED BY <2>1 DEF Units
  <1>2. ASSUME DOMAIN fs = DOMAIN es, NEW u \in Units(es) PROVE u \in Units(fs)
    <2>1. PICK k \in DOMAIN es : u \in {k} \X (1..es[k].tokens)
      BY DEF Units
    <2> QED BY <1>2, <2>1 DEF Units
  <1> QED BY <1>1, <1>2

\* Any part of entries that fit, fits.
LEMMA PartFits ==
    ASSUME NEW es, NEW fs, DOMAIN fs \subseteq DOMAIN es,
           \A k \in DOMAIN fs : fs[k].tokens = es[k].tokens,
           IsFiniteSet(DOMAIN es), IsFiniteSet(Units(es))
    PROVE  /\ IsFiniteSet(DOMAIN fs) /\ IsFiniteSet(Units(fs))
           /\ Fits(es) => Fits(fs)
  <1>1. Units(fs) \subseteq Units(es)
    BY UnitsFacts
  <1>2. /\ IsFiniteSet(DOMAIN fs) /\ Cardinality(DOMAIN fs) <= Cardinality(DOMAIN es)
        /\ IsFiniteSet(Units(fs)) /\ Cardinality(Units(fs)) <= Cardinality(Units(es))
    BY <1>1, FS_Subset
  <1>3. /\ Cardinality(DOMAIN fs) \in Nat /\ Cardinality(DOMAIN es) \in Nat
        /\ Cardinality(Units(fs)) \in Nat /\ Cardinality(Units(es)) \in Nat
        /\ MaxEntries \in Nat /\ MaxTokens \in Nat
    BY <1>2, FS_CardinalityType, ThreadWakeAssumption
  <1> QED BY <1>2, <1>3 DEF Fits

\* _promote_lru keeps the tables.
LEMMA PromoteTables ==
    ASSUME NEW es, NEW q, Tables(es, q), NEW k \in DOMAIN es, k \in Keys
    PROVE  Tables(es, Promote(k, q))
  <1> DEFINE p == Kept(q, Range(q) \ {k})
  <1>1. p \in Seq(Keys) /\ IsInjective(p) /\ Range(p) = Range(q) \ {k}
    BY KeptFacts DEF Tables
  <1> HIDE DEF p
  <1>2. /\ Append(p, k) \in Seq(Keys) /\ IsInjective(Append(p, k))
        /\ Range(Append(p, k)) = Range(p) \cup {k}
    BY <1>1, AppendFacts
  <1>3. Promote(k, q) = Append(p, k) /\ Range(q) = DOMAIN es
    BY DEF Promote, p, Tables
  <1> QED BY <1>1, <1>2, <1>3 DEF Tables

\* Entries that keep their keys and token counts keep the tables.
LEMMA UpdateTables ==
    ASSUME NEW es, NEW fs, NEW q, Tables(es, q), DOMAIN fs = DOMAIN es,
           \A k \in DOMAIN es : fs[k].tokens = es[k].tokens
    PROVE  Tables(fs, q)
  BY PartFits DEF Tables

\* flush keeps the tables.
LEMMA FlushTables ==
    ASSUME NEW es, NEW q, Tables(es, q), NEW keep, keep \subseteq DOMAIN es
    PROVE  Tables([k \in keep |-> es[k]], Kept(q, keep))
  <1> DEFINE fs == [k \in keep |-> es[k]]
  <1>1. DOMAIN fs = keep /\ \A k \in keep : fs[k] = es[k]
    OBVIOUS
  <1> HIDE DEF fs
  <1>2. IsFiniteSet(DOMAIN fs) /\ IsFiniteSet(Units(fs)) /\ Fits(fs)
    BY <1>1, PartFits DEF Tables
  <1>3. Kept(q, keep) \in Seq(Keys) /\ IsInjective(Kept(q, keep)) /\ Range(Kept(q, keep)) = keep
    <2>1. q \in Seq(Keys) /\ IsInjective(q) /\ Range(q) = DOMAIN es
      BY DEF Tables
    <2>2. /\ Kept(q, keep) \in Seq(Keys) /\ IsInjective(Kept(q, keep))
          /\ Range(Kept(q, keep)) = Range(q) \cap keep
      BY <2>1, KeptFacts
    <2>3. Range(q) \cap keep = keep
      BY <2>1
    <2> QED BY <2>2, <2>3
  <1>4. \A k \in DOMAIN fs : Counts(k, fs[k].tokens)
    BY <1>1 DEF Tables
  <1>5. Tables(fs, Kept(q, keep))
    BY <1>1, <1>2, <1>3, <1>4 DEF Tables
  <1> QED BY <1>5 DEF fs

\* What _evict_if_needed drops is a prefix of the list, and it stops when the rest fits
\* or nothing is left.
LEMMA EvictedFacts ==
    ASSUME NEW es, NEW q \in Seq(Keys)
    PROVE  /\ Evicted(es, q) \in 0..Len(q)
           /\ Evicted(es, q) = Len(q) \/ Fits(After(es, q, Evicted(es, q)))
  <1> DEFINE Stops(n) == n = Len(q) \/ Fits(After(es, q, n))
             T == {n \in 0..Len(q) : Stops(n)}
  <1>1. Len(q) \in Nat /\ Len(q) \in 0..Len(q)
    OBVIOUS
  <1>2. T \subseteq Nat /\ T # {}
    BY <1>1
  <1>3. PICK n \in T : \A m \in T : n <= m
    <2> HIDE DEF T
    <2> QED BY <1>2, LeastNumber
  <1>4. n \in 0..Len(q) /\ Stops(n)
    OBVIOUS
  <1>5. \A m \in 0..(n - 1) : ~Stops(m)
    <2> SUFFICES ASSUME NEW m \in 0..(n - 1), Stops(m) PROVE FALSE
      OBVIOUS
    <2>1. m \in 0..Len(q) /\ ~(n <= m)
      BY <1>1, <1>4
    <2> QED BY <1>3, <2>1
  <1>6. Evicted(es, q) = CHOOSE x \in 0..Len(q) : Stops(x) /\ \A m \in 0..(x - 1) : ~Stops(m)
    BY DEF Evicted
  <1> HIDE DEF Stops
  <1>7. Evicted(es, q) \in 0..Len(q) /\ Stops(Evicted(es, q))
    BY <1>4, <1>5, <1>6
  <1> QED BY <1>7 DEF Stops

\* A list without repetitions, cut in two: the second part names what the first does not.
LEMMA CutFacts ==
    ASSUME NEW q \in Seq(Keys), IsInjective(q), NEW n \in 0..Len(q)
    PROVE  /\ SubSeq(q, n + 1, Len(q)) \in Seq(Keys) /\ IsInjective(SubSeq(q, n + 1, Len(q)))
           /\ Range(SubSeq(q, n + 1, Len(q))) = Range(q) \ Range(SubSeq(q, 1, n))
           /\ n = Len(q) => Range(SubSeq(q, 1, n)) = Range(q)
  <1> DEFINE a == SubSeq(q, 1, n)
             b == SubSeq(q, n + 1, Len(q))
             L == Len(q)
  <1>1. L \in Nat /\ n \in Nat /\ n <= L /\ DOMAIN q = 1..L /\ \A i \in 1..L : q[i] \in Keys
    OBVIOUS
  <1>2. DOMAIN a = 1..n /\ \A i \in 1..n : a[i] = q[i]
    BY <1>1
  <1>3. /\ b \in Seq(Keys) /\ DOMAIN b = 1..(L - n)
        /\ \A i \in 1..(L - n) : b[i] = q[n + i] /\ n + i \in 1..L
    <2>1. \A j \in (n + 1)..L : q[j] \in Keys
      BY <1>1
    <2>2. /\ b \in Seq(Keys) /\ Len(b) = IF n + 1 <= L THEN L - (n + 1) + 1 ELSE 0
          /\ \A i \in 1..(L - (n + 1) + 1) : b[i] = q[(n + 1) + i - 1]
      BY <1>1, <2>1, SubSeqProperties
    <2> HIDE DEF b, L
    <2>3. Len(b) = L - n /\ \A i \in 1..(L - n) : n + i \in 1..L /\ (n + 1) + i - 1 = n + i
      BY <1>1, <2>2
    <2>4. L - (n + 1) + 1 = L - n
      BY <1>1
    <2> QED BY <2>2, <2>3, <2>4
  <1> HIDE DEF a, b, L
  <1>4. IsInjective(b)
    <2> SUFFICES ASSUME NEW i \in 1..(L - n), NEW j \in 1..(L - n), b[i] = b[j] PROVE i = j
      BY <1>3 DEF IsInjective
    <2>1. n + i = n + j
      BY <1>1, <1>3 DEF IsInjective
    <2> QED BY <1>1, <2>1
  <1>5. ASSUME NEW x \in Range(b) PROVE x \in Range(q) /\ x \notin Range(a)
    <2>1. PICK i \in 1..(L - n) : x = q[n + i] /\ n + i \in 1..L
      BY <1>3 DEF Range
    <2>2. ASSUME NEW j \in 1..n, x = a[j] PROVE FALSE
      <3>1. j \in 1..L /\ q[j] = q[n + i]
        BY <1>1, <1>2, <2>1, <2>2
      <3>2. j = n + i
        BY <1>1, <2>1, <3>1 DEF IsInjective
      <3> QED BY <1>1, <3>2
    <2> QED BY <1>1, <1>2, <2>1, <2>2 DEF Range
  <1>6. ASSUME NEW x \in Range(q), x \notin Range(a) PROVE x \in Range(b)
    <2>1. PICK j \in 1..L : x = q[j]
      BY <1>1 DEF Range
    <2>2. j \notin 1..n
      BY <1>2, <1>6, <2>1 DEF Range
    <2>3. j - n \in 1..(L - n) /\ n + (j - n) = j
      BY <1>1, <2>2
    <2>4. b[j - n] = x
      BY <1>3, <2>1, <2>3
    <2> QED BY <1>3, <2>3, <2>4 DEF Range
  <1>7. ASSUME n = L PROVE Range(a) = Range(q)
    BY <1>1, <1>2, <1>7 DEF Range
  <1> QED BY <1>3, <1>4, <1>5, <1>6, <1>7 DEF a, b, L

\* No entries fit, whatever the limits.
LEMMA EmptyFits ==
    ASSUME NEW es, DOMAIN es = {}
    PROVE  Units(es) = {} /\ Fits(es)
  <1>1. Units(es) = {}
    BY DEF Units
  <1> QED BY <1>1, FS_EmptySet, ThreadWakeAssumption DEF Fits

\* put_observation keeps the tables, whether it updates in place or inserts and evicts.
LEMMA PutTables ==
    ASSUME NEW es, NEW lq, Tables(es, lq), GoodIndex(es), NEW r \in Requests, NEW h
    PROVE  Tables(Put([es |-> es, q |-> lq], r, h).es, Put([es |-> es, q |-> lq], r, h).q)
  <1> DEFINE k == Key(r)
             new == [status |-> "observed", sid |-> ScopeId(r.scope, r.ctx), handle |-> h,
                     tokens |-> StableLen(r.prompt)]
             put == Put([es |-> es, q |-> lq], r, h)
  <1>1. k \in Keys /\ StableLen(r.prompt) \in Nat
    BY RequestFacts
  <1>2. CASE k \in DOMAIN es
    <2> DEFINE e == es[k]
               f == [e EXCEPT !.sid = ScopeId(r.scope, r.ctx), !.tokens = StableLen(r.prompt),
                              !.handle = IF h = NoValue THEN e.handle ELSE h]
               fs == [es EXCEPT ![k] = f]
    <2>1. put.es = fs /\ put.q = Promote(k, lq)
      BY <1>2 DEF Put
    <2>2. e \in EntryRec /\ e.tokens = StableLen(r.prompt)
      BY <1>2, CountsAgree DEF Tables, GoodIndex, GoodEntry
    <2>3. f.tokens = e.tokens
      BY <2>2 DEF EntryRec
    <2> HIDE DEF f
    <2>4. DOMAIN fs = DOMAIN es /\ \A x \in DOMAIN es : fs[x].tokens = es[x].tokens
      BY <1>2, <2>3
    <2> HIDE DEF fs
    <2>5. Tables(fs, lq)
      BY <2>4, UpdateTables
    <2>6. Tables(fs, Promote(k, lq))
      BY <1>1, <1>2, <2>4, <2>5, PromoteTables
    <2> QED BY <2>1, <2>6
  <1>3. CASE k \notin DOMAIN es
    <2> DEFINE all == With(es, k, new)
               q == Append(lq, k)
               n == Evicted(all, q)
               left == After(all, q, n)
    <2>1. put.es = left /\ put.q = SubSeq(q, n + 1, Len(q))
      BY <1>3 DEF Put
    <2>2. /\ DOMAIN all = DOMAIN es \cup {k} /\ all[k].tokens = StableLen(r.prompt)
          /\ \A x \in DOMAIN es : all[x] = es[x]
      BY <1>3 DEF With
    <2> HIDE DEF all, new
    <2>3. q \in Seq(Keys) /\ IsInjective(q) /\ Range(q) = DOMAIN all
      BY <1>1, <1>3, <2>2, AppendFacts DEF Tables
    <2> HIDE DEF q
    <2>4. IsFiniteSet(DOMAIN all)
      BY <2>2, FS_AddElement DEF Tables
    <2>5. IsFiniteSet(Units(all))
      <3> DEFINE U == {k} \X (1..StableLen(r.prompt))
      <3>1. IsFiniteSet(U)
        <4>1. IsFiniteSet({k}) /\ IsFiniteSet(1..StableLen(r.prompt))
          BY <1>1, FirstNumbers, FS_Singleton
        <4> QED BY <4>1, FS_Product
      <3>2. Units(all) = Units(es) \cup U
        <4>1. ASSUME NEW u \in Units(all) PROVE u \in Units(es) \cup U
          <5>1. PICK x \in DOMAIN all : u \in {x} \X (1..all[x].tokens)
            BY DEF Units
          <5> QED BY <2>2, <5>1 DEF Units
        <4>2. ASSUME NEW u \in Units(es) PROVE u \in Units(all)
          <5>1. PICK x \in DOMAIN es : u \in {x} \X (1..es[x].tokens)
            BY DEF Units
          <5> QED BY <2>2, <5>1 DEF Units
        <4>3. U \subseteq Units(all)
          BY <2>2 DEF Units
        <4> QED BY <4>1, <4>2, <4>3
      <3> HIDE DEF U
      <3> QED BY <3>1, <3>2, FS_Union DEF Tables
    <2>6. n \in 0..Len(q) /\ (n = Len(q) \/ Fits(left))
      BY <2>3, EvictedFacts
    <2> HIDE DEF n
    <2> DEFINE gone == Range(SubSeq(q, 1, n))
               rest == SubSeq(q, n + 1, Len(q))
    <2>7. rest \in Seq(Keys) /\ IsInjective(rest) /\ Range(rest) = Range(q) \ gone
      BY <2>3, <2>6, CutFacts
    <2>8. DOMAIN left = DOMAIN all \ gone /\ \A x \in DOMAIN left : left[x] = all[x]
      BY DEF After
    <2>9. n = Len(q) => gone = DOMAIN all
      BY <2>3, <2>6, CutFacts
    <2> HIDE DEF gone, rest, left
    <2>10. Fits(left)
      <3>1. CASE n = Len(q)
        <4>1. DOMAIN left = {}
          BY <2>8, <2>9, <3>1
        <4> QED BY <4>1, EmptyFits
      <3> QED BY <2>6, <3>1
    <2>11. IsFiniteSet(DOMAIN left) /\ IsFiniteSet(Units(left))
      BY <2>4, <2>5, <2>8, PartFits
    <2>12. ASSUME NEW x \in DOMAIN left PROVE Counts(x, left[x].tokens)
      <3>1. CASE x = k
        <4>1. left[x].tokens = StableLen(r.prompt)
          BY <2>2, <2>8, <3>1
        <4> QED BY <3>1, <4>1 DEF Counts
      <3>2. CASE x # k
        <4>1. x \in DOMAIN es /\ left[x] = es[x]
          BY <2>2, <2>8, <3>2
        <4> QED BY <4>1 DEF Tables
      <3> QED BY <3>1, <3>2
    <2>13. Tables(left, rest)
      BY <2>3, <2>7, <2>8, <2>10, <2>11, <2>12 DEF Tables
    <2> QED BY <2>1, <2>13 DEF rest
  <1> QED BY <1>2, <1>3

\* Everything the index keeps, and what it is keyed by.
IndexTables ==
    /\ IndexInv /\ TipInv /\ Tables(entries, lru)
    /\ wired \in BOOLEAN /\ DOMAIN tips \subseteq Threads /\ pending \subseteq Requests

\* get() keeps the tables.
LEMMA LookedTables ==
    ASSUME NEW r \in Requests, Tables(entries, lru)
    PROVE  Looked(r) = [es |-> entries, q |-> Looked(r).q] /\ Tables(entries, Looked(r).q)
  <1>1. Looked(r) = [es |-> entries, q |-> Looked(r).q]
    BY DEF Looked
  <1>2. CASE Found(r)
    <2>1. Looked(r).q = Promote(Key(r), lru)
      BY <1>2 DEF Looked
    <2>2. Key(r) \in DOMAIN entries /\ Key(r) \in Keys
      BY <1>2, RequestFacts DEF Found
    <2> QED BY <1>1, <2>1, <2>2, PromoteTables
  <1>3. CASE ~Found(r)
    BY <1>1, <1>3 DEF Looked
  <1> QED BY <1>2, <1>3

\* Another status keeps the tables.
LEMMA StatusTables ==
    ASSUME NEW es, NEW q, Tables(es, q), GoodIndex(es), NEW k \in DOMAIN es, NEW st
    PROVE  Tables([es EXCEPT ![k].status = st], q)
  <1> DEFINE f == [es[k] EXCEPT !.status = st]
             fs == [es EXCEPT ![k] = f]
  <1>1. es[k] \in EntryRec
    BY DEF GoodIndex, GoodEntry
  <1>2. f.tokens = es[k].tokens
    BY <1>1 DEF EntryRec
  <1>3. [es EXCEPT ![k].status = st] = fs
    OBVIOUS
  <1> HIDE DEF f
  <1>4. DOMAIN fs = DOMAIN es /\ \A x \in DOMAIN es : fs[x].tokens = es[x].tokens
    BY <1>2
  <1> HIDE DEF fs
  <1> QED BY <1>3, <1>4, UpdateTables

\* Every step keeps the tables.
LEMMA TablesStep ==
    ASSUME IndexInv, Tables(entries, lru), [Next]_vars
    PROVE  Tables(entries', lru')
  <1>1. GoodIndex(entries)
    BY DEF IndexInv
  <1>2. ASSUME UNCHANGED <<entries, lru>> PROVE Tables(entries', lru')
    BY <1>2
  <1>3. ASSUME NEW ix, Tables(ix.es, ix.q), SetIndex(ix) PROVE Tables(entries', lru')
    BY <1>3 DEF SetIndex
  <1>4. ASSUME NEW r \in Requests, ObserveRequest(r) PROVE Tables(entries', lru')
    <2> DEFINE ix == Put([es |-> entries, q |-> lru], r, NoValue)
    <2>1. Tables(ix.es, ix.q)
      BY <1>1, PutTables
    <2> HIDE DEF ix
    <2>2. CASE SetIndex(ix)
      BY <1>3, <2>1, <2>2
    <2>3. CASE UNCHANGED <<entries, lru>>
      BY <1>2, <2>3
    <2> QED BY <1>4, <2>2, <2>3 DEF ObserveRequest, ix
  <1>5. ASSUME NEW r \in Requests, Hit(r) PROVE Tables(entries', lru')
    <2> DEFINE stale == [entries EXCEPT ![Key(r)].status = "stale"]
    <2>1. Key(r) \in DOMAIN entries
      BY <1>5 DEF Hit, IsReady, Found
    <2>2. Looked(r) = [es |-> entries, q |-> Looked(r).q] /\ Tables(entries, Looked(r).q)
      BY LookedTables
    <2>3. Tables(stale, Looked(r).q)
      BY <1>1, <2>1, <2>2, StatusTables
    <2>4. CASE SetIndex(Looked(r))
      BY <2>2, <2>4 DEF SetIndex
    <2>5. CASE SetIndex([Looked(r) EXCEPT !.es[Key(r)].status = "stale"])
      <3>1. [Looked(r) EXCEPT !.es[Key(r)].status = "stale"] = [es |-> stale, q |-> Looked(r).q]
        BY <2>2
      <3> HIDE DEF stale
      <3> QED BY <2>3, <2>5, <3>1 DEF SetIndex
    <2> QED BY <1>5, <2>4, <2>5 DEF Hit
  <1>6. ASSUME NEW r \in Requests, Miss(r) PROVE Tables(entries', lru')
    <2> DEFINE h == [tokens |-> StableTokens(tokenizer, r.prompt), ctx |-> r.ctx]
               put == Put(Looked(r), r, h)
    <2>1. Looked(r) = [es |-> entries, q |-> Looked(r).q] /\ Tables(entries, Looked(r).q)
      BY LookedTables
    <2>2. CASE SetIndex(Looked(r))
      BY <2>1, <2>2 DEF SetIndex
    <2>3. CASE h.tokens # << >> /\ SetIndex(MarkReady(put, Key(r)))
      <3>1. h \in Handles /\ h.tokens = StableTokens(tokenizer, r.prompt)
        BY DEF Handles, Contexts, IndexInv
      <3>2. MadeFor(Key(r), h)
        BY <2>3, <3>1 DEF MadeFor
      <3> HIDE DEF h
      <3> DEFINE lq == Looked(r).q
      <3>3. put = Put([es |-> entries, q |-> lq], r, h)
        BY <2>1
      <3>4. Tables(entries, lq)
        BY <2>1
      <3> HIDE DEF put, lq
      <3>5. Tables(put.es, put.q)
        BY <1>1, <3>3, <3>4, PutTables
      <3>6. GoodIndex(put.es)
        BY <1>1, <3>2, <3>3, PutGood
      <3>7. CASE Key(r) \in DOMAIN put.es
        <4>1. MarkReady(put, Key(r)) =
                [es |-> [put.es EXCEPT ![Key(r)].status = "ready"], q |-> Promote(Key(r), put.q)]
          BY <3>7 DEF MarkReady
        <4>2. Tables(put.es, Promote(Key(r), put.q))
          BY <3>5, <3>7, PromoteTables, RequestFacts
        <4>3. Tables([put.es EXCEPT ![Key(r)].status = "ready"], Promote(Key(r), put.q))
          BY <3>6, <3>7, <4>2, StatusTables
        <4> QED BY <2>3, <4>1, <4>3 DEF SetIndex
      <3>8. CASE Key(r) \notin DOMAIN put.es
        BY <2>3, <3>5, <3>8 DEF MarkReady, SetIndex
      <3> QED BY <3>7, <3>8
    <2> QED BY <1>6, <2>2, <2>3 DEF Miss
  <1>7. ASSUME NEW r \in Requests, Execute(r) PROVE Tables(entries', lru')
    BY <1>2, <1>5, <1>6, <1>7 DEF Execute, ContinueSession
  <1>8. ASSUME NEW scope, NEW sid, FlushCache(scope, sid) PROVE Tables(entries', lru')
    <2>1. PICK keep : /\ keep \subseteq DOMAIN entries /\ entries' = [k \in keep |-> entries[k]]
                      /\ lru' = Kept(lru, keep)
      BY <1>8 DEF FlushCache
    <2> QED BY <2>1, FlushTables
  <1>9. ASSUME NEW r \in Requests, Leave(r) PROVE Tables(entries', lru')
    BY <1>2, <1>9 DEF Leave
  <1>10. CASE Load \/ Unload \/ UNCHANGED vars
    BY <1>2, <1>10 DEF Load, Unload, vars
  <1> QED BY <1>4, <1>7, <1>8, <1>9, <1>10 DEF Next

\* Every step keeps tips to named threads, and what waits to requests.
LEMMA DomainsStep ==
    ASSUME DOMAIN tips \subseteq Threads, pending \subseteq Requests, wired \in BOOLEAN, [Next]_vars
    PROVE  DOMAIN tips' \subseteq Threads /\ pending' \subseteq Requests /\ wired' \in BOOLEAN
  <1>1. pending' \subseteq Requests /\ wired' \in BOOLEAN
    BY DEF Next, vars, ObserveRequest, Leave, Execute, FlushCache, Load, Unload
  <1>2. ASSUME NEW r \in Requests PROVE DOMAIN AfterTip(r) \subseteq Threads
    BY <1>2 DEF AfterTip, Without
  <1>3. ASSUME NEW r \in Requests, Miss(r) PROVE DOMAIN tips' \subseteq Threads
    <2>1. CASE tips' = AfterTip(r)
      BY <1>2, <2>1
    <2>2. ASSUME NEW tip, Chains(r), tips' = With(AfterTip(r), r.ctx.thread, tip)
          PROVE  DOMAIN tips' \subseteq Threads
      <3>1. r.ctx.thread \in Threads
        BY <2>2 DEF Chains, Threads, Contexts
      <3>2. DOMAIN tips' = DOMAIN AfterTip(r) \cup {r.ctx.thread}
        BY <2>2 DEF With
      <3> QED BY <1>2, <3>1, <3>2
    <2> QED BY <1>3, <2>1, <2>2 DEF Miss, TipOwner
  <1>4. ASSUME NEW r \in Requests, Hit(r) PROVE DOMAIN tips' \subseteq Threads
    BY <1>2, <1>4 DEF Hit
  <1>5. ASSUME NEW r \in Requests, ContinueSession(r) PROVE DOMAIN tips' \subseteq Threads
    BY <1>5 DEF ContinueSession
  <1>6. ASSUME NEW r \in Requests, Execute(r) PROVE DOMAIN tips' \subseteq Threads
    BY <1>3, <1>4, <1>5, <1>6 DEF Execute
  <1>7. DOMAIN tips' \subseteq Threads
    BY <1>6 DEF Next, vars, ObserveRequest, Leave, FlushCache, Load, Unload
  <1> QED BY <1>1, <1>7

\* The tables agree at the start.
LEMMA TablesBegin ==
    ASSUME Init
    PROVE  IndexTables
  <1>1. entries = << >> /\ lru = << >> /\ tips = << >> /\ DOMAIN entries = {} /\ DOMAIN tips = {}
    BY DEF Init
  <1>2. IndexInv
    BY IndexBegins
  <1>3. TipInv
    BY <1>1 DEF TipInv, GoodTips, Init
  <1>4. lru \in Seq(Keys) /\ IsInjective(lru) /\ Range(lru) = {}
    BY <1>1 DEF IsInjective, Range
  <1>5. Tables(entries, lru)
    BY <1>1, <1>4, EmptyFits, FS_EmptySet DEF Tables
  <1> QED BY <1>1, <1>2, <1>3, <1>5 DEF IndexTables, Init

\* The index's tables agree between any two calls, for every set of requests and every
\* limit: the LRU list names every entry exactly once, the entries never exceed
\* max_entries or max_memory_bytes although only insertions evict, and a ready entry
\* carries state (ThreadWakeIndex.put_observation, get, mark_ready, flush).
THEOREM TheIndexIsConsistent == Spec => []IndexConsistent
  <1>1. Init => IndexTables
    BY TablesBegin
  <1>2. IndexTables /\ [Next]_vars => IndexTables'
    <2> SUFFICES ASSUME IndexTables, [Next]_vars PROVE IndexTables'
      OBVIOUS
    <2>1. IndexInv' /\ TipInv'
      BY IndexStep, TipStep DEF IndexTables
    <2>2. Tables(entries', lru')
      BY TablesStep DEF IndexTables
    <2>3. Tables(entries, lru)'
      BY <2>2 DEF Tables, Units, Fits, Counts
    <2>4. DOMAIN tips' \subseteq Threads /\ pending' \subseteq Requests /\ wired' \in BOOLEAN
      BY DomainsStep DEF IndexTables
    <2> QED BY <2>1, <2>3, <2>4 DEF IndexTables
  <1>3. IndexTables => IndexConsistent
    <2> SUFFICES ASSUME IndexTables PROVE IndexConsistent
      OBVIOUS
    <2>1. ReadyHasHandle
      BY DEF IndexTables, IndexInv, GoodIndex, GoodEntry, MadeFor, ReadyHasHandle
    <2>2. WithinLimits
      BY DEF IndexTables, Tables, Fits, WithinLimits
    <2>3. LruMatchesEntries
      <3>1. lru \in Seq(Keys) /\ IsInjective(lru) /\ Range(lru) = DOMAIN entries
        BY DEF IndexTables, Tables
      <3>2. Len(lru) \in Nat /\ DOMAIN lru = 1..Len(lru)
        BY <3>1
      <3>3. lru \in Bijection(1..Len(lru), Range(lru))
        BY <3>1, <3>2 DEF Bijection, Injection, Surjection, IsInjective, Range
      <3>4. IsFiniteSet(1..Len(lru)) /\ Cardinality(1..Len(lru)) = Len(lru)
        BY <3>2, FirstNumbers
      <3>5. Cardinality(Range(lru)) = Len(lru)
        BY <3>3, <3>4, FS_Bijection DEF ExistsBijection
      <3> QED BY <3>1, <3>5 DEF LruMatchesEntries
    <2>4. TypeOK
      <3>1. \A k \in DOMAIN entries : entries[k] \in EntryRec
        BY DEF IndexTables, IndexInv, GoodIndex, GoodEntry
      <3>2. \A t \in DOMAIN tips : tips[t] \in TipRec
        BY DEF IndexTables, TipInv, GoodTips, GoodTip
      <3>3. tokenizer \in Tokenizers /\ DOMAIN entries \subseteq Keys /\ lru \in Seq(Keys)
        BY DEF IndexTables, IndexInv, GoodIndex, Tables
      <3> QED BY <3>1, <3>2, <3>3 DEF TypeOK, EntryRec, TipRec, IndexTables, Histories
    <2> QED BY <2>1, <2>2, <2>3, <2>4 DEF IndexConsistent
  <1> QED BY <1>1, <1>2, <1>3, PTL DEF Spec

===============================================================================
