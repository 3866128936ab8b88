--------------------------- MODULE RequestPathProofs ---------------------------
(***************************************************************************)
(* Theorems about what happens to a request outside the queue: how its     *)
(* context is judged, where its model name leads, and what is sent to the  *)
(* upstream and told to the client.  For every set of requests, profiles,  *)
(* registry files and upstream lines.                                      *)
(***************************************************************************)
EXTENDS ContextPolicy, Forwarding, Catalog, FiniteSetTheorems, WellFoundedInduction, TLAPS

(***************************************************************************)
(* The context policy.  The cache invariant says when the cached profile   *)
(* may differ from the file under one signature: only after a write in     *)
(* the tick of the read.                                                   *)
(***************************************************************************)
ProfilesRead == {Nobody} \cup {Stored(p) : p \in Profiles}

CacheInv ==
    /\ disk.state # "missing" => disk.profile \in Profiles
    /\ cached.profile \in ProfilesRead
    /\ cached.sig = disk.mtime => cached.profile = SafeLoadProfile \/ collided

\* What the controller reads is a saved profile or none, and is what the file
\* holds unless the file was written in the tick of the reading.
LEMMA ReadingFacts ==
    ASSUME CacheInv
    PROVE  /\ SafeLoadProfile \in ProfilesRead /\ GetProfile.profile \in ProfilesRead
           /\ GetProfile.sig = disk.mtime
           /\ GetProfile.profile = SafeLoadProfile \/ (collided /\ GetProfile = cached)
  <1>1. SafeLoadProfile \in ProfilesRead
    BY DEF CacheInv, SafeLoadProfile, ProfilesRead
  <1>2. CASE cached.sig = disk.mtime
    BY <1>1, <1>2 DEF CacheInv, GetProfile
  <1>3. CASE cached.sig # disk.mtime
    BY <1>1, <1>3 DEF GetProfile
  <1> QED BY <1>1, <1>2, <1>3

\* A controller that has read nothing has nothing stale.
LEMMA CacheInitially == CtxInit => CacheInv
  BY DEF CtxInit, CacheInv, NoProfileFile, ProfilesRead, Off

\* Every save, tick and reading keeps the cache and the file in step.
LEMMA CacheStep == CacheInv /\ [CtxNext]_ctxVars => CacheInv'
  <1> SUFFICES ASSUME CacheInv, [CtxNext]_ctxVars
               PROVE  CacheInv'
    OBVIOUS
  <1>1. CASE Tick0
    BY <1>1 DEF Tick0, CacheInv, SafeLoadProfile
  <1>2. ASSUME NEW p \in Profiles, SaveBegins(p) PROVE CacheInv'
    BY <1>2 DEF SaveBegins, CacheInv, SafeLoadProfile
  <1>3. CASE SaveEnds
    <2>1. disk.profile \in Profiles /\ disk'.profile = disk.profile /\ disk'.mtime = clock
      BY <1>3 DEF SaveEnds, CacheInv
    <2> QED BY <1>3, <2>1 DEF SaveEnds, CacheInv
  <1>4. ASSUME NEW ask \in Asks, Judge(ask) PROVE CacheInv'
    <2>1. cached' = GetProfile /\ UNCHANGED disk /\ collided' = (collided /\ cached' = cached)
      BY <1>4 DEF Judge
    <2>2. SafeLoadProfile' = SafeLoadProfile
      BY <2>1 DEF SafeLoadProfile
    <2> QED BY <2>1, <2>2, ReadingFacts DEF CacheInv
  <1>5. CASE UNCHANGED ctxVars
    BY <1>5 DEF ctxVars, CacheInv, SafeLoadProfile
  <1> QED BY <1>1, <1>2, <1>3, <1>4, <1>5 DEF CtxNext

\* A request is judged by the profile the file holds at that moment; only a write
\* in the tick of the last reading can hide behind the cache (_get_profile).
THEOREM ProfilesAreFresh == CtxSpec => StaleOnlyInOneTick
  <1>1. CacheInv /\ [CtxNext]_ctxVars
          => [verdict' # verdict => verdict'.by = SafeLoadProfile \/ collided]_ctxVars
    <2> SUFFICES ASSUME CacheInv, [CtxNext]_ctxVars, verdict' # verdict
                 PROVE  verdict'.by = SafeLoadProfile \/ collided
      OBVIOUS
    <2>1. PICK ask \in Asks : Judge(ask)
      BY DEF CtxNext, ctxVars, Tick0, SaveBegins, SaveEnds
    <2>2. verdict'.by = GetProfile.profile
      BY <2>1 DEF Judge
    <2> QED BY <2>2, ReadingFacts
  <1> QED BY <1>1, CacheInitially, CacheStep, PTL DEF CtxSpec, StaleOnlyInOneTick

\* The larger declared limit, or the default.
LEMMA OutputFacts ==
    ASSUME NEW a \in Asks
    PROVE  /\ Allowance(a) \in Nat
           /\ a.route = "chat" => EffectiveOutputLimit(a) = Allowance(a)
           /\ a.route # "chat" => EstimatePromptCost(a).output = Allowance(a)
  <1> DEFINE t == a.maxTokens
             c == a.maxCompletion
  <1>1. t \in Limit /\ c \in Limit /\ DefaultOutput \in Nat
    BY ContextAssumption
  <1>2. t \in Int /\ c \in Int /\ (t \in Nat \/ t = -1) /\ (c \in Nat \/ c = -1)
    BY <1>1 DEF Limit, Off
  <1>3. ASSUME NEW m \in {t, c, 0}, m >= t, m >= c, m >= 0
        PROVE  Max({t, c, 0}) = m
    <2>1. \A x \in {t, c, 0} : m >= x
      BY <1>2, <1>3
    <2>2. \A x \in {t, c, 0} : (\A y \in {t, c, 0} : x >= y) => x = m
      BY <1>2, <1>3
    <2> QED BY <2>1, <2>2 DEF Max
  <1> HIDE DEF t, c
  <1>4. CASE t = -1 /\ c = -1
    BY <1>1, <1>2, <1>4 DEF Allowance, EffectiveOutputLimit, EstimatePromptCost, Off, t, c
  <1>5. CASE ~(t = -1 /\ c = -1) /\ c > t
    <2>1. Max({t, c, 0}) = c
      BY <1>2, <1>3, <1>5
    <2> QED BY <1>1, <1>2, <1>5, <2>1 DEF Allowance, EffectiveOutputLimit, EstimatePromptCost, Off, t, c
  <1>6. CASE ~(t = -1 /\ c = -1) /\ ~(c > t)
    <2>1. Max({t, c, 0}) = t
      BY <1>2, <1>3, <1>6
    <2> QED BY <1>1, <1>2, <1>6, <2>1 DEF Allowance, EffectiveOutputLimit, EstimatePromptCost, Off, t, c
  <1> QED BY <1>2, <1>4, <1>5, <1>6

\* Two names are the same model for model_identity_matches exactly when they have
\* the same canonical identity, and a name.
LEMMA IdentityFacts ==
    ASSUME NEW m \in DOMAIN Identity, NEW n \in DOMAIN Identity
    PROVE  ModelIdentityMatches(m, n) <=> Identity[m] = Identity[n] /\ Identity[n].name # Unnamed
  <1>1. Identity[m] \in [repo : STRING, name : STRING] /\ Identity[n] \in [repo : STRING, name : STRING]
    BY ContextAssumption
  <1>2. Identity[m] = Identity[n] <=> Identity[m].repo = Identity[n].repo /\ Identity[m].name = Identity[n].name
    BY <1>1
  <1>3. Identity[m].repo = Identity[n].repo /\ Identity[m].repo # Unnamed => Identity[m].name = Identity[n].name
    BY ContextAssumption
  <1> QED BY <1>2, <1>3 DEF ModelIdentityMatches

\* The verdict on a cost of given parts against one set of budgets.
LEMMA BudgetFacts ==
    ASSUME NEW a \in Asks, NEW p \in Profiles, NEW cost,
           cost.input \in Nat, cost.media \in Nat, cost.output = Allowance(a),
           cost.input + cost.media = InputOf(a, p.budgets)
    PROVE  OverLimit(EvaluateContext(cost, p.budgets)) <=> ~HasRoom(a, p.budgets)
  <1> DEFINE b == p.budgets
             i == cost.input
             d == cost.media
             o == Allowance(a)
  <1>1. /\ b.hard \in Limit /\ b.recommended \in Limit /\ b.interactive \in Limit
        /\ b.maxIn \in Limit /\ b.maxOut \in Limit
    BY ContextAssumption
  <1>2. o \in Nat
    BY OutputFacts
  <1>3. Total(cost) = i + o + d /\ InputOf(a, b) = i + d
    BY DEF Total
  <1>4. b = NoBudgets => HasRoom(a, b) /\ ~OverLimit(EvaluateContext(cost, b))
    BY DEF NoBudgets, HasRoom, OverLimit, EvaluateContext
  <1> DEFINE over == Exceeds(o, b.maxOut) \/ Exceeds(i + d, b.maxIn) \/ Exceeds(i + o + d, b.hard)
  <1>5. ~HasRoom(a, b) <=> over
    <2>1. \A x \in Nat, l \in Limit : Exceeds(x, l) <=> ~(l = Off \/ x <= l)
      BY DEF Exceeds, Limit, Off
    <2>2. i + d + o = i + o + d /\ i + d \in Nat /\ i + o + d \in Nat
      BY <1>2
    <2> HIDE DEF b, i, d, o
    <2>3. /\ Exceeds(o, b.maxOut) <=> ~(b.maxOut = Off \/ o <= b.maxOut)
          /\ Exceeds(i + d, b.maxIn) <=> ~(b.maxIn = Off \/ i + d <= b.maxIn)
          /\ Exceeds(i + o + d, b.hard) <=> ~(b.hard = Off \/ i + o + d <= b.hard)
      BY <1>1, <1>2, <2>1, <2>2
    <2>4. HasRoom(a, b) <=> /\ b.hard = Off \/ i + d + o <= b.hard
                            /\ b.maxIn = Off \/ i + d <= b.maxIn
                            /\ b.maxOut = Off \/ o <= b.maxOut
      BY <1>3 DEF HasRoom, o
    <2> QED BY <2>2, <2>3, <2>4
  <1>6. b # NoBudgets => (OverLimit(EvaluateContext(cost, b)) <=> over)
    BY <1>3 DEF OverLimit, EvaluateContext
  <1> QED BY <1>4, <1>5, <1>6

\* The cost of a request against the budgets of a profile, by its route.
LEMMA CostFacts ==
    ASSUME NEW a \in Asks, NEW p \in Profiles, NEW cost,
           cost = IF a.route = "chat" THEN EstimateRequestCost(a, p.budgets.media) ELSE EstimatePromptCost(a)
    PROVE  /\ cost.input \in Nat /\ cost.media \in Nat /\ cost.output = Allowance(a)
           /\ cost.input + cost.media = InputOf(a, p.budgets)
  <1> DEFINE e == p.budgets.media
  <1>1. a.text \in Nat /\ a.structured \in Nat /\ a.media \in Nat /\ e \in Limit
    BY ContextAssumption
  <1>2. \A n \in Nat : CountTokens(n) \in Nat
    <2> SUFFICES ASSUME NEW n \in Nat PROVE CountTokens(n) \in Nat
      OBVIOUS
    <2>1. CharsPerToken \in Nat \ {0}
      BY ContextAssumption
    <2>2. n + CharsPerToken - 1 \in Nat
      BY <2>1
    <2> QED BY <2>1, <2>2 DEF CountTokens
  <1>3. CountTokens(a.text) \in Nat /\ CountTokens(a.structured) \in Nat
    BY <1>1, <1>2
  <1> DEFINE m == IF e = Off THEN 0 ELSE a.media * e
  <1>4. m \in Nat
    BY <1>1 DEF Limit
  <1> HIDE DEF m
  <1>5. CASE a.route = "chat"
    <2>1. /\ cost.input = CountTokens(a.text) + CountTokens(a.structured)
          /\ cost.media = m /\ cost.output = Allowance(a)
      BY <1>5, OutputFacts DEF EstimateRequestCost, m
    <2>2. InputOf(a, p.budgets) = CountTokens(a.text) + CountTokens(a.structured) + m
      BY <1>5 DEF InputOf, m
    <2> QED BY <1>3, <1>4, <2>1, <2>2
  <1>6. CASE a.route # "chat"
    <2>1. cost.input = CountTokens(a.text) /\ cost.media = 0 /\ cost.output = Allowance(a)
      BY <1>6, OutputFacts DEF EstimatePromptCost
    <2>2. InputOf(a, p.budgets) = CountTokens(a.text) + 0 + 0
      BY <1>6 DEF InputOf
    <2> QED BY <1>3, <2>1, <2>2
  <1> QED BY <1>5, <1>6

\* A request is refused for its context exactly when the profile in force for its
\* model on this host gives it less room than it may use (evaluate_context).
THEOREM RefusedOnlyWithoutRoom == CtxSpec => []RefusedExactlyWhenItCannotFit
  <1> USE DEF RefusedExactlyWhenItCannotFit
  <1>1. CtxInit => RefusedExactlyWhenItCannotFit
    BY DEF CtxInit, NoVerdict
  <1>2. RefusedExactlyWhenItCannotFit /\ CacheInv /\ [CtxNext]_ctxVars => RefusedExactlyWhenItCannotFit'
    <2> SUFFICES ASSUME RefusedExactlyWhenItCannotFit, CacheInv, [CtxNext]_ctxVars
                 PROVE  RefusedExactlyWhenItCannotFit'
      OBVIOUS
    <2>1. ASSUME NEW a \in Asks, Judge(a) PROVE RefusedExactlyWhenItCannotFit'
      <3> DEFINE got == GetProfile.profile
                 b == Budgets(a)
                 over == OverLimit(EvaluateContext(CostOf(a), b))
      <3>1. verdict' = [judged |-> TRUE, ask |-> a, by |-> got, over |-> over]
        BY <2>1 DEF Judge
      <3>2. got \in ProfilesRead
        BY ReadingFacts
      <3>3. CASE got.none
        <4>1. b = NoBudgets
          BY <3>3 DEF Budgets, ContextBudgets
        <4>2. over = FALSE
          BY <4>1 DEF OverLimit, EvaluateContext
        <4>3. verdict'.over = FALSE /\ verdict'.by.none
          BY <3>1, <3>3, <4>2
        <4> QED BY <4>3
      <3>4. CASE ~got.none
        <4>1. PICK p \in Profiles : got = Stored(p)
          BY <3>2, <3>4 DEF ProfilesRead, Nobody
        <4>2. got.is = p
          BY <4>1 DEF Stored
        <4>3. ModelIdentityMatches(p.model, a.model) /\ HostStatus(p) <=> InForce(p, a)
          <5>1. p.model \in DOMAIN Identity /\ a.model \in DOMAIN Identity
            BY ContextAssumption
          <5>2. ModelIdentityMatches(p.model, a.model)
                  <=> Identity[p.model] = Identity[a.model] /\ Identity[a.model].name # Unnamed
            BY <5>1, IdentityFacts
          <5> QED BY <5>2 DEF InForce, HostStatus
        <4>4. CASE InForce(p, a)
          <5>1. b = p.budgets
            BY <3>4, <4>2, <4>3, <4>4 DEF Budgets, ContextBudgets
          <5>2. CostOf(a) = IF a.route = "chat" THEN EstimateRequestCost(a, p.budgets.media) ELSE EstimatePromptCost(a)
            BY <5>1 DEF CostOf
          <5>3. over <=> ~HasRoom(a, p.budgets)
            BY <5>1, <5>2, CostFacts, BudgetFacts
          <5>4. over = ~HasRoom(a, p.budgets)
            BY <5>3 DEF OverLimit
          <5> HIDE DEF got, over
          <5>5. /\ verdict'.over = ~HasRoom(a, p.budgets) /\ verdict'.ask = a
                /\ ~verdict'.by.none /\ verdict'.by.is = p
            BY <3>1, <3>4, <4>2, <5>4
          <5>6. HasRoom(a, p.budgets) = HasRoom(verdict.ask, verdict.by.is.budgets)'
            BY <5>5 DEF HasRoom, InputOf, Allowance, CountTokens
          <5>7. InForce(verdict.by.is, verdict.ask)'
            BY <4>4, <5>5 DEF InForce
          <5> QED BY <5>5, <5>6, <5>7
        <4>5. CASE ~InForce(p, a)
          <5>1. b = NoBudgets
            BY <3>4, <4>2, <4>3, <4>5 DEF Budgets, ContextBudgets
          <5>2. over = FALSE
            BY <5>1 DEF OverLimit, EvaluateContext
          <5> HIDE DEF got, over
          <5>3. verdict'.over = FALSE /\ verdict'.ask = a /\ verdict'.by.is = p
            BY <3>1, <4>2, <5>2
          <5>4. ~InForce(verdict.by.is, verdict.ask)'
            BY <4>5, <5>3 DEF InForce
          <5> QED BY <5>3, <5>4
        <4> QED BY <4>4, <4>5
      <3> QED BY <3>3, <3>4
    <2>2. CASE UNCHANGED verdict
      BY <2>2
    <2> QED BY <2>1, <2>2 DEF CtxNext, ctxVars, Tick0, SaveBegins, SaveEnds
  <1> QED BY <1>1, <1>2, CacheInitially, CacheStep, PTL DEF CtxSpec

(***************************************************************************)
(* One forwarded exchange.  The invariant says, for each place of the      *)
(* exchange, how its record and token go together and how many of the      *)
(* upstream's chunks the client has: none before the body, then all of     *)
(* them.  ExchangeFaithful is what is left of it at the end.               *)
(***************************************************************************)

\* The number of chunks among the lines, line by line.
LEMMA ChunksFacts ==
    ASSUME NEW s \in Seq(LineKinds)
    PROVE  /\ Chunks(s) \in Nat /\ Chunks(<< >>) = 0
           /\ \A line \in LineKinds :
                Chunks(Append(s, line)) = IF line = "chunk" THEN Chunks(s) + 1 ELSE Chunks(s)
  <1> DEFINE At(q) == {i \in DOMAIN q : q[i] = "chunk"}
  <1>1. Len(s) \in Nat /\ DOMAIN s = 1..Len(s)
    OBVIOUS
  <1>2. IsFiniteSet(1..Len(s)) /\ At(s) \subseteq 1..Len(s)
    BY <1>1, FS_Interval
  <1>3. IsFiniteSet(At(s)) /\ Cardinality(At(s)) \in Nat
    BY <1>2, FS_Subset, FS_CardinalityType
  <1>4. At(<< >>) = {} /\ Cardinality({}) = 0
    BY FS_EmptySet
  <1>5. ASSUME NEW line \in LineKinds
        PROVE  Chunks(Append(s, line)) = IF line = "chunk" THEN Chunks(s) + 1 ELSE Chunks(s)
    <2> DEFINE n == Len(s) + 1
               q == Append(s, line)
    <2>1. DOMAIN q = 1..n /\ q[n] = line /\ \A i \in 1..Len(s) : q[i] = s[i]
      BY <1>1
    <2>2. n \in Nat /\ 1..n = 1..Len(s) \cup {n} /\ n \notin 1..Len(s)
      BY <1>1
    <2> HIDE DEF n, q
    <2>3. At(q) = IF line = "chunk" THEN At(s) \cup {n} ELSE At(s)
      BY <1>1, <2>1, <2>2
    <2>4. n \notin At(s)
      BY <1>1, <2>2
    <2>5. Cardinality(At(s) \cup {n}) = Cardinality(At(s)) + 1
      BY <1>3, <2>4, FS_AddElement
    <2> QED BY <2>3, <2>5 DEF Chunks, q
  <1> QED BY <1>3, <1>4, <1>5 DEF Chunks

Exchange ==
    [pc : {"new", "sending", "first", "ready", "body", "done", "over"}, kind : AdapterKinds, stream : BOOLEAN,
     fields : FieldSets, body : SUBSET UNION FieldSets, answer : Nat]

\* While the exchange runs, its record is the one it started with, or cancelled.
Running ==
    /\ closing = "open" /\ ~broken
    /\ record = IF token0 THEN "cancelled" ELSE IF exchange.stream THEN "streaming" ELSE "running"

\* The [DONE] is out and the record not yet ended.
Ending ==
    /\ closing = "[DONE]" /\ ~broken /\ ~socket
    /\ record = IF token0 THEN "cancelled" ELSE "streaming"

Counted ==
    /\ DOMAIN received = 1..Len(received) /\ Len(received) \in Nat
    /\ \A i \in 1..Len(received) : received[i] = i

ExchangeInv ==
    /\ exchange \in Exchange /\ token0 \in BOOLEAN /\ sent0 \in Seq(LineKinds)
    /\ received \in Seq(Nat) /\ Counted
    /\ exchange.pc = "new" => /\ record = "none" /\ ~token0 /\ ~socket /\ ~broken
                              /\ received = << >> /\ sent0 = << >> /\ closing = "open"
    /\ exchange.pc = "sending" => Running /\ ~socket /\ received = << >> /\ sent0 = << >>
    /\ exchange.pc \in {"first", "ready", "body"} => exchange.stream
    /\ exchange.pc # "over" => disconnects = 0
    /\ exchange.pc = "first" => Running /\ received = << >> /\ Chunks(sent0) = 0
    /\ exchange.pc = "ready" => Running /\ received = << >> /\ Chunks(sent0) = 1
    /\ exchange.pc = "body" => Running /\ Len(received) = Chunks(sent0) /\ Len(received) > 0
    /\ exchange.pc = "done" => DeliveredInOrder /\ Ending
    /\ exchange.pc = "over" => DeliveredInOrder /\ OutcomeAgrees

\* Before anything is sent, nothing was altered.
LEMMA ExchangeInitially == FwdInit => ExchangeInv /\ InferenceFieldsArrive
  <1> SUFFICES ASSUME FwdInit PROVE ExchangeInv /\ InferenceFieldsArrive
    OBVIOUS
  <1>1. exchange \in Exchange /\ exchange.pc = "new"
    BY DEF FwdInit, Exchange
  <1>2. received \in Seq(Nat) /\ Counted /\ sent0 \in Seq(LineKinds)
    BY DEF FwdInit, Counted
  <1> QED BY <1>1, <1>2 DEF FwdInit, ExchangeInv, InferenceFieldsArrive

\* What ends an exchange, apart from what it tells.
LEMMA OverFacts ==
    ASSUME exchange \in Exchange, NEW answer0 \in Nat, Over(answer0)
    PROVE  exchange' \in Exchange /\ exchange'.pc = "over" /\ exchange'.answer = answer0
  BY DEF Over, Exchange

\* Each action keeps the invariant.
LEMMA ExchangeStep == ExchangeInv /\ [FwdNext]_fwdVars => ExchangeInv'
  <1> SUFFICES ASSUME ExchangeInv, [FwdNext]_fwdVars PROVE ExchangeInv'
    OBVIOUS
  <1>a. /\ exchange \in Exchange /\ token0 \in BOOLEAN /\ sent0 \in Seq(LineKinds)
        /\ received \in Seq(Nat) /\ Counted /\ Chunks(sent0) \in Nat /\ Chunks(<< >>) = 0
    BY ChunksFacts DEF ExchangeInv
  <1>1. CASE BeginExchange
    <2>1. CASE Rejected(exchange.fields, exchange.kind) # {}
      <3>1. exchange' \in Exchange /\ exchange'.pc = "over" /\ exchange'.answer = 400
        BY <1>1, <1>a, <2>1, OverFacts DEF BeginExchange
      <3>2. UNCHANGED <<record, token0, sent0, received, closing, socket, disconnects, broken>>
        BY <1>1, <2>1 DEF BeginExchange
      <3>3. /\ record = "none" /\ ~token0 /\ ~socket /\ ~broken /\ received = << >> /\ sent0 = << >>
            /\ closing = "open"
        BY <1>1 DEF BeginExchange, ExchangeInv
      <3> QED BY <1>a, <3>1, <3>2, <3>3 DEF ExchangeInv, Counted, DeliveredInOrder, OutcomeAgrees
    <2>2. CASE Rejected(exchange.fields, exchange.kind) = {}
      <3>1. exchange' \in Exchange /\ exchange'.pc = "sending" /\ exchange'.stream = exchange.stream
        <4>1. BuildForwardBody(exchange.fields, exchange.kind) \subseteq UNION FieldSets
          BY <1>a DEF BuildForwardBody, Forwarded, Exchange
        <4> QED BY <1>1, <1>a, <2>2, <4>1 DEF BeginExchange, Exchange
      <3>2. /\ UNCHANGED <<token0, sent0, received, closing, socket, disconnects, broken>>
            /\ record' = IF exchange.stream THEN "streaming" ELSE "running"
        BY <1>1, <2>2 DEF BeginExchange
      <3>3. /\ ~token0 /\ ~socket /\ ~broken /\ received = << >> /\ sent0 = << >> /\ closing = "open"
            /\ disconnects = 0
        BY <1>1 DEF BeginExchange, ExchangeInv
      <3> QED BY <1>a, <3>1, <3>2, <3>3 DEF ExchangeInv, Counted, Running
    <2> QED BY <2>1, <2>2
  <1>2. ASSUME NEW error \in {400, 404, 425, 502, 503, 504}, UpstreamRefuses(error) PROVE ExchangeInv'
    <2>1. exchange' \in Exchange /\ exchange'.pc = "over" /\ exchange'.answer = error
      BY <1>2, <1>a, OverFacts DEF UpstreamRefuses
    <2>2. record' = "failed" /\ UNCHANGED <<token0, sent0, received, closing, socket, broken>>
      BY <1>2 DEF UpstreamRefuses
    <2>3. closing = "open" /\ ~broken /\ ~socket /\ received = << >> /\ sent0 = << >>
      BY <1>2 DEF UpstreamRefuses, ExchangeInv, Running
    <2> QED BY <1>a, <2>1, <2>2, <2>3 DEF ExchangeInv, Counted, DeliveredInOrder, OutcomeAgrees
  <1>3. CASE AnswerParsed
    <2>1. exchange' \in Exchange /\ exchange'.pc = "over" /\ exchange'.answer = 200
      BY <1>3, <1>a, OverFacts DEF AnswerParsed
    <2>2. UNCHANGED <<token0, sent0, received, closing, socket, broken>>
      BY <1>3 DEF AnswerParsed
    <2>3. closing = "open" /\ ~broken /\ ~socket /\ received = << >> /\ sent0 = << >>
      BY <1>3 DEF AnswerParsed, ExchangeInv, Running
    <2>4. record' \in {"completed", "cancelled", "failed"}
      BY <1>3 DEF AnswerParsed, CompleteRequest
    <2> QED BY <1>a, <2>1, <2>2, <2>3, <2>4 DEF ExchangeInv, Counted, DeliveredInOrder, OutcomeAgrees
  <1>4. CASE StreamOpens
    <2>1. exchange' \in Exchange /\ exchange'.pc = "first" /\ exchange'.stream = exchange.stream /\ exchange.stream
      BY <1>4, <1>a DEF StreamOpens, Exchange
    <2>2. UNCHANGED <<record, token0, sent0, received, closing, disconnects, broken>>
      BY <1>4 DEF StreamOpens
    <2>3. Running /\ received = << >> /\ sent0 = << >> /\ disconnects = 0
      BY <1>4 DEF StreamOpens, ExchangeInv
    <2> QED BY <1>a, <2>1, <2>2, <2>3 DEF ExchangeInv, Counted, Running
  <1>5. CASE BodyStarts
    <2>1. exchange' \in Exchange /\ exchange'.pc = "body" /\ exchange'.stream = exchange.stream /\ exchange.stream
      <3>1. exchange.stream
        BY <1>5 DEF BodyStarts, ExchangeInv
      <3>2. exchange' = [exchange EXCEPT !.pc = "body", !.answer = 200]
        BY <1>5 DEF BodyStarts
      <3>3. exchange' \in Exchange
        <4> DEFINE p == "body"
                   n == 200
        <4>1. p \in {"new", "sending", "first", "ready", "body", "done", "over"} /\ n \in Nat
          OBVIOUS
        <4>2. exchange' = [exchange EXCEPT !.pc = p, !.answer = n]
          BY <3>2
        <4> HIDE DEF p, n
        <4> QED BY <1>a, <4>1, <4>2 DEF Exchange
      <3>4. exchange'.pc = "body" /\ exchange'.stream = exchange.stream
        BY <1>a, <3>2 DEF Exchange
      <3> QED BY <3>1, <3>3, <3>4
    <2>2. received' = <<1>> /\ UNCHANGED <<record, token0, sent0, closing, disconnects, broken>>
      BY <1>5 DEF BodyStarts
    <2>3. Running /\ Chunks(sent0) = 1 /\ disconnects = 0
      BY <1>5 DEF BodyStarts, ExchangeInv
    <2>4. received' \in Seq(Nat) /\ Len(received') = 1 /\ DOMAIN received' = 1..1 /\ received'[1] = 1
      BY <2>2
    <2>5. Counted'
      BY <2>4 DEF Counted
    <2> QED BY <1>a, <2>1, <2>2, <2>3, <2>4, <2>5 DEF ExchangeInv, Running
  <1>6. ASSUME exchange.pc \in {"first", "body"}, EndOfStream, UNCHANGED <<token0, disconnects, broken>>,
               sent0' \in Seq(LineKinds), Chunks(sent0') \in Nat, Chunks(sent0') >= Chunks(sent0),
               ~token0 => sent0' = sent0
        PROVE  ExchangeInv'
    <2>2. closing' = "[DONE]" /\ socket' = FALSE /\ UNCHANGED received
      BY <1>6 DEF EndOfStream
    <2>3. /\ Running /\ exchange.stream /\ Len(received) = Chunks(sent0) /\ Len(received) \in Nat
          /\ disconnects = 0 /\ disconnects' = 0
      BY <1>6, <1>a DEF ExchangeInv
    <2>5. Counted'
      BY <1>a, <2>2 DEF Counted
    <2>6. DeliveredInOrder'
      <3>1. Len(received') = Len(received) /\ Len(received) <= Chunks(sent0')
        BY <1>6, <1>a, <2>2, <2>3
      <3>2. ~token0' => Len(received') = Chunks(sent0')
        BY <1>6, <2>2, <2>3
      <3> QED BY <2>5, <3>1, <3>2 DEF DeliveredInOrder, Counted
    <2>7. CASE exchange.pc = "first"
      <3>1. exchange' \in Exchange /\ exchange'.pc = "over" /\ exchange'.answer = 200
        BY <1>6, <1>a, <2>7, OverFacts DEF EndOfStream
      <3>2. record' = IF token0 THEN "cancelled" ELSE "completed"
        BY <1>6, <2>3, <2>7 DEF EndOfStream, CompleteRequest, Running
      <3>3. OutcomeAgrees'
        BY <1>6, <2>2, <2>3, <3>1, <3>2 DEF OutcomeAgrees, Running
      <3> QED BY <1>6, <1>a, <2>2, <2>5, <2>6, <3>1, <3>3 DEF ExchangeInv
    <2>8. CASE exchange.pc = "body"
      <3>1. exchange' \in Exchange /\ exchange'.pc = "done"
        BY <1>6, <1>a, <2>8 DEF EndOfStream, Exchange
      <3>2. record' = record
        BY <1>6, <2>8 DEF EndOfStream
      <3>3. Ending'
        BY <1>6, <2>2, <2>3, <3>2 DEF Ending, Running
      <3> QED BY <1>6, <1>a, <2>2, <2>3, <2>5, <2>6, <3>1, <3>3 DEF ExchangeInv
    <2> QED BY <1>6, <2>7, <2>8
  <1>7. CASE UpstreamCloses
    BY <1>6, <1>7, <1>a DEF UpstreamCloses
  <1>8. ASSUME NEW x \in Exceptions, UpstreamBreaks(x) PROVE ExchangeInv'
    <2>1. UNCHANGED <<token0, sent0, received>> /\ socket' = FALSE /\ broken' = TRUE
      BY <1>8 DEF UpstreamBreaks
    <2>2. Counted'
      BY <1>a, <2>1 DEF Counted
    <2>3. CASE exchange.pc = "first"
      <3>1. Over(ErrorOf(x)) /\ record' = "failed" /\ UNCHANGED closing
        BY <1>8, <2>3 DEF UpstreamBreaks
      <3>2. ErrorOf(x) \in {502, 503, 504}
        BY DEF ErrorOf, Exceptions
      <3>3. exchange' \in Exchange /\ exchange'.pc = "over" /\ exchange'.answer \in {502, 503, 504}
        BY <1>a, <3>1, <3>2, OverFacts
      <3>4. received = << >> /\ closing = "open"
        BY <2>3 DEF ExchangeInv, Running
      <3> QED BY <1>a, <2>1, <2>2, <3>1, <3>3, <3>4 DEF ExchangeInv, Counted, DeliveredInOrder, OutcomeAgrees
    <2>4. CASE exchange.pc = "body"
      <3>1. Over(200) /\ record' = "cancelled" /\ closing' = "error"
        BY <1>8, <2>4 DEF UpstreamBreaks
      <3>2. exchange' \in Exchange /\ exchange'.pc = "over" /\ exchange'.answer = 200
        BY <1>a, <3>1, OverFacts
      <3>3. Len(received) = Chunks(sent0)
        BY <2>4 DEF ExchangeInv
      <3> QED BY <1>a, <2>1, <2>2, <3>1, <3>2, <3>3 DEF ExchangeInv, Counted, DeliveredInOrder, OutcomeAgrees
    <2> QED BY <1>8, <2>3, <2>4 DEF UpstreamBreaks
  <1>9. CASE ClientLeaves
    <2>1. record' = "cancelled" /\ disconnects' = 1 /\ UNCHANGED <<token0, sent0, received, closing, broken>>
      BY <1>9 DEF ClientLeaves, ExchangeInv
    <2>2. exchange' \in Exchange /\ exchange'.pc = "over" /\ exchange'.answer = 0
      BY <1>a, <1>9, OverFacts DEF ClientLeaves
    <2>3. DeliveredInOrder /\ ~broken
      <3>1. CASE exchange.pc = "body"
        <4>1. Len(received) = Chunks(sent0) /\ closing = "open" /\ ~broken
          BY <3>1 DEF ExchangeInv, Running
        <4> QED BY <1>a, <4>1 DEF Counted, DeliveredInOrder
      <3>2. CASE exchange.pc = "done"
        BY <3>2 DEF ExchangeInv, Ending
      <3> QED BY <1>9, <3>1, <3>2 DEF ClientLeaves
    <2>4. DeliveredInOrder' /\ Counted'
      BY <1>a, <2>1, <2>3 DEF DeliveredInOrder, Counted
    <2>5. OutcomeAgrees'
      BY <2>1, <2>2, <2>3 DEF OutcomeAgrees
    <2> QED BY <1>a, <2>1, <2>2, <2>4, <2>5 DEF ExchangeInv
  <1>15. CASE BodyEnds
    <2>1. UNCHANGED <<token0, sent0, received, closing, socket, disconnects, broken>> /\ exchange.pc = "done"
      BY <1>15 DEF BodyEnds
    <2>2. exchange' \in Exchange /\ exchange'.pc = "over" /\ exchange'.answer = 200
      BY <1>15, <1>a, OverFacts DEF BodyEnds
    <2>3. DeliveredInOrder /\ Ending /\ disconnects = 0
      BY <2>1 DEF ExchangeInv
    <2>4. record' = IF token0 THEN "cancelled" ELSE "completed"
      BY <1>15, <2>3 DEF BodyEnds, CompleteRequest, Ending
    <2>5. DeliveredInOrder' /\ Counted'
      BY <1>a, <2>1, <2>3 DEF DeliveredInOrder, Counted
    <2>6. OutcomeAgrees'
      BY <2>1, <2>2, <2>3, <2>4 DEF OutcomeAgrees, Ending
    <2> QED BY <1>a, <2>1, <2>2, <2>5, <2>6 DEF ExchangeInv
  <1>16. CASE FinalizerCloses
    <2>1. /\ UNCHANGED <<exchange, record, token0, sent0, received, closing, disconnects, broken>>
          /\ exchange.pc = "over" /\ socket' = FALSE
      BY <1>16 DEF FinalizerCloses
    <2>2. DeliveredInOrder /\ OutcomeAgrees
      BY <2>1 DEF ExchangeInv
    <2>3. DeliveredInOrder' /\ Counted' /\ OutcomeAgrees'
      BY <1>a, <2>1, <2>2 DEF DeliveredInOrder, Counted, OutcomeAgrees
    <2> QED BY <1>a, <2>1, <2>3 DEF ExchangeInv
  <1>10. CASE CancelExchange
    <2>1. record \in {"running", "streaming"} /\ token0' = TRUE /\ record' = "cancelled"
      BY <1>10 DEF CancelExchange
    <2>2. UNCHANGED <<exchange, sent0, received, closing, socket, disconnects, broken>>
      BY <1>10 DEF CancelExchange
    <2>3. exchange.pc \notin {"new", "over"}
      BY <2>1 DEF ExchangeInv, OutcomeAgrees
    <2>4. Running => Running'
      BY <2>1, <2>2 DEF Running
    <2>5. Counted'
      BY <1>a, <2>2 DEF Counted
    <2>6. Ending => Ending'
      BY <2>1, <2>2 DEF Ending
    <2>7. DeliveredInOrder => DeliveredInOrder'
      BY <2>1, <2>2 DEF DeliveredInOrder
    <2> QED BY <2>1, <2>2, <2>3, <2>4, <2>5, <2>6, <2>7 DEF ExchangeInv
  <1>11. ASSUME NEW line \in LineKinds, NextLine(line) PROVE ExchangeInv'
    <2>1. /\ exchange.pc \in {"first", "body"} /\ sent0' = Append(sent0, line)
          /\ UNCHANGED <<token0, disconnects, broken>> /\ disconnects = 0
      BY <1>11 DEF NextLine, ExchangeInv
    <2>2. /\ sent0' \in Seq(LineKinds) /\ Chunks(sent0') \in Nat
          /\ Chunks(sent0') = IF line = "chunk" THEN Chunks(sent0) + 1 ELSE Chunks(sent0)
      BY <1>a, <2>1, ChunksFacts
    <2>3. CASE token0
      <3>1. EndOfStream
        BY <1>11, <2>3 DEF NextLine
      <3> QED BY <1>6, <1>a, <2>1, <2>2, <2>3, <3>1
    <2>4. CASE ~token0 /\ line = "chunk"
      <3>1. /\ UNCHANGED <<record, closing, socket>>
            /\ exchange' = [exchange EXCEPT !.pc = IF @ = "first" THEN "ready" ELSE @]
            /\ received' = IF exchange.pc = "first" THEN received ELSE Append(received, Chunks(sent0'))
        BY <1>11, <2>4 DEF NextLine
      <3>2. /\ exchange' \in Exchange /\ exchange'.stream = exchange.stream
            /\ exchange'.pc = IF exchange.pc = "first" THEN "ready" ELSE "body"
        BY <1>a, <2>1, <3>1 DEF Exchange
      <3>3. Running' /\ exchange.stream
        BY <2>1, <3>1, <3>2 DEF ExchangeInv, Running
      <3>4. CASE exchange.pc = "first"
        <4>1. received = << >> /\ Chunks(sent0) = 0
          BY <3>4 DEF ExchangeInv
        <4>2. received' = received /\ Counted'
          BY <1>a, <3>1, <3>4 DEF Counted
        <4> QED BY <1>a, <2>1, <2>2, <2>4, <3>2, <3>3, <3>4, <4>1, <4>2 DEF ExchangeInv
      <3>5. CASE exchange.pc = "body"
        <4>1. Len(received) = Chunks(sent0) /\ Len(received) \in Nat
          BY <1>a, <3>5 DEF ExchangeInv
        <4>2. received' = Append(received, Len(received) + 1)
          BY <2>2, <2>4, <3>1, <3>5, <4>1
        <4>3. received' \in Seq(Nat) /\ Len(received') = Len(received) + 1 /\ DOMAIN received' = 1..(Len(received) + 1)
          BY <1>a, <4>1, <4>2
        <4>4. \A i \in 1..(Len(received) + 1) : received'[i] = i
          BY <1>a, <4>1, <4>2 DEF Counted
        <4>5. Counted'
          BY <4>1, <4>3, <4>4 DEF Counted
        <4> QED BY <1>a, <2>1, <2>2, <2>4, <3>2, <3>3, <3>5, <4>1, <4>3, <4>5 DEF ExchangeInv
      <3> QED BY <2>1, <3>4, <3>5
    <2>5. CASE ~token0 /\ line # "chunk"
      <3>1. UNCHANGED <<exchange, record, received, closing, socket>>
        BY <1>11, <2>5 DEF NextLine
      <3>2. Running' /\ Counted'
        BY <1>a, <2>1, <3>1 DEF ExchangeInv, Running, Counted
      <3> QED BY <1>a, <2>1, <2>2, <2>5, <3>1, <3>2 DEF ExchangeInv
    <2> QED BY <2>3, <2>4, <2>5, <1>a
  <1>12. CASE UNCHANGED fwdVars
    BY <1>12 DEF fwdVars, ExchangeInv, Running, Ending, Counted, DeliveredInOrder, OutcomeAgrees
  <1>13. /\ \A s \in Statuses0 \ {200} : ErrorFor(s) \in {400, 404, 425, 502, 503, 504}
         /\ \A x \in Exceptions : ErrorOf(x) \in {400, 404, 425, 502, 503, 504}
    BY DEF Statuses0, ErrorFor, Exceptions, ErrorOf
  <1>14. CASE AnswerMalformed
    BY <1>2, <1>14 DEF AnswerMalformed
  <1> QED BY <1>1, <1>2, <1>3, <1>4, <1>5, <1>7, <1>8, <1>9, <1>10, <1>11, <1>12, <1>13, <1>14, <1>15, <1>16 DEF FwdNext

\* What was put in the body is decided once, before the upstream is asked.
LEMMA FieldsStep ==
    ExchangeInv /\ InferenceFieldsArrive /\ [FwdNext]_fwdVars => InferenceFieldsArrive'
  <1> SUFFICES ASSUME ExchangeInv, InferenceFieldsArrive, [FwdNext]_fwdVars PROVE InferenceFieldsArrive'
    OBVIOUS
  <1>a. exchange \in Exchange
    BY DEF ExchangeInv
  <1>1. CASE exchange'.pc \in {"done", "over"}
    BY <1>1 DEF InferenceFieldsArrive
  <1>2. CASE BeginExchange /\ exchange'.pc # "over"
    <2>1. Rejected(exchange.fields, exchange.kind) = {}
      BY <1>2, <1>a DEF BeginExchange, Over, Exchange
    <2>2. /\ exchange'.body = BuildForwardBody(exchange.fields, exchange.kind)
          /\ exchange'.fields = exchange.fields /\ exchange'.kind = exchange.kind
      BY <1>2, <1>a, <2>1 DEF BeginExchange, Exchange
    <2> QED BY <2>1, <2>2 DEF InferenceFieldsArrive, BuildForwardBody, Forwarded, Rejected
  <1>3. ASSUME exchange.pc \in {"sending", "first", "ready", "body"}, exchange'.fields = exchange.fields,
               exchange'.kind = exchange.kind, exchange'.body = exchange.body
        PROVE  InferenceFieldsArrive'
    BY <1>3 DEF InferenceFieldsArrive
  <1>4. CASE StreamOpens
    BY <1>3, <1>4, <1>a DEF StreamOpens, Exchange
  <1>5. CASE BodyStarts
    BY <1>3, <1>5, <1>a DEF BodyStarts, Exchange
  <1>9. EndOfStream => exchange'.pc \in {"done", "over"}
    BY <1>a, OverFacts DEF EndOfStream, Exchange
  <1>6. ASSUME NEW line \in LineKinds, NextLine(line), exchange'.pc \notin {"done", "over"}
        PROVE  InferenceFieldsArrive'
    <2>1. ~EndOfStream
      BY <1>6, <1>9
    <2>2. \/ exchange' = [exchange EXCEPT !.pc = IF @ = "first" THEN "ready" ELSE @]
          \/ UNCHANGED exchange
      BY <1>6, <2>1 DEF NextLine
    <2> QED BY <1>3, <1>6, <1>a, <2>2 DEF NextLine, Exchange
  <1>7. CASE UNCHANGED exchange
    BY <1>7 DEF InferenceFieldsArrive
  <1>8. \/ BeginExchange \/ StreamOpens \/ BodyStarts \/ UNCHANGED exchange
        \/ \E line \in LineKinds : NextLine(line)
        \/ (\E n \in Nat : Over(n)) \/ EndOfStream
    <2>1. ASSUME NEW s \in Statuses0 \ {200}, UpstreamRefuses(ErrorFor(s)) PROVE \E n \in Nat : Over(n)
      BY <2>1 DEF UpstreamRefuses, Statuses0, ErrorFor
    <2>2. ASSUME NEW x \in Exceptions, UpstreamRefuses(ErrorOf(x)) \/ UpstreamBreaks(x)
          PROVE \E n \in Nat : Over(n)
      <3>1. ErrorOf(x) \in Nat
        BY DEF Exceptions, ErrorOf
      <3> QED BY <2>2, <3>1 DEF UpstreamRefuses, UpstreamBreaks
    <2>3. AnswerParsed \/ AnswerMalformed \/ BodyEnds \/ ClientLeaves => \E n \in Nat : Over(n)
      BY DEF AnswerParsed, AnswerMalformed, UpstreamRefuses, BodyEnds, ClientLeaves
    <2>4. CancelExchange \/ FinalizerCloses => UNCHANGED exchange
      BY DEF CancelExchange, FinalizerCloses
    <2>5. UpstreamCloses => EndOfStream
      BY DEF UpstreamCloses
    <2> QED BY <2>1, <2>2, <2>3, <2>4, <2>5 DEF FwdNext, fwdVars
  <1> QED BY <1>a, <1>1, <1>2, <1>4, <1>5, <1>6, <1>7, <1>8, <1>9, OverFacts

\* What the upstream is asked is what the client asked, and what the client and the
\* record are told is what happened: every chunk once and in order, however the
\* stream ends, breaks or is cancelled (forward_streaming, _execute_streaming).
THEOREM ExchangesAreFaithful == FwdSpec => []ExchangeFaithful
  <1>1. ExchangeInv => DeliveredInOrder /\ OutcomeAgrees
    <2> SUFFICES ASSUME ExchangeInv PROVE DeliveredInOrder /\ OutcomeAgrees
      OBVIOUS
    <2>1. CASE exchange.pc = "over"
      BY <2>1 DEF ExchangeInv
    <2>3. CASE exchange.pc = "done"
      BY <2>3 DEF ExchangeInv, OutcomeAgrees
    <2>2. CASE exchange.pc \notin {"done", "over"}
      <3>1. exchange.pc \in {"new", "sending", "first", "ready", "body"}
        BY <2>2 DEF ExchangeInv, Exchange
      <3>2. Counted /\ closing = "open" /\ Chunks(sent0) \in Nat
        BY <3>1, ChunksFacts DEF ExchangeInv, Running
      <3>3. received = << >> \/ Len(received) = Chunks(sent0)
        BY <3>1 DEF ExchangeInv
      <3> QED BY <2>2, <3>2, <3>3 DEF Counted, DeliveredInOrder, OutcomeAgrees
    <2> QED BY <2>1, <2>2, <2>3
  <1> QED BY <1>1, ExchangeInitially, ExchangeStep, FieldsStep, PTL DEF FwdSpec, ExchangeFaithful

(***************************************************************************)
(* From a name to a runtime.  Between a request's resolution and its       *)
(* dispatch others resolve and dispatch, adapters come and go and the      *)
(* registry file changes: the invariants say what the request keeps - the  *)
(* path bound in its own context, and the entry of the registry as loaded. *)
(***************************************************************************)
IsCall(x) ==
    \E p, m, k, s, f : x = [pc |-> p, model |-> m, kind |-> k, source |-> s, found |-> f]

\* What an adapter was told to run for a request.
SentFor(c) ==
    /\ call[c].pc = "done" /\ sent[c].kind = call[c].kind /\ sent[c].path = call[c].found
    /\ ~(sent[c].kind = "llama_cpp" /\ "llama_cpp" \in Managed /\ sent[c].path # NoPath)

BoundFor(c) ==
    /\ IsCall(call[c]) /\ DOMAIN bound[c] = Kinds0
    /\ call[c].pc = "new" => \A k \in Kinds0 : bound[c][k] = NoPath
    /\ call[c].pc = "resolved" => call[c].kind \in Kinds0 /\ bound[c][call[c].kind] = call[c].found
    /\ sent[c] # Nothing => SentFor(c)

BindingInv ==
    /\ adapters \subseteq Kinds0
    /\ DOMAIN call = Calls /\ DOMAIN bound = Calls /\ DOMAIN sent = Calls
    /\ \A c \in Calls : BoundFor(c)

\* A name is refused, or resolved to a registered adapter.
LEMMA ResolutionFacts ==
    ASSUME adapters \subseteq Kinds0, NEW reg, NEW m
    PROVE  LET r == ResolveModelRuntime(reg, m)
           IN  /\ r.kind = "refused" \/ r.kind \in adapters
               /\ r.kind = "refused" => r.found = NoPath
  <1>1. \A k, n, s, f : Resolution(k, n, s, f).kind = k /\ Resolution(k, n, s, f).found = f
    BY DEF Resolution
  <1>2. Refused.kind = "refused" /\ Refused.found = NoPath /\ "refused" \notin adapters
    BY DEF Refused, Kinds0
  <1>3. ViaRegistry(reg, m).kind \in adapters \/ ViaRegistry(reg, m) = Refused
    BY <1>1 DEF ViaRegistry
  <1>4. \A e : ResolveExternalModel(e).kind \in adapters \/ ResolveExternalModel(e) = Refused
    BY <1>1 DEF ResolveExternalModel
  <1>5. ByHeuristics(m).kind \in adapters \/ ByHeuristics(m) = Refused
    <2> DEFINE reporting == {k \in adapters : Loaded[k].repo # None /\ Loaded[k] = m}
    <2>1. reporting # {} => (CHOOSE k \in reporting : TRUE) \in adapters
      OBVIOUS
    <2>2. Cardinality(NonStub) = 1 => (CHOOSE k \in NonStub : TRUE) \in adapters
      <3>1. Cardinality({}) = 0
        BY FS_EmptySet
      <3>2. Cardinality(NonStub) = 1 => NonStub # {}
        BY <3>1
      <3> QED BY <3>2 DEF NonStub
    <2> HIDE DEF reporting
    <2> DEFINE r1 == Resolution("llama_cpp", m, "format_heuristic", NoPath)
               r2 == Resolution(CHOOSE k \in reporting : TRUE, m, "loaded_model_match", NoPath)
               r3 == Resolution("stub", m, "configured_stub", NoPath)
               r4 == Resolution(CHOOSE k \in NonStub : TRUE, m, "single_runtime_compatibility", NoPath)
               r5 == Resolution("stub", m, "stub_only_compatibility", NoPath)
    <2>3. /\ r1.kind = "llama_cpp" /\ r2.kind = (CHOOSE k \in reporting : TRUE) /\ r3.kind = "stub"
          /\ r4.kind = (CHOOSE k \in NonStub : TRUE) /\ r5.kind = "stub"
      BY <1>1
    <2> HIDE DEF r1, r2, r3, r4, r5
    <2>4. ByHeuristics(m) =
            IF m \in GgufFile THEN IF "llama_cpp" \in adapters THEN r1 ELSE Refused
            ELSE IF reporting # {} THEN r2
            ELSE IF stubOnly /\ "stub" \in adapters THEN r3
            ELSE IF Cardinality(NonStub) = 1 THEN r4
            ELSE IF adapters = {"stub"} THEN r5
            ELSE Refused
      BY DEF ByHeuristics, r1, r2, r3, r4, r5, reporting
    <2> QED BY <2>1, <2>2, <2>3, <2>4
  <1> QED BY <1>2, <1>3, <1>4, <1>5 DEF ResolveModelRuntime

\* Before anything is resolved, nothing is bound.
LEMMA BindingInitially == CatInit => BindingInv
  <1> SUFFICES ASSUME CatInit PROVE BindingInv
    OBVIOUS
  <1>1. IsCall(Fresh) /\ Fresh.pc = "new"
    BY DEF IsCall, Fresh
  <1>2. adapters \subseteq Kinds0
    BY CatalogAssumption DEF CatInit
  <1>3. ASSUME NEW c \in Calls PROVE BoundFor(c)
    <2>1. call[c] = Fresh /\ bound[c] = [k \in Kinds0 |-> NoPath] /\ sent[c] = Nothing
      BY DEF CatInit
    <2> QED BY <1>1, <2>1 DEF BoundFor
  <1> QED BY <1>2, <1>3 DEF CatInit, BindingInv

\* Every step leaves each request with what it resolved itself.
LEMMA BindingStep == BindingInv /\ [CatNext]_catVars => BindingInv'
  <1> SUFFICES ASSUME BindingInv, [CatNext]_catVars PROVE BindingInv'
    OBVIOUS
  <1>1. ASSUME NEW c \in Calls, NEW m \in Names, Resolve(c, m) PROVE BindingInv'
    <2> DEFINE r == ResolveModelRuntime(LoadRegistry, m)
               new == [pc |-> IF r.kind = "refused" THEN "refused" ELSE "resolved",
                       model |-> m, kind |-> r.kind, source |-> r.source, found |-> r.found]
    <2>1. /\ call[c].pc = "new" /\ call' = [call EXCEPT ![c] = new] /\ UNCHANGED <<adapters, sent>>
          /\ IF r.found # NoPath THEN bound' = [bound EXCEPT ![c][r.kind] = r.found] ELSE UNCHANGED bound
      BY <1>1 DEF Resolve, SetExternalPath
    <2>2. /\ r.kind = "refused" \/ r.kind \in Kinds0
          /\ r.kind = "refused" => r.found = NoPath
      BY ResolutionFacts DEF BindingInv
    <2>3. /\ new.kind = r.kind /\ new.found = r.found /\ IsCall(new)
          /\ new.pc = IF r.kind = "refused" THEN "refused" ELSE "resolved"
      BY DEF IsCall
    <2> HIDE DEF r, new
    <2>4. /\ DOMAIN call' = Calls /\ DOMAIN bound' = Calls /\ DOMAIN sent' = Calls
          /\ adapters' \subseteq Kinds0 /\ call'[c] = new
      BY <2>1 DEF BindingInv
    <2>5. BoundFor(c)'
      <3>1. sent[c] = Nothing /\ sent'[c] = sent[c] /\ Nothing' = Nothing
        BY <2>1 DEF BindingInv, BoundFor, SentFor, Nothing
      <3>2. DOMAIN bound[c] = Kinds0 /\ \A k \in Kinds0 : bound[c][k] = NoPath
        BY <2>1 DEF BindingInv, BoundFor
      <3>3. DOMAIN bound'[c] = Kinds0
        BY <2>1, <3>2 DEF BindingInv
      <3>4. r.kind # "refused" => bound'[c][r.kind] = r.found
        BY <2>1, <2>2, <3>2 DEF BindingInv
      <3> QED BY <2>2, <2>3, <2>4, <3>1, <3>3, <3>4 DEF BoundFor
    <2>6. ASSUME NEW d \in Calls, d # c PROVE BoundFor(d)'
      <3>1. call'[d] = call[d] /\ bound'[d] = bound[d] /\ sent'[d] = sent[d]
        BY <2>1, <2>6 DEF BindingInv
      <3> QED BY <3>1 DEF BindingInv, BoundFor, SentFor
    <2> QED BY <2>4, <2>5, <2>6 DEF BindingInv
  <1>2. ASSUME NEW c \in Calls, Dispatch(c) PROVE BindingInv'
    <2> DEFINE kind == call[c].kind
               path == bound[c][kind]
               kept == kind = "llama_cpp" /\ kind \in Managed /\ path # NoPath
    <2>1. /\ call[c].pc = "resolved" /\ call' = [call EXCEPT ![c].pc = "done"] /\ UNCHANGED adapters
          /\ bound' = [bound EXCEPT ![c][kind] = NoPath]
          /\ IF kept THEN UNCHANGED sent ELSE sent' = [sent EXCEPT ![c] = [kind |-> kind, path |-> path]]
      BY <1>2 DEF Dispatch
    <2>2. IsCall(call[c]) /\ kind \in Kinds0 /\ path = call[c].found /\ sent[c] = Nothing
      BY <2>1 DEF BindingInv, BoundFor, SentFor
    <2>3. /\ IsCall(call'[c]) /\ call'[c].pc = "done" /\ call'[c].kind = kind /\ call'[c].found = path
      <3>1. call'[c] = [call[c] EXCEPT !.pc = "done"]
        BY <2>1 DEF BindingInv
      <3>2. PICK p, m, k, s, f : call[c] = [pc |-> p, model |-> m, kind |-> k, source |-> s, found |-> f]
        BY <2>2 DEF IsCall
      <3>3. call'[c] = [pc |-> "done", model |-> m, kind |-> k, source |-> s, found |-> f]
        BY <3>1, <3>2
      <3>4. IsCall(call'[c])
        BY <3>3 DEF IsCall
      <3> QED BY <2>2, <3>2, <3>3, <3>4
    <2> HIDE DEF kind, path
    <2>4. /\ DOMAIN call' = Calls /\ DOMAIN bound' = Calls /\ DOMAIN sent' = Calls
          /\ adapters' \subseteq Kinds0
      BY <2>1 DEF BindingInv
    <2>5. BoundFor(c)'
      <3>1. DOMAIN bound'[c] = Kinds0
        BY <2>1 DEF BindingInv, BoundFor
      <3>2. sent'[c] = Nothing \/ (sent'[c] = [kind |-> kind, path |-> path] /\ ~kept)
        BY <2>1, <2>2 DEF BindingInv
      <3>3. Nothing' = Nothing
        BY DEF Nothing
      <3> HIDE DEF kept
      <3>4. sent'[c] # Nothing => SentFor(c)'
        BY <2>3, <3>2 DEF SentFor, kept
      <3> QED BY <2>3, <3>1, <3>3, <3>4 DEF BoundFor
    <2>6. ASSUME NEW d \in Calls, d # c PROVE BoundFor(d)'
      <3>1. call'[d] = call[d] /\ bound'[d] = bound[d] /\ sent'[d] = sent[d]
        BY <2>1, <2>6 DEF BindingInv
      <3> QED BY <3>1 DEF BindingInv, BoundFor, SentFor
    <2> QED BY <2>4, <2>5, <2>6 DEF BindingInv
  <1>3. ASSUME UNCHANGED <<call, bound, sent>>, adapters' \subseteq Kinds0 PROVE BindingInv'
    BY <1>3 DEF BindingInv, BoundFor, SentFor
  <1>4. ASSUME NEW k \in Kinds0, RegisterAdapter(k) PROVE BindingInv'
    <2>1. adapters' \subseteq Kinds0
      BY <1>4 DEF RegisterAdapter, BindingInv
    <2> QED BY <1>3, <1>4, <2>1 DEF RegisterAdapter
  <1>5. ASSUME UNCHANGED <<adapters, call, bound, sent>> PROVE BindingInv'
    BY <1>3, <1>5 DEF BindingInv
  <1> QED BY <1>1, <1>2, <1>4, <1>5 DEF CatNext, catVars, EditRegistry

\* What an adapter runs for a request is the path that very request's resolution
\* found, whatever others resolve in between, and a managed llama.cpp server never
\* runs an external path (set_external_model_path, _effective_model_path).
THEOREM BindingsAreOwn == CatSpec => []BindingIsOwn
  <1>1. BindingInv => BindingIsOwn
    BY DEF BindingInv, BoundFor, SentFor, BindingIsOwn
  <1> QED BY <1>1, BindingInitially, BindingStep, PTL DEF CatSpec

\* A registry that was loaded is valid: every entry has the format its engine
\* reads, and a vision model the vision engine.
ValidRegistry(reg) ==
    \/ reg = Unread \/ reg = Failed
    \/ /\ reg.state = "ok"
       /\ \A m \in DOMAIN reg.models :
            reg.models[m].engine \in Engines /\ ValidateRegistryEntry(reg.models[m])

AllowedFor(c) ==
    /\ cache.state = "ok" /\ call[c].model \in DOMAIN cache.models
    /\ cache.models[call[c].model].enabled
    /\ call[c].kind = EngineKind[cache.models[call[c].model].engine]

AuthorityInv ==
    /\ file \in RegistryFiles /\ ValidRegistry(cache)
    /\ explicit => \A c \in Calls : call[c].pc \in {"resolved", "done"} => AllowedFor(c)

\* The registry as loaded, now or before.
LEMMA LoadFacts ==
    ASSUME file \in RegistryFiles, ValidRegistry(cache)
    PROVE  /\ ValidRegistry(LoadRegistry)
           /\ cache.state = "ok" => LoadRegistry = cache
  <1>1. ValidRegistry(LoadModelRegistry(file))
    BY CatalogAssumption DEF ValidRegistry, LoadModelRegistry
  <1>2. Unread.state = "unread"
    BY DEF Unread
  <1> QED BY <1>1, <1>2 DEF LoadRegistry

\* Before a request is routed, none was sent past the registry.
LEMMA AuthorityInitially == CatInit => AuthorityInv
  BY DEF CatInit, AuthorityInv, ValidRegistry, Fresh

\* Every step leaves the registry to decide what is sent.
LEMMA AuthorityStep ==
    BindingInv /\ AuthorityInv /\ [CatNext]_catVars => AuthorityInv'
  <1> SUFFICES ASSUME BindingInv, AuthorityInv, [CatNext]_catVars PROVE AuthorityInv'
    OBVIOUS
  <1>1. ASSUME NEW c \in Calls, NEW m \in Names, Resolve(c, m) PROVE AuthorityInv'
    <2> DEFINE reg == LoadRegistry
               r == ResolveModelRuntime(reg, m)
               new == [pc |-> IF r.kind = "refused" THEN "refused" ELSE "resolved",
                       model |-> m, kind |-> r.kind, source |-> r.source, found |-> r.found]
    <2>1. cache' = reg /\ call' = [call EXCEPT ![c] = new] /\ UNCHANGED <<explicit, file>>
      BY <1>1 DEF Resolve
    <2>2. ValidRegistry(reg) /\ (cache.state = "ok" => reg = cache)
      BY LoadFacts DEF AuthorityInv
    <2>3. ASSUME NEW d \in Calls, d # c, explicit, call'[d].pc \in {"resolved", "done"} PROVE AllowedFor(d)'
      <3>1. call'[d] = call[d]
        BY <2>1, <2>3 DEF BindingInv
      <3>2. AllowedFor(d)
        BY <2>3, <3>1 DEF AuthorityInv
      <3>3. cache' = cache
        BY <2>1, <2>2, <3>2 DEF AllowedFor
      <3> QED BY <3>1, <3>2, <3>3 DEF AllowedFor
    <2>4. ASSUME explicit, call'[c].pc \in {"resolved", "done"} PROVE AllowedFor(c)'
      <3>1. call'[c] = new
        BY <2>1 DEF BindingInv
      <3>2. new.pc = "resolved" /\ r.kind # "refused"
        BY <2>4, <3>1
      <3>3. r = ViaRegistry(reg, m)
        BY <2>4 DEF ResolveModelRuntime
      <3> DEFINE e == reg.models[m]
      <3>4. /\ m \in DOMAIN reg.models /\ e.enabled
            /\ r = Resolution(EngineKind[e.engine], m, "authoritative_registry", NoPath)
        BY <3>2, <3>3 DEF ViaRegistry, Refused
      <3>5. r.kind = EngineKind[e.engine]
        BY <3>4 DEF Resolution
      <3>6. reg.state = "ok"
        BY <2>2, <3>4 DEF ValidRegistry, Unread, Failed
      <3> HIDE DEF reg, r
      <3>7. call'[c].model = m /\ call'[c].kind = r.kind
        BY <3>1
      <3> QED BY <2>1, <3>4, <3>5, <3>6, <3>7 DEF AllowedFor
    <2> HIDE DEF reg
    <2>5. file' \in RegistryFiles /\ ValidRegistry(cache)'
      BY <2>1, <2>2 DEF AuthorityInv, ValidRegistry
    <2>6. explicit' => \A d \in Calls : call'[d].pc \in {"resolved", "done"} => AllowedFor(d)'
      BY <2>1, <2>3, <2>4
    <2> QED BY <2>5, <2>6 DEF AuthorityInv
  <1>2. ASSUME NEW c \in Calls, Dispatch(c) PROVE AuthorityInv'
    <2>1. UNCHANGED <<explicit, file, cache>> /\ call[c].pc = "resolved" /\ call' = [call EXCEPT ![c].pc = "done"]
      BY <1>2 DEF Dispatch
    <2>2. \A d \in Calls : d # c => call'[d] = call[d]
      BY <2>1 DEF BindingInv
    <2>3. call'[c].model = call[c].model /\ call'[c].kind = call[c].kind
      <3>1. call'[c] = [call[c] EXCEPT !.pc = "done"]
        BY <2>1 DEF BindingInv
      <3>2. PICK p, m, k, s, f : call[c] = [pc |-> p, model |-> m, kind |-> k, source |-> s, found |-> f]
        BY DEF BindingInv, BoundFor, IsCall
      <3> QED BY <3>1, <3>2
    <2>4. ASSUME NEW d \in Calls, explicit, call'[d].pc \in {"resolved", "done"} PROVE AllowedFor(d)'
      <3>1. AllowedFor(d)
        BY <2>1, <2>2, <2>4 DEF AuthorityInv
      <3>2. call'[d].model = call[d].model /\ call'[d].kind = call[d].kind
        BY <2>2, <2>3
      <3> QED BY <2>1, <3>1, <3>2 DEF AllowedFor
    <2> QED BY <2>1, <2>4 DEF AuthorityInv, ValidRegistry
  <1>3. ASSUME UNCHANGED <<explicit, cache, call>>, file' \in RegistryFiles PROVE AuthorityInv'
    BY <1>3 DEF AuthorityInv, ValidRegistry, AllowedFor
  <1>4. ASSUME NEW f \in RegistryFiles, EditRegistry(f) PROVE AuthorityInv'
    BY <1>3, <1>4 DEF EditRegistry
  <1>5. ASSUME UNCHANGED <<explicit, cache, call, file>> PROVE AuthorityInv'
    BY <1>3, <1>5 DEF AuthorityInv
  <1> QED BY <1>1, <1>2, <1>4, <1>5 DEF CatNext, catVars, RegisterAdapter

\* With a registry configured, a request reaches a runtime only for a model the
\* registry that was loaded has enabled, on the runtime of its engine, whatever is
\* on disk, loaded or edited since (resolve_model_runtime, Runtime._load_registry).
THEOREM RegistryDecides == CatSpec => []RegistryIsAuthoritative
  <1>1. BindingInv /\ AuthorityInv => RegistryIsAuthoritative
    <2> SUFFICES ASSUME BindingInv, AuthorityInv, explicit, NEW c \in Calls, sent[c] # Nothing
                 PROVE  /\ cache.state = "ok" /\ call[c].model \in DOMAIN cache.models
                        /\ LET e == cache.models[call[c].model]
                           IN  /\ e.enabled /\ sent[c].kind = EngineKind[e.engine]
                               /\ (e.format = "gguf") = (sent[c].kind = "llama_cpp")
                               /\ e.vision => sent[c].kind = "mlx_vlm"
      BY DEF RegistryIsAuthoritative
    <2> DEFINE e == cache.models[call[c].model]
    <2>1. SentFor(c) /\ AllowedFor(c)
      BY DEF BindingInv, BoundFor, SentFor, AuthorityInv
    <2>2. e.engine \in Engines /\ ValidateRegistryEntry(e)
      BY <2>1 DEF AuthorityInv, ValidRegistry, AllowedFor, Unread, Failed
    <2>3. /\ e.enabled /\ sent[c].kind = EngineKind[e.engine] /\ cache.state = "ok"
          /\ call[c].model \in DOMAIN cache.models
      BY <2>1 DEF SentFor, AllowedFor
    <2> HIDE DEF e
    <2>4. EngineKind[e.engine] = IF e.engine = "mlx_lm" THEN "mlx_lm_server" ELSE e.engine
      BY <2>2 DEF EngineKind
    <2>5. (e.format = "gguf") = (sent[c].kind = "llama_cpp")
      BY <2>2, <2>3, <2>4 DEF ValidateRegistryEntry
    <2>6. e.vision => sent[c].kind = "mlx_vlm"
      BY <2>2, <2>3, <2>4 DEF ValidateRegistryEntry
    <2> QED BY <2>3, <2>5, <2>6 DEF e
  <1> QED BY <1>1, BindingInitially, BindingStep, AuthorityInitially, AuthorityStep, PTL DEF CatSpec
(***************************************************************************)
(* The model lists.  What is listed and what is served are two scans of    *)
(* the same disk; they agree because both go through the routes in one     *)
(* order and both take the first that matches.                             *)
(***************************************************************************)
\* A non-empty set of numbers has a least element.
LEMMA LeastNumber ==
    ASSUME NEW T, T \subseteq Nat, T # {}
    PROVE  \E x \in T : \A y \in T : x <= y
  <1>1. PICK x \in T : \A y \in T : ~(<<y, x>> \in OpToRel(<, Nat))
    BY NatLessThanWellFounded, WFMin
  <1>2. ASSUME NEW y \in T PROVE x <= y
    <2>1. x \in Nat /\ y \in Nat
      OBVIOUS
    <2>2. ~(y < x)
      BY <1>1, <2>1 DEF OpToRel
    <2> QED BY <2>1, <2>2
  <1> QED BY <1>2

\* The routes and their order.
LEMMA RouteOrder ==
    /\ DOMAIN Routes \subseteq Nat /\ IsFiniteSet(DOMAIN Routes)
    /\ \A i, j \in DOMAIN Routes : i = j \/ Before(i, j) \/ Before(j, i)
    /\ \A i \in DOMAIN Routes : ~Before(i, i)
    /\ \A i, j, k \in DOMAIN Routes : Before(i, j) /\ Before(j, k) => Before(i, k)
  <1>1. DOMAIN Routes = 1..Len(Routes) /\ Len(Routes) \in Nat
    BY ExternalModelsAssumption
  <1>2. \A i \in DOMAIN Routes : i \in Nat /\ Routes[i].priority \in Int
    <2> SUFFICES ASSUME NEW i \in DOMAIN Routes PROVE i \in Nat /\ Routes[i].priority \in Int
      OBVIOUS
    <2> DEFINE Rec == [root : STRING, enabled : BOOLEAN, priority : Int]
    <2>1. Routes \in Seq(Rec)
      BY ExternalModelsAssumption
    <2> HIDE DEF Rec
    <2>2. Routes[i] \in Rec
      BY <1>1, <2>1
    <2> QED BY <1>1, <2>2 DEF Rec
  <1>3. IsFiniteSet(DOMAIN Routes)
    <2>1. 1 \in Int /\ Len(Routes) \in Int
      BY <1>1
    <2>2. IsFiniteSet(1..Len(Routes))
      BY <2>1, FS_Interval
    <2> QED BY <1>1, <2>2
  <1>4. \A i, j \in DOMAIN Routes : i = j \/ Before(i, j) \/ Before(j, i)
    BY <1>2 DEF Before
  <1>5. \A i \in DOMAIN Routes : ~Before(i, i)
    BY <1>2 DEF Before
  <1>6. ASSUME NEW i \in DOMAIN Routes, NEW j \in DOMAIN Routes, NEW k \in DOMAIN Routes,
               Before(i, j), Before(j, k)
        PROVE  Before(i, k)
    BY <1>2, <1>6 DEF Before
  <1> QED BY <1>2, <1>3, <1>4, <1>5, <1>6

\* Among routes one comes before all others, and it is the one chosen.
LEMMA FirstRoute ==
    ASSUME NEW S, S \subseteq DOMAIN Routes, S # {}
    PROVE  LET first == CHOOSE i \in S : \A j \in S : ~Before(j, i)
           IN  first \in S /\ \A j \in S : j = first \/ Before(first, j)
  <1> DEFINE Ahead(i) == {j \in S : Before(j, i)}
             R(i) == Cardinality(Ahead(i))
             T == {R(i) : i \in S}
             first == CHOOSE i \in S : \A j \in S : ~Before(j, i)
  <1>1. \A i : Ahead(i) \subseteq S
    OBVIOUS
  <1>2. IsFiniteSet(S)
    BY RouteOrder, FS_Subset
  <1>3. \A i : IsFiniteSet(Ahead(i)) /\ R(i) \in Nat
    <2> SUFFICES ASSUME NEW i PROVE IsFiniteSet(Ahead(i)) /\ R(i) \in Nat
      OBVIOUS
    <2> HIDE DEF Ahead
    <2> QED BY <1>1, <1>2, FS_Subset, FS_CardinalityType
  <1>4. ASSUME NEW i \in S, NEW j \in S, Before(j, i) PROVE R(j) < R(i)
    <2>1. Ahead(j) \subseteq Ahead(i)
      BY <1>4, RouteOrder
    <2>2. j \in Ahead(i) /\ j \notin Ahead(j)
      BY <1>4, RouteOrder
    <2> HIDE DEF Ahead
    <2>3. /\ Cardinality(Ahead(j)) <= Cardinality(Ahead(i))
          /\ Cardinality(Ahead(i)) = Cardinality(Ahead(j)) => Ahead(i) = Ahead(j)
      BY <1>3, <2>1, FS_Subset
    <2>4. R(j) \in Nat /\ R(i) \in Nat /\ R(j) # R(i)
      BY <1>3, <2>2, <2>3
    <2> QED BY <2>3, <2>4
  <1>5. PICK x \in T : \A y \in T : x <= y
    <2>1. T \subseteq Nat /\ T # {}
      BY <1>3
    <2> HIDE DEF T
    <2> QED BY <2>1, LeastNumber
  <1>6. PICK i \in S : x = R(i)
    OBVIOUS
  <1>7. ASSUME NEW j \in S PROVE ~Before(j, i)
    <2>1. R(i) <= R(j)
      BY <1>5, <1>6
    <2>2. R(i) \in Nat /\ R(j) \in Nat
      BY <1>3
    <2> HIDE DEF R
    <2>3. Before(j, i) => R(j) < R(i)
      BY <1>4
    <2> QED BY <2>1, <2>2, <2>3
  <1>8. first \in S /\ \A j \in S : ~Before(j, first)
    BY <1>7
  <1> HIDE DEF first
  <1>9. \A j \in S : j = first \/ Before(first, j)
    BY <1>8, RouteOrder
  <1> QED BY <1>8, <1>9 DEF first

\* Where an entry was found, and that nothing of its id comes before.
LEMMA ListedPlace ==
    ASSUME NEW e \in ListExternalModelInventory
    PROVE  \E i \in AvailableRoutes, f \in DOMAIN Formats, r \in DOMAIN Repos, n \in 0..Len(Files) :
              /\ n \in ScanRepo(Routes[i].root, Formats[f], Repos[r])
              /\ e = EntryAt(<<i, f, r, n>>)
              /\ \A j \in AvailableRoutes, m \in 0..Len(Files) :
                    /\ m \in ScanRepo(Routes[j].root, Formats[f], Repos[r])
                    /\ EntryAt(<<j, f, r, m>>).id = e.id
                    => ~Before(j, i) /\ (j = i => ~(m < n))
  <1>1. PICK p \in Places : e = EntryAt(p) /\ ~\E q \in Places : Precedes(q, p) /\ EntryAt(q).id = e.id
    BY DEF ListExternalModelInventory
  <1>2. PICK i \in AvailableRoutes, f \in DOMAIN Formats, r \in DOMAIN Repos, n \in 0..Len(Files) :
           p = <<i, f, r, n>>
    BY DEF Places
  <1>3. n \in ScanRepo(Routes[i].root, Formats[f], Repos[r])
    BY <1>1, <1>2 DEF Places
  <1>4. ASSUME NEW j \in AvailableRoutes, NEW m \in 0..Len(Files),
               m \in ScanRepo(Routes[j].root, Formats[f], Repos[r]), EntryAt(<<j, f, r, m>>).id = e.id
        PROVE  ~Before(j, i) /\ (j = i => ~(m < n))
    <2> DEFINE q == <<j, f, r, m>>
    <2>1. q \in Places
      BY <1>4 DEF Places
    <2>2. ~Precedes(q, p)
      BY <1>1, <1>4, <2>1
    <2>3. q[1] = j /\ q[2] = f /\ q[3] = r /\ q[4] = m /\ p[1] = i /\ p[2] = f /\ p[3] = r /\ p[4] = n
      BY <1>2
    <2> HIDE DEF q
    <2> QED BY <2>2, <2>3 DEF Precedes
  <1> QED BY <1>1, <1>2, <1>3, <1>4

\* One entry per name: the three sources of the list skip what is there already.
LEMMA NamesAreListedOnce == ListedOnce
  <1> DEFINE reg == LoadRegistry
             base == BuiltIn(reg)
             ext == ListExternalModelInventory
  <1> SUFFICES ASSUME NEW a \in BuildModelList(reg), NEW b \in BuildModelList(reg)
               PROVE  /\ a.id = b.id => a = b
                      /\ a.id \in BuiltIn(reg) => a.source = "built_in"
    BY DEF ListedOnce
  <1>1. ASSUME NEW x \in BuildModelList(reg)
        PROVE  \/ x = [id |-> x.id, source |-> "built_in"] /\ x.id \in base
               \/ x = [id |-> x.id, source |-> "registered"] /\ x.id \in StoreListed \ base
               \/ x = [id |-> x.id, source |-> "external"] /\ x.id \notin base \cup StoreListed
    <2> HIDE DEF base
    <2>1. CASE x \in {[id |-> m, source |-> "built_in"] : m \in base}
      BY <2>1
    <2>2. CASE x \in AppendRegisteredModels(base)
      BY <2>2 DEF AppendRegisteredModels
    <2>3. CASE x \in AppendExternalModels(base \cup StoreListed)
      BY <2>3 DEF AppendExternalModels
    <2> QED BY <1>1, <2>1, <2>2, <2>3 DEF BuildModelList, base
  <1> HIDE DEF base, reg
  <1>2. /\ \/ a = [id |-> a.id, source |-> "built_in"] /\ a.id \in base
           \/ a = [id |-> a.id, source |-> "registered"] /\ a.id \in StoreListed \ base
           \/ a = [id |-> a.id, source |-> "external"] /\ a.id \notin base \cup StoreListed
        /\ \/ b = [id |-> b.id, source |-> "built_in"] /\ b.id \in base
           \/ b = [id |-> b.id, source |-> "registered"] /\ b.id \in StoreListed \ base
           \/ b = [id |-> b.id, source |-> "external"] /\ b.id \notin base \cup StoreListed
    BY <1>1
  <1>3. a.id \in base => a.source = "built_in"
    BY <1>2
  <1>4. a.id = b.id => a = b
    BY <1>2
  <1> QED BY <1>3, <1>4 DEF base

\* A listed GGUF file is the one its id leads to, unless that leads to a stray file;
\* the root is right in any case that is left.
LEMMA GgufIsServed ==
    ASSUME NEW e \in ListExternalModelInventory, e.format = "gguf",
           e.id.repo \in GgufNamed, ResolveExternalRuntimeModel(e).status = "found",
           ~Stray(ResolveExternalRuntimeModel(e).file, e.id.suffix)
    PROVE  /\ ResolveExternalRuntimeModel(e).root = e.root
           /\ e.id.suffix \in Spells[e.file] => ResolveExternalRuntimeModel(e).file = e.file
  <1>1. PICK i \in AvailableRoutes, f \in DOMAIN Formats, r \in DOMAIN Repos, n \in 0..Len(Files) :
          /\ n \in ScanRepo(Routes[i].root, Formats[f], Repos[r])
          /\ e = EntryAt(<<i, f, r, n>>)
          /\ \A j \in AvailableRoutes, m \in 0..Len(Files) :
                /\ m \in ScanRepo(Routes[j].root, Formats[f], Repos[r])
                /\ EntryAt(<<j, f, r, m>>).id = e.id
                => ~Before(j, i) /\ (j = i => ~(m < n))
    BY ListedPlace
  <1> DEFINE repo == Repos[r]
             q == Quant[Files[n]]
  <1>2. Formats[f] = "gguf"
    BY <1>1 DEF EntryAt, Entry
  <1>3. /\ e.id = PublicId(repo, q) /\ e.id.repo = repo /\ e.id.suffix = q
        /\ e.root = Routes[i].root /\ e.file = Files[n] /\ e.runtime = "llama_cpp"
    BY <1>1, <1>2 DEF EntryAt, Entry, PublicId
  <1>4. ASSUME NEW j PROVE /\ HasDir(Routes[j].root, "gguf", repo)
                              => ScanRepo(Routes[j].root, Formats[f], repo) =
                                   {m \in GgufFiles(Routes[j].root, repo) : Files[m] \notin Hidden}
                           /\ ~HasDir(Routes[j].root, "gguf", repo)
                              => ScanRepo(Routes[j].root, Formats[f], repo) = {}
    BY <1>2 DEF ScanRepo
  <1>5. HasDir(Routes[i].root, "gguf", repo) /\ n \in GgufFiles(Routes[i].root, repo)
    BY <1>1, <1>4
  <1>6. n \in DOMAIN Files /\ DOMAIN Files = 1..Len(Files) /\ Len(Files) \in Nat /\ q # None
    BY <1>5, ExternalModelsAssumption DEF GgufFiles
  <1>7. ParseExternalModelPublicId(e.id) = q
    BY <1>3, <1>6 DEF ParseExternalModelPublicId
  <1> DEFINE having == RoutesHaving("gguf", repo)
             first == CHOOSE k \in having : \A j \in having : ~Before(j, k)
             root == Routes[first].root
  <1>8. /\ having \subseteq DOMAIN Routes /\ i \in having
        /\ \A j \in having : j \in AvailableRoutes /\ HasDir(Routes[j].root, "gguf", repo)
    BY <1>5 DEF RoutesHaving, AvailableRoutes
  <1>9. ResolveExternalRuntimeModel(e) = ValidateGguf(root, repo, q)
    <2>1. ResolveExternalRuntimeModel(e) = ResolveModel("gguf", repo, q)
      BY <1>3, <1>7 DEF ResolveExternalRuntimeModel
    <2>2. ResolveModel("gguf", repo, q) = ValidateDirectory(root, "gguf", repo, q)
      BY <1>8 DEF ResolveModel
    <2> QED BY <2>1, <2>2 DEF ValidateDirectory
  <1>10. first \in having /\ \A j \in having : j = first \/ Before(first, j)
    <2> HIDE DEF having
    <2> QED BY <1>8, FirstRoute
  <1> HIDE DEF having, first
  <1> DEFINE files == GgufFiles(root, repo)
             matched == {m \in files : q = None \/ q \in Spells[Files[m]]}
             taken == CHOOSE m \in matched : \A k \in matched : m <= k
  <1>11. /\ ValidateGguf(root, repo, q).status = "found"
         /\ matched # {} => ValidateGguf(root, repo, q) = [status |-> "found", root |-> root, file |-> Files[taken]]
         /\ matched = {} => ValidateGguf(root, repo, q).status # "found"
    <2>1. ValidateGguf(root, repo, q).status = "found"
      BY <1>9
    <2>2. matched \subseteq files
      OBVIOUS
    <2>3. ValidateGguf(root, repo, q) =
            CASE files = {} -> [Missing EXCEPT !.status = "invalid_layout"]
              [] files # {} /\ matched = {} -> Missing
              [] matched # {} -> [status |-> "found", root |-> root, file |-> Files[taken]]
      BY DEF ValidateGguf
    <2> HIDE DEF files, matched, taken, root
    <2>4. CASE matched # {}
      BY <2>1, <2>2, <2>3, <2>4
    <2>5. CASE matched = {}
      <3>1. ValidateGguf(root, repo, q) \in {[Missing EXCEPT !.status = "invalid_layout"], Missing}
        BY <2>2, <2>3, <2>5
      <3> QED BY <2>1, <2>5, <3>1 DEF Missing
    <2> QED BY <2>4, <2>5
  <1>12. matched \subseteq DOMAIN Files /\ matched \subseteq files
    BY DEF GgufFiles
  <1>13. taken \in matched /\ \A m \in matched : taken <= m
    <2> HIDE DEF matched
    <2>1. matched \subseteq Nat /\ matched # {}
      BY <1>6, <1>11, <1>12
    <2> QED BY <2>1, LeastNumber
  <1>14. ValidateGguf(root, repo, q) = [status |-> "found", root |-> root, file |-> Files[taken]]
    <2> HIDE DEF matched, taken
    <2> QED BY <1>11, <1>13
  <1>15. Files[taken] \notin Hidden /\ Quant[Files[taken]] = q
    <2> HIDE DEF taken
    <2> QED BY <1>3, <1>9, <1>14 DEF Stray
  <1>16. first = i /\ ~(taken < n)
    <2> DEFINE p == <<first, f, r, taken>>
    <2>1. /\ first \in AvailableRoutes /\ taken \in files /\ taken \in 0..Len(Files) /\ Quant[Files[taken]] = q
          /\ HasDir(root, "gguf", repo)
      <3> HIDE DEF taken, files, matched
      <3> QED BY <1>6, <1>8, <1>10, <1>12, <1>13, <1>15
    <2>2. taken \in ScanRepo(root, Formats[f], repo)
      <3> HIDE DEF taken
      <3> QED BY <1>4, <1>15, <2>1
    <2> HIDE DEF taken
    <2>3. EntryAt(p).id = e.id
      BY <1>2, <1>3, <2>1 DEF EntryAt, Entry
    <2>4. ~Before(first, i) /\ (first = i => ~(taken < n))
      BY <1>1, <2>1, <2>2, <2>3
    <2> QED BY <1>8, <1>10, <2>4
  <1>17. q \in Spells[Files[n]] => n \in matched
    BY <1>5, <1>16
  <1>18. ASSUME q \in Spells[Files[n]] PROVE taken = n
    <2>1. taken \in Nat /\ n \in Nat /\ taken <= n /\ ~(taken < n)
      <3> HIDE DEF matched, taken
      <3> QED BY <1>6, <1>12, <1>13, <1>16, <1>17, <1>18
    <2> HIDE DEF taken
    <2> QED BY <2>1
  <1> HIDE DEF taken
  <1> QED BY <1>3, <1>9, <1>16, <1>18, <1>14

\* A listed MLX repository is the one its id leads to.
LEMMA MlxIsServed ==
    ASSUME NEW e \in ListExternalModelInventory, e.format # "gguf",
           ResolveExternalRuntimeModel(e).status = "found"
    PROVE  /\ ResolveExternalRuntimeModel(e).root = e.root
           /\ ResolveExternalRuntimeModel(e).file = e.file
  <1>1. PICK i \in AvailableRoutes, f \in DOMAIN Formats, r \in DOMAIN Repos, n \in 0..Len(Files) :
          /\ n \in ScanRepo(Routes[i].root, Formats[f], Repos[r])
          /\ e = EntryAt(<<i, f, r, n>>)
          /\ \A j \in AvailableRoutes, m \in 0..Len(Files) :
                /\ m \in ScanRepo(Routes[j].root, Formats[f], Repos[r])
                /\ EntryAt(<<j, f, r, m>>).id = e.id
                => ~Before(j, i) /\ (j = i => ~(m < n))
    BY ListedPlace
  <1> DEFINE repo == Repos[r]
  <1>2. Formats[f] # "gguf" /\ Formats[f] \in {"gguf", "mlx", "safetensors"}
    <2>1. Formats[f] = "gguf" => e.format = "gguf"
      BY <1>1 DEF EntryAt, Entry
    <2>2. f \in {1, 2, 3}
      BY DEF Formats
    <2> QED BY <2>1, <2>2 DEF Formats
  <1>3. /\ e.id = PublicId(repo, None) /\ e.id.repo = repo /\ e.id.suffix = None
        /\ e.root = Routes[i].root /\ e.file = None /\ e.format = Formats[f]
        /\ Formats[f] = "safetensors" => e.runtime = "unsupported"
        /\ Formats[f] = "mlx" => e.runtime = "mlx_lm"
    BY <1>1, <1>2 DEF EntryAt, Entry, PublicId
  <1>4. Formats[f] = "mlx"
    <2>1. e.runtime # "unsupported"
      <3>1. e.runtime = "unsupported" => ResolveExternalRuntimeModel(e).status = "not_servable"
        BY DEF ResolveExternalRuntimeModel, Missing
      <3> QED BY <3>1
    <2> QED BY <1>2, <1>3, <2>1
  <1>5. HasDir(Routes[i].root, "mlx", repo)
    BY <1>1, <1>4 DEF ScanRepo
  <1> DEFINE having == RoutesHaving("mlx", repo)
             first == CHOOSE k \in having : \A j \in having : ~Before(j, k)
             root == Routes[first].root
  <1>6. /\ having \subseteq DOMAIN Routes /\ i \in having
        /\ \A j \in having : j \in AvailableRoutes /\ HasDir(Routes[j].root, "mlx", repo)
    BY <1>5 DEF RoutesHaving, AvailableRoutes
  <1>7. ResolveExternalRuntimeModel(e) = ValidateMlx(root, repo)
    <2>1. ResolveExternalRuntimeModel(e) = ResolveModel("mlx", repo, None)
      BY <1>3, <1>4 DEF ResolveExternalRuntimeModel, ParseExternalModelPublicId
    <2>2. ResolveModel("mlx", repo, None) = ValidateDirectory(root, "mlx", repo, None)
      BY <1>6 DEF ResolveModel
    <2> QED BY <2>1, <2>2 DEF ValidateDirectory
  <1>8. first \in having /\ \A j \in having : j = first \/ Before(first, j)
    <2> HIDE DEF having
    <2> QED BY <1>6, FirstRoute
  <1> HIDE DEF having, first
  <1>9. /\ "config.json" \in Held(root, "mlx", repo)
        /\ ValidateMlx(root, repo) = [status |-> "found", root |-> root, file |-> None]
    BY <1>7 DEF ValidateMlx, Missing
  <1>10. first = i
    <2>1. 0 \in ScanRepo(root, Formats[f], repo) /\ 0 \in 0..Len(Files) /\ first \in AvailableRoutes
      <3>1. HasDir(root, "mlx", repo) /\ first \in AvailableRoutes
        BY <1>6, <1>8
      <3>2. Len(Files) \in Nat
        BY ExternalModelsAssumption
      <3> QED BY <1>4, <1>9, <3>1, <3>2 DEF ScanRepo
    <2>2. EntryAt(<<first, f, r, 0>>).id = e.id
      BY <1>2, <1>3 DEF EntryAt, Entry
    <2>3. ~Before(first, i)
      BY <1>1, <2>1, <2>2
    <2> QED BY <1>6, <1>8, <2>3
  <1> QED BY <1>3, <1>7, <1>9, <1>10

\* The lists can be relied on, whatever is registered, mounted or moved: a name stands
\* there once, as the registry's if the registry knows it, and an external name leads to
\* the very root and file it was listed for, unless a hidden file or one with another
\* quantization answers to it first, or the listed file's name does not contain its own id
\* (build_openai_model_list, list_external_model_inventory, resolve_model).
THEOREM ListingsAreHonest == CatSpec => []ListingsHonest
  <1>1. ListedIsServed
    BY GgufIsServed, MlxIsServed DEF ListedIsServed
  <1>2. ListingsHonest
    BY <1>1, NamesAreListedOnce DEF ListingsHonest
  <1> QED BY <1>2, PTL

================================================================================
