---------------------------- MODULE ContinuousProofs ----------------------------
(***************************************************************************)
(* Theorems about the continuous-batching prototype for every number of    *)
(* requests and slots and every per-tick limit: what its streams deliver   *)
(* and that its tables agree with one another.                             *)
(***************************************************************************)
EXTENDS Continuous, TokenSteps, Batching, SequenceTheorems, FiniteSetTheorems, TLAPS

(***************************************************************************)
(* The streams.  They depend on nothing the scheduler keeps: the driver    *)
(* may order, drop and repeat chunks as it likes.                          *)
(***************************************************************************)
StreamRec ==
    [state : {"absent", "open"} \cup Terminal,
     events : Seq([kind : {"chunk"} \cup Terminal, index : Nat])]

StreamInv == stream \in [Requests -> StreamRec] /\ StreamsAreOrdered

\* One stream is in order.
Ordered(s) ==
    /\ \A i \in 1..Len(s.events) : s.events[i].index = i - 1
    /\ \A i \in 1..Len(s.events) :
         (s.events[i].kind # "chunk") <=> (i = Len(s.events) /\ s.state \in Terminal)

\* An event with the next index keeps an unfinished stream in order; a terminal
\* event finishes it.
LEMMA NextEventKeepsOrder ==
    ASSUME NEW s \in StreamRec, Ordered(s), s.state \in {"absent", "open"},
           NEW st \in {"open"} \cup Terminal,
           NEW e \in [kind : {"chunk"} \cup Terminal, index : Nat],
           e.index = Len(s.events), e.kind = IF st = "open" THEN "chunk" ELSE st
    PROVE  /\ [state |-> st, events |-> Append(s.events, e)] \in StreamRec
           /\ Ordered([state |-> st, events |-> Append(s.events, e)])
  <1> DEFINE n == Len(s.events)
             f == Append(s.events, e)
  <1>1. /\ s.events \in Seq([kind : {"chunk"} \cup Terminal, index : Nat]) /\ n \in Nat
        /\ f \in Seq([kind : {"chunk"} \cup Terminal, index : Nat])
        /\ Len(f) = n + 1 /\ f[n + 1] = e /\ \A i \in 1..n : f[i] = s.events[i]
    BY DEF StreamRec
  <1>2. s.state \notin Terminal /\ "chunk" \notin Terminal /\ "open" \notin Terminal
    BY DEF Terminal
  <1>3. \A i \in 1..n : s.events[i].index = i - 1 /\ s.events[i].kind = "chunk"
    BY <1>2 DEF Ordered
  <1> HIDE DEF f
  <1> HIDE DEF n
  <1>4. \A i \in 1..(n + 1) : i = n + 1 \/ (i \in 1..n /\ i # n + 1)
    <2>1. n \in Nat
      BY <1>1
    <2> QED BY <2>1
  <1>5. /\ \A i \in 1..(n + 1) : f[i].index = i - 1
        /\ \A i \in 1..(n + 1) : (f[i].kind # "chunk") <=> (i = n + 1 /\ st \in Terminal)
    <2> SUFFICES ASSUME NEW i \in 1..(n + 1)
                 PROVE  /\ f[i].index = i - 1
                        /\ (f[i].kind # "chunk") <=> (i = n + 1 /\ st \in Terminal)
      OBVIOUS
    <2>1. CASE i = n + 1
      BY <1>1, <1>2, <2>1 DEF n
    <2>2. CASE i \in 1..n /\ i # n + 1
      BY <1>1, <1>2, <1>3, <2>2
    <2> QED BY <1>4, <2>1, <2>2
  <1> DEFINE u == [state |-> st, events |-> f]
  <1>6. u.state = st /\ u.events = f /\ u \in StreamRec
    BY <1>1 DEF StreamRec
  <1> HIDE DEF u
  <1>7. Ordered(u)
    BY <1>1, <1>5, <1>6 DEF Ordered
  <1> QED BY <1>6, <1>7 DEF u, f

\* Every step keeps the streams in order.
LEMMA StreamStep ==
    ASSUME StreamInv, [CbNext]_cbVars
    PROVE  StreamInv'
  <1>1. StreamInv <=> stream \in [Requests -> StreamRec] /\ \A r \in Requests : Ordered(stream[r])
    BY DEF StreamInv, StreamsAreOrdered, Ordered
  <1>2. StreamInv' <=> stream' \in [Requests -> StreamRec] /\ \A r \in Requests : Ordered(stream'[r])
    BY DEF StreamInv, StreamsAreOrdered, Ordered
  <1>3. ASSUME stream' = stream PROVE StreamInv'
    BY <1>1, <1>2, <1>3
  <1>4. ASSUME NEW r \in Requests, NEW s \in StreamRec, Ordered(s),
               stream' = [stream EXCEPT ![r] = s]
        PROVE  StreamInv'
    BY <1>1, <1>2, <1>4
  <1>5. ASSUME NEW r \in Requests, OpenStream(r) PROVE StreamInv'
    <2>1. stream[r] \in StreamRec /\ Ordered(stream[r]) /\ stream[r].state = "absent"
      BY <1>1, <1>5 DEF OpenStream
    <2> DEFINE s == [stream[r] EXCEPT !.state = "open"]
    <2>2. s \in StreamRec /\ s.events = stream[r].events /\ s.state = "open"
      BY <2>1 DEF StreamRec
    <2>3. Ordered(s)
      BY <2>1, <2>2 DEF Ordered, Terminal
    <2>4. stream' = [stream EXCEPT ![r] = s]
      BY <1>5 DEF OpenStream
    <2> HIDE DEF s
    <2> QED BY <1>4, <2>2, <2>3, <2>4
  <1>6. ASSUME NEW c, NEW again, RouteChunk(c, again) PROVE StreamInv'
    <2>1. CASE Accepts(c) /\ c.req \in Requests
      <3>1. /\ stream[c.req] \in StreamRec /\ Ordered(stream[c.req]) /\ stream[c.req].state = "open"
            /\ c.index = Len(stream[c.req].events)
        BY <1>1, <2>1 DEF Accepts
      <3> DEFINE e == [kind |-> "chunk", index |-> c.index]
                 s == [state |-> "open", events |-> Append(stream[c.req].events, e)]
      <3>2. /\ e \in [kind : {"chunk"} \cup Terminal, index : Nat]
            /\ e.kind = "chunk" /\ e.index = Len(stream[c.req].events)
        BY <3>1 DEF StreamRec
      <3>3. s \in StreamRec /\ Ordered(s)
        BY <3>1, <3>2, NextEventKeepsOrder
      <3>4. stream' = [stream EXCEPT ![c.req] = s]
        <4>1. [stream[c.req] EXCEPT !.events = Append(stream[c.req].events, e)] = s
          <5>1. \A x : stream[c.req] \in [state : {"absent", "open"} \cup Terminal,
                           events : Seq([kind : {"chunk"} \cup Terminal, index : Nat])]
                         /\ stream[c.req].state = "open"
                       => [stream[c.req] EXCEPT !.events = x] = [state |-> "open", events |-> x]
            OBVIOUS
          <5> QED BY <3>1, <5>1 DEF StreamRec
        <4>2. stream' = [stream EXCEPT ![c.req] =
                           [stream[c.req] EXCEPT !.events = Append(stream[c.req].events, e)]]
          BY <1>6, <2>1 DEF RouteChunk
        <4> QED BY <4>1, <4>2
      <3> HIDE DEF s
      <3> QED BY <1>4, <2>1, <3>3, <3>4
    <2>2. CASE ~(Accepts(c) /\ c.req \in Requests)
      BY <1>1, <1>2, <1>6, <2>2 DEF RouteChunk
    <2> QED BY <2>1, <2>2
  <1>7. ASSUME NEW r \in Requests, Close(r) PROVE StreamInv'
    <2> DEFINE how == job[r].state
    <2>1. how \in Terminal /\ stream[r].state = "open" /\ stream[r] \in StreamRec /\ Ordered(stream[r])
      BY <1>1, <1>7 DEF Close, EmitTerminal
    <2> DEFINE e == [kind |-> how, index |-> Len(stream[r].events)]
               s == [state |-> how, events |-> Append(stream[r].events, e)]
    <2>2. /\ e \in [kind : {"chunk"} \cup Terminal, index : Nat]
          /\ e.kind = how /\ e.index = Len(stream[r].events) /\ how # "open"
      BY <2>1 DEF StreamRec, Terminal
    <2>3. s \in StreamRec /\ Ordered(s)
      BY <2>1, <2>2, NextEventKeepsOrder
    <2>4. stream' = [stream EXCEPT ![r] = s]
      BY <1>7 DEF Close, EmitTerminal
    <2> HIDE DEF s
    <2> QED BY <1>4, <2>3, <2>4
  <1>8. CASE Tick \/ UNCHANGED cbVars
    BY <1>3, <1>8 DEF Tick, cbVars
  <1>9. ASSUME NEW r \in Requests,
               Admit(r) \/ (\E how \in Ends : End(r, how)) \/ DrainOutputs(r)
        PROVE  StreamInv'
    BY <1>3, <1>9 DEF Admit, End, DrainOutputs
  <1> QED BY <1>5, <1>6, <1>7, <1>8, <1>9 DEF CbNext

\* Every stream delivers chunk 0, 1, 2, ... without gap or repetition and at most one
\* terminal event, which is the last, however the driver orders, loses or repeats
\* chunks (route_chunk, _emit_terminal).
THEOREM StreamsStayOrdered == CbSpec => []StreamsAreOrdered
  <1>1. CbInit => StreamInv
    BY DEF CbInit, StreamInv, StreamRec, StreamsAreOrdered
  <1>2. StreamInv /\ [CbNext]_cbVars => StreamInv'
    BY StreamStep
  <1>3. StreamInv => StreamsAreOrdered
    BY DEF StreamInv
  <1> QED BY <1>1, <1>2, <1>3, PTL DEF CbSpec

(***************************************************************************)
(* Ranks.  The k-th request that waits gets the k-th empty slot, so the    *)
(* proof needs that a finite set of numbers has a k-th element, and that   *)
(* two elements have different ranks.                                      *)
(***************************************************************************)
RankIn(E, s) == Cardinality({t \in E : t <= s})

\* A larger element has a larger rank, and ranks count from one to the size.
LEMMA RankGrows ==
    ASSUME NEW E, E \subseteq Nat, IsFiniteSet(E), NEW s \in E
    PROVE  /\ RankIn(E, s) \in 1..Cardinality(E)
           /\ \A u \in E : s < u => RankIn(E, s) < RankIn(E, u)
  <1>1. \A u \in E : /\ IsFiniteSet({t \in E : t <= u}) /\ RankIn(E, u) \in Nat
                     /\ RankIn(E, u) <= Cardinality(E)
    <2> SUFFICES ASSUME NEW u \in E
                 PROVE  /\ IsFiniteSet({t \in E : t <= u}) /\ RankIn(E, u) \in Nat
                        /\ RankIn(E, u) <= Cardinality(E)
      OBVIOUS
    <2>1. {t \in E : t <= u} \subseteq E
      OBVIOUS
    <2> QED BY <2>1, FS_Subset, FS_CardinalityType DEF RankIn
  <1>2. RankIn(E, s) # 0
    <2>1. s \in {t \in E : t <= s}
      OBVIOUS
    <2> QED BY <1>1, <2>1, FS_EmptySet DEF RankIn
  <1>3. ASSUME NEW u \in E, s < u PROVE RankIn(E, s) < RankIn(E, u)
    <2>1. {t \in E : t <= s} \subseteq {t \in E : t <= u}
      <3> SUFFICES ASSUME NEW t \in E, t <= s PROVE t <= u
        OBVIOUS
      <3>1. t \in Nat /\ s \in Nat /\ u \in Nat
        OBVIOUS
      <3> QED BY <1>3, <3>1
    <2>2. u \in {t \in E : t <= u} /\ u \notin {t \in E : t <= s}
      <3>1. u \in Nat /\ s \in Nat
        OBVIOUS
      <3> QED BY <1>3, <3>1
    <2>3. /\ Cardinality({t \in E : t <= s}) <= Cardinality({t \in E : t <= u})
          /\ Cardinality({t \in E : t <= u}) = Cardinality({t \in E : t <= s})
               => {t \in E : t <= u} = {t \in E : t <= s}
      BY <1>1, <2>1, FS_Subset
    <2> QED BY <1>1, <2>2, <2>3 DEF RankIn
  <1>4. Cardinality(E) \in Nat
    BY FS_CardinalityType
  <1>5. RankIn(E, s) \in Nat /\ RankIn(E, s) <= Cardinality(E)
    BY <1>1
  <1>6. RankIn(E, s) \in 1..Cardinality(E)
    BY <1>2, <1>4, <1>5
  <1> QED BY <1>3, <1>6

\* Every rank up to the size of the set is the rank of one of its elements.
LEMMA RankExists ==
    ASSUME NEW E, E \subseteq Nat, IsFiniteSet(E), NEW k \in 1..Cardinality(E)
    PROVE  \E s \in E : RankIn(E, s) = k
  <1> DEFINE f == [s \in E |-> RankIn(E, s)]
             N == 1..Cardinality(E)
  <1>1. Cardinality(E) \in Nat
    BY FS_CardinalityType
  <1>2. f \in [E -> N]
    BY RankGrows
  <1>3. ASSUME NEW s \in E, NEW u \in E, f[s] = f[u] PROVE s = u
    <2>1. RankIn(E, s) = RankIn(E, u) /\ RankIn(E, s) \in Nat
      <3>1. RankIn(E, s) \in 1..Cardinality(E)
        BY RankGrows
      <3> QED BY <1>1, <1>3, <3>1
    <2>2. s < u => RankIn(E, s) < RankIn(E, u)
      BY RankGrows
    <2>3. u < s => RankIn(E, u) < RankIn(E, s)
      BY RankGrows
    <2> QED BY <2>1, <2>2, <2>3
  <1>4. f \in Injection(E, N)
    BY <1>2, <1>3 DEF Injection, IsInjective
  <1>5. IsFiniteSet(N) /\ Cardinality(N) = Cardinality(E)
    BY <1>1, FS_Interval
  <1>6. f \in Surjection(E, N)
    BY <1>4, <1>5, FS_Injection
  <1> QED BY <1>6 DEF Surjection

\* A non-empty finite set of numbers has a least element, which Min picks.
LEMMA MinFacts ==
    ASSUME NEW E, E \subseteq Nat, IsFiniteSet(E), E # {}
    PROVE  Min(E) \in E /\ \A x \in E : Min(E) <= x
  <1>1. Cardinality(E) \in Nat /\ Cardinality(E) # 0
    BY FS_CardinalityType, FS_EmptySet
  <1>2. PICK s \in E : RankIn(E, s) = 1
    <2>1. 1 \in 1..Cardinality(E)
      BY <1>1
    <2> QED BY <2>1, RankExists
  <1>3. ASSUME NEW x \in E PROVE s <= x
    <2>1. x < s => RankIn(E, x) < RankIn(E, s) /\ RankIn(E, x) \in 1..Cardinality(E)
      BY RankGrows
    <2> QED BY <1>1, <1>2, <2>1
  <1> QED BY <1>3 DEF Min

(***************************************************************************)
(* The scheduler's tables                                                  *)
(***************************************************************************)
JobRec ==
    [state : {"absent", "admitted"} \cup Running \cup Terminal, slot : Slots \cup {None},
     steps : 0..MaxDecodeSteps, chunks : Seq(Chunk)]

SlotRec == [state : {"empty", "reserved", "released"}, owner : Requests \cup {None}]

SchedulerTypes ==
    /\ job \in [Requests -> JobRec]
    /\ pending \in Seq(Requests)
    /\ slot \in [Slots -> SlotRec]
    /\ wire \in SUBSET Chunk
    /\ reused \in SUBSET Requests

\* Running requests own the slots they name, and an id outside again owns no other.
Owned(jobs, slots, again) ==
    /\ jobs \in [Requests -> JobRec] /\ slots \in [Slots -> SlotRec]
    /\ \A r \in Requests : jobs[r].state \in Running => jobs[r].slot \in SlotsHeld(r, slots)
    /\ \A r \in Requests \ again :
          SlotsHeld(r, slots) \subseteq IF jobs[r].state \in Running THEN {jobs[r].slot} ELSE {}
    /\ \A s \in Slots : slots[s].owner # None => slots[s].state = "reserved"

SchedulerInv == SchedulerTypes /\ SlotSingleOwner /\ NoRequestForgotten

\* Numbers of requests and slots, and what None is not.
LEMMA Numbers ==
    /\ Requests \subseteq Nat /\ None \notin Requests
    /\ Slots \subseteq Nat /\ None \notin Slots /\ IsFiniteSet(Slots)
    /\ MaxDecodeSteps \in Nat \ {0}
    /\ "admitted" \notin Running /\ "admitted" \notin Terminal /\ "absent" \notin Running
    /\ Running \cap Terminal = {} /\ "prefill_pending" \in Running
  <1>1. MaxSlots \in Nat /\ MaxDecodeSteps \in Nat \ {0}
    BY ContinuousAssumption
  <1>2. Requests \subseteq Nat /\ None \notin Requests
    BY ContinuousAssumption, FS_CardinalityType DEF None
  <1>3. Slots \subseteq Nat /\ None \notin Slots
    BY <1>1 DEF Slots, None
  <1>4. IsFiniteSet(Slots)
    BY <1>1, FS_Interval DEF Slots
  <1> QED BY <1>1, <1>2, <1>3, <1>4 DEF Running, Terminal

\* _process_admission hands distinct empty slots to distinct waiting requests.
LEMMA Placement ==
    ASSUME SchedulerTypes
    PROVE  /\ \A i \in Placed : /\ SlotOf(i) \in EmptySlots /\ i \in 1..Len(pending)
                                /\ pending[i] \in Requests /\ job[pending[i]].state = "admitted"
           /\ \A i, j \in Placed : SlotOf(i) = SlotOf(j) => i = j
           /\ \A i, j \in Placed : pending[i] = pending[j] => i = j
  <1> DEFINE W == {k \in 1..Len(pending) : Waits(k)}
  <1>1. pending \in Seq(Requests) /\ Len(pending) \in Nat
    BY DEF SchedulerTypes
  <1>2. W \subseteq Nat /\ IsFiniteSet(W)
    <2>1. IsFiniteSet(1..Len(pending)) /\ 1..Len(pending) \subseteq Nat /\ W \subseteq 1..Len(pending)
      BY SMTT(40), <1>1, FS_Interval
    <2> QED BY <2>1, FS_Subset
  <1>3. EmptySlots \subseteq Nat /\ IsFiniteSet(EmptySlots)
    BY Numbers, FS_Subset DEF EmptySlots
  <1>4. ASSUME NEW i \in W PROVE Rank(i) = RankIn(W, i)
    <2>1. {k \in 1..i : Waits(k)} = {t \in W : t <= i}
      <3>1. i \in 1..Len(pending)
        OBVIOUS
      <3>2. \A k : k \in 1..i <=> k \in 1..Len(pending) /\ k <= i
        BY <1>1, <3>1
      <3> QED BY <3>2
    <2> QED BY <2>1 DEF Rank, RankIn
  <1>5. Placed \subseteq W
    BY DEF Placed
  <1> HIDE DEF W
  <1>6. \A i \in Placed : Rank(i) \in 1..Cardinality(EmptySlots)
    <2> SUFFICES ASSUME NEW i \in Placed PROVE Rank(i) \in 1..Cardinality(EmptySlots)
      OBVIOUS
    <2>1. Rank(i) <= Cardinality(EmptySlots)
      BY DEF Placed
    <2>2. Rank(i) \in 1..Cardinality(W)
      BY <1>2, <1>4, <1>5, RankGrows
    <2>3. Cardinality(W) \in Nat /\ Cardinality(EmptySlots) \in Nat
      BY <1>2, <1>3, FS_CardinalityType
    <2> QED BY <2>1, <2>2, <2>3
  <1>7. ASSUME NEW i \in Placed
        PROVE  SlotOf(i) \in EmptySlots /\ RankIn(EmptySlots, SlotOf(i)) = Rank(i)
    <2>1. \E s \in EmptySlots : RankIn(EmptySlots, s) = Rank(i)
      BY <1>3, <1>6, RankExists
    <2> QED BY <2>1 DEF SlotOf, RankIn
  <1>8. ASSUME NEW i \in Placed, NEW j \in Placed, Rank(i) = Rank(j) PROVE i = j
    <2>1. RankIn(W, i) = RankIn(W, j) /\ RankIn(W, i) \in 1..Cardinality(W) /\ i \in Nat /\ j \in Nat
      BY <1>2, <1>4, <1>5, <1>8, RankGrows
    <2>2. (i < j => RankIn(W, i) < RankIn(W, j)) /\ (j < i => RankIn(W, j) < RankIn(W, i))
      BY <1>2, <1>5, RankGrows
    <2>3. Cardinality(W) \in Nat
      BY <1>2, FS_CardinalityType
    <2> QED BY <2>1, <2>2, <2>3
  <1>9. ASSUME NEW i \in Placed, NEW j \in Placed, pending[i] = pending[j] PROVE i = j
    <2>1. i \in 1..Len(pending) /\ j \in 1..Len(pending) /\ Waits(i) /\ Waits(j)
      BY DEF Placed
    <2>2. ~(i < j) /\ ~(j < i)
      BY <1>1, <1>9, <2>1 DEF Waits
    <2> QED BY <1>1, <2>1, <2>2
  <1>10. \A i \in Placed : i \in 1..Len(pending) /\ pending[i] \in Requests
                             /\ job[pending[i]].state = "admitted"
    BY <1>1 DEF Placed, Waits
  <1>11. \A i, j \in Placed : SlotOf(i) = SlotOf(j) => i = j
    BY <1>7, <1>8
  <1> QED BY <1>7, <1>9, <1>10, <1>11

\* _process_admission keeps the tables in agreement, and moves exactly the requests
\* it places out of the admitted state.
LEMMA AdmissionOwned ==
    ASSUME SchedulerTypes, SlotSingleOwner
    PROVE  /\ Owned(ProcessAdmission, AdmissionSlots, reused)
           /\ \A r \in Requests :
                ProcessAdmission[r].state = "admitted"
                  <=> job[r].state = "admitted" /\ ~\E i \in Placed : pending[i] = r
  <1> USE Numbers
  <1>1. /\ \A i \in Placed : /\ SlotOf(i) \in EmptySlots /\ i \in 1..Len(pending)
                             /\ pending[i] \in Requests /\ job[pending[i]].state = "admitted"
        /\ \A i, j \in Placed : SlotOf(i) = SlotOf(j) => i = j
        /\ \A i, j \in Placed : pending[i] = pending[j] => i = j
    BY Placement
  <1>2. \A s \in EmptySlots : s \in Slots /\ slot[s].owner = None
    BY DEF EmptySlots, SlotSingleOwner, SchedulerTypes, SlotRec
  <1>3. ASSUME NEW i \in Placed
        PROVE  /\ (CHOOSE j \in Placed : pending[j] = pending[i]) = i
               /\ (CHOOSE j \in Placed : SlotOf(j) = SlotOf(i)) = i
    BY <1>1
  <1>4. ASSUME NEW i \in Placed
        PROVE  /\ ProcessAdmission[pending[i]] =
                    [job[pending[i]] EXCEPT !.state = "prefill_pending", !.slot = SlotOf(i)]
               /\ AdmissionSlots[SlotOf(i)].state = "reserved"
               /\ AdmissionSlots[SlotOf(i)].owner = pending[i]
               /\ AdmissionSlots[SlotOf(i)] \in SlotRec
    <2>1. SlotOf(i) \in Slots /\ pending[i] \in Requests
      BY <1>1, <1>2
    <2>2. AdmissionSlots[SlotOf(i)] = [state |-> "reserved", owner |-> pending[i]]
      BY <1>3, <2>1 DEF AdmissionSlots
    <2>3. [state |-> "reserved", owner |-> pending[i]] \in SlotRec
      BY <2>1 DEF SlotRec
    <2>4. ProcessAdmission[pending[i]] =
            [job[pending[i]] EXCEPT !.state = "prefill_pending", !.slot = SlotOf(i)]
      BY <1>3, <2>1 DEF ProcessAdmission
    <2> QED BY <2>2, <2>3, <2>4
  <1>5. ASSUME NEW r \in Requests, ~\E i \in Placed : pending[i] = r
        PROVE  ProcessAdmission[r] = job[r]
    BY <1>5 DEF ProcessAdmission
  <1>6. ASSUME NEW s \in Slots, ~\E i \in Placed : SlotOf(i) = s
        PROVE  AdmissionSlots[s] = slot[s]
    BY <1>6 DEF AdmissionSlots
  <1>7. ASSUME NEW i \in Placed
        PROVE  /\ ProcessAdmission[pending[i]] \in JobRec
               /\ ProcessAdmission[pending[i]].state = "prefill_pending"
               /\ ProcessAdmission[pending[i]].slot = SlotOf(i)
    <2>1. job[pending[i]] \in JobRec /\ SlotOf(i) \in Slots
      BY <1>1, <1>2 DEF SchedulerTypes
    <2> DEFINE j == [job[pending[i]] EXCEPT !.state = "prefill_pending", !.slot = SlotOf(i)]
    <2>2. j \in JobRec /\ j.state = "prefill_pending" /\ j.slot = SlotOf(i)
      BY <2>1 DEF JobRec, Running
    <2>3. ProcessAdmission[pending[i]] = j
      BY <1>4
    <2> HIDE DEF j
    <2> QED BY <2>2, <2>3
  <1>8. ProcessAdmission \in [Requests -> JobRec]
    <2>1. \A r \in Requests : ProcessAdmission[r] \in JobRec
      BY <1>5, <1>7 DEF SchedulerTypes
    <2> QED BY <2>1 DEF ProcessAdmission
  <1>9. AdmissionSlots \in [Slots -> SlotRec]
    <2>1. \A s \in Slots : AdmissionSlots[s] \in SlotRec
      <3> SUFFICES ASSUME NEW s \in Slots PROVE AdmissionSlots[s] \in SlotRec
        OBVIOUS
      <3>1. CASE \E i \in Placed : SlotOf(i) = s
        BY <1>1, <1>4, <3>1 DEF SlotRec
      <3>2. CASE ~\E i \in Placed : SlotOf(i) = s
        BY <1>6, <3>2 DEF SchedulerTypes
      <3> QED BY <3>1, <3>2
    <2> QED BY <2>1 DEF AdmissionSlots
  <1>10. ASSUME NEW r \in Requests, NEW i \in Placed, pending[i] = r
         PROVE  /\ SlotOf(i) \in SlotsHeld(r, AdmissionSlots)
                /\ r \notin reused => SlotsHeld(r, AdmissionSlots) \subseteq {SlotOf(i)}
    <2>1. SlotOf(i) \in Slots /\ AdmissionSlots[SlotOf(i)].owner = r
      BY <1>1, <1>2, <1>4, <1>10
    <2>2. ASSUME r \notin reused, NEW s \in Slots, AdmissionSlots[s].owner = r PROVE s = SlotOf(i)
      <3>0. job[r].state \notin Running
        BY <1>1, <1>10 DEF Running
      <3>1. slot[s].owner # r
        BY <2>2, <3>0 DEF SlotSingleOwner, SlotsHeld
      <3>2. PICK j \in Placed : SlotOf(j) = s
        BY <1>6, <2>2, <3>1
      <3>3. pending[j] = r
        BY <1>4, <2>2, <3>2
      <3> QED BY <1>1, <1>10, <3>2, <3>3
    <2> QED BY <2>1, <2>2 DEF SlotsHeld
  <1>11. ASSUME NEW r \in Requests, ~\E i \in Placed : pending[i] = r
         PROVE  SlotsHeld(r, AdmissionSlots) = SlotsHeld(r, slot)
    <2>1. ASSUME NEW s \in Slots PROVE AdmissionSlots[s].owner = r <=> slot[s].owner = r
      <3>1. CASE \E i \in Placed : SlotOf(i) = s
        <4>1. PICK i \in Placed : SlotOf(i) = s
          BY <3>1
        <4>2. slot[s].owner # r
          BY <1>1, <1>2, <4>1
        <4>3. AdmissionSlots[s].owner # r
          BY <1>4, <1>11, <4>1
        <4> QED BY <4>2, <4>3
      <3>2. CASE ~\E i \in Placed : SlotOf(i) = s
        BY <1>6, <3>2
      <3> QED BY <3>1, <3>2
    <2> QED BY <2>1 DEF SlotsHeld
  <1>12. ASSUME NEW r \in Requests
         PROVE  /\ ProcessAdmission[r].state \in Running
                     => ProcessAdmission[r].slot \in SlotsHeld(r, AdmissionSlots)
                /\ r \notin reused => SlotsHeld(r, AdmissionSlots) \subseteq
                     IF ProcessAdmission[r].state \in Running THEN {ProcessAdmission[r].slot} ELSE {}
    <2>1. CASE \E i \in Placed : pending[i] = r
      BY <1>7, <1>10, <2>1
    <2>2. CASE ~\E i \in Placed : pending[i] = r
      BY <1>5, <1>11, <2>2 DEF SlotSingleOwner
    <2> QED BY <2>1, <2>2
  <1>13. ASSUME NEW s \in Slots, AdmissionSlots[s].owner # None
         PROVE  AdmissionSlots[s].state = "reserved"
    <2>1. CASE \E i \in Placed : SlotOf(i) = s
      BY <1>4, <2>1
    <2>2. CASE ~\E i \in Placed : SlotOf(i) = s
      BY <1>6, <1>13, <2>2 DEF SlotSingleOwner
    <2> QED BY <2>1, <2>2
  <1>14. \A r \in Requests :
            ProcessAdmission[r].state = "admitted"
              <=> job[r].state = "admitted" /\ ~\E i \in Placed : pending[i] = r
    BY <1>5, <1>7
  <1> QED BY <1>8, <1>9, <1>12, <1>13, <1>14 DEF Owned

\* A phase that keeps slots, and moves requests only between running states, keeps
\* the tables in agreement.
KeepsRunning(before, after) ==
    \A r \in Requests :
      /\ after[r].slot = before[r].slot
      /\ after[r].state \in Running <=> before[r].state \in Running
      /\ after[r].state = "admitted" <=> before[r].state = "admitted"

\* _process_prefill is such a phase.
LEMMA PrefillOwned ==
    ASSUME NEW jobs, NEW slots, NEW again, Owned(jobs, slots, again)
    PROVE  Owned(ProcessPrefill(jobs), slots, again) /\ KeepsRunning(jobs, ProcessPrefill(jobs))
  <1> DEFINE after == ProcessPrefill(jobs)
  <1>1. ASSUME NEW r \in Requests
        PROVE  \/ after[r] = jobs[r]
               \/ jobs[r].state = "prefill_pending" /\ after[r] = [jobs[r] EXCEPT !.state = "prefill_running"]
               \/ jobs[r].state = "prefill_running" /\ after[r] = [jobs[r] EXCEPT !.state = "decode_active"]
    BY DEF ProcessPrefill
  <1>2. after = [r \in Requests |-> after[r]]
    BY DEF ProcessPrefill
  <1> HIDE DEF after
  <1>3. ASSUME NEW r \in Requests
        PROVE  /\ after[r] \in JobRec /\ after[r].slot = jobs[r].slot
               /\ after[r].state \in Running <=> jobs[r].state \in Running
               /\ after[r].state = "admitted" <=> jobs[r].state = "admitted"
    <2>1. jobs[r] \in JobRec
      BY DEF Owned
    <2>2. CASE after[r] = jobs[r]
      BY <2>1, <2>2
    <2>3. CASE jobs[r].state = "prefill_pending" /\ after[r] = [jobs[r] EXCEPT !.state = "prefill_running"]
      BY <2>1, <2>3 DEF JobRec, Running
    <2>4. CASE jobs[r].state = "prefill_running" /\ after[r] = [jobs[r] EXCEPT !.state = "decode_active"]
      BY <2>1, <2>4 DEF JobRec, Running
    <2> QED BY <1>1, <2>2, <2>3, <2>4
  <1>4. after \in [Requests -> JobRec]
    BY <1>2, <1>3
  <1>5. Owned(after, slots, again)
    BY <1>3, <1>4 DEF Owned
  <1> QED BY <1>3, <1>5 DEF KeepsRunning, after

\* _process_decode is such a phase: it emits a chunk of a request that owns its slot.
LEMMA DecodeOwned ==
    ASSUME NEW jobs, NEW slots, NEW again, Owned(jobs, slots, again)
    PROVE  Owned(ProcessDecode(jobs), slots, again) /\ KeepsRunning(jobs, ProcessDecode(jobs))
  <1> DEFINE after == ProcessDecode(jobs)
  <1>1. ASSUME NEW r \in Requests
        PROVE  \/ after[r] = jobs[r]
               \/ jobs[r].state = "decode_active" /\ after[r] = Decoded(jobs[r], r)
    BY DEF ProcessDecode
  <1>2. after = [r \in Requests |-> after[r]]
    BY DEF ProcessDecode
  <1> HIDE DEF after
  <1>3. ASSUME NEW r \in Requests, jobs[r].state = "decode_active"
        PROVE  /\ Decoded(jobs[r], r) \in JobRec /\ Decoded(jobs[r], r).slot = jobs[r].slot
               /\ Decoded(jobs[r], r).state \in Running
    <2>1. jobs[r] \in JobRec /\ jobs[r].steps \in 0..MaxDecodeSteps /\ jobs[r].chunks \in Seq(Chunk)
      BY DEF Owned, JobRec
    <2>2. jobs[r].slot \in Slots
      BY <1>3 DEF Owned, Running, SlotsHeld
    <2>3. CASE jobs[r].steps >= MaxDecodeSteps
      <3>1. Decoded(jobs[r], r) = [jobs[r] EXCEPT !.state = "stream_draining"]
        BY <2>3 DEF Decoded
      <3> QED BY <2>1, <3>1 DEF JobRec, Running
    <2>4. CASE ~(jobs[r].steps >= MaxDecodeSteps)
      <3> DEFINE c == [req |-> r, slot |-> jobs[r].slot, index |-> jobs[r].steps]
                 d == Append(jobs[r].chunks, c)
      <3>1. jobs[r].steps \in 0..(MaxDecodeSteps - 1) /\ jobs[r].steps + 1 \in 0..MaxDecodeSteps
        BY <2>1, <2>4, Numbers
      <3>2. c \in Chunk
        BY <2>2, <3>1 DEF Chunk
      <3>3. d \in Seq(Chunk)
        BY <2>1, <3>2
      <3>4. Decoded(jobs[r], r) = [jobs[r] EXCEPT !.chunks = d, !.steps = jobs[r].steps + 1]
        BY <2>4 DEF Decoded
      <3> HIDE DEF d
      <3> QED BY <1>3, <2>1, <3>1, <3>3, <3>4 DEF JobRec, Running
    <2> QED BY <2>3, <2>4
  <1>4. ASSUME NEW r \in Requests
        PROVE  /\ after[r] \in JobRec /\ after[r].slot = jobs[r].slot
               /\ after[r].state \in Running <=> jobs[r].state \in Running
               /\ after[r].state = "admitted" <=> jobs[r].state = "admitted"
    <2>1. CASE after[r] = jobs[r]
      BY <2>1 DEF Owned
    <2>2. CASE jobs[r].state = "decode_active" /\ after[r] = Decoded(jobs[r], r)
      BY <1>3, <2>2, Numbers DEF Running
    <2> QED BY <1>1, <2>1, <2>2
  <1>5. after \in [Requests -> JobRec]
    BY <1>2, <1>4
  <1>6. Owned(after, slots, again)
    BY <1>4, <1>5 DEF Owned
  <1> QED BY <1>4, <1>6 DEF KeepsRunning, after

\* _process_drain takes the slot from exactly the requests it completes.
LEMMA DrainOwned ==
    ASSUME NEW jobs, NEW slots, NEW again, Owned(jobs, slots, again)
    PROVE  /\ Owned(Drained(jobs), DrainedSlots(jobs, slots), again)
           /\ \A r \in Requests : Drained(jobs)[r].state = "admitted" <=> jobs[r].state = "admitted"
  <1> USE Numbers
  <1> DEFINE after == Drained(jobs)
             left == DrainedSlots(jobs, slots)
             Drains(r) == jobs[r].state = "stream_draining"
             Freed(s) == \E r \in Requests : Drains(r) /\ jobs[r].slot = s
  <1>1. \A r \in Requests : jobs[r] \in JobRec
    BY DEF Owned
  <1>2. ASSUME NEW r \in Requests
        PROVE  after[r] = IF Drains(r) THEN [jobs[r] EXCEPT !.state = "completed"] ELSE jobs[r]
    BY DEF Drained
  <1>3. ASSUME NEW r \in Requests
        PROVE  /\ after[r] \in JobRec
               /\ Drains(r) => after[r].state = "completed"
               /\ ~Drains(r) => after[r] = jobs[r]
    BY ZenonT(60), <1>1, <1>2 DEF JobRec, Terminal
  <1>4. ASSUME NEW s \in Slots
        PROVE  /\ left[s] \in SlotRec /\ left[s].state = slots[s].state
               /\ Freed(s) => left[s].owner = None
               /\ ~Freed(s) => left[s] = slots[s]
    <2>1. slots[s] \in SlotRec
      BY DEF Owned
    <2>2. left[s] = IF Freed(s) THEN [slots[s] EXCEPT !.owner = None] ELSE slots[s]
      BY DEF DrainedSlots
    <2> QED BY <2>1, <2>2 DEF SlotRec
  <1>5. after \in [Requests -> JobRec] /\ left \in [Slots -> SlotRec]
    BY <1>3, <1>4 DEF Drained, DrainedSlots
  <1>6. ASSUME NEW r \in Requests
        PROVE  /\ after[r].state \in Running => after[r].slot \in SlotsHeld(r, left)
               /\ r \notin again => SlotsHeld(r, left) \subseteq
                                      IF after[r].state \in Running THEN {after[r].slot} ELSE {}
    <2>1. /\ jobs[r].state \in Running => jobs[r].slot \in SlotsHeld(r, slots)
          /\ r \notin again => SlotsHeld(r, slots) \subseteq
                                  IF jobs[r].state \in Running THEN {jobs[r].slot} ELSE {}
      BY DEF Owned
    <2>2. \A s \in SlotsHeld(r, left) : s \in SlotsHeld(r, slots) /\ ~Freed(s)
      BY <1>4 DEF SlotsHeld
    <2>3. CASE Drains(r)
      <3>1. after[r].state \notin Running /\ jobs[r].state \in Running
        BY <1>3, <2>3 DEF Running
      <3>2. Freed(jobs[r].slot)
        BY <2>3
      <3> QED BY <2>1, <2>2, <3>1, <3>2
    <2>4. CASE ~Drains(r)
      <3>1. after[r] = jobs[r]
        BY <1>3, <2>4
      <3>2. ASSUME NEW s \in SlotsHeld(r, slots) PROVE s \in SlotsHeld(r, left)
        <4>1. ASSUME NEW q \in Requests, Drains(q), jobs[q].slot = s PROVE FALSE
          <5>1. s \in SlotsHeld(q, slots)
            BY <4>1 DEF Owned, Running
          <5>2. q = r
            BY <3>2, <5>1 DEF SlotsHeld
          <5> QED BY <2>4, <4>1, <5>2
        <4>2. s \in Slots /\ slots[s].owner = r
          BY <3>2 DEF SlotsHeld
        <4> QED BY <1>4, <4>1, <4>2 DEF SlotsHeld
      <3> QED BY <2>1, <2>2, <3>1, <3>2
    <2> QED BY <2>3, <2>4
  <1>7. ASSUME NEW s \in Slots, left[s].owner # None PROVE left[s].state = "reserved"
    BY <1>4, <1>7 DEF Owned
  <1>8. \A r \in Requests : after[r].state = "admitted" <=> jobs[r].state = "admitted"
    BY <1>3
  <1> HIDE DEF after, left
  <1>9. Owned(after, left, again)
    BY <1>5, <1>6, <1>7 DEF Owned
  <1> QED BY <1>8, <1>9 DEF after, left
\* A request that waits for a slot and gets none stays on the pending list.
LEMMA TurnedAwayStays ==
    ASSUME SchedulerTypes, NoRequestForgotten, NEW r \in Requests, job[r].state = "admitted",
           ~\E i \in Placed : pending[i] = r
    PROVE  r \in ToSet(StillPending)
  <1> DEFINE n == Len(pending)
             Here == {i \in 1..n : pending[i] = r}
             Away == {i \in 1..n : Waits(i) /\ i \notin Placed}
  <1>1. pending \in Seq(Requests) /\ n \in Nat
    BY DEF SchedulerTypes
  <1>2. IsFiniteSet(Here) /\ IsFiniteSet(Away) /\ Here \subseteq 1..n /\ Away \subseteq 1..n /\ 1..n \subseteq Nat
    <2>1. IsFiniteSet(1..n)
      <3>1. 1 \in Int /\ n \in Int
        BY <1>1
      <3> QED BY ONLY <3>1, FS_Interval
    <2>2. Here \subseteq 1..n /\ Away \subseteq 1..n
      OBVIOUS
    <2>3. 1..n \subseteq Nat
      BY <1>1
    <2> QED BY <2>1, <2>2, <2>3, FS_Subset
  <1>3. Here # {}
    <2>1. r \in ToSet(pending)
      BY DEF NoRequestForgotten
    <2> QED BY <1>1, <2>1 DEF ToSet
  <1> DEFINE first == Min(Here)
             from == Min(Away)
  <1>4. first \in Here /\ \A x \in Here : first <= x
    <2> HIDE DEF Here
    <2>1. Here \subseteq Nat
      BY <1>2
    <2> QED BY <1>2, <1>3, <2>1, MinFacts
  <1> HIDE DEF first
  <1>5. first \in 1..n /\ first \in Nat /\ pending[first] = r
    BY <1>2, <1>4
  <1>6. Waits(first)
    <2>1. ASSUME NEW k \in 1..(first - 1) PROVE pending[k] # r
      <3>1. k \in 1..n /\ ~(first <= k)
        BY <1>1, <1>5
      <3> QED BY <1>4, <3>1
    <2> QED BY <1>5, <2>1 DEF Waits
  <1>7. first \in Away
    BY <1>5, <1>6
  <1>8. from \in Away /\ from <= first
    <2> HIDE DEF Away
    <2>1. Away \subseteq Nat
      BY <1>2
    <2> QED BY <1>2, <1>7, <2>1, MinFacts
  <1>9. StillPending = SubSeq(pending, from, n)
    BY <1>7 DEF StillPending
  <1> HIDE DEF from
  <1>10. from \in 1..n
    BY <1>8
  <1>11. /\ SubSeq(pending, from, n) \in Seq(Requests)
         /\ Len(SubSeq(pending, from, n)) = n - from + 1
         /\ first - from + 1 \in 1..(n - from + 1)
         /\ SubSeq(pending, from, n)[first - from + 1] = pending[first]
    <2> HIDE DEF n
    <2>1. pending \in Seq(Requests) /\ n = Len(pending)
      BY <1>1 DEF n
    <2>2. first - from + 1 \in 1..(n - from + 1)
      BY <1>1, <1>5, <1>8, <1>10
    <2> QED BY <1>1, <1>5, <1>8, <1>10, <2>1, <2>2
  <1> QED BY <1>5, <1>9, <1>11 DEF ToSet

\* What stays pending is a list of requests.
LEMMA StillPendingType ==
    ASSUME SchedulerTypes
    PROVE  StillPending \in Seq(Requests)
  <1> DEFINE n == Len(pending)
             Away == {i \in 1..n : Waits(i) /\ i \notin Placed}
  <1>1. pending \in Seq(Requests) /\ n \in Nat
    BY DEF SchedulerTypes
  <1>2. CASE Away = {}
    BY <1>2 DEF StillPending
  <1>3. CASE Away # {}
    <2>1. IsFiniteSet(1..n) /\ Away \subseteq 1..n /\ 1..n \subseteq Nat
      BY SMTT(40), <1>1, FS_Interval
    <2>2. Min(Away) \in Away
      <3> HIDE DEF Away
      <3>1. IsFiniteSet(Away) /\ Away \subseteq Nat
        BY <2>1, FS_Subset
      <3> QED BY <1>3, <3>1, MinFacts
    <2>3. Min(Away) \in 1..n /\ StillPending = SubSeq(pending, Min(Away), n)
      BY <1>3, <2>2 DEF StillPending
    <2> HIDE DEF Away
    <2> QED BY <1>1, <2>3
  <1> QED BY <1>2, <1>3

\* The invariant in the shape the phases use.
LEMMA SchedulerShape ==
    /\ SchedulerInv <=> /\ Owned(job, slot, reused) /\ NoRequestForgotten
                        /\ pending \in Seq(Requests) /\ wire \in SUBSET Chunk
                        /\ reused \in SUBSET Requests
    /\ SchedulerInv' <=> /\ Owned(job', slot', reused') /\ NoRequestForgotten'
                         /\ pending' \in Seq(Requests) /\ wire' \in SUBSET Chunk
                         /\ reused' \in SUBSET Requests
  BY DEF SchedulerInv, SchedulerTypes, SlotSingleOwner, Owned, SlotsHeld

\* A tick keeps the tables in agreement: its four phases one after the other.
LEMMA TickStep ==
    ASSUME SchedulerInv, Tick
    PROVE  SchedulerInv'
  <1> DEFINE j1 == ProcessAdmission
             s1 == AdmissionSlots
             j2 == ProcessPrefill(j1)
             j3 == ProcessDecode(j2)
  <1>1. SchedulerTypes /\ SlotSingleOwner /\ NoRequestForgotten
    BY DEF SchedulerInv
  <1>2. /\ Owned(j1, s1, reused)
        /\ \A r \in Requests : j1[r].state = "admitted"
              => job[r].state = "admitted" /\ ~\E i \in Placed : pending[i] = r
    BY <1>1, AdmissionOwned
  <1>3. /\ job' = Drained(j3) /\ slot' = DrainedSlots(j3, s1)
        /\ pending' = StillPending /\ wire' = wire /\ reused' = reused
    BY DEF Tick
  <1> HIDE DEF j1, s1
  <1>4. Owned(j2, s1, reused) /\ KeepsRunning(j1, j2)
    BY <1>2, PrefillOwned
  <1> HIDE DEF j2
  <1>5. Owned(j3, s1, reused) /\ KeepsRunning(j2, j3)
    BY <1>4, DecodeOwned
  <1> HIDE DEF j3
  <1>6. /\ Owned(job', slot', reused')
        /\ \A r \in Requests : job'[r].state = "admitted" <=> j3[r].state = "admitted"
    BY <1>3, <1>5, DrainOwned
  <1>7. \A r \in Requests : job'[r].state = "admitted"
              => job[r].state = "admitted" /\ ~\E i \in Placed : pending[i] = r
    BY <1>2, <1>4, <1>5, <1>6 DEF KeepsRunning
  <1>8. NoRequestForgotten'
    BY <1>1, <1>3, <1>7, TurnedAwayStays DEF NoRequestForgotten
  <1>9. pending' \in Seq(Requests) /\ wire' \in SUBSET Chunk /\ reused' \in SUBSET Requests
    BY <1>1, <1>3, StillPendingType DEF SchedulerTypes
  <1> QED BY <1>6, <1>8, <1>9, SchedulerShape

\* admit: the id is on the pending list from now on; a slot it has is remembered.
LEMMA AdmitStep ==
    ASSUME SchedulerInv, NEW r \in Requests, Admit(r)
    PROVE  SchedulerInv'
  <1> USE Numbers
  <1>1. /\ Owned(job, slot, reused) /\ NoRequestForgotten
        /\ pending \in Seq(Requests) /\ wire \in SUBSET Chunk /\ reused \in SUBSET Requests
    BY SchedulerShape
  <1>2. /\ job' = [job EXCEPT ![r] = NewJob] /\ slot' = slot /\ wire' = wire
        /\ pending' = Append(pending, r)
        /\ reused' = IF job[r].state \in Running THEN reused \cup {r} ELSE reused
    BY DEF Admit
  <1>3. NewJob \in JobRec /\ NewJob.state = "admitted"
    BY DEF NewJob, JobRec
  <1> HIDE DEF NewJob
  <1>4. job' \in [Requests -> JobRec] /\ job'[r] = NewJob /\ \A q \in Requests : q # r => job'[q] = job[q]
    BY <1>1, <1>2, <1>3 DEF Owned
  <1>5. r \notin reused' => SlotsHeld(r, slot) = {}
    BY <1>1, <1>2 DEF Owned
  <1>6. Owned(job', slot', reused')
    BY <1>1, <1>2, <1>3, <1>4, <1>5 DEF Owned
  <1>7. pending' \in Seq(Requests) /\ ToSet(pending') = ToSet(pending) \cup {r}
    <2>1. /\ pending' \in Seq(Requests) /\ Len(pending') = Len(pending) + 1 /\ Len(pending) \in Nat
          /\ pending'[Len(pending) + 1] = r /\ \A i \in 1..Len(pending) : pending'[i] = pending[i]
      BY <1>1, <1>2
    <2>2. \A i : i \in 1..(Len(pending) + 1) <=> i \in 1..Len(pending) \/ i = Len(pending) + 1
      BY <2>1
    <2> QED BY <2>1, <2>2 DEF ToSet
  <1>8. NoRequestForgotten'
    BY <1>1, <1>4, <1>7 DEF NoRequestForgotten
  <1> QED BY <1>1, <1>2, <1>6, <1>7, <1>8, SchedulerShape

\* cancel, timeout, fail_request: the request ends and the first slot with its id is
\* released, which is its only one unless the id was admitted again while it ran.
LEMMA EndStep ==
    ASSUME SchedulerInv, NEW r \in Requests, NEW how \in Ends, End(r, how)
    PROVE  SchedulerInv'
  <1> USE Numbers
  <1>1. /\ Owned(job, slot, reused) /\ NoRequestForgotten
        /\ pending \in Seq(Requests) /\ wire \in SUBSET Chunk /\ reused \in SUBSET Requests
    BY SchedulerShape
  <1>2. /\ job' = [job EXCEPT ![r].state = how] /\ slot' = ReleaseSlotFor(r, slot) /\ wire' = wire
        /\ pending' = pending /\ reused' = reused
    BY DEF End
  <1>3. how \in Terminal
    BY ContinuousAssumption DEF Terminal
  <1>4. job' \in [Requests -> JobRec] /\ job'[r].state = how /\ \A q \in Requests : q # r => job'[q] = job[q]
    <2>1. [job[r] EXCEPT !.state = how] \in JobRec /\ [job[r] EXCEPT !.state = how].state = how
      <3>1. job[r] \in JobRec
        BY <1>1 DEF Owned
      <3> QED BY <1>3, <3>1 DEF JobRec
    <2> QED BY <1>1, <1>2, <2>1 DEF Owned
  <1>5. /\ slot' = [s \in Slots |-> slot'[s]]
        /\ \A s \in Slots : slot'[s] = slot[s]
                            \/ (slot[s].owner = r /\ slot'[s] = [state |-> "released", owner |-> None])
        /\ \A t : SlotsHeld(r, slot) \subseteq {t} => SlotsHeld(r, slot') = {}
    <2> DEFINE H == SlotsHeld(r, slot)
    <2>1. slot \in [Slots -> SlotRec] /\ H \subseteq Slots /\ \A s \in H : slot[s].owner = r
      BY <1>1 DEF Owned, SlotsHeld
    <2>2. CASE H = {}
      BY <1>2, <2>1, <2>2 DEF ReleaseSlotFor, SlotsHeld
    <2>3. CASE H # {}
      <3>1. Min(H) \in H
        <4>1. IsFiniteSet(H) /\ H \subseteq Nat
          BY <2>1, FS_Subset
        <4> QED BY <2>3, <4>1, MinFacts
      <3>2. PICK m \in H : slot' = [slot EXCEPT ![m] = [state |-> "released", owner |-> None]]
        BY <1>2, <2>3, <3>1 DEF ReleaseSlotFor
      <3>3. ASSUME NEW t, H \subseteq {t} PROVE SlotsHeld(r, slot') = {}
        <4>1. \A s \in Slots : slot'[s].owner # r
          BY <2>1, <3>2, <3>3 DEF SlotsHeld
        <4> QED BY <4>1 DEF SlotsHeld
      <3>4. \A s \in Slots : slot'[s] = slot[s]
                            \/ (slot[s].owner = r /\ slot'[s] = [state |-> "released", owner |-> None])
        BY <2>1, <3>2
      <3> QED BY <2>1, <3>2, <3>3, <3>4
    <2> QED BY <2>2, <2>3
  <1>6. slot' \in [Slots -> SlotRec]
    BY <1>1, <1>5 DEF Owned, SlotRec
  <1>7. ASSUME NEW q \in Requests
        PROVE  /\ job'[q].state \in Running => job'[q].slot \in SlotsHeld(q, slot')
               /\ q \notin reused' => SlotsHeld(q, slot') \subseteq
                                        IF job'[q].state \in Running THEN {job'[q].slot} ELSE {}
    <2>1. CASE q = r
      <3>1. job'[q].state \notin Running
        BY <1>3, <1>4, <2>1
      <3>2. ASSUME q \notin reused' PROVE SlotsHeld(q, slot') = {}
        <4>1. SlotsHeld(r, slot) \subseteq {job[r].slot}
          BY <1>1, <1>2, <2>1, <3>2 DEF Owned
        <4> QED BY <1>5, <2>1, <4>1
      <3> QED BY <3>1, <3>2
    <2>2. CASE q # r
      <3>1. SlotsHeld(q, slot') = SlotsHeld(q, slot)
        BY <1>5, <2>2 DEF SlotsHeld
      <3> QED BY <1>1, <1>2, <1>4, <2>2, <3>1 DEF Owned
    <2> QED BY <2>1, <2>2
  <1>8. \A s \in Slots : slot'[s].owner # None => slot'[s].state = "reserved"
    BY <1>1, <1>5 DEF Owned
  <1>9. Owned(job', slot', reused')
    BY <1>4, <1>6, <1>7, <1>8 DEF Owned
  <1>10. NoRequestForgotten'
    BY <1>1, <1>2, <1>3, <1>4 DEF NoRequestForgotten
  <1> QED BY <1>1, <1>2, <1>9, <1>10, SchedulerShape

\* drain_outputs: only chunks move, and they are chunks of the scheduler's.
LEMMA DrainOutputsStep ==
    ASSUME SchedulerInv, NEW r \in Requests, DrainOutputs(r)
    PROVE  SchedulerInv'
  <1>1. /\ Owned(job, slot, reused) /\ NoRequestForgotten
        /\ pending \in Seq(Requests) /\ wire \in SUBSET Chunk /\ reused \in SUBSET Requests
    BY SchedulerShape
  <1>2. /\ job' = [job EXCEPT ![r].chunks = << >>] /\ slot' = slot
        /\ wire' = wire \cup ToSet(job[r].chunks) /\ pending' = pending /\ reused' = reused
    BY DEF DrainOutputs
  <1>3. ASSUME NEW q \in Requests
        PROVE  job'[q] \in JobRec /\ job'[q].state = job[q].state /\ job'[q].slot = job[q].slot
    <2>1. job[q] \in JobRec
      BY <1>1 DEF Owned
    <2>2. job'[q] = job[q] \/ job'[q] = [job[q] EXCEPT !.chunks = << >>]
      BY <1>1, <1>2 DEF Owned
    <2>3. << >> \in Seq(Chunk)
      OBVIOUS
    <2>4. /\ [job[q] EXCEPT !.chunks = << >>] \in JobRec
          /\ [job[q] EXCEPT !.chunks = << >>].state = job[q].state
          /\ [job[q] EXCEPT !.chunks = << >>].slot = job[q].slot
      BY <2>1, <2>3 DEF JobRec
    <2> QED BY <2>1, <2>2, <2>4
  <1>4. job' \in [Requests -> JobRec]
    BY <1>1, <1>2, <1>3 DEF Owned
  <1>5. Owned(job', slot', reused')
    BY <1>1, <1>2, <1>3, <1>4 DEF Owned
  <1>6. wire' \in SUBSET Chunk
    <2>1. job[r].chunks \in Seq(Chunk)
      BY <1>1 DEF Owned, JobRec
    <2>2. ToSet(job[r].chunks) \subseteq Chunk
      BY <2>1 DEF ToSet
    <2> QED BY <1>1, <1>2, <2>2
  <1>7. NoRequestForgotten'
    BY <1>1, <1>2, <1>3 DEF NoRequestForgotten
  <1> QED BY <1>1, <1>2, <1>5, <1>6, <1>7, SchedulerShape

\* Every step keeps the scheduler's tables in agreement.
LEMMA SchedulerStep ==
    ASSUME SchedulerInv, [CbNext]_cbVars
    PROVE  SchedulerInv'
  <1>1. ASSUME job' = job, slot' = slot, pending' = pending, reused' = reused, wire' \subseteq wire
        PROVE  SchedulerInv'
    BY <1>1, SchedulerShape DEF NoRequestForgotten
  <1>2. ASSUME NEW r \in Requests, OpenStream(r) \/ Close(r) PROVE SchedulerInv'
    BY <1>1, <1>2 DEF OpenStream, Close, EmitTerminal
  <1>3. ASSUME NEW c \in wire, NEW again \in BOOLEAN, RouteChunk(c, again) PROVE SchedulerInv'
    BY <1>1, <1>3 DEF RouteChunk
  <1>4. CASE UNCHANGED cbVars
    BY <1>1, <1>4 DEF cbVars
  <1> QED BY <1>2, <1>3, <1>4, TickStep, AdmitStep, EndStep, DrainOutputsStep DEF CbNext

\* No stream is longer than the chunks of a request and one terminal event.
LengthInv ==
    \A r \in Requests :
        Len(stream[r].events) <= IF stream[r].state \in Terminal THEN MaxDecodeSteps + 1
                                 ELSE MaxDecodeSteps

\* Every step keeps the streams short: an accepted chunk has the next index, and no
\* chunk has an index of MaxDecodeSteps or more.
LEMMA LengthStep ==
    ASSUME SchedulerInv, StreamInv, LengthInv, [CbNext]_cbVars
    PROVE  LengthInv'
  <1> USE Numbers
  <1>1. ASSUME stream' = stream PROVE LengthInv'
    BY <1>1 DEF LengthInv
  <1>2. \A r \in Requests : stream[r] \in StreamRec /\ Len(stream[r].events) \in Nat
    <2> SUFFICES ASSUME NEW r \in Requests
                 PROVE  stream[r] \in StreamRec /\ Len(stream[r].events) \in Nat
      OBVIOUS
    <2>1. stream[r] \in StreamRec
      BY DEF StreamInv
    <2>2. stream[r].events \in Seq([kind : {"chunk"} \cup Terminal, index : Nat])
      BY <2>1 DEF StreamRec
    <2>3. \A S : stream[r].events \in Seq(S) => Len(stream[r].events) \in Nat
      OBVIOUS
    <2> QED BY <2>1, <2>2, <2>3
  <1>3. ASSUME NEW r \in Requests, OpenStream(r) PROVE LengthInv'
    <2>1. /\ stream[r].state \notin Terminal /\ "open" \notin Terminal
          /\ stream' = [stream EXCEPT ![r] = [stream[r] EXCEPT !.state = "open"]]
      BY <1>3 DEF OpenStream, Terminal
    <2>2. /\ [stream[r] EXCEPT !.state = "open"].state = "open"
          /\ [stream[r] EXCEPT !.state = "open"].events = stream[r].events
      BY <1>2 DEF StreamRec
    <2> QED BY <2>1, <2>2 DEF LengthInv, StreamInv
  <1>4. ASSUME NEW c \in wire, NEW again, RouteChunk(c, again), Accepts(c) PROVE LengthInv'
    <2> DEFINE e == Append(stream[c.req].events, [kind |-> "chunk", index |-> c.index])
               s == [stream[c.req] EXCEPT !.events = e]
    <2>1. c.req \in Requests /\ c.index \in 0..(MaxDecodeSteps - 1)
      BY DEF SchedulerInv, SchedulerTypes, Chunk
    <2>2. stream[c.req].state = "open" /\ c.index = Len(stream[c.req].events) /\ "open" \notin Terminal
      BY <1>4 DEF Accepts, Terminal
    <2>3. stream[c.req].events \in Seq([kind : {"chunk"} \cup Terminal, index : Nat])
      BY <1>2, <2>1 DEF StreamRec
    <2>4. Len(e) = Len(stream[c.req].events) + 1
      BY <2>1, <2>3
    <2>5. Len(e) <= MaxDecodeSteps
      BY <2>1, <2>2, <2>4
    <2> HIDE DEF e
    <2>6. s.state = "open" /\ s.events = e
      BY <1>2, <2>1, <2>2 DEF StreamRec
    <2>7. stream' = [stream EXCEPT ![c.req] = s]
      BY <1>4 DEF RouteChunk, e
    <2> HIDE DEF s
    <2> QED BY <2>1, <2>2, <2>5, <2>6, <2>7 DEF LengthInv, StreamInv
  <1>5. ASSUME NEW r \in Requests, Close(r) PROVE LengthInv'
    <2> DEFINE e == Append(stream[r].events, [kind |-> job[r].state, index |-> Len(stream[r].events)])
               s == [state |-> job[r].state, events |-> e]
    <2>1. /\ job[r].state \in Terminal /\ stream[r].state = "open" /\ "open" \notin Terminal
          /\ stream' = [stream EXCEPT ![r] = s]
      BY <1>5 DEF Close, EmitTerminal, Terminal
    <2>2. stream[r].events \in Seq([kind : {"chunk"} \cup Terminal, index : Nat])
      BY <1>2 DEF StreamRec
    <2>3. /\ [kind |-> job[r].state, index |-> Len(stream[r].events)]
                 \in [kind : {"chunk"} \cup Terminal, index : Nat]
      BY <1>2, <2>1
    <2>4. Len(e) = Len(stream[r].events) + 1
      BY <2>2, <2>3
    <2>5. Len(stream[r].events) <= MaxDecodeSteps
      BY <2>1 DEF LengthInv
    <2>6. Len(e) <= MaxDecodeSteps + 1
      BY <1>2, <2>4, <2>5
    <2> HIDE DEF e
    <2>7. s.state = job[r].state /\ s.events = e
      OBVIOUS
    <2> HIDE DEF s
    <2> QED BY <2>1, <2>6, <2>7 DEF LengthInv, StreamInv
  <1>6. ASSUME NEW r \in Requests, Admit(r) \/ (\E how \in Ends : End(r, how)) \/ DrainOutputs(r)
        PROVE  LengthInv'
    BY <1>1, <1>6 DEF Admit, End, DrainOutputs
  <1>7. CASE Tick \/ UNCHANGED cbVars
    BY <1>1, <1>7 DEF Tick, cbVars
  <1>8. ASSUME NEW c \in wire, NEW again, RouteChunk(c, again), ~Accepts(c) PROVE LengthInv'
    BY <1>1, <1>8 DEF RouteChunk
  <1> QED BY <1>3, <1>4, <1>5, <1>6, <1>7, <1>8 DEF CbNext

\* Every event of a stream has an index a request can have.
LEMMA StreamTypes ==
    ASSUME StreamInv, LengthInv, NEW r \in Requests
    PROVE  stream[r].state \in {"absent", "open"} \cup Terminal /\ stream[r].events \in Seq(StreamEvent)
  <1> DEFINE e == stream[r].events
  <1>1. /\ stream[r].state \in {"absent", "open"} \cup Terminal
        /\ e \in Seq([kind : {"chunk"} \cup Terminal, index : Nat]) /\ Len(e) \in Nat
    <2>1. stream[r] \in StreamRec
      BY DEF StreamInv
    <2>2. /\ stream[r].state \in {"absent", "open"} \cup Terminal
          /\ e \in Seq([kind : {"chunk"} \cup Terminal, index : Nat])
      BY <2>1 DEF StreamRec
    <2>3. \A S : e \in Seq(S) => Len(e) \in Nat
      OBVIOUS
    <2> QED BY <2>2, <2>3
  <1>2. Len(e) <= MaxDecodeSteps + 1
    <2>1. MaxDecodeSteps \in Nat
      BY Numbers
    <2> QED BY <1>1, <2>1 DEF LengthInv
  <1>3. \A i \in 1..Len(e) : e[i].index = i - 1
    BY DEF StreamInv, StreamsAreOrdered
  <1> HIDE DEF e
  <1>4. ASSUME NEW i \in 1..Len(e) PROVE e[i] \in StreamEvent
    <2>1. e[i] \in [kind : {"chunk"} \cup Terminal, index : Nat]
      <3> DEFINE S == [kind : {"chunk"} \cup Terminal, index : Nat]
      <3>1. e \in Seq(S)
        BY <1>1
      <3> HIDE DEF S
      <3>2. e[i] \in S
        BY <3>1
      <3> QED BY <3>2 DEF S
    <2>2. MaxDecodeSteps \in Nat /\ i \in Nat /\ i >= 1 /\ i <= Len(e)
      BY <1>1, Numbers
    <2>3. i - 1 \in 0..MaxDecodeSteps
      BY <1>1, <1>2, <2>2
    <2> QED BY <1>3, <2>1, <2>3 DEF StreamEvent
  <1>5. e \in Seq(StreamEvent)
    BY <1>1, <1>4
  <1> QED BY <1>1, <1>5 DEF e

\* The scheduler's tables agree with one another between any two calls, through ticks,
\* cancellations and ids that are used again: a running request owns the slot it names,
\* a waiting request is on the pending list, and an id owns no other slot unless it was
\* admitted again while it held one (tick, admit, cancel, validate_slot_assignments).
THEOREM SchedulerStaysConsistent == CbSpec => []SchedulerConsistent
  <1> DEFINE Inv == SchedulerInv /\ StreamInv /\ LengthInv
  <1>1. CbInit => Inv
    <2> SUFFICES ASSUME CbInit PROVE Inv
      OBVIOUS
    <2> USE Numbers DEF CbInit
    <2>1. \A r \in Requests : job[r] = [state |-> "absent", slot |-> None, steps |-> 0, chunks |-> << >>]
      BY DEF NewJob
    <2>2. \A r \in Requests : job[r] \in JobRec /\ job[r].state = "absent"
      <3>1. << >> \in Seq(Chunk) /\ 0 \in 0..MaxDecodeSteps
        OBVIOUS
      <3>2. [state |-> "absent", slot |-> None, steps |-> 0, chunks |-> << >>] \in JobRec
        BY <3>1 DEF JobRec
      <3> QED BY <2>1, <3>2
    <2>3. Owned(job, slot, reused)
      BY <2>2 DEF Owned, SlotRec, SlotsHeld
    <2>4. NoRequestForgotten
      BY <2>2 DEF NoRequestForgotten
    <2>5. pending \in Seq(Requests) /\ wire \in SUBSET Chunk /\ reused \in SUBSET Requests
      OBVIOUS
    <2>6. StreamInv
      BY DEF StreamInv, StreamRec, StreamsAreOrdered
    <2>7. LengthInv
      BY DEF LengthInv, Terminal
    <2> QED BY <2>3, <2>4, <2>5, <2>6, <2>7, SchedulerShape
  <1>2. Inv /\ [CbNext]_cbVars => Inv'
    BY SchedulerStep, StreamStep, LengthStep
  <1>3. Inv => SchedulerConsistent
    <2> SUFFICES ASSUME Inv PROVE SchedulerConsistent
      OBVIOUS
    <2>1. CbTypeOK
      BY StreamTypes DEF CbTypeOK, SchedulerInv, SchedulerTypes, JobRec, SlotRec
    <2> QED BY <2>1 DEF SchedulerConsistent, SchedulerInv
  <1> QED BY <1>1, <1>2, <1>3, PTL DEF CbSpec


(***************************************************************************)
(* The token-step schedule.  While a sequence decodes, it has one token    *)
(* per step so far and no strike against it lies behind; once it is done,   *)
(* it has what it would have had alone, and nothing touches it again.      *)
(***************************************************************************)
Toks(r, n) == [i \in 1..n |-> [req |-> r, at |-> i - 1]]

Modes == Finished \cup {"ready_to_decode", "decoding", "cleaned_up"}

PlanInv ==
    /\ limit \in [Seqs -> 0..MaxTokens] /\ shared \subseteq 0..LastStep
    /\ strikes \in [Kinds -> OnePlan]

Reason(m, r) == IF m[r] \in Kinds THEN m[r] ELSE "stop"

\* A sequence that is done, and one that is not, in step n.
EndedAsAlone(m, e, r) == e[r] = Toks(r, Alone(r).tokens) /\ Reason(m, r) = Alone(r).reason

OnItsWay(m, e, r, n) ==
    /\ m[r] \in {"ready_to_decode", "decoding"} /\ e[r] = Toks(r, n) /\ n <= limit[r]
    /\ \A k \in StrikesOf(r) : n <= k

\* The tallies count the sequences that ended so.
Counted(m, t) == t \in [Kinds -> Nat] /\ \A k \in Kinds : t[k] = Cardinality({r \in Seqs : m[r] = k})

ScheduleInv ==
    /\ PlanInv
    /\ mode \in [Seqs -> Modes] /\ emitted \in [Seqs -> Seq(Token)]
    /\ stepCount \in 0..(MaxTokens + 1) /\ tally \in [Kinds -> 0..Cardinality(Seqs)]
    /\ phase \in {"loop", "report", "clean"}
    /\ phase # "clean" =>
         /\ Counted(mode, tally)
         /\ \A r \in Seqs : mode[r] \in Finished => EndedAsAlone(mode, emitted, r)
         /\ \A r \in Seqs : mode[r] \notin Finished =>
              phase = "loop" /\ OnItsWay(mode, emitted, r, stepCount)

\* Tokens in a row, and one more.
LEMMA TokFacts ==
    ASSUME NEW r \in Seqs, NEW n \in Nat
    PROVE  /\ Len(Toks(r, n)) = n /\ Append(Toks(r, n), [req |-> r, at |-> n]) = Toks(r, n + 1)
           /\ Toks(r, 0) = << >>
           /\ n <= MaxTokens => Toks(r, n) \in Seq(Token)
  <1> DEFINE T == [req : Seqs, at : Nat]
  <1>1. \A i \in 1..n : [req |-> r, at |-> i - 1] \in T
    OBVIOUS
  <1>2. Toks(r, n) \in Seq(T) /\ Len(Toks(r, n)) = n
    BY <1>1 DEF Toks
  <1>3. Append(Toks(r, n), [req |-> r, at |-> n]) = Toks(r, n + 1)
    <2> DEFINE a == Append(Toks(r, n), [req |-> r, at |-> n])
    <2>1. [req |-> r, at |-> n] \in T
      OBVIOUS
    <2>2. a \in Seq(T) /\ Len(a) = n + 1 /\ a[n + 1] = [req |-> r, at |-> n]
          /\ \A i \in 1..n : a[i] = Toks(r, n)[i]
      BY <1>2, <2>1
    <2>3. DOMAIN a = 1..(n + 1) /\ a = [i \in 1..(n + 1) |-> a[i]]
      BY <2>2
    <2>4. \A i \in 1..(n + 1) : a[i] = [req |-> r, at |-> i - 1]
      <3> SUFFICES ASSUME NEW i \in 1..(n + 1) PROVE a[i] = [req |-> r, at |-> i - 1]
        OBVIOUS
      <3>1. CASE i = n + 1
        <4>1. i - 1 = n
          BY <3>1
        <4> QED BY <2>2, <3>1, <4>1
      <3>2. CASE i # n + 1
        <4>1. i \in 1..n
          BY <3>2
        <4> QED BY <2>2, <4>1 DEF Toks
      <3> QED BY <3>1, <3>2
    <2> HIDE DEF a
    <2>5. a = [i \in 1..(n + 1) |-> [req |-> r, at |-> i - 1]]
      BY <2>3, <2>4
    <2> QED BY <2>5 DEF a, Toks
  <1>4. Toks(r, 0) = << >>
    <2>1. 1..0 = {}
      OBVIOUS
    <2> QED BY <2>1 DEF Toks
  <1>5. ASSUME n <= MaxTokens PROVE Toks(r, n) \in Seq(Token)
    <2>1. MaxTokens \in Nat
      BY TokenStepsAssumption
    <2>2. \A i \in 1..n : [req |-> r, at |-> i - 1] \in Token
      BY <1>5, <2>1 DEF Token
    <2> QED BY <2>2 DEF Toks
  <1> QED BY <1>2, <1>3, <1>4, <1>5

\* What a request would get alone: its first strike, or its limit.
LEMMA AloneFacts ==
    ASSUME PlanInv, NEW r \in Seqs, NEW n \in Nat, \A k \in StrikesOf(r) : n <= k
    PROVE  /\ n <= limit[r] /\ n \in StrikesOf(r) =>
                /\ Alone(r).tokens = n
                /\ Alone(r).reason = IF n \in shared THEN "failed"
                                     ELSE IF <<r, n>> \in strikes["cancelled"] THEN "cancelled"
                                     ELSE IF <<r, n>> \in strikes["timed_out"] THEN "timed_out"
                                     ELSE "failed"
           /\ n = limit[r] /\ n \notin StrikesOf(r) => Alone(r).tokens = n /\ Alone(r).reason = "stop"
  <1> DEFINE hits == {k \in StrikesOf(r) : k <= limit[r]}
             first == CHOOSE k \in hits : \A m \in hits : k <= m
             by(k) == <<r, first>> \in strikes[k]
             why == CASE first \in shared -> "failed"
                      [] first \notin shared /\ by("cancelled") -> "cancelled"
                      [] first \notin shared /\ ~by("cancelled") /\ by("timed_out") -> "timed_out"
                      [] OTHER -> "failed"
  <1>1. Alone(r) = IF hits = {} THEN [tokens |-> limit[r], reason |-> "stop"]
                   ELSE [tokens |-> first, reason |-> why]
    BY DEF Alone
  <1>2. StrikesOf(r) \subseteq Nat /\ limit[r] \in Nat
    BY TokenStepsAssumption DEF StrikesOf, PlanInv
  <1>3. ASSUME n <= limit[r], n \in StrikesOf(r)
        PROVE  /\ Alone(r).tokens = n
               /\ Alone(r).reason = IF n \in shared THEN "failed"
                                    ELSE IF <<r, n>> \in strikes["cancelled"] THEN "cancelled"
                                    ELSE IF <<r, n>> \in strikes["timed_out"] THEN "timed_out"
                                    ELSE "failed"
    <2>1. n \in hits /\ hits \subseteq Nat /\ \A m \in hits : n <= m
      BY <1>2, <1>3
    <2> HIDE DEF hits
    <2>2. first = n
      <3>1. \E k \in hits : \A m \in hits : k <= m
        BY <2>1
      <3>2. first \in hits /\ \A m \in hits : first <= m
        BY <3>1
      <3> HIDE DEF first
      <3>3. first <= n /\ n <= first /\ first \in Nat
        BY <2>1, <3>2
      <3> QED BY <3>3
    <2>3. Alone(r) = [tokens |-> first, reason |-> why] /\ hits # {}
      BY <1>1, <2>1
    <2>4. Alone(r).tokens = n /\ Alone(r).reason = why
      BY <2>2, <2>3
    <2> HIDE DEF first
    <2> QED BY <2>2, <2>4
  <1>4. ASSUME n = limit[r], n \notin StrikesOf(r) PROVE Alone(r).tokens = n /\ Alone(r).reason = "stop"
    <2>1. hits = {}
      <3> SUFFICES ASSUME NEW k \in StrikesOf(r), k <= n PROVE FALSE
        BY <1>4
      <3>1. k \in Nat /\ n <= k
        BY <1>2
      <3> QED BY <1>4, <3>1
    <2>2. Alone(r) = [tokens |-> limit[r], reason |-> "stop"]
      BY <1>1, <2>1
    <2> QED BY <1>4, <2>2
  <1> QED BY <1>3, <1>4

\* Disjoint sets count separately.
LEMMA CountDisjoint ==
    ASSUME NEW S, NEW T, IsFiniteSet(S), IsFiniteSet(T), S \cap T = {}
    PROVE  IsFiniteSet(S \cup T) /\ Cardinality(S \cup T) = Cardinality(S) + Cardinality(T)
  <1>1. Cardinality(S \cap T) = 0
    BY FS_EmptySet
  <1>2. IsFiniteSet(S \cup T) /\ Cardinality(S \cup T) = Cardinality(S) + Cardinality(T) - Cardinality(S \cap T)
    BY FS_Union
  <1>3. Cardinality(S) \in Nat /\ Cardinality(T) \in Nat
    BY FS_CardinalityType
  <1> QED BY <1>1, <1>2, <1>3

\* Ending some more sequences in one way adds their number to its tally.
LEMMA CountedAdd ==
    ASSUME NEW m, NEW t, Counted(m, t), NEW kind \in Kinds, NEW hit \in SUBSET Seqs,
           \A r \in hit : m[r] \notin Kinds
    PROVE  Counted([r \in Seqs |-> IF r \in hit THEN kind ELSE m[r]], [t EXCEPT ![kind] = @ + Cardinality(hit)])
  <1> DEFINE f == [r \in Seqs |-> IF r \in hit THEN kind ELSE m[r]]
             u == [t EXCEPT ![kind] = @ + Cardinality(hit)]
             Of(g, k) == {r \in Seqs : g[r] = k}
  <1>1. IsFiniteSet(hit) /\ Cardinality(hit) \in Nat
    BY TokenStepsAssumption, FS_Subset, FS_CardinalityType
  <1>2. t \in [Kinds -> Nat] /\ \A k \in Kinds : t[k] = Cardinality(Of(m, k))
    BY DEF Counted
  <1>3. \A r \in Seqs : f[r] = IF r \in hit THEN kind ELSE m[r]
    OBVIOUS
  <1> HIDE DEF f
  <1>4. u \in [Kinds -> Nat] /\ \A k \in Kinds : u[k] = IF k = kind THEN t[k] + Cardinality(hit) ELSE t[k]
    BY <1>1, <1>2
  <1>5. ASSUME NEW k \in Kinds PROVE u[k] = Cardinality(Of(f, k))
    <2>1. CASE k # kind
      <3>1. Of(f, k) = Of(m, k)
        BY <1>3, <2>1
      <3> QED BY <1>2, <1>4, <2>1, <3>1
    <2>2. CASE k = kind
      <3> DEFINE old == Of(m, k)
      <3>1. Of(f, k) = old \cup hit /\ old \cap hit = {}
        BY <1>3, <2>2
      <3>2. IsFiniteSet(old) /\ Cardinality(old) \in Nat
        BY TokenStepsAssumption, FS_Subset, FS_CardinalityType
      <3> HIDE DEF Of
      <3>3. Cardinality(old \cup hit) = Cardinality(old) + Cardinality(hit)
        BY <1>1, <3>1, <3>2, CountDisjoint
      <3> QED BY <1>2, <1>4, <2>2, <3>1, <3>3
    <2> QED BY <2>1, <2>2
  <1> HIDE DEF u
  <1>6. Counted(f, u)
    BY <1>4, <1>5 DEF Counted
  <1> QED BY <1>6 DEF f, u

\* A strike changes the active sequences it names and counts them.
LEMMA ApplyFacts ==
    ASSUME NEW acc, NEW kind \in Kinds, Counted(acc.mode, acc.tally)
    PROVE  /\ Counted(Apply(acc, kind).mode, Apply(acc, kind).tally)
           /\ Apply(acc, kind).mode = [r \in Seqs |->
                IF acc.mode[r] \notin Finished /\ <<r, stepCount>> \in strikes[kind] THEN kind ELSE acc.mode[r]]
  <1> DEFINE hit == {r \in Active(acc.mode) : <<r, stepCount>> \in strikes[kind]}
             m == [r \in Seqs |-> IF r \in hit THEN kind ELSE acc.mode[r]]
             t == [acc.tally EXCEPT ![kind] = @ + Cardinality(hit)]
  <1>1. Apply(acc, kind).mode = m /\ Apply(acc, kind).tally = t
    BY DEF Apply
  <1>2. hit = {r \in Seqs : acc.mode[r] \notin Finished /\ <<r, stepCount>> \in strikes[kind]}
    BY DEF Active
  <1>3. hit \in SUBSET Seqs /\ \A r \in hit : acc.mode[r] \notin Kinds
    BY <1>2 DEF Finished
  <1>4. m = [r \in Seqs |-> IF acc.mode[r] \notin Finished /\ <<r, stepCount>> \in strikes[kind] THEN kind
                            ELSE acc.mode[r]]
    BY <1>2
  <1> HIDE DEF hit
  <1>5. Counted(m, t)
    BY <1>3, CountedAdd
  <1> HIDE DEF m, t
  <1> QED BY <1>1, <1>4, <1>5

\* The strikes of a step: the first of cancellation, timeout and failure that names
\* an active sequence takes it.
LEMMA StruckFacts ==
    ASSUME Counted(mode, tally), mode \in [Seqs -> Modes]
    PROVE  /\ Counted(Struck.mode, Struck.tally) /\ Struck.mode \in [Seqs -> Modes]
           /\ \A r \in Seqs : Struck.mode[r] =
                IF mode[r] \in Finished THEN mode[r]
                ELSE IF <<r, stepCount>> \in strikes["cancelled"] THEN "cancelled"
                ELSE IF <<r, stepCount>> \in strikes["timed_out"] THEN "timed_out"
                ELSE IF <<r, stepCount>> \in strikes["failed"] THEN "failed"
                ELSE mode[r]
  <1> DEFINE a0 == [mode |-> mode, tally |-> tally]
             a1 == Apply(a0, "cancelled")
             a2 == Apply(a1, "timed_out")
             a3 == Apply(a2, "failed")
             by(r, k) == <<r, stepCount>> \in strikes[k]
  <1>1. Struck = a3 /\ a0.mode = mode /\ a0.tally = tally
    BY DEF Struck
  <1>2. {"cancelled", "timed_out", "failed"} = Kinds /\ Kinds \subseteq Finished /\ Finished \subseteq Modes
    BY DEF Kinds, Finished, Modes
  <1> HIDE DEF a0
  <1>3. /\ Counted(a1.mode, a1.tally)
        /\ a1.mode = [r \in Seqs |-> IF mode[r] \notin Finished /\ by(r, "cancelled") THEN "cancelled" ELSE mode[r]]
    BY <1>1, <1>2, ApplyFacts
  <1> HIDE DEF a1
  <1>4. /\ Counted(a2.mode, a2.tally)
        /\ a2.mode = [r \in Seqs |-> IF a1.mode[r] \notin Finished /\ by(r, "timed_out") THEN "timed_out" ELSE a1.mode[r]]
    BY <1>2, <1>3, ApplyFacts
  <1> HIDE DEF a2
  <1>5. /\ Counted(a3.mode, a3.tally)
        /\ a3.mode = [r \in Seqs |-> IF a2.mode[r] \notin Finished /\ by(r, "failed") THEN "failed" ELSE a2.mode[r]]
    BY <1>2, <1>4, ApplyFacts
  <1> HIDE DEF a3, by
  <1>6. ASSUME NEW r \in Seqs
        PROVE  a3.mode[r] = IF mode[r] \in Finished THEN mode[r]
                            ELSE IF by(r, "cancelled") THEN "cancelled"
                            ELSE IF by(r, "timed_out") THEN "timed_out"
                            ELSE IF by(r, "failed") THEN "failed"
                            ELSE mode[r]
    <2>1. a1.mode[r] = IF mode[r] \notin Finished /\ by(r, "cancelled") THEN "cancelled" ELSE mode[r]
      BY <1>3
    <2>2. a2.mode[r] = IF a1.mode[r] \notin Finished /\ by(r, "timed_out") THEN "timed_out" ELSE a1.mode[r]
      BY <1>4
    <2>3. a3.mode[r] = IF a2.mode[r] \notin Finished /\ by(r, "failed") THEN "failed" ELSE a2.mode[r]
      BY <1>5
    <2>4. "cancelled" \in Finished /\ "timed_out" \in Finished
      BY <1>2
    <2> QED BY <2>1, <2>2, <2>3, <2>4
  <1>7. \A r \in Seqs : a3.mode[r] \in Modes
    BY <1>2, <1>6
  <1>8. a3.mode \in [Seqs -> Modes]
    BY <1>5, <1>7
  <1> QED BY <1>1, <1>5, <1>6, <1>8 DEF by

\* Tallies that count sequences are at most as many as there are.
LEMMA CountedBounds ==
    ASSUME NEW m, NEW t, Counted(m, t)
    PROVE  t \in [Kinds -> 0..Cardinality(Seqs)]
  <1>1. ASSUME NEW k \in Kinds PROVE t[k] \in 0..Cardinality(Seqs)
    <2>1. Cardinality({r \in Seqs : m[r] = k}) <= Cardinality(Seqs) /\ Cardinality(Seqs) \in Nat
      BY TokenStepsAssumption, FS_Subset, FS_CardinalityType
    <2>2. t[k] \in Nat /\ t[k] = Cardinality({r \in Seqs : m[r] = k})
      BY DEF Counted
    <2> QED BY <2>1, <2>2
  <1> QED BY <1>1 DEF Counted

\* A prefilled schedule satisfies the invariant.
LEMMA ScheduleInitially == TsInit => ScheduleInv
  <1> SUFFICES ASSUME TsInit PROVE ScheduleInv
    OBVIOUS
  <1>0. MaxTokens \in Nat /\ LastStep \in Nat /\ IsFiniteSet(Seqs)
    BY TokenStepsAssumption
  <1>1. PlanInv
    BY DEF TsInit, PlanInv
  <1>2. /\ mode \in [Seqs -> Modes] /\ \A r \in Seqs : mode[r] = "ready_to_decode"
        /\ "ready_to_decode" \notin Finished /\ "ready_to_decode" \notin Kinds
    BY DEF TsInit, Modes, Finished, Kinds
  <1>3. emitted \in [Seqs -> Seq(Token)] /\ \A r \in Seqs : emitted[r] = Toks(r, 0)
    <2>1. \A r \in Seqs : emitted[r] = << >> /\ Toks(r, 0) = << >>
      BY TokFacts DEF TsInit
    <2>2. << >> \in Seq(Token)
      OBVIOUS
    <2> QED BY <2>1, <2>2 DEF TsInit
  <1>4. Counted(mode, tally)
    <2>1. tally \in [Kinds -> Nat] /\ \A k \in Kinds : tally[k] = 0
      BY DEF TsInit
    <2>2. \A k \in Kinds : {r \in Seqs : mode[r] = k} = {}
      BY <1>2
    <2> QED BY <2>1, <2>2, FS_EmptySet DEF Counted
  <1>5. tally \in [Kinds -> 0..Cardinality(Seqs)]
    BY <1>4, CountedBounds
  <1>6. stepCount = 0 /\ stepCount \in 0..(MaxTokens + 1) /\ phase = "loop"
    BY <1>0 DEF TsInit
  <1>7. \A r \in Seqs : OnItsWay(mode, emitted, r, stepCount)
    <2> SUFFICES ASSUME NEW r \in Seqs PROVE OnItsWay(mode, emitted, r, 0)
      BY <1>6
    <2>1. 0 <= limit[r] /\ \A k \in StrikesOf(r) : 0 <= k
      BY <1>0, <1>1 DEF PlanInv, StrikesOf
    <2> QED BY <1>2, <1>3, <2>1 DEF OnItsWay
  <1> QED BY <1>1, <1>2, <1>3, <1>4, <1>5, <1>6, <1>7 DEF ScheduleInv

\* Every step of the schedule keeps each sequence on the way it would go alone.
LEMMA ScheduleStep == ScheduleInv /\ [TsNext]_tsVars => ScheduleInv'
  <1> SUFFICES ASSUME ScheduleInv, [TsNext]_tsVars PROVE ScheduleInv'
    OBVIOUS
  <1>a. /\ PlanInv /\ mode \in [Seqs -> Modes] /\ emitted \in [Seqs -> Seq(Token)]
        /\ stepCount \in 0..(MaxTokens + 1) /\ tally \in [Kinds -> 0..Cardinality(Seqs)]
        /\ phase \in {"loop", "report", "clean"}
        /\ MaxTokens \in Nat /\ LastStep \in Nat /\ stepCount \in Nat
    BY TokenStepsAssumption DEF ScheduleInv
  <1>b. phase # "clean" =>
          /\ Counted(mode, tally)
          /\ \A r \in Seqs : mode[r] \in Finished => EndedAsAlone(mode, emitted, r)
          /\ \A r \in Seqs : mode[r] \notin Finished => phase = "loop" /\ OnItsWay(mode, emitted, r, stepCount)
    BY DEF ScheduleInv
  <1>c. Kinds \subseteq Finished /\ Finished \subseteq Modes /\ Kinds = {"cancelled", "timed_out", "failed"}
        /\ "finished" \in Finished /\ "finished" \notin Kinds /\ "decoding" \notin Finished
        /\ "decoding" \in Modes /\ "cleaned_up" \in Modes /\ "decoding" \notin Kinds
    BY DEF Kinds, Finished, Modes
  \* The plans do not change, and neither does what a sequence would get alone.
  <1>d. UNCHANGED <<limit, strikes, shared>>
    BY DEF TsNext, SharedFailure, DecodeStep, LoopEnds, CleanUp, tsVars
  <1>e. PlanInv' /\ \A r : StrikesOf(r)' = StrikesOf(r) /\ Alone(r)' = Alone(r)
    BY <1>a, <1>d DEF PlanInv, StrikesOf, Alone
  \* The ways in which the next state may be good.
  <1>f. ASSUME NEW r \in Seqs, emitted'[r] = Toks(r, Alone(r).tokens), Reason(mode', r) = Alone(r).reason
        PROVE  EndedAsAlone(mode, emitted, r)'
    BY <1>e, <1>f DEF EndedAsAlone, Reason, Toks
  <1>g. ASSUME NEW r \in Seqs, mode'[r] \in {"ready_to_decode", "decoding"}, emitted'[r] = Toks(r, stepCount'),
               stepCount' <= limit[r], \A k \in StrikesOf(r) : stepCount' <= k
        PROVE  OnItsWay(mode, emitted, r, stepCount)'
    BY <1>d, <1>e, <1>g DEF OnItsWay, Toks
  <1>h. ASSUME mode' \in [Seqs -> Modes], emitted' \in [Seqs -> Seq(Token)], stepCount' \in 0..(MaxTokens + 1),
               Counted(mode', tally'), phase' \in {"loop", "report"},
               \A r \in Seqs : mode'[r] \in Finished => EndedAsAlone(mode, emitted, r)',
               \A r \in Seqs : mode'[r] \notin Finished => phase' = "loop" /\ OnItsWay(mode, emitted, r, stepCount)'
        PROVE  ScheduleInv'
    <2>1. tally' \in [Kinds -> 0..Cardinality(Seqs)]
      BY <1>h, CountedBounds
    <2>2. Counted(mode, tally)'
      BY <1>h DEF Counted
    <2> QED BY <1>e, <1>h, <2>1, <2>2 DEF ScheduleInv
  \* A sequence that was done and is left alone stays done.
  <1>i. ASSUME phase # "clean", NEW r \in Seqs, mode[r] \in Finished, mode'[r] = mode[r], emitted'[r] = emitted[r]
        PROVE  EndedAsAlone(mode, emitted, r)'
    <2>1. emitted[r] = Toks(r, Alone(r).tokens) /\ Reason(mode, r) = Alone(r).reason
      BY <1>b, <1>i DEF EndedAsAlone
    <2>2. Reason(mode', r) = Reason(mode, r)
      BY <1>i DEF Reason
    <2> QED BY <1>f, <1>i, <2>1, <2>2
  <1>1. CASE SharedFailure
    <2>1. /\ phase = "loop" /\ stepCount \in shared /\ UNCHANGED emitted /\ stepCount' = stepCount + 1
          /\ phase' = "report" /\ Active(mode) # {}
          /\ mode' = [r \in Seqs |-> IF r \in Active(mode) THEN "failed" ELSE mode[r]]
          /\ tally' = [tally EXCEPT !["failed"] = @ + Cardinality(Active(mode))]
      BY <1>1 DEF SharedFailure
    <2>2. \A r \in Seqs : r \in Active(mode) <=> mode[r] \notin Finished
      BY DEF Active
    <2>3. Active(mode) \in SUBSET Seqs /\ \A r \in Active(mode) : mode[r] \notin Kinds
      BY <1>c DEF Active
    <2>4. Counted(mode', tally')
      BY <1>b, <1>c, <2>1, <2>3, CountedAdd
    <2>5. mode' \in [Seqs -> Modes] /\ \A r \in Seqs : mode'[r] = IF mode[r] \in Finished THEN mode[r] ELSE "failed"
      BY <1>a, <1>c, <2>1, <2>2
    <2>6. \A r \in Seqs : mode'[r] \in Finished
      BY <1>c, <2>5
    <2>7. ASSUME NEW r \in Seqs PROVE EndedAsAlone(mode, emitted, r)'
      <3>1. CASE mode[r] \in Finished
        BY <1>i, <2>1, <2>5, <3>1
      <3>2. CASE mode[r] \notin Finished
        <4>1. emitted[r] = Toks(r, stepCount) /\ stepCount <= limit[r] /\ \A k \in StrikesOf(r) : stepCount <= k
          BY <1>b, <2>1, <3>2 DEF OnItsWay
        <4>2. stepCount \in StrikesOf(r)
          BY <1>a, <2>1 DEF StrikesOf, PlanInv
        <4>3. Alone(r).tokens = stepCount /\ Alone(r).reason = "failed"
          BY <1>a, <2>1, <4>1, <4>2, AloneFacts
        <4>4. Reason(mode', r) = "failed"
          BY <1>c, <2>5, <3>2 DEF Reason
        <4> QED BY <1>f, <2>1, <4>1, <4>3, <4>4
      <3> QED BY <3>1, <3>2
    <2>8. stepCount' \in 0..(MaxTokens + 1)
      <3>1. PICK r \in Seqs : mode[r] \notin Finished
        BY <2>1, <2>2, <2>3
      <3>2. stepCount <= limit[r] /\ limit[r] \in 0..MaxTokens
        BY <1>a, <1>b, <2>1, <3>1 DEF OnItsWay, PlanInv
      <3> QED BY <1>a, <2>1, <3>2
    <2> QED BY <1>a, <1>h, <2>1, <2>4, <2>5, <2>6, <2>7, <2>8
  <1>2. CASE DecodeStep
    <2> DEFINE S == Struck.mode
               n == stepCount
               by(r, k) == <<r, n>> \in strikes[k]
    <2>1. phase = "loop" /\ n \notin shared /\ tally' = Struck.tally /\ Active(mode) # {}
      BY <1>2 DEF DecodeStep
    <2>2. /\ Counted(S, tally') /\ S \in [Seqs -> Modes]
          /\ \A r \in Seqs : S[r] = IF mode[r] \in Finished THEN mode[r]
                                    ELSE IF by(r, "cancelled") THEN "cancelled"
                                    ELSE IF by(r, "timed_out") THEN "timed_out"
                                    ELSE IF by(r, "failed") THEN "failed"
                                    ELSE mode[r]
      BY <1>a, <1>b, <2>1, StruckFacts
    <2>3. \/ /\ Active(S) = {} /\ mode' = S /\ phase' = "report" /\ UNCHANGED <<emitted, stepCount>>
          \/ /\ Active(S) # {} /\ mode' = [r \in Seqs |-> Decodes(S, r)]
             /\ emitted' = [r \in Seqs |-> Routed(S, r)] /\ stepCount' = n + 1 /\ UNCHANGED phase
      BY <1>2 DEF DecodeStep
    <2> HIDE DEF S
    <2>4. \A r \in Seqs : r \in Active(S) <=> S[r] \notin Finished
      BY DEF Active
    <2>5. \A r \in Seqs, k \in Kinds : by(r, k) => n \in StrikesOf(r)
      <3> SUFFICES ASSUME NEW r \in Seqs, NEW k \in Kinds, <<r, n>> \in strikes[k] PROVE n \in StrikesOf(r)
        OBVIOUS
      <3>1. strikes[k] \in OnePlan
        BY <1>a DEF PlanInv
      <3>2. PICK q \in Seqs, i \in 0..LastStep : strikes[k] = {<<q, i>>}
        BY <3>1 DEF OnePlan
      <3>3. n \in 0..LastStep
        BY <3>2
      <3> QED BY <3>3 DEF StrikesOf
    <2>6. \A r \in Seqs : n \in StrikesOf(r) => \E k \in Kinds : by(r, k)
      BY <2>1 DEF StrikesOf
    \* What each sequence had before, and what becomes of it.
    <2>7. ASSUME NEW r \in Seqs, mode[r] \notin Finished
          PROVE  /\ mode[r] \in {"ready_to_decode", "decoding"} /\ emitted[r] = Toks(r, n)
                 /\ n <= limit[r] /\ \A k \in StrikesOf(r) : n <= k
      BY <1>b, <2>1, <2>7 DEF OnItsWay
    <2>8. ASSUME NEW r \in Seqs, mode'[r] = S[r], emitted'[r] = emitted[r], S[r] \in Finished
          PROVE  EndedAsAlone(mode, emitted, r)'
      <3>1. CASE mode[r] \in Finished
        BY <1>i, <2>1, <2>2, <2>8, <3>1
      <3>2. CASE mode[r] \notin Finished
        <4>1. n \in StrikesOf(r)
          BY <1>c, <2>2, <2>5, <2>8, <3>2
        <4>2. Alone(r).tokens = n /\ Alone(r).reason = S[r]
          <5>1. /\ Alone(r).tokens = n
                /\ Alone(r).reason = IF by(r, "cancelled") THEN "cancelled"
                                     ELSE IF by(r, "timed_out") THEN "timed_out" ELSE "failed"
            BY <1>a, <2>1, <2>7, <3>2, <4>1, AloneFacts
          <5>2. by(r, "cancelled") \/ by(r, "timed_out") \/ by(r, "failed")
            BY <1>c, <2>6, <4>1
          <5> QED BY <2>2, <3>2, <5>1, <5>2
        <4>3. Reason(mode', r) = S[r]
          BY <1>c, <2>2, <2>5, <2>8, <3>2 DEF Reason
        <4> QED BY <1>f, <2>7, <2>8, <3>2, <4>2, <4>3
      <3> QED BY <3>1, <3>2
    <2>9. CASE Active(S) = {}
      <3>1. mode' = S /\ phase' = "report" /\ UNCHANGED <<emitted, stepCount>>
        BY <2>3, <2>9
      <3>2. \A r \in Seqs : mode'[r] \in Finished
        BY <2>4, <2>9, <3>1
      <3>3. \A r \in Seqs : EndedAsAlone(mode, emitted, r)'
        BY <2>8, <3>1, <3>2
      <3> QED BY <1>a, <1>h, <2>2, <3>1, <3>2, <3>3
    <2>10. CASE Active(S) # {}
      <3>1. /\ mode' = [r \in Seqs |-> Decodes(S, r)] /\ emitted' = [r \in Seqs |-> Routed(S, r)]
            /\ stepCount' = n + 1 /\ phase' = "loop"
        BY <2>1, <2>3, <2>10
      <3>2. ASSUME NEW r \in Seqs, S[r] \in Finished
            PROVE  mode'[r] = S[r] /\ emitted'[r] = emitted[r]
        BY <2>4, <3>1, <3>2 DEF Decodes, Routed
      <3>3. ASSUME NEW r \in Seqs, S[r] \notin Finished
            PROVE  /\ mode[r] \notin Finished /\ S[r] = mode[r] /\ n \notin StrikesOf(r) /\ limit[r] \in Nat
                   /\ Len(emitted[r]) = n
                   /\ n < limit[r] => mode'[r] = "decoding" /\ emitted'[r] = Toks(r, n + 1)
                   /\ ~(n < limit[r]) => mode'[r] = "finished" /\ emitted'[r] = emitted[r]
        <4>1. mode[r] \notin Finished /\ S[r] = mode[r] /\ \A k \in Kinds : ~by(r, k)
          BY <1>c, <2>2, <3>3
        <4>2. n \notin StrikesOf(r)
          BY <2>6, <4>1
        <4>3. emitted[r] = Toks(r, n) /\ Len(emitted[r]) = n
              /\ Append(emitted[r], [req |-> r, at |-> n]) = Toks(r, n + 1)
          BY <1>a, <2>7, <4>1, TokFacts
        <4>4. /\ mode'[r] = IF Len(emitted[r]) < limit[r] THEN "decoding" ELSE "finished"
              /\ emitted'[r] = IF Len(emitted[r]) < limit[r]
                               THEN Append(emitted[r], [req |-> r, at |-> Len(emitted[r])]) ELSE emitted[r]
          BY <2>4, <3>1, <3>3 DEF Decodes, Routed
        <4>5. limit[r] \in Nat
          BY <1>a DEF PlanInv
        <4> QED BY <4>1, <4>2, <4>3, <4>4, <4>5
      <3>4. ASSUME NEW r \in Seqs, mode'[r] \in Finished PROVE EndedAsAlone(mode, emitted, r)'
        <4>1. CASE S[r] \in Finished
          BY <2>8, <3>2, <4>1
        <4>2. CASE S[r] \notin Finished
          <5>1. ~(n < limit[r])
            BY <1>c, <3>3, <3>4, <4>2
          <5>2. n <= limit[r] /\ limit[r] \in Nat /\ emitted[r] = Toks(r, n) /\ \A k \in StrikesOf(r) : n <= k
            BY <2>7, <3>3, <4>2
          <5>3. n = limit[r]
            BY <1>a, <5>1, <5>2
          <5>4. Alone(r).tokens = n /\ Alone(r).reason = "stop"
            BY <1>a, <3>3, <4>2, <5>2, <5>3, AloneFacts
          <5>5. mode'[r] = "finished" /\ emitted'[r] = Toks(r, n)
            BY <3>3, <4>2, <5>1, <5>2
          <5>6. Reason(mode', r) = "stop"
            BY <1>c, <5>5 DEF Reason
          <5> QED BY <1>f, <5>4, <5>5, <5>6
        <4> QED BY <4>1, <4>2
      <3>5. ASSUME NEW r \in Seqs, mode'[r] \notin Finished PROVE OnItsWay(mode, emitted, r, stepCount)'
        <4>1. S[r] \notin Finished
          BY <3>2, <3>5
        <4>2. n < limit[r] /\ limit[r] \in Nat
          BY <1>c, <3>3, <3>5, <4>1
        <4>3. mode'[r] = "decoding" /\ emitted'[r] = Toks(r, n + 1) /\ n \notin StrikesOf(r)
          BY <3>3, <4>1, <4>2
        <4>4. \A k \in StrikesOf(r) : n <= k
          BY <2>7, <3>3, <4>1
        <4>5. \A k \in StrikesOf(r) : n + 1 <= k
          <5> SUFFICES ASSUME NEW k \in StrikesOf(r) PROVE n + 1 <= k
            OBVIOUS
          <5>1. k \in Nat
            BY <1>a DEF StrikesOf
          <5>2. n <= k /\ k # n
            BY <4>3, <4>4
          <5> QED BY <1>a, <5>1, <5>2
        <4>6. n + 1 <= limit[r]
          BY <1>a, <4>2
        <4> QED BY <1>g, <3>1, <4>3, <4>5, <4>6
      <3>6. mode' \in [Seqs -> Modes] /\ \A r \in Seqs, k \in Kinds : mode'[r] = k <=> S[r] = k
        <4>1. \A r \in Seqs : mode'[r] \in Modes
          BY <1>c, <2>2, <3>2, <3>3
        <4>2. \A r \in Seqs, k \in Kinds : mode'[r] = k <=> S[r] = k
          BY <1>c, <3>2, <3>3
        <4> QED BY <3>1, <4>1, <4>2
      <3>7. Counted(mode', tally')
        <4>1. \A k \in Kinds : {r \in Seqs : mode'[r] = k} = {r \in Seqs : S[r] = k}
          BY <3>6
        <4> QED BY <2>2, <4>1 DEF Counted
      <3>8. emitted' \in [Seqs -> Seq(Token)]
        <4>1. ASSUME NEW r \in Seqs PROVE emitted'[r] \in Seq(Token)
          <5>1. CASE S[r] \in Finished \/ ~(n < limit[r])
            BY <1>a, <3>2, <3>3, <5>1
          <5>2. CASE S[r] \notin Finished /\ n < limit[r]
            <6>1. emitted'[r] = Toks(r, n + 1) /\ n + 1 \in Nat /\ n + 1 <= MaxTokens
              <7>1. limit[r] \in 0..MaxTokens
                BY <1>a DEF PlanInv
              <7> QED BY <1>a, <3>3, <5>2, <7>1
            <6> QED BY <6>1, TokFacts
          <5> QED BY <5>1, <5>2
        <4> QED BY <3>1, <4>1
      <3>9. stepCount' \in 0..(MaxTokens + 1)
        <4>1. PICK r \in Seqs : mode[r] \notin Finished
          BY <2>1 DEF Active
        <4>2. n <= limit[r] /\ limit[r] \in 0..MaxTokens
          BY <1>a, <2>7, <4>1 DEF PlanInv
        <4> QED BY <1>a, <3>1, <4>2
      <3> QED BY <1>h, <3>1, <3>4, <3>5, <3>6, <3>7, <3>8, <3>9
    <2> QED BY <2>9, <2>10
  <1>3. CASE LoopEnds
    <2>1. UNCHANGED <<mode, emitted, stepCount, tally>> /\ phase = "loop" /\ phase' = "report"
          /\ \A r \in Seqs : mode[r] \in Finished
      BY <1>3 DEF LoopEnds, Active
    <2>2. \A r \in Seqs : EndedAsAlone(mode, emitted, r)'
      BY <1>i, <2>1
    <2>3. Counted(mode', tally')
      BY <1>b, <2>1
    <2> QED BY <1>a, <1>h, <2>1, <2>2, <2>3
  <1>4. CASE CleanUp
    <2>1. UNCHANGED <<emitted, stepCount, tally>> /\ phase' = "clean" /\ mode' = [r \in Seqs |-> "cleaned_up"]
      BY <1>4 DEF CleanUp
    <2> QED BY <1>a, <1>c, <1>e, <2>1 DEF ScheduleInv
  <1>5. CASE UNCHANGED tsVars
    <2>1. UNCHANGED <<mode, emitted, stepCount, tally, phase>>
      BY <1>5 DEF tsVars
    <2>2. CASE phase = "clean"
      BY <1>a, <1>e, <2>1, <2>2 DEF ScheduleInv
    <2>3. CASE phase # "clean"
      <3>1. \A r \in Seqs : mode'[r] \in Finished => EndedAsAlone(mode, emitted, r)'
        BY <1>i, <2>1, <2>3
      <3>2. \A r \in Seqs : mode'[r] \notin Finished => phase' = "loop" /\ OnItsWay(mode, emitted, r, stepCount)'
        BY <1>b, <1>d, <1>e, <2>1, <2>3 DEF OnItsWay, Toks
      <3>3. Counted(mode', tally')
        BY <1>b, <2>1, <2>3
      <3> QED BY <1>a, <1>h, <2>1, <2>3, <3>1, <3>2, <3>3
    <2> QED BY <2>2, <2>3
  <1> QED BY <1>1, <1>2, <1>3, <1>4, <1>5 DEF TsNext

\* A shared schedule is as good as one schedule for each sequence: whatever strikes
\* the others, a request gets the tokens and the finish reason it would get alone,
\* and the report counts every request once (run_fake_token_step_schedule).
THEOREM SequencesStayIndependent == TsSpec => []SequencesAreIndependent
  <1>1. ScheduleInv => SequencesAreIndependent
    <2> SUFFICES ASSUME ScheduleInv PROVE SequencesAreIndependent
      OBVIOUS
    <2>1. TsTypeOK
      BY DEF ScheduleInv, TsTypeOK, Modes
    <2>2. ASSUME phase = "report"
          PROVE  /\ Counted(mode, tally)
                 /\ \A r \in Seqs : mode[r] \in Finished /\ EndedAsAlone(mode, emitted, r)
      BY <2>2 DEF ScheduleInv
    <2>3. PeerIsolation
      BY <2>2 DEF PeerIsolation, EndedAsAlone, Toks, Reason, FinishReason
    <2>4. ReportBalances
      <3> SUFFICES ASSUME phase = "report"
                   PROVE  /\ SequencesFinished = Cardinality({r \in Seqs : FinishReason(r) = "stop"})
                          /\ \A k \in Kinds : tally[k] = Cardinality({r \in Seqs : FinishReason(r) = k})
        BY DEF ReportBalances
      <3> DEFINE Of(k) == {r \in Seqs : FinishReason(r) = k}
      <3>1. /\ Kinds = {"cancelled", "timed_out", "failed"} /\ "stop" \notin Kinds
            /\ \A r \in Seqs : FinishReason(r) \in Kinds \cup {"stop"}
        BY DEF Kinds, FinishReason
      <3>2. \A k \in Kinds : Of(k) = {r \in Seqs : mode[r] = k}
        BY <3>1 DEF FinishReason
      <3>3. \A k \in Kinds : tally[k] = Cardinality(Of(k)) /\ tally[k] \in Nat
        BY <2>2, <3>2 DEF Counted
      <3>4. /\ IsFiniteSet(Seqs) /\ Cardinality(Seqs) \in Nat
            /\ \A k : IsFiniteSet(Of(k)) /\ Cardinality(Of(k)) \in Nat
        BY TokenStepsAssumption, FS_Subset, FS_CardinalityType
      <3> DEFINE c == Of("cancelled")
                 o == Of("timed_out")
                 f == Of("failed")
                 z == Of("stop")
      <3>5. Seqs = ((c \cup o) \cup f) \cup z /\ c \cap o = {} /\ (c \cup o) \cap f = {} /\ ((c \cup o) \cup f) \cap z = {}
        BY <3>1
      <3> HIDE DEF Of
      <3>6. IsFiniteSet(c \cup o) /\ Cardinality(c \cup o) = Cardinality(c) + Cardinality(o)
        BY <3>4, <3>5, CountDisjoint
      <3>7. IsFiniteSet((c \cup o) \cup f) /\ Cardinality((c \cup o) \cup f) = Cardinality(c \cup o) + Cardinality(f)
        BY <3>4, <3>5, <3>6, CountDisjoint
      <3>8. Cardinality(Seqs) = Cardinality((c \cup o) \cup f) + Cardinality(z)
        BY <3>4, <3>5, <3>6, <3>7, CountDisjoint
      <3>9. SequencesFinished = Cardinality(z)
        BY <3>1, <3>3, <3>4, <3>6, <3>7, <3>8 DEF SequencesFinished
      <3> QED BY <3>3, <3>9 DEF Of
    <2> QED BY <2>1, <2>3, <2>4 DEF SequencesAreIndependent
  <1> QED BY <1>1, ScheduleInitially, ScheduleStep, PTL DEF TsSpec
(***************************************************************************)
(* The batch analysis                                                      *)
(***************************************************************************)
\* list.pop(i): the elements behind the removed one move up.
LEMMA RemoveAtPositions ==
    ASSUME NEW S, NEW q \in Seq(S), NEW i \in DOMAIN q
    PROVE  /\ RemoveAt(q, i) \in Seq(S) /\ Len(RemoveAt(q, i)) = Len(q) - 1
           /\ \A j \in 1..Len(RemoveAt(q, i)) :
                 RemoveAt(q, i)[j] = IF j < i THEN q[j] ELSE q[j + 1]
  <1> DEFINE p == RemoveAt(q, i)
  <1> DEFINE head == SubSeq(q, 1, i - 1)
             tail == SubSeq(q, i + 1, Len(q))
  <1>1. i \in 1..Len(q) /\ Len(q) \in Nat /\ \A j \in 1..Len(q) : q[j] \in S
    OBVIOUS
  <1>2. /\ head \in Seq(S) /\ Len(head) = i - 1
        /\ \A j \in 1..(i - 1) : head[j] = q[j]
    BY <1>1, SubSeqProperties
  <1>3. /\ tail \in Seq(S) /\ Len(tail) = Len(q) - i
        /\ \A j \in 1..(Len(q) - i) : tail[j] = q[i + j]
    <2>1. \A j \in (i + 1)..Len(q) : q[j] \in S
      BY <1>1
    <2>2. /\ tail \in Seq(S)
          /\ Len(tail) = IF i + 1 <= Len(q) THEN Len(q) - (i + 1) + 1 ELSE 0
          /\ \A j \in 1..(Len(q) - (i + 1) + 1) : tail[j] = q[(i + 1) + j - 1]
      BY <1>1, <2>1, SubSeqProperties
    <2> QED BY <1>1, <2>2
  <1>4. p = head \o tail
    BY DEF RemoveAt
  <1> HIDE DEF p, head, tail
  <1>5. /\ p \in Seq(S) /\ Len(p) = Len(head) + Len(tail)
        /\ \A j \in 1..(Len(head) + Len(tail)) :
              p[j] = IF j <= Len(head) THEN head[j] ELSE tail[j - Len(head)]
    <2>1. head \in Seq(S) /\ tail \in Seq(S)
      BY <1>2, <1>3
    <2>2. /\ head \o tail \in Seq(S)
          /\ Len(head \o tail) = Len(head) + Len(tail)
          /\ \A j \in 1..(Len(head) + Len(tail)) :
                (head \o tail)[j] = IF j <= Len(head) THEN head[j] ELSE tail[j - Len(head)]
      BY <2>1, ConcatProperties, Zenon
    <2> QED BY <1>4, <2>2, Zenon
  <1>6. p \in Seq(S) /\ Len(p) = Len(q) - 1
    BY <1>1, <1>2, <1>3, <1>5
  <1>7. \A j \in 1..Len(p) : p[j] = IF j < i THEN q[j] ELSE q[j + 1]
    <2> SUFFICES ASSUME NEW j \in 1..Len(p)
                 PROVE  p[j] = IF j < i THEN q[j] ELSE q[j + 1]
      OBVIOUS
    <2>1. CASE j < i
      BY SMTT(40), <1>1, <1>6, <1>2, <1>3, <1>5, <2>1
    <2>2. CASE ~(j < i)
      <3>1. j - (i - 1) \in 1..(Len(q) - i) /\ i + (j - (i - 1)) = j + 1
        BY <1>1, <1>6, <2>2
      <3>2. p[j] = tail[j - (i - 1)]
        BY SMTT(40), <1>1, <1>6, <1>2, <1>3, <1>5, <2>2
      <3> QED BY <1>3, <2>2, <3>1, <3>2
    <2> QED BY <2>1, <2>2
  <1> QED BY <1>6, <1>7 DEF p

\* A non-empty finite set of numbers has a largest element.
LEMMA LargestNumber ==
    ASSUME NEW E, E \subseteq Nat, IsFiniteSet(E), E # {}
    PROVE  PlaceToPop(E) \in E /\ \A x \in E : x <= PlaceToPop(E)
  <1>1. Cardinality(E) \in Nat /\ Cardinality(E) # 0
    BY FS_CardinalityType, FS_EmptySet
  <1>2. PICK s \in E : RankIn(E, s) = Cardinality(E)
    <2>1. Cardinality(E) \in 1..Cardinality(E)
      BY <1>1
    <2> QED BY <2>1, RankExists
  <1>3. ASSUME NEW x \in E PROVE x <= s
    <2>1. /\ s < x => RankIn(E, s) < RankIn(E, x)
          /\ RankIn(E, x) \in 1..Cardinality(E)
      BY RankGrows
    <2>2. s \in Nat /\ x \in Nat
      OBVIOUS
    <2> QED BY <1>1, <1>2, <2>1, <2>2
  <1> QED BY <1>3 DEF PlaceToPop

GroupRec == [members : SUBSET Nat, eligible : BOOLEAN]

\* A group may run together and is not over the size.
GroupFits(m) ==
    /\ Cardinality(m) <= MaxGroupSize
    /\ \A i, j \in m : i # j => CheckCompatibility(input[i], input[j])

InOrder(q) == \A j, k \in DOMAIN q : j < k => q[j] < q[k]

\* Between two pops the places still to be popped hold members of the group being made.
BatchInv ==
    /\ input \in CandidateLists /\ remaining \in Seq(DOMAIN input) /\ compatible \subseteq DOMAIN input
    /\ toRemove \subseteq DOMAIN remaining /\ \A k \in toRemove : remaining[k] \in compatible
    /\ groups \in Seq(GroupRec)
    /\ compatible # {} => GroupFits(compatible)
    /\ GroupsPartitionTheQueue

\* The positions of a queue of candidates.
LEMMA Positions ==
    ASSUME input \in CandidateLists
    PROVE  DOMAIN input = 1..Len(input) /\ Len(input) \in Nat /\ DOMAIN input \subseteq Nat
  <1>1. input \in Seq(BatchCandidate)
    BY BatchingAssumption
  <1>2. DOMAIN input = 1..Len(input) /\ Len(input) \in Nat
    BY <1>1
  <1> QED BY <1>2

\* Of the candidates that fit, at most max_group_size - 1 are matched.
LEMMA MatchedFacts ==
    ASSUME NEW S, NEW rest \in Seq(S), NEW a
    PROVE  /\ Matched(a, rest) \subseteq DOMAIN rest /\ IsFiniteSet(Matched(a, rest))
           /\ Cardinality(Matched(a, rest)) <= MaxGroupSize - 1
           /\ \A i \in Matched(a, rest) : CheckCompatibility(input[a], input[rest[i]])
  <1> DEFINE fits == {i \in DOMAIN rest : CheckCompatibility(input[a], input[rest[i]])}
             M == {i \in fits : Cardinality({j \in fits : j < i}) < MaxGroupSize - 1}
             room == 1..(MaxGroupSize - 1)
  <1>1. Matched(a, rest) = M /\ MaxGroupSize \in Nat /\ MaxGroupSize - 1 \in Nat
    BY BatchingAssumption DEF Matched
  <1>2. DOMAIN rest = 1..Len(rest) /\ Len(rest) \in Nat
    OBVIOUS
  <1>3. /\ fits \subseteq DOMAIN rest /\ fits \subseteq Nat /\ IsFiniteSet(fits)
        /\ \A i \in fits : CheckCompatibility(input[a], input[rest[i]])
    <2>1. fits \subseteq DOMAIN rest /\ \A i \in fits : CheckCompatibility(input[a], input[rest[i]])
      OBVIOUS
    <2> HIDE DEF fits
    <2>2. IsFiniteSet(1..Len(rest)) /\ 1..Len(rest) \subseteq Nat
      BY <1>2, FS_Interval
    <2> QED BY <1>2, <2>1, <2>2, FS_Subset
  <1> HIDE DEF fits
  <1>4. M \subseteq fits /\ IsFiniteSet(M)
    <2>1. M \subseteq fits
      OBVIOUS
    <2> QED BY <1>3, <2>1, FS_Subset
  <1>5. ASSUME NEW i \in M PROVE RankIn(fits, i) \in room
    <2>1. i \in fits /\ i \in Nat /\ Cardinality({j \in fits : j < i}) < MaxGroupSize - 1
      BY <1>3
    <2> DEFINE B == {j \in fits : j < i}
    <2>2. {t \in fits : t <= i} = B \cup {i} /\ i \notin B /\ B \subseteq fits
      BY <1>3, <2>1
    <2> HIDE DEF B
    <2>3. IsFiniteSet(B) /\ Cardinality(B) \in Nat
      BY <1>3, <2>2, FS_Subset, FS_CardinalityType
    <2>4. RankIn(fits, i) = Cardinality(B) + 1
      BY <2>2, <2>3, FS_AddElement DEF RankIn
    <2>5. Cardinality(B) < MaxGroupSize - 1
      BY <2>1 DEF B
    <2> QED BY <1>1, <2>3, <2>4, <2>5
  <1> DEFINE f == [i \in M |-> RankIn(fits, i)]
  <1>6. f \in [M -> room]
    BY <1>5
  <1>7. ASSUME NEW s \in M, NEW u \in M, f[s] = f[u] PROVE s = u
    <2>1. s \in fits /\ u \in fits /\ s \in Nat /\ u \in Nat
      BY <1>3, <1>4
    <2>2. RankIn(fits, s) = RankIn(fits, u) /\ RankIn(fits, s) \in room
      BY <1>5, <1>7
    <2>3. /\ s < u => RankIn(fits, s) < RankIn(fits, u)
          /\ u < s => RankIn(fits, u) < RankIn(fits, s)
      BY <1>3, <2>1, RankGrows
    <2> QED BY <1>1, <2>1, <2>2, <2>3
  <1>8. f \in Injection(M, room)
    BY <1>6, <1>7 DEF Injection, IsInjective
  <1>9. IsFiniteSet(room) /\ Cardinality(room) = MaxGroupSize - 1
    <2> DEFINE m == MaxGroupSize - 1
    <2>1. m \in Nat
      BY <1>1
    <2> HIDE DEF m
    <2>2. IsFiniteSet(1..m) /\ Cardinality(1..m) = m
      BY <2>1, FS_Interval
    <2> QED BY <2>2 DEF m
  <1> HIDE DEF f, M, room
  <1>10. Cardinality(M) <= MaxGroupSize - 1
    BY <1>8, <1>9, FS_Injection
  <1> QED BY <1>1, <1>3, <1>4, <1>10

\* Nothing is grouped at the start.
LEMMA BatchBegins ==
    ASSUME BatInit
    PROVE  BatchInv
  <1>1. /\ input \in CandidateLists /\ remaining = [i \in DOMAIN input |-> i]
        /\ compatible = {} /\ toRemove = {} /\ groups = << >>
    BY DEF BatInit
  <1>2. DOMAIN input = 1..Len(input) /\ Len(input) \in Nat
    BY <1>1, Positions
  <1>3. /\ remaining \in Seq(DOMAIN input) /\ DOMAIN remaining = DOMAIN input
        /\ \A k \in DOMAIN input : remaining[k] = k
    BY <1>1, <1>2
  <1>4. groups \in Seq(GroupRec) /\ DOMAIN groups = {}
    BY <1>1
  <1>5. Grouped = {} /\ Waiting = DOMAIN input
    <2>1. Grouped = {}
      BY <1>4 DEF Grouped
    <2>2. Waiting = {remaining[k] : k \in DOMAIN input}
      BY <1>1, <1>3 DEF Waiting
    <2> QED BY <1>3, <2>1, <2>2
  <1>6. GroupsPartitionTheQueue
    BY <1>1, <1>3, <1>4, <1>5 DEF GroupsPartitionTheQueue
  <1> QED BY <1>1, <1>3, <1>4, <1>6 DEF BatchInv

\* The anchor and the candidates matched with it leave the queue for the group.
LEMMA AnchorStep ==
    ASSUME BatchInv, TakeAnchor
    PROVE  BatchInv'
  <1> DEFINE a == Head(remaining)
             rest == Tail(remaining)
             M == Matched(a, rest)
             L == Len(rest)
             new == {a} \cup {rest[i] : i \in M}
             waits == {rest[k] : k \in DOMAIN rest \ M}
  <1>1. /\ input \in CandidateLists /\ remaining \in Seq(DOMAIN input) /\ remaining # << >>
        /\ compatible = {} /\ toRemove = {} /\ groups \in Seq(GroupRec)
        /\ input' = input /\ groups' = groups /\ remaining' = rest /\ toRemove' = M /\ compatible' = new
    BY DEF BatchInv, TakeAnchor
  <1>2. DOMAIN input \subseteq Nat
    BY <1>1, Positions
  <1>3. /\ a \in DOMAIN input /\ rest \in Seq(DOMAIN input) /\ L \in Nat /\ DOMAIN rest = 1..L
        /\ DOMAIN remaining = 1..(L + 1) /\ a = remaining[1]
        /\ \A k \in 1..L : rest[k] = remaining[k + 1]
    BY <1>1
  <1>4. M \subseteq DOMAIN rest /\ IsFiniteSet(M) /\ Cardinality(M) <= MaxGroupSize - 1
        /\ \A i \in M : CheckCompatibility(input[a], input[rest[i]])
    BY <1>3, MatchedFacts
  <1> HIDE DEF a, rest, M, L
  <1>5. InOrder(rest) /\ \A k \in 1..L : a < rest[k]
    <2>1. InOrder(remaining)
      BY DEF BatchInv, GroupsPartitionTheQueue, InOrder
    <2>2. ASSUME NEW j \in 1..L, NEW k \in 1..L, j < k PROVE rest[j] < rest[k]
      <3>1. j + 1 \in DOMAIN remaining /\ k + 1 \in DOMAIN remaining /\ j + 1 < k + 1
        BY <1>3, <2>2
      <3> QED BY <1>3, <2>1, <3>1 DEF InOrder
    <2>3. ASSUME NEW k \in 1..L PROVE a < rest[k]
      <3>1. 1 \in DOMAIN remaining /\ k + 1 \in DOMAIN remaining /\ 1 < k + 1
        BY <1>3
      <3> QED BY <1>3, <2>1, <3>1 DEF InOrder
    <2> QED BY <1>3, <2>2, <2>3 DEF InOrder
  <1>6. \A k \in 1..L : rest[k] \in DOMAIN input /\ rest[k] # a
    <2> SUFFICES ASSUME NEW k \in 1..L PROVE rest[k] \in DOMAIN input /\ rest[k] # a
      OBVIOUS
    <2>1. rest[k] \in Nat /\ a \in Nat /\ a < rest[k] /\ rest[k] \in DOMAIN input
      BY <1>2, <1>3, <1>5
    <2> QED BY <2>1
  <1>7. \A j, k \in 1..L : rest[j] = rest[k] => j = k
    <2> SUFFICES ASSUME NEW j \in 1..L, NEW k \in 1..L, rest[j] = rest[k] PROVE j = k
      OBVIOUS
    <2>1. rest[j] \in Nat /\ rest[k] \in Nat
      BY <1>2, <1>6
    <2>2. (j < k => rest[j] < rest[k]) /\ (k < j => rest[k] < rest[j])
      BY <1>3, <1>5 DEF InOrder
    <2>3. ~(j < k) /\ ~(k < j)
      BY <2>1, <2>2
    <2> QED BY <1>3, <2>3
  <1>8. Waiting = new \cup waits /\ new \cap waits = {}
    <2>1. Waiting = {remaining[k] : k \in DOMAIN remaining}
      BY <1>1 DEF Waiting
    <2>2. ASSUME NEW x \in Waiting PROVE x \in new \cup waits
      <3>1. PICK k \in 1..(L + 1) : x = remaining[k]
        BY <1>3, <2>1
      <3>2. CASE k = 1
        BY <1>3, <3>1, <3>2
      <3>3. CASE k # 1
        <4>1. k - 1 \in 1..L /\ (k - 1) + 1 = k
          BY <1>3, <3>3
        <4>2. x = rest[k - 1]
          BY <1>3, <3>1, <4>1
        <4> QED BY <1>3, <4>1, <4>2
      <3> QED BY <3>2, <3>3
    <2>3. ASSUME NEW x \in new \cup waits PROVE x \in Waiting
      <3>1. CASE x = a
        <4>1. 1 \in DOMAIN remaining
          BY <1>3
        <4> QED BY <1>3, <2>1, <3>1, <4>1
      <3>2. ASSUME NEW k \in 1..L, x = rest[k] PROVE x \in Waiting
        <4>1. k + 1 \in DOMAIN remaining /\ x = remaining[k + 1]
          BY <1>3, <3>2
        <4> QED BY <2>1, <4>1
      <3> QED BY <1>3, <1>4, <3>1, <3>2
    <2>4. new \cap waits = {}
      BY <1>3, <1>4, <1>6, <1>7
    <2> QED BY <2>2, <2>3, <2>4
  <1>9. Waiting' = waits /\ Grouped' = Grouped
    BY <1>1 DEF Waiting, Grouped
  <1>10. GroupFits(new)
    <2>1. \A i, j \in new : i # j => CheckCompatibility(input[i], input[j])
      <3> SUFFICES ASSUME NEW i \in new, NEW j \in new, i # j
                   PROVE  CheckCompatibility(input[i], input[j])
        OBVIOUS
      <3>1. i = a \/ CheckCompatibility(input[a], input[i])
        BY <1>4
      <3>2. j = a \/ CheckCompatibility(input[a], input[j])
        BY <1>4
      <3> QED BY <3>1, <3>2 DEF CheckCompatibility
    <2>2. Cardinality(new) <= MaxGroupSize
      <3> DEFINE joined == {rest[i] : i \in M}
                 f == [i \in M |-> rest[i]]
      <3>1. f \in Surjection(M, joined)
        BY DEF Surjection
      <3>2. IsFiniteSet(joined) /\ Cardinality(joined) <= Cardinality(M)
        BY <1>4, <3>1, FS_Surjection
      <3> HIDE DEF joined
      <3>3. Cardinality(joined \cup {a}) <= Cardinality(joined) + 1
        BY <3>2, FS_AddElement, FS_CardinalityType
      <3>4. new = joined \cup {a}
        BY DEF joined
      <3>5. /\ Cardinality(joined) \in Nat /\ Cardinality(M) \in Nat /\ MaxGroupSize \in Nat
            /\ Cardinality(joined \cup {a}) \in Nat
        BY <1>4, <3>2, FS_AddElement, FS_CardinalityType, BatchingAssumption
      <3> HIDE DEF new
      <3> QED BY <1>4, <3>2, <3>3, <3>4, <3>5
    <2> QED BY <2>1, <2>2 DEF GroupFits
  <1>11. GroupsPartitionTheQueue'
    <2>1. /\ Grouped \cup Waiting = DOMAIN input /\ Grouped \cap Waiting = {}
          /\ \A g, h \in DOMAIN groups : g # h => groups[g].members \cap groups[h].members = {}
          /\ \A g \in DOMAIN groups : GroupFits(groups[g].members)
      BY <1>1 DEF BatchInv, GroupsPartitionTheQueue, GroupFits
    <2> HIDE DEF new, waits
    <2>2. /\ Grouped \cup new \cup waits = DOMAIN input /\ Grouped \cap new = {}
          /\ (Grouped \cup new) \cap waits = {}
      BY <1>8, <2>1
    <2>3. InOrder(rest)
      BY <1>5
    <2> QED BY <1>1, <1>9, <2>1, <2>2, <2>3 DEF GroupsPartitionTheQueue, GroupFits, InOrder, CheckCompatibility
  <1>12. new \subseteq DOMAIN input /\ \A k \in M : rest[k] \in new
    BY <1>3, <1>4, <1>6
  <1> HIDE DEF new
  <1>13. GroupFits(compatible)'
    BY <1>1, <1>10 DEF GroupFits, CheckCompatibility
  <1> QED BY <1>1, <1>3, <1>4, <1>11, <1>12, <1>13 DEF BatchInv

\* Popping the last of the matched places leaves the places of the others as they were.
LEMMA PopStep ==
    ASSUME BatchInv, PopMatched
    PROVE  BatchInv'
  <1> DEFINE p == PlaceToPop(toRemove)
             q == RemoveAt(remaining, p)
             L == Len(remaining)
  <1>1. /\ input \in CandidateLists /\ remaining \in Seq(DOMAIN input) /\ toRemove # {}
        /\ toRemove \subseteq DOMAIN remaining /\ \A k \in toRemove : remaining[k] \in compatible
        /\ input' = input /\ groups' = groups /\ compatible' = compatible
        /\ remaining' = q /\ toRemove' = toRemove \ {p}
    BY DEF BatchInv, PopMatched
  <1>2. L \in Nat /\ DOMAIN remaining = 1..L /\ DOMAIN input \subseteq Nat
    BY <1>1, Positions
  <1>3. p \in toRemove /\ \A x \in toRemove : x <= p
    <2>1. toRemove \subseteq Nat /\ IsFiniteSet(toRemove)
      <3>1. IsFiniteSet(1..L) /\ 1..L \subseteq Nat
        BY <1>2, FS_Interval
      <3> QED BY <1>1, <1>2, <3>1, FS_Subset
    <2> QED BY <1>1, <2>1, LargestNumber
  <1> HIDE DEF p
  <1>4. /\ q \in Seq(DOMAIN input) /\ Len(q) = L - 1 /\ DOMAIN q = 1..(L - 1)
        /\ \A j \in 1..(L - 1) : q[j] = IF j < p THEN remaining[j] ELSE remaining[j + 1]
    <2>1. p \in DOMAIN remaining
      BY <1>1, <1>3
    <2>2. /\ q \in Seq(DOMAIN input) /\ Len(q) = Len(remaining) - 1
          /\ \A j \in 1..Len(q) : q[j] = IF j < p THEN remaining[j] ELSE remaining[j + 1]
      BY <1>1, <2>1, RemoveAtPositions
    <2> HIDE DEF q
    <2> QED BY <2>2
  <1> HIDE DEF q, L
  <1>5. p \in 1..L /\ L \in Nat /\ L - 1 \in Nat
    BY <1>1, <1>2, <1>3
  <1>6. \A k \in toRemove \ {p} : k \in DOMAIN q /\ q[k] = remaining[k]
    <2> SUFFICES ASSUME NEW k \in toRemove, k # p PROVE k \in DOMAIN q /\ q[k] = remaining[k]
      OBVIOUS
    <2>1. k \in 1..L /\ k < p
      BY <1>1, <1>2, <1>3, <1>5
    <2>2. k \in 1..(L - 1)
      BY <1>5, <2>1
    <2> QED BY <1>4, <2>1, <2>2
  <1>7. InOrder(q)
    <2>1. InOrder(remaining)
      BY DEF BatchInv, GroupsPartitionTheQueue, InOrder
    <2> SUFFICES ASSUME NEW j \in 1..(L - 1), NEW k \in 1..(L - 1), j < k PROVE q[j] < q[k]
      BY <1>4 DEF InOrder
    <2> DEFINE x == IF j < p THEN j ELSE j + 1
               y == IF k < p THEN k ELSE k + 1
    <2>2. x \in 1..L /\ y \in 1..L /\ x < y
      BY <1>5
    <2>3. q[j] = remaining[x] /\ q[k] = remaining[y]
      BY <1>4
    <2> HIDE DEF x, y
    <2> QED BY <1>2, <2>1, <2>2, <2>3 DEF InOrder
  <1> DEFINE waits == {q[k] : k \in DOMAIN q \ (toRemove \ {p})}
  <1>8. Waiting = waits
    <2>1. ASSUME NEW k \in DOMAIN remaining \ toRemove PROVE remaining[k] \in waits
      <3>1. k \in 1..L /\ k # p
        BY <1>2, <1>3
      <3>2. CASE k < p
        <4>1. k \in 1..(L - 1)
          BY <1>5, <3>1, <3>2
        <4> QED BY <1>4, <3>2, <4>1
      <3>3. CASE p < k
        <4>1. k - 1 \in 1..(L - 1) /\ ~(k - 1 < p) /\ (k - 1) + 1 = k
          BY <1>5, <3>1, <3>3
        <4>2. q[k - 1] = remaining[k]
          BY <1>4, <4>1
        <4>3. k - 1 \notin toRemove \ {p}
          <5>1. ASSUME k - 1 \in toRemove PROVE k - 1 = p
            BY <1>3, <1>5, <3>1, <4>1, <5>1
          <5> QED BY <5>1
        <4> QED BY <1>4, <4>1, <4>2, <4>3
      <3> QED BY <1>5, <3>1, <3>2, <3>3
    <2>2. ASSUME NEW k \in DOMAIN q \ (toRemove \ {p}) PROVE q[k] \in Waiting
      <3>1. k \in 1..(L - 1)
        BY <1>4
      <3>2. CASE k < p
        <4>1. k \in DOMAIN remaining \ toRemove /\ q[k] = remaining[k]
          BY <1>2, <1>4, <1>5, <3>1, <3>2
        <4> QED BY <4>1 DEF Waiting
      <3>3. CASE ~(k < p)
        <4>1. k + 1 \in 1..L /\ ~(k + 1 <= p)
          BY <1>5, <3>1, <3>3
        <4>2. k + 1 \in DOMAIN remaining \ toRemove /\ q[k] = remaining[k + 1]
          BY <1>2, <1>3, <1>4, <3>1, <3>3, <4>1
        <4> QED BY <4>2 DEF Waiting
      <3> QED BY <3>2, <3>3
    <2>3. Waiting \subseteq waits
      BY <2>1 DEF Waiting
    <2>4. waits \subseteq Waiting
      BY <2>2
    <2> QED BY <2>3, <2>4
  <1>9. Waiting' = Waiting /\ Grouped' = Grouped
    BY <1>1, <1>8 DEF Waiting, Grouped
  <1>10. GroupsPartitionTheQueue'
    BY <1>1, <1>7, <1>9 DEF BatchInv, GroupsPartitionTheQueue, InOrder, CheckCompatibility
  <1>11. (compatible # {} => GroupFits(compatible))'
    BY <1>1 DEF BatchInv, GroupFits, CheckCompatibility
  <1> QED BY <1>1, <1>4, <1>6, <1>10, <1>11 DEF BatchInv

\* The group that was made joins the others.
LEMMA GroupStep ==
    ASSUME BatchInv, BuildGroup
    PROVE  BatchInv'
  <1>1. PICK e \in BOOLEAN : groups' = Append(groups, [members |-> compatible, eligible |-> e])
    BY DEF BuildGroup
  <1>2. /\ compatible # {} /\ toRemove = {} /\ compatible' = {} /\ input' = input
        /\ remaining' = remaining /\ toRemove' = toRemove
    BY DEF BuildGroup
  <1> DEFINE new == [members |-> compatible, eligible |-> e]
             n == Len(groups)
  <1>3. new \in GroupRec /\ new.members = compatible
    BY Positions DEF GroupRec, BatchInv
  <1> HIDE DEF new
  <1>4. /\ groups' \in Seq(GroupRec) /\ n \in Nat /\ DOMAIN groups = 1..n /\ DOMAIN groups' = 1..(n + 1)
        /\ groups'[n + 1] = new /\ \A g \in 1..n : groups'[g] = groups[g]
    BY <1>1, <1>3 DEF BatchInv, new
  <1> HIDE DEF n
  <1>5. \A g \in 1..(n + 1) : g \in 1..n \/ g = n + 1
    BY <1>4
  <1>6. n + 1 \in 1..(n + 1) /\ \A g \in 1..n : g \in 1..(n + 1)
    BY <1>4
  <1>7. Grouped' = Grouped \cup compatible
    BY <1>3, <1>4, <1>5, <1>6 DEF Grouped
  <1>8. Waiting' = Waiting
    BY <1>2 DEF Waiting
  <1>9. \A g \in DOMAIN groups : groups[g].members \cap compatible = {}
    BY DEF BatchInv, GroupsPartitionTheQueue, Grouped
  <1>10. \A g, h \in DOMAIN groups' : g # h => groups'[g].members \cap groups'[h].members = {}
    <2> SUFFICES ASSUME NEW g \in 1..(n + 1), NEW h \in 1..(n + 1), g # h
                 PROVE  groups'[g].members \cap groups'[h].members = {}
      BY <1>4
    <2>1. CASE g \in 1..n /\ h \in 1..n
      BY <1>4, <2>1 DEF BatchInv, GroupsPartitionTheQueue
    <2>2. CASE g \in 1..n /\ h = n + 1
      BY <1>3, <1>4, <1>9, <2>2
    <2>3. CASE g = n + 1 /\ h \in 1..n
      BY <1>3, <1>4, <1>9, <2>3
    <2> QED BY <1>5, <2>1, <2>2, <2>3
  <1>11. \A g \in DOMAIN groups' : GroupFits(groups'[g].members)
    <2>1. GroupFits(compatible) /\ \A g \in DOMAIN groups : GroupFits(groups[g].members)
      BY <1>2 DEF BatchInv, GroupsPartitionTheQueue, GroupFits
    <2> QED BY <1>3, <1>4, <1>5, <2>1
  <1>12. GroupsPartitionTheQueue'
    <2>1. /\ Grouped \cup compatible \cup Waiting = DOMAIN input
          /\ (Grouped \cup compatible) \cap Waiting = {} /\ InOrder(remaining)
      BY DEF BatchInv, GroupsPartitionTheQueue, InOrder
    <2> QED BY <1>2, <1>7, <1>8, <1>10, <1>11, <2>1
            DEF GroupsPartitionTheQueue, GroupFits, InOrder, CheckCompatibility
  <1> QED BY <1>2, <1>4, <1>12 DEF BatchInv

\* Every candidate ends in exactly one group of at most max_group_size that may run
\* together, for every queue and every limit: the removal in reverse order neither
\* loses nor repeats one (BatchAnalyzer.analyze).
THEOREM EveryCandidateIsGroupedOnce == BatSpec => []GroupsPartitionTheQueue
  <1>1. BatInit => BatchInv
    BY BatchBegins
  <1>2. BatchInv /\ [BatNext]_batVars => BatchInv'
    <2> SUFFICES ASSUME BatchInv, [BatNext]_batVars PROVE BatchInv'
      OBVIOUS
    <2>1. CASE UNCHANGED batVars
      BY <2>1 DEF BatchInv, batVars, GroupFits, GroupsPartitionTheQueue, Grouped, Waiting, CheckCompatibility
    <2> QED BY <2>1, AnchorStep, PopStep, GroupStep DEF BatNext
  <1>3. BatchInv => GroupsPartitionTheQueue
    BY DEF BatchInv
  <1> QED BY <1>1, <1>2, <1>3, PTL DEF BatSpec

===============================================================================
