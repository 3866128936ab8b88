----------------------------- MODULE StorageProofs -----------------------------
(***************************************************************************)
(* Theorems about what whooshd keeps: the ring of KV events, the model     *)
(* store and the snapshot database.  For every ring size, every set of     *)
(* artifacts and candidates, and any number of failures and crashes.       *)
(***************************************************************************)
EXTENDS KVLifecycle, ModelStore, Snapshots, SequenceTheorems, FiniteSetTheorems, TLAPS

(***************************************************************************)
(* The event ring.  The invariant says which event each slot holds: the    *)
(* slots up to the cursor those of the current lap, the others those of    *)
(* the lap before.                                                         *)
(***************************************************************************)

\* Counting modulo the ring's size.
LEMMA ModStep ==
    ASSUME NEW n \in Nat, NEW R \in Nat \ {0}
    PROVE  /\ (n % R) \in 0..(R - 1)
           /\ n < R => (n % R) = n
           /\ ((n + 1) % R) = IF (n % R) = R - 1 THEN 0 ELSE (n % R) + 1
  <1>1. (n % R) \in 0..(R - 1) /\ ((n + 1) % R) \in 0..(R - 1)
    OBVIOUS
  <1>2. n < R => (n % R) = n
    OBVIOUS
  <1>3. ((n + 1) % R) = IF (n % R) = R - 1 THEN 0 ELSE (n % R) + 1
    <2> DEFINE q == n \div R
               p == (n + 1) \div R
               s == n % R
               u == (n + 1) % R
    <2>1. q \in Int /\ p \in Int /\ s \in Int /\ u \in Int /\ n = R * q + s /\ n + 1 = R * p + u
      OBVIOUS
    <2>2. 0 <= s /\ s < R /\ 0 <= u /\ u < R
      BY <1>1
    <2> HIDE DEF q, p, s, u
    <2> DEFINE d == p - q
    <2>3. d \in Int /\ R * d = s + 1 - u
      BY <2>1
    <2> HIDE DEF d
    <2>4. d = 0 \/ d = 1
      <3>1. R * d > -R /\ R * d <= R
        BY <2>1, <2>2, <2>3
      <3>2. d <= -1 => R * d <= -R
        BY <2>3
      <3>3. d >= 2 => R * d >= 2 * R
        BY <2>3
      <3> QED BY <2>3, <3>1, <3>2, <3>3
    <2>5. CASE d = 0
      BY <2>1, <2>2, <2>3, <2>5 DEF s, u
    <2>6. CASE d = 1
      BY <2>1, <2>2, <2>3, <2>6 DEF s, u
    <2> QED BY <2>4, <2>5, <2>6
  <1> QED BY <1>1, <1>2, <1>3

EventOf(h, k) == [type |-> h[k], at |-> k]

\* The place in the history of the event in slot i, n events having been recorded.
HeldIn(i, n) ==
    IF i <= (n % RingSize) THEN n - (n % RingSize) + i ELSE n - (n % RingSize) - RingSize + i

RingInv ==
    /\ history \in Seq(EventTypes) /\ cursor = Len(history)
    /\ ring \in Seq([type : EventTypes, at : Nat])
    /\ Len(ring) = IF Len(history) < RingSize THEN Len(history) ELSE RingSize
    /\ \A i \in 1..Len(ring) : ring[i] = EventOf(history, HeldIn(i, Len(history)))

\* The slot written next is the one after the cursor; the others keep their event.
LEMMA HeldFacts ==
    ASSUME NEW n \in Nat, NEW i \in 1..RingSize, i <= n \/ n >= RingSize
    PROVE  /\ HeldIn(i, n) \in 1..n
           /\ i # (n % RingSize) + 1 => HeldIn(i, n + 1) = HeldIn(i, n)
           /\ n < RingSize => HeldIn(i, n) = i
  <1> DEFINE R == RingSize
             s == n % R
             u == (n + 1) % R
  <1>1. R \in Nat \ {0} /\ i \in Nat /\ i >= 1 /\ i <= R
    BY KVLifecycleAssumption
  <1>2. s \in 0..(R - 1) /\ (n < R => s = n) /\ u = IF s = R - 1 THEN 0 ELSE s + 1
    BY <1>1, ModStep
  <1>3. n >= R => s <= n - R
    <2>1. n - R \in Int /\ n = R * (n \div R) + s /\ n \div R \in Int
      BY <1>1
    <2>2. n >= R => n \div R >= 1
      BY <1>1
    <2>3. n \div R >= 1 => R * (n \div R) >= R
      BY <1>1, <2>1
    <2> QED BY <1>1, <1>2, <2>1, <2>2, <2>3
  <1> DEFINE H == IF i <= s THEN n - s + i ELSE n - s - R + i
             H1 == IF i <= u THEN (n + 1) - u + i ELSE (n + 1) - u - R + i
  <1>4. HeldIn(i, n) = H /\ HeldIn(i, n + 1) = H1
    BY DEF HeldIn
  <1> HIDE DEF s, u, R
  <1>5. n < R => H = i
    BY <1>1, <1>2 DEF R
  <1>6. H \in 1..n
    BY <1>1, <1>2, <1>3 DEF R
  <1>7. i # s + 1 => H1 = H
    BY <1>1, <1>2
  <1> QED BY <1>4, <1>5, <1>6, <1>7 DEF s, R

\* The event recorded goes to the slot after the cursor.
LEMMA NextHeld ==
    ASSUME NEW n \in Nat
    PROVE  (n % RingSize) + 1 \in 1..RingSize /\ HeldIn((n % RingSize) + 1, n + 1) = n + 1
  <1>1. RingSize \in Nat \ {0}
    BY KVLifecycleAssumption
  <1> DEFINE s == n % RingSize
             u == (n + 1) % RingSize
  <1>2. s \in 0..(RingSize - 1) /\ u = IF s = RingSize - 1 THEN 0 ELSE s + 1
    BY <1>1, ModStep
  <1>3. HeldIn(s + 1, n + 1) = IF s + 1 <= u THEN (n + 1) - u + (s + 1) ELSE (n + 1) - u - RingSize + (s + 1)
    BY DEF HeldIn
  <1> HIDE DEF s, u
  <1>4. s + 1 \in 1..RingSize /\ HeldIn(s + 1, n + 1) = n + 1
    BY <1>1, <1>2, <1>3
  <1> QED BY <1>4 DEF s

\* Every recorded event and every clear keeps the slots as the invariant says.
LEMMA RingStep == RingInv /\ [RingNext]_ringVars => RingInv'
  <1> SUFFICES ASSUME RingInv, [RingNext]_ringVars PROVE RingInv'
    OBVIOUS
  <1>r. RingSize \in Nat \ {0}
    BY KVLifecycleAssumption
  <1>1. ASSUME NEW type \in EventTypes, Record(type) PROVE RingInv'
    <2> DEFINE n == Len(history)
               s == n % RingSize
               e == [type |-> type, at |-> n + 1]
    <2>1. n \in Nat /\ n + 1 \in Nat /\ Len(ring) \in Nat
      BY DEF RingInv
    <2>2. /\ history' = Append(history, type) /\ cursor' = n + 1
          /\ ring' = Recorded(e)
      BY <1>1 DEF Record, RingInv
    <2>3. /\ history' \in Seq(EventTypes) /\ Len(history') = n + 1 /\ history'[n + 1] = type
          /\ \A k \in 1..n : history'[k] = history[k]
      BY <2>2 DEF RingInv
    <2>4. e = EventOf(history', n + 1) /\ \A k \in 1..n : EventOf(history', k) = EventOf(history, k)
      BY <2>3 DEF EventOf
    <2>5. e \in [type : EventTypes, at : Nat]
      BY <2>1
    <2> HIDE DEF e
    <2>6. s + 1 \in 1..RingSize /\ HeldIn(s + 1, n + 1) = n + 1
      BY <2>1, NextHeld
    <2>7. \A i \in 1..Len(ring) :
            /\ i \in 1..RingSize /\ HeldIn(i, n) \in 1..n /\ (i # s + 1 => HeldIn(i, n + 1) = HeldIn(i, n))
            /\ ring[i] = EventOf(history, HeldIn(i, n))
      <3> SUFFICES ASSUME NEW i \in 1..Len(ring)
                   PROVE  /\ i \in 1..RingSize /\ HeldIn(i, n) \in 1..n
                          /\ (i # s + 1 => HeldIn(i, n + 1) = HeldIn(i, n))
                          /\ ring[i] = EventOf(history, HeldIn(i, n))
        OBVIOUS
      <3>1. Len(ring) = IF n < RingSize THEN n ELSE RingSize
        BY DEF RingInv
      <3>2. i \in 1..RingSize /\ (i <= n \/ n >= RingSize)
        BY <1>r, <2>1, <3>1
      <3>3. ring[i] = EventOf(history, HeldIn(i, n))
        BY DEF RingInv
      <3> QED BY <2>1, <3>2, <3>3, HeldFacts
    <2>8. \A i \in 1..Len(ring) : i # s + 1 => ring[i] = EventOf(history', HeldIn(i, n + 1))
      <3> SUFFICES ASSUME NEW i \in 1..Len(ring), i # s + 1
                   PROVE  ring[i] = EventOf(history', HeldIn(i, n + 1))
        OBVIOUS
      <3>1. HeldIn(i, n) \in 1..n /\ HeldIn(i, n + 1) = HeldIn(i, n) /\ ring[i] = EventOf(history, HeldIn(i, n))
        BY <2>7
      <3> QED BY <2>4, <3>1
    <2>9. CASE Len(ring) < RingSize
      <3>1. ring' = Append(ring, e) /\ Len(ring) = n /\ n < RingSize /\ s = n
        <4>1. Len(ring) = n /\ n < RingSize
          BY <1>r, <2>1, <2>9 DEF RingInv
        <4>2. s = n
          BY <1>r, <2>1, <4>1, ModStep
        <4> QED BY <2>2, <2>9, <4>1, <4>2 DEF Recorded
      <3>2. /\ ring' \in Seq([type : EventTypes, at : Nat]) /\ Len(ring') = n + 1 /\ ring'[n + 1] = e
            /\ \A i \in 1..n : ring'[i] = ring[i]
        BY <2>5, <3>1 DEF RingInv
      <3>3. ASSUME NEW i \in 1..(n + 1) PROVE ring'[i] = EventOf(history', HeldIn(i, n + 1))
        <4>1. CASE i = n + 1
          BY <2>4, <2>6, <3>1, <3>2, <4>1
        <4>2. CASE i # n + 1
          BY <2>1, <2>8, <3>1, <3>2, <4>2
        <4> QED BY <4>1, <4>2
      <3>4. Len(ring') = IF n + 1 < RingSize THEN n + 1 ELSE RingSize
        BY <1>r, <2>1, <3>1, <3>2
      <3> QED BY <2>2, <2>3, <3>2, <3>3, <3>4 DEF RingInv
    <2>10. CASE ~(Len(ring) < RingSize)
      <3>1. Len(ring) = RingSize /\ n >= RingSize /\ ~(n + 1 < RingSize)
        BY <1>r, <2>1, <2>10 DEF RingInv
      <3>2. ring' = [ring EXCEPT ![s + 1] = e]
        BY <2>2, <2>10 DEF Recorded, RingInv
      <3>3. /\ ring' \in Seq([type : EventTypes, at : Nat]) /\ Len(ring') = RingSize /\ ring'[s + 1] = e
            /\ \A i \in 1..RingSize : i # s + 1 => ring'[i] = ring[i]
        BY <2>5, <2>6, <3>1, <3>2 DEF RingInv
      <3>4. ASSUME NEW i \in 1..RingSize PROVE ring'[i] = EventOf(history', HeldIn(i, n + 1))
        <4>1. CASE i = s + 1
          BY <2>4, <2>6, <3>3, <4>1
        <4>2. CASE i # s + 1
          BY <2>8, <3>1, <3>3, <4>2
        <4> QED BY <4>1, <4>2
      <3> QED BY <2>2, <2>3, <3>1, <3>3, <3>4 DEF RingInv
    <2> QED BY <2>9, <2>10
  <1>2. CASE Clear
    <2>1. ring' = << >> /\ cursor' = 0 /\ history' = << >>
      BY <1>2 DEF Clear
    <2> QED BY <1>r, <2>1 DEF RingInv
  <1>3. CASE UNCHANGED ringVars
    BY <1>3 DEF ringVars, RingInv, EventOf
  <1> QED BY <1>1, <1>2, <1>3 DEF RingNext

\* The buffer holds exactly the latest events, as many as it has room for, through
\* every wrap-around and clear (KVLifecycleObserver.record, clear).
THEOREM RingKeepsTheLatest == RingSpec => []RingHoldsLatest
  <1>1. RingInit => RingInv
    BY KVLifecycleAssumption DEF RingInit, RingInv
  <1>2. RingInv => RingHoldsLatest
    <2> SUFFICES ASSUME RingInv PROVE RingHoldsLatest
      OBVIOUS
    <2> DEFINE n == Len(history)
               R == RingSize
               s == n % R
               first == IF n > R THEN n - R + 1 ELSE 1
    <2>1. R \in Nat \ {0} /\ n \in Nat /\ Len(ring) = IF n < R THEN n ELSE R
      BY KVLifecycleAssumption DEF RingInv
    <2>2. s \in 0..(R - 1) /\ (n < R => s = n)
      BY <2>1, ModStep
    <2>3. \A i \in 1..Len(ring) : ring[i] = EventOf(history, HeldIn(i, n))
      BY DEF RingInv
    <2>4. \A i : HeldIn(i, n) = IF i <= s THEN n - s + i ELSE n - s - R + i
      BY DEF HeldIn
    <2> HIDE DEF n, R, s
    <2>5. ASSUME NEW i \in 1..Len(ring) PROVE HeldIn(i, n) \in first..n
      <3>1. i \in Nat /\ i >= 1 /\ i <= R /\ (n < R => i <= n)
        BY <2>1
      <3>2. HeldIn(i, n) \in 1..n
        BY SMTT(40), <2>1, <3>1, HeldFacts DEF R
      <3>3. HeldIn(i, n) = IF i <= s THEN n - s + i ELSE n - s - R + i
        BY <2>4
      <3>4. HeldIn(i, n) >= n - R + 1
        BY <2>1, <2>2, <3>1, <3>3
      <3> QED BY <2>1, <3>2, <3>4
    <2>6. ASSUME NEW k \in first..n PROVE \E i \in 1..Len(ring) : HeldIn(i, n) = k
      <3>1. k \in Nat /\ k >= 1 /\ k <= n /\ k > n - R
        BY <2>1
      <3>2. CASE k > n - s
        <4> DEFINE i == k - (n - s)
        <4>1. i \in 1..Len(ring) /\ i <= s
          BY <2>1, <2>2, <3>1, <3>2
        <4>2. HeldIn(i, n) = n - s + i
          BY <2>4, <4>1
        <4>3. n - s + i = k
          BY <2>1, <2>2, <3>1
        <4> QED BY <4>1, <4>2, <4>3
      <3>3. CASE ~(k > n - s)
        <4> DEFINE i == k - (n - s - R)
        <4>1. i \in 1..Len(ring) /\ ~(i <= s)
          BY <2>1, <2>2, <3>1, <3>3
        <4>2. HeldIn(i, n) = n - s - R + i
          BY <2>4, <4>1
        <4>3. n - s - R + i = k
          BY <2>1, <2>2, <3>1
        <4> QED BY <4>1, <4>2, <4>3
      <3> QED BY <3>2, <3>3
    <2>7. {ring[i] : i \in 1..Len(ring)} = {EventOf(history, k) : k \in first..n}
      BY <2>3, <2>5, <2>6
    <2> QED BY <2>7 DEF RingHoldsLatest, EventOf, n, R
  <1> QED BY <1>1, <1>2, RingStep, PTL DEF RingSpec

(***************************************************************************)
(* The model store.  The invariant ties a registration in progress to the  *)
(* manifest it read: no entry has its id or its destination, so the entry  *)
(* it appends is new, and its copy is whole when it gets there.            *)
(***************************************************************************)
VisionAsSeen(c) == ("vision" \in c.modalities) = (c.evidence \cap Range(VisionHints) # {})

GoodCandidate(c) ==
    c.status = "candidate" => c.format \in {"mlx", "gguf"} /\ VisionAsSeen(c)

IsSeq(s) == \E S : s \in Seq(S)

\* The directory of the store an entry's copy lies in.
Shelf0(e) == IF e.format = "gguf" THEN "gguf" ELSE IF "vision" \in e.modalities THEN "vlm" ELSE "mlx"

GoodModel(e) ==
    /\ e.format \in {"mlx", "gguf"} /\ VisionAsSeen(e) /\ e.dest[1] = Shelf0(e)
    /\ e.dest \in DOMAIN managed /\ managed[e.dest].whole

\* A registration past its checks.
JobInv ==
    /\ \E p, c, i, d, b, l : job = [pc |-> p, cand |-> c, id |-> i, dest |-> d, base |-> b, listed |-> l]
    /\ manifest.state = "ok" /\ job.base = manifest.models
    /\ job.cand.format \in {"mlx", "gguf"} /\ VisionAsSeen(job.cand)
    /\ job.dest = ManagedDestination(job.cand, job.id)
    /\ job.dest \in DOMAIN managed
    /\ \A i \in DOMAIN manifest.models : manifest.models[i].id # job.id /\ manifest.models[i].dest # job.dest
    /\ job.pc = "append" => managed[job.dest].whole

ManifestInv ==
    /\ \E s, m : manifest = [state |-> s, models |-> m]
    /\ manifest.state \in {"absent", "unreadable", "schema", "ok"}
    /\ IsSeq(manifest.models) /\ (manifest.state # "ok" => manifest.models = << >>)
    /\ \A i \in DOMAIN manifest.models : GoodModel(manifest.models[i])
    /\ \A i, j \in DOMAIN manifest.models :
         i # j => /\ manifest.models[i].id # manifest.models[j].id
                  /\ manifest.models[i].dest # manifest.models[j].dest

StoreInv ==
    /\ source \in [Paths -> Sources \cup {Absent}]
    /\ \A k \in DOMAIN records : records[k].key = k /\ GoodCandidate(records[k])
    /\ ManifestInv
    /\ job.pc \in {"idle", "bootstrap", "copying", "append"}
    /\ job.pc \in {"copying", "append"} => JobInv
    /\ DoneIsRecorded

\* A sequence and one more element.
LEMMA AppendFacts ==
    ASSUME NEW s, NEW x, IsSeq(s)
    PROVE  /\ IsSeq(Append(s, x)) /\ IsPrefix(s, Append(s, x)) /\ IsPrefix(s, s)
           /\ Len(s) \in Nat /\ DOMAIN s = 1..Len(s) /\ DOMAIN Append(s, x) = 1..(Len(s) + 1)
           /\ Append(s, x)[Len(s) + 1] = x
           /\ \A i \in 1..Len(s) : Append(s, x)[i] = s[i]
  <1>1. PICK S : s \in Seq(S)
    BY DEF IsSeq
  <1> DEFINE T == S \cup {x}
             t == Append(s, x)
  <1>2. s \in Seq(T) /\ x \in T
    BY <1>1
  <1> HIDE DEF T
  <1>3. /\ t \in Seq(T) /\ Len(t) = Len(s) + 1 /\ Len(s) \in Nat /\ DOMAIN s = 1..Len(s)
        /\ DOMAIN t = 1..(Len(s) + 1) /\ t[Len(s) + 1] = x /\ \A i \in 1..Len(s) : t[i] = s[i]
    BY <1>2
  <1>4. SubSeq(s, 1, Len(s)) = s
    BY <1>2
  <1>5. SubSeq(t, 1, Len(s)) = s
    <2>1. /\ SubSeq(t, 1, Len(s)) \in Seq(T) /\ Len(SubSeq(t, 1, Len(s))) = Len(s)
          /\ \A i \in 1..Len(s) : SubSeq(t, 1, Len(s))[i] = t[i]
      BY <1>3
    <2> QED BY <1>2, <1>3, <2>1
  <1> QED BY <1>3, <1>4, <1>5 DEF IsSeq, IsPrefix

\* The first of the members in common is one of the order.
LEMMA FirstMember ==
    ASSUME NEW order, DOMAIN order \subseteq 1..4, NEW H, Range(order) \cap H # {}
    PROVE  FirstOf(order, H) \in Range(order)
  <1> DEFINE S == {i \in DOMAIN order : order[i] \in H}
  <1>1. S # {} /\ S \subseteq 1..4 /\ S \subseteq DOMAIN order
    BY DEF Range
  <1>2. FirstOf(order, H) = order[Min(S)]
    BY DEF FirstOf
  <1> HIDE DEF S
  <1>3. \E x \in S : \A y \in S : x <= y
    <2>1. CASE 1 \in S
      BY <1>1, <2>1
    <2>2. CASE 1 \notin S /\ 2 \in S
      BY <1>1, <2>2
    <2>3. CASE 1 \notin S /\ 2 \notin S /\ 3 \in S
      BY <1>1, <2>3
    <2>4. CASE 1 \notin S /\ 2 \notin S /\ 3 \notin S
      <3>1. S \subseteq {4}
        BY <1>1, <2>4
      <3>2. PICK x \in S : TRUE
        BY <1>1
      <3>3. x = 4 /\ \A y \in S : y = 4
        BY <3>1, <3>2
      <3> QED BY <3>2, <3>3
    <2> QED BY <2>1, <2>2, <2>3, <2>4
  <1>4. Min(S) \in S
    BY <1>3 DEF Min
  <1> QED BY <1>1, <1>2, <1>4 DEF Range

\* What an inspection finds counts as vision exactly on evidence of vision.
LEMMA InspectionFacts ==
    ASSUME source \in [Paths -> Sources \cup {Absent}], NEW p \in Paths
    PROVE  GoodCandidate(InspectModelCandidate(p))
  <1> DEFINE s == source[p]
             hints == Range(VisionHints)
  <1>1. hints = {"vlm_type", "vision_config", "vlm_arch", "artifact"}
    BY DEF VisionHints, Range
  <1>2. \A q, st, f, fam, m, ev :
          LET c == Candidate0(q, st, f, fam, m, ev)
          IN  c.status = st /\ c.format = f /\ c.modalities = m /\ c.evidence = ev
    BY DEF Candidate0
  <1>3. \A q, f, fam, m, ev, st : st # "candidate" => GoodCandidate(Candidate0(q, st, f, fam, m, ev))
    BY <1>2 DEF GoodCandidate
  <1>4. CASE s.kind = "gguf"
    <2>1. InspectModelCandidate(p) = Candidate0(p, "candidate", "gguf", DetectFamily(p), {"text"}, {"gguf"})
      BY <1>4 DEF InspectModelCandidate
    <2>2. "vision" \notin {"text"} /\ {"gguf"} \cap hints = {}
      BY <1>1
    <2> HIDE DEF hints
    <2> QED BY <1>2, <2>1, <2>2 DEF GoodCandidate, VisionAsSeen, hints
  <1>5. CASE s.kind = "dir"
    <2>1. s \in Sources /\ s.files \subseteq {"config", "tokenizer", "weights"}
      BY <1>5, StoreAssumption DEF Absent
    <2> DEFINE config == "config" \in s.files
               seen0 == IF config THEN DetectModalities(s) ELSE [modalities |-> {"text"}, evidence |-> {}]
               family == IF config THEN DetectFamilyFromConfig(s) ELSE DetectFamily(p)
               evidence == s.files \cup seen0.evidence
                             \cup IF config /\ family # "unknown" THEN {family} ELSE {}
               enough == "weights" \in s.files /\ s.files \cap {"config", "tokenizer"} # {}
               mods == NormalizeModalities(seen0.modalities, evidence)
    <2>2. InspectModelCandidate(p) = InspectDirectory(p, s)
      BY <1>5 DEF InspectModelCandidate
    <2>3. InspectDirectory(p, s) =
            IF s.files = {} THEN Candidate0(p, "unsupported", "unknown", "unknown", {}, {})
            ELSE Candidate0(p, IF enough THEN "candidate" ELSE "unsupported",
                            IF enough THEN "mlx" ELSE "unknown", family, mods, evidence)
      BY DEF InspectDirectory
    <2>4. /\ "vision" \in seen0.modalities => seen0.evidence \cap hints # {}
          /\ seen0.evidence \cap hints # {} => "vision" \in seen0.modalities
      <3>1. CASE config /\ hints \cap HintsSeen(s) # {}
        <4>1. DOMAIN VisionHints \subseteq 1..4
          BY DEF VisionHints
        <4>2. FirstOf(VisionHints, HintsSeen(s)) \in hints
          BY <3>1, <4>1, FirstMember
        <4>3. seen0 = [modalities |-> {"text", "vision"}, evidence |-> {FirstOf(VisionHints, HintsSeen(s))}]
          BY <3>1 DEF DetectModalities
        <4> HIDE DEF seen0, hints
        <4> QED BY <4>2, <4>3
      <3>2. CASE ~(config /\ hints \cap HintsSeen(s) # {})
        <4>1. seen0 = [modalities |-> {"text"}, evidence |-> {}]
          BY <3>2 DEF DetectModalities
        <4> HIDE DEF seen0
        <4> QED BY <4>1
      <3> QED BY <3>1, <3>2
    <2>5. family \notin hints
      <3>1. DOMAIN Families \subseteq 1..4 /\ Range(Families) = {"gemma", "qwen", "llama"}
        BY DEF Families, Range
      <3>2. \A words : FamilyIn(words) \in {"unknown", "gemma", "qwen", "llama"}
        BY <3>1, FirstMember DEF FamilyIn
      <3>3. family \in {"unknown", "gemma", "qwen", "llama"}
        BY <3>2 DEF DetectFamily, DetectFamilyFromConfig
      <3> QED BY <1>1, <3>3
    <2>6. s.files \cap hints = {}
      BY <1>1, <2>1
    <2> HIDE DEF seen0, family, hints
    <2>7. evidence \cap hints # {} <=> seen0.evidence \cap hints # {}
      BY <2>5, <2>6
    <2> HIDE DEF evidence
    <2>8. ("vision" \in mods) = (evidence \cap hints # {})
      BY <2>4, <2>7 DEF NormalizeModalities, HasExplicitVisionEvidence, hints
    <2> HIDE DEF mods, enough
    <2> QED BY <1>2, <1>3, <2>2, <2>3, <2>8 DEF GoodCandidate, VisionAsSeen, hints
  <1>6. CASE s.kind \notin {"gguf", "dir"}
    <2>1. \/ InspectModelCandidate(p) = Candidate0(p, "invalid", "unknown", "unknown", {}, {})
          \/ InspectModelCandidate(p) = Candidate0(p, "unsupported", "unknown", "unknown", {}, {})
      BY <1>6 DEF InspectModelCandidate
    <2> QED BY <1>3, <2>1
  <1> QED BY <1>4, <1>5, <1>6

\* A store that is not bootstrapped satisfies the invariant.
LEMMA StoreInitially == StoreInit => StoreInv
  <1> SUFFICES ASSUME StoreInit PROVE StoreInv
    OBVIOUS
  <1>1. PICK st \in {"absent", "unreadable", "schema"} : manifest = [state |-> st, models |-> << >>]
    BY DEF StoreInit
  <1>2. IsSeq(<< >>) /\ DOMAIN << >> = {}
    <2>1. << >> \in Seq({})
      OBVIOUS
    <2> QED BY <2>1 DEF IsSeq
  <1>3. ManifestInv
    <2>1. manifest.models = << >> /\ manifest.state = st
      BY <1>1
    <2> QED BY <1>1, <1>2, <2>1 DEF ManifestInv
  <1>4. source \in [Paths -> Sources \cup {Absent}]
    BY DEF StoreInit
  <1> QED BY <1>3, <1>4 DEF StoreInit, StoreInv, Idle0, NoAnswer, DoneIsRecorded

\* The manifest stays good when copies are added or completed in place.
LEMMA CopyKeepsModels ==
    ASSUME ManifestInv, UNCHANGED manifest, NEW d, NEW copy,
           managed' = Placed(d, copy),
           copy.whole \/ \A i \in DOMAIN manifest.models : manifest.models[i].dest # d
    PROVE  /\ ManifestInv' /\ d \in DOMAIN managed' /\ managed'[d] = copy
           /\ DOMAIN managed \subseteq DOMAIN managed'
  <1>1. /\ DOMAIN managed' = DOMAIN managed \cup {d} /\ managed'[d] = copy
        /\ \A x \in DOMAIN managed : x # d => managed'[x] = managed[x]
    BY DEF Placed
  <1>2. ASSUME NEW i \in DOMAIN manifest.models PROVE GoodModel(manifest.models[i])'
    <2>1. GoodModel(manifest.models[i])
      BY DEF ManifestInv
    <2> QED BY <1>1, <2>1 DEF GoodModel, VisionAsSeen, Shelf0
  <1> QED BY ZenonT(60), <1>1, <1>2 DEF ManifestInv

\* The checks before a copy: the candidate is good, nothing has the id or lies at
\* the destination.
LEMMA VerdictFacts ==
    ASSUME StoreInv, NEW k \in DOMAIN records, NEW w
    PROVE  /\ Verdict(k, w) = "copy" =>
                 /\ manifest.state = "ok" /\ records[k].status = "candidate"
                 /\ ~Known(manifest.models, ResolvedId(records[k], w))
                 /\ ManagedDestination(records[k], ResolvedId(records[k], w)) \notin DOMAIN managed
           /\ Verdict(k, w) = "already" =>
                 /\ Known(manifest.models, ResolvedId(records[k], w))
                 /\ ModelsMatch(FindExisting(manifest.models, ResolvedId(records[k], w)), records[k],
                                ResolvedId(records[k], w))
  <1> DEFINE c == records[k]
             id == ResolvedId(c, w)
             known == Known(manifest.models, id)
             match == ModelsMatch(FindExisting(manifest.models, id), c, id)
             taken == DestinationTaken(ManagedDestination(c, id))
             usable == Usable
  <1>1. manifest.state \notin {"copy", "already"}
    BY DEF StoreInv, ManifestInv
  <1>2. Verdict(k, w) =
          IF ~usable THEN manifest.state
          ELSE CASE c.status # "candidate" -> "candidate_not_registrable"
                 [] c.status = "candidate" /\ id \notin SafeIds -> "unsafe_model_id"
                 [] OTHER ->
                    IF known THEN IF match THEN "already" ELSE "duplicate_model_id"
                    ELSE IF source[c.path] = Absent THEN "candidate_missing"
                    ELSE IF taken THEN "managed_destination_exists"
                    ELSE "copy"
    BY DEF Verdict
  <1>3. (usable => manifest.state = "ok") /\ (taken <=> ManagedDestination(c, id) \in DOMAIN managed)
    BY DEF Usable, DestinationTaken
  <1> HIDE DEF c, id, known, match, taken, usable
  <1>4. Verdict(k, w) = "copy" =>
          usable /\ c.status = "candidate" /\ ~known /\ ~taken
    BY <1>1, <1>2
  <1>5. Verdict(k, w) = "already" => known /\ match
    BY <1>1, <1>2
  <1> QED BY <1>3, <1>4, <1>5 DEF c, id, known, match, taken

\* Every step of the store keeps the invariant, the failures and crashes included.
LEMMA StoreStep == StoreInv /\ [StoreNext]_storeVars => StoreInv'
  <1> SUFFICES ASSUME StoreInv, [StoreNext]_storeVars PROVE StoreInv'
    OBVIOUS
  <1>a. /\ source \in [Paths -> Sources \cup {Absent}] /\ ManifestInv /\ DoneIsRecorded
        /\ \A k \in DOMAIN records : records[k].key = k /\ GoodCandidate(records[k])
        /\ job.pc \in {"idle", "bootstrap", "copying", "append"}
        /\ job.pc \in {"copying", "append"} => JobInv
    BY DEF StoreInv
  \* The parts most actions leave alone.
  <1>b. UNCHANGED records => \A k \in DOMAIN records' : records'[k].key = k /\ GoodCandidate(records'[k])
    BY <1>a
  <1>c. UNCHANGED <<manifest, managed>> => ManifestInv'
    <2> SUFFICES ASSUME UNCHANGED <<manifest, managed>> PROVE ManifestInv'
      OBVIOUS
    <2>1. \A i \in DOMAIN manifest.models : GoodModel(manifest.models[i])'
      BY <1>a DEF ManifestInv, GoodModel, VisionAsSeen, Shelf0
    <2> QED BY ZenonT(60), <1>a, <2>1 DEF ManifestInv
  <1>d. UNCHANGED <<manifest, answer>> => DoneIsRecorded'
    BY <1>a DEF DoneIsRecorded, Entries
  <1>e. UNCHANGED <<manifest, managed, job>> /\ job.pc \in {"copying", "append"} => JobInv'
    BY <1>a DEF JobInv, VisionAsSeen, ManagedDestination
  <1>f. ASSUME job' = Idle0 \/ job' = [pc |-> "bootstrap"]
        PROVE  job'.pc \in {"idle", "bootstrap"}
    BY <1>f DEF Idle0
  <1>1. CASE BootstrapDirs
    <2>1. UNCHANGED <<source, manifest, records, managed, answer>> /\ job' = [pc |-> "bootstrap"]
      BY <1>1 DEF BootstrapDirs
    <2> QED BY <1>a, <1>b, <1>c, <1>d, <1>f, <2>1 DEF StoreInv
  <1>2. CASE BootstrapEnds
    <2>1. UNCHANGED <<source, records, managed, answer>> /\ job' = Idle0 /\ BootstrapManifest
      BY <1>2 DEF BootstrapEnds
    <2>2. CASE manifest.state = "absent"
      <3>1. manifest' = [state |-> "ok", models |-> << >>]
        BY <2>1, <2>2 DEF BootstrapManifest
      <3>2. manifest.models = << >> /\ DOMAIN << >> = {}
        BY <1>a, <2>2 DEF ManifestInv
      <3>3. manifest'.state = "ok" /\ manifest'.models = << >>
        BY <3>1
      <3>4. IsSeq(<< >>)
        BY <1>a, <3>2 DEF ManifestInv
      <3>5. ManifestInv'
        BY <3>1, <3>2, <3>3, <3>4 DEF ManifestInv
      <3>6. Entries' = Entries
        BY <3>2, <3>3 DEF Entries
      <3>7. DoneIsRecorded'
        BY <1>a, <2>1, <3>6 DEF DoneIsRecorded
      <3> QED BY <1>a, <1>b, <1>f, <2>1, <3>5, <3>7 DEF StoreInv
    <2>3. CASE manifest.state # "absent"
      <3>1. UNCHANGED manifest
        BY <2>1, <2>3 DEF BootstrapManifest
      <3> QED BY <1>a, <1>b, <1>c, <1>d, <1>f, <2>1, <3>1 DEF StoreInv
    <2> QED BY <2>2, <2>3
  <1>3. ASSUME NEW p \in Paths, Inspect(p) PROVE StoreInv'
    <2> DEFINE c == InspectModelCandidate(p)
    <2>1. /\ UNCHANGED <<source, manifest, managed, job, answer>>
          /\ records' = [k \in DOMAIN records \cup {c.key} |-> IF k = c.key THEN c ELSE records[k]]
      BY <1>3 DEF Inspect
    <2>2. GoodCandidate(c)
      BY <1>a, InspectionFacts
    <2> HIDE DEF c
    <2>3. \A k \in DOMAIN records' : records'[k].key = k /\ GoodCandidate(records'[k])
      BY <1>a, <2>1, <2>2
    <2> QED BY <1>a, <1>c, <1>d, <1>e, <2>1, <2>3 DEF StoreInv
  <1>4. ASSUME NEW k \in DOMAIN records, NEW w \in Ids \cup {NoId}, RegisterAnswered(k, w) PROVE StoreInv'
    <2> DEFINE id == ResolvedId(records[k], w)
    <2>1. /\ UNCHANGED <<source, manifest, records, managed, job>>
          /\ answer' = IF Verdict(k, w) = "already" THEN Told(k, id) ELSE answer
      BY <1>4 DEF RegisterAnswered
    <2>2. CASE Verdict(k, w) = "already"
      <3> DEFINE S == {i \in DOMAIN manifest.models : manifest.models[i].id = id}
      <3>1. PICK n \in DOMAIN manifest.models : manifest.models[n].id = id
        BY <2>2, VerdictFacts DEF Known
      <3>2. S = {n}
        BY <1>a, <3>1 DEF ManifestInv
      <3>3. FindExisting(manifest.models, id) = manifest.models[Min(S)]
        BY DEF FindExisting
      <3>4. Min(S) = n
        <4>1. IsSeq(manifest.models)
          BY <1>a DEF ManifestInv
        <4>2. DOMAIN manifest.models = 1..Len(manifest.models) /\ Len(manifest.models) \in Nat
          BY <4>1, AppendFacts
        <4>3. n \in Nat /\ n <= n
          BY <3>1, <4>2
        <4> HIDE DEF S
        <4> QED BY <3>2, <4>3 DEF Min
      <3>5. ModelsMatch(manifest.models[n], records[k], id)
        BY <2>2, <3>3, <3>4, VerdictFacts
      <3> HIDE DEF id
      <3>6. manifest.models[n] \in Entries /\ manifest.models[n].id = id /\ manifest.models[n].cand = k
        BY <1>a, <3>1, <3>5 DEF ModelsMatch, Entries, Range
      <3>7. answer'.told /\ answer'.id = id /\ answer'.key = k
        BY <2>1, <2>2 DEF Told
      <3>8. Entries' = Entries
        BY <2>1 DEF Entries
      <3>9. DoneIsRecorded'
        BY <3>6, <3>7, <3>8 DEF DoneIsRecorded
      <3> QED BY <1>a, <1>b, <1>c, <1>e, <2>1, <3>9 DEF StoreInv
    <2>3. CASE Verdict(k, w) # "already"
      BY <1>a, <1>b, <1>c, <1>d, <1>e, <2>1, <2>3 DEF StoreInv
    <2> QED BY <2>2, <2>3
  <1>5. ASSUME NEW k \in DOMAIN records, NEW w \in Ids \cup {NoId}, RegisterCopies(k, w) PROVE StoreInv'
    <2> DEFINE c == records[k]
               id == ResolvedId(c, w)
               d == ManagedDestination(c, id)
    <2>1. /\ UNCHANGED <<source, manifest, records, answer>> /\ Verdict(k, w) = "copy"
          /\ job' = [pc |-> "copying", cand |-> c, id |-> id, dest |-> d, base |-> manifest.models,
                     listed |-> source[c.path].files]
      BY <1>5 DEF RegisterCopies
    <2>2. PICK some : managed' = Placed(d, PartCopy(source[c.path], some))
      BY <1>5 DEF RegisterCopies
    <2>3. /\ manifest.state = "ok" /\ c.status = "candidate" /\ ~Known(manifest.models, id)
          /\ d \notin DOMAIN managed
      BY <2>1, VerdictFacts
    <2>4. c.format \in {"mlx", "gguf"} /\ VisionAsSeen(c)
      BY <1>a, <2>3 DEF GoodCandidate
    <2> HIDE DEF c, id, d
    <2>5. \A i \in DOMAIN manifest.models : manifest.models[i].id # id /\ manifest.models[i].dest # d
      BY <1>a, <2>3 DEF Known, ManifestInv, GoodModel
    <2>6. ManifestInv' /\ d \in DOMAIN managed'
      BY <1>a, <2>1, <2>2, <2>5, CopyKeepsModels
    <2>7. /\ job'.pc = "copying" /\ job'.cand = c /\ job'.id = id /\ job'.dest = d
          /\ job'.base = manifest.models
      BY <2>1
    <2>8. JobInv'
      <3>1. \E p, x, i, y, b, l : job' = [pc |-> p, cand |-> x, id |-> i, dest |-> y, base |-> b, listed |-> l]
        BY <2>1
      <3>2. job'.dest = ManagedDestination(job'.cand, job'.id)
        BY <2>7 DEF d
      <3>3. job'.cand.format \in {"mlx", "gguf"} /\ VisionAsSeen(job'.cand)
        BY <2>4, <2>7
      <3> QED BY <2>1, <2>3, <2>5, <2>6, <2>7, <3>1, <3>2, <3>3 DEF JobInv, VisionAsSeen, ManagedDestination
    <2> QED BY <1>a, <1>b, <1>d, <2>1, <2>6, <2>7, <2>8 DEF StoreInv
  <1>6. CASE CopyEnds
    <2> DEFINE copy == [whole |-> TRUE, kind |-> managed[job.dest].kind, files |-> job.listed]
    <2>1. /\ UNCHANGED <<source, manifest, records, answer>> /\ job.pc = "copying"
          /\ managed' = Placed(job.dest, copy) /\ job' = [job EXCEPT !.pc = "append"]
      BY <1>6 DEF CopyEnds
    <2>2. JobInv
      BY <1>a, <2>1
    <2>3. copy.whole = TRUE
      OBVIOUS
    <2> HIDE DEF copy
    <2>4. ManifestInv' /\ job.dest \in DOMAIN managed' /\ managed'[job.dest] = copy
      <3>1. copy.whole \/ \A i \in DOMAIN manifest.models : manifest.models[i].dest # job.dest
        BY <2>3
      <3>2. ManifestInv /\ UNCHANGED manifest /\ managed' = Placed(job.dest, copy)
        BY <1>a, <2>1
      <3> QED BY <3>1, <3>2, CopyKeepsModels
    <2>5. PICK p, c, i, d, b, l : job = [pc |-> p, cand |-> c, id |-> i, dest |-> d, base |-> b, listed |-> l]
      BY <2>2 DEF JobInv
    <2>6. job' = [pc |-> "append", cand |-> c, id |-> i, dest |-> d, base |-> b, listed |-> l]
      BY <2>1, <2>5
    <2>7. job'.pc = "append" /\ job'.cand = job.cand /\ job'.id = job.id /\ job'.dest = job.dest /\ job'.base = job.base
      BY <2>5, <2>6
    <2>8. JobInv'
      <3>1. \E q, x, n, y, z, l1 : job' = [pc |-> q, cand |-> x, id |-> n, dest |-> y, base |-> z, listed |-> l1]
        BY <2>6
      <3> QED BY <2>1, <2>2, <2>4, <2>7, <2>3, <3>1 DEF JobInv, VisionAsSeen, ManagedDestination
    <2> QED BY <1>a, <1>b, <1>d, <2>1, <2>4, <2>7, <2>8 DEF StoreInv
  <1>7. CASE CopyFails \/ Crash
    <2>1. UNCHANGED <<source, manifest, records, managed, answer>> /\ job' = Idle0
      BY <1>7 DEF CopyFails, Crash
    <2> QED BY <1>a, <1>b, <1>c, <1>d, <1>f, <2>1 DEF StoreInv
  <1>8. CASE AppendManifest
    <2> DEFINE e == RegisteredModel(job)
               models == manifest.models
               n == Len(models)
    <2>1. JobInv /\ managed[job.dest].whole
      BY <1>8, <1>a DEF AppendManifest, JobInv
    <2>2. /\ UNCHANGED <<source, records, managed>> /\ job' = Idle0
          /\ answer' = Told(job.cand.key, job.id)
          /\ manifest' = [manifest EXCEPT !.models = Append(models, e)]
      BY <1>8, <2>1 DEF AppendManifest, JobInv
    <2>3. PICK s, m : manifest = [state |-> s, models |-> m]
      BY <1>a DEF ManifestInv
    <2>4. manifest' = [state |-> s, models |-> Append(models, e)]
      BY <2>2, <2>3
    <2>5. manifest'.state = "ok" /\ manifest'.models = Append(models, e)
      BY <2>1, <2>3, <2>4 DEF JobInv
    <2>6. /\ e.id = job.id /\ e.dest = job.dest /\ e.cand = job.cand.key /\ e.format = job.cand.format
          /\ e.modalities = job.cand.modalities /\ e.evidence = job.cand.evidence
      BY DEF RegisteredModel
    <2> HIDE DEF e
    <2>7. GoodModel(e)
      <3>1. e.dest[1] = Shelf0(e)
        BY <2>1, <2>6 DEF JobInv, ManagedDestination, Shelf0
      <3> QED BY <2>1, <2>6, <3>1 DEF JobInv, GoodModel, VisionAsSeen
    <2>8. /\ IsSeq(Append(models, e)) /\ n \in Nat /\ DOMAIN models = 1..n
          /\ DOMAIN Append(models, e) = 1..(n + 1) /\ Append(models, e)[n + 1] = e
          /\ \A i \in 1..n : Append(models, e)[i] = models[i]
      BY <1>a, AppendFacts DEF ManifestInv
    <2> DEFINE new == Append(models, e)
    <2> HIDE DEF n, new
    <2>9. \A i \in 1..(n + 1) : i = n + 1 \/ i \in 1..n
      BY <2>8
    <2>10. \A i \in 1..n : GoodModel(models[i]) /\ models[i].id # e.id /\ models[i].dest # e.dest
      BY <1>a, <2>1, <2>6, <2>8 DEF ManifestInv, JobInv
    <2>11. \A i \in DOMAIN new : GoodModel(new[i])
      BY <2>7, <2>8, <2>9, <2>10 DEF new
    <2>12. \A i, j \in DOMAIN new : i # j => new[i].id # new[j].id /\ new[i].dest # new[j].dest
      <3> SUFFICES ASSUME NEW i \in 1..(n + 1), NEW j \in 1..(n + 1), i # j
                   PROVE  new[i].id # new[j].id /\ new[i].dest # new[j].dest
        BY <2>8 DEF new
      <3>1. CASE i \in 1..n /\ j \in 1..n
        <4>1. new[i] = models[i] /\ new[j] = models[j] /\ i \in DOMAIN models /\ j \in DOMAIN models
          BY <2>8, <3>1 DEF new
        <4> QED BY <1>a, <4>1 DEF ManifestInv
      <3>2. CASE i \in 1..n /\ j = n + 1
        BY <2>8, <2>10, <3>2 DEF new
      <3>3. CASE i = n + 1 /\ j \in 1..n
        BY <2>8, <2>10, <3>3 DEF new
      <3> QED BY <2>9, <3>1, <3>2, <3>3
    <2>13. ManifestInv'
      <3>1. manifest'.models = new
        BY <2>5 DEF new
      <3>2. \A i \in DOMAIN new : GoodModel(manifest.models[i])'
        BY <2>2, <2>11, <3>1 DEF GoodModel, VisionAsSeen, Shelf0
      <3>3. IsSeq(new)
        BY <2>8 DEF new
      <3> QED BY <2>4, <2>5, <2>12, <3>1, <3>2, <3>3 DEF ManifestInv
    <2>14. DoneIsRecorded'
      <3>1. manifest'.models[n + 1] = e /\ n + 1 \in DOMAIN manifest'.models
        BY <2>5, <2>8
      <3>2. e \in Entries'
        BY <3>1 DEF Entries, Range
      <3>3. answer'.id = e.id /\ answer'.key = e.cand
        BY <2>2, <2>6 DEF Told
      <3> QED BY <3>2, <3>3 DEF DoneIsRecorded
    <2> QED BY <1>a, <1>b, <1>f, <2>2, <2>13, <2>14 DEF StoreInv
  <1>9. ASSUME NEW p \in Paths, NEW s \in Sources \cup {Absent}, OperatorChanges(p, s) PROVE StoreInv'
    <2>1. UNCHANGED <<manifest, records, managed, job, answer>> /\ source' = [source EXCEPT ![p] = s]
      BY <1>9 DEF OperatorChanges
    <2>2. source' \in [Paths -> Sources \cup {Absent}]
      BY <1>a, <2>1
    <2> QED BY <1>a, <1>b, <1>c, <1>d, <1>e, <2>1, <2>2 DEF StoreInv
  <1>10. CASE UNCHANGED storeVars
    <2>1. UNCHANGED <<source, manifest, records, managed, job, answer>>
      BY <1>10 DEF storeVars
    <2> QED BY <1>a, <1>b, <1>c, <1>d, <1>e, <2>1 DEF StoreInv
  <1> QED BY <1>1, <1>2, <1>3, <1>4, <1>5, <1>6, <1>7, <1>8, <1>9, <1>10 DEF StoreNext

\* What the manifest says, what was answered and what is advertised are backed by
\* the files of the store, through every failed copy, crash and changed source
\* (registration.py, candidates.py, compatibility.py).
THEOREM StoreStaysConsistent == StoreSpec => []StoreConsistent
  <1>1. StoreInv => StoreConsistent
    <2> SUFFICES ASSUME StoreInv PROVE StoreConsistent
      OBVIOUS
    <2>1. ManifestInv /\ DoneIsRecorded
      BY DEF StoreInv
    <2>2. \A e \in Entries : GoodModel(e)
      BY <2>1 DEF ManifestInv, Entries, Range
    <2>3. CopiesAreWhole
      BY <2>1, <2>2 DEF CopiesAreWhole, ManifestInv, GoodModel
    <2>4. ASSUME NEW e \in Entries
          PROVE  /\ AdapterKind(e) = CASE e.dest[1] = "vlm" -> "mlx_vlm"
                                       [] e.dest[1] = "mlx" -> "mlx_lm_server"
                                       [] e.dest[1] = "gguf" -> "llama_cpp"
                 /\ ("vision" \in e.modalities) = (e.evidence \cap Range(VisionHints) # {})
      <3>1. e.format \in {"mlx", "gguf"} /\ VisionAsSeen(e) /\ e.dest[1] = Shelf0(e)
        BY <2>2 DEF GoodModel
      <3>2. CASE e.format = "gguf"
        <4>1. e.dest[1] = "gguf" /\ AdapterKind(e) = "llama_cpp"
          BY <3>1, <3>2 DEF Shelf0, AdapterKind
        <4> QED BY <3>1, <4>1 DEF VisionAsSeen
      <3>3. CASE e.format = "mlx" /\ "vision" \in e.modalities
        <4>1. e.dest[1] = "vlm" /\ AdapterKind(e) = "mlx_vlm"
          BY <3>1, <3>3 DEF Shelf0, AdapterKind
        <4> QED BY <3>1, <4>1 DEF VisionAsSeen
      <3>4. CASE e.format = "mlx" /\ "vision" \notin e.modalities
        <4>1. e.dest[1] = "mlx" /\ AdapterKind(e) = "mlx_lm_server"
          BY <3>1, <3>4 DEF Shelf0, AdapterKind
        <4> QED BY <3>1, <4>1 DEF VisionAsSeen
      <3> QED BY <3>1, <3>2, <3>3, <3>4
    <2>5. AdvertisedAsInspected
      BY <2>4 DEF AdvertisedAsInspected
    <2> QED BY <2>1, <2>3, <2>5 DEF StoreConsistent
  <1> QED BY <1>1, StoreInitially, StoreStep, PTL DEF StoreSpec

\* No step drops or changes an entry of the manifest, although a registration
\* writes back the manifest it read before it copied: no other step writes an
\* entry in between (registration.py, bootstrap.py).
THEOREM RegistrationsAreKept == StoreSpec => RegistrationsSurvive
  <1> DEFINE Kept == manifest.state # "absent" =>
                       /\ manifest'.state = manifest.state
                       /\ IsPrefix(manifest.models, manifest'.models)
  <1>1. StoreInv /\ [StoreNext]_storeVars => [Kept]_storeVars
    <2> SUFFICES ASSUME StoreInv, StoreNext, manifest.state # "absent"
                 PROVE  /\ manifest'.state = manifest.state
                        /\ IsPrefix(manifest.models, manifest'.models)
      OBVIOUS
    <2>1. ManifestInv /\ IsSeq(manifest.models)
      BY DEF StoreInv, ManifestInv
    <2>2. CASE UNCHANGED manifest
      <3>1. IsPrefix(manifest.models, manifest.models)
        BY <2>1, AppendFacts
      <3> QED BY <2>2, <3>1
    <2>3. CASE AppendManifest
      <3>1. JobInv
        BY <2>3 DEF StoreInv, AppendManifest
      <3>2. PICK s, m : manifest = [state |-> s, models |-> m]
        BY <2>1 DEF ManifestInv
      <3>3. manifest' = [manifest EXCEPT !.models = Append(manifest.models, RegisteredModel(job))]
        BY <2>3, <3>1 DEF AppendManifest, JobInv
      <3>4. manifest'.state = manifest.state /\ manifest'.models = Append(manifest.models, RegisteredModel(job))
        BY <3>2, <3>3
      <3>5. IsPrefix(manifest.models, Append(manifest.models, RegisteredModel(job)))
        BY <2>1, AppendFacts
      <3> QED BY <3>4, <3>5
    <2>4. UNCHANGED manifest \/ AppendManifest
      BY DEF StoreNext, BootstrapDirs, BootstrapEnds, BootstrapManifest, Inspect, RegisterAnswered,
             RegisterCopies, CopyEnds, CopyFails, Crash, OperatorChanges
    <2> QED BY <2>2, <2>3, <2>4
  <1> QED BY <1>1, StoreInitially, StoreStep, PTL DEF StoreSpec, RegistrationsSurvive

(***************************************************************************)
(* The snapshot database.  What the connection sees is never behind what   *)
(* is committed, so a commit that takes earlier rows along, or a rollback,  *)
(* loses nothing that was stored.                                          *)
(***************************************************************************)
GoodRows(r) ==
    /\ \E c, m, a, t, v : r = [candidates |-> c, manifests |-> m, artifacts |-> a, materials |-> t, validations |-> v]
    /\ r.validations \in Nat
    /\ \A c \in DOMAIN r.artifacts : r.artifacts[c] \in Nat
    /\ \A p \in DOMAIN r.candidates : \E m : \E n \in Nat : r.candidates[p] = [model |-> m, seen |-> n]

\* The rows of r are all in q, with counts no lower.
Grown(r, q) ==
    /\ r.manifests \subseteq q.manifests /\ r.materials \subseteq q.materials
    /\ r.validations <= q.validations
    /\ \A c \in DOMAIN r.artifacts : c \in DOMAIN q.artifacts /\ r.artifacts[c] <= q.artifacts[c]
    /\ \A p \in DOMAIN r.candidates : p \in DOMAIN q.candidates /\ r.candidates[p].seen <= q.candidates[p].seen

RowsInv == GoodRows(db) /\ GoodRows(view) /\ Grown(db, view)

\* Rows that grow are ordered.
LEMMA GrownOrder ==
    /\ \A r : GoodRows(r) => Grown(r, r)
    /\ \A q, r, s : GoodRows(q) /\ GoodRows(r) /\ GoodRows(s) /\ Grown(q, r) /\ Grown(r, s) => Grown(q, s)
  <1>1. ASSUME NEW r, GoodRows(r), NEW p \in DOMAIN r.candidates PROVE r.candidates[p].seen \in Nat
    BY <1>1 DEF GoodRows
  <1>2. ASSUME NEW r, GoodRows(r) PROVE Grown(r, r)
    <2>1. r.validations <= r.validations /\ \A c \in DOMAIN r.artifacts : r.artifacts[c] <= r.artifacts[c]
      BY <1>2 DEF GoodRows
    <2>2. \A p \in DOMAIN r.candidates : r.candidates[p].seen <= r.candidates[p].seen
      <3> SUFFICES ASSUME NEW p \in DOMAIN r.candidates PROVE r.candidates[p].seen <= r.candidates[p].seen
        OBVIOUS
      <3>1. r.candidates[p].seen \in Nat
        BY <1>1, <1>2
      <3> QED BY <3>1
    <2> QED BY <2>1, <2>2 DEF Grown
  <1>3. ASSUME NEW q, NEW r, NEW s, GoodRows(q), GoodRows(r), GoodRows(s), Grown(q, r), Grown(r, s)
        PROVE  Grown(q, s)
    <2>1. q.manifests \subseteq s.manifests /\ q.materials \subseteq s.materials
      BY <1>3 DEF Grown
    <2>2. q.validations <= s.validations
      <3>1. {q.validations, r.validations, s.validations} \subseteq Nat
        BY <1>3 DEF GoodRows
      <3>2. q.validations <= r.validations /\ r.validations <= s.validations
        BY <1>3 DEF Grown
      <3> QED BY <3>1, <3>2
    <2>3. ASSUME NEW c \in DOMAIN q.artifacts
          PROVE  c \in DOMAIN s.artifacts /\ q.artifacts[c] <= s.artifacts[c]
      <3>1. c \in DOMAIN r.artifacts /\ c \in DOMAIN s.artifacts
        BY <1>3 DEF Grown
      <3>2. {q.artifacts[c], r.artifacts[c], s.artifacts[c]} \subseteq Nat
        BY <1>3, <3>1 DEF GoodRows
      <3>3. q.artifacts[c] <= r.artifacts[c] /\ r.artifacts[c] <= s.artifacts[c]
        BY <1>3, <3>1 DEF Grown
      <3> QED BY <3>1, <3>2, <3>3
    <2>4. ASSUME NEW p \in DOMAIN q.candidates
          PROVE  p \in DOMAIN s.candidates /\ q.candidates[p].seen <= s.candidates[p].seen
      <3>1. p \in DOMAIN r.candidates /\ p \in DOMAIN s.candidates
        BY <1>3 DEF Grown
      <3>2. q.candidates[p].seen \in Nat /\ r.candidates[p].seen \in Nat /\ s.candidates[p].seen \in Nat
        BY <1>1, <1>3, <3>1
      <3>3. q.candidates[p].seen <= r.candidates[p].seen /\ r.candidates[p].seen <= s.candidates[p].seen
        BY <1>3, <3>1 DEF Grown
      <3> QED BY <3>1, <3>2, <3>3
    <2> QED BY <2>1, <2>2, <2>3, <2>4 DEF Grown
  <1> QED BY <1>2, <1>3

\* A write takes rows that have grown to the store, whole, or not at all.
LEMMA WriteStep ==
    ASSUME RowsInv, NEW rows, GoodRows(rows), Grown(view, rows), Write(rows)
    PROVE  RowsInv' /\ Grown(db, db')
  <1>1. GoodRows(db) /\ GoodRows(view) /\ Grown(db, view) /\ Grown(db, db) /\ Grown(rows, rows)
    BY GrownOrder DEF RowsInv
  <1>2. Grown(db, rows)
    BY <1>1, GrownOrder
  <1>3. \/ db' = db /\ view' \in {view, rows, db}
        \/ db' = rows /\ view' = rows
    BY DEF Write
  <1>4. GoodRows(db') /\ GoodRows(view') /\ Grown(db', view') /\ Grown(db, db')
    BY <1>1, <1>2, <1>3
  <1>5. GoodRows(db') = GoodRows(db)' /\ GoodRows(view') = GoodRows(view)' /\ Grown(db', view') = Grown(db, view)'
    BY DEF GoodRows, Grown
  <1> QED BY <1>4, <1>5 DEF RowsInv

\* What an upsert writes: the rows the connection sees, grown, and for all but the
\* artifact's with the same artifacts.
Upserts(rows) == Write(rows) /\ GoodRows(rows) /\ Grown(view, rows)

\* Every upsert of the pipeline is one of these.
LEMMA UpsertFacts ==
    ASSUME RowsInv, NEW c
    PROVE  /\ UpsertCandidate(c) => \E rows : Upserts(rows) /\ rows.artifacts = view.artifacts
           /\ UpsertManifest(c) => \E rows : Upserts(rows) /\ rows.artifacts = view.artifacts
           /\ UpsertMaterial(c) => \E rows : Upserts(rows) /\ rows.artifacts = view.artifacts
           /\ RecordValidation => \E rows : Upserts(rows) /\ rows.artifacts = view.artifacts
           /\ UpsertArtifact(c) => \E rows : Upserts(rows) /\ rows.artifacts = Bump(view.artifacts, c, 0)
  <1>1. PICK ca, m, a, t, v :
          view = [candidates |-> ca, manifests |-> m, artifacts |-> a, materials |-> t, validations |-> v]
    BY DEF RowsInv, GoodRows
  <1>2. view.candidates = ca /\ view.manifests = m /\ view.artifacts = a /\ view.materials = t /\ view.validations = v
    BY <1>1
  <1>3. /\ v \in Nat /\ \A x \in DOMAIN a : a[x] \in Nat
        /\ \A p \in DOMAIN ca : \E o : \E n \in Nat : ca[p] = [model |-> o, seen |-> n]
    BY <1>2 DEF RowsInv, GoodRows
  <1>4. Grown(view, view)
    BY GrownOrder DEF RowsInv
  <1>5. v <= v /\ (\A x \in DOMAIN a : a[x] <= a[x]) /\ \A p \in DOMAIN ca : ca[p].seen <= ca[p].seen
    BY <1>2, <1>4 DEF Grown
  <1>6. ASSUME UpsertCandidate(c) PROVE \E rows : Upserts(rows) /\ rows.artifacts = view.artifacts
    <2> DEFINE row == IF c.prefix \in DOMAIN ca THEN [ca[c.prefix] EXCEPT !.seen = @ + 1]
                      ELSE [model |-> c.model, seen |-> 1]
               new == [p \in DOMAIN ca \cup {c.prefix} |-> IF p = c.prefix THEN row ELSE ca[p]]
               rows == [candidates |-> new, manifests |-> m, artifacts |-> a, materials |-> t, validations |-> v]
    <2>1. Write(rows)
      <3>1. [view EXCEPT !.candidates = new] = rows
        BY <1>1
      <3> QED BY <1>2, <1>6, <3>1 DEF UpsertCandidate
    <2>2. /\ rows.candidates = new /\ rows.manifests = m /\ rows.artifacts = a
          /\ rows.materials = t /\ rows.validations = v
      OBVIOUS
    <2>3. /\ \E o : \E n \in Nat : row = [model |-> o, seen |-> n]
          /\ c.prefix \in DOMAIN ca => ca[c.prefix].seen <= row.seen
      <3>1. CASE c.prefix \in DOMAIN ca
        <4>1. PICK o : \E n \in Nat : ca[c.prefix] = [model |-> o, seen |-> n]
          BY <1>3, <3>1
        <4>2. PICK n \in Nat : ca[c.prefix] = [model |-> o, seen |-> n]
          BY <4>1
        <4>3. row = [model |-> o, seen |-> n + 1] /\ ca[c.prefix].seen = n
          BY <3>1, <4>2
        <4>4. n + 1 \in Nat /\ n <= n + 1
          OBVIOUS
        <4> HIDE DEF row
        <4> QED BY <4>3, <4>4
      <3>2. CASE c.prefix \notin DOMAIN ca
        <4>1. row = [model |-> c.model, seen |-> 1] /\ 1 \in Nat
          BY <3>2
        <4> HIDE DEF row
        <4> QED BY <3>2, <4>1
      <3> QED BY <3>1, <3>2
    <2> HIDE DEF row
    <2>4. /\ DOMAIN new = DOMAIN ca \cup {c.prefix} /\ new[c.prefix] = row
          /\ \A p \in DOMAIN ca : p # c.prefix => new[p] = ca[p]
      OBVIOUS
    <2> HIDE DEF new
    <2>5. \A p \in DOMAIN new : \E o : \E n \in Nat : new[p] = [model |-> o, seen |-> n]
      BY ZenonT(60), <1>3, <2>3, <2>4
    <2>6. \A p \in DOMAIN ca : p \in DOMAIN new /\ ca[p].seen <= new[p].seen
      BY <1>5, <2>3, <2>4
    <2>7. \E x, y, z, u, w : rows = [candidates |-> x, manifests |-> y, artifacts |-> z, materials |-> u, validations |-> w]
      OBVIOUS
    <2> HIDE DEF rows
    <2>8. GoodRows(rows)
      BY <1>3, <2>2, <2>5, <2>7 DEF GoodRows
    <2>9. Grown(view, rows)
      BY <1>2, <1>5, <2>2, <2>6 DEF Grown
    <2> QED BY <1>2, <2>1, <2>2, <2>8, <2>9 DEF Upserts
  <1>7. ASSUME NEW ms, NEW ts, NEW n \in Nat, m \subseteq ms, t \subseteq ts, v <= n
        PROVE  LET rows == [candidates |-> ca, manifests |-> ms, artifacts |-> a, materials |-> ts, validations |-> n]
               IN  GoodRows(rows) /\ Grown(view, rows) /\ rows.artifacts = view.artifacts
    <2> DEFINE rows == [candidates |-> ca, manifests |-> ms, artifacts |-> a, materials |-> ts, validations |-> n]
    <2>1. /\ rows.candidates = ca /\ rows.manifests = ms /\ rows.artifacts = a
          /\ rows.materials = ts /\ rows.validations = n
      OBVIOUS
    <2>2. \E x, y, z, u, w : rows = [candidates |-> x, manifests |-> y, artifacts |-> z, materials |-> u, validations |-> w]
      OBVIOUS
    <2> HIDE DEF rows
    <2>3. GoodRows(rows)
      BY <1>3, <2>1, <2>2 DEF GoodRows
    <2>4. Grown(view, rows)
      BY <1>2, <1>5, <1>7, <2>1 DEF Grown
    <2> QED BY <1>2, <2>1, <2>3, <2>4 DEF rows
  <1>8. ASSUME UpsertManifest(c) PROVE \E rows : Upserts(rows) /\ rows.artifacts = view.artifacts
    <2> DEFINE rows == [candidates |-> ca, manifests |-> m \cup {c}, artifacts |-> a, materials |-> t, validations |-> v]
    <2>1. Write(rows)
      <3>1. [view EXCEPT !.manifests = m \cup {c}] = rows
        BY <1>1
      <3> QED BY <1>2, <1>8, <3>1 DEF UpsertManifest
    <2>2. GoodRows(rows) /\ Grown(view, rows) /\ rows.artifacts = view.artifacts
      <3>1. m \subseteq m \cup {c} /\ t \subseteq t /\ v <= v /\ v \in Nat
        BY <1>3, <1>5
      <3> QED BY <1>7, <3>1
    <2> HIDE DEF rows
    <2> QED BY <2>1, <2>2 DEF Upserts
  <1>9. ASSUME UpsertMaterial(c) PROVE \E rows : Upserts(rows) /\ rows.artifacts = view.artifacts
    <2> DEFINE rows == [candidates |-> ca, manifests |-> m, artifacts |-> a, materials |-> t \cup {c}, validations |-> v]
    <2>1. Write(rows)
      <3>1. [view EXCEPT !.materials = t \cup {c}] = rows
        BY <1>1
      <3> QED BY <1>2, <1>9, <3>1 DEF UpsertMaterial
    <2>2. GoodRows(rows) /\ Grown(view, rows) /\ rows.artifacts = view.artifacts
      <3>1. m \subseteq m /\ t \subseteq t \cup {c} /\ v <= v /\ v \in Nat
        BY <1>3, <1>5
      <3> QED BY <1>7, <3>1
    <2> HIDE DEF rows
    <2> QED BY <2>1, <2>2 DEF Upserts
  <1>10. ASSUME RecordValidation PROVE \E rows : Upserts(rows) /\ rows.artifacts = view.artifacts
    <2> DEFINE rows == [candidates |-> ca, manifests |-> m, artifacts |-> a, materials |-> t, validations |-> v + 1]
    <2>1. Write(rows)
      <3>1. [view EXCEPT !.validations = v + 1] = rows
        BY <1>1
      <3> QED BY <1>2, <1>10, <3>1 DEF RecordValidation
    <2>2. GoodRows(rows) /\ Grown(view, rows) /\ rows.artifacts = view.artifacts
      <3>1. m \subseteq m /\ t \subseteq t
        OBVIOUS
      <3>2. v <= v + 1 /\ v + 1 \in Nat
        BY <1>3
      <3> QED BY <1>7, <3>1, <3>2
    <2> HIDE DEF rows
    <2> QED BY <2>1, <2>2 DEF Upserts
  <1>11. ASSUME UpsertArtifact(c) PROVE \E rows : Upserts(rows) /\ rows.artifacts = Bump(view.artifacts, c, 0)
    <2> DEFINE new == Bump(a, c, 0)
               rows == [candidates |-> ca, manifests |-> m, artifacts |-> new, materials |-> t, validations |-> v]
    <2>1. Write(rows)
      <3>1. [view EXCEPT !.artifacts = new] = rows
        BY <1>1
      <3> QED BY <1>2, <1>11, <3>1 DEF UpsertArtifact
    <2>2. /\ rows.candidates = ca /\ rows.manifests = m /\ rows.artifacts = new
          /\ rows.materials = t /\ rows.validations = v
      OBVIOUS
    <2>3. \E x, y, z, u, w : rows = [candidates |-> x, manifests |-> y, artifacts |-> z, materials |-> u, validations |-> w]
      OBVIOUS
    <2>4. DOMAIN new = DOMAIN a \cup {c} /\ \A x \in DOMAIN new : new[x] = IF x # c THEN a[x] ELSE IF c \in DOMAIN a THEN a[c] + 1 ELSE 0
      BY DEF Bump
    <2> HIDE DEF rows, new
    <2>5. /\ \A x \in DOMAIN new : new[x] \in Nat
          /\ \A x \in DOMAIN a : x \in DOMAIN new /\ a[x] <= new[x]
      BY <1>3, <2>4
    <2>6. GoodRows(rows)
      BY <1>3, <2>2, <2>3, <2>5 DEF GoodRows
    <2>7. Grown(view, rows)
      BY <1>2, <1>5, <2>2, <2>5 DEF Grown
    <2> QED BY <1>2, <2>1, <2>2, <2>6, <2>7 DEF Upserts, new
  <1> QED BY <1>6, <1>8, <1>9, <1>10, <1>11

(***************************************************************************)
(* Attempts are accounted for.  The proof counts the upserts that are      *)
(* issued and not stored: a failed write adds at most the one it was for,  *)
(* and a write that succeeds takes one of them along for each it adds.     *)
(***************************************************************************)
Tries(a, c) == IF c \in DOMAIN a THEN a[c] + 1 ELSE 0

LostOf(a, s) == {u \in Candidates \X (1..MaxWrites) : Tries(a, u[1]) < u[2] /\ u[2] <= s[u[1]]}

IndexInv == DOMAIN seen \subseteq Candidates /\ (stage # "evaluate" => hand \in Candidates)

CountsInv ==
    /\ issued \in [Candidates -> Nat] /\ failed \in Nat
    /\ \A c \in Candidates : Attempts(view, c) <= issued[c]
    /\ IsFiniteSet(Lost) /\ Cardinality(Lost) <= failed

\* While nothing failed, the connection sees the artifacts that are committed, and
\* no other candidate than those registered has any.
RegistryInv ==
    /\ restarts \in Nat
    /\ \A c \in DOMAIN registry : registry[c] \in Nat
    /\ stage = "artifact" => hand \in DOMAIN registry
    /\ conn /\ failed = 0 /\ restarts = 0 =>
         /\ view.artifacts = db.artifacts
         /\ \A c : c \notin DOMAIN registry => c \notin DOMAIN db.artifacts
    /\ RegistryMatchesStore

SnapInv == RowsInv /\ IndexInv /\ CountsInv /\ RegistryInv

\* A step that issues no artifact upsert leaves the artifacts of one of the two.
Quiet ==
    /\ issued' = issued /\ failed' \in Nat /\ failed <= failed'
    /\ db'.artifacts \in {db.artifacts, view.artifacts}
    /\ view'.artifacts \in {view.artifacts, db.artifacts}

\* Stored attempts in terms of the artifacts alone.
LEMMA TriesFacts ==
    /\ \A r, c : Attempts(r, c) = Tries(r.artifacts, c)
    /\ RowsInv => \A c : /\ Tries(db.artifacts, c) \in Nat /\ Tries(view.artifacts, c) \in Nat
                         /\ Tries(db.artifacts, c) <= Tries(view.artifacts, c)
    /\ Lost = LostOf(db.artifacts, issued) /\ Lost' = LostOf(db'.artifacts, issued')
  <1>1. \A r, c : Attempts(r, c) = Tries(r.artifacts, c)
    BY DEF Attempts, Tries
  <1>2. ASSUME RowsInv, NEW c
        PROVE  /\ Tries(db.artifacts, c) \in Nat /\ Tries(view.artifacts, c) \in Nat
               /\ Tries(db.artifacts, c) <= Tries(view.artifacts, c)
    <2>1. /\ c \in DOMAIN db.artifacts => db.artifacts[c] \in Nat /\ c \in DOMAIN view.artifacts
                                          /\ db.artifacts[c] <= view.artifacts[c]
          /\ c \in DOMAIN view.artifacts => view.artifacts[c] \in Nat
      BY <1>2 DEF RowsInv, GoodRows, Grown
    <2> QED BY <2>1 DEF Tries
  <1>3. Lost = LostOf(db.artifacts, issued) /\ Lost' = LostOf(db'.artifacts, issued')
    BY DEF Lost, LostOf, Attempts, Tries
  <1> QED BY <1>1, <1>2, <1>3

\* Which upserts are lost.
LEMMA LostMembers ==
    ASSUME NEW a, NEW s
    PROVE  /\ \A c \in Candidates, i \in 1..MaxWrites : <<c, i>> \in LostOf(a, s) <=> Tries(a, c) < i /\ i <= s[c]
           /\ \A u \in LostOf(a, s) : \E c \in Candidates, i \in 1..MaxWrites :
                u = <<c, i>> /\ Tries(a, c) < i /\ i <= s[c]
  BY DEF LostOf

\* More attempts stored, fewer upserts lost.
LEMMA LostShrinks ==
    ASSUME NEW a, NEW b, NEW s,
           \A c \in Candidates : Tries(a, c) \in Nat /\ Tries(b, c) \in Nat /\ Tries(a, c) <= Tries(b, c)
    PROVE  LostOf(b, s) \subseteq LostOf(a, s)
  <1> SUFFICES ASSUME NEW u \in LostOf(b, s) PROVE u \in LostOf(a, s)
    OBVIOUS
  <1>1. PICK c \in Candidates, i \in 1..MaxWrites : u = <<c, i>> /\ Tries(b, c) < i /\ i <= s[c]
    BY LostMembers
  <1>2. i \in Int
    OBVIOUS
  <1>3. Tries(a, c) < i
    BY <1>1, <1>2
  <1> QED BY <1>1, <1>3, LostMembers

\* One more upsert issued, at most one more lost: the new one.
LEMMA LostGrowsByOne ==
    ASSUME NEW a, NEW s, NEW t, NEW h \in Candidates, s[h] \in Nat, t[h] = s[h] + 1,
           \A c \in Candidates : c # h => t[c] = s[c]
    PROVE  LostOf(a, t) \subseteq LostOf(a, s) \cup {<<h, s[h] + 1>>}
  <1> SUFFICES ASSUME NEW u \in LostOf(a, t), u # <<h, s[h] + 1>> PROVE u \in LostOf(a, s)
    OBVIOUS
  <1>1. PICK c \in Candidates, i \in 1..MaxWrites : u = <<c, i>> /\ Tries(a, c) < i /\ i <= t[c]
    BY LostMembers
  <1>2. i <= s[c]
    <2>1. CASE c # h
      BY <1>1, <2>1
    <2>2. CASE c = h
      <3>1. i \in Int /\ i # s[h] + 1 /\ i <= s[h] + 1
        BY <1>1, <2>2
      <3> QED BY <2>2, <3>1
    <2> QED BY <2>1, <2>2
  <1> QED BY <1>1, <1>2, LostMembers

\* Such a step keeps the account.
LEMMA QuietStep ==
    ASSUME RowsInv, CountsInv, Quiet
    PROVE  CountsInv'
  <1>1. /\ issued \in [Candidates -> Nat] /\ failed \in Nat /\ failed' \in Nat /\ failed <= failed' /\ issued' = issued
        /\ \A c \in Candidates : Tries(view.artifacts, c) <= issued[c]
        /\ IsFiniteSet(Lost) /\ Cardinality(Lost) <= failed
    BY TriesFacts DEF CountsInv, Quiet
  <1>2. \A c : /\ Tries(db.artifacts, c) \in Nat /\ Tries(view.artifacts, c) \in Nat
               /\ Tries(db.artifacts, c) <= Tries(view.artifacts, c)
    BY TriesFacts
  <1>3. \A c \in Candidates : Tries(view'.artifacts, c) <= issued[c]
    <2> SUFFICES ASSUME NEW c \in Candidates PROVE Tries(view'.artifacts, c) <= issued[c]
      OBVIOUS
    <2>1. Tries(view'.artifacts, c) \in {Tries(view.artifacts, c), Tries(db.artifacts, c)}
      BY DEF Quiet
    <2>2. issued[c] \in Nat
      BY <1>1
    <2> QED BY <1>1, <1>2, <2>1, <2>2
  <1>4. Lost' \subseteq Lost
    <2>1. \A c : Tries(db.artifacts, c) <= Tries(db.artifacts, c)
      BY <1>2
    <2>2. CASE db'.artifacts = db.artifacts
      BY <1>1, <2>2, TriesFacts
    <2>3. CASE db'.artifacts = view.artifacts
      <3>1. LostOf(view.artifacts, issued) \subseteq LostOf(db.artifacts, issued)
        BY <1>2, LostShrinks
      <3> QED BY <1>1, <2>3, <3>1, TriesFacts
    <2> QED BY <2>2, <2>3 DEF Quiet
  <1>5. IsFiniteSet(Lost') /\ Cardinality(Lost') <= failed'
    <2>1. IsFiniteSet(Lost') /\ Cardinality(Lost') <= Cardinality(Lost)
      BY <1>1, <1>4, FS_Subset
    <2>2. Cardinality(Lost) \in Nat /\ Cardinality(Lost') \in Nat
      BY <1>1, <2>1, FS_CardinalityType
    <2> QED BY <1>1, <2>1, <2>2
  <1>6. \A c \in Candidates : Attempts(view', c) <= issued'[c]
    BY <1>1, <1>3, TriesFacts
  <1>7. Candidates' = Candidates
    BY DEF Candidates, Candidate, Selected, Compatible, SharedPrefix
  <1>8. (\A c \in Candidates : Attempts(view', c) <= issued'[c]) = (\A c \in Candidates : Attempts(view, c) <= issued[c])'
    BY <1>7 DEF Attempts
  <1> QED BY <1>1, <1>5, <1>6, <1>8 DEF CountsInv

\* Storing an artifact keeps the account, whether its write succeeds, fails in
\* either way or finds no database.
LEMMA ArtifactStep ==
    ASSUME RowsInv, CountsInv, NEW h \in Candidates, issued[h] < MaxWrites,
           NEW rows, rows.artifacts = Bump(view.artifacts, h, 0), Write(rows),
           issued' = IF conn THEN [issued EXCEPT ![h] = @ + 1] ELSE issued
    PROVE  CountsInv'
  <1> DEFINE v(c) == Tries(view.artifacts, c)
             b(c) == Tries(db.artifacts, c)
             n == issued[h]
             y == <<h, n + 1>>
  <1>1. /\ issued \in [Candidates -> Nat] /\ failed \in Nat
        /\ \A c \in Candidates : v(c) <= issued[c]
        /\ IsFiniteSet(Lost) /\ Cardinality(Lost) <= failed
    BY TriesFacts DEF CountsInv
  <1>2. \A c : b(c) \in Nat /\ v(c) \in Nat /\ b(c) <= v(c)
    BY TriesFacts
  <1>3. \A c : Tries(rows.artifacts, c) = IF c = h THEN v(h) + 1 ELSE v(c)
    BY DEF Tries, Bump
  <1>4. n \in Nat /\ MaxWrites \in Nat /\ n < MaxWrites /\ n + 1 \in 1..MaxWrites
    BY <1>1, SnapshotsAssumption
  <1>5. CASE ~conn
    <2>1. Quiet
      BY <1>1, <1>5 DEF Quiet, Write
    <2> QED BY <2>1, QuietStep
  <1>6. CASE conn
    <2>1. issued' = [issued EXCEPT ![h] = @ + 1]
      BY <1>6
    <2>2. /\ issued' \in [Candidates -> Nat] /\ issued'[h] = n + 1
          /\ \A c \in Candidates : c # h => issued'[c] = issued[c]
      BY <1>1, <2>1
    <2> HIDE DEF v, b, n
    <2>3. \A c \in Candidates : issued[c] \in Nat /\ issued'[c] \in Nat /\ issued[c] <= issued'[c]
      BY <1>1, <1>4, <2>2 DEF n
    <2>4. \A c \in Candidates : Tries(rows.artifacts, c) <= issued'[c]
      BY <1>1, <1>2, <1>3, <1>4, <2>2 DEF n
    <2>5. \A c \in Candidates : v(c) <= issued'[c] /\ b(c) <= issued'[c]
      BY <1>1, <1>2, <2>3
    \* Only the new upsert can be lost that was not lost before.
    <2>6. LostOf(db.artifacts, issued') \subseteq LostOf(db.artifacts, issued) \cup {y}
      BY <1>4, <2>2, LostGrowsByOne DEF n
    <2>7. /\ \A c \in Candidates : Attempts(view', c) <= issued'[c]
          /\ IsFiniteSet(Lost') /\ Cardinality(Lost') <= failed' /\ failed' \in Nat
      <3>1. Lost = LostOf(db.artifacts, issued) /\ Lost' = LostOf(db'.artifacts, issued')
        BY TriesFacts
      <3>2. Cardinality(Lost) \in Nat
        BY <1>1, FS_CardinalityType
      <3>3. IsFiniteSet(Lost \cup {y}) /\ Cardinality(Lost \cup {y}) <= Cardinality(Lost) + 1
            /\ Cardinality(Lost \cup {y}) \in Nat
        <4>1. /\ IsFiniteSet(Lost \cup {y})
              /\ Cardinality(Lost \cup {y}) = IF y \in Lost THEN Cardinality(Lost) ELSE Cardinality(Lost) + 1
          BY <1>1, FS_AddElement
        <4> QED BY <3>2, <4>1
      <3>4. CASE db' = rows /\ view' = rows /\ failed' = failed
        <4>1. \A c \in Candidates : Attempts(view', c) <= issued'[c]
          BY <2>4, <3>4, TriesFacts
        <4>2. \A c \in Candidates : /\ b(c) \in Nat /\ Tries(rows.artifacts, c) \in Nat
                                    /\ b(c) <= Tries(rows.artifacts, c)
          BY <1>2, <1>3
        <4>3. LostOf(rows.artifacts, issued') \subseteq LostOf(db.artifacts, issued')
          BY <4>2, LostShrinks DEF b
        <4>4. Lost' \subseteq Lost \cup {y}
          BY <2>6, <3>1, <3>4, <4>3
        <4>5. CASE v(h) < n
          <5> DEFINE x == <<h, v(h) + 1>>
          <5>1. v(h) + 1 \in 1..MaxWrites /\ v(h) + 1 <= issued[h] /\ b(h) < v(h) + 1
            BY <1>2, <1>4, <4>5 DEF n
          <5>2. x \in Lost
            BY <3>1, <5>1, LostMembers DEF b
          <5>3. x \notin Lost'
            <6>1. Tries(rows.artifacts, h) = v(h) + 1 /\ ~(v(h) + 1 < v(h) + 1)
              BY <1>2, <1>3
            <6> QED BY <3>1, <3>4, <5>1, <6>1, LostMembers
          <5>4. x # y
            BY <1>2, <1>4, <4>5
          <5> HIDE DEF x, y
          <5>5. Lost' \subseteq (Lost \ {x}) \cup {y}
            BY <4>4, <5>3
          <5>6. IsFiniteSet(Lost \ {x}) /\ Cardinality(Lost \ {x}) = Cardinality(Lost) - 1
            BY <1>1, <5>2, FS_RemoveElement
          <5>7. /\ IsFiniteSet((Lost \ {x}) \cup {y}) /\ Cardinality((Lost \ {x}) \cup {y}) <= Cardinality(Lost)
            <6>1. /\ IsFiniteSet((Lost \ {x}) \cup {y})
                  /\ \/ Cardinality((Lost \ {x}) \cup {y}) = Cardinality(Lost \ {x})
                     \/ Cardinality((Lost \ {x}) \cup {y}) = Cardinality(Lost \ {x}) + 1
              BY <5>6, FS_AddElement
            <6> QED BY <3>2, <5>6, <6>1
          <5>8. IsFiniteSet(Lost') /\ Cardinality(Lost') <= Cardinality((Lost \ {x}) \cup {y})
            BY <5>5, <5>7, FS_Subset
          <5>9. Cardinality(Lost') \in Nat /\ Cardinality((Lost \ {x}) \cup {y}) \in Nat
            BY <5>7, <5>8, FS_CardinalityType
          <5>10. Cardinality(Lost') <= failed
            BY <1>1, <3>2, <5>7, <5>8, <5>9
          <5> QED BY <1>1, <3>4, <4>1, <5>8, <5>10
        <4>6. CASE ~(v(h) < n)
          <5>1. y \notin Lost'
            <6>1. Tries(rows.artifacts, h) = v(h) + 1 /\ ~(v(h) + 1 < n + 1)
              BY <1>2, <1>3, <1>4, <4>6
            <6> QED BY <1>4, <3>1, <3>4, <6>1, LostMembers
          <5> HIDE DEF y
          <5>2. Lost' \subseteq Lost
            BY <4>4, <5>1
          <5>3. IsFiniteSet(Lost') /\ Cardinality(Lost') <= Cardinality(Lost)
            BY <1>1, <5>2, FS_Subset
          <5>4. Cardinality(Lost') \in Nat
            BY <5>3, FS_CardinalityType
          <5>5. Cardinality(Lost') <= failed
            BY <1>1, <3>2, <5>3, <5>4
          <5> QED BY <1>1, <3>4, <4>1, <5>3, <5>5
        <4> QED BY <4>5, <4>6
      <3>5. CASE db' = db /\ view' \in {view, rows, db} /\ failed' = failed + 1
        <4>1. \A c \in Candidates : Attempts(view', c) <= issued'[c]
          BY <2>4, <2>5, <3>5, TriesFacts DEF v, b
        <4>2. Lost' \subseteq Lost \cup {y}
          BY <2>6, <3>1, <3>5
        <4> HIDE DEF y
        <4>3. IsFiniteSet(Lost') /\ Cardinality(Lost') <= Cardinality(Lost \cup {y})
          BY <3>3, <4>2, FS_Subset
        <4>4. Cardinality(Lost') \in Nat
          BY <4>3, FS_CardinalityType
        <4>5. Cardinality(Lost') <= failed + 1
          BY <1>1, <3>2, <3>3, <4>3, <4>4
        <4> QED BY <1>1, <3>5, <4>1, <4>3, <4>5
      <3> QED BY <1>6, <3>4, <3>5 DEF Write
    <2>8. (\A c \in Candidates : Attempts(view', c) <= issued'[c]) = (\A c \in Candidates : Attempts(view, c) <= issued[c])'
      BY DEF Attempts
    <2> QED BY <2>2, <2>7, <2>8 DEF CountsInv
  <1> QED BY <1>5, <1>6

\* A quiet step between two other stages keeps the registry in line with the store.
LEMMA QuietRegistry ==
    ASSUME CountsInv, RegistryInv, Quiet, UNCHANGED <<registry, restarts, conn>>,
           stage # "artifact", stage' # "artifact"
    PROVE  RegistryInv'
  <1>1. failed' = 0 => failed = 0
    BY DEF Quiet, CountsInv
  <1>2. conn' /\ failed' = 0 /\ restarts' = 0 =>
          /\ conn /\ failed = 0 /\ restarts = 0 /\ db'.artifacts = db.artifacts /\ view'.artifacts = db'.artifacts
    BY <1>1 DEF Quiet, RegistryInv
  <1>3. RegistryMatchesStore'
    <2> SUFFICES ASSUME conn', failed' = 0, restarts' = 0, NEW c \in DOMAIN registry'
                 PROVE  Attempts(db, c)' = registry'[c] + 1
      BY DEF RegistryMatchesStore
    <2>1. Attempts(db, c) = registry[c] + 1
      BY <1>2 DEF RegistryInv, RegistryMatchesStore
    <2>2. Attempts(db, c)' = Attempts(db, c)
      BY <1>2 DEF Attempts
    <2> QED BY <2>1, <2>2
  <1> QED BY <1>2, <1>3 DEF RegistryInv

\* A write of other rows than artifacts is quiet.
LEMMA WriteIsQuiet ==
    ASSUME CountsInv, NEW rows, Write(rows), rows.artifacts = view.artifacts, UNCHANGED issued
    PROVE  Quiet
  <1>1. failed \in Nat
    BY DEF CountsInv
  <1>2. failed' \in Nat /\ failed <= failed'
    BY <1>1 DEF Write
  <1>3. \/ db' = db /\ view' \in {view, rows, db}
        \/ db' = rows /\ view' = rows
    BY DEF Write
  <1> QED BY <1>2, <1>3 DEF Quiet

\* An empty database and an idle pipeline satisfy the invariant.
LEMMA SnapInitially == SnapInit => SnapInv
  <1> SUFFICES ASSUME SnapInit PROVE SnapInv
    OBVIOUS
  <1>1. db = NoRows /\ view = NoRows /\ DOMAIN << >> = {}
    BY DEF SnapInit
  <1>2. /\ NoRows.candidates = << >> /\ NoRows.manifests = {} /\ NoRows.artifacts = << >>
        /\ NoRows.materials = {} /\ NoRows.validations = 0
    BY DEF NoRows
  <1>3. \E c, m, a, t, v : NoRows = [candidates |-> c, manifests |-> m, artifacts |-> a, materials |-> t, validations |-> v]
    BY DEF NoRows
  <1>4. RowsInv
    <2>1. GoodRows(NoRows)
      <3>1. DOMAIN NoRows.artifacts = {} /\ DOMAIN NoRows.candidates = {} /\ NoRows.validations \in Nat
        BY <1>1, <1>2
      <3> QED BY ONLY <1>3, <3>1 DEF GoodRows
    <2>2. Grown(NoRows, NoRows)
      BY <2>1, GrownOrder
    <2> QED BY <1>1, <2>1, <2>2 DEF RowsInv
  <1>5. \A c : Attempts(db, c) = 0 /\ Attempts(view, c) = 0
    BY <1>1, <1>2 DEF Attempts
  <1>6. issued \in [Candidates -> Nat] /\ failed = 0 /\ \A c \in Candidates : issued[c] = 0
    BY DEF SnapInit
  <1>7. Lost = {}
    <2> SUFFICES ASSUME NEW u \in Candidates \X (1..MaxWrites), u[2] <= issued[u[1]] PROVE FALSE
      BY DEF Lost
    <2>1. u[1] \in Candidates /\ u[2] \in Nat /\ u[2] >= 1
      BY SnapshotsAssumption
    <2> QED BY <1>6, <2>1
  <1>8. IsFiniteSet(Lost) /\ Cardinality(Lost) = 0
    BY ONLY <1>7, FS_EmptySet
  <1>9. CountsInv
    BY <1>5, <1>6, <1>8 DEF CountsInv
  <1>10. IndexInv
    BY <1>1 DEF SnapInit, IndexInv
  <1>11. RegistryInv
    BY <1>1, <1>2 DEF SnapInit, RegistryInv, RegistryMatchesStore
  <1> QED BY <1>4, <1>9, <1>10, <1>11 DEF SnapInv

\* Every step of the pipeline keeps the account and takes nothing from the store.
LEMMA SnapStep == SnapInv /\ [SnapNext]_snapVars => SnapInv' /\ Grown(db, db')
  <1> SUFFICES ASSUME SnapInv, [SnapNext]_snapVars PROVE SnapInv' /\ Grown(db, db')
    OBVIOUS
  <1>a. RowsInv /\ IndexInv /\ CountsInv /\ RegistryInv /\ Grown(db, db) /\ failed \in Nat
    BY GrownOrder DEF SnapInv, RowsInv, CountsInv
  \* Steps that write nothing.
  <1>b. ASSUME UNCHANGED <<db, view>> PROVE RowsInv' /\ Grown(db, db')
    BY <1>a, <1>b DEF RowsInv, GoodRows, Grown
  <1>c. ASSUME UNCHANGED <<db, view, issued, failed>> PROVE Quiet
    BY <1>a, <1>c DEF Quiet
  \* Steps that write other rows than artifacts.
  <1>d. ASSUME NEW rows, Upserts(rows), rows.artifacts = view.artifacts, UNCHANGED issued
        PROVE  RowsInv' /\ Grown(db, db') /\ Quiet
    BY <1>a, <1>d, WriteStep, WriteIsQuiet DEF Upserts
  <1>e. ASSUME RowsInv', Grown(db, db'), Quiet, UNCHANGED <<registry, restarts, conn>>,
               stage # "artifact", stage' # "artifact", IndexInv'
        PROVE  SnapInv' /\ Grown(db, db')
    BY <1>a, <1>e, QuietStep, QuietRegistry DEF SnapInv
  <1>1. ASSUME NEW a \in Tokenized, NEW b \in Tokenized, SelectCandidate(a, b) PROVE SnapInv' /\ Grown(db, db')
    <2>1. /\ UNCHANGED <<db, view, issued, failed, registry, restarts, conn, stage, hand>> /\ stage = "evaluate"
          /\ Selected(a, b) /\ seen' = Bump(seen, Candidate(a, b), 1)
      BY <1>1 DEF SelectCandidate, Idle, pipeline
    <2>2. Candidate(a, b) \in Candidates
      <3>1. <<a, b>> \in Tokenized \X Tokenized /\ <<a, b>>[1] = a /\ <<a, b>>[2] = b
        OBVIOUS
      <3> QED BY <2>1, <3>1 DEF Candidates
    <2>3. DOMAIN seen' = DOMAIN seen \cup {Candidate(a, b)}
      BY <2>1 DEF Bump
    <2>4. IndexInv'
      BY <1>a, <2>1, <2>2, <2>3 DEF IndexInv
    <2> QED BY <1>b, <1>c, <1>e, <2>1, <2>4
  <1>2. ASSUME Age \/ StartLoop \/ \E c \in DOMAIN seen : StartHarness(c) PROVE SnapInv' /\ Grown(db, db')
    <2>1. UNCHANGED <<seen, db, view, issued, failed, registry, restarts, conn, stage, hand>> /\ stage = "evaluate"
      BY <1>2 DEF Age, StartLoop, StartHarness, Idle, pipeline
    <2>2. IndexInv'
      BY <1>a, <2>1 DEF IndexInv
    <2> QED BY <1>b, <1>c, <1>e, <2>1, <2>2
  <1>3. ASSUME NEW c \in DOMAIN seen, Evaluate(c) PROVE SnapInv' /\ Grown(db, db')
    <2>1. /\ UNCHANGED <<seen, issued, registry, restarts, conn>> /\ stage = "evaluate"
          /\ stage' \in {"manifest", "evaluate"} /\ (stage' = "manifest" => hand' = c)
      BY <1>3 DEF Evaluate
    <2>2. IndexInv'
      BY <1>a, <2>1 DEF IndexInv
    <2>3. RowsInv' /\ Grown(db, db') /\ Quiet
      <3>1. CASE full
        <4>1. UpsertCandidate(c)
          BY <1>3, <3>1 DEF Evaluate
        <4>2. PICK rows : Upserts(rows) /\ rows.artifacts = view.artifacts
          BY <1>a, <4>1, UpsertFacts
        <4> QED BY <1>d, <2>1, <4>2
      <3>2. CASE ~full
        <4>1. UNCHANGED <<db, view, failed>>
          BY <1>3, <3>2 DEF Evaluate
        <4> QED BY <1>b, <1>c, <2>1, <4>1
      <3> QED BY <3>1, <3>2
    <2> QED BY <1>e, <2>1, <2>2, <2>3
  <1>4. ASSUME BuildManifest PROVE SnapInv' /\ Grown(db, db')
    <2>1. /\ UNCHANGED <<seen, issued, registry, restarts, conn, hand>> /\ stage = "manifest"
          /\ stage' = "register" /\ UpsertManifest(hand)
      BY <1>4 DEF BuildManifest, Goto
    <2>2. IndexInv'
      BY <1>a, <2>1 DEF IndexInv
    <2>3. PICK rows : Upserts(rows) /\ rows.artifacts = view.artifacts
      BY <1>a, <2>1, UpsertFacts
    <2> QED BY <1>d, <1>e, <2>1, <2>2, <2>3
  <1>5. ASSUME RegisterArtifact PROVE SnapInv' /\ Grown(db, db')
    <2>1. /\ UNCHANGED <<seen, db, view, issued, failed, restarts, conn, hand>> /\ stage = "register"
          /\ stage' = "artifact" /\ registry' = Bump(registry, hand, 0)
      BY <1>5 DEF RegisterArtifact, Registered, Goto
    <2>2. IndexInv'
      BY <1>a, <2>1 DEF IndexInv
    <2>3. CountsInv'
      BY <1>a, <1>c, <2>1, QuietStep
    <2>4. /\ DOMAIN registry' = DOMAIN registry \cup {hand}
          /\ \A c \in DOMAIN registry' :
               registry'[c] = IF c # hand THEN registry[c] ELSE IF hand \in DOMAIN registry THEN registry[hand] + 1 ELSE 0
      BY <2>1 DEF Bump
    <2>5. \A c \in DOMAIN registry' : registry'[c] \in Nat
      BY <1>a, <2>4 DEF RegistryInv
    <2>6. RegistryMatchesStore'
      <3> SUFFICES ASSUME conn', failed' = 0, restarts' = 0, NEW c \in DOMAIN registry'
                   PROVE  Attempts(db, c)' = registry'[c] + (IF stage' = "artifact" /\ hand' = c THEN 0 ELSE 1)
        BY DEF RegistryMatchesStore
      <3>1. /\ c \in DOMAIN registry => Attempts(db, c) = registry[c] + 1 /\ registry[c] \in Nat
            /\ c \notin DOMAIN registry => Attempts(db, c) = 0
        BY <1>a, <2>1 DEF RegistryInv, RegistryMatchesStore, Attempts
      <3>2. Attempts(db, c)' = Attempts(db, c)
        BY <2>1 DEF Attempts
      <3> QED BY <2>1, <2>4, <2>5, <3>1, <3>2
    <2>7. RegistryInv'
      BY <1>a, <2>1, <2>4, <2>5, <2>6 DEF RegistryInv
    <2> QED BY <1>b, <2>1, <2>2, <2>3, <2>7 DEF SnapInv
  <1>6. ASSUME StoreArtifact PROVE SnapInv' /\ Grown(db, db')
    <2>1. /\ UNCHANGED <<seen, registry, restarts, conn>> /\ stage = "artifact" /\ issued[hand] < MaxWrites
          /\ UpsertArtifact(hand) /\ stage' \in {"material", "evaluate"} /\ (stage' = "material" => hand' = hand)
          /\ issued' = IF conn THEN [issued EXCEPT ![hand] = @ + 1] ELSE issued
      BY <1>6 DEF StoreArtifact, Goto
    <2>2. hand \in Candidates /\ hand \in DOMAIN registry
      BY <1>a, <2>1 DEF IndexInv, RegistryInv
    <2>3. IndexInv'
      BY <1>a, <2>1, <2>2 DEF IndexInv
    <2>4. PICK rows : Upserts(rows) /\ rows.artifacts = Bump(view.artifacts, hand, 0)
      BY <1>a, <2>1, UpsertFacts
    <2>5. RowsInv' /\ Grown(db, db')
      BY <1>a, <2>4, WriteStep DEF Upserts
    <2>6. CountsInv'
      BY <1>a, <2>1, <2>2, <2>4, ArtifactStep DEF Upserts
    <2>7. conn' /\ failed' = 0 /\ restarts' = 0 =>
            conn /\ failed = 0 /\ restarts = 0 /\ view.artifacts = db.artifacts /\ db' = rows /\ view' = rows
      BY <1>a, <2>1, <2>4 DEF Upserts, Write, RegistryInv
    <2>8. \A c : Tries(rows.artifacts, c) = IF c = hand THEN Tries(view.artifacts, hand) + 1 ELSE Tries(view.artifacts, c)
      <3>1. /\ DOMAIN rows.artifacts = DOMAIN view.artifacts \cup {hand}
            /\ \A c \in DOMAIN rows.artifacts :
                 rows.artifacts[c] = IF c # hand THEN view.artifacts[c]
                                     ELSE IF hand \in DOMAIN view.artifacts THEN view.artifacts[hand] + 1 ELSE 0
        BY <2>4 DEF Bump
      <3> QED BY <3>1 DEF Tries
    <2>9. RegistryMatchesStore'
      <3> SUFFICES ASSUME conn', failed' = 0, restarts' = 0, NEW c \in DOMAIN registry'
                   PROVE  Attempts(db', c) = registry'[c] + 1
        BY <2>1 DEF RegistryMatchesStore, Attempts
      <3>1. /\ Attempts(db, c) = registry[c] + (IF c = hand THEN 0 ELSE 1) /\ registry[c] \in Nat
        BY <1>a, <2>1, <2>7 DEF RegistryInv, RegistryMatchesStore
      <3>2. Attempts(db', c) = Tries(rows.artifacts, c) /\ Attempts(db, c) = Tries(view.artifacts, c)
        BY <2>7, TriesFacts
      <3> QED BY <2>1, <2>8, <3>1, <3>2
    <2>10. conn' /\ failed' = 0 /\ restarts' = 0 =>
             /\ view'.artifacts = db'.artifacts
             /\ \A c : c \notin DOMAIN registry' => c \notin DOMAIN db'.artifacts
      <3> SUFFICES ASSUME conn', failed' = 0, restarts' = 0
                   PROVE  \A c : c \notin DOMAIN registry' => c \notin DOMAIN rows.artifacts
        BY <2>7
      <3>1. DOMAIN rows.artifacts = DOMAIN view.artifacts \cup {hand}
        BY <2>4 DEF Bump
      <3> QED BY <1>a, <2>1, <2>2, <2>7, <3>1 DEF RegistryInv
    <2>11. RegistryInv'
      BY <1>a, <2>1, <2>9, <2>10 DEF RegistryInv
    <2> QED BY <2>3, <2>5, <2>6, <2>11 DEF SnapInv
  <1>7. ASSUME DeclareMaterial PROVE SnapInv' /\ Grown(db, db')
    <2>1. /\ UNCHANGED <<seen, issued, registry, restarts, conn, hand>> /\ stage = "material"
          /\ stage' = "validation" /\ UpsertMaterial(hand)
      BY <1>7 DEF DeclareMaterial, Goto
    <2>2. IndexInv'
      BY <1>a, <2>1 DEF IndexInv
    <2>3. PICK rows : Upserts(rows) /\ rows.artifacts = view.artifacts
      BY <1>a, <2>1, UpsertFacts
    <2> QED BY <1>d, <1>e, <2>1, <2>2, <2>3
  <1>8. ASSUME Validate PROVE SnapInv' /\ Grown(db, db')
    <2>1. /\ UNCHANGED <<seen, issued, registry, restarts, conn>> /\ stage = "validation"
          /\ stage' = "evaluate" /\ RecordValidation
      BY <1>8 DEF Validate, Goto
    <2>2. IndexInv'
      BY <1>a, <2>1 DEF IndexInv
    <2>3. PICK rows : Upserts(rows) /\ rows.artifacts = view.artifacts
      BY <1>a, <2>1, UpsertFacts
    <2> QED BY <1>d, <1>e, <2>1, <2>2, <2>3
  <1>9. ASSUME Restart PROVE SnapInv' /\ Grown(db, db')
    <2>1. /\ seen' = << >> /\ stage' = "evaluate" /\ registry' = << >> /\ view' = db
          /\ restarts' = restarts + 1 /\ UNCHANGED <<db, issued, failed>> /\ DOMAIN << >> = {}
      BY <1>9 DEF Restart
    <2>2. IndexInv'
      BY <2>1 DEF IndexInv
    <2>3. Quiet
      BY <1>a, <2>1 DEF Quiet
    <2>4. CountsInv'
      BY <1>a, <2>3, QuietStep
    <2>5. RowsInv' /\ Grown(db, db')
      BY <1>a, <2>1 DEF RowsInv, GoodRows, Grown
    <2>6. restarts' \in Nat /\ restarts' # 0
      BY <1>a, <2>1 DEF RegistryInv
    <2>7. RegistryInv'
      BY <2>1, <2>6 DEF RegistryInv, RegistryMatchesStore
    <2> QED BY <2>2, <2>4, <2>5, <2>7 DEF SnapInv
  <1>10. ASSUME UNCHANGED snapVars PROVE SnapInv' /\ Grown(db, db')
    <2>1. UNCHANGED <<seen, stage, hand, registry, db, view, conn, issued, failed, restarts>>
      BY <1>10 DEF snapVars
    <2>2. CountsInv'
      BY <1>a, <1>c, <2>1, QuietStep
    <2>3. IndexInv' /\ RegistryInv'
      BY <1>a, <2>1 DEF IndexInv, RegistryInv, RegistryMatchesStore, Attempts
    <2> QED BY <1>b, <2>1, <2>2, <2>3 DEF SnapInv
  <1> QED BY <1>1, <1>2, <1>3, <1>4, <1>5, <1>6, <1>7, <1>8, <1>9, <1>10 DEF SnapNext

\* Every attempt to build a snapshot is accounted for, through every failed write
\* and crash: stored, or among the reported errors, and never stored more often
\* than it was made (storage.py, upsert_snapshot_artifact; artifacts.py,
\* register_artifact).
THEOREM AttemptsStayAccountedFor == SnapSpec => []AttemptsAccountedFor
  <1>1. SnapInv => AttemptsAccountedFor
    BY DEF SnapInv, CountsInv, RegistryInv, AttemptsAccountedFor, NothingLostSilently
  <1> QED BY <1>1, SnapInitially, SnapStep, PTL DEF SnapSpec

\* No step, failure, rollback or restart takes a stored row away or lowers a stored
\* count (storage.py).
THEOREM StoreNeverShrinks == SnapSpec => StoredOnlyGrows
  <1>1. SnapInv /\ [SnapNext]_snapVars =>
          /\ db.manifests \subseteq db'.manifests /\ db.materials \subseteq db'.materials
          /\ db.validations <= db'.validations
          /\ \A c \in Candidates : Attempts(db, c) <= Attempts(db', c)
          /\ \A p \in DOMAIN db.candidates :
               p \in DOMAIN db'.candidates /\ db.candidates[p].seen <= db'.candidates[p].seen
    <2> SUFFICES ASSUME SnapInv, SnapInv', Grown(db, db'), NEW c \in Candidates
                 PROVE  Attempts(db, c) <= Attempts(db', c)
      BY SnapStep DEF Grown
    <2>1. /\ c \in DOMAIN db.artifacts => c \in DOMAIN db'.artifacts /\ db.artifacts[c] <= db'.artifacts[c]
                                          /\ db.artifacts[c] \in Nat
          /\ c \in DOMAIN db'.artifacts => db'.artifacts[c] \in Nat
      BY DEF SnapInv, RowsInv, GoodRows, Grown
    <2> QED BY <2>1 DEF Attempts
  <1> QED BY <1>1, SnapInitially, SnapStep, PTL DEF SnapSpec, StoredOnlyGrows
================================================================================
