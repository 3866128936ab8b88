------------------------------ MODULE BrokerProofs ------------------------------
(***************************************************************************)
(* Theorems about Broker for every set of requests, lanes and limits.      *)
(***************************************************************************)
EXTENDS Broker, FiniteSetTheorems, SequenceTheorems, TLAPS

(***************************************************************************)
(* Facts about the operators                                               *)
(***************************************************************************)

\* The limit in force is at least one and never above the operator ceiling.
LEMMA LimitBounds ==
    ASSUME NEW p \in Nat, NEW q
    PROVE  /\ OperatorCeiling \in Nat \ {0}
           /\ EffectiveActiveLimit(p, q) \in 1..OperatorCeiling
  BY ControllerAssumption DEF EffectiveActiveLimit, OperatorCeiling, AtLeastOne, NoProfile

\* Removing a position moves the later ones up by one.
LEMMA RemoveAtPositions ==
    ASSUME NEW S, NEW q \in Seq(S), NEW i \in DOMAIN q
    PROVE  /\ RemoveAt(q, i) \in Seq(S) /\ Len(RemoveAt(q, i)) = Len(q) - 1
           /\ \A j \in 1..Len(RemoveAt(q, i)) :
                 RemoveAt(q, i)[j] = IF j < i THEN q[j] ELSE q[j + 1]
  <1> DEFINE p == RemoveAt(q, i)
  <1> DEFINE head == SubSeq(q, 1, i - 1)
             tail == SubSeq(q, i + 1, Len(q))
  <1>1. i \in 1..Len(q) /\ Len(q) \in Nat /\ \A j \in 1..Len(q) : q[j] \in S
    OBVIOUS
  <1>2. /\ head \in Seq(S) /\ Len(head) = i - 1
        /\ \A j \in 1..(i - 1) : head[j] = q[j]
    BY <1>1, SubSeqProperties
  <1>3. /\ tail \in Seq(S) /\ Len(tail) = Len(q) - i
        /\ \A j \in 1..(Len(q) - i) : tail[j] = q[i + j]
    <2>1. \A j \in (i + 1)..Len(q) : q[j] \in S
      BY <1>1
    <2>2. /\ tail \in Seq(S)
          /\ Len(tail) = IF i + 1 <= Len(q) THEN Len(q) - (i + 1) + 1 ELSE 0
          /\ \A j \in 1..(Len(q) - (i + 1) + 1) : tail[j] = q[(i + 1) + j - 1]
      BY <1>1, <2>1, SubSeqProperties
    <2> QED BY <1>1, <2>2
  <1>4. p = head \o tail
    BY DEF RemoveAt
  <1> HIDE DEF p, head, tail
  <1>5. /\ p \in Seq(S) /\ Len(p) = Len(head) + Len(tail)
        /\ \A j \in 1..(Len(head) + Len(tail)) :
              p[j] = IF j <= Len(head) THEN head[j] ELSE tail[j - Len(head)]
    <2>1. head \in Seq(S) /\ tail \in Seq(S)
      BY <1>2, <1>3
    <2>2. /\ head \o tail \in Seq(S)
          /\ Len(head \o tail) = Len(head) + Len(tail)
          /\ \A j \in 1..(Len(head) + Len(tail)) :
                (head \o tail)[j] = IF j <= Len(head) THEN head[j] ELSE tail[j - Len(head)]
      BY <2>1, ConcatProperties, Zenon
    <2> QED BY <1>4, <2>2, Zenon
  <1>6. p \in Seq(S) /\ Len(p) = Len(q) - 1
    BY <1>1, <1>2, <1>3, <1>5
  <1>7. \A j \in 1..Len(p) : p[j] = IF j < i THEN q[j] ELSE q[j + 1]
    <2> SUFFICES ASSUME NEW j \in 1..Len(p)
                 PROVE  p[j] = IF j < i THEN q[j] ELSE q[j + 1]
      OBVIOUS
    <2>1. CASE j < i
      BY SMTT(40), <1>1, <1>6, <1>2, <1>3, <1>5, <2>1
    <2>2. CASE ~(j < i)
      <3>1. j - (i - 1) \in 1..(Len(q) - i) /\ i + (j - (i - 1)) = j + 1
        BY <1>1, <1>6, <2>2
      <3>2. p[j] = tail[j - (i - 1)]
        BY SMTT(40), <1>1, <1>6, <1>2, <1>3, <1>5, <2>2
      <3> QED BY <1>3, <2>2, <3>1, <3>2
    <2> QED BY <2>1, <2>2
  <1> QED BY <1>6, <1>7 DEF p

\* Removing a position of a duplicate-free queue removes that entry only.
LEMMA RemoveAtFacts ==
    ASSUME NEW S, NEW q \in Seq(S), NEW i \in DOMAIN q, NoDuplicates(q)
    PROVE  /\ RemoveAt(q, i) \in Seq(S)
           /\ NoDuplicates(RemoveAt(q, i))
           /\ Entries(RemoveAt(q, i)) = Entries(q) \ {q[i]}
  <1> DEFINE p == RemoveAt(q, i)
  <1>1. i \in 1..Len(q) /\ Len(q) \in Nat /\ \A j \in 1..Len(q) : q[j] \in S
    OBVIOUS
  <1>6. p \in Seq(S) /\ Len(p) = Len(q) - 1
    BY RemoveAtPositions
  <1>7. \A j \in 1..Len(p) : p[j] = IF j < i THEN q[j] ELSE q[j + 1]
    BY RemoveAtPositions
  <1> HIDE DEF p
  <1>8. DOMAIN p = 1..Len(p) /\ DOMAIN q = 1..Len(q)
    BY <1>6
  <1>9. NoDuplicates(p)
    BY SMTT(40), <1>1, <1>6, <1>7, <1>8 DEF NoDuplicates
  <1>10. Entries(p) \subseteq Entries(q) \ {q[i]}
    BY SMTT(40), <1>1, <1>6, <1>7, <1>8 DEF Entries, NoDuplicates
  <1>11. Entries(q) \ {q[i]} \subseteq Entries(p)
    <2> SUFFICES ASSUME NEW j \in DOMAIN q, q[j] # q[i] PROVE q[j] \in Entries(p)
      BY DEF Entries
    <2>1. CASE j < i
      <3>1. j \in DOMAIN p /\ p[j] = q[j]
        BY <1>1, <1>6, <1>7, <1>8, <2>1
      <3> QED BY <3>1 DEF Entries
    <2>2. CASE j > i
      <3>1. j - 1 \in DOMAIN p /\ p[j - 1] = q[j]
        BY <1>1, <1>6, <1>7, <1>8, <2>2
      <3> QED BY <3>1 DEF Entries
    <2> QED BY <1>1, <1>8, <2>1, <2>2
  <1> QED BY <1>6, <1>9, <1>10, <1>11 DEF p

\* RequestQueue.remove takes out exactly the named entry, if it is there.
LEMMA WithoutFacts ==
    ASSUME NEW S, NEW q \in Seq(S), NEW r, NoDuplicates(q)
    PROVE  /\ Without(q, r) \in Seq(S)
           /\ NoDuplicates(Without(q, r))
           /\ Entries(Without(q, r)) = Entries(q) \ {r}
  <1>1. CASE r \in Entries(q)
    <2> DEFINE i == CHOOSE j \in DOMAIN q : q[j] = r
    <2>1. i \in DOMAIN q /\ q[i] = r
      BY <1>1 DEF Entries
    <2>2. Without(q, r) = RemoveAt(q, i)
      BY <1>1 DEF Without
    <2> HIDE DEF i
    <2> QED BY <2>1, <2>2, RemoveAtFacts
  <1>2. CASE r \notin Entries(q)
    BY <1>2 DEF Without
  <1> QED BY <1>1, <1>2

\* Removing entries keeps the order of the others.
LEMMA OrderSurvivesRemoval ==
    ASSUME NEW S, NEW q \in Seq(S), NEW i \in DOMAIN q,
           NEW a \in DOMAIN RemoveAt(q, i), NEW b \in DOMAIN RemoveAt(q, i), a < b
    PROVE  \E c, d \in DOMAIN q : c < d /\ q[c] = RemoveAt(q, i)[a] /\ q[d] = RemoveAt(q, i)[b]
  <1> DEFINE p == RemoveAt(q, i)
             c == IF a < i THEN a ELSE a + 1
             d == IF b < i THEN b ELSE b + 1
  <1>1. p \in Seq(S) /\ Len(p) = Len(q) - 1 /\ \A j \in 1..Len(p) : p[j] = IF j < i THEN q[j] ELSE q[j + 1]
    BY RemoveAtPositions
  <1> HIDE DEF p
  <1>2. a \in 1..Len(p) /\ b \in 1..Len(p) /\ i \in 1..Len(q) /\ Len(q) \in Nat
    BY <1>1 DEF p
  <1>3. c \in DOMAIN q /\ d \in DOMAIN q /\ c < d
    BY <1>1, <1>2
  <1>4. q[c] = p[a] /\ q[d] = p[b]
    BY <1>1, <1>2
  <1> HIDE DEF c, d
  <1> QED BY <1>3, <1>4 DEF p

\* A new request appended to the queue is in it once.
LEMMA AppendFacts ==
    ASSUME NEW S, NEW q \in Seq(S), NEW r \in S, NoDuplicates(q), r \notin Entries(q)
    PROVE  /\ Append(q, r) \in Seq(S)
           /\ NoDuplicates(Append(q, r))
           /\ Entries(Append(q, r)) = Entries(q) \cup {r}
  <1> DEFINE p == Append(q, r)
  <1>1. /\ p \in Seq(S) /\ Len(p) = Len(q) + 1 /\ p[Len(q) + 1] = r
        /\ \A j \in 1..Len(q) : p[j] = q[j]
    OBVIOUS
  <1>2. DOMAIN p = 1..Len(p) /\ DOMAIN q = 1..Len(q) /\ Len(q) \in Nat
    BY <1>1
  <1>3. NoDuplicates(p)
    BY <1>1, <1>2 DEF NoDuplicates, Entries
  <1>4. Entries(p) = Entries(q) \cup {r}
    <2>1. Entries(p) \subseteq Entries(q) \cup {r}
      BY <1>1, <1>2 DEF Entries
    <2>2. r \in Entries(p)
      BY <1>1, <1>2 DEF Entries
    <2>3. Entries(q) \subseteq Entries(p)
      BY <1>1, <1>2 DEF Entries
    <2> QED BY <2>1, <2>2, <2>3
  <1> QED BY <1>1, <1>3, <1>4

(***************************************************************************)
(* The inductive invariant                                                 *)
(*                                                                         *)
(* CapacityBound alone is not inductive: that a woken waiter takes no      *)
(* second slot rests on its reservation still being there, that a grant    *)
(* reserves for a waiting handler rests on the queue holding waiting       *)
(* handlers only, and that a record starting to run adds one job rests on  *)
(* records and reservations being disjoint.                                *)
(***************************************************************************)
HandlerInv ==
    \A r \in Req :
      /\ pc[r] = "idle" => status[r] = "none" /\ r \notin granted /\ r \notin token
      /\ pc[r] = "waiting" => status[r] = IF r \in token THEN "cancelled" ELSE "queued"
      /\ r \in reservations => pc[r] = "waiting" /\ r \in granted
      /\ (pc[r] = "waiting" /\ r \in granted /\ r \notin token) => r \in reservations

StateInv == TypeOK /\ QueueIntegrity /\ HandlerInv

\* Every step of the broker keeps the types.
LEMMA TypeStep ==
    ASSUME StateInv, [Next]_vars
    PROVE  TypeOK'
  <1> USE BrokerAssumption DEF StateInv
  <1>1. ASSUME NEW r \in Req, Refuse(r) PROVE TypeOK'
    BY <1>1 DEF TypeOK, PCs, Statuses, Counters, Refuse, Return
  <1>2. ASSUME NEW r \in Req, ChatRuns(r) PROVE TypeOK'
    BY <1>2 DEF TypeOK, PCs, Statuses, Counters, ChatRuns, StartNow, SetStatus, StartedStatus
  <1>3. ASSUME NEW r \in Req, ChatQueues(r) PROVE TypeOK'
    <2>1. queue' \in Seq(Req) /\ remaining' \in [Req -> 0..QueueTimeout]
      BY <1>3 DEF TypeOK, ChatQueues
    <2>2. pc' \in [Req -> PCs] /\ status' \in [Req -> Statuses]
      BY <1>3 DEF TypeOK, PCs, Statuses, ChatQueues, SetStatus
    <2>3. tally' \in [Counters -> Nat]
      BY SMTT(40), <1>3 DEF TypeOK, Counters, ChatQueues, Count
    <2> QED BY <1>3, <2>1, <2>2, <2>3 DEF TypeOK, ChatQueues
  <1>4. ASSUME NEW r \in Req, ChatOverloaded(r) PROVE TypeOK'
    BY <1>4 DEF TypeOK, PCs, Statuses, Counters, ChatOverloaded, Return
  <1>5. ASSUME NEW r \in Req, GenerateRuns(r) PROVE TypeOK'
    BY <1>5 DEF TypeOK, PCs, Statuses, Counters, GenerateRuns, StartNow, SetStatus, StartedStatus
  <1>6. ASSUME NEW r \in Req, GenerateOverloaded(r) PROVE TypeOK'
    BY <1>6 DEF TypeOK, PCs, Statuses, Counters, GenerateOverloaded, Return
  <1>7. ASSUME NEW r \in Req, WaiterCancelled(r) PROVE TypeOK'
    <2>1. Without(queue, r) \in Seq(Req)
      BY WithoutFacts DEF TypeOK, QueueIntegrity
    <2>2. queue' \in Seq(Req) /\ bypass' \in [Req -> Nat]
      BY <1>7, <2>1 DEF TypeOK, WaiterCancelled, LeaveQueue, SetStatus, Release, Return, Count
    <2>3. pc' \in [Req -> PCs] /\ status' \in [Req -> Statuses]
      BY <1>7 DEF TypeOK, WaiterCancelled, LeaveQueue, SetStatus, Release, Return, Count, PCs, Statuses
    <2>4. tally' \in [Counters -> Nat] /\ reservations' \in SUBSET Req /\ granted' \in SUBSET Req
      BY <1>7 DEF TypeOK, WaiterCancelled, LeaveQueue, SetStatus, Release, Return, Count, Counters
    <2> QED BY <1>7, <2>2, <2>3, <2>4 DEF TypeOK, WaiterCancelled
  <1>8. ASSUME NEW r \in Req, WaiterGranted(r) PROVE TypeOK'
    <2>1. pc' \in [Req -> PCs] /\ status' \in [Req -> Statuses]
      BY <1>8 DEF TypeOK, PCs, Statuses, WaiterGranted, Proceed, StartedStatus, SetStatus, Release, Count
    <2>2. tally' \in [Counters -> Nat] /\ reservations' \in SUBSET Req
      BY <1>8 DEF TypeOK, Counters, WaiterGranted, Proceed, StartedStatus, SetStatus, Release, Count
    <2> QED BY <1>8, <2>1, <2>2 DEF TypeOK, WaiterGranted, Proceed, StartedStatus, SetStatus, Release, Count
  <1>9. ASSUME NEW r \in Req, WaiterGrantExpired(r) PROVE TypeOK'
    <2>1. pc' \in [Req -> PCs] /\ status' \in [Req -> Statuses]
      BY <1>9 DEF TypeOK, PCs, Statuses, WaiterGrantExpired, SetStatus, Release, Return, Count
    <2>2. tally' \in [Counters -> Nat] /\ reservations' \in SUBSET Req
      BY <1>9 DEF TypeOK, Counters, WaiterGrantExpired, SetStatus, Release, Return, Count
    <2> QED BY <1>9, <2>1, <2>2 DEF TypeOK, WaiterGrantExpired, SetStatus, Release, Return, Count
  <1>10. ASSUME NEW r \in Req, FrontRuns(r) PROVE TypeOK'
    <2>1. Without(queue, r) \in Seq(Req)
      BY WithoutFacts DEF TypeOK, QueueIntegrity
    <2>2. queue' \in Seq(Req) /\ bypass' \in [Req -> Nat]
      BY <1>10, <2>1 DEF TypeOK, FrontRuns, LeaveQueue, Proceed, StartedStatus, SetStatus, Count, Looking
    <2>3. pc' \in [Req -> PCs] /\ status' \in [Req -> Statuses]
      BY <1>10 DEF TypeOK, FrontRuns, LeaveQueue, Proceed, StartedStatus, SetStatus, Count, Looking, PCs, Statuses
    <2>4. tally' \in [Counters -> Nat] /\ reservations' \in SUBSET Req /\ granted' \in SUBSET Req
      BY SMTT(40), <1>10 DEF TypeOK, FrontRuns, LeaveQueue, Proceed, StartedStatus, SetStatus, Count, Looking, Counters
    <2> QED BY <1>10, <2>2, <2>3, <2>4 DEF TypeOK, FrontRuns
  <1>11. ASSUME NEW r \in Req, FrontDefers(r) PROVE TypeOK'
    <2>1. PICK i \in Candidates \ {1} :
             GrantOther(i, {}) /\ queue' = RemoveAt(queue, i)
      BY <1>11 DEF FrontDefers
    <2>2. i \in DOMAIN queue /\ queue[i] \in Req
      BY <2>1 DEF Candidates, TypeOK
    <2>3. RemoveAt(queue, i) \in Seq(Req)
      BY <2>2, RemoveAtFacts DEF TypeOK, QueueIntegrity
    <2>4. bypass' \in [Req -> Nat]
      BY SMTT(40), <2>1 DEF TypeOK, GrantOther
    <2>5. reservations' \in SUBSET Req /\ granted' \in SUBSET Req
      BY <2>1, <2>2 DEF TypeOK, GrantOther
    <2> QED BY <1>11, <2>1, <2>3, <2>4, <2>5 DEF TypeOK, FrontDefers
  <1>12. ASSUME NEW r \in Req, FrontDefersAndExpires(r) PROVE TypeOK'
    <2>1. PICK i \in Candidates \ {1} :
             GrantOther(i, {r}) /\ queue' = Without(RemoveAt(queue, i), r)
      BY <1>12 DEF FrontDefersAndExpires
    <2>2. i \in DOMAIN queue /\ queue[i] \in Req
      BY <2>1 DEF Candidates, TypeOK
    <2>3. RemoveAt(queue, i) \in Seq(Req) /\ NoDuplicates(RemoveAt(queue, i))
      BY <2>2, RemoveAtFacts DEF TypeOK, QueueIntegrity
    <2>4. queue' \in Seq(Req)
      BY <2>1, <2>3, WithoutFacts
    <2>5. bypass' \in [Req -> Nat]
      BY SMTT(40), <2>1 DEF TypeOK, GrantOther
    <2>6. reservations' \in SUBSET Req /\ granted' \in SUBSET Req
      BY <2>1, <2>2 DEF TypeOK, GrantOther
    <2>7. pc' \in [Req -> PCs] /\ status' \in [Req -> Statuses] /\ tally' \in [Counters -> Nat]
      BY SMTT(40), <1>12 DEF TypeOK, PCs, Statuses, Counters, FrontDefersAndExpires, TimedOut,
                SetStatus, Return, Count
    <2> QED BY <1>12, <2>4, <2>5, <2>6, <2>7 DEF TypeOK, FrontDefersAndExpires
  <1>13. ASSUME NEW r \in Req, FrontExpires(r) PROVE TypeOK'
    <2>1. Without(queue, r) \in Seq(Req)
      BY WithoutFacts DEF TypeOK, QueueIntegrity
    <2>2. queue' \in Seq(Req) /\ bypass' \in [Req -> Nat]
      BY <1>13, <2>1 DEF TypeOK, FrontExpires, LeaveQueue, TimedOut, SetStatus, Return, Count, Release, Looking
    <2>3. pc' \in [Req -> PCs] /\ status' \in [Req -> Statuses]
      BY <1>13 DEF TypeOK, FrontExpires, LeaveQueue, TimedOut, SetStatus, Return, Count, Release, Looking, PCs, Statuses
    <2>4. tally' \in [Counters -> Nat] /\ reservations' \in SUBSET Req /\ granted' \in SUBSET Req
      BY SMTT(40), <1>13 DEF TypeOK, FrontExpires, LeaveQueue, TimedOut, SetStatus, Return, Count, Release, Looking, Counters
    <2> QED BY <1>13, <2>2, <2>3, <2>4 DEF TypeOK, FrontExpires
  <1>14. ASSUME NEW r \in Req, WaiterExpires(r) PROVE TypeOK'
    <2>1. Without(queue, r) \in Seq(Req)
      BY WithoutFacts DEF TypeOK, QueueIntegrity
    <2>2. queue' \in Seq(Req) /\ bypass' \in [Req -> Nat]
      BY <1>14, <2>1 DEF TypeOK, WaiterExpires, LeaveQueue, TimedOut, SetStatus, Return, Count, Release, Looking
    <2>3. pc' \in [Req -> PCs] /\ status' \in [Req -> Statuses]
      BY <1>14 DEF TypeOK, WaiterExpires, LeaveQueue, TimedOut, SetStatus, Return, Count, Release, Looking, PCs, Statuses
    <2>4. tally' \in [Counters -> Nat] /\ reservations' \in SUBSET Req /\ granted' \in SUBSET Req
      BY SMTT(40), <1>14 DEF TypeOK, WaiterExpires, LeaveQueue, TimedOut, SetStatus, Return, Count, Release, Looking, Counters
    <2> QED BY <1>14, <2>2, <2>3, <2>4 DEF TypeOK, WaiterExpires
  <1>15. ASSUME NEW r \in Req, AdapterReturns(r) PROVE TypeOK'
    BY <1>15 DEF TypeOK, PCs, Statuses, Counters, AdapterReturns, Executing, Complete, SetStatus, Release, Return
  <1>16. ASSUME NEW r \in Req, AdapterFails(r) PROVE TypeOK'
    BY <1>16 DEF TypeOK, PCs, Statuses, Counters, AdapterFails, Executing, Fail, SetStatus, Release, Return
  <1>17. ASSUME NEW r \in Req, FirstChunk(r) PROVE TypeOK'
    BY <1>17 DEF TypeOK, PCs, Statuses, Counters, FirstChunk, Executing
  <1>18. ASSUME NEW r \in Req, BodyNeverStarts(r) PROVE TypeOK'
    BY <1>18 DEF TypeOK, PCs, Statuses, Counters, BodyNeverStarts, Executing, Return
  <1>19. ASSUME NEW r \in Req, BodyFinishes(r) PROVE TypeOK'
    BY <1>19 DEF TypeOK, PCs, Statuses, Counters, BodyFinishes, Complete, SetStatus, Release, Return
  <1>20. ASSUME NEW r \in Req, BodyBreaks(r) PROVE TypeOK'
    BY <1>20 DEF TypeOK, PCs, Statuses, Counters, BodyBreaks, CancelRecord, SetStatus, Release, Return
  <1>21. ASSUME NEW r \in Req, CancelEndpoint(r) PROVE TypeOK'
    BY <1>21 DEF TypeOK, PCs, Statuses, Counters, CancelEndpoint, CancelRecord, SetStatus, Release, Terminal
  <1>22. ASSUME NEW r \in Req, ClientHangsUp(r) PROVE TypeOK'
    BY <1>22 DEF TypeOK, PCs, Statuses, Counters, ClientHangsUp
  <1>23. ASSUME NEW p \in Profiles \cup {NoProfile}, Recalibrate(p) PROVE TypeOK'
    BY <1>23 DEF TypeOK, PCs, Statuses, Counters, Recalibrate
  <1>24. CASE Tick
    <2>1. remaining' \in [Req -> 0..QueueTimeout]
      BY <1>24 DEF TypeOK, Tick
    <2> QED BY <1>24, <2>1 DEF TypeOK, Tick
  <1>25. CASE UNCHANGED vars
    BY <1>25 DEF TypeOK, PCs, Statuses, Counters, vars
  <1> QED
    BY <1>1, <1>2, <1>3, <1>4, <1>5, <1>6, <1>7, <1>8, <1>9, <1>10, <1>11, <1>12,
       <1>13, <1>14, <1>15, <1>16, <1>17, <1>18, <1>19, <1>20, <1>21, <1>22, <1>23, <1>24, <1>25
    DEF Next, Arrive, Poll, AdapterStep, AllAnswered

\* Every step keeps the deque and the waiting handlers in agreement.
LEMMA QueueStep ==
    ASSUME StateInv, [Next]_vars
    PROVE  QueueIntegrity'
  <1> USE BrokerAssumption DEF StateInv
  <1>1. ASSUME NEW r \in Req, Refuse(r) PROVE QueueIntegrity'
    BY <1>1 DEF TypeOK, QueueIntegrity, NoDuplicates, Entries, Refuse, Return, Idle
  <1>2. ASSUME NEW r \in Req, ChatRuns(r) PROVE QueueIntegrity'
    BY <1>2 DEF TypeOK, QueueIntegrity, NoDuplicates, Entries, ChatRuns, StartNow, SetStatus, StartedStatus, Idle
  <1>3. ASSUME NEW r \in Req, ChatQueues(r) PROVE QueueIntegrity'
    <2>1. r \notin Entries(queue) /\ r \notin granted
      BY <1>3 DEF QueueIntegrity, HandlerInv, ChatQueues, Idle
    <2>2. NoDuplicates(queue') /\ Entries(queue') = Entries(queue) \cup {r}
      BY <1>3, <2>1, AppendFacts DEF TypeOK, QueueIntegrity, ChatQueues
    <2>3. {s \in Req : pc'[s] = "waiting" /\ s \notin granted'}
            = {s \in Req : pc[s] = "waiting" /\ s \notin granted} \cup {r}
      BY <1>3, <2>1 DEF TypeOK, ChatQueues
    <2> QED BY <2>2, <2>3 DEF QueueIntegrity, NoDuplicates, Entries
  <1>4. ASSUME NEW r \in Req, ChatOverloaded(r) PROVE QueueIntegrity'
    BY <1>4 DEF TypeOK, QueueIntegrity, NoDuplicates, Entries, ChatOverloaded, Return, Idle
  <1>5. ASSUME NEW r \in Req, GenerateRuns(r) PROVE QueueIntegrity'
    BY <1>5 DEF TypeOK, QueueIntegrity, NoDuplicates, Entries, GenerateRuns, StartNow, SetStatus, StartedStatus, Idle
  <1>6. ASSUME NEW r \in Req, GenerateOverloaded(r) PROVE QueueIntegrity'
    BY <1>6 DEF TypeOK, QueueIntegrity, NoDuplicates, Entries, GenerateOverloaded, Return, Idle
  <1>7. ASSUME NEW r \in Req, WaiterCancelled(r) PROVE QueueIntegrity'
    <2>1. NoDuplicates(queue') /\ Entries(queue') = Entries(queue) \ {r}
      BY <1>7, WithoutFacts DEF TypeOK, QueueIntegrity, WaiterCancelled, LeaveQueue
    <2>2. {s \in Req : pc'[s] = "waiting" /\ s \notin granted'}
            = {s \in Req : pc[s] = "waiting" /\ s \notin granted} \ {r}
      BY <1>7 DEF TypeOK, WaiterCancelled, LeaveQueue, SetStatus, Release, Return, Count
    <2> QED BY <2>1, <2>2 DEF QueueIntegrity, NoDuplicates, Entries
  <1>8. ASSUME NEW r \in Req, WaiterGranted(r) PROVE QueueIntegrity'
    BY <1>8 DEF TypeOK, QueueIntegrity, NoDuplicates, Entries, WaiterGranted, Proceed, StartedStatus, SetStatus, Release, Count
  <1>9. ASSUME NEW r \in Req, WaiterGrantExpired(r) PROVE QueueIntegrity'
    BY <1>9 DEF TypeOK, QueueIntegrity, NoDuplicates, Entries, WaiterGrantExpired, SetStatus, Release, Return, Count
  <1>10. ASSUME NEW r \in Req, FrontRuns(r) PROVE QueueIntegrity'
    <2>1. NoDuplicates(queue') /\ Entries(queue') = Entries(queue) \ {r}
      BY <1>10, WithoutFacts DEF TypeOK, QueueIntegrity, FrontRuns, LeaveQueue
    <2>2. {s \in Req : pc'[s] = "waiting" /\ s \notin granted'}
            = {s \in Req : pc[s] = "waiting" /\ s \notin granted} \ {r}
      BY <1>10 DEF TypeOK, FrontRuns, LeaveQueue, Proceed, StartedStatus, SetStatus, Count, Looking
    <2> QED BY <2>1, <2>2 DEF QueueIntegrity, NoDuplicates, Entries
  <1>11. ASSUME NEW r \in Req, FrontDefers(r) PROVE QueueIntegrity'
    <2>1. PICK i \in Candidates \ {1} :
             GrantOther(i, {}) /\ queue' = RemoveAt(queue, i)
      BY <1>11 DEF FrontDefers
    <2>2. i \in DOMAIN queue /\ queue[i] \in Req
      BY <2>1 DEF Candidates, TypeOK
    <2>3. NoDuplicates(queue') /\ Entries(queue') = Entries(queue) \ {queue[i]}
      BY <2>1, <2>2, RemoveAtFacts DEF TypeOK, QueueIntegrity
    <2>4. {s \in Req : pc'[s] = "waiting" /\ s \notin granted'}
            = {s \in Req : pc[s] = "waiting" /\ s \notin granted} \ {queue[i]}
      BY <1>11, <2>1, <2>2 DEF FrontDefers, GrantOther
    <2> QED BY <2>3, <2>4 DEF QueueIntegrity, NoDuplicates, Entries
  <1>12. ASSUME NEW r \in Req, FrontDefersAndExpires(r) PROVE QueueIntegrity'
    <2>1. PICK i \in Candidates \ {1} :
             GrantOther(i, {r}) /\ queue' = Without(RemoveAt(queue, i), r)
      BY <1>12 DEF FrontDefersAndExpires
    <2>2. i \in DOMAIN queue /\ queue[i] \in Req
      BY <2>1 DEF Candidates, TypeOK
    <2>3. /\ RemoveAt(queue, i) \in Seq(Req) /\ NoDuplicates(RemoveAt(queue, i))
          /\ Entries(RemoveAt(queue, i)) = Entries(queue) \ {queue[i]}
      BY <2>2, RemoveAtFacts DEF TypeOK, QueueIntegrity
    <2>4. NoDuplicates(queue') /\ Entries(queue') = Entries(queue) \ {queue[i], r}
      BY <2>1, <2>3, WithoutFacts
    <2>5. {s \in Req : pc'[s] = "waiting" /\ s \notin granted'}
            = {s \in Req : pc[s] = "waiting" /\ s \notin granted} \ {queue[i], r}
      BY <1>12, <2>1, <2>2 DEF TypeOK, FrontDefersAndExpires, GrantOther, TimedOut, Return
    <2> QED BY <2>4, <2>5 DEF QueueIntegrity, NoDuplicates, Entries
  <1>13. ASSUME NEW r \in Req, FrontExpires(r) PROVE QueueIntegrity'
    <2>1. NoDuplicates(queue') /\ Entries(queue') = Entries(queue) \ {r}
      BY <1>13, WithoutFacts DEF TypeOK, QueueIntegrity, FrontExpires, LeaveQueue
    <2>2. {s \in Req : pc'[s] = "waiting" /\ s \notin granted'}
            = {s \in Req : pc[s] = "waiting" /\ s \notin granted} \ {r}
      BY <1>13 DEF TypeOK, FrontExpires, LeaveQueue, TimedOut, SetStatus, Return, Count, Release, Looking
    <2> QED BY <2>1, <2>2 DEF QueueIntegrity, NoDuplicates, Entries
  <1>14. ASSUME NEW r \in Req, WaiterExpires(r) PROVE QueueIntegrity'
    <2>1. NoDuplicates(queue') /\ Entries(queue') = Entries(queue) \ {r}
      BY <1>14, WithoutFacts DEF TypeOK, QueueIntegrity, WaiterExpires, LeaveQueue
    <2>2. {s \in Req : pc'[s] = "waiting" /\ s \notin granted'}
            = {s \in Req : pc[s] = "waiting" /\ s \notin granted} \ {r}
      BY <1>14 DEF TypeOK, WaiterExpires, LeaveQueue, TimedOut, SetStatus, Return, Count, Release, Looking
    <2> QED BY <2>1, <2>2 DEF QueueIntegrity, NoDuplicates, Entries
  <1>15. ASSUME NEW r \in Req, AdapterReturns(r) PROVE QueueIntegrity'
    BY <1>15 DEF TypeOK, QueueIntegrity, NoDuplicates, Entries, AdapterReturns, Executing, Complete, SetStatus, Release, Return
  <1>16. ASSUME NEW r \in Req, AdapterFails(r) PROVE QueueIntegrity'
    BY <1>16 DEF TypeOK, QueueIntegrity, NoDuplicates, Entries, AdapterFails, Executing, Fail, SetStatus, Release, Return
  <1>17. ASSUME NEW r \in Req, FirstChunk(r) PROVE QueueIntegrity'
    BY <1>17 DEF TypeOK, QueueIntegrity, NoDuplicates, Entries, FirstChunk, Executing
  <1>18. ASSUME NEW r \in Req, BodyNeverStarts(r) PROVE QueueIntegrity'
    BY <1>18 DEF TypeOK, QueueIntegrity, NoDuplicates, Entries, BodyNeverStarts, Executing, Return
  <1>19. ASSUME NEW r \in Req, BodyFinishes(r) PROVE QueueIntegrity'
    BY <1>19 DEF TypeOK, QueueIntegrity, NoDuplicates, Entries, BodyFinishes, Complete, SetStatus, Release, Return
  <1>20. ASSUME NEW r \in Req, BodyBreaks(r) PROVE QueueIntegrity'
    BY <1>20 DEF TypeOK, QueueIntegrity, NoDuplicates, Entries, BodyBreaks, CancelRecord, SetStatus, Release, Return
  <1>21. ASSUME NEW r \in Req, CancelEndpoint(r) PROVE QueueIntegrity'
    BY <1>21 DEF TypeOK, QueueIntegrity, NoDuplicates, Entries, CancelEndpoint, CancelRecord, SetStatus, Release, Terminal
  <1>22. ASSUME NEW r \in Req, ClientHangsUp(r) PROVE QueueIntegrity'
    BY <1>22 DEF TypeOK, QueueIntegrity, NoDuplicates, Entries, ClientHangsUp
  <1>23. ASSUME NEW p \in Profiles \cup {NoProfile}, Recalibrate(p) PROVE QueueIntegrity'
    BY <1>23 DEF TypeOK, QueueIntegrity, NoDuplicates, Entries, Recalibrate
  <1>24. CASE Tick
    BY <1>24 DEF TypeOK, QueueIntegrity, NoDuplicates, Entries, Tick
  <1>25. CASE UNCHANGED vars
    BY <1>25 DEF TypeOK, QueueIntegrity, NoDuplicates, Entries, vars
  <1> QED
    BY <1>1, <1>2, <1>3, <1>4, <1>5, <1>6, <1>7, <1>8, <1>9, <1>10, <1>11, <1>12,
       <1>13, <1>14, <1>15, <1>16, <1>17, <1>18, <1>19, <1>20, <1>21, <1>22, <1>23, <1>24, <1>25
    DEF Next, Arrive, Poll, AdapterStep, AllAnswered

\* Every step keeps records, tokens, grants and reservations in agreement.
LEMMA HandlerStep ==
    ASSUME StateInv, [Next]_vars
    PROVE  HandlerInv'
  <1> USE BrokerAssumption DEF StateInv
  <1>1. ASSUME NEW r \in Req, Refuse(r) PROVE HandlerInv'
    BY <1>1 DEF TypeOK, HandlerInv, Refuse, Return, Idle
  <1>2. ASSUME NEW r \in Req, ChatRuns(r) PROVE HandlerInv'
    BY <1>2 DEF TypeOK, HandlerInv, ChatRuns, StartNow, SetStatus, StartedStatus, Idle
  <1>3. ASSUME NEW r \in Req, ChatQueues(r) PROVE HandlerInv'
    BY <1>3 DEF TypeOK, HandlerInv, ChatQueues, SetStatus, Idle
  <1>4. ASSUME NEW r \in Req, ChatOverloaded(r) PROVE HandlerInv'
    BY <1>4 DEF TypeOK, HandlerInv, ChatOverloaded, Return, Idle
  <1>5. ASSUME NEW r \in Req, GenerateRuns(r) PROVE HandlerInv'
    BY <1>5 DEF TypeOK, HandlerInv, GenerateRuns, StartNow, SetStatus, StartedStatus, Idle
  <1>6. ASSUME NEW r \in Req, GenerateOverloaded(r) PROVE HandlerInv'
    BY <1>6 DEF TypeOK, HandlerInv, GenerateOverloaded, Return, Idle
  <1>7. ASSUME NEW r \in Req, WaiterCancelled(r) PROVE HandlerInv'
    BY <1>7 DEF TypeOK, HandlerInv, WaiterCancelled, SetStatus, Release, Return
  <1>8. ASSUME NEW r \in Req, WaiterGranted(r) PROVE HandlerInv'
    BY <1>8 DEF TypeOK, HandlerInv, WaiterGranted, Proceed, StartedStatus, SetStatus, Release
  <1>9. ASSUME NEW r \in Req, WaiterGrantExpired(r) PROVE HandlerInv'
    BY <1>9 DEF TypeOK, HandlerInv, WaiterGrantExpired, SetStatus, Release, Return
  <1>10. ASSUME NEW r \in Req, FrontRuns(r) PROVE HandlerInv'
    BY <1>10 DEF TypeOK, HandlerInv, FrontRuns, Proceed, StartedStatus, SetStatus, Looking
  <1>11. ASSUME NEW r \in Req, FrontDefers(r) PROVE HandlerInv'
    <2>1. PICK i \in Candidates \ {1} : GrantOther(i, {})
      BY <1>11 DEF FrontDefers
    <2>2. /\ queue[i] \in Req /\ pc[queue[i]] = "waiting" /\ queue[i] \notin granted
          /\ reservations' = reservations \cup {queue[i]}
          /\ granted' = granted \cup {queue[i]}
      BY <2>1 DEF Candidates, TypeOK, QueueIntegrity, Entries, GrantOther
    <2> QED BY <1>11, <2>2 DEF TypeOK, HandlerInv, FrontDefers
  <1>12. ASSUME NEW r \in Req, FrontDefersAndExpires(r) PROVE HandlerInv'
    <2>1. PICK i \in Candidates \ {1} : GrantOther(i, {r})
      BY <1>12 DEF FrontDefersAndExpires
    <2>2. /\ queue[i] \in Req /\ pc[queue[i]] = "waiting" /\ queue[i] \notin granted
          /\ reservations' = reservations \cup {queue[i]}
          /\ granted' = granted \cup {queue[i]}
      BY <2>1 DEF Candidates, TypeOK, QueueIntegrity, Entries, GrantOther
    <2>3. queue[i] # r
      BY <1>12, <2>1 DEF FrontDefersAndExpires, Candidates
    <2> QED BY ZenonT(60), <1>12, <2>2, <2>3 DEF TypeOK, HandlerInv, FrontDefersAndExpires, TimedOut,
            SetStatus, Return, Looking
  <1>13. ASSUME NEW r \in Req, FrontExpires(r) PROVE HandlerInv'
    BY <1>13 DEF TypeOK, HandlerInv, FrontExpires, TimedOut, SetStatus, Return, Release, Looking
  <1>14. ASSUME NEW r \in Req, WaiterExpires(r) PROVE HandlerInv'
    BY <1>14 DEF TypeOK, HandlerInv, WaiterExpires, TimedOut, SetStatus, Return, Release, Looking
  <1>15. ASSUME NEW r \in Req, AdapterReturns(r) PROVE HandlerInv'
    BY <1>15 DEF TypeOK, HandlerInv, AdapterReturns, Executing, Complete, SetStatus, Release, Return
  <1>16. ASSUME NEW r \in Req, AdapterFails(r) PROVE HandlerInv'
    BY <1>16 DEF TypeOK, HandlerInv, AdapterFails, Executing, Fail, SetStatus, Release, Return
  <1>17. ASSUME NEW r \in Req, FirstChunk(r) PROVE HandlerInv'
    BY <1>17 DEF TypeOK, HandlerInv, FirstChunk, Executing
  <1>18. ASSUME NEW r \in Req, BodyNeverStarts(r) PROVE HandlerInv'
    BY <1>18 DEF TypeOK, HandlerInv, BodyNeverStarts, Executing, Return
  <1>19. ASSUME NEW r \in Req, BodyFinishes(r) PROVE HandlerInv'
    BY <1>19 DEF TypeOK, HandlerInv, BodyFinishes, Complete, SetStatus, Release, Return
  <1>20. ASSUME NEW r \in Req, BodyBreaks(r) PROVE HandlerInv'
    BY <1>20 DEF TypeOK, HandlerInv, BodyBreaks, CancelRecord, SetStatus, Release, Return
  <1>21. ASSUME NEW r \in Req, CancelEndpoint(r) PROVE HandlerInv'
    BY <1>21 DEF TypeOK, HandlerInv, CancelEndpoint, CancelRecord, SetStatus, Release, Terminal
  <1>22. ASSUME NEW r \in Req, ClientHangsUp(r) PROVE HandlerInv'
    BY <1>22 DEF TypeOK, HandlerInv, ClientHangsUp
  <1>23. ASSUME NEW p \in Profiles \cup {NoProfile}, Recalibrate(p) PROVE HandlerInv'
    BY <1>23 DEF TypeOK, HandlerInv, Recalibrate
  <1>24. CASE Tick
    BY <1>24 DEF TypeOK, HandlerInv, Tick
  <1>25. CASE UNCHANGED vars
    BY <1>25 DEF TypeOK, HandlerInv, vars
  <1> QED
    BY <1>1, <1>2, <1>3, <1>4, <1>5, <1>6, <1>7, <1>8, <1>9, <1>10, <1>11, <1>12,
       <1>13, <1>14, <1>15, <1>16, <1>17, <1>18, <1>19, <1>20, <1>21, <1>22, <1>23, <1>24, <1>25
    DEF Next, Arrive, Poll, AdapterStep, AllAnswered

\* The empty broker satisfies the invariant.
LEMMA StateInit == Init => StateInv
  <1> SUFFICES ASSUME Init PROVE StateInv
    OBVIOUS
  <1>1. TypeOK
    BY BrokerAssumption DEF Init, TypeOK, PCs, Statuses, Counters
  <1>2. QueueIntegrity
    BY DEF Init, QueueIntegrity, NoDuplicates, Entries
  <1>3. HandlerInv
    BY DEF Init, HandlerInv
  <1> QED BY <1>1, <1>2, <1>3 DEF StateInv

\* The inductive invariant holds in every reachable state.
THEOREM StateInvariant == Spec => []StateInv
  <1>1. StateInv /\ [Next]_vars => StateInv'
    BY TypeStep, QueueStep, HandlerStep DEF StateInv
  <1> QED BY <1>1, StateInit, PTL DEF Spec

\* Every state the broker reaches is well typed: in particular the deadline of an
\* entry stays within the queue timeout and no counter goes below zero.
THEOREM TypeCorrect == Spec => []TypeOK
  <1>1. StateInv => TypeOK
    BY DEF StateInv
  <1> QED BY <1>1, StateInvariant, PTL

\* The deque holds each waiting, ungranted handler exactly once and nothing else,
\* whatever is cancelled, granted or timed out in whatever order.
THEOREM QueueIsIntact == Spec => []QueueIntegrity
  <1>1. StateInv => QueueIntegrity
    BY DEF StateInv
  <1> QED BY <1>1, StateInvariant, PTL

(***************************************************************************)
(* Execution slots: the capacity and lane bounds, and who may take a slot. *)
(***************************************************************************)
\* The holders of a slot: an active record, or a reservation made by a grant.
Slots == ActiveRecords \cup reservations

\* Records and reservations never count a request twice, so active_jobs and its
\* per-lane form count the holders of slots.
LEMMA SlotCount ==
    StateInv => /\ IsFiniteSet(Slots)
                /\ ActiveJobs = Cardinality(Slots)
                /\ \A l \in Lanes : ActiveJobsForLane(l) = Cardinality(InLane(Slots, l))
  <1> SUFFICES ASSUME StateInv
               PROVE  /\ IsFiniteSet(Slots)
                      /\ ActiveJobs = Cardinality(Slots)
                      /\ \A l \in Lanes : ActiveJobsForLane(l) = Cardinality(InLane(Slots, l))
    OBVIOUS
  <1>1. ActiveRecords \subseteq Req /\ reservations \subseteq Req
    BY DEF StateInv, TypeOK, ActiveRecords
  <1>2. ActiveRecords \cap reservations = {}
    BY <1>1 DEF StateInv, HandlerInv, ActiveRecords
  <1>3. ASSUME NEW A, NEW B, A \subseteq Req, B \subseteq Req, A \cap B = {}
        PROVE  /\ IsFiniteSet(A \cup B)
               /\ Cardinality(A \cup B) = Cardinality(A) + Cardinality(B)
    <2>1. IsFiniteSet(A) /\ IsFiniteSet(B)
      BY <1>3, BrokerAssumption, FS_Subset
    <2>2. Cardinality(A) \in Nat /\ Cardinality(B) \in Nat
      BY <2>1, FS_CardinalityType
    <2>3. /\ IsFiniteSet(A \cup B)
          /\ Cardinality(A \cup B) = Cardinality(A) + Cardinality(B) - Cardinality(A \cap B)
      BY <2>1, FS_Union
    <2>4. Cardinality(A \cap B) = 0
      BY <1>3, FS_EmptySet
    <2> QED BY <2>2, <2>3, <2>4
  <1>4. IsFiniteSet(Slots) /\ ActiveJobs = Cardinality(Slots)
    BY <1>1, <1>2, <1>3 DEF Slots, ActiveJobs
  <1>5. ASSUME NEW l \in Lanes
        PROVE  ActiveJobsForLane(l) = Cardinality(InLane(Slots, l))
    <2>1. InLane(Slots, l) = InLane(ActiveRecords, l) \cup InLane(reservations, l)
      BY DEF InLane, Slots
    <2>2. /\ InLane(ActiveRecords, l) \subseteq Req /\ InLane(reservations, l) \subseteq Req
          /\ InLane(ActiveRecords, l) \cap InLane(reservations, l) = {}
      BY <1>1, <1>2 DEF InLane
    <2> QED BY <1>3, <2>1, <2>2 DEF ActiveJobsForLane
  <1> QED BY <1>4, <1>5

\* The controller answers RUN only when the limit in force and the lane of the
\* request have room.
LEMMA RunMeansRoom ==
    ASSUME NEW r \in Req, Verdict(r) = "RUN"
    PROVE  EntryEligible(r)
  BY DEF Verdict, Evaluate, CapacityContext, GlobalAvailable, LaneAvailable,
         EntryEligible, CapacityAvailable, LaneHasRoom, Limit

\* A step that takes a slot takes one, for a request with room.
SlotsGrowByOne ==
    \/ Slots' \subseteq Slots
    \/ \E x \in Req : EntryEligible(x) /\ Slots' \subseteq Slots \cup {x}

\* Every step of the broker takes at most one slot, for a request with room.
LEMMA SlotStep ==
    ASSUME StateInv, [Next]_vars
    PROVE  SlotsGrowByOne
  <1> USE BrokerAssumption DEF StateInv
  <1>1. ASSUME NEW r \in Req, Refuse(r) PROVE SlotsGrowByOne
    BY <1>1 DEF TypeOK, SlotsGrowByOne, Slots, ActiveRecords, Refuse, Return
  <1>2. ASSUME NEW r \in Req, ChatRuns(r) PROVE SlotsGrowByOne
    <2>1. EntryEligible(r)
      BY <1>2, RunMeansRoom DEF ChatRuns
    <2>2. Slots' \subseteq Slots \cup {r}
      BY <1>2 DEF TypeOK, Slots, ActiveRecords, ChatRuns, StartNow, SetStatus, StartedStatus
    <2> QED BY <2>1, <2>2 DEF SlotsGrowByOne
  <1>3. ASSUME NEW r \in Req, ChatQueues(r) PROVE SlotsGrowByOne
    BY <1>3 DEF TypeOK, SlotsGrowByOne, Slots, ActiveRecords, ChatQueues, SetStatus
  <1>4. ASSUME NEW r \in Req, ChatOverloaded(r) PROVE SlotsGrowByOne
    BY <1>4 DEF TypeOK, SlotsGrowByOne, Slots, ActiveRecords, ChatOverloaded, Return
  <1>5. ASSUME NEW r \in Req, GenerateRuns(r) PROVE SlotsGrowByOne
    <2>1. EntryEligible(r)
      BY <1>5 DEF GenerateRuns
    <2>2. Slots' \subseteq Slots \cup {r}
      BY <1>5 DEF TypeOK, Slots, ActiveRecords, GenerateRuns, StartNow, SetStatus, StartedStatus
    <2> QED BY <2>1, <2>2 DEF SlotsGrowByOne
  <1>6. ASSUME NEW r \in Req, GenerateOverloaded(r) PROVE SlotsGrowByOne
    BY <1>6 DEF TypeOK, SlotsGrowByOne, Slots, ActiveRecords, GenerateOverloaded, Return
  <1>7. ASSUME NEW r \in Req, WaiterCancelled(r) PROVE SlotsGrowByOne
    BY <1>7 DEF TypeOK, SlotsGrowByOne, Slots, ActiveRecords, WaiterCancelled, SetStatus, Release, Return
  <1>8. ASSUME NEW r \in Req, WaiterGranted(r) PROVE SlotsGrowByOne
    BY <1>8 DEF TypeOK, SlotsGrowByOne, Slots, ActiveRecords, HandlerInv, WaiterGranted, Proceed, StartedStatus, SetStatus, Release
  <1>9. ASSUME NEW r \in Req, WaiterGrantExpired(r) PROVE SlotsGrowByOne
    BY <1>9 DEF TypeOK, SlotsGrowByOne, Slots, ActiveRecords, WaiterGrantExpired, SetStatus, Release, Return
  <1>10. ASSUME NEW r \in Req, FrontRuns(r) PROVE SlotsGrowByOne
    <2>1. EntryEligible(r)
      BY <1>10 DEF FrontRuns, IsFront, Selects, Candidates
    <2>2. Slots' \subseteq Slots \cup {r}
      BY <1>10 DEF TypeOK, Slots, ActiveRecords, FrontRuns, Proceed, StartedStatus, SetStatus, Looking
    <2> QED BY <2>1, <2>2 DEF SlotsGrowByOne
  <1>11. ASSUME NEW r \in Req, FrontDefers(r) PROVE SlotsGrowByOne
    <2>1. PICK i \in Candidates : GrantOther(i, {})
      BY <1>11 DEF FrontDefers
    <2>2. queue[i] \in Req /\ EntryEligible(queue[i])
      BY <2>1 DEF Candidates, TypeOK
    <2>3. ActiveRecords' \subseteq ActiveRecords
      BY <1>11 DEF TypeOK, ActiveRecords, FrontDefers
    <2>4. Slots' \subseteq Slots \cup {queue[i]}
      BY <2>1, <2>3 DEF Slots, GrantOther
    <2> QED BY <2>2, <2>4 DEF SlotsGrowByOne
  <1>12. ASSUME NEW r \in Req, FrontDefersAndExpires(r) PROVE SlotsGrowByOne
    <2>1. PICK i \in Candidates : GrantOther(i, {r})
      BY <1>12 DEF FrontDefersAndExpires
    <2>2. queue[i] \in Req /\ EntryEligible(queue[i])
      BY <2>1 DEF Candidates, TypeOK
    <2>3. ActiveRecords' \subseteq ActiveRecords
      BY <1>12 DEF TypeOK, ActiveRecords, FrontDefersAndExpires, TimedOut, SetStatus
    <2>4. Slots' \subseteq Slots \cup {queue[i]}
      BY <2>1, <2>3 DEF Slots, GrantOther
    <2> QED BY <2>2, <2>4 DEF SlotsGrowByOne
  <1>13. ASSUME NEW r \in Req, FrontExpires(r) PROVE SlotsGrowByOne
    BY <1>13 DEF TypeOK, SlotsGrowByOne, Slots, ActiveRecords, FrontExpires, TimedOut, SetStatus, Return, Release, Looking
  <1>14. ASSUME NEW r \in Req, WaiterExpires(r) PROVE SlotsGrowByOne
    BY <1>14 DEF TypeOK, SlotsGrowByOne, Slots, ActiveRecords, WaiterExpires, TimedOut, SetStatus, Return, Release, Looking
  <1>15. ASSUME NEW r \in Req, AdapterReturns(r) PROVE SlotsGrowByOne
    BY <1>15 DEF TypeOK, SlotsGrowByOne, Slots, ActiveRecords, AdapterReturns, Executing, Complete, SetStatus, Release, Return
  <1>16. ASSUME NEW r \in Req, AdapterFails(r) PROVE SlotsGrowByOne
    BY <1>16 DEF TypeOK, SlotsGrowByOne, Slots, ActiveRecords, AdapterFails, Executing, Fail, SetStatus, Release, Return
  <1>17. ASSUME NEW r \in Req, FirstChunk(r) PROVE SlotsGrowByOne
    BY <1>17 DEF TypeOK, SlotsGrowByOne, Slots, ActiveRecords, FirstChunk, Executing
  <1>18. ASSUME NEW r \in Req, BodyNeverStarts(r) PROVE SlotsGrowByOne
    BY <1>18 DEF TypeOK, SlotsGrowByOne, Slots, ActiveRecords, BodyNeverStarts, Executing, Return
  <1>19. ASSUME NEW r \in Req, BodyFinishes(r) PROVE SlotsGrowByOne
    BY <1>19 DEF TypeOK, SlotsGrowByOne, Slots, ActiveRecords, BodyFinishes, Complete, SetStatus, Release, Return
  <1>20. ASSUME NEW r \in Req, BodyBreaks(r) PROVE SlotsGrowByOne
    BY <1>20 DEF TypeOK, SlotsGrowByOne, Slots, ActiveRecords, BodyBreaks, CancelRecord, SetStatus, Release, Return
  <1>21. ASSUME NEW r \in Req, CancelEndpoint(r) PROVE SlotsGrowByOne
    BY <1>21 DEF TypeOK, SlotsGrowByOne, Slots, ActiveRecords, CancelEndpoint, CancelRecord, SetStatus, Release, Terminal
  <1>22. ASSUME NEW r \in Req, ClientHangsUp(r) PROVE SlotsGrowByOne
    BY <1>22 DEF TypeOK, SlotsGrowByOne, Slots, ActiveRecords, ClientHangsUp
  <1>23. ASSUME NEW p \in Profiles \cup {NoProfile}, Recalibrate(p) PROVE SlotsGrowByOne
    BY <1>23 DEF TypeOK, SlotsGrowByOne, Slots, ActiveRecords, Recalibrate
  <1>24. CASE Tick
    BY <1>24 DEF TypeOK, SlotsGrowByOne, Slots, ActiveRecords, Tick
  <1>25. CASE UNCHANGED vars
    BY <1>25 DEF TypeOK, SlotsGrowByOne, Slots, ActiveRecords, vars
  <1> QED
    BY <1>1, <1>2, <1>3, <1>4, <1>5, <1>6, <1>7, <1>8, <1>9, <1>10, <1>11, <1>12,
       <1>13, <1>14, <1>15, <1>16, <1>17, <1>18, <1>19, <1>20, <1>21, <1>22, <1>23, <1>24, <1>25
    DEF Next, Arrive, Poll, AdapterStep, AllAnswered

\* A record that is not active and not reserved costs nothing, so a step moves the
\* counts of the broker and of a lane up by one at most, and only below the limit.
LEMMA BoundStep ==
    ASSUME StateInv, CapacityBound, LaneBound, [Next]_vars, StateInv'
    PROVE  CapacityBound' /\ LaneBound'
  <1>1. /\ IsFiniteSet(Slots)
        /\ ActiveJobs = Cardinality(Slots)
        /\ \A l \in Lanes : ActiveJobsForLane(l) = Cardinality(InLane(Slots, l))
    BY SlotCount
  <1>2. /\ IsFiniteSet(Slots')
        /\ ActiveJobs' = Cardinality(Slots')
        /\ \A l \in Lanes : ActiveJobsForLane(l)' = Cardinality(InLane(Slots, l)')
    <2>1. StateInv' => /\ IsFiniteSet(Slots)'
                       /\ (ActiveJobs = Cardinality(Slots))'
                       /\ (\A l \in Lanes : ActiveJobsForLane(l) = Cardinality(InLane(Slots, l)))'
      BY SlotCount, PTL
    <2> QED BY <2>1
  <1>3. SlotsGrowByOne
    BY SlotStep
  <1>4. req' = req
    BY ZenonT(60) DEF Next, Arrive, Poll, AdapterStep, AllAnswered, vars, Refuse, ChatRuns, StartNow, ChatQueues,
       ChatOverloaded, GenerateRuns, GenerateOverloaded, WaiterCancelled, WaiterGranted,
       WaiterGrantExpired, FrontRuns, FrontDefers, FrontDefersAndExpires, FrontExpires,
       WaiterExpires, AdapterReturns, AdapterFails, FirstChunk, BodyNeverStarts, BodyFinishes,
       BodyBreaks, CancelEndpoint, ClientHangsUp, Recalibrate, Tick
  <1>5. ASSUME NEW A, NEW B, IsFiniteSet(A), B \subseteq A
        PROVE  Cardinality(B) <= Cardinality(A) /\ Cardinality(B) \in Nat /\ Cardinality(A) \in Nat
    BY <1>5, FS_Subset, FS_CardinalityType
  <1>6. ASSUME NEW A, NEW x, IsFiniteSet(A)
        PROVE  IsFiniteSet(A \cup {x}) /\ Cardinality(A \cup {x}) <= Cardinality(A) + 1
                 /\ Cardinality(A) \in Nat
    BY <1>6, FS_AddElement, FS_CardinalityType
  <1>7. OperatorCeiling \in Nat
    BY LimitBounds
  <1>8. \A l \in Lanes : AtLeastOne(LaneMax[l]) \in Int
    BY BrokerAssumption DEF AtLeastOne
  <1>9. CapacityBound'
    <2>1. CASE Slots' \subseteq Slots
      <3>1. Cardinality(Slots') <= Cardinality(Slots) /\ Cardinality(Slots') \in Nat
              /\ Cardinality(Slots) \in Nat
        BY <1>1, <1>5, <2>1
      <3> QED BY <1>1, <1>2, <1>7, <3>1 DEF CapacityBound
    <2>2. CASE \E x \in Req : EntryEligible(x) /\ Slots' \subseteq Slots \cup {x}
      <3>1. PICK x \in Req : EntryEligible(x) /\ Slots' \subseteq Slots \cup {x}
        BY <2>2
      <3>2. /\ Cardinality(Slots') <= Cardinality(Slots) + 1
            /\ Cardinality(Slots') \in Nat /\ Cardinality(Slots) \in Nat
        <4>1. IsFiniteSet(Slots \cup {x}) /\ Cardinality(Slots \cup {x}) <= Cardinality(Slots) + 1
                /\ Cardinality(Slots) \in Nat
          BY <1>1, <1>6
        <4>2. Cardinality(Slots') <= Cardinality(Slots \cup {x}) /\ Cardinality(Slots') \in Nat
                /\ Cardinality(Slots \cup {x}) \in Nat
          BY <1>5, <3>1, <4>1
        <4> QED BY <4>1, <4>2
      <3>3. Limit \in 1..OperatorCeiling
        <4>1. profile \in Nat
          BY BrokerAssumption DEF StateInv, TypeOK, NoProfile
        <4> QED BY <4>1, LimitBounds DEF Limit
      <3>4. Cardinality(Slots) < Limit
        BY <1>1, <3>1 DEF EntryEligible, CapacityAvailable
      <3> QED BY <1>2, <1>7, <3>2, <3>3, <3>4 DEF CapacityBound
    <2> QED BY <1>3, <2>1, <2>2 DEF SlotsGrowByOne
  <1>10. LaneBound'
    <2> SUFFICES ASSUME NEW l \in Lanes \ Uncapped
                 PROVE  Cardinality(InLane(Slots, l)') <= AtLeastOne(LaneMax[l])
      BY <1>2 DEF LaneBound
    <2>1. /\ IsFiniteSet(InLane(Slots, l)) /\ Cardinality(InLane(Slots, l)) \in Nat
          /\ Cardinality(InLane(Slots, l)) <= AtLeastOne(LaneMax[l])
      <3>1. InLane(Slots, l) \subseteq Slots
        BY DEF InLane
      <3> QED BY <1>1, <3>1, FS_Subset, FS_CardinalityType DEF LaneBound
    <2>2. CASE InLane(Slots, l)' \subseteq InLane(Slots, l)
      <3>1. Cardinality(InLane(Slots, l)') <= Cardinality(InLane(Slots, l))
              /\ Cardinality(InLane(Slots, l)') \in Nat
        BY <1>5, <2>1, <2>2
      <3> QED BY <1>8, <2>1, <3>1
    <2>3. CASE ~(InLane(Slots, l)' \subseteq InLane(Slots, l))
      <3>1. PICK x \in Req : /\ EntryEligible(x) /\ req[x].lane = l
                             /\ InLane(Slots, l)' \subseteq InLane(Slots, l) \cup {x}
        BY <1>3, <1>4, <2>3 DEF SlotsGrowByOne, InLane
      <3>2. Cardinality(InLane(Slots, l)) < AtLeastOne(LaneMax[l])
        BY <1>1, <3>1 DEF EntryEligible, LaneHasRoom
      <3>3. /\ IsFiniteSet(InLane(Slots, l) \cup {x})
            /\ Cardinality(InLane(Slots, l) \cup {x}) <= Cardinality(InLane(Slots, l)) + 1
        BY <1>6, <2>1
      <3>4. /\ Cardinality(InLane(Slots, l)') <= Cardinality(InLane(Slots, l) \cup {x})
            /\ Cardinality(InLane(Slots, l)') \in Nat
            /\ Cardinality(InLane(Slots, l) \cup {x}) \in Nat
        BY <1>5, <3>1, <3>3
      <3> QED BY <1>8, <2>1, <3>2, <3>3, <3>4
    <2> QED BY <2>2, <2>3
  <1> QED BY <1>9, <1>10

\* No slot is taken before the first request arrives.
LEMMA BoundInit == Init => CapacityBound /\ LaneBound
  <1> SUFFICES ASSUME Init PROVE CapacityBound /\ LaneBound
    OBVIOUS
  <1>1. ActiveRecords = {} /\ reservations = {}
    BY DEF Init, ActiveRecords
  <1>2. ActiveJobs = 0 /\ \A l \in Lanes : ActiveJobsForLane(l) = 0
    BY <1>1, FS_EmptySet DEF ActiveJobs, ActiveJobsForLane, InLane
  <1>3. OperatorCeiling \in Nat
    BY LimitBounds
  <1>4. \A l \in Lanes : AtLeastOne(LaneMax[l]) \in Int /\ AtLeastOne(LaneMax[l]) >= 1
    BY BrokerAssumption DEF AtLeastOne
  <1> QED BY <1>2, <1>3, <1>4 DEF CapacityBound, LaneBound

\* Active jobs never exceed the operator ceiling, and those of a lane never exceed
\* the ceiling of the lane: active_jobs of the runtime counts grants that have not
\* woken yet, and admission and the queue test it before each slot they give.
THEOREM CapacityIsBounded == Spec => []SlotsBounded
  <1>1. Spec => []StateInv
    BY StateInvariant
  <1>2. Init => CapacityBound /\ LaneBound
    BY BoundInit
  <1>3. StateInv /\ StateInv' /\ (CapacityBound /\ LaneBound) /\ [Next]_vars
          => (CapacityBound /\ LaneBound)'
    BY BoundStep
  <1>4. SlotsBounded <=> CapacityBound /\ LaneBound
    BY DEF SlotsBounded
  <1> QED BY <1>1, <1>2, <1>3, <1>4, PTL DEF Spec

\* Whoever takes a slot had room under the limit in force and in its lane at that
\* moment, whether it arrived, was at the front of the queue or was granted.
THEOREM SlotsAreTakenWithinLimit == Spec => SlotsWithinLimit
  <1>1. ASSUME StateInv, [Next]_vars PROVE \A r \in Req : TakesSlot(r) => EntryEligible(r)
    <2>1. SlotsGrowByOne
      BY <1>1, SlotStep
    <2> QED BY <2>1 DEF SlotsGrowByOne, TakesSlot, Slots
  <1>2. Spec => []StateInv
    BY StateInvariant
  <1> QED BY <1>1, <1>2, PTL DEF Spec, SlotsWithinLimit

\* No step takes a record out of the terminal statuses.
LEMMA TerminalStep ==
    ASSUME StateInv, [Next]_vars
    PROVE  \A x \in Req : status[x] \in Terminal => status'[x] \in Terminal
  <1> USE BrokerAssumption DEF StateInv
  <1>1. ASSUME NEW r \in Req, Refuse(r) PROVE \A x \in Req : status[x] \in Terminal => status'[x] \in Terminal
    BY <1>1 DEF TypeOK, HandlerInv, Terminal, Refuse, Return
  <1>2. ASSUME NEW r \in Req, ChatRuns(r) PROVE \A x \in Req : status[x] \in Terminal => status'[x] \in Terminal
    BY <1>2 DEF TypeOK, HandlerInv, Terminal, ChatRuns, StartNow, SetStatus, StartedStatus, Idle
  <1>3. ASSUME NEW r \in Req, ChatQueues(r) PROVE \A x \in Req : status[x] \in Terminal => status'[x] \in Terminal
    BY <1>3 DEF TypeOK, HandlerInv, Terminal, ChatQueues, SetStatus, Idle
  <1>4. ASSUME NEW r \in Req, ChatOverloaded(r) PROVE \A x \in Req : status[x] \in Terminal => status'[x] \in Terminal
    BY <1>4 DEF TypeOK, HandlerInv, Terminal, ChatOverloaded, Return
  <1>5. ASSUME NEW r \in Req, GenerateRuns(r) PROVE \A x \in Req : status[x] \in Terminal => status'[x] \in Terminal
    BY <1>5 DEF TypeOK, HandlerInv, Terminal, GenerateRuns, StartNow, SetStatus, StartedStatus, Idle
  <1>6. ASSUME NEW r \in Req, GenerateOverloaded(r) PROVE \A x \in Req : status[x] \in Terminal => status'[x] \in Terminal
    BY <1>6 DEF TypeOK, HandlerInv, Terminal, GenerateOverloaded, Return
  <1>7. ASSUME NEW r \in Req, WaiterCancelled(r) PROVE \A x \in Req : status[x] \in Terminal => status'[x] \in Terminal
    BY <1>7 DEF TypeOK, HandlerInv, Terminal, WaiterCancelled, SetStatus, Release, Return
  <1>8. ASSUME NEW r \in Req, WaiterGranted(r) PROVE \A x \in Req : status[x] \in Terminal => status'[x] \in Terminal
    BY <1>8 DEF TypeOK, HandlerInv, Terminal, WaiterGranted, Proceed, StartedStatus, SetStatus, Release
  <1>9. ASSUME NEW r \in Req, WaiterGrantExpired(r) PROVE \A x \in Req : status[x] \in Terminal => status'[x] \in Terminal
    BY <1>9 DEF TypeOK, HandlerInv, Terminal, WaiterGrantExpired, SetStatus, Release, Return
  <1>10. ASSUME NEW r \in Req, FrontRuns(r) PROVE \A x \in Req : status[x] \in Terminal => status'[x] \in Terminal
    BY <1>10 DEF TypeOK, HandlerInv, Terminal, FrontRuns, Proceed, StartedStatus, SetStatus, Looking
  <1>11. ASSUME NEW r \in Req, FrontDefers(r) PROVE \A x \in Req : status[x] \in Terminal => status'[x] \in Terminal
    BY <1>11 DEF TypeOK, HandlerInv, Terminal, FrontDefers
  <1>12. ASSUME NEW r \in Req, FrontDefersAndExpires(r) PROVE \A x \in Req : status[x] \in Terminal => status'[x] \in Terminal
    BY <1>12 DEF TypeOK, HandlerInv, Terminal, FrontDefersAndExpires, TimedOut, SetStatus
  <1>13. ASSUME NEW r \in Req, FrontExpires(r) PROVE \A x \in Req : status[x] \in Terminal => status'[x] \in Terminal
    BY <1>13 DEF TypeOK, HandlerInv, Terminal, FrontExpires, TimedOut, SetStatus, Return, Release, Looking
  <1>14. ASSUME NEW r \in Req, WaiterExpires(r) PROVE \A x \in Req : status[x] \in Terminal => status'[x] \in Terminal
    BY <1>14 DEF TypeOK, HandlerInv, Terminal, WaiterExpires, TimedOut, SetStatus, Return, Release, Looking
  <1>15. ASSUME NEW r \in Req, AdapterReturns(r) PROVE \A x \in Req : status[x] \in Terminal => status'[x] \in Terminal
    BY <1>15 DEF TypeOK, HandlerInv, Terminal, AdapterReturns, Executing, Complete, SetStatus, Release, Return
  <1>16. ASSUME NEW r \in Req, AdapterFails(r) PROVE \A x \in Req : status[x] \in Terminal => status'[x] \in Terminal
    BY <1>16 DEF TypeOK, HandlerInv, Terminal, AdapterFails, Executing, Fail, SetStatus, Release, Return
  <1>17. ASSUME NEW r \in Req, FirstChunk(r) PROVE \A x \in Req : status[x] \in Terminal => status'[x] \in Terminal
    BY <1>17 DEF TypeOK, HandlerInv, Terminal, FirstChunk, Executing
  <1>18. ASSUME NEW r \in Req, BodyNeverStarts(r) PROVE \A x \in Req : status[x] \in Terminal => status'[x] \in Terminal
    BY <1>18 DEF TypeOK, HandlerInv, Terminal, BodyNeverStarts, Executing, Return
  <1>19. ASSUME NEW r \in Req, BodyFinishes(r) PROVE \A x \in Req : status[x] \in Terminal => status'[x] \in Terminal
    BY <1>19 DEF TypeOK, HandlerInv, Terminal, BodyFinishes, Complete, SetStatus, Release, Return
  <1>20. ASSUME NEW r \in Req, BodyBreaks(r) PROVE \A x \in Req : status[x] \in Terminal => status'[x] \in Terminal
    BY <1>20 DEF TypeOK, HandlerInv, Terminal, BodyBreaks, CancelRecord, SetStatus, Release, Return
  <1>21. ASSUME NEW r \in Req, CancelEndpoint(r) PROVE \A x \in Req : status[x] \in Terminal => status'[x] \in Terminal
    BY <1>21 DEF TypeOK, HandlerInv, Terminal, CancelEndpoint, CancelRecord, SetStatus, Release
  <1>22. ASSUME NEW r \in Req, ClientHangsUp(r) PROVE \A x \in Req : status[x] \in Terminal => status'[x] \in Terminal
    BY <1>22 DEF TypeOK, HandlerInv, Terminal, ClientHangsUp
  <1>23. ASSUME NEW p \in Profiles \cup {NoProfile}, Recalibrate(p) PROVE \A x \in Req : status[x] \in Terminal => status'[x] \in Terminal
    BY <1>23 DEF TypeOK, HandlerInv, Terminal, Recalibrate
  <1>24. CASE Tick
    BY <1>24 DEF TypeOK, HandlerInv, Terminal, Tick
  <1>25. CASE UNCHANGED vars
    BY <1>25 DEF TypeOK, HandlerInv, Terminal, vars
  <1> QED
    BY <1>1, <1>2, <1>3, <1>4, <1>5, <1>6, <1>7, <1>8, <1>9, <1>10, <1>11, <1>12,
       <1>13, <1>14, <1>15, <1>16, <1>17, <1>18, <1>19, <1>20, <1>21, <1>22, <1>23, <1>24, <1>25
    DEF Next, Arrive, Poll, AdapterStep, AllAnswered

\* A record that has ended stays ended: a cancelled or failed request never holds a
\* slot or a place in the queue again.
THEOREM RecordsStayEnded == Spec => TerminalStaysTerminal
  <1>1. StateInv /\ [Next]_vars
          => \A r \in Req : status[r] \in Terminal => status'[r] \in Terminal
    BY TerminalStep
  <1>2. Spec => []StateInv
    BY StateInvariant
  <1> QED BY <1>1, <1>2, PTL DEF Spec, TerminalStaysTerminal

\* Only a granted waiter or the front of the queue starts, before its deadline.
LEMMA DeadlineStep ==
    ASSUME StateInv, [Next]_vars
    PROVE  \A x \in Req : pc[x] = "waiting" /\ StartsExecuting(x) => ~Expired(x) /\ x \notin token
  <1> USE BrokerAssumption DEF StateInv
  <1>1. ASSUME NEW r \in Req, Refuse(r) PROVE \A x \in Req : pc[x] = "waiting" /\ StartsExecuting(x) => ~Expired(x) /\ x \notin token
    BY <1>1 DEF TypeOK, StartsExecuting, Refuse, Return
  <1>2. ASSUME NEW r \in Req, ChatRuns(r) PROVE \A x \in Req : pc[x] = "waiting" /\ StartsExecuting(x) => ~Expired(x) /\ x \notin token
    BY <1>2 DEF TypeOK, StartsExecuting, ChatRuns, StartNow, Idle
  <1>3. ASSUME NEW r \in Req, ChatQueues(r) PROVE \A x \in Req : pc[x] = "waiting" /\ StartsExecuting(x) => ~Expired(x) /\ x \notin token
    BY <1>3 DEF TypeOK, StartsExecuting, ChatQueues
  <1>4. ASSUME NEW r \in Req, ChatOverloaded(r) PROVE \A x \in Req : pc[x] = "waiting" /\ StartsExecuting(x) => ~Expired(x) /\ x \notin token
    BY <1>4 DEF TypeOK, StartsExecuting, ChatOverloaded, Return
  <1>5. ASSUME NEW r \in Req, GenerateRuns(r) PROVE \A x \in Req : pc[x] = "waiting" /\ StartsExecuting(x) => ~Expired(x) /\ x \notin token
    BY <1>5 DEF TypeOK, StartsExecuting, GenerateRuns, StartNow, Idle
  <1>6. ASSUME NEW r \in Req, GenerateOverloaded(r) PROVE \A x \in Req : pc[x] = "waiting" /\ StartsExecuting(x) => ~Expired(x) /\ x \notin token
    BY <1>6 DEF TypeOK, StartsExecuting, GenerateOverloaded, Return
  <1>7. ASSUME NEW r \in Req, WaiterCancelled(r) PROVE \A x \in Req : pc[x] = "waiting" /\ StartsExecuting(x) => ~Expired(x) /\ x \notin token
    BY <1>7 DEF TypeOK, StartsExecuting, WaiterCancelled, Return
  <1>8. ASSUME NEW r \in Req, WaiterGranted(r) PROVE \A x \in Req : pc[x] = "waiting" /\ StartsExecuting(x) => ~Expired(x) /\ x \notin token
    BY <1>8 DEF TypeOK, StartsExecuting, WaiterGranted, Proceed
  <1>9. ASSUME NEW r \in Req, WaiterGrantExpired(r) PROVE \A x \in Req : pc[x] = "waiting" /\ StartsExecuting(x) => ~Expired(x) /\ x \notin token
    BY <1>9 DEF TypeOK, StartsExecuting, WaiterGrantExpired, Return
  <1>10. ASSUME NEW r \in Req, FrontRuns(r) PROVE \A x \in Req : pc[x] = "waiting" /\ StartsExecuting(x) => ~Expired(x) /\ x \notin token
    BY <1>10 DEF TypeOK, StartsExecuting, FrontRuns, Proceed, Looking, IsFront, Selects, Candidates
  <1>11. ASSUME NEW r \in Req, FrontDefers(r) PROVE \A x \in Req : pc[x] = "waiting" /\ StartsExecuting(x) => ~Expired(x) /\ x \notin token
    BY <1>11 DEF TypeOK, StartsExecuting, FrontDefers
  <1>12. ASSUME NEW r \in Req, FrontDefersAndExpires(r) PROVE \A x \in Req : pc[x] = "waiting" /\ StartsExecuting(x) => ~Expired(x) /\ x \notin token
    BY <1>12 DEF TypeOK, StartsExecuting, FrontDefersAndExpires, TimedOut, Return
  <1>13. ASSUME NEW r \in Req, FrontExpires(r) PROVE \A x \in Req : pc[x] = "waiting" /\ StartsExecuting(x) => ~Expired(x) /\ x \notin token
    BY <1>13 DEF TypeOK, StartsExecuting, FrontExpires, TimedOut, Return
  <1>14. ASSUME NEW r \in Req, WaiterExpires(r) PROVE \A x \in Req : pc[x] = "waiting" /\ StartsExecuting(x) => ~Expired(x) /\ x \notin token
    BY <1>14 DEF TypeOK, StartsExecuting, WaiterExpires, TimedOut, Return
  <1>15. ASSUME NEW r \in Req, AdapterReturns(r) PROVE \A x \in Req : pc[x] = "waiting" /\ StartsExecuting(x) => ~Expired(x) /\ x \notin token
    BY <1>15 DEF TypeOK, StartsExecuting, AdapterReturns, Return
  <1>16. ASSUME NEW r \in Req, AdapterFails(r) PROVE \A x \in Req : pc[x] = "waiting" /\ StartsExecuting(x) => ~Expired(x) /\ x \notin token
    BY <1>16 DEF TypeOK, StartsExecuting, AdapterFails, Return
  <1>17. ASSUME NEW r \in Req, FirstChunk(r) PROVE \A x \in Req : pc[x] = "waiting" /\ StartsExecuting(x) => ~Expired(x) /\ x \notin token
    BY <1>17 DEF TypeOK, StartsExecuting, FirstChunk
  <1>18. ASSUME NEW r \in Req, BodyNeverStarts(r) PROVE \A x \in Req : pc[x] = "waiting" /\ StartsExecuting(x) => ~Expired(x) /\ x \notin token
    BY <1>18 DEF TypeOK, StartsExecuting, BodyNeverStarts, Return
  <1>19. ASSUME NEW r \in Req, BodyFinishes(r) PROVE \A x \in Req : pc[x] = "waiting" /\ StartsExecuting(x) => ~Expired(x) /\ x \notin token
    BY <1>19 DEF TypeOK, StartsExecuting, BodyFinishes, Return
  <1>20. ASSUME NEW r \in Req, BodyBreaks(r) PROVE \A x \in Req : pc[x] = "waiting" /\ StartsExecuting(x) => ~Expired(x) /\ x \notin token
    BY <1>20 DEF TypeOK, StartsExecuting, BodyBreaks, Return
  <1>21. ASSUME NEW r \in Req, CancelEndpoint(r) PROVE \A x \in Req : pc[x] = "waiting" /\ StartsExecuting(x) => ~Expired(x) /\ x \notin token
    BY <1>21 DEF TypeOK, StartsExecuting, CancelEndpoint
  <1>22. ASSUME NEW r \in Req, ClientHangsUp(r) PROVE \A x \in Req : pc[x] = "waiting" /\ StartsExecuting(x) => ~Expired(x) /\ x \notin token
    BY <1>22 DEF TypeOK, StartsExecuting, ClientHangsUp
  <1>23. ASSUME NEW p \in Profiles \cup {NoProfile}, Recalibrate(p) PROVE \A x \in Req : pc[x] = "waiting" /\ StartsExecuting(x) => ~Expired(x) /\ x \notin token
    BY <1>23 DEF TypeOK, StartsExecuting, Recalibrate
  <1>24. CASE Tick
    BY <1>24 DEF TypeOK, StartsExecuting, Tick
  <1>25. CASE UNCHANGED vars
    BY <1>25 DEF TypeOK, StartsExecuting, vars
  <1> QED
    BY <1>1, <1>2, <1>3, <1>4, <1>5, <1>6, <1>7, <1>8, <1>9, <1>10, <1>11, <1>12,
       <1>13, <1>14, <1>15, <1>16, <1>17, <1>18, <1>19, <1>20, <1>21, <1>22, <1>23, <1>24, <1>25
    DEF Next, Arrive, Poll, AdapterStep, AllAnswered

\* No queued request reaches its adapter after its own deadline or its cancellation,
\* however long its waiter slept after the grant.
THEOREM NobodyStartsLate == Spec => NoLateExecution
  <1>1. StateInv /\ [Next]_vars
          => \A r \in Req : (pc[r] = "waiting" /\ StartsExecuting(r))
                              => ~Expired(r) /\ r \notin token
    BY DeadlineStep
  <1>2. Spec => []StateInv
    BY StateInvariant
  <1> QED BY <1>1, <1>2, PTL DEF Spec, NoLateExecution
===============================================================================
