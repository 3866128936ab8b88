------------------------------ MODULE RecordProofs ------------------------------
(***************************************************************************)
(* Theorems about who owns a slot, what the counters say, the order of     *)
(* service, and the refinement of the slot pool, for every number of       *)
(* requests, lanes and limits.                                             *)
(***************************************************************************)
EXTENDS BrokerProofs, WellFoundedInduction

(***************************************************************************)
(* Records and handlers                                                    *)
(*                                                                         *)
(* StateInv speaks of handlers that have not started.  That no record      *)
(* outlives its handler needs the other half: the record of a handler that *)
(* started is the one StartedStatus set, or has ended, so the only record  *)
(* a returning handler can leave behind is that of a stream whose body     *)
(* never ran.                                                              *)
(***************************************************************************)
RecordInv ==
    \A r \in Req :
      /\ pc[r] \in {"executing", "body"} => status[r] \in Terminal \cup {StartedStatus(r)}
      /\ pc[r] = "done" => \/ status[r] \in Terminal \cup {"none"}
                           \/ r \in gone /\ status[r] = "streaming"

\* Every step keeps records and handlers in agreement.
LEMMA RecordStep ==
    ASSUME StateInv, RecordInv, [Next]_vars
    PROVE  RecordInv'
  <1> USE BrokerAssumption DEF StateInv
  <1>1. ASSUME NEW r \in Req, Refuse(r) PROVE RecordInv'
    BY <1>1 DEF TypeOK, HandlerInv, RecordInv, Terminal, StartedStatus, Refuse, Return, Idle
  <1>2. ASSUME NEW r \in Req, ChatRuns(r) PROVE RecordInv'
    BY <1>2 DEF TypeOK, HandlerInv, RecordInv, Terminal, StartedStatus, ChatRuns, StartNow,
        SetStatus, Idle
  <1>3. ASSUME NEW r \in Req, ChatQueues(r) PROVE RecordInv'
    BY <1>3 DEF TypeOK, HandlerInv, RecordInv, Terminal, StartedStatus, ChatQueues, SetStatus,
        Count, Idle
  <1>4. ASSUME NEW r \in Req, ChatOverloaded(r) PROVE RecordInv'
    BY <1>4 DEF TypeOK, HandlerInv, RecordInv, Terminal, StartedStatus, ChatOverloaded, Return,
        Idle
  <1>5. ASSUME NEW r \in Req, GenerateRuns(r) PROVE RecordInv'
    BY <1>5 DEF TypeOK, HandlerInv, RecordInv, Terminal, StartedStatus, GenerateRuns, StartNow,
        SetStatus, Idle
  <1>6. ASSUME NEW r \in Req, GenerateOverloaded(r) PROVE RecordInv'
    BY <1>6 DEF TypeOK, HandlerInv, RecordInv, Terminal, StartedStatus, GenerateOverloaded,
        Return, Idle
  <1>7. ASSUME NEW r \in Req, WaiterCancelled(r) PROVE RecordInv'
    BY <1>7 DEF TypeOK, HandlerInv, RecordInv, Terminal, StartedStatus, WaiterCancelled,
        SetStatus, Release, Return, Count
  <1>8. ASSUME NEW r \in Req, WaiterGranted(r) PROVE RecordInv'
    BY <1>8 DEF TypeOK, HandlerInv, RecordInv, Terminal, StartedStatus, WaiterGranted, Proceed,
        StreamUnsupported, SetStatus, Release, Count
  <1>9. ASSUME NEW r \in Req, WaiterGrantExpired(r) PROVE RecordInv'
    BY <1>9 DEF TypeOK, HandlerInv, RecordInv, Terminal, StartedStatus, WaiterGrantExpired,
        SetStatus, Release, Return, Count
  <1>10. ASSUME NEW r \in Req, FrontRuns(r) PROVE RecordInv'
    BY <1>10 DEF TypeOK, HandlerInv, RecordInv, Terminal, StartedStatus, FrontRuns, Proceed,
        StreamUnsupported, SetStatus, Looking, Count
  <1>11. ASSUME NEW r \in Req, FrontDefers(r) PROVE RecordInv'
    BY <1>11 DEF TypeOK, RecordInv, Terminal, StartedStatus, FrontDefers
  <1>12. ASSUME NEW r \in Req, FrontDefersAndExpires(r) PROVE RecordInv'
    BY <1>12 DEF TypeOK, RecordInv, Terminal, StartedStatus, FrontDefersAndExpires, TimedOut,
        SetStatus, Return
  <1>13. ASSUME NEW r \in Req, FrontExpires(r) PROVE RecordInv'
    BY <1>13 DEF TypeOK, HandlerInv, RecordInv, Terminal, StartedStatus, FrontExpires, TimedOut,
        SetStatus, Return, Release, Count, Looking
  <1>14. ASSUME NEW r \in Req, WaiterExpires(r) PROVE RecordInv'
    BY <1>14 DEF TypeOK, HandlerInv, RecordInv, Terminal, StartedStatus, WaiterExpires,
        TimedOut, SetStatus, Return, Release, Count, Looking
  <1>15. ASSUME NEW r \in Req, AdapterReturns(r) PROVE RecordInv'
    BY <1>15 DEF TypeOK, HandlerInv, RecordInv, Terminal, StartedStatus, AdapterReturns,
        Executing, Complete, SetStatus, Release, Return
  <1>16. ASSUME NEW r \in Req, AdapterFails(r) PROVE RecordInv'
    BY <1>16 DEF TypeOK, HandlerInv, RecordInv, Terminal, StartedStatus, AdapterFails,
        Executing, Fail, SetStatus, Release, Return
  <1>17. ASSUME NEW r \in Req, FirstChunk(r) PROVE RecordInv'
    BY <1>17 DEF TypeOK, HandlerInv, RecordInv, Terminal, StartedStatus, FirstChunk, Executing
  <1>18. ASSUME NEW r \in Req, BodyNeverStarts(r) PROVE RecordInv'
    BY <1>18 DEF TypeOK, HandlerInv, RecordInv, Terminal, StartedStatus, BodyNeverStarts,
        Executing, Return
  <1>19. ASSUME NEW r \in Req, BodyFinishes(r) PROVE RecordInv'
    BY <1>19 DEF TypeOK, HandlerInv, RecordInv, Terminal, StartedStatus, BodyFinishes, Complete,
        SetStatus, Release, Return
  <1>20. ASSUME NEW r \in Req, BodyBreaks(r) PROVE RecordInv'
    BY <1>20 DEF TypeOK, HandlerInv, RecordInv, Terminal, StartedStatus, BodyBreaks,
        CancelRecord, SetStatus, Release, Return
  <1>21. ASSUME NEW r \in Req, CancelEndpoint(r) PROVE RecordInv'
    BY <1>21 DEF TypeOK, HandlerInv, RecordInv, Terminal, StartedStatus, CancelEndpoint,
        CancelRecord, SetStatus, Release
  <1>22. ASSUME NEW r \in Req, ClientHangsUp(r) PROVE RecordInv'
    BY <1>22 DEF TypeOK, HandlerInv, RecordInv, Terminal, StartedStatus, ClientHangsUp
  <1>23. ASSUME NEW p \in Profiles \cup {NoProfile}, Recalibrate(p) PROVE RecordInv'
    BY <1>23 DEF TypeOK, HandlerInv, RecordInv, Terminal, StartedStatus, Recalibrate
  <1>24. CASE Tick
    BY <1>24 DEF TypeOK, HandlerInv, RecordInv, Terminal, StartedStatus, Tick
  <1>25. CASE UNCHANGED vars
    BY <1>25 DEF TypeOK, HandlerInv, RecordInv, Terminal, StartedStatus, vars
  <1> QED
    BY <1>1, <1>2, <1>3, <1>4, <1>5, <1>6, <1>7, <1>8, <1>9, <1>10, <1>11, <1>12,
       <1>13, <1>14, <1>15, <1>16, <1>17, <1>18, <1>19, <1>20, <1>21, <1>22, <1>23, <1>24, <1>25
    DEF Next, Arrive, Poll, AdapterStep, AllAnswered

\* Requests, records and handlers agree in every state the broker reaches.
THEOREM RecordInvariant == Spec => []RecordInv
  <1>1. Init => RecordInv
    BY DEF Init, RecordInv
  <1>2. StateInv /\ RecordInv /\ [Next]_vars => RecordInv'
    BY RecordStep
  <1>3. Spec => []StateInv
    BY StateInvariant
  <1> QED BY <1>1, <1>2, <1>3, PTL DEF Spec

\* A reservation belongs to a granted handler that sleeps, an active record to a
\* handler that runs or to an abandoned stream, and a granted waiter finds its
\* reservation: reserve_slot, mark_running and release pair up on every path.
THEOREM SlotsAreOwned == Spec => []SlotOwnership
  <1>1. StateInv /\ RecordInv => SlotOwnership
    BY DEF StateInv, TypeOK, PCs, HandlerInv, RecordInv, SlotOwnership, ActiveRecords, Terminal
  <1> QED BY <1>1, StateInvariant, RecordInvariant, PTL

\* The only record that outlives its handler is that of a stream whose client hung
\* up before the body generator started: every other path ends its record.
THEOREM OtherRecordsEnd == Spec => []OnlyAbandonedStreamsLeak
  <1>1. RecordInv => OnlyAbandonedStreamsLeak
    BY DEF RecordInv, OnlyAbandonedStreamsLeak
  <1> QED BY <1>1, RecordInvariant, PTL

(***************************************************************************)
(* The counters                                                            *)
(***************************************************************************)
\* Sets of requests are finite, and grow and shrink by one.
LEMMA CountOfRequests ==
    ASSUME NEW A \in SUBSET Req, NEW x \in Req
    PROVE  /\ IsFiniteSet(A) /\ Cardinality(A) \in Nat
           /\ x \notin A => Cardinality(A \cup {x}) = Cardinality(A) + 1
           /\ x \in A => Cardinality(A \ {x}) = Cardinality(A) - 1
  <1>1. IsFiniteSet(A)
    BY BrokerAssumption, FS_Subset
  <1> QED BY <1>1, FS_CardinalityType, FS_AddElement, FS_RemoveElement

\* The records queue_depth counts are the entries of the deque nobody cancelled.
LEMMA WaitingIsQueued ==
    StateInv /\ RecordInv => Waiting = Entries(queue) \ token
  BY DEF StateInv, TypeOK, PCs, QueueIntegrity, HandlerInv, RecordInv, Waiting,
         Terminal, StartedStatus

\* Only admission to the queue adds a waiting record, and only below the maximum.
DepthGrowsByOne ==
    \/ Waiting' \subseteq Waiting
    \/ /\ QueueDepth < MaxQueueDepth
       /\ \E x \in Req : Waiting' \subseteq Waiting \cup {x}

\* Every step adds at most one waiting record, when the queue has room.
LEMMA DepthStep ==
    ASSUME StateInv, [Next]_vars
    PROVE  DepthGrowsByOne
  <1> USE BrokerAssumption DEF StateInv
  <1>1. ASSUME NEW r \in Req, Refuse(r) PROVE DepthGrowsByOne
    BY <1>1 DEF TypeOK, HandlerInv, DepthGrowsByOne, Waiting, Refuse, Return, Idle
  <1>2. ASSUME NEW r \in Req, ChatRuns(r) PROVE DepthGrowsByOne
    BY <1>2 DEF TypeOK, HandlerInv, DepthGrowsByOne, Waiting, ChatRuns, StartNow, SetStatus,
        StartedStatus, Idle
  <1>3. ASSUME NEW r \in Req, ChatQueues(r) PROVE DepthGrowsByOne
    <2>1. QueueDepth < MaxQueueDepth
      BY <1>3 DEF ChatQueues, Verdict, Evaluate, CapacityContext, QueueHasRoom, MemoryPressure,
         PressureOverride, GlobalAvailable, LaneAvailable
    <2>2. Waiting' \subseteq Waiting \cup {r}
      BY <1>3 DEF TypeOK, Waiting, ChatQueues, SetStatus
    <2> QED BY <2>1, <2>2 DEF DepthGrowsByOne
  <1>4. ASSUME NEW r \in Req, ChatOverloaded(r) PROVE DepthGrowsByOne
    BY <1>4 DEF TypeOK, HandlerInv, DepthGrowsByOne, Waiting, ChatOverloaded, Return, Idle
  <1>5. ASSUME NEW r \in Req, GenerateRuns(r) PROVE DepthGrowsByOne
    BY <1>5 DEF TypeOK, HandlerInv, DepthGrowsByOne, Waiting, GenerateRuns, StartNow, SetStatus,
        StartedStatus, Idle
  <1>6. ASSUME NEW r \in Req, GenerateOverloaded(r) PROVE DepthGrowsByOne
    BY <1>6 DEF TypeOK, HandlerInv, DepthGrowsByOne, Waiting, GenerateOverloaded, Return, Idle
  <1>7. ASSUME NEW r \in Req, WaiterCancelled(r) PROVE DepthGrowsByOne
    BY <1>7 DEF TypeOK, HandlerInv, DepthGrowsByOne, Waiting, WaiterCancelled, SetStatus,
        Release, Return, Count
  <1>8. ASSUME NEW r \in Req, WaiterGranted(r) PROVE DepthGrowsByOne
    BY <1>8 DEF TypeOK, HandlerInv, DepthGrowsByOne, Waiting, WaiterGranted, Proceed,
        StartedStatus, StreamUnsupported, SetStatus, Release, Count
  <1>9. ASSUME NEW r \in Req, WaiterGrantExpired(r) PROVE DepthGrowsByOne
    BY <1>9 DEF TypeOK, HandlerInv, DepthGrowsByOne, Waiting, WaiterGrantExpired, SetStatus,
        Release, Return, Count
  <1>10. ASSUME NEW r \in Req, FrontRuns(r) PROVE DepthGrowsByOne
    BY <1>10 DEF TypeOK, HandlerInv, DepthGrowsByOne, Waiting, FrontRuns, Proceed,
        StartedStatus, StreamUnsupported, SetStatus, Looking, Count
  <1>11. ASSUME NEW r \in Req, FrontDefers(r) PROVE DepthGrowsByOne
    BY <1>11 DEF TypeOK, DepthGrowsByOne, Waiting, FrontDefers, GrantOther
  <1>12. ASSUME NEW r \in Req, FrontDefersAndExpires(r) PROVE DepthGrowsByOne
    BY <1>12 DEF TypeOK, DepthGrowsByOne, Waiting, FrontDefersAndExpires, GrantOther, TimedOut,
        SetStatus
  <1>13. ASSUME NEW r \in Req, FrontExpires(r) PROVE DepthGrowsByOne
    BY <1>13 DEF TypeOK, HandlerInv, DepthGrowsByOne, Waiting, FrontExpires, TimedOut,
        SetStatus, Return, Release, Count, Looking
  <1>14. ASSUME NEW r \in Req, WaiterExpires(r) PROVE DepthGrowsByOne
    BY <1>14 DEF TypeOK, HandlerInv, DepthGrowsByOne, Waiting, WaiterExpires, TimedOut,
        SetStatus, Return, Release, Count, Looking
  <1>15. ASSUME NEW r \in Req, AdapterReturns(r) PROVE DepthGrowsByOne
    BY <1>15 DEF TypeOK, HandlerInv, DepthGrowsByOne, Waiting, AdapterReturns, Executing,
        Complete, SetStatus, Release, Return
  <1>16. ASSUME NEW r \in Req, AdapterFails(r) PROVE DepthGrowsByOne
    BY <1>16 DEF TypeOK, HandlerInv, DepthGrowsByOne, Waiting, AdapterFails, Executing, Fail,
        SetStatus, Release, Return
  <1>17. ASSUME NEW r \in Req, FirstChunk(r) PROVE DepthGrowsByOne
    BY <1>17 DEF TypeOK, HandlerInv, DepthGrowsByOne, Waiting, FirstChunk, Executing
  <1>18. ASSUME NEW r \in Req, BodyNeverStarts(r) PROVE DepthGrowsByOne
    BY <1>18 DEF TypeOK, HandlerInv, DepthGrowsByOne, Waiting, BodyNeverStarts, Executing,
        Return
  <1>19. ASSUME NEW r \in Req, BodyFinishes(r) PROVE DepthGrowsByOne
    BY <1>19 DEF TypeOK, HandlerInv, DepthGrowsByOne, Waiting, BodyFinishes, Complete,
        SetStatus, Release, Return
  <1>20. ASSUME NEW r \in Req, BodyBreaks(r) PROVE DepthGrowsByOne
    BY <1>20 DEF TypeOK, HandlerInv, DepthGrowsByOne, Waiting, BodyBreaks, CancelRecord,
        SetStatus, Release, Return
  <1>21. ASSUME NEW r \in Req, CancelEndpoint(r) PROVE DepthGrowsByOne
    BY <1>21 DEF TypeOK, HandlerInv, DepthGrowsByOne, Waiting, CancelEndpoint, CancelRecord,
        SetStatus, Release
  <1>22. ASSUME NEW r \in Req, ClientHangsUp(r) PROVE DepthGrowsByOne
    BY <1>22 DEF TypeOK, HandlerInv, DepthGrowsByOne, Waiting, ClientHangsUp
  <1>23. ASSUME NEW p \in Profiles \cup {NoProfile}, Recalibrate(p) PROVE DepthGrowsByOne
    BY <1>23 DEF TypeOK, HandlerInv, DepthGrowsByOne, Waiting, Recalibrate
  <1>24. CASE Tick
    BY <1>24 DEF TypeOK, HandlerInv, DepthGrowsByOne, Waiting, Tick
  <1>25. CASE UNCHANGED vars
    BY <1>25 DEF TypeOK, HandlerInv, DepthGrowsByOne, Waiting, vars
  <1> QED
    BY <1>1, <1>2, <1>3, <1>4, <1>5, <1>6, <1>7, <1>8, <1>9, <1>10, <1>11, <1>12,
       <1>13, <1>14, <1>15, <1>16, <1>17, <1>18, <1>19, <1>20, <1>21, <1>22, <1>23, <1>24, <1>25
    DEF Next, Arrive, Poll, AdapterStep, AllAnswered

\* The handlers in wait_for_execution.
Waiters == {r \in Req : pc[r] = "waiting"}

\* What one step does to the ledger: nothing, one request in, or one request out
\* under exactly one of the three ways out.
LedgerMoves ==
    \/ Waiters' = Waiters /\ tally' = tally
    \/ \E x \in Req \ Waiters :
         Waiters' = Waiters \cup {x} /\ tally' = [tally EXCEPT !["queued"] = @ + 1]
    \/ \E x \in Waiters, c \in {"dequeued", "timedOut", "cancelled"} :
         Waiters' = Waiters \ {x} /\ tally' = [tally EXCEPT ![c] = @ + 1]

\* Every step enters each arrival and each departure of a waiter once.
LEMMA LedgerStep ==
    ASSUME StateInv, [Next]_vars
    PROVE  LedgerMoves
  <1> USE BrokerAssumption DEF StateInv
  <1>1. ASSUME NEW r \in Req, Refuse(r) PROVE LedgerMoves
    BY <1>1 DEF TypeOK, LedgerMoves, Waiters, Refuse, Return, Idle
  <1>2. ASSUME NEW r \in Req, ChatRuns(r) PROVE LedgerMoves
    BY <1>2 DEF TypeOK, LedgerMoves, Waiters, ChatRuns, StartNow, SetStatus, StartedStatus, Idle
  <1>3. ASSUME NEW r \in Req, ChatQueues(r) PROVE LedgerMoves
    <2>1. Waiters' = Waiters \cup {r} /\ r \notin Waiters
      BY <1>3 DEF TypeOK, Waiters, ChatQueues, Idle
    <2>2. tally' = [tally EXCEPT !["queued"] = @ + 1]
      BY <1>3 DEF ChatQueues, Count
    <2> QED BY <2>1, <2>2 DEF LedgerMoves
  <1>4. ASSUME NEW r \in Req, ChatOverloaded(r) PROVE LedgerMoves
    BY <1>4 DEF TypeOK, LedgerMoves, Waiters, ChatOverloaded, Return, Idle
  <1>5. ASSUME NEW r \in Req, GenerateRuns(r) PROVE LedgerMoves
    BY <1>5 DEF TypeOK, LedgerMoves, Waiters, GenerateRuns, StartNow, SetStatus, StartedStatus,
        Idle
  <1>6. ASSUME NEW r \in Req, GenerateOverloaded(r) PROVE LedgerMoves
    BY <1>6 DEF TypeOK, LedgerMoves, Waiters, GenerateOverloaded, Return, Idle
  <1>7. ASSUME NEW r \in Req, WaiterCancelled(r) PROVE LedgerMoves
    <2>1. Waiters' = Waiters \ {r} /\ r \in Waiters
      BY <1>7 DEF TypeOK, Waiters, WaiterCancelled, Return
    <2>2. tally' = [tally EXCEPT !["cancelled"] = @ + 1]
      BY <1>7 DEF WaiterCancelled, Count, Return
    <2> QED BY <2>1, <2>2 DEF LedgerMoves
  <1>8. ASSUME NEW r \in Req, WaiterGranted(r) PROVE LedgerMoves
    <2>1. Waiters' = Waiters \ {r} /\ r \in Waiters
      BY <1>8 DEF TypeOK, Waiters, WaiterGranted, Proceed
    <2>2. tally' = [tally EXCEPT !["dequeued"] = @ + 1]
      BY <1>8 DEF WaiterGranted, Count, Proceed
    <2> QED BY <2>1, <2>2 DEF LedgerMoves
  <1>9. ASSUME NEW r \in Req, WaiterGrantExpired(r) PROVE LedgerMoves
    <2>1. Waiters' = Waiters \ {r} /\ r \in Waiters
      BY <1>9 DEF TypeOK, Waiters, WaiterGrantExpired, Return
    <2>2. tally' = [tally EXCEPT !["timedOut"] = @ + 1]
      BY <1>9 DEF WaiterGrantExpired, Count, Return
    <2> QED BY <2>1, <2>2 DEF LedgerMoves
  <1>10. ASSUME NEW r \in Req, FrontRuns(r) PROVE LedgerMoves
    <2>1. Waiters' = Waiters \ {r} /\ r \in Waiters
      BY <1>10 DEF TypeOK, Waiters, FrontRuns, Proceed, Looking
    <2>2. tally' = [tally EXCEPT !["dequeued"] = @ + 1]
      BY <1>10 DEF FrontRuns, Count, Proceed, Looking
    <2> QED BY <2>1, <2>2 DEF LedgerMoves
  <1>11. ASSUME NEW r \in Req, FrontDefers(r) PROVE LedgerMoves
    BY <1>11 DEF TypeOK, LedgerMoves, Waiters, FrontDefers
  <1>12. ASSUME NEW r \in Req, FrontDefersAndExpires(r) PROVE LedgerMoves
    <2>1. Waiters' = Waiters \ {r} /\ r \in Waiters
      BY <1>12 DEF TypeOK, Waiters, FrontDefersAndExpires, TimedOut, Return, Looking
    <2>2. tally' = [tally EXCEPT !["timedOut"] = @ + 1]
      BY <1>12 DEF FrontDefersAndExpires, Count, TimedOut, Return, Looking
    <2> QED BY <2>1, <2>2 DEF LedgerMoves
  <1>13. ASSUME NEW r \in Req, FrontExpires(r) PROVE LedgerMoves
    <2>1. Waiters' = Waiters \ {r} /\ r \in Waiters
      BY <1>13 DEF TypeOK, Waiters, FrontExpires, TimedOut, Return, Looking
    <2>2. tally' = [tally EXCEPT !["timedOut"] = @ + 1]
      BY <1>13 DEF FrontExpires, Count, TimedOut, Return, Looking
    <2> QED BY <2>1, <2>2 DEF LedgerMoves
  <1>14. ASSUME NEW r \in Req, WaiterExpires(r) PROVE LedgerMoves
    <2>1. Waiters' = Waiters \ {r} /\ r \in Waiters
      BY <1>14 DEF TypeOK, Waiters, WaiterExpires, TimedOut, Return, Looking
    <2>2. tally' = [tally EXCEPT !["timedOut"] = @ + 1]
      BY <1>14 DEF WaiterExpires, Count, TimedOut, Return, Looking
    <2> QED BY <2>1, <2>2 DEF LedgerMoves
  <1>15. ASSUME NEW r \in Req, AdapterReturns(r) PROVE LedgerMoves
    BY <1>15 DEF TypeOK, LedgerMoves, Waiters, AdapterReturns, Executing, Complete, SetStatus,
        Release, Return
  <1>16. ASSUME NEW r \in Req, AdapterFails(r) PROVE LedgerMoves
    BY <1>16 DEF TypeOK, LedgerMoves, Waiters, AdapterFails, Executing, Fail, SetStatus,
        Release, Return
  <1>17. ASSUME NEW r \in Req, FirstChunk(r) PROVE LedgerMoves
    BY <1>17 DEF TypeOK, LedgerMoves, Waiters, FirstChunk, Executing
  <1>18. ASSUME NEW r \in Req, BodyNeverStarts(r) PROVE LedgerMoves
    BY <1>18 DEF TypeOK, LedgerMoves, Waiters, BodyNeverStarts, Executing, Return
  <1>19. ASSUME NEW r \in Req, BodyFinishes(r) PROVE LedgerMoves
    BY <1>19 DEF TypeOK, LedgerMoves, Waiters, BodyFinishes, Complete, SetStatus, Release,
        Return
  <1>20. ASSUME NEW r \in Req, BodyBreaks(r) PROVE LedgerMoves
    BY <1>20 DEF TypeOK, LedgerMoves, Waiters, BodyBreaks, CancelRecord, SetStatus, Release,
        Return
  <1>21. ASSUME NEW r \in Req, CancelEndpoint(r) PROVE LedgerMoves
    BY <1>21 DEF TypeOK, LedgerMoves, Waiters, CancelEndpoint, CancelRecord, SetStatus, Release
  <1>22. ASSUME NEW r \in Req, ClientHangsUp(r) PROVE LedgerMoves
    BY <1>22 DEF TypeOK, LedgerMoves, Waiters, ClientHangsUp
  <1>23. ASSUME NEW p \in Profiles \cup {NoProfile}, Recalibrate(p) PROVE LedgerMoves
    BY <1>23 DEF TypeOK, LedgerMoves, Waiters, Recalibrate
  <1>24. CASE Tick
    BY <1>24 DEF TypeOK, LedgerMoves, Waiters, Tick
  <1>25. CASE UNCHANGED vars
    BY <1>25 DEF TypeOK, LedgerMoves, Waiters, vars
  <1> QED
    BY <1>1, <1>2, <1>3, <1>4, <1>5, <1>6, <1>7, <1>8, <1>9, <1>10, <1>11, <1>12,
       <1>13, <1>14, <1>15, <1>16, <1>17, <1>18, <1>19, <1>20, <1>21, <1>22, <1>23, <1>24, <1>25
    DEF Next, Arrive, Poll, AdapterStep, AllAnswered

\* A step that keeps the books keeps the ledger in balance.
LEMMA LedgerBalance ==
    ASSUME StateInv, QueueLedger, [Next]_vars
    PROVE  QueueLedger'
  <1>1. tally \in [Counters -> Nat] /\ Waiters \in SUBSET Req
    BY DEF StateInv, TypeOK, Waiters
  <1>2. tally["queued"] = tally["dequeued"] + tally["timedOut"] + tally["cancelled"]
                            + Cardinality(Waiters)
    BY DEF QueueLedger, Waiters
  <1> SUFFICES tally'["queued"] = tally'["dequeued"] + tally'["timedOut"]
                                    + tally'["cancelled"] + Cardinality(Waiters')
    BY DEF QueueLedger, Waiters
  <1>3. CASE Waiters' = Waiters /\ tally' = tally
    BY <1>2, <1>3
  <1>4. CASE \E x \in Req \ Waiters :
               Waiters' = Waiters \cup {x} /\ tally' = [tally EXCEPT !["queued"] = @ + 1]
    <2>1. PICK x \in Req \ Waiters :
            Waiters' = Waiters \cup {x} /\ tally' = [tally EXCEPT !["queued"] = @ + 1]
      BY <1>4
    <2>2. Cardinality(Waiters') = Cardinality(Waiters) + 1 /\ Cardinality(Waiters) \in Nat
      BY <1>1, <2>1, CountOfRequests
    <2> QED BY <1>1, <1>2, <2>1, <2>2 DEF Counters
  <1>5. CASE \E x \in Waiters, c \in {"dequeued", "timedOut", "cancelled"} :
               Waiters' = Waiters \ {x} /\ tally' = [tally EXCEPT ![c] = @ + 1]
    <2>1. PICK x \in Waiters, c \in {"dequeued", "timedOut", "cancelled"} :
            Waiters' = Waiters \ {x} /\ tally' = [tally EXCEPT ![c] = @ + 1]
      BY <1>5
    <2>2. Cardinality(Waiters') = Cardinality(Waiters) - 1 /\ Cardinality(Waiters) \in Nat
      BY <1>1, <2>1, CountOfRequests
    <2> QED BY <1>1, <1>2, <2>1, <2>2 DEF Counters
  <1> QED BY <1>3, <1>4, <1>5, LedgerStep DEF LedgerMoves

\* queue_depth stays within the configured maximum.
LEMMA DepthBalance ==
    ASSUME StateInv, StateInv', QueueDepth <= MaxQueueDepth, [Next]_vars
    PROVE  QueueDepth' <= MaxQueueDepth
  <1>1. Waiting \in SUBSET Req /\ Waiting' \in SUBSET Req
    BY DEF Waiting
  <1>2. \A A \in SUBSET Req : IsFiniteSet(A) /\ Cardinality(A) \in Nat
    BY BrokerAssumption, FS_Subset, FS_CardinalityType
  <1>3. CASE Waiting' \subseteq Waiting
    <2>1. Cardinality(Waiting') <= Cardinality(Waiting)
      BY <1>1, <1>2, <1>3, FS_Subset
    <2> QED BY <1>1, <1>2, <2>1, BrokerAssumption DEF QueueDepth
  <1>4. ASSUME QueueDepth < MaxQueueDepth, NEW x \in Req, Waiting' \subseteq Waiting \cup {x}
        PROVE  QueueDepth' <= MaxQueueDepth
    <2>1. Cardinality(Waiting') <= Cardinality(Waiting \cup {x})
      BY <1>1, <1>2, <1>4, FS_Subset
    <2>2. Cardinality(Waiting \cup {x}) <= Cardinality(Waiting) + 1
      BY <1>1, <1>2, FS_AddElement
    <2>3. Waiting \cup {x} \in SUBSET Req
      BY <1>1
    <2> QED BY <1>1, <1>2, <1>4, <2>1, <2>2, <2>3, BrokerAssumption DEF QueueDepth
  <1> QED BY <1>3, <1>4, DepthStep DEF DepthGrowsByOne

\* queue_depth, which admission tests, is the number of uncancelled entries of the
\* deque and stays within the maximum, and the four queue counters of the runtime
\* balance: every queued request left the queue in exactly one counted way.
THEOREM CountersAreHonest == Spec => []CountersHonest
  <1> DEFINE DepthOK == QueueDepth <= MaxQueueDepth
  <1>1. Init => QueueLedger /\ DepthOK
    <2> SUFFICES ASSUME Init PROVE QueueLedger /\ DepthOK
      OBVIOUS
    <2>1. Waiting = {} /\ {r \in Req : pc[r] = "waiting"} = {}
      BY DEF Init, Waiting
    <2>2. Cardinality(Waiting) = 0 /\ Cardinality({r \in Req : pc[r] = "waiting"}) = 0
      BY <2>1, FS_EmptySet
    <2>3. \A c \in Counters : tally[c] = 0
      BY DEF Init
    <2> QED BY <2>2, <2>3, BrokerAssumption DEF Counters, QueueLedger, QueueDepth
  <1>2. StateInv /\ StateInv' /\ QueueLedger /\ DepthOK /\ [Next]_vars => QueueLedger' /\ DepthOK'
    BY LedgerBalance, DepthBalance
  <1>3. StateInv /\ RecordInv /\ QueueLedger /\ DepthOK => CountersHonest
    BY WaitingIsQueued DEF CountersHonest, DepthHonest, QueueDepth
  <1> HIDE DEF DepthOK
  <1> QED BY <1>1, <1>2, <1>3, StateInvariant, RecordInvariant, PTL DEF Spec

(***************************************************************************)
(* The order of service                                                    *)
(***************************************************************************)
\* Under FIFO an entry older than the selected one, of the same lane, has expired:
\* it was a candidate otherwise.
LEMMA GrantIsOldest ==
    ASSUME StateInv, Policy = "fifo", NEW i \in Candidates, Selects(i), NEW x \in Req,
           Before(x, queue[i]), req[x].lane = req[queue[i]].lane
    PROVE  Expired(x)
  <1>1. i \in DOMAIN queue /\ EntryEligible(queue[i]) /\ \A j \in Candidates : i <= j
    BY DEF Candidates, Selects, ChooseNext, ChooseFifo, IsOldest
  <1>2. PICK a \in DOMAIN queue, b \in DOMAIN queue :
          a < b /\ queue[a] = x /\ queue[b] = queue[i]
    BY DEF Before
  <1>3. b = i /\ a \in Nat /\ i \in Nat
    BY <1>1, <1>2 DEF StateInv, TypeOK, QueueIntegrity, NoDuplicates
  <1>4. a \notin Candidates
    BY <1>1, <1>2, <1>3
  <1>5. EntryEligible(x)
    BY <1>1 DEF EntryEligible
  <1> QED BY <1>2, <1>4, <1>5 DEF Candidates

FifoStep ==
    Policy = "fifo" =>
      \A r, s \in Req : (Leaves(s) /\ Before(r, s) /\ req[r].lane = req[s].lane) => Expired(r)

\* No step grants an entry past an older live entry of its lane.
LEMMA OrderStep ==
    ASSUME StateInv, [Next]_vars
    PROVE  FifoStep
  <1> USE BrokerAssumption DEF StateInv
  <1>1. ASSUME NEW r \in Req, Refuse(r) PROVE FifoStep
    BY <1>1 DEF FifoStep, Leaves, Refuse, Return, Idle
  <1>2. ASSUME NEW r \in Req, ChatRuns(r) PROVE FifoStep
    BY <1>2 DEF FifoStep, Leaves, ChatRuns, StartNow, SetStatus, StartedStatus, Idle
  <1>3. ASSUME NEW r \in Req, ChatQueues(r) PROVE FifoStep
    BY <1>3 DEF FifoStep, Leaves, ChatQueues, SetStatus, Count, Idle
  <1>4. ASSUME NEW r \in Req, ChatOverloaded(r) PROVE FifoStep
    BY <1>4 DEF FifoStep, Leaves, ChatOverloaded, Return, Idle
  <1>5. ASSUME NEW r \in Req, GenerateRuns(r) PROVE FifoStep
    BY <1>5 DEF FifoStep, Leaves, GenerateRuns, StartNow, SetStatus, StartedStatus, Idle
  <1>6. ASSUME NEW r \in Req, GenerateOverloaded(r) PROVE FifoStep
    BY <1>6 DEF FifoStep, Leaves, GenerateOverloaded, Return, Idle
  <1>7. ASSUME NEW r \in Req, WaiterCancelled(r) PROVE FifoStep
    BY <1>7 DEF FifoStep, Leaves, WaiterCancelled, SetStatus, Release, Return, Count
  <1>8. ASSUME NEW r \in Req, WaiterGranted(r) PROVE FifoStep
    BY <1>8 DEF FifoStep, Leaves, WaiterGranted, Proceed, StartedStatus, StreamUnsupported,
        SetStatus, Release, Count
  <1>9. ASSUME NEW r \in Req, WaiterGrantExpired(r) PROVE FifoStep
    BY <1>9 DEF FifoStep, Leaves, WaiterGrantExpired, SetStatus, Release, Return, Count
  <1>10. ASSUME NEW r \in Req, FrontRuns(r) PROVE FifoStep
    <2>1. IsFront(r) /\ granted' = granted \cup {r}
      BY <1>10 DEF FrontRuns
    <2> QED BY SMTT(40), <2>1 DEF TypeOK, FifoStep, Leaves, Before, IsFront, QueueIntegrity, NoDuplicates
  <1>11. ASSUME NEW r \in Req, FrontDefers(r) PROVE FifoStep
    <2>1. PICK i \in Candidates : Selects(i) /\ GrantOther(i, {})
      BY <1>11 DEF FrontDefers
    <2> QED BY <2>1, GrantIsOldest DEF FifoStep, Leaves, GrantOther
  <1>12. ASSUME NEW r \in Req, FrontDefersAndExpires(r) PROVE FifoStep
    <2>1. PICK i \in Candidates : Selects(i) /\ GrantOther(i, {r})
      BY <1>12 DEF FrontDefersAndExpires
    <2> QED BY <2>1, GrantIsOldest DEF FifoStep, Leaves, GrantOther
  <1>13. ASSUME NEW r \in Req, FrontExpires(r) PROVE FifoStep
    BY <1>13 DEF FifoStep, Leaves, FrontExpires, TimedOut, SetStatus, Return, Release, Count,
        Looking
  <1>14. ASSUME NEW r \in Req, WaiterExpires(r) PROVE FifoStep
    BY <1>14 DEF FifoStep, Leaves, WaiterExpires, TimedOut, SetStatus, Return, Release, Count,
        Looking
  <1>15. ASSUME NEW r \in Req, AdapterReturns(r) PROVE FifoStep
    BY <1>15 DEF FifoStep, Leaves, AdapterReturns, Executing, Complete, SetStatus, Release,
        Return
  <1>16. ASSUME NEW r \in Req, AdapterFails(r) PROVE FifoStep
    BY <1>16 DEF FifoStep, Leaves, AdapterFails, Executing, Fail, SetStatus, Release, Return
  <1>17. ASSUME NEW r \in Req, FirstChunk(r) PROVE FifoStep
    BY <1>17 DEF FifoStep, Leaves, FirstChunk, Executing
  <1>18. ASSUME NEW r \in Req, BodyNeverStarts(r) PROVE FifoStep
    BY <1>18 DEF FifoStep, Leaves, BodyNeverStarts, Executing, Return
  <1>19. ASSUME NEW r \in Req, BodyFinishes(r) PROVE FifoStep
    BY <1>19 DEF FifoStep, Leaves, BodyFinishes, Complete, SetStatus, Release, Return
  <1>20. ASSUME NEW r \in Req, BodyBreaks(r) PROVE FifoStep
    BY <1>20 DEF FifoStep, Leaves, BodyBreaks, CancelRecord, SetStatus, Release, Return
  <1>21. ASSUME NEW r \in Req, CancelEndpoint(r) PROVE FifoStep
    BY <1>21 DEF FifoStep, Leaves, CancelEndpoint, CancelRecord, SetStatus, Release
  <1>22. ASSUME NEW r \in Req, ClientHangsUp(r) PROVE FifoStep
    BY <1>22 DEF FifoStep, Leaves, ClientHangsUp
  <1>23. ASSUME NEW p \in Profiles \cup {NoProfile}, Recalibrate(p) PROVE FifoStep
    BY <1>23 DEF FifoStep, Leaves, Recalibrate
  <1>24. CASE Tick
    BY <1>24 DEF FifoStep, Leaves, Tick
  <1>25. CASE UNCHANGED vars
    BY <1>25 DEF FifoStep, Leaves, vars
  <1> QED
    BY <1>1, <1>2, <1>3, <1>4, <1>5, <1>6, <1>7, <1>8, <1>9, <1>10, <1>11, <1>12,
       <1>13, <1>14, <1>15, <1>16, <1>17, <1>18, <1>19, <1>20, <1>21, <1>22, <1>23, <1>24, <1>25
    DEF Next, Arrive, Poll, AdapterStep, AllAnswered

\* Under the FIFO policy each lane is served in order of arrival, whoever polls the
\* queue: only entries past their deadline are passed over.
THEOREM LanesAreServedInOrder == Spec => FifoWithinLane
  <1>1. StateInv /\ [Next]_vars => FifoStep
    BY OrderStep
  <1>2. StateInv /\ [Next]_vars
          => (Policy = "fifo" =>
                \A r, s \in Req :
                  (Leaves(s) /\ Before(r, s) /\ req[r].lane = req[s].lane) => Expired(r))
    BY <1>1 DEF FifoStep
  <1> QED BY <1>2, StateInvariant, PTL DEF Spec, FifoWithinLane

(***************************************************************************)
(* Bypasses.  The scheduler tests the count of the oldest candidate only.  *)
(* When all requests share a lane, every choice that skips an entry skips  *)
(* all live entries ahead of it, so nobody has a higher count than an      *)
(* entry ahead (OrderInv).  With several lanes an entry ahead may be left  *)
(* out of a choice because its lane is full, and its lower count bounds    *)
(* nobody else's.  But every bypass of an entry also uses up one bypass    *)
(* that the oldest candidate, which is the entry or one ahead of it, still *)
(* had to give: what the entry has suffered and what those up to it have   *)
(* left never grows (SlackInv).                                            *)
(***************************************************************************)
OrderInv ==
    /\ \A x, y \in Req : Before(x, y) /\ ~Expired(x) => bypass[y] <= bypass[x]
    /\ \A r \in Req : bypass[r] <= MaxBypass

\* The bypasses that y and the entries ahead of it have left.
Slack(y) ==
    {u \in Req \X (1..MaxBypass) : (u[1] = y \/ Before(u[1], y)) /\ bypass[u[1]] < u[2]}

Most == MaxBypass * (MaxQueueDepth + Cardinality(token))

SlackInv == \A y \in Entries(queue) : bypass[y] + Cardinality(Slack(y)) <= Most

BypassInv ==
    /\ \A r \in Req : r \notin Entries(queue) => bypass[r] = 0
    /\ SameLane => OrderInv
    /\ SlackInv

\* A non-empty set of numbers has a least element.
LEMMA LeastNumber ==
    ASSUME NEW T, T \subseteq Nat, T # {}
    PROVE  \E x \in T : \A y \in T : x <= y
  <1>1. PICK x \in T : \A y \in T : ~(<<y, x>> \in OpToRel(<, Nat))
    BY NatLessThanWellFounded, WFMin
  <1>2. ASSUME NEW y \in T PROVE x <= y
    <2>1. x \in Nat /\ y \in Nat
      OBVIOUS
    <2>2. ~(y < x)
      BY <1>1, <2>1 DEF OpToRel
    <2> QED BY <2>1, <2>2
  <1> QED BY <1>2

\* Nobody changes what was asked for, and no cancellation is taken back.
LEMMA RequestsStay ==
    ASSUME [Next]_vars
    PROVE  req' = req /\ token \subseteq token'
  <1>1. ASSUME NEW r \in Req, Arrive(r) PROVE req' = req /\ token \subseteq token'
    BY <1>1 DEF Arrive, Refuse, ChatRuns, StartNow, ChatQueues, ChatOverloaded, GenerateRuns, GenerateOverloaded
  <1>2. ASSUME NEW r \in Req, Poll(r) PROVE req' = req /\ token \subseteq token'
    BY <1>2 DEF Poll, WaiterCancelled, WaiterGranted, WaiterGrantExpired, FrontRuns, FrontDefers,
       FrontDefersAndExpires, FrontExpires, WaiterExpires
  <1>3. ASSUME NEW r \in Req, AdapterStep(r) \/ CancelEndpoint(r) \/ ClientHangsUp(r)
        PROVE  req' = req /\ token \subseteq token'
    BY <1>3 DEF AdapterStep, AdapterReturns, AdapterFails, FirstChunk, BodyNeverStarts, BodyFinishes,
       BodyBreaks, CancelEndpoint, ClientHangsUp
  <1>4. ASSUME NEW p \in Profiles \cup {NoProfile}, Recalibrate(p) PROVE req' = req /\ token \subseteq token'
    BY <1>4 DEF Recalibrate
  <1>5. CASE Tick
    BY <1>5 DEF Tick
  <1>6. CASE UNCHANGED vars
    BY <1>6 DEF vars
  <1> QED BY <1>1, <1>2, <1>3, <1>4, <1>5, <1>6 DEF Next, AllAnswered

\* Multiplication grows with its argument.
LEMMA ProductGrows ==
    ASSUME NEW a \in Nat, NEW b \in Nat, NEW c \in Nat, b <= c
    PROVE  a * b \in Nat /\ a * b <= a * c
  <1>1. c - b \in Nat /\ c = b + (c - b)
    OBVIOUS
  <1>2. a * c = a * b + a * (c - b)
    BY <1>1
  <1>3. a * b \in Nat /\ a * (c - b) \in Nat
    BY <1>1
  <1> QED BY <1>2, <1>3

\* The bound is a number, and grows with the cancellations.
LEMMA MostIsNumber ==
    ASSUME StateInv
    PROVE  Most \in Nat
  <1>1. token \in SUBSET Req
    BY DEF StateInv, TypeOK
  <1>2. Cardinality(token) \in Nat
    BY <1>1, BrokerAssumption, FS_Subset, FS_CardinalityType
  <1>3. MaxBypass \in Nat /\ MaxQueueDepth + Cardinality(token) \in Nat
    BY <1>2, BrokerAssumption, SchedulerAssumption
  <1> QED BY <1>3, ProductGrows DEF Most

LEMMA MostGrows ==
    ASSUME StateInv, StateInv', token \subseteq token'
    PROVE  Most \in Nat /\ Most' \in Nat /\ Most <= Most'
  <1>1. token' \in SUBSET Req
    BY DEF StateInv, TypeOK
  <1>2. /\ IsFiniteSet(token') /\ Cardinality(token) \in Nat /\ Cardinality(token') \in Nat
        /\ Cardinality(token) <= Cardinality(token')
    BY <1>1, BrokerAssumption, FS_Subset, FS_CardinalityType
  <1> DEFINE c == MaxQueueDepth + Cardinality(token)
             d == MaxQueueDepth + Cardinality(token')
  <1>3. MaxBypass \in Nat /\ c \in Nat /\ d \in Nat /\ c <= d
    BY <1>2, BrokerAssumption, SchedulerAssumption
  <1>4. Most = MaxBypass * c /\ Most' = MaxBypass * d
    BY DEF Most
  <1> HIDE DEF c, d
  <1>5. MaxBypass * c \in Nat /\ MaxBypass * c <= MaxBypass * d
    BY <1>3, ProductGrows
  <1>6. MaxBypass * d \in Nat
    BY <1>3, ProductGrows
  <1> QED BY <1>4, <1>5, <1>6

\* Sets of bypasses are finite.
LEMMA UnitsAreFinite ==
    ASSUME NEW S, S \subseteq Req \X (1..MaxBypass)
    PROVE  /\ IsFiniteSet(1..MaxBypass) /\ Cardinality(1..MaxBypass) = MaxBypass
           /\ IsFiniteSet(S) /\ Cardinality(S) \in Nat
  <1>1. 1 \in Int /\ MaxBypass \in Int /\ MaxBypass \in Nat
    BY SchedulerAssumption
  <1>2. /\ IsFiniteSet(1..MaxBypass)
        /\ Cardinality(1..MaxBypass) = IF 1 > MaxBypass THEN 0 ELSE MaxBypass - 1 + 1
    BY <1>1, FS_Interval
  <1>3. IsFiniteSet(Req \X (1..MaxBypass))
    BY <1>2, BrokerAssumption, FS_Product
  <1>4. IsFiniteSet(S)
    BY <1>3, FS_Subset
  <1> QED BY <1>1, <1>2, <1>4, FS_CardinalityType

\* An entry keeps its slack or loses some, when nobody gets ahead of it and no
\* count up to it falls.
LEMMA SlackFalls ==
    ASSUME StateInv, StateInv', NEW y \in Req,
           \A x \in Req : Before(x, y)' => Before(x, y),
           \A x \in Req : x = y \/ Before(x, y)' => bypass[x] <= bypass'[x]
    PROVE  /\ Slack(y)' \subseteq Slack(y) /\ IsFiniteSet(Slack(y))
           /\ Cardinality(Slack(y)) \in Nat /\ Cardinality(Slack(y)') \in Nat
           /\ Cardinality(Slack(y)') <= Cardinality(Slack(y))
  <1>1. /\ \A x \in Req : bypass[x] \in Nat /\ bypass'[x] \in Nat
        /\ \A n \in 1..MaxBypass : n \in Nat
    BY DEF StateInv, TypeOK
  <1>2. Slack(y) \subseteq Req \X (1..MaxBypass) /\ Slack(y)' \subseteq Req \X (1..MaxBypass)
    BY DEF Slack
  <1>3. ASSUME NEW u \in Req \X (1..MaxBypass), u \in Slack(y)' PROVE u \in Slack(y)
    <2>1. u[1] \in Req /\ u[2] \in 1..MaxBypass
      OBVIOUS
    <2>2. (u[1] = y \/ Before(u[1], y)') /\ bypass'[u[1]] < u[2]
      BY <1>3 DEF Slack
    <2>3. (u[1] = y \/ Before(u[1], y)) /\ bypass[u[1]] <= bypass'[u[1]]
      BY <2>1, <2>2
    <2>4. bypass[u[1]] < u[2]
      BY <1>1, <2>1, <2>2, <2>3
    <2> QED BY <2>3, <2>4 DEF Slack
  <1>4. Slack(y)' \subseteq Slack(y)
    BY <1>2, <1>3
  <1>5. /\ IsFiniteSet(Slack(y)) /\ Cardinality(Slack(y)) \in Nat
        /\ Cardinality(Slack(y)') \in Nat
    BY <1>2, UnitsAreFinite
  <1> QED BY <1>4, <1>5, FS_Subset

\* A step that leaves the queue and the counts alone, and revives nobody.
LEMMA QuietBypass ==
    ASSUME StateInv, StateInv', BypassInv, UNCHANGED <<req, queue, bypass>>, token \subseteq token',
           \A x \in Req : Expired(x) => Expired(x)'
    PROVE  BypassInv'
  <1>1. SameLane' => OrderInv'
    BY DEF BypassInv, OrderInv, SameLane, Before
  <1>2. \A r \in Req : r \notin Entries(queue') => bypass'[r] = 0
    BY DEF BypassInv
  <1>3. ASSUME NEW y \in Entries(queue') PROVE bypass'[y] + Cardinality(Slack(y)') <= Most'
    <2>1. y \in Entries(queue) /\ y \in Req /\ bypass'[y] = bypass[y] /\ bypass[y] \in Nat
      BY DEF StateInv, TypeOK, Entries
    <2>2. Slack(y)' = Slack(y)
      BY DEF Slack, Before
    <2>3. Cardinality(Slack(y)) \in Nat
      BY UnitsAreFinite DEF Slack
    <2>4. bypass[y] + Cardinality(Slack(y)) <= Most
      BY <2>1 DEF BypassInv, SlackInv
    <2> QED BY <2>1, <2>2, <2>3, <2>4, MostGrows
  <1>4. SlackInv'
    BY <1>3 DEF SlackInv
  <1> QED BY <1>1, <1>2, <1>4 DEF BypassInv

\* An entry leaves the queue, and its count with it.
LEMMA LeavingBypass ==
    ASSUME StateInv, StateInv', BypassInv, NEW r \in Req, LeaveQueue(r), UNCHANGED <<req, token, remaining>>
    PROVE  BypassInv'
  <1>1. /\ queue \in Seq(Req) /\ NoDuplicates(queue) /\ bypass \in [Req -> Nat]
        /\ queue' = Without(queue, r) /\ bypass' = [bypass EXCEPT ![r] = 0]
    BY DEF StateInv, TypeOK, QueueIntegrity, LeaveQueue
  <1>2. Entries(queue') = Entries(queue) \ {r}
    BY <1>1, WithoutFacts
  <1>3. ASSUME NEW x \in Req, NEW y \in Req, Before(x, y)'
        PROVE  Before(x, y) /\ x # r /\ y # r
    <2>1. x \in Entries(queue') /\ y \in Entries(queue')
      BY <1>3 DEF Before, Entries
    <2>2. CASE r \notin Entries(queue)
      BY <1>1, <1>2, <1>3, <2>1, <2>2 DEF Without, Before
    <2>3. CASE r \in Entries(queue)
      <3>1. PICK i \in DOMAIN queue : queue' = RemoveAt(queue, i)
        BY <1>1, <2>3 DEF Without, Entries
      <3>2. PICK a \in DOMAIN queue', b \in DOMAIN queue' : a < b /\ queue'[a] = x /\ queue'[b] = y
        BY <1>3 DEF Before
      <3>3. \E c, d \in DOMAIN queue : c < d /\ queue[c] = x /\ queue[d] = y
        BY <1>1, <3>1, <3>2, OrderSurvivesRemoval
      <3> QED BY <1>2, <2>1, <3>3 DEF Before
    <2> QED BY <2>2, <2>3
  <1>4. \A x \in Req : bypass'[x] = IF x = r THEN 0 ELSE bypass[x]
    BY <1>1
  <1>5. MaxBypass \in Nat /\ \A x \in Req : bypass[x] \in Nat
    BY <1>1, SchedulerAssumption
  <1>6. \A x \in Req : x \notin Entries(queue') => bypass'[x] = 0
    BY <1>2, <1>4 DEF BypassInv
  <1>7. ASSUME SameLane' PROVE OrderInv'
    <2>1. OrderInv
      BY <1>7 DEF BypassInv, SameLane
    <2>2. ASSUME NEW x \in Req, NEW y \in Req, Before(x, y)', ~Expired(x)'
          PROVE  bypass'[y] <= bypass'[x]
      BY <1>3, <1>4, <2>1, <2>2 DEF OrderInv, Expired
    <2>3. \A x \in Req : bypass'[x] <= MaxBypass
      BY <1>4, <1>5, <2>1 DEF OrderInv
    <2> QED BY <2>2, <2>3 DEF OrderInv
  <1>8. ASSUME NEW y \in Entries(queue') PROVE bypass'[y] + Cardinality(Slack(y)') <= Most'
    <2>1. y \in Entries(queue) /\ y # r
      BY <1>2
    <2>2. y \in Req
      BY <1>1, <2>1 DEF Entries
    <2>3. bypass'[y] = bypass[y] /\ bypass[y] \in Nat
      BY <1>4, <1>5, <2>1, <2>2
    <2>4. \A x \in Req : Before(x, y)' => Before(x, y)
      BY <1>3, <2>2
    <2>5. \A x \in Req : x = y \/ Before(x, y)' => bypass[x] <= bypass'[x]
      BY <1>3, <1>4, <1>5, <2>1, <2>2
    <2>6. /\ Cardinality(Slack(y)) \in Nat /\ Cardinality(Slack(y)') \in Nat
          /\ Cardinality(Slack(y)') <= Cardinality(Slack(y))
      BY <2>2, <2>4, <2>5, SlackFalls
    <2>7. bypass[y] + Cardinality(Slack(y)) <= Most
      BY <2>1 DEF BypassInv, SlackInv
    <2> QED BY <2>3, <2>6, <2>7, MostGrows
  <1>9. SlackInv'
    BY <1>8 DEF SlackInv
  <1> QED BY <1>6, <1>7, <1>9 DEF BypassInv

\* A choice that skips entries leaves the oldest candidate with a bypass to give.
LEMMA OldestHasRoom ==
    ASSUME StateInv, NEW i \in Candidates, Selects(i), NEW j \in Bypassed(i, Candidates)
    PROVE  \E o \in Bypassed(i, Candidates) : o <= j /\ bypass[queue[o]] < MaxBypass
  <1>1. queue \in Seq(Req) /\ \A k \in DOMAIN queue : k \in Nat
    BY DEF StateInv, TypeOK
  <1>2. i \in DOMAIN queue /\ j \in DOMAIN queue /\ j < i /\ j \in Candidates
    BY DEF Bypassed, Candidates
  <1>3. ~IsOldest(i, Candidates)
    BY <1>1, <1>2 DEF IsOldest
  <1>4. \A k \in Candidates : IsOldest(k, Candidates) => BypassAt[k] < MaxBypass
    BY <1>3 DEF Selects, ChooseNext, ChooseFifo, ChooseCacheAware
  <1>5. PICK o \in Candidates : IsOldest(o, Candidates)
    <2>1. Candidates \subseteq Nat /\ Candidates # {}
      BY <1>1, <1>2 DEF Candidates
    <2> QED BY <2>1, LeastNumber DEF IsOldest
  <1>6. o \in DOMAIN queue /\ o <= j /\ bypass[queue[o]] < MaxBypass
    BY <1>2, <1>4, <1>5 DEF IsOldest, Candidates, BypassAt
  <1>7. o < i
    BY <1>1, <1>2, <1>6
  <1> QED BY <1>5, <1>6, <1>7 DEF Bypassed

\* In one lane whom a choice skips stays within the bound, and it skips every live
\* entry ahead of the chosen one.
LEMMA SkippedHaveRoom ==
    ASSUME SameLane, StateInv, OrderInv, NEW i \in Candidates, Selects(i),
           NEW j \in Bypassed(i, Candidates)
    PROVE  /\ bypass[queue[j]] < MaxBypass
           /\ \A k \in DOMAIN queue : k < i /\ ~Expired(queue[k]) => k \in Bypassed(i, Candidates)
  <1>1. /\ queue \in Seq(Req) /\ bypass \in [Req -> Nat] /\ MaxBypass \in Nat
        /\ \A k \in DOMAIN queue : queue[k] \in Req /\ k \in Nat
    BY SchedulerAssumption DEF StateInv, TypeOK
  <1>2. i \in DOMAIN queue /\ EntryEligible(queue[i]) /\ j \in DOMAIN queue /\ j < i
    BY DEF Bypassed, Candidates
  <1>3. \A k \in DOMAIN queue : req[queue[k]].lane = req[queue[i]].lane
    BY <1>1, <1>2 DEF SameLane
  <1>4. \A k \in DOMAIN queue : EntryEligible(queue[k])
    BY <1>2, <1>3 DEF EntryEligible
  <1>5. \A k \in DOMAIN queue : k < i /\ ~Expired(queue[k]) => k \in Bypassed(i, Candidates)
    BY <1>4 DEF Candidates, Bypassed
  <1>6. PICK o \in Bypassed(i, Candidates) : o <= j /\ bypass[queue[o]] < MaxBypass
    BY OldestHasRoom
  <1>7. o \in DOMAIN queue /\ ~Expired(queue[o])
    BY DEF Bypassed, Candidates
  <1>8. bypass[queue[j]] <= bypass[queue[o]]
    <2>1. CASE o = j
      BY <1>1, <1>2, <2>1
    <2>2. CASE o # j
      <3>1. o < j
        BY <1>1, <1>2, <1>6, <1>7, <2>2
      <3>2. Before(queue[o], queue[j]) /\ queue[o] \in Req /\ queue[j] \in Req
        BY <1>1, <1>2, <1>7, <3>1 DEF Before
      <3> QED BY <1>7, <3>2 DEF OrderInv
    <2> QED BY <2>1, <2>2
  <1>9. bypass[queue[j]] \in Nat /\ bypass[queue[o]] \in Nat
    BY <1>1, <1>2, <1>7
  <1>10. bypass[queue[j]] < MaxBypass
    BY <1>1, <1>6, <1>8, <1>9
  <1> QED BY <1>5, <1>10

\* A grant to another waiter, with the entries of leaving taken out as well.
LEMMA GrantBypass ==
    ASSUME StateInv, StateInv', BypassInv, NEW i \in Candidates, Selects(i), NEW leaving \in SUBSET Req,
           GrantOther(i, leaving), UNCHANGED <<req, token, remaining>>,
           Entries(queue') = Entries(queue) \ (leaving \cup {queue[i]}),
           \A x, y \in Req : Before(x, y)' => Before(x, y)
    PROVE  BypassInv'
  <1> DEFINE Skipped(x) == \E j \in Bypassed(i, Candidates) : queue[j] = x
             Out == leaving \cup {queue[i]}
  <1>1. /\ queue \in Seq(Req) /\ bypass \in [Req -> Nat] /\ MaxBypass \in Nat /\ NoDuplicates(queue)
        /\ i \in DOMAIN queue /\ i \in Nat /\ \A k \in DOMAIN queue : queue[k] \in Req /\ k \in Nat
    BY SchedulerAssumption DEF StateInv, TypeOK, QueueIntegrity, Candidates
  <1>2. \A x \in Req : bypass'[x] = IF x \in Out THEN 0 ELSE IF Skipped(x) THEN bypass[x] + 1 ELSE bypass[x]
    BY DEF GrantOther
  <1>3. \A x \in Req : bypass[x] \in Nat
    BY <1>1
  <1>4. \A x \in Req : Skipped(x) => x \in Entries(queue)
    BY DEF Bypassed, Candidates, Entries
  <1>5. \A x \in Req : x \notin Entries(queue') => bypass'[x] = 0
    BY <1>2, <1>4 DEF BypassInv
  <1>6. ASSUME SameLane' PROVE OrderInv'
    <2>0. SameLane /\ OrderInv
      BY <1>6 DEF BypassInv, SameLane
    <2>1. \A x \in Req : bypass'[x] <= MaxBypass
      <3> SUFFICES ASSUME NEW x \in Req PROVE bypass'[x] <= MaxBypass
        OBVIOUS
      <3>1. bypass[x] <= MaxBypass
        BY <2>0 DEF OrderInv
      <3>2. Skipped(x) => bypass[x] < MaxBypass
        BY <2>0, SkippedHaveRoom
      <3> HIDE DEF Skipped, Out
      <3> QED BY <1>1, <1>2, <1>3, <3>1, <3>2
    <2>2. ASSUME NEW x \in Req, NEW y \in Req, Before(x, y)', ~Expired(x)'
          PROVE  bypass'[y] <= bypass'[x]
      <3>1. Before(x, y) /\ ~Expired(x) /\ bypass[y] <= bypass[x]
        BY <2>0, <2>2 DEF OrderInv, Expired
      <3>2. x \notin Out /\ y \notin Out
        BY <2>2 DEF Before, Entries
      <3>3. Skipped(y) => Skipped(x)
        <4> SUFFICES ASSUME NEW j \in Bypassed(i, Candidates), queue[j] = y PROVE Skipped(x)
          OBVIOUS
        <4>1. PICK a \in DOMAIN queue, b \in DOMAIN queue : a < b /\ queue[a] = x /\ queue[b] = y
          BY <3>1 DEF Before
        <4>2. j \in DOMAIN queue /\ j < i
          BY DEF Bypassed, Candidates
        <4>3. b = j
          BY <1>1, <4>1, <4>2 DEF NoDuplicates
        <4>4. a < i
          BY <1>1, <4>1, <4>2, <4>3
        <4> QED BY <2>0, <3>1, <4>1, <4>4, SkippedHaveRoom
      <3> HIDE DEF Skipped, Out
      <3> QED BY <1>2, <1>3, <3>1, <3>2, <3>3
    <2> QED BY <2>1, <2>2 DEF OrderInv
  <1>7. ASSUME NEW y \in Entries(queue') PROVE bypass'[y] + Cardinality(Slack(y)') <= Most'
    <2>1. y \in Entries(queue) /\ y \in Req /\ y \notin Out
      BY <1>1 DEF Entries
    <2>2. \A x \in Req : x = y \/ Before(x, y)' => x \in Req \ Out
      <3>1. \A x \in Req : Before(x, y)' => x \in Entries(queue')
        BY DEF Before, Entries
      <3> QED BY <2>1, <3>1
    <2>3. \A x \in Req : x = y \/ Before(x, y)' => bypass[x] <= bypass'[x]
      <3> HIDE DEF Skipped, Out
      <3> QED BY <1>2, <1>3, <2>2
    <2>4. /\ Slack(y)' \subseteq Slack(y) /\ IsFiniteSet(Slack(y))
          /\ Cardinality(Slack(y)) \in Nat /\ Cardinality(Slack(y)') \in Nat
          /\ Cardinality(Slack(y)') <= Cardinality(Slack(y))
      BY <2>1, <2>3, SlackFalls
    <2>5. bypass[y] + Cardinality(Slack(y)) <= Most
      BY <2>1 DEF BypassInv, SlackInv
    <2>6. CASE ~Skipped(y)
      <3>1. bypass'[y] = bypass[y] /\ bypass[y] \in Nat
        BY <1>2, <1>3, <2>1, <2>6
      <3> QED BY <2>4, <2>5, <3>1, MostGrows
    <2>7. CASE Skipped(y)
      <3>1. PICK j \in Bypassed(i, Candidates) : queue[j] = y
        BY <2>7
      <3>2. PICK o \in Bypassed(i, Candidates) : o <= j /\ bypass[queue[o]] < MaxBypass
        BY OldestHasRoom
      <3>3. j \in DOMAIN queue /\ o \in DOMAIN queue /\ queue[o] \in Req
        BY <1>1 DEF Bypassed, Candidates
      <3>4. PICK z \in Req : z = queue[o] /\ Skipped(z) /\ bypass[z] \in Nat /\ bypass[z] < MaxBypass
        BY <1>3, <3>2, <3>3
      <3>5. z = y \/ Before(z, y)
        <4>1. CASE o = j
          BY <3>1, <3>4, <4>1
        <4>2. CASE o < j
          BY <3>1, <3>3, <3>4, <4>2 DEF Before
        <4>3. o = j \/ o < j
          BY <1>1, <3>2, <3>3
        <4> QED BY <4>1, <4>2, <4>3
      <3>6. PICK u \in Req \X (1..MaxBypass) : u[1] = z /\ u[2] = bypass[z] + 1
        <4>1. bypass[z] + 1 \in 1..MaxBypass
          BY <3>4, SchedulerAssumption
        <4>2. <<z, bypass[z] + 1>> \in Req \X (1..MaxBypass)
          BY <3>4, <4>1
        <4> WITNESS <<z, bypass[z] + 1>> \in Req \X (1..MaxBypass)
        <4> QED OBVIOUS
      <3>7. u \in Slack(y)
        <4>1. bypass[u[1]] < u[2]
          BY <3>4, <3>6
        <4> QED BY <3>5, <3>6, <4>1 DEF Slack
      <3>8. u \notin Slack(y)'
        <4> SUFFICES ASSUME u \in Slack(y)' PROVE FALSE
          OBVIOUS
        <4>1. (z = y \/ Before(z, y)') /\ bypass'[z] < bypass[z] + 1
          <5>1. (u[1] = y \/ Before(u[1], y)') /\ bypass'[u[1]] < u[2]
            BY DEF Slack
          <5> QED BY <3>6, <5>1
        <4>2. z \in Req \ Out
          <5> HIDE DEF Out
          <5> QED BY <2>2, <3>4, <4>1
        <4>3. bypass'[z] = bypass[z] + 1
          <5> HIDE DEF Skipped, Out
          <5> QED BY <1>2, <3>4, <4>2
        <4> QED BY <3>4, <4>1, <4>3
      <3>9. Slack(y)' \in SUBSET (Slack(y) \ {u})
        BY <2>4, <3>8
      <3>10. IsFiniteSet(Slack(y) \ {u}) /\ Cardinality(Slack(y) \ {u}) = Cardinality(Slack(y)) - 1
        BY <2>4, <3>7, FS_RemoveElement
      <3>11. Cardinality(Slack(y)') <= Cardinality(Slack(y)) - 1
        <4>1. Cardinality(Slack(y)') <= Cardinality(Slack(y) \ {u})
          BY <3>9, <3>10, FS_Subset
        <4> QED BY <3>10, <4>1
      <3>12. bypass'[y] = bypass[y] + 1 /\ bypass[y] \in Nat
        <4> HIDE DEF Skipped, Out
        <4> QED BY <1>2, <1>3, <2>1, <2>7
      <3> QED BY <2>4, <2>5, <3>11, <3>12, MostGrows
    <2> QED BY <2>6, <2>7
  <1>8. SlackInv'
    BY <1>7 DEF SlackInv
  <1> QED BY <1>5, <1>6, <1>8 DEF BypassInv

\* The newcomer finds no more entries than the queue has places and cancellations.
LEMMA PlacesAhead ==
    ASSUME StateInv, RecordInv, QueueDepth < MaxQueueDepth, NEW r \in Req, r \notin Entries(queue)
    PROVE  /\ IsFiniteSet(Entries(queue) \cup {r}) /\ Cardinality(Entries(queue) \cup {r}) \in Nat
           /\ Cardinality(Entries(queue) \cup {r}) <= MaxQueueDepth + Cardinality(token)
  <1> DEFINE E == Entries(queue)
             A == E \ token
             B == E \cap token
  <1>1. E \in SUBSET Req /\ token \in SUBSET Req
    BY DEF StateInv, TypeOK, Entries
  <1>2. Cardinality(A) < MaxQueueDepth
    BY WaitingIsQueued DEF QueueDepth
  <1>3. /\ IsFiniteSet(E) /\ IsFiniteSet(A) /\ IsFiniteSet(B) /\ IsFiniteSet(token)
        /\ Cardinality(A) \in Nat /\ Cardinality(B) \in Nat /\ Cardinality(token) \in Nat
    <2>1. A \in SUBSET Req /\ B \in SUBSET Req
      BY <1>1
    <2> HIDE DEF A, B, E
    <2> QED BY <1>1, <2>1, BrokerAssumption, FS_Subset, FS_CardinalityType
  <1>4. Cardinality(E) = Cardinality(A) + Cardinality(B)
    <2>1. A \cap B = {}
      OBVIOUS
    <2>2. E = A \cup B
      OBVIOUS
    <2> HIDE DEF A, B, E
    <2>3. Cardinality(A \cup B) = Cardinality(A) + Cardinality(B) - Cardinality(A \cap B)
      BY <1>3, FS_Union
    <2>4. Cardinality(A \cap B) = 0
      BY <2>1, FS_EmptySet
    <2>5. Cardinality(A \cup B) = Cardinality(A) + Cardinality(B)
      BY <1>3, <2>3, <2>4
    <2> QED BY <2>2, <2>5
  <1>5. Cardinality(B) <= Cardinality(token)
    <2>1. B \in SUBSET token
      OBVIOUS
    <2> HIDE DEF A, B, E
    <2> QED BY <1>3, <2>1, FS_Subset
  <1>6. IsFiniteSet(E \cup {r}) /\ Cardinality(E \cup {r}) = Cardinality(E) + 1
    BY <1>3, FS_AddElement
  <1> HIDE DEF A, B, E
  <1>7. Cardinality(E \cup {r}) \in Nat /\ Cardinality(E \cup {r}) <= MaxQueueDepth + Cardinality(token)
    BY <1>2, <1>3, <1>4, <1>5, <1>6, BrokerAssumption
  <1> QED BY <1>6, <1>7 DEF E

\* A request joins the queue.
LEMMA ArrivingBypass ==
    ASSUME StateInv, StateInv', RecordInv, BypassInv, NEW r \in Req, ChatQueues(r)
    PROVE  BypassInv'
  <1>1. /\ queue' = Append(queue, r) /\ bypass' = bypass /\ pc[r] = "idle" /\ queue \in Seq(Req)
        /\ NoDuplicates(queue) /\ UNCHANGED <<req, token>>
        /\ \A x \in Req : x # r => remaining'[x] = remaining[x]
    BY DEF ChatQueues, Idle, StateInv, TypeOK, QueueIntegrity
  <1>2. r \notin Entries(queue) /\ bypass[r] = 0
    BY <1>1 DEF StateInv, QueueIntegrity, BypassInv
  <1>3. Entries(queue') = Entries(queue) \cup {r}
    BY <1>1, <1>2, AppendFacts
  <1>4. ASSUME NEW x \in Req, NEW y \in Req, Before(x, y)'
        PROVE  x # r /\ x \in Entries(queue) /\ (Before(x, y) \/ y = r)
    <2>1. PICK a \in DOMAIN queue', b \in DOMAIN queue' : a < b /\ queue'[a] = x /\ queue'[b] = y
      BY <1>4 DEF Before
    <2>2. /\ a \in 1..(Len(queue) + 1) /\ b \in 1..(Len(queue) + 1) /\ Len(queue) \in Nat
          /\ \A k \in 1..Len(queue) : queue'[k] = queue[k]
          /\ queue'[Len(queue) + 1] = r
      BY <1>1, <2>1
    <2>3. a \in DOMAIN queue /\ queue[a] = x
      BY <1>1, <2>1, <2>2
    <2>4. (b \in DOMAIN queue /\ queue[b] = y) \/ y = r
      BY <1>1, <2>1, <2>2
    <2> QED BY <1>2, <2>1, <2>3, <2>4 DEF Before, Entries
  <1>5. \A x \in Req : bypass[x] \in Nat
    BY DEF StateInv, TypeOK
  <1>6. \A x \in Req : x \notin Entries(queue') => bypass'[x] = 0
    BY <1>1, <1>3 DEF BypassInv
  <1>7. ASSUME SameLane' PROVE OrderInv'
    <2>1. OrderInv
      BY <1>1, <1>7 DEF BypassInv, SameLane
    <2>2. ASSUME NEW x \in Req, NEW y \in Req, Before(x, y)', ~Expired(x)'
          PROVE  bypass'[y] <= bypass'[x]
      <3>1. x # r /\ (Before(x, y) \/ y = r) /\ ~Expired(x)
        BY <1>1, <1>4, <2>2 DEF Expired
      <3> QED BY <1>1, <1>2, <1>5, <2>1, <3>1 DEF OrderInv
    <2> QED BY <1>1, <2>1, <2>2 DEF OrderInv
  <1>8. bypass'[r] + Cardinality(Slack(r)') <= Most'
    <2> DEFINE E == Entries(queue) \cup {r}
               U == E \X (1..MaxBypass)
    <2>1. QueueDepth < MaxQueueDepth
      BY DEF ChatQueues, Verdict, Evaluate, CapacityContext, QueueHasRoom, MemoryPressure,
         PressureOverride, GlobalAvailable, LaneAvailable
    <2>2. /\ IsFiniteSet(E) /\ Cardinality(E) \in Nat
          /\ Cardinality(E) <= MaxQueueDepth + Cardinality(token)
      BY <1>2, <2>1, PlacesAhead
    <2>3. Slack(r)' \in SUBSET U
      <3> SUFFICES ASSUME NEW u \in Slack(r)' PROVE u \in U
        OBVIOUS
      <3>1. u \in Req \X (1..MaxBypass) /\ (u[1] = r \/ Before(u[1], r)')
        BY DEF Slack
      <3>2. u[1] \in E
        BY <1>4, <3>1
      <3> HIDE DEF E
      <3> QED BY <3>1, <3>2
    <2>4. Slack(r)' \subseteq Req \X (1..MaxBypass)
      BY DEF Slack
    <2>5. /\ IsFiniteSet(1..MaxBypass) /\ Cardinality(1..MaxBypass) = MaxBypass
          /\ Cardinality(Slack(r)') \in Nat
      BY <2>4, UnitsAreFinite
    <2> HIDE DEF E
    <2>6. IsFiniteSet(U) /\ Cardinality(U) = Cardinality(E) * MaxBypass
      BY <2>2, <2>5, FS_Product
    <2>7. Cardinality(Slack(r)') <= Cardinality(U)
      <3> HIDE DEF U
      <3> QED BY <2>3, <2>6, FS_Subset
    <2>8. MaxBypass \in Nat /\ MaxQueueDepth \in Nat /\ Cardinality(token) \in Nat
      <3>1. token \in SUBSET Req
        BY DEF StateInv, TypeOK
      <3> QED BY <3>1, CountOfRequests, BrokerAssumption, SchedulerAssumption
    <2> DEFINE d == MaxQueueDepth + Cardinality(token)
    <2>9. d \in Nat /\ Cardinality(E) <= d /\ Most' = MaxBypass * d
      BY <1>1, <2>2, <2>8 DEF Most
    <2> HIDE DEF U, d
    <2>10. MaxBypass * Cardinality(E) \in Nat /\ MaxBypass * Cardinality(E) <= MaxBypass * d
      BY <2>2, <2>8, <2>9, ProductGrows
    <2>11. MaxBypass * d \in Nat
      BY <2>8, <2>9, ProductGrows
    <2>12. Cardinality(U) = MaxBypass * Cardinality(E)
      BY <2>2, <2>6, <2>8
    <2>13. bypass'[r] = 0
      BY <1>1, <1>2
    <2> QED BY <2>5, <2>7, <2>9, <2>10, <2>11, <2>12, <2>13
  <1>9. ASSUME NEW y \in Entries(queue), y # r PROVE bypass'[y] + Cardinality(Slack(y)') <= Most'
    <2>1. y \in Req /\ bypass'[y] = bypass[y] /\ bypass[y] \in Nat
      BY <1>1, <1>5 DEF Entries
    <2>2. \A x \in Req : Before(x, y)' => Before(x, y)
      BY <1>4, <1>9, <2>1
    <2>3. \A x \in Req : bypass[x] <= bypass'[x]
      BY <1>1, <1>5
    <2>4. /\ Cardinality(Slack(y)) \in Nat /\ Cardinality(Slack(y)') \in Nat
          /\ Cardinality(Slack(y)') <= Cardinality(Slack(y))
      BY <2>1, <2>2, <2>3, SlackFalls
    <2>5. bypass[y] + Cardinality(Slack(y)) <= Most
      BY <1>9 DEF BypassInv, SlackInv
    <2> QED BY <1>1, <2>1, <2>4, <2>5, MostGrows
  <1>10. SlackInv'
    BY <1>3, <1>8, <1>9 DEF SlackInv
  <1> QED BY <1>6, <1>7, <1>10 DEF BypassInv

\* Every step keeps the counts bounded.
LEMMA BypassStep ==
    ASSUME StateInv, StateInv', RecordInv, BypassInv, [Next]_vars
    PROVE  BypassInv'
  <1>0. queue \in Seq(Req) /\ NoDuplicates(queue) /\ req' = req /\ token \subseteq token'
    BY RequestsStay DEF StateInv, TypeOK, QueueIntegrity
  <1>1. CASE UNCHANGED <<queue, bypass, remaining>>
    BY <1>0, <1>1, QuietBypass DEF Expired
  <1>2. ASSUME NEW r \in Req, Arrive(r) PROVE BypassInv'
    BY <1>1, <1>2, ArrivingBypass
       DEF Arrive, Refuse, ChatRuns, StartNow, ChatOverloaded, GenerateRuns, GenerateOverloaded
  <1>3. ASSUME NEW r \in Req, Poll(r) PROVE BypassInv'
    <2>1. CASE FrontDefers(r)
      <3>1. PICK i \in Candidates : Selects(i) /\ GrantOther(i, {}) /\ queue' = RemoveAt(queue, i)
        BY <2>1 DEF FrontDefers
      <3>2. i \in DOMAIN queue /\ UNCHANGED <<req, token, remaining>>
        BY <2>1 DEF FrontDefers, Candidates
      <3>3. Entries(queue') = Entries(queue) \ ({} \cup {queue[i]})
        BY <1>0, <3>1, <3>2, RemoveAtFacts
      <3>4. \A x, y \in Req : Before(x, y)' => Before(x, y)
        BY <1>0, <3>1, <3>2, OrderSurvivesRemoval DEF Before
      <3> QED BY <3>1, <3>2, <3>3, <3>4, GrantBypass
    <2>2. CASE FrontDefersAndExpires(r)
      <3>1. PICK i \in Candidates :
               Selects(i) /\ GrantOther(i, {r}) /\ queue' = Without(RemoveAt(queue, i), r)
        BY <2>2 DEF FrontDefersAndExpires
      <3> DEFINE mid == RemoveAt(queue, i)
      <3>2. i \in DOMAIN queue /\ UNCHANGED <<req, token, remaining>>
        BY <2>2 DEF FrontDefersAndExpires, Candidates
      <3>3. mid \in Seq(Req) /\ NoDuplicates(mid) /\ Entries(mid) = Entries(queue) \ {queue[i]}
        BY <1>0, <3>2, RemoveAtFacts
      <3>4. Entries(queue') = Entries(mid) \ {r}
        BY <3>1, <3>3, WithoutFacts
      <3>5. ASSUME NEW x \in Req, NEW y \in Req, Before(x, y)' PROVE Before(x, y)
        <4>1. PICK a \in DOMAIN queue', b \in DOMAIN queue' : a < b /\ queue'[a] = x /\ queue'[b] = y
          BY <3>5 DEF Before
        <4>2. \E c, d \in DOMAIN mid : c < d /\ mid[c] = x /\ mid[d] = y
          <5> HIDE DEF mid
          <5>1. CASE r \notin Entries(mid)
            BY <3>1, <4>1, <5>1 DEF Without, mid
          <5>2. CASE r \in Entries(mid)
            <6>1. PICK k \in DOMAIN mid : queue' = RemoveAt(mid, k)
              BY <3>1, <5>2 DEF Without, Entries, mid
            <6> QED BY <3>3, <4>1, <6>1, OrderSurvivesRemoval
          <5> QED BY <5>1, <5>2
        <4>3. PICK c \in DOMAIN mid, d \in DOMAIN mid : c < d /\ mid[c] = x /\ mid[d] = y
          BY <4>2
        <4> QED BY <1>0, <3>2, <4>3, OrderSurvivesRemoval DEF Before
      <3>6. Entries(queue') = Entries(queue) \ ({r} \cup {queue[i]})
        BY <3>3, <3>4
      <3> QED BY <3>1, <3>2, <3>5, <3>6, GrantBypass
    <2>3. CASE ~FrontDefers(r) /\ ~FrontDefersAndExpires(r)
      BY <1>1, <1>3, <2>3, LeavingBypass
         DEF Poll, WaiterCancelled, WaiterGranted, WaiterGrantExpired, FrontRuns, FrontExpires, WaiterExpires
    <2> QED BY <2>1, <2>2, <2>3
  <1>4. ASSUME NEW r \in Req, AdapterStep(r) \/ CancelEndpoint(r) \/ ClientHangsUp(r) PROVE BypassInv'
    BY <1>1, <1>4 DEF AdapterStep, AdapterReturns, AdapterFails, FirstChunk, BodyNeverStarts, BodyFinishes,
       BodyBreaks, CancelEndpoint, ClientHangsUp
  <1>5. ASSUME NEW p \in Profiles \cup {NoProfile}, Recalibrate(p) PROVE BypassInv'
    BY <1>1, <1>5 DEF Recalibrate
  <1>6. CASE Tick
    <2>1. UNCHANGED <<queue, bypass>> /\ \A x \in Req : Expired(x) => Expired(x)'
      BY <1>6 DEF Tick, Expired
    <2> QED BY <1>0, <2>1, QuietBypass
  <1>7. CASE UNCHANGED vars
    BY <1>1, <1>7 DEF vars
  <1> QED BY <1>2, <1>3, <1>4, <1>5, <1>6, <1>7 DEF Next, AllAnswered

\* Cache affinity starves nobody: in one lane no request is bypassed more than the
\* maximum, with several lanes no more than the maximum for each place of the queue
\* and each cancelled request, although the scheduler tests the count of the oldest
\* candidate only and entries expire, are cancelled and are granted in between
\* (select_and_dequeue, choose_next).
THEOREM BypassesAreBounded == Spec => []BypassBound
  <1>1. Init => BypassInv
    BY SchedulerAssumption DEF Init, BypassInv, OrderInv, SlackInv, Before, Entries
  <1>2. StateInv /\ StateInv' /\ RecordInv /\ BypassInv /\ [Next]_vars => BypassInv'
    BY BypassStep
  <1>3. StateInv /\ BypassInv => BypassBound
    <2> SUFFICES ASSUME StateInv, BypassInv, NEW r \in Req
                 PROVE  bypass[r] <= Most /\ (SameLane => bypass[r] <= MaxBypass)
      BY DEF BypassBound, Most
    <2>1. SameLane => bypass[r] <= MaxBypass
      BY DEF BypassInv, OrderInv
    <2>2. bypass[r] \in Nat
      BY DEF StateInv, TypeOK
    <2>3. CASE r \in Entries(queue)
      <3>1. bypass[r] + Cardinality(Slack(r)) <= Most
        BY <2>3 DEF BypassInv, SlackInv
      <3>2. Cardinality(Slack(r)) \in Nat
        BY UnitsAreFinite DEF Slack
      <3>3. Most \in Nat
        BY MostIsNumber
      <3> QED BY <2>1, <2>2, <3>1, <3>2, <3>3
    <2>4. CASE r \notin Entries(queue)
      <3>1. bypass[r] = 0 /\ Most \in Nat
        BY <2>4, MostIsNumber DEF BypassInv
      <3> QED BY <2>1, <3>1
    <2> QED BY <2>3, <2>4
  <1> QED BY <1>1, <1>2, <1>3, StateInvariant, RecordInvariant, PTL DEF Spec

(***************************************************************************)
(* The refinement of the slot pool                                         *)
(***************************************************************************)
\* How the handler of x moves in one step: it never goes back, it enters the
\* adapter only with a slot, and once it was granted or started it never gains one.
HandlerMoves(x) ==
    /\ pc[x] = "idle" =>
         \/ pc'[x] \in {"idle", "done"}
         \/ pc'[x] = "waiting" /\ x \notin granted'
         \/ pc'[x] = "executing" /\ x \in Slots'
    /\ (pc[x] = "waiting" /\ x \notin granted) =>
         \/ pc'[x] = "waiting" /\ (x \in granted' => x \in Slots')
         \/ pc'[x] = "done"
         \/ pc'[x] = "executing" /\ x \in Slots'
    /\ (pc[x] = "waiting" /\ x \in granted) =>
         /\ pc'[x] \in {"waiting", "executing", "done"}
         /\ x \in granted'
         /\ x \in Slots' => x \in Slots
    /\ pc[x] \in {"executing", "body"} =>
         pc'[x] \in {"executing", "body", "done"} /\ (x \in Slots' => x \in Slots)
    /\ pc[x] = "done" => pc'[x] = "done" /\ (x \in Slots' => x \in Slots)

\* Every step moves every handler forward.
LEMMA MovesStep ==
    ASSUME StateInv, [Next]_vars
    PROVE  \A x \in Req : HandlerMoves(x)
  <1> USE BrokerAssumption DEF StateInv
  <1>1. ASSUME NEW r \in Req, Refuse(r) PROVE \A x \in Req : HandlerMoves(x)
    BY <1>1 DEF TypeOK, HandlerInv, HandlerMoves, Slots, ActiveRecords, Refuse, Return, Idle
  <1>2. ASSUME NEW r \in Req, ChatRuns(r) PROVE \A x \in Req : HandlerMoves(x)
    BY <1>2 DEF TypeOK, HandlerInv, HandlerMoves, Slots, ActiveRecords, ChatRuns, StartNow,
        SetStatus, StartedStatus, Idle
  <1>3. ASSUME NEW r \in Req, ChatQueues(r) PROVE \A x \in Req : HandlerMoves(x)
    BY <1>3 DEF TypeOK, HandlerInv, HandlerMoves, Slots, ActiveRecords, ChatQueues, SetStatus,
        Count, Idle
  <1>4. ASSUME NEW r \in Req, ChatOverloaded(r) PROVE \A x \in Req : HandlerMoves(x)
    BY <1>4 DEF TypeOK, HandlerInv, HandlerMoves, Slots, ActiveRecords, ChatOverloaded, Return,
        Idle
  <1>5. ASSUME NEW r \in Req, GenerateRuns(r) PROVE \A x \in Req : HandlerMoves(x)
    BY <1>5 DEF TypeOK, HandlerInv, HandlerMoves, Slots, ActiveRecords, GenerateRuns, StartNow,
        SetStatus, StartedStatus, Idle
  <1>6. ASSUME NEW r \in Req, GenerateOverloaded(r) PROVE \A x \in Req : HandlerMoves(x)
    BY <1>6 DEF TypeOK, HandlerInv, HandlerMoves, Slots, ActiveRecords, GenerateOverloaded,
        Return, Idle
  <1>7. ASSUME NEW r \in Req, WaiterCancelled(r) PROVE \A x \in Req : HandlerMoves(x)
    BY <1>7 DEF TypeOK, HandlerInv, HandlerMoves, Slots, ActiveRecords, WaiterCancelled,
        SetStatus, Release, Return, Count
  <1>8. ASSUME NEW r \in Req, WaiterGranted(r) PROVE \A x \in Req : HandlerMoves(x)
    BY <1>8 DEF TypeOK, HandlerInv, HandlerMoves, Slots, ActiveRecords, WaiterGranted, Proceed,
        StartedStatus, StreamUnsupported, SetStatus, Release, Count
  <1>9. ASSUME NEW r \in Req, WaiterGrantExpired(r) PROVE \A x \in Req : HandlerMoves(x)
    BY <1>9 DEF TypeOK, HandlerInv, HandlerMoves, Slots, ActiveRecords, WaiterGrantExpired,
        SetStatus, Release, Return, Count
  <1>10. ASSUME NEW r \in Req, FrontRuns(r) PROVE \A x \in Req : HandlerMoves(x)
    BY <1>10 DEF TypeOK, HandlerInv, HandlerMoves, Slots, ActiveRecords, FrontRuns, Proceed,
        StartedStatus, StreamUnsupported, SetStatus, Looking, Count
  <1>11. ASSUME NEW r \in Req, FrontDefers(r) PROVE \A x \in Req : HandlerMoves(x)
    <2>1. PICK i \in Candidates : GrantOther(i, {})
      BY <1>11 DEF FrontDefers
    <2>2. queue[i] \in Req /\ pc[queue[i]] = "waiting" /\ queue[i] \notin granted
      BY <2>1 DEF Candidates, TypeOK, QueueIntegrity, Entries
    <2>3. /\ granted' = granted \cup {queue[i]}
          /\ reservations' = reservations \cup {queue[i]}
      BY <2>1 DEF GrantOther
    <2> QED BY <1>11, <2>2, <2>3 DEF TypeOK, HandlerMoves, Slots, ActiveRecords, FrontDefers
  <1>12. ASSUME NEW r \in Req, FrontDefersAndExpires(r) PROVE \A x \in Req : HandlerMoves(x)
    <2>1. PICK i \in Candidates : GrantOther(i, {r})
      BY <1>12 DEF FrontDefersAndExpires
    <2>2. queue[i] \in Req /\ pc[queue[i]] = "waiting" /\ queue[i] \notin granted
      BY <2>1 DEF Candidates, TypeOK, QueueIntegrity, Entries
    <2>3. /\ granted' = granted \cup {queue[i]}
          /\ reservations' = reservations \cup {queue[i]}
      BY <2>1 DEF GrantOther
    <2> QED BY <1>12, <2>2, <2>3 DEF TypeOK, HandlerMoves, Slots, ActiveRecords, FrontDefersAndExpires, TimedOut, SetStatus, Return, Looking
  <1>13. ASSUME NEW r \in Req, FrontExpires(r) PROVE \A x \in Req : HandlerMoves(x)
    BY <1>13 DEF TypeOK, HandlerInv, HandlerMoves, Slots, ActiveRecords, FrontExpires, TimedOut,
        SetStatus, Return, Release, Count, Looking
  <1>14. ASSUME NEW r \in Req, WaiterExpires(r) PROVE \A x \in Req : HandlerMoves(x)
    BY <1>14 DEF TypeOK, HandlerInv, HandlerMoves, Slots, ActiveRecords, WaiterExpires,
        TimedOut, SetStatus, Return, Release, Count, Looking
  <1>15. ASSUME NEW r \in Req, AdapterReturns(r) PROVE \A x \in Req : HandlerMoves(x)
    BY <1>15 DEF TypeOK, HandlerInv, HandlerMoves, Slots, ActiveRecords, AdapterReturns,
        Executing, Complete, SetStatus, Release, Return
  <1>16. ASSUME NEW r \in Req, AdapterFails(r) PROVE \A x \in Req : HandlerMoves(x)
    BY <1>16 DEF TypeOK, HandlerInv, HandlerMoves, Slots, ActiveRecords, AdapterFails,
        Executing, Fail, SetStatus, Release, Return
  <1>17. ASSUME NEW r \in Req, FirstChunk(r) PROVE \A x \in Req : HandlerMoves(x)
    BY <1>17 DEF TypeOK, HandlerInv, HandlerMoves, Slots, ActiveRecords, FirstChunk, Executing
  <1>18. ASSUME NEW r \in Req, BodyNeverStarts(r) PROVE \A x \in Req : HandlerMoves(x)
    BY <1>18 DEF TypeOK, HandlerInv, HandlerMoves, Slots, ActiveRecords, BodyNeverStarts,
        Executing, Return
  <1>19. ASSUME NEW r \in Req, BodyFinishes(r) PROVE \A x \in Req : HandlerMoves(x)
    BY <1>19 DEF TypeOK, HandlerInv, HandlerMoves, Slots, ActiveRecords, BodyFinishes, Complete,
        SetStatus, Release, Return
  <1>20. ASSUME NEW r \in Req, BodyBreaks(r) PROVE \A x \in Req : HandlerMoves(x)
    BY <1>20 DEF TypeOK, HandlerInv, HandlerMoves, Slots, ActiveRecords, BodyBreaks,
        CancelRecord, SetStatus, Release, Return
  <1>21. ASSUME NEW r \in Req, CancelEndpoint(r) PROVE \A x \in Req : HandlerMoves(x)
    BY <1>21 DEF TypeOK, HandlerInv, HandlerMoves, Slots, ActiveRecords, CancelEndpoint,
        CancelRecord, SetStatus, Release
  <1>22. ASSUME NEW r \in Req, ClientHangsUp(r) PROVE \A x \in Req : HandlerMoves(x)
    BY <1>22 DEF TypeOK, HandlerInv, HandlerMoves, Slots, ActiveRecords, ClientHangsUp
  <1>23. ASSUME NEW p \in Profiles \cup {NoProfile}, Recalibrate(p) PROVE \A x \in Req : HandlerMoves(x)
    BY <1>23 DEF TypeOK, HandlerInv, HandlerMoves, Slots, ActiveRecords, Recalibrate
  <1>24. CASE Tick
    BY <1>24 DEF TypeOK, HandlerInv, HandlerMoves, Slots, ActiveRecords, Tick
  <1>25. CASE UNCHANGED vars
    BY <1>25 DEF TypeOK, HandlerInv, HandlerMoves, Slots, ActiveRecords, vars
  <1> QED
    BY <1>1, <1>2, <1>3, <1>4, <1>5, <1>6, <1>7, <1>8, <1>9, <1>10, <1>11, <1>12,
       <1>13, <1>14, <1>15, <1>16, <1>17, <1>18, <1>19, <1>20, <1>21, <1>22, <1>23, <1>24, <1>25
    DEF Next, Arrive, Poll, AdapterStep, AllAnswered

\* The phase of a request, one case at a time.
LEMMA PhaseCases ==
    ASSUME StateInv, NEW x \in Req
    PROVE  /\ Phase(x) \in {"new", "waiting", "holding", "draining", "done"}
           /\ Phase(x) = "holding" <=> x \in Slots
           /\ x \notin Slots =>
                /\ Phase(x) = "new" <=> pc[x] = "idle"
                /\ Phase(x) = "done" <=> pc[x] = "done"
                /\ Phase(x) = "waiting" <=> pc[x] = "waiting" /\ x \notin granted
  BY DEF Phase, Slots

\* A request that takes no slot moves on as the pool allows.
LEMMA PhaseMovesOn ==
    ASSUME StateInv, StateInv', NEW x \in Req, HandlerMoves(x), x \in Slots' => x \in Slots
    PROVE  Phase(x)' \in Pool!MovesOn[Phase(x)]
  <1>1. pc[x] \in PCs /\ pc'[x] \in PCs
    BY DEF StateInv, TypeOK
  <1>2. /\ Phase(x) \in {"new", "waiting", "holding", "draining", "done"}
        /\ Phase(x) = "holding" <=> x \in Slots
        /\ x \notin Slots =>
             /\ Phase(x) = "new" <=> pc[x] = "idle"
             /\ Phase(x) = "done" <=> pc[x] = "done"
             /\ Phase(x) = "waiting" <=> pc[x] = "waiting" /\ x \notin granted
    BY PhaseCases
  <1>3. /\ Phase(x)' \in {"new", "waiting", "holding", "draining", "done"}
        /\ Phase(x)' = "holding" <=> x \in Slots'
        /\ x \notin Slots' =>
             /\ Phase(x)' = "new" <=> pc'[x] = "idle"
             /\ Phase(x)' = "done" <=> pc'[x] = "done"
             /\ Phase(x)' = "waiting" <=> pc'[x] = "waiting" /\ x \notin granted'
    BY DEF Phase, Slots
  <1>4. x \in Slots => pc[x] \in {"executing", "body", "done"} \/ (pc[x] = "waiting" /\ x \in granted)
    BY <1>1 DEF StateInv, HandlerInv, TypeOK, PCs, Slots, ActiveRecords
  <1>5. Pool!MovesOn = [new      |-> {"new", "waiting", "done"},
                        waiting  |-> {"waiting", "done"},
                        holding  |-> {"holding", "draining", "done"},
                        draining |-> {"draining", "done"},
                        done     |-> {"done"}]
    BY DEF Pool!MovesOn
  <1>6. CASE x \in Slots
    <2>1. Phase(x)' \in {"holding", "draining", "done"}
      BY <1>1, <1>3, <1>4, <1>6 DEF HandlerMoves, PCs
    <2> QED BY <1>2, <1>5, <1>6, <2>1
  <1>7. CASE x \notin Slots
    <2>1. Phase(x) = "new" => Phase(x)' \in {"new", "waiting", "done"}
      BY <1>1, <1>2, <1>3, <1>7 DEF HandlerMoves, PCs
    <2>2. Phase(x) = "waiting" => Phase(x)' \in {"waiting", "done"}
      BY <1>1, <1>2, <1>3, <1>7 DEF HandlerMoves, PCs
    <2>3. Phase(x) = "draining" => Phase(x)' \in {"draining", "done"}
      BY <1>1, <1>2, <1>3, <1>7 DEF HandlerMoves, PCs
    <2>4. Phase(x) = "done" => Phase(x)' = "done"
      BY <1>1, <1>2, <1>3, <1>7 DEF HandlerMoves, PCs
    <2> QED BY <1>2, <1>5, <1>7, <2>1, <2>2, <2>3, <2>4
  <1> QED BY <1>6, <1>7

\* A request that takes a slot was new or waiting, and the pool has a slot for it.
LEMMA PhaseTakesSlot ==
    ASSUME StateInv, StateInv', NEW x \in Req, HandlerMoves(x), EntryEligible(x),
           x \in Slots', x \notin Slots
    PROVE  Pool!TakeSlot(x)
  <1>1. Phase(x) \in {"new", "waiting"}
    BY PhaseCases DEF StateInv, TypeOK, PCs, HandlerMoves
  <1>2. Phase(x)' = "holding"
    BY DEF Phase, Slots
  <1>3. Pool!Holders = Slots
    BY PhaseCases DEF Pool!Holders, Slots, StateInv, TypeOK, ActiveRecords
  <1>4. Cardinality(Slots) < OperatorCeiling /\ IsFiniteSet(Slots)
    <2>1. profile \in Nat
      BY BrokerAssumption DEF StateInv, TypeOK, NoProfile
    <2>2. Limit \in 1..OperatorCeiling /\ OperatorCeiling \in Nat
      BY <2>1, LimitBounds DEF Limit
    <2>3. ActiveJobs = Cardinality(Slots) /\ IsFiniteSet(Slots)
      BY SlotCount
    <2>4. Cardinality(Slots) \in Nat /\ Cardinality(Slots) < Limit
      BY <2>3, FS_CardinalityType DEF EntryEligible, CapacityAvailable
    <2> QED BY <2>2, <2>3, <2>4
  <1>5. req[x].lane \in Lanes /\ \A y \in Slots : y \in Req
    BY DEF StateInv, TypeOK, Slots, ActiveRecords
  <1>6. Cardinality(InLane(Slots, req[x].lane)) < LaneSlots[req[x].lane]
    <2>1. CASE req[x].lane \in Uncapped
      <3>1. /\ Cardinality(InLane(Slots, req[x].lane)) <= Cardinality(Slots)
            /\ Cardinality(InLane(Slots, req[x].lane)) \in Nat
            /\ Cardinality(Slots) \in Nat
        <4>1. InLane(Slots, req[x].lane) \subseteq Slots
          BY DEF InLane
        <4> QED BY <1>4, <4>1, FS_Subset, FS_CardinalityType
      <3>2. OperatorCeiling \in Nat
        BY LimitBounds
      <3> QED BY <1>4, <1>5, <2>1, <3>1, <3>2 DEF LaneSlots
    <2>2. CASE req[x].lane \notin Uncapped
      BY <1>5, <2>2, SlotCount DEF EntryEligible, LaneHasRoom, LaneSlots
    <2> QED BY <2>1, <2>2
  <1>7. Pool!LaneHolders(req[x].lane) = InLane(Slots, req[x].lane)
    BY <1>3, <1>5 DEF Pool!LaneHolders, InLane
  <1>8. Pool!HasSlotFor(x)
    <2>1. [r \in Req |-> req[r].lane][x] = req[x].lane
      OBVIOUS
    <2>2. \A S : Pool!Cardinality(S) = Cardinality(S)
      BY DEF Pool!Cardinality, Cardinality
    <2> QED BY <1>3, <1>4, <1>6, <1>7, <2>1, <2>2 DEF Pool!HasSlotFor
  <1> QED BY <1>1, <1>2, <1>8 DEF Pool!TakeSlot

\* Every step of the broker is a step of the pool.
LEMMA PoolStep ==
    ASSUME StateInv, StateInv', [Next]_vars
    PROVE  Pool!PoolNext
  <1>1. \A x \in Req : HandlerMoves(x)
    BY MovesStep
  <1>2. SlotsGrowByOne
    BY SlotStep
  <1>3. req' = req
    BY ZenonT(60) DEF Next, Arrive, Poll, AdapterStep, AllAnswered, vars, Refuse, ChatRuns, StartNow,
       ChatQueues, ChatOverloaded, GenerateRuns, GenerateOverloaded, WaiterCancelled, WaiterGranted,
       WaiterGrantExpired, FrontRuns, FrontDefers, FrontDefersAndExpires, FrontExpires,
       WaiterExpires, AdapterReturns, AdapterFails, FirstChunk, BodyNeverStarts, BodyFinishes,
       BodyBreaks, CancelEndpoint, ClientHangsUp, Recalibrate, Tick
  <1>4. \A x \in Req : Phase(x)' \in Pool!Phases
    BY DEF Phase, Pool!Phases
  <1>5. ASSUME NEW x \in Req, x \in Slots' => x \in Slots
        PROVE  Phase(x)' \in Pool!MovesOn[Phase(x)]
    BY <1>1, <1>5, PhaseMovesOn
  <1>6. ASSUME NEW x \in Req, x \in Slots', x \notin Slots
        PROVE  /\ Pool!TakeSlot(x)
               /\ \A s \in Req \ {x} : Phase(s)' \in Pool!MovesOn[Phase(s)]
    <2>1. EntryEligible(x) /\ \A s \in Req \ {x} : s \in Slots' => s \in Slots
      BY <1>2, <1>6 DEF SlotsGrowByOne
    <2>2. Pool!TakeSlot(x)
      BY <1>1, <1>6, <2>1, PhaseTakesSlot
    <2> QED BY <1>5, <2>1, <2>2
  <1>7. ASSUME NEW x \in Req
        PROVE  \/ Phase(x)' \in Pool!MovesOn[Phase(x)]
               \/ Pool!TakeSlot(x) /\ \A s \in Req \ {x} : Phase(s)' \in Pool!MovesOn[Phase(s)]
    BY <1>5, <1>6
  <1> QED BY <1>3, <1>4, <1>7 DEF Pool!PoolNext

\* The broker implements the slot pool: the queue, the scheduler, grants, deadlines
\* and cancellation never hand out a slot that the pool would not, and never give one
\* back to a request that has lost it.
THEOREM BrokerImplementsSlotPool == Spec => ImplementsSlotPool
  <1>1. Init => Pool!PoolInit
    <2> SUFFICES ASSUME Init PROVE Pool!PoolInit
      OBVIOUS
    <2>1. \A r \in Req : req[r].lane \in Lanes /\ Phase(r) = "new"
      BY DEF Init, Phase, ActiveRecords
    <2> QED BY <2>1 DEF Pool!PoolInit
  <1>2. StateInv /\ StateInv' /\ [Next]_vars => [Pool!PoolNext]_(Pool!poolVars)
    BY PoolStep
  <1> QED BY <1>1, <1>2, StateInvariant, PTL DEF Spec, ImplementsSlotPool, Pool!PoolSpec
===============================================================================
