-------------------------------- MODULE MCBroker --------------------------------
(***************************************************************************)
(* Instances of Broker for TLC.                                            *)
(***************************************************************************)
EXTENDS Broker, TLC

CONSTANTS tight, wide

\* One lane that runs one request at a time and one bounded only by the broker.
TwoLanes == {tight, wide}

TwoLaneMax == [l \in TwoLanes |-> IF l = tight THEN 1 ELSE 2]

\* Search only runs in which at most one client hangs up, and at most two requests
\* are cancelled or abandoned.
OneHangup == Cardinality(gone) <= 1 /\ Cardinality(gone) + Cardinality(token) <= 2

\* Search only runs in which at most one request is cancelled.
OneCancel == Cardinality(token) <= 1

\* Requests that were cancelled or waited too long.
Lost == token \cup {r \in Req : status[r] = "timed_out"}

\* Search only runs of five requests, two of them warm: all in the tight lane, or three
\* there and one warm request in each lane.  Nobody is refused and no adapter fails,
\* at most one request is cancelled or times out, and the limit is not lowered again
\* after the first grant.
WarmTraffic ==
    /\ LET tights == {r \in Req : req[r].lane = tight}
           warm == {r \in Req : req[r].ready}
       IN  /\ Cardinality(warm) = 2
           /\ \/ tights = Req
              \/ Cardinality(tights) = 3 /\ Cardinality(tights \cap warm) = 1
    /\ \A r \in Req : pc[r] = "done" => status[r] \notin {"none", "failed"}
    /\ Cardinality(Lost) <= 1
    /\ granted # {} => profile = NoProfile

ReqSymmetry == Permutations(Req)
===============================================================================
