--------------------------- MODULE MCOrchestrator ---------------------------
(* Instances of Orchestrator for TLC. *)
EXTENDS Orchestrator, TLC

CONSTANTS v1, v2, v3, v4, v5, w1, w2, p1, p2, p3

Fix(v, t) == [vehicle |-> v, timestamp |-> t, poison |-> FALSE]
Garbage(v) == [vehicle |-> v, timestamp |-> 1, poison |-> TRUE]

OneWorker == v1 :> w1 @@ v2 :> w1
OneWorkerAlone == v1 :> w1
OnePartitionAlone == v1 :> p1
OwnWorkers == v1 :> w1 @@ v2 :> w2 @@ v3 :> w2 @@ v4 :> w2 @@ v5 :> w1
OnePartition == v1 :> p1 @@ v2 :> p1
FarPartitions == v1 :> p1 @@ v2 :> p1 @@ v3 :> p2 @@ v4 :> p3 @@ v5 :> p3

\* One worker, two vehicles: a supplier's repeat and regression among them.
SharedFeeds == {<<Fix(v1, 1), Fix(v2, 1), Fix(v1, 2)>>,
                <<Fix(v1, 2), Fix(v2, 1), Fix(v1, 1)>>,
                <<Fix(v1, 1), Garbage(v2), Fix(v1, 1)>>}

\* The same, and a vehicle v3 on ground that nobody serves, which fills its worker
\* and the channel to it. The forwarder of another partition, p3, then waits with
\* the event of v4 for that worker. Behind it in p3 waits v5, though its worker is
\* idle; v1, which has the same worker and comes through p1, goes on.
OutageFeeds == SharedFeeds \cup
               {<<Fix(v3, 1), Fix(v4, 1), Fix(v3, 2), Fix(v5, 1)>>,
                <<Fix(v3, 1), Fix(v4, 1), Fix(v3, 2), Fix(v1, 1)>>}

\* One vehicle, monotonic supplier.
MonotonicFeeds == {<<Fix(v1, 1), Fix(v1, 2), Fix(v1, 3)>>}
=============================================================================
