------------------------- MODULE OrchestratorProofs -------------------------
(***************************************************************************)
(* Theorems about Orchestrator, for every pod shape, pinning, feed, bound  *)
(* and number of failures, and about Topology, for every partition count,  *)
(* fleet size and number of streams.                                       *)
(***************************************************************************)
EXTENDS Orchestrator, Topology, TLAPS

\* What the type of the raw stream says about one event.
LEMMA EventFacts ==
    ASSUME TypeOK, NEW s \in Revisions
    PROVE  /\ Vehicle(s) \in Vehicles /\ Time(s) \in Nat /\ Time(s) > 0
           /\ Worker(s) \in Workers /\ Partition(s) \in Partitions
           /\ s \in Nat /\ s # 0
<1>1. raw \in Seq(Event)
  BY DEF TypeOK
<1>2. raw[s] \in Event /\ s \in 1 .. Len(raw)
  BY <1>1 DEF Revisions
<1>3. Vehicle(s) \in Vehicles /\ Time(s) \in Nat /\ Time(s) > 0
  BY <1>2 DEF Event, Vehicle, Time
<1> QED
  BY <1>1, <1>2, <1>3, PinAssumption DEF Worker, Partition

\* get_many returns entries of the tail, its last one included.
LEMMA LastNFacts ==
    ASSUME NEW S, NEW t \in Seq(S), NEW n \in Nat \ {0}
    PROVE  /\ LastN(t, n) \in Seq(S)
           /\ \A i \in DOMAIN LastN(t, n) : \E j \in DOMAIN t : LastN(t, n)[i] = t[j]
           /\ t = <<>> => LastN(t, n) = <<>>
           /\ t # <<>> => /\ LastN(t, n) # <<>>
                          /\ Len(LastN(t, n)) \in DOMAIN LastN(t, n)
                          /\ LastN(t, n)[Len(LastN(t, n))] = t[Len(t)]
<1>1. CASE Len(t) <= n
  BY <1>1 DEF LastN
<1>2. CASE ~ (Len(t) <= n)
  <2> DEFINE k == Len(t) - n + 1
             u == SubSeq(t, k, Len(t))
  <2>1. LastN(t, n) = u
    BY <1>2 DEF LastN
  <2>2. k \in 2 .. Len(t) /\ Len(t) \in Nat /\ Len(t) - k + 1 = n
    BY <1>2
  <2>3. u \in Seq(S) /\ Len(u) = n /\ \A i \in 1 .. n : u[i] = t[k + i - 1]
    BY <2>2
  <2>4. \A i \in DOMAIN u : k + i - 1 \in DOMAIN t /\ u[i] = t[k + i - 1]
    BY <2>2, <2>3
  <2>5. u # <<>> /\ Len(u) \in DOMAIN u /\ u[Len(u)] = t[Len(t)]
    <3>1. n \in 1 .. n /\ k + n - 1 = Len(t)
      BY <2>2
    <3>2. u[n] = t[Len(t)]
      BY <2>3, <3>1
    <3> HIDE DEF u
    <3> QED
      BY <2>3, <3>1, <3>2
  <2>6. t # <<>>
    BY <1>2
  <2> QED
    BY <2>1, <2>3, <2>4, <2>5, <2>6
<1> QED
  BY <1>1, <1>2

\* The newest timestamp of a non-empty sequence of events, when some entry
\* is at least as new as all the others.
LEMMA NewestFacts ==
    ASSUME TypeOK, NEW t \in Seq(Revisions), t # <<>>,
           NEW k \in DOMAIN t, \A i \in DOMAIN t : Time(t[i]) <= Time(t[k])
    PROVE  /\ \E i \in DOMAIN t : Newest(t) = Time(t[i])
           /\ \A i \in DOMAIN t : Time(t[i]) <= Newest(t)
<1> DEFINE good(m) == /\ m \in {Time(t[i]) : i \in DOMAIN t}
                      /\ \A i \in DOMAIN t : Time(t[i]) <= m
<1>1. Newest(t) = CHOOSE m : good(m)
  BY Zenon DEF Newest
<1>2. good(Time(t[k]))
  OBVIOUS
<1>3. good(Newest(t))
  <2> HIDE DEF good
  <2> QED BY <1>1, <1>2
<1> QED
  BY <1>3

-----------------------------------------------------------------------------
\* The initial state is well typed.
LEMMA TypeInit == Init => TypeOK
  BY FeedAssumption, BoundAssumption DEF Init, TypeOK, Revisions, Stages

\* The newest timestamp warmed from a tail: the newest recorded one.
LEMMA WarmFacts ==
    ASSUME TypeOK, TailOK, NEW v \in Vehicles
    PROVE  LET m == Newest(LastN(tail[v], WarmLimit)) IN
           /\ m \in Nat
           /\ \A r \in recorded : Vehicle(r) = v => Time(r) <= m
           /\ m # 0 => \E r \in recorded : Vehicle(r) = v /\ Time(r) = m
<1> DEFINE t == tail[v]
           u == LastN(t, WarmLimit)
           k == Len(u)
<1>1. t \in Seq(Revisions) /\ WarmLimit \in Nat \ {0}
  BY BoundAssumption DEF TypeOK
<1>2. /\ u \in Seq(Revisions)
      /\ \A i \in DOMAIN u : \E j \in DOMAIN t : u[i] = t[j]
      /\ t = <<>> => u = <<>>
      /\ t # <<>> => u # <<>> /\ k \in DOMAIN u /\ u[k] = t[Len(t)]
  BY <1>1, LastNFacts
<1>3. CASE t = <<>>
  <2>1. \A r \in recorded : Vehicle(r) # v
    BY <1>3 DEF TailOK
  <2>2. Newest(u) = 0
    BY <1>2, <1>3 DEF Newest
  <2> QED
    BY <2>1, <2>2
<1>4. CASE t # <<>>
  <2>1. \A i \in DOMAIN u : /\ u[i] \in recorded /\ Vehicle(u[i]) = v
                            /\ u[i] \in Revisions /\ Time(u[i]) \in Nat
    BY <1>2, EventFacts DEF TailOK, TypeOK
  <2>2. \A r \in recorded : Vehicle(r) = v => Time(r) <= Time(u[k])
    BY <1>2, <1>4 DEF TailOK
  <2>3. \A i \in DOMAIN u : Time(u[i]) <= Time(u[k])
    BY <2>1, <2>2
  <2>4. /\ \E i \in DOMAIN u : Newest(u) = Time(u[i])
        /\ \A i \in DOMAIN u : Time(u[i]) <= Newest(u)
    <3> HIDE DEF u, k
    <3> QED BY <1>2, <1>4, <2>3, NewestFacts
  <2>5. Time(u[k]) <= Newest(u) /\ Newest(u) \in Nat
    BY <2>1, <2>4, <1>2, <1>4
  <2>6. \A r \in recorded : Vehicle(r) = v => Time(r) <= Newest(u)
    <3> TAKE r \in recorded
    <3> HAVE Vehicle(r) = v
    <3>1. Time(r) <= Time(u[k]) /\ Time(u[k]) \in Nat /\ Time(r) \in Nat
      BY <2>1, <2>2, <1>2, <1>4, EventFacts DEF TypeOK
    <3> QED BY <3>1, <2>5
  <2> QED
    BY <2>1, <2>4, <2>5, <2>6
<1> QED
  BY <1>3, <1>4

\* Every step keeps the state well typed.
LEMMA TypeStep == IInv /\ [Next]_vars => TypeOK'
<1> SUFFICES ASSUME TypeOK, Pinned, TailOK, [Next]_vars PROVE TypeOK'
  BY DEF IInv
<1>0. \A w \in Workers : pc[w] # "idle" => job[w] \in Revisions
  BY DEF Pinned
<1> USE DEF TypeOK, Revisions
<1>1. ASSUME NEW p \in Partitions, Forwarder(p) PROVE TypeOK'
  <2>1. CASE Deliver(p)
    BY <2>1 DEF Deliver, archiver, durable
  <2>2. CASE Dispatch(p)
    <3>1. hand[p] \in DOMAIN raw /\ Worker(hand[p]) \in Workers
      BY <2>2, EventFacts DEF Dispatch
    <3> QED
      BY <2>2, <3>1 DEF Dispatch, broker, archiver, durable
  <2>3. CASE AckPoison(p)
    BY <2>3 DEF AckPoison, archiver, durable
  <2> QED
    BY <1>1, <2>1, <2>2, <2>3 DEF Forwarder
<1>2. ASSUME NEW s \in Revisions, Redeliver(s) PROVE TypeOK'
  BY <1>2 DEF Redeliver, broker, archiver, durable
<1>3. ASSUME NEW w \in Workers, Step(w) PROVE TypeOK'
  <2> USE DEF At, GoTo, Stages
  <2>1. CASE Take(w)
    <3>1. Head(queue[w]) \in DOMAIN raw /\ Tail(queue[w]) \in Seq(DOMAIN raw)
      BY <2>1 DEF Take
    <3> QED
      BY <2>1, <3>1 DEF Take, broker, archiver, durable
  <2>2. CASE Warm(w)
    <3>1. Vehicle(job[w]) \in Vehicles
      BY <2>2, <1>0, EventFacts DEF Warm
    <3>2. Newest(LastN(tail[Vehicle(job[w])], WarmLimit)) \in Nat
      BY <3>1, WarmFacts
    <3> QED
      BY <2>2, <3>1, <3>2 DEF Warm, broker, archiver, durable
  <2>3. CASE Drop(w) \/ Request(w) \/ Solved(w) \/ NoReply(w)
    BY <2>3 DEF Drop, Request, Solved, NoReply, broker, archiver, durable
  <2>4. CASE NoMatch(w)
    BY <1>0, <2>4 DEF NoMatch, broker, archiver
  <2>5. CASE Publish(w)
    BY <1>0, <2>5 DEF Publish, broker, archiver
  <2>6. CASE Commit(w)
    BY <1>0, <2>6 DEF Commit, broker, archiver, durable
  <2>7. CASE Send(w)
    BY <1>0, <2>7 DEF Send, broker, durable
  <2>8. CASE Push(w)
    <3>1. Vehicle(job[w]) \in Vehicles /\ Time(job[w]) \in Nat
      BY <1>0, <2>8, EventFacts DEF Push
    <3> QED
      BY <2>8, <3>1 DEF Push, broker, archiver, durable
  <2>9. CASE Ack(w)
    BY <1>0, <2>9 DEF Ack, archiver, durable
  <2> QED
    BY <1>3, <2>1, <2>2, <2>3, <2>4, <2>5, <2>6, <2>7, <2>8, <2>9 DEF Step
<1>4. CASE Archiver
  <2>1. CASE Collect
    BY <2>1 DEF Collect, broker, pod, durable
  <2>2. ASSUME NEW s \in Revisions, XAdd(s) PROVE TypeOK'
    <3>1. Vehicle(s) \in Vehicles
      BY EventFacts
    <3>2. PICK n \in {History, Len(Append(tail[Vehicle(s)], s))} :
             tail' = [tail EXCEPT ![Vehicle(s)] = LastN(Append(tail[Vehicle(s)], s), n)]
      BY <2>2 DEF XAdd
    <3>3. Append(tail[Vehicle(s)], s) \in Seq(DOMAIN raw) /\ n \in Nat \ {0}
      BY <3>1, <3>2, BoundAssumption
    <3>4. LastN(Append(tail[Vehicle(s)], s), n) \in Seq(DOMAIN raw)
      BY <3>3, LastNFacts
    <3>5. tail' \in [Vehicles -> Seq(DOMAIN raw)]
      BY <3>2, <3>4
    <3> QED
      BY <2>2, <3>5 DEF XAdd, broker, pod
  <2>3. CASE Flushed
    BY <2>3 DEF Flushed, broker, durable, Stages
  <2> QED
    BY <1>4, <2>1, <2>2, <2>3 DEF Archiver
<1>5. CASE Failure
  <2> USE DEF Fault, broker, pod, archiver, durable
  <2>0. faults' \in 0 .. MaxFaults
    BY <1>5, BoundAssumption DEF Failure, LoseDelivery, AckPoisonLost, RedeliverHeld, Retry,
                Unacknowledged, AckLost, FlushFails, Crash
  <2>1. ASSUME NEW p \in Partitions, LoseDelivery(p) \/ AckPoisonLost(p) PROVE TypeOK'
    BY <2>0, <2>1 DEF LoseDelivery, AckPoisonLost
  <2>2. ASSUME NEW s \in Revisions, RedeliverHeld(s) PROVE TypeOK'
    BY <2>0, <2>2 DEF RedeliverHeld
  <2>3. ASSUME NEW w \in Workers, Retry(w) \/ Unacknowledged(w) \/ AckLost(w) PROVE TypeOK'
    BY <2>0, <2>3 DEF Retry, Unacknowledged, AckLost, At, GoTo, Stages
  <2>4. CASE FlushFails
    BY <2>0, <2>4 DEF FlushFails
  <2>5. CASE Crash
    BY <2>0, <2>5 DEF Crash, Stages
  <2> QED
    BY <1>5, <2>1, <2>2, <2>3, <2>4, <2>5 DEF Failure
<1>6. CASE UNCHANGED vars
  BY <1>6 DEF vars
<1> QED
  BY <1>1, <1>2, <1>3, <1>4, <1>5, <1>6 DEF Next

-----------------------------------------------------------------------------
(* The inductive invariant. Parts == IInv without the type invariant.      *)

Parts == /\ Pinned /\ StageOK /\ ArchiveOK /\ TailOK
         /\ GateEndsAtRecord /\ AckIsCovered /\ TripHasEmission /\ TripOK

\* The initial state satisfies every conjunct of the invariant.
LEMMA PartsInit == Init => Parts
  BY DEF Init, Parts, Pinned, StageOK, ArchiveOK, TailOK, GateEndsAtRecord,
         AckIsCovered, TripHasEmission, TripOK, Revisions

\* Steps of the broker and of a forwarder change nothing the invariant reads
\* but the queues and the acknowledged set.
LEMMA ForwarderStep ==
    ASSUME IInv, NEW p \in Partitions,
           Deliver(p) \/ Dispatch(p) \/ AckPoison(p) \/ LoseDelivery(p) \/ AckPoisonLost(p)
    PROVE  Parts'
<1> USE DEF IInv, Parts
<1> DEFINE same == UNCHANGED <<raw, pc, job, warmed, lane, trip, archive, batch,
                              written, tail, recorded, matched, unmatched>>
<1>1. same
  BY DEF Deliver, Dispatch, AckPoison, LoseDelivery, AckPoisonLost,
         broker, pod, archiver, durable
<1>2. StageOK' /\ ArchiveOK' /\ TailOK' /\ GateEndsAtRecord' /\ TripHasEmission' /\ TripOK'
  BY <1>1 DEF StageOK, Ahead, Newer, L!Covered, L!SameVehicle, ArchiveOK, TailOK,
         GateEndsAtRecord, TripHasEmission, TripOK, Vehicle, Time, Worker
<1>3. Pinned'
  <2>1. CASE queue' = queue
    BY <1>1, <2>1 DEF Pinned, Worker, Vehicle, Revisions
  <2>2. CASE Dispatch(p)
    <3>1. hand[p] \in Revisions /\ Worker(hand[p]) \in Workers
      BY <2>2, EventFacts DEF Dispatch, TypeOK
    <3>2. queue' = [queue EXCEPT ![Worker(hand[p])] = Append(@, hand[p])]
      BY <2>2 DEF Dispatch
    <3>3. \A w \in Workers : \A i \in DOMAIN queue'[w] : Worker(queue'[w][i]) = w
      BY <3>1, <3>2 DEF Pinned, TypeOK
    <3> QED
      BY <1>1, <3>3 DEF Pinned, Worker, Vehicle, Revisions
  <2> QED
    BY <2>1, <2>2 DEF Deliver, Dispatch, AckPoison, LoseDelivery, AckPoisonLost,
                      pod
<1>4. AckIsCovered'
  BY <1>1 DEF AckIsCovered, L!Covered, L!SameVehicle, Deliver, Dispatch, AckPoison,
              LoseDelivery, AckPoisonLost, broker
<1> QED
  BY <1>2, <1>3, <1>4

\* A redelivery only puts an event back among the deliverable ones.
LEMMA RedeliverStep ==
    ASSUME IInv, NEW s \in Revisions, Redeliver(s) \/ RedeliverHeld(s)
    PROVE  Parts'
  BY SMTT(20) DEF IInv, Parts, Redeliver, RedeliverHeld, broker, archiver, durable, Pinned,
         StageOK, Ahead, Newer, L!Covered, L!SameVehicle, ArchiveOK, TailOK, AckIsCovered,
         GateEndsAtRecord, TripHasEmission, TripOK, Vehicle, Time, Worker, Revisions

\* The stages before the archive: only pc, and what the stage itself writes.
LEMMA QuietStep ==
    ASSUME IInv, NEW w \in Workers,
           Drop(w) \/ Request(w) \/ Solved(w) \/ NoReply(w) \/ Retry(w) \/ Unacknowledged(w)
    PROVE  Parts'
<1> USE DEF IInv, Parts
<1>1. /\ UNCHANGED <<raw, acked, queue, job, warmed, lane, trip, archive, batch, written,
                     tail, recorded, matched, unmatched>>
      /\ \A x \in Workers : x # w => pc'[x] = pc[x]
      /\ pc[w] \in {"process", "solve", "publish", "commit"}
      /\ pc'[w] \in {"ack", "solve", "publish", "process"}
  BY DEF Drop, Request, Solved, NoReply, Retry, Unacknowledged, At, GoTo,
         broker, archiver, durable, TypeOK
<1>2. job[w] \in Revisions /\ Worker(job[w]) = w
  BY <1>1 DEF Pinned
<1>3. /\ Vehicle(job[w]) \in Vehicles /\ Time(job[w]) \in Nat /\ Time(job[w]) > 0
      /\ \A r \in recorded : Time(r) \in Nat
      /\ lane[Vehicle(job[w])] \in Nat
  BY <1>2, EventFacts DEF TypeOK
<1>4. pc'[w] = "ack" => L!Covered(job[w])
  <2> SUFFICES ASSUME pc'[w] = "ack" PROVE L!Covered(job[w])
    OBVIOUS
  <2>1. Drop(w)
    BY DEF Request, Solved, NoReply, Retry, Unacknowledged, GoTo, TypeOK
  <2>2. Vehicle(job[w]) \in warmed /\ Time(job[w]) <= lane[Vehicle(job[w])]
    BY <2>1 DEF Drop, Stale
  <2>3. PICK r \in recorded : Vehicle(r) = Vehicle(job[w]) /\ Time(r) = lane[Vehicle(job[w])]
    BY <1>3, <2>2 DEF GateEndsAtRecord
  <2> QED
    BY <2>2, <2>3 DEF L!Covered, L!SameVehicle, Vehicle, Time
<1>5. pc'[w] \in {"solve", "publish"} => Ahead(job[w])
  <2>1. CASE Request(w)
    <3>1. Vehicle(job[w]) \in warmed /\ ~ (Time(job[w]) <= lane[Vehicle(job[w])])
      BY <2>1 DEF Request, Stale
    <3>2. \A r \in recorded : Vehicle(r) = Vehicle(job[w]) => Time(r) <= lane[Vehicle(job[w])]
      BY <1>2, <2>1, <3>1 DEF GateEndsAtRecord, Request, At, Worker
    <3> QED
      BY <1>3, <3>1, <3>2 DEF Ahead
  <2>2. CASE Solved(w)
    BY <2>2 DEF Solved, At, StageOK
  <2> QED
    BY <2>1, <2>2 DEF Drop, NoReply, Retry, Unacknowledged, GoTo, TypeOK
<1>6. StageOK'
  BY <1>1, <1>4, <1>5 DEF StageOK, Ahead, Newer, L!Covered, L!SameVehicle, Vehicle, Time
<1>7. Pinned' /\ TailOK' /\ AckIsCovered' /\ TripHasEmission'
  BY <1>1, <1>2 DEF Pinned, TailOK, AckIsCovered, TripHasEmission, L!Covered,
                    L!SameVehicle, Vehicle, Time, Worker, Revisions
<1>8. ArchiveOK'
  BY <1>1, EventFacts DEF ArchiveOK, Vehicle, Worker, TypeOK
<1>9. GateEndsAtRecord' /\ TripOK'
  <2>1. \A v \in Vehicles : WorkerOf[v] \in Workers
    BY PinAssumption
  <2>2. \A v \in Vehicles : pc[WorkerOf[v]] \in {"archive", "flush", "push"} =>
            /\ pc'[WorkerOf[v]] = pc[WorkerOf[v]] /\ job'[WorkerOf[v]] = job[WorkerOf[v]]
    BY <1>1, <2>1
  <2>3. TripOK'
    BY <1>1, <2>2 DEF TripOK
  <2>4. warmed \subseteq Vehicles
    BY DEF TypeOK
  <2>5. GateEndsAtRecord'
    BY <1>1, <2>2, <2>4 DEF GateEndsAtRecord, Vehicle, Time
  <2> QED
    BY <2>3, <2>5
<1> QED
  BY <1>6, <1>7, <1>8, <1>9

\* A worker that takes an event starts it with nothing of it done.
LEMMA TakeStep == ASSUME IInv, NEW w \in Workers, Take(w) PROVE Parts'
<1> USE DEF IInv, Parts
<1>1. /\ UNCHANGED <<raw, acked, warmed, lane, trip, archive, batch, written,
                     tail, recorded, matched, unmatched>>
      /\ \A x \in Workers : x # w => pc'[x] = pc[x] /\ job'[x] = job[x] /\ queue'[x] = queue[x]
      /\ pc[w] = "idle" /\ pc'[w] = "process"
      /\ queue[w] # <<>> /\ job'[w] = Head(queue[w]) /\ queue'[w] = Tail(queue[w])
  BY DEF Take, At, GoTo, broker, archiver, durable, TypeOK
<1>2. /\ job'[w] \in Revisions /\ Worker(job'[w]) = w
      /\ \A i \in DOMAIN queue'[w] : Worker(queue'[w][i]) = w
  BY <1>1 DEF Pinned, TypeOK
<1>3. Pinned'
  <2>1. /\ Revisions' = Revisions /\ \A s : Worker(s)' = Worker(s)
    BY <1>1 DEF Worker, Vehicle, Revisions
  <2>2. ASSUME NEW x \in Workers
        PROVE  /\ \A i \in DOMAIN queue'[x] : Worker(queue'[x][i]) = x
               /\ pc'[x] # "idle" => job'[x] \in Revisions /\ Worker(job'[x]) = x
    <3>1. CASE x = w
      BY <1>2, <3>1
    <3>2. CASE x # w
      BY <1>1, <3>2 DEF IInv, Pinned
    <3> QED
      BY <3>1, <3>2
  <2> QED
    BY <2>1, <2>2 DEF Pinned
<1>4. StageOK' /\ TailOK' /\ AckIsCovered' /\ TripHasEmission'
  BY <1>1 DEF StageOK, Ahead, Newer, TailOK, AckIsCovered, TripHasEmission, L!Covered,
              L!SameVehicle, Vehicle, Time
<1>5. ArchiveOK'
  BY SMTT(20), <1>1, EventFacts DEF ArchiveOK, Vehicle, Worker, TypeOK
<1>6. GateEndsAtRecord' /\ TripOK'
  <2>1. \A v \in Vehicles : WorkerOf[v] \in Workers
    BY PinAssumption
  <2>2. \A v \in Vehicles : pc[WorkerOf[v]] \in {"archive", "flush", "push"} =>
            /\ pc'[WorkerOf[v]] = pc[WorkerOf[v]] /\ job'[WorkerOf[v]] = job[WorkerOf[v]]
    BY <1>1, <2>1
  <2>3. TripOK'
    BY <1>1, <2>2 DEF TripOK
  <2>4. warmed \subseteq Vehicles
    BY DEF TypeOK
  <2>5. GateEndsAtRecord'
    BY <1>1, <2>2, <2>4 DEF GateEndsAtRecord, Vehicle, Time
  <2> QED
    BY <2>3, <2>5
<1> QED
  BY <1>3, <1>4, <1>5, <1>6

\* A lane warmed from the tail ends at the record.
LEMMA WarmStep == ASSUME IInv, NEW w \in Workers, Warm(w) PROVE Parts'
<1> USE DEF IInv, Parts
<1> DEFINE v == Vehicle(job[w])
           m == Newest(LastN(tail[v], WarmLimit))
<1>1. /\ UNCHANGED <<raw, acked, queue, pc, job, trip, archive, batch, written,
                     tail, recorded, matched, unmatched>>
      /\ pc[w] = "process"
      /\ lane' = [lane EXCEPT ![v] = m]
  BY DEF Warm, At, broker, archiver, durable
<1>2. v \in Vehicles /\ WorkerOf[v] = w
  BY <1>1, EventFacts DEF Pinned, Worker
<1>3. warmed' \subseteq warmed \cup {v}
  BY DEF Warm
<1>4. /\ \A r \in recorded : Vehicle(r) = v => Time(r) <= m
      /\ m # 0 => \E r \in recorded : Vehicle(r) = v /\ Time(r) = m
  BY <1>2, WarmFacts
<1>5. GateEndsAtRecord'
  <2> HIDE DEF v, m
  <2>1. lane'[v] = m /\ \A u \in Vehicles : u # v => lane'[u] = lane[u]
    BY <1>1, <1>2 DEF TypeOK
  <2> SUFFICES ASSUME NEW u \in warmed'
               PROVE  /\ \A r \in recorded : Vehicle(r) = u =>
                            \/ Time(r) <= lane'[u]
                            \/ pc[WorkerOf[u]] \in {"flush", "push"} /\ job[WorkerOf[u]] = r
                      /\ lane'[u] # 0 => \E r \in recorded : Vehicle(r) = u /\ Time(r) = lane'[u]
    BY <1>1 DEF GateEndsAtRecord, Vehicle, Time
  <2>2. CASE u = v
    BY <1>4, <2>1, <2>2
  <2>3. CASE u # v
    BY <1>3, <2>1, <2>3 DEF GateEndsAtRecord, TypeOK
  <2> QED
    BY <2>2, <2>3
<1>6. Pinned' /\ StageOK' /\ ArchiveOK' /\ TailOK' /\ AckIsCovered' /\ TripHasEmission' /\ TripOK'
  BY <1>1 DEF Pinned, StageOK, Ahead, Newer, ArchiveOK, TailOK, AckIsCovered, TripHasEmission,
              TripOK, L!Covered, L!SameVehicle, Vehicle, Time, Worker, Revisions
<1> QED
  BY <1>5, <1>6

\* A verdict: NoMatch, or an emission stored on the matched stream.
LEMMA VerdictStep ==
    ASSUME IInv, NEW w \in Workers, NoMatch(w) \/ Publish(w)
    PROVE  Parts'
<1> USE DEF IInv, Parts
<1>1. /\ UNCHANGED <<raw, acked, queue, job, warmed, lane, trip, archive, batch, written,
                     tail, recorded>>
      /\ \A x \in Workers : x # w => pc'[x] = pc[x]
      /\ matched \subseteq matched' /\ unmatched \subseteq unmatched'
      /\ \/ pc[w] = "solve" /\ pc'[w] = "archive" /\ job[w] \in unmatched'
         \/ pc[w] = "publish" /\ pc'[w] = "commit" /\ job[w] \in matched'
  BY DEF NoMatch, Publish, At, GoTo, broker, archiver, TypeOK
<1>2. Ahead(job[w])
  BY <1>1 DEF StageOK
<1>3. StageOK'
  BY <1>1, <1>2 DEF StageOK, Ahead, Newer, L!Covered, L!SameVehicle, Vehicle, Time
<1>4. Pinned' /\ TailOK' /\ AckIsCovered' /\ TripHasEmission'
  BY <1>1 DEF Pinned, TailOK, AckIsCovered, TripHasEmission, L!Covered,
              L!SameVehicle, Vehicle, Time, Worker, Revisions
<1>5. ArchiveOK'
  BY <1>1, EventFacts DEF ArchiveOK, Vehicle, Worker, TypeOK
<1>6. GateEndsAtRecord' /\ TripOK'
  <2>1. \A v \in Vehicles : pc[WorkerOf[v]] \in {"archive", "flush", "push"} =>
            pc'[WorkerOf[v]] = pc[WorkerOf[v]]
    BY <1>1, PinAssumption
  <2>2. warmed \subseteq Vehicles
    BY DEF TypeOK
  <2> QED
    BY <1>1, <2>1, <2>2 DEF GateEndsAtRecord, TripOK, Vehicle, Time
<1> QED
  BY <1>3, <1>4, <1>5, <1>6

\* The trip that is committed has its emission on the matched stream.
LEMMA CommitStep == ASSUME IInv, NEW w \in Workers, Commit(w) PROVE Parts'
<1> USE DEF IInv, Parts
<1> DEFINE v == Vehicle(job[w])
<1>1. /\ UNCHANGED <<raw, acked, queue, job, warmed, lane, archive, batch, written,
                     tail, recorded, matched, unmatched>>
      /\ \A x \in Workers : x # w => pc'[x] = pc[x]
      /\ pc[w] = "commit" /\ pc'[w] = "archive"
  BY DEF Commit, At, GoTo, broker, archiver, durable, TypeOK
<1>2. \A u \in Vehicles : \/ u = v /\ trip'[u] = job[w]
                          \/ u # v /\ trip'[u] \in {0, trip[u]}
  BY DEF Commit
<1>3. /\ job[w] \in Revisions /\ v \in Vehicles /\ WorkerOf[v] = w
      /\ Ahead(job[w]) /\ job[w] \in matched
  BY <1>1, EventFacts DEF Pinned, StageOK, Worker
<1>4. StageOK'
  BY <1>1, <1>3 DEF StageOK, Ahead, Newer, L!Covered, L!SameVehicle, Vehicle, Time
<1>5. Pinned' /\ TailOK' /\ AckIsCovered'
  BY <1>1 DEF Pinned, TailOK, AckIsCovered, L!Covered,
              L!SameVehicle, Vehicle, Time, Worker, Revisions
<1>6. ArchiveOK'
  BY <1>1, EventFacts DEF ArchiveOK, Vehicle, Worker, TypeOK
<1>7. TripHasEmission'
  BY <1>1, <1>2, <1>3 DEF TripHasEmission, Vehicle
<1>8. \A u \in Vehicles : pc[WorkerOf[u]] \in {"archive", "flush", "push"} =>
            pc'[WorkerOf[u]] = pc[WorkerOf[u]]
  BY <1>1, PinAssumption
<1>9. GateEndsAtRecord'
  <2>1. warmed \subseteq Vehicles
    BY DEF TypeOK
  <2> QED
    BY <1>1, <1>8, <2>1 DEF GateEndsAtRecord, Vehicle, Time
<1>10. TripOK'
  <2> HIDE DEF v
  <2> QED
    BY <1>1, <1>2, <1>3, <1>8 DEF TripOK
<1> QED
  BY <1>4, <1>5, <1>6, <1>7, <1>9, <1>10

\* An event that is handed to the archive keeps its worker waiting.
LEMMA SendStep == ASSUME IInv, NEW w \in Workers, Send(w) PROVE Parts'
<1> USE DEF IInv, Parts
<1>1. /\ UNCHANGED <<raw, acked, queue, job, warmed, lane, trip, batch, written,
                     tail, recorded, matched, unmatched>>
      /\ \A x \in Workers : x # w => pc'[x] = pc[x]
      /\ pc[w] = "archive" /\ pc'[w] = "flush"
      /\ archive' = archive \cup {job[w]}
  BY DEF Send, At, GoTo, broker, durable, TypeOK
<1>2. /\ job[w] \in Revisions /\ Worker(job[w]) = w
      /\ Ahead(job[w]) /\ job[w] \in matched \cup unmatched
  BY <1>1 DEF Pinned, StageOK
<1>3. StageOK'
  BY <1>1, <1>2 DEF StageOK, Ahead, Newer, L!Covered, L!SameVehicle, Vehicle, Time
<1>4. Pinned' /\ TailOK' /\ AckIsCovered' /\ TripHasEmission'
  BY <1>1 DEF Pinned, TailOK, AckIsCovered, TripHasEmission, L!Covered,
              L!SameVehicle, Vehicle, Time, Worker, Revisions
<1>5. ArchiveOK'
  <2>1. \A s \in archive \cup batch : s \in Revisions /\ Worker(s) \in Workers /\ Worker(s) # w
    BY <1>1, EventFacts DEF ArchiveOK, TypeOK
  <2> QED
    BY <1>1, <1>2, <2>1 DEF ArchiveOK, Vehicle, Worker
<1>6. \A u \in Vehicles : pc[WorkerOf[u]] \in {"archive", "flush", "push"} =>
            pc'[WorkerOf[u]] \in {pc[WorkerOf[u]], "flush"}
  BY <1>1, PinAssumption
<1>7. TripOK'
  BY <1>1, <1>6 DEF TripOK
<1>8. GateEndsAtRecord'
  <2>1. warmed \subseteq Vehicles
    BY DEF TypeOK
  <2> QED
    BY <1>1, <1>6, <2>1 DEF GateEndsAtRecord, Vehicle, Time
<1> QED
  BY <1>3, <1>4, <1>5, <1>7, <1>8

\* An event that enters the lane is the one the archive recorded last.
LEMMA PushStep == ASSUME IInv, NEW w \in Workers, Push(w) PROVE Parts'
<1> USE DEF IInv, Parts
<1> DEFINE v == Vehicle(job[w])
<1>1. /\ UNCHANGED <<raw, acked, queue, job, warmed, trip, archive, batch, written,
                     tail, recorded, matched, unmatched>>
      /\ \A x \in Workers : x # w => pc'[x] = pc[x]
      /\ pc[w] = "push" /\ pc'[w] = "ack"
      /\ lane' = IF v \in warmed THEN [lane EXCEPT ![v] = Time(job[w])] ELSE lane
  BY DEF Push, At, GoTo, broker, archiver, durable, TypeOK
<1>2. /\ job[w] \in Revisions /\ Worker(job[w]) = w /\ v \in Vehicles /\ WorkerOf[v] = w
      /\ Newer(job[w]) /\ job[w] \in recorded /\ Time(job[w]) \in Nat
  BY <1>1, EventFacts DEF Pinned, StageOK, Worker
<1>3. L!Covered(job[w])
  BY <1>2 DEF L!Covered, L!SameVehicle, Time
<1>4. StageOK'
  BY <1>1, <1>3 DEF StageOK, Ahead, Newer, L!Covered, L!SameVehicle, Vehicle, Time
<1>5. Pinned' /\ TailOK' /\ AckIsCovered' /\ TripHasEmission'
  BY <1>1 DEF Pinned, TailOK, AckIsCovered, TripHasEmission, L!Covered,
              L!SameVehicle, Vehicle, Time, Worker, Revisions
<1>6. ArchiveOK'
  BY <1>1, EventFacts DEF ArchiveOK, Vehicle, Worker, TypeOK
<1>7. TripOK'
  BY <1>1, PinAssumption DEF TripOK
<1>8. GateEndsAtRecord'
  <2> HIDE DEF v
  <2>1. warmed \subseteq Vehicles /\ lane \in [Vehicles -> Nat]
    BY DEF TypeOK
  <2>2. \A r \in recorded : Vehicle(r) = v => r = job[w] \/ Time(r) < Time(job[w])
    BY <1>2 DEF Newer, v
  <2>3. \A r \in recorded : Time(r) \in Nat
    BY EventFacts DEF TypeOK
  <2>4. \A u \in warmed : u # v =>
            /\ lane'[u] = lane[u]
            /\ pc[WorkerOf[u]] \in {"flush", "push"} /\ job[WorkerOf[u]] \in recorded
               /\ Vehicle(job[WorkerOf[u]]) = u
                 => pc'[WorkerOf[u]] = pc[WorkerOf[u]]
    BY <1>1, <1>2, <2>1, PinAssumption DEF v
  <2>5. v \in warmed => lane'[v] = Time(job[w])
    BY <1>1, <1>2, <2>1
  <2> SUFFICES ASSUME NEW u \in warmed
               PROVE  /\ \A r \in recorded : Vehicle(r) = u =>
                            \/ Time(r) <= lane'[u]
                            \/ pc'[WorkerOf[u]] \in {"flush", "push"} /\ job[WorkerOf[u]] = r
                      /\ lane'[u] # 0 => \E r \in recorded : Vehicle(r) = u /\ Time(r) = lane'[u]
    BY <1>1 DEF GateEndsAtRecord, Vehicle, Time
  <2>6. CASE u = v
    BY <1>2, <2>2, <2>3, <2>5, <2>6 DEF v
  <2>7. CASE u # v
    BY <2>4, <2>7 DEF GateEndsAtRecord
  <2> QED
    BY <2>6, <2>7
<1> QED
  BY <1>4, <1>5, <1>6, <1>7, <1>8

\* An event is acknowledged at the end of the pipeline, or its ack is lost.
LEMMA AckStep == ASSUME IInv, NEW w \in Workers, Ack(w) \/ AckLost(w) PROVE Parts'
<1> USE DEF IInv, Parts
<1>1. /\ UNCHANGED <<raw, queue, warmed, lane, trip, archive, batch, written,
                     tail, recorded, matched, unmatched>>
      /\ \A x \in Workers : x # w => pc'[x] = pc[x] /\ job'[x] = job[x]
      /\ pc[w] = "ack" /\ pc'[w] = "idle"
      /\ acked' \subseteq acked \cup {job[w]}
  BY DEF Ack, AckLost, At, GoTo, broker, archiver, durable, TypeOK
<1>2. AckIsCovered'
  BY <1>1 DEF AckIsCovered, StageOK, L!Covered, L!SameVehicle
<1>3. StageOK'
  BY <1>1 DEF StageOK, Ahead, Newer, L!Covered, L!SameVehicle, Vehicle, Time
<1>4. Pinned' /\ TailOK' /\ TripHasEmission'
  BY <1>1 DEF Pinned, TailOK, TripHasEmission, Vehicle, Time, Worker, Revisions
<1>5. ArchiveOK'
  BY <1>1, EventFacts DEF ArchiveOK, Vehicle, Worker, TypeOK
<1>6. \A u \in Vehicles : pc[WorkerOf[u]] \in {"archive", "flush", "push"} =>
            pc'[WorkerOf[u]] = pc[WorkerOf[u]] /\ job'[WorkerOf[u]] = job[WorkerOf[u]]
  BY <1>1, PinAssumption
<1>7. TripOK'
  BY <1>1, <1>6 DEF TripOK
<1>8. GateEndsAtRecord'
  <2>1. warmed \subseteq Vehicles
    BY DEF TypeOK
  <2> QED
    BY <1>1, <1>6, <2>1 DEF GateEndsAtRecord, Vehicle, Time
<1> QED
  BY <1>2, <1>3, <1>4, <1>5, <1>7, <1>8

\* Collecting a batch and failing to write it record nothing.
LEMMA BatchStep == ASSUME IInv, Collect \/ FlushFails PROVE Parts'
<1> USE DEF IInv, Parts
<1>1. /\ UNCHANGED <<raw, acked, queue, pc, job, warmed, lane, trip,
                     tail, recorded, matched, unmatched>>
      /\ archive' \cup batch' \subseteq archive \cup batch
      /\ archive' \cap batch' = {}
      /\ written' \subseteq written
  BY DEF Collect, FlushFails, broker, pod, durable, ArchiveOK
<1> QED
  BY <1>1 DEF Pinned, StageOK, Ahead, Newer, ArchiveOK, TailOK, AckIsCovered, TripHasEmission,
              TripOK, GateEndsAtRecord, L!Covered, L!SameVehicle, Vehicle, Time, Worker,
              Revisions

\* An append, the first one or a repeated one, extends the record in order.
LEMMA XAddStep == ASSUME IInv, NEW s \in Revisions, XAdd(s) PROVE Parts'
<1> USE DEF IInv, Parts
<1> DEFINE v == Vehicle(s)
           w == Worker(s)
           t == Append(tail[v], s)
<1>1. /\ UNCHANGED <<raw, acked, queue, pc, job, warmed, lane, trip, archive, batch,
                     matched, unmatched>>
      /\ s \in batch /\ recorded' = recorded \cup {s} /\ written' = written \cup {s}
  BY DEF XAdd, broker, pod
<1>2. /\ v \in Vehicles /\ w \in Workers /\ WorkerOf[v] = w /\ Time(s) \in Nat
      /\ pc[w] = "flush" /\ job[w] = s /\ Newer(s)
  BY <1>1, EventFacts DEF ArchiveOK, StageOK, Worker
<1>3. PICK n \in {History, Len(t)} : tail' = [tail EXCEPT ![v] = LastN(t, n)]
  BY DEF XAdd
<1>4. t \in Seq(Revisions) /\ n \in Nat \ {0} /\ t # <<>> /\ t[Len(t)] = s
  <2>1. tail[v] \in Seq(Revisions)
    BY <1>2 DEF TypeOK
  <2>2. /\ t \in Seq(Revisions) /\ Len(t) = Len(tail[v]) + 1 /\ Len(tail[v]) \in Nat
        /\ t[Len(tail[v]) + 1] = s
    BY <2>1
  <2>3. History \in Nat \ {0}
    BY BoundAssumption
  <2> HIDE DEF t
  <2> QED
    BY <2>2, <2>3, <1>3
<1>5. /\ LastN(t, n) \in Seq(Revisions)
      /\ \A i \in DOMAIN LastN(t, n) : \E j \in DOMAIN t : LastN(t, n)[i] = t[j]
      /\ LastN(t, n) # <<>> /\ LastN(t, n)[Len(LastN(t, n))] = s
  <2> HIDE DEF t
  <2> QED
    BY <1>4, LastNFacts
<1>6. \A j \in DOMAIN t : t[j] = s \/ (t[j] \in recorded /\ Vehicle(t[j]) = v)
  <2>1. tail[v] \in Seq(Revisions)
    BY <1>2 DEF TypeOK
  <2>2. \A j \in DOMAIN t : t[j] = s \/ (j \in DOMAIN tail[v] /\ t[j] = tail[v][j])
    BY <2>1
  <2> HIDE DEF t
  <2> QED
    BY <1>2, <2>2 DEF TailOK
<1>7. TailOK'
  <2>1. tail'[v] = LastN(t, n) /\ \A u \in Vehicles : u # v => tail'[u] = tail[u]
    BY <1>2, <1>3 DEF TypeOK
  <2>2. \A u \in Vehicles : \A i \in DOMAIN tail'[u] :
            tail'[u][i] \in recorded' /\ Vehicle(tail'[u][i]) = u
    <3> HIDE DEF v, t
    <3> TAKE u \in Vehicles
    <3>1. CASE u = v
      BY <1>1, <1>5, <1>6, <2>1, <3>1 DEF v
    <3>2. CASE u # v
      BY <1>1, <2>1, <3>2 DEF TailOK
    <3> QED
      BY <3>1, <3>2
  <2>3. \A r \in recorded' : /\ tail'[Vehicle(r)] # <<>>
                             /\ Time(r) <= Time(tail'[Vehicle(r)][Len(tail'[Vehicle(r)])])
    <3> TAKE r \in recorded'
    <3>1. r \in Revisions /\ Vehicle(r) \in Vehicles /\ Time(r) \in Nat
      BY <1>1, EventFacts DEF TypeOK
    <3> HIDE DEF t
    <3>2. CASE Vehicle(r) = v
      <4>1. Time(r) <= Time(s)
        BY <1>1, <1>2, <3>1, <3>2 DEF Newer
      <4> QED
        BY <1>5, <2>1, <3>2, <4>1
    <3>3. CASE Vehicle(r) # v
      BY <1>1, <2>1, <3>1, <3>3 DEF TailOK
    <3> QED
      BY <3>2, <3>3
  <2> QED
    BY <1>1, <2>2, <2>3 DEF TailOK, Vehicle, Time
<1>8. StageOK'
  <2> HIDE DEF v, w, t
  <2>1. \A x \in Workers : pc[x] # "idle" /\ x # w =>
            job[x] \in Revisions /\ Vehicle(job[x]) # v
    BY <1>2 DEF Pinned, Worker
  <2>2. ASSUME NEW x \in Workers
        PROVE  /\ pc[x] \in {"solve", "publish", "commit", "archive"} => Ahead(job[x])'
               /\ pc[x] \in {"flush", "push"} => Newer(job[x])'
               /\ pc[x] = "ack" => L!Covered(job[x])'
    <3>1. CASE x = w
      BY <1>1, <1>2, <3>1 DEF Newer, Vehicle, Time
    <3>2. CASE x # w
      <4>1. pc[x] # "idle" => Vehicle(job[x]) # Vehicle(s)
        BY <2>1, <3>2 DEF v
      <4>2. pc[x] \in {"solve", "publish", "commit", "archive"} => Ahead(job[x])'
        BY <1>1, <4>1 DEF StageOK, Ahead, Vehicle, Time
      <4>3. pc[x] \in {"flush", "push"} => Newer(job[x])'
        BY <1>1, <4>1 DEF StageOK, Newer, Vehicle, Time
      <4>4. pc[x] = "ack" => L!Covered(job[x])'
        BY <1>1 DEF StageOK, L!Covered, L!SameVehicle
      <4> QED
        BY <4>2, <4>3, <4>4
    <3> QED
      BY <3>1, <3>2
  <2>3. \A x \in Workers :
          /\ pc[x] = "commit" => job[x] \in matched
          /\ pc[x] \in {"archive", "flush"} => job[x] \in matched \cup unmatched
          /\ pc[x] = "push" => job[x] \in recorded'
    BY <1>1 DEF StageOK
  <2>4. pc' = pc /\ job' = job /\ matched' = matched /\ unmatched' = unmatched
    BY <1>1
  <2> QED
    BY <2>2, <2>3, <2>4 DEF StageOK, Ahead, Newer, L!Covered
<1>9. GateEndsAtRecord'
  BY <1>1, <1>2 DEF GateEndsAtRecord, Vehicle, Time
<1>10. Pinned' /\ ArchiveOK' /\ AckIsCovered' /\ TripHasEmission' /\ TripOK'
  BY <1>1 DEF Pinned, ArchiveOK, AckIsCovered, TripHasEmission, TripOK, L!Covered,
              L!SameVehicle, Vehicle, Time, Worker, Revisions
<1> QED
  BY <1>7, <1>8, <1>9, <1>10

\* A batch is completed only when all its entries are recorded.
LEMMA FlushedStep == ASSUME IInv, Flushed PROVE Parts'
<1> USE DEF IInv, Parts
<1>1. /\ UNCHANGED <<raw, acked, queue, job, warmed, lane, trip, archive,
                     tail, recorded, matched, unmatched>>
      /\ batch' = {} /\ written' = {} /\ written = batch
      /\ \A x \in Workers : pc'[x] = IF pc[x] = "flush" /\ job[x] \in batch
                                     THEN "push" ELSE pc[x]
  BY DEF Flushed, broker, durable
<1>2. \A x \in Workers : pc'[x] # pc[x] =>
          pc[x] = "flush" /\ pc'[x] = "push" /\ job[x] \in batch /\ job[x] \in recorded
  BY <1>1 DEF ArchiveOK
<1>3. StageOK'
  BY <1>1, <1>2 DEF StageOK, Ahead, Newer, L!Covered, L!SameVehicle, Vehicle, Time
<1>4. Pinned' /\ TailOK' /\ AckIsCovered' /\ TripHasEmission'
  BY <1>1, <1>2 DEF Pinned, TailOK, AckIsCovered, TripHasEmission, L!Covered,
              L!SameVehicle, Vehicle, Time, Worker, Revisions
<1>5. ArchiveOK'
  <2>1. \A s \in archive : s \in Revisions /\ Worker(s) \in Workers /\ s \notin batch
    BY EventFacts DEF ArchiveOK, TypeOK
  <2> QED
    BY <1>1, <2>1 DEF ArchiveOK, Vehicle, Worker
<1>6. TripOK'
  BY <1>1, <1>2, PinAssumption DEF TripOK
<1>7. GateEndsAtRecord'
  <2>1. warmed \subseteq Vehicles
    BY DEF TypeOK
  <2>2. \A u \in Vehicles : pc[WorkerOf[u]] \in {"flush", "push"} =>
              pc'[WorkerOf[u]] \in {"flush", "push"}
    BY <1>1, PinAssumption
  <2> QED
    BY <1>1, <2>1, <2>2 DEF GateEndsAtRecord, Vehicle, Time
<1> QED
  BY <1>3, <1>4, <1>5, <1>6, <1>7

\* A crash forgets what the pod holds and nothing that is stored.
LEMMA CrashStep == ASSUME IInv, Crash PROVE Parts'
<1> USE DEF IInv, Parts
<1>1. /\ UNCHANGED <<raw, acked, tail, recorded, matched, unmatched>>
      /\ queue' = [w \in Workers |-> <<>>] /\ pc' = [w \in Workers |-> "idle"]
      /\ warmed' = {} /\ trip' = [v \in Vehicles |-> 0]
      /\ archive' = {} /\ batch' = {} /\ written' = {}
  BY DEF Crash, broker, durable
<1> QED
  BY <1>1 DEF Pinned, StageOK, ArchiveOK, TailOK, AckIsCovered, TripHasEmission,
              TripOK, GateEndsAtRecord, L!Covered, L!SameVehicle, Vehicle, Time

\* Every step preserves every conjunct of the invariant.
LEMMA PartsStep == IInv /\ [Next]_vars => Parts'
<1> SUFFICES ASSUME IInv, [Next]_vars PROVE Parts'
  OBVIOUS
<1>1. CASE UNCHANGED vars
  BY <1>1 DEF IInv, Parts, vars, Pinned, StageOK, Ahead, Newer, ArchiveOK, TailOK,
              AckIsCovered, TripHasEmission, TripOK, GateEndsAtRecord, L!Covered,
              L!SameVehicle, Vehicle, Time, Worker, Revisions
<1>2. ASSUME NEW p \in Partitions, Forwarder(p) PROVE Parts'
  BY <1>2, ForwarderStep DEF Forwarder
<1>3. ASSUME NEW s \in Revisions, Redeliver(s) PROVE Parts'
  BY <1>3, RedeliverStep
<1>4. ASSUME NEW w \in Workers, Step(w) PROVE Parts'
  BY <1>4, TakeStep, WarmStep, QuietStep, VerdictStep, CommitStep, SendStep, PushStep,
     AckStep DEF Step
<1>5. CASE Archiver
  BY <1>5, BatchStep, XAddStep, FlushedStep DEF Archiver
<1>6. CASE Failure
  BY <1>6, ForwarderStep, RedeliverStep, QuietStep, AckStep, BatchStep, CrashStep DEF Failure
<1> QED
  BY <1>1, <1>2, <1>3, <1>4, <1>5, <1>6 DEF Next

\* The inductive invariant holds in every reachable state.
LEMMA Invariance == Spec => []IInv
<1>1. Init => IInv
  BY TypeInit, PartsInit DEF IInv, Parts
<1>2. IInv /\ [Next]_vars => IInv'
  BY TypeStep, PartsStep DEF IInv, Parts
<1> QED
  BY <1>1, <1>2, PTL DEF Spec

-----------------------------------------------------------------------------
(* The theorems.                                                           *)

\* Every variable of the pod, the broker and the stores keeps its type.
THEOREM TypeCorrect == Spec => []TypeOK
<1>1. IInv => TypeOK
  BY DEF IInv
<1> QED
  BY <1>1, Invariance, PTL

\* An event is acknowledged only when its vehicle's durable record reaches it
\* or it is undecodable: the ack of orchestrator.rs never outruns the archive.
THEOREM AckSafety == Spec => []AckIsCovered
<1>1. IInv => AckIsCovered
  BY DEF IInv
<1> QED
  BY <1>1, Invariance, PTL

\* The lane gate of Worker::process ends exactly where the durable record
\* does, through crashes, evictions, re-warms, repeated appends and trims.
THEOREM GateSafety == Spec => []GateEndsAtRecord
<1>1. IInv => GateEndsAtRecord
  BY DEF IInv
<1> QED
  BY <1>1, Invariance, PTL

\* A cached trip never runs ahead of the matched stream.
THEOREM TripSafety == Spec => []TripHasEmission
<1>1. IInv => TripHasEmission
  BY DEF IInv
<1> QED
  BY <1>1, Invariance, PTL

\* A stale solve never overwrites a fresh trip.
THEOREM TripProgress == Spec => TripNeverRegresses
<1> DEFINE moves == \A v \in Vehicles :
                       (trip[v] # 0 /\ trip'[v] # 0 /\ trip'[v] # trip[v])
                           => Time(trip[v]) < Time(trip'[v])
<1>1. IInv /\ [Next]_vars => [moves]_vars
  <2> SUFFICES ASSUME IInv, Next PROVE moves
    OBVIOUS
  <2>1. ASSUME NEW w \in Workers, Commit(w) PROVE moves
    <3> SUFFICES ASSUME NEW v \in Vehicles, trip[v] # 0, trip'[v] # 0, trip'[v] # trip[v]
                 PROVE  Time(trip[v]) < Time(trip'[v])
      OBVIOUS
    <3>1. pc[w] = "commit"
      BY <2>1 DEF Commit, At
    <3>2. trip'[v] = job[w] /\ v = Vehicle(job[w])
      BY <2>1 DEF Commit
    <3>3. job[w] \in Revisions /\ WorkerOf[v] = w /\ Ahead(job[w])
      BY <3>1, <3>2 DEF IInv, Pinned, StageOK, Worker
    <3>4. trip[v] \in recorded /\ Vehicle(trip[v]) = v
      BY <3>1, <3>3 DEF IInv, TripOK, TripHasEmission
    <3> QED
      BY <3>2, <3>3, <3>4 DEF Ahead
  <2>2. CASE trip' = trip
    BY <2>2
  <2>3. CASE Crash
    BY <2>3 DEF Crash
  <2> QED
    BY <2>1, <2>2, <2>3 DEF Next, Forwarder, Step, Archiver, Failure, Deliver, Dispatch,
       AckPoison, Redeliver, Take, Warm, Drop, Request, Solved, NoMatch, NoReply, Publish,
       Send, Push, Ack, Collect, XAdd, Flushed, LoseDelivery, AckPoisonLost, RedeliverHeld,
       Retry, Unacknowledged, AckLost, FlushFails, pod
<1> QED
  BY <1>1, Invariance, PTL DEF Spec, TripNeverRegresses

\* The orchestrator implements the ledger: each of its steps emits, gives up,
\* records or settles one event under the ledger's guards, or changes nothing
\* the ledger sees.
THEOREM Refinement == Spec => ImplementsLedger
<1>1. Init => L!LedgerInit
  BY DEF Init, L!LedgerInit
<1>2. IInv /\ [Next]_vars => [L!LedgerNext]_(L!ledgerVars)
  <2> SUFFICES ASSUME IInv, [Next]_vars PROVE [L!LedgerNext]_(L!ledgerVars)
    OBVIOUS
  <2> USE DEF L!ledgerVars
  <2>0. ASSUME NEW s \in Revisions, Ahead(s) PROVE ~ L!Covered(s)
    <3>1. Time(s) \in Nat /\ \A r \in recorded : Time(r) \in Nat
      BY EventFacts DEF IInv, TypeOK
    <3> QED
      BY <2>0, <3>1 DEF Ahead, L!Covered, L!SameVehicle, Vehicle, Time
  <2>1. CASE UNCHANGED <<raw, matched, unmatched, recorded, acked>>
    BY <2>1
  <2>2. ASSUME NEW w \in Workers, NoMatch(w) PROVE L!LedgerNext
    <3>1. job[w] \in Revisions /\ Ahead(job[w])
      BY <2>2 DEF NoMatch, At, IInv, Pinned, StageOK
    <3>2. L!GiveUp(job[w])
      BY <2>0, <2>2, <3>1 DEF NoMatch, L!GiveUp, broker
    <3> QED
      BY <3>1, <3>2 DEF L!LedgerNext, L!Revisions, Revisions
  <2>3. ASSUME NEW w \in Workers, Publish(w) PROVE L!LedgerNext
    <3>1. job[w] \in Revisions /\ Ahead(job[w])
      BY <2>3 DEF Publish, At, IInv, Pinned, StageOK
    <3>2. L!Emit(job[w])
      BY <2>0, <2>3, <3>1 DEF Publish, L!Emit, broker
    <3> QED
      BY <3>1, <3>2 DEF L!LedgerNext, L!Revisions, Revisions
  <2>4. ASSUME NEW w \in Workers, Ack(w) PROVE L!LedgerNext
    <3>1. job[w] \in Revisions /\ L!Covered(job[w])
      BY <2>4 DEF Ack, At, IInv, Pinned, StageOK
    <3>2. L!Settle(job[w])
      BY <2>4, <3>1 DEF Ack, L!Settle, durable
    <3> QED
      BY <3>1, <3>2 DEF L!LedgerNext, L!Revisions, Revisions
  <2>5. ASSUME NEW p \in Partitions, AckPoison(p) PROVE L!LedgerNext
    <3>1. hand[p] \in Revisions
      BY <2>5 DEF AckPoison, IInv, TypeOK
    <3>2. L!Settle(hand[p])
      BY <2>5, <3>1 DEF AckPoison, L!Settle, durable
    <3> QED
      BY <3>1, <3>2 DEF L!LedgerNext, L!Revisions, Revisions
  <2>6. ASSUME NEW s \in Revisions, XAdd(s) PROVE [L!LedgerNext]_(L!ledgerVars)
    <3>1. /\ UNCHANGED <<raw, matched, unmatched, acked>>
          /\ recorded' = recorded \cup {s}
      BY <2>6 DEF XAdd, broker
    <3>2. CASE s \in recorded
      BY <3>1, <3>2
    <3>3. CASE s \notin recorded
      <4>1. Worker(s) \in Workers /\ pc[Worker(s)] = "flush" /\ job[Worker(s)] = s
        BY <2>6, EventFacts DEF XAdd, IInv, ArchiveOK
      <4>2. Newer(s) /\ s \in matched \cup unmatched
        BY <4>1 DEF IInv, StageOK
      <4>3. Ahead(s)
        BY <3>3, <4>2 DEF Newer, Ahead
      <4>4. L!Record(s)
        BY <2>0, <3>1, <4>2, <4>3 DEF L!Record
      <4> QED
        BY <4>4 DEF L!LedgerNext, L!Revisions, Revisions
    <3> QED
      BY <3>2, <3>3
  <2> QED
    BY <2>1, <2>2, <2>3, <2>4, <2>5, <2>6 DEF Next, vars, Forwarder, Step, Archiver,
       Failure, Deliver, Dispatch, Redeliver, Take, Warm, Drop, Request, Solved,
       NoReply, Commit, Send, Push, Collect, Flushed, LoseDelivery, AckPoisonLost,
       RedeliverHeld, Retry, Unacknowledged, AckLost, FlushFails, Crash, broker, durable
<1> QED
  BY <1>1, <1>2, Invariance, PTL DEF Spec, ImplementsLedger, L!LedgerSpec

-----------------------------------------------------------------------------
(* The partition arithmetic of Topology.                                   *)

\* Multiplying by a chunk keeps the order of ordinals.
LEMMA ScaleMonotonic ==
    ASSUME NEW a \in Nat, NEW b \in Nat, NEW c \in Nat, a <= b
    PROVE  a * c <= b * c
  OBVIOUS

\* Rounding down: the block a number falls into.
LEMMA DivBounds ==
    ASSUME NEW p \in Nat, NEW c \in Nat \ {0}
    PROVE  /\ p \div c \in Nat
           /\ (p \div c) * c <= p
           /\ p < (p \div c) * c + c
  OBVIOUS

\* A number lies in one block only.
LEMMA BlockUnique ==
    ASSUME NEW p \in Nat, NEW c \in Nat \ {0}, NEW i \in Nat,
           i * c <= p, p < i * c + c
    PROVE  i = p \div c
<1> DEFINE q == p \div c
<1>1. q \in Nat /\ q * c <= p /\ p < q * c + c
  BY DivBounds
<1>2. ~ (i < q)
  <2>1. SUFFICES ASSUME i < q PROVE FALSE
    OBVIOUS
  <2>2. (i + 1) * c <= q * c
    BY <1>1, <2>1, ScaleMonotonic
  <2>3. (i + 1) * c = i * c + c
    OBVIOUS
  <2>4. QED
    BY <1>1, <2>2, <2>3
<1>3. ~ (q < i)
  <2>1. SUFFICES ASSUME q < i PROVE FALSE
    OBVIOUS
  <2>2. (q + 1) * c <= i * c
    BY <1>1, <2>1, ScaleMonotonic
  <2>3. (q + 1) * c = q * c + c
    BY <1>1
  <2>4. QED
    BY <1>1, <2>2, <2>3
<1>4. QED
  BY <1>1, <1>2, <1>3

-----------------------------------------------------------------------------
(* Slices of pods.                                                         *)

\* A pod of a fleet no larger than the partition space has a chunk to own, and
\* the chunks of all pods fit the space.
LEMMA PodChunk ==
    ASSUME fleet \in Fleets
    PROVE  /\ fleet \in Nat \ {0}
           /\ PARTITIONS \div fleet \in Nat \ {0}
           /\ fleet * (PARTITIONS \div fleet) <= PARTITIONS
<1>1. fleet \in 1 .. PARTITIONS /\ PARTITIONS \in Nat \ {0}
  BY TopologyAssumption
<1>2. /\ PARTITIONS \div fleet \in Nat
      /\ (PARTITIONS \div fleet) * fleet <= PARTITIONS
      /\ PARTITIONS < (PARTITIONS \div fleet) * fleet + fleet
  BY <1>1, DivBounds
<1>3. PARTITIONS \div fleet # 0
  BY <1>1, <1>2
<1>4. QED
  BY <1>1, <1>2, <1>3

\* Two pods never own the same partition.
LEMMA SlicesDisjoint ==
    ASSUME fleet \in Fleets,
           NEW o \in Pods, NEW r \in Pods, NEW p \in Slice(o), p \in Slice(r)
    PROVE  o = r
<1> DEFINE chunk == PARTITIONS \div fleet
<1>1. chunk \in Nat \ {0} /\ fleet \in Nat \ {0} /\ PARTITIONS \in Nat
  BY PodChunk, TopologyAssumption
<1>2. o \in Nat /\ r \in Nat /\ o <= fleet - 1 /\ r <= fleet - 1 /\ p \in Int
  BY <1>1 DEF Pods, Slice
<1>3. ASSUME NEW a \in Pods, NEW b \in Pods, p \in Slice(a), p \in Slice(b), a < b
      PROVE  FALSE
  <2>1. a \in Nat /\ b \in Nat /\ a # fleet - 1
    BY <1>1, <1>3 DEF Pods
  <2>2. p <= (a + 1) * chunk - 1
    BY <1>1, <1>3, <2>1 DEF Slice
  <2>3. b * chunk <= p
    BY <1>1, <1>3, <2>1 DEF Slice
  <2>4. (a + 1) * chunk <= b * chunk
    BY <1>1, <1>3, <2>1, ScaleMonotonic
  <2>5. (a + 1) * chunk \in Int /\ b * chunk \in Int
    BY <1>1, <2>1
  <2>6. QED
    BY <1>2, <2>2, <2>3, <2>4, <2>5
<1>4. QED
  BY <1>2, <1>3

\* A slice lies within the partition space.
LEMMA SliceInSpace ==
    ASSUME fleet \in Fleets, NEW o \in Pods
    PROVE  Slice(o) \subseteq Space
<1> DEFINE chunk == PARTITIONS \div fleet
<1>1. /\ chunk \in Nat \ {0} /\ fleet \in Nat \ {0} /\ PARTITIONS \in Nat \ {0}
      /\ fleet * chunk <= PARTITIONS
  BY PodChunk, TopologyAssumption
<1>2. o \in Nat /\ o + 1 <= fleet
  BY <1>1 DEF Pods
<1>3. (o + 1) * chunk <= fleet * chunk
  BY <1>1, <1>2, ScaleMonotonic
<1>4. o * chunk \in Nat /\ (o + 1) * chunk \in Nat /\ fleet * chunk \in Nat
  BY <1>1, <1>2
<1>5. QED
  BY <1>1, <1>2, <1>3, <1>4 DEF Slice, Space

\* Every partition is in some pod's slice, the remainder in the last one's.
LEMMA SlicesCover ==
    ASSUME fleet \in Fleets, NEW p \in Space
    PROVE  \E o \in Pods : p \in Slice(o)
<1> DEFINE chunk == PARTITIONS \div fleet
           block == p \div chunk
<1>1. chunk \in Nat \ {0} /\ fleet \in Nat \ {0} /\ PARTITIONS \in Nat \ {0}
  BY PodChunk, TopologyAssumption
<1>2. p \in Nat /\ p <= PARTITIONS - 1
  BY <1>1 DEF Space
<1>3. block \in Nat /\ block * chunk <= p /\ p < block * chunk + chunk
  BY <1>1, <1>2, DivBounds
<1>4. CASE block < fleet - 1
  <2>1. block \in Pods /\ block # fleet - 1
    BY <1>1, <1>3, <1>4 DEF Pods
  <2>2. (block + 1) * chunk = block * chunk + chunk /\ block * chunk \in Nat
    BY <1>1, <1>3
  <2>3. p \in Slice(block)
    BY <1>1, <1>2, <1>3, <2>1, <2>2 DEF Slice
  <2>4. QED
    BY <2>1, <2>3
<1>5. CASE ~ (block < fleet - 1)
  <2>1. fleet - 1 \in Pods /\ fleet - 1 \in Nat
    BY <1>1 DEF Pods
  <2>2. (fleet - 1) * chunk <= block * chunk
    BY <1>1, <1>3, <1>5, <2>1, ScaleMonotonic
  <2>3. (fleet - 1) * chunk \in Nat /\ block * chunk \in Nat
    BY <1>1, <1>3, <2>1
  <2>4. p \in Slice(fleet - 1)
    BY <1>1, <1>2, <1>3, <2>1, <2>2, <2>3 DEF Slice
  <2>5. QED
    BY <2>1, <2>4
<1>6. QED
  BY <1>4, <1>5

-----------------------------------------------------------------------------
(* Raw streams.                                                            *)

\* The chunk of a stream, rounded up: all streams together hold the space.
LEMMA StreamChunk ==
    ASSUME streams \in StreamCounts
    PROVE  /\ streams \in Nat \ {0} /\ Chunk \in Nat \ {0}
           /\ PARTITIONS <= streams * Chunk
<1>1. streams \in Nat \ {0} /\ PARTITIONS \in Nat \ {0}
  BY TopologyAssumption
<1>2. PARTITIONS + streams - 1 \in Nat
  BY <1>1
<1>3. /\ Chunk \in Nat /\ Chunk * streams <= PARTITIONS + streams - 1
      /\ PARTITIONS + streams - 1 < Chunk * streams + streams
  BY <1>1, <1>2, DivBounds DEF Chunk
<1>4. Chunk # 0
  BY <1>1, <1>3
<1>5. streams * Chunk = Chunk * streams
  BY <1>1, <1>3
<1>6. QED
  BY <1>1, <1>3, <1>4, <1>5

\* The stream a partition is mapped to exists and carries its subject.
LEMMA IndexInRange ==
    ASSUME streams \in StreamCounts, NEW p \in Space
    PROVE  StreamIndex(p) \in StreamIds /\ p \in StreamRange(StreamIndex(p))
<1> DEFINE i == StreamIndex(p)
<1>1. /\ Chunk \in Nat \ {0} /\ streams \in Nat \ {0} /\ PARTITIONS \in Nat \ {0}
      /\ PARTITIONS <= streams * Chunk
  BY StreamChunk, TopologyAssumption
<1>2. p \in Nat /\ p < PARTITIONS
  BY <1>1 DEF Space
<1>3. i \in Nat /\ i * Chunk <= p /\ p < i * Chunk + Chunk
  BY <1>1, <1>2, DivBounds DEF StreamIndex
<1>4. i < streams
  <2>1. SUFFICES ASSUME streams <= i PROVE FALSE
    BY <1>1, <1>3
  <2>2. streams * Chunk <= i * Chunk
    BY <1>1, <1>3, <2>1, ScaleMonotonic
  <2>3. streams * Chunk \in Nat /\ i * Chunk \in Nat
    BY <1>1, <1>3
  <2>4. QED
    BY <1>1, <1>2, <1>3, <2>2, <2>3
<1>5. (i + 1) * Chunk = i * Chunk + Chunk /\ i * Chunk \in Nat
  BY <1>1, <1>3
<1>6. QED
  BY <1>1, <1>2, <1>3, <1>4, <1>5 DEF StreamIds, StreamRange

\* No other stream carries it.
LEMMA RangeIsIndex ==
    ASSUME streams \in StreamCounts, NEW i \in StreamIds, NEW p \in StreamRange(i)
    PROVE  p \in Space /\ i = StreamIndex(p)
<1>1. Chunk \in Nat \ {0} /\ streams \in Nat \ {0} /\ PARTITIONS \in Nat \ {0}
  BY StreamChunk, TopologyAssumption
<1>2. i \in Nat
  BY <1>1 DEF StreamIds
<1>3. (i + 1) * Chunk = i * Chunk + Chunk /\ i * Chunk \in Nat
  BY <1>1, <1>2
<1>4. p \in Nat /\ i * Chunk <= p /\ p < i * Chunk + Chunk /\ p < PARTITIONS
  BY <1>1, <1>2, <1>3 DEF StreamRange
<1>5. i = p \div Chunk
  BY <1>1, <1>2, <1>4, BlockUnique
<1>6. QED
  BY <1>1, <1>4, <1>5 DEF Space, StreamIndex

-----------------------------------------------------------------------------
(* The fleet.                                                              *)

\* Forwarders run for the slice of their pod; subjects are stored as mapped.
FleetInv ==
    /\ FleetTypeOK
    /\ \A f \in forwards : f[2] \in Slice(f[1])
    /\ \A s \in stored : s[1] = StreamIndex(s[2])
    /\ \A f \in forwards : <<StreamIndex(f[2]), f[2]>> \in stored

\* Creating a stream adds subjects of that stream only, each where the mapping
\* puts it.
LEMMA CreateMaps ==
    ASSUME streams \in StreamCounts, NEW i \in StreamIds, NEW s \in Create(i), s \notin stored
    PROVE  s \in StreamIds \X Space /\ s[1] = StreamIndex(s[2])
<1>1. s \in {i} \X StreamRange(i)
  BY DEF Create
<1>2. s[1] = i /\ s[2] \in StreamRange(i) /\ s = <<s[1], s[2]>>
  BY <1>1
<1>3. s[2] \in Space /\ i = StreamIndex(s[2])
  BY <1>2, RangeIsIndex
<1>4. QED
  BY <1>2, <1>3

\* FleetInv is inductive.
LEMMA FleetStep == FleetInv /\ [FleetNext]_fleet_vars => FleetInv'
<1> SUFFICES ASSUME FleetInv, [FleetNext]_fleet_vars PROVE FleetInv'
  OBVIOUS
<1> USE DEF FleetInv, FleetTypeOK
<1>1. CASE Produce
  <2>1. PICK i \in StreamIds : stored' = Create(i)
    BY <1>1 DEF Produce
  <2>2. UNCHANGED <<fleet, streams, up, forwards, ended>>
    BY <1>1 DEF Produce
  <2>3. stored \subseteq stored'
    BY <2>1 DEF Create
  <2>4. \A s \in stored' : s \in StreamIds \X Space /\ s[1] = StreamIndex(s[2])
    BY <2>1, CreateMaps
  <2>5. QED
    BY <2>2, <2>3, <2>4 DEF Pods, Space, StreamIds, Slice, StreamIndex, Chunk
<1>2. ASSUME NEW o \in Pods, Start(o) PROVE FleetInv'
  <2>1. /\ UNCHANGED <<fleet, streams, forwards, ended, stored>> /\ up \subseteq up'
        /\ up' \subseteq Pods
    BY <1>2 DEF Start
  <2>2. forwards \subseteq up' \X Space /\ ended \subseteq up' \X Space
    BY <2>1
  <2>3. QED
    BY <2>1, <2>2 DEF Pods, Space, StreamIds, Slice, StreamIndex, Chunk
<1>3. ASSUME NEW o \in Pods, Bind(o) PROVE FleetInv'
  <2>1. PICK p \in Slice(o) : /\ stored' = Create(StreamIndex(p))
                              /\ forwards' = forwards \cup {<<o, p>>}
    BY <1>3 DEF Bind
  <2>2. UNCHANGED <<fleet, streams, up, ended>> /\ o \in up
    BY <1>3 DEF Bind
  <2>3. p \in Space
    BY SliceInSpace
  <2>4. StreamIndex(p) \in StreamIds /\ p \in StreamRange(StreamIndex(p))
    BY <2>3, IndexInRange
  <2>5. <<StreamIndex(p), p>> \in stored' /\ stored \subseteq stored'
    BY <2>1, <2>4 DEF Create
  <2>6. \A s \in stored' : s \in StreamIds \X Space /\ s[1] = StreamIndex(s[2])
    BY <2>1, <2>4, CreateMaps
  <2>7. \A f \in forwards' : /\ f \in up \X Space /\ f[2] \in Slice(f[1])
                             /\ <<StreamIndex(f[2]), f[2]>> \in stored'
    BY <2>1, <2>2, <2>3, <2>5
  <2>8. QED
    BY <2>2, <2>6, <2>7 DEF Pods, Space, StreamIds, Slice, StreamIndex, Chunk
<1>4. ASSUME NEW o \in Pods, Fail(o) PROVE FleetInv'
  <2>1. /\ UNCHANGED <<fleet, streams, stored>> /\ up' = up \ {o}
        /\ forwards' = {f \in forwards : f[1] # o} /\ ended' = {f \in ended : f[1] # o}
    BY <1>4 DEF Fail
  <2>2. forwards' \subseteq up' \X Space /\ ended' \subseteq up' \X Space
    BY <2>1
  <2>3. QED
    BY <2>1, <2>2 DEF Pods, Space, StreamIds, Slice, StreamIndex, Chunk
<1>5. ASSUME NEW o \in Pods, Return(o) PROVE FleetInv'
  <2>1. PICK f \in forwards : forwards' = forwards \ {f} /\ ended' = ended \cup {f}
    BY <1>5 DEF Return
  <2>2. UNCHANGED <<fleet, streams, up, stored>>
    BY <1>5 DEF Return
  <2>3. forwards' \subseteq up \X Space /\ ended' \subseteq up \X Space
    BY <2>1
  <2>4. QED
    BY <2>1, <2>2, <2>3 DEF Pods, Space, StreamIds, Slice, StreamIndex, Chunk
<1>6. CASE UNCHANGED fleet_vars
  BY <1>6 DEF fleet_vars, Pods, Space, StreamIds, Slice, StreamIndex, Chunk
<1>7. QED
  BY <1>1, <1>2, <1>3, <1>4, <1>5, <1>6 DEF FleetNext

\* It holds before any pod starts.
LEMMA FleetBegins == FleetInit => FleetInv
  BY DEF FleetInit, FleetInv, FleetTypeOK

\* So it holds throughout.
LEMMA FleetAlways == FleetSpec => []FleetInv
<1>1. QED
  BY FleetBegins, FleetStep, PTL DEF FleetSpec

\* For every partition count, fleet size and pods up: a partition is pulled by
\* one pod at most.
THEOREM OneForwarderAlways == FleetSpec => []OneForwarder
<1>1. FleetInv => OneForwarder
  <2> SUFFICES ASSUME FleetInv, NEW f \in forwards, NEW g \in forwards, f[2] = g[2]
               PROVE  f = g
    BY DEF OneForwarder
  <2>1. /\ f[1] \in Pods /\ g[1] \in Pods /\ f[2] \in Slice(f[1]) /\ g[2] \in Slice(g[1])
        /\ f = <<f[1], f[2]>> /\ g = <<g[1], g[2]>> /\ fleet \in Fleets
    BY DEF FleetInv, FleetTypeOK
  <2>2. f[1] = g[1]
    BY <2>1, SlicesDisjoint
  <2>3. QED
    BY <2>1, <2>2
<1>2. QED
  BY <1>1, FleetAlways, PTL

\* For every partition count and number of streams, dividing it or not: a
\* partition's subject is on one stream, the one its forwarder is bound to.
THEOREM OneStreamAlways == FleetSpec => []OneStream
<1>1. FleetInv => OneStream
  <2> SUFFICES ASSUME FleetInv PROVE OneStream
    OBVIOUS
  <2>1. ASSUME NEW s \in stored, NEW t \in stored, s[2] = t[2] PROVE s = t
    <3>1. s[1] = StreamIndex(s[2]) /\ t[1] = StreamIndex(t[2])
      BY DEF FleetInv
    <3>2. s = <<s[1], s[2]>> /\ t = <<t[1], t[2]>>
      BY DEF FleetInv, FleetTypeOK
    <3>3. QED
      BY <2>1, <3>1, <3>2
  <2>2. QED
    BY <2>1 DEF OneStream, FleetInv
<1>2. QED
  BY <1>1, FleetAlways, PTL

\* For every fleet size, dividing the partition space or not: a fully started
\* fleet leaves a partition without a forwarder only where that one returned.
THEOREM NoOrphanAlways == FleetSpec => []NoOrphan
<1>1. FleetInv => NoOrphan
  BY SlicesCover DEF FleetInv, FleetTypeOK, NoOrphan
<1>2. QED
  BY <1>1, FleetAlways, PTL
=============================================================================
