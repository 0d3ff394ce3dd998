---------------------------- MODULE Orchestrator ----------------------------
(***************************************************************************)
(* One orchestrator pod: partition forwarders, pinned workers and the      *)
(* archive writer, between the durable raw stream, the matchers, the       *)
(* matched stream and the Valkey tails (all four external).                *)
(*                                                                         *)
(* An event is named by its stream sequence, which is also its revision.   *)
(* Of a vehicle's history lane only the newest timestamp is kept: that is  *)
(* what the lane gate reads. What the lane contains, and the context built *)
(* from it, is module Streaming's subject. A cached trip is represented by *)
(* the revision of the event whose solve produced it.                      *)
(***************************************************************************)
EXTENDS Integers, Sequences, FiniteSets

CONSTANTS
    Vehicles,       \* vehicle ids
    Workers,        \* worker tasks of the pod
    Partitions,     \* partitions the pod owns
    WorkerOf,       \* the pinning mix(vehicle) % workers, as a function
    PartitionOf,    \* partition_of, as a function
    Unserved,       \* vehicles on ground no matcher serves: no reply ever comes
    Feeds,          \* the raw streams considered: sequences of events
    QueueCap,       \* capacity of a worker's dispatch channel (1024)
    MaxAckPending,  \* --max-ack-pending of a partition's consumer
    BatchSize,      \* --batch-size of the archive writer
    History,        \* --history: MAXLEN of a tail
    WarmLimit,      \* context_window * 3: how much of a tail a warm reads
    MaxFaults       \* bound of the model: crashes, losses and failed calls

Event == [vehicle : Vehicles, timestamp : Nat \ {0}, poison : BOOLEAN]

ASSUME PinAssumption ==
    /\ WorkerOf \in [Vehicles -> Workers]
    /\ PartitionOf \in [Vehicles -> Partitions]
    /\ Unserved \subseteq Vehicles
ASSUME FeedAssumption == Feeds \subseteq Seq(Event)
ASSUME BoundAssumption ==
    /\ QueueCap \in Nat \ {0} /\ MaxAckPending \in Nat \ {0}
    /\ BatchSize \in Nat \ {0} /\ History \in Nat \ {0}
    /\ WarmLimit \in Nat \ {0} /\ MaxFaults \in Nat

VARIABLES
    raw,        \* the raw stream: a work queue, position = stream sequence
    fresh,      \* sequences the partition consumers have not delivered yet
    pending,    \* delivered and unacknowledged: redelivered after ack_wait
    acked,      \* acknowledged, deleted from the stream
    hand,       \* per partition: the message its forwarder holds, 0 if none
    queue,      \* per worker: its dispatch channel
    pc,         \* per worker: where it is in the worker loop
    job,        \* per worker: the dispatch it is processing, 0 if none
    warmed,     \* vehicles with a cached history lane
    lane,       \* per vehicle: newest timestamp of its lane, 0 if empty
    trip,       \* per vehicle: revision its cached trip was solved for, 0 if none
    archive,    \* events sent to the archive writer, not yet in a batch
    batch,      \* the batch being flushed
    written,    \* events of the batch appended by the current write_many
    tail,       \* per vehicle: its Valkey stream, oldest first
    recorded,   \* every event ever appended to a tail
    matched,    \* revisions stored on the matched stream
    unmatched,  \* revisions answered with NoMatch
    faults      \* failures so far

broker   == <<raw, fresh, pending, acked>>
pod      == <<hand, queue, pc, job, warmed, lane, trip>>
archiver == <<archive, batch, written>>
durable  == <<tail, recorded, matched, unmatched>>
vars == <<raw, fresh, pending, acked, hand, queue, pc, job, warmed, lane, trip,
          archive, batch, written, tail, recorded, matched, unmatched, faults>>

Revisions == DOMAIN raw
Vehicle(s) == raw[s].vehicle
Time(s) == raw[s].timestamp
Worker(s) == WorkerOf[Vehicle(s)]
Partition(s) == PartitionOf[Vehicle(s)]

\* The worker loop. "process" is the head of the retry loop: an Err of
\* Worker::process comes back here.
Stages == {"idle", "process", "solve", "publish", "commit", "archive",
           "flush", "push", "ack"}

Fault == faults < MaxFaults /\ faults' = faults + 1

Init ==
    /\ raw \in Feeds
    /\ fresh = Revisions /\ pending = {} /\ acked = {}
    /\ hand = [p \in Partitions |-> 0]
    /\ queue = [w \in Workers |-> <<>>]
    /\ pc = [w \in Workers |-> "idle"] /\ job = [w \in Workers |-> 0]
    /\ warmed = {} /\ lane = [v \in Vehicles |-> 0] /\ trip = [v \in Vehicles |-> 0]
    /\ archive = {} /\ batch = {} /\ written = {}
    /\ tail = [v \in Vehicles |-> <<>>]
    /\ recorded = {} /\ matched = {} /\ unmatched = {}
    /\ faults = 0

-----------------------------------------------------------------------------
(* The durable consumer of a partition (external) and its forwarder.       *)

\* The next sequence of p the broker may hand out: in stream order, while
\* fewer than max_ack_pending are outstanding.
Deliverable(p, s) ==
    /\ s \in fresh /\ Partition(s) = p
    /\ \A r \in fresh : Partition(r) = p => s <= r
    /\ Cardinality({r \in pending : Partition(r) = p}) < MaxAckPending

Deliver(p) ==
    /\ hand[p] = 0
    /\ \E s \in Revisions :
          /\ Deliverable(p, s)
          /\ fresh' = fresh \ {s} /\ pending' = pending \cup {s}
          /\ hand' = [hand EXCEPT ![p] = s]
    /\ UNCHANGED <<raw, acked, queue, pc, job, warmed, lane, trip, archiver,
                   durable, faults>>

\* The broker counts a delivery the pod never sees ("pull error", or a
\* connection lost with the message in flight).
LoseDelivery(p) ==
    /\ Fault
    /\ \E s \in Revisions :
          /\ Deliverable(p, s)
          /\ fresh' = fresh \ {s} /\ pending' = pending \cup {s}
    /\ UNCHANGED <<raw, acked, pod, archiver, durable>>

\* A copy of s is somewhere in the pod's memory.
Held(s) == \/ \E p \in Partitions : hand[p] = s
           \/ \E w \in Workers : job[w] = s \/ \E i \in DOMAIN queue[w] : queue[w][i] = s

\* ack_wait expired. Expiring while the pod still works on s is one of the
\* bounded faults; expiring for a copy nobody holds always happens.
Redeliver(s) ==
    /\ s \in pending /\ hand[Partition(s)] = 0 /\ ~ Held(s)
    /\ hand' = [hand EXCEPT ![Partition(s)] = s]
    /\ UNCHANGED <<broker, queue, pc, job, warmed, lane, trip, archiver, durable,
                   faults>>

RedeliverHeld(s) ==
    /\ Fault
    /\ s \in pending /\ hand[Partition(s)] = 0 /\ Held(s)
    /\ hand' = [hand EXCEPT ![Partition(s)] = s]
    /\ UNCHANGED <<broker, queue, pc, job, warmed, lane, trip, archiver, durable>>

\* The forwarder sends the decoded event to its vehicle's worker, waiting
\* while that channel is full and holding the partition meanwhile.
Dispatch(p) ==
    /\ hand[p] # 0 /\ ~ raw[hand[p]].poison
    /\ LET w == Worker(hand[p]) IN
          /\ Len(queue[w]) < QueueCap
          /\ queue' = [queue EXCEPT ![w] = Append(@, hand[p])]
    /\ hand' = [hand EXCEPT ![p] = 0]
    /\ UNCHANGED <<broker, pc, job, warmed, lane, trip, archiver, durable, faults>>

\* Mutant: the poison message is skipped without its ack.
AckPoisonSkips(p) ==
    /\ hand[p] # 0 /\ raw[hand[p]].poison
    /\ hand' = [hand EXCEPT ![p] = 0]
    /\ UNCHANGED <<broker, queue, pc, job, warmed, lane, trip, archiver, durable,
                   faults>>

\* An undecodable message is acknowledged away.
AckPoison(p) ==
    /\ hand[p] # 0 /\ raw[hand[p]].poison
    /\ acked' = acked \cup {hand[p]} /\ pending' = pending \ {hand[p]}
    /\ hand' = [hand EXCEPT ![p] = 0]
    /\ UNCHANGED <<raw, fresh, queue, pc, job, warmed, lane, trip, archiver,
                   durable, faults>>

\* ... and the ack may fail: `let _ = message.ack().await`.
AckPoisonLost(p) ==
    /\ Fault
    /\ hand[p] # 0 /\ raw[hand[p]].poison
    /\ hand' = [hand EXCEPT ![p] = 0]
    /\ UNCHANGED <<broker, queue, pc, job, warmed, lane, trip, archiver, durable>>

-----------------------------------------------------------------------------
(* A worker: Worker::process and the loop around it.                       *)

At(w, stage) == pc[w] = stage
GoTo(w, stage) == pc' = [pc EXCEPT ![w] = stage]

Take(w) ==
    /\ At(w, "idle") /\ queue[w] # <<>>
    /\ job' = [job EXCEPT ![w] = Head(queue[w])]
    /\ queue' = [queue EXCEPT ![w] = Tail(@)]
    /\ GoTo(w, "process")
    /\ UNCHANGED <<broker, hand, warmed, lane, trip, archiver, durable, faults>>

\* Mutant: the oldest entries instead of the newest (XRANGE for XREVRANGE).
OldestN(t, n) == IF Len(t) <= n THEN t ELSE SubSeq(t, 1, n)

\* get_many: the newest n entries of a tail.
LastN(t, n) == IF Len(t) <= n THEN t ELSE SubSeq(t, Len(t) - n + 1, Len(t))

\* Sorting the entries by timestamp and looking at the last one.
Newest(t) ==
    IF t = <<>> THEN 0
    ELSE CHOOSE m \in {Time(t[i]) : i \in DOMAIN t} :
             \A i \in DOMAIN t : Time(t[i]) <= m

\* What a bounded cache of w's vehicles may throw out to make room for v:
\* nothing when v is already there, else nothing or one other vehicle.
Evictions(w, v, cached) ==
    {{}} \cup {{u} : u \in {u \in cached : v \notin cached /\ WorkerOf[u] = w}}

\* The only Valkey read, on a lane miss. A failed read restarts process(),
\* which is this state again.
Warm(w) ==
    /\ At(w, "process")
    /\ LET v == Vehicle(job[w]) IN
          /\ v \notin warmed
          /\ lane' = [lane EXCEPT ![v] = Newest(LastN(tail[v], WarmLimit))]
          /\ \E gone \in Evictions(w, v, warmed) :
                warmed' = (warmed \ gone) \cup {v}
    /\ UNCHANGED <<broker, hand, queue, pc, job, trip, archiver, durable, faults>>

\* Mutant: an equal timestamp passes the gate.
StaleStrict(s) == Time(s) < lane[Vehicle(s)]

\* The lane gate.
Stale(s) == Time(s) <= lane[Vehicle(s)]

Drop(w) ==
    /\ At(w, "process") /\ Vehicle(job[w]) \in warmed /\ Stale(job[w])
    /\ GoTo(w, "ack")
    /\ UNCHANGED <<broker, hand, queue, job, warmed, lane, trip, archiver,
                   durable, faults>>

Request(w) ==
    /\ At(w, "process") /\ Vehicle(job[w]) \in warmed /\ ~ Stale(job[w])
    /\ GoTo(w, "solve")
    /\ UNCHANGED <<broker, hand, queue, job, warmed, lane, trip, archiver,
                   durable, faults>>

\* The matcher's reply (external): a solve to publish, or NoMatch.
Served(w) == Vehicle(job[w]) \notin Unserved

Solved(w) ==
    /\ At(w, "solve") /\ Served(w) /\ GoTo(w, "publish")
    /\ UNCHANGED <<broker, hand, queue, job, warmed, lane, trip, archiver,
                   durable, faults>>

NoMatch(w) ==
    /\ At(w, "solve") /\ Served(w) /\ GoTo(w, "archive")
    /\ unmatched' = unmatched \cup {job[w]}
    /\ UNCHANGED <<broker, hand, queue, job, warmed, lane, trip, archiver,
                   tail, recorded, matched, faults>>

\* solve() gave None after its retries, or a publish that stored nothing
\* failed: Err, and the event starts over.
Retry(w) ==
    /\ Fault
    /\ pc[w] \in {"solve", "publish"} /\ GoTo(w, "process")
    /\ UNCHANGED <<broker, hand, queue, job, warmed, lane, trip, archiver, durable>>

\* Nobody answers for this ground: every attempt ends like this.
NoReply(w) ==
    /\ At(w, "solve") /\ ~ Served(w) /\ GoTo(w, "process")
    /\ UNCHANGED <<broker, hand, queue, job, warmed, lane, trip, archiver,
                   durable, faults>>

\* Mutant: the publish is fired and forgotten, and lost.
PublishUnstored(w) ==
    /\ At(w, "publish") /\ GoTo(w, "commit")
    /\ UNCHANGED <<broker, hand, queue, job, warmed, lane, trip, archiver,
                   durable, faults>>

\* The broker stores the emission; its acknowledgement is on the way.
Publish(w) ==
    /\ At(w, "publish") /\ GoTo(w, "commit")
    /\ matched' = matched \cup {job[w]}
    /\ UNCHANGED <<broker, hand, queue, job, warmed, lane, trip, archiver,
                   tail, recorded, unmatched, faults>>

\* "emission unacknowledged": stored, but the event starts over.
Unacknowledged(w) ==
    /\ Fault
    /\ At(w, "commit") /\ GoTo(w, "process")
    /\ UNCHANGED <<broker, hand, queue, job, warmed, lane, trip, archiver, durable>>

Commit(w) ==
    /\ At(w, "commit") /\ GoTo(w, "archive")
    /\ LET v == Vehicle(job[w])
           cached == {u \in Vehicles : trip[u] # 0}
       IN \E gone \in Evictions(w, v, cached) :
             trip' = [u \in Vehicles |-> IF u = v THEN job[w]
                                         ELSE IF u \in gone THEN 0 ELSE trip[u]]
    /\ UNCHANGED <<broker, hand, queue, job, warmed, lane, archiver, durable, faults>>

\* Mutant: the ack does not wait for the flush.
SendWithoutWaiting(w) ==
    /\ At(w, "archive") /\ GoTo(w, "ack")
    /\ archive' = archive \cup {job[w]}
    /\ UNCHANGED <<broker, hand, queue, job, warmed, lane, trip, batch, written,
                   durable, faults>>

\* Hand the event to the archive writer and await its flush.
Send(w) ==
    /\ At(w, "archive") /\ GoTo(w, "flush")
    /\ archive' = archive \cup {job[w]}
    /\ UNCHANGED <<broker, hand, queue, job, warmed, lane, trip, batch, written,
                   durable, faults>>

\* Mutant: the event never enters the lane.
PushForgotten(w) ==
    /\ At(w, "push") /\ GoTo(w, "ack")
    /\ UNCHANGED <<broker, hand, queue, job, warmed, lane, trip, archiver, durable,
                   faults>>

\* Flushed: the event enters the lane.
Push(w) ==
    /\ At(w, "push") /\ GoTo(w, "ack")
    /\ lane' = IF Vehicle(job[w]) \in warmed
               THEN [lane EXCEPT ![Vehicle(job[w])] = Time(job[w])]
               ELSE lane
    /\ UNCHANGED <<broker, hand, queue, job, warmed, trip, archiver, durable, faults>>

Ack(w) ==
    /\ At(w, "ack") /\ GoTo(w, "idle")
    /\ job' = [job EXCEPT ![w] = 0]
    /\ acked' = acked \cup {job[w]} /\ pending' = pending \ {job[w]}
    /\ UNCHANGED <<raw, fresh, hand, queue, warmed, lane, trip, archiver, durable,
                   faults>>

\* "could not ack event" is only logged.
AckLost(w) ==
    /\ Fault
    /\ At(w, "ack") /\ GoTo(w, "idle")
    /\ job' = [job EXCEPT ![w] = 0]
    /\ UNCHANGED <<broker, hand, queue, warmed, lane, trip, archiver, durable>>

-----------------------------------------------------------------------------
(* The archive writer. Every member of a batch belongs to another vehicle  *)
(* (a worker awaits its flush), so the channel's order is not kept.        *)

\* A batch closes when it is full or when the batch timeout expires.
Collect ==
    /\ batch = {}
    /\ \E b \in SUBSET archive :
          /\ b # {} /\ Cardinality(b) <= BatchSize
          /\ batch' = b /\ archive' = archive \ b
    /\ UNCHANGED <<broker, pod, written, durable, faults>>

\* One XADD of write_many's scattered pipelines reaches its primary. MAXLEN ~
\* trims to the limit or, being approximate, keeps more.
XAdd(s) ==
    /\ s \in batch \ written
    /\ LET v == Vehicle(s)
           t == Append(tail[v], s)
       IN \E n \in {History, Len(t)} :
             tail' = [tail EXCEPT ![v] = LastN(t, n)]
    /\ recorded' = recorded \cup {s}
    /\ written' = written \cup {s}
    /\ UNCHANGED <<broker, pod, archive, batch, matched, unmatched, faults>>

\* One primary failed: try_join_all fails as a whole and the whole batch is
\* written again, whatever part of it has landed.
FlushFails ==
    /\ Fault
    /\ batch # {} /\ written' = {}
    /\ UNCHANGED <<broker, pod, archive, batch, durable>>

\* Mutant: `written` is not reset for the next batch.
FlushedDirty ==
    /\ batch # {} /\ written = batch
    /\ pc' = [w \in Workers |-> IF pc[w] = "flush" /\ job[w] \in batch
                                THEN "push" ELSE pc[w]]
    /\ batch' = {} /\ UNCHANGED written
    /\ UNCHANGED <<broker, hand, queue, job, warmed, lane, trip, archive, durable,
                   faults>>

Flushed ==
    /\ batch # {} /\ written = batch
    /\ pc' = [w \in Workers |-> IF pc[w] = "flush" /\ job[w] \in batch
                                THEN "push" ELSE pc[w]]
    /\ batch' = {} /\ written' = {}
    /\ UNCHANGED <<broker, hand, queue, job, warmed, lane, trip, archive, durable,
                   faults>>

-----------------------------------------------------------------------------
\* The pod dies and its replacement starts: everything in memory is gone,
\* what was delivered stays pending at the broker.
Crash ==
    /\ Fault
    /\ hand' = [p \in Partitions |-> 0]
    /\ queue' = [w \in Workers |-> <<>>]
    /\ pc' = [w \in Workers |-> "idle"] /\ job' = [w \in Workers |-> 0]
    /\ warmed' = {} /\ lane' = [v \in Vehicles |-> 0] /\ trip' = [v \in Vehicles |-> 0]
    /\ archive' = {} /\ batch' = {} /\ written' = {}
    /\ UNCHANGED <<broker, durable>>

Forwarder(p) == Deliver(p) \/ Dispatch(p) \/ AckPoison(p)

Step(w) == \/ Take(w) \/ Warm(w) \/ Drop(w) \/ Request(w) \/ Solved(w) \/ NoMatch(w)
           \/ NoReply(w) \/ Publish(w) \/ Commit(w) \/ Send(w) \/ Push(w) \/ Ack(w)

Archiver == Collect \/ (\E s \in Revisions : XAdd(s)) \/ Flushed

Failure ==
    \/ \E p \in Partitions : LoseDelivery(p) \/ AckPoisonLost(p)
    \/ \E s \in Revisions : RedeliverHeld(s)
    \/ \E w \in Workers : Retry(w) \/ Unacknowledged(w) \/ AckLost(w)
    \/ FlushFails
    \/ Crash

Next ==
    \/ \E p \in Partitions : Forwarder(p)
    \/ \E s \in Revisions : Redeliver(s)
    \/ \E w \in Workers : Step(w)
    \/ Archiver
    \/ Failure

Spec == Init /\ [][Next]_vars

\* Every task of the pod keeps running (tokio schedules them all), and the
\* broker hands out pending messages again after ack_wait.
Fairness ==
    /\ \A p \in Partitions : WF_vars(Forwarder(p))
    /\ WF_vars(\E s \in Revisions : Redeliver(s))
    /\ \A w \in Workers : WF_vars(Step(w))
    /\ WF_vars(Archiver)

FairSpec == Spec /\ Fairness

-----------------------------------------------------------------------------
(* Properties.                                                             *)

\* Revisions and vehicles everywhere, and the writer never reports an entry that
\* is not in its batch.
TypeOK ==
    /\ raw \in Seq(Event)
    /\ fresh \subseteq Revisions /\ pending \subseteq Revisions
    /\ acked \subseteq Revisions
    /\ hand \in [Partitions -> {0} \cup Revisions]
    /\ queue \in [Workers -> Seq(Revisions)]
    /\ pc \in [Workers -> Stages] /\ job \in [Workers -> {0} \cup Revisions]
    /\ warmed \subseteq Vehicles /\ lane \in [Vehicles -> Nat]
    /\ trip \in [Vehicles -> {0} \cup Revisions]
    /\ archive \subseteq Revisions /\ batch \subseteq Revisions
    /\ written \subseteq batch
    /\ tail \in [Vehicles -> Seq(Revisions)]
    /\ recorded \subseteq Revisions /\ matched \subseteq Revisions
    /\ unmatched \subseteq Revisions
    /\ faults \in 0 .. MaxFaults

\* The pod's memory, its queues and the broker's bookkeeping are hidden: what
\* is left are the stream, the verdicts, the record and the acknowledgements.
L == INSTANCE Ledger WITH raw <- raw, matched <- matched, unmatched <- unmatched,
                          recorded <- recorded, acked <- acked

\* An acknowledgement deletes the event from the work queue, so it may only
\* happen when the vehicle's durable record already reaches the event (or it
\* could never be decoded): whatever the crashes, lost acks and redeliveries,
\* nothing newer than the record is ever deleted.
AckIsCovered == \A s \in acked : raw[s].poison \/ L!Covered(s)

\* The in-memory gate and the durable tail agree: a cached lane ends exactly
\* where the vehicle's record ends, except while its worker is between the
\* append and the lane push. Warming after a crash or an eviction, duplicate
\* appends and trimming all have to keep it so, or a redelivery would be
\* processed twice (gate behind) or lost (gate ahead).
GateEndsAtRecord ==
    \A v \in warmed :
        /\ \A r \in recorded : Vehicle(r) = v =>
              \/ Time(r) <= lane[v]
              \/ pc[WorkerOf[v]] \in {"flush", "push"} /\ job[WorkerOf[v]] = r
        /\ lane[v] # 0 => \E r \in recorded : Vehicle(r) = v /\ Time(r) = lane[v]

\* "Commit after the durable publish ... never strands a trip ahead of its
\* emissions": a cached trip belongs to an emission the matched stream stores.
TripHasEmission ==
    \A v \in Vehicles : trip[v] # 0 => trip[v] \in matched /\ Vehicle(trip[v]) = v

\* "a stale solve can never overwrite a fresh trip": replacing a cached trip
\* only ever moves it forward in the vehicle's time.
TripNeverRegresses ==
    [][\A v \in Vehicles :
          (trip[v] # 0 /\ trip'[v] # 0 /\ trip'[v] # trip[v])
              => Time(trip[v]) < Time(trip'[v])]_vars

\* Decided before recorded, never decided or recorded behind the record,
\* settled only when covered: the whole promise, as a refinement.
ImplementsLedger == L!LedgerSpec

\* A solve that never gets a reply holds its worker; through the full channel it
\* holds every forwarder that has an event for that worker.
Jammed == {Worker(s) : s \in {r \in Revisions : ~ raw[r].poison /\ Vehicle(r) \in Unserved}}
Choked == {Partition(s) : s \in {r \in Revisions : ~ raw[r].poison /\ Worker(r) \in Jammed}}

\* Once failures stop, every event is eventually acknowledged and none of it stays
\* outstanding, except in the partitions that feed a jammed worker: no stuck channel,
\* forwarder, batch or redelivery anywhere else, also where a worker has vehicles of
\* both kinds of partition.
ServedAreSettled ==
    <>[](\A s \in Revisions : Partition(s) \notin Choked => s \in acked \ pending)

-----------------------------------------------------------------------------
(* The inductive strengthening of the safety properties.                   *)

\* Nothing recorded for s's vehicle reaches s.
Ahead(s) == \A r \in recorded : Vehicle(r) = Vehicle(s) => Time(r) < Time(s)

\* The only recorded event of s's vehicle that reaches s is s itself.
Newer(s) == \A r \in recorded : (Vehicle(r) = Vehicle(s) /\ r # s) => Time(r) < Time(s)

\* A worker only ever holds events of its own vehicles.
Pinned ==
    /\ \A w \in Workers : \A i \in DOMAIN queue[w] : Worker(queue[w][i]) = w
    /\ \A w \in Workers : pc[w] # "idle" => job[w] \in Revisions /\ Worker(job[w]) = w

\* What a worker may rely on at each stage of process().
StageOK ==
    \A w \in Workers :
        /\ pc[w] \in {"solve", "publish", "commit", "archive"} => Ahead(job[w])
        /\ pc[w] \in {"flush", "push"} => Newer(job[w])
        /\ pc[w] = "commit" => job[w] \in matched
        /\ pc[w] \in {"archive", "flush"} => job[w] \in matched \cup unmatched
        /\ pc[w] = "push" => job[w] \in recorded
        /\ pc[w] = "ack" => L!Covered(job[w])

\* Everything at the archive writer has its worker waiting for it.
ArchiveOK ==
    /\ \A s \in archive \cup batch : pc[Worker(s)] = "flush" /\ job[Worker(s)] = s
    /\ archive \cap batch = {}
    /\ written \subseteq recorded

\* A tail holds its vehicle's recorded events and ends with the newest.
TailOK ==
    /\ \A v \in Vehicles : \A i \in DOMAIN tail[v] :
          tail[v][i] \in recorded /\ Vehicle(tail[v][i]) = v
    /\ \A r \in recorded :
          LET t == tail[Vehicle(r)] IN t # <<>> /\ Time(r) <= Time(t[Len(t)])

\* A cached trip is recorded, or is about to be.
TripOK ==
    \A v \in Vehicles : trip[v] # 0 =>
        \/ trip[v] \in recorded
        \/ pc[WorkerOf[v]] \in {"archive", "flush"} /\ job[WorkerOf[v]] = trip[v]

IInv == /\ TypeOK /\ Pinned /\ StageOK /\ ArchiveOK /\ TailOK
        /\ GateEndsAtRecord /\ AckIsCovered /\ TripHasEmission /\ TripOK

-----------------------------------------------------------------------------
\* What the code says of the gate: "everything behind the gate is durably
\* recorded, so a redelivery can trust the drop" - an event leaves the
\* pipeline only when it is itself in the durable tail.
DropIsRecorded == \A w \in Workers : At(w, "ack") => job[w] \in recorded
=============================================================================
