------------------------------ MODULE Service ------------------------------
(***************************************************************************)
(* The realtime service from end to end, for the events of one partition:  *)
(* the replay producer and its window of publish acknowledgements, the     *)
(* durable consumer of the partition, the pods that pull from it (two of   *)
(* them while the fleet is resized), the tails they record to, the matched *)
(* subject, and the viewer that merges the diffs it reads there.           *)
(*                                                                         *)
(* A pod takes one event at a time: what a pod of several workers does is  *)
(* module Orchestrator's subject, and what a diff contains is Streaming's. *)
(* Here a diff is the timestamps of its layers and its revision, and a     *)
(* tail is not trimmed below what a warm reads.                            *)
(***************************************************************************)
EXTENDS Integers, Sequences, FiniteSets, SequencesExt, FiniteSetsExt

CONSTANTS
    Pods,        \* orchestrator pods
    Vehicles,
    Inputs,      \* replay's inputs: [rows, loops], the rows in the order of time
    AckWindow,   \* ACK_WINDOW of the producer
    WarmLimit,   \* context_window * 3: how much of a tail a warm reads
    Capacity,    \* --trace-capacity of the viewer
    Primaries,   \* seeds of the Valkey primaries
    Weights,     \* values of mix(hash ^ seed)
    MaxFlight,   \* bound of the model: diffs published and not yet read
    MaxFaults    \* bound of the model: losses, refusals, restarts and retries

ASSUME ServiceAssumption ==
    /\ Inputs \subseteq [rows : Seq([vehicle : Vehicles, timestamp : Int]), loops : Nat]
    /\ AckWindow \in Nat \ {0} /\ Capacity \in Nat \ {0}
    /\ WarmLimit \in Nat \ {0}
    /\ Primaries \subseteq Nat /\ IsFiniteSet(Primaries) /\ Weights \subseteq Nat
    /\ MaxFlight \in Nat \ {0} /\ MaxFaults \in Nat

VARIABLES
    input,     \* what is replayed
    sent,      \* how many events the producer has published
    wire,      \* published events the broker has not taken yet, in order
    acks,      \* acks[i]: "wait", "ok" or "err", for the i-th publish not yet awaited
    producer,  \* "run", "done" or "failed"
    raw,       \* the raw stream: position = sequence = revision
    fresh, pending, acked,
    owners,    \* pods whose slice has the partition
    torn,      \* history: two pods owned it at once, or one ended before it recorded what it emitted
    pod,       \* per pod: [job, pc, lane], lane[v] = {} until warmed, then {the revisions it holds}
    tail,      \* per vehicle: its Valkey stream, oldest first
    recorded,  \* every event ever appended to a tail
    emitted,   \* history: the events a diff was published for
    subject,   \* diffs on their way to the viewer
    trace,     \* VehicleTrace::layers: per vehicle: timestamp -> revision shown
    got,       \* history: the layers that reached that trace
    faults

replay == <<input, sent, wire, acks, producer>>
broker == <<raw, fresh, pending, acked>>
fleet == <<owners, torn>>
store == <<tail, recorded>>
viewer == <<emitted, subject, trace, got>>
vars == <<replay, broker, fleet, pod, store, viewer, faults>>

Fault == faults < MaxFaults /\ faults' = faults + 1
Vehicle(s) == raw[s].vehicle
Time(s) == raw[s].timestamp
Idle == [job |-> 0, pc |-> "idle", lane |-> [v \in Vehicles |-> {}]]

Init ==
    /\ input \in Inputs
    /\ sent = 0 /\ wire = <<>> /\ acks = <<>> /\ producer = "run"
    /\ raw = <<>> /\ fresh = {} /\ pending = {} /\ acked = {}
    /\ \E p \in Pods : owners = {p}
    /\ torn = FALSE /\ pod = [p \in Pods |-> Idle]
    /\ tail = [v \in Vehicles |-> <<>>] /\ recorded = {}
    /\ emitted = {} /\ subject = <<>>
    /\ trace = [v \in Vehicles |-> <<>>] /\ got = [v \in Vehicles |-> {}]
    /\ faults = 0

-----------------------------------------------------------------------------
(* bin/replay.rs *)

Total == Len(input.rows) * input.loops
RowOf(i) == input.rows[((i - 1) % Len(input.rows)) + 1]
EndOfLoop == sent > 0 /\ sent % Len(input.rows) = 0

\* Mutant: the last acknowledgements are not awaited.
WaitWhenFull == acks # <<>> /\ Len(acks) >= AckWindow

\* The loop ends, or the window is full: the producer waits for acknowledgements.
MustWait == acks # <<>> /\ (Len(acks) >= AckWindow \/ EndOfLoop)

Send ==
    /\ producer = "run" /\ sent < Total /\ ~ MustWait
    /\ sent' = sent + 1
    /\ wire' = Append(wire, [row |-> sent + 1])
    /\ acks' = Append(acks, [row |-> sent + 1, outcome |-> "wait"])
    /\ UNCHANGED <<input, producer, broker, fleet, pod, store, viewer, faults>>

\* Whichever acknowledgement is there first; an error ends the program.
Await ==
    /\ producer = "run" /\ MustWait
    /\ \E i \in DOMAIN acks :
          /\ acks[i].outcome # "wait"
          /\ acks' = RemoveAt(acks, i)
          /\ producer' = IF acks[i].outcome = "err" THEN "failed" ELSE producer
    /\ UNCHANGED <<input, sent, wire, broker, fleet, pod, store, viewer, faults>>

Finish ==
    /\ producer = "run" /\ sent = Total /\ ~ MustWait
    /\ producer' = "done"
    /\ UNCHANGED <<input, sent, wire, acks, broker, fleet, pod, store, viewer, faults>>

\* The broker (external) stores a publish and confirms it, or the stored
\* event's confirmation is lost, or it refuses the event.
Settle(row, outcome) ==
    acks' = [i \in DOMAIN acks |->
               IF acks[i].row = row THEN [acks[i] EXCEPT !.outcome = outcome] ELSE acks[i]]

Store(outcome) ==
    /\ wire # <<>> /\ Settle(Head(wire).row, outcome)
    /\ outcome = "err" => Fault
    /\ outcome = "ok" => UNCHANGED faults
    /\ wire' = Tail(wire)
    /\ raw' = Append(raw, RowOf(Head(wire).row))
    /\ fresh' = fresh \cup {Len(raw) + 1}
    /\ UNCHANGED <<input, sent, producer, pending, acked, fleet, pod, store, viewer>>

Refuse ==
    /\ Fault
    /\ wire # <<>> /\ Settle(Head(wire).row, "err")
    /\ wire' = Tail(wire)
    /\ UNCHANGED <<input, sent, producer, broker, fleet, pod, store, viewer>>

-----------------------------------------------------------------------------
(* A pod and the partition's durable consumer, which it shares by name.    *)

Held == {pod[p].job : p \in owners}
Set(p, field) == pod' = [pod EXCEPT ![p] = field]
At(p, pc) == p \in owners /\ pod[p].pc = pc

Pull(p) ==
    /\ At(p, "idle") /\ fresh # {}
    /\ LET s == Min(fresh)
       IN  fresh' = fresh \ {s} /\ pending' = pending \cup {s}
           /\ Set(p, [pod[p] EXCEPT !.job = s, !.pc = "process"])
    /\ UNCHANGED <<replay, raw, acked, fleet, store, viewer, faults>>

LosePull ==
    /\ Fault
    /\ fresh # {} /\ fresh' = fresh \ {Min(fresh)} /\ pending' = pending \cup {Min(fresh)}
    /\ UNCHANGED <<replay, raw, acked, fleet, pod, store, viewer>>

\* ack_wait expired; a fault when somebody still works on the event.
Redeliver(p) ==
    /\ At(p, "idle")
    /\ \E s \in pending :
          /\ s \in Held => Fault
          /\ s \notin Held => UNCHANGED faults
          /\ Set(p, [pod[p] EXCEPT !.job = s, !.pc = "process"])
    /\ UNCHANGED <<replay, broker, fleet, store, viewer>>

LastN(t, n) == IF Len(t) <= n THEN t ELSE SubSeq(t, Len(t) - n + 1, Len(t))

Warmed(p) == pod[p].lane[Vehicle(pod[p].job)] # {}
Lane(p) == UNION pod[p].lane[Vehicle(pod[p].job)]

Warm(p) ==
    /\ At(p, "process") /\ ~ Warmed(p)
    /\ Set(p, [pod[p] EXCEPT !.lane[Vehicle(pod[p].job)] =
                 {ToSet(LastN(tail[Vehicle(pod[p].job)], WarmLimit))}])
    /\ UNCHANGED <<replay, broker, fleet, store, viewer, faults>>

\* Mutant: no gate.
StaleNever(p) == FALSE

Stale(p) == \E r \in Lane(p) : Time(pod[p].job) <= Time(r)

Drop(p) ==
    /\ At(p, "process") /\ Warmed(p) /\ Stale(p)
    /\ Set(p, [pod[p] EXCEPT !.pc = "ack"])
    /\ UNCHANGED <<replay, broker, fleet, store, viewer, faults>>

\* Solved and published: the diff has the event's own layer and those of the
\* lane the trip still carries; the acknowledgement of the publish may be lost.
Emit(p, again) ==
    /\ At(p, "process") /\ Warmed(p) /\ ~ Stale(p) /\ Len(subject) < MaxFlight
    /\ \E carried \in {{}, Lane(p)} :
          subject' = Append(subject, [vehicle |-> Vehicle(pod[p].job), revision |-> pod[p].job,
                                      layers |-> {Time(r) : r \in carried \cup {pod[p].job}}])
    /\ emitted' = emitted \cup {pod[p].job}
    /\ again => Fault
    /\ ~ again => UNCHANGED faults
    /\ Set(p, [pod[p] EXCEPT !.pc = IF again THEN "process" ELSE "archive"])
    /\ UNCHANGED <<replay, broker, fleet, store, trace, got>>

\* Mutant: an event that matched nothing is acknowledged without being recorded.
NoMatchUnrecorded(p) ==
    /\ At(p, "process") /\ Warmed(p) /\ ~ Stale(p)
    /\ Set(p, [pod[p] EXCEPT !.pc = "ack"])
    /\ UNCHANGED <<replay, broker, fleet, store, viewer, faults>>

NoMatch(p) ==
    /\ At(p, "process") /\ Warmed(p) /\ ~ Stale(p)
    /\ Set(p, [pod[p] EXCEPT !.pc = "archive"])
    /\ UNCHANGED <<replay, broker, fleet, store, viewer, faults>>

Record(p) ==
    /\ At(p, "archive")
    /\ LET s == pod[p].job
       IN  /\ tail' = [tail EXCEPT ![Vehicle(s)] = Append(@, s)]
           /\ recorded' = recorded \cup {s}
           /\ Set(p, [pod[p] EXCEPT !.pc = "ack", !.lane[Vehicle(s)] = {Lane(p) \cup {s}}])
    /\ UNCHANGED <<replay, broker, fleet, viewer, faults>>

Ack(p, lost) ==
    /\ At(p, "ack")
    /\ IF lost THEN Fault /\ UNCHANGED <<pending, acked>>
       ELSE /\ pending' = pending \ {pod[p].job} /\ acked' = acked \cup {pod[p].job}
            /\ UNCHANGED faults
    /\ Set(p, [pod[p] EXCEPT !.job = 0, !.pc = "idle"])
    /\ UNCHANGED <<replay, raw, fresh, fleet, store, viewer>>

\* A pod of the new fleet starts to own the partition, an old one ends.
StartPod(p) ==
    /\ Fault
    /\ p \notin owners /\ owners' = owners \cup {p}
    /\ torn' = (torn \/ owners # {})
    /\ UNCHANGED <<replay, broker, pod, store, viewer>>

EndPod(p) ==
    /\ p \in owners /\ owners' = owners \ {p}
    /\ torn' = (torn \/ pod[p].job \in emitted \ recorded)
    /\ pod' = [pod EXCEPT ![p] = Idle]
    /\ UNCHANGED <<replay, broker, store, viewer, faults>>

-----------------------------------------------------------------------------
(* The viewer: NATSStream, the pump and TraceStore. *)

\* Mutant: the newest layers are trimmed.
TrimLast(layers) ==
    LET kept == {t \in DOMAIN layers : Cardinality({u \in DOMAIN layers : u <= t}) <= Capacity}
    IN  [t \in kept |-> layers[t]]

Trim(layers) ==
    LET kept == {t \in DOMAIN layers : Cardinality({u \in DOMAIN layers : u >= t}) <= Capacity}
    IN  [t \in kept |-> layers[t]]

merge(layers, diff) ==
    Trim([t \in DOMAIN layers \cup diff.layers |->
            IF t \in diff.layers THEN diff.revision ELSE layers[t]])

Ingest ==
    /\ subject # <<>> /\ subject' = Tail(subject)
    /\ LET diff == Head(subject)
       IN  /\ trace' = [trace EXCEPT ![diff.vehicle] = merge(@, diff)]
           /\ got' = [got EXCEPT ![diff.vehicle] = @ \cup (diff.layers \X {diff.revision})]
    /\ UNCHANGED <<replay, broker, fleet, pod, store, emitted, faults>>

\* The subscription is not durable: a slow or a reconnecting viewer loses diffs.
LoseDiff ==
    /\ Fault
    /\ subject # <<>> /\ subject' = Tail(subject)
    /\ UNCHANGED <<replay, broker, fleet, pod, store, emitted, trace, got>>

evict_idle(v) ==
    /\ Fault
    /\ got[v] # {} /\ trace' = [trace EXCEPT ![v] = <<>>] /\ got' = [got EXCEPT ![v] = {}]
    /\ UNCHANGED <<replay, broker, fleet, pod, store, emitted, subject>>

-----------------------------------------------------------------------------
Producer == Send \/ Await \/ Finish \/ (\E outcome \in {"ok", "err"} : Store(outcome)) \/ Refuse
Pod(p) == \/ Pull(p) \/ Redeliver(p) \/ Warm(p) \/ Drop(p) \/ NoMatch(p) \/ Record(p)
          \/ \E b \in BOOLEAN : Emit(p, b) \/ Ack(p, b)
Viewer == Ingest \/ LoseDiff \/ \E v \in Vehicles : evict_idle(v)

Next == \/ Producer \/ Viewer \/ LosePull
        \/ \E p \in Pods : Pod(p) \/ StartPod(p) \/ EndPod(p)

Spec == Init /\ [][Next]_vars

-----------------------------------------------------------------------------
(* store/redis.rs: which primary has a vehicle's tail. The weight of a     *)
(* primary for a key is mix(hash ^ seed), any function of the seed here.   *)

\* Mutant: the first of the heaviest, whatever its seed.
index_first(urls, weight) ==
    CHOOSE i \in DOMAIN urls :
        \A j \in DOMAIN urls : \/ weight[urls[j]] < weight[urls[i]]
                               \/ weight[urls[j]] = weight[urls[i]] /\ i <= j

index_for(urls, weight) ==
    CHOOSE i \in DOMAIN urls :
        \A j \in DOMAIN urls : \/ weight[urls[j]] < weight[urls[i]]
                               \/ weight[urls[j]] = weight[urls[i]] /\ urls[j] <= urls[i]

\* The order in which the primaries are listed decides nothing, and adding one
\* moves a vehicle to the new primary or not at all, whatever the hashes and
\* their ties: histories stay where they are.
PlacementIsStable ==
    (sent = 0 /\ owners # {}) =>
        \A weight \in [Primaries -> Weights] : \A urls \in SetToSeqs(Primaries) :
            LET chosen == urls[index_for(urls, weight)]
            IN  /\ \A other \in SetToSeqs(Primaries) : other[index_for(other, weight)] = chosen
                /\ \A i \in DOMAIN urls :
                     Len(urls) > 1 /\ urls[i] # chosen =>
                       LET fewer == RemoveAt(urls, i)
                       IN  fewer[index_for(fewer, weight)] = chosen

-----------------------------------------------------------------------------
\* replay ends well only when the raw stream has every row of every loop, once
\* and in order, although acknowledgements come back in any order and late.
ReplayIsComplete ==
    producer = "done" => raw = [i \in 1 .. Total |-> RowOf(i)]

\* Nothing is lost to a resize: while two pods work on one vehicle, each with a
\* lane that misses what the other records, an event is still deleted from the
\* work queue only if it is recorded or the record has a later one.
ResizeLosesNothing ==
    \A s \in acked : \E r \in recorded : Vehicle(r) = Vehicle(s) /\ Time(s) <= Time(r)

\* The trace has the newest layers that reached it, although old layers are
\* emitted again after they were trimmed.
TraceKeepsTheNewest ==
    \A v \in Vehicles :
        LET times == {layer[1] : layer \in got[v]}
        IN  DOMAIN trace[v] = {t \in times : Cardinality({u \in times : u >= t}) <= Capacity}

\* "Consumers [...] resolve competing solves by revision - highest wins": for
\* every layer the viewer shows, the highest revision that reached it.
HighestRevisionWins ==
    \A v \in Vehicles : \A t \in DOMAIN trace[v] :
        \A layer \in got[v] : layer[1] = t => layer[2] <= trace[v][t]

\* A supplier whose timestamps never go back.
InOrder == \A r, s \in DOMAIN raw : (r < s /\ Vehicle(r) = Vehicle(s)) => Time(r) < Time(s)

\* The viewer does not compare revisions, and yet the highest wins as long as
\* one pod at a time owns the partition, none ends between an emission and its
\* record, and the supplier never goes back: repeated publishes, lost acks,
\* redeliveries of overtaken events and other restarts put no older solve over
\* a newer one.
TraceIsLatestSolve == ~ torn /\ InOrder => HighestRevisionWins
=============================================================================
