------------------------------ MODULE Topology ------------------------------
(***************************************************************************)
(* How the partition space divides: across the orchestrator pods, each     *)
(* deriving its slice from its StatefulSet ordinal, and across the raw     *)
(* streams, which pods and producers create from the same arithmetic. Pods *)
(* start, bind one consumer per owned partition and fail independently.    *)
(***************************************************************************)
EXTENDS Integers, FiniteSets

CONSTANTS
    PARTITIONS,     \* 1024 in the code
    Fleets,         \* the fleet sizes considered
    StreamCounts    \* the stream counts considered

ASSUME TopologyAssumption ==
    /\ PARTITIONS \in Nat \ {0}
    /\ Fleets \subseteq 1 .. PARTITIONS     \* ensured by owned_partitions
    /\ StreamCounts \subseteq Nat \ {0}

VARIABLES
    fleet,      \* --fleet, the same for every pod
    streams,    \* --streams, the same fleet-wide
    up,         \* ordinals of the running pods
    forwards,   \* <<ordinal, partition>>: forwarders that are pulling
    ended,      \* <<ordinal, partition>>: forwarders that returned, their pod up
    stored      \* <<stream, partition>>: subjects of the raw streams created

fleet_vars == <<fleet, streams, up, forwards, ended, stored>>

Space == 0 .. PARTITIONS - 1
Pods == 0 .. fleet - 1
StreamIds == 0 .. streams - 1

\* Mutant: the division's remainder belongs to nobody.
SliceShort(o) == o * (PARTITIONS \div fleet) .. (o + 1) * (PARTITIONS \div fleet) - 1

\* Mutant: the bounds are read as a half-open range.
SliceLong(o) ==
    LET chunk == PARTITIONS \div fleet
    IN o * chunk .. IF o = fleet - 1 THEN PARTITIONS - 1 ELSE (o + 1) * chunk

\* owned_partitions: equal blocks, the last pod taking the remainder.
Slice(o) ==
    LET chunk == PARTITIONS \div fleet
    IN o * chunk .. IF o = fleet - 1 THEN PARTITIONS - 1 ELSE (o + 1) * chunk - 1

\* PARTITIONS.div_ceil(streams)
Chunk == (PARTITIONS + streams - 1) \div streams

\* Mutant: the index is computed with the rounded-down chunk.
StreamIndexDown(p) == p \div IF PARTITIONS < streams THEN 1 ELSE PARTITIONS \div streams

\* stream_index
StreamIndex(p) == p \div Chunk

\* raw_stream: the subjects of one stream.
StreamRange(i) ==
    i * Chunk .. (IF (i + 1) * Chunk < PARTITIONS THEN (i + 1) * Chunk ELSE PARTITIONS) - 1

FleetInit ==
    /\ fleet \in Fleets /\ streams \in StreamCounts
    /\ up = {} /\ forwards = {} /\ ended = {} /\ stored = {}

Create(i) == stored \cup ({i} \X StreamRange(i))

\* A producer creates every stream before it publishes.
Produce ==
    /\ \E i \in StreamIds : stored' = Create(i)
    /\ UNCHANGED <<fleet, streams, up, forwards, ended>>

Start(o) ==
    /\ o \in Pods \ up
    /\ up' = up \cup {o}
    /\ UNCHANGED <<fleet, streams, forwards, ended, stored>>

\* The pod creates the partition's stream and binds its consumer, in order.
Bind(o) ==
    /\ o \in up
    /\ \E p \in Slice(o) :
          /\ <<o, p>> \notin forwards \cup ended
          /\ \A q \in Slice(o) : q < p => <<o, q>> \in forwards \cup ended
          /\ stored' = Create(StreamIndex(p))
          /\ forwards' = forwards \cup {<<o, p>>}
    /\ UNCHANGED <<fleet, streams, up, ended>>

\* A forwarder that cannot pull, or whose subscription ends, returns; the pod
\* goes on without it.
Return(o) ==
    /\ o \in up
    /\ \E f \in forwards :
          /\ f[1] = o
          /\ forwards' = forwards \ {f} /\ ended' = ended \cup {f}
    /\ UNCHANGED <<fleet, streams, up, stored>>

\* An error at startup or a crash ends the pod with all its forwarders.
Fail(o) ==
    /\ o \in up
    /\ up' = up \ {o} /\ forwards' = {f \in forwards : f[1] # o}
    /\ ended' = {f \in ended : f[1] # o}
    /\ UNCHANGED <<fleet, streams, stored>>

FleetNext == Produce \/ \E o \in Pods : Start(o) \/ Bind(o) \/ Return(o) \/ Fail(o)

FleetSpec == FleetInit /\ [][FleetNext]_fleet_vars

-----------------------------------------------------------------------------
(* Properties.                                                             *)

\* Forwarders belong to running pods, and a stream only holds partitions.
FleetTypeOK ==
    /\ fleet \in Fleets /\ streams \in StreamCounts /\ up \subseteq Pods
    /\ forwards \subseteq up \X Space /\ ended \subseteq up \X Space
    /\ stored \subseteq StreamIds \X Space

\* A partition is pulled by one pod at most, whichever pods are up: two would
\* share its durable consumer and split a vehicle's events between them.
OneForwarder ==
    \A f, g \in forwards : f[2] = g[2] => f = g

\* A partition's subject belongs to one stream only - overlapping streams are
\* refused by the broker - and that is the stream its forwarder is bound to.
OneStream ==
    /\ \A s, t \in stored : s[2] = t[2] => s = t
    /\ \A f \in forwards : <<StreamIndex(f[2]), f[2]>> \in stored

\* With every pod up and through its slice, a partition without a forwarder is
\* one whose own pod's forwarder returned: none falls between two slices.
NoOrphan ==
    (up = Pods /\ \A o \in Pods : \A p \in Slice(o) : <<o, p>> \in forwards \cup ended) =>
        \A p \in Space :
            (\A o \in Pods : <<o, p>> \notin forwards) => \E o \in Pods : <<o, p>> \in ended
=============================================================================
