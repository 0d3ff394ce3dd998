# TLA+ models of routers

`routers` matches streams of vehicle positions onto a road network. This
directory holds TLA+ modules for the parts of it that carry state through
concurrency, failure and time, TLC configurations that check them on small
instances, and TLAPS proofs of what matters most for every instance.

    tlc -workers 2 -config MCOrchestrator_shared.cfg MCOrchestrator
    tlapm OrchestratorProofs.tla

`PROJECT.json` lists the components, runs, mutants, the map from definitions to
source lines, the findings, the hazards and the theorems.

## 1. The system

### Realtime pipeline (`libs/routers_realtime`)

A producer publishes raw events (vehicle, timestamp, position) on JetStream
work-queue streams, one subject per partition, the partition being a hash of the
vehicle (`partition.rs`, `ingest.rs`). An **orchestrator** pod
(`bin/orchestrator.rs`) owns a slice of the partitions and runs

  - one *forwarder* per owned partition: pulls its durable consumer, acks
    undecodable messages away and pins every other to a worker by vehicle;
  - a fixed number of *workers*, each with its own LRU caches of history lanes and
    trips. `Worker::process` warms the lane from Valkey, drops what is not newer
    than its end, builds a context (window, gap and teleport cut, reconcile with
    the cached trip), asks the matcher of the event's shard, publishes the
    emission durably, commits the trip, waits for the archive and pushes the event
    into the lane. The loop around it retries failures forever and acks;
  - one *archive writer*: batches the raw events of all workers into per-vehicle
    Valkey tails (`store/redis.rs`), retrying a failed batch as a whole.

A **matcher** (`bin/matcher.rs`) owns a shard of the road network, is stateless
between requests, and answers with a diff and the trip to resume from. Consumers
(the viewer) merge diffs by timestamp.

State: the broker's streams and consumers, the pod's memory (queues, lanes,
trips, batch), the Valkey tails, the matched stream. Hard: crashes between any
two durable steps; lost, duplicated and late deliveries and acks; partly applied
batches; evictions; full channels; an event whose solve never answers. Correct
when nothing is acknowledged that the record does not cover, nothing is recorded
or emitted out of turn, every event is settled in the end, and the context each
solve sees is what it should be in spite of all that.

### Matching engine (`libs/routers_transition`, `libs/routers_trellis`)

A `Trip` is a sequence of observations with candidates, and a trellis whose
boundaries are weighed lazily. `Matcher::push` adds a layer, `solve` weighs what
is pending and runs Viterbi, `convergence` finds the prefix no future layer can
change, `Trip::tail` windows. Hard: certificates and layer ids surviving a
windowing, saturating costs, ties, agreement of backtracking and convergence.
Correct when a solve equals the exhaustive search however the trip came about,
and what has converged stays.

The weigher's threads link candidates over the network by a Dijkstra search
behind a shared, bounded predicate cache and a successor cache (`primitives`,
`weigh/expansion.rs`). Hard: the cost that orders the search is not monotone along
a path; threads compute, put and evict the same entries; the cache belongs to one
runtime. Correct when every parent map leads back to its root over open roads and
a route is within reach. Emission and transition costs are floating-point functions (`costing`), candidates
come from spatial queries (`layer`, `candidate`).

### Road networks (`libs/routers_codec`, `libs/routers_network`, `libs/routers_shard`)

`routers_codec` reads an `.osm.pbf` file (blobs, blocks, groups, elements with
delta-coded ids and coordinates), folds ways and nodes in parallel into a graph,
a position table, metadata by edge id and two spatial indices, and keeps the
result in a cache file beside the PBF. The tags of a way become its access,
class, direction, lanes and speed limits; conditions and opening hours are little
languages of their own. `routers_network` has the traits the engine uses and a
mock. `routers_shard` cuts a network into cells (geohashes or quad keys), each
with a strip of its surroundings, writes one file per cell and a manifest, and
serves them through a loader (the matcher), or through a window that moves over
the cells and answers for several of them at once. Hard: the order in which a
parallel fold joins, files cut by a crash, caches older than what made them,
roads and positions exactly on a border, tags that come in hash order,
precedence and brackets, ranges past midnight. Correct when the network does not
depend on scheduling, what is served is whole, no road is lost between cells and
the metadata do not depend on the order of the tags.

### The rest

`routers_geo`, `routers_tz` and `routers_tz_types` (time zones), `routers_rpc`,
`routers_tiles` (services), `routers_viewer` (UI, of which the realtime trace
store is modelled), `conformance`, `benches`, `examples`, `infrastructure`.

## 2. Modules

| module | models | state |
|---|---|---|
| `Ledger` | what the pipeline promises of one raw stream (abstract) | emitted, given up, recorded, settled revisions |
| `Orchestrator` | one pod with broker, Valkey and matchers around it; implements `Ledger` (`L == INSTANCE Ledger WITH ...`) | streams and acks, forwarders' hands, channels, workers' program counters, caches, the batch, tails |
| `Streaming` | the data of one vehicle through `Worker::process` and `Matching::solve` | lane, trip and the candidates it carries, tail, reply, published diffs |
| `Topology` | division of partitions over pods and streams, start-up and failure | running pods, forwarders, stream subjects |
| `Service` | one partition from end to end: replay, broker, pods, tails, matched subject, viewer; placement on the Valkey primaries | publishes and their acks, the consumer, the pods that own the partition, tails, diffs, traces |
| `Viterbi` | the trellis and its solvers as operators | none |
| `Trip` | `Trip`, `Matcher` and the two callers of `tail` over `Viterbi` | observations, layer stamps, trellis, certificate |
| `Reach` | the bounded search and the caches it is shared through | network, bound runtime, both caches, each thread's heap, labels and yield |
| `TransportMode`, `Access`, `Hours`, `Condition`, `Limits` | modes and their hierarchy, access tags, opening hours, conditions, speed limits, as operators | none |
| `Tags` | reading, configuring and asking, over these | the way read, its metadata, the trip's configuration, the last answer |
| `RoadNetwork` | the primitives and traits of `routers_network` as `OsmNetwork` implements them | none |
| `MockNetwork` | the builder of the mock and its traits | none |
| `Pbf` | the levels of a PBF file, serial and parallel | none |
| `Codec` | `OsmNetwork::from_pbf_and_save`, the cache file and its crashes, beside the mock builder | the file, the cache, the running program's build and stage, what it serves |
| `Cells` | geohash and quad-key strategies over a grid | none |
| `Shards` | extraction, generation, loader, window and composite network | source, files, manifest, window, loaded shards |
| `MC*` | instances for TLC | |
| `OrchestratorProofs`, `StreamingProofs`, `ServiceProofs`, `TripProofs`, `ReachProofs`, `ShardsProofs`, `CodecProofs` | theorems about the module of that name (`OrchestratorProofs` about `Topology` too, `TripProofs` about `Viterbi`, `CodecProofs` about `Pbf` and `RoadNetwork`) | |
| `SetLemmas` | induction over numbers and ranges, recursive functions and sequences, for the proofs | |

**Orchestrator.** An event is its stream sequence, which is also its revision.
Of a lane only the newest timestamp matters here (the gate); a trip is the
revision it was solved for. `Deliver`, `Redeliver`, `RedeliverHeld`,
`LoseDelivery` are the broker and the pull; `Dispatch`, `AckPoison(Lost)` the
forwarder; `Take`, `Warm`, `Drop`, `Request`, `Solved`, `NoMatch`, `NoReply`,
`Publish`, `Unacknowledged`, `Commit`, `Send`, `Push`, `Ack(Lost)` and `Retry`
the worker, split where the code awaits; `Collect`, `XAdd`, `FlushFails`,
`Flushed` the archive writer, one append at a time so that a batch may fail half
way. `Crash` forgets everything in memory. An approximate `MAXLEN` may or may not
trim. Evictions are part of the actions that insert into a cache.

**Streaming.** The pipeline is sequential per vehicle (that is what
`Orchestrator` establishes), so the module follows one vehicle and keeps the
data: places on a line, time steps, the window. A shard has the nodes of its network
(`Ground`, which includes the padding and the far ends of admitted roads) and the edges
its generator finds at each place (`Candidates`). The two differ at the border, and the
code asks about one in each place: `Matcher::push` drops an observation without a
candidate (`Anchored`), `Matcher::supports` only asks whether the ends of the edges a
trip carries are nodes here (`Supports`). So a trip may be adopted with observations
the shard would have dropped; `carried` has the edges it came with. `Context` is
`Worker::create_context`, including that it truncates before it removes
duplicates; `Reconcile` is `Continuation::reconcile`; `Adopt` and `Pushed` are
the matcher's treatment of the continuation. A solve may always end in NoMatch,
and the convergence point of a success may be anywhere: the trellis is `Trip`'s
subject.

**Viterbi and Trip.** Layers and nodes count from 1 where the code counts from 0.
A missing edge is already the table's infinity (`fill_transition` maps `NO_EDGE`
to `INF_W`). The road network is external: what lies between two consecutive
observations is chosen when the second arrives and is read back by the weigher
through the layer ids stamped on the candidates, which is what makes a wrong
stamp visible. `final` is a history variable.

**Reach.** A road has a class weight, a length and the runtimes that may use it. A
thread works through its queries: `Hit` or `Miss` is the read, `Bind` the check of
the runtime, `Skip`, `Pop`, `PopMiss` and `Keep` are one `next` of the iterator
(split where the successor cache is read and written), `Put` is the insertion and
the answer, which walks the parent map (`Path`). A parent map is kept in the order
it was yielded, which the hash map forgets; an empty walk stands for no route. The
cost that orders the heap saturates at `MaxRepr` as the cast to `u32` does. Ties on the heap fall either way, and an
insertion may evict any other entry: the library's orders are not relied upon.
`Expansion::reach`'s short cut for two candidates on one edge is geometry and left
out.

**Topology.** The partition count, the fleet and the stream count are
parameters; a pod binds its slice in order, may fail at any point, and creates
streams as producers do. A forwarder that cannot pull, or whose subscription
ends, returns and is not restarted while its pod lives; `NoOrphan` says that this
is the only way a partition of a fully started fleet is left unread.

**Service.** The composition: what `Orchestrator` shows of one pod is taken at the
grain of one event at a time, so that two pods, the producer before them and the
viewer behind them fit into one state space. `Send`, `Await`, `Finish` are the
producer; `Store`, `Refuse` the broker's side of a publish, which may store an event and
lose the confirmation. `Pull` and `Redeliver` use the one durable consumer that all owners
of a partition share by name. `StartPod` and `EndPod` are a fleet resize or a
restart: a pod that ends forgets its lanes. `Emit` publishes the event's own layer
and either none or all of the lane's layers, which brackets what a trip may carry.
`Ingest` is the subscription, the pump and the merge; `LoseDiff` a subscription that
keeps no backlog. `index_for` takes the weight of each primary as any function, so
every tie occurs.

**Tags and the modules under it.** A text is a sequence of words, and a word is already split
at the separators the code splits it at; spelling is left out, precedence, brackets
and order are not. The mode hierarchy is kept twice as in the code, as chains and as
flags. `Pick` reads a way whose tags come in any order, `Configure` and `Customise`
make a runtime, `Ask`, `Report`, `ReadCondition` and `IsOpen` are the questions.

**Codec, Pbf, RoadNetwork, MockNetwork.** A network is a record of graph, positions, metadata
and two indices; an answer the code leaves open (an order, a tie) is the set of the
answers it may give. `Pbf` keeps the differences of dense nodes and the string
table; decompression is a flag that says whether the bytes are good. In `Codec`
programs of several builds start one after the other over one cache file and may die
between creating it and writing it.

**Cells and Shards.** Coordinates are whole units chosen so that a quarter of a cell
is a whole number, which keeps the comparisons of the code exact. `Generate` saves a
cell, fails, or leaves a cut file, `WriteManifest` lists what was saved;
`Load` is the matcher's loader, `Recenter`, `Fetch`, `FetchFails` and `Evict` the
window's caller. A move may come before the fetches of the last one are done.

## 3. Runs

| run | asks | bounds |
|---|---|---|
| `orchestrator_shared` | type, `AckIsCovered`, `GateEndsAtRecord`, `TripHasEmission`, `TripNeverRegresses`, `ImplementsLedger` | two vehicles on one worker, three events with a supplier repeat, a regression and poison, two failures, tails and batches of one: every eviction, re-warm and trim happens |
| `orchestrator_live` | `ServedAreSettled` | two workers, three partitions, one-slot channels, a window of two, one failure; in two of the feeds an unserved vehicle fills its worker and the channel to it, so that the forwarder of another partition stops in front of that channel; the other worker's vehicle behind it waits, and the one that comes through the third partition goes on |
| `orchestrator_drop` | violation of `DropIsRecorded` | one vehicle |
| `streaming_context` | `ContextUnbroken`, `SolvesTheWindow`, `LayersResolve`, `RestartIsNeeded` | four observations, window of two, three places of which one is off every road, two shards of which one has nodes for trips of the other that it cannot anchor and the other lacks a node, gaps and teleports, one failure |
| `trip_solve` | `SolveIsExact`, `BreaksExplainTheFailure`, `ConvergedPrefixIsStable` | three observations of one or two candidates, weights 0 to 3 with infinity 3: ties, gaps, saturation |
| `reach_cache` | type, `CacheIsSound`, `RouteIsReal`, `UniformIsExact` | 1,056 networks of four nodes with weights 1 and 5, or 3 alone, and lengths 1 and 2 under a reach of 4 (costs tie, fall after a node is settled, pass the reach, and saturate at 36, which weight 3 just does not below the reach), a ring with a loop for two threads of two runtimes, capacity two |
| `topology_slices` | `OneForwarder`, `OneStream`, `NoOrphan` | five partitions, fleets and stream counts that do and do not divide them, more streams than partitions |
| `service` | `ReplayIsComplete`, `ResizeLosesNothing`, `TraceKeepsTheNewest`, `TraceIsLatestSolve`, `PlacementIsStable` | three inputs (a vehicle with more observations than the viewer keeps, two vehicles, two loops), two interchangeable pods (`PodSymmetry`: they differ in nothing but their name), an ack window, a capacity and a lane of two, one diff in flight (the subject keeps its order), two faults (a resize is one, so that one more thing goes wrong during it); three primaries with weights that tie |
| `service_highest` | violation of `HighestRevisionWins` | one pod, suppliers in order, two faults, a viewer that keeps three layers |
| `tags` | `ModeTablesAgree`, `AccessIsTheMostSpecific`, `GeneralLimitIsReported`, `ConditionSurvivesDisplay`, `OpenAcrossMidnight` | every mode; two or three tags on the chain of a truck in any order; up to three limits; conditions of one to three parts with AND, OR and brackets; eight opening hours at eleven times on both sides of midnight |
| `codec` | `IngestIsFileOrder`, `ServedIsWhole`, `IndexResolves`, `MockAgreesWithOsm` | three files (two ways over one pair of nodes in two blocks, ends without a position, an uncompressed block, a header that ends the file early), two revisions of the listed and of the other sources, mocks of three nodes and two roads |
| `shards` | `CellsTile`, `RoadsSurviveSharding`, `CompositeRoutesLikeWhole`, `WindowIsFilled`, `ServedShardIsItsOwn` | five nodes in three cells, roads along and across their borders in two orders, one of them to a node without a position, both strategies at two levels, seven positions at crossings, edges and outside of the world |

A worker, a trip, a search or a service may stop where its bounded input ends, so
those runs do not check deadlock; `ServedAreSettled` is what says that the pod never stops
early. In `Topology` something can always happen and deadlock is checked.

Every property of a passing run has a mutant: an operator next to the definition
it mutates that makes the slip a change to the code could make (marked `Mutant`).

### What the run `orchestrator_drop` found

The gate drops, and the pod acks, an event whose delivery was lost and that a newer
event of the vehicle overtook, although it was never solved or recorded. The comment
says a redelivery can trust the drop because everything behind the gate is recorded.

### What the run `service_highest` found

`event.rs` says that consumers resolve competing solves by revision, "highest wins".
The viewer inserts layers in the order of arrival (`store.rs:34`). One pod is enough for
the lower revision to win: it emits event 3, ends before recording it, and the next
pod is redelivered an older event whose pull was lost. The attempt to prove
`TraceIsLatestSolve` brought this up: the property said that one owner at a time is
enough, and held in its run only because that viewer kept two layers. It now also asks that no pod ends
between an emission and its record, and is proved.

### Observations made while modelling

Disagreements between comments and code, and behaviour a reader may not expect. The
models reproduce them unless it says otherwise.

Pipeline and engine:

  - The trip committed as the resume state is cut at its convergence point, while
    `reconcile` (`continuation.rs:43`) looks for it at the start of a history that
    reaches further back: as soon as a cut is effective the next event restarts.
    `RestartIsNeeded` says that it restarts in no other case without a reason.
  - A layer that becomes the first of a later diff loses the inbound hop that an
    earlier diff carried, since the highest revision wins (`event.rs:138`).
  - A trellis cut at the convergence layer keeps all of that layer's nodes but not
    the cost that had decided between them: a later solve may go through a node other
    than the one emitted as final (`matcher.rs:197`, `viterbi.rs:225`).
  - A node within the reach may be missing from a parent map (`cache.rs:296` says
    otherwise): nodes come in the order of squared average weight times distance and
    the first one beyond the distance ends the search (`cache.rs:354`).
    `UniformIsExact` says when the map is complete: with one class of roads, as long
    as the cost (squared weight times centimetres) stays below 2^32 within the reach
    (`weight_and_distance.rs:42`). A class of weight 100 saturates at 4.3 km; beyond it all
    labels tie, and nodes within a longer reach may be missed.
  - `path` answers a root that is also the leaf without looking at the map, with a
    reach of zero too.
  - A query for another runtime is only refused on a miss; a hit is answered from the
    bound runtime's map. A solve without an answer holds its worker, then, when the channel
    to it is full, the forwarder of each partition that has an event for that worker, and
    with it the vehicles of other workers that come through there (`orchestrator.rs:456`;
    the comment at 368 speaks of the vehicle's lane and its partition). It holds no others
    (`ServedAreSettled`). A solve whose finite costs add up to infinity
    fails without naming a boundary (`BreaksExplainTheFailure`).
  - While two pods own a partition, or when a supplier's timestamps go back, the viewer
    may end with the older of two solves of a layer. `TraceIsLatestSolve` says when it
    does not.
  - A publish that fails at once ends the replay as a failed acknowledgement does; the two
    are one in the model.
  - `replay --loops n` sends the same timestamps again, so the orchestrator drops
    every loop but the first as stale. A row whose time does not parse panics in
    `rows_of`.
  - Not modelled: `NATSSink` leaves a publish that ended in an error in its slot and
    polls it again; `CachedRedisStore::push` for an evicted vehicle starts a window of
    one entry. Neither has a caller.

Codec and tags:

  - A PBF that ends early gives a smaller network without an error, which is then cached;
    the cache is never compared with the PBF and its fingerprint covers five source
    files (`build.rs`). `ServedIsWhole` is about what a fingerprint can tell.
  - Plain nodes are not scaled by the granularity, and offsets are ignored. The serial
    block iterator stops at a bad block where the parallel one skips it.
  - Only the most specific mode of a chain decides on access, and `permissive` or
    `designated` deny it. `Weight` is filled from the width. `oneway=-1` gives forward
    edges only. Days of a range match every day, and hours after midnight count for the
    day that is named. "(a) AND (b)" loses its outer brackets as if they were a pair. A
    general `maxspeed` hides `maxspeed:hgv`, and limits are ordered by their debug text.

Shards:

  - All edges out of a node share the metadata of the first (`network.rs:57`).
    `from_source` says that both ends of an edge are inside the selection; the code
    admits the far end too, and how far depends on the order of the edges.
  - The window's centre is set before its shards are fetched, so a fetch that failed is
    not asked for again until the view leaves the cell. `scoped` lists what is
    cached, too, and twice.
  - A position on a border is in two cells under `contains` and in one under `locate`.
  - A generation that fails half way leaves a cut file that the manifest does not
    list and the loader still opens; it is refused when it is decoded.

### Fairness

`FairSpec` assumes weak fairness of each partition's forwarder task, of each
worker task and of the archive task (the tokio scheduler polls ready tasks, and
their retry loops sleep a bounded time), and of redelivery of pending messages
(the broker redelivers after `ack_wait`). Failures are bounded by `MaxFaults`,
matchers answer for every vehicle that is not in `Unserved`. A forwarder's
subscription is assumed not to end: one that returns (`Topology`'s `Return`)
leaves its partition unread until the pod restarts. Nothing is assumed
of which outcome a step takes.

## 4. Proofs

`OrchestratorProofs` (all constants arbitrary under `PinAssumption`,
`FeedAssumption` and `BoundAssumption`: any vehicles, workers, feeds, capacities
and number of failures):

  - `TypeCorrect`, `AckSafety`, `GateSafety`, `TripSafety`, `TripProgress`: the
    type invariant and the safety properties of `orchestrator_shared`;
  - `Refinement`: every step of the pod is a step of `Ledger` or a stutter.

None of them is inductive alone. `IInv` adds what the code's comments rely on:
`Pinned` (a worker only holds its own vehicles' events, so nobody else touches
their lane), `StageOK` (what holds between two awaits of `process`: up to the
archive the event is ahead of the record, while flushing only its own append may
reach it, before the ack the record covers it), `ArchiveOK` (whatever is at the
writer has its worker waiting for it, so no second event of the vehicle is
recorded in between), `TailOK` (a tail ends with the vehicle's newest recorded
event, through trims and repeats, so a warm lane ends at the record) and
`TripOK`. `XAddStep` is the heart of it: a repeated append of a half-failed batch
leaves the order of the tail intact because the waiting worker's event is the
newest. `Refinement` uses `IInv` to show that an emission, a verdict or an append
happens only for events the record does not cover, that a repeat stutters, and
that an ack settles only covered events.

Of `Topology` (any partition count, fleets up to it, any stream counts) it has
`OneForwarderAlways`, `OneStreamAlways`, `NoOrphanAlways`. The invariant
`FleetInv` says a forwarder's partition is in its pod's slice and a stored
subject is on the stream `stream_index` names; the rest is the arithmetic of
blocks (`SlicesDisjoint`, `SlicesCover`, `IndexInRange`, `RangeIsIndex`).

`ReachProofs` (any network, reach, saturation, capacity, threads and queries): `ReachTypes`,
`CacheSafety`, `RoutesAreReal`, `UniformSearchIsExact`. `CacheIsSound` is not inductive: `IInv`
adds that nothing is cached before the cache is bound (`Unbound`), that a searching
thread has the bound runtime (`WorkOK`), and that everything a search has found was found
from a node it has yielded (`Growing`). `SettleStep` is the heart: a node is yielded with the
parent it has at that moment, which was yielded before; labels that improve later no
longer matter, so no monotonicity of the cost is needed. For routes, `RouteInv` adds that
every parent map is measured by a distance per node, what its label said when it was
yielded (`Measures`). The key is `LeastIsLabel`: a node not yet settled has an entry for its
label on the heap and older ones only at a greater cost, so the entry popped is the
label and the distance it adds is that of the yielded parent. `PathIsRoute` then follows
the walk back. For one class of roads `Ordered` is Dijkstra's own argument: what is settled is no
further than what is not, and every road out of a settled node has been looked at; so when
the search ends, at the reach or with an empty heap, every way within reach stays on
settled nodes (`Closed`, `WayIsCovered`). That costs order like distances
(`CheaperIsCloser`) is where equal weights and the absence of saturation are needed.

`StreamingProofs` (any places, shards, windows, thresholds and failures):
`ContextStaysUnbroken`, `SolveIsTheWindow`, `LayersAlwaysResolve`, `RestartsAreNeeded`. `StreamInv` says that lane,
tail, trip and reply are ascending runs of one stream of accepted events: the tail may
repeat an entry but never skips one, so what truncation, deduplication and the two cuts
leave of it is a run that ends at the live event, and a trip that overlaps it continues it.
`Carried` adds that a trip has a candidate for each of its observations, cached or in a
reply: what is pushed has one, what is resumed came with one, and a cut keeps the later part. What is found resolves, because only edges with both
their nodes are indexed (`StreamAssumption`); what is resumed, because `Supports` said so.

`ServiceProofs` (any rows, loops, window, pods, capacity and number of faults):
`ReplayCompletes` from `ReplayInv` (what was sent is stored, on its way or refused, in order,
and the acks match it); `ResizeIsSafe` from `FleetInv` (lanes and tails of every owner are
recorded, and a job about to be acknowledged is covered); `TraceIsTheNewest` from
`ViewerInv` (a layer that was trimmed has enough newer ones, which never leave before it);
`LatestSolveWins` from `PodsInv` (with one owner at a time and nothing torn, what was emitted is
recorded or in hand, so revisions and timestamps grow together) and `SolvesInv`;
`PlacementHolds`, where the list of primaries is any sequence without repetition.

`TripProofs` (any emissions, transitions, infinity and length): `SolverIsExact`
and `CollapseIsTruthful` are about the operators, on any weighed trellis;
`TripSolvesExactly`, `TripExplainsFailures` and `ConvergedIsFinal` about the trip that is
pushed to, solved, slid and cut. `TripInv` says that the trip holds the latest observations
without a gap, that every stamp is the layer's own place, that the trellis is the one of
these observations except for what is pending, and that the prefix promised as converged
is where all live traces meet. The table is a lower bound of every path
(`TableIsALowerBound`) and the trace through it costs what it says (`TracedCost`).

`ShardsProofs` (any networks under `SourcesAssumption`, any positions, strategies of cells, padding and
strip, any order of the edges; any cut, missing and failed files): `ServedIsOwn` and `WindowHolds` from
`ShardInv` (a whole file is the one of its cell's shard, what was loaded came from a whole file
after the manifest, and a cell of the neighbourhood is held, still to be fetched, was tried in
vain or has no good file, and none of them may be evicted; without that last part `Evict` would break the
window). `RoadsSurvive` is about the walk of `from_source` over the edges: `Walked`
says what a network is after i of them, and `WalkGoesOn` that an edge keeps it, also
when it brings in the node at its far end. `CompositeIsWhole` compares two searches: the
composite's graph is part of the source's (`Within`) and has every edge from a cell of the
window to a placed node (`Covers`), so a path of the one is a path of the other, and a path of
the whole that stays inside is no longer than the part has nodes (`InnerIsShort`) and is among
the part's (`PathsAgree`); the price follows from both. `SourcesAssumption` is what `OsmNetwork` ensures:
its graph is a map, so there is one edge from a node to another, weights are unsigned, and an
edge may lead to a node the file does not place. The instance has such a node.
Nothing is assumed of `locate` and `bounds`: a road is kept because of the
cell its start is located in, wherever the borders are.

`CodecProofs` (any files under `FilesAssumption`, any number of builds): `IngestInFileOrder`, `ServedWhole`
and `RowsResolveInAll`, from `LoaderInvariant`. While the PBF is read, `LoaderInv` says that the results rayon
holds cut the file into consecutive stretches (`Cuts`) and that each result is what its stretch says: the
nodes, edges and metadata of its elements, in their order. `Fold`, `FoldOn` and `Combine` move a cut or
take one away, and at the end one stretch is left, the file; that blocks are reduced before they are joined
is not needed, that the earlier result is extended with the later one is. What is saved with
its header and its end is the network of some file (`CacheInv`), which `Upgrade` and
a crash leave alone and `Readable` tells apart. The other half is what the loops
make of the three lists: `PutAllOfFlat` says that the last entry with a key stays, through the
nesting of windows in ways in blocks, and `WinnerIs` that it is the one `Expected` names,
so the fold and the reference agree on every map (`GraphIs`, `MetaIs`, `HashIs`). `RowsResolveInAll` adds
that the rebuilt indices have exactly the edges whose ends are placed (`EdgeIndexIs`), each
with an envelope that touches the square around either end (`EndsTouch`) and with the metadata
of its way (`EdgesAreClaimed`). `FilesAssumption` is the types of the protobuf messages: lists, integers, at
most one dense group. It says nothing of the order, the ids or the references.

`SetLemmas` is how what a recursive function computes is proved here. Induction is stated over
a set instead of a predicate (`NatInd`, `RangeInd`: a set with 0 that is closed under
successor has every number), so no operator has to be instantiated, and `RecursiveFunction`
gives the existence of a function that is defined step by step along a range.

The refinement is stated with `L == INSTANCE Ledger WITH` the orchestrator's own
streams and history variables; TLC checks `ImplementsLedger` as a property of
`orchestrator_shared`, and `Refinement` proves it.

Only model-checked: liveness (`ServedAreSettled`), which needs fairness; the properties of `Tags`, whose
parsers are RECURSIVE operators; `MockAgreesWithOsm`, which compares every query of two networks and
folds the reference with an operator of the community modules; `CellsTile`, where both kinds of cell
are computed by such folds from halved coordinates. No theorem is about ENABLED.

## 5. Not modelled, and the plan

Left out for good: telemetry, argument parsing, wire encoding (its failure is
modelled), floating-point geometry and costing, tiles and RPC handlers, static
time-zone storage, drawing, deployment, code without a caller (`NATSSink`,
`CachedRedisStore`, `set_edge`, `mark_pending`). Left out of modelled parts: two programs that write one
cache file at the same time, a directory of shards that is generated anew while it is
read, `extend`, snapshot and collapse.

Next, in this order:

 1. Proofs: `CellsTile`, with the halvings as recursive functions; `MockAgreesWithOsm`.
 2. `extend`, snapshot and collapse with the alignment of hops and layers.
 3. A writer and a reader of one cache file at the same time.
