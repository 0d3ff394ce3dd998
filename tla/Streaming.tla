----------------------------- MODULE Streaming -----------------------------
(***************************************************************************)
(* One vehicle's observations on their way through its orchestrator worker *)
(* and the matchers: the history lane and the Valkey tail it is warmed     *)
(* from, the context cut out of the lane, the cached trip reconciled with  *)
(* it, the matcher's reply, and the diffs consumers merge.                 *)
(*                                                                         *)
(* Module Orchestrator shows that a vehicle's events go through this       *)
(* pipeline one at a time; here the pipeline's data is kept. An            *)
(* observation is named by its revision, its position in `events`. Since a *)
(* vehicle's accepted timestamps strictly increase, two entries have the   *)
(* same revision exactly when they have the same timestamp, and Origin     *)
(* equality is equality of revisions. A trip is its sequence of origins    *)
(* and, for each, the edges its candidates lie on: its trellis is module   *)
(* Trip's subject, so that a solve may fail and a convergence point may be *)
(* anywhere.                                                               *)
(***************************************************************************)
EXTENDS Integers, Sequences, FiniteSets, SequencesExt, FiniteSetsExt

CONSTANTS
    Places,     \* where an observation can be, as points of a line
    Steps,      \* how much later the next observation can be
    Gap,        \* --gap
    Jump,       \* --jump-distance
    Window,     \* --context-window
    History,    \* --history: MAXLEN of the tail
    Shards,     \* matchers, by the shard they serve
    ShardOf,    \* shard_of, as a function of the place
    Ground,     \* per shard: the nodes of its network, padding and far ends too
    Candidates, \* per shard and place: the edges the generator finds there, each
                \* the pair of its nodes
    MaxEvents,  \* bound of the model: observations
    MaxFaults   \* bound of the model: crashes, losses and failed calls

ASSUME StreamAssumption ==
    /\ Places \subseteq Int /\ Steps \subseteq Nat \ {0}
    /\ Gap \in Nat /\ Jump \in Nat
    /\ Window \in Nat \ {0} /\ History \in Nat \ {0}
    /\ ShardOf \in [Places -> Shards]
    \* only edges with both their ends are indexed, and so found (rebuild_indices)
    /\ \A shard \in Shards, p \in Places :
          Candidates[shard][p] \subseteq Ground[shard] \X Ground[shard]
    /\ MaxEvents \in Nat /\ MaxFaults \in Nat

VARIABLES
    events,     \* the vehicle's raw events, each accepted before the next comes
    pc,         \* where the worker is in Worker::process
    warmed,     \* the history lane is cached
    lane,       \* the history lane, oldest first
    trip,       \* origins of the cached trip, <<>> if none
    carried,    \* the edges of its candidates, by origin
    tail,       \* the Valkey tail, oldest first
    reply,      \* the solve in flight and the context it answers
    published,  \* diffs on the matched stream
    faults      \* failures so far

vars == <<events, pc, warmed, lane, trip, carried, tail, reply, published, faults>>

live == Len(events)
Place(o) == events[o].place
Time(o) == events[o].timestamp

NoReply == [kind |-> "none", history |-> <<>>, layers |-> <<>>, edges |-> <<>>, trip |-> <<>>]

Init ==
    /\ events = <<>> /\ pc = "idle"
    /\ warmed = FALSE /\ lane = <<>> /\ trip = <<>> /\ carried = <<>> /\ tail = <<>>
    /\ reply = NoReply /\ published = {} /\ faults = 0

LastN(s, n) == IF Len(s) <= n THEN s ELSE SubSeq(s, Len(s) - n + 1, Len(s))

Ascending(s) == \A i, j \in DOMAIN s : i < j => s[i] < s[j]

\* The elements of a set, sorted; the elements of s that are in S, in the order
\* of s. (SortSeq and SelectSeq, in a form that can be reasoned about.)
Sorted(S) == CHOOSE s \in [1 .. Cardinality(S) -> S] : Ascending(s)
Among(s, S) == LET at == Sorted({i \in DOMAIN s : s[i] \in S})
               IN  [k \in DOMAIN at |-> s[at[k]]]

-----------------------------------------------------------------------------
(* The match context (Worker::create_context).                             *)

\* Neither a gap nor a teleport between two entries.
Near(o, p) ==
    LET far == Place(p) - Place(o)
    IN Time(p) - Time(o) <= Gap /\ far <= Jump /\ -far <= Jump

Linked(s) == \A i \in 1 .. Len(s) - 1 : Near(s[i], s[i + 1])

\* Mutant: a far entry is left out and the older ones are kept.
ChainSkips(s) == SelectSeq(s, LAMBDA o : Near(o, Last(s)))

\* The scan back from the live event, up to the first gap or teleport.
Chain(s) == SubSeq(s, Min({i \in DOMAIN s : Linked(SubSeq(s, i, Len(s)))}), Len(s))

\* The newest Window entries are taken before duplicates are removed.
Context(entries) == Sorted(ToSet(Chain(Append(LastN(entries, Window), live))))

-----------------------------------------------------------------------------
(* Continuation::reconcile.                                                *)

Overlaps(old, history) ==
    {k \in 0 .. Min({Len(old), Len(history)}) : LastN(old, k) = SubSeq(history, 1, k)}

\* Mutant: only a trip that is wholly in the window resumes.
ReconcileWhole(old, history) ==
    IF old # <<>> /\ Len(old) \in Overlaps(old, history)
    THEN [kind |-> "resume", trip |-> old,
          fresh |-> SubSeq(history, Len(old) + 1, Len(history))]
    ELSE [kind |-> "restart", trip |-> <<>>, fresh |-> history]

\* The longest suffix of the trip that the history starts with is resumed.
Reconcile(old, history) ==
    LET overlap == Max(Overlaps(old, history)) IN
    IF overlap = 0
    THEN [kind |-> "restart", trip |-> <<>>, fresh |-> history]
    ELSE [kind |-> "resume", trip |-> LastN(old, overlap),
          fresh |-> SubSeq(history, overlap + 1, Len(history))]

-----------------------------------------------------------------------------
(* The matcher (Matching::solve).                                          *)

\* The edges of an observation's candidates on this shard.
Found(o, shard) == Candidates[shard][Place(o)]

Anchored(o, shard) == Found(o, shard) # {}

\* Both ends of an edge are nodes of the shard's network.
Resolves(edge, shard) == {edge[1], edge[2]} \subseteq Ground[shard]

\* Every candidate the trip carries resolves in this shard's network, which may
\* have the nodes of an edge and neither the edge nor any candidate of its own.
Supports(old, shard) == \A o \in ToSet(old) : \A edge \in carried[o] : Resolves(edge, shard)

\* Mutant: a foreign trip is adopted as it is.
AdoptForeign(c, shard) == c

\* Mutant: a foreign trip is thrown away with its observations.
AdoptFresh(c, shard) ==
    IF c.kind = "resume" /\ ~ Supports(c.trip, shard)
    THEN [kind |-> "downgrade", trip |-> <<>>, fresh |-> c.fresh]
    ELSE c

\* A resume from foreign ground restarts from the trip's own observations.
Adopt(c, shard) ==
    IF c.kind = "resume" /\ ~ Supports(c.trip, shard)
    THEN [kind |-> "downgrade", trip |-> <<>>, fresh |-> c.trip \o c.fresh]
    ELSE c

\* Pushing drops the observations that have no candidate.
Pushed(c, shard) == c.trip \o Among(c.fresh, {o \in ToSet(c.fresh) : Anchored(o, shard)})

\* What a solved trip carries: of what it resumed, the candidates it came with; of
\* what was pushed, those found here.
Carry(solved, old, shard) ==
    [o \in ToSet(solved) |-> IF o \in ToSet(old) THEN carried[o] ELSE Found(o, shard)]

-----------------------------------------------------------------------------
(* The worker.                                                             *)

Fault == faults < MaxFaults /\ faults' = faults + 1

Arrive ==
    /\ pc = "idle" /\ live < MaxEvents
    /\ \E p \in Places, d \in Steps :
          events' = Append(events, [place |-> p,
              timestamp |-> d + (IF live = 0 THEN 0 ELSE Time(live))])
    /\ pc' = "process"
    /\ UNCHANGED <<warmed, lane, trip, carried, tail, reply, published, faults>>

\* Another vehicle of the worker takes the lane's or the trip's cache slot.
Evict ==
    /\ pc = "idle"
    /\ \/ warmed' = FALSE /\ lane' = <<>> /\ UNCHANGED <<trip, carried>>
       \/ trip' = <<>> /\ carried' = <<>> /\ UNCHANGED <<warmed, lane>>
    /\ UNCHANGED <<events, pc, tail, reply, published, faults>>

Warm ==
    /\ pc = "process" /\ ~ warmed
    /\ warmed' = TRUE /\ lane' = LastN(tail, 3 * Window)
    /\ UNCHANGED <<events, pc, trip, carried, tail, reply, published, faults>>

Stale == lane # <<>> /\ Time(live) <= Time(Last(lane))

Drop ==
    /\ pc = "process" /\ warmed /\ Stale
    /\ pc' = "idle"
    /\ UNCHANGED <<events, warmed, lane, trip, carried, tail, reply, published, faults>>

\* The request and its reply. The diff has one layer per origin of the solved
\* trip; the trip itself comes back cut at its convergence point.
Solve ==
    /\ pc = "process" /\ warmed /\ ~ Stale
    /\ LET history == Context(lane)
           shard == ShardOf[Place(live)]
           c == Adopt(Reconcile(trip, history), shard)
           solved == Pushed(c, shard)
       IN \/ /\ pc' = "archive"
             /\ UNCHANGED reply
          \/ /\ solved # <<>> /\ pc' = "publish"
             /\ \E convergence \in 0 .. Len(solved) - 1 :
                   reply' = [kind |-> c.kind, history |-> history, layers |-> solved,
                             edges |-> Carry(solved, c.trip, shard),
                             trip |-> LastN(solved, Len(solved) - convergence)]
    /\ UNCHANGED <<events, warmed, lane, trip, carried, tail, published, faults>>

Publish ==
    /\ pc = "publish" /\ pc' = "commit"
    /\ published' = published \cup {[revision |-> live, layers |-> reply.layers]}
    /\ UNCHANGED <<events, warmed, lane, trip, carried, tail, reply, faults>>

\* The publish failed, or was stored and its acknowledgement lost.
Retry ==
    /\ Fault
    /\ pc \in {"publish", "commit"} /\ pc' = "process" /\ reply' = NoReply
    /\ UNCHANGED <<events, warmed, lane, trip, carried, tail, published>>

Commit ==
    /\ pc = "commit" /\ pc' = "archive"
    /\ trip' = reply.trip /\ reply' = NoReply
    /\ carried' = [o \in ToSet(reply.trip) |-> reply.edges[o]]
    /\ UNCHANGED <<events, warmed, lane, tail, published, faults>>

XAdd == LET t == Append(tail, live)
        IN \E n \in {History, Len(t)} : tail' = LastN(t, n)

Record ==
    /\ pc = "archive" /\ pc' = "push" /\ XAdd
    /\ UNCHANGED <<events, warmed, lane, trip, carried, reply, published, faults>>

\* The append landed but its batch failed: it will be appended again.
RecordAgain ==
    /\ Fault
    /\ pc = "archive" /\ XAdd
    /\ UNCHANGED <<events, pc, warmed, lane, trip, carried, reply, published>>

Push ==
    /\ pc = "push" /\ pc' = "idle"
    /\ lane' = LastN(Append(lane, live), 3 * Window)
    /\ UNCHANGED <<events, warmed, trip, carried, tail, reply, published, faults>>

\* The ack was lost.
Redeliver ==
    /\ Fault
    /\ pc = "idle" /\ live > 0 /\ pc' = "process"
    /\ UNCHANGED <<events, warmed, lane, trip, carried, tail, reply, published>>

\* The pod is replaced; what it was working on is delivered again.
Crash ==
    /\ Fault
    /\ pc' = IF pc = "idle" THEN "idle" ELSE "process"
    /\ warmed' = FALSE /\ lane' = <<>> /\ trip' = <<>> /\ carried' = <<>> /\ reply' = NoReply
    /\ UNCHANGED <<events, tail, published>>

Next == \/ Arrive \/ Evict \/ Warm \/ Drop \/ Solve \/ Publish \/ Retry \/ Commit
        \/ Record \/ RecordAgain \/ Push \/ Redeliver \/ Crash

Spec == Init /\ [][Next]_vars

-----------------------------------------------------------------------------
(* Properties.                                                             *)

\* The context a solve answers is an unbroken run of the vehicle's accepted
\* observations that ends with the live one and has no gap and no teleport in
\* it: crashes, evictions, duplicate appends and trimming never make it skip,
\* repeat or reorder one.
ContextUnbroken ==
    pc = "publish" =>
        LET h == reply.history
        IN /\ h # <<>> /\ Linked(h)
           /\ \A i \in DOMAIN h : h[i] = live - (Len(h) - i)

\* Resuming, restarting and degrading a foreign resume solve the same
\* observations whatever trip was cached: those of the context that the matcher
\* can anchor, once each, and on top of them only ones of the context that the
\* resumed trip had anchored on another shard. It is also what bounds an uncut
\* trip ("the orchestrator's context window bounds its growth").
SolvesTheWindow ==
    pc = "publish" =>
        LET history == ToSet(reply.history)
            here == {o \in history : Anchored(o, ShardOf[Place(live)])}
            resumed == IF reply.kind = "resume" THEN ToSet(trip) \cap history ELSE {}
        IN /\ here \subseteq ToSet(reply.layers)
           /\ ToSet(reply.layers) \subseteq here \cup resumed
           /\ Ascending(reply.layers)

\* A trip goes from shard to shard with candidates of each, cut, extended and
\* resumed; whatever it has picked up, no solve has a layer without a candidate
\* and none "would route through nodes that do not exist here".
LayersResolve ==
    pc = "publish" =>
        \A o \in ToSet(reply.layers) :
            /\ reply.edges[o] # {}
            /\ \A edge \in reply.edges[o] : Resolves(edge, ShardOf[Place(live)])

\* The cached trip is thrown away only when it has to be: a restart in spite
\* of one means that an older observation of the context is missing from it.
RestartIsNeeded ==
    (pc = "publish" /\ reply.kind = "restart" /\ trip # <<>>) =>
        \/ Len(reply.history) = 1
        \/ \E i \in 1 .. Len(reply.history) - 1 : reply.history[i] \notin ToSet(trip)

=============================================================================
