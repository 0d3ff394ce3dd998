-------------------------------- MODULE Trip --------------------------------
(***************************************************************************)
(* A trip and the matcher that grows, solves and windows it: Trip,         *)
(* TripState and CandidateStore with Matcher::push, solve, convergence and *)
(* the two callers of Trip::tail (Continuation::reconcile and the cut in   *)
(* Matching::solve), over the trellis of module Viterbi.                   *)
(*                                                                         *)
(* The road network is external: what the weigher would find between two   *)
(* consecutive observations is fixed when the second one arrives (hops are *)
(* re-derived deterministically) and read when a pending boundary is       *)
(* weighed. A candidate is its layer; the layer stamped on it is where the *)
(* weigher looks it up.                                                    *)
(***************************************************************************)
EXTENDS Viterbi, SequencesExt

CONSTANTS
    Emissions,      \* node weights of a layer: the vectors considered
    Transitions,    \* edge weights out of a node: the rows considered
    MaxObservations \* bound of the model

ASSUME TripAssumption ==
    /\ Emissions \subseteq Seq(0 .. MaxWeight) \ {<<>>}
    /\ Transitions \subseteq Seq(0 .. InfW)
    /\ MaxObservations \in Nat

VARIABLES
    world,      \* per observation: its emissions and the roads leading to it
    origins,    \* the trip's observations, one per layer
    stamps,     \* per layer: the layer id its candidates carry
    trellis,    \* the trellis of the trip
    state,      \* TripState
    path,       \* the certificate of a solved trip
    outcome,    \* the last solve: "none", "solved" or "disconnected"
    breaks,     \* the boundaries a failed solve reports
    final       \* history: nodes promised not to change any more

vars == <<world, origins, stamps, trellis, state, path, outcome, breaks, final>>

NoTrellis == [nodes |-> <<>>, edges |-> <<>>]
NoPath == [nodes |-> <<>>, cost |-> 0]

Init ==
    /\ world = <<>> /\ origins = <<>> /\ stamps = <<>> /\ trellis = NoTrellis
    /\ state = "Empty" /\ path = NoPath
    /\ outcome = "none" /\ breaks = {} /\ final = <<>>

\* What the weigher may find between layers of these widths.
Matrices(from, to) == [1 .. from -> {row \in Transitions : Len(row) = to}]

\* Matcher::push of an observation with candidates (one without is rejected
\* and changes nothing). A solved trip reopens.
Push ==
    /\ Len(world) < MaxObservations
    /\ \E e \in Emissions :
          /\ \E roads \in IF world = <<>> THEN {Pending}
                          ELSE Matrices(Len(Last(world).emissions), Len(e)) :
                world' = Append(world, [emissions |-> e, roads |-> roads])
          /\ trellis' = [nodes |-> Append(trellis.nodes, e),
                         edges |-> IF state = "Empty" THEN <<>>
                                   ELSE Append(trellis.edges, Pending)]
    /\ origins' = Append(origins, Len(world) + 1)
    /\ stamps' = Append(stamps, Len(origins) + 1)
    /\ state' = "Building" /\ path' = NoPath /\ outcome' = "none" /\ breaks' = {}
    /\ UNCHANGED final

\* The weights of boundary k, from the candidates its layers are stamped with:
\* nothing is found between layers that are not consecutive observations.
WeighBoundary(k) ==
    LET from == stamps[k]
        to == stamps[k + 1]
    IN IF {from, to} \subseteq DOMAIN origins /\ origins[to] = origins[from] + 1
       THEN world[origins[to]].roads ELSE Pending

NoEdges(matrix) == \A i \in DOMAIN matrix : \A j \in DOMAIN matrix[i] : matrix[i][j] = InfW

\* Only pending boundaries are weighed; one that nothing bridges stays so.
Weigh ==
    [trellis EXCEPT !.edges = [k \in DOMAIN @ |->
        IF @[k] # Pending THEN @[k]
        ELSE IF NoEdges(WeighBoundary(k)) THEN Pending ELSE WeighBoundary(k)]]

\* Matcher::solve of a trip with pending data, and the convergence asked of
\* the same trellis. What converged may not change from here on.
Solve ==
    /\ state = "Building"
    /\ LET t == Weigh
           gaps == Disconnections(t)
           dist == ForwardPass(t)
       IN /\ trellis' = t
          /\ \/ /\ gaps # {}
                /\ outcome' = "disconnected" /\ breaks' = gaps
                /\ UNCHANGED <<state, path, final>>
             \/ /\ gaps = {} /\ Unreachable(t, dist)
                /\ outcome' = "disconnected" /\ breaks' = FrontierCollapse(t)
                /\ UNCHANGED <<state, path, final>>
             \/ /\ gaps = {} /\ ~ Unreachable(t, dist)
                /\ outcome' = "solved" /\ breaks' = {} /\ state' = "Solved"
                /\ path' = Backtrack(t, dist)
                /\ final' = SubSeq(path'.nodes, 1, Convergence(t, dist))
    /\ UNCHANGED <<world, origins, stamps>>

\* Mutant: the surviving candidates keep their old layer ids.
KeepUnstamped(n) ==
    /\ n \in 1 .. Len(origins) - 1
    /\ origins' = SubSeq(origins, Len(origins) - n + 1, Len(origins))
    /\ stamps' = SubSeq(stamps, Len(origins) - n + 1, Len(origins))
    /\ trellis' = LastLayers(trellis, n)
    /\ state' = "Building" /\ path' = NoPath /\ outcome' = "none" /\ breaks' = {}
    /\ UNCHANGED world

\* Trip::tail(n) for a proper part of the trip: candidates are stamped anew
\* and a certificate does not survive.
Keep(n) ==
    /\ n \in 1 .. Len(origins) - 1
    /\ origins' = SubSeq(origins, Len(origins) - n + 1, Len(origins))
    /\ stamps' = [k \in 1 .. n |-> k]
    /\ trellis' = LastLayers(trellis, n)
    /\ state' = "Building" /\ path' = NoPath /\ outcome' = "none" /\ breaks' = {}
    /\ UNCHANGED world

\* The resume of a trip whose oldest layers have left the window.
Slide ==
    /\ \E n \in 1 .. Len(origins) - 1 : Keep(n)
    /\ final' = <<>>

\* The matcher cuts the solved trip behind its convergence point.
Cut ==
    /\ state = "Solved" /\ final # <<>>
    /\ Keep(Len(origins) - Len(final) + 1)
    /\ final' = <<>>

Next == Push \/ Solve \/ Slide \/ Cut

Spec == Init /\ [][Next]_vars

-----------------------------------------------------------------------------
(* Properties.                                                             *)

\* The trellis the trip's own observations make, every boundary weighed.
Truth ==
    [nodes |-> [k \in DOMAIN origins |-> world[origins[k]].emissions],
     edges |-> [k \in 1 .. Len(origins) - 1 |-> world[origins[k + 1]].roads]]

\* A solve is exact: it certifies a cheapest path through the trip's
\* observations, with its cost, and fails only when every path costs infinity,
\* however the trip was grown, solved, windowed and cut before.
SolveIsExact ==
    /\ outcome = "solved" =>
          /\ path.nodes \in Paths(Truth)
          /\ PathCost(Truth, path.nodes) = path.cost
          /\ path.cost = LeastCost(Truth) /\ path.cost < InfW
    /\ outcome = "disconnected" => LeastCost(Truth) >= InfW

\* A failed solve is explained truthfully: since the break before it, no path
\* crosses a reported boundary on edges that exist ("some boundary has edges but
\* none continue a live path"), and nothing is reported only when the edges do
\* lead through and it is their costs that add up to infinity.
BreaksExplainTheFailure ==
    outcome = "disconnected" =>
        LET present(p, j) == Truth.edges[j][p[j]][p[j + 1]] < InfW
            since(k) == Max({0} \cup {b \in breaks : b < k}) + 1
        IN /\ \A k \in breaks, p \in Paths(Truth) : \E j \in since(k) .. k : ~ present(p, j)
           /\ breaks = {} <=> \E p \in Paths(Truth) : \A j \in Boundaries(Truth) : present(p, j)

\* "appending layers can never change the chosen path at or before this
\* layer" and "across solvable appends the point never moves backwards":
\* between two windowings, a solve keeps every node that had converged.
ConvergedPrefixIsStable ==
    [][(state' = "Solved" /\ state = "Building") =>
          IsPrefix(final, final')]_vars

=============================================================================
