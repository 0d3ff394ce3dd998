------------------------------ MODULE Viterbi ------------------------------
(***************************************************************************)
(* The layered graph of routers_trellis and its solvers, as operators.     *)
(*                                                                         *)
(* A trellis has node weights, one sequence per layer, and one matrix of   *)
(* edge weights per boundary between layers, edges[k][i][j] leading from   *)
(* node i of layer k to node j of layer k + 1; a matrix not yet weighed is *)
(* Pending. Layers and nodes count from 1.                                 *)
(***************************************************************************)
EXTENDS Integers, Sequences, FiniteSets, FiniteSetsExt

CONSTANT InfW   \* INF_W, the infinity of the tables; 1 << 30 in the code

ASSUME InfAssumption == InfW \in Nat \ {0}

MaxWeight == InfW - 1
Pending == <<>>

Layers(t) == Len(t.nodes)
Nodes(t, k) == DOMAIN t.nodes[k]
Boundaries(t) == DOMAIN t.edges
Disconnections(t) == {k \in Boundaries(t) : t.edges[k] = Pending}

\* Trellis::last
LastLayers(t, n) ==
    [nodes |-> SubSeq(t.nodes, Layers(t) - n + 1, Layers(t)),
     edges |-> SubSeq(t.edges, Layers(t) - n + 1, Layers(t) - 1)]

\* The cheapest of a set of <<cost, node>> pairs, ties to the lowest node.
Cheapest(pairs) ==
    CHOOSE c \in pairs : \A d \in pairs : c[1] < d[1] \/ (c[1] = d[1] /\ c[2] <= d[2])

\* forward_pass: the cost of reaching and entering every node. Only live nodes
\* (below infinity) are extended, and only what is reached pays its weight, so
\* that an entry may exceed infinity but is never added to.
ForwardPass(t) ==
    LET dist[k \in 1 .. Layers(t)] ==
            IF k = 1 THEN t.nodes[1]
            ELSE [j \in Nodes(t, k) |->
                     LET reach == Min({InfW} \cup
                             {dist[k - 1][i] + t.edges[k - 1][i][j]
                                 : i \in {i \in Nodes(t, k - 1) : dist[k - 1][i] < InfW}})
                     IN IF reach < InfW THEN reach + t.nodes[k][j] ELSE reach]
    IN dist

\* predecessor: where the cheapest way to node j of layer k + 1 comes from.
Predecessor(t, dist, k, j) ==
    Cheapest({<<dist[k][i] + t.edges[k][i][j], i>> : i \in Nodes(t, k)})[2]

Best(t, dist) ==
    LET n == Layers(t) IN Cheapest({<<dist[n][j], j>> : j \in Nodes(t, n)})

Unreachable(t, dist) == Best(t, dist)[1] >= InfW

\* backtrack, when something is reachable.
Backtrack(t, dist) ==
    LET n == Layers(t)
        chosen[i \in 0 .. n - 1] ==
            IF i = 0 THEN Best(t, dist)[2]
            ELSE Predecessor(t, dist, n - i, chosen[i - 1])
    IN [nodes |-> [k \in 1 .. n |-> chosen[n - k]], cost |-> Best(t, dist)[1]]

\* Mutant: only the best final node is traced back, not every live one.
ConvergenceOfBest(t, dist) == Layers(t)

\* convergence: the last layer where the best paths to every live final node
\* go through one node, 0 if there is none.
Convergence(t, dist) ==
    LET n == Layers(t)
        frontier[i \in 0 .. n - 1] ==
            IF i = 0 THEN {j \in Nodes(t, n) : dist[n][j] < InfW}
            ELSE {Predecessor(t, dist, n - i, j) : j \in frontier[i - 1]}
        fused == {i \in 0 .. n - 1 : Cardinality(frontier[i]) = 1}
    IN IF fused = {} THEN 0 ELSE n - Min(fused)

\* Mutant: a boundary is judged on its own, whether or not edges lead to it.
BarrenBoundaries(t) ==
    {k \in Boundaries(t) : \A i \in Nodes(t, k), j \in Nodes(t, k + 1) : t.edges[k][i][j] > MaxWeight}

\* frontier_collapse: the boundaries no edge crosses from a node that edges
\* reach, starting afresh behind each one. It does not look at the costs.
FrontierCollapse(t) ==
    LET next[k \in 0 .. Layers(t) - 1] ==
            IF k = 0 THEN Nodes(t, 1)
            ELSE LET from == IF next[k - 1] = {} THEN Nodes(t, k) ELSE next[k - 1]
                 IN {j \in Nodes(t, k + 1) : \E i \in from : t.edges[k][i][j] <= MaxWeight}
    IN {k \in Boundaries(t) : next[k] = {}}

-----------------------------------------------------------------------------
(* The reference: every path, and what it costs.                           *)

Paths(t) ==
    {p \in [1 .. Layers(t) -> UNION {Nodes(t, k) : k \in 1 .. Layers(t)}] :
        \A k \in 1 .. Layers(t) : p[k] \in Nodes(t, k)}

PathCost(t, p) ==
    LET cost[k \in 1 .. Layers(t)] ==
            IF k = 1 THEN t.nodes[1][p[1]]
            ELSE cost[k - 1] + t.edges[k - 1][p[k - 1]][p[k]] + t.nodes[k][p[k]]
    IN cost[Layers(t)]

\* BruteForceSolver::solve
LeastCost(t) == Min({PathCost(t, p) : p \in Paths(t)})
=============================================================================
