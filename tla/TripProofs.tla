----------------------------- MODULE TripProofs -----------------------------
(***************************************************************************)
(* The solver of routers_trellis is exact, for every weighed trellis of    *)
(* any number of layers, any widths and any weights: the tables of the     *)
(* forward pass, the path that is traced back through them, and the path   *)
(* of least cost.  And however a trip is grown, solved, windowed and cut,  *)
(* its trellis is the one its own observations make, except for boundaries *)
(* still pending; so every solve is exact, every failure explained and     *)
(* every converged prefix final.                                           *)
(***************************************************************************)
EXTENDS Trip, SetLemmas

\* A trellis with at least one layer, no empty layer, and every boundary
\* weighed.
Weighed(t) ==
    /\ Layers(t) \in Nat \ {0} /\ Boundaries(t) = 1 .. Layers(t) - 1
    /\ \A k \in 1 .. Layers(t) :
          /\ Nodes(t, k) \subseteq Nat /\ Nodes(t, k) # {} /\ IsFiniteSet(Nodes(t, k))
          /\ t.nodes[k] \in [Nodes(t, k) -> Nat]
    /\ \A k \in 1 .. Layers(t) - 1 : \A i \in Nodes(t, k), j \in Nodes(t, k + 1) : t.edges[k][i][j] \in Nat

-----------------------------------------------------------------------------
(* The forward pass.                                                       *)

\* The least cost at which node j of layer k is reached from the costs v of
\* the layer before.
Reached(t, v, k, j) ==
    Min({InfW} \cup {v[i] + t.edges[k - 1][i][j] : i \in {i \in Nodes(t, k - 1) : v[i] < InfW}})

Extended(t, v, k) ==
    [j \in Nodes(t, k) |->
        IF Reached(t, v, k, j) < InfW THEN Reached(t, v, k, j) + t.nodes[k][j] ELSE Reached(t, v, k, j)]

\* Reached is the least of the costs into a node, or infinity.
LEMMA ReachedFacts ==
    ASSUME NEW t, Weighed(t), NEW k \in 2 .. Layers(t), NEW v \in [Nodes(t, k - 1) -> Nat], NEW j \in Nodes(t, k)
    PROVE  /\ Reached(t, v, k, j) \in Nat
           /\ \A i \in Nodes(t, k - 1) : v[i] < InfW => Reached(t, v, k, j) <= v[i] + t.edges[k - 1][i][j]
           /\ Reached(t, v, k, j) < InfW =>
                 \E i \in Nodes(t, k - 1) : v[i] < InfW /\ Reached(t, v, k, j) = v[i] + t.edges[k - 1][i][j]
<1> DEFINE live == {i \in Nodes(t, k - 1) : v[i] < InfW}
           S == {v[i] + t.edges[k - 1][i][j] : i \in live}
           T == {InfW} \cup S
<1>1. k - 1 \in 1 .. Layers(t) - 1 /\ (k - 1) + 1 = k
  <2>1. Layers(t) \in Nat
    BY DEF Weighed
  <2> HIDE DEF live, S, T
  <2> QED
    BY <2>1
<1>2. \A i \in Nodes(t, k - 1) : v[i] \in Nat /\ t.edges[k - 1][i][j] \in Nat
  <2>1. j \in Nodes(t, (k - 1) + 1)
    BY <1>1
  <2> QED
    BY <1>1, <2>1, Zenon DEF Weighed
<1>3. \A i \in live : v[i] + t.edges[k - 1][i][j] \in Nat
  BY <1>2
<1>4. T \subseteq Nat /\ T # {}
  BY <1>3, InfAssumption
<1>5. Reached(t, v, k, j) = Min(T)
  BY DEF Reached
<1>6. \A i \in Nodes(t, k - 1) : v[i] < InfW => v[i] + t.edges[k - 1][i][j] \in T
  OBVIOUS
<1>7. \A x \in T : x < InfW => \E i \in Nodes(t, k - 1) : v[i] < InfW /\ x = v[i] + t.edges[k - 1][i][j]
  BY InfAssumption
<1> HIDE DEF T
<1>8. Min(T) \in T /\ \A x \in T : Min(T) <= x
  BY <1>4, MinFacts
<1>9. Min(T) \in Nat
  BY <1>4, <1>8
<1> QED
  BY <1>5, <1>6, <1>7, <1>8, <1>9

\* A layer's costs are numbers if those of the layer before are.
LEMMA ExtendedType ==
    ASSUME NEW t, Weighed(t), NEW k \in 2 .. Layers(t), NEW v \in [Nodes(t, k - 1) -> Nat]
    PROVE  Extended(t, v, k) \in [Nodes(t, k) -> Nat]
<1>1. k \in 1 .. Layers(t)
  BY DEF Weighed
<1>2. \A j \in Nodes(t, k) : t.nodes[k][j] \in Nat
  BY <1>1 DEF Weighed
<1>3. \A j \in Nodes(t, k) : Reached(t, v, k, j) \in Nat
  BY ReachedFacts
<1>4. \A j \in Nodes(t, k) : Reached(t, v, k, j) + t.nodes[k][j] \in Nat
  BY <1>2, <1>3
<1> QED
  BY <1>3, <1>4 DEF Extended

\* The forward pass starts with the weights of layer 1 and extends layer by
\* layer.
LEMMA ForwardFacts ==
    ASSUME NEW t, Weighed(t)
    PROVE  LET d == ForwardPass(t) IN
           /\ d = [k \in 1 .. Layers(t) |-> d[k]]
           /\ \A k \in 1 .. Layers(t) : d[k] \in [Nodes(t, k) -> Nat]
           /\ d[1] = t.nodes[1]
           /\ \A k \in 2 .. Layers(t) : d[k] = Extended(t, d[k - 1], k)
<1> DEFINE n == Layers(t)
           Table(d) == d = [k \in 1 .. n |-> IF k = 1 THEN t.nodes[1] ELSE Extended(t, d[k - 1], k)]
           V == [k \in 1 .. n |-> [Nodes(t, k) -> Nat]]
           G == [k \in 2 .. n |-> [v \in V[k - 1] |-> Extended(t, v, k)]]
           d == ForwardPass(t)
<1>1. n \in Int /\ 1 <= n /\ 1 \in 1 .. n
  BY DEF Weighed
<1>2. \A k \in 1 .. n : V[k] = [Nodes(t, k) -> Nat]
  OBVIOUS
<1>3. \A k \in 2 .. n : k - 1 \in 1 .. n /\ k \in 1 .. n
  BY <1>1
<1>4. \A k \in 2 .. n : \A v \in V[k - 1] : G[k][v] = Extended(t, v, k)
  OBVIOUS
<1>5. t.nodes[1] \in V[1]
  BY <1>1, <1>2 DEF Weighed
<1>6. d = CHOOSE x : Table(x)
  BY Zenon DEF ForwardPass, Extended, Reached
<1> HIDE DEF n, V, G, d
<1>7. \A k \in 2 .. n : \A v \in V[k - 1] : G[k][v] \in V[k]
  <2> SUFFICES ASSUME NEW k \in 2 .. n, NEW v \in V[k - 1] PROVE Extended(t, v, k) \in V[k]
    BY <1>4
  <2>1. v \in [Nodes(t, k - 1) -> Nat]
    BY <1>2, <1>3
  <2>2. Extended(t, v, k) \in [Nodes(t, k) -> Nat]
    BY <2>1, ExtendedType DEF n
  <2> QED
    BY <1>2, <1>3, <2>2
<1>8. \E f : Table(f)
  <2>1. PICK f : /\ f = [k \in 1 .. n |-> f[k]] /\ f[1] = t.nodes[1]
                 /\ \A k \in 2 .. n : f[k] = G[k][f[k - 1]]
                 /\ \A k \in 1 .. n : f[k] \in V[k]
    <3> DEFINE a == t.nodes[1]
    <3>1. a \in V[1] /\ 1 \in Int /\ n \in Int /\ 1 <= n /\ 1 + 1 = 2
      BY <1>1, <1>5
    <3> HIDE DEF a
    <3>2. Leads(G, V, 1, n)
      BY <1>7 DEF Leads
    <3>3. \E f : Unrolls(f, a, G, V, 1, n)
      BY <3>1, <3>2, RecursiveFunction, Zenon
    <3> QED
      BY <3>1, <3>3 DEF a, Unrolls
  <2>2. ASSUME NEW k \in 1 .. n, k # 1 PROVE f[k] = Extended(t, f[k - 1], k)
    <3>1. k \in 2 .. n
      BY <1>1, <2>2
    <3>2. f[k - 1] \in V[k - 1]
      BY <1>3, <2>1, <3>1, Zenon
    <3> QED
      BY <1>4, <2>1, <3>1, <3>2, Zenon
  <2>3. \A k \in 1 .. n : f[k] = IF k = 1 THEN t.nodes[1] ELSE Extended(t, f[k - 1], k)
    BY <2>1, <2>2
  <2>4. f = [k \in 1 .. n |-> f[k]]
    BY <2>1
  <2>5. Table(f)
    BY <2>3, <2>4
  <2> QED
    BY <2>5
<1>9. Table(d)
  BY <1>6, <1>8, Zenon
<1>10. /\ d = [k \in 1 .. n |-> d[k]] /\ d[1] = t.nodes[1]
       /\ \A k \in 2 .. n : d[k] = Extended(t, d[k - 1], k)
  BY <1>1, <1>9
<1>11. \A k \in 1 .. n : d[k] \in V[k]
  <2> DEFINE T == {k \in Int : d[k] \in V[k]}
  <2>1. 1 \in T
    BY <1>5, <1>10
  <2>2. ASSUME NEW k \in 2 .. n, k - 1 \in T PROVE k \in T
    <3>1. G[k][d[k - 1]] \in V[k] /\ G[k][d[k - 1]] = Extended(t, d[k - 1], k) /\ k \in Int
      BY <1>4, <1>7, <2>2
    <3> QED
      BY <1>10, <3>1
  <2> HIDE DEF T
  <2>3. 1 .. n \subseteq T
    BY <1>1, <2>1, <2>2, RangeInd
  <2> QED
    BY <2>3 DEF T
<1> QED
  BY <1>2, <1>10, <1>11, Zenon DEF n, d

-----------------------------------------------------------------------------
(* Paths and their costs.                                                  *)

\* c has the costs of the beginnings of p.
Costs(t, p, c) ==
    /\ c[1] = t.nodes[1][p[1]]
    /\ \A k \in 2 .. Layers(t) : c[k] = c[k - 1] + t.edges[k - 1][p[k - 1]][p[k]] + t.nodes[k][p[k]]
    /\ \A k \in 1 .. Layers(t) : c[k] \in Nat

\* A path has a node of every layer, with a weight, and an edge weight at
\* every boundary.
LEMMA PathFacts ==
    ASSUME NEW t, Weighed(t), NEW p \in Paths(t)
    PROVE  /\ \A k \in 1 .. Layers(t) : p[k] \in Nodes(t, k) /\ t.nodes[k][p[k]] \in Nat
           /\ \A k \in 2 .. Layers(t) : t.edges[k - 1][p[k - 1]][p[k]] \in Nat /\ k - 1 \in 1 .. Layers(t)
<1>1. \A k \in 1 .. Layers(t) : p[k] \in Nodes(t, k)
  BY DEF Paths
<1>2. \A k \in 1 .. Layers(t) : t.nodes[k][p[k]] \in Nat
  BY <1>1 DEF Weighed
<1>3. ASSUME NEW k \in 2 .. Layers(t)
      PROVE  t.edges[k - 1][p[k - 1]][p[k]] \in Nat /\ k - 1 \in 1 .. Layers(t)
  <2>1. k - 1 \in 1 .. Layers(t) - 1 /\ k - 1 \in 1 .. Layers(t) /\ k \in 1 .. Layers(t) /\ (k - 1) + 1 = k
    BY DEF Weighed
  <2>2. p[k - 1] \in Nodes(t, k - 1) /\ p[k] \in Nodes(t, (k - 1) + 1)
    BY <1>1, <2>1
  <2> QED
    BY <2>1, <2>2, Zenon DEF Weighed
<1> QED
  BY <1>1, <1>2, <1>3

\* The cost of a path is the last of the costs of its beginnings.
LEMMA PathCostFacts ==
    ASSUME NEW t, Weighed(t), NEW p \in Paths(t)
    PROVE  \E c : Costs(t, p, c) /\ PathCost(t, p) = c[Layers(t)]
<1> DEFINE n == Layers(t)
           Step(k, v) == v + t.edges[k - 1][p[k - 1]][p[k]] + t.nodes[k][p[k]]
           Table(c) == c = [k \in 1 .. n |-> IF k = 1 THEN t.nodes[1][p[1]] ELSE
                              c[k - 1] + t.edges[k - 1][p[k - 1]][p[k]] + t.nodes[k][p[k]]]
           V == [k \in 1 .. n |-> Nat]
           G == [k \in 2 .. n |-> [v \in Nat |-> Step(k, v)]]
           a == t.nodes[1][p[1]]
           c == CHOOSE x : Table(x)
<1>1. n \in Int /\ 1 <= n /\ 1 \in 1 .. n /\ n \in 1 .. n
  BY DEF Weighed
<1>2. \A k \in 1 .. n : V[k] = Nat
  OBVIOUS
<1>3. \A k \in 2 .. n : k - 1 \in 1 .. n /\ k \in 1 .. n
  BY <1>1
<1>4. \A k \in 2 .. n : \A v \in Nat : G[k][v] = Step(k, v)
  OBVIOUS
<1>5. \A k \in 2 .. n : \A v \in Nat : Step(k, v) \in Nat
  <2>1. \A k \in 2 .. n : t.edges[k - 1][p[k - 1]][p[k]] \in Nat /\ t.nodes[k][p[k]] \in Nat
    BY <1>3, PathFacts
  <2> QED
    BY <2>1
<1>6. a \in V[1]
  BY <1>1, <1>2, PathFacts
<1>7. PathCost(t, p) = c[n]
  BY Zenon DEF PathCost
<1> HIDE DEF n, V, G, a, c
<1>8. \E f : Table(f)
  <2>1. PICK f : Unrolls(f, a, G, V, 1, n)
    <3>1. Leads(G, V, 1, n)
      BY <1>2, <1>3, <1>4, <1>5 DEF Leads
    <3>2. 1 \in Int
      OBVIOUS
    <3> QED
      BY <1>1, <1>6, <3>1, <3>2, RecursiveFunction, Zenon
  <2>2. f = [k \in 1 .. n |-> f[k]] /\ f[1] = a /\ (\A k \in 2 .. n : f[k] = G[k][f[k - 1]]) /\ \A k \in 1 .. n : f[k] \in Nat
    <3>1. 1 + 1 = 2
      OBVIOUS
    <3>2. /\ f = [k \in 1 .. n |-> f[k]] /\ f[1] = a /\ (\A k \in 1 + 1 .. n : f[k] = G[k][f[k - 1]])
          /\ \A k \in 1 .. n : f[k] \in V[k]
      BY <2>1, Zenon DEF Unrolls
    <3>3. \A k \in 2 .. n : f[k] = G[k][f[k - 1]]
      BY <3>1, <3>2, Zenon
    <3>4. ASSUME NEW k \in 1 .. n PROVE f[k] \in Nat
      <4>1. f[k] \in V[k] /\ V[k] = Nat
        BY <1>2, <3>2, Zenon
      <4> QED
        BY <4>1, Zenon
    <3> QED
      BY <3>2, <3>3, <3>4, Zenon
  <2>3. ASSUME NEW k \in 1 .. n, k # 1 PROVE f[k] = Step(k, f[k - 1])
    <3>1. k \in 2 .. n
      BY <1>1, <2>3
    <3>2. f[k - 1] \in Nat
      BY <1>3, <2>2, <3>1, Zenon
    <3> QED
      BY <1>4, <2>2, <3>1, <3>2, Zenon
  <2>4. \A k \in 1 .. n : f[k] = IF k = 1 THEN t.nodes[1][p[1]] ELSE
                              f[k - 1] + t.edges[k - 1][p[k - 1]][p[k]] + t.nodes[k][p[k]]
    BY <2>2, <2>3, Zenon DEF a
  <2>5. f = [k \in 1 .. n |-> f[k]]
    BY <2>2
  <2>6. Table(f)
    BY <2>4, <2>5
  <2> QED
    BY <2>6
<1>9. Table(c)
  BY <1>8, Zenon DEF c
<1>10. c[1] = a /\ \A k \in 2 .. n : c[k] = Step(k, c[k - 1])
  BY <1>1, <1>9 DEF a
<1>11. \A k \in 1 .. n : c[k] \in Nat
  <2> DEFINE T == {k \in Int : c[k] \in Nat}
  <2>1. 1 \in T
    BY <1>1, <1>2, <1>6, <1>10
  <2>2. ASSUME NEW k \in 2 .. n, k - 1 \in T PROVE k \in T
    BY <1>5, <1>10, <2>2
  <2> HIDE DEF T
  <2>3. 1 .. n \subseteq T
    BY <1>1, <2>1, <2>2, RangeInd
  <2> QED
    BY <2>3 DEF T
<1>12. Costs(t, p, c)
  BY <1>10, <1>11 DEF Costs, a, n
<1> QED
  BY <1>7, <1>12 DEF n

-----------------------------------------------------------------------------
(* The choice of a node.                                                   *)

\* Cheapest is a pair of the set, of least cost.
LEMMA CheapestFacts ==
    ASSUME NEW D, D \subseteq Nat, D # {}, NEW v, \A i \in D : v[i] \in Nat
    PROVE  LET c == Cheapest({<<v[i], i>> : i \in D}) IN
           c[2] \in D /\ c[1] = v[c[2]] /\ \A i \in D : c[1] <= v[i]
<1> DEFINE pairs == {<<v[i], i>> : i \in D}
           C == {v[i] : i \in D}
           Ok(c) == c \in pairs /\ \A d \in pairs : c[1] < d[1] \/ (c[1] = d[1] /\ c[2] <= d[2])
<1>1. C \subseteq Nat /\ C # {}
  OBVIOUS
<1>2. PICK m \in C : \A x \in C : m <= x
  <2> HIDE DEF C
  <2> QED
    BY <1>1, NatMin
<1> DEFINE E == {i \in D : v[i] = m}
<1>3. E \subseteq Nat /\ E # {}
  OBVIOUS
<1>4. PICK j \in E : \A i \in E : j <= i
  <2> HIDE DEF E
  <2> QED
    BY <1>3, NatMin
<1>5. j \in D /\ v[j] = m /\ \A i \in D : (v[j] < v[i] \/ (v[j] = v[i] /\ j <= i))
  <2>1. \A i \in D : v[i] \in C /\ v[i] \in Nat /\ m \in Nat
    BY <1>1, <1>2
  <2>2. \A i \in D : m <= v[i]
    BY <1>2, <2>1
  <2>3. \A i \in D : v[i] = m \/ m < v[i]
    BY <2>1, <2>2
  <2> QED
    BY <1>4, <2>3
<1>6. Ok(<<v[j], j>>)
  <2>1. <<v[j], j>> \in pairs /\ <<v[j], j>>[1] = v[j] /\ <<v[j], j>>[2] = j
    BY <1>5
  <2>2. ASSUME NEW d \in pairs
        PROVE  v[j] < d[1] \/ (v[j] = d[1] /\ j <= d[2])
    <3>1. PICK i \in D : d = <<v[i], i>>
      OBVIOUS
    <3>2. d[1] = v[i] /\ d[2] = i
      BY <3>1
    <3> QED
      BY <1>5, <3>2
  <2> HIDE DEF pairs
  <2> QED
    BY <2>1, <2>2
<1>7. \E c \in pairs : \A d \in pairs : c[1] < d[1] \/ (c[1] = d[1] /\ c[2] <= d[2])
  BY <1>6
<1> DEFINE c == Cheapest(pairs)
<1>8. Ok(c)
  <2> HIDE DEF pairs
  <2> QED
    BY <1>7, Zenon DEF Cheapest
<1> HIDE DEF c
<1>9. PICK i \in D : c = <<v[i], i>>
  BY <1>8
<1>10. c[1] = v[i] /\ c[2] = i
  BY <1>9
<1>11. ASSUME NEW k \in D PROVE c[1] <= v[k]
  <2>1. <<v[k], k>> \in pairs
    OBVIOUS
  <2>2. c[1] < v[k] \/ c[1] = v[k]
    BY <1>8, <2>1
  <2> QED
    BY <1>10, <2>2
<1> QED
  BY <1>9, <1>10, <1>11 DEF c

\* The node before j, and that the cheapest way to a live node comes from it.
LEMMA PredecessorFacts ==
    ASSUME NEW t, Weighed(t), NEW k \in 1 .. Layers(t) - 1, NEW j \in Nodes(t, k + 1)
    PROVE  LET d == ForwardPass(t)
               i == Predecessor(t, d, k, j)
           IN  /\ i \in Nodes(t, k)
               /\ d[k + 1][j] < InfW => /\ d[k][i] < InfW
                                        /\ d[k + 1][j] = d[k][i] + t.edges[k][i][j] + t.nodes[k + 1][j]
<1> DEFINE d == ForwardPass(t)
           D == Nodes(t, k)
           v == [i \in D |-> d[k][i] + t.edges[k][i][j]]
           i == Predecessor(t, d, k, j)
<1>1. k \in 1 .. Layers(t) /\ k + 1 \in 1 .. Layers(t) /\ k + 1 \in 2 .. Layers(t) /\ (k + 1) - 1 = k
  BY DEF Weighed
<1>2. d[k] \in [D -> Nat] /\ d[k + 1] = Extended(t, d[k], k + 1)
  <2>1. d[k + 1] = Extended(t, d[(k + 1) - 1], k + 1)
    BY <1>1, ForwardFacts, Zenon
  <2> QED
    BY <1>1, <2>1, ForwardFacts
<1> HIDE DEF d
<1>3. D \subseteq Nat /\ D # {} /\ (\A x \in D : d[k][x] \in Nat /\ t.edges[k][x][j] \in Nat) /\ t.nodes[k + 1][j] \in Nat
  <2>1. D \subseteq Nat /\ D # {}
    BY <1>1 DEF Weighed
  <2>2. \A x \in D : d[k][x] \in Nat
    BY <1>2
  <2>3. \A x \in D : t.edges[k][x][j] \in Nat
    BY Zenon DEF Weighed
  <2>4. t.nodes[k + 1][j] \in Nat
    <3>1. t.nodes[k + 1] \in [Nodes(t, k + 1) -> Nat]
      BY <1>1, Zenon DEF Weighed
    <3> QED
      BY <3>1
  <2> QED
    BY <2>1, <2>2, <2>3, <2>4
<1>4. \A x \in D : v[x] = d[k][x] + t.edges[k][x][j] /\ v[x] \in Nat
  BY <1>3
<1>5. {<<d[k][x] + t.edges[k][x][j], x>> : x \in D} = {<<v[x], x>> : x \in D}
  BY <1>4
<1> HIDE DEF D, v
<1>6. i = Cheapest({<<v[x], x>> : x \in D})[2]
  BY <1>5 DEF Predecessor, D
<1>7. i \in D /\ \A x \in D : v[i] <= v[x]
  BY <1>3, <1>4, <1>6, CheapestFacts
<1> HIDE DEF i
<1>8. ASSUME d[k + 1][j] < InfW
      PROVE  d[k][i] < InfW /\ d[k + 1][j] = d[k][i] + t.edges[k][i][j] + t.nodes[k + 1][j]
  <2> DEFINE r == Reached(t, d[k], k + 1, j)
  <2>1. d[k + 1][j] = IF r < InfW THEN r + t.nodes[k + 1][j] ELSE r
    BY <1>2 DEF Extended
  <2>2. /\ r \in Nat
        /\ \A x \in D : d[k][x] < InfW => r <= d[k][x] + t.edges[k][x][j]
        /\ r < InfW => \E x \in D : d[k][x] < InfW /\ r = d[k][x] + t.edges[k][x][j]
    <3>1. d[k] \in [Nodes(t, (k + 1) - 1) -> Nat]
      BY <1>1, <1>2 DEF D
    <3>2. /\ r \in Nat
          /\ \A x \in Nodes(t, (k + 1) - 1) : d[k][x] < InfW => r <= d[k][x] + t.edges[(k + 1) - 1][x][j]
          /\ r < InfW => \E x \in Nodes(t, (k + 1) - 1) : d[k][x] < InfW /\ r = d[k][x] + t.edges[(k + 1) - 1][x][j]
      BY <1>1, <3>1, ReachedFacts
    <3> QED
      BY <1>1, <3>2 DEF D
  <2> HIDE DEF r
  <2>3. r < InfW
    BY <1>3, <1>8, <2>1, <2>2, InfAssumption
  <2>4. PICK x \in D : d[k][x] < InfW /\ r = d[k][x] + t.edges[k][x][j]
    BY <2>2, <2>3
  <2>5. v[i] <= v[x] /\ v[x] = r
    BY <1>4, <1>7, <2>4
  <2>6. v[i] = d[k][i] + t.edges[k][i][j] /\ d[k][i] \in Nat /\ t.edges[k][i][j] \in Nat
    BY <1>3, <1>4, <1>7
  <2>7. d[k][i] < InfW
    BY <2>2, <2>3, <2>5, <2>6, InfAssumption
  <2>8. r <= v[i]
    BY <1>7, <2>2, <2>6, <2>7
  <2>9. r = v[i]
    BY <2>2, <2>5, <2>6, <2>8
  <2> QED
    BY <2>1, <2>3, <2>6, <2>7, <2>9
<1> QED
  BY <1>7, <1>8 DEF i, d, D

-----------------------------------------------------------------------------
(* The path that is traced back, and that it is a cheapest one.            *)

\* Best is a final node of least cost.
LEMMA BestFacts ==
    ASSUME NEW t, Weighed(t)
    PROVE  LET d == ForwardPass(t)
               b == Best(t, d)
           IN  /\ b[2] \in Nodes(t, Layers(t)) /\ b[1] = d[Layers(t)][b[2]] /\ b[1] \in Nat
               /\ \A j \in Nodes(t, Layers(t)) : b[1] <= d[Layers(t)][j]
<1> DEFINE n == Layers(t)
           D == Nodes(t, n)
           v == ForwardPass(t)[n]
           b == Best(t, ForwardPass(t))
<1>1. n \in 1 .. n
  BY DEF Weighed
<1>2. v \in [D -> Nat]
  BY <1>1, ForwardFacts
<1>3. D \subseteq Nat /\ D # {}
  BY <1>1 DEF Weighed
<1>4. b = Cheapest({<<v[j], j>> : j \in D})
  BY DEF Best
<1> HIDE DEF D, v, b
<1>5. b[2] \in D /\ b[1] = v[b[2]] /\ \A j \in D : b[1] <= v[j]
  <2>1. \A j \in D : v[j] \in Nat
    BY <1>2
  <2>2. LET x == Cheapest({<<v[j], j>> : j \in D}) IN x[2] \in D /\ x[1] = v[x[2]] /\ \A j \in D : x[1] <= v[j]
    BY <1>3, <2>1, CheapestFacts
  <2> QED
    BY <1>4, <2>2, Zenon
<1>6. b[1] \in Nat
  BY <1>2, <1>5
<1> QED
  BY <1>5, <1>6 DEF b, v, D

\* p is traced back from its last node.
Traced(t, p) == \A k \in 1 .. Layers(t) - 1 : p[k] = Predecessor(t, ForwardPass(t), k, p[k + 1])

\* What is chosen from a last node b on, back to the first layer.
Chosen(t, d, b) ==
    CHOOSE x : x = [i \in 0 .. Layers(t) - 1 |->
                       IF i = 0 THEN b ELSE Predecessor(t, d, Layers(t) - i, x[i - 1])]

\* Tracing back from a final node yields a path through predecessors.
LEMMA ChosenFacts ==
    ASSUME NEW t, Weighed(t), NEW b \in Nodes(t, Layers(t))
    PROVE  LET q == [k \in 1 .. Layers(t) |-> Chosen(t, ForwardPass(t), b)[Layers(t) - k]]
           IN  q \in Paths(t) /\ q[Layers(t)] = b /\ Traced(t, q)
<1> DEFINE n == Layers(t)
           d == ForwardPass(t)
           Table(x) == x = [i \in 0 .. n - 1 |-> IF i = 0 THEN b ELSE Predecessor(t, d, n - i, x[i - 1])]
           V == [i \in 0 .. n - 1 |-> Nodes(t, n - i)]
           G == [i \in 1 .. n - 1 |-> [j \in Nodes(t, (n - i) + 1) |-> Predecessor(t, d, n - i, j)]]
           c == Chosen(t, d, b)
           q == [k \in 1 .. n |-> c[n - k]]
<1>1. n \in Int /\ 0 <= n - 1 /\ n - 1 \in Int /\ 0 \in 0 .. n - 1 /\ n - 0 = n
  BY DEF Weighed
<1>2. \A i \in 0 .. n - 1 : V[i] = Nodes(t, n - i)
  OBVIOUS
<1>3. \A i \in 1 .. n - 1 : /\ i - 1 \in 0 .. n - 1 /\ i \in 0 .. n - 1 /\ n - i \in 1 .. n - 1
                            /\ n - (i - 1) = (n - i) + 1
  BY <1>1
<1>4. \A i \in 1 .. n - 1 : \A j \in Nodes(t, (n - i) + 1) : G[i][j] = Predecessor(t, d, n - i, j)
  OBVIOUS
<1>5. \A i \in 1 .. n - 1 : \A j \in Nodes(t, (n - i) + 1) : Predecessor(t, d, n - i, j) \in Nodes(t, n - i)
  BY <1>3, PredecessorFacts
<1>6. b \in V[0]
  BY <1>1, <1>2
<1>7. c = CHOOSE x : Table(x)
  BY Zenon DEF Chosen
<1> HIDE DEF n, d, V, G, c
<1>8. \A i \in 1 .. n - 1 : V[i - 1] = Nodes(t, (n - i) + 1) /\ V[i] = Nodes(t, n - i)
  <2> SUFFICES ASSUME NEW i \in 1 .. n - 1 PROVE V[i - 1] = Nodes(t, (n - i) + 1) /\ V[i] = Nodes(t, n - i)
    OBVIOUS
  <2>1. i - 1 \in 0 .. n - 1 /\ i \in 0 .. n - 1 /\ n - (i - 1) = (n - i) + 1
    BY <1>3
  <2>2. V[i - 1] = Nodes(t, n - (i - 1)) /\ V[i] = Nodes(t, n - i)
    BY <1>2, <2>1, Zenon
  <2> QED
    BY <2>1, <2>2, Zenon
<1>9. \E f : Table(f)
  <2>1. PICK f : Unrolls(f, b, G, V, 0, n - 1)
    <3>1. Leads(G, V, 0, n - 1)
      <4> SUFFICES ASSUME NEW i \in 0 + 1 .. n - 1, NEW j \in V[i - 1] PROVE G[i][j] \in V[i]
        BY DEF Leads
      <4>1. i \in 1 .. n - 1
        OBVIOUS
      <4>2. j \in Nodes(t, (n - i) + 1) /\ V[i] = Nodes(t, n - i)
        BY <1>8, <4>1
      <4> QED
        BY <1>4, <1>5, <4>1, <4>2
    <3>2. 0 \in Int
      OBVIOUS
    <3> QED
      BY <1>1, <1>6, <3>1, <3>2, RecursiveFunction, Zenon
  <2>2. /\ f = [i \in 0 .. n - 1 |-> f[i]] /\ f[0] = b /\ (\A i \in 0 + 1 .. n - 1 : f[i] = G[i][f[i - 1]])
        /\ \A i \in 0 .. n - 1 : f[i] \in V[i]
    BY <2>1, Zenon DEF Unrolls
  <2>3. ASSUME NEW i \in 0 .. n - 1, i # 0 PROVE f[i] = Predecessor(t, d, n - i, f[i - 1])
    <3>1. i \in 1 .. n - 1 /\ i \in 0 + 1 .. n - 1 /\ i - 1 \in 0 .. n - 1
      BY <1>1, <2>3
    <3>2. f[i - 1] \in Nodes(t, (n - i) + 1)
      <4>1. f[i - 1] \in V[i - 1]
        BY <2>2, <3>1, Zenon
      <4> QED
        BY <1>8, <3>1, <4>1
    <3> QED
      BY <1>4, <2>2, <3>1, <3>2, Zenon
  <2>4. \A i \in 0 .. n - 1 : f[i] = IF i = 0 THEN b ELSE Predecessor(t, d, n - i, f[i - 1])
    BY <2>2, <2>3, Zenon
  <2>5. f = [i \in 0 .. n - 1 |-> f[i]]
    BY <2>2
  <2>6. Table(f)
    BY <2>4, <2>5
  <2> QED
    BY <2>6
<1>10. Table(c)
  BY <1>7, <1>9, Zenon
<1>11. c[0] = b /\ \A i \in 1 .. n - 1 : c[i] = Predecessor(t, d, n - i, c[i - 1])
  BY <1>1, <1>3, <1>10
<1>12. \A i \in 0 .. n - 1 : c[i] \in Nodes(t, n - i)
  <2> DEFINE T == {i \in Int : c[i] \in V[i]}
  <2>1. 0 \in T
    BY <1>6, <1>11
  <2>2. ASSUME NEW i \in 1 .. n - 1, i - 1 \in T PROVE i \in T
    <3>1. c[i - 1] \in Nodes(t, (n - i) + 1)
      BY <1>8, <2>2
    <3>2. c[i] \in V[i]
      BY <1>5, <1>8, <1>11, <3>1
    <3> QED
      BY <3>2
  <2> HIDE DEF T
  <2>3. 0 .. n - 1 \subseteq T
    BY <1>1, <2>1, <2>2, RangeInd
  <2> QED
    BY <1>2, <2>3 DEF T
<1>14. \A k \in 1 .. n : n - k \in 0 .. n - 1 /\ n - (n - k) = k
  BY <1>1
<1>15. ASSUME NEW k \in 1 .. n PROVE q[k] = c[n - k] /\ q[k] \in Nodes(t, k)
  <2>1. q[k] = c[n - k]
    OBVIOUS
  <2>2. c[n - k] \in Nodes(t, n - (n - k))
    BY <1>12, <1>14, Zenon
  <2> QED
    BY <1>14, <2>1, <2>2
<1> HIDE DEF q
<1>16. q \in Paths(t)
  <2>1. q \in [1 .. n -> UNION {Nodes(t, k) : k \in 1 .. n}]
    BY <1>15 DEF q
  <2> QED
    BY <1>15, <2>1 DEF Paths, n
<1>17. q[n] = b
  <2>1. n \in 1 .. n /\ n - n = 0
    BY <1>1
  <2> QED
    BY <1>11, <1>15, <2>1
<1>18. Traced(t, q)
  <2> SUFFICES ASSUME NEW k \in 1 .. n - 1 PROVE q[k] = Predecessor(t, d, k, q[k + 1])
    BY DEF Traced, n, d
  <2>1. k \in 1 .. n /\ k + 1 \in 1 .. n /\ n - k \in 1 .. n - 1 /\ n - (k + 1) = (n - k) - 1 /\ n - (n - k) = k
    BY <1>1
  <2>2. q[k] = c[n - k] /\ q[k + 1] = c[n - (k + 1)]
    BY <1>15, <2>1, Zenon
  <2>3. c[n - k] = Predecessor(t, d, n - (n - k), c[(n - k) - 1])
    BY <1>11, <2>1, Zenon
  <2> QED
    BY <2>1, <2>2, <2>3, Zenon
<1> QED
  BY <1>16, <1>17, <1>18 DEF q, c, d, n

\* Backtrack is the path traced back from Best.
LEMMA BacktrackFacts ==
    ASSUME NEW t, Weighed(t)
    PROVE  LET r == Backtrack(t, ForwardPass(t))
               b == Best(t, ForwardPass(t))
           IN  /\ r.nodes \in Paths(t) /\ r.nodes[Layers(t)] = b[2] /\ r.cost = b[1] /\ Traced(t, r.nodes)
<1> DEFINE n == Layers(t)
           d == ForwardPass(t)
           b == Best(t, d)
           r == Backtrack(t, d)
           q == [k \in 1 .. n |-> Chosen(t, d, b[2])[n - k]]
<1>1. r = [nodes |-> q, cost |-> b[1]]
  BY Zenon DEF Backtrack, Chosen
<1>2. b[2] \in Nodes(t, n)
  BY BestFacts
<1>3. q \in Paths(t) /\ q[n] = b[2] /\ Traced(t, q)
  BY <1>2, ChosenFacts
<1> HIDE DEF q, b, d
<1>4. r.nodes = q /\ r.cost = b[1]
  BY <1>1
<1> QED
  BY <1>3, <1>4 DEF d, b

\* No path of finite cost is cheaper than the table says.
LEMMA TableIsALowerBound ==
    ASSUME NEW t, Weighed(t), NEW p \in Paths(t), NEW c, Costs(t, p, c)
    PROVE  \A k \in 1 .. Layers(t) : c[k] < InfW => ForwardPass(t)[k][p[k]] <= c[k]
<1> DEFINE n == Layers(t)
           d == ForwardPass(t)
           T == {k \in Int : c[k] < InfW => d[k][p[k]] <= c[k]}
<1>1. n \in Int /\ 1 <= n /\ 1 \in 1 .. n
  BY DEF Weighed
<1>2. 1 \in T
  <2>1. d[1][p[1]] = c[1] /\ c[1] \in Nat
    BY <1>1, ForwardFacts DEF Costs
  <2> QED
    BY <2>1
<1>3. ASSUME NEW k \in 2 .. n, k - 1 \in T PROVE k \in T
  <2> SUFFICES ASSUME c[k] < InfW PROVE d[k][p[k]] <= c[k]
    OBVIOUS
  <2> DEFINE e == t.edges[k - 1][p[k - 1]][p[k]]
             w == t.nodes[k][p[k]]
             x == Reached(t, d[k - 1], k, p[k])
  <2>1. k \in 1 .. n /\ k - 1 \in 1 .. n
    BY <1>1
  <2>2. c[k] = c[k - 1] + e + w /\ c[k] \in Nat /\ c[k - 1] \in Nat
    BY <2>1 DEF Costs
  <2>3. e \in Nat /\ w \in Nat /\ p[k] \in Nodes(t, k) /\ p[k - 1] \in Nodes(t, k - 1)
    BY <2>1, PathFacts
  <2>4. d[k - 1] \in [Nodes(t, k - 1) -> Nat] /\ d[k] = Extended(t, d[k - 1], k)
    BY <2>1, ForwardFacts
  <2> HIDE DEF d, n
  <2>5. d[k - 1][p[k - 1]] \in Nat
    BY <2>3, <2>4
  <2>6. c[k - 1] < InfW
    <3> HIDE DEF e, w
    <3> QED
      BY <2>2, <2>3, InfAssumption
  <2>7. d[k - 1][p[k - 1]] <= c[k - 1]
    BY <1>3, <2>6
  <2>8. d[k - 1][p[k - 1]] < InfW
    BY <2>2, <2>5, <2>6, <2>7, InfAssumption
  <2>9. x \in Nat /\ x <= d[k - 1][p[k - 1]] + e
    <3>1. k \in 2 .. Layers(t)
      BY DEF n
    <3> QED
      BY <2>3, <2>4, <2>8, <3>1, ReachedFacts
  <2>10. d[k][p[k]] = IF x < InfW THEN x + w ELSE x
    BY <2>3, <2>4 DEF Extended
  <2> HIDE DEF e, w, x
  <2>11. x < InfW
    BY <2>2, <2>3, <2>5, <2>7, <2>9, InfAssumption
  <2> QED
    BY <2>2, <2>3, <2>5, <2>7, <2>9, <2>10, <2>11
<1> HIDE DEF T, n, d
<1>4. 1 .. n \subseteq T
  BY <1>1, <1>2, <1>3, RangeInd
<1> QED
  BY <1>4 DEF T, n, d

\* A path traced back from a live node costs what the table says.
LEMMA TracedCost ==
    ASSUME NEW t, Weighed(t), NEW p \in Paths(t), Traced(t, p), ForwardPass(t)[Layers(t)][p[Layers(t)]] < InfW
    PROVE  PathCost(t, p) = ForwardPass(t)[Layers(t)][p[Layers(t)]]
<1> DEFINE n == Layers(t)
           d == ForwardPass(t)
           L == {k \in Int : d[k][p[k]] < InfW}
<1>1. n \in Int /\ 1 <= n /\ 1 \in 1 .. n /\ n \in 1 .. n
  BY DEF Weighed
<1>2. ASSUME NEW k \in 1 .. n - 1, d[k + 1][p[k + 1]] < InfW
      PROVE  /\ d[k][p[k]] < InfW
             /\ d[k + 1][p[k + 1]] = d[k][p[k]] + t.edges[k][p[k]][p[k + 1]] + t.nodes[k + 1][p[k + 1]]
  <2>1. k + 1 \in 1 .. n
    BY <1>1
  <2>2. p[k + 1] \in Nodes(t, k + 1)
    BY <2>1, PathFacts
  <2>3. p[k] = Predecessor(t, d, k, p[k + 1])
    BY DEF Traced
  <2> QED
    BY <1>2, <2>2, <2>3, PredecessorFacts
<1> HIDE DEF d, n
<1>3. \A k \in 1 .. n : d[k][p[k]] < InfW
  <2>1. n \in L
    BY <1>1 DEF d, n
  <2>2. \A k \in 1 .. n - 1 : k + 1 \in L => k \in L
    BY <1>2
  <2> HIDE DEF L
  <2>3. 1 .. n \subseteq L
    BY <1>1, <2>1, <2>2, RangeIndDown
  <2> QED
    BY <2>3 DEF L
<1>4. PICK c : Costs(t, p, c) /\ PathCost(t, p) = c[n]
  BY PathCostFacts DEF n
<1> DEFINE T == {k \in Int : c[k] = d[k][p[k]]}
<1>5. 1 \in T
  <2>1. d[1] = t.nodes[1]
    BY ForwardFacts DEF d
  <2> QED
    BY <1>4, <2>1 DEF Costs
<1>6. ASSUME NEW k \in 2 .. n, k - 1 \in T PROVE k \in T
  <2>1. k - 1 \in 1 .. n - 1 /\ (k - 1) + 1 = k /\ k \in 1 .. n /\ k \in Int
    BY <1>1
  <2>2. d[(k - 1) + 1][p[(k - 1) + 1]] < InfW
    BY <1>3, <2>1
  <2>3. d[(k - 1) + 1][p[(k - 1) + 1]]
          = d[k - 1][p[k - 1]] + t.edges[k - 1][p[k - 1]][p[(k - 1) + 1]] + t.nodes[(k - 1) + 1][p[(k - 1) + 1]]
    BY <1>2, <2>1, <2>2, Zenon
  <2>4. d[k][p[k]] = d[k - 1][p[k - 1]] + t.edges[k - 1][p[k - 1]][p[k]] + t.nodes[k][p[k]]
    BY <2>1, <2>3
  <2>5. c[k] = c[k - 1] + t.edges[k - 1][p[k - 1]][p[k]] + t.nodes[k][p[k]]
    BY <1>4 DEF Costs, n
  <2>6. c[k - 1] = d[k - 1][p[k - 1]]
    BY <1>6
  <2>7. c[k] = d[k][p[k]]
    BY <2>4, <2>5, <2>6, Zenon
  <2> QED
    BY <2>1, <2>7
<1> HIDE DEF T
<1>7. 1 .. n \subseteq T
  <2>1. \A k \in 1 + 1 .. n : k - 1 \in T => k \in T
    BY <1>6
  <2>2. 1 \in Int /\ n \in Int
    BY <1>1
  <2> QED
    BY <1>5, <2>1, <2>2, RangeInd
<1>8. c[n] = d[n][p[n]]
  BY <1>1, <1>7 DEF T
<1> QED
  BY <1>4, <1>8 DEF d, n

\* There is a path, and the cost of each is a number.
LEMMA CostsAreNumbers ==
    ASSUME NEW t, Weighed(t)
    PROVE  /\ \A p \in Paths(t) : PathCost(t, p) \in Nat
           /\ \E p \in Paths(t) : TRUE
<1>1. ASSUME NEW p \in Paths(t) PROVE PathCost(t, p) \in Nat
  <2>1. PICK c : Costs(t, p, c) /\ PathCost(t, p) = c[Layers(t)]
    BY PathCostFacts
  <2>2. Layers(t) \in 1 .. Layers(t)
    BY DEF Weighed
  <2> QED
    BY <2>1, <2>2 DEF Costs
<1>2. \E p \in Paths(t) : TRUE
  BY BacktrackFacts
<1> QED
  BY <1>1, <1>2

\* ViterbiSolver::solve against BruteForceSolver::solve, on any weighed
\* trellis: the solver fails exactly when every path costs infinity, and
\* otherwise returns a path of least cost, with its cost.
THEOREM SolverIsExact ==
    ASSUME NEW t, Weighed(t)
    PROVE  LET d == ForwardPass(t)
               r == Backtrack(t, d)
           IN  /\ Unreachable(t, d) => LeastCost(t) >= InfW
               /\ ~ Unreachable(t, d) => /\ r.nodes \in Paths(t) /\ PathCost(t, r.nodes) = r.cost
                                         /\ r.cost = LeastCost(t) /\ r.cost < InfW
<1> DEFINE n == Layers(t)
           d == ForwardPass(t)
           b == Best(t, d)
           r == Backtrack(t, d)
           C == {PathCost(t, p) : p \in Paths(t)}
<1>1. n \in 1 .. n
  BY DEF Weighed
<1>2. b[2] \in Nodes(t, n) /\ b[1] = d[n][b[2]] /\ b[1] \in Nat /\ \A j \in Nodes(t, n) : b[1] <= d[n][j]
  BY BestFacts
<1>3. C \subseteq Nat /\ C # {}
  BY CostsAreNumbers
<1>4. LeastCost(t) = Min(C)
  BY DEF LeastCost
<1>5. \A x \in C : \E p \in Paths(t) : x = PathCost(t, p)
  OBVIOUS
<1>6. \A p \in Paths(t) : PathCost(t, p) \in C
  OBVIOUS
<1> HIDE DEF C
<1>7. Min(C) \in C /\ (\A x \in C : Min(C) <= x) /\ Min(C) \in Nat
  BY <1>3, MinFacts
<1>8. ASSUME NEW p \in Paths(t), PathCost(t, p) < InfW PROVE b[1] <= PathCost(t, p)
  <2>1. PICK c : Costs(t, p, c) /\ PathCost(t, p) = c[n]
    BY PathCostFacts
  <2>2. d[n][p[n]] <= c[n]
    BY <1>1, <1>8, <2>1, TableIsALowerBound
  <2>3. p[n] \in Nodes(t, n) /\ c[n] \in Nat
    BY <1>1, <2>1, PathFacts DEF Costs
  <2>4. d[n][p[n]] \in Nat
    <3>1. d[n] \in [Nodes(t, n) -> Nat]
      BY <1>1, ForwardFacts
    <3> QED
      BY <2>3, <3>1
  <2>5. b[1] <= d[n][p[n]]
    BY <1>2, <2>3
  <2> HIDE DEF b, d
  <2> QED
    BY <1>2, <2>1, <2>2, <2>3, <2>4, <2>5
<1>9. PICK q \in Paths(t) : Min(C) = PathCost(t, q)
  BY <1>5, <1>7
<1>10. ASSUME Unreachable(t, d) PROVE LeastCost(t) >= InfW
  <2>1. b[1] >= InfW
    BY <1>10 DEF Unreachable
  <2> HIDE DEF b
  <2> QED
    BY <1>2, <1>4, <1>7, <1>8, <1>9, <2>1, InfAssumption
<1>11. ASSUME ~ Unreachable(t, d)
       PROVE  r.nodes \in Paths(t) /\ PathCost(t, r.nodes) = r.cost /\ r.cost = LeastCost(t) /\ r.cost < InfW
  <2>1. ~ (b[1] >= InfW)
    BY <1>11 DEF Unreachable
  <2>2. b[1] < InfW
    <3> HIDE DEF b
    <3> QED
      BY <1>2, <2>1, InfAssumption
  <2>3. r.nodes \in Paths(t) /\ r.nodes[n] = b[2] /\ r.cost = b[1] /\ Traced(t, r.nodes)
    BY BacktrackFacts
  <2>4. PathCost(t, r.nodes) = b[1]
    BY <1>2, <2>2, <2>3, TracedCost
  <2>5. Min(C) <= b[1]
    BY <1>6, <1>7, <2>3, <2>4
  <2>6. b[1] <= Min(C)
    <3> HIDE DEF b
    <3> QED
      BY <1>2, <1>7, <1>8, <1>9, <2>2, <2>5, InfAssumption
  <2> HIDE DEF b
  <2> QED
    BY <1>2, <1>4, <1>7, <2>2, <2>3, <2>4, <2>5, <2>6
<1> QED
  BY <1>10, <1>11

-----------------------------------------------------------------------------
(* The boundaries a failed solve reports.                                  *)

Present(t, p, j) == t.edges[j][p[j]][p[j + 1]] < InfW

\* The nodes of layer k + 1 that edges reach from a set S of layer k, or from
\* all of the layer if S is empty.
Onward(t, S, k) ==
    LET from == IF S = {} THEN Nodes(t, k) ELSE S
    IN {j \in Nodes(t, k + 1) : \E i \in from : t.edges[k][i][j] <= MaxWeight}

\* frontier_collapse goes onward layer by layer.
LEMMA CollapseFacts ==
    ASSUME NEW t, Weighed(t)
    PROVE  \E f : /\ f[0] = Nodes(t, 1) /\ \A k \in 1 .. Layers(t) - 1 : f[k] = Onward(t, f[k - 1], k)
                  /\ FrontierCollapse(t) = {k \in Boundaries(t) : f[k] = {}}
<1> DEFINE n == Layers(t)
           Table(x) == x = [k \in 0 .. n - 1 |-> IF k = 0 THEN Nodes(t, 1) ELSE Onward(t, x[k - 1], k)]
           V == [k \in 0 .. n - 1 |-> SUBSET Nodes(t, k + 1)]
           G == [k \in 1 .. n - 1 |-> [S \in SUBSET Nodes(t, k) |-> Onward(t, S, k)]]
           a == Nodes(t, 1)
           c == CHOOSE x : Table(x)
<1>1. n \in Int /\ 0 <= n - 1 /\ n - 1 \in Int /\ 0 \in 0 .. n - 1 /\ 0 + 1 = 1
  BY DEF Weighed
<1>2. \A k \in 0 .. n - 1 : V[k] = SUBSET Nodes(t, k + 1)
  OBVIOUS
<1>3. \A k \in 1 .. n - 1 : k - 1 \in 0 .. n - 1 /\ k \in 0 .. n - 1 /\ (k - 1) + 1 = k
  BY <1>1
<1>4. \A k \in 1 .. n - 1 : \A S \in SUBSET Nodes(t, k) : G[k][S] = Onward(t, S, k)
  OBVIOUS
<1>5. \A k \in 1 .. n - 1 : \A S : Onward(t, S, k) \in SUBSET Nodes(t, k + 1)
  BY DEF Onward
<1>6. a \in V[0]
  BY <1>1, <1>2
<1>7. FrontierCollapse(t) = {k \in Boundaries(t) : c[k] = {}}
  BY Zenon DEF FrontierCollapse, Onward
<1> HIDE DEF n, V, G, a, c
<1>8. \A k \in 1 .. n - 1 : V[k - 1] = SUBSET Nodes(t, k) /\ V[k] = SUBSET Nodes(t, k + 1)
  <2> SUFFICES ASSUME NEW k \in 1 .. n - 1 PROVE V[k - 1] = SUBSET Nodes(t, k) /\ V[k] = SUBSET Nodes(t, k + 1)
    OBVIOUS
  <2>1. k - 1 \in 0 .. n - 1 /\ k \in 0 .. n - 1 /\ (k - 1) + 1 = k
    BY <1>3
  <2>2. V[k - 1] = SUBSET Nodes(t, (k - 1) + 1) /\ V[k] = SUBSET Nodes(t, k + 1)
    BY <1>2, <2>1, Zenon
  <2> QED
    BY <2>1, <2>2, Zenon
<1>9. \E f : Table(f)
  <2>1. PICK f : Unrolls(f, a, G, V, 0, n - 1)
    <3>1. Leads(G, V, 0, n - 1)
      <4> SUFFICES ASSUME NEW k \in 0 + 1 .. n - 1, NEW S \in V[k - 1] PROVE G[k][S] \in V[k]
        BY DEF Leads
      <4>1. k \in 1 .. n - 1
        OBVIOUS
      <4>2. S \in SUBSET Nodes(t, k) /\ V[k] = SUBSET Nodes(t, k + 1)
        BY <1>8, <4>1, Zenon
      <4>3. G[k][S] = Onward(t, S, k) /\ Onward(t, S, k) \in SUBSET Nodes(t, k + 1)
        BY <1>4, <1>5, <4>1, <4>2, Zenon
      <4> QED
        BY <4>2, <4>3, Zenon
    <3>2. 0 \in Int
      OBVIOUS
    <3> QED
      BY <1>1, <1>6, <3>1, <3>2, RecursiveFunction, Zenon
  <2>2. /\ f = [k \in 0 .. n - 1 |-> f[k]] /\ f[0] = a /\ (\A k \in 0 + 1 .. n - 1 : f[k] = G[k][f[k - 1]])
        /\ \A k \in 0 .. n - 1 : f[k] \in V[k]
    BY <2>1, Zenon DEF Unrolls
  <2>3. ASSUME NEW k \in 0 .. n - 1, k # 0 PROVE f[k] = Onward(t, f[k - 1], k)
    <3>1. k \in 1 .. n - 1 /\ k \in 0 + 1 .. n - 1 /\ k - 1 \in 0 .. n - 1
      BY <1>1, <2>3
    <3>2. f[k - 1] \in SUBSET Nodes(t, k)
      <4>1. f[k - 1] \in V[k - 1] /\ V[k - 1] = SUBSET Nodes(t, k)
        BY <1>8, <2>2, <3>1, Zenon
      <4> QED
        BY <4>1, Zenon
    <3> QED
      BY <1>4, <2>2, <3>1, <3>2, Zenon
  <2>4. \A k \in 0 .. n - 1 : f[k] = IF k = 0 THEN Nodes(t, 1) ELSE Onward(t, f[k - 1], k)
    BY <2>2, <2>3, Zenon DEF a
  <2>5. f = [k \in 0 .. n - 1 |-> f[k]]
    BY <2>2
  <2>6. Table(f)
    BY <2>4, <2>5
  <2> QED
    BY <2>6
<1>10. Table(c)
  BY <1>9, Zenon DEF c
<1>11. c[0] = Nodes(t, 1) /\ \A k \in 1 .. n - 1 : c[k] = Onward(t, c[k - 1], k)
  BY <1>1, <1>3, <1>10
<1> QED
  BY <1>7, <1>11 DEF n

\* The last boundary reported before k, and the first one after it.
Since(reported, k) == Max({0} \cup {b \in reported : b < k}) + 1

\* CandidateGraph::frontier_collapse, on any weighed trellis: since the one
\* reported before it, no path crosses a reported boundary on edges that exist,
\* and nothing is reported exactly when edges lead all the way through.
THEOREM CollapseIsTruthful ==
    ASSUME NEW t, Weighed(t)
    PROVE  LET reported == FrontierCollapse(t) IN
           /\ \A k \in reported, p \in Paths(t) : \E j \in Since(reported, k) .. k : ~ Present(t, p, j)
           /\ reported = {} <=> \E p \in Paths(t) : \A j \in Boundaries(t) : Present(t, p, j)
<1> DEFINE n == Layers(t)
           reported == FrontierCollapse(t)
<1>0. n \in Nat /\ 1 <= n /\ n \in 1 .. n /\ 1 \in 1 .. n /\ Boundaries(t) = 1 .. n - 1
  BY DEF Weighed
<1>1. PICK f : /\ f[0] = Nodes(t, 1) /\ \A k \in 1 .. n - 1 : f[k] = Onward(t, f[k - 1], k)
               /\ reported = {k \in 1 .. n - 1 : f[k] = {}}
  BY <1>0, CollapseFacts
<1> HIDE DEF reported
<1>2. ASSUME NEW k \in 1 .. n - 1, NEW p \in Paths(t), Present(t, p, k),
             f[k - 1] = {} \/ p[k] \in f[k - 1]
      PROVE  p[k + 1] \in f[k]
  <2>1. k \in 1 .. n /\ k + 1 \in 1 .. n /\ k + 1 \in 2 .. n /\ (k + 1) - 1 = k
    BY <1>0
  <2>2. p[k] \in Nodes(t, k) /\ p[k + 1] \in Nodes(t, k + 1)
    BY <2>1, PathFacts
  <2>3. t.edges[k][p[k]][p[k + 1]] \in Nat
    <3>1. t.edges[(k + 1) - 1][p[(k + 1) - 1]][p[k + 1]] \in Nat
      BY <2>1, PathFacts, Zenon
    <3> QED
      BY <2>1, <3>1
  <2>4. t.edges[k][p[k]][p[k + 1]] <= MaxWeight
    BY <1>2, <2>3, InfAssumption DEF Present, MaxWeight
  <2>5. p[k + 1] \in Onward(t, f[k - 1], k)
    BY <1>2, <2>2, <2>4 DEF Onward
  <2> QED
    BY <1>1, <2>5
<1>3. ASSUME NEW k \in reported, NEW p \in Paths(t), \A j \in Since(reported, k) .. k : Present(t, p, j)
      PROVE  FALSE
  <2> DEFINE B == {0} \cup {b \in reported : b < k}
             s == Since(reported, k)
  <2>1. k \in 1 .. n - 1 /\ f[k] = {}
    BY <1>1
  <2>2. B \subseteq 0 .. n /\ B # {}
    BY <1>0, <1>1
  <2>3. \A b \in B : b = 0 \/ (b \in 1 .. n - 1 /\ f[b] = {} /\ b < k)
    BY <1>1
  <2> HIDE DEF B
  <2>4. Max(B) \in B
    BY <1>0, <2>2, MaxFacts
  <2>5. s = Max(B) + 1
    BY DEF Since, B
  <2> HIDE DEF s
  <2>6. s \in 1 .. k /\ s - 1 = Max(B) /\ s \in 1 .. n
    BY <1>0, <2>1, <2>3, <2>4, <2>5
  <2>7. \A j \in s .. k : j \in 1 .. n - 1 /\ Present(t, p, j)
    BY <1>0, <1>3, <2>1, <2>6 DEF s
  <2> DEFINE T == {j \in Int : p[j + 1] \in f[j]}
  <2>8. s \in T
    <3>1. f[s - 1] = {} \/ p[s] \in f[s - 1]
      <4>1. CASE Max(B) = 0
        <5>1. s = 1 /\ s - 1 = 0
          BY <2>5, <2>6, <4>1
        <5>2. p[1] \in Nodes(t, 1)
          BY <1>0, PathFacts
        <5> QED
          BY <1>1, <5>1, <5>2
      <4>2. CASE Max(B) # 0
        BY <2>3, <2>4, <2>6, <4>2
      <4> QED
        BY <4>1, <4>2
    <3>2. s \in s .. k
      BY <2>6
    <3>3. p[s + 1] \in f[s]
      BY <1>2, <2>7, <3>1, <3>2
    <3> QED
      BY <2>6, <3>3
  <2>9. ASSUME NEW j \in s + 1 .. k, j - 1 \in T PROVE j \in T
    <3>1. j \in s .. k /\ (j - 1) + 1 = j /\ j \in Int
      BY <2>6
    <3>2. p[j] \in f[j - 1]
      BY <2>9, <3>1
    <3>3. p[j + 1] \in f[j]
      BY <1>2, <2>7, <3>1, <3>2
    <3> QED
      BY <3>1, <3>3
  <2> HIDE DEF T
  <2>10. s .. k \subseteq T
    <3>1. s \in Int /\ k \in Int
      BY <2>1, <2>6
    <3> QED
      BY <2>8, <2>9, <3>1, RangeInd
  <2>11. k \in T
    <3>1. k \in s .. k
      BY <2>1, <2>6
    <3> QED
      BY <2>10, <3>1
  <2> QED
    BY <2>1, <2>11 DEF T
<1>4. ASSUME NEW p \in Paths(t), \A j \in 1 .. n - 1 : Present(t, p, j), NEW k \in reported PROVE FALSE
  <2> DEFINE B == {0} \cup {b \in reported : b < k}
  <2>1. B \subseteq 0 .. n /\ B # {}
    BY <1>0, <1>1
  <2> HIDE DEF B
  <2>2. Max(B) \in Nat
    <3>1. Max(B) \in B
      BY <1>0, <2>1, MaxFacts
    <3>2. Max(B) \in 0 .. n
      BY <2>1, <3>1
    <3> QED
      BY <3>2
  <2>3. k \in 1 .. n - 1
    BY <1>1
  <2>4. \A j \in Since(reported, k) .. k : j \in 1 .. n - 1
    <3>1. Since(reported, k) = Max(B) + 1
      BY DEF Since, B
    <3> QED
      BY <1>0, <2>2, <2>3, <3>1
  <2> QED
    BY <1>3, <1>4, <2>4
<1>5. ASSUME reported = {} PROVE \E p \in Paths(t) : \A j \in 1 .. n - 1 : Present(t, p, j)
  <2> DEFINE Leading(q, k) == /\ \A i \in 1 .. k + 1 : q[i] \in Nodes(t, i)
                              /\ \A i \in 1 .. k : Present(t, q, i)
             T == {k \in Int : \A j \in f[k] : \E q : q[k + 1] = j /\ Leading(q, k)}
  <2>1. 0 \in T
    <3> SUFFICES ASSUME NEW j \in f[0] PROVE \E q : q[0 + 1] = j /\ Leading(q, 0)
      OBVIOUS
    <3> DEFINE q == [i \in 1 .. 1 |-> j]
    <3>1. q[1] = j /\ 0 + 1 = 1 /\ j \in Nodes(t, 1) /\ (\A i \in 1 .. 1 : i = 1) /\ \A i \in 1 .. 0 : FALSE
      BY <1>1
    <3> HIDE DEF q
    <3>2. Leading(q, 0)
      BY <3>1
    <3> QED
      BY <3>1, <3>2
  <2>2. ASSUME NEW k \in 1 .. n - 1, k - 1 \in T PROVE k \in T
    <3> SUFFICES ASSUME NEW j \in f[k] PROVE \E q : q[k + 1] = j /\ Leading(q, k)
      OBVIOUS
    <3>1. k \in 1 .. n /\ k + 1 \in 1 .. n /\ (k - 1) + 1 = k /\ k - 1 \in 0 .. n - 1
      BY <1>0
    <3>2. f[k - 1] # {}
      <4>1. CASE k = 1
        <5>1. Nodes(t, 1) # {}
          BY <1>0 DEF Weighed
        <5>2. k - 1 = 0
          BY <4>1
        <5> QED
          BY <1>1, <5>1, <5>2
      <4>2. CASE k # 1
        <5>1. k - 1 \in 1 .. n - 1
          BY <1>0, <4>2
        <5> QED
          BY <1>1, <1>5, <5>1
      <4> QED
        BY <4>1, <4>2
    <3>3. PICK i \in f[k - 1] : j \in Nodes(t, k + 1) /\ t.edges[k][i][j] <= MaxWeight
      BY <1>1, <3>2 DEF Onward
    <3>4. PICK q : q[(k - 1) + 1] = i /\ Leading(q, k - 1)
      BY <2>2, <3>3
    <3> DEFINE g == [x \in 1 .. k + 1 |-> IF x = k + 1 THEN j ELSE q[x]]
    <3>5. g[k + 1] = j /\ g[k] = i /\ \A x \in 1 .. k : g[x] = q[x]
      BY <3>1, <3>4
    <3>6. \A x \in 1 .. k + 1 : x = k + 1 \/ x \in 1 .. k
      OBVIOUS
    <3>7. \A x \in 1 .. k : x = k \/ (x \in 1 .. k - 1 /\ x + 1 \in 1 .. k)
      OBVIOUS
    <3> HIDE DEF g
    <3>8. \A x \in 1 .. k : q[x] \in Nodes(t, x)
      BY <3>1, <3>4
    <3>9. i \in Nodes(t, k)
      <4>1. k \in 1 .. k
        OBVIOUS
      <4> QED
        BY <3>1, <3>4, <3>8, <4>1
    <3>10. ASSUME NEW x \in 1 .. k PROVE Present(t, g, x)
      <4>1. CASE x = k
        <5>1. t.edges[k][i][j] \in Nat
          BY <3>3, <3>9, Zenon DEF Weighed
        <5>2. t.edges[k][i][j] < InfW
          BY <3>3, <5>1, InfAssumption DEF MaxWeight
        <5> QED
          BY <3>5, <4>1, <5>2 DEF Present
      <4>2. CASE x # k
        <5>1. x \in 1 .. k - 1 /\ x + 1 \in 1 .. k
          BY <3>7, <4>2
        <5>2. Present(t, q, x)
          BY <3>4, <5>1
        <5>3. g[x] = q[x] /\ g[x + 1] = q[x + 1]
          BY <3>5, <5>1
        <5> QED
          BY <5>2, <5>3 DEF Present
      <4> QED
        BY <4>1, <4>2
    <3>11. \A x \in 1 .. k + 1 : g[x] \in Nodes(t, x)
      BY <3>3, <3>5, <3>6, <3>8
    <3> QED
      BY <3>5, <3>10, <3>11
  <2> HIDE DEF T
  <2>3. 0 .. n - 1 \subseteq T
    <3>1. \A k \in 0 + 1 .. n - 1 : k - 1 \in T => k \in T
      BY <2>2
    <3>2. 0 \in Int /\ n - 1 \in Int
      BY <1>0
    <3> HIDE DEF n
    <3> QED
      BY <2>1, <3>1, <3>2, RangeInd
  <2>4. f[n - 1] # {} /\ n - 1 \in 0 .. n - 1
    <3>1. CASE n = 1
      <4>1. n - 1 = 0 /\ Nodes(t, 1) # {}
        BY <1>0, <3>1 DEF Weighed
      <4> QED
        BY <1>0, <1>1, <4>1
    <3>2. CASE n # 1
      <4>1. n - 1 \in 1 .. n - 1
        BY <1>0, <3>2
      <4> QED
        BY <1>0, <1>1, <1>5, <4>1
    <3> QED
      BY <3>1, <3>2
  <2>5. PICK q : Leading(q, n - 1)
    BY <2>3, <2>4 DEF T
  <2>6. (n - 1) + 1 = n
    BY <1>0
  <2> DEFINE p == [i \in 1 .. n |-> q[i]]
  <2>7. \A i \in 1 .. n : p[i] = q[i] /\ p[i] \in Nodes(t, i)
    BY <2>5, <2>6
  <2>8. p \in Paths(t)
    BY <2>7 DEF Paths
  <2> HIDE DEF p
  <2>9. ASSUME NEW j \in 1 .. n - 1 PROVE Present(t, p, j)
    <3>1. j \in 1 .. n /\ j + 1 \in 1 .. n
      BY <1>0
    <3>2. Present(t, q, j)
      BY <2>5
    <3> QED
      BY <2>7, <3>1, <3>2 DEF Present
  <2> QED
    BY <2>8, <2>9
<1> QED
  BY <1>0, <1>3, <1>4, <1>5 DEF reported

-----------------------------------------------------------------------------
(* Convergence.                                                            *)

\* q is what is traced back from a live node of layer m.
LiveTrace(t, m, q) ==
    /\ \A k \in 1 .. m : q[k] \in Nodes(t, k)
    /\ \A k \in 1 .. m - 1 : q[k] = Predecessor(t, ForwardPass(t), k, q[k + 1])
    /\ ForwardPass(t)[m][q[m]] < InfW

\* Everything that is traced back from layer m begins with F.
Fused(t, m, F) ==
    /\ m \in 1 .. Layers(t) /\ Len(F) <= m
    /\ \A q : LiveTrace(t, m, q) => \A i \in 1 .. Len(F) : q[i] = F[i]

\* A trace passes live nodes only.
LEMMA TraceDown ==
    ASSUME NEW t, Weighed(t), NEW n \in 1 .. Layers(t), NEW m \in 1 .. n, NEW q, LiveTrace(t, n, q)
    PROVE  LiveTrace(t, m, q)
<1> DEFINE d == ForwardPass(t)
           L == {k \in Int : d[k][q[k]] < InfW}
<1>1. /\ n \in Int /\ m \in Int /\ m <= n /\ Layers(t) \in Int
      /\ \A k \in 1 .. m : k \in 1 .. n
      /\ \A k \in 1 .. m - 1 : k \in 1 .. n - 1
      /\ \A k \in m .. n - 1 : k \in 1 .. n - 1 /\ k \in 1 .. Layers(t) - 1 /\ k + 1 \in 1 .. n
  BY DEF Weighed
<1>2. n \in L
  BY <1>1 DEF LiveTrace
<1>3. ASSUME NEW k \in m .. n - 1, k + 1 \in L PROVE k \in L
  <2>1. q[k + 1] \in Nodes(t, k + 1) /\ q[k] = Predecessor(t, d, k, q[k + 1])
    BY <1>1 DEF LiveTrace
  <2>2. d[k + 1][q[k + 1]] < InfW
    BY <1>3
  <2>3. d[k][q[k]] < InfW
    BY <1>1, <2>1, <2>2, PredecessorFacts
  <2> QED
    BY <2>3
<1> HIDE DEF L, d
<1>4. m .. n \subseteq L
  BY <1>1, <1>2, <1>3, RangeIndDown
<1>5. m \in L
  BY <1>1, <1>4
<1> QED
  BY <1>1, <1>5 DEF LiveTrace, L, d

\* The frontier of Convergence at a layer is what the live traces have there.
LEMMA FrontierFacts ==
    ASSUME NEW t, Weighed(t)
    PROVE  LET n == Layers(t)
               d == ForwardPass(t)
           IN \E f :
                /\ Convergence(t, d) = LET fused == {i \in 0 .. n - 1 : Cardinality(f[i]) = 1}
                                       IN IF fused = {} THEN 0 ELSE n - Min(fused)
                /\ \A q : LiveTrace(t, n, q) => \A i \in 0 .. n - 1 : q[n - i] \in f[i]
                /\ \A i \in 0 .. n - 1 : \A x \in f[i] : \E q : LiveTrace(t, n, q) /\ q[n - i] = x
<1> DEFINE n == Layers(t)
           d == ForwardPass(t)
           a == {j \in Nodes(t, n) : d[n][j] < InfW}
           Table(x) == x = [i \in 0 .. n - 1 |-> IF i = 0 THEN {j \in Nodes(t, n) : d[n][j] < InfW}
                                                 ELSE {Predecessor(t, d, n - i, j) : j \in x[i - 1]}]
           V == [i \in 0 .. n - 1 |-> SUBSET Nodes(t, n - i)]
           G == [i \in 1 .. n - 1 |-> [S \in SUBSET Nodes(t, (n - i) + 1) |-> {Predecessor(t, d, n - i, j) : j \in S}]]
           f == CHOOSE x : Table(x)
<1>1. n \in Int /\ 0 <= n - 1 /\ n - 1 \in Int /\ 0 \in 0 .. n - 1 /\ n - 0 = n /\ n \in 1 .. n
  BY DEF Weighed
<1>2. \A i \in 0 .. n - 1 : V[i] = SUBSET Nodes(t, n - i)
  OBVIOUS
<1>3. \A i \in 1 .. n - 1 : /\ i - 1 \in 0 .. n - 1 /\ i \in 0 .. n - 1 /\ n - i \in 1 .. n - 1
                            /\ n - (i - 1) = (n - i) + 1
  BY <1>1
<1>4. \A i \in 1 .. n - 1 : \A S \in SUBSET Nodes(t, (n - i) + 1) : G[i][S] = {Predecessor(t, d, n - i, j) : j \in S}
  OBVIOUS
<1>5. \A i \in 1 .. n - 1 : \A j \in Nodes(t, (n - i) + 1) : Predecessor(t, d, n - i, j) \in Nodes(t, n - i)
  BY <1>3, PredecessorFacts
<1>6. a \in V[0]
  BY <1>1, <1>2
<1>7. Convergence(t, d) = LET fused == {i \in 0 .. n - 1 : Cardinality(f[i]) = 1}
                          IN IF fused = {} THEN 0 ELSE n - Min(fused)
  BY Zenon DEF Convergence
<1> HIDE DEF n, d, V, G, a, f
<1>8. \A i \in 1 .. n - 1 : V[i - 1] = SUBSET Nodes(t, (n - i) + 1) /\ V[i] = SUBSET Nodes(t, n - i)
  <2> SUFFICES ASSUME NEW i \in 1 .. n - 1
               PROVE  V[i - 1] = SUBSET Nodes(t, (n - i) + 1) /\ V[i] = SUBSET Nodes(t, n - i)
    OBVIOUS
  <2>1. i - 1 \in 0 .. n - 1 /\ i \in 0 .. n - 1 /\ n - (i - 1) = (n - i) + 1
    BY <1>3
  <2>2. V[i - 1] = SUBSET Nodes(t, n - (i - 1)) /\ V[i] = SUBSET Nodes(t, n - i)
    BY <1>2, <2>1, Zenon
  <2> QED
    BY <2>1, <2>2, Zenon
<1>9. \E g : Table(g)
  <2>1. PICK g : Unrolls(g, a, G, V, 0, n - 1)
    <3>1. Leads(G, V, 0, n - 1)
      <4> SUFFICES ASSUME NEW i \in 0 + 1 .. n - 1, NEW S \in V[i - 1] PROVE G[i][S] \in V[i]
        BY DEF Leads
      <4>1. i \in 1 .. n - 1
        OBVIOUS
      <4>2. S \in SUBSET Nodes(t, (n - i) + 1) /\ V[i] = SUBSET Nodes(t, n - i)
        BY <1>8, <4>1, Zenon
      <4>3. G[i][S] = {Predecessor(t, d, n - i, j) : j \in S}
        BY <1>4, <4>1, <4>2, Zenon
      <4>4. {Predecessor(t, d, n - i, j) : j \in S} \in SUBSET Nodes(t, n - i)
        BY <1>5, <4>1, <4>2
      <4> QED
        BY <4>2, <4>3, <4>4, Zenon
    <3>2. 0 \in Int
      OBVIOUS
    <3> QED
      BY <1>1, <1>6, <3>1, <3>2, RecursiveFunction, Zenon
  <2>2. /\ g = [i \in 0 .. n - 1 |-> g[i]] /\ g[0] = a /\ (\A i \in 0 + 1 .. n - 1 : g[i] = G[i][g[i - 1]])
        /\ \A i \in 0 .. n - 1 : g[i] \in V[i]
    BY <2>1, Zenon DEF Unrolls
  <2>3. ASSUME NEW i \in 0 .. n - 1, i # 0 PROVE g[i] = {Predecessor(t, d, n - i, j) : j \in g[i - 1]}
    <3>1. i \in 1 .. n - 1 /\ i \in 0 + 1 .. n - 1 /\ i - 1 \in 0 .. n - 1
      BY <1>1, <2>3
    <3>2. g[i - 1] \in SUBSET Nodes(t, (n - i) + 1)
      <4>1. g[i - 1] \in V[i - 1] /\ V[i - 1] = SUBSET Nodes(t, (n - i) + 1)
        BY <1>8, <2>2, <3>1, Zenon
      <4> QED
        BY <4>1, Zenon
    <3> QED
      BY <1>4, <2>2, <3>1, <3>2, Zenon
  <2>4. \A i \in 0 .. n - 1 : g[i] = IF i = 0 THEN {j \in Nodes(t, n) : d[n][j] < InfW}
                                     ELSE {Predecessor(t, d, n - i, j) : j \in g[i - 1]}
    BY <2>2, <2>3, Zenon DEF a
  <2>5. g = [i \in 0 .. n - 1 |-> g[i]]
    BY <2>2
  <2>6. Table(g)
    BY <2>4, <2>5
  <2> QED
    BY <2>6
<1>10. Table(f)
  BY <1>9, Zenon DEF f
<1>11. f[0] = {j \in Nodes(t, n) : d[n][j] < InfW}
       /\ \A i \in 1 .. n - 1 : f[i] = {Predecessor(t, d, n - i, j) : j \in f[i - 1]}
  <2>1. f = [i \in 0 .. n - 1 |-> IF i = 0 THEN {j \in Nodes(t, n) : d[n][j] < InfW}
                                  ELSE {Predecessor(t, d, n - i, j) : j \in f[i - 1]}]
    BY <1>10, Zenon
  <2>2. \A i \in 0 .. n - 1 : f[i] = IF i = 0 THEN {j \in Nodes(t, n) : d[n][j] < InfW}
                                     ELSE {Predecessor(t, d, n - i, j) : j \in f[i - 1]}
    BY <2>1, Zenon
  <2>3. f[0] = {j \in Nodes(t, n) : d[n][j] < InfW}
    BY <1>1, <2>2, Zenon
  <2>4. ASSUME NEW i \in 1 .. n - 1 PROVE f[i] = {Predecessor(t, d, n - i, j) : j \in f[i - 1]}
    <3>1. i \in 0 .. n - 1 /\ i # 0
      BY <1>1
    <3> QED
      BY <2>2, <3>1, Zenon
  <2> QED
    BY <2>3, <2>4, Zenon
<1>12. ASSUME NEW q, LiveTrace(t, n, q) PROVE \A i \in 0 .. n - 1 : q[n - i] \in f[i]
  <2> DEFINE T == {i \in Int : q[n - i] \in f[i]}
  <2>1. 0 \in T
    <3>1. q[n] \in Nodes(t, n) /\ d[n][q[n]] < InfW
      BY <1>1, <1>12 DEF LiveTrace, d
    <3> QED
      BY <1>1, <1>11, <3>1
  <2>2. ASSUME NEW i \in 0 + 1 .. n - 1, i - 1 \in T PROVE i \in T
    <3>1. i \in 1 .. n - 1 /\ n - i \in 1 .. n - 1 /\ n - (i - 1) = (n - i) + 1 /\ i \in Int
      BY <1>3
    <3>2. q[n - (i - 1)] \in f[i - 1]
      BY <2>2
    <3>3. q[n - i] = Predecessor(t, d, n - i, q[(n - i) + 1])
      BY <1>12, <3>1, Zenon DEF LiveTrace, d
    <3>4. q[(n - i) + 1] \in f[i - 1]
      BY <3>1, <3>2
    <3>5. q[n - i] \in f[i]
      BY <1>11, <3>1, <3>3, <3>4
    <3> QED
      BY <3>1, <3>5
  <2> HIDE DEF T
  <2>3. 0 .. n - 1 \subseteq T
    BY <1>1, <2>1, <2>2, RangeInd
  <2> QED
    BY <2>3 DEF T
<1>13. \A i \in 0 .. n - 1 : \A x \in f[i] : \E q : LiveTrace(t, n, q) /\ q[n - i] = x
  <2> DEFINE T == {i \in Int : \A x \in f[i] : \E q : LiveTrace(t, n, q) /\ q[n - i] = x}
  <2>1. 0 \in T
    <3> SUFFICES ASSUME NEW x \in f[0] PROVE \E q : LiveTrace(t, n, q) /\ q[n - 0] = x
      OBVIOUS
    <3>1. x \in Nodes(t, n) /\ d[n][x] < InfW
      BY <1>11
    <3> DEFINE q == [k \in 1 .. Layers(t) |-> Chosen(t, ForwardPass(t), x)[Layers(t) - k]]
    <3>2. q \in Paths(t) /\ q[Layers(t)] = x /\ Traced(t, q)
      BY <3>1, ChosenFacts DEF n
    <3> HIDE DEF q
    <3>3. \A k \in 1 .. n : q[k] \in Nodes(t, k)
      BY <3>2 DEF Paths, n
    <3>4. \A k \in 1 .. n - 1 : q[k] = Predecessor(t, ForwardPass(t), k, q[k + 1])
      BY <3>2, Zenon DEF Traced, n
    <3>5. ForwardPass(t)[n][q[n]] < InfW /\ q[n] = x
      BY <3>1, <3>2 DEF d, n
    <3>6. LiveTrace(t, n, q)
      BY <3>3, <3>4, <3>5, Zenon DEF LiveTrace
    <3> QED
      BY <1>1, <3>5, <3>6
  <2>2. ASSUME NEW i \in 0 + 1 .. n - 1, i - 1 \in T PROVE i \in T
    <3>0. i \in Int /\ i \in 1 .. n - 1 /\ n - i \in 1 .. n - 1 /\ n - (i - 1) = (n - i) + 1
      BY <1>3
    <3> SUFFICES ASSUME NEW x \in f[i] PROVE \E q : LiveTrace(t, n, q) /\ q[n - i] = x
      BY <3>0
    <3>1. PICK j \in f[i - 1] : x = Predecessor(t, d, n - i, j)
      BY <1>11, <3>0
    <3>2. PICK q : LiveTrace(t, n, q) /\ q[n - (i - 1)] = j
      BY <2>2
    <3>3. q[n - i] = Predecessor(t, d, n - i, q[(n - i) + 1])
      BY <3>0, <3>2, Zenon DEF LiveTrace, d
    <3> QED
      BY <3>0, <3>1, <3>2, <3>3
  <2> HIDE DEF T
  <2>3. 0 .. n - 1 \subseteq T
    BY <1>1, <2>1, <2>2, RangeInd
  <2> QED
    BY <2>3 DEF T
<1> QED
  BY <1>7, <1>12, <1>13 DEF n, d

\* Up to the convergence point all traces are one, and it is the last layer
\* where they are.
LEMMA ConvergenceFacts ==
    ASSUME NEW t, Weighed(t), \E q : LiveTrace(t, Layers(t), q)
    PROVE  LET n == Layers(t)
               c == Convergence(t, ForwardPass(t))
           IN  /\ c \in 0 .. n
               /\ \A q, r : (LiveTrace(t, n, q) /\ LiveTrace(t, n, r)) => \A i \in 1 .. c : q[i] = r[i]
               /\ \A l \in 1 .. n : \A x : (\A q : LiveTrace(t, n, q) => q[l] = x) => l <= c
<1> DEFINE n == Layers(t)
           c == Convergence(t, ForwardPass(t))
<1>1. n \in Nat /\ 1 <= n /\ n \in 1 .. n
  BY DEF Weighed
<1>2. PICK f : /\ c = LET fused == {i \in 0 .. n - 1 : Cardinality(f[i]) = 1}
                      IN IF fused = {} THEN 0 ELSE n - Min(fused)
               /\ \A q : LiveTrace(t, n, q) => \A i \in 0 .. n - 1 : q[n - i] \in f[i]
               /\ \A i \in 0 .. n - 1 : \A x \in f[i] : \E q : LiveTrace(t, n, q) /\ q[n - i] = x
  BY FrontierFacts
<1> DEFINE fused == {i \in 0 .. n - 1 : Cardinality(f[i]) = 1}
<1>3. c = IF fused = {} THEN 0 ELSE n - Min(fused)
  BY <1>2
<1>4. fused \subseteq Nat /\ fused \subseteq 0 .. n - 1
  OBVIOUS
<1>5. \A i \in 0 .. n - 1 : Cardinality(f[i]) = 1 <=> i \in fused
  OBVIOUS
<1> HIDE DEF fused, c, n
<1>6. fused # {} => Min(fused) \in fused /\ \A i \in fused : Min(fused) <= i
  BY <1>4, MinFacts
<1>7. c \in 0 .. n /\ (c # 0 => n - c \in fused)
  <2>1. CASE fused = {}
    BY <1>1, <1>3, <2>1
  <2>2. CASE fused # {}
    <3>1. Min(fused) \in 0 .. n - 1 /\ c = n - Min(fused)
      BY <1>3, <1>4, <1>6, <2>2
    <3>2. n - c = Min(fused) /\ c \in 0 .. n
      BY <1>1, <3>1
    <3> QED
      BY <1>6, <2>2, <3>2
  <2> QED
    BY <2>1, <2>2
<1>8. ASSUME NEW q, NEW r, LiveTrace(t, n, q), LiveTrace(t, n, r) PROVE \A i \in 1 .. c : q[i] = r[i]
  <2> SUFFICES ASSUME c # 0 PROVE \A i \in 1 .. c : q[i] = r[i]
    OBVIOUS
  <2>1. n - c \in 0 .. n - 1 /\ n - (n - c) = c /\ c \in 1 .. n
    BY <1>1, <1>7
  <2>2. q[c] = r[c]
    <3>1. IsFiniteSet(f[n - c])
      <4>1. f[n - c] \in SUBSET Nodes(t, c)
        <5> SUFFICES ASSUME NEW x \in f[n - c] PROVE x \in Nodes(t, c)
          OBVIOUS
        <5>1. PICK u : LiveTrace(t, n, u) /\ u[n - (n - c)] = x
          BY <1>2, <2>1, Zenon
        <5>2. u[c] \in Nodes(t, c)
          BY <2>1, <5>1 DEF LiveTrace
        <5> QED
          BY <2>1, <5>1, <5>2
      <4>2. IsFiniteSet(Nodes(t, c))
        BY <2>1 DEF Weighed, n
      <4> QED
        BY <4>1, <4>2, FS_Subset
    <3>2. Cardinality(f[n - c]) = 1
      BY <1>5, <1>7, <2>1
    <3>3. PICK x : f[n - c] = {x}
      BY <3>1, <3>2, FS_Singleton
    <3>4. q[n - (n - c)] \in f[n - c] /\ r[n - (n - c)] \in f[n - c]
      BY <1>2, <1>8, <2>1, Zenon
    <3> QED
      BY <2>1, <3>3, <3>4
  <2> DEFINE T == {i \in Int : q[i] = r[i]}
  <2>3. c \in T
    BY <2>1, <2>2
  <2>4. ASSUME NEW i \in 1 .. c - 1, i + 1 \in T PROVE i \in T
    <3>1. i \in 1 .. n - 1 /\ i \in Int
      BY <1>1, <2>1
    <3>2. q[i] = Predecessor(t, ForwardPass(t), i, q[i + 1]) /\ r[i] = Predecessor(t, ForwardPass(t), i, r[i + 1])
      BY <1>8, <3>1, Zenon DEF LiveTrace
    <3>3. q[i + 1] = r[i + 1]
      BY <2>4
    <3> QED
      BY <3>1, <3>2, <3>3
  <2> HIDE DEF T
  <2>5. 1 .. c \subseteq T
    <3>1. 1 \in Int /\ c \in Int
      BY <2>1
    <3> QED
      BY <2>3, <2>4, <3>1, RangeIndDown
  <2> QED
    BY <2>5 DEF T
<1>9. ASSUME NEW l \in 1 .. n, NEW x, \A q : LiveTrace(t, n, q) => q[l] = x PROVE l <= c
  <2>1. n - l \in 0 .. n - 1 /\ n - (n - l) = l
    BY <1>1
  <2>2. f[n - l] = {x}
    <3>1. PICK q : LiveTrace(t, n, q)
      BY DEF n
    <3>2. q[n - (n - l)] \in f[n - l] /\ q[l] = x
      BY <1>2, <1>9, <2>1, <3>1, Zenon
    <3>3. ASSUME NEW y \in f[n - l] PROVE y = x
      <4>1. PICK u : LiveTrace(t, n, u) /\ u[n - (n - l)] = y
        BY <1>2, <2>1, Zenon
      <4> QED
        BY <1>9, <2>1, <4>1
    <3> QED
      BY <2>1, <3>2, <3>3
  <2>3. n - l \in fused
    BY <1>5, <2>1, <2>2, FS_Singleton
  <2>4. fused # {} /\ Min(fused) <= n - l /\ Min(fused) \in 0 .. n - 1
    BY <1>4, <1>6, <2>3
  <2> QED
    BY <1>1, <1>3, <2>4
<1> QED
  BY <1>7, <1>8, <1>9 DEF n, c

\* t begins with the layers of s.
Extends(t, s) ==
    /\ Layers(s) <= Layers(t)
    /\ \A k \in 1 .. Layers(s) : t.nodes[k] = s.nodes[k]
    /\ \A k \in 1 .. Layers(s) - 1 : t.edges[k] = s.edges[k]

\* Layers that are appended do not change the table before them.
LEMMA SameTables ==
    ASSUME NEW t, NEW s, Weighed(t), Weighed(s), Extends(t, s)
    PROVE  \A k \in 1 .. Layers(s) : ForwardPass(t)[k] = ForwardPass(s)[k] /\ Nodes(t, k) = Nodes(s, k)
<1> DEFINE n == Layers(s)
           T == {k \in Int : ForwardPass(t)[k] = ForwardPass(s)[k]}
<1>1. n \in Int /\ 1 <= n /\ n <= Layers(t) /\ Layers(t) \in Int /\ 1 \in 1 .. n
  BY DEF Weighed, Extends
<1>2. \A k \in 1 .. n : Nodes(t, k) = Nodes(s, k) /\ t.nodes[k] = s.nodes[k]
  BY DEF Nodes, Extends
<1>3. 1 \in T
  BY <1>1, <1>2, ForwardFacts
<1>4. ASSUME NEW k \in 1 + 1 .. n, k - 1 \in T PROVE k \in T
  <2>1. k \in 2 .. n /\ k \in 2 .. Layers(t) /\ k \in 1 .. n /\ k - 1 \in 1 .. n /\ k - 1 \in 1 .. n - 1 /\ k \in Int
    BY <1>1
  <2>2. ForwardPass(t)[k] = Extended(t, ForwardPass(t)[k - 1], k)
    BY <2>1, ForwardFacts, Zenon
  <2>3. ForwardPass(s)[k] = Extended(s, ForwardPass(s)[k - 1], k)
    BY <2>1, ForwardFacts, Zenon
  <2>4. \A v : Extended(t, v, k) = Extended(s, v, k)
    <3>1. t.edges[k - 1] = s.edges[k - 1] /\ t.nodes[k] = s.nodes[k] /\ Nodes(t, k) = Nodes(s, k) /\ Nodes(t, k - 1) = Nodes(s, k - 1)
      BY <1>2, <2>1 DEF Extends
    <3> QED
      BY <3>1, Zenon DEF Extended, Reached
  <2>5. ForwardPass(t)[k - 1] = ForwardPass(s)[k - 1]
    BY <1>4
  <2> QED
    BY <2>1, <2>2, <2>3, <2>4, <2>5
<1> HIDE DEF T, n
<1>5. 1 .. n \subseteq T
  BY <1>1, <1>3, <1>4, RangeInd
<1> QED
  BY <1>2, <1>5 DEF T, n

\* Hence what is fused stays fused.
LEMMA FusedStays ==
    ASSUME NEW t, NEW s, Weighed(t), Weighed(s), Extends(t, s), NEW m, NEW F, Fused(s, m, F)
    PROVE  Fused(t, m, F)
<1>1. m \in 1 .. Layers(s) /\ m \in 1 .. Layers(t) /\ Layers(s) \in Int /\ Len(F) <= m
  BY DEF Fused, Extends, Weighed
<1>2. \A k \in 1 .. Layers(s) : ForwardPass(t)[k] = ForwardPass(s)[k] /\ Nodes(t, k) = Nodes(s, k)
  BY SameTables
<1>3. ASSUME NEW q, LiveTrace(t, m, q) PROVE LiveTrace(s, m, q)
  <2>1. /\ \A k \in 1 .. m : k \in 1 .. Layers(s)
        /\ \A k \in 1 .. m - 1 : k \in 1 .. Layers(s) /\ k \in 1 .. Layers(s) - 1
    BY <1>1
  <2>2. \A k \in 1 .. m : q[k] \in Nodes(s, k)
    BY <1>2, <1>3, <2>1 DEF LiveTrace
  <2>3. ForwardPass(s)[m][q[m]] < InfW
    BY <1>1, <1>2, <1>3 DEF LiveTrace
  <2>4. ASSUME NEW k \in 1 .. m - 1 PROVE q[k] = Predecessor(s, ForwardPass(s), k, q[k + 1])
    <3>1. q[k] = Predecessor(t, ForwardPass(t), k, q[k + 1])
      BY <1>3, Zenon DEF LiveTrace
    <3>2. t.edges[k] = s.edges[k] /\ ForwardPass(t)[k] = ForwardPass(s)[k] /\ Nodes(t, k) = Nodes(s, k)
      BY <1>2, <2>1, Zenon DEF Extends
    <3> QED
      BY <3>1, <3>2, Zenon DEF Predecessor
  <2> QED
    BY <2>2, <2>3, <2>4, Zenon DEF LiveTrace
<1> QED
  BY <1>1, <1>3 DEF Fused

-----------------------------------------------------------------------------
(* The trip.                                                               *)

\* The observations: each has emissions, and roads from the one before it.
WorldOK(w) ==
    /\ w \in Seq([emissions : Emissions, roads : Seq(Transitions)])
    /\ \A j \in 2 .. Len(w) : w[j].roads \in Matrices(Len(w[j - 1].emissions), Len(w[j].emissions))

\* A trip holds the latest observations, without a gap.
LayersOK(w, o) ==
    /\ o \in Seq(Nat) /\ Len(o) <= Len(w) /\ (Len(w) # 0 => Len(o) # 0)
    /\ \A k \in 1 .. Len(o) : o[k] = (Len(w) - Len(o)) + k

\* Candidates are stamped with their layer.
StampsOK(s, o) ==
    /\ s \in Seq(Nat) /\ Len(s) = Len(o)
    /\ \A k \in 1 .. Len(o) : s[k] = k

\* The trellis of the observations o.
Made(w, o) ==
    [nodes |-> [k \in DOMAIN o |-> w[o[k]].emissions],
     edges |-> [k \in 1 .. Len(o) - 1 |-> w[o[k + 1]].roads]]

IsMade(t, w, o) == t = Made(w, o)

\* An observation e that the roads r lead to follows those of w.
Follows(v, w, e, r) ==
    /\ r \in IF w = <<>> THEN {Pending} ELSE Matrices(Len(Last(w).emissions), Len(e))
    /\ v = Append(w, [emissions |-> e, roads |-> r])

\* The world v has one more observation than w, and p one more layer than o.
LongerWorld(v, w) ==
    /\ Len(w) \in Nat /\ Len(v) = Len(w) + 1
    /\ \A j \in 1 .. Len(w) : v[j] = w[j]

Longer(p, o, w) == p = Append(o, Len(w) + 1)

LongerTrip(p, o, w) ==
    /\ Len(o) \in Nat /\ Len(p) = Len(o) + 1
    /\ \A k \in 1 .. Len(o) : p[k] = o[k] /\ p[k] \in 1 .. Len(w)
    /\ p[Len(o) + 1] = Len(w) + 1

\* The trellis of a trip is that of its observations, with boundaries pending.
TrellisOK(t, w, o) ==
    /\ t = [nodes |-> t.nodes, edges |-> t.edges]
    /\ t.nodes \in Seq(Emissions) /\ Len(t.nodes) = Len(o)
    /\ t.edges \in Seq(Seq(Transitions))
    /\ Len(t.edges) = IF Len(o) = 0 THEN 0 ELSE Len(o) - 1
    /\ \A k \in 1 .. Len(o) : t.nodes[k] = w[o[k]].emissions
    /\ \A k \in 1 .. Len(o) - 1 : t.edges[k] = Pending \/ t.edges[k] = w[o[k + 1]].roads

\* What is promised is fused in the trellis of the observations.
Promised(F, w, o) ==
    /\ F \in Seq(Nat)
    /\ F # <<>> => Len(o) # 0 /\ \E m : Fused(Made(w, o), m, F)

\* The inductive invariant.
TripInv ==
    /\ WorldOK(world) /\ LayersOK(world, origins) /\ StampsOK(stamps, origins)
    /\ TrellisOK(trellis, world, origins)
    /\ state \in {"Empty", "Building", "Solved"} /\ (state = "Empty" <=> Len(origins) = 0)
    /\ Promised(final, world, origins)

-----------------------------------------------------------------------------
(* The trellis of the observations.                                        *)

\* A layer has candidates, numbered from 1, whose weights are numbers.
LEMMA EmissionFacts ==
    ASSUME NEW e \in Emissions
    PROVE  /\ e \in Seq(0 .. MaxWeight) /\ Len(e) \in Nat \ {0} /\ DOMAIN e = 1 .. Len(e)
           /\ DOMAIN e \subseteq Nat /\ DOMAIN e # {} /\ IsFiniteSet(DOMAIN e) /\ e \in [DOMAIN e -> Nat]
<1>1. e \in Seq(0 .. MaxWeight) /\ e # <<>>
  BY TripAssumption
<1>2. Len(e) \in Nat /\ DOMAIN e = 1 .. Len(e) /\ Len(e) # 0
  BY <1>1
<1>3. IsFiniteSet(1 .. Len(e))
  BY <1>2, FS_Interval
<1>4. \A i \in 1 .. Len(e) : e[i] \in 0 .. MaxWeight
  BY <1>1, ElementIsIn, Zenon
<1>5. \A i \in 1 .. Len(e) : e[i] \in Nat
  BY <1>4, InfAssumption DEF MaxWeight
<1>6. e = [i \in 1 .. Len(e) |-> e[i]]
  BY <1>1
<1>7. e \in [DOMAIN e -> Nat]
  BY <1>2, <1>5, <1>6
<1>8. 1 \in DOMAIN e
  BY <1>2
<1> QED
  BY <1>1, <1>2, <1>3, <1>7, <1>8

\* A matrix has a weight for every pair of candidates.
LEMMA MatrixFacts ==
    ASSUME NEW from \in Nat, NEW to \in Nat, NEW r \in Matrices(from, to)
    PROVE  /\ DOMAIN r = 1 .. from /\ r \in Seq(Transitions)
           /\ \A i \in 1 .. from : DOMAIN r[i] = 1 .. to /\ \A j \in 1 .. to : r[i][j] \in Nat
<1>1. DOMAIN r = 1 .. from /\ r \in [1 .. from -> Transitions] /\ \A i \in 1 .. from : r[i] \in Transitions /\ Len(r[i]) = to
  BY DEF Matrices
<1>2. r \in Seq(Transitions)
  BY <1>1
<1>3. ASSUME NEW i \in 1 .. from PROVE DOMAIN r[i] = 1 .. to /\ \A j \in 1 .. to : r[i][j] \in Nat
  <2>1. r[i] \in Seq(0 .. InfW) /\ Len(r[i]) = to
    BY <1>1, TripAssumption
  <2>2. DOMAIN r[i] = 1 .. to
    BY <2>1
  <2>3. \A j \in 1 .. to : r[i][j] \in 0 .. InfW
    BY <2>1, ElementIsIn, Zenon
  <2> QED
    BY <2>2, <2>3, InfAssumption
<1> QED
  BY <1>1, <1>2, <1>3

MadeWell(t, w, o) ==
    /\ Weighed(t) /\ Layers(t) = Len(o) /\ Boundaries(t) = 1 .. Len(o) - 1
    /\ \A k \in 1 .. Len(o) : t.nodes[k] = w[o[k]].emissions /\ t.nodes[k] \in Emissions
    /\ \A k \in 1 .. Len(o) - 1 :
          /\ t.edges[k] = w[o[k + 1]].roads /\ t.edges[k] # Pending /\ t.edges[k] \in Seq(Transitions)
          /\ DOMAIN t.edges[k] = Nodes(t, k)
          /\ \A i \in Nodes(t, k) : DOMAIN t.edges[k][i] = Nodes(t, k + 1)

\* Everything the observations make is weighed, whatever is still pending in
\* the trip itself.
LEMMA MadeFacts ==
    ASSUME NEW w, NEW o, WorldOK(w), LayersOK(w, o), Len(o) # 0, NEW t, IsMade(t, w, o)
    PROVE  MadeWell(t, w, o)
<1> DEFINE n == Len(o)
<1>1. n \in Nat /\ 1 <= n /\ DOMAIN o = 1 .. n /\ Len(w) \in Nat
  BY DEF LayersOK, WorldOK
<1>2. \A k \in 1 .. n : o[k] \in 1 .. Len(w)
  BY <1>1 DEF LayersOK
<1>3. /\ t.nodes = [k \in 1 .. n |-> w[o[k]].emissions]
      /\ t.edges = [k \in 1 .. n - 1 |-> w[o[k + 1]].roads]
  BY <1>1 DEF Made, IsMade
<1>4. \A k \in 1 .. n : t.nodes[k] = w[o[k]].emissions /\ t.nodes[k] \in Emissions
  <2>1. \A j \in 1 .. Len(w) : w[j] \in [emissions : Emissions, roads : Seq(Transitions)]
    BY ElementIsIn, Zenon DEF WorldOK
  <2>2. \A j \in 1 .. Len(w) : w[j].emissions \in Emissions
    BY <2>1
  <2>3. \A k \in 1 .. n : t.nodes[k] = w[o[k]].emissions
    BY <1>3
  <2> QED
    BY <1>2, <2>2, <2>3
<1>5. t.nodes \in Seq(Emissions) /\ Len(t.nodes) = n
  <2>1. t.nodes \in [1 .. n -> Emissions]
    BY <1>3, <1>4
  <2> QED
    BY <1>1, <1>3, <2>1
<1>6. Layers(t) = n /\ Boundaries(t) = 1 .. n - 1
  BY <1>3, <1>5 DEF Layers, Boundaries
<1>7. \A k \in 1 .. n : /\ Nodes(t, k) = 1 .. Len(t.nodes[k]) /\ Len(t.nodes[k]) \in Nat \ {0}
                        /\ Nodes(t, k) \subseteq Nat /\ Nodes(t, k) # {} /\ IsFiniteSet(Nodes(t, k))
                        /\ t.nodes[k] \in [Nodes(t, k) -> Nat]
  BY <1>4, EmissionFacts DEF Nodes
<1>8. ASSUME NEW k \in 1 .. n - 1
      PROVE  /\ t.edges[k] = w[o[k + 1]].roads /\ t.edges[k] # Pending /\ t.edges[k] \in Seq(Transitions)
             /\ DOMAIN t.edges[k] = Nodes(t, k)
             /\ \A i \in Nodes(t, k) : DOMAIN t.edges[k][i] = Nodes(t, k + 1)
             /\ \A i \in Nodes(t, k), j \in Nodes(t, k + 1) : t.edges[k][i][j] \in Nat
  <2>1. k \in 1 .. n /\ k + 1 \in 1 .. n
    BY <1>1
  <2>2. o[k + 1] \in 2 .. Len(w) /\ o[k + 1] - 1 = o[k]
    BY <1>1, <2>1 DEF LayersOK
  <2>3. w[o[k + 1]].roads \in Matrices(Len(w[o[k]].emissions), Len(w[o[k + 1]].emissions))
    BY <2>2 DEF WorldOK
  <2>4. t.edges[k] = w[o[k + 1]].roads /\ t.edges[k] \in Matrices(Len(t.nodes[k]), Len(t.nodes[k + 1]))
    BY <1>3, <1>4, <2>1, <2>3
  <2>5. /\ DOMAIN t.edges[k] = Nodes(t, k) /\ t.edges[k] \in Seq(Transitions)
        /\ \A i \in Nodes(t, k) : DOMAIN t.edges[k][i] = Nodes(t, k + 1) /\ \A j \in Nodes(t, k + 1) : t.edges[k][i][j] \in Nat
    <3>1. /\ Nodes(t, k) = 1 .. Len(t.nodes[k]) /\ Len(t.nodes[k]) \in Nat
          /\ Nodes(t, k + 1) = 1 .. Len(t.nodes[k + 1]) /\ Len(t.nodes[k + 1]) \in Nat
      BY <1>7, <2>1
    <3>2. /\ DOMAIN t.edges[k] = 1 .. Len(t.nodes[k]) /\ t.edges[k] \in Seq(Transitions)
          /\ \A i \in 1 .. Len(t.nodes[k]) : /\ DOMAIN t.edges[k][i] = 1 .. Len(t.nodes[k + 1])
                                             /\ \A j \in 1 .. Len(t.nodes[k + 1]) : t.edges[k][i][j] \in Nat
      BY <2>4, <3>1, MatrixFacts, Zenon
    <3> QED
      BY <3>1, <3>2, Zenon
  <2>6. t.edges[k] # Pending
    <3>1. DOMAIN t.edges[k] # {}
      BY <1>7, <2>1, <2>5, Zenon
    <3> QED
      BY <3>1 DEF Pending
  <2> QED
    BY <2>4, <2>5, <2>6
<1>9. Weighed(t)
  <2>1. Layers(t) \in Nat \ {0}
    BY <1>1, <1>6
  <2> QED
    BY <1>6, <1>7, <1>8, <2>1, Zenon DEF Weighed
<1> QED
  BY <1>4, <1>6, <1>8, <1>9, Zenon DEF MadeWell

-----------------------------------------------------------------------------
(* Boundaries without edges.                                               *)

\* A path over a missing edge costs infinity.
LEMMA AbsentCosts ==
    ASSUME NEW t, Weighed(t), NEW p \in Paths(t), NEW k \in 1 .. Layers(t) - 1, t.edges[k][p[k]][p[k + 1]] >= InfW
    PROVE  PathCost(t, p) >= InfW
<1> DEFINE n == Layers(t)
<1>1. PICK c : Costs(t, p, c) /\ PathCost(t, p) = c[n]
  BY PathCostFacts
<1>2. n \in Int /\ k + 1 \in 2 .. n /\ (k + 1) - 1 = k /\ k \in 1 .. n /\ k + 1 \in 1 .. n /\ k + 1 <= n /\ k + 1 \in Int /\ n \in k + 1 .. n
  BY DEF Weighed
<1>3. /\ \A j \in 2 .. n : c[j] = c[j - 1] + t.edges[j - 1][p[j - 1]][p[j]] + t.nodes[j][p[j]]
      /\ \A j \in 1 .. n : c[j] \in Nat
  BY <1>1, Zenon DEF Costs
<1>4. /\ \A j \in 1 .. n : t.nodes[j][p[j]] \in Nat
      /\ \A j \in 2 .. n : t.edges[j - 1][p[j - 1]][p[j]] \in Nat /\ j - 1 \in 1 .. n
  BY PathFacts, Zenon
<1> HIDE DEF n
<1>5. ASSUME NEW j \in 2 .. n
      PROVE  c[j] >= c[j - 1] /\ c[j] >= t.edges[j - 1][p[j - 1]][p[j]]
  <2>1. j \in 1 .. n
    BY <1>2
  <2>2. c[j] = c[j - 1] + t.edges[j - 1][p[j - 1]][p[j]] + t.nodes[j][p[j]]
    BY <1>3, Zenon
  <2>3. c[j - 1] \in Nat /\ c[j] \in Nat /\ t.edges[j - 1][p[j - 1]][p[j]] \in Nat /\ t.nodes[j][p[j]] \in Nat
    BY <1>3, <1>4, <2>1, Zenon
  <2> HIDE DEF n
  <2> QED
    BY <2>2, <2>3
<1> DEFINE T == {j \in Int : c[j] >= InfW}
<1>6. k + 1 \in T
  <2>1. c[k + 1] >= t.edges[(k + 1) - 1][p[(k + 1) - 1]][p[k + 1]]
    BY <1>2, <1>5, Zenon
  <2>2. c[k + 1] >= t.edges[k][p[k]][p[k + 1]]
    BY <1>2, <2>1
  <2>3. t.edges[k][p[k]][p[k + 1]] \in Nat /\ c[k + 1] \in Nat
    <3>1. t.edges[(k + 1) - 1][p[(k + 1) - 1]][p[k + 1]] \in Nat
      BY <1>2, <1>4, Zenon
    <3> QED
      BY <1>2, <1>3, <3>1
  <2> QED
    BY <1>2, <2>2, <2>3, InfAssumption
<1>7. ASSUME NEW j \in (k + 1) + 1 .. n, j - 1 \in T PROVE j \in T
  <2>1. j \in 2 .. n /\ j \in 1 .. n /\ j - 1 \in 1 .. n /\ j \in Int
    BY <1>2
  <2>2. c[j] >= c[j - 1] /\ c[j] \in Nat /\ c[j - 1] \in Nat
    BY <1>3, <1>5, <2>1, Zenon
  <2> QED
    BY <1>7, <2>1, <2>2, InfAssumption
<1> HIDE DEF T
<1>8. k + 1 .. n \subseteq T
  BY <1>2, <1>6, <1>7, RangeInd
<1>9. n \in T
  BY <1>2, <1>8
<1> QED
  BY <1>1, <1>9 DEF T

\* Boundaries without edges explain that every path costs infinity.
LEMMA GapsExplain ==
    ASSUME NEW t, Weighed(t), NEW gaps, gaps \subseteq 1 .. Layers(t) - 1, gaps # {},
           \A k \in gaps : \A i \in Nodes(t, k), j \in Nodes(t, k + 1) : t.edges[k][i][j] >= InfW
    PROVE  /\ LeastCost(t) >= InfW
           /\ \A k \in gaps, p \in Paths(t) : \E j \in Since(gaps, k) .. k : ~ Present(t, p, j)
           /\ ~ \E p \in Paths(t) : \A j \in Boundaries(t) : Present(t, p, j)
<1> DEFINE n == Layers(t)
<1>1. n \in Nat /\ Boundaries(t) = 1 .. n - 1
  BY DEF Weighed
<1>2. ASSUME NEW k \in gaps, NEW p \in Paths(t)
      PROVE  t.edges[k][p[k]][p[k + 1]] >= InfW /\ ~ Present(t, p, k) /\ k \in 1 .. n - 1
  <2>1. k \in 1 .. n - 1 /\ k \in 1 .. n /\ k + 1 \in 1 .. n /\ k + 1 \in 2 .. n /\ (k + 1) - 1 = k
    BY <1>1
  <2>2. p[k] \in Nodes(t, k) /\ p[k + 1] \in Nodes(t, k + 1)
    BY <2>1, PathFacts, Zenon
  <2>3. t.edges[k][p[k]][p[k + 1]] >= InfW
    BY <2>1, <2>2
  <2>4. t.edges[k][p[k]][p[k + 1]] \in Nat
    <3>1. t.edges[(k + 1) - 1][p[(k + 1) - 1]][p[k + 1]] \in Nat
      BY <2>1, PathFacts, Zenon
    <3> QED
      BY <2>1, <3>1
  <2> QED
    BY <2>1, <2>3, <2>4, InfAssumption DEF Present
<1>3. LeastCost(t) >= InfW
  <2> DEFINE C == {PathCost(t, p) : p \in Paths(t)}
  <2>1. C \subseteq Nat /\ C # {}
    BY CostsAreNumbers
  <2>2. \A x \in C : x >= InfW
    <3> SUFFICES ASSUME NEW p \in Paths(t) PROVE PathCost(t, p) >= InfW
      OBVIOUS
    <3>1. PICK k : k \in gaps
      OBVIOUS
    <3> QED
      BY <1>2, <3>1, AbsentCosts
  <2> HIDE DEF C
  <2>3. Min(C) \in C
    BY <2>1, MinFacts
  <2>4. LeastCost(t) = Min(C)
    BY DEF LeastCost, C
  <2> QED
    BY <2>2, <2>3, <2>4
<1>4. ASSUME NEW k \in gaps, NEW p \in Paths(t) PROVE \E j \in Since(gaps, k) .. k : ~ Present(t, p, j)
  <2> DEFINE B == {0} \cup {b \in gaps : b < k}
  <2>1. k \in 1 .. n - 1 /\ ~ Present(t, p, k)
    BY <1>2
  <2>2. \A b \in gaps : b \in 1 .. n - 1
    OBVIOUS
  <2> HIDE DEF n
  <2>3. B \subseteq 0 .. n /\ B # {} /\ \A b \in B : b < k
    <3>1. ASSUME NEW b \in B PROVE b \in 0 .. n /\ b < k
      <4>1. b = 0 \/ (b \in gaps /\ b < k)
        OBVIOUS
      <4>2. b = 0 \/ (b \in 1 .. n - 1 /\ b < k)
        BY <2>2, <4>1, Zenon
      <4> HIDE DEF B
      <4> QED
        BY <1>1, <2>1, <4>2
    <3>2. 0 \in B
      OBVIOUS
    <3> HIDE DEF B
    <3> QED
      BY <3>1, <3>2
  <2>4. Since(gaps, k) = Max(B) + 1
    BY DEF Since
  <2> HIDE DEF B
  <2>5. Max(B) \in B
    BY <1>1, <2>3, MaxFacts
  <2>6. k \in Since(gaps, k) .. k
    <3>1. Max(B) \in 0 .. n /\ Max(B) < k
      BY <2>3, <2>5, Zenon
    <3>2. \A m \in 0 .. n : m < k => k \in m + 1 .. k
      BY <1>1, <2>1
    <3> QED
      BY <2>4, <3>1, <3>2, Zenon
  <2> QED
    BY <2>1, <2>6
<1>5. ~ \E p \in Paths(t) : \A j \in Boundaries(t) : Present(t, p, j)
  BY <1>1, <1>2
<1> QED
  BY <1>3, <1>4, <1>5, Zenon

-----------------------------------------------------------------------------
(* Weighing a trip.                                                        *)

IsWeigh(x) == x = Weigh

\* Weighing restores the trellis of the observations, but for the boundaries
\* nothing bridges.
LEMMA WeighFacts ==
    ASSUME TripInv, Len(origins) # 0, NEW t, IsMade(t, world, origins), NEW x, IsWeigh(x)
    PROVE  /\ x = [nodes |-> x.nodes, edges |-> x.edges]
           /\ x.nodes = trellis.nodes /\ x.nodes = t.nodes
           /\ x.edges \in Seq(Seq(Transitions)) /\ Len(x.edges) = Len(origins) - 1
           /\ Boundaries(x) = 1 .. Len(origins) - 1
           /\ \A k \in 1 .. Len(origins) - 1 : x.edges[k] = t.edges[k] \/ (x.edges[k] = Pending /\ NoEdges(t.edges[k]))
           /\ Disconnections(x) = {} => x = t
<1> DEFINE n == Len(origins)
<1>0. /\ WorldOK(world) /\ LayersOK(world, origins) /\ StampsOK(stamps, origins) /\ TrellisOK(trellis, world, origins)
  BY DEF TripInv
<1>1. /\ Weighed(t) /\ Layers(t) = n /\ Boundaries(t) = 1 .. n - 1
      /\ \A k \in 1 .. n : t.nodes[k] = world[origins[k]].emissions /\ t.nodes[k] \in Emissions
      /\ \A k \in 1 .. n - 1 : t.edges[k] = world[origins[k + 1]].roads /\ t.edges[k] # Pending /\ t.edges[k] \in Seq(Transitions)
  <2>1. MadeWell(t, world, origins)
    BY <1>0, MadeFacts, Zenon
  <2> QED
    BY <2>1 DEF MadeWell
<1>2. n \in Nat /\ 1 <= n /\ n - 1 \in Nat /\ DOMAIN origins = 1 .. n
  BY <1>0 DEF LayersOK
<1>3. ASSUME NEW k \in 1 .. n - 1 PROVE WeighBoundary(k) = t.edges[k]
  <2>1. k \in 1 .. n /\ k + 1 \in 1 .. n
    BY <1>2
  <2>2. stamps[k] = k /\ stamps[k + 1] = k + 1
    BY <1>0, <2>1 DEF StampsOK
  <2>3. origins[k + 1] = origins[k] + 1
    <3>1. Len(world) \in Nat
      BY <1>0 DEF WorldOK
    <3> QED
      BY <1>0, <1>2, <2>1, <3>1 DEF LayersOK
  <2>4. WeighBoundary(k) = world[origins[k + 1]].roads
    BY <1>2, <2>1, <2>2, <2>3 DEF WeighBoundary
  <2> QED
    BY <1>1, <2>4, Zenon
<1> DEFINE E == [k \in 1 .. n - 1 |-> IF trellis.edges[k] # Pending THEN trellis.edges[k]
                                      ELSE IF NoEdges(WeighBoundary(k)) THEN Pending ELSE WeighBoundary(k)]
<1>4. x = [nodes |-> trellis.nodes, edges |-> E]
  <2>1. DOMAIN trellis.edges = 1 .. n - 1
    <3>1. trellis.edges \in Seq(Seq(Transitions)) /\ Len(trellis.edges) = n - 1
      BY <1>0, <1>2 DEF TrellisOK
    <3> QED
      BY <3>1
  <2>2. trellis = [nodes |-> trellis.nodes, edges |-> trellis.edges]
    BY <1>0 DEF TrellisOK
  <2>3. x = [trellis EXCEPT !.edges = E]
    BY <2>1, Zenon DEF Weigh, IsWeigh
  <2> HIDE DEF E
  <2> QED
    BY <2>2, <2>3
<1>5. \A k \in 1 .. n - 1 : trellis.edges[k] = Pending \/ trellis.edges[k] = t.edges[k]
  BY <1>0, <1>1 DEF TrellisOK
<1>6. \A k \in 1 .. n - 1 : E[k] = t.edges[k] \/ (E[k] = Pending /\ NoEdges(t.edges[k]))
  BY <1>3, <1>5, Zenon
<1>7. E = [k \in 1 .. n - 1 |-> E[k]]
  OBVIOUS
<1> HIDE DEF E
<1>8. x.nodes = trellis.nodes /\ x.edges = E
  BY <1>4
<1>9. x.edges \in Seq(Seq(Transitions)) /\ Len(x.edges) = n - 1
  <2>1. Pending \in Seq(Transitions)
    BY DEF Pending
  <2>2. \A k \in 1 .. n - 1 : E[k] \in Seq(Transitions)
    BY <1>1, <1>6, <2>1, Zenon
  <2>3. E \in [1 .. n - 1 -> Seq(Transitions)]
    BY <1>7, <2>2, Zenon
  <2>4. n - 1 \in Nat
    BY <1>2
  <2> HIDE DEF n
  <2> QED
    BY <1>8, <2>3, <2>4
<1>10. Boundaries(x) = 1 .. n - 1
  <2>1. DOMAIN x.edges = 1 .. Len(x.edges)
    BY <1>9
  <2> QED
    BY <1>9, <2>1, Zenon DEF Boundaries
<1>11. x.nodes = t.nodes
  <2>1. t.nodes = [k \in 1 .. n |-> world[origins[k]].emissions]
    BY <1>2, Zenon DEF Made, IsMade
  <2>2. trellis.nodes = [k \in 1 .. n |-> trellis.nodes[k]]
    <3>1. trellis.nodes \in Seq(Emissions) /\ Len(trellis.nodes) = n
      BY <1>0 DEF TrellisOK
    <3> QED
      BY <3>1
  <2>3. \A k \in 1 .. n : trellis.nodes[k] = world[origins[k]].emissions
    BY <1>0 DEF TrellisOK
  <2> QED
    BY <1>8, <2>1, <2>2, <2>3
<1>12. ASSUME Disconnections(x) = {} PROVE x = t
  <2>1. \A k \in 1 .. n - 1 : E[k] # Pending
    BY <1>8, <1>10, <1>12 DEF Disconnections
  <2>2. \A k \in 1 .. n - 1 : E[k] = t.edges[k]
    BY <1>6, <2>1
  <2>3. t = [nodes |-> t.nodes, edges |-> t.edges] /\ t.edges = [k \in 1 .. n - 1 |-> t.edges[k]]
    <3>1. t.edges = [k \in 1 .. n - 1 |-> world[origins[k + 1]].roads]
      BY Zenon DEF Made, IsMade
    <3>2. t = [nodes |-> t.nodes, edges |-> t.edges]
      BY Zenon DEF Made, IsMade
    <3> QED
      BY <1>1, <3>1, <3>2
  <2>4. E = t.edges
    BY <1>7, <2>2, <2>3
  <2> QED
    BY <1>4, <1>8, <1>11, <2>3, <2>4
<1> QED
  BY <1>4, <1>6, <1>8, <1>9, <1>10, <1>11, <1>12

-----------------------------------------------------------------------------
(* Growing a trip.                                                         *)

\* An observation that follows keeps the world well formed.
LEMMA WorldGrows ==
    ASSUME NEW w, WorldOK(w), NEW e \in Emissions, NEW r, NEW v, Follows(v, w, e, r)
    PROVE  WorldOK(v) /\ LongerWorld(v, w) /\ v[Len(w) + 1].emissions = e
<1> DEFINE S == [emissions : Emissions, roads : Seq(Transitions)]
           x == [emissions |-> e, roads |-> r]
           n == Len(w)
<1>1. w \in Seq(S) /\ \A j \in 2 .. n : w[j].roads \in Matrices(Len(w[j - 1].emissions), Len(w[j].emissions))
  BY Zenon DEF WorldOK
<1>2. n \in Nat
  BY <1>1
<1>3. n # 0 => Last(w) = w[n] /\ w[n].emissions \in Emissions
  <2>1. n # 0 => n \in 1 .. n
    BY <1>2
  <2>2. n # 0 => w[n] \in S
    BY <1>1, <2>1, ElementIsIn, Zenon
  <2> QED
    BY <2>2 DEF Last
<1>4. (n = 0 => r = Pending) /\ (n # 0 => r \in Matrices(Len(w[n].emissions), Len(e)))
  <2>1. w = <<>> <=> n = 0
    BY <1>1
  <2>2. r \in IF w = <<>> THEN {Pending} ELSE Matrices(Len(Last(w).emissions), Len(e))
    BY Zenon DEF Follows
  <2> QED
    BY <1>3, <2>1, <2>2, Zenon
<1>5. r \in Seq(Transitions)
  <2>1. CASE n = 0
    BY <1>4, <2>1 DEF Pending
  <2>2. CASE n # 0
    <3>1. Len(w[n].emissions) \in Nat /\ Len(e) \in Nat
      BY <1>3, <2>2, EmissionFacts
    <3> QED
      BY <1>4, <2>2, <3>1, MatrixFacts, Zenon
  <2> QED
    BY <2>1, <2>2
<1>6. x \in S /\ x.emissions = e /\ x.roads = r
  BY <1>5
<1> HIDE DEF x, S, n
<1>7. /\ v \in Seq(S) /\ Len(v) = n + 1
      /\ \A j \in 1 .. n : v[j] = w[j]
      /\ v[n + 1] = x
  <2>1. v = Append(w, x)
    BY Zenon DEF Follows, x
  <2>2. /\ Append(w, x) \in Seq(S) /\ Len(Append(w, x)) = n + 1
        /\ \A j \in 1 .. n : Append(w, x)[j] = w[j]
        /\ Append(w, x)[n + 1] = x
    BY <1>1, <1>6, AppendFacts DEF n
  <2> QED
    BY <2>1, <2>2, Zenon
<1>8. ASSUME NEW j \in 2 .. Len(v) PROVE v[j].roads \in Matrices(Len(v[j - 1].emissions), Len(v[j].emissions))
  <2>1. CASE j \in 2 .. n
    <3>1. v[j] = w[j] /\ v[j - 1] = w[j - 1]
      BY <1>2, <1>7, <2>1
    <3> QED
      BY <1>1, <2>1, <3>1
  <2>2. CASE j = n + 1
    <3>1. n # 0 /\ j - 1 = n /\ n \in 1 .. n
      BY <1>2, <2>2
    <3>2. v[j].roads = r /\ v[j].emissions = e /\ v[j - 1] = w[n]
      BY <1>6, <1>7, <2>2, <3>1
    <3> QED
      BY <1>4, <3>1, <3>2
  <2> QED
    BY <1>2, <1>7, <2>1, <2>2
<1> QED
  BY <1>2, <1>6, <1>7, <1>8 DEF WorldOK, LongerWorld, S, n

\* A pushed layer keeps the trip at the end of the world.
LEMMA LayersGrow ==
    ASSUME NEW w, NEW o, LayersOK(w, o), NEW v, LongerWorld(v, w), NEW p, Longer(p, o, w)
    PROVE  LayersOK(v, p) /\ LongerTrip(p, o, w)
<1>0. Len(w) \in Nat /\ Len(v) = Len(w) + 1
  BY DEF LongerWorld
<1>1. o \in Seq(Nat) /\ Len(w) + 1 \in Nat
  BY <1>0 DEF LayersOK
<1>2. /\ p \in Seq(Nat) /\ Len(p) = Len(o) + 1 /\ Len(o) \in Nat
      /\ \A k \in 1 .. Len(o) : p[k] = o[k]
      /\ p[Len(o) + 1] = Len(w) + 1
  BY <1>1, AppendFacts DEF Longer
<1>3. \A k \in 1 .. Len(o) : o[k] = (Len(w) - Len(o)) + k /\ Len(o) <= Len(w)
  BY DEF LayersOK
<1>4. \A k \in 1 .. Len(p) : p[k] = (Len(v) - Len(p)) + k
  BY <1>0, <1>2, <1>3
<1>5. Len(o) <= Len(w)
  BY DEF LayersOK
<1>6. \A k \in 1 .. Len(o) : p[k] \in 1 .. Len(w)
  BY <1>0, <1>2, <1>3
<1> QED
  BY <1>0, <1>2, <1>4, <1>5, <1>6 DEF LayersOK, LongerTrip

\* A trellis grows by the new layer behind a pending boundary.
LEMMA TrellisGrows ==
    ASSUME NEW w, NEW o, NEW t, TrellisOK(t, w, o), LayersOK(w, o), NEW v, NEW p, NEW e \in Emissions,
           LongerWorld(v, w), LongerTrip(p, o, w), v[Len(w) + 1].emissions = e,
           NEW u, u = [nodes |-> Append(t.nodes, e), edges |-> IF Len(o) = 0 THEN <<>> ELSE Append(t.edges, Pending)]
    PROVE  TrellisOK(u, v, p)
<1> DEFINE n == Len(o)
<1>0. /\ n \in Nat /\ Len(p) = n + 1 /\ p[n + 1] = Len(w) + 1
      /\ \A k \in 1 .. n : p[k] = o[k] /\ p[k] \in 1 .. Len(w)
      /\ \A j \in 1 .. Len(w) : v[j] = w[j]
  BY DEF LongerWorld, LongerTrip
<1>1. /\ t.nodes \in Seq(Emissions) /\ Len(t.nodes) = n /\ t.edges \in Seq(Seq(Transitions))
      /\ Len(t.edges) = IF n = 0 THEN 0 ELSE n - 1
      /\ \A k \in 1 .. n : t.nodes[k] = w[o[k]].emissions
      /\ \A k \in 1 .. n - 1 : t.edges[k] = Pending \/ t.edges[k] = w[o[k + 1]].roads
  BY DEF TrellisOK
<1>2. u = [nodes |-> u.nodes, edges |-> u.edges] /\ u.nodes = Append(t.nodes, e)
      /\ u.edges = IF n = 0 THEN <<>> ELSE Append(t.edges, Pending)
  OBVIOUS
<1> HIDE DEF n
<1>3. /\ u.nodes \in Seq(Emissions) /\ Len(u.nodes) = n + 1
      /\ \A k \in 1 .. n : u.nodes[k] = t.nodes[k]
      /\ u.nodes[n + 1] = e
  <2>1. /\ Append(t.nodes, e) \in Seq(Emissions) /\ Len(Append(t.nodes, e)) = Len(t.nodes) + 1
        /\ \A k \in 1 .. Len(t.nodes) : Append(t.nodes, e)[k] = t.nodes[k]
        /\ Append(t.nodes, e)[Len(t.nodes) + 1] = e
    BY <1>1, AppendFacts
  <2> QED
    BY <1>1, <1>2, <2>1
<1>4. Pending \in Seq(Transitions)
  BY DEF Pending
<1>5. /\ u.edges \in Seq(Seq(Transitions)) /\ Len(u.edges) = n
      /\ \A k \in 1 .. n - 1 : u.edges[k] = t.edges[k]
      /\ n # 0 => u.edges[n] = Pending
  <2>1. CASE n = 0
    <3>1. u.edges = <<>>
      BY <1>2, <2>1
    <3>2. u.edges \in Seq(Seq(Transitions)) /\ Len(u.edges) = 0
      <4>1. <<>> \in Seq(Seq(Transitions)) /\ Len(<<>>) = 0
        OBVIOUS
      <4> QED
        BY <3>1, <4>1, Zenon
    <3>3. \A k \in 1 .. n - 1 : FALSE
      BY <2>1
    <3> QED
      BY <2>1, <3>2, <3>3
  <2>2. CASE n # 0
    <3>1. u.edges = Append(t.edges, Pending) /\ Len(t.edges) = n - 1
      BY <1>1, <1>2, <2>2
    <3>2. /\ Append(t.edges, Pending) \in Seq(Seq(Transitions)) /\ Len(Append(t.edges, Pending)) = Len(t.edges) + 1
          /\ (\A k \in 1 .. Len(t.edges) : Append(t.edges, Pending)[k] = t.edges[k])
          /\ Append(t.edges, Pending)[Len(t.edges) + 1] = Pending
      BY <1>1, <1>4, AppendFacts
    <3>3. (n - 1) + 1 = n
      BY <1>0
    <3> QED
      BY <3>1, <3>2, <3>3
  <2> QED
    BY <2>1, <2>2
<1>6. \A k \in 1 .. n + 1 : u.nodes[k] = v[p[k]].emissions
  <2>1. ASSUME NEW k \in 1 .. n PROVE u.nodes[k] = v[p[k]].emissions
    <3>1. p[k] = o[k] /\ v[p[k]] = w[o[k]]
      BY <1>0
    <3> QED
      BY <1>1, <1>3, <3>1
  <2>2. u.nodes[n + 1] = v[p[n + 1]].emissions
    BY <1>0, <1>3
  <2>3. \A k \in 1 .. n + 1 : k \in 1 .. n \/ k = n + 1
    BY <1>0
  <2> QED
    BY <2>1, <2>2, <2>3, Zenon
<1>7. \A k \in 1 .. n : u.edges[k] = Pending \/ u.edges[k] = v[p[k + 1]].roads
  <2>0. \A k \in 1 .. n : n # 0
    BY <1>0
  <2> SUFFICES ASSUME NEW k \in 1 .. n, k # n PROVE u.edges[k] = Pending \/ u.edges[k] = v[p[k + 1]].roads
    BY <1>5, <2>0, Zenon
  <2>1. k \in 1 .. n - 1 /\ k + 1 \in 1 .. n
    BY <1>0
  <2>2. p[k + 1] = o[k + 1] /\ v[p[k + 1]] = w[o[k + 1]]
    BY <1>0, <2>1
  <2> QED
    BY <1>1, <1>5, <2>1, <2>2
<1>8. n \in Nat /\ Len(p) = n + 1 /\ Len(p) - 1 = n /\ Len(p) # 0
  BY <1>0
<1> QED
  BY <1>2, <1>3, <1>5, <1>6, <1>7, <1>8 DEF TrellisOK

\* What was promised stays fused in a longer trellis.
LEMMA PromiseGrows ==
    ASSUME NEW w, NEW o, WorldOK(w), LayersOK(w, o), NEW v, NEW p, WorldOK(v), LayersOK(v, p),
           LongerWorld(v, w), LongerTrip(p, o, w), NEW F, Promised(F, w, o)
    PROVE  Promised(F, v, p)
<1>4. Len(p) # 0 /\ Len(p) = Len(o) + 1 /\ Len(o) \in Nat
  BY DEF LongerTrip
<1>1. SUFFICES ASSUME F # <<>> PROVE \E m : Fused(Made(v, p), m, F)
  BY <1>4 DEF Promised
<1>2. PICK m : Len(o) # 0 /\ Fused(Made(w, o), m, F)
  BY <1>1, Zenon DEF Promised
<1>0. PICK s, t : IsMade(s, w, o) /\ IsMade(t, v, p)
  BY DEF IsMade
<1>3. /\ Weighed(s) /\ Layers(s) = Len(o)
      /\ \A k \in 1 .. Len(o) : s.nodes[k] = w[o[k]].emissions
      /\ \A k \in 1 .. Len(o) - 1 : s.edges[k] = w[o[k + 1]].roads
  <2>1. MadeWell(s, w, o)
    BY <1>0, <1>2, MadeFacts, Zenon
  <2> QED
    BY <2>1 DEF MadeWell
<1>5. /\ Weighed(t) /\ Layers(t) = Len(p)
      /\ \A k \in 1 .. Len(p) : t.nodes[k] = v[p[k]].emissions
      /\ \A k \in 1 .. Len(p) - 1 : t.edges[k] = v[p[k + 1]].roads
  <2>1. MadeWell(t, v, p)
    BY <1>0, <1>4, MadeFacts, Zenon
  <2> QED
    BY <2>1 DEF MadeWell
<1>6. \A k \in 1 .. Len(o) : v[p[k]] = w[o[k]] /\ k \in 1 .. Len(p)
  BY DEF LongerWorld, LongerTrip
<1>7. \A k \in 1 .. Len(o) - 1 : k + 1 \in 1 .. Len(o) /\ k \in 1 .. Len(p) - 1
  BY <1>4
<1>8. \A k \in 1 .. Len(o) : t.nodes[k] = s.nodes[k]
  BY <1>3, <1>5, <1>6, Zenon
<1>9. \A k \in 1 .. Len(o) - 1 : t.edges[k] = s.edges[k]
  BY <1>3, <1>5, <1>6, <1>7, Zenon
<1>10. Extends(t, s)
  <2>1. Layers(s) <= Layers(t)
    BY <1>3, <1>4, <1>5
  <2> QED
    BY <1>3, <1>8, <1>9, <2>1 DEF Extends
<1>11. Fused(s, m, F)
  BY <1>0, <1>2 DEF IsMade
<1>12. Fused(t, m, F)
  BY <1>3, <1>5, <1>10, <1>11, FusedStays, Zenon
<1> QED
  BY <1>0, <1>12 DEF IsMade

\* Matcher::push preserves the invariant.
LEMMA PushKeeps ==
    ASSUME TripInv, Push
    PROVE  TripInv'
<1> DEFINE F == final
<1>1. PICK e \in Emissions :
          /\ \E roads \in IF world = <<>> THEN {Pending}
                          ELSE Matrices(Len(Last(world).emissions), Len(e)) :
                world' = Append(world, [emissions |-> e, roads |-> roads])
          /\ trellis' = [nodes |-> Append(trellis.nodes, e),
                         edges |-> IF state = "Empty" THEN <<>>
                                   ELSE Append(trellis.edges, Pending)]
  BY Zenon DEF Push
<1>2. PICK r \in IF world = <<>> THEN {Pending} ELSE Matrices(Len(Last(world).emissions), Len(e)) :
          world' = Append(world, [emissions |-> e, roads |-> r])
  BY <1>1, Zenon
<1>3. /\ origins' = Append(origins, Len(world) + 1) /\ stamps' = Append(stamps, Len(origins) + 1)
      /\ state' = "Building" /\ final' = final
  BY DEF Push
<1>4. /\ WorldOK(world) /\ LayersOK(world, origins) /\ StampsOK(stamps, origins)
      /\ TrellisOK(trellis, world, origins) /\ Promised(final, world, origins)
      /\ state = "Empty" <=> Len(origins) = 0
  BY DEF TripInv
<1>5. PICK v, p, u, w, o : v = world' /\ p = origins' /\ u = trellis' /\ w = world /\ o = origins
  OBVIOUS
<1>6. WorldOK(v) /\ LongerWorld(v, w) /\ v[Len(w) + 1].emissions = e
  <2>1. WorldOK(w) /\ Follows(v, w, e, r)
    BY <1>2, <1>4, <1>5, Zenon DEF Follows
  <2> QED
    BY <1>1, <2>1, WorldGrows, Zenon
<1>7. LayersOK(v, p) /\ LongerTrip(p, o, w)
  <2>1. LayersOK(w, o) /\ Longer(p, o, w)
    BY <1>3, <1>4, <1>5, Zenon DEF Longer
  <2> QED
    BY <1>6, <2>1, LayersGrow, Zenon
<1>8. u = [nodes |-> Append(trellis.nodes, e), edges |-> IF Len(origins) = 0 THEN <<>> ELSE Append(trellis.edges, Pending)]
  BY <1>1, <1>4, <1>5, Zenon
<1>9. TrellisOK(u, v, p)
  <2>1. TrellisOK(trellis, w, o) /\ LayersOK(w, o)
    BY <1>4, <1>5, Zenon
  <2>2. u = [nodes |-> Append(trellis.nodes, e), edges |-> IF Len(o) = 0 THEN <<>> ELSE Append(trellis.edges, Pending)]
    BY <1>5, <1>8, Zenon
  <2> QED
    BY <1>1, <1>6, <1>7, <2>1, <2>2, TrellisGrows, Zenon
<1>10. Promised(final, v, p)
  <2>1. WorldOK(w) /\ LayersOK(w, o) /\ Promised(final, w, o)
    BY <1>4, <1>5, Zenon
  <2> QED
    BY <1>6, <1>7, <2>1, PromiseGrows, Zenon
<1>11. StampsOK(stamps', p)
  <2>1. stamps \in Seq(Nat) /\ Len(origins) + 1 \in Nat /\ Len(stamps) = Len(origins)
    BY <1>4, <1>5, <1>7 DEF StampsOK, LongerTrip
  <2>2. /\ stamps' \in Seq(Nat) /\ Len(stamps') = Len(origins) + 1
        /\ \A k \in 1 .. Len(origins) : stamps'[k] = stamps[k]
        /\ stamps'[Len(origins) + 1] = Len(origins) + 1
    BY <1>3, <2>1, AppendFacts
  <2>3. \A k \in 1 .. Len(origins) : stamps[k] = k
    BY <1>4 DEF StampsOK
  <2> QED
    BY SMTT(20), <1>5, <1>7, <2>2, <2>3 DEF StampsOK, LongerTrip
<1>12. Len(p) # 0
  BY <1>7 DEF LongerTrip
<1> QED
  BY <1>3, <1>5, <1>6, <1>7, <1>9, <1>10, <1>11, <1>12 DEF TripInv

-----------------------------------------------------------------------------
(* Windowing a trip: Trip::tail.                                           *)

\* Trip::tail preserves the invariant: stamps, layers and edges are cut alike.
LEMMA KeepKeeps ==
    ASSUME TripInv, NEW n, Keep(n), final' = <<>>
    PROVE  TripInv'
<1>1. /\ n \in 1 .. Len(origins) - 1 /\ origins' = SubSeq(origins, Len(origins) - n + 1, Len(origins))
      /\ stamps' = [k \in 1 .. n |-> k] /\ trellis' = LastLayers(trellis, n)
      /\ state' = "Building" /\ world' = world
  BY DEF Keep
<1>2. /\ WorldOK(world) /\ LayersOK(world, origins) /\ StampsOK(stamps, origins)
      /\ TrellisOK(trellis, world, origins) /\ Promised(final, world, origins)
  BY DEF TripInv
<1>3. PICK m, o, t, p, u, w : m = Len(origins) /\ o = origins /\ t = trellis /\ p = origins' /\ u = trellis' /\ w = world
  OBVIOUS
<1>4. /\ m \in Nat /\ o \in Seq(Nat) /\ Len(o) = m /\ Len(w) \in Nat /\ m <= Len(w)
      /\ \A k \in 1 .. m : o[k] = (Len(w) - m) + k
  BY <1>2, <1>3 DEF LayersOK, WorldOK
<1>5. n \in 1 .. m - 1 /\ n \in Nat /\ m - n \in Nat
  BY <1>1, <1>3, <1>4
<1>6. /\ p \in Seq(Nat) /\ Len(p) = n /\ \A k \in 1 .. n : p[k] = o[(m - n) + k]
  <2> DEFINE a == m - n + 1
  <2>1. a \in 1 .. m + 1 /\ m \in a - 1 .. m /\ (m - a) + 1 = n /\ a - 1 = m - n
    BY <1>4, <1>5
  <2>2. p = SubSeq(o, a, m)
    BY <1>1, <1>3
  <2> HIDE DEF a
  <2>3. /\ SubSeq(o, a, m) \in Seq(Nat) /\ Len(SubSeq(o, a, m)) = (m - a) + 1
        /\ \A k \in 1 .. (m - a) + 1 : SubSeq(o, a, m)[k] = o[(a - 1) + k]
    BY <1>4, <2>1, SubSeqFacts
  <2> QED
    BY <2>1, <2>2, <2>3
<1>7. \A k \in 1 .. n : (m - n) + k \in 1 .. m
  BY <1>4, <1>5
<1>8. LayersOK(w, p)
  <2>1. \A k \in 1 .. n : p[k] = (Len(w) - n) + k
    BY <1>4, <1>5, <1>6, <1>7
  <2>2. n <= Len(w) /\ n # 0
    BY <1>4, <1>5
  <2> QED
    BY <1>6, <2>1, <2>2 DEF LayersOK
<1>9. StampsOK(stamps', p)
  <2>1. stamps' \in Seq(Nat) /\ Len(stamps') = n /\ \A k \in 1 .. n : stamps'[k] = k
    BY <1>1, <1>5
  <2> QED
    BY <1>6, <2>1 DEF StampsOK
<1>10. TrellisOK(u, w, p)
  <2>1. /\ t.nodes \in Seq(Emissions) /\ Len(t.nodes) = m /\ t.edges \in Seq(Seq(Transitions))
        /\ Len(t.edges) = m - 1
        /\ \A k \in 1 .. m : t.nodes[k] = w[o[k]].emissions
        /\ \A k \in 1 .. m - 1 : t.edges[k] = Pending \/ t.edges[k] = w[o[k + 1]].roads
    <3>1. TrellisOK(t, w, o) /\ Len(o) # 0
      BY <1>2, <1>3, <1>4, <1>5
    <3> QED
      BY <1>4, <3>1 DEF TrellisOK
  <2> DEFINE a == m - n + 1
  <2>2. /\ a \in 1 .. m + 1 /\ m \in a - 1 .. m /\ (m - a) + 1 = n /\ a - 1 = m - n
        /\ a \in 1 .. (m - 1) + 1 /\ m - 1 \in a - 1 .. m - 1 /\ ((m - 1) - a) + 1 = n - 1
    BY <1>4, <1>5
  <2>3. u = [nodes |-> SubSeq(t.nodes, a, m), edges |-> SubSeq(t.edges, a, m - 1)]
    BY <1>1, <1>3, <2>1 DEF LastLayers, Layers
  <2> HIDE DEF a
  <2>4. u = [nodes |-> u.nodes, edges |-> u.edges] /\ u.nodes = SubSeq(t.nodes, a, m) /\ u.edges = SubSeq(t.edges, a, m - 1)
    BY <2>3
  <2>5. u.nodes \in Seq(Emissions) /\ Len(u.nodes) = n /\ \A k \in 1 .. n : u.nodes[k] = t.nodes[(m - n) + k]
    <3>0. PICK x : x = t.nodes /\ x \in Seq(Emissions) /\ Len(x) = m
      BY <2>1
    <3>1. /\ SubSeq(x, a, m) \in Seq(Emissions) /\ Len(SubSeq(x, a, m)) = (m - a) + 1
          /\ \A k \in 1 .. (m - a) + 1 : SubSeq(x, a, m)[k] = x[(a - 1) + k]
      <4>1. a \in 1 .. Len(x) + 1 /\ m \in a - 1 .. Len(x)
        BY <2>2, <3>0, Zenon
      <4>2. x \in Seq(Emissions)
        BY <3>0
      <4> QED
        BY <4>1, <4>2, SubSeqFacts, Zenon
    <3> QED
      BY <2>2, <2>4, <3>0, <3>1
  <2>6. u.edges \in Seq(Seq(Transitions)) /\ Len(u.edges) = n - 1 /\ \A k \in 1 .. n - 1 : u.edges[k] = t.edges[(m - n) + k]
    <3>0. PICK x : x = t.edges /\ x \in Seq(Seq(Transitions)) /\ Len(x) = m - 1
      BY <2>1
    <3>1. /\ SubSeq(x, a, m - 1) \in Seq(Seq(Transitions)) /\ Len(SubSeq(x, a, m - 1)) = ((m - 1) - a) + 1
          /\ \A k \in 1 .. ((m - 1) - a) + 1 : SubSeq(x, a, m - 1)[k] = x[(a - 1) + k]
      <4>1. a \in 1 .. Len(x) + 1 /\ m - 1 \in a - 1 .. Len(x)
        BY <2>2, <3>0, Zenon
      <4>2. x \in Seq(Seq(Transitions))
        BY <3>0
      <4> QED
        BY <4>1, <4>2, SubSeqFacts, Zenon
    <3> QED
      BY <2>2, <2>4, <3>0, <3>1
  <2>7. \A k \in 1 .. n : u.nodes[k] = w[p[k]].emissions
    BY <1>6, <1>7, <2>1, <2>5, Zenon
  <2>8. \A k \in 1 .. n - 1 : u.edges[k] = Pending \/ u.edges[k] = w[p[k + 1]].roads
    <3> SUFFICES ASSUME NEW k \in 1 .. n - 1 PROVE u.edges[k] = Pending \/ u.edges[k] = w[p[k + 1]].roads
      OBVIOUS
    <3>1. k + 1 \in 1 .. n /\ (m - n) + k \in 1 .. m - 1 /\ (m - n) + (k + 1) = ((m - n) + k) + 1
      BY <1>4, <1>5
    <3>2. u.edges[k] = t.edges[(m - n) + k] /\ p[k + 1] = o[((m - n) + k) + 1]
      BY <1>6, <2>6, <3>1
    <3> QED
      BY <2>1, <3>1, <3>2
  <2>9. Len(p) = n /\ n # 0
    BY <1>5, <1>6
  <2> QED
    BY <2>4, <2>5, <2>6, <2>7, <2>8, <2>9 DEF TrellisOK
<1>11. Promised(<<>>, w, p)
  BY DEF Promised
<1>12. Len(p) # 0
  BY <1>5, <1>6
<1> QED
  BY <1>1, <1>2, <1>3, <1>8, <1>9, <1>10, <1>11, <1>12 DEF TripInv

-----------------------------------------------------------------------------
(* Solving a trip.                                                         *)

\* The path of a solve is traced through live nodes, and what converges with
\* it is fused and covers what was fused before.
LEMMA SolvedPrefix ==
    ASSUME NEW t, Weighed(t), ~ Unreachable(t, ForwardPass(t)), NEW F \in Seq(Nat),
           F # <<>> => \E m : Fused(t, m, F)
    PROVE  LET G == SubSeq(Backtrack(t, ForwardPass(t)).nodes, 1, Convergence(t, ForwardPass(t)))
           IN  G \in Seq(Nat) /\ Fused(t, Layers(t), G) /\ IsPrefix(F, G)
<1> DEFINE n == Layers(t)
           d == ForwardPass(t)
           q == Backtrack(t, d).nodes
           c == Convergence(t, d)
           G == SubSeq(q, 1, c)
<1>1. n \in Nat /\ 1 <= n /\ n \in 1 .. n
  BY DEF Weighed
<1>2. q \in Paths(t) /\ q[n] = Best(t, d)[2] /\ Traced(t, q)
  BY BacktrackFacts, Zenon
<1>3. Best(t, d)[1] < InfW /\ Best(t, d)[1] = d[n][Best(t, d)[2]]
  <2>1. Best(t, d)[1] \in Nat /\ Best(t, d)[1] = d[n][Best(t, d)[2]]
    BY BestFacts, Zenon
  <2>2. ~ (Best(t, d)[1] >= InfW)
    BY Zenon DEF Unreachable
  <2> QED
    BY <2>1, <2>2, InfAssumption
<1>4. LiveTrace(t, n, q)
  <2>1. \A k \in 1 .. n : q[k] \in Nodes(t, k)
    BY <1>2, PathFacts, Zenon
  <2>2. \A k \in 1 .. n - 1 : q[k] = Predecessor(t, ForwardPass(t), k, q[k + 1])
    BY <1>2, Zenon DEF Traced
  <2>3. ForwardPass(t)[n][q[n]] < InfW
    BY <1>2, <1>3, Zenon
  <2> QED
    BY <2>1, <2>2, <2>3, Zenon DEF LiveTrace
<1>5. /\ c \in 0 .. n
      /\ \A r, s : (LiveTrace(t, n, r) /\ LiveTrace(t, n, s)) => \A i \in 1 .. c : r[i] = s[i]
      /\ \A l \in 1 .. n : \A x : (\A r : LiveTrace(t, n, r) => r[l] = x) => l <= c
  BY <1>4, ConvergenceFacts, Zenon
<1>6. q \in [1 .. n -> Nat]
  <2>1. q \in [1 .. n -> UNION {Nodes(t, k) : k \in 1 .. n}]
    BY <1>2, Zenon DEF Paths
  <2>2. \A k \in 1 .. n : q[k] \in Nat
    <3>1. \A k \in 1 .. n : q[k] \in Nodes(t, k)
      BY <1>2, PathFacts, Zenon
    <3> QED
      BY <3>1 DEF Weighed
  <2> HIDE DEF q, n
  <2> QED
    BY <2>1, <2>2
<1> HIDE DEF n, d, q, c
<1>7. G \in Seq(Nat) /\ Len(G) = c /\ \A i \in 1 .. c : G[i] = q[i]
  <2>1. q \in Seq(Nat) /\ Len(q) = n
    BY <1>1, <1>6
  <2>2. 1 \in 1 .. Len(q) + 1 /\ c \in 1 - 1 .. Len(q) /\ (c - 1) + 1 = c /\ \A k \in 1 .. c : (1 - 1) + k = k
    BY <1>1, <1>5, <2>1
  <2>3. /\ G \in Seq(Nat) /\ Len(G) = (c - 1) + 1
        /\ \A k \in 1 .. (c - 1) + 1 : G[k] = q[(1 - 1) + k]
    BY <2>1, <2>2, SubSeqFacts
  <2> QED
    BY <2>2, <2>3
<1> HIDE DEF G
<1>8. Fused(t, n, G)
  <2>1. Len(G) <= n
    BY <1>1, <1>5, <1>7
  <2>2. \A r : LiveTrace(t, n, r) => \A i \in 1 .. Len(G) : r[i] = G[i]
    BY <1>4, <1>5, <1>7, Zenon
  <2> QED
    BY <1>1, <2>1, <2>2 DEF Fused, n
<1>9. Len(F) <= c /\ \A i \in 1 .. Len(F) : F[i] = q[i]
  <2>1. CASE F = <<>>
    BY <1>5, <2>1
  <2>2. CASE F # <<>>
    <3>1. PICK m : Fused(t, m, F)
      BY <2>2
    <3>2. /\ m \in 1 .. n /\ Len(F) <= m
          /\ \A r : LiveTrace(t, m, r) => \A i \in 1 .. Len(F) : r[i] = F[i]
      BY <3>1, Zenon DEF Fused, n
    <3>3. \A r : LiveTrace(t, n, r) => LiveTrace(t, m, r)
      <4>1. n \in 1 .. Layers(t)
        BY <1>1 DEF n
      <4> QED
        BY <3>2, <4>1, TraceDown, Zenon
    <3>4. \A r : LiveTrace(t, n, r) => \A i \in 1 .. Len(F) : r[i] = F[i]
      BY <3>2, <3>3, Zenon
    <3>5. Len(F) \in 1 .. Len(F) /\ Len(F) \in 1 .. n
      BY <1>1, <2>2, <3>2
    <3>6. \A r : LiveTrace(t, n, r) => r[Len(F)] = F[Len(F)]
      BY <3>4, <3>5, Zenon
    <3>7. Len(F) <= c
      BY <1>5, <3>5, <3>6, Zenon
    <3> QED
      BY <1>4, <3>4, <3>7, Zenon
  <2> QED
    BY <2>1, <2>2
<1>10. IsPrefix(F, G)
  <2>1. Len(F) <= Len(G)
    BY <1>7, <1>9
  <2>2. \A i \in 1 .. Len(F) : F[i] = G[i]
    BY <1>5, <1>7, <1>9
  <2> QED
    BY <1>7, <2>1, <2>2 DEF IsPrefix
<1> QED
  BY <1>7, <1>8, <1>10 DEF G, q, c, d, n

\* What a solve must have done, of the trellis t the observations make.
Exact(t, out, r) ==
    /\ out = "solved" =>
          /\ r.nodes \in Paths(t)
          /\ PathCost(t, r.nodes) = r.cost
          /\ r.cost = LeastCost(t) /\ r.cost < InfW
    /\ out = "disconnected" => LeastCost(t) >= InfW

Explained(t, B) ==
    /\ \A k \in B, p \in Paths(t) : \E j \in Since(B, k) .. k : ~ Present(t, p, j)
    /\ B = {} <=> \E p \in Paths(t) : \A j \in Boundaries(t) : Present(t, p, j)

\* Matcher::solve preserves the invariant and does what the properties ask.
LEMMA SolveFacts ==
    ASSUME TripInv, Solve, NEW t, IsMade(t, world, origins)
    PROVE  /\ TripInv'
           /\ Exact(t, outcome', path')
           /\ outcome' = "disconnected" => Explained(t, breaks')
           /\ state' = "Solved" => IsPrefix(final, final')
<1>1. /\ WorldOK(world) /\ LayersOK(world, origins) /\ StampsOK(stamps, origins)
      /\ TrellisOK(trellis, world, origins) /\ Promised(final, world, origins)
      /\ state \in {"Empty", "Building", "Solved"} /\ (state = "Empty" <=> Len(origins) = 0)
  BY DEF TripInv
<1>2. state = "Building" /\ Len(origins) # 0
  BY <1>1 DEF Solve
<1>3. PICK x : IsWeigh(x)
  BY DEF IsWeigh
<1>4. /\ trellis' = x /\ world' = world /\ origins' = origins /\ stamps' = stamps
      /\ \/ /\ Disconnections(x) # {}
            /\ outcome' = "disconnected" /\ breaks' = Disconnections(x)
            /\ state' = state /\ final' = final
         \/ /\ Disconnections(x) = {} /\ Unreachable(x, ForwardPass(x))
            /\ outcome' = "disconnected" /\ breaks' = FrontierCollapse(x)
            /\ state' = state /\ final' = final
         \/ /\ Disconnections(x) = {} /\ ~ Unreachable(x, ForwardPass(x))
            /\ outcome' = "solved" /\ state' = "Solved"
            /\ path' = Backtrack(x, ForwardPass(x))
            /\ final' = SubSeq(path'.nodes, 1, Convergence(x, ForwardPass(x)))
  BY <1>3, Zenon DEF Solve, IsWeigh
<1>5. /\ x = [nodes |-> x.nodes, edges |-> x.edges]
      /\ x.nodes = trellis.nodes /\ x.nodes = t.nodes
      /\ x.edges \in Seq(Seq(Transitions)) /\ Len(x.edges) = Len(origins) - 1
      /\ Boundaries(x) = 1 .. Len(origins) - 1
      /\ \A k \in 1 .. Len(origins) - 1 : x.edges[k] = t.edges[k] \/ (x.edges[k] = Pending /\ NoEdges(t.edges[k]))
      /\ Disconnections(x) = {} => x = t
  BY <1>2, <1>3, WeighFacts
<1>6. MadeWell(t, world, origins)
  BY <1>1, <1>2, MadeFacts, Zenon
<1>7. Weighed(t) /\ Layers(t) = Len(origins) /\ Boundaries(t) = 1 .. Len(origins) - 1
  BY <1>6 DEF MadeWell
<1>8. TrellisOK(trellis', world, origins)
  <2>1. \A k \in 1 .. Len(origins) - 1 : x.edges[k] = Pending \/ x.edges[k] = world[origins[k + 1]].roads
    BY <1>5, <1>6 DEF MadeWell
  <2>2. /\ trellis.nodes \in Seq(Emissions) /\ Len(trellis.nodes) = Len(origins)
        /\ \A k \in 1 .. Len(origins) : trellis.nodes[k] = world[origins[k]].emissions
    BY <1>1 DEF TrellisOK
  <2>3. TrellisOK(x, world, origins)
    BY <1>2, <1>5, <2>1, <2>2, Zenon DEF TrellisOK
  <2> QED
    BY <1>4, <2>3
<1>9. ASSUME Promised(final', world, origins), state' \in {"Building", "Solved"} PROVE TripInv'
  BY <1>1, <1>2, <1>4, <1>8, <1>9 DEF TripInv
<1>10. CASE Disconnections(x) # {}
  <2> DEFINE gaps == Disconnections(x)
  <2>1. outcome' = "disconnected" /\ breaks' = gaps /\ state' = "Building" /\ final' = final
    BY <1>2, <1>4, <1>10
  <2>2. gaps \subseteq 1 .. Layers(t) - 1
    BY <1>5, <1>7 DEF Disconnections
  <2>3. ASSUME NEW k \in gaps, NEW i \in Nodes(t, k), NEW j \in Nodes(t, k + 1) PROVE t.edges[k][i][j] >= InfW
    <3>1. k \in 1 .. Len(origins) - 1 /\ x.edges[k] = Pending
      BY <1>5 DEF Disconnections
    <3>2. t.edges[k] # Pending /\ DOMAIN t.edges[k] = Nodes(t, k) /\ DOMAIN t.edges[k][i] = Nodes(t, k + 1)
      BY <1>6, <3>1, Zenon DEF MadeWell
    <3>3. NoEdges(t.edges[k])
      BY <1>5, <3>1, <3>2
    <3>4. t.edges[k][i][j] = InfW
      BY <3>2, <3>3, Zenon DEF NoEdges
    <3> QED
      BY <3>4, InfAssumption
  <2> HIDE DEF gaps
  <2>4. gaps # {}
    BY <1>10 DEF gaps
  <2>5. /\ LeastCost(t) >= InfW
        /\ \A k \in gaps, p \in Paths(t) : \E j \in Since(gaps, k) .. k : ~ Present(t, p, j)
        /\ ~ \E p \in Paths(t) : \A j \in Boundaries(t) : Present(t, p, j)
    <3>1. \A k \in gaps : \A i \in Nodes(t, k), j \in Nodes(t, k + 1) : t.edges[k][i][j] >= InfW
      BY <2>3
    <3> QED
      BY <1>7, <2>2, <2>4, <3>1, GapsExplain
  <2>6. Explained(t, gaps)
    BY <2>4, <2>5, Zenon DEF Explained
  <2>7. Exact(t, outcome', path')
    BY <2>1, <2>5 DEF Exact
  <2>8. TripInv'
    BY <1>1, <1>9, <2>1
  <2> QED
    BY <2>1, <2>6, <2>7, <2>8
<1>11. CASE Disconnections(x) = {} /\ Unreachable(x, ForwardPass(x))
  <2>1. x = t
    BY <1>5, <1>11
  <2>2. outcome' = "disconnected" /\ breaks' = FrontierCollapse(t) /\ state' = "Building" /\ final' = final
    BY <1>2, <1>4, <1>11, <2>1
  <2>3. Unreachable(t, ForwardPass(t))
    BY <1>11, <2>1
  <2>4. LeastCost(t) >= InfW
    BY <1>7, <2>3, SolverIsExact, Zenon
  <2>5. Explained(t, FrontierCollapse(t))
    BY <1>7, CollapseIsTruthful, Zenon DEF Explained
  <2>6. Exact(t, outcome', path')
    BY <2>2, <2>4 DEF Exact
  <2>7. TripInv'
    BY <1>1, <1>9, <2>2
  <2> QED
    BY <2>2, <2>5, <2>6, <2>7
<1>12. CASE Disconnections(x) = {} /\ ~ Unreachable(x, ForwardPass(x))
  <2>1. x = t
    BY <1>5, <1>12
  <2>2. /\ outcome' = "solved" /\ state' = "Solved" /\ path' = Backtrack(t, ForwardPass(t))
        /\ final' = SubSeq(Backtrack(t, ForwardPass(t)).nodes, 1, Convergence(t, ForwardPass(t)))
    BY <1>4, <1>12, <2>1
  <2>3. ~ Unreachable(t, ForwardPass(t))
    BY <1>12, <2>1
  <2>4. Exact(t, outcome', path')
    <3>1. PICK r : r = Backtrack(t, ForwardPass(t))
      OBVIOUS
    <3>2. /\ r.nodes \in Paths(t) /\ PathCost(t, r.nodes) = r.cost
          /\ r.cost = LeastCost(t) /\ r.cost < InfW
      BY <1>7, <2>3, <3>1, SolverIsExact, Zenon
    <3>3. Exact(t, "solved", r)
      BY <3>2 DEF Exact
    <3> QED
      BY <2>2, <3>1, <3>3
  <2>5. final \in Seq(Nat) /\ (final # <<>> => \E m : Fused(t, m, final))
    BY <1>1 DEF Promised, IsMade
  <2>6. final' \in Seq(Nat) /\ Fused(t, Layers(t), final') /\ IsPrefix(final, final')
    <3>1. PICK F, G : F = final /\ G = SubSeq(Backtrack(t, ForwardPass(t)).nodes, 1, Convergence(t, ForwardPass(t)))
      OBVIOUS
    <3>2. F \in Seq(Nat) /\ (F # <<>> => \E m : Fused(t, m, F))
      BY <2>5, <3>1
    <3>3. G \in Seq(Nat) /\ Fused(t, Layers(t), G) /\ IsPrefix(F, G)
      BY <1>7, <2>3, <3>1, <3>2, SolvedPrefix, Zenon
    <3> QED
      BY <2>2, <3>1, <3>3, Zenon
  <2>7. Promised(final', world, origins)
    BY <1>2, <2>6 DEF Promised, IsMade
  <2>8. TripInv'
    BY <1>9, <2>2, <2>7
  <2>9. outcome' # "disconnected"
    BY <2>2
  <2> QED
    BY <2>4, <2>6, <2>8, <2>9
<1> QED
  BY <1>4, <1>10, <1>11, <1>12

-----------------------------------------------------------------------------
(* The theorems.                                                           *)

Inv == TripInv /\ SolveIsExact /\ BreaksExplainTheFailure

\* The invariant holds initially.
LEMMA Initially == Init => Inv
<1> SUFFICES ASSUME Init PROVE Inv
  OBVIOUS
<1>1. /\ world = <<>> /\ origins = <<>> /\ stamps = <<>> /\ trellis = NoTrellis
      /\ state = "Empty" /\ outcome = "none" /\ final = <<>>
  BY DEF Init
<1>2. WorldOK(world)
  BY <1>1 DEF WorldOK
<1>3. LayersOK(world, origins) /\ StampsOK(stamps, origins)
  BY <1>1 DEF LayersOK, StampsOK
<1>4. TrellisOK(trellis, world, origins)
  BY <1>1 DEF TrellisOK, NoTrellis
<1>5. Promised(final, world, origins)
  BY <1>1 DEF Promised
<1>6. TripInv
  BY <1>1, <1>2, <1>3, <1>4, <1>5 DEF TripInv
<1>7. SolveIsExact /\ BreaksExplainTheFailure
  BY <1>1 DEF SolveIsExact, BreaksExplainTheFailure
<1> QED
  BY <1>6, <1>7 DEF Inv

\* A step that solves nothing says nothing.
LEMMA Silent ==
    ASSUME outcome' = "none"
    PROVE  SolveIsExact' /\ BreaksExplainTheFailure'
  BY DEF SolveIsExact, BreaksExplainTheFailure

\* Every step preserves the invariant and what had converged.
LEMMA Stepwise ==
    ASSUME Inv, [Next]_vars
    PROVE  Inv' /\ ((state' = "Solved" /\ state = "Building") => IsPrefix(final, final'))
<1> USE DEF Inv
<1>1. CASE Push
  <2>1. outcome' = "none" /\ state' = "Building"
    BY <1>1 DEF Push
  <2> QED
    BY <1>1, <2>1, PushKeeps, Silent
<1>2. CASE Slide
  <2>1. PICK n : Keep(n) /\ final' = <<>>
    BY <1>2, Zenon DEF Slide
  <2>2. outcome' = "none" /\ state' = "Building"
    BY <2>1 DEF Keep
  <2> QED
    BY <2>1, <2>2, KeepKeeps, Silent
<1>3. CASE Cut
  <2>1. PICK n : Keep(n) /\ final' = <<>>
    BY <1>3, Zenon DEF Cut
  <2>2. outcome' = "none" /\ state' = "Building"
    BY <2>1 DEF Keep
  <2> QED
    BY <2>1, <2>2, KeepKeeps, Silent
<1>4. CASE Solve
  <2>1. PICK t : IsMade(t, world, origins)
    BY DEF IsMade
  <2>2. /\ TripInv' /\ Exact(t, outcome', path')
        /\ outcome' = "disconnected" => Explained(t, breaks')
        /\ state' = "Solved" => IsPrefix(final, final')
    BY <1>4, <2>1, SolveFacts
  <2>3. world' = world /\ origins' = origins
    BY <1>4 DEF Solve
  <2>4. Truth' = t
    BY <2>1, <2>3, Zenon DEF Truth, IsMade, Made
  <2>5. SolveIsExact'
    BY <2>2, <2>4, Zenon DEF SolveIsExact, Exact
  <2>6. BreaksExplainTheFailure'
    BY <2>2, <2>4, Zenon DEF BreaksExplainTheFailure, Explained, Present, Since
  <2> QED
    BY <2>2, <2>5, <2>6
<1>5. CASE UNCHANGED vars
  <2>1. /\ world' = world /\ origins' = origins /\ stamps' = stamps /\ trellis' = trellis /\ state' = state
        /\ path' = path /\ outcome' = outcome /\ breaks' = breaks /\ final' = final
    BY <1>5 DEF vars
  <2>2. TripInv'
    BY <2>1, Zenon DEF TripInv
  <2>3. Truth' = Truth
    BY <2>1, Zenon DEF Truth
  <2>4. SolveIsExact'
    BY <2>1, <2>3, Zenon DEF SolveIsExact
  <2>5. BreaksExplainTheFailure'
    BY <2>1, <2>3, Zenon DEF BreaksExplainTheFailure
  <2> QED
    BY <2>1, <2>2, <2>4, <2>5
<1> QED
  BY <1>1, <1>2, <1>3, <1>4, <1>5 DEF Next

\* The invariant holds in every state.
LEMMA Invariance == Spec => []Inv
<1>1. Init => Inv
  BY Initially
<1>2. Inv /\ [Next]_vars => Inv'
  BY Stepwise
<1> QED
  BY <1>1, <1>2, PTL DEF Spec

\* Matcher::solve is exact for any emissions, transitions and infinity, and
\* trips of any length, however they were grown, solved, slid and cut: what it
\* certifies is a path of least cost through the trip's own observations, and
\* it fails only when every path costs infinity.
THEOREM TripSolvesExactly == Spec => []SolveIsExact
<1>1. Inv => SolveIsExact
  BY DEF Inv
<1> QED
  BY <1>1, Invariance, PTL

\* A failed Matcher::solve reports boundaries (the pending ones, or those of
\* frontier_collapse) that no path crosses since the one reported before, and
\* none exactly when edges lead all the way through.
THEOREM TripExplainsFailures == Spec => []BreaksExplainTheFailure
<1>1. Inv => BreaksExplainTheFailure
  BY DEF Inv
<1> QED
  BY <1>1, Invariance, PTL

\* What Matcher::convergence reports as converged is never changed by a later
\* solve of the same window, whatever is appended in between: the promise of
\* Solver::convergence in routers_trellis.
THEOREM ConvergedIsFinal == Spec => ConvergedPrefixIsStable
<1>1. Inv /\ [Next]_vars => [(state' = "Solved" /\ state = "Building") => IsPrefix(final, final')]_vars
  BY Stepwise
<1> QED
  BY <1>1, Invariance, PTL DEF Spec, ConvergedPrefixIsStable
=============================================================================
