---------------------------- MODULE ShardsProofs ----------------------------
(***************************************************************************)
(* Sharding loses no road and serves no wrong shard, and the shards of a   *)
(* window answer as the whole network does, for every network, strategy of *)
(* cells, padding and order of the edges.                                  *)
(***************************************************************************)
EXTENDS Shards, SetLemmas

-----------------------------------------------------------------------------
(* Functions on part of a set, and how they are joined.                    *)

Partial(K, V) == UNION {[D -> V] : D \in SUBSET K}

\* A function on part of K is known by its domain and its values.
LEMMA PartialIs ==
    ASSUME NEW K, NEW V, NEW f
    PROVE  f \in Partial(K, V) <=>
             /\ f = [k \in DOMAIN f |-> f[k]] /\ DOMAIN f \subseteq K
             /\ \A k \in DOMAIN f : f[k] \in V
  BY DEF Partial

\* The empty sequence is the function on nothing.
LEMMA EmptyIsPartial ==
    ASSUME NEW K, NEW V
    PROVE  <<>> \in Partial(K, V) /\ DOMAIN <<>> = {}
<1>1. DOMAIN <<>> = {}
  OBVIOUS
<1>2. <<>> = [k \in DOMAIN <<>> |-> <<>>[k]]
  OBVIOUS
<1> QED
  BY <1>1, <1>2, PartialIs

\* One function over another stays within the sets of both.
LEMMA MergeIsPartial ==
    ASSUME NEW K, NEW V, NEW f \in Partial(K, V), NEW g \in Partial(K, V)
    PROVE  Over(f, g) \in Partial(K, V)
<1> DEFINE h == Over(f, g)
<1>1. /\ DOMAIN f \subseteq K /\ (\A k \in DOMAIN f : f[k] \in V)
      /\ DOMAIN g \subseteq K /\ (\A k \in DOMAIN g : g[k] \in V)
  BY PartialIs
<1>2. /\ DOMAIN h = DOMAIN f \cup DOMAIN g
      /\ \A k \in DOMAIN f : h[k] = f[k]
      /\ \A k \in DOMAIN g \ DOMAIN f : h[k] = g[k]
      /\ h = [k \in DOMAIN h |-> h[k]]
  BY DEF Over
<1> HIDE DEF h
<1>3. \A k \in DOMAIN h : h[k] \in V
  <2> SUFFICES ASSUME NEW k \in DOMAIN h PROVE h[k] \in V
    OBVIOUS
  <2>1. k \in DOMAIN f \/ k \in DOMAIN g \ DOMAIN f
    BY <1>2
  <2> QED
    BY <1>1, <1>2, <2>1
<1>4. DOMAIN h \subseteq K
  BY <1>1, <1>2
<1>5. h \in Partial(K, V)
  BY <1>2, <1>3, <1>4, PartialIs
<1> QED
  BY <1>5 DEF h

LEMMA OneIsPartial ==
    ASSUME NEW K, NEW V, NEW k \in K, NEW v \in V
    PROVE  One(k, v) \in Partial(K, V)
<1>1. One(k, v) \in [{k} -> V] /\ {k} \in SUBSET K
  BY DEF One
<1> QED
  BY <1>1 DEF Partial

-----------------------------------------------------------------------------
(* The walk over the edges of the source.                                  *)

\* A source the generator can be given.
SourceOK(src) ==
    /\ src.nodes \in [DOMAIN src.nodes -> Int \X Int]
    /\ src.edges \in Seq(ToSet(src.edges))
    /\ \A i \in DOMAIN src.edges : src.edges[i].weight \in Nat
    /\ \A i, j \in DOMAIN src.edges :
         src.edges[i].from = src.edges[j].from /\ src.edges[i].to = src.edges[j].to => i = j

PlacedNodes(src) == DOMAIN src.nodes
Weighted(src) == [weight : Nat, id : {EdgeId(n) : n \in PlacedNodes(src)}]
Metas(src) == {src.edges[i].meta : i \in DOMAIN src.edges}

\* What a network is before its indices are built.
Nets(src, sel) ==
    [graph : Partial(PlacedNodes(src) \X PlacedNodes(src), Weighted(src)),
     hash : Partial(PlacedNodes(src), Int \X Int),
     meta : Partial(PlacedNodes(src), Metas(src)),
     index : {<<>>}, index_edge : {<<>>},
     owned : {sel.owned}, loaded : {sel.loaded}]

AdmittedNodes(src, st, selection) == {n \in DOMAIN src.nodes : Admits(st, selection, src.nodes[n])}
Begun(src, sel, admitted) ==
    [graph |-> <<>>, hash |-> [n \in admitted |-> src.nodes[n]], meta |-> <<>>,
     index |-> <<>>, index_edge |-> <<>>, owned |-> sel.owned, loaded |-> sel.loaded]

\* The networks the walk goes through from a.
IsWalk(f, src, a) ==
    f = [i \in 0 .. Len(src.edges) |-> IF i = 0 THEN a ELSE TakeEdge(src, f[i - 1], src.edges[i])]
Walk(src, a) == CHOOSE f : IsWalk(f, src, a)

\* from_source walks from the admitted nodes.
LEMMA FromSourceWalks ==
    ASSUME NEW src, NEW st, NEW selection
    PROVE  from_source(src, st, selection) =
             ShardIndices(Walk(src, Begun(src, selection, AdmittedNodes(src, st, selection)))[Len(src.edges)])
  BY Zenon DEF from_source, Walk, IsWalk, Begun, AdmittedNodes

\* The walk begins with the admitted nodes where the source has them.
LEMMA BegunIs ==
    ASSUME NEW src, SourceOK(src), NEW sel, NEW A, A \subseteq PlacedNodes(src)
    PROVE  /\ Begun(src, sel, A) \in Nets(src, sel)
           /\ Begun(src, sel, A).graph = <<>> /\ Begun(src, sel, A).meta = <<>>
           /\ DOMAIN Begun(src, sel, A).hash = A /\ \A n \in A : Begun(src, sel, A).hash[n] = src.nodes[n]
<1> DEFINE h == [n \in A |-> src.nodes[n]]
<1>1. Begun(src, sel, A) = [graph |-> <<>>, hash |-> h, meta |-> <<>>, index |-> <<>>, index_edge |-> <<>>,
              owned |-> sel.owned, loaded |-> sel.loaded]
  BY DEF Begun, EmptyNetwork
<1>2. \A n \in A : n \in DOMAIN src.nodes /\ src.nodes[n] \in Int \X Int
  BY DEF SourceOK, PlacedNodes
<1>3. h = [n \in DOMAIN h |-> h[n]] /\ DOMAIN h = A /\ \A n \in A : h[n] = src.nodes[n]
  OBVIOUS
<1> HIDE DEF h
<1>4. h \in Partial(PlacedNodes(src), Int \X Int)
  BY <1>2, <1>3, PartialIs
<1>5. Begun(src, sel, A) \in Nets(src, sel)
  BY <1>1, <1>4, EmptyIsPartial DEF Nets
<1> QED
  BY <1>1, <1>3, <1>5

\* One edge: it is left out when its start is not in or its end nowhere;
\* otherwise it is added, with its end.
LEMMA TakeEdgeIs ==
    ASSUME NEW src, SourceOK(src), NEW sel, NEW net \in Nets(src, sel),
           NEW e, e.weight \in Nat, e.meta \in Metas(src)
    PROVE  /\ TakeEdge(src, net, e) \in Nets(src, sel)
           /\ e.from \notin DOMAIN net.hash \/ e.to \notin PlacedNodes(src) => TakeEdge(src, net, e) = net
           /\ e.from \in DOMAIN net.hash /\ e.to \in PlacedNodes(src) =>
                /\ e.from \in PlacedNodes(src)
                /\ TakeEdge(src, net, e).hash = Over(net.hash, One(e.to, src.nodes[e.to]))
                /\ TakeEdge(src, net, e).graph =
                     Over(One(<<e.from, e.to>>, [weight |-> e.weight, id |-> EdgeId(e.from)]), net.graph)
                /\ TakeEdge(src, net, e).meta = Over(net.meta, One(e.from, e.meta))
<1>1. /\ net.hash \in Partial(PlacedNodes(src), Int \X Int) /\ DOMAIN net.hash \subseteq PlacedNodes(src)
      /\ net.graph \in Partial(PlacedNodes(src) \X PlacedNodes(src), Weighted(src))
      /\ net.meta \in Partial(PlacedNodes(src), Metas(src))
      /\ net.index = <<>> /\ net.index_edge = <<>> /\ net.owned = sel.owned /\ net.loaded = sel.loaded
      /\ net = [graph |-> net.graph, hash |-> net.hash, meta |-> net.meta, index |-> net.index, index_edge |-> net.index_edge,
              owned |-> net.owned, loaded |-> net.loaded]
  BY PartialIs DEF Nets
<1>2. CASE e.from \notin DOMAIN net.hash \/ e.to \notin PlacedNodes(src)
  <2>1. TakeEdge(src, net, e) = net
    BY <1>1, <1>2 DEF TakeEdge, PlacedNodes
  <2> QED
    BY <1>2, <2>1
<1>3. CASE e.from \in DOMAIN net.hash /\ e.to \in PlacedNodes(src)
  <2> DEFINE h == Over(net.hash, One(e.to, src.nodes[e.to]))
             g == Over(One(<<e.from, e.to>>, [weight |-> e.weight, id |-> EdgeId(e.from)]), net.graph)
             m == Over(net.meta, One(e.from, e.meta))
  <2>1. TakeEdge(src, net, e) = [net EXCEPT !.hash = h, !.graph = g, !.meta = m]
    BY <1>3 DEF TakeEdge, PlacedNodes, add_edge, Edge
  <2>2. e.from \in PlacedNodes(src) /\ e.weight \in Nat /\ e.meta \in Metas(src) /\ src.nodes[e.to] \in Int \X Int
    BY <1>1, <1>3 DEF SourceOK, PlacedNodes
  <2>3. h \in Partial(PlacedNodes(src), Int \X Int)
    <3>1. One(e.to, src.nodes[e.to]) \in Partial(PlacedNodes(src), Int \X Int)
      BY <1>3, <2>2, OneIsPartial
    <3> QED
      BY <1>1, <3>1, MergeIsPartial
  <2>4. g \in Partial(PlacedNodes(src) \X PlacedNodes(src), Weighted(src))
    <3>1. [weight |-> e.weight, id |-> EdgeId(e.from)] \in Weighted(src)
      BY <2>2 DEF Weighted
    <3>2. <<e.from, e.to>> \in PlacedNodes(src) \X PlacedNodes(src)
      BY <1>3, <2>2
    <3> DEFINE one == One(<<e.from, e.to>>, [weight |-> e.weight, id |-> EdgeId(e.from)])
    <3>3. one \in Partial(PlacedNodes(src) \X PlacedNodes(src), Weighted(src))
      BY <3>1, <3>2, OneIsPartial
    <3> HIDE DEF one
    <3>4. Over(one, net.graph) \in Partial(PlacedNodes(src) \X PlacedNodes(src), Weighted(src))
      BY <1>1, <3>3, MergeIsPartial
    <3> QED
      BY <3>4 DEF one
  <2>5. m \in Partial(PlacedNodes(src), Metas(src))
    <3>1. One(e.from, e.meta) \in Partial(PlacedNodes(src), Metas(src))
      BY <2>2, OneIsPartial
    <3> QED
      BY <1>1, <3>1, MergeIsPartial
  <2> HIDE DEF h, g, m
  <2>6. TakeEdge(src, net, e) = [graph |-> g, hash |-> h, meta |-> m, index |-> <<>>, index_edge |-> <<>>,
              owned |-> sel.owned, loaded |-> sel.loaded]
    BY <1>1, <2>1
  <2>7. TakeEdge(src, net, e) \in Nets(src, sel)
    BY <2>3, <2>4, <2>5, <2>6 DEF Nets
  <2> QED
    BY <1>3, <2>2, <2>6, <2>7 DEF h, g, m
<1> QED
  BY <1>2, <1>3

\* What a network owes the edge e.
Carries(net, e) ==
    /\ <<e.from, e.to>> \in DOMAIN net.graph
    /\ net.graph[<<e.from, e.to>>] = [weight |-> e.weight, id |-> EdgeId(e.from)]

\* The nodes of a network are where the source has them, and the admitted
\* ones are among them.
NodesAre(src, A, net) ==
    /\ A \subseteq DOMAIN net.hash
    /\ \A n \in DOMAIN net.hash : net.hash[n] = src.nodes[n]

\* Its roads are the source's, with both ends and some metadata.
RoadsAre(src, i, net) ==
    \A pair \in DOMAIN net.graph :
      /\ pair[1] \in DOMAIN net.hash /\ pair[2] \in DOMAIN net.hash /\ pair[1] \in DOMAIN net.meta
      /\ \E j \in 1 .. i : pair = <<src.edges[j].from, src.edges[j].to>> /\ Carries(net, src.edges[j])

\* Its metadata is that of roads of the source.
MetasAre(src, i, net) ==
    \A n \in DOMAIN net.meta :
      \E j \in 1 .. i : /\ src.edges[j].from = n /\ src.edges[j].meta = net.meta[n]
                       /\ n \in PlacedNodes(src) /\ src.edges[j].to \in PlacedNodes(src)

\* The roads that leave an admitted node are in it.
RoadsAreIn(src, A, i, net) ==
    \A j \in 1 .. i :
      src.edges[j].from \in A /\ src.edges[j].to \in PlacedNodes(src) => Carries(net, src.edges[j])

\* The network after i edges.
Walked(src, sel, A, i, net) ==
    /\ net \in Nets(src, sel)
    /\ NodesAre(src, A, net)
    /\ RoadsAre(src, i, net)
    /\ MetasAre(src, i, net)
    /\ RoadsAreIn(src, A, i, net)

\* The walk begins right.
LEMMA WalkBegins ==
    ASSUME NEW src, SourceOK(src), NEW sel, NEW A, A \subseteq PlacedNodes(src)
    PROVE  Walked(src, sel, A, 0, Begun(src, sel, A))
<1>1. DOMAIN Begun(src, sel, A).graph = {} /\ DOMAIN Begun(src, sel, A).meta = {}
  BY BegunIs, EmptyIsPartial
<1> QED
  BY <1>1, BegunIs DEF Walked, NodesAre, RoadsAre, MetasAre, RoadsAreIn

\* And every edge keeps it so.
LEMMA WalkGoesOn ==
    ASSUME NEW src, SourceOK(src), NEW sel, NEW A, A \subseteq PlacedNodes(src),
           NEW k \in 1 .. Len(src.edges), NEW net, Walked(src, sel, A, k - 1, net)
    PROVE  Walked(src, sel, A, k, TakeEdge(src, net, src.edges[k]))
<1> DEFINE e == src.edges[k]
           new == TakeEdge(src, net, e)
<1>0. k \in DOMAIN src.edges /\ Len(src.edges) \in Nat /\ DOMAIN src.edges = 1 .. Len(src.edges)
  BY DEF SourceOK
<1>a. e.weight \in Nat /\ e.meta \in Metas(src)
  BY <1>0 DEF SourceOK, Metas
<1>1. net \in Nets(src, sel) /\ NodesAre(src, A, net) /\ RoadsAre(src, k - 1, net)
      /\ MetasAre(src, k - 1, net) /\ RoadsAreIn(src, A, k - 1, net)
  BY DEF Walked
<1>2. DOMAIN net.hash \subseteq PlacedNodes(src) /\ A \subseteq DOMAIN net.hash
  BY <1>1, PartialIs DEF Nets, NodesAre
<1>3. 1 .. k = (1 .. k - 1) \cup {k}
  BY <1>0
<1>4. CASE e.from \notin DOMAIN net.hash \/ e.to \notin PlacedNodes(src)
  <2>1. new = net
    BY <1>2, <1>4 DEF TakeEdge, PlacedNodes
  <2>2. ~ (e.from \in A /\ e.to \in PlacedNodes(src))
    BY <1>2, <1>4
  <2> HIDE DEF new
  <2>3. RoadsAre(src, k, net)
    BY <1>1, <1>3 DEF RoadsAre
  <2>4. MetasAre(src, k, net)
    BY <1>1, <1>3 DEF MetasAre
  <2>5. RoadsAreIn(src, A, k, net)
    BY <1>1, <1>3, <2>2 DEF RoadsAreIn
  <2>6. Walked(src, sel, A, k, net)
    BY <1>1, <2>3, <2>4, <2>5 DEF Walked
  <2> QED
    BY <2>1, <2>6 DEF new
<1>5. CASE e.from \in DOMAIN net.hash /\ e.to \in PlacedNodes(src)
  <2> DEFINE pair0 == <<e.from, e.to>>
             w == [weight |-> e.weight, id |-> EdgeId(e.from)]
             p == src.nodes[e.to]
  <2>1. /\ new \in Nets(src, sel) /\ e.from \in PlacedNodes(src)
        /\ new.hash = Over(net.hash, One(e.to, p))
        /\ new.graph = Over(One(pair0, w), net.graph)
        /\ new.meta = Over(net.meta, One(e.from, e.meta))
    <3> HIDE DEF e
    <3> QED
      BY <1>a, <1>1, <1>5, TakeEdgeIs
  <2> HIDE DEF new, pair0, w, p, e
  <2>2. /\ DOMAIN new.hash = DOMAIN net.hash \cup {e.to}
        /\ \A n \in DOMAIN net.hash : new.hash[n] = net.hash[n]
        /\ e.to \notin DOMAIN net.hash => new.hash[e.to] = p
    BY <2>1 DEF One, Over
  <2>3. /\ DOMAIN new.graph = DOMAIN net.graph \cup {pair0} /\ new.graph[pair0] = w
        /\ \A q \in DOMAIN net.graph : q # pair0 => new.graph[q] = net.graph[q]
    BY <2>1 DEF One, Over
  <2>4. /\ DOMAIN new.meta = DOMAIN net.meta \cup {e.from}
        /\ \A n \in DOMAIN net.meta : new.meta[n] = net.meta[n]
        /\ e.from \notin DOMAIN net.meta => new.meta[e.from] = e.meta
    BY <2>1 DEF One, Over
  <2>5. NodesAre(src, A, new)
    BY <1>1, <2>2 DEF NodesAre, p
  <2>6. Carries(new, e)
    BY <2>3 DEF Carries, pair0, w
  <2>7. ASSUME NEW j \in 1 .. k - 1, Carries(net, src.edges[j])
        PROVE  Carries(new, src.edges[j])
    <3>1. j \in DOMAIN src.edges /\ j # k
      BY <1>0
    <3>2. ~ (src.edges[j].from = e.from /\ src.edges[j].to = e.to)
      BY <1>0, <3>1 DEF SourceOK, e
    <3>3. <<src.edges[j].from, src.edges[j].to>> # pair0
      BY <3>2 DEF pair0
    <3> QED
      BY <2>3, <2>7, <3>3 DEF Carries
  <2>8. RoadsAre(src, k, new)
    <3> SUFFICES ASSUME NEW q \in DOMAIN new.graph
                 PROVE  /\ q[1] \in DOMAIN new.hash /\ q[2] \in DOMAIN new.hash /\ q[1] \in DOMAIN new.meta
                        /\ \E j \in 1 .. k : q = <<src.edges[j].from, src.edges[j].to>> /\ Carries(new, src.edges[j])
      BY DEF RoadsAre
    <3>1. CASE q = pair0
      <4>1. q[1] = e.from /\ q[2] = e.to /\ q = <<src.edges[k].from, src.edges[k].to>>
        BY <3>1 DEF pair0, e
      <4>2. k \in 1 .. k
        BY <1>0
      <4> QED
        BY <1>5, <2>2, <2>4, <2>6, <4>1, <4>2 DEF e
    <3>2. CASE q \in DOMAIN net.graph
      <4>1. q[1] \in DOMAIN net.hash /\ q[2] \in DOMAIN net.hash /\ q[1] \in DOMAIN net.meta
        BY <1>1, <3>2 DEF RoadsAre
      <4>2. PICK j \in 1 .. k - 1 : q = <<src.edges[j].from, src.edges[j].to>> /\ Carries(net, src.edges[j])
        BY <1>1, <3>2 DEF RoadsAre
      <4>3. Carries(new, src.edges[j]) /\ j \in 1 .. k
        BY <1>3, <2>7, <4>2
      <4> QED
        BY <2>2, <2>4, <4>1, <4>2, <4>3
    <3> QED
      BY <2>3, <3>1, <3>2
  <2>9. MetasAre(src, k, new)
    <3> SUFFICES ASSUME NEW n \in DOMAIN new.meta
                 PROVE  \E j \in 1 .. k : /\ src.edges[j].from = n /\ src.edges[j].meta = new.meta[n]
                                         /\ n \in PlacedNodes(src) /\ src.edges[j].to \in PlacedNodes(src)
      BY DEF MetasAre
    <3>1. CASE n \in DOMAIN net.meta
      BY <1>1, <1>3, <2>4, <3>1 DEF MetasAre
    <3>2. CASE n \notin DOMAIN net.meta
      <4>1. n = e.from /\ new.meta[n] = e.meta
        BY <2>4, <3>2
      <4>2. k \in 1 .. k
        BY <1>0
      <4> QED
        BY <1>5, <2>1, <4>1, <4>2 DEF e
    <3> QED
      BY <3>1, <3>2
  <2>10. RoadsAreIn(src, A, k, new)
    <3> SUFFICES ASSUME NEW j \in 1 .. k, src.edges[j].from \in A, src.edges[j].to \in PlacedNodes(src)
                 PROVE  Carries(new, src.edges[j])
      BY DEF RoadsAreIn
    <3>1. CASE j = k
      BY <2>6, <3>1 DEF e
    <3>2. CASE j \in 1 .. k - 1
      BY <1>1, <2>7, <3>2 DEF RoadsAreIn
    <3> QED
      BY <1>3, <3>1, <3>2
  <2>11. Walked(src, sel, A, k, new)
    BY <2>1, <2>5, <2>8, <2>9, <2>10 DEF Walked
  <2> QED
    BY <2>11 DEF new, e
<1> QED
  BY <1>4, <1>5

\* So the network at the end of the walk is what the edges make of it.
LEMMA WalkEnds ==
    ASSUME NEW src, SourceOK(src), NEW sel, NEW A, A \subseteq PlacedNodes(src)
    PROVE  Walked(src, sel, A, Len(src.edges), Walk(src, Begun(src, sel, A))[Len(src.edges)])
<1> DEFINE a == Begun(src, sel, A)
           n == Len(src.edges)
           V == [k \in 0 .. n |-> {net \in Nets(src, sel) : Walked(src, sel, A, k, net)}]
           G == [k \in 1 .. n |-> [net \in V[k - 1] |-> TakeEdge(src, net, src.edges[k])]]
           c == Walk(src, a)
<1>1. n \in Nat
  BY DEF SourceOK
<1>2. \A k \in 0 .. n : \A net : net \in V[k] <=> Walked(src, sel, A, k, net)
  BY DEF Walked
<1>3. \A k \in 1 .. n : \A net \in V[k - 1] : G[k][net] = TakeEdge(src, net, src.edges[k])
  OBVIOUS
<1>4. a \in V[0]
  <2>1. Walked(src, sel, A, 0, a)
    BY WalkBegins
  <2> HIDE DEF V, a
  <2> QED
    BY <1>1, <1>2, <2>1
<1>5. \A k \in 1 .. n : k - 1 \in 0 .. n /\ k \in 0 .. n /\ k # 0
  BY <1>1
<1> HIDE DEF a, V, G, c
<1>6. ASSUME NEW k \in 1 .. n, NEW net \in V[k - 1]
      PROVE  TakeEdge(src, net, src.edges[k]) \in V[k]
  <2>1. Walked(src, sel, A, k - 1, net)
    BY <1>2, <1>5
  <2>2. Walked(src, sel, A, k, TakeEdge(src, net, src.edges[k]))
    BY <2>1, WalkGoesOn
  <2> QED
    BY <1>2, <1>5, <2>2
<1> HIDE DEF n
<1>7. \E f : IsWalk(f, src, a)
  <2>1. Leads(G, V, 0, n)
    BY <1>3, <1>6 DEF Leads
  <2>2. 0 \in Int /\ n \in Int /\ 0 <= n
    BY <1>1
  <2>3. PICK f : Unrolls(f, a, G, V, 0, n)
    BY <1>4, <2>1, <2>2, RecursiveFunction
  <2>4. \A k \in 1 .. n : f[k] = TakeEdge(src, f[k - 1], src.edges[k])
    <3> SUFFICES ASSUME NEW k \in 1 .. n PROVE f[k] = TakeEdge(src, f[k - 1], src.edges[k])
      OBVIOUS
    <3>1. f[k - 1] \in V[k - 1] /\ f[k] = G[k][f[k - 1]]
      <4>1. k - 1 \in 0 .. n /\ k \in 0 + 1 .. n
        BY <1>5
      <4> QED
        BY <2>3, <4>1 DEF Unrolls
    <3> QED
      BY <1>3, <3>1
  <2>5. f = [k \in 0 .. n |-> IF k = 0 THEN a ELSE TakeEdge(src, f[k - 1], src.edges[k])]
    <3>1. f = [k \in 0 .. n |-> f[k]] /\ f[0] = a
      BY <2>3 DEF Unrolls
    <3>2. \A k \in 0 .. n : k = 0 \/ k \in 1 .. n
      BY <1>1
    <3>3. \A k \in 0 .. n : f[k] = IF k = 0 THEN a ELSE TakeEdge(src, f[k - 1], src.edges[k])
      BY <2>4, <3>1, <3>2
    <3> QED
      BY <3>1, <3>3
  <2>6. IsWalk(f, src, a)
    BY <2>5 DEF IsWalk, n
  <2> QED
    BY <2>6
<1>8. IsWalk(c, src, a)
  BY <1>7 DEF c, Walk
<1>9. c[0] = a /\ \A k \in 1 .. n : c[k] = TakeEdge(src, c[k - 1], src.edges[k])
  <2>1. c = [k \in 0 .. n |-> IF k = 0 THEN a ELSE TakeEdge(src, c[k - 1], src.edges[k])]
    BY <1>8 DEF IsWalk, n
  <2> DEFINE F(k) == IF k = 0 THEN a ELSE TakeEdge(src, c[k - 1], src.edges[k])
  <2>2. \A k \in 0 .. n : c[k] = F(k)
    <3>1. c = [k \in 0 .. n |-> F(k)]
      BY <2>1
    <3> HIDE DEF F
    <3> QED
      BY <3>1, Zenon
  <2>3. 0 \in 0 .. n
    BY <1>1
  <2> QED
    BY <1>5, <2>2, <2>3
<1> DEFINE T == {k \in 0 .. n : c[k] \in V[k]}
<1>10. 0 .. n \subseteq T
  <2>1. 0 \in T
    BY <1>1, <1>4, <1>9
  <2>2. \A k \in 0 + 1 .. n : k - 1 \in T => k \in T
    BY <1>5, <1>6, <1>9
  <2> HIDE DEF T
  <2>3. 0 \in Int /\ n \in Int
    BY <1>1
  <2> QED
    BY <2>1, <2>2, <2>3, RangeInd
<1>11. n \in 0 .. n
  BY <1>1
<1>12. c[n] \in V[n]
  BY <1>10, <1>11
<1>13. Walked(src, sel, A, n, c[n])
  BY <1>2, <1>11, <1>12
<1> QED
  BY <1>13 DEF n, c, a

-----------------------------------------------------------------------------
(* The shard: the network at the end of the walk, with its indices.        *)

NodeRows(net) == [n \in DOMAIN net.hash |-> <<net.hash[n], net.hash[n]>>]
EdgeRows(net) ==
    [pair \in {p \in DOMAIN net.graph : {p[1], p[2]} \subseteq DOMAIN net.hash} |->
       <<net.hash[pair[1]], net.hash[pair[2]]>>]

\* Indices are added to what the walk made, and nothing else is touched.
LEMMA ShardIndicesIs ==
    ASSUME NEW src, NEW sel, NEW w \in Nets(src, sel)
    PROVE  /\ ShardIndices(w).graph = w.graph /\ ShardIndices(w).hash = w.hash /\ ShardIndices(w).meta = w.meta
           /\ ShardIndices(w).owned = sel.owned /\ ShardIndices(w).loaded = sel.loaded
           /\ ShardIndices(w).index = build(NodeRows(w)) /\ ShardIndices(w).index_edge = build(EdgeRows(w))
           /\ ToCache(ShardIndices(w)) = w
<1> DEFINE x == build(NodeRows(w))
           y == build(EdgeRows(w))
<1>1. ShardIndices(w) = [w EXCEPT !.index = x, !.index_edge = y]
  BY DEF ShardIndices, NodeRows, EdgeRows
<1> HIDE DEF x, y
<1>2. PICK g, h, m, o, l :
        /\ w = [graph |-> g, hash |-> h, meta |-> m, index |-> <<>>, index_edge |-> <<>>, owned |-> o, loaded |-> l]
        /\ o = sel.owned /\ l = sel.loaded
  BY DEF Nets
<1>3. ShardIndices(w) = [graph |-> g, hash |-> h, meta |-> m, index |-> x, index_edge |-> y, owned |-> o, loaded |-> l]
  BY <1>1, <1>2
<1>4. ToCache(ShardIndices(w)) = w
  <2> DEFINE r == ShardIndices(w)
             e == <<>>
  <2>1. w = [graph |-> g, hash |-> h, meta |-> m, index |-> e, index_edge |-> e, owned |-> o, loaded |-> l]
    BY <1>2
  <2>2. ToCache(r) = [r EXCEPT !.index = e, !.index_edge = e]
    BY DEF ToCache
  <2>3. r = [graph |-> g, hash |-> h, meta |-> m, index |-> x, index_edge |-> y, owned |-> o, loaded |-> l]
    BY <1>3
  <2> HIDE DEF e, r
  <2>4. ToCache(r) = w
    BY <2>1, <2>2, <2>3
  <2> QED
    BY <2>4 DEF r
<1>5. w.graph = g /\ w.hash = h /\ w.meta = m
  BY <1>2
<1> QED
  BY <1>2, <1>3, <1>4, <1>5 DEF x, y

\* The shard of a selection.
Shard(src, sel, A, net) ==
    \E w : /\ Walked(src, sel, A, Len(src.edges), w) /\ net = ShardIndices(w)

\* from_source makes it.
LEMMA FromSourceIs ==
    ASSUME NEW src, SourceOK(src), NEW st, NEW sel
    PROVE  Shard(src, sel, AdmittedNodes(src, st, sel), from_source(src, st, sel))
<1> DEFINE A == AdmittedNodes(src, st, sel)
<1>1. A \subseteq PlacedNodes(src)
  BY DEF AdmittedNodes, PlacedNodes
<1> HIDE DEF A
<1>2. Walked(src, sel, A, Len(src.edges), Walk(src, Begun(src, sel, A))[Len(src.edges)])
  BY <1>1, WalkEnds
<1>3. from_source(src, st, sel) = ShardIndices(Walk(src, Begun(src, sel, A))[Len(src.edges)])
  BY FromSourceWalks DEF A
<1> QED
  BY <1>2, <1>3 DEF Shard, A

\* Its file, read back, is the shard again.
LEMMA CacheIsFaithful ==
    ASSUME NEW src, NEW sel, NEW A, NEW net, Shard(src, sel, A, net)
    PROVE  ShardIndices(ToCache(net)) = net
<1>1. PICK w : Walked(src, sel, A, Len(src.edges), w) /\ net = ShardIndices(w)
  BY DEF Shard
<1>2. w \in Nets(src, sel)
  BY <1>1 DEF Walked
<1>3. ToCache(ShardIndices(w)) = w
  BY <1>2, ShardIndicesIs
<1> QED
  BY <1>1, <1>3

\* What a shard has.
LEMMA ShardHas ==
    ASSUME NEW src, NEW sel, NEW A, NEW net, Shard(src, sel, A, net)
    PROVE  /\ net.graph \in Partial(PlacedNodes(src) \X PlacedNodes(src), Weighted(src))
           /\ net.hash \in Partial(PlacedNodes(src), Int \X Int)
           /\ net.meta \in Partial(PlacedNodes(src), Metas(src))
           /\ NodesAre(src, A, net) /\ RoadsAre(src, Len(src.edges), net)
           /\ MetasAre(src, Len(src.edges), net) /\ RoadsAreIn(src, A, Len(src.edges), net)
           /\ net.index = build(NodeRows(net)) /\ net.index_edge = build(EdgeRows(net))
<1>1. PICK w : Walked(src, sel, A, Len(src.edges), w) /\ net = ShardIndices(w)
  BY DEF Shard
<1>2. /\ w \in Nets(src, sel) /\ NodesAre(src, A, w) /\ RoadsAre(src, Len(src.edges), w)
      /\ MetasAre(src, Len(src.edges), w) /\ RoadsAreIn(src, A, Len(src.edges), w)
  BY <1>1 DEF Walked
<1>3. /\ net.graph = w.graph /\ net.hash = w.hash /\ net.meta = w.meta
      /\ net.index = build(NodeRows(w)) /\ net.index_edge = build(EdgeRows(w))
  BY <1>1, <1>2, ShardIndicesIs
<1>4. NodeRows(net) = NodeRows(w) /\ EdgeRows(net) = EdgeRows(w)
  BY <1>3 DEF NodeRows, EdgeRows
<1>5. /\ w.graph \in Partial(PlacedNodes(src) \X PlacedNodes(src), Weighted(src))
      /\ w.hash \in Partial(PlacedNodes(src), Int \X Int) /\ w.meta \in Partial(PlacedNodes(src), Metas(src))
  BY <1>2 DEF Nets
<1>6. NodesAre(src, A, net)
  BY <1>2, <1>3 DEF NodesAre
<1>7. RoadsAre(src, Len(src.edges), net)
  BY <1>2, <1>3 DEF RoadsAre, Carries
<1>8. MetasAre(src, Len(src.edges), net)
  BY <1>2, <1>3 DEF MetasAre
<1>9. RoadsAreIn(src, A, Len(src.edges), net)
  BY <1>2, <1>3 DEF RoadsAreIn, Carries
<1> QED
  BY <1>3, <1>4, <1>5, <1>6, <1>7, <1>8, <1>9

-----------------------------------------------------------------------------
(* The generator, the files and those who read them.                       *)

\* A whole file is that of the shard of its cell.
FilesAreOwn ==
    \A c \in DOMAIN disk : c \in done /\ (disk[c].whole => disk[c].net = ToCache(sharded_network(c)))

\* The manifest is written when all is done, and lists the whole files.
ManifestIsRight ==
    /\ done \subseteq SourceCells
    /\ manifest # {} => done = SourceCells /\ manifest = {{c \in DOMAIN disk : disk[c].whole}}

\* What was loaded is the shard of a whole file, loaded after the manifest.
LoadedIsOwn(shards) ==
    \A key \in DOMAIN shards :
      /\ shards[key] = sharded_network(key) /\ key \in DOMAIN disk /\ disk[key].whole
      /\ manifest # {}

\* A cell of the neighbourhood is held, or still to be fetched, or was
\* tried in vain, or has no good file; none of them may be evicted.
WindowIsFilling ==
    /\ center # {} \/ scoped # {} => manifest # {}
    /\ center = {} => scoped = {} /\ unscoped = {}
    /\ \A cell, other \in center : cell = other
    /\ \A cell \in center : \A key \in Scope(cell) :
         /\ key \notin unscoped
         /\ \/ key \in DOMAIN cache \/ key \in failed \/ FetchDecoded(key) = {}
            \/ \E entry \in scoped : entry[1] = key

ShardInv ==
    /\ source \in Sources
    /\ FilesAreOwn /\ ManifestIsRight
    /\ LoadedIsOwn(cache) /\ LoadedIsOwn(held)
    /\ WindowIsFilling

\* Every source is one the generator can be given.
LEMMA SourcesAreOK ==
    ASSUME NEW src \in Sources
    PROVE  SourceOK(src)
  BY SourcesAssumption DEF SourceOK

\* A whole file decodes to the shard of its cell.
LEMMA DecodedIsOwn ==
    ASSUME ShardInv, NEW key, NEW net \in FetchDecoded(key)
    PROVE  key \in DOMAIN disk /\ disk[key].whole /\ net = sharded_network(key)
<1>1. key \in DOMAIN disk /\ disk[key].whole /\ net = ShardIndices(disk[key].net)
  BY DEF FetchDecoded, from_cached_bytes
<1>2. disk[key].net = ToCache(sharded_network(key))
  BY <1>1 DEF ShardInv, FilesAreOwn
<1> DEFINE sel == Selection(Strategy, key, "OwnedAndPadded")
<1>3. Shard(source, sel, AdmittedNodes(source, Strategy, sel), sharded_network(key))
  <2>1. SourceOK(source)
    BY SourcesAreOK DEF ShardInv
  <2> HIDE DEF sel
  <2>2. Shard(source, sel, AdmittedNodes(source, Strategy, sel), from_source(source, Strategy, sel))
    BY <2>1, FromSourceIs
  <2> QED
    BY <2>2 DEF sharded_network, sel
<1> HIDE DEF sel
<1>4. ShardIndices(ToCache(sharded_network(key))) = sharded_network(key)
  BY <1>3, CacheIsFaithful
<1> QED
  BY <1>1, <1>2, <1>4

\* Nothing is there to begin with.
LEMMA ShardInvInit == Init => ShardInv
<1> SUFFICES ASSUME Init PROVE ShardInv
  OBVIOUS
<1>1. DOMAIN disk = {} /\ DOMAIN cache = {} /\ DOMAIN held = {}
  BY EmptyIsPartial DEF Init
<1>2. FilesAreOwn /\ ManifestIsRight /\ LoadedIsOwn(cache) /\ LoadedIsOwn(held)
  BY <1>1 DEF Init, FilesAreOwn, ManifestIsRight, LoadedIsOwn
<1>3. WindowIsFilling
  BY DEF Init, WindowIsFilling
<1> QED
  BY <1>2, <1>3 DEF Init, ShardInv

\* The shards of a source that stays are the same in the next state.
LEMMA ShardsStay ==
    ASSUME UNCHANGED source
    PROVE  SourceCells' = SourceCells /\ \A c : sharded_network(c)' = sharded_network(c)
  BY DEF SourceCells, sharded_network

\* And so is what a fetch gives, if the files stay.
LEMMA FetchesStay ==
    ASSUME UNCHANGED disk
    PROVE  \A key : FetchDecoded(key)' = FetchDecoded(key)
  BY DEF FetchDecoded

\* A file is built, saved or not.
LEMMA GenerateKeeps ==
    ASSUME ShardInv, NEW saved \in {"ok", "cut", "none"}, Generate(saved)
    PROVE  ShardInv'
<1> DEFINE cell == CHOOSE c \in SourceCells \ done : TRUE
<1>1. /\ done # SourceCells
      /\ disk' = CASE saved = "ok" -> Over(One(cell, [whole |-> TRUE, net |-> ToCache(sharded_network(cell))]), disk)
                   [] saved = "cut" -> Over(One(cell, [whole |-> FALSE, net |-> EmptyNetwork]), disk)
                   [] saved = "none" -> disk
      /\ done' = done \cup {cell}
      /\ UNCHANGED <<source, manifest, center, cache, scoped, unscoped, failed, held>>
  BY DEF Generate, window
<1>2. cell \in SourceCells
  <2>1. \E c : c \in SourceCells \ done
    BY <1>1 DEF ShardInv, ManifestIsRight
  <2> QED
    BY <2>1
<1> HIDE DEF cell
<1>3. manifest = {} /\ manifest' = {}
  BY <1>1 DEF ShardInv, ManifestIsRight
<1>4. SourceCells' = SourceCells /\ \A c : sharded_network(c)' = sharded_network(c)
  BY <1>1, ShardsStay
<1>5. FilesAreOwn'
  <2> DEFINE ok == [whole |-> TRUE, net |-> ToCache(sharded_network(cell))]
             cut == [whole |-> FALSE, net |-> EmptyNetwork]
             Right(c) == c \in done' /\ (disk'[c].whole => disk'[c].net = ToCache(sharded_network(c)))
  <2>1. ASSUME NEW file \in {ok, cut}, disk' = Over(One(cell, file), disk), NEW c \in DOMAIN disk'
        PROVE  Right(c)
    <3> HIDE DEF ok, cut
    <3>1. /\ DOMAIN disk' = DOMAIN disk \cup {cell} /\ disk'[cell] = file
          /\ \A x \in DOMAIN disk : x # cell => disk'[x] = disk[x]
      BY <2>1 DEF One, Over
    <3>2. CASE c = cell
      <4>1. file.whole => file.net = ToCache(sharded_network(cell))
        BY DEF ok, cut
      <4> QED
        BY <1>1, <3>1, <3>2, <4>1
    <3>3. CASE c # cell
      BY <1>1, <3>1, <3>3, <2>1 DEF ShardInv, FilesAreOwn
    <3> QED
      BY <3>2, <3>3
  <2>2. ASSUME disk' = disk, NEW c \in DOMAIN disk'
        PROVE  Right(c)
    BY <1>1, <2>2 DEF ShardInv, FilesAreOwn
  <2>3. \/ disk' = Over(One(cell, ok), disk) \/ disk' = Over(One(cell, cut), disk) \/ disk' = disk
    BY <1>1
  <2>4. \A c \in DOMAIN disk' : Right(c)
    <3> HIDE DEF ok, cut, Right
    <3> QED
      BY <2>1, <2>2, <2>3
  <2> QED
    BY <1>4, <2>4 DEF FilesAreOwn, ToCache
<1>6. ManifestIsRight'
  BY <1>1, <1>2, <1>3, <1>4 DEF ShardInv, ManifestIsRight
<1>7. LoadedIsOwn(cache)' /\ LoadedIsOwn(held)'
  BY <1>1, <1>3 DEF ShardInv, LoadedIsOwn
<1>8. WindowIsFilling'
  BY <1>1, <1>3 DEF ShardInv, WindowIsFilling
<1> QED
  BY <1>1, <1>5, <1>6, <1>7, <1>8 DEF ShardInv

\* The manifest is written.
LEMMA WriteManifestKeeps ==
    ASSUME ShardInv, WriteManifest
    PROVE  ShardInv'
<1>1. /\ manifest = {} /\ done = SourceCells /\ manifest' = {{c \in DOMAIN disk : disk[c].whole}}
      /\ UNCHANGED <<source, disk, done, center, cache, scoped, unscoped, failed, held>>
  BY DEF WriteManifest, window
<1>2. SourceCells' = SourceCells /\ \A c : sharded_network(c)' = sharded_network(c)
  BY <1>1, ShardsStay
<1>3. FilesAreOwn'
  BY <1>1, <1>2 DEF ShardInv, FilesAreOwn, ToCache
<1>4. ManifestIsRight'
  BY <1>1, <1>2 DEF ShardInv, ManifestIsRight
<1>5. LoadedIsOwn(cache)' /\ LoadedIsOwn(held)'
  BY <1>1, <1>2 DEF ShardInv, LoadedIsOwn
<1>6. WindowIsFilling'
  BY <1>1 DEF ShardInv, WindowIsFilling
<1> QED
  BY <1>1, <1>3, <1>4, <1>5, <1>6 DEF ShardInv

\* While nothing is generated, the files and the manifest stay right.
LEMMA ReadingKeeps ==
    ASSUME ShardInv, UNCHANGED <<source, disk, done, manifest>>
    PROVE  /\ source' \in Sources /\ FilesAreOwn' /\ ManifestIsRight'
           /\ cache' = cache => LoadedIsOwn(cache)'
           /\ held' = held => LoadedIsOwn(held)'
<1>1. SourceCells' = SourceCells /\ \A c : sharded_network(c)' = sharded_network(c)
  BY ShardsStay
<1>2. FilesAreOwn'
  BY <1>1 DEF ShardInv, FilesAreOwn, ToCache
<1>3. ManifestIsRight'
  BY <1>1 DEF ShardInv, ManifestIsRight
<1> QED
  BY <1>1, <1>2, <1>3 DEF ShardInv, LoadedIsOwn

\* A shard is put among those that are loaded.
LEMMA PutKeeps ==
    ASSUME ShardInv, UNCHANGED <<source, disk, done, manifest>>, manifest # {},
           NEW key, NEW net \in FetchDecoded(key)
    PROVE  /\ cache' = Over(One(key, net), cache) => LoadedIsOwn(cache)' /\ DOMAIN cache' = DOMAIN cache \cup {key}
           /\ held' = Over(One(key, net), held) => LoadedIsOwn(held)'
<1>1. \A c : sharded_network(c)' = sharded_network(c)
  BY ShardsStay
<1>2. key \in DOMAIN disk /\ disk[key].whole /\ net = sharded_network(key)
  BY DecodedIsOwn
<1>3. ASSUME cache' = Over(One(key, net), cache)
      PROVE  LoadedIsOwn(cache)' /\ DOMAIN cache' = DOMAIN cache \cup {key}
  <2>1. /\ DOMAIN cache' = DOMAIN cache \cup {key} /\ cache'[key] = net
        /\ \A x \in DOMAIN cache : x # key => cache'[x] = cache[x]
    BY <1>3 DEF One, Over
  <2> SUFFICES ASSUME NEW k \in DOMAIN cache'
               PROVE  /\ cache'[k] = sharded_network(k)'
                      /\ k \in DOMAIN disk' /\ disk'[k].whole /\ manifest' # {}
    BY <2>1 DEF LoadedIsOwn
  <2>2. CASE k = key
    BY <1>1, <1>2, <2>1, <2>2
  <2>3. CASE k # key
    <3>1. k \in DOMAIN cache /\ cache'[k] = cache[k]
      BY <2>1, <2>3
    <3>2. cache[k] = sharded_network(k) /\ k \in DOMAIN disk /\ disk[k].whole
      BY <3>1 DEF ShardInv, LoadedIsOwn
    <3> QED
      BY <1>1, <3>1, <3>2
  <2> QED
    BY <2>2, <2>3
<1>4. ASSUME held' = Over(One(key, net), held)
      PROVE  LoadedIsOwn(held)'
  <2>1. /\ DOMAIN held' = DOMAIN held \cup {key} /\ held'[key] = net
        /\ \A x \in DOMAIN held : x # key => held'[x] = held[x]
    BY <1>4 DEF One, Over
  <2> SUFFICES ASSUME NEW k \in DOMAIN held'
               PROVE  /\ held'[k] = sharded_network(k)'
                      /\ k \in DOMAIN disk' /\ disk'[k].whole /\ manifest' # {}
    BY <2>1 DEF LoadedIsOwn
  <2>2. CASE k = key
    BY <1>1, <1>2, <2>1, <2>2
  <2>3. CASE k # key
    <3>1. k \in DOMAIN held /\ held'[k] = held[k]
      BY <2>1, <2>3
    <3>2. held[k] = sharded_network(k) /\ k \in DOMAIN disk /\ disk[k].whole
      BY <3>1 DEF ShardInv, LoadedIsOwn
    <3> QED
      BY <1>1, <3>1, <3>2
  <2> QED
    BY <2>2, <2>3
<1> QED
  BY <1>3, <1>4

\* The loader loads a shard.
LEMMA LoadKeeps ==
    ASSUME ShardInv, NEW key, Load(key)
    PROVE  ShardInv'
<1>1. manifest # {} /\ UNCHANGED <<source, disk, done, manifest, center, cache, scoped, unscoped, failed>>
  BY DEF Load, gen, window
<1>2. PICK net \in FetchDecoded(key) : held' = Over(One(key, net), held)
  BY DEF Load
<1>3. LoadedIsOwn(held)'
  BY <1>1, <1>2, PutKeeps
<1>4. source' \in Sources /\ FilesAreOwn' /\ ManifestIsRight' /\ LoadedIsOwn(cache)'
  BY <1>1, ReadingKeeps
<1>5. WindowIsFilling'
  <2>1. \A k : FetchDecoded(k)' = FetchDecoded(k)
    BY <1>1, FetchesStay
  <2> QED
    BY <1>1, <2>1 DEF ShardInv, WindowIsFilling
<1> QED
  BY <1>3, <1>4, <1>5 DEF ShardInv

\* The view moves: all of the new neighbourhood is to be fetched.
LEMMA RecenterKeeps ==
    ASSUME ShardInv, NEW p, Recenter(p)
    PROVE  ShardInv'
<1>1. manifest # {} /\ UNCHANGED <<source, disk, done, manifest, cache, held>>
  BY DEF Recenter, gen
<1>2. source' \in Sources /\ FilesAreOwn' /\ ManifestIsRight' /\ LoadedIsOwn(cache)' /\ LoadedIsOwn(held)'
  BY <1>1, ReadingKeeps
<1> DEFINE c == locate(Strategy, p)
<1>3. WindowIsFilling'
  <2>1. \A k : FetchDecoded(k)' = FetchDecoded(k)
    BY <1>1, FetchesStay
  <2>2. CASE UNCHANGED <<center, scoped, unscoped, failed>>
    BY <1>1, <2>1, <2>2 DEF ShardInv, WindowIsFilling
  <2>3. CASE /\ center' = {c} /\ scoped' = ScopedKeys(c) /\ unscoped' = DOMAIN cache \ Scope(c)
    <3> HIDE DEF c
    <3>1. ASSUME NEW key \in Scope(c)
          PROVE  key \notin unscoped' /\ \E entry \in scoped' : entry[1] = key
      <4>1. key \in neighbours(Strategy, c) \/ key = c
        BY DEF Scope
      <4>2. CASE key = c
        <5>1. <<c, "centre">> \in scoped'
          BY <2>3 DEF ScopedKeys
        <5> QED
          BY <2>3, <4>2, <5>1
      <4>3. CASE key \in neighbours(Strategy, c)
        <5>1. <<key, "neighbour">> \in scoped'
          BY <2>3, <4>3 DEF ScopedKeys
        <5> QED
          BY <2>3, <5>1
      <4> QED
        BY <4>1, <4>2, <4>3
    <3> QED
      BY <1>1, <2>3, <3>1 DEF WindowIsFilling
  <2> QED
    BY <2>2, <2>3 DEF Recenter
<1> QED
  BY <1>2, <1>3 DEF ShardInv

\* A key is fetched.
LEMMA FetchKeeps ==
    ASSUME ShardInv, Fetch
    PROVE  ShardInv'
<1>1. scoped # {} /\ UNCHANGED <<source, disk, done, manifest, center, unscoped, failed, held>>
      /\ scoped' = scoped \ {Turn}
  BY DEF Fetch, gen
<1>2. manifest # {}
  BY <1>1 DEF ShardInv, WindowIsFilling
<1>3. PICK net \in FetchDecoded(Turn[1]) : cache' = Over(One(Turn[1], net), cache)
  BY DEF Fetch
<1>4. LoadedIsOwn(cache)' /\ DOMAIN cache' = DOMAIN cache \cup {Turn[1]}
  BY <1>1, <1>2, <1>3, PutKeeps
<1>5. source' \in Sources /\ FilesAreOwn' /\ ManifestIsRight' /\ LoadedIsOwn(held)'
  BY <1>1, ReadingKeeps
<1>6. WindowIsFilling'
  <2>1. \A k : FetchDecoded(k)' = FetchDecoded(k)
    BY <1>1, FetchesStay
  <2>2. \A entry \in scoped : entry \in scoped' \/ entry[1] \in DOMAIN cache'
    BY <1>1, <1>4
  <2> QED
    BY <1>1, <1>4, <2>1, <2>2 DEF ShardInv, WindowIsFilling
<1> QED
  BY <1>4, <1>5, <1>6 DEF ShardInv

\* A fetch fails.
LEMMA FetchFailsKeeps ==
    ASSUME ShardInv, FetchFails
    PROVE  ShardInv'
<1>1. scoped # {} /\ UNCHANGED <<source, disk, done, manifest, center, cache, unscoped, held>>
      /\ scoped' = scoped \ {Turn} /\ failed' = failed \cup {Turn[1]}
  BY DEF FetchFails, gen
<1>2. source' \in Sources /\ FilesAreOwn' /\ ManifestIsRight' /\ LoadedIsOwn(cache)' /\ LoadedIsOwn(held)'
  BY <1>1, ReadingKeeps
<1>3. WindowIsFilling'
  <2>1. \A k : FetchDecoded(k)' = FetchDecoded(k)
    BY <1>1, FetchesStay
  <2>2. \A entry \in scoped : entry \in scoped' \/ entry[1] \in failed'
    BY <1>1
  <2> QED
    BY <1>1, <2>1, <2>2 DEF ShardInv, WindowIsFilling
<1> QED
  BY <1>2, <1>3 DEF ShardInv

\* A shard is evicted; it is none of the neighbourhood.
LEMMA EvictKeeps ==
    ASSUME ShardInv, Evict
    PROVE  ShardInv'
<1>1. UNCHANGED <<source, disk, done, manifest, center, scoped, failed, held>>
  BY DEF Evict, gen
<1>2. PICK key \in unscoped : /\ cache' = [c \in DOMAIN cache \ {key} |-> cache[c]]
                              /\ unscoped' = unscoped \ {key}
  BY DEF Evict
<1>3. source' \in Sources /\ FilesAreOwn' /\ ManifestIsRight' /\ LoadedIsOwn(held)'
  BY <1>1, ReadingKeeps
<1>4. LoadedIsOwn(cache)'
  <2>1. \A c : sharded_network(c)' = sharded_network(c)
    BY <1>1, ShardsStay
  <2> QED
    BY <1>1, <1>2, <2>1 DEF ShardInv, LoadedIsOwn
<1>5. WindowIsFilling'
  <2>1. \A k : FetchDecoded(k)' = FetchDecoded(k)
    BY <1>1, FetchesStay
  <2>2. \A k \in DOMAIN cache : k \in DOMAIN cache' \/ k = key
    BY <1>2
  <2> QED
    BY <1>1, <1>2, <2>1, <2>2 DEF ShardInv, WindowIsFilling
<1> QED
  BY <1>3, <1>4, <1>5 DEF ShardInv

\* A step that changes nothing.
LEMMA ShardsStutter ==
    ASSUME ShardInv, UNCHANGED vars
    PROVE  ShardInv'
<1>1. UNCHANGED <<source, disk, done, manifest, center, cache, scoped, unscoped, failed, held>>
  BY DEF vars, gen, window
<1>2. source' \in Sources /\ FilesAreOwn' /\ ManifestIsRight' /\ LoadedIsOwn(cache)' /\ LoadedIsOwn(held)'
  BY <1>1, ReadingKeeps
<1>3. \A k : FetchDecoded(k)' = FetchDecoded(k)
  BY <1>1, FetchesStay
<1>4. WindowIsFilling'
  BY <1>1, <1>3 DEF ShardInv, WindowIsFilling
<1> QED
  BY <1>2, <1>4 DEF ShardInv

\* Every reachable state of the generator and of its readers is as ShardInv
\* says.
THEOREM ShardsInvariant == Spec => []ShardInv
<1>1. ShardInv /\ [Next]_vars => ShardInv'
  <2> SUFFICES ASSUME ShardInv, [Next]_vars PROVE ShardInv'
    OBVIOUS
  <2>1. CASE \E saved \in {"ok", "cut", "none"} : Generate(saved)
    BY <2>1, GenerateKeeps
  <2>2. CASE WriteManifest
    BY <2>2, WriteManifestKeeps
  <2>3. CASE \E key \in SourceCells : Load(key)
    BY <2>3, LoadKeeps
  <2>4. CASE \E p \in Points : Recenter(p)
    BY <2>4, RecenterKeeps
  <2>5. CASE Fetch
    BY <2>5, FetchKeeps
  <2>6. CASE FetchFails
    BY <2>6, FetchFailsKeeps
  <2>7. CASE Evict
    BY <2>7, EvictKeeps
  <2>8. CASE UNCHANGED vars
    BY <2>8, ShardsStutter
  <2> QED
    BY <2>1, <2>2, <2>3, <2>4, <2>5, <2>6, <2>7, <2>8 DEF Next
<1> QED
  BY <1>1, ShardInvInit, PTL DEF Spec

\* Whatever saves fail or are cut, what the loader or the window hands out
\* under a key is the whole shard of that cell, and the manifest lists it.
THEOREM ServedIsOwn == Spec => []ServedShardIsItsOwn
<1>1. ShardInv => ServedShardIsItsOwn
  <2> SUFFICES ASSUME ShardInv, NEW shards \in {cache, held}, NEW key \in DOMAIN shards
               PROVE  shards[key] = sharded_network(key) /\ \A list \in manifest : key \in list
    BY DEF ServedShardIsItsOwn
  <2>1. shards[key] = sharded_network(key) /\ key \in DOMAIN disk /\ disk[key].whole /\ manifest # {}
    BY DEF ShardInv, LoadedIsOwn
  <2>2. manifest = {{c \in DOMAIN disk : disk[c].whole}}
    BY <2>1 DEF ShardInv, ManifestIsRight
  <2> QED
    BY <2>1, <2>2
<1> QED
  BY <1>1, ShardsInvariant, PTL

\* Once the keys of a move are fetched, the window holds every cell of the
\* neighbourhood that has a good file and whose fetch did not fail.
THEOREM WindowHolds == Spec => []WindowIsFilled
<1>1. ShardInv => WindowIsFilled
  BY DEF ShardInv, WindowIsFilling, WindowIsFilled
<1> QED
  BY <1>1, ShardsInvariant, PTL

-----------------------------------------------------------------------------
(* The roads of a shard.                                                   *)

\* A road touches the square around either end, and a node the one around it.
LEMMA EnvelopeTouches ==
    ASSUME NEW p \in Int \X Int, NEW q \in Int \X Int
    PROVE  Intersects(envelope_of(p, q), square_box(q, 0)) /\ Intersects(envelope_of(q, q), square_box(q, 0))
<1>1. p[1] \in Int /\ p[2] \in Int /\ q[1] \in Int /\ q[2] \in Int
  OBVIOUS
<1>2. square_box(q, 0) = [min |-> <<q[1], q[2]>>, max |-> <<q[1], q[2]>>]
  <2>1. q[1] - 0 = q[1] /\ q[2] - 0 = q[2] /\ q[1] + 0 = q[1] /\ q[2] + 0 = q[2]
    BY <1>1
  <2>2. square_box(q, 0) = envelope_of(<<q[1], q[2]>>, <<q[1], q[2]>>)
    BY <2>1 DEF square_box
  <2> QED
    BY <1>1, <2>2 DEF envelope_of, Least, Greatest
<1> DEFINE Touches(l, h, x) == l <= x /\ x <= h
<1>3. \A a, b \in Int : Least(a, b) <= b /\ b <= Greatest(a, b) /\ Least(b, b) <= b /\ b <= Greatest(b, b)
  BY DEF Least, Greatest
<1>4. \A axis \in 1 .. 2 : axis = 1 \/ axis = 2
  OBVIOUS
<1>5. Least(p[1], q[1]) <= q[1] /\ q[1] <= Greatest(p[1], q[1]) /\ Least(q[1], q[1]) <= q[1] /\ q[1] <= Greatest(q[1], q[1])
  BY <1>1, <1>3
<1>6. Least(p[2], q[2]) <= q[2] /\ q[2] <= Greatest(p[2], q[2]) /\ Least(q[2], q[2]) <= q[2] /\ q[2] <= Greatest(q[2], q[2])
  BY <1>1, <1>3
<1>7. Intersects(envelope_of(p, q), [min |-> <<q[1], q[2]>>, max |-> <<q[1], q[2]>>])
  BY <1>4, <1>5, <1>6 DEF Intersects, envelope_of
<1>8. Intersects(envelope_of(q, q), [min |-> <<q[1], q[2]>>, max |-> <<q[1], q[2]>>])
  BY <1>4, <1>5, <1>6 DEF Intersects, envelope_of
<1> QED
  BY <1>2, <1>7, <1>8

\* A road with both ends is drawn.
LEMMA RoadIsDrawn ==
    ASSUME NEW net, NEW pair, pair[1] \in DOMAIN net.hash, pair[2] \in DOMAIN net.hash
    PROVE  FatEdge(net, GraphEdge(net, pair)) # {} /\ fatten(net, GraphEdge(net, pair)) # {}
<1> DEFINE e == GraphEdge(net, pair)
           f == [e EXCEPT !.id = EdgeId(@.id)]
<1>1. e.source = pair[1] /\ e.target = pair[2] /\ f.source = pair[1] /\ f.target = pair[2]
  BY DEF GraphEdge, Edge
<1> HIDE DEF e, f
<1>2. Lookup(net.hash, pair[1]) # {} /\ Lookup(net.hash, pair[2]) # {}
  BY DEF Lookup
<1>3. ASSUME NEW r, r.source = pair[1], r.target = pair[2] PROVE FatEdge(net, r) # {}
  <2>1. PICK s \in Lookup(net.hash, r.source) : TRUE
    BY <1>2, <1>3
  <2>2. PICK t \in Lookup(net.hash, r.target) : TRUE
    BY <1>2, <1>3
  <2>3. Edge(Node(r.source, s), Node(r.target, t), r.weight, r.id) \in FatEdge(net, r)
    BY <2>1, <2>2 DEF FatEdge
  <2> QED
    BY <2>3
<1> QED
  BY <1>1, <1>3 DEF fatten, e, f

\* The road e is found in the network, with its weight, and on its map.
IsFound(src, net, e) ==
    /\ {t.weight : t \in edge(net, e.from, e.to)} = {e.weight}
    /\ <<e.from, e.to>> \in search(net.index_edge, square_box(src.nodes[e.to], 0))
    /\ shard_edges_in_box(net, square_box(src.nodes[e.to], 0)) # {}

\* A road the network carries is.
LEMMA CarriedIsFound ==
    ASSUME NEW src, SourceOK(src), NEW sel, NEW A, NEW net, Shard(src, sel, A, net),
           NEW e, Carries(net, e)
    PROVE  IsFound(src, net, e)
<1> DEFINE pair == <<e.from, e.to>>
           box == square_box(src.nodes[e.to], 0)
<1>1. pair \in DOMAIN net.graph /\ net.graph[pair].weight = e.weight
  BY DEF Carries
<1>2. edge(net, e.from, e.to) = {GraphEdge(net, pair)}
  BY <1>1 DEF edge
<1>3. GraphEdge(net, pair).weight = e.weight
  BY <1>1 DEF GraphEdge, Edge
<1>4. pair[1] \in DOMAIN net.hash /\ pair[2] \in DOMAIN net.hash
  BY <1>1, ShardHas DEF RoadsAre
<1>5. net.hash[e.to] = src.nodes[e.to] /\ net.hash[e.to] \in Int \X Int /\ net.hash[e.from] \in Int \X Int
  <2>1. NodesAre(src, A, net) /\ net.hash \in Partial(PlacedNodes(src), Int \X Int)
    BY ShardHas
  <2>2. \A n \in DOMAIN net.hash : net.hash[n] \in Int \X Int
    BY <2>1, PartialIs
  <2> QED
    BY <1>4, <2>1, <2>2 DEF NodesAre
<1>6. pair \in DOMAIN net.index_edge /\ net.index_edge[pair] = envelope_of(net.hash[e.from], net.hash[e.to])
  <2> DEFINE rows == EdgeRows(net)
  <2>1. pair \in DOMAIN rows /\ rows[pair] = <<net.hash[pair[1]], net.hash[pair[2]]>>
    BY <1>1, <1>4 DEF EdgeRows
  <2> HIDE DEF rows
  <2>2. net.index_edge = build(rows)
    BY ShardHas DEF rows
  <2>3. build(rows) = [r \in DOMAIN rows |-> envelope_of(rows[r][1], rows[r][2])]
    BY DEF build
  <2>4. DOMAIN build(rows) = DOMAIN rows /\ build(rows)[pair] = envelope_of(rows[pair][1], rows[pair][2])
    BY <2>1, <2>3
  <2> QED
    BY <2>1, <2>2, <2>4
<1>7. Intersects(net.index_edge[pair], box)
  BY <1>5, <1>6, EnvelopeTouches
<1> HIDE DEF pair, box
<1>8. pair \in search(net.index_edge, box)
  BY <1>6, <1>7 DEF search
<1>9. shard_edges_in_box(net, box) # {}
  BY <1>4, <1>8, RoadIsDrawn DEF shard_edges_in_box
<1>10. {t.weight : t \in edge(net, e.from, e.to)} = {e.weight}
  BY <1>2, <1>3
<1> QED
  BY <1>8, <1>9, <1>10 DEF pair, box, IsFound

\* The roads of the source, by place.
LEMMA PlacedEdgesAre ==
    ASSUME NEW e \in PlacedEdges
    PROVE  /\ \E j \in 1 .. Len(source.edges) : e = source.edges[j]
           /\ e.from \in PlacedNodes(source) /\ e.to \in PlacedNodes(source)
<1>1. e \in ToSet(source.edges)
  BY DEF PlacedEdges, SourceEdges
<1> QED
  BY <1>1 DEF PlacedEdges, ToSet, PlacedNodes

\* A road of a network that the source has, and its metadata.
IsOfSource(net, pair) ==
    \E e \in PlacedEdges :
      /\ <<e.from, e.to>> = pair /\ e.weight = net.graph[pair].weight
      /\ \E d \in PlacedEdges : d.from = e.from /\ metadata(net, e.from) = {d.meta}

\* Every road of a shard is one of the source, and has its metadata.
LEMMA RoadsOfShard ==
    ASSUME SourceOK(source), NEW sel, NEW A, NEW net, Shard(source, sel, A, net), NEW pair \in DOMAIN net.graph
    PROVE  IsOfSource(net, pair) /\ pair[1] \in DOMAIN net.hash /\ pair[2] \in DOMAIN net.hash
<1>1. /\ RoadsAre(source, Len(source.edges), net) /\ MetasAre(source, Len(source.edges), net)
      /\ DOMAIN net.hash \subseteq PlacedNodes(source)
  BY ShardHas, PartialIs
<1>2. pair[1] \in DOMAIN net.hash /\ pair[2] \in DOMAIN net.hash /\ pair[1] \in DOMAIN net.meta
  BY <1>1 DEF RoadsAre
<1>3. PICK j \in 1 .. Len(source.edges) :
        pair = <<source.edges[j].from, source.edges[j].to>> /\ Carries(net, source.edges[j])
  BY <1>1 DEF RoadsAre
<1>4. PICK k \in 1 .. Len(source.edges) :
        /\ source.edges[k].from = pair[1] /\ source.edges[k].meta = net.meta[pair[1]]
        /\ source.edges[k].to \in PlacedNodes(source)
  BY <1>1, <1>2 DEF MetasAre
<1>5. 1 .. Len(source.edges) = DOMAIN source.edges
  BY DEF SourceOK
<1> DEFINE e == source.edges[j]
           d == source.edges[k]
<1>6. e.from = pair[1] /\ e.to = pair[2] /\ d.from = pair[1]
  BY <1>3, <1>4
<1>7. e \in PlacedEdges /\ d \in PlacedEdges
  BY <1>1, <1>2, <1>4, <1>5, <1>6 DEF PlacedEdges, SourceEdges, ToSet, PlacedNodes
<1> HIDE DEF e, d
<1>8. metadata(net, e.from) = {d.meta}
  BY <1>2, <1>4, <1>6 DEF metadata, Lookup, d
<1>9. e.weight = net.graph[pair].weight
  BY <1>3 DEF Carries, e
<1>10. <<e.from, e.to>> = pair
  BY <1>3 DEF e
<1> QED
  BY <1>2, <1>6, <1>7, <1>8, <1>9, <1>10 DEF IsOfSource

\* A road that leaves an admitted node is in the shard.
LEMMA RoadIsIn ==
    ASSUME SourceOK(source), NEW sel, NEW A, NEW net, Shard(source, sel, A, net),
           NEW e \in PlacedEdges, e.from \in A
    PROVE  Carries(net, e)
<1>1. PICK j \in 1 .. Len(source.edges) : e = source.edges[j]
  BY PlacedEdgesAre
<1>2. e.to \in PlacedNodes(source)
  BY PlacedEdgesAre
<1>3. RoadsAreIn(source, A, Len(source.edges), net)
  BY ShardHas
<1> QED
  BY <1>1, <1>2, <1>3 DEF RoadsAreIn

\* Whatever the order of the edges, the cells and the padding, the shard of a
\* selection has every road that leaves a node the selection admits, and no
\* road or metadata the source does not have.
THEOREM RoadsSurvive == Spec => []RoadsSurviveSharding
<1>1. ASSUME ShardInv, NEW cell, NEW mode
      PROVE  RoadsKept(Selection(Strategy, cell, mode), from_source(source, Strategy, Selection(Strategy, cell, mode)))
  <2> DEFINE sel == Selection(Strategy, cell, mode)
             net == from_source(source, Strategy, sel)
             A == AdmittedNodes(source, Strategy, sel)
  <2> HIDE DEF sel
  <2>1. SourceOK(source)
    BY <1>1, SourcesAreOK DEF ShardInv
  <2>2. Shard(source, sel, A, net)
    BY <2>1, FromSourceIs
  <2>3. ASSUME NEW e \in PlacedEdges, Admits(Strategy, sel, source.nodes[e.from])
        PROVE  /\ {t.weight : t \in edge(net, e.from, e.to)} = {e.weight}
               /\ shard_edges_in_box(net, square_box(source.nodes[e.to], 0)) # {}
    <3>1. e.from \in A
      BY <2>3, PlacedEdgesAre DEF AdmittedNodes, PlacedNodes
    <3> HIDE DEF A, net
    <3>2. Carries(net, e)
      BY <2>1, <2>2, <3>1, RoadIsIn
    <3>3. IsFound(source, net, e)
      BY <2>1, <2>2, <3>2, CarriedIsFound
    <3> QED
      BY <3>3 DEF IsFound
  <2>4. ASSUME NEW pair \in DOMAIN net.graph
        PROVE  fatten(net, GraphEdge(net, pair)) # {} /\ IsOfSource(net, pair)
    <3> HIDE DEF A, net
    <3>1. IsOfSource(net, pair) /\ pair[1] \in DOMAIN net.hash /\ pair[2] \in DOMAIN net.hash
      BY <2>1, <2>2, RoadsOfShard
    <3> QED
      BY <3>1, RoadIsDrawn
  <2> HIDE DEF net, A
  <2>5. RoadsKept(sel, net)
    BY <2>3, <2>4 DEF RoadsKept, IsOfSource
  <2> QED
    BY <2>5 DEF net, sel
<1>2. ShardInv => RoadsSurviveSharding
  BY <1>1 DEF RoadsSurviveSharding
<1> QED
  BY <1>2, ShardsInvariant, PTL

-----------------------------------------------------------------------------
(* The paths the search for a route goes over.                             *)

\* A graph of finitely many nodes, with weights.
GraphOK(g) ==
    /\ IsFiniteSet(GraphNodes(g))
    /\ \A p \in DOMAIN g : p = <<p[1], p[2]>> /\ g[p].weight \in Nat

\* Edges that lead a path to a node it has not passed, and where they lead it.
Longer(g, v) == {p \in DOMAIN g : p[1] = v.path[Len(v.path)] /\ \A i \in DOMAIN v.path : v.path[i] # p[2]}
Extended(g, v, p) == [score |-> v.score + g[p].weight, path |-> Append(v.path, p[2])]
Extensions(g, W) == UNION {{Extended(g, v, p) : p \in Longer(g, v)} : v \in W}

StartOf(s) == {[score |-> 0, path |-> <<s>>]}
IsWalks(f, g, s) ==
    f = [k \in 0 .. Cardinality(GraphNodes(g)) |-> IF k = 0 THEN StartOf(s) ELSE f[k - 1] \cup Extensions(g, f[k - 1])]
Walks(g, s) == CHOOSE f : IsWalks(f, g, s)

\* SimplePaths is the last of them.
LEMMA SimplePathsAre ==
    ASSUME NEW g, NEW s
    PROVE  SimplePaths(g, s) = Walks(g, s)[Cardinality(GraphNodes(g))]
  BY Zenon DEF SimplePaths, Walks, IsWalks, StartOf, Extensions, Extended, Longer

\* A path passes no node twice, and goes along edges.
Simple(g, w) ==
    /\ Len(w.path) \in Nat \ {0} /\ DOMAIN w.path = 1 .. Len(w.path)
    /\ \A i, j \in 1 .. Len(w.path) : w.path[i] = w.path[j] => i = j
    /\ \A i \in 1 .. Len(w.path) - 1 : <<w.path[i], w.path[i + 1]>> \in DOMAIN g

PathSet(g, s) == {w \in [score : Nat, path : Seq(GraphNodes(g) \cup {s})] : Simple(g, w)}
PathsTo(g, s, k) == {w \in PathSet(g, s) : Len(w.path) <= k + 1}

\* A path made longer is a path.
LEMMA ExtendedIs ==
    ASSUME NEW g, GraphOK(g), NEW s, NEW v \in PathSet(g, s), NEW p \in Longer(g, v)
    PROVE  /\ Extended(g, v, p) \in PathSet(g, s)
           /\ Len(Extended(g, v, p).path) = Len(v.path) + 1 /\ Len(v.path) \in Nat \ {0}
           /\ \A i \in 1 .. Len(v.path) : Extended(g, v, p).path[i] = v.path[i]
           /\ Extended(g, v, p).path[Len(v.path) + 1] = p[2] /\ v.path[Len(v.path)] = p[1]
           /\ p \in DOMAIN g /\ p = <<p[1], p[2]>>
<1> DEFINE X == GraphNodes(g) \cup {s}
           n == Len(v.path)
           q == Append(v.path, p[2])
           w == Extended(g, v, p)
<1>1. v.score \in Nat /\ v.path \in Seq(X) /\ Simple(g, v) /\ n \in Nat \ {0}
  BY DEF PathSet, Simple
<1>2. p \in DOMAIN g /\ p = <<p[1], p[2]>> /\ g[p].weight \in Nat /\ p[1] = v.path[n]
      /\ \A i \in DOMAIN v.path : v.path[i] # p[2]
  BY DEF GraphOK, Longer
<1>3. p[2] \in X
  BY <1>2 DEF GraphNodes
<1>4. w.score = v.score + g[p].weight /\ w.path = q /\ w = [score |-> w.score, path |-> w.path]
  BY DEF Extended
<1> HIDE DEF X, w
<1>5. /\ q \in Seq(X) /\ Len(q) = n + 1 /\ q[n + 1] = p[2] /\ \A i \in 1 .. n : q[i] = v.path[i]
  BY <1>1, <1>3, AppendFacts
<1>6. DOMAIN q = 1 .. Len(q)
  BY <1>5
<1> HIDE DEF q, n
<1>7. \A i \in 1 .. n + 1 : i \in 1 .. n \/ i = n + 1
  BY <1>1
<1>8. \A i \in 1 .. n : v.path[i] # p[2]
  BY <1>1, <1>2 DEF Simple, n
<1>9. \A i, j \in 1 .. n + 1 : q[i] = q[j] => i = j
  <2>1. \A i, j \in 1 .. n : v.path[i] = v.path[j] => i = j
    BY <1>1 DEF Simple, n
  <2> QED
    BY <1>5, <1>7, <1>8, <2>1
<1>10. \A i \in 1 .. n : <<q[i], q[i + 1]>> \in DOMAIN g
  <2> SUFFICES ASSUME NEW i \in 1 .. n PROVE <<q[i], q[i + 1]>> \in DOMAIN g
    OBVIOUS
  <2>1. CASE i = n
    BY <1>2, <1>5, <2>1
  <2>2. CASE i # n
    <3>1. i \in 1 .. n - 1 /\ i + 1 \in 1 .. n
      BY <1>1, <2>2
    <3>2. <<v.path[i], v.path[i + 1]>> \in DOMAIN g
      BY <1>1, <3>1 DEF Simple, n
    <3> QED
      BY <1>5, <3>1, <3>2
  <2> QED
    BY <2>1, <2>2
<1>11. (n + 1) - 1 = n /\ n + 1 \in Nat \ {0}
  BY <1>1
<1>12. Simple(g, w)
  BY <1>4, <1>5, <1>6, <1>9, <1>10, <1>11 DEF Simple
<1>13. w.score \in Nat
  BY <1>1, <1>2, <1>4
<1>14. w \in [score : Nat, path : Seq(X)]
  BY <1>4, <1>5, <1>13
<1>15. w \in PathSet(g, s)
  BY <1>12, <1>14 DEF PathSet, X
<1> QED
  BY <1>1, <1>2, <1>4, <1>5, <1>15 DEF w, n

\* The path of one node.
LEMMA StartIs ==
    ASSUME NEW g, NEW s
    PROVE  StartOf(s) \subseteq PathsTo(g, s, 0)
<1> DEFINE w == [score |-> 0, path |-> <<s>>]
<1>1. w.path = <<s>> /\ Len(w.path) = 1 /\ DOMAIN w.path = 1 .. 1 /\ w.score = 0
  OBVIOUS
<1>2. w \in [score : Nat, path : Seq(GraphNodes(g) \cup {s})]
  OBVIOUS
<1> HIDE DEF w
<1>3. Simple(g, w)
  BY <1>1 DEF Simple
<1>4. w \in PathSet(g, s)
  BY <1>2, <1>3 DEF PathSet
<1>5. Len(w.path) <= 0 + 1
  BY <1>1
<1>6. w \in PathsTo(g, s, 0)
  BY <1>4, <1>5 DEF PathsTo
<1> QED
  BY <1>6 DEF StartOf, w

\* The tables of the search: where they begin, how they go on, and that they
\* hold paths.
WalksOK(f, g, s, n) ==
    /\ f[0] = StartOf(s)
    /\ \A k \in 1 .. n : f[k] = f[k - 1] \cup Extensions(g, f[k - 1])
    /\ \A k \in 0 .. n : f[k] \subseteq PathsTo(g, s, k)

LEMMA WalksAre ==
    ASSUME NEW g, GraphOK(g), NEW s
    PROVE  WalksOK(Walks(g, s), g, s, Cardinality(GraphNodes(g))) /\ Cardinality(GraphNodes(g)) \in Nat
<1> DEFINE n == Cardinality(GraphNodes(g))
           V == [k \in 0 .. n |-> SUBSET PathsTo(g, s, k)]
           G == [k \in 1 .. n |-> [W \in V[k - 1] |-> W \cup Extensions(g, W)]]
           a == StartOf(s)
           c == Walks(g, s)
<1>1. n \in Nat
  BY FS_CardinalityType DEF GraphOK
<1>2. \A k \in 0 .. n : \A W : W \in V[k] <=> W \subseteq PathsTo(g, s, k)
  OBVIOUS
<1>3. \A k \in 1 .. n : \A W \in V[k - 1] : G[k][W] = W \cup Extensions(g, W)
  OBVIOUS
<1> HIDE DEF n, V, G, a, c
<1>4. a \in V[0]
  BY <1>1, <1>2, StartIs DEF a
<1>5. \A k \in 1 .. n : k - 1 \in 0 .. n /\ k \in 0 .. n /\ k # 0 /\ k \in 0 + 1 .. n
  BY <1>1
<1>6. ASSUME NEW k \in 1 .. n, NEW W \in V[k - 1]
      PROVE  W \cup Extensions(g, W) \in V[k]
  <2>1. W \subseteq PathsTo(g, s, k - 1)
    BY <1>2, <1>5
  <2>2. k \in Nat /\ k - 1 \in Nat
    BY <1>1
  <2>3. PathsTo(g, s, k - 1) \subseteq PathsTo(g, s, k)
    BY <2>2 DEF PathsTo, PathSet, Simple
  <2>4. ASSUME NEW v \in W, NEW p \in Longer(g, v) PROVE Extended(g, v, p) \in PathsTo(g, s, k)
    <3>1. v \in PathSet(g, s) /\ Len(v.path) <= (k - 1) + 1
      BY <2>1 DEF PathsTo
    <3>2. /\ Extended(g, v, p) \in PathSet(g, s)
          /\ Len(Extended(g, v, p).path) = Len(v.path) + 1 /\ Len(v.path) \in Nat
      BY <3>1, <2>4, ExtendedIs
    <3>3. Len(Extended(g, v, p).path) <= k + 1
      BY <2>2, <3>1, <3>2
    <3> QED
      BY <3>2, <3>3 DEF PathsTo
  <2>5. Extensions(g, W) \subseteq PathsTo(g, s, k)
    BY <2>4 DEF Extensions
  <2>6. W \cup Extensions(g, W) \subseteq PathsTo(g, s, k)
    BY <2>1, <2>3, <2>5
  <2> QED
    BY <1>2, <1>5, <2>6
<1>7. \E f : IsWalks(f, g, s)
  <2>1. Leads(G, V, 0, n)
    <3>1. ASSUME NEW k \in 0 + 1 .. n, NEW W \in V[k - 1] PROVE G[k][W] \in V[k]
      <4>1. k \in 1 .. n
        OBVIOUS
      <4>2. G[k][W] = W \cup Extensions(g, W)
        BY <1>3, <4>1
      <4>3. W \cup Extensions(g, W) \in V[k]
        BY <1>6, <4>1
      <4> QED
        BY <4>2, <4>3
    <3> QED
      BY <3>1 DEF Leads
  <2>2. 0 \in Int /\ n \in Int /\ 0 <= n
    BY <1>1
  <2>3. PICK f : Unrolls(f, a, G, V, 0, n)
    BY <1>4, <2>1, <2>2, RecursiveFunction
  <2>4. ASSUME NEW k \in 1 .. n PROVE f[k] = f[k - 1] \cup Extensions(g, f[k - 1])
    <3>1. f[k - 1] \in V[k - 1] /\ f[k] = G[k][f[k - 1]]
      BY <1>5, <2>3 DEF Unrolls
    <3> QED
      BY <1>3, <3>1
  <2>5. f = [k \in 0 .. n |-> f[k]] /\ f[0] = a
    BY <2>3 DEF Unrolls
  <2>6. \A k \in 0 .. n : k = 0 \/ k \in 1 .. n
    BY <1>1
  <2>7. \A k \in 0 .. n : f[k] = IF k = 0 THEN a ELSE f[k - 1] \cup Extensions(g, f[k - 1])
    BY <2>4, <2>5, <2>6
  <2>8. f = [k \in 0 .. n |-> IF k = 0 THEN a ELSE f[k - 1] \cup Extensions(g, f[k - 1])]
    BY <2>5, <2>7
  <2>9. IsWalks(f, g, s)
    BY <2>8 DEF IsWalks, n, a
  <2> QED
    BY <2>9
<1>8. IsWalks(c, g, s)
  BY <1>7 DEF c, Walks
<1>9. c[0] = a /\ \A k \in 1 .. n : c[k] = c[k - 1] \cup Extensions(g, c[k - 1])
  <2> DEFINE F(k) == IF k = 0 THEN a ELSE c[k - 1] \cup Extensions(g, c[k - 1])
  <2>1. c = [k \in 0 .. n |-> F(k)]
    BY <1>8 DEF IsWalks, n, a
  <2>2. \A k \in 0 .. n : c[k] = F(k)
    <3> HIDE DEF F
    <3> QED
      BY <2>1, Zenon
  <2>3. 0 \in 0 .. n
    BY <1>1
  <2> QED
    BY <1>5, <2>2, <2>3
<1> DEFINE T == {k \in 0 .. n : c[k] \in V[k]}
<1>10. 0 .. n \subseteq T
  <2>1. 0 \in T
    BY <1>1, <1>4, <1>9
  <2>2. ASSUME NEW k \in 0 + 1 .. n, k - 1 \in T PROVE k \in T
    <3>1. k \in 1 .. n
      OBVIOUS
    <3>2. c[k - 1] \in V[k - 1]
      BY <2>2
    <3>3. c[k - 1] \cup Extensions(g, c[k - 1]) \in V[k]
      BY <1>6, <3>1, <3>2
    <3>4. c[k] \in V[k]
      BY <1>9, <3>1, <3>3
    <3> QED
      BY <1>5, <3>1, <3>4
  <2> HIDE DEF T
  <2>3. 0 \in Int /\ n \in Int
    BY <1>1
  <2> QED
    BY <2>1, <2>2, <2>3, RangeInd
<1>11. \A k \in 0 .. n : c[k] \subseteq PathsTo(g, s, k)
  BY <1>2, <1>10
<1>12. WalksOK(c, g, s, n)
  BY <1>9, <1>11 DEF WalksOK, a
<1> QED
  BY <1>1, <1>12 DEF n, c

\* A table holds what the ones before it hold.
LEMMA WalksGrow ==
    ASSUME NEW g, NEW s, NEW n \in Nat, NEW f, WalksOK(f, g, s, n), NEW j \in 0 .. n, NEW k \in j .. n
    PROVE  f[j] \subseteq f[k]
<1> DEFINE T == {i \in j .. n : f[j] \subseteq f[i]}
<1>1. j \in T
  OBVIOUS
<1>2. ASSUME NEW i \in j + 1 .. n, i - 1 \in T PROVE i \in T
  <2>1. i \in 1 .. n /\ i \in j .. n
    OBVIOUS
  <2>2. f[i] = f[i - 1] \cup Extensions(g, f[i - 1])
    BY <2>1 DEF WalksOK
  <2> QED
    BY <1>2, <2>1, <2>2
<1> HIDE DEF T
<1>3. j .. n \subseteq T
  BY <1>1, <1>2, RangeInd
<1> QED
  BY <1>3 DEF T

\* A path is in the table of its length.
LEMMA WalksByLength ==
    ASSUME NEW g, GraphOK(g), NEW s, NEW n \in Nat, NEW f, WalksOK(f, g, s, n), NEW k \in 0 .. n, NEW w \in f[k]
    PROVE  Len(w.path) - 1 \in 0 .. k /\ w \in f[Len(w.path) - 1] /\ w \in PathSet(g, s)
<1> DEFINE Placed(v) == Len(v.path) - 1 \in 0 .. n /\ v \in f[Len(v.path) - 1]
           T == {i \in 0 .. n : \A v \in f[i] : Placed(v)}
<1>1. ASSUME NEW i \in 0 .. n, NEW v \in f[i]
      PROVE  v \in PathSet(g, s) /\ Len(v.path) - 1 \in 0 .. i
  <2>1. v \in PathSet(g, s) /\ Len(v.path) <= i + 1
    BY <1>1 DEF WalksOK, PathsTo
  <2>2. Len(v.path) \in Nat \ {0}
    BY <2>1 DEF PathSet, Simple
  <2> QED
    BY <2>1, <2>2
<1>2. 0 \in T
  <2>1. ASSUME NEW v \in f[0] PROVE Placed(v)
    <3>0. 0 \in 0 .. n
      OBVIOUS
    <3>1. Len(v.path) - 1 \in 0 .. 0
      BY <1>1, <3>0
    <3>2. Len(v.path) - 1 = 0
      BY <3>1
    <3> QED
      BY <3>0, <3>2
  <2> QED
    BY <2>1
<1>3. ASSUME NEW i \in 0 + 1 .. n, i - 1 \in T PROVE i \in T
  <2>1. i \in 1 .. n /\ i \in 0 .. n /\ i - 1 \in 0 .. n
    OBVIOUS
  <2>2. f[i] = f[i - 1] \cup Extensions(g, f[i - 1])
    BY <2>1 DEF WalksOK
  <2>3. ASSUME NEW v \in f[i - 1], NEW p \in Longer(g, v) PROVE Placed(Extended(g, v, p))
    <3> DEFINE x == Extended(g, v, p)
               m == Len(v.path)
    <3>1. m - 1 \in 0 .. i - 1 /\ v \in f[m - 1] /\ v \in PathSet(g, s)
      BY <1>1, <1>3, <2>1
    <3>2. Len(x.path) = m + 1 /\ m \in Nat \ {0}
      BY <3>1, ExtendedIs
    <3>3. m \in 1 .. n /\ Len(x.path) - 1 = m
      BY <3>1, <3>2
    <3>4. f[m] = f[m - 1] \cup Extensions(g, f[m - 1])
      BY <3>3 DEF WalksOK
    <3> HIDE DEF m, x
    <3>5. x \in Extensions(g, f[m - 1])
      BY <3>1 DEF Extensions, x
    <3> QED
      BY <3>3, <3>4, <3>5 DEF x
  <2>4. \A v \in f[i - 1] : Placed(v)
    BY <1>3
  <2> HIDE DEF Placed
  <2>5. \A v \in Extensions(g, f[i - 1]) : Placed(v)
    BY <2>3 DEF Extensions
  <2> QED
    BY <2>1, <2>2, <2>4, <2>5
<1> HIDE DEF T
<1>4. 0 .. n \subseteq T
  <2>1. 0 \in Int /\ n \in Int /\ 0 <= n
    OBVIOUS
  <2> QED
    BY <1>2, <1>3, <2>1, RangeInd
<1> QED
  BY <1>1, <1>4 DEF T

\* g is part of h, with the same weights.
Within(g, h) == \A p \in DOMAIN g : p \in DOMAIN h /\ g[p].weight = h[p].weight

\* g has the edges of h that go from I to P.
Covers(g, h, I, P) == I \subseteq P /\ \A p \in DOMAIN h : p[1] \in I /\ p[2] \in P => p \in DOMAIN g

\* A path that stays in I and ends in P.
Inner(w, I, P) == (\A i \in 1 .. Len(w.path) - 1 : w.path[i] \in I) /\ w.path[Len(w.path)] \in P

\* The tables of a part hold paths of the whole.
LEMMA PartWalks ==
    ASSUME NEW g, NEW h, Within(g, h), NEW s, NEW n \in Nat, NEW m \in Nat, n <= m,
           NEW f, WalksOK(f, g, s, n), NEW e, WalksOK(e, h, s, m), NEW k \in 0 .. n
    PROVE  f[k] \subseteq e[k]
<1> DEFINE T == {i \in 0 .. n : f[i] \subseteq e[i]}
<1>1. 0 \in T
  BY DEF WalksOK
<1>2. ASSUME NEW i \in 0 + 1 .. n, i - 1 \in T PROVE i \in T
  <2>1. i \in 1 .. n /\ i \in 1 .. m /\ i \in 0 .. n
    OBVIOUS
  <2>2. f[i] = f[i - 1] \cup Extensions(g, f[i - 1]) /\ e[i] = e[i - 1] \cup Extensions(h, e[i - 1])
    BY <2>1 DEF WalksOK
  <2>3. f[i - 1] \subseteq e[i - 1]
    BY <1>2
  <2>4. ASSUME NEW v \in f[i - 1], NEW p \in Longer(g, v)
        PROVE  Extended(g, v, p) \in Extensions(h, e[i - 1])
    <3>1. p \in Longer(h, v)
      BY <2>4 DEF Longer, Within
    <3>2. Extended(g, v, p) = Extended(h, v, p)
      BY <2>4 DEF Extended, Longer, Within
    <3> QED
      BY <2>3, <3>1, <3>2 DEF Extensions
  <2>5. Extensions(g, f[i - 1]) \subseteq Extensions(h, e[i - 1])
    BY <2>4 DEF Extensions
  <2> QED
    BY <2>1, <2>2, <2>3, <2>5
<1> HIDE DEF T
<1>3. 0 .. n \subseteq T
  BY <1>1, <1>2, RangeInd
<1> QED
  BY <1>3 DEF T

\* And those of the whole that stay inside are among them.
LEMMA InnerWalks ==
    ASSUME NEW g, NEW h, GraphOK(h), NEW I, NEW P, Within(g, h), Covers(g, h, I, P),
           NEW s, NEW n \in Nat, NEW m \in Nat, n <= m,
           NEW f, WalksOK(f, g, s, n), NEW e, WalksOK(e, h, s, m), NEW k \in 0 .. n, NEW w \in e[k], Inner(w, I, P)
    PROVE  w \in f[k]
<1> DEFINE T == {i \in 0 .. n : \A v \in e[i] : Inner(v, I, P) => v \in f[i]}
<1>1. 0 \in T
  BY DEF WalksOK
<1>2. ASSUME NEW i \in 0 + 1 .. n, i - 1 \in T PROVE i \in T
  <2>1. i \in 1 .. n /\ i \in 1 .. m /\ i \in 0 .. n /\ i - 1 \in 0 .. m
    OBVIOUS
  <2>2. f[i] = f[i - 1] \cup Extensions(g, f[i - 1]) /\ e[i] = e[i - 1] \cup Extensions(h, e[i - 1])
    BY <2>1 DEF WalksOK
  <2>3. \A v \in e[i - 1] : Inner(v, I, P) => v \in f[i - 1]
    BY <1>2
  <2>4. ASSUME NEW v \in e[i - 1], NEW p \in Longer(h, v), Inner(Extended(h, v, p), I, P)
        PROVE  Extended(h, v, p) \in Extensions(g, f[i - 1])
    <3> DEFINE x == Extended(h, v, p)
               l == Len(v.path)
    <3>1. v \in PathSet(h, s)
      BY <2>1, WalksByLength
    <3>2. /\ Len(x.path) = l + 1 /\ l \in Nat \ {0}
          /\ \A j \in 1 .. l : x.path[j] = v.path[j]
          /\ x.path[l + 1] = p[2] /\ v.path[l] = p[1] /\ p \in DOMAIN h
      BY <3>1, ExtendedIs
    <3>3. \A j \in 1 .. l : x.path[j] \in I
      <4>1. Len(x.path) - 1 = l
        BY <3>2
      <4> QED
        BY <2>4, <4>1 DEF Inner
    <3>4. x.path[l + 1] \in P
      BY <2>4, <3>2 DEF Inner
    <3> HIDE DEF x
    <3>5. l \in 1 .. l /\ \A j \in 1 .. l - 1 : j \in 1 .. l
      BY <3>2
    <3>6. p[1] \in I /\ p[2] \in P
      BY <3>2, <3>3, <3>4, <3>5
    <3>7. p \in DOMAIN g /\ g[p].weight = h[p].weight
      BY <3>2, <3>6 DEF Covers, Within
    <3>8. Inner(v, I, P)
      BY <3>2, <3>3, <3>5, <3>6 DEF Inner, Covers
    <3>9. v \in f[i - 1]
      BY <2>3, <3>8
    <3>10. p \in Longer(g, v)
      BY <3>7, <2>4 DEF Longer
    <3>11. Extended(h, v, p) = Extended(g, v, p)
      BY <3>7 DEF Extended
    <3> QED
      BY <3>9, <3>10, <3>11 DEF Extensions
  <2>5. \A v \in Extensions(h, e[i - 1]) : Inner(v, I, P) => v \in Extensions(g, f[i - 1])
    BY <2>4 DEF Extensions
  <2> QED
    BY <2>1, <2>2, <2>3, <2>5
<1> HIDE DEF T
<1>3. 0 .. n \subseteq T
  BY <1>1, <1>2, RangeInd
<1> QED
  BY <1>3 DEF T

\* A path inside passes no more nodes than the part has.
LEMMA InnerIsShort ==
    ASSUME NEW g, GraphOK(g), NEW h, NEW I, NEW P, Covers(g, h, I, P), NEW w, Simple(h, w), Inner(w, I, P)
    PROVE  Len(w.path) - 1 <= Cardinality(GraphNodes(g)) /\ Len(w.path) - 1 \in Nat
<1> DEFINE n == Len(w.path) - 1
           to == [i \in 1 .. n |-> w.path[i + 1]]
<1>1. n \in Nat /\ Len(w.path) = n + 1
  BY DEF Simple
<1>2. \A i \in 1 .. n : i \in 1 .. n + 1 /\ i + 1 \in 1 .. n + 1 /\ (i = n \/ i + 1 \in 1 .. n)
  BY <1>1
<1> HIDE DEF n
<1>3. ASSUME NEW i \in 1 .. n PROVE w.path[i + 1] \in GraphNodes(g)
  <2> DEFINE p == <<w.path[i], w.path[i + 1]>>
  <2>1. p \in DOMAIN h /\ p[1] = w.path[i] /\ p[2] = w.path[i + 1]
    BY DEF Simple, n
  <2>2. w.path[i] \in I
    BY DEF Inner, n
  <2>3. w.path[i + 1] \in P
    <3>1. CASE i = n
      BY <1>1, <3>1 DEF Inner
    <3>2. CASE i + 1 \in 1 .. n
      <4>1. w.path[i + 1] \in I
        BY <3>2 DEF Inner, n
      <4> QED
        BY <4>1 DEF Covers
    <3> QED
      BY <1>2, <3>1, <3>2
  <2>4. p \in DOMAIN g
    BY <2>1, <2>2, <2>3 DEF Covers
  <2> QED
    BY <2>1, <2>4 DEF GraphNodes
<1>4. \A i, j \in 1 .. n : w.path[i + 1] = w.path[j + 1] => i = j
  <2> SUFFICES ASSUME NEW i \in 1 .. n, NEW j \in 1 .. n, w.path[i + 1] = w.path[j + 1] PROVE i = j
    OBVIOUS
  <2>1. i + 1 = j + 1
    BY <1>1, <1>2 DEF Simple
  <2> QED
    BY <1>1, <2>1
<1>5. to \in Injection(1 .. n, GraphNodes(g))
  BY <1>3, <1>4 DEF Injection, IsInjective
<1> HIDE DEF to
<1>6. IsFiniteSet(GraphNodes(g))
  BY DEF GraphOK
<1>7. Cardinality(1 .. n) <= Cardinality(GraphNodes(g))
  BY <1>5, <1>6, FS_Injection
<1>8. Cardinality(1 .. n) = n
  <2>1. 1 \in Int /\ n \in Int
    BY <1>1
  <2>2. Cardinality(1 .. n) = IF 1 > n THEN 0 ELSE (n - 1) + 1
    BY <2>1, FS_Interval
  <2> QED
    BY <1>1, <2>2
<1> QED
  BY <1>1, <1>7, <1>8 DEF n

\* So the paths of a part are paths of the whole, and the paths of the whole
\* that stay inside are paths of the part.
LEMMA PathsAgree ==
    ASSUME NEW g, GraphOK(g), NEW h, GraphOK(h), NEW I, NEW P, Within(g, h), Covers(g, h, I, P), NEW s
    PROVE  /\ SimplePaths(g, s) \subseteq SimplePaths(h, s)
           /\ \A w \in SimplePaths(h, s) : Inner(w, I, P) => w \in SimplePaths(g, s)
           /\ \A w \in SimplePaths(h, s) : w.score \in Nat
<1> DEFINE n == Cardinality(GraphNodes(g))
           m == Cardinality(GraphNodes(h))
           f == Walks(g, s)
           e == Walks(h, s)
<1>1. n \in Nat /\ WalksOK(f, g, s, n) /\ m \in Nat /\ WalksOK(e, h, s, m)
  BY WalksAre
<1>2. SimplePaths(g, s) = f[n] /\ SimplePaths(h, s) = e[m]
  BY SimplePathsAre
<1>3. n <= m
  <2>1. GraphNodes(g) \subseteq GraphNodes(h)
    BY DEF GraphNodes, Within
  <2> QED
    BY <2>1, FS_Subset DEF GraphOK
<1> HIDE DEF n, m, f, e
<1>4. n \in 0 .. n /\ n \in 0 .. m /\ m \in n .. m /\ m \in 0 .. m
  BY <1>1, <1>3
<1>5. f[n] \subseteq e[m]
  <2>1. f[n] \subseteq e[n]
    BY <1>1, <1>3, <1>4, PartWalks
  <2>2. e[n] \subseteq e[m]
    BY <1>1, <1>4, WalksGrow
  <2> QED
    BY <2>1, <2>2
<1>6. ASSUME NEW w \in e[m], Inner(w, I, P) PROVE w \in f[n]
  <2> DEFINE l == Len(w.path) - 1
  <2>1. l \in 0 .. m /\ w \in e[l] /\ w \in PathSet(h, s)
    BY <1>1, <1>4, <1>6, WalksByLength
  <2>2. Simple(h, w)
    BY <2>1 DEF PathSet
  <2>3. l <= n /\ l \in Nat
    BY <1>6, <2>2, InnerIsShort DEF n
  <2> HIDE DEF l
  <2>4. l \in 0 .. n /\ n \in l .. n
    BY <1>1, <2>3
  <2>5. w \in f[l]
    BY <1>1, <1>3, <1>6, <2>1, <2>4, InnerWalks
  <2>6. f[l] \subseteq f[n]
    BY <1>1, <2>4, WalksGrow
  <2> QED
    BY <2>5, <2>6
<1>7. ASSUME NEW w \in e[m] PROVE w.score \in Nat
  <2>1. w \in PathSet(h, s)
    BY <1>1, <1>4, WalksByLength
  <2> QED
    BY <2>1 DEF PathSet
<1> QED
  BY <1>2, <1>5, <1>6, <1>7

-----------------------------------------------------------------------------
(* Several shards as one network.                                          *)

\* A finite set as a sequence of its elements, and no other.
LEMMA SetToSeqIs ==
    ASSUME NEW S, IsFiniteSet(S)
    PROVE  /\ SetToSeq(S) \in Seq(S)
           /\ \A x \in S : \E i \in 1 .. Len(SetToSeq(S)) : SetToSeq(S)[i] = x
<1> DEFINE n == Cardinality(S)
           q == SetToSeq(S)
<1>1. n \in Nat /\ ExistsBijection(1 .. n, S)
  BY FS_CardinalityType
<1>2. \E f \in [1 .. n -> S] : IsInjective(f)
  BY <1>1 DEF ExistsBijection, Bijection, Injection
<1>3. q \in [1 .. n -> S] /\ IsInjective(q)
  BY <1>2 DEF SetToSeq
<1> HIDE DEF q
<1>4. q \in Seq(S) /\ Len(q) = n
  BY <1>1, <1>3
<1>5. q \in Injection(1 .. n, S)
  BY <1>3 DEF Injection
<1>6. Cardinality(1 .. n) = n
  <2>1. 1 \in Int /\ n \in Int
    BY <1>1
  <2>2. Cardinality(1 .. n) = IF 1 > n THEN 0 ELSE (n - 1) + 1
    BY <2>1, FS_Interval
  <2> QED
    BY <1>1, <2>2
<1>7. q \in Surjection(1 .. n, S)
  BY <1>5, <1>6, FS_Injection
<1>8. \A x \in S : \E i \in 1 .. n : q[i] = x
  BY <1>7 DEF Surjection
<1> QED
  BY <1>4, <1>8 DEF q

\* The graphs of shards, one over the other.
IsStack(f, shards) ==
    f = [i \in 0 .. Len(shards) |-> IF i = 0 THEN <<>> ELSE Over(shards[i].graph, f[i - 1])]
Stack(shards) == CHOOSE f : IsStack(f, shards)

\* The composite keeps the shards and has the last of these graphs.
LEMMA CompositeIs ==
    ASSUME NEW shards
    PROVE  composite(shards).shards = shards /\ composite(shards).graph = Stack(shards)[Len(shards)]
<1>1. composite(shards) = [shards |-> shards, graph |-> Stack(shards)[Len(shards)]]
  BY Zenon DEF composite, Stack, IsStack
<1> QED
  BY <1>1

\* The graph of the first k shards.
Stacked(g, shards, k) ==
    /\ \A i \in 1 .. k : DOMAIN shards[i].graph \subseteq DOMAIN g
    /\ \A p \in DOMAIN g : \E i \in 1 .. k : p \in DOMAIN shards[i].graph /\ g[p] = shards[i].graph[p]

\* One more shard.
LEMMA StackGrows ==
    ASSUME NEW shards, NEW k, k \in Nat \ {0}, NEW g, Stacked(g, shards, k - 1)
    PROVE  Stacked(Over(shards[k].graph, g), shards, k)
<1> DEFINE a == shards[k].graph
           h == Over(a, g)
<1>1. /\ DOMAIN h = DOMAIN a \cup DOMAIN g
      /\ \A p \in DOMAIN a : h[p] = a[p]
      /\ \A p \in DOMAIN g \ DOMAIN a : h[p] = g[p]
  BY DEF Over
<1>2. \A i \in 1 .. k : i = k \/ i \in 1 .. k - 1
  OBVIOUS
<1>3. k \in 1 .. k /\ \A i \in 1 .. k - 1 : i \in 1 .. k
  OBVIOUS
<1> HIDE DEF a, h
<1>4. ASSUME NEW i \in 1 .. k PROVE DOMAIN shards[i].graph \subseteq DOMAIN h
  <2>1. CASE i = k
    BY <1>1, <2>1 DEF a
  <2>2. CASE i \in 1 .. k - 1
    BY <1>1, <2>2 DEF Stacked
  <2> QED
    BY <1>2, <2>1, <2>2
<1>5. ASSUME NEW p \in DOMAIN h PROVE \E i \in 1 .. k : p \in DOMAIN shards[i].graph /\ h[p] = shards[i].graph[p]
  <2>1. CASE p \in DOMAIN a
    BY <1>1, <1>3, <2>1 DEF a
  <2>2. CASE p \in DOMAIN g \ DOMAIN a
    <3>1. PICK i \in 1 .. k - 1 : p \in DOMAIN shards[i].graph /\ g[p] = shards[i].graph[p]
      BY <2>2 DEF Stacked
    <3> QED
      BY <1>1, <1>3, <2>2, <3>1
  <2> QED
    BY <1>1, <2>1, <2>2
<1>6. Stacked(h, shards, k)
  BY <1>4, <1>5 DEF Stacked
<1> QED
  BY <1>6 DEF a, h

\* So the composite has the edges of every shard, each as some shard has it.
LEMMA ComposedIs ==
    ASSUME NEW shards, Len(shards) \in Nat, NEW K, NEW V,
           \A i \in 1 .. Len(shards) : shards[i].graph \in Partial(K, V)
    PROVE  Stacked(composite(shards).graph, shards, Len(shards)) /\ composite(shards).shards = shards
<1> DEFINE n == Len(shards)
           W == [k \in 0 .. n |-> {g \in Partial(K, V) : Stacked(g, shards, k)}]
           G == [k \in 1 .. n |-> [g \in W[k - 1] |-> Over(shards[k].graph, g)]]
           a == <<>>
           c == Stack(shards)
<1>1. n \in Nat
  OBVIOUS
<1>2. \A k \in 0 .. n : \A g : g \in W[k] <=> g \in Partial(K, V) /\ Stacked(g, shards, k)
  OBVIOUS
<1>3. \A k \in 1 .. n : \A g \in W[k - 1] : G[k][g] = Over(shards[k].graph, g)
  OBVIOUS
<1>4. 0 \in 0 .. n /\ 0 \in Int /\ n \in Int /\ 0 <= n /\ n \in 0 .. n
  OBVIOUS
<1>5. \A k \in 1 .. n : k - 1 \in 0 .. n /\ k \in 0 .. n /\ k \in Nat \ {0} /\ k \in 0 + 1 .. n
  OBVIOUS
<1>6. \A k \in 0 + 1 .. n : k \in 1 .. n
  OBVIOUS
<1>7. \A k \in 0 .. n : k = 0 \/ k \in 1 .. n
  OBVIOUS
<1>8. \A k \in 1 .. n : shards[k].graph \in Partial(K, V)
  OBVIOUS
<1>9. a \in Partial(K, V) /\ Stacked(a, shards, 0)
  <2>1. a \in Partial(K, V) /\ DOMAIN a = {}
    BY EmptyIsPartial
  <2>2. \A i \in 1 .. 0 : FALSE
    OBVIOUS
  <2> QED
    BY <2>1, <2>2 DEF Stacked
<1> HIDE DEF n, W, G, a, c
<1>10. a \in W[0]
  BY <1>2, <1>4, <1>9
<1>11. ASSUME NEW k \in 1 .. n, NEW g \in W[k - 1] PROVE Over(shards[k].graph, g) \in W[k]
  <2>1. g \in Partial(K, V) /\ Stacked(g, shards, k - 1)
    BY <1>2, <1>5
  <2>2. shards[k].graph \in Partial(K, V)
    BY <1>8
  <2>3. Over(shards[k].graph, g) \in Partial(K, V)
    BY <2>1, <2>2, MergeIsPartial
  <2>4. Stacked(Over(shards[k].graph, g), shards, k)
    BY <1>5, <2>1, StackGrows
  <2> QED
    BY <1>2, <1>5, <2>3, <2>4
<1>12. \E f : IsStack(f, shards)
  <2>1. Leads(G, W, 0, n)
    <3>1. ASSUME NEW k \in 0 + 1 .. n, NEW g \in W[k - 1] PROVE G[k][g] \in W[k]
      BY <1>3, <1>6, <1>11
    <3> QED
      BY <3>1 DEF Leads
  <2>2. PICK f : Unrolls(f, a, G, W, 0, n)
    BY <1>4, <1>10, <2>1, RecursiveFunction
  <2>3. ASSUME NEW k \in 1 .. n PROVE f[k] = Over(shards[k].graph, f[k - 1])
    <3>1. f[k - 1] \in W[k - 1] /\ f[k] = G[k][f[k - 1]]
      BY <1>5, <2>2 DEF Unrolls
    <3> QED
      BY <1>3, <3>1
  <2>4. f = [k \in 0 .. n |-> f[k]] /\ f[0] = a
    BY <2>2 DEF Unrolls
  <2>5. \A k \in 0 .. n : f[k] = IF k = 0 THEN a ELSE Over(shards[k].graph, f[k - 1])
    BY <1>7, <2>3, <2>4
  <2>6. f = [k \in 0 .. n |-> IF k = 0 THEN a ELSE Over(shards[k].graph, f[k - 1])]
    BY <2>4, <2>5
  <2>7. IsStack(f, shards)
    BY <2>6 DEF IsStack, n, a
  <2> QED
    BY <2>7
<1>13. IsStack(c, shards)
  BY <1>12 DEF c, Stack
<1>14. c[0] = a /\ \A k \in 1 .. n : c[k] = Over(shards[k].graph, c[k - 1])
  <2> DEFINE F(k) == IF k = 0 THEN a ELSE Over(shards[k].graph, c[k - 1])
  <2>1. c = [k \in 0 .. n |-> F(k)]
    BY <1>13 DEF IsStack, n, a
  <2>2. \A k \in 0 .. n : c[k] = F(k)
    <3> HIDE DEF F
    <3> QED
      BY <2>1, Zenon
  <2>3. \A k \in 1 .. n : k # 0
    BY <1>5
  <2> QED
    BY <1>4, <1>5, <2>2, <2>3
<1> DEFINE T == {k \in 0 .. n : c[k] \in W[k]}
<1>15. 0 .. n \subseteq T
  <2>1. 0 \in T
    BY <1>4, <1>10, <1>14
  <2>2. ASSUME NEW k \in 0 + 1 .. n, k - 1 \in T PROVE k \in T
    <3>1. k \in 1 .. n
      BY <1>6
    <3>2. c[k - 1] \in W[k - 1]
      BY <2>2
    <3>3. Over(shards[k].graph, c[k - 1]) \in W[k]
      BY <1>11, <3>1, <3>2
    <3>4. c[k] \in W[k]
      BY <1>14, <3>1, <3>3
    <3> QED
      BY <1>5, <3>1, <3>4
  <2> HIDE DEF T
  <2> QED
    BY <1>4, <2>1, <2>2, RangeInd
<1>16. Stacked(c[n], shards, n)
  BY <1>2, <1>4, <1>15
<1>17. composite(shards).graph = c[n] /\ composite(shards).shards = shards
  BY CompositeIs DEF c, n
<1> QED
  BY <1>16, <1>17 DEF n


\* A shard of the source, and one that was cut around the node n.
IsShard(net) == \E sel, A : Shard(source, sel, A, net)
IsShardWith(net, n) == \E sel, A : Shard(source, sel, A, net) /\ n \in A

\* What the shards of a window are when they answer for the nodes inside.
IsWindow(c, inside) ==
    /\ Len(c.shards) \in Nat /\ DOMAIN c.shards = 1 .. Len(c.shards)
    /\ \A i \in 1 .. Len(c.shards) : IsShard(c.shards[i])
    /\ inside \subseteq DOMAIN source.nodes
    /\ \A n \in inside : \E i \in 1 .. Len(c.shards) : IsShardWith(c.shards[i], n)
    /\ Stacked(c.graph, c.shards, Len(c.shards))

\* A shard has nodes and roads of the source.
LEMMA ShardIsOfSource ==
    ASSUME SourceOK(source), NEW net, IsShard(net)
    PROVE  /\ net.graph \in Partial(PlacedNodes(source) \X PlacedNodes(source), Weighted(source))
           /\ \A n \in DOMAIN net.hash : /\ n \in DOMAIN source.nodes /\ net.hash[n] = source.nodes[n]
                                         /\ net.hash[n] \in Int \X Int
           /\ \A pair \in DOMAIN net.graph :
                IsOfSource(net, pair) /\ pair[1] \in DOMAIN net.hash /\ pair[2] \in DOMAIN net.hash
           /\ \A n \in DOMAIN net.meta : \E d \in PlacedEdges : d.from = n /\ d.meta = net.meta[n]
           /\ net.index = build(NodeRows(net))
<1>1. PICK sel, A : Shard(source, sel, A, net)
  BY DEF IsShard
<1>2. /\ net.graph \in Partial(PlacedNodes(source) \X PlacedNodes(source), Weighted(source))
      /\ net.hash \in Partial(PlacedNodes(source), Int \X Int) /\ NodesAre(source, A, net)
      /\ MetasAre(source, Len(source.edges), net) /\ net.index = build(NodeRows(net))
  BY <1>1, ShardHas
<1>3. DOMAIN net.hash \subseteq PlacedNodes(source) /\ \A n \in DOMAIN net.hash : net.hash[n] \in Int \X Int
  BY <1>2, PartialIs
<1>4. \A pair \in DOMAIN net.graph :
        IsOfSource(net, pair) /\ pair[1] \in DOMAIN net.hash /\ pair[2] \in DOMAIN net.hash
  BY <1>1, RoadsOfShard
<1>5. ASSUME NEW n \in DOMAIN net.meta PROVE \E d \in PlacedEdges : d.from = n /\ d.meta = net.meta[n]
  <2>1. PICK j \in 1 .. Len(source.edges) :
          /\ source.edges[j].from = n /\ source.edges[j].meta = net.meta[n]
          /\ n \in PlacedNodes(source) /\ source.edges[j].to \in PlacedNodes(source)
    BY <1>2 DEF MetasAre
  <2>2. j \in DOMAIN source.edges
    BY DEF SourceOK
  <2>3. source.edges[j] \in PlacedEdges
    BY <2>1, <2>2 DEF PlacedEdges, SourceEdges, ToSet, PlacedNodes
  <2> QED
    BY <2>1, <2>3
<1> QED
  BY <1>2, <1>3, <1>4, <1>5 DEF NodesAre, PlacedNodes

\* A shard that was cut around n has n, and the roads that leave it.
LEMMA ShardHasNode ==
    ASSUME SourceOK(source), NEW net, NEW n, IsShardWith(net, n)
    PROVE  /\ IsShard(net) /\ n \in DOMAIN net.hash
           /\ \A e \in PlacedEdges : e.from = n =>
                /\ Carries(net, e)
                /\ <<e.from, e.to>> \in search(net.index_edge, square_box(source.nodes[e.to], 0))
<1>1. PICK sel, A : Shard(source, sel, A, net) /\ n \in A
  BY DEF IsShardWith
<1>2. n \in DOMAIN net.hash
  BY <1>1, ShardHas DEF NodesAre
<1>3. ASSUME NEW e \in PlacedEdges, e.from = n
      PROVE  Carries(net, e) /\ <<e.from, e.to>> \in search(net.index_edge, square_box(source.nodes[e.to], 0))
  <2>1. Carries(net, e)
    BY <1>1, <1>3, RoadIsIn
  <2>2. IsFound(source, net, e)
    BY <1>1, <2>1, CarriedIsFound
  <2> QED
    BY <2>1, <2>2 DEF IsFound
<1> QED
  BY <1>1, <1>2, <1>3 DEF IsShard

\* A road of the source is the only one between its ends.
LEMMA RoadIsTheOnly ==
    ASSUME SourceOK(source), NEW d \in SourceEdges, NEW e \in SourceEdges, d.from = e.from, d.to = e.to
    PROVE  d = e
<1>1. PICK i \in DOMAIN source.edges : d = source.edges[i]
  BY DEF SourceEdges, ToSet
<1>2. PICK j \in DOMAIN source.edges : e = source.edges[j]
  BY DEF SourceEdges, ToSet
<1>3. i = j
  BY <1>1, <1>2 DEF SourceOK
<1> QED
  BY <1>1, <1>2, <1>3

\* The graph of the source has its roads.
LEMMA SourceGraphIs ==
    ASSUME SourceOK(source)
    PROVE  /\ \A p \in DOMAIN SourceGraph : \E e \in SourceEdges : p = <<e.from, e.to>>
           /\ \A e \in SourceEdges : /\ <<e.from, e.to>> \in DOMAIN SourceGraph
                                     /\ SourceGraph[<<e.from, e.to>>].weight = e.weight
           /\ GraphOK(SourceGraph)
<1> DEFINE g == SourceGraph
           Chosen(p) == CHOOSE e \in SourceEdges : <<e.from, e.to>> = p
<1>1. g = [p \in {<<e.from, e.to>> : e \in SourceEdges} |-> [weight |-> Chosen(p).weight]]
  BY DEF SourceGraph
<1> HIDE DEF g, Chosen
<1>2. DOMAIN g = {<<e.from, e.to>> : e \in SourceEdges} /\ \A p \in DOMAIN g : g[p].weight = Chosen(p).weight
  BY <1>1
<1>3. \A p \in DOMAIN g : \E e \in SourceEdges : p = <<e.from, e.to>>
  BY <1>2
<1>4. ASSUME NEW e \in SourceEdges
      PROVE  <<e.from, e.to>> \in DOMAIN g /\ g[<<e.from, e.to>>].weight = e.weight
  <2> DEFINE p == <<e.from, e.to>>
             d == Chosen(p)
  <2>1. p \in DOMAIN g
    BY <1>2
  <2>2. d \in SourceEdges /\ <<d.from, d.to>> = p
    BY DEF Chosen
  <2>3. d.from = e.from /\ d.to = e.to
    BY <2>2
  <2> HIDE DEF d
  <2>4. d = e
    BY <2>2, <2>3, RoadIsTheOnly
  <2> QED
    BY <1>2, <2>1, <2>4 DEF d
<1>5. ASSUME NEW p \in DOMAIN g PROVE p = <<p[1], p[2]>> /\ g[p].weight \in Nat
  <2>1. PICK e \in SourceEdges : p = <<e.from, e.to>>
    BY <1>3
  <2>2. PICK i \in DOMAIN source.edges : e = source.edges[i]
    BY DEF SourceEdges, ToSet
  <2>3. e.weight \in Nat
    BY <2>2 DEF SourceOK
  <2> QED
    BY <1>4, <2>1, <2>3
<1>6. IsFiniteSet(GraphNodes(g))
  <2> DEFINE n == Len(source.edges)
             D == 1 .. n
             from == [i \in D |-> source.edges[i].from]
             to == [i \in D |-> source.edges[i].to]
             F == {source.edges[i].from : i \in D}
             U == {source.edges[i].to : i \in D}
  <2>1. n \in Nat /\ D = DOMAIN source.edges
    BY DEF SourceOK
  <2>2. IsFiniteSet(D)
    BY <2>1, FS_Interval
  <2>3. from \in Surjection(D, F) /\ to \in Surjection(D, U)
    BY DEF Surjection
  <2>4. GraphNodes(g) \subseteq F \cup U
    <3>1. ASSUME NEW p \in DOMAIN g PROVE p[1] \in F \cup U /\ p[2] \in F \cup U
      <4>1. PICK e \in SourceEdges : p = <<e.from, e.to>>
        BY <1>3
      <4>2. PICK i \in D : e = source.edges[i]
        BY <2>1 DEF SourceEdges, ToSet
      <4> QED
        BY <4>1, <4>2
    <3> QED
      BY <3>1 DEF GraphNodes
  <2> HIDE DEF D, from, to, F, U
  <2>5. IsFiniteSet(F) /\ IsFiniteSet(U)
    BY <2>2, <2>3, FS_Surjection
  <2>6. IsFiniteSet(F \cup U)
    BY <2>5, FS_Union
  <2> QED
    BY <2>4, <2>6, FS_Subset
<1>7. GraphOK(g)
  BY <1>5, <1>6 DEF GraphOK
<1> QED
  BY <1>3, <1>4, <1>7 DEF g

\* The graph of a window is the part of it that its shards have, and has what
\* leaves the nodes inside.
LEMMA WindowGraph ==
    ASSUME SourceOK(source), NEW c, NEW inside, IsWindow(c, inside)
    PROVE  /\ \A p \in DOMAIN c.graph : \E e \in PlacedEdges : p = <<e.from, e.to>> /\ e.weight = c.graph[p].weight
           /\ \A e \in PlacedEdges : e.from \in inside => <<e.from, e.to>> \in DOMAIN c.graph
           /\ GraphOK(c.graph) /\ Within(c.graph, SourceGraph)
           /\ Covers(c.graph, SourceGraph, inside, DOMAIN source.nodes)
<1> DEFINE g == c.graph
           h == SourceGraph
<1>1. ASSUME NEW p \in DOMAIN g PROVE \E e \in PlacedEdges : p = <<e.from, e.to>> /\ e.weight = g[p].weight
  <2>1. PICK i \in 1 .. Len(c.shards) : p \in DOMAIN c.shards[i].graph /\ g[p] = c.shards[i].graph[p]
    BY DEF IsWindow, Stacked
  <2>2. IsShard(c.shards[i])
    BY DEF IsWindow
  <2>3. IsOfSource(c.shards[i], p)
    BY <2>1, <2>2, ShardIsOfSource
  <2> QED
    BY <2>1, <2>3 DEF IsOfSource
<1>2. ASSUME NEW e \in PlacedEdges, e.from \in inside PROVE <<e.from, e.to>> \in DOMAIN g
  <2>1. PICK i \in 1 .. Len(c.shards) : IsShardWith(c.shards[i], e.from)
    BY <1>2 DEF IsWindow
  <2>2. Carries(c.shards[i], e)
    BY <2>1, ShardHasNode
  <2> QED
    BY <2>2 DEF Carries, IsWindow, Stacked
<1>3. /\ \A p \in DOMAIN h : \E e \in SourceEdges : p = <<e.from, e.to>>
      /\ \A e \in SourceEdges : <<e.from, e.to>> \in DOMAIN h /\ h[<<e.from, e.to>>].weight = e.weight
      /\ GraphOK(h)
  BY SourceGraphIs
<1> HIDE DEF g, h
<1>4. \A e \in PlacedEdges : e \in SourceEdges
  BY DEF PlacedEdges
<1>5. Within(g, h)
  BY <1>1, <1>3, <1>4 DEF Within
<1>6. GraphOK(g)
  <2>1. GraphNodes(g) \subseteq GraphNodes(h)
    BY <1>5 DEF GraphNodes, Within
  <2>2. IsFiniteSet(GraphNodes(g))
    BY <1>3, <2>1, FS_Subset DEF GraphOK
  <2>3. \A p \in DOMAIN g : p = <<p[1], p[2]>> /\ g[p].weight \in Nat
    BY <1>3, <1>5 DEF Within, GraphOK
  <2> QED
    BY <2>2, <2>3 DEF GraphOK
<1>7. Covers(g, h, inside, DOMAIN source.nodes)
  <2>1. inside \subseteq DOMAIN source.nodes
    BY DEF IsWindow
  <2>2. ASSUME NEW p \in DOMAIN h, p[1] \in inside, p[2] \in DOMAIN source.nodes PROVE p \in DOMAIN g
    <3>1. PICK e \in SourceEdges : p = <<e.from, e.to>>
      BY <1>3
    <3>2. e.from \in inside /\ e \in PlacedEdges
      BY <2>1, <2>2, <3>1 DEF PlacedEdges
    <3> QED
      BY <1>2, <3>1, <3>2
  <2> QED
    BY <2>1, <2>2 DEF Covers
<1> QED
  BY <1>1, <1>2, <1>5, <1>6, <1>7 DEF g, h


\* The best routes: no route to the same node is cheaper.
LEMMA BestIs ==
    ASSUME NEW g, NEW s, NEW t, NEW w
    PROVE  w \in astar(g, s, t) <=>
             /\ w \in SimplePaths(g, s) /\ w.path[Len(w.path)] = t
             /\ \A v \in SimplePaths(g, s) : v.path[Len(v.path)] = t => w.score <= v.score
<1> DEFINE found == {v \in SimplePaths(g, s) : v.path[Len(v.path)] = t}
<1>1. astar(g, s, t) = {v \in found : \A u \in found : v.score <= u.score}
  BY DEF astar
<1>2. \A v : v \in found <=> v \in SimplePaths(g, s) /\ v.path[Len(v.path)] = t
  OBVIOUS
<1> HIDE DEF found
<1> QED
  BY <1>1, <1>2

\* What a composite asks for a route is what its graph costs.
LEMMA RouteScores ==
    ASSUME NEW c, NEW s, NEW t
    PROVE  {r.score : r \in comp_route_nodes(c, s, t)} = {w.score : w \in astar(c.graph, s, t)}
<1> DEFINE Kept(w) == SelectSeq(w.path, LAMBDA n : comp_point(c, n) # {})
           W == astar(c.graph, s, t)
<1>1. comp_route_nodes(c, s, t) = {[score |-> w.score, route |-> Kept(w)] : w \in W}
  BY DEF comp_route_nodes
<1> HIDE DEF Kept, W
<1>2. \A w \in W : [score |-> w.score, route |-> Kept(w)].score = w.score
  OBVIOUS
<1>3. ASSUME NEW r \in comp_route_nodes(c, s, t) PROVE r.score \in {w.score : w \in W}
  BY <1>1, <1>2
<1>4. ASSUME NEW w \in W PROVE w.score \in {r.score : r \in comp_route_nodes(c, s, t)}
  BY <1>1, <1>2
<1>5. {r.score : r \in comp_route_nodes(c, s, t)} = {w.score : w \in W}
  BY <1>3, <1>4
<1> QED
  BY <1>5 DEF W

\* A best route that stays inside is found at its price, and none is cheaper
\* than the source allows.
LEMMA WindowRoutes ==
    ASSUME SourceOK(source), NEW c, NEW inside, IsWindow(c, inside)
    PROVE  RoutesAgree(c, inside)
<1> DEFINE g == c.graph
           h == SourceGraph
           P == DOMAIN source.nodes
<1>1. GraphOK(g) /\ GraphOK(h) /\ Within(g, h) /\ Covers(g, h, inside, P)
  BY SourceGraphIs, WindowGraph
<1> HIDE DEF g, h, P
<1>2. ASSUME NEW s, NEW t \in P
      PROVE  LET price == {w.score : w \in astar(h, s, t)}
                 found == {w.score : w \in astar(g, s, t)}
             IN  /\ (\E w \in astar(h, s, t) : \A i \in 1..(Len(w.path) - 1) : w.path[i] \in inside) => found = price
                 /\ \A x \in found, y \in price : y <= x
  <2> DEFINE price == {w.score : w \in astar(h, s, t)}
             found == {w.score : w \in astar(g, s, t)}
  <2>1. /\ \A v \in SimplePaths(g, s) : v \in SimplePaths(h, s)
        /\ \A w \in SimplePaths(h, s) : Inner(w, inside, P) => w \in SimplePaths(g, s)
        /\ \A w \in SimplePaths(h, s) : w.score \in Int
    BY <1>1, PathsAgree
  <2>2. ASSUME NEW w \in astar(h, s, t) PROVE
          /\ w \in SimplePaths(h, s) /\ w.path[Len(w.path)] = t
          /\ \A v \in SimplePaths(h, s) : v.path[Len(v.path)] = t => w.score <= v.score
    BY BestIs
  <2>3. ASSUME NEW w \in astar(g, s, t) PROVE
          /\ w \in SimplePaths(g, s) /\ w \in SimplePaths(h, s) /\ w.path[Len(w.path)] = t
          /\ \A v \in SimplePaths(g, s) : v.path[Len(v.path)] = t => w.score <= v.score
    BY <2>1, BestIs
  <2>4. ASSUME NEW x \in found, NEW y \in price PROVE y <= x
    <3>1. PICK v \in astar(g, s, t) : x = v.score
      OBVIOUS
    <3>2. PICK w \in astar(h, s, t) : y = w.score
      OBVIOUS
    <3> QED
      BY <2>2, <2>3, <3>1, <3>2
  <2>5. ASSUME NEW w \in astar(h, s, t), \A i \in 1..(Len(w.path) - 1) : w.path[i] \in inside
        PROVE  found = price
    <3>1. w \in SimplePaths(h, s) /\ w.path[Len(w.path)] = t /\ w.score \in Int
      BY <2>1, <2>2
    <3>2. Inner(w, inside, P)
      BY <1>2, <2>5, <3>1 DEF Inner
    <3>3. w \in SimplePaths(g, s)
      BY <2>1, <3>1, <3>2
    <3>4. w \in astar(g, s, t)
      BY <2>1, <2>2, <3>1, <3>3, BestIs
    <3>5. ASSUME NEW v \in astar(g, s, t) PROVE v.score = w.score
      <4>1. v.score <= w.score /\ w.score <= v.score /\ v.score \in Int
        BY <2>1, <2>2, <2>3, <3>1, <3>3
      <4> QED
        BY <3>1, <4>1
    <3>6. ASSUME NEW v \in astar(h, s, t) PROVE v.score = w.score
      <4>1. v.score <= w.score /\ w.score <= v.score /\ v.score \in Int
        BY <2>1, <2>2, <3>1
      <4> QED
        BY <3>1, <4>1
    <3> QED
      BY <3>4, <3>5, <3>6
  <2> QED
    BY <2>4, <2>5
<1>3. ASSUME NEW s \in inside, NEW t \in DOMAIN source.nodes
      PROVE  LET whole == astar(SourceGraph, s, t)
                 price == {w.score : w \in whole}
                 found == {r.score : r \in comp_route_nodes(c, s, t)}
             IN  /\ (\E w \in whole : \A i \in 1..(Len(w.path) - 1) : w.path[i] \in inside) => found = price
                 /\ \A x \in found, y \in price : y <= x
  <2>1. {r.score : r \in comp_route_nodes(c, s, t)} = {w.score : w \in astar(g, s, t)}
    BY RouteScores DEF g
  <2>2. t \in P
    BY DEF P
  <2> QED
    BY <1>2, <2>1, <2>2 DEF h
<1> QED
  BY <1>3 DEF RoutesAgree


\* A gap is a number.
LEMMA GapIsNat ==
    ASSUME NEW q \in Int \X Int, NEW p \in Int \X Int
    PROVE  Gap(envelope_of(q, q), p) \in Nat
<1> DEFINE e == envelope_of(q, q)
           Along(axis) == Greatest(0, Greatest(e.min[axis] - p[axis], p[axis] - e.max[axis]))
<1>1. \A a, b \in Int : Least(a, b) \in Int /\ Greatest(a, b) \in Int /\ Greatest(0, a) \in Nat
  BY DEF Least, Greatest
<1>2. q[1] \in Int /\ q[2] \in Int /\ p[1] \in Int /\ p[2] \in Int
  OBVIOUS
<1>3. e.min[1] = Least(q[1], q[1]) /\ e.min[2] = Least(q[2], q[2])
      /\ e.max[1] = Greatest(q[1], q[1]) /\ e.max[2] = Greatest(q[2], q[2])
  BY DEF envelope_of
<1>4. e.min[1] \in Int /\ e.min[2] \in Int /\ e.max[1] \in Int /\ e.max[2] \in Int
  BY <1>1, <1>2, <1>3
<1> HIDE DEF e
<1>5. Along(1) \in Nat
  <2>1. e.min[1] - p[1] \in Int /\ p[1] - e.max[1] \in Int
    BY <1>2, <1>4
  <2>2. Greatest(e.min[1] - p[1], p[1] - e.max[1]) \in Int
    BY <1>1, <2>1
  <2> QED
    BY <1>1, <2>2
<1>6. Along(2) \in Nat
  <2>1. e.min[2] - p[2] \in Int /\ p[2] - e.max[2] \in Int
    BY <1>2, <1>4
  <2>2. Greatest(e.min[2] - p[2], p[2] - e.max[2]) \in Int
    BY <1>1, <2>1
  <2> QED
    BY <1>1, <2>2
<1>7. \A a, b \in Nat : a * a + b * b \in Nat
  OBVIOUS
<1>8. Gap(e, p) = Along(1) * Along(1) + Along(2) * Along(2)
  BY DEF Gap
<1> HIDE DEF Along
<1>9. Gap(e, p) \in Nat
  BY <1>5, <1>6, <1>7, <1>8
<1> QED
  BY <1>9 DEF e

\* A node of a shard, as the shard has it, and its row in the index.
LEMMA ShardNode ==
    ASSUME SourceOK(source), NEW net, IsShard(net)
    PROVE  /\ DOMAIN net.index = DOMAIN net.hash
           /\ \A n \in DOMAIN net.hash : /\ net.index[n] = envelope_of(source.nodes[n], source.nodes[n])
                                         /\ node(net, n) = {Node(n, source.nodes[n])}
                                         /\ source.nodes[n] \in Int \X Int
<1>1. /\ \A n \in DOMAIN net.hash : net.hash[n] = source.nodes[n] /\ net.hash[n] \in Int \X Int
      /\ net.index = build(NodeRows(net))
  BY ShardIsOfSource
<1> DEFINE rows == NodeRows(net)
<1>2. DOMAIN rows = DOMAIN net.hash /\ \A n \in DOMAIN net.hash : rows[n] = <<net.hash[n], net.hash[n]>>
  BY DEF NodeRows
<1> HIDE DEF rows
<1>3. build(rows) = [r \in DOMAIN rows |-> envelope_of(rows[r][1], rows[r][2])]
  BY DEF build
<1>4. DOMAIN net.index = DOMAIN net.hash
      /\ \A n \in DOMAIN net.hash : net.index[n] = envelope_of(rows[n][1], rows[n][2])
  BY <1>1, <1>2, <1>3 DEF rows
<1>5. \A n \in DOMAIN net.hash : rows[n][1] = net.hash[n] /\ rows[n][2] = net.hash[n]
  BY <1>2
<1>6. \A n \in DOMAIN net.hash : node(net, n) = {Node(n, net.hash[n])}
  BY DEF node, Lookup
<1> QED
  BY <1>1, <1>4, <1>5, <1>6

\* The nearest node of a shard is as near as any of its nodes.
LEMMA ShardNearest ==
    ASSUME SourceOK(source), NEW net, IsShard(net), NEW n \in DOMAIN net.hash, NEW p \in Int \X Int
    PROVE  \E m \in nearest_node(net, p) :
             /\ m.position \in Int \X Int
             /\ Gap(envelope_of(m.position, m.position), p) <= Gap(envelope_of(source.nodes[n], source.nodes[n]), p)
<1> DEFINE Far(k) == Gap(net.index[k], p)
           D == DOMAIN net.index
           T == {Far(k) : k \in D}
<1>1. /\ D = DOMAIN net.hash
      /\ \A k \in D : /\ net.index[k] = envelope_of(source.nodes[k], source.nodes[k])
                      /\ node(net, k) = {Node(k, source.nodes[k])} /\ source.nodes[k] \in Int \X Int
  BY ShardNode
<1>2. \A k \in D : Far(k) \in Nat
  BY <1>1, GapIsNat
<1>3. nearest(net.index, p) = {r \in D : \A q \in D : Far(r) <= Far(q)}
  BY DEF nearest
<1> HIDE DEF D, Far
<1>4. PICK x \in T : \A y \in T : x <= y
  <2>1. T \subseteq Nat /\ T # {}
    BY <1>1, <1>2
  <2> HIDE DEF T
  <2> QED
    BY <2>1, NatMin
<1>5. PICK k \in D : x = Far(k)
  OBVIOUS
<1>6. k \in nearest(net.index, p)
  BY <1>3, <1>4, <1>5
<1> DEFINE m == Node(k, source.nodes[k])
<1>7. m.position = source.nodes[k]
  BY DEF Node
<1> HIDE DEF m
<1>8. m \in nearest_node(net, p)
  BY <1>1, <1>6 DEF nearest_node, m
<1>9. Far(k) <= Far(n)
  BY <1>1, <1>4, <1>5
<1>10. Gap(envelope_of(m.position, m.position), p) <= Gap(envelope_of(source.nodes[n], source.nodes[n]), p)
  BY <1>1, <1>5, <1>7, <1>9 DEF Far
<1> QED
  BY <1>1, <1>7, <1>8, <1>10

\* And the nearest of a window as near as any node inside.
LEMMA WindowNearest ==
    ASSUME SourceOK(source), NEW c, NEW inside, IsWindow(c, inside)
    PROVE  NearestAgrees(c, inside)
<1> SUFFICES ASSUME NEW p \in Points, NEW n \in inside, NEW m \in comp_nearest_node(c, p)
             PROVE  Gap(envelope_of(m.position, m.position), p)
                      <= Gap(envelope_of(source.nodes[n], source.nodes[n]), p)
  BY DEF NearestAgrees
<1> DEFINE found == UNION {nearest_node(c.shards[i], p) : i \in DOMAIN c.shards}
           Far(o) == Gap(envelope_of(o.position, o.position), p)
<1>1. p \in Int \X Int
  BY PointsAssumption
<1>2. comp_nearest_node(c, p) = {o \in found : \A q \in found : Far(o) <= Far(q)}
  BY DEF comp_nearest_node
<1>3. PICK i \in DOMAIN c.shards : IsShardWith(c.shards[i], n)
  BY DEF IsWindow
<1>4. IsShard(c.shards[i]) /\ n \in DOMAIN c.shards[i].hash
  BY <1>3, ShardHasNode
<1>5. PICK o \in nearest_node(c.shards[i], p) :
        /\ o.position \in Int \X Int
        /\ Gap(envelope_of(o.position, o.position), p) <= Gap(envelope_of(source.nodes[n], source.nodes[n]), p)
  BY <1>1, <1>4, ShardNearest
<1>6. o \in found
  BY <1>5
<1>7. m \in found /\ Far(m) <= Far(o)
  BY <1>2, <1>6
<1>8. Far(m) \in Nat
  <2>1. PICK j \in DOMAIN c.shards : m \in nearest_node(c.shards[j], p)
    BY <1>7
  <2>2. IsShard(c.shards[j])
    BY DEF IsWindow
  <2>3. PICK k \in nearest(c.shards[j].index, p) : m \in node(c.shards[j], k)
    BY <2>1 DEF nearest_node
  <2>4. k \in DOMAIN c.shards[j].hash
    BY <2>2, <2>3, ShardNode DEF nearest
  <2>5. m = Node(k, source.nodes[k]) /\ source.nodes[k] \in Int \X Int
    BY <2>2, <2>3, <2>4, ShardNode
  <2>6. m.position \in Int \X Int
    BY <2>5 DEF Node
  <2> QED
    BY <1>1, <2>6, GapIsNat
<1>9. Far(o) \in Nat /\ Gap(envelope_of(source.nodes[n], source.nodes[n]), p) \in Nat
  <2>1. source.nodes[n] \in Int \X Int
    BY <1>4, ShardNode
  <2> QED
    BY <1>1, <1>5, <2>1, GapIsNat
<1> HIDE DEF found
<1> QED
  BY <1>5, <1>7, <1>8, <1>9


\* What the first shard that has an entry says of it.
LEMMA FirstIs ==
    ASSUME NEW shards, DOMAIN shards \subseteq Nat, NEW field, NEW id
    PROVE  /\ (\A i \in DOMAIN shards : id \notin DOMAIN shards[i][field]) => FirstWith(shards, field, id) = {}
           /\ (\E i \in DOMAIN shards : id \in DOMAIN shards[i][field]) =>
                \E i \in DOMAIN shards : /\ id \in DOMAIN shards[i][field]
                                         /\ FirstWith(shards, field, id) = {shards[i][field][id]}
<1> DEFINE having == {i \in DOMAIN shards : id \in DOMAIN shards[i][field]}
           first == CHOOSE i \in having : \A j \in having : i <= j
<1>1. FirstWith(shards, field, id) = IF having = {} THEN {} ELSE {shards[first][field][id]}
  BY DEF FirstWith
<1>2. having # {} => first \in having
  <2>1. having \subseteq Nat
    OBVIOUS
  <2> HIDE DEF having
  <2>2. having # {} => \E i \in having : \A j \in having : i <= j
    BY <2>1, NatMin
  <2> QED
    BY <2>2
<1> HIDE DEF first
<1>3. (\A i \in DOMAIN shards : id \notin DOMAIN shards[i][field]) => having = {}
  OBVIOUS
<1>4. (\E i \in DOMAIN shards : id \in DOMAIN shards[i][field]) => having # {}
  OBVIOUS
<1>5. \A i \in having : i \in DOMAIN shards /\ id \in DOMAIN shards[i][field]
  OBVIOUS
<1> HIDE DEF having
<1> QED
  BY <1>1, <1>2, <1>3, <1>4, <1>5

\* A node inside is on the map of the window.
LEMMA WindowNode ==
    ASSUME SourceOK(source), NEW c, NEW inside, IsWindow(c, inside), NEW n \in inside
    PROVE  n \in {m.id : m \in comp_nodes_in_box(c, square_box(source.nodes[n], 0))}
<1> DEFINE box == square_box(source.nodes[n], 0)
           m == Node(n, source.nodes[n])
<1>1. PICK i \in DOMAIN c.shards : IsShardWith(c.shards[i], n)
  BY DEF IsWindow
<1>2. IsShard(c.shards[i]) /\ n \in DOMAIN c.shards[i].hash
  BY <1>1, ShardHasNode
<1>3. /\ DOMAIN c.shards[i].index = DOMAIN c.shards[i].hash
      /\ c.shards[i].index[n] = envelope_of(source.nodes[n], source.nodes[n])
      /\ node(c.shards[i], n) = {m} /\ source.nodes[n] \in Int \X Int
  BY <1>2, ShardNode
<1>4. Intersects(c.shards[i].index[n], box)
  BY <1>3, EnvelopeTouches
<1>5. m.id = n
  BY DEF Node
<1> HIDE DEF box, m
<1>6. n \in search(c.shards[i].index, box)
  BY <1>2, <1>3, <1>4 DEF search
<1>7. m \in nodes_in_box(c.shards[i], box)
  BY <1>3, <1>6 DEF nodes_in_box
<1>8. m \in comp_nodes_in_box(c, box)
  BY <1>7 DEF comp_nodes_in_box
<1> QED
  BY <1>5, <1>8 DEF box

\* The metadata of a node is that of a road that leaves it.
LEMMA WindowMetadata ==
    ASSUME SourceOK(source), NEW c, NEW inside, IsWindow(c, inside), NEW n
    PROVE  comp_metadata(c, n) = {} \/ \E e \in PlacedEdges : e.from = n /\ comp_metadata(c, n) = {e.meta}
<1>1. DOMAIN c.shards \subseteq Nat
  BY DEF IsWindow
<1>2. CASE \A i \in DOMAIN c.shards : n \notin DOMAIN c.shards[i]["meta"]
  BY <1>1, <1>2, FirstIs DEF comp_metadata
<1>3. CASE \E i \in DOMAIN c.shards : n \in DOMAIN c.shards[i]["meta"]
  <2>1. PICK i \in DOMAIN c.shards : /\ n \in DOMAIN c.shards[i]["meta"]
                                     /\ comp_metadata(c, n) = {c.shards[i]["meta"][n]}
    BY <1>1, <1>3, FirstIs DEF comp_metadata
  <2>2. IsShard(c.shards[i])
    BY DEF IsWindow
  <2>3. PICK d \in PlacedEdges : d.from = n /\ d.meta = c.shards[i].meta[n]
    BY <2>1, <2>2, ShardIsOfSource
  <2> QED
    BY <2>1, <2>3
<1> QED
  BY <1>2, <1>3

\* A road that leaves a node inside is on the map of the window.
LEMMA WindowRoad ==
    ASSUME SourceOK(source), NEW c, NEW inside, IsWindow(c, inside), NEW e \in PlacedEdges, e.from \in inside
    PROVE  \E fat \in comp_edges_in_box(c, square_box(source.nodes[e.to], 0)) :
             <<fat.source.id, fat.target.id>> = <<e.from, e.to>>
<1> DEFINE box == square_box(source.nodes[e.to], 0)
           pair == <<e.from, e.to>>
<1>1. PICK i \in DOMAIN c.shards : IsShardWith(c.shards[i], e.from)
  BY DEF IsWindow
<1>2. Carries(c.shards[i], e) /\ pair \in search(c.shards[i].index_edge, box) /\ IsShard(c.shards[i])
  BY <1>1, ShardHasNode
<1>3. pair[1] = e.from /\ pair[2] = e.to
  OBVIOUS
<1> HIDE DEF box
<1>4. pair \in DOMAIN c.shards[i].graph
  BY <1>2 DEF Carries
<1> HIDE DEF pair
<1>5. pair[1] \in DOMAIN c.shards[i].hash /\ pair[2] \in DOMAIN c.shards[i].hash
  BY <1>2, <1>4, ShardIsOfSource
<1>6. ASSUME NEW n \in DOMAIN c.shards[i].hash PROVE comp_point(c, n) # {}
  <2>1. DOMAIN c.shards \subseteq Nat /\ \E j \in DOMAIN c.shards : n \in DOMAIN c.shards[j]["hash"]
    BY <1>6 DEF IsWindow
  <2>2. \E j \in DOMAIN c.shards : FirstWith(c.shards, "hash", n) = {c.shards[j]["hash"][n]}
    BY <2>1, FirstIs
  <2> QED
    BY <2>2 DEF comp_point
<1>7. pair \in DOMAIN c.graph
  BY <1>4 DEF IsWindow, Stacked
<1>8. PICK s \in comp_point(c, pair[1]) : TRUE
  BY <1>5, <1>6
<1>9. PICK t \in comp_point(c, pair[2]) : TRUE
  BY <1>5, <1>6
<1>10. PICK w \in Lookup(c.graph, pair) : TRUE
  BY <1>7 DEF Lookup
<1> DEFINE fat == Edge(Node(pair[1], s), Node(pair[2], t), w.weight, w.id)
<1>11. fat.source.id = pair[1] /\ fat.target.id = pair[2]
  BY DEF Edge, Node
<1>12. fat \in CompFat(c, pair)
  BY <1>8, <1>9, <1>10 DEF CompFat
<1> HIDE DEF fat
<1>13. fat \in comp_edges_in_box(c, box)
  BY <1>2, <1>12 DEF comp_edges_in_box
<1>14. <<fat.source.id, fat.target.id>> = <<e.from, e.to>>
  BY <1>3, <1>11
<1> QED
  BY <1>13, <1>14 DEF box

\* So the nodes and the roads inside are all there.
LEMMA WindowRoads ==
    ASSUME SourceOK(source), NEW c, NEW inside, IsWindow(c, inside)
    PROVE  RoadsAreThere(c, inside)
<1>1. /\ \A p \in DOMAIN c.graph : \E e \in PlacedEdges : p = <<e.from, e.to>>
      /\ \A e \in PlacedEdges : e.from \in inside => <<e.from, e.to>> \in DOMAIN c.graph
  BY WindowGraph
<1>2. ASSUME NEW n \in inside
      PROVE  comp_edges_outof(c, n) = {<<e.from, e.to>> : e \in {d \in PlacedEdges : d.from = n}}
  <2>1. ASSUME NEW p \in comp_edges_outof(c, n) PROVE p \in {<<e.from, e.to>> : e \in {d \in PlacedEdges : d.from = n}}
    <3>1. p \in DOMAIN c.graph /\ p[1] = n
      BY DEF comp_edges_outof
    <3>2. PICK e \in PlacedEdges : p = <<e.from, e.to>>
      BY <1>1, <3>1
    <3>3. e.from = n
      BY <3>1, <3>2
    <3> QED
      BY <3>2, <3>3
  <2>2. ASSUME NEW e \in PlacedEdges, e.from = n PROVE <<e.from, e.to>> \in comp_edges_outof(c, n)
    BY <1>1, <1>2, <2>2 DEF comp_edges_outof
  <2> QED
    BY <2>1, <2>2
<1>3. ASSUME NEW n
      PROVE  comp_edges_into(c, n) \subseteq {<<e.from, e.to>> : e \in {d \in PlacedEdges : d.to = n}}
  <2>1. ASSUME NEW p \in comp_edges_into(c, n) PROVE p \in {<<e.from, e.to>> : e \in {d \in PlacedEdges : d.to = n}}
    <3>1. p \in DOMAIN c.graph /\ p[2] = n
      BY DEF comp_edges_into
    <3>2. PICK e \in PlacedEdges : p = <<e.from, e.to>>
      BY <1>1, <3>1
    <3>3. e.to = n
      BY <3>1, <3>2
    <3> QED
      BY <3>2, <3>3
  <2> QED
    BY <2>1
<1>4. ASSUME NEW n \in inside
      PROVE  /\ n \in {m.id : m \in comp_nodes_in_box(c, square_box(source.nodes[n], 0))}
             /\ comp_metadata(c, n) = {} \/ \E e \in PlacedEdges : e.from = n /\ comp_metadata(c, n) = {e.meta}
  BY WindowNode, WindowMetadata
<1> QED
  BY <1>2, <1>3, <1>4, WindowRoad DEF RoadsAreThere

-----------------------------------------------------------------------------
(* The window and its composite.                                           *)

\* The window has finitely many cells.
LEMMA WindowIsFinite == Spec => []IsFiniteSet(DOMAIN cache)
<1>1. Init => IsFiniteSet(DOMAIN cache)
  <2>1. DOMAIN <<>> = {}
    OBVIOUS
  <2> QED
    BY <2>1, FS_EmptySet DEF Init
<1>2. ASSUME IsFiniteSet(DOMAIN cache), [Next]_vars PROVE IsFiniteSet(DOMAIN cache)'
  <2>1. CASE UNCHANGED cache
    BY <1>2, <2>1
  <2>2. CASE Fetch
    <3>1. PICK net : cache' = Over(One(Turn[1], net), cache)
      BY <2>2 DEF Fetch
    <3>2. DOMAIN cache' = DOMAIN cache \cup {Turn[1]}
      BY <3>1 DEF One, Over
    <3>3. IsFiniteSet(DOMAIN cache \cup {Turn[1]})
      BY <1>2, FS_AddElement
    <3> QED
      BY <3>2, <3>3
  <2>3. CASE Evict
    <3>1. PICK key : cache' = [c \in DOMAIN cache \ {key} |-> cache[c]]
      BY <2>3 DEF Evict
    <3>2. DOMAIN cache' \subseteq DOMAIN cache
      BY <3>1
    <3> QED
      BY <1>2, <3>2, FS_Subset
  <2>4. Generate("ok") \/ Generate("cut") \/ Generate("none") => UNCHANGED cache
    BY DEF Generate, window
  <2>5. WriteManifest => UNCHANGED cache
    BY DEF WriteManifest, window
  <2>6. ASSUME NEW key, Load(key) PROVE UNCHANGED cache
    BY <2>6 DEF Load, window
  <2>7. ASSUME NEW p, Recenter(p) PROVE UNCHANGED cache
    BY <2>7 DEF Recenter
  <2>8. FetchFails => UNCHANGED cache
    BY DEF FetchFails
  <2>9. UNCHANGED vars => UNCHANGED cache
    BY DEF vars, window
  <2> QED
    BY <1>2, <2>1, <2>2, <2>3, <2>4, <2>5, <2>6, <2>7, <2>8, <2>9 DEF Next
<1> QED
  BY <1>1, <1>2, PTL DEF Spec

\* The shard of a cell was cut around each of its nodes.
LEMMA CellShardIs ==
    ASSUME SourceOK(source), NEW key
    PROVE  /\ IsShard(sharded_network(key))
           /\ \A n \in DOMAIN source.nodes :
                locate(Strategy, source.nodes[n]) = key => IsShardWith(sharded_network(key), n)
<1> DEFINE sel == Selection(Strategy, key, "OwnedAndPadded")
           A == AdmittedNodes(source, Strategy, sel)
<1>1. key \in sel.loaded
  BY DEF Selection
<1>2. sharded_network(key) = from_source(source, Strategy, sel)
  BY DEF sharded_network
<1> HIDE DEF sel
<1>3. Shard(source, sel, A, sharded_network(key))
  BY <1>2, FromSourceIs
<1>4. ASSUME NEW n \in DOMAIN source.nodes, locate(Strategy, source.nodes[n]) = key PROVE n \in A
  BY <1>1, <1>4 DEF AdmittedNodes, Admits
<1> HIDE DEF A
<1> QED
  BY <1>3, <1>4 DEF IsShard, IsShardWith

\* The composite of a window is one of shards of the source.
LEMMA CompositeIsWindow ==
    ASSUME ShardInv, IsFiniteSet(DOMAIN cache)
    PROVE  IsWindow(composite(SetToSeq({cache[k] : k \in DOMAIN cache})),
                    {n \in DOMAIN source.nodes : locate(Strategy, source.nodes[n]) \in DOMAIN cache})
<1> DEFINE S == {cache[k] : k \in DOMAIN cache}
           all == [k \in DOMAIN cache |-> cache[k]]
           q == SetToSeq(S)
           c == composite(q)
           inside == {n \in DOMAIN source.nodes : locate(Strategy, source.nodes[n]) \in DOMAIN cache}
<1>1. SourceOK(source) /\ \A k \in DOMAIN cache : cache[k] = sharded_network(k)
  BY SourcesAreOK DEF ShardInv, LoadedIsOwn
<1>2. IsFiniteSet(S)
  <2>1. all \in Surjection(DOMAIN cache, S)
    BY DEF Surjection
  <2> HIDE DEF all, S
  <2> QED
    BY <2>1, FS_Surjection
<1>3. \A x \in S : \E k \in DOMAIN cache : x = sharded_network(k)
  BY <1>1
<1>4. \A k \in DOMAIN cache : sharded_network(k) \in S
  BY <1>1
<1>5. inside \subseteq DOMAIN source.nodes /\ \A n \in inside : locate(Strategy, source.nodes[n]) \in DOMAIN cache
  OBVIOUS
<1> HIDE DEF S, all, q, c, inside
<1>6. q \in Seq(S) /\ \A x \in S : \E i \in 1 .. Len(q) : q[i] = x
  BY <1>2, SetToSeqIs DEF q
<1>7. Len(q) \in Nat /\ DOMAIN q = 1 .. Len(q) /\ \A i \in 1 .. Len(q) : q[i] \in S
  BY <1>6
<1>8. ASSUME NEW i \in 1 .. Len(q) PROVE IsShard(q[i])
  <2>1. PICK k \in DOMAIN cache : q[i] = sharded_network(k)
    BY <1>3, <1>7
  <2> QED
    BY <1>1, <2>1, CellShardIs
<1>9. \A i \in 1 .. Len(q) : q[i].graph \in Partial(PlacedNodes(source) \X PlacedNodes(source), Weighted(source))
  BY <1>1, <1>8, ShardIsOfSource
<1>10. Stacked(c.graph, q, Len(q)) /\ c.shards = q
  BY <1>7, <1>9, ComposedIs DEF c
<1>11. ASSUME NEW n \in inside PROVE \E i \in 1 .. Len(q) : IsShardWith(q[i], n)
  <2> DEFINE key == locate(Strategy, source.nodes[n])
  <2>1. key \in DOMAIN cache /\ n \in DOMAIN source.nodes
    BY <1>5
  <2>2. IsShardWith(sharded_network(key), n)
    BY <1>1, <2>1, CellShardIs
  <2> HIDE DEF key
  <2>3. PICK i \in 1 .. Len(q) : q[i] = sharded_network(key)
    BY <1>4, <1>6, <2>1
  <2> QED
    BY <2>2, <2>3
<1>12. IsWindow(c, inside)
  BY <1>5, <1>7, <1>8, <1>10, <1>11 DEF IsWindow
<1> QED
  BY <1>12 DEF c, q, S, inside

\* For every network, cells, padding, window and order of its shards: a best
\* route that stays in the cells of the window is found at its price and none
\* is cheaper, the nearest node is no farther than the nearest of the cells,
\* and every road that leaves a node of theirs is there to be matched.
THEOREM CompositeIsWhole == Spec => []CompositeRoutesLikeWhole
<1>1. ShardInv /\ IsFiniteSet(DOMAIN cache) => CompositeRoutesLikeWhole
  <2> SUFFICES ASSUME ShardInv, IsFiniteSet(DOMAIN cache) PROVE CompositeRoutesLikeWhole
    OBVIOUS
  <2> DEFINE c == composite(SetToSeq({cache[k] : k \in DOMAIN cache}))
             inside == {n \in DOMAIN source.nodes : locate(Strategy, source.nodes[n]) \in DOMAIN cache}
  <2>1. SourceOK(source)
    BY SourcesAreOK DEF ShardInv
  <2>2. IsWindow(c, inside)
    BY CompositeIsWindow
  <2> HIDE DEF c, inside
  <2>3. RoutesAgree(c, inside) /\ NearestAgrees(c, inside) /\ RoadsAreThere(c, inside)
    BY <2>1, <2>2, WindowRoutes, WindowNearest, WindowRoads
  <2> QED
    BY <2>3 DEF CompositeRoutesLikeWhole, c, inside
<1> QED
  BY <1>1, ShardsInvariant, WindowIsFinite, PTL

=============================================================================
