---------------------------- MODULE RoadNetwork ----------------------------
(***************************************************************************)
(* A road network as its implementations keep it: a graph that maps a pair *)
(* of entries to the weight and the direction-aware id of the one edge     *)
(* between them, the positions of the nodes, the metadata by edge id, and  *)
(* two spatial indices derived from them.  The operators are the primitives*)
(* of routers_network and the traits as OsmNetwork implements them.        *)
(* An Option is a set of at most one element, and a result the code leaves *)
(* open (an order, a tie) is the set of the answers it may give.           *)
(***************************************************************************)
EXTENDS Integers, Sequences, FiniteSets, TLC

One(k, v) == [x \in {k} |-> v]
Over(f, g) == [k \in DOMAIN f \cup DOMAIN g |-> IF k \in DOMAIN f THEN f[k] ELSE g[k]]

Lookup(f, k) == IF k \in DOMAIN f THEN {f[k]} ELSE {}

----------------------------------------------------------------------------
(* primitive/node.rs and primitive/edge.rs *)

Node(id, position) == [id |-> id, position |-> position]

EdgeId(id) == [id |-> id, direction |-> "Outgoing"]
with_direction(e, direction) == [e EXCEPT !.direction = direction]
forward(e) == with_direction(e, "Outgoing")
backward(e) == with_direction(e, "Incoming")

Edge(source, target, weight, id) ==
  [source |-> source, target |-> target, weight |-> weight, id |-> id]

thin(e) == Edge(e.source.id, e.target.id, e.weight, EdgeId(e.id.id))

----------------------------------------------------------------------------
(* primitive/index.rs: rows and the envelope each was inserted with *)

Least(a, b) == IF a < b THEN a ELSE b
Greatest(a, b) == IF a < b THEN b ELSE a

envelope_of(a, b) ==
  [min |-> <<Least(a[1], b[1]), Least(a[2], b[2])>>,
   max |-> <<Greatest(a[1], b[1]), Greatest(a[2], b[2])>>]

Intersects(e, box) ==
  \A axis \in 1..2 : e.min[axis] <= box.max[axis] /\ box.min[axis] <= e.max[axis]

(* ends gives the two points each row spans. *)
build(ends) == [r \in DOMAIN ends |-> envelope_of(ends[r][1], ends[r][2])]
search(index, box) == {r \in DOMAIN index : Intersects(index[r], box)}

Gap(e, p) ==
  LET Along(axis) == Greatest(0, Greatest(e.min[axis] - p[axis], p[axis] - e.max[axis]))
  IN  Along(1) * Along(1) + Along(2) * Along(2)
nearest(index, p) ==
  {r \in DOMAIN index : \A q \in DOMAIN index : Gap(index[r], p) <= Gap(index[q], p)}

(* The two corners lie on opposite diagonals of the point, r from it on each axis. *)
square_box(p, r) == envelope_of(<<p[1] - r, p[2] + r>>, <<p[1] + r, p[2] - r>>)

----------------------------------------------------------------------------
(* petgraph's DiGraphMap and its A* search with a zero estimate *)

add_edge(graph, e) ==
  Over(One(<<e.source, e.target>>, [weight |-> e.weight, id |-> e.id]), graph)

contains_node(graph, n) == \E pair \in DOMAIN graph : n \in {pair[1], pair[2]}

GraphNodes(graph) == UNION {{pair[1], pair[2]} : pair \in DOMAIN graph}

SimplePaths(graph, start) ==
  LET walk[k \in 0..Cardinality(GraphNodes(graph))] ==
        IF k = 0 THEN {[score |-> 0, path |-> <<start>>]}
        ELSE walk[k - 1] \cup
             UNION {{[score |-> w.score + graph[pair].weight, path |-> Append(w.path, pair[2])] :
                       pair \in {p \in DOMAIN graph : /\ p[1] = w.path[Len(w.path)]
                                                    /\ \A i \in DOMAIN w.path : w.path[i] # p[2]}} :
                      w \in walk[k - 1]}
  IN  walk[Cardinality(GraphNodes(graph))]

astar(graph, start, finish) ==
  LET found == {w \in SimplePaths(graph, start) : w.path[Len(w.path)] = finish}
  IN  {w \in found : \A v \in found : w.score <= v.score}

----------------------------------------------------------------------------
(* osm/graph.rs: the indices, and the traits Discovery, Scan, Route, DataPlane *)

FatEdge(net, e) ==
  {Edge(Node(e.source, s), Node(e.target, t), e.weight, e.id) :
     s \in Lookup(net.hash, e.source), t \in Lookup(net.hash, e.target)}

GraphEdge(net, pair) == Edge(pair[1], pair[2], net.graph[pair].weight, net.graph[pair].id)

\* Mutant of Row: the row of an edge forgets its direction, as fatten does.
RowUndirected(net, e) == FatEdge(net, [e EXCEPT !.id = EdgeId(@.id)])

Row(net, e) == FatEdge(net, e)

rebuild_indices(net) ==
  [net EXCEPT
     !.index = build([n \in DOMAIN net.hash |-> <<net.hash[n], net.hash[n]>>]),
     !.index_edge = build([e \in UNION {Row(net, GraphEdge(net, pair)) : pair \in DOMAIN net.graph} |->
                            <<e.source.position, e.target.position>>])]

EmptyNetwork ==
  [graph |-> <<>>, hash |-> <<>>, meta |-> <<>>, index |-> <<>>, index_edge |-> <<>>]

node(net, id) == {Node(id, p) : p \in Lookup(net.hash, id)}
edge(net, source, target) ==
  {GraphEdge(net, pair) : pair \in DOMAIN net.graph \cap {<<source, target>>}}
edges_in_box(net, box) == search(net.index_edge, box)
nodes_in_box(net, box) == UNION {node(net, id) : id \in search(net.index, box)}
edges_at_distance(net, p, r) == edges_in_box(net, square_box(p, r))
nodes_at_distance(net, p, r) == nodes_in_box(net, square_box(p, r))

nearest_node(net, p) == UNION {node(net, id) : id \in nearest(net.index, p)}

metadata(net, id) == Lookup(net.meta, id)
point(net, id) == Lookup(net.hash, id)
edges_into(net, id) == {GraphEdge(net, pair) : pair \in {q \in DOMAIN net.graph : q[2] = id}}
edges_outof(net, id) == {GraphEdge(net, pair) : pair \in {q \in DOMAIN net.graph : q[1] = id}}
line(net, ids) == SelectSeq(ids, LAMBDA id : id \in DOMAIN net.hash)

(* fatten keeps the index of the id and drops its direction. *)
fatten(net, e) == FatEdge(net, [e EXCEPT !.id = EdgeId(@.id)])

route_nodes(net, start, finish) ==
  {[score |-> w.score, route |-> line(net, w.path)] : w \in astar(net.graph, start, finish)}

route_points(net, start, finish) ==
  UNION {route_nodes(net, s.id, f.id) :
           s \in nearest_node(net, start), f \in nearest_node(net, finish)}

============================================================================
