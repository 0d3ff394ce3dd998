---------------------------- MODULE MockNetwork ----------------------------
(***************************************************************************)
(* The network of the unit tests: a builder that collects definitions and  *)
(* build, which turns them into the same maps and indices as an OSM        *)
(* network.  Its edge index holds pairs of entries, so a query resolves    *)
(* them against the graph again; the other traits read the maps as         *)
(* RoadNetwork does.                                                       *)
(***************************************************************************)
EXTENDS RoadNetwork, Folds, SequencesExt

NewBuilder == [nodes |-> <<>>, edges |-> <<>>, next_edge_id |-> 1]

mock_node(b, id, position) == [b EXCEPT !.nodes = Append(@, Node(id, position))]

weighted_edge(b, source, target, weight) ==
  [b EXCEPT !.edges = Append(@, Edge(source, target, weight, b.next_edge_id)),
            !.next_edge_id = @ + 1]

bidirectional_weighted_edge(b, x, y, weight) ==
  [b EXCEPT !.edges = @ \o <<Edge(x, y, weight, b.next_edge_id), Edge(y, x, weight, b.next_edge_id)>>,
            !.next_edge_id = @ + 1]

Positions(defs) == FoldLeft(LAMBDA f, n : (n.id :> n.position) @@ f, <<>>, defs)
Indexed(defs, nodes) ==
  {p \in {<<defs[i].source, defs[i].target>> : i \in DOMAIN defs} : {p[1], p[2]} \subseteq DOMAIN nodes}

\* Mutant of AddAll: the first edge of a pair is kept.
AddFirst(defs) == FoldLeft(LAMBDA g, e : g @@ add_edge(<<>>, [e EXCEPT !.id = EdgeId(@)]), <<>>, defs)

AddAll(defs) == FoldLeft(LAMBDA g, e : add_edge(g, [e EXCEPT !.id = EdgeId(@)]), <<>>, defs)

(* Every edge of the mock is Outgoing, the second of a two-way road too. *)
mock_build(b) ==
  LET nodes == Positions(b.nodes)
  IN  [graph |-> AddAll(b.edges),
       hash |-> nodes,
       meta |-> [id \in {b.edges[i].id : i \in DOMAIN b.edges} |-> "MockMetadata"],
       index |-> build([id \in DOMAIN nodes |-> <<nodes[id], nodes[id]>>]),
       index_edge |-> build([p \in Indexed(b.edges, nodes) |-> <<nodes[p[1]], nodes[p[2]]>>])]

mock_edges_in_box(net, box) ==
  UNION {FatEdge(net, GraphEdge(net, pair)) : pair \in search(net.index_edge, box) \cap DOMAIN net.graph}

(* fatten of the mock keeps the direction of the id. *)
mock_fatten(net, e) == FatEdge(net, e)

mock_nodes_in_box(net, box) == nodes_in_box(net, box)
mock_edge(net, source, target) == edge(net, source, target)
mock_nearest_node(net, p) == nearest_node(net, p)
mock_route_nodes(net, start, finish) == route_nodes(net, start, finish)
mock_edges(net, id) == edges_into(net, id) \cup edges_outof(net, id)

============================================================================
