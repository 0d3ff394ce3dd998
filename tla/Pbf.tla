-------------------------------- MODULE Pbf --------------------------------
(***************************************************************************)
(* Reading an .osm.pbf file: blobs, blocks, groups and elements.  A file is*)
(* a sequence of blobs                                                     *)
(*   [header |-> BOOLEAN, type, data |-> "zlib" | "raw" | "short",         *)
(*    block |-> [granularity, strings, groups]]                            *)
(* where header says that the length and the header of the blob are there  *)
(* and decode, and data "short" stands for bytes that are missing, do not  *)
(* inflate to their size or do not decode (a size below zero, which the  *)
(* code converts without a look, does not occur).  A group holds ways, nodes,     *)
(* relations and an optional set of dense nodes, all as the file has them: *)
(* ids, references and coordinates as differences, tags as indices into    *)
(* the strings of the block.  Coordinates are nanodegrees.                 *)
(***************************************************************************)
EXTENDS RoadNetwork, Folds, SequencesExt

CONSTANT Degree          \* nanodegrees in a degree (10^9 in the code)

----------------------------------------------------------------------------
(* blob/ and block/ *)

(* BlobIterator: reading stops at the first header that is cut or unreadable. *)
Blobs(file) ==
  LET bad == {i \in DOMAIN file : ~file[i].header}
  IN  IF bad = {} THEN file ELSE SubSeq(file, 1, Min(bad) - 1)

from_blob(blob) == IF blob.data = "zlib" THEN {blob.block} ELSE {}

from_blob_item(blob) ==
  CASE blob.type = "OSMData" -> {[kind |-> "primitive", block |-> b] : b \in from_blob(blob)}
    [] blob.type = "OSMHeader" -> {[kind |-> "header"] : b \in from_blob(blob)}
    [] OTHER -> {}

(* BlockIterator::par_iter: the blocks that do not decode are left out. *)
Blocks(file) ==
  LET blobs == Blobs(file)
  IN  FlattenSeq([i \in DOMAIN blobs |-> SetToSeq(from_blob_item(blobs[i]))])

----------------------------------------------------------------------------
(* element/variants *)

Sums(deltas) ==
  LET sum[i \in 0..Len(deltas)] == IF i = 0 THEN 0 ELSE sum[i - 1] + deltas[i]
  IN  [i \in DOMAIN deltas |-> sum[i]]

references(way) == Sums(way.refs)

recover_str(k, block) == IF k < Len(block.strings) THEN block.strings[k + 1] ELSE ""

from_block(way, block) ==
  LET n == Least(Len(way.keys), Len(way.vals))
      Key(i) == recover_str(way.keys[i], block)
  IN  [key \in {Key(i) : i \in 1..n} |->
         recover_str(way.vals[Max({i \in 1..n : Key(i) = key})], block)]

one_way(tags) == Lookup(tags, "oneway") \cap {"yes", "-1"} # {}
roundabout(tags) == Lookup(tags, "junction") \cap {"roundabout", "circular"} # {}
unidirectional(tags) == one_way(tags) \/ roundabout(tags)

(* nodes(): dense nodes end with the shortest of their three columns. *)
DenseNodes(dense, granularity) ==
  LET n == Least(Len(dense.id), Least(Len(dense.lon), Len(dense.lat)))
      Column(c) == Sums(SubSeq(c, 1, n))
  IN  [i \in 1..n |-> Node(Column(dense.id)[i],
                           <<Column(dense.lon)[i] * granularity, Column(dense.lat)[i] * granularity>>)]

(* node(): the integer of the file is taken for a number of degrees. *)
PlainNode(value) == Node(value.id, <<value.lon * Degree, value.lat * Degree>>)

----------------------------------------------------------------------------
(* element/item.rs *)

from_group(group) ==
  [i \in DOMAIN group.ways |-> [kind |-> "way", raw |-> group.ways[i]]] \o
  [i \in DOMAIN group.nodes |-> [kind |-> "node", raw |-> group.nodes[i]]] \o
  [i \in DOMAIN group.relations |-> [kind |-> "relation", raw |-> group.relations[i]]] \o
  SetToSeq({[kind |-> "dense", raw |-> d] : d \in group.dense})

from_raw(element, block) ==
  LET granularity == IF block.granularity = {} THEN 100 ELSE CHOOSE g \in block.granularity : TRUE
      AsNodes(s) == [i \in DOMAIN s |-> [kind |-> "node", node |-> s[i]]]
  IN  CASE element.kind = "dense" -> AsNodes(DenseNodes(element.raw, granularity))
        [] element.kind = "node" -> AsNodes(<<PlainNode(element.raw)>>)
        [] element.kind = "way" -> <<[kind |-> "way", id |-> element.raw.id,
                                      refs |-> references(element.raw),
                                      tags |-> from_block(element.raw, block)]>>
        [] element.kind = "relation" -> <<>>

BlockElements(item) ==
  IF item.kind = "header" THEN <<>>
  ELSE LET raw == FlattenSeq([g \in DOMAIN item.block.groups |-> from_group(item.block.groups[g])])
       IN  FlattenSeq([i \in DOMAIN raw |-> from_raw(raw[i], item.block)])

----------------------------------------------------------------------------
(* parsers/primitives/road_class.rs *)

RoadClass ==
  {"motorway", "motorway_link", "trunk", "trunk_link", "primary", "primary_link",
   "secondary", "secondary_link", "tertiary", "tertiary_link", "unclassified",
   "residential", "living_street", "service", "pedestrian", "track", "raceway",
   "bus_guideway", "busway", "escape", "road"}

weighting(class) ==
  CASE class = "motorway" -> 1  [] class = "motorway_link" -> 2
    [] class = "trunk" -> 3     [] class = "trunk_link" -> 4
    [] class = "primary" -> 5   [] class = "primary_link" -> 6
    [] class = "secondary" -> 7 [] class = "secondary_link" -> 8
    [] class = "tertiary" -> 9  [] class = "tertiary_link" -> 10
    [] class \in {"residential", "busway", "bus_guideway", "unclassified"} -> 10
    [] class \in {"living_street", "service", "road"} -> 50
    [] class \in {"raceway", "escape", "track", "pedestrian"} -> 100

road_class(tags) == Lookup(tags, "highway") \cap RoadClass

----------------------------------------------------------------------------
(* OsmNetwork::from_pbf: the fold over elements and the joining of two results *)

ident == [nodes |-> <<>>, edges |-> <<>>, metadata |-> <<>>]

(* The edges of one way: each window of two references, there and, on a    *)
(* road that is not one-way, back again.                                   *)
WayEdges(way, weight) ==
  LET r == way.refs
      There(i) == Edge(r[i], r[i + 1], weight, forward(EdgeId(way.id)))
      Back(i) == Edge(r[i + 1], r[i], weight, backward(EdgeId(way.id)))
  IN  FlattenSeq([i \in 1..(Len(r) - 1) |->
        IF unidirectional(way.tags) THEN <<There(i)>> ELSE <<There(i), Back(i)>>])

fold_op(trees, element) ==
  IF element.kind = "node" THEN [trees EXCEPT !.nodes = Append(@, element.node)]
  ELSE IF road_class(element.tags) = {} THEN trees
  ELSE LET class == CHOOSE c \in road_class(element.tags) : TRUE
       IN  [trees EXCEPT !.metadata = Append(@, [id |-> element.id, tags |-> element.tags]),
                         !.edges = @ \o WayEdges(element, weighting(class))]

\* Mutant of combine: the later result is extended with the earlier one.
CombineSwapped(a, b) ==
  [nodes |-> b.nodes \o a.nodes, edges |-> b.edges \o a.edges, metadata |-> b.metadata \o a.metadata]

combine(a, b) ==
  [nodes |-> a.nodes \o b.nodes, edges |-> a.edges \o b.edges, metadata |-> a.metadata \o b.metadata]

(* The loops that follow, one entry put over what is there at a time: an   *)
(* edge replaces the one its pair had, a way's metadata and a node's       *)
(* position what their id had; nodes no edge uses are left out.            *)
PutAll(entries) ==
  LET map[i \in 0..Len(entries)] == IF i = 0 THEN <<>> ELSE Over(entries[i], map[i - 1])
  IN  map[Len(entries)]

AddEdges(edges) == PutAll([i \in DOMAIN edges |-> add_edge(<<>>, edges[i])])
Collect(ms) == PutAll([i \in DOMAIN ms |-> One(ms[i].id, ms[i].tags)])
InsertUsed(nodes, graph) ==
  PutAll([i \in DOMAIN nodes |-> IF contains_node(graph, nodes[i].id)
                                 THEN One(nodes[i].id, nodes[i].position) ELSE <<>>])

Assemble(trees) ==
  LET graph == AddEdges(trees.edges)
  IN  rebuild_indices(
        [EmptyNetwork EXCEPT
           !.graph = graph,
           !.meta = Collect(trees.metadata),
           !.hash = InsertUsed(trees.nodes, graph)])

============================================================================
