------------------------------- MODULE Codec -------------------------------
(***************************************************************************)
(* OsmNetwork::from_pbf_and_save over the life of a cache file: programs of*)
(* several builds start one after the other, find the file whole, cut or   *)
(* written by another build, ingest the PBF in parallel, and may die at any*)
(* step.  Beside it, the builder of the mock network, whose networks are   *)
(* compared with what the same roads give when they are ingested.          *)
(***************************************************************************)
EXTENDS Pbf, MockNetwork

CONSTANTS Files,          \* the contents the PBF may have
          MaxBuild,       \* bound: revisions of the listed and of the other sources
          MaxNodes,       \* bound: nodes given to the mock builder
          MaxRoads,       \* bound: roads given to it
          Spots           \* positions by node id, for the builder's calls

(* What decodes from the file has the types of its messages. *)
IsGroup(g) ==
  /\ g.ways \in Seq(ToSet(g.ways)) /\ \A i \in DOMAIN g.ways : g.ways[i].refs \in Seq(Int)
  /\ g.nodes \in Seq(ToSet(g.nodes)) /\ \A i \in DOMAIN g.nodes : {g.nodes[i].lon, g.nodes[i].lat} \subseteq Int
  /\ g.relations \in Seq(ToSet(g.relations))
  /\ \A d, e \in g.dense : d = e /\ {d.id, d.lon, d.lat} \subseteq Seq(Int)

IsBlock(b) ==
  /\ b.granularity \subseteq Int
  /\ b.groups \in Seq(ToSet(b.groups)) /\ \A i \in DOMAIN b.groups : IsGroup(b.groups[i])

ASSUME FilesAssumption ==
  /\ Degree \in Int
  /\ \A f \in Files : /\ f \in Seq(ToSet(f))
                      /\ \A i \in DOMAIN f : f[i].data = "zlib" => IsBlock(f[i].block)

VARIABLES pbf,       \* the PBF: {} when it is missing, else {contents}
          build_id,  \* [listed, other]: revisions of the sources of the program
          cache,     \* the saved file: {} or {[magic, listed, other, whole, net]}
          pc,        \* "idle" | "ingest" | "create" | "write" | "ok" | "err"
          parts,     \* the results rayon holds, in the order of the file
          net,       \* the network the call has built or read
          builder    \* the mock builder

loader == <<pbf, build_id, cache, pc, parts, net>>
vars == <<loader, builder>>

(* One slot for each element, in the order of the file; the elements of a  *)
(* block are folded together, the results of blocks are joined.            *)
Slots(file) ==
  LET blocks == Blocks(file)
      Of(b) == LET es == BlockElements(blocks[b])
               IN  [i \in DOMAIN es |-> [todo |-> TRUE, first |-> b, last |-> b, element |-> es[i]]]
  IN  FlattenSeq([b \in DOMAIN blocks |-> Of(b)])

Saved(n) == [n EXCEPT !.index = <<>>, !.index_edge = <<>>]

(* FORMAT_HASH covers the listed sources only. *)
Fingerprint(b) == b.listed

Written(n) == [magic |-> TRUE, listed |-> Fingerprint(build_id), other |-> build_id.other,
               whole |-> TRUE, net |-> Saved(n)]

(* A file whose payload ends early, or has not begun. *)
Partial == [Written(EmptyNetwork) EXCEPT !.whole = FALSE]

\* Mutant of Readable: a file is taken for whole once its header is there.
ReadableByHeader(file) == file.magic /\ file.listed = Fingerprint(build_id)

Readable(file) ==
  /\ file.magic
  /\ file.listed = Fingerprint(build_id)
  /\ file.whole

Garbage == [EmptyNetwork EXCEPT !.meta = One(0, "garbage")]

(* What a program may read from a file, {} where it is an error.  A payload*)
(* of another layout decodes to an error or to anything.                   *)
from_bytes(file) ==
  IF ~Readable(file) THEN {{}}
  ELSE IF file.other = build_id.other THEN {{rebuild_indices(file.net)}}
  ELSE {{}, {Garbage}}

Init ==
  /\ pbf \in {{}} \cup {{f} : f \in Files} 
  /\ build_id = [listed |-> 0, other |-> 0]
  /\ cache = {} /\ pc = "idle" /\ parts = <<>> /\ net = EmptyNetwork
  /\ builder = NewBuilder

----------------------------------------------------------------------------
CacheHit ==
  /\ pc = "idle"
  /\ \E file \in cache : \E read \in from_bytes(file) : \E n \in read : net' = n
  /\ pc' = "ok"
  /\ UNCHANGED <<pbf, build_id, cache, parts, builder>>

CacheMiss ==
  /\ pc = "idle"
  /\ \A file \in cache : {} \in from_bytes(file)
  /\ IF pbf = {} THEN pc' = "err" /\ parts' = <<>>
     ELSE pc' = "ingest" /\ \E file \in pbf : parts' = Slots(file)
  /\ UNCHANGED <<pbf, build_id, cache, net, builder>>

Tree(i, tree) == [todo |-> FALSE, first |-> parts[i].first, last |-> parts[i].last, tree |-> tree]

Fold(i) ==
  /\ pc = "ingest" /\ i \in DOMAIN parts /\ parts[i].todo
  /\ parts' = [parts EXCEPT ![i] = Tree(i, fold_op(ident, parts[i].element))]
  /\ UNCHANGED <<pbf, build_id, cache, pc, net, builder>>

FoldOn(i) ==
  /\ pc = "ingest" /\ {i, i + 1} \subseteq DOMAIN parts
  /\ ~parts[i].todo /\ parts[i + 1].todo
  /\ parts[i].first = parts[i + 1].first
  /\ parts' = RemoveAt([parts EXCEPT ![i] = Tree(i, fold_op(parts[i].tree, parts[i + 1].element))], i + 1)
  /\ UNCHANGED <<pbf, build_id, cache, pc, net, builder>>

(* A block is reduced to one result before it is joined with another.      *)
Reduced(i) == \A j \in DOMAIN parts \ {i} : parts[j].last < parts[i].first \/ parts[j].first > parts[i].last

Combine(i) ==
  /\ pc = "ingest" /\ {i, i + 1} \subseteq DOMAIN parts
  /\ ~parts[i].todo /\ ~parts[i + 1].todo
  /\ parts[i].last = parts[i + 1].first \/ (Reduced(i) /\ Reduced(i + 1))
  /\ parts' = RemoveAt([parts EXCEPT ![i] = [Tree(i, combine(parts[i].tree, parts[i + 1].tree))
                                               EXCEPT !.last = parts[i + 1].last]], i + 1)
  /\ UNCHANGED <<pbf, build_id, cache, pc, net, builder>>

Finish ==
  /\ pc = "ingest"
  /\ \/ parts = <<>> /\ net' = Assemble(ident)
     \/ Len(parts) = 1 /\ ~parts[1].todo /\ net' = Assemble(parts[1].tree)
  /\ pc' = "create" /\ parts' = <<>>
  /\ UNCHANGED <<pbf, build_id, cache, builder>>

CreateFile ==
  /\ pc = "create"
  /\ cache' = {[Partial EXCEPT !.magic = FALSE]}
  /\ pc' = "write"
  /\ UNCHANGED <<pbf, build_id, parts, net, builder>>

WriteSome ==
  /\ pc = "write"
  /\ cache' = {Partial}
  /\ UNCHANGED <<pbf, build_id, pc, parts, net, builder>>

WriteAll ==
  /\ pc = "write"
  /\ cache' = {Written(net)}
  /\ pc' = "ok"
  /\ UNCHANGED <<pbf, build_id, parts, net, builder>>

(* A disk that refuses the file fails the call, the built network with it. *)
SaveFails ==
  /\ pc \in {"create", "write"}
  /\ pc' = "err" /\ net' = EmptyNetwork
  /\ UNCHANGED <<pbf, build_id, cache, parts, builder>>

(* The program ends, by itself or not; only the two files stay. *)
Exit ==
  /\ pc # "idle"
  /\ pc' = "idle" /\ parts' = <<>> /\ net' = EmptyNetwork
  /\ UNCHANGED <<pbf, build_id, cache, builder>>

ReplacePbf ==
  /\ pc = "idle"
  /\ \/ pbf' = {}
     \/ \E f \in Files : pbf' = {f}
  /\ UNCHANGED <<build_id, cache, pc, parts, net, builder>>

Upgrade ==
  /\ pc = "idle"
  /\ \E part \in {"listed", "other"} :
       build_id[part] < MaxBuild /\ build_id' = [build_id EXCEPT ![part] = @ + 1]
  /\ UNCHANGED <<pbf, cache, pc, parts, net, builder>>

(* The mock builder is used by tests, where no file is.  It keeps nodes and*)
(* edges in two lists, so nodes first loses no network.                    *)
Testing == pc = "idle" /\ pbf = {} /\ cache = {} /\ build_id = [listed |-> 0, other |-> 0]

AddNode ==
  /\ Testing /\ builder.edges = <<>> /\ Len(builder.nodes) < MaxNodes
  /\ \E id \in DOMAIN Spots : \E p \in Spots[id] : builder' = mock_node(builder, id, p)
  /\ UNCHANGED loader

AddEdge ==
  /\ Testing /\ builder.next_edge_id <= MaxRoads
  /\ \E s, t \in DOMAIN Spots, w \in {1, 10} :
       s # t /\ builder' \in {weighted_edge(builder, s, t, w), bidirectional_weighted_edge(builder, s, t, w)}
  /\ UNCHANGED loader

Load ==
  /\ builder = NewBuilder
  /\ \/ CacheHit \/ CacheMiss \/ Finish \/ CreateFile \/ WriteSome \/ WriteAll
     \/ SaveFails \/ Exit \/ ReplacePbf \/ Upgrade
     \/ \E i \in 1..Len(parts) : Fold(i) \/ FoldOn(i) \/ Combine(i)

Next == Load \/ AddNode \/ AddEdge

Spec == Init /\ [][Next]_vars

----------------------------------------------------------------------------
(* The network of a file, said without the fold: what comes last in the    *)
(* file wins.                                                              *)

Elements(file) == FlattenSeq([b \in DOMAIN Blocks(file) |-> BlockElements(Blocks(file)[b])])

Roads(es) == {j \in DOMAIN es : es[j].kind = "way" /\ road_class(es[j].tags) # {}}

(* Places of the file that put an edge between two nodes: the way, the     *)
(* window in it, and whether the edge runs along it (0) or back (1).       *)
Claims(es) ==
  UNION {{j} \X (1..(Len(es[j].refs) - 1)) \X (IF unidirectional(es[j].tags) THEN {0} ELSE {0, 1}) :
           j \in Roads(es)}

Ends(es, c) ==
  LET r == es[c[1]].refs
  IN  IF c[3] = 0 THEN <<r[c[2]], r[c[2] + 1]>> ELSE <<r[c[2] + 1], r[c[2]]>>

Later(c, d) == c[1] > d[1] \/ (c[1] = d[1] /\ 2 * c[2] + c[3] >= 2 * d[2] + d[3])

Expected(file) ==
  LET es == Elements(file)
      claims == Claims(es)
      pairs == {Ends(es, c) : c \in claims}
      Winner(p) == CHOOSE c \in claims :
                     Ends(es, c) = p /\ \A d \in claims : Ends(es, d) = p => Later(c, d)
      placed == {j \in DOMAIN es : es[j].kind = "node" /\ \E p \in pairs : es[j].node.id \in {p[1], p[2]}}
  IN  [graph |-> [p \in pairs |->
                    LET way == es[Winner(p)[1]]
                    IN  [weight |-> CHOOSE w \in {weighting(k) : k \in road_class(way.tags)} : TRUE,
                         id |-> [id |-> way.id,
                                 direction |-> IF Winner(p)[3] = 0 THEN "Outgoing" ELSE "Incoming"]]],
       hash |-> [n \in {es[j].node.id : j \in placed} |->
                   es[Max({j \in placed : es[j].node.id = n})].node.position],
       meta |-> [w \in {es[j].id : j \in Roads(es)} |->
                   es[Max({j \in Roads(es) : es[j].id = w})].tags]]

Same(n, x) == n.graph = x.graph /\ n.hash = x.hash /\ n.meta = x.meta

(* However rayon splits, folds and joins the elements of the file, the     *)
(* network from_pbf assembles is the one read from front to back: where    *)
(* two ways share a pair of nodes the later one is kept, in all its parts  *)
(* (graph, metadata and positions agree on what is last).                  *)
IngestIsFileOrder ==
  pc = "create" => \E f \in pbf : Same(net, Expected(f))

(* A call that succeeds returns the network of some contents the PBF can   *)
(* have, whole, whatever crashes, failed writes and upgrades came before:   *)
(* the header and the decoder turn away every file from_pbf_and_save left  *)
(* half written or another format wrote.  The exception is a layout change *)
(* in a source that build.rs does not list, told apart by cache.other.     *)
ServedIsWhole ==
  pc = "ok" => \/ \E f \in Files : Same(net, Expected(f))
               \/ \E file \in cache : file.other # build_id.other

(* Every row of the rebuilt indices resolves: an edge in the index is an   *)
(* edge of the graph between two nodes with a position, it carries the     *)
(* direction the graph has, thinned and fattened it is found again, and it *)
(* is found from the square around either end.  An edge with an end the    *)
(* file does not place is in the graph, and in no index.                   *)
IndexResolves ==
  pc \in {"create", "ok"} /\ net # Garbage =>
    /\ \A pair \in DOMAIN net.graph :
         LET e == GraphEdge(net, pair)
             placed == {pair[1], pair[2]} \subseteq DOMAIN net.hash
         IN  /\ placed <=> fatten(net, e) # {}
             /\ \A fat \in FatEdge(net, e) :
                  fat \in edges_at_distance(net, fat.source.position, 0)
                            \cap edges_at_distance(net, fat.target.position, 0)
    /\ \A fat \in DOMAIN net.index_edge :
         LET e == thin(fat)
         IN  /\ edge(net, e.source, e.target) = {[e EXCEPT !.id = fat.id]}
             /\ fatten(net, e) = {[fat EXCEPT !.id = EdgeId(@.id)]}
             /\ metadata(net, fat.id.id) # {}

(* The file that says what the builder was told: a way for each call, of   *)
(* the class with the call's weight, and every node of the calls.          *)
AsFile(b) ==
  LET ids == {b.edges[i].id : i \in DOMAIN b.edges}
      Nodes == [i \in DOMAIN b.nodes |-> [kind |-> "node", node |-> b.nodes[i]]]
      Way(id) ==
        LET es == SelectSeq(b.edges, LAMBDA e : e.id = id)
        IN  [kind |-> "way", id |-> id, refs |-> <<es[1].source, es[1].target>>,
             tags |-> [k \in {"highway", "oneway"} |->
                         IF k = "highway" THEN (IF es[1].weight = 1 THEN "motorway" ELSE "residential")
                         ELSE (IF Len(es) = 1 THEN "yes" ELSE "no")]]
  IN  Nodes \o [i \in 1..Cardinality(ids) |-> Way(i)]

Undirected(es) == {[e EXCEPT !.id = e.id.id] : e \in es}

(* A test on the mock says something of the real network: the network the  *)
(* builder makes and the one ingested from the same nodes and roads answer *)
(* every query alike, up to the direction of the ids (the mock has none)   *)
(* and the nodes on no road (which ingestion drops).                       *)
MockAgreesWithOsm ==
  LET mock == mock_build(builder)
      osm == Assemble(FoldLeft(fold_op, ident, AsFile(builder)))
      ids == DOMAIN Spots
      lone == {id \in DOMAIN mock.hash : ~contains_node(mock.graph, id)}
      spots == UNION {Spots[id] : id \in ids}
  IN  /\ \A s, t \in ids : Undirected(mock_edge(mock, s, t)) = Undirected(edge(osm, s, t))
      /\ \A s, t \in ids : (s # t \/ s \notin lone) =>
           mock_route_nodes(mock, s, t) = route_nodes(osm, s, t)
      /\ \A s \in ids : Undirected(mock_edges(mock, s))
                          = Undirected(edges_into(osm, s) \cup edges_outof(osm, s))
      /\ \A p \in spots, r \in 0..1 :
           LET box == square_box(p, r)
           IN  /\ Undirected(mock_edges_in_box(mock, box)) = Undirected(edges_in_box(osm, box))
               /\ {n \in mock_nodes_in_box(mock, box) : n.id \notin lone} = nodes_in_box(osm, box)
      /\ lone = {} => \A p, q \in spots : /\ mock_nearest_node(mock, p) = nearest_node(osm, p)
                                          /\ route_points(mock, p, q) = route_points(osm, p, q)
      /\ DOMAIN mock.meta = DOMAIN osm.meta

============================================================================
