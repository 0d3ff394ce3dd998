------------------------------- MODULE Shards ------------------------------
(***************************************************************************)
(* Sharding: generate-shards cuts a network into one file for each cell,   *)
(* with a strip of its surroundings; a ShardLoader (the matcher) or a      *)
(* ShardWindow (a moving view) reads the files back, and a                 *)
(* MultiShardNetwork answers for the shards of the window together.        *)
(***************************************************************************)
EXTENDS Cells

CONSTANTS Sources,        \* networks: [nodes, edges], the edges in the order of iteration
          Strategies,     \* [kind, level]; the files are cut with Strategy
          Strategy,
          Points,         \* positions the view is moved to
          PadX, PadY      \* the strip around a cell, in units on each axis

(* Nodes have positions; the edges come from a graph that holds one edge   *)
(* from a node to another, and may lead to a node that has no position.    *)
ASSUME SourcesAssumption ==
  \A src \in Sources :
    /\ src.nodes \in [DOMAIN src.nodes -> Int \X Int]
    /\ src.edges \in Seq(ToSet(src.edges))
    /\ \A i \in DOMAIN src.edges : src.edges[i].weight \in Nat
    /\ \A i, j \in DOMAIN src.edges :
         src.edges[i].from = src.edges[j].from /\ src.edges[i].to = src.edges[j].to => i = j

ASSUME PointsAssumption == Points \subseteq Int \X Int

VARIABLES source,    \* the network that is cut
          disk,      \* cell -> [whole, net]: the files of the shard directory
          done,      \* cells the generator is through with
          manifest,  \* {} until it is written, then {the cells it lists}
          client,    \* who reads the directory: "loader" or "window"; they share nothing
          center,    \* ShardWindow: {} or {cell}
          cache,     \* ShardWindow: cell -> shard
          scoped,    \* what the caller has still to fetch: <<key, the list it is from>>
          unscoped,  \* keys of the last recenter the caller may evict
          failed,    \* history: keys of that recenter whose fetch failed
          held       \* ShardLoader: cell -> shard

gen == <<disk, done, manifest>>
window == <<center, cache, scoped, unscoped, failed>>
vars == <<source, client, gen, window, held>>

----------------------------------------------------------------------------
(* selection.rs *)

padded_bounds(r) == [min |-> <<r.min[1] - PadX, r.min[2] - PadY>>, max |-> <<r.max[1] + PadX, r.max[2] + PadY>>]

Selection(st, owned, mode) ==
  [owned |-> owned,
   loaded |-> {owned} \cup (IF mode = "OwnedAndNeighbours" THEN neighbours(st, owned) ELSE {}),
   padding |-> IF mode = "OwnedAndPadded" THEN {padded_bounds(bounds(st, owned))} ELSE {}]

Admits(st, selection, p) ==
  \/ \E r \in selection.padding : InRect(r, p)
  \/ locate(st, p) \in selection.loaded

----------------------------------------------------------------------------
(* network.rs *)

\* Mutant of TakeEdge: an edge needs both its ends in the selection, as the comment has it.
TakeInside(src, net, e) ==
  IF {e.from, e.to} \subseteq DOMAIN net.hash
    THEN [net EXCEPT !.graph = add_edge(@, Edge(e.from, e.to, e.weight, EdgeId(e.from))),
                     !.meta = Over(@, One(e.from, e.meta))]
    ELSE net

(* The id of an edge is the node it leaves, and the metadata of that id is *)
(* the one of the first edge that leaves it.                               *)
TakeEdge(src, net, e) ==
  IF e.from \notin DOMAIN net.hash \/ e.to \notin DOMAIN net.hash \cup DOMAIN src.nodes THEN net
  ELSE [net EXCEPT !.hash = Over(@, One(e.to, src.nodes[e.to])),
                   !.graph = add_edge(@, Edge(e.from, e.to, e.weight, EdgeId(e.from))),
                   !.meta = Over(@, One(e.from, e.meta))]

ShardIndices(net) ==
  [net EXCEPT
     !.index = build([n \in DOMAIN net.hash |-> <<net.hash[n], net.hash[n]>>]),
     !.index_edge = build([pair \in {p \in DOMAIN net.graph : {p[1], p[2]} \subseteq DOMAIN net.hash} |->
                            <<net.hash[pair[1]], net.hash[pair[2]]>>])]

from_source(src, st, selection) ==
  LET admitted == {n \in DOMAIN src.nodes : Admits(st, selection, src.nodes[n])}
      start == [graph |-> <<>>, hash |-> [n \in admitted |-> src.nodes[n]], meta |-> <<>>,
                index |-> <<>>, index_edge |-> <<>>,
                owned |-> selection.owned, loaded |-> selection.loaded]
      filled[i \in 0..Len(src.edges)] ==
        IF i = 0 THEN start ELSE TakeEdge(src, filled[i - 1], src.edges[i])
  IN  ShardIndices(filled[Len(src.edges)])

shard_edges_in_box(net, box) ==
  UNION {FatEdge(net, GraphEdge(net, pair)) : pair \in search(net.index_edge, box)}

shard_nearest_node(net, p) == nearest_node(net, p)

(* from_cached_bytes: a file that ends early is an error; the indices are rebuilt.  *)
(* Magic and fingerprint are left out: one build writes and reads these files.      *)
ToCache(net) == [net EXCEPT !.index = <<>>, !.index_edge = <<>>]

\* Mutant of from_cached_bytes: what could be decoded of a cut file is kept.
from_cut_bytes(file) == {ShardIndices(file.net)}

from_cached_bytes(file) == IF file.whole THEN {ShardIndices(file.net)} ELSE {}

----------------------------------------------------------------------------
(* composite/: several shards as one network *)

\* Mutant of composite: a road across a seam is left to the neighbour.
ComposeOwned(shards) ==
  LET Own(s) == [pair \in {q \in DOMAIN s.graph : \A n \in {q[1], q[2]} : contains(Strategy, s.owned, s.hash[n])}
                   |-> s.graph[pair]]
  IN  [shards |-> shards, graph |-> FoldLeft(LAMBDA g, s : Over(Own(s), g), <<>>, shards)]

composite(shards) ==
  LET graph[i \in 0..Len(shards)] == IF i = 0 THEN <<>> ELSE Over(shards[i].graph, graph[i - 1])
  IN  [shards |-> shards, graph |-> graph[Len(shards)]]

FirstWith(shards, field, id) ==
  LET having == {i \in DOMAIN shards : id \in DOMAIN shards[i][field]}
  IN  IF having = {} THEN {}
      ELSE {shards[CHOOSE i \in having : \A j \in having : i <= j][field][id]}

comp_metadata(c, id) == FirstWith(c.shards, "meta", id)
comp_point(c, id) == FirstWith(c.shards, "hash", id)

CompFat(c, pair) ==
  {Edge(Node(pair[1], s), Node(pair[2], t), w.weight, w.id) :
     s \in comp_point(c, pair[1]), t \in comp_point(c, pair[2]), w \in Lookup(c.graph, pair)}

comp_edges_in_box(c, box) ==
  UNION {CompFat(c, pair) : pair \in UNION {search(c.shards[i].index_edge, box) : i \in DOMAIN c.shards}}
comp_nodes_in_box(c, box) ==
  UNION {nodes_in_box(c.shards[i], box) : i \in DOMAIN c.shards}

comp_nearest_node(c, p) ==
  LET found == UNION {nearest_node(c.shards[i], p) : i \in DOMAIN c.shards}
      Dist(n) == Gap(envelope_of(n.position, n.position), p)
  IN  {n \in found : \A o \in found : Dist(n) <= Dist(o)}

comp_edges_outof(c, id) == {pair \in DOMAIN c.graph : pair[1] = id}
comp_edges_into(c, id) == {pair \in DOMAIN c.graph : pair[2] = id}

comp_route_nodes(c, start, finish) ==
  {[score |-> w.score, route |-> SelectSeq(w.path, LAMBDA n : comp_point(c, n) # {})] :
     w \in astar(c.graph, start, finish)}

----------------------------------------------------------------------------
Init ==
  /\ source \in Sources
  /\ disk = <<>> /\ done = {} /\ manifest = {}
  /\ client \in {"loader", "window"} /\ center = {} /\ cache = <<>>
  /\ scoped = {} /\ unscoped = {} /\ failed = {}
  /\ held = <<>>

(* generate-shards *)
SourceCells == {locate(Strategy, source.nodes[n]) : n \in DOMAIN source.nodes}

sharded_network(cell) == from_source(source, Strategy, Selection(Strategy, cell, "OwnedAndPadded"))

Generate(saved) ==
  /\ done # SourceCells
  /\ LET cell == CHOOSE c \in SourceCells \ done : TRUE     \* the order of a hash set
     IN  /\ disk' = CASE saved = "ok" -> Over(One(cell, [whole |-> TRUE, net |-> ToCache(sharded_network(cell))]), disk)
                      [] saved = "cut" -> Over(One(cell, [whole |-> FALSE, net |-> EmptyNetwork]), disk)
                      [] saved = "none" -> disk
         /\ done' = done \cup {cell}
  /\ UNCHANGED <<source, client, manifest, window, held>>

WriteManifest ==
  /\ manifest = {} /\ done = SourceCells
  /\ manifest' = {{c \in DOMAIN disk : disk[c].whole}}
  /\ UNCHANGED <<source, client, disk, done, window, held>>

(* What a fetch of a key gives: the decoded shard, or {} for an error of   *)
(* the fetcher or of the decoder.                                          *)
FetchDecoded(key) == IF key \in DOMAIN disk THEN from_cached_bytes(disk[key]) ELSE {}

(* ShardLoader::load *)
Load(key) ==
  /\ client = "loader" /\ manifest # {} /\ key \notin DOMAIN held
  /\ \E net \in FetchDecoded(key) : held' = Over(One(key, net), held)
  /\ UNCHANGED <<source, client, gen, window>>

(* ShardWindow::recenter.  The centre is set before anything is fetched;   *)
(* the keys in scope are all of the neighbourhood, cached or not. A move   *)
(* may come before the keys of the last one are fetched.                   *)
Scope(cell) == neighbours(Strategy, cell) \cup {cell}

\* Mutant of ScopedKeys: only the cells that were not in the window before.
ScopedNew(cell) == (Scope(cell) \ UNION {Scope(c) : c \in center}) \X {"neighbour"}

(* The list is the neighbours, the loaded keys and the centre, less those  *)
(* out of scope, so that a loaded key is listed twice.                     *)
ScopedKeys(cell) ==
  (neighbours(Strategy, cell) \X {"neighbour"})
    \cup ((DOMAIN cache \cap Scope(cell)) \X {"loaded"}) \cup {<<cell, "centre">>}

Recenter(p) ==
  /\ client = "window" /\ manifest # {}
  /\ LET cell == locate(Strategy, p)
     IN  IF center = {cell} THEN UNCHANGED <<center, scoped, unscoped, failed>>
         ELSE /\ center' = {cell}
              /\ scoped' = ScopedKeys(cell)
              /\ unscoped' = DOMAIN cache \ Scope(cell)
              /\ failed' = {}
  /\ UNCHANGED <<source, client, gen, cache, held>>

(* ShardWindow::fetch, for the keys of the delta one after the other, in   *)
(* whatever order the caller has them.                                     *)
Turn == CHOOSE entry \in scoped : TRUE

Fetch ==
  /\ scoped # {}
  /\ \E net \in FetchDecoded(Turn[1]) : cache' = Over(One(Turn[1], net), cache)
  /\ scoped' = scoped \ {Turn}
  /\ UNCHANGED <<source, client, gen, center, unscoped, failed, held>>

(* The file is missing or cut, or the fetcher fails. *)
FetchFails ==
  /\ scoped # {}
  /\ failed' = failed \cup {Turn[1]}
  /\ scoped' = scoped \ {Turn}
  /\ UNCHANGED <<source, client, gen, center, cache, unscoped, held>>

Evict ==
  /\ \E key \in unscoped :
       /\ cache' = [c \in DOMAIN cache \ {key} |-> cache[c]]
       /\ unscoped' = unscoped \ {key}
  /\ UNCHANGED <<source, client, gen, center, scoped, failed, held>>

Next ==
  \/ \E saved \in {"ok", "cut", "none"} : Generate(saved)
  \/ WriteManifest
  \/ \E key \in SourceCells : Load(key)
  \/ \E p \in Points : Recenter(p)
  \/ Fetch \/ FetchFails \/ Evict

Spec == Init /\ [][Next]_vars

----------------------------------------------------------------------------
(* The cell a position is located in is the one cell whose bounds hold it, *)
(* the east and north sides left to the next cell except at the edge of    *)
(* the world; its neighbours are the cells that touch it, with no wrap at  *)
(* the dateline; both strategies.                                          *)
CellsTile ==
  done = {} => \A st \in Strategies, position \in Points :
    LET p == Clamp(position)
        cell == locate(st, position)
        r == bounds(st, cell)
        Touches(q) == \A axis \in 1..2 : r.min[axis] <= q.max[axis] /\ q.min[axis] <= r.max[axis]
        sides == {d \in ((-1..1) \X (-1..1)) \ {<<0, 0>>} :
                    \A axis \in 1..2 : /\ d[axis] = -1 => r.min[axis] > World.min[axis]
                                       /\ d[axis] = 1 => r.max[axis] < World.max[axis]}
    IN  /\ \A axis \in 1..2 : /\ r.min[axis] <= p[axis]
                              /\ p[axis] < r.max[axis] \/ r.max[axis] = World.max[axis]
        /\ \A n \in neighbours(st, cell) : Touches(bounds(st, n)) /\ cell \in neighbours(st, n)
        /\ Cardinality(neighbours(st, cell)) = Cardinality(sides)

SourceEdges == ToSet(source.edges)
PlacedEdges == {e \in SourceEdges : {e.from, e.to} \subseteq DOMAIN source.nodes}

RoadsKept(selection, net) ==
  /\ \A e \in PlacedEdges : Admits(Strategy, selection, source.nodes[e.from]) =>
       /\ {t.weight : t \in edge(net, e.from, e.to)} = {e.weight}
       /\ shard_edges_in_box(net, square_box(source.nodes[e.to], 0)) # {}
  /\ \A pair \in DOMAIN net.graph :
       /\ fatten(net, GraphEdge(net, pair)) # {}
       /\ \E e \in PlacedEdges :
            /\ <<e.from, e.to>> = pair /\ e.weight = net.graph[pair].weight
            /\ \E d \in PlacedEdges : d.from = e.from /\ metadata(net, e.from) = {d.meta}

(* Whatever the order of the edges and the mode of the selection, a shard  *)
(* has every road that leaves a node of its cell or of its strip, with the *)
(* node it leads to, across the border too, if that has a position; it has *)
(* no road the network does not have, and every road it has can be drawn   *)
(* and has the metadata of a road that leaves the same node.               *)
RoadsSurviveSharding ==
  done = {} =>
    \A cell \in SourceCells, mode \in {"Owned", "OwnedAndNeighbours", "OwnedAndPadded"} :
      LET selection == Selection(Strategy, cell, mode)
      IN  RoadsKept(selection, from_source(source, Strategy, selection))

SourceGraph == [pair \in {<<e.from, e.to>> : e \in SourceEdges} |->
                  [weight |-> (CHOOSE e \in SourceEdges : <<e.from, e.to>> = pair).weight]]

(* For the shards c of a window and the nodes in the cells it holds:       *)
(* a best route that stays inside is found at its price, and none is       *)
(* cheaper than the network allows;                                        *)
RoutesAgree(c, inside) ==
  \A s \in inside, t \in DOMAIN source.nodes :
    LET whole == astar(SourceGraph, s, t)
        price == {w.score : w \in whole}
        found == {r.score : r \in comp_route_nodes(c, s, t)}
    IN  /\ (\E w \in whole : \A i \in 1..(Len(w.path) - 1) : w.path[i] \in inside) => found = price
        /\ \A x \in found, y \in price : y <= x

(* the nearest node is at most as far as the nearest inside;               *)
NearestAgrees(c, inside) ==
  \A p \in Points, n \in inside : \A m \in comp_nearest_node(c, p) :
    Gap(envelope_of(m.position, m.position), p) <= Gap(envelope_of(source.nodes[n], source.nodes[n]), p)

(* and every road that leaves a node inside is there to be matched, with   *)
(* the metadata of one that does.                                          *)
RoadsAreThere(c, inside) ==
  /\ \A n \in inside :
       /\ n \in {m.id : m \in comp_nodes_in_box(c, square_box(source.nodes[n], 0))}
       /\ comp_edges_outof(c, n) = {<<e.from, e.to>> : e \in {d \in PlacedEdges : d.from = n}}
       /\ comp_edges_into(c, n) \subseteq {<<e.from, e.to>> : e \in {d \in PlacedEdges : d.to = n}}
       /\ comp_metadata(c, n) = {} \/ \E e \in PlacedEdges : e.from = n /\ comp_metadata(c, n) = {e.meta}
  /\ \A e \in PlacedEdges : e.from \in inside =>
       \E fat \in comp_edges_in_box(c, square_box(source.nodes[e.to], 0)) :
         <<fat.source.id, fat.target.id>> = <<e.from, e.to>>

(* The shards of a window answer together as the whole network does for    *)
(* the cells the window holds, whatever the seams between the shards.      *)
CompositeRoutesLikeWhole ==
  scoped = {} /\ cache # <<>> =>
    LET c == composite(SetToSeq({cache[k] : k \in DOMAIN cache}))
        inside == {n \in DOMAIN source.nodes : locate(Strategy, source.nodes[n]) \in DOMAIN cache}
    IN  RoutesAgree(c, inside) /\ NearestAgrees(c, inside) /\ RoadsAreThere(c, inside)

(* After the keys of a move have been fetched the window holds every cell  *)
(* of the new neighbourhood that has a good file and whose fetch did not   *)
(* fail since, whatever was cached, evicted or failed before the move.     *)
WindowIsFilled ==
  scoped = {} =>
    \A cell \in center : \A key \in Scope(cell) :
      FetchDecoded(key) # {} /\ key \notin failed => key \in DOMAIN cache

(* What the loader or the window hands out under a key is the shard        *)
(* generate-shards built for that cell, whole and with its indices, and    *)
(* never what a failed save left behind.                                   *)
ServedShardIsItsOwn ==
  \A shards \in {cache, held} : \A key \in DOMAIN shards :
    shards[key] = sharded_network(key) /\ \A list \in manifest : key \in list

============================================================================
