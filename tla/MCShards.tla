------------------------------ MODULE MCShards -----------------------------
(* Five nodes in three cells of a geohash of one character (16 by 32 units)*)
(* around the crossing of the axes and at the edge of the world, and the   *)
(* same roads in two orders; one of them passes a node without a position. *)
EXTENDS Shards

Road(from, to, weight, meta) == [from |-> from, to |-> to, weight |-> weight, meta |-> meta]

Nodes == <<<<3, 3>>, <<15, 16>>, <<16, 31>>, <<20, 31>>, <<17, 32>>>>
Roads == <<Road(1, 2, 1, "w1"), Road(2, 3, 2, "w1"), Road(2, 1, 1, "w1"), Road(3, 4, 1, "w2"),
           Road(4, 5, 1, "w2"), Road(3, 5, 5, "w3"), Road(5, 2, 1, "w4"),
           Road(4, 9, 1, "w5"), Road(9, 2, 1, "w5")>>

MCSources == {[nodes |-> Nodes, edges |-> Roads], [nodes |-> Nodes, edges |-> Reverse(Roads)]}
MCStrategies == {[kind |-> "geohash", level |-> 1], [kind |-> "geohash", level |-> 2],
                 [kind |-> "quadtree", level |-> 2], [kind |-> "quadtree", level |-> 3]}
MCStrategy == [kind |-> "geohash", level |-> 1]
MCPoints == {<<3, 3>>, <<16, 32>>, <<-1, 0>>, <<64, 63>>, <<-70, -64>>, <<15, 31>>, <<32, -64>>}
============================================================================
