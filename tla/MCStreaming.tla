---------------------------- MODULE MCStreaming ----------------------------
(* Instances of Streaming for TLC. *)
EXTENDS Streaming, TLC

CONSTANTS west, east

\* Place 0 is off every road, 1 is in the west, 3 in the east; 0 and 3 are a
\* teleport apart. Road <<1, 2>> comes to 1, <<2, 3>> and <<3, 4>> pass 3. The east
\* has both ends of <<1, 2>>, one of them the far end of another road, and not
\* the road; the west is padded with <<2, 3>> and has no node 4. So the east adopts
\* what the west anchored and cannot anchor it itself; the west, for want of node
\* 4, adopts nothing of the east and finds one candidate for it where the east had two.
TwoShards == 0 :> west @@ 1 :> west @@ 3 :> east
Nodes == west :> 1 .. 3 @@ east :> 1 .. 4
Roads == west :> (0 :> {} @@ 1 :> {<<1, 2>>} @@ 3 :> {<<2, 3>>}) @@
         east :> (0 :> {} @@ 1 :> {} @@ 3 :> {<<2, 3>>, <<3, 4>>})
=============================================================================
