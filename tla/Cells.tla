------------------------------- MODULE Cells -------------------------------
(***************************************************************************)
(* The two ways routers_shard cuts the world into cells: geohashes, which  *)
(* halve longitude and latitude in turn and pack five halvings into a      *)
(* character, and quad keys, which halve both at once.  Coordinates are    *)
(* whole units of a world that reaches HalfX and HalfY from the origin     *)
(* (180 and 90 degrees in the code); the instances choose them so that a   *)
(* quarter of a cell is a whole number of units.                           *)
(***************************************************************************)
EXTENDS RoadNetwork, SequencesExt

CONSTANTS HalfX, HalfY

World == [min |-> <<-HalfX, -HalfY>>, max |-> <<HalfX, HalfY>>]

Clamp(p) == [axis \in 1..2 |-> Least(Greatest(p[axis], World.min[axis]), World.max[axis])]

Mid(r, axis) == (r.min[axis] + r.max[axis]) \div 2

Half(r, axis, upper) ==
  IF upper = 1 THEN [r EXCEPT !.min[axis] = Mid(r, axis)] ELSE [r EXCEPT !.max[axis] = Mid(r, axis)]

\* Mutant of Upper: a point on the line between two halves goes to the lower one.
UpperStrict(p, r, axis) == IF p[axis] > Mid(r, axis) THEN 1 ELSE 0

Upper(p, r, axis) == IF p[axis] >= Mid(r, axis) THEN 1 ELSE 0

----------------------------------------------------------------------------
(* strategy/geohash.rs *)

GeohashAxis(bit) == IF bit % 2 = 1 THEN 1 ELSE 2       \* longitude first

GeohashLocate(precision, point_) ==
  LET p == Clamp(point_)
      Step(s, bit) ==
        LET axis == GeohashAxis(bit)
            up == Upper(p, s.rect, axis)
        IN  [rect |-> Half(s.rect, axis, up), bits |-> Append(s.bits, up)]
      bits == FoldLeft(Step, [rect |-> World, bits |-> <<>>], [b \in 1..(5 * precision) |-> b]).bits
  IN  [c \in 1..precision |-> FoldLeft(LAMBDA ch, bit : 2 * ch + bit, 0, SubSeq(bits, 5 * c - 4, 5 * c))]

GeohashBounds(id) ==
  LET Bit(b) == (id[(b + 4) \div 5] \div 2^((5 - (b % 5)) % 5)) % 2
  IN  FoldLeft(LAMBDA r, b : Half(r, GeohashAxis(b), Bit(b)), World, [b \in 1..(5 * Len(id)) |-> b])

----------------------------------------------------------------------------
(* strategy/quadtree.rs *)

child_at(id, level) == (id.bits \div 4^level) % 4

Quarter(r, east, north) == Half(Half(r, 1, east), 2, north)

QuadLocate(depth, point_) ==
  LET p == Clamp(point_)
      Step(s, level) ==
        LET east == Upper(p, s.rect, 1)
            north == Upper(p, s.rect, 2)
        IN  [rect |-> Quarter(s.rect, east, north), bits |-> s.bits + (2 * north + east) * 4^(level - 1)]
  IN  [depth |-> depth,
       bits |-> FoldLeft(Step, [rect |-> World, bits |-> 0], [l \in 1..depth |-> l]).bits]

QuadBounds(id) ==
  FoldLeft(LAMBDA r, l : Quarter(r, child_at(id, l - 1) % 2, child_at(id, l - 1) \div 2),
           World, [l \in 1..id.depth |-> l])

----------------------------------------------------------------------------
(* The trait: a strategy is [kind, level]. *)

locate(st, p) == IF st.kind = "geohash" THEN GeohashLocate(st.level, p) ELSE QuadLocate(st.level, p)
bounds(st, id) == IF st.kind = "geohash" THEN GeohashBounds(id) ELSE QuadBounds(id)

InRect(r, p) == \A axis \in 1..2 : r.min[axis] <= p[axis] /\ p[axis] <= r.max[axis]
contains(st, id, p) == InRect(bounds(st, id), p)

(* A point a quarter of a cell past each side and corner, located again;   *)
(* those outside the world are left out.                                   *)
Probes(r) ==
  LET Reach_(axis) == (r.max[axis] - r.min[axis]) \div 4
      At(axis, side) == CASE side = -1 -> r.min[axis] - Reach_(axis)
                          [] side = 0 -> Mid(r, axis)
                          [] side = 1 -> r.max[axis] + Reach_(axis)
  IN  {<<At(1, side[1]), At(2, side[2])>> : side \in ((-1..1) \X (-1..1)) \ {<<0, 0>>}}

neighbours(st, id) ==
  {locate(st, p) : p \in {q \in Probes(bounds(st, id)) : InRect(World, q)}} \ {id}

============================================================================
