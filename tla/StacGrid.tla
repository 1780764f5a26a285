------------------------------ MODULE StacGrid ------------------------------
(***************************************************************************)
(* stac.py: the grid a bounding box is cut into.  The cells are laid along  *)
(* the geodesic that leaves the box's upper left corner due east.  It is    *)
(* not the box's upper edge: it bends away from it, towards the equator.    *)
(*                                                                          *)
(* A position has two coordinates, in some unit of length: x is how far one *)
(* walks that geodesic to come to its meridian, and y how far south of the  *)
(* box's upper edge it lies on the meridian.  The geodesic itself is pyproj *)
(* (inv, fwd): where a walk leads is known to this module only through it.  *)
(***************************************************************************)
EXTENDS Integers

CONSTANTS
  TileSize,   \* the side of a cell, 100 km, in units
  Metre,      \* one metre, in units
  inv(_),     \* Geod.inv: the distance between the upper corners of a box
  fwd(_, _)   \* Geod.fwd: how far south of a box's upper edge a walk of some length has come,
              \* less than nothing if the box is south of the equator

ASSUME GridAssumption ==
  /\ TileSize \in Nat /\ Metre \in Nat
  /\ 0 < Metre /\ Metre < TileSize

Spans   == [lo : Nat, hi : Nat]
Extents == [x : Spans, y : [lo : Int, hi : Int]]

\* Variant: the last, incomplete tile is not counted.
n_tiles_floor(d) == d \div TileSize

\* int(np.ceil(distance / tilesize))
n_tiles(d) == (d + TileSize - 1) \div TileSize

\* The k-th stretch of an edge: up to a metre before the next one, or to the end.
cell_pos(k, d) ==
  IF (k + 1) * TileSize > d THEN [lo |-> k * TileSize, hi |-> d]
  ELSE [lo |-> k * TileSize, hi |-> (k + 1) * TileSize - Metre]

\* Due east to where the cell starts and where it ends, which gives its longitudes; from
\* the former due south, which gives its latitudes.
find_cell_bounds(box, lon, lat) ==
  LET south == fwd(box, lon.lo)
  IN  [x |-> lon, y |-> [lo |-> south + lat.lo, hi |-> south + lat.hi]]

\* The cells of a box, column by column.
set_grid_cells(box) ==
  LET ny == n_tiles(box.y.hi)
  IN  [n \in 1 .. n_tiles(inv(box)) * ny |->
         find_cell_bounds(box, cell_pos((n - 1) \div ny, inv(box)),
                               cell_pos((n - 1) % ny, box.y.hi))]

-----------------------------------------------------------------------------
(* What a grid is for *)

\* Position p lies in a span, or at most a metre behind it.
Reaches(s, p)   == s.lo <= p /\ p <= s.hi + Metre
Covers(c, x, y) == Reaches(c.x, x) /\ Reaches(c.y, y)

Apart(s, t)     == s.hi < t.lo \/ t.hi < s.lo
Disjoint(c, d)  == Apart(c.x, d.x) \/ Apart(c.y, d.y)

\* A box whose corners are apart; of one around the earth the upper two are not.
HasArea(box) == inv(box) > 0 /\ box.y.hi > 0

\* The sides of a box as pyproj measures them.
Measured(box) ==
  /\ inv(box) \in Nat /\ box.y.hi \in Nat
  /\ \A k \in 0 .. n_tiles(inv(box)) - 1 : fwd(box, k * TileSize) \in Int

\* The column of a position; the end of the edge is in the last one.
column(d, x) == IF x \div TileSize < n_tiles(d) THEN x \div TileSize ELSE n_tiles(d) - 1

\* The positions of a box that the grid is over: those between the geodesic, at the start
\* of their column, and as much south of it as the box is high.  What a column starts
\* south of, or north of the equator ends north of, is lost; so is what lies east of the
\* distance between the corners, which is less than the walk to the box's eastern edge.
InGrid(box) ==
  {p \in (0 .. inv(box)) \X (0 .. box.y.hi) :
     p[2] - fwd(box, column(inv(box), p[1]) * TileSize) \in 0 .. box.y.hi}
=============================================================================
