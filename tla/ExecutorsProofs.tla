-------------------------- MODULE ExecutorsProofs --------------------------
(***************************************************************************)
(* Proofs about Executors, for any pods, graphs, faults, boxes and tiles:   *)
(* the grid covers a box and its cells are disjoint, each pod computes the  *)
(* whole grid or fails, and its cluster is shut down with it.               *)
(***************************************************************************)
EXTENDS ExecutorsInv, WellFoundedInduction, TLAPS

-----------------------------------------------------------------------------
(* Numbers *)

\* The quotient of a division and the multiples around the dividend.
LEMMA DivBounds ==
  ASSUME NEW a \in Nat, NEW b \in Nat, b > 0
  PROVE  /\ a \div b \in Nat
         /\ (a \div b) * b <= a
         /\ a < (a \div b + 1) * b
  OBVIOUS

\* Multiples of the tile size are ordered as their factors are.
LEMMA TileMonotone ==
  ASSUME NEW i \in Nat, NEW j \in Nat, i < j
  PROVE  /\ i * TileSize \in Nat /\ j * TileSize \in Nat
         /\ (i + 1) * TileSize = i * TileSize + TileSize
         /\ (i + 1) * TileSize <= j * TileSize
  BY GridAssumption

\* The last tile is the one that reaches the end of the edge.
LEMMA LastTile ==
  ASSUME NEW d \in Nat, d > 0
  PROVE  /\ n_tiles(d) \in Nat /\ n_tiles(d) > 0
         /\ (n_tiles(d) - 1) * TileSize < d
         /\ d <= n_tiles(d) * TileSize
  BY GridAssumption, DivBounds DEF n_tiles

-----------------------------------------------------------------------------
(* One edge *)

\* The stretches of an edge lie within it.
LEMMA SpansWithin ==
  ASSUME NEW d \in Nat, d > 0, NEW k \in 0 .. n_tiles(d) - 1
  PROVE  /\ cell_pos(k, d) \in Spans
         /\ 0 <= cell_pos(k, d).lo
         /\ cell_pos(k, d).lo <= cell_pos(k, d).hi
         /\ cell_pos(k, d).hi <= d
  <1>1. k \in Nat /\ n_tiles(d) \in Nat /\ (n_tiles(d) - 1) * TileSize < d
    BY LastTile
  <1>2. k * TileSize \in Nat /\ (k + 1) * TileSize = k * TileSize + TileSize
    BY <1>1, GridAssumption
  <1>3. k * TileSize <= (n_tiles(d) - 1) * TileSize
    BY <1>1, <1>2, TileMonotone, GridAssumption
  <1>4. k * TileSize < d
    BY <1>1, <1>2, <1>3, GridAssumption
  <1> QED
    BY <1>2, <1>4, GridAssumption DEF cell_pos, Spans

\* Every position of an edge is reached by one of its stretches.
LEMMA SpansCover ==
  ASSUME NEW d \in Nat, d > 0, NEW p \in 0 .. d
  PROVE  \E k \in 0 .. n_tiles(d) - 1 : Reaches(cell_pos(k, d), p)
  <1> DEFINE q == p \div TileSize
             n == n_tiles(d)
  <1>1. q \in Nat /\ q * TileSize <= p /\ p < (q + 1) * TileSize
    BY DivBounds, GridAssumption
  <1>2. n \in Nat /\ n > 0 /\ (n - 1) * TileSize < d /\ d <= n * TileSize
    BY LastTile
  <1> HIDE DEF q, n
  <1>3. CASE q < n
    <2>1. (q + 1) * TileSize = q * TileSize + TileSize
      BY <1>1, GridAssumption
    <2>2. Reaches(cell_pos(q, d), p)
      BY <1>1, <2>1, GridAssumption DEF Reaches, cell_pos
    <2> QED
      BY <1>1, <1>2, <1>3, <2>2 DEF n
  <1>4. CASE n <= q
    \* Only the end of an edge that is a multiple of the tile size is in no tile.
    <2>1. n * TileSize <= q * TileSize
      BY <1>1, <1>2, <1>4, TileMonotone, GridAssumption
    <2>2. p = n * TileSize /\ d = n * TileSize
      BY <1>1, <1>2, <2>1, GridAssumption
    <2>3. (n - 1) * TileSize = n * TileSize - TileSize /\ (n - 1) + 1 = n
      BY <1>2, GridAssumption
    <2>4. Reaches(cell_pos(n - 1, d), p)
      BY <1>2, <2>2, <2>3, GridAssumption DEF Reaches, cell_pos
    <2> QED
      BY <1>2, <2>4 DEF n
  <1> QED
    BY <1>1, <1>2, <1>3, <1>4

\* Two stretches of an edge are apart.
LEMMA SpansApart ==
  ASSUME NEW d \in Nat, NEW i \in Nat, NEW j \in Nat, i < j
  PROVE  Apart(cell_pos(i, d), cell_pos(j, d))
  <1>1. /\ i * TileSize \in Nat /\ j * TileSize \in Nat
        /\ (i + 1) * TileSize = i * TileSize + TileSize
        /\ (i + 1) * TileSize <= j * TileSize
    BY TileMonotone
  <1>2. (j + 1) * TileSize = j * TileSize + TileSize
    BY GridAssumption
  <1> QED
    BY <1>1, <1>2, GridAssumption DEF Apart, cell_pos

-----------------------------------------------------------------------------
(* The grid *)

\* Quotient and remainder are found again from the number made of them.
LEMMA DivModUnique ==
  ASSUME NEW m \in Nat, m > 0, NEW i \in Nat, NEW j \in 0 .. m - 1
  PROVE  /\ i * m + j \in Nat
         /\ (i * m + j) \div m = i
         /\ (i * m + j) % m = j
  OBVIOUS

\* A row and a column of the grid have a cell in the sequence of cells.
LEMMA CellIndex ==
  ASSUME NEW nx \in Nat, NEW ny \in Nat, NEW i \in 0 .. nx - 1, NEW j \in 0 .. ny - 1
  PROVE  i * ny + j + 1 \in 1 .. nx * ny
  <1>1. i * ny \in Nat /\ nx * ny \in Nat
    OBVIOUS
  <1>2. (i + 1) * ny = i * ny + ny
    OBVIOUS
  <1>3. (i + 1) * ny <= nx * ny
    OBVIOUS
  <1> QED
    BY <1>1, <1>2, <1>3

\* Quotient and remainder tell a smaller number from a larger one.
LEMMA DivModApart ==
  ASSUME NEW m \in Nat, m > 0, NEW a \in Nat, NEW b \in Nat, a < b
  PROVE  /\ a \div m \in Nat /\ b \div m \in Nat /\ a % m \in 0 .. m - 1 /\ b % m \in 0 .. m - 1
         /\ a \div m < b \div m \/ (a \div m = b \div m /\ a % m < b % m)
  OBVIOUS

\* The height of a box and the distance between its upper corners are lengths.
LEMMA BoxSides ==
  ASSUME NEW box \in Extents, Measured(box), HasArea(box)
  PROVE  inv(box) \in Nat /\ inv(box) > 0 /\ box.y.hi \in Nat /\ box.y.hi > 0
  BY DEF Measured, HasArea

\* What find_cell_bounds makes of a row and a column.
LEMMA BoundsAre ==
  ASSUME NEW box, NEW lon, NEW lat
  PROVE  /\ find_cell_bounds(box, lon, lat).x = lon
         /\ find_cell_bounds(box, lon, lat).y
              = [lo |-> fwd(box, lon.lo) + lat.lo, hi |-> fwd(box, lon.lo) + lat.hi]
  BY DEF find_cell_bounds

\* A column starts at a multiple of the tile size.
LEMMA ColumnStart ==
  ASSUME NEW k, NEW d
  PROVE  cell_pos(k, d).lo = k * TileSize
  BY DEF cell_pos

\* The cell of column i and row j.
CellOn(box, i, j) == find_cell_bounds(box, cell_pos(i, inv(box)), cell_pos(j, box.y.hi))

\* A column and a row have their cell in the grid.
LEMMA CellAt ==
  ASSUME NEW box \in Extents, Measured(box), HasArea(box),
         NEW i \in 0 .. n_tiles(inv(box)) - 1, NEW j \in 0 .. n_tiles(box.y.hi) - 1
  PROVE  \E n \in DOMAIN set_grid_cells(box) : set_grid_cells(box)[n] = CellOn(box, i, j)
  <1> DEFINE nx == n_tiles(inv(box))
             ny == n_tiles(box.y.hi)
             n  == i * ny + j + 1
  <1>1. nx \in Nat /\ ny \in Nat /\ nx > 0 /\ ny > 0
    BY BoxSides, LastTile
  <1>2. n \in 1 .. nx * ny
    BY <1>1, CellIndex
  <1>3. (n - 1) \div ny = i /\ (n - 1) % ny = j
    <2>1. n - 1 = i * ny + j
      BY <1>1
    <2>2. (i * ny + j) \div ny = i /\ (i * ny + j) % ny = j
      <3>1. i \in Nat /\ j \in 0 .. ny - 1
        BY <1>1
      <3> HIDE DEF n, nx, ny
      <3> QED
        BY <1>1, <3>1, DivModUnique
    <2> QED
      BY <2>1, <2>2
  <1>4. DOMAIN set_grid_cells(box) = 1 .. nx * ny
    BY DEF set_grid_cells
  <1>5. set_grid_cells(box)[n] = CellOn(box, (n - 1) \div ny, (n - 1) % ny)
    BY <1>2 DEF set_grid_cells, CellOn
  <1> HIDE DEF n
  <1> QED
    BY <1>2, <1>3, <1>4, <1>5

\* A position is reached by its column.
LEMMA ColumnReaches ==
  ASSUME NEW d \in Nat, d > 0, NEW x \in 0 .. d
  PROVE  /\ column(d, x) \in 0 .. n_tiles(d) - 1
         /\ Reaches(cell_pos(column(d, x), d), x)
  <1> DEFINE q == x \div TileSize
             n == n_tiles(d)
  <1>1. q \in Nat /\ q * TileSize <= x /\ x < (q + 1) * TileSize
    BY DivBounds, GridAssumption
  <1>2. n \in Nat /\ n > 0 /\ (n - 1) * TileSize < d /\ d <= n * TileSize
    BY LastTile
  <1>3. column(d, x) = IF q < n THEN q ELSE n - 1
    BY DEF column
  <1> HIDE DEF q, n
  <1>4. CASE q < n
    <2>1. (q + 1) * TileSize = q * TileSize + TileSize
      BY <1>1, GridAssumption
    <2>2. Reaches(cell_pos(q, d), x)
      BY <1>1, <2>1, GridAssumption DEF Reaches, cell_pos
    <2> QED
      BY <1>1, <1>2, <1>3, <1>4, <2>2 DEF n
  <1>5. CASE n <= q
    \* Only the end of an edge that is a multiple of the tile size is in no tile.
    <2>1. n * TileSize <= q * TileSize
      BY <1>1, <1>2, <1>5, TileMonotone, GridAssumption
    <2>2. x = n * TileSize /\ d = n * TileSize
      BY <1>1, <1>2, <2>1, GridAssumption
    <2>3. (n - 1) * TileSize = n * TileSize - TileSize /\ (n - 1) + 1 = n
      BY <1>2, GridAssumption
    <2>4. Reaches(cell_pos(n - 1, d), x)
      BY <1>2, <2>2, <2>3, GridAssumption DEF Reaches, cell_pos
    <2> QED
      BY <1>1, <1>2, <1>3, <1>5, <2>4 DEF n
  <1> QED
    BY <1>1, <1>2, <1>4, <1>5

\* Every position of a box that its grid is over is reached by a cell, wherever the
\* geodesic leads: no metre is lost between the cells of a column, or between columns.
THEOREM GridCovers ==
  ASSUME NEW box \in Extents, Measured(box), HasArea(box), NEW p \in InGrid(box)
  PROVE  \E n \in DOMAIN set_grid_cells(box) : Covers(set_grid_cells(box)[n], p[1], p[2])
  <1> DEFINE lon   == inv(box)
             lat   == box.y.hi
             i     == column(lon, p[1])
             south == fwd(box, i * TileSize)
  <1>1. lon \in Nat /\ lon > 0 /\ lat \in Nat /\ lat > 0
    BY BoxSides
  <1>2. p[1] \in 0 .. lon /\ p[2] \in 0 .. lat /\ p[2] - south \in 0 .. lat
    BY DEF InGrid
  <1>3. i \in 0 .. n_tiles(lon) - 1 /\ Reaches(cell_pos(i, lon), p[1])
    BY <1>1, <1>2, ColumnReaches
  <1>4. south \in Int
    BY <1>3 DEF Measured
  <1>5. PICK j \in 0 .. n_tiles(lat) - 1 : Reaches(cell_pos(j, lat), p[2] - south)
    BY <1>1, <1>2, SpansCover
  <1>6. PICK n \in DOMAIN set_grid_cells(box) : set_grid_cells(box)[n] = CellOn(box, i, j)
    BY <1>3, <1>5, CellAt
  <1>7. /\ CellOn(box, i, j).x = cell_pos(i, lon)
        /\ CellOn(box, i, j).y = [lo |-> south + cell_pos(j, lat).lo, hi |-> south + cell_pos(j, lat).hi]
    BY BoundsAre, ColumnStart DEF CellOn
  <1>8. cell_pos(j, lat).lo \in Nat /\ cell_pos(j, lat).hi \in Nat
    BY <1>1, <1>5, SpansWithin DEF Spans
  <1> HIDE DEF lon, lat, i, south
  <1>9. Reaches(CellOn(box, i, j).y, p[2])
    <2>1. p[2] \in Int /\ Metre \in Nat
      BY <1>1, <1>2, GridAssumption
    <2>2. /\ CellOn(box, i, j).y.lo = south + cell_pos(j, lat).lo
          /\ CellOn(box, i, j).y.hi = south + cell_pos(j, lat).hi
      BY <1>7
    <2> QED
      BY <1>4, <1>5, <1>8, <2>1, <2>2 DEF Reaches
  <1>10. Reaches(CellOn(box, i, j).x, p[1])
    BY <1>3, <1>7
  <1> QED
    BY <1>6, <1>9, <1>10 DEF Covers

\* The positions of a cell: column and row follow from its number.
LEMMA CellOf ==
  ASSUME NEW box \in Extents, Measured(box), HasArea(box),
         NEW n \in DOMAIN set_grid_cells(box)
  PROVE  LET ny == n_tiles(box.y.hi)
         IN  /\ n \in Nat /\ n > 0
             /\ (n - 1) \div ny \in 0 .. n_tiles(inv(box)) - 1
             /\ (n - 1) % ny \in 0 .. ny - 1
             /\ set_grid_cells(box)[n] = CellOn(box, (n - 1) \div ny, (n - 1) % ny)
  <1> DEFINE nx == n_tiles(inv(box))
             ny == n_tiles(box.y.hi)
  <1>1. nx \in Nat /\ ny \in Nat /\ nx > 0 /\ ny > 0
    BY BoxSides, LastTile
  <1>2. n \in 1 .. nx * ny
    BY DEF set_grid_cells
  <1>3. set_grid_cells(box)[n] = CellOn(box, (n - 1) \div ny, (n - 1) % ny)
    BY <1>2 DEF set_grid_cells, CellOn
  <1> HIDE DEF nx, ny
  <1>4. nx * ny \in Nat
    BY <1>1
  <1>5. n - 1 \in Nat /\ n - 1 < nx * ny
    BY <1>2, <1>4
  <1>6. (n - 1) \div ny \in Nat /\ ((n - 1) \div ny) * ny <= n - 1 /\ (n - 1) % ny \in 0 .. ny - 1
    BY <1>1, <1>5, DivBounds
  <1>7. (n - 1) \div ny < nx
    BY <1>1, <1>4, <1>5, <1>6
  <1> QED
    BY <1>1, <1>2, <1>3, <1>6, <1>7 DEF nx, ny

\* No two cells have a position in common, although their columns start at different heights.
THEOREM CellsDisjoint ==
  ASSUME NEW box \in Extents, Measured(box), HasArea(box),
         NEW m \in DOMAIN set_grid_cells(box), NEW n \in DOMAIN set_grid_cells(box), m # n
  PROVE  Disjoint(set_grid_cells(box)[m], set_grid_cells(box)[n])
  <1> DEFINE lon == inv(box)
             lat == box.y.hi
             ny  == n_tiles(lat)
             col(k) == (k - 1) \div ny
             rw(k)  == (k - 1) % ny
             cell(k) == set_grid_cells(box)[k]
  <1>0. lon \in Nat /\ lon > 0 /\ lat \in Nat /\ lat > 0
    BY BoxSides
  <1>1. ny \in Nat /\ ny > 0
    BY <1>0, LastTile
  <1>2. \A k \in {m, n} : /\ k \in Nat /\ k > 0 /\ col(k) \in 0 .. n_tiles(lon) - 1 /\ rw(k) \in 0 .. ny - 1
                          /\ cell(k) = CellOn(box, col(k), rw(k))
    BY CellOf, <1>1
  <1> SUFFICES \A a, b \in {m, n} : a < b => Apart(cell(a).x, cell(b).x) \/ Apart(cell(a).y, cell(b).y)
    <2>1. m < n \/ n < m
      BY <1>2
    <2> HIDE DEF cell
    <2>2. Disjoint(cell(m), cell(n)) <=> Disjoint(cell(n), cell(m))
      BY DEF Disjoint, Apart
    <2>3. \A a, b : Disjoint(cell(a), cell(b)) <=> Apart(cell(a).x, cell(b).x) \/ Apart(cell(a).y, cell(b).y)
      BY DEF Disjoint
    <2>4. Disjoint(cell(m), cell(n))
      BY <2>1, <2>2, <2>3
    <2> QED
      BY <2>4 DEF cell
  <1> TAKE a, b \in {m, n}
  <1> HAVE a < b
  <1>3. col(a) < col(b) \/ (col(a) = col(b) /\ rw(a) < rw(b))
    BY <1>1, <1>2, DivModApart
  <1>4. \A k \in {m, n} : /\ fwd(box, col(k) * TileSize) \in Int
                          /\ cell_pos(rw(k), lat).lo \in Nat /\ cell_pos(rw(k), lat).hi \in Nat
    BY <1>0, <1>2, SpansWithin DEF Measured, Spans
  <1>5. \A k \in {m, n} :
          /\ cell(k).x = cell_pos(col(k), lon)
          /\ cell(k).y.lo = fwd(box, col(k) * TileSize) + cell_pos(rw(k), lat).lo
          /\ cell(k).y.hi = fwd(box, col(k) * TileSize) + cell_pos(rw(k), lat).hi
    <2> TAKE k \in {m, n}
    <2> DEFINE c == CellOn(box, col(k), rw(k))
    <2>1. cell(k) = c
      BY <1>2
    <2>2. /\ c.x = cell_pos(col(k), lon)
          /\ c.y = [lo |-> fwd(box, col(k) * TileSize) + cell_pos(rw(k), lat).lo,
                    hi |-> fwd(box, col(k) * TileSize) + cell_pos(rw(k), lat).hi]
      BY BoundsAre, ColumnStart DEF CellOn
    <2> HIDE DEF c, cell
    <2> QED
      BY <2>1, <2>2
  <1>6. \A k \in {m, n} : col(k) \in Nat /\ rw(k) \in Nat
    BY <1>2
  <1> HIDE DEF lon, lat, ny, col, rw, cell
  <1>7. CASE col(a) < col(b)
    <2>1. Apart(cell_pos(col(a), lon), cell_pos(col(b), lon))
      BY <1>0, <1>6, <1>7, SpansApart
    <2> QED
      BY <1>5, <2>1
  <1>8. CASE col(a) = col(b) /\ rw(a) < rw(b)
    <2>1. Apart(cell_pos(rw(a), lat), cell_pos(rw(b), lat))
      BY <1>0, <1>6, <1>8, SpansApart
    <2> DEFINE south == fwd(box, col(a) * TileSize)
    <2>2. /\ south \in Int
          /\ cell(a).y.lo = south + cell_pos(rw(a), lat).lo /\ cell(a).y.hi = south + cell_pos(rw(a), lat).hi
          /\ cell(b).y.lo = south + cell_pos(rw(b), lat).lo /\ cell(b).y.hi = south + cell_pos(rw(b), lat).hi
      BY <1>4, <1>5, <1>8
    <2> HIDE DEF south
    <2> QED
      BY <1>4, <2>1, <2>2 DEF Apart
  <1> QED
    BY <1>3, <1>7, <1>8

-----------------------------------------------------------------------------
(* The graphs of a grid *)

\* The number of cells, and each of them a box.
LEMMA GridType ==
  ASSUME NEW box \in Extents, Measured(box)
  PROVE  LET size == n_tiles(inv(box)) * n_tiles(box.y.hi)
         IN  /\ size \in Nat
             /\ DOMAIN set_grid_cells(box) = 1 .. size
             /\ \A n \in 1 .. size : set_grid_cells(box)[n] \in Extents
  <1> DEFINE nx == n_tiles(inv(box))
             ny == n_tiles(box.y.hi)
  <1>0. inv(box) \in Nat /\ box.y.hi \in Nat
    BY DEF Measured
  <1>1. \A d \in Nat : n_tiles(d) \in Nat
    BY GridAssumption, DivBounds DEF n_tiles
  <1>2. nx \in Nat /\ ny \in Nat
    BY <1>0, <1>1
  <1>3. nx * ny \in Nat
    BY <1>2
  <1>4. DOMAIN set_grid_cells(box) = 1 .. nx * ny
    BY DEF set_grid_cells
  <1>5. ASSUME NEW k \in Nat, NEW d \in Nat
        PROVE  cell_pos(k, d) \in Spans /\ cell_pos(k, d).lo \in Nat /\ cell_pos(k, d).hi \in Nat
    <2>1. k * TileSize \in Nat /\ (k + 1) * TileSize = k * TileSize + TileSize
      BY <1>5, GridAssumption
    <2> QED
      BY <1>5, <2>1, GridAssumption DEF cell_pos, Spans
  <1>6. ASSUME NEW n \in 1 .. nx * ny PROVE set_grid_cells(box)[n] \in Extents
    <2> DEFINE i == (n - 1) \div ny
               j == (n - 1) % ny
    <2>1. set_grid_cells(box)[n] = CellOn(box, i, j)
      BY <1>6 DEF set_grid_cells, CellOn
    <2>2. i \in 0 .. nx - 1 /\ j \in Nat
      <3> HIDE DEF nx, ny
      <3>1. ny > 0
        BY <1>2, <1>6
      <3>2. n - 1 \in Nat /\ n - 1 < nx * ny
        BY <1>3, <1>6
      <3>3. i \in Nat /\ i * ny <= n - 1 /\ j \in Nat
        BY <1>2, <3>1, <3>2, DivBounds
      <3>4. i < nx
        BY <1>2, <1>3, <3>1, <3>2, <3>3
      <3> QED
        BY <1>2, <3>3, <3>4
    <2>3. fwd(box, i * TileSize) \in Int
      BY <2>2 DEF Measured
    <2>4. i \in Nat
      BY <1>2, <2>2
    <2> HIDE DEF nx, ny, i, j
    <2>5. /\ cell_pos(i, inv(box)) \in Spans
          /\ cell_pos(j, box.y.hi).lo \in Nat /\ cell_pos(j, box.y.hi).hi \in Nat
      BY <1>0, <1>5, <2>2, <2>4
    <2>6. CellOn(box, i, j)
            = [x |-> cell_pos(i, inv(box)),
               y |-> [lo |-> fwd(box, i * TileSize) + cell_pos(j, box.y.hi).lo,
                      hi |-> fwd(box, i * TileSize) + cell_pos(j, box.y.hi).hi]]
      BY ColumnStart DEF CellOn, find_cell_bounds
    <2> QED
      BY <2>1, <2>3, <2>5, <2>6 DEF Extents
  <1> QED
    BY <1>3, <1>4, <1>6

\* A graph that is given a cell stays a graph of the same length.
LEMMA DeriveType ==
  ASSUME NEW cell \in Extents, NEW g \in Seq(Nodes)
  PROVE  derive_sub_graph(cell, g) \in Seq(Nodes)
  <1>0. g \in [1 .. Len(g) -> Nodes] /\ Len(g) \in Nat
    OBVIOUS
  <1>1. ASSUME NEW i PROVE [g EXCEPT ![i].extent = cell] \in Seq(Nodes)
    <2>1. PICK r : r = [g[i] EXCEPT !.extent = cell]
      OBVIOUS
    <2>2. ASSUME i \in 1 .. Len(g) PROVE r \in Nodes
      <3>1. g[i] \in Nodes
        BY <1>0, <2>2
      <3> QED
        BY <2>1, <3>1 DEF Nodes
    <2>3. [g EXCEPT ![i] = r] \in [1 .. Len(g) -> Nodes]
      BY <1>0, <2>2
    <2> QED
      BY <1>0, <2>1, <2>3
  <1> QED
    BY <1>1 DEF derive_sub_graph

\* The graphs to run are as many as the cells.
LEMMA PrepareType ==
  ASSUME NEW box \in Extents, Measured(box), NEW g \in Seq(Nodes)
  PROVE  /\ prepare_graphs(box, g) \in Seq(Seq(Nodes))
         /\ Len(prepare_graphs(box, g)) = n_tiles(inv(box)) * n_tiles(box.y.hi)
         /\ DOMAIN prepare_graphs(box, g) = DOMAIN set_grid_cells(box)
  <1> DEFINE size == n_tiles(inv(box)) * n_tiles(box.y.hi)
  <1>1. /\ size \in Nat
        /\ DOMAIN set_grid_cells(box) = 1 .. size
        /\ \A n \in 1 .. size : set_grid_cells(box)[n] \in Extents
    BY GridType
  <1> HIDE DEF size
  <1>2. prepare_graphs(box, g) \in [1 .. size -> Seq(Nodes)]
    BY <1>1, DeriveType DEF prepare_graphs
  <1>3. DOMAIN prepare_graphs(box, g) = 1 .. size
    BY <1>2
  <1>4. prepare_graphs(box, g) \in Seq(Seq(Nodes)) /\ Len(prepare_graphs(box, g)) = size
    BY <1>1, <1>2
  <1> QED
    BY <1>1, <1>3, <1>4 DEF size

\* What a graph loads.
LEMMA LoadsType ==
  ASSUME NEW g \in Seq(Nodes)
  PROVE  Loads(g) \in SUBSET (Extents \cup {Partial, Null, None})
  <1>1. \A i \in DOMAIN g : g[i] \in Nodes
    OBVIOUS
  <1>2. LoadNodes(g) \cup NodesWith(g, Extents \cup {Partial}) \subseteq DOMAIN g
    BY DEF LoadNodes, NodesWith
  <1>3. \A i \in DOMAIN g : g[i].extent \in Extents \cup {Partial, Null, None}
    BY <1>1 DEF Nodes
  <1> QED
    BY <1>2, <1>3 DEF Loads

\* The least of some positions is one of them.
Smaller == {p \in Nat \X Nat : p[1] < p[2]}
LEMMA MinIn ==
  ASSUME NEW S, S \subseteq Nat, S # {}
  PROVE  Min(S) \in S
  <1>1. IsWellFoundedOn(Smaller, Nat)
    BY NatLessThanWellFounded DEF OpToRel, Smaller
  <1>2. PICK x \in S : \A y \in S : ~(<<y, x>> \in Smaller)
    BY <1>1, WFMin
  <1>3. ASSUME NEW y \in S PROVE x <= y
    <2>1. x \in Nat /\ y \in Nat /\ <<y, x>> \notin Smaller
      BY <1>2
    <2>2. ~(y < x)
      BY <2>1 DEF Smaller
    <2> QED
      BY <2>1, <2>2
  <1>4. Min(S) = CHOOSE m \in S : \A y \in S : m <= y
    BY DEF Min
  <1> QED
    BY <1>3, <1>4

\* A bounding box is the extent of one of the graph's nodes.
LEMMA BoxIsThere ==
  ASSUME NEW g \in Seq(Nodes), NEW box \in pg_bounding_boxes(g), box \in Extents
  PROVE  \E i \in NodesWith(g, Extents) : box = g[i].extent
  <1> DEFINE loads    == LoadNodes(g) \ NodesWith(g, {None})
             complete == NodesWith(g, Extents)
  <1>1. CASE loads # {}
    <2>1. PICK i \in loads : box = g[i].extent
      BY <1>1 DEF pg_bounding_boxes
    <2> QED
      BY <2>1 DEF LoadNodes, NodesWith
  <1>2. CASE loads = {} /\ complete # {}
    <2>1. complete \subseteq Nat
      BY DEF NodesWith
    <2>2. Min(complete) \in complete
      BY <1>2, <2>1, MinIn
    <2>3. box = g[Min(complete)].extent
      BY <1>2 DEF pg_bounding_boxes
    <2> QED
      BY <2>2, <2>3
  <1>3. CASE loads = {} /\ complete = {}
    <2>1. box = None
      BY <1>3 DEF pg_bounding_boxes
    <2> QED
      BY <2>1, NoneAssumption
  <1> QED
    BY <1>1, <1>2, <1>3

\* The box of a graph that speaks of one place is the extent of its one node.
LEMMA OneBox ==
  ASSUME NEW g \in Seq(Nodes), OneExtent(g)
  PROVE  /\ BoxOf(g) \in Extents
         /\ pg_bounding_boxes(g) = {BoxOf(g)}
  <1>1. PICK i \in NodesWith(g, Extents) :
          /\ NodesWith(g, Extents \cup {Partial}) = {i}
          /\ LoadNodes(g) \subseteq {i}
    BY DEF OneExtent
  <1>2. i \in DOMAIN g /\ g[i].extent \in Extents
    BY <1>1 DEF NodesWith
  <1>3. NodesWith(g, Extents) = {i}
    BY <1>1 DEF NodesWith
  <1>4. i \in Nat
    BY <1>2
  <1>5. Min({i}) = i
    BY <1>4 DEF Min
  <1>6. BoxOf(g) = g[i].extent
    BY <1>3, <1>5 DEF BoxOf
  <1>7. i \notin NodesWith(g, {None})
    BY <1>2, NoneAssumption DEF NodesWith
  <1>8. LoadNodes(g) \ NodesWith(g, {None}) \in {{}, {i}}
    BY <1>1, <1>7
  <1>9. {g[k].extent : k \in {i}} = {g[i].extent}
    OBVIOUS
  <1> QED
    BY <1>2, <1>3, <1>5, <1>6, <1>8, <1>9 DEF pg_bounding_boxes

\* The graph that is derived for a cell loads this cell and nothing else.
LEMMA LoadsItsCell ==
  ASSUME NEW g \in Seq(Nodes), OneExtent(g), NEW cell \in Extents
  PROVE  Loads(derive_sub_graph(cell, g)) = {cell}
  <1>1. PICK i \in NodesWith(g, Extents) :
          /\ NodesWith(g, Extents \cup {Partial}) = {i}
          /\ LoadNodes(g) \subseteq {i}
    BY DEF OneExtent
  <1>2. i \in DOMAIN g /\ i \in Nat
    BY <1>1 DEF NodesWith
  <1>3. Min({i}) = i
    BY <1>2 DEF Min
  <1>4. derive_sub_graph(cell, g) = [g EXCEPT ![i].extent = cell]
    <2>1. (IF LoadNodes(g) # {} THEN LoadNodes(g) ELSE NodesWith(g, Extents \cup {Partial})) = {i}
      BY <1>1
    <2>2. LoadNodes(g) \cup NodesWith(g, Extents \cup {Partial}) # {}
      BY <1>1
    <2> QED
      BY <1>3, <2>1, <2>2 DEF derive_sub_graph
  <1>5. PICK r : r = [g[i] EXCEPT !.extent = cell]
    OBVIOUS
  <1>6. r.extent = cell /\ r.process = g[i].process
    BY <1>2, <1>5 DEF Nodes
  <1>7. PICK h : h = [g EXCEPT ![i] = r]
    OBVIOUS
  <1>8. /\ derive_sub_graph(cell, g) = h /\ DOMAIN h = DOMAIN g /\ h[i] = r
        /\ \A k \in DOMAIN g : k # i => h[k] = g[k]
    BY <1>2, <1>4, <1>5, <1>7
  <1>9. LoadNodes(h) \cup NodesWith(h, Extents \cup {Partial}) = {i}
    <2>1. i \in NodesWith(h, Extents \cup {Partial})
      BY <1>2, <1>6, <1>8 DEF NodesWith
    <2>2. \A k \in DOMAIN h : k # i => k \notin LoadNodes(h) /\ k \notin NodesWith(h, Extents \cup {Partial})
      <3>1. \A k \in DOMAIN g : k # i => k \notin LoadNodes(g) /\ k \notin NodesWith(g, Extents \cup {Partial})
        BY <1>1
      <3> QED
        BY <1>8, <3>1 DEF LoadNodes, NodesWith
    <2> QED
      BY <2>1, <2>2 DEF LoadNodes, NodesWith
  <1>10. Loads(h) = {h[i].extent}
    BY <1>9 DEF Loads
  <1> QED
    BY <1>6, <1>8, <1>10

-----------------------------------------------------------------------------
(* Type correctness *)

\* The graph of a pod, and its bounding boxes, which pyproj can measure.
LEMMA PodGraph ==
  ASSUME TypeOK, NEW e \in Pods
  PROVE  /\ pod[e].graph \in Seq(Nodes)
         /\ \A box \in pg_bounding_boxes(pod[e].graph) : box \in Extents => Measured(box)
         /\ \A i \in NodesWith(pod[e].graph, Extents) : Measured(pod[e].graph[i].extent)
  <1>1. pod[e].graph \in Seq(Nodes)
    BY DEF TypeOK, PodStates
  <1>2. \A i \in NodesWith(pod[e].graph, Extents) : Measured(pod[e].graph[i].extent)
    BY PodsAssumption DEF TypeOK
  <1> QED
    BY <1>1, <1>2, BoxIsThere

FaultSet == UNION {Faults[e] : e \in Pods}

\* What pod e may become: it keeps its graph, and remembers what went wrong.
Fits(e, r) ==
  /\ r \in PodStates
  /\ r.graph = pod[e].graph /\ pod[e].past \subseteq r.past
  /\ r.pc = "connect" <=> r.pick # None
Moves(e) == \E r : Fits(e, r) /\ pod' = [pod EXCEPT ![e] = r]

\* Every step of a pod takes it from state to state.
LEMMA StepMoves ==
  ASSUME TypeOK, NEW e \in Pods,
         \/ PodStep(e) \/ RunHangs(e) \/ ReplaceCluster(e) \/ TeardownFails(e) \/ Killed(e)
  PROVE  Moves(e) /\ dask' = dask /\ up' \subseteq Clusters
  <1> DEFINE p == pod[e]
  <1>0. /\ p \in PodStates
        /\ p.pc = "connect" <=> p.pick # None
        /\ Faults[e] \subseteq FaultSet
    BY DEF TypeOK, FaultSet
  <1>1. /\ <<e, 1>> \in Clusters /\ <<e, 2>> \in Clusters /\ None \notin Clusters
        /\ up \subseteq Clusters
    BY PodsAssumption DEF Clusters, TypeOK
  <1>2. ASSUME NEW s \in Steps \cup {"wedged"} \cup Endings, s # "connect", p.pc # "connect", Goto(e, s)
        PROVE  Moves(e)
    <2>1. PICK r : r = [p EXCEPT !.pc = s] /\ pod' = [pod EXCEPT ![e] = r]
      BY <1>2 DEF Goto
    <2>2. Fits(e, r)
      BY <1>0, <1>2, <2>1 DEF Fits, PodStates
    <2> QED
      BY <2>1, <2>2 DEF Moves
  <1>3. ASSUME NEW f, NEW s \in Steps, s # "connect", p.pc # "connect", Raise(e, f, s) PROVE Moves(e)
    <2>1. PICK r : /\ r = [p EXCEPT !.pc = s, !.exc = TRUE, !.past = @ \cup {f}]
                   /\ pod' = [pod EXCEPT ![e] = r]
      BY <1>3 DEF Raise
    <2>2. f \in FaultSet
      BY <1>0, <1>3 DEF Raise
    <2>3. Fits(e, r)
      BY <1>0, <1>3, <2>1, <2>2 DEF Fits, PodStates, FaultSet
    <2> QED
      BY <2>1, <2>3 DEF Moves
  <1>4. ASSUME p.pc # "connect", pod' = [pod EXCEPT ![e].pc = "teardown", ![e].exc = TRUE]
        PROVE  Moves(e)
    <2>1. PICK r : r = [p EXCEPT !.pc = "teardown", !.exc = TRUE] /\ pod' = [pod EXCEPT ![e] = r]
      BY <1>4
    <2>2. Fits(e, r)
      BY <1>0, <1>4, <2>1 DEF Fits, PodStates, Steps
    <2> QED
      BY <2>1, <2>2 DEF Moves
  <1>5. CASE SkipCluster(e) \/ Parse(e) \/ AllRun(e) \/ Publish(e) \/ Exit(e) \/ Shutdown(e)
    <2>1. p.pc # "connect" /\ UNCHANGED <<dask, up>>
      BY <1>5 DEF SkipCluster, Parse, AllRun, Publish, Exit, Shutdown
    <2>2. \/ \E s \in (Steps \cup {"wedged"} \cup Endings) \ {"connect"} : Goto(e, s)
          \/ \E f : \E s \in Steps \ {"connect"} : Raise(e, f, s)
      BY <1>5 DEF SkipCluster, Parse, AllRun, Publish, Exit, Shutdown, Steps, Endings
    <2> QED
      BY <1>1, <1>2, <1>3, <2>1, <2>2
  <1>6. CASE OpenLocal(e)
    <2>1. p.pc = "start" /\ UNCHANGED <<dask, up>>
      BY <1>6 DEF OpenLocal
    <2>2. CASE pod' = [pod EXCEPT ![e].pc = "parse", ![e].open = {"local_cluster", "client"}]
      <3>1. PICK r : /\ r = [p EXCEPT !.pc = "parse", !.open = {"local_cluster", "client"}]
                     /\ pod' = [pod EXCEPT ![e] = r]
        BY <2>2
      <3>2. Fits(e, r)
        BY <1>0, <2>1, <3>1 DEF Fits, PodStates, Steps, Objects
      <3> QED
        BY <1>1, <2>1, <3>1, <3>2 DEF Moves
    <2>3. ASSUME "setup" \in Faults[e], NEW o \in {{}, {"local_cluster"}},
                 pod' = [pod EXCEPT ![e].pc = "shutdown", ![e].exc = TRUE, ![e].open = o,
                                    ![e].past = @ \cup {"setup"}]
          PROVE  Moves(e)
      <3>1. PICK r : /\ r = [p EXCEPT !.pc = "shutdown", !.exc = TRUE, !.open = o,
                                      !.past = @ \cup {"setup"}]
                     /\ pod' = [pod EXCEPT ![e] = r]
        BY <2>3
      <3>2. "setup" \in FaultSet
        BY <1>0, <2>3
      <3>3. r \in PodStates
        BY <1>0, <3>1, <3>2 DEF PodStates, Steps, Objects, FaultSet
      <3>4. /\ r.pc = "shutdown" /\ r.pick = p.pick /\ r.graph = p.graph
            /\ r.past = p.past \cup {"setup"}
        BY <1>0, <3>1 DEF PodStates
      <3>5. Fits(e, r)
        BY <1>0, <2>1, <3>3, <3>4 DEF Fits
      <3> QED
        BY <3>1, <3>5 DEF Moves
    <2> QED
      BY <1>1, <1>6, <2>1, <2>2, <2>3 DEF OpenLocal
  <1>7. CASE NewCluster(e)
    <2>1. p.pc = "start" /\ dask' = dask /\ up' \subseteq Clusters
      BY <1>1, <1>7 DEF NewCluster
    <2>2. CASE pod' = [pod EXCEPT ![e].pc = "adapt", ![e].open = {"gateway"}]
      <3>1. PICK r : r = [p EXCEPT !.pc = "adapt", !.open = {"gateway"}] /\ pod' = [pod EXCEPT ![e] = r]
        BY <2>2
      <3>2. Fits(e, r)
        BY <1>0, <2>1, <3>1 DEF Fits, PodStates, Steps, Objects
      <3> QED
        BY <2>1, <3>1, <3>2 DEF Moves
    <2>3. ASSUME "setup" \in Faults[e],
                 pod' = [pod EXCEPT ![e].pc = "shutdown", ![e].exc = TRUE, ![e].open = {"gateway"},
                                    ![e].past = @ \cup {"setup"}]
          PROVE  Moves(e)
      <3>1. PICK r : /\ r = [p EXCEPT !.pc = "shutdown", !.exc = TRUE, !.open = {"gateway"},
                                      !.past = @ \cup {"setup"}]
                     /\ pod' = [pod EXCEPT ![e] = r]
        BY <2>3
      <3>2. "setup" \in FaultSet
        BY <1>0, <2>3
      <3>3. r \in PodStates
        BY <1>0, <3>1, <3>2 DEF PodStates, Steps, Objects, FaultSet
      <3>4. /\ r.pc = "shutdown" /\ r.pick = p.pick /\ r.graph = p.graph
            /\ r.past = p.past \cup {"setup"}
        BY <1>0, <3>1 DEF PodStates
      <3>5. Fits(e, r)
        BY <1>0, <2>1, <3>3, <3>4 DEF Fits
      <3> QED
        BY <3>1, <3>5 DEF Moves
    <2> QED
      BY <1>7, <2>1, <2>2, <2>3 DEF NewCluster
  <1>8. CASE Adapt(e)
    <2>1. p.pc = "adapt" /\ UNCHANGED <<dask, up>>
      BY <1>8 DEF Adapt
    <2>2. CASE pod' = [pod EXCEPT ![e].pc = "parse", ![e].open = @ \cup {"client"}]
      <3>1. PICK r : r = [p EXCEPT !.pc = "parse", !.open = @ \cup {"client"}] /\ pod' = [pod EXCEPT ![e] = r]
        BY <2>2
      <3>2. Fits(e, r)
        BY <1>0, <2>1, <3>1 DEF Fits, PodStates, Steps, Objects
      <3> QED
        BY <1>1, <2>1, <3>1, <3>2 DEF Moves
    <2>3. "shutdown" \in Steps
      BY DEF Steps
    <2> QED
      BY <1>1, <1>3, <1>8, <2>1, <2>2, <2>3 DEF Adapt
  <1>9. CASE Prepare(e)
    <2>1. p.pc = "prepare" /\ UNCHANGED <<dask, up>>
      BY <1>9 DEF Prepare
    <2>2. ASSUME NEW gs \in Seq(Seq(Nodes)), pod' = [pod EXCEPT ![e].pc = "run", ![e].todo = gs]
          PROVE  Moves(e)
      <3>1. PICK r : r = [p EXCEPT !.pc = "run", !.todo = gs] /\ pod' = [pod EXCEPT ![e] = r]
        BY <2>2
      <3>2. Fits(e, r)
        BY <1>0, <2>1, <3>1 DEF Fits, PodStates, Steps
      <3> QED
        BY <3>1, <3>2 DEF Moves
    <2>3. p.graph \in Seq(Nodes)
      BY <1>0 DEF PodStates
    <2>4. /\ <<p.graph>> \in Seq(Seq(Nodes))
          /\ \A box \in pg_bounding_boxes(p.graph) :
               box \in Extents => prepare_graphs(box, p.graph) \in Seq(Seq(Nodes))
      BY <2>3, PodGraph, PrepareType
    <2> QED
      BY <1>1, <1>4, <1>9, <2>1, <2>2, <2>4 DEF Prepare
  <1>10. CASE Run(e)
    <2>1. p.pc = "run" /\ p.todo # <<>> /\ UNCHANGED <<dask, up>>
      BY <1>10 DEF Run
    <2>2. PICK r : /\ r = [p EXCEPT !.todo = Tail(@), !.loaded = Append(@, Loads(Head(p.todo)))]
                   /\ pod' = [pod EXCEPT ![e] = r]
      BY <1>10 DEF Run
    <2>3. /\ p.todo \in Seq(Seq(Nodes)) /\ p.loaded \in Seq(SUBSET (Extents \cup {Partial, Null, None}))
      BY <1>0 DEF PodStates
    <2>4. Head(p.todo) \in Seq(Nodes) /\ Tail(p.todo) \in Seq(Seq(Nodes))
      BY <2>1, <2>3
    <2>5. Append(p.loaded, Loads(Head(p.todo))) \in Seq(SUBSET (Extents \cup {Partial, Null, None}))
      <3>1. PICK l \in SUBSET (Extents \cup {Partial, Null, None}) : l = Loads(Head(p.todo))
        BY <2>4, LoadsType
      <3> QED
        BY <2>3, <3>1
    <2>6. Fits(e, r)
      <3>1. PICK todo, loaded : /\ todo = Tail(p.todo) /\ loaded = Append(p.loaded, Loads(Head(p.todo)))
                                /\ todo \in Seq(Seq(Nodes))
                                /\ loaded \in Seq(SUBSET (Extents \cup {Partial, Null, None}))
        BY <2>4, <2>5
      <3>2. r = [p EXCEPT !.todo = todo, !.loaded = loaded]
        BY <2>2, <3>1
      <3> QED
        BY <1>0, <2>1, <3>1, <3>2 DEF Fits, PodStates
    <2> QED
      BY <1>1, <2>1, <2>2, <2>6 DEF Moves
  <1>11. CASE RunRaises(e)
    <2>1. p.pc = "run" /\ UNCHANGED <<dask, up>> /\ "teardown" \in Steps
      BY <1>11 DEF RunRaises, Steps
    <2> QED
      BY <1>1, <1>3, <1>4, <1>11, <2>1 DEF RunRaises
  <1>12. CASE RunHangs(e)
    <2>1. p.pc = "run" /\ "hang" \in Faults[e] /\ UNCHANGED <<dask, up>>
      BY <1>12 DEF RunHangs
    <2>2. PICK r : r = [p EXCEPT !.pc = "hung", !.past = @ \cup {"hang"}] /\ pod' = [pod EXCEPT ![e] = r]
      BY <1>12 DEF RunHangs
    <2>3. Fits(e, r)
      BY <1>0, <2>1, <2>2 DEF Fits, PodStates, FaultSet
    <2> QED
      BY <1>1, <2>1, <2>2, <2>3 DEF Moves
  <1>13. CASE ReplaceCluster(e)
    <2>1. p.pc = "run" /\ "closed" \in Faults[e] /\ dask' = dask /\ up' \subseteq Clusters
      BY <1>1, <1>13 DEF ReplaceCluster
    <2>2. PICK r : r = [p EXCEPT !.past = @ \cup {"closed"}] /\ pod' = [pod EXCEPT ![e] = r]
      BY <1>13 DEF ReplaceCluster
    <2>3. Fits(e, r)
      BY <1>0, <2>1, <2>2 DEF Fits, PodStates, FaultSet
    <2> QED
      BY <2>1, <2>2, <2>3 DEF Moves
  <1>14. CASE Teardown(e)
    <2>1. p.pc = "teardown" /\ dask' = dask /\ up' \subseteq Clusters /\ "close" \in Steps
      BY <1>1, <1>14 DEF Teardown, Steps
    <2>2. ASSUME NEW k \in Visible(e), pod' = [pod EXCEPT ![e].pc = "connect", ![e].pick = k]
          PROVE  Moves(e)
      <3>1. PICK r : r = [p EXCEPT !.pc = "connect", !.pick = k] /\ pod' = [pod EXCEPT ![e] = r]
        BY <2>2
      <3>2. k \in Clusters /\ k # None
        BY <1>1 DEF Visible, OwnClusters
      <3>3. Fits(e, r)
        BY <1>0, <3>1, <3>2 DEF Fits, PodStates, Steps
      <3> QED
        BY <3>1, <3>3 DEF Moves
    <2> QED
      BY <1>2, <1>14, <2>1, <2>2 DEF Teardown
  <1>15. CASE TeardownFails(e)
    <2>1. "gateway" \in Faults[e] /\ UNCHANGED <<dask, up>>
      BY <1>15 DEF TeardownFails
    <2>2. PICK r : /\ r = [p EXCEPT !.pc = "close", !.pick = None, !.past = @ \cup {"gateway"}]
                   /\ pod' = [pod EXCEPT ![e] = r]
      BY <1>15 DEF TeardownFails
    <2>3. Fits(e, r)
      BY <1>0, <2>1, <2>2 DEF Fits, PodStates, FaultSet, Steps
    <2> QED
      BY <1>1, <2>1, <2>2, <2>3 DEF Moves
  <1>16. CASE Connect(e)
    <2>1. PICK r : r = [p EXCEPT !.pc = "close", !.pick = None] /\ pod' = [pod EXCEPT ![e] = r]
      BY <1>16 DEF Connect
    <2>2. Fits(e, r)
      BY <1>0, <2>1 DEF Fits, PodStates, Steps
    <2>3. dask' = dask /\ up' \subseteq Clusters
      BY <1>1, <1>16 DEF Connect
    <2> QED
      BY <2>1, <2>2, <2>3 DEF Moves
  <1>17. CASE CloseDask(e)
    <2>1. p.pc = "close" /\ UNCHANGED <<dask, up>>
      BY <1>17 DEF CloseDask
    <2>2. PICK left \in SUBSET p.open :
            /\ left # {} => "close" \in Faults[e]
            /\ pod' = [pod EXCEPT ![e].open = left,
                                  ![e].pc = IF p.exc THEN "shutdown" ELSE "publish",
                                  ![e].past = IF left = {} THEN @ ELSE @ \cup {"close"}]
      BY <1>17 DEF CloseDask
    <2>3. PICK s, past : /\ s = IF p.exc THEN "shutdown" ELSE "publish"
                         /\ past = IF left = {} THEN p.past ELSE p.past \cup {"close"}
      OBVIOUS
    <2>4. PICK r : r = [p EXCEPT !.open = left, !.pc = s, !.past = past] /\ pod' = [pod EXCEPT ![e] = r]
      BY <2>2, <2>3
    <2>5. /\ past \in SUBSET FaultSet /\ p.past \subseteq past /\ left \in SUBSET Objects
          /\ s \in {"shutdown", "publish"}
      BY <1>0, <2>2, <2>3 DEF PodStates, FaultSet
    <2>6. Fits(e, r)
      <3>1. r \in PodStates
        BY <1>0, <2>4, <2>5 DEF PodStates, FaultSet, Steps
      <3>2. r.pc = s /\ r.pick = p.pick /\ r.graph = p.graph /\ r.past = past
        BY <1>0, <2>4 DEF PodStates
      <3> QED
        BY <1>0, <2>1, <2>5, <3>1, <3>2 DEF Fits
    <2> QED
      BY <1>1, <2>1, <2>4, <2>6 DEF Moves
  <1>18. CASE Killed(e)
    <2>1. PICK r : r = [p EXCEPT !.pc = "killed", !.pick = None] /\ pod' = [pod EXCEPT ![e] = r]
      BY <1>18 DEF Killed
    <2>2. Fits(e, r)
      BY <1>0, <2>1 DEF Fits, PodStates, Endings
    <2> QED
      BY <1>1, <1>18, <2>1, <2>2 DEF Killed, Moves
  <1> QED
    BY <1>5, <1>6, <1>7, <1>8, <1>9, <1>10, <1>11, <1>12, <1>13, <1>14, <1>15, <1>16, <1>17, <1>18
       DEF PodStep

\* The idle time-out is one of the faults a pod's cluster may have.
LEMMA IdleMoves ==
  ASSUME TypeOK, NEW k \in Clusters, IdleTimeout(k)
  PROVE  /\ k[1] \in Pods /\ dask' = dask /\ up' = up \ {k} /\ k \in up
         /\ \/ pod' = pod /\ Ended(k[1])
            \/ /\ Fits(k[1], [pod[k[1]] EXCEPT !.past = @ \cup {"closed"}])
               /\ pod' = [pod EXCEPT ![k[1]] = [pod[k[1]] EXCEPT !.past = @ \cup {"closed"}]]
  <1>1. k[1] \in Pods /\ dask' = dask /\ up' = up \ {k} /\ k \in up
    BY DEF IdleTimeout, Clusters
  <1>2. PICK p, r : p = pod[k[1]] /\ r = [p EXCEPT !.past = @ \cup {"closed"}]
    OBVIOUS
  <1>3. p \in PodStates /\ (p.pc = "connect" <=> p.pick # None)
    BY <1>1, <1>2 DEF TypeOK
  <1>4. CASE Ended(k[1])
    BY <1>1, <1>4 DEF IdleTimeout
  <1>5. CASE ~Ended(k[1])
    <2>1. pod' = [pod EXCEPT ![k[1]] = r] /\ "closed" \in FaultSet
      BY <1>1, <1>2, <1>5 DEF IdleTimeout, FaultSet
    <2>2. r \in PodStates
      BY <1>2, <1>3, <2>1 DEF PodStates, FaultSet
    <2>3. r.pc = p.pc /\ r.pick = p.pick /\ r.graph = p.graph /\ r.past = p.past \cup {"closed"}
      BY <1>2, <1>3 DEF PodStates
    <2>4. Fits(k[1], r)
      BY <1>2, <1>3, <2>2, <2>3 DEF Fits
    <2> QED
      BY <1>1, <1>2, <2>1, <2>4
  <1> QED
    BY <1>4, <1>5

\* A step is a step of one pod, the end of an idle cluster, or none.
LEMMA NextMoves ==
  ASSUME TypeOK, [Next]_vars
  PROVE  /\ TypeOK' /\ dask' = dask
         /\ \A f \in Pods : pod'[f].graph = pod[f].graph /\ pod[f].past \subseteq pod'[f].past
  <1> DEFINE Goal == /\ TypeOK' /\ dask' = dask
                     /\ \A f \in Pods : /\ pod'[f].graph = pod[f].graph
                                        /\ pod[f].past \subseteq pod'[f].past
  <1>0. /\ pod \in [Pods -> PodStates] /\ dask \in {"LOCAL", "own", "all"} /\ up \subseteq Clusters
        /\ \A f \in Pods : pod[f].pc = "connect" <=> pod[f].pick # None
        /\ \A f \in Pods : pod[f].graph \in Graphs[f]
    BY DEF TypeOK
  <1>1. ASSUME NEW e \in Pods, Moves(e), dask' = dask, up' \subseteq Clusters PROVE Goal
    <2>1. PICK r : Fits(e, r) /\ pod' = [pod EXCEPT ![e] = r]
      BY <1>1 DEF Moves
    <2>2. pod' \in [Pods -> PodStates] /\ pod'[e] = r /\ \A f \in Pods \ {e} : pod'[f] = pod[f]
      BY <1>0, <2>1 DEF Fits
    <2> QED
      BY <1>0, <1>1, <2>1, <2>2 DEF Fits, TypeOK
  <1>2. ASSUME NEW e \in Pods,
               \/ PodStep(e) \/ RunHangs(e) \/ ReplaceCluster(e) \/ TeardownFails(e) \/ Killed(e)
        PROVE  Goal
    BY <1>1, <1>2, StepMoves
  <1>3. ASSUME UNCHANGED pod, dask' = dask, up' \subseteq Clusters PROVE Goal
    BY <1>0, <1>3 DEF TypeOK
  <1>4. ASSUME NEW k \in Clusters, IdleTimeout(k) PROVE Goal
    <2>1. \/ pod' = pod
          \/ Moves(k[1])
      BY <1>4, IdleMoves DEF Moves
    <2>2. k[1] \in Pods /\ dask' = dask /\ up' \subseteq Clusters
      BY <1>0, <1>4, IdleMoves
    <2> QED
      BY <1>1, <1>3, <2>1, <2>2
  <1>5. CASE UNCHANGED vars
    BY <1>0, <1>3, <1>5 DEF vars
  <1> QED
    BY <1>2, <1>4, <1>5 DEF Next

-----------------------------------------------------------------------------
(* How the process ends *)

\* What going on, and raising, change.
LEMMA GoneOn ==
  ASSUME TypeOK, NEW e \in Pods, NEW s, Goto(e, s)
  PROVE  /\ pod'[e].pc = s /\ pod'[e].exc = pod[e].exc /\ pod'[e].open = pod[e].open
         /\ pod'[e].past = pod[e].past /\ pod'[e].graph = pod[e].graph /\ pod'[e].todo = pod[e].todo
         /\ pod'[e].loaded = pod[e].loaded
         /\ \A f \in Pods \ {e} : pod'[f] = pod[f]
  BY DEF TypeOK, Goto, PodStates

LEMMA Raised ==
  ASSUME TypeOK, NEW e \in Pods, NEW f, NEW s, Raise(e, f, s)
  PROVE  /\ pod'[e].pc = s /\ pod'[e].exc = TRUE /\ pod'[e].open = pod[e].open
         /\ pod'[e].past = pod[e].past \cup {f} /\ pod'[e].graph = pod[e].graph
         /\ \A g \in Pods \ {e} : pod'[g] = pod[g]
  BY DEF TypeOK, Raise, PodStates

\* The steps of a pod that lead out of the computation or past it keep Ends.
LEMMA EndsStep ==
  ASSUME TypeOK, NEW e \in Pods, Ends(pod[e]),
         \/ PodStep(e) \/ RunHangs(e) \/ ReplaceCluster(e) \/ TeardownFails(e) \/ Killed(e)
  PROVE  Ends(pod'[e])
  <1>0. pod \in [Pods -> PodStates] /\ pod[e] \in PodStates
    BY DEF TypeOK
  <1>a. ASSUME Raise(e, "setup", "shutdown") PROVE Ends(pod'[e])
    <2>1. pod'[e].pc = "shutdown" /\ pod'[e].exc = TRUE /\ "setup" \in pod'[e].past
      BY <1>a, Raised
    <2> QED
      BY <2>1 DEF Ends
  <1>1. CASE SkipCluster(e)
    BY <1>0, <1>1 DEF SkipCluster, Goto, Ends, PodStates
  <1>2. CASE OpenLocal(e)
    <2>1. \/ pod'[e].pc = "parse"
          \/ pod'[e].pc = "shutdown" /\ pod'[e].exc /\ "setup" \in pod'[e].past
      BY <1>0, <1>2 DEF OpenLocal, PodStates
    <2> QED
      BY <2>1 DEF Ends
  <1>3. CASE NewCluster(e)
    <2>1. \/ pod'[e].pc = "adapt"
          \/ pod'[e].pc = "shutdown" /\ pod'[e].exc /\ "setup" \in pod'[e].past
      BY <1>0, <1>3 DEF NewCluster, PodStates
    <2> QED
      BY <2>1 DEF Ends
  <1>4. CASE Adapt(e)
    <2>1. CASE pod' = [pod EXCEPT ![e].pc = "parse", ![e].open = @ \cup {"client"}]
      BY <1>0, <2>1 DEF Ends, PodStates
    <2> QED
      BY <1>4, <1>a, <2>1 DEF Adapt
  <1>5. CASE Parse(e)
    <2>1. CASE Goto(e, "prepare")
      BY <2>1, GoneOn DEF Ends
    <2> QED
      BY <1>5, <1>a, <2>1 DEF Parse
  <1>6. CASE Prepare(e)
    BY <1>0, <1>6 DEF Prepare, Ends, PodStates
  <1>7. CASE Run(e)
    BY <1>0, <1>7 DEF Run, Ends, PodStates
  <1>8. CASE RunRaises(e)
    BY <1>0, <1>8 DEF RunRaises, Raise, Ends, PodStates
  <1>9. CASE AllRun(e)
    BY <1>0, <1>9 DEF AllRun, Goto, Ends, PodStates
  <1>10. CASE Teardown(e)
    BY <1>0, <1>10 DEF Teardown, Goto, Ends, PodStates
  <1>11. CASE Connect(e)
    BY <1>0, <1>11 DEF Connect, Ends, PodStates
  <1>12. CASE CloseDask(e)
    <2>1. PICK left \in SUBSET pod[e].open :
            pod' = [pod EXCEPT ![e].open = left,
                               ![e].pc = IF pod[e].exc THEN "shutdown" ELSE "publish",
                               ![e].past = IF left = {} THEN @ ELSE @ \cup {"close"}]
      BY <1>12 DEF CloseDask
    <2>2. /\ pod'[e].pc = IF pod[e].exc THEN "shutdown" ELSE "publish"
          /\ pod'[e].exc = pod[e].exc /\ pod'[e].open = left
      BY <1>0, <2>1 DEF PodStates
    <2>3. ASSUME left # {} PROVE "close" \in pod'[e].past
      <3>1. pod'[e].past = IF left = {} THEN pod[e].past ELSE pod[e].past \cup {"close"}
        BY <1>0, <2>1 DEF PodStates
      <3> QED
        BY <2>3, <3>1
    <2> QED
      BY <2>2, <2>3 DEF Ends
  <1>13. CASE Publish(e)
    <2>1. pod[e].pc = "publish"
      BY <1>13 DEF Publish
    <2>2. CASE Goto(e, "exit")
      BY <2>1, <2>2, GoneOn DEF Ends
    <2>3. CASE Raise(e, "raise", "shutdown")
      <3>1. /\ pod'[e].pc = "shutdown" /\ pod'[e].exc = TRUE /\ pod'[e].open = pod[e].open
            /\ pod[e].past \subseteq pod'[e].past
        BY <2>3, Raised
      <3> QED
        BY <2>1, <3>1 DEF Ends
    <2> QED
      BY <1>13, <2>2, <2>3 DEF Publish
  <1>14. CASE Exit(e)
    BY <1>0, <1>14 DEF Exit, Goto, Ends, PodStates
  <1>15. CASE Shutdown(e)
    BY <1>15, GoneOn DEF Shutdown, Ends
  <1>16. CASE RunHangs(e)
    BY <1>0, <1>16 DEF RunHangs, Ends, PodStates
  <1>17. CASE ReplaceCluster(e)
    BY <1>0, <1>17 DEF ReplaceCluster, Ends, PodStates
  <1>18. CASE TeardownFails(e)
    BY <1>0, <1>18 DEF TeardownFails, Ends, PodStates
  <1>19. CASE Killed(e)
    BY <1>0, <1>19 DEF Killed, Ends, PodStates
  <1> QED
    BY <1>1, <1>2, <1>3, <1>4, <1>5, <1>6, <1>7, <1>8, <1>9, <1>10, <1>11, <1>12, <1>13, <1>14,
       <1>15, <1>16, <1>17, <1>18, <1>19 DEF PodStep

\* What a pod that is not in these steps has noted only gets more.
LEMMA EndsIdle ==
  ASSUME TypeOK, NEW e \in Pods, Ends(pod[e]),
         pod'[e] = pod[e] \/ pod'[e] = [pod[e] EXCEPT !.past = @ \cup {"closed"}]
  PROVE  Ends(pod'[e])
  <1>1. /\ pod'[e].pc = pod[e].pc /\ pod'[e].exc = pod[e].exc /\ pod'[e].open = pod[e].open
        /\ pod[e].past \subseteq pod'[e].past
    BY DEF TypeOK, PodStates
  <1>2. pod[e].past \cap {"setup", "close"} \subseteq pod'[e].past \cap {"setup", "close"}
    BY <1>1
  <1> QED
    BY <1>1, <1>2 DEF Ends

\* The invariant of one pod's record is kept by all, when the pod's own steps and the
\* time-out of its cluster keep it.
LEMMA EndsKept ==
  ASSUME TypeOK, [Next]_vars, EndsInv
  PROVE  EndsInv'
  <1>0. pod \in [Pods -> PodStates]
    BY DEF TypeOK
  <1>1. ASSUME NEW e \in Pods,
               \/ PodStep(e) \/ RunHangs(e) \/ ReplaceCluster(e) \/ TeardownFails(e) \/ Killed(e)
        PROVE  EndsInv'
    <2>1. \A f \in Pods \ {e} : pod'[f] = pod[f]
      BY <1>0, <1>1, StepMoves DEF Moves
    <2>2. Ends(pod'[e])
      BY <1>1, EndsStep DEF EndsInv
    <2> QED
      BY <2>1, <2>2 DEF EndsInv
  <1>2. ASSUME NEW k \in Clusters, IdleTimeout(k) PROVE EndsInv'
    <2>1. \A f \in Pods : pod'[f] = pod[f] \/ pod'[f] = [pod[f] EXCEPT !.past = @ \cup {"closed"}]
      BY <1>0, <1>2, IdleMoves
    <2> QED
      BY <2>1, EndsIdle DEF EndsInv
  <1>3. CASE UNCHANGED vars
    BY <1>3 DEF vars, EndsInv
  <1> QED
    BY <1>1, <1>2, <1>3 DEF Next

-----------------------------------------------------------------------------
(* The clusters *)

\* What the time-out of a cluster changes.
LEMMA IdleFields ==
  ASSUME TypeOK, NEW k \in Clusters, IdleTimeout(k)
  PROVE  /\ \A f \in Pods : /\ pod'[f].pc = pod[f].pc /\ pod'[f].exc = pod[f].exc
                            /\ pod'[f].pick = pod[f].pick /\ pod'[f].graph = pod[f].graph
                            /\ pod'[f].todo = pod[f].todo /\ pod'[f].loaded = pod[f].loaded
         /\ ~Ended(k[1]) => "closed" \in pod'[k[1]].past
  <1>1. pod \in [Pods -> PodStates] /\ k[1] \in Pods
    BY IdleMoves DEF TypeOK
  <1>2. CASE Ended(k[1])
    BY <1>2, IdleMoves DEF IdleTimeout
  <1>3. CASE ~Ended(k[1])
    BY <1>1, <1>3 DEF IdleTimeout, PodStates
  <1> QED
    BY <1>2, <1>3

\* A pod has at most two clusters of its own.
LEMMA OwnPair ==
  ASSUME up \subseteq Clusters, NEW e \in Pods
  PROVE  OwnClusters(e) = {} <=> <<e, 1>> \notin up /\ <<e, 2>> \notin up
  BY DEF OwnClusters, Clusters

\* A pod that stays where it is keeps its part of the invariant, when its clusters only go
\* for a reason.
LEMMA ClustersKept ==
  ASSUME TypeOK, TypeOK', dask' = dask, NEW f \in Pods, ClustersOf(f), LossOf(f), ClearedOf(f),
         pod'[f].pc = pod[f].pc, pod'[f].pick = pod[f].pick, pod'[f].graph = pod[f].graph,
         \A g \in Pods : pod[g].past \subseteq pod'[g].past,
         \A i \in {1, 2} : <<f, i>> \in up' => <<f, i>> \in up,
         <<f, 1>> \in up \ up' => pod[f].pc \in {"close", "publish", "exit", "shutdown", "hung", "wedged"}
                                                 \cup Endings \/ Lost(f)'
  PROVE  (ClustersOf(f) /\ LossOf(f) /\ ClearedOf(f))'
  <1>1. OwnClusters(f) = {} => OwnClusters(f)' = {}
    BY OwnPair DEF TypeOK, OwnClusters, Clusters
  <1>2. UsesGateway(f)' <=> UsesGateway(f)
    BY DEF UsesGateway
  <1>3. Lost(f) => Lost(f)'
    BY DEF Lost, Somebody
  <1>4. ClustersOf(f)'
    BY <1>1, <1>2 DEF ClustersOf
  <1>5. LossOf(f)'
    BY <1>2, <1>3 DEF LossOf, Endings
  <1>6. pod[f].past \cap {"setup", "gateway"} \subseteq pod'[f].past \cap {"setup", "gateway"}
    OBVIOUS
  <1>7. Cleared(f) => Cleared(f)'
    BY <1>1, <1>6 DEF Cleared
  <1> QED
    BY <1>4, <1>5, <1>7 DEF ClearedOf

\* A step of a pod that leaves the clusters alone: it computes only if it did so before or
\* has no cluster, and leaves only from the finally or by a failure outside of it.
Computing == {"adapt", "parse", "prepare", "run", "teardown"}
Leaving   == {"close", "publish", "exit", "exited", "shutdown", "failed"}
Quiet(e)  ==
  /\ up' = up
  /\ pod'[e].pc \notin {"start", "connect"}
  /\ pod'[e].pc \in Computing => pod[e].pc \in Computing \/ ~UsesGateway(e)
  /\ pod'[e].pc \in Leaving => \/ pod[e].pc \in Leaving
                               \/ "setup" \in pod'[e].past \/ "gateway" \in pod'[e].past

\* Those steps.
LEMMA QuietSteps ==
  ASSUME TypeOK, NEW e \in Pods,
         \/ SkipCluster(e) \/ OpenLocal(e) \/ Adapt(e) \/ Parse(e) \/ Prepare(e) \/ Run(e)
         \/ RunRaises(e) \/ RunHangs(e) \/ AllRun(e) \/ TeardownFails(e) \/ CloseDask(e)
         \/ Publish(e) \/ Exit(e) \/ Shutdown(e) \/ Killed(e)
  PROVE  Quiet(e)
  <1>0. pod \in [Pods -> PodStates] /\ pod[e] \in PodStates
    BY DEF TypeOK
  <1> USE DEF Computing, Leaving
  <1>a. ASSUME NEW f, NEW s, Raise(e, f, s) PROVE pod'[e].pc = s /\ f \in pod'[e].past
    BY <1>a, Raised
  <1>1. CASE SkipCluster(e)
    BY <1>1, GoneOn DEF SkipCluster, UsesGateway, Quiet
  <1>2. CASE OpenLocal(e)
    <2>1. \/ pod'[e].pc = "parse"
          \/ pod'[e].pc = "shutdown" /\ "setup" \in pod'[e].past
      BY <1>0, <1>2 DEF OpenLocal, PodStates
    <2> QED
      BY <1>2, <2>1 DEF OpenLocal, UsesGateway, Quiet
  <1>3. CASE Adapt(e)
    <2>1. \/ pod'[e].pc = "parse"
          \/ pod'[e].pc = "shutdown" /\ "setup" \in pod'[e].past
      <3>1. CASE pod' = [pod EXCEPT ![e].pc = "parse", ![e].open = @ \cup {"client"}]
        BY <1>0, <3>1 DEF PodStates
      <3> QED
        BY <1>3, <1>a, <3>1 DEF Adapt
    <2> QED
      BY <1>3, <2>1 DEF Adapt, Quiet
  <1>4. CASE Parse(e)
    <2>1. \/ pod'[e].pc = "prepare"
          \/ pod'[e].pc = "shutdown" /\ "setup" \in pod'[e].past
      <3>1. Goto(e, "prepare") \/ Raise(e, "setup", "shutdown")
        BY <1>4 DEF Parse
      <3> QED
        BY <1>a, <3>1, GoneOn
    <2> QED
      BY <1>4, <2>1 DEF Parse, Quiet
  <1>5. CASE Prepare(e)
    <2>1. pod'[e].pc \in {"run", "teardown"}
      BY <1>0, <1>5 DEF Prepare, PodStates
    <2> QED
      BY <1>5, <2>1 DEF Prepare, Quiet
  <1>6. CASE Run(e)
    <2>1. pod'[e].pc = "run"
      BY <1>0, <1>6 DEF Run, PodStates
    <2> QED
      BY <1>6, <2>1 DEF Run, Quiet
  <1>7. CASE RunRaises(e)
    <2>1. pod'[e].pc = "teardown"
      <3>1. CASE pod' = [pod EXCEPT ![e].pc = "teardown", ![e].exc = TRUE]
        BY <1>0, <3>1 DEF PodStates
      <3> QED
        BY <1>7, <1>a, <3>1 DEF RunRaises
    <2> QED
      BY <1>7, <2>1 DEF RunRaises, Quiet
  <1>8. CASE RunHangs(e)
    <2>1. pod'[e].pc = "hung"
      BY <1>0, <1>8 DEF RunHangs, PodStates
    <2> QED
      BY <1>8, <2>1 DEF RunHangs, Quiet
  <1>9. CASE AllRun(e)
    BY <1>9, GoneOn DEF AllRun, Quiet
  <1>10. CASE TeardownFails(e)
    <2>1. pod'[e].pc = "close" /\ "gateway" \in pod'[e].past
      BY <1>0, <1>10 DEF TeardownFails, PodStates
    <2> QED
      BY <1>10, <2>1 DEF TeardownFails, Quiet
  <1>11. CASE CloseDask(e)
    <2>1. pod'[e].pc \in {"shutdown", "publish"}
      <3>1. PICK left \in SUBSET pod[e].open :
              pod' = [pod EXCEPT ![e].open = left,
                                 ![e].pc = IF pod[e].exc THEN "shutdown" ELSE "publish",
                                 ![e].past = IF left = {} THEN @ ELSE @ \cup {"close"}]
        BY <1>11 DEF CloseDask
      <3>2. pod'[e].pc = IF pod[e].exc THEN "shutdown" ELSE "publish"
        BY <1>0, <3>1 DEF PodStates
      <3> QED
        BY <3>2
    <2> QED
      BY <1>11, <2>1 DEF CloseDask, Quiet
  <1>12. CASE Publish(e)
    <2>1. pod'[e].pc \in {"exit", "shutdown"}
      <3>1. Goto(e, "exit") \/ Raise(e, "raise", "shutdown")
        BY <1>12 DEF Publish
      <3> QED
        BY <1>a, <3>1, GoneOn
    <2> QED
      BY <1>12, <2>1 DEF Publish, Quiet
  <1>13. CASE Exit(e)
    BY <1>13, GoneOn DEF Exit, Quiet
  <1>14. CASE Shutdown(e)
    BY <1>14, GoneOn DEF Shutdown, Quiet
  <1>15. CASE Killed(e)
    <2>1. pod'[e].pc = "killed"
      BY <1>0, <1>15 DEF Killed, PodStates
    <2> QED
      BY <1>15, <2>1 DEF Killed, Quiet
  <1> QED
    BY <1>1, <1>2, <1>3, <1>4, <1>5, <1>6, <1>7, <1>8, <1>9, <1>10, <1>11, <1>12, <1>13, <1>14, <1>15

\* A pod's steps keep its part of the invariant; and another pod loses its cluster through
\* them only to one that lost its own.
LEMMA ClustersStep ==
  ASSUME TypeOK, TypeOK', dask' = dask, NEW e \in Pods,
         ClustersOf(e), LossOf(e), ClearedOf(e),
         pod'[e].graph = pod[e].graph, \A g \in Pods : pod[g].past \subseteq pod'[g].past,
         PodStep(e) \/ RunHangs(e) \/ ReplaceCluster(e) \/ TeardownFails(e) \/ Killed(e)
  PROVE  /\ (ClustersOf(e) /\ LossOf(e) /\ ClearedOf(e))'
         /\ \A f \in Pods \ {e} : /\ \A i \in {1, 2} : <<f, i>> \in up' => <<f, i>> \in up
                                  /\ <<f, 1>> \in up \ up' => Lost(f)'
  <1> DEFINE Kept == (ClustersOf(e) /\ LossOf(e) /\ ClearedOf(e))'
             Spares == \A f \in Pods \ {e} : /\ \A i \in {1, 2} : <<f, i>> \in up' => <<f, i>> \in up
                                             /\ <<f, 1>> \in up \ up' => Lost(f)'
  <1>0. /\ pod \in [Pods -> PodStates] /\ pod[e] \in PodStates
        /\ up \subseteq Clusters /\ up' \subseteq Clusters
        /\ dask \in {"LOCAL", "own", "all"}
    BY DEF TypeOK
  <1>1. UsesGateway(e)' <=> UsesGateway(e)
    BY DEF UsesGateway
  <1>2. Lost(e) => Lost(e)'
    BY DEF Lost, Somebody
  <1>3. (OwnClusters(e) = {} <=> <<e, 1>> \notin up /\ <<e, 2>> \notin up)
    BY <1>0, OwnPair
  <1>4. (OwnClusters(e)' = {} <=> <<e, 1>> \notin up' /\ <<e, 2>> \notin up')
    BY <1>0 DEF OwnClusters, Clusters
  <1>5. ASSUME Quiet(e) PROVE Kept /\ Spares
    <2>1. ClustersOf(e)'
      BY <1>1, <1>3, <1>4, <1>5 DEF ClustersOf, Quiet
    <2>2. LossOf(e)'
      <3>1. CASE pod'[e].pc \in Computing /\ UsesGateway(e)
        <4>1. <<e, 1>> \in up \/ Lost(e)
          BY <1>5, <3>1 DEF LossOf, Quiet, Computing
        <4> QED
          BY <1>2, <1>5, <3>1, <4>1 DEF LossOf, Quiet, Computing
      <3> QED
        BY <1>1, <1>5, <3>1 DEF LossOf, Quiet, Computing
    <2>3. ClearedOf(e)'
      <3>1. CASE pod[e].pc \in Leaving
        <4>1. pod[e].past \cap {"setup", "gateway"} \subseteq pod'[e].past \cap {"setup", "gateway"}
          OBVIOUS
        <4> QED
          BY <1>3, <1>4, <1>5, <3>1, <4>1 DEF ClearedOf, Cleared, Quiet, Leaving
      <3>2. CASE "setup" \in pod'[e].past \/ "gateway" \in pod'[e].past
        BY <3>2 DEF ClearedOf, Cleared
      <3> QED
        BY <1>5, <3>1, <3>2 DEF ClearedOf, Quiet, Leaving
    <2> QED
      BY <1>5, <2>1, <2>2, <2>3 DEF Quiet
  <1>6. CASE NewCluster(e)
    <2>1. <<e, 1>> \notin up /\ <<e, 2>> \notin up /\ UsesGateway(e)
      BY <1>3, <1>6 DEF NewCluster, ClustersOf
    <2>2. up' \in {up, up \cup {<<e, 1>>}}
      BY <1>6 DEF NewCluster
    <2>3. \/ pod'[e].pc = "adapt" /\ <<e, 1>> \in up'
          \/ pod'[e].pc = "shutdown" /\ "setup" \in pod'[e].past
      BY <1>0, <1>6 DEF NewCluster, PodStates
    <2>4. Spares
      BY <2>2
    <2>5. ClustersOf(e)'
      BY <1>1, <2>1, <2>2, <2>3 DEF ClustersOf
    <2>6. LossOf(e)' /\ ClearedOf(e)'
      BY <2>3 DEF LossOf, ClearedOf, Cleared
    <2> QED
      BY <2>4, <2>5, <2>6
  <1>7. CASE ReplaceCluster(e)
    <2>1. /\ <<e, 1>> \in up /\ up' = (up \ {<<e, 1>>}) \cup {<<e, 2>>} /\ UsesGateway(e)
      BY <1>3, <1>7 DEF ReplaceCluster, ClustersOf
    <2>2. pod'[e].pc = "run" /\ "closed" \in pod'[e].past
      BY <1>0, <1>7 DEF ReplaceCluster, PodStates
    <2>3. Spares
      BY <2>1
    <2>4. ClustersOf(e)' /\ LossOf(e)' /\ ClearedOf(e)'
      BY <1>1, <2>1, <2>2 DEF ClustersOf, LossOf, ClearedOf, Lost
    <2> QED
      BY <2>3, <2>4
  <1>8. CASE Teardown(e)
    <2>1. pod[e].pc = "teardown"
      BY <1>8 DEF Teardown
    <2>2. CASE UsesGateway(e) /\ <<e, 1>> \notin up /\ Visible(e) # {}
      <3>1. PICK k \in Visible(e) : pod' = [pod EXCEPT ![e].pc = "connect", ![e].pick = k]
        BY <1>8, <2>2 DEF Teardown
      <3>2. up' = up
        BY <1>8, <2>2 DEF Teardown
      <3>3. pod'[e].pc = "connect" /\ pod'[e].pick = k /\ pod'[e].past = pod[e].past
        BY <1>0, <3>1 DEF PodStates
      <3>4. dask = "own" => k = <<e, 2>>
        BY <1>0, <2>2 DEF Visible, OwnClusters, Clusters
      <3>5. Lost(e)
        BY <2>1, <2>2 DEF LossOf
      <3>6. LossOf(e)'
        BY <1>1, <1>2, <2>2, <3>2, <3>3, <3>4, <3>5 DEF LossOf
      <3>7. ClustersOf(e)' /\ ClearedOf(e)'
        BY <1>1, <1>3, <1>4, <3>2, <3>3 DEF ClustersOf, ClearedOf
      <3> QED
        BY <3>2, <3>6, <3>7
    <2>3. CASE ~(UsesGateway(e) /\ <<e, 1>> \notin up /\ Visible(e) # {})
      <3>1. Goto(e, "close") /\ up' = up \ {<<e, 1>>}
        BY <1>8, <2>3 DEF Teardown
      <3>2. pod'[e].pc = "close" /\ pod'[e].past = pod[e].past
        BY <3>1, GoneOn
      <3>3. Visible(e) = {} => OwnClusters(e) = {}
        BY DEF Visible, OwnClusters
      <3>4. <<e, 1>> \notin up' /\ <<e, 2>> \notin up'
        BY <1>3, <2>3, <3>1, <3>3 DEF ClustersOf
      <3>5. ClustersOf(e)' /\ LossOf(e)' /\ ClearedOf(e)'
        BY <1>4, <3>2, <3>4 DEF ClustersOf, LossOf, ClearedOf, Cleared
      <3> QED
        BY <3>1, <3>5
    <2> QED
      BY <2>2, <2>3
  <1>9. CASE Connect(e)
    <2>1. /\ pod[e].pc = "connect" /\ up' = up \ {pod[e].pick}
          /\ UsesGateway(e) /\ <<e, 1>> \notin up /\ Lost(e)
          /\ dask = "own" => pod[e].pick = <<e, 2>>
      BY <1>9 DEF Connect, LossOf
    <2>2. pod'[e].pc = "close" /\ pod'[e].past = pod[e].past
      BY <1>0, <1>9 DEF Connect, PodStates
    <2>3. Spares
      <3>1. dask = "all" \/ pod[e].pick = <<e, 2>>
        BY <1>0, <2>1 DEF UsesGateway
      <3>2. ASSUME NEW f \in Pods, dask = "all" PROVE Lost(f)'
        BY <2>1, <2>2, <3>2 DEF Lost, Somebody
      <3> QED
        BY <2>1, <3>1, <3>2
    <2>4. ClustersOf(e)' /\ LossOf(e)'
      BY <1>1, <1>3, <1>4, <2>1, <2>2 DEF ClustersOf, LossOf
    <2>5. ClearedOf(e)'
      <3>1. CASE <<e, 2>> \in up'
        <4>1. dask # "own" /\ "closed" \in pod[e].past
          BY <2>1, <3>1 DEF ClustersOf
        <4> QED
          BY <2>2, <4>1 DEF ClearedOf, Cleared
      <3>2. CASE <<e, 2>> \notin up'
        BY <1>4, <2>1, <3>2 DEF ClearedOf, Cleared
      <3> QED
        BY <3>1, <3>2
    <2> QED
      BY <2>3, <2>4, <2>5
  <1> QED
    BY <1>5, <1>6, <1>7, <1>8, <1>9, QuietSteps DEF PodStep

\* All three are inductive together.
LEMMA ClustersStay ==
  ASSUME TypeOK, ClustersInv, LossInv, ClearedInv, [Next]_vars
  PROVE  (ClustersInv /\ LossInv /\ ClearedInv)'
  <1> DEFINE Part(f) == ClustersOf(f) /\ LossOf(f) /\ ClearedOf(f)
  <1>0. /\ TypeOK' /\ dask' = dask
        /\ \A f \in Pods : pod'[f].graph = pod[f].graph /\ pod[f].past \subseteq pod'[f].past
        /\ pod \in [Pods -> PodStates]
    BY NextMoves DEF TypeOK
  <1>1. \A f \in Pods : Part(f)
    BY DEF ClustersInv, LossInv, ClearedInv
  <1>2. ASSUME NEW e \in Pods,
               PodStep(e) \/ RunHangs(e) \/ ReplaceCluster(e) \/ TeardownFails(e) \/ Killed(e)
        PROVE  \A f \in Pods : Part(f)'
    <2>1. Part(e)'
      BY <1>0, <1>1, <1>2, ClustersStep
    <2>2. ASSUME NEW f \in Pods \ {e} PROVE Part(f)'
      <3>1. pod'[f] = pod[f]
        BY <1>0, <1>2, StepMoves DEF Moves
      <3>2. /\ \A i \in {1, 2} : <<f, i>> \in up' => <<f, i>> \in up
            /\ <<f, 1>> \in up \ up' => Lost(f)'
        BY <1>0, <1>1, <1>2, ClustersStep
      <3> QED
        BY <1>0, <1>1, <3>1, <3>2, ClustersKept
    <2> QED
      BY <2>1, <2>2
  <1>3. ASSUME NEW k \in Clusters, IdleTimeout(k), NEW f \in Pods PROVE Part(f)'
    <2>1. pod'[f].pc = pod[f].pc /\ pod'[f].pick = pod[f].pick
      BY <1>3, IdleFields
    <2>2. \A i \in {1, 2} : <<f, i>> \in up' => <<f, i>> \in up
      BY <1>3, IdleMoves
    <2>3. ASSUME <<f, 1>> \in up \ up', pod[f].pc \notin Endings PROVE Lost(f)'
      <3>1. up' = up \ {k}
        BY <1>3, IdleMoves
      <3>2. k = <<f, 1>>
        BY <2>3, <3>1
      <3>3. k[1] = f
        BY <3>2
      <3> QED
        BY <1>3, <2>3, <3>3, IdleFields DEF Ended, Lost
    <2> QED
      BY <1>0, <1>1, <2>1, <2>2, <2>3, ClustersKept
  <1>4. ASSUME UNCHANGED vars, NEW f \in Pods PROVE Part(f)'
    BY <1>1, <1>4 DEF vars, ClustersOf, LossOf, ClearedOf, UsesGateway, OwnClusters, Lost, Somebody, Cleared
  <1>5. \A f \in Pods : Part(f)'
    BY <1>2, <1>3, <1>4 DEF Next
  <1> QED
    BY <1>5 DEF ClustersInv, LossInv, ClearedInv

-----------------------------------------------------------------------------
(* Why a pod fails *)

Reason(e) ==
  \/ pod[e].past # {}
  \/ ~(pg_bounding_boxes(pod[e].graph) \subseteq Extents)
  \/ dask = "all" /\ \E f \in Pods \ {e} : "closed" \in pod[f].past

\* A reason stays one.
LEMMA ReasonStays ==
  ASSUME NEW e \in Pods, Reason(e), dask' = dask,
         \A f \in Pods : pod'[f].graph = pod[f].graph /\ pod[f].past \subseteq pod'[f].past
  PROVE  Reason(e)'
  BY DEF Reason

\* An exception is raised for a reason.
LEMMA RaisedForReason ==
  ASSUME TypeOK, NEW e \in Pods, LossOf(e), dask' = dask, pod'[e].exc, ~pod[e].exc,
         \A f \in Pods : pod'[f].graph = pod[f].graph /\ pod[f].past \subseteq pod'[f].past,
         PodStep(e) \/ RunHangs(e) \/ ReplaceCluster(e) \/ TeardownFails(e) \/ Killed(e)
  PROVE  Reason(e)'
  <1>0. pod \in [Pods -> PodStates] /\ pod[e] \in PodStates
    BY DEF TypeOK
  <1>a. ASSUME NEW f, NEW s, Raise(e, f, s) PROVE Reason(e)'
    BY <1>a, Raised DEF Reason
  <1>b. ASSUME NEW s, Goto(e, s) PROVE FALSE
    BY <1>b, GoneOn
  <1>1. CASE OpenLocal(e) \/ NewCluster(e)
    <2>1. CASE \E o : pod' = [pod EXCEPT ![e].pc = "shutdown", ![e].exc = TRUE, ![e].open = o,
                                         ![e].past = @ \cup {"setup"}]
      <3>1. "setup" \in pod'[e].past
        BY <1>0, <2>1 DEF PodStates
      <3> QED
        BY <3>1 DEF Reason
    <2>2. CASE \E s, o : pod' = [pod EXCEPT ![e].pc = s, ![e].open = o]
      BY <1>0, <2>2 DEF PodStates
    <2> QED
      BY <1>1, <2>1, <2>2 DEF OpenLocal, NewCluster
  <1>2. CASE Adapt(e)
    <2>1. CASE pod' = [pod EXCEPT ![e].pc = "parse", ![e].open = @ \cup {"client"}]
      BY <1>0, <2>1 DEF PodStates
    <2> QED
      BY <1>2, <1>a, <2>1 DEF Adapt
  <1>3. CASE SkipCluster(e) \/ Parse(e) \/ AllRun(e) \/ Publish(e) \/ Exit(e) \/ Shutdown(e)
    BY <1>3, <1>a, <1>b DEF SkipCluster, Parse, AllRun, Publish, Exit, Shutdown
  <1>4. CASE Prepare(e)
    <2>1. is_cwl_job(pod[e].graph) => pod'[e].exc = pod[e].exc
      BY <1>0, <1>4 DEF Prepare, PodStates
    <2>2. PICK box \in pg_bounding_boxes(pod[e].graph) :
            box \in Extents => pod' = [pod EXCEPT ![e].pc = "run", ![e].todo = prepare_graphs(box, pod[e].graph)]
      BY <1>4, <2>1 DEF Prepare
    <2>3. box \in Extents => pod'[e].exc = pod[e].exc
      BY <1>0, <2>2 DEF PodStates
    <2> QED
      BY <2>2, <2>3 DEF Reason
  <1>5. CASE RunRaises(e)
    <2>1. CASE Raise(e, "raise", "teardown")
      BY <1>a, <2>1
    <2>2. CASE ~HasDask(e)
      <3>1. UsesGateway(e) /\ <<e, 1>> \notin up /\ pod[e].pc = "run"
        BY <1>5, <2>2 DEF RunRaises, HasDask, OwnClusters
      <3>2. Lost(e)
        BY <3>1 DEF LossOf
      <3>3. Reason(e)
        BY <3>2 DEF Lost, Somebody, Reason
      <3> QED
        BY <3>3, ReasonStays
    <2> QED
      BY <1>5, <2>1, <2>2 DEF RunRaises
  <1>6. CASE \/ Run(e) \/ Connect(e) \/ RunHangs(e) \/ ReplaceCluster(e) \/ TeardownFails(e) \/ Killed(e)
    <2>1. CASE Run(e) \/ RunHangs(e) \/ ReplaceCluster(e)
      BY <1>0, <2>1 DEF Run, RunHangs, ReplaceCluster, PodStates
    <2>2. CASE Connect(e) \/ TeardownFails(e) \/ Killed(e)
      BY <1>0, <2>2 DEF Connect, TeardownFails, Killed, PodStates
    <2> QED
      BY <1>6, <2>1, <2>2
  <1>7. CASE Teardown(e)
    <2>1. CASE \E k : pod' = [pod EXCEPT ![e].pc = "connect", ![e].pick = k]
      BY <1>0, <2>1 DEF PodStates
    <2> QED
      BY <1>7, <1>b, <2>1 DEF Teardown
  <1>8. CASE CloseDask(e)
    <2>1. pod'[e].exc = pod[e].exc
      BY <1>0, <1>8 DEF CloseDask, PodStates
    <2> QED
      BY <2>1
  <1> QED
    BY <1>1, <1>2, <1>3, <1>4, <1>5, <1>6, <1>7, <1>8 DEF PodStep

LEMMA ReasonsKept ==
  ASSUME TypeOK, LossInv, FailsForItsOwnReasons, [Next]_vars
  PROVE  FailsForItsOwnReasons'
  <1>0. /\ dask' = dask /\ pod \in [Pods -> PodStates]
        /\ \A f \in Pods : pod'[f].graph = pod[f].graph /\ pod[f].past \subseteq pod'[f].past
    BY NextMoves DEF TypeOK
  <1>1. \A e \in Pods : pod[e].exc => Reason(e)
    BY DEF FailsForItsOwnReasons, Reason
  <1>2. ASSUME NEW e \in Pods, pod[e].exc PROVE Reason(e)'
    BY <1>0, <1>1, <1>2, ReasonStays
  <1>3. ASSUME NEW e \in Pods, pod'[e].exc, ~pod[e].exc PROVE Reason(e)'
    <2>1. CASE \E g \in Pods : \/ PodStep(g) \/ RunHangs(g) \/ ReplaceCluster(g) \/ TeardownFails(g)
                               \/ Killed(g)
      <3>1. PICK g \in Pods : \/ PodStep(g) \/ RunHangs(g) \/ ReplaceCluster(g) \/ TeardownFails(g)
                              \/ Killed(g)
        BY <2>1
      <3>2. g = e
        BY <1>0, <1>3, <3>1, StepMoves DEF Moves
      <3> QED
        BY <1>0, <1>3, <3>1, <3>2, RaisedForReason DEF LossInv
    <2>2. CASE \E k \in Clusters : IdleTimeout(k)
      BY <1>3, <2>2, IdleFields
    <2>3. CASE UNCHANGED vars
      BY <1>3, <2>3 DEF vars
    <2> QED
      BY <2>1, <2>2, <2>3 DEF Next
  <1>4. \A e \in Pods : pod'[e].exc => Reason(e)'
    BY <1>2, <1>3
  <1> QED
    BY <1>4 DEF FailsForItsOwnReasons, Reason

-----------------------------------------------------------------------------
(* The cells *)

\* Running one graph moves it from what is left to what is done.
LEMMA RunShifts ==
  ASSUME NEW p \in PodStates, NEW q, Computes(p), p.todo # <<>>, q.graph = p.graph,
         q.todo = Tail(p.todo), q.loaded = Append(p.loaded, Loads(Head(p.todo)))
  PROVE  Computes(q)
  <1> DEFINE gs == SubGraphsOf(p.graph)
             S  == SUBSET (Extents \cup {Partial, Null, None})
  <1>1. PICK done \in Seq(S) : done = p.loaded
    BY DEF PodStates
  <1>2. PICK todo \in Seq(Seq(Nodes)) : todo = p.todo
    BY DEF PodStates
  <1>3. /\ Len(done) + Len(todo) = Len(gs)
        /\ \A n \in DOMAIN done : done[n] = Loads(gs[n])
        /\ \A n \in DOMAIN todo : todo[n] = gs[Len(done) + n]
    BY <1>1, <1>2 DEF Computes
  <1>4. todo # <<>> /\ Head(todo) = todo[1] /\ Len(todo) \in Nat /\ Len(todo) > 0 /\ Len(done) \in Nat
        /\ Head(todo) \in Seq(Nodes)
    BY <1>1, <1>2
  <1>5. PICK l \in S : l = Loads(Head(todo))
    BY <1>1, <1>4, LoadsType
  <1>6. l = Loads(gs[Len(done) + 1])
    BY <1>3, <1>4, <1>5
  <1> HIDE DEF gs, S
  <1>7. /\ Len(Append(done, l)) = Len(done) + 1 /\ Len(Tail(todo)) = Len(todo) - 1
        /\ DOMAIN Append(done, l) = 1 .. Len(done) + 1 /\ DOMAIN Tail(todo) = 1 .. Len(todo) - 1
        /\ \A n \in 1 .. Len(done) : Append(done, l)[n] = done[n]
        /\ Append(done, l)[Len(done) + 1] = l
        /\ \A n \in 1 .. Len(todo) - 1 : Tail(todo)[n] = todo[n + 1]
    BY <1>1, <1>2, <1>4, <1>5
  <1>8. Len(Append(done, l)) + Len(Tail(todo)) = Len(gs)
    BY <1>3, <1>4, <1>7
  <1>9. ASSUME NEW n \in DOMAIN Append(done, l) PROVE Append(done, l)[n] = Loads(gs[n])
    <2>1. CASE n = Len(done) + 1
      BY <1>6, <1>7, <2>1
    <2>2. CASE n # Len(done) + 1
      <3>1. n \in 1 .. Len(done) /\ n \in DOMAIN done
        BY <1>1, <1>4, <1>7, <2>2
      <3> QED
        BY <1>3, <1>7, <3>1
    <2> QED
      BY <2>1, <2>2
  <1>10. ASSUME NEW n \in DOMAIN Tail(todo) PROVE Tail(todo)[n] = gs[Len(Append(done, l)) + n]
    <2>1. n \in 1 .. Len(todo) - 1 /\ n + 1 \in DOMAIN todo
      BY <1>2, <1>4, <1>7
    <2>2. Tail(todo)[n] = gs[Len(done) + (n + 1)]
      BY <1>3, <1>7, <2>1
    <2>3. Len(done) + (n + 1) = Len(Append(done, l)) + n
      BY <1>4, <1>7, <2>1
    <2> QED
      BY <2>2, <2>3
  <1> QED
    BY <1>1, <1>2, <1>5, <1>8, <1>9, <1>10 DEF Computes, gs

Early == {"start", "adapt", "parse", "prepare"}
Late  == {"run", "teardown", "connect", "close", "publish", "exit", "exited"}

\* A step that runs nothing.
LEMMA CellsStay ==
  ASSUME NEW p, NEW q, Cells(p),
         q.graph = p.graph /\ q.todo = p.todo /\ q.loaded = p.loaded /\ (q.exc \/ ~p.exc),
         q.pc \in Early => p.pc \in Early,
         q.pc \in Late => p.pc \in Late \/ is_cwl_job(p.graph),
         q.pc \in Late \ {"run"} => p.pc # "run" \/ p.todo = <<>>
  PROVE  Cells(q)
  <1>1. Computes(p) => Computes(q)
    BY DEF Computes
  <1> QED
    BY <1>1 DEF Cells, Early, Late

LEMMA CellsStep ==
  ASSUME TypeOK, NEW e \in Pods, Cells(pod[e]), Ends(pod[e]),
         PodStep(e) \/ RunHangs(e) \/ ReplaceCluster(e) \/ TeardownFails(e) \/ Killed(e)
  PROVE  Cells(pod'[e])
  <1>0. pod \in [Pods -> PodStates] /\ pod[e] \in PodStates
    BY DEF TypeOK
  <1> USE DEF Early, Late
  <1>a. ASSUME NEW f, NEW s, Raise(e, f, s) PROVE Cells(pod'[e])
    BY <1>a, Raised DEF Cells
  <1>b. ASSUME pod'[e].graph = pod[e].graph, pod'[e].todo = pod[e].todo,
               pod'[e].loaded = pod[e].loaded, pod'[e].exc \/ ~pod[e].exc,
               pod'[e].pc \in Early => pod[e].pc \in Early,
               pod'[e].pc \in Late => pod[e].pc \in Late \/ is_cwl_job(pod[e].graph),
               pod'[e].pc \in Late \ {"run"} => pod[e].pc # "run" \/ pod[e].todo = <<>>
        PROVE  Cells(pod'[e])
    BY <1>b, CellsStay
  <1>c. ASSUME NEW s, Goto(e, s),
               s \in Early => pod[e].pc \in Early,
               s \in Late => pod[e].pc \in Late \/ is_cwl_job(pod[e].graph),
               s \in Late \ {"run"} => pod[e].pc # "run" \/ pod[e].todo = <<>>
        PROVE  pod[e].exc \/ Cells(pod'[e])
    BY <1>b, <1>c, GoneOn
  <1>d. ASSUME pod[e].exc, pod'[e].exc PROVE Cells(pod'[e])
    BY <1>d DEF Cells
  <1>e. ASSUME NEW s, Goto(e, s), pod[e].exc PROVE Cells(pod'[e])
    BY <1>d, <1>e, GoneOn
  <1>1. CASE SkipCluster(e) \/ Exit(e) \/ Shutdown(e)
    BY <1>1, <1>c, <1>e DEF SkipCluster, Exit, Shutdown
  <1>2. CASE Parse(e) \/ AllRun(e) \/ Publish(e)
    BY <1>2, <1>a, <1>c, <1>e DEF Parse, AllRun, Publish
  <1>3. CASE OpenLocal(e) \/ NewCluster(e)
    <2>1. CASE \E o : pod' = [pod EXCEPT ![e].pc = "shutdown", ![e].exc = TRUE, ![e].open = o,
                                         ![e].past = @ \cup {"setup"}]
      <3>1. pod'[e].exc
        BY <1>0, <2>1 DEF PodStates
      <3> QED
        BY <3>1 DEF Cells
    <2>2. CASE \E s \in {"parse", "adapt"} : \E o : pod' = [pod EXCEPT ![e].pc = s, ![e].open = o]
      <3>1. PICK s \in {"parse", "adapt"} : \E o : pod' = [pod EXCEPT ![e].pc = s, ![e].open = o]
        BY <2>2
      <3>2. /\ pod'[e].graph = pod[e].graph /\ pod'[e].todo = pod[e].todo /\ pod'[e].exc = pod[e].exc
            /\ pod'[e].loaded = pod[e].loaded /\ pod'[e].pc = s
        BY <1>0, <3>1 DEF PodStates
      <3>3. pod[e].pc = "start"
        BY <1>3 DEF OpenLocal, NewCluster
      <3> QED
        BY <1>b, <1>d, <3>2, <3>3
    <2> QED
      BY <1>3, <2>1, <2>2 DEF OpenLocal, NewCluster
  <1>4. CASE Adapt(e)
    <2>1. CASE pod' = [pod EXCEPT ![e].pc = "parse", ![e].open = @ \cup {"client"}]
      <3>1. /\ pod'[e].graph = pod[e].graph /\ pod'[e].todo = pod[e].todo /\ pod'[e].exc = pod[e].exc
            /\ pod'[e].loaded = pod[e].loaded /\ pod'[e].pc = "parse"
        BY <1>0, <2>1 DEF PodStates
      <3> QED
        BY <1>4, <1>b, <1>d, <3>1 DEF Adapt
    <2> QED
      BY <1>4, <1>a, <2>1 DEF Adapt
  <1>5. CASE Prepare(e)
    <2> SUFFICES ASSUME ~is_cwl_job(pod[e].graph), OneExtent(pod[e].graph), ~pod[e].exc
                 PROVE  Cells(pod'[e])
      <3>1. pod'[e].graph = pod[e].graph /\ (pod'[e].exc \/ ~pod[e].exc)
        <4>1. \/ \E s, todo : pod' = [pod EXCEPT ![e].pc = s, ![e].todo = todo]
              \/ pod' = [pod EXCEPT ![e].pc = "teardown", ![e].exc = TRUE]
          BY <1>5 DEF Prepare
        <4> QED
          BY <1>0, <4>1 DEF PodStates
      <3> QED
        BY <3>1 DEF Cells
    <2>1. pod[e].graph \in Seq(Nodes)
      BY <1>0 DEF PodStates
    <2>2. /\ BoxOf(pod[e].graph) \in Extents
          /\ pg_bounding_boxes(pod[e].graph) = {BoxOf(pod[e].graph)}
      BY <2>1, OneBox
    <2>3. pod' = [pod EXCEPT ![e].pc = "run", ![e].todo = SubGraphsOf(pod[e].graph)]
      BY <1>5, <2>2 DEF Prepare, SubGraphsOf
    <2>4. /\ pod'[e].pc = "run" /\ pod'[e].todo = SubGraphsOf(pod[e].graph)
          /\ pod'[e].graph = pod[e].graph /\ pod'[e].loaded = pod[e].loaded
      BY <1>0, <2>3 DEF PodStates
    <2>5. pod[e].loaded = <<>>
      BY <1>5 DEF Prepare, Cells
    <2>6. SubGraphsOf(pod[e].graph) \in Seq(Seq(Nodes))
      BY <2>1, <2>2, PodGraph, PrepareType DEF SubGraphsOf
    <2>7. Computes(pod'[e])
      BY <2>4, <2>5, <2>6 DEF Computes
    <2> QED
      BY <2>4, <2>7 DEF Cells
  <1>6. CASE Run(e)
    <2>1. /\ pod'[e].todo = Tail(pod[e].todo) /\ pod'[e].loaded = Append(pod[e].loaded, Loads(Head(pod[e].todo)))
          /\ pod'[e].graph = pod[e].graph /\ pod'[e].exc = pod[e].exc /\ pod'[e].pc = "run"
      BY <1>0, <1>6 DEF Run, PodStates
    <2>2. pod[e].pc = "run" /\ pod[e].todo # <<>>
      BY <1>6 DEF Run
    <2>3. Computes(pod[e]) => Computes(pod'[e])
      BY <1>0, <2>1, <2>2, RunShifts
    <2> QED
      BY <2>1, <2>2, <2>3 DEF Cells
  <1>7. CASE RunRaises(e)
    <2>1. CASE pod' = [pod EXCEPT ![e].pc = "teardown", ![e].exc = TRUE]
      <3>1. pod'[e].exc
        BY <1>0, <2>1 DEF PodStates
      <3> QED
        BY <3>1 DEF Cells
    <2> QED
      BY <1>7, <1>a, <2>1 DEF RunRaises
  <1>8. CASE RunHangs(e) \/ ReplaceCluster(e)
    <2>1. /\ pod'[e].graph = pod[e].graph /\ pod'[e].todo = pod[e].todo /\ pod'[e].exc = pod[e].exc
          /\ pod'[e].loaded = pod[e].loaded /\ pod'[e].pc \in {"hung", "run"} /\ pod[e].pc = "run"
      BY <1>0, <1>8 DEF RunHangs, ReplaceCluster, PodStates
    <2> QED
      BY <1>b, <1>d, <2>1
  <1>9. CASE Connect(e) \/ TeardownFails(e)
    <2>1. /\ pod'[e].graph = pod[e].graph /\ pod'[e].todo = pod[e].todo /\ pod'[e].exc = pod[e].exc
          /\ pod'[e].loaded = pod[e].loaded /\ pod'[e].pc = "close"
          /\ pod[e].pc \in {"teardown", "connect"}
      BY <1>0, <1>9 DEF Connect, TeardownFails, PodStates
    <2> QED
      BY <1>b, <1>d, <2>1
  <1>10. CASE Killed(e)
    <2>1. pod'[e].pc = "killed"
      BY <1>0, <1>10 DEF Killed, PodStates
    <2> QED
      BY <2>1 DEF Cells
  <1>11. CASE Teardown(e)
    <2>1. ASSUME NEW k, pod' = [pod EXCEPT ![e].pc = "connect", ![e].pick = k] PROVE Cells(pod'[e])
      <3>1. /\ pod'[e].graph = pod[e].graph /\ pod'[e].todo = pod[e].todo /\ pod'[e].exc = pod[e].exc
            /\ pod'[e].loaded = pod[e].loaded /\ pod'[e].pc = "connect"
        BY <1>0, <2>1 DEF PodStates
      <3> QED
        BY <1>11, <1>b, <1>d, <3>1 DEF Teardown
    <2> QED
      BY <1>11, <1>c, <1>e, <2>1 DEF Teardown
  <1>12. CASE CloseDask(e)
    <2>1. PICK left \in SUBSET pod[e].open :
            pod' = [pod EXCEPT ![e].open = left,
                               ![e].pc = IF pod[e].exc THEN "shutdown" ELSE "publish",
                               ![e].past = IF left = {} THEN @ ELSE @ \cup {"close"}]
      BY <1>12 DEF CloseDask
    <2>2. /\ pod'[e].graph = pod[e].graph /\ pod'[e].todo = pod[e].todo /\ pod'[e].exc = pod[e].exc
          /\ pod'[e].loaded = pod[e].loaded
          /\ pod'[e].pc = IF pod[e].exc THEN "shutdown" ELSE "publish"
      BY <1>0, <2>1 DEF PodStates
    <2> QED
      BY <1>12, <1>b, <1>d, <2>2 DEF CloseDask
  <1> QED
    BY <1>1, <1>2, <1>3, <1>4, <1>5, <1>6, <1>7, <1>8, <1>9, <1>10, <1>11, <1>12 DEF PodStep

LEMMA CellsKept ==
  ASSUME TypeOK, [Next]_vars, CellsInv, EndsInv
  PROVE  CellsInv'
  <1>0. pod \in [Pods -> PodStates]
    BY DEF TypeOK
  <1>1. ASSUME NEW e \in Pods,
               PodStep(e) \/ RunHangs(e) \/ ReplaceCluster(e) \/ TeardownFails(e) \/ Killed(e)
        PROVE  CellsInv'
    <2>1. \A f \in Pods \ {e} : pod'[f] = pod[f]
      BY <1>0, <1>1, StepMoves DEF Moves
    <2>2. Cells(pod'[e])
      BY <1>1, CellsStep DEF CellsInv, EndsInv
    <2> QED
      BY <2>1, <2>2 DEF CellsInv
  <1>2. ASSUME NEW k \in Clusters, IdleTimeout(k), NEW f \in Pods PROVE Cells(pod'[f])
    <2>1. /\ pod'[f].pc = pod[f].pc /\ pod'[f].exc = pod[f].exc /\ pod'[f].graph = pod[f].graph
          /\ pod'[f].todo = pod[f].todo /\ pod'[f].loaded = pod[f].loaded
      BY <1>2, IdleFields
    <2>2. Computes(pod[f]) => Computes(pod'[f])
      BY <2>1 DEF Computes
    <2> QED
      BY <2>1, <2>2 DEF CellsInv, Cells
  <1>3. CASE UNCHANGED vars
    BY <1>3 DEF vars, CellsInv
  <1>4. ASSUME NEW k \in Clusters, IdleTimeout(k) PROVE CellsInv'
    BY <1>2, <1>4 DEF CellsInv
  <1> QED
    BY <1>1, <1>3, <1>4 DEF Next

\* The cells that were loaded, when all of them were: those of the grid over the box.
LEMMA LoadedCells ==
  ASSUME NEW p \in PodStates, OneExtent(p.graph), Computes(p), p.todo = <<>>,
         Measured(BoxOf(p.graph))
  PROVE  /\ BoxOf(p.graph) \in Extents
         /\ DOMAIN p.loaded = DOMAIN set_grid_cells(BoxOf(p.graph))
         /\ \A n \in DOMAIN p.loaded : p.loaded[n] = {set_grid_cells(BoxOf(p.graph))[n]}
  <1> DEFINE box   == BoxOf(p.graph)
             cells == set_grid_cells(box)
             S     == SUBSET (Extents \cup {Partial, Null, None})
  <1>1. p.graph \in Seq(Nodes) /\ p.loaded \in Seq(S)
    BY DEF PodStates
  <1>2. box \in Extents
    BY <1>1, OneBox
  <1>3. /\ Len(prepare_graphs(box, p.graph)) = n_tiles(inv(box)) * n_tiles(box.y.hi)
        /\ DOMAIN prepare_graphs(box, p.graph) = DOMAIN cells
        /\ n_tiles(inv(box)) * n_tiles(box.y.hi) \in Nat
        /\ DOMAIN cells = 1 .. n_tiles(inv(box)) * n_tiles(box.y.hi)
        /\ \A n \in DOMAIN cells : cells[n] \in Extents
    BY <1>1, <1>2, PrepareType, GridType
  <1> HIDE DEF box, cells, S
  <1>4. Len(p.loaded) = Len(prepare_graphs(box, p.graph))
    BY <1>1 DEF Computes, SubGraphsOf, box
  <1>5. DOMAIN p.loaded = DOMAIN cells
    BY <1>1, <1>3, <1>4
  <1>6. ASSUME NEW n \in DOMAIN p.loaded PROVE p.loaded[n] = {cells[n]}
    <2>1. p.loaded[n] = Loads(prepare_graphs(box, p.graph)[n])
      BY DEF Computes, SubGraphsOf, box
    <2>2. prepare_graphs(box, p.graph)[n] = derive_sub_graph(cells[n], p.graph)
      BY <1>5 DEF prepare_graphs, cells
    <2>3. Loads(derive_sub_graph(cells[n], p.graph)) = {cells[n]}
      BY <1>1, <1>3, <1>5, LoadsItsCell
    <2> QED
      BY <2>1, <2>2, <2>3
  <1> QED
    BY <1>2, <1>5, <1>6 DEF cells, box

\* What the invariant says of a pod that exited.
LEMMA CellsCover ==
  ASSUME TypeOK, EndsInv, CellsInv
  PROVE  CellsCoverBox
  <1> SUFFICES ASSUME NEW e \in Pods, pod[e].pc = "exited", ~is_cwl_job(pod[e].graph),
                      OneExtent(pod[e].graph), HasArea(BoxOf(pod[e].graph))
               PROVE  /\ \A p \in InGrid(BoxOf(pod[e].graph)) :
                           \E n \in DOMAIN pod[e].loaded : \E c \in pod[e].loaded[n] : Covers(c, p[1], p[2])
                      /\ \A m, n \in DOMAIN pod[e].loaded :
                           m # n => \A c \in pod[e].loaded[m], d \in pod[e].loaded[n] : Disjoint(c, d)
    BY DEF CellsCoverBox, BoxOf
  <1> DEFINE box   == BoxOf(pod[e].graph)
             cells == set_grid_cells(box)
             got   == pod[e].loaded
  <1>1. pod[e] \in PodStates /\ Computes(pod[e]) /\ pod[e].todo = <<>>
    BY DEF TypeOK, EndsInv, Ends, CellsInv, Cells
  <1>0. Measured(box)
    <2>1. box \in Extents /\ pg_bounding_boxes(pod[e].graph) = {box}
      BY PodGraph, OneBox
    <2> QED
      BY <2>1, PodGraph
  <1>2. /\ box \in Extents
        /\ DOMAIN got = DOMAIN cells
        /\ \A n \in DOMAIN got : got[n] = {cells[n]}
    BY <1>0, <1>1, LoadedCells
  <1> HIDE DEF cells
  <1>3. ASSUME NEW p \in InGrid(box)
        PROVE  \E n \in DOMAIN got : \E c \in got[n] : Covers(c, p[1], p[2])
    <2>1. PICK n \in DOMAIN cells : Covers(cells[n], p[1], p[2])
      BY <1>0, <1>2, GridCovers DEF cells
    <2> QED
      BY <1>2, <2>1
  <1>4. ASSUME NEW m \in DOMAIN got, NEW n \in DOMAIN got, m # n, NEW c \in got[m], NEW d \in got[n]
        PROVE  Disjoint(c, d)
    <2>1. c = cells[m] /\ d = cells[n]
      BY <1>2
    <2>2. Disjoint(cells[m], cells[n])
      BY <1>0, <1>2, <1>4, CellsDisjoint DEF cells
    <2> QED
      BY <2>1, <2>2
  <1> QED
    BY <1>3, <1>4

-----------------------------------------------------------------------------
(* The theorems *)

LEMMA InvAtFirst ==
  ASSUME Init
  PROVE  IInv
  <1>1. PICK graph \in [Pods -> UNION {Graphs[e] : e \in Pods}] :
          /\ \A e \in Pods : graph[e] \in Graphs[e]
          /\ pod = [e \in Pods |->
                     [pc |-> "start", graph |-> graph[e], todo |-> <<>>,
                      loaded |-> <<>>, exc |-> FALSE, open |-> {}, pick |-> None, past |-> {}]]
    BY DEF Init
  <1>2. dask \in {"LOCAL", "own", "all"} /\ up = {}
    BY DEF Init
  <1>3. ASSUME NEW e \in Pods
        PROVE  /\ pod[e] \in PodStates /\ pod[e].pc = "start" /\ pod[e].pick = None
               /\ pod[e].exc = FALSE /\ pod[e].loaded = <<>>
    <2>1. graph[e] \in Seq(Nodes)
      BY <1>1, PodsAssumption
    <2> QED
      BY <1>1, <2>1 DEF PodStates, Steps
  <1>4. TypeOK
    BY <1>1, <1>2, <1>3 DEF TypeOK
  <1>5. ClustersInv /\ LossInv /\ ClearedInv
    BY <1>2, <1>3 DEF ClustersInv, ClustersOf, LossInv, LossOf, ClearedInv, ClearedOf, OwnClusters
  <1>6. EndsInv /\ CellsInv /\ FailsForItsOwnReasons
    BY <1>3 DEF EndsInv, Ends, CellsInv, Cells, FailsForItsOwnReasons
  <1> QED
    BY <1>4, <1>5, <1>6 DEF IInv

\* The inductive invariant holds of every pod and gateway.
THEOREM ExecutorsInvariant == Spec => []IInv
  <1>1. IInv /\ [Next]_vars => IInv'
    <2> SUFFICES ASSUME IInv, [Next]_vars PROVE IInv'
      OBVIOUS
    <2>1. TypeOK'
      BY NextMoves DEF IInv
    <2>2. (ClustersInv /\ LossInv /\ ClearedInv)'
      BY ClustersStay DEF IInv
    <2>3. EndsInv' /\ CellsInv' /\ FailsForItsOwnReasons'
      BY EndsKept, CellsKept, ReasonsKept DEF IInv
    <2> QED
      BY <2>1, <2>2, <2>3 DEF IInv
  <1> QED
    BY <1>1, InvAtFirst, PTL DEF Spec

\* Every variable keeps its type.
THEOREM ExecutorsTypeOK == Spec => []TypeOK
  <1>1. IInv => TypeOK
    BY DEF IInv
  <1> QED
    BY <1>1, ExecutorsInvariant, PTL

\* A pod that exits with 0 has computed its whole box, and no part of it twice: whatever
\* the box, the side of a cell and the metre, and whatever its cluster went through.
THEOREM WholeBox == Spec => []CellsCoverBox
  <1>1. IInv => CellsCoverBox
    BY CellsCover DEF IInv
  <1> QED
    BY <1>1, ExecutorsInvariant, PTL

\* A pod that ends by itself leaves no cluster, unless the gateway could not be reached, or
\* lists all clusters and the pod's own had closed.
THEOREM ClustersGone == Spec => []NoClusterLeft
  <1>1. IInv => NoClusterLeft
    BY DEF IInv, ClearedInv, ClearedOf, Cleared, NoClusterLeft
  <1> QED
    BY <1>1, ExecutorsInvariant, PTL

\* A job fails for a reason of its own, or because another one on a gateway that lists all
\* clusters lost its cluster and took this one.
THEOREM OwnReasons == Spec => []FailsForItsOwnReasons
  <1>1. IInv => FailsForItsOwnReasons
    BY DEF IInv
  <1> QED
    BY <1>1, ExecutorsInvariant, PTL

\* A pod that published its results is never stuck in the interpreter's shutdown.
THEOREM DoneEnds == Spec => []DoneNeverWedges
  <1>1. IInv => DoneNeverWedges
    BY DEF IInv, EndsInv, Ends, DoneNeverWedges
  <1> QED
    BY <1>1, ExecutorsInvariant, PTL
=============================================================================
