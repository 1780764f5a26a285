SPECIFICATION FairSpec
CONSTANTS
  Pods = {e1, e2}
  e1 = e1
  e2 = e2
  Graphs <- GraphsOf
  Faults <- FaultsOf
  TileSize = 6
  Metre = 2
  inv <- GeodInv
  fwd <- GeodFwd
  None = None
  Null = Null
  Partial = Partial
CHECK_DEADLOCK FALSE
INVARIANTS TypeOK CellsCoverBox NoClusterLeft FailsForItsOwnReasons DoneNeverWedges
PROPERTIES ClustersGo
