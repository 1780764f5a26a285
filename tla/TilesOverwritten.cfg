SPECIFICATION Spec
CONSTANTS
  o1 = o1
  o2 = o2
  o3 = o3
  p1 = p1
  p2 = p2
  Outputs = {o1, o2, o3}
  Packages = {p1, p2}
  PackageOf <- TwoPackages
  Items = {o1, o2, o3}
  ItemOf <- OwnName
  Names = {o1, o2, o3}
  NameOf <- OwnName
  EndsWith <- OnlyItself
  NetCDF = {}
  S3 = TRUE
  Kinds = {"cube"}
  Readers = {r1}
  Faults = {}
  None = None
CHECK_DEADLOCK FALSE
SYMMETRY Symmetry
INVARIANTS ResultsListed
