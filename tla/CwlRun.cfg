SPECIFICATION Spec
CONSTANTS
  Graphs <- AllGraphs
  Trees <- AllTrees
  Packages <- ThePackages
  Given <- GivenFolders
  Features <- AllFeatures
  AssetOf <- Asset
  ItemFileOf <- ItemFile
  NetCDF <- NetCDFNames
  Collections <- CollectionNames
  NoObjects <- ArrayNames
  Dirs <- DirNames
  S3 = TRUE
  Faults = {"raise", "disk", "upload", "kill"}
  Torn = Torn
  None = None
CHECK_DEADLOCK FALSE
INVARIANTS TypeOK LinksLeadHome NoMixedDirectories WorkDirGone StacStands OutputsListed
