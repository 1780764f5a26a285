SPECIFICATION Spec
CONSTANTS
  r1 = r1
  r2 = r2
  r3 = r3
  s1 = s1
  s2 = s2
  Requests <- AllRequests
  Asks <- AllAsks
  Subs <- AllSubs
  Ids <- AllIds
  Keys <- AllKeys
  TheKey = 2
  ReadChunk = 2
  MaxActive = 2
  MaxFiles = 3
  Host = "host"
  Zone = 0
  Faults = {"client", "disk"}
  None = None
SYMMETRY Symmetry
CHECK_DEADLOCK FALSE
INVARIANTS TypeOK LastUploadStands DownloadExact FailsHaveCause OneUser LinkServes
