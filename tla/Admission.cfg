SPECIFICATION Spec
CONSTANTS
  BatchJobs = {j1,j2}
  SyncJobs = {}
  Clients = {c1,c2}
  Workers = {x1,x2}
  Workflows = {w1}
  Limit = 1
  MaxTasks = 2
  SchedulerRuns = TRUE
  MissingRow = "insert"
  Requests = {"start","cancel"}
  Faults = {}
  None = None
CHECK_DEADLOCK FALSE
SYMMETRY Symmetry
INVARIANTS QueuedIsPending ErrorMeansEnded
