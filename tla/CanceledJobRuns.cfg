SPECIFICATION Spec
CONSTANTS
  BatchJobs = {j1}
  SyncJobs = {}
  Clients = {c1}
  Workers = {x1}
  Workflows = {w1}
  Limit = 1
  MaxTasks = 3
  SchedulerRuns = FALSE
  MissingRow = "ignore"
  Requests = {"start","cancel"}
  Faults = {}
  None = None
CHECK_DEADLOCK FALSE
PROPERTIES CanceledStays
