SPECIFICATION FairSpec
CONSTANTS
  BatchJobs = {j1,j2}
  SyncJobs = {}
  Clients = {c1}
  Workers = {x1}
  Workflows = {w1,w2}
  Limit = 1
  MaxTasks = 3
  SchedulerRuns = FALSE
  MissingRow = "ignore"
  Requests = {"start"}
  Faults = {}
  None = None
CHECK_DEADLOCK FALSE
PROPERTIES QueuedJobsLeave
