SPECIFICATION FairSpec
CONSTANTS
  BatchJobs = {j1}
  SyncJobs = {}
  Clients = {c1,c2}
  Workers = {x1,x2}
  Workflows = {w1,w2}
  Limit = 1
  MaxTasks = 1
  SchedulerRuns = TRUE
  MissingRow = "ignore"
  Requests = {"start"}
  Faults = {"submit","reconcile"}
  None = None
CHECK_DEADLOCK FALSE
PROPERTIES KeepsFairPromise QueuedJobsLeave
