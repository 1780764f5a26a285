SPECIFICATION FairSpec
CONSTANTS
  BatchJobs = {}
  SyncJobs = {s1}
  Clients = {c1,c2}
  Workers = {x1}
  Workflows = {w1}
  Limit = 1
  MaxTasks = 3
  SchedulerRuns = FALSE
  MissingRow = "ignore"
  Requests = {"cancel","delete","sync"}
  Faults = {"request","task","expire","argo"}
  None = None
CHECK_DEADLOCK FALSE
PROPERTIES EndedWorkflowsNoticed SyncReturns
