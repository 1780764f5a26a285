SPECIFICATION Spec
CONSTANTS
  BatchJobs = {j1}
  SyncJobs = {}
  Clients = {c1,c2}
  Workers = {x1}
  Workflows = {w1,w2}
  Limit = 1
  MaxTasks = 1
  SchedulerRuns = TRUE
  MissingRow = "raise"
  Requests = {"start","cancel","delete"}
  Faults = {}
  None = None
CHECK_DEADLOCK FALSE
SYMMETRY Symmetry
INVARIANTS TypeOK RunningHasWorkflow FinishedMeansSucceeded OneWorkflowPerJob IInv
