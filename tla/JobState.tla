------------------------------ MODULE JobState ------------------------------
(***************************************************************************)
(* The state the openEO job services share: the rows of the jobs table, the *)
(* job directories on the workspace volume, the Redis queue, and what every *)
(* request handler, queue worker and reconciler pod has read and not yet    *)
(* acted on.  The handlers themselves are in JobApi, QueueWorker and        *)
(* Reconciler; the workflow server they call is in Argo.                    *)
(***************************************************************************)
EXTENDS Integers, Sequences, FiniteSets

CONSTANTS
  BatchJobs,     \* ids that POST /jobs hands out
  SyncJobs,      \* ids that POST /result hands out
  Clients,       \* requests the API serves at the same time
  Workers,       \* rq workers on the "default" queue
  Workflows,     \* names Argo can generate: the bound on submissions
  Limit,         \* ARGO_WORKFLOWS_LIMIT
  MaxTasks,      \* bound: no job is started while this many tasks wait in Redis
  SchedulerRuns, \* does an rq scheduler move scheduled jobs to the queue?
  MissingRow,    \* engine.modify on a row that is gone: "insert", "ignore", "raise"
  Requests,      \* the endpoints clients use
  Faults,        \* what may go wrong
  None

Jobs == BatchJobs \cup SyncJobs

JobIds   == Jobs \cup {None}
WfNames  == Workflows \cup {None}
Verdicts == {"finished", "error"}

ASSUME JobsAssumption ==
  /\ None \notin Jobs \cup Workflows \cup Verdicts
  /\ BatchJobs \cap SyncJobs = {}
ASSUME LimitAssumption == Limit \in Nat /\ MaxTasks \in Nat
ASSUME WorkflowsAssumption == IsFiniteSet(Workflows)
ASSUME ModesAssumption ==
  /\ SchedulerRuns \in BOOLEAN
  /\ MissingRow \in {"insert", "ignore", "raise"}
  /\ Requests \subseteq {"start", "cancel", "delete", "sync"}
  /\ Faults \subseteq {"submit", "argo", "expire", "request", "task", "reconcile"}

VARIABLES
  row,        \* the jobs table: status and workflowname, "absent" when there is no row
  unborn,     \* job ids no request has generated yet
  workspace,  \* jobs whose directory exists on the workspace volume
  unguarded,  \* history: jobs whose directory does not stand for one start: delete_job
              \* has removed it, or two starts were between looking for it and making it
  queue,      \* the rq queue, oldest task first
  delayed,    \* rq's scheduled-job registry, earliest first
  req,        \* for each client, the handler it is in and the job object it holds
  work,       \* for each worker, the task it runs and the objects it holds
  rec,        \* the reconciler: snapshots left to look at, decision not yet written
  phase,      \* workflow phase at Argo; "New" until the controller sets one
  owner,      \* the job a workflow runs
  stopped,    \* workflows Argo was told to stop
  gone        \* workflows Argo no longer has (TTL, clean-up)

dbVars    == <<row, unborn, workspace, unguarded>>
redisVars == <<queue, delayed>>
argoVars  == <<phase, owner, stopped, gone>>
vars      == <<dbVars, redisVars, argoVars, req, work, rec>>

Status   == {"created", "queued", "running", "finished", "error", "canceled"}
Phases   == {"unused", "New", "Running", "Succeeded", "Failed"}

NoRow == [status |-> "absent", wf |-> None]
Rows  == [status : Status \cup {"absent"}, wf : WfNames]

Exists(j) == row[j].status # "absent"
Active(j) == row[j].status \in {"queued", "running"}

\* A pickled rq task: the function to call, with the job and the workflow name
\* that the pickled objects carry.
Tasks == [kind : {"submit", "poll", "requeue"}, job : Jobs, wf : WfNames]
Task(kind, j, wf) == [kind |-> kind, job |-> j, wf |-> wf]

RequestSteps == {"idle", "start_exists", "start_makedirs", "start_modify", "start_submit",
                 "cancel_stop", "cancel_write",
                 "delete_stop", "delete_rmtree", "delete_row",
                 "sync_enqueue", "sync_wait"}
IdleRequest  == [pc |-> "idle", job |-> None, wf |-> None]
RequestStates == [pc : RequestSteps, job : JobIds, wf : WfNames]

WorkSteps == {"idle", "submit", "failed", "created", "announce",
              "poll", "query", "write", "requeue"}
IdleWork  == [pc |-> "idle", job |-> None, wf |-> None, read |-> None,
              verdict |-> None]
WorkStates == [pc : WorkSteps, job : JobIds, wf : WfNames, read : WfNames,
               verdict : Verdicts \cup {None}]

\* What the reconciler keeps of a running row it read.
Snapshots == [job : Jobs, wf : WfNames]
IdleRec   == [todo |-> {}, job |-> None, wf |-> None, verdict |-> None]
RecStates == [todo : SUBSET Snapshots, job : JobIds, wf : WfNames,
              verdict : Verdicts \cup {None}]

\* engine.modify(job): every column of the row is written from the object.  A row
\* that is gone is inserted, ignored, or makes modify raise.
Modify(j, status, wf) ==
  row' = IF Exists(j) \/ MissingRow = "insert"
         THEN [row EXCEPT ![j] = [status |-> status, wf |-> wf]]
         ELSE row
ModifyRaises(j) == ~Exists(j) /\ MissingRow = "raise"
=============================================================================
