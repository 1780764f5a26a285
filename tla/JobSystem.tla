------------------------------ MODULE JobSystem ------------------------------
(***************************************************************************)
(* The job services together: clients, API, queue workers, reconciler and   *)
(* workflow server, over one jobs table, one volume and one Redis queue.    *)
(***************************************************************************)
EXTENDS Reconciler

Init ==
  /\ row       = [j \in Jobs |-> NoRow]
  /\ unborn    = Jobs
  /\ workspace = {}
  /\ unguarded = {}
  /\ queue     = <<>>
  /\ delayed   = <<>>
  /\ req       = [c \in Clients |-> IdleRequest]
  /\ work      = [x \in Workers |-> IdleWork]
  /\ rec       = IdleRec
  /\ phase     = [w \in Workflows |-> "unused"]
  /\ owner     = [w \in Workflows |-> None]
  /\ stopped   = {}
  /\ gone      = {}

Next == ApiNext \/ WorkerNext \/ RecNext \/ ArgoNext

Spec == Init /\ [][Next]_vars

\* The API finishes what it accepted, workers keep working, the reconciler is
\* scheduled every five minutes, and a workflow ends by active_deadline_seconds.
\* Nothing is assumed of clients or of faults.
Fairness ==
  /\ \A c \in Clients : WF_vars(RequestStep(c))
  /\ \A x \in Workers : WF_vars(WorkerStep(x))
  /\ WF_vars(SchedulerTick)
  /\ WF_vars(RecStep)
  /\ \A w \in Workflows : WF_vars(ArgoSucceed(w) \/ ArgoFail(w))

FairSpec == Spec /\ Fairness

-----------------------------------------------------------------------------
(* Properties *)

\* Every variable keeps its type, whatever handlers and tasks interleave.
TypeOK ==
  /\ row       \in [Jobs -> Rows]
  /\ unborn    \subseteq Jobs
  /\ workspace \subseteq Jobs
  /\ unguarded \subseteq Jobs
  /\ queue     \in Seq(Tasks)
  /\ delayed   \in Seq(Tasks)
  /\ req       \in [Clients -> RequestStates]
  /\ work      \in [Workers -> WorkStates]
  /\ rec       \in RecStates
  /\ phase     \in [Workflows -> Phases]
  /\ owner     \in [Workflows -> JobIds]
  /\ stopped   \subseteq Workflows
  /\ gone      \subseteq Workflows

\* A job is finished only if a workflow that ran this job has succeeded: no stale
\* object that poll_job_status, reconcile or cancel_job writes back can say so of a
\* job that failed, was never run, or belongs to somebody else's workflow.
FinishedMeansSucceeded ==
  \A j \in Jobs : row[j].status = "finished" =>
    \E w \in Workflows : owner[w] = j /\ phase[w] = "Succeeded"

\* A running row names a workflow, and it is one that runs this job: what logs,
\* cancel_job, delete_job and reconcile rely on when they pass the name to Argo.
RunningHasWorkflow ==
  \A j \in Jobs : row[j].status = "running" =>
    row[j].wf \in Workflows /\ owner[row[j].wf] = j

\* A batch job is submitted to Argo at most once, however many requests start it, as
\* long as its directory was never removed and no two starts were in fs.mkdir at once:
\* start_job reads the status long before it writes it, and only the directory decides
\* between two starts.
OneWorkflowPerJob ==
  \A j \in BatchJobs \ unguarded : \A v, w \in Workflows :
    owner[v] = j /\ owner[w] = j => v = w

\* The submission of j is still on its way.
Pending(j) ==
  \/ \E i \in DOMAIN queue : queue[i].kind # "poll" /\ queue[i].job = j
  \/ \E i \in DOMAIN delayed : delayed[i].job = j
  \/ \E x \in Workers : work[x].job = j
                        /\ work[x].pc \in {"requeue", "submit", "failed", "created"}
  \/ \E c \in Clients : req[c].job = j /\ req[c].pc \in {"start_submit", "sync_enqueue"}

\* A queued job has its submission pending somewhere: it is not left in 'queued'
\* forever (tasks.py:133).  The reconciler never looks at queued rows.
QueuedIsPending ==
  \A j \in Jobs : row[j].status = "queued" => Pending(j)

\* A batch job is marked as errored only when no workflow of it can still run, unless
\* its directory was removed or two starts were in fs.mkdir at once.
ErrorMeansEnded ==
  \A j \in BatchJobs \ unguarded : row[j].status = "error" =>
    \A w \in Workflows : owner[w] = j => ~Alive(w)

\* A job that was canceled stays canceled until it is started again or deleted:
\* no worker or reconciler with an older view of it takes it up.
CanceledStays ==
  [][\A j \in Jobs : row[j].status = "canceled" =>
       row'[j].status \in {"canceled", "queued", "absent"}]_vars

\* A queued job is submitted, refused, canceled or deleted in the end.
QueuedJobsLeave ==
  \A j \in Jobs : row[j].status = "queued" ~> row[j].status # "queued"

\* When a job's workflow has ended, the row stops saying running in the end, even
\* when the poll that should have seen it is lost: reconcile finds it.
EndedWorkflowsNoticed ==
  \A j \in Jobs :
    (row[j].status = "running" /\ row[j].wf \in gone \cup {w \in Workflows : Ended(w)})
      ~> row[j].status # "running"

\* A synchronous request is answered in the end once its job runs, whatever becomes of
\* the poll, unless the job is canceled: then process_sync_job waits on.
SyncReturns ==
  \A c \in Clients :
    (req[c].pc = "sync_wait" /\ row[req[c].job].status = "running")
      ~> \/ req[c].pc # "sync_wait"
         \/ row[req[c].job].status = "canceled"

-----------------------------------------------------------------------------
(* The promise of JobLife *)

RunsOf(j) == {w \in Workflows : owner[w] = j}

\* The fate of a job's run, read off the workflow server.
Fate(j) ==
  CASE RunsOf(j) = {}                             -> "none"
    [] \E w \in RunsOf(j) : ~Ended(w)             -> "going"
    [] \E w \in RunsOf(j) : phase[w] = "Succeeded" -> "good"
    [] OTHER                                      -> "bad"

Life == INSTANCE JobLife WITH
  Jobs <- BatchJobs,
  life <- [j \in BatchJobs |-> IF j \in unguarded THEN "disputed" ELSE row[j].status],
  fate <- [j \in BatchJobs |-> IF j \in unguarded THEN "none" ELSE Fate(j)]

\* Without cancellation, deletion and Argo faults, every step of the services is a
\* step of the promise: a batch job runs at most once, its status follows that run,
\* a queued job is run or refused, and the end of its run is reported; all this until
\* two starts of the job are in fs.mkdir at once.
KeepsFairPromise == Life!FairSpec
=============================================================================
