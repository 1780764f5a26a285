----------------------------- MODULE QueueWorker -----------------------------
(***************************************************************************)
(* tasks.py as worker.py runs it: each rq worker takes the oldest task of   *)
(* the queue and runs submit_job, poll_job_status or queue_to_submit.  One  *)
(* action per call the task makes to the database, Redis or Argo.           *)
(***************************************************************************)
EXTENDS JobApi

At(x, pc) == work[x].pc = pc
Done(x)   == work' = [work EXCEPT ![x] = IdleWork]

\* rq: a worker that is free dequeues.  The job object is the one pickled with
\* the task, not the row.
Take(x) ==
  /\ At(x, "idle")
  /\ queue # <<>>
  /\ work' = [work EXCEPT ![x] = [IdleWork EXCEPT !.pc = Head(queue).kind,
                                                  !.job = Head(queue).job,
                                                  !.wf = Head(queue).wf]]
  /\ queue' = Tail(queue)
  /\ UNCHANGED <<dbVars, delayed, argoVars, req, rec>>

-----------------------------------------------------------------------------
\* submit_job: resolve the user's processes and create the workflow.
SubmitCreate(x) ==
  /\ At(x, "submit")
  /\ \E w \in Workflows :
       /\ CreateWorkflow(w, work[x].job)
       /\ work' = [work EXCEPT ![x] = [@ EXCEPT !.pc = "created", !.wf = w]]
  /\ UNCHANGED <<dbVars, redisVars, req, rec>>

\* submit_job: resolving or creating raises; with "argo" faults it may be the answer
\* that is lost, the workflow being there.
SubmitRaises(x) ==
  /\ At(x, "submit")
  /\ \/ "submit" \in Faults /\ UNCHANGED argoVars
     \/ "argo" \in Faults /\ \E w \in Workflows : CreateWorkflow(w, work[x].job)
  /\ work' = [work EXCEPT ![x].pc = "failed"]
  /\ UNCHANGED <<dbVars, redisVars, req, rec>>

\* Variant: the except branch only logs.
SubmitFailedSilently(x) ==
  /\ At(x, "failed")
  /\ Done(x)
  /\ UNCHANGED <<dbVars, redisVars, argoVars, req, rec>>

\* submit_job: the except branch marks the job as errored.
SubmitFailed(x) ==
  /\ At(x, "failed")
  /\ Modify(work[x].job, "error", work[x].wf)
  /\ Done(x)
  /\ UNCHANGED <<unborn, workspace, unguarded, redisVars, argoVars, req, rec>>

\* Variant: the workflow's name is not recorded.
SubmitRunningUnnamed(x) ==
  /\ At(x, "created")
  /\ Modify(work[x].job, "running", None)
  /\ work' = [work EXCEPT ![x].pc = "announce"]
  /\ UNCHANGED <<unborn, workspace, unguarded, redisVars, argoVars, req, rec>>

\* submit_job: the row becomes running and names its workflow.
SubmitRunning(x) ==
  /\ At(x, "created")
  /\ Modify(work[x].job, "running", work[x].wf)
  /\ IF ModifyRaises(work[x].job) THEN Done(x)
     ELSE work' = [work EXCEPT ![x].pc = "announce"]
  /\ UNCHANGED <<unborn, workspace, unguarded, redisVars, argoVars, req, rec>>

\* Variant: the poll is not told the workflow's name.
EnqueuePollUnnamed(x) ==
  /\ At(x, "announce")
  /\ queue' = Append(queue, Task("poll", work[x].job, None))
  /\ Done(x)
  /\ UNCHANGED <<dbVars, delayed, argoVars, req, rec>>

\* submit_job: enqueue the first poll.
EnqueuePoll(x) ==
  /\ At(x, "announce")
  /\ queue' = Append(queue, Task("poll", work[x].job, work[x].wf))
  /\ Done(x)
  /\ UNCHANGED <<dbVars, delayed, argoVars, req, rec>>

-----------------------------------------------------------------------------
\* poll_job_status: get the row; stop polling when it is gone.
PollGet(x) ==
  LET j == work[x].job
  IN /\ At(x, "poll")
     /\ IF Exists(j)
        THEN work' = [work EXCEPT ![x] = [@ EXCEPT !.pc = "query", !.read = row[j].wf]]
        ELSE Done(x)
     /\ UNCHANGED <<dbVars, redisVars, argoVars, req, rec>>

\* Variants: whatever has ended has finished; whatever is not running has failed.
PollVerdictOptimist(answer) ==
  CASE answer = "exception" -> "error"
    [] answer \in {"Succeeded", "Failed"} -> "finished"
    [] OTHER -> "again"
PollVerdictStrict(answer) ==
  CASE answer = "Succeeded" -> "finished"
    [] answer = "Running"   -> "again"
    [] OTHER                -> "error"

\* poll_job_status: what the answer of get_workflow makes of the job, or "again".
PollVerdict(answer) ==
  CASE answer = "exception" -> "error"
    [] answer = "Succeeded" -> "finished"
    [] answer = "Failed"    -> "error"
    [] OTHER                -> "again"

PollQuery(x) ==
  /\ At(x, "query")
  /\ \E answer \in GetWorkflow(work[x].wf) :
       LET v == PollVerdict(answer)
       IN IF v = "again"
          THEN /\ queue' = Append(queue, Task("poll", work[x].job, work[x].wf))
               /\ Done(x)
          ELSE /\ work' = [work EXCEPT ![x] = [@ EXCEPT !.pc = "write", !.verdict = v]]
               /\ UNCHANGED queue
  /\ UNCHANGED <<dbVars, delayed, argoVars, req, rec>>

\* poll_job_status: modify the row as it was read.
PollWrite(x) ==
  /\ At(x, "write")
  /\ Modify(work[x].job, work[x].verdict, work[x].read)
  /\ Done(x)
  /\ UNCHANGED <<unborn, workspace, unguarded, redisVars, argoVars, req, rec>>

-----------------------------------------------------------------------------
\* Variant: a job that finds the pool full a second time is not scheduled again.
RequeueOnce(x) ==
  /\ At(x, "requeue")
  /\ IF PoolFull THEN UNCHANGED redisVars ELSE QueueToSubmit(work[x].job, work[x].wf)
  /\ Done(x)
  /\ UNCHANGED <<dbVars, argoVars, req, rec>>

\* queue_to_submit as a scheduled task.
Requeue(x) ==
  /\ At(x, "requeue")
  /\ \/ QueueToSubmit(work[x].job, work[x].wf)
     \/ "argo" \in Faults /\ UNCHANGED redisVars
  /\ Done(x)
  /\ UNCHANGED <<dbVars, argoVars, req, rec>>

\* The work horse is killed, or a call to the database or to Redis raises: rq files
\* the task as failed and does not run it again.
TaskLost(x) ==
  /\ "task" \in Faults
  /\ ~At(x, "idle")
  /\ Done(x)
  /\ UNCHANGED <<dbVars, redisVars, argoVars, req, rec>>

\* An rq scheduler finds a scheduled task due.
SchedulerTick ==
  /\ SchedulerRuns
  /\ delayed # <<>>
  /\ queue' = Append(queue, Head(delayed))
  /\ delayed' = Tail(delayed)
  /\ UNCHANGED <<dbVars, argoVars, req, work, rec>>

WorkerStep(x) ==
  \/ Take(x)
  \/ SubmitCreate(x) \/ SubmitRaises(x) \/ SubmitFailed(x) \/ SubmitRunning(x)
  \/ EnqueuePoll(x)
  \/ PollGet(x) \/ PollQuery(x) \/ PollWrite(x)
  \/ Requeue(x)

WorkerNext ==
  \/ \E x \in Workers : WorkerStep(x) \/ TaskLost(x)
  \/ SchedulerTick
=============================================================================
