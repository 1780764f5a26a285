------------------------------- MODULE JobApi -------------------------------
(***************************************************************************)
(* The handlers of jobs.py that change state.  uvicorn runs eight worker    *)
(* processes, each with a thread pool, so handlers interleave between any   *)
(* two calls they make to the database, the volume, Redis or Argo: one      *)
(* action per such call.  A handler that answers 4xx before it changed      *)
(* anything is a step that changes nothing, and is left out.                *)
(***************************************************************************)
EXTENDS Argo

Goto(c, pc)    == req' = [req EXCEPT ![c].pc = pc]
Respond(c)     == req' = [req EXCEPT ![c] = IdleRequest]
Accept(c, pc, j) ==
  req' = [req EXCEPT ![c] = [pc |-> pc, job |-> j, wf |-> row[j].wf]]

\* queue_to_submit: does list_workflows show the pool full?  An empty list never is.
PoolFull ==
  /\ Listed # {}
  /\ Cardinality({w \in Listed : phase[w] = "Running"}) >= Limit

\* queue_to_submit(job), called by start_job and by the worker.
QueueToSubmit(j, wf) ==
  \/ /\ PoolFull
     /\ delayed' = Append(delayed, Task("requeue", j, wf))
     /\ UNCHANGED queue
  \/ /\ ~PoolFull
     /\ queue' = Append(queue, Task("submit", j, wf))
     /\ UNCHANGED delayed

-----------------------------------------------------------------------------
\* create_job
CreateJob(j) ==
  /\ j \in unborn
  /\ unborn' = unborn \ {j}
  /\ row' = [row EXCEPT ![j] = [status |-> "created", wf |-> None]]
  /\ UNCHANGED <<workspace, unguarded, redisVars, argoVars, req, work, rec>>

-----------------------------------------------------------------------------
\* start_job: read the row; refuse when it is queued or running.
StartRead(c, j) ==
  /\ "start" \in Requests
  /\ req[c].pc = "idle"
  /\ Exists(j) /\ ~Active(j)
  /\ Len(queue) + Len(delayed) < MaxTasks
  /\ Accept(c, "start_exists", j)
  /\ UNCHANGED <<dbVars, redisVars, argoVars, work, rec>>

\* Starts of j that have found no directory and are about to make it.
Making(j) == {c \in Clients : req[c].pc = "start_makedirs" /\ req[c].job = j}

\* Variant: the mkdir accepts a directory that is there (exist_ok).
StartExistsOk(c) ==
  /\ req[c].pc = "start_exists"
  /\ unguarded' = unguarded \cup {j \in {req[c].job} : Making(j) # {}}
  /\ Goto(c, "start_makedirs")
  /\ UNCHANGED <<row, unborn, workspace, redisVars, argoVars, work, rec>>

\* start_job: fs.mkdir(job_workspace) looks whether the directory is there, and raises
\* if it is.
StartExists(c) ==
  /\ req[c].pc = "start_exists"
  /\ IF req[c].job \in workspace
     THEN Respond(c) /\ UNCHANGED unguarded
     ELSE /\ unguarded' = unguarded \cup {j \in {req[c].job} : Making(j) # {}}
          /\ Goto(c, "start_makedirs")
  /\ UNCHANGED <<row, unborn, workspace, redisVars, argoVars, work, rec>>

\* start_job: fs.mkdir goes on to makedirs(exist_ok=True): a directory made since is
\* no obstacle.
StartMakedirs(c) ==
  /\ req[c].pc = "start_makedirs"
  /\ workspace' = workspace \cup {req[c].job}
  /\ Goto(c, "start_modify")
  /\ UNCHANGED <<row, unborn, unguarded, redisVars, argoVars, work, rec>>

\* start_job: the row becomes queued.
StartModify(c) ==
  /\ req[c].pc = "start_modify"
  /\ Modify(req[c].job, "queued", req[c].wf)
  /\ IF ModifyRaises(req[c].job) THEN Respond(c) ELSE Goto(c, "start_submit")
  /\ UNCHANGED <<unborn, workspace, unguarded, redisVars, argoVars, work, rec>>

\* start_job: queue_to_submit(job), or the 500 when Argo cannot be asked.
StartSubmit(c) ==
  /\ req[c].pc = "start_submit"
  /\ Respond(c)
  /\ \/ QueueToSubmit(req[c].job, req[c].wf)
     \/ "argo" \in Faults /\ UNCHANGED redisVars
  /\ UNCHANGED <<dbVars, argoVars, work, rec>>

-----------------------------------------------------------------------------
\* cancel_job: read the row; refuse unless it is queued or running.
CancelRead(c, j) ==
  /\ "cancel" \in Requests
  /\ req[c].pc = "idle"
  /\ Active(j)
  /\ Accept(c, IF row[j].status = "running" /\ row[j].wf # None
               THEN "cancel_stop" ELSE "cancel_write", j)
  /\ UNCHANGED <<dbVars, redisVars, argoVars, work, rec>>

\* cancel_job: stop the workflow; only NotFound is handled.
CancelStop(c) ==
  /\ req[c].pc = "cancel_stop"
  /\ \E answer \in StopAnswers(req[c].wf) :
       /\ stopped' = IF answer = "ok" THEN stopped \cup {req[c].wf} ELSE stopped
       /\ IF answer = "exception" THEN Respond(c) ELSE Goto(c, "cancel_write")
  /\ UNCHANGED <<dbVars, redisVars, phase, owner, gone, work, rec>>

\* cancel_job: the row becomes canceled.
CancelWrite(c) ==
  /\ req[c].pc = "cancel_write"
  /\ Modify(req[c].job, "canceled", req[c].wf)
  /\ Respond(c)
  /\ UNCHANGED <<unborn, workspace, unguarded, redisVars, argoVars, work, rec>>

-----------------------------------------------------------------------------
\* delete_job: read the row.
DeleteRead(c, j) ==
  /\ "delete" \in Requests
  /\ req[c].pc = "idle"
  /\ Exists(j)
  /\ Accept(c, IF Active(j) /\ row[j].wf # None THEN "delete_stop" ELSE "delete_rmtree", j)
  /\ UNCHANGED <<dbVars, redisVars, argoVars, work, rec>>

\* delete_job: stop the workflow; whatever it answers is ignored.
DeleteStop(c) ==
  /\ req[c].pc = "delete_stop"
  /\ \E answer \in StopAnswers(req[c].wf) :
       stopped' = IF answer = "ok" THEN stopped \cup {req[c].wf} ELSE stopped
  /\ Goto(c, "delete_rmtree")
  /\ UNCHANGED <<dbVars, redisVars, phase, owner, gone, work, rec>>

\* delete_job: remove the directory if there is one.
DeleteRmtree(c) ==
  LET j == req[c].job
  IN /\ req[c].pc = "delete_rmtree"
     /\ workspace' = workspace \ {j}
     /\ unguarded' = unguarded \cup ({j} \cap workspace)
     /\ Goto(c, "delete_row")
     /\ UNCHANGED <<row, unborn, redisVars, argoVars, work, rec>>

\* delete_job: remove the row.
DeleteRow(c) ==
  /\ req[c].pc = "delete_row"
  /\ row' = [row EXCEPT ![req[c].job] = NoRow]
  /\ Respond(c)
  /\ UNCHANGED <<unborn, workspace, unguarded, redisVars, argoVars, work, rec>>

-----------------------------------------------------------------------------
\* process_sync_job: insert the row, already queued.
SyncCreate(c, j) ==
  /\ "sync" \in Requests
  /\ req[c].pc = "idle"
  /\ j \in unborn
  /\ unborn' = unborn \ {j}
  /\ row' = [row EXCEPT ![j] = [status |-> "queued", wf |-> None]]
  /\ req' = [req EXCEPT ![c] = [pc |-> "sync_enqueue", job |-> j, wf |-> None]]
  /\ UNCHANGED <<workspace, unguarded, redisVars, argoVars, work, rec>>

\* process_sync_job: enqueue submit_job itself, without asking for room in the pool.
SyncEnqueue(c) ==
  /\ req[c].pc = "sync_enqueue"
  /\ queue' = Append(queue, Task("submit", req[c].job, None))
  /\ Goto(c, "sync_wait")
  /\ UNCHANGED <<dbVars, delayed, argoVars, work, rec>>

\* Variant: the loop only leaves with a result.
SyncReturnFinished(c) ==
  /\ req[c].pc = "sync_wait"
  /\ row[req[c].job].status = "finished"
  /\ Respond(c)
  /\ UNCHANGED <<dbVars, redisVars, argoVars, work, rec>>

\* process_sync_job: one turn of the wait loop that leaves it: with the result, with
\* a 500, or with the AttributeError of a row that is gone.  A turn that reads any
\* other status waits on.
SyncReturn(c) ==
  /\ req[c].pc = "sync_wait"
  /\ row[req[c].job].status \in {"finished", "error", "absent"}
  /\ Respond(c)
  /\ UNCHANGED <<dbVars, redisVars, argoVars, work, rec>>

-----------------------------------------------------------------------------
\* The process serving a request dies, or a call to the database or to Redis raises.
RequestLost(c) ==
  /\ "request" \in Faults
  /\ req[c].pc # "idle"
  /\ Respond(c)
  /\ UNCHANGED <<dbVars, redisVars, argoVars, work, rec>>

\* The steps a request takes once it is accepted.
RequestStep(c) ==
  \/ StartExists(c) \/ StartMakedirs(c) \/ StartModify(c) \/ StartSubmit(c)
  \/ CancelStop(c) \/ CancelWrite(c)
  \/ DeleteStop(c) \/ DeleteRmtree(c) \/ DeleteRow(c)
  \/ SyncEnqueue(c) \/ SyncReturn(c)

ApiNext ==
  \/ \E j \in BatchJobs : CreateJob(j)
  \/ \E c \in Clients :
       \/ \E j \in Jobs : StartRead(c, j) \/ CancelRead(c, j) \/ DeleteRead(c, j)
       \/ \E j \in SyncJobs : SyncCreate(c, j)
       \/ RequestStep(c)
       \/ RequestLost(c)
=============================================================================
