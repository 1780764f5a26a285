---------------------------- MODULE JobLifeProofs ----------------------------
(***************************************************************************)
(* The proof that the job services keep the promise of JobLife while nobody *)
(* cancels or deletes jobs: each step is a step of the promise or leaves    *)
(* the status and the fate of every batch job as they are.                  *)
(***************************************************************************)
EXTENDS JobPromise, JobRightsProofs

USE DEF JobIds, WfNames

-----------------------------------------------------------------------------
(* What an undisturbed system does not do *)

\* Nothing is removed, and no request cancels or deletes.
LEMMA UndisturbedKept ==
  ASSUME Undisturbed, TypeOK, RequestsInv, UndisturbedInv, [Next]_vars
  PROVE  UndisturbedInv'
  <1> USE DEF vars, dbVars, redisVars, argoVars
  <1>0. /\ row \in [Jobs -> Rows] /\ req \in [Clients -> RequestStates]
        /\ gone = {}
    BY DEF TypeOK, UndisturbedInv
  <1>1. gone' = {}
    <2>1. CASE ApiNext
      BY <1>0, <2>1 DEF ApiNext, CreateJob, StartRead, CancelRead, DeleteRead, SyncCreate,
         RequestStep, RequestLost, StartExists, StartMakedirs, StartModify, StartSubmit, CancelStop, CancelWrite,
         DeleteStop, DeleteRmtree, DeleteRow, SyncEnqueue, SyncReturn, UndisturbedInv
    <2>2. CASE WorkerNext
      BY <1>0, <2>2 DEF WorkerNext, WorkerStep, TaskLost, SchedulerTick, Take, SubmitCreate,
         SubmitRaises, SubmitFailed, SubmitRunning, EnqueuePoll, PollGet, PollQuery, PollWrite,
         Requeue, CreateWorkflow
    <2>3. CASE RecNext \/ ArgoNext \/ UNCHANGED vars
      BY <1>0, <2>3 DEF RecNext, RecStep, RecBegin, RecQuery, RecWrite, RecLost, ArgoNext,
         ArgoRun, ExecutorStarts, ArgoSucceed, ArgoFail, ArgoExpire, Undisturbed
    <2> QED
      BY <2>1, <2>2, <2>3 DEF Next
  <1> DEFINE Pcs == {"idle", "start_exists", "start_makedirs", "start_modify", "start_submit",
                     "sync_enqueue", "sync_wait"}
  <1>2. ASSUME NEW d \in Clients PROVE req'[d].pc \in Pcs
    <2>0. req[d].pc \in Pcs
      BY DEF UndisturbedInv
    <2>1. CASE UNCHANGED req
      BY <2>0, <2>1
    <2>2. ASSUME NEW c \in Clients, RequestStep(c) \/ RequestLost(c) PROVE req'[d].pc \in Pcs
      <3>1. Respond(c) \/ \E s \in Pcs : Goto(c, s)
        BY <2>2 DEF RequestStep, RequestLost, StartExists, StartMakedirs, StartModify, StartSubmit, CancelStop,
           CancelWrite, DeleteStop, DeleteRmtree, DeleteRow, SyncEnqueue, SyncReturn,
           UndisturbedInv
      <3>2. CASE Respond(c)
        BY <1>0, <2>0, <3>2 DEF Respond, IdleRequest
      <3>3. ASSUME NEW s \in Pcs, Goto(c, s) PROVE req'[d].pc \in Pcs
        <4>1. PICK r \in RequestStates : r = [req[c] EXCEPT !.pc = s]
          BY <1>0 DEF RequestStates, RequestSteps
        <4>2. req[c] \in RequestStates
          BY <1>0
        <4>3. r.pc = s
          BY <4>1, <4>2 DEF RequestStates
        <4>4. req' = [req EXCEPT ![c] = r]
          BY <3>3, <4>1 DEF Goto
        <4> QED
          BY <1>0, <2>0, <4>3, <4>4
      <3> QED
        BY <3>1, <3>2, <3>3
    <2>3. ASSUME NEW c \in Clients, NEW k \in Jobs,
                 \/ StartRead(c, k) \/ CancelRead(c, k) \/ DeleteRead(c, k)
                 \/ SyncCreate(c, k)
          PROVE  req'[d].pc \in Pcs
      BY <1>0, <2>0, <2>3 DEF StartRead, CancelRead, DeleteRead, SyncCreate, Accept, Undisturbed
    <2>4. CASE ApiNext
      BY <2>1, <2>2, <2>3, <2>4 DEF ApiNext, CreateJob, Jobs
    <2>5. CASE WorkerNext
      BY <2>1, <2>5 DEF WorkerNext, WorkerStep, TaskLost, SchedulerTick, Take, SubmitCreate,
         SubmitRaises, SubmitFailed, SubmitRunning, EnqueuePoll, PollGet, PollQuery, PollWrite,
         Requeue
    <2>6. CASE RecNext \/ ArgoNext \/ UNCHANGED vars
      BY <2>1, <2>6 DEF RecNext, RecStep, RecBegin, RecQuery, RecWrite, RecLost, ArgoNext,
         ArgoRun, ExecutorStarts, ArgoSucceed, ArgoFail, ArgoExpire
    <2> QED
      BY <2>4, <2>5, <2>6 DEF Next
  <1> QED
    BY <1>1, <1>2 DEF UndisturbedInv

-----------------------------------------------------------------------------
(* What the invariant says of a job *)

\* The right to submit a job is in one kind of place, and its run is one.
LEMMA Exclusive ==
  ASSUME NEW j, AtMostOne(Holders(j))
  PROVE  /\ RunsOf(j) # {} => /\ RightsIn(queue, j) = {} /\ RightsIn(delayed, j) = {}
                              /\ WorkRights(j) = {} /\ RequestRights(j) = {}
         /\ WorkRights(j) # {} => /\ RightsIn(queue, j) = {} /\ RightsIn(delayed, j) = {}
                                  /\ RunsOf(j) = {} /\ RequestRights(j) = {}
         /\ RequestRights(j) # {} => /\ RightsIn(queue, j) = {} /\ RightsIn(delayed, j) = {}
                                     /\ RunsOf(j) = {} /\ WorkRights(j) = {}
         /\ \A v, w \in RunsOf(j) : v = w
         /\ \A x, y \in WorkRights(j) : x = y
         /\ \A c, d \in RequestRights(j) : c = d
  <1>1. \A a, b \in Holders(j) : a = b
    BY DEF AtMostOne
  <1>2. \A w \in RunsOf(j) : <<"workflow", w>> \in Holders(j)
    BY HolderIs
  <1>3. \A x \in WorkRights(j) : <<"work", x>> \in Holders(j)
    BY HolderIs
  <1>4. \A c \in RequestRights(j) : <<"request", c>> \in Holders(j)
    BY HolderIs
  <1>5. /\ \A i \in RightsIn(queue, j) : <<"queue", i>> \in Holders(j)
        /\ \A i \in RightsIn(delayed, j) : <<"delayed", i>> \in Holders(j)
    BY HolderIs
  <1>6. \A v, w \in RunsOf(j) : v = w
    <2> SUFFICES ASSUME NEW v \in RunsOf(j), NEW w \in RunsOf(j) PROVE v = w
      OBVIOUS
    <2>1. <<"workflow", v>> = <<"workflow", w>>
      BY <1>1, <1>2
    <2> QED
      BY <2>1
  <1>7. \A v, w \in WorkRights(j) : v = w
    <2> SUFFICES ASSUME NEW v \in WorkRights(j), NEW w \in WorkRights(j) PROVE v = w
      OBVIOUS
    <2>1. <<"work", v>> = <<"work", w>>
      BY <1>1, <1>3
    <2> QED
      BY <2>1
  <1>8. \A v, w \in RequestRights(j) : v = w
    <2> SUFFICES ASSUME NEW v \in RequestRights(j), NEW w \in RequestRights(j) PROVE v = w
      OBVIOUS
    <2>1. <<"request", v>> = <<"request", w>>
      BY <1>1, <1>4
    <2> QED
      BY <2>1
  <1>9. \A s, t \in {"queue", "delayed", "work", "request", "workflow"} : \A a, b :
          <<s, a>> = <<t, b>> => s = t
    OBVIOUS
  <1>10. \A s, t \in {"queue", "delayed", "work", "request", "workflow"} : \A a, b :
           <<s, a>> \in Holders(j) /\ <<t, b>> \in Holders(j) => s = t
    BY <1>1, <1>9
  <1>11. \A x \in WorkRights(j) : /\ RightsIn(queue, j) = {} /\ RightsIn(delayed, j) = {}
                                  /\ RunsOf(j) = {} /\ RequestRights(j) = {}
    BY <1>2, <1>3, <1>4, <1>5, <1>10
  <1>12. \A x \in RequestRights(j) : /\ RightsIn(queue, j) = {} /\ RightsIn(delayed, j) = {}
                                     /\ RunsOf(j) = {} /\ WorkRights(j) = {}
    BY <1>2, <1>3, <1>4, <1>5, <1>10
  <1>13. \A x \in RunsOf(j) : /\ RightsIn(queue, j) = {} /\ RightsIn(delayed, j) = {}
                              /\ WorkRights(j) = {} /\ RequestRights(j) = {}
    BY <1>2, <1>3, <1>4, <1>5, <1>10
  <1> QED
    BY <1>6, <1>7, <1>8, <1>11, <1>12, <1>13

\* What the invariant says of one batch job.
LEMMA OfJob ==
  ASSUME PromiseInv, NEW j \in BatchJobs, j \notin unguarded
  PROVE  /\ MakingInv(j) /\ AtMostOne(Holders(j)) /\ (Holders(j) # {} => j \in workspace)
         /\ JobInv(j) /\ TypeOK /\ j \in Jobs /\ j # None /\ j \notin SyncJobs
         /\ row[j] \in Rows
  BY JobsAssumption DEF PromiseInv, RightsInv, HoldersInv, IInv, TypeOK, Jobs

-----------------------------------------------------------------------------
(* How the status of a job changes *)

Turns(j, s, t) == row[j].status = s /\ row'[j].status = t

Created(j) == Turns(j, "absent", "created") /\ j \notin unborn'
Started(j) ==
  /\ Turns(j, "created", "queued")
  /\ RunsOf(j) = {} /\ j \in workspace
  /\ \E c \in Clients : req[c].job = j /\ StartModify(c)
Refused(j) ==
  /\ Turns(j, "queued", "error")
  /\ Holders(j) = {}
  /\ \E x \in Workers : work[x].job = j /\ SubmitFailed(x)
Announced(j) ==
  /\ Turns(j, "queued", "running")
  /\ RunsOf(j) # {}
  /\ \E x \in Workers : work[x].job = j /\ SubmitRunning(x)
Reported(j) ==
  \/ Turns(j, "running", "finished") /\ \E w \in RunsOf(j) : phase[w] = "Succeeded"
  \/ Turns(j, "running", "error") /\ \E w \in RunsOf(j) : phase[w] = "Failed"

\* The changes of status that the promise allows.
Changes(j) ==
  \/ row'[j].status = row[j].status
  \/ Created(j) \/ Started(j) \/ Refused(j) \/ Announced(j) \/ Reported(j)

\* One row at most is written.
OnlyRow(k) == \A i \in Jobs : i # k => row'[i] = row[i]

\* A report that a poll or reconcile decided on is the one the promise asks for.
LEMMA ReportIsRight ==
  ASSUME PromiseInv, NEW j \in BatchJobs, j \notin unguarded, NEW v \in Verdicts, NEW wf, Modify(j, v, wf),
         row[j].status \in Launched,
         v = "finished" => Succeeded(j),
         v = "error" => \E w \in RunsOf(j) : phase[w] = "Failed"
  PROVE  Changes(j) /\ OnlyRow(j)
  <1>0. /\ AtMostOne(Holders(j)) /\ JobInv(j) /\ TypeOK /\ j \in Jobs /\ RowsInv
        /\ row \in [Jobs -> Rows]
    BY OfJob DEF PromiseInv, IInv, TypeOK
  <1>1. row'[j].status = v /\ OnlyRow(j)
    BY <1>0 DEF Modify, Exists, Launched, OnlyRow
  <1>2. \A u, w \in RunsOf(j) : u = w
    BY <1>0, Exclusive
  <1>3. v = "finished" => \E w \in RunsOf(j) : phase[w] = "Succeeded"
    BY DEF Succeeded, RunsOf
  <1>4. CASE row[j].status = "running"
    BY <1>1, <1>3, <1>4 DEF Changes, Reported, Turns, Verdicts
  <1>5. CASE row[j].status = "finished"
    <2>1. \E w \in RunsOf(j) : phase[w] = "Succeeded"
      BY <1>0, <1>5 DEF RowsInv, Succeeded, RunsOf
    <2>2. v # "error"
      BY <1>2, <2>1
    <2> QED
      BY <1>1, <1>5, <2>2 DEF Changes, Verdicts
  <1>6. CASE row[j].status = "error"
    <2>1. \A w \in RunsOf(j) : phase[w] = "Failed"
      BY <1>0, <1>6 DEF JobInv, ReportsInv
    <2>2. v # "finished"
      BY <1>3, <2>1
    <2> QED
      BY <1>1, <1>6, <2>2 DEF Changes, Verdicts
  <1> QED
    BY <1>4, <1>5, <1>6 DEF Launched

\* A step writes one row at most, and the row of a batch job as the promise allows; a
\* step that writes a row leaves the workflows alone.
LEMMA RowMoves ==
  ASSUME Undisturbed, PromiseInv, [Next]_vars
  PROVE  \/ UNCHANGED row
         \/ \E k \in Jobs : /\ OnlyRow(k) /\ UNCHANGED <<phase, owner>>
                            /\ k \in BatchJobs \ unguarded => Changes(k)
  <1> USE DEF vars, dbVars, redisVars, argoVars
  <1>0. /\ row \in [Jobs -> Rows] /\ req \in [Clients -> RequestStates]
        /\ work \in [Workers -> WorkStates] /\ rec \in RecStates
        /\ TypeOK /\ RequestsInv /\ WorkInv /\ RecInv /\ OwnersInv /\ UndisturbedInv
    BY DEF PromiseInv, IInv, TypeOK
  <1> DEFINE Goal == \E k \in Jobs : /\ OnlyRow(k) /\ UNCHANGED <<phase, owner>>
                                     /\ k \in BatchJobs \ unguarded => Changes(k)
  <1>1. ASSUME NEW k \in Jobs, NEW s, NEW wf, Modify(k, s, wf) PROVE OnlyRow(k)
    BY <1>0, <1>1 DEF Modify, OnlyRow
  <1>2. ASSUME NEW k \in BatchJobs, CreateJob(k) PROVE Goal
    <2>1. k \in Jobs
      BY DEF Jobs
    <2>2. OnlyRow(k) /\ row'[k].status = "created" /\ k \notin unborn'
      BY <1>0, <1>2, <2>1 DEF CreateJob, OnlyRow
    <2>3. k \notin unguarded => Changes(k)
      <3>1. k \notin unguarded => row[k].status = "absent"
        BY <1>2, OfJob DEF CreateJob, JobInv, StartsInv
      <3> QED
        BY <2>2, <3>1 DEF Changes, Created, Turns
    <2>4. UNCHANGED <<phase, owner>>
      BY <1>2 DEF CreateJob
    <2> QED
      BY <2>1, <2>2, <2>3, <2>4
  <1>3. ASSUME NEW c \in Clients, NEW k \in SyncJobs, SyncCreate(c, k) PROVE Goal
    <2>1. k \in Jobs /\ k \notin BatchJobs
      BY JobsAssumption DEF Jobs
    <2>2. OnlyRow(k) /\ UNCHANGED <<phase, owner>>
      BY <1>0, <1>3 DEF SyncCreate, OnlyRow
    <2> QED
      BY <2>1, <2>2
  <1>4. ASSUME NEW c \in Clients, StartModify(c) PROVE Goal
    <2>1. PICK k \in Jobs, n \in WfNames : k = req[c].job /\ n = req[c].wf
      BY <1>0, <1>4 DEF StartModify, RequestsInv, RequestStates
    <2>2. OnlyRow(k) /\ UNCHANGED <<phase, owner>>
      BY <1>1, <1>4, <2>1 DEF StartModify
    <2>3. ASSUME k \in BatchJobs \ unguarded PROVE Changes(k)
      <3>1. /\ row[k].status = "created" /\ AtMostOne(Holders(k))
            /\ Holders(k) # {} => k \in workspace
        BY <1>4, <2>1, <2>3, OfJob DEF StartModify, JobInv, StartsInv
      <3>2. c \in RequestRights(k)
        BY <1>4, <2>1 DEF StartModify, RequestRights
      <3>3. RunsOf(k) = {} /\ k \in workspace
        BY <3>1, <3>2, Exclusive, HolderIs
      <3>4. row'[k].status = "queued"
        BY <1>0, <1>4, <2>1, <3>1 DEF StartModify, Modify, Exists
      <3> QED
        BY <1>4, <2>1, <3>1, <3>3, <3>4 DEF Changes, Started, Turns
    <2> QED
      BY <2>2, <2>3
  <1>5. CASE ApiNext
    <2>1. \A c \in Clients : ~CancelWrite(c) /\ ~DeleteRow(c)
      BY <1>0 DEF CancelWrite, DeleteRow, UndisturbedInv
    <2> QED
      BY <1>2, <1>3, <1>4, <1>5, <2>1 DEF ApiNext, StartRead, CancelRead, DeleteRead, RequestStep,
         RequestLost, StartExists, StartMakedirs, StartSubmit, CancelStop, DeleteStop, DeleteRmtree, SyncEnqueue,
         SyncReturn
  <1>6. ASSUME NEW x \in Workers, SubmitFailed(x) PROVE Goal
    <2>1. PICK k \in Jobs, n \in WfNames : k = work[x].job /\ n = work[x].wf
      BY <1>0, <1>6 DEF SubmitFailed, At, WorkInv, WorkStates
    <2>2. OnlyRow(k) /\ UNCHANGED <<phase, owner>>
      BY <1>1, <1>6, <2>1 DEF SubmitFailed
    <2>3. ASSUME k \in BatchJobs \ unguarded PROVE Changes(k)
      <3>1. row[k].status = "queued" /\ Holders(k) = {}
        BY <1>6, <2>1, <2>3, OfJob DEF SubmitFailed, At, JobInv, LaunchesInv
      <3>2. row'[k].status = "error"
        BY <1>0, <1>6, <2>1, <3>1 DEF SubmitFailed, Modify, Exists
      <3> QED
        BY <1>6, <2>1, <3>1, <3>2 DEF Changes, Refused, Turns
    <2> QED
      BY <2>2, <2>3
  <1>7. ASSUME NEW x \in Workers, SubmitRunning(x) PROVE Goal
    <2>1. PICK k \in Jobs, n \in WfNames : k = work[x].job /\ n = work[x].wf
      BY <1>0, <1>7 DEF SubmitRunning, At, WorkInv, WorkStates
    <2>2. OnlyRow(k) /\ UNCHANGED <<phase, owner>>
      BY <1>1, <1>7, <2>1 DEF SubmitRunning
    <2>3. ASSUME k \in BatchJobs \ unguarded PROVE Changes(k)
      <3>1. row[k].status = "queued"
        BY <1>7, <2>1, <2>3, OfJob DEF SubmitRunning, At, JobInv, LaunchesInv
      <3>2. n \in RunsOf(k)
        BY <1>0, <1>7, <2>1 DEF SubmitRunning, At, WorkInv, Names, RunsOf
      <3>3. row'[k].status = "running"
        BY <1>0, <1>7, <2>1, <3>1 DEF SubmitRunning, Modify, Exists
      <3> QED
        BY <1>7, <2>1, <3>1, <3>2, <3>3 DEF Changes, Announced, Turns
    <2> QED
      BY <2>2, <2>3
  <1>8. ASSUME NEW x \in Workers, PollWrite(x) PROVE Goal
    <2>1. PICK k \in Jobs, n \in WfNames, v \in Verdicts :
            k = work[x].job /\ n = work[x].read /\ v = work[x].verdict
      BY <1>0, <1>8 DEF PollWrite, At, WorkInv, WorkStates
    <2>2. Modify(k, v, n) /\ OnlyRow(k) /\ UNCHANGED <<phase, owner>>
      BY <1>1, <1>8, <2>1 DEF PollWrite
    <2>3. ASSUME k \in BatchJobs \ unguarded PROVE Changes(k)
      <3>1. row[k].status \in Launched
        BY <1>8, <2>1, <2>3, OfJob DEF PollWrite, At, JobInv, WatchesInv
      <3>2. v = "finished" => Succeeded(k)
        BY <1>0, <2>1 DEF WorkInv
      <3>3. v = "error" => work[x].wf # None /\ phase[work[x].wf] = "Failed"
        BY <1>8, <2>1, <2>3, OfJob DEF PollWrite, At, JobInv, ReportsInv
      <3>4. v = "error" => \E w \in RunsOf(k) : phase[w] = "Failed"
        BY <1>0, <2>1, <3>3 DEF WorkInv, Names, RunsOf, WorkStates
      <3> QED
        BY <2>2, <2>3, <3>1, <3>2, <3>4, ReportIsRight
    <2> QED
      BY <2>2, <2>3
  <1>9. CASE WorkerNext
    BY <1>6, <1>7, <1>8, <1>9 DEF WorkerNext, WorkerStep, TaskLost, SchedulerTick, Take,
       SubmitCreate, SubmitRaises, EnqueuePoll, PollGet, PollQuery, Requeue
  <1>10. ASSUME RecWrite PROVE Goal
    <2>1. PICK k \in Jobs, n \in WfNames, v \in Verdicts :
            k = rec.job /\ n = rec.wf /\ v = rec.verdict
      BY <1>0, <1>10 DEF RecWrite, AtLoopHead, RecInv, RecStates
    <2>2. Modify(k, v, n) /\ OnlyRow(k) /\ UNCHANGED <<phase, owner>>
      BY <1>1, <1>10, <2>1 DEF RecWrite
    <2>3. ASSUME k \in BatchJobs \ unguarded PROVE Changes(k)
      <3>1. row[k].status \in Launched
        BY <2>1, <2>3, OfJob DEF JobInv, WatchesInv
      <3>2. v = "finished" => Succeeded(k)
        BY <1>0, <2>1 DEF RecInv
      <3>3. v = "error" => n # None /\ phase[n] = "Failed"
        BY <2>1, <2>3, OfJob DEF JobInv, ReportsInv
      <3>4. v = "error" => \E w \in RunsOf(k) : phase[w] = "Failed"
        BY <1>0, <2>1, <3>3 DEF RecInv, Names, RunsOf
      <3> QED
        BY <2>2, <2>3, <3>1, <3>2, <3>4, ReportIsRight
    <2> QED
      BY <2>2, <2>3
  <1>11. CASE RecNext
    BY <1>10, <1>11 DEF RecNext, RecStep, RecBegin, RecQuery, RecLost
  <1>12. CASE ArgoNext \/ UNCHANGED vars
    BY <1>12 DEF ArgoNext, ArgoRun, ExecutorStarts, ArgoSucceed, ArgoFail, ArgoExpire
  <1> QED
    BY <1>5, <1>9, <1>11, <1>12 DEF Next

\* So each batch job's status changes as the promise allows, or not at all.
LEMMA EachChanges ==
  ASSUME Undisturbed, PromiseInv, [Next]_vars, NEW j \in BatchJobs, j \notin unguarded
  PROVE  Changes(j)
  <1>1. CASE UNCHANGED row
    BY <1>1 DEF Changes
  <1>2. ASSUME NEW k \in Jobs, OnlyRow(k), k \in BatchJobs \ unguarded => Changes(k)
        PROVE  Changes(j)
    <2>1. CASE k = j
      BY <1>2, <2>1
    <2>2. CASE k # j
      BY <1>2, <2>2, OfJob DEF OnlyRow, Changes
    <2> QED
      BY <2>1, <2>2
  <1> QED
    BY <1>1, <1>2, RowMoves

-----------------------------------------------------------------------------
(* What a step leaves of each part of the invariant *)

\* Creating a job takes its id out of those that are left, and nothing puts one back.
LEMMA UnbornMoves ==
  ASSUME [Next]_vars, NEW j \in BatchJobs
  PROVE  /\ j \in unborn' => j \in unborn
         /\ j \in unborn /\ j \notin unborn' => CreateJob(j)
  <1> USE DEF vars, dbVars, redisVars, argoVars
  <1>0. j \in Jobs /\ j \notin SyncJobs
    BY JobsAssumption DEF Jobs
  <1>1. CASE ApiNext
    BY <1>0, <1>1 DEF ApiNext, CreateJob, StartRead, CancelRead, DeleteRead, SyncCreate,
         RequestStep, RequestLost, StartExists, StartMakedirs, StartModify, StartSubmit, CancelStop, CancelWrite,
         DeleteStop, DeleteRmtree, DeleteRow, SyncEnqueue, SyncReturn
  <1>2. CASE WorkerNext
    BY <1>2 DEF WorkerNext, WorkerStep, TaskLost, SchedulerTick, Take, SubmitCreate, SubmitRaises,
           SubmitFailed, SubmitRunning, EnqueuePoll, PollGet, PollQuery, PollWrite, Requeue
  <1>3. CASE RecNext \/ ArgoNext \/ UNCHANGED vars
    BY <1>3 DEF RecNext, RecStep, RecBegin, RecQuery, RecWrite, RecLost, ArgoNext, ArgoRun,
           ExecutorStarts, ArgoSucceed, ArgoFail, ArgoExpire
  <1> QED
    BY <1>1, <1>2, <1>3 DEF Next

\* How a request that holds j after a step came to.
LEMMA RequestMoves ==
  ASSUME Undisturbed, PromiseInv, [Next]_vars, NEW j \in BatchJobs, j \notin unguarded,
         NEW c \in Clients, req'[c].job = j, req'[c].pc # "idle"
  PROVE  \/ req'[c] = req[c]
         \/ StartRead(c, j) /\ req'[c].pc = "start_exists"
         \/ req[c].job = j /\ StartExists(c) /\ req'[c].pc = "start_makedirs"
         \/ req[c].job = j /\ StartMakedirs(c) /\ req'[c].pc = "start_modify"
         \/ req[c].job = j /\ StartModify(c) /\ req'[c].pc = "start_submit"
         \/ req[c].job = j /\ SyncEnqueue(c) /\ req'[c].pc = "sync_wait"
  <1> USE DEF vars, dbVars, redisVars, argoVars
  <1> DEFINE Goal == \/ req'[c] = req[c]
                     \/ StartRead(c, j) /\ req'[c].pc = "start_exists"
                     \/ req[c].job = j /\ StartExists(c) /\ req'[c].pc = "start_makedirs"
                     \/ req[c].job = j /\ StartMakedirs(c) /\ req'[c].pc = "start_modify"
                     \/ req[c].job = j /\ StartModify(c) /\ req'[c].pc = "start_submit"
                     \/ req[c].job = j /\ SyncEnqueue(c) /\ req'[c].pc = "sync_wait"
  <1>0. /\ req \in [Clients -> RequestStates] /\ req[c] \in RequestStates
        /\ j # None /\ j \notin SyncJobs /\ UndisturbedInv
    BY OfJob DEF PromiseInv, TypeOK
  <1>1. ASSUME NEW d \in Clients, Respond(d) PROVE Goal
    BY <1>0, <1>1 DEF Respond, IdleRequest
  <1>2. ASSUME NEW d \in Clients, NEW s \in RequestSteps, Goto(d, s)
        PROVE  IF d = c THEN req'[c].pc = s /\ req[c].job = j ELSE req'[c] = req[c]
    <2>1. PICK r \in RequestStates : r = [req[d] EXCEPT !.pc = s]
      BY <1>0 DEF RequestStates
    <2>2. req[d] \in RequestStates
      BY <1>0
    <2>3. r.pc = s /\ r.job = req[d].job
      BY <2>1, <2>2 DEF RequestStates
    <2>4. req' = [req EXCEPT ![d] = r]
      BY <1>2, <2>1 DEF Goto
    <2> QED
      BY <1>0, <2>3, <2>4
  <1>3. CASE UNCHANGED req
    BY <1>3
  <1>4. ASSUME NEW d \in Clients, NEW k \in Jobs, StartRead(d, k) PROVE Goal
    <2>1. CASE d = c
      BY <1>0, <1>4, <2>1 DEF StartRead, Accept
    <2>2. CASE d # c
      BY <1>0, <1>4, <2>2 DEF StartRead, Accept
    <2> QED
      BY <2>1, <2>2
  <1>5. ASSUME NEW d \in Clients, NEW k \in SyncJobs, SyncCreate(d, k) PROVE Goal
    BY <1>0, <1>5 DEF SyncCreate
  <1>6. ASSUME NEW d \in Clients, StartExists(d) \/ StartMakedirs(d) PROVE Goal
    <2>1. CASE StartExists(d)
      <3>1. Respond(d) \/ Goto(d, "start_makedirs")
        BY <2>1 DEF StartExists
      <3> QED
        BY <1>1, <1>2, <2>1, <3>1 DEF RequestSteps
    <2>2. CASE StartMakedirs(d)
      <3>1. Goto(d, "start_modify")
        BY <2>2 DEF StartMakedirs
      <3> QED
        BY <1>2, <2>2, <3>1 DEF RequestSteps
    <2> QED
      BY <1>6, <2>1, <2>2
  <1>7. ASSUME NEW d \in Clients, StartModify(d) PROVE Goal
    <2>1. Respond(d) \/ Goto(d, "start_submit")
      BY <1>7 DEF StartModify
    <2> QED
      BY <1>1, <1>2, <1>7, <2>1 DEF RequestSteps
  <1>8. ASSUME NEW d \in Clients, SyncEnqueue(d) PROVE Goal
    <2>1. Goto(d, "sync_wait")
      BY <1>8 DEF SyncEnqueue
    <2> QED
      BY <1>1, <1>2, <1>8, <2>1 DEF RequestSteps
  <1>9. ASSUME NEW d \in Clients, RequestStep(d) \/ RequestLost(d) PROVE Goal
    <2>1. \/ StartExists(d) \/ StartMakedirs(d) \/ StartModify(d) \/ SyncEnqueue(d) \/ Respond(d)
      BY <1>0, <1>9 DEF RequestStep, RequestLost, StartSubmit, CancelStop, CancelWrite, DeleteStop,
         DeleteRmtree, DeleteRow, SyncReturn, UndisturbedInv
    <2> QED
      BY <1>1, <1>6, <1>7, <1>8, <2>1
  <1>10. ASSUME NEW d \in Clients, NEW k \in Jobs PROVE ~CancelRead(d, k) /\ ~DeleteRead(d, k)
    BY DEF CancelRead, DeleteRead, Undisturbed
  <1>11. CASE ApiNext
    BY <1>3, <1>4, <1>5, <1>9, <1>10, <1>11 DEF ApiNext, CreateJob
  <1>12. CASE WorkerNext
    BY <1>3, <1>12 DEF WorkerNext, WorkerStep, TaskLost, SchedulerTick, Take, SubmitCreate,
       SubmitRaises, SubmitFailed, SubmitRunning, EnqueuePoll, PollGet, PollQuery, PollWrite,
       Requeue
  <1>13. CASE RecNext \/ ArgoNext \/ UNCHANGED vars
    BY <1>3, <1>13 DEF RecNext, RecStep, RecBegin, RecQuery, RecWrite, RecLost, ArgoNext,
       ArgoRun, ExecutorStarts, ArgoSucceed, ArgoFail, ArgoExpire
  <1> QED
    BY <1>11, <1>12, <1>13 DEF Next

\* A request that started a job made the directory first, and writes the row once.
LEMMA StartsKept ==
  ASSUME Undisturbed, PromiseInv, [Next]_vars, NEW j \in BatchJobs,
         j \notin unguarded, j \notin unguarded'
  PROVE  StartsInv(j)'
  <1>0. /\ StartsInv(j) /\ AtMostOne(Holders(j)) /\ (Holders(j) # {} => j \in workspace)
        /\ MakingInv(j)
        /\ req \in [Clients -> RequestStates] /\ row \in [Jobs -> Rows] /\ j \in Jobs
        /\ j \notin SyncJobs
    BY OfJob DEF JobInv, TypeOK
  <1>1. Changes(j)
    BY EachChanges
  <1>2. row'[j].status = "absent" <=> j \in unborn'
    <2>1. CreateJob(j) => row'[j].status # "absent" /\ j \notin unborn'
      BY <1>0 DEF CreateJob
    <2> QED
      BY <1>0, <1>1, <2>1, UnbornMoves DEF Changes, StartsInv, Created, Started, Refused,
         Announced, Reported, Turns
  <1>3. j \notin workspace' => row'[j].status \in {"absent", "created"}
    <2>1. j \in workspace => j \in workspace'
      BY DirectoryStays
    <2> QED
      BY <1>0, <1>1, <2>1 DEF Changes, StartsInv, Created, Started, Refused, Announced, Reported,
         Turns
  <1>4. ASSUME NEW c \in Clients, req'[c].job = j, req'[c].pc # "idle"
        PROVE  /\ row'[j].status # "absent"
               /\ req'[c].pc = "start_modify" => row'[j].status = "created"
               /\ req'[c].pc = "start_submit" => row'[j].status = "queued"
    <2>1. CASE req'[c] = req[c]
      <3>1. /\ row[j].status # "absent"
            /\ req[c].pc = "start_modify" => row[j].status = "created"
            /\ req[c].pc = "start_submit" => row[j].status = "queued"
        BY <1>0, <1>4, <2>1 DEF StartsInv
      <3>2. req[c].pc \in {"start_modify", "start_submit"} => c \in RequestRights(j)
        BY <1>4, <2>1 DEF RequestRights
      <3>3. \A d \in Clients : req[d].job = j /\ StartModify(d) => d \in RequestRights(j)
        BY DEF StartModify, RequestRights
      <3>4. StartModify(c) => req'[c].pc # "start_modify"
        <4>1. StartModify(c) => Respond(c) \/ Goto(c, "start_submit")
          BY DEF StartModify
        <4>2. PICK r \in RequestStates : r = [req[c] EXCEPT !.pc = "start_submit"]
          BY <1>0 DEF RequestStates, RequestSteps
        <4>3. req[c] \in RequestStates
          BY <1>0
        <4>4. r.pc = "start_submit"
          BY <4>2, <4>3 DEF RequestStates
        <4>5. Goto(c, "start_submit") => req' = [req EXCEPT ![c] = r]
          BY <4>2 DEF Goto
        <4>6. Respond(c) => req'[c].pc = "idle"
          BY <1>0 DEF Respond, IdleRequest
        <4> QED
          BY <1>0, <4>1, <4>4, <4>5, <4>6
      <3>5. req[c].pc = "start_modify" => ~Started(j)
        BY <1>0, <2>1, <3>2, <3>3, <3>4, Exclusive DEF Started, StartModify
      <3>6. req[c].pc = "start_submit" => Holders(j) # {} /\ RunsOf(j) = {}
        BY <1>0, <3>2, Exclusive, HolderIs
      <3> QED
        BY <1>1, <2>1, <3>1, <3>5, <3>6 DEF Changes, Created, Started, Refused, Announced, Reported,
           Turns
    <2>2. CASE StartRead(c, j) /\ req'[c].pc = "start_exists"
      BY <2>2 DEF StartRead, Exists, dbVars
    <2>3. CASE req[c].job = j /\ StartExists(c) /\ req'[c].pc = "start_makedirs"
      BY <1>0, <2>3 DEF StartExists, StartsInv
    <2>6. CASE req[c].job = j /\ StartMakedirs(c) /\ req'[c].pc = "start_modify"
      <3>1. c \in Making(j) /\ req[c].pc = "start_makedirs" /\ row' = row
        BY <2>6 DEF StartMakedirs, Making
      <3>2. j \notin workspace
        BY <1>0, <3>1 DEF MakingInv
      <3> QED
        BY <1>0, <2>6, <3>1, <3>2 DEF StartsInv
    <2>4. CASE req[c].job = j /\ StartModify(c) /\ req'[c].pc = "start_submit"
      <3>1. row[j].status = "created"
        BY <1>0, <2>4 DEF StartsInv, StartModify
      <3>2. row'[j].status = "queued"
        BY <1>0, <2>4, <3>1 DEF StartModify, Modify, Exists
      <3> QED
        BY <2>4, <3>2
    <2>5. CASE req[c].job = j /\ SyncEnqueue(c) /\ req'[c].pc = "sync_wait"
      BY <1>0, <2>5 DEF SyncEnqueue, StartsInv, dbVars
    <2> QED
      BY <1>4, <2>1, <2>2, <2>3, <2>4, <2>5, <2>6, RequestMoves
  <1> QED
    BY <1>2, <1>3, <1>4 DEF StartsInv

\* How a worker that holds j after a step came to.
LEMMA WorkMoves ==
  ASSUME TypeOK, [Next]_vars, NEW j \in Jobs, NEW x \in Workers,
         work'[x].job = j, work'[x].pc # "idle"
  PROVE  \/ work'[x] = work[x]
         \/ /\ Take(x) /\ Head(queue).job = j
            /\ work'[x].pc = Head(queue).kind /\ work'[x].verdict = None
         \/ /\ work[x].job = j
            /\ \/ SubmitCreate(x) /\ work'[x].pc = "created"
               \/ SubmitRaises(x) /\ work'[x].pc = "failed"
               \/ SubmitRunning(x) /\ work'[x].pc = "announce"
               \/ PollGet(x) /\ work'[x].pc = "query"
               \/ /\ PollQuery(x) /\ work'[x].pc = "write" /\ work'[x].wf = work[x].wf
                  /\ \E answer \in GetWorkflow(work[x].wf) : work'[x].verdict = PollVerdict(answer)
  <1> USE DEF vars, dbVars, redisVars, argoVars
  <1> DEFINE Goal ==
         \/ work'[x] = work[x]
         \/ /\ Take(x) /\ Head(queue).job = j
            /\ work'[x].pc = Head(queue).kind /\ work'[x].verdict = None
         \/ /\ work[x].job = j
            /\ \/ SubmitCreate(x) /\ work'[x].pc = "created"
               \/ SubmitRaises(x) /\ work'[x].pc = "failed"
               \/ SubmitRunning(x) /\ work'[x].pc = "announce"
               \/ PollGet(x) /\ work'[x].pc = "query"
               \/ /\ PollQuery(x) /\ work'[x].pc = "write" /\ work'[x].wf = work[x].wf
                  /\ \E answer \in GetWorkflow(work[x].wf) : work'[x].verdict = PollVerdict(answer)
  <1>0. work \in [Workers -> WorkStates] /\ j # None
    BY JobsAssumption DEF TypeOK
  <1>1. ASSUME NEW y \in Workers, NEW r, work' = [work EXCEPT ![y] = r]
        PROVE  IF y = x THEN work'[x] = r ELSE work'[x] = work[x]
    BY <1>0, <1>1
  <1>2. CASE UNCHANGED work
    BY <1>2
  <1>3. ASSUME NEW y \in Workers, Done(y) PROVE Goal
    BY <1>0, <1>3 DEF Done, IdleWork
  <1>4. ASSUME NEW y \in Workers, Take(y) PROVE Goal
    <2>1. PICK r : /\ r = [IdleWork EXCEPT !.pc = Head(queue).kind, !.job = Head(queue).job,
                                           !.wf = Head(queue).wf]
                   /\ work' = [work EXCEPT ![y] = r]
      BY <1>4 DEF Take
    <2>2. r.pc = Head(queue).kind /\ r.job = Head(queue).job /\ r.verdict = None
      BY <2>1 DEF IdleWork
    <2>3. IF y = x THEN work'[x] = r ELSE work'[x] = work[x]
      BY <1>1, <2>1
    <2> QED
      BY <1>4, <2>2, <2>3
  <1>5. ASSUME NEW y \in Workers, SubmitCreate(y) PROVE Goal
    <2>1. PICK w \in Workflows :
            work' = [work EXCEPT ![y] = [@ EXCEPT !.pc = "created", !.wf = w]]
      BY <1>5 DEF SubmitCreate
    <2>2. PICK r : r = [work[y] EXCEPT !.pc = "created", !.wf = w]
      OBVIOUS
    <2>3. work[y] \in WorkStates /\ work' = [work EXCEPT ![y] = r]
      BY <1>0, <2>1, <2>2
    <2>4. r.job = work[y].job /\ r.pc = "created"
      BY <2>2, <2>3 DEF WorkStates
    <2>5. IF y = x THEN work'[x] = r ELSE work'[x] = work[x]
      BY <1>1, <2>3
    <2> QED
      BY <1>5, <2>4, <2>5
  <1>6. ASSUME NEW y \in Workers, NEW s \in WorkSteps,
               work' = [work EXCEPT ![y] = [work[y] EXCEPT !.pc = s]]
        PROVE  IF y = x THEN work'[x].pc = s /\ work[x].job = j ELSE work'[x] = work[x]
    <2>1. PICK r : r = [work[y] EXCEPT !.pc = s]
      OBVIOUS
    <2>2. work[y] \in WorkStates /\ work' = [work EXCEPT ![y] = r]
      BY <1>0, <1>6, <2>1
    <2>3. r.job = work[y].job /\ r.pc = s
      BY <2>1, <2>2 DEF WorkStates
    <2>4. IF y = x THEN work'[x] = r ELSE work'[x] = work[x]
      BY <1>1, <2>2
    <2> QED
      BY <2>3, <2>4
  <1>7. ASSUME NEW y \in Workers, SubmitRaises(y) PROVE Goal
    <2>1. work' = [work EXCEPT ![y] = [work[y] EXCEPT !.pc = "failed"]]
      BY <1>7 DEF SubmitRaises
    <2> QED
      BY <1>6, <1>7, <2>1 DEF WorkSteps
  <1>8. ASSUME NEW y \in Workers, SubmitRunning(y) PROVE Goal
    <2>1. work' = [work EXCEPT ![y] = [work[y] EXCEPT !.pc = "announce"]] \/ Done(y)
      BY <1>8 DEF SubmitRunning
    <2> QED
      BY <1>3, <1>6, <1>8, <2>1 DEF WorkSteps
  <1>9. ASSUME NEW y \in Workers, PollGet(y) PROVE Goal
    <2>1. PICK n : n = row[work[y].job].wf
      OBVIOUS
    <2>2. PICK r : r = [work[y] EXCEPT !.pc = "query", !.read = n]
      OBVIOUS
    <2>3. work' = [work EXCEPT ![y] = r] \/ Done(y)
      BY <1>9, <2>1, <2>2 DEF PollGet
    <2>4. work[y] \in WorkStates
      BY <1>0
    <2>5. r.pc = "query" /\ r.job = work[y].job
      BY <2>2, <2>4 DEF WorkStates
    <2> QED
      BY <1>1, <1>3, <1>9, <2>3, <2>5
  <1>10. ASSUME NEW y \in Workers, PollQuery(y) PROVE Goal
    <2>1. PICK answer \in GetWorkflow(work[y].wf) :
            IF PollVerdict(answer) = "again"
            THEN Done(y)
            ELSE work' = [work EXCEPT ![y] = [@ EXCEPT !.pc = "write",
                                                  !.verdict = PollVerdict(answer)]]
      BY <1>10 DEF PollQuery
    <2>2. PICK v : v = PollVerdict(answer)
      OBVIOUS
    <2>3. PICK r : r = [work[y] EXCEPT !.pc = "write", !.verdict = v]
      OBVIOUS
    <2>4. work' = [work EXCEPT ![y] = r] \/ Done(y)
      BY <2>1, <2>2, <2>3
    <2>5. work[y] \in WorkStates
      BY <1>0
    <2>6. r.pc = "write" /\ r.job = work[y].job /\ r.verdict = v /\ r.wf = work[y].wf
      BY <2>3, <2>5 DEF WorkStates
    <2>7. CASE Done(y)
      BY <1>3, <2>7
    <2>8. CASE work' = [work EXCEPT ![y] = r]
      <3>1. CASE y = x
        BY <1>1, <1>10, <2>2, <2>6, <2>8, <3>1
      <3>2. CASE y # x
        BY <1>1, <2>8, <3>2
      <3> QED
        BY <3>1, <3>2
    <2> QED
      BY <2>4, <2>7, <2>8
  <1>11. CASE WorkerNext
    BY <1>2, <1>3, <1>4, <1>5, <1>7, <1>8, <1>9, <1>10, <1>11 DEF WorkerNext, WorkerStep, TaskLost,
       SchedulerTick, SubmitFailed, EnqueuePoll, PollWrite, Requeue
  <1>12. CASE ApiNext
    BY <1>2, <1>12 DEF ApiNext, CreateJob, StartRead, CancelRead, DeleteRead, SyncCreate,
       RequestStep, RequestLost, StartExists, StartMakedirs, StartModify, StartSubmit, CancelStop, CancelWrite,
       DeleteStop, DeleteRmtree, DeleteRow, SyncEnqueue, SyncReturn
  <1>13. CASE RecNext \/ ArgoNext \/ UNCHANGED vars
    BY <1>2, <1>13 DEF RecNext, RecStep, RecBegin, RecQuery, RecWrite, RecLost, ArgoNext,
       ArgoRun, ExecutorStarts, ArgoSucceed, ArgoFail, ArgoExpire
  <1> QED
    BY <1>11, <1>12, <1>13 DEF Next

\* How the tasks that wait in Redis change.
LEMMA RedisMoves ==
  ASSUME IInv, [Next]_vars
  PROVE  \/ UNCHANGED redisVars
         \/ \E c \in Clients : StartSubmit(c) /\ \E k \in Jobs, n \in WfNames :
              req[c].job = k /\ QueueToSubmit(k, n)
         \/ \E c \in Clients : SyncEnqueue(c) /\ UNCHANGED delayed /\ \E t \in Tasks :
              t.kind = "submit" /\ t.job = req[c].job /\ queue' = Append(queue, t)
         \/ \E x \in Workers : Take(x)
         \/ \E x \in Workers : (EnqueuePoll(x) \/ PollQuery(x)) /\ UNCHANGED delayed /\ \E t \in Tasks :
              t.kind = "poll" /\ t.job = work[x].job /\ queue' = Append(queue, t)
         \/ \E x \in Workers : Requeue(x) /\ \E k \in Jobs, n \in WfNames :
              work[x].job = k /\ QueueToSubmit(k, n)
         \/ SchedulerTick
  <1> DEFINE Goal ==
         \/ UNCHANGED redisVars
         \/ \E c \in Clients : StartSubmit(c) /\ \E k \in Jobs, n \in WfNames :
              req[c].job = k /\ QueueToSubmit(k, n)
         \/ \E c \in Clients : SyncEnqueue(c) /\ UNCHANGED delayed /\ \E t \in Tasks :
              t.kind = "submit" /\ t.job = req[c].job /\ queue' = Append(queue, t)
         \/ \E x \in Workers : Take(x)
         \/ \E x \in Workers : (EnqueuePoll(x) \/ PollQuery(x)) /\ UNCHANGED delayed /\ \E t \in Tasks :
              t.kind = "poll" /\ t.job = work[x].job /\ queue' = Append(queue, t)
         \/ \E x \in Workers : Requeue(x) /\ \E k \in Jobs, n \in WfNames :
              work[x].job = k /\ QueueToSubmit(k, n)
         \/ SchedulerTick
  <1> USE DEF vars, dbVars, redisVars, argoVars
  <1>0. RequestsInv /\ WorkInv /\ (\A c \in Clients : req[c] \in RequestStates)
        /\ \A x \in Workers : work[x] \in WorkStates
    BY DEF IInv, TypeOK
  <1>1. ASSUME NEW c \in Clients, StartSubmit(c) PROVE Goal
    <2>1. req[c].job \in Jobs /\ req[c].wf \in WfNames
      BY <1>0, <1>1 DEF StartSubmit, RequestsInv, RequestStates
    <2> QED
      BY <1>1, <2>1 DEF StartSubmit
  <1>2. ASSUME NEW k \in Jobs, NEW n \in WfNames, NEW kind \in {"submit", "poll", "requeue"}
        PROVE  \E t \in Tasks : t = Task(kind, k, n) /\ t.kind = kind /\ t.job = k
    <2>1. Task(kind, k, n) \in Tasks
      BY DEF Task, Tasks
    <2>2. Task(kind, k, n).kind = kind /\ Task(kind, k, n).job = k
      BY DEF Task
    <2> QED
      BY <2>1, <2>2
  <1>3. ASSUME NEW c \in Clients, SyncEnqueue(c) PROVE Goal
    <2>1. req[c].job \in Jobs
      BY <1>0, <1>3 DEF SyncEnqueue, RequestsInv, RequestStates
    <2>2. PICK t \in Tasks : t = Task("submit", req[c].job, None) /\ t.kind = "submit" /\ t.job = req[c].job
      BY <1>2, <2>1
    <2>3. queue' = Append(queue, t) /\ UNCHANGED delayed
      BY <1>3, <2>2 DEF SyncEnqueue
    <2> QED
      BY <1>3, <2>2, <2>3
  <1>4. ASSUME NEW x \in Workers, EnqueuePoll(x) \/ PollQuery(x) PROVE Goal
    <2>1. work[x].job \in Jobs /\ work[x].wf \in WfNames
      BY <1>0, <1>4 DEF EnqueuePoll, PollQuery, At, WorkInv, WorkStates
    <2>2. PICK t \in Tasks : t = Task("poll", work[x].job, work[x].wf) /\ t.kind = "poll" /\ t.job = work[x].job
      BY <1>2, <2>1
    <2>3. (queue' = Append(queue, t) \/ queue' = queue) /\ UNCHANGED delayed
      BY <1>4, <2>2 DEF EnqueuePoll, PollQuery
    <2> QED
      BY <1>4, <2>2, <2>3
  <1>5. ASSUME NEW x \in Workers, Requeue(x) PROVE Goal
    <2>1. work[x].job \in Jobs /\ work[x].wf \in WfNames
      BY <1>0, <1>5 DEF Requeue, At, WorkInv, WorkStates
    <2> QED
      BY <1>5, <2>1 DEF Requeue
  <1>6. CASE ApiNext
    BY <1>1, <1>3, <1>6 DEF ApiNext, CreateJob, StartRead, CancelRead, DeleteRead, SyncCreate,
       RequestStep, RequestLost, StartExists, StartMakedirs, StartModify, CancelStop, CancelWrite,
       DeleteStop, DeleteRmtree, DeleteRow, SyncReturn
  <1>7. CASE WorkerNext
    BY <1>4, <1>5, <1>7 DEF WorkerNext, WorkerStep, TaskLost, SubmitCreate, SubmitRaises,
       SubmitFailed, SubmitRunning, PollGet, PollWrite
  <1>8. CASE RecNext \/ ArgoNext \/ UNCHANGED vars
    BY <1>8 DEF RecNext, RecStep, RecBegin, RecQuery, RecWrite, RecLost, ArgoNext,
       ArgoRun, ExecutorStarts, ArgoSucceed, ArgoFail, ArgoExpire
  <1> QED
    BY <1>6, <1>7, <1>8 DEF Next

\* A job waits to be submitted only from queued on until its submission has been tried.
LEMMA WaitsKept ==
  ASSUME Undisturbed, PromiseInv, [Next]_vars, NEW j \in BatchJobs,
         j \notin unguarded, j \notin unguarded'
  PROVE  WaitsInv(j)'
  <1>0. /\ JobInv(j) /\ AtMostOne(Holders(j)) /\ TypeOK /\ IInv /\ SyncInv /\ j \in Jobs /\ j \notin SyncJobs
        /\ queue \in Seq(Tasks) /\ delayed \in Seq(Tasks)
    BY OfJob DEF PromiseInv, TypeOK
  <1>1. Waits(j) => row'[j].status = "queued"
    <2>1. Waits(j) => row[j].status = "queued" /\ Holders(j) # {} /\ RunsOf(j) = {}
      BY <1>0, Exclusive, HolderIs DEF JobInv, WaitsInv, Waits
    <2>2. Changes(j)
      BY EachChanges
    <2> QED
      BY <2>1, <2>2 DEF Changes, Created, Started, Refused, Announced, Reported, Turns
  <1>2. WorkRights(j)' # {} => Waits(j)
    <2> SUFFICES ASSUME NEW x \in WorkRights(j)' PROVE Waits(j)
      OBVIOUS
    <2>1. x \in Workers /\ work'[x].job = j /\ work'[x].pc \in {"submit", "requeue"}
      BY DEF WorkRights
    <2>2. CASE work'[x] = work[x]
      BY <2>1, <2>2 DEF WorkRights, Waits
    <2>3. CASE Take(x) /\ Head(queue).job = j /\ work'[x].pc = Head(queue).kind
      BY <1>0, <2>1, <2>3, RightsShifted DEF Take, IsRight, Waits
    <2> QED
      BY <1>0, <2>1, <2>2, <2>3, WorkMoves
  <1>3. RightsIn(queue, j)' # {} \/ RightsIn(delayed, j)' # {} => Waits(j) \/ row'[j].status = "queued"
    <2> DEFINE Goal == RightsIn(queue, j)' # {} \/ RightsIn(delayed, j)' # {}
                         => Waits(j) \/ row'[j].status = "queued"
    <2>0. RightsIn(queue, j)' = RightsIn(queue', j) /\ RightsIn(delayed, j)' = RightsIn(delayed', j)
      BY DEF RightsIn
    <2>1. CASE UNCHANGED redisVars
      BY <2>0, <2>1 DEF redisVars, Waits
    <2>2. ASSUME NEW k \in Jobs, NEW n \in WfNames, QueueToSubmit(k, n), k # j PROVE Goal
      <3>1. PICK t \in Tasks : t.job = k /\
              \/ delayed' = Append(delayed, t) /\ queue' = queue
              \/ queue' = Append(queue, t) /\ delayed' = delayed
        BY <2>2 DEF QueueToSubmit, Task, Tasks
      <3>2. ~IsRight(t, j)
        BY <2>2, <3>1 DEF IsRight
      <3> QED
        BY <1>0, <2>0, <3>1, <3>2, RightsAppended DEF Waits
    <2>3. ASSUME NEW c \in Clients, StartSubmit(c), NEW k \in Jobs, NEW n \in WfNames,
                 req[c].job = k, QueueToSubmit(k, n)
          PROVE  Goal
      <3>1. k = j => row'[j].status = "queued"
        BY <1>0, <2>3 DEF StartSubmit, JobInv, StartsInv, dbVars
      <3> QED
        BY <2>2, <2>3, <3>1
    <2>4. ASSUME NEW x \in Workers, Requeue(x), NEW k \in Jobs, NEW n \in WfNames,
                 work[x].job = k, QueueToSubmit(k, n)
          PROVE  Goal
      <3>1. k = j => x \in WorkRights(j)
        BY <2>4 DEF Requeue, At, WorkRights
      <3> QED
        BY <2>2, <2>4, <3>1 DEF Waits
    <2>5. ASSUME NEW t \in Tasks, ~IsRight(t, j), queue' = Append(queue, t), UNCHANGED delayed
          PROVE  Goal
      BY <1>0, <2>0, <2>5, RightsAppended DEF Waits
    <2>6. ASSUME NEW c \in Clients, SyncEnqueue(c) PROVE req[c].job # j
      BY <1>0, <2>6 DEF SyncEnqueue, SyncInv
    <2>7. ASSUME NEW x \in Workers, Take(x) PROVE Goal
      BY <1>0, <2>0, <2>7, RightsShifted DEF Take, Waits
    <2>8. CASE SchedulerTick
      <3>1. PICK t \in Tasks : t = Head(delayed)
        BY <1>0, <2>8 DEF SchedulerTick
      <3>2. queue' = Append(queue, t) /\ delayed' = Tail(delayed) /\ delayed # <<>>
        BY <2>8, <3>1 DEF SchedulerTick
      <3>3. IsRight(t, j) => RightsIn(delayed, j) # {}
        BY <1>0, <3>1, <3>2, RightsShifted
      <3>4. RightsIn(delayed, j)' # {} => RightsIn(delayed, j) # {}
        BY <1>0, <2>0, <3>2, RightsShifted
      <3>5. ~IsRight(t, j) => RightsIn(queue, j)' \subseteq RightsIn(queue, j)
        BY <1>0, <2>0, <3>2, RightsAppended
      <3> QED
        BY <3>3, <3>4, <3>5 DEF Waits
    <2> QED
      BY <1>0, <2>1, <2>3, <2>4, <2>5, <2>6, <2>7, <2>8, RedisMoves DEF IsRight
  <1> QED
    BY <1>1, <1>2, <1>3 DEF WaitsInv, Waits

-----------------------------------------------------------------------------
(* Submissions that have been tried *)

\* A worker that holds a workflow it has just created names a run of its job.
LEMMA CreatedRuns ==
  ASSUME IInv, NEW j \in Jobs, NEW x \in Workers, work[x].job = j,
         work[x].pc \in {"created", "announce", "poll", "query"}
  PROVE  work[x].wf \in RunsOf(j)
  BY DEF IInv, TypeOK, WorkInv, WorkStates, Names, RunsOf

\* A submission that fails before there is a workflow uses its right up.
LEMMA RaiseLeavesNone ==
  ASSUME "argo" \notin Faults, IInv, NEW j \in Jobs, AtMostOne(Holders(j)),
         NEW x \in Workers, work[x].job = j, SubmitRaises(x)
  PROVE  Holders(j)' = {}
  <1> USE DEF dbVars, redisVars, argoVars
  <1>0. work \in [Workers -> WorkStates]
    BY DEF IInv, TypeOK
  <1>1. x \in WorkRights(j)
    BY DEF SubmitRaises, At, WorkRights
  <1>2. UNCHANGED <<queue, delayed, req, owner>>
    BY DEF SubmitRaises
  <1>3. /\ RightsIn(queue, j)' = {} /\ RightsIn(delayed, j)' = {}
        /\ RequestRights(j)' = {} /\ RunsOf(j)' = {}
    <2>1. /\ RightsIn(queue, j)' = RightsIn(queue, j) /\ RightsIn(delayed, j)' = RightsIn(delayed, j)
          /\ RequestRights(j)' = RequestRights(j) /\ RunsOf(j)' = RunsOf(j)
      BY <1>2 DEF RightsIn, RequestRights, RunsOf
    <2> QED
      BY <1>1, <2>1, Exclusive
  <1>4. WorkRights(j)' = {}
    <2>1. PICK r : r = [work[x] EXCEPT !.pc = "failed"]
      OBVIOUS
    <2>2. work[x] \in WorkStates /\ work' = [work EXCEPT ![x] = r]
      BY <1>0, <2>1 DEF SubmitRaises
    <2>3. r.pc = "failed"
      BY <2>1, <2>2 DEF WorkStates
    <2>4. work'[x].pc = "failed" /\ \A y \in Workers : y # x => work'[y] = work[y]
      BY <1>0, <2>2, <2>3
    <2>5. WorkRights(j)' = WorkRights(j) \ {x}
      BY <2>4, WorkMoved
    <2> QED
      BY <1>1, <2>5, Exclusive
  <1>5. \A a : a \notin Holders(j)'
    BY <1>3, <1>4, HolderKindsNext
  <1> QED
    BY <1>5

\* One worker at a time is about to say what became of a submission, and says it of a
\* queued job.
LEMMA LaunchesKept ==
  ASSUME Undisturbed, PromiseInv, [Next]_vars, NEW j \in BatchJobs,
         j \notin unguarded, j \notin unguarded'
  PROVE  LaunchesInv(j)'
  <1>0. /\ JobInv(j) /\ LaunchesInv(j) /\ WaitsInv(j) /\ AtMostOne(Holders(j))
        /\ (Holders(j) # {} => j \in workspace)
        /\ TypeOK /\ IInv /\ SyncInv /\ RightsInv /\ j \in Jobs /\ UndisturbedInv /\ RequestsInv
        /\ queue \in Seq(Tasks) /\ work \in [Workers -> WorkStates] /\ "argo" \notin Faults
    BY OfJob DEF PromiseInv, TypeOK, JobInv, IInv, Undisturbed
  <1> DEFINE Tried(x) == work[x].job = j /\ work[x].pc \in {"failed", "created"}
             Kept1(x) == Tried(x) /\ work'[x] = work[x]
             Now(x)   == /\ x \in WorkRights(j) /\ work[x].job = j
                         /\ \/ SubmitCreate(x) /\ work'[x].pc = "created"
                            \/ SubmitRaises(x) /\ work'[x].pc = "failed"
  <1>1. ASSUME NEW x \in Workers, work'[x].job = j, work'[x].pc \in {"failed", "created"}
        PROVE  Kept1(x) \/ Now(x)
    <2>1. ~(Take(x) /\ work'[x].pc = Head(queue).kind)
      <3>1. Take(x) => Head(queue) \in Tasks
        BY <1>0, SeqTake DEF Take
      <3> QED
        BY <1>1, <3>1 DEF Tasks
    <2>2. SubmitCreate(x) \/ SubmitRaises(x) => work[x].pc = "submit"
      BY DEF SubmitCreate, SubmitRaises, At
    <2>3. \/ work'[x] = work[x]
          \/ /\ work[x].job = j
             /\ \/ SubmitCreate(x) /\ work'[x].pc = "created"
                \/ SubmitRaises(x) /\ work'[x].pc = "failed"
      BY <1>0, <1>1, <2>1, WorkMoves
    <2>4. CASE work'[x] = work[x]
      BY <1>1, <2>4
    <2>5. CASE work'[x] # work[x]
      BY <2>2, <2>3, <2>5 DEF WorkRights
    <2> QED
      BY <2>4, <2>5
  <1>2. j \in workspace => j \in workspace'
    BY DirectoryStays
  <1>3. ASSUME NEW x \in Workers, Now(x)
        PROVE  row[j].status = "queued" /\ RunsOf(j) = {} /\ Holders(j) # {}
               /\ \A y \in Workers : ~Tried(y)
    <2>1. RunsOf(j) = {} /\ Holders(j) # {}
      BY <1>0, <1>3, Exclusive, HolderIs
    <2>2. row[j].status = "queued"
      BY <1>0, <1>3 DEF WaitsInv, Waits
    <2>3. ASSUME NEW y \in Workers, Tried(y) PROVE FALSE
      BY <1>0, <2>1, <2>3, CreatedRuns DEF LaunchesInv
    <2> QED
      BY <2>1, <2>2, <2>3
  <1>4. ASSUME NEW x \in Workers, Kept1(x) \/ Now(x)
        PROVE  row'[j].status = "queued" /\ j \in workspace'
    <2>1. row[j].status = "queued" /\ j \in workspace
      BY <1>0, <1>3, <1>4 DEF LaunchesInv
    <2>2. ~Refused(j)
      <3> SUFFICES ASSUME Refused(j) PROVE FALSE
        OBVIOUS
      <3>1. PICK y \in Workers : work[y].job = j /\ SubmitFailed(y)
        BY DEF Refused
      <3>2. Tried(y) /\ Kept1(x) /\ work'[y].pc = "idle"
        BY <1>0, <1>3, <1>4, <3>1 DEF Refused, SubmitFailed, At, Done, IdleWork
      <3>3. x = y
        BY <1>0, <3>2 DEF LaunchesInv
      <3> QED
        BY <3>2, <3>3
    <2>3. ~Announced(j)
      <3> SUFFICES ASSUME Announced(j) PROVE FALSE
        OBVIOUS
      <3>1. PICK y \in Workers : work[y].job = j /\ SubmitRunning(y)
        BY DEF Announced
      <3>2. Tried(y) /\ Kept1(x)
        BY <1>3, <1>4, <3>1 DEF Announced, SubmitRunning, At
      <3>3. x = y
        BY <1>0, <3>2 DEF LaunchesInv
      <3>4. work'[y] # work[y]
        <4>1. CASE Done(y)
          BY <1>0, <3>1, <4>1 DEF Done, IdleWork, SubmitRunning, At
        <4>2. ASSUME ~Done(y) PROVE work'[y] # work[y]
          <5>1. PICK r : r = [work[y] EXCEPT !.pc = "announce"]
            OBVIOUS
          <5>2. work' = [work EXCEPT ![y] = r] /\ work[y] \in WorkStates
            BY <1>0, <3>1, <4>2, <5>1 DEF SubmitRunning
          <5>3. r.pc = "announce" /\ work[y].pc = "created"
            BY <3>1, <5>1, <5>2 DEF WorkStates, SubmitRunning, At
          <5> QED
            BY <1>0, <5>2, <5>3
        <4> QED
          BY <4>1, <4>2
      <3> QED
        BY <3>2, <3>3, <3>4
    <2> QED
      BY <1>2, <2>1, <2>2, <2>3, EachChanges DEF Changes, Created, Started, Reported, Turns
  <1>5. ASSUME NEW x \in Workers, Kept1(x) \/ Now(x), work'[x].pc = "failed"
        PROVE  Holders(j)' = {}
    <2>1. CASE Kept1(x)
      <3>1. Holders(j) = {} /\ j \in workspace
        BY <1>0, <1>5, <2>1 DEF LaunchesInv
      <3> QED
        BY <1>0, <3>1, StepPasses DEF Passed, Granted
    <2>2. CASE Now(x)
      <3>1. SubmitRaises(x)
        BY <1>5, <2>2
      <3> QED
        BY <1>0, <2>2, <3>1, RaiseLeavesNone
    <2> QED
      BY <1>5, <2>1, <2>2
  <1>6. ASSUME NEW x \in Workers, NEW y \in Workers, Kept1(x) \/ Now(x), Kept1(y) \/ Now(y)
        PROVE  x = y
    <2>1. CASE Now(x) \/ Now(y)
      BY <1>0, <1>3, <1>6, <2>1, Exclusive
    <2>2. CASE Kept1(x) /\ Kept1(y)
      BY <1>0, <2>2 DEF LaunchesInv
    <2> QED
      BY <1>6, <2>1, <2>2
  <1> QED
    BY <1>1, <1>4, <1>5, <1>6 DEF LaunchesInv

-----------------------------------------------------------------------------
(* Whoever watches a run *)

\* A poll that waits after one task was appended waited before or is that task.
LEMMA PollsAppended ==
  ASSUME NEW j, NEW q \in Seq(Tasks), NEW t \in Tasks, PollsIn(Append(q, t), j) # {}
  PROVE  PollsIn(q, j) # {} \/ (t.kind = "poll" /\ t.job = j)
  <1>1. PICK i \in DOMAIN Append(q, t) : Append(q, t)[i].kind = "poll" /\ Append(q, t)[i].job = j
    BY DEF PollsIn
  <1>2. i \in 1..Len(q) + 1
    BY <1>1
  <1>3. CASE i = Len(q) + 1
    BY <1>1, <1>3
  <1>4. CASE i \in 1..Len(q)
    <2>1. i \in PollsIn(q, j)
      BY <1>1, <1>4 DEF PollsIn
    <2> QED
      BY <2>1
  <1> QED
    BY <1>2, <1>3, <1>4

\* A poll that waits behind the oldest task, or is it, waits.
LEMMA PollsShifted ==
  ASSUME NEW j, NEW q \in Seq(Tasks), q # <<>>
  PROVE  /\ PollsIn(Tail(q), j) # {} => PollsIn(q, j) # {}
         /\ Head(q).kind = "poll" /\ Head(q).job = j => PollsIn(q, j) # {}
  <1>1. \A i \in PollsIn(Tail(q), j) : i + 1 \in PollsIn(q, j)
    BY DEF PollsIn
  <1>2. Head(q).kind = "poll" /\ Head(q).job = j => 1 \in PollsIn(q, j)
    BY DEF PollsIn
  <1> QED
    BY <1>1, <1>2

\* A job that has been launched, or whose launch was refused, is not queued again.
LEMMA LaunchedStays ==
  ASSUME Undisturbed, PromiseInv, [Next]_vars, NEW j \in BatchJobs, j \notin unguarded,
         row[j].status \in Launched
  PROVE  row'[j].status \in Launched
  BY EachChanges DEF Changes, Created, Started, Refused, Announced, Reported, Turns, Launched

\* Only jobs that have been announced are polled, whatever is enqueued.
LEMMA PollsKept ==
  ASSUME Undisturbed, PromiseInv, [Next]_vars, NEW j \in BatchJobs, j \notin unguarded,
         PollsIn(queue, j)' # {}
  PROVE  row'[j].status \in Launched
  <1>0. /\ WatchesInv(j) /\ IInv /\ DelayedInv /\ queue \in Seq(Tasks) /\ delayed \in Seq(Tasks)
    BY OfJob DEF PromiseInv, JobInv, TypeOK
  <1> SUFFICES row[j].status \in Launched
    BY LaunchedStays
  <1>1. PollsIn(queue, j)' = PollsIn(queue', j)
    BY DEF PollsIn
  <1>2. ASSUME PollsIn(queue, j) # {} PROVE row[j].status \in Launched
    BY <1>0, <1>2 DEF WatchesInv
  <1>3. ASSUME NEW t \in Tasks, queue' = Append(queue, t), t.kind # "poll" \/ t.job # j
        PROVE  row[j].status \in Launched
    BY <1>0, <1>1, <1>2, <1>3, PollsAppended
  <1>4. ASSUME NEW k \in Jobs, NEW n \in WfNames, QueueToSubmit(k, n)
        PROVE  row[j].status \in Launched
    <2>1. PICK t \in Tasks : t.kind # "poll" /\ (queue' = queue \/ queue' = Append(queue, t))
      BY <1>4 DEF QueueToSubmit, Task, Tasks
    <2> QED
      BY <1>1, <1>2, <1>3, <2>1
  <1>5. ASSUME NEW x \in Workers, Take(x) PROVE row[j].status \in Launched
    BY <1>0, <1>1, <1>2, <1>5, PollsShifted DEF Take
  <1>6. ASSUME NEW x \in Workers, EnqueuePoll(x) \/ PollQuery(x), NEW t \in Tasks,
               t.job = work[x].job, queue' = Append(queue, t)
        PROVE  row[j].status \in Launched
    <2>1. CASE work[x].job = j
      BY <1>0, <1>6, <2>1 DEF WatchesInv, EnqueuePoll, PollQuery, At
    <2>2. CASE work[x].job # j
      BY <1>3, <1>6, <2>2
    <2> QED
      BY <2>1, <2>2
  <1>7. CASE SchedulerTick
    <2>1. PICK t \in Tasks : t = Head(delayed)
      BY <1>0, <1>7 DEF SchedulerTick
    <2>2. t.kind # "poll"
      BY <1>0, <1>7, <2>1 DEF SchedulerTick, DelayedInv
    <2> QED
      BY <1>3, <1>7, <2>1, <2>2 DEF SchedulerTick
  <1> QED
    BY <1>0, <1>1, <1>2, <1>3, <1>4, <1>5, <1>6, <1>7, RedisMoves DEF redisVars

\* Only jobs that have been announced are watched by a worker.
LEMMA WatchersKept ==
  ASSUME Undisturbed, PromiseInv, [Next]_vars, NEW j \in BatchJobs, j \notin unguarded,
         NEW x \in Workers, work'[x].job = j, work'[x].pc \in {"announce", "poll", "query", "write"}
  PROVE  row'[j].status \in Launched
  <1>0. /\ WatchesInv(j) /\ LaunchesInv(j) /\ TypeOK /\ queue \in Seq(Tasks) /\ j \in Jobs
        /\ row \in [Jobs -> Rows]
    BY OfJob DEF PromiseInv, JobInv, TypeOK
  <1>1. CASE work'[x] = work[x]
    BY <1>0, <1>1, LaunchedStays DEF WatchesInv
  <1>2. CASE Take(x) /\ Head(queue).job = j /\ work'[x].pc = Head(queue).kind
    <2>1. Head(queue) \in Tasks /\ queue # <<>>
      BY <1>0, <1>2, SeqTake DEF Take
    <2>2. Head(queue).kind = "poll"
      BY <1>2, <2>1 DEF Tasks
    <2> QED
      BY <1>0, <1>2, <2>1, <2>2, PollsShifted, LaunchedStays DEF WatchesInv
  <1>3. CASE work[x].job = j /\ SubmitRunning(x)
    <2>1. row[j].status = "queued"
      BY <1>0, <1>3 DEF SubmitRunning, At, LaunchesInv
    <2> QED
      BY <1>0, <1>3, <2>1 DEF SubmitRunning, Modify, Exists, Launched
  <1>4. CASE work[x].job = j /\ (PollGet(x) \/ PollQuery(x))
    BY <1>0, <1>4, LaunchedStays DEF PollGet, PollQuery, At, WatchesInv
  <1> QED
    BY <1>0, <1>1, <1>2, <1>3, <1>4, WorkMoves

\* What the reconciler holds after a step: what it held, a running row it has just read,
\* or a snapshot whose workflow it has just asked for.
LEMMA RecMoves ==
  ASSUME TypeOK, [Next]_vars
  PROVE  \/ UNCHANGED rec
         \/ /\ rec' = IdleRec
         \/ /\ rec'.job = None /\ rec'.verdict = None
            /\ \A s \in rec'.todo : s.job \in Jobs /\ row[s.job].status = "running"
                                    /\ s.wf = row[s.job].wf
         \/ /\ rec'.todo \subseteq rec.todo /\ rec'.job = rec.job /\ rec'.wf = rec.wf
            /\ rec'.verdict = rec.verdict
         \/ /\ rec'.todo \subseteq rec.todo /\ UNCHANGED <<phase, owner>>
            /\ \E s \in rec.todo : /\ rec'.job = s.job /\ rec'.wf = s.wf
                                   /\ \E answer \in GetWorkflow(s.wf) :
                                        rec'.verdict = RecVerdict(answer)
         \/ rec'.todo \subseteq rec.todo /\ rec'.job = None /\ rec'.verdict = None
  <1> USE DEF vars, dbVars, redisVars, argoVars
  <1>0. rec \in RecStates
    BY DEF TypeOK
  <1>1. CASE RecBegin
    BY <1>0, <1>1 DEF RecBegin, IdleRec
  <1>2. CASE RecQuery
    <2>1. PICK s \in rec.todo : \E answer \in GetWorkflow(s.wf) :
            rec' = IF RecVerdict(answer) = "skip" THEN [rec EXCEPT !.todo = @ \ {s}]
                   ELSE [todo |-> rec.todo \ {s}, job |-> s.job, wf |-> s.wf,
                         verdict |-> RecVerdict(answer)]
      BY <1>2 DEF RecQuery
    <2>2. PICK answer \in GetWorkflow(s.wf) :
            rec' = IF RecVerdict(answer) = "skip" THEN [rec EXCEPT !.todo = @ \ {s}]
                   ELSE [todo |-> rec.todo \ {s}, job |-> s.job, wf |-> s.wf,
                         verdict |-> RecVerdict(answer)]
      BY <2>1
    <2>3. PICK v : v = RecVerdict(answer)
      OBVIOUS
    <2>4. PICK rest : rest = rec.todo \ {s}
      OBVIOUS
    <2>5. CASE v = "skip"
      <3>1. rec' = [rec EXCEPT !.todo = rest]
        BY <2>2, <2>3, <2>4, <2>5
      <3>2. rec'.todo \subseteq rec.todo /\ rec'.job = rec.job /\ rec'.wf = rec.wf
            /\ rec'.verdict = rec.verdict
        BY <1>0, <2>4, <3>1 DEF RecStates
      <3> QED
        BY <3>2
    <2>6. CASE v # "skip"
      <3>1. rec' = [todo |-> rest, job |-> s.job, wf |-> s.wf, verdict |-> v]
        BY <2>2, <2>3, <2>4, <2>6
      <3>2. UNCHANGED <<phase, owner>>
        BY <1>2 DEF RecQuery
      <3> QED
        BY <2>1, <2>2, <2>3, <2>4, <3>1, <3>2
    <2> QED
      BY <2>5, <2>6
  <1>3. CASE RecWrite
    BY <1>0, <1>3 DEF RecWrite, IdleRec, RecStates
  <1>4. CASE RecLost
    BY <1>4 DEF RecLost
  <1>5. CASE ApiNext
    BY <1>5 DEF ApiNext, CreateJob, StartRead, CancelRead, DeleteRead, SyncCreate,
       RequestStep, RequestLost, StartExists, StartMakedirs, StartModify, StartSubmit, CancelStop, CancelWrite,
       DeleteStop, DeleteRmtree, DeleteRow, SyncEnqueue, SyncReturn
  <1>6. CASE WorkerNext
    BY <1>6 DEF WorkerNext, WorkerStep, TaskLost, SchedulerTick, Take, SubmitCreate, SubmitRaises,
       SubmitFailed, SubmitRunning, EnqueuePoll, PollGet, PollQuery, PollWrite, Requeue
  <1>7. CASE ArgoNext \/ UNCHANGED vars
    BY <1>7 DEF ArgoNext, ArgoRun, ExecutorStarts, ArgoSucceed, ArgoFail, ArgoExpire
  <1> QED
    BY <1>1, <1>2, <1>3, <1>4, <1>5, <1>6, <1>7 DEF Next, RecNext, RecStep

\* Only jobs that have been announced are watched, by workers or by reconcile.
LEMMA WatchesKept ==
  ASSUME Undisturbed, PromiseInv, [Next]_vars, NEW j \in BatchJobs,
         j \notin unguarded, j \notin unguarded'
  PROVE  WatchesInv(j)'
  <1>0. WatchesInv(j) /\ TypeOK /\ j # None /\ j \in Jobs
    BY OfJob DEF JobInv
  <1>1. (\E s \in rec'.todo : s.job = j) \/ rec'.job = j => row'[j].status \in Launched
    <2>1. ASSUME (\E s \in rec.todo : s.job = j) \/ rec.job = j \/ row[j].status = "running"
          PROVE  row'[j].status \in Launched
      BY <1>0, <2>1, LaunchedStays DEF WatchesInv, Launched
    <2> QED
      BY <1>0, <2>1, RecMoves DEF IdleRec
  <1> QED
    BY <1>1, PollsKept, WatchersKept DEF WatchesInv

-----------------------------------------------------------------------------
(* What is reported of a run *)

\* A workflow that has failed stays failed, and one that has succeeded succeeded.
LEMMA EndsStay ==
  ASSUME TypeOK, [Next]_vars, NEW w \in Workflows, Ended(w)
  PROVE  phase'[w] = phase[w]
  <1> USE DEF vars, dbVars, redisVars, argoVars
  <1>0. phase \in [Workflows -> Phases]
    BY DEF TypeOK
  <1>1. CASE ApiNext
    BY <1>1 DEF ApiNext, CreateJob, StartRead, CancelRead, DeleteRead, SyncCreate,
       RequestStep, RequestLost, StartExists, StartMakedirs, StartModify, StartSubmit, CancelStop, CancelWrite,
       DeleteStop, DeleteRmtree, DeleteRow, SyncEnqueue, SyncReturn
  <1>2. CASE WorkerNext
    BY <1>0, <1>2 DEF WorkerNext, WorkerStep, TaskLost, SchedulerTick, Take, SubmitCreate,
       SubmitRaises, SubmitFailed, SubmitRunning, EnqueuePoll, PollGet, PollQuery, PollWrite,
       Requeue, CreateWorkflow, Ended
  <1>3. CASE RecNext \/ ArgoNext \/ UNCHANGED vars
    BY <1>0, <1>3 DEF RecNext, RecStep, RecBegin, RecQuery, RecWrite, RecLost, ArgoNext,
       ArgoRun, ExecutorStarts, ArgoSucceed, ArgoFail, ArgoExpire, Ended
  <1> QED
    BY <1>1, <1>2, <1>3 DEF Next

\* A job gets a run from the worker that creates its workflow only.
LEMMA RunsMove ==
  ASSUME "argo" \notin Faults, TypeOK, OwnersInv, [Next]_vars, NEW j \in Jobs
  PROVE  \/ RunsOf(j)' = RunsOf(j)
         \/ \E x \in WorkRights(j), w \in Workflows : SubmitCreate(x) /\ CreateWorkflow(w, j)
  <1> USE DEF vars, dbVars, redisVars, argoVars
  <1>0. owner \in [Workflows -> JobIds]
    BY DEF TypeOK
  <1>1. CASE UNCHANGED owner
    BY <1>1 DEF RunsOf
  <1>2. ASSUME NEW x \in Workers, SubmitCreate(x)
        PROVE  \/ RunsOf(j)' = RunsOf(j)
               \/ \E w \in Workflows : x \in WorkRights(j) /\ CreateWorkflow(w, j)
    <2>1. PICK w \in Workflows : CreateWorkflow(w, work[x].job)
      BY <1>2 DEF SubmitCreate
    <2>2. CASE work[x].job = j
      BY <1>2, <2>1, <2>2 DEF SubmitCreate, At, WorkRights
    <2>3. CASE work[x].job # j /\ owner[w] # j
      BY <1>0, <2>1, <2>3 DEF CreateWorkflow, RunsOf
    <2>4. CASE owner[w] = j
      BY <2>1, <2>4, JobsAssumption DEF CreateWorkflow, OwnersInv
    <2> QED
      BY <2>1, <2>2, <2>3, <2>4
  <1>3. CASE ApiNext
    BY <1>1, <1>3 DEF ApiNext, CreateJob, StartRead, CancelRead, DeleteRead, SyncCreate,
       RequestStep, RequestLost, StartExists, StartMakedirs, StartModify, StartSubmit, CancelStop, CancelWrite,
       DeleteStop, DeleteRmtree, DeleteRow, SyncEnqueue, SyncReturn
  <1>4. CASE WorkerNext
    BY <1>1, <1>2, <1>4 DEF WorkerNext, WorkerStep, TaskLost, SchedulerTick, Take, SubmitRaises,
       SubmitFailed, SubmitRunning, EnqueuePoll, PollGet, PollQuery, PollWrite, Requeue, WorkRights
  <1>5. CASE RecNext \/ ArgoNext \/ UNCHANGED vars
    BY <1>1, <1>5 DEF RecNext, RecStep, RecBegin, RecQuery, RecWrite, RecLost, ArgoNext,
       ArgoRun, ExecutorStarts, ArgoSucceed, ArgoFail, ArgoExpire
  <1> QED
    BY <1>3, <1>4, <1>5 DEF Next

\* Where calls to Argo answer and nothing is removed, an error is the answer "Failed".
LEMMA ErrorAnswer ==
  ASSUME Undisturbed, PromiseInv, NEW w \in Workflows, NEW answer \in GetWorkflow(w),
         answer \in {"exception", "Failed"}
  PROVE  phase[w] = "Failed"
  BY JobsAssumption
     DEF GetWorkflow, Undisturbed, PromiseInv, UndisturbedInv, IInv, TypeOK, Phases

\* An error that is decided on, or written, is that of a run that has failed.
LEMMA ReportsKept ==
  ASSUME Undisturbed, PromiseInv, [Next]_vars, NEW j \in BatchJobs,
         j \notin unguarded, j \notin unguarded'
  PROVE  ReportsInv(j)'
  <1>0. /\ ReportsInv(j) /\ WaitsInv(j) /\ TypeOK /\ IInv /\ WorkInv /\ OwnersInv /\ AtMostOne(Holders(j))
        /\ j # None /\ j \in Jobs /\ "argo" \notin Faults /\ queue \in Seq(Tasks)
        /\ phase \in [Workflows -> Phases] /\ rec \in RecStates
        /\ \A s \in rec.todo : s.wf # None
        /\ \A x \in Workers : work[x] \in WorkStates
    BY OfJob DEF JobInv, PromiseInv, IInv, Undisturbed, TypeOK
  <1>1. ASSUME NEW w \in Workflows, phase[w] = "Failed" PROVE phase'[w] = "Failed"
    BY <1>0, <1>1, EndsStay DEF Ended
  <1>2. ASSUME row'[j].status = "error" PROVE \A w \in RunsOf(j)' : phase'[w] = "Failed"
    <2>1. CASE row[j].status = "error"
      <3>1. WorkRights(j) = {}
        BY <1>0, <2>1 DEF WaitsInv, Waits
      <3>2. RunsOf(j)' = RunsOf(j)
        BY <1>0, <3>1, RunsMove
      <3> QED
        BY <1>0, <1>1, <2>1, <3>2 DEF ReportsInv, RunsOf
    <2>2. CASE row[j].status # "error"
      <3>1. UNCHANGED <<phase, owner>>
        BY <1>0, <1>2, <2>2, RowMoves
      <3>2. RunsOf(j)' = RunsOf(j)
        BY <3>1 DEF RunsOf
      <3>3. Refused(j) \/ Reported(j)
        BY <1>2, <2>2, EachChanges DEF Changes, Created, Started, Announced, Turns
      <3>4. \A w \in RunsOf(j) : phase[w] = "Failed"
        <4>1. CASE Refused(j)
          BY <4>1, HolderIs DEF Refused
        <4>2. CASE Reported(j)
          BY <1>0, <1>2, <4>2, Exclusive DEF Reported, Turns
        <4> QED
          BY <3>3, <4>1, <4>2
      <3> QED
        BY <3>1, <3>2, <3>4
    <2> QED
      BY <2>1, <2>2
  <1>3. ASSUME NEW x \in Workers, work'[x].job = j, work'[x].pc = "write",
               work'[x].verdict = "error"
        PROVE  work'[x].wf # None /\ phase'[work'[x].wf] = "Failed"
    <2>1. CASE work'[x] = work[x]
      <3>1. work[x].wf \in Workflows /\ phase[work[x].wf] = "Failed"
        BY <1>0, <1>3, <2>1 DEF ReportsInv, WorkStates
      <3> QED
        BY <1>0, <1>1, <2>1, <3>1, JobsAssumption
    <2>2. CASE Take(x) /\ work'[x].pc = Head(queue).kind /\ work'[x].verdict = None
      BY <1>3, <2>2, JobsAssumption DEF Verdicts
    <2>3. ASSUME PollQuery(x), work'[x].wf = work[x].wf,
                 NEW answer \in GetWorkflow(work[x].wf), work'[x].verdict = PollVerdict(answer)
          PROVE  work'[x].wf # None /\ phase'[work'[x].wf] = "Failed"
      <3>1. work[x].wf \in Workflows
        BY <1>0, <2>3 DEF PollQuery, At, WorkInv, WorkStates
      <3>2. answer \in {"exception", "Failed"}
        BY <1>3, <2>3 DEF PollVerdict
      <3>3. phase[work[x].wf] = "Failed"
        BY <2>3, <3>1, <3>2, ErrorAnswer
      <3> QED
        BY <1>1, <2>3, <3>1, <3>3, JobsAssumption
    <2> QED
      BY <1>0, <1>3, <2>1, <2>2, <2>3, WorkMoves
  <1>4. ASSUME rec'.job = j, rec'.verdict = "error"
        PROVE  rec'.wf # None /\ phase'[rec'.wf] = "Failed"
    <2>1. CASE rec'.job = rec.job /\ rec'.wf = rec.wf /\ rec'.verdict = rec.verdict
      <3>1. rec.wf \in Workflows /\ phase[rec.wf] = "Failed"
        BY <1>0, <1>4, <2>1 DEF ReportsInv, RecStates
      <3> QED
        BY <1>0, <1>1, <2>1, <3>1, JobsAssumption
    <2>2. ASSUME NEW s \in rec.todo, rec'.wf = s.wf,
                 NEW answer \in GetWorkflow(s.wf), rec'.verdict = RecVerdict(answer)
          PROVE  rec'.wf # None /\ phase'[rec'.wf] = "Failed"
      <3>1. s.wf \in Workflows
        BY <1>0, <2>2 DEF RecStates, Snapshots
      <3>2. answer \in {"exception", "Failed"}
        BY <1>4, <2>2 DEF RecVerdict
      <3>3. phase[s.wf] = "Failed"
        BY <2>2, <3>1, <3>2, ErrorAnswer
      <3> QED
        BY <1>1, <2>2, <3>1, <3>3, JobsAssumption
    <2> QED
      BY <1>0, <1>4, <2>1, <2>2, RecMoves DEF IdleRec
  <1> QED
    BY <1>2, <1>3, <1>4 DEF ReportsInv

-----------------------------------------------------------------------------
(* The invariant *)

\* Nothing has happened to any job at first.
LEMMA NoPromiseAtFirst == Init => PromiseInv
  <1> SUFFICES ASSUME Init PROVE PromiseInv
    OBVIOUS
  <1>1. IInv /\ SyncInv /\ RightsInv
    BY InitSound, NoRightsAtFirst
  <1>2. UndisturbedInv /\ DelayedInv /\ \A s \in rec.todo : s.wf # None
    BY DEF Init, UndisturbedInv, DelayedInv, IdleRequest, IdleRec
  <1>3. ASSUME NEW j \in BatchJobs PROVE JobInv(j)
    <2>0. j \in Jobs /\ j # None /\ None \notin Verdicts
      BY JobsAssumption DEF Jobs
    <2>1. row[j].status = "absent" /\ j \in unborn
      BY <2>0 DEF Init, NoRow
    <2>2. StartsInv(j)
      BY <2>0, <2>1 DEF Init, StartsInv, IdleRequest
    <2>3. RightsIn(queue, j) = {} /\ RightsIn(delayed, j) = {} /\ WorkRights(j) = {}
      BY DEF Init, RightsIn, WorkRights, IdleWork
    <2>4. WaitsInv(j)
      BY <2>3 DEF WaitsInv, Waits
    <2>5. \A x \in Workers : work[x].pc = "idle"
      BY DEF Init, IdleWork
    <2>6. LaunchesInv(j)
      BY <2>5 DEF LaunchesInv
    <2>7. rec.todo = {} /\ rec.job = None /\ rec.verdict = None
      BY DEF Init, IdleRec
    <2>8. PollsIn(queue, j) = {}
      BY DEF Init, PollsIn
    <2>9. WatchesInv(j)
      BY <2>0, <2>5, <2>7, <2>8 DEF WatchesInv
    <2>10. ReportsInv(j)
      BY <2>0, <2>1, <2>5, <2>7 DEF ReportsInv
    <2> QED
      BY <2>2, <2>4, <2>6, <2>9, <2>10 DEF JobInv
  <1> QED
    BY <1>1, <1>2, <1>3 DEF PromiseInv

\* While nobody cancels or deletes, every step keeps the invariant.
LEMMA PromiseKept ==
  ASSUME Undisturbed, PromiseInv, IInv', [Next]_vars
  PROVE  PromiseInv'
  <1>0. IInv /\ SyncInv /\ RightsInv /\ DelayedInv /\ TypeOK /\ RequestsInv /\ UndisturbedInv /\ RowsInv
    BY DEF PromiseInv, IInv
  <1>1. SyncInv' /\ RightsInv' /\ DelayedInv' /\ UndisturbedInv'
    BY <1>0, SyncKept, RightsKept, DelayedKept, UndisturbedKept
  <1>2. \A s \in rec'.todo : s.wf # None
    <2>1. \A s \in rec.todo : s.wf # None
      BY DEF PromiseInv
    <2>2. \A k \in Jobs : row[k].status = "running" => row[k].wf # None
      BY <1>0 DEF RowsInv
    <2> QED
      BY <1>0, <2>1, <2>2, RecMoves DEF IdleRec
  <1>3. ASSUME NEW j \in BatchJobs, j \notin unguarded' PROVE JobInv(j)'
    <2>1. j \notin unguarded
      BY <1>3, UnguardedGrows
    <2> QED
      BY <1>3, <2>1, StartsKept, WaitsKept, LaunchesKept, WatchesKept, ReportsKept DEF JobInv
  <1> QED
    BY <1>1, <1>2, <1>3 DEF PromiseInv

-----------------------------------------------------------------------------
(* The fate of a run *)

\* With one run at most, the fate of a job is the phase of its run.
LEMMA FateIs ==
  ASSUME NEW j, \A v, w \in RunsOf(j) : v = w
  PROVE  /\ RunsOf(j) = {} => Fate(j) = "none"
         /\ \A w \in RunsOf(j) :
              Fate(j) = IF ~Ended(w) THEN "going"
                        ELSE IF phase[w] = "Succeeded" THEN "good" ELSE "bad"
  <1>1. RunsOf(j) = {} => Fate(j) = "none"
    BY DEF Fate
  <1>2. ASSUME NEW w \in RunsOf(j)
        PROVE  Fate(j) = IF ~Ended(w) THEN "going"
                         ELSE IF phase[w] = "Succeeded" THEN "good" ELSE "bad"
    <2>1. RunsOf(j) # {}
      BY <1>2
    <2>2. (\E v \in RunsOf(j) : ~Ended(v)) <=> ~Ended(w)
      BY <1>2
    <2>3. (\E v \in RunsOf(j) : phase[v] = "Succeeded") <=> phase[w] = "Succeeded"
      BY <1>2
    <2> QED
      BY <2>1, <2>2, <2>3 DEF Fate, Ended
  <1> QED
    BY <1>1, <1>2

\* The same after a step.
LEMMA FateIsNext ==
  ASSUME NEW j, \A v, w \in RunsOf(j)' : v = w
  PROVE  /\ RunsOf(j)' = {} => Fate(j)' = "none"
         /\ \A w \in RunsOf(j)' :
              Fate(j)' = IF ~Ended(w)' THEN "going"
                         ELSE IF phase'[w] = "Succeeded" THEN "good" ELSE "bad"
  <1>1. RunsOf(j)' = {} => Fate(j)' = "none"
    BY DEF Fate
  <1>2. ASSUME NEW w \in RunsOf(j)'
        PROVE  Fate(j)' = IF ~Ended(w)' THEN "going"
                         ELSE IF phase'[w] = "Succeeded" THEN "good" ELSE "bad"
    <2>1. RunsOf(j)' # {}
      BY <1>2
    <2>2. (\E v \in RunsOf(j)' : ~Ended(v)') <=> ~Ended(w)'
      BY <1>2
    <2>3. (\E v \in RunsOf(j)' : phase'[v] = "Succeeded") <=> phase'[w] = "Succeeded"
      BY <1>2
    <2> QED
      BY <2>1, <2>2, <2>3 DEF Fate, Ended
  <1> QED
    BY <1>1, <1>2

\* A step that leaves a job's runs as they are leaves its fate.
LEMMA FateStays ==
  ASSUME NEW j, RunsOf(j)' = RunsOf(j), \A w \in RunsOf(j) : phase'[w] = phase[w]
  PROVE  Fate(j)' = Fate(j)
  BY DEF Fate, Ended

\* Workflows are created by workers and moved on by Argo, and nothing else touches them.
LEMMA PhaseMoves ==
  ASSUME "argo" \notin Faults, [Next]_vars
  PROVE  \/ UNCHANGED <<phase, owner>>
         \/ \E x \in Workers, w \in Workflows :
              SubmitCreate(x) /\ CreateWorkflow(w, work[x].job) /\ UNCHANGED row
         \/ \E w \in Workflows : \E p \in {"Running", "Succeeded", "Failed"} :
              /\ phase[w] \in {"New", "Running"}
              /\ phase' = [phase EXCEPT ![w] = p]
              /\ UNCHANGED <<owner, row>>
  <1> USE DEF vars, dbVars, redisVars, argoVars
  <1>1. CASE ApiNext
    BY <1>1 DEF ApiNext, CreateJob, StartRead, CancelRead, DeleteRead, SyncCreate,
       RequestStep, RequestLost, StartExists, StartMakedirs, StartModify, StartSubmit, CancelStop, CancelWrite,
       DeleteStop, DeleteRmtree, DeleteRow, SyncEnqueue, SyncReturn
  <1>2. CASE WorkerNext
    <2>1. ASSUME NEW x \in Workers, SubmitCreate(x)
          PROVE  \E w \in Workflows : CreateWorkflow(w, work[x].job) /\ UNCHANGED row
      BY <2>1 DEF SubmitCreate
    <2> QED
      BY <1>2, <2>1 DEF WorkerNext, WorkerStep, TaskLost, SchedulerTick, Take, SubmitRaises,
         SubmitFailed, SubmitRunning, EnqueuePoll, PollGet, PollQuery, PollWrite, Requeue
  <1>3. CASE ArgoNext
    <2>1. PICK w \in Workflows :
            ArgoRun(w) \/ ExecutorStarts(w) \/ ArgoSucceed(w) \/ ArgoFail(w) \/ ArgoExpire(w)
      BY <1>3 DEF ArgoNext
    <2>2. CASE ExecutorStarts(w) \/ ArgoExpire(w)
      BY <2>2 DEF ExecutorStarts, ArgoExpire
    <2>3. CASE ArgoRun(w) \/ ArgoSucceed(w) \/ ArgoFail(w)
      BY <2>3 DEF ArgoRun, ArgoSucceed, ArgoFail
    <2> QED
      BY <2>1, <2>2, <2>3
  <1>4. CASE RecNext \/ UNCHANGED vars
    BY <1>4 DEF RecNext, RecStep, RecBegin, RecQuery, RecWrite, RecLost
  <1> QED
    BY <1>1, <1>2, <1>3, <1>4 DEF Next

\* The fate of a job changes when its workflow is created, and when it ends.
FateMoves(j) ==
  \/ row[j].status = "queued" /\ Fate(j) = "none" /\ Fate(j)' = "going"
  \/ Fate(j) = "going" /\ Fate(j)' \in {"good", "bad"}

\* One job's fate changes at a time, and no row is written meanwhile.
LEMMA OneFateMoves ==
  ASSUME Undisturbed, PromiseInv, PromiseInv', [Next]_vars, NEW G,
         G = BatchJobs \ unguarded, UNCHANGED unguarded
  PROVE  \/ \A j \in G : Fate(j)' = Fate(j)
         \/ /\ UNCHANGED row
            /\ \E k \in G : /\ FateMoves(k)
                            /\ \A j \in G : j # k => Fate(j)' = Fate(j)
  <1>0. /\ phase \in [Workflows -> Phases] /\ owner \in [Workflows -> JobIds]
        /\ OwnersInv /\ "argo" \notin Faults /\ None \notin Jobs
    BY JobsAssumption DEF PromiseInv, IInv, TypeOK, Undisturbed
  <1>1. \A j \in G : /\ (\A v, w \in RunsOf(j) : v = w)
                             /\ j \in Jobs
    BY OfJob, Exclusive
  <1>2. \A j \in G : \A v, w \in RunsOf(j)' : v = w
    <2> SUFFICES ASSUME NEW j \in G, NEW v \in RunsOf(j)', NEW w \in RunsOf(j)'
                 PROVE  v = w
      OBVIOUS
    <2>1. AtMostOne(Holders(j))'
      BY DEF PromiseInv, RightsInv, HoldersInv
    <2>2. \A a, b \in Holders(j)' : a = b
      BY <2>1 DEF AtMostOne
    <2>3. <<"workflow", v>> \in Holders(j)' /\ <<"workflow", w>> \in Holders(j)'
      BY HolderIsNext
    <2>4. <<"workflow", v>> = <<"workflow", w>>
      BY <2>2, <2>3
    <2> QED
      BY <2>4
  <1>3. CASE UNCHANGED <<phase, owner>>
    BY <1>3, FateStays DEF RunsOf
  <1>4. ASSUME NEW x \in Workers, NEW w \in Workflows, SubmitCreate(x),
               CreateWorkflow(w, work[x].job), UNCHANGED row
        PROVE  \/ \A j \in G : Fate(j)' = Fate(j)
               \/ \E k \in G : /\ FateMoves(k)
                               /\ \A j \in G : j # k => Fate(j)' = Fate(j)
    <2>1. owner[w] = None /\ phase[w] = "unused"
      BY <1>0, <1>4 DEF CreateWorkflow, OwnersInv
    <2>2. ASSUME NEW j \in G, j # work[x].job PROVE Fate(j)' = Fate(j)
      <3>1. w \notin RunsOf(j) /\ RunsOf(j)' = RunsOf(j)
        BY <1>0, <1>1, <1>4, <2>1, <2>2 DEF CreateWorkflow, RunsOf
      <3>2. \A u \in RunsOf(j) : phase'[u] = phase[u]
        BY <1>0, <1>4, <3>1 DEF CreateWorkflow, RunsOf
      <3> QED
        BY <3>1, <3>2, FateStays
    <2>3. ASSUME NEW k \in G, k = work[x].job PROVE FateMoves(k)
      <3>1. x \in WorkRights(k)
        BY <1>4, <2>3 DEF SubmitCreate, At, WorkRights
      <3>2. RunsOf(k) = {} /\ row[k].status = "queued"
        BY <3>1, OfJob, Exclusive DEF JobInv, WaitsInv, Waits
      <3>3. w \in RunsOf(k)' /\ ~Ended(w)'
        BY <1>0, <1>4, <2>3 DEF CreateWorkflow, RunsOf, Ended
      <3>4. Fate(k) = "none" /\ Fate(k)' = "going"
        BY <1>1, <1>2, <3>2, <3>3, FateIs, FateIsNext
      <3> QED
        BY <3>2, <3>4 DEF FateMoves
    <2> QED
      BY <2>2, <2>3
  <1>5. ASSUME NEW w \in Workflows, NEW p \in {"Running", "Succeeded", "Failed"},
               phase[w] \in {"New", "Running"}, phase' = [phase EXCEPT ![w] = p],
               UNCHANGED <<owner, row>>
        PROVE  \/ \A j \in G : Fate(j)' = Fate(j)
               \/ \E k \in G : /\ FateMoves(k)
                               /\ \A j \in G : j # k => Fate(j)' = Fate(j)
    <2>0. \A j : RunsOf(j)' = RunsOf(j)
      BY <1>5 DEF RunsOf
    <2>1. ASSUME NEW j \in G, j # owner[w] PROVE Fate(j)' = Fate(j)
      <3>1. \A u \in RunsOf(j) : phase'[u] = phase[u]
        BY <1>0, <1>5, <2>1 DEF RunsOf
      <3> QED
        BY <2>0, <3>1, FateStays
    <2>2. ASSUME NEW k \in G, k = owner[w]
          PROVE  FateMoves(k) \/ Fate(k)' = Fate(k)
      <3>1. w \in RunsOf(k) /\ w \in RunsOf(k)'
        BY <2>0, <2>2 DEF RunsOf
      <3>2. ~Ended(w) /\ phase'[w] = p
        BY <1>0, <1>5 DEF Ended
      <3>3. Fate(k) = "going"
        BY <1>1, <3>1, <3>2, FateIs
      <3>4. Fate(k)' \in {"going", "good", "bad"}
        BY <1>2, <3>1, FateIsNext
      <3> QED
        BY <3>3, <3>4 DEF FateMoves
    <2> QED
      BY <2>1, <2>2
  <1> QED
    BY <1>0, <1>3, <1>4, <1>5, PhaseMoves

-----------------------------------------------------------------------------
(* The steps of the promise *)

\* What a client reads, and the fates of the runs, as JobLife sees them.
life == [j \in BatchJobs |-> IF j \in unguarded THEN "disputed" ELSE row[j].status]
fate == [j \in BatchJobs |-> IF j \in unguarded THEN "none" ELSE Fate(j)]

\* A step that changes one status, and no fate.
LEMMA StatusStep ==
  ASSUME NEW k \in BatchJobs \ unguarded, k \in Jobs, OnlyRow(k), BatchJobs \subseteq Jobs,
         UNCHANGED unguarded, \A j \in BatchJobs \ unguarded : Fate(j)' = Fate(j)
  PROVE  /\ life' = [life EXCEPT ![k] = row'[k].status] /\ life[k] = row[k].status
         /\ fate' = fate /\ fate[k] = Fate(k)
  BY DEF life, fate, OnlyRow

\* A step that changes one fate, and no status.
LEMMA FateStep ==
  ASSUME NEW k \in BatchJobs \ unguarded, UNCHANGED row, UNCHANGED unguarded,
         \A j \in BatchJobs \ unguarded : j # k => Fate(j)' = Fate(j)
  PROVE  /\ fate' = [fate EXCEPT ![k] = Fate(k)'] /\ fate[k] = Fate(k)
         /\ life' = life /\ life[k] = row[k].status
  BY DEF life, fate

\* A step that changes neither a status nor a fate of the jobs that are not disputed.
LEMMA NoStep ==
  ASSUME UNCHANGED unguarded,
         \A j \in BatchJobs \ unguarded : Fate(j)' = Fate(j) /\ row'[j].status = row[j].status
  PROVE  life' = life /\ fate' = fate
  BY DEF life, fate

\* A job becomes disputed when a start finds no directory while another is about to make
\* it: it has not been queued or run.
LEMMA DisputeStep ==
  ASSUME Undisturbed, PromiseInv, [Next]_vars, unguarded' # unguarded
  PROVE  [Life!Next]_(Life!lifeVars)
  <1> USE DEF vars, dbVars, redisVars, argoVars
  <1>1. PICK c \in Clients : StartExists(c) /\ req[c].job \notin workspace
    <2>1. \A c \in Clients : ~DeleteRmtree(c)
      BY DEF PromiseInv, UndisturbedInv, DeleteRmtree
    <2>2. CASE ApiNext
      <3>1. \E c \in Clients : StartExists(c)
        BY <2>1, <2>2 DEF ApiNext, CreateJob, StartRead, CancelRead, DeleteRead, SyncCreate,
           RequestStep, RequestLost, StartMakedirs, StartModify, StartSubmit, CancelStop,
           CancelWrite, DeleteStop, DeleteRow, SyncEnqueue, SyncReturn
      <3> QED
        BY <3>1 DEF StartExists
    <2>3. CASE WorkerNext
      BY <2>3 DEF WorkerNext, WorkerStep, TaskLost, SchedulerTick, Take, SubmitCreate,
         SubmitRaises, SubmitFailed, SubmitRunning, EnqueuePoll, PollGet, PollQuery, PollWrite,
         Requeue
    <2>4. CASE RecNext \/ ArgoNext \/ UNCHANGED vars
      BY <2>4 DEF RecNext, RecStep, RecBegin, RecQuery, RecWrite, RecLost, ArgoNext, ArgoRun,
         ExecutorStarts, ArgoSucceed, ArgoFail, ArgoExpire
    <2> QED
      BY <2>2, <2>3, <2>4 DEF Next
  <1>2. PICK k : k = req[c].job
    OBVIOUS
  <1>3. /\ unguarded' = unguarded \cup {k} /\ k \notin unguarded
        /\ UNCHANGED <<row, phase, owner>>
    BY <1>1, <1>2 DEF StartExists
  <1>4. \A j : Fate(j)' = Fate(j)
    BY <1>3 DEF Fate, RunsOf, Ended
  <1>5. CASE k \in BatchJobs
    <2>1. row[k].status = "created" /\ RunsOf(k) = {}
      <3>1. StartsInv(k) /\ (Holders(k) # {} => k \in workspace)
        BY <1>3, <1>5, OfJob DEF JobInv
      <3> QED
        BY <1>1, <1>2, <3>1, HolderIs DEF StartsInv, StartExists
    <2>2. Fate(k) = "none"
      BY <2>1 DEF Fate
    <2>3. life' = [life EXCEPT ![k] = "disputed"] /\ life[k] = "created"
      BY <1>3, <1>5, <2>1 DEF life
    <2>4. fate' = fate /\ fate[k] = "none"
      BY <1>3, <1>4, <1>5, <2>2 DEF fate
    <2> QED
      BY <1>5, <2>3, <2>4 DEF Life!Next, Life!Dispute, life, fate
  <1>6. CASE k \notin BatchJobs
    <2>1. life' = life /\ fate' = fate
      BY <1>3, <1>4, <1>6 DEF life, fate
    <2> QED
      BY <2>1 DEF Life!lifeVars, life, fate
  <1> QED
    BY <1>5, <1>6

\* A change of status that the promise allows is one of its actions.
LEMMA ChangeIsPromised ==
  ASSUME PromiseInv, NEW k \in BatchJobs \ unguarded, OnlyRow(k), Changes(k),
         UNCHANGED unguarded, \A j \in BatchJobs \ unguarded : Fate(j)' = Fate(j)
  PROVE  [Life!Next]_(Life!lifeVars)
  <1>0. /\ k \in Jobs /\ BatchJobs \subseteq Jobs
        /\ \A v, w \in RunsOf(k) : v = w
    BY OfJob, Exclusive DEF Jobs
  <1>1. /\ life' = [life EXCEPT ![k] = row'[k].status] /\ life[k] = row[k].status
        /\ fate' = fate /\ fate[k] = Fate(k)
    BY <1>0, StatusStep
  <1>2. CASE row'[k].status = row[k].status
    <2>1. life' = life
      BY <1>1, <1>2 DEF life
    <2> QED
      BY <1>1, <2>1 DEF Life!lifeVars, life, fate
  <1>3. CASE Created(k)
    BY <1>1, <1>3 DEF Created, Turns, Life!Next, Life!Create, life, fate
  <1>4. CASE Started(k)
    <2>1. Fate(k) = "none"
      BY <1>0, <1>4, FateIs DEF Started
    <2> QED
      BY <1>1, <1>4, <2>1 DEF Started, Turns, Life!Next, Life!Start, life, fate
  <1>5. CASE Refused(k)
    <2>1. RunsOf(k) = {}
      BY <1>5, HolderIs DEF Refused
    <2>2. Fate(k) = "none"
      BY <1>0, <2>1, FateIs
    <2> QED
      BY <1>1, <1>5, <2>2 DEF Refused, Turns, Life!Next, Life!Serve, Life!Refuse, life, fate
  <1>6. CASE Announced(k)
    <2>1. Fate(k) # "none"
      BY <1>0, <1>6, FateIs DEF Announced
    <2> QED
      BY <1>1, <1>6, <2>1 DEF Announced, Turns, Life!Next, Life!Serve, Life!Announce, life, fate
  <1>7. CASE Reported(k)
    <2>1. \/ row[k].status = "running" /\ row'[k].status = "finished" /\ Fate(k) = "good"
          \/ row[k].status = "running" /\ row'[k].status = "error" /\ Fate(k) = "bad"
      BY <1>0, <1>7, FateIs DEF Reported, Turns, Ended
    <2> QED
      BY <1>1, <2>1 DEF Life!Next, Life!Serve, Life!Report, life, fate
  <1> QED
    BY <1>2, <1>3, <1>4, <1>5, <1>6, <1>7 DEF Changes

\* Every step of the services is a step of the promise, or none.
LEMMA StepIsPromised ==
  ASSUME Undisturbed, PromiseInv, PromiseInv', [Next]_vars
  PROVE  [Life!Next]_(Life!lifeVars)
  <1>0. PICK G : G = BatchJobs \ unguarded
    OBVIOUS
  <1>1. ASSUME NEW k \in G, UNCHANGED row, UNCHANGED unguarded, FateMoves(k),
               \A j \in G : j # k => Fate(j)' = Fate(j)
        PROVE  Life!Next
    <2>1. /\ fate' = [fate EXCEPT ![k] = Fate(k)'] /\ fate[k] = Fate(k)
          /\ life' = life /\ life[k] = row[k].status
      BY <1>0, <1>1, FateStep
    <2>2. CASE row[k].status = "queued" /\ Fate(k) = "none" /\ Fate(k)' = "going"
      BY <1>0, <2>1, <2>2 DEF Life!Next, Life!Serve, Life!Launch, life, fate
    <2>3. CASE Fate(k) = "going" /\ Fate(k)' \in {"good", "bad"}
      BY <1>0, <2>1, <2>3 DEF Life!Next, Life!Serve, Life!RunEnds, life, fate
    <2> QED
      BY <1>1, <2>2, <2>3 DEF FateMoves
  <1>2. ASSUME \A j \in G : Fate(j)' = Fate(j), UNCHANGED unguarded,
               \A j \in G : row'[j].status = row[j].status
        PROVE  UNCHANGED Life!lifeVars
    BY <1>0, <1>2, NoStep DEF Life!lifeVars, life, fate
  <1>3. CASE UNCHANGED unguarded /\ \A j \in G : Fate(j)' = Fate(j)
    <2>1. CASE UNCHANGED row
      BY <1>2, <1>3, <2>1
    <2>2. ASSUME NEW k \in Jobs, OnlyRow(k), k \in BatchJobs \ unguarded => Changes(k)
          PROVE  [Life!Next]_(Life!lifeVars)
      <3>1. CASE k \in G
        BY <1>0, <1>3, <2>2, <3>1, ChangeIsPromised
      <3>2. CASE k \notin G
        BY <1>0, <1>2, <1>3, <2>2, <3>2 DEF OnlyRow, Jobs
      <3> QED
        BY <3>1, <3>2
    <2> QED
      BY <2>1, <2>2, RowMoves
  <1> QED
    BY <1>0, <1>1, <1>3, OneFateMoves, DisputeStep

-----------------------------------------------------------------------------
(* Theorems *)

\* While nobody cancels or deletes, the invariant behind the promise holds: what the row of
\* a job says fits what waits, runs and is about to be written for it, unless two starts
\* of that job were in fs.mkdir at once.
THEOREM PromiseHolds == Undisturbed => (Spec => []PromiseInv)
  <1> SUFFICES ASSUME Undisturbed PROVE Spec => []PromiseInv
    OBVIOUS
  <1>1. Init => PromiseInv
    BY NoPromiseAtFirst
  <1>2. PromiseInv /\ IInv' /\ [Next]_vars => PromiseInv'
    BY PromiseKept
  <1> QED
    BY <1>1, <1>2, Invariance, PTL DEF Spec

\* While nobody cancels or deletes, and Argo answers, the services implement JobLife,
\* whatever requests, tasks, submissions and reconciler runs are lost: a job is run at
\* most once, and its status follows that run, until two starts of it are in fs.mkdir at
\* once.
THEOREM KeepsPromise == Undisturbed => (Spec => Life!Spec)
  <1> SUFFICES ASSUME Undisturbed PROVE Spec => Life!Spec
    OBVIOUS
  <1>1. Init => Life!Init
    <2> SUFFICES ASSUME Init PROVE Life!Init
      OBVIOUS
    <2>1. \A j \in BatchJobs : row[j].status = "absent"
      BY DEF Init, NoRow, Jobs
    <2>2. \A j \in BatchJobs : RunsOf(j) = {}
      BY JobsAssumption DEF Init, RunsOf, Jobs
    <2>3. \A j \in BatchJobs : Fate(j) = "none" /\ j \notin unguarded
      BY <2>2 DEF Fate, Init
    <2> QED
      BY <2>1, <2>3 DEF Life!Init
  <1>2. PromiseInv /\ PromiseInv' /\ [Next]_vars => [Life!Next]_(Life!lifeVars)
    BY StepIsPromised
  <1>3. Spec => []PromiseInv
    BY PromiseHolds
  <1> QED
    BY <1>1, <1>2, <1>3, PTL DEF Spec, Life!Spec
=============================================================================
