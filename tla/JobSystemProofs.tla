--------------------------- MODULE JobSystemProofs ---------------------------
(***************************************************************************)
(* Proofs about JobSystem, for every set of jobs, clients, workers and      *)
(* workflows, every limit and every choice of faults.                       *)
(***************************************************************************)
EXTENDS JobSystemInv, TLAPS

USE DEF JobIds, WfNames

-----------------------------------------------------------------------------
(* Sequences *)

\* A sequence over a set is a sequence over any larger set: tasks that were sound
\* stay sound when more workflows have an owner.
LEMMA SeqMonotone ==
  ASSUME NEW S, NEW T, S \subseteq T, NEW q \in Seq(S)
  PROVE  q \in Seq(T)
  OBVIOUS

\* The oldest task and the rest of a queue that is not empty.
LEMMA SeqTake ==
  ASSUME NEW S, NEW q \in Seq(S), q # <<>>
  PROVE  Head(q) \in S /\ Tail(q) \in Seq(S)
  OBVIOUS

\* A sequence stays one over its set when a member of the set is appended.
LEMMA SeqAppend ==
  ASSUME NEW S, NEW q \in Seq(S), NEW e \in S
  PROVE  Append(q, e) \in Seq(S)
  OBVIOUS

-----------------------------------------------------------------------------
(* Type correctness *)

\* engine.modify keeps the jobs table a table.
LEMMA ModifyType ==
  ASSUME NEW j \in Jobs, NEW s \in Status, NEW wf \in WfNames,
         row \in [Jobs -> Rows], Modify(j, s, wf)
  PROVE  row' \in [Jobs -> Rows]
  BY DEF Modify, Rows

\* queue_to_submit keeps both Redis structures sequences of tasks.
LEMMA QueueToSubmitType ==
  ASSUME NEW j \in Jobs, NEW wf \in WfNames,
         queue \in Seq(Tasks), delayed \in Seq(Tasks), QueueToSubmit(j, wf)
  PROVE  queue' \in Seq(Tasks) /\ delayed' \in Seq(Tasks)
  BY SeqAppend DEF QueueToSubmit, Task, Tasks

\* The handlers of the API keep the types.
LEMMA ApiType == TypeOK /\ RequestsInv /\ ApiNext => TypeOK'
  <1> SUFFICES ASSUME TypeOK, RequestsInv, ApiNext PROVE TypeOK'
    OBVIOUS
  <1> USE DEF dbVars, redisVars, argoVars, IdleRequest, RequestStates, RequestSteps
  <1>1. ASSUME NEW j \in BatchJobs, CreateJob(j) PROVE TypeOK'
    BY <1>1 DEF CreateJob, TypeOK, Rows, Status, Jobs
  <1>2. ASSUME NEW c \in Clients, NEW j \in Jobs,
               StartRead(c, j) \/ CancelRead(c, j) \/ DeleteRead(c, j)
        PROVE  TypeOK'
    BY <1>2 DEF StartRead, CancelRead, DeleteRead, Accept, TypeOK, Rows
  <1>3. ASSUME NEW c \in Clients, NEW j \in SyncJobs, SyncCreate(c, j) PROVE TypeOK'
    BY <1>3 DEF SyncCreate, TypeOK, Rows, Status, Jobs
  <1>4. ASSUME NEW c \in Clients, RequestStep(c) PROVE TypeOK'
    <2> USE DEF Respond, Goto
    <2>0. /\ req[c] \in RequestStates
          /\ req[c].pc # "idle" => req[c].job \in Jobs
          /\ req[c].pc \in {"cancel_stop", "delete_stop"} => req[c].wf \in Workflows
      BY DEF TypeOK, RequestsInv
    <2>11. \A pc \in RequestSteps : Goto(c, pc) => req' \in [Clients -> RequestStates]
      <3> SUFFICES ASSUME NEW pc \in RequestSteps, Goto(c, pc)
                   PROVE  req' \in [Clients -> RequestStates]
        OBVIOUS
      <3>1. PICK r \in RequestStates : r = [req[c] EXCEPT !.pc = pc]
        BY <2>0 DEF RequestStates
      <3> QED
        BY <3>1 DEF TypeOK
    <2>12. Respond(c) => req' \in [Clients -> RequestStates]
      BY DEF TypeOK
    <2>1. CASE StartExists(c) \/ StartMakedirs(c)
      <3>2. req' \in [Clients -> RequestStates]
        <4>1. \/ Respond(c)
              \/ \E pc \in RequestSteps : Goto(c, pc)
          BY <2>1 DEF StartExists, StartMakedirs, RequestSteps
        <4> QED
          BY <2>11, <2>12, <4>1
      <3>3. req[c].job \in Jobs
        BY <2>0, <2>1 DEF StartExists, StartMakedirs
      <3>4. workspace' \subseteq Jobs /\ unguarded' \subseteq Jobs
        BY <2>1, <3>3 DEF StartExists, StartMakedirs, TypeOK
      <3> QED
        BY <2>1, <3>2, <3>4 DEF StartExists, StartMakedirs, TypeOK
    <2>2. CASE StartModify(c)
      <3>1. row' \in [Jobs -> Rows]
        BY <2>0, <2>2, ModifyType DEF StartModify, TypeOK, Status
      <3>2. req' \in [Clients -> RequestStates]
        <4>1. Respond(c) \/ Goto(c, "start_submit")
          BY <2>2 DEF StartModify
        <4> QED
          BY <2>11, <2>12, <4>1 DEF RequestSteps
      <3> QED
        BY <2>2, <3>1, <3>2 DEF StartModify, TypeOK
    <2>3. CASE StartSubmit(c)
      BY <2>0, <2>3, QueueToSubmitType DEF StartSubmit, TypeOK
    <2>4. CASE CancelStop(c)
      BY <2>0, <2>4 DEF CancelStop, TypeOK, StopAnswers
    <2>5. CASE CancelWrite(c)
      BY <2>0, <2>5, ModifyType DEF CancelWrite, TypeOK, Status
    <2>6. CASE DeleteStop(c)
      BY <2>0, <2>6 DEF DeleteStop, TypeOK
    <2>7. CASE DeleteRmtree(c)
      BY <2>0, <2>7 DEF DeleteRmtree, TypeOK
    <2>8. CASE DeleteRow(c)
      BY <2>0, <2>8 DEF DeleteRow, TypeOK, Rows, NoRow
    <2>9. CASE SyncEnqueue(c)
      BY <2>0, <2>9, SeqAppend DEF SyncEnqueue, TypeOK, Tasks, Task
    <2>10. CASE SyncReturn(c)
      BY <2>10 DEF SyncReturn, TypeOK
    <2> QED
      BY <1>4, <2>1, <2>2, <2>3, <2>4, <2>5, <2>6, <2>7, <2>8, <2>9, <2>10 DEF RequestStep
  <1>5. ASSUME NEW c \in Clients, RequestLost(c) PROVE TypeOK'
    BY <1>5 DEF RequestLost, Respond, TypeOK
  <1> QED
    BY <1>1, <1>2, <1>3, <1>4, <1>5 DEF ApiNext

\* The tasks of the workers and the scheduler keep the types.
LEMMA WorkerType == TypeOK /\ WorkInv /\ WorkerNext => TypeOK'
  <1> SUFFICES ASSUME TypeOK, WorkInv, WorkerNext PROVE TypeOK'
    OBVIOUS
  <1> USE DEF dbVars, redisVars, argoVars, At, Done, IdleWork, WorkStates, WorkSteps
  <1>1. ASSUME NEW x \in Workers, WorkerStep(x) PROVE TypeOK'
    <2>0. /\ work[x] \in WorkStates
          /\ work[x].pc # "idle" => work[x].job \in Jobs
          /\ work[x].pc = "write" => work[x].verdict \in Verdicts
      BY DEF TypeOK, WorkInv
    <2>1. CASE Take(x)
      <3>1. Head(queue) \in Tasks /\ Tail(queue) \in Seq(Tasks)
        BY <2>1, SeqTake DEF Take, TypeOK
      <3> QED
        BY <2>1, <3>1 DEF Take, TypeOK, Tasks
    <2>2. CASE SubmitCreate(x)
      <3>1. PICK w \in Workflows :
              /\ CreateWorkflow(w, work[x].job)
              /\ work' = [work EXCEPT ![x] = [@ EXCEPT !.pc = "created", !.wf = w]]
        BY <2>2 DEF SubmitCreate
      <3>2. work' \in [Workers -> WorkStates]
        BY <2>0, <3>1 DEF TypeOK
      <3> QED
        BY <2>0, <2>2, <3>1, <3>2 DEF SubmitCreate, CreateWorkflow, TypeOK, Phases
    <2>3. CASE SubmitRaises(x)
      BY <2>0, <2>3 DEF SubmitRaises, CreateWorkflow, TypeOK, Phases
    <2>4. CASE SubmitFailed(x)
      BY <2>0, <2>4, ModifyType DEF SubmitFailed, TypeOK, Status
    <2>5. CASE SubmitRunning(x)
      BY <2>0, <2>5, ModifyType DEF SubmitRunning, TypeOK, Status
    <2>6. CASE EnqueuePoll(x)
      BY <2>0, <2>6, SeqAppend DEF EnqueuePoll, TypeOK, Tasks, Task
    <2>7. CASE PollGet(x)
      <3>1. row[work[x].job].wf \in WfNames
        BY <2>0, <2>7 DEF PollGet, TypeOK, Rows
      <3>2. CASE Exists(work[x].job)
        <4>1. [work[x] EXCEPT !.pc = "query", !.read = row[work[x].job].wf] \in WorkStates
          BY <2>0, <3>1
        <4> QED
          BY <2>7, <3>2, <4>1 DEF PollGet, TypeOK
      <3>3. CASE ~Exists(work[x].job)
        BY <2>7, <3>3 DEF PollGet, TypeOK
      <3> QED
        BY <3>2, <3>3
    <2>8. CASE PollQuery(x)
      <3>1. PICK answer \in GetWorkflow(work[x].wf) :
              IF PollVerdict(answer) = "again"
              THEN /\ queue' = Append(queue, Task("poll", work[x].job, work[x].wf))
                   /\ Done(x)
              ELSE /\ work' = [work EXCEPT ![x] = [@ EXCEPT !.pc = "write",
                                                      !.verdict = PollVerdict(answer)]]
                   /\ UNCHANGED queue
        BY <2>8 DEF PollQuery
      <3>2. PollVerdict(answer) \in Verdicts \cup {"again"}
        BY DEF PollVerdict, Verdicts
      <3>3. CASE PollVerdict(answer) = "again"
        <4>1. UNCHANGED <<dbVars, delayed, argoVars, req, rec>> /\ At(x, "query")
          BY <2>8 DEF PollQuery
        <4>2. Task("poll", work[x].job, work[x].wf) \in Tasks
          BY <2>0, <4>1 DEF Tasks, Task
        <4>3. queue' = Append(queue, Task("poll", work[x].job, work[x].wf)) /\ Done(x)
          BY <3>1, <3>3
        <4>4. queue' \in Seq(Tasks)
          BY <4>2, <4>3, SeqAppend DEF TypeOK
        <4> QED
          BY <4>1, <4>3, <4>4 DEF TypeOK
      <3>4. CASE PollVerdict(answer) \in Verdicts
        <4>1. work' = [work EXCEPT ![x] = [@ EXCEPT !.pc = "write",
                                               !.verdict = PollVerdict(answer)]]
              /\ UNCHANGED queue
          BY <3>1, <3>4 DEF Verdicts
        <4>2. PICK v \in Verdicts : v = PollVerdict(answer)
          BY <3>4
        <4>3. [work[x] EXCEPT !.pc = "write", !.verdict = v] \in WorkStates
          BY <2>0
        <4> QED
          BY <2>8, <4>1, <4>2, <4>3 DEF PollQuery, TypeOK
      <3> QED
        BY <3>2, <3>3, <3>4
    <2>9. CASE PollWrite(x)
      BY <2>0, <2>9, ModifyType DEF PollWrite, TypeOK, Status, Verdicts
    <2>10. CASE Requeue(x)
      BY <2>0, <2>10, QueueToSubmitType DEF Requeue, TypeOK
    <2> QED
      BY <1>1, <2>1, <2>2, <2>3, <2>4, <2>5, <2>6, <2>7, <2>8, <2>9, <2>10 DEF WorkerStep
  <1>2. ASSUME NEW x \in Workers, TaskLost(x) PROVE TypeOK'
    BY <1>2 DEF TaskLost, TypeOK
  <1>3. ASSUME SchedulerTick PROVE TypeOK'
    <2>1. Head(delayed) \in Tasks /\ Tail(delayed) \in Seq(Tasks)
      BY <1>3, SeqTake DEF SchedulerTick, TypeOK
    <2> QED
      BY <1>3, <2>1, SeqAppend DEF SchedulerTick, TypeOK
  <1> QED
    BY <1>1, <1>2, <1>3 DEF WorkerNext

\* The reconciler keeps the types.
LEMMA RecType == TypeOK /\ RecInv /\ RecNext => TypeOK'
  <1> SUFFICES ASSUME TypeOK, RecInv, RecNext PROVE TypeOK'
    OBVIOUS
  <1> USE DEF dbVars, redisVars, argoVars, IdleRec, RecStates, Snapshots
  <1>1. CASE RecBegin
    BY <1>1 DEF RecBegin, TypeOK, Rows
  <1>2. CASE RecQuery
    <2>0. PICK s \in rec.todo : \E answer \in GetWorkflow(s.wf) :
            rec' = IF RecVerdict(answer) = "skip"
                   THEN [rec EXCEPT !.todo = @ \ {s}]
                   ELSE [todo |-> rec.todo \ {s}, job |-> s.job, wf |-> s.wf,
                         verdict |-> RecVerdict(answer)]
      BY <1>2 DEF RecQuery
    <2>1. PICK answer \in GetWorkflow(s.wf) :
            rec' = IF RecVerdict(answer) = "skip"
                   THEN [rec EXCEPT !.todo = @ \ {s}]
                   ELSE [todo |-> rec.todo \ {s}, job |-> s.job, wf |-> s.wf,
                         verdict |-> RecVerdict(answer)]
      BY <2>0
    <2>2. RecVerdict(answer) \in Verdicts \cup {"skip"}
      BY DEF RecVerdict, Verdicts
    <2> QED
      BY <1>2, <2>1, <2>2 DEF RecQuery, TypeOK
  <1>3. CASE RecWrite
    <2>1. rec.job \in Jobs /\ rec.verdict \in Verdicts /\ rec.wf \in WfNames
      BY <1>3 DEF RecWrite, AtLoopHead, TypeOK, RecInv
    <2> QED
      BY <1>3, <2>1, ModifyType DEF RecWrite, TypeOK, Status, Verdicts
  <1>4. CASE RecLost
    BY <1>4 DEF RecLost, TypeOK
  <1> QED
    BY <1>1, <1>2, <1>3, <1>4 DEF RecNext, RecStep

\* The workflow server keeps the types.
LEMMA ArgoType == TypeOK /\ OwnersInv /\ ArgoNext => TypeOK'
  <1> SUFFICES ASSUME TypeOK, OwnersInv, ArgoNext PROVE TypeOK'
    OBVIOUS
  <1> USE DEF dbVars, redisVars, argoVars, Phases
  <1>1. PICK w \in Workflows :
          ArgoRun(w) \/ ExecutorStarts(w) \/ ArgoSucceed(w) \/ ArgoFail(w) \/ ArgoExpire(w)
    BY DEF ArgoNext
  <1>2. CASE ExecutorStarts(w)
    BY <1>2 DEF ExecutorStarts, TypeOK, OwnersInv
  <1>3. CASE ArgoRun(w) \/ ArgoSucceed(w) \/ ArgoFail(w) \/ ArgoExpire(w)
    BY <1>3 DEF ArgoRun, ArgoSucceed, ArgoFail, ArgoExpire, TypeOK
  <1> QED
    BY <1>1, <1>2, <1>3

-----------------------------------------------------------------------------
(* What a step does to the evidence at the workflow server *)

\* Names that were right stay right, and a success is not taken back.
Kept ==
  /\ \A j \in JobIds, wf \in WfNames : Names(j, wf) => Names(j, wf)'
  /\ \A j \in JobIds : Succeeded(j) => Succeeded(j)'

\* A workflow that is created takes no name and no success away from a job.
LEMMA CreateKeeps ==
  ASSUME TypeOK, OwnersInv, NEW j \in Jobs, NEW w \in Workflows, CreateWorkflow(w, j)
  PROVE  Kept /\ OwnersInv' /\ Names(j, w)'
  <1> USE JobsAssumption DEF Names, Phases
  <1>1. owner[w] = None /\ j # None /\ w # None
    BY DEF OwnersInv, CreateWorkflow
  <1>2. owner'[w] = j /\ phase'[w] = "New"
    BY DEF CreateWorkflow, TypeOK
  <1>3. \A v \in Workflows : v # w => owner'[v] = owner[v] /\ phase'[v] = phase[v]
    BY DEF CreateWorkflow, TypeOK
  <1>4. \A i \in JobIds, wf \in WfNames : Names(i, wf) => Names(i, wf)'
    BY <1>1, <1>2, <1>3
  <1>5. \A i \in JobIds : Succeeded(i) => Succeeded(i)'
    BY <1>1, <1>2, <1>3 DEF Succeeded, CreateWorkflow
  <1>6. OwnersInv'
    BY <1>1, <1>2, <1>3 DEF OwnersInv
  <1> QED
    BY <1>1, <1>2, <1>4, <1>5, <1>6 DEF Kept

\* Steps that create nothing keep the evidence.
LEMMA SameKeeps ==
  ASSUME OwnersInv, UNCHANGED <<phase, owner>>
  PROVE  Kept /\ OwnersInv'
  BY DEF Kept, Names, Succeeded, OwnersInv

\* A workflow that moves on keeps its owner, and never leaves "Succeeded".
LEMMA ArgoKeeps ==
  ASSUME TypeOK, OwnersInv, ArgoNext
  PROVE  Kept /\ OwnersInv'
  <1> USE DEF dbVars, redisVars, argoVars
  <1>1. PICK w \in Workflows :
          ArgoRun(w) \/ ExecutorStarts(w) \/ ArgoSucceed(w) \/ ArgoFail(w) \/ ArgoExpire(w)
    BY DEF ArgoNext
  <1>2. owner' = owner
    BY <1>1 DEF ArgoRun, ExecutorStarts, ArgoSucceed, ArgoFail, ArgoExpire
  <1>3. \A v \in Workflows : /\ phase[v] = "Succeeded" => phase'[v] = "Succeeded"
                             /\ phase[v] = "unused" <=> phase'[v] = "unused"
    BY <1>1 DEF ArgoRun, ExecutorStarts, ArgoSucceed, ArgoFail, ArgoExpire, TypeOK, Phases
  <1> QED
    BY <1>2, <1>3 DEF Kept, Names, Succeeded, OwnersInv

-----------------------------------------------------------------------------
(* What keeps each part of the invariant *)

\* Rows that nobody writes stay sound as long as the evidence is kept.
LEMMA RowsKept ==
  ASSUME TypeOK, RowsInv, Kept, UNCHANGED row
  PROVE  RowsInv'
  BY DEF RowsInv, Kept, TypeOK, Rows

\* A row written by engine.modify is sound when what is written is.
LEMMA RowsModified ==
  ASSUME TypeOK, RowsInv, Kept, NEW j \in Jobs, NEW s \in Status, NEW wf \in WfNames,
         Modify(j, s, wf), Names(j, wf)',
         s = "running" => wf # None,
         s = "finished" => Succeeded(j)'
  PROVE  RowsInv'
  <1>1. \A i \in Jobs : row'[i] = row[i] \/ (i = j /\ row'[i] = [status |-> s, wf |-> wf])
    BY DEF Modify, TypeOK
  <1>2. SUFFICES ASSUME NEW i \in Jobs
                 PROVE  /\ Names(i, row[i].wf)'
                        /\ row'[i].status = "running" => row'[i].wf # None
                        /\ row'[i].status = "finished" => Succeeded(i)'
    BY DEF RowsInv
  <1>3. CASE row'[i] = row[i]
    BY <1>3 DEF RowsInv, Kept, TypeOK, Rows
  <1>4. CASE i = j /\ row'[i] = [status |-> s, wf |-> wf]
    BY <1>4
  <1> QED
    BY <1>1, <1>3, <1>4

\* Tasks that were sound stay sound.
LEMMA SoundKept ==
  ASSUME Kept
  PROVE  SoundTasks \subseteq SoundTasks'
  BY DEF Kept, SoundTasks, Tasks

\* Tasks that stay where they are stay sound as long as the evidence is kept.
LEMMA TasksKept ==
  ASSUME TasksInv, Kept, UNCHANGED redisVars
  PROVE  TasksInv'
  BY SoundKept, SeqMonotone DEF TasksInv, redisVars

\* A task that is appended to the queue is sound when it names its job's workflow.
LEMMA TaskAppended ==
  ASSUME TasksInv, Kept, NEW t \in Tasks, Names(t.job, t.wf)', t.kind = "poll" => t.wf # None,
         queue' = Append(queue, t), UNCHANGED delayed
  PROVE  TasksInv'
  <1>1. t \in SoundTasks'
    BY DEF SoundTasks
  <1>2. queue \in Seq(SoundTasks') /\ delayed \in Seq(SoundTasks')
    BY SoundKept, SeqMonotone DEF TasksInv
  <1> QED
    BY <1>1, <1>2, SeqAppend DEF TasksInv

\* queue_to_submit adds a sound task when the job object it pickles is sound.
LEMMA QueueToSubmitSound ==
  ASSUME TasksInv, Kept, NEW j \in Jobs, NEW wf \in WfNames, Names(j, wf)',
         QueueToSubmit(j, wf)
  PROVE  TasksInv'
  <1>1. queue \in Seq(SoundTasks') /\ delayed \in Seq(SoundTasks')
    BY SoundKept, SeqMonotone DEF TasksInv
  <1>2. Task("requeue", j, wf) \in SoundTasks' /\ Task("submit", j, wf) \in SoundTasks'
    BY DEF SoundTasks, Task, Tasks
  <1> QED
    BY <1>1, <1>2, SeqAppend DEF TasksInv, QueueToSubmit

\* Handlers that do not move stay sound as long as the evidence is kept.
LEMMA RequestsKept ==
  ASSUME TypeOK, RequestsInv, Kept, UNCHANGED req
  PROVE  RequestsInv'
  BY DEF RequestsInv, Kept, TypeOK, RequestStates

\* Tasks in progress that do not move stay sound as long as the evidence is kept.
LEMMA WorkKept ==
  ASSUME TypeOK, WorkInv, Kept, UNCHANGED work
  PROVE  WorkInv'
  <1>1. \A x \in Workers : work[x] \in WorkStates
    BY DEF TypeOK
  <1> QED
    BY <1>1 DEF WorkInv, Kept, WorkStates

\* The reconciler stays sound when it does not move and the evidence is kept.
LEMMA RecKept ==
  ASSUME TypeOK, RecInv, Kept, UNCHANGED rec
  PROVE  RecInv'
  BY DEF RecInv, Kept, TypeOK, RecStates, Snapshots

-----------------------------------------------------------------------------
(* The invariant is kept *)

\* Handlers hand on the name they read with the row, and never report a success.
LEMMA ApiSound == IInv /\ ApiNext => IInv'
  <1> SUFFICES ASSUME IInv, ApiNext PROVE IInv'
    OBVIOUS
  <1> USE DEF dbVars, redisVars, argoVars
  <1>t. TypeOK'
    BY ApiType DEF IInv
  <1>0. /\ TypeOK /\ OwnersInv /\ RowsInv /\ TasksInv /\ RequestsInv /\ WorkInv /\ RecInv
        /\ \A c \in Clients : req[c] \in RequestStates
        /\ \A j \in Jobs : row[j] \in Rows
    BY DEF IInv, TypeOK
  <1>1. Kept /\ OwnersInv' /\ WorkInv' /\ RecInv'
    <2>1. UNCHANGED <<phase, owner, work, rec>>
      BY DEF ApiNext, CreateJob, StartRead, CancelRead, DeleteRead, SyncCreate, RequestStep,
             RequestLost, StartExists, StartMakedirs, StartModify, StartSubmit, CancelStop, CancelWrite,
             DeleteStop, DeleteRmtree, DeleteRow, SyncEnqueue, SyncReturn
    <2> QED
      BY <1>0, <2>1, SameKeeps, WorkKept, RecKept
  <1>2. ASSUME NEW j \in BatchJobs, CreateJob(j) PROVE (RowsInv /\ TasksInv /\ RequestsInv)'
    <2>1. RowsInv'
      BY <1>0, <1>1, <1>2 DEF CreateJob, RowsInv, Kept, Names, TypeOK, Rows
    <2> QED
      BY <1>0, <1>1, <1>2, <2>1, TasksKept, RequestsKept DEF CreateJob
  <1>3. ASSUME NEW c \in Clients, NEW j \in Jobs,
               StartRead(c, j) \/ CancelRead(c, j) \/ DeleteRead(c, j)
        PROVE  (RowsInv /\ TasksInv /\ RequestsInv)'
    <2>1. UNCHANGED <<row, queue, delayed>>
      BY <1>3 DEF StartRead, CancelRead, DeleteRead
    <2>2. \A d \in Clients : d # c => req'[d] = req[d]
      BY <1>0, <1>3 DEF StartRead, CancelRead, DeleteRead, Accept, TypeOK
    <2>3. /\ req'[c].job = j /\ req'[c].wf = row[j].wf
          /\ req'[c].pc \in {"cancel_stop", "delete_stop"} => row[j].wf # None
      BY <1>0, <1>3 DEF StartRead, CancelRead, DeleteRead, Accept, TypeOK
    <2>4. RequestsInv'
      BY <1>0, <1>1, <2>2, <2>3, JobsAssumption
      DEF RequestsInv, Kept, RequestStates, RowsInv, Rows
    <2> QED
      BY <1>0, <1>1, <2>1, <2>4, RowsKept, TasksKept
  <1>4. ASSUME NEW c \in Clients, NEW j \in SyncJobs, SyncCreate(c, j)
        PROVE  (RowsInv /\ TasksInv /\ RequestsInv)'
    <2>1. RowsInv'
      BY <1>0, <1>1, <1>4 DEF SyncCreate, RowsInv, Kept, Names, TypeOK, Rows
    <2>2. RequestsInv'
      BY <1>0, <1>1, <1>4, JobsAssumption
      DEF SyncCreate, RequestsInv, Kept, Names, TypeOK, RequestStates, Jobs
    <2> QED
      BY <1>0, <1>1, <1>4, <2>1, <2>2, TasksKept DEF SyncCreate
  <1>5. ASSUME NEW c \in Clients, RequestStep(c) PROVE (RowsInv /\ TasksInv /\ RequestsInv)'
    <2>0. PICK j \in JobIds, wf \in WfNames :
            /\ j = req[c].job /\ wf = req[c].wf /\ Names(j, wf)'
            /\ req[c].pc # "idle" => j \in Jobs
      BY <1>0, <1>1 DEF RequestsInv, Kept, RequestStates
    <2>1. RequestsInv'
      <3>1. \A d \in Clients : d # c => req'[d] = req[d]
        BY <1>0, <1>5 DEF RequestStep, StartExists, StartMakedirs, StartModify, StartSubmit, CancelStop,
           CancelWrite, DeleteStop, DeleteRmtree, DeleteRow, SyncEnqueue, SyncReturn,
           Respond, Goto, TypeOK
      <3>2. \/ req'[c] = IdleRequest
            \/ /\ req'[c].job = req[c].job /\ req'[c].wf = req[c].wf /\ req[c].pc # "idle"
               /\ req'[c].pc \notin {"cancel_stop", "delete_stop"}
        BY <1>0, <1>5 DEF RequestStep, StartExists, StartMakedirs, StartModify, StartSubmit, CancelStop,
           CancelWrite, DeleteStop, DeleteRmtree, DeleteRow, SyncEnqueue, SyncReturn,
           Respond, Goto, TypeOK, RequestStates
      <3> QED
        BY <1>0, <1>1, <2>0, <3>1, <3>2, JobsAssumption
        DEF RequestsInv, Kept, RequestStates, IdleRequest, Names
    <2>2. CASE StartModify(c) \/ CancelWrite(c)
      <3>1. RowsInv'
        BY <1>0, <1>1, <2>0, <2>2, RowsModified DEF StartModify, CancelWrite, Status
      <3> QED
        BY <1>0, <1>1, <2>1, <2>2, <3>1, TasksKept DEF StartModify, CancelWrite
    <2>3. CASE StartSubmit(c)
      BY <1>0, <1>1, <2>0, <2>1, <2>3, RowsKept, TasksKept, QueueToSubmitSound DEF StartSubmit
    <2>4. CASE DeleteRow(c)
      <3>1. RowsInv'
        BY <1>0, <1>1, <2>0, <2>4 DEF DeleteRow, RowsInv, Kept, Names, TypeOK, Rows, NoRow
      <3> QED
        BY <1>0, <1>1, <2>1, <2>4, <3>1, TasksKept DEF DeleteRow
    <2>5. CASE SyncEnqueue(c)
      <3>1. Task("submit", req[c].job, None) \in Tasks
        BY <2>0, <2>5 DEF SyncEnqueue, Task, Tasks
      <3>2. TasksInv'
        BY <1>0, <1>1, <2>5, <3>1, TaskAppended DEF SyncEnqueue, Task, Names
      <3> QED
        BY <1>0, <1>1, <2>1, <2>5, <3>2, RowsKept DEF SyncEnqueue
    <2>6. CASE \/ StartExists(c) \/ StartMakedirs(c) \/ CancelStop(c) \/ DeleteStop(c)
              \/ DeleteRmtree(c) \/ SyncReturn(c)
      <3>1. UNCHANGED <<row, queue, delayed>>
        BY <2>6 DEF StartExists, StartMakedirs, CancelStop, DeleteStop, DeleteRmtree, SyncReturn
      <3> QED
        BY <1>0, <1>1, <2>1, <3>1, RowsKept, TasksKept
    <2> QED
      BY <1>5, <2>2, <2>3, <2>4, <2>5, <2>6 DEF RequestStep
  <1>6. ASSUME NEW c \in Clients, RequestLost(c) PROVE (RowsInv /\ TasksInv /\ RequestsInv)'
    <2>1. RequestsInv'
      BY <1>0, <1>1, <1>6
      DEF RequestLost, Respond, RequestsInv, Kept, Names, TypeOK, IdleRequest, RequestStates
    <2> QED
      BY <1>0, <1>1, <1>6, <2>1, RowsKept, TasksKept DEF RequestLost
  <1>7. (RowsInv /\ TasksInv /\ RequestsInv)'
    BY <1>2, <1>3, <1>4, <1>5, <1>6 DEF ApiNext
  <1> QED
    BY <1>t, <1>1, <1>7 DEF IInv

\* A worker's new state is sound when the objects it holds are.
LEMMA WorkChanged ==
  ASSUME TypeOK, WorkInv, Kept, NEW x \in Workers, NEW r \in WorkStates,
         work' = [work EXCEPT ![x] = r],
         r.pc # "idle" => r.job # None,
         Names(r.job, r.wf)', Names(r.job, r.read)',
         r.pc \in {"created", "announce", "poll", "query"} => r.wf # None,
         r.pc = "write" => r.verdict # None,
         r.verdict = "finished" => Succeeded(r.job)'
  PROVE  WorkInv'
  <1>1. \A y \in Workers : work[y] \in WorkStates /\ work'[y] = IF y = x THEN r ELSE work[y]
    BY DEF TypeOK
  <1>2. SUFFICES ASSUME NEW y \in Workers
                 PROVE  (/\ work[y].pc # "idle" => work[y].job # None
                         /\ Names(work[y].job, work[y].wf)
                         /\ Names(work[y].job, work[y].read)
                         /\ work[y].pc \in {"created", "announce", "poll", "query"}
                              => work[y].wf # None
                         /\ work[y].pc = "write" => work[y].verdict # None
                         /\ work[y].verdict = "finished" => Succeeded(work[y].job))'
    BY DEF WorkInv
  <1>3. CASE y = x
    BY <1>1, <1>3 DEF Names, Succeeded
  <1>4. CASE y # x
    BY <1>1, <1>4 DEF WorkInv, Kept, WorkStates, Names, Succeeded
  <1> QED
    BY <1>3, <1>4

\* A worker that is done holds nothing.
LEMMA WorkDone ==
  ASSUME TypeOK, WorkInv, Kept, NEW x \in Workers, Done(x)
  PROVE  WorkInv'
  <1>1. IdleWork \in WorkStates /\ IdleWork.wf = None /\ IdleWork.read = None
        /\ IdleWork.pc = "idle" /\ IdleWork.verdict = None
    BY DEF IdleWork, WorkStates, WorkSteps
  <1>2. IdleWork.verdict # "finished"
    BY <1>1, JobsAssumption DEF Verdicts
  <1> QED
    BY <1>1, <1>2, WorkChanged DEF Done, Names

\* Tasks run on the names they were pickled with, the names of the workflows they
\* create, and the rows they read.
LEMMA WorkerStepSound ==
  ASSUME IInv, NEW x \in Workers, WorkerStep(x), TypeOK'
  PROVE  IInv'
  <1> USE DEF dbVars, redisVars, argoVars, At
  <1>0. /\ TypeOK /\ OwnersInv /\ RowsInv /\ TasksInv /\ RequestsInv /\ WorkInv /\ RecInv
        /\ work[x] \in WorkStates
        /\ \A j \in Jobs : row[j] \in Rows
    BY DEF IInv, TypeOK
  <1>1. SUFFICES Kept /\ OwnersInv' /\ RowsInv' /\ TasksInv' /\ WorkInv'
    <2>1. UNCHANGED <<req, rec>>
      BY DEF WorkerStep, Take, SubmitCreate, SubmitRaises, SubmitFailed, SubmitRunning,
             EnqueuePoll, PollGet, PollQuery, PollWrite, Requeue
    <2> QED
      BY <1>0, <2>1, RequestsKept, RecKept DEF IInv
  <1>2. PICK j \in JobIds, wf \in WfNames, read \in WfNames :
          /\ j = work[x].job /\ wf = work[x].wf /\ read = work[x].read
          /\ Names(j, wf) /\ Names(j, read)
          /\ work[x].pc # "idle" => j \in Jobs
    BY <1>0 DEF WorkInv, WorkStates
  <1>3. CASE Take(x)
    <2>1. Kept /\ OwnersInv' /\ RowsInv'
      BY <1>0, <1>3, SameKeeps, RowsKept DEF Take
    <2>2. Head(queue) \in SoundTasks /\ Tail(queue) \in Seq(SoundTasks)
      BY <1>0, <1>3, SeqTake DEF Take, TasksInv
    <2>3. TasksInv'
      BY <1>0, <1>3, <2>1, <2>2, SoundKept, SeqMonotone DEF Take, TasksInv
    <2>4. PICK t \in SoundTasks : t = Head(queue)
      BY <2>2
    <2>5. PICK r \in WorkStates :
            r = [IdleWork EXCEPT !.pc = t.kind, !.job = t.job, !.wf = t.wf]
      BY DEF SoundTasks, Tasks, IdleWork, WorkStates, WorkSteps
    <2>6. /\ r.pc \in {"submit", "poll", "requeue"} /\ r.job \in Jobs
          /\ r.read = None /\ r.verdict = None
          /\ r.pc = "poll" => r.wf # None
      BY <2>5 DEF SoundTasks, Tasks, IdleWork
    <2>7. Names(r.job, r.wf)' /\ Names(r.job, r.read)'
      BY <2>1, <2>5, <2>6 DEF Kept, SoundTasks, Tasks, IdleWork, Names
    <2>8. work' = [work EXCEPT ![x] = r]
      BY <1>3, <2>4, <2>5 DEF Take
    <2>9. r.job # None /\ r.verdict # "finished"
      BY <2>6, JobsAssumption DEF Verdicts
    <2>10. WorkInv'
      BY <1>0, <2>1, <2>6, <2>7, <2>8, <2>9, WorkChanged
    <2> QED
      BY <2>1, <2>3, <2>10
  <1>4. CASE SubmitCreate(x)
    <2>1. PICK w \in Workflows :
            /\ CreateWorkflow(w, j)
            /\ work' = [work EXCEPT ![x] = [@ EXCEPT !.pc = "created", !.wf = w]]
      BY <1>2, <1>4 DEF SubmitCreate
    <2>2. Kept /\ OwnersInv' /\ Names(j, w)'
      BY <1>0, <1>2, <1>4, <2>1, CreateKeeps DEF SubmitCreate
    <2>3. RowsInv' /\ TasksInv'
      BY <1>0, <1>4, <2>2, RowsKept, TasksKept DEF SubmitCreate
    <2>4. PICK r \in WorkStates : r = [work[x] EXCEPT !.pc = "created", !.wf = w]
      BY <1>0 DEF WorkStates, WorkSteps
    <2>5. /\ r.pc = "created" /\ r.job = j /\ r.wf = w /\ r.read = read
          /\ r.verdict = work[x].verdict
      BY <1>0, <1>2, <2>4 DEF WorkStates
    <2>6. Names(r.job, r.wf)' /\ Names(r.job, r.read)'
          /\ (r.verdict = "finished" => Succeeded(r.job)')
      BY <1>0, <1>2, <2>2, <2>5 DEF Kept, WorkInv
    <2>7. WorkInv'
      BY <1>0, <1>2, <1>4, <2>1, <2>2, <2>4, <2>5, <2>6, WorkChanged, JobsAssumption
      DEF SubmitCreate
    <2> QED
      BY <2>2, <2>3, <2>7
  <1>5. CASE SubmitRaises(x)
    <2>1. Kept /\ OwnersInv'
      BY <1>0, <1>2, <1>5, SameKeeps, CreateKeeps DEF SubmitRaises
    <2>2. RowsInv' /\ TasksInv'
      BY <1>0, <1>5, <2>1, RowsKept, TasksKept DEF SubmitRaises
    <2>3. PICK r \in WorkStates : r = [work[x] EXCEPT !.pc = "failed"]
      BY <1>0 DEF WorkStates, WorkSteps
    <2>4. /\ r.pc = "failed" /\ r.job = j /\ r.wf = wf /\ r.read = read
          /\ r.verdict = work[x].verdict
      BY <1>0, <1>2, <2>3 DEF WorkStates
    <2>5. Names(r.job, r.wf)' /\ Names(r.job, r.read)'
          /\ (r.verdict = "finished" => Succeeded(r.job)')
      BY <1>0, <1>2, <2>1, <2>4 DEF Kept, WorkInv
    <2>6. WorkInv'
      BY <1>0, <1>2, <1>5, <2>1, <2>3, <2>4, <2>5, WorkChanged, JobsAssumption
      DEF SubmitRaises
    <2> QED
      BY <2>1, <2>2, <2>6
  <1>6. CASE SubmitFailed(x)
    <2>1. Kept /\ OwnersInv' /\ TasksInv' /\ WorkInv'
      BY <1>0, <1>6, SameKeeps, TasksKept, WorkDone DEF SubmitFailed
    <2>2. RowsInv'
      BY <1>0, <1>2, <1>6, <2>1, RowsModified DEF SubmitFailed, Status, Kept
    <2> QED
      BY <2>1, <2>2
  <1>7. CASE SubmitRunning(x)
    <2>1. Kept /\ OwnersInv' /\ TasksInv'
      BY <1>0, <1>7, SameKeeps, TasksKept DEF SubmitRunning
    <2>2. wf # None
      BY <1>0, <1>2, <1>7 DEF SubmitRunning, WorkInv
    <2>3. RowsInv'
      BY <1>0, <1>2, <1>7, <2>1, <2>2, RowsModified DEF SubmitRunning, Status, Kept
    <2>4. PICK r \in WorkStates : r = [work[x] EXCEPT !.pc = "announce"]
      BY <1>0 DEF WorkStates, WorkSteps
    <2>5. /\ r.pc = "announce" /\ r.job = j /\ r.wf = wf /\ r.read = read
          /\ r.verdict = work[x].verdict
      BY <1>0, <1>2, <2>4 DEF WorkStates
    <2>6. Names(r.job, r.wf)' /\ Names(r.job, r.read)'
          /\ (r.verdict = "finished" => Succeeded(r.job)')
      BY <1>0, <1>2, <2>1, <2>5 DEF Kept, WorkInv
    <2>7. work' = [work EXCEPT ![x] = r] \/ Done(x)
      BY <1>7, <2>4 DEF SubmitRunning
    <2>8. WorkInv'
      BY <1>0, <1>2, <1>7, <2>1, <2>2, <2>5, <2>6, <2>7, WorkChanged, WorkDone,
         JobsAssumption DEF SubmitRunning
    <2> QED
      BY <2>1, <2>3, <2>8
  <1>8. CASE EnqueuePoll(x)
    <2>1. Kept /\ OwnersInv' /\ RowsInv' /\ WorkInv'
      BY <1>0, <1>8, SameKeeps, RowsKept, WorkDone DEF EnqueuePoll
    <2>2. PICK t \in Tasks : t = Task("poll", j, wf)
      BY <1>2, <1>8 DEF EnqueuePoll, Task, Tasks
    <2>3. t.job = j /\ t.wf = wf /\ wf # None
      BY <1>0, <1>2, <1>8, <2>2 DEF EnqueuePoll, WorkInv, Task
    <2>4. TasksInv'
      BY <1>0, <1>2, <1>8, <2>1, <2>2, <2>3, TaskAppended DEF EnqueuePoll, Kept
    <2> QED
      BY <2>1, <2>4
  <1>9. CASE PollGet(x)
    <2>1. Kept /\ OwnersInv' /\ RowsInv' /\ TasksInv'
      BY <1>0, <1>9, SameKeeps, RowsKept, TasksKept DEF PollGet
    <2>2. PICK n \in WfNames : n = row[j].wf /\ Names(j, n)
      BY <1>0, <1>2, <1>9 DEF PollGet, RowsInv, Rows
    <2>3. PICK r \in WorkStates : r = [work[x] EXCEPT !.pc = "query", !.read = n]
      BY <1>0 DEF WorkStates, WorkSteps
    <2>4. /\ r.pc = "query" /\ r.job = j /\ r.wf = wf /\ r.read = n /\ wf # None
          /\ r.verdict = work[x].verdict
      BY <1>0, <1>2, <1>9, <2>3 DEF WorkStates, WorkInv, PollGet
    <2>5. Names(r.job, r.wf)' /\ Names(r.job, r.read)'
          /\ (r.verdict = "finished" => Succeeded(r.job)')
      BY <1>0, <1>2, <2>1, <2>2, <2>4 DEF Kept, WorkInv
    <2>6. work' = [work EXCEPT ![x] = r] \/ Done(x)
      BY <1>2, <1>9, <2>2, <2>3 DEF PollGet
    <2>7. WorkInv'
      BY <1>0, <1>2, <1>9, <2>1, <2>4, <2>5, <2>6, WorkChanged, WorkDone, JobsAssumption
      DEF PollGet
    <2> QED
      BY <2>1, <2>7
  <1>10. CASE PollQuery(x)
    <2>1. Kept /\ OwnersInv' /\ RowsInv'
      BY <1>0, <1>10, SameKeeps, RowsKept DEF PollQuery
    <2>2. wf # None /\ j \in Jobs /\ UNCHANGED delayed
      BY <1>0, <1>2, <1>10 DEF PollQuery, WorkInv
    <2>3. PICK answer \in GetWorkflow(wf) :
            IF PollVerdict(answer) = "again"
            THEN /\ queue' = Append(queue, Task("poll", j, wf))
                 /\ Done(x)
            ELSE /\ work' = [work EXCEPT ![x] = [@ EXCEPT !.pc = "write",
                                                    !.verdict = PollVerdict(answer)]]
                 /\ UNCHANGED queue
      BY <1>2, <1>10 DEF PollQuery
    <2>4. CASE PollVerdict(answer) = "again"
      <3>1. PICK t \in Tasks : t = Task("poll", j, wf)
        BY <2>2 DEF Task, Tasks
      <3>2. t.job = j /\ t.wf = wf
        BY <3>1 DEF Task
      <3>3. queue' = Append(queue, t) /\ Done(x)
        BY <2>3, <2>4, <3>1
      <3>4. Names(t.job, t.wf)'
        BY <1>2, <2>1, <3>2 DEF Kept
      <3> QED
        BY <1>0, <2>1, <2>2, <3>2, <3>3, <3>4, TaskAppended, WorkDone
    <2>5. CASE PollVerdict(answer) # "again"
      <3>1. PICK v \in Verdicts : v = PollVerdict(answer)
        BY <2>5 DEF PollVerdict, Verdicts
      <3>2. v = "finished" => Succeeded(j)
        <4>1. v = "finished" => answer = "Succeeded"
          BY <3>1 DEF PollVerdict
        <4>2. answer = "Succeeded" => phase[wf] = "Succeeded" /\ wf \in Workflows
          BY <2>2 DEF GetWorkflow
        <4> QED
          BY <1>2, <2>2, <4>1, <4>2 DEF Succeeded, Names
      <3>3. PICK r \in WorkStates : r = [work[x] EXCEPT !.pc = "write", !.verdict = v]
        BY <1>0 DEF WorkStates, WorkSteps
      <3>4. r.pc = "write" /\ r.job = j /\ r.wf = wf /\ r.read = read /\ r.verdict = v
        BY <1>0, <1>2, <3>3 DEF WorkStates
      <3>5. Names(r.job, r.wf)' /\ Names(r.job, r.read)'
            /\ (r.verdict = "finished" => Succeeded(r.job)')
        BY <1>2, <2>1, <3>2, <3>4 DEF Kept
      <3>6. work' = [work EXCEPT ![x] = r] /\ UNCHANGED queue
        BY <2>3, <2>5, <3>1, <3>3
      <3>7. WorkInv'
        BY <1>0, <2>1, <2>2, <3>4, <3>5, <3>6, WorkChanged, JobsAssumption
      <3> QED
        BY <1>0, <2>1, <2>2, <3>6, <3>7, TasksKept
    <2> QED
      BY <2>4, <2>5
  <1>11. CASE PollWrite(x)
    <2>1. Kept /\ OwnersInv' /\ TasksInv' /\ WorkInv'
      BY <1>0, <1>11, SameKeeps, TasksKept, WorkDone DEF PollWrite
    <2>2. PICK v \in Verdicts : v = work[x].verdict /\ (v = "finished" => Succeeded(j))
      BY <1>0, <1>2, <1>11 DEF PollWrite, WorkInv, WorkStates
    <2>3. j \in Jobs /\ v \in Status /\ v # "running" /\ Modify(j, v, read)
      BY <1>2, <1>11, <2>2 DEF PollWrite, Verdicts, Status
    <2>4. Names(j, read)' /\ (v = "finished" => Succeeded(j)')
      BY <1>2, <2>1, <2>2 DEF Kept
    <2>5. RowsInv'
      BY <1>0, <2>1, <2>3, <2>4, RowsModified
    <2> QED
      BY <2>1, <2>5
  <1>12. CASE Requeue(x)
    <2>1. Kept /\ OwnersInv' /\ RowsInv' /\ WorkInv'
      BY <1>0, <1>12, SameKeeps, RowsKept, WorkDone DEF Requeue
    <2>2. TasksInv'
      BY <1>0, <1>2, <1>12, <2>1, TasksKept, QueueToSubmitSound DEF Requeue, Kept
    <2> QED
      BY <2>1, <2>2
  <1> QED
    BY <1>3, <1>4, <1>5, <1>6, <1>7, <1>8, <1>9, <1>10, <1>11, <1>12 DEF WorkerStep

\* Workers, the scheduler and lost tasks keep the invariant.
LEMMA WorkerSound == IInv /\ WorkerNext => IInv'
  <1> SUFFICES ASSUME IInv, WorkerNext PROVE IInv'
    OBVIOUS
  <1> USE DEF dbVars, redisVars, argoVars
  <1>t. TypeOK'
    BY WorkerType DEF IInv
  <1>0. TypeOK /\ OwnersInv /\ RowsInv /\ TasksInv /\ RequestsInv /\ WorkInv /\ RecInv
    BY DEF IInv
  <1>1. ASSUME NEW x \in Workers, WorkerStep(x) PROVE IInv'
    BY <1>t, <1>1, WorkerStepSound
  <1>2. ASSUME NEW x \in Workers, TaskLost(x) PROVE IInv'
    <2>1. Kept /\ OwnersInv'
      BY <1>0, <1>2, SameKeeps DEF TaskLost
    <2> QED
      BY <1>t, <1>0, <1>2, <2>1, RowsKept, TasksKept, RequestsKept, WorkDone, RecKept
      DEF TaskLost, IInv
  <1>3. ASSUME SchedulerTick PROVE IInv'
    <2>1. Kept /\ OwnersInv'
      BY <1>0, <1>3, SameKeeps DEF SchedulerTick
    <2>2. Head(delayed) \in SoundTasks /\ Tail(delayed) \in Seq(SoundTasks)
      BY <1>0, <1>3, SeqTake DEF SchedulerTick, TasksInv
    <2>3. queue' \in Seq(SoundTasks) /\ delayed' \in Seq(SoundTasks)
      BY <1>0, <1>3, <2>2, SeqAppend DEF SchedulerTick, TasksInv
    <2>4. TasksInv'
      BY <2>1, <2>3, SoundKept, SeqMonotone DEF TasksInv
    <2> QED
      BY <1>t, <1>0, <1>3, <2>1, <2>4, RowsKept, RequestsKept, WorkKept, RecKept
      DEF SchedulerTick, IInv
  <1> QED
    BY <1>1, <1>2, <1>3 DEF WorkerNext

\* The reconciler writes what it read, and reports a success it has seen.
LEMMA RecSound == IInv /\ RecNext => IInv'
  <1> SUFFICES ASSUME IInv, RecNext PROVE IInv'
    OBVIOUS
  <1> USE DEF dbVars, redisVars, argoVars
  <1>t. TypeOK'
    BY RecType DEF IInv
  <1>0. /\ TypeOK /\ OwnersInv /\ RowsInv /\ TasksInv /\ RequestsInv /\ WorkInv /\ RecInv
        /\ rec \in RecStates
    BY DEF IInv, TypeOK
  <1>1. Kept /\ OwnersInv' /\ TasksInv' /\ RequestsInv' /\ WorkInv'
    <2>1. UNCHANGED <<queue, delayed, req, work, phase, owner>>
      BY DEF RecNext, RecStep, RecBegin, RecQuery, RecWrite, RecLost
    <2> QED
      BY <1>0, <2>1, SameKeeps, TasksKept, RequestsKept, WorkKept
  <1>2. SUFFICES RowsInv' /\ RecInv'
    BY <1>t, <1>1 DEF IInv
  <1>3. CASE RecBegin
    <2>1. RowsInv'
      BY <1>0, <1>1, <1>3, RowsKept DEF RecBegin
    <2>2. rec'.job = None /\ rec'.wf = None /\ rec'.verdict = None
      BY <1>3 DEF RecBegin, IdleRec
    <2>3. \A s \in rec'.todo : \E j \in Jobs : s.job = j /\ s.wf = row[j].wf
      BY <1>3 DEF RecBegin, IdleRec
    <2>4. \A j \in Jobs : row[j].wf \in WfNames /\ Names(j, row[j].wf)
      BY <1>0 DEF RowsInv, TypeOK, Rows
    <2>5. \A s \in rec'.todo : Names(s.job, s.wf)'
      BY <1>1, <2>3, <2>4 DEF Kept, Names
    <2> QED
      BY <2>1, <2>2, <2>5, JobsAssumption DEF RecInv, Names, Verdicts
  <1>4. CASE RecQuery
    <2>1. RowsInv'
      BY <1>0, <1>1, <1>4, RowsKept DEF RecQuery
    <2>2. PICK s \in rec.todo : \E answer \in GetWorkflow(s.wf) :
            rec' = IF RecVerdict(answer) = "skip"
                   THEN [rec EXCEPT !.todo = @ \ {s}]
                   ELSE [todo |-> rec.todo \ {s}, job |-> s.job, wf |-> s.wf,
                         verdict |-> RecVerdict(answer)]
      BY <1>4 DEF RecQuery
    <2>3. PICK answer \in GetWorkflow(s.wf) :
            rec' = IF RecVerdict(answer) = "skip"
                   THEN [rec EXCEPT !.todo = @ \ {s}]
                   ELSE [todo |-> rec.todo \ {s}, job |-> s.job, wf |-> s.wf,
                         verdict |-> RecVerdict(answer)]
      BY <2>2
    <2>4. s.job \in Jobs /\ s.wf \in WfNames /\ Names(s.job, s.wf) /\ rec.verdict = None
      BY <1>0, <1>4 DEF RecStates, Snapshots, RecInv, RecQuery, AtLoopHead
    <2>5. rec'.todo \subseteq rec.todo
      BY <1>0, <2>3 DEF RecStates
    <2>6. \A t \in rec'.todo : Names(t.job, t.wf)'
      BY <1>0, <1>1, <2>5 DEF RecInv, Kept, RecStates, Snapshots, Names
    <2>7. RecVerdict(answer) = "finished" => Succeeded(s.job)
      <3>1. RecVerdict(answer) = "finished" => answer = "Succeeded"
        BY DEF RecVerdict
      <3>2. answer = "Succeeded" => s.wf \in Workflows /\ phase[s.wf] = "Succeeded"
        BY <2>4 DEF GetWorkflow
      <3> QED
        BY <2>4, <3>1, <3>2, JobsAssumption DEF Succeeded, Names
    <2>8. CASE RecVerdict(answer) = "skip"
      <3>1. rec'.job = rec.job /\ rec'.wf = rec.wf /\ rec'.verdict = None
        BY <1>0, <2>3, <2>4, <2>8 DEF RecStates
      <3> QED
        BY <1>0, <1>1, <2>1, <2>6, <3>1, JobsAssumption
        DEF RecInv, Kept, RecStates, Verdicts, Names
    <2>9. CASE RecVerdict(answer) # "skip"
      <3>1. rec'.job = s.job /\ rec'.wf = s.wf /\ rec'.verdict = RecVerdict(answer)
        BY <2>3, <2>9
      <3> QED
        BY <1>1, <2>1, <2>4, <2>6, <2>7, <3>1, JobsAssumption DEF RecInv, Kept, Names, Succeeded
    <2> QED
      BY <2>8, <2>9
  <1>5. CASE RecWrite
    <2>1. PICK j \in JobIds, wf \in WfNames, v \in Verdicts \cup {None} :
            /\ j = rec.job /\ wf = rec.wf /\ v = rec.verdict
            /\ v \in Verdicts /\ j \in Jobs
            /\ Names(j, wf) /\ (v = "finished" => Succeeded(j))
      BY <1>0, <1>5 DEF RecWrite, AtLoopHead, RecInv, RecStates
    <2>2. Modify(j, v, wf) /\ v \in Status /\ v # "running"
      BY <1>5, <2>1 DEF RecWrite, Status, Verdicts
    <2>3. Names(j, wf)' /\ (v = "finished" => Succeeded(j)')
      BY <1>1, <2>1 DEF Kept
    <2>4. RowsInv'
      BY <1>0, <1>1, <2>1, <2>2, <2>3, RowsModified
    <2>5. rec'.todo \subseteq rec.todo /\ rec'.job = None /\ rec'.wf = None
          /\ rec'.verdict = None
      BY <1>5 DEF RecWrite, IdleRec
    <2>6. \A t \in rec'.todo : Names(t.job, t.wf)'
      BY <1>0, <1>1, <2>5 DEF RecInv, Kept, RecStates, Snapshots, Names
    <2> QED
      BY <2>4, <2>5, <2>6, JobsAssumption DEF RecInv, Names, Verdicts
  <1>6. CASE RecLost
    <2>1. RowsInv'
      BY <1>0, <1>1, <1>6, RowsKept DEF RecLost
    <2> QED
      BY <1>6, <2>1, JobsAssumption DEF RecLost, IdleRec, RecInv, Names, Verdicts
  <1> QED
    BY <1>3, <1>4, <1>5, <1>6 DEF RecNext, RecStep

\* The workflow server moves workflows on and touches nothing else the invariant reads.
LEMMA ArgoSound == IInv /\ ArgoNext => IInv'
  <1> SUFFICES ASSUME IInv, ArgoNext PROVE IInv'
    OBVIOUS
  <1> USE DEF dbVars, redisVars, argoVars
  <1>1. TypeOK' /\ Kept /\ OwnersInv'
    BY ArgoType, ArgoKeeps DEF IInv
  <1>2. UNCHANGED <<row, queue, delayed, req, work, rec>>
    BY DEF ArgoNext, ArgoRun, ExecutorStarts, ArgoSucceed, ArgoFail, ArgoExpire
  <1> QED
    BY <1>1, <1>2, RowsKept, TasksKept, RequestsKept, WorkKept, RecKept DEF IInv

\* At the start there is no row, no task, no handler and no workflow.
LEMMA InitSound == Init => IInv
  <1> SUFFICES ASSUME Init PROVE IInv
    OBVIOUS
  <1>1. TypeOK
    BY DEF Init, TypeOK, Rows, NoRow, RequestStates, RequestSteps, IdleRequest, WorkStates,
           WorkSteps, IdleWork, RecStates, IdleRec, Phases
  <1>2. OwnersInv /\ RowsInv
    BY DEF Init, OwnersInv, RowsInv, NoRow, Names
  <1>3. TasksInv
    BY DEF Init, TasksInv
  <1>4. RequestsInv /\ WorkInv /\ RecInv
    BY JobsAssumption DEF Init, RequestsInv, WorkInv, RecInv, IdleRequest, IdleWork, IdleRec,
                          Names, Verdicts
  <1> QED
    BY <1>1, <1>2, <1>3, <1>4 DEF IInv

-----------------------------------------------------------------------------
(* Theorems *)

\* Every object that waits in Redis, in a handler, in a worker or in the reconciler
\* names a workflow of its own job or none, and every decision to report a success
\* rests on a workflow that has succeeded; whatever interleaves, dies or is lost.
THEOREM Invariance == Spec => []IInv
  <1>1. Init => IInv
    BY InitSound
  <1>2. IInv /\ [Next]_vars => IInv'
    <2> SUFFICES ASSUME IInv, [Next]_vars PROVE IInv'
      OBVIOUS
    <2>1. CASE Next
      BY <2>1, ApiSound, WorkerSound, RecSound, ArgoSound DEF Next
    <2>2. CASE UNCHANGED vars
      <3> USE <2>2 DEF vars, dbVars, redisVars, argoVars
      <3>1. TypeOK'
        BY DEF IInv, TypeOK
      <3>2. Kept /\ OwnersInv'
        BY SameKeeps DEF IInv
      <3> QED
        BY <3>1, <3>2, RowsKept, TasksKept, RequestsKept, WorkKept, RecKept DEF IInv
    <2> QED
      BY <2>1, <2>2
  <1> QED
    BY <1>1, <1>2, PTL DEF Spec

\* Every variable keeps its type: no interleaving makes a handler pass no name to
\* stop_workflow or a task write a status that is none.
THEOREM TypeCorrectness == Spec => []TypeOK
  <1>1. IInv => TypeOK
    BY DEF IInv
  <1> QED
    BY <1>1, Invariance, PTL

\* A running row always names a workflow of its own job, so the branch of reconcile
\* for a running job without a workflow name is never taken.
THEOREM RunningRowsNameTheirWorkflow == Spec => []RunningHasWorkflow
  <1>1. IInv => RunningHasWorkflow
    BY DEF IInv, RowsInv, TypeOK, Rows, Names, RunningHasWorkflow
  <1> QED
    BY <1>1, Invariance, PTL

\* A job is reported as finished only when a workflow of that job has succeeded,
\* whoever writes the row and however old the object is that it writes.
THEOREM FinishedJobsSucceeded == Spec => []FinishedMeansSucceeded
  <1>1. IInv => FinishedMeansSucceeded
    BY DEF IInv, RowsInv, Succeeded, FinishedMeansSucceeded
  <1> QED
    BY <1>1, Invariance, PTL
=============================================================================
