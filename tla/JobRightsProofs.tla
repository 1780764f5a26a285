--------------------------- MODULE JobRightsProofs ---------------------------
(***************************************************************************)
(* Proofs of OneWorkflowPerJob, QueuedIsPending and ErrorMeansEnded, on top *)
(* of the invariant of JobSystemProofs.                                     *)
(***************************************************************************)
EXTENDS JobRights, JobSystemProofs

USE DEF JobIds, WfNames

-----------------------------------------------------------------------------
(* Rights in a sequence of tasks *)

\* A task that is appended adds a place at the end, if it is a right.
LEMMA RightsAppended ==
  ASSUME NEW j, NEW q \in Seq(Tasks), NEW t \in Tasks
  PROVE  /\ RightsIn(Append(q, t), j) \subseteq RightsIn(q, j) \cup {Len(q) + 1}
         /\ ~IsRight(t, j) => RightsIn(Append(q, t), j) \subseteq RightsIn(q, j)
  BY DEF RightsIn

\* The rights that are left when the oldest task is taken have moved up by one place.
LEMMA RightsShifted ==
  ASSUME NEW j, NEW q \in Seq(Tasks), q # <<>>
  PROVE  /\ \A i \in RightsIn(Tail(q), j) : i \in Nat /\ i + 1 \in RightsIn(q, j)
         /\ IsRight(Head(q), j) => 1 \in RightsIn(q, j)
         /\ RightsIn(q, j) \subseteq Nat \ {0}
  BY DEF RightsIn

\* If one task at most is a right, it is the oldest and leaves, or it moves up.
LEMMA RightTaken ==
  ASSUME NEW j, NEW q \in Seq(Tasks), q # <<>>, AtMostOne(RightsIn(q, j))
  PROVE  \/ RightsIn(Tail(q), j) = {} /\ ~IsRight(Head(q), j)
         \/ RightsIn(Tail(q), j) = {} /\ 1 \in RightsIn(q, j)
         \/ ~IsRight(Head(q), j) /\ \E i, k : i \in RightsIn(q, j) /\ RightsIn(Tail(q), j) \subseteq {k}
  <1>1. \A i \in RightsIn(Tail(q), j) : i \in Nat \ {0} /\ i + 1 \in RightsIn(q, j)
    BY RightsShifted DEF RightsIn
  <1>2. IsRight(Head(q), j) => 1 \in RightsIn(q, j)
    BY RightsShifted
  <1>3. 1 \in RightsIn(q, j) => RightsIn(Tail(q), j) = {}
    BY <1>1 DEF AtMostOne
  <1>4. \A i, k \in RightsIn(Tail(q), j) : i = k
    <2>1. \A i, k \in RightsIn(Tail(q), j) : i + 1 = k + 1 /\ i \in Nat /\ k \in Nat
      BY <1>1 DEF AtMostOne
    <2> QED
      BY <2>1
  <1> QED
    BY <1>1, <1>2, <1>3, <1>4

-----------------------------------------------------------------------------
(* How a step passes a right on *)

\* The right to submit j stays where it is, is lost, or moves to another place.
Passed(j) ==
  \/ Holders(j)' \subseteq Holders(j)
  \/ \E a \in Holders(j) : a[1] # "workflow" /\ \E b : Holders(j)' \subseteq {b}

\* It comes into being with the directory.
Granted(j) ==
  /\ j \notin workspace /\ j \in workspace'
  /\ \E b : Holders(j)' \subseteq Holders(j) \cup {b}

\* What a place is.
LEMMA HolderKinds ==
  ASSUME NEW j, NEW a
  PROVE  a \in Holders(j) <=>
           \/ \E i \in RightsIn(queue, j) : a = <<"queue", i>>
           \/ \E i \in RightsIn(delayed, j) : a = <<"delayed", i>>
           \/ \E x \in WorkRights(j) : a = <<"work", x>>
           \/ \E c \in RequestRights(j) : a = <<"request", c>>
           \/ \E w \in RunsOf(j) : a = <<"workflow", w>>
  BY DEF Holders

\* The same after a step.
LEMMA HolderKindsNext ==
  ASSUME NEW j, NEW a
  PROVE  a \in Holders(j)' <=>
           \/ \E i \in RightsIn(queue, j)' : a = <<"queue", i>>
           \/ \E i \in RightsIn(delayed, j)' : a = <<"delayed", i>>
           \/ \E x \in WorkRights(j)' : a = <<"work", x>>
           \/ \E c \in RequestRights(j)' : a = <<"request", c>>
           \/ \E w \in RunsOf(j)' : a = <<"workflow", w>>
  BY DEF Holders

\* A place of each kind holds the right when the thing it names does.
LEMMA HolderIs ==
  ASSUME NEW j, NEW i
  PROVE  /\ <<"queue", i>> \in Holders(j) <=> i \in RightsIn(queue, j)
         /\ <<"delayed", i>> \in Holders(j) <=> i \in RightsIn(delayed, j)
         /\ <<"work", i>> \in Holders(j) <=> i \in WorkRights(j)
         /\ <<"request", i>> \in Holders(j) <=> i \in RequestRights(j)
         /\ <<"workflow", i>> \in Holders(j) <=> i \in RunsOf(j)
  BY DEF Holders

\* The same after a step.
LEMMA HolderIsNext ==
  ASSUME NEW j, NEW i
  PROVE  /\ <<"queue", i>> \in Holders(j)' <=> i \in RightsIn(queue, j)'
         /\ <<"delayed", i>> \in Holders(j)' <=> i \in RightsIn(delayed, j)'
         /\ <<"work", i>> \in Holders(j)' <=> i \in WorkRights(j)'
         /\ <<"request", i>> \in Holders(j)' <=> i \in RequestRights(j)'
         /\ <<"workflow", i>> \in Holders(j)' <=> i \in RunsOf(j)'
  BY DEF Holders

\* No place gets a right that it has not had.
LEMMA NoneGained ==
  ASSUME NEW j,
         RightsIn(queue, j)' \subseteq RightsIn(queue, j),
         RightsIn(delayed, j)' \subseteq RightsIn(delayed, j),
         WorkRights(j)' \subseteq WorkRights(j),
         RequestRights(j)' \subseteq RequestRights(j),
         RunsOf(j)' \subseteq RunsOf(j)
  PROVE  Holders(j)' \subseteq Holders(j)
  BY DEF Holders

\* One place hands its right to another.
LEMMA HandedOn ==
  ASSUME NEW j, AtMostOne(Holders(j)), NEW a \in Holders(j), a[1] # "workflow",
         a \notin Holders(j)', NEW b, Holders(j)' \subseteq Holders(j) \cup {b}
  PROVE  Passed(j)
  BY DEF Passed, AtMostOne

\* A task that is appended to the queue adds one place at most.
LEMMA QueueGains ==
  ASSUME NEW j, queue \in Seq(Tasks), NEW t \in Tasks,
         queue' = Append(queue, t), delayed' = delayed,
         WorkRights(j)' \subseteq WorkRights(j),
         RequestRights(j)' \subseteq RequestRights(j),
         RunsOf(j)' = RunsOf(j)
  PROVE  /\ ~IsRight(t, j) => Holders(j)' \subseteq Holders(j)
         /\ \E b : Holders(j)' \subseteq Holders(j) \cup {b}
  <1>1. /\ RightsIn(queue, j)' \subseteq RightsIn(queue, j) \cup {Len(queue) + 1}
        /\ ~IsRight(t, j) => RightsIn(queue, j)' \subseteq RightsIn(queue, j)
        /\ RightsIn(delayed, j)' = RightsIn(delayed, j)
    BY RightsAppended DEF RightsIn
  <1>2. Holders(j)' \subseteq Holders(j) \cup {<<"queue", Len(queue) + 1>>}
    BY <1>1, HolderKinds, HolderKindsNext
  <1> QED
    BY <1>1, <1>2, NoneGained

\* The same for the scheduled tasks.
LEMMA DelayedGains ==
  ASSUME NEW j, delayed \in Seq(Tasks), NEW t \in Tasks,
         delayed' = Append(delayed, t), queue' = queue,
         WorkRights(j)' \subseteq WorkRights(j),
         RequestRights(j)' \subseteq RequestRights(j),
         RunsOf(j)' = RunsOf(j)
  PROVE  /\ ~IsRight(t, j) => Holders(j)' \subseteq Holders(j)
         /\ \E b : Holders(j)' \subseteq Holders(j) \cup {b}
  <1>1. /\ RightsIn(delayed, j)' \subseteq RightsIn(delayed, j) \cup {Len(delayed) + 1}
        /\ ~IsRight(t, j) => RightsIn(delayed, j)' \subseteq RightsIn(delayed, j)
        /\ RightsIn(queue, j)' = RightsIn(queue, j)
    BY RightsAppended DEF RightsIn
  <1>2. Holders(j)' \subseteq Holders(j) \cup {<<"delayed", Len(delayed) + 1>>}
    BY <1>1, HolderKinds, HolderKindsNext
  <1> QED
    BY <1>1, <1>2, NoneGained

\* queue_to_submit adds one place at most, and only for its own job.
LEMMA SubmitGains ==
  ASSUME TypeOK, NEW j, NEW k \in Jobs, NEW wf \in WfNames, QueueToSubmit(k, wf),
         WorkRights(j)' \subseteq WorkRights(j),
         RequestRights(j)' \subseteq RequestRights(j),
         RunsOf(j)' = RunsOf(j)
  PROVE  /\ k # j => Holders(j)' \subseteq Holders(j)
         /\ \E b : Holders(j)' \subseteq Holders(j) \cup {b}
  <1>0. queue \in Seq(Tasks) /\ delayed \in Seq(Tasks)
    BY DEF TypeOK
  <1>1. PICK t \in Tasks : t.job = k /\
          \/ delayed' = Append(delayed, t) /\ queue' = queue
          \/ queue' = Append(queue, t) /\ delayed' = delayed
    BY DEF QueueToSubmit, Task, Tasks
  <1> QED
    BY <1>0, <1>1, QueueGains, DelayedGains DEF IsRight

\* A request that is not, or not yet, about to write or submit holds no right.
LEMMA RequestMoved ==
  ASSUME NEW c \in Clients, NEW j, \A d \in Clients : d # c => req'[d] = req[d],
         req'[c].pc \notin {"start_modify", "start_submit"} \/ c \in RequestRights(j)
  PROVE  RequestRights(j)' \subseteq RequestRights(j)
  BY DEF RequestRights

-----------------------------------------------------------------------------
(* Each step passes rights on or grants one *)

\* Request handlers pass a right on to Redis; only the makedirs grants one.
LEMMA ApiPasses ==
  ASSUME IInv, SyncInv, ApiNext, NEW j \in BatchJobs, j \notin unguarded', AtMostOne(Holders(j)),
         MakingInv(j)
  PROVE  Passed(j) \/ Granted(j)
  <1> USE DEF dbVars, redisVars, argoVars
  <1>0. TypeOK /\ RequestsInv /\ \A c \in Clients : req[c] \in RequestStates
    BY DEF IInv, TypeOK
  <1>1. WorkRights(j)' = WorkRights(j) /\ RunsOf(j)' = RunsOf(j)
    <2>1. UNCHANGED <<work, owner>>
      BY DEF ApiNext, CreateJob, StartRead, CancelRead, DeleteRead, SyncCreate, RequestStep,
             RequestLost, StartExists, StartMakedirs, StartModify, StartSubmit, CancelStop, CancelWrite,
             DeleteStop, DeleteRmtree, DeleteRow, SyncEnqueue, SyncReturn
    <2> QED
      BY <2>1 DEF WorkRights, RunsOf
  <1>2. ASSUME UNCHANGED <<queue, delayed>>, RequestRights(j)' \subseteq RequestRights(j)
        PROVE  Passed(j)
    BY <1>1, <1>2, NoneGained DEF RightsIn, Passed
  <1>3. ASSUME NEW k \in BatchJobs, CreateJob(k) PROVE Passed(j)
    BY <1>2, <1>3 DEF CreateJob, RequestRights
  <1>4. ASSUME NEW c \in Clients, NEW k \in Jobs,
               \/ StartRead(c, k) \/ CancelRead(c, k) \/ DeleteRead(c, k)
               \/ SyncCreate(c, k)
        PROVE  Passed(j)
    <2>1. \E s \in RequestSteps : \E wf :
            /\ s \notin {"start_modify", "start_submit"}
            /\ req' = [req EXCEPT ![c] = [pc |-> s, job |-> k, wf |-> wf]]
      BY <1>4 DEF StartRead, CancelRead, DeleteRead, SyncCreate, Accept, RequestSteps
    <2>2. (\A d \in Clients : d # c => req'[d] = req[d])
          /\ req'[c].pc \notin {"start_modify", "start_submit"}
      BY <1>0, <2>1 DEF TypeOK
    <2>3. RequestRights(j)' \subseteq RequestRights(j)
      BY <2>2, RequestMoved
    <2> QED
      BY <1>2, <1>4, <2>3 DEF StartRead, CancelRead, DeleteRead, SyncCreate
  <1>5. ASSUME NEW c \in Clients, StartMakedirs(c) PROVE Passed(j) \/ Granted(j)
    <2>1. CASE req[c].job = j
      <3>1. c \in Making(j) /\ j \notin workspace
        BY <1>5, <2>1 DEF StartMakedirs, Making, MakingInv
      <3>2. RequestRights(j)' \subseteq RequestRights(j) \cup {c} /\ j \in workspace'
        <4>1. req' = [req EXCEPT ![c] = [req[c] EXCEPT !.pc = "start_modify"]]
          BY <1>5 DEF StartMakedirs, Goto
        <4>2. \A d \in Clients : d # c => req'[d] = req[d]
          BY <1>0, <4>1 DEF TypeOK
        <4> QED
          BY <1>5, <2>1, <4>2 DEF StartMakedirs, RequestRights
      <3>3. UNCHANGED <<queue, delayed>>
        BY <1>5 DEF StartMakedirs
      <3>4. Holders(j)' \subseteq Holders(j) \cup {<<"request", c>>}
        BY <1>1, <3>2, <3>3, HolderKinds, HolderKindsNext DEF RightsIn
      <3> QED
        BY <3>1, <3>2, <3>4 DEF Granted
    <2>2. CASE req[c].job # j
      <3>1. RequestRights(j)' \subseteq RequestRights(j)
        BY <1>0, <1>5, <2>2 DEF StartMakedirs, Goto, RequestRights, TypeOK, RequestStates
      <3> QED
        BY <1>2, <1>5, <3>1 DEF StartMakedirs
    <2> QED
      BY <2>1, <2>2
  <1>6. ASSUME NEW c \in Clients,
               \/ StartExists(c) \/ StartModify(c) \/ CancelStop(c) \/ CancelWrite(c)
               \/ DeleteStop(c) \/ DeleteRmtree(c) \/ DeleteRow(c) \/ SyncReturn(c)
               \/ RequestLost(c)
        PROVE  Passed(j)
    <2>1. RequestRights(j)' \subseteq RequestRights(j)
      BY <1>0, <1>6 DEF StartExists, StartModify, CancelStop, CancelWrite, DeleteStop, DeleteRmtree, DeleteRow,
         SyncReturn, RequestLost, Goto, Respond, IdleRequest, RequestRights, TypeOK, RequestStates
    <2> QED
      BY <1>2, <1>6, <2>1 DEF StartExists, StartModify, CancelStop, CancelWrite, DeleteStop, DeleteRmtree,
         DeleteRow, SyncReturn, RequestLost
  <1>7. ASSUME NEW c \in Clients, StartSubmit(c) PROVE Passed(j)
    <2>1. RequestRights(j)' = RequestRights(j) \ {c}
      BY <1>0, <1>7 DEF StartSubmit, Respond, IdleRequest, RequestRights, TypeOK, RequestStates
    <2>2. CASE UNCHANGED redisVars
      BY <1>2, <2>1, <2>2
    <2>3. CASE QueueToSubmit(req[c].job, req[c].wf)
      <3>1. PICK k \in Jobs, wf \in WfNames : k = req[c].job /\ wf = req[c].wf
        BY <1>0, <1>7 DEF StartSubmit, RequestsInv, RequestStates
      <3>2. /\ k # j => Holders(j)' \subseteq Holders(j)
            /\ \E b : Holders(j)' \subseteq Holders(j) \cup {b}
        BY <1>0, <1>1, <2>1, <2>3, <3>1, SubmitGains
      <3>3. k = j => <<"request", c>> \in Holders(j) /\ <<"request", c>> \notin Holders(j)'
        <4>1. k = j => c \in RequestRights(j)
          BY <1>7, <3>1 DEF StartSubmit, RequestRights
        <4> QED
          BY <2>1, <4>1, HolderIs, HolderIsNext
      <3>4. <<"request", c>>[1] # "workflow"
        OBVIOUS
      <3> QED
        BY <3>2, <3>3, <3>4, HandedOn DEF Passed
    <2> QED
      BY <1>7, <2>2, <2>3 DEF StartSubmit
  <1>8. ASSUME NEW c \in Clients, SyncEnqueue(c) PROVE Passed(j)
    <2>1. req[c].job \in SyncJobs /\ req[c].job # j
      BY <1>8, JobsAssumption DEF SyncInv, SyncEnqueue
    <2>2. PICK t \in Tasks : t = Task("submit", req[c].job, None)
      BY <2>1 DEF Task, Tasks, Jobs
    <2>3. t.job # j
      BY <2>1, <2>2 DEF Task
    <2>4. RequestRights(j)' \subseteq RequestRights(j)
      BY <1>0, <1>8 DEF SyncEnqueue, Goto, RequestRights, TypeOK
    <2> QED
      BY <1>0, <1>1, <1>8, <2>2, <2>3, <2>4, QueueGains DEF SyncEnqueue, IsRight, TypeOK, Passed
  <1> QED
    BY <1>3, <1>4, <1>5, <1>6, <1>7, <1>8 DEF ApiNext, RequestStep, Jobs

\* A worker that changes to a step that submits nothing loses the right it had.
LEMMA WorkMoved ==
  ASSUME NEW x \in Workers, NEW j, \A y \in Workers : y # x => work'[y] = work[y],
         work'[x].pc \notin {"submit", "requeue"}
  PROVE  WorkRights(j)' = WorkRights(j) \ {x}
  BY DEF WorkRights

\* A worker that takes a task takes its right.
LEMMA TakePasses ==
  ASSUME IInv, NEW x \in Workers, Take(x), NEW j, AtMostOne(Holders(j))
  PROVE  Passed(j)
  <1> USE DEF dbVars, argoVars
  <1>1. queue \in Seq(Tasks) /\ queue # <<>> /\ queue' = Tail(queue) /\ delayed' = delayed
    BY DEF IInv, TypeOK, Take
  <1>2. PICK t \in Tasks : t = Head(queue)
    BY <1>1
  <1>3. /\ RequestRights(j)' = RequestRights(j)
        /\ RunsOf(j)' = RunsOf(j)
        /\ RightsIn(delayed, j)' = RightsIn(delayed, j)
        /\ RightsIn(queue, j)' = RightsIn(Tail(queue), j)
    BY DEF Take, RequestRights, RunsOf, RightsIn
  <1>4. /\ IsRight(t, j) => WorkRights(j)' \subseteq WorkRights(j) \cup {x}
        /\ ~IsRight(t, j) => WorkRights(j)' \subseteq WorkRights(j)
    <2>1. PICK r : /\ r = [IdleWork EXCEPT !.pc = t.kind, !.job = t.job, !.wf = t.wf]
                   /\ work' = [work EXCEPT ![x] = r]
      BY <1>2 DEF Take
    <2>2. \A y \in Workers : y # x => work'[y] = work[y]
      BY DEF IInv, TypeOK, Take
    <2>3. work'[x].pc = t.kind /\ work'[x].job = t.job
      BY <2>1 DEF IInv, TypeOK, IdleWork
    <2>4. t.kind \in {"submit", "poll", "requeue"}
      BY DEF Tasks
    <2> QED
      BY <2>2, <2>3, <2>4 DEF WorkRights, IsRight
  <1>5. AtMostOne(RightsIn(queue, j))
    <2>1. \A i, k \in RightsIn(queue, j) : <<"queue", i>> = <<"queue", k>>
      BY HolderIs DEF AtMostOne
    <2> QED
      BY <2>1 DEF AtMostOne
  <1>6. CASE RightsIn(Tail(queue), j) = {} /\ ~IsRight(t, j)
    BY <1>3, <1>4, <1>6, NoneGained DEF Passed
  <1>7. CASE RightsIn(Tail(queue), j) = {} /\ 1 \in RightsIn(queue, j)
    <2>1. <<"queue", 1>> \in Holders(j) /\ <<"queue", 1>> \notin Holders(j)'
      BY <1>3, <1>7, HolderIs, HolderIsNext
    <2>2. Holders(j)' \subseteq Holders(j) \cup {<<"work", x>>}
      BY <1>3, <1>4, <1>7, HolderKinds, HolderKindsNext
    <2>3. <<"queue", 1>>[1] # "workflow"
      OBVIOUS
    <2> QED
      BY <2>1, <2>2, <2>3, HandedOn
  <1>8. CASE ~IsRight(t, j) /\ \E i, k : i \in RightsIn(queue, j) /\ RightsIn(Tail(queue), j) \subseteq {k}
    <2>1. PICK i, k : i \in RightsIn(queue, j) /\ RightsIn(Tail(queue), j) \subseteq {k}
      BY <1>8
    <2>2. <<"queue", i>> \in Holders(j)
      BY <2>1, HolderIs
    <2>3. /\ RightsIn(delayed, j) = {} /\ WorkRights(j) = {}
          /\ RequestRights(j) = {} /\ RunsOf(j) = {}
      BY <2>2, HolderIs DEF AtMostOne
    <2>4. Holders(j)' \subseteq {<<"queue", k>>}
      BY <1>3, <1>4, <1>8, <2>1, <2>3, HolderKindsNext
    <2>5. <<"queue", i>>[1] # "workflow"
      OBVIOUS
    <2> QED
      BY <2>2, <2>4, <2>5 DEF Passed
  <1> QED
    BY <1>1, <1>2, <1>5, <1>6, <1>7, <1>8, RightTaken

\* What the other tasks do with the right they hold: use it up, give it back to
\* Redis, or lose it.
LEMMA TaskPasses ==
  ASSUME IInv, NEW x \in Workers, WorkerStep(x) \/ TaskLost(x), ~Take(x),
         NEW j, AtMostOne(Holders(j))
  PROVE  Passed(j)
  <1> USE DEF dbVars, redisVars, argoVars
  <1>0. TypeOK /\ WorkInv /\ work[x] \in WorkStates
    BY DEF IInv, TypeOK
  <1>1. req' = req /\ RequestRights(j)' = RequestRights(j)
    BY DEF WorkerStep, TaskLost, Take, SubmitCreate, SubmitRaises, SubmitFailed, SubmitRunning,
           EnqueuePoll, PollGet, PollQuery, PollWrite, Requeue, RequestRights
  <1>2. /\ \A y \in Workers : y # x => work'[y] = work[y]
        /\ work'[x].pc \notin {"submit", "requeue"}
    <2>1. \A y \in Workers : y # x => work'[y] = work[y]
      BY <1>0 DEF WorkerStep, TaskLost, Done, SubmitCreate, SubmitRaises, SubmitFailed,
             SubmitRunning, EnqueuePoll, PollGet, PollQuery, PollWrite, Requeue, TypeOK
    <2>2. \A r \in WorkStates : work' = [work EXCEPT ![x] = r] => work'[x] = r
      BY <1>0 DEF TypeOK
    <2>3. Done(x) => work'[x].pc = "idle"
      BY <1>0 DEF Done, IdleWork, TypeOK
    <2>4. CASE SubmitCreate(x)
      <3>1. PICK w \in Workflows, r \in WorkStates :
              r = [work[x] EXCEPT !.pc = "created", !.wf = w] /\ work' = [work EXCEPT ![x] = r]
        BY <1>0, <2>4 DEF SubmitCreate, WorkStates, WorkSteps
      <3>2. r.pc = "created"
        BY <1>0, <3>1 DEF WorkStates
      <3> QED
        BY <2>1, <2>2, <3>1, <3>2
    <2>5. ASSUME NEW pc \in WorkSteps, work' = [work EXCEPT ![x].pc = pc]
          PROVE  work'[x].pc = pc
      <3>1. PICK r \in WorkStates : r = [work[x] EXCEPT !.pc = pc]
        BY <1>0 DEF WorkStates
      <3>2. r.pc = pc
        BY <1>0, <3>1 DEF WorkStates
      <3>3. work' = [work EXCEPT ![x] = r]
        BY <2>5, <3>1
      <3> QED
        BY <2>2, <3>2, <3>3
    <2>6. CASE SubmitRaises(x)
      BY <2>1, <2>5, <2>6 DEF SubmitRaises, WorkSteps
    <2>7. CASE SubmitRunning(x)
      BY <2>1, <2>3, <2>5, <2>7 DEF SubmitRunning, WorkSteps
    <2>8. CASE PollGet(x)
      <3>1. PICK n : n = row[work[x].job].wf
        OBVIOUS
      <3>2. PICK r : r = [work[x] EXCEPT !.pc = "query", !.read = n]
        OBVIOUS
      <3>3. work' = [work EXCEPT ![x] = r] \/ Done(x)
        BY <2>8, <3>1, <3>2 DEF PollGet
      <3>4. r.pc = "query"
        BY <1>0, <3>2 DEF WorkStates
      <3> QED
        BY <1>0, <2>1, <2>3, <3>3, <3>4 DEF TypeOK
    <2>9. CASE PollQuery(x)
      <3>1. PICK v : \/ work' = [work EXCEPT ![x] = [@ EXCEPT !.pc = "write", !.verdict = v]]
                     \/ Done(x)
        BY <2>9 DEF PollQuery
      <3>2. PICK r : r = [work[x] EXCEPT !.pc = "write", !.verdict = v]
        OBVIOUS
      <3>3. work' = [work EXCEPT ![x] = r] \/ Done(x)
        BY <3>1, <3>2
      <3>4. r.pc = "write"
        BY <1>0, <3>2 DEF WorkStates
      <3> QED
        BY <1>0, <2>1, <2>3, <3>3, <3>4 DEF TypeOK
    <2>10. CASE SubmitFailed(x) \/ EnqueuePoll(x) \/ PollWrite(x) \/ Requeue(x) \/ TaskLost(x)
      BY <2>1, <2>3, <2>10 DEF SubmitFailed, EnqueuePoll, PollWrite, Requeue, TaskLost
    <2> QED
      BY <2>1, <2>4, <2>6, <2>7, <2>8, <2>9, <2>10 DEF WorkerStep
  <1>3. WorkRights(j)' = WorkRights(j) \ {x}
    BY <1>2, WorkMoved
  <1>4. ASSUME UNCHANGED <<queue, delayed, owner>> PROVE Passed(j)
    BY <1>1, <1>3, <1>4, NoneGained DEF Passed, RightsIn, RunsOf
  <1>5. ASSUME NEW w \in Workflows, CreateWorkflow(w, work[x].job), UNCHANGED redisVars,
               At(x, "submit")
        PROVE  Passed(j)
    <2>1. \A v \in Workflows : v # w => owner'[v] = owner[v]
      BY <1>0, <1>5 DEF CreateWorkflow, TypeOK
    <2>2. owner'[w] = work[x].job
      BY <1>0, <1>5 DEF CreateWorkflow, TypeOK
    <2>3. /\ RightsIn(queue, j)' = RightsIn(queue, j)
          /\ RightsIn(delayed, j)' = RightsIn(delayed, j)
      BY <1>5 DEF RightsIn
    <2>4. CASE work[x].job = j
      <3>1. x \in WorkRights(j) /\ x \notin WorkRights(j)'
        BY <1>3, <1>5, <2>4 DEF WorkRights, At
      <3>2. RunsOf(j)' \subseteq RunsOf(j) \cup {w}
        BY <2>1 DEF RunsOf
      <3>3. Holders(j)' \subseteq Holders(j) \cup {<<"workflow", w>>}
        BY <1>1, <1>3, <2>3, <3>2, HolderKinds, HolderKindsNext
      <3>4. <<"work", x>> \in Holders(j) /\ <<"work", x>> \notin Holders(j)'
        BY <3>1, HolderIs, HolderIsNext
      <3>5. <<"work", x>>[1] # "workflow"
        OBVIOUS
      <3> QED
        BY <3>3, <3>4, <3>5, HandedOn
    <2>5. CASE work[x].job # j
      <3>1. RunsOf(j)' \subseteq RunsOf(j)
        BY <2>1, <2>2, <2>5 DEF RunsOf
      <3> QED
        BY <1>1, <1>3, <2>3, <3>1, NoneGained DEF Passed
    <2> QED
      BY <2>4, <2>5
  <1>6. ASSUME NEW t \in Tasks, ~IsRight(t, j), queue' = Append(queue, t),
               UNCHANGED <<delayed, owner>>
        PROVE  Passed(j)
    <2>1. queue \in Seq(Tasks) /\ RunsOf(j)' = RunsOf(j)
      BY <1>0, <1>6 DEF TypeOK, RunsOf
    <2> QED
      BY <1>1, <1>3, <1>6, <2>1, QueueGains DEF Passed
  <1>7. CASE SubmitCreate(x)
    BY <1>5, <1>7 DEF SubmitCreate
  <1>8. CASE SubmitRaises(x)
    BY <1>4, <1>5, <1>8 DEF SubmitRaises
  <1>9. CASE EnqueuePoll(x) \/ PollQuery(x)
    <2>1. \A n \in WfNames, k \in Jobs : Task("poll", k, n) \in Tasks /\ Task("poll", k, n).kind = "poll"
      BY DEF Task, Tasks
    <2>2. work[x].job \in Jobs /\ work[x].wf \in WfNames
      BY <1>0, <1>9 DEF EnqueuePoll, PollQuery, At, WorkInv, WorkStates
    <2>3. PICK t \in Tasks : t = Task("poll", work[x].job, work[x].wf) /\ t.kind = "poll"
      BY <2>1, <2>2
    <2>4. ~IsRight(t, j)
      BY <2>3 DEF IsRight
    <2>5. (queue' = Append(queue, t) \/ queue' = queue) /\ UNCHANGED <<delayed, owner>>
      BY <1>9, <2>3 DEF EnqueuePoll, PollQuery
    <2> QED
      BY <1>4, <1>6, <2>4, <2>5
  <1>10. CASE Requeue(x)
    <2>1. PICK k \in Jobs, n \in WfNames : k = work[x].job /\ n = work[x].wf
      BY <1>0, <1>10 DEF Requeue, At, WorkInv, WorkStates
    <2>2. RunsOf(j)' = RunsOf(j)
      BY <1>10 DEF Requeue, RunsOf
    <2>3. CASE QueueToSubmit(k, n)
      <3>1. /\ k # j => Holders(j)' \subseteq Holders(j)
            /\ \E b : Holders(j)' \subseteq Holders(j) \cup {b}
        BY <1>0, <1>1, <1>3, <2>2, <2>3, SubmitGains
      <3>2. k = j => x \in WorkRights(j) /\ x \notin WorkRights(j)'
        BY <1>3, <1>10, <2>1 DEF Requeue, At, WorkRights
      <3>3. k = j => <<"work", x>> \in Holders(j) /\ <<"work", x>> \notin Holders(j)'
        BY <3>2, HolderIs, HolderIsNext
      <3>4. <<"work", x>>[1] # "workflow"
        OBVIOUS
      <3> QED
        BY <3>1, <3>3, <3>4, HandedOn DEF Passed
    <2> QED
      BY <1>4, <1>10, <2>1, <2>3 DEF Requeue
  <1>11. CASE SubmitFailed(x) \/ SubmitRunning(x) \/ PollGet(x) \/ PollWrite(x) \/ TaskLost(x)
    BY <1>4, <1>11 DEF SubmitFailed, SubmitRunning, PollGet, PollWrite, TaskLost
  <1> QED
    BY <1>7, <1>8, <1>9, <1>10, <1>11 DEF WorkerStep

\* A scheduled task that comes due takes its right to the queue.
LEMMA TickPasses ==
  ASSUME IInv, SchedulerTick, NEW j, AtMostOne(Holders(j))
  PROVE  Passed(j)
  <1> USE DEF dbVars, argoVars
  <1>1. /\ queue \in Seq(Tasks) /\ delayed \in Seq(Tasks) /\ delayed # <<>>
        /\ queue' = Append(queue, Head(delayed)) /\ delayed' = Tail(delayed)
    BY DEF IInv, TypeOK, SchedulerTick
  <1>2. PICK t \in Tasks : t = Head(delayed)
    BY <1>1
  <1>3. /\ RequestRights(j)' = RequestRights(j)
        /\ WorkRights(j)' = WorkRights(j)
        /\ RunsOf(j)' = RunsOf(j)
        /\ RightsIn(delayed, j)' = RightsIn(Tail(delayed), j)
    BY DEF SchedulerTick, RequestRights, WorkRights, RunsOf, RightsIn
  <1>4. /\ RightsIn(queue, j)' \subseteq RightsIn(queue, j) \cup {Len(queue) + 1}
        /\ ~IsRight(t, j) => RightsIn(queue, j)' \subseteq RightsIn(queue, j)
    BY <1>1, <1>2, RightsAppended DEF RightsIn
  <1>5. AtMostOne(RightsIn(delayed, j))
    <2>1. \A i, k \in RightsIn(delayed, j) : <<"delayed", i>> = <<"delayed", k>>
      BY HolderIs DEF AtMostOne
    <2> QED
      BY <2>1 DEF AtMostOne
  <1>6. CASE RightsIn(Tail(delayed), j) = {} /\ ~IsRight(t, j)
    BY <1>3, <1>4, <1>6, NoneGained DEF Passed
  <1>7. CASE RightsIn(Tail(delayed), j) = {} /\ 1 \in RightsIn(delayed, j)
    <2>1. <<"delayed", 1>> \in Holders(j) /\ <<"delayed", 1>> \notin Holders(j)'
      BY <1>3, <1>7, HolderIs, HolderIsNext
    <2>2. Holders(j)' \subseteq Holders(j) \cup {<<"queue", Len(queue) + 1>>}
      BY <1>3, <1>4, <1>7, HolderKinds, HolderKindsNext
    <2>3. <<"delayed", 1>>[1] # "workflow"
      OBVIOUS
    <2> QED
      BY <2>1, <2>2, <2>3, HandedOn
  <1>8. CASE /\ ~IsRight(t, j)
             /\ \E i, k : i \in RightsIn(delayed, j) /\ RightsIn(Tail(delayed), j) \subseteq {k}
    <2>1. PICK i, k : i \in RightsIn(delayed, j) /\ RightsIn(Tail(delayed), j) \subseteq {k}
      BY <1>8
    <2>2. <<"delayed", i>> \in Holders(j)
      BY <2>1, HolderIs
    <2>3. /\ RightsIn(queue, j) = {} /\ WorkRights(j) = {}
          /\ RequestRights(j) = {} /\ RunsOf(j) = {}
      BY <2>2, HolderIs DEF AtMostOne
    <2>4. Holders(j)' \subseteq {<<"delayed", k>>}
      BY <1>3, <1>4, <1>8, <2>1, <2>3, HolderKindsNext
    <2>5. <<"delayed", i>>[1] # "workflow"
      OBVIOUS
    <2> QED
      BY <2>2, <2>4, <2>5 DEF Passed
  <1> QED
    BY <1>1, <1>2, <1>5, <1>6, <1>7, <1>8, RightTaken

\* The reconciler and the workflow server neither give nor take a right.
LEMMA OthersPass ==
  ASSUME RecNext \/ ArgoNext \/ UNCHANGED vars, NEW j
  PROVE  Passed(j)
  <1>1. UNCHANGED <<queue, delayed, req, work, owner>>
    BY DEF RecNext, RecStep, RecBegin, RecQuery, RecWrite, RecLost, ArgoNext, ArgoRun,
           ExecutorStarts, ArgoSucceed, ArgoFail, ArgoExpire, vars, dbVars, redisVars, argoVars
  <1> QED
    BY <1>1, NoneGained DEF Passed, RightsIn, WorkRights, RequestRights, RunsOf

\* A step that passes or grants a right leaves one at most.
LEMMA StillOne ==
  ASSUME NEW j, AtMostOne(Holders(j)), Holders(j) # {} => j \in workspace,
         \/ Passed(j) /\ (j \in workspace => j \in workspace')
         \/ Granted(j)
  PROVE  AtMostOne(Holders(j)') /\ (Holders(j)' # {} => j \in workspace')
  <1>1. CASE Granted(j)
    BY <1>1 DEF Granted, AtMostOne
  <1>2. CASE Passed(j) /\ (j \in workspace => j \in workspace')
    BY <1>2 DEF Passed, AtMostOne
  <1> QED
    BY <1>1, <1>2

\* A directory only goes with delete_job, which leaves the job unguarded.
LEMMA DirectoryStays ==
  ASSUME [Next]_vars, NEW j, j \in workspace, j \notin unguarded'
  PROVE  j \in workspace' /\ j \notin unguarded
  <1> USE DEF vars, dbVars, redisVars, argoVars
  <1>1. CASE ApiNext
    BY <1>1 DEF ApiNext, CreateJob, StartRead, CancelRead, DeleteRead, SyncCreate, RequestStep,
           RequestLost, StartExists, StartMakedirs, StartModify, StartSubmit, CancelStop, CancelWrite,
           DeleteStop, DeleteRmtree, DeleteRow, SyncEnqueue, SyncReturn
  <1>2. CASE WorkerNext
    BY <1>2 DEF WorkerNext, WorkerStep, TaskLost, SchedulerTick, Take, SubmitCreate, SubmitRaises,
           SubmitFailed, SubmitRunning, EnqueuePoll, PollGet, PollQuery, PollWrite, Requeue
  <1>3. CASE RecNext \/ ArgoNext \/ UNCHANGED vars
    BY <1>3 DEF RecNext, RecStep, RecBegin, RecQuery, RecWrite, RecLost, ArgoNext, ArgoRun,
           ExecutorStarts, ArgoSucceed, ArgoFail, ArgoExpire
  <1> QED
    BY <1>1, <1>2, <1>3 DEF Next

\* unguarded is a history.
LEMMA UnguardedGrows == [Next]_vars => unguarded \subseteq unguarded'
  <1> SUFFICES ASSUME [Next]_vars PROVE unguarded \subseteq unguarded'
    OBVIOUS
  <1> USE DEF vars, dbVars, redisVars, argoVars
  <1>1. CASE ApiNext
    BY <1>1 DEF ApiNext, CreateJob, StartRead, CancelRead, DeleteRead, SyncCreate, RequestStep,
           RequestLost, StartExists, StartMakedirs, StartModify, StartSubmit, CancelStop, CancelWrite,
           DeleteStop, DeleteRmtree, DeleteRow, SyncEnqueue, SyncReturn
  <1>2. CASE WorkerNext
    BY <1>2 DEF WorkerNext, WorkerStep, TaskLost, SchedulerTick, Take, SubmitCreate, SubmitRaises,
           SubmitFailed, SubmitRunning, EnqueuePoll, PollGet, PollQuery, PollWrite, Requeue
  <1>3. CASE RecNext \/ ArgoNext \/ UNCHANGED vars
    BY <1>3 DEF RecNext, RecStep, RecBegin, RecQuery, RecWrite, RecLost, ArgoNext, ArgoRun,
           ExecutorStarts, ArgoSucceed, ArgoFail, ArgoExpire
  <1> QED
    BY <1>1, <1>2, <1>3 DEF Next

\* Only process_sync_job gets a request to the point where it enqueues submit_job.
LEMMA SyncKept == IInv /\ SyncInv /\ [Next]_vars => SyncInv'
  <1> SUFFICES ASSUME IInv, SyncInv, [Next]_vars, NEW c \in Clients,
                      req'[c].pc = "sync_enqueue"
               PROVE  req'[c].job \in SyncJobs
    BY DEF SyncInv
  <1> USE DEF vars, dbVars, redisVars, argoVars
  <1>0. req \in [Clients -> RequestStates]
    BY DEF IInv, TypeOK
  <1>1. CASE UNCHANGED req
    BY <1>1 DEF SyncInv
  <1>2. ASSUME NEW d \in Clients, NEW k \in SyncJobs, SyncCreate(d, k)
        PROVE  req'[c].job \in SyncJobs
    BY <1>0, <1>2 DEF SyncCreate, SyncInv
  <1>3. ASSUME NEW d \in Clients, NEW k \in Jobs,
               StartRead(d, k) \/ CancelRead(d, k) \/ DeleteRead(d, k)
        PROVE  req'[c].job \in SyncJobs
    BY <1>0, <1>3 DEF StartRead, CancelRead, DeleteRead, Accept, SyncInv
  <1>4. ASSUME NEW d \in Clients, RequestStep(d) \/ RequestLost(d)
        PROVE  req'[c].job \in SyncJobs
    <2>1. Respond(d) \/ \E s \in RequestSteps \ {"sync_enqueue"} : Goto(d, s)
      BY <1>4 DEF RequestStep, RequestLost, StartExists, StartMakedirs, StartModify, StartSubmit, CancelStop,
                  CancelWrite, DeleteStop, DeleteRmtree, DeleteRow, SyncEnqueue, SyncReturn,
                  RequestSteps
    <2>2. CASE Respond(d)
      BY <1>0, <2>2 DEF Respond, IdleRequest, SyncInv
    <2>3. ASSUME NEW s \in RequestSteps \ {"sync_enqueue"}, Goto(d, s)
          PROVE  req'[c].job \in SyncJobs
      <3>1. PICK r \in RequestStates : r = [req[d] EXCEPT !.pc = s]
        BY <1>0 DEF RequestStates
      <3>2. r.pc = s
        BY <1>0, <3>1 DEF RequestStates
      <3>3. req' = [req EXCEPT ![d] = r]
        BY <2>3, <3>1 DEF Goto
      <3> QED
        BY <1>0, <3>2, <3>3 DEF SyncInv
    <2> QED
      BY <2>1, <2>2, <2>3
  <1>5. CASE ApiNext
    BY <1>1, <1>2, <1>3, <1>4, <1>5 DEF ApiNext, CreateJob
  <1>6. CASE WorkerNext
    BY <1>1, <1>6 DEF WorkerNext, WorkerStep, TaskLost, SchedulerTick, Take, SubmitCreate,
         SubmitRaises, SubmitFailed, SubmitRunning, EnqueuePoll, PollGet, PollQuery, PollWrite,
         Requeue
  <1>7. CASE RecNext \/ ArgoNext \/ UNCHANGED vars
    BY <1>1, <1>7 DEF RecNext, RecStep, RecBegin, RecQuery, RecWrite, RecLost, ArgoNext, ArgoRun,
           ExecutorStarts, ArgoSucceed, ArgoFail, ArgoExpire
  <1> QED
    BY <1>5, <1>6, <1>7 DEF Next

\* Every step passes the right to submit a job on or, with its directory, grants it.
LEMMA StepPasses ==
  ASSUME IInv, SyncInv, RightsInv, [Next]_vars, NEW j \in BatchJobs, j \notin unguarded'
  PROVE  (Passed(j) \/ Granted(j)) /\ AtMostOne(Holders(j)) /\ j \notin unguarded
  <1>1. j \notin unguarded
    BY UnguardedGrows
  <1>2. AtMostOne(Holders(j)) /\ MakingInv(j)
    BY <1>1 DEF RightsInv, HoldersInv
  <1>3. CASE ApiNext
    BY <1>1, <1>2, <1>3, ApiPasses
  <1>4. CASE WorkerNext
    BY <1>1, <1>2, <1>4, TakePasses, TaskPasses, TickPasses DEF WorkerNext
  <1>5. CASE RecNext \/ ArgoNext \/ UNCHANGED vars
    BY <1>1, <1>2, <1>5, OthersPass
  <1> QED
    BY <1>3, <1>4, <1>5 DEF Next

\* Who gets from looking for the directory to making it finds nobody there, unless the
\* job is unguarded from then on.
LEMMA MakingKept ==
  ASSUME IInv, RightsInv, [Next]_vars, NEW j \in BatchJobs, j \notin unguarded'
  PROVE  MakingInv(j)'
  <1> USE DEF vars, dbVars, redisVars, argoVars
  <1>0. /\ req \in [Clients -> RequestStates]
        /\ MakingInv(j) /\ HoldersInv(j)
    BY UnguardedGrows DEF IInv, TypeOK, RightsInv
  <1>1. ASSUME Making(j)' \subseteq Making(j), j \in workspace' => j \in workspace
        PROVE  MakingInv(j)'
    BY <1>0, <1>1 DEF MakingInv, AtMostOne
  <1>2. ASSUME UNCHANGED req, j \in workspace' => j \in workspace
        PROVE  MakingInv(j)'
    BY <1>1, <1>2 DEF Making
  <1>3. ASSUME NEW c \in Clients, StartExists(c) PROVE MakingInv(j)'
    <2>1. UNCHANGED workspace
      BY <1>3 DEF StartExists
    <2>2. CASE req[c].job = j /\ j \notin workspace
      <3>1. Making(j) = {}
        BY <1>3, <2>2 DEF StartExists
      <3>2. \A d \in Clients : d # c => req'[d] = req[d]
        BY <1>0, <1>3, <2>2 DEF StartExists, Goto
      <3>3. Making(j)' \subseteq {c}
        BY <3>1, <3>2 DEF Making
      <3> QED
        BY <2>1, <2>2, <3>3 DEF MakingInv, AtMostOne
    <2>3. CASE ~(req[c].job = j /\ j \notin workspace)
      <3>1. Making(j)' \subseteq Making(j)
        BY <1>0, <1>3, <2>3
        DEF StartExists, Making, Goto, Respond, IdleRequest, RequestStates
      <3> QED
        BY <1>1, <2>1, <3>1
    <2> QED
      BY <2>2, <2>3
  <1>4. ASSUME NEW c \in Clients, StartMakedirs(c) PROVE MakingInv(j)'
    <2>1. Making(j)' \subseteq Making(j) \ {c}
      BY <1>0, <1>4 DEF StartMakedirs, Making, Goto, RequestStates
    <2>2. CASE req[c].job = j
      <3>1. c \in Making(j)
        BY <1>4, <2>2 DEF StartMakedirs, Making
      <3>2. Making(j)' = {}
        BY <1>0, <2>1, <3>1 DEF MakingInv, AtMostOne
      <3> QED
        BY <3>2 DEF MakingInv, AtMostOne
    <2>3. CASE req[c].job # j
      <3>1. j \in workspace' => j \in workspace
        BY <1>4, <2>3 DEF StartMakedirs
      <3> QED
        BY <1>1, <2>1, <3>1
    <2> QED
      BY <2>2, <2>3
  <1>5. ASSUME NEW c \in Clients, NEW k \in Jobs,
               \/ StartRead(c, k) \/ CancelRead(c, k) \/ DeleteRead(c, k)
               \/ SyncCreate(c, k)
        PROVE  MakingInv(j)'
    <2>1. \E s \in RequestSteps : \E wf :
            /\ s # "start_makedirs"
            /\ req' = [req EXCEPT ![c] = [pc |-> s, job |-> k, wf |-> wf]]
      BY <1>5 DEF StartRead, CancelRead, DeleteRead, SyncCreate, Accept, RequestSteps
    <2>2. /\ \A d \in Clients : d # c => req'[d] = req[d]
          /\ req'[c].pc # "start_makedirs"
      BY <1>0, <2>1
    <2>3. Making(j)' \subseteq Making(j)
      BY <2>2 DEF Making
    <2>4. UNCHANGED workspace
      BY <1>5 DEF StartRead, CancelRead, DeleteRead, SyncCreate
    <2> QED
      BY <1>1, <2>3, <2>4
  <1>6. ASSUME NEW c \in Clients,
               \/ StartModify(c) \/ StartSubmit(c) \/ CancelStop(c) \/ CancelWrite(c)
               \/ DeleteStop(c) \/ DeleteRmtree(c) \/ DeleteRow(c) \/ SyncEnqueue(c)
               \/ SyncReturn(c) \/ RequestLost(c)
        PROVE  MakingInv(j)'
    <2>1. Making(j)' \subseteq Making(j)
      BY <1>0, <1>6 DEF StartModify, StartSubmit, CancelStop, CancelWrite, DeleteStop,
         DeleteRmtree, DeleteRow, SyncEnqueue, SyncReturn, RequestLost, Goto, Respond,
         IdleRequest, Making, RequestStates
    <2>2. j \in workspace' => j \in workspace
      BY <1>6 DEF StartModify, StartSubmit, CancelStop, CancelWrite, DeleteStop,
         DeleteRmtree, DeleteRow, SyncEnqueue, SyncReturn, RequestLost
    <2> QED
      BY <1>1, <2>1, <2>2
  <1>7. CASE ApiNext
    <2>1. ASSUME NEW k \in BatchJobs, CreateJob(k) PROVE MakingInv(j)'
      BY <1>2, <2>1 DEF CreateJob
    <2> QED
      BY <1>3, <1>4, <1>5, <1>6, <1>7, <2>1 DEF ApiNext, RequestStep, Jobs
  <1>8. CASE WorkerNext
    BY <1>2, <1>8 DEF WorkerNext, WorkerStep, TaskLost, SchedulerTick, Take, SubmitCreate,
         SubmitRaises, SubmitFailed, SubmitRunning, EnqueuePoll, PollGet, PollQuery, PollWrite,
         Requeue
  <1>9. CASE RecNext \/ UNCHANGED vars
    BY <1>2, <1>9 DEF RecNext, RecStep, RecBegin, RecQuery, RecWrite, RecLost
  <1>10. CASE ArgoNext
    <2>1. ASSUME NEW w \in Workflows, ExecutorStarts(w) PROVE MakingInv(j)'
      <3>1. CASE owner[w] = j
        <4>1. <<"workflow", w>> \in Holders(j)
          BY <3>1, HolderIs DEF RunsOf
        <4> QED
          BY <1>0, <2>1, <3>1, <4>1 DEF ExecutorStarts, HoldersInv
      <3>2. CASE owner[w] # j
        BY <1>2, <2>1, <3>2 DEF ExecutorStarts
      <3> QED
        BY <3>1, <3>2
    <2>2. ASSUME NEW w \in Workflows, ArgoRun(w) \/ ArgoSucceed(w) \/ ArgoFail(w) \/ ArgoExpire(w)
          PROVE  MakingInv(j)'
      BY <1>2, <2>2 DEF ArgoRun, ArgoSucceed, ArgoFail, ArgoExpire
    <2> QED
      BY <1>10, <2>1, <2>2 DEF ArgoNext
  <1> QED
    BY <1>7, <1>8, <1>9, <1>10 DEF Next

\* So it leaves the right in one place at most.
LEMMA RightsKept == IInv /\ SyncInv /\ RightsInv /\ [Next]_vars => RightsInv'
  <1> SUFFICES ASSUME IInv, SyncInv, RightsInv, [Next]_vars, NEW j \in BatchJobs, j \notin unguarded'
               PROVE  MakingInv(j)' /\ HoldersInv(j)'
    BY DEF RightsInv
  <1>1. (Passed(j) \/ Granted(j)) /\ AtMostOne(Holders(j)) /\ j \notin unguarded
    BY StepPasses
  <1>2. Holders(j) # {} => j \in workspace
    BY <1>1 DEF RightsInv, HoldersInv
  <1>3. j \in workspace => j \in workspace'
    BY DirectoryStays
  <1>4. HoldersInv(j)'
    BY <1>1, <1>2, <1>3, StillOne DEF HoldersInv, AtMostOne
  <1> QED
    BY <1>4, MakingKept

\* At the start nobody has a right.
LEMMA NoRightsAtFirst == Init => SyncInv /\ RightsInv
  <1> SUFFICES ASSUME Init PROVE SyncInv /\ RightsInv
    OBVIOUS
  <1>1. SyncInv
    BY DEF Init, SyncInv, IdleRequest
  <1>2. \A j \in BatchJobs : Holders(j) = {}
    <2> SUFFICES ASSUME NEW j \in BatchJobs PROVE Holders(j) = {}
      OBVIOUS
    <2>1. RightsIn(queue, j) = {} /\ RightsIn(delayed, j) = {}
      BY DEF Init, RightsIn
    <2>2. WorkRights(j) = {} /\ RequestRights(j) = {}
      BY DEF Init, IdleWork, IdleRequest, WorkRights, RequestRights
    <2>3. RunsOf(j) = {}
      BY JobsAssumption DEF Init, RunsOf, Jobs
    <2> QED
      BY <2>1, <2>2, <2>3 DEF Holders
  <1>3. \A j \in BatchJobs : Making(j) = {}
    BY DEF Init, Making, IdleRequest
  <1> QED
    BY <1>1, <1>2, <1>3 DEF RightsInv, MakingInv, HoldersInv, AtMostOne

-----------------------------------------------------------------------------
(* Errors *)

\* A workflow that has ended stays so, and only such a workflow is removed.
LEMMA EndedStays ==
  ASSUME TypeOK, \A w \in gone : Ended(w), [Next]_vars
  PROVE  /\ \A w \in Workflows : Ended(w) => Ended(w)'
         /\ \A w \in gone' : Ended(w)'
  <1> USE DEF vars, dbVars, redisVars, argoVars
  <1>0. gone \subseteq Workflows /\ phase \in [Workflows -> Phases]
    BY DEF TypeOK
  <1>1. ASSUME UNCHANGED <<phase, gone>>
        PROVE  /\ \A w \in Workflows : Ended(w) => Ended(w)'
               /\ \A w \in gone' : Ended(w)'
    BY <1>0, <1>1 DEF Ended
  <1>2. ASSUME NEW v \in Workflows, NEW k, CreateWorkflow(v, k)
        PROVE  /\ \A w \in Workflows : Ended(w) => Ended(w)'
               /\ \A w \in gone' : Ended(w)'
    BY <1>0, <1>2 DEF Ended, CreateWorkflow
  <1>3. CASE ApiNext
    BY <1>1, <1>3 DEF ApiNext, CreateJob, StartRead, CancelRead, DeleteRead, SyncCreate,
         RequestStep, RequestLost, StartExists, StartMakedirs, StartModify, StartSubmit, CancelStop, CancelWrite,
         DeleteStop, DeleteRmtree, DeleteRow, SyncEnqueue, SyncReturn
  <1>4. CASE WorkerNext
    BY <1>1, <1>2, <1>4 DEF WorkerNext, WorkerStep, TaskLost, SchedulerTick, Take, SubmitCreate,
         SubmitRaises, SubmitFailed, SubmitRunning, EnqueuePoll, PollGet, PollQuery, PollWrite,
         Requeue
  <1>5. CASE RecNext \/ UNCHANGED vars
    BY <1>1, <1>5 DEF RecNext, RecStep, RecBegin, RecQuery, RecWrite, RecLost
  <1>6. CASE ArgoNext
    <2>1. PICK v \in Workflows :
            ArgoRun(v) \/ ExecutorStarts(v) \/ ArgoSucceed(v) \/ ArgoFail(v) \/ ArgoExpire(v)
      BY <1>6 DEF ArgoNext
    <2> QED
      BY <1>0, <1>1, <2>1 DEF ArgoRun, ExecutorStarts, ArgoSucceed, ArgoFail, ArgoExpire, Ended
  <1> QED
    BY <1>3, <1>4, <1>5, <1>6 DEF Next

\* A right that is used up, and whose workflow has ended, stays so.
LEMMA SpentStays ==
  ASSUME IInv, SyncInv, RightsInv, \A w \in gone : Ended(w), [Next]_vars,
         NEW j \in BatchJobs, j \notin unguarded', Spent(j)
  PROVE  Spent(j)'
  <1>1. j \in workspace /\ j \in workspace'
    BY DirectoryStays DEF Spent
  <1>2. Holders(j)' \subseteq Holders(j)
    BY <1>1, StepPasses DEF Passed, Granted, Spent
  <1>3. \A w \in RunsOf(j) : Ended(w) => Ended(w)'
    BY EndedStays DEF IInv, RunsOf
  <1>4. \A a \in Holders(j)' : a[1] = "workflow" /\ Ended(a[2])'
    <2>1. ASSUME NEW a, a \in Holders(j)' PROVE a[1] = "workflow" /\ Ended(a[2])'
      <3>1. a \in Holders(j) /\ a[1] = "workflow" /\ Ended(a[2])
        BY <1>2, <2>1 DEF Spent
      <3>2. a[2] \in RunsOf(j)
        BY <3>1, HolderKinds
      <3> QED
        BY <1>3, <3>1, <3>2
    <2> QED
      BY <2>1
  <1> QED
    BY <1>1, <1>4 DEF Spent

\* Whoever has seen the end of a workflow of j has seen the right to submit j used up.
LEMMA EndSeen ==
  ASSUME RightsInv, NEW j \in BatchJobs, j \notin unguarded, NEW w \in Workflows,
         owner[w] = j, Ended(w)
  PROVE  Spent(j)
  <1>1. <<"workflow", w>> \in Holders(j)
    BY HolderIs DEF RunsOf
  <1>2. \A a \in Holders(j) : a = <<"workflow", w>>
    BY <1>1 DEF RightsInv, HoldersInv, AtMostOne
  <1>3. j \in workspace
    BY <1>1 DEF RightsInv, HoldersInv
  <1> QED
    BY <1>2, <1>3 DEF Spent

\* Without failing calls to Argo, an exception for a workflow means that it is gone.
LEMMA BadAnswer ==
  ASSUME TypeOK, "argo" \notin Faults, \A v \in gone : Ended(v), NEW w \in Workflows,
         NEW answer \in GetWorkflow(w), answer \in {"exception", "Failed"}, w # None
  PROVE  Ended(w)
  BY DEF GetWorkflow, Ended, TypeOK, Phases

\* An error is written only from an error: one decided on by a poll or by reconcile, or
\* the exception in submit_job.
LEMMA ErrorWritten ==
  ASSUME IInv, [Next]_vars, NEW j \in Jobs, row'[j].status = "error"
  PROVE  \/ row[j].status = "error"
         \/ rec.verdict = "error" /\ rec.job = j
         \/ \E x \in Workers : work[x].job = j /\ (work[x].verdict = "error" \/ work[x].pc = "failed")
  <1> USE DEF vars, dbVars, redisVars, argoVars
  <1>0. row \in [Jobs -> Rows]
    BY DEF IInv, TypeOK
  <1>1. ASSUME NEW k, NEW s, NEW wf, Modify(k, s, wf)
        PROVE  row'[j].status = row[j].status \/ (k = j /\ row'[j].status = s)
    BY <1>0, <1>1 DEF Modify
  <1>2. CASE ApiNext
    <2>1. \/ UNCHANGED row
          \/ \E k \in Jobs : \E n : row' = [row EXCEPT ![k] = n] /\ n.status # "error"
          \/ \E k, wf : \E s \in {"queued", "canceled"} : Modify(k, s, wf)
      <3>1. \A n : NoRow = n => n.status # "error"
        BY DEF NoRow
      <3>2. ASSUME NEW c \in Clients, DeleteRow(c)
            PROVE  \E k \in Jobs : \E n : row' = [row EXCEPT ![k] = n] /\ n.status # "error"
        <4>1. req[c].job \in Jobs
          BY <3>2 DEF DeleteRow, IInv, TypeOK, RequestsInv, RequestStates, JobIds
        <4> QED
          BY <3>1, <3>2, <4>1 DEF DeleteRow
      <3>3. ASSUME NEW k \in Jobs, CreateJob(k) \/ \E c \in Clients : SyncCreate(c, k)
            PROVE  \E i \in Jobs : \E n : row' = [row EXCEPT ![i] = n] /\ n.status # "error"
        <4>1. PICK s \in {"created", "queued"} : row' = [row EXCEPT ![k] = [status |-> s, wf |-> None]]
          BY <3>3 DEF CreateJob, SyncCreate
        <4>2. [status |-> s, wf |-> None].status # "error"
          OBVIOUS
        <4> QED
          BY <4>1, <4>2
      <3> QED
        BY <1>2, <3>2, <3>3 DEF ApiNext, Jobs, StartRead, CancelRead, DeleteRead, RequestStep,
           RequestLost, StartExists, StartMakedirs, StartModify, StartSubmit, CancelStop, CancelWrite,
           DeleteStop, DeleteRmtree, SyncEnqueue, SyncReturn
    <2> QED
      BY <1>0, <1>1, <2>1
  <1>3. CASE WorkerNext
    <2>1. \/ UNCHANGED row
          \/ \E x \in Workers : SubmitFailed(x) \/ SubmitRunning(x) \/ PollWrite(x)
      BY <1>3 DEF WorkerNext, WorkerStep, TaskLost, SchedulerTick, Take, SubmitCreate,
         SubmitRaises, EnqueuePoll, PollGet, PollQuery, Requeue
    <2> QED
      BY <1>1, <2>1 DEF SubmitFailed, SubmitRunning, PollWrite, At
  <1>4. CASE RecNext
    BY <1>1, <1>4 DEF RecNext, RecStep, RecBegin, RecQuery, RecWrite, RecLost
  <1>5. CASE ArgoNext \/ UNCHANGED vars
    BY <1>5 DEF ArgoNext, ArgoRun, ExecutorStarts, ArgoSucceed, ArgoFail, ArgoExpire
  <1> QED
    BY <1>2, <1>3, <1>4, <1>5 DEF Next

\* reconcile decides on an error after it has seen the end of the job's workflow.
LEMMA RecErrors ==
  ASSUME IInv, RightsInv, ErrorInv, "argo" \notin Faults, [Next]_vars,
         NEW j \in BatchJobs, j \notin unguarded, rec'.verdict = "error", rec'.job = j
  PROVE  Spent(j)
  <1> USE DEF vars, dbVars, redisVars, argoVars
  <1>1. CASE UNCHANGED rec
    BY <1>1 DEF ErrorInv
  <1>2. CASE RecQuery
    <2>1. PICK s \in rec.todo : \E answer \in GetWorkflow(s.wf) :
            rec' = IF RecVerdict(answer) = "skip"
                   THEN [rec EXCEPT !.todo = @ \ {s}]
                   ELSE [todo |-> rec.todo \ {s}, job |-> s.job, wf |-> s.wf,
                         verdict |-> RecVerdict(answer)]
      BY <1>2 DEF RecQuery
    <2>2. PICK answer \in GetWorkflow(s.wf) :
            rec' = IF RecVerdict(answer) = "skip"
                   THEN [rec EXCEPT !.todo = @ \ {s}]
                   ELSE [todo |-> rec.todo \ {s}, job |-> s.job, wf |-> s.wf,
                         verdict |-> RecVerdict(answer)]
      BY <2>1
    <2>3. rec \in RecStates /\ rec.verdict = None
      BY <1>2 DEF IInv, TypeOK, RecQuery, AtLoopHead
    <2>4. RecVerdict(answer) # "skip"
      <3>1. RecVerdict(answer) = "skip" => rec'.verdict = None
        BY <2>2, <2>3 DEF RecStates
      <3> QED
        BY <3>1, JobsAssumption DEF Verdicts
    <2>5. s.job = j /\ RecVerdict(answer) = "error"
      BY <2>2, <2>4
    <2>6. answer \in {"exception", "Failed"}
      BY <2>5 DEF RecVerdict
    <2>7. s.wf \in Workflows /\ s.wf # None /\ owner[s.wf] = j
      BY <2>3, <2>5 DEF RecStates, Snapshots, IInv, RecInv, Names, ErrorInv
    <2>8. Ended(s.wf)
      BY <2>6, <2>7, BadAnswer DEF IInv, ErrorInv
    <2> QED
      BY <2>7, <2>8, EndSeen
  <1>3. CASE RecBegin \/ RecWrite \/ RecLost
    <2>1. rec \in RecStates /\ (RecBegin => rec.verdict = None)
      BY DEF RecBegin, IdleRec, IInv, TypeOK
    <2>2. rec'.verdict = None
      BY <1>3, <2>1 DEF RecBegin, RecWrite, RecLost, IdleRec, RecStates
    <2> QED
      BY <2>2, JobsAssumption DEF Verdicts
  <1>4. CASE ApiNext
    BY <1>1, <1>4 DEF ApiNext, CreateJob, StartRead, CancelRead, DeleteRead, SyncCreate,
         RequestStep, RequestLost, StartExists, StartMakedirs, StartModify, StartSubmit, CancelStop, CancelWrite,
         DeleteStop, DeleteRmtree, DeleteRow, SyncEnqueue, SyncReturn
  <1>5. CASE WorkerNext
    BY <1>1, <1>5 DEF WorkerNext, WorkerStep, TaskLost, SchedulerTick, Take, SubmitCreate,
         SubmitRaises, SubmitFailed, SubmitRunning, EnqueuePoll, PollGet, PollQuery, PollWrite,
         Requeue
  <1>6. CASE ArgoNext \/ UNCHANGED vars
    BY <1>1, <1>6 DEF ArgoNext, ArgoRun, ExecutorStarts, ArgoSucceed, ArgoFail, ArgoExpire
  <1> QED
    BY <1>2, <1>3, <1>4, <1>5, <1>6 DEF Next, RecNext, RecStep

\* A worker is about to write an error after it has seen the end of the job's workflow,
\* or because its own submission, the only one there is, raised.
LEMMA WorkErrors ==
  ASSUME IInv, SyncInv, RightsInv, ErrorInv, "argo" \notin Faults, [Next]_vars,
         NEW j \in BatchJobs, j \notin unguarded', NEW x \in Workers, work'[x].job = j,
         work'[x].verdict = "error" \/ work'[x].pc = "failed"
  PROVE  Spent(j) \/ Spent(j)'
  <1> USE DEF vars, dbVars, redisVars, argoVars
  <1>0. /\ work \in [Workers -> WorkStates] /\ work[x] \in WorkStates
        /\ j \notin unguarded /\ j # None
    BY UnguardedGrows, JobsAssumption DEF IInv, TypeOK, Jobs
  <1>1. ASSUME work'[x].job = work[x].job, work'[x].verdict = work[x].verdict,
               work'[x].pc = "failed" => work[x].pc = "failed"
        PROVE  Spent(j)
    BY <1>0, <1>1 DEF ErrorInv
  <1>2. ASSUME NEW y \in Workers, Done(y) PROVE Spent(j)
    <2>1. y # x
      BY <1>0, <1>2 DEF Done, IdleWork
    <2> QED
      BY <1>0, <1>1, <1>2, <2>1 DEF Done
  <1>3. ASSUME NEW y \in Workers, Take(y) PROVE Spent(j)
    <2>1. PICK r : /\ r = [IdleWork EXCEPT !.pc = Head(queue).kind, !.job = Head(queue).job,
                                           !.wf = Head(queue).wf]
                   /\ work' = [work EXCEPT ![y] = r]
      BY <1>3 DEF Take
    <2>2. Head(queue) \in Tasks
      BY <1>3 DEF Take, IInv, TypeOK
    <2>3. r.pc # "failed" /\ r.verdict # "error"
      BY <2>1, <2>2, JobsAssumption DEF IdleWork, Tasks, Verdicts
    <2>4. y # x
      BY <1>0, <2>1, <2>3
    <2> QED
      BY <1>0, <1>1, <2>1, <2>4
  <1>4. ASSUME NEW y \in Workers, NEW r, work' = [work EXCEPT ![y] = r],
               r.job = work[y].job, r.verdict = work[y].verdict, r.pc # "failed"
        PROVE  Spent(j) \/ Spent(j)'
    BY <1>0, <1>1, <1>4
  <1>5. ASSUME NEW y \in Workers, SubmitCreate(y) PROVE Spent(j) \/ Spent(j)'
    <2>1. PICK w \in Workflows :
            work' = [work EXCEPT ![y] = [@ EXCEPT !.pc = "created", !.wf = w]]
      BY <1>5 DEF SubmitCreate
    <2>2. PICK r : r = [work[y] EXCEPT !.pc = "created", !.wf = w]
      OBVIOUS
    <2>3. work[y] \in WorkStates /\ work' = [work EXCEPT ![y] = r]
      BY <1>0, <2>1, <2>2
    <2>4. r.job = work[y].job /\ r.verdict = work[y].verdict /\ r.pc # "failed"
      BY <2>2, <2>3 DEF WorkStates
    <2> QED
      BY <1>4, <2>3, <2>4
  <1>6. ASSUME NEW y \in Workers, SubmitRunning(y) PROVE Spent(j) \/ Spent(j)'
    <2>1. PICK r : r = [work[y] EXCEPT !.pc = "announce"]
      OBVIOUS
    <2>2. work' = [work EXCEPT ![y] = r] \/ Done(y)
      BY <1>6, <2>1 DEF SubmitRunning
    <2>3. work[y] \in WorkStates
      BY <1>0
    <2>4. r.job = work[y].job /\ r.verdict = work[y].verdict /\ r.pc # "failed"
      BY <2>1, <2>3 DEF WorkStates
    <2> QED
      BY <1>2, <1>4, <2>2, <2>4
  <1>7. ASSUME NEW y \in Workers, PollGet(y) PROVE Spent(j) \/ Spent(j)'
    <2>1. PICK n : n = row[work[y].job].wf
      OBVIOUS
    <2>2. PICK r : r = [work[y] EXCEPT !.pc = "query", !.read = n]
      OBVIOUS
    <2>3. work' = [work EXCEPT ![y] = r] \/ Done(y)
      BY <1>7, <2>1, <2>2 DEF PollGet
    <2>4. work[y] \in WorkStates
      BY <1>0
    <2>5. r.job = work[y].job /\ r.verdict = work[y].verdict /\ r.pc # "failed"
      BY <2>2, <2>4 DEF WorkStates
    <2> QED
      BY <1>2, <1>4, <2>3, <2>5
  <1>8. ASSUME NEW y \in Workers, PollQuery(y) PROVE Spent(j)
    <2>1. PICK answer \in GetWorkflow(work[y].wf) :
            IF PollVerdict(answer) = "again"
            THEN Done(y)
            ELSE work' = [work EXCEPT ![y] = [@ EXCEPT !.pc = "write",
                                                  !.verdict = PollVerdict(answer)]]
      BY <1>8 DEF PollQuery
    <2>2. CASE PollVerdict(answer) = "again"
      BY <1>2, <2>1, <2>2
    <2>3. CASE PollVerdict(answer) # "again"
      <3>1. PICK v : v = PollVerdict(answer)
        OBVIOUS
      <3>2. PICK r : r = [work[y] EXCEPT !.pc = "write", !.verdict = v]
        OBVIOUS
      <3>3. work' = [work EXCEPT ![y] = r]
        BY <2>1, <2>3, <3>1, <3>2
      <3>4. work[y] \in WorkStates
        BY <1>0
      <3>5. r.pc = "write" /\ r.job = work[y].job /\ r.verdict = v
        BY <3>2, <3>4 DEF WorkStates
      <3>6. CASE y # x
        BY <1>0, <1>1, <3>3, <3>6
      <3>7. CASE y = x
        <4>1. work[x].job = j /\ v = "error"
          BY <1>0, <3>3, <3>5, <3>7
        <4>2. answer \in {"exception", "Failed"}
          BY <3>1, <4>1 DEF PollVerdict
        <4>3. work[x].pc = "query"
          BY <1>8, <3>7 DEF PollQuery, At
        <4>4. work[x].wf \in Workflows /\ work[x].wf # None /\ owner[work[x].wf] = j
          BY <1>0, <4>1, <4>3 DEF IInv, WorkInv, Names, WorkStates
        <4>5. Ended(work[x].wf)
          BY <2>1, <3>7, <4>2, <4>4, BadAnswer DEF IInv, ErrorInv
        <4> QED
          BY <1>0, <4>4, <4>5, EndSeen
      <3> QED
        BY <3>6, <3>7
    <2> QED
      BY <2>2, <2>3
  <1>9. ASSUME NEW y \in Workers, SubmitRaises(y) PROVE Spent(j) \/ Spent(j)'
    <2>1. PICK r : r = [work[y] EXCEPT !.pc = "failed"]
      OBVIOUS
    <2>2. work' = [work EXCEPT ![y] = r] /\ UNCHANGED <<row, workspace, queue, delayed, owner, req>>
      BY <1>9, <2>1 DEF SubmitRaises
    <2>3. work[y] \in WorkStates
      BY <1>0
    <2>4. r.pc = "failed" /\ r.job = work[y].job /\ r.verdict = work[y].verdict
      BY <2>1, <2>3 DEF WorkStates
    <2>5. CASE y # x
      BY <1>0, <1>1, <2>2, <2>5
    <2>6. CASE y = x
      <3>1. work[x].job = j /\ work[x].pc = "submit"
        BY <1>0, <1>9, <2>2, <2>4, <2>6 DEF SubmitRaises, At
      <3>2. <<"work", x>> \in Holders(j)
        BY <3>1, HolderIs DEF WorkRights
      <3>3. j \in workspace'
        BY <1>0, <2>2, <3>2 DEF RightsInv, HoldersInv
      <3>4. WorkRights(j)' = WorkRights(j) \ {x}
        BY <1>0, <2>2, <2>4, <2>6, WorkMoved
      <3>5. /\ RightsIn(queue, j)' = RightsIn(queue, j)
            /\ RightsIn(delayed, j)' = RightsIn(delayed, j)
            /\ RequestRights(j)' = RequestRights(j)
            /\ RunsOf(j)' = RunsOf(j)
        BY <2>2 DEF RightsIn, RequestRights, RunsOf
      <3>6. Holders(j)' \subseteq Holders(j)
        BY <3>4, <3>5, NoneGained
      <3>7. <<"work", x>> \notin Holders(j)'
        BY <3>4, HolderIsNext
      <3>8. Holders(j)' = {}
        BY <1>0, <3>2, <3>6, <3>7 DEF RightsInv, HoldersInv, AtMostOne
      <3> QED
        BY <3>3, <3>8 DEF Spent
    <2> QED
      BY <2>5, <2>6
  <1>10. CASE WorkerNext
    <2>1. UNCHANGED work \/ \E y \in Workers :
            \/ Done(y) \/ Take(y) \/ SubmitCreate(y) \/ SubmitRunning(y) \/ PollGet(y)
            \/ PollQuery(y) \/ SubmitRaises(y)
      BY <1>10 DEF WorkerNext, WorkerStep, TaskLost, SchedulerTick, SubmitFailed, EnqueuePoll,
         PollWrite, Requeue
    <2> QED
      BY <1>1, <1>2, <1>3, <1>5, <1>6, <1>7, <1>8, <1>9, <2>1
  <1>11. CASE ApiNext
    <2>1. UNCHANGED work
      BY <1>11 DEF ApiNext, CreateJob, StartRead, CancelRead, DeleteRead, SyncCreate,
         RequestStep, RequestLost, StartExists, StartMakedirs, StartModify, StartSubmit, CancelStop, CancelWrite,
         DeleteStop, DeleteRmtree, DeleteRow, SyncEnqueue, SyncReturn
    <2> QED
      BY <1>1, <2>1
  <1>12. CASE RecNext \/ ArgoNext \/ UNCHANGED vars
    BY <1>1, <1>12 DEF RecNext, RecStep, RecBegin, RecQuery, RecWrite, RecLost, ArgoNext, ArgoRun,
           ExecutorStarts, ArgoSucceed, ArgoFail, ArgoExpire
  <1> QED
    BY <1>10, <1>11, <1>12 DEF Next

\* Without failing calls to Argo, ErrorInv is kept by every step.
LEMMA ErrorKept ==
  ASSUME "argo" \notin Faults, IInv, SyncInv, RightsInv, ErrorInv, [Next]_vars
  PROVE  ErrorInv'
  <1>1. \A w \in gone' : Ended(w)'
    BY EndedStays DEF IInv, ErrorInv
  <1>2. \A s \in rec'.todo : s.wf # None
    <2> USE DEF vars, dbVars, redisVars, argoVars
    <2>1. CASE UNCHANGED rec
      BY <2>1 DEF ErrorInv
    <2>2. CASE RecBegin
      <3>1. \A s \in rec'.todo : \E k \in Jobs : row[k].status = "running" /\ s.wf = row[k].wf
        BY <2>2 DEF RecBegin, IdleRec
      <3> QED
        BY <3>1 DEF IInv, RowsInv
    <2>3. CASE RecQuery
      <3>1. rec'.todo \subseteq rec.todo
        BY <2>3 DEF RecQuery, IInv, TypeOK, RecStates
      <3> QED
        BY <3>1 DEF ErrorInv
    <2>4. CASE RecWrite \/ RecLost
      BY <2>4 DEF RecWrite, RecLost, IdleRec, ErrorInv
    <2>5. CASE ApiNext
      BY <2>1, <2>5 DEF ApiNext, CreateJob, StartRead, CancelRead, DeleteRead, SyncCreate,
         RequestStep, RequestLost, StartExists, StartMakedirs, StartModify, StartSubmit, CancelStop, CancelWrite,
         DeleteStop, DeleteRmtree, DeleteRow, SyncEnqueue, SyncReturn
    <2>6. CASE WorkerNext
      BY <2>1, <2>6 DEF WorkerNext, WorkerStep, TaskLost, SchedulerTick, Take, SubmitCreate,
         SubmitRaises, SubmitFailed, SubmitRunning, EnqueuePoll, PollGet, PollQuery, PollWrite,
         Requeue
    <2>7. CASE ArgoNext \/ UNCHANGED vars
      BY <2>1, <2>7 DEF ArgoNext, ArgoRun, ExecutorStarts, ArgoSucceed, ArgoFail, ArgoExpire
    <2> QED
      BY <2>2, <2>3, <2>4, <2>5, <2>6, <2>7 DEF Next, RecNext, RecStep
  <1>3. ASSUME NEW j \in BatchJobs, j \notin unguarded'
        PROVE  /\ row'[j].status = "error" => Spent(j)'
               /\ rec'.verdict = "error" /\ rec'.job = j => Spent(j)'
               /\ \A x \in Workers :
                    work'[x].job = j /\ (work'[x].verdict = "error" \/ work'[x].pc = "failed")
                      => Spent(j)'
    <2>1. Spent(j) => Spent(j)'
      BY <1>3, SpentStays DEF ErrorInv
    <2>2. j \notin unguarded /\ j \in Jobs
      BY <1>3, UnguardedGrows DEF Jobs
    <2>3. row'[j].status = "error" => Spent(j)
      BY <2>2, ErrorWritten DEF ErrorInv
    <2>4. rec'.verdict = "error" /\ rec'.job = j => Spent(j)
      BY <1>3, <2>2, RecErrors
    <2>5. \A x \in Workers :
            work'[x].job = j /\ (work'[x].verdict = "error" \/ work'[x].pc = "failed")
              => Spent(j) \/ Spent(j)'
      BY <1>3, WorkErrors
    <2> QED
      BY <2>1, <2>3, <2>4, <2>5
  <1> QED
    BY <1>1, <1>2, <1>3 DEF ErrorInv

\* At the start nothing has failed.
LEMMA NoErrorsAtFirst == Init => ErrorInv
  BY JobsAssumption DEF Init, ErrorInv, NoRow, IdleRec, IdleWork, Verdicts, Jobs

-----------------------------------------------------------------------------
(* Queued jobs *)

\* The tasks that wait stay when one is appended, which waits then as well.
LEMMA AppendedWaits ==
  ASSUME NEW j, NEW q \in Seq(Tasks), NEW t \in Tasks
  PROVE  /\ RightsIn(q, j) \subseteq RightsIn(Append(q, t), j)
         /\ IsRight(t, j) => RightsIn(Append(q, t), j) # {}
  <1>1. \A i \in RightsIn(q, j) : i \in RightsIn(Append(q, t), j)
    BY DEF RightsIn
  <1>2. IsRight(t, j) => Len(q) + 1 \in RightsIn(Append(q, t), j)
    BY DEF RightsIn
  <1> QED
    BY <1>1, <1>2

\* A task that waits is the one that is taken, or waits on.
LEMMA TakenOrWaits ==
  ASSUME NEW j, NEW q \in Seq(Tasks), q # <<>>, RightsIn(q, j) # {}
  PROVE  IsRight(Head(q), j) \/ RightsIn(Tail(q), j) # {}
  <1>1. PICK i \in RightsIn(q, j) : i \in 1..Len(q)
    BY DEF RightsIn
  <1>2. CASE i = 1
    BY <1>1, <1>2 DEF RightsIn
  <1>3. CASE i > 1
    <2>1. i - 1 \in RightsIn(Tail(q), j)
      BY <1>1, <1>3 DEF RightsIn
    <2> QED
      BY <2>1
  <1> QED
    BY <1>1, <1>2, <1>3

\* A queued job waits in Redis, at a worker or in a request.
LEMMA PendingPlaces ==
  ASSUME NEW j, DelayedInv
  PROVE  Pending(j) <=> \/ RightsIn(queue, j) # {} \/ RightsIn(delayed, j) # {}
                        \/ PendingWork(j) # {} \/ PendingRequests(j) # {}
  BY DEF Pending, DelayedInv, RightsIn, IsRight, PendingWork, PendingRequests

\* The same after a step.
LEMMA PendingPlacesNext ==
  ASSUME NEW j, DelayedInv'
  PROVE  Pending(j)' <=> \/ RightsIn(queue, j)' # {} \/ RightsIn(delayed, j)' # {}
                         \/ PendingWork(j)' # {} \/ PendingRequests(j)' # {}
  BY DEF Pending, DelayedInv, RightsIn, IsRight, PendingWork, PendingRequests

\* queue_to_submit leaves what waits in Redis there, and adds its job.
LEMMA SubmitWaits ==
  ASSUME TypeOK, NEW j, NEW k \in Jobs, NEW wf \in WfNames, QueueToSubmit(k, wf)
  PROVE  /\ RightsIn(queue, j) # {} \/ RightsIn(delayed, j) # {} \/ k = j
              => RightsIn(queue, j)' # {} \/ RightsIn(delayed, j)' # {}
         /\ DelayedInv => DelayedInv'
  <1>0. queue \in Seq(Tasks) /\ delayed \in Seq(Tasks)
    BY DEF TypeOK
  <1>1. PICK t \in Tasks : t.job = k /\ t.kind # "poll" /\
          \/ delayed' = Append(delayed, t) /\ queue' = queue
          \/ queue' = Append(queue, t) /\ delayed' = delayed
    BY DEF QueueToSubmit, Task, Tasks
  <1>2. RightsIn(queue, j) \subseteq RightsIn(queue, j)'
        /\ RightsIn(delayed, j) \subseteq RightsIn(delayed, j)'
    BY <1>0, <1>1, AppendedWaits DEF RightsIn
  <1>3. k = j => RightsIn(queue, j)' # {} \/ RightsIn(delayed, j)' # {}
    <2>1. RightsIn(queue, j)' = RightsIn(queue', j) /\ RightsIn(delayed, j)' = RightsIn(delayed', j)
      BY DEF RightsIn
    <2>2. k = j => IsRight(t, j)
      BY <1>1 DEF IsRight
    <2> QED
      BY <1>0, <1>1, <2>1, <2>2, AppendedWaits
  <1>4. DelayedInv => DelayedInv'
    <2>1. CASE delayed' = delayed
      BY <2>1 DEF DelayedInv
    <2>2. CASE delayed' = Append(delayed, t)
      BY <1>0, <1>1, <2>2 DEF DelayedInv
    <2> QED
      BY <1>1, <2>1, <2>2
  <1> QED
    BY <1>2, <1>3, <1>4

\* Only requeue tasks are ever scheduled.
LEMMA DelayedKept == IInv /\ DelayedInv /\ [Next]_vars => DelayedInv'
  <1> SUFFICES ASSUME IInv, DelayedInv, [Next]_vars PROVE DelayedInv'
    OBVIOUS
  <1> USE DEF vars, dbVars, redisVars, argoVars
  <1>0. TypeOK /\ delayed \in Seq(Tasks) /\ RequestsInv /\ WorkInv
    BY DEF IInv, TypeOK
  <1>1. CASE UNCHANGED delayed
    BY <1>1 DEF DelayedInv
  <1>2. ASSUME NEW c \in Clients, StartSubmit(c) PROVE DelayedInv'
    <2>1. req[c].job \in Jobs /\ req[c].wf \in WfNames
      BY <1>0, <1>2 DEF StartSubmit, RequestsInv, TypeOK, RequestStates
    <2> QED
      BY <1>0, <1>1, <1>2, <2>1, SubmitWaits DEF StartSubmit
  <1>3. ASSUME NEW x \in Workers, Requeue(x) PROVE DelayedInv'
    <2>1. work[x].job \in Jobs /\ work[x].wf \in WfNames
      BY <1>0, <1>3 DEF Requeue, At, WorkInv, TypeOK, WorkStates
    <2> QED
      BY <1>0, <1>1, <1>3, <2>1, SubmitWaits DEF Requeue
  <1>4. CASE SchedulerTick
    BY <1>0, <1>4 DEF SchedulerTick, DelayedInv
  <1>5. CASE ApiNext
    BY <1>1, <1>2, <1>5 DEF ApiNext, CreateJob, StartRead, CancelRead, DeleteRead, SyncCreate,
       RequestStep, RequestLost, StartExists, StartMakedirs, StartModify, CancelStop, CancelWrite,
       DeleteStop, DeleteRmtree, DeleteRow, SyncEnqueue, SyncReturn
  <1>6. CASE WorkerNext
    BY <1>1, <1>3, <1>4, <1>6 DEF WorkerNext, WorkerStep, TaskLost, Take, SubmitCreate,
         SubmitRaises, SubmitFailed, SubmitRunning, EnqueuePoll, PollGet, PollQuery, PollWrite
  <1>7. CASE RecNext \/ ArgoNext \/ UNCHANGED vars
    BY <1>1, <1>7 DEF RecNext, RecStep, RecBegin, RecQuery, RecWrite, RecLost, ArgoNext, ArgoRun,
           ExecutorStarts, ArgoSucceed, ArgoFail, ArgoExpire
  <1> QED
    BY <1>5, <1>6, <1>7 DEF Next

\* A row becomes queued only with its submission on the way.
LEMMA QueuedWritten ==
  ASSUME IInv, [Next]_vars, NEW j \in Jobs, row'[j].status = "queued"
  PROVE  row[j].status = "queued" \/ PendingRequests(j)' # {}
  <1> USE DEF vars, dbVars, redisVars, argoVars
  <1>0. row \in [Jobs -> Rows] /\ req \in [Clients -> RequestStates]
    BY DEF IInv, TypeOK
  <1>1. ASSUME NEW k, NEW s, NEW wf, Modify(k, s, wf), s # "queued"
        PROVE  row[j].status = "queued"
    BY <1>0, <1>1 DEF Modify
  <1>2. ASSUME NEW c \in Clients, StartModify(c)
        PROVE  row[j].status = "queued" \/ PendingRequests(j)' # {}
    <2>1. CASE ModifyRaises(req[c].job)
      BY <1>0, <1>2, <2>1 DEF StartModify, Modify, ModifyRaises, Exists
    <2>2. CASE ~ModifyRaises(req[c].job)
      <3>1. PICK r \in RequestStates : r = [req[c] EXCEPT !.pc = "start_submit"]
        BY <1>0 DEF RequestStates, RequestSteps
      <3>2. req[c] \in RequestStates
        BY <1>0
      <3>3. r.pc = "start_submit" /\ r.job = req[c].job
        BY <3>1, <3>2 DEF RequestStates
      <3>4. req' = [req EXCEPT ![c] = r]
        BY <1>2, <2>2, <3>1 DEF StartModify, Goto
      <3>5. req'[c].pc = "start_submit" /\ req'[c].job = req[c].job
        BY <1>0, <3>3, <3>4
      <3>6. req[c].job = j => c \in PendingRequests(j)'
        BY <3>5 DEF PendingRequests
      <3>7. req[c].job # j => row'[j] = row[j]
        BY <1>0, <1>2 DEF StartModify, Modify
      <3> QED
        BY <3>6, <3>7
    <2> QED
      BY <2>1, <2>2
  <1>3. ASSUME NEW c \in Clients, NEW k \in SyncJobs, SyncCreate(c, k)
        PROVE  row[j].status = "queued" \/ PendingRequests(j)' # {}
    <2>1. k = j => c \in PendingRequests(j)'
      BY <1>0, <1>3 DEF SyncCreate, PendingRequests
    <2>2. k # j => row'[j] = row[j]
      BY <1>0, <1>3 DEF SyncCreate
    <2> QED
      BY <2>1, <2>2
  <1>4. ASSUME NEW k \in BatchJobs, CreateJob(k) PROVE row[j].status = "queued"
    BY <1>0, <1>4 DEF CreateJob
  <1>5. ASSUME NEW c \in Clients, DeleteRow(c) PROVE row[j].status = "queued"
    BY <1>0, <1>5 DEF DeleteRow, NoRow
  <1>6. ASSUME NEW c \in Clients, CancelWrite(c) PROVE row[j].status = "queued"
    BY <1>1, <1>6 DEF CancelWrite
  <1>7. CASE ApiNext
    BY <1>2, <1>3, <1>4, <1>5, <1>6, <1>7 DEF ApiNext, StartRead, CancelRead, DeleteRead,
       RequestStep, RequestLost, StartExists, StartMakedirs, StartSubmit, CancelStop, DeleteStop, DeleteRmtree,
       SyncEnqueue, SyncReturn
  <1>8. CASE WorkerNext
    <2>1. \/ UNCHANGED row
          \/ \E x \in Workers : SubmitFailed(x) \/ SubmitRunning(x) \/ PollWrite(x)
      BY <1>8 DEF WorkerNext, WorkerStep, TaskLost, SchedulerTick, Take, SubmitCreate,
         SubmitRaises, EnqueuePoll, PollGet, PollQuery, Requeue
    <2>2. \A x \in Workers : PollWrite(x) => work[x].verdict # "queued"
      BY JobsAssumption DEF PollWrite, At, IInv, TypeOK, WorkInv, WorkStates, Verdicts
    <2> QED
      BY <1>1, <2>1, <2>2 DEF SubmitFailed, SubmitRunning, PollWrite
  <1>9. CASE RecNext
    <2>1. RecWrite => rec.verdict # "queued"
      BY JobsAssumption DEF RecWrite, AtLoopHead, IInv, TypeOK, RecStates, Verdicts
    <2> QED
      BY <1>1, <1>9, <2>1 DEF RecNext, RecStep, RecBegin, RecQuery, RecWrite, RecLost
  <1>10. CASE ArgoNext \/ UNCHANGED vars
    BY <1>10 DEF ArgoNext, ArgoRun, ExecutorStarts, ArgoSucceed, ArgoFail, ArgoExpire
  <1> QED
    BY <1>7, <1>8, <1>9, <1>10 DEF Next

\* A request that is about to submit does so, if it is not lost.
LEMMA RequestSubmits ==
  ASSUME "argo" \notin Faults, "request" \notin Faults, IInv, DelayedInv, ApiNext, NEW j \in Jobs,
         Pending(j)
  PROVE  Pending(j)'
  <1> USE DEF vars, dbVars, redisVars, argoVars
  <1>0. /\ queue \in Seq(Tasks) /\ delayed \in Seq(Tasks) /\ req \in [Clients -> RequestStates]
        /\ RequestsInv /\ TypeOK /\ DelayedInv'
    BY DelayedKept DEF IInv, TypeOK, Next
  <1>1. PendingWork(j)' = PendingWork(j)
    <2>1. UNCHANGED work
      BY DEF ApiNext, CreateJob, StartRead, CancelRead, DeleteRead, SyncCreate, RequestStep,
             RequestLost, StartExists, StartMakedirs, StartModify, StartSubmit, CancelStop, CancelWrite,
             DeleteStop, DeleteRmtree, DeleteRow, SyncEnqueue, SyncReturn
    <2> QED
      BY <2>1 DEF PendingWork
  <1>2. ASSUME UNCHANGED <<queue, delayed>>, PendingRequests(j) \subseteq PendingRequests(j)'
        PROVE  Pending(j)'
    <2>1. RightsIn(queue, j)' = RightsIn(queue, j) /\ RightsIn(delayed, j)' = RightsIn(delayed, j)
      BY <1>2 DEF RightsIn
    <2> QED
      BY <1>0, <1>1, <1>2, <2>1, PendingPlaces, PendingPlacesNext
  <1>3. ASSUME NEW c \in Clients, req[c].pc \notin {"start_submit", "sync_enqueue"},
               \A d \in Clients : d # c => req'[d] = req[d]
        PROVE  PendingRequests(j) \subseteq PendingRequests(j)'
    BY <1>3 DEF PendingRequests
  <1>4. ASSUME NEW c \in Clients, StartSubmit(c) PROVE Pending(j)'
    <2>1. QueueToSubmit(req[c].job, req[c].wf)
      BY <1>4 DEF StartSubmit
    <2>2. req[c].job \in Jobs /\ req[c].wf \in WfNames
      BY <1>0, <1>4 DEF StartSubmit, RequestsInv, RequestStates
    <2>3. PendingRequests(j) \subseteq PendingRequests(j)' \/ req[c].job = j
      BY <1>0, <1>4 DEF StartSubmit, Respond, PendingRequests
    <2> QED
      BY <1>0, <1>1, <2>1, <2>2, <2>3, SubmitWaits, PendingPlaces, PendingPlacesNext
  <1>5. ASSUME NEW c \in Clients, SyncEnqueue(c) PROVE Pending(j)'
    <2>1. req[c].job \in Jobs
      BY <1>0, <1>5 DEF SyncEnqueue, RequestsInv, RequestStates
    <2>2. Task("submit", req[c].job, None) \in Tasks /\ Task("submit", req[c].job, None).kind # "poll"
          /\ Task("submit", req[c].job, None).job = req[c].job
      BY <2>1 DEF Task, Tasks
    <2>3. PICK t \in Tasks : t = Task("submit", req[c].job, None)
      BY <2>2
    <2>4. queue' = Append(queue, t) /\ delayed' = delayed
      BY <1>5, <2>3 DEF SyncEnqueue
    <2>5. RightsIn(queue, j)' = RightsIn(queue', j) /\ RightsIn(delayed, j)' = RightsIn(delayed, j)
      BY <2>4 DEF RightsIn
    <2>6. req[c].job = j => IsRight(t, j)
      BY <2>2, <2>3 DEF IsRight
    <2>7. PendingRequests(j) \subseteq PendingRequests(j)' \/ req[c].job = j
      BY <1>0, <1>5 DEF SyncEnqueue, Goto, PendingRequests
    <2> QED
      BY <1>0, <1>1, <2>4, <2>5, <2>6, <2>7, AppendedWaits, PendingPlaces, PendingPlacesNext
  <1>6. ASSUME NEW k \in BatchJobs, CreateJob(k) PROVE Pending(j)'
    BY <1>2, <1>6 DEF CreateJob, PendingRequests
  <1>7. ASSUME NEW c \in Clients, NEW k \in Jobs,
               StartRead(c, k) \/ CancelRead(c, k) \/ DeleteRead(c, k) \/ SyncCreate(c, k)
        PROVE  Pending(j)'
    <2>1. UNCHANGED <<queue, delayed>> /\ req[c].pc = "idle"
      BY <1>7 DEF StartRead, CancelRead, DeleteRead, SyncCreate
    <2>2. \A d \in Clients : d # c => req'[d] = req[d]
      BY <1>0, <1>7 DEF StartRead, CancelRead, DeleteRead, SyncCreate, Accept
    <2> QED
      BY <1>2, <1>3, <2>1, <2>2
  <1>8. ASSUME NEW c \in Clients,
               \/ StartExists(c) \/ StartMakedirs(c) \/ StartModify(c) \/ CancelStop(c) \/ CancelWrite(c)
               \/ DeleteStop(c) \/ DeleteRmtree(c) \/ DeleteRow(c) \/ SyncReturn(c)
        PROVE  Pending(j)'
    <2>1. UNCHANGED <<queue, delayed>> /\ req[c].pc \notin {"start_submit", "sync_enqueue"}
      BY <1>8 DEF StartExists, StartMakedirs, StartModify, CancelStop, CancelWrite, DeleteStop, DeleteRmtree,
                  DeleteRow, SyncReturn
    <2>2. \A d \in Clients : d # c => req'[d] = req[d]
      BY <1>0, <1>8 DEF StartExists, StartMakedirs, StartModify, CancelStop, CancelWrite, DeleteStop, DeleteRmtree,
                  DeleteRow, SyncReturn, Goto, Respond
    <2> QED
      BY <1>2, <1>3, <2>1, <2>2
  <1> QED
    BY <1>4, <1>5, <1>6, <1>7, <1>8 DEF ApiNext, RequestStep, RequestLost, Jobs

\* A task that is about to submit does so or marks its job as errored, if it is not lost.
LEMMA TaskSubmits ==
  ASSUME "argo" \notin Faults, "task" \notin Faults, IInv, DelayedInv, WorkerNext, NEW j \in Jobs,
         Pending(j)
  PROVE  Pending(j)' \/ row'[j].status # "queued"
  <1> USE DEF vars, dbVars, redisVars, argoVars
  <1>0. /\ queue \in Seq(Tasks) /\ delayed \in Seq(Tasks) /\ work \in [Workers -> WorkStates]
        /\ row \in [Jobs -> Rows] /\ WorkInv /\ TypeOK /\ DelayedInv'
    BY DelayedKept DEF IInv, TypeOK, Next
  <1>1. PendingRequests(j)' = PendingRequests(j)
    <2>1. UNCHANGED req
      BY DEF WorkerNext, WorkerStep, TaskLost, SchedulerTick, Take, SubmitCreate, SubmitRaises,
             SubmitFailed, SubmitRunning, EnqueuePoll, PollGet, PollQuery, PollWrite, Requeue
    <2> QED
      BY <2>1 DEF PendingRequests
  <1>2. ASSUME NEW x \in Workers, \A y \in Workers : y # x => work'[y] = work[y],
               \/ work[x].pc \notin {"requeue", "submit", "failed", "created"}
               \/ work[x].job # j
               \/ work'[x].job = work[x].job /\ work'[x].pc \in {"failed", "created"}
        PROVE  PendingWork(j) \subseteq PendingWork(j)'
    BY <1>2 DEF PendingWork
  <1>3. ASSUME RightsIn(queue, j) \subseteq RightsIn(queue, j)', UNCHANGED delayed,
               PendingWork(j) \subseteq PendingWork(j)'
        PROVE  Pending(j)'
    <2>1. RightsIn(delayed, j)' = RightsIn(delayed, j)
      BY <1>3 DEF RightsIn
    <2> QED
      BY <1>0, <1>1, <1>3, <2>1, PendingPlaces, PendingPlacesNext
  <1>4. ASSUME NEW x \in Workers, Take(x) PROVE Pending(j)'
    <2>1. PICK t \in Tasks : t = Head(queue)
      BY <1>0, <1>4 DEF Take
    <2>2. PICK r : /\ r = [IdleWork EXCEPT !.pc = t.kind, !.job = t.job, !.wf = t.wf]
                   /\ work' = [work EXCEPT ![x] = r]
      BY <1>4, <2>1 DEF Take
    <2>3. r.pc = t.kind /\ r.job = t.job
      BY <2>2 DEF IdleWork
    <2>4. \A y \in Workers : y # x => work'[y] = work[y]
      BY <1>0, <2>2
    <2>5. work'[x] = r
      BY <1>0, <2>2
    <2>6. IsRight(t, j) => x \in PendingWork(j)'
      BY <2>3, <2>5 DEF IsRight, PendingWork, Tasks
    <2>7. PendingWork(j) \subseteq PendingWork(j)'
      BY <1>2, <1>4, <2>4 DEF Take, At
    <2>8. /\ RightsIn(queue, j)' = RightsIn(Tail(queue), j)
          /\ RightsIn(delayed, j)' = RightsIn(delayed, j)
          /\ queue # <<>>
      BY <1>4 DEF Take, RightsIn
    <2> QED
      BY <1>0, <1>1, <2>1, <2>6, <2>7, <2>8, TakenOrWaits, PendingPlaces, PendingPlacesNext
  <1>5. ASSUME NEW x \in Workers, SubmitCreate(x) PROVE Pending(j)'
    <2>1. PICK w \in Workflows :
            work' = [work EXCEPT ![x] = [@ EXCEPT !.pc = "created", !.wf = w]]
      BY <1>5 DEF SubmitCreate
    <2>2. PICK r : r = [work[x] EXCEPT !.pc = "created", !.wf = w]
      OBVIOUS
    <2>3. work[x] \in WorkStates /\ work' = [work EXCEPT ![x] = r]
      BY <1>0, <2>1, <2>2
    <2>4. r.job = work[x].job /\ r.pc = "created"
      BY <2>2, <2>3 DEF WorkStates
    <2>5. work'[x] = r /\ \A y \in Workers : y # x => work'[y] = work[y]
      BY <1>0, <2>3
    <2>6. PendingWork(j) \subseteq PendingWork(j)'
      BY <1>2, <2>4, <2>5
    <2> QED
      BY <1>3, <1>5, <2>6 DEF SubmitCreate, RightsIn
  <1>6. ASSUME NEW x \in Workers, SubmitRaises(x) PROVE Pending(j)'
    <2>1. PICK r : r = [work[x] EXCEPT !.pc = "failed"]
      OBVIOUS
    <2>2. work[x] \in WorkStates /\ work' = [work EXCEPT ![x] = r]
      BY <1>0, <1>6, <2>1 DEF SubmitRaises
    <2>3. r.job = work[x].job /\ r.pc = "failed"
      BY <2>1, <2>2 DEF WorkStates
    <2>4. work'[x] = r /\ \A y \in Workers : y # x => work'[y] = work[y]
      BY <1>0, <2>2
    <2>5. PendingWork(j) \subseteq PendingWork(j)'
      BY <1>2, <2>3, <2>4
    <2> QED
      BY <1>3, <1>6, <2>5 DEF SubmitRaises, RightsIn
  <1>7. ASSUME NEW x \in Workers, SubmitFailed(x) \/ SubmitRunning(x)
        PROVE  Pending(j)' \/ row'[j].status # "queued"
    <2>1. CASE work[x].job = j
      BY <1>0, <1>7, <2>1 DEF SubmitFailed, SubmitRunning, Modify, Exists
    <2>2. CASE work[x].job # j
      <3>1. \A y \in Workers : y # x => work'[y] = work[y]
        BY <1>0, <1>7 DEF SubmitFailed, SubmitRunning, Done
      <3>2. PendingWork(j) \subseteq PendingWork(j)'
        BY <1>2, <2>2, <3>1
      <3> QED
        BY <1>3, <1>7, <3>2 DEF SubmitFailed, SubmitRunning, RightsIn
    <2> QED
      BY <2>1, <2>2
  <1>8. ASSUME NEW x \in Workers, EnqueuePoll(x) \/ PollGet(x) \/ PollQuery(x) \/ PollWrite(x)
        PROVE  Pending(j)'
    <2>1. work[x].pc \notin {"requeue", "submit", "failed", "created"}
      BY <1>8 DEF EnqueuePoll, PollGet, PollQuery, PollWrite, At
    <2>2. \A y \in Workers : y # x => work'[y] = work[y]
      BY <1>0, <1>8 DEF EnqueuePoll, PollGet, PollQuery, PollWrite, Done
    <2>3. PendingWork(j) \subseteq PendingWork(j)'
      BY <1>2, <2>1, <2>2
    <2>4. queue' = queue \/ queue' = Append(queue, Task("poll", work[x].job, work[x].wf))
      BY <1>8 DEF EnqueuePoll, PollGet, PollQuery, PollWrite
    <2>5. work[x].job \in Jobs /\ work[x].wf \in WfNames
      BY <1>0, <1>8 DEF EnqueuePoll, PollGet, PollQuery, PollWrite, At, WorkInv, WorkStates
    <2>6. Task("poll", work[x].job, work[x].wf) \in Tasks
      BY <2>5 DEF Task, Tasks
    <2>7. RightsIn(queue, j)' = RightsIn(queue', j)
      BY DEF RightsIn
    <2>8. RightsIn(queue, j) \subseteq RightsIn(queue, j)'
      BY <1>0, <2>4, <2>6, <2>7, AppendedWaits
    <2>9. UNCHANGED delayed
      BY <1>8 DEF EnqueuePoll, PollGet, PollQuery, PollWrite
    <2> QED
      BY <1>3, <2>3, <2>8, <2>9
  <1>9. ASSUME NEW x \in Workers, Requeue(x) PROVE Pending(j)'
    <2>1. QueueToSubmit(work[x].job, work[x].wf)
      BY <1>9 DEF Requeue
    <2>2. work[x].job \in Jobs /\ work[x].wf \in WfNames
      BY <1>0, <1>9 DEF Requeue, At, WorkInv, WorkStates
    <2>3. \A y \in Workers : y # x => work'[y] = work[y]
      BY <1>0, <1>9 DEF Requeue, Done
    <2>4. PendingWork(j) \subseteq PendingWork(j)' \/ work[x].job = j
      BY <1>2, <2>3
    <2> QED
      BY <1>0, <1>1, <2>1, <2>2, <2>4, SubmitWaits, PendingPlaces, PendingPlacesNext
  <1>10. CASE SchedulerTick
    <2>1. PICK t \in Tasks : t = Head(delayed)
      BY <1>0, <1>10 DEF SchedulerTick
    <2>2. /\ RightsIn(queue, j)' = RightsIn(Append(queue, t), j)
          /\ RightsIn(delayed, j)' = RightsIn(Tail(delayed), j)
          /\ PendingWork(j)' = PendingWork(j)
          /\ delayed # <<>>
      BY <1>10, <2>1 DEF SchedulerTick, RightsIn, PendingWork
    <2>3. RightsIn(delayed, j) # {} => IsRight(t, j) \/ RightsIn(delayed, j)' # {}
      BY <1>0, <2>1, <2>2, TakenOrWaits
    <2>4. /\ RightsIn(queue, j) \subseteq RightsIn(queue, j)'
          /\ IsRight(t, j) => RightsIn(queue, j)' # {}
      BY <1>0, <2>2, AppendedWaits
    <2> QED
      BY <1>0, <1>1, <2>2, <2>3, <2>4, PendingPlaces, PendingPlacesNext
  <1> QED
    BY <1>4, <1>5, <1>6, <1>7, <1>8, <1>9, <1>10 DEF WorkerNext, WorkerStep, TaskLost

\* Where no request, task or call to Argo fails, a queued job stays pending.
LEMMA PendingKept ==
  ASSUME Faults \cap {"argo", "request", "task"} = {}, IInv, PendingInv, [Next]_vars
  PROVE  PendingInv'
  <1> USE DEF vars, dbVars, redisVars, argoVars
  <1>0. DelayedInv /\ DelayedInv'
    BY DelayedKept DEF PendingInv
  <1>1. SUFFICES ASSUME NEW j \in Jobs, row'[j].status = "queued" PROVE Pending(j)'
    BY <1>0 DEF PendingInv, QueuedIsPending
  <1>2. CASE PendingRequests(j)' # {}
    BY <1>0, <1>2, PendingPlacesNext
  <1>3. CASE row[j].status = "queued"
    <2>1. Pending(j)
      BY <1>3 DEF PendingInv, QueuedIsPending
    <2>2. CASE ApiNext
      BY <1>0, <2>1, <2>2, RequestSubmits
    <2>3. CASE WorkerNext
      BY <1>0, <1>1, <2>1, <2>3, TaskSubmits
    <2>4. CASE RecNext \/ ArgoNext \/ UNCHANGED vars
      <3>1. UNCHANGED <<queue, delayed, work, req>>
        BY <2>4 DEF RecNext, RecStep, RecBegin, RecQuery, RecWrite, RecLost, ArgoNext, ArgoRun,
           ExecutorStarts, ArgoSucceed, ArgoFail, ArgoExpire
      <3> QED
        BY <2>1, <3>1 DEF Pending
    <2> QED
      BY <2>2, <2>3, <2>4 DEF Next
  <1> QED
    BY <1>1, <1>2, <1>3, QueuedWritten

-----------------------------------------------------------------------------
(* Theorems *)

\* The right to submit a batch job that goes with making its directory is in one place at
\* a time, whatever requests, tasks and faults interleave, until the directory is removed
\* or two starts are between looking for it and making it: fs.mkdir does one, then the other.
THEOREM OneRightPerJob == Spec => [](IInv /\ SyncInv /\ RightsInv)
  <1>1. Init => IInv /\ SyncInv /\ RightsInv
    BY InitSound, NoRightsAtFirst
  <1>2. (IInv /\ SyncInv /\ RightsInv) /\ IInv' /\ [Next]_vars
          => (IInv /\ SyncInv /\ RightsInv)'
    BY SyncKept, RightsKept
  <1> QED
    BY <1>1, <1>2, Invariance, PTL DEF Spec

\* A batch job has one workflow at most, however many start_job requests read the same row,
\* unless its directory was removed or two of them were in fs.mkdir at once.
THEOREM SubmittedOnce == Spec => []OneWorkflowPerJob
  <1>1. RightsInv => OneWorkflowPerJob
    <2> SUFFICES ASSUME RightsInv, NEW j \in BatchJobs \ unguarded, NEW v \in Workflows,
                        NEW w \in Workflows, owner[v] = j, owner[w] = j
                 PROVE  v = w
      BY DEF OneWorkflowPerJob
    <2>1. <<"workflow", v>> \in Holders(j) /\ <<"workflow", w>> \in Holders(j)
      BY HolderIs DEF RunsOf
    <2>2. <<"workflow", v>> = <<"workflow", w>>
      BY <2>1 DEF RightsInv, HoldersInv, AtMostOne
    <2> QED
      BY <2>2
  <1> QED
    BY <1>1, OneRightPerJob, PTL

\* Without failing calls to Argo, a batch job that still has the directory its one start
\* made is marked as errored only when no workflow of it can still run: poll_job_status and reconcile take an exception for the end of
\* the workflow, and the exception in submit_job comes before there is one.
THEOREM ErrorsAreFinal == "argo" \notin Faults => (Spec => []ErrorMeansEnded)
  <1> SUFFICES ASSUME "argo" \notin Faults PROVE Spec => []ErrorMeansEnded
    OBVIOUS
  <1>1. Init => ErrorInv
    BY NoErrorsAtFirst
  <1>2. (IInv /\ SyncInv /\ RightsInv) /\ ErrorInv /\ [Next]_vars => ErrorInv'
    BY ErrorKept
  <1>3. RightsInv /\ ErrorInv => ErrorMeansEnded
    <2> SUFFICES ASSUME RightsInv, ErrorInv, NEW j \in BatchJobs \ unguarded, row[j].status = "error",
                        NEW w \in Workflows, owner[w] = j
                 PROVE  ~Alive(w)
      BY DEF ErrorMeansEnded
    <2>1. <<"workflow", w>> \in Holders(j)
      BY HolderIs DEF RunsOf
    <2>2. Ended(w)
      BY <2>1 DEF ErrorInv, Spent
    <2> QED
      BY <2>2 DEF Ended, Alive
  <1> QED
    BY <1>1, <1>2, <1>3, OneRightPerJob, PTL DEF Spec

\* Where no request, task or call to Argo fails, a queued job has its submission on the
\* way: every hand-over from request to Redis, from Redis to a worker and back leaves it
\* in one place at least, and what leaves the last one writes the row.
THEOREM QueuedJobsArePending ==
  Faults \cap {"argo", "request", "task"} = {} => (Spec => []QueuedIsPending)
  <1> SUFFICES ASSUME Faults \cap {"argo", "request", "task"} = {}
               PROVE  Spec => []QueuedIsPending
    OBVIOUS
  <1>1. Init => PendingInv
    BY DEF Init, PendingInv, DelayedInv, QueuedIsPending, NoRow
  <1>2. IInv /\ PendingInv /\ [Next]_vars => PendingInv'
    BY PendingKept
  <1>3. PendingInv => QueuedIsPending
    BY DEF PendingInv
  <1> QED
    BY <1>1, <1>2, <1>3, Invariance, PTL DEF Spec
=============================================================================
