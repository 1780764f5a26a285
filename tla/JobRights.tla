------------------------------ MODULE JobRights ------------------------------
(***************************************************************************)
(* The invariants behind OneWorkflowPerJob, ErrorMeansEnded and             *)
(* QueuedIsPending.  A job is submitted at most once because the right to   *)
(* do so is in one place at a time: the directory that start_job makes      *)
(* gives it to one request, unless two look for it before one makes it; the *)
(* request hands it to a task, a worker and, at last, to the workflow.      *)
(***************************************************************************)
EXTENDS JobSystemInv

\* A task that ends in a submission of j unless something goes wrong.
IsRight(t, j) == t.kind # "poll" /\ t.job = j

RightsIn(tasks, j) == {i \in DOMAIN tasks : IsRight(tasks[i], j)}
WorkRights(j)    == {x \in Workers : work[x].job = j /\ work[x].pc \in {"submit", "requeue"}}
RequestRights(j) == {c \in Clients : req[c].job = j /\ req[c].pc \in {"start_modify", "start_submit"}}

\* Where the right to submit j is, or what it was used for.
Holders(j) ==
  ({"queue"} \X RightsIn(queue, j)) \cup ({"delayed"} \X RightsIn(delayed, j))
    \cup ({"work"} \X WorkRights(j)) \cup ({"request"} \X RequestRights(j))
    \cup ({"workflow"} \X RunsOf(j))

AtMostOne(S) == \A a, b \in S : a = b

\* One request at most is about to make the directory of j, and it is not there yet.
MakingInv(j) ==
  /\ AtMostOne(Making(j))
  /\ Making(j) # {} => j \notin workspace

\* The right to submit j is in one place at most, and there is none before the directory
\* is made.
HoldersInv(j) ==
  /\ AtMostOne(Holders(j))
  /\ Holders(j) # {} => j \in workspace

\* What the directory of a batch job stands for until it is removed or two starts are in
\* fs.mkdir at once.
RightsInv == \A j \in BatchJobs \ unguarded : MakingInv(j) /\ HoldersInv(j)

\* submit_job is enqueued without a right by process_sync_job only.
SyncInv == \A c \in Clients : req[c].pc = "sync_enqueue" => req[c].job \in SyncJobs

\* The right to submit j has been used up, and what it was used for has ended.
Spent(j) ==
  /\ j \in workspace
  /\ \A a \in Holders(j) : a[1] = "workflow" /\ Ended(a[2])

\* Whoever calls a job errored, or is about to, has seen the end of its right.  Without
\* failing calls to Argo the only way to miss a workflow is that it is gone.
ErrorInv ==
  /\ \A w \in gone : Ended(w)
  /\ \A s \in rec.todo : s.wf # None
  /\ \A j \in BatchJobs \ unguarded :
       /\ row[j].status = "error" => Spent(j)
       /\ rec.verdict = "error" /\ rec.job = j => Spent(j)
       /\ \A x \in Workers : work[x].job = j /\ (work[x].verdict = "error" \/ work[x].pc = "failed")
                               => Spent(j)

\* The places a queued job's submission can be in, besides Redis.
PendingWork(j) ==
  {x \in Workers : work[x].job = j /\ work[x].pc \in {"requeue", "submit", "failed", "created"}}
PendingRequests(j) ==
  {c \in Clients : req[c].job = j /\ req[c].pc \in {"start_submit", "sync_enqueue"}}

\* What is scheduled for later ends in a submission.
DelayedInv == \A i \in DOMAIN delayed : delayed[i].kind # "poll"

\* What makes QueuedIsPending inductive where no request, task or call to Argo fails.
PendingInv == DelayedInv /\ QueuedIsPending
=============================================================================
