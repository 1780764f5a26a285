----------------------------- MODULE JobPromise -----------------------------
(***************************************************************************)
(* The invariant behind the promise of JobLife.  It says, for each place    *)
(* the business of a batch job can be in, what the row says meanwhile: so   *)
(* whoever writes the row next takes it from a status the promise allows.   *)
(* It holds while jobs are started and run, and nobody cancels or deletes,  *)
(* for the jobs of which no two starts were in fs.mkdir at once.            *)
(***************************************************************************)
EXTENDS JobRights

\* Nobody cancels or deletes, workflows are not removed, and calls to Argo answer.
\* Requests, tasks, the reconciler and submissions may still be lost.
Undisturbed == Requests \subseteq {"start", "sync"} /\ Faults \cap {"argo", "expire"} = {}

Launched == {"running", "finished", "error"}

\* Nothing has been removed, and no request is about to delete or cancel.
UndisturbedInv ==
  /\ gone = {}
  /\ \A c \in Clients :
       req[c].pc \in {"idle", "start_exists", "start_makedirs", "start_modify",
                      "start_submit", "sync_enqueue", "sync_wait"}

\* A request has read a row, made the directory, or written the row.
StartsInv(j) ==
  /\ row[j].status = "absent" <=> j \in unborn
  /\ j \notin workspace => row[j].status \in {"absent", "created"}
  /\ \A c \in Clients : req[c].job = j =>
       /\ req[c].pc # "idle" => row[j].status # "absent"
       /\ req[c].pc = "start_modify" => row[j].status = "created"
       /\ req[c].pc = "start_submit" => row[j].status = "queued"

\* The job waits to be submitted.
Waits(j) == RightsIn(queue, j) # {} \/ RightsIn(delayed, j) # {} \/ WorkRights(j) # {}
WaitsInv(j) == Waits(j) => row[j].status = "queued"

\* Its submission has failed or succeeded, and one worker is about to say so.
LaunchesInv(j) ==
  \A x \in Workers : work[x].job = j /\ work[x].pc \in {"failed", "created"} =>
    /\ row[j].status = "queued" /\ j \in workspace
    /\ work[x].pc = "failed" => Holders(j) = {}
    /\ \A y \in Workers : work[y].job = j /\ work[y].pc \in {"failed", "created"} => x = y

\* Whoever watches it does so after it was announced.
PollsIn(tasks, j) == {i \in DOMAIN tasks : tasks[i].kind = "poll" /\ tasks[i].job = j}
WatchesInv(j) ==
  /\ PollsIn(queue, j) # {} => row[j].status \in Launched
  /\ \A x \in Workers : work[x].job = j /\ work[x].pc \in {"announce", "poll", "query", "write"}
                          => row[j].status \in Launched
  /\ (\E s \in rec.todo : s.job = j) \/ rec.job = j => row[j].status \in Launched

\* What is reported, or about to be, is what the run did.
ReportsInv(j) ==
  /\ row[j].status = "error" => \A w \in RunsOf(j) : phase[w] = "Failed"
  /\ \A x \in Workers : work[x].job = j /\ work[x].pc = "write" /\ work[x].verdict = "error"
                          => work[x].wf # None /\ phase[work[x].wf] = "Failed"
  /\ rec.job = j /\ rec.verdict = "error" => rec.wf # None /\ phase[rec.wf] = "Failed"

JobInv(j) == StartsInv(j) /\ WaitsInv(j) /\ LaunchesInv(j) /\ WatchesInv(j) /\ ReportsInv(j)

PromiseInv ==
  /\ IInv /\ SyncInv /\ RightsInv
  /\ UndisturbedInv /\ DelayedInv
  /\ \A s \in rec.todo : s.wf # None
  /\ \A j \in BatchJobs \ unguarded : JobInv(j)
=============================================================================
