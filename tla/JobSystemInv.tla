---------------------------- MODULE JobSystemInv ----------------------------
(***************************************************************************)
(* The inductive invariant behind RunningHasWorkflow and                    *)
(* FinishedMeansSucceeded.  Those two speak of rows only, but rows are       *)
(* written from objects read, pickled or decided on earlier, so the          *)
(* invariant speaks of every place such an object waits.                     *)
(***************************************************************************)
EXTENDS JobSystem

\* wf is no name, or the name of a workflow that runs the job j.
Names(j, wf) == wf # None => j # None /\ owner[wf] = j

\* A workflow that runs the job j has succeeded.
Succeeded(j) == j # None /\ \E w \in Workflows : owner[w] = j /\ phase[w] = "Succeeded"

\* A workflow nobody created belongs to nobody, so creating one takes nothing away.
OwnersInv == \A w \in Workflows : phase[w] = "unused" <=> owner[w] = None

RowsInv ==
  \A j \in Jobs :
    /\ Names(j, row[j].wf)
    /\ row[j].status = "running"  => row[j].wf # None
    /\ row[j].status = "finished" => Succeeded(j)

\* The tasks that may wait in Redis.
SoundTasks ==
  {t \in Tasks : Names(t.job, t.wf) /\ (t.kind = "poll" => t.wf # None)}

TasksInv == queue \in Seq(SoundTasks) /\ delayed \in Seq(SoundTasks)

RequestsInv ==
  \A c \in Clients :
    /\ req[c].pc # "idle" => req[c].job # None
    /\ req[c].pc \in {"cancel_stop", "delete_stop"} => req[c].wf # None
    /\ Names(req[c].job, req[c].wf)

WorkInv ==
  \A x \in Workers :
    /\ work[x].pc # "idle" => work[x].job # None
    /\ Names(work[x].job, work[x].wf)
    /\ Names(work[x].job, work[x].read)
    /\ work[x].pc \in {"created", "announce", "poll", "query"} => work[x].wf # None
    /\ work[x].pc = "write" => work[x].verdict # None
    /\ work[x].verdict = "finished" => Succeeded(work[x].job)

RecInv ==
  /\ \A s \in rec.todo : Names(s.job, s.wf)
  /\ Names(rec.job, rec.wf)
  /\ rec.verdict # None => rec.job # None
  /\ rec.verdict = "finished" => Succeeded(rec.job)

\* Every object that waits anywhere names a workflow of its own job or none, and a
\* decision to report success was taken from a workflow that has succeeded.
IInv ==
  /\ TypeOK
  /\ OwnersInv
  /\ RowsInv
  /\ TasksInv
  /\ RequestsInv
  /\ WorkInv
  /\ RecInv
=============================================================================
