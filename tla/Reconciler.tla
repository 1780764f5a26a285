----------------------------- MODULE Reconciler -----------------------------
(***************************************************************************)
(* reconcile.py, a CronJob that runs every five minutes: it reads all       *)
(* running rows in one query, then looks at each job's workflow and writes  *)
(* the row from the object it read at the start.                            *)
(***************************************************************************)
EXTENDS QueueWorker

AtLoopHead == rec.verdict = None

\* reconcile: the query.  A run that finds no running row changes nothing.
RecBegin ==
  /\ rec = IdleRec
  /\ \E j \in Jobs : row[j].status = "running"
  /\ rec' = [rec EXCEPT !.todo = {[job |-> j, wf |-> row[j].wf] :
                                  j \in {k \in Jobs : row[k].status = "running"}}]
  /\ UNCHANGED <<dbVars, redisVars, argoVars, req, work>>

\* Variants: a live phase is written as well; a missing workflow is left alone.
RecVerdictEager(answer) ==
  CASE answer = "Succeeded"             -> "finished"
    [] answer \in {"New", "Running"}    -> "running"
    [] OTHER                            -> "error"
RecVerdictLenient(answer) ==
  CASE answer = "Succeeded" -> "finished"
    [] answer = "Failed"    -> "error"
    [] OTHER                -> "skip"

\* reconcile: what one turn of the loop makes of a job, or "skip".  A snapshot
\* without a workflow name is an error before Argo is asked.
RecVerdict(answer) ==
  CASE answer = "exception" -> "error"
    [] answer = "Succeeded" -> "finished"
    [] answer = "Failed"    -> "error"
    [] OTHER                -> "skip"

RecQuery ==
  /\ AtLoopHead
  /\ \E s \in rec.todo :
       \E answer \in GetWorkflow(s.wf) :
         LET v == RecVerdict(answer)
         IN rec' = IF v = "skip"
                   THEN [rec EXCEPT !.todo = @ \ {s}]
                   ELSE [todo |-> rec.todo \ {s}, job |-> s.job, wf |-> s.wf,
                         verdict |-> v]
  /\ UNCHANGED <<dbVars, redisVars, argoVars, req, work>>

\* reconcile: modify(job); an exception ends the run.
RecWrite ==
  /\ ~AtLoopHead
  /\ Modify(rec.job, rec.verdict, rec.wf)
  /\ rec' = IF ModifyRaises(rec.job) THEN IdleRec
            ELSE [IdleRec EXCEPT !.todo = rec.todo]
  /\ UNCHANGED <<unborn, workspace, unguarded, redisVars, argoVars, req, work>>

\* The pod is killed.
RecLost ==
  /\ "reconcile" \in Faults
  /\ rec # IdleRec
  /\ rec' = IdleRec
  /\ UNCHANGED <<dbVars, redisVars, argoVars, req, work>>

RecStep == RecBegin \/ RecQuery \/ RecWrite
RecNext == RecStep \/ RecLost
=============================================================================
