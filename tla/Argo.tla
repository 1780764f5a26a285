-------------------------------- MODULE Argo --------------------------------
(***************************************************************************)
(* The Argo Workflows server, an external service, as the code in           *)
(* workflows.py, tasks.py, reconcile.py and jobs.py uses it.                *)
(***************************************************************************)
EXTENDS JobState

Ended(w) == phase[w] \in {"Succeeded", "Failed"}
Alive(w) == phase[w] \in {"New", "Running"} /\ w \notin gone

\* list_workflows().items
Listed == {w \in Workflows : phase[w] # "unused" /\ w \notin gone}

\* workflow.create(): the server generates a name; there is no phase yet.
CreateWorkflow(w, j) ==
  /\ phase[w] = "unused"
  /\ phase' = [phase EXCEPT ![w] = "New"]
  /\ owner' = [owner EXCEPT ![w] = j]
  /\ UNCHANGED <<stopped, gone>>

\* get_workflow(name): the phases or the exception a caller can see.
GetWorkflow(w) ==
  (IF w = None \/ w \in gone THEN {"exception"} ELSE {phase[w]})
    \cup (IF "argo" \in Faults THEN {"exception"} ELSE {})

\* stop_workflow(name): the answers a caller can see.  A workflow that has ended
\* may be refused.
StopAnswers(w) ==
  (IF w \in gone THEN {"notfound"} ELSE {"ok"})
    \cup (IF "argo" \in Faults \/ (w \notin gone /\ Ended(w)) THEN {"exception"} ELSE {})

-----------------------------------------------------------------------------
\* The controller picks the workflow up.
ArgoRun(w) ==
  /\ phase[w] = "New" /\ w \notin stopped
  /\ phase' = [phase EXCEPT ![w] = "Running"]
  /\ UNCHANGED <<owner, stopped, gone, dbVars, redisVars, req, work, rec>>

\* The executor container starts and makes the job's directories.
ExecutorStarts(w) ==
  /\ phase[w] = "Running" /\ owner[w] \notin workspace
  /\ workspace' = workspace \cup {owner[w]}
  /\ UNCHANGED <<row, unborn, unguarded, argoVars, redisVars, req, work, rec>>

\* The executor exits with 0; its results are in the job's directory.
ArgoSucceed(w) ==
  /\ phase[w] = "Running" /\ owner[w] \in workspace
  /\ phase' = [phase EXCEPT ![w] = "Succeeded"]
  /\ UNCHANGED <<owner, stopped, gone, dbVars, redisVars, req, work, rec>>

\* The executor fails, is killed, is stopped, or reaches the workflow's
\* active_deadline_seconds.
ArgoFail(w) ==
  /\ phase[w] \in {"New", "Running"}
  /\ phase' = [phase EXCEPT ![w] = "Failed"]
  /\ UNCHANGED <<owner, stopped, gone, dbVars, redisVars, req, work, rec>>

\* A workflow that has ended is removed.
ArgoExpire(w) ==
  /\ "expire" \in Faults
  /\ Ended(w) /\ w \notin gone
  /\ gone' = gone \cup {w}
  /\ UNCHANGED <<phase, owner, stopped, dbVars, redisVars, req, work, rec>>

ArgoNext ==
  \E w \in Workflows :
    ArgoRun(w) \/ ExecutorStarts(w) \/ ArgoSucceed(w) \/ ArgoFail(w) \/ ArgoExpire(w)
=============================================================================
