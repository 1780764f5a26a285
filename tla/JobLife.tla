------------------------------- MODULE JobLife -------------------------------
(***************************************************************************)
(* What the services promise the owner of a job who does not cancel or      *)
(* delete it: the job is run at most once, and the status ends as what that *)
(* one run did.  The promise names no queue, worker, request or workflow:   *)
(* only the status and the fate of the run.  A job that was never started   *)
(* falls out of the promise when two requests make its directory at once.   *)
(***************************************************************************)
CONSTANT Jobs   \* batch jobs: a synchronous one may be run again after a failure

VARIABLES
  life,   \* the status a client reads, "absent" before the job exists; or "disputed",
          \* when nothing is promised any more
  fate    \* of the job's run: "none" before it starts, "going", "good", "bad"

lifeVars == <<life, fate>>

Init ==
  /\ life = [j \in Jobs |-> "absent"]
  /\ fate = [j \in Jobs |-> "none"]

Create(j) ==
  /\ life[j] = "absent"
  /\ life' = [life EXCEPT ![j] = "created"]
  /\ UNCHANGED fate

\* A job that never ran, or whose launch was refused, is queued.
Start(j) ==
  /\ life[j] \in {"created", "error"}
  /\ fate[j] = "none"
  /\ life' = [life EXCEPT ![j] = "queued"]
  /\ UNCHANGED fate

\* Two starts of a job that never ran get through together.
Dispute(j) ==
  /\ life[j] = "created" /\ fate[j] = "none"
  /\ life' = [life EXCEPT ![j] = "disputed"]
  /\ UNCHANGED fate

\* The one run begins.
Launch(j) ==
  /\ life[j] = "queued" /\ fate[j] = "none"
  /\ fate' = [fate EXCEPT ![j] = "going"]
  /\ UNCHANGED life

\* The launch is refused.
Refuse(j) ==
  /\ life[j] = "queued" /\ fate[j] = "none"
  /\ life' = [life EXCEPT ![j] = "error"]
  /\ UNCHANGED fate

RunEnds(j) ==
  /\ fate[j] = "going"
  /\ \E f \in {"good", "bad"} : fate' = [fate EXCEPT ![j] = f]
  /\ UNCHANGED life

\* The client learns that the job has been launched.
Announce(j) ==
  /\ life[j] = "queued" /\ fate[j] # "none"
  /\ life' = [life EXCEPT ![j] = "running"]
  /\ UNCHANGED fate

\* The client learns what the run did.
Report(j) ==
  /\ life[j] = "running" /\ fate[j] \in {"good", "bad"}
  /\ life' = [life EXCEPT ![j] = IF fate[j] = "good" THEN "finished" ELSE "error"]
  /\ UNCHANGED fate

Serve(j) == Launch(j) \/ Refuse(j) \/ RunEnds(j) \/ Announce(j) \/ Report(j)
Next     == \E j \in Jobs : Create(j) \/ Start(j) \/ Dispute(j) \/ Serve(j)

Spec     == Init /\ [][Next]_lifeVars
FairSpec == Spec /\ \A j \in Jobs : WF_lifeVars(Serve(j))
=============================================================================
