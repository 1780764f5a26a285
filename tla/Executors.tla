------------------------------ MODULE Executors ------------------------------
(***************************************************************************)
(* cli.py and executor.py: executor pods, each running the process graph of *)
(* one job, and the Dask clusters they start on one gateway.  A pod cuts    *)
(* its job's bounding box into cells, computes graph after graph, shuts its *)
(* cluster down and exits.                                                  *)
(*                                                                          *)
(* A cluster is named after its job's pod: <<e, 1>> is the one the pod      *)
(* starts, <<e, 2>> one that a process of its graph puts in its place.      *)
(***************************************************************************)
EXTENDS SubGraphs, FiniteSets

CONSTANTS
  Pods,     \* executor pods
  Graphs,   \* the process graphs a pod's job may have
  Faults    \* what may go wrong in each pod: "setup", "raise", "hang", "closed" (its cluster is,
            \* early), "gateway", "close", "kill"

ASSUME PodsAssumption ==
  /\ None \notin Pods \X {1, 2}
  /\ \A e \in Pods : Graphs[e] \subseteq Seq(Nodes)
  /\ \A e \in Pods : \A g \in Graphs[e] : \A i \in NodesWith(g, Extents) : Measured(g[i].extent)

VARIABLES
  dask,     \* the deployment: "LOCAL", or a gateway that lists the caller's "own" or "all" clusters
  pod,      \* a pod's step, graphs left, what was loaded, objects open
  up        \* the clusters that run

vars == <<dask, pod, up>>

Clusters  == Pods \X {1, 2}
Objects   == {"client", "local_cluster", "gateway"}
Steps     == {"start", "adapt", "parse", "prepare", "run", "teardown", "connect", "close",
              "publish", "exit", "shutdown"}
Endings   == {"exited", "failed", "killed"}
PodStates ==
  [pc : Steps \cup {"hung", "wedged"} \cup Endings,
   graph : Seq(Nodes), todo : Seq(Seq(Nodes)), loaded : Seq(SUBSET (Extents \cup {Partial, Null, None})),
   exc : BOOLEAN, open : SUBSET Objects, pick : Clusters \cup {None}, past : SUBSET UNION {Faults[e] : e \in Pods}]

OwnClusters(e) == {k \in up : k[1] = e}
UsesGateway(e) == ~is_cwl_job(pod[e].graph) /\ dask # "LOCAL"
Visible(e)     == IF dask = "all" THEN up ELSE OwnClusters(e)
Ended(e)       == pod[e].pc \in Endings

Init ==
  /\ dask \in {"LOCAL", "own", "all"}
  /\ up = {}
  /\ \E graph \in [Pods -> UNION {Graphs[e] : e \in Pods}] :
       /\ \A e \in Pods : graph[e] \in Graphs[e]
       /\ pod = [e \in Pods |->
                  [pc |-> "start", graph |-> graph[e], todo |-> <<>>,
                   loaded |-> <<>>, exc |-> FALSE, open |-> {}, pick |-> None, past |-> {}]]

Goto(e, pc)  == pod' = [pod EXCEPT ![e].pc = pc]
\* Fault f makes the pod raise an exception and go on at pc.
Raise(e, f, pc) ==
  /\ f \in Faults[e]
  /\ pod' = [pod EXCEPT ![e].pc = pc, ![e].exc = TRUE, ![e].past = @ \cup {f}]

-----------------------------------------------------------------------------
(* execute in cli.py: the cluster *)

\* CWL jobs need no cluster.
SkipCluster(e) ==
  /\ pod[e].pc = "start" /\ is_cwl_job(pod[e].graph)
  /\ Goto(e, "parse")
  /\ UNCHANGED <<dask, up>>

\* LocalCluster and its Client, of which either may fail.
OpenLocal(e) ==
  /\ pod[e].pc = "start" /\ ~is_cwl_job(pod[e].graph) /\ dask = "LOCAL"
  /\ \/ pod' = [pod EXCEPT ![e].pc = "parse", ![e].open = {"local_cluster", "client"}]
     \/ /\ "setup" \in Faults[e]
        /\ \E o \in {{}, {"local_cluster"}} :
             pod' = [pod EXCEPT ![e].pc = "shutdown", ![e].exc = TRUE, ![e].open = o,
                                ![e].past = @ \cup {"setup"}]
  /\ UNCHANGED <<dask, up>>

\* gateway.new_cluster: a call that raises may have started it.
NewCluster(e) ==
  /\ pod[e].pc = "start" /\ UsesGateway(e)
  /\ \/ /\ pod' = [pod EXCEPT ![e].pc = "adapt", ![e].open = {"gateway"}]
        /\ up' = up \cup {<<e, 1>>}
     \/ /\ "setup" \in Faults[e]
        /\ pod' = [pod EXCEPT ![e].pc = "shutdown", ![e].exc = TRUE, ![e].open = {"gateway"},
                              ![e].past = @ \cup {"setup"}]
        /\ up' \in {up, up \cup {<<e, 1>>}}
  /\ UNCHANGED dask

\* adapt and get_client.  An exception here, or in the next step, is not within the try:
\* nobody shuts the cluster down.
Adapt(e) ==
  /\ pod[e].pc = "adapt"
  /\ \/ pod' = [pod EXCEPT ![e].pc = "parse", ![e].open = @ \cup {"client"}]
     \/ Raise(e, "setup", "shutdown")
  /\ UNCHANGED <<dask, up>>

Parse(e) ==
  /\ pod[e].pc = "parse"
  /\ Goto(e, "prepare") \/ Raise(e, "setup", "shutdown")
  /\ UNCHANGED <<dask, up>>

-----------------------------------------------------------------------------
(* execute in executor.py: the computation *)

\* A CWL job's graph is run as it is, any other once for each cell.  Without a complete
\* bounding box there is nothing to cut: an exception.
Prepare(e) ==
  /\ pod[e].pc = "prepare"
  /\ IF is_cwl_job(pod[e].graph)
     THEN pod' = [pod EXCEPT ![e].pc = "run", ![e].todo = <<pod[e].graph>>]
     ELSE \E box \in pg_bounding_boxes(pod[e].graph) :
            IF box \in Extents
            THEN pod' = [pod EXCEPT ![e].pc = "run",
                                    ![e].todo = prepare_graphs(box, pod[e].graph)]
            ELSE pod' = [pod EXCEPT ![e].pc = "teardown", ![e].exc = TRUE]
  /\ UNCHANGED <<dask, up>>

\* Dask is there: within the pod, or as a cluster of the job.
HasDask(e) == UsesGateway(e) => OwnClusters(e) # {}

Run(e) ==
  /\ pod[e].pc = "run" /\ pod[e].todo # <<>> /\ HasDask(e)
  /\ pod' = [pod EXCEPT ![e].todo = Tail(@), ![e].loaded = Append(@, Loads(Head(pod[e].todo)))]
  /\ UNCHANGED <<dask, up>>

\* A process raises, or cannot reach its cluster any more.
RunRaises(e) ==
  /\ pod[e].pc = "run" /\ pod[e].todo # <<>>
  /\ \/ Raise(e, "raise", "teardown")
     \/ ~HasDask(e) /\ pod' = [pod EXCEPT ![e].pc = "teardown", ![e].exc = TRUE]
  /\ UNCHANGED <<dask, up>>

\* Or it waits for its cluster for ever: nothing calls compute_with_timeout.
RunHangs(e) ==
  /\ "hang" \in Faults[e]
  /\ pod[e].pc = "run" /\ pod[e].todo # <<>>
  /\ pod' = [pod EXCEPT ![e].pc = "hung", ![e].past = @ \cup {"hang"}]
  /\ UNCHANGED <<dask, up>>

\* "Sub workflows processing": the cluster is closed and another one used.
ReplaceCluster(e) ==
  /\ "closed" \in Faults[e]
  /\ pod[e].pc = "run" /\ <<e, 1>> \in up
  /\ up' = (up \ {<<e, 1>>}) \cup {<<e, 2>>}
  /\ pod' = [pod EXCEPT ![e].past = @ \cup {"closed"}]
  /\ UNCHANGED dask

AllRun(e) ==
  /\ pod[e].pc = "run" /\ pod[e].todo = <<>>
  /\ Goto(e, "teardown")
  /\ UNCHANGED <<dask, up>>

-----------------------------------------------------------------------------
(* The finally: _teardown_cluster, _close_dask *)

\* Variant: shutdown is not in a finally, and a failed computation skips it.
TeardownUnlessFailed(e) ==
  /\ pod[e].pc = "teardown"
  /\ IF pod[e].exc THEN up' = up ELSE up' = up \ {<<e, 1>>}
  /\ Goto(e, "close")
  /\ UNCHANGED dask

\* Variant: whatever the gateway lists first is taken for the job's cluster.
TeardownListed(e) ==
  /\ pod[e].pc = "teardown"
  /\ IF UsesGateway(e) /\ Visible(e) # {}
     THEN \E k \in Visible(e) : pod' = [pod EXCEPT ![e].pc = "connect", ![e].pick = k]
     ELSE Goto(e, "close")
  /\ UNCHANGED <<dask, up>>

\* Variant: the list is not checked for being empty.
TeardownUnchecked(e) ==
  /\ pod[e].pc = "teardown"
  /\ IF UsesGateway(e) /\ <<e, 1>> \notin up
     THEN /\ \E k \in IF Visible(e) = {} THEN {None} ELSE Visible(e) :
               pod' = [pod EXCEPT ![e].pc = "connect", ![e].pick = k]
          /\ up' = up
     ELSE /\ Goto(e, "close")
          /\ up' = up \ {<<e, 1>>}
  /\ UNCHANGED dask

\* Shut down the cluster.  If it is closed already, look for another one: the gateway
\* lists them in no order the code knows of.  Every exception is swallowed.
Teardown(e) ==
  /\ pod[e].pc = "teardown"
  /\ IF UsesGateway(e) /\ <<e, 1>> \notin up /\ Visible(e) # {}
     THEN /\ \E k \in Visible(e) : pod' = [pod EXCEPT ![e].pc = "connect", ![e].pick = k]
          /\ up' = up
     ELSE /\ Goto(e, "close")
          /\ up' = up \ {<<e, 1>>}
  /\ UNCHANGED dask

TeardownFails(e) ==
  /\ "gateway" \in Faults[e]
  /\ pod[e].pc \in {"teardown", "connect"} /\ UsesGateway(e)
  /\ pod' = [pod EXCEPT ![e].pc = "close", ![e].pick = None, ![e].past = @ \cup {"gateway"}]
  /\ UNCHANGED <<dask, up>>

\* Connect to the cluster that was listed, unless it has gone since, and shut it down.
Connect(e) ==
  /\ pod[e].pc = "connect"
  /\ up' = up \ {pod[e].pick}
  /\ pod' = [pod EXCEPT ![e].pc = "close", ![e].pick = None]
  /\ UNCHANGED dask

\* Each object is closed, or fails to be; then on, or out with the exception.
CloseDask(e) ==
  /\ pod[e].pc = "close"
  /\ \E left \in SUBSET pod[e].open :
       /\ left # {} => "close" \in Faults[e]
       /\ pod' = [pod EXCEPT ![e].open = left,
                             ![e].pc = IF pod[e].exc THEN "shutdown" ELSE "publish",
                             ![e].past = IF left = {} THEN @ ELSE @ \cup {"close"}]
  /\ UNCHANGED <<dask, up>>

-----------------------------------------------------------------------------
(* The end of the process *)

\* The results are published (module Results); reading RESULTS may raise.
Publish(e) ==
  /\ pod[e].pc = "publish"
  /\ Goto(e, "exit") \/ Raise(e, "raise", "shutdown")
  /\ UNCHANGED <<dask, up>>

\* Variant: the interpreter shuts down after a success as well.
ExitByShutdown(e) ==
  /\ pod[e].pc = "exit"
  /\ Goto(e, "exited") \/ (pod[e].open # {} /\ Goto(e, "wedged"))
  /\ UNCHANGED <<dask, up>>

\* os._exit(0)
Exit(e) ==
  /\ pod[e].pc = "exit"
  /\ Goto(e, "exited")
  /\ UNCHANGED <<dask, up>>

\* An exception ends the process through the interpreter's shutdown, which objects that
\* were left open can block for ever.
Shutdown(e) ==
  /\ pod[e].pc = "shutdown"
  /\ Goto(e, "failed") \/ (pod[e].open # {} /\ Goto(e, "wedged"))
  /\ UNCHANGED <<dask, up>>

\* The workflow's deadline, or a client who stops it, at any step.
Killed(e) ==
  /\ "kill" \in Faults[e] \/ pod[e].pc \in {"hung", "wedged"}
  /\ ~Ended(e)
  /\ pod' = [pod EXCEPT ![e].pc = "killed", ![e].pick = None]
  /\ UNCHANGED <<dask, up>>

\* Variant: no idle time-out.
NeverIdle(k) ==
  /\ k \in up /\ "closed" \in Faults[k[1]] /\ ~Ended(k[1])
  /\ up' = up \ {k}
  /\ UNCHANGED <<dask, pod>>

\* CLUSTER_IDLE_TIMEOUT.  A cluster can be idle while its pod does something else.
IdleTimeout(k) ==
  /\ k \in up
  /\ "closed" \in Faults[k[1]] \/ Ended(k[1])
  /\ up' = up \ {k}
  /\ pod' = IF Ended(k[1]) THEN pod ELSE [pod EXCEPT ![k[1]].past = @ \cup {"closed"}]
  /\ UNCHANGED dask

-----------------------------------------------------------------------------
PodStep(e) ==
  \/ SkipCluster(e) \/ OpenLocal(e) \/ NewCluster(e) \/ Adapt(e) \/ Parse(e)
  \/ Prepare(e) \/ Run(e) \/ RunRaises(e) \/ AllRun(e)
  \/ Teardown(e) \/ Connect(e) \/ CloseDask(e) \/ Publish(e) \/ Exit(e) \/ Shutdown(e)

Next ==
  \/ \E e \in Pods : PodStep(e) \/ RunHangs(e) \/ ReplaceCluster(e) \/ TeardownFails(e) \/ Killed(e)
  \/ \E k \in Clusters : IdleTimeout(k)

Spec == Init /\ [][Next]_vars

\* A pod's process runs on; the workflow has a deadline; the gateway stops idle clusters.
Fairness ==
  /\ \A e \in Pods : WF_vars(PodStep(e)) /\ WF_vars(Killed(e))
  /\ \A k \in Clusters : WF_vars(IdleTimeout(k))

FairSpec == Spec /\ Fairness

-----------------------------------------------------------------------------
(* Properties *)

\* Every variable keeps its type and a job its graph; who connects to a cluster has picked
\* one.
TypeOK ==
  /\ dask \in {"LOCAL", "own", "all"}
  /\ pod \in [Pods -> PodStates]
  /\ up \subseteq Clusters
  /\ \A e \in Pods : pod[e].graph \in Graphs[e]
  /\ \A e \in Pods : pod[e].pc = "connect" <=> pod[e].pick # None

\* What a pod that exits with 0 has computed: every position of its job's bounding box
\* that the grid is over, but for the metre between two cells, and none of them twice.
\* The strips that the grid leaves out (InGrid) are not computed.  It is stated of graphs
\* with one extent, which has an area.
CellsCoverBox ==
  \A e \in Pods :
    LET g   == pod[e].graph
        box == g[Min(NodesWith(g, Extents))].extent
        got == pod[e].loaded
    IN  pod[e].pc = "exited" /\ ~is_cwl_job(g) /\ OneExtent(g) /\ HasArea(box) =>
          /\ \A p \in InGrid(box) : \E n \in DOMAIN got : \E c \in got[n] : Covers(c, p[1], p[2])
          /\ \A m, n \in DOMAIN got :
               m # n => \A c \in got[m], d \in got[n] : Disjoint(c, d)

\* The cluster of a computation that ended, well or not, is gone when its pod ends by
\* itself (#144), unless the gateway could not be reached or, on a gateway that lists all
\* jobs' clusters, the pod's own had closed early.
NoClusterLeft ==
  \A e \in Pods :
    /\ pod[e].pc \in {"exited", "failed"}
    /\ pod[e].past \cap {"setup", "gateway"} = {}
    /\ dask = "own" \/ "closed" \notin pod[e].past
    => OwnClusters(e) = {}

\* A job does not fail through the jobs it shares a gateway with: a pod that raises has
\* no bounding box or met a fault of its own, or another one has lost its cluster early
\* and took this one for it.
FailsForItsOwnReasons ==
  \A e \in Pods :
    pod[e].exc =>
      \/ pod[e].past # {}
      \/ ~(pg_bounding_boxes(pod[e].graph) \subseteq Extents)
      \/ dask = "all" /\ \E f \in Pods \ {e} : "closed" \in pod[f].past

\* A pod that has published its results ends (#147); one that raised can only be stuck
\* when something before the try failed, or an object could not be closed.
DoneNeverWedges ==
  \A e \in Pods :
    pod[e].pc = "wedged" => pod[e].exc /\ pod[e].past \cap {"setup", "close"} # {}

\* No cluster runs for ever, whatever happens to its pod.
ClustersGo == \A k \in Clusters : k \in up ~> k \notin up
=============================================================================
