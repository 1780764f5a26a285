---------------------------- MODULE ExecutorsInv ----------------------------
(***************************************************************************)
(* The inductive invariant behind the properties of Executors: what a pod   *)
(* at each step knows of its clusters, its cells and its exception.         *)
(***************************************************************************)
EXTENDS Executors

Somebody(f) == \E e \in Pods : f \in pod[e].past

\* Why pod e may miss the cluster it started.
Lost(e) == "closed" \in pod[e].past \/ (dask = "all" /\ Somebody("closed"))

\* A pod has one cluster at a time, and none before it starts one.
ClustersOf(e) ==
  /\ pod[e].pc = "start" \/ ~UsesGateway(e) => OwnClusters(e) = {}
  /\ <<e, 2>> \in up => <<e, 1>> \notin up /\ "closed" \in pod[e].past
ClustersInv == \A e \in Pods : ClustersOf(e)

\* A computation that misses its cluster lost it to the idle time-out, or to a pod that did.
LossOf(e) ==
  /\ pod[e].pc \in {"adapt", "parse", "prepare", "run", "teardown"} /\ UsesGateway(e)
       => <<e, 1>> \in up \/ Lost(e)
  /\ pod[e].pc = "connect" =>
       /\ UsesGateway(e) /\ <<e, 1>> \notin up /\ Lost(e)
       /\ dask = "own" => pod[e].pick = <<e, 2>>
LossInv == \A e \in Pods : LossOf(e)

\* The finally has shut the job's cluster down, if it knew which it was.
Cleared(e) ==
  \/ pod[e].past \cap {"setup", "gateway"} # {}
  \/ dask # "own" /\ "closed" \in pod[e].past
  \/ OwnClusters(e) = {}
ClearedOf(e) ==
  pod[e].pc \in {"close", "publish", "exit", "exited", "shutdown", "failed"} => Cleared(e)
ClearedInv == \A e \in Pods : ClearedOf(e)

\* An exception leads to the interpreter's shutdown, and objects are open there only if
\* _close_dask was not reached or failed.
Ends(p) ==
  /\ p.pc \in {"publish", "exit", "exited"} => ~p.exc
  /\ p.pc \in {"shutdown", "wedged"} => p.exc
  /\ p.pc \in {"publish", "exit", "shutdown", "wedged"} /\ p.open # {}
       => p.past \cap {"setup", "close"} # {}
  /\ p.pc = "wedged" => p.open # {}
EndsInv == \A e \in Pods : Ends(pod[e])

\* What a pod has run and what it has left are the graphs of its box, in order, until it
\* leaves the rest out through an exception.
BoxOf(g)       == g[Min(NodesWith(g, Extents))].extent
SubGraphsOf(g) == prepare_graphs(BoxOf(g), g)
Computes(p) ==
  /\ Len(p.loaded) + Len(p.todo) = Len(SubGraphsOf(p.graph))
  /\ \A n \in DOMAIN p.loaded : p.loaded[n] = Loads(SubGraphsOf(p.graph)[n])
  /\ \A n \in DOMAIN p.todo : p.todo[n] = SubGraphsOf(p.graph)[Len(p.loaded) + n]
Cells(p) ==
  ~is_cwl_job(p.graph) /\ OneExtent(p.graph) /\ ~p.exc =>
    /\ p.pc \in {"start", "adapt", "parse", "prepare"} => p.loaded = <<>>
    /\ p.pc \in {"run", "teardown", "connect", "close", "publish", "exit", "exited"} => Computes(p)
    /\ p.pc \in {"teardown", "connect", "close", "publish", "exit", "exited"} => p.todo = <<>>
CellsInv == \A e \in Pods : Cells(pod[e])

IInv ==
  /\ TypeOK
  /\ ClustersInv
  /\ LossInv
  /\ ClearedInv
  /\ EndsInv
  /\ CellsInv
  /\ FailsForItsOwnReasons
=============================================================================
