------------------------------ MODULE SubGraphs ------------------------------
(***************************************************************************)
(* utils.py and prepare_graphs in executor.py: a process graph is run once  *)
(* for each cell of the grid over its bounding box.  A graph is the         *)
(* sequence of its nodes; a node's spatial_extent or bbox argument is an    *)
(* extent, Partial (a dictionary without all four sides), Null (it is there *)
(* and null) or None (it is not there).                                     *)
(***************************************************************************)
EXTENDS StacGrid, Sequences, FiniteSetsExt

CONSTANTS None, Null, Partial

ASSUME NoneAssumption == {None, Null, Partial} \cap Extents = {} /\ None \notin {Null, Partial}

\* "load": the process_id has "load_" in it; "cwl": run_cwl, or run_udf with EOAP-CWL.
Processes == {"load", "cwl", "other"}
Nodes     == [process : Processes, extent : Extents \cup {Partial, Null, None}]

LoadNodes(g)    == {i \in DOMAIN g : g[i].process = "load"}
NodesWith(g, S) == {i \in DOMAIN g : g[i].extent \in S}

is_cwl_job(g) == \E i \in DOMAIN g : g[i].process = "cwl"

\* The boxes get_pg_bounding_box may return: that of a load process (of several, the
\* one the graph parser puts first), null or not; without one, the first complete one of
\* any node.
pg_bounding_boxes(g) ==
  LET loads    == LoadNodes(g) \ NodesWith(g, {None})
      complete == NodesWith(g, Extents)
  IN  IF loads # {} THEN {g[i].extent : i \in loads}
      ELSE IF complete # {} THEN {g[Min(complete)].extent}
      ELSE {None}

\* The first load process gets the cell, whatever it had; without one, the first node
\* that has an extent of some kind.
derive_sub_graph(cell, g) ==
  LET dicts == NodesWith(g, Extents \cup {Partial})
      i     == Min(IF LoadNodes(g) # {} THEN LoadNodes(g) ELSE dicts)
  IN  IF LoadNodes(g) \cup dicts = {} THEN g ELSE [g EXCEPT ![i].extent = cell]

\* The graphs to run.  Each is derived from the dictionary that the one before it changed
\* in the same place, so as good as from the original; it is parsed at once, so that the
\* next one does not change it.
prepare_graphs(box, g) ==
  LET cells == set_grid_cells(box)
  IN  [n \in DOMAIN cells |-> derive_sub_graph(cells[n], g)]

\* The extents a graph's nodes load; None is all there is.
Loads(g) == {g[i].extent : i \in LoadNodes(g) \cup NodesWith(g, Extents \cup {Partial})}

\* The graph speaks of one place only: one node has an extent, and it is the load
\* process if there is one.
OneExtent(g) ==
  \E i \in NodesWith(g, Extents) :
    /\ NodesWith(g, Extents \cup {Partial}) = {i}
    /\ LoadNodes(g) \subseteq {i}
=============================================================================
