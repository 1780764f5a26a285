----------------------------- MODULE MCExecutors -----------------------------
\* Executors for TLC: boxes of none to four cells, graphs with none, one or two extents.
EXTENDS Executors, TLC

Box(lon, lat) == [x |-> [lo |-> 0, hi |-> lon], y |-> [lo |-> 0, hi |-> lat]]
Node(p, x)    == [process |-> p, extent |-> x]

\* The geodesic between the upper corners of a wide box is shorter than the walk due east,
\* and a walk has left the upper edge by the second column: southwards, or northwards for
\* the boxes that are 6 high.
GeodFwd(b, d) == IF b.y.hi = 6 THEN -(d \div 6) ELSE d \div 6
GeodInv(b)    == IF b.x.hi > 6 THEN b.x.hi - 1 ELSE b.x.hi

\* Cells of 3 m in units of half a metre: whole ones, a part, none at all.
OneBox    == {<<Node("load", Box(s[1], s[2])), Node("other", None)>> : s \in {<<6, 5>>, <<9, 12>>}}
UdpBox    == {<<Node("other", None), Node("other", Box(9, 6))>>}
NoArea    == {<<Node("load", Box(0, 6))>>}
TwoBoxes  == {<<Node("load", Box(9, 6)), Node("load", Box(6, 6))>>}
NoBox     == {<<Node("load", None)>>, <<Node("other", Partial)>>,
              <<Node("load", Null), Node("other", Box(6, 6))>>}
CwlGraphs == {<<Node("load", Box(9, 6)), Node("cwl", None)>>}
AllGraphs == OneBox \cup UdpBox \cup NoArea \cup TwoBoxes \cup NoBox \cup CwlGraphs

CONSTANTS e1, e2

GraphsOf == (e1 :> AllGraphs) @@ (e2 :> {<<Node("load", Box(6, 6))>>})

\* Everything may go wrong in e1; e2 may lose its cluster.
FaultsOf == (e1 :> {"setup", "raise", "hang", "closed", "gateway", "close", "kill"})
            @@ (e2 :> {"closed"})
=============================================================================
