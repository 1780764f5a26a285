---------------------------- MODULE CwlRunProofs ----------------------------
(***************************************************************************)
(* CwlRun, proved for graphs of any length, any trees and packages: that no *)
(* process mixes its files with those of another one, that every link leads *)
(* home, and that what is left is listed.                                   *)
(***************************************************************************)
EXTENDS CwlRunInv, TLAPS, SequenceTheorems, WellFoundedInduction

-----------------------------------------------------------------------------
(* Numbers, names and roots *)

\* The least of some numbers.
Before == {p \in Nat \X Nat : p[1] < p[2]}
LEMMA LeastIs ==
  ASSUME NEW S, S \subseteq Nat, S # {}
  PROVE  Min(S) \in S
  <1>1. OpToRel(<, Nat) = Before
    BY DEF OpToRel, Before
  <1>2. IsWellFoundedOn(Before, Nat)
    BY <1>1, NatLessThanWellFounded
  <1>3. PICK x \in S : \A y \in S : ~(<<y, x>> \in Before)
    BY <1>2, WFMin
  <1>4. ASSUME NEW y \in S PROVE x <= y
    <2>1. x \in Nat /\ y \in Nat /\ <<y, x>> \notin Before
      BY <1>3
    <2>2. ~(y < x)
      BY <2>1 DEF Before
    <2> QED
      BY <2>1, <2>2
  <1>5. \E m \in S : \A y \in S : m <= y
    BY <1>4
  <1>6. Min(S) = CHOOSE m \in S : \A y \in S : m <= y
    BY DEF Min
  <1> QED
    BY <1>5, <1>6

\* The greatest of some numbers, when it is known.
LEMMA GreatestIs ==
  ASSUME NEW S, S \subseteq Nat, NEW n \in S, \A m \in S : m <= n
  PROVE  Max(S) = n
  <1>1. n \in S /\ \A y \in S : n >= y
    OBVIOUS
  <1>2. ASSUME NEW x \in S, \A y \in S : x >= y PROVE x = n
    BY <1>1, <1>2
  <1> QED
    BY <1>1, <1>2 DEF Max

\* The greatest of some numbers up to a bound is one of them.
LEMMA GreatestIn ==
  ASSUME NEW k \in Nat, NEW S, S \subseteq 1 .. k, S # {}
  PROVE  Max(S) \in S
  <1>1. PICK D : D = {d \in Nat : k - d \in S}
    OBVIOUS
  <1>2. D \subseteq Nat /\ D # {}
    <2>1. PICK n \in S : TRUE
      OBVIOUS
    <2>2. k - n \in Nat /\ k - (k - n) = n
      BY <2>1
    <2> QED
      BY <1>1, <2>1, <2>2
  <1>3. OpToRel(<, Nat) = Before
    BY DEF OpToRel, Before
  <1>4. IsWellFoundedOn(Before, Nat)
    BY <1>3, NatLessThanWellFounded
  <1>5. PICK x \in D : \A y \in D : ~(<<y, x>> \in Before)
    BY <1>2, <1>4, WFMin
  <1>6. PICK n : n = k - x
    OBVIOUS
  <1>7. n \in S
    BY <1>1, <1>5, <1>6
  <1>8. ASSUME NEW m \in S PROVE m <= n
    <2>1. PICK y : y = k - m
      OBVIOUS
    <2>2. y \in Nat /\ k - y = m /\ x \in Nat
      BY <1>1, <1>5, <2>1
    <2>3. y \in D
      BY <1>1, <1>8, <2>2
    <2>4. ~(y < x)
      BY <1>5, <2>2, <2>3 DEF Before
    <2> QED
      BY <1>6, <2>1, <2>2, <2>4
  <1>9. S \subseteq Nat /\ \A m \in S : m <= n
    BY <1>8
  <1>10. Max(S) = n
    BY <1>7, <1>9, GreatestIs
  <1> QED
    BY <1>7, <1>10

\* A directory at the top.
LEMMA OneName == ASSUME NEW S, NEW d \in S PROVE <<d>> \in Seq(S)
  OBVIOUS

\* A root that is found is a file of the tree, at the top or in a directory at the top.
LEMMA RootIs ==
  ASSUME NEW T, find_stac_root(T) # None
  PROVE  LET root == find_stac_root(T) IN
         /\ root \in T /\ root = [dir |-> root.dir, name |-> root.name]
         /\ root.name \in ToSet(RootNames) /\ root.dir \in Seq(STRING)
  <1> DEFINE places == [k \in 1 .. Len(Dirs) + 1 |-> IF k = 1 THEN <<>> ELSE <<Dirs[k - 1]>>]
             found  == {k \in DOMAIN places : RootsIn(places[k], T) # {}}
             first  == places[Min(found)]
  <1>1. found # {} /\ find_stac_root(T) = [dir |-> first, name |-> RootNames[Min(RootsIn(first, T))]]
    BY DEF find_stac_root
  <1>2. found \subseteq Nat
    OBVIOUS
  <1>3. Min(found) \in found
    BY <1>1, <1>2, LeastIs
  <1>4. RootsIn(first, T) # {} /\ RootsIn(first, T) \subseteq Nat
    <2>1. DOMAIN RootNames \subseteq Nat
      BY DEF RootNames
    <2> QED
      BY <1>3, <2>1 DEF RootsIn
  <1>5. PICK k : k = Min(RootsIn(first, T))
    OBVIOUS
  <1>6. k \in DOMAIN RootNames /\ [dir |-> first, name |-> RootNames[k]] \in T
    BY <1>4, <1>5, LeastIs DEF RootsIn
  <1>7. first \in Seq(STRING)
    <2>1. PICK m : m = Min(found)
      OBVIOUS
    <2>2. m \in 1 .. Len(Dirs) + 1 /\ Len(Dirs) \in Nat /\ Dirs \in Seq(STRING)
      BY <1>3, <2>1, TreesAssumption
    <2>3. first = IF m = 1 THEN <<>> ELSE <<Dirs[m - 1]>>
      BY <2>1, <2>2
    <2>4. m # 1 => m - 1 \in 1 .. Len(Dirs)
      BY <2>2
    <2>5. m # 1 => Dirs[m - 1] \in STRING
      BY <2>2, <2>4
    <2>6. \A d \in STRING : <<d>> \in Seq(STRING)
      BY OneName
    <2> HIDE DEF first
    <2> QED
      <3>1. CASE m = 1
        <4>1. \A S : <<>> \in Seq(S)
          OBVIOUS
        <4> QED
          BY <2>3, <3>1, <4>1
      <3>2. CASE m # 1
        BY <2>3, <2>5, <2>6, <3>2
      <3> QED
        BY <3>1, <3>2
  <1> HIDE DEF first
  <1>8. find_stac_root(T) = [dir |-> first, name |-> RootNames[k]]
    BY <1>1, <1>5
  <1> QED
    BY <1>6, <1>7, <1>8 DEF ToSet

\* The graph of a job and the numbers of its processes.
LEMMA GraphFacts ==
  ASSUME TypeOK
  PROVE  /\ graph \in Seq({"cwl", "validate", "save"}) /\ Len(graph) \in Nat
         /\ DOMAIN graph = 1 .. Len(graph) /\ at \in Nat /\ at <= Len(graph)
         /\ DOMAIN graph \subseteq DOMAIN Packages
  <1>1. graph \in Seq({"cwl", "validate", "save"}) /\ Len(graph) <= Len(Packages)
    BY GraphsAssumption DEF TypeOK
  <1>2. Len(graph) \in Nat /\ DOMAIN graph = 1 .. Len(graph)
    BY <1>1
  <1>3. at \in Nat /\ at <= Len(graph)
    BY <1>2 DEF TypeOK
  <1>4. DOMAIN Packages = 1 .. Len(Packages) /\ Len(Packages) \in Nat
    BY PackagesAssumption
  <1> QED
    BY <1>1, <1>2, <1>3, <1>4

\* Files of trees and packages.
LEMMA FileFacts ==
  ASSUME NEW T, T \in Trees \cup {{}} \/ (\E n \in DOMAIN Packages : T = Packages[n]), NEW f \in T
  PROVE  /\ f \in Files /\ f.dir \in Seq(STRING) /\ f.name \in STRING /\ f.name \in Names
         /\ f = [dir |-> f.dir, name |-> f.name]
  <1>1. T \in Trees \cup ToSet(Packages)
    BY DEF ToSet
  <1>2. f \in Files
    BY <1>1, TreesAssumption, PackagesAssumption DEF ToSet
  <1>3. f.name \in Names
    BY <1>1 DEF Names
  <1> QED
    BY <1>2, <1>3 DEF Files

LEMMA NamesAreStrings == Names \subseteq STRING
  BY TreesAssumption, PackagesAssumption DEF Names, ToSet, Files

LEMMA RootNamesAre == ToSet(RootNames) = {"catalog.json", "catalogue.json", "collection.json"}
  <1>1. DOMAIN RootNames = {1, 2, 3}
    BY DEF RootNames
  <1> QED
    BY <1>1 DEF ToSet, RootNames

\* Where a process is when it is at work, and when its job has stopped.
AtWork  == pc \in {"calrissian", "collect", "rmtree"} \cup Staging
Stopped == pc \in {"failed", "killed"}

LEMMA WorkFacts ==
  ASSUME TypeOK, StageInv, AtWork
  PROVE  /\ at \in DOMAIN graph /\ graph[at] = "cwl" /\ at \in DOMAIN out /\ at \in 1 .. Len(graph)
         /\ out[at] \in Trees \cup {{}} /\ out[at] \subseteq Files /\ at \in Nat /\ halt = None
  <1>1. at \in DOMAIN graph /\ graph[at] = "cwl"
    BY DEF StageInv, AtWork
  <1>2. at \in 1 .. Len(graph) /\ at \in Nat
    BY <1>1, GraphFacts
  <1>3. out[at] \in Trees \cup {{}}
    BY <1>2 DEF TypeOK
  <1>4. out[at] \subseteq Files
    BY <1>3, TreesAssumption
  <1>5. halt = None
    BY DEF StageInv, AtWork, Staging
  <1> QED
    BY <1>1, <1>2, <1>3, <1>4, <1>5 DEF TypeOK

-----------------------------------------------------------------------------
(* Type correctness *)

\* What Made makes of the files of a tree or a package.
LEMMA MadeType ==
  ASSUME NEW f, f.dir \in Seq(STRING), f.name \in Names, NEW n \in Nat
  PROVE  Made(f, n) \in Stored
  BY DEF Made, Stored, Numbers

LEMMA MadeIs ==
  ASSUME NEW f \in Files, NEW n
  PROVE  Path(Made(f, n)) = f /\ Made(f, n).by = n /\ Made(f, n).dir = f.dir /\ Made(f, n).name = f.name
  BY DEF Path, Made, Files

\* What is below a directory, without it.
LEMMA WithoutType ==
  ASSUME NEW d \in Seq(STRING), NEW e \in Seq(STRING)
  PROVE  Without(d, e) \in Seq(STRING)
  <1>1. PICK m, n : m = Len(d) + 1 /\ n = Len(e)
    OBVIOUS
  <1>2. m \in Int /\ n \in Int /\ m >= 1
    BY <1>1
  <1>3. \A i \in m .. n : e[i] \in STRING
    BY <1>1, <1>2
  <1>4. SubSeq(e, m, n) \in Seq(STRING)
    BY <1>2, <1>3, SubSeqProperties
  <1> QED
    BY <1>1, <1>4 DEF Without

\* The names that files and items have.
LEMMA NameFacts ==
  /\ Features \subseteq ItemNames
  /\ \A i \in Features : AssetOf[i] \in Files /\ AssetOf[i].name \notin Features \cup ToSet(RootNames)
  /\ \A h \in Stored : h = Made(Path(h), h.by) /\ Path(h) \in Files /\ ItemFileOf[h.name] \in ItemNames
  <1>1. Features \subseteq ItemNames
    BY DEF ItemNames
  <1>2. \A i \in Features : AssetOf[i] \in Files /\ AssetOf[i].name \notin Features \cup ToSet(RootNames)
    BY ItemsAssumption
  <1>3. ASSUME NEW h \in Stored
        PROVE  h = Made(Path(h), h.by) /\ Path(h) \in Files /\ ItemFileOf[h.name] \in ItemNames
    <2>1. h.dir \in Seq(STRING) /\ h.name \in Names /\ h = [dir |-> h.dir, name |-> h.name, by |-> h.by]
      BY DEF Stored
    <2>2. h.name \in STRING
      BY <2>1, NamesAreStrings
    <2> QED
      BY <2>1, <2>2 DEF Made, Path, Files, ItemNames
  <1> QED
    BY <1>1, <1>2, <1>3

\* What an item is that a process brings.
LEMMA BroughtIs ==
  ASSUME NEW i \in Features, NEW n \in Nat, NEW w \in {"relative", "STAC", "s3"}
  PROVE  LET a == Brought(i, n, w) IN
         a \in Assets /\ a # None /\ a # Torn /\ a.by = n /\ a.file = AssetOf[i] /\ a.at = w
  <1>1. Brought(i, n, w) \in Assets
    BY NameFacts DEF Brought, Assets, Numbers
  <1> QED
    BY <1>1, NoneAssumption DEF Brought

\* What an item is that create_cwl_stac writes for a file.
LEMMA WrittenIs ==
  ASSUME NEW f \in Stored
  PROVE  LET a == [by |-> f.by, file |-> Path(f), at |-> "RESULTS"] IN a \in Assets /\ a # None /\ a # Torn
  <1>1. [by |-> f.by, file |-> Path(f), at |-> "RESULTS"] \in Assets
    BY NameFacts DEF Assets, Stored
  <1> QED
    BY <1>1, NoneAssumption

LEMMA DocIs ==
  ASSUME NEW m \in ToSet(RootNames), NEW n \in Nat
  PROVE  LET d == [by |-> n, name |-> m] IN d \in Roots /\ d # None /\ d # Torn
  <1>1. [by |-> n, name |-> m] \in Roots
    BY DEF Roots, Numbers
  <1> QED
    BY <1>1, NoneAssumption

LEMMA CliDocIs == CliDoc \in Roots /\ CliDoc # None /\ CliDoc # Torn /\ CliDoc.by = 0
  BY RootNamesAre, DocIs DEF CliDoc

\* The processes before the last.
LEMMA BetweenStep ==
  ASSUME TypeOK, StageInv, WorkDirGone, SaveResult \/ Begin \/ Calrissian
  PROVE  TypeOK' /\ StageInv' /\ WorkDirGone'
  <1>0. /\ graph \in Seq({"cwl", "validate", "save"}) /\ Len(graph) \in Nat
        /\ DOMAIN graph = 1 .. Len(graph) /\ at \in Nat /\ at <= Len(graph)
        /\ DOMAIN graph \subseteq DOMAIN Packages
    BY GraphFacts
  <1>1. CASE SaveResult
    <2>1. /\ pc = "next" /\ at < Len(graph) /\ at' = at + 1 /\ pc' = pc
          /\ results' = {h \in results : Path(h) \notin Packages[at + 1]}
                          \cup {Made(f, at + 1) : f \in Packages[at + 1]}
          /\ UNCHANGED <<graph, pc, halt, out, left, work, stac, doc, items, bucket>>
      BY <1>1 DEF SaveResult, stacVars
    <2>2. at + 1 \in Nat /\ at' \in 0 .. Len(graph) /\ at + 1 \in DOMAIN Packages
      BY <1>0, <2>1
    <2>3. ASSUME NEW f \in Packages[at + 1] PROVE Made(f, at + 1) \in Stored
      BY <2>2, FileFacts, MadeType
    <2>4. results' \subseteq Stored
      BY <2>1, <2>3 DEF TypeOK
    <2>5. TypeOK'
      BY <2>1, <2>2, <2>4 DEF TypeOK
    <2> QED
      BY <2>1, <2>5 DEF StageInv, Staging, WorkDirGone
  <1>2. CASE Begin
    <2>1. /\ pc = "next" /\ at < Len(graph) /\ graph[at + 1] # "save" /\ at' = at + 1
          /\ \/ graph[at + 1] = "validate" /\ UNCHANGED <<pc, work>>
             \/ graph[at + 1] # "validate" /\ pc' = "calrissian" /\ work' = {at + 1}
          /\ UNCHANGED <<graph, halt, out, left, results, stac, doc, items, bucket>>
      BY <1>2 DEF Begin, stacVars
    <2>2. at + 1 \in 1 .. Len(graph) /\ at' \in 0 .. Len(graph)
      BY <1>0, <2>1
    <2>3. graph[at + 1] \in {"cwl", "validate", "save"}
      BY <1>0, <2>2
    <2>4. pc' \in Steps /\ halt = None /\ work' \subseteq 1 .. Len(graph)
      BY <2>1, <2>2 DEF StageInv, Steps, TypeOK
    <2>5. TypeOK'
      BY <2>1, <2>2, <2>4 DEF TypeOK
    <2>6. StageInv'
      BY <1>0, <2>1, <2>2, <2>3, <2>4 DEF StageInv, Staging
    <2> QED
      BY <2>1, <2>5, <2>6 DEF WorkDirGone
  <1>3. CASE Calrissian
    <2>1. PICK T \in Trees :
            /\ pc = "calrissian" /\ out' = [out EXCEPT ![at] = T]
            /\ \/ find_stac_root(T) = None /\ pc' = "collect" /\ left' = T
               \/ find_stac_root(T) # None /\ pc' = "rmtree" /\ left' = {}
            /\ UNCHANGED <<graph, at, halt, work, results, stac, doc, items, bucket>>
      BY <1>3 DEF Calrissian, stacVars
    <2>2. /\ at \in DOMAIN graph /\ graph[at] = "cwl" /\ at \in 1 .. Len(graph) /\ halt = None
          /\ T \subseteq Files
      BY <2>1, WorkFacts, TreesAssumption DEF AtWork
    <2>3. out' \in [1 .. Len(graph) -> Trees \cup {{}}] /\ out'[at] = T
      BY <2>1, <2>2 DEF TypeOK
    <2>4. Root' = find_stac_root(T)
      BY <2>1, <2>3 DEF Root
    <2>5. pc' \in Steps /\ left' \subseteq IF {pc', halt'} \cap {"collect", "copytree"} # {} THEN Files ELSE ItemNames
      <3>1. CASE pc' = "collect"
        BY <2>1, <2>2, <3>1 DEF Steps
      <3>2. CASE pc' = "rmtree"
        BY <2>1, <2>2, <3>2 DEF Steps
      <3> QED
        BY <2>1, <3>1, <3>2
    <2>6. TypeOK'
      BY <2>1, <2>3, <2>5 DEF TypeOK
    <2>7. StageInv'
      BY <2>1, <2>2, <2>3, <2>4 DEF StageInv, Staging
    <2> QED
      BY <2>1, <2>6, <2>7 DEF WorkDirGone
  <1> QED
    BY <1>1, <1>2, <1>3

\* The steps of a process without a STAC root, of one with it, of cli.py, and an end.
CollectSteps == (\E f \in left : CollectFile(f) \/ DirectoryExists(f)) \/ Collected
ItemSteps(i) == MoveItem(i) \/ NotMoved(i) \/ RewriteHref(i) \/ Upload(i) \/ NotUploaded(i)
StacSteps    == \/ RemoveOldStac \/ OldStacRemoved \/ Rename \/ Moved \/ Rewritten \/ UploadStops \/ Uploaded
                \/ (\E f \in left : CopyTree(f)) \/ (\E i \in left : ItemSteps(i))
CliSteps     == Undescribed \/ Describe \/ WriteDoc \/ Exit \/ GiveUp \/ (\E i \in left : WriteItem(i))
Stops        == Raises \/ Killed \/ NoObject
LEMMA NextIs ==
  ASSUME [Next]_vars
  PROVE  \/ UNCHANGED vars \/ SaveResult \/ Begin \/ Calrissian
         \/ CollectSteps \/ StacSteps \/ CliSteps \/ Stops
  BY DEF Next, CollectSteps, StacSteps, ItemSteps, CliSteps, Stops

\* A step of copytree.
LEMMA CopyIs ==
  ASSUME NEW f, CopyTree(f)
  PROVE  /\ pc = "copytree" /\ f \in left /\ left' = left \ {f}
         /\ IF IsItem(f) THEN items' = [items EXCEPT ![f.name] = Brought(f.name, at, "relative")] /\ stac' = stac
            ELSE stac' = stac \cup {Made(To(f), at)} /\ items' = items
         /\ UNCHANGED <<graph, at, pc, halt, out, work, results, doc, bucket>>
  BY DEF CopyTree, To, IsItem

\* What the steps of a group leave alone.
LEMMA CollectFrame ==
  ASSUME CollectSteps
  PROVE  /\ pc = "collect" /\ UNCHANGED <<graph, at, out, stac, doc, items, bucket>>
         /\ \/ \E f \in left : /\ Taken(f) = {} /\ left' = left \ {f}
                               /\ results' = {g \in results : Path(g) # f} \cup {Made(f, at)}
                               /\ UNCHANGED <<pc, halt, work>>
            \/ pc' = "failed" /\ halt' = pc /\ work' = {} /\ UNCHANGED <<left, results>>
            \/ pc' = "next" /\ left = {} /\ work' = {} /\ UNCHANGED <<halt, left, results>>
  BY DEF CollectSteps, CollectFile, DirectoryExists, Collected, stacVars

LEMMA StacFrame ==
  ASSUME StacSteps
  PROVE  /\ pc \in {"rmtree"} \cup Staging /\ UNCHANGED <<graph, at, halt, out, results>>
         /\ \/ pc' \in {"rmtree"} \cup Staging /\ work' = work
            \/ pc' = "next" /\ work' = {} /\ left' = {}
         /\ pc' # pc => \/ pc = "rmtree" /\ pc' = "copytree"
                        \/ pc = "copytree" /\ pc' = "move"
                        \/ pc = "move" /\ pc' = "rewrite"
                        \/ pc = "rewrite" /\ pc' \in {"upload", "next"}
                        \/ pc = "upload" /\ pc' = "next"
  <1>1. CASE RemoveOldStac
    BY <1>1 DEF RemoveOldStac, Staging
  <1>4. CASE OldStacRemoved \/ Rename \/ Moved
    <2>1. CASE OldStacRemoved
      BY <2>1 DEF OldStacRemoved, stacVars, Staging
    <2>2. CASE Rename
      BY <2>2 DEF Rename, Staging
    <2>3. CASE Moved
      BY <2>3 DEF Moved, stacVars, Staging
    <2> QED
      BY <1>4, <2>1, <2>2, <2>3
  <1>5. CASE \E f \in left : CopyTree(f)
    <2>1. PICK f \in left : CopyTree(f)
      BY <1>5
    <2> QED
      BY <2>1, CopyIs DEF Staging
  <1>2. CASE Rewritten \/ UploadStops \/ Uploaded
    BY <1>2 DEF Rewritten, UploadStops, Uploaded, stacVars, Staging
  <1>3. CASE \E i \in left : ItemSteps(i)
    BY <1>3 DEF ItemSteps, MoveItem, NotMoved, RewriteHref, Upload, NotUploaded, stacVars, Staging
  <1> QED
    BY <1>1, <1>2, <1>3, <1>4, <1>5 DEF StacSteps

LEMMA CliFrame ==
  ASSUME CliSteps
  PROVE  /\ (AllDone /\ pc' \in {"exited", "describe"}) \/ (pc = "describe" /\ pc' \in Behind)
         /\ UNCHANGED <<graph, at, halt, out, work, results, stac, bucket>>
         /\ pc = "next" => UNCHANGED <<doc, items>>
  BY DEF CliSteps, Undescribed, Describe, WriteDoc, Exit, GiveUp, WriteItem, AllDone, Behind, stacVars

LEMMA StopFrame ==
  ASSUME Stops
  PROVE  /\ ~Ended /\ pc' \in {"failed", "killed"} /\ halt' = pc
         /\ work' \subseteq work /\ (pc' = "failed" => work' = {} \/ (pc = "next" /\ work' = work))
         /\ UNCHANGED <<graph, at, out, left, results, stac, doc, items, bucket>>
  <1>1. CASE Raises
    BY <1>1 DEF Raises, Ended, stacVars
  <1>2. CASE Killed
    BY <1>2 DEF Killed, Ended, stacVars
  <1>3. CASE NoObject
    BY <1>3 DEF NoObject, AllDone, Ended, stacVars
  <1> QED
    BY <1>1, <1>2, <1>3 DEF Stops

LEMMA CollectStep ==
  ASSUME TypeOK, StageInv, WorkDirGone, CollectSteps
  PROVE  TypeOK' /\ StageInv' /\ WorkDirGone'
  <1>1. /\ pc = "collect" /\ UNCHANGED <<graph, at, out, stac, doc, items, bucket>>
        /\ \/ \E f \in left : /\ Taken(f) = {} /\ left' = left \ {f}
                              /\ results' = {g \in results : Path(g) # f} \cup {Made(f, at)}
                              /\ UNCHANGED <<pc, halt, work>>
           \/ pc' = "failed" /\ halt' = pc /\ work' = {} /\ UNCHANGED <<left, results>>
           \/ pc' = "next" /\ left = {} /\ work' = {} /\ UNCHANGED <<halt, left, results>>
    BY CollectFrame
  <1>2. /\ at \in 1 .. Len(graph) /\ out[at] \in Trees \cup {{}} /\ at \in Nat /\ at \in DOMAIN graph
        /\ graph[at] = "cwl" /\ halt = None /\ out[at] \subseteq Files
    BY <1>1, WorkFacts DEF AtWork
  <1>3. left \subseteq out[at] /\ Root' = Root /\ Root = None
    BY <1>1 DEF StageInv, Root
  <1>4. CASE \E f \in left : /\ Taken(f) = {} /\ left' = left \ {f}
                             /\ results' = {g \in results : Path(g) # f} \cup {Made(f, at)}
                             /\ UNCHANGED <<pc, halt, work>>
    <2>1. PICK f \in left : /\ left' = left \ {f}
                            /\ results' = {g \in results : Path(g) # f} \cup {Made(f, at)}
                            /\ UNCHANGED <<pc, halt, work>>
      BY <1>4
    <2>2. Made(f, at) \in Stored
      BY <1>2, <1>3, FileFacts, MadeType
    <2>3. TypeOK'
      BY <1>1, <2>1, <2>2 DEF TypeOK
    <2> QED
      BY <1>1, <1>2, <1>3, <2>1, <2>3 DEF StageInv, Staging, WorkDirGone
  <1>5. CASE pc' = "failed" /\ halt' = pc /\ work' = {} /\ UNCHANGED <<left, results>>
    <2>1. TypeOK'
      BY <1>1, <1>2, <1>3, <1>5 DEF TypeOK, Steps
    <2> QED
      BY <1>5, <2>1 DEF StageInv, Staging, WorkDirGone
  <1>6. CASE pc' = "next" /\ left = {} /\ work' = {} /\ UNCHANGED <<halt, left, results>>
    <2>1. TypeOK'
      BY <1>1, <1>6 DEF TypeOK, Steps
    <2> QED
      BY <1>2, <1>6, <2>1 DEF StageInv, Staging, WorkDirGone
  <1> QED
    BY <1>1, <1>4, <1>5, <1>6

\* A file that copytree copies.
LEMMA CopiedType ==
  ASSUME TypeOK, StageInv, AtWork, Root # None, NEW f \in out[at]
  PROVE  To(f).dir \in Seq(STRING) /\ To(f).name = f.name /\ f.name \in Names /\ To(f) \in Files
         /\ To(f).dir = Without(Root.dir, f.dir)
  <1>1. f \in Files /\ f.dir \in Seq(STRING) /\ f.name \in Names
    BY WorkFacts, FileFacts
  <1>2. Root.dir \in Seq(STRING)
    BY RootIs DEF Root
  <1>3. PICK w : w = Without(Root.dir, f.dir)
    OBVIOUS
  <1>4. w \in Seq(STRING)
    BY <1>1, <1>2, <1>3, WithoutType
  <1>5. PICK g : g = [f EXCEPT !.dir = w]
    OBVIOUS
  <1>6. g.dir = w /\ g.name = f.name /\ g \in Files
    BY <1>1, <1>4, <1>5 DEF Files
  <1>7. To(f) = g
    BY <1>3, <1>5 DEF To
  <1> QED
    BY <1>1, <1>3, <1>4, <1>6, <1>7

LEMMA StacStep ==
  ASSUME TypeOK, StageInv, WorkDirGone, StacSteps
  PROVE  TypeOK' /\ StageInv' /\ WorkDirGone'
  <1>0. /\ pc \in {"rmtree"} \cup Staging /\ UNCHANGED <<graph, at, halt, out, results>>
        /\ \/ pc' \in {"rmtree"} \cup Staging /\ work' = work
           \/ pc' = "next" /\ work' = {} /\ left' = {}
    BY StacFrame
  <1>1. /\ at \in 1 .. Len(graph) /\ at \in Nat /\ at \in DOMAIN graph /\ graph[at] = "cwl" /\ halt = None
        /\ out[at] \subseteq Files
    BY <1>0, WorkFacts DEF AtWork
  <1>2. Root' = Root /\ Root # None
    BY <1>0 DEF Root, StageInv
  <1>3. Root.name \in ToSet(RootNames)
    BY <1>2, RootIs DEF Root
  <1>4. \A i \in Features, w \in {"relative", "STAC", "s3"} : Brought(i, at, w) \in Assets
    BY <1>1, BroughtIs
  <1>5. /\ stac' \subseteq Stored /\ doc' \in Roots \cup {Torn, None}
        /\ items' \in [ItemNames -> Assets \cup {Torn, None}] /\ bucket' \in [Names -> Stored \cup {None}]
    <2>0. /\ stac \subseteq Stored /\ doc \in Roots \cup {Torn, None}
          /\ items \in [ItemNames -> Assets \cup {Torn, None}] /\ bucket \in [Names -> Stored \cup {None}]
      BY DEF TypeOK
    <2>1. CASE RemoveOldStac
      BY <2>0, <2>1 DEF RemoveOldStac
    <2>2. CASE OldStacRemoved \/ Moved \/ Rewritten \/ UploadStops \/ Uploaded
      BY <2>0, <2>2 DEF OldStacRemoved, Moved, Rewritten, UploadStops, Uploaded, stacVars
    <2>3. CASE Rename
      <3>1. [by |-> at, name |-> Root.name] \in Roots
        BY <1>1, <1>3, DocIs
      <3> QED
        BY <2>0, <2>3, <3>1 DEF Rename
    <2>4. CASE \E f \in left : CopyTree(f)
      <3>1. PICK f \in left : CopyTree(f)
        BY <2>4
      <3>2. f \in out[at]
        BY <3>1 DEF CopyTree, StageInv
      <3>3. Made(To(f), at) \in Stored
        BY <1>0, <1>1, <1>2, <3>2, CopiedType, MadeType DEF AtWork
      <3>4. IsItem(f) => Brought(f.name, at, "relative") \in Assets
        BY <1>4 DEF IsItem
      <3> QED
        BY <2>0, <3>1, <3>3, <3>4, CopyIs
    <2>5. CASE \E i \in left : ItemSteps(i)
      <3>1. PICK i \in left : ItemSteps(i)
        BY <2>5
      <3>2. pc \in {"move", "rewrite", "upload"}
        BY <3>1 DEF ItemSteps, MoveItem, NotMoved, RewriteHref, Upload, NotUploaded
      <3>3. i \in Features /\ AssetOf[i] \in Files
        BY <3>1, <3>2, NameFacts DEF StageInv
      <3>4. AssetOf[i].name \in Names => Made(AssetOf[i], at) \in Stored
        BY <1>1, <3>3, MadeType DEF Files
      <3>5. CASE MoveItem(i) \/ NotMoved(i) \/ NotUploaded(i)
        BY <1>4, <2>0, <3>3, <3>5 DEF MoveItem, NotMoved, NotUploaded, stacVars
      <3>6. CASE RewriteHref(i)
        BY <1>4, <2>0, <3>3, <3>6 DEF RewriteHref
      <3>7. CASE Upload(i)
        BY <1>4, <2>0, <3>3, <3>4, <3>7 DEF Upload
      <3> QED
        BY <3>1, <3>5, <3>6, <3>7 DEF ItemSteps
    <2> QED
      BY <2>1, <2>2, <2>3, <2>4, <2>5 DEF StacSteps
  <1>6. /\ pc' = "copytree" => left' \subseteq out[at]
        /\ pc' \in {"rmtree", "move", "rewrite", "upload"} => left' \subseteq ItemNames
        /\ pc' \in {"move", "rewrite", "upload"} => left' \subseteq Features
    <2>1. CASE RemoveOldStac
      BY <1>1, <2>1, NoneAssumption DEF RemoveOldStac, TypeOK
    <2>2. CASE OldStacRemoved \/ Rename \/ Moved \/ Rewritten
      BY <2>2, NameFacts DEF OldStacRemoved, Rename, Moved, Rewritten, Under
    <2>3. CASE UploadStops \/ Uploaded
      BY <2>3 DEF UploadStops, Uploaded
    <2>4. CASE \E f \in left : CopyTree(f)
      BY <2>4 DEF CopyTree, StageInv
    <2>5. CASE \E i \in left : ItemSteps(i)
      BY <2>5, NameFacts DEF ItemSteps, MoveItem, NotMoved, RewriteHref, Upload, NotUploaded, StageInv
    <2> QED
      BY <2>1, <2>2, <2>3, <2>4, <2>5 DEF StacSteps
  <1>7. left' \subseteq IF {pc', halt'} \cap {"collect", "copytree"} # {} THEN Files ELSE ItemNames
    <2>1. halt' = None /\ None # "collect" /\ None # "copytree"
      BY <1>0, <1>1, NoneAssumption DEF Steps
    <2> QED
      BY <1>0, <1>1, <1>6, <2>1 DEF Staging
  <1>8. TypeOK'
    <2>1. pc' \in Steps /\ work' \subseteq 1 .. Len(graph)
      BY <1>0 DEF TypeOK, Steps, Staging
    <2> QED
      BY <1>0, <1>5, <1>7, <2>1 DEF TypeOK
  <1>9. StageInv'
    BY <1>0, <1>1, <1>2, <1>6 DEF StageInv, Staging
  <1>10. WorkDirGone'
    BY <1>0 DEF WorkDirGone, Staging
  <1> QED
    BY <1>8, <1>9, <1>10

\* Behind the processes.
LEMMA CliStep ==
  ASSUME TypeOK, StageInv, WorkDirGone, CliSteps
  PROVE  TypeOK' /\ StageInv' /\ WorkDirGone'
  <1>0. /\ (AllDone /\ pc' \in {"exited", "describe"}) \/ (pc = "describe" /\ pc' \in Behind)
        /\ UNCHANGED <<graph, at, halt, out, work, results, stac, bucket>>
    BY CliFrame
  <1>1. halt = None /\ None # "collect" /\ None # "copytree" /\ pc \in {"next", "describe"}
    BY <1>0, NoneAssumption DEF StageInv, AllDone, Steps
  <1>2. left \subseteq ItemNames
    BY <1>1 DEF TypeOK
  <1>3. \A f \in results : f \in Stored
    BY DEF TypeOK
  <1>4. /\ doc' \in Roots \cup {Torn, None} /\ items' \in [ItemNames -> Assets \cup {Torn, None}]
        /\ left' \subseteq ItemNames
    <2>0. doc \in Roots \cup {Torn, None} /\ items \in [ItemNames -> Assets \cup {Torn, None}]
      BY DEF TypeOK
    <2>1. CASE Undescribed \/ Exit \/ GiveUp
      BY <1>2, <2>0, <2>1 DEF Undescribed, Exit, GiveUp, stacVars
    <2>2. CASE Describe
      <3>1. \A f \in results : ItemFileOf[f.name] \in ItemNames
        BY <1>3, NameFacts
      <3> QED
        BY <2>0, <2>2, <3>1 DEF Describe, stacVars
    <2>3. CASE WriteDoc
      BY <1>2, <2>0, <2>3, CliDocIs DEF WriteDoc
    <2>4. CASE \E i \in left : WriteItem(i)
      <3>1. PICK i \in left : WriteItem(i)
        BY <2>4
      <3>2. left' \subseteq ItemNames /\ doc' = doc
        BY <1>2, <3>1 DEF WriteItem
      <3>3. CASE items' = [items EXCEPT ![i] = Torn]
        BY <2>0, <3>2, <3>3
      <3>4. CASE \E f \in results : items' = [items EXCEPT ![i] = [by |-> f.by, file |-> Path(f), at |-> "RESULTS"]]
        <4>1. PICK f \in results : items' = [items EXCEPT ![i] = [by |-> f.by, file |-> Path(f), at |-> "RESULTS"]]
          BY <3>4
        <4>2. [by |-> f.by, file |-> Path(f), at |-> "RESULTS"] \in Assets
          BY <1>3, WrittenIs
        <4> QED
          BY <2>0, <3>2, <4>1, <4>2
      <3> QED
        BY <3>1, <3>3, <3>4 DEF WriteItem
    <2> QED
      BY <2>1, <2>2, <2>3, <2>4 DEF CliSteps
  <1>5. TypeOK'
    <2>1. pc' \in Steps
      BY <1>0 DEF Steps, Behind
    <2> QED
      BY <1>0, <1>1, <1>4, <2>1 DEF TypeOK, AllDone, Behind
  <1>6. StageInv' /\ WorkDirGone'
    BY <1>0, <1>1 DEF StageInv, WorkDirGone, AllDone, Behind, Staging
  <1> QED
    BY <1>5, <1>6

LEMMA StopStep ==
  ASSUME TypeOK, StageInv, WorkDirGone, Stops
  PROVE  TypeOK' /\ StageInv' /\ WorkDirGone'
  <1>1. /\ ~Ended /\ pc' \in {"failed", "killed"} /\ halt' = pc
        /\ work' \subseteq work /\ (pc' = "failed" => work' = {} \/ (pc = "next" /\ work' = work))
        /\ UNCHANGED <<graph, at, out, left, results, stac, doc, items, bucket>>
    BY StopFrame
  <1>2. halt = None /\ None # "collect" /\ None # "copytree"
    BY <1>1, NoneAssumption DEF StageInv, Ended, Steps
  <1>3. TypeOK'
    <2>1. pc' \in Steps /\ halt' \in Steps
      BY <1>1 DEF Steps, TypeOK
    <2>2. ({pc', halt'} \cap {"collect", "copytree"} # {}) <=> ({pc, halt} \cap {"collect", "copytree"} # {})
      BY <1>1, <1>2
    <2>3. left' \subseteq IF {pc', halt'} \cap {"collect", "copytree"} # {} THEN Files ELSE ItemNames
      BY <1>1, <2>2 DEF TypeOK
    <2> QED
      BY <1>1, <2>1, <2>3 DEF TypeOK
  <1> QED
    BY <1>1, <1>3 DEF StageInv, WorkDirGone, Staging

LEMMA TypeStep ==
  ASSUME TypeOK, StageInv, WorkDirGone, [Next]_vars
  PROVE  TypeOK' /\ StageInv' /\ WorkDirGone'
  <1>1. CASE UNCHANGED vars
    BY <1>1 DEF vars, stacVars, TypeOK, StageInv, WorkDirGone, Root
  <1> QED
    BY <1>1, BetweenStep, CollectStep, StacStep, CliStep, StopStep, NextIs

-----------------------------------------------------------------------------
(* The processes that are done *)

\* A step leaves what is done as it is, and has one process done more when it was at work
\* and the next one is due.
OneMore == /\ AtWork /\ pc' = "next" /\ at' = at /\ out' = out
           /\ Done' = Done \cup {at} /\ \A n \in Done : n < at
LEMMA DoneStep ==
  ASSUME Base, [Next]_vars, ~Stopped'
  PROVE  /\ ~Stopped /\ graph' = graph /\ at \in Nat /\ at' \in {at, at + 1}
         /\ Done \subseteq 1 .. at /\ Done \subseteq DOMAIN out
         /\ \A n \in Done : out'[n] = out[n] /\ graph[n] = "cwl"
         /\ Done' = Done \/ OneMore
  <1>0. /\ graph \in Seq({"cwl", "validate", "save"}) /\ Len(graph) \in Nat
        /\ DOMAIN graph = 1 .. Len(graph) /\ at \in Nat /\ at <= Len(graph)
        /\ DOMAIN out = 1 .. Len(graph)
    BY GraphFacts DEF Base, TypeOK
  <1>1. Done \subseteq 1 .. at /\ Done \subseteq DOMAIN out /\ \A n \in Done : graph[n] = "cwl"
    BY <1>0 DEF Done
  <1>2. CASE UNCHANGED vars
    BY <1>0, <1>1, <1>2 DEF vars, Done, Stopped
  <1>3. CASE SaveResult \/ Begin
    <2>1. /\ pc = "next" /\ at < Len(graph) /\ at' = at + 1 /\ UNCHANGED <<graph, out>>
          /\ \/ graph[at + 1] # "cwl" /\ pc' = pc
             \/ pc' = "calrissian"
      <3>1. CASE SaveResult
        BY <3>1 DEF SaveResult
      <3>2. CASE Begin
        BY <3>2 DEF Begin
      <3> QED
        BY <1>3, <3>1, <3>2
    <2>2. Done = {n \in 1 .. at : graph[n] = "cwl"}
      BY <2>1 DEF Done
    <2>3. Done' = {n \in 1 .. at + 1 : graph[n] = "cwl"
                                       /\ (n < at + 1 \/ pc' \in {"next", "describe", "exited", "gave_up"})}
      BY <2>1 DEF Done
    <2>4. Done' = Done
      <3>1. CASE graph[at + 1] # "cwl" /\ pc' = pc
        BY <1>0, <2>1, <2>2, <2>3, <3>1
      <3>2. CASE pc' = "calrissian"
        BY <1>0, <2>2, <2>3, <3>2
      <3> QED
        BY <2>1, <3>1, <3>2
    <2> QED
      BY <1>0, <1>1, <2>1, <2>4 DEF Stopped
  <1>4. CASE Calrissian
    <2>1. PICK T : pc = "calrissian" /\ out' = [out EXCEPT ![at] = T] /\ pc' \in {"collect", "rmtree"}
                   /\ UNCHANGED <<graph, at>>
      BY <1>4 DEF Calrissian
    <2>2. Done' = Done /\ \A n \in Done : n < at
      BY <2>1 DEF Done
    <2>3. \A n \in Done : out'[n] = out[n]
      BY <1>0, <1>1, <2>1, <2>2
    <2> QED
      BY <1>0, <1>1, <2>1, <2>2, <2>3 DEF Stopped
  <1>5. CASE /\ AtWork /\ pc # "calrissian" /\ UNCHANGED <<graph, at, out>>
             /\ pc' \in {"collect", "rmtree", "next"} \cup Staging
    <2>1. at \in 1 .. at /\ graph[at] = "cwl"
      <3>1. at \in 1 .. Len(graph) /\ graph[at] = "cwl"
        BY <1>5, WorkFacts DEF Base
      <3> QED
        BY <1>0, <3>1
    <2>2. Done = {n \in 1 .. at : graph[n] = "cwl" /\ n < at}
      BY <1>5 DEF Done, AtWork, Staging
    <2>3. CASE pc' = "next"
      <3>1. Done' = {n \in 1 .. at : graph[n] = "cwl"}
        BY <1>5, <2>3 DEF Done
      <3>2. Done' = Done \cup {at}
        BY <1>0, <2>1, <2>2, <3>1
      <3>3. OneMore
        BY <1>5, <2>2, <2>3, <3>2 DEF OneMore
      <3> QED
        BY <1>0, <1>1, <1>5, <3>3 DEF Stopped, AtWork, Staging
    <2>4. CASE pc' # "next"
      <3>1. Done' = Done
        BY <1>5, <2>2, <2>4 DEF Done, Staging
      <3> QED
        BY <1>0, <1>1, <1>5, <3>1 DEF Stopped, AtWork, Staging
    <2> QED
      BY <2>3, <2>4
  <1>6. CASE CliSteps
    <2>1. /\ pc \in {"next", "describe"} /\ pc' \in {"describe", "exited", "gave_up"}
          /\ UNCHANGED <<graph, at, out>>
      BY <1>6, CliFrame DEF Behind, AllDone
    <2>2. Done' = Done
      BY <2>1 DEF Done
    <2> QED
      BY <1>0, <1>1, <2>1, <2>2 DEF Stopped
  <1>7. CASE CollectSteps
    <2>1. pc = "collect" /\ pc' \in {"collect", "failed", "next"} /\ UNCHANGED <<graph, at, out>>
      BY <1>7, CollectFrame
    <2> QED
      BY <1>5, <2>1 DEF Stopped, AtWork
  <1>8. CASE StacSteps
    <2>1. pc \in {"rmtree"} \cup Staging /\ pc' \in {"rmtree", "next"} \cup Staging /\ UNCHANGED <<graph, at, out>>
      BY <1>8, StacFrame
    <2> QED
      BY <1>5, <2>1 DEF AtWork, Staging
  <1>9. CASE Stops
    BY <1>9, StopFrame DEF Stopped
  <1> QED
    BY <1>2, <1>3, <1>4, <1>6, <1>7, <1>8, <1>9, NextIs

-----------------------------------------------------------------------------
(* RESULTS *)


\* The graph is the job's, and a number is one of its processes.
LEMMA AtFacts ==
  ASSUME TypeOK, [Next]_vars
  PROVE  graph' = graph /\ at \in Nat /\ at' \in {at, at + 1} /\ 1 .. at \subseteq DOMAIN graph
         /\ \A n \in 1 .. at : n \in DOMAIN Packages /\ n \in DOMAIN out /\ n \in Nat
  <1>1. /\ Len(graph) \in Nat /\ DOMAIN graph = 1 .. Len(graph) /\ at \in Nat /\ at <= Len(graph)
        /\ DOMAIN graph \subseteq DOMAIN Packages /\ DOMAIN out = 1 .. Len(graph)
    BY GraphFacts DEF TypeOK
  <1>2. 1 .. at \subseteq 1 .. Len(graph)
    BY <1>1
  <1>3. graph' = graph /\ at' \in {at, at + 1}
    <2>1. CASE UNCHANGED vars
      BY <2>1 DEF vars
    <2>2. CASE SaveResult \/ Begin \/ Calrissian
      BY <2>2 DEF SaveResult, Begin, Calrissian
    <2> QED
      BY <2>1, <2>2, CollectFrame, StacFrame, CliFrame, StopFrame, NextIs
  <1> QED
    BY <1>1, <1>2, <1>3

\* The steps that bring files.
LEMMA SaveIs ==
  ASSUME TypeOK, SaveResult
  PROVE  /\ pc = "next" /\ pc' = pc /\ at' = at + 1 /\ graph[at + 1] = "save" /\ at + 1 \in DOMAIN Packages
         /\ results' = {h \in results : Path(h) \notin Packages[at + 1]}
                         \cup {Made(f, at + 1) : f \in Packages[at + 1]}
         /\ Packages[at + 1] \subseteq Files
         /\ UNCHANGED <<graph, halt, out, left, work, stac, doc, items, bucket>>
  <1>1. at + 1 \in DOMAIN Packages
    <2>1. at \in Nat /\ Len(graph) \in Nat /\ at < Len(graph) /\ DOMAIN graph = 1 .. Len(graph)
          /\ DOMAIN graph \subseteq DOMAIN Packages
      BY GraphFacts DEF SaveResult
    <2>2. at + 1 \in 1 .. Len(graph)
      BY <2>1
    <2> QED
      BY <2>1, <2>2
  <1>2. Packages[at + 1] \subseteq Files
    BY <1>1, PackagesAssumption
  <1> QED
    BY <1>1, <1>2 DEF SaveResult, stacVars

LEMMA RestIs ==
  ASSUME [Next]_vars, ~SaveResult
  PROVE  \/ results' = results
         \/ \E f \in left : /\ pc = "collect" /\ Taken(f) = {} /\ left' = left \ {f}
                            /\ results' = {g \in results : Path(g) # f} \cup {Made(f, at)}
                            /\ UNCHANGED <<graph, at, out, pc, halt, work, stac, doc, items, bucket>>
  <1>1. CASE UNCHANGED vars
    BY <1>1 DEF vars
  <1>2. CASE Begin \/ Calrissian
    BY <1>2 DEF Begin, Calrissian
  <1>3. CASE CollectSteps
    BY <1>3, CollectFrame
  <1> QED
    BY <1>1, <1>2, <1>3, StacFrame, CliFrame, StopFrame, NextIs

\* A file keeps its origin.
LEMMA OriginKept ==
  ASSUME TypeOK, StageInv, [Next]_vars, NEW h, Origin(h)
  PROVE  Origin(h)'
  <1>1. graph' = graph /\ at \in Nat /\ at' \in {at, at + 1} /\ \A n \in 1 .. at : n \in DOMAIN out /\ n \in Nat
    BY AtFacts
  <1>2. h.by \in 1 .. at /\ h.by \in 1 .. at' /\ h.by # at + 1
    <2>1. h.by \in 1 .. at
      BY DEF Origin
    <2> QED
      BY <1>1, <2>1
  <1>3. (pc' = "calrissian" => h.by # at') /\ out'[h.by] = out[h.by]
    <2>1. CASE UNCHANGED vars
      BY <2>1 DEF vars, Origin
    <2>2. CASE SaveResult \/ Begin
      BY <1>2, <2>2 DEF SaveResult, Begin
    <2>3. CASE Calrissian
      <3>1. PICK T : pc = "calrissian" /\ out' = [out EXCEPT ![at] = T] /\ pc' # "calrissian"
        BY <2>3 DEF Calrissian
      <3>2. h.by # at
        BY <3>1 DEF Origin
      <3> QED
        BY <1>1, <1>2, <3>1, <3>2
    <2>4. CASE CollectSteps \/ StacSteps \/ CliSteps \/ Stops
      BY <2>4, CollectFrame, StacFrame, CliFrame, StopFrame DEF Staging, AllDone, Behind
    <2> QED
      BY <2>1, <2>2, <2>3, <2>4, NextIs
  <1> QED
    BY <1>1, <1>2, <1>3 DEF Origin

\* The directory a file of a tree, and a file of a package, is in.
LEMMA TopOf ==
  ASSUME TypeOK, [Next]_vars, NEW h, Origin(h), h.dir # <<>>
  PROVE  /\ h.by \in DOMAIN Packages /\ h.by \in Nat /\ h.by <= at
         /\ \/ graph[h.by] = "cwl" /\ Head(h.dir) \in ToSet(Dirs)
            \/ graph[h.by] = "save" /\ Path(h) \in Packages[h.by]
  <1>1. h.by \in DOMAIN Packages /\ h.by \in DOMAIN out /\ h.by \in Nat /\ h.by <= at
    <2>1. h.by \in 1 .. at
      BY DEF Origin
    <2> QED
      BY <2>1, AtFacts
  <1>2. ASSUME graph[h.by] = "cwl", Path(h) \in out[h.by] PROVE Head(h.dir) \in ToSet(Dirs)
    <2>1. out[h.by] \in Trees
      BY <1>1, <1>2 DEF TypeOK
    <2>2. Path(h).dir = h.dir
      BY DEF Path
    <2> QED
      BY <1>2, <2>1, <2>2, TreesAssumption
  <1> QED
    BY <1>1, <1>2 DEF Origin

\* What is in RESULTS is kept apart.
LEMMA ResultsStep ==
  ASSUME TypeOK, StageInv, OriginInv, PathInv, PackageInv, OneDirs, [Next]_vars
  PROVE  OriginInv' /\ PathInv' /\ PackageInv' /\ OneDirs'
  <1>0. graph' = graph /\ at \in Nat /\ at' \in {at, at + 1}
    BY AtFacts
  <1>1. \A h \in results : Origin(h)'
    BY OriginKept DEF OriginInv
  <1>2. CASE SaveResult
    <2>1. PICK n, P, N :
            /\ n = at + 1 /\ P = Packages[n] /\ N = {Made(f, n) : f \in P}
            /\ at' = n /\ graph[n] = "save" /\ n \in DOMAIN Packages /\ pc' = "next" /\ P \subseteq Files
            /\ results' = {h \in results : Path(h) \notin P} \cup N
      BY <1>2, SaveIs
    <2>2. ASSUME NEW h \in N
          PROVE  h.by = n /\ Path(h) \in P /\ \E f \in P : f.dir = h.dir /\ f = Path(h) /\ f.name = h.name
      <3>1. PICK f \in P : h = Made(f, n)
        BY <2>1
      <3> QED
        BY <2>1, <3>1, MadeIs
    <2>3. ASSUME NEW h \in results'
          PROVE  h \in N \/ (h \in results /\ Path(h) \notin P /\ h.by \in 1 .. at)
      BY <2>1 DEF OriginInv, Origin
    <2>4. OriginInv'
      <3>1. ASSUME NEW h \in N PROVE Origin(h)'
        <4>1. h.by = n /\ Path(h) \in P
          BY <2>2
        <4>2. n \in 1 .. n
          BY <1>0, <2>1
        <4> QED
          BY <1>0, <2>1, <4>1, <4>2 DEF Origin, Path
      <3> QED
        BY <1>1, <2>3, <3>1 DEF OriginInv
    <2>5. PathInv'
      <3> SUFFICES ASSUME NEW f \in results', NEW g \in results', Path(f) = Path(g) PROVE f.by = g.by
        BY DEF PathInv, Path
      <3> QED
        BY <2>2, <2>3 DEF PathInv
    <2>6. PackageInv'
      <3> SUFFICES ASSUME NEW m \in 1 .. n, graph[m] = "save", Packages[m] # {} PROVE HasPackage'
        BY <1>0, <2>1 DEF PackageInv
      <3>1. CASE P # {}
        <4>1. PICK f \in P : f.name \in Collections
          BY <2>1, <3>1, PackagesAssumption
        <4>2. Made(f, n) \in results' /\ Made(f, n).name = f.name
          BY <2>1, <4>1, MadeIs
        <4> QED
          BY <4>1, <4>2 DEF HasPackage
      <3>2. CASE P = {}
        <4>1. m # n
          BY <2>1, <3>2
        <4>2. m \in 1 .. at
          BY <1>0, <2>1, <4>1
        <4>3. HasPackage
          BY <4>2 DEF PackageInv
        <4>4. results' = results
          BY <2>1, <3>2
        <4> QED
          BY <4>3, <4>4 DEF HasPackage
      <3> QED
        BY <3>1, <3>2
    <2>7. OneDirs'
      <3> SUFFICES ASSUME NEW f \in results', NEW g \in results', f.dir # <<>>, g.dir # <<>>,
                          Head(f.dir) = Head(g.dir), f.by < g.by
                   PROVE  graph[g.by] = "save" /\ g.by \in Given
        BY <1>0 DEF OneDirs
      <3>1. CASE g \in N
        <4>1. g.by = n /\ Path(g) \in P /\ \E e \in P : e.dir = g.dir
          BY <2>2, <3>1
        <4>2. ASSUME n \notin Given PROVE FALSE
          <5>1. f \notin N /\ f \in results
            BY <1>0, <2>1, <2>2, <2>3, <4>1
          <5>2. Origin(f)
            BY <5>1 DEF OriginInv
          <5>3. /\ f.by \in DOMAIN Packages /\ f.by \in Nat /\ f.by <= at
                /\ \/ graph[f.by] = "cwl" /\ Head(f.dir) \in ToSet(Dirs)
                   \/ graph[f.by] = "save" /\ Path(f) \in Packages[f.by]
            BY <5>2, TopOf
          <5>4. PICK e \in P : e.dir = g.dir
            BY <4>1
          <5>5. /\ Head(g.dir) \notin ToSet(Dirs)
                /\ \A m \in DOMAIN Packages \ {n} : \A k \in Packages[m] :
                     k.dir # <<>> => Head(k.dir) # Head(g.dir)
            BY <2>1, <4>2, <5>4, PackagesAssumption
          <5>6. f.by # n
            BY <1>0, <2>1, <5>3
          <5>7. Path(f).dir = f.dir
            BY DEF Path
          <5> QED
            BY <5>3, <5>5, <5>6, <5>7
        <4> QED
          BY <2>1, <4>1, <4>2
      <3>2. CASE g \notin N
        <4>1. g \in results /\ g.by \in 1 .. at
          BY <2>3, <3>2
        <4>2. f \notin N
          BY <1>0, <2>1, <2>2, <4>1
        <4>3. f \in results
          BY <2>3, <4>2
        <4> QED
          BY <4>1, <4>3 DEF OneDirs
      <3> QED
        BY <3>1, <3>2
    <2> QED
      BY <2>4, <2>5, <2>6, <2>7
  <1>3. CASE results' = results /\ ~SaveResult
    <2>1. OriginInv'
      BY <1>1, <1>3 DEF OriginInv
    <2>2. PathInv' /\ OneDirs'
      BY <1>0, <1>3 DEF PathInv, OneDirs, Path
    <2>3. PackageInv'
      <3>1. at' # at => graph[at'] # "save"
        <4>1. CASE Begin
          BY <4>1 DEF Begin
        <4>2. CASE Calrissian \/ UNCHANGED vars
          BY <4>2 DEF Calrissian, vars
        <4> QED
          BY <1>3, <4>1, <4>2, CollectFrame, StacFrame, CliFrame, StopFrame, NextIs
      <3>2. \A m \in 1 .. at' : m \in 1 .. at \/ m = at'
        BY <1>0
      <3>3. \A m \in 1 .. at' : graph[m] = "save" => m \in 1 .. at
        BY <3>1, <3>2
      <3> QED
        BY <1>0, <1>3, <3>3 DEF PackageInv, HasPackage
    <2> QED
      BY <2>1, <2>2, <2>3
  <1>4. CASE \E f \in left : /\ pc = "collect" /\ Taken(f) = {} /\ left' = left \ {f}
                             /\ results' = {g \in results : Path(g) # f} \cup {Made(f, at)}
                             /\ UNCHANGED <<graph, at, out, pc, halt, work, stac, doc, items, bucket>>
    <2>1. PICK f \in left : /\ pc = "collect" /\ Taken(f) = {} /\ left' = left \ {f}
                            /\ results' = {g \in results : Path(g) # f} \cup {Made(f, at)}
                            /\ UNCHANGED <<graph, at, out, pc>>
      BY <1>4
    <2>2. f \in out[at] /\ f \in Files /\ graph[at] = "cwl" /\ at \in 1 .. at
      <3>1. f \in out[at] /\ graph[at] = "cwl" /\ out[at] \subseteq Files /\ at \in 1 .. Len(graph)
        BY <2>1, WorkFacts DEF AtWork, StageInv
      <3> QED
        BY <1>0, <3>1
    <2>3. PICK t : t = Made(f, at)
      OBVIOUS
    <2>4. t.by = at /\ Path(t) = f /\ t.dir = f.dir /\ t.name = f.name
      BY <2>2, <2>3, MadeIs
    <2>5. \A h \in results' : h = t \/ (h \in results /\ Path(h) # f)
      BY <2>1, <2>3
    <2>6. OriginInv'
      <3>1. Origin(t)'
        BY <2>1, <2>2, <2>4 DEF Origin, Path
      <3> QED
        BY <1>1, <2>5, <3>1 DEF OriginInv
    <2>7. PathInv'
      <3> SUFFICES ASSUME NEW e \in results', NEW g \in results', Path(e) = Path(g) PROVE e.by = g.by
        BY DEF PathInv, Path
      <3> QED
        BY <2>4, <2>5 DEF PathInv
    <2>8. PackageInv'
      <3>1. HasPackage => HasPackage'
        <4> SUFFICES ASSUME NEW g \in results, g.name \in Collections PROVE \E h \in results' : h.name \in Collections
          BY DEF HasPackage
        <4>1. CASE Path(g) = f
          <5>1. f.name = g.name
            BY <4>1 DEF Path
          <5> QED
            BY <2>1, <2>3, <2>4, <5>1
        <4>2. CASE Path(g) # f
          BY <2>1, <4>2
        <4> QED
          BY <4>1, <4>2
      <3> QED
        BY <2>1, <3>1 DEF PackageInv
    <2>9. OneDirs'
      <3> SUFFICES ASSUME NEW e \in results', NEW g \in results', e.dir # <<>>, g.dir # <<>>,
                          Head(e.dir) = Head(g.dir), e.by < g.by
                   PROVE  graph[g.by] = "save" /\ g.by \in Given
        BY <1>0 DEF OneDirs
      <3>1. \A h \in results : h.dir # <<>> /\ f.dir # <<>> /\ Head(h.dir) = Head(f.dir) => h.by = at
        BY <2>1 DEF Taken
      <3>2. CASE e = t /\ g = t
        BY <1>0, <2>4, <3>2
      <3>3. CASE e = t /\ g # t
        BY <1>0, <2>4, <2>5, <3>1, <3>3
      <3>4. CASE e # t /\ g = t
        BY <1>0, <2>4, <2>5, <3>1, <3>4
      <3>5. CASE e # t /\ g # t
        BY <2>5, <3>5 DEF OneDirs
      <3> QED
        BY <3>2, <3>3, <3>4, <3>5
    <2> QED
      BY <2>6, <2>7, <2>8, <2>9
  <1> QED
    BY <1>2, <1>3, <1>4, RestIs

\* A process that is done more is the last that is.
LEMMA LastDone ==
  ASSUME Base, Done \subseteq 1 .. at, OneMore
  PROVE  Max(Done') = at /\ at \in Done' /\ at' = at /\ out' = out
  <1>1. PICK S : S = Done'
    OBVIOUS
  <1>2. at \in S /\ S \subseteq Nat /\ \A n \in S : n <= at
    <2>1. at \in Nat /\ S = Done \cup {at}
      BY <1>1, GraphFacts DEF OneMore, Base
    <2> QED
      BY <2>1
  <1> QED
    BY <1>1, <1>2, GreatestIs DEF OneMore

\* The last process that is done is one.
LEMMA DoneFacts ==
  ASSUME Base
  PROVE  Done \subseteq 1 .. at /\ (Done # {} => Max(Done) \in Done /\ Max(Done) \in Nat)
  <1>1. Done \subseteq 1 .. at /\ at \in Nat
    BY GraphFacts DEF Done, Base
  <1>2. PICK S : S = Done
    OBVIOUS
  <1>3. S # {} => Max(S) \in S
    BY <1>1, <1>2, GreatestIn
  <1>4. \A n \in 1 .. at : n \in Nat
    BY <1>1
  <1> QED
    BY <1>1, <1>2, <1>3, <1>4

\* What a process leaves stays in RESULTS.
LEMMA KeptStep ==
  ASSUME Base, OriginInv, PathInv, PackageInv, OneDirs, CollectInv, [Next]_vars
  PROVE  CollectInv'
  <1>0. TypeOK /\ StageInv /\ PackageInv'
    BY ResultsStep DEF Base
  <1>1. CASE UNCHANGED vars
    <2>1. UNCHANGED <<graph, at, pc, out, left, results>>
      BY <1>1 DEF vars
    <2>2. Done' = Done /\ (HasPackage' <=> HasPackage)
      BY <2>1 DEF Done, HasPackage
    <2> QED
      BY <2>1, <2>2 DEF CollectInv
  \* The last one stays what it is, and so does RESULTS.
  <1>2. ASSUME ~Stopped', pc \in {"next"} \cup Behind, pc' # "collect", Done' = Done,
               ~HasPackage' => results' = results
        PROVE  CollectInv'
    <2> SUFFICES ASSUME ~HasPackage', Done # {}, find_stac_root(out'[Max(Done)]) = None, NEW f \in out'[Max(Done)]
                 PROVE  Made(f, Max(Done)) \in results'
      BY <1>2 DEF CollectInv
    <2>1. Max(Done) \in Done /\ out'[Max(Done)] = out[Max(Done)]
      BY <1>2, DoneFacts, DoneStep
    <2>2. results' = results /\ ~HasPackage
      BY <1>2 DEF HasPackage
    <2> QED
      BY <1>2, <2>1, <2>2 DEF CollectInv
  <1>3. CASE SaveResult
    <2>1. ~HasPackage' => Packages[at + 1] = {}
      <3>1. at + 1 \in 1 .. at' /\ graph[at + 1] = "save" /\ graph' = graph
        BY <1>0, <1>3, SaveIs, GraphFacts
      <3> QED
        BY <1>0, <3>1 DEF PackageInv
    <2>2. ~HasPackage' => results' = results
      BY <1>0, <1>3, <2>1, SaveIs
    <2>3. ~Stopped' /\ pc = "next" /\ pc' = "next"
      BY <1>0, <1>3, SaveIs DEF Stopped
    <2>4. Done' = Done
      BY <2>3, DoneStep DEF OneMore, AtWork, Staging
    <2> QED
      BY <1>2, <2>2, <2>3, <2>4
  <1>4. CASE Begin \/ CliSteps
    <2>1. pc \in {"next", "describe"} /\ pc' \in {"next", "calrissian"} \cup Behind /\ results' = results
      BY <1>4, CliFrame DEF Begin, AllDone, Behind
    <2>2. ~Stopped' /\ Done' = Done
      BY <2>1, DoneStep DEF Stopped, Behind, OneMore, AtWork, Staging
    <2> QED
      BY <1>2, <2>1, <2>2 DEF Behind
  <1>5. CASE Calrissian
    <2>1. PICK T \in Trees :
            /\ pc = "calrissian" /\ out' = [out EXCEPT ![at] = T] /\ at' = at
            /\ \/ pc' = "collect" /\ left' = T
               \/ pc' = "rmtree"
      BY <1>5 DEF Calrissian
    <2>2. at \in DOMAIN out
      BY <1>0, <2>1, WorkFacts DEF AtWork
    <2>3. out'[at] = T
      BY <2>1, <2>2
    <2> QED
      BY <2>1, <2>3 DEF CollectInv, Behind
  <1>6. CASE CollectSteps /\ pc' = "collect"
    <2>1. PICK f \in left : /\ pc = "collect" /\ left' = left \ {f} /\ UNCHANGED <<at, out>>
                            /\ results' = {g \in results : Path(g) # f} \cup {Made(f, at)}
      BY <1>6, CollectFrame
    <2>2. ASSUME NEW e \in out[at] \ left' PROVE Made(e, at) \in results'
      <3>1. CASE e = f
        BY <2>1, <3>1
      <3>2. CASE e # f
        <4>1. Made(e, at) \in results
          BY <2>1, <2>2, <3>2 DEF CollectInv
        <4>2. Path(Made(e, at)) = e
          BY <1>0, <2>1, WorkFacts, MadeIs DEF AtWork
        <4> QED
          BY <2>1, <3>2, <4>1, <4>2
      <3> QED
        BY <3>1, <3>2
    <2> QED
      BY <1>6, <2>1, <2>2 DEF CollectInv, Behind
  <1>7. CASE CollectSteps /\ pc' = "next"
    <2>1. pc = "collect" /\ left = {} /\ results' = results /\ UNCHANGED <<at, out>>
      BY <1>7, CollectFrame
    <2>2. at \notin Done /\ at \in 1 .. at /\ graph[at] = "cwl" /\ graph' = graph
      <3>1. at \in 1 .. Len(graph) /\ at \in Nat /\ graph[at] = "cwl"
        BY <1>0, <2>1, WorkFacts DEF AtWork
      <3> QED
        BY <1>0, <2>1, <3>1, AtFacts DEF Done
    <2>3. at \in Done'
      BY <1>7, <2>1, <2>2 DEF Done
    <2>4. OneMore
      BY <1>7, <2>2, <2>3, DoneStep DEF Stopped
    <2>5. Max(Done') = at
      BY <2>4, LastDone, DoneFacts
    <2>6. \A f \in out[at] : Made(f, at) \in results'
      BY <2>1 DEF CollectInv
    <2> QED
      BY <1>7, <2>1, <2>5, <2>6 DEF CollectInv
  <1>8. CASE StacSteps /\ pc' = "next"
    <2>1. pc \in {"rmtree"} \cup Staging /\ results' = results /\ UNCHANGED <<graph, at, out>>
      BY <1>8, StacFrame
    <2>2. at \notin Done /\ at \in 1 .. at /\ graph[at] = "cwl"
      <3>1. at \in 1 .. Len(graph) /\ at \in Nat /\ graph[at] = "cwl"
        BY <1>0, <2>1, WorkFacts DEF AtWork
      <3> QED
        BY <1>0, <2>1, <3>1 DEF Done, Staging
    <2>3. at \in Done'
      BY <1>8, <2>1, <2>2 DEF Done
    <2>4. OneMore
      BY <1>8, <2>2, <2>3, DoneStep DEF Stopped
    <2>5. Max(Done') = at /\ find_stac_root(out'[at]) # None
      BY <1>0, <2>1, <2>4, LastDone, DoneFacts DEF StageInv, Root
    <2> QED
      BY <1>8, <2>5 DEF CollectInv
  <1>9. CASE pc' \in {"failed", "killed", "rmtree"} \cup Staging
    BY <1>9 DEF CollectInv, Behind, Staging
  <1> QED
    BY <1>1, <1>3, <1>4, <1>5, <1>6, <1>7, <1>8, <1>9, CollectFrame, StacFrame, StopFrame, NextIs

\* create_cwl_stac lists what is in RESULTS.
LEMMA DescribeStep ==
  ASSUME Base, DescribeInv, [Next]_vars
  PROVE  DescribeInv'
  <1> SUFFICES ASSUME pc' = "describe" PROVE DescribeInv'
    BY DEF DescribeInv
  <1>1. CASE UNCHANGED vars
    <2>1. UNCHANGED <<pc, left, results, items>>
      BY <1>1 DEF vars, stacVars
    <2>2. Described' <=> Described
      BY <2>1 DEF Described, HasPackage, HasNetCDF
    <2> QED
      BY <2>1, <2>2 DEF DescribeInv, Written, Path
  <1>2. CASE CliSteps
    <2>1. results' = results /\ (Described' <=> Described)
      BY <1>2, CliFrame DEF Described, HasPackage, HasNetCDF
    <2>2. CASE Describe
      BY <2>1, <2>2 DEF Describe, DescribeInv, stacVars
    <2>3. CASE WriteDoc
      <3>1. pc = "describe" /\ UNCHANGED <<left, items>>
        BY <2>3 DEF WriteDoc
      <3> QED
        BY <2>1, <3>1 DEF DescribeInv, Written, Path
    <2>4. CASE \E i \in left : WriteItem(i)
      <3>1. PICK i \in left : WriteItem(i)
        BY <2>4
      <3>2. pc = "describe" /\ i \in ItemNames /\ items \in [ItemNames -> Assets \cup {Torn, None}]
        <4>1. pc = "describe"
          BY <3>1 DEF WriteItem
        <4>2. halt # "collect" /\ halt # "copytree"
          BY <4>1, NoneAssumption DEF Base, StageInv, Steps
        <4> QED
          BY <3>1, <4>1, <4>2 DEF Base, TypeOK
      <3>3. left' \subseteq left /\ \A j \in ItemNames : j # i => items'[j] = items[j]
        BY <3>1, <3>2 DEF WriteItem
      <3>4. ASSUME NEW j, j # i, Written(j), j \in ItemNames PROVE Written(j)'
        BY <2>1, <3>3, <3>4 DEF Written, Path
      <3>5. i \in left' \/ Written(i)'
        <4>1. CASE left' = left
          BY <3>1, <4>1
        <4>2. CASE \E f \in results :
                     /\ ItemFileOf[f.name] = i
                     /\ items' = [items EXCEPT ![i] = [by |-> f.by, file |-> Path(f), at |-> "RESULTS"]]
          BY <2>1, <3>2, <4>2 DEF Written, Path
        <4> QED
          BY <3>1, <4>1, <4>2 DEF WriteItem
      <3>6. ASSUME NEW f \in results PROVE ItemFileOf[f.name] \in left' \/ Written(ItemFileOf[f.name])'
        <4>1. ItemFileOf[f.name] \in ItemNames
          <5>1. f \in Stored
            BY DEF Base, TypeOK
          <5> QED
            BY <5>1, NameFacts
        <4>2. ItemFileOf[f.name] \in left \/ Written(ItemFileOf[f.name])
          BY <3>2 DEF DescribeInv
        <4>3. left' = left \/ left' = left \ {i}
          BY <3>1 DEF WriteItem
        <4> QED
          BY <3>4, <3>5, <4>1, <4>2, <4>3
      <3> QED
        BY <2>1, <3>2, <3>3, <3>6 DEF DescribeInv
    <2> QED
      BY <1>2, <2>2, <2>3, <2>4 DEF CliSteps, Undescribed, Exit, GiveUp
  <1>3. CASE SaveResult \/ Begin \/ Calrissian
    BY <1>3 DEF SaveResult, Begin, Calrissian
  <1> QED
    BY <1>1, <1>2, <1>3, CollectFrame, StacFrame, StopFrame, NextIs DEF Staging

\* A job that exits with 0 has listed what its last process left.
LEMMA ListedStep ==
  ASSUME Base, PathInv, CollectInv, DescribeInv, OutputsListed, [Next]_vars
  PROVE  OutputsListed'
  <1>1. CASE UNCHANGED vars
    <2>1. UNCHANGED <<graph, at, pc, out, results, doc, items>>
      BY <1>1 DEF vars, stacVars
    <2>2. Done' = Done
      BY <2>1 DEF Done
    <2> QED
      BY <2>1, <2>2 DEF OutputsListed, HasPackage, HasNetCDF, OwnStem, Path
  <1>2. CASE pc' = "exited" /\ (Undescribed \/ Exit)
    <2>0. CliSteps /\ ~Stopped'
      BY <1>2 DEF CliSteps, Stopped
    <2>1. UNCHANGED <<at, out, graph, results, items, doc>> /\ pc \in {"next", "describe"}
      BY <1>2 DEF Undescribed, Exit, AllDone, stacVars
    <2>2. Done' = Done
      BY <2>0, <2>1, DoneStep DEF OneMore, AtWork, Staging
    <2>3. (HasPackage' <=> HasPackage) /\ (HasNetCDF' <=> HasNetCDF)
      BY <2>1 DEF HasPackage, HasNetCDF
    <2>4. SUFFICES ASSUME Done # {}, ~HasPackage, ~HasNetCDF, find_stac_root(out[Max(Done)]) = None,
                          NEW f \in out[Max(Done)], OwnStem(f)
                   PROVE  /\ doc = CliDoc
                          /\ items[ItemFileOf[f.name]] = [by |-> Max(Done), file |-> f, at |-> "RESULTS"]
      <3>1. ASSUME NEW f PROVE OwnStem(f)' <=> OwnStem(f)
        BY <2>1 DEF OwnStem, Path
      <3> QED
        BY <2>1, <2>2, <2>3, <3>1 DEF OutputsListed
    <2>5. PICK n : n = Max(Done)
      OBVIOUS
    <2>6. Made(f, n) \in results
      BY <2>1, <2>4, <2>5 DEF CollectInv, Behind
    <2>7. f \in Files /\ Made(f, n).name = f.name /\ Path(Made(f, n)) = f /\ Made(f, n).by = n
      <3>1. n \in DOMAIN out /\ n \in Done
        BY <2>0, <2>4, <2>5, DoneStep, DoneFacts
      <3>2. out[n] \in Trees \cup {{}}
        BY <3>1 DEF Base, TypeOK
      <3>3. f \in Files
        BY <2>4, <2>5, <3>2, FileFacts
      <3> QED
        BY <3>3, MadeIs
    <2>8. Exit
      BY <1>2, <2>4, <2>6 DEF Undescribed, Described
    <2>9. pc = "describe" /\ doc = CliDoc /\ left = {}
      BY <2>8 DEF Exit
    <2>10. Written(ItemFileOf[f.name])
      BY <2>6, <2>7, <2>9 DEF DescribeInv
    <2>11. PICK g \in results : /\ ItemFileOf[g.name] = ItemFileOf[f.name]
                                /\ items[ItemFileOf[f.name]] = [by |-> g.by, file |-> Path(g), at |-> "RESULTS"]
      BY <2>10 DEF Written
    <2>12. Path(g) = f
      BY <2>4, <2>11 DEF OwnStem
    <2>13. g.by = n
      BY <2>6, <2>7, <2>12 DEF PathInv
    <2> QED
      BY <2>5, <2>9, <2>11, <2>12, <2>13
  <1>3. CASE pc' # "exited"
    BY <1>3 DEF OutputsListed
  <1>4. CASE SaveResult \/ Begin \/ Calrissian
    BY <1>3, <1>4 DEF SaveResult, Begin, Calrissian
  <1>5. CASE CliSteps
    BY <1>2, <1>3, <1>5 DEF CliSteps, Describe, WriteDoc, GiveUp, WriteItem
  <1> QED
    BY <1>1, <1>3, <1>4, <1>5, CollectFrame, StacFrame, StopFrame, NextIs DEF Staging

-----------------------------------------------------------------------------
(* Links *)

\* What is known of the items while a STAC is brought.
LEMMA StagingFacts ==
  ASSUME Base, pc \in Staging
  PROVE  /\ at \in Nat /\ halt = None /\ Root # None /\ AtWork
         /\ items \in [ItemNames -> Assets \cup {Torn, None}] /\ bucket \in [Names -> Stored \cup {None}]
         /\ stac \subseteq Stored /\ "rmtree" \notin {pc, halt}
  <1>1. AtWork
    BY DEF AtWork
  <1>2. at \in Nat /\ halt = None
    BY <1>1, WorkFacts DEF Base
  <1> QED
    BY <1>1, <1>2, NoneAssumption DEF Base, StageInv, TypeOK, Staging, Steps

\* A step that keeps the items there keeps the rivals of an item.
LEMMA RivalsStay ==
  ASSUME NEW i, \A j \in Features : items[j] # None => items'[j] # None, Rivals(i)' = {}
  PROVE  Rivals(i) = {}
  BY DEF Rivals

\* The steps that bring no STAC.
LEMMA OtherFrame ==
  ASSUME Base, SaveResult \/ Begin \/ Calrissian \/ CollectSteps
  PROVE  /\ pc \in {"next", "calrissian", "collect"} /\ UNCHANGED <<stac, doc, items, bucket>>
         /\ pc' \in {"next", "calrissian", "collect", "rmtree", "failed"}
         /\ halt = None /\ halt' \in {None, pc}
  <1>1. CASE SaveResult \/ Begin
    BY <1>1 DEF SaveResult, Begin, stacVars, Base, StageInv
  <1>2. CASE Calrissian
    BY <1>2 DEF Calrissian, stacVars, Base, StageInv
  <1>3. CASE CollectSteps
    BY <1>3, CollectFrame DEF Base, StageInv
  <1> QED
    BY <1>1, <1>2, <1>3

\* The files in STAC are of one process.
LEMMA OneStep ==
  ASSUME Base, StacInv, OneStac, [Next]_vars
  PROVE  OneStac'
  <1>1. CASE stac' \subseteq stac
    BY <1>1 DEF OneStac
  <1>2. CASE \E f \in left : CopyTree(f)
    <2>1. PICK f \in left : CopyTree(f)
      BY <1>2
    <2>2. Made(To(f), at).by = at
      BY DEF Made
    <2>3. \A g \in stac : g.by = at
      BY <2>1, CopyIs DEF StacInv, Staging
    <2> QED
      BY <1>1, <2>1, <2>2, <2>3, CopyIs DEF OneStac
  <1>3. CASE StacSteps /\ ~\E f \in left : CopyTree(f)
    <2>1. CASE RemoveOldStac \/ OldStacRemoved \/ Rename
      BY <1>1, <2>1 DEF RemoveOldStac, OldStacRemoved, Rename, stacVars
    <2>2. CASE Moved \/ Rewritten \/ UploadStops \/ Uploaded
      BY <1>1, <2>2 DEF Moved, Rewritten, UploadStops, Uploaded, stacVars
    <2>3. CASE \E i \in left : ItemSteps(i)
      BY <1>1, <2>3 DEF ItemSteps, MoveItem, NotMoved, RewriteHref, Upload, NotUploaded, stacVars
    <2> QED
      BY <1>3, <2>1, <2>2, <2>3 DEF StacSteps
  <1>4. CASE UNCHANGED vars
    BY <1>1, <1>4 DEF vars, stacVars
  <1> QED
    BY <1>1, <1>2, <1>3, <1>4, OtherFrame, CliFrame, StopFrame, NextIs

\* What is in STAC is of the process that brings it, and whole unless it is written.
LEMMA StacInvStep ==
  ASSUME Base, StacInv, LinksLeadHome, [Next]_vars
  PROVE  StacInv'
  <1>1. CASE UNCHANGED vars
    <2>1. UNCHANGED <<at, pc, left, stac, items, bucket>>
      BY <1>1 DEF vars, stacVars
    <2> QED
      BY <2>1 DEF StacInv, Places, Rivals
  <1>2. CASE pc' \notin Staging \cup {"next", "calrissian", "collect"}
    BY <1>2 DEF StacInv, Staging
  <1>3. CASE SaveResult \/ Begin \/ Calrissian \/ CollectSteps
    BY <1>3, OtherFrame DEF StacInv, Staging
  <1>4. CASE CliSteps \/ Stops
    BY <1>2, <1>4, CliFrame, StopFrame DEF Behind, Staging
  <1>5. CASE RemoveOldStac
    BY <1>2, <1>5 DEF RemoveOldStac, Staging
  <1>6. CASE OldStacRemoved
    <2>1. /\ pc' = "copytree" /\ stac' = {} /\ items' = NoItems
      BY <1>6 DEF OldStacRemoved, stacVars
    <2> QED
      BY <2>1 DEF StacInv, Staging, NoItems
  <1>20. CASE StacSteps /\ pc \notin Staging
    <2>1. pc \notin {"copytree", "move", "rewrite", "upload"}
      BY <1>20 DEF Staging
    <2>2. ~\E i \in left : ItemSteps(i)
      BY <2>1 DEF ItemSteps, MoveItem, NotMoved, RewriteHref, Upload, NotUploaded
    <2>3. ~(Rename \/ Moved \/ Rewritten \/ UploadStops \/ Uploaded \/ \E f \in left : CopyTree(f))
      BY <2>1 DEF Rename, Moved, Rewritten, UploadStops, Uploaded, CopyTree
    <2> QED
      BY <1>5, <1>6, <1>20, <2>2, <2>3 DEF StacSteps
  <1> SUFFICES ASSUME pc \in Staging PROVE StacInv'
    BY <1>1, <1>3, <1>4, <1>20, NextIs
  <1>7. /\ at \in Nat /\ items \in [ItemNames -> Assets \cup {Torn, None}] /\ stac \subseteq Stored
        /\ bucket \in [Names -> Stored \cup {None}] /\ "rmtree" \notin {pc, halt}
    BY StagingFacts
  <1>8. /\ \A f \in stac : f.by = at
        /\ \A i \in ItemNames :
             items[i] # None =>
               /\ i \in Features
               /\ \/ \E place \in Places : items[i] = Brought(i, at, place)
                  \/ items[i] = Torn /\ pc \in {"rewrite", "upload"} /\ i \in left
    BY DEF StacInv
  <1>9. CASE \E f \in left : CopyTree(f)
    <2>1. PICK f \in left : CopyTree(f)
      BY <1>9
    <2>2. pc = "copytree" /\ pc' = pc /\ at' = at
      BY <2>1, CopyIs
    <2>3. Places = {"relative"} /\ Places' = {"relative"}
      BY <2>2 DEF Places
    <2>4. \A g \in stac' : g.by = at
      <3>1. Made(To(f), at).by = at
        BY DEF Made
      <3> QED
        BY <1>8, <2>1, <3>1, CopyIs
    <2>5. ASSUME NEW i \in ItemNames, items'[i] # None
          PROVE  i \in Features /\ items'[i] = Brought(i, at, "relative")
      <3>1. CASE items'[i] = items[i]
        BY <1>8, <2>2, <2>3, <2>5, <3>1
      <3>2. CASE items'[i] # items[i]
        <4>1. IsItem(f) /\ items' = [items EXCEPT ![f.name] = Brought(f.name, at, "relative")]
          BY <2>1, <3>2, CopyIs
        <4>2. i = f.name
          BY <1>7, <3>2, <4>1
        <4> QED
          BY <1>7, <4>1, <4>2 DEF IsItem
      <3> QED
        BY <3>1, <3>2
    <2> QED
      BY <2>2, <2>3, <2>4, <2>5 DEF StacInv
  <1>10. CASE Rename
    <2>1. pc = "copytree" /\ pc' = "move" /\ at' = at /\ stac' \subseteq stac /\ items' = items
      BY <1>10 DEF Rename
    <2>2. Places = {"relative"} /\ Places' = {"relative"}
      BY <2>1 DEF Places
    <2> QED
      BY <1>8, <2>1, <2>2 DEF StacInv
  <1>11. CASE \E i \in left : MoveItem(i) \/ NotMoved(i)
    <2>1. PICK i \in left : MoveItem(i) \/ NotMoved(i)
      BY <1>11
    <2>2. /\ pc = "move" /\ pc' = pc /\ at' = at /\ stac' \subseteq stac
          /\ items' = items \/ items' = [items EXCEPT ![i] = Brought(i, at, "relative")]
      BY <2>1 DEF MoveItem, NotMoved, stacVars
    <2>3. Places = {"relative"} /\ Places' = {"relative"}
      BY <2>2 DEF Places
    <2>4. i \in Features
      BY <2>1, <2>2 DEF Base, StageInv
    <2>5. ASSUME NEW j \in ItemNames, items'[j] # None
          PROVE  j \in Features /\ items'[j] = Brought(j, at, "relative")
      <3>1. CASE items'[j] = items[j]
        BY <1>8, <2>2, <2>3, <2>5, <3>1
      <3>2. CASE items'[j] # items[j]
        BY <1>7, <2>2, <2>4, <2>5, <3>2
      <3> QED
        BY <3>1, <3>2
    <2> QED
      BY <1>8, <2>2, <2>3, <2>5 DEF StacInv
  <1>12. CASE Moved
    <2>1. /\ pc = "move" /\ pc' = "rewrite" /\ at' = at /\ UNCHANGED <<stac, items>>
          /\ left' = {i \in Features : items[i] # None}
      BY <1>12 DEF Moved, stacVars
    <2>2. Places = {"relative"} /\ Places' = {"relative", "STAC"}
      BY <2>1 DEF Places
    <2>3. \A i \in ItemNames : items[i] # None => i \in Features /\ items[i] = Brought(i, at, "relative")
      BY <1>8, <2>1, <2>2
    <2>4. \A i \in Features : items[i] # Torn
      <3>1. \A i \in Features : Brought(i, at, "relative") # Torn /\ i \in ItemNames /\ None # Torn
        BY <1>7, BroughtIs, NameFacts, NoneAssumption
      <3> QED
        BY <2>3, <3>1
    <2> QED
      BY <1>8, <2>1, <2>2, <2>3, <2>4 DEF StacInv
  <1>13. CASE \E i \in left : RewriteHref(i)
    <2>1. PICK i \in left : RewriteHref(i)
      BY <1>13
    <2>2. /\ pc = "rewrite" /\ pc' = pc /\ at' = at /\ stac' = stac
          /\ \/ items[i] = Torn /\ left' = left \ {i} /\ items' = [items EXCEPT ![i] = Brought(i, at, "STAC")]
             \/ Made(AssetOf[i], at) \in stac /\ left' = left /\ items' = [items EXCEPT ![i] = Torn]
             \/ items[i] # Torn /\ left' = left \ {i} /\ items' = items
      BY <2>1 DEF RewriteHref
    <2>3. Places = {"relative", "STAC"} /\ Places' = {"relative", "STAC"}
      BY <2>2 DEF Places
    <2>4. i \in Features /\ i \in ItemNames /\ Brought(i, at, "STAC") # None /\ Brought(i, at, "STAC") # Torn /\ Torn # None
      BY <1>7, <2>1, <2>2, BroughtIs, NameFacts, NoneAssumption DEF Base, StageInv
    <2>5. \A j \in ItemNames : j # i => items'[j] = items[j]
      BY <1>7, <2>2
    <2>6. left \subseteq {j \in Features : items[j] # None}
      BY <2>2 DEF StacInv
    <2>7. ASSUME NEW j \in ItemNames, items'[j] # None
          PROVE  /\ j \in Features
                 /\ \/ \E place \in Places' : items'[j] = Brought(j, at, place)
                    \/ items'[j] = Torn /\ j \in left'
      <3>1. CASE j # i
        BY <1>8, <2>2, <2>3, <2>5, <2>7, <3>1
      <3>2. CASE j = i
        BY <1>7, <1>8, <2>1, <2>2, <2>3, <2>4, <2>7, <3>2
      <3> QED
        BY <3>1, <3>2
    <2>8. left' \subseteq {j \in Features : items'[j] # None}
      BY <1>7, <2>2, <2>4, <2>5, <2>6, NameFacts
    <2>9. ASSUME NEW j \in Features, items'[j] = Torn PROVE Made(AssetOf[j], at) \in stac
      <3>1. j \in ItemNames
        BY NameFacts
      <3>2. CASE items[j] = Torn
        BY <2>2, <3>2 DEF StacInv
      <3>3. CASE items[j] # Torn
        <4>1. j = i
          BY <2>5, <2>9, <3>1, <3>3
        <4> QED
          BY <1>7, <2>2, <2>4, <2>9, <3>3, <4>1
      <3> QED
        BY <3>2, <3>3
    <2> QED
      BY <1>8, <2>2, <2>7, <2>8, <2>9 DEF StacInv
  <1>14. CASE Rewritten \/ UploadStops \/ Uploaded
    <2>1. UNCHANGED <<at, stac, items, bucket>> /\ pc \in {"rewrite", "upload"} /\ pc' \in {"upload", "next"}
      BY <1>14 DEF Rewritten, UploadStops, Uploaded, stacVars
    <2>2. CASE pc' = "next"
      <3>1. ASSUME NEW i \in ItemNames, items[i] \in Assets PROVE items[i].at # "RESULTS"
        <4>1. items[i] # None /\ items[i] # Torn
          BY <3>1, NoneAssumption
        <4>2. i \in Features /\ \E place \in Places : items[i] = Brought(i, at, place)
          BY <1>8, <4>1
        <4>3. Places \subseteq {"relative", "STAC", "s3"}
          BY <2>1 DEF Places
        <4>4. PICK place \in {"relative", "STAC", "s3"} : items[i] = Brought(i, at, place)
          BY <4>2, <4>3
        <4>5. items[i].at = place
          BY <1>7, <4>2, <4>4, BroughtIs
        <4> QED
          BY <4>4, <4>5
      <3> QED
        BY <2>1, <2>2, <3>1 DEF StacInv, Staging
    <2>3. CASE pc' = "upload"
      <3>1. /\ pc = "rewrite" /\ left = {}
            /\ left' = {i \in Features : items[i] = Brought(i, at, "STAC")}
        BY <1>14, <2>3 DEF Rewritten, UploadStops, Uploaded
      <3>2. Places = {"relative", "STAC"} /\ Places' = {"relative", "STAC", "s3"}
        BY <2>3, <3>1 DEF Places
      <3>3. ASSUME NEW i \in ItemNames, items[i] # None
            PROVE  i \in Features /\ items[i] # Torn /\ \E place \in Places' : items[i] = Brought(i, at, place)
        <4>1. i \in Features /\ \E place \in {"relative", "STAC"} : items[i] = Brought(i, at, place)
          BY <1>8, <3>1, <3>2, <3>3
        <4>2. PICK place \in {"relative", "STAC"} : items[i] = Brought(i, at, place)
          BY <4>1
        <4>3. Brought(i, at, place) # Torn
          BY <1>7, <4>1, BroughtIs
        <4> QED
          BY <3>2, <4>1, <4>2, <4>3
      <3>4. \A i \in Features : items[i] # Torn
        BY <3>3, NameFacts, NoneAssumption
      <3>5. ASSUME NEW i \in left' PROVE i \in Features /\ items[i] # None /\ Made(AssetOf[i], at) \in stac
        <4>1. PICK a : a = Brought(i, at, "STAC")
          OBVIOUS
        <4>2. a # None /\ a # Torn /\ a.at = "STAC" /\ a.file = AssetOf[i] /\ a.by = at /\ items[i] = a
              /\ i \in Features /\ i \in ItemNames
          BY <1>7, <3>1, <3>5, <4>1, BroughtIs, NameFacts
        <4> QED
          BY <1>7, <4>2 DEF LinksLeadHome
      <3> QED
        BY <1>8, <2>1, <2>3, <3>1, <3>3, <3>4, <3>5 DEF StacInv
    <2> QED
      BY <2>1, <2>2, <2>3
  <1>15. CASE \E i \in left : NotUploaded(i)
    <2>1. PICK i \in left : NotUploaded(i)
      BY <1>15
    <2>2. /\ pc = "upload" /\ pc' = pc /\ UNCHANGED <<at, stac, items, bucket>> /\ left' = left \ {i} /\ items[i] # Torn
      BY <2>1 DEF NotUploaded, stacVars
    <2>3. Places' = Places
      BY <2>2 DEF Places
    <2>4. \A j : Rivals(j)' = Rivals(j)
      BY <2>2 DEF Rivals
    <2> QED
      BY <2>2, <2>3, <2>4 DEF StacInv, Staging
  <1>16. CASE \E i \in left : Upload(i)
    <2>1. PICK i \in left : Upload(i)
      BY <1>16
    <2>2. /\ pc = "upload" /\ pc' = pc /\ at' = at /\ stac' = stac
          /\ \/ items[i] = Torn /\ left' = left \ {i} /\ items' = [items EXCEPT ![i] = Brought(i, at, "s3")]
                /\ bucket' = bucket
             \/ /\ left' = left /\ items' = [items EXCEPT ![i] = Torn]
                /\ bucket' = [bucket EXCEPT ![AssetOf[i].name] = Made(AssetOf[i], at)]
      BY <2>1 DEF Upload
    <2>3. Places = {"relative", "STAC", "s3"} /\ Places' = {"relative", "STAC", "s3"}
      BY <2>2 DEF Places
    <2>4. i \in Features /\ i \in ItemNames /\ Brought(i, at, "s3") # None /\ Brought(i, at, "s3") # Torn /\ Torn # None
      BY <1>7, <2>1, <2>2, BroughtIs, NameFacts, NoneAssumption DEF Base, StageInv
    <2>5. \A j \in ItemNames : j # i => items'[j] = items[j]
      BY <1>7, <2>2
    <2>6. left \subseteq {j \in Features : items[j] # None} /\ Made(AssetOf[i], at) \in stac
      BY <2>1, <2>2 DEF StacInv
    <2>7. ASSUME NEW j \in ItemNames, items'[j] # None
          PROVE  /\ j \in Features
                 /\ \/ \E place \in Places' : items'[j] = Brought(j, at, place)
                    \/ items'[j] = Torn /\ j \in left'
      <3>1. CASE j # i
        BY <1>8, <2>2, <2>3, <2>5, <2>7, <3>1
      <3>2. CASE j = i
        BY <1>7, <1>8, <2>1, <2>2, <2>3, <2>4, <2>7, <3>2
      <3> QED
        BY <3>1, <3>2
    <2>8. left' \subseteq {j \in Features : items'[j] # None}
      BY <1>7, <2>2, <2>4, <2>5, <2>6, NameFacts
    <2>9. AssetOf[i].name \in Names
      BY <1>7, <2>6 DEF Made, Stored
    <2>10. ASSUME NEW j \in Features, items'[j] = Torn, Rivals(j)' = {}
           PROVE  bucket'[AssetOf[j].name] = Made(AssetOf[j], at)
      <3>1. \A k \in Features : items[k] # None => items'[k] # None
        BY <1>7, <2>2, <2>4, <2>5, NameFacts
      <3>2. Rivals(j) = {}
        BY <2>10, <3>1, RivalsStay
      <3>3. CASE items[i] = Torn /\ items' = [items EXCEPT ![i] = Brought(i, at, "s3")] /\ bucket' = bucket
        <4>1. j # i
          BY <1>7, <2>4, <2>10, <3>3
        <4>2. items[j] = Torn
          BY <2>5, <2>10, <4>1, NameFacts
        <4> QED
          BY <2>2, <3>2, <3>3, <4>2 DEF StacInv
      <3>4. CASE /\ items' = [items EXCEPT ![i] = Torn]
                 /\ bucket' = [bucket EXCEPT ![AssetOf[i].name] = Made(AssetOf[i], at)]
        <4>1. items'[i] # None
          BY <1>7, <2>4, <3>4
        <4>2. AssetOf[i].name = AssetOf[j].name => AssetOf[i] = AssetOf[j]
          BY <2>4, <2>10, <4>1 DEF Rivals
        <4>3. CASE AssetOf[i].name = AssetOf[j].name
          BY <1>7, <2>9, <3>4, <4>2, <4>3
        <4>4. CASE AssetOf[i].name # AssetOf[j].name
          <5>1. items[j] = Torn
            BY <2>5, <2>10, <4>4, NameFacts
          <5>2. bucket[AssetOf[j].name] = Made(AssetOf[j], at)
            BY <2>2, <3>2, <5>1 DEF StacInv
          <5> QED
            BY <1>7, <3>4, <4>4, <5>2
        <4> QED
          BY <4>3, <4>4
      <3> QED
        BY <2>2, <3>3, <3>4
    <2>11. \A j \in left' : Made(AssetOf[j], at) \in stac
      BY <2>2 DEF StacInv
    <2> QED
      BY <1>8, <2>2, <2>7, <2>8, <2>10, <2>11 DEF StacInv
  <1> QED
    BY <1>1, <1>3, <1>4, <1>5, <1>6, <1>9, <1>10, <1>11, <1>12, <1>13, <1>14, <1>15, <1>16, NextIs DEF StacSteps, ItemSteps

\* An item's link as it is.
LinkOf(i) ==
  LET a == items[i] IN
  a \notin {Torn, None} =>
    /\ a.at = "STAC" => Made(a.file, a.by) \in stac
    /\ a.at = "RESULTS" => Made(a.file, a.by) \in results
    /\ a.at = "s3" /\ Rivals(i) = {} => bucket[a.file.name] = Made(a.file, a.by)

LEMMA LinksAre == LinksLeadHome <=> ("rmtree" \notin {pc, halt} => \A i \in ItemNames : LinkOf(i))
  BY DEF LinksLeadHome, LinkOf

\* The links of a process that brings its STAC.
LEMMA BroughtLinks ==
  ASSUME Base, StacInv, StacInv', LinksLeadHome, StacSteps, "rmtree" \notin {pc', halt'}, NEW i \in ItemNames
  PROVE  LinkOf(i)'
  <1>1. /\ pc \in {"rmtree"} \cup Staging /\ UNCHANGED <<at, halt, results>> /\ halt = None
    BY StacFrame DEF Base, StageInv, Staging
  <1>2. items \in [ItemNames -> Assets \cup {Torn, None}] /\ bucket \in [Names -> Stored \cup {None}]
        /\ stac \subseteq Stored /\ at \in Nat /\ None # Torn
    BY GraphFacts, NoneAssumption DEF Base, TypeOK
  <1>3. CASE pc' \in {"copytree", "move"}
    <2>1. Places' = {"relative"} /\ pc' \in Staging
      BY <1>3 DEF Places, Staging
    <2>2. items'[i] # None /\ items'[i] # Torn => i \in Features /\ items'[i] = Brought(i, at, "relative")
      BY <1>1, <2>1 DEF StacInv
    <2>3. ASSUME items'[i] \notin {Torn, None} PROVE items'[i].at = "relative"
      <3>1. i \in Features /\ items'[i] = Brought(i, at, "relative")
        BY <2>2, <2>3
      <3> QED
        BY <1>2, <3>1, BroughtIs
    <2> QED
      BY <2>3 DEF LinkOf
  <1>4. CASE pc' \notin {"copytree", "move"}
    <2>1. pc \in {"move", "rewrite", "upload"} /\ pc' \in {"rewrite", "upload", "next"}
      BY <1>1, <1>4, StacFrame DEF Staging
    <2>2. LinkOf(i) /\ \A j \in ItemNames : LinkOf(j)
      BY <1>1, <2>1, LinksAre, NoneAssumption DEF Steps
    <2>3. CASE UNCHANGED <<stac, items, bucket>>
      BY <1>1, <2>2, <2>3 DEF LinkOf, Rivals
    <2>4. CASE \E j \in left : RewriteHref(j)
      <3>1. PICK j \in left : RewriteHref(j)
        BY <2>4
      <3>2. /\ pc = "rewrite" /\ stac' = stac /\ bucket' = bucket
            /\ \/ items[j] = Torn /\ items' = [items EXCEPT ![j] = Brought(j, at, "STAC")]
               \/ items' = [items EXCEPT ![j] = Torn]
               \/ items' = items
        BY <3>1 DEF RewriteHref
      <3>3. j \in Features /\ j \in ItemNames
        BY <3>1, <3>2, NameFacts DEF Base, StageInv
      <3>4. PICK b : b = Brought(j, at, "STAC")
        OBVIOUS
      <3>5. b # None /\ b # Torn /\ b.at = "STAC" /\ b.file = AssetOf[j] /\ b.by = at
        BY <1>2, <3>3, <3>4, BroughtIs
      <3>6. \A k \in Features : items[k] # None => items'[k] # None
        BY <1>2, <3>2, <3>3, <3>4, <3>5, NameFacts
      <3>7. CASE i # j
        <4>1. items'[i] = items[i]
          BY <1>2, <3>2, <3>7
        <4> QED
          BY <1>1, <2>2, <3>2, <3>6, <4>1, RivalsStay DEF LinkOf
      <3>8. CASE i = j
        <4>1. CASE items[j] = Torn /\ items' = [items EXCEPT ![j] = Brought(j, at, "STAC")]
          <5>1. Made(AssetOf[j], at) \in stac
            BY <3>2, <3>3, <4>1 DEF StacInv
          <5>2. items'[i] = b
            BY <1>2, <3>3, <3>4, <3>8, <4>1
          <5> QED
            BY <3>2, <3>5, <5>1, <5>2 DEF LinkOf
        <4>2. CASE items' = [items EXCEPT ![j] = Torn]
          <5>1. items'[i] = Torn
            BY <1>2, <3>3, <3>8, <4>2
          <5> QED
            BY <5>1 DEF LinkOf
        <4>3. CASE items' = items
          BY <1>1, <2>2, <3>2, <4>3 DEF LinkOf, Rivals
        <4> QED
          BY <3>2, <4>1, <4>2, <4>3
      <3> QED
        BY <3>7, <3>8
    <2>5. CASE \E j \in left : Upload(j)
      <3>1. PICK j \in left : Upload(j)
        BY <2>5
      <3>2. /\ pc = "upload" /\ stac' = stac
            /\ \/ items[j] = Torn /\ items' = [items EXCEPT ![j] = Brought(j, at, "s3")] /\ bucket' = bucket
               \/ /\ items' = [items EXCEPT ![j] = Torn]
                  /\ bucket' = [bucket EXCEPT ![AssetOf[j].name] = Made(AssetOf[j], at)]
        BY <3>1 DEF Upload
      <3>3. j \in Features /\ j \in ItemNames
        BY <3>1, <3>2, NameFacts DEF Base, StageInv
      <3>4. PICK b : b = Brought(j, at, "s3")
        OBVIOUS
      <3>5. b # None /\ b # Torn /\ b.at = "s3" /\ b.file = AssetOf[j] /\ b.by = at
        BY <1>2, <3>3, <3>4, BroughtIs
      <3>6. \A k \in Features : items[k] # None => items'[k] # None
        BY <1>2, <3>2, <3>3, <3>4, <3>5, NameFacts
      <3>7. CASE items[j] = Torn /\ items' = [items EXCEPT ![j] = Brought(j, at, "s3")] /\ bucket' = bucket
        <4>1. CASE i # j
          <5>1. items'[i] = items[i]
            BY <1>2, <3>7, <4>1
          <5> QED
            BY <1>1, <2>2, <3>2, <3>6, <3>7, <5>1, RivalsStay DEF LinkOf
        <4>2. CASE i = j
          <5>1. items'[i] = b
            BY <1>2, <3>3, <3>4, <3>7, <4>2
          <5>2. Rivals(i)' = {} => bucket[AssetOf[j].name] = Made(AssetOf[j], at)
            BY <3>2, <3>3, <3>6, <3>7, <4>2, RivalsStay DEF StacInv
          <5> QED
            BY <3>5, <3>7, <5>1, <5>2 DEF LinkOf
        <4> QED
          BY <4>1, <4>2
      <3>8. CASE /\ items' = [items EXCEPT ![j] = Torn]
                 /\ bucket' = [bucket EXCEPT ![AssetOf[j].name] = Made(AssetOf[j], at)]
        <4>1. items'[j] = Torn
          BY <1>2, <3>3, <3>8
        <4>2. CASE i = j
          BY <4>1, <4>2 DEF LinkOf
        <4>3. CASE i # j
          <5>1. items'[i] = items[i]
            BY <1>2, <3>8, <4>3
          <5>2. ASSUME items[i] \notin {Torn, None}, items[i].at = "s3", Rivals(i)' = {}
                PROVE  bucket'[items[i].file.name] = Made(items[i].file, items[i].by)
            <6>1. i \in Features /\ \E place \in Places : items[i] = Brought(i, at, place)
              BY <3>2, <5>2 DEF StacInv, Staging
            <6>2. Places = {"relative", "STAC", "s3"}
              BY <3>2 DEF Places
            <6>3. PICK place \in {"relative", "STAC", "s3"} : items[i] = Brought(i, at, place)
              BY <6>1, <6>2
            <6>4. items[i].file = AssetOf[i] /\ items[i].by = at
              BY <1>2, <6>1, <6>3, BroughtIs
            <6>5. bucket[AssetOf[i].name] = Made(AssetOf[i], at)
              BY <2>2, <3>6, <5>2, <6>4, RivalsStay DEF LinkOf
            <6>6. AssetOf[j].name = AssetOf[i].name => AssetOf[j] = AssetOf[i]
              BY <1>2, <3>3, <4>1, <5>2 DEF Rivals
            <6>7. CASE AssetOf[j].name = AssetOf[i].name
              <7>1. Made(AssetOf[j], at) \in stac
                BY <3>1, <3>2 DEF StacInv
              <7>2. AssetOf[j].name \in Names
                BY <1>2, <7>1 DEF Made, Stored
              <7> QED
                BY <1>2, <3>8, <6>4, <6>6, <6>7, <7>2
            <6>8. CASE AssetOf[j].name # AssetOf[i].name
              BY <1>2, <3>8, <6>4, <6>5, <6>8
            <6> QED
              BY <6>7, <6>8
          <5> QED
            BY <1>1, <2>2, <3>2, <5>1, <5>2 DEF LinkOf
        <4> QED
          BY <4>2, <4>3
      <3> QED
        BY <3>2, <3>7, <3>8
    <2>6. ~(RemoveOldStac \/ OldStacRemoved \/ Rename \/ \E f \in left : CopyTree(f))
      BY <1>4, <2>1 DEF RemoveOldStac, OldStacRemoved, Rename, CopyTree
    <2>7. Moved \/ Rewritten \/ UploadStops \/ Uploaded => UNCHANGED <<stac, items, bucket>>
      BY DEF Moved, Rewritten, UploadStops, Uploaded, stacVars
    <2>8. ASSUME NEW j \in left, ItemSteps(j) PROVE RewriteHref(j) \/ Upload(j) \/ UNCHANGED <<stac, items, bucket>>
      <3>1. ~MoveItem(j)
        BY <1>4 DEF MoveItem
      <3>2. NotMoved(j) \/ NotUploaded(j) => UNCHANGED <<stac, items, bucket>>
        BY DEF NotMoved, NotUploaded, stacVars
      <3> QED
        BY <2>8, <3>1, <3>2 DEF ItemSteps
    <2> QED
      BY <2>3, <2>4, <2>5, <2>6, <2>7, <2>8 DEF StacSteps
  <1> QED
    BY <1>3, <1>4

\* Every link that was rewritten keeps leading home.
LEMMA LinksStep ==
  ASSUME Base, StacInv, StacInv', LinksLeadHome, [Next]_vars
  PROVE  LinksLeadHome'
  <1> SUFFICES ASSUME "rmtree" \notin {pc', halt'}, NEW i \in ItemNames PROVE LinkOf(i)'
    BY DEF LinksLeadHome, LinkOf
  <1>0. items \in [ItemNames -> Assets \cup {Torn, None}] /\ bucket \in [Names -> Stored \cup {None}]
        /\ None # Torn /\ results \subseteq Stored
    BY NoneAssumption DEF Base, TypeOK
  <1>1. CASE UNCHANGED vars
    <2>1. UNCHANGED <<pc, halt, results, stac, items, bucket>>
      BY <1>1 DEF vars, stacVars
    <2> QED
      BY <2>1, LinksAre DEF LinkOf, Rivals
  <1>2. CASE SaveResult \/ Begin \/ Calrissian \/ CollectSteps
    <2>1. pc \in {"next", "calrissian", "collect"} /\ UNCHANGED <<stac, items, bucket>> /\ halt = None
      BY <1>2, OtherFrame
    <2>2. "rmtree" \notin {pc, halt}
      BY <2>1, NoneAssumption DEF Steps
    <2>3. LinkOf(i)
      BY <2>2, LinksAre
    <2>4. items[i] \notin {Torn, None} => items[i].at # "RESULTS"
      BY <1>0, <2>1 DEF StacInv
    <2> QED
      BY <2>1, <2>3, <2>4 DEF LinkOf, Rivals
  <1>3. CASE Stops
    <2>1. ~Ended /\ halt' = pc /\ UNCHANGED <<results, stac, items, bucket>>
      BY <1>3, StopFrame
    <2>2. halt = None
      BY <2>1 DEF Base, StageInv, Ended
    <2>3. "rmtree" \notin {pc, halt}
      BY <2>1, <2>2, NoneAssumption DEF Steps
    <2> QED
      BY <2>1, <2>3, LinksAre DEF LinkOf, Rivals
  <1>4. CASE CliSteps
    <2>1. pc \in {"next", "describe"} /\ UNCHANGED <<halt, results, stac, bucket>>
      BY <1>4, CliFrame DEF AllDone
    <2>2. halt = None
      BY <2>1 DEF Base, StageInv
    <2>3. LinkOf(i)
      BY <2>1, <2>2, LinksAre, NoneAssumption DEF Steps
    <2>4. CASE items' = items
      BY <2>1, <2>3, <2>4 DEF LinkOf, Rivals
    <2>5. CASE \E j \in left : WriteItem(j)
      <3>1. PICK j \in left : WriteItem(j)
        BY <2>5
      <3>2. \/ items' = [items EXCEPT ![j] = Torn]
            \/ \E f \in results : items' = [items EXCEPT ![j] = [by |-> f.by, file |-> Path(f), at |-> "RESULTS"]]
        BY <3>1 DEF WriteItem
      <3>3. PICK c : /\ items' = [items EXCEPT ![j] = c] /\ c # None
                     /\ c # Torn => c.at = "RESULTS" /\ Made(c.file, c.by) \in results
        <4>1. CASE items' = [items EXCEPT ![j] = Torn]
          BY <1>0, <4>1
        <4>2. CASE \E f \in results : items' = [items EXCEPT ![j] = [by |-> f.by, file |-> Path(f), at |-> "RESULTS"]]
          <5>1. PICK f \in results : items' = [items EXCEPT ![j] = [by |-> f.by, file |-> Path(f), at |-> "RESULTS"]]
            BY <4>2
          <5>2. PICK c : c = [by |-> f.by, file |-> Path(f), at |-> "RESULTS"]
            OBVIOUS
          <5>3. c # None /\ c.at = "RESULTS" /\ Made(c.file, c.by) = f
            BY <1>0, <5>2, WrittenIs, NameFacts
          <5> QED
            BY <5>1, <5>2, <5>3
        <4> QED
          BY <3>2, <4>1, <4>2
      <3>4. CASE i = j
        <4>1. items'[i] = c
          BY <1>0, <3>3, <3>4
        <4> QED
          BY <2>1, <3>3, <4>1 DEF LinkOf
      <3>5. CASE i # j
        <4>1. items'[i] = items[i]
          BY <1>0, <3>3, <3>5
        <4>2. \A k \in Features : items[k] # None => items'[k] # None
          BY <1>0, <3>3, NameFacts
        <4> QED
          BY <2>1, <2>3, <4>1, <4>2, RivalsStay DEF LinkOf
      <3> QED
        BY <3>4, <3>5
    <2> QED
      BY <1>4, <2>4, <2>5 DEF CliSteps, Undescribed, Describe, WriteDoc, Exit, GiveUp, stacVars
  <1> QED
    BY <1>1, <1>2, <1>3, <1>4, BroughtLinks, NextIs

-----------------------------------------------------------------------------
(* Places *)

\* What is left of a directory without the one it is in.
LEMMA WithoutPrefix ==
  ASSUME NEW S, NEW d \in Seq(S), NEW e \in Seq(S)
  PROVE  IsPrefix(d, d \o e) /\ Without(d, d \o e) = e
  <1>1. PICK q, k, l : q = d \o e /\ k = Len(d) /\ l = Len(e)
    OBVIOUS
  <1>2. /\ k \in Nat /\ l \in Nat /\ q \in Seq(S) /\ Len(q) = k + l
        /\ \A i \in 1 .. k + l : q[i] = IF i <= k THEN d[i] ELSE e[i - k]
    BY <1>1, ConcatProperties, LenProperties
  <1>3. \A i \in 1 .. k : q[i] = d[i]
    BY <1>2
  <1>4. \A i \in 1 .. k : d[i] \in S /\ q[i] \in S
    BY <1>1, <1>3, ElementOfSeq
  <1>5. PICK s, t : s = SubSeq(d, 1, k) /\ t = SubSeq(q, 1, k)
    OBVIOUS
  <1>6. s = t
    <2>1. s \in Seq(S) /\ Len(s) = k /\ \A i \in 1 .. k : s[i] = d[i]
      <3>1. /\ SubSeq(d, 1, k) \in Seq(S)
            /\ Len(SubSeq(d, 1, k)) = IF 1 <= k THEN k - 1 + 1 ELSE 0
            /\ \A i \in 1 .. k - 1 + 1 : SubSeq(d, 1, k)[i] = d[1 + i - 1]
        BY <1>2, <1>4, SubSeqProperties
      <3> QED
        BY <1>2, <1>5, <3>1
    <2>2. t \in Seq(S) /\ Len(t) = k /\ \A i \in 1 .. k : t[i] = q[i]
      <3>1. /\ SubSeq(q, 1, k) \in Seq(S)
            /\ Len(SubSeq(q, 1, k)) = IF 1 <= k THEN k - 1 + 1 ELSE 0
            /\ \A i \in 1 .. k - 1 + 1 : SubSeq(q, 1, k)[i] = q[1 + i - 1]
        BY <1>2, <1>4, SubSeqProperties
      <3> QED
        BY <1>2, <1>5, <3>1
    <2>3. \A i \in 1 .. Len(s) : s[i] = t[i]
      BY <1>3, <2>1, <2>2
    <2> QED
      BY <2>1, <2>2, <2>3, SeqEqual
  <1>7. k <= k + l
    BY <1>2
  <1>8. IsPrefix(d, q)
    BY <1>1, <1>2, <1>5, <1>6, <1>7 DEF IsPrefix
  <1>9. PICK m, n : m = k + 1 /\ n = k + l
    OBVIOUS
  <1>10. m \in Int /\ n \in Int /\ n - m + 1 = l /\ (m <= n <=> l # 0)
    <2>1. k \in Nat /\ l \in Nat
      BY <1>2
    <2> QED
      BY <1>9, <2>1
  <1>11. \A i \in m .. n : q[i] \in S
    <2>1. \A i \in m .. n : i \in 1 .. Len(q)
      BY <1>2, <1>9
    <2> QED
      BY <1>2, <2>1, ElementOfSeq
  <1>12. /\ SubSeq(q, m, n) \in Seq(S)
         /\ Len(SubSeq(q, m, n)) = IF m <= n THEN n - m + 1 ELSE 0
         /\ \A i \in 1 .. n - m + 1 : SubSeq(q, m, n)[i] = q[m + i - 1]
    BY <1>10, <1>11, SubSeqProperties
  <1>16. PICK u : u = SubSeq(q, m, n)
    OBVIOUS
  <1>13. u \in Seq(S) /\ Len(u) = l /\ \A i \in 1 .. l : u[i] = q[m + i - 1]
    BY <1>2, <1>10, <1>12, <1>16
  <1>14. ASSUME NEW i \in 1 .. l PROVE u[i] = e[i]
    <2>1. m + i - 1 = k + i /\ k + i \in 1 .. k + l /\ ~(k + i <= k) /\ (k + i) - k = i
      BY <1>2, <1>9
    <2>2. q[k + i] = e[(k + i) - k]
      BY <1>2, <2>1
    <2> QED
      BY <1>13, <2>1, <2>2
  <1>15. u = e
    <2>1. Len(u) = Len(e) /\ \A i \in 1 .. Len(u) : u[i] = e[i]
      BY <1>1, <1>13, <1>14
    <2> QED
      BY <1>13, <2>1, SeqEqual
  <1> QED
    BY <1>1, <1>2, <1>8, <1>9, <1>15, <1>16 DEF Without

\* What becomes of the files beside a root, of the items in the directory for them, and of
\* the assets of items.
LEMMA ToIs ==
  ASSUME Base, AtWork, Root # None, NEW f \in out[at]
  PROVE  /\ f.name \in STRING /\ f.name \in Names
         /\ f.dir = Root.dir => f \in Tree /\ To(f) = Top(f.name) /\ ~IsItem(f)
         /\ f.dir = Append(Root.dir, "items") /\ f.name \in Features => f \in Tree /\ IsItem(f)
         /\ \A i \in Features :
              f = [dir |-> Root.dir \o AssetOf[i].dir, name |-> AssetOf[i].name]
                => f \in Tree /\ To(f) = AssetOf[i] /\ f.name \notin Features \cup ToSet(RootNames)
  <1>1. f = [dir |-> f.dir, name |-> f.name] /\ f.name \in Names /\ f.name \in STRING
    BY WorkFacts, FileFacts DEF Base
  <1>2. PICK d : d = Root.dir
    OBVIOUS
  <1>3. d \in Seq(STRING)
    BY <1>2, RootIs DEF Root
  <1>4. \A w : Without(d, f.dir) = w => To(f) = [dir |-> w, name |-> f.name]
    BY <1>1, <1>2 DEF To
  <1>5. \A g \in out[at] : IsPrefix(d, g.dir) => g \in Tree
    BY <1>2 DEF Tree, Under
  <1>6. ASSUME f.dir = d PROVE f \in Tree /\ To(f) = Top(f.name) /\ ~IsItem(f)
    <2>1. PICK e : e = <<>>
      OBVIOUS
    <2>2. e \in Seq(STRING) /\ d \o e = d
      <3>1. \A S : <<>> \in Seq(S)
        OBVIOUS
      <3> QED
        BY <1>3, <2>1, <3>1, ConcatEmptySeq
    <2>3. IsPrefix(d, d) /\ Without(d, d) = e
      BY <1>3, <2>2, WithoutPrefix
    <2>4. To(f) = Top(f.name)
      BY <1>4, <1>6, <2>1, <2>3 DEF Top
    <2>5. <<>> # <<"items">>
      OBVIOUS
    <2>6. ~IsItem(f)
      BY <2>4, <2>5 DEF IsItem, Top
    <2> QED
      BY <1>5, <1>6, <2>3, <2>4, <2>6
  <1>7. ASSUME f.dir = Append(d, "items"), f.name \in Features PROVE f \in Tree /\ IsItem(f)
    <2>1. PICK S : S = STRING \cup {"items"}
      OBVIOUS
    <2>2. d \in Seq(S) /\ "items" \in S
      BY <1>3, <2>1, SeqMonotonic
    <2>3. PICK e : e = <<"items">>
      OBVIOUS
    <2>4. e \in Seq(S) /\ Append(d, "items") = d \o e
      BY <2>2, <2>3, OneName, AppendIsConcat
    <2>5. IsPrefix(d, f.dir) /\ Without(d, f.dir) = e
      BY <1>7, <2>2, <2>4, WithoutPrefix
    <2>6. To(f).dir = <<"items">>
      BY <1>4, <2>3, <2>5
    <2> QED
      BY <1>5, <1>7, <2>5, <2>6 DEF IsItem
  <1>8. ASSUME NEW i \in Features, f = [dir |-> d \o AssetOf[i].dir, name |-> AssetOf[i].name]
        PROVE  f \in Tree /\ To(f) = AssetOf[i] /\ f.name \notin Features \cup ToSet(RootNames)
    <2>1. AssetOf[i] \in Files /\ AssetOf[i].name \notin Features \cup ToSet(RootNames)
      BY NameFacts
    <2>2. PICK a : a = AssetOf[i]
      OBVIOUS
    <2>3. a.dir \in Seq(STRING) /\ a = [dir |-> a.dir, name |-> a.name] /\ f.dir = d \o a.dir /\ f.name = a.name
      BY <1>8, <2>1, <2>2 DEF Files
    <2>4. IsPrefix(d, f.dir) /\ Without(d, f.dir) = a.dir
      BY <1>3, <2>3, WithoutPrefix
    <2> QED
      BY <1>4, <1>5, <2>1, <2>2, <2>3, <2>4
  <1> QED
    BY <1>1, <1>2, <1>6, <1>7, <1>8

\* Rename leaves the items beside the root to be moved.
LEMMA RenamePlaces ==
  ASSUME Base, PlaceInv, Rename
  PROVE  PlaceInv'
  <1>1. /\ pc = "copytree" /\ left = {} /\ pc' = "move" /\ UNCHANGED <<at, out, items>>
        /\ stac' = stac \ {Made(Top(Root.name), at)}
        /\ doc' = [by |-> at, name |-> Root.name]
        /\ left' = {i \in Features : Made(Top(i), at) \in stac}
    BY DEF Rename
  <1>2. AtWork /\ Root # None /\ Root' = Root /\ Tree' = Tree
    BY <1>1, StagingFacts DEF Staging, Root, Tree
  <1>3. Root.name \in ToSet(RootNames)
    BY <1>2, RootIs DEF Root
  <1>4. \A f \in Tree : Carried(f)
    BY <1>1 DEF PlaceInv
  <1>5. OwnDoc'
    BY <1>1, <1>2 DEF OwnDoc
  <1>6. AssetsStay'
    <2> SUFFICES ASSUME NEW f \in Tree, f.name \notin Features \cup ToSet(RootNames)
                 PROVE  Made(To(f), at) \in stac'
      BY <1>1, <1>2 DEF AssetsStay, To
    <2>1. Made(To(f), at) \in stac
      BY <1>4 DEF Carried, IsItem
    <2>2. Made(To(f), at).name = To(f).name /\ Made(Top(Root.name), at).name = Root.name
      BY DEF Made, Top
    <2>3. To(f).name = f.name
      <3>1. f \in Files
        BY <1>2, WorkFacts DEF Base, Tree, Under
      <3> QED
        BY <3>1 DEF To, Files
    <2> QED
      BY <1>1, <1>3, <2>1, <2>2, <2>3
  <1>7. \A i \in Features : Made(Top(i), at) # Made(Top(Root.name), at)
    <2>1. \A i : Made(Top(i), at).name = i
      BY DEF Made, Top
    <2> QED
      BY <1>3, <2>1, ItemsAssumption
  <1>8. left' \subseteq {i \in Features : Made(Top(i), at) \in stac'}
    BY <1>1, <1>7
  <1>9. ASSUME NEW f \in ItemsIn(Root.dir, out[at])
        PROVE  items[f.name] = Brought(f.name, at, "relative") \/ f.name \in left'
    <2>1. f \in out[at] /\ f.name \in Features /\ (f.dir = Root.dir \/ f.dir = Append(Root.dir, "items"))
      BY DEF ItemsIn
    <2>2. CASE f.dir = Root.dir
      <3>1. f \in Tree /\ To(f) = Top(f.name) /\ ~IsItem(f)
        BY <1>2, <2>1, <2>2, ToIs
      <3> QED
        BY <1>1, <1>4, <2>1, <3>1 DEF Carried
    <2>3. CASE f.dir = Append(Root.dir, "items")
      <3>1. f \in Tree /\ IsItem(f)
        BY <1>2, <2>1, <2>3, ToIs
      <3> QED
        BY <1>4, <3>1 DEF Carried
    <2> QED
      BY <2>1, <2>2, <2>3
  <1>10. \A f \in ItemsIn(Root.dir, out[at])' :
           items'[f.name] = Brought(f.name, at', "relative") \/ f.name \in left'
    BY <1>1, <1>2, <1>9 DEF ItemsIn
  <1> QED
    BY <1>1, <1>5, <1>6, <1>8, <1>10 DEF PlaceInv, ItemsIn

LEMMA MovePlaces ==
  ASSUME Base, PlaceInv, NEW i \in left, MoveItem(i) \/ NotMoved(i)
  PROVE  PlaceInv'
  <1>1. /\ pc = "move" /\ pc' = pc /\ UNCHANGED <<at, out, doc>> /\ left' = left \ {i}
        /\ \/ stac' = stac \ {Made(Top(i), at)} /\ items' = [items EXCEPT ![i] = Brought(i, at, "relative")]
           \/ "disk" \in Faults /\ stac' = stac /\ items' = items
    BY DEF MoveItem, NotMoved, stacVars
  <1>2. AtWork /\ Root # None /\ Root' = Root /\ Tree' = Tree
    BY <1>1, StagingFacts DEF Staging, Root, Tree
  <1>3. items \in [ItemNames -> Assets \cup {Torn, None}] /\ i \in Features /\ i \in ItemNames
    BY <1>1, NameFacts DEF Base, TypeOK, StageInv
  <1>4. \A f : Made(f, at).name = f.name
    BY DEF Made
  <1>5. \A j : Made(Top(j), at).name = j
    BY DEF Made, Top
  <1>6. OwnDoc'
    BY <1>1, <1>2 DEF OwnDoc, PlaceInv
  <1>7. AssetsStay'
    <2> SUFFICES ASSUME NEW f \in Tree, f.name \notin Features \cup ToSet(RootNames)
                 PROVE  Made(To(f), at) \in stac'
      BY <1>1, <1>2 DEF AssetsStay, To
    <2>1. Made(To(f), at) \in stac
      BY <1>1 DEF PlaceInv, AssetsStay
    <2>2. To(f).name = f.name
      <3>1. f \in Files
        BY <1>2, WorkFacts DEF Base, Tree, Under
      <3> QED
        BY <3>1 DEF To, Files
    <2> QED
      BY <1>1, <1>3, <1>4, <1>5, <2>1, <2>2
  <1>8. left \subseteq {j \in Features : Made(Top(j), at) \in stac}
    BY <1>1 DEF PlaceInv
  <1>9. left' \subseteq {j \in Features : Made(Top(j), at) \in stac'}
    BY <1>1, <1>5, <1>8
  <1>10. ASSUME NEW f \in ItemsIn(Root.dir, out[at])
         PROVE  \/ items'[f.name] = Brought(f.name, at, "relative") \/ f.name \in left'
                \/ "disk" \in Faults /\ Made(Top(f.name), at) \in stac'
    <2>1. /\ f.name \in Features /\ f.name \in ItemNames
          /\ \/ items[f.name] = Brought(f.name, at, "relative") \/ f.name \in left
             \/ "disk" \in Faults /\ Made(Top(f.name), at) \in stac
      BY <1>1, NameFacts DEF PlaceInv, NotMovedAt, ItemsIn
    <2>2. CASE f.name = i
      BY <1>1, <1>3, <1>8, <2>2
    <2>3. CASE f.name # i
      BY <1>1, <1>3, <1>5, <2>1, <2>3
    <2> QED
      BY <2>2, <2>3
  <1>11. \A f \in ItemsIn(Root.dir, out[at])' :
           \/ items'[f.name] = Brought(f.name, at', "relative") \/ f.name \in left'
           \/ "disk" \in Faults /\ Made(Top(f.name), at') \in stac'
    BY <1>1, <1>2, <1>10 DEF ItemsIn
  <1> QED
    BY <1>1, <1>6, <1>7, <1>9, <1>11 DEF PlaceInv, NotMovedAt, ItemsIn

LEMMA CopyPlaces ==
  ASSUME Base, PlaceInv, NEW f \in left, CopyTree(f)
  PROVE  PlaceInv'
  <1>1. /\ pc = "copytree" /\ pc' = pc /\ UNCHANGED <<at, out, doc>> /\ left' = left \ {f}
        /\ IF IsItem(f) THEN items' = [items EXCEPT ![f.name] = Brought(f.name, at, "relative")] /\ stac' = stac
           ELSE stac' = stac \cup {Made(To(f), at)} /\ items' = items
    BY CopyIs
  <1>2. items \in [ItemNames -> Assets \cup {Torn, None}] /\ Root' = Root /\ Tree' = Tree
    BY <1>1 DEF Root, Tree, Base, TypeOK
  <1>3. left \subseteq Tree /\ \A g \in Tree \ left : Carried(g)
    BY <1>1 DEF PlaceInv
  <1>4. \A g : (To(g))' = To(g) /\ (IsItem(g))' = IsItem(g)
    BY <1>2 DEF To, IsItem
  <1>5. ASSUME NEW g \in Tree, g \notin left' PROVE Carried(g)'
    <2>1. CASE IsItem(g)
      <3>1. g.name \in ItemNames
        BY <2>1, NameFacts DEF IsItem
      <3>2. items'[g.name] = Brought(g.name, at, "relative")
        <4>1. CASE g.name = f.name /\ IsItem(f)
          BY <1>1, <1>2, <3>1, <4>1
        <4>2. CASE ~(g.name = f.name /\ IsItem(f))
          <5>1. items'[g.name] = items[g.name]
            BY <1>1, <1>2, <3>1, <4>2
          <5>2. g # f
            BY <2>1, <4>2
          <5>3. Carried(g)
            BY <1>1, <1>3, <1>5, <5>2
          <5> QED
            BY <2>1, <5>1, <5>3 DEF Carried
        <4> QED
          BY <4>1, <4>2
      <3> QED
        BY <1>1, <1>4, <2>1, <3>2 DEF Carried
    <2>2. CASE ~IsItem(g)
      <3>1. Made(To(g), at) \in stac'
        <4>1. CASE g = f
          BY <1>1, <2>2, <4>1
        <4>2. CASE g # f
          <5>1. Carried(g)
            BY <1>1, <1>3, <1>5, <4>2
          <5> QED
            BY <1>1, <2>2, <5>1 DEF Carried
        <4> QED
          BY <4>1, <4>2
      <3> QED
        BY <1>1, <1>4, <2>2, <3>1 DEF Carried
    <2> QED
      BY <2>1, <2>2
  <1>6. left' \subseteq Tree'
    BY <1>1, <1>2, <1>3
  <1> QED
    BY <1>1, <1>2, <1>5, <1>6 DEF PlaceInv

\* The items beside the root are where their process brings them, but for the disk.
Placed ==
  \A f \in ItemsIn(Root.dir, out[at]) :
    Stands(f.name, at) \/ items[f.name] = Torn \/ NotMovedAt(f.name)

\* When every href has been seen, one is relative only where there is no asset.
LEMMA RewrittenPlaces ==
  ASSUME Base, StacInv, PlaceInv, pc = "rewrite", left = {}
  PROVE  Placed /\ OwnDoc /\ \A i \in Features : items[i] # Torn
  <1>1. AtWork /\ Root # None /\ at \in Nat
    BY StagingFacts DEF Staging
  <1>2. /\ OwnDoc /\ AssetsStay
        /\ \A f \in ItemsIn(Root.dir, out[at]) : items[f.name] # None \/ NotMovedAt(f.name)
        /\ \A i \in Features : items[i] = Brought(i, at, "relative") => Made(AssetOf[i], at) \notin stac
    BY DEF PlaceInv
  <1>3. ASSUME NEW i \in Features, items[i] # None
        PROVE  \E place \in {"relative", "STAC"} : items[i] = Brought(i, at, place)
    <2>1. Places = {"relative", "STAC"} /\ i \in ItemNames
      BY NameFacts DEF Places
    <2> QED
      BY <1>3, <2>1 DEF StacInv, Staging
  <1>4. ASSUME NEW i \in Features PROVE items[i] # Torn
    <2>1. CASE items[i] = None
      BY <2>1, NoneAssumption
    <2>2. CASE items[i] # None
      <3>1. PICK place \in {"relative", "STAC"} : items[i] = Brought(i, at, place)
        BY <1>3, <2>2
      <3> QED
        BY <1>1, <3>1, BroughtIs
    <2> QED
      BY <2>1, <2>2
  <1>5. ASSUME NEW f \in ItemsIn(Root.dir, out[at]), items[f.name] # None PROVE Stands(f.name, at)
    <2>1. PICK i : i = f.name /\ i \in Features
      BY DEF ItemsIn
    <2>2. PICK place \in {"relative", "STAC"} : items[i] = Brought(i, at, place)
      BY <1>3, <1>5, <2>1
    <2>3. PICK a : a = [dir |-> Root.dir \o AssetOf[i].dir, name |-> AssetOf[i].name]
      OBVIOUS
    <2>4. a \in out[at] => place # "relative"
      <3> SUFFICES ASSUME a \in out[at], place = "relative" PROVE FALSE
        OBVIOUS
      <3>1. a \in Tree /\ To(a) = AssetOf[i] /\ a.name \notin Features \cup ToSet(RootNames)
        BY <1>1, <2>1, <2>3, ToIs
      <3>2. Made(AssetOf[i], at) \in stac
        BY <1>2, <3>1 DEF AssetsStay
      <3> QED
        BY <1>2, <2>1, <2>2, <3>2
    <2> QED
      BY <2>1, <2>2, <2>3, <2>4 DEF Stands, Root
  <1> QED
    BY <1>2, <1>4, <1>5 DEF Placed

LEMMA PlaceStep ==
  ASSUME Base, StacInv, PlaceInv, [Next]_vars
  PROVE  PlaceInv'
  <1>1. CASE UNCHANGED vars
    <2>1. UNCHANGED <<at, pc, out, left, stac, doc, items>>
      BY <1>1 DEF vars, stacVars
    <2> QED
      BY <2>1 DEF PlaceInv, Carried, IsItem, To, Tree, Root, OwnDoc, AssetsStay, NotMovedAt, Stands
  <1>2. CASE pc' \notin Staging
    BY <1>2 DEF PlaceInv, Staging
  <1>3. CASE OldStacRemoved
    <2>1. pc' = "copytree" /\ left' = Under(Root.dir, out[at]) /\ UNCHANGED <<at, out>>
      BY <1>3 DEF OldStacRemoved
    <2>2. left' = Tree'
      BY <2>1 DEF Tree, Root
    <2> QED
      BY <2>1, <2>2 DEF PlaceInv
  <1>4. CASE Moved
    <2>1. /\ pc = "move" /\ left = {} /\ pc' = "rewrite" /\ UNCHANGED <<at, out, stac, doc, items>>
          /\ left' = {i \in Features : items[i] # None}
      BY <1>4 DEF Moved, stacVars
    <2>2. at \in Nat /\ Root' = Root /\ Tree' = Tree
      BY <2>1, StagingFacts DEF Staging, Root, Tree
    <2>3. OwnDoc' /\ AssetsStay'
      BY <2>1, <2>2 DEF PlaceInv, OwnDoc, AssetsStay, To
    <2>4. \A i \in Features : Brought(i, at, "relative") # None
      BY <2>2, BroughtIs
    <2>5. \A f \in ItemsIn(Root.dir, out[at]) :
            f.name \in Features /\ (items[f.name] = Brought(f.name, at, "relative") \/ NotMovedAt(f.name))
      BY <2>1 DEF PlaceInv, ItemsIn
    <2>6. \A f \in ItemsIn(Root.dir, out[at]) : items[f.name] # None \/ NotMovedAt(f.name)
      BY <2>4, <2>5
    <2>7. \A f \in ItemsIn(Root.dir, out[at])' : items'[f.name] # None \/ NotMovedAt(f.name)'
      BY <2>1, <2>2, <2>6 DEF ItemsIn, NotMovedAt
    <2>8. \A i \in Features : items'[i] = Brought(i, at', "relative") /\ i \notin left' => FALSE
      BY <2>1, <2>4
    <2> QED
      BY <2>1, <2>3, <2>7, <2>8 DEF PlaceInv, ItemsIn
  <1>5. CASE \E i \in left : RewriteHref(i)
    <2>1. PICK i \in left : RewriteHref(i)
      BY <1>5
    <2>2. /\ pc = "rewrite" /\ pc' = pc /\ UNCHANGED <<at, out, stac, doc>>
          /\ \/ items[i] = Torn /\ left' = left \ {i} /\ items' = [items EXCEPT ![i] = Brought(i, at, "STAC")]
             \/ left' = left /\ items' = [items EXCEPT ![i] = Torn]
             \/ Made(AssetOf[i], at) \notin stac /\ left' = left \ {i} /\ items' = items
      BY <2>1 DEF RewriteHref
    <2>3. /\ at \in Nat /\ Root' = Root /\ Tree' = Tree /\ i \in Features /\ i \in ItemNames
          /\ items \in [ItemNames -> Assets \cup {Torn, None}]
      BY <2>1, <2>2, StagingFacts, NameFacts DEF Staging, Root, Tree, Base, TypeOK, StageInv
    <2>4. PICK b, c : b = Brought(i, at, "STAC") /\ c = Brought(i, at, "relative")
      OBVIOUS
    <2>5. b # None /\ b.at = "STAC" /\ c # Torn /\ c.at = "relative" /\ Torn # None
      BY <2>3, <2>4, BroughtIs, NoneAssumption
    <2>6. OwnDoc' /\ AssetsStay'
      BY <2>2, <2>3 DEF PlaceInv, OwnDoc, AssetsStay, To
    <2>7. \A j \in ItemNames : items[j] # None => items'[j] # None
      BY <2>2, <2>3, <2>4, <2>5
    <2>8. \A f \in ItemsIn(Root.dir, out[at]) : items'[f.name] # None \/ NotMovedAt(f.name)
      BY <2>2, <2>7, NameFacts DEF PlaceInv, ItemsIn
    <2>9. \A f \in ItemsIn(Root.dir, out[at])' : items'[f.name] # None \/ NotMovedAt(f.name)'
      BY <2>2, <2>3, <2>8 DEF ItemsIn, NotMovedAt
    <2>10. ASSUME NEW j \in Features, items'[j] = Brought(j, at, "relative"), j \notin left'
           PROVE  Made(AssetOf[j], at) \notin stac
      <3>1. CASE j = i
        BY <2>1, <2>2, <2>3, <2>4, <2>5, <2>10, <3>1
      <3>2. CASE j # i
        <4>1. items'[j] = items[j] /\ j \notin left
          BY <2>2, <2>3, <2>10, <3>2, NameFacts
        <4> QED
          BY <2>2, <2>10, <4>1 DEF PlaceInv
      <3> QED
        BY <3>1, <3>2
    <2> QED
      BY <2>2, <2>6, <2>9, <2>10 DEF PlaceInv, ItemsIn
  <1>6. CASE Rewritten
    <2>1. pc = "rewrite" /\ left = {} /\ UNCHANGED <<at, out, stac, doc, items>>
      BY <1>6 DEF Rewritten, stacVars
    <2>2. Placed /\ OwnDoc
      BY <2>1, RewrittenPlaces
    <2>3. pc' \in {"next", "upload"} /\ Root' = Root
      BY <1>6, <2>1 DEF Rewritten, Root
    <2>4. CASE pc' = "upload"
      BY <2>1, <2>2, <2>3, <2>4 DEF PlaceInv, Placed, OwnDoc, Stands, NotMovedAt, ItemsIn
    <2> QED
      BY <1>2, <2>3, <2>4 DEF Staging
  <1>7. CASE \E i \in left : Upload(i)
    <2>1. PICK i \in left : Upload(i)
      BY <1>7
    <2>2. /\ pc = "upload" /\ pc' = pc /\ UNCHANGED <<at, out, stac, doc>>
          /\ \/ items' = [items EXCEPT ![i] = Brought(i, at, "s3")]
             \/ items' = [items EXCEPT ![i] = Torn]
      BY <2>1 DEF Upload
    <2>3. Root' = Root /\ items \in [ItemNames -> Assets \cup {Torn, None}]
      BY <2>2 DEF Root, Base, TypeOK
    <2>4. ASSUME NEW f \in ItemsIn(Root.dir, out[at])
          PROVE  Stands(f.name, at)' \/ items'[f.name] = Torn \/ NotMovedAt(f.name)'
      <3>1. f.name \in Features /\ f.name \in ItemNames
        BY NameFacts DEF ItemsIn
      <3>2. CASE f.name = i /\ items' = [items EXCEPT ![i] = Brought(i, at, "s3")]
        <4>1. items'[f.name] = Brought(f.name, at, "s3") /\ "s3" # "relative"
          BY <2>3, <3>1, <3>2
        <4> QED
          BY <2>2, <4>1 DEF Stands
      <3>3. CASE f.name = i /\ items' = [items EXCEPT ![i] = Torn]
        BY <2>3, <3>1, <3>3
      <3>4. CASE f.name # i
        <4>1. items'[f.name] = items[f.name]
          BY <2>2, <2>3, <3>1, <3>4
        <4>2. Stands(f.name, at) \/ items[f.name] = Torn \/ NotMovedAt(f.name)
          BY <2>2 DEF PlaceInv
        <4> QED
          BY <2>2, <4>1, <4>2 DEF Stands, NotMovedAt
      <3> QED
        BY <2>2, <3>2, <3>3, <3>4
    <2>5. Placed'
      <3>1. ItemsIn(Root.dir, out[at])' = ItemsIn(Root.dir, out[at])
        BY <2>2, <2>3 DEF ItemsIn
      <3> QED
        BY <2>4, <3>1 DEF Placed
    <2>6. OwnDoc'
      BY <2>2, <2>3 DEF PlaceInv, OwnDoc
    <2> QED
      BY <2>2, <2>5, <2>6 DEF PlaceInv, Placed
  <1>8. CASE \E i \in left : NotUploaded(i)
    <2>1. /\ pc = "upload" /\ pc' = pc /\ UNCHANGED <<at, out, stac, doc, items>>
      BY <1>8 DEF NotUploaded, stacVars
    <2>2. Root' = Root
      BY <2>1 DEF Root
    <2> QED
      BY <2>1, <2>2 DEF PlaceInv, OwnDoc, Stands, NotMovedAt, ItemsIn
  <1>9. CASE \E i \in left : MoveItem(i) \/ NotMoved(i)
    BY <1>9, MovePlaces
  <1>10. CASE Rename \/ \E f \in left : CopyTree(f)
    BY <1>10, RenamePlaces, CopyPlaces
  <1>11. CASE RemoveOldStac \/ UploadStops \/ Uploaded
    BY <1>2, <1>11 DEF RemoveOldStac, UploadStops, Uploaded, Staging
  <1>12. CASE SaveResult \/ Begin \/ Calrissian \/ CollectSteps \/ CliSteps \/ Stops
    BY <1>2, <1>12, OtherFrame, CliFrame, StopFrame DEF Staging, Behind
  <1> QED
    BY <1>1, <1>3, <1>4, <1>5, <1>6, <1>7, <1>8, <1>9, <1>10, <1>11, <1>12, NextIs DEF StacSteps, ItemSteps

-----------------------------------------------------------------------------
(* What stands *)

\* The last STAC brought is of a process that is done.
LEMMA RootedIs ==
  ASSUME Base
  PROVE  /\ Rooted \subseteq Done /\ Done \subseteq 1 .. at /\ at \in Nat
         /\ Rooted # {} => Max(Rooted) \in Rooted
  <1>1. Rooted \subseteq Done /\ Done \subseteq 1 .. at /\ at \in Nat
    BY GraphFacts DEF Rooted, Done, Base
  <1>2. Rooted # {} => Max(Rooted) \in Rooted
    <2>1. PICK S, k : S = Rooted /\ k = at
      OBVIOUS
    <2>2. k \in Nat /\ S \subseteq 1 .. k
      BY <1>1, <2>1
    <2>3. S # {} => Max(S) \in S
      BY <2>2, GreatestIn
    <2> QED
      BY <2>1, <2>3
  <1> QED
    BY <1>1, <1>2

\* The steps between which a STAC stands, and what stands of the one of process n.
Standing == pc \in {"next", "calrissian", "collect", "describe", "exited", "gave_up"}
RootOf(n) == find_stac_root(out[n])
DocOk(n) ==
  \/ doc = [by |-> n, name |-> RootOf(n).name]
  \/ Described /\ pc \in {"describe", "exited", "gave_up"} /\ doc \in {Torn, CliDoc}
ItemOk(i, n) ==
  \/ Stands(i, n) \/ Remade(i)
  \/ "disk" \in Faults /\ (items[i] = Torn \/ Made(Top(i), n) \in stac)
AllOk(n) == DocOk(n) /\ \A f \in ItemsIn(RootOf(n).dir, out[n]) : ItemOk(f.name, n)

LEMMA StandsAre == StacStands <=> (Standing /\ Rooted # {} => AllOk(Max(Rooted)))
  BY DEF StacStands, Standing, AllOk, DocOk, ItemOk, RootOf

\* A step that brings no STAC leaves the last one standing.
LEMMA StandsFrame ==
  ASSUME Base, StacStands, [Next]_vars, ~Stopped', Standing,
         Done' = Done \/ Root = None,
         \A n \in Done : DocOk(n) =>
           DocOk(n)' /\ \A i \in Features : ItemOk(i, n) => ItemOk(i, n)'
  PROVE  StacStands'
  <1>1. /\ graph' = graph /\ at \in Nat /\ Done \subseteq 1 .. at
        /\ \A n \in Done : out'[n] = out[n]
        /\ Done' = Done \/ OneMore
    BY DoneStep
  <1>2. Rooted' = Rooted
    <2>1. CASE Done' = Done
      BY <1>1, <2>1 DEF Rooted
    <2>2. CASE Done' # Done
      <3>1. Done' = Done \cup {at} /\ out' = out /\ find_stac_root(out[at]) = None
        BY <1>1, <2>2 DEF OneMore, Root
      <3> QED
        BY <3>1 DEF Rooted
    <2> QED
      BY <2>1, <2>2
  <1>3. SUFFICES ASSUME Rooted # {} PROVE StacStands'
    BY <1>2 DEF StacStands
  <1>4. PICK n : n = Max(Rooted) /\ n \in Rooted
    BY <1>3, RootedIs
  <1>5. n = Max(Rooted') /\ n \in Done /\ out'[n] = out[n]
    BY <1>1, <1>2, <1>4, RootedIs
  <1>6. AllOk(n)
    BY <1>3, <1>4, StandsAre
  <1>7. \A f \in ItemsIn(RootOf(n).dir, out[n]) : f.name \in Features
    BY DEF ItemsIn
  <1>8. AllOk(n)'
    BY <1>5, <1>6, <1>7 DEF AllOk, RootOf
  <1> QED
    BY <1>5, <1>8 DEF StacStands, AllOk, DocOk, ItemOk, RootOf

\* A process that has brought its STAC is the last that has.
LEMMA StandsNew ==
  ASSUME Base, [Next]_vars, Placed, OwnDoc, UNCHANGED <<at, graph, out, stac, doc, items>>,
         AtWork, Root # None, pc' = "next",
         "disk" \in Faults \/ \A i \in Features : items[i] # Torn
  PROVE  StacStands'
  <1>1. OneMore
    <2>1. at \in 1 .. at /\ graph[at] = "cwl"
      <3>1. at \in 1 .. Len(graph) /\ graph[at] = "cwl" /\ at \in Nat
        BY WorkFacts, GraphFacts DEF Base
      <3> QED
        BY <3>1
    <2>2. at \in Done' /\ at \notin Done
      BY <2>1, GraphFacts DEF Done, AtWork, Base, Staging
    <2> QED
      BY <2>2, DoneStep DEF Stopped
  <1>2. at \in Done' /\ at \in Nat /\ \A n \in Done' : n \in Nat /\ n <= at
    <2>1. Done \subseteq 1 .. at /\ at \in Nat /\ Done' = Done \cup {at}
      BY <1>1, RootedIs DEF OneMore
    <2> QED
      BY <2>1
  <1>3. PICK S : S = Rooted'
    OBVIOUS
  <1>4. at \in S /\ S \subseteq Done'
    BY <1>2, <1>3 DEF Rooted, Root
  <1>5. S \subseteq Nat /\ \A n \in S : n <= at
    BY <1>2, <1>4
  <1>6. Max(S) = at
    BY <1>4, <1>5, GreatestIs
  <1>7. PICK n : n = at /\ n = Max(Rooted')
    BY <1>3, <1>6
  <1>8. DocOk(n)'
    BY <1>7 DEF OwnDoc, DocOk, RootOf, Root
  <1>9. ASSUME NEW f \in ItemsIn(RootOf(n).dir, out[n])' PROVE ItemOk(f.name, n)'
    <2>1. f.name \in Features /\ f \in ItemsIn(Root.dir, out[at])
      BY <1>7 DEF ItemsIn, Root, RootOf
    <2>2. Stands(f.name, n) \/ ("disk" \in Faults /\ (items[f.name] = Torn \/ Made(Top(f.name), n) \in stac))
      BY <1>7, <2>1 DEF Placed, NotMovedAt
    <2> QED
      BY <2>2 DEF ItemOk, Stands
  <1>10. AllOk(n)'
    BY <1>8, <1>9 DEF AllOk
  <1> QED
    BY <1>7, <1>10 DEF StacStands, AllOk, DocOk, ItemOk, RootOf

LEMMA StandsStep ==
  ASSUME Base, StacInv, PlaceInv, DescribeInv, StacStands, [Next]_vars
  PROVE  StacStands'
  <1>1. CASE UNCHANGED vars
    <2>1. UNCHANGED <<graph, at, pc, out, results, stac, doc, items>>
      BY <1>1 DEF vars, stacVars
    <2>2. Rooted' = Rooted
      BY <2>1 DEF Rooted, Done
    <2> QED
      BY <2>1, <2>2 DEF StacStands, Stands, Remade, Described, HasPackage, HasNetCDF
  <1>2. CASE ~Standing'
    BY <1>2 DEF StacStands, Standing
  <1>3. CASE pc \in {"next", "calrissian", "collect"} /\ Standing' /\ UNCHANGED <<stac, doc, items>>
    <2>1. ~Stopped' /\ Standing
      BY <1>3 DEF Stopped, Standing
    <2>2. Done' = Done \/ Root = None
      <3>1. CASE pc = "collect"
        BY <3>1 DEF Base, StageInv
      <3>2. CASE pc = "calrissian"
        <4>1. pc' # "next"
          <5>1. Calrissian \/ UNCHANGED vars \/ Stops
            BY <3>2, CollectFrame, StacFrame, CliFrame, NextIs DEF SaveResult, Begin, Staging, AllDone
          <5> QED
            BY <3>2, <5>1, StopFrame DEF Calrissian, vars
        <4> QED
          BY <2>1, <4>1, DoneStep DEF OneMore
      <3>3. CASE pc = "next"
        BY <2>1, <3>3, DoneStep DEF OneMore, AtWork, Staging
      <3> QED
        BY <1>3, <3>1, <3>2, <3>3
    <2>3. ASSUME NEW n \in Done, DocOk(n)
          PROVE  DocOk(n)' /\ \A i \in Features : ItemOk(i, n) => ItemOk(i, n)'
      <3>1. doc = [by |-> n, name |-> RootOf(n).name]
        BY <1>3, <2>3 DEF DocOk
      <3>2. out'[n] = out[n] /\ n \in 1 .. at
        BY <2>1, <2>3, DoneStep
      <3>3. doc # CliDoc
        <4>1. n # 0
          <5>1. at \in Nat
            BY DoneFacts, RootedIs
          <5> QED
            BY <3>2, <5>1
        <4>2. doc.by = n
          BY <3>1
        <4> QED
          BY <4>1, <4>2, CliDocIs
      <3>4. DocOk(n)'
        BY <1>3, <3>1, <3>2 DEF DocOk, RootOf
      <3>5. ASSUME NEW i \in Features, ItemOk(i, n) PROVE ItemOk(i, n)'
        <4>1. Stands(i, n) \/ ("disk" \in Faults /\ (items[i] = Torn \/ Made(Top(i), n) \in stac))
          BY <3>3, <3>5 DEF ItemOk, Remade
        <4> QED
          BY <1>3, <3>2, <4>1 DEF ItemOk, Stands
      <3> QED
        BY <3>4, <3>5
    <2> QED
      BY <2>1, <2>2, <2>3, StandsFrame
  <1>4. CASE pc = "describe" /\ CliSteps
    <2>1. /\ UNCHANGED <<graph, at, out, results, stac>> /\ pc' \in {"describe", "exited", "gave_up"}
      BY <1>4, CliFrame DEF AllDone, Behind
    <2>2. ~Stopped' /\ Standing
      BY <1>4, <2>1 DEF Stopped, Standing
    <2>3. Done' = Done
      BY <1>4, <2>2, DoneStep DEF OneMore, AtWork, Staging
    <2>4. Described /\ Described'
      BY <1>4, <2>1 DEF DescribeInv, Described, HasPackage, HasNetCDF
    <2>5. ASSUME NEW n \in Done, DocOk(n)
          PROVE  DocOk(n)' /\ \A i \in Features : ItemOk(i, n) => ItemOk(i, n)'
      <3>1. CASE WriteDoc
        <4>1. doc # CliDoc /\ doc' \in {Torn, CliDoc} /\ items' = items
          BY <3>1 DEF WriteDoc
        <4>2. DocOk(n)'
          BY <2>1, <2>4, <4>1 DEF DocOk
        <4>3. ASSUME NEW i \in Features, ItemOk(i, n) PROVE ItemOk(i, n)'
          <5>1. Stands(i, n) \/ ("disk" \in Faults /\ (items[i] = Torn \/ Made(Top(i), n) \in stac))
            BY <4>1, <4>3 DEF ItemOk, Remade
          <5> QED
            BY <2>1, <4>1, <5>1 DEF ItemOk, Stands
        <4> QED
          BY <4>2, <4>3
      <3>2. CASE \E j \in left : WriteItem(j)
        <4>1. PICK j \in left : WriteItem(j)
          BY <3>2
        <4>2. /\ doc = CliDoc /\ doc' = doc
              /\ \/ items' = [items EXCEPT ![j] = Torn]
                 \/ \E f \in results :
                      /\ ItemFileOf[f.name] = j
                      /\ items' = [items EXCEPT ![j] = [by |-> f.by, file |-> Path(f), at |-> "RESULTS"]]
          BY <4>1 DEF WriteItem
        <4>3. DocOk(n)'
          BY <2>1, <2>4, <4>2 DEF DocOk
        <4>4. items \in [ItemNames -> Assets \cup {Torn, None}]
          BY DEF Base, TypeOK
        <4>5. ASSUME NEW i \in Features, ItemOk(i, n) PROVE ItemOk(i, n)'
          <5>1. i \in ItemNames
            BY NameFacts
          <5>2. CASE i = j
            <6>1. Remade(i)'
              BY <2>1, <4>2, <4>4, <5>1, <5>2 DEF Remade
            <6> QED
              BY <6>1 DEF ItemOk
          <5>3. CASE i # j
            <6>1. items'[i] = items[i]
              BY <4>2, <4>4, <5>1, <5>3
            <6> QED
              BY <2>1, <4>2, <4>5, <6>1 DEF ItemOk, Remade, Stands
          <5> QED
            BY <5>2, <5>3
        <4> QED
          BY <4>3, <4>5
      <3>3. CASE UNCHANGED <<doc, items>>
        <4>1. DocOk(n)'
          BY <2>1, <2>4, <2>5, <3>3 DEF DocOk, RootOf
        <4>2. \A i \in Features : ItemOk(i, n) => ItemOk(i, n)'
          BY <2>1, <3>3 DEF ItemOk, Remade, Stands
        <4> QED
          BY <4>1, <4>2
      <3> QED
        BY <1>4, <3>1, <3>2, <3>3 DEF CliSteps, Undescribed, Describe, Exit, GiveUp, stacVars
    <2> QED
      BY <2>2, <2>3, <2>5, StandsFrame
  <1>5. CASE StacSteps /\ Standing'
    <2>1. pc' = "next" /\ pc \in {"rewrite", "upload"}
      BY <1>5, StacFrame DEF Standing, Staging
    <2>2. Rewritten \/ UploadStops \/ Uploaded
      <3>1. pc' # pc
        BY <2>1
      <3>2. ~\E i \in left : ItemSteps(i)
        BY <3>1 DEF ItemSteps, MoveItem, NotMoved, RewriteHref, Upload, NotUploaded
      <3> QED
        BY <1>5, <2>1, <3>2 DEF StacSteps, RemoveOldStac, OldStacRemoved, Rename, Moved, CopyTree
    <2>3. UNCHANGED <<at, graph, out, stac, doc, items>>
      BY <2>2 DEF Rewritten, UploadStops, Uploaded, stacVars
    <2>4. AtWork /\ Root # None
      BY <2>1 DEF AtWork, Staging, Base, StageInv
    <2>5. Placed /\ OwnDoc /\ ("disk" \in Faults \/ \A i \in Features : items[i] # Torn)
      <3>1. CASE Rewritten
        <4>1. pc = "rewrite" /\ left = {}
          BY <3>1 DEF Rewritten
        <4> QED
          BY <4>1, RewrittenPlaces
      <3>2. CASE UploadStops
        BY <3>2 DEF UploadStops, PlaceInv, Placed
      <3>3. CASE Uploaded
        <4>1. pc = "upload" /\ left = {}
          BY <3>3 DEF Uploaded
        <4>2. \A i \in Features : items[i] # Torn
          <5> SUFFICES ASSUME NEW i \in Features, items[i] = Torn PROVE FALSE
            OBVIOUS
          <5>1. i \in ItemNames /\ items[i] # None /\ at \in Nat
            BY <4>1, NameFacts, NoneAssumption, StagingFacts DEF Staging
          <5>2. PICK place \in Places : items[i] = Brought(i, at, place)
            BY <4>1, <5>1 DEF StacInv, Staging
          <5>3. place \in {"relative", "STAC", "s3"}
            BY <4>1, <5>2 DEF Places
          <5> QED
            BY <5>1, <5>2, <5>3, BroughtIs
        <4> QED
          BY <4>1, <4>2 DEF PlaceInv, Placed
      <3> QED
        BY <2>2, <3>1, <3>2, <3>3
    <2> QED
      BY <2>1, <2>3, <2>4, <2>5, StandsNew
  <1>6. CASE SaveResult \/ Begin \/ Calrissian \/ CollectSteps
    BY <1>2, <1>3, <1>6, OtherFrame
  <1>7. CASE CliSteps
    <2>1. CASE pc = "describe"
      BY <1>4, <1>7, <2>1
    <2>2. CASE pc # "describe"
      BY <1>2, <1>3, <1>7, <2>2, CliFrame DEF AllDone
    <2> QED
      BY <2>1, <2>2
  <1>8. CASE Stops
    BY <1>2, <1>8, StopFrame DEF Standing
  <1> QED
    BY <1>1, <1>2, <1>5, <1>6, <1>7, <1>8, NextIs

-----------------------------------------------------------------------------
(* The theorems *)

LEMMA InitInv == Init => IInv
  <1> SUFFICES ASSUME Init PROVE IInv
    OBVIOUS
  <1>1. /\ graph \in Graphs /\ at = 0 /\ pc = "next" /\ halt = None /\ out = [n \in 1 .. Len(graph) |-> {}]
        /\ left = {} /\ work = {} /\ results = {} /\ stac = {} /\ doc = None
        /\ items = NoItems /\ bucket = [n \in Names |-> None]
    BY DEF Init
  <1>2. Len(graph) \in Nat
    BY <1>1, GraphsAssumption
  <1>3. TypeOK
    BY <1>1, <1>2 DEF TypeOK, Steps, NoItems
  <1>4. StageInv /\ WorkDirGone
    BY <1>1 DEF StageInv, WorkDirGone, Staging
  <1>5. Done = {} /\ Rooted = {} /\ 1 .. at = {}
    BY <1>1 DEF Done, Rooted
  <1>6. Kept
    BY <1>1, <1>5 DEF Kept, OriginInv, PathInv, PackageInv, OneDirs, CollectInv, DescribeInv, OutputsListed
  <1>7. \A i \in ItemNames : items[i] = None
    BY <1>1 DEF NoItems
  <1>8. OneStac /\ StacInv /\ LinksLeadHome /\ PlaceInv /\ StacStands
    <2>1. None \notin Assets
      BY NoneAssumption
    <2> QED
      BY <1>1, <1>5, <1>7, <2>1 DEF OneStac, StacInv, LinksLeadHome, PlaceInv, StacStands, Staging
  <1> QED
    BY <1>3, <1>4, <1>6, <1>8 DEF IInv, Base

LEMMA StepInv == IInv /\ [Next]_vars => IInv'
  <1> SUFFICES ASSUME IInv, [Next]_vars PROVE IInv'
    OBVIOUS
  <1>1. Base'
    BY TypeStep DEF IInv, Base
  <1>2. OriginInv' /\ PathInv' /\ PackageInv' /\ OneDirs'
    BY ResultsStep DEF IInv, Base, Kept
  <1>3. CollectInv' /\ DescribeInv' /\ OutputsListed'
    BY KeptStep, DescribeStep, ListedStep DEF IInv, Kept
  <1>4. OneStac' /\ StacInv'
    BY OneStep, StacInvStep DEF IInv
  <1>5. LinksLeadHome'
    BY <1>4, LinksStep DEF IInv
  <1>6. PlaceInv' /\ StacStands'
    BY PlaceStep, StandsStep DEF IInv, Kept
  <1> QED
    BY <1>1, <1>2, <1>3, <1>4, <1>5, <1>6 DEF IInv, Kept

\* The inductive invariant holds at every step of every job: of any processes, with a
\* package in any directory the user gives, killed or failing at any file.
THEOREM CwlInvariant == Spec => []IInv
  BY InitInv, StepInv, PTL DEF Spec

\* Every variable keeps its type, whatever Calrissian leaves.
THEOREM CwlTypeOK == Spec => []TypeOK
  <1>1. IInv => TypeOK
    BY DEF IInv, Base
  <1> QED
    BY <1>1, CwlInvariant, PTL

\* No process leaves its working directory behind but in a pod that is killed: run_cwl is
\* all inside the TemporaryDirectory, whichever way it is left.
THEOREM NoWorkDirLeft == Spec => []WorkDirGone
  <1>1. IInv => WorkDirGone
    BY DEF IInv, Base
  <1> QED
    BY <1>1, CwlInvariant, PTL

\* Whatever processes run one after the other, none mixes its files with those of an
\* earlier one: rmtree before copytree sees to that in STAC, copytree into RESULTS by
\* refusing a directory that is there, and save_result by a new name, unless the user gave
\* it the output_folder.
THEOREM OneProcessPerDirectory == Spec => []NoMixedDirectories
  <1>1. IInv => NoMixedDirectories
    BY DEF IInv, Kept, OneDirs, OneStac, NoMixedDirectories
  <1> QED
    BY <1>1, CwlInvariant, PTL

\* Every href that was rewritten leads to the file of the process that made its item, at
\* every step, with any failure of an upload or a write, and in a job that was killed or
\* failed anywhere but in rmtree; on S3 unless two listed items have assets of one name in
\* different directories.
THEOREM EveryLinkLeadsHome == Spec => []LinksLeadHome
  <1>1. IInv => LinksLeadHome
    BY DEF IInv
  <1> QED
    BY <1>1, CwlInvariant, PTL

\* The STAC of the last process that brought one stands for as long as no other one comes,
\* but for what create_cwl_stac writes over it and what the disk would not take.
THEOREM LastStacStands == Spec => []StacStands
  <1>1. IInv => StacStands
    BY DEF IInv
  <1> QED
    BY <1>1, CwlInvariant, PTL

\* A job that exits with 0, and whose create_cwl_stac did not give up, has listed what its
\* last process made.
THEOREM LastOutputsListed == Spec => []OutputsListed
  <1>1. IInv => OutputsListed
    BY DEF IInv, Kept
  <1> QED
    BY <1>1, CwlInvariant, PTL
=============================================================================
