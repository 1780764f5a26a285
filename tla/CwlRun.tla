------------------------------- MODULE CwlRun -------------------------------
(***************************************************************************)
(* run_cwl in cwl.py and the part of cli.py behind it: the processes of one *)
(* CWL job run one after the other.  Calrissian leaves a tree of files in a *)
(* working directory; from there they go to STAC, when there is a STAC root *)
(* among them, or else to RESULTS, and what get_results lists is made.      *)
(*                                                                          *)
(* A file is a directory (a sequence of names) and a name.  An item file    *)
(* has one asset, whose href is relative to the STAC root until it is       *)
(* rewritten.  Directories are walked in any order, a file at a time; a     *)
(* document that is opened for writing is torn until it is written.         *)
(***************************************************************************)
EXTENDS Naturals, SequencesExt, FiniteSetsExt

CONSTANTS
  Graphs,     \* sequences of the processes a job may have: "cwl", "validate" or "save"
  Trees,      \* what Calrissian may leave: sets of files
  Packages,   \* the files that save_result writes to RESULTS as the n-th process
  Given,      \* the processes of which the user gives the output_folder
  Features,   \* the names of STAC item files
  AssetOf,    \* the file an item's asset is, by name of the item, from the STAC root on
  ItemFileOf, \* the name of the item file made for a file: its stem and .json
  NetCDF,     \* names that end with .nc
  Collections, \* names of JSON files that are STAC collections
  NoObjects,  \* names of JSON files whose value is not an object
  Dirs,       \* the top level directories of trees, sorted
  S3,         \* is S3 configured?
  Faults,     \* what may go wrong: "raise" (at any call that no one catches), "disk" (in
              \* a try: a move or a write), "upload", "kill"
  Torn, None

RootNames == <<"catalog.json", "catalogue.json", "collection.json">>

Files == [dir : Seq(STRING), name : STRING]

ASSUME GraphsAssumption ==
  \A g \in Graphs : g \in Seq({"cwl", "validate", "save"}) /\ Len(g) <= Len(Packages)

ASSUME TreesAssumption ==
  /\ Dirs \in Seq(STRING) /\ Trees \subseteq SUBSET Files
  /\ \A T \in Trees : \A f \in T : f.dir # <<>> => Head(f.dir) \in ToSet(Dirs)

\* A package has a collection.  It has a directory of its own, named by a new uuid, unless
\* the user gives one: then it may be any, also one that others write to.
ASSUME PackagesAssumption ==
  /\ Packages \in Seq(SUBSET Files)
  /\ \A n \in DOMAIN Packages :
       /\ Packages[n] # {} => \E f \in Packages[n] : f.name \in Collections
       /\ n \notin Given =>
            \A f \in Packages[n] :
              /\ f.dir # <<>> /\ Head(f.dir) \notin ToSet(Dirs)
              /\ \A m \in DOMAIN Packages \ {n} : \A g \in Packages[m] :
                   g.dir # <<>> => Head(g.dir) # Head(f.dir)

\* An item is not called as a STAC root, and its asset is neither.
ASSUME ItemsAssumption ==
  /\ Features \cap ToSet(RootNames) = {}
  /\ AssetOf \in [Features -> {f \in Files : f.name \notin Features \cup ToSet(RootNames)}]

VARIABLES
  graph,     \* the job's processes
  at,        \* the number of the one that runs
  pc,        \* its next step
  halt,      \* the step at which the job failed or was killed
  out,       \* the tree Calrissian leaves, by the number of its process
  left,      \* what the loop that runs has still to do: files or names of items
  work,      \* the working directories that exist, by number
  results,   \* files under RESULTS, each with the number of the process that made it
  stac,      \* files under STAC, other than the root and those in items
  doc,       \* STAC/{job_id}.json: number and name of its origin, Torn or None
  items,     \* STAC/items: what a file says of its asset, Torn or None
  bucket     \* S3: the file that is stored under a name

stacVars == <<stac, doc, items, bucket>>
vars     == <<graph, at, pc, halt, out, left, work, results, stacVars>>

Names     == UNION {{f.name : f \in T} : T \in Trees \cup ToSet(Packages)}
ItemNames == Features \cup {ItemFileOf[n] : n \in Names}
Numbers   == Nat
Stored    == [dir : Seq(STRING), name : Names, by : Numbers]
\* The asset of an item: whose file, which, and where the href points.
Assets    == [by : Numbers, file : Files, at : {"relative", "STAC", "RESULTS", "s3"}]
Roots     == [by : Numbers, name : ToSet(RootNames)]
\* What create_cwl_stac writes; processes have higher numbers.
CliDoc    == [by |-> 0, name |-> "collection.json"]
Steps     == {"next", "calrissian", "collect", "rmtree", "copytree", "rename", "move",
              "rewrite", "upload", "describe", "exited", "gave_up", "failed", "killed"}

ASSUME NoneAssumption ==
  None \notin Assets \cup Roots \cup Steps /\ Torn \notin Assets \cup Roots \cup {None}

Ended == pc \in {"exited", "gave_up", "failed", "killed"}
Under(d, files)   == {f \in files : IsPrefix(d, f.dir)}
Path(f)           == [dir |-> f.dir, name |-> f.name]
Made(f, n)        == [dir |-> f.dir, name |-> f.name, by |-> n]
Top(n)            == [dir |-> <<>>, name |-> n]
Without(d, dir)   == SubSeq(dir, Len(d) + 1, Len(dir))
NoItems           == [i \in ItemNames |-> None]
\* The item that process n brings under the name i, with its href at some place.
Brought(i, n, place) == [by |-> n, file |-> AssetOf[i], at |-> place]

\* The names in a directory that a STAC root may have.
RootsIn(d, T) == {k \in DOMAIN RootNames : [dir |-> d, name |-> RootNames[k]] \in T}

\* _find_stac_root: the top level first, then each directory; in each the names in order.
find_stac_root(T) ==
  LET places == [k \in 1 .. Len(Dirs) + 1 |-> IF k = 1 THEN <<>> ELSE <<Dirs[k - 1]>>]
      found  == {k \in DOMAIN places : RootsIn(places[k], T) # {}}
      first  == places[Min(found)]
  IN  IF found = {} THEN None ELSE [dir |-> first, name |-> RootNames[Min(RootsIn(first, T))]]

Init ==
  /\ graph \in Graphs
  /\ at = 0 /\ pc = "next" /\ halt = None
  /\ out = [n \in 1 .. Len(graph) |-> {}]
  /\ left = {} /\ work = {}
  /\ results = {} /\ stac = {}
  /\ doc = None
  /\ items = NoItems
  /\ bucket = [n \in Names |-> None]

-----------------------------------------------------------------------------
(* One process *)

\* save_result writes a package, over files of the same names; run_udf then stages the
\* path it returns.
SaveResult ==
  /\ pc = "next" /\ at < Len(graph) /\ graph[at + 1] = "save"
  /\ at' = at + 1
  /\ results' = {h \in results : Path(h) \notin Packages[at + 1]}
                  \cup {Made(f, at + 1) : f \in Packages[at + 1]}
  /\ UNCHANGED <<graph, pc, halt, out, left, work, stacVars>>

\* The working directory is made, and the document fetched and validated.  With
\* validate_only that is all, and the directory goes.
Begin ==
  /\ pc = "next" /\ at < Len(graph) /\ graph[at + 1] # "save"
  /\ at' = at + 1
  /\ IF graph[at + 1] = "validate" THEN UNCHANGED <<pc, work>>
     ELSE pc' = "calrissian" /\ work' = {at + 1}
  /\ UNCHANGED <<graph, halt, out, left, results, stacVars>>

\* Calrissian returns 0, or exits with it.
Calrissian ==
  /\ pc = "calrissian"
  /\ \E T \in Trees :
       /\ out' = [out EXCEPT ![at] = T]
       /\ IF find_stac_root(T) = None THEN pc' = "collect" /\ left' = T
          ELSE pc' = "rmtree" /\ left' = {}
  /\ UNCHANGED <<graph, at, halt, work, results, stacVars>>

\* Variant: the working directory is left when an exception ends the job.
RaisesAndLeaves ==
  /\ "raise" \in Faults
  /\ ~Ended /\ pc # "describe"
  /\ pc' = "failed" /\ halt' = pc
  /\ UNCHANGED <<graph, at, out, left, work, results, stacVars>>

\* A document that is not valid, a return code that is not 0, any call that raises where
\* no one catches: the working directory goes and the job fails.
Raises ==
  /\ "raise" \in Faults
  /\ ~Ended /\ pc # "describe"
  /\ pc' = "failed" /\ halt' = pc
  /\ work' = {}
  /\ UNCHANGED <<graph, at, out, left, results, stacVars>>

\* The pod is killed: nothing is cleaned up.
Killed ==
  /\ "kill" \in Faults
  /\ ~Ended
  /\ pc' = "killed" /\ halt' = pc
  /\ UNCHANGED <<graph, at, out, left, work, results, stacVars>>

-----------------------------------------------------------------------------
(* _collect_calrissian_outputs: no STAC root *)

\* Other processes' files in the top level directory of a file.
Taken(f) == {g \in results : f.dir # <<>> /\ g.dir # <<>> /\ Head(g.dir) = Head(f.dir) /\ g.by # at}

\* Variant: a file that is there is kept.
CollectIfNew(f) ==
  /\ pc = "collect" /\ f \in left
  /\ Taken(f) = {}
  /\ left' = left \ {f}
  /\ results' = IF \E g \in results : Path(g) = f THEN results ELSE results \cup {Made(f, at)}
  /\ UNCHANGED <<graph, at, pc, halt, out, work, stacVars>>

\* Variant: dirs_exist_ok=True.
CollectIntoDir(f) ==
  /\ pc = "collect" /\ f \in left
  /\ left' = left \ {f}
  /\ results' = {g \in results : Path(g) # f} \cup {Made(f, at)}
  /\ UNCHANGED <<graph, at, pc, halt, out, work, stacVars>>

\* shutil.copy2 replaces a file of the same name.
CollectFile(f) ==
  /\ pc = "collect" /\ f \in left
  /\ Taken(f) = {}
  /\ left' = left \ {f}
  /\ results' = {g \in results : Path(g) # f} \cup {Made(f, at)}
  /\ UNCHANGED <<graph, at, pc, halt, out, work, stacVars>>

\* shutil.copytree raises when the directory is there.
DirectoryExists(f) ==
  /\ pc = "collect" /\ f \in left
  /\ Taken(f) # {}
  /\ pc' = "failed" /\ halt' = pc /\ work' = {}
  /\ UNCHANGED <<graph, at, out, left, results, stacVars>>

Collected ==
  /\ pc = "collect" /\ left = {}
  /\ pc' = "next" /\ work' = {}
  /\ UNCHANGED <<graph, at, halt, out, left, results, stacVars>>

-----------------------------------------------------------------------------
(* A STAC root: the directory it is in becomes STAC *)

Root == find_stac_root(out[at])

\* shutil.rmtree, a file at a time.
RemoveOldStac ==
  /\ pc = "rmtree"
  /\ \/ \E f \in stac : stac' = stac \ {f} /\ UNCHANGED <<doc, items>>
     \/ doc # None /\ doc' = None /\ UNCHANGED <<stac, items>>
     \/ \E i \in ItemNames :
          items[i] # None /\ items' = [items EXCEPT ![i] = None] /\ UNCHANGED <<stac, doc>>
  /\ UNCHANGED <<graph, at, pc, halt, out, left, work, results, bucket>>

\* Variant: what could not be removed stays, and copytree would have to allow for it.
KeepOldStac ==
  /\ pc = "rmtree"
  /\ pc' = "copytree" /\ left' = Under(Root.dir, out[at])
  /\ UNCHANGED <<graph, at, halt, out, work, results, stacVars>>

OldStacRemoved ==
  /\ pc = "rmtree"
  /\ stac = {} /\ doc = None /\ items = NoItems
  /\ pc' = "copytree" /\ left' = Under(Root.dir, out[at])
  /\ UNCHANGED <<graph, at, halt, out, work, results, stacVars>>

\* Variant: the tree is copied with the directory that the root is in.
CopyTreeFromTop(f) ==
  /\ pc = "copytree" /\ f \in left
  /\ left' = left \ {f}
  /\ stac' = stac \cup {Made(f, at)}
  /\ UNCHANGED <<graph, at, pc, halt, out, work, results, doc, items, bucket>>

\* shutil.copytree(stac_root.parent, stac_path)
CopyTree(f) ==
  /\ pc = "copytree" /\ f \in left
  /\ left' = left \ {f}
  /\ LET to == [f EXCEPT !.dir = Without(Root.dir, f.dir)]
     IN  IF to.dir = <<"items">> /\ f.name \in Features
         THEN items' = [items EXCEPT ![f.name] = Brought(f.name, at, "relative")] /\ stac' = stac
         ELSE stac' = stac \cup {Made(to, at)} /\ items' = items
  /\ UNCHANGED <<graph, at, pc, halt, out, work, results, doc, bucket>>

\* The root becomes {job_id}.json.
Rename ==
  /\ pc = "copytree" /\ left = {}
  /\ stac' = stac \ {Made(Top(Root.name), at)}
  /\ doc' = [by |-> at, name |-> Root.name]
  /\ pc' = "move" /\ left' = {i \in Features : Made(Top(i), at) \in stac}
  /\ UNCHANGED <<graph, at, halt, out, work, results, items, bucket>>

\* Item files at the top are moved to items, over those of the same name.
MoveItem(i) ==
  /\ pc = "move" /\ i \in left
  /\ left' = left \ {i}
  /\ stac' = stac \ {Made(Top(i), at)}
  /\ items' = [items EXCEPT ![i] = Brought(i, at, "relative")]
  /\ UNCHANGED <<graph, at, pc, halt, out, work, results, doc, bucket>>

\* A file that cannot be read or moved is passed over.
NotMoved(i) ==
  /\ "disk" \in Faults
  /\ pc = "move" /\ i \in left
  /\ left' = left \ {i}
  /\ UNCHANGED <<graph, at, pc, halt, out, work, results, stacVars>>

Moved ==
  /\ pc = "move" /\ left = {}
  /\ pc' = "rewrite" /\ left' = {i \in Features : items[i] # None}
  /\ UNCHANGED <<graph, at, halt, out, work, results, stacVars>>

\* A relative href becomes a path if there is such a file in STAC: the item is opened for
\* writing, then written.
RewriteHref(i) ==
  /\ pc = "rewrite" /\ i \in left
  /\ IF items[i] = Torn
     THEN left' = left \ {i} /\ items' = [items EXCEPT ![i] = Brought(i, at, "STAC")]
     ELSE IF Made(AssetOf[i], at) \in stac
     THEN left' = left /\ items' = [items EXCEPT ![i] = Torn]
     ELSE left' = left \ {i} /\ items' = items
  /\ UNCHANGED <<graph, at, pc, halt, out, work, results, stac, doc, bucket>>

\* Without S3 the process ends here.
Rewritten ==
  /\ pc = "rewrite" /\ left = {}
  /\ IF S3 THEN /\ pc' = "upload" /\ work' = work
                /\ left' = {i \in Features : items[i] = Brought(i, at, "STAC")}
           ELSE pc' = "next" /\ work' = {} /\ left' = {}
  /\ UNCHANGED <<graph, at, halt, out, results, stacVars>>

\* Variant: an upload that fails leaves no href.
UploadOrClear(i) ==
  /\ "upload" \in Faults
  /\ pc = "upload" /\ i \in left /\ items[i] # Torn
  /\ left' = left \ {i}
  /\ items' = [items EXCEPT ![i].at = None]
  /\ UNCHANGED <<graph, at, pc, halt, out, work, results, stac, doc, bucket>>

\* upload_to_s3 returns the local path when an upload fails.
NotUploaded(i) ==
  /\ "upload" \in Faults
  /\ pc = "upload" /\ i \in left /\ items[i] # Torn
  /\ left' = left \ {i}
  /\ UNCHANGED <<graph, at, pc, halt, out, work, results, stacVars>>

\* The asset is stored under its name, in the job's one directory of S3, and the item is
\* opened for writing, then written.
Upload(i) ==
  /\ pc = "upload" /\ i \in left
  /\ IF items[i] = Torn
     THEN /\ left' = left \ {i} /\ bucket' = bucket
          /\ items' = [items EXCEPT ![i] = Brought(i, at, "s3")]
     ELSE /\ left' = left
          /\ bucket' = [bucket EXCEPT ![AssetOf[i].name] = Made(AssetOf[i], at)]
          /\ items' = [items EXCEPT ![i] = Torn]
  /\ UNCHANGED <<graph, at, pc, halt, out, work, results, stac, doc>>

\* A write that fails ends the upload, not the job: run_cwl goes on.
UploadStops ==
  /\ "disk" \in Faults
  /\ pc = "upload" /\ left # {}
  /\ pc' = "next" /\ work' = {} /\ left' = {}
  /\ UNCHANGED <<graph, at, halt, out, results, stacVars>>

Uploaded ==
  /\ pc = "upload" /\ left = {}
  /\ pc' = "next" /\ work' = {}
  /\ UNCHANGED <<graph, at, halt, out, left, results, stacVars>>

-----------------------------------------------------------------------------
(* Behind the processes: cli.py *)

\* _find_stac_collections and the file names: what RESULTS has at any depth.
HasPackage == \E f \in results : f.name \in Collections
HasArray   == \E f \in results : f.name \in NoObjects
HasNetCDF  == \E f \in results : f.name \in NetCDF
Described  == results # {} /\ ~HasPackage /\ ~HasNetCDF
AllDone    == pc = "next" /\ at = Len(graph)

\* payload.get raises, outside the try, for a JSON file that is not an object.
NoObject ==
  /\ AllDone /\ HasArray
  /\ pc' = "failed" /\ halt' = pc
  /\ UNCHANGED <<graph, at, out, left, work, results, stacVars>>

\* A package's STAC is not published for a CWL job, and it, or a NetCDF file, keeps the
\* files from being described.
Undescribed ==
  /\ AllDone /\ ~HasArray /\ ~Described
  /\ pc' = "exited"
  /\ UNCHANGED <<graph, at, halt, out, left, work, results, stacVars>>

\* create_cwl_stac: an item for every file.
Describe ==
  /\ AllDone /\ ~HasArray /\ Described
  /\ pc' = "describe" /\ left' = {ItemFileOf[f.name] : f \in results}
  /\ UNCHANGED <<graph, at, halt, out, work, results, stacVars>>

\* The job's document, over what is there.
WriteDoc ==
  /\ pc = "describe" /\ doc # CliDoc
  /\ doc' = IF doc = Torn THEN CliDoc ELSE Torn
  /\ UNCHANGED <<graph, at, pc, halt, out, left, work, results, stac, items, bucket>>

\* An item, over what is there.  Files with one stem share it, which the last one gets.
WriteItem(i) ==
  /\ pc = "describe" /\ doc = CliDoc /\ i \in left
  /\ \/ items[i] # Torn /\ items' = [items EXCEPT ![i] = Torn] /\ left' = left
     \/ \E f \in results :
          /\ items[i] = Torn /\ ItemFileOf[f.name] = i
          /\ items' = [items EXCEPT ![i] = [by |-> f.by, file |-> Path(f), at |-> "RESULTS"]]
          /\ left' = left \ {i}
  /\ UNCHANGED <<graph, at, pc, halt, out, work, results, stac, doc, bucket>>

\* The collection and the items are posted, and the pod exits with 0.
Exit ==
  /\ pc = "describe" /\ doc = CliDoc /\ left = {}
  /\ pc' = "exited"
  /\ UNCHANGED <<graph, at, halt, out, left, work, results, stacVars>>

\* A write that fails is logged, and the pod exits with 0 all the same.
GiveUp ==
  /\ "disk" \in Faults
  /\ pc = "describe"
  /\ pc' = "gave_up"
  /\ UNCHANGED <<graph, at, halt, out, left, work, results, stacVars>>

-----------------------------------------------------------------------------
Next ==
  \/ SaveResult \/ Begin \/ Calrissian \/ Raises \/ Killed
  \/ \E f \in left : CollectFile(f) \/ DirectoryExists(f)
  \/ Collected
  \/ RemoveOldStac \/ OldStacRemoved \/ Rename
  \/ \E f \in left : CopyTree(f)
  \/ \E i \in left : MoveItem(i) \/ NotMoved(i) \/ RewriteHref(i) \/ Upload(i) \/ NotUploaded(i)
  \/ Moved \/ Rewritten \/ UploadStops \/ Uploaded
  \/ NoObject \/ Undescribed \/ Describe \/ WriteDoc \/ Exit \/ GiveUp
  \/ \E i \in left : WriteItem(i)

Spec == Init /\ [][Next]_vars

-----------------------------------------------------------------------------
(* Properties *)

\* Every variable keeps its type.
TypeOK ==
  /\ graph \in Graphs /\ at \in 0 .. Len(graph)
  /\ pc \in Steps /\ halt \in Steps \cup {None}
  /\ out \in [1 .. Len(graph) -> Trees \cup {{}}]
  /\ left \subseteq IF {pc, halt} \cap {"collect", "copytree"} # {} THEN Files ELSE ItemNames
  /\ work \subseteq 1 .. Len(graph)
  /\ results \subseteq Stored /\ stac \subseteq Stored
  /\ doc \in Roots \cup {Torn, None}
  /\ items \in [ItemNames -> Assets \cup {Torn, None}]
  /\ bucket \in [Names -> Stored \cup {None}]

\* The items that are listed with an asset of the same name as that of i, but another one.
Rivals(i) ==
  {j \in Features : items[j] # None /\ AssetOf[j].name = AssetOf[i].name /\ AssetOf[j] # AssetOf[i]}

\* An href that was rewritten leads to the file of the process that made the item, and to
\* the file it names, whatever an earlier process of the job had left; only while the old
\* STAC is removed, or when the job is killed or fails there, may its items lead nowhere.
\* Of two items with assets of one name in different directories one leads to the other's
\* file on S3.
LinksLeadHome ==
  "rmtree" \notin {pc, halt} =>
    \A i \in ItemNames :
      LET a == items[i] IN
      a \notin {Torn, None} =>
        /\ a.at = "STAC" => Made(a.file, a.by) \in stac
        /\ a.at = "RESULTS" => Made(a.file, a.by) \in results
        /\ a.at = "s3" /\ Rivals(i) = {} => bucket[a.file.name] = Made(a.file, a.by)

\* Two processes never mix their files in one directory, not in STAC and not in a directory
\* of RESULTS, except that a package goes where the user says.
NoMixedDirectories ==
  /\ \A f, g \in stac : f.by = g.by
  /\ \A f, g \in results :
       f.dir # <<>> /\ g.dir # <<>> /\ Head(f.dir) = Head(g.dir) /\ f.by < g.by
         => graph[g.by] = "save" /\ g.by \in Given

\* The working directory, on the user's volume, outlives its process only when the pod
\* is killed.
WorkDirGone == pc \in {"next", "describe", "exited", "gave_up", "failed"} => work = {}

\* The processes that are done, and those of them that left a STAC root.
Done       == {n \in 1 .. at : graph[n] = "cwl"
                               /\ (n < at \/ pc \in {"next", "describe", "exited", "gave_up"})}
Rooted     == {n \in Done : find_stac_root(out[n]) # None}
ItemsIn(d, T) == {f \in T : f.name \in Features /\ f.dir \in {d, Append(d, "items")}}

\* The item i is as the process n brought it, with a link wherever its asset was there.
Stands(i, n) ==
  \E place \in {"relative", "STAC", "s3"} :
    /\ items[i] = Brought(i, n, place)
    /\ LET d == find_stac_root(out[n]).dir \o AssetOf[i].dir
       IN  [dir |-> d, name |-> AssetOf[i].name] \in out[n] => place # "relative"

\* What create_cwl_stac makes of a file has the item's name.
Remade(i) ==
  /\ doc = CliDoc
  /\ \/ items[i] = Torn
     \/ \E f \in results : /\ ItemFileOf[f.name] = i
                           /\ items[i] = [by |-> f.by, file |-> Path(f), at |-> "RESULTS"]

\* Once a workflow's own STAC is in place it stays, through the processes that follow,
\* until the next one brings its own.  Its root is the job's document, unless the job ends
\* with files in RESULTS that create_cwl_stac describes over it, and every item that was
\* beside it is listed, unless one of these files takes its name; only where the disk
\* failed an item may be torn, or still lie beside the document.
StacStands ==
  pc \in {"next", "calrissian", "collect", "describe", "exited", "gave_up"} /\ Rooted # {} =>
    LET n    == Max(Rooted)
        root == find_stac_root(out[n])
    IN  /\ \/ doc = [by |-> n, name |-> root.name]
           \/ Described /\ pc \in {"describe", "exited", "gave_up"} /\ doc \in {Torn, CliDoc}
        /\ \A f \in ItemsIn(root.dir, out[n]) :
             \/ Stands(f.name, n) \/ Remade(f.name)
             \/ "disk" \in Faults /\ (items[f.name] = Torn \/ Made(Top(f.name), n) \in stac)

\* No other output of the job gets f's item file.
OwnStem(f) == \A g \in results : ItemFileOf[g.name] = ItemFileOf[f.name] => Path(g) = f

\* A job that exits with 0, and not because create_cwl_stac gave up, lists every file its
\* last workflow made, and that one and not one of its name from before, if that left no
\* STAC root, no collection and no NetCDF file got in the way, and no other output has the
\* file's stem.
OutputsListed ==
  pc = "exited" /\ Done # {} /\ ~HasPackage /\ ~HasNetCDF =>
    LET n == Max(Done) IN
    find_stac_root(out[n]) = None =>
      \A f \in out[n] :
        OwnStem(f) =>
          /\ doc = CliDoc
          /\ items[ItemFileOf[f.name]] = [by |-> n, file |-> f, at |-> "RESULTS"]
=============================================================================
