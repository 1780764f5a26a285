------------------------------ MODULE CwlRunInv ------------------------------
(***************************************************************************)
(* The inductive invariant behind the properties of CwlRun: what each step  *)
(* of a process has left in RESULTS and in STAC, and whose it is.           *)
(***************************************************************************)
EXTENDS CwlRun

Staging == {"copytree", "move", "rewrite", "upload"}
Behind  == {"describe", "exited", "gave_up"}

\* A process that has begun is one of the graph's, and goes its way by what its tree has:
\* through its files, then through the items among them.
StageInv ==
  /\ halt # None => pc \in {"failed", "killed"}
  /\ pc \in {"calrissian", "collect", "rmtree"} \cup Staging => at \in DOMAIN graph /\ graph[at] = "cwl"
  /\ pc = "collect" => Root = None
  /\ pc \in {"rmtree"} \cup Staging => Root # None
  /\ pc \in {"collect", "copytree"} => left \subseteq out[at]
  /\ pc \in {"move", "rewrite", "upload"} => left \subseteq Features

-----------------------------------------------------------------------------
(* RESULTS *)

\* What is in RESULTS is of a package or of a tree.
Origin(h) ==
  /\ h.by \in 1 .. at /\ (pc = "calrissian" => h.by # at)
  /\ \/ graph[h.by] = "save" /\ Path(h) \in Packages[h.by]
     \/ graph[h.by] = "cwl" /\ Path(h) \in out[h.by]
OriginInv == \A h \in results : Origin(h)

\* A path names one file, and a package's collection has been there since it was written.
PathInv    == \A f, g \in results : Path(f) = Path(g) => f.by = g.by
PackageInv == (\E n \in 1 .. at : graph[n] = "save" /\ Packages[n] # {}) => HasPackage

\* The two parts of NoMixedDirectories.
OneStac == \A f, g \in stac : f.by = g.by
OneDirs ==
  \A f, g \in results :
    f.dir # <<>> /\ g.dir # <<>> /\ Head(f.dir) = Head(g.dir) /\ f.by < g.by
      => graph[g.by] = "save" /\ g.by \in Given

\* What the last process has left, when that was no STAC, is in RESULTS or still to be copied.
CollectInv ==
  /\ pc = "collect" => \A f \in out[at] \ left : Made(f, at) \in results
  /\ pc \in {"next"} \cup Behind /\ Done # {} /\ ~HasPackage /\ find_stac_root(out[Max(Done)]) = None =>
       \A f \in out[Max(Done)] : Made(f, Max(Done)) \in results

\* create_cwl_stac has written the items that are not left.
Written(i) ==
  \E f \in results : /\ ItemFileOf[f.name] = i
                     /\ items[i] = [by |-> f.by, file |-> Path(f), at |-> "RESULTS"]
DescribeInv ==
  pc = "describe" =>
    /\ Described
    /\ left \subseteq {ItemFileOf[f.name] : f \in results}
    /\ \A f \in results : ItemFileOf[f.name] \in left \/ Written(ItemFileOf[f.name])

-----------------------------------------------------------------------------
(* STAC *)

\* The places that the hrefs of items have at a step.
Places == CASE pc = "rewrite" -> {"relative", "STAC"}
            [] pc = "upload" -> {"relative", "STAC", "s3"}
            [] OTHER -> {"relative"}

\* While a process brings its STAC nothing in it is of another one.  An item is torn only
\* while it is rewritten, and then its asset is where its href will lead.
StacInv ==
  /\ pc \in Staging =>
       /\ \A f \in stac : f.by = at
       /\ \A i \in ItemNames :
            items[i] # None =>
              /\ i \in Features
              /\ \/ \E place \in Places : items[i] = Brought(i, at, place)
                 \/ items[i] = Torn /\ pc \in {"rewrite", "upload"} /\ i \in left
  /\ pc \in {"rewrite", "upload"} => left \subseteq {i \in Features : items[i] # None}
  /\ pc = "rewrite" => \A i \in Features : items[i] = Torn => Made(AssetOf[i], at) \in stac
  /\ pc = "upload" => \A i \in left : Made(AssetOf[i], at) \in stac
  /\ pc = "upload" => \A i \in Features : items[i] = Torn /\ Rivals(i) = {} =>
                        bucket[AssetOf[i].name] = Made(AssetOf[i], at)
  /\ pc \in {"next", "calrissian", "collect"} =>
       \A i \in ItemNames : items[i] \in Assets => items[i].at # "RESULTS"

\* Where a file beside the root is copied to.
To(f)     == [f EXCEPT !.dir = Without(Root.dir, f.dir)]
IsItem(f) == To(f).dir = <<"items">> /\ f.name \in Features
\* It is copied.
Carried(f) == IF IsItem(f) THEN items[f.name] = Brought(f.name, at, "relative")
              ELSE Made(To(f), at) \in stac
Tree       == Under(Root.dir, out[at])
OwnDoc     == doc = [by |-> at, name |-> Root.name]
\* What no later step of the process takes away.
AssetsStay == \A f \in Tree : f.name \notin Features \cup ToSet(RootNames) => Made(To(f), at) \in stac
NotMovedAt(i) == "disk" \in Faults /\ Made(Top(i), at) \in stac

\* How far the process is with its STAC.
PlaceInv ==
  /\ pc = "copytree" => left \subseteq Tree /\ \A f \in Tree \ left : Carried(f)
  /\ pc \in {"move", "rewrite", "upload"} => OwnDoc
  /\ pc \in {"move", "rewrite"} => AssetsStay
  /\ pc = "move" =>
       /\ left \subseteq {i \in Features : Made(Top(i), at) \in stac}
       /\ \A f \in ItemsIn(Root.dir, out[at]) :
            \/ items[f.name] = Brought(f.name, at, "relative")
            \/ f.name \in left \/ NotMovedAt(f.name)
  /\ pc = "rewrite" =>
       /\ \A f \in ItemsIn(Root.dir, out[at]) : items[f.name] # None \/ NotMovedAt(f.name)
       /\ \A i \in Features : items[i] = Brought(i, at, "relative") /\ i \notin left =>
            Made(AssetOf[i], at) \notin stac
  /\ pc = "upload" =>
       \A f \in ItemsIn(Root.dir, out[at]) :
         Stands(f.name, at) \/ items[f.name] = Torn \/ NotMovedAt(f.name)

Base == TypeOK /\ StageInv /\ WorkDirGone
Kept == OriginInv /\ PathInv /\ PackageInv /\ OneDirs /\ CollectInv /\ DescribeInv /\ OutputsListed
IInv == Base /\ Kept /\ OneStac /\ StacInv /\ LinksLeadHome /\ PlaceInv /\ StacStands
=============================================================================
