------------------------------- MODULE Results -------------------------------
(***************************************************************************)
(* The results of one job: the executor computes them, describes them as    *)
(* STAC documents in the job's directory, copies them to S3 and announces   *)
(* them to the STAC API; the job API answers get_results and downloads from *)
(* the same documents, at any time and without looking at the job's status. *)
(*                                                                          *)
(* Each call of save_result, one per tile, leaves a package: a collection   *)
(* and an item for every file it wrote.  A CWL job whose workflow makes no  *)
(* STAC of its own leaves files only, and the executor describes them.      *)
(***************************************************************************)
EXTENDS Naturals, FiniteSets

CONSTANTS
  Outputs,     \* the files the job's processes write
  Packages,    \* the calls of save_result
  PackageOf,   \* the call that writes an output
  Items,       \* names of STAC item files
  ItemOf,      \* the item file that describes an output
  Names,       \* file names without their directory
  NameOf,      \* the name of an output
  EndsWith,    \* pairs <<m, n>> of names where m ends with n
  NetCDF,      \* the outputs whose name ends with .nc
  S3,          \* is S3 configured?
  Kinds,       \* the kinds of job: "cube", "cwl"
  Readers,     \* requests to get_results
  Faults,      \* what may go wrong: "raise", "kill", "upload", "post",
               \* "volume": a read or write of the job's directory raises
  None

\* An asset's href: a path, or an s3:// URI made of the output's name.
Assets  == [out : Outputs, at : {"disk", "s3"}]
Disk(o) == [out |-> o, at |-> "disk"]
InS3(o) == [out |-> o, at |-> "s3"]

ASSUME NamesAssumption ==
  /\ None \notin Assets
  /\ None \notin Outputs \cup Packages \cup Items \cup Names \cup {"cwl", "doc"}
  /\ "cwl" \notin Packages /\ "doc" \notin Items
  /\ S3 \in BOOLEAN
  /\ Kinds \subseteq {"cube", "cwl"}
ASSUME OutputsAssumption ==
  /\ PackageOf \in [Outputs -> Packages]
  /\ ItemOf \in [Outputs -> Items]
  /\ NameOf \in [Outputs -> Names]
  /\ \A n \in Names : <<n, n>> \in EndsWith
\* A package names its item files apart; nothing keeps those of two packages, or the
\* stems of two CWL outputs, apart.
ASSUME PackageItemsAssumption ==
  \A o, p \in Outputs : PackageOf[o] = PackageOf[p] /\ ItemOf[o] = ItemOf[p] => o = p

VARIABLES
  results,   \* outputs under RESULTS
  doc,       \* whose collection STAC/{job_id}.json holds: a package, "cwl" or None
  items,     \* STAC/items: the asset an item file points to, or None
  torn,      \* the file the executor has open for writing: "doc", an item or None
  bucket,    \* S3: the output stored under a name
  remote,    \* the STAC API: the asset the item it was sent points to
  run,       \* the executor: kind of job, step, packages and outputs left to do
  reader     \* get_results handlers: step, item files left to read, assets read

stacVars == <<doc, items, torn>>
vars     == <<results, stacVars, bucket, remote, run, reader>>

RunSteps   == {"compute", "next", "clear", "copy", "doc", "upload", "post",
               "post_items", "exited", "gave_up", "failed"}
RunStates  == [kind : Kinds, pc : RunSteps, todo : SUBSET Packages,
               cur : Packages \cup {"cwl", None}, left : SUBSET Outputs]
ReadSteps  == {"idle", "list", "items", "answered", "error"}
ReadStates == [pc : ReadSteps, left : SUBSET Items, got : SUBSET Assets]

\* The executor is at a step and has no file open.
At(pc)     == run.pc = pc /\ torn = None
Ended      == run.pc \in {"exited", "gave_up", "failed"}
WrittenBy(p) == {o \in Outputs : PackageOf[o] = p}
Described  == {i \in Items : items[i] # None}

Init ==
  /\ results = {}
  /\ doc = None
  /\ items = [i \in Items |-> None]
  /\ torn = None
  /\ bucket = [n \in Names |-> None]
  /\ remote = [i \in Items |-> None]
  /\ run \in [kind : Kinds, pc : {"compute"}, todo : {Packages}, cur : {None}, left : {{}}]
  /\ reader = [r \in Readers |-> [pc |-> "idle", left |-> {}, got |-> {}]]

-----------------------------------------------------------------------------
(* execute: the computation *)

\* One tile's graph is run up to save_result, which writes a package.
Compute(p) ==
  /\ At("compute") /\ run.kind = "cube" /\ p \in run.todo
  /\ results' = results \cup WrittenBy(p)
  /\ run' = [run EXCEPT !.todo = @ \ {p}]
  /\ UNCHANGED <<stacVars, bucket, remote, reader>>

\* All tiles are done: collect the packages.
Collect ==
  /\ At("compute") /\ run.kind = "cube" /\ run.todo = {}
  /\ run' = [run EXCEPT !.pc = "next", !.todo = Packages]
  /\ UNCHANGED <<results, stacVars, bucket, remote, reader>>

\* run_cwl copies its outputs to RESULTS; they are described unless one is NetCDF.
RunCwl ==
  /\ At("compute") /\ run.kind = "cwl"
  /\ results' = Outputs
  /\ run' = IF Outputs = {} \/ Outputs \cap NetCDF # {}
            THEN [run EXCEPT !.pc = "exited"]
            ELSE [run EXCEPT !.pc = "doc", !.cur = "cwl"]
  /\ UNCHANGED <<stacVars, bucket, remote, reader>>

\* The computation raises, and the exception ends the process.
ComputeRaises ==
  /\ "raise" \in Faults
  /\ At("compute")
  /\ run' = [run EXCEPT !.pc = "failed"]
  /\ UNCHANGED <<results, stacVars, bucket, remote, reader>>

\* The pod is killed, at the workflow's deadline for instance.
Killed ==
  /\ "kill" \in Faults
  /\ ~Ended
  /\ run' = [run EXCEPT !.pc = "failed"]
  /\ UNCHANGED <<results, stacVars, bucket, remote, reader>>

-----------------------------------------------------------------------------
(* _publish_stac_collection, create_cwl_stac *)

\* The loop over the packages.  Their directories have random names: any order.
NextPackage ==
  /\ At("next")
  /\ \/ \E p \in run.todo :
          run' = [run EXCEPT !.pc = "clear", !.cur = p, !.todo = @ \ {p}]
     \/ run.todo = {} /\ run' = [run EXCEPT !.pc = "exited"]
  /\ UNCHANGED <<results, stacVars, bucket, remote, reader>>

\* shutil.rmtree(items_dir) unlinks file after file; then mkdir.
Clear ==
  /\ At("clear")
  /\ \E kept \in SUBSET Described :
       /\ items' = [i \in Items |-> IF i \in kept THEN items[i] ELSE None]
       /\ run' = IF kept = {} THEN [run EXCEPT !.pc = "copy", !.left = WrittenBy(run.cur)]
                 ELSE run
  /\ UNCHANGED <<results, doc, torn, bucket, remote, reader>>

\* An item file is copied from the package, or written for a CWL output.
CopyItem(o) ==
  /\ At("copy") /\ o \in run.left
  /\ items' = [items EXCEPT ![ItemOf[o]] = Disk(o)]
  /\ torn' = ItemOf[o]
  /\ run' = [run EXCEPT !.left = @ \ {o}]
  /\ UNCHANGED <<results, doc, bucket, remote, reader>>

\* Variant: the loop stops one item early.
CopiedEarly ==
  /\ At("copy") /\ Cardinality(run.left) <= 1
  /\ run' = [run EXCEPT !.pc = IF run.kind = "cwl" THEN "post" ELSE "doc"]
  /\ UNCHANGED <<results, stacVars, bucket, remote, reader>>

Copied ==
  /\ At("copy") /\ run.left = {}
  /\ run' = [run EXCEPT !.pc = IF run.kind = "cwl" THEN "post" ELSE "doc"]
  /\ UNCHANGED <<results, stacVars, bucket, remote, reader>>

\* The collection document is written: after a package's items, before a CWL job's.
WriteDoc ==
  /\ At("doc")
  /\ doc' = run.cur
  /\ torn' = "doc"
  /\ run' = IF run.kind = "cwl"
            THEN [run EXCEPT !.pc = "copy", !.left = Outputs]
            ELSE [run EXCEPT !.pc = "upload", !.left = IF S3 THEN WrittenBy(run.cur) ELSE {}]
  /\ UNCHANGED <<results, items, bucket, remote, reader>>

\* The file the executor has open is complete.
CloseFile ==
  /\ torn # None /\ ~Ended
  /\ torn' = None
  /\ UNCHANGED <<results, doc, items, bucket, remote, run, reader>>

\* Variant: the href is rewritten whether or not the upload succeeds.
UploadBlindly(o) ==
  /\ At("upload") /\ o \in run.left
  /\ run' = [run EXCEPT !.left = @ \ {o}]
  /\ \/ bucket' = [bucket EXCEPT ![NameOf[o]] = o]
     \/ "upload" \in Faults /\ UNCHANGED bucket
  /\ items' = [items EXCEPT ![ItemOf[o]] = InS3(o)]
  /\ torn' = ItemOf[o]
  /\ UNCHANGED <<results, doc, remote, reader>>

\* upload_stac_item_assets: the file goes to S3 under its name and its item is
\* written again with the URI.  An upload that raises, stored or not, or an asset
\* that is a directory, leaves the item as it is.
Upload(o) ==
  /\ At("upload") /\ o \in run.left
  /\ run' = [run EXCEPT !.left = @ \ {o}]
  /\ \/ /\ bucket' = [bucket EXCEPT ![NameOf[o]] = o]
        /\ items' = [items EXCEPT ![ItemOf[o]] = InS3(o)]
        /\ torn' = ItemOf[o]
     \/ /\ "upload" \in Faults
        /\ bucket' \in {bucket, [bucket EXCEPT ![NameOf[o]] = o]}
        /\ UNCHANGED <<items, torn>>
  /\ UNCHANGED <<results, doc, remote, reader>>

Uploaded ==
  /\ At("upload") /\ run.left = {}
  /\ run' = [run EXCEPT !.pc = "post"]
  /\ UNCHANGED <<results, stacVars, bucket, remote, reader>>

\* A read or write of the job's directory raises, and leaves the file it was at as it is.
\* The except clause around the loop, or around create_cwl_stac, logs it: nothing more is
\* published, and the executor exits with 0.
VolumeRaises ==
  /\ "volume" \in Faults
  /\ \/ run.pc \in {"copy", "doc"}
     \/ run.kind = "cube" /\ run.pc \in {"clear", "upload", "post_items"}
  /\ run' = [run EXCEPT !.pc = "gave_up"]
  /\ UNCHANGED <<results, stacVars, bucket, remote, reader>>

\* post_json(collection).  What it raises is caught around the loop: nothing more is
\* published, and the executor exits with 0.
PostDoc ==
  /\ At("post")
  /\ \/ run' = [run EXCEPT !.pc = "post_items",
                           !.left = IF run.kind = "cwl" THEN Outputs ELSE WrittenBy(run.cur)]
     \/ "post" \in Faults /\ run' = [run EXCEPT !.pc = "exited"]
  /\ UNCHANGED <<results, stacVars, bucket, remote, reader>>

\* Variant: a package's item is posted as it was before the upload.
PostItemAsCopied(o) ==
  /\ At("post_items") /\ o \in run.left
  /\ \/ remote' = [remote EXCEPT ![ItemOf[o]] = Disk(o)]
     \/ "post" \in Faults /\ UNCHANGED remote
  /\ \/ run' = [run EXCEPT !.left = @ \ {o}]
     \/ "post" \in Faults /\ run' = [run EXCEPT !.pc = "exited"]
  /\ UNCHANGED <<results, stacVars, bucket, reader>>

\* post_json(item): a package's item as its file now says, a CWL output's as made.
\* The answer is not looked at: an item that is refused is passed over, and one whose
\* answer is lost has been taken, but ends the loop.
PostItem(o) ==
  /\ At("post_items") /\ o \in run.left
  /\ \/ remote' = [remote EXCEPT ![ItemOf[o]] =
                    IF run.kind = "cwl" THEN Disk(o) ELSE items[ItemOf[o]]]
     \/ "post" \in Faults /\ UNCHANGED remote
  /\ \/ run' = [run EXCEPT !.left = @ \ {o}]
     \/ "post" \in Faults /\ run' = [run EXCEPT !.pc = "exited"]
  /\ UNCHANGED <<results, stacVars, bucket, reader>>

Posted ==
  /\ At("post_items") /\ run.left = {}
  /\ run' = [run EXCEPT !.pc = IF run.kind = "cwl" THEN "exited" ELSE "next"]
  /\ UNCHANGED <<results, stacVars, bucket, remote, reader>>

RunStep ==
  \/ \E p \in Packages : Compute(p)
  \/ Collect \/ RunCwl \/ ComputeRaises \/ Killed \/ VolumeRaises
  \/ NextPackage \/ Clear \/ Copied \/ WriteDoc \/ CloseFile \/ Uploaded \/ PostDoc \/ Posted
  \/ \E o \in Outputs : CopyItem(o) \/ Upload(o) \/ PostItem(o)

-----------------------------------------------------------------------------
(* get_results *)

\* Collection.from_file: a 500 when the file is not there or not whole.
ReadDoc(r) ==
  /\ reader[r].pc = "idle"
  /\ reader' = [reader EXCEPT ![r].pc = IF doc = None \/ torn = "doc" THEN "error" ELSE "list"]
  /\ UNCHANGED <<results, stacVars, bucket, remote, run>>

\* Variant: the collection's file is taken for an item.
ReadListAll(r) ==
  /\ reader[r].pc = "list"
  /\ reader' = [reader EXCEPT ![r].pc = "items", ![r].left = Described \cup {"doc"}]
  /\ UNCHANGED <<results, stacVars, bucket, remote, run>>

\* List the item files.
ReadList(r) ==
  /\ reader[r].pc = "list"
  /\ reader' = [reader EXCEPT ![r].pc = "items", ![r].left = Described]
  /\ UNCHANGED <<results, stacVars, bucket, remote, run>>

\* Variant: an item that cannot be read is left out.
ReadItemLenient(r) ==
  /\ reader[r].pc = "items"
  /\ \E i \in reader[r].left :
       reader' = [reader EXCEPT
         ![r].left = @ \ {i},
         ![r].got = IF items[i] = None \/ torn = i THEN @ ELSE @ \cup {items[i]}]
  /\ UNCHANGED <<results, stacVars, bucket, remote, run>>

\* Read one of them: a 500 when it is gone or not whole.
ReadItem(r) ==
  /\ reader[r].pc = "items"
  /\ \E i \in reader[r].left :
       reader' = IF items[i] = None \/ torn = i
                 THEN [reader EXCEPT ![r].pc = "error"]
                 ELSE [reader EXCEPT ![r].left = @ \ {i}, ![r].got = @ \cup {items[i]}]
  /\ UNCHANGED <<results, stacVars, bucket, remote, run>>

Answer(r) ==
  /\ reader[r].pc = "items" /\ reader[r].left = {}
  /\ reader' = [reader EXCEPT ![r].pc = "answered"]
  /\ UNCHANGED <<results, stacVars, bucket, remote, run>>

ReadStep(r) == ReadDoc(r) \/ ReadList(r) \/ ReadItem(r) \/ Answer(r)

\* What downloading an asset can return now.  A path is served by the file API; an
\* s3:// URI by the proxy, which takes any item whose URI ends with the name asked for.
Served(a) ==
  IF a.at = "disk" THEN {a.out} \cap results
  ELSE {bucket[NameOf[items[i].out]] :
          i \in {k \in Described : /\ items[k].at = "s3"
                                   /\ <<NameOf[items[k].out], NameOf[a.out]>> \in EndsWith}}

Next == RunStep \/ \E r \in Readers : ReadStep(r)
Spec == Init /\ [][Next]_vars

-----------------------------------------------------------------------------
(* Properties *)

\* Every variable keeps its type, whatever is read while it is written.
TypeOK ==
  /\ results \subseteq Outputs
  /\ doc \in Packages \cup {"cwl", None}
  /\ items \in [Items -> Assets \cup {None}]
  /\ torn \in Items \cup {"doc", None}
  /\ bucket \in [Names -> Outputs \cup {None}]
  /\ remote \in [Items -> Assets \cup {None}]
  /\ run \in RunStates
  /\ reader \in [Readers -> ReadStates]

\* An executor that exits with 0 has described all it computed, in files that are whole,
\* whatever was not uploaded or not announced, unless it gave up: an exception of the
\* volume while it publishes is swallowed, and exits with 0 too (cli.py:300).  This and
\* the last two properties hold of a job with one package, as a bounding box within one
\* tile makes.
ResultsListed ==
  run.pc = "exited" =>
    torn = None /\ \A o \in results : \E i \in Described : items[i].out = o

\* get_results on a data cube job never answers with a part of the results, even while
\* they are published, or when the executor gave up half way: the document is written
\* after the items, and read before them.
AnswersComplete ==
  run.kind = "cube" =>
    \A r \in Readers : reader[r].pc = "answered" => {a.out : a \in reader[r].got} = Outputs

\* A link that get_results handed out serves the output it was made for or nothing,
\* however long ago that was.
LinksServe ==
  \A r \in Readers : \A a \in reader[r].got : Served(a) \subseteq {a.out}

\* The STAC API is told of an asset where the job's own item file has it.
RemoteMatchesItems ==
  \A i \in Items : remote[i] # None => remote[i] = items[i]
=============================================================================
