# Formal models of openEO Argo Workflows

TLA+ models of the openEO back end in `src/openeo_argoworkflows`, checked with TLC on
small instances and, where it matters most, proved with TLAPS for all of them.

In paths below, `api/` is `src/openeo_argoworkflows/api/openeo_argoworkflows_api/` and
`executor/` is `src/openeo_argoworkflows/executor/openeo_argoworkflows_executor/`.

## 1. Inventory of the system

| component | state it keeps | operations | talks to |
|---|---|---|---|
| Job API (`api/jobs.py`) | rows of the jobs table, job directories | create, start, cancel, delete, synchronous job, results, logs | database, volume, Redis, Argo |
| Queue and tasks (`api/tasks.py`, `worker.py`) | the rq queue and registry of scheduled tasks, with pickled job objects | `queue_to_submit`, `submit_job`, `poll_job_status` | Redis, Argo, database |
| Reconciler (`api/reconcile.py`) | the rows one run has read | one pass over the running rows | database, Argo |
| Argo (`api/workflows.py`, external) | workflows and their phases | create, list, get, stop; run, end, expire | starts the executor |
| Executor (`executor/cli.py`, `executor.py`) | Dask cluster, `RESULTS/` | start a cluster, compute cell after cell, shut down, publish, exit | Dask gateway shared with other executors, volume, S3, STAC API |
| Result documents (`executor/cli.py`, `stac_cwl.py`, `s3.py`) | `STAC/{job}.json`, `STAC/items/*.json`, the bucket, the STAC API | publish a package, describe CWL files, upload, post | read by the Job API and the proxy |
| Download proxy (`api/app.py`, `s3.py`) | none | find an asset's place, stream it | volume, S3 |
| File API (`api/files.py`) | the files of a user's workspace | upload, list, delete, download (ranges, archives), head | volume |
| CWL execution (`executor/.../cwl.py`) | a working directory, the inputs and outputs of one run | wire inputs, run Calrissian in-process, collect, restructure STAC | Kubernetes, the document's URL |
| CWL input schema (`api/cwl_inputs.py`, `api/app.py`) | none | schema of a document's inputs for the editor's form | the document's URL |
| Tiling and sub graphs (`executor/stac.py`, `utils.py`) | none | lay cells along a geodesic, derive a graph per cell | pyproj, otherwise pure |
| Time-out helper (`executor/timeout.py`) | one thread | run with a deadline; nothing calls it | – |
| Users, signed URLs (`api/auth.py`) | users table | get or create, sign, verify | database; links made by `get_results`, taken by the file API |
| Settings, migrations | – | – | – |

**What is hard.** Nothing in the services locks a row. A handler reads a row, does
something elsewhere, and writes all columns back from the object it read; a worker acts
on an object pickled minutes ago; the reconciler on a list as old as its loop. The calls
to Argo, Redis and the volume between read and write may fail, and each failure leaves a
different half. The executor writes result documents without any lock, while `get_results`
and the proxy read them; the file API writes files in place while others read them, in
several processes. Executors share a Dask gateway and, when they clean up, guess which
cluster is theirs. The processes of one CWL job share its directories, and the executor
logs most errors of publishing and exits with 0. The properties that make each component right are
listed with the runs below; every hazard, with its line, is under `hazards` in `PROJECT.json`.

## 2. The job services

`JobState` holds the shared state, `Argo` the workflow server, `JobApi`, `QueueWorker` and
`Reconciler` the three programs (each extends the one before), `JobSystem` composes them
and states the properties.

| TLA+ | code |
|---|---|
| `row[j]` | `ArgoJobORM`: `status`, `workflowname` (absent: no row) |
| `workspace` | the directories `start_job` makes with `fs.mkdir` and `delete_job` removes |
| `unguarded` | history: jobs whose directory was removed, or of which two starts were inside `fs.mkdir` at once |
| `queue`, `delayed` | the rq queue `default`; its registry of tasks from `enqueue_in` |
| `Task(kind, j, wf)` | a pickled call and the job object it carries |
| `req[c]` | a request handler: the call it makes next and the object it holds |
| `work[x]` | a worker: task, pickled `wf`, `read` (row read by the poll), decision |
| `rec` | the reconciler: snapshots left, decision not yet written |
| `phase`, `owner`, `stopped`, `gone` | Argo's workflows |
| `Modify` | `engine.modify`: writes every column |

There is one action per call a handler makes to the database, the volume, Redis or Argo,
named after handler and call (`StartRead`, `StartExists`, `StartMakedirs`, `StartModify`, `StartSubmit`).
Calls that follow each other without anything another process could see in between are
one action.

Modelling decisions:
- `engine.modify` belongs to the openeo-fastapi package. What it does with a row that is
  gone is the constant `MissingRow` (`insert`, `ignore`, `raise`). The proofs hold for all
  three; Races uses `raise`, the other runs `ignore` (Admission: `insert`).
- `SchedulerRuns` says whether anything moves scheduled tasks. With `worker.py` as it is,
  nothing does; the runs with `TRUE` show what holds in a deployment that adds a scheduler.
- `list_workflows` and the enqueue that follows are one step. More jobs than the pool
  holds can pass the check in the code too; no property depends on the limit.
- Argo's `Pending` is part of `Running`, its `Error` part of `Failed`: no code tells them
  apart (`queue_to_submit` counts both for the pool). A workflow that has no phase yet is `New`.
- `fs.mkdir` of fsspec 2024.12.0, which `poetry.lock` pins, looks whether the directory exists, raises if
  it does, and else calls `makedirs(exist_ok=True)`. It is two steps, and two starts can both get
  through. Such a job is `unguarded` from then on: the directory is all that keeps a job from being
  submitted twice, so for these jobs the code promises nothing, and the properties except them.
- There is no clock. A deadline is a step that may happen at any time (`ArgoFail`).
- One reconciler pod runs at a time.
- `Faults` names what may go wrong: `submit` (graph or creation raises), `argo` (any call
  raises, even one that took effect), `expire`, `request`, `task` (a handler or a task
  dies at any step), `reconcile`.

**Specification.** `JobLife` is the promise to a client who neither cancels nor deletes:
one run at most, the status follows it, a queued job is launched or refused, and the end
of a run is reported; a job that never ran falls out of the promise when two starts get through
`fs.mkdir` together (`Dispute`). `KeepsFairPromise` says that `JobSystem` implements it, with the
status of the row for `life` (`disputed` for an `unguarded` job) and the state of its workflows for
`fate`; its safety part is also proved.

**Fairness** (`FairSpec`). Weak fairness of: the steps of an accepted request (a thread
runs on), a worker's steps (rq loops), the reconciler's (a CronJob), the scheduler, and
the end of a workflow (`active_deadline_seconds`). Nothing is assumed of clients, of faults
or of the controller picking a workflow up.

## 3. Results

`Results` follows one job from computation to download.

| TLA+ | code |
|---|---|
| `results` | files under `RESULTS/` |
| `doc`, `items` | `STAC/{job_id}.json`; the href in each `STAC/items/*.json` |
| `torn` | the file open for writing: who reads it gets a JSON error, a 500 |
| `bucket` | objects by name (`{user}/{job}/{name}`) |
| `remote` | items the STAC API has been sent |
| `run` | the executor: step, packages and files left to do |
| `reader[r]` | a `get_results` handler: step, item files left, assets collected |
| `Served(a)` | what the file API or `s3_proxy_download` returns for a link |

Faults: the computation raises; the pod is killed at any step; an upload raises (stored or
not); a post raises or is refused (`post_json` never looks at the answer); a read or write of the
volume raises while the results are published (`volume`). `cli.py` catches what is raised around the
loop over the packages and around `create_cwl_stac`, logs it and exits with 0: after a post that
leads to `exited`, after the volume to `gave_up`, with a file left half written or outputs left out.
`ResultsListed` is about `exited`, the other properties about both.

Modelling decisions: `shutil.rmtree` of the items removes file after file; the read of one
file is atomic, a write is not (`torn`). Copying an item file and writing one are the same action. What a
`save_result` writes is a package with one asset per item. A CWL workflow that brings its
own STAC is in `CwlRun`; assets on the collection ("old executor format") are left out. Names are
abstract; `EndsWith` says which end with which, since the proxy compares that way.

## 4. CWL inputs

`CwlDoc` holds what a CWL document is to the two programs that read its `inputs:`;
`CwlForm` is the API's copy of the parser (`api/cwl_inputs.py`), `CwlWiring` the
executor's (`executor/.../cwl.py`), translated each from its own file; `CwlInputs` composes
them with a user, a URL and a job.

| TLA+ | code |
|---|---|
| `url` | the document at the URL of `run_udf`'s `udf`; its author may replace it |
| `form` | the answer of `cwl_inputs_inspect`, with the document it was made of |
| `job.context`, `job.data` | `run_udf`'s arguments |
| `job.inputs` | what Calrissian is given: for each input, whether the value is the user's, the staged data's or the environment's |
| `job.tool` | the entry Calrissian runs (`#main`), `None` when a package has none |

A type is a model value: an ordinary one, one with `?`, a list with `null`, or `enum`. A
specification in full has a type or none, symbols or none, a default or none. The inputs
block is a sequence in both of its forms; a name that occurs twice counts where it
occurs last. Type names, enum symbols and descriptions are for display and left out, as
are fetching (scheme, time-out, the 1 MiB limit) and `validate_only`.

## 5. Executors

`Executors` composes several executor pods, one job each, with the Dask clusters they start
on one gateway. `StacGrid` and `SubGraphs`, which it extends, are the pure part: what a pod
computes.

| TLA+ | code |
|---|---|
| `set_grid_cells(box)`, `find_cell_bounds`, `cell_pos`, `n_tiles` | `executor/stac.py`, in units of length |
| `inv(box)`, `fwd(box, d)` | pyproj: the distance between the upper corners; how far south of the upper edge a walk of length d due east has come |
| `is_cwl_job`, `pg_bounding_boxes`, `derive_sub_graph` | `executor/executor.py` and `utils.py`, on a graph that is a sequence of nodes with an extent |
| `prepare_graphs` | the loop in `executor/executor.py` |
| `pod[e]` | one run of `execute`: step, graphs left, what was loaded, exception or not, objects open |
| `up` | clusters of the gateway, named after the job that started them |
| `dask` | the deployment: no gateway, or one that lists the caller's clusters or everybody's |
| `pod[e].past` | history: the faults the pod has met |

Faults, chosen per pod: `setup` (a call before the `try` raises), `raise`, `hang` (a process
waits for ever), `closed` (the cluster is idle for too long, or a process puts another one in
its place), `gateway`, `close` (an object is not closed), `kill`.

Modelling decisions:
- `find_cell_bounds` lays the cells along the geodesic that leaves the upper left corner due east.
  A position is given by how far one walks that geodesic to its meridian, and how far south of the
  box's upper edge it is. What pyproj answers is left open (two constant operators), so the geodesic
  may bend north or south of the edge and be longer than the distance between the corners.
- What a grid is over (`InGrid`) is less than the box: a column starts where the geodesic has come to,
  so a strip below the upper edge is lost (above the lower one south of the equator), and so is what
  lies east of the distance between the corners. `CellsCoverBox` says that all the rest is computed,
  and once.
- An explicit null as a load process's `spatial_extent` is not passed over: it is the box that is
  found, and the grid raises (`Null`).
- Which load process the graph parser puts first is not determined, hence a set of boxes. The
  code writes every cell into the same dictionary; since each derived graph is parsed at once
  and the same node is overwritten, a cell's graph is as good as derived from the original.
- The gateway's list has no order the code knows of: `Teardown` picks any that it sees.
- An exception outside the `try` and a job that published end differently: the first goes
  through the interpreter's shutdown, which open objects can block; the second calls `os._exit`. The
  objects are the client, the gateway and a local cluster; a `GatewayCluster` whose shutdown failed,
  which has a finalizer too, is left out.

**Fairness** (`FairSpec`): a pod runs on; a pod that hangs or is stuck is killed (the workflow's
`active_deadline_seconds`); the gateway stops idle clusters (`CLUSTER_IDLE_TIMEOUT`). The
last is needed for `ClustersGo`: a pod that is killed leaves its cluster to it.

## 6. CWL jobs

`CwlRun` follows the processes of one CWL job, one after the other, through one volume.

| TLA+ | code |
|---|---|
| `graph`, `at`, `pc` | the job's processes (`cwl`, `validate` for `validate_only`, `save`), where it is |
| `out[n]` | the tree of files Calrissian leaves for process `n`; `find_stac_root` is `_find_stac_root` |
| `work` | working directories (`TemporaryDirectory` on the volume) |
| `results`, `stac` | files under `RESULTS` and `STAC`, each with the process that made it |
| `doc`, `items`, `bucket` | `STAC/{job_id}.json`, what each item file says of its asset, objects by name |

| `left` | what the loop that runs has still to do: files, or names of items |
| `Given`, `Packages` | the processes of which the user gives `save_result` an `output_folder`; the files each writes |

With a STAC root the directory it lies in replaces `STAC`: `RemoveOldStac` removes file by file,
`CopyTree` copies file by file, `Rename`, `MoveItem`, `RewriteHref` and `Upload` follow, item by item.
Without one, files are copied to `RESULTS` (`CollectFile`; `DirectoryExists` is `copytree` that
raises, `shutil.copy2` overwrites) and `cli.py` describes them (`Describe`, `WriteDoc`, `WriteItem`,
`Exit`). A document opened for writing is `Torn` until it is written.

Faults: `raise` ends the job at any call that no one catches, `kill` at any step and without the
`finally`, also between two files of a tree. `disk` is an error inside one of the `try` blocks: an item
is not moved (`NotMoved`), the upload loop stops (`UploadStops`), `create_cwl_stac` is given up, which
is logged and ends with exit code 0 (`GiveUp`, `gave_up`). An upload that fails keeps the local path.

Modelling decisions:
- Assets lie anywhere below `STAC`. Their object in S3 is known by the name alone, so two assets of one
  name in different directories share it (`Rivals`).
- `save_result` writes to a directory with a new uuid unless the user names one, which may be one that
  another process has written to.
- Names are strings of the instance; which item file belongs to a file, which names are NetCDF,
  collections or JSON arrays are constants.
- Left out: a file with the name of another tree's top level directory, hidden files, empty directories,
  items with several assets or with hrefs that are absolute from the start. Copying one file is
  atomic, and trees are walked in any order, also where the code finishes one directory first.

## 7. Files, users and links

`FileService` is requests to the file endpoints and the users they are for; `ByteRange` (ranges
of a download) and `SignedUrls` (links of `get_results`) are the pure part.

| TLA+ | code |
|---|---|
| `users` | table `users`: id and `oidc_sub`, unique |
| `names`, `files` | paths of any depth in a user's workspace (`Dir`, a file or nothing); contents by file number (an inode) |
| `req[r]` | a request: what it asks, its next call, the open file, bytes sent, names seen by a listing |
| `WithToken`, `CreateUser`, `WithLink` | `validate_authorization` of `auth.py`, `signed_url_or_validate` |
| `SubDir`, `MkDir`, `MakeDirs`, `Receive`, `Open`, `Write`, `Stat` | `upload_file` |
| `Ls`, `Size`; `Exists`, `Remove` | `list_files`; `delete_file` |
| `Look`, `Tar`, `FSize`, `Stream`, `ReadRange`, `ReadChunks` | `file_header`, `download_file` and its `iterfile` |

Modelling decisions:
- The API's image starts eight uvicorn workers, so each call to the file system or the database
  is a step, also where one process would not yield. Writing is in place: `open(..., "wb")`
  empties the file that has the name; a reader that has it open goes on with it.
- A byte is known by the upload, the part and the place it comes from, so properties compare
  contents and not lengths only.
- `fs.mkdir` is `exists`, then `os.makedirs(exist_ok=True)`, which makes one directory after the other.
  It raises `FileExistsError` or `NotADirectoryError` when a file is where a directory should be
  (ends `exists`, `dir`); directories that another request makes meanwhile are no obstacle.
- `validate_path` never raises, so a download of a file that is not there takes the archive's way
  and breaks after its 200 (`nofile`); a form field that is not a file leaves an empty file (`text`).
- `set_range` rejects ranges of one byte; a range from the end (`bytes=-5`) starts at 0. Only the
  bytes are modelled: the `Content-Range` of a clamped range names an end one past the last byte.
- An archive is read at once; who may write to a directory meanwhile is not a question the code
  answers. `list_files` gives paths relative to `FILES`, downloads take paths relative to the workspace.
- The expiry of a link is signed and never compared with the clock, so the model has no clock.
  `sign_url` takes a naive local time and validation makes a local time again; `Zone` is the
  offset (0, as in the container).

## 8. Runs

| run | question | instance | states |
|---|---|---|---|
| `races` | Can any interleaving of start, cancel, delete, worker and reconciler make a row lie? | 1 job, 2 clients, 1 worker, 2 workflows, a `modify` that raises | 2.9M |
| `admission` | Is a queued job ever forgotten, or a live one marked errored? | 2 jobs, pool of 1, 2 clients, 2 workers | 2.0M |
| `promise` | Do the services implement `JobLife`, and does a queued job leave the queue? | a batch job, 2 clients, 2 workers, `submit` and `reconcile` faults, fair | 72k |
| `recovery` | Is the end of a workflow noticed, and a synchronous request answered, whatever is lost? | a synchronous job, 2 clients, all of `request`, `task`, `expire`, `argo`, fair | 226k |
| `publishing` | Are answers complete, links right and results listed while publishing goes wrong? | 3 outputs, 1 package or CWL, 2 readers, all faults | 1.5M |
| `cwl_forms` | Do form and job agree on a CWL document's inputs, and does a filled-in form suffice? | 13 tools, 8 packages, 4 names | 558k |
| `executors` | Does each executor compute once what its grid is over, leave no cluster, end, and leave the others alone? | 2 pods on one gateway, one with every fault; 9 graphs, boxes of 0 to 4 cells, a geodesic that bends north or south; fair | 249k |
| `cwl_run` | Is what each CWL process leaves listed, linked and kept apart from the others'? | 5 graphs of 2 or 3 processes, 9 trees, packages in a uuid's and in a given directory, S3, all faults | 259k |
| `file_service` | Do uploads stand, downloads yield the bytes asked for, failures have a cause, identities one user? | 3 requests, 2 at a time, 17 asks on 4 names, of files, of a directory and below up to two of them, 2 identities, 2 keys | 1.3M |
| `pool_never_retried` | violated: a job that finds the pool full stays queued, for want of a scheduler | 2 jobs, pool of 1 | |
| `canceled_job_runs` | violated: a job canceled while queued runs | 1 job | |
| `tiles_overwritten` | violated: the second tile's package removes the first one's items | 3 outputs, 2 packages | |

The last three are the findings of `PROJECT.json`.

**Bounds.** `MaxTasks` caps the tasks that wait in Redis when a job is started (poll
tasks keep the number they had), `Workflows` the submissions. Two handlers, a worker and
the reconciler hold four views of one row: a lost update needs two of them. Two clients are what it
takes to be inside `fs.mkdir` at once. Two workflows
show a second submission; a pool of one with two jobs shows both sides of the check. Three
outputs in a package leave one done, one in work and one to do. No client does more than
its handlers in flight, but handlers are reused, so sequences of requests are unbounded.
Clients, workers and readers are interchangeable, hence the symmetry sets, used in runs
without temporal properties only. `executors`: the boxes have edges of less than, exactly and more
than a whole number of cells, in units of half a metre, so that the metre between cells counts; the
geodesic has left the upper edge by the second column, and in a wide box the walk to the eastern edge is longer than the distance between the corners;
two pods are what it takes for one to pick the other's cluster. `cwl_run`: the second process is the first that can
meet what another has left, the third can meet what is left of two, and the proofs cover jobs of any
length; the trees have roots at the top and in a directory, items beside the root and in `items`, and
assets of one name at the top and below. `file_service`: `MaxActive` bounds the requests under way, two being
what a race needs; the third request comes before, between or after them. `MaxFiles` bounds the
files ever made, which three requests cannot exceed; `ReadChunk` is smaller than the longest file plus one, so a download
takes several reads. Deadlock is not an error anywhere: a system in which
every job has ended and no workflow name is left has nothing to do.

**Preconditions on purpose.** `QueuedIsPending` and `ErrorMeansEnded` are checked without
Argo faults: a `queue_to_submit` that raises after the row became queued does leave it
(hazard `jobs.py:189`), and one failed `get_workflow` marks a running job as errored (hazard
`tasks.py:172`). `Promise` runs without cancel, delete and Argo faults, since `JobLife` speaks
of clients who do not cancel. `OneWorkflowPerJob`, `ErrorMeansEnded` and `KeepsFairPromise` except
`unguarded` jobs (hazard `jobs.py:178`): two of their submissions can run, one fail and the other
go on. `SyncReturns` excludes cancel: a canceled synchronous job is never answered.
`ResultsListed` and `OutputsListed` except executors that gave up, whose outputs may stay unlisted
behind an exit code 0. `publishing` takes one package, names apart (`OnePackage`, `PlainNames`) and no
NetCDF file among a CWL job's outputs, which would keep all of them from being described; a finding
and two hazards are what happens otherwise. `AnswersComplete` is about data cubes, because
`create_cwl_stac` writes the collection first. `FormIsOfWhatRuns` and `FormSuffices` are about
a document that did not change between form and job (nothing pins it), and `FormSuffices` asks
for a path or a value where `openeo_data` is declared: forms hide it and nothing fills it in.
`CellsCoverBox` is about graphs with one extent, since only the first load process gets the cell,
boxes with an area, since others have no cells, and the part of the box that the columns reach
(`InGrid`); the strips outside it are lost. `NoClusterLeft` excludes exceptions before the
`try` and a gateway that could not be reached, and on a gateway that lists everybody's clusters a
cluster that closed early: the pod may take another's for its own, which is also the last case of
`FailsForItsOwnReasons`. `OutputsListed` excludes what its comment names: collections, NetCDF files,
shared stems. `LinksLeadHome` says nothing of the step that removes the old STAC, nor of jobs that end
in it, nor, on S3, of items that have a rival. `StacStands` lets items that `create_cwl_stac` makes anew
take the place of others, its document that of the workflow's root, and the disk lose an item.
`NoMixedDirectories` excepts packages in a directory that the user names. `LastUploadStands` and `DownloadExact` are about requests that nothing else crosses on
the same file: uploads in place do mix when they do.

## 9. Proofs

`JobSystemProofs` (invariant in `JobSystemInv`) proves for any sets of jobs, clients,
workers and workflows, under every fault and every `MissingRow`:
`TypeOK`, `RunningHasWorkflow`, `FinishedMeansSucceeded`. The last two speak of rows only
and are not inductive: a row is written from an object read, pickled or decided on earlier.
`IInv` therefore says of every place such an object waits in (`TasksInv`, `RequestsInv`,
`WorkInv`, `RecInv`) that it names a workflow of its own job or none, and that a decision
"finished" was taken from a workflow that succeeded; `OwnersInv` says that creating a
workflow takes none from another job. Success and ownership are never withdrawn, so staleness
cannot hurt. The queue is handled by the invariant `queue \in Seq(SoundTasks)`; `Append`,
`Head` and `Tail` keep it. The proof has one lemma per action group; each conjunct an action
does not touch goes through unchanged.

`ResultsProofs` (invariant in `ResultsInv`) proves, for any number of outputs and readers
and under every fault, assuming `OnePackage` and `PlainNames`: `TypeOK`, `ResultsListed`,
`AnswersComplete`, `LinksServe`, `RemoteMatchesItems`. The heart is `DocInv` (a cube's
document exists only when all items do, and none goes away after that) and `ReaderInv` (a
reader past the document has seen or will see the item of every output), also when the executor gives
up; `ItemsInv` ties
each `s3://` item to the object under its name, which needs names apart; `RunInv` carries
what each step has established.

`CwlInputsProofs` proves for every set of documents that the two parsers agree
(`ParsersAgree`, by cases on the shape of a specification: where they take different
things for its type, neither is optional), that they pick the entry Calrissian runs
(`SameTool`), and from these, with an invariant that says how form and job were made, each
property of `cwl_forms`.

`JobRightsProofs` (invariant in `JobRights`, on top of `IInv`) proves the three properties that depend
on who may do what next.
- `OneWorkflowPerJob`, under every fault, for jobs that are not `unguarded`: the right to submit a batch
  job is in one place at most (`HoldersInv`: queue, scheduled tasks, workers, requests, workflows). Who
  makes the directory takes it, and until then nobody has it; one request at most is about to make it
  (`MakingInv`), since a second one that looks meanwhile makes the job `unguarded`, and a later one finds
  the directory and raises. Each later step moves the right or loses it. `RightsInv` is inductive only
  together with `SyncInv`, which says that the other way to `submit_job`, `process_sync_job`, is for
  other jobs.
- `ErrorMeansEnded`, if calls to Argo do not fail (`"argo" \notin Faults`): whoever writes `error`, or has
  decided to, has seen the right used up and its workflow ended (`Spent`), and neither is undone.
- `QueuedIsPending`, if no request, task or call to Argo fails: a queued job's submission is in at least
  one place. With those faults it is false, which is the hazard at `jobs.py:189`.

`JobLifeProofs` (invariant in `JobPromise`) proves `Spec => Life!Spec` while nobody cancels or deletes,
no workflow expires and Argo answers (`Undisturbed`; requests, tasks, submissions and reconciler runs
may still be lost). For each place a job's business can be in, `PromiseInv` says what the row says
meanwhile, so that each write takes the row from a status from which `JobLife` allows it; every step is
then a step of `JobLife` for one job or a stutter; the second look for a directory that is being made is
`Dispute`. Fairness, hence `KeepsFairPromise`, stays with TLC.

`ExecutorsProofs` (invariant in `ExecutorsInv`) proves for any number of pods, on any kind of gateway,
under every fault: `TypeOK`, `CellsCoverBox`, `NoClusterLeft`, `FailsForItsOwnReasons`,
`DoneNeverWedges`. `CellsCoverBox` rests on two lemmas about the grid for every box, tile size, metre and
geodesic: the cells of a box with an area reach each position of `InGrid` (`GridCovers`) and no two share
one (`CellsDisjoint`): the cell of a position is the one at its quotients by the tile size, measured from
where its column starts, and the numbering column by column is a bijection. `CellsInv` ties the graphs run and left to these cells. `ClustersInv`,
`LossInv` and `ClearedInv` say which clusters of a pod exist at each step and why one may be missed; the
others' pods matter there, since a gateway that lists everybody's clusters lets one pod shut another's.

`CwlRunProofs` (invariant in `CwlRunInv`) proves all properties of `cwl_run` for jobs of any number of
processes, any trees and packages, under every fault: `TypeOK`, `WorkDirGone`, `NoMixedDirectories`,
`LinksLeadHome`, `StacStands`, `OutputsListed`. On the side of `RESULTS`, `OriginInv` says of every file
which process it is from, `PathInv` that a path names one file, `PackageInv` that a package's collection
has been there since it was written, `OneDirs` that a directory is one process's unless the user says
otherwise; `CollectInv` and `DescribeInv` that what is not left to copy, or to describe, is done. On the
side of `STAC`, `StacInv` says that everything in it is of the one process that brings it, and of a torn
item that its asset is where its href will lead; `PlaceInv` how far it is: copied, moved, rewritten,
uploaded. At the end of a process these give `StacStands`, which is then kept by the frame: what follows
changes neither, but for what `create_cwl_stac` makes anew.

`FileServiceProofs` (invariant in `FileServiceInv`) proves for any number of requests, users, names, parts
and ranges, under every fault: `TypeOK`, `OneUser`, `FailsHaveCause`, `LastUploadStands`,
`DownloadExact`, and `LinkServes` where the local time is UTC (`Zone = 0`). `CauseInv` says that what a
request has looked at is still so unless one that it crosses has changed it; `FilesInv` that a file has
one name; `UploadInv` and `DownloadInv` what has been written, and read, up to the byte. The arithmetic of
ranges is apart: a closed range yields exactly the bytes the file has of it, through
`download_file`'s correction with its end one past the file (`ClosedRangeExact`), and an open one all from
its start (`OpenRangeExact`).

Assumptions on constants are the named ASSUMEs of `JobState`, `Results`, `CwlDoc`, `StacGrid`, `SubGraphs`,
`Executors`, `CwlRun` and `FileService`; TLC evaluates them on every run that uses the module. The strongest
are the ones named above for `Results`, and that of `CwlRun` on packages: where the user gives no
`output_folder`, `save_result` names the directory with a new uuid, which no one else uses. Of the
geodesic, `StacGrid` assumes nothing; boxes are such that pyproj's answers are numbers (`Measured`). Every conjunct of an inductive invariant was checked by TLC on the instance
of its run before it was proved; where one is not preserved on its own, its neighbours say what is
missing.

**Only model-checked:** liveness (`QueuedJobsLeave`, `SyncReturns`, `EndedWorkflowsNoticed`, `ClustersGo`)
and the refinement under fairness (`KeepsFairPromise`), which are beyond the prover. Every safety
property of a passing run has a theorem.

## 10. Plan

1. *Done:* job services with `JobLife`, results, CWL inputs, executors with grid and sub graphs, CWL
   jobs, file service with users and links; the theorems above.
2. *Done:* proofs of every safety property of the runs, and of the safety part of `KeepsFairPromise`.
3. What could still be added: the refinement of `JobLife` with `"argo"` faults for jobs that were not
   launched when a call failed; `LinksServe` of `Results` without `PlainNames`; items with several assets
   in `CwlRun`; a bound on the strips that a grid leaves out, from assumptions on the geodesic.

## 11. Not modelled, and why

- `compute_with_timeout` is imported and called nowhere; what its absence means is `RunHangs`.
- `load_collection` beyond the extent it loads, `reduce_dimension`, the length and course of geodesics and
  CRS handling are calls into xarray, Dask, odc and pyproj.
- Assets on the collection ("old executor format") in `get_results`: no code of this repository writes them.
- Logs, listings and capabilities change nothing. Settings, migrations, Helm charts and CI are configuration.
- Known limits of the code that no property is about: more jobs than the pool holds can pass its check
  (`tasks.py:88`); `create_cwl_stac` writes the collection before the items (`stac_cwl.py:117`);
  `process_sync_job` looks for files only directly under `RESULTS` (`jobs.py:531`); equal names in two
  packages share an object in S3 (`s3.py:51`); a document larger than 1 MiB is cut off, and fetched again
  by the job.
