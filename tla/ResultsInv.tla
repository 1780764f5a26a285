----------------------------- MODULE ResultsInv -----------------------------
(***************************************************************************)
(* The inductive invariant of Results for a job whose outputs are described *)
(* in one package and whose file names are told apart.                      *)
(***************************************************************************)
EXTENDS Results

\* The bounding box fits one tile: save_result is called once.
OnePackage == \E p : Packages = {p}

\* No output's name ends with the name of another, and no CWL output is NetCDF.
PlainNames ==
  /\ \A o, p \in Outputs : <<NameOf[o], NameOf[p]>> \in EndsWith => o = p
  /\ Outputs \cap NetCDF = {}

Listed(o) == items[ItemOf[o]] # None /\ items[ItemOf[o]].out = o
AllListed == \A o \in Outputs : Listed(o)

\* The package has been published: the loop is back at its head with nothing to do.
LoopDone == run.pc = "next" /\ run.todo = {}

\* What each step of the executor has done so far.
RunInv ==
  /\ run.pc \in {"next", "clear", "upload"} => run.kind = "cube"
  /\ run.pc \in {"clear", "copy", "doc", "upload", "post", "post_items"} /\ run.kind = "cube"
       => run.todo = {}
  /\ run.pc = "clear" => run.cur \in Packages
  /\ run.pc = "doc" /\ run.kind = "cwl" => run.cur = "cwl"
  /\ run.pc \in {"doc", "copy", "upload", "post", "post_items"} /\ run.kind = "cube"
       => run.cur \in Packages
  /\ run.pc = "copy" => \A o \in Outputs \ run.left : Listed(o)
  /\ run.pc = "doc" /\ run.kind = "cube" => AllListed
  /\ run.pc \in {"upload", "post", "post_items", "exited"} \/ LoopDone => AllListed
  /\ run.pc \in {"next", "exited"} => torn = None

\* A cube's document is there only once its items are, and they stay.
DocInv ==
  run.kind = "cube" /\ doc # None =>
    /\ AllListed
    /\ LoopDone \/ run.pc \in {"upload", "post", "post_items", "exited", "gave_up", "failed"}

\* An item file describes an output that is named after it; what it says of S3 is so.
ItemsInv ==
  \A i \in Items : items[i] # None =>
    /\ ItemOf[items[i].out] = i
    /\ items[i].at = "s3" => /\ bucket[NameOf[items[i].out]] = items[i].out
                             /\ run.kind = "cube"

RemoteInv ==
  \A i \in Items : remote[i] # None =>
    /\ remote[i] = items[i]
    /\ LoopDone \/ run.pc \in {"post_items", "exited", "gave_up", "failed"}

\* A reader that has passed the document holds, or is still to read, every output.
ReaderInv ==
  run.kind = "cube" =>
    \A r \in Readers :
      /\ reader[r].pc \in {"list", "items", "answered"} => doc # None
      /\ reader[r].pc = "items" =>
           \A o \in Outputs : ItemOf[o] \in reader[r].left \/ \E a \in reader[r].got : a.out = o
      /\ reader[r].pc = "answered" => \A o \in Outputs : \E a \in reader[r].got : a.out = o

IInv == TypeOK /\ RunInv /\ DocInv /\ ItemsInv /\ RemoteInv /\ ReaderInv
=============================================================================
