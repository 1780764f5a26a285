---------------------------- MODULE ResultsProofs ----------------------------
(***************************************************************************)
(* IInv is inductive, for any number of outputs and readers, and with it    *)
(* the properties of Results hold of every job with one package.            *)
(***************************************************************************)
EXTENDS ResultsInv, TLAPS

\* With one package, an item file describes one output.
LEMMA ItemsApart ==
  ASSUME OnePackage
  PROVE  \A o, p \in Outputs : ItemOf[o] = ItemOf[p] => o = p
  BY OutputsAssumption, PackageItemsAssumption DEF OnePackage

\* With one package, that package is what all outputs were written by.
LEMMA WrittenByAll ==
  ASSUME OnePackage, NEW p \in Packages
  PROVE  WrittenBy(p) = Outputs
  BY OutputsAssumption DEF OnePackage, WrittenBy

\* The types are kept.
LEMMA TypeKept == IInv /\ [Next]_vars => TypeOK'
  <1> SUFFICES ASSUME IInv, [Next]_vars PROVE TypeOK'
    OBVIOUS
  <1> USE NamesAssumption, OutputsAssumption
  <1>t. TypeOK
    BY DEF IInv
  <1>1. CASE RunStep
    <2>1. ASSUME NEW p \in Packages, Compute(p) PROVE TypeOK'
      BY <1>t, <2>1 DEF TypeOK, Compute, RunStates, stacVars, WrittenBy
    <2>2. CASE Collect \/ ComputeRaises \/ Killed \/ VolumeRaises
      <3>1. ASSUME NEW pc \in RunSteps, run' = [run EXCEPT !.pc = pc] PROVE run' \in RunStates
        BY <1>t, <3>1 DEF TypeOK, RunStates
      <3>2. Collect => run' \in RunStates
        BY <1>t DEF TypeOK, Collect, RunStates, RunSteps
      <3>3. run' \in RunStates
        BY <2>2, <3>1, <3>2 DEF ComputeRaises, Killed, VolumeRaises, RunSteps
      <3> QED
        BY <1>t, <2>2, <3>3 DEF TypeOK, Collect, ComputeRaises, Killed, VolumeRaises, stacVars
    <2>3. CASE RunCwl
      BY <1>t, <2>3 DEF TypeOK, RunCwl, RunStates, RunSteps, stacVars
    <2>4. CASE NextPackage
      <3>1. run' \in RunStates
        <4>1. CASE run.todo = {} /\ run' = [run EXCEPT !.pc = "exited"]
          BY <1>t, <4>1 DEF TypeOK, RunStates, RunSteps
        <4>2. ASSUME NEW p \in run.todo,
                     run' = [run EXCEPT !.pc = "clear", !.cur = p, !.todo = @ \ {p}]
              PROVE run' \in RunStates
          <5>1. p \in Packages
            BY <1>t DEF TypeOK, RunStates
          <5> QED
            BY <1>t, <4>2, <5>1 DEF TypeOK, RunStates, RunSteps
        <4> QED
          BY <2>4, <4>1, <4>2 DEF NextPackage
      <3> QED
        BY <1>t, <2>4, <3>1 DEF TypeOK, NextPackage, stacVars
    <2>5. CASE Clear
      <3>1. PICK kept \in SUBSET Described :
              /\ items' = [i \in Items |-> IF i \in kept THEN items[i] ELSE None]
              /\ run' = IF kept = {} THEN [run EXCEPT !.pc = "copy", !.left = WrittenBy(run.cur)]
                        ELSE run
        BY <2>5 DEF Clear
      <3>2. items' \in [Items -> Assets \cup {None}]
        BY <1>t, <3>1 DEF TypeOK
      <3>3. run' \in RunStates
        BY <1>t, <3>1 DEF TypeOK, RunStates, RunSteps, WrittenBy
      <3> QED
        BY <1>t, <2>5, <3>2, <3>3 DEF TypeOK, Clear
    <2>6. CASE Copied \/ Uploaded \/ Posted
      BY <1>t, <2>6 DEF TypeOK, Copied, Uploaded, Posted, RunStates, RunSteps, stacVars
    <2>7. CASE WriteDoc
      <3>1. run.cur \in Packages \cup {"cwl"}
        BY <2>7 DEF WriteDoc, At, IInv, RunInv, TypeOK, RunStates
      <3> QED
        BY <1>t, <2>7, <3>1 DEF TypeOK, WriteDoc, RunStates, RunSteps, WrittenBy
    <2>8. CASE CloseFile
      BY <1>t, <2>8 DEF TypeOK, CloseFile
    <2>9. CASE PostDoc
      <3>1. run' \in RunStates
        <4> DEFINE todo == IF run.kind = "cwl" THEN Outputs ELSE WrittenBy(run.cur)
        <4>1. todo \in SUBSET Outputs
          BY DEF WrittenBy
        <4>2. CASE run' = [run EXCEPT !.pc = "exited"]
          BY <1>t, <4>2 DEF TypeOK, RunStates, RunSteps
        <4>3. CASE run' = [run EXCEPT !.pc = "post_items", !.left = todo]
          <5> HIDE DEF todo
          <5> QED
            BY <1>t, <4>1, <4>3 DEF TypeOK, RunStates, RunSteps
        <4> QED
          BY <2>9, <4>2, <4>3 DEF PostDoc
      <3> QED
        BY <1>t, <2>9, <3>1 DEF TypeOK, PostDoc, stacVars
    <2>10. ASSUME NEW o \in Outputs, CopyItem(o) PROVE TypeOK'
      BY <1>t, <2>10 DEF TypeOK, CopyItem, RunStates, RunSteps, Assets, Disk
    <2>11. ASSUME NEW o \in Outputs, Upload(o) PROVE TypeOK'
      BY <1>t, <2>11 DEF TypeOK, Upload, RunStates, RunSteps, Assets, InS3
    <2>12. ASSUME NEW o \in Outputs, PostItem(o) PROVE TypeOK'
      BY <1>t, <2>12 DEF TypeOK, PostItem, RunStates, RunSteps, Assets, Disk, stacVars
    <2> QED
      BY <1>1, <2>1, <2>2, <2>3, <2>4, <2>5, <2>6, <2>7, <2>8, <2>9, <2>10, <2>11, <2>12
      DEF RunStep
  <1>2. ASSUME NEW r \in Readers, ReadStep(r) PROVE TypeOK'
    <2>a. reader[r] \in ReadStates
      BY <1>t DEF TypeOK
    <2>1. CASE ReadDoc(r) \/ Answer(r)
      <3>1. PICK pc \in ReadSteps : reader' = [reader EXCEPT ![r].pc = pc]
        BY <2>1 DEF ReadDoc, Answer, ReadSteps
      <3> QED
        BY <1>t, <2>1, <2>a, <3>1 DEF TypeOK, ReadDoc, Answer, ReadStates, stacVars
    <2>2. CASE ReadItem(r)
      <3>1. reader' \in [Readers -> ReadStates]
        <4>1. PICK i \in reader[r].left :
                reader' = IF items[i] = None \/ torn = i
                          THEN [reader EXCEPT ![r].pc = "error"]
                          ELSE [reader EXCEPT ![r].left = @ \ {i}, ![r].got = @ \cup {items[i]}]
          BY <2>2 DEF ReadItem
        <4>2. i \in Items
          BY <2>a DEF ReadStates
        <4>3. items[i] # None => items[i] \in Assets
          BY <1>t, <4>2 DEF TypeOK
        <4> QED
          BY <1>t, <2>a, <4>1, <4>2, <4>3 DEF TypeOK, ReadStates, ReadSteps
      <3> QED
        BY <1>t, <2>2, <3>1 DEF TypeOK, ReadItem, stacVars
    <2>3. CASE ReadList(r)
      BY <1>t, <2>3, <2>a DEF TypeOK, ReadList, ReadStates, ReadSteps, stacVars, Described
    <2> QED
      BY <1>2, <2>1, <2>2, <2>3 DEF ReadStep
  <1>3. CASE UNCHANGED vars
    BY <1>t, <1>3 DEF TypeOK, vars, stacVars
  <1> QED
    BY <1>1, <1>2, <1>3 DEF Next

-----------------------------------------------------------------------------
\* A reader's step leaves alone what the executor's invariants speak of.
LEMMA ReadersChangeNothing ==
  ASSUME IInv, NEW r \in Readers, ReadStep(r)
  PROVE  RunInv' /\ DocInv' /\ ItemsInv' /\ RemoteInv'
  <1>1. UNCHANGED <<results, doc, items, torn, bucket, remote, run>>
    BY DEF ReadStep, ReadDoc, ReadList, ReadItem, Answer, stacVars
  <1> QED
    BY <1>1 DEF IInv, RunInv, DocInv, ItemsInv, RemoteInv, AllListed, Listed, LoopDone

\* A reader that has passed the document loses no output: it lists every item file,
\* and what it reads of one is the output the file is named after.
LEMMA ReadersComplete ==
  ASSUME OnePackage, IInv, NEW r \in Readers, ReadStep(r)
  PROVE  ReaderInv'
  <1> SUFFICES ASSUME run.kind = "cube", NEW s \in Readers
               PROVE  /\ reader'[s].pc \in {"list", "items", "answered"} => doc # None
                      /\ reader'[s].pc = "items" => \A o \in Outputs :
                           ItemOf[o] \in reader'[s].left \/ \E a \in reader'[s].got : a.out = o
                      /\ reader'[s].pc = "answered" =>
                           \A o \in Outputs : \E a \in reader'[s].got : a.out = o
    BY DEF ReaderInv, ReadStep, ReadDoc, ReadList, ReadItem, Answer, stacVars
  <1>t. TypeOK /\ ReaderInv /\ DocInv /\ ItemsInv
    BY DEF IInv
  <1>a. reader \in [Readers -> ReadStates]
    BY <1>t DEF TypeOK
  <1>b. s # r => reader'[s] = reader[s]
    BY <1>a DEF ReadStep, ReadDoc, ReadList, ReadItem, Answer
  <1>c. CASE s # r
    BY <1>b, <1>c, <1>t DEF ReaderInv
  <1>d. CASE s = r
    <2>1. CASE ReadDoc(r)
      BY <1>a, <1>d, <2>1 DEF ReadDoc, ReadStates
    <2>2. CASE ReadList(r)
      <3>1. doc # None /\ AllListed
        BY <1>t, <2>2 DEF ReadList, ReaderInv, DocInv
      <3>2. \A o \in Outputs : ItemOf[o] \in Described
        BY <3>1, OutputsAssumption DEF AllListed, Listed, Described
      <3>3. reader'[s].pc = "items" /\ reader'[s].left = Described
        BY <1>a, <1>d, <2>2 DEF ReadList, ReadStates
      <3> QED
        BY <3>1, <3>2, <3>3
    <2>3. CASE ReadItem(r)
      <3>1. PICK i \in reader[r].left :
              reader' = IF items[i] = None \/ torn = i
                        THEN [reader EXCEPT ![r].pc = "error"]
                        ELSE [reader EXCEPT ![r].left = @ \ {i}, ![r].got = @ \cup {items[i]}]
        BY <2>3 DEF ReadItem
      <3>2. reader[r].pc = "items" /\ doc # None
        BY <1>t, <2>3 DEF ReadItem, ReaderInv
      <3>3. CASE items[i] = None \/ torn = i
        <4>1. reader'[r].pc = "error"
          BY <1>a, <3>1, <3>3 DEF ReadStates
        <4> QED
          BY <4>1, <1>d
      <3>4. CASE ~(items[i] = None \/ torn = i)
        <4>1. /\ reader'[r].pc = "items"
              /\ reader'[r].left = reader[r].left \ {i}
              /\ reader'[r].got = reader[r].got \cup {items[i]}
          BY <1>a, <3>1, <3>2, <3>4 DEF ReadStates
        <4>2. i \in Items /\ items[i] \in Assets
          BY <1>t, <1>a, <3>4 DEF TypeOK, ReadStates
        <4>3. \A o \in Outputs : ItemOf[o] = i => items[i].out = o
          BY <1>t, <3>4, <4>2, ItemsApart DEF ItemsInv, Assets
        <4>4. ASSUME NEW o \in Outputs
              PROVE ItemOf[o] \in reader'[r].left \/ \E a \in reader'[r].got : a.out = o
          <5>1. ItemOf[o] \in reader[r].left \/ \E a \in reader[r].got : a.out = o
            BY <1>t, <3>2 DEF ReaderInv
          <5> QED
            BY <4>1, <4>3, <5>1
        <4> QED
          BY <1>d, <3>2, <4>1, <4>4
      <3> QED
        BY <3>3, <3>4
    <2>4. CASE Answer(r)
      <3>1. doc # None /\ reader[r].left = {} /\ reader[r].pc = "items"
        BY <1>t, <2>4 DEF Answer, ReaderInv
      <3>2. reader'[r].pc = "answered" /\ reader'[r].got = reader[r].got
        BY <1>a, <2>4 DEF Answer, ReadStates
      <3> QED
        BY <1>d, <1>t, <3>1, <3>2 DEF ReaderInv
    <2> QED
      BY <2>1, <2>2, <2>3, <2>4 DEF ReadStep
  <1> QED
    BY <1>c, <1>d

\* The executor's steps take nothing from a reader: once it is there, the document
\* of a cube stays.
LEMMA ReadersUndisturbed ==
  ASSUME IInv, RunStep
  PROVE  ReaderInv'
  <1>1. reader' = reader /\ run'.kind = run.kind
    BY DEF RunStep, Compute, Collect, RunCwl, ComputeRaises, Killed, VolumeRaises, NextPackage, Clear,
           Copied, WriteDoc, CloseFile, Uploaded, PostDoc, Posted, CopyItem, Upload, PostItem,
           IInv, TypeOK, RunStates
  <1>2. doc # None /\ run.kind = "cube" => doc' # None
    <2>1. doc' = doc \/ (doc' = run.cur /\ WriteDoc)
      BY DEF RunStep, Compute, Collect, RunCwl, ComputeRaises, Killed, VolumeRaises, NextPackage, Clear,
             Copied, WriteDoc, CloseFile, Uploaded, PostDoc, Posted, CopyItem, Upload, PostItem,
             stacVars
    <2>2. WriteDoc /\ run.kind = "cube" => run.cur # None
      BY NamesAssumption DEF WriteDoc, At, IInv, RunInv
    <2> QED
      BY <2>1, <2>2
  <1> QED
    BY <1>1, <1>2 DEF IInv, ReaderInv

-----------------------------------------------------------------------------
\* What the executor has not reached yet is untouched: before a document is written
\* there is none, and before anything is posted the STAC API knows of nothing.
LEMMA NotYet ==
  ASSUME IInv
  PROVE  /\ run.kind = "cube" /\ run.pc \in {"compute", "next", "clear", "copy", "doc"}
              /\ ~LoopDone => doc = None
         /\ run.pc \in {"compute", "clear", "copy", "doc", "upload", "post"}
              => \A i \in Items : remote[i] = None
         /\ run.pc = "next" /\ ~LoopDone => \A i \in Items : remote[i] = None
  BY DEF IInv, DocInv, RemoteInv, LoopDone

\* The computation, and the ends it may come to.
LEMMA ComputeKeeps ==
  ASSUME OnePackage, PlainNames, IInv,
         \/ \E p \in Packages : Compute(p)
         \/ Collect \/ RunCwl \/ ComputeRaises \/ Killed \/ VolumeRaises
  PROVE  RunInv' /\ DocInv' /\ ItemsInv' /\ RemoteInv'
  <1>a. run \in RunStates /\ RunInv /\ DocInv /\ ItemsInv /\ RemoteInv
    BY DEF IInv, TypeOK
  <1>b. UNCHANGED <<doc, items, bucket, remote>>
    BY DEF Compute, Collect, RunCwl, ComputeRaises, Killed, VolumeRaises, stacVars
  <1>c. run'.kind = run.kind
    BY <1>a DEF Compute, Collect, RunCwl, ComputeRaises, Killed, VolumeRaises, RunStates
  <1>1. ItemsInv'
    BY <1>a, <1>b, <1>c DEF ItemsInv
  <1>2. CASE \E p \in Packages : Compute(p)
    <2>1. run.pc = "compute" /\ run'.pc = "compute" /\ doc = None
      BY <1>a, <1>2, NotYet DEF Compute, At, RunStates, LoopDone
    <2> QED
      BY <1>b, <1>1, <2>1, NotYet DEF RunInv, DocInv, RemoteInv, LoopDone
  <1>3. CASE Collect
    <2>1. /\ run.pc = "compute" /\ run'.pc = "next" /\ run'.kind = "cube" /\ ~LoopDone'
          /\ torn' = None
      BY <1>a, <1>3 DEF Collect, At, RunStates, LoopDone, OnePackage, stacVars
    <2>2. doc = None /\ \A i \in Items : remote[i] = None
      BY <1>c, <2>1, NotYet DEF LoopDone
    <2> QED
      BY <1>b, <1>1, <2>1, <2>2 DEF RunInv, DocInv, RemoteInv
  <1>4. CASE RunCwl
    <2>1. run.pc = "compute" /\ run'.kind = "cwl" /\ torn' = None
      BY <1>c, <1>4 DEF RunCwl, At, stacVars
    <2>2. \/ run'.pc = "exited" /\ Outputs = {}
          \/ run'.pc = "doc" /\ run'.cur = "cwl"
      BY <1>a, <1>4 DEF RunCwl, RunStates, PlainNames
    <2> QED
      BY <1>b, <1>1, <2>1, <2>2, NotYet DEF RunInv, DocInv, RemoteInv, LoopDone, AllListed
  <1>5. CASE ComputeRaises \/ Killed \/ VolumeRaises
    <2>1. run'.pc \in {"failed", "gave_up"}
      BY <1>a, <1>5 DEF ComputeRaises, Killed, VolumeRaises, RunStates
    <2> QED
      BY <1>a, <1>b, <1>c, <1>1, <2>1 DEF RunInv, DocInv, RemoteInv, LoopDone, AllListed, Listed
  <1> QED
    BY <1>2, <1>3, <1>4, <1>5

\* The head of the loop over the packages, and the clearing of the item files.
LEMMA LoopKeeps ==
  ASSUME OnePackage, IInv, NextPackage \/ Clear
  PROVE  RunInv' /\ DocInv' /\ ItemsInv' /\ RemoteInv'
  <1>a. run \in RunStates /\ RunInv /\ DocInv /\ ItemsInv /\ RemoteInv
    BY DEF IInv, TypeOK
  <1>b. run'.kind = run.kind /\ run.kind = "cube" /\ UNCHANGED <<doc, bucket, remote>>
    BY <1>a DEF NextPackage, Clear, At, RunInv, RunStates, stacVars
  <1>1. CASE NextPackage
    <2>1. CASE run.todo = {} /\ run' = [run EXCEPT !.pc = "exited"]
      <3>1. LoopDone /\ run'.pc = "exited" /\ items' = items /\ torn' = None
        BY <1>a, <1>1, <2>1 DEF NextPackage, At, RunStates, LoopDone, stacVars
      <3> QED
        BY <1>a, <1>b, <3>1 DEF RunInv, DocInv, ItemsInv, RemoteInv, LoopDone, AllListed, Listed
    <2>2. ASSUME NEW p \in run.todo,
                 run' = [run EXCEPT !.pc = "clear", !.cur = p, !.todo = @ \ {p}]
          PROVE  RunInv' /\ DocInv' /\ ItemsInv' /\ RemoteInv'
      <3>1. p \in Packages /\ run.todo \ {p} = {}
        BY <1>a DEF RunStates, OnePackage
      <3>2. run'.pc = "clear" /\ run'.cur = p /\ run'.todo = {}
        BY <1>a, <2>2, <3>1 DEF RunStates
      <3>3. run.pc = "next" /\ ~LoopDone /\ items' = items
        BY <1>1 DEF NextPackage, At, LoopDone, stacVars
      <3>4. doc = None /\ \A i \in Items : remote[i] = None
        BY <1>b, <3>3, NotYet
      <3> QED
        BY <1>a, <1>b, <3>1, <3>2, <3>3, <3>4 DEF RunInv, DocInv, ItemsInv, RemoteInv, LoopDone
    <2> QED
      BY <1>1, <2>1, <2>2 DEF NextPackage
  <1>2. CASE Clear
    <2>1. run.pc = "clear" /\ run.cur \in Packages /\ run.todo = {}
      BY <1>a, <1>b, <1>2 DEF Clear, At, RunInv
    <2>2. doc = None /\ \A i \in Items : remote[i] = None
      BY <1>b, <2>1, NotYet DEF LoopDone
    <2>3. PICK kept \in SUBSET Described :
            /\ items' = [i \in Items |-> IF i \in kept THEN items[i] ELSE None]
            /\ run' = IF kept = {} THEN [run EXCEPT !.pc = "copy", !.left = WrittenBy(run.cur)]
                      ELSE run
      BY <1>2 DEF Clear
    <2>4. \A i \in Items : items'[i] \in {items[i], None}
      BY <2>3
    <2>5. ItemsInv'
      BY <1>a, <1>b, <2>4 DEF ItemsInv
    <2>6. CASE kept = {}
      <3>1. /\ run'.pc = "copy" /\ run'.cur = run.cur /\ run'.todo = {}
            /\ run'.left = Outputs
        BY <1>a, <2>1, <2>3, <2>6, WrittenByAll DEF RunStates
      <3> QED
        BY <1>b, <2>1, <2>2, <2>5, <3>1 DEF RunInv, DocInv, RemoteInv, LoopDone
    <2>7. CASE kept # {}
      <3>1. run' = run
        BY <2>3, <2>7
      <3> QED
        BY <1>b, <2>1, <2>2, <2>5, <3>1 DEF RunInv, DocInv, RemoteInv, LoopDone
    <2> QED
      BY <2>6, <2>7
  <1> QED
    BY <1>1, <1>2

\* The item files and the document are written.
LEMMA DescribeKeeps ==
  ASSUME OnePackage, IInv,
         (\E o \in Outputs : CopyItem(o)) \/ Copied \/ WriteDoc \/ CloseFile
  PROVE  RunInv' /\ DocInv' /\ ItemsInv' /\ RemoteInv'
  <1> USE NamesAssumption, OutputsAssumption
  <1>a. run \in RunStates /\ RunInv /\ DocInv /\ ItemsInv /\ RemoteInv
    BY DEF IInv, TypeOK
  <1>b. run'.kind = run.kind /\ run.kind \in {"cube", "cwl"} /\ UNCHANGED <<bucket, remote>>
    BY <1>a DEF CopyItem, Copied, WriteDoc, CloseFile, RunStates, stacVars
  <1>1. ASSUME NEW o \in Outputs, CopyItem(o)
        PROVE  RunInv' /\ DocInv' /\ ItemsInv' /\ RemoteInv'
    <2>1. run.pc = "copy" /\ o \in run.left /\ doc' = doc
      BY <1>1 DEF CopyItem, At
    <2>2. /\ run'.pc = "copy" /\ run'.cur = run.cur /\ run'.todo = run.todo
          /\ run'.left = run.left \ {o}
      BY <1>a, <1>1, <2>1 DEF CopyItem, RunStates
    <2>3. /\ items'[ItemOf[o]] = Disk(o)
          /\ \A i \in Items \ {ItemOf[o]} : items'[i] = items[i]
      BY <1>1 DEF CopyItem, IInv, TypeOK
    <2>4. Disk(o) # None /\ Disk(o).out = o /\ Disk(o).at = "disk"
      BY DEF Disk, Assets
    <2>5. \A p \in Outputs \ run'.left : Listed(p)'
      BY <1>a, <2>1, <2>2, <2>3, <2>4, ItemsApart DEF RunInv, Listed
    <2>6. run.kind = "cube" => doc = None
      BY <2>1, NotYet DEF LoopDone
    <2>7. \A i \in Items : remote[i] = None
      BY <2>1, NotYet
    <2>8. ItemsInv'
      BY <1>a, <1>b, <2>3, <2>4 DEF ItemsInv
    <2> QED
      BY <1>a, <1>b, <2>1, <2>2, <2>5, <2>6, <2>7, <2>8 DEF RunInv, DocInv, RemoteInv, LoopDone
  <1>2. CASE Copied
    <2>1. run.pc = "copy" /\ UNCHANGED <<doc, items>> /\ run.left = {}
      BY <1>2 DEF Copied, At, stacVars
    <2>2. /\ run'.pc = IF run.kind = "cwl" THEN "post" ELSE "doc"
          /\ run'.cur = run.cur /\ run'.todo = run.todo
      BY <1>a, <1>2 DEF Copied, RunStates
    <2>3. AllListed'
      BY <1>a, <2>1 DEF RunInv, AllListed, Listed
    <2> QED
      BY <1>a, <1>b, <2>1, <2>2, <2>3, NotYet DEF RunInv, DocInv, ItemsInv, RemoteInv, LoopDone
  <1>3. CASE WriteDoc
    <2>1. run.pc = "doc" /\ items' = items /\ run'.cur = run.cur /\ run'.todo = run.todo
      BY <1>a, <1>3 DEF WriteDoc, At, RunStates
    <2>2. \/ run.kind = "cwl" /\ run'.pc = "copy" /\ run'.left = Outputs
          \/ run.kind = "cube" /\ run'.pc = "upload" /\ AllListed
      BY <1>a, <1>b, <1>3 DEF WriteDoc, At, RunInv, RunStates
    <2> QED
      BY <1>a, <1>b, <2>1, <2>2, NotYet
      DEF RunInv, DocInv, ItemsInv, RemoteInv, LoopDone, AllListed, Listed
  <1>4. CASE CloseFile
    BY <1>a, <1>4 DEF CloseFile, RunInv, DocInv, ItemsInv, RemoteInv, LoopDone, AllListed, Listed
  <1> QED
    BY <1>1, <1>2, <1>3, <1>4

\* The uploads.
LEMMA UploadKeeps ==
  ASSUME OnePackage, PlainNames, IInv, (\E o \in Outputs : Upload(o)) \/ Uploaded
  PROVE  RunInv' /\ DocInv' /\ ItemsInv' /\ RemoteInv'
  <1> USE NamesAssumption, OutputsAssumption
  <1>a. run \in RunStates /\ RunInv /\ DocInv /\ ItemsInv /\ RemoteInv
    BY DEF IInv, TypeOK
  <1>b. /\ run.pc = "upload" /\ run.kind = "cube" /\ run'.kind = "cube" /\ run'.todo = {}
        /\ run'.cur = run.cur /\ run.cur \in Packages
        /\ UNCHANGED <<doc, remote>>
    BY <1>a DEF Upload, Uploaded, At, RunInv, RunStates, stacVars
  <1>c. AllListed /\ \A i \in Items : remote[i] = None
    BY <1>a, <1>b, NotYet DEF RunInv
  <1>1. ASSUME NEW o \in Outputs, Upload(o)
        PROVE  RunInv' /\ DocInv' /\ ItemsInv' /\ RemoteInv'
    <2>1. run'.pc = "upload"
      BY <1>a, <1>b, <1>1 DEF Upload, RunStates
    <2>2. CASE /\ bucket' \in {bucket, [bucket EXCEPT ![NameOf[o]] = o]}
               /\ UNCHANGED <<items, torn>>
      <3>1. bucket'[NameOf[o]] \in {bucket[NameOf[o]], o}
        BY <2>2 DEF IInv, TypeOK
      <3>2. \A n \in Names \ {NameOf[o]} : bucket'[n] = bucket[n]
        BY <2>2 DEF IInv, TypeOK
      <3>3. ASSUME NEW i \in Items, items[i] # None, items[i].at = "s3"
            PROVE  bucket'[NameOf[items[i].out]] = items[i].out
        <4> DEFINE p == items[i].out
        <4>1. p \in Outputs /\ bucket[NameOf[p]] = p
          BY <1>a, <3>3 DEF ItemsInv, IInv, TypeOK, Assets
        <4>2. p # o => NameOf[p] # NameOf[o]
          BY <4>1 DEF PlainNames
        <4> QED
          BY <3>1, <3>2, <4>1, <4>2
      <3>4. ItemsInv'
        BY <1>a, <1>b, <2>2, <3>3 DEF ItemsInv
      <3> QED
        BY <1>a, <1>b, <1>c, <2>1, <2>2, <3>4
        DEF RunInv, DocInv, RemoteInv, LoopDone, AllListed, Listed
    <2>3. CASE /\ bucket' = [bucket EXCEPT ![NameOf[o]] = o]
               /\ items' = [items EXCEPT ![ItemOf[o]] = InS3(o)]
      <3>1. /\ items'[ItemOf[o]] = InS3(o) /\ bucket'[NameOf[o]] = o
            /\ \A i \in Items \ {ItemOf[o]} : items'[i] = items[i]
            /\ \A n \in Names \ {NameOf[o]} : bucket'[n] = bucket[n]
        BY <2>3 DEF IInv, TypeOK
      <3>2. InS3(o) # None /\ InS3(o).out = o
        BY DEF InS3, Assets
      <3>3. AllListed'
        BY <1>c, <3>1, <3>2, ItemsApart DEF AllListed, Listed
      <3>4. ASSUME NEW i \in Items, items'[i] # None
            PROVE  /\ ItemOf[items'[i].out] = i
                   /\ items'[i].at = "s3" => bucket'[NameOf[items'[i].out]] = items'[i].out
        <4>1. CASE i = ItemOf[o]
          BY <3>1, <3>2, <4>1
        <4>2. CASE i # ItemOf[o]
          <5>1. items'[i] = items[i] /\ items[i] \in Assets
            BY <3>1, <3>4, <4>2 DEF IInv, TypeOK
          <5> DEFINE p == items[i].out
          <5>2. p \in Outputs /\ ItemOf[p] = i /\ p # o
            BY <1>a, <3>4, <4>2, <5>1 DEF ItemsInv, Assets
          <5>3. NameOf[p] # NameOf[o]
            BY <5>2 DEF PlainNames
          <5> QED
            BY <1>a, <3>1, <3>4, <5>1, <5>2, <5>3 DEF ItemsInv
        <4> QED
          BY <4>1, <4>2
      <3>5. ItemsInv'
        BY <1>b, <3>4 DEF ItemsInv
      <3> QED
        BY <1>b, <1>c, <2>1, <3>3, <3>5 DEF RunInv, DocInv, RemoteInv, LoopDone
    <2> QED
      BY <1>1, <2>2, <2>3 DEF Upload
  <1>2. CASE Uploaded
    <2>1. run'.pc = "post" /\ UNCHANGED <<items, bucket>>
      BY <1>a, <1>2 DEF Uploaded, RunStates, stacVars
    <2> QED
      BY <1>a, <1>b, <1>c, <2>1
      DEF RunInv, DocInv, ItemsInv, RemoteInv, LoopDone, AllListed, Listed
  <1> QED
    BY <1>1, <1>2

\* The posts to the STAC API.  A CWL output's item is posted as it was made, and its
\* file has not changed since: nothing of a CWL job is uploaded here.
LEMMA PostKeeps ==
  ASSUME OnePackage, IInv, PostDoc \/ (\E o \in Outputs : PostItem(o)) \/ Posted
  PROVE  RunInv' /\ DocInv' /\ ItemsInv' /\ RemoteInv'
  <1> USE NamesAssumption, OutputsAssumption
  <1>a. run \in RunStates /\ RunInv /\ DocInv /\ ItemsInv /\ RemoteInv
    BY DEF IInv, TypeOK
  <1>b. /\ run.pc \in {"post", "post_items"}
        /\ run'.kind = run.kind /\ run'.cur = run.cur /\ run'.todo = run.todo
        /\ UNCHANGED <<doc, items, bucket>>
    BY <1>a DEF PostDoc, PostItem, Posted, At, RunStates, stacVars
  <1>c. /\ AllListed /\ AllListed'
        /\ run.kind = "cube" => run.todo = {} /\ run.cur \in Packages
    BY <1>a, <1>b DEF RunInv, AllListed, Listed
  <1>1. ItemsInv'
    BY <1>a, <1>b DEF ItemsInv
  <1>2. CASE PostDoc
    <2>1. run'.pc \in {"post_items", "exited"} /\ remote' = remote /\ torn' = None
      BY <1>a, <1>2 DEF PostDoc, At, RunStates, stacVars
    <2> QED
      BY <1>a, <1>b, <1>c, <1>1, <2>1 DEF RunInv, DocInv, RemoteInv, LoopDone
  <1>3. ASSUME NEW o \in Outputs, PostItem(o)
        PROVE  RunInv' /\ DocInv' /\ ItemsInv' /\ RemoteInv'
    <2>1. run'.pc \in {"post_items", "exited"} /\ torn' = None
      BY <1>a, <1>3 DEF PostItem, At, RunStates, stacVars
    <2>2. \A i \in Items : remote'[i] # None => remote'[i] = items[i]
      <3>1. CASE remote' = remote
        BY <1>a, <3>1 DEF RemoteInv
      <3>2. CASE remote' = [remote EXCEPT ![ItemOf[o]] =
                              IF run.kind = "cwl" THEN Disk(o) ELSE items[ItemOf[o]]]
        <4>1. items[ItemOf[o]] # None /\ items[ItemOf[o]].out = o
          BY <1>c DEF AllListed, Listed
        <4>2. run.kind = "cwl" => items[ItemOf[o]].at # "s3"
          BY <1>a, <4>1 DEF ItemsInv
        <4>3. run.kind = "cwl" => items[ItemOf[o]] = Disk(o)
          BY <4>1, <4>2 DEF IInv, TypeOK, Assets, Disk
        <4>4. \A i \in Items : i # ItemOf[o] => remote'[i] = remote[i]
          BY <3>2 DEF IInv, TypeOK
        <4>5. remote'[ItemOf[o]] = items[ItemOf[o]]
          BY <3>2, <4>3 DEF IInv, TypeOK
        <4> QED
          BY <1>a, <4>4, <4>5 DEF RemoteInv
      <3> QED
        BY <1>3, <3>1, <3>2 DEF PostItem
    <2> QED
      BY <1>a, <1>b, <1>c, <1>1, <2>1, <2>2 DEF RunInv, DocInv, RemoteInv, LoopDone
  <1>4. CASE Posted
    <2>1. /\ run'.pc = IF run.kind = "cwl" THEN "exited" ELSE "next"
          /\ remote' = remote /\ torn' = None
      BY <1>a, <1>4 DEF Posted, At, RunStates, stacVars
    <2>2. run.kind \in {"cube", "cwl"}
      BY <1>a DEF RunStates
    <2> QED
      BY <1>a, <1>b, <1>c, <1>1, <2>1, <2>2 DEF RunInv, DocInv, RemoteInv, LoopDone
  <1> QED
    BY <1>2, <1>3, <1>4

-----------------------------------------------------------------------------
LEMMA InitEstablishes == Init => IInv
  BY NamesAssumption DEF Init, IInv, TypeOK, RunStates, RunSteps, ReadStates, ReadSteps,
       RunInv, DocInv, ItemsInv, RemoteInv, ReaderInv, LoopDone

LEMMA NextKeeps ==
  ASSUME OnePackage, PlainNames, IInv, [Next]_vars
  PROVE  IInv'
  <1>t. TypeOK'
    BY TypeKept
  <1>1. CASE RunStep
    <2>1. RunInv' /\ DocInv' /\ ItemsInv' /\ RemoteInv'
      BY <1>1, ComputeKeeps, LoopKeeps, DescribeKeeps, UploadKeeps, PostKeeps DEF RunStep
    <2> QED
      BY <1>t, <1>1, <2>1, ReadersUndisturbed DEF IInv
  <1>2. ASSUME NEW r \in Readers, ReadStep(r)
        PROVE IInv'
    BY <1>t, <1>2, ReadersChangeNothing, ReadersComplete DEF IInv
  <1>3. CASE UNCHANGED vars
    BY <1>3 DEF vars, stacVars, IInv, TypeOK, RunInv, DocInv, ItemsInv, RemoteInv, ReaderInv,
                LoopDone, AllListed, Listed
  <1> QED
    BY <1>1, <1>2, <1>3 DEF Next

\* What the invariant says of the properties.
LEMMA InvImplies ==
  ASSUME PlainNames, IInv
  PROVE  AnswersComplete /\ ResultsListed /\ RemoteMatchesItems
  <1> USE NamesAssumption, OutputsAssumption
  <1>1. AnswersComplete
    BY DEF AnswersComplete, IInv, TypeOK, ReaderInv, ReadStates, Assets
  <1>2. ResultsListed
    BY DEF ResultsListed, IInv, TypeOK, RunInv, AllListed, Listed, Described
  <1>3. RemoteMatchesItems
    BY DEF RemoteMatchesItems, IInv, RemoteInv
  <1> QED
    BY <1>1, <1>2, <1>3

\* A URI leads to the output it was made for as long as no name ends with another.
LEMMA LinksLead ==
  ASSUME PlainNames, IInv
  PROVE  LinksServe
  <1> USE OutputsAssumption
  <1> SUFFICES ASSUME NEW r \in Readers, NEW a \in reader[r].got
               PROVE  Served(a) \subseteq {a.out}
    BY DEF LinksServe
  <1>1. a \in Assets
    BY DEF IInv, TypeOK, ReadStates
  <1>2. CASE a.at = "disk"
    BY <1>2 DEF Served
  <1>3. CASE a.at # "disk"
    <2>1. ASSUME NEW i \in Described, items[i].at = "s3",
                 <<NameOf[items[i].out], NameOf[a.out]>> \in EndsWith
          PROVE  bucket[NameOf[items[i].out]] = a.out
      <3>1. i \in Items /\ items[i] \in Assets /\ items[i] # None
        BY DEF Described, IInv, TypeOK
      <3>2. items[i].out \in Outputs /\ a.out \in Outputs
        BY <1>1, <3>1 DEF Assets
      <3>3. items[i].out = a.out
        BY <2>1, <3>2 DEF PlainNames
      <3> QED
        BY <2>1, <3>1, <3>3 DEF IInv, ItemsInv
    <2> QED
      BY <1>3, <2>1 DEF Served
  <1> QED
    BY <1>2, <1>3

-----------------------------------------------------------------------------
\* IInv holds throughout: what is listed, announced and being read stays in step with
\* what the executor has done (_publish_stac_collection, get_results).
THEOREM PublishingInvariant == ASSUME OnePackage, PlainNames PROVE Spec => []IInv
  <1>1. Init => IInv
    BY InitEstablishes
  <1>2. IInv /\ [Next]_vars => IInv'
    BY NextKeeps
  <1> QED
    BY <1>1, <1>2, PTL DEF Spec

\* Every variable keeps its type, whatever is uploaded, posted and read when.
THEOREM PublishingTypes == ASSUME OnePackage, PlainNames PROVE Spec => []TypeOK
  <1>1. IInv => TypeOK
    BY DEF IInv
  <1> QED
    BY <1>1, PublishingInvariant, PTL

\* A data cube job's get_results answers with every output or not at all, at any
\* point of the publication: _publish_stac_collection writes the document last.
THEOREM AnswersAreComplete == ASSUME OnePackage, PlainNames PROVE Spec => []AnswersComplete
  <1>1. IInv => AnswersComplete
    BY InvImplies
  <1> QED
    BY <1>1, PublishingInvariant, PTL

\* An executor that exits with 0 without having given up on an exception of the volume has
\* described every output it computed in files that are whole, whatever failed to be
\* uploaded or posted.
THEOREM ResultsAreListed == ASSUME OnePackage, PlainNames PROVE Spec => []ResultsListed
  <1>1. IInv => ResultsListed
    BY InvImplies
  <1> QED
    BY <1>1, PublishingInvariant, PTL

\* What the STAC API was told of an asset is what the job's item file says of it.
THEOREM RemoteItemsMatch == ASSUME OnePackage, PlainNames PROVE Spec => []RemoteMatchesItems
  <1>1. IInv => RemoteMatchesItems
    BY InvImplies
  <1> QED
    BY <1>1, PublishingInvariant, PTL

\* A link handed out by get_results serves the output it was made for or nothing,
\* however much later it is followed (s3_asset_proxy, the file API).
THEOREM LinksServeTheirOutput == ASSUME OnePackage, PlainNames PROVE Spec => []LinksServe
  <1>1. IInv => LinksServe
    BY LinksLead
  <1> QED
    BY <1>1, PublishingInvariant, PTL
=============================================================================
