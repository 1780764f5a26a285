---------------------------- MODULE FileService ----------------------------
(***************************************************************************)
(* Requests to the file endpoints (files.py) and the users they are for     *)
(* (auth.py).  The API runs in several processes, so every call on the file *)
(* system or the database is a step of its own.  A name in the workspace    *)
(* leads to a directory or to the number of a file; an upload writes into   *)
(* the file that has the name, and who has opened a file goes on with it    *)
(* when the name is gone.  A byte is known by the upload it comes from.     *)
(***************************************************************************)
EXTENDS ByteRange, SignedUrls, Sequences, FiniteSets, FiniteSetsExt

CONSTANTS
  Requests,   \* requests in flight or answered
  Asks,       \* what they may ask for
  Subs,       \* the identities that tokens are of
  Ids,        \* user ids, in the order they are made: a sequence
  Keys,       \* values that OPENEO_SIGN_KEY has had
  TheKey,     \* the one that it has
  ReadChunk,  \* bytes that one read takes
  MaxActive,  \* bound on the requests under way at a time
  MaxFiles,   \* bound on the files ever made
  Faults,     \* what may go wrong: "client" (a transfer breaks off), "disk" (a write)
  None

\* An upload has parts, each with its number of bytes, or None for a part that is not a
\* file; a download has the ranges of its header.  S are the identities: subs, or links.
AskTypes(S) ==
  [op : {"put"}, sub : S, path : Seq(STRING), parts : Seq(Nat \cup {None})]
    \cup [op : {"get"}, sub : S, path : Seq(STRING),
          ranges : SUBSET ((Nat \cup {Absent}) \X (Nat \cup {Absent}))]
    \cup [op : {"delete", "list", "head"}, sub : S, path : Seq(STRING)]

UserIds  == {Ids[k] : k \in DOMAIN Ids}
Links    == {Link(a.path, u, 7, k) : a \in Asks, u \in UserIds, k \in Keys}
AskSet   == Asks \cup {[a EXCEPT !.sub = l] : a \in Asks, l \in Links}

ASSUME AsksAssumption ==
  /\ Asks \subseteq AskTypes(Subs \cup {None})
  /\ \A a \in Asks : /\ a.op # "list" => a.path # <<>>
                     /\ a.op = "put" => a.parts # <<>>
                     /\ a.op = "get" => IsFiniteSet(a.ranges)

\* Ids are not used twice, and there is one for each identity.
ASSUME IdsAssumption ==
  /\ Ids \in Seq(STRING) /\ \A k, l \in DOMAIN Ids : Ids[k] = Ids[l] => k = l
  /\ IsFiniteSet(Subs) /\ Cardinality(Subs) <= Len(Ids)

ASSUME NoneAssumption ==
  /\ None \notin Nat /\ None \notin UserIds /\ None \notin Subs /\ None \notin AskSet
  /\ None \notin Links /\ Links \cap Subs = {}

ASSUME BoundsAssumption == MaxFiles \in Nat /\ ReadChunk \in Nat \ {0}

VARIABLES
  users,  \* rows of the table users: <<id, sub>>
  names,  \* what a path in a workspace leads to: a file, Dir, or None
  files,  \* content of the files, by number
  req     \* the requests

vars == <<users, names, files, req>>
disk == <<names, files>>

\* FILES is made whenever something below it is asked for, and is there from the start.
Dir      == 0
FILES    == <<"FILES">>
\* Uploads and deletions are below FILES, downloads below the workspace.
Target(a) == IF a.op \in {"put", "delete"} THEN FILES \o a.path ELSE a.path
Parent(p) == SubSeq(p, 1, Len(p) - 1)
\* A path and the directories it leads through.
Along(p)  == {SubSeq(p, 1, n) : n \in 1 .. Len(p)}
Paths     == {FILES} \cup UNION {Along(Target(a)) : a \in {b \in Asks : b.op # "list"}}

Idle   == [pc |-> "idle", ask |-> None, user |-> None, file |-> None, part |-> 1,
           body |-> <<>>, seen |-> {}, size |-> None,
           after |-> {}]  \* the requests that had ended when it came
\* Why a request has ended: "ok", 404, 401 and 416, and the causes of a 500 or of a
\* stream that breaks.
Ends   == {"ok", "missing", "denied", "refused", "unique", "exists", "client", "disk",
           "text", "dir", "gone", "nofile", "range"}
Pcs    == {"idle", "create", "subdir", "mkdir", "makedirs", "receive", "open", "write", "stat", "exists?",
           "remove", "ls", "sizes", "look", "tar", "fsize", "stream", "read"} \cup Ends
Active == {r \in Requests : req[r].pc \notin Ends \cup {"idle"}}
To(r, pc)        == req' = [req EXCEPT ![r].pc = pc]
Entry(r)         == names[<<req[r].user, Target(req[r].ask)>>]
ParentEntry(r)   == names[<<req[r].user, Parent(Target(req[r].ask))>>]
IsFile(e)        == e # None /\ e # Dir
\* A directory has a size as well; 0 stands for it.
SizeOf(e)        == IF IsFile(e) THEN Len(files[e]) ELSE 0
Part(r)          == req[r].ask.parts[req[r].part]

Init ==
  /\ users = {}
  /\ names = [e \in UserIds \X Paths |-> IF e[2] = FILES THEN Dir ELSE None]
  /\ files = <<>>
  /\ req = [r \in Requests |-> Idle]

-----------------------------------------------------------------------------
(* Who asks *)

First(a) ==
  CASE a.op = "put"    -> IF Len(a.path) > 1 THEN "subdir" ELSE "receive"
    [] a.op = "delete" -> "exists?"
    [] a.op = "list"   -> "ls"
    [] OTHER           -> "look"

\* A request begins with ask a; its first step leads to pc.
Begin(r, a, user, pc) ==
  /\ req[r] = Idle /\ Cardinality(Active) < MaxActive
  /\ req' = [req EXCEPT ![r] =
               [Idle EXCEPT !.ask = a, !.user = user, !.pc = pc,
                            !.after = {q \in Requests : req[q].pc \in Ends}]]
  /\ UNCHANGED <<users, disk>>

\* validate_authorization: the row of the token's sub.
WithToken(r) ==
  \E a \in Asks :
    /\ a.sub # None
    /\ \/ \E row \in users : row[2] = a.sub /\ Begin(r, a, row[1], First(a))
       \/ (\A row \in users : row[2] # a.sub) /\ Begin(r, a, None, "create")

\* A request without an Authorization header, with a link that get_results has made for a
\* user, now or when there was another key.
WithLink(r) ==
  \E a \in Asks, row \in users, k \in Keys :
    /\ a.sub = None
    /\ LET l == Link(a.path, row[1], 7, k) IN
       IF validate_signed_url(l, TheKey) THEN Begin(r, [a EXCEPT !.sub = l], l.user, First(a))
       ELSE Begin(r, [a EXCEPT !.sub = l], None, "denied")

NewId == Ids[Cardinality(users) + 1]

\* Variant: the table without the constraint.
CreateUnconstrained(r) ==
  /\ req[r].pc = "create"
  /\ users' = users \cup {<<NewId, req[r].ask.sub>>}
  /\ req' = [req EXCEPT ![r].user = NewId, ![r].pc = First(req[r].ask)]
  /\ UNCHANGED <<disk>>

\* Variant: the object is made and not stored.
CreateUnsaved(r) ==
  /\ req[r].pc = "create"
  /\ req' = [req EXCEPT ![r].user = NewId, ![r].pc = First(req[r].ask)]
  /\ UNCHANGED <<users, disk>>

\* engine.create: oidc_sub is unique.
CreateUser(r) ==
  /\ req[r].pc = "create"
  /\ IF \E row \in users : row[2] = req[r].ask.sub
     THEN To(r, "unique") /\ UNCHANGED users
     ELSE /\ users' = users \cup {<<NewId, req[r].ask.sub>>}
          /\ req' = [req EXCEPT ![r].user = NewId, ![r].pc = First(req[r].ask)]
  /\ UNCHANGED <<disk>>

-----------------------------------------------------------------------------
(* upload_file *)

\* A path below FILES with a directory in it: does that exist?
SubDir(r) ==
  /\ req[r].pc = "subdir"
  /\ To(r, IF ParentEntry(r) # None THEN "receive" ELSE "mkdir")
  /\ UNCHANGED <<users, disk>>

\* fs.mkdir raises when someone else was faster, and else makes the directories.
MkDir(r) ==
  /\ req[r].pc = "mkdir"
  /\ To(r, IF ParentEntry(r) # None THEN "exists" ELSE "makedirs")
  /\ UNCHANGED <<users, disk>>

\* os.makedirs(exist_ok=True): from FILES downwards those that are not there, each a step,
\* whoever makes them.  It raises when one of them is a file, the last (FileExistsError) or
\* another (NotADirectoryError).
MakeDirs(r) ==
  /\ req[r].pc = "makedirs"
  /\ LET upload_dir == Parent(Target(req[r].ask))
         entry(n)   == names[<<req[r].user, SubSeq(upload_dir, 1, n)>>]
         lacking    == {n \in 1 .. Len(upload_dir) : entry(n) # Dir}
     IN  \/ lacking = {} /\ To(r, "receive") /\ UNCHANGED names
         \/ \E n \in lacking :
              /\ \A k \in lacking : n <= k
              /\ IF entry(n) = None
                 THEN /\ names' = [names EXCEPT ![<<req[r].user, SubSeq(upload_dir, 1, n)>>] = Dir]
                      /\ To(r, IF n = Len(upload_dir) THEN "receive" ELSE "makedirs")
                 ELSE /\ To(r, IF n = Len(upload_dir) THEN "exists" ELSE "dir")
                      /\ UNCHANGED names
  /\ UNCHANGED <<users, files>>

\* Variant: the file is opened before the transfer.
OpenThenReceive(r) ==
  /\ req[r].pc = "receive"
  /\ \/ To(r, "open") /\ UNCHANGED files
     \/ /\ "client" \in Faults /\ To(r, "client")
        /\ files' = IF IsFile(Entry(r)) THEN [files EXCEPT ![Entry(r)] = <<>>] ELSE files
  /\ UNCHANGED <<users, names>>

\* await request.form() and request.body(): all of the transfer, before the file is
\* opened.
Receive(r) ==
  /\ req[r].pc = "receive"
  /\ \/ To(r, "open")
     \/ "client" \in Faults /\ To(r, "client")
  /\ UNCHANGED <<users, disk>>

\* open(upload_dest, "wb"), once for each part: the file that has the name is emptied.  It
\* raises for a directory, and when the name is in none.
Open(r) ==
  /\ req[r].pc = "open"
  /\ \/ /\ Entry(r) = Dir \/ ParentEntry(r) # Dir
        /\ To(r, "dir")
        /\ UNCHANGED disk
     \/ /\ IsFile(Entry(r))
        /\ files' = [files EXCEPT ![Entry(r)] = <<>>]
        /\ req' = [req EXCEPT ![r].file = Entry(r), ![r].pc = "write", ![r].size = 0]
        /\ UNCHANGED names
     \/ /\ Entry(r) = None /\ ParentEntry(r) = Dir /\ Len(files) < MaxFiles
        /\ files' = Append(files, <<>>)
        /\ names' = [names EXCEPT ![<<req[r].user, Target(req[r].ask)>>] = Len(files) + 1]
        /\ req' = [req EXCEPT ![r].file = Len(files) + 1, ![r].pc = "write", ![r].size = 0]
  /\ UNCHANGED <<users>>

\* A file with b at the place i, with a hole before it if it had got shorter.
WriteAt(f, i, b) == [j \in 1 .. Max({Len(f), i}) |->
                       IF j = i THEN b ELSE IF j <= Len(f) THEN f[j] ELSE None]

\* f.write of what is left of the part; size counts what is written.  A part that is not a
\* file has nothing to read from.
Write(r) ==
  /\ req[r].pc = "write" /\ Part(r) # None /\ req[r].size < Part(r)
  /\ \/ /\ files' = [files EXCEPT ![req[r].file] =
                       WriteAt(@, req[r].size + 1,
                               [by |-> r, part |-> req[r].part, at |-> req[r].size])]
        /\ req' = [req EXCEPT ![r].size = req[r].size + 1]
     \/ "disk" \in Faults /\ To(r, "disk") /\ UNCHANGED files
  /\ UNCHANGED <<users, names>>

\* The next part of the form, over this one.
Written(r) ==
  /\ req[r].pc = "write"
  /\ \/ Part(r) = None /\ To(r, "text")
     \/ /\ Part(r) # None /\ req[r].size = Part(r)
        /\ req' = IF req[r].part < Len(req[r].ask.parts)
                  THEN [req EXCEPT ![r].part = req[r].part + 1, ![r].pc = "open"]
                  ELSE [req EXCEPT ![r].pc = "stat"]
  /\ UNCHANGED <<users, disk>>

\* The answer tells the size of what has the name now.
Stat(r) ==
  /\ req[r].pc = "stat"
  /\ IF Entry(r) # None
     THEN req' = [req EXCEPT ![r].size = SizeOf(Entry(r)), ![r].pc = "ok"]
     ELSE To(r, "gone")
  /\ UNCHANGED <<users, disk>>

-----------------------------------------------------------------------------
(* delete_file and list_files *)

\* Variant: nobody looks whether there is such a file.
ExistsUnasked(r) ==
  /\ req[r].pc = "exists?"
  /\ To(r, "remove")
  /\ UNCHANGED <<users, disk>>

Exists(r) ==
  /\ req[r].pc = "exists?"
  /\ To(r, IF Entry(r) = None THEN "missing" ELSE "remove")
  /\ UNCHANGED <<users, disk>>

Remove(r) ==
  /\ req[r].pc = "remove"
  /\ IF IsFile(Entry(r))
     THEN /\ names' = [names EXCEPT ![<<req[r].user, Target(req[r].ask)>>] = None]
          /\ To(r, "ok")
     ELSE To(r, IF Entry(r) = Dir THEN "dir" ELSE "gone") /\ UNCHANGED names
  /\ UNCHANGED <<users, files>>

InFILES(u) == {p \in Paths : Len(p) = 2 /\ Head(p) = "FILES" /\ names[<<u, p>>] # None}

\* fs.ls, then size and time of each name.
Ls(r) ==
  /\ req[r].pc = "ls"
  /\ req' = [req EXCEPT ![r].seen = InFILES(req[r].user), ![r].pc = "sizes"]
  /\ UNCHANGED <<users, disk>>

Size(r) ==
  /\ req[r].pc = "sizes"
  /\ \/ req[r].seen = {} /\ To(r, "ok")
     \/ \E p \in req[r].seen :
          IF names[<<req[r].user, p>>] = None THEN To(r, "gone")
          ELSE req' = [req EXCEPT ![r].seen = req[r].seen \ {p}]
  /\ UNCHANGED <<users, disk>>

-----------------------------------------------------------------------------
(* file_header and download_file *)

\* What is not a file is served as an archive, even when there is nothing of the name.
Look(r) ==
  /\ req[r].pc = "look"
  /\ To(r, IF IsFile(Entry(r)) THEN "fsize" ELSE IF req[r].ask.op = "head" THEN "ok" ELSE "tar")
  /\ UNCHANGED <<users, disk>>

\* The directory as it is now; without one the stream breaks.
Tar(r) ==
  /\ req[r].pc = "tar"
  /\ To(r, IF Entry(r) = None THEN "nofile" ELSE "ok")
  /\ UNCHANGED <<users, disk>>

\* The size, and for a download the ranges of its header.
FSize(r) ==
  /\ req[r].pc = "fsize"
  /\ LET a == req[r].ask IN
     \/ Entry(r) = None /\ To(r, "gone")
     \/ /\ Entry(r) # None
        /\ \/ a.op = "head" /\ To(r, "ok")
           \/ /\ a.op = "get" /\ \E g \in a.ranges : ~Accepted(g[1], g[2])
              /\ To(r, "range")
           \/ /\ a.op = "get" /\ \A g \in a.ranges : Accepted(g[1], g[2])
              /\ IF Cardinality(a.ranges) > 1 THEN To(r, "refused")
                 ELSE req' = [req EXCEPT ![r].size = SizeOf(Entry(r)), ![r].pc = "stream"]
  /\ UNCHANGED <<users, disk>>

\* The answer has begun before the file is opened.
Stream(r) ==
  /\ req[r].pc = "stream"
  /\ IF IsFile(Entry(r)) THEN req' = [req EXCEPT ![r].file = Entry(r), ![r].pc = "read"]
     ELSE To(r, "gone")
  /\ UNCHANGED <<users, disk>>

\* The range of the request, for a file of the size it had then.
RangeOf(r) == LET g == CHOOSE g \in req[r].ask.ranges : TRUE
              IN  Prepared(set_range(g[1], g[2]), req[r].size)

\* With a range all of it is read at once.
ReadRange(r) ==
  /\ req[r].pc = "read" /\ req[r].ask.ranges # {}
  /\ LET content == files[req[r].file]
         read    == ReadBytes(RangeOf(r), Len(content))
     IN  req' = [req EXCEPT ![r].pc = "ok",
                            ![r].body = [j \in 1 .. Cardinality(read) |-> content[Min(read) + j]]]
  /\ UNCHANGED <<users, disk>>

\* Without one, a chunk at a time until there is no more.
ReadChunks(r) ==
  /\ req[r].pc = "read" /\ req[r].ask.ranges = {}
  /\ LET content == files[req[r].file]
         chunk   == SubSeq(content, Len(req[r].body) + 1,
                           Min({Len(req[r].body) + ReadChunk, Len(content)}))
     IN  req' = IF chunk = <<>> THEN [req EXCEPT ![r].pc = "ok"]
                ELSE [req EXCEPT ![r].body = req[r].body \o chunk]
  /\ UNCHANGED <<users, disk>>

-----------------------------------------------------------------------------
Step(r) ==
  \/ WithToken(r) \/ WithLink(r) \/ CreateUser(r)
  \/ SubDir(r) \/ MkDir(r) \/ MakeDirs(r) \/ Receive(r) \/ Open(r) \/ Write(r) \/ Written(r) \/ Stat(r)
  \/ Exists(r) \/ Remove(r) \/ Ls(r) \/ Size(r)
  \/ Look(r) \/ Tar(r) \/ FSize(r) \/ Stream(r) \/ ReadRange(r) \/ ReadChunks(r)

Next == \E r \in Requests : Step(r)

Spec == Init /\ [][Next]_vars

-----------------------------------------------------------------------------
(* Properties *)

Byte      == [by : Requests, part : Nat, at : Nat]
Content   == Seq(Byte \cup {None})
ReqStates ==
  [pc : Pcs, ask : AskSet \cup {None}, user : UserIds \cup {None}, file : Nat \cup {None},
   part : Nat, body : Content, seen : SUBSET Paths, size : Nat \cup {None},
   after : SUBSET Requests]

\* Every variable keeps its type, and a request is only ever for a user who has a row.
TypeOK ==
  /\ users \subseteq UserIds \X Subs
  /\ files \in Seq(Content) /\ Len(files) <= MaxFiles
  /\ names \in [UserIds \X Paths -> {None, Dir} \cup DOMAIN files]
  /\ req \in [Requests -> ReqStates]
  /\ \A r \in Requests :
       /\ req[r].user = None \/ req[r].user \in {row[1] : row \in users}
       /\ req[r].file = None \/ req[r].file \in DOMAIN files

Asked(op)  == {r \in Requests : req[r].ask # None /\ req[r].ask.op = op}
Key(r)     == <<req[r].user, Target(req[r].ask)>>
\* Who has changed what a name stands for: opened it to write, or removed it.
Touched(e) == {q \in Asked("put") : Key(q) = e /\ req[q].file # None}
                \cup {q \in Asked("delete") : Key(q) = e /\ req[q].pc = "ok"}
\* r came when all others that touch what it asks for had ended.
ComesLast(r) == \A q \in Touched(Key(r)) \ {r} : q \in req[r].after
LastPart(r) == LET k == Len(req[r].ask.parts)
               IN  [j \in 1 .. req[r].ask.parts[k] |-> [by |-> r, part |-> k, at |-> j - 1]]

\* What an upload that was answered with 200 has written is all there, in the size it
\* tells, until the next one that is not at the same time opens or deletes the file: the
\* longer file before it leaves nothing, nor do an upload whose transfer breaks off or
\* the other uploads of the user.
LastUploadStands ==
  \A r \in Asked("put") :
    req[r].pc = "ok" /\ ComesLast(r) =>
      /\ IsFile(Entry(r)) /\ files[Entry(r)] = LastPart(r)
      /\ req[r].size = Len(LastPart(r))

\* The bytes of a file of length n that a request asks for.
Wanted(r, n) == IF req[r].ask.ranges = {} THEN 0 .. (n - 1)
                ELSE UNION {{i \in g[1] .. (n - 1) : g[2] = Absent \/ i <= g[2]} :
                              g \in req[r].ask.ranges}

\* A download that no upload and no deletion of the file crosses yields exactly the bytes
\* it asks for, of the last upload; of a range that begins or ends behind the file, those
\* that there are.  Ranges that count from the end are not meant.
DownloadExact ==
  \A r \in Asked("get"), u \in Asked("put") :
    /\ req[r].pc = "ok" /\ req[r].file # None /\ \A g \in req[r].ask.ranges : g[1] # Absent
    /\ req[u].pc = "ok" /\ Key(u) = Key(r) /\ ComesLast(u) /\ ComesLast(r)
    => LET want == Wanted(r, Len(LastPart(u)))
       IN  req[r].body = [j \in 1 .. Cardinality(want) |-> LastPart(u)[Min(want) + j]]

\* A request fails only for what it asks or because of a request that it crosses: a name
\* is gone because of a deletion, a directory there because of an upload at or below it,
\* and a user because of another first request, for whom there is a row then.
FailsHaveCause ==
  \A r \in Requests :
    LET others == {q \in Requests \ {r} : q \notin req[r].after /\ req[q].ask # None} IN
    /\ req[r].pc = "gone" =>
         \E q \in others \cap Asked("delete") :
            /\ req[q].pc = "ok" /\ req[q].user = req[r].user
            /\ req[r].ask.op = "list" \/ Key(q) = Key(r)
    /\ req[r].pc = "exists" =>
         \E q \in others \cap Asked("put") :
           Parent(Target(req[r].ask)) \in Along(Target(req[q].ask))
    /\ req[r].pc = "unique" =>
         \E q \in others : req[q].ask.sub = req[r].ask.sub /\ <<req[q].user, req[r].ask.sub>> \in users

\* One identity is one user with one workspace, however many first requests come at once.
OneUser ==
  /\ \A x, y \in users : x[1] = y[1] \/ x[2] = y[2] => x = y
  /\ \A r \in Requests : req[r].user # None /\ req[r].ask.sub \in Subs
                          => <<req[r].user, req[r].ask.sub>> \in users

\* A link that get_results made is taken, for the user it was made for, as long as the key
\* is the same.
LinkServes ==
  \A r \in Requests :
    req[r].ask # None /\ req[r].ask.sub \notin Subs =>
      /\ req[r].pc = "denied" => req[r].ask.sub.signature[1] # TheKey
      /\ req[r].user # None => req[r].user = req[r].ask.sub.user
=============================================================================
