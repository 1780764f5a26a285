-------------------------- MODULE FileServiceInv --------------------------
(***************************************************************************)
(* The inductive invariant behind the properties of FileService: what a     *)
(* request at each step knows of its user, of the name it asks for and of   *)
(* the file it has opened.                                                  *)
(***************************************************************************)
EXTENDS FileService

\* Ids are given out in their order.
UsersInv ==
  /\ IsFiniteSet(users)
  /\ {row[1] : row \in users} = {Ids[k] : k \in 1 .. Cardinality(users)}

\* What a request that has come knows of its user and its ask.
StageOf(q) ==
  /\ q.ask # None
  /\ q.ask.op = "put" =>
       q.pc \in {"create", "subdir", "mkdir", "makedirs", "receive", "open", "write", "stat"} \cup Ends
  /\ q.ask.op = "delete" => q.pc \in {"create", "exists?", "remove"} \cup Ends
  /\ q.ask.op = "list"   => q.pc \in {"create", "ls", "sizes"} \cup Ends
  /\ q.ask.op = "get"    => q.pc \in {"create", "look", "tar", "fsize", "stream", "read"} \cup Ends
  /\ q.ask.op = "head"   => q.pc \in {"create", "look", "fsize"} \cup Ends
  /\ q.pc = "create" => q.user = None /\ q.ask.sub \in Subs
  /\ q.user = None => q.pc \in {"create", "denied", "unique"}

\* What an upload knows of its file: it has one from the first part on, and no more of a
\* part than there is; in the end it is the last one.
PutOf(q) ==
  /\ q.part \in DOMAIN q.ask.parts
  /\ q.pc \in {"create", "subdir", "mkdir", "makedirs", "receive"} => q.file = None
  /\ q.pc \in {"write", "stat", "ok"} => q.file # None
  /\ q.pc = "write" =>
       q.size \in Nat /\ (q.ask.parts[q.part] # None => q.size <= q.ask.parts[q.part])
  /\ q.pc \in {"stat", "ok"} => q.part = Len(q.ask.parts) /\ q.ask.parts[q.part] # None

\* What a download knows of its file.
GetOf(q) ==
  /\ q.pc \in {"create", "look", "tar", "fsize", "stream"} => q.file = None /\ q.body = <<>>
  /\ q.pc \in {"stream", "read"} =>
       /\ q.size \in Nat /\ Cardinality(q.ask.ranges) <= 1
       /\ \A g \in q.ask.ranges : Accepted(g[1], g[2])
  /\ q.pc = "read" => q.file # None /\ (q.ask.ranges # {} => q.body = <<>>)

Stage(q) ==
  /\ StageOf(q)
  /\ q.ask.op = "put" => PutOf(q)
  /\ q.ask.op = "get" => GetOf(q)
  /\ q.ask.op \in {"delete", "list", "head"} => q.file = None
StageInv == \A r \in Requests : req[r] = Idle \/ Stage(req[r])

\* A request that had ended has ended.
AfterInv == \A r \in Requests : \A q \in req[r].after : req[q].pc \in Ends

\* A request that r does not come after.
Crosses(q, r) == q \in Requests \ {r} /\ q \notin req[r].after /\ req[q].ask # None

\* What of the names and users that r asks for a request has changed that crosses r.
Deleted(r) ==
  \E q \in Asked("delete") :
    /\ Crosses(q, r) /\ req[q].pc = "ok" /\ req[q].user = req[r].user
    /\ req[r].ask.op = "list" \/ Key(q) = Key(r)
Made(r) ==
  \E q \in Asked("put") :
    Crosses(q, r) /\ Parent(Target(req[r].ask)) \in Along(Target(req[q].ask))
Joined(r) ==
  \E q \in Requests : /\ Crosses(q, r) /\ req[q].ask.sub = req[r].ask.sub
                      /\ <<req[q].user, req[r].ask.sub>> \in users

\* What a request goes on is still so, or a request that it crosses has changed it.
CauseOf(r) ==
  /\ \/ req[r].pc = "open" /\ req[r].file # None
     \/ req[r].pc \in {"write", "stat", "fsize", "stream"}
     => IsFile(Entry(r)) \/ Deleted(r)
  /\ req[r].pc = "remove" => Entry(r) # None \/ Deleted(r)
  /\ req[r].pc = "sizes"  => \A p \in req[r].seen : names[<<req[r].user, p>>] # None \/ Deleted(r)
  /\ req[r].pc \in {"mkdir", "makedirs"} => ParentEntry(r) = None \/ Made(r)
  /\ req[r].pc = "create" => (\A row \in users : row[2] # req[r].ask.sub) \/ Joined(r)
CauseInv == \A r \in Requests : CauseOf(r)

\* A file belongs to one name.
FilesInv ==
  /\ \A d, e \in UserIds \X Paths : IsFile(names[d]) /\ names[d] = names[e] => d = e
  /\ \A r \in Asked("put"), e \in UserIds \X Paths :
       req[r].file # None /\ names[e] = req[r].file => e = Key(r)
  /\ \A r, q \in Asked("put") : req[r].file # None /\ req[q].file = req[r].file => Key(q) = Key(r)

\* The first n bytes of part k of upload r, and of the part that it is at.
BytesOf(r, k, n) == [j \in 1 .. n |-> [by |-> r, part |-> k, at |-> j - 1]]
Prefix(r, n)     == BytesOf(r, req[r].part, n)

\* An upload that is not crossed has its file to itself.
UploadOf(r) ==
  req[r].pc \in {"write", "stat", "ok"} /\ ComesLast(r) =>
    /\ Entry(r) = req[r].file
    /\ req[r].pc = "write" => files[Entry(r)] = Prefix(r, req[r].size)
    /\ req[r].pc \in {"stat", "ok"} => files[Entry(r)] = LastPart(r)
    /\ req[r].pc = "ok" => req[r].size = Len(LastPart(r))
UploadInv == \A r \in Asked("put") : UploadOf(r)

\* Download r is of what upload u has written.
Serves(u, r) ==
  /\ \A g \in req[r].ask.ranges : g[1] # Absent
  /\ req[u].pc = "ok" /\ Key(u) = Key(r) /\ ComesLast(u) /\ ComesLast(r)
\* What is read of a content at some places in a row.
ReadOf(content, places) == [j \in 1 .. Cardinality(places) |-> content[Min(places) + j]]
DownloadOf(r, u) ==
  Serves(u, r) =>
    /\ req[r].pc \in {"stream", "read"} => req[r].size = Len(LastPart(u))
    /\ req[r].pc = "read" =>
         /\ req[r].file = req[u].file
         /\ req[r].ask.ranges = {} =>
              /\ Len(req[r].body) <= Len(LastPart(u))
              /\ req[r].body = SubSeq(LastPart(u), 1, Len(req[r].body))
    /\ req[r].pc = "ok" /\ req[r].file # None =>
         req[r].body = ReadOf(LastPart(u), Wanted(r, Len(LastPart(u))))
DownloadInv == \A r \in Asked("get"), u \in Asked("put") : DownloadOf(r, u)

IInv ==
  /\ TypeOK /\ UsersInv /\ OneUser
  /\ StageInv /\ AfterInv /\ CauseInv /\ FilesInv
  /\ FailsHaveCause /\ UploadInv /\ DownloadInv
=============================================================================
