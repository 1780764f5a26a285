------------------------- MODULE FileServiceProofs -------------------------
(***************************************************************************)
(* FileService, proved for any requests, users, files and ranges: that a    *)
(* request keeps its type and its stage, that one identity is one user,     *)
(* that failures have their causes, and that uploads stand and downloads    *)
(* are exact when nothing crosses them.                                     *)
(***************************************************************************)
EXTENDS FileServiceInv, TLAPS, FiniteSetTheorems, SequenceTheorems

-----------------------------------------------------------------------------
(* What the range arithmetic of files.py does for every range and file *)

\* A range of which both ends are given reads exactly the bytes that the file has of it,
\* also where download_file's correction gives a range that is empty or negative.
THEOREM ClosedRangeExact ==
  ASSUME NEW first \in Nat, NEW last \in Nat, NEW size \in Nat, Accepted(first, last)
  PROVE  ReadBytes(Prepared(set_range(first, last), size), size)
           = {i \in 0 .. size - 1 : first <= i /\ i <= last}
<1> DEFINE r == set_range(first, last)
           p == Prepared(r, size)
<1>1. r = [start |-> first, end |-> last, range |-> last - first + 1]
      BY DEF set_range, set_start, Absent
<1>2. first < last /\ last # Absent
      BY DEF Accepted, set_start, Absent
<1>3. CASE last - first + 1 > size
  <2>1. p = [start |-> first, end |-> size, range |-> size - first + 1]
        BY <1>1, <1>2, <1>3 DEF Prepared, Absent
  <2>2. \A i \in 0 .. size - 1 :
          (first <= i /\ (size # 0 /\ size - first + 1 >= 0 => i < first + (size - first + 1)))
            <=> (first <= i /\ i <= last)
        BY <1>2, <1>3
  <2>3. QED  BY <2>1, <2>2 DEF ReadBytes
<1>4. CASE ~(last - first + 1 > size)
  <2>1. p = [start |-> first, end |-> last, range |-> last - first + 1]
        BY <1>1, <1>2, <1>4 DEF Prepared, Absent
  <2>2. \A i \in 0 .. size - 1 :
          (first <= i /\ (last # 0 /\ last - first + 1 >= 0 => i < first + (last - first + 1)))
            <=> (first <= i /\ i <= last)
        BY <1>2
  <2>3. QED  BY <2>1, <2>2 DEF ReadBytes
<1>5. QED  BY <1>3, <1>4

\* A range without an end reads the file from its first byte to the last, also an empty one.
THEOREM OpenRangeExact ==
  ASSUME NEW first \in Nat, NEW size \in Nat
  PROVE  ReadBytes(Prepared(set_range(first, Absent), size), size)
           = {i \in 0 .. size - 1 : first <= i}
<1>1. Prepared(set_range(first, Absent), size)
        = [start |-> first, end |-> size, range |-> Absent]
      BY DEF Prepared, set_range, set_start, Absent
<1>2. QED  BY <1>1 DEF ReadBytes, Absent

-----------------------------------------------------------------------------
(* Asks *)

\* What can be asked for.
LEMMA AskFacts ==
  ASSUME NEW b \in AskSet
  PROVE  /\ b \in AskTypes(Subs \cup {None} \cup Links)
         /\ b.op # "list" => Target(b) \in Paths /\ Target(b) \in Along(Target(b))
         /\ b.op = "put" =>
              /\ b.parts # <<>> /\ Parent(Target(b)) \in Paths
              /\ Parent(Target(b)) \in Along(Target(b))
              /\ SubSeq(Parent(Target(b)), 1, Len(Parent(Target(b)))) = Parent(Target(b))
              /\ \A n \in 1 .. Len(Parent(Target(b))) :
                   /\ SubSeq(Parent(Target(b)), 1, n) \in Along(Target(b))
                   /\ SubSeq(Parent(Target(b)), 1, n) \in Paths
                   /\ n # Len(Parent(Target(b))) => SubSeq(Parent(Target(b)), 1, n) # Parent(Target(b))
         /\ b.op = "get" => IsFiniteSet(b.ranges)
  <1>1. PICK a \in Asks : \/ b = a
                          \/ \E l \in Links : b = [a EXCEPT !.sub = l]
    BY DEF AskSet
  <1>2. a \in AskTypes(Subs \cup {None})
    BY AsksAssumption
  <1>3. /\ b \in AskTypes(Subs \cup {None} \cup Links)
        /\ b.op = a.op /\ b.path = a.path
        /\ b.op = "put" => b.parts = a.parts
        /\ b.op = "get" => b.ranges = a.ranges
    BY <1>1, <1>2 DEF AskTypes
  <1>4. a.path \in Seq(STRING) /\ a.op \in {"put", "get", "delete", "list", "head"}
    BY <1>2 DEF AskTypes
  <1>5. Target(b) = Target(a)
    BY <1>3 DEF Target
  <1> DEFINE S == STRING \cup {"FILES"}
  <1>6. ASSUME a.op # "list" PROVE Target(a) \in Seq(S) /\ Target(a) \in Along(Target(a))
    <2>1. a.path # <<>>
      BY <1>6, AsksAssumption
    <2>2. FILES \in Seq(S) /\ Len(FILES) = 1 /\ a.path \in Seq(S) /\ Len(a.path) \in Nat \ {0}
      <3>1. a.path \in Seq(S)
        BY <1>4, SeqMonotonic
      <3>2. "FILES" \in S
        OBVIOUS
      <3> HIDE DEF S
      <3> QED
        BY <2>1, <3>1, <3>2 DEF FILES
    <2> HIDE DEF S
    <2>3. FILES \o a.path \in Seq(S) /\ Len(FILES \o a.path) = Len(FILES) + Len(a.path)
      BY <2>2, ConcatProperties
    <2>4. PICK t : t = Target(a)
      OBVIOUS
    <2>5. t = FILES \o a.path \/ t = a.path
      BY <2>4 DEF Target
    <2>6. t \in Seq(S) /\ Len(t) \in Nat \ {0}
      <3>1. CASE t = FILES \o a.path
        <4>1. PICK k : k = Len(a.path)
          OBVIOUS
        <4>2. Len(t) = 1 + k /\ k \in Nat /\ t \in Seq(S)
          BY <2>2, <2>3, <3>1, <4>1
        <4> QED
          BY <4>2
      <3>2. CASE t = a.path
        BY <2>2, <3>2
      <3> QED
        BY <2>5, <3>1, <3>2
    <2>7. t = SubSeq(t, 1, Len(t)) /\ Len(t) \in 1 .. Len(t)
      BY <2>6
    <2>8. t \in Along(t)
      BY <2>7 DEF Along
    <2> QED
      BY <2>4, <2>6, <2>8
  <1>8. ASSUME a.op # "list" PROVE \A q \in Along(Target(a)) : q \in Paths
    BY <1>8 DEF Paths
  <1>7. ASSUME a.op = "put"
        PROVE  /\ Parent(Target(a)) \in Along(Target(a))
               /\ SubSeq(Parent(Target(a)), 1, Len(Parent(Target(a)))) = Parent(Target(a))
               /\ \A n \in 1 .. Len(Parent(Target(a))) :
                    /\ SubSeq(Parent(Target(a)), 1, n) \in Along(Target(a))
                    /\ n # Len(Parent(Target(a))) => SubSeq(Parent(Target(a)), 1, n) # Parent(Target(a))
    <2>1. a.path # <<>>
      BY <1>7, AsksAssumption
    <2>2. Target(a) = FILES \o a.path
      BY <1>7 DEF Target
    <2>3. FILES \in Seq(S) /\ Len(FILES) = 1 /\ a.path \in Seq(S) /\ Len(a.path) \in Nat \ {0}
      <3>1. a.path \in Seq(S)
        BY <1>4, SeqMonotonic
      <3>2. "FILES" \in S
        OBVIOUS
      <3> HIDE DEF S
      <3> QED
        BY <2>1, <3>1, <3>2 DEF FILES
    <2> HIDE DEF S
    <2>4. FILES \o a.path \in Seq(S) /\ Len(FILES \o a.path) = Len(FILES) + Len(a.path)
      BY <2>3, ConcatProperties
    <2>5. PICK t : t = Target(a)
      OBVIOUS
    <2>6. t \in Seq(S) /\ Len(t) = 1 + Len(a.path)
      BY <2>2, <2>3, <2>4, <2>5
    <2>7. t \in Seq(S) /\ Len(t) \in Nat /\ Len(t) >= 2
      BY <2>3, <2>6
    <2>8. PICK m : m = SubSeq(t, 1, Len(t) - 1)
      OBVIOUS
    <2>9. m = SubSeq(t, 1, Len(t) - 1) /\ Len(t) - 1 \in 1 .. Len(t) /\ Len(m) = Len(t) - 1
      BY <2>7, <2>8
    <2>10. m \in Along(t)
      BY <2>9 DEF Along
    <2>11. ASSUME NEW n \in 1 .. Len(m)
           PROVE  SubSeq(m, 1, n) \in Along(t) /\ (n # Len(m) => SubSeq(m, 1, n) # m)
      <3>1. SubSeq(m, 1, n) = SubSeq(t, 1, n) /\ n \in 1 .. Len(t)
        BY <2>7, <2>9
      <3>2. Len(SubSeq(m, 1, n)) = n
        BY <2>7, <2>9
      <3> QED
        BY <3>1, <3>2 DEF Along
    <2>12. Parent(t) = m
      BY <2>8 DEF Parent
    <2>13. SubSeq(m, 1, Len(m)) = m
      <3>1. m \in Seq(S)
        BY <2>7, <2>8
      <3> QED
        BY <3>1
    <2> QED
      BY <2>5, <2>10, <2>11, <2>12, <2>13
  <1> HIDE DEF S
  <1>9. b.op # "list" => Target(b) \in Paths /\ Target(b) \in Along(Target(b))
    BY <1>3, <1>5, <1>6, <1>8
  <1>10. b.op = "put" => b.parts # <<>>
    BY <1>3, AsksAssumption
  <1>11. ASSUME b.op = "put"
         PROVE  /\ Parent(Target(b)) \in Paths
                /\ Parent(Target(b)) \in Along(Target(b))
                /\ SubSeq(Parent(Target(b)), 1, Len(Parent(Target(b)))) = Parent(Target(b))
                /\ \A n \in 1 .. Len(Parent(Target(b))) :
                     /\ SubSeq(Parent(Target(b)), 1, n) \in Along(Target(b))
                     /\ SubSeq(Parent(Target(b)), 1, n) \in Paths
                     /\ n # Len(Parent(Target(b))) => SubSeq(Parent(Target(b)), 1, n) # Parent(Target(b))
    <2>1. a.op = "put"
      BY <1>3, <1>11
    <2> QED
      BY <2>1, <1>5, <1>7, <1>8
  <1>12. b.op = "get" => IsFiniteSet(b.ranges)
    BY <1>3, AsksAssumption
  <1> QED
    BY <1>3, <1>9, <1>10, <1>11, <1>12

-----------------------------------------------------------------------------
(* Type correctness *)

UserIdsOf(rows) == {row[1] : row \in rows}

\* What request r may become.
Fits(r, x) ==
  /\ x \in ReqStates /\ Stage(x)
  /\ x.user = None \/ x.user \in UserIdsOf(users')
  /\ x.file = None \/ x.file \in DOMAIN files'
  /\ req[r] # Idle => x.ask = req[r].ask /\ x.after = req[r].after
  /\ req[r] # Idle /\ req[r].pc # "create" => x.user = req[r].user
Moves(r) == \E x : Fits(r, x) /\ req' = [req EXCEPT ![r] = x]

\* A request begins.
LEMMA BeginMoves ==
  ASSUME TypeOK, NEW r \in Requests, NEW a \in AskSet, NEW user, NEW pc, Begin(r, a, user, pc),
         \/ user = None /\ ((pc = "create" /\ a.sub \in Subs) \/ pc = "denied")
         \/ user \in UserIdsOf(users) /\ pc = First(a)
  PROVE  Moves(r)
  <1>1. PICK x : /\ x = [Idle EXCEPT !.ask = a, !.user = user, !.pc = pc,
                                     !.after = {q \in Requests : req[q].pc \in Ends}]
                 /\ req' = [req EXCEPT ![r] = x]
    BY DEF Begin
  <1>2. /\ x.ask = a /\ x.user = user /\ x.pc = pc /\ x.after = {q \in Requests : req[q].pc \in Ends}
        /\ x.file = None /\ x.part = 1 /\ x.body = <<>> /\ x.seen = {} /\ x.size = None
    BY <1>1 DEF Idle
  <1>3. a \in AskTypes(Subs \cup {None} \cup Links) /\ a # None
    BY AskFacts, NoneAssumption
  <1>4. a.op \in {"put", "get", "delete", "list", "head"}
    BY <1>3 DEF AskTypes
  <1>5. /\ a.op = "put" => First(a) \in {"subdir", "receive"}
        /\ a.op = "delete" => First(a) = "exists?"
        /\ a.op = "list" => First(a) = "ls"
        /\ a.op \in {"get", "head"} => First(a) = "look"
    BY DEF First
  <1>6. user = None \/ (user \in UserIds /\ user # None)
    BY NoneAssumption DEF TypeOK, UserIdsOf
  <1>7. x \in ReqStates
    <2>1. pc \in Pcs
      BY <1>4, <1>5 DEF Pcs, Ends
    <2>2. <<>> \in Content
      BY DEF Content
    <2> QED
      BY <1>1, <1>6, <2>1, <2>2 DEF ReqStates, Idle
  <1>8. Stage(x)
    <2>1. a.op = "put" => 1 \in DOMAIN a.parts
      <3>1. a.op = "put" => a.parts \in Seq(Nat \cup {None}) /\ a.parts # <<>>
        BY <1>3, AskFacts DEF AskTypes
      <3> QED
        BY <3>1
    <2>2. StageOf(x)
      <3>1. CASE user = None
        <4>1. user \notin UserIdsOf(users)
          BY <3>1, NoneAssumption DEF TypeOK, UserIdsOf
        <4> QED
          BY <1>2, <1>3, <3>1, <4>1 DEF StageOf, Ends
      <3>2. CASE user # None
        BY <1>2, <1>3, <1>4, <1>5, <1>6, <3>2 DEF StageOf
      <3> QED
        BY <3>1, <3>2
    <2>3. a.op = "put" => PutOf(x)
      BY <1>2, <1>5, <2>1 DEF PutOf
    <2>4. a.op = "get" => GetOf(x)
      BY <1>2, <1>5 DEF GetOf
    <2> QED
      BY <1>2, <2>2, <2>3, <2>4 DEF Stage
  <1>9. req[r] = Idle /\ users' = users
    BY DEF Begin
  <1>10. Fits(r, x)
    BY <1>2, <1>6, <1>7, <1>8, <1>9 DEF Fits
  <1> QED
    BY <1>1, <1>10 DEF Moves

\* The bytes that are read are the bytes from one place to another.
LEMMA ReadInterval ==
  ASSUME NEW r, r.start \in Nat, r.end \in Int, r.range \in Int, NEW n \in Nat
  PROVE  \E a \in Nat, b \in Int : b < n /\ ReadBytes(r, n) = a .. b
  <1> DEFINE b == IF r.end # 0 /\ r.range >= 0 /\ r.start + r.range < n
                  THEN r.start + r.range - 1 ELSE n - 1
  <1>1. b \in Int /\ b < n
    OBVIOUS
  <1>2. ASSUME NEW i \in Int PROVE i \in ReadBytes(r, n) <=> i \in r.start .. b
    BY <1>2 DEF ReadBytes
  <1>3. ReadBytes(r, n) \subseteq Int
    BY DEF ReadBytes
  <1>4. ReadBytes(r, n) = r.start .. b
    <2> HIDE DEF b
    <2>1. r.start .. b \subseteq Int
      BY <1>1
    <2> QED
      BY <1>2, <1>3, <2>1
  <1> QED
    BY <1>1, <1>4

\* The least of an interval.
LEMMA MinInterval ==
  ASSUME NEW a \in Int, NEW b \in Int, a <= b
  PROVE  Min(a .. b) = a
  <1>1. a \in a .. b /\ \A y \in a .. b : a <= y
    OBVIOUS
  <1>2. ASSUME NEW x \in a .. b, \A y \in a .. b : x <= y PROVE x = a
    BY <1>1, <1>2
  <1> QED
    BY <1>1, <1>2 DEF Min

\* Bytes of a file, read from one place to another, are a content.
LEMMA ReadType ==
  ASSUME NEW content \in Content, NEW r, r.start \in Nat, r.end \in Int, r.range \in Int
  PROVE  LET read == ReadBytes(r, Len(content))
         IN  [j \in 1 .. Cardinality(read) |-> content[Min(read) + j]] \in Content
  <1> DEFINE B == Byte \cup {None}
             read == ReadBytes(r, Len(content))
  <1>1. content \in Seq(B) /\ Len(content) \in Nat
    BY DEF Content
  <1> HIDE DEF B
  <1>2. PICK a \in Nat, b \in Int : b < Len(content) /\ read = a .. b
    BY <1>1, ReadInterval
  <1> HIDE DEF read
  <1>3. CASE a > b
    <2>1. Cardinality(read) = 0
      BY <1>2, <1>3, FS_Interval
    <2>2. [j \in 1 .. 0 |-> content[Min(read) + j]] \in Seq(B)
      <3>1. PICK m : m = Min(read)
        OBVIOUS
      <3>2. \A j \in 1 .. 0 : content[m + j] \in B
        OBVIOUS
      <3>3. [j \in 1 .. 0 |-> content[m + j]] \in Seq(B)
        BY <3>2
      <3> QED
        BY <3>1, <3>3
    <2>3. [j \in 1 .. Cardinality(read) |-> content[Min(read) + j]] \in Seq(B)
      BY <2>1, <2>2
    <2> QED
      BY <2>3 DEF read, Content, B
  <1>4. CASE a <= b
    <2>1. Cardinality(read) = b - a + 1 /\ Min(read) = a
      BY <1>2, <1>4, FS_Interval, MinInterval
    <2>2. ASSUME NEW j \in 1 .. b - a + 1 PROVE content[a + j] \in B
      <3>1. a + j \in 1 .. Len(content)
        BY <1>1, <1>2
      <3> QED
        BY <1>1, <3>1
    <2>3. b - a + 1 \in Nat
      BY <1>2, <1>4
    <2>4. [j \in 1 .. b - a + 1 |-> content[a + j]] \in Seq(B)
      BY <2>2, <2>3
    <2> QED
      BY <2>1, <2>4 DEF read, Content, B
  <1> QED
    BY <1>2, <1>3, <1>4

\* The id of a new user is not that of another one.
LEMMA FreshId ==
  ASSUME TypeOK, UsersInv, OneUser, NEW sub \in Subs, \A row \in users : row[2] # sub
  PROVE  /\ NewId \in UserIds
         /\ NewId \notin UserIdsOf(users)
         /\ Cardinality(users) \in Nat
         /\ NewId = Ids[Cardinality(users) + 1]
         /\ Cardinality(users) + 1 <= Len(Ids)
  <1> DEFINE n == Cardinality(users)
  <1>1. IsFiniteSet(users) /\ n \in Nat
    BY FS_CardinalityType DEF UsersInv
  <1>2. IsFiniteSet(Subs) /\ IsFiniteSet(Subs \ {sub}) /\ Cardinality(Subs) \in Nat
        /\ Cardinality(Subs \ {sub}) = Cardinality(Subs) - 1
    BY IdsAssumption, FS_RemoveElement, FS_CardinalityType
  <1>3. n <= Cardinality(Subs) - 1
    <2> SUFFICES ASSUME Cardinality(Subs) - 1 < n PROVE FALSE
      BY <1>1, <1>2
    <2>1. PICK f \in [users -> Subs \ {sub}] : \A row \in users : f[row] = row[2]
      <3>1. [row \in users |-> row[2]] \in [users -> Subs \ {sub}]
        BY DEF TypeOK
      <3> QED
        BY <3>1
    <2>2. PICK x, y \in users : x # y /\ f[x] = f[y]
      BY <1>1, <1>2, <2>1, FS_PigeonHole
    <2> QED
      BY <2>1, <2>2 DEF OneUser
  <1>4. n + 1 \in DOMAIN Ids /\ DOMAIN Ids = 1 .. Len(Ids) /\ Len(Ids) \in Nat /\ n + 1 <= Len(Ids)
    BY <1>1, <1>2, <1>3, IdsAssumption
  <1>5. \A k \in 1 .. n : Ids[k] # Ids[n + 1]
    <2>1. \A k \in 1 .. n : k \in DOMAIN Ids /\ k # n + 1
      BY <1>1, <1>4
    <2> QED
      BY <1>4, <2>1, IdsAssumption
  <1>6. UserIdsOf(users) = {Ids[k] : k \in 1 .. n}
    BY DEF UsersInv, UserIdsOf
  <1> QED
    BY <1>1, <1>4, <1>5, <1>6 DEF NewId, UserIds

\* The smaller of two numbers.
LEMMA MinOfTwo ==
  ASSUME NEW a \in Int, NEW b \in Int
  PROVE  /\ Min({a, b}) \in Int /\ Min({a, b}) <= a /\ Min({a, b}) <= b
         /\ Min({a, b}) \in {a, b}
  <1>1. \E x \in {a, b} : \A y \in {a, b} : x <= y
    OBVIOUS
  <1>2. PICK m : m = Min({a, b})
    OBVIOUS
  <1>3. m \in {a, b} /\ \A y \in {a, b} : m <= y
    BY <1>1, <1>2 DEF Min
  <1> QED
    BY <1>2, <1>3

\* A part of a sequence.
LEMMA SubSeqOf ==
  ASSUME NEW B, NEW s \in Seq(B), NEW m \in Nat, NEW n \in Int, n <= Len(s)
  PROVE  SubSeq(s, m + 1, n) \in Seq(B)
  OBVIOUS

\* A range is prepared for a file of any size.
LEMMA RangeType ==
  ASSUME NEW first \in Nat \cup {Absent}, NEW last \in Nat \cup {Absent}, NEW size \in Nat
  PROVE  LET r == Prepared(set_range(first, last), size)
         IN  r.start \in Nat /\ r.end \in Int /\ r.range \in Int
  <1>1. PICK s, n : s = set_start(first) /\ n = IF last = Absent THEN Absent ELSE last - set_start(first) + 1
    OBVIOUS
  <1>2. s \in Nat /\ n \in Int /\ last \in Int
    BY <1>1 DEF set_start, Absent
  <1>3. PICK q : q = [start |-> s, end |-> last, range |-> n]
    OBVIOUS
  <1>4. set_range(first, last) = q
    BY <1>1, <1>3 DEF set_range
  <1>5. Prepared(q, size) \in [start : Nat, end : Int, range : Int]
    BY <1>2, <1>3 DEF Prepared
  <1> QED
    BY <1>4, <1>5

\* What the stage of a request says of its ask.
LEMMA OpOf ==
  ASSUME NEW p \in ReqStates, StageOf(p)
  PROVE  /\ p.ask \in AskSet
         /\ p.pc \in {"subdir", "mkdir", "makedirs", "receive", "open", "write", "stat"} => p.ask.op = "put"
         /\ p.pc \in {"exists?", "remove"} => p.ask.op = "delete"
         /\ p.pc \in {"ls", "sizes"} => p.ask.op = "list"
         /\ p.pc \in {"tar", "stream", "read"} => p.ask.op = "get"
         /\ p.pc \in {"look", "fsize"} => p.ask.op \in {"get", "head"}
         /\ p.pc \in Ends \cup {"create"} \/ p.user \in UserIds
         /\ p.pc # "idle"
  <1>1. p.ask \in AskSet /\ p.user \in UserIds \cup {None}
    BY DEF ReqStates, StageOf
  <1>2. p.ask.op \in {"put", "get", "delete", "list", "head"}
    BY <1>1, AskFacts DEF AskTypes
  <1>3. p.pc \notin Ends \cup {"create"} => p.user \in UserIds
    BY <1>1 DEF StageOf, Ends
  <1>4. p.pc # "idle"
    BY <1>2 DEF StageOf, Ends
  <1> QED
    BY <1>1, <1>2, <1>3, <1>4 DEF StageOf, Ends

\* A request that goes on keeps who it is for, what it asks and what had ended before it.
LEMMA GoesOn ==
  ASSUME TypeOK, NEW r \in Requests, NEW x \in ReqStates, Stage(x), req[r].pc # "create",
         UserIdsOf(users) \subseteq UserIdsOf(users'), DOMAIN files \subseteq DOMAIN files',
         x.ask = req[r].ask, x.after = req[r].after, x.user = req[r].user,
         x.file = req[r].file \/ x.file \in DOMAIN files'
  PROVE  Fits(r, x)
  BY DEF TypeOK, Fits, UserIdsOf

\* To takes a request to another stage.
LEMMA ToMoves ==
  ASSUME TypeOK, NEW r \in Requests, NEW pc, To(r, pc), req[r].pc # "create",
         Stage([req[r] EXCEPT !.pc = pc]), pc \in Pcs,
         UNCHANGED users, DOMAIN files \subseteq DOMAIN files'
  PROVE  Moves(r)
  <1>1. PICK x : x = [req[r] EXCEPT !.pc = pc]
    OBVIOUS
  <1>2. req' = [req EXCEPT ![r] = x]
    BY <1>1 DEF To
  <1>3. req[r] \in ReqStates
    BY DEF TypeOK
  <1>4. x \in ReqStates
    BY <1>1, <1>3 DEF ReqStates
  <1>5. x.ask = req[r].ask /\ x.after = req[r].after /\ x.user = req[r].user /\ x.file = req[r].file
    BY <1>1, <1>3 DEF ReqStates
  <1>6. Fits(r, x)
    BY <1>1, <1>4, <1>5, GoesOn
  <1> QED
    BY <1>2, <1>6 DEF Moves

\* A request that has ended stays in its type and stage.
LEMMA EndsWell ==
  ASSUME TypeOK, NEW r \in Requests, NEW pc \in Ends \ {"ok"}, Stage(req[r]), To(r, pc),
         req[r].pc # "create", req[r].user # None, UNCHANGED users, DOMAIN files \subseteq DOMAIN files'
  PROVE  Moves(r)
  <1>1. PICK x : x = [req[r] EXCEPT !.pc = pc]
    OBVIOUS
  <1>2. req[r] \in ReqStates
    BY DEF TypeOK
  <1>3. /\ x.pc = pc /\ x.ask = req[r].ask /\ x.user = req[r].user /\ x.file = req[r].file
        /\ x.part = req[r].part
    BY <1>1, <1>2 DEF ReqStates
  <1>4. StageOf(x)
    BY <1>2, <1>3 DEF Stage, StageOf, Ends
  <1>5. Stage(x)
    BY <1>3, <1>4 DEF Stage, PutOf, GetOf, Ends
  <1> QED
    BY <1>1, <1>5, ToMoves DEF Pcs

\* Making the directories of an upload: one of those that its name leads through is made,
\* or none.
LEMMA DirsMade ==
  ASSUME TypeOK, NEW r \in Requests, MakeDirs(r), req[r].ask \in AskSet, req[r].ask.op = "put"
  PROVE  /\ \/ UNCHANGED names
            \/ \E d : /\ d \in Along(Target(req[r].ask)) /\ d \in Paths
                      /\ names[<<req[r].user, d>>] = None
                      /\ names' = [names EXCEPT ![<<req[r].user, d>>] = Dir]
         /\ \/ To(r, "receive") \/ To(r, "dir")
            \/ To(r, "makedirs") /\ names'[<<req[r].user, Parent(Target(req[r].ask))>>] = ParentEntry(r)
            \/ To(r, "exists") /\ ParentEntry(r) # None
  <1> DEFINE m == Parent(Target(req[r].ask))
             entry(n) == names[<<req[r].user, SubSeq(m, 1, n)>>]
  <1>1. /\ SubSeq(m, 1, Len(m)) = m
        /\ \A n \in 1 .. Len(m) : /\ SubSeq(m, 1, n) \in Along(Target(req[r].ask))
                                  /\ SubSeq(m, 1, n) \in Paths
                                  /\ n # Len(m) => SubSeq(m, 1, n) # m
    BY AskFacts
  <1>2. entry(Len(m)) = ParentEntry(r)
    BY <1>1 DEF ParentEntry
  <1>3. CASE To(r, "receive") /\ UNCHANGED names
    BY <1>3
  <1>4. CASE ~(To(r, "receive") /\ UNCHANGED names)
    <2>1. PICK n \in 1 .. Len(m) :
            IF entry(n) = None
            THEN /\ names' = [names EXCEPT ![<<req[r].user, SubSeq(m, 1, n)>>] = Dir]
                 /\ To(r, IF n = Len(m) THEN "receive" ELSE "makedirs")
            ELSE /\ To(r, IF n = Len(m) THEN "exists" ELSE "dir")
                 /\ UNCHANGED names
      BY <1>4 DEF MakeDirs
    <2>2. PICK d : d = SubSeq(m, 1, n)
      OBVIOUS
    <2>3. d \in Along(Target(req[r].ask)) /\ d \in Paths
      BY <1>1, <2>1, <2>2
    <2>4. CASE entry(n) = None
      <3>1. names[<<req[r].user, d>>] = None /\ names' = [names EXCEPT ![<<req[r].user, d>>] = Dir]
        BY <2>1, <2>2, <2>4
      <3>2. \/ To(r, "receive")
            \/ To(r, "makedirs") /\ names'[<<req[r].user, m>>] = ParentEntry(r)
        <4>1. CASE n = Len(m)
          BY <2>1, <2>4, <4>1
        <4>2. CASE n # Len(m)
          <5>1. To(r, "makedirs") /\ d # m
            BY <1>1, <2>1, <2>2, <2>4, <4>2
          <5>2. <<req[r].user, d>> # <<req[r].user, m>>
            BY <5>1
          <5> HIDE DEF m, entry
          <5>4. DOMAIN names = UserIds \X Paths
            BY DEF TypeOK
          <5>3. names'[<<req[r].user, m>>] = names[<<req[r].user, m>>]
            BY <3>1, <5>2, <5>4
          <5> QED
            BY <5>1, <5>3 DEF ParentEntry, m
        <4> QED
          BY <4>1, <4>2
      <3> QED
        BY <2>3, <3>1, <3>2
    <2>5. CASE entry(n) # None
      <3>1. UNCHANGED names
        BY <2>1, <2>5
      <3>2. \/ To(r, "dir")
            \/ To(r, "exists") /\ ParentEntry(r) # None
        <4>1. CASE n = Len(m)
          BY <1>2, <2>1, <2>5, <4>1
        <4>2. CASE n # Len(m)
          BY <2>1, <2>5, <4>2
        <4> QED
          BY <4>1, <4>2
      <3> QED
        BY <3>1, <3>2
    <2> QED
      BY <2>4, <2>5
  <1> QED
    BY <1>3, <1>4

\* Every step of a request takes it from stage to stage, in its type.
LEMMA StepMoves ==
  ASSUME TypeOK, StageInv, UsersInv, OneUser, NEW r \in Requests, Step(r)
  PROVE  Moves(r)
  <1> DEFINE p == req[r]
  <1>0. /\ p \in ReqStates /\ users \subseteq UserIds \X Subs
        /\ files \in Seq(Content) /\ names \in [UserIds \X Paths -> {None, Dir} \cup DOMAIN files]
        /\ p.file = None \/ p.file \in DOMAIN files
    BY DEF TypeOK
  <1>1. ASSUME p.pc # "idle"
        PROVE  /\ Stage(p) /\ p.ask \in AskSet
               /\ p.pc \notin Ends \cup {"create"} => p.user \in UserIds /\ p.user # None
               /\ p.pc \in {"subdir", "mkdir", "makedirs", "receive", "open", "write", "stat"} => p.ask.op = "put"
               /\ p.pc \in {"exists?", "remove"} => p.ask.op = "delete"
               /\ p.pc \in {"ls", "sizes"} => p.ask.op = "list"
               /\ p.pc \in {"tar", "stream", "read"} => p.ask.op = "get"
               /\ p.pc \in {"look", "fsize"} => p.ask.op \in {"get", "head"}
    <2>1. p # Idle
      BY <1>1 DEF Idle
    <2>2. Stage(p) /\ StageOf(p)
      BY <2>1 DEF StageInv, Stage
    <2> QED
      BY <1>0, <2>2, OpOf, NoneAssumption
  <1>2. ASSUME p.ask \in AskSet, p.ask.op = "put"
        PROVE  /\ p.ask.parts \in Seq(Nat \cup {None}) /\ p.ask.parts # <<>>
               /\ Target(p.ask) \in Paths /\ Parent(Target(p.ask)) \in Paths
    BY <1>2, AskFacts DEF AskTypes
  <1>3. CASE WithToken(r)
    <2>1. PICK a \in Asks : /\ a.sub # None
                            /\ \/ \E row \in users : row[2] = a.sub /\ Begin(r, a, row[1], First(a))
                               \/ Begin(r, a, None, "create")
      BY <1>3 DEF WithToken
    <2>2. a \in AskSet
      BY DEF AskSet
    <2>3. a.sub \in Subs
      BY <2>1, AsksAssumption DEF AskTypes
    <2>4. CASE \E row \in users : row[2] = a.sub /\ Begin(r, a, row[1], First(a))
      BY <2>2, <2>4, BeginMoves DEF UserIdsOf
    <2>5. CASE Begin(r, a, None, "create")
      BY <2>2, <2>3, <2>5, BeginMoves
    <2> QED
      BY <2>1, <2>4, <2>5
  <1>4. CASE WithLink(r)
    <2>0. PICK a \in Asks, row \in users, k \in Keys :
            LET l == Link(a.path, row[1], 7, k) IN
            IF validate_signed_url(l, TheKey) THEN Begin(r, [a EXCEPT !.sub = l], l.user, First(a))
            ELSE Begin(r, [a EXCEPT !.sub = l], None, "denied")
      BY <1>4 DEF WithLink
    <2>1. PICK l : /\ l = Link(a.path, row[1], 7, k)
                   /\ IF validate_signed_url(l, TheKey)
                      THEN Begin(r, [a EXCEPT !.sub = l], l.user, First(a))
                      ELSE Begin(r, [a EXCEPT !.sub = l], None, "denied")
      BY <2>0
    <2>2. row[1] \in UserIds /\ row[1] \in UserIdsOf(users)
      BY <1>0 DEF UserIdsOf
    <2>3. l \in Links /\ l.user = row[1]
      BY <2>1, <2>2 DEF Links, Link, sign_url
    <2>4. PICK b : b = [a EXCEPT !.sub = l]
      OBVIOUS
    <2>5. b \in AskSet
      BY <2>3, <2>4 DEF AskSet
    <2>6. b.op = a.op /\ b.path = a.path
      BY <2>4, AsksAssumption DEF AskTypes
    <2>7. First(b) = First(a)
      BY <2>6 DEF First
    <2> QED
      BY <2>1, <2>2, <2>3, <2>4, <2>5, <2>7, BeginMoves
  <1>5. CASE CreateUser(r)
    <2>1. p.pc = "create" /\ UNCHANGED disk
      BY <1>5 DEF CreateUser
    <2>2. Stage(p) /\ p.ask \in AskSet /\ p.user = None /\ p.ask.sub \in Subs
      BY <1>1, <2>1 DEF Stage, StageOf
    <2>3. CASE \E row \in users : row[2] = p.ask.sub
      <3>1. To(r, "unique") /\ UNCHANGED users
        BY <1>5, <2>3 DEF CreateUser
      <3>2. PICK x : x = [p EXCEPT !.pc = "unique"] /\ req' = [req EXCEPT ![r] = x]
        BY <3>1 DEF To
      <3>3. /\ x.pc = "unique" /\ x.ask = p.ask /\ x.user = p.user /\ x.file = p.file
            /\ x.part = p.part /\ x.after = p.after
        BY <1>0, <3>2 DEF ReqStates
      <3>4. x \in ReqStates
        BY <1>0, <3>2 DEF ReqStates, Pcs, Ends
      <3>5. StageOf(x)
        BY <2>2, <3>3 DEF Stage, StageOf, Ends
      <3>6. Stage(x)
        BY <2>2, <3>3, <3>5 DEF Stage, PutOf, GetOf
      <3>7. Fits(r, x)
        BY <1>0, <2>1, <2>2, <3>3, <3>4, <3>6 DEF Fits, disk
      <3> QED
        BY <3>2, <3>7 DEF Moves
    <2>4. CASE \A row \in users : row[2] # p.ask.sub
      <3>1. users' = users \cup {<<NewId, p.ask.sub>>}
        BY <1>5, <2>4 DEF CreateUser
      <3>2. PICK x : x = [p EXCEPT !.user = NewId, !.pc = First(p.ask)] /\ req' = [req EXCEPT ![r] = x]
        BY <1>5, <2>4 DEF CreateUser
      <3>3. NewId \in UserIds /\ NewId # None
        BY <2>2, <2>4, FreshId, NoneAssumption
      <3>4. PICK pc : pc = First(p.ask)
        OBVIOUS
      <3>5. p.ask \in AskTypes(Subs \cup {None} \cup Links) /\ p.ask # None
        BY <2>2, AskFacts, NoneAssumption
      <3>6. p.ask.op \in {"put", "get", "delete", "list", "head"}
        BY <3>5 DEF AskTypes
      <3>7. /\ p.ask.op = "put" => pc \in {"subdir", "receive"}
            /\ p.ask.op = "delete" => pc = "exists?"
            /\ p.ask.op = "list" => pc = "ls"
            /\ p.ask.op \in {"get", "head"} => pc = "look"
        BY <3>4 DEF First
      <3>8. pc \in Pcs
        BY <3>6, <3>7 DEF Pcs
      <3>9. /\ x.pc = pc /\ x.ask = p.ask /\ x.user = NewId /\ x.file = p.file
            /\ x.part = p.part /\ x.after = p.after /\ x.body = p.body
        BY <1>0, <3>2, <3>4 DEF ReqStates
      <3>10. x \in ReqStates
        BY <1>0, <3>2, <3>3, <3>4, <3>8 DEF ReqStates
      <3>11. StageOf(x)
        BY <3>3, <3>5, <3>6, <3>7, <3>9 DEF StageOf
      <3>12. Stage(x)
        BY <2>1, <2>2, <3>6, <3>7, <3>9, <3>11 DEF Stage, PutOf, GetOf
      <3>13. NewId \in UserIdsOf(users')
        <4>1. PICK row : row = <<NewId, p.ask.sub>>
          OBVIOUS
        <4>2. row \in users' /\ row[1] = NewId
          BY <3>1, <4>1
        <4> QED
          BY <4>2 DEF UserIdsOf
      <3>14. Fits(r, x)
        BY <1>0, <2>1, <3>9, <3>10, <3>12, <3>13 DEF Fits, disk
      <3> QED
        BY <3>2, <3>14 DEF Moves
    <2> QED
      BY <2>3, <2>4
  <1>6. ASSUME NEW pc \in Pcs \ Ends, To(r, pc), p.pc \notin Ends \cup {"idle", "create"},
               UNCHANGED users, DOMAIN files \subseteq DOMAIN files',
               \/ p.ask.op = "put" /\ pc \in {"mkdir", "makedirs", "receive", "open"}
                  /\ p.pc \in {"subdir", "mkdir", "makedirs", "receive"}
               \/ p.ask.op = "delete" /\ pc = "remove"
               \/ p.ask.op \in {"get", "head"} /\ pc = "fsize" /\ p.pc = "look"
               \/ p.ask.op = "get" /\ pc = "tar" /\ p.pc = "look"
        PROVE  Moves(r)
    <2>1. PICK x : x = [p EXCEPT !.pc = pc]
      OBVIOUS
    <2>2. /\ x.pc = pc /\ x.ask = p.ask /\ x.user = p.user /\ x.file = p.file /\ x.part = p.part
          /\ x.body = p.body
      BY <1>0, <2>1 DEF ReqStates
    <2>3. Stage(p) /\ p.user # None /\ p.ask # None
      BY <1>1, <1>6, NoneAssumption
    <2>4. StageOf(x)
      BY <1>6, <2>2, <2>3 DEF StageOf
    <2>5. Stage(x)
      BY <1>6, <2>2, <2>3, <2>4 DEF Stage, PutOf, GetOf
    <2> QED
      BY <1>6, <2>1, <2>5, ToMoves
  <1>7. CASE SubDir(r) \/ MkDir(r) \/ MakeDirs(r) \/ Receive(r)
    <2>1. p.pc \in {"subdir", "mkdir", "makedirs", "receive"} /\ UNCHANGED <<users, files>>
      BY <1>7 DEF SubDir, MkDir, MakeDirs, Receive, disk
    <2>2. /\ Stage(p) /\ p.ask.op = "put" /\ p.pc \notin Ends \cup {"idle", "create"} /\ p.user # None
      BY <1>1, <2>1 DEF Ends
    <2>3. \/ To(r, "receive") \/ To(r, "mkdir") \/ To(r, "makedirs") \/ To(r, "open")
          \/ To(r, "exists") \/ To(r, "dir") \/ To(r, "client")
      <3>1. CASE MakeDirs(r)
        BY <1>1, <2>1, <2>2, <3>1, DirsMade
      <3>2. CASE ~MakeDirs(r)
        BY <1>7, <3>2 DEF SubDir, MkDir, Receive
      <3> QED
        BY <3>1, <3>2
    <2>4. /\ {"receive", "mkdir", "makedirs", "open"} \subseteq Pcs \ Ends
          /\ {"exists", "dir", "client"} \subseteq Ends \ {"ok"}
      BY DEF Pcs, Ends
    <2> QED
      BY <1>6, <2>1, <2>2, <2>3, <2>4, EndsWell

  <1>8. ASSUME p.pc \notin Ends \cup {"idle", "create"}, p.ask.op # "list"
        PROVE  /\ Entry(r) \in {None, Dir} \cup DOMAIN files
               /\ IsFile(Entry(r)) => Entry(r) \in DOMAIN files
    <2>1. Target(p.ask) \in Paths /\ p.user \in UserIds
      BY <1>1, <1>8, AskFacts
    <2> QED
      BY <1>0, <2>1 DEF Entry, IsFile
  <1>9. Len(files) \in Nat /\ DOMAIN files = 1 .. Len(files) /\ DOMAIN files \subseteq Nat
    BY <1>0
  <1>10. CASE Open(r)
    <2>1. p.pc = "open" /\ UNCHANGED users
      BY <1>10 DEF Open
    <2>2. Stage(p) /\ p.ask.op = "put" /\ p.user # None /\ p.ask \in AskSet
      BY <1>1, <2>1 DEF Ends
    <2>3. ASSUME NEW f \in DOMAIN files', DOMAIN files \subseteq DOMAIN files', DOMAIN files' \subseteq Nat,
                 req' = [req EXCEPT ![r].file = f, ![r].pc = "write", ![r].size = 0]
          PROVE  Moves(r)
      <3>1. PICK x : x = [p EXCEPT !.file = f, !.pc = "write", !.size = 0] /\ req' = [req EXCEPT ![r] = x]
        BY <2>3
      <3>2. f \in Nat /\ f # None
        BY <2>3, NoneAssumption
      <3>3. x \in ReqStates
        BY <1>0, <3>1, <3>2 DEF ReqStates, Pcs
      <3>4. /\ x.pc = "write" /\ x.ask = p.ask /\ x.user = p.user /\ x.file = f /\ x.part = p.part
            /\ x.size = 0 /\ x.after = p.after
        BY <1>0, <3>1, <3>2 DEF ReqStates
      <3>5. StageOf(x)
        BY <2>2, <3>4 DEF Stage, StageOf
      <3>6. p.part \in DOMAIN p.ask.parts /\ p.ask.parts \in Seq(Nat \cup {None})
        BY <1>2, <2>2 DEF Stage, PutOf
      <3>7. p.ask.parts[p.part] # None => 0 <= p.ask.parts[p.part]
        BY <3>6
      <3>8. PutOf(x)
        BY <3>2, <3>4, <3>6, <3>7 DEF PutOf
      <3>9. Stage(x)
        BY <2>2, <3>4, <3>5, <3>8 DEF Stage
      <3>10. Fits(r, x)
        BY <2>1, <2>3, <3>3, <3>4, <3>9, GoesOn
      <3> QED
        BY <3>1, <3>10 DEF Moves
    <2>4. CASE To(r, "dir") /\ UNCHANGED disk
      BY <2>1, <2>2, <2>4, EndsWell DEF Ends, disk
    <2>5. CASE /\ IsFile(Entry(r))
               /\ files' = [files EXCEPT ![Entry(r)] = <<>>]
               /\ req' = [req EXCEPT ![r].file = Entry(r), ![r].pc = "write", ![r].size = 0]
      <3>1. Entry(r) \in DOMAIN files /\ DOMAIN files' = DOMAIN files
        BY <1>8, <2>1, <2>2, <2>5 DEF Ends
      <3> QED
        BY <1>9, <2>3, <2>5, <3>1
    <2>6. CASE /\ files' = Append(files, <<>>)
               /\ req' = [req EXCEPT ![r].file = Len(files) + 1, ![r].pc = "write", ![r].size = 0]
      <3>1. DOMAIN files' = 1 .. (Len(files) + 1)
        BY <1>0, <1>9, <2>6
      <3>2. Len(files) + 1 \in DOMAIN files' /\ DOMAIN files \subseteq DOMAIN files' /\ DOMAIN files' \subseteq Nat
        BY <1>9, <3>1
      <3> QED
        BY <2>3, <2>6, <3>2
    <2> QED
      BY <1>10, <2>4, <2>5, <2>6 DEF Open
  <1>11. CASE Write(r)
    <2>1. p.pc = "write" /\ Part(r) # None /\ p.size < Part(r) /\ UNCHANGED users
      BY <1>11 DEF Write
    <2>2. Stage(p) /\ p.ask.op = "put" /\ p.user # None /\ p.ask \in AskSet
      BY <1>1, <2>1 DEF Ends
    <2>3. p.part \in DOMAIN p.ask.parts /\ p.ask.parts \in Seq(Nat \cup {None}) /\ p.size \in Nat /\ p.file # None
      BY <1>2, <2>1, <2>2 DEF Stage, PutOf
    <2>4. CASE /\ files' = [files EXCEPT ![p.file] = WriteAt(@, p.size + 1, [by |-> r, part |-> p.part, at |-> p.size])]
               /\ req' = [req EXCEPT ![r].size = p.size + 1]
      <3>1. PICK x : x = [p EXCEPT !.size = p.size + 1] /\ req' = [req EXCEPT ![r] = x]
        BY <2>4
      <3>0. p.size + 1 \in Nat
        BY <2>3
      <3>2. x \in ReqStates
        BY <1>0, <3>0, <3>1 DEF ReqStates
      <3>3. /\ x.pc = "write" /\ x.ask = p.ask /\ x.user = p.user /\ x.file = p.file /\ x.part = p.part
            /\ x.size = p.size + 1 /\ x.after = p.after
        BY <1>0, <2>1, <3>1 DEF ReqStates
      <3>4. StageOf(x)
        BY <2>2, <3>3 DEF Stage, StageOf
      <3>5. p.ask.parts[p.part] \in Nat /\ p.size + 1 \in Nat /\ p.size + 1 <= p.ask.parts[p.part]
        BY <2>1, <2>3 DEF Part
      <3>6. PutOf(x)
        BY <2>3, <3>3, <3>5 DEF PutOf
      <3>7. Stage(x)
        BY <2>2, <3>3, <3>4, <3>6 DEF Stage
      <3>8. DOMAIN files' = DOMAIN files
        BY <2>4
      <3>9. Fits(r, x)
        BY <2>1, <3>2, <3>3, <3>7, <3>8, GoesOn
      <3> QED
        BY <3>1, <3>9 DEF Moves
    <2>5. CASE To(r, "disk") /\ UNCHANGED files
      BY <2>1, <2>2, <2>5, EndsWell DEF Ends
    <2> QED
      BY <1>11, <2>4, <2>5 DEF Write
  <1>12. CASE Written(r)
    <2>1. p.pc = "write" /\ UNCHANGED <<users, disk>>
      BY <1>12 DEF Written
    <2>2. Stage(p) /\ p.ask.op = "put" /\ p.user # None /\ p.ask \in AskSet
      BY <1>1, <2>1 DEF Ends
    <2>3. p.part \in DOMAIN p.ask.parts /\ p.ask.parts \in Seq(Nat \cup {None}) /\ p.file # None
      BY <1>2, <2>1, <2>2 DEF Stage, PutOf
    <2>4. CASE To(r, "text")
      BY <2>1, <2>2, <2>4, EndsWell DEF Ends, disk
    <2>5. CASE Part(r) # None /\ req' = IF p.part < Len(p.ask.parts)
                  THEN [req EXCEPT ![r].part = p.part + 1, ![r].pc = "open"]
                  ELSE [req EXCEPT ![r].pc = "stat"]
      <3>1. CASE p.part < Len(p.ask.parts)
        <4>1. PICK x : x = [p EXCEPT !.part = p.part + 1, !.pc = "open"] /\ req' = [req EXCEPT ![r] = x]
          BY <2>5, <3>1
        <4>2. p.part + 1 \in DOMAIN p.ask.parts /\ p.part + 1 \in Nat
          BY <2>3, <3>1
        <4>3. x \in ReqStates
          BY <1>0, <4>1, <4>2 DEF ReqStates, Pcs
        <4>4. /\ x.pc = "open" /\ x.ask = p.ask /\ x.user = p.user /\ x.file = p.file
              /\ x.part = p.part + 1 /\ x.after = p.after
          BY <1>0, <4>1, <4>2 DEF ReqStates
        <4>5. StageOf(x)
          BY <2>2, <4>4 DEF Stage, StageOf
        <4>6. Stage(x)
          BY <2>2, <4>2, <4>4, <4>5 DEF Stage, PutOf
        <4>7. Fits(r, x)
          BY <2>1, <4>3, <4>4, <4>6, GoesOn DEF disk
        <4> QED
          BY <4>1, <4>7 DEF Moves
      <3>2. CASE ~(p.part < Len(p.ask.parts))
        <4>1. PICK x : x = [p EXCEPT !.pc = "stat"]
          OBVIOUS
        <4>2. To(r, "stat")
          BY <2>5, <3>2 DEF To
        <4>3. p.part = Len(p.ask.parts)
          BY <2>3, <3>2
        <4>4. x.pc = "stat" /\ x.ask = p.ask /\ x.user = p.user /\ x.file = p.file /\ x.part = p.part
          BY <1>0, <4>1 DEF ReqStates
        <4>5. StageOf(x)
          BY <2>2, <4>4 DEF Stage, StageOf
        <4>6. Stage(x)
          BY <2>2, <2>3, <2>5, <4>3, <4>4, <4>5 DEF Stage, PutOf, Part
        <4> QED
          BY <2>1, <4>1, <4>2, <4>6, ToMoves DEF Pcs, disk
      <3> QED
        BY <3>1, <3>2
    <2> QED
      BY <1>12, <2>4, <2>5 DEF Written
  <1>13. CASE Stat(r)
    <2>1. p.pc = "stat" /\ UNCHANGED <<users, disk>>
      BY <1>13 DEF Stat
    <2>2. Stage(p) /\ p.ask.op = "put" /\ p.user # None /\ p.ask \in AskSet
      BY <1>1, <2>1 DEF Ends
    <2>3. CASE Entry(r) # None
      <3>1. PICK n : n = SizeOf(Entry(r))
        OBVIOUS
      <3>2. IsFile(Entry(r)) => files[Entry(r)] \in Content
        BY <1>0, <1>8, <2>1, <2>2 DEF Ends
      <3>3. n \in Nat
        BY <3>1, <3>2 DEF Content, SizeOf
      <3>4. PICK x : x = [p EXCEPT !.size = n, !.pc = "ok"] /\ req' = [req EXCEPT ![r] = x]
        BY <1>13, <2>3, <3>1 DEF Stat
      <3>5. x \in ReqStates
        BY <1>0, <3>3, <3>4 DEF ReqStates, Pcs, Ends
      <3>6. /\ x.pc = "ok" /\ x.ask = p.ask /\ x.user = p.user /\ x.file = p.file
            /\ x.part = p.part /\ x.after = p.after
        BY <1>0, <3>4 DEF ReqStates
      <3>7. StageOf(x)
        BY <2>2, <3>6 DEF Stage, StageOf, Ends
      <3>8. Stage(x)
        BY <2>1, <2>2, <3>6, <3>7 DEF Stage, PutOf
      <3>9. Fits(r, x)
        BY <2>1, <3>5, <3>6, <3>8, GoesOn DEF disk
      <3> QED
        BY <3>4, <3>9 DEF Moves
    <2>4. CASE Entry(r) = None
      <3>1. To(r, "gone")
        BY <1>13, <2>4 DEF Stat
      <3> QED
        BY <2>1, <2>2, <3>1, EndsWell DEF Ends, disk
    <2> QED
      BY <2>3, <2>4
  <1>14. CASE Exists(r) \/ Remove(r)
    <2>1. p.pc \in {"exists?", "remove"} /\ UNCHANGED <<users, files>>
      BY <1>14 DEF Exists, Remove, disk
    <2>2. Stage(p) /\ p.ask.op = "delete" /\ p.user # None /\ p.ask \in AskSet
      BY <1>1, <2>1 DEF Ends
    <2>3. To(r, "missing") \/ To(r, "remove") \/ To(r, "ok") \/ To(r, "dir") \/ To(r, "gone")
      BY <1>14 DEF Exists, Remove
    <2>4. ASSUME To(r, "ok") PROVE Moves(r)
      <3>1. PICK x : x = [p EXCEPT !.pc = "ok"]
        OBVIOUS
      <3>2. x.pc = "ok" /\ x.ask = p.ask /\ x.user = p.user /\ x.file = p.file
        BY <1>0, <3>1 DEF ReqStates
      <3>3. Stage(x)
        BY <2>2, <3>2 DEF Stage, StageOf, Ends
      <3> QED
        BY <2>1, <2>4, <3>1, <3>3, ToMoves DEF Pcs, Ends
    <2>5. "remove" \in Pcs \ Ends /\ {"missing", "dir", "gone"} \subseteq Ends \ {"ok"}
      BY DEF Pcs, Ends
    <2>6. p.pc \notin Ends \cup {"idle", "create"}
      BY <2>1 DEF Ends
    <2> QED
      BY <1>6, <2>1, <2>2, <2>3, <2>4, <2>5, <2>6, EndsWell
  <1>15. CASE Ls(r)
    <2>1. p.pc = "ls" /\ UNCHANGED <<users, disk>>
      BY <1>15 DEF Ls
    <2>2. Stage(p) /\ p.ask.op = "list" /\ p.user # None /\ p.ask \in AskSet
      BY <1>1, <2>1 DEF Ends
    <2>3. PICK s : s = InFILES(p.user)
      OBVIOUS
    <2>4. s \subseteq Paths
      BY <2>3 DEF InFILES
    <2>5. PICK x : x = [p EXCEPT !.seen = s, !.pc = "sizes"] /\ req' = [req EXCEPT ![r] = x]
      BY <1>15, <2>3 DEF Ls
    <2>6. x \in ReqStates
      BY <1>0, <2>4, <2>5 DEF ReqStates, Pcs
    <2>7. x.pc = "sizes" /\ x.ask = p.ask /\ x.user = p.user /\ x.file = p.file /\ x.after = p.after
      BY <1>0, <2>5 DEF ReqStates
    <2>8. Stage(x)
      BY <2>2, <2>7 DEF Stage, StageOf
    <2>9. Fits(r, x)
      BY <2>1, <2>6, <2>7, <2>8, GoesOn DEF disk
    <2> QED
      BY <2>5, <2>9 DEF Moves
  <1>16. CASE Size(r)
    <2>1. p.pc = "sizes" /\ UNCHANGED <<users, disk>>
      BY <1>16 DEF Size
    <2>2. Stage(p) /\ p.ask.op = "list" /\ p.user # None /\ p.ask \in AskSet
      BY <1>1, <2>1 DEF Ends
    <2>3. CASE To(r, "ok")
      <3>1. PICK x : x = [p EXCEPT !.pc = "ok"]
        OBVIOUS
      <3>2. x.pc = "ok" /\ x.ask = p.ask /\ x.user = p.user /\ x.file = p.file
        BY <1>0, <3>1 DEF ReqStates
      <3>3. Stage(x)
        BY <2>2, <3>2 DEF Stage, StageOf, Ends
      <3> QED
        BY <2>1, <2>3, <3>1, <3>3, ToMoves DEF Pcs, Ends, disk
    <2>4. CASE To(r, "gone")
      BY <2>1, <2>2, <2>4, EndsWell DEF Ends, disk
    <2>5. ASSUME NEW n \in p.seen, req' = [req EXCEPT ![r].seen = p.seen \ {n}]
          PROVE  Moves(r)
      <3>1. PICK x : x = [p EXCEPT !.seen = p.seen \ {n}] /\ req' = [req EXCEPT ![r] = x]
        BY <2>5
      <3>2. x \in ReqStates
        BY <1>0, <3>1 DEF ReqStates
      <3>3. x.pc = "sizes" /\ x.ask = p.ask /\ x.user = p.user /\ x.file = p.file /\ x.after = p.after
        BY <1>0, <2>1, <3>1 DEF ReqStates
      <3>4. Stage(x)
        BY <2>2, <3>3 DEF Stage, StageOf
      <3>5. Fits(r, x)
        BY <2>1, <3>2, <3>3, <3>4, GoesOn DEF disk
      <3> QED
        BY <3>1, <3>5 DEF Moves
    <2> QED
      BY <1>16, <2>3, <2>4, <2>5 DEF Size
  <1>17. ASSUME To(r, "ok"), p.pc \in {"look", "tar", "fsize"}, UNCHANGED <<users, disk>>
         PROVE  Moves(r)
    <2>1. PICK x : x = [p EXCEPT !.pc = "ok"]
      OBVIOUS
    <2>2. x.pc = "ok" /\ x.ask = p.ask /\ x.user = p.user /\ x.file = p.file
      BY <1>0, <2>1 DEF ReqStates
    <2>3. Stage(p) /\ p.ask.op \in {"get", "head"} /\ p.user # None
      BY <1>1, <1>17 DEF Ends
    <2>4. Stage(x)
      BY <2>2, <2>3 DEF Stage, StageOf, GetOf, Ends
    <2> QED
      BY <1>17, <2>1, <2>4, ToMoves DEF Pcs, Ends, disk
  <1>18. CASE Look(r) \/ Tar(r)
    <2>1. p.pc \in {"look", "tar"} /\ UNCHANGED <<users, disk>>
      BY <1>18 DEF Look, Tar
    <2>2. Stage(p) /\ p.ask.op \in {"get", "head"} /\ p.user # None
      BY <1>1, <2>1 DEF Ends
    <2>3. \/ To(r, "ok") \/ To(r, "nofile")
          \/ p.pc = "look" /\ To(r, "fsize")
          \/ p.pc = "look" /\ p.ask.op # "head" /\ To(r, "tar")
      BY <1>18 DEF Look, Tar
    <2>4. "fsize" \in Pcs \ Ends /\ "tar" \in Pcs \ Ends /\ "nofile" \in Ends \ {"ok"}
      BY DEF Pcs, Ends
    <2>5. p.pc \notin Ends \cup {"idle", "create"} /\ DOMAIN files \subseteq DOMAIN files' /\ UNCHANGED users
      BY <2>1 DEF Ends, disk
    <2> QED
      BY <1>6, <1>17, <2>1, <2>2, <2>3, <2>4, <2>5, EndsWell

  <1>19. CASE FSize(r)
    <2>1. p.pc = "fsize" /\ UNCHANGED <<users, disk>>
      BY <1>19 DEF FSize
    <2>2. Stage(p) /\ p.ask.op \in {"get", "head"} /\ p.user # None /\ p.ask \in AskSet
      BY <1>1, <2>1 DEF Ends
    <2>3. \/ To(r, "gone") \/ To(r, "ok") \/ To(r, "range") \/ To(r, "refused")
          \/ /\ Entry(r) # None /\ p.ask.op = "get"
             /\ \A g \in p.ask.ranges : Accepted(g[1], g[2])
             /\ ~(Cardinality(p.ask.ranges) > 1)
             /\ req' = [req EXCEPT ![r].size = SizeOf(Entry(r)), ![r].pc = "stream"]
      BY <1>19 DEF FSize
    <2>4. {"gone", "range", "refused"} \subseteq Ends \ {"ok"} /\ DOMAIN files \subseteq DOMAIN files'
          /\ UNCHANGED users
      BY <2>1 DEF Ends, disk
    <2>5. CASE /\ Entry(r) # None /\ p.ask.op = "get"
               /\ \A g \in p.ask.ranges : Accepted(g[1], g[2])
               /\ ~(Cardinality(p.ask.ranges) > 1)
               /\ req' = [req EXCEPT ![r].size = SizeOf(Entry(r)), ![r].pc = "stream"]
      <3>1. PICK n : n = SizeOf(Entry(r))
        OBVIOUS
      <3>2. IsFile(Entry(r)) => files[Entry(r)] \in Content
        BY <1>0, <1>8, <2>1, <2>5 DEF Ends
      <3>3. n \in Nat
        BY <3>1, <3>2 DEF Content, SizeOf
      <3>4. PICK x : x = [p EXCEPT !.size = n, !.pc = "stream"] /\ req' = [req EXCEPT ![r] = x]
        BY <2>5, <3>1
      <3>5. x \in ReqStates
        BY <1>0, <3>3, <3>4 DEF ReqStates, Pcs
      <3>6. /\ x.pc = "stream" /\ x.ask = p.ask /\ x.user = p.user /\ x.file = p.file
            /\ x.body = p.body /\ x.size = n /\ x.after = p.after
        BY <1>0, <3>4 DEF ReqStates
      <3>7. StageOf(x)
        BY <2>2, <2>5, <3>6 DEF Stage, StageOf
      <3>8. Cardinality(p.ask.ranges) <= 1
        <4>1. Cardinality(p.ask.ranges) \in Nat
          BY <2>2, <2>5, AskFacts, FS_CardinalityType
        <4> QED
          BY <2>5, <4>1
      <3>9. Stage(x)
        BY <2>1, <2>2, <2>5, <3>3, <3>6, <3>7, <3>8 DEF Stage, GetOf
      <3>10. Fits(r, x)
        BY <2>1, <2>4, <3>5, <3>6, <3>9, GoesOn
      <3> QED
        BY <3>4, <3>10 DEF Moves
    <2> QED
      BY <1>17, <2>1, <2>2, <2>3, <2>4, <2>5, EndsWell
  <1>20. CASE Stream(r)
    <2>1. p.pc = "stream" /\ UNCHANGED <<users, disk>>
      BY <1>20 DEF Stream
    <2>2. Stage(p) /\ p.ask.op = "get" /\ p.user # None /\ p.ask \in AskSet
      BY <1>1, <2>1 DEF Ends
    <2>3. CASE IsFile(Entry(r))
      <3>1. Entry(r) \in DOMAIN files
        BY <1>8, <2>1, <2>2, <2>3 DEF Ends
      <3>2. Entry(r) \in Nat /\ Entry(r) # None
        BY <1>9, <3>1, NoneAssumption
      <3>3. PICK x : x = [p EXCEPT !.file = Entry(r), !.pc = "read"] /\ req' = [req EXCEPT ![r] = x]
        BY <1>20, <2>3 DEF Stream
      <3>4. x \in ReqStates
        BY <1>0, <3>2, <3>3 DEF ReqStates, Pcs
      <3>5. /\ x.pc = "read" /\ x.ask = p.ask /\ x.user = p.user /\ x.file = Entry(r)
            /\ x.body = p.body /\ x.size = p.size /\ x.after = p.after
        BY <1>0, <3>3 DEF ReqStates
      <3>6. StageOf(x)
        BY <2>2, <3>5 DEF Stage, StageOf
      <3>7. Stage(x)
        BY <2>1, <2>2, <3>2, <3>5, <3>6 DEF Stage, GetOf
      <3>8. Fits(r, x)
        BY <2>1, <3>1, <3>4, <3>5, <3>7, GoesOn DEF disk
      <3> QED
        BY <3>3, <3>8 DEF Moves
    <2>4. CASE ~IsFile(Entry(r))
      <3>1. To(r, "gone")
        BY <1>20, <2>4 DEF Stream
      <3> QED
        BY <2>1, <2>2, <3>1, EndsWell DEF Ends, disk
    <2> QED
      BY <2>3, <2>4
  <1>21. ASSUME p.pc = "read"
         PROVE  /\ Stage(p) /\ p.ask.op = "get" /\ p.user # None /\ p.ask \in AskSet
                /\ p.file \in DOMAIN files /\ files[p.file] \in Content
                /\ p.size \in Nat /\ Cardinality(p.ask.ranges) <= 1
                /\ p.ask.ranges # {} => p.body = <<>>
    <2>1. Stage(p) /\ p.ask.op = "get" /\ p.user # None /\ p.ask \in AskSet
      BY <1>1, <1>21 DEF Ends
    <2>2. GetOf(p)
      BY <2>1 DEF Stage
    <2>3. p.file \in DOMAIN files
      BY <1>0, <1>21, <2>2 DEF GetOf
    <2> QED
      BY <1>0, <1>21, <2>1, <2>2, <2>3 DEF GetOf
  <1>22. ASSUME p.pc = "read", UNCHANGED <<users, disk>>, NEW body \in Content, NEW pc \in {"ok", "read"},
                NEW x, x = [p EXCEPT !.pc = pc, !.body = body], req' = [req EXCEPT ![r] = x],
                pc = "read" => p.ask.ranges = {}
         PROVE  Moves(r)
    <2>1. x \in ReqStates
      BY <1>0, <1>22 DEF ReqStates, Pcs, Ends
    <2>2. /\ x.pc = pc /\ x.ask = p.ask /\ x.user = p.user /\ x.file = p.file
          /\ x.body = body /\ x.size = p.size /\ x.after = p.after
      BY <1>0, <1>22 DEF ReqStates
    <2>3. Stage(p) /\ p.ask.op = "get" /\ p.user # None
      BY <1>21, <1>22
    <2>4. StageOf(x)
      BY <2>2, <2>3 DEF Stage, StageOf, Ends
    <2>5. Stage(x)
      BY <1>22, <2>2, <2>3, <2>4 DEF Stage, GetOf
    <2>6. Fits(r, x)
      BY <1>22, <2>1, <2>2, <2>5, GoesOn DEF disk
    <2> QED
      BY <1>22, <2>6 DEF Moves
  <1>23. CASE ReadRange(r)
    <2>1. p.pc = "read" /\ p.ask.ranges # {} /\ UNCHANGED <<users, disk>>
      BY <1>23 DEF ReadRange
    <2>2. PICK content : content = files[p.file]
      OBVIOUS
    <2>3. content \in Content /\ p.size \in Nat
      BY <1>21, <2>1, <2>2
    <2>4. PICK g : g = CHOOSE h \in p.ask.ranges : TRUE
      OBVIOUS
    <2>5. g \in (Nat \cup {Absent}) \X (Nat \cup {Absent})
      <3>1. g \in p.ask.ranges
        BY <2>1, <2>4
      <3>2. p.ask.ranges \subseteq (Nat \cup {Absent}) \X (Nat \cup {Absent})
        BY <1>21, <2>1, AskFacts DEF AskTypes
      <3> QED
        BY <3>1, <3>2
    <2>6. PICK range : range = Prepared(set_range(g[1], g[2]), p.size)
      OBVIOUS
    <2>7. range.start \in Nat /\ range.end \in Int /\ range.range \in Int
      BY <2>3, <2>5, <2>6, RangeType
    <2>8. RangeOf(r) = range
      BY <2>4, <2>6 DEF RangeOf
    <2>9. PICK body : body = LET read == ReadBytes(range, Len(content))
                             IN  [j \in 1 .. Cardinality(read) |-> content[Min(read) + j]]
      OBVIOUS
    <2>10. body \in Content
      BY <2>3, <2>7, <2>9, ReadType
    <2>11. PICK x : x = [p EXCEPT !.pc = "ok", !.body = body]
      OBVIOUS
    <2>12. req' = [req EXCEPT ![r] = x]
      BY <1>23, <2>2, <2>8, <2>9, <2>11 DEF ReadRange
    <2> QED
      BY <1>22, <2>1, <2>10, <2>11, <2>12
  <1>24. CASE ReadChunks(r)
    <2>1. p.pc = "read" /\ p.ask.ranges = {} /\ UNCHANGED <<users, disk>>
      BY <1>24 DEF ReadChunks
    <2>2. PICK chunk : chunk = SubSeq(files[p.file], Len(p.body) + 1,
                                      Min({Len(p.body) + ReadChunk, Len(files[p.file])}))
      OBVIOUS
    <2>3. req' = IF chunk = <<>> THEN [req EXCEPT ![r].pc = "ok"]
                 ELSE [req EXCEPT ![r].body = p.body \o chunk]
      BY <1>24, <2>2 DEF ReadChunks
    <2>4. p.body \in Content
      BY <1>0 DEF ReqStates
    <2>5. CASE chunk = <<>>
      <3>1. PICK x : x = [p EXCEPT !.pc = "ok"] /\ req' = [req EXCEPT ![r] = x]
        BY <2>3, <2>5
      <3>2. x = [p EXCEPT !.pc = "ok", !.body = p.body]
        BY <1>0, <3>1 DEF ReqStates
      <3> QED
        BY <1>22, <2>1, <2>4, <3>1, <3>2
    <2>6. CASE chunk # <<>>
      <3>1. PICK x : x = [p EXCEPT !.body = p.body \o chunk] /\ req' = [req EXCEPT ![r] = x]
        BY <2>3, <2>6
      <3>2. x = [p EXCEPT !.pc = "read", !.body = p.body \o chunk]
        BY <1>0, <2>1, <3>1 DEF ReqStates
      <3>3. p.body \o chunk \in Content
        <4> DEFINE B == Byte \cup {None}
                   m == Len(p.body)
                   f == files[p.file]
        <4>1. p.body \in Seq(B) /\ m \in Nat /\ f \in Seq(B) /\ Len(f) \in Nat
          BY <1>21, <2>1, <2>4 DEF Content
        <4>2. Min({m + ReadChunk, Len(f)}) <= Len(f) /\ Min({m + ReadChunk, Len(f)}) \in Int
          <5>1. PICK c, n : c = m + ReadChunk /\ n = Len(f)
            OBVIOUS
          <5>2. c \in Int /\ n \in Int
            BY <4>1, <5>1, BoundsAssumption
          <5>3. Min({c, n}) <= n /\ Min({c, n}) \in Int
            BY <5>2, MinOfTwo
          <5> QED
            BY <5>1, <5>3
        <4>3. chunk \in Seq(B)
          BY <2>2, <4>1, <4>2, SubSeqOf
        <4> QED
          BY <4>1, <4>3 DEF Content
      <3> QED
        BY <1>22, <2>1, <3>1, <3>2, <3>3
    <2> QED
      BY <2>5, <2>6
  <1> QED
    BY <1>3, <1>4, <1>5, <1>7, <1>10, <1>11, <1>12, <1>13, <1>14, <1>15, <1>16, <1>18, <1>19, <1>20,
       <1>23, <1>24 DEF Step

\* Only a first request makes a user, with an id that no one has.
LEMMA UsersMove ==
  ASSUME TypeOK, StageInv, UsersInv, OneUser, NEW r \in Requests, Step(r)
  PROVE  \/ UNCHANGED users
         \/ /\ CreateUser(r) /\ req[r].pc = "create" /\ req[r].ask.sub \in Subs
            /\ \A row \in users : row[2] # req[r].ask.sub
            /\ users' = users \cup {<<NewId, req[r].ask.sub>>}
            /\ req'[r].user = NewId /\ req'[r].ask = req[r].ask
            /\ NewId \in UserIds /\ NewId \notin UserIdsOf(users)
            /\ UNCHANGED disk
  <1>1. CASE CreateUser(r) /\ users' # users
    <2>1. req[r].pc = "create" /\ (\A row \in users : row[2] # req[r].ask.sub) /\ UNCHANGED disk
      BY <1>1 DEF CreateUser
    <2>2. /\ users' = users \cup {<<NewId, req[r].ask.sub>>}
          /\ req' = [req EXCEPT ![r].user = NewId, ![r].pc = First(req[r].ask)]
      BY <1>1, <2>1 DEF CreateUser
    <2>3. req[r] # Idle
      BY <2>1 DEF Idle
    <2>4. req[r].ask.sub \in Subs
      BY <2>1, <2>3 DEF StageInv, Stage, StageOf
    <2>5. NewId \in UserIds /\ NewId \notin UserIdsOf(users)
      BY <2>1, <2>4, FreshId
    <2>6. PICK x : x = [req[r] EXCEPT !.user = NewId, !.pc = First(req[r].ask)] /\ req' = [req EXCEPT ![r] = x]
      BY <2>2
    <2>7. req \in [Requests -> ReqStates]
      BY DEF TypeOK
    <2>8. x.user = NewId /\ x.ask = req[r].ask /\ req'[r] = x
      BY <2>6, <2>7 DEF ReqStates
    <2> QED
      BY <1>1, <2>1, <2>2, <2>4, <2>5, <2>8
  <1>2. CASE ~CreateUser(r)
    <2>1. users' = users
      BY <1>2 DEF Step, WithToken, WithLink, Begin, SubDir, MkDir, MakeDirs, Receive, Open, Write, Written, Stat,
                  Exists, Remove, Ls, Size, Look, Tar, FSize, Stream, ReadRange, ReadChunks
    <2> QED
      BY <2>1
  <1> QED
    BY <1>1, <1>2

\* Who asks as an identity that is a user is the user with this identity.
LEMMA OwnRow ==
  ASSUME TypeOK, StageInv, UsersInv, OneUser, NEW r \in Requests, Step(r),
         req'[r].user # None, req'[r].ask.sub \in Subs
  PROVE  <<req'[r].user, req'[r].ask.sub>> \in users'
  <1>0. req \in [Requests -> ReqStates] /\ users \subseteq UserIds \X Subs
    BY DEF TypeOK
  <1>1. PICK x : Fits(r, x) /\ req' = [req EXCEPT ![r] = x]
    BY StepMoves DEF Moves
  <1>2. req'[r] = x
    BY <1>0, <1>1
  <1>3. CASE WithToken(r)
    <2>1. PICK a \in Asks : \/ \E row \in users : row[2] = a.sub /\ Begin(r, a, row[1], First(a))
                            \/ Begin(r, a, None, "create")
      BY <1>3 DEF WithToken
    <2>2. CASE \E row \in users : row[2] = a.sub /\ Begin(r, a, row[1], First(a))
      <3>1. PICK row \in users : row[2] = a.sub /\ Begin(r, a, row[1], First(a))
        BY <2>2
      <3>2. req'[r].user = row[1] /\ req'[r].ask = a /\ users' = users
        BY <1>0, <3>1 DEF Begin, Idle
      <3>3. row = <<row[1], row[2]>>
        BY <1>0
      <3> QED
        BY <3>1, <3>2, <3>3
    <2>3. CASE Begin(r, a, None, "create")
      <3>1. req'[r].user = None
        BY <1>0, <2>3 DEF Begin, Idle
      <3> QED
        BY <3>1
    <2> QED
      BY <2>1, <2>2, <2>3
  <1>4. CASE WithLink(r)
    <2>0. PICK a \in Asks, row \in users, k \in Keys :
            \E user, pc : Begin(r, [a EXCEPT !.sub = Link(a.path, row[1], 7, k)], user, pc)
      BY <1>4 DEF WithLink
    <2>1. PICK l, user, pc :
            l = Link(a.path, row[1], 7, k) /\ Begin(r, [a EXCEPT !.sub = l], user, pc)
      BY <2>0
    <2>2. row[1] \in UserIds
      BY <1>0
    <2>3. l \in Links
      BY <2>1, <2>2 DEF Links
    <2>4. PICK b : b = [a EXCEPT !.sub = l]
      OBVIOUS
    <2>5. b.sub = l
      BY <2>4, AsksAssumption DEF AskTypes
    <2>6. req'[r].ask = b
      BY <1>0, <2>1, <2>4 DEF Begin, Idle
    <2> QED
      BY <2>3, <2>5, <2>6, NoneAssumption
  <1>5. CASE CreateUser(r)
    <2>1. CASE UNCHANGED users
      <3>1. req[r].pc = "create" /\ To(r, "unique")
        <4>1. ASSUME \A row \in users : row[2] # req[r].ask.sub PROVE FALSE
          <5>1. PICK row : row = <<NewId, req[r].ask.sub>>
            OBVIOUS
          <5>2. row \in users /\ row[2] = req[r].ask.sub
            BY <1>5, <2>1, <4>1, <5>1 DEF CreateUser
          <5> QED
            BY <4>1, <5>2
        <4> QED
          BY <1>5, <4>1 DEF CreateUser
      <3>2. req'[r].user = req[r].user /\ req[r].user = None
        <4>1. req[r] # Idle
          BY <3>1 DEF Idle
        <4> QED
          BY <1>0, <3>1, <4>1 DEF To, ReqStates, StageInv, Stage, StageOf
      <3> QED
        BY <3>2
    <2>2. CASE users' # users
      BY <2>2, UsersMove
    <2> QED
      BY <2>1, <2>2
  <1>6. CASE ~WithToken(r) /\ ~WithLink(r) /\ ~CreateUser(r)
    <2>1. req[r].pc \notin {"idle", "create"}
      BY <1>6 DEF Step, SubDir, MkDir, MakeDirs, Receive, Open, Write, Written, Stat,
                  Exists, Remove, Ls, Size, Look, Tar, FSize, Stream, ReadRange, ReadChunks
    <2>2. req[r] # Idle
      BY <2>1 DEF Idle
    <2>3. x.user = req[r].user /\ x.ask = req[r].ask
      BY <1>1, <2>1, <2>2 DEF Fits
    <2>4. users \subseteq users'
      BY UsersMove
    <2> QED
      BY <1>2, <2>3, <2>4 DEF OneUser
  <1> QED
    BY <1>3, <1>4, <1>5, <1>6

\* Names and files change only by these four.
LEMMA DiskMoves ==
  ASSUME NEW r \in Requests, Step(r)
  PROVE  UNCHANGED disk \/ MakeDirs(r) \/ Open(r) \/ Write(r) \/ Remove(r)
  BY DEF Step, WithToken, WithLink, Begin, CreateUser, SubDir, MkDir, Receive, Written, Stat,
         Exists, Ls, Size, Look, Tar, FSize, Stream, ReadRange, ReadChunks, disk

\* A byte that an upload writes at its place.
LEMMA WriteAtType ==
  ASSUME NEW f \in Content, NEW i \in Nat \ {0}, NEW b \in Byte
  PROVE  WriteAt(f, i, b) \in Content
  <1> DEFINE B == Byte \cup {None}
  <1>1. f \in Seq(B) /\ Len(f) \in Nat /\ DOMAIN f = 1 .. Len(f)
    BY DEF Content
  <1>2. PICK k : k = Len(f)
    OBVIOUS
  <1>3. PICK m : m = Max({k, i})
    OBVIOUS
  <1>4. m \in Nat /\ k <= m /\ i <= m
    <2>1. \E x \in {k, i} : \A y \in {k, i} : x >= y
      BY <1>1, <1>2
    <2>2. m \in {k, i} /\ \A y \in {k, i} : m >= y
      BY <1>3, <2>1 DEF Max
    <2> QED
      BY <1>1, <1>2, <2>2
  <1>5. PICK g : g = [j \in 1 .. m |-> IF j = i THEN b ELSE IF j <= k THEN f[j] ELSE None]
    OBVIOUS
  <1>6. \A j \in 1 .. m : g[j] \in B
    BY <1>1, <1>2, <1>5
  <1>7. g \in Seq(B)
    <2>1. DOMAIN g = 1 .. m /\ g = [j \in 1 .. m |-> g[j]]
      BY <1>5
    <2> HIDE DEF B
    <2> QED
      BY <1>4, <1>6, <2>1
  <1>8. WriteAt(f, i, b) = g
    BY <1>2, <1>3, <1>5 DEF WriteAt
  <1> QED
    BY <1>7, <1>8 DEF Content

\* A sequence with another element at one place.
LEMMA SeqExcept ==
  ASSUME NEW S, NEW s \in Seq(S), NEW i \in DOMAIN s, NEW c \in S, NEW g, g = [s EXCEPT ![i] = c]
  PROVE  g \in Seq(S) /\ Len(g) = Len(s) /\ DOMAIN g = DOMAIN s
  <1>1. i \in 1 .. Len(s)
    BY LenProperties
  <1>2. g \in Seq(S) /\ Len(g) = Len(s)
    BY <1>1, ExceptSeq
  <1>3. DOMAIN g = DOMAIN s
    OBVIOUS
  <1> QED
    BY <1>2, <1>3

\* The files keep their numbers and there are no more than the bound.
LEMMA FilesType ==
  ASSUME TypeOK, StageInv, UsersInv, OneUser, NEW r \in Requests, Step(r)
  PROVE  /\ files' \in Seq(Content) /\ Len(files') <= MaxFiles
         /\ DOMAIN files \subseteq DOMAIN files'
         /\ names' \in [UserIds \X Paths -> {None, Dir} \cup DOMAIN files']
  <1> DEFINE p == req[r]
  <1>0. /\ p \in ReqStates
        /\ files \in Seq(Content) /\ Len(files) <= MaxFiles
        /\ names \in [UserIds \X Paths -> {None, Dir} \cup DOMAIN files]
        /\ p.file = None \/ p.file \in DOMAIN files
    BY DEF TypeOK
  <1>1. Len(files) \in Nat /\ DOMAIN files = 1 .. Len(files)
    BY <1>0
  <1>2. ASSUME p.pc \in {"makedirs", "open", "write"}
        PROVE  Stage(p) /\ p.ask \in AskSet /\ p.ask.op = "put" /\ p.user \in UserIds
               /\ Target(p.ask) \in Paths /\ Parent(Target(p.ask)) \in Paths
    <2>1. p # Idle
      BY <1>2 DEF Idle
    <2>2. Stage(p) /\ StageOf(p)
      BY <2>1 DEF StageInv, Stage
    <2>3. p.ask \in AskSet /\ p.ask.op = "put" /\ p.user \in UserIds
      BY <1>0, <1>2, <2>2, OpOf DEF Ends
    <2> QED
      BY <2>2, <2>3, AskFacts
  <1>3. CASE UNCHANGED disk
    BY <1>0, <1>3 DEF disk
  <1>4. CASE MakeDirs(r)
    <2>1. p.pc = "makedirs" /\ UNCHANGED files
      BY <1>4 DEF MakeDirs
    <2>2. names' = names \/ \E d : d \in Paths /\ names' = [names EXCEPT ![<<p.user, d>>] = Dir]
      BY <1>2, <1>4, <2>1, DirsMade
    <2> QED
      BY <1>0, <2>1, <2>2
  <1>5. CASE Open(r)
    <2>1. p.pc = "open"
      BY <1>5 DEF Open
    <2>2. CASE UNCHANGED disk
      BY <1>3, <2>2
    <2>3. CASE IsFile(Entry(r)) /\ files' = [files EXCEPT ![Entry(r)] = <<>>] /\ UNCHANGED names
      <3>1. <<>> \in Content
        BY DEF Content
      <3>2. files' \in Seq(Content) /\ Len(files') = Len(files) /\ DOMAIN files' = DOMAIN files
        <4>1. Entry(r) \in DOMAIN files
          BY <1>0, <1>2, <2>1, <2>3 DEF Entry, IsFile
        <4> QED
          BY <1>0, <2>3, <3>1, <4>1, SeqExcept
      <3> QED
        BY <1>0, <2>3, <3>2
    <2>4. CASE /\ Len(files) < MaxFiles /\ files' = Append(files, <<>>)
               /\ names' = [names EXCEPT ![<<p.user, Target(p.ask)>>] = Len(files) + 1]
      <3>1. <<>> \in Content
        BY DEF Content
      <3>2. files' \in Seq(Content) /\ Len(files') = Len(files) + 1 /\ DOMAIN files' = 1 .. Len(files) + 1
        BY <1>0, <1>1, <2>4, <3>1
      <3>3. Len(files) + 1 \in DOMAIN files' /\ DOMAIN files \subseteq DOMAIN files'
        BY <1>1, <3>2
      <3>4. names' \in [UserIds \X Paths -> {None, Dir} \cup DOMAIN files']
        <4>1. names \in [UserIds \X Paths -> {None, Dir} \cup DOMAIN files']
          BY <1>0, <3>3
        <4> QED
          BY <2>4, <3>3, <4>1
      <3> QED
        BY <1>1, <2>4, <3>2, <3>3, <3>4, BoundsAssumption
    <2> QED
      BY <1>5, <2>2, <2>3, <2>4 DEF Open
  <1>6. CASE Write(r)
    <2>1. p.pc = "write" /\ UNCHANGED names
      BY <1>6 DEF Write
    <2>2. p.file \in DOMAIN files /\ p.size \in Nat /\ p.part \in Nat
      BY <1>0, <1>2, <2>1 DEF Stage, PutOf, ReqStates
    <2>3. CASE files' = [files EXCEPT ![p.file] = WriteAt(@, p.size + 1, [by |-> r, part |-> p.part, at |-> p.size])]
      <3>1. [by |-> r, part |-> p.part, at |-> p.size] \in Byte
        BY <2>2 DEF Byte
      <3>2. PICK c : c = WriteAt(files[p.file], p.size + 1, [by |-> r, part |-> p.part, at |-> p.size])
        OBVIOUS
      <3>3. c \in Content
        <4>1. files[p.file] \in Content /\ p.size + 1 \in Nat \ {0}
          BY <1>0, <2>2
        <4> QED
          BY <3>1, <3>2, <4>1, WriteAtType
      <3>4. files' = [files EXCEPT ![p.file] = c]
        BY <2>3, <3>2
      <3>5. files' \in Seq(Content) /\ Len(files') = Len(files) /\ DOMAIN files' = DOMAIN files
        BY <1>0, <2>2, <3>3, <3>4, SeqExcept
      <3> QED
        BY <1>0, <2>1, <3>5
    <2>4. CASE UNCHANGED files
      BY <1>0, <2>1, <2>4
    <2> QED
      BY <1>6, <2>3, <2>4 DEF Write
  <1>7. CASE Remove(r)
    <2>1. UNCHANGED files
      BY <1>7 DEF Remove
    <2>2. names' = names \/ names' = [names EXCEPT ![<<p.user, Target(p.ask)>>] = None]
      BY <1>7 DEF Remove
    <2> QED
      BY <1>0, <2>1, <2>2
  <1> QED
    BY <1>3, <1>4, <1>5, <1>6, <1>7, DiskMoves

\* A step keeps the types, the stages and the users.
TypeInv == TypeOK /\ StageInv /\ UsersInv /\ OneUser
LEMMA TypeStep ==
  ASSUME TypeInv, [Next]_vars
  PROVE  TypeInv'
  <1>0. TypeOK /\ StageInv /\ UsersInv /\ OneUser
    BY DEF TypeInv
  <1>1. CASE UNCHANGED vars
    BY <1>0, <1>1 DEF vars, TypeInv, TypeOK, StageInv, UsersInv, OneUser
  <1>2. ASSUME NEW r \in Requests, Step(r) PROVE TypeInv'
    <2>0. req \in [Requests -> ReqStates] /\ users \subseteq UserIds \X Subs
      BY <1>0 DEF TypeOK
    <2>1. PICK x : Fits(r, x) /\ req' = [req EXCEPT ![r] = x]
      BY <1>0, <1>2, StepMoves DEF Moves
    <2>2. x \in ReqStates /\ Stage(x) /\ req'[r] = x /\ \A q \in Requests \ {r} : req'[q] = req[q]
      BY <2>0, <2>1 DEF Fits
    <2>3. /\ files' \in Seq(Content) /\ Len(files') <= MaxFiles
          /\ DOMAIN files \subseteq DOMAIN files'
          /\ names' \in [UserIds \X Paths -> {None, Dir} \cup DOMAIN files']
      BY <1>0, <1>2, FilesType
    <2>4. users \subseteq users' /\ users' \subseteq UserIds \X Subs
      BY <1>0, <1>2, <2>0, UsersMove
    <2>5. UserIdsOf(users) \subseteq UserIdsOf(users')
      BY <2>4 DEF UserIdsOf
    <2>6. TypeOK'
      <3>1. req' \in [Requests -> ReqStates]
        BY <2>0, <2>1, <2>2
      <3>2. ASSUME NEW q \in Requests
            PROVE  /\ req'[q].user = None \/ req'[q].user \in UserIdsOf(users')
                   /\ req'[q].file = None \/ req'[q].file \in DOMAIN files'
        <4>1. CASE q = r
          BY <2>1, <2>2, <4>1 DEF Fits
        <4>2. CASE q # r
          <5>1. req'[q] = req[q]
            BY <2>2, <4>2
          <5>2. /\ req[q].user = None \/ req[q].user \in UserIdsOf(users)
                /\ req[q].file = None \/ req[q].file \in DOMAIN files
            BY <1>0 DEF TypeOK, UserIdsOf
          <5> QED
            BY <2>3, <2>5, <5>1, <5>2
        <4> QED
          BY <4>1, <4>2
      <3> QED
        BY <2>3, <2>4, <3>1, <3>2 DEF TypeOK, UserIdsOf
    <2>7. StageInv'
      <3> SUFFICES ASSUME NEW q \in Requests PROVE req'[q] = Idle \/ Stage(req'[q])
        BY DEF StageInv
      <3>1. CASE q = r
        BY <2>2, <3>1
      <3>2. CASE q # r
        <4>1. req'[q] = req[q]
          BY <2>2, <3>2
        <4>2. req[q] = Idle \/ Stage(req[q])
          BY <1>0 DEF StageInv
        <4> QED
          BY <4>1, <4>2
      <3> QED
        BY <3>1, <3>2
    <2>8. CASE UNCHANGED users
      <3>1. UsersInv'
        BY <1>0, <2>8 DEF UsersInv
      <3>2. OneUser'
        <4>1. ASSUME NEW q \in Requests, req'[q].user # None, req'[q].ask.sub \in Subs
              PROVE  <<req'[q].user, req'[q].ask.sub>> \in users'
          <5>1. CASE q = r
            BY <1>0, <1>2, <4>1, <5>1, OwnRow
          <5>2. CASE q # r
            BY <1>0, <2>2, <2>8, <4>1, <5>2 DEF OneUser
          <5> QED
            BY <5>1, <5>2
        <4> QED
          BY <1>0, <2>8, <4>1 DEF OneUser
      <3> QED
        BY <2>6, <2>7, <3>1, <3>2 DEF TypeInv
    <2>9. CASE users' # users
      <3>1. /\ req[r].pc = "create" /\ req[r].ask.sub \in Subs
            /\ \A row \in users : row[2] # req[r].ask.sub
            /\ users' = users \cup {<<NewId, req[r].ask.sub>>}
            /\ NewId \in UserIds /\ NewId \notin UserIdsOf(users)
        BY <1>0, <1>2, <2>9, UsersMove
      <3>2. PICK row0 : row0 = <<NewId, req[r].ask.sub>>
        OBVIOUS
      <3>3. row0 \notin users /\ row0[1] = NewId /\ row0[2] = req[r].ask.sub /\ users' = users \cup {row0}
        BY <3>1, <3>2
      <3>4. UsersInv'
        <4>1. IsFiniteSet(users) /\ Cardinality(users) \in Nat
          BY <1>0, FS_CardinalityType DEF UsersInv
        <4>2. IsFiniteSet(users') /\ Cardinality(users') = Cardinality(users) + 1
          BY <3>3, <4>1, FS_AddElement
        <4>3. PICK n : n = Cardinality(users)
          OBVIOUS
        <4>4. UserIdsOf(users') = UserIdsOf(users) \cup {NewId}
          <5>1. UserIdsOf(users') = UserIdsOf(users) \cup {row0[1]}
            BY <3>3 DEF UserIdsOf
          <5> QED
            BY <3>3, <5>1
        <4>5. UserIdsOf(users) = {Ids[k] : k \in 1 .. n}
          BY <1>0, <4>3 DEF UsersInv, UserIdsOf
        <4>6. NewId = Ids[n + 1]
          BY <4>3 DEF NewId
        <4>7. {Ids[k] : k \in 1 .. n + 1} = {Ids[k] : k \in 1 .. n} \cup {Ids[n + 1]}
          <5>1. \A k \in Int : k \in 1 .. n + 1 <=> k \in 1 .. n \/ k = n + 1
            BY <4>1, <4>3
          <5>2. n + 1 \in 1 .. n + 1
            BY <4>1, <4>3
          <5> QED
            BY <4>1, <4>3, <5>1, <5>2
        <4>8. UserIdsOf(users') = {Ids[k] : k \in 1 .. Cardinality(users')}
          BY <4>2, <4>3, <4>4, <4>5, <4>6, <4>7
        <4> QED
          BY <4>2, <4>8 DEF UsersInv, UserIdsOf
      <3>5. OneUser'
        <4>1. ASSUME NEW q \in Requests, req'[q].user # None, req'[q].ask.sub \in Subs
              PROVE  <<req'[q].user, req'[q].ask.sub>> \in users'
          <5>1. CASE q = r
            BY <1>0, <1>2, <4>1, <5>1, OwnRow
          <5>2. CASE q # r
            BY <1>0, <2>2, <2>4, <4>1, <5>2 DEF OneUser
          <5> QED
            BY <5>1, <5>2
        <4>2. ASSUME NEW y \in users', NEW z \in users', y[1] = z[1] \/ y[2] = z[2] PROVE y = z
          <5>1. \A u \in users : u[1] # row0[1] /\ u[2] # row0[2]
            BY <3>1, <3>3 DEF UserIdsOf
          <5>2. \A u, v \in users : u[1] = v[1] \/ u[2] = v[2] => u = v
            BY <1>0 DEF OneUser
          <5> QED
            BY <3>3, <4>2, <5>1, <5>2
        <4> QED
          BY <4>1, <4>2 DEF OneUser
      <3> QED
        BY <2>6, <2>7, <3>4, <3>5 DEF TypeInv
    <2> QED
      BY <2>8, <2>9
  <1> QED
    BY <1>1, <1>2 DEF Next

-----------------------------------------------------------------------------
(* What a step leaves as it was *)

\* A request that takes a step has not ended, keeps what it asks, and is for the user that
\* it was for, if it knew one; the others stay as they are.
LEMMA StepFacts ==
  ASSUME TypeInv, NEW r \in Requests, Step(r)
  PROVE  /\ req[r].pc \notin Ends
         /\ \A q \in Requests \ {r} : req'[q] = req[q]
         /\ req'[r] \in ReqStates /\ Stage(req'[r])
         /\ req[r] # Idle => /\ Stage(req[r]) /\ req[r].ask \in AskSet
                             /\ req'[r].ask = req[r].ask /\ req'[r].after = req[r].after
         /\ req[r] # Idle /\ req[r].pc # "create" => req'[r].user = req[r].user /\ req[r].user \in UserIds
         /\ req[r] = Idle =>
              /\ req'[r].after = {q \in Requests : req[q].pc \in Ends} /\ UNCHANGED <<users, disk>>
              /\ req'[r].file = None
  <1>0. TypeOK /\ StageInv /\ UsersInv /\ OneUser /\ req \in [Requests -> ReqStates]
    BY DEF TypeInv, TypeOK
  <1>1. PICK x : Fits(r, x) /\ req' = [req EXCEPT ![r] = x]
    BY <1>0, StepMoves DEF Moves
  <1>2. x \in ReqStates /\ Stage(x) /\ req'[r] = x /\ \A q \in Requests \ {r} : req'[q] = req[q]
    BY <1>0, <1>1 DEF Fits
  <1>3. req[r].pc \notin Ends
    <2>1. CASE WithToken(r) \/ WithLink(r)
      <3>1. req[r] = Idle
        BY <2>1 DEF WithToken, WithLink, Begin
      <3> QED
        BY <3>1 DEF Idle, Ends
    <2>2. CASE ~WithToken(r) /\ ~WithLink(r)
      <3>1. req[r].pc \in {"create", "subdir", "mkdir", "makedirs", "receive", "open", "write", "stat", "exists?",
                          "remove", "ls", "sizes", "look", "tar", "fsize", "stream", "read"}
        BY <2>2 DEF Step, CreateUser, SubDir, MkDir, MakeDirs, Receive, Open, Write, Written, Stat,
               Exists, Remove, Ls, Size, Look, Tar, FSize, Stream, ReadRange, ReadChunks
      <3> QED
        BY <3>1 DEF Ends
    <2> QED
      BY <2>1, <2>2
  <1>4. ASSUME req[r] # Idle
        PROVE  /\ Stage(req[r]) /\ req[r].ask \in AskSet
               /\ req[r].pc # "create" => req[r].user \in UserIds
    BY <1>0, <1>3, <1>4, OpOf DEF StageInv, Stage
  <1>5. ASSUME req[r] = Idle
        PROVE  /\ req'[r].after = {q \in Requests : req[q].pc \in Ends} /\ UNCHANGED <<users, disk>>
               /\ req'[r].file = None
    <2>1. WithToken(r) \/ WithLink(r)
      BY <1>5 DEF Step, CreateUser, SubDir, MkDir, MakeDirs, Receive, Open, Write, Written, Stat,
             Exists, Remove, Ls, Size, Look, Tar, FSize, Stream, ReadRange, ReadChunks, Idle
    <2>2. PICK a, user, pc : Begin(r, a, user, pc)
      BY <2>1 DEF WithToken, WithLink
    <2> QED
      BY <1>0, <2>2 DEF Begin, Idle
  <1> QED
    BY <1>1, <1>2, <1>3, <1>4, <1>5 DEF Fits

\* A name gets a directory or a file by an upload, and loses a file by a deletion.
LEMMA NameMoves ==
  ASSUME TypeInv, NEW r \in Requests, Step(r), NEW e \in UserIds \X Paths
  PROVE  \/ names'[e] = names[e]
         \/ /\ r \in Asked("put") /\ names[e] = None /\ names'[e] # None /\ req[r] # Idle
            /\ e[1] = req[r].user
            /\ \/ req[r].pc = "makedirs" /\ e[2] \in Along(Target(req[r].ask)) /\ names'[e] = Dir
               \/ req[r].pc = "open" /\ e = Key(r)
         \/ /\ r \in Asked("delete") /\ IsFile(names[e]) /\ names'[e] = None /\ req[r] # Idle
            /\ e = Key(r) /\ req[r].pc = "remove" /\ req'[r].pc = "ok"
  <1> DEFINE p == req[r]
  <1>0. /\ req \in [Requests -> ReqStates] /\ TypeOK /\ StageInv
        /\ files \in Seq(Content) /\ names \in [UserIds \X Paths -> {None, Dir} \cup DOMAIN files]
    BY DEF TypeInv, TypeOK
  <1>1. ASSUME p.pc \in {"makedirs", "open", "remove"}
        PROVE  /\ p # Idle /\ p.ask # None /\ p.ask \in AskSet /\ p.user \in UserIds
               /\ p.pc \in {"makedirs", "open"} => p.ask.op = "put"
               /\ p.pc = "remove" => p.ask.op = "delete"
    <2>1. p # Idle
      BY <1>1 DEF Idle
    <2>2. StageOf(p)
      BY <1>0, <2>1 DEF StageInv, Stage
    <2> QED
      BY <1>0, <1>1, <2>1, <2>2, OpOf DEF StageOf, Ends
  <1>2. CASE UNCHANGED disk \/ Write(r)
    BY <1>2 DEF disk, Write
  <1>3. CASE MakeDirs(r)
    <2>1. p.pc = "makedirs"
      BY <1>3 DEF MakeDirs
    <2>2. CASE UNCHANGED names
      BY <2>2
    <2>3. ASSUME NEW d, d \in Along(Target(p.ask)), names[<<p.user, d>>] = None,
                 names' = [names EXCEPT ![<<p.user, d>>] = Dir], names'[e] # names[e]
          PROVE  r \in Asked("put") /\ names[e] = None /\ names'[e] = Dir /\ Dir # None
                 /\ e[1] = p.user /\ e[2] \in Along(Target(p.ask))
      <3>1. e = <<p.user, d>>
        BY <1>0, <2>3
      <3>2. names[e] = None /\ names'[e] = Dir /\ e[1] = p.user /\ e[2] = d
        BY <1>0, <2>3, <3>1
      <3> QED
        BY <1>1, <2>1, <2>3, <3>2, NoneAssumption DEF Asked, Dir
    <2> QED
      BY <1>0, <1>1, <1>3, <2>1, <2>2, <2>3, DirsMade
  <1>4. CASE Open(r)
    <2>1. p.pc = "open"
      BY <1>4 DEF Open
    <2>2. CASE UNCHANGED names
      BY <2>2
    <2>3. CASE Entry(r) = None /\ names' = [names EXCEPT ![<<p.user, Target(p.ask)>>] = Len(files) + 1]
      <3>1. CASE e = <<p.user, Target(p.ask)>>
        <4>1. names[e] = None /\ names'[e] = Len(files) + 1 /\ e[1] = p.user /\ e = Key(r)
          BY <1>0, <2>3, <3>1 DEF Entry, Key
        <4>2. Len(files) + 1 \in Nat
          BY <1>0
        <4> QED
          BY <1>1, <2>1, <4>1, <4>2, NoneAssumption DEF Asked
      <3>2. CASE e # <<p.user, Target(p.ask)>>
        BY <1>0, <2>3, <3>2
      <3> QED
        BY <3>1, <3>2
    <2> QED
      BY <1>4, <2>2, <2>3 DEF Open, disk
  <1>5. CASE Remove(r)
    <2>1. p.pc = "remove"
      BY <1>5 DEF Remove
    <2>2. CASE UNCHANGED names
      BY <2>2
    <2>3. CASE /\ IsFile(Entry(r)) /\ To(r, "ok")
               /\ names' = [names EXCEPT ![<<p.user, Target(p.ask)>>] = None]
      <3>1. CASE e = <<p.user, Target(p.ask)>>
        <4>1. IsFile(names[e]) /\ names'[e] = None /\ e = Key(r)
          BY <1>0, <2>3, <3>1 DEF Entry, Key
        <4>2. req'[r].pc = "ok"
          BY <1>0, <2>3 DEF To, ReqStates
        <4> QED
          BY <1>1, <2>1, <4>1, <4>2 DEF Asked
      <3>2. CASE e # <<p.user, Target(p.ask)>>
        BY <1>0, <2>3, <3>2
      <3> QED
        BY <3>1, <3>2
    <2> QED
      BY <1>5, <2>2, <2>3 DEF Remove
  <1> QED
    BY <1>2, <1>3, <1>4, <1>5, DiskMoves

\* What had ended has ended.
LEMMA AfterStep ==
  ASSUME TypeInv, AfterInv, [Next]_vars
  PROVE  AfterInv'
  <1>1. CASE UNCHANGED vars
    BY <1>1 DEF vars, AfterInv
  <1>2. ASSUME NEW r \in Requests, Step(r) PROVE AfterInv'
    <2> SUFFICES ASSUME NEW s \in Requests, NEW q \in req'[s].after PROVE req'[q].pc \in Ends
      BY DEF AfterInv
    <2>0. /\ req[r].pc \notin Ends
          /\ \A o \in Requests \ {r} : req'[o] = req[o]
          /\ req[r] # Idle => req'[r].after = req[r].after
          /\ req[r] = Idle => req'[r].after = {o \in Requests : req[o].pc \in Ends}
      BY <1>2, StepFacts
    <2>1. q \in req[s].after \/ q \in {o \in Requests : req[o].pc \in Ends}
      BY <2>0
    <2>2. q \in Requests
      BY <2>1 DEF TypeInv, TypeOK, ReqStates
    <2>3. req[q].pc \in Ends
      BY <2>1 DEF AfterInv
    <2> QED
      BY <2>0, <2>2, <2>3
  <1> QED
    BY <1>1, <1>2 DEF Next

\* A request that another one crosses still does.
LEMMA CrossStays ==
  ASSUME TypeInv, NEW r \in Requests, Step(r),
         NEW s \in Requests, req[s] # Idle, NEW q \in Requests, Crosses(q, s)
  PROVE  /\ Crosses(q, s)' /\ req'[q].ask = req[q].ask
         /\ req[q].pc \in Ends => req'[q] = req[q]
         /\ req[q].pc # "create" => req'[q].user = req[q].user
  <1>1. req[q].ask # None /\ q # s /\ q \notin req[s].after
    BY DEF Crosses
  <1>2. req[q] # Idle
    BY <1>1 DEF Idle
  <1>3. /\ req'[q].ask = req[q].ask
        /\ req[q].pc # "create" => req'[q].user = req[q].user
        /\ req[q].pc \in Ends => req'[q] = req[q]
    <2>1. CASE q = r
      BY <1>2, <2>1, StepFacts
    <2>2. CASE q # r
      BY <2>2, StepFacts
    <2> QED
      BY <2>1, <2>2
  <1>4. req'[s].after = req[s].after
    <2>1. CASE s = r
      BY <2>1, StepFacts
    <2>2. CASE s # r
      BY <2>2, StepFacts
    <2> QED
      BY <2>1, <2>2
  <1> QED
    BY <1>1, <1>3, <1>4 DEF Crosses

\* Who takes a step is crossed by all others that have come.
LEMMA StepperCrosses ==
  ASSUME TypeInv, AfterInv, NEW r \in Requests, Step(r), req[r] # Idle,
         NEW s \in Requests \ {r}
  PROVE  Crosses(r, s) /\ Crosses(r, s)'
  <1>1. r \notin req[s].after
    BY StepFacts DEF AfterInv
  <1>2. req[r].ask \in AskSet /\ req'[r].ask = req[r].ask /\ req'[s] = req[s]
    BY StepFacts
  <1> QED
    BY <1>1, <1>2, NoneAssumption DEF Crosses

\* What has been changed by another request has been.
LEMMA DeletedStays ==
  ASSUME TypeInv, NEW r \in Requests, Step(r),
         NEW s \in Requests, req[s] # Idle, req[s].pc # "create", Deleted(s)
  PROVE  Deleted(s)'
  <1>1. PICK q \in Asked("delete") : /\ Crosses(q, s) /\ req[q].pc = "ok" /\ req[q].user = req[s].user
                                     /\ req[s].ask.op = "list" \/ Key(q) = Key(s)
    BY DEF Deleted
  <1>2. q \in Requests /\ req[q].ask # None /\ req[q].ask.op = "delete"
    BY DEF Asked
  <1>3. Crosses(q, s)' /\ req'[q] = req[q]
    BY <1>1, <1>2, CrossStays DEF Ends
  <1>4. req'[s].user = req[s].user /\ req'[s].ask = req[s].ask
    <2>1. CASE s = r
      BY <2>1, StepFacts
    <2>2. CASE s # r
      BY <2>2, StepFacts
    <2> QED
      BY <2>1, <2>2
  <1>5. (Key(q) = Key(s))' <=> Key(q) = Key(s)
    BY <1>3, <1>4 DEF Key
  <1>6. (q \in Asked("delete"))'
    BY <1>2, <1>3 DEF Asked
  <1> QED
    BY <1>1, <1>3, <1>4, <1>5, <1>6 DEF Deleted

LEMMA MadeStays ==
  ASSUME TypeInv, NEW r \in Requests, Step(r), NEW s \in Requests, req[s] # Idle, Made(s)
  PROVE  Made(s)'
  <1>1. PICK q \in Asked("put") :
          Crosses(q, s) /\ Parent(Target(req[s].ask)) \in Along(Target(req[q].ask))
    BY DEF Made
  <1>2. q \in Requests /\ req[q].ask # None /\ req[q].ask.op = "put"
    BY DEF Asked
  <1>3. Crosses(q, s)' /\ req'[q].ask = req[q].ask
    BY <1>1, <1>2, CrossStays
  <1>4. req'[s].ask = req[s].ask
    <2>1. CASE s = r
      BY <2>1, StepFacts
    <2>2. CASE s # r
      BY <2>2, StepFacts
    <2> QED
      BY <2>1, <2>2
  <1>5. (q \in Asked("put"))'
    BY <1>2, <1>3 DEF Asked
  <1> QED
    BY <1>1, <1>3, <1>4, <1>5 DEF Made

LEMMA JoinedStays ==
  ASSUME TypeInv, NEW r \in Requests, Step(r), NEW s \in Requests, req[s] # Idle, Joined(s)
  PROVE  Joined(s)'
  <1>1. PICK q \in Requests : /\ Crosses(q, s) /\ req[q].ask.sub = req[s].ask.sub
                              /\ <<req[q].user, req[s].ask.sub>> \in users
    BY DEF Joined
  <1>2. Crosses(q, s)' /\ req'[q].ask = req[q].ask /\ req'[q].user = req[q].user
    <2>1. req[q] # Idle
      BY <1>1 DEF Crosses, Idle
    <2>2. req[q].pc # "create"
      <3>1. req[q].user # None
        BY <1>1, NoneAssumption DEF TypeInv, TypeOK
      <3> QED
        BY <2>1, <3>1 DEF TypeInv, StageInv, Stage, StageOf
    <2> QED
      BY <1>1, <2>2, CrossStays
  <1>3. req'[s].ask = req[s].ask
    <2>1. CASE s = r
      BY <2>1, StepFacts
    <2>2. CASE s # r
      BY <2>2, StepFacts
    <2> QED
      BY <2>1, <2>2
  <1>4. users \subseteq users'
    BY UsersMove DEF TypeInv
  <1> QED
    BY <1>1, <1>2, <1>3, <1>4 DEF Joined

\* FailsHaveCause, one request at a time.
FailOf(r) ==
  /\ req[r].pc = "gone"   => Deleted(r)
  /\ req[r].pc = "exists" => Made(r)
  /\ req[r].pc = "unique" => Joined(r)
LEMMA FailsAre == FailsHaveCause <=> \A r \in Requests : FailOf(r)
  BY DEF FailsHaveCause, FailOf, Deleted, Made, Joined, Crosses, Asked

\* A name that another request goes on is still there, or has been deleted for it.
LEMMA NameLost ==
  ASSUME TypeInv, AfterInv, NEW r \in Requests, Step(r),
         NEW s \in Requests \ {r}, req[s] # Idle, NEW e \in UserIds \X Paths,
         e[1] = req[s].user, req[s].ask.op = "list" \/ e = Key(s), names[e] # None
  PROVE  names'[e] = names[e] \/ Deleted(s)'
  <1>1. SUFFICES ASSUME names'[e] # names[e] PROVE Deleted(s)'
    OBVIOUS
  <1>2. /\ r \in Asked("delete") /\ req[r] # Idle /\ e = Key(r) /\ req[r].pc = "remove" /\ req'[r].pc = "ok"
    BY <1>1, NameMoves
  <1>3. /\ req'[r].user = req[r].user /\ req'[r].ask = req[r].ask /\ req'[s] = req[s]
    BY <1>2, StepFacts
  <1>4. Crosses(r, s)'
    BY <1>2, StepperCrosses
  <1>5. (r \in Asked("delete"))' /\ Key(r)' = e /\ Key(s)' = Key(s)
    BY <1>2, <1>3 DEF Asked, Key
  <1>6. req'[r].user = req'[s].user
    BY <1>2, <1>3 DEF Key
  <1> QED
    BY <1>2, <1>3, <1>4, <1>5, <1>6 DEF Deleted

\* The step of another request leaves the causes.
LEMMA OthersCause ==
  ASSUME TypeInv, AfterInv, NEW r \in Requests, Step(r),
         NEW s \in Requests \ {r}, CauseOf(s), FailOf(s)
  PROVE  CauseOf(s)' /\ FailOf(s)'
  <1>0. req'[s] = req[s]
    BY StepFacts
  <1>1. CASE req[s] = Idle
    BY <1>0, <1>1 DEF Idle, CauseOf, FailOf
  <1>2. CASE req[s] # Idle
    <2>1. StageOf(req[s]) /\ req[s] \in ReqStates
      BY <1>2 DEF TypeInv, TypeOK, StageInv, Stage
    <2>2. /\ req[s].ask \in AskSet
          /\ req[s].pc \in {"subdir", "mkdir", "makedirs", "receive", "open", "write", "stat"} => req[s].ask.op = "put"
          /\ req[s].pc \in {"exists?", "remove"} => req[s].ask.op = "delete"
          /\ req[s].pc \in {"ls", "sizes"} => req[s].ask.op = "list"
          /\ req[s].pc \in {"tar", "stream", "read"} => req[s].ask.op = "get"
          /\ req[s].pc \in {"look", "fsize"} => req[s].ask.op \in {"get", "head"}
          /\ req[s].pc \notin Ends \cup {"create"} => req[s].user \in UserIds
      BY <2>1, OpOf
    <2>3. Entry(s) = names[Key(s)] /\ Entry(s)' = names'[Key(s)]
      BY <1>0 DEF Entry, Key
    <2>4. ASSUME req[s].pc \in {"open", "write", "stat", "fsize", "stream", "remove"}, Entry(s) # None
          PROVE  Entry(s)' = Entry(s) \/ Deleted(s)'
      <3>1. Key(s) \in UserIds \X Paths /\ Key(s)[1] = req[s].user
        BY <2>2, <2>4, AskFacts DEF Key, Ends
      <3> QED
        BY <1>2, <2>3, <2>4, <3>1, NameLost
    <2>5. req[s].pc # "create" /\ Deleted(s) => Deleted(s)'
      BY <1>2, DeletedStays
    <2>6. req[s].pc = "sizes" =>
            \A p \in req[s].seen : names'[<<req[s].user, p>>] # None \/ Deleted(s)'
      <3> SUFFICES ASSUME req[s].pc = "sizes", NEW p \in req[s].seen, ~Deleted(s)'
                   PROVE  names'[<<req[s].user, p>>] # None
        OBVIOUS
      <3>1. PICK e : e = <<req[s].user, p>>
        OBVIOUS
      <3>2. e \in UserIds \X Paths /\ e[1] = req[s].user
        BY <2>1, <2>2, <3>1 DEF Ends, ReqStates
      <3>3. names[e] # None
        BY <2>5, <3>1 DEF CauseOf
      <3>4. names'[e] = names[e]
        BY <1>2, <2>2, <3>2, <3>3, NameLost
      <3> QED
        BY <3>1, <3>3, <3>4
    <2>7. req[s].pc \in {"mkdir", "makedirs"} => ParentEntry(s)' = None \/ Made(s)'
      <3> SUFFICES ASSUME req[s].pc \in {"mkdir", "makedirs"}, ~Made(s)', ParentEntry(s)' # None PROVE FALSE
        OBVIOUS
      <3>1. PICK e : e = <<req[s].user, Parent(Target(req[s].ask))>>
        OBVIOUS
      <3>2. e \in UserIds \X Paths /\ e[2] = Parent(Target(req[s].ask))
        BY <2>2, <3>1, AskFacts DEF Ends
      <3>3. ParentEntry(s) = None
        BY <1>2, MadeStays DEF CauseOf
      <3>4. names[e] = None /\ names'[e] # None
        BY <1>0, <3>1, <3>3 DEF ParentEntry
      <3>5. /\ r \in Asked("put") /\ req[r] # Idle
            /\ \/ e[2] \in Along(Target(req[r].ask))
               \/ req[r].pc = "open" /\ e = Key(r)
        BY <3>2, <3>4, NameMoves
      <3>6. e[2] \in Along(Target(req[r].ask))
        <4>1. Target(req[r].ask) \in Along(Target(req[r].ask))
          BY <3>5, StepFacts, AskFacts DEF Asked
        <4> QED
          BY <3>5, <4>1 DEF Key
      <3>7. Crosses(r, s)' /\ req'[r].ask = req[r].ask
        BY <3>5, StepperCrosses, StepFacts
      <3>8. (r \in Asked("put"))'
        BY <3>5, <3>7 DEF Asked
      <3> QED
        BY <1>0, <3>2, <3>6, <3>7, <3>8 DEF Made
    <2>8. req[s].pc = "create" => (\A row \in users' : row[2] # req[s].ask.sub) \/ Joined(s)'
      <3> SUFFICES ASSUME req[s].pc = "create", ~Joined(s)', NEW row \in users', row[2] = req[s].ask.sub
                   PROVE  FALSE
        OBVIOUS
      <3>1. row \notin users
        BY <1>2, JoinedStays DEF CauseOf
      <3>2. /\ req[r].pc = "create" /\ users' = users \cup {<<NewId, req[r].ask.sub>>}
            /\ req'[r].user = NewId /\ req'[r].ask = req[r].ask
        BY <3>1, UsersMove DEF TypeInv
      <3>3. row = <<NewId, req[r].ask.sub>>
        BY <3>1, <3>2
      <3>4. req[r].ask.sub = req[s].ask.sub
        BY <3>3
      <3>5. Crosses(r, s)'
        BY <3>2, StepperCrosses DEF Idle
      <3>6. <<req'[r].user, req'[s].ask.sub>> \in users'
        BY <1>0, <3>2, <3>4
      <3> QED
        BY <1>0, <3>2, <3>4, <3>5, <3>6 DEF Joined
    <2>9. CauseOf(s)'
      <3>1. (\/ req[s].pc = "open" /\ req[s].file # None
             \/ req[s].pc \in {"write", "stat", "fsize", "stream"})
             => IsFile(Entry(s)') \/ Deleted(s)'
        BY <2>4, <2>5 DEF CauseOf, IsFile
      <3>2. req[s].pc = "remove" => Entry(s)' # None \/ Deleted(s)'
        BY <2>4, <2>5 DEF CauseOf
      <3>3. IsFile(Entry(s))' <=> IsFile(Entry(s)')
        BY DEF IsFile, Dir
      <3> QED
        BY <1>0, <2>6, <2>7, <2>8, <3>1, <3>2, <3>3 DEF CauseOf
    <2>10. FailOf(s)'
      BY <1>0, <1>2, <2>5, MadeStays, JoinedStays DEF FailOf
    <2> QED
      BY <2>9, <2>10
  <1> QED
    BY <1>1, <1>2

\* What To makes of a request.
LEMMA ToPc ==
  ASSUME TypeInv, NEW r \in Requests, NEW pc, To(r, pc)
  PROVE  req'[r].pc = pc /\ req'[r].file = req[r].file /\ req'[r].seen = req[r].seen
  <1>1. req[r] \in ReqStates /\ req \in [Requests -> ReqStates]
    BY DEF TypeInv, TypeOK
  <1>2. PICK x : x = [req[r] EXCEPT !.pc = pc]
    OBVIOUS
  <1>3. req'[r] = x
    BY <1>1, <1>2 DEF To
  <1> QED
    BY <1>1, <1>2, <1>3 DEF ReqStates

LEMMA FirstIs == ASSUME NEW a PROVE First(a) \in {"subdir", "receive", "exists?", "ls", "look"}
  BY DEF First

\* The first step of a request and the first of its user.
LEMMA BeginCause ==
  ASSUME TypeInv, NEW r \in Requests, Step(r), WithToken(r) \/ WithLink(r) \/ CreateUser(r),
         CauseOf(r)
  PROVE  CauseOf(r)' /\ FailOf(r)'
  <1>0. req \in [Requests -> ReqStates] /\ req[r] \in ReqStates
    BY DEF TypeInv, TypeOK
  <1>1. ASSUME req'[r].pc \in {"subdir", "receive", "exists?", "ls", "look", "denied"}
        PROVE  CauseOf(r)' /\ FailOf(r)'
    BY <1>1 DEF CauseOf, FailOf
  <1>2. ASSUME NEW a, NEW user, NEW pc, Begin(r, a, user, pc)
        PROVE  req'[r].pc = pc /\ req'[r].ask = a /\ UNCHANGED users
    BY <1>0, <1>2 DEF Begin, Idle
  <1>3. CASE WithToken(r)
    <2>1. PICK a \in Asks : \/ \E row \in users : Begin(r, a, row[1], First(a))
                            \/ (\A row \in users : row[2] # a.sub) /\ Begin(r, a, None, "create")
      BY <1>3 DEF WithToken
    <2>2. CASE \E row \in users : Begin(r, a, row[1], First(a))
      <3>1. req'[r].pc = First(a)
        BY <1>2, <2>2
      <3> QED
        BY <1>1, <3>1, FirstIs
    <2>3. CASE (\A row \in users : row[2] # a.sub) /\ Begin(r, a, None, "create")
      <3>1. req'[r].pc = "create" /\ \A row \in users' : row[2] # req'[r].ask.sub
        BY <1>2, <2>3
      <3> QED
        BY <3>1 DEF CauseOf, FailOf
    <2> QED
      BY <2>1, <2>2, <2>3
  <1>4. CASE WithLink(r)
    <2>1. PICK a, user, pc : Begin(r, a, user, pc) /\ (pc = "denied" \/ \E b : pc = First(b))
      BY <1>4 DEF WithLink
    <2>2. req'[r].pc = pc
      BY <1>2, <2>1
    <2> QED
      BY <1>1, <2>1, <2>2, FirstIs
  <1>5. CASE CreateUser(r)
    <2>1. req[r].pc = "create" /\ req[r] # Idle
      BY <1>5 DEF CreateUser, Idle
    <2>2. CASE \E row \in users : row[2] = req[r].ask.sub
      <3>1. req'[r].pc = "unique"
        BY <1>5, <2>2, ToPc DEF CreateUser
      <3>2. Joined(r)'
        BY <2>1, <2>2, JoinedStays DEF CauseOf
      <3> QED
        BY <3>1, <3>2 DEF CauseOf, FailOf
    <2>3. CASE ~ \E row \in users : row[2] = req[r].ask.sub
      <3>1. PICK x : x = [req[r] EXCEPT !.user = NewId, !.pc = First(req[r].ask)] /\ req' = [req EXCEPT ![r] = x]
        BY <1>5, <2>3 DEF CreateUser
      <3>2. req'[r].pc = First(req[r].ask)
        BY <1>0, <3>1 DEF ReqStates
      <3> QED
        BY <1>1, <3>2, FirstIs
    <2> QED
      BY <2>2, <2>3
  <1> QED
    BY <1>3, <1>4, <1>5

\* The step of a request that knows its user.
LEMMA OwnCause ==
  ASSUME TypeInv, NEW r \in Requests, Step(r), CauseOf(r)
  PROVE  CauseOf(r)' /\ FailOf(r)'
  <1>0. req \in [Requests -> ReqStates] /\ req[r] \in ReqStates
    BY DEF TypeInv, TypeOK
  <1>1. CASE WithToken(r) \/ WithLink(r) \/ CreateUser(r)
    BY <1>1, BeginCause
  <1>2. ASSUME req[r].pc \notin Ends \cup {"idle", "create"}
        PROVE  /\ req[r] # Idle /\ Stage(req[r])
               /\ req'[r].user = req[r].user /\ req'[r].ask = req[r].ask
               /\ Deleted(r) => Deleted(r)'
               /\ Made(r) => Made(r)'
               /\ UNCHANGED names => Entry(r)' = Entry(r) /\ ParentEntry(r)' = ParentEntry(r)
    <2>1. req[r] # Idle /\ req[r].pc # "create"
      BY <1>2 DEF Idle
    <2>2. Stage(req[r]) /\ req'[r].user = req[r].user /\ req'[r].ask = req[r].ask
      BY <2>1, StepFacts
    <2> QED
      BY <2>1, <2>2, DeletedStays, MadeStays DEF Entry, ParentEntry
  <1>3. CASE SubDir(r)
    <2>1. req[r].pc = "subdir" /\ UNCHANGED names
      BY <1>3 DEF SubDir, disk
    <2>2. \/ req'[r].pc = "receive"
          \/ req'[r].pc = "mkdir" /\ ParentEntry(r) = None
      BY <1>3, ToPc DEF SubDir
    <2> QED
      BY <1>2, <2>1, <2>2 DEF CauseOf, FailOf, Ends
  <1>4. CASE MkDir(r)
    <2>1. req[r].pc = "mkdir" /\ UNCHANGED names
      BY <1>4 DEF MkDir, disk
    <2>2. \/ req'[r].pc = "makedirs" /\ ParentEntry(r) = None
          \/ req'[r].pc = "exists" /\ ParentEntry(r) # None
      BY <1>4, ToPc DEF MkDir
    <2>3. Made(r) => Made(r)'
      BY <1>2, <2>1 DEF Ends
    <2>4. ParentEntry(r)' = ParentEntry(r)
      BY <1>2, <2>1 DEF Ends
    <2> QED
      BY <2>1, <2>2, <2>3, <2>4 DEF CauseOf, FailOf
  <1>25. CASE MakeDirs(r)
    <2>1. req[r].pc = "makedirs"
      BY <1>25 DEF MakeDirs
    <2>2. /\ Stage(req[r]) /\ req'[r].user = req[r].user /\ req'[r].ask = req[r].ask
          /\ Made(r) => Made(r)'
      BY <1>2, <2>1 DEF Ends
    <2>3. req[r].ask \in AskSet /\ req[r].ask.op = "put" /\ req[r].user \in UserIds
      BY <1>0, <2>1, <2>2, OpOf DEF Stage, Ends
    <2>4. CASE To(r, "exists") /\ ParentEntry(r) # None
      <3>1. req'[r].pc = "exists"
        BY <2>4, ToPc
      <3> QED
        BY <2>1, <2>2, <2>4, <3>1 DEF CauseOf, FailOf
    <2>5. CASE To(r, "receive") \/ To(r, "dir")
      <3>1. req'[r].pc \in {"receive", "dir"}
        BY <2>5, ToPc
      <3> QED
        BY <3>1 DEF CauseOf, FailOf
    <2>6. CASE To(r, "makedirs") /\ names'[<<req[r].user, Parent(Target(req[r].ask))>>] = ParentEntry(r)
      <3>1. req'[r].pc = "makedirs"
        BY <2>6, ToPc
      <3>2. ParentEntry(r)' = ParentEntry(r)
        BY <2>2, <2>6 DEF ParentEntry
      <3> QED
        BY <2>1, <2>2, <3>1, <3>2 DEF CauseOf, FailOf
    <2> QED
      BY <1>25, <2>3, <2>4, <2>5, <2>6, DirsMade DEF TypeInv
  <1>5. CASE Receive(r)
    <2>1. req[r].pc = "receive" /\ (To(r, "open") \/ To(r, "client"))
      BY <1>5 DEF Receive
    <2>2. req[r].file = None
      <3>1. Stage(req[r])
        BY <1>2, <2>1 DEF Ends
      <3>2. req[r].ask.op = "put"
        BY <1>0, <2>1, <3>1, OpOf DEF Stage
      <3> QED
        BY <2>1, <3>1, <3>2 DEF Stage, PutOf
    <2>3. req'[r].pc \in {"open", "client"} /\ req'[r].file = None
      BY <2>1, <2>2, ToPc
    <2> QED
      BY <2>3 DEF CauseOf, FailOf
  <1>6. CASE Open(r)
    <2>1. req[r].pc = "open"
      BY <1>6 DEF Open
    <2>2. CASE To(r, "dir")
      <3>1. req'[r].pc = "dir"
        BY <2>2, ToPc
      <3> QED
        BY <3>1 DEF CauseOf, FailOf
    <2>3. ASSUME NEW f, IsFile(f), Entry(r)' = f, req' = [req EXCEPT ![r].file = f, ![r].pc = "write", ![r].size = 0]
          PROVE  CauseOf(r)' /\ FailOf(r)'
      <3>1. PICK x : x = [req[r] EXCEPT !.file = f, !.pc = "write", !.size = 0] /\ req' = [req EXCEPT ![r] = x]
        BY <2>3
      <3>2. req'[r].pc = "write"
        BY <1>0, <3>1 DEF ReqStates
      <3>3. IsFile(Entry(r))'
        BY <2>3 DEF IsFile, Dir
      <3> QED
        BY <3>2, <3>3 DEF CauseOf, FailOf
    <2>4. CASE /\ IsFile(Entry(r)) /\ UNCHANGED names
               /\ req' = [req EXCEPT ![r].file = Entry(r), ![r].pc = "write", ![r].size = 0]
      <3>1. PICK f : f = Entry(r)
        OBVIOUS
      <3>2. Entry(r)' = f
        BY <1>2, <2>1, <2>4, <3>1 DEF Ends
      <3> QED
        BY <2>3, <2>4, <3>1, <3>2
    <2>5. CASE /\ names' = [names EXCEPT ![<<req[r].user, Target(req[r].ask)>>] = Len(files) + 1]
               /\ req' = [req EXCEPT ![r].file = Len(files) + 1, ![r].pc = "write", ![r].size = 0]
      <3>1. PICK f : f = Len(files) + 1
        OBVIOUS
      <3>2. IsFile(f)
        <4>1. Len(files) \in Nat
          BY DEF TypeInv, TypeOK
        <4>2. f \in Nat /\ f # 0
          BY <3>1, <4>1
        <4> QED
          BY <4>2, NoneAssumption DEF IsFile, Dir
      <3>3. <<req[r].user, Target(req[r].ask)>> \in DOMAIN names
        <4>1. Stage(req[r])
          BY <1>2, <2>1 DEF Ends
        <4>2. req[r].ask \in AskSet /\ req[r].ask.op = "put" /\ req[r].user \in UserIds
          BY <1>0, <2>1, <4>1, OpOf DEF Stage, Ends
        <4> QED
          BY <4>2, AskFacts DEF TypeInv, TypeOK
      <3>4. Entry(r)' = f
        <4>1. Entry(r)' = names'[<<req[r].user, Target(req[r].ask)>>]
          BY <1>2, <2>1 DEF Ends, Entry
        <4> QED
          BY <2>5, <3>1, <3>3, <4>1
      <3> QED
        BY <2>3, <2>5, <3>1, <3>2, <3>4
    <2> QED
      BY <1>6, <2>2, <2>4, <2>5 DEF Open
  <1>7. ASSUME req[r].pc \in {"write", "stat", "fsize", "stream"}, UNCHANGED names
        PROVE  /\ IsFile(Entry(r)') \/ Deleted(r)'
               /\ IsFile(Entry(r))' <=> IsFile(Entry(r)')
               /\ ~IsFile(Entry(r)) => Deleted(r)'
    BY <1>2, <1>7 DEF CauseOf, Ends, IsFile, Dir
  <1>8. CASE Write(r) \/ Written(r)
    <2>1. req[r].pc = "write" /\ UNCHANGED names
      BY <1>8 DEF Write, Written, disk
    <2>2. req'[r].pc \in {"write", "disk", "text", "open", "stat"}
      <3>1. CASE \E pc \in {"disk", "text", "stat"} : To(r, pc)
        BY <3>1, ToPc
      <3>2. CASE req' = [req EXCEPT ![r].size = req[r].size + 1]
        <4>1. PICK x : x = [req[r] EXCEPT !.size = req[r].size + 1] /\ req' = [req EXCEPT ![r] = x]
          BY <3>2
        <4> QED
          BY <1>0, <2>1, <4>1 DEF ReqStates
      <3>3. CASE req' = [req EXCEPT ![r].part = req[r].part + 1, ![r].pc = "open"]
        <4>1. PICK x : x = [req[r] EXCEPT !.part = req[r].part + 1, !.pc = "open"] /\ req' = [req EXCEPT ![r] = x]
          BY <3>3
        <4> QED
          BY <1>0, <4>1 DEF ReqStates
      <3> QED
        BY <1>8, <3>1, <3>2, <3>3 DEF Write, Written, To
    <2> QED
      BY <1>7, <2>1, <2>2 DEF CauseOf, FailOf
  <1>9. CASE Stat(r)
    <2>1. req[r].pc = "stat" /\ UNCHANGED names
      BY <1>9 DEF Stat, disk
    <2>2. CASE Entry(r) # None
      <3>1. PICK x : /\ x = [req[r] EXCEPT !.size = SizeOf(Entry(r)), !.pc = "ok"]
                     /\ req' = [req EXCEPT ![r] = x]
        BY <1>9, <2>2 DEF Stat
      <3>2. req'[r].pc = "ok"
        BY <1>0, <3>1 DEF ReqStates
      <3> QED
        BY <3>2 DEF CauseOf, FailOf
    <2>3. CASE Entry(r) = None
      <3>1. req'[r].pc = "gone"
        BY <1>9, <2>3, ToPc DEF Stat
      <3> QED
        BY <1>7, <2>1, <2>3, <3>1 DEF CauseOf, FailOf, IsFile
    <2> QED
      BY <2>2, <2>3
  <1>10. CASE Exists(r)
    <2>1. req[r].pc = "exists?" /\ UNCHANGED names
      BY <1>10 DEF Exists, disk
    <2>2. \/ req'[r].pc = "missing"
          \/ req'[r].pc = "remove" /\ Entry(r) # None
      BY <1>10, ToPc DEF Exists
    <2> QED
      BY <1>2, <2>1, <2>2 DEF CauseOf, FailOf, Ends
  <1>11. CASE Remove(r)
    <2>1. req[r].pc = "remove"
      BY <1>11 DEF Remove
    <2>2. \/ req'[r].pc \in {"ok", "dir"}
          \/ req'[r].pc = "gone" /\ Entry(r) = None
      <3>1. \/ To(r, "ok") \/ To(r, "dir")
            \/ To(r, "gone") /\ Entry(r) = None
        BY <1>11 DEF Remove, IsFile
      <3> QED
        BY <3>1, ToPc
    <2>3. Deleted(r) => Deleted(r)'
      BY <1>2, <2>1 DEF Ends
    <2> QED
      BY <2>1, <2>2, <2>3 DEF CauseOf, FailOf
  <1>12. CASE Ls(r)
    <2>1. req[r].pc = "ls" /\ UNCHANGED names
      BY <1>12 DEF Ls, disk
    <2>2. PICK x : x = [req[r] EXCEPT !.seen = InFILES(req[r].user), !.pc = "sizes"] /\ req' = [req EXCEPT ![r] = x]
      BY <1>12 DEF Ls
    <2>3. req'[r].pc = "sizes" /\ req'[r].seen = InFILES(req[r].user) /\ req'[r].user = req[r].user
      BY <1>0, <2>2 DEF ReqStates
    <2> QED
      BY <2>1, <2>3 DEF CauseOf, FailOf, InFILES
  <1>13. CASE Size(r)
    <2>1. req[r].pc = "sizes" /\ UNCHANGED names
      BY <1>13 DEF Size, disk
    <2>2. Deleted(r) => Deleted(r)'
      BY <1>2, <2>1 DEF Ends
    <2>3. CASE To(r, "ok")
      <3>1. req'[r].pc = "ok"
        BY <2>3, ToPc
      <3> QED
        BY <3>1 DEF CauseOf, FailOf
    <2>4. CASE \E p \in req[r].seen : names[<<req[r].user, p>>] = None /\ To(r, "gone")
      <3>1. req'[r].pc = "gone" /\ Deleted(r)
        BY <2>1, <2>4, ToPc DEF CauseOf
      <3> QED
        BY <2>2, <3>1 DEF CauseOf, FailOf
    <2>5. CASE \E p \in req[r].seen : req' = [req EXCEPT ![r].seen = req[r].seen \ {p}]
      <3>1. PICK p \in req[r].seen : req' = [req EXCEPT ![r].seen = req[r].seen \ {p}]
        BY <2>5
      <3>2. PICK x : x = [req[r] EXCEPT !.seen = req[r].seen \ {p}] /\ req' = [req EXCEPT ![r] = x]
        BY <3>1
      <3>3. req'[r].pc = "sizes" /\ req'[r].seen \subseteq req[r].seen /\ req'[r].user = req[r].user
        BY <1>0, <2>1, <3>2 DEF ReqStates
      <3>4. \A e \in req'[r].seen : names'[<<req'[r].user, e>>] # None \/ Deleted(r)'
        BY <2>1, <2>2, <3>3 DEF CauseOf
      <3> QED
        BY <3>3, <3>4 DEF CauseOf, FailOf
    <2> QED
      BY <1>13, <2>3, <2>4, <2>5 DEF Size
  <1>14. CASE Look(r)
    <2>1. req[r].pc = "look" /\ UNCHANGED names
      BY <1>14 DEF Look, disk
    <2>2. \/ req'[r].pc \in {"ok", "tar"}
          \/ req'[r].pc = "fsize" /\ IsFile(Entry(r))
      BY <1>14, ToPc DEF Look
    <2>3. IsFile(Entry(r))' <=> IsFile(Entry(r))
      BY <1>2, <2>1 DEF Ends, IsFile, Dir
    <2> QED
      BY <2>1, <2>2, <2>3 DEF CauseOf, FailOf
  <1>15. CASE Tar(r)
    <2>1. req'[r].pc \in {"ok", "nofile"}
      BY <1>15, ToPc DEF Tar
    <2> QED
      BY <2>1 DEF CauseOf, FailOf
  <1>16. CASE FSize(r)
    <2>1. req[r].pc = "fsize" /\ UNCHANGED names
      BY <1>16 DEF FSize, disk
    <2>2. \/ ~IsFile(Entry(r)) /\ To(r, "gone")
          \/ \E pc \in {"ok", "range", "refused"} : To(r, pc)
          \/ req' = [req EXCEPT ![r].size = SizeOf(Entry(r)), ![r].pc = "stream"]
      BY <1>16 DEF FSize, IsFile
    <2>3. CASE ~IsFile(Entry(r)) /\ To(r, "gone")
      <3>1. req'[r].pc = "gone"
        BY <2>3, ToPc
      <3> QED
        BY <1>7, <2>1, <2>3, <3>1 DEF CauseOf, FailOf
    <2>4. CASE \E pc \in {"ok", "range", "refused"} : To(r, pc)
      <3>1. req'[r].pc \in {"ok", "range", "refused"}
        BY <2>4, ToPc
      <3> QED
        BY <3>1 DEF CauseOf, FailOf
    <2>5. CASE req' = [req EXCEPT ![r].size = SizeOf(Entry(r)), ![r].pc = "stream"]
      <3>1. PICK x : x = [req[r] EXCEPT !.size = SizeOf(Entry(r)), !.pc = "stream"] /\ req' = [req EXCEPT ![r] = x]
        BY <2>5
      <3>2. req'[r].pc = "stream"
        BY <1>0, <3>1 DEF ReqStates
      <3> QED
        BY <1>7, <2>1, <3>2 DEF CauseOf, FailOf
    <2> QED
      BY <2>2, <2>3, <2>4, <2>5
  <1>17. CASE Stream(r)
    <2>1. req[r].pc = "stream" /\ UNCHANGED names
      BY <1>17 DEF Stream, disk
    <2>2. CASE IsFile(Entry(r))
      <3>1. PICK x : x = [req[r] EXCEPT !.file = Entry(r), !.pc = "read"] /\ req' = [req EXCEPT ![r] = x]
        BY <1>17, <2>2 DEF Stream
      <3>2. req'[r].pc = "read"
        BY <1>0, <3>1 DEF ReqStates
      <3> QED
        BY <3>2 DEF CauseOf, FailOf
    <2>3. CASE ~IsFile(Entry(r))
      <3>1. req'[r].pc = "gone"
        BY <1>17, <2>3, ToPc DEF Stream
      <3> QED
        BY <1>7, <2>1, <2>3, <3>1 DEF CauseOf, FailOf
    <2> QED
      BY <2>2, <2>3
  <1>18. CASE ReadRange(r) \/ ReadChunks(r)
    <2>1. req[r].pc = "read"
      BY <1>18 DEF ReadRange, ReadChunks
    <2>2. PICK b : \/ req' = [req EXCEPT ![r].pc = "ok", ![r].body = b]
                   \/ req' = [req EXCEPT ![r].pc = "ok"]
                   \/ req' = [req EXCEPT ![r].body = b]
      BY <1>18 DEF ReadRange, ReadChunks
    <2>3. PICK x : /\ \/ x = [req[r] EXCEPT !.pc = "ok", !.body = b]
                      \/ x = [req[r] EXCEPT !.pc = "ok"]
                      \/ x = [req[r] EXCEPT !.body = b]
                   /\ req' = [req EXCEPT ![r] = x]
      BY <2>2
    <2>4. req'[r].pc \in {"ok", "read"}
      BY <1>0, <2>1, <2>3 DEF ReqStates
    <2> QED
      BY <2>4 DEF CauseOf, FailOf
  <1> QED
    BY <1>1, <1>3, <1>4, <1>5, <1>6, <1>8, <1>9, <1>10, <1>11, <1>12, <1>13, <1>14, <1>15, <1>16,
       <1>17, <1>18, <1>25 DEF Step

\* A step keeps that failures have causes.
LEMMA CauseStep ==
  ASSUME TypeInv, AfterInv, CauseInv, FailsHaveCause, [Next]_vars
  PROVE  CauseInv' /\ FailsHaveCause'
  <1>1. CASE UNCHANGED vars
    BY <1>1 DEF vars, CauseInv, CauseOf, FailsHaveCause, Deleted, Made, Joined, Crosses, Asked, Key,
                Entry, ParentEntry, IsFile
  <1>2. ASSUME NEW r \in Requests, Step(r) PROVE CauseInv' /\ FailsHaveCause'
    <2>1. \A s \in Requests : CauseOf(s) /\ FailOf(s)
      BY FailsAre DEF CauseInv
    <2>2. \A s \in Requests \ {r} : CauseOf(s)' /\ FailOf(s)'
      BY <1>2, <2>1, OthersCause
    <2>3. CauseOf(r)' /\ FailOf(r)'
      BY <1>2, <2>1, OwnCause
    <2>4. \A s \in Requests : CauseOf(s)' /\ FailOf(s)'
      BY <2>2, <2>3
    <2>5. CauseInv'
      BY <2>4 DEF CauseInv
    <2>6. FailsHaveCause'
      BY <2>4 DEF FailsHaveCause, FailOf, Deleted, Made, Joined, Crosses, Asked
    <2> QED
      BY <2>5, <2>6
  <1> QED
    BY <1>1, <1>2 DEF Next

-----------------------------------------------------------------------------
(* What an upload has written *)

\* A request begins with its first step, or with the row of its user.
LEMMA BeginPc ==
  ASSUME TypeInv, NEW r \in Requests, Step(r), req[r].pc \in {"idle", "create"}
  PROVE  /\ req'[r].pc \in {"create", "denied", "unique", "subdir", "receive", "exists?", "ls", "look"}
         /\ UNCHANGED disk
         /\ req[r].pc = "create" => req'[r].file = req[r].file
         /\ req[r].pc = "idle" => req[r] = Idle
  <1>0. req \in [Requests -> ReqStates] /\ req[r] \in ReqStates
    BY DEF TypeInv, TypeOK
  <1>1. CASE WithToken(r) \/ WithLink(r)
    <2>1. PICK a, user, pc : Begin(r, a, user, pc) /\ (pc \in {"create", "denied"} \/ \E b : pc = First(b))
      BY <1>1 DEF WithToken, WithLink
    <2>2. req'[r].pc = pc /\ UNCHANGED disk /\ req[r] = Idle
      BY <1>0, <2>1 DEF Begin, Idle
    <2> QED
      BY <2>1, <2>2, FirstIs DEF Idle
  <1>2. CASE CreateUser(r)
    <2>1. req[r].pc = "create" /\ UNCHANGED disk
      BY <1>2 DEF CreateUser
    <2>2. CASE To(r, "unique")
      BY <2>1, <2>2, ToPc
    <2>3. CASE req' = [req EXCEPT ![r].user = NewId, ![r].pc = First(req[r].ask)]
      <3>1. PICK x : x = [req[r] EXCEPT !.user = NewId, !.pc = First(req[r].ask)] /\ req' = [req EXCEPT ![r] = x]
        BY <2>3
      <3>2. req'[r].pc = First(req[r].ask) /\ req'[r].file = req[r].file
        BY <1>0, <3>1 DEF ReqStates
      <3> QED
        BY <2>1, <3>2, FirstIs
    <2> QED
      BY <1>2, <2>2, <2>3 DEF CreateUser
  <1> QED
    BY <1>1, <1>2 DEF Step, SubDir, MkDir, MakeDirs, Receive, Open, Write, Written, Stat,
           Exists, Remove, Ls, Size, Look, Tar, FSize, Stream, ReadRange, ReadChunks

\* What a step of an upload does to its file: nothing, opening one that is there or a new
\* one, writing a byte, being through with the last part, or telling the size.
Opened(r) ==
  /\ req[r].pc = "open" /\ IsFile(Entry(r)) /\ UNCHANGED names
  /\ files' = [files EXCEPT ![Entry(r)] = <<>>]
  /\ req'[r].pc = "write" /\ req'[r].file = Entry(r) /\ req'[r].size = 0
MadeNew(r) ==
  /\ req[r].pc = "open" /\ Entry(r) = None
  /\ files' = Append(files, <<>>) /\ names' = [names EXCEPT ![Key(r)] = Len(files) + 1]
  /\ req'[r].pc = "write" /\ req'[r].file = Len(files) + 1 /\ req'[r].size = 0
WroteByte(r) ==
  /\ req[r].pc = "write" /\ Part(r) # None /\ req[r].size < Part(r) /\ UNCHANGED names
  /\ files' = [files EXCEPT ![req[r].file] =
                 WriteAt(@, req[r].size + 1, [by |-> r, part |-> req[r].part, at |-> req[r].size])]
  /\ req'[r].pc = "write" /\ req'[r].size = req[r].size + 1
  /\ req'[r].file = req[r].file /\ req'[r].part = req[r].part
WroteAll(r) ==
  /\ req[r].pc = "write" /\ Part(r) # None /\ req[r].size = Part(r) /\ UNCHANGED disk
  /\ req[r].part = Len(req[r].ask.parts)
  /\ req'[r].pc = "stat" /\ req'[r].file = req[r].file
ToldSize(r) ==
  /\ req[r].pc = "stat" /\ UNCHANGED disk
  /\ req'[r].pc = "ok" /\ req'[r].file = req[r].file /\ req'[r].size = SizeOf(Entry(r))

LEMMA PutMoves ==
  ASSUME TypeInv, NEW r \in Requests, Step(r), req'[r].ask.op = "put"
  PROVE  \/ /\ req'[r].file = req[r].file /\ req'[r].pc \notin {"write", "stat", "ok"}
            /\ UNCHANGED files /\ (req[r].pc = "makedirs" \/ UNCHANGED names)
         \/ Opened(r) \/ MadeNew(r) \/ WroteByte(r) \/ WroteAll(r) \/ ToldSize(r)
  <1> DEFINE p == req[r]
             Nothing == /\ req'[r].file = req[r].file /\ req'[r].pc \notin {"write", "stat", "ok"}
                        /\ UNCHANGED files /\ (p.pc = "makedirs" \/ UNCHANGED names)
  <1>0. req \in [Requests -> ReqStates] /\ p \in ReqStates
    BY DEF TypeInv, TypeOK
  <1>1. CASE p.pc \in {"idle", "create"}
    <2>1. req'[r].file = p.file
      <3>1. CASE p = Idle
        <4>1. p.file = None
          BY <3>1 DEF Idle
        <4> QED
          BY <3>1, <4>1, StepFacts
      <3>2. CASE p # Idle
        BY <1>1, <3>2, BeginPc
      <3> QED
        BY <3>1, <3>2
    <2> QED
      BY <1>1, <2>1, BeginPc DEF disk
  <1>2. ASSUME p.pc \notin {"idle", "create"}
        PROVE  Stage(p) /\ p.ask \in AskSet /\ p.ask.op = "put" /\ p # Idle
    <2>1. p # Idle
      BY <1>2 DEF Idle
    <2> QED
      BY <2>1, StepFacts
  <1>3. ASSUME NEW pc, To(r, pc), pc \notin {"write", "stat", "ok"}, UNCHANGED files,
               p.pc = "makedirs" \/ UNCHANGED names
        PROVE  Nothing
    BY <1>3, ToPc
  <1>4. CASE SubDir(r) \/ MkDir(r) \/ MakeDirs(r) \/ Receive(r)
    <2>1. \E pc \in {"mkdir", "makedirs", "receive", "exists", "dir", "open", "client"} : To(r, pc)
      <3>1. CASE MakeDirs(r)
        <4>1. p.pc = "makedirs"
          BY <3>1 DEF MakeDirs
        <4> QED
          BY <1>2, <3>1, <4>1, DirsMade DEF TypeInv
      <3>2. CASE ~MakeDirs(r)
        BY <1>4, <3>2 DEF SubDir, MkDir, Receive
      <3> QED
        BY <3>1, <3>2
    <2>2. UNCHANGED files /\ (p.pc = "makedirs" \/ UNCHANGED names)
      BY <1>4 DEF SubDir, MkDir, MakeDirs, Receive, disk
    <2> QED
      BY <1>3, <2>1, <2>2
  <1>5. CASE Open(r)
    <2>1. p.pc = "open"
      BY <1>5 DEF Open
    <2>2. CASE To(r, "dir") /\ UNCHANGED disk
      BY <1>3, <2>2 DEF disk
    <2>3. ASSUME NEW f, req' = [req EXCEPT ![r].file = f, ![r].pc = "write", ![r].size = 0]
          PROVE  req'[r].pc = "write" /\ req'[r].file = f /\ req'[r].size = 0
      <3>1. PICK x : x = [p EXCEPT !.file = f, !.pc = "write", !.size = 0] /\ req' = [req EXCEPT ![r] = x]
        BY <2>3
      <3> QED
        BY <1>0, <3>1 DEF ReqStates
    <2>4. CASE /\ IsFile(Entry(r)) /\ files' = [files EXCEPT ![Entry(r)] = <<>>] /\ UNCHANGED names
               /\ req' = [req EXCEPT ![r].file = Entry(r), ![r].pc = "write", ![r].size = 0]
      <3>1. PICK f : f = Entry(r)
        OBVIOUS
      <3>2. req'[r].pc = "write" /\ req'[r].file = f /\ req'[r].size = 0
        BY <2>3, <2>4, <3>1
      <3> QED
        BY <2>1, <2>4, <3>1, <3>2 DEF Opened
    <2>5. CASE /\ Entry(r) = None /\ files' = Append(files, <<>>)
               /\ names' = [names EXCEPT ![<<p.user, Target(p.ask)>>] = Len(files) + 1]
               /\ req' = [req EXCEPT ![r].file = Len(files) + 1, ![r].pc = "write", ![r].size = 0]
      <3>1. PICK f : f = Len(files) + 1
        OBVIOUS
      <3>2. req'[r].pc = "write" /\ req'[r].file = f /\ req'[r].size = 0
        BY <2>3, <2>5, <3>1
      <3> QED
        BY <2>1, <2>5, <3>1, <3>2 DEF MadeNew, Key
    <2> QED
      BY <1>5, <2>2, <2>4, <2>5 DEF Open
  <1>6. CASE Write(r)
    <2>1. p.pc = "write" /\ Part(r) # None /\ p.size < Part(r) /\ UNCHANGED names
      BY <1>6 DEF Write
    <2>2. CASE /\ files' = [files EXCEPT ![p.file] =
                              WriteAt(@, p.size + 1, [by |-> r, part |-> p.part, at |-> p.size])]
               /\ req' = [req EXCEPT ![r].size = p.size + 1]
      <3>1. PICK n : n = p.size + 1
        OBVIOUS
      <3>2. PICK x : x = [p EXCEPT !.size = n] /\ req' = [req EXCEPT ![r] = x]
        BY <2>2, <3>1
      <3>3. req'[r].pc = "write" /\ req'[r].size = n /\ req'[r].file = p.file /\ req'[r].part = p.part
        BY <1>0, <2>1, <3>2 DEF ReqStates
      <3> QED
        BY <2>1, <2>2, <3>1, <3>3 DEF WroteByte
    <2>3. CASE To(r, "disk") /\ UNCHANGED files
      BY <1>3, <2>1, <2>3
    <2> QED
      BY <1>6, <2>2, <2>3 DEF Write
  <1>7. CASE Written(r)
    <2>1. p.pc = "write" /\ UNCHANGED disk
      BY <1>7 DEF Written
    <2>2. CASE To(r, "text")
      BY <1>3, <2>1, <2>2 DEF disk
    <2>3. CASE req' = [req EXCEPT ![r].part = p.part + 1, ![r].pc = "open"]
      <3>1. PICK x : x = [p EXCEPT !.part = p.part + 1, !.pc = "open"] /\ req' = [req EXCEPT ![r] = x]
        BY <2>3
      <3>2. req'[r].pc = "open" /\ req'[r].file = p.file
        BY <1>0, <3>1 DEF ReqStates
      <3> QED
        BY <2>1, <3>2 DEF disk
    <2>4. CASE /\ Part(r) # None /\ p.size = Part(r) /\ ~(p.part < Len(p.ask.parts))
               /\ req' = [req EXCEPT ![r].pc = "stat"]
      <3>1. To(r, "stat")
        BY <2>4 DEF To
      <3>2. p.part \in DOMAIN p.ask.parts /\ p.ask.parts \in Seq(Nat \cup {None})
        BY <1>2, <2>1, AskFacts DEF Stage, PutOf, AskTypes
      <3>3. p.part = Len(p.ask.parts)
        BY <2>4, <3>2
      <3> QED
        BY <2>1, <2>4, <3>1, <3>3, ToPc DEF WroteAll
    <2> QED
      BY <1>7, <2>2, <2>3, <2>4 DEF Written
  <1>8. CASE Stat(r)
    <2>1. p.pc = "stat" /\ UNCHANGED disk
      BY <1>8 DEF Stat
    <2>2. CASE To(r, "gone")
      BY <1>3, <2>1, <2>2 DEF disk
    <2>3. CASE req' = [req EXCEPT ![r].size = SizeOf(Entry(r)), ![r].pc = "ok"]
      <3>1. PICK n : n = SizeOf(Entry(r))
        OBVIOUS
      <3>2. PICK x : x = [p EXCEPT !.size = n, !.pc = "ok"] /\ req' = [req EXCEPT ![r] = x]
        BY <2>3, <3>1
      <3>3. req'[r].pc = "ok" /\ req'[r].size = n /\ req'[r].file = p.file
        BY <1>0, <3>2 DEF ReqStates
      <3> QED
        BY <2>1, <3>1, <3>3 DEF ToldSize
    <2> QED
      BY <1>8, <2>2, <2>3 DEF Stat
  <1>9. CASE \/ Exists(r) \/ Remove(r) \/ Ls(r) \/ Size(r) \/ Look(r) \/ Tar(r) \/ FSize(r)
             \/ Stream(r) \/ ReadRange(r) \/ ReadChunks(r)
    <2>1. p.pc \in {"exists?", "remove", "ls", "sizes", "look", "tar", "fsize", "stream", "read"}
      BY <1>9 DEF Exists, Remove, Ls, Size, Look, Tar, FSize, Stream, ReadRange, ReadChunks
    <2> QED
      BY <1>2, <2>1 DEF Stage, StageOf, Ends
  <1>10. CASE WithToken(r) \/ WithLink(r) \/ CreateUser(r)
    <2>1. p = Idle \/ p.pc = "create"
      BY <1>10 DEF WithToken, WithLink, Begin, CreateUser
    <2>2. p = Idle => p.pc = "idle"
      BY DEF Idle
    <2> QED
      BY <1>1, <2>1, <2>2
  <1> QED
    BY <1>4, <1>5, <1>6, <1>7, <1>8, <1>9, <1>10 DEF Step

\* Only uploads change files, and what they have opened they keep open.
LEMMA OnlyPuts ==
  ASSUME TypeInv, NEW r \in Requests, Step(r)
  PROVE  /\ req'[r].ask # None /\ req'[r].ask.op # "put" => UNCHANGED files
         /\ req[r].file # None => req'[r].file # None
  <1>0. TypeOK /\ StageInv /\ req[r] \in ReqStates
    BY DEF TypeInv, TypeOK
  <1>1. ASSUME UNCHANGED files \/ Open(r) \/ Write(r), req'[r].ask.op # "put" PROVE UNCHANGED files
    <2>1. CASE Open(r) \/ Write(r)
      <3>1. req[r].pc \in {"open", "write"} /\ req[r] # Idle
        BY <2>1 DEF Open, Write, Idle
      <3>2. StageOf(req[r]) /\ req'[r].ask = req[r].ask
        BY <3>1, StepFacts DEF Stage
      <3> QED
        BY <1>0, <1>1, <3>1, <3>2, OpOf
    <2> QED
      BY <1>1, <2>1
  <1>2. UNCHANGED files \/ Open(r) \/ Write(r)
    BY DiskMoves DEF disk, MakeDirs, Remove
  <1>3. ASSUME req[r].file # None PROVE req'[r].file # None
    <2>1. req[r] # Idle
      BY <1>3 DEF Idle
    <2>2. /\ Stage(req[r]) /\ Stage(req'[r]) /\ req'[r].ask = req[r].ask /\ req[r].ask \in AskSet
          /\ req'[r].file \in Nat \cup {None}
      BY <2>1, StepFacts DEF ReqStates
    <2>3. CASE req[r].ask.op = "put"
      <3>1. IsFile(Entry(r)) => Entry(r) # None
        BY DEF IsFile
      <3>2. Len(files) + 1 # None
        <4>1. Len(files) + 1 \in Nat
          BY <1>0 DEF TypeOK
        <4> QED
          BY <4>1, NoneAssumption
      <3> QED
        BY <1>3, <2>2, <2>3, <3>1, <3>2, PutMoves DEF Opened, MadeNew, WroteByte, WroteAll, ToldSize
    <2>4. CASE req[r].ask.op # "put"
      <3>1. req[r].ask.op = "get"
        BY <1>3, <2>2, <2>4, AskFacts DEF Stage, AskTypes
      <3>2. req[r].pc = "read"
        BY <1>3, <2>2, <3>1, StepFacts DEF Stage, StageOf, GetOf
      <3>3. ReadRange(r) \/ ReadChunks(r)
        <4>1. ~WithToken(r) /\ ~WithLink(r)
          BY <2>1 DEF WithToken, WithLink, Begin
        <4> QED
          BY <3>2, <4>1 DEF Step, CreateUser, SubDir, MkDir, MakeDirs, Receive, Open, Write,
                 Written, Stat, Exists, Remove, Ls, Size, Look, Tar, FSize, Stream
      <3>4. PICK b, x : /\ \/ x = [req[r] EXCEPT !.pc = "ok", !.body = b]
                           \/ x = [req[r] EXCEPT !.pc = "ok"]
                           \/ x = [req[r] EXCEPT !.body = b]
                        /\ req' = [req EXCEPT ![r] = x]
        BY <3>3 DEF ReadRange, ReadChunks
      <3>5. req'[r].file = req[r].file
        BY <1>0, <3>4 DEF TypeOK, ReqStates
      <3> QED
        BY <1>3, <3>5
    <2> QED
      BY <2>3, <2>4
  <1> QED
    BY <1>1, <1>2, <1>3

\* A name that leads to a file did so before, or an upload has made file and name.
LEMMA NewName ==
  ASSUME TypeInv, NEW r \in Requests, Step(r), NEW e \in UserIds \X Paths, IsFile(names'[e])
  PROVE  names'[e] = names[e] \/ (MadeNew(r) /\ e = Key(r))
  <1> SUFFICES ASSUME names'[e] # names[e] PROVE MadeNew(r) /\ e = Key(r)
    OBVIOUS
  <1>1. /\ r \in Asked("put") /\ req[r] # Idle /\ req[r].pc = "open" /\ e = Key(r)
    BY NameMoves DEF IsFile
  <1>2. req'[r].ask.op = "put"
    BY <1>1, StepFacts DEF Asked
  <1> QED
    BY <1>1, <1>2, PutMoves DEF Opened, WroteByte, WroteAll, ToldSize, disk

\* The file of an upload is the one that it had, the one that it has opened or a new one.
LEMMA FileOf ==
  ASSUME TypeInv, NEW r \in Requests, Step(r), NEW q \in Requests, req'[q].ask # None,
         req'[q].ask.op = "put", req'[q].file # None
  PROVE  /\ q \in Asked("put") /\ Key(q)' = Key(q)
         /\ \/ req[q].file = req'[q].file
            \/ q = r /\ Opened(r)
            \/ q = r /\ MadeNew(r)
  <1>1. CASE q # r
    BY <1>1, StepFacts DEF Asked, Key
  <1>2. CASE q = r
    <2>1. req[r] # Idle
      BY <1>2, StepFacts
    <2>2. Stage(req[r]) /\ req'[r].ask = req[r].ask /\ req[r].ask # None
      BY <1>2, <2>1, StepFacts
    <2>3. \/ req[q].file = req'[q].file
          \/ Opened(r) \/ MadeNew(r)
      BY <1>2, PutMoves DEF WroteByte, WroteAll, ToldSize
    <2>4. req[r].pc # "create"
      <3>1. req[r].pc = "create" => req[r].file = None
        BY <1>2, <2>2 DEF Stage, PutOf
      <3> QED
        BY <1>2, <2>3, <3>1 DEF Opened, MadeNew
    <2>5. req'[r].user = req[r].user
      BY <2>1, <2>4, StepFacts
    <2> QED
      BY <1>2, <2>2, <2>3, <2>5 DEF Asked, Key
  <1> QED
    BY <1>1, <1>2

\* A step keeps that a file belongs to one name.
LEMMA FilesStep ==
  ASSUME TypeInv, FilesInv, [Next]_vars
  PROVE  FilesInv'
  <1>1. CASE UNCHANGED vars
    BY <1>1 DEF vars, FilesInv, Asked, Key, IsFile
  <1>2. ASSUME NEW r \in Requests, Step(r) PROVE FilesInv'
    <2>0. /\ files \in Seq(Content) /\ Len(files) \in Nat /\ DOMAIN files = 1 .. Len(files)
          /\ names \in [UserIds \X Paths -> {None, Dir} \cup DOMAIN files]
          /\ \A q \in Requests : req[q].file = None \/ req[q].file \in DOMAIN files
          /\ Dir \notin DOMAIN files
      BY DEF TypeInv, TypeOK, Dir
    <2>1. PICK n : n = Len(files) + 1
      OBVIOUS
    <2>2. /\ n \notin DOMAIN files /\ n # None /\ n # Dir
          /\ \A e \in UserIds \X Paths : names[e] # n
          /\ \A q \in Requests : req[q].file # n
      BY <2>0, <2>1, NoneAssumption DEF Dir
    <2>3. MadeNew(r) => req'[r].file = n /\ names' = [names EXCEPT ![Key(r)] = n] /\ Entry(r) = None
      BY <2>1 DEF MadeNew
    <2>4. Opened(r) => req'[r].file = Entry(r) /\ IsFile(Entry(r)) /\ names' = names
      BY DEF Opened
    <2>5. Entry(r) = names[Key(r)]
      BY DEF Entry, Key
    <2>6. TypeOK'
      BY <1>2, TypeStep DEF Next, TypeInv
    <2>7. ASSUME NEW d \in UserIds \X Paths, NEW e \in UserIds \X Paths,
                 IsFile(names'[d]), names'[d] = names'[e]
          PROVE  d = e
      <3>1. names'[d] = names[d] \/ (MadeNew(r) /\ d = Key(r))
        BY <1>2, <2>7, NewName
      <3>2. names'[e] = names[e] \/ (MadeNew(r) /\ e = Key(r))
        BY <1>2, <2>7, NewName
      <3>3. CASE names'[d] = names[d] /\ names'[e] = names[e]
        BY <2>7, <3>3 DEF FilesInv
      <3>4. CASE MadeNew(r) /\ d = Key(r)
        <4>1. names'[d] = n
          BY <2>0, <2>3, <3>4
        <4> QED
          BY <2>2, <2>7, <3>2, <3>4, <4>1
      <3>5. CASE MadeNew(r) /\ e = Key(r)
        <4>1. names'[e] = n
          BY <2>0, <2>3, <3>5
        <4> QED
          BY <2>2, <2>7, <3>1, <3>5, <4>1
      <3> QED
        BY <3>1, <3>2, <3>3, <3>4, <3>5
    <2>8. ASSUME NEW q \in Requests, (q \in Asked("put"))', NEW e \in UserIds \X Paths,
                 req'[q].file # None, names'[e] = req'[q].file
          PROVE  e = Key(q)'
      <3>1. req'[q].ask # None /\ req'[q].ask.op = "put"
        BY <2>8 DEF Asked
      <3>2. /\ q \in Asked("put") /\ Key(q)' = Key(q)
            /\ \/ req[q].file = req'[q].file
               \/ q = r /\ Opened(r)
               \/ q = r /\ MadeNew(r)
        BY <1>2, <2>8, <3>1, FileOf
      <3>3. IsFile(names'[e])
        <4>1. req'[q].file \in DOMAIN files' /\ 0 \notin DOMAIN files'
          BY <2>6, <2>8 DEF TypeOK
        <4> QED
          BY <2>8, <4>1 DEF IsFile, Dir
      <3>4. names'[e] = names[e] \/ (MadeNew(r) /\ e = Key(r))
        BY <1>2, <3>3, NewName
      <3>5. CASE MadeNew(r) /\ e = Key(r)
        <4>1. names'[e] = n
          BY <2>0, <2>3, <3>5
        <4>2. req[q].file # req'[q].file /\ ~Opened(r)
          BY <2>2, <2>3, <2>4, <2>8, <3>5, <4>1 DEF IsFile
        <4> QED
          BY <3>2, <3>5, <4>2
      <3>6. CASE names'[e] = names[e]
        <4>1. CASE req[q].file = req'[q].file
          BY <2>8, <3>2, <3>6, <4>1 DEF FilesInv
        <4>2. CASE q = r /\ Opened(r)
          <5>1. Key(r) \in UserIds \X Paths
            <6>1. req[r].pc = "open" /\ req[r] # Idle
              BY <4>2 DEF Opened, Idle
            <6>2. Stage(req[r]) /\ req[r].ask \in AskSet /\ req[r].user \in UserIds
              BY <1>2, <6>1, StepFacts
            <6> QED
              BY <3>2, <4>2, <6>2, AskFacts DEF Key, Asked
          <5>2. IsFile(names[Key(r)]) /\ names[e] = names[Key(r)]
            BY <2>4, <2>5, <2>8, <3>6, <4>2
          <5> QED
            BY <3>2, <4>2, <5>1, <5>2 DEF FilesInv
        <4>3. CASE q = r /\ MadeNew(r)
          BY <2>2, <2>3, <2>8, <3>6, <4>3
        <4> QED
          BY <3>2, <4>1, <4>2, <4>3
      <3> QED
        BY <3>4, <3>5, <3>6
    <2>9. ASSUME NEW q \in Requests, NEW s \in Requests, (q \in Asked("put"))', (s \in Asked("put"))',
                 req'[q].file # None, req'[s].file = req'[q].file, q # r
          PROVE  Key(q)' = Key(s)'
      <3>1. /\ req'[q].ask # None /\ req'[q].ask.op = "put"
            /\ req'[s].ask # None /\ req'[s].ask.op = "put"
        BY <2>9 DEF Asked
      <3>2. q \in Asked("put") /\ Key(q)' = Key(q) /\ req[q].file = req'[q].file
        BY <1>2, <2>9, <3>1, FileOf
      <3>3. /\ s \in Asked("put") /\ Key(s)' = Key(s)
            /\ \/ req[s].file = req'[s].file
               \/ s = r /\ Opened(r)
               \/ s = r /\ MadeNew(r)
        BY <1>2, <2>9, <3>1, FileOf
      <3>4. CASE req[s].file = req'[s].file
        BY <2>9, <3>2, <3>3, <3>4 DEF FilesInv
      <3>5. CASE s = r /\ Opened(r)
        <4>1. Key(r) \in UserIds \X Paths
          <5>1. req[r].pc = "open" /\ req[r] # Idle
            BY <3>5 DEF Opened, Idle
          <5>2. Stage(req[r]) /\ req[r].ask \in AskSet /\ req[r].user \in UserIds
            BY <1>2, <5>1, StepFacts
          <5> QED
            BY <3>3, <3>5, <5>2, AskFacts DEF Key, Asked
        <4>2. names[Key(r)] = req[q].file
          BY <2>4, <2>5, <2>9, <3>2, <3>5
        <4> QED
          BY <2>9, <3>2, <3>3, <3>5, <4>1, <4>2 DEF FilesInv
      <3>6. CASE s = r /\ MadeNew(r)
        BY <2>2, <2>3, <2>9, <3>2, <3>6
      <3> QED
        BY <3>3, <3>4, <3>5, <3>6
    <2>10. ASSUME NEW q \in Requests, NEW s \in Requests, (q \in Asked("put"))', (s \in Asked("put"))',
                  req'[q].file # None, req'[s].file = req'[q].file
           PROVE  Key(s)' = Key(q)'
      <3>1. CASE q # r
        BY <2>9, <2>10, <3>1
      <3>2. CASE q = r /\ s # r
        BY <2>9, <2>10, <3>2
      <3> QED
        BY <3>1, <3>2
    <2>11. \A q \in Asked("put")' : q \in Requests
      BY DEF Asked
    <2>12. \A d, e \in UserIds \X Paths : IsFile(names'[d]) /\ names'[d] = names'[e] => d = e
      BY <2>7
    <2>13. \A q \in Asked("put")', e \in UserIds \X Paths :
             req'[q].file # None /\ names'[e] = req'[q].file => e = Key(q)'
      BY <2>8, <2>11
    <2>14. \A q, s \in Asked("put")' :
             req'[q].file # None /\ req'[s].file = req'[q].file => Key(s)' = Key(q)'
      BY <2>10, <2>11
    <2> QED
      BY <2>12, <2>13, <2>14 DEF FilesInv, IsFile
  <1> QED
    BY <1>1, <1>2 DEF Next

\* Who has touched a name has touched it.
LEMMA TouchedStays ==
  ASSUME TypeInv, NEW r \in Requests, Step(r), NEW e, NEW q \in Touched(e)
  PROVE  (q \in Touched(e))'
  <1>1. /\ q \in Requests /\ req[q].ask # None /\ Key(q) = e
        /\ \/ req[q].ask.op = "put" /\ req[q].file # None
           \/ req[q].ask.op = "delete" /\ req[q].pc = "ok"
    BY DEF Touched, Asked
  <1>2. CASE q # r
    <2>1. req'[q] = req[q]
      BY <1>1, <1>2, StepFacts
    <2> QED
      BY <1>1, <2>1 DEF Touched, Asked, Key
  <1>3. CASE q = r
    <2>1. req[r] # Idle /\ req[r].pc \notin Ends
      BY <1>1, <1>3, StepFacts DEF Idle
    <2>2. req[r].ask.op = "put" /\ req[r].file # None
      BY <1>1, <1>3, <2>1 DEF Ends
    <2>3. Stage(req[r]) /\ req'[r].ask = req[r].ask
      BY <2>1, StepFacts
    <2>4. req[r].pc # "create"
      BY <2>2, <2>3 DEF Stage, PutOf
    <2>5. req'[r].user = req[r].user /\ req'[r].file # None
      BY <2>1, <2>2, <2>4, StepFacts, OnlyPuts
    <2> QED
      BY <1>1, <1>3, <2>2, <2>3, <2>5 DEF Touched, Asked, Key
  <1> QED
    BY <1>2, <1>3

\* A request that comes last after a step came last before it.
LEMMA LastStays ==
  ASSUME TypeInv, NEW r \in Requests, Step(r), NEW s \in Requests,
         req[s] # Idle, req[s].pc # "create", ComesLast(s)'
  PROVE  ComesLast(s) /\ Key(s)' = Key(s) /\ req'[s].after = req[s].after
  <1>1. req'[s].user = req[s].user /\ req'[s].ask = req[s].ask /\ req'[s].after = req[s].after
    <2>1. CASE s = r
      BY <2>1, StepFacts
    <2>2. CASE s # r
      BY <2>2, StepFacts
    <2> QED
      BY <2>1, <2>2
  <1>2. PICK e : e = Key(s)
    OBVIOUS
  <1>3. Key(s)' = e
    BY <1>1, <1>2 DEF Key
  <1>4. ASSUME NEW q \in Touched(e) \ {s} PROVE q \in req[s].after
    <2>1. (q \in Touched(e))'
      BY <1>4, TouchedStays
    <2>2. \A o \in Touched(e)' \ {s} : o \in req'[s].after
      BY <1>3 DEF ComesLast
    <2> QED
      BY <1>1, <2>1, <2>2
  <1> QED
    BY <1>1, <1>2, <1>3, <1>4 DEF ComesLast

\* Who takes a step has not touched what a request asks for that comes last.
LEMMA NotTouched ==
  ASSUME TypeInv, AfterInv, NEW r \in Requests, Step(r), NEW s \in Requests \ {r},
         ComesLast(s)'
  PROVE  /\ (r \in Asked("put"))' /\ req'[r].file # None => Key(r)' # Key(s)'
         /\ (r \in Asked("delete"))' /\ req'[r].pc = "ok" => Key(r)' # Key(s)'
  <1>1. r \notin req'[s].after
    BY StepFacts DEF AfterInv
  <1>2. PICK e : e = Key(s)'
    OBVIOUS
  <1>3. \A o \in Touched(e)' \ {s} : o \in req'[s].after
    BY <1>2 DEF ComesLast
  <1>4. (r \notin Touched(e))'
    BY <1>1, <1>3
  <1> QED
    BY <1>2, <1>4 DEF Touched

\* An upload knows name and number of its file.
LEMMA PutFacts ==
  ASSUME TypeInv, NEW s \in Asked("put"), req[s].pc \in {"open", "write", "stat"} \/ req[s].pc = "ok"
  PROVE  /\ s \in Requests /\ req[s] # Idle /\ req[s].pc # "create" /\ Stage(req[s]) /\ req[s].ask \in AskSet
         /\ Key(s) \in UserIds \X Paths
         /\ req[s].pc # "open" => req[s].file \in DOMAIN files
         /\ req[s].part \in DOMAIN req[s].ask.parts /\ req[s].part \in Nat
         /\ req[s].ask.parts \in Seq(Nat \cup {None})
         /\ Entry(s) = names[Key(s)]
  <1>1. s \in Requests /\ req[s].ask # None /\ req[s].ask.op = "put" /\ req[s] # Idle /\ req[s] \in ReqStates
    BY DEF Asked, TypeInv, TypeOK, Idle
  <1>2. Stage(req[s])
    BY <1>1 DEF TypeInv, StageInv
  <1>3. req[s].ask \in AskSet
    BY <1>1 DEF ReqStates
  <1>4. req[s].user \in UserIds
    BY <1>1, <1>2 DEF Stage, StageOf, ReqStates
  <1>5. PutOf(req[s])
    BY <1>1, <1>2 DEF Stage
  <1>6. req[s].pc # "open" => req[s].file \in DOMAIN files
    BY <1>1, <1>5 DEF PutOf, TypeInv, TypeOK
  <1>7. Key(s) \in UserIds \X Paths
    BY <1>1, <1>3, <1>4, AskFacts DEF Key
  <1>8. req[s].ask.parts \in Seq(Nat \cup {None})
    BY <1>1, <1>3, AskFacts DEF AskTypes
  <1>9. Entry(s) = names[Key(s)]
    BY DEF Entry, Key
  <1> QED
    BY <1>1, <1>2, <1>3, <1>5, <1>6, <1>7, <1>8, <1>9 DEF PutOf, ReqStates

\* The step of another request leaves what an upload has written, if the upload comes last.
LEMMA OthersUpload ==
  ASSUME TypeInv, AfterInv, FilesInv, NEW r \in Requests, Step(r),
         NEW s \in Requests \ {r}, s \in Asked("put"), UploadOf(s)
  PROVE  UploadOf(s)'
  <1>0. req'[s] = req[s]
    BY StepFacts
  <1> SUFFICES ASSUME req[s].pc \in {"write", "stat", "ok"}, ComesLast(s)'
               PROVE  Entry(s)' = Entry(s) /\ files'[Entry(s)] = files[Entry(s)] /\ ComesLast(s)
    BY <1>0 DEF UploadOf, Prefix, LastPart
  <1>1. /\ req[s] # Idle /\ req[s].pc # "create" /\ Key(s) \in UserIds \X Paths
        /\ req[s].file \in DOMAIN files /\ Entry(s) = names[Key(s)]
    BY PutFacts
  <1>2. ComesLast(s) /\ Key(s)' = Key(s)
    BY <1>1, LastStays
  <1>3. Entry(s) = req[s].file
    BY <1>2 DEF UploadOf
  <1>4. files \in Seq(Content) /\ Len(files) \in Nat /\ DOMAIN files = 1 .. Len(files)
    BY DEF TypeInv, TypeOK
  <1>5. IsFile(Entry(s))
    BY <1>1, <1>3, <1>4, NoneAssumption DEF IsFile, Dir
  <1>6. names'[Key(s)] = names[Key(s)]
    <2> SUFFICES ASSUME names'[Key(s)] # names[Key(s)] PROVE FALSE
      OBVIOUS
    <2>1. /\ r \in Asked("delete") /\ req[r] # Idle /\ Key(s) = Key(r) /\ req[r].pc = "remove"
          /\ req'[r].pc = "ok"
      BY <1>1, <1>5, NameMoves DEF IsFile
    <2>2. req'[r].user = req[r].user /\ req'[r].ask = req[r].ask
      BY <2>1, StepFacts
    <2>3. (r \in Asked("delete"))' /\ Key(r)' = Key(r)
      BY <2>1, <2>2 DEF Asked, Key
    <2> QED
      BY <1>2, <2>1, <2>3, NotTouched
  <1>7. Entry(s)' = Entry(s)
    BY <1>0, <1>1, <1>6 DEF Entry, Key
  <1>8. files'[Entry(s)] = files[Entry(s)]
    <2>1. CASE UNCHANGED files
      BY <2>1
    <2>2. CASE files' # files
      <3>1. req'[r].ask # None /\ req'[r].ask.op = "put"
        <4>1. req'[r].ask # None
          BY StepFacts DEF Stage, StageOf
        <4> QED
          BY <2>2, <4>1, OnlyPuts
      <3>2. Opened(r) \/ MadeNew(r) \/ WroteByte(r)
        BY <2>2, <3>1, PutMoves DEF WroteAll, ToldSize, disk
      <3>3. req[r].pc \in {"open", "write"} /\ req[r] # Idle
        BY <3>2 DEF Opened, MadeNew, WroteByte, Idle
      <3>4. r \in Asked("put") /\ Key(r)' = Key(r) /\ (r \in Asked("put"))'
        <4>1. /\ req'[r].ask = req[r].ask /\ req'[r].user = req[r].user
              /\ req[r].ask \in AskSet
          BY <3>3, StepFacts
        <4> QED
          BY <3>1, <4>1 DEF Asked, Key
      <3>5. /\ Key(r) \in UserIds \X Paths /\ Entry(r) = names[Key(r)]
            /\ req[r].pc = "write" => req[r].file \in DOMAIN files
        BY <3>3, <3>4, PutFacts
      <3>6. req'[r].file # None => Key(r) # Key(s)
        BY <1>2, <3>4, NotTouched
      <3>7. CASE Opened(r)
        <4>1. IsFile(Entry(r)) /\ req'[r].file # None /\ files' = [files EXCEPT ![Entry(r)] = <<>>]
          BY <3>7 DEF Opened, IsFile
        <4>2. Entry(r) # Entry(s)
          BY <1>1, <3>5, <3>6, <4>1 DEF FilesInv
        <4> QED
          BY <1>1, <1>3, <4>1, <4>2
      <3>8. CASE MadeNew(r)
        BY <1>1, <1>3, <1>4, <3>8 DEF MadeNew
      <3>9. CASE WroteByte(r)
        <4>1. req[r].pc = "write" /\ req'[r].file = req[r].file /\ UNCHANGED names
          BY <3>9 DEF WroteByte
        <4>2. req[r].file \in DOMAIN files /\ req[r].file # None
          BY <1>4, <3>5, <4>1, NoneAssumption
        <4>3. req[r].file # req[s].file
          BY <3>4, <3>6, <4>1, <4>2 DEF FilesInv
        <4>4. PICK c : files' = [files EXCEPT ![req[r].file] = c]
          <5>1. PICK c : c = WriteAt(files[req[r].file], req[r].size + 1,
                                     [by |-> r, part |-> req[r].part, at |-> req[r].size])
            OBVIOUS
          <5> QED
            BY <3>9, <5>1 DEF WroteByte
        <4> QED
          BY <1>1, <1>3, <4>2, <4>3, <4>4
      <3> QED
        BY <3>2, <3>7, <3>8, <3>9
    <2> QED
      BY <2>1, <2>2
  <1> QED
    BY <1>2, <1>7, <1>8

\* One byte more than the first n of a part.
LEMMA WriteNext ==
  ASSUME NEW n \in Nat, NEW r, NEW k, NEW f, f = BytesOf(r, k, n)
  PROVE  WriteAt(f, n + 1, [by |-> r, part |-> k, at |-> n]) = BytesOf(r, k, n + 1)
  <1> DEFINE b == [by |-> r, part |-> k, at |-> n]
  <1>0. f = [j \in 1 .. n |-> [by |-> r, part |-> k, at |-> j - 1]]
    BY DEF BytesOf
  <1>1. Len(f) = n
    BY <1>0
  <1>2. PICK m : m = n + 1
    OBVIOUS
  <1>3. Max({n, m}) = m
    <2>1. m \in {n, m} /\ \A y \in {n, m} : m >= y
      BY <1>2
    <2>2. \A x \in {n, m} : (\A y \in {n, m} : x >= y) => x = m
      BY <1>2
    <2> QED
      BY <2>1, <2>2 DEF Max
  <1>4. WriteAt(f, m, b) = [j \in 1 .. m |-> IF j = m THEN b ELSE IF j <= n THEN f[j] ELSE None]
    BY <1>1, <1>3 DEF WriteAt
  <1>5. ASSUME NEW j \in 1 .. m
        PROVE  (IF j = m THEN b ELSE IF j <= n THEN f[j] ELSE None) = [by |-> r, part |-> k, at |-> j - 1]
    <2>1. CASE j = m
      <3>1. j - 1 = n
        BY <1>2, <2>1
      <3> QED
        BY <2>1, <3>1
    <2>2. CASE j # m
      <3>1. j \in 1 .. n
        BY <1>2, <2>2
      <3> QED
        BY <1>0, <2>2, <3>1
    <2> QED
      BY <2>1, <2>2
  <1>6. WriteAt(f, m, b) = [j \in 1 .. m |-> [by |-> r, part |-> k, at |-> j - 1]]
    BY <1>4, <1>5
  <1> QED
    BY <1>2, <1>6 DEF BytesOf

\* The step of an upload that comes last.
LEMMA OwnUpload ==
  ASSUME TypeInv, NEW r \in Requests, Step(r), (r \in Asked("put"))', r \in Asked("put") => UploadOf(r)
  PROVE  UploadOf(r)'
  <1> SUFFICES ASSUME req'[r].pc \in {"write", "stat", "ok"}, ComesLast(r)'
               PROVE  /\ Entry(r)' = req'[r].file
                      /\ req'[r].pc = "write" => files'[Entry(r)'] = Prefix(r, req[r].size)'
                      /\ req'[r].pc \in {"stat", "ok"} => files'[Entry(r)'] = LastPart(r)'
                      /\ req'[r].pc = "ok" => req'[r].size = Len(LastPart(r)')
    BY DEF UploadOf
  <1>0. /\ files \in Seq(Content) /\ Len(files) \in Nat /\ DOMAIN files = 1 .. Len(files)
        /\ names \in [UserIds \X Paths -> {None, Dir} \cup DOMAIN files]
    BY DEF TypeInv, TypeOK
  <1>1. Opened(r) \/ MadeNew(r) \/ WroteByte(r) \/ WroteAll(r) \/ ToldSize(r)
    BY PutMoves DEF Asked
  <1>2. /\ req[r].pc \in {"open", "write", "stat"} /\ req[r] # Idle /\ req[r].pc # "create"
    BY <1>1 DEF Opened, MadeNew, WroteByte, WroteAll, ToldSize, Idle
  <1>3. /\ req'[r].ask = req[r].ask /\ req'[r].user = req[r].user /\ req[r].ask \in AskSet
    BY <1>2, StepFacts
  <1>4. r \in Asked("put") /\ Key(r)' = Key(r)
    BY <1>3, NoneAssumption DEF Asked, Key
  <1>5. /\ Key(r) \in UserIds \X Paths /\ Entry(r) = names[Key(r)] /\ Stage(req[r])
        /\ req[r].pc # "open" => req[r].file \in DOMAIN files
        /\ req[r].ask.parts \in Seq(Nat \cup {None}) /\ req[r].part \in DOMAIN req[r].ask.parts
    BY <1>2, <1>4, PutFacts
  <1>6. Entry(r)' = names'[Key(r)]
    BY <1>3 DEF Entry, Key
  <1>7. ComesLast(r) /\ UploadOf(r)
    BY <1>2, <1>4, LastStays
  <1>8. ASSUME req'[r].pc = "write", req'[r].size = 0, files'[Entry(r)'] = <<>>, Entry(r)' = req'[r].file
        PROVE  files'[Entry(r)'] = Prefix(r, req[r].size)'
    <2>1. PICK k : k = req'[r].part
      OBVIOUS
    <2>2. BytesOf(r, k, 0) = <<>>
      BY DEF BytesOf
    <2> QED
      BY <1>8, <2>1, <2>2 DEF Prefix
  <1>9. CASE Opened(r)
    <2>1. /\ IsFile(Entry(r)) /\ UNCHANGED names /\ req'[r].pc = "write" /\ req'[r].file = Entry(r)
          /\ req'[r].size = 0 /\ files' = [files EXCEPT ![Entry(r)] = <<>>]
      BY <1>9 DEF Opened
    <2>2. Entry(r)' = Entry(r) /\ Entry(r) \in DOMAIN files
      BY <1>0, <1>5, <1>6, <2>1 DEF IsFile
    <2>3. files'[Entry(r)'] = <<>>
      BY <2>1, <2>2
    <2> QED
      BY <1>8, <2>1, <2>2, <2>3
  <1>10. CASE MadeNew(r)
    <2>1. /\ files' = Append(files, <<>>) /\ names' = [names EXCEPT ![Key(r)] = Len(files) + 1]
          /\ req'[r].pc = "write" /\ req'[r].file = Len(files) + 1 /\ req'[r].size = 0
      BY <1>10 DEF MadeNew
    <2>2. Entry(r)' = Len(files) + 1
      BY <1>0, <1>5, <1>6, <2>1
    <2>3. files'[Len(files) + 1] = <<>>
      BY <1>0, <2>1
    <2> QED
      BY <1>8, <2>1, <2>2, <2>3
  <1>11. CASE WroteByte(r)
    <2>1. /\ req[r].pc = "write" /\ UNCHANGED names /\ req'[r].pc = "write"
          /\ req'[r].size = req[r].size + 1 /\ req'[r].file = req[r].file /\ req'[r].part = req[r].part
      BY <1>11 DEF WroteByte
    <2>2. Entry(r) = req[r].file /\ files[Entry(r)] = Prefix(r, req[r].size)
      BY <1>7, <2>1 DEF UploadOf
    <2>3. Entry(r)' = Entry(r) /\ Entry(r) \in DOMAIN files
      BY <1>5, <1>6, <2>1, <2>2
    <2>4. PICK n, k : n = req[r].size /\ k = req[r].part
      OBVIOUS
    <2>5. n \in Nat
      BY <1>4, <1>5, <2>1, <2>4 DEF Stage, PutOf, Asked
    <2>6. PICK f : f = files[Entry(r)]
      OBVIOUS
    <2>7. f = BytesOf(r, k, n)
      BY <2>2, <2>4, <2>6 DEF Prefix
    <2>8. PICK b : b = [by |-> r, part |-> k, at |-> n]
      OBVIOUS
    <2>9. PICK c : c = WriteAt(f, n + 1, b)
      OBVIOUS
    <2>10. files' = [files EXCEPT ![req[r].file] = c]
      BY <1>11, <2>2, <2>4, <2>6, <2>8, <2>9 DEF WroteByte
    <2>11. c = BytesOf(r, k, n + 1)
      BY <2>5, <2>7, <2>8, <2>9, WriteNext
    <2>12. files'[Entry(r)'] = c
      BY <2>2, <2>3, <2>10
    <2>13. Prefix(r, req[r].size)' = c
      BY <2>1, <2>4, <2>11 DEF Prefix
    <2> QED
      BY <2>1, <2>2, <2>3, <2>12, <2>13
  <1>12. LastPart(r)' = LastPart(r)
    BY <1>3 DEF LastPart
  <1>13. CASE WroteAll(r)
    <2>1. /\ req[r].pc = "write" /\ UNCHANGED disk /\ req[r].size = Part(r)
          /\ req[r].part = Len(req[r].ask.parts) /\ req'[r].pc = "stat" /\ req'[r].file = req[r].file
      BY <1>13 DEF WroteAll
    <2>2. Entry(r) = req[r].file /\ files[Entry(r)] = Prefix(r, req[r].size)
      BY <1>7, <2>1 DEF UploadOf
    <2>3. Entry(r)' = Entry(r) /\ files' = files
      BY <1>5, <1>6, <2>1 DEF disk
    <2>4. Prefix(r, req[r].size) = LastPart(r)
      BY <2>1 DEF Prefix, BytesOf, LastPart, Part
    <2> QED
      BY <1>12, <2>1, <2>2, <2>3, <2>4
  <1>14. CASE ToldSize(r)
    <2>1. /\ req[r].pc = "stat" /\ UNCHANGED disk /\ req'[r].pc = "ok" /\ req'[r].file = req[r].file
          /\ req'[r].size = SizeOf(Entry(r))
      BY <1>14 DEF ToldSize
    <2>2. Entry(r) = req[r].file /\ files[Entry(r)] = LastPart(r)
      BY <1>7, <2>1 DEF UploadOf
    <2>3. Entry(r)' = Entry(r) /\ files' = files
      BY <1>5, <1>6, <2>1 DEF disk
    <2>4. IsFile(Entry(r))
      <3>1. Entry(r) \in 1 .. Len(files) /\ Len(files) \in Nat
        BY <1>0, <1>5, <2>1, <2>2
      <3>2. Entry(r) \in Nat /\ Entry(r) # 0
        BY <3>1
      <3> QED
        BY <3>2, NoneAssumption DEF IsFile, Dir
    <2>5. req'[r].size = Len(LastPart(r))
      BY <2>1, <2>2, <2>4 DEF SizeOf
    <2> QED
      BY <1>12, <2>1, <2>2, <2>3, <2>5
  <1> QED
    BY <1>1, <1>9, <1>10, <1>11, <1>13, <1>14

\* A step keeps that uploads stand.
LEMMA UploadStep ==
  ASSUME TypeInv, AfterInv, FilesInv, UploadInv, [Next]_vars
  PROVE  UploadInv'
  <1>1. CASE UNCHANGED vars
    <2>1. ASSUME NEW s \in Requests PROVE ComesLast(s)' <=> ComesLast(s)
      BY <1>1 DEF vars, ComesLast, Touched, Asked, Key
    <2>2. ASSUME NEW s \in Requests PROVE UploadOf(s)' <=> UploadOf(s)
      BY <1>1, <2>1 DEF vars, UploadOf, Entry, Prefix, LastPart
    <2>3. Asked("put")' = Asked("put") /\ \A s \in Asked("put") : s \in Requests
      BY <1>1 DEF vars, Asked
    <2> QED
      BY <2>2, <2>3 DEF UploadInv
  <1>2. ASSUME NEW r \in Requests, Step(r) PROVE UploadInv'
    <2>1. ASSUME NEW s \in Requests, (s \in Asked("put"))' PROVE UploadOf(s)'
      <3>1. CASE s = r
        BY <1>2, <2>1, <3>1, OwnUpload DEF UploadInv
      <3>2. CASE s # r
        <4>1. s \in Asked("put")
          BY <1>2, <2>1, <3>2, StepFacts DEF Asked
        <4> QED
          BY <1>2, <3>2, <4>1, OthersUpload DEF UploadInv
      <3> QED
        BY <3>1, <3>2
    <2>2. \A s \in Asked("put")' : s \in Requests
      BY DEF Asked
    <2> QED
      BY <2>1, <2>2 DEF UploadInv
  <1> QED
    BY <1>1, <1>2 DEF Next

-----------------------------------------------------------------------------
(* What a download reads *)

\* What is read of a file for a range is what is wanted of it.
LEMMA RangeIsWanted ==
  ASSUME NEW first \in Nat \cup {Absent}, NEW last \in Nat \cup {Absent}, NEW size \in Nat,
         first # Absent, Accepted(first, last)
  PROVE  ReadBytes(Prepared(set_range(first, last), size), size)
           = {i \in first .. (size - 1) : last = Absent \/ i <= last}
  <1>1. first \in Nat
    OBVIOUS
  <1>2. CASE last = Absent
    <2>1. ReadBytes(Prepared(set_range(first, last), size), size) = {i \in 0 .. size - 1 : first <= i}
      BY <1>1, <1>2, OpenRangeExact
    <2>2. {i \in 0 .. size - 1 : first <= i} = {i \in first .. (size - 1) : last = Absent \/ i <= last}
      BY <1>1, <1>2
    <2> QED
      BY <2>1, <2>2
  <1>3. CASE last # Absent
    <2>1. last \in Nat
      BY <1>3
    <2>2. ReadBytes(Prepared(set_range(first, last), size), size)
            = {i \in 0 .. size - 1 : first <= i /\ i <= last}
      BY <1>1, <2>1, ClosedRangeExact
    <2>3. {i \in 0 .. size - 1 : first <= i /\ i <= last}
            = {i \in first .. (size - 1) : last = Absent \/ i <= last}
      BY <1>1, <1>3, <2>1
    <2> QED
      BY <2>2, <2>3
  <1> QED
    BY <1>2, <1>3

\* All of a file.
LEMMA ReadAll ==
  ASSUME NEW S, NEW f \in Seq(S)
  PROVE  ReadOf(f, 0 .. Len(f) - 1) = f
  <1>1. PICK n : n = Len(f)
    OBVIOUS
  <1>2. n \in Nat /\ f = [j \in 1 .. n |-> f[j]]
    BY <1>1
  <1>3. Cardinality(0 .. n - 1) = n
    <2>1. PICK b : b = n - 1
      OBVIOUS
    <2>2. 0 \in Int /\ b \in Int
      BY <1>2, <2>1
    <2>3. Cardinality(0 .. b) = IF 0 > b THEN 0 ELSE b - 0 + 1
      BY <2>2, FS_Interval
    <2>4. Cardinality(0 .. b) = n
      BY <1>2, <2>1, <2>3
    <2> QED
      BY <2>1, <2>4
  <1>4. CASE n = 0
    <2>1. PICK m : m = Min(0 .. n - 1)
      OBVIOUS
    <2>2. [j \in 1 .. n |-> f[m + j]] = [j \in 1 .. n |-> f[j]]
      BY <1>4
    <2> QED
      BY <1>1, <1>2, <1>3, <2>1, <2>2 DEF ReadOf
  <1>5. CASE n > 0
    <2>1. Min(0 .. n - 1) = 0
      <3>1. 0 \in Int /\ n - 1 \in Int /\ 0 <= n - 1
        BY <1>2, <1>5
      <3> QED
        BY <3>1, MinInterval
    <2>2. [j \in 1 .. n |-> f[0 + j]] = [j \in 1 .. n |-> f[j]]
      BY <1>2
    <2> QED
      BY <1>1, <1>2, <1>3, <2>1, <2>2 DEF ReadOf
  <1> QED
    BY <1>2, <1>4, <1>5

\* A part of a file.
LEMMA SubSeqIs ==
  ASSUME NEW S, NEW f \in Seq(S), NEW m \in Nat, NEW k \in Nat, m <= k, k <= Len(f),
         NEW a, a = m + 1, NEW t, t = SubSeq(f, a, k)
  PROVE  t \in Seq(S) /\ Len(t) = k - m /\ \A i \in 1 .. k - m : t[i] = f[m + i]
  <1>1. a \in Int /\ k \in Int /\ \A i \in a .. k : f[i] \in S
    OBVIOUS
  <1>2. /\ SubSeq(f, a, k) \in Seq(S)
        /\ Len(SubSeq(f, a, k)) = IF a <= k THEN k - a + 1 ELSE 0
        /\ \A i \in 1 .. k - a + 1 : SubSeq(f, a, k)[i] = f[a + i - 1]
    BY <1>1, SubSeqProperties
  <1>3. Len(t) = k - m
    BY <1>2
  <1>4. ASSUME NEW i \in 1 .. k - m PROVE t[i] = f[m + i]
    <2>1. i \in 1 .. k - a + 1 /\ a + i - 1 = m + i
      OBVIOUS
    <2> QED
      BY <1>2, <2>1
  <1> QED
    BY <1>2, <1>3, <1>4

\* The part of a file between two places, and the place to which a chunk goes.
Between(f, m, k) == SubSeq(f, m + 1, k)
ChunkEnd(m, n)   == Min({m + ReadChunk, n})

\* A part of a file and the next one are a part of it.
LEMMA PartsJoin ==
  ASSUME NEW S, NEW f \in Seq(S), NEW m \in Nat, NEW k \in Nat, m <= k, k <= Len(f)
  PROVE  /\ SubSeq(f, 1, m) \o Between(f, m, k) = SubSeq(f, 1, k)
         /\ Len(SubSeq(f, 1, k)) = k /\ Len(Between(f, m, k)) = k - m
  <1>1. PICK a, b : a = SubSeq(f, 1, m) /\ b = SubSeq(f, 1, k)
    OBVIOUS
  <1>2. PICK c, t : c = m + 1 /\ t = SubSeq(f, c, k) /\ t = Between(f, m, k)
    BY DEF Between
  <1>3. t \in Seq(S) /\ Len(t) = k - m /\ \A i \in 1 .. k - m : t[i] = f[m + i]
    BY <1>2, SubSeqIs
  <1>4. 0 \in Nat /\ 1 = 0 + 1 /\ 0 <= m /\ 0 <= k /\ m <= Len(f)
    OBVIOUS
  <1>5. a \in Seq(S) /\ Len(a) = m - 0 /\ \A i \in 1 .. m - 0 : a[i] = f[0 + i]
    BY <1>1, <1>4, SubSeqIs
  <1>6. b \in Seq(S) /\ Len(b) = k - 0 /\ \A i \in 1 .. k - 0 : b[i] = f[0 + i]
    BY <1>1, <1>4, SubSeqIs
  <1>7. PICK d : d = a \o t
    OBVIOUS
  <1>8. /\ d \in Seq(S) /\ Len(d) = Len(a) + Len(t)
        /\ \A j \in 1 .. Len(a) + Len(t) : d[j] = IF j <= Len(a) THEN a[j] ELSE t[j - Len(a)]
    BY <1>3, <1>5, <1>7, ConcatProperties
  <1>9. Len(d) = k /\ Len(b) = k /\ Len(a) = m
    BY <1>3, <1>5, <1>6, <1>8
  <1>10. ASSUME NEW j \in 1 .. k PROVE d[j] = b[j]
    <2>1. b[j] = f[j]
      BY <1>6
    <2>2. d[j] = IF j <= m THEN a[j] ELSE t[j - m]
      BY <1>8, <1>9
    <2>3. CASE j <= m
      BY <1>5, <2>1, <2>2, <2>3
    <2>4. CASE j > m
      <3>1. j - m \in 1 .. k - m /\ m + (j - m) = j
        BY <2>4
      <3>2. t[j - m] = f[j]
        BY <1>3, <3>1
      <3> QED
        BY <2>1, <2>2, <2>4, <3>2
    <2> QED
      BY <2>3, <2>4
  <1>11. d = b
    BY <1>6, <1>8, <1>9, <1>10, SeqEqual
  <1> QED
    BY <1>1, <1>2, <1>3, <1>7, <1>9, <1>11

\* A chunk ends in the file, and at its end when it is empty.
LEMMA ChunkEnds ==
  ASSUME NEW m \in Nat, NEW n \in Nat, m <= n
  PROVE  /\ ChunkEnd(m, n) \in Nat /\ m <= ChunkEnd(m, n) /\ ChunkEnd(m, n) <= n
         /\ m = ChunkEnd(m, n) => m = n
  <1>1. PICK c, k : c = m + ReadChunk /\ k = ChunkEnd(m, n)
    OBVIOUS
  <1>2. c \in Int /\ n \in Int /\ c \in Nat /\ m < c
    BY <1>1, BoundsAssumption
  <1>3. k = Min({c, n})
    BY <1>1 DEF ChunkEnd
  <1>4. Min({c, n}) \in {c, n} /\ Min({c, n}) <= n
    BY <1>2, MinOfTwo
  <1> QED
    BY <1>1, <1>2, <1>3, <1>4

\* What a step of a download does: nothing to what it reads, looking at the size, opening
\* the file, reading a range, or a chunk.
SawSize(r) ==
  /\ req[r].pc = "fsize" /\ req'[r].pc = "stream" /\ req'[r].size = SizeOf(Entry(r))
OpenedToRead(r) ==
  /\ req[r].pc = "stream" /\ req'[r].pc = "read" /\ req'[r].file = Entry(r)
  /\ req'[r].body = req[r].body /\ req'[r].size = req[r].size
TookRange(r) ==
  /\ req[r].pc = "read" /\ req[r].ask.ranges # {} /\ req'[r].pc = "ok"
  /\ req'[r].body = ReadOf(files[req[r].file], ReadBytes(RangeOf(r), Len(files[req[r].file])))
TookChunk(r) ==
  /\ req[r].pc = "read" /\ req[r].ask.ranges = {}
  /\ req'[r].file = req[r].file /\ req'[r].size = req[r].size
  /\ \E chunk : /\ chunk = SubSeq(files[req[r].file], Len(req[r].body) + 1,
                                  Min({Len(req[r].body) + ReadChunk, Len(files[req[r].file])}))
                /\ \/ chunk = <<>> /\ req'[r].pc = "ok" /\ req'[r].body = req[r].body
                   \/ chunk # <<>> /\ req'[r].pc = "read" /\ req'[r].body = req[r].body \o chunk

LEMMA GetMoves ==
  ASSUME TypeInv, NEW r \in Requests, Step(r), req'[r].ask.op = "get"
  PROVE  \/ req'[r].pc \notin {"stream", "read"} /\ (req'[r].pc = "ok" => req'[r].file = None)
         \/ SawSize(r) \/ OpenedToRead(r) \/ TookRange(r) \/ TookChunk(r)
  <1> DEFINE p == req[r]
  <1>0. req \in [Requests -> ReqStates] /\ p \in ReqStates
    BY DEF TypeInv, TypeOK
  <1>1. CASE p.pc \in {"idle", "create"}
    BY <1>1, BeginPc
  <1>2. ASSUME p.pc \notin {"idle", "create"}
        PROVE  Stage(p) /\ p.ask \in AskSet /\ p.ask.op = "get" /\ p # Idle
    <2>1. p # Idle
      BY <1>2 DEF Idle
    <2> QED
      BY <2>1, StepFacts
  <1>3. ASSUME NEW pc, To(r, pc), pc \notin {"stream", "read"}, pc = "ok" => p.file = None
        PROVE  req'[r].pc \notin {"stream", "read"} /\ (req'[r].pc = "ok" => req'[r].file = None)
    BY <1>3, ToPc
  <1>4. CASE Look(r) \/ Tar(r)
    <2>1. p.pc \in {"look", "tar"}
      BY <1>4 DEF Look, Tar
    <2>2. p.file = None
      BY <1>2, <2>1 DEF Stage, GetOf
    <2>3. \E pc \in {"fsize", "ok", "tar", "nofile"} : To(r, pc)
      BY <1>4 DEF Look, Tar
    <2> QED
      BY <1>3, <2>2, <2>3
  <1>5. CASE FSize(r)
    <2>1. p.pc = "fsize"
      BY <1>5 DEF FSize
    <2>2. p.file = None
      BY <1>2, <2>1 DEF Stage, GetOf
    <2>3. CASE \E pc \in {"gone", "ok", "range", "refused"} : To(r, pc)
      BY <1>3, <2>2, <2>3
    <2>4. CASE req' = [req EXCEPT ![r].size = SizeOf(Entry(r)), ![r].pc = "stream"]
      <3>1. PICK n : n = SizeOf(Entry(r))
        OBVIOUS
      <3>2. PICK x : x = [p EXCEPT !.size = n, !.pc = "stream"] /\ req' = [req EXCEPT ![r] = x]
        BY <2>4, <3>1
      <3>3. req'[r].pc = "stream" /\ req'[r].size = n
        BY <1>0, <3>2 DEF ReqStates
      <3> QED
        BY <2>1, <3>1, <3>3 DEF SawSize
    <2> QED
      BY <1>5, <2>3, <2>4 DEF FSize
  <1>6. CASE Stream(r)
    <2>1. p.pc = "stream"
      BY <1>6 DEF Stream
    <2>2. CASE To(r, "gone")
      BY <1>3, <2>2
    <2>3. CASE req' = [req EXCEPT ![r].file = Entry(r), ![r].pc = "read"]
      <3>1. PICK x : x = [p EXCEPT !.file = Entry(r), !.pc = "read"] /\ req' = [req EXCEPT ![r] = x]
        BY <2>3
      <3>2. req'[r].pc = "read" /\ req'[r].file = Entry(r) /\ req'[r].body = p.body /\ req'[r].size = p.size
        BY <1>0, <3>1 DEF ReqStates
      <3> QED
        BY <2>1, <3>2 DEF OpenedToRead
    <2> QED
      BY <1>6, <2>2, <2>3 DEF Stream
  <1>7. CASE ReadRange(r)
    <2>1. p.pc = "read" /\ p.ask.ranges # {}
      BY <1>7 DEF ReadRange
    <2>2. PICK content, read : content = files[p.file] /\ read = ReadBytes(RangeOf(r), Len(content))
      OBVIOUS
    <2>3. PICK b : b = [j \in 1 .. Cardinality(read) |-> content[Min(read) + j]]
      OBVIOUS
    <2>4. req' = [req EXCEPT ![r].pc = "ok", ![r].body = b]
      BY <1>7, <2>2, <2>3 DEF ReadRange
    <2>5. PICK x : x = [p EXCEPT !.pc = "ok", !.body = b] /\ req' = [req EXCEPT ![r] = x]
      BY <2>4
    <2>6. req'[r].pc = "ok" /\ req'[r].body = b
      BY <1>0, <2>5 DEF ReqStates
    <2>7. b = ReadOf(content, read)
      BY <2>3 DEF ReadOf
    <2> QED
      BY <2>1, <2>2, <2>6, <2>7 DEF TookRange
  <1>8. CASE ReadChunks(r)
    <2>1. p.pc = "read" /\ p.ask.ranges = {}
      BY <1>8 DEF ReadChunks
    <2>2. PICK chunk : chunk = SubSeq(files[p.file], Len(p.body) + 1,
                                      Min({Len(p.body) + ReadChunk, Len(files[p.file])}))
      OBVIOUS
    <2>3. req' = IF chunk = <<>> THEN [req EXCEPT ![r].pc = "ok"]
                 ELSE [req EXCEPT ![r].body = p.body \o chunk]
      BY <1>8, <2>2 DEF ReadChunks
    <2>4. CASE chunk = <<>>
      <3>1. PICK x : x = [p EXCEPT !.pc = "ok"] /\ req' = [req EXCEPT ![r] = x]
        BY <2>3, <2>4
      <3>2. req'[r].pc = "ok" /\ req'[r].body = p.body /\ req'[r].file = p.file /\ req'[r].size = p.size
        BY <1>0, <3>1 DEF ReqStates
      <3> QED
        BY <2>1, <2>2, <2>4, <3>2 DEF TookChunk
    <2>5. CASE chunk # <<>>
      <3>1. PICK b : b = p.body \o chunk
        OBVIOUS
      <3>2. PICK x : x = [p EXCEPT !.body = b] /\ req' = [req EXCEPT ![r] = x]
        BY <2>3, <2>5, <3>1
      <3>3. req'[r].pc = "read" /\ req'[r].body = b /\ req'[r].file = p.file /\ req'[r].size = p.size
        BY <1>0, <2>1, <3>2 DEF ReqStates
      <3> QED
        BY <2>1, <2>2, <2>5, <3>1, <3>3 DEF TookChunk
    <2> QED
      BY <2>4, <2>5
  <1>9. CASE \/ SubDir(r) \/ MkDir(r) \/ MakeDirs(r) \/ Receive(r) \/ Open(r) \/ Write(r) \/ Written(r) \/ Stat(r)
             \/ Exists(r) \/ Remove(r) \/ Ls(r) \/ Size(r)
    <2>1. p.pc \in {"subdir", "mkdir", "makedirs", "receive", "open", "write", "stat", "exists?", "remove", "ls", "sizes"}
      BY <1>9 DEF SubDir, MkDir, MakeDirs, Receive, Open, Write, Written, Stat, Exists, Remove, Ls, Size
    <2> QED
      BY <1>2, <2>1 DEF Stage, StageOf, Ends
  <1>10. CASE WithToken(r) \/ WithLink(r) \/ CreateUser(r)
    <2>1. p = Idle \/ p.pc = "create"
      BY <1>10 DEF WithToken, WithLink, Begin, CreateUser
    <2>2. p = Idle => p.pc = "idle"
      BY DEF Idle
    <2> QED
      BY <1>1, <2>1, <2>2
  <1> QED
    BY <1>4, <1>5, <1>6, <1>7, <1>8, <1>9, <1>10 DEF Step

\* The last part of an upload, and what is wanted of it.
LEMMA LastPartFacts ==
  ASSUME TypeInv, NEW u \in Asked("put"), req[u].pc = "ok"
  PROVE  LastPart(u) \in Seq(Byte) /\ Len(LastPart(u)) \in Nat
  <1>1. /\ u \in Requests /\ req[u] # Idle /\ Stage(req[u]) /\ req[u].ask \in AskSet
        /\ req[u].ask.parts \in Seq(Nat \cup {None}) /\ req[u].part \in DOMAIN req[u].ask.parts
    BY PutFacts
  <1>2. req[u].part = Len(req[u].ask.parts) /\ req[u].ask.parts[req[u].part] # None
    BY <1>1 DEF Stage, PutOf, Asked
  <1>3. PICK k, n : k = Len(req[u].ask.parts) /\ n = req[u].ask.parts[k]
    OBVIOUS
  <1>4. n \in Nat /\ k \in Nat
    BY <1>1, <1>2, <1>3
  <1>5. LastPart(u) = [j \in 1 .. n |-> [by |-> u, part |-> k, at |-> j - 1]]
    BY <1>3 DEF LastPart
  <1>6. \A j \in 1 .. n : [by |-> u, part |-> k, at |-> j - 1] \in Byte
    BY <1>1, <1>4 DEF Byte
  <1>7. [j \in 1 .. n |-> [by |-> u, part |-> k, at |-> j - 1]] \in Seq(Byte)
    BY <1>4, <1>6
  <1>8. PICK L : L = LastPart(u)
    OBVIOUS
  <1>9. L \in Seq(Byte)
    BY <1>5, <1>7, <1>8
  <1>10. Len(L) \in Nat
    BY <1>9, LenProperties
  <1> QED
    BY <1>8, <1>9, <1>10

\* A download that reads what an upload has written has done so, and the upload had ended.
LEMMA ServesStays ==
  ASSUME TypeInv, AfterInv, UploadInv, NEW t \in Requests, Step(t),
         NEW r \in Requests, NEW u \in Requests, (r \in Asked("get"))', (u \in Asked("put"))', Serves(u, r)',
         req[r].pc \notin {"idle", "create"}
  PROVE  /\ Serves(u, r) /\ r \in Asked("get") /\ u \in Asked("put") /\ req'[u] = req[u]
         /\ req'[r].ask = req[r].ask
         /\ Entry(r) = req[u].file /\ files[Entry(r)] = LastPart(u)
  <1>0. /\ \A g \in req'[r].ask.ranges : g[1] # Absent
        /\ req'[u].pc = "ok" /\ Key(u)' = Key(r)' /\ ComesLast(u)' /\ ComesLast(r)'
    BY DEF Serves
  <1>1. req[r] # Idle
    BY DEF Idle
  <1>2. req'[r].ask = req[r].ask /\ r \in Asked("get") /\ u # r
    <2>1. CASE r = t
      BY <1>1, <2>1, StepFacts, NoneAssumption DEF Asked
    <2>2. CASE r # t
      BY <2>2, StepFacts DEF Asked
    <2> QED
      BY <2>1, <2>2 DEF Asked
  <1>3. ComesLast(r) /\ Key(r)' = Key(r) /\ req'[r].after = req[r].after
    BY <1>0, <1>1, LastStays
  <1>4. req'[u].file # None
    <2>1. TypeInv'
      BY TypeStep DEF Next
    <2>2. Stage(req'[u])
      <3>1. req'[u] # Idle
        BY <1>0 DEF Idle
      <3> QED
        BY <2>1, <3>1 DEF TypeInv, StageInv
    <2> QED
      BY <1>0, <2>2 DEF Stage, PutOf, Asked
  <1>5. u \in req'[r].after
    <2>1. PICK e : e = Key(r)'
      OBVIOUS
    <2>2. (u \in Touched(e))'
      BY <1>0, <1>4, <2>1 DEF Touched
    <2>3. \A o \in Touched(e)' \ {r} : o \in req'[r].after
      BY <1>0, <2>1 DEF ComesLast
    <2> QED
      BY <1>2, <2>2, <2>3
  <1>6. req[u].pc \in Ends /\ u # t
    BY <1>3, <1>5, StepFacts DEF AfterInv
  <1>7. req'[u] = req[u]
    BY <1>6, StepFacts
  <1>8. u \in Asked("put") /\ req[u].pc = "ok" /\ Key(u) = Key(r)
    BY <1>0, <1>3, <1>7 DEF Asked, Key
  <1>9. ComesLast(u)
    <2>1. req[u] # Idle
      BY <1>8 DEF Idle
    <2> QED
      BY <1>0, <1>8, <2>1, LastStays
  <1>10. Entry(u) = req[u].file /\ files[Entry(u)] = LastPart(u)
    BY <1>8, <1>9 DEF UploadInv, UploadOf
  <1>11. Entry(r) = Entry(u)
    BY <1>8 DEF Entry, Key
  <1> QED
    BY <1>0, <1>2, <1>3, <1>7, <1>8, <1>9, <1>10, <1>11 DEF Serves

\* A step keeps that a download is exact.
LEMMA OneDownload ==
  ASSUME TypeInv, AfterInv, FilesInv, UploadInv, DownloadInv, NEW t \in Requests, Step(t),
         NEW r \in Requests, NEW u \in Requests, (r \in Asked("get"))', (u \in Asked("put"))'
  PROVE  DownloadOf(r, u)'
  <1> SUFFICES ASSUME Serves(u, r)', req'[r].pc \in {"stream", "read", "ok"},
                      req'[r].pc = "ok" => req'[r].file # None
               PROVE  /\ req'[r].pc \in {"stream", "read"} => req'[r].size = Len(LastPart(u)')
                      /\ req'[r].pc = "read" =>
                           /\ req'[r].file = req'[u].file
                           /\ req'[r].ask.ranges = {} =>
                                /\ Len(req'[r].body) <= Len(LastPart(u)')
                                /\ req'[r].body = SubSeq(LastPart(u)', 1, Len(req'[r].body))
                      /\ req'[r].pc = "ok" =>
                           req'[r].body = ReadOf(LastPart(u)', Wanted(r, Len(LastPart(u)))')
    BY DEF DownloadOf
  <1>0. req \in [Requests -> ReqStates] /\ req[r] \in ReqStates
    BY DEF TypeInv, TypeOK
  <1>1. req[r].pc \notin {"idle", "create"}
    <2>1. r = t \/ req'[r] = req[r]
      BY StepFacts
    <2> QED
      BY <2>1, BeginPc
  <1>2. /\ Serves(u, r) /\ r \in Asked("get") /\ u \in Asked("put") /\ req'[u] = req[u]
        /\ req'[r].ask = req[r].ask
        /\ Entry(r) = req[u].file /\ files[Entry(r)] = LastPart(u)
    BY <1>1, ServesStays
  <1>3. LastPart(u)' = LastPart(u) /\ Wanted(r, Len(LastPart(u)))' = Wanted(r, Len(LastPart(u)))
    BY <1>2 DEF LastPart, Wanted
  <1>4. /\ req[r].pc \in {"stream", "read"} => req[r].size = Len(LastPart(u))
        /\ req[r].pc = "read" =>
             /\ req[r].file = req[u].file
             /\ req[r].ask.ranges = {} =>
                  /\ Len(req[r].body) <= Len(LastPart(u))
                  /\ req[r].body = SubSeq(LastPart(u), 1, Len(req[r].body))
        /\ req[r].pc = "ok" /\ req[r].file # None =>
             req[r].body = ReadOf(LastPart(u), Wanted(r, Len(LastPart(u))))
    BY <1>2 DEF DownloadInv, DownloadOf
  <1>5. CASE r # t
    <2>1. req'[r] = req[r]
      BY <1>5, StepFacts
    <2> QED
      BY <1>2, <1>3, <1>4, <2>1
  <1>6. CASE r = t
    <2>1. PICK L, n : L = LastPart(u) /\ n = Len(L)
      OBVIOUS
    <2>2. L \in Seq(Byte) /\ n \in Nat
      BY <1>2, <2>1, LastPartFacts DEF Serves
    <2>3. /\ Stage(req[r]) /\ req[r].ask \in AskSet /\ req[r].ask.op = "get" /\ GetOf(req[r])
          /\ IsFiniteSet(req[r].ask.ranges)
          /\ req[r].ask.ranges \subseteq (Nat \cup {Absent}) \X (Nat \cup {Absent})
      <3>1. req[r] # Idle
        BY <1>1 DEF Idle
      <3>2. Stage(req[r]) /\ req[r].ask \in AskSet /\ req[r].ask.op = "get"
        BY <1>2, <1>6, <3>1, StepFacts DEF Asked
      <3> QED
        BY <3>2, AskFacts DEF Stage, AskTypes
    <2>4. SawSize(r) \/ OpenedToRead(r) \/ TookRange(r) \/ TookChunk(r)
      BY <1>2, <1>6, <2>3, GetMoves
    <2>5. CASE SawSize(r)
      <3>1. IsFile(Entry(r))
        <4>1. req[u] # Idle
          BY <1>2 DEF Serves, Idle, Ends
        <4>2. PutOf(req[u]) /\ req[u].pc = "ok"
          BY <1>2, <4>1 DEF TypeInv, StageInv, Stage, Asked, Serves
        <4>3. Entry(r) \in DOMAIN files /\ files \in Seq(Content)
          BY <1>2, <4>2 DEF PutOf, TypeInv, TypeOK
        <4>4. Entry(r) \in Nat /\ Entry(r) # 0
          BY <4>3
        <4> QED
          BY <4>4, NoneAssumption DEF IsFile, Dir
      <3> QED
        BY <1>2, <1>3, <2>5, <3>1 DEF SawSize, SizeOf
    <2>6. CASE OpenedToRead(r)
      <3>1. /\ req[r].pc = "stream" /\ req'[r].pc = "read" /\ req'[r].file = Entry(r)
            /\ req'[r].body = req[r].body /\ req'[r].size = req[r].size
        BY <2>6 DEF OpenedToRead
      <3>2. req[r].body = <<>>
        BY <2>3, <3>1 DEF GetOf
      <3>3. PICK b : b = req'[r].body
        OBVIOUS
      <3>4. b = <<>> /\ Len(b) = 0 /\ SubSeq(L, 1, Len(b)) = <<>>
        BY <3>1, <3>2, <3>3, <2>2
      <3> QED
        BY <1>2, <1>3, <1>4, <2>1, <2>2, <3>1, <3>3, <3>4
    <2>7. CASE TookRange(r)
      <3>1. /\ req[r].pc = "read" /\ req[r].ask.ranges # {} /\ req'[r].pc = "ok"
            /\ req'[r].body = ReadOf(files[req[r].file], ReadBytes(RangeOf(r), Len(files[req[r].file])))
        BY <2>7 DEF TookRange
      <3>2. files[req[r].file] = L /\ req[r].size = n
        BY <1>2, <1>4, <2>1, <3>1
      <3>3. PICK g : req[r].ask.ranges = {g}
        <4>1. Cardinality(req[r].ask.ranges) \in Nat /\ Cardinality(req[r].ask.ranges) <= 1
              /\ Cardinality(req[r].ask.ranges) # 0
          BY <2>3, <3>1, FS_CardinalityType, FS_EmptySet DEF GetOf
        <4>2. Cardinality(req[r].ask.ranges) = 1
          BY <4>1
        <4> QED
          BY <2>3, <4>2, FS_Singleton
      <3>4. PICK first, last : g = <<first, last>>
        BY <2>3, <3>3
      <3>5. /\ first \in Nat \cup {Absent} /\ last \in Nat \cup {Absent}
            /\ Accepted(first, last) /\ first # Absent
        <4>1. g \in req[r].ask.ranges
          BY <3>3
        <4>2. Accepted(g[1], g[2]) /\ g[1] # Absent
          BY <1>2, <2>3, <3>1, <4>1 DEF GetOf, Serves
        <4> QED
          BY <2>3, <3>4, <4>1, <4>2
      <3>6. RangeOf(r) = Prepared(set_range(first, last), n)
        <4>1. (CHOOSE h \in req[r].ask.ranges : TRUE) = g
          BY <3>3
        <4>2. g[1] = first /\ g[2] = last
          BY <3>4
        <4>3. RangeOf(r) = Prepared(set_range(g[1], g[2]), req[r].size)
          BY <4>1 DEF RangeOf
        <4>4. RangeOf(r) = Prepared(set_range(first, last), req[r].size)
          BY <4>2, <4>3
        <4> QED
          BY <3>2, <4>4
      <3>7. ReadBytes(RangeOf(r), n) = {i \in first .. (n - 1) : last = Absent \/ i <= last}
        BY <2>2, <3>5, <3>6, RangeIsWanted
      <3>8. Wanted(r, n) = {i \in first .. (n - 1) : last = Absent \/ i <= last}
        <4>1. Wanted(r, n) = UNION {{i \in h[1] .. (n - 1) : h[2] = Absent \/ i <= h[2]} : h \in {g}}
          BY <3>3 DEF Wanted
        <4> QED
          BY <3>4, <4>1
      <3>9. req'[r].body = ReadOf(L, Wanted(r, n))
        BY <2>1, <3>1, <3>2, <3>7, <3>8
      <3> QED
        BY <1>3, <2>1, <3>1, <3>9
    <2>8. CASE TookChunk(r)
      <3>1. /\ req[r].pc = "read" /\ req[r].ask.ranges = {}
            /\ req'[r].file = req[r].file /\ req'[r].size = req[r].size
        BY <2>8 DEF TookChunk
      <3>2. files[req[r].file] = L /\ req[r].size = n /\ req[r].file = req[u].file
        BY <1>2, <1>4, <2>1, <3>1
      <3>3. PICK b, m : b = req[r].body /\ m = Len(b)
        OBVIOUS
      <3>4. m \in Nat /\ m <= n /\ b = SubSeq(L, 1, m)
        <4>1. b \in Seq(Byte \cup {None})
          BY <1>0, <3>3 DEF ReqStates, Content
        <4> QED
          BY <1>4, <2>1, <3>1, <3>3, <4>1
      <3>5. PICK chunk, k : /\ k = ChunkEnd(m, n) /\ chunk = Between(L, m, k)
                            /\ \/ chunk = <<>> /\ req'[r].pc = "ok" /\ req'[r].body = b
                               \/ chunk # <<>> /\ req'[r].pc = "read" /\ req'[r].body = b \o chunk
        <4>1. PICK chunk : /\ chunk = SubSeq(L, m + 1, Min({m + ReadChunk, n}))
                           /\ \/ chunk = <<>> /\ req'[r].pc = "ok" /\ req'[r].body = b
                              \/ chunk # <<>> /\ req'[r].pc = "read" /\ req'[r].body = b \o chunk
          BY <2>1, <2>8, <3>2, <3>3 DEF TookChunk
        <4>2. chunk = Between(L, m, ChunkEnd(m, n))
          BY <4>1 DEF Between, ChunkEnd
        <4> QED
          BY <4>1, <4>2
      <3>6. /\ chunk = <<>> => m = n
            /\ SubSeq(L, 1, m) \o chunk = SubSeq(L, 1, k)
            /\ k \in Nat /\ k <= n /\ Len(SubSeq(L, 1, k)) = k
        <4>1. /\ k \in Nat /\ m <= k /\ k <= n /\ (m = k => m = n)
              /\ L \in Seq(Byte) /\ m \in Nat /\ k <= Len(L)
          BY <2>1, <2>2, <3>4, <3>5, ChunkEnds
        <4>2. /\ SubSeq(L, 1, m) \o Between(L, m, k) = SubSeq(L, 1, k)
              /\ Len(SubSeq(L, 1, k)) = k /\ Len(Between(L, m, k)) = k - m
          BY <4>1, PartsJoin
        <4>3. Between(L, m, k) = <<>> => Len(Between(L, m, k)) = 0
          OBVIOUS
        <4>4. k - m = 0 => m = k
          BY <4>1
        <4> QED
          BY <3>5, <4>1, <4>2, <4>3, <4>4
      <3>7. CASE chunk = <<>>
        <4>1. req'[r].pc = "ok" /\ req'[r].body = SubSeq(L, 1, n)
          BY <3>4, <3>5, <3>6, <3>7
        <4>2. SubSeq(L, 1, n) = L
          BY <2>1, <2>2
        <4>3. Wanted(r, n) = 0 .. n - 1
          BY <3>1 DEF Wanted
        <4>4. ReadOf(L, Wanted(r, n)) = L
          BY <2>1, <2>2, <4>3, ReadAll
        <4> QED
          BY <1>3, <2>1, <4>1, <4>2, <4>4
      <3>8. CASE chunk # <<>>
        <4>1. req'[r].pc = "read" /\ req'[r].body = SubSeq(L, 1, k) /\ Len(req'[r].body) = k
          BY <3>4, <3>5, <3>6, <3>8
        <4> QED
          BY <1>2, <1>3, <2>1, <3>1, <3>2, <3>6, <3>8, <4>1
      <3> QED
        BY <3>7, <3>8
    <2> QED
      BY <2>4, <2>5, <2>6, <2>7, <2>8
  <1> QED
    BY <1>5, <1>6

\* A step keeps that downloads are exact.
LEMMA DownloadStep ==
  ASSUME TypeInv, AfterInv, FilesInv, UploadInv, DownloadInv, [Next]_vars
  PROVE  DownloadInv'
  <1>1. CASE UNCHANGED vars
    <2>1. ASSUME NEW s \in Requests PROVE ComesLast(s)' <=> ComesLast(s)
      BY <1>1 DEF vars, ComesLast, Touched, Asked, Key
    <2>2. ASSUME NEW r \in Requests, NEW u \in Requests PROVE DownloadOf(r, u)' <=> DownloadOf(r, u)
      <3>1. Serves(u, r)' <=> Serves(u, r)
        BY <1>1, <2>1 DEF vars, Serves, Key
      <3>2. req' = req /\ LastPart(u)' = LastPart(u)
        BY <1>1 DEF vars, LastPart
      <3>3. Wanted(r, Len(LastPart(u)))' = Wanted(r, Len(LastPart(u)))
        BY <3>2 DEF Wanted
      <3> QED
        BY <3>1, <3>2, <3>3 DEF DownloadOf
    <2>3. /\ Asked("put")' = Asked("put") /\ Asked("get")' = Asked("get")
          /\ Asked("put") \subseteq Requests /\ Asked("get") \subseteq Requests
      BY <1>1 DEF vars, Asked
    <2> QED
      BY <2>2, <2>3 DEF DownloadInv
  <1>2. ASSUME NEW t \in Requests, Step(t) PROVE DownloadInv'
    <2>1. ASSUME NEW r \in Requests, NEW u \in Requests, (r \in Asked("get"))', (u \in Asked("put"))'
          PROVE  DownloadOf(r, u)'
      BY <1>2, <2>1, OneDownload
    <2>2. Asked("put")' \subseteq Requests /\ Asked("get")' \subseteq Requests
      BY DEF Asked
    <2> QED
      BY <2>1, <2>2 DEF DownloadInv
  <1> QED
    BY <1>1, <1>2 DEF Next

-----------------------------------------------------------------------------
(* The invariant *)

\* It holds at first, when nothing has been asked for.
LEMMA InitInv == Init => IInv
  <1> SUFFICES ASSUME Init PROVE IInv
    OBVIOUS
  <1>0. /\ users = {} /\ files = <<>> /\ req = [r \in Requests |-> Idle]
        /\ names = [e \in UserIds \X Paths |-> IF e[2] = FILES THEN Dir ELSE None]
    BY DEF Init
  <1>1. ASSUME NEW r \in Requests
        PROVE  /\ req[r] = Idle /\ req[r].pc = "idle" /\ req[r].ask = None /\ req[r].user = None
               /\ req[r].file = None /\ req[r].after = {} /\ req[r] \in ReqStates
    <2>1. <<>> \in Content
      BY DEF Content
    <2> QED
      BY <1>0, <2>1 DEF Idle, ReqStates, Pcs
  <1>2. Asked("put") = {} /\ Asked("get") = {}
    BY <1>1 DEF Asked
  <1>3. TypeOK
    <2>1. files \in Seq(Content) /\ Len(files) <= MaxFiles
      BY <1>0, BoundsAssumption
    <2>2. names \in [UserIds \X Paths -> {None, Dir} \cup DOMAIN files]
      BY <1>0
    <2>3. req \in [Requests -> ReqStates]
      BY <1>0, <1>1
    <2> QED
      BY <1>0, <1>1, <2>1, <2>2, <2>3 DEF TypeOK
  <1>4. UsersInv
    <2>1. IsFiniteSet(users) /\ Cardinality(users) = 0
      BY <1>0, FS_EmptySet
    <2> QED
      BY <1>0, <2>1 DEF UsersInv
  <1>5. OneUser /\ StageInv /\ AfterInv
    BY <1>0, <1>1 DEF OneUser, StageInv, AfterInv
  <1>6. CauseInv /\ FailsHaveCause
    BY <1>1 DEF CauseInv, CauseOf, FailsHaveCause
  <1>7. FilesInv
    <2>1. \A e \in UserIds \X Paths : names[e] = Dir \/ names[e] = None
      BY <1>0
    <2> QED
      BY <1>2, <2>1 DEF FilesInv, IsFile
  <1>8. UploadInv /\ DownloadInv
    BY <1>2 DEF UploadInv, DownloadInv
  <1> QED
    BY <1>3, <1>4, <1>5, <1>6, <1>7, <1>8 DEF IInv

\* What the requests know of their users, of the names that they ask for, of what crosses
\* them and of the files that they have open is an invariant, whatever the requests, their
\* ranges and parts, the identities, the sizes and the faults.
THEOREM FileInvariant == Spec => []IInv
  <1>1. ASSUME IInv, [Next]_vars PROVE IInv'
    <2>1. TypeInv /\ AfterInv /\ CauseInv /\ FilesInv /\ FailsHaveCause /\ UploadInv /\ DownloadInv
      BY <1>1 DEF IInv, TypeInv
    <2>2. TypeInv'
      BY <1>1, <2>1, TypeStep
    <2>3. AfterInv'
      BY <1>1, <2>1, AfterStep
    <2>4. CauseInv' /\ FailsHaveCause'
      BY <1>1, <2>1, CauseStep
    <2>5. FilesInv'
      BY <1>1, <2>1, FilesStep
    <2>6. UploadInv'
      BY <1>1, <2>1, UploadStep
    <2>7. DownloadInv'
      BY <1>1, <2>1, DownloadStep
    <2> QED
      BY <2>2, <2>3, <2>4, <2>5, <2>6, <2>7 DEF IInv, TypeInv
  <1> QED
    BY <1>1, InitInv, PTL DEF Spec

-----------------------------------------------------------------------------
(* What the runs check *)

\* Every variable keeps its type: a request never has a user without a row (auth.py), nor a
\* file that was never made (files.py).
THEOREM FileTypeOK == Spec => []TypeOK
  <1>1. IInv => TypeOK
    BY DEF IInv
  <1> QED
    BY <1>1, FileInvariant, PTL

\* However many first requests of however many identities come at once, an identity is one
\* user and has one workspace: the constraint on the table is enough (auth.py).
THEOREM OneUserPerIdentity == Spec => []OneUser
  <1>1. IInv => OneUser
    BY DEF IInv
  <1> QED
    BY <1>1, FileInvariant, PTL

\* A request fails only for what it asks or because of one that it crosses (files.py).
THEOREM NoFailureAlone == Spec => []FailsHaveCause
  <1>1. IInv => FailsHaveCause
    BY DEF IInv
  <1> QED
    BY <1>1, FileInvariant, PTL

\* What an upload that was answered with 200 has written stands until the next one, for
\* any number of parts and of users (upload_file).
THEOREM UploadsStand == Spec => []LastUploadStands
  <1>1. IInv => LastUploadStands
    <2> SUFFICES ASSUME IInv, NEW r \in Asked("put"), req[r].pc = "ok", ComesLast(r)
                 PROVE  /\ IsFile(Entry(r)) /\ files[Entry(r)] = LastPart(r)
                        /\ req[r].size = Len(LastPart(r))
      BY DEF LastUploadStands
    <2>1. TypeInv /\ TypeOK /\ UploadOf(r)
      BY DEF IInv, TypeInv, UploadInv
    <2>2. Entry(r) = req[r].file /\ files[Entry(r)] = LastPart(r) /\ req[r].size = Len(LastPart(r))
      BY <2>1 DEF UploadOf
    <2>3. r \in Requests /\ Stage(req[r])
      BY <2>1, PutFacts
    <2>4. req[r].file # None
      BY <2>3 DEF Stage, PutOf, Asked
    <2>5. req[r].file \in DOMAIN files /\ files \in Seq(Content)
      BY <2>1, <2>3, <2>4 DEF TypeOK
    <2>6. req[r].file # Dir
      BY <2>5 DEF Dir
    <2> QED
      BY <2>2, <2>4, <2>6 DEF IsFile
  <1> QED
    BY <1>1, FileInvariant, PTL

\* A download that nothing crosses yields exactly the bytes it asks for, whatever the range
\* and however large the file and the chunks (download_file, iterfile).
THEOREM DownloadsAreExact == Spec => []DownloadExact
  <1>1. IInv => DownloadExact
    <2> SUFFICES ASSUME IInv, NEW r \in Asked("get"), NEW u \in Asked("put"),
                        req[r].pc = "ok", req[r].file # None, \A g \in req[r].ask.ranges : g[1] # Absent,
                        req[u].pc = "ok", Key(u) = Key(r), ComesLast(u), ComesLast(r)
                 PROVE  LET want == Wanted(r, Len(LastPart(u)))
                        IN  req[r].body = [j \in 1 .. Cardinality(want) |-> LastPart(u)[Min(want) + j]]
      BY DEF DownloadExact
    <2>1. Serves(u, r) /\ DownloadOf(r, u)
      BY DEF IInv, DownloadInv, Serves
    <2>2. req[r].body = ReadOf(LastPart(u), Wanted(r, Len(LastPart(u))))
      BY <2>1 DEF DownloadOf
    <2> QED
      BY <2>2 DEF ReadOf
  <1> QED
    BY <1>1, FileInvariant, PTL

-----------------------------------------------------------------------------
(* Links *)

\* Only the first step of a request denies it.
LEMMA NotDenied ==
  ASSUME TypeInv, NEW r \in Requests, Step(r), req[r].pc \notin {"idle", "create"}
  PROVE  req'[r].pc # "denied"
  <1> DEFINE p == req[r]
  <1>0. req \in [Requests -> ReqStates] /\ p \in ReqStates /\ p.pc # "denied"
    <2>1. p.pc \notin Ends
      BY StepFacts
    <2> QED
      BY <2>1 DEF TypeInv, TypeOK, Ends
  <1>1. ASSUME NEW pc, To(r, pc), pc # "denied" PROVE req'[r].pc # "denied"
    BY <1>1, ToPc
  <1>2. ASSUME NEW x, req' = [req EXCEPT ![r] = x], x.pc = p.pc \/ x.pc \in {"write", "open", "stat", "ok", "sizes", "stream", "read"}
        PROVE  req'[r].pc # "denied"
    BY <1>0, <1>2
  <1>3. CASE \/ SubDir(r) \/ MkDir(r) \/ MakeDirs(r) \/ Receive(r)
             \/ Exists(r) \/ Remove(r) \/ Look(r) \/ Tar(r)
    <2>1. \E pc \in Pcs \ {"denied"} : To(r, pc)
      BY <1>3 DEF SubDir, MkDir, MakeDirs, Receive, Exists, Remove, Look, Tar, Pcs, Ends
    <2> QED
      BY <1>1, <2>1
  <1>4. CASE Open(r)
    <2>1. CASE To(r, "dir")
      BY <1>1, <2>1
    <2>2. CASE ~To(r, "dir")
      <3>1. PICK f, x : x = [p EXCEPT !.file = f, !.pc = "write", !.size = 0] /\ req' = [req EXCEPT ![r] = x]
        BY <1>4, <2>2 DEF Open
      <3>2. x.pc = "write"
        BY <1>0, <3>1 DEF ReqStates
      <3> QED
        BY <1>2, <3>1, <3>2
    <2> QED
      BY <2>1, <2>2
  <1>5. CASE Write(r)
    <2>1. CASE To(r, "disk")
      BY <1>1, <2>1
    <2>2. CASE ~To(r, "disk")
      <3>1. PICK n, x : x = [p EXCEPT !.size = n] /\ req' = [req EXCEPT ![r] = x]
        BY <1>5, <2>2 DEF Write
      <3>2. x.pc = p.pc
        BY <1>0, <3>1 DEF ReqStates
      <3> QED
        BY <1>2, <3>1, <3>2
    <2> QED
      BY <2>1, <2>2
  <1>6. CASE Written(r)
    <2>1. CASE To(r, "text")
      BY <1>1, <2>1
    <2>2. CASE ~To(r, "text")
      <3>1. PICK n, x : /\ x = [p EXCEPT !.part = n, !.pc = "open"] \/ x = [p EXCEPT !.pc = "stat"]
                        /\ req' = [req EXCEPT ![r] = x]
        BY <1>6, <2>2 DEF Written
      <3>2. x.pc \in {"open", "stat"}
        BY <1>0, <3>1 DEF ReqStates
      <3> QED
        BY <1>2, <3>1, <3>2
    <2> QED
      BY <2>1, <2>2
  <1>7. CASE Stat(r)
    <2>1. CASE To(r, "gone")
      BY <1>1, <2>1
    <2>2. CASE ~To(r, "gone")
      <3>1. PICK n, x : x = [p EXCEPT !.size = n, !.pc = "ok"] /\ req' = [req EXCEPT ![r] = x]
        BY <1>7, <2>2 DEF Stat
      <3>2. x.pc = "ok"
        BY <1>0, <3>1 DEF ReqStates
      <3> QED
        BY <1>2, <3>1, <3>2
    <2> QED
      BY <2>1, <2>2
  <1>8. CASE Ls(r) \/ Size(r)
    <2>1. CASE \E pc \in {"ok", "gone"} : To(r, pc)
      BY <1>1, <2>1
    <2>2. CASE ~\E pc \in {"ok", "gone"} : To(r, pc)
      <3>1. PICK s, x : /\ x = [p EXCEPT !.seen = s, !.pc = "sizes"] \/ x = [p EXCEPT !.seen = s]
                        /\ req' = [req EXCEPT ![r] = x]
        BY <1>8, <2>2 DEF Ls, Size
      <3>2. x.pc \in {"sizes", p.pc}
        BY <1>0, <3>1 DEF ReqStates
      <3> QED
        BY <1>2, <3>1, <3>2
    <2> QED
      BY <2>1, <2>2
  <1>9. CASE FSize(r)
    <2>1. CASE \E pc \in {"gone", "ok", "range", "refused"} : To(r, pc)
      BY <1>1, <2>1
    <2>2. CASE req' = [req EXCEPT ![r].size = SizeOf(Entry(r)), ![r].pc = "stream"]
      <3>1. PICK n, x : x = [p EXCEPT !.size = n, !.pc = "stream"] /\ req' = [req EXCEPT ![r] = x]
        BY <2>2
      <3>2. x.pc = "stream"
        BY <1>0, <3>1 DEF ReqStates
      <3> QED
        BY <1>2, <3>1, <3>2
    <2> QED
      BY <1>9, <2>1, <2>2 DEF FSize
  <1>10. CASE Stream(r)
    <2>1. CASE To(r, "gone")
      BY <1>1, <2>1
    <2>2. CASE ~To(r, "gone")
      <3>1. PICK f, x : x = [p EXCEPT !.file = f, !.pc = "read"] /\ req' = [req EXCEPT ![r] = x]
        BY <1>10, <2>2 DEF Stream
      <3>2. x.pc = "read"
        BY <1>0, <3>1 DEF ReqStates
      <3> QED
        BY <1>2, <3>1, <3>2
    <2> QED
      BY <2>1, <2>2
  <1>11. CASE ReadRange(r) \/ ReadChunks(r)
    <2>1. PICK b, x : /\ \/ x = [p EXCEPT !.pc = "ok", !.body = b]
                         \/ x = [p EXCEPT !.pc = "ok"]
                         \/ x = [p EXCEPT !.body = b]
                      /\ req' = [req EXCEPT ![r] = x]
      BY <1>11 DEF ReadRange, ReadChunks
    <2>2. x.pc \in {"ok", p.pc}
      BY <1>0, <2>1 DEF ReqStates
    <2> QED
      BY <1>2, <2>1, <2>2
  <1>12. ~WithToken(r) /\ ~WithLink(r) /\ ~CreateUser(r)
    <2>1. req[r] # Idle
      BY DEF Idle
    <2> QED
      BY <2>1 DEF WithToken, WithLink, Begin, CreateUser
  <1> QED
    BY <1>3, <1>4, <1>5, <1>6, <1>7, <1>8, <1>9, <1>10, <1>11, <1>12 DEF Step

\* In a time zone without an offset a link is valid when it was signed with the key.
LEMMA ValidLink ==
  ASSUME Zone = 0, NEW path, NEW user, NEW k
  PROVE  /\ Link(path, user, 7, k).user = user /\ Link(path, user, 7, k).signature[1] = k
         /\ k = TheKey => validate_signed_url(Link(path, user, 7, k), TheKey)
  <1>1. PICK s : s = <<k, path, 7, user>>
    OBVIOUS
  <1>2. PICK l : l = Link(path, user, 7, k)
    OBVIOUS
  <1>3. /\ l.path = path /\ l.user = user /\ l.expires = 7 /\ l.signature = s
        /\ Query(l) = [expires |-> 7, user |-> user, signature |-> s]
    BY <1>1, <1>2 DEF Link, sign_url, Query
  <1>4. s[1] = k
    BY <1>1
  <1>5. ASSUME k = TheKey PROVE validate_signed_url(l, TheKey)
    <2>1. Local(7) = 7
      BY DEF Local
    <2>2. Query(sign_url(path, user, 7, TheKey)) = [expires |-> 7, user |-> user, signature |-> s]
      BY <1>1, <1>5 DEF Query, sign_url
    <2> QED
      BY <1>3, <2>1, <2>2 DEF validate_signed_url
  <1> QED
    BY <1>2, <1>3, <1>4, <1>5

\* A request begins with a link that is for its user, or denies one of another key.
LEMMA LinkBegins ==
  ASSUME TypeInv, Zone = 0, NEW r \in Requests, WithLink(r)
  PROVE  /\ req'[r].pc = "denied" => req'[r].ask.sub.signature[1] # TheKey
         /\ req'[r].user # None => req'[r].user = req'[r].ask.sub.user
  <1>0. req \in [Requests -> ReqStates]
    BY DEF TypeInv, TypeOK
  <1>1. PICK a \in Asks, row \in users, k \in Keys :
          LET l == Link(a.path, row[1], 7, k) IN
          IF validate_signed_url(l, TheKey) THEN Begin(r, [a EXCEPT !.sub = l], l.user, First(a))
          ELSE Begin(r, [a EXCEPT !.sub = l], None, "denied")
    BY DEF WithLink
  <1>2. PICK l : l = Link(a.path, row[1], 7, k)
    OBVIOUS
  <1>3. PICK b : b = [a EXCEPT !.sub = l]
    OBVIOUS
  <1>4. IF validate_signed_url(l, TheKey) THEN Begin(r, b, l.user, First(a)) ELSE Begin(r, b, None, "denied")
    BY <1>1, <1>2, <1>3
  <1>5. b.sub = l
    <2>1. a \in AskTypes(Subs \cup {None})
      BY AsksAssumption
    <2> QED
      BY <1>3, <2>1 DEF AskTypes
  <1>6. l.signature[1] = k /\ (k = TheKey => validate_signed_url(l, TheKey))
    BY <1>2, ValidLink
  <1>7. ASSUME NEW user, NEW pc, Begin(r, b, user, pc)
        PROVE  req'[r].ask = b /\ req'[r].user = user /\ req'[r].pc = pc
    BY <1>0, <1>7 DEF Begin, Idle
  <1>8. First(a) # "denied"
    BY FirstIs
  <1>9. CASE validate_signed_url(l, TheKey)
    BY <1>4, <1>5, <1>7, <1>8, <1>9
  <1>10. CASE ~validate_signed_url(l, TheKey)
    <2>1. req'[r].ask = b /\ req'[r].user = None
      BY <1>4, <1>7, <1>10
    <2> QED
      BY <1>5, <1>6, <1>10, <2>1
  <1> QED
    BY <1>9, <1>10

\* Where the local time is UTC, a link that get_results made is taken for the user it was
\* made for, as long as the key is the same (signed_url_or_validate).  Elsewhere the offset
\* goes into the time of expiry that is signed again, and nothing is claimed.
THEOREM LinksServe == Zone = 0 => (Spec => []LinkServes)
  <1> SUFFICES ASSUME Zone = 0 PROVE Spec => []LinkServes
    OBVIOUS
  <1>1. Init => LinkServes
    BY DEF Init, LinkServes, Idle
  <1>2. ASSUME IInv, LinkServes, [Next]_vars PROVE LinkServes'
    <2>1. CASE UNCHANGED vars
      BY <1>2, <2>1 DEF vars, LinkServes
    <2>2. ASSUME NEW r \in Requests, Step(r) PROVE LinkServes'
      <3>0. TypeInv
        BY <1>2 DEF IInv, TypeInv
      <3> SUFFICES ASSUME NEW s \in Requests, req'[s].ask # None, req'[s].ask.sub \notin Subs
                   PROVE  /\ req'[s].pc = "denied" => req'[s].ask.sub.signature[1] # TheKey
                          /\ req'[s].user # None => req'[s].user = req'[s].ask.sub.user
        BY DEF LinkServes
      <3>1. CASE s # r
        <4>1. req'[s] = req[s]
          BY <2>2, <3>0, <3>1, StepFacts
        <4> QED
          BY <1>2, <4>1 DEF LinkServes
      <3>2. CASE s = r /\ WithLink(r)
        BY <3>0, <3>2, LinkBegins
      <3>3. CASE s = r /\ WithToken(r)
        <4>1. PICK a, user, pc : a \in Asks /\ a.sub # None /\ Begin(r, a, user, pc)
          BY <3>3 DEF WithToken
        <4>2. req'[r].ask = a
          BY <3>0, <4>1 DEF Begin, Idle, TypeInv, TypeOK
        <4>3. a.sub \in Subs
          BY <4>1, AsksAssumption DEF AskTypes
        <4> QED
          BY <3>3, <4>2, <4>3
      <3>4. CASE s = r /\ ~WithLink(r) /\ ~WithToken(r)
        <4>1. req[r] # Idle /\ req[r].pc # "idle"
          <5>1. ASSUME req[r] = Idle PROVE FALSE
            BY <2>2, <3>4, <5>1 DEF Step, CreateUser, SubDir, MkDir, MakeDirs, Receive, Open, Write, Written, Stat,
               Exists, Remove, Ls, Size, Look, Tar, FSize, Stream, ReadRange, ReadChunks, Idle
          <5> QED
            BY <2>2, <3>0, <5>1, BeginPc
        <4>2. req'[r].ask = req[r].ask /\ Stage(req[r]) /\ req[r].ask # None
          BY <2>2, <3>0, <4>1, StepFacts, NoneAssumption
        <4>3. req[r].pc # "create"
          BY <3>4, <4>2 DEF Stage, StageOf
        <4>4. req'[r].user = req[r].user /\ req'[r].pc # "denied"
          BY <2>2, <3>0, <4>1, <4>3, StepFacts, NotDenied
        <4> QED
          BY <1>2, <3>4, <4>2, <4>4 DEF LinkServes
      <3> QED
        BY <3>1, <3>2, <3>3, <3>4
    <2> QED
      BY <1>2, <2>1, <2>2 DEF Next
  <1> QED
    BY <1>1, <1>2, FileInvariant, PTL DEF Spec
=============================================================================
