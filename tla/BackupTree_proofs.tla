------------------------- MODULE BackupTree_proofs -------------------------
(***************************************************************************)
(* The calls of one run over a tree of folders, and the source it reads,   *)
(* for every tree, every set of options, keys and faults, and any depth.   *)
(*                                                                         *)
(* The inductive invariant has two layers.  Of the calls, that each was    *)
(* made from where its caller can call it (Stacked), which is what makes   *)
(* the one cursor of a folder object belong to the innermost call.  Of the *)
(* files, that there is a call to restore only after an answer "r".        *)
(*                                                                         *)
(* On it stands the invariant of what the run removes, as long as status   *)
(* calls are true and no file is dated 0: it says of what is still to be   *)
(* removed, too, that it is doomed.  Each call of deleteFolder is for a    *)
(* folder that is, and what it lists and notes is in that folder (Meant,   *)
(* ListedInside).                                                          *)
(***************************************************************************)
EXTENDS BackupTree, SequenceTheorems, TLAPS

\* Where the call c is when it calls b.
Calls(c, b) ==
    \/ c.op = b.op /\ c.pc = "recurse"
    \/ c.op = "backup" /\ c.pc = "check" /\ b.op # "backup"

\* Each call is one its caller can make, and the outermost is to BackupThis.
Stacked(st) ==
    /\ st \in Seq(CallType)
    /\ \A i \in 1..(Len(st) - 1) : Calls(st[i + 1], st[i])
    /\ st # <<>> => st[Len(st)].op = "backup"

Restoring(st) == \E i \in 1..Len(st) : st[i].op = "restore"

Asked == \E m \in Node : "r" \in answer[m]

\* A restore that is past its listing has closed the cursor.
RestoreCloses == In("restore", "recurse") => cursor["dst"].dir = Absent

TreeInv ==
    /\ TypeOK
    /\ Stacked(stack)
    /\ CursorIsMine
    /\ RestoreCloses
    /\ Restoring(stack) => Asked
    /\ SourceKeptUnlessAsked

-----------------------------------------------------------------------------
(* Stacks of calls.                                                        *)

LEMMA TopIsCall ==
    ASSUME NEW st, Stacked(st), st # <<>>
    PROVE  /\ Head(st) \in CallType
           /\ Head(st) = st[1]
           /\ Tail(st) \in Seq(CallType)
BY DEF Stacked

\* The innermost call goes on to its next point.
LEMMA TopChanged ==
    ASSUME NEW st, Stacked(st), st # <<>>,
           NEW f \in CallType, f.op = Head(st).op
    PROVE  /\ Stacked(<<f>> \o Tail(st))
           /\ <<f>> \o Tail(st) # <<>>
           /\ Head(<<f>> \o Tail(st)) = f
           /\ Restoring(<<f>> \o Tail(st)) => Restoring(st)
<1> DEFINE new == <<f>> \o Tail(st)
<1>1. new \in Seq(CallType) /\ Len(new) = Len(st) /\ new # <<>> /\ Head(new) = f
  BY DEF Stacked
<1>2. new[1] = f /\ \A i \in 2..Len(st) : new[i] = st[i]
  BY DEF Stacked
<1>3. Len(st) \in Nat \ {0} /\ st[1].op = f.op
  BY DEF Stacked
<1>4. \A i \in 1..Len(st) : new[i].op = st[i].op
  BY <1>2, <1>3
<1>5. \A i \in 1..(Len(new) - 1) : Calls(new[i + 1], new[i])
  <2> TAKE i \in 1..(Len(new) - 1)
  <2>1. Calls(st[i + 1], st[i])
    BY <1>1 DEF Stacked
  <2>2. new[i + 1] = st[i + 1] /\ new[i].op = st[i].op
    BY <1>1, <1>2, <1>3, <1>4
  <2> QED BY <2>1, <2>2 DEF Calls
<1>6. new[Len(new)].op = "backup"
  BY <1>1, <1>3, <1>4 DEF Stacked
<1>7. Restoring(new) => Restoring(st)
  BY <1>1, <1>4 DEF Restoring
<1> QED BY <1>1, <1>5, <1>6, <1>7 DEF Stacked

LEMMA CallPushed ==
    ASSUME NEW st, Stacked(st), st # <<>>,
           NEW b \in CallType, Calls(Head(st), b)
    PROVE  /\ Stacked(<<b>> \o st)
           /\ <<b>> \o st # <<>>
           /\ Head(<<b>> \o st) = b
           /\ Restoring(<<b>> \o st) => b.op = "restore" \/ Restoring(st)
<1> DEFINE new == <<b>> \o st
<1>1. new \in Seq(CallType) /\ Len(new) = Len(st) + 1 /\ new # <<>> /\ Head(new) = b
  BY DEF Stacked
<1>2. new[1] = b /\ \A i \in 1..Len(st) : new[i + 1] = st[i]
  BY DEF Stacked
<1>3. Len(st) \in Nat \ {0} /\ Head(st) = st[1]
  BY DEF Stacked
<1>4. \A i \in 1..(Len(new) - 1) : Calls(new[i + 1], new[i])
  <2> TAKE i \in 1..(Len(new) - 1)
  <2>1. CASE i = 1
    BY <2>1, <1>2, <1>3
  <2>2. CASE i # 1
    <3>1. i - 1 \in 1..(Len(st) - 1) /\ i \in 1..Len(st)
      BY <1>1, <1>3, <2>2
    <3>2. new[i + 1] = st[i] /\ new[(i - 1) + 1] = st[i - 1]
      BY <3>1, <1>2, <1>3
    <3>3. Calls(st[(i - 1) + 1], st[i - 1])
      BY <3>1 DEF Stacked
    <3>4. (i - 1) + 1 = i
      OBVIOUS
    <3> QED BY <3>2, <3>3, <3>4
  <2> QED BY <2>1, <2>2
<1>5. new[Len(new)].op = "backup"
  BY <1>1, <1>2, <1>3 DEF Stacked
<1>6. ASSUME Restoring(new), b.op # "restore"
      PROVE  Restoring(st)
  <2>1. PICK i \in 1..Len(new) : new[i].op = "restore"
    BY <1>6 DEF Restoring
  <2>2. i - 1 \in 1..Len(st) /\ (i - 1) + 1 = i
    BY <2>1, <1>1, <1>2, <1>3, <1>6
  <2>3. st[i - 1].op = "restore"
    BY <2>1, <2>2, <1>2
  <2> QED BY <2>2, <2>3 DEF Restoring
<1> QED BY <1>1, <1>4, <1>5, <1>6 DEF Stacked

LEMMA CallReturned ==
    ASSUME NEW st, Stacked(st), st # <<>>
    PROVE  /\ Stacked(Tail(st))
           /\ Tail(st) # <<>> =>
                  Head(Tail(st)) = st[2] /\ Calls(st[2], Head(st)) /\ st[2] \in CallType
           /\ Head(st).op # "backup" => Tail(st) # <<>>
           /\ Restoring(Tail(st)) => Restoring(st)
<1> DEFINE new == Tail(st)
<1>1. new \in Seq(CallType) /\ Len(new) = Len(st) - 1 /\ Len(st) \in Nat \ {0}
  BY DEF Stacked
<1>2. \A i \in 1..Len(new) : new[i] = st[i + 1] /\ i + 1 \in 1..Len(st)
  BY <1>1 DEF Stacked
<1>3. ASSUME NEW i \in 1..(Len(new) - 1)
      PROVE  Calls(new[i + 1], new[i])
  <2>1. i + 1 \in 1..(Len(st) - 1) /\ i \in 1..Len(new) /\ i + 1 \in 1..Len(new)
    BY <1>1
  <2>2. Calls(st[(i + 1) + 1], st[i + 1])
    BY <2>1 DEF Stacked
  <2> QED BY <1>2, <2>1, <2>2
<1>4. new # <<>> => new[Len(new)].op = "backup"
  <2> HAVE new # <<>>
  <2>1. Len(new) \in 1..Len(new) /\ Len(new) + 1 = Len(st)
    BY <1>1
  <2> QED BY <1>2, <2>1, <1>1 DEF Stacked
<1>5. new # <<>> => Head(new) = st[2] /\ Calls(st[2], Head(st)) /\ st[2] \in CallType
  <2> HAVE new # <<>>
  <2>1. Len(new) \in Nat \ {0} /\ Head(new) = new[1] /\ Head(st) = st[1]
    BY <1>1 DEF Stacked
  <2>2. 1 \in 1..Len(new) /\ 1 \in 1..(Len(st) - 1)
    BY <1>1, <2>1
  <2>3. new[1] = st[2] /\ Calls(st[1 + 1], st[1]) /\ new[1] \in CallType
    BY <1>1, <1>2, <2>2 DEF Stacked
  <2> QED BY <2>1, <2>3
<1>6. Head(st).op # "backup" => new # <<>>
  <2>1. new = <<>> => Len(st) = 1
    <3> HIDE DEF new
    <3> QED BY <1>1, EmptySeq
  <2>2. Head(st) = st[1] /\ st[Len(st)].op = "backup"
    BY DEF Stacked
  <2> QED BY <2>1, <2>2
<1>7. Restoring(new) => Restoring(st)
  BY <1>2 DEF Restoring
<1> QED BY <1>1, <1>3, <1>4, <1>5, <1>6, <1>7 DEF Stacked

-----------------------------------------------------------------------------
(* The two layers.                                                         *)

\* Every entry is in a folder.
Rooted == \A s \in Side, n \in Node : fs[s][n] # Absent => CanList(s, Parent[n])

FilesOK ==
    /\ fs \in [Side -> [Node -> TreeEntry]]
    /\ Rooted
    /\ answer \in [Node -> SUBSET {"1", "l", "b", "d", "r"}]

CursorType == [Side -> [dir : Node \cup {Absent}, left : SUBSET Node]]

\* What the innermost call t knows of the cursors c.
Mine(t, c) ==
    /\ t.op = "backup" /\ t.pc = "scan" => c["src"].dir = t.dir
    /\ t.op = "backup" /\ t.pc = "check" => c["dst"].dir \in {t.dir, Absent}
    /\ t.op \in {"delete", "restore"} /\ t.pc = "scan" => c["dst"].dir = t.dir
    /\ t.op = "restore" /\ t.pc = "recurse" => c["dst"].dir = Absent

CallsOK ==
    /\ Stacked(stack)
    /\ cursor \in CursorType
    /\ stack # <<>> => Mine(Top, cursor)
    /\ Restoring(stack) => Asked

LEMMA LayersOfInv == TreeInv => FilesOK /\ CallsOK
BY DEF TreeInv, FilesOK, CallsOK, TypeOK, Rooted, CursorType, CursorIsMine, RestoreCloses, Mine, In

-----------------------------------------------------------------------------
(* Files.                                                                  *)

\* One entry changes. What becomes an entry is in a folder, and a folder that
\* has anything in it stays one.
LEMMA EntryChanged ==
    ASSUME fs \in [Side -> [Node -> TreeEntry]], Rooted,
           NEW s \in Side, NEW n \in Node, NEW e \in TreeEntry,
           fs' = [fs EXCEPT ![s][n] = e],
           e # Absent => CanList(s, Parent[n]),
           \/ e # Absent /\ e.kind = "dir"
           \/ ~Is(s, n, "dir")
           \/ e = Absent /\ Listing(s, n) = {}
    PROVE  /\ fs' \in [Side -> [Node -> TreeEntry]]
           /\ Rooted'
           /\ \A t \in Side : t # s => fs'[t] = fs[t]
<1>1. fs' \in [Side -> [Node -> TreeEntry]] /\ \A t \in Side : t # s => fs'[t] = fs[t]
  OBVIOUS
<1>2. fs'[s][n] = e /\ \A m \in Node : m # n => fs'[s][m] = fs[s][m]
  OBVIOUS
<1>3. ASSUME NEW t \in Side, NEW m \in Node, fs'[t][m] # Absent
      PROVE  fs'[t][Parent[m]] # Absent /\ fs'[t][Parent[m]].kind = "dir"
  <2>1. Parent[m] \in Node
    BY TreeAssumption
  <2>2. CASE t # s
    BY <1>1, <1>3, <2>1, <2>2 DEF Rooted, CanList, Is
  <2>3. CASE t = s /\ m = n
    BY <1>2, <2>1, <2>3, <1>3 DEF CanList, Is
  <2>4. CASE t = s /\ m # n
    <3>1. fs[s][m] # Absent /\ CanList(s, Parent[m])
      BY <1>2, <1>3, <2>4 DEF Rooted
    <3>2. CASE Parent[m] # n
      BY <1>2, <2>1, <2>4, <3>1, <3>2 DEF CanList, Is
    <3>3. CASE Parent[m] = n
      <4>1. m \in Listing(s, n) /\ Is(s, n, "dir")
        BY <2>4, <3>1, <3>3 DEF Listing, CanList
      <4> QED BY <1>2, <2>4, <3>3, <4>1
    <3> QED BY <3>2, <3>3
  <2> QED BY <2>2, <2>3, <2>4
<1> QED BY <1>1, <1>3 DEF Rooted, CanList, Is

LEMMA CopiesAreFiles ==
    ASSUME fs \in [Side -> [Node -> TreeEntry]],
           NEW s \in Side, NEW n \in Node, fs[s][n] # Absent,
           NEW o \in Outcomes(s, n)
    PROVE  \/ o.entry = fs[Opposite(s)][n]
           \/ /\ o.entry \in [kind: Kind, data: Seq(Version), mtime: Nat]
              /\ CanList(Opposite(s), Parent[n])
              /\ ~Is(Opposite(s), n, "dir")
<1> DEFINE e == fs[s][n]
           cuts == {FileEntry(d, Now) : d \in Parts(e.data)}
<1>1. e \in [kind: Kind, data: Seq(Version), mtime: Nat]
  BY DEF TreeEntry
<1>2. Now \in Nat
  BY TreeAssumption
<1>3. ASSUME NEW d \in Seq(Version), NEW t \in Nat
      PROVE  FileEntry(d, t) \in [kind: Kind, data: Seq(Version), mtime: Nat]
  BY DEF FileEntry, Kind
<1>4. cuts \subseteq [kind: Kind, data: Seq(Version), mtime: Nat]
  <2>1. \A k \in 0..(Len(e.data) - 1) : SubSeq(e.data, 1, k) \in Seq(Version)
    BY <1>1
  <2> QED BY <1>2, <1>3, <2>1 DEF Parts
<1>5. ASSUME NEW u \in {e.data, <<>>}, NEW d \in {e.mtime, Now}
      PROVE  FileEntry(u, d) \in [kind: Kind, data: Seq(Version), mtime: Nat]
  <2>1. u \in Seq(Version)
    BY <1>1, EmptySeq
  <2>2. d \in Nat
    BY <1>1, <1>2
  <2> QED BY <1>3, <2>1, <2>2
<1>6. \/ o.entry = fs[Opposite(s)][n]
      \/ /\ \/ o.entry \in cuts
            \/ \E u \in {e.data, <<>>}, d \in {e.mtime, Now} : o.entry = FileEntry(u, d)
         /\ CanList(Opposite(s), Parent[n])
         /\ ~Is(Opposite(s), n, "dir")
  BY DEF Outcomes, Refused
<1> QED BY <1>4, <1>5, <1>6

LEMMA TransferKeepsTree ==
    ASSUME FilesOK,
           NEW s \in Side, NEW n \in Node, fs[s][n] # Absent,
           NEW c, NEW after, Transfer(s, n, c, after)
    PROVE  /\ fs' \in [Side -> [Node -> TreeEntry]]
           /\ Rooted'
           /\ fs'[s] = fs[s]
<1>1. PICK o \in Outcomes(s, n) : fs' = [fs EXCEPT ![Opposite(s)][n] = o.entry]
  BY DEF Transfer
<1>2. Opposite(s) \in Side /\ Opposite(s) # s
  BY DEF Side, Opposite
<1>3. CASE o.entry = fs[Opposite(s)][n]
  <2>1. fs' = fs
    BY <1>1, <1>2, <1>3 DEF FilesOK
  <2> QED BY <2>1 DEF FilesOK, Rooted, CanList, Is
<1>4. CASE /\ o.entry \in [kind: Kind, data: Seq(Version), mtime: Nat]
           /\ CanList(Opposite(s), Parent[n])
           /\ ~Is(Opposite(s), n, "dir")
  <2>1. o.entry \in TreeEntry
    BY <1>4 DEF TreeEntry
  <2> QED BY <1>1, <1>2, <1>4, <2>1, EntryChanged DEF FilesOK
<1> QED BY <1>3, <1>4, CopiesAreFiles DEF FilesOK

\* There is a backup to ask about.
LEMMA AskedOfBackup ==
    ASSUME NEW n \in Node, QuestionNewer(n)
    PROVE  fs["src"][n] # Absent /\ fs["dst"][n] # Absent
<1>1. fs["src"][n] # Absent
  BY DEF QuestionNewer, FileToScan, ScanOf, Is
<1>2. PICK s \in SrcViews(n), d \in DstViews(n) : NewerBackup(s, d)
  BY DEF QuestionNewer
<1>3. d.mtime # 0 /\ d.mtime \in Answers(getModTime(fs["dst"][n]))
  BY <1>2 DEF NewerBackup, DstViews, Views
<1>4. getModTime(fs["dst"][n]) # 0
  BY <1>3 DEF Answers
<1> QED BY <1>1, <1>4 DEF getModTime

LEMMA Answered ==
    ASSUME FilesOK, NEW n \in Node, NEW k \in {"1", "l", "b", "d", "r"},
           answer' = Said(n, k)
    PROVE  /\ answer' \in [Node -> SUBSET {"1", "l", "b", "d", "r"}]
           /\ Asked => Asked'
           /\ k = "r" => Asked'
BY DEF FilesOK, Said, Asked

\* The source changes only after an answer "r".
Respected == (Asked => Asked') /\ (fs'["src"] = fs["src"] \/ Asked')

\* Steps that write nothing.
LEMMA ReadingRespects ==
    ASSUME FilesOK, UNCHANGED <<fs, answer>>
    PROVE  FilesOK' /\ Respected
BY DEF FilesOK, Rooted, CanList, Is, Respected, Asked

LEMMA AnswerRespects ==
    ASSUME FilesOK, NEW n \in Node,
           LeaveNewer(n) \/ LeaveNewerAndAbort(n) \/ LeaveOrphan(n)
               \/ DeleteOrphanFolder(n) \/ RestoreOrphanFolder(n)
    PROVE  FilesOK' /\ Respected
<1>1. UNCHANGED fs
  BY DEF LeaveNewer, LeaveNewerAndAbort, LeaveOrphan, DeleteOrphanFolder, RestoreOrphanFolder
<1>2. UNCHANGED answer \/ \E k \in {"1", "l", "b", "d", "r"} : answer' = Said(n, k)
  BY DEF LeaveNewer, LeaveNewerAndAbort, LeaveOrphan, DeleteOrphanFolder, RestoreOrphanFolder,
         Deletes
<1>3. answer' \in [Node -> SUBSET {"1", "l", "b", "d", "r"}] /\ (Asked => Asked')
  BY <1>2, Answered DEF FilesOK, Asked
<1> QED BY <1>1, <1>3 DEF FilesOK, Rooted, CanList, Is, Respected

LEMMA BackupRespects ==
    ASSUME FilesOK, NEW n \in Node, UpdateFile(n) \/ BackupNewer(n)
    PROVE  FilesOK' /\ Respected
<1>1. Transfer("src", n, "src", Assigned) /\ fs["src"][n] # Absent
  BY AskedOfBackup DEF UpdateFile, BackupNewer, FileToScan, ScanOf, Is
<1>2. /\ fs' \in [Side -> [Node -> TreeEntry]]
      /\ Rooted'
      /\ fs'["src"] = fs["src"]
  BY <1>1, TransferKeepsTree DEF Side
<1>3. answer' \in [Node -> SUBSET {"1", "l", "b", "d", "r"}] /\ (Asked => Asked')
  BY Answered DEF UpdateFile, BackupNewer, FilesOK, Asked
<1> QED BY <1>2, <1>3 DEF FilesOK, Respected

LEMMA RestoreRespects ==
    ASSUME FilesOK, NEW n \in Node, RestoreNewer(n) \/ RestoreOrphan(n)
    PROVE  FilesOK' /\ Respected
<1>1. fs["dst"][n] # Absent /\ \E c, after : Transfer("dst", n, c, after)
  BY AskedOfBackup DEF RestoreNewer, RestoreOrphan, Orphan, Is
<1>2. fs' \in [Side -> [Node -> TreeEntry]] /\ Rooted'
  BY <1>1, TransferKeepsTree DEF Side
<1>3. answer' \in [Node -> SUBSET {"1", "l", "b", "d", "r"}] /\ Asked'
  BY Answered DEF RestoreNewer, RestoreOrphan
<1> QED BY <1>2, <1>3 DEF FilesOK, Respected

\* A call to restore was asked for.
LEMMA CalledRespects ==
    ASSUME FilesOK, Asked, NEW n \in Node, EnterRestore \/ RestoreFile(n),
           stack # <<>> => Top \in CallType
    PROVE  FilesOK' /\ Respected
<1>1. UNCHANGED answer
  BY DEF EnterRestore, RestoreFile
<1>2. CASE RestoreFile(n)
  <2>1. fs["dst"][n] # Absent /\ Transfer("dst", n, "dst", stack)
    BY <1>2 DEF RestoreFile, Is
  <2>2. fs' \in [Side -> [Node -> TreeEntry]] /\ Rooted'
    BY <2>1, TransferKeepsTree DEF Side
  <2> QED BY <1>1, <2>2 DEF FilesOK, Respected, Asked
<1>3. CASE EnterRestore
  <2> DEFINE d == Top.dir
             e == [fs["dst"][d] EXCEPT !.mtime = Now]
  <2>1. d \in Node /\ CanList("dst", d)
    BY <1>3 DEF EnterRestore, In, CallType
  <2>2. CASE UNCHANGED fs
    BY <1>1, <2>2, ReadingRespects
  <2>3. CASE /\ CanList("src", Parent[d])
             /\ fs' = [fs EXCEPT !["src"][d] = e]
    <3>1. fs["dst"][d] \in [kind: Kind, data: Seq(Version), mtime: Nat]
      BY <2>1 DEF FilesOK, TreeEntry, CanList, Is, Side
    <3>2. e \in [kind: Kind, data: Seq(Version), mtime: Nat] /\ e.kind = "dir"
      BY <2>1, <3>1, TreeAssumption DEF CanList, Is
    <3>3. e \in TreeEntry /\ e # Absent
      BY <3>2, TreeAssumption DEF TreeEntry
    <3>4. fs' \in [Side -> [Node -> TreeEntry]] /\ Rooted'
      BY <2>1, <2>3, <3>2, <3>3, EntryChanged DEF FilesOK, Side
    <3> QED BY <1>1, <3>4 DEF FilesOK, Respected, Asked
  <2> QED BY <1>3, <2>2, <2>3 DEF EnterRestore
<1> QED BY <1>2, <1>3

LEMMA CreationRespects ==
    ASSUME FilesOK, EnterFolder, stack # <<>> => Top \in CallType
    PROVE  FilesOK' /\ Respected
<1> DEFINE d == Top.dir
           e == [fs["src"][d] EXCEPT !.mtime = Now]
<1>1. d \in Node /\ CanList("src", d) /\ UNCHANGED answer
  BY DEF EnterFolder, In, CallType
<1>2. CASE UNCHANGED fs
  BY <1>1, <1>2, ReadingRespects
<1>3. CASE CanList("dst", Parent[d]) /\ fs' = [fs EXCEPT !["dst"][d] = e]
  <2>1. fs["src"][d] \in [kind: Kind, data: Seq(Version), mtime: Nat]
    BY <1>1 DEF FilesOK, TreeEntry, CanList, Is, Side
  <2>2. e \in [kind: Kind, data: Seq(Version), mtime: Nat] /\ e.kind = "dir"
    BY <1>1, <2>1, TreeAssumption DEF CanList, Is
  <2>3. e \in TreeEntry /\ e # Absent
    BY <2>2, TreeAssumption DEF TreeEntry
  <2>4. fs' \in [Side -> [Node -> TreeEntry]] /\ Rooted' /\ fs'["src"] = fs["src"]
    BY <1>1, <1>3, <2>2, <2>3, EntryChanged DEF FilesOK, Side
  <2> QED BY <1>1, <2>4 DEF FilesOK, Respected, Asked
<1> QED BY <1>2, <1>3 DEF EnterFolder

\* A folder is removed only when nothing is in it.
LEMMA RemovalRespects ==
    ASSUME FilesOK, NEW n \in Node, DeleteOrphan(n) \/ DeleteItem(n) \/ RemoveFolder,
           stack # <<>> => Top \in CallType
    PROVE  FilesOK' /\ Respected
<1>1. answer' \in [Node -> SUBSET {"1", "l", "b", "d", "r"}] /\ (Asked => Asked')
  <2>1. UNCHANGED answer \/ \E k \in {"1", "l", "b", "d", "r"} : answer' = Said(n, k)
    BY DEF DeleteOrphan, DeleteItem, RemoveFolder, Deletes
  <2> QED BY <2>1, Answered DEF FilesOK, Asked
<1>2. CASE UNCHANGED fs
  BY <1>1, <1>2 DEF FilesOK, Rooted, CanList, Is, Respected
<1>3. CASE fs' # fs
  <2>1. PICK m \in Node : /\ fs' = [fs EXCEPT !["dst"][m] = Absent]
                          /\ ~Is("dst", m, "dir") \/ Listing("dst", m) = {}
    BY <1>3 DEF DeleteOrphan, Orphan, DeleteItem, RemoveFolder, Rmdir, In, CallType, Is
  <2>2. fs' \in [Side -> [Node -> TreeEntry]] /\ Rooted' /\ fs'["src"] = fs["src"]
    BY <2>1, EntryChanged DEF FilesOK, Side, TreeEntry
  <2> QED BY <1>1, <2>2 DEF FilesOK, Respected
<1> QED BY <1>2, <1>3

LEMMA StepRespects ==
    ASSUME FilesOK, CallsOK, Next
    PROVE  FilesOK' /\ Respected
<1>1. stack # <<>> => Top \in CallType
  BY TopIsCall DEF CallsOK, Top
<1>2. In("restore", "enter") \/ In("restore", "scan") => Asked
  <2> HAVE In("restore", "enter") \/ In("restore", "scan")
  <2>1. stack # <<>> /\ Top.op = "restore"
    BY DEF In
  <2>2. Len(stack) \in Nat \ {0} /\ Top = stack[1]
    BY <2>1 DEF CallsOK, Stacked, Top
  <2>3. Restoring(stack)
    BY <2>1, <2>2 DEF Restoring
  <2> QED BY <2>3 DEF CallsOK
<1>3. CASE EnterFolder
  BY <1>1, <1>3, CreationRespects
<1>4. CASE EnterRestore
  BY <1>1, <1>2, <1>4, CalledRespects, TreeAssumption DEF EnterRestore
<1>5. CASE RemoveFolder
  BY <1>1, <1>5, RemovalRespects, TreeAssumption
<1>6. ASSUME NEW n \in Node, Item(n)
      PROVE  FilesOK' /\ Respected
  <2>1. CASE UpdateFile(n) \/ BackupNewer(n)
    BY <2>1, BackupRespects
  <2>2. CASE RestoreNewer(n) \/ RestoreOrphan(n)
    BY <2>2, RestoreRespects
  <2>3. CASE RestoreFile(n)
    BY <1>1, <1>2, <2>3, CalledRespects DEF RestoreFile
  <2>4. CASE DeleteOrphan(n) \/ DeleteItem(n)
    BY <1>1, <2>4, RemovalRespects
  <2>5. CASE \/ LeaveNewer(n) \/ LeaveNewerAndAbort(n) \/ LeaveOrphan(n)
             \/ DeleteOrphanFolder(n) \/ RestoreOrphanFolder(n)
    BY <2>5, AnswerRespects
  <2>6. CASE PassItem(n) \/ NoteFolder(n) \/ PassChecked(n) \/ RestoreOther(n)
    BY <2>6, ReadingRespects DEF PassItem, NoteFolder, PassChecked, RestoreOther
  <2> QED BY <1>6, <2>1, <2>2, <2>3, <2>4, <2>5, <2>6 DEF Item
<1>7. CASE \/ EnterUnlisted \/ EnterRefused \/ EndScan \/ Recurse \/ BeginCheck \/ EndFolder
           \/ EnterDelete \/ EndDeleteScan \/ DeleteRecurse
           \/ EnterRestoreFails \/ EndRestoreScan \/ RestoreRecurse \/ EndRestore \/ Done
  BY <1>7, ReadingRespects
  DEF EnterUnlisted, EnterRefused, EndScan, Recurse, BeginCheck, EndFolder, EnterDelete,
      EndDeleteScan, DeleteRecurse, EnterRestoreFails, EndRestoreScan, RestoreRecurse,
      EndRestore, Done
<1> QED BY <1>3, <1>4, <1>5, <1>6, <1>7 DEF Next

-----------------------------------------------------------------------------
(* Calls.                                                                  *)

\* The innermost call goes on.
LEMMA CallMoves ==
    ASSUME CallsOK, stack # <<>>, Asked => Asked',
           NEW f \in CallType, f.op = Top.op, stack' = WithTop(f),
           cursor' \in CursorType, Mine(f, cursor')
    PROVE  CallsOK'
<1>1. /\ Stacked(stack')
      /\ stack' # <<>>
      /\ Head(stack') = f
      /\ Restoring(stack') => Restoring(stack)
  BY TopChanged DEF CallsOK, WithTop, Top
<1> QED BY <1>1 DEF CallsOK, Top

LEMMA CallStays ==
    ASSUME CallsOK, Asked => Asked', UNCHANGED stack,
           cursor' \in CursorType, \A s \in Side : cursor'[s].dir = cursor[s].dir
    PROVE  CallsOK'
BY DEF CallsOK, Mine, Side, Top

\* It calls b and is at f meanwhile.
LEMMA CallMakes ==
    ASSUME CallsOK, stack # <<>>, Asked => Asked',
           NEW f \in CallType, f.op = Top.op,
           NEW b \in CallType, b.pc = "enter", Calls(f, b),
           b.op = "restore" => Top.op = "restore" \/ Asked',
           stack' = <<b>> \o WithTop(f), cursor' \in CursorType
    PROVE  CallsOK'
<1>1. /\ Stacked(WithTop(f))
      /\ WithTop(f) # <<>>
      /\ Head(WithTop(f)) = f
      /\ Restoring(WithTop(f)) => Restoring(stack)
  BY TopChanged DEF CallsOK, WithTop, Top
<1>2. /\ Stacked(stack')
      /\ Head(stack') = b
      /\ Restoring(stack') => b.op = "restore" \/ Restoring(stack)
  BY <1>1, CallPushed
<1>3. Top.op = "restore" => Restoring(stack)
  <2>1. Len(stack) \in Nat \ {0} /\ Top = stack[1]
    BY DEF CallsOK, Stacked, Top
  <2> QED BY <2>1 DEF Restoring
<1>4. Mine(b, cursor')
  BY DEF Mine
<1> QED BY <1>2, <1>3, <1>4 DEF CallsOK, Top

\* It returns to its caller, or there is none.
LEMMA ReturnsToCaller ==
    ASSUME CallsOK, stack # <<>>, Asked => Asked',
           stack' = Tail(stack), cursor' \in CursorType,
           /\ Calls(stack[2], Top)
           /\ stack[2] \in CallType
           => Mine(stack[2], cursor')
    PROVE  CallsOK'
<1>1. /\ Stacked(stack')
      /\ stack' # <<>> =>
             Head(stack') = stack[2] /\ Calls(stack[2], Top) /\ stack[2] \in CallType
      /\ Restoring(stack') => Restoring(stack)
  BY CallReturned DEF CallsOK, Top
<1> QED BY <1>1 DEF CallsOK, Top

LEMMA NoCalls ==
    ASSUME stack' = <<>>, cursor' \in CursorType
    PROVE  CallsOK'
<1>1. Stacked(<<>>) /\ ~Restoring(<<>>)
  <2>1. <<>> \in Seq(CallType) /\ Len(<<>>) = 0
    BY EmptySeq
  <2> QED BY <2>1 DEF Stacked, Restoring
<1> QED BY <1>1 DEF CallsOK

LEMMA AbortsCalls ==
    ASSUME Abort
    PROVE  CallsOK'
<1>1. cursor' \in CursorType
  BY DEF Abort, Closed, CursorType
<1> QED BY <1>1, NoCalls DEF Abort

\* What the cursor can become.
LEMMA Cursors ==
    ASSUME CallsOK, NEW s \in Side, NEW n \in Node, FilesOK
    PROVE  /\ Advanced(s, n) \in CursorType
           /\ \A t \in Side : Advanced(s, n)[t].dir = cursor[t].dir
           /\ [cursor EXCEPT ![s] = Closed] \in CursorType
           /\ [cursor EXCEPT ![s] = Closed][s].dir = Absent
           /\ [cursor EXCEPT ![s] = Opened(s, n)] \in CursorType
           /\ [cursor EXCEPT ![s] = Opened(s, n)][s].dir = n
BY DEF CallsOK, CursorType, Advanced, Closed, Opened, Listing

\* The innermost call changes nothing that says where it is.
LEMMA CallNotes ==
    ASSUME CallsOK, stack # <<>>, Asked => Asked',
           NEW f \in CallType, f.op = Top.op, f.pc = Top.pc, f.dir = Top.dir,
           stack' = WithTop(f),
           cursor' \in CursorType, \A s \in Side : cursor'[s].dir = cursor[s].dir
    PROVE  CallsOK'
<1>1. Mine(f, cursor')
  BY DEF CallsOK, Mine, Side
<1> QED BY <1>1, CallMoves

LEMMA TransferCalls ==
    ASSUME CallsOK, FilesOK, stack # <<>>, Asked => Asked',
           NEW s, NEW n \in Node, NEW c \in Side, NEW after \in {stack, Assigned},
           Transfer(s, n, c, after)
    PROVE  CallsOK'
<1>1. CASE Abort
  BY <1>1, AbortsCalls
<1>2. CASE stack' = after /\ cursor' = Advanced(c, n)
  <2>1. cursor' \in CursorType /\ \A t \in Side : cursor'[t].dir = cursor[t].dir
    BY <1>2, Cursors
  <2>2. CASE stack' = stack
    BY <2>1, <2>2, CallStays
  <2>3. CASE stack' = Assigned
    <3> DEFINE f == [Top EXCEPT !.assigned = TRUE]
    <3>1. Top \in CallType
      BY TopIsCall DEF CallsOK, Top
    <3>2. f \in CallType /\ f.op = Top.op /\ f.pc = Top.pc /\ f.dir = Top.dir
      BY <3>1 DEF CallType
    <3> QED BY <2>1, <2>3, <3>2, CallNotes DEF Assigned
  <2> QED BY <1>2, <2>2, <2>3
<1> QED BY <1>1, <1>2 DEF Transfer

\* The steps that take one name of a listing and make no call.
LEMMA ItemCalls ==
    ASSUME CallsOK, FilesOK, Asked => Asked', NEW n \in Node, Item(n),
           ~DeleteOrphanFolder(n), ~RestoreOrphanFolder(n)
    PROVE  CallsOK'
<1>1. stack # <<>>
  BY DEF Item, PassItem, UpdateFile, NoteFolder, LeaveNewer, LeaveNewerAndAbort, BackupNewer,
         RestoreNewer, PassChecked, LeaveOrphan, DeleteOrphan, RestoreOrphan, DeleteItem,
         RestoreFile, RestoreOther, QuestionNewer, FileToScan, ScanOf, Orphan, CheckOf, In
<1>2. CASE UpdateFile(n) \/ BackupNewer(n) \/ RestoreNewer(n)
  BY <1>1, <1>2, TransferCalls DEF UpdateFile, BackupNewer, RestoreNewer, Side
<1>3. CASE RestoreOrphan(n) \/ RestoreFile(n)
  BY <1>1, <1>3, TransferCalls DEF RestoreOrphan, RestoreFile, Side
<1>4. CASE LeaveNewerAndAbort(n)
  BY <1>4, AbortsCalls DEF LeaveNewerAndAbort
<1>5. CASE \/ PassItem(n) \/ LeaveNewer(n) \/ PassChecked(n) \/ LeaveOrphan(n)
           \/ DeleteOrphan(n) \/ NoteFolder(n) \/ DeleteItem(n) \/ RestoreOther(n)
  <2>1. PICK c \in Side : cursor' = Advanced(c, n)
    BY <1>5 DEF PassItem, LeaveNewer, PassChecked, LeaveOrphan, DeleteOrphan, NoteFolder,
                DeleteItem, RestoreOther, Side
  <2>2. cursor' \in CursorType /\ \A t \in Side : cursor'[t].dir = cursor[t].dir
    BY <2>1, Cursors
  <2>3. CASE UNCHANGED stack
    BY <2>2, <2>3, CallStays
  <2>4. CASE stack' = Noted(n)
    <3> DEFINE f == [Top EXCEPT !.dirs = @ \cup {n}]
    <3>1. Top \in CallType
      BY <1>1, TopIsCall DEF CallsOK, Top
    <3>2. f \in CallType /\ f.op = Top.op /\ f.pc = Top.pc /\ f.dir = Top.dir
      BY <3>1 DEF CallType
    <3> QED BY <1>1, <2>2, <2>4, <3>2, CallNotes DEF Noted
  <2> QED BY <1>5, <2>3, <2>4
          DEF PassItem, LeaveNewer, PassChecked, LeaveOrphan, DeleteOrphan, NoteFolder,
              DeleteItem, RestoreOther
<1> QED BY <1>2, <1>3, <1>4, <1>5 DEF Item

\* The steps by which a call enters or leaves its loop.
LEMMA PhaseCalls ==
    ASSUME CallsOK, FilesOK, Asked => Asked',
           \/ EnterFolder \/ EnterUnlisted \/ EndScan \/ BeginCheck
           \/ EnterDelete \/ EndDeleteScan
           \/ EnterRestore \/ EnterRestoreFails \/ EndRestoreScan
    PROVE  CallsOK'
<1> DEFINE d == Top.dir
           f(p) == [Top EXCEPT !.pc = p]
<1>1. stack # <<>>
  BY DEF EnterFolder, EnterUnlisted, EndScan, BeginCheck, EnterDelete, EndDeleteScan,
         EnterRestore, EnterRestoreFails, EndRestoreScan, In
<1>2. Top \in CallType /\ d \in Node /\ Top.pc \in {"enter", "scan", "recurse", "check"}
  BY <1>1, TopIsCall DEF CallsOK, Top, CallType
<1>3. \A p \in {"enter", "scan", "recurse", "check"} :
          f(p) \in CallType /\ f(p).op = Top.op /\ f(p).pc = p /\ f(p).dir = d
  BY <1>2 DEF CallType
<1>4. CASE EnterFolder
  <2>1. cursor' \in CursorType /\ cursor'["src"].dir = d
    BY <1>2, <1>4, Cursors DEF EnterFolder, Side
  <2>2. Mine(f("scan"), cursor')
    BY <1>3, <1>4, <2>1 DEF EnterFolder, In, Mine
  <2> QED BY <1>1, <1>3, <1>4, <2>1, <2>2, CallMoves DEF EnterFolder, At
<1>5. CASE EnterUnlisted
  <2>1. CASE Abort
    BY <2>1, AbortsCalls
  <2>2. CASE stack' = At("recurse") /\ cursor' = [cursor EXCEPT !["src"] = Closed]
    <3>1. cursor' \in CursorType
      BY <1>2, <2>2, Cursors DEF Side
    <3>2. Mine(f("recurse"), cursor')
      BY <1>3, <1>5 DEF EnterUnlisted, In, Mine
    <3> QED BY <1>1, <1>3, <2>2, <3>1, <3>2, CallMoves DEF At
  <2> QED BY <1>5, <2>1, <2>2 DEF EnterUnlisted
<1>6. CASE EndScan
  <2>1. cursor' \in CursorType
    BY <1>2, <1>6, Cursors DEF EndScan, Side
  <2>2. Mine(f("recurse"), cursor')
    BY <1>3, <1>6 DEF EndScan, In, Mine
  <2> QED BY <1>1, <1>3, <1>6, <2>1, <2>2, CallMoves DEF EndScan, At
<1>7. CASE BeginCheck
  <2>1. cursor' \in CursorType /\ cursor'["dst"].dir \in {d, Absent}
    BY <1>2, <1>7, Cursors DEF BeginCheck, Side
  <2>2. Mine(f("check"), cursor')
    BY <1>3, <1>7, <2>1 DEF BeginCheck, In, Mine
  <2> QED BY <1>1, <1>3, <1>7, <2>1, <2>2, CallMoves DEF BeginCheck, At
<1>8. CASE EnterDelete \/ EndDeleteScan
  <2>1. PICK p \in {"scan", "recurse"} :
            /\ stack' = At(p)
            /\ cursor' = [cursor EXCEPT !["dst"] = IF p = "scan" THEN Opened("dst", d) ELSE Closed]
            /\ Top.op = "delete"
    BY <1>8 DEF EnterDelete, EndDeleteScan, In
  <2>2. cursor' \in CursorType /\ (p = "scan" => cursor'["dst"].dir = d)
    BY <1>2, <2>1, Cursors DEF Side
  <2>3. Mine(f(p), cursor')
    BY <1>3, <2>1, <2>2 DEF Mine
  <2> QED BY <1>1, <1>3, <2>1, <2>2, <2>3, CallMoves DEF At
<1>9. CASE EnterRestore
  <2> DEFINE g == [Top EXCEPT !.pc = "scan", !.dirs = {d, Parent[d]}]
  <2>1. cursor' \in CursorType /\ cursor'["dst"].dir = d
    BY <1>2, <1>9, Cursors DEF EnterRestore, Side
  <2>2. g \in CallType /\ g.op = Top.op /\ g.dir = d /\ g.pc = "scan"
    BY <1>2, TreeAssumption DEF CallType
  <2>3. Mine(g, cursor')
    BY <1>9, <2>1, <2>2 DEF EnterRestore, In, Mine
  <2> QED BY <1>1, <1>9, <2>1, <2>2, <2>3, CallMoves DEF EnterRestore
<1>10. CASE EnterRestoreFails \/ EndRestoreScan
  <2>1. stack' = At("recurse") /\ cursor' = [cursor EXCEPT !["dst"] = Closed]
    BY <1>10 DEF EnterRestoreFails, EndRestoreScan
  <2>2. cursor' \in CursorType /\ cursor'["dst"].dir = Absent
    BY <1>2, <2>1, Cursors DEF Side
  <2>3. Mine(f("recurse"), cursor')
    BY <1>3, <2>2 DEF Mine
  <2> QED BY <1>1, <1>3, <2>1, <2>2, <2>3, CallMoves DEF At
<1> QED BY <1>4, <1>5, <1>6, <1>7, <1>8, <1>9, <1>10

\* The steps that make a call.
LEMMA DescentCalls ==
    ASSUME CallsOK, FilesOK, Asked => Asked', NEW n \in Node,
           \/ Recurse \/ DeleteRecurse \/ RestoreRecurse
           \/ DeleteOrphanFolder(n) \/ RestoreOrphanFolder(n)
    PROVE  CallsOK'
<1>1. stack # <<>>
  BY DEF Recurse, DeleteRecurse, RestoreRecurse, DeleteOrphanFolder, RestoreOrphanFolder,
         Orphan, CheckOf, In
<1>2. Top \in CallType /\ stack = WithTop(Top)
  BY <1>1, TopIsCall DEF CallsOK, Stacked, Top, WithTop
<1>3. CASE Recurse \/ DeleteRecurse \/ RestoreRecurse
  <2>1. PICK d \in Top.dirs : Descend(d)
    BY <1>3 DEF Recurse, DeleteRecurse, RestoreRecurse
  <2> DEFINE f == [Top EXCEPT !.dirs = @ \ {d}]
             b == Call(Top.op, d, Top.len + 1)
  <2>2. /\ f \in CallType /\ f.op = Top.op
        /\ b \in CallType /\ b.pc = "enter" /\ b.op = Top.op
    BY <1>2 DEF CallType, Call
  <2>3. Calls(f, b)
    BY <1>2, <1>3, <2>2 DEF Recurse, DeleteRecurse, RestoreRecurse, In, Calls, CallType
  <2>4. cursor' \in CursorType
    BY <1>3 DEF Recurse, DeleteRecurse, RestoreRecurse, CallsOK
  <2> QED BY <1>1, <2>1, <2>2, <2>3, <2>4, CallMakes DEF Descend
<1>4. CASE DeleteOrphanFolder(n) \/ RestoreOrphanFolder(n)
  <2>1. PICK o \in {"delete", "restore"} :
            stack' = <<Call(o, n, 1)>> \o stack /\ (o = "restore" => answer' = Said(n, "r"))
    BY <1>4 DEF DeleteOrphanFolder, RestoreOrphanFolder
  <2> DEFINE b == Call(o, n, 1)
  <2>2. b \in CallType /\ b.pc = "enter" /\ b.op = o
    BY DEF CallType, Call
  <2>3. Calls(Top, b)
    BY <1>4, <2>2 DEF DeleteOrphanFolder, RestoreOrphanFolder, Orphan, CheckOf, In, Calls
  <2>4. cursor' \in CursorType
    BY <1>4, Cursors DEF DeleteOrphanFolder, RestoreOrphanFolder, Side
  <2>5. o = "restore" => Asked'
    BY <2>1, Answered
  <2> QED BY <1>1, <1>2, <2>1, <2>2, <2>3, <2>4, <2>5, CallMakes
<1> QED BY <1>3, <1>4

\* The steps that return from one. BackupThis lists its folder again after
\* deleteFolder, and finds the cursor closed after a restore.
LEMMA ReturnCalls ==
    ASSUME CallsOK, FilesOK, Asked => Asked',
           EnterRefused \/ EndFolder \/ RemoveFolder \/ EndRestore
    PROVE  CallsOK'
<1>1. stack # <<>>
  BY DEF EnterRefused, EndFolder, RemoveFolder, EndRestore, In
<1>2. Top \in CallType
  BY <1>1, TopIsCall DEF CallsOK, Top
<1>3. CASE Abort
  BY <1>3, AbortsCalls
<1>4. CASE stack' = Tail(stack) /\ (EnterRefused \/ EndFolder)
  <2>1. cursor' \in CursorType
    <3>1. Top.dir \in Node
      BY <1>2 DEF CallType
    <3>2. \/ cursor' = cursor
          \/ cursor' = [cursor EXCEPT !["src"] = Opened("src", Top.dir)]
          \/ cursor' = [cursor EXCEPT !["dst"] = Closed]
          \/ Abort
      BY <1>4 DEF EnterRefused, EndFolder
    <3>3. cursor' = cursor => cursor' \in CursorType
      BY DEF CallsOK
    <3>4. Abort => cursor' \in CursorType
      BY AbortsCalls DEF CallsOK
    <3> QED BY <3>1, <3>2, <3>3, <3>4, Cursors DEF Side
  <2>2. Top.op = "backup"
    BY <1>4 DEF EnterRefused, EndFolder, In
  <2>3. Calls(stack[2], Top) => Mine(stack[2], cursor')
    BY <2>2 DEF Calls, Mine
  <2> QED BY <1>1, <1>4, <2>1, <2>3, ReturnsToCaller
<1>5. CASE RemoveFolder
  <2>1. Top.op = "delete" /\ stack' = Tail(stack)
    BY <1>5 DEF RemoveFolder, In
  <2>2. Calls(stack[2], Top) /\ stack[2] \in CallType
    BY <1>1, <2>1, CallReturned DEF CallsOK, Top
  <2>3. CASE stack[2].op # "backup"
    <3>1. Mine(stack[2], cursor') /\ cursor' \in CursorType
      BY <1>5, <2>1, <2>2, <2>3 DEF RemoveFolder, Calls, Mine, CallsOK
    <3> QED BY <1>1, <2>1, <3>1, ReturnsToCaller
  <2>4. CASE stack[2].op = "backup"
    <3>1. Relist(stack[2].dir) /\ stack[2].dir \in Node
      BY <1>5, <2>2, <2>4 DEF RemoveFolder, CallType
    <3>2. cursor' \in CursorType /\ cursor'["dst"].dir \in {stack[2].dir, Absent}
      BY <3>1 DEF Relist, CallsOK, CursorType, Closed, Side
    <3>3. Mine(stack[2], cursor')
      BY <2>1, <2>2, <2>4, <3>2 DEF Calls, Mine
    <3> QED BY <1>1, <2>1, <3>2, <3>3, ReturnsToCaller
  <2> QED BY <2>3, <2>4
<1>6. CASE EndRestore
  <2>1. /\ Top.op = "restore" /\ Top.pc = "recurse"
        /\ stack' = Tail(stack) /\ cursor' = cursor
    BY <1>6 DEF EndRestore, In
  <2>2. cursor'["dst"].dir = Absent /\ cursor' \in CursorType
    BY <1>1, <2>1 DEF CallsOK, Mine
  <2>3. Calls(stack[2], Top) => Mine(stack[2], cursor')
    BY <2>1, <2>2 DEF Calls, Mine
  <2> QED BY <1>1, <2>1, <2>2, <2>3, ReturnsToCaller
<1> QED BY <1>3, <1>4, <1>5, <1>6 DEF EnterRefused, EndFolder

LEMMA StepCalls ==
    ASSUME FilesOK, CallsOK, Asked => Asked', Next
    PROVE  CallsOK'
<1>1. ASSUME NEW n \in Node, Item(n)
      PROVE  CallsOK'
  BY <1>1, ItemCalls, DescentCalls
<1>2. CASE \/ EnterFolder \/ EnterUnlisted \/ EndScan \/ BeginCheck
           \/ EnterDelete \/ EndDeleteScan
           \/ EnterRestore \/ EnterRestoreFails \/ EndRestoreScan
  BY <1>2, PhaseCalls
<1>3. CASE Recurse \/ DeleteRecurse \/ RestoreRecurse
  BY <1>3, DescentCalls, TreeAssumption
<1>4. CASE EnterRefused \/ EndFolder \/ RemoveFolder \/ EndRestore
  BY <1>4, ReturnCalls
<1>5. CASE Done
  BY <1>5, NoCalls DEF Done, CallsOK
<1> QED BY <1>1, <1>2, <1>3, <1>4, <1>5 DEF Next

-----------------------------------------------------------------------------
(* The invariant and what follows from it.                                 *)

LEMMA InitTreeInv == Init => TreeInv
<1> SUFFICES ASSUME Init
             PROVE  TreeInv
  OBVIOUS
<1> DEFINE c == Call("backup", Root, 0)
<1>1. c \in CallType /\ stack = <<c>> /\ c.op = "backup" /\ c.pc = "enter"
  BY TreeAssumption DEF Init, Call, CallType
<1>2. Stacked(stack) /\ stack # <<>> /\ Top = c /\ ~Restoring(stack)
  BY <1>1 DEF Stacked, Top, Restoring
<1>3. cursor \in CursorType
  BY DEF Init, Closed, CursorType
<1>4. /\ fs \in [Side -> [Node -> TreeEntry]]
      /\ first = fs
      /\ Rooted
  BY TreeAssumption DEF Init, Rooted, CanList, Is
<1>5. TypeOK
  BY <1>2, <1>3, <1>4, TreeAssumption DEF Init, TypeOK, Stacked, CursorType, Rooted
<1>6. CursorIsMine /\ RestoreCloses
  BY <1>1, <1>2 DEF CursorIsMine, RestoreCloses, In
<1> QED BY <1>2, <1>4, <1>5, <1>6 DEF TreeInv, SourceKeptUnlessAsked

LEMMA StepTreeInv == TreeInv /\ [Next]_vars => TreeInv'
<1> SUFFICES ASSUME TreeInv, [Next]_vars
             PROVE  TreeInv'
  OBVIOUS
<1>1. CASE UNCHANGED vars
  BY <1>1 DEF vars, TreeInv, TypeOK, CanList, Is, CursorIsMine, RestoreCloses, In, Top, Asked,
              SourceKeptUnlessAsked
<1>2. CASE Next
  <2>1. FilesOK' /\ CallsOK' /\ Respected
    BY <1>2, LayersOfInv, StepRespects, StepCalls DEF Respected
  <2>2. /\ UNCHANGED <<opt, first>>
        /\ status' \in {"running", "done", "aborted"}
    BY <1>2
    DEF TreeInv, TypeOK, Next, Item, Abort, Transfer,
        EnterFolder, EnterUnlisted, EnterRefused, EndScan, Recurse, BeginCheck, EndFolder,
        EnterDelete, EndDeleteScan, DeleteRecurse, RemoveFolder,
        EnterRestore, EnterRestoreFails, EndRestoreScan, RestoreRecurse, EndRestore, Done,
        PassItem, UpdateFile, NoteFolder, LeaveNewer, LeaveNewerAndAbort, BackupNewer,
        RestoreNewer, PassChecked, LeaveOrphan, DeleteOrphan, RestoreOrphan,
        DeleteOrphanFolder, RestoreOrphanFolder, DeleteItem, RestoreFile, RestoreOther
  <2>3. TypeOK'
    BY <2>1, <2>2 DEF TreeInv, TypeOK, FilesOK, Rooted, CallsOK, Stacked, CursorType
  <2>4. CursorIsMine' /\ RestoreCloses'
    BY <2>1 DEF CallsOK, Mine, CursorIsMine, RestoreCloses, In
  <2>5. SourceKeptUnlessAsked'
    BY <2>1, <2>2 DEF TreeInv, SourceKeptUnlessAsked, Respected, Asked
  <2> QED BY <2>1, <2>3, <2>4, <2>5 DEF CallsOK, TreeInv
<1> QED BY <1>1, <1>2

LEMMA TreeInvariant == Spec => []TreeInv
BY InitTreeInv, StepTreeInv, PTL DEF Spec

\* The state of a run keeps its types, and every entry of either side stays in
\* a folder: no call of BackupThis, deleteFolder or CopyNewFolderToDest leaves
\* a path whose folder is gone.
THEOREM TreeTypeCorrect == Spec => []TypeOK
BY TreeInvariant, PTL DEF TreeInv

\* The one m_dirSearch of a folder object is at the folder of the innermost
\* call that reads it, or closed by a restore, however the three functions
\* call themselves and each other.
THEOREM TreeCursor == Spec => []CursorIsMine
BY TreeInvariant, PTL DEF TreeInv

\* Whatever the trees, the options and the faults, StartBackup writes to the
\* source only after the user has answered "r" to some question.
THEOREM TreeSourceKept == Spec => []SourceKeptUnlessAsked
BY TreeInvariant, PTL DEF TreeInv

-----------------------------------------------------------------------------
(* What is removed.                                                        *)

\* Every file, and the run, is of a later date than 1970-01-01: a date of 0 is
\* what the code takes for "does not exist".
Dated ==
    /\ Now # 0
    /\ \A t \in Trees, s \in Side, n \in Node : t[s][n] # Absent => t[s][n].mtime # 0

Doomed(n) == \E m \in UpFrom[n] : ConsentTo(m)

Ages == \A s \in Side, n \in Node : fs[s][n] # Absent => fs[s][n].mtime # 0

\* The source loses nothing, and the destination gains only what it has.
SourceStays == \A n \in Node : fs["src"][n] = Absent => first["src"][n] = Absent
OrphansAreOld ==
    \A n \in Node : fs["src"][n] = Absent => fs["dst"][n] \in {Absent, first["dst"][n]}

\* What a cursor has yet to return is in its folder.
ListedInside == \A s \in Side : \A n \in cursor[s].left : Parent[n] = cursor[s].dir

\* The calls that may come to remove something.
Meant ==
    {c \in CallType :
        /\ c.pc = "check" => Prunes
        /\ c.op = "delete" => Doomed(c.dir) /\ \A k \in c.dirs : Parent[k] = c.dir}

FilesInv == Ages /\ SourceStays /\ OrphansAreOld /\ RemovedWithConsent
RemovalInv == TreeInv /\ FilesInv /\ ListedInside /\ stack \in Seq(Meant)

-----------------------------------------------------------------------------
(* Folders above a path, and consent.                                      *)

LEMMA UpFromItself ==
    ASSUME NEW n \in Node
    PROVE  n \in UpFrom[n]
BY DEF UpFrom

LEMMA UpFromParent ==
    ASSUME NEW n \in Node, NEW m \in UpFrom[Parent[n]]
    PROVE  m \in UpFrom[n]
<1>1. Parent[n] \in Node
  BY TreeAssumption
<1>2. /\ m \in Node
      /\ \A S \in SUBSET Node : m \in S /\ Downward(S) => Parent[n] \in S
  BY <1>1 DEF UpFrom
<1>3. ASSUME NEW S \in SUBSET Node, m \in S, Downward(S)
      PROVE  n \in S
  BY <1>2, <1>3 DEF Downward
<1> QED BY <1>2, <1>3 DEF UpFrom

LEMMA DoomedInside ==
    ASSUME NEW n \in Node, Doomed(Parent[n])
    PROVE  Doomed(n)
BY UpFromParent DEF Doomed

LEMMA DoomedByName ==
    ASSUME NEW n \in Node, ConsentTo(n)
    PROVE  Doomed(n)
BY UpFromItself DEF Doomed

\* Options, the beginning of the run and what was answered stay.
Kept == UNCHANGED <<opt, first>> /\ \A m \in Node : answer[m] \subseteq answer'[m]

LEMMA StepKeeps ==
    ASSUME TreeInv, Next
    PROVE  Kept
<1>1. UNCHANGED <<opt, first>>
  BY DEF Next, Item, EnterFolder, EnterUnlisted, EnterRefused, EndScan, Recurse, BeginCheck,
         EndFolder, EnterDelete, EndDeleteScan, DeleteRecurse, RemoveFolder,
         EnterRestore, EnterRestoreFails, EndRestoreScan, RestoreRecurse, EndRestore, Done,
         PassItem, UpdateFile, NoteFolder, LeaveNewer, LeaveNewerAndAbort, BackupNewer,
         RestoreNewer, PassChecked, LeaveOrphan, DeleteOrphan, RestoreOrphan,
         DeleteOrphanFolder, RestoreOrphanFolder, DeleteItem, RestoreFile, RestoreOther
<1>2. UNCHANGED answer \/ \E n \in Node, k \in {"1", "l", "b", "d", "r"} : answer' = Said(n, k)
  BY DEF Next, Item, EnterFolder, EnterUnlisted, EnterRefused, EndScan, Recurse, BeginCheck,
         EndFolder, EnterDelete, EndDeleteScan, DeleteRecurse, RemoveFolder,
         EnterRestore, EnterRestoreFails, EndRestoreScan, RestoreRecurse, EndRestore, Done,
         PassItem, UpdateFile, NoteFolder, LeaveNewer, LeaveNewerAndAbort, BackupNewer,
         RestoreNewer, PassChecked, LeaveOrphan, DeleteOrphan, RestoreOrphan, Deletes,
         DeleteOrphanFolder, RestoreOrphanFolder, DeleteItem, RestoreFile, RestoreOther
<1>3. \A m \in Node : answer[m] \subseteq answer'[m]
  BY <1>2 DEF Said, TreeInv, TypeOK
<1> QED BY <1>1, <1>3 DEF Kept

LEMMA DoomStays ==
    ASSUME Kept, NEW n \in Node, Doomed(n)
    PROVE  Doomed(n)'
<1>1. PICK m \in UpFrom[n] : ConsentTo(m)
  BY DEF Doomed
<1>2. m \in Node
  BY <1>1 DEF UpFrom
<1>3. ConsentTo(m)'
  BY <1>1, <1>2 DEF Kept, ConsentTo, Prunes
<1> QED BY <1>1, <1>3 DEF Doomed

LEMMA MeantStays ==
    ASSUME Kept
    PROVE  Meant \subseteq Meant'
<1> SUFFICES ASSUME NEW c \in Meant
             PROVE  c \in Meant'
  OBVIOUS
<1>1. c.op = "delete" => Doomed(c.dir)'
  BY DoomStays DEF Meant, CallType
<1>2. Prunes' = Prunes
  BY DEF Kept, Prunes
<1> QED BY <1>1, <1>2 DEF Meant

\* While status calls are true an orphan has no source now, and had none at the
\* beginning; it has been in the destination since then.
LEMMA OrphanIsOne ==
    ASSUME TypeOK, FilesInv, "stat" \notin Faults,
           NEW n \in Node, NEW k, Orphan(n, k)
    PROVE  first["src"][n] = Absent /\ first["dst"][n].kind = k
<1>1. getModTime(fs["src"][n]) = 0
  BY DEF Orphan, Answers
<1>2. fs["src"][n] = Absent
  BY <1>1 DEF getModTime, FilesInv, Ages, Side
<1>3. fs["dst"][n] = first["dst"][n] /\ fs["dst"][n].kind = k
  BY <1>2 DEF Orphan, Is, FilesInv, OrphansAreOld
<1> QED BY <1>2, <1>3 DEF FilesInv, SourceStays

LEMMA OrphanIsDoomed ==
    ASSUME RemovalInv, Kept, "stat" \notin Faults, NEW n \in Node,
           \/ Orphan(n, "file") /\ Deletes(n, opt.file)
           \/ Orphan(n, "dir") /\ Deletes(n, opt.folder)
    PROVE  Doomed(n)'
<1>1. first["src"][n] = Absent
  BY OrphanIsOne DEF RemovalInv, TreeInv
<1>2. Prunes
  <2>1. stack # <<>> /\ Top.pc = "check" /\ Top \in Meant
    BY DEF Orphan, CheckOf, In, RemovalInv, Top
  <2> QED BY <2>1 DEF Meant
<1>3. \/ "d" \in answer'[n]
      \/ first["dst"][n].kind = "file" /\ opt.file = "delete"
      \/ first["dst"][n].kind = "dir" /\ opt.folder = "delete"
  BY OrphanIsOne DEF Deletes, Said, RemovalInv, TreeInv, TypeOK
<1>4. ConsentTo(n)'
  BY <1>1, <1>2, <1>3 DEF ConsentTo, Kept, Prunes
<1>5. n \in UpFrom[n]
  BY UpFromItself
<1> QED BY <1>4, <1>5 DEF Doomed

-----------------------------------------------------------------------------
(* What a step writes.                                                     *)

\* An entry is made, in the destination only for one of the source.
Makes ==
    \E s \in Side, n \in Node, e \in TreeEntry :
        /\ fs' = [fs EXCEPT ![s][n] = e]
        /\ e # Absent /\ e.mtime # 0
        /\ s = "dst" => fs["src"][n] # Absent

\* An entry of the destination is removed that is doomed.
Removes ==
    \E n \in Node : fs' = [fs EXCEPT !["dst"][n] = Absent] /\ Doomed(n)'

\* Dated entries are copied with a date.
LEMMA CopiesAreDated ==
    ASSUME fs \in [Side -> [Node -> TreeEntry]], Ages, Dated, "stat" \notin Faults,
           NEW s \in Side, NEW n \in Node, fs[s][n] # Absent,
           NEW o \in Outcomes(s, n)
    PROVE  o.entry = fs[Opposite(s)][n] \/ (o.entry \in TreeEntry \ {Absent} /\ o.entry.mtime # 0)
<1>1. fs[s][n].mtime # 0 /\ Now # 0
  BY DEF Ages, Dated
<1>2. \A u, d : FileEntry(u, d).mtime = d
  BY DEF FileEntry
<1>3. o.entry = fs[Opposite(s)][n] \/ o.entry.mtime # 0
  BY <1>1, <1>2 DEF Outcomes, Refused
<1>4. \/ o.entry = fs[Opposite(s)][n]
      \/ o.entry \in [kind: Kind, data: Seq(Version), mtime: Nat]
  BY CopiesAreFiles
<1>5. \/ o.entry = fs[Opposite(s)][n]
      \/ o.entry \in TreeEntry \ {Absent}
  BY <1>4, TreeAssumption DEF TreeEntry
<1> QED BY <1>3, <1>5

LEMMA TransferWrites ==
    ASSUME FilesOK, Ages, Dated, "stat" \notin Faults,
           NEW s \in Side, NEW n \in Node, fs[s][n] # Absent,
           NEW c, NEW after, Transfer(s, n, c, after)
    PROVE  UNCHANGED fs \/ Makes
<1>1. PICK o \in Outcomes(s, n) : fs' = [fs EXCEPT ![Opposite(s)][n] = o.entry]
  BY DEF Transfer
<1>2. Opposite(s) \in Side /\ (Opposite(s) = "dst" => s = "src")
  BY DEF Side, Opposite
<1>3. CASE o.entry = fs[Opposite(s)][n]
  BY <1>1, <1>2, <1>3 DEF FilesOK
<1>4. CASE o.entry \in TreeEntry \ {Absent} /\ o.entry.mtime # 0
  <2>1. Opposite(s) = "dst" => fs["src"][n] # Absent
    BY <1>2
  <2> QED BY <1>1, <1>2, <1>4, <2>1 DEF Makes
<1> QED BY <1>3, <1>4, CopiesAreDated DEF FilesOK

LEMMA CreationWrites ==
    ASSUME FilesOK, Dated, EnterFolder \/ EnterRestore, stack # <<>> => Top \in CallType
    PROVE  UNCHANGED fs \/ Makes
<1>1. Top.dir \in Node
  BY DEF EnterFolder, EnterRestore, In, CallType
<1>2. SUFFICES ASSUME fs' # fs
               PROVE  Makes
  OBVIOUS
<1>3. PICK s \in Side :
          /\ fs' = [fs EXCEPT ![s][Top.dir] = [fs[Opposite(s)][Top.dir] EXCEPT !.mtime = Now]]
          /\ fs[Opposite(s)][Top.dir] # Absent
  BY <1>2 DEF EnterFolder, EnterRestore, CanList, Is, Side, Opposite
<1> DEFINE e == [fs[Opposite(s)][Top.dir] EXCEPT !.mtime = Now]
<1>4. Opposite(s) \in Side /\ (s = "dst" => Opposite(s) = "src")
  BY DEF Side, Opposite
<1>5. fs[Opposite(s)][Top.dir] \in [kind: Kind, data: Seq(Version), mtime: Nat]
  BY <1>1, <1>3, <1>4 DEF FilesOK, TreeEntry
<1>6. e \in [kind: Kind, data: Seq(Version), mtime: Nat] /\ e.mtime # 0
  BY <1>5, TreeAssumption DEF Dated
<1>7. e \in TreeEntry /\ e # Absent
  BY <1>6, TreeAssumption DEF TreeEntry
<1>8. s = "dst" => fs["src"][Top.dir] # Absent
  BY <1>3, <1>4
<1> QED BY <1>1, <1>3, <1>6, <1>7, <1>8 DEF Makes

\* deleteFolder removes what its cursor returns, and then its folder.
LEMMA DeletionWrites ==
    ASSUME RemovalInv, Kept, NEW n \in Node, DeleteItem(n) \/ RemoveFolder
    PROVE  UNCHANGED fs \/ Removes
<1>1. stack # <<>> /\ Top.op = "delete"
  BY DEF DeleteItem, RemoveFolder, In
<1>2. Top \in Meant
  BY <1>1 DEF RemovalInv, Top
<1>3. Top.dir \in Node /\ Doomed(Top.dir)
  BY <1>1, <1>2 DEF Meant, CallType
<1>4. CASE DeleteItem(n)
  <2>1. Parent[n] = Top.dir
    BY <1>4 DEF DeleteItem, In, RemovalInv, ListedInside, TreeInv, CursorIsMine, Side
  <2>2. Doomed(n)
    BY <1>3, <2>1, DoomedInside
  <2>3. Doomed(n)'
    BY <2>2, DoomStays
  <2> QED BY <1>4, <2>3 DEF DeleteItem, Removes
<1>5. CASE RemoveFolder
  <2>1. PICK d \in Node : d = Top.dir
    BY <1>3
  <2>2. Doomed(d)'
    BY <1>3, <2>1, DoomStays
  <2>3. UNCHANGED fs \/ fs' = [fs EXCEPT !["dst"][d] = Absent]
    BY <1>5, <2>1 DEF RemoveFolder, Rmdir
  <2> QED BY <2>2, <2>3 DEF Removes
<1> QED BY <1>4, <1>5

LEMMA StepWrites ==
    ASSUME RemovalInv, Kept, Dated, "stat" \notin Faults, Next
    PROVE  UNCHANGED fs \/ Makes \/ Removes
<1>1. FilesOK /\ Ages /\ (stack # <<>> => Top \in CallType)
  BY LayersOfInv DEF RemovalInv, FilesInv, TreeInv, TypeOK, Top
<1>2. CASE EnterFolder \/ EnterRestore
  BY <1>1, <1>2, CreationWrites
<1>3. CASE RemoveFolder
  BY <1>3, DeletionWrites, TreeAssumption
<1>4. ASSUME NEW n \in Node, Item(n)
      PROVE  UNCHANGED fs \/ Makes \/ Removes
  <2>1. CASE UpdateFile(n) \/ BackupNewer(n)
    <3>1. fs["src"][n] # Absent /\ Transfer("src", n, "src", Assigned)
      BY <2>1, AskedOfBackup DEF UpdateFile, BackupNewer, FileToScan, ScanOf, Is
    <3> QED BY <1>1, <3>1, TransferWrites DEF Side
  <2>2. CASE RestoreNewer(n) \/ RestoreOrphan(n) \/ RestoreFile(n)
    <3>1. fs["dst"][n] # Absent /\ \E c, after : Transfer("dst", n, c, after)
      BY <2>2, AskedOfBackup DEF RestoreNewer, RestoreOrphan, RestoreFile, Orphan, Is
    <3> QED BY <1>1, <3>1, TransferWrites DEF Side
  <2>3. CASE DeleteOrphan(n)
    <3>1. Doomed(n)'
      BY <2>3, OrphanIsDoomed DEF DeleteOrphan
    <3> QED BY <2>3, <3>1 DEF DeleteOrphan, Removes
  <2>4. CASE DeleteItem(n)
    BY <2>4, DeletionWrites
  <2>5. CASE \/ LeaveNewer(n) \/ LeaveNewerAndAbort(n) \/ LeaveOrphan(n)
             \/ DeleteOrphanFolder(n) \/ RestoreOrphanFolder(n)
             \/ PassItem(n) \/ NoteFolder(n) \/ PassChecked(n) \/ RestoreOther(n)
    BY <2>5 DEF LeaveNewer, LeaveNewerAndAbort, LeaveOrphan, DeleteOrphanFolder,
                RestoreOrphanFolder, PassItem, NoteFolder, PassChecked, RestoreOther
  <2> QED BY <1>4, <2>1, <2>2, <2>3, <2>4, <2>5 DEF Item
<1>5. CASE \/ EnterUnlisted \/ EnterRefused \/ EndScan \/ Recurse \/ BeginCheck \/ EndFolder
           \/ EnterDelete \/ EndDeleteScan \/ DeleteRecurse
           \/ EnterRestoreFails \/ EndRestoreScan \/ RestoreRecurse \/ EndRestore \/ Done
  BY <1>5
  DEF EnterUnlisted, EnterRefused, EndScan, Recurse, BeginCheck, EndFolder, EnterDelete,
      EndDeleteScan, DeleteRecurse, EnterRestoreFails, EndRestoreScan, RestoreRecurse,
      EndRestore, Done
<1> QED BY <1>2, <1>3, <1>4, <1>5 DEF Next

\* One entry changes, so what FilesInv says of the others stands.
LEMMA FilesStep ==
    ASSUME RemovalInv, Kept, UNCHANGED fs \/ Makes \/ Removes
    PROVE  FilesInv'
<1>1. fs \in [Side -> [Node -> TreeEntry]] /\ FilesInv
  BY DEF RemovalInv, TreeInv, TypeOK
<1>2. \A m \in Node : (\E k \in UpFrom[m] : ConsentTo(k)) => Doomed(m)'
  BY DoomStays DEF Doomed
<1>3. CASE UNCHANGED fs
  BY <1>1, <1>2, <1>3
  DEF Kept, FilesInv, Ages, SourceStays, OrphansAreOld, RemovedWithConsent, Doomed
<1>4. CASE Makes
  <2>1. PICK s \in Side, n \in Node, e \in TreeEntry :
            /\ fs' = [fs EXCEPT ![s][n] = e]
            /\ e # Absent /\ e.mtime # 0
            /\ s = "dst" => fs["src"][n] # Absent
    BY <1>4 DEF Makes
  <2>2. /\ fs'[s][n] = e
        /\ \A t \in Side, m \in Node : t # s \/ m # n => fs'[t][m] = fs[t][m]
    BY <1>1, <2>1
  <2>3. Ages'
    BY <1>1, <2>1, <2>2 DEF FilesInv, Ages
  <2>4. SourceStays' /\ OrphansAreOld'
    BY <1>1, <2>1, <2>2 DEF FilesInv, SourceStays, OrphansAreOld, Kept, Side
  <2>5. RemovedWithConsent'
    BY <1>1, <1>2, <2>1, <2>2 DEF FilesInv, RemovedWithConsent, Doomed, Kept, Side
  <2> QED BY <2>3, <2>4, <2>5 DEF FilesInv
<1>5. CASE Removes
  <2>1. PICK n \in Node : fs' = [fs EXCEPT !["dst"][n] = Absent] /\ Doomed(n)'
    BY <1>5 DEF Removes
  <2>2. /\ fs'["src"] = fs["src"] /\ fs'["dst"][n] = Absent
        /\ \A m \in Node : m # n => fs'["dst"][m] = fs["dst"][m]
    BY <1>1, <2>1 DEF Side
  <2>3. Ages' /\ SourceStays' /\ OrphansAreOld'
    BY <1>1, <2>2 DEF FilesInv, Ages, SourceStays, OrphansAreOld, Kept, Side
  <2>4. RemovedWithConsent'
    BY <1>1, <1>2, <2>1, <2>2 DEF FilesInv, RemovedWithConsent, Doomed, Kept
  <2> QED BY <2>3, <2>4 DEF FilesInv
<1> QED BY <1>3, <1>4, <1>5

-----------------------------------------------------------------------------
(* Cursors and calls.                                                      *)

LEMMA CursorStep ==
    ASSUME TypeOK, ListedInside, Next
    PROVE  ListedInside'
<1>1. cursor \in CursorType
  BY DEF TypeOK, CursorType
<1>2. \/ UNCHANGED cursor
      \/ \E s \in Side, n \in Node : cursor' = Advanced(s, n)
      \/ \E s \in Side : \E d : cursor' = [cursor EXCEPT ![s] = Opened(s, d)]
      \/ \E s \in Side : cursor' = [cursor EXCEPT ![s] = Closed]
      \/ \E d : Relist(d)
      \/ Abort
  BY DEF Next, Item, Transfer, Side,
         EnterFolder, EnterUnlisted, EnterRefused, EndScan, Recurse, BeginCheck,
         EndFolder, EnterDelete, EndDeleteScan, DeleteRecurse, RemoveFolder,
         EnterRestore, EnterRestoreFails, EndRestoreScan, RestoreRecurse, EndRestore, Done,
         PassItem, UpdateFile, NoteFolder, LeaveNewer, LeaveNewerAndAbort, BackupNewer,
         RestoreNewer, PassChecked, LeaveOrphan, DeleteOrphan, RestoreOrphan,
         DeleteOrphanFolder, RestoreOrphanFolder, DeleteItem, RestoreFile, RestoreOther
<1>3. CASE UNCHANGED cursor
  BY <1>3 DEF ListedInside
<1>4. ASSUME NEW s \in Side, NEW n \in Node, cursor' = Advanced(s, n)
      PROVE  ListedInside'
  BY <1>1, <1>4 DEF ListedInside, Advanced, CursorType
<1>5. ASSUME NEW s \in Side, NEW d, cursor' = [cursor EXCEPT ![s] = Opened(s, d)]
      PROVE  ListedInside'
  BY <1>1, <1>5 DEF ListedInside, Opened, Listing, CursorType
<1>6. ASSUME NEW s \in Side, cursor' = [cursor EXCEPT ![s] = Closed]
      PROVE  ListedInside'
  BY <1>1, <1>6 DEF ListedInside, Closed, CursorType
<1>7. ASSUME NEW d, Relist(d)
      PROVE  ListedInside'
  BY <1>1, <1>7 DEF Relist, ListedInside, Closed, CursorType
<1>8. CASE Abort
  BY <1>8 DEF Abort, Closed, ListedInside
<1> QED BY <1>2, <1>3, <1>4, <1>5, <1>6, <1>7, <1>8

LEMMA StackOf ==
    ASSUME NEW S, NEW T, S \subseteq T, NEW st \in Seq(S)
    PROVE  /\ st \in Seq(T)
           /\ st # <<>> => Head(st) \in T /\ Tail(st) \in Seq(T)
           /\ \A f \in T : <<f>> \o st \in Seq(T)
           /\ \A f \in T : st # <<>> => <<f>> \o Tail(st) \in Seq(T)
OBVIOUS

\* The innermost call changes its place, or what it has noted.
LEMMA TopMeant ==
    ASSUME RemovalInv, Kept, stack # <<>>, NEW f \in CallType,
           f.op = Top.op, f.dir = Top.dir,
           f.pc = "check" => Prunes \/ Top.pc = "check",
           f.op = "delete" => \A k \in f.dirs : Parent[k] = f.dir,
           stack' = WithTop(f)
    PROVE  stack' \in Seq(Meant')
<1>1. Top \in Meant /\ Top \in Meant'
  BY StackOf, MeantStays DEF RemovalInv, Top
<1>2. f \in Meant'
  <2>1. f.op = "delete" => Doomed(f.dir)'
    <3>1. Top.op = "delete" => Doomed(Top.dir) /\ Top.dir \in Node
      BY <1>1 DEF Meant, CallType
    <3> QED BY <3>1, DoomStays
  <2>2. f.pc = "check" => Prunes'
    BY <1>1 DEF Meant, Kept, Prunes
  <2> QED BY <2>1, <2>2 DEF Meant
<1> QED BY <1>2, StackOf, MeantStays DEF RemovalInv, WithTop

\* A call is made, to remove only what is doomed.
LEMMA PushMeant ==
    ASSUME Kept, NEW st \in Seq(Meant'), NEW o \in {"backup", "delete", "restore"},
           NEW d \in Node, NEW l \in Nat, o = "delete" => Doomed(d)',
           stack' = <<Call(o, d, l)>> \o st
    PROVE  stack' \in Seq(Meant')
<1>1. Call(o, d, l) \in Meant'
  BY DEF Call, Meant, CallType
<1> QED BY <1>1, StackOf

LEMMA StackStep ==
    ASSUME RemovalInv, Kept, "stat" \notin Faults, Next
    PROVE  stack' \in Seq(Meant')
<1> DEFINE f(p) == [Top EXCEPT !.pc = p]
           g(n) == [Top EXCEPT !.dirs = @ \cup {n}]
<1>1. stack \in Seq(Meant) /\ Meant \subseteq Meant' /\ stack \in Seq(Meant')
  BY MeantStays, StackOf DEF RemovalInv
<1>2. stack # <<>> => /\ Top \in Meant /\ Top \in CallType /\ Top \in Meant'
                      /\ Tail(stack) \in Seq(Meant')
  BY <1>1, StackOf DEF Top, Meant
<1>3. CASE UNCHANGED stack \/ stack' = <<>> \/ (stack # <<>> /\ stack' = Tail(stack))
  BY <1>1, <1>2, <1>3, EmptySeq
<1>4. ASSUME stack # <<>>, NEW p \in {"scan", "recurse", "check"},
             stack' = At(p), p = "check" => Prunes
      PROVE  stack' \in Seq(Meant')
  <2>1. f(p) \in CallType /\ f(p).op = Top.op /\ f(p).dir = Top.dir /\ f(p).pc = p
        /\ f(p).dirs = Top.dirs
    BY <1>2, <1>4 DEF CallType
  <2>2. Top.op = "delete" => \A k \in Top.dirs : Parent[k] = Top.dir
    BY <1>2, <1>4 DEF Meant
  <2> QED BY <1>4, <2>1, <2>2, TopMeant DEF At
<1>5. CASE \/ EnterFolder \/ EnterUnlisted \/ EndScan \/ BeginCheck
           \/ EnterDelete \/ EndDeleteScan \/ EnterRestoreFails \/ EndRestoreScan
  <2>1. stack # <<>>
    BY <1>5 DEF EnterFolder, EnterUnlisted, EndScan, BeginCheck, EnterDelete,
                EndDeleteScan, EnterRestoreFails, EndRestoreScan, In
  <2>2. \/ stack' = At("scan") \/ stack' = At("recurse") \/ stack' = <<>>
        \/ stack' = At("check") /\ Prunes
    BY <1>5 DEF EnterFolder, EnterUnlisted, EndScan, BeginCheck, EnterDelete,
                EndDeleteScan, EnterRestoreFails, EndRestoreScan, Abort
  <2> QED BY <1>3, <1>4, <2>1, <2>2
<1>6. CASE EnterRefused \/ EndFolder \/ RemoveFolder \/ EndRestore \/ Done
  BY <1>3, <1>6 DEF EnterRefused, EndFolder, RemoveFolder, EndRestore, Done, Abort, In
<1>7. CASE EnterRestore
  <2> DEFINE h == [Top EXCEPT !.pc = "scan", !.dirs = {Top.dir, Parent[Top.dir]}]
  <2>1. stack # <<>> /\ Top.op = "restore" /\ stack' = WithTop(h)
    BY <1>7 DEF EnterRestore, In
  <2>2. h \in CallType /\ h.op = Top.op /\ h.dir = Top.dir /\ h.pc = "scan"
    BY <1>2, <2>1, TreeAssumption DEF CallType
  <2> QED BY <2>1, <2>2, TopMeant
<1>8. CASE Recurse \/ DeleteRecurse \/ RestoreRecurse
  <2>1. stack # <<>> /\ \E d \in Top.dirs : Descend(d)
    BY <1>8 DEF Recurse, DeleteRecurse, RestoreRecurse, In
  <2>2. PICK d \in Top.dirs : Descend(d)
    BY <2>1
  <2> DEFINE h == [Top EXCEPT !.dirs = @ \ {d}]
             st == WithTop(h)
  <2>3. /\ d \in Node /\ Top.op \in {"backup", "delete", "restore"} /\ Top.len + 1 \in Nat
        /\ Top.op = "delete" => Doomed(Top.dir) /\ Parent[d] = Top.dir
    BY <1>2, <2>1 DEF Meant, CallType
  <2>4. PICK o \in {"backup", "delete", "restore"}, l \in Nat :
            o = Top.op /\ stack' = <<Call(o, d, l)>> \o st
    BY <2>2, <2>3 DEF Descend
  <2>5. h \in Meant
    BY <1>2, <2>1 DEF Meant, CallType
  <2>6. st \in Seq(Meant')
    BY <1>1, <2>1, <2>5, StackOf DEF WithTop
  <2>7. o = "delete" => Doomed(d)
    BY <2>3, <2>4, DoomedInside
  <2>8. o = "delete" => Doomed(d)'
    BY <2>3, <2>7, DoomStays
  <2> QED BY <2>3, <2>4, <2>6, <2>8, PushMeant
<1>9. ASSUME NEW n \in Node, Item(n)
      PROVE  stack' \in Seq(Meant')
  <2>1. stack # <<>>
    BY <1>9
    DEF Item, PassItem, UpdateFile, NoteFolder, LeaveNewer, LeaveNewerAndAbort, BackupNewer,
        RestoreNewer, PassChecked, LeaveOrphan, DeleteOrphan, RestoreOrphan, DeleteItem,
        DeleteOrphanFolder, RestoreOrphanFolder,
        RestoreFile, RestoreOther, QuestionNewer, FileToScan, ScanOf, Orphan, CheckOf, In
  <2>2. CASE \/ PassItem(n) \/ LeaveNewer(n) \/ LeaveNewerAndAbort(n) \/ PassChecked(n)
             \/ LeaveOrphan(n) \/ DeleteOrphan(n) \/ RestoreOrphan(n) \/ RestoreFile(n)
    BY <1>3, <2>2 DEF PassItem, LeaveNewer, LeaveNewerAndAbort, PassChecked, LeaveOrphan,
                      DeleteOrphan, RestoreOrphan, RestoreFile, Transfer, Abort
  <2>3. CASE UpdateFile(n) \/ BackupNewer(n) \/ RestoreNewer(n)
    <3> DEFINE h == [Top EXCEPT !.assigned = TRUE]
    <3>1. stack' = <<>> \/ stack' = WithTop(h)
      BY <2>3 DEF UpdateFile, BackupNewer, RestoreNewer, Transfer, Abort, Assigned
    <3>2. /\ h \in CallType /\ h.op = Top.op /\ h.dir = Top.dir /\ h.pc = Top.pc
          /\ h.dirs = Top.dirs
      BY <1>2, <2>1 DEF CallType
    <3>3. Top.op = "delete" => \A k \in Top.dirs : Parent[k] = Top.dir
      BY <1>2, <2>1 DEF Meant
    <3> QED BY <1>3, <2>1, <3>1, <3>2, <3>3, TopMeant
  <2>4. CASE NoteFolder(n) \/ DeleteItem(n) \/ RestoreOther(n)
    <3>1. UNCHANGED stack \/ stack' = WithTop(g(n))
      BY <2>4 DEF NoteFolder, DeleteItem, RestoreOther, Noted
    <3>2. /\ g(n) \in CallType /\ g(n).op = Top.op /\ g(n).dir = Top.dir /\ g(n).pc = Top.pc
          /\ g(n).dirs = Top.dirs \cup {n}
      BY <1>2, <2>1 DEF CallType
    <3>3. Top.op = "delete" => Parent[n] = Top.dir
      BY <2>4 DEF NoteFolder, ScanOf, DeleteItem, RestoreOther, In, RemovalInv, ListedInside,
                  TreeInv, CursorIsMine, Side
    <3>4. Top.op = "delete" => \A k \in Top.dirs \cup {n} : Parent[k] = Top.dir
      BY <1>2, <2>1, <3>3 DEF Meant
    <3> QED BY <1>3, <2>1, <3>1, <3>2, <3>4, TopMeant
  <2>5. CASE DeleteOrphanFolder(n)
    <3>1. Doomed(n)' /\ stack' = <<Call("delete", n, 1)>> \o stack
      BY <2>5, OrphanIsDoomed DEF DeleteOrphanFolder
    <3> QED BY <1>1, <3>1, PushMeant
  <2>6. CASE RestoreOrphanFolder(n)
    BY <1>1, <2>6, PushMeant DEF RestoreOrphanFolder
  <2> QED BY <1>9, <2>2, <2>3, <2>4, <2>5, <2>6 DEF Item
<1> QED BY <1>5, <1>6, <1>7, <1>8, <1>9 DEF Next

-----------------------------------------------------------------------------
(* The invariant and what follows from it.                                 *)

LEMMA InitRemovalInv == Dated /\ Init => RemovalInv
<1> SUFFICES ASSUME Dated, Init
             PROVE  RemovalInv
  OBVIOUS
<1>1. TreeInv
  BY InitTreeInv
<1>2. FilesInv
  BY <1>1 DEF Init, Dated, TreeInv, FilesInv, Ages, SourceStays, OrphansAreOld, RemovedWithConsent
<1>3. ListedInside
  BY DEF Init, Closed, ListedInside
<1>4. Call("backup", Root, 0) \in Meant
  BY TreeAssumption DEF Call, Meant, CallType
<1> QED BY <1>1, <1>2, <1>3, <1>4 DEF Init, RemovalInv

LEMMA StepRemovalInv ==
    Dated /\ "stat" \notin Faults /\ RemovalInv /\ [Next]_vars => RemovalInv'
<1> SUFFICES ASSUME Dated, "stat" \notin Faults, RemovalInv, [Next]_vars
             PROVE  RemovalInv'
  OBVIOUS
<1>1. TreeInv'
  BY StepTreeInv DEF RemovalInv
<1>2. CASE UNCHANGED vars
  <2>1. Kept /\ UNCHANGED fs
    BY <1>2 DEF vars, Kept
  <2>2. FilesInv'
    BY <2>1, FilesStep
  <2>3. ListedInside' /\ stack' \in Seq(Meant')
    BY <1>2, <2>1, MeantStays, StackOf DEF vars, RemovalInv, ListedInside
  <2> QED BY <1>1, <2>2, <2>3 DEF RemovalInv
<1>3. CASE Next
  <2>1. Kept
    BY <1>3, StepKeeps DEF RemovalInv
  <2>2. FilesInv'
    BY <1>3, <2>1, StepWrites, FilesStep
  <2>3. ListedInside' /\ stack' \in Seq(Meant')
    BY <1>3, <2>1, CursorStep, StackStep DEF RemovalInv, TreeInv
  <2> QED BY <1>1, <2>2, <2>3 DEF RemovalInv
<1> QED BY <1>2, <1>3

\* As long as no status call fails and nothing is dated 0, a run deletes from
\* the destination only what had no source when it began and what the options
\* -d and -e, or an answer "d", condemned by name, and what is in such a folder.
THEOREM TreeRemoved ==
    ASSUME "stat" \notin Faults, Dated
    PROVE  Spec => []RemovedWithConsent
<1>1. Init => RemovalInv
  BY InitRemovalInv
<1>2. RemovalInv /\ [Next]_vars => RemovalInv'
  BY StepRemovalInv
<1>3. RemovalInv => RemovedWithConsent
  BY DEF RemovalInv, FilesInv
<1> QED BY <1>1, <1>2, <1>3, PTL DEF Spec
=============================================================================
