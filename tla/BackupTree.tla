----------------------------- MODULE BackupTree -----------------------------
(***************************************************************************)
(* One run of CBackupFolder::StartBackup over a small tree of folders:     *)
(* BackupThis, CopyNewFolderToDest and deleteFolder, which call themselves *)
(* and each other, with the stack of their calls and the one directory     *)
(* cursor that each folder object has for all of them.                     *)
(*                                                                         *)
(* A call of CopyFileToDest is one step here, with any outcome that        *)
(* CopyPromise allows.                                                     *)
(***************************************************************************)
EXTENDS Files, FiniteSets

CONSTANTS
    Node,        \* the paths of the model
    Root,        \* the folder that is backed up, and its counterpart
    Above,       \* the folder that Root is in, out of the backup's reach
    Parent,      \* the folder of each path
    Trees,       \* the contents of the two file systems a run may start with
    Options,     \* the options it may be given
    Keys,        \* the keys the user may press; a question can also time out
    Now,         \* the date of the run, later than that of any file
    MaxPath      \* PATH_MAX: a longer path cannot be opened

Kind == {"file", "dir", "link"}
TreeEntry == [kind: Kind, data: Seq(Version), mtime: Nat] \cup {Absent}

Option == [file: {"ask", "leave", "delete"}, folder: {"ask", "leave", "delete"},
           recursive: BOOLEAN, excluded: SUBSET Node]

ASSUME TreeAssumption ==
    /\ Root \in Node
    /\ Above \in Node
    /\ Parent \in [Node -> Node]
    /\ Trees \subseteq [Side -> [Node -> TreeEntry]]
    /\ \A t \in Trees, s \in Side, n \in Node :
           t[s][n] # Absent =>
               t[s][Parent[n]] # Absent /\ t[s][Parent[n]].kind = "dir"
    /\ Options \subseteq Option
    /\ Keys \subseteq {"l", "b", "r", "d"}
    /\ Now \in Nat
    /\ MaxPath \in Nat
    /\ Absent \notin [kind: Kind, data: Seq(Version), mtime: Nat]
    /\ Absent \notin Node

VARIABLES
    fs,      \* the entry at each path, on each side
    cursor,  \* m_dirSearch of each side: its folder and what it has yet to return
    stack,   \* the calls under way, innermost first
    opt,     \* the options of the run
    answer,  \* the answers to the questions about each path
    status,  \* "running", "done" or "aborted"
    first    \* fs when the run began

vars == <<fs, cursor, stack, opt, answer, status, first>>

-----------------------------------------------------------------------------
Is(s, n, k) == fs[s][n] # Absent /\ fs[s][n].kind = k

\* What a listing of folder d returns, "." and ".." aside.
Listing(s, d) == {n \in Node \ {d} : Parent[n] = d /\ fs[s][n] # Absent}

Closed == [dir |-> Absent, left |-> {}]

\* getFirst: whatever the cursor was at is closed, then the folder is opened,
\* if it can be.
CanList(s, d) == Is(s, d, "dir")
Opened(s, d) == [dir |-> d, left |-> Listing(s, d)]

\* Mutant: the cursor stays where it is.
Unmoved(s, n) == cursor

\* getNext: the cursor without the path n it returns.
Advanced(s, n) == [cursor EXCEPT ![s].left = @ \ {n}]

\* A call: the function, its folder, where it is, the folders it has put in
\* srcDirs (dirList), whether BackupThis has assigned iResult, and the number
\* of names in its path.
Call(op, d, len) ==
    [op |-> op, dir |-> d, pc |-> "enter", dirs |-> {}, assigned |-> FALSE, len |-> len]

Top == Head(stack)
In(op, pc) == stack # <<>> /\ Top.op = op /\ Top.pc = pc
WithTop(f) == <<f>> \o Tail(stack)
At(pc) == WithTop([Top EXCEPT !.pc = pc])
Noted(n) == WithTop([Top EXCEPT !.dirs = @ \cup {n}])
Assigned == WithTop([Top EXCEPT !.assigned = TRUE])

\* Calling the function on the folder d of its list.
Descend(d) ==
    stack' = <<Call(Top.op, d, Top.len + 1)>>
                 \o WithTop([Top EXCEPT !.dirs = @ \ {d}])

Abort ==
    /\ stack' = <<>>
    /\ cursor' = [s \in Side |-> Closed]
    /\ status' = "aborted"

\* The answer k to a question about n.
Said(n, k) == [answer EXCEPT ![n] = @ \cup {k}]

Prunes == opt.file # "leave" /\ opt.folder # "leave"

-----------------------------------------------------------------------------
(* CopyFileToDest of the path n, read from side s.                         *)

FileEntry(d, t) == [kind |-> "file", data |-> d, mtime |-> t]

\* The parts of the data d that a copy may stop at.
Parts(d) == {SubSeq(d, 1, k) : k \in 0..(Len(d) - 1)}

Refused(t, r) == [entry |-> t, result |-> r]

Outcomes(s, n) ==
    LET e == fs[s][n]
        t == fs[Opposite(s)][n]
        writable == CanList(Opposite(s), Parent[n]) /\ ~Is(Opposite(s), n, "dir")
        \* A link stays one: what is written, or cannot be, is where it leads,
        \* and that is none of the paths of the model.
        link == Is(Opposite(s), n, "link")
        put(new) == IF link THEN t ELSE new
        \* A failed status call leaves the copy empty, or without its date.
        whole == {e.data} \cup (IF "stat" \in Faults THEN {<<>>} ELSE {})
        when == {e.mtime} \cup (IF Faults \cap {"stat", "utime"} # {} THEN {Now} ELSE {})
        cut(r) == {[entry |-> put(FileEntry(d, Now)), result |-> r] : d \in Parts(e.data)}
    IN  (IF "open" \in Faults THEN {Refused(t, CFD_OPEN_FAIL)} ELSE {})
        \cup (IF "create" \in Faults \/ link \/ ~writable
              THEN {Refused(t, CFD_CREATE_FAIL)} ELSE {})
        \cup (IF ~writable THEN {}
              ELSE {[entry |-> put(FileEntry(u, d)), result |-> CFD_SUCCESS] :
                        u \in whole, d \in when}
                   \cup (IF "write" \in Faults THEN cut(CFD_WRITE_FAIL) ELSE {})
                   \cup (IF "full" \in Faults THEN cut(CFD_DEST_FULL) ELSE {}))

\* The copy is made; after a fatal result the whole run is given up, after any
\* other one the cursor of side c goes on past n and the stack is `after`.
Transfer(s, n, c, after) ==
    \E o \in Outcomes(s, n) :
        /\ fs' = [fs EXCEPT ![Opposite(s)][n] = o.entry]
        /\ IF Fatal(o.result)
           THEN Abort
           ELSE /\ stack' = after
                /\ cursor' = Advanced(c, n)
                /\ UNCHANGED status

-----------------------------------------------------------------------------
(* BackupThis: entering a folder.                                          *)

\* The folder is listed. Its counterpart is there, or is created.
EnterFolder ==
    LET d == Top.dir
    IN  /\ In("backup", "enter")
        /\ CanList("src", d)
        /\ cursor' = [cursor EXCEPT !["src"] = Opened("src", d)]
        /\ \/ Is("dst", d, "dir") /\ UNCHANGED fs
           \/ /\ fs["dst"][d] = Absent
              /\ CanList("dst", Parent[d])
              /\ fs' = [fs EXCEPT !["dst"][d] = [fs["src"][d] EXCEPT !.mtime = Now]]
        /\ stack' = At("scan")
        /\ UNCHANGED <<opt, answer, status, first>>

\* The source folder cannot be listed: the run is given up for the root, any
\* other folder is treated as if there were nothing in it.
EnterUnlisted ==
    /\ In("backup", "enter")
    /\ ~CanList("src", Top.dir) \/ "list" \in Faults
    /\ IF Top.dir = Root
       THEN Abort
       ELSE /\ stack' = At("recurse")
            /\ cursor' = [cursor EXCEPT !["src"] = Closed]
            /\ UNCHANGED status
    /\ UNCHANGED <<fs, opt, answer, first>>

\* The folder cannot be created: the run is given up for the root, this call
\* returns for any other folder.
EnterRefused ==
    LET d == Top.dir
    IN  /\ In("backup", "enter")
        /\ CanList("src", d)
        /\ \/ fs["dst"][d] # Absent /\ ~Is("dst", d, "dir")
           \/ fs["dst"][d] = Absent /\ "create" \in Faults
           \/ fs["dst"][d] = Absent /\ ~CanList("dst", Parent[d])
        /\ IF d = Root
           THEN Abort
           ELSE /\ stack' = Tail(stack)
                /\ cursor' = [cursor EXCEPT !["src"] = Opened("src", d)]
                /\ UNCHANGED status
        /\ UNCHANGED <<fs, opt, answer, first>>

-----------------------------------------------------------------------------
(* BackupThis: the scan of the source folder.                              *)

ScanOf(n, k) ==
    /\ In("backup", "scan")
    /\ n \in cursor["src"].left
    /\ Is("src", n, k)

FileToScan(n) == ScanOf(n, "file") /\ n \notin opt.excluded

SrcViews(n) == Views(fs["src"][n])
DstViews(n) == Views(fs["dst"][n])

\* Nothing is done about n.
PassItem(n) ==
    /\ \/ ScanOf(n, "file") /\ n \in opt.excluded
       \/ ScanOf(n, "dir") /\ (n \in opt.excluded \/ ~opt.recursive)
       \/ ScanOf(n, "link")
       \/ /\ FileToScan(n)
          /\ \E s \in SrcViews(n), d \in DstViews(n) : UpToDate(s, d)
    /\ cursor' = Advanced("src", n)
    /\ UNCHANGED <<fs, stack, opt, answer, status, first>>

UpdateFile(n) ==
    /\ FileToScan(n)
    /\ \E s \in SrcViews(n), d \in DstViews(n) : NeedsCopy(s, d)
    /\ Transfer("src", n, "src", Assigned)
    /\ UNCHANGED <<opt, answer, first>>

QuestionNewer(n) ==
    /\ FileToScan(n)
    /\ \E s \in SrcViews(n), d \in DstViews(n) : NewerBackup(s, d)

LeaveNewer(n) ==
    /\ QuestionNewer(n)
    /\ \E k \in (Keys \cap {"l"}) \cup {"1"} : answer' = Said(n, k)
    /\ cursor' = Advanced("src", n)
    /\ UNCHANGED <<fs, stack, opt, status, first>>

\* The code that asks about a file of another size tests iResult after any
\* answer. If nothing has assigned it yet in this call, it may be negative.
LeaveNewerAndAbort(n) ==
    /\ FileToScan(n)
    /\ \E s \in SrcViews(n), d \in DstViews(n) : NewerBackup(s, d) /\ Resized(s, d)
    /\ \E k \in (Keys \cap {"l"}) \cup {"1"} : answer' = Said(n, k)
    /\ ~Top.assigned
    /\ Abort
    /\ UNCHANGED <<fs, opt, first>>

BackupNewer(n) ==
    /\ QuestionNewer(n)
    /\ "b" \in Keys
    /\ answer' = Said(n, "b")
    /\ Transfer("src", n, "src", Assigned)
    /\ UNCHANGED <<opt, first>>

\* Mutant: a question that nobody answers is taken for "r".
RestoreByDefault(n) ==
    /\ QuestionNewer(n)
    /\ answer' = Said(n, "1")
    /\ Transfer("dst", n, "src", Assigned)
    /\ UNCHANGED <<opt, first>>

RestoreNewer(n) ==
    /\ QuestionNewer(n)
    /\ "r" \in Keys
    /\ answer' = Said(n, "r")
    /\ Transfer("dst", n, "src", Assigned)
    /\ UNCHANGED <<opt, first>>

NoteFolder(n) ==
    /\ ScanOf(n, "dir")
    /\ opt.recursive
    /\ n \notin opt.excluded
    /\ stack' = Noted(n)
    /\ cursor' = Advanced("src", n)
    /\ UNCHANGED <<fs, opt, answer, status, first>>

EndScan ==
    /\ In("backup", "scan")
    /\ cursor["src"].left = {}
    /\ cursor' = [cursor EXCEPT !["src"] = Closed]
    /\ stack' = At("recurse")
    /\ UNCHANGED <<fs, opt, answer, status, first>>

Recurse ==
    /\ In("backup", "recurse")
    /\ \E d \in Top.dirs : Descend(d)
    /\ UNCHANGED <<fs, cursor, opt, answer, status, first>>

-----------------------------------------------------------------------------
(* BackupThis: the check of the destination folder.                        *)

BeginCheck ==
    /\ In("backup", "recurse")
    /\ Top.dirs = {}
    /\ Prunes
    /\ stack' = At("check")
    /\ \/ /\ CanList("dst", Top.dir)
          /\ cursor' = [cursor EXCEPT !["dst"] = Opened("dst", Top.dir)]
       \/ /\ ~CanList("dst", Top.dir) \/ "list" \in Faults
          /\ cursor' = [cursor EXCEPT !["dst"] = Closed]
    /\ UNCHANGED <<fs, opt, answer, status, first>>

\* The call returns: there is no check to make, or it is over.
EndFolder ==
    /\ \/ In("backup", "recurse") /\ Top.dirs = {} /\ ~Prunes /\ UNCHANGED cursor
       \/ /\ In("backup", "check")
          /\ cursor["dst"].left = {}
          /\ cursor' = [cursor EXCEPT !["dst"] = Closed]
    /\ stack' = Tail(stack)
    /\ UNCHANGED <<fs, opt, answer, status, first>>

CheckOf(n) == In("backup", "check") /\ n \in cursor["dst"].left

\* Mutant: the size is asked for instead of the date.
EmptySource(n, k) ==
    /\ CheckOf(n)
    /\ Is("dst", n, k)
    /\ 0 \in Answers(getFileSize(fs["src"][n]))

\* A date of 0 is all that says that the source does not exist.
Orphan(n, k) ==
    /\ CheckOf(n)
    /\ Is("dst", n, k)
    /\ 0 \in Answers(getModTime(fs["src"][n]))

PassChecked(n) ==
    /\ CheckOf(n)
    /\ \/ Is("dst", n, "link")
       \/ \E t \in Answers(getModTime(fs["src"][n])) : t # 0
    /\ cursor' = Advanced("dst", n)
    /\ UNCHANGED <<fs, stack, opt, answer, status, first>>

LeaveOrphan(n) ==
    /\ \/ Orphan(n, "file") /\ opt.file = "ask"
       \/ Orphan(n, "dir") /\ opt.folder = "ask"
    /\ \E k \in (Keys \cap {"l"}) \cup {"1"} : answer' = Said(n, k)
    /\ cursor' = Advanced("dst", n)
    /\ UNCHANGED <<fs, stack, opt, status, first>>

\* The option or the answer says that n is to be deleted.
Deletes(n, o) ==
    \/ o = "delete" /\ UNCHANGED answer
    \/ o = "ask" /\ "d" \in Keys /\ answer' = Said(n, "d")

DeleteOrphan(n) ==
    /\ Orphan(n, "file")
    /\ Deletes(n, opt.file)
    /\ \/ fs' = [fs EXCEPT !["dst"][n] = Absent]
       \/ "unlink" \in Faults /\ UNCHANGED fs
    /\ cursor' = Advanced("dst", n)
    /\ UNCHANGED <<stack, opt, status, first>>

RestoreOrphan(n) ==
    /\ Orphan(n, "file")
    /\ opt.file = "ask" /\ "r" \in Keys
    /\ answer' = Said(n, "r")
    /\ Transfer("dst", n, "dst", stack)
    /\ UNCHANGED <<opt, first>>

DeleteOrphanFolder(n) ==
    /\ Orphan(n, "dir")
    /\ Deletes(n, opt.folder)
    /\ stack' = <<Call("delete", n, 1)>> \o stack
    /\ cursor' = Advanced("dst", n)
    /\ UNCHANGED <<fs, opt, status, first>>

RestoreOrphanFolder(n) ==
    /\ Orphan(n, "dir")
    /\ opt.folder = "ask" /\ "r" \in Keys
    /\ answer' = Said(n, "r")
    /\ stack' = <<Call("restore", n, 1)>> \o stack
    /\ cursor' = Advanced("dst", n)
    /\ UNCHANGED <<fs, opt, status, first>>

-----------------------------------------------------------------------------
(* deleteFolder.                                                           *)

EnterDelete ==
    /\ In("delete", "enter")
    /\ \/ /\ CanList("dst", Top.dir)
          /\ cursor' = [cursor EXCEPT !["dst"] = Opened("dst", Top.dir)]
          /\ stack' = At("scan")
       \/ /\ "list" \in Faults
          /\ cursor' = [cursor EXCEPT !["dst"] = Closed]
          /\ stack' = At("recurse")
    /\ UNCHANGED <<fs, opt, answer, status, first>>

\* Mutant: a folder is deleted when it is met, not after the loop.
DeleteAtOnce(n) ==
    /\ In("delete", "scan")
    /\ n \in cursor["dst"].left
    /\ IF Is("dst", n, "dir")
       THEN stack' = <<Call("delete", n, Top.len + 1)>> \o stack /\ UNCHANGED fs
       ELSE UNCHANGED stack /\ fs' = [fs EXCEPT !["dst"][n] = Absent]
    /\ cursor' = Advanced("dst", n)
    /\ UNCHANGED <<opt, answer, status, first>>

DeleteItem(n) ==
    /\ In("delete", "scan")
    /\ n \in cursor["dst"].left
    /\ IF Is("dst", n, "dir")
       THEN stack' = Noted(n) /\ UNCHANGED fs
       ELSE /\ UNCHANGED stack
            /\ \/ fs' = [fs EXCEPT !["dst"][n] = Absent]
               \/ "unlink" \in Faults /\ UNCHANGED fs
    /\ cursor' = Advanced("dst", n)
    /\ UNCHANGED <<opt, answer, status, first>>

EndDeleteScan ==
    /\ In("delete", "scan")
    /\ cursor["dst"].left = {}
    /\ cursor' = [cursor EXCEPT !["dst"] = Closed]
    /\ stack' = At("recurse")
    /\ UNCHANGED <<fs, opt, answer, status, first>>

DeleteRecurse ==
    /\ In("delete", "recurse")
    /\ \E d \in Top.dirs : Descend(d)
    /\ UNCHANGED <<fs, cursor, opt, answer, status, first>>

\* Mutant: a folder is removed with what is still in it.
RmdirAll(d) == fs' = [fs EXCEPT !["dst"][d] = Absent]

\* removeFolder, which fails on a folder that is not empty.
Rmdir(d) ==
    \/ Listing("dst", d) = {} /\ fs' = [fs EXCEPT !["dst"][d] = Absent]
    \/ (Listing("dst", d) # {} \/ "unlink" \in Faults) /\ UNCHANGED fs

\* Mutant: BackupThis goes on with getNext after deleteFolder.
GoOn(d) == UNCHANGED cursor

\* BackupThis lists its folder d from the start again.
Relist(d) ==
    \/ cursor' = [cursor EXCEPT !["dst"] =
                     [dir |-> d,
                      left |-> {n \in Node \ {d} : Parent[n] = d /\ fs'["dst"][n] # Absent}]]
    \/ "list" \in Faults /\ cursor' = [cursor EXCEPT !["dst"] = Closed]

RemoveFolder ==
    LET caller == stack[2]
    IN  /\ In("delete", "recurse")
        /\ Top.dirs = {}
        /\ Rmdir(Top.dir)
        /\ stack' = Tail(stack)
        /\ IF caller.op = "backup" THEN Relist(caller.dir) ELSE UNCHANGED cursor
        /\ UNCHANGED <<opt, answer, status, first>>

-----------------------------------------------------------------------------
(* CopyNewFolderToDest, called on the destination to restore a folder.     *)

\* The listing has "." and ".." in it, and both are folders like any other:
\* the folder itself and the folder it is in are put in srcDirs.
EnterRestore ==
    LET d == Top.dir
    IN  /\ In("restore", "enter")
        /\ CanList("dst", d)
        /\ Top.len <= MaxPath
        /\ cursor' = [cursor EXCEPT !["dst"] = Opened("dst", d)]
        /\ \/ /\ fs["src"][d] = Absent
              /\ CanList("src", Parent[d])
              /\ fs' = [fs EXCEPT !["src"][d] = [fs["dst"][d] EXCEPT !.mtime = Now]]
           \/ /\ \/ fs["src"][d] # Absent
                 \/ ~CanList("src", Parent[d])
                 \/ "create" \in Faults
              /\ UNCHANGED fs
        /\ stack' = WithTop([Top EXCEPT !.pc = "scan", !.dirs = {d, Parent[d]}])
        /\ UNCHANGED <<opt, answer, status, first>>

EnterRestoreFails ==
    /\ In("restore", "enter")
    /\ Top.len > MaxPath \/ "list" \in Faults
    /\ cursor' = [cursor EXCEPT !["dst"] = Closed]
    /\ stack' = At("recurse")
    /\ UNCHANGED <<fs, opt, answer, status, first>>

RestoreFile(n) ==
    /\ In("restore", "scan")
    /\ n \in cursor["dst"].left
    /\ Is("dst", n, "file")
    /\ Transfer("dst", n, "dst", stack)
    /\ UNCHANGED <<opt, answer, first>>

RestoreOther(n) ==
    /\ In("restore", "scan")
    /\ n \in cursor["dst"].left
    /\ ~Is("dst", n, "file")
    /\ stack' = IF Is("dst", n, "dir") THEN Noted(n) ELSE stack
    /\ cursor' = Advanced("dst", n)
    /\ UNCHANGED <<fs, opt, answer, status, first>>

EndRestoreScan ==
    /\ In("restore", "scan")
    /\ cursor["dst"].left = {}
    /\ cursor' = [cursor EXCEPT !["dst"] = Closed]
    /\ stack' = At("recurse")
    /\ UNCHANGED <<fs, opt, answer, status, first>>

RestoreRecurse ==
    /\ In("restore", "recurse")
    /\ \E d \in Top.dirs : Descend(d)
    /\ UNCHANGED <<fs, cursor, opt, answer, status, first>>

\* Mutant: BackupThis lists its folder again after a restore, as it does after
\* deleteFolder.
EndRestoreAndRelist ==
    LET caller == stack[2]
    IN  /\ In("restore", "recurse")
        /\ Top.dirs = {}
        /\ stack' = Tail(stack)
        /\ cursor' = IF caller.op = "backup"
                     THEN [cursor EXCEPT !["dst"] = Opened("dst", caller.dir)]
                     ELSE cursor
        /\ UNCHANGED <<fs, opt, answer, status, first>>

EndRestore ==
    /\ In("restore", "recurse")
    /\ Top.dirs = {}
    /\ stack' = Tail(stack)
    /\ UNCHANGED <<fs, cursor, opt, answer, status, first>>

-----------------------------------------------------------------------------
Done ==
    /\ stack = <<>>
    /\ status = "running"
    /\ status' = "done"
    /\ UNCHANGED <<fs, cursor, stack, opt, answer, first>>

Item(n) ==
    \/ PassItem(n) \/ UpdateFile(n) \/ NoteFolder(n)
    \/ LeaveNewer(n) \/ LeaveNewerAndAbort(n) \/ BackupNewer(n) \/ RestoreNewer(n)
    \/ PassChecked(n) \/ LeaveOrphan(n)
    \/ DeleteOrphan(n) \/ RestoreOrphan(n)
    \/ DeleteOrphanFolder(n) \/ RestoreOrphanFolder(n)
    \/ DeleteItem(n) \/ RestoreFile(n) \/ RestoreOther(n)

Next ==
    \/ EnterFolder \/ EnterUnlisted \/ EnterRefused
    \/ EndScan \/ Recurse \/ BeginCheck \/ EndFolder
    \/ EnterDelete \/ EndDeleteScan \/ DeleteRecurse \/ RemoveFolder
    \/ EnterRestore \/ EnterRestoreFails \/ EndRestoreScan
    \/ RestoreRecurse \/ EndRestore
    \/ \E n \in Node : Item(n)
    \/ Done

Init ==
    /\ fs \in Trees
    /\ first = fs
    /\ opt \in Options
    /\ cursor = [s \in Side |-> Closed]
    /\ stack = <<Call("backup", Root, 0)>>
    /\ answer = [n \in Node |-> {}]
    /\ status = "running"

Spec == Init /\ [][Next]_vars /\ WF_vars(Next)

-----------------------------------------------------------------------------
(* Properties.                                                             *)

CallType == [op : {"backup", "delete", "restore"}, dir : Node,
             pc : {"enter", "scan", "recurse", "check"}, dirs : SUBSET Node,
             assigned : BOOLEAN, len : Nat]

TypeOK ==
    /\ fs \in [Side -> [Node -> TreeEntry]]
    /\ cursor \in [Side -> [dir : Node \cup {Absent}, left : SUBSET Node]]
    /\ \A s \in Side, n \in Node : fs[s][n] # Absent => CanList(s, Parent[n])
    /\ stack \in Seq(CallType)
    /\ opt \in Option
    /\ answer \in [Node -> SUBSET {"1", "l", "b", "d", "r"}]
    /\ status \in {"running", "done", "aborted"}
    /\ first \in [Side -> [Node -> TreeEntry]]

\* The folder object has one cursor for all the calls under way: a call that is
\* in its loop over a listing finds the cursor in its own folder, or closed by
\* a restore it has called.
CursorIsMine ==
    stack # <<>> =>
        /\ In("backup", "scan") => cursor["src"].dir = Top.dir
        /\ In("backup", "check") => cursor["dst"].dir \in {Top.dir, Absent}
        /\ Top.op \in {"delete", "restore"} /\ Top.pc = "scan"
               => cursor["dst"].dir = Top.dir

\* A set that has, with a folder, all that is in it.
Downward(S) == \A k \in Node : Parent[k] \in S => k \in S

\* The paths n is reached by: n, and the folders it is in, however deep.
UpFrom == [n \in Node |->
              {m \in Node : \A S \in SUBSET Node : m \in S /\ Downward(S) => n \in S}]

\* Every path is in Above, which is in itself; the root is an item of it.
ASSUME TreeShape ==
    /\ \A n \in Node : Above \in UpFrom[n]
    /\ Parent[Above] = Above
    /\ Parent[Root] = Above
    /\ Root # Above

\* m had no source when the run began, and the options or the user said that
\* it is to go.
ConsentTo(m) ==
    /\ first["src"][m] = Absent
    /\ \/ "d" \in answer[m]
       \/ first["dst"][m].kind = "file" /\ opt.file = "delete" /\ Prunes
       \/ first["dst"][m].kind = "dir" /\ opt.folder = "delete" /\ Prunes

\* What a run removes from the destination is, or is in, something that had no
\* source when the run began, and that the options or the user condemned by
\* name.
RemovedWithConsent ==
    \A n \in Node :
        first["dst"][n] # Absent /\ fs["dst"][n] = Absent =>
            \E m \in UpFrom[n] : ConsentTo(m)

\* The folder that is backed up is written to only after an answer "r".
SourceKeptUnlessAsked ==
    fs["src"] # first["src"] => \E m \in Node : "r" \in answer[m]

\* "You can also optionally restore the folder back to the source location":
\* a restore changes what the user was asked about, and what is in it.
RestoreStaysInside ==
    \A n \in Node :
        fs["src"][n] # first["src"][n] => \E m \in UpFrom[n] : "r" \in answer[m]

\* A run without end is one in which a folder is never got rid of: BackupThis
\* lists its own folder again after each deleteFolder and does not look at the
\* result, so it meets the folder that could not be removed again.
Terminates == <>(status # "running") \/ []<><<RemoveFolder /\ UNCHANGED fs>>_vars

-----------------------------------------------------------------------------
(* The destination that a run without faults or answers leaves, said of the *)
(* two trees it found and of what the documentation says of the options.    *)

\* The folders that BackupThis gets to work in.
Reached[n \in Node] ==
    LET s == first["src"][n]
        d == first["dst"][n]
    IN  /\ \/ n = Root
           \/ /\ n # Above
              /\ Reached[Parent[n]]
              /\ opt.recursive
              /\ n \notin opt.excluded
        /\ s # Absent
        /\ s.kind = "dir"
        /\ d # Absent => d.kind = "dir"

\* -d and -e: "delete a backed up file automatically when the source for that
\* file no longer exists", and the same of folders.
SaidToGo(n) ==
    /\ n \notin {Root, Above}
    /\ Reached[Parent[n]]
    /\ first["src"][n] = Absent
    /\ first["dst"][n] # Absent
    /\ \/ first["dst"][n].kind = "file" /\ opt.file = "delete"
       \/ first["dst"][n].kind = "dir" /\ opt.folder = "delete"

\* Of these the code does not do as it is documented with two. An excluded name
\* "will not be deleted", but BackupThis asks the list of excluded names in the
\* scan of the source only. And with -d beside -m, or -e beside -l, it deletes
\* nothing at all.
Disputed(n) == SaidToGo(n) /\ (n \in opt.excluded \/ "leave" \in {opt.file, opt.folder})

\* "Only the newer files are copied": a file without a backup, or with one that
\* is older, by two hours or more if it is of the same size. (A folder or a link
\* in the place of its backup stays there.)
Newer(n) ==
    LET s == first["src"][n]
        d == first["dst"][n]
    IN  /\ n \notin {Root, Above}
        /\ Reached[Parent[n]]
        /\ n \notin opt.excluded
        /\ s # Absent
        /\ s.kind = "file"
        /\ \/ d = Absent
           \/ /\ d.kind = "file"
              /\ \/ s.mtime >= d.mtime + TwoHours
                 \/ s.mtime >= d.mtime /\ Len(s.data) # Len(d.data)

Mirror(n) ==
    CASE \E m \in UpFrom[n] : SaidToGo(m) -> Absent
      [] Newer(n) -> first["src"][n]
      [] Reached[n] /\ first["dst"][n] = Absent -> [first["src"][n] EXCEPT !.mtime = Now]
      [] OTHER -> first["dst"][n]

\* A run that nobody answers, and that nothing goes wrong in, leaves exactly
\* that destination: all that is new or newer is copied at every depth, all
\* that has no source is deleted where the options say so, and nothing else
\* is touched. What is disputed is as it was or gone, and so is what is in it.
MirrorAtEnd ==
    status = "done" =>
        \A n \in Node :
            IF \E m \in UpFrom[n] : Disputed(m)
            THEN fs["dst"][n] \in {first["dst"][n], Absent}
            ELSE fs["dst"][n] = Mirror(n)
=============================================================================
