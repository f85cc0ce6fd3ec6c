------------------------------ MODULE FileSync ------------------------------
(***************************************************************************)
(* The life of one file under ztbackup: one backup run after the other,    *)
(* each of them BackupThis as it meets this file, first in the source      *)
(* folder (compare, then skip, copy or ask), then in the destination       *)
(* folder (the file has no source any more: keep, delete or ask), with     *)
(* CopyFileToDest inside.  Between and during the runs the user edits the  *)
(* files, calls fail and the process may die anywhere.                     *)
(***************************************************************************)
EXTENDS CopyFile

CONSTANTS
    FileOptions,    \* the file options a run may be given
    FolderOptions,  \* the folder options
    Keys,           \* the keys the user may press; a question can also time out
    EditWhileCopying \* may the source be rewritten while it is read?

Option == {"notset", "ask", "leave", "delete"}
Key == {"l", "b", "r", "d"}

ASSUME SyncAssumption ==
    /\ FileOptions \subseteq Option
    /\ FolderOptions \subseteq Option
    /\ Keys \subseteq Key
    /\ EditWhileCopying \in BOOLEAN

VARIABLES
    phase,    \* what the run is doing with the file
    opt,      \* the options of the run
    said,     \* the last key of the run; "1" for a question timed out
    diverged, \* has the user changed either file since a copy last began?
    want      \* the backup the user asked to restore and has not got yet

syncVars == <<phase, opt, said, diverged, want>>
vars == <<cvars, syncVars>>

\* StartBackup: an option that is not given means "ask".
Effective(o) == IF o = "notset" THEN "ask" ELSE o

NoRun == [file |-> "leave", folder |-> "leave"]

\* The two questions are told apart by what led to them: AskTimedRestoreQuestion
\* about files of different size, or of different date only.
Phases == {"off", "examine", "askResized", "askOlder", "update",
           "check", "askDelete", "restore", "exit"}

\* The check of the destination is made only if neither option is "leave".
Prunes == opt.file # "leave" /\ opt.folder # "leave"
AfterScan == IF Prunes THEN "check" ELSE "exit"

world == <<fs, clock>>

-----------------------------------------------------------------------------
(* The scan of the source folder.                                          *)

Start ==
    /\ phase = "off"
    /\ phase' = "examine"
    /\ \E f \in FileOptions, g \in FolderOptions :
          opt' = [file |-> Effective(f), folder |-> Effective(g)]
    /\ UNCHANGED <<world, copyVars, said, diverged, want>>

\* The file is not in the listing of the source folder.
PassOver ==
    /\ phase = "examine"
    /\ fs["src"] = Absent \/ "list" \in Faults
    /\ phase' = AfterScan
    /\ UNCHANGED <<world, copyVars, opt, said, diverged, want>>

Skip ==
    /\ phase = "examine"
    /\ fs["src"] # Absent
    /\ \E s \in Views(fs["src"]), d \in Views(fs["dst"]) : UpToDate(s, d)
    /\ phase' = AfterScan
    /\ UNCHANGED <<world, copyVars, opt, said, diverged, want>>

Update ==
    /\ phase = "examine"
    /\ fs["src"] # Absent
    /\ \E s \in Views(fs["src"]), d \in Views(fs["dst"]) : NeedsCopy(s, d)
    /\ Invoke("src")
    /\ phase' = "update"
    /\ UNCHANGED <<world, opt, said, diverged, want>>

AskRestore ==
    /\ phase = "examine"
    /\ fs["src"] # Absent
    /\ \E s \in Views(fs["src"]), d \in Views(fs["dst"]) :
          /\ NewerBackup(s, d)
          /\ phase' = IF Resized(s, d) THEN "askResized" ELSE "askOlder"
    /\ UNCHANGED <<world, copyVars, opt, said, diverged, want>>

\* "l", or no answer in time. After the question about a file of another size
\* the code goes on to test iResult, which nothing may have set yet: a negative
\* value on the stack ends the run.
KeepBoth ==
    /\ phase \in {"askResized", "askOlder"}
    /\ said' \in (Keys \cap {"l"}) \cup {"1"}
    /\ phase' \in {AfterScan} \cup (IF phase = "askResized" THEN {"exit"} ELSE {})
    /\ UNCHANGED <<world, copyVars, opt, diverged, want>>

BackupAnyway ==
    /\ phase \in {"askResized", "askOlder"}
    /\ "b" \in Keys
    /\ said' = "b"
    /\ Invoke("src")
    /\ phase' = "update"
    /\ want' = Absent
    /\ UNCHANGED <<world, opt, diverged>>

\* Mutant: a question that nobody answers is taken for "r".
RestoreByDefault ==
    /\ phase \in {"askResized", "askOlder"}
    /\ said' = "1"
    /\ Invoke("dst")
    /\ phase' = "update"
    /\ UNCHANGED <<world, opt, diverged, want>>

RestoreNewer ==
    /\ phase \in {"askResized", "askOlder"}
    /\ "r" \in Keys
    /\ said' = "r"
    /\ Invoke("dst")
    /\ phase' = "update"
    /\ want' = fs["dst"]
    /\ UNCHANGED <<world, opt, diverged>>

-----------------------------------------------------------------------------
(* The check of the destination folder.                                    *)

\* Not in the listing of the destination, or its source is there.
CheckPasses ==
    /\ phase = "check"
    /\ \/ fs["dst"] = Absent
       \/ "list" \in Faults
       \/ \E t \in Answers(getModTime(fs["src"])) : t # 0
    /\ phase' = "exit"
    /\ UNCHANGED <<world, copyVars, opt, said, diverged, want>>

\* Mutant: the size is asked for instead of the date.
SourceEmpty ==
    /\ phase = "check"
    /\ fs["dst"] # Absent
    /\ 0 \in Answers(getFileSize(fs["src"]))

\* A date of 0 is all that says that the source does not exist.
SourceGone ==
    /\ phase = "check"
    /\ fs["dst"] # Absent
    /\ 0 \in Answers(getModTime(fs["src"]))

\* deleteFile, whose result nobody looks at.
Unlink ==
    /\ \/ fs' = [fs EXCEPT !["dst"] = Absent]
       \/ "unlink" \in Faults /\ UNCHANGED fs
    /\ phase' = "exit"
    /\ UNCHANGED <<clock, copyVars, opt>>

Prune ==
    /\ SourceGone
    /\ opt.file = "delete"
    /\ Unlink
    /\ UNCHANGED <<said, diverged, want>>

AskDelete ==
    /\ SourceGone
    /\ opt.file = "ask"
    /\ phase' = "askDelete"
    /\ UNCHANGED <<world, copyVars, opt, said, diverged, want>>

KeepOrphan ==
    /\ phase = "askDelete"
    /\ said' \in (Keys \cap {"l"}) \cup {"1"}
    /\ phase' = "exit"
    /\ UNCHANGED <<world, copyVars, opt, diverged, want>>

DeleteOrphan ==
    /\ phase = "askDelete"
    /\ "d" \in Keys
    /\ said' = "d"
    /\ Unlink
    /\ want' = Absent
    /\ UNCHANGED diverged

RestoreOrphan ==
    /\ phase = "askDelete"
    /\ "r" \in Keys
    /\ said' = "r"
    /\ Invoke("dst")
    /\ phase' = "restore"
    /\ want' = fs["dst"]
    /\ UNCHANGED <<world, opt, diverged>>

-----------------------------------------------------------------------------
(* CopyFileToDest under way, and its return.                               *)

Copying ==
    /\ CopyStep
    /\ diverged' = IF pc = "create" /\ pc' = "copy" THEN FALSE ELSE diverged
    /\ want' = IF from = "dst" /\ pc = "stamp" THEN Absent ELSE want
    /\ UNCHANGED <<phase, opt, said>>

\* Mutant: after a restore the destination is checked from the start again.
ReturnedToCheck ==
    /\ Resume
    /\ phase' = CASE Fatal(result)      -> "exit"
                 [] phase = "restore"  -> "check"
                 [] OTHER              -> AfterScan
    /\ UNCHANGED <<world, opt, said, diverged, want>>

Returned ==
    /\ Resume
    /\ phase' = IF Fatal(result) \/ phase = "restore" THEN "exit" ELSE AfterScan
    /\ UNCHANGED <<world, opt, said, diverged, want>>

\* The process ends: by itself, or at any moment.
Over ==
    /\ Die
    /\ phase' = "off"
    /\ opt' = NoRun
    /\ said' = "none"
    /\ UNCHANGED <<world, diverged, want>>

Exit == phase = "exit" /\ Over
Crash == "crash" \in Faults /\ phase # "off" /\ Over

Program ==
    \/ PassOver \/ Skip \/ Update \/ AskRestore
    \/ KeepBoth \/ BackupAnyway \/ RestoreNewer
    \/ CheckPasses \/ Prune \/ AskDelete
    \/ KeepOrphan \/ DeleteOrphan \/ RestoreOrphan
    \/ Copying \/ Returned \/ Exit

-----------------------------------------------------------------------------
(* The user's hand on the files.                                           *)

\* If the model says so, the file being read may be rewritten in place.
Rewrite ==
    /\ EditWhileCopying
    /\ pc \in {"open", "create", "copy", "stamp"}
    /\ fs[from] # Absent
    /\ \E f \in UserFiles : fs' = [fs EXCEPT ![from] = f]
    /\ UNCHANGED <<clock, copyVars>>

User ==
    /\ (\E s \in Side : Edit(s) \/ Remove(s)) \/ Rewrite
    /\ diverged' = TRUE
    /\ want' = Absent
    /\ UNCHANGED <<phase, opt, said>>

Time == Tick /\ UNCHANGED syncVars

SyncInit ==
    /\ CopyInit
    /\ phase = "off"
    /\ opt = NoRun
    /\ said = "none"
    /\ diverged = TRUE
    /\ want = Absent

SyncNext == Start \/ Program \/ Crash \/ User \/ Time

SyncSpec == SyncInit /\ [][SyncNext]_vars

\* The run is one thread that never waits for good (a question times out), and
\* runs are started again and again, as a cron job does.
Fairness == WF_vars(Program) /\ WF_vars(Start)
FairSpec == SyncSpec /\ Fairness

-----------------------------------------------------------------------------
(* Properties.                                                             *)

SyncTypeOK ==
    /\ CopyTypeOK
    /\ phase \in Phases
    /\ opt \in [file : {"ask", "leave", "delete"},
                folder : {"ask", "leave", "delete"}]
    /\ said \in Key \cup {"1", "none"}
    /\ diverged \in BOOLEAN
    /\ want \in Entry

\* BackupThis skips a file by its size and date alone.  A file it would skip
\* now is a faithful copy unless the user changed a side since a copy last
\* began: no failed write, crash or missed date leaves a torn copy that every
\* later run takes to be up to date.
SkippedIsCopied ==
    LET src == fs["src"]
        dst == fs["dst"]
    IN  (/\ ~diverged
         /\ src # Absent
         /\ dst # Absent
         /\ Len(src.data) = Len(dst.data)
        ) => src.data = dst.data

\* A step of the program: one of the user or the clock moves none of these.
ByProgram == <<phase, pc, copied>>' # <<phase, pc, copied>>

\* The program writes to the folder it backs up only in a restore the user
\* asked for in the same run.
SourceOnlyByRestore ==
    [][ByProgram /\ fs'["src"] # fs["src"] => said = "r"]_vars

\* A backup that is newer than its source is cut or removed only on an answer
\* of the same run: not by what is left of an earlier run or answer.
NewerBackupOnlyByAnswer ==
    [][(/\ ByProgram
        /\ pc \notin {"copy", "stamp"}
        /\ fs["src"] # Absent
        /\ fs["dst"] # Absent
        /\ fs["dst"].mtime > fs["src"].mtime
        /\ fs'["dst"] # fs["dst"]
       ) => said' \in {"b", "d"}]_vars

\* "Delete a backed up file automatically when the source for that file no
\* longer exists" (option -d): a backup is deleted only if there is no source,
\* or because the user said so.
DeletedOnlyIfSourceGone ==
    [][(/\ ByProgram
        /\ fs["dst"] # Absent
        /\ fs'["dst"] = Absent
       ) => fs["src"] = Absent \/ said' = "d"]_vars

\* The user who answers "r" ("restore the file back to the source location")
\* has the backup kept until it is back, the file changed or another answer
\* given.
RestoreKeepsBackup ==
    want # Absent => fs["dst"] # Absent /\ fs["dst"].data = want.data

\* The parts of the inductive invariant behind these. A run copies only while
\* it updates or restores, and from the destination only if the user said so.
RunShape ==
    /\ pc # "idle" <=> phase \in {"update", "restore"}
    /\ phase = "restore" => from = "dst"
    /\ pc # "idle" /\ from = "dst" => said = "r"

\* Of two sides the user has left alone, one is what a copy of the other got to.
OnePartOfOther ==
    ~diverged /\ fs["src"] # Absent /\ fs["dst"] # Absent =>
        PartOf(fs["src"], fs["dst"]) \/ PartOf(fs["dst"], fs["src"])

TargetIsRead ==
    ~diverged /\ pc = "copy" =>
        /\ copied <= Len(fs[from].data)
        /\ fs[to].data = SubSeq(fs[from].data, 1, copied)

\* A newer backup is about to be cut only if the user said so.
CutIsMeant ==
    (/\ pc \in {"open", "create"}
     /\ from = "src"
     /\ fs["src"] # Absent
     /\ fs["dst"] # Absent
     /\ fs["dst"].mtime > fs["src"].mtime
    ) => said = "b"

\* The source has become shorter than it was when its copy began: readFile is at
\* its end, copied stays below fSize and the loop goes on for ever.
Shrunk == pc = "copy" /\ fs[from] # Absent /\ Len(fs[from].data) < fSize

\* Every run comes to its end, however many questions go unanswered, unless a
\* file it reads has shrunk meanwhile.
RunEnds == phase # "off" ~> phase = "off" \/ Shrunk

\* A source that is newer than its backup by more than the tolerance, or has
\* none, is not left like that: once calls fail no more, some run copies it.
OutOfDate ==
    LET src == fs["src"]
        dst == fs["dst"]
    IN  /\ src # Absent
        /\ dst = Absent \/ src.mtime >= dst.mtime + TwoHours

\* A step in which a call fails, or the process dies.
Failing ==
    \/ pc = "open" /\ pc' = "returned" /\ fs[from] # Absent
    \/ pc \in {"create", "copy"} /\ pc' = "returned"
    \/ PassOver /\ fs["src"] # Absent
    \/ Crash /\ phase # "exit"

NewerIsBackedUp ==
    <>[][~Failing]_vars => (OutOfDate ~> ~OutOfDate \/ Shrunk)
=============================================================================
