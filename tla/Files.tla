------------------------------- MODULE Files -------------------------------
(***************************************************************************)
(* What ztbackup sees of a file: the calls of CBackupFolder that read its  *)
(* size, date and mode, and the decision BackupThis takes from them.       *)
(*                                                                         *)
(* A file is its data (a sequence of units, each of which records the      *)
(* version of the file it was written in), its date and its mode.  Dates   *)
(* are in any unit in which TwoHours is the constant of BackupFolder.cpp.  *)
(***************************************************************************)
EXTENDS Integers, Sequences

CONSTANTS
    Version,     \* what a unit of data can hold
    Absent,      \* no file at this path
    Mode,        \* permission bits; 0 is "none"
    CreateMode,  \* the mode createFile gives a file it creates
    TwoHours,    \* TWO_HOURS_TIME_T
    Faults       \* the calls that may fail, a subset of Fault

Fault == {"stat", "list", "open", "create", "read", "write", "full",
          "chmod", "utime", "unlink", "crash"}

File == [data: Seq(Version), mtime: Nat, mode: Mode]

ASSUME FilesAssumption ==
    /\ Absent \notin File
    /\ Mode \subseteq Nat
    /\ CreateMode \in Mode
    /\ TwoHours \in Nat \ {0}
    /\ Faults \subseteq Fault

\* The two CBackupFolder objects of a run.
Side == {"src", "dst"}
Opposite(s) == IF s = "src" THEN "dst" ELSE "src"

Entry == File \cup {Absent}

-----------------------------------------------------------------------------
(* The status calls. Each answers 0 for a path that does not exist.        *)

getModTime(e)  == IF e = Absent THEN 0 ELSE e.mtime
getFileSize(e) == IF e = Absent THEN 0 ELSE Len(e.data)
getFileMode(e) == IF e = Absent THEN 0 ELSE e.mode

\* What a status call may return for a value v: every adapter answers 0 when
\* the call itself fails, as it does for a path that does not exist.
Answers(v) == IF "stat" \in Faults THEN {v, 0} ELSE {v}

\* What BackupThis learns of an entry. The size and the date are separate
\* calls, so each may fail without the other.
View == [size: Nat, mtime: Nat]
Views(e) == {[size |-> z, mtime |-> t] :
                 z \in Answers(getFileSize(e)), t \in Answers(getModTime(e))}

\* The file e holds the first units of the file s.
PartOf(e, s) ==
    /\ Len(e.data) <= Len(s.data)
    /\ e.data = SubSeq(s.data, 1, Len(e.data))

-----------------------------------------------------------------------------
(* The four-way decision of BackupThis on a file of the source, from the   *)
(* view s of the source and the view d of the destination.                 *)

Resized(s, d)  == d.mtime # 0 /\ s.size # d.size
SameDate(s, d) == s.mtime - d.mtime < TwoHours /\ d.mtime - s.mtime < TwoHours

\* Skip: same size and dates less than two hours apart.
UpToDate(s, d) == d.mtime # 0 /\ s.size = d.size /\ SameDate(s, d)

\* Mutants: the dates of files of different size are not compared; the
\* comparison is the wrong way round.
NewerSameSize(s, d) == d.mtime # 0 /\ s.size = d.size /\ ~SameDate(s, d) /\ s.mtime < d.mtime
NewerSource(s, d)   == d.mtime # 0 /\ ~UpToDate(s, d) /\ s.mtime > d.mtime

\* Ask: the backup differs and its date is the later one.
NewerBackup(s, d) == d.mtime # 0 /\ ~UpToDate(s, d) /\ s.mtime < d.mtime

\* Copy: no backup, or one that differs and is not newer.
NeedsCopy(s, d) == ~UpToDate(s, d) /\ ~NewerBackup(s, d)

-----------------------------------------------------------------------------
(* The results of CopyFileToDest.                                          *)
CFD_DEST_FULL   == -1
CFD_SUCCESS     == 0
CFD_OPEN_FAIL   == 1
CFD_CREATE_FAIL == 2
CFD_READ_FAIL   == 3
CFD_WRITE_FAIL  == 5
Result == {CFD_DEST_FULL, CFD_SUCCESS, CFD_OPEN_FAIL, CFD_CREATE_FAIL,
           CFD_READ_FAIL, CFD_WRITE_FAIL}

\* BackupThis gives up the whole run on a negative result only.
Fatal(r) == r < 0
=============================================================================
