------------------------------ MODULE CopyFile ------------------------------
(***************************************************************************)
(* CBackupFolder::CopyFileToDest: one file copied from the folder object   *)
(* it is called on to the other one, a chunk at a time, with every early   *)
(* return of the code.  A backup is a call on "src", a restore one on      *)
(* "dst".                                                                  *)
(*                                                                         *)
(* CopySpec runs the function on its own: calls in any number and either   *)
(* direction, and a user who edits or removes the files between them.      *)
(***************************************************************************)
EXTENDS Files

CONSTANTS
    Data,      \* the contents a user gives a file
    BufLen,    \* the length of Buffer
    Slots,     \* the handles the adapter of each side can hold open
    MaxClock   \* bound of the model: the last date

ASSUME CopyAssumption ==
    /\ Data \subseteq Seq(Version)
    /\ BufLen \in Nat \ {0}
    /\ Slots \in [Side -> Nat \ {0}]
    /\ MaxClock \in Nat

VARIABLES
    fs,       \* the entry of the file on each side
    clock,    \* the time of day
    pc,       \* where CopyFileToDest is
    from,     \* the side it reads
    fSize,    \* its local variables
    copied,
    handles,  \* the handles each adapter holds open
    result    \* what it returned last

copyVars == <<pc, from, fSize, copied, handles, result>>
cvars == <<fs, clock, copyVars>>

\* Mutant: createFile called on this folder object instead of pDest.
Itself == from

to == Opposite(from)

\* Mutant: the file is opened without O_TRUNC.
Untruncated(e) ==
    IF e = Absent THEN [data |-> <<>>, mtime |-> clock, mode |-> CreateMode]
                  ELSE [e EXCEPT !.mtime = clock]

\* createFile: truncates the file that is there, or makes a new one.
Truncated(e) ==
    [data |-> <<>>, mtime |-> clock,
     mode |-> IF e = Absent THEN CreateMode ELSE e.mode]

\* The file e after writeFile has appended the units u.
Appended(e, u) == [e EXCEPT !.data = @ \o u, !.mtime = clock]

-----------------------------------------------------------------------------
\* The call.
Invoke(s) ==
    /\ pc = "idle"
    /\ pc' = "open"
    /\ from' = s
    /\ UNCHANGED <<fSize, copied, handles, result>>

Return(r) ==
    /\ pc' = "returned"
    /\ result' = r

\* The size is asked for, then the source is opened.
OpenSource ==
    /\ pc = "open"
    /\ fs[from] # Absent
    /\ handles[from] < Slots[from]
    /\ fSize' \in Answers(getFileSize(fs[from]))
    /\ handles' = [handles EXCEPT ![from] = @ + 1]
    /\ copied' = 0
    /\ pc' = "create"
    /\ UNCHANGED <<fs, clock, from, result>>

OpenFails ==
    /\ pc = "open"
    /\ fs[from] = Absent \/ handles[from] = Slots[from] \/ "open" \in Faults
    /\ Return(CFD_OPEN_FAIL)
    /\ UNCHANGED <<fs, clock, from, fSize, copied, handles>>

\* Mutant: the new handle is not saved.
CreateUnsaved ==
    /\ pc = "create"
    /\ handles[to] < Slots[to]
    /\ fs' = [fs EXCEPT ![to] = Truncated(@)]
    /\ pc' = "copy"
    /\ UNCHANGED <<clock, from, fSize, copied, handles, result>>

CreateTarget ==
    /\ pc = "create"
    /\ handles[to] < Slots[to]
    /\ fs' = [fs EXCEPT ![to] = Truncated(@)]
    /\ handles' = [handles EXCEPT ![to] = @ + 1]
    /\ pc' = "copy"
    /\ UNCHANGED <<clock, from, fSize, copied, result>>

\* The handle of the source stays open.
CreateFails ==
    /\ pc = "create"
    /\ handles[to] = Slots[to] \/ "create" \in Faults
    /\ Return(CFD_CREATE_FAIL)
    /\ UNCHANGED <<fs, clock, from, fSize, copied, handles>>

\* saveHandle of the SFTP adapter finds no slot for the handle only after the
\* server has opened, and so truncated, the file.
CreateOverflows ==
    /\ pc = "create"
    /\ handles[to] = Slots[to]
    /\ fs' = [fs EXCEPT ![to] = Truncated(@)]
    /\ Return(CFD_CREATE_FAIL)
    /\ UNCHANGED <<clock, from, fSize, copied, handles>>

\* Mutant: the whole buffer is asked for, also in the last round.
WholeBuffer == BufLen

toRead == IF fSize - copied < BufLen THEN fSize - copied ELSE BufLen

\* How many units readFile may return: as few as it likes, but none only at
\* the end of the file, which comes early when the file has shrunk.
ReadCounts ==
    LET left == Len(fs[from].data) - copied
    IN  {n \in 0..toRead : /\ n <= left \/ n = 0
                           /\ n = 0 => left <= 0}

Units(n) == SubSeq(fs[from].data, copied + 1, copied + n)

CopyChunk ==
    /\ pc = "copy"
    /\ copied < fSize
    /\ \E n \in ReadCounts :
          /\ fs' = [fs EXCEPT ![to] = IF n = 0 THEN @ ELSE Appended(@, Units(n))]
          /\ copied' = copied + n
    /\ UNCHANGED <<clock, pc, from, fSize, handles, result>>

\* Both handles stay open after a failed read or write.
ReadFails ==
    /\ "read" \in Faults
    /\ pc = "copy"
    /\ copied < fSize
    /\ Return(CFD_READ_FAIL)
    /\ UNCHANGED <<fs, clock, from, fSize, copied, handles>>

\* Mutant: a write that stops short is taken for a whole one.
ShortWriteTaken ==
    /\ "write" \in Faults
    /\ pc = "copy"
    /\ copied < fSize
    /\ \E n \in ReadCounts \ {0} : \E k \in 0..(n - 1) :
          /\ fs' = [fs EXCEPT ![to] = IF k = 0 THEN @ ELSE Appended(@, Units(k))]
          /\ copied' = copied + n
    /\ UNCHANGED <<clock, pc, from, fSize, handles, result>>

\* A write that stops short: some of the units may have been written. The
\* SFTP adapter answers 1 to a write that fails, which is CFD_OPEN_FAIL.
WriteFails ==
    /\ "write" \in Faults
    /\ pc = "copy"
    /\ copied < fSize
    /\ \E n \in ReadCounts \ {0} : \E k \in 0..(n - 1) :
          fs' = [fs EXCEPT ![to] = IF k = 0 THEN @ ELSE Appended(@, Units(k))]
    /\ \E r \in {CFD_WRITE_FAIL, CFD_OPEN_FAIL} : Return(r)
    /\ UNCHANGED <<clock, from, fSize, copied, handles>>

\* Mutant: when the disk is full the copy is tried again from the start.
RetryWhenFull ==
    /\ "full" \in Faults
    /\ pc = "copy"
    /\ copied < fSize
    /\ pc' = "create"
    /\ copied' = 0
    /\ handles' = [handles EXCEPT ![to] = @ - 1]
    /\ UNCHANGED <<fs, clock, from, fSize, result>>

\* ENOSPC is only seen by a write that writes nothing at all.
DiskFull ==
    /\ "full" \in Faults
    /\ pc = "copy"
    /\ copied < fSize
    /\ ReadCounts # {0}
    /\ Return(CFD_DEST_FULL)
    /\ UNCHANGED <<fs, clock, from, fSize, copied, handles>>

\* All copied: both handles are closed, then the mode is set, unless it is 0.
Finish ==
    /\ pc = "copy"
    /\ copied >= fSize
    /\ handles' = [s \in Side |-> handles[s] - 1]
    /\ \E m \in Answers(getFileMode(fs[from])) :
          \/ m # 0 /\ fs' = [fs EXCEPT ![to].mode = m]
          \/ (m = 0 \/ "chmod" \in Faults) /\ UNCHANGED fs
    /\ pc' = "stamp"
    /\ UNCHANGED <<clock, from, fSize, copied, result>>

\* The date is read again and given to the copy, unless it is 0. That setting
\* it may fail is not looked at.
Stamp ==
    /\ pc = "stamp"
    /\ \E t \in Answers(getModTime(fs[from])) :
          \/ t # 0 /\ fs' = [fs EXCEPT ![to].mtime = t]
          \/ (t = 0 \/ "utime" \in Faults) /\ UNCHANGED fs
    /\ Return(CFD_SUCCESS)
    /\ UNCHANGED <<clock, from, fSize, copied, handles>>

CopyStep ==
    \/ OpenSource \/ OpenFails \/ CreateTarget \/ CreateFails
    \/ CreateOverflows \/ CopyChunk \/ ReadFails \/ WriteFails \/ DiskFull
    \/ Finish \/ Stamp

\* The caller has the result and the local variables are gone.
Left ==
    /\ pc' = "idle"
    /\ from' = "src"
    /\ fSize' = 0
    /\ copied' = 0
    /\ result' = CFD_SUCCESS

Resume ==
    /\ pc = "returned"
    /\ Left
    /\ UNCHANGED handles

\* The process ends, whatever it was doing: its handles are gone too.
Die ==
    /\ Left
    /\ handles' = [s \in Side |-> 0]

-----------------------------------------------------------------------------
(* The world around it.                                                    *)

UserFile(d, m) == [data |-> d, mtime |-> clock, mode |-> m]
UserFiles == {UserFile(d, m) : d \in Data, m \in Mode}

\* The user may replace or remove either file between two calls.
Edit(s) ==
    /\ pc = "idle"
    /\ \E f \in UserFiles : fs' = [fs EXCEPT ![s] = f]
    /\ UNCHANGED <<clock, copyVars>>

Remove(s) ==
    /\ pc = "idle"
    /\ fs[s] # Absent
    /\ fs' = [fs EXCEPT ![s] = Absent]
    /\ UNCHANGED <<clock, copyVars>>

Tick ==
    /\ clock < MaxClock
    /\ clock' = clock + 1
    /\ UNCHANGED <<fs, copyVars>>

-----------------------------------------------------------------------------
CopyInit ==
    /\ clock = 1
    /\ fs \in [Side -> UserFiles \cup {Absent}]
    /\ pc = "idle"
    /\ from = "src"
    /\ fSize = 0
    /\ copied = 0
    /\ handles = [s \in Side |-> 0]
    /\ result = CFD_SUCCESS

Call == \E s \in Side : Invoke(s) /\ UNCHANGED <<fs, clock>>
Take == Resume /\ UNCHANGED <<fs, clock>>
CopyCrash == "crash" \in Faults /\ pc # "idle" /\ Die /\ UNCHANGED <<fs, clock>>

CopyNext ==
    \/ Call \/ CopyStep \/ Take \/ CopyCrash
    \/ \E s \in Side : Edit(s) \/ Remove(s)
    \/ Tick

\* One thread runs the function to its return.
CopyFairness == WF_cvars(CopyStep) /\ WF_cvars(Take)

CopySpec == CopyInit /\ [][CopyNext]_cvars /\ CopyFairness

-----------------------------------------------------------------------------
(* Properties.                                                             *)

CopyTypeOK ==
    /\ fs \in [Side -> Entry]
    /\ clock \in Nat
    /\ pc \in {"idle", "open", "create", "copy", "stamp", "returned"}
    /\ from \in Side
    /\ fSize \in Nat
    /\ copied \in Nat
    /\ handles \in [Side -> Nat]
    /\ result \in Result

\* While the copy is under way the target holds exactly the units read so far,
\* whatever the sizes of the reads, and never more than the source: the prefix
\* from which an interrupted copy can be told by its size alone.
TargetIsPrefix ==
    pc = "copy" =>
        /\ fs[from] # Absent
        /\ fs[to] # Absent
        /\ copied <= Len(fs[from].data)
        /\ fs[to].data = SubSeq(fs[from].data, 1, copied)

\* A call that reports success has copied the whole file, and, where setting
\* them cannot fail, its date and any mode but 0.
SuccessMeansCopied ==
    pc = "returned" /\ result = CFD_SUCCESS =>
        /\ fs[from] # Absent
        /\ fs[to] # Absent
        /\ fs[to].data = fs[from].data
        /\ "utime" \in Faults \/ fs[from].mtime = 0 \/ fs[to].mtime = fs[from].mtime
        /\ "chmod" \in Faults \/ fs[from].mode = 0 \/ fs[to].mode = fs[from].mode

\* Whatever happens to the source while it is read, a call that reports success
\* has written as many units as the source had when its size was asked for.
SuccessIsWhole ==
    pc = "returned" /\ result = CFD_SUCCESS => fs[to] # Absent /\ Len(fs[to].data) = fSize

\* A call that reports that the target could not be created or the source not
\* opened ("positive CFD_xxx values for non-fatal errors") has left the target
\* as it was.
RefusalKeepsTarget ==
    [][pc' = "returned" /\ result' \in {CFD_OPEN_FAIL, CFD_CREATE_FAIL}
           => UNCHANGED fs]_cvars

\* The function never writes to the folder it was called on.
SourceOnlyRead ==
    [][CopyStep => fs'[from] = fs[from]]_cvars

\* What is there while a call is under way: the files and the handles it works
\* with.
Underway ==
    /\ pc \in {"create", "copy", "stamp"} => fs[from] # Absent
    /\ pc \in {"copy", "stamp"} => fs[to] # Absent
    /\ pc = "create" => handles[from] > 0 /\ copied = 0
    /\ pc = "copy" => \A s \in Side : handles[s] > 0
    /\ clock > 0
    /\ \A s \in Side : fs[s] # Absent => fs[s].mtime \in 1..clock

\* The strengthening of SuccessIsWhole that is inductive: the length of the
\* target from createFile on.
WholeSoFar ==
    /\ pc = "copy" => Len(fs[to].data) = copied /\ copied <= fSize
    /\ pc = "stamp" => Len(fs[to].data) = fSize
    /\ SuccessIsWhole

\* The function keeps the promise of CopyPromise.
Promise == INSTANCE CopyPromise WITH
    stage <- CASE pc \in {"open", "create"} -> "called"
               [] pc \in {"copy", "stamp"}  -> "rewriting"
               [] OTHER                     -> pc,
    full <- handles[to] = Slots[to]
KeepsPromise == Promise!Spec

\* Every call returns.
CallReturns == pc # "idle" ~> pc = "idle"
=============================================================================
