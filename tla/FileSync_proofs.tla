-------------------------- MODULE FileSync_proofs --------------------------
(***************************************************************************)
(* The safety of one file over any number of runs, for every content,      *)
(* tolerance, buffer length, set of options, keys and faults.              *)
(*                                                                         *)
(* The inductive invariant has two layers.  Shape: the types, what a copy  *)
(* under way works with (Underway) and the shape of a run (RunShape).  On  *)
(* top of it, of the data, that of two sides the user has left alone one   *)
(* is a first part of the other (OnePartOfOther), the target of a copy     *)
(* holding what was read so far (TargetIsRead).                            *)
(***************************************************************************)
EXTENDS FileSync, CopyFile_proofs

Shape == CopyTyped /\ SyncTypeOK /\ RunShape

-----------------------------------------------------------------------------
(* The shape of a run.                                                     *)

LEMMA InitShape ==
    ASSUME SyncInit
    PROVE  Shape
<1>1. CopyTyped
  BY CopyInitTyped DEF SyncInit
<1> QED BY <1>1
        DEF SyncInit, CopyInit, Shape, CopyTyped, SyncTypeOK, RunShape, NoRun, Phases, Key, Entry

LEMMA AfterScanIsPhase == AfterScan \in {"check", "exit"}
BY DEF AfterScan

\* The steps that only move the run on.
LEMMA MoveShape ==
    ASSUME Shape, PassOver \/ Skip \/ AskRestore \/ KeepBoth
                   \/ CheckPasses \/ AskDelete \/ KeepOrphan
    PROVE  Shape'
<1>1. CopyTyped'
  BY CopyStutterTyped
  DEF Shape, PassOver, Skip, AskRestore, KeepBoth, CheckPasses, AskDelete, SourceGone,
      KeepOrphan, world, cvars, copyVars
<1>2. phase' \in Phases \ {"update", "restore", "off"}
  BY AfterScanIsPhase
  DEF PassOver, Skip, AskRestore, KeepBoth, CheckPasses, AskDelete, KeepOrphan, Phases
<1>3. phase \notin {"update", "restore"} /\ UNCHANGED <<pc, from, opt, want, diverged>>
  BY DEF PassOver, Skip, AskRestore, KeepBoth, CheckPasses, AskDelete, SourceGone,
         KeepOrphan, world, copyVars
<1>4. said' \in Key \cup {"1", "none"}
  BY DEF PassOver, Skip, AskRestore, KeepBoth, CheckPasses, AskDelete, SourceGone, KeepOrphan,
         Shape, SyncTypeOK, Key
<1> QED BY <1>1, <1>2, <1>3, <1>4 DEF Shape, CopyTyped, SyncTypeOK, RunShape

LEMMA StartShape ==
    ASSUME Shape, Start
    PROVE  Shape'
<1>1. CopyTyped'
  BY CopyStutterTyped DEF Shape, Start, world, cvars, copyVars
<1>2. opt' \in [file : {"ask", "leave", "delete"}, folder : {"ask", "leave", "delete"}]
  BY SyncAssumption DEF Start, Effective, Option
<1> QED BY <1>1, <1>2 DEF Start, copyVars, Shape, CopyTyped, SyncTypeOK, RunShape, Phases

\* The steps that call CopyFileToDest.
LEMMA CallShape ==
    ASSUME Shape, Update \/ BackupAnyway \/ RestoreNewer \/ RestoreOrphan
    PROVE  Shape'
<1>1. CopyTyped'
  BY InvokeTyped
  DEF Shape, Update, BackupAnyway, RestoreNewer, RestoreOrphan, world, Side
<1>2. pc' # "idle" /\ UNCHANGED <<opt, diverged>>
  BY DEF Update, BackupAnyway, RestoreNewer, RestoreOrphan, Invoke
<1>3. want' \in Entry
  BY DEF Update, BackupAnyway, RestoreNewer, RestoreOrphan,
         Shape, SyncTypeOK, CopyTyped, CopyTypeOK, Entry, Side
<1>4. /\ phase' \in {"update", "restore"}
      /\ said' \in Key \cup {"1", "none"}
      /\ phase' = "restore" => from' = "dst"
      /\ from' = "dst" => said' = "r"
  BY DEF Update, BackupAnyway, RestoreNewer, RestoreOrphan, Invoke, Shape, SyncTypeOK, Key
<1> QED BY <1>1, <1>2, <1>3, <1>4 DEF Shape, CopyTyped, SyncTypeOK, RunShape, Phases

LEMMA UnlinkShape ==
    ASSUME Shape, Prune \/ DeleteOrphan
    PROVE  Shape'
<1>1. Unlink /\ pc = "idle" /\ phase' = "exit" /\ UNCHANGED <<clock, copyVars, opt>>
  BY DEF Prune, DeleteOrphan, SourceGone, Unlink, Shape, RunShape
<1>2. fs' \in [Side -> Entry] /\ \A s \in Side : fs'[s] # Absent => fs'[s] = fs[s]
  BY <1>1 DEF Unlink, Shape, CopyTyped, CopyTypeOK, Entry, Side
<1>3. CopyTyped'
  BY <1>1, <1>2 DEF copyVars, Shape, CopyTyped, CopyTypeOK, Underway
<1>4. /\ said' \in Key \cup {"1", "none"}
      /\ want' \in Entry
      /\ UNCHANGED diverged
  BY DEF Prune, DeleteOrphan, Shape, SyncTypeOK, Key, Entry
<1> QED BY <1>1, <1>3, <1>4 DEF copyVars, Shape, CopyTyped, SyncTypeOK, RunShape, Phases

LEMMA CopyingShape ==
    ASSUME Shape, Copying
    PROVE  Shape'
<1>1. CopyTyped'
  BY CopyStepTyped DEF Shape, Copying
<1>2. pc # "idle" /\ pc' # "idle" /\ UNCHANGED <<from, phase, opt, said>>
  BY DEF Copying, CopyStep, OpenSource, OpenFails, CreateTarget, CreateFails, CreateOverflows,
         CopyChunk, ReadFails, WriteFails, DiskFull, Finish, Stamp, Return
<1>3. want' \in Entry /\ diverged' \in BOOLEAN
  BY DEF Copying, Shape, SyncTypeOK, Entry
<1> QED BY <1>1, <1>2, <1>3 DEF Shape, CopyTyped, SyncTypeOK, RunShape

LEMMA ReturnShape ==
    ASSUME Shape, Returned \/ Exit \/ Crash
    PROVE  Shape'
<1>1. CopyTyped'
  BY LeftTyped DEF Shape, Returned, Exit, Crash, Over, world
<1>2. CASE Returned
  BY <1>1, <1>2, AfterScanIsPhase
  DEF Returned, Resume, Left, Shape, CopyTyped, SyncTypeOK, RunShape, Phases
<1>3. CASE Exit \/ Crash
  BY <1>1, <1>3
  DEF Exit, Crash, Over, Die, Left, NoRun, Shape, CopyTyped, SyncTypeOK, RunShape, Phases, Key
<1> QED BY <1>2, <1>3

\* A file that is rewritten while it is read is still a file of today.
LEMMA RewriteTyped ==
    ASSUME CopyTyped, Rewrite
    PROVE  /\ CopyTyped'
           /\ fs'[to] = fs[to]
<1>1. PICK f \in UserFiles : fs' = [fs EXCEPT ![from] = f]
  BY DEF Rewrite
<1>2. f \in File /\ f.mtime \in 1..clock /\ f # Absent
  BY UserFilesAreFiles, FilesAssumption
<1>3. /\ fs' \in [Side -> Entry]
      /\ \A s \in Side : fs'[s] # Absent => fs'[s].mtime \in 1..clock
      /\ fs'[from] # Absent
      /\ fs'[to] = fs[to]
  BY <1>1, <1>2, Sides DEF CopyTyped, CopyTypeOK, Underway, Entry
<1>4. to' = to
  BY DEF Rewrite, copyVars, to
<1> QED BY <1>3, <1>4 DEF Rewrite, copyVars, CopyTyped, CopyTypeOK, Underway

LEMMA UserShape ==
    ASSUME Shape, User
    PROVE  Shape'
<1>1. CopyTyped'
  BY UserTyped, RewriteTyped DEF Shape, User
<1>2. UNCHANGED copyVars
  BY DEF User, Edit, Remove, Rewrite
<1> QED BY <1>1, <1>2 DEF User, copyVars, Shape, CopyTyped, SyncTypeOK, RunShape, Entry

LEMMA TimeShape ==
    ASSUME Shape, Time \/ UNCHANGED vars
    PROVE  Shape'
<1>1. CopyTyped'
  BY TickTyped, CopyStutterTyped DEF Shape, Time, vars
<1>2. UNCHANGED <<copyVars, syncVars>>
  BY DEF Time, Tick, vars, cvars
<1> QED BY <1>1, <1>2 DEF copyVars, syncVars, Shape, CopyTyped, SyncTypeOK, RunShape

LEMMA StepShape ==
    ASSUME Shape, [SyncNext]_vars
    PROVE  Shape'
BY MoveShape, StartShape, CallShape, UnlinkShape, CopyingShape, ReturnShape, UserShape, TimeShape
DEF SyncNext, Program

LEMMA AlwaysShape == SyncSpec => []Shape
<1>1. SyncInit => Shape
  BY InitShape
<1>2. Shape /\ [SyncNext]_vars => Shape'
  BY StepShape
<1> QED BY <1>1, <1>2, PTL DEF SyncSpec

\* Types, for every value of the constants.
THEOREM SyncType == SyncSpec => []SyncTypeOK
<1>1. Shape => SyncTypeOK
  BY DEF Shape
<1> QED BY <1>1, AlwaysShape, PTL

-----------------------------------------------------------------------------
(* What the steps of a copy do to the data.                                *)

Torn == OnePartOfOther /\ TargetIsRead

\* Neither side's data changes, except that a side may go.
LEMMA SameData ==
    ASSUME OnePartOfOther, diverged' = diverged \/ diverged',
           \A s \in Side : fs'[s] # Absent => fs[s] # Absent /\ fs'[s].data = fs[s].data
    PROVE  OnePartOfOther'
BY DEF OnePartOfOther, PartOf, Side

\* The target is a first part of what is copied.
LEMMA TargetIsPart ==
    ASSUME Shape, NEW c \in Nat,
           fs' \in [Side -> Entry], fs'[from] # Absent, fs'[to] # Absent,
           c <= Len(fs'[from].data), fs'[to].data = SubSeq(fs'[from].data, 1, c)
    PROVE  OnePartOfOther'
<1>1. fs'[from] \in File /\ fs'[to] \in File
  BY Sides DEF Entry, Shape, CopyTyped, CopyTypeOK
<1>2. Len(fs'[to].data) = c
  BY <1>1, SubSeqProperties, LenProperties DEF File
<1>3. PartOf(fs'[to], fs'[from])
  BY <1>2 DEF PartOf
<1>4. (from = "src" /\ to = "dst") \/ (from = "dst" /\ to = "src")
  BY DEF to, Opposite, Shape, CopyTyped, CopyTypeOK, Side
<1>5. PartOf(fs'["src"], fs'["dst"]) \/ PartOf(fs'["dst"], fs'["src"])
  <2>1. CASE from = "src" /\ to = "dst"
    BY <1>3, <2>1
  <2>2. CASE from = "dst" /\ to = "src"
    BY <1>3, <2>2
  <2> QED BY <1>4, <2>1, <2>2
<1> QED BY <1>5 DEF OnePartOfOther, PartOf

LEMMA CutData ==
    ASSUME Shape, Torn, Copying, CreateTarget \/ CreateOverflows
    PROVE  Torn'
<1>1. /\ Truncated(fs[to]) \in File
      /\ Truncated(fs[to]).data = <<>>
  BY Sides, TruncatedIsFile DEF Shape, CopyTyped, CopyTypeOK
<1>2. fs' = [fs EXCEPT ![to] = Truncated(fs[to])] /\ from' = from /\ to' = to /\ copied' = copied
  BY DEF CreateTarget, CreateOverflows, Shape, CopyTyped, CopyTypeOK, to
<1>3. /\ fs' \in [Side -> Entry]
      /\ fs'[to] = Truncated(fs[to]) /\ fs'[to] # Absent
      /\ fs'[from] = fs[from] /\ fs[from] # Absent
      /\ copied = 0
  BY <1>1, <1>2, Sides, FilesAssumption
  DEF CreateTarget, CreateOverflows, Shape, CopyTyped, CopyTypeOK, Underway, Entry
<1>4. fs'[from].data \in Seq(Version) /\ Len(fs'[from].data) \in Nat
  BY <1>3, LenProperties DEF Shape, CopyTyped, CopyTypeOK, Entry, File
<1>5. SubSeq(fs'[from].data, 1, 0) = <<>>
  BY <1>4, EmptyPrefix
<1>6. OnePartOfOther'
  <2>1. 0 \in Nat /\ 0 <= Len(fs'[from].data)
    BY <1>4
  <2>2. fs'[to].data = SubSeq(fs'[from].data, 1, 0)
    BY <1>1, <1>3, <1>5
  <2>3. fs'[from] # Absent
    BY <1>3
  <2> QED BY <1>3, <2>1, <2>2, <2>3, TargetIsPart
<1>7. TargetIsRead'
  <2>1. copied' = 0 /\ 0 <= Len(fs'[from'].data)
    BY <1>2, <1>3, <1>4
  <2>2. fs'[to'].data = SubSeq(fs'[from'].data, 1, copied')
    BY <1>1, <1>2, <1>3, <1>5, <2>1
  <2> QED BY <2>1, <2>2 DEF TargetIsRead
<1> QED BY <1>6, <1>7 DEF Torn

\* A chunk, or the part of one that a failing write got written.
LEMMA WrittenData ==
    ASSUME Shape, Torn, pc = "copy", ~diverged,
           NEW n \in Nat, n # 0 => copied + n <= Len(fs[from].data),
           fs' = [fs EXCEPT ![to] = IF n = 0 THEN @ ELSE Appended(@, Units(n))]
    PROVE  /\ OnePartOfOther'
           /\ fs'[from] = fs[from]
           /\ copied + n <= Len(fs'[from].data)
           /\ fs'[to].data = SubSeq(fs'[from].data, 1, copied + n)
<1>1. /\ fs' \in [Side -> Entry] /\ fs'[to] # Absent /\ fs'[from] = fs[from]
      /\ fs'[to].data = IF n = 0 THEN fs[to].data ELSE fs[to].data \o Units(n)
  BY WrittenTarget DEF Shape
<1>2. /\ fs[from] \in File /\ fs[from] # Absent /\ copied \in Nat
      /\ copied <= Len(fs[from].data)
      /\ fs[to].data = SubSeq(fs[from].data, 1, copied)
  BY DEF Shape, CopyTyped, CopyTypeOK, Underway, Entry, Torn, TargetIsRead
<1>3. copied + n <= Len(fs[from].data) /\ copied + n \in Nat
  BY <1>2
<1>4. fs'[to].data = SubSeq(fs[from].data, 1, copied + n)
  <2>1. CASE n = 0
    BY <1>1, <1>2, <2>1
  <2>2. CASE n # 0
    <3>1. fs[from].data \in Seq(Version)
      BY <1>2 DEF File
    <3>2. SubSeq(fs[from].data, 1, copied) \o Units(n) = SubSeq(fs[from].data, 1, copied + n)
      BY <1>2, <1>3, <3>1, PrefixGrows DEF Units
    <3> QED BY <1>1, <1>2, <2>2, <3>2
  <2> QED BY <2>1, <2>2
<1>5. OnePartOfOther'
  <2>1. fs'[from] # Absent /\ copied + n <= Len(fs'[from].data)
    BY <1>1, <1>2, <1>3
  <2>2. fs'[to].data = SubSeq(fs'[from].data, 1, copied + n)
    BY <1>1, <1>4
  <2> QED BY <1>1, <1>3, <2>1, <2>2, TargetIsPart
<1> QED BY <1>1, <1>3, <1>4, <1>5

LEMMA ChunkData ==
    ASSUME Shape, Torn, Copying, CopyChunk \/ WriteFails
    PROVE  Torn'
<1>1. pc = "copy" /\ diverged' = diverged /\ from' = from /\ to' = to
  BY DEF CopyChunk, WriteFails, Copying, to
<1>2. CASE diverged
  BY <1>1, <1>2 DEF Torn, OnePartOfOther, TargetIsRead
<1>3. CASE ~diverged /\ CopyChunk
  <2>1. PICK n \in ReadCounts :
            /\ fs' = [fs EXCEPT ![to] = IF n = 0 THEN @ ELSE Appended(@, Units(n))]
            /\ copied' = copied + n
    BY <1>3 DEF CopyChunk
  <2>2. n \in Nat /\ (n # 0 => copied + n <= Len(fs[from].data))
    BY <1>1, ReadIsWithin DEF Shape, CopyTyped
  <2> QED BY <1>1, <1>3, <2>1, <2>2, WrittenData DEF Torn, TargetIsRead
<1>4. CASE ~diverged /\ WriteFails
  <2>1. PICK n \in ReadCounts \ {0} : \E k \in 0..(n - 1) :
            fs' = [fs EXCEPT ![to] = IF k = 0 THEN @ ELSE Appended(@, Units(k))]
    BY <1>4 DEF WriteFails
  <2>2. n \in Nat /\ copied + n <= Len(fs[from].data) /\ fs[from] \in File
    BY <1>1, ReadIsWithin DEF Shape, CopyTyped
  <2>3. PICK k \in 0..(n - 1) :
            fs' = [fs EXCEPT ![to] = IF k = 0 THEN @ ELSE Appended(@, Units(k))]
    BY <2>1
  <2>4. k \in Nat /\ copied + k <= Len(fs[from].data)
    <3>1. Len(fs[from].data) \in Nat
      BY <2>2, LenProperties DEF File
    <3> QED BY <2>2, <3>1 DEF Shape, CopyTyped, CopyTypeOK
  <2>5. OnePartOfOther'
    BY <1>1, <1>4, <2>3, <2>4, WrittenData
  <2>6. TargetIsRead'
    BY <1>4 DEF WriteFails, Return, TargetIsRead
  <2> QED BY <2>5, <2>6 DEF Torn
<1> QED BY <1>2, <1>3, <1>4

LEMMA CopyingData ==
    ASSUME Shape, Torn, Copying
    PROVE  Torn'
<1>1. CASE CreateTarget \/ CreateOverflows
  BY <1>1, CutData
<1>2. CASE CopyChunk \/ WriteFails
  BY <1>2, ChunkData
<1>3. CASE Finish \/ Stamp
  <2>1. /\ fs'[from] = fs[from] /\ fs'[to].data = fs[to].data
        /\ fs[to] # Absent
    BY <1>3, FinishTyped DEF Finish, Stamp, Shape, CopyTyped, Underway
  <2>2. \A s \in Side : fs'[s] # Absent => fs[s] # Absent /\ fs'[s].data = fs[s].data
    BY <2>1, Sides DEF Shape, CopyTyped, CopyTypeOK
  <2>3. diverged' = diverged /\ pc' # "copy"
    BY <1>3 DEF Copying, Finish, Stamp, Return
  <2> QED BY <2>2, <2>3, SameData DEF Torn, TargetIsRead
<1>4. CASE OpenSource \/ OpenFails \/ CreateFails \/ ReadFails \/ DiskFull
  BY <1>4
  DEF OpenSource, OpenFails, CreateFails, ReadFails, DiskFull, Return, Copying,
      Torn, OnePartOfOther, TargetIsRead
<1> QED BY <1>1, <1>2, <1>3, <1>4 DEF Copying, CopyStep

\* Every other step: no data changes unless a side goes or the user changes it,
\* and no step but the program's own creates a target.
LEMMA OtherData ==
    ASSUME Shape, Torn,
           Start \/ PassOver \/ Skip \/ Update \/ AskRestore \/ KeepBoth \/ BackupAnyway
           \/ RestoreNewer \/ CheckPasses \/ Prune \/ AskDelete \/ KeepOrphan \/ DeleteOrphan
           \/ RestoreOrphan \/ Returned \/ Exit \/ Crash
    PROVE  Torn'
<1>1. CASE Prune \/ DeleteOrphan
  <2>1. diverged' = diverged /\ pc' = "idle"
    BY <1>1 DEF Prune, DeleteOrphan, SourceGone, Unlink, copyVars, Shape, RunShape
  <2>2. \A s \in Side : fs'[s] # Absent => fs[s] # Absent /\ fs'[s].data = fs[s].data
    BY <1>1 DEF Prune, DeleteOrphan, Unlink, Shape, CopyTyped, CopyTypeOK, Side
  <2> QED BY <2>1, <2>2, SameData DEF Torn, TargetIsRead
<1>2. CASE Start \/ PassOver \/ Skip \/ AskRestore \/ KeepBoth \/ CheckPasses \/ AskDelete
           \/ KeepOrphan
  BY <1>2
  DEF Start, PassOver, Skip, AskRestore, KeepBoth, CheckPasses, AskDelete, SourceGone,
      KeepOrphan, world, copyVars, to, Torn, OnePartOfOther, TargetIsRead
<1>3. CASE Update \/ BackupAnyway \/ RestoreNewer \/ RestoreOrphan
  BY <1>3
  DEF Update, BackupAnyway, RestoreNewer, RestoreOrphan, Invoke, world,
      Torn, OnePartOfOther, TargetIsRead
<1>4. CASE Returned \/ Exit \/ Crash
  BY <1>4
  DEF Returned, Exit, Crash, Over, Resume, Die, Left, world, Torn, OnePartOfOther, TargetIsRead
<1> QED BY <1>1, <1>2, <1>3, <1>4

LEMMA StepData ==
    ASSUME Shape, Torn, [SyncNext]_vars
    PROVE  Torn'
<1>1. CASE User
  BY <1>1 DEF User, Torn, OnePartOfOther, TargetIsRead
<1>2. CASE Time
  BY <1>2 DEF Time, Tick, syncVars, copyVars, to, Torn, OnePartOfOther, TargetIsRead
<1>3. CASE UNCHANGED vars
  BY <1>3 DEF vars, cvars, syncVars, copyVars, to, Torn, OnePartOfOther, TargetIsRead
<1>4. CASE Copying
  BY <1>4, CopyingData
<1> QED BY <1>1, <1>2, <1>3, <1>4, OtherData DEF SyncNext, Program

LEMMA AlwaysTorn == SyncSpec => [](Shape /\ Torn)
<1>1. SyncInit => Shape /\ Torn
  BY InitShape DEF SyncInit, CopyInit, Torn, OnePartOfOther, TargetIsRead
<1>2. Shape /\ Torn /\ [SyncNext]_vars => Shape' /\ Torn'
  BY StepShape, StepData
<1> QED BY <1>1, <1>2, PTL DEF SyncSpec

\* A file that BackupThis would skip for its size and date is a faithful copy,
\* after any number of runs, failed calls and crashes, unless the user changed
\* a side: the two sides are then a first part of one another.
THEOREM SyncSkipped == SyncSpec => []SkippedIsCopied
<1>1. Shape /\ Torn => SkippedIsCopied
  <2> SUFFICES ASSUME Shape, OnePartOfOther, ~diverged,
                      fs["src"] # Absent, fs["dst"] # Absent,
                      Len(fs["src"].data) = Len(fs["dst"].data)
               PROVE  fs["src"].data = fs["dst"].data
    BY DEF SkippedIsCopied, Torn
  <2>1. fs["src"].data \in Seq(Version) /\ fs["dst"].data \in Seq(Version)
    BY DEF Shape, CopyTyped, CopyTypeOK, Entry, File, Side
  <2>2. /\ SubSeq(fs["src"].data, 1, Len(fs["src"].data)) = fs["src"].data
        /\ SubSeq(fs["dst"].data, 1, Len(fs["dst"].data)) = fs["dst"].data
    BY <2>1, WholePrefix
  <2> QED BY <2>2 DEF OnePartOfOther, PartOf
<1> QED BY <1>1, AlwaysTorn, PTL

-----------------------------------------------------------------------------
(* The length of a copy, also of a source that is rewritten meanwhile.     *)

LEMMA StepWhole ==
    ASSUME Shape, WholeSoFar, [SyncNext]_vars
    PROVE  WholeSoFar'
<1>1. CASE Copying
  BY <1>1, CopyStepWhole DEF Copying, Shape
<1>2. CASE Update \/ BackupAnyway \/ RestoreNewer \/ RestoreOrphan \/ Returned \/ Exit \/ Crash
  BY <1>2, CallWhole
  DEF Update, BackupAnyway, RestoreNewer, RestoreOrphan, Returned, Exit, Crash, Over, Side
<1>3. CASE Prune \/ DeleteOrphan
  BY <1>3 DEF Prune, DeleteOrphan, SourceGone, Unlink, copyVars, Shape, RunShape,
              WholeSoFar, SuccessIsWhole
<1>4. CASE Start \/ PassOver \/ Skip \/ AskRestore \/ KeepBoth \/ CheckPasses \/ AskDelete
           \/ KeepOrphan
  BY <1>4
  DEF Start, PassOver, Skip, AskRestore, KeepBoth, CheckPasses, AskDelete, SourceGone,
      KeepOrphan, world, copyVars, to, WholeSoFar, SuccessIsWhole
<1>5. CASE User
  <2>1. CASE \E s \in Side : Edit(s) \/ Remove(s)
    BY <2>1, UserWhole
  <2>2. CASE Rewrite
    <3>1. fs'[to] = fs[to] /\ pc # "returned"
      BY <2>2, RewriteTyped DEF Rewrite, Shape
    <3> QED BY <2>2, <3>1 DEF Rewrite, copyVars, to, WholeSoFar, SuccessIsWhole
  <2> QED BY <1>5, <2>1, <2>2 DEF User
<1>6. CASE Time \/ UNCHANGED vars
  BY <1>6 DEF Time, Tick, vars, cvars, copyVars, to, WholeSoFar, SuccessIsWhole
<1> QED BY <1>1, <1>2, <1>3, <1>4, <1>5, <1>6 DEF SyncNext, Program

\* In every run a copy that is reported as made is as long as the source was
\* said to be when the call began, also if the source was rewritten in the
\* meantime: such a copy is torn without a trace only if the source kept its
\* length.
THEOREM SyncWhole == SyncSpec => []SuccessIsWhole
<1>1. SyncInit => WholeSoFar
  BY DEF SyncInit, CopyInit, WholeSoFar, SuccessIsWhole
<1>2. Shape /\ WholeSoFar /\ [SyncNext]_vars => WholeSoFar'
  BY StepWhole
<1>3. WholeSoFar => SuccessIsWhole
  BY DEF WholeSoFar
<1> QED BY <1>1, <1>2, <1>3, AlwaysShape, PTL DEF SyncSpec

-----------------------------------------------------------------------------
(* The folder backed up is written to only in a restore.                   *)

\* Which steps of the specification can change a file.
LEMMA KeepsWorld ==
    ASSUME [SyncNext]_vars
    PROVE  UNCHANGED fs \/ Copying \/ Prune \/ DeleteOrphan \/ User
BY DEF SyncNext, Program, Start, PassOver, Skip, Update, AskRestore, KeepBoth, BackupAnyway,
       RestoreNewer, CheckPasses, AskDelete, SourceGone, KeepOrphan, RestoreOrphan, Returned,
       Exit, Crash, Over, Time, Tick, vars, cvars, world

\* A copy removes no file.
LEMMA CopyingKeepsTarget ==
    ASSUME Shape, Copying, fs["dst"] # Absent
    PROVE  fs'["dst"] # Absent
<1>1. fs'[from] = fs[from] /\ Side = {from, to}
  BY CopyReadsOnly, Sides DEF Copying, Shape, CopyTyped, CopyTypeOK
<1>2. fs[to] # Absent => fs'[to] # Absent
  BY CopyKeepsTarget DEF Copying, Shape
<1> QED BY <1>1, <1>2 DEF Side

LEMMA StepSource ==
    ASSUME Shape, [SyncNext]_vars, ByProgram, fs'["src"] # fs["src"]
    PROVE  said = "r"
<1>1. ~User /\ ~Time /\ ~UNCHANGED vars
  BY DEF ByProgram, User, Time, Tick, Edit, Remove, Rewrite, copyVars, vars, cvars, syncVars
<1>2. CASE Copying
  <2>1. fs'[from] = fs[from] /\ from \in Side
    BY <1>2, CopyReadsOnly DEF Copying, Shape, CopyTyped, CopyTypeOK
  <2>2. pc # "idle"
    BY <1>2
    DEF Copying, CopyStep, OpenSource, OpenFails, CreateTarget, CreateFails, CreateOverflows,
        CopyChunk, ReadFails, WriteFails, DiskFull, Finish, Stamp
  <2> QED BY <2>1, <2>2 DEF Shape, RunShape, Side
<1>3. CASE Prune \/ DeleteOrphan
  BY <1>3 DEF Prune, DeleteOrphan, Unlink, Shape, CopyTyped, CopyTypeOK, Side
<1> QED BY <1>1, <1>2, <1>3, KeepsWorld

\* The program writes to the folder it backs up only in a restore the user
\* asked for in that run.
THEOREM SyncSource == SyncSpec => SourceOnlyByRestore
<1>1. Shape /\ [SyncNext]_vars => [ByProgram /\ fs'["src"] # fs["src"] => said = "r"]_vars
  BY StepSource
<1> QED BY <1>1, AlwaysShape, PTL DEF SyncSpec, SourceOnlyByRestore

-----------------------------------------------------------------------------
(* What is decided from the dates, when asking for them does not fail.     *)

\* A view is then the truth, and a date of 0 says that there is no file.
LEMMA ViewsAreTrue ==
    ASSUME "stat" \notin Faults, NEW e \in Entry, NEW v \in Views(e)
    PROVE  v = [size |-> getFileSize(e), mtime |-> getModTime(e)]
BY DEF Views, Answers

LEMMA GoneIsAbsent ==
    ASSUME "stat" \notin Faults, Shape, SourceGone
    PROVE  fs["src"] = Absent
BY DEF SourceGone, Answers, getModTime, Shape, CopyTyped, Underway, Side

\* A copy that nobody asked for is of a source as late as its backup.
LEMMA UpdateIsOfLater ==
    ASSUME "stat" \notin Faults, Shape, Update, fs["dst"] # Absent
    PROVE  fs["dst"].mtime <= fs["src"].mtime
<1>1. fs["src"] \in File /\ fs["dst"] \in File /\ fs["dst"].mtime \in 1..clock
      /\ fs["src"].mtime \in 1..clock /\ clock \in Nat
  BY DEF Update, Shape, CopyTyped, CopyTypeOK, Underway, Entry, Side
<1>2. PICK s \in Views(fs["src"]), d \in Views(fs["dst"]) : NeedsCopy(s, d)
  BY DEF Update
<1>3. s.mtime = fs["src"].mtime /\ d.mtime = fs["dst"].mtime
  BY <1>1, ViewsAreTrue, FilesAssumption DEF Entry, getModTime, Update
<1> QED BY <1>1, <1>2, <1>3 DEF NeedsCopy, NewerBackup

LEMMA CallMeant ==
    ASSUME "stat" \notin Faults, Shape, Update \/ BackupAnyway \/ RestoreNewer \/ RestoreOrphan
    PROVE  CutIsMeant'
<1>1. CASE Update
  <2>1. UNCHANGED fs /\ fs["src"] # Absent /\ fs["src"].mtime \in 1..clock /\ clock \in Nat
    BY <1>1 DEF Update, world, Shape, CopyTyped, CopyTypeOK, Underway, Side
  <2>2. fs["dst"] # Absent => fs["dst"].mtime \in 1..clock
    BY DEF Shape, CopyTyped, CopyTypeOK, Underway, Side
  <2> QED BY <1>1, <2>1, <2>2, UpdateIsOfLater DEF CutIsMeant
<1>2. CASE BackupAnyway \/ RestoreNewer \/ RestoreOrphan
  BY <1>2 DEF BackupAnyway, RestoreNewer, RestoreOrphan, Invoke, CutIsMeant
<1> QED BY <1>1, <1>2

\* The user who rewrites the source makes it as late as the backup.
LEMMA UserMeant ==
    ASSUME Shape, CutIsMeant, User
    PROVE  CutIsMeant'
<1>1. UNCHANGED <<clock, pc, from, said>>
  BY DEF User, Edit, Remove, Rewrite, copyVars
<1>2. CASE Rewrite
  <2>1. PICK f \in UserFiles : fs' = [fs EXCEPT ![from] = f]
    BY <1>2 DEF Rewrite
  <2>2. f.mtime = clock
    BY DEF UserFiles, UserFile
  <2>3. clock \in Nat /\ (fs["dst"] # Absent => fs["dst"].mtime \in 1..clock)
    BY DEF Shape, CopyTyped, CopyTypeOK, Underway, Side
  <2> QED BY <1>1, <2>1, <2>2, <2>3 DEF CutIsMeant, Shape, CopyTyped, CopyTypeOK, Side
<1>3. CASE \E s \in Side : Edit(s) \/ Remove(s)
  BY <1>1, <1>3 DEF Edit, Remove, CutIsMeant
<1> QED BY <1>2, <1>3 DEF User

LEMMA StepMeant ==
    ASSUME "stat" \notin Faults, Shape, CutIsMeant, [SyncNext]_vars
    PROVE  CutIsMeant'
<1>1. CASE Copying
  BY <1>1
  DEF Copying, CopyStep, OpenSource, OpenFails, CreateTarget, CreateFails, CreateOverflows,
      CopyChunk, ReadFails, WriteFails, DiskFull, Finish, Stamp, Return, CutIsMeant
<1>2. CASE Start \/ PassOver \/ Skip \/ AskRestore \/ KeepBoth \/ CheckPasses \/ Prune
           \/ AskDelete \/ KeepOrphan \/ DeleteOrphan
  BY <1>2
  DEF Start, PassOver, Skip, AskRestore, KeepBoth, CheckPasses, Prune, AskDelete, SourceGone,
      KeepOrphan, DeleteOrphan, Unlink, copyVars, CutIsMeant, Shape, RunShape
<1>3. CASE Returned \/ Exit \/ Crash
  BY <1>3 DEF Returned, Exit, Crash, Over, Resume, Die, Left, CutIsMeant
<1>4. CASE Time \/ UNCHANGED vars
  BY <1>4 DEF Time, Tick, syncVars, vars, cvars, copyVars, CutIsMeant
<1> QED BY <1>1, <1>2, <1>3, <1>4, CallMeant, UserMeant DEF SyncNext, Program

\* A backup newer than its source is cut or removed only on an answer given in
\* that run, as long as no status call fails.
THEOREM SyncNewer ==
    ASSUME "stat" \notin Faults
    PROVE  SyncSpec => NewerBackupOnlyByAnswer
<1>1. SyncInit => CutIsMeant
  BY DEF SyncInit, CopyInit, CutIsMeant
<1>2. Shape /\ CutIsMeant /\ [SyncNext]_vars => CutIsMeant'
  BY StepMeant
<1>3. Shape /\ CutIsMeant /\ [SyncNext]_vars
          => [(/\ ByProgram
               /\ pc \notin {"copy", "stamp"}
               /\ fs["src"] # Absent
               /\ fs["dst"] # Absent
               /\ fs["dst"].mtime > fs["src"].mtime
               /\ fs'["dst"] # fs["dst"]) => said' \in {"b", "d"}]_vars
  <2> SUFFICES ASSUME Shape, CutIsMeant, SyncNext, ByProgram, pc \notin {"copy", "stamp"},
                      fs["src"] # Absent, fs["dst"] # Absent,
                      fs["dst"].mtime > fs["src"].mtime, fs'["dst"] # fs["dst"]
               PROVE  said' \in {"b", "d"}
    OBVIOUS
  <2>1. CASE Copying
    <3>1. pc = "create" /\ from = "src" /\ UNCHANGED said
      BY <2>1, CopyReadsOnly
      DEF Copying, CopyStep, OpenSource, OpenFails, CreateTarget, CreateFails,
          CreateOverflows, CopyChunk, ReadFails, WriteFails, DiskFull, Finish, Stamp, Shape,
          CopyTyped, CopyTypeOK, Side
    <3> QED BY <3>1 DEF CutIsMeant
  <2>2. ~Prune
    BY GoneIsAbsent DEF Prune
  <2>3. CASE DeleteOrphan
    BY <2>3 DEF DeleteOrphan
  <2>4. ~User /\ ~Time
    BY DEF ByProgram, User, Time, Tick, Edit, Remove, Rewrite, copyVars
  <2>5. UNCHANGED fs \/ Copying \/ Prune \/ DeleteOrphan \/ User
    BY KeepsWorld
  <2> QED BY <2>1, <2>2, <2>3, <2>4, <2>5
<1> QED BY <1>1, <1>2, <1>3, AlwaysShape, PTL DEF SyncSpec, NewerBackupOnlyByAnswer

\* "Delete a backed up file automatically when the source for that file no
\* longer exists": so it is, as long as no status call fails.
THEOREM SyncDeleted ==
    ASSUME "stat" \notin Faults
    PROVE  SyncSpec => DeletedOnlyIfSourceGone
<1>1. Shape /\ [SyncNext]_vars
          => [(ByProgram /\ fs["dst"] # Absent /\ fs'["dst"] = Absent)
                  => fs["src"] = Absent \/ said' = "d"]_vars
  <2> SUFFICES ASSUME Shape, SyncNext, ByProgram, fs["dst"] # Absent, fs'["dst"] = Absent
               PROVE  fs["src"] = Absent \/ said' = "d"
    OBVIOUS
  <2>1. ~Copying
    BY CopyingKeepsTarget
  <2>2. CASE Prune
    BY <2>2, GoneIsAbsent DEF Prune
  <2>3. CASE DeleteOrphan
    BY <2>3 DEF DeleteOrphan
  <2>4. ~User
    BY DEF ByProgram, User, Edit, Remove, Rewrite, copyVars
  <2> QED BY <2>1, <2>2, <2>3, <2>4, KeepsWorld
<1> QED BY <1>1, AlwaysShape, PTL DEF SyncSpec, DeletedOnlyIfSourceGone
=============================================================================
