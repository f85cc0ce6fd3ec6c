-------------------------- MODULE CopyFile_proofs --------------------------
(***************************************************************************)
(* What one step of CopyFileToDest does to the files, for every content,   *)
(* buffer length and set of faults.                                        *)
(***************************************************************************)
EXTENDS CopyFile, SequenceTheorems, TLAPS

-----------------------------------------------------------------------------
(* Sequences: a prefix extended by the units that follow it.               *)

\* The units a read returns are as many as it says.
LEMMA UnitsAreUnits ==
    ASSUME NEW s \in Seq(Version), NEW c \in Nat, NEW n \in Nat, c + n <= Len(s)
    PROVE  /\ SubSeq(s, c + 1, c + n) \in Seq(Version)
           /\ Len(SubSeq(s, c + 1, c + n)) = n
           /\ \A i \in 1..n : SubSeq(s, c + 1, c + n)[i] = s[c + i]
BY SubSeqProperties, LenProperties

\* A chunk appended to the prefix read before it makes the longer prefix.
LEMMA PrefixGrows ==
    ASSUME NEW s \in Seq(Version), NEW c \in Nat, NEW n \in Nat, c + n <= Len(s)
    PROVE  SubSeq(s, 1, c) \o SubSeq(s, c + 1, c + n) = SubSeq(s, 1, c + n)
<1> DEFINE a == SubSeq(s, 1, c)
           b == SubSeq(s, c + 1, c + n)
           w == SubSeq(s, 1, c + n)
<1>1. /\ a \in Seq(Version) /\ Len(a) = c
      /\ \A i \in 1..c : a[i] = s[i]
  BY SubSeqProperties, LenProperties
<1>2. /\ b \in Seq(Version) /\ Len(b) = n
      /\ \A i \in 1..n : b[i] = s[c + i]
  BY UnitsAreUnits
<1>3. /\ w \in Seq(Version) /\ Len(w) = c + n
      /\ \A i \in 1..(c + n) : w[i] = s[i]
  BY SubSeqProperties, LenProperties
<1> HIDE DEF a, b, w
<1>4. /\ a \o b \in Seq(Version) /\ Len(a \o b) = c + n
      /\ \A i \in 1..(c + n) :
            (a \o b)[i] = IF i <= c THEN a[i] ELSE b[i - c]
  BY <1>1, <1>2, ConcatProperties
<1>5. \A i \in 1..(c + n) : (a \o b)[i] = w[i]
  <2> TAKE i \in 1..(c + n)
  <2>1. CASE i <= c
    BY <2>1, <1>1, <1>3, <1>4
  <2>2. CASE i > c
    <3>1. i - c \in 1..n
      BY <2>2
    <3>2. (a \o b)[i] = b[i - c]
      BY <2>2, <1>4
    <3>3. b[i - c] = s[c + (i - c)]
      BY <3>1, <1>2
    <3>4. c + (i - c) = i
      OBVIOUS
    <3>5. w[i] = s[i]
      BY <1>3
    <3> QED BY <3>2, <3>3, <3>4, <3>5
  <2>3. i <= c \/ i > c
    OBVIOUS
  <2> QED BY <2>1, <2>2, <2>3
<1>6. a \o b = w
  BY <1>3, <1>4, <1>5, SeqEqual
<1> QED BY <1>6 DEF a, b, w

\* The prefix of full length is the sequence.
LEMMA WholePrefix ==
    ASSUME NEW s \in Seq(Version)
    PROVE  SubSeq(s, 1, Len(s)) = s
<1>1. /\ SubSeq(s, 1, Len(s)) \in Seq(Version)
      /\ Len(SubSeq(s, 1, Len(s))) = Len(s)
      /\ \A i \in 1..Len(s) : SubSeq(s, 1, Len(s))[i] = s[i]
  BY SubSeqProperties, LenProperties
<1> QED BY <1>1, SeqEqual

\* The empty prefix.
LEMMA EmptyPrefix ==
    ASSUME NEW s \in Seq(Version)
    PROVE  SubSeq(s, 1, 0) = <<>>
<1>1. /\ SubSeq(s, 1, 0) \in Seq(Version)
      /\ Len(SubSeq(s, 1, 0)) = 0
  BY SubSeqProperties, LenProperties
<1> QED BY <1>1, EmptySeq

-----------------------------------------------------------------------------
(* The files a step writes.                                                *)

LEMMA TruncatedIsFile ==
    ASSUME NEW e \in Entry, clock \in Nat
    PROVE  /\ Truncated(e) \in File
           /\ Truncated(e).data = <<>>
           /\ Truncated(e).mtime = clock
BY FilesAssumption, EmptySeq DEF Truncated, Entry, File

LEMMA AppendedIsFile ==
    ASSUME NEW e \in File, NEW u \in Seq(Version), clock \in Nat
    PROVE  /\ Appended(e, u) \in File
           /\ Appended(e, u).data = e.data \o u
           /\ Appended(e, u).mtime = clock
<1>1. e.data \o u \in Seq(Version)
  BY ConcatProperties DEF File
<1> QED BY <1>1 DEF Appended, File

\* The two sides are each other's opposites.
LEMMA Sides ==
    ASSUME from \in Side
    PROVE  to \in Side /\ to # from /\ Side = {from, to}
BY DEF Side, to, Opposite

\* A read returns units that are there.
LEMMA ReadIsWithin ==
    ASSUME CopyTypeOK, Underway, pc = "copy", NEW n \in ReadCounts
    PROVE  /\ n \in Nat
           /\ n # 0 => copied + n <= Len(fs[from].data)
           /\ copied + n <= fSize \/ n = 0
           /\ fs[from] \in File /\ fs[to] \in File
<1>1. fs[from] \in File /\ fs[to] \in File
  BY Sides DEF CopyTypeOK, Underway, Entry
<1>2. Len(fs[from].data) \in Nat
  BY <1>1, LenProperties DEF File
<1> QED BY <1>1, <1>2, CopyAssumption DEF ReadCounts, toRead, CopyTypeOK

-----------------------------------------------------------------------------
(* Every step of the function keeps the types and what it works with.      *)

CopyTyped == CopyTypeOK /\ Underway

LEMMA ReturnTyped ==
    ASSUME CopyTyped, NEW r \in Result, Return(r),
           UNCHANGED <<clock, from, fSize, copied, handles>>,
           fs' \in [Side -> Entry],
           \A s \in Side : fs'[s] # Absent => fs'[s].mtime \in 1..clock
    PROVE  CopyTyped'
BY DEF CopyTyped, CopyTypeOK, Underway, Return

\* A file in place of the target.
LEMMA NewTargetTyped ==
    ASSUME CopyTypeOK, Underway, NEW f \in File, f.mtime \in 1..clock,
           fs' = [fs EXCEPT ![to] = f]
    PROVE  /\ fs' \in [Side -> Entry]
           /\ \A s \in Side : fs'[s] # Absent => fs'[s].mtime \in 1..clock
           /\ fs'[to] = f /\ fs'[to] # Absent
           /\ fs'[from] = fs[from]
BY Sides, FilesAssumption DEF CopyTypeOK, Underway, Entry

LEMMA OpenTyped ==
    ASSUME CopyTyped, OpenSource \/ OpenFails
    PROVE  CopyTyped'
<1>1. CASE OpenSource
  <2>1. fs[from] \in File
    BY <1>1 DEF OpenSource, CopyTyped, CopyTypeOK, Entry
  <2>2. getFileSize(fs[from]) \in Nat
    BY <2>1, LenProperties DEF getFileSize, File
  <2>3. fSize' \in Nat
    BY <1>1, <2>2 DEF OpenSource, Answers
  <2> QED BY <1>1, <2>3 DEF OpenSource, CopyTyped, CopyTypeOK, Underway
<1>2. CASE OpenFails
  BY <1>2, ReturnTyped DEF OpenFails, CopyTyped, CopyTypeOK, Underway, Result
<1> QED BY <1>1, <1>2

LEMMA CreateTyped ==
    ASSUME CopyTyped, CreateTarget \/ CreateFails \/ CreateOverflows
    PROVE  CopyTyped'
<1> DEFINE f == Truncated(fs[to])
<1>1. f \in File /\ f.mtime = clock /\ clock \in 1..clock
  BY Sides, TruncatedIsFile DEF CopyTyped, CopyTypeOK, Underway
<1> HIDE DEF f
<1>2. CASE CreateTarget
  <2>1. fs' = [fs EXCEPT ![to] = f]
    BY <1>2 DEF CreateTarget, CopyTyped, CopyTypeOK, f
  <2>2. to' = to /\ handles' \in [Side -> Nat] /\ \A s \in Side : handles'[s] > 0
    BY <1>2, Sides DEF CreateTarget, CopyTyped, CopyTypeOK, Underway, to
  <2> QED BY <1>1, <1>2, <2>1, <2>2, NewTargetTyped
          DEF CreateTarget, CopyTyped, CopyTypeOK, Underway
<1>3. CASE CreateFails
  BY <1>3, ReturnTyped DEF CreateFails, CopyTyped, CopyTypeOK, Underway, Result
<1>4. CASE CreateOverflows
  <2>1. fs' = [fs EXCEPT ![to] = f]
    BY <1>4 DEF CreateOverflows, CopyTyped, CopyTypeOK, f
  <2>2. CFD_CREATE_FAIL \in Result
    BY DEF Result
  <2> QED BY <1>1, <1>4, <2>1, <2>2, NewTargetTyped, ReturnTyped
          DEF CreateOverflows, CopyTyped
<1> QED BY <1>2, <1>3, <1>4

\* What the target becomes when n units that were read are written to it.
LEMMA WrittenTarget ==
    ASSUME CopyTyped, pc = "copy", NEW n \in Nat, n # 0 => copied + n <= Len(fs[from].data),
           fs' = [fs EXCEPT ![to] = IF n = 0 THEN @ ELSE Appended(@, Units(n))]
    PROVE  /\ fs' \in [Side -> Entry]
           /\ \A s \in Side : fs'[s] # Absent => fs'[s].mtime \in 1..clock
           /\ fs'[to] # Absent
           /\ fs'[from] = fs[from]
           /\ fs'[to].data = IF n = 0 THEN fs[to].data ELSE fs[to].data \o Units(n)
<1>1. fs[from] \in File /\ fs[to] \in File
  BY Sides DEF CopyTyped, CopyTypeOK, Underway, Entry
<1> DEFINE f == IF n = 0 THEN fs[to] ELSE Appended(fs[to], Units(n))
<1>2. f \in File /\ f.mtime \in 1..clock
      /\ f.data = IF n = 0 THEN fs[to].data ELSE fs[to].data \o Units(n)
  <2>1. CASE n = 0
    BY <1>1, <2>1, Sides DEF CopyTyped, CopyTypeOK, Underway
  <2>2. CASE n # 0
    <3>1. Units(n) \in Seq(Version)
      BY <1>1, <2>2, UnitsAreUnits DEF Units, File, CopyTyped, CopyTypeOK
    <3>2. clock \in Nat /\ clock \in 1..clock
      BY DEF CopyTyped, CopyTypeOK, Underway
    <3>3. /\ Appended(fs[to], Units(n)) \in File
          /\ Appended(fs[to], Units(n)).data = fs[to].data \o Units(n)
          /\ Appended(fs[to], Units(n)).mtime = clock
      BY <1>1, <3>1, <3>2, AppendedIsFile
    <3> QED BY <2>2, <3>2, <3>3
  <2> QED BY <2>1, <2>2
<1>3. fs' = [fs EXCEPT ![to] = f]
  BY Sides DEF CopyTyped, CopyTypeOK
<1> HIDE DEF f
<1> QED BY <1>2, <1>3, NewTargetTyped DEF CopyTyped

LEMMA ChunkTyped ==
    ASSUME CopyTyped, CopyChunk
    PROVE  CopyTyped'
<1>1. PICK n \in ReadCounts :
          /\ fs' = [fs EXCEPT ![to] = IF n = 0 THEN @ ELSE Appended(@, Units(n))]
          /\ copied' = copied + n
  BY DEF CopyChunk
<1>2. n \in Nat /\ (n # 0 => copied + n <= Len(fs[from].data))
  BY ReadIsWithin DEF CopyChunk, CopyTyped
<1>3. /\ fs' \in [Side -> Entry]
      /\ \A s \in Side : fs'[s] # Absent => fs'[s].mtime \in 1..clock
      /\ fs'[to] # Absent
      /\ fs'[from] = fs[from]
  BY <1>1, <1>2, WrittenTarget DEF CopyChunk
<1>4. copied' \in Nat
  BY <1>1, <1>2 DEF CopyTyped, CopyTypeOK
<1>5. to' = to
  BY DEF CopyChunk, to
<1> QED BY <1>3, <1>4, <1>5 DEF CopyChunk, CopyTyped, CopyTypeOK, Underway

LEMMA FailureTyped ==
    ASSUME CopyTyped, ReadFails \/ WriteFails \/ DiskFull
    PROVE  CopyTyped'
<1>1. CASE ReadFails
  BY <1>1, ReturnTyped DEF ReadFails, CopyTyped, CopyTypeOK, Underway, Result
<1>2. CASE WriteFails
  <2>1. PICK n \in ReadCounts \ {0} : \E k \in 0..(n - 1) :
            fs' = [fs EXCEPT ![to] = IF k = 0 THEN @ ELSE Appended(@, Units(k))]
    BY <1>2 DEF WriteFails
  <2>2. n \in Nat /\ copied + n <= Len(fs[from].data) /\ fs[from] \in File
    BY <1>2, ReadIsWithin DEF WriteFails, CopyTyped
  <2>3. PICK k \in 0..(n - 1) :
            fs' = [fs EXCEPT ![to] = IF k = 0 THEN @ ELSE Appended(@, Units(k))]
    BY <2>1
  <2>4. k \in Nat /\ copied + k <= Len(fs[from].data)
    <3>1. Len(fs[from].data) \in Nat
      BY <2>2, LenProperties DEF File
    <3> QED BY <2>2, <3>1 DEF CopyTyped, CopyTypeOK
  <2>5. /\ fs' \in [Side -> Entry]
        /\ \A s \in Side : fs'[s] # Absent => fs'[s].mtime \in 1..clock
    BY <1>2, <2>3, <2>4, WrittenTarget DEF WriteFails
  <2>6. PICK r \in Result : Return(r)
    BY <1>2 DEF WriteFails, Result
  <2> QED BY <1>2, <2>5, <2>6, ReturnTyped DEF WriteFails
<1>3. CASE DiskFull
  BY <1>3, ReturnTyped DEF DiskFull, CopyTyped, CopyTypeOK, Underway, Result
<1> QED BY <1>1, <1>2, <1>3

\* Setting the mode or the date of the target leaves its data alone.
LEMMA FinishTyped ==
    ASSUME CopyTyped, Finish \/ Stamp
    PROVE  /\ CopyTyped'
           /\ fs'[from] = fs[from]
           /\ fs'[to] # Absent
           /\ fs'[to].data = fs[to].data
<1>1. fs[from] \in File /\ fs[to] \in File /\ fs[to].mtime \in 1..clock
  BY Sides DEF Finish, Stamp, CopyTyped, CopyTypeOK, Underway, Entry
<1>2. fs[from].mtime \in 1..clock
  BY <1>1, FilesAssumption DEF CopyTyped, CopyTypeOK, Underway
<1>3. CASE Finish
  <2>1. PICK m \in Answers(getFileMode(fs[from])) :
            \/ m # 0 /\ fs' = [fs EXCEPT ![to].mode = m]
            \/ UNCHANGED fs
    BY <1>3 DEF Finish
  <2>2. m # 0 => m \in Mode
    BY <1>1, FilesAssumption DEF Answers, getFileMode, File
  <2>3. PICK f \in File : /\ f.data = fs[to].data /\ f.mtime \in 1..clock
                          /\ fs' = [fs EXCEPT ![to] = f]
    <3>1. CASE m # 0 /\ fs' = [fs EXCEPT ![to].mode = m]
      <4> DEFINE f == [fs[to] EXCEPT !.mode = m]
      <4>1. f \in File /\ f.data = fs[to].data /\ f.mtime \in 1..clock
        BY <1>1, <2>2, <3>1 DEF File
      <4>2. fs' = [fs EXCEPT ![to] = f]
        BY <3>1
      <4> QED BY <4>1, <4>2
    <3>2. CASE UNCHANGED fs
      BY <1>1, <3>2, Sides DEF CopyTyped, CopyTypeOK
    <3> QED BY <2>1, <3>1, <3>2
  <2>4. /\ fs' \in [Side -> Entry]
        /\ \A s \in Side : fs'[s] # Absent => fs'[s].mtime \in 1..clock
        /\ fs'[to] = f /\ fs'[to] # Absent
        /\ fs'[from] = fs[from]
    BY <2>3, NewTargetTyped DEF CopyTyped
  <2>5. handles' \in [Side -> Nat]
    BY <1>3 DEF Finish, CopyTyped, CopyTypeOK, Underway
  <2>6. to' = to
    BY <1>3 DEF Finish, to
  <2>7. CopyTypeOK'
    BY <1>3, <2>4, <2>5 DEF Finish, CopyTyped, CopyTypeOK
  <2>8. Underway'
    <3>1. from' = from /\ clock' = clock /\ pc' = "stamp" /\ fs'[from] # Absent
      BY <1>1, <1>3, <2>4, FilesAssumption DEF Finish
    <3>2. clock > 0
      BY DEF CopyTyped, Underway
    <3> QED BY <2>4, <2>6, <3>1, <3>2 DEF Underway
  <2> QED BY <2>3, <2>4, <2>7, <2>8 DEF CopyTyped
<1>4. CASE Stamp
  <2>1. PICK t \in Answers(getModTime(fs[from])) :
            \/ t # 0 /\ fs' = [fs EXCEPT ![to].mtime = t]
            \/ UNCHANGED fs
    BY <1>4 DEF Stamp
  <2>2. t # 0 => t \in Nat /\ t \in 1..clock
    BY <1>1, <1>2, FilesAssumption DEF Answers, getModTime
  <2>3. PICK f \in File : /\ f.data = fs[to].data /\ f.mtime \in 1..clock
                          /\ fs' = [fs EXCEPT ![to] = f]
    <3>1. CASE t # 0 /\ fs' = [fs EXCEPT ![to].mtime = t]
      <4> DEFINE f == [fs[to] EXCEPT !.mtime = t]
      <4>1. f \in File /\ f.data = fs[to].data /\ f.mtime \in 1..clock
        BY <1>1, <2>2, <3>1 DEF File
      <4>2. fs' = [fs EXCEPT ![to] = f]
        BY <3>1
      <4> QED BY <4>1, <4>2
    <3>2. CASE UNCHANGED fs
      BY <1>1, <3>2, Sides DEF CopyTyped, CopyTypeOK
    <3> QED BY <2>1, <3>1, <3>2
  <2>4. /\ fs' \in [Side -> Entry]
        /\ \A s \in Side : fs'[s] # Absent => fs'[s].mtime \in 1..clock
        /\ fs'[to] = f /\ fs'[to] # Absent
        /\ fs'[from] = fs[from]
    BY <2>3, NewTargetTyped DEF CopyTyped
  <2>5. CFD_SUCCESS \in Result
    BY DEF Result
  <2>6. CopyTyped'
    BY <1>4, <2>4, <2>5, ReturnTyped DEF Stamp
  <2> QED BY <2>3, <2>4, <2>6
<1> QED BY <1>3, <1>4

LEMMA CopyStepTyped ==
    ASSUME CopyTyped, CopyStep
    PROVE  CopyTyped'
BY OpenTyped, CreateTyped, ChunkTyped, FailureTyped, FinishTyped DEF CopyStep

-----------------------------------------------------------------------------
(* So do the caller's steps and the user's.                                *)

LEMMA InvokeTyped ==
    ASSUME CopyTyped, NEW s \in Side, Invoke(s), UNCHANGED <<fs, clock>>
    PROVE  CopyTyped'
BY DEF Invoke, CopyTyped, CopyTypeOK, Underway

LEMMA LeftTyped ==
    ASSUME CopyTyped, Resume \/ Die, UNCHANGED <<fs, clock>>
    PROVE  CopyTyped'
BY DEF Resume, Die, Left, CopyTyped, CopyTypeOK, Underway, Result, Side

LEMMA UserFilesAreFiles ==
    ASSUME CopyTyped, NEW f \in UserFiles
    PROVE  f \in File /\ f.mtime \in 1..clock
BY CopyAssumption DEF UserFiles, UserFile, File, CopyTyped, CopyTypeOK, Underway

LEMMA UserTyped ==
    ASSUME CopyTyped, \E s \in Side : Edit(s) \/ Remove(s)
    PROVE  CopyTyped'
<1>1. ASSUME NEW s \in Side, Edit(s)
      PROVE  CopyTyped'
  <2>1. PICK f \in UserFiles : fs' = [fs EXCEPT ![s] = f]
    BY <1>1 DEF Edit
  <2>2. f \in File /\ f.mtime \in 1..clock
    BY UserFilesAreFiles
  <2> QED BY <1>1, <2>1, <2>2, FilesAssumption
          DEF Edit, copyVars, CopyTyped, CopyTypeOK, Underway, Entry
<1>2. ASSUME NEW s \in Side, Remove(s)
      PROVE  CopyTyped'
  BY <1>2 DEF Remove, copyVars, CopyTyped, CopyTypeOK, Underway, Entry
<1> QED BY <1>1, <1>2

LEMMA TickTyped ==
    ASSUME CopyTyped, Tick
    PROVE  CopyTyped'
<1>1. \A s \in Side : fs[s] # Absent => fs[s].mtime \in 1..(clock + 1)
  BY DEF CopyTyped, CopyTypeOK, Underway
<1>2. to' = to
  BY DEF Tick, copyVars, to
<1> QED BY <1>1, <1>2 DEF Tick, copyVars, CopyTyped, CopyTypeOK, Underway

LEMMA CopyInitTyped ==
    ASSUME CopyInit
    PROVE  CopyTyped
<1>1. \A f \in UserFiles : f \in File /\ f.mtime \in 1..clock
  BY CopyAssumption DEF CopyInit, UserFiles, UserFile, File
<1> QED BY <1>1 DEF CopyInit, CopyTyped, CopyTypeOK, Underway, Entry, Side, Result

LEMMA CopyStutterTyped ==
    ASSUME CopyTyped, UNCHANGED cvars
    PROVE  CopyTyped'
BY DEF cvars, copyVars, CopyTyped, CopyTypeOK, Underway, to

LEMMA CopyAlwaysTyped == CopySpec => []CopyTyped
<1>1. CopyInit => CopyTyped
  BY CopyInitTyped
<1>2. CopyTyped /\ [CopyNext]_cvars => CopyTyped'
  <2> SUFFICES ASSUME CopyTyped, [CopyNext]_cvars
               PROVE  CopyTyped'
    OBVIOUS
  <2>1. CASE Call
    BY <2>1, InvokeTyped DEF Call
  <2>2. CASE CopyStep
    BY <2>2, CopyStepTyped
  <2>3. CASE Take \/ CopyCrash
    BY <2>3, LeftTyped DEF Take, CopyCrash
  <2>4. CASE \E s \in Side : Edit(s) \/ Remove(s)
    BY <2>4, UserTyped
  <2>5. CASE Tick
    BY <2>5, TickTyped
  <2>6. CASE UNCHANGED cvars
    BY <2>6, CopyStutterTyped
  <2> QED BY <2>1, <2>2, <2>3, <2>4, <2>5, <2>6 DEF CopyNext
<1> QED BY <1>1, <1>2, PTL DEF CopySpec

\* CopyFileToDest run on its own keeps its types: no handle is closed that is
\* not open, and either side holds a file or nothing, whatever fails and
\* whatever the user does between the calls.
THEOREM CopyType == CopySpec => []CopyTypeOK
BY CopyAlwaysTyped, PTL DEF CopyTyped

\* The folder the call was made on is only read.
LEMMA CopyReadsOnly ==
    ASSUME CopyTyped, CopyStep
    PROVE  fs'[from] = fs[from]
<1>1. CASE OpenSource \/ OpenFails \/ CreateFails \/ ReadFails \/ DiskFull
  BY <1>1 DEF OpenSource, OpenFails, CreateFails, ReadFails, DiskFull
<1>2. CASE CreateTarget \/ CreateOverflows
  BY <1>2, Sides DEF CreateTarget, CreateOverflows, CopyTyped, CopyTypeOK
<1>3. CASE CopyChunk \/ WriteFails
  BY <1>3, Sides DEF CopyChunk, WriteFails, CopyTyped, CopyTypeOK
<1>4. CASE Finish \/ Stamp
  BY <1>4, FinishTyped
<1> QED BY <1>1, <1>2, <1>3, <1>4 DEF CopyStep

\* A target that is there stays there.
LEMMA CopyKeepsTarget ==
    ASSUME CopyTyped, CopyStep, fs[to] # Absent
    PROVE  fs'[to] # Absent
<1>1. CASE OpenSource \/ OpenFails \/ CreateFails \/ ReadFails \/ DiskFull
  BY <1>1 DEF OpenSource, OpenFails, CreateFails, ReadFails, DiskFull
<1>2. CASE CreateTarget \/ CreateOverflows
  <2>1. Truncated(fs[to]) \in File /\ fs' = [fs EXCEPT ![to] = Truncated(fs[to])]
    BY <1>2, Sides, TruncatedIsFile
    DEF CreateTarget, CreateOverflows, CopyTyped, CopyTypeOK, Underway
  <2> QED BY <2>1, Sides, FilesAssumption DEF CopyTyped, CopyTypeOK
<1>3. CASE CopyChunk
  BY <1>3, ChunkTyped DEF CopyChunk, CopyTyped, Underway, to
<1>4. CASE WriteFails
  <2>1. PICK n \in ReadCounts \ {0} : \E k \in 0..(n - 1) :
            fs' = [fs EXCEPT ![to] = IF k = 0 THEN @ ELSE Appended(@, Units(k))]
    BY <1>4 DEF WriteFails
  <2>2. PICK k \in 0..(n - 1) :
            fs' = [fs EXCEPT ![to] = IF k = 0 THEN @ ELSE Appended(@, Units(k))]
    BY <2>1
  <2>3. n \in Nat /\ copied + n <= Len(fs[from].data) /\ fs[from] \in File
    BY <1>4, ReadIsWithin DEF WriteFails, CopyTyped
  <2>4. Len(fs[from].data) \in Nat
    BY <2>3, LenProperties DEF File
  <2>5. k \in Nat /\ copied + k <= Len(fs[from].data)
    BY <2>3, <2>4 DEF CopyTyped, CopyTypeOK
  <2> QED BY <1>4, <2>2, <2>5, WrittenTarget DEF WriteFails
<1>5. CASE Finish \/ Stamp
  BY <1>5, FinishTyped
<1> QED BY <1>1, <1>2, <1>3, <1>4, <1>5 DEF CopyStep

\* A call never writes to the folder it was made on.
THEOREM CopySource == CopySpec => SourceOnlyRead
<1>1. CopyTyped /\ [CopyNext]_cvars => [CopyStep => fs'[from] = fs[from]]_cvars
  BY CopyReadsOnly
<1> QED BY <1>1, CopyAlwaysTyped, PTL DEF CopySpec, SourceOnlyRead
-----------------------------------------------------------------------------
(* The length of the target, whatever is done to the source.               *)

\* A step that ends the call for another reason says nothing about the target.
LEMMA FailureWhole ==
    ASSUME NEW r, r # CFD_SUCCESS, Return(r)
    PROVE  WholeSoFar'
BY DEF Return, WholeSoFar, SuccessIsWhole

LEMMA CreateWhole ==
    ASSUME CopyTyped, CreateTarget
    PROVE  WholeSoFar'
<1>1. Truncated(fs[to]).data = <<>> /\ fs' = [fs EXCEPT ![to] = Truncated(@)]
  BY Sides, TruncatedIsFile DEF CreateTarget, CopyTyped, CopyTypeOK
<1>2. to' = to /\ to \in Side /\ fs'[to].data = <<>>
  BY <1>1, Sides DEF CreateTarget, CopyTyped, CopyTypeOK, to
<1>3. pc' = "copy" /\ copied' = 0 /\ fSize' \in Nat
  BY DEF CreateTarget, CopyTyped, CopyTypeOK, Underway
<1>4. Len(fs'[to'].data) = 0
  BY <1>2, EmptySeq
<1> QED BY <1>3, <1>4 DEF WholeSoFar, SuccessIsWhole

LEMMA ChunkWhole ==
    ASSUME CopyTyped, WholeSoFar, CopyChunk
    PROVE  WholeSoFar'
<1>1. PICK n \in ReadCounts :
          /\ fs' = [fs EXCEPT ![to] = IF n = 0 THEN @ ELSE Appended(@, Units(n))]
          /\ copied' = copied + n
  BY DEF CopyChunk
<1>2. /\ n \in Nat /\ (n # 0 => copied + n <= Len(fs[from].data))
      /\ copied + n <= fSize
      /\ fs[from] \in File /\ fs[to] \in File
  BY ReadIsWithin DEF CopyChunk, CopyTyped, CopyTypeOK
<1>3. fs'[to].data = IF n = 0 THEN fs[to].data ELSE fs[to].data \o Units(n)
  BY <1>1, <1>2, WrittenTarget DEF CopyChunk
<1>4. Len(fs[to].data) = copied /\ fs[to].data \in Seq(Version) /\ copied \in Nat
  BY <1>2 DEF WholeSoFar, CopyChunk, CopyTyped, CopyTypeOK, File
<1>5. Len(fs'[to].data) = copied + n
  <2>1. CASE n = 0
    BY <1>3, <1>4, <2>1
  <2>2. CASE n # 0
    <3>1. Units(n) \in Seq(Version) /\ Len(Units(n)) = n
      BY <1>2, <1>4, <2>2, UnitsAreUnits DEF Units, File
    <3>2. Len(fs[to].data \o Units(n)) = Len(fs[to].data) + Len(Units(n))
      BY <1>4, <3>1, ConcatProperties
    <3> QED BY <1>3, <1>4, <2>2, <3>1, <3>2
  <2> QED BY <2>1, <2>2
<1>6. pc' = "copy" /\ to' = to /\ fSize' = fSize
  BY DEF CopyChunk, to
<1> QED BY <1>1, <1>2, <1>5, <1>6 DEF WholeSoFar, SuccessIsWhole

LEMMA FinishWhole ==
    ASSUME CopyTyped, WholeSoFar, Finish \/ Stamp
    PROVE  WholeSoFar'
<1>1. fs'[to] # Absent /\ fs'[to].data = fs[to].data
  BY FinishTyped
<1>2. to' = to /\ fSize' = fSize
  BY DEF Finish, Stamp, to
<1>3. CASE Finish
  <2>1. copied = fSize /\ Len(fs[to].data) = copied /\ pc' = "stamp"
    BY <1>3 DEF Finish, WholeSoFar, CopyTyped, CopyTypeOK
  <2> QED BY <1>1, <1>2, <2>1 DEF WholeSoFar, SuccessIsWhole
<1>4. CASE Stamp
  <2>1. Len(fs[to].data) = fSize /\ pc' = "returned"
    BY <1>4 DEF Stamp, Return, WholeSoFar
  <2> QED BY <1>1, <1>2, <2>1 DEF WholeSoFar, SuccessIsWhole
<1> QED BY <1>3, <1>4

LEMMA CopyStepWhole ==
    ASSUME CopyTyped, WholeSoFar, CopyStep
    PROVE  WholeSoFar'
<1>1. CASE OpenSource
  BY <1>1 DEF OpenSource, WholeSoFar, SuccessIsWhole
<1>2. CASE OpenFails \/ CreateFails \/ CreateOverflows \/ ReadFails \/ WriteFails \/ DiskFull
  BY <1>2, FailureWhole
  DEF OpenFails, CreateFails, CreateOverflows, ReadFails, WriteFails, DiskFull, CFD_SUCCESS,
      CFD_OPEN_FAIL, CFD_CREATE_FAIL, CFD_READ_FAIL, CFD_WRITE_FAIL, CFD_DEST_FULL
<1>3. CASE CreateTarget
  BY <1>3, CreateWhole
<1>4. CASE CopyChunk
  BY <1>4, ChunkWhole
<1>5. CASE Finish \/ Stamp
  BY <1>5, FinishWhole
<1> QED BY <1>1, <1>2, <1>3, <1>4, <1>5 DEF CopyStep

LEMMA UserWhole ==
    ASSUME WholeSoFar, \E s \in Side : Edit(s) \/ Remove(s)
    PROVE  WholeSoFar'
BY DEF Edit, Remove, copyVars, WholeSoFar, SuccessIsWhole

LEMMA CallWhole ==
    ASSUME WholeSoFar,
           (\E s \in Side : Invoke(s)) \/ Resume \/ Die
    PROVE  WholeSoFar'
BY DEF Invoke, Resume, Die, Left, WholeSoFar, SuccessIsWhole

\* A copy that is reported as made is as long as the source was said to be when
\* the call began.
THEOREM CopyWhole == CopySpec => []SuccessIsWhole
<1>1. CopyInit => WholeSoFar
  BY DEF CopyInit, WholeSoFar, SuccessIsWhole
<1>2. CopyTyped /\ WholeSoFar /\ [CopyNext]_cvars => WholeSoFar'
  <2> SUFFICES ASSUME CopyTyped, WholeSoFar, [CopyNext]_cvars
               PROVE  WholeSoFar'
    OBVIOUS
  <2>1. CASE Call \/ Take \/ CopyCrash
    BY <2>1, CallWhole DEF Call, Take, CopyCrash
  <2>2. CASE CopyStep
    BY <2>2, CopyStepWhole
  <2>3. CASE \E s \in Side : Edit(s) \/ Remove(s)
    BY <2>3, UserWhole
  <2>4. CASE Tick \/ UNCHANGED cvars
    BY <2>4 DEF Tick, cvars, copyVars, WholeSoFar, SuccessIsWhole, to
  <2> QED BY <2>1, <2>2, <2>3, <2>4 DEF CopyNext
<1>3. WholeSoFar => SuccessIsWhole
  BY DEF WholeSoFar
<1> QED BY <1>1, <1>2, <1>3, CopyAlwaysTyped, PTL DEF CopySpec
=============================================================================
