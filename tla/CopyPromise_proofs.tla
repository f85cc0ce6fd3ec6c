------------------------- MODULE CopyPromise_proofs -------------------------
(***************************************************************************)
(* CopyFileToDest on its own: while it runs the target is a prefix of the  *)
(* source, when it succeeds a copy, and every step of it is a step of      *)
(* CopyPromise; for every content, buffer length and number of handles.    *)
(***************************************************************************)
EXTENDS CopyFile_proofs

source == fs[from].data

\* What is true on the way to SuccessMeansCopied: the size that was asked for is
\* still that of the source, and the target has the data before it has the mode,
\* and the mode before it has the date.
PrefixInv ==
    /\ TargetIsPrefix
    /\ "stat" \notin Faults =>
          /\ pc \in {"create", "copy"} => fSize = Len(source)
          /\ pc = "stamp" =>
                /\ fs[to].data = source
                /\ "chmod" \in Faults \/ fs[from].mode = 0 \/ fs[to].mode = fs[from].mode
          /\ SuccessMeansCopied

-----------------------------------------------------------------------------
(* The prefix.                                                             *)

LEMMA FilesThere ==
    ASSUME CopyTyped, pc \in {"copy", "stamp"}
    PROVE  /\ fs[from] \in File /\ fs[to] \in File
           /\ source \in Seq(Version) /\ Len(source) \in Nat
           /\ from \in Side /\ to \in Side /\ copied \in Nat /\ fSize \in Nat
<1>1. fs[from] \in File /\ fs[to] \in File
  BY Sides DEF CopyTyped, CopyTypeOK, Underway, Entry
<1>2. source \in Seq(Version) /\ Len(source) \in Nat
  BY <1>1, LenProperties DEF source, File
<1> QED BY <1>1, <1>2, Sides DEF CopyTyped, CopyTypeOK

\* Units written behind a prefix of the source make a longer one.
LEMMA WrittenPrefix ==
    ASSUME CopyTyped, TargetIsPrefix, pc = "copy", NEW n \in Nat,
           n # 0 => copied + n <= Len(source),
           fs' = [fs EXCEPT ![to] = IF n = 0 THEN @ ELSE Appended(@, Units(n))]
    PROVE  /\ fs' \in [Side -> Entry]
           /\ fs'[from] = fs[from]
           /\ fs'[to] # Absent
           /\ copied + n <= Len(source)
           /\ fs'[to].data = SubSeq(source, 1, copied + n)
           /\ Len(fs'[to].data) = copied + n
           /\ Len(fs[to].data) = copied
<1>1. /\ source \in Seq(Version) /\ Len(source) \in Nat /\ copied \in Nat
  BY FilesThere
<1>2. /\ fs' \in [Side -> Entry]
      /\ fs'[from] = fs[from]
      /\ fs'[to] # Absent
      /\ fs'[to].data = IF n = 0 THEN fs[to].data ELSE fs[to].data \o Units(n)
  BY WrittenTarget DEF source
<1>3. fs[to].data = SubSeq(source, 1, copied) /\ copied <= Len(source)
  BY DEF TargetIsPrefix, source
<1>4. copied + n <= Len(source)
  BY <1>1, <1>3
<1>5. fs'[to].data = SubSeq(source, 1, copied + n)
  <2>1. CASE n = 0
    BY <1>1, <1>2, <1>3, <2>1
  <2>2. CASE n # 0
    <3>1. SubSeq(source, 1, copied) \o SubSeq(source, copied + 1, copied + n)
             = SubSeq(source, 1, copied + n)
      BY <1>1, <1>4, PrefixGrows
    <3> QED BY <1>2, <1>3, <2>2, <3>1 DEF Units, source
  <2> QED BY <2>1, <2>2
<1>6. /\ Len(SubSeq(source, 1, copied + n)) = copied + n
      /\ Len(SubSeq(source, 1, copied)) = copied
  BY <1>1, <1>3, <1>4, SubSeqProperties, LenProperties
<1> QED BY <1>2, <1>3, <1>4, <1>5, <1>6

LEMMA ChunkPrefix ==
    ASSUME CopyTyped, PrefixInv, CopyChunk
    PROVE  PrefixInv'
<1>1. PICK n \in ReadCounts :
          /\ fs' = [fs EXCEPT ![to] = IF n = 0 THEN @ ELSE Appended(@, Units(n))]
          /\ copied' = copied + n
  BY DEF CopyChunk
<1>2. n \in Nat /\ (n # 0 => copied + n <= Len(source))
  BY ReadIsWithin DEF CopyChunk, CopyTyped, source
<1>3. /\ fs'[from] = fs[from] /\ fs'[to] # Absent
      /\ copied + n <= Len(source)
      /\ fs'[to].data = SubSeq(source, 1, copied + n)
  BY <1>1, <1>2, WrittenPrefix DEF CopyChunk, PrefixInv
<1>4. /\ pc = "copy" /\ pc' = "copy"
      /\ from' = from /\ to' = to /\ fSize' = fSize /\ fs[from] # Absent
  BY DEF CopyChunk, to, CopyTyped, Underway
<1>5. source' = source
  BY <1>3, <1>4 DEF source
<1>6. TargetIsPrefix'
  BY <1>1, <1>3, <1>4 DEF TargetIsPrefix, source
<1> QED BY <1>4, <1>5, <1>6 DEF PrefixInv, SuccessMeansCopied

LEMMA CreatePrefix ==
    ASSUME CopyTyped, PrefixInv, CreateTarget
    PROVE  PrefixInv'
<1>1. /\ pc = "create" /\ pc' = "copy"
      /\ fs' = [fs EXCEPT ![to] = Truncated(fs[to])]
      /\ from' = from /\ to' = to /\ fSize' = fSize /\ copied' = 0
      /\ fs[from] # Absent
  BY DEF CreateTarget, CopyTyped, CopyTypeOK, Underway, to
<1>2. fs[from] \in File
  BY <1>1 DEF CopyTyped, CopyTypeOK, Entry
<1>3. source \in Seq(Version) /\ Len(source) \in Nat
  BY <1>2, LenProperties DEF source, File
<1>4. Truncated(fs[to]) \in File /\ Truncated(fs[to]).data = <<>>
  BY Sides, TruncatedIsFile DEF CopyTyped, CopyTypeOK
<1>5. fs'[from] = fs[from] /\ fs'[to] = Truncated(fs[to])
  BY <1>1, Sides DEF CopyTyped, CopyTypeOK
<1>6. fs'[to] # Absent
  BY <1>4, <1>5, FilesAssumption
<1>7. SubSeq(source, 1, 0) = <<>>
  BY <1>3, EmptyPrefix
<1>8. source' = source
  BY <1>1, <1>5 DEF source
<1>9. source' = source /\ fs'[to'] # Absent /\ copied' = 0 /\ fs'[to'].data = <<>>
  BY <1>1, <1>4, <1>5, <1>6, <1>8 DEF to
<1>10. fs'[to'].data = SubSeq(source', 1, copied') /\ copied' <= Len(source')
  BY <1>3, <1>7, <1>9
<1>11. TargetIsPrefix'
  <2>1. fs'[from'] # Absent
    BY <1>1, <1>5
  <2>2. copied' <= Len(fs'[from'].data)
    BY <1>10 DEF source
  <2>3. fs'[to'].data = SubSeq(fs'[from'].data, 1, copied')
    BY <1>10 DEF source
  <2> QED BY <1>9, <2>1, <2>2, <2>3 DEF TargetIsPrefix
<1> QED BY <1>1, <1>8, <1>11 DEF PrefixInv, SuccessMeansCopied

\* When all has been read the prefix is the whole.
LEMMA FinishPrefix ==
    ASSUME CopyTyped, PrefixInv, Finish
    PROVE  PrefixInv'
<1>1. /\ pc = "copy" /\ pc' = "stamp" /\ copied >= fSize
      /\ from' = from /\ to' = to
  BY DEF Finish, to
<1>2. fs'[from] = fs[from] /\ fs'[to] # Absent /\ fs'[to].data = fs[to].data
  BY FinishTyped
<1>3. SUFFICES ASSUME "stat" \notin Faults
               PROVE  /\ fs'[to].data = fs[from].data
                      /\ "chmod" \in Faults \/ fs[from].mode = 0 \/ fs'[to].mode = fs[from].mode
  BY <1>1, <1>2 DEF PrefixInv, TargetIsPrefix, SuccessMeansCopied, source
<1>4. /\ source \in Seq(Version) /\ Len(source) \in Nat /\ copied \in Nat
      /\ fs[from] \in File /\ fs[to] \in File /\ to \in Side
  BY <1>1, FilesThere
<1>5. copied = Len(source) /\ fs[to].data = SubSeq(source, 1, copied)
  BY <1>1, <1>3, <1>4 DEF PrefixInv, TargetIsPrefix, source
<1>6. fs'[to].data = fs[from].data
  BY <1>2, <1>4, <1>5, WholePrefix DEF source
<1>7. Answers(getFileMode(fs[from])) = {fs[from].mode}
  BY <1>3, <1>4, FilesAssumption DEF Answers, getFileMode
<1>8. \/ fs[from].mode # 0 /\ fs' = [fs EXCEPT ![to].mode = fs[from].mode]
      \/ fs[from].mode = 0 \/ "chmod" \in Faults
  BY <1>7 DEF Finish
<1>9. fs' = [fs EXCEPT ![to].mode = fs[from].mode] => fs'[to].mode = fs[from].mode
  BY <1>4 DEF CopyTyped, CopyTypeOK, File
<1> QED BY <1>6, <1>8, <1>9

LEMMA StampPrefix ==
    ASSUME CopyTyped, PrefixInv, Stamp
    PROVE  PrefixInv'
<1>1. pc = "stamp" /\ pc' = "returned" /\ from' = from /\ to' = to
  BY DEF Stamp, Return, to
<1>2. fs'[from] = fs[from] /\ fs'[to] # Absent /\ fs'[to].data = fs[to].data
  BY FinishTyped
<1>3. /\ fs[from] \in File /\ fs[to] \in File /\ to \in Side
  BY <1>1, FilesThere
<1>4. SUFFICES ASSUME "stat" \notin Faults
               PROVE  SuccessMeansCopied'
  BY <1>1 DEF PrefixInv, TargetIsPrefix
<1>5. Answers(getModTime(fs[from])) = {fs[from].mtime}
  BY <1>3, <1>4, FilesAssumption DEF Answers, getModTime
<1>6. \/ fs[from].mtime # 0 /\ fs' = [fs EXCEPT ![to].mtime = fs[from].mtime]
      \/ (fs[from].mtime = 0 \/ "utime" \in Faults) /\ UNCHANGED fs
  BY <1>5 DEF Stamp
<1>7. "utime" \in Faults \/ fs[from].mtime = 0 \/ fs'[to].mtime = fs[from].mtime
  BY <1>3, <1>6 DEF CopyTyped, CopyTypeOK, File
<1>8. fs'[to].mode = fs[to].mode
  BY <1>3, <1>6 DEF CopyTyped, CopyTypeOK, File
<1>9. /\ fs[to].data = fs[from].data
      /\ "chmod" \in Faults \/ fs[from].mode = 0 \/ fs[to].mode = fs[from].mode
  BY <1>1, <1>4 DEF PrefixInv, source
<1>10. fs[from] # Absent
  BY <1>3, FilesAssumption
<1> QED BY <1>1, <1>2, <1>7, <1>8, <1>9, <1>10 DEF SuccessMeansCopied

LEMMA FailurePrefix ==
    ASSUME CopyTyped, PrefixInv,
           OpenFails \/ CreateFails \/ CreateOverflows \/ ReadFails \/ WriteFails \/ DiskFull
    PROVE  PrefixInv'
<1>1. pc' = "returned" /\ result' # CFD_SUCCESS
  BY DEF OpenFails, CreateFails, CreateOverflows, ReadFails, WriteFails, DiskFull, Return,
      CFD_OPEN_FAIL, CFD_CREATE_FAIL, CFD_READ_FAIL, CFD_WRITE_FAIL, CFD_DEST_FULL, CFD_SUCCESS
<1> QED BY <1>1 DEF PrefixInv, TargetIsPrefix, SuccessMeansCopied

LEMMA StepPrefix ==
    ASSUME CopyTyped, PrefixInv, [CopyNext]_cvars
    PROVE  PrefixInv'
<1>1. CASE CopyStep
  <2>1. CASE OpenSource
    <3>1. /\ pc' = "create" /\ from' = from /\ fs' = fs
          /\ fSize' \in Answers(getFileSize(fs[from])) /\ fs[from] # Absent
      BY <2>1 DEF OpenSource
    <3>2. "stat" \notin Faults => fSize' = Len(source)
      BY <3>1 DEF Answers, getFileSize, source
    <3>3. source' = source
      BY <3>1 DEF source
    <3> QED BY <3>1, <3>2, <3>3 DEF PrefixInv, TargetIsPrefix, SuccessMeansCopied
  <2> QED
    BY <1>1, <2>1, CreatePrefix, ChunkPrefix, FinishPrefix, StampPrefix, FailurePrefix
    DEF CopyStep
<1>2. CASE Call
  <2>1. pc' = "open"
    BY <1>2 DEF Call, Invoke
  <2> QED BY <2>1 DEF PrefixInv, TargetIsPrefix, SuccessMeansCopied
<1>3. CASE Take \/ CopyCrash
  <2>1. pc' = "idle"
    BY <1>3 DEF Take, CopyCrash, Resume, Die, Left
  <2> QED BY <2>1 DEF PrefixInv, TargetIsPrefix, SuccessMeansCopied
<1>4. CASE \E s \in Side : Edit(s) \/ Remove(s)
  <2>1. pc' = "idle"
    BY <1>4 DEF Edit, Remove, copyVars
  <2> QED BY <2>1 DEF PrefixInv, TargetIsPrefix, SuccessMeansCopied
<1>5. CASE Tick \/ UNCHANGED cvars
  BY <1>5 DEF Tick, cvars, copyVars, PrefixInv, TargetIsPrefix, SuccessMeansCopied, source, to
<1> QED BY <1>1, <1>2, <1>3, <1>4, <1>5 DEF CopyNext

LEMMA AlwaysPrefix == CopySpec => [](CopyTyped /\ PrefixInv)
<1>1. CopyInit => PrefixInv
  BY DEF CopyInit, PrefixInv, TargetIsPrefix, SuccessMeansCopied
<1>2. CopyTyped /\ PrefixInv /\ [CopyNext]_cvars => PrefixInv'
  BY StepPrefix
<1> QED BY <1>1, <1>2, CopyAlwaysTyped, PTL DEF CopySpec

\* While the copy is under way the target holds exactly the units read so far,
\* whatever the sizes of the reads, and never more than the source.
THEOREM CopyPrefix == CopySpec => []TargetIsPrefix
<1>1. PrefixInv => TargetIsPrefix
  BY DEF PrefixInv
<1> QED BY <1>1, AlwaysPrefix, PTL

\* A call that reports success has copied the whole file, its date and its mode,
\* as long as no status call fails.
THEOREM CopySuccess ==
    ASSUME "stat" \notin Faults
    PROVE  CopySpec => []SuccessMeansCopied
<1>1. PrefixInv => SuccessMeansCopied
  BY DEF PrefixInv
<1> QED BY <1>1, AlwaysPrefix, PTL

-----------------------------------------------------------------------------
(* The promise: each step of the function is one of CopyPromise's, or none. *)

\* The names of Files mean the same on both sides.
LEMMA SameNames ==
    /\ Promise!Side = Side
    /\ Promise!Entry = Entry
    /\ Promise!Result = Result
    /\ Promise!Opposite(from) = to
    /\ \A e, s : Promise!PartOf(e, s) <=> PartOf(e, s)
<1>1. Promise!Side = Side /\ Promise!Opposite(from) = to
  BY DEF Promise!Side, Side, Promise!Opposite, Opposite, to
<1>2. Promise!Entry = Entry
  BY DEF Promise!Entry, Entry, Promise!File, File
<1>3. Promise!Result = Result
  BY DEF Promise!Result, Result, Promise!CFD_DEST_FULL, CFD_DEST_FULL,
     Promise!CFD_SUCCESS, CFD_SUCCESS, Promise!CFD_OPEN_FAIL, CFD_OPEN_FAIL,
     Promise!CFD_CREATE_FAIL, CFD_CREATE_FAIL, Promise!CFD_READ_FAIL, CFD_READ_FAIL,
     Promise!CFD_WRITE_FAIL, CFD_WRITE_FAIL
<1>4. \A e, s : Promise!PartOf(e, s) <=> PartOf(e, s)
  BY DEF Promise!PartOf, PartOf
<1> QED BY <1>1, <1>2, <1>3, <1>4

\* A target that has become a longer prefix, or another of the same length, has
\* grown.
LEMMA LongerPrefix ==
    ASSUME source \in Seq(Version), Len(source) \in Nat,
           NEW k \in Nat, k <= Len(source),
           Len(fs[to].data) <= k,
           fs' \in [Side -> Entry], fs'[from] = fs[from],
           fs[from] # Absent, fs'[to] # Absent, from' = from,
           fs'[to].data = SubSeq(source, 1, k)
    PROVE  Promise!Grows
<1>1. Len(SubSeq(source, 1, k)) = k
  BY SubSeqProperties
<1>2. PartOf(fs'[to], fs[from]) /\ Len(fs[to].data) <= Len(fs'[to].data)
  BY <1>1 DEF PartOf, source
<1> QED BY <1>2, SameNames DEF Promise!Grows, Promise!SourceKept, Promise!Target, Promise!NewTarget

LEMMA WritingGrows ==
    ASSUME CopyTyped, TargetIsPrefix, pc = "copy", NEW n \in Nat,
           n # 0 => copied + n <= Len(source), from' = from,
           fs' = [fs EXCEPT ![to] = IF n = 0 THEN @ ELSE Appended(@, Units(n))]
    PROVE  Promise!Grows
<1>1. /\ source \in Seq(Version) /\ Len(source) \in Nat /\ copied \in Nat
  BY FilesThere
<1>2. copied + n \in Nat /\ copied <= copied + n
  BY <1>1
<1>3. fs[from] # Absent
  BY DEF TargetIsPrefix
<1> QED BY <1>1, <1>2, <1>3, WrittenPrefix, LongerPrefix

\* A target that is left alone, or only given another mode or date, has not
\* shrunk.
LEMMA StandingGrows ==
    ASSUME CopyTyped, PrefixInv, pc \in {"copy", "stamp"}, pc = "stamp" => "stat" \notin Faults,
           fs' \in [Side -> Entry], fs'[from] = fs[from], from' = from,
           fs'[to] # Absent, fs'[to].data = fs[to].data
    PROVE  Promise!Grows
<1>1. /\ source \in Seq(Version) /\ Len(source) \in Nat /\ copied \in Nat
  BY FilesThere
<1>2. fs[from] # Absent
  BY DEF CopyTyped, Underway
<1>3. CASE pc = "copy"
  <2>1. copied <= Len(source) /\ fs[to].data = SubSeq(source, 1, copied)
    BY <1>3 DEF PrefixInv, TargetIsPrefix, source
  <2>2. Len(SubSeq(source, 1, copied)) = copied
    BY <1>1, <2>1, SubSeqProperties
  <2> QED BY <1>1, <1>2, <2>1, <2>2, LongerPrefix
<1>4. CASE pc = "stamp"
  <2>1. fs[to].data = source
    BY <1>4 DEF PrefixInv
  <2>2. fs'[to].data = SubSeq(source, 1, Len(source))
    BY <1>1, <2>1, WholePrefix
  <2>3. Len(fs[to].data) <= Len(source)
    <3>1. Len(fs[to].data) = Len(source)
      BY <2>1
    <3> QED BY <1>1, <3>1
  <2> QED BY <1>1, <1>2, <2>2, <2>3, LongerPrefix
<1> QED BY <1>3, <1>4

LEMMA CutKeepsPromise ==
    ASSUME CopyTyped, CreateTarget \/ CreateOverflows
    PROVE  Promise!Cut \/ Promise!RefuseWhenFull
<1>1. fs' \in [Side -> Entry]
  BY CopyStepTyped DEF CopyStep, CopyTyped, CopyTypeOK
<1>2. Truncated(fs[to]) \in File /\ Truncated(fs[to]).data = <<>>
  BY Sides, TruncatedIsFile DEF CopyTyped, CopyTypeOK
<1>3. fs'[from] = fs[from] /\ fs'[to] = Truncated(fs[to]) /\ fs[from] # Absent
      /\ from' = from /\ pc = "create"
  BY Sides DEF CreateTarget, CreateOverflows, CopyTyped, CopyTypeOK, Underway
<1>4. fs'[to] # Absent /\ fs'[to].data = <<>>
  BY <1>2, <1>3, FilesAssumption
<1>5. Promise!SourceKept /\ Promise!NewTarget # Absent /\ Promise!NewTarget.data = <<>>
  BY <1>1, <1>3, <1>4, SameNames DEF Promise!SourceKept, Promise!NewTarget
<1>6. CASE CreateTarget
  <2>1. pc' = "copy" /\ result' = result
    BY <1>6 DEF CreateTarget
  <2> QED BY <1>3, <1>5, <2>1 DEF Promise!Cut
<1>7. CASE CreateOverflows
  <2>1. pc' = "returned" /\ result' = CFD_CREATE_FAIL /\ handles[to] = Slots[to]
    BY <1>7 DEF CreateOverflows, Return
  <2> QED BY <1>3, <1>5, <2>1 DEF Promise!RefuseWhenFull, Promise!CFD_CREATE_FAIL, CFD_CREATE_FAIL
<1> QED BY <1>6, <1>7

LEMMA FailureKeepsPromise ==
    ASSUME CopyTyped, PrefixInv, ReadFails \/ WriteFails \/ DiskFull
    PROVE  Promise!GiveUp
<1>1. pc = "copy" /\ pc' = "returned" /\ from' = from
  BY DEF ReadFails, WriteFails, DiskFull, Return
<1>2. result' \in Promise!Result \ {Promise!CFD_SUCCESS, Promise!CFD_CREATE_FAIL}
  BY DEF ReadFails, WriteFails, DiskFull, Return, Promise!Result, Promise!CFD_SUCCESS,
     Promise!CFD_CREATE_FAIL, Promise!CFD_DEST_FULL, Promise!CFD_OPEN_FAIL,
     Promise!CFD_READ_FAIL, Promise!CFD_WRITE_FAIL,
     CFD_DEST_FULL, CFD_OPEN_FAIL, CFD_READ_FAIL, CFD_WRITE_FAIL
<1>3. Promise!Grows
  <2>1. CASE ReadFails \/ DiskFull
    <3>1. fs' = fs /\ fs[to] # Absent /\ fs \in [Side -> Entry]
      BY <1>1, <2>1 DEF ReadFails, DiskFull, CopyTyped, CopyTypeOK, Underway
    <3> QED BY <1>1, <3>1, StandingGrows
  <2>2. CASE WriteFails
    <3>1. PICK n \in ReadCounts \ {0} : \E k \in 0..(n - 1) :
              fs' = [fs EXCEPT ![to] = IF k = 0 THEN @ ELSE Appended(@, Units(k))]
      BY <2>2 DEF WriteFails
    <3>2. n \in Nat /\ copied + n <= Len(source)
      BY <1>1, ReadIsWithin DEF CopyTyped, source
    <3>3. PICK k \in 0..(n - 1) :
              fs' = [fs EXCEPT ![to] = IF k = 0 THEN @ ELSE Appended(@, Units(k))]
      BY <3>1
    <3>4. k \in Nat /\ copied + k <= Len(source)
      BY <1>1, <3>2, FilesThere
    <3> QED BY <1>1, <3>3, <3>4, WritingGrows DEF PrefixInv
  <2> QED BY <2>1, <2>2
<1> QED BY <1>1, <1>2, <1>3 DEF Promise!GiveUp

LEMMA CopyingKeepsPromise ==
    ASSUME CopyTyped, PrefixInv, CopyChunk \/ Finish
    PROVE  Promise!Extend
<1>1. /\ pc = "copy" /\ pc' \in {"copy", "stamp"} /\ from' = from /\ result' = result
  BY DEF CopyChunk, Finish
<1>2. CASE CopyChunk
  <2>1. PICK n \in ReadCounts :
            fs' = [fs EXCEPT ![to] = IF n = 0 THEN @ ELSE Appended(@, Units(n))]
    BY <1>2 DEF CopyChunk
  <2>2. n \in Nat /\ (n # 0 => copied + n <= Len(source))
    BY <1>1, ReadIsWithin DEF CopyTyped, source
  <2>3. Promise!Grows
    BY <1>1, <2>1, <2>2, WritingGrows DEF PrefixInv
  <2> QED BY <1>1, <2>3 DEF Promise!Extend
<1>3. CASE Finish
  <2>1. fs'[from] = fs[from] /\ fs'[to] # Absent /\ fs'[to].data = fs[to].data
        /\ fs' \in [Side -> Entry]
    BY <1>3, FinishTyped DEF CopyTyped, CopyTypeOK
  <2>2. Promise!Grows
    BY <1>1, <2>1, StandingGrows
  <2> QED BY <1>1, <2>2 DEF Promise!Extend
<1> QED BY <1>2, <1>3

LEMMA StampKeepsPromise ==
    ASSUME CopyTyped, PrefixInv, Stamp, "stat" \notin Faults
    PROVE  Promise!Complete
<1>1. pc = "stamp" /\ pc' = "returned" /\ from' = from /\ result' = CFD_SUCCESS
  BY DEF Stamp, Return
<1>2. fs'[from] = fs[from] /\ fs'[to] # Absent /\ fs'[to].data = fs[to].data
      /\ fs' \in [Side -> Entry]
  BY FinishTyped DEF CopyTyped, CopyTypeOK
<1>3. fs[to].data = fs[from].data
  BY <1>1 DEF PrefixInv, source
<1>4. Promise!Grows
  BY <1>1, <1>2, StandingGrows
<1>5. Promise!NewTarget.data = fs[from].data
  BY <1>2, <1>3, SameNames DEF Promise!NewTarget
<1> QED BY <1>1, <1>4, <1>5 DEF Promise!Complete, Promise!CFD_SUCCESS, CFD_SUCCESS

\* The two refusals that leave everything as it was.
LEMMA RefusalKeepsPromise ==
    ASSUME OpenFails \/ CreateFails
    PROVE  Promise!Refuse
BY DEF OpenFails, CreateFails, Return, Promise!Refuse, Promise!CFD_OPEN_FAIL,
   Promise!CFD_CREATE_FAIL, CFD_OPEN_FAIL, CFD_CREATE_FAIL

LEMMA StepKeepsPromise ==
    ASSUME CopyTyped, PrefixInv, "stat" \notin Faults, [CopyNext]_cvars
    PROVE  [Promise!Next]_(Promise!promiseVars)
<1>1. CopyTyped'
  BY CopyStepTyped, InvokeTyped, LeftTyped, UserTyped, TickTyped, CopyStutterTyped
  DEF CopyNext, Call, Take, CopyCrash
<1>2. CASE OpenSource
  BY <1>2 DEF OpenSource, Promise!promiseVars
<1>3. CASE CopyStep
  BY <1>2, <1>3, RefusalKeepsPromise, CutKeepsPromise, FailureKeepsPromise,
     CopyingKeepsPromise, StampKeepsPromise
  DEF CopyStep, Promise!Next
<1>4. CASE Call
  <2>1. Promise!Begin
    BY <1>4, SameNames DEF Call, Invoke, Promise!Begin
  <2> QED BY <2>1 DEF Promise!Next
<1>5. CASE Take \/ CopyCrash
  <2>1. pc # "idle" /\ pc' = "idle" /\ fs' = fs /\ from' \in Side /\ result' \in Result
    BY <1>1, <1>5 DEF Take, CopyCrash, Resume, Die, Left, CopyTyped, CopyTypeOK
  <2>2. Promise!Leave
    BY <2>1, SameNames DEF Promise!Leave, CopyTyped, CopyTypeOK
  <2> QED BY <2>2 DEF Promise!Next
<1>6. CASE \E s \in Side : Edit(s) \/ Remove(s)
  <2>1. pc = "idle" /\ pc' = "idle" /\ from' = from /\ result' = result
        /\ fs' \in [Side -> Entry]
    BY <1>1, <1>6 DEF Edit, Remove, copyVars, CopyTyped, CopyTypeOK
  <2>2. Promise!Change
    BY <2>1, SameNames DEF Promise!Change
  <2> QED BY <2>2 DEF Promise!Next
<1>7. CASE Tick \/ UNCHANGED cvars
  BY <1>7 DEF Tick, cvars, copyVars, Promise!promiseVars
<1> QED BY <1>3, <1>4, <1>5, <1>6, <1>7 DEF CopyNext

LEMMA InitKeepsPromise ==
    ASSUME CopyTyped, CopyInit
    PROVE  Promise!Init
BY SameNames DEF CopyInit, CopyTyped, CopyTypeOK, Promise!Init

\* CopyFileToDest implements CopyPromise, as long as no status call fails: a
\* refused call costs nothing but the contents of a target its adapter had no
\* handle for, a target that was cut only grows along the source, and success
\* means all of it.
THEOREM CopyImplements ==
    ASSUME "stat" \notin Faults
    PROVE  CopySpec => KeepsPromise
<1>1. CopyInit => CopyTyped /\ Promise!Init
  BY CopyInitTyped, InitKeepsPromise
<1>2. CopyTyped /\ PrefixInv /\ [CopyNext]_cvars => [Promise!Next]_(Promise!promiseVars)
  BY StepKeepsPromise
<1> QED BY <1>1, <1>2, AlwaysPrefix, PTL DEF CopySpec, KeepsPromise, Promise!Spec
=============================================================================
