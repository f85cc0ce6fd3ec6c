--------------------------- MODULE ExcludeParser ---------------------------
(***************************************************************************)
(* ExcludeList: the patterns of a .ztexclude file, read in pieces into a   *)
(* buffer of Cap bytes, the piece of a line that a buffer ends in being    *)
(* moved to its front for the next one.                                    *)
(***************************************************************************)
EXTENDS Integers, Sequences, FiniteSetsExt

CONSTANTS
    Char,     \* the bytes of a file
    EOL,      \* those that end a line
    Blank,    \* those that string_trim removes
    NUL,      \* the byte 0, in no file
    Cap,      \* the length of Buffer, 2000; one more byte takes the final 0
    Texts,    \* the files
    Failing,  \* what may go wrong: "open", "stat", "short" and "read"
    ReadErrors \* what readFile returns if it fails: -1, or any of libssh2's codes

ASSUME ExcludeAssumption ==
    /\ EOL \subseteq Blank
    /\ Blank \subseteq Char
    /\ NUL \notin Char
    /\ Cap \in Nat \ {0}
    /\ Texts \subseteq Seq(Char)
    /\ Failing \subseteq {"open", "stat", "short", "read"}
    /\ ReadErrors \subseteq {n \in Int : n < 0}

VARIABLES
    text,        \* the file
    pc,
    fSize,       \* the local variables of the constructor
    iProcessed,
    iLeftover,
    Buffer,
    short,       \* iReadOctets # iToRead
    iBufSize,    \* the local variables of processBuffer
    bEndOfFile,
    iCur,
    patterns,    \* m_PatternList
    kept,        \* for the properties: has iLeftover always been what the last
                 \* buffer left over?
    outside      \* and the places outside of Buffer that were written to

file == <<text, fSize>>
vars == <<text, pc, fSize, iProcessed, iLeftover, Buffer, short,
          iBufSize, bEndOfFile, iCur, patterns, kept, outside>>

-----------------------------------------------------------------------------
\* string_trim.
Trim(s) ==
    LET solid == {i \in 1..Len(s) : s[i] \notin Blank}
    IN  IF solid = {} THEN <<>> ELSE SubSeq(s, Min(solid), Max(solid))

\* The bytes of Buffer from i up to, but without, j.
Piece(i, j) == [k \in 1..(j - i) |-> Buffer[i + k - 1]]

\* Mutant: blank lines are patterns too.
AddAny(s) == patterns' = patterns \cup {Trim(s)}

\* The order of the list, and patterns that are in it twice, make no difference
\* to isExcluded.
addToList(s) == patterns' = patterns \cup ({Trim(s)} \ {<<>>})

Open ==
    /\ pc = "open"
    /\ fSize' \in {Len(text)} \cup (IF "stat" \in Failing THEN {0} ELSE {})
    /\ pc' = IF fSize' = 0 THEN "done" ELSE "read"
    /\ UNCHANGED <<text, iProcessed, iLeftover, Buffer, short,
                   iBufSize, bEndOfFile, iCur, patterns, kept, outside>>

OpenFails ==
    /\ pc = "open"
    /\ "open" \in Failing
    /\ pc' = "done"
    /\ UNCHANGED <<file, iProcessed, iLeftover, Buffer, short,
                   iBufSize, bEndOfFile, iCur, patterns, kept, outside>>

\* Mutant: the room that is taken is forgotten.
WholeBuffer == IF fSize - iProcessed > Cap THEN Cap ELSE fSize - iProcessed

iToRead == IF fSize - iProcessed > Cap - iLeftover THEN Cap - iLeftover
                                                   ELSE fSize - iProcessed

\* What readFile may return: less than it was asked for is taken for an error.
ReadResults ==
    {iToRead}
    \cup (IF "short" \in Failing THEN 0..(iToRead - 1) ELSE {})
    \cup (IF "read" \in Failing THEN ReadErrors ELSE {})

\* The places that are written to if readFile returns n: those of n bytes behind
\* the leftover, and that of the 0 behind them. If the read failed there is only
\* the 0, on the leftover or in front of it.
Written(n) == {iLeftover + n} \cup (iLeftover..(iLeftover + n - 1))

\* Buffer after that. What a place outside of it belongs to is up to the
\* compiler: here nothing else changes.
Filled(n) ==
    [i \in 0..Cap |-> IF i = iLeftover + n THEN NUL
                      ELSE IF i >= iLeftover /\ i < iLeftover + n
                           THEN text[iProcessed + i - iLeftover + 1]
                           ELSE Buffer[i]]

Read ==
    /\ pc = "read"
    /\ \E n \in ReadResults :
          /\ Buffer' = Filled(n)
          /\ iBufSize' = iLeftover + n
          /\ iProcessed' = iProcessed + n
          /\ short' = (n # iToRead)
          /\ outside' = outside \cup (Written(n) \ 0..Cap)
    /\ bEndOfFile' = (iProcessed' >= fSize)
    /\ iCur' = 0
    /\ pc' = "scan"
    /\ UNCHANGED <<file, iLeftover, patterns, kept>>

-----------------------------------------------------------------------------
(* processBuffer.                                                          *)

\* Mutant: the end of the line is not passed over.
LineOnly ==
    /\ pc = "scan"
    /\ \E i \in iCur..(iBufSize - 1) :
          /\ Buffer[i] \in EOL
          /\ \A j \in iCur..(i - 1) : Buffer[j] \notin EOL
          /\ addToList(Piece(iCur, i))
          /\ iCur' = i
    /\ UNCHANGED <<file, pc, iProcessed, iLeftover, Buffer, short,
                   iBufSize, bEndOfFile, kept, outside>>

\* A line that ends at i; the next one begins at k, after any number of line
\* ends. The loop that looks for k knows nothing of iBufSize.
Line ==
    /\ pc = "scan"
    /\ \E i \in iCur..(iBufSize - 1) :
          /\ Buffer[i] \in EOL
          /\ \A j \in iCur..(i - 1) : Buffer[j] \notin EOL
          /\ addToList(Piece(iCur, i))
          /\ \E k \in i..Cap :
                /\ \A j \in i..(k - 1) : Buffer[j] \in EOL
                /\ Buffer[k] \notin EOL
                /\ iCur' = k
    /\ UNCHANGED <<file, pc, iProcessed, iLeftover, Buffer, short,
                   iBufSize, bEndOfFile, kept, outside>>

\* Back in the constructor.
Go == pc' = IF short \/ iProcessed >= fSize THEN "done" ELSE "read"

NoMoreLines ==
    /\ pc = "scan"
    /\ iCur < iBufSize
    /\ \A i \in iCur..(iBufSize - 1) : Buffer[i] \notin EOL

\* Mutant: a last line without an end is left out.
LastDropped ==
    /\ NoMoreLines
    /\ bEndOfFile
    /\ iLeftover' = 0
    /\ Go
    /\ UNCHANGED <<file, iProcessed, Buffer, short, iBufSize, bEndOfFile,
                   iCur, patterns, kept, outside>>

\* The last line of the file, which nothing ends.
LastPiece ==
    /\ NoMoreLines
    /\ bEndOfFile
    /\ addToList(Piece(iCur, iBufSize))
    /\ iLeftover' = 0
    /\ Go
    /\ UNCHANGED <<file, iProcessed, Buffer, short, iBufSize, bEndOfFile,
                   iCur, kept, outside>>

\* Mutant: the leftover is counted but not moved.
KeepInPlace ==
    /\ NoMoreLines
    /\ ~bEndOfFile
    /\ iLeftover' = iBufSize - iCur
    /\ Go
    /\ UNCHANGED <<file, iProcessed, Buffer, short, iBufSize, bEndOfFile,
                   iCur, patterns, kept, outside>>

\* A piece of a line is kept for the next buffer.
Keep ==
    /\ NoMoreLines
    /\ ~bEndOfFile
    /\ iLeftover' = iBufSize - iCur
    /\ Buffer' = [i \in 0..Cap |-> IF i < iBufSize - iCur THEN Buffer[iCur + i]
                                                          ELSE Buffer[i]]
    /\ Go
    /\ UNCHANGED <<file, iProcessed, short, iBufSize, bEndOfFile,
                   iCur, patterns, kept, outside>>

\* The buffer ends in a line end. iLeftover stays what it was before.
Consumed ==
    /\ pc = "scan"
    /\ iCur >= iBufSize
    /\ Go
    /\ kept' = (kept /\ (pc' = "done" \/ iLeftover = 0))
    /\ UNCHANGED <<file, iProcessed, iLeftover, Buffer, short,
                   iBufSize, bEndOfFile, iCur, patterns, outside>>

-----------------------------------------------------------------------------
Init ==
    /\ text \in Texts
    /\ pc = "open"
    /\ fSize = 0
    /\ iProcessed = 0
    /\ iLeftover = 0
    /\ Buffer = [i \in 0..Cap |-> NUL]
    /\ short = FALSE
    /\ iBufSize = 0
    /\ bEndOfFile = FALSE
    /\ iCur = 0
    /\ patterns = {}
    /\ kept = TRUE
    /\ outside = {}

Next == Open \/ OpenFails \/ Read \/ Line \/ LastPiece \/ Keep \/ Consumed

Spec == Init /\ [][Next]_vars /\ WF_vars(Next)

-----------------------------------------------------------------------------
(* Properties.                                                             *)

TypeOK ==
    /\ text \in Seq(Char)
    /\ pc \in {"open", "read", "scan", "done"}
    /\ fSize \in 0..Len(text)
    /\ iProcessed \in Int
    /\ iLeftover \in 0..Cap
    /\ Buffer \in [0..Cap -> Char \cup {NUL}]
    /\ short \in BOOLEAN
    /\ iBufSize \in Int
    /\ iBufSize <= Cap
    /\ iCur \in 0..Cap
    /\ bEndOfFile \in BOOLEAN
    /\ patterns \subseteq Seq(Char \cup {NUL}) \ {<<>>}
    /\ kept \in BOOLEAN
    /\ outside \subseteq Int

\* Neither the constructor nor processBuffer gets past the end of Buffer, stale
\* leftovers or not: the loop over line ends is stopped by the 0 behind the
\* data. In front of Buffer there is one write, in one case: a read fails with a
\* code that is lower than the leftover is long, and the constructor puts its 0
\* there all the same, once. Each read is of bytes that are in the file.
OutsideOnlyIfReadFails ==
    /\ outside = (IF iBufSize < 0 THEN {iBufSize} ELSE {})
    /\ iBufSize < 0 => short
    /\ iBufSize >= 0 => iCur <= iBufSize
    /\ pc = "scan" /\ iBufSize >= 0 => Buffer[iBufSize] = NUL
    /\ pc = "read" => iProcessed \in 0..(fSize - 1)

\* OutsideOnlyIfReadFails made inductive: a read that came up to its count is
\* not past the end of the file.
BufferInv ==
    /\ OutsideOnlyIfReadFails
    /\ iLeftover \in 0..Cap
    /\ iBufSize \in Int
    /\ iBufSize <= Cap
    /\ iCur \in 0..Cap
    /\ text \in Seq(Char)
    /\ fSize \in Nat
    /\ iProcessed \in Int
    /\ pc = "open" => iProcessed = 0
    /\ pc = "scan" /\ ~short => iProcessed \in 0..fSize
    /\ pc \in {"open", "read"} => iBufSize >= 0

\* The names in the lines of s, said of the whole of s at once. A line is given
\* by the two places that end and begin it.
EndsAt(s, i) == i \in {0, Len(s) + 1} \/ s[i] \in EOL

Lines(s) ==
    {e \in (0..Len(s)) \X (1..(Len(s) + 1)) :
        /\ e[1] < e[2]
        /\ EndsAt(s, e[1]) /\ EndsAt(s, e[2])
        /\ \A k \in (e[1] + 1)..(e[2] - 1) : ~EndsAt(s, k)}

Names(s) == {Trim(SubSeq(s, e[1] + 1, e[2] - 1)) : e \in Lines(s)} \ {<<>>}

Held == Piece(0, iLeftover)
Unread == SubSeq(text, iProcessed + 1, Len(text))

\* Between two buffers no name is lost, torn or invented: those of the file are
\* the ones found so far and those of what is left over and still to be read.
NothingLost == pc = "read" /\ kept => Names(text) = patterns \cup Names(Held \o Unread)

\* A file that was read to its end, and that no leftover got out of step,
\* excludes just the names in it.
ListIsExact == pc = "done" /\ kept /\ iProcessed = Len(text) => patterns = Names(text)

\* No line is as long as Buffer.
LinesFit ==
    \A i \in 1..(Len(text) - Cap + 1) : \E j \in i..(i + Cap - 1) : text[j] \in EOL

\* Reading ends if the lines fit, whatever reads fail or fall short, with one
\* exception: a stale leftover that fills Buffer. There is no room then for
\* another byte, and none of the leftover is ever given up.
ReadingEnds == LinesFit => <>(pc = "done") \/ <>[](~kept /\ iLeftover = Cap)

\* "This file can contain one or more names of folders or files present in this
\* folder, ONE PER LINE": if the lines fit, every name in the file is excluded
\* in the end.
NamesAreExcluded == LinesFit => <>(Names(text) \subseteq patterns)
=============================================================================
