------------------------ MODULE ExcludeParser_proofs ------------------------
(***************************************************************************)
(* The parser of .ztexclude, for every length of the buffer, every file    *)
(* and every failing read: where it writes to, and that the list that it   *)
(* makes of a file is exactly the names in the file's lines, however the   *)
(* buffers cut them.                                                       *)
(***************************************************************************)
EXTENDS ExcludeParser, SequenceTheorems, WellFoundedInduction, TLAPS

LEMMA InitBuffer ==
    ASSUME Init
    PROVE  BufferInv
BY ExcludeAssumption DEF Init, BufferInv, OutsideOnlyIfReadFails

LEMMA OpenBuffer ==
    ASSUME BufferInv, Open \/ OpenFails
    PROVE  BufferInv'
<1>1. Len(text) \in Nat
  BY DEF BufferInv
<1>2. CASE Open
  <2>1. fSize' = Len(text) \/ fSize' = 0
    BY <1>2 DEF Open
  <2>2. fSize' \in Nat
    BY <1>1, <2>1
  <2>3. pc' = IF fSize' = 0 THEN "done" ELSE "read"
    BY <1>2 DEF Open
  <2>4. /\ pc = "open"
        /\ UNCHANGED <<text, iProcessed, iLeftover, Buffer, short, iBufSize, iCur, outside>>
    BY <1>2 DEF Open
  <2>5. pc' = "read" => iProcessed' \in 0..(fSize' - 1)
    <3>1. iProcessed' = 0
      BY <2>4 DEF BufferInv
    <3>2. pc' = "read" => fSize' # 0
      BY <2>3
    <3>3. \A k \in Nat : k # 0 => 0 \in 0..(k - 1)
      OBVIOUS
    <3> QED BY <2>2, <3>1, <3>2, <3>3
  <2> QED BY <2>2, <2>3, <2>4, <2>5 DEF BufferInv, OutsideOnlyIfReadFails
<1>3. CASE OpenFails
  BY <1>3 DEF OpenFails, file, BufferInv, OutsideOnlyIfReadFails
<1> QED BY <1>2, <1>3

\* A read is asked for no more than the buffer has room for and the file has left.
LEMMA ReadFits ==
    ASSUME BufferInv, pc = "read", NEW n \in ReadResults
    PROVE  /\ iToRead \in Nat
           /\ n \in Int /\ n <= iToRead
           /\ iLeftover + n <= Cap
           /\ iProcessed + n <= fSize
<1>1. iToRead \in Nat /\ iLeftover + iToRead <= Cap /\ iProcessed + iToRead <= fSize
  BY ExcludeAssumption DEF BufferInv, OutsideOnlyIfReadFails, iToRead
<1>2. n \in Int /\ n <= iToRead
  BY <1>1, ExcludeAssumption DEF ReadResults
<1> QED BY <1>1, <1>2, ExcludeAssumption DEF BufferInv, OutsideOnlyIfReadFails

LEMMA ReadBuffer ==
    ASSUME BufferInv, Read
    PROVE  BufferInv'
<1>1. PICK n \in ReadResults : /\ Buffer' = Filled(n)
                               /\ iBufSize' = iLeftover + n
                               /\ iProcessed' = iProcessed + n
                               /\ short' = (n # iToRead)
                               /\ outside' = outside \cup (Written(n) \ 0..Cap)
  BY DEF Read
<1>2. /\ iToRead \in Nat /\ n \in Int /\ n <= iToRead
      /\ iLeftover + n <= Cap /\ iProcessed + n <= fSize
      /\ iLeftover \in 0..Cap /\ Cap \in Nat
  BY ReadFits, ExcludeAssumption DEF Read, BufferInv
<1>3. iBufSize' >= 0 => Buffer'[iBufSize'] = NUL
  BY <1>1, <1>2 DEF Filled
<1>4. ~short' => iProcessed' \in 0..fSize
  <2>1. ~short' => n = iToRead
    BY <1>1
  <2> QED BY <1>1, <1>2, <2>1 DEF BufferInv, OutsideOnlyIfReadFails, Read
<1>5. /\ pc' = "scan" /\ iCur' = 0
      /\ UNCHANGED <<text, fSize, iLeftover>>
  BY DEF Read, file
<1>6. iBufSize' \in Int /\ iBufSize' <= Cap /\ iProcessed' \in Int
  BY <1>1, <1>2 DEF BufferInv
<1>7. outside' = (IF iBufSize' < 0 THEN {iBufSize'} ELSE {})
  <2>1. outside = {}
    BY DEF Read, BufferInv, OutsideOnlyIfReadFails
  <2>2. \A i \in iLeftover..(iLeftover + n - 1) : i \in 0..Cap
    BY <1>2
  <2>3. Written(n) \ 0..Cap = {iLeftover + n} \ 0..Cap
    BY <2>2 DEF Written
  <2>4. iLeftover + n \in 0..Cap <=> ~(iLeftover + n < 0)
    BY <1>2
  <2> QED BY <1>1, <2>1, <2>3, <2>4
<1>8. iBufSize' < 0 => short'
  <2>1. iLeftover + n < 0 => n # iToRead
    BY <1>2
  <2> QED BY <1>1, <2>1
<1>9. OutsideOnlyIfReadFails'
  BY <1>2, <1>3, <1>5, <1>6, <1>7, <1>8 DEF OutsideOnlyIfReadFails
<1> QED BY <1>2, <1>4, <1>5, <1>6, <1>9 DEF BufferInv

\* The loop that passes over line ends stops at the 0 behind the data, if not
\* before.
LEMMA LineEnds ==
    ASSUME BufferInv, Line
    PROVE  /\ iBufSize \in 0..Cap
           /\ \E i \in iCur..(iBufSize - 1), k \in 0..Cap :
                 /\ i < k /\ k <= iBufSize
                 /\ \A j \in iCur..(i - 1) : Buffer[j] \notin EOL
                 /\ \A j \in i..(k - 1) : Buffer[j] \in EOL
                 /\ addToList(Piece(iCur, i))
                 /\ iCur' = k
<1>1. PICK i \in iCur..(iBufSize - 1) :
          /\ Buffer[i] \in EOL
          /\ \A j \in iCur..(i - 1) : Buffer[j] \notin EOL
          /\ addToList(Piece(iCur, i))
          /\ \E k \in i..Cap :
                /\ \A j \in i..(k - 1) : Buffer[j] \in EOL
                /\ Buffer[k] \notin EOL
                /\ iCur' = k
  BY DEF Line
<1>2. PICK k \in i..Cap :
          /\ \A j \in i..(k - 1) : Buffer[j] \in EOL
          /\ Buffer[k] \notin EOL
          /\ iCur' = k
  BY <1>1
<1>3. iBufSize \in 0..Cap /\ Buffer[iBufSize] = NUL /\ NUL \notin EOL /\ iCur \in 0..Cap
  BY <1>2, ExcludeAssumption DEF Line, BufferInv, OutsideOnlyIfReadFails
<1>4. k <= iBufSize
  <2> SUFFICES ASSUME k > iBufSize
               PROVE  FALSE
    BY <1>2, <1>3, ExcludeAssumption
  <2>1. iBufSize \in i..(k - 1)
    BY <1>2, <1>3, ExcludeAssumption
  <2> QED BY <1>2, <1>3, <2>1
<1>5. i < k /\ k \in 0..Cap
  <2>1. i # k
    BY <1>1, <1>2
  <2> QED BY <1>3, <2>1, ExcludeAssumption
<1> QED BY <1>1, <1>2, <1>3, <1>4, <1>5

LEMMA LineBuffer ==
    ASSUME BufferInv, Line
    PROVE  BufferInv'
<1>1. PICK k \in 0..Cap : k <= iBufSize /\ iCur' = k
  BY LineEnds
<1> QED BY <1>1, LineEnds, ExcludeAssumption DEF Line, file, BufferInv, OutsideOnlyIfReadFails

\* Only a whole read is followed by another one.
LEMMA EndBuffer ==
    ASSUME BufferInv, LastPiece \/ Keep \/ Consumed
    PROVE  BufferInv'
<1>1. /\ pc = "scan" /\ Go
      /\ UNCHANGED <<text, fSize, iProcessed, short, iBufSize, iCur, outside>>
  BY DEF LastPiece, Keep, Consumed, NoMoreLines, file
<1>2. pc' \in {"read", "done"} /\ (pc' = "read" => iProcessed \in 0..(fSize - 1))
  BY <1>1 DEF Go, BufferInv
<1>3. iLeftover' \in 0..Cap
  BY ExcludeAssumption DEF LastPiece, Keep, Consumed, NoMoreLines, BufferInv, OutsideOnlyIfReadFails
<1>4. pc' = "read" => iBufSize >= 0
  <2>1. pc' = "read" => ~short
    BY <1>1 DEF Go
  <2> QED BY <2>1 DEF BufferInv, OutsideOnlyIfReadFails
<1>5. OutsideOnlyIfReadFails'
  BY <1>1, <1>2 DEF BufferInv, OutsideOnlyIfReadFails
<1> QED BY <1>1, <1>2, <1>3, <1>4, <1>5 DEF BufferInv

LEMMA BufferStep ==
    ASSUME BufferInv, [Next]_vars
    PROVE  BufferInv'
<1>1. CASE Next
  BY <1>1, OpenBuffer, ReadBuffer, LineBuffer, EndBuffer DEF Next
<1>2. CASE UNCHANGED vars
  BY <1>2 DEF vars, BufferInv, OutsideOnlyIfReadFails
<1> QED BY <1>1, <1>2

\* Neither the constructor of ExcludeList nor processBuffer gets past the end of
\* the buffer or of the file, and the one place in front of the buffer that is
\* ever written to is that of the 0 behind a read that failed.
THEOREM ExcludeOutside == Spec => []OutsideOnlyIfReadFails
<1>1. Init => BufferInv
  BY InitBuffer
<1>2. BufferInv /\ [Next]_vars => BufferInv'
  BY BufferStep
<1>3. BufferInv => OutsideOnlyIfReadFails
  BY DEF BufferInv
<1> QED BY <1>1, <1>2, <1>3, PTL DEF Spec
-----------------------------------------------------------------------------
(* Trimming.                                                               *)

\* Every set of numbers that is not empty has a least one.
LEMMA Least ==
    ASSUME NEW S \in SUBSET Nat, S # {}
    PROVE  \E m \in S : \A n \in S : m <= n
<1> DEFINE Less == {p \in Nat \X Nat : p[1] < p[2]}
<1>1. IsWellFoundedOn(Less, Nat)
  BY NatLessThanWellFounded DEF OpToRel
<1> HIDE DEF Less
<1>2. PICK m \in S : \A n \in S : <<n, m>> \notin Less
  BY <1>1, WFMin
<1>3. \A n \in S : ~(n < m)
  BY <1>2 DEF Less
<1>4. m \in Nat /\ \A n \in S : n \in Nat
  OBVIOUS
<1>5. \A n \in Nat : ~(n < m) => m <= n
  BY <1>4
<1> QED BY <1>3, <1>4, <1>5

LEMMA Bounds ==
    ASSUME NEW n \in Nat, NEW S \in SUBSET (1..n), S # {}
    PROVE  Min(S) \in 1..n /\ Max(S) \in 1..n /\ Min(S) <= Max(S)
<1>0. \A x \in S : x \in 1..n /\ x \in Nat /\ n - x \in Nat
  OBVIOUS
<1>1. PICK a \in S : \A x \in S : a <= x
  BY <1>0, Least
<1>2. PICK b \in S : \A x \in S : b >= x
  <2> DEFINE Co == {n - x : x \in S}
  <2>1. Co \in SUBSET Nat /\ Co # {}
    BY <1>0
  <2>2. PICK c \in Co : \A y \in Co : c <= y
    BY <2>1, Least
  <2>3. PICK x \in S : c = n - x
    OBVIOUS
  <2>4. \A y \in S : n - x <= n - y
    BY <2>2, <2>3
  <2>5. \A y \in S : x >= y
    BY <1>0, <2>4
  <2> QED BY <2>5
<1>3. Min(S) \in S /\ \A x \in S : Min(S) <= x
  BY <1>1 DEF Min
<1>4. Max(S) \in S /\ \A x \in S : Max(S) >= x
  BY <1>2 DEF Max
<1> QED BY <1>0, <1>3, <1>4

\* What is left of a line is part of it.
LEMMA TrimType ==
    ASSUME NEW C, NEW s \in Seq(C)
    PROVE  Trim(s) \in Seq(C)
<1> DEFINE solid == {i \in 1..Len(s) : s[i] \notin Blank}
<1>1. CASE solid = {}
  BY <1>1, EmptySeq DEF Trim
<1>2. CASE solid # {}
  <2>1. Min(solid) \in 1..Len(s) /\ Max(solid) \in 1..Len(s)
    BY <1>2, Bounds, LenProperties
  <2>2. \A i \in Min(solid)..Max(solid) : s[i] \in C
    BY <2>1, ElementOfSeq, LenProperties
  <2>3. SubSeq(s, Min(solid), Max(solid)) \in Seq(C)
    BY <2>1, <2>2, SubSeqProperties
  <2> QED BY <1>2, <2>3 DEF Trim
<1> QED BY <1>1, <1>2

LEMMA TrimNone == Trim(<<>>) = <<>>
BY EmptySeq DEF Trim

-----------------------------------------------------------------------------
(* The names in a sequence of bytes.                                       *)

\* What a file is made of, and a buffer.
Byte == Char \cup {NUL}

\* Two ways to say that a name is in s.
LEMMA InNames ==
    ASSUME NEW s
    PROVE  /\ \A e \in Lines(s) :
                  Trim(SubSeq(s, e[1] + 1, e[2] - 1)) \in Names(s) \cup {<<>>}
           /\ \A v \in Names(s) : \E a \in 0..Len(s), b \in 1..(Len(s) + 1) :
                  <<a, b>> \in Lines(s) /\ v # <<>> /\ v = Trim(SubSeq(s, a + 1, b - 1))
<1>1. \A e \in Lines(s) : Trim(SubSeq(s, e[1] + 1, e[2] - 1)) \in Names(s) \cup {<<>>}
  BY DEF Names
<1>2. ASSUME NEW v \in Names(s)
      PROVE  \E a \in 0..Len(s), b \in 1..(Len(s) + 1) :
                  <<a, b>> \in Lines(s) /\ v # <<>> /\ v = Trim(SubSeq(s, a + 1, b - 1))
  <2>1. PICK e \in Lines(s) : v = Trim(SubSeq(s, e[1] + 1, e[2] - 1)) /\ v # <<>>
    BY <1>2 DEF Names
  <2>2. PICK a \in 0..Len(s), b \in 1..(Len(s) + 1) : e = <<a, b>>
    BY DEF Lines
  <2> QED BY <2>1, <2>2
<1> QED BY <1>1, <1>2

\* There is no name where there is nothing.
LEMMA NamesOfNone ==
    ASSUME NEW s
    PROVE  Len(s) = 0 => Names(s) = {}
<1>1. ASSUME NEW v \in Names(s)
      PROVE  \E a \in 0..Len(s), b \in 1..(Len(s) + 1) :
                 <<a, b>> \in Lines(s) /\ v # <<>> /\ v = Trim(SubSeq(s, a + 1, b - 1))
  BY InNames
<1>2. ASSUME Len(s) = 0, NEW a \in 0..Len(s), NEW b \in 1..(Len(s) + 1)
      PROVE  Trim(SubSeq(s, a + 1, b - 1)) = <<>>
  <2>1. SubSeq(s, a + 1, b - 1) = <<>>
    BY <1>2, SubSeqEmpty
  <2> QED BY <2>1, TrimNone
<1> QED BY <1>1, <1>2

\* Without an end of line all is one line.
LEMMA NamesOfOne ==
    ASSUME NEW s \in Seq(Byte), \A i \in 1..Len(s) : s[i] \notin EOL
    PROVE  Names(s) = {Trim(s)} \ {<<>>}
<1>0. Len(s) \in Nat
  BY LenProperties
<1>1. \A i \in 0..(Len(s) + 1) : EndsAt(s, i) <=> i \in {0, Len(s) + 1}
  BY <1>0 DEF EndsAt
<1>2. Lines(s) = {<<0, Len(s) + 1>>}
  <2>1. <<0, Len(s) + 1>> \in Lines(s)
    <3>1. \A k \in 1..Len(s) : ~EndsAt(s, k)
      BY <1>0, <1>1
    <3> QED BY <1>0, <1>1, <3>1 DEF Lines
  <2>2. ASSUME NEW a \in 0..Len(s), NEW b \in 1..(Len(s) + 1), <<a, b>> \in Lines(s)
        PROVE  a = 0 /\ b = Len(s) + 1
    <3>1. EndsAt(s, a) /\ EndsAt(s, b)
      BY <2>2 DEF Lines
    <3> QED BY <1>0, <1>1, <3>1
  <2>3. \A e \in Lines(s) : \E a \in 0..Len(s), b \in 1..(Len(s) + 1) : e = <<a, b>>
    BY DEF Lines
  <2> QED BY <2>1, <2>2, <2>3
<1>3. SubSeq(s, 1, Len(s)) = s
  BY SubSeqFull
<1>4. {Trim(SubSeq(s, e[1] + 1, e[2] - 1)) : e \in Lines(s)} = {Trim(s)}
  <2> DEFINE e == <<0, Len(s) + 1>>
  <2>1. e[1] + 1 = 1 /\ e[2] - 1 = Len(s)
    BY <1>0
  <2> HIDE DEF e
  <2>2. Trim(SubSeq(s, e[1] + 1, e[2] - 1)) = Trim(s)
    BY <1>3, <2>1
  <2>3. Lines(s) = {e}
    BY <1>2 DEF e
  <2> QED BY <2>2, <2>3
<1> QED BY <1>4 DEF Names

\* The rest of s from k on: a place in it is one of s, k - 1 further on.
LEMMA RestOf ==
    ASSUME NEW s \in Seq(Byte), NEW k \in 1..(Len(s) + 1),
           NEW t, t = SubSeq(s, k, Len(s))
    PROVE  /\ t \in Seq(Byte) /\ Len(t) = Len(s) - k + 1
           /\ \A i \in 1..Len(t) : t[i] = s[i + k - 1]
           /\ \A i \in 1..(Len(t) + 1) : EndsAt(t, i) <=> EndsAt(s, i + k - 1)
           /\ \A a \in 0..Len(t), b \in 1..(Len(t) + 1) :
                  SubSeq(t, a + 1, b - 1) = SubSeq(s, a + k, b + k - 2)
<1>1. Len(s) \in Nat
  BY LenProperties
<1>2. \A i \in k..Len(s) : s[i] \in Byte
  BY <1>1, ElementOfSeq
<1>3. t \in Seq(Byte) /\ Len(t) = Len(s) - k + 1 /\ \A i \in 1..Len(t) : t[i] = s[i + k - 1]
  BY <1>1, <1>2, SubSeqProperties
<1>4. ASSUME NEW i \in 1..(Len(t) + 1)
      PROVE  EndsAt(t, i) <=> EndsAt(s, i + k - 1)
  <2>1. CASE i = Len(t) + 1
    <3>1. i + k - 1 = Len(s) + 1
      BY <1>1, <1>3, <2>1
    <3> QED BY <2>1, <3>1 DEF EndsAt
  <2>2. CASE i # Len(t) + 1
    <3>1. i \in 1..Len(t) /\ i + k - 1 \in 1..Len(s)
      BY <1>1, <1>3, <2>2
    <3>2. t[i] = s[i + k - 1]
      BY <1>3, <3>1
    <3>3. i \notin {0, Len(t) + 1} /\ i + k - 1 \notin {0, Len(s) + 1}
      BY <1>1, <1>3, <3>1
    <3> QED BY <3>2, <3>3 DEF EndsAt
  <2> QED BY <2>1, <2>2
<1>5. ASSUME NEW a \in 0..Len(t), NEW b \in 1..(Len(t) + 1)
      PROVE  SubSeq(t, a + 1, b - 1) = SubSeq(s, a + k, b + k - 2)
  <2> DEFINE u == SubSeq(t, a + 1, b - 1)
             v == SubSeq(s, a + k, b + k - 2)
  <2>1. \A i \in (a + 1)..(b - 1) : t[i] \in Byte
    BY <1>1, <1>3, ElementOfSeq
  <2>2. /\ u \in Seq(Byte) /\ Len(u) = IF a + 1 <= b - 1 THEN b - 1 - (a + 1) + 1 ELSE 0
        /\ \A i \in 1..(b - 1 - (a + 1) + 1) : u[i] = t[a + 1 + i - 1]
    BY <1>1, <1>3, <2>1, SubSeqProperties
  <2>3. \A i \in (a + k)..(b + k - 2) : s[i] \in Byte
    BY <1>1, <1>3, ElementOfSeq
  <2>4. /\ v \in Seq(Byte) /\ Len(v) = IF a + k <= b + k - 2 THEN b + k - 2 - (a + k) + 1 ELSE 0
        /\ \A i \in 1..(b + k - 2 - (a + k) + 1) : v[i] = s[a + k + i - 1]
    BY <1>1, <1>3, <2>3, SubSeqProperties
  <2> HIDE DEF u, v
  <2>5. Len(u) = Len(v)
    BY <1>1, <1>3, <2>2, <2>4
  <2>6. \A i \in 1..Len(u) : u[i] = v[i]
    BY <1>1, <1>3, <2>2, <2>4
  <2>7. u = v
    BY <2>2, <2>4, <2>5, <2>6, SeqEqual
  <2> QED BY <2>7 DEF u, v
<1> QED BY <1>1, <1>3, <1>4, <1>5

\* What processBuffer does with a line: the names of s are that of its first
\* line, if it has one, and those of what follows the line ends.
LEMMA NamesOfFirst ==
    ASSUME NEW s \in Seq(Byte), NEW i \in 1..Len(s), NEW k \in (i + 1)..(Len(s) + 1),
           \A j \in 1..(i - 1) : s[j] \notin EOL,
           \A j \in i..(k - 1) : s[j] \in EOL
    PROVE  Names(s) = ({Trim(SubSeq(s, 1, i - 1))} \ {<<>>}) \cup Names(SubSeq(s, k, Len(s)))
<1> DEFINE t == SubSeq(s, k, Len(s))
           first == Trim(SubSeq(s, 1, i - 1))
<1>0. Len(s) \in Nat /\ k \in 1..(Len(s) + 1)
  BY LenProperties
<1>d. t = SubSeq(s, k, Len(s))
  OBVIOUS
<1> HIDE DEF t
<1>1. /\ t \in Seq(Byte) /\ Len(t) = Len(s) - k + 1
      /\ \A j \in 1..(Len(t) + 1) : EndsAt(t, j) <=> EndsAt(s, j + k - 1)
      /\ \A a \in 0..Len(t), b \in 1..(Len(t) + 1) :
             SubSeq(t, a + 1, b - 1) = SubSeq(s, a + k, b + k - 2)
  <2>1. t \in Seq(Byte)
    BY <1>0, <1>d, RestOf
  <2>2. Len(t) = Len(s) - k + 1
    BY <1>0, <1>d, RestOf
  <2>3. \A j \in 1..(Len(t) + 1) : EndsAt(t, j) <=> EndsAt(s, j + k - 1)
    BY <1>0, <1>d, RestOf
  <2>4. \A a \in 0..Len(t), b \in 1..(Len(t) + 1) :
             SubSeq(t, a + 1, b - 1) = SubSeq(s, a + k, b + k - 2)
    BY <1>0, <1>d, RestOf
  <2> QED BY <2>1, <2>2, <2>3, <2>4
<1>2. /\ \A j \in 1..(i - 1) : ~EndsAt(s, j)
      /\ \A j \in i..(k - 1) : EndsAt(s, j)
      /\ EndsAt(s, 0) /\ EndsAt(t, 0)
  BY <1>0 DEF EndsAt
<1>3. ASSUME NEW a \in 0..Len(s), NEW b \in 1..(Len(s) + 1), <<a, b>> \in Lines(s),
             Trim(SubSeq(s, a + 1, b - 1)) # <<>>
      PROVE  Trim(SubSeq(s, a + 1, b - 1)) \in {first} \cup Names(t)
  <2>1. a < b /\ EndsAt(s, a) /\ EndsAt(s, b) /\ \A j \in (a + 1)..(b - 1) : ~EndsAt(s, j)
    BY <1>3 DEF Lines
  <2>2. CASE a = 0
    <3>1. b = i
      BY <1>0, <1>2, <2>1, <2>2
    <3> QED BY <2>2, <3>1
  <2>3. CASE a \in 1..(k - 2)
    <3>1. a + 1 \in i..(k - 1)
      BY <1>0, <1>2, <2>1, <2>3
    <3>2. b = a + 1
      BY <1>0, <1>2, <2>1, <3>1
    <3>3. SubSeq(s, a + 1, b - 1) = <<>>
      BY <1>0, <3>2, SubSeqEmpty
    <3> QED BY <1>3, <3>3, TrimNone
  <2>4. CASE a >= k - 1
    <3> DEFINE c == a - k + 1
               d == b - k + 1
    <3>1. c \in 0..Len(t) /\ d \in 1..(Len(t) + 1) /\ c < d /\ c + k - 1 = a /\ d + k - 1 = b
      BY <1>0, <1>1, <2>1, <2>4
    <3>2. EndsAt(t, c) /\ EndsAt(t, d)
      <4>1. CASE c = 0
        BY <1>1, <1>2, <2>1, <3>1, <4>1
      <4>2. CASE c # 0
        BY <1>0, <1>1, <2>1, <3>1, <4>2
      <4> QED BY <4>1, <4>2
    <3>3. \A j \in (c + 1)..(d - 1) : ~EndsAt(t, j)
      <4> TAKE j \in (c + 1)..(d - 1)
      <4>1. j \in 1..(Len(t) + 1) /\ j + k - 1 \in (a + 1)..(b - 1)
        BY <1>0, <1>1, <3>1
      <4> QED BY <1>1, <2>1, <4>1
    <3>4. <<c, d>> \in Lines(t)
      BY <3>1, <3>2, <3>3 DEF Lines
    <3>5. SubSeq(t, c + 1, d - 1) = SubSeq(s, a + 1, b - 1)
      <4>1. SubSeq(t, c + 1, d - 1) = SubSeq(s, c + k, d + k - 2)
        BY <1>1, <3>1
      <4>2. c + k = a + 1 /\ d + k - 2 = b - 1
        BY <1>0
      <4> QED BY <4>1, <4>2
    <3>6. Trim(SubSeq(t, c + 1, d - 1)) \in Names(t) \cup {<<>>}
      BY <1>1, <3>4, InNames
    <3> QED BY <1>3, <3>5, <3>6
  <2> QED BY <1>0, <2>2, <2>3, <2>4
<1>4. first \in Names(s) \cup {<<>>}
  <2>1. <<0, i>> \in Lines(s)
    <3>1. EndsAt(s, i)
      BY <1>2
    <3>2. \A j \in (0 + 1)..(i - 1) : ~EndsAt(s, j)
      BY <1>2
    <3> QED BY <1>0, <1>2, <3>1, <3>2 DEF Lines
  <2>2. Trim(SubSeq(s, 0 + 1, i - 1)) \in Names(s) \cup {<<>>}
    BY <2>1, InNames
  <2> QED BY <2>2
<1>5. ASSUME NEW c \in 0..Len(t), NEW d \in 1..(Len(t) + 1), <<c, d>> \in Lines(t)
      PROVE  Trim(SubSeq(t, c + 1, d - 1)) \in Names(s) \cup {<<>>}
  <2> DEFINE a == c + k - 1
             b == d + k - 1
  <2>1. c < d /\ EndsAt(t, c) /\ EndsAt(t, d) /\ \A j \in (c + 1)..(d - 1) : ~EndsAt(t, j)
    BY <1>5 DEF Lines
  <2>2. a \in 0..Len(s) /\ b \in 1..(Len(s) + 1) /\ a < b
    BY <1>0, <1>1, <2>1
  <2>3. EndsAt(s, a) /\ EndsAt(s, b)
    <3>1. CASE c = 0
      <4>1. a \in i..(k - 1)
        BY <1>0, <3>1
      <4> QED BY <1>1, <1>2, <2>1, <4>1
    <3>2. CASE c # 0
      BY <1>0, <1>1, <2>1, <3>2
    <3> QED BY <3>1, <3>2
  <2>4. \A j \in (a + 1)..(b - 1) : ~EndsAt(s, j)
    <3> TAKE j \in (a + 1)..(b - 1)
    <3>1. j - k + 1 \in (c + 1)..(d - 1) /\ j - k + 1 \in 1..(Len(t) + 1) /\ j - k + 1 + k - 1 = j
      BY <1>0, <1>1
    <3> QED BY <1>1, <2>1, <3>1
  <2>5. <<a, b>> \in Lines(s)
    BY <2>2, <2>3, <2>4 DEF Lines
  <2>6. Trim(SubSeq(s, a + 1, b - 1)) \in Names(s) \cup {<<>>}
    BY <2>5, InNames
  <2>7. SubSeq(t, c + 1, d - 1) = SubSeq(s, a + 1, b - 1)
    <3>1. SubSeq(t, c + 1, d - 1) = SubSeq(s, c + k, d + k - 2)
      BY <1>1
    <3>2. c + k = a + 1 /\ d + k - 2 = b - 1
      BY <1>0, <1>1
    <3> QED BY <3>1, <3>2
  <2> QED BY <2>6, <2>7
<1>6. ASSUME NEW v \in Names(s)
      PROVE  v # <<>> /\ v \in {first} \cup Names(t)
  <2>1. PICK a \in 0..Len(s), b \in 1..(Len(s) + 1) :
            <<a, b>> \in Lines(s) /\ v # <<>> /\ v = Trim(SubSeq(s, a + 1, b - 1))
    BY InNames
  <2> QED BY <1>3, <2>1
<1>7. ASSUME NEW v \in Names(t)
      PROVE  v \in Names(s)
  <2>1. PICK a \in 0..Len(t), b \in 1..(Len(t) + 1) :
            <<a, b>> \in Lines(t) /\ v # <<>> /\ v = Trim(SubSeq(t, a + 1, b - 1))
    BY <1>1, InNames
  <2> QED BY <1>5, <2>1
<1> HIDE DEF first
<1>8. <<>> \notin Names(s)
  BY DEF Names
<1>9. Names(s) = ({first} \ {<<>>}) \cup Names(t)
  BY <1>4, <1>6, <1>7, <1>8
<1> QED BY <1>9 DEF first, t

-----------------------------------------------------------------------------
(* Types.                                                                  *)

LEMMA PieceOf ==
    ASSUME NEW B \in [0..Cap -> Byte], NEW i \in 0..Cap, NEW j \in i..Cap
    PROVE  LET b == [k \in 1..(j - i) |-> B[i + k - 1]]
           IN  /\ b \in Seq(Byte)
               /\ Len(b) = j - i
               /\ \A m \in 1..(j - i) : b[m] = B[i + m - 1]
<1>1. j - i \in Nat
  OBVIOUS
<1>2. \A k \in 1..(j - i) : i + k - 1 \in 0..Cap
  BY ExcludeAssumption
<1> QED BY <1>1, <1>2

LEMMA PieceType ==
    ASSUME Buffer \in [0..Cap -> Byte], NEW i \in 0..Cap, NEW j \in i..Cap
    PROVE  /\ Piece(i, j) \in Seq(Byte)
           /\ Len(Piece(i, j)) = j - i
           /\ \A k \in 1..(j - i) : Piece(i, j)[k] = Buffer[i + k - 1]
BY PieceOf DEF Piece

\* A name that is added is one of a piece of the buffer.
LEMMA AddType ==
    ASSUME TypeOK, NEW i \in 0..Cap, NEW j \in i..Cap, addToList(Piece(i, j))
    PROVE  patterns' \subseteq Seq(Char \cup {NUL}) \ {<<>>}
<1>1. Piece(i, j) \in Seq(Byte)
  BY PieceType DEF TypeOK, Byte
<1>2. Trim(Piece(i, j)) \in Seq(Byte)
  BY <1>1, TrimType
<1> QED BY <1>2 DEF TypeOK, Byte, addToList

LEMMA FilledType ==
    ASSUME TypeOK, BufferInv, pc = "read", NEW n \in ReadResults
    PROVE  Filled(n) \in [0..Cap -> Char \cup {NUL}]
<1>1. iToRead \in Nat /\ n \in Int /\ n <= iToRead /\ iToRead <= fSize - iProcessed
  BY ReadFits, ExcludeAssumption DEF BufferInv, OutsideOnlyIfReadFails, iToRead
<1>2. Len(text) \in Nat /\ iLeftover \in 0..Cap /\ iProcessed \in 0..(fSize - 1) /\ fSize \in 0..Len(text)
  BY LenProperties DEF TypeOK, BufferInv, OutsideOnlyIfReadFails
<1>3. ASSUME NEW i \in 0..Cap, i >= iLeftover, i < iLeftover + n
      PROVE  text[iProcessed + i - iLeftover + 1] \in Char
  <2>1. iProcessed + i - iLeftover + 1 \in 1..Len(text)
    BY <1>1, <1>2, <1>3
  <2> QED BY <2>1, ElementOfSeq DEF TypeOK
<1> QED BY <1>1, <1>2, <1>3 DEF Filled, TypeOK

LEMMA InitType ==
    ASSUME Init
    PROVE  TypeOK
BY ExcludeAssumption, LenProperties DEF Init, TypeOK

LEMMA TypeStep ==
    ASSUME TypeOK, BufferInv, [Next]_vars
    PROVE  TypeOK'
<1>0. Len(text) \in Nat
  BY LenProperties DEF TypeOK
<1>a. BufferInv'
  BY BufferStep
<1>b. /\ iLeftover' \in 0..Cap /\ iBufSize' \in Int /\ iBufSize' <= Cap
      /\ iCur' \in 0..Cap /\ outside' \subseteq Int
  BY <1>a DEF BufferInv, OutsideOnlyIfReadFails
<1>1. CASE Open \/ OpenFails
  BY <1>0, <1>b, <1>1 DEF Open, OpenFails, file, TypeOK
<1>2. CASE Read
  <2>1. PICK n \in ReadResults : /\ Buffer' = Filled(n)
                                 /\ iProcessed' = iProcessed + n
                                 /\ short' = (n # iToRead)
    BY <1>2 DEF Read
  <2>2. Filled(n) \in [0..Cap -> Char \cup {NUL}] /\ n \in Int
    BY <1>2, FilledType, ReadFits DEF Read
  <2>3. bEndOfFile' \in BOOLEAN /\ pc' = "scan" /\ UNCHANGED <<text, fSize, patterns, kept>>
    BY <1>2 DEF Read, file
  <2> QED BY <1>b, <2>1, <2>2, <2>3 DEF TypeOK
<1>3. CASE Line
  <2>1. PICK i \in iCur..(iBufSize - 1) : addToList(Piece(iCur, i))
    BY <1>3 DEF Line
  <2>2. iCur \in 0..Cap /\ i \in iCur..Cap
    BY ExcludeAssumption DEF BufferInv, OutsideOnlyIfReadFails
  <2>3. patterns' \subseteq Seq(Char \cup {NUL}) \ {<<>>}
    BY <2>1, <2>2, AddType
  <2> QED BY <1>b, <1>3, <2>3 DEF Line, file, TypeOK
<1>4. CASE LastPiece
  <2>1. iCur \in 0..Cap /\ iBufSize \in iCur..Cap
    BY <1>4, ExcludeAssumption DEF LastPiece, NoMoreLines, BufferInv, OutsideOnlyIfReadFails
  <2>2. patterns' \subseteq Seq(Char \cup {NUL}) \ {<<>>}
    BY <1>4, <2>1, AddType DEF LastPiece
  <2> QED BY <1>b, <1>4, <2>2 DEF LastPiece, Go, file, TypeOK
<1>5. CASE Keep
  <2>1. iCur \in 0..Cap /\ iBufSize \in iCur..Cap
    BY <1>5, ExcludeAssumption DEF Keep, NoMoreLines, BufferInv, OutsideOnlyIfReadFails
  <2>2. Buffer' \in [0..Cap -> Char \cup {NUL}]
    <3>1. \A i \in 0..Cap : i < iBufSize - iCur => iCur + i \in 0..Cap
      BY <2>1, ExcludeAssumption
    <3>2. Buffer' = [i \in 0..Cap |-> IF i < iBufSize - iCur THEN Buffer[iCur + i]
                                                           ELSE Buffer[i]]
      BY <1>5 DEF Keep
    <3> QED BY <3>1, <3>2 DEF TypeOK
  <2> QED BY <1>b, <1>5, <2>2 DEF Keep, Go, file, TypeOK
<1>6. CASE Consumed
  BY <1>6 DEF Consumed, Go, file, TypeOK
<1>7. CASE UNCHANGED vars
  BY <1>7 DEF vars, TypeOK
<1> QED BY <1>1, <1>2, <1>3, <1>4, <1>5, <1>6, <1>7 DEF Next

\* The types of the parser's state: the leftover and the place that processBuffer
\* has come to are within the buffer, and so is the end of what it holds unless a
\* read failed.
THEOREM ExcludeType == Spec => []TypeOK
<1>1. Init => TypeOK /\ BufferInv
  BY InitType, InitBuffer
<1>2. TypeOK /\ BufferInv /\ [Next]_vars => TypeOK' /\ BufferInv'
  BY TypeStep, BufferStep
<1> QED BY <1>1, <1>2, PTL DEF Spec

-----------------------------------------------------------------------------
(* The names.                                                              *)

\* What processBuffer has not seen of the file: the rest of the buffer, and
\* what is still to be read.
Rest == Piece(iCur, iBufSize) \o Unread

\* NothingLost and ListIsExact, and what they are while a buffer is gone
\* through: the names not in the list yet are those of Rest.
NameInv ==
    /\ TypeOK
    /\ BufferInv
    /\ NothingLost
    /\ ListIsExact
    /\ pc = "open" => iLeftover = 0 /\ patterns = {}
    /\ pc \in {"read", "scan"} => fSize = Len(text)
    /\ pc = "scan" => /\ short => iProcessed < fSize
                      /\ bEndOfFile <=> iProcessed >= fSize
                      /\ kept /\ ~short => Names(text) = patterns \cup Names(Rest)

\* Rest, of given values; it is proved about at two points of a step.
Cut(B, i, j) == [k \in 1..(j - i) |-> B[i + k - 1]]
After(B, i, j, T, p) == Cut(B, i, j) \o SubSeq(T, p + 1, Len(T))

LEMMA RestIsAfter ==
    /\ Rest = After(Buffer, iCur, iBufSize, text, iProcessed)
    /\ Rest' = After(Buffer', iCur', iBufSize', text', iProcessed')
    /\ Held \o Unread = After(Buffer, 0, iLeftover, text, iProcessed)
    /\ (Held \o Unread)' = After(Buffer', 0, iLeftover', text', iProcessed')
BY DEF Rest, After, Cut, Held, Piece, Unread

LEMMA UnreadType ==
    ASSUME NEW T \in Seq(Char), NEW p \in 0..Len(T)
    PROVE  LET u == SubSeq(T, p + 1, Len(T))
           IN  /\ u \in Seq(Byte)
               /\ Len(u) = Len(T) - p
               /\ \A i \in 1..(Len(T) - p) : u[i] = T[p + i]
<1> DEFINE u == SubSeq(T, p + 1, Len(T))
<1>0. Len(T) \in Nat
  BY LenProperties
<1>1. \A i \in (p + 1)..Len(T) : T[i] \in Byte
  BY <1>0, ElementOfSeq DEF Byte
<1>2. /\ u \in Seq(Byte)
      /\ Len(u) = IF p + 1 <= Len(T) THEN Len(T) - (p + 1) + 1 ELSE 0
      /\ \A i \in 1..(Len(T) - (p + 1) + 1) : u[i] = T[p + 1 + i - 1]
  BY <1>0, <1>1, SubSeqProperties
<1> HIDE DEF u
<1>3. u \in Seq(Byte) /\ Len(u) = Len(T) - p /\ \A i \in 1..(Len(T) - p) : u[i] = T[p + i]
  BY <1>0, <1>2
<1> QED BY <1>3 DEF u

\* After, byte by byte.
IsAfter(r, B, i, j, T, p) ==
    /\ r \in Seq(Byte)
    /\ Len(r) = j - i + Len(T) - p
    /\ \A m \in 1..(j - i) : r[m] = B[i + m - 1]
    /\ \A m \in (j - i + 1)..(j - i + Len(T) - p) : r[m] = T[p + m - (j - i)]

LEMMA AfterType ==
    ASSUME NEW T \in Seq(Char), NEW p \in 0..Len(T),
           NEW B \in [0..Cap -> Byte], NEW i \in 0..Cap, NEW j \in i..Cap
    PROVE  IsAfter(After(B, i, j, T, p), B, i, j, T, p)
<1> DEFINE b == Cut(B, i, j)
           u == SubSeq(T, p + 1, Len(T))
           r == After(B, i, j, T, p)
<1>0. Len(T) \in Nat
  BY LenProperties
<1>1. b \in Seq(Byte) /\ Len(b) = j - i /\ \A m \in 1..(j - i) : b[m] = B[i + m - 1]
  BY PieceOf DEF Cut
<1>2. u \in Seq(Byte) /\ Len(u) = Len(T) - p /\ \A m \in 1..(Len(T) - p) : u[m] = T[p + m]
  BY UnreadType
<1> HIDE DEF b, u
<1>3. r = b \o u
  BY DEF After, b, u
<1> HIDE DEF r
<1>4. /\ r \in Seq(Byte)
      /\ Len(r) = Len(b) + Len(u)
      /\ \A m \in 1..(Len(b) + Len(u)) : r[m] = IF m <= Len(b) THEN b[m] ELSE u[m - Len(b)]
  BY <1>1, <1>2, <1>3, ConcatProperties
<1>5. Len(r) = j - i + Len(T) - p
  BY <1>0, <1>1, <1>2, <1>4
<1>6. ASSUME NEW m \in 1..(j - i)
      PROVE  r[m] = B[i + m - 1]
  <2>1. m \in 1..(Len(b) + Len(u)) /\ m <= Len(b)
    BY <1>0, <1>1, <1>2
  <2> QED BY <1>1, <1>4, <2>1
<1>7. ASSUME NEW m \in (j - i + 1)..(j - i + Len(T) - p)
      PROVE  r[m] = T[p + m - (j - i)]
  <2>1. m \in 1..(Len(b) + Len(u)) /\ ~(m <= Len(b))
    BY <1>0, <1>1, <1>2
  <2>2. m - (j - i) \in 1..(Len(T) - p) /\ p + (m - (j - i)) = p + m - (j - i)
    BY <1>0
  <2> QED BY <1>1, <1>2, <1>4, <2>1, <2>2
<1> QED BY <1>4, <1>5, <1>6, <1>7 DEF r, IsAfter

\* The first bytes of it, and those from one in the buffer on.
LEMMA AfterHead ==
    ASSUME NEW T \in Seq(Char), NEW p \in 0..Len(T), NEW B \in [0..Cap -> Byte],
           NEW i \in 0..Cap, NEW j \in i..Cap, NEW h \in i..j,
           NEW r, r = After(B, i, j, T, p)
    PROVE  SubSeq(r, 1, h - i) = Cut(B, i, h)
<1>0. Len(T) \in Nat /\ h \in 0..Cap /\ j \in h..Cap /\ h \in i..Cap
  BY LenProperties, ExcludeAssumption
<1>1. IsAfter(r, B, i, j, T, p)
  BY AfterType
<1>2. Len(r) \in Nat /\ \A m \in 1..Len(r) : r[m] \in Byte
  BY <1>1, LenProperties, ElementOfSeq DEF IsAfter
<1> DEFINE u == SubSeq(r, 1, h - i)
           v == Cut(B, i, h)
<1>3. h - i \in 0..Len(r)
  BY <1>0, <1>1 DEF IsAfter
<1>4. \A m \in 1..(h - i) : r[m] \in Byte
  BY <1>2, <1>3
<1>5. /\ u \in Seq(Byte) /\ Len(u) = IF 1 <= h - i THEN h - i - 1 + 1 ELSE 0
      /\ \A m \in 1..(h - i - 1 + 1) : u[m] = r[1 + m - 1]
  BY <1>3, <1>4, SubSeqProperties
<1>6. v \in Seq(Byte) /\ Len(v) = h - i /\ \A m \in 1..(h - i) : v[m] = B[i + m - 1]
  BY <1>0, PieceOf DEF Cut
<1> HIDE DEF u, v
<1>7. \A m \in 1..(h - i) : r[m] = B[i + m - 1]
  BY <1>1 DEF IsAfter
<1>8. Len(u) = Len(v) /\ \A m \in 1..Len(u) : u[m] = v[m]
  BY <1>5, <1>6, <1>7
<1>9. u = v
  BY <1>5, <1>6, <1>8, SeqEqual
<1> QED BY <1>9 DEF u, v

LEMMA AfterTail ==
    ASSUME NEW T \in Seq(Char), NEW p \in 0..Len(T), NEW B \in [0..Cap -> Byte],
           NEW i \in 0..Cap, NEW j \in i..Cap, NEW h \in i..j,
           NEW r, r = After(B, i, j, T, p)
    PROVE  SubSeq(r, h - i + 1, Len(r)) = After(B, h, j, T, p)
<1>0. Len(T) \in Nat /\ h \in 0..Cap /\ j \in h..Cap /\ h \in i..Cap
  BY LenProperties, ExcludeAssumption
<1>1. IsAfter(r, B, i, j, T, p)
  BY AfterType
<1>2. Len(r) \in Nat /\ \A m \in 1..Len(r) : r[m] \in Byte
  BY <1>1, LenProperties, ElementOfSeq DEF IsAfter
<1> DEFINE u == SubSeq(r, h - i + 1, Len(r))
           v == After(B, h, j, T, p)
<1>3. IsAfter(v, B, h, j, T, p)
  BY <1>0, AfterType
<1>4. Len(r) = j - i + Len(T) - p
  BY <1>1 DEF IsAfter
<1>5. \A m \in (h - i + 1)..Len(r) : r[m] \in Byte
  BY <1>2
<1>6. /\ u \in Seq(Byte)
      /\ Len(u) = IF h - i + 1 <= Len(r) THEN Len(r) - (h - i + 1) + 1 ELSE 0
      /\ \A m \in 1..(Len(r) - (h - i + 1) + 1) : u[m] = r[h - i + 1 + m - 1]
  BY <1>2, <1>5, SubSeqProperties
<1> HIDE DEF u, v
<1>7. Len(v) = j - h + Len(T) - p /\ v \in Seq(Byte)
  BY <1>3 DEF IsAfter
<1>8. Len(u) = Len(v)
  BY <1>0, <1>4, <1>6, <1>7
<1>9. ASSUME NEW m \in 1..Len(u)
      PROVE  u[m] = v[m]
  <2>1. m \in 1..(j - h + Len(T) - p) /\ u[m] = r[h - i + m]
    BY <1>0, <1>4, <1>6, <1>7, <1>8
  <2>2. CASE m <= j - h
    <3>1. v[m] = B[h + m - 1]
      BY <1>3, <2>1, <2>2 DEF IsAfter
    <3>2. h - i + m \in 1..(j - i) /\ i + (h - i + m) - 1 = h + m - 1
      BY <2>1, <2>2
    <3>3. r[h - i + m] = B[i + (h - i + m) - 1]
      BY <1>1, <3>2 DEF IsAfter
    <3> QED BY <2>1, <3>1, <3>2, <3>3
  <2>3. CASE ~(m <= j - h)
    <3>1. m \in (j - h + 1)..(j - h + Len(T) - p)
      BY <1>0, <2>1, <2>3
    <3>2. v[m] = T[p + m - (j - h)]
      BY <1>3, <3>1 DEF IsAfter
    <3>3. /\ h - i + m \in (j - i + 1)..(j - i + Len(T) - p)
          /\ p + (h - i + m) - (j - i) = p + m - (j - h)
      BY <1>0, <3>1
    <3>4. r[h - i + m] = T[p + (h - i + m) - (j - i)]
      BY <1>1, <3>3 DEF IsAfter
    <3> QED BY <2>1, <3>2, <3>3, <3>4
  <2> QED BY <2>2, <2>3
<1>10. u = v
  BY <1>6, <1>7, <1>8, <1>9, SeqEqual
<1> QED BY <1>10 DEF u, v

-----------------------------------------------------------------------------
(* The steps.                                                              *)

LEMMA OpenName ==
    ASSUME NameInv, Open \/ OpenFails
    PROVE  NothingLost' /\ ListIsExact'
<1>1. pc = "open" /\ UNCHANGED <<text, iProcessed, iLeftover, Buffer, patterns, kept>>
  BY DEF Open, OpenFails, file
<1>2. iProcessed = 0 /\ iLeftover = 0 /\ patterns = {} /\ text \in Seq(Char)
  BY <1>1 DEF NameInv, TypeOK, BufferInv
<1>3. ListIsExact'
  <2>1. text \in Seq(Byte) /\ (Len(text) = 0 => Names(text) = {})
    BY <1>2, NamesOfNone, SeqMonotonic DEF Byte
  <2> QED BY <1>1, <1>2, <2>1 DEF ListIsExact
<1>4. NothingLost'
  <2>1. Held' \o Unread' = text
    <3> DEFINE r == After(Buffer, 0, 0, text, 0)
    <3>1. IsAfter(r, Buffer, 0, 0, text, 0)
      <4>1. Buffer \in [0..Cap -> Byte] /\ 0 \in 0..Cap /\ 0 \in 0..Len(text)
        BY <1>2, LenProperties, ExcludeAssumption DEF NameInv, TypeOK, Byte
      <4> QED BY <1>2, <4>1, AfterType
    <3> HIDE DEF r
    <3>2. Len(text) \in Nat /\ text \in Seq(Byte)
      BY <1>2, LenProperties, SeqMonotonic DEF Byte
    <3>3. r \in Seq(Byte) /\ Len(r) = Len(text) /\ \A m \in 1..Len(r) : r[m] = text[m]
      BY <3>1, <3>2 DEF IsAfter
    <3>4. r = text
      BY <3>2, <3>3, SeqEqual
    <3> QED BY <1>1, <1>2, <3>4, RestIsAfter DEF r
  <2> QED BY <1>1, <1>2, <2>1 DEF NothingLost
<1> QED BY <1>3, <1>4

\* What is read is put behind the leftover, where the file goes on.
LEMMA ReadName ==
    ASSUME NameInv, Read, ~short'
    PROVE  Rest' = Held \o Unread
<1>1. PICK n \in ReadResults : /\ Buffer' = Filled(n)
                               /\ iBufSize' = iLeftover + n
                               /\ iProcessed' = iProcessed + n
                               /\ short' = (n # iToRead)
  BY DEF Read
<1>a. n = iToRead
  BY <1>1
<1>2. n = iToRead /\ n \in Nat /\ iLeftover + n \in 0..Cap /\ iLeftover \in 0..Cap
  BY <1>a, ReadFits, ExcludeAssumption DEF Read, NameInv, BufferInv, OutsideOnlyIfReadFails
<1>3. /\ Len(text) \in Nat /\ text \in Seq(Char) /\ fSize = Len(text)
      /\ iProcessed \in 0..Len(text) /\ iProcessed + n \in 0..Len(text)
  BY <1>1, <1>2, ReadFits, LenProperties DEF Read, NameInv, TypeOK, BufferInv, OutsideOnlyIfReadFails
<1>4. Buffer \in [0..Cap -> Byte] /\ Buffer' \in [0..Cap -> Byte]
  BY <1>1, FilledType DEF Read, NameInv, TypeOK, Byte
<1>5. /\ UNCHANGED text /\ iCur' = 0
  BY DEF Read, file
<1> DEFINE old == After(Buffer, 0, iLeftover, text, iProcessed)
           new == After(Buffer', 0, iLeftover + n, text, iProcessed + n)
<1>6. 0 \in 0..Cap
  BY ExcludeAssumption
<1>7. IsAfter(old, Buffer, 0, iLeftover, text, iProcessed)
  BY <1>2, <1>3, <1>4, <1>6, AfterType
<1>8. IsAfter(new, Buffer', 0, iLeftover + n, text, iProcessed + n)
  BY <1>2, <1>3, <1>4, <1>6, AfterType
<1> HIDE DEF old, new
<1>9. Len(new) = Len(old)
  BY <1>2, <1>3, <1>7, <1>8 DEF IsAfter
<1>10. ASSUME NEW m \in 1..Len(new)
       PROVE  new[m] = old[m]
  <2>1. CASE m \in 1..iLeftover
    <3>1. new[m] = Buffer'[m - 1] /\ old[m] = Buffer[m - 1]
      BY <1>2, <1>3, <1>7, <1>8, <2>1 DEF IsAfter
    <3>2. Buffer'[m - 1] = Buffer[m - 1]
      BY <1>1, <1>2, <2>1, ExcludeAssumption DEF Filled
    <3> QED BY <3>1, <3>2
  <2>2. CASE m \in (iLeftover + 1)..(iLeftover + n)
    <3>1. new[m] = Buffer'[m - 1] /\ old[m] = text[iProcessed + m - iLeftover]
      BY <1>2, <1>3, <1>7, <1>8, <2>2 DEF IsAfter
    <3>2. m - 1 \in 0..Cap /\ m - 1 # iLeftover + n /\ m - 1 >= iLeftover /\ m - 1 < iLeftover + n
      BY <1>2, <2>2, ExcludeAssumption
    <3>3. Buffer'[m - 1] = text[iProcessed + (m - 1) - iLeftover + 1]
      BY <1>1, <3>2 DEF Filled
    <3>4. iProcessed + (m - 1) - iLeftover + 1 = iProcessed + m - iLeftover
      BY <1>2, <1>3
    <3> QED BY <3>1, <3>3, <3>4
  <2>3. CASE m > iLeftover + n
    <3>1. m \in (iLeftover + n - 0 + 1)..(iLeftover + n - 0 + Len(text) - (iProcessed + n))
      BY <1>2, <1>3, <1>8, <2>3 DEF IsAfter
    <3>2. m \in (iLeftover - 0 + 1)..(iLeftover - 0 + Len(text) - iProcessed)
      BY <1>2, <1>3, <3>1
    <3>3. new[m] = text[iProcessed + n + m - (iLeftover + n - 0)]
      BY <1>2, <1>3, <1>8, <3>1 DEF IsAfter
    <3>4. old[m] = text[iProcessed + m - (iLeftover - 0)]
      BY <1>7, <3>2 DEF IsAfter
    <3>5. iProcessed + n + m - (iLeftover + n - 0) = iProcessed + m - (iLeftover - 0)
      BY <1>2, <1>3
    <3> QED BY <3>3, <3>4, <3>5
  <2> QED BY <1>2, <1>3, <1>8, <2>1, <2>2, <2>3 DEF IsAfter
<1>11. new = old
  BY <1>7, <1>8, <1>9, <1>10, SeqEqual DEF IsAfter
<1> QED BY <1>1, <1>5, <1>11, RestIsAfter DEF old, new

\* A line is taken out of Rest, with the line ends behind it.
LEMMA LineName ==
    ASSUME NameInv, Line, kept, ~short
    PROVE  Names(text) = patterns' \cup Names(Rest')
<1>1. PICK i \in iCur..(iBufSize - 1), k \in 0..Cap :
          /\ i < k /\ k <= iBufSize
          /\ \A j \in iCur..(i - 1) : Buffer[j] \notin EOL
          /\ \A j \in i..(k - 1) : Buffer[j] \in EOL
          /\ addToList(Piece(iCur, i))
          /\ iCur' = k
  BY LineEnds DEF NameInv
<1>2. /\ text \in Seq(Char) /\ iProcessed \in 0..Len(text)
      /\ Buffer \in [0..Cap -> Byte]
      /\ iCur \in 0..Cap /\ iBufSize \in iCur..Cap /\ i \in iCur..iBufSize /\ k \in iCur..iBufSize
  BY <1>1, LineEnds, ExcludeAssumption DEF Line, NameInv, TypeOK, BufferInv, OutsideOnlyIfReadFails, Byte
<1>3. UNCHANGED <<text, iProcessed, Buffer, iBufSize>>
  BY DEF Line, file
<1> DEFINE r == After(Buffer, iCur, iBufSize, text, iProcessed)
<1>4. IsAfter(r, Buffer, iCur, iBufSize, text, iProcessed)
  BY <1>2, AfterType
<1>5. SubSeq(r, 1, i - iCur) = Cut(Buffer, iCur, i)
  BY <1>2, AfterHead
<1>6. SubSeq(r, k - iCur + 1, Len(r)) = After(Buffer, k, iBufSize, text, iProcessed)
  BY <1>2, AfterTail
<1>7. Rest = r /\ Rest' = After(Buffer, k, iBufSize, text, iProcessed)
  BY <1>1, <1>3, RestIsAfter
<1> HIDE DEF r
<1>8. r \in Seq(Byte) /\ Len(r) = iBufSize - iCur + Len(text) - iProcessed
  BY <1>4 DEF IsAfter
<1>9. \A m \in 1..(iBufSize - iCur) : r[m] = Buffer[iCur + m - 1]
  BY <1>4 DEF IsAfter
<1>10. Len(text) \in Nat
  BY <1>2, LenProperties
<1> DEFINE f == i - iCur + 1
           g == k - iCur + 1
<1>11. f \in 1..Len(r) /\ g \in (f + 1)..(Len(r) + 1)
  BY <1>1, <1>2, <1>8, <1>10
<1>12. ASSUME NEW m \in 1..(f - 1)
       PROVE  r[m] \notin EOL
  <2>1. m \in 1..(iBufSize - iCur) /\ iCur + m - 1 \in iCur..(i - 1)
    BY <1>2
  <2> QED BY <1>1, <1>9, <2>1
<1>13. ASSUME NEW m \in f..(g - 1)
       PROVE  r[m] \in EOL
  <2>1. m \in 1..(iBufSize - iCur) /\ iCur + m - 1 \in i..(k - 1)
    BY <1>2
  <2> QED BY <1>1, <1>9, <2>1
<1> HIDE DEF f, g
<1>14. Names(r) = ({Trim(SubSeq(r, 1, f - 1))} \ {<<>>}) \cup Names(SubSeq(r, g, Len(r)))
  BY <1>8, <1>11, <1>12, <1>13, NamesOfFirst
<1>15. SubSeq(r, 1, f - 1) = Piece(iCur, i)
  <2>1. f - 1 = i - iCur
    BY <1>2 DEF f
  <2> QED BY <1>5, <2>1 DEF Cut, Piece
<1>16. Names(SubSeq(r, g, Len(r))) = Names(Rest')
  BY <1>6, <1>7 DEF g
<1>17. Names(text) = patterns \cup Names(r)
  BY <1>7 DEF Line, NameInv
<1> QED BY <1>1, <1>14, <1>15, <1>16, <1>17 DEF addToList

\* A last line that nothing ends is the last name.
LEMMA LastName ==
    ASSUME NameInv, LastPiece, kept
    PROVE  Names(text) = patterns' /\ ~short
<1>1. /\ pc = "scan" /\ bEndOfFile /\ iCur < iBufSize
      /\ \A i \in iCur..(iBufSize - 1) : Buffer[i] \notin EOL
      /\ addToList(Piece(iCur, iBufSize))
  BY DEF LastPiece, NoMoreLines
<1>2. iProcessed >= fSize /\ fSize = Len(text) /\ Len(text) \in Nat /\ iProcessed \in Int
  BY <1>1, LenProperties DEF NameInv, TypeOK
<1>3. ~short
  BY <1>1, <1>2 DEF NameInv
<1>4. /\ text \in Seq(Char) /\ iProcessed \in 0..Len(text) /\ iProcessed = Len(text)
      /\ Buffer \in [0..Cap -> Byte]
      /\ iCur \in 0..Cap /\ iBufSize \in iCur..Cap
  BY <1>1, <1>2, <1>3, ExcludeAssumption DEF NameInv, TypeOK, BufferInv, OutsideOnlyIfReadFails, Byte
<1> DEFINE r == After(Buffer, iCur, iBufSize, text, iProcessed)
<1>5. IsAfter(r, Buffer, iCur, iBufSize, text, iProcessed)
  BY <1>4, AfterType
<1>6. SubSeq(r, 1, iBufSize - iCur) = Cut(Buffer, iCur, iBufSize)
  <2>1. iBufSize \in iCur..iBufSize
    BY <1>4
  <2> QED BY <1>4, <2>1, AfterHead
<1>7. Rest = r
  BY RestIsAfter
<1> HIDE DEF r
<1>8. r \in Seq(Byte) /\ Len(r) = iBufSize - iCur
  BY <1>2, <1>4, <1>5 DEF IsAfter
<1>9. r = Piece(iCur, iBufSize)
  BY <1>6, <1>8, SubSeqFull DEF Cut, Piece
<1>10. \A m \in 1..Len(r) : r[m] \notin EOL
  <2> TAKE m \in 1..Len(r)
  <2>1. r[m] = Buffer[iCur + m - 1] /\ iCur + m - 1 \in iCur..(iBufSize - 1)
    BY <1>4, <1>5, <1>8 DEF IsAfter
  <2> QED BY <1>1, <2>1
<1>11. Names(r) = {Trim(r)} \ {<<>>}
  BY <1>8, <1>10, NamesOfOne
<1>12. Names(text) = patterns \cup Names(r)
  BY <1>1, <1>3, <1>7 DEF NameInv
<1> QED BY <1>1, <1>3, <1>9, <1>11, <1>12 DEF addToList

\* The leftover is what is left of the buffer.
LEMMA KeepName ==
    ASSUME NameInv, Keep
    PROVE  (Held \o Unread)' = Rest
<1>1. /\ iLeftover' = iBufSize - iCur /\ iCur < iBufSize
      /\ Buffer' = [i \in 0..Cap |-> IF i < iBufSize - iCur THEN Buffer[iCur + i] ELSE Buffer[i]]
      /\ UNCHANGED <<text, iProcessed>>
  BY DEF Keep, NoMoreLines, file
<1>2. iCur \in 0..Cap /\ iBufSize \in iCur..Cap
  BY <1>1, ExcludeAssumption DEF NameInv, BufferInv, OutsideOnlyIfReadFails
<1>3. ASSUME NEW k \in 1..(iBufSize - iCur)
      PROVE  Buffer'[0 + k - 1] = Buffer[iCur + k - 1]
  <2>1. k - 1 \in 0..Cap /\ k - 1 < iBufSize - iCur /\ 0 + k - 1 = k - 1 /\ iCur + (k - 1) = iCur + k - 1
    BY <1>2, ExcludeAssumption
  <2> QED BY <1>1, <2>1
<1>4. iLeftover' - 0 = iBufSize - iCur
  BY <1>1, <1>2
<1>5. After(Buffer', 0, iLeftover', text', iProcessed')
          = After(Buffer, iCur, iBufSize, text, iProcessed)
  BY <1>1, <1>3, <1>4 DEF After, Cut
<1> QED BY <1>5, RestIsAfter

\* A buffer that ends in a line end leaves nothing over: what a leftover from
\* before would add is what kept is about.
LEMMA ConsumedName ==
    ASSUME NameInv, Consumed, kept', ~short
    PROVE  /\ pc' = "read" => Names(text) = patterns \cup Names((Held \o Unread)')
           /\ pc' = "done" => Names(text) = patterns
<1>1. /\ pc = "scan" /\ iCur >= iBufSize /\ Go /\ kept
      /\ pc' = "done" \/ iLeftover = 0
      /\ UNCHANGED <<text, iProcessed, iLeftover, Buffer>>
  BY DEF Consumed, file
<1>2. /\ text \in Seq(Char) /\ Len(text) \in Nat /\ fSize = Len(text)
      /\ iProcessed \in 0..Len(text)
      /\ Buffer \in [0..Cap -> Byte] /\ iCur \in 0..Cap /\ iBufSize \in Int
  BY <1>1, LenProperties DEF NameInv, TypeOK, BufferInv, OutsideOnlyIfReadFails, Byte
<1>3. Names(text) = patterns \cup Names(Rest)
  BY <1>1 DEF NameInv
<1>4. Cut(Buffer, iCur, iBufSize) = Cut(Buffer, 0, 0)
  <2>1. 1..(iBufSize - iCur) = {} /\ 1..(0 - 0) = {}
    BY <1>1, <1>2
  <2> QED BY <2>1 DEF Cut
<1> DEFINE r == After(Buffer, 0, 0, text, iProcessed)
<1>5. Rest = r
  BY <1>4, RestIsAfter DEF After
<1>6. ASSUME pc' = "read"
      PROVE  Names(text) = patterns \cup Names((Held \o Unread)')
  <2>1. (Held \o Unread)' = r
    BY <1>1, <1>6, RestIsAfter
  <2> QED BY <1>3, <1>5, <2>1
<1>7. ASSUME pc' = "done"
      PROVE  Names(text) = patterns
  <2>1. iProcessed = Len(text)
    BY <1>1, <1>2, <1>7 DEF Go
  <2>2. IsAfter(r, Buffer, 0, 0, text, iProcessed)
    <3>1. 0 \in 0..Cap
      BY ExcludeAssumption
    <3> QED BY <1>2, <3>1, AfterType
  <2> HIDE DEF r
  <2>3. r \in Seq(Byte) /\ Len(r) = 0
    BY <1>2, <2>1, <2>2 DEF IsAfter
  <2>4. Names(r) = {}
    BY <2>3, NamesOfNone
  <2> QED BY <1>3, <1>5, <2>4 DEF r
<1> QED BY <1>6, <1>7

LEMMA NameStep ==
    ASSUME NameInv, [Next]_vars
    PROVE  NameInv'
<1>0. TypeOK' /\ BufferInv'
  BY TypeStep, BufferStep DEF NameInv
<1>1. CASE Open \/ OpenFails
  <2>1. pc = "open" /\ pc' \in {"read", "done"}
    BY <1>1 DEF Open, OpenFails
  <2>2. pc' = "read" => fSize' = Len(text')
    BY <1>1 DEF Open, OpenFails
  <2> QED BY <1>0, <1>1, <2>1, <2>2, OpenName DEF NameInv
<1>2. CASE Read
  <2>1. /\ pc' = "scan" /\ pc = "read" /\ bEndOfFile' = (iProcessed' >= fSize)
        /\ UNCHANGED <<text, fSize, patterns, kept>>
    BY <1>2 DEF Read, file
  <2>2. short' => iProcessed' < fSize'
    <3>1. PICK n \in ReadResults : iProcessed' = iProcessed + n /\ short' = (n # iToRead)
      BY <1>2 DEF Read
    <3>2. /\ iToRead \in Nat /\ n \in Int /\ n <= iToRead /\ iToRead <= fSize - iProcessed
          /\ fSize \in Nat /\ iProcessed \in Int
      BY <1>2, ReadFits, ExcludeAssumption DEF Read, NameInv, BufferInv, OutsideOnlyIfReadFails, iToRead
    <3>3. n # iToRead => iProcessed + n < fSize
      BY <3>2
    <3> QED BY <2>1, <3>1, <3>3
  <2>3. kept' /\ ~short' => Names(text') = patterns' \cup Names(Rest')
    BY <1>2, <2>1, ReadName DEF NameInv, NothingLost
  <2> QED BY <1>0, <2>1, <2>2, <2>3 DEF NameInv, NothingLost, ListIsExact
<1>3. CASE Line
  <2>1. /\ pc = "scan"
        /\ UNCHANGED <<text, pc, fSize, iProcessed, short, bEndOfFile, kept>>
    BY <1>3 DEF Line, file
  <2>2. kept' /\ ~short' => Names(text') = patterns' \cup Names(Rest')
    BY <1>3, <2>1, LineName
  <2> QED BY <1>0, <2>1, <2>2 DEF NameInv, NothingLost, ListIsExact
<1>4. CASE LastPiece
  <2>1. /\ pc = "scan" /\ Go /\ bEndOfFile
        /\ UNCHANGED <<text, fSize, iProcessed, kept>>
    BY <1>4 DEF LastPiece, NoMoreLines, file
  <2>2. pc' = "done"
    BY <2>1 DEF Go, NameInv
  <2>3. kept => Names(text) = patterns'
    BY <1>4, LastName
  <2> QED BY <1>0, <2>1, <2>2, <2>3 DEF NameInv, NothingLost, ListIsExact
<1>5. CASE Keep
  <2>1. /\ pc = "scan" /\ Go /\ ~bEndOfFile
        /\ UNCHANGED <<text, fSize, iProcessed, patterns, kept>>
    BY <1>5 DEF Keep, NoMoreLines, file
  <2>2. (Held \o Unread)' = Rest
    BY <1>5, KeepName
  <2>3. iProcessed # Len(text)
    <3>1. iProcessed \in Int /\ fSize = Len(text) /\ ~(iProcessed >= fSize)
      BY <2>1 DEF NameInv, TypeOK
    <3> QED BY <3>1, LenProperties DEF NameInv, TypeOK
  <2>4. pc' \in {"read", "done"} /\ (pc' = "read" => ~short)
    BY <2>1 DEF Go
  <2>5. pc' = "read" /\ kept => Names(text) = patterns \cup Names(Rest)
    BY <2>1, <2>4 DEF NameInv
  <2>6. NothingLost'
    BY <2>1, <2>2, <2>5 DEF NothingLost
  <2> QED BY <1>0, <2>1, <2>3, <2>4, <2>6 DEF NameInv, ListIsExact
<1>6. CASE Consumed
  <2>1. /\ pc = "scan" /\ Go
        /\ UNCHANGED <<text, fSize, iProcessed, patterns>>
    BY <1>6 DEF Consumed, file
  <2>2. pc' \in {"read", "done"}
    BY <2>1 DEF Go
  <2>3. short => pc' = "done" /\ iProcessed' # Len(text')
    <3>1. short => iProcessed < Len(text) /\ iProcessed \in Int
      BY <2>1 DEF NameInv, TypeOK
    <3> QED BY <2>1, <3>1, LenProperties DEF Go, NameInv, TypeOK
  <2>4. /\ ~short /\ kept' /\ pc' = "read" => Names(text') = patterns' \cup Names((Held \o Unread)')
        /\ ~short /\ kept' /\ pc' = "done" => Names(text') = patterns'
    BY <1>6, <2>1, ConsumedName
  <2>5. NothingLost'
    BY <2>3, <2>4 DEF NothingLost
  <2>6. ListIsExact'
    BY <2>3, <2>4 DEF ListIsExact
  <2> QED BY <1>0, <2>1, <2>2, <2>5, <2>6 DEF NameInv
<1>7. CASE UNCHANGED vars
  BY <1>0, <1>7 DEF vars, NameInv, NothingLost, ListIsExact, Rest, Held, Unread, Piece
<1> QED BY <1>1, <1>2, <1>3, <1>4, <1>5, <1>6, <1>7 DEF Next

LEMMA InitName ==
    ASSUME Init
    PROVE  NameInv
BY InitBuffer, InitType DEF Init, NameInv, NothingLost, ListIsExact

LEMMA NameAlways == Spec => []NameInv
BY InitName, NameStep, PTL DEF Spec

\* Between two buffers no name is lost, torn or invented.
THEOREM ExcludeNothingLost == Spec => []NothingLost
<1>1. NameInv => NothingLost
  BY DEF NameInv
<1> QED BY <1>1, NameAlways, PTL

\* What a file excludes is exactly the names in its lines, for every file and
\* every length of the buffer, if it was read to its end and no leftover got out
\* of step.
THEOREM ExcludeExact == Spec => []ListIsExact
<1>1. NameInv => ListIsExact
  BY DEF NameInv
<1> QED BY <1>1, NameAlways, PTL
=============================================================================
