---------------------- MODULE BackupTreeMirror_proofs ----------------------
(***************************************************************************)
(* The destination that a run leaves when nobody answers its questions and *)
(* nothing fails, for every pair of trees, every set of options and any    *)
(* depth.                                                                  *)
(*                                                                         *)
(* The inductive invariant says of each path that it is as it was or as it *)
(* is to be (NothingElse), and, if it is not yet as it is to be, that some *)
(* call under way still has it, or a folder it is in, ahead (Complete).    *)
(* What is ahead of a call is read off its place, its list and the cursor  *)
(* (Ahead); that the cursor of the check is past nothing that is to go is  *)
(* an invariant of its own (Checked).  A step settles a path of Ahead or   *)
(* hands it to the call it makes.                                          *)
(*                                                                         *)
(* TreeShape takes the place of an induction over the tree: Above is above *)
(* every path, so a set of paths that has Above and, with a folder, all    *)
(* that is in it, has every path (AllOf).                                  *)
(***************************************************************************)
EXTENDS BackupTree_proofs

-----------------------------------------------------------------------------
(* Folders above a path.                                                   *)

LEMMA AllOf ==
    ASSUME NEW S \in SUBSET Node, Above \in S, Downward(S)
    PROVE  S = Node
<1>1. \A n \in Node : Above \in UpFrom[n]
  BY TreeShape
<1> QED BY <1>1 DEF UpFrom

LEMMA Below ==
    ASSUME NEW S \in SUBSET Node, Downward(S), NEW m \in S, NEW n \in Node, m \in UpFrom[n]
    PROVE  n \in S
BY DEF UpFrom

LEMMA UpFromUpFrom ==
    ASSUME NEW n \in Node, NEW m \in UpFrom[n], NEW k \in UpFrom[m]
    PROVE  k \in UpFrom[n]
BY DEF UpFrom

LEMMA IsNode ==
    ASSUME NEW n \in Node
    PROVE  UpFrom[n] \subseteq Node /\ Parent[n] \in Node
BY TreeAssumption DEF UpFrom

LEMMA ParentBelow ==
    ASSUME NEW n \in Node, NEW m \in UpFrom[n], m # n
    PROVE  m \in UpFrom[Parent[n]]
<1> DEFINE S == {k \in Node : k = m \/ m \in UpFrom[Parent[k]]}
<1>1. m \in S
  BY IsNode
<1>2. ASSUME NEW k \in Node, Parent[k] \in S
      PROVE  k \in S
  <2>1. CASE Parent[k] = m
    BY <2>1, <1>1, UpFromItself
  <2>2. CASE m \in UpFrom[Parent[Parent[k]]]
    BY <2>2, UpFromParent, IsNode
  <2> QED BY <1>2, <2>1, <2>2
<1>3. Downward(S)
  BY <1>2 DEF Downward
<1>4. n \in S
  <2> HIDE DEF S
  <2>1. S \in SUBSET Node
    BY DEF S
  <2> QED BY <1>1, <1>3, <2>1, Below
<1> QED BY <1>4

\* A path below d is below an item of it.
LEMMA ItemBetween ==
    ASSUME NEW n \in Node, NEW d \in UpFrom[n], d # n
    PROVE  \E c \in Node : c # d /\ Parent[c] = d /\ c \in UpFrom[n]
<1> DEFINE S == {k \in Node : k = d \/ \E c \in Node : c # d /\ Parent[c] = d /\ c \in UpFrom[k]}
<1>1. d \in S /\ S \in SUBSET Node
  BY IsNode
<1>2. ASSUME NEW k \in Node, Parent[k] \in S
      PROVE  k \in S
  <2>1. CASE Parent[k] = d
    BY <2>1, UpFromItself
  <2>2. CASE \E c \in Node : c # d /\ Parent[c] = d /\ c \in UpFrom[Parent[k]]
    BY <2>2, UpFromParent
  <2> QED BY <1>2, <2>1, <2>2
<1>3. Downward(S)
  BY <1>2 DEF Downward
<1>4. n \in S
  <2> HIDE DEF S
  <2> QED BY <1>1, <1>3, Below
<1> QED BY <1>4

\* Of two paths above a third one, one is above the other.
LEMMA OneAboveOther ==
    ASSUME NEW n \in Node, NEW m \in UpFrom[n], NEW k \in UpFrom[n]
    PROVE  m \in UpFrom[k] \/ k \in UpFrom[m]
<1> DEFINE S == {x \in Node :
                    /\ m \in UpFrom[x]
                    /\ k \in UpFrom[x] => m \in UpFrom[k] \/ k \in UpFrom[m]}
<1>1. m \in S /\ S \in SUBSET Node
  BY IsNode, UpFromItself
<1>2. ASSUME NEW x \in Node, Parent[x] \in S
      PROVE  x \in S
  <2>1. m \in UpFrom[x]
    BY <1>2, UpFromParent
  <2>2. ASSUME k \in UpFrom[x]
        PROVE  m \in UpFrom[k] \/ k \in UpFrom[m]
    <3>1. CASE k = x
      BY <2>1, <3>1
    <3>2. CASE k # x
      BY <1>2, <2>2, <3>2, ParentBelow
    <3> QED BY <3>1, <3>2
  <2> QED BY <2>1, <2>2
<1>3. Downward(S)
  BY <1>2 DEF Downward
<1>4. n \in S
  <2> HIDE DEF S
  <2> QED BY <1>1, <1>3, Below
<1> QED BY <1>4

-----------------------------------------------------------------------------
(* The folders that are reached.                                           *)

\* What makes a folder one that BackupThis gets to work in, once its own
\* folder is.
Enterable(n) == opt.recursive /\ n \notin opt.excluded
Fits(n) ==
    /\ first["src"][n] # Absent
    /\ first["src"][n].kind = "dir"
    /\ first["dst"][n] # Absent => first["dst"][n].kind = "dir"

LEMMA ReachedIs ==
    ASSUME NEW n \in Node
    PROVE  Reached[n] <=> /\ n = Root \/ (n # Above /\ Reached[Parent[n]] /\ Enterable(n))
                          /\ Fits(n)
<1> DEFINE F(S) == {k \in Node : /\ k = Root \/ (k # Above /\ Parent[k] \in S /\ Enterable(k))
                                 /\ Fits(k)}
           L == {k \in Node : \A S \in SUBSET Node : F(S) \subseteq S => k \in S}
           R == [k \in Node |-> k \in L]
<1>1. \A S, T \in SUBSET Node : S \subseteq T => F(S) \subseteq F(T)
  OBVIOUS
<1>2. F(L) \subseteq L
  <2> SUFFICES ASSUME NEW S \in SUBSET Node, F(S) \subseteq S
               PROVE  F(L) \subseteq S
    BY DEF F
  <2>1. L \subseteq S
    OBVIOUS
  <2>2. F(L) \subseteq F(S)
    BY <1>1, <2>1
  <2> QED BY <2>2
<1>3. L \subseteq F(L)
  <2>1. F(F(L)) \subseteq F(L)
    BY <1>1, <1>2
  <2>2. F(L) \in SUBSET Node
    OBVIOUS
  <2> QED BY <2>1, <2>2
<1>4. L = F(L)
  BY <1>2, <1>3
<1>5. R = [k \in Node |->
              LET s == first["src"][k]
                  d == first["dst"][k]
              IN  /\ \/ k = Root
                     \/ /\ k # Above
                        /\ R[Parent[k]]
                        /\ opt.recursive
                        /\ k \notin opt.excluded
                  /\ s # Absent
                  /\ s.kind = "dir"
                  /\ d # Absent => d.kind = "dir"]
  <2> DEFINE B(k) == /\ \/ k = Root
                        \/ /\ k # Above
                           /\ R[Parent[k]]
                           /\ opt.recursive
                           /\ k \notin opt.excluded
                     /\ first["src"][k] # Absent
                     /\ first["src"][k].kind = "dir"
                     /\ first["dst"][k] # Absent => first["dst"][k].kind = "dir"
  <2>1. ASSUME NEW k \in Node
        PROVE  (k \in L) <=> B(k)
    <3>1. k \in L <=> k \in F(L)
      BY <1>4
    <3>2. R[Parent[k]] <=> Parent[k] \in L
      BY IsNode
    <3>3. k \in F(L) <=> B(k)
      <4> HIDE DEF L, R
      <4> QED BY <3>2 DEF Enterable, Fits
    <3> QED BY <3>1, <3>3
  <2>2. ASSUME NEW k \in Node
        PROVE  (k \in L) = B(k)
    <3>1. CASE k \in L
      <4>1. B(k)
        BY <2>1, <3>1
      <4>2. (k \in L) = TRUE /\ B(k) = TRUE
        <5> HIDE DEF L, R
        <5> QED BY <3>1, <4>1
      <4> HIDE DEF L, R, B
      <4> QED BY <4>2
    <3>2. CASE k \notin L
      <4>1. ~B(k)
        BY <2>1, <3>2
      <4>2. (k \in L) = FALSE /\ B(k) = FALSE
        <5> HIDE DEF L, R
        <5> QED BY <3>2, <4>1
      <4> HIDE DEF L, R, B
      <4> QED BY <4>2
    <3> QED BY <3>1, <3>2
  <2>3. [k \in Node |-> k \in L] = [k \in Node |-> B(k)]
    <3> HIDE DEF L, R, B
    <3> QED BY <2>2, Zenon
  <2> HIDE DEF L
  <2> QED BY <2>3
<1>6. Reached = [k \in Node |->
              LET s == first["src"][k]
                  d == first["dst"][k]
              IN  /\ \/ k = Root
                     \/ /\ k # Above
                        /\ Reached[Parent[k]]
                        /\ opt.recursive
                        /\ k \notin opt.excluded
                  /\ s # Absent
                  /\ s.kind = "dir"
                  /\ d # Absent => d.kind = "dir"]
  <2> HIDE DEF R
  <2> QED BY <1>5, Zenon DEF Reached
<1> QED BY <1>6 DEF Enterable, Fits

LEMMA ReachedStays ==
    ASSUME UNCHANGED <<opt, first>>
    PROVE  Reached' = Reached
BY DEF Reached

\* The items of a folder that is reached are neither the root nor above it.
LEMMA ItemOfReached ==
    ASSUME NEW n \in Node, Reached[Parent[n]]
    PROVE  n \notin {Root, Above}
<1>1. ~Reached[Above]
  BY ReachedIs, TreeShape, TreeAssumption
<1> QED BY <1>1, TreeShape

\* Nothing is reached below a folder that is not.
LEMMA Unreached ==
    ASSUME NEW d \in Node \ {Root, Above}, ~Reached[d],
           NEW n \in Node, d \in UpFrom[n]
    PROVE  n \in Node \ {Root, Above} /\ ~Reached[n]
<1> DEFINE S == {k \in Node \ {Root, Above} : ~Reached[k]}
<1>1. ASSUME NEW k \in Node, Parent[k] \in S
      PROVE  k \in S
  <2>1. k \notin {Root, Above}
    BY <1>1, TreeShape
  <2> QED BY <1>1, <2>1, ReachedIs
<1>2. Downward(S)
  BY <1>1 DEF Downward
<1>3. d \in S /\ S \in SUBSET Node
  OBVIOUS
<1>4. n \in S
  <2> HIDE DEF S
  <2> QED BY <1>2, <1>3, Below
<1> QED BY <1>4

\* What is reached is in the root.
LEMMA ReachedInRoot ==
    ASSUME NEW n \in Node, Reached[n]
    PROVE  Root \in UpFrom[n]
<1> DEFINE S == {k \in Node : Reached[k] => Root \in UpFrom[k]}
<1>1. Above \in S /\ S \in SUBSET Node
  BY ReachedIs, TreeShape, TreeAssumption
<1>2. ASSUME NEW k \in Node, Parent[k] \in S
      PROVE  k \in S
  <2>1. CASE k = Root
    BY <2>1, UpFromItself
  <2>2. CASE k # Root
    <3>1. Reached[k] => Reached[Parent[k]]
      BY <2>2, ReachedIs
    <3> QED BY <1>2, <3>1, UpFromParent
  <2> QED BY <2>1, <2>2
<1>3. Downward(S)
  BY <1>2 DEF Downward
<1>4. S = Node
  <2> HIDE DEF S
  <2> QED BY <1>1, <1>3, AllOf
<1> QED BY <1>4

-----------------------------------------------------------------------------
(* The destination that is expected: as the code has it, Prunes and         *)
(* NeedsCopy included.  That MirrorAtEnd follows is AsDocumented, below.    *)

Condemned(n) == SaidToGo(n) /\ Prunes

Renewed(n) ==
    LET s == first["src"][n]
        d == first["dst"][n]
    IN  /\ n \notin {Root, Above}
        /\ Reached[Parent[n]]
        /\ n \notin opt.excluded
        /\ s # Absent
        /\ s.kind = "file"
        /\ d # Absent => d.kind = "file"
        /\ \E v \in Views(s), w \in Views(d) : NeedsCopy(v, w)

Expected(n) ==
    CASE \E m \in UpFrom[n] : Condemned(m) -> Absent
      [] Renewed(n) -> first["src"][n]
      [] Reached[n] /\ first["dst"][n] = Absent -> [first["src"][n] EXCEPT !.mtime = Now]
      [] OTHER -> first["dst"][n]

Goes(n) == \E m \in UpFrom[n] : Condemned(m)

\* There is nothing in what is no folder.
LEMMA NothingInside ==
    ASSUME NEW e,
           \A k \in Node : e[k] # Absent => e[Parent[k]] # Absent /\ e[Parent[k]].kind = "dir",
           NEW n \in Node, NEW m \in UpFrom[n],
           e[m] = Absent \/ (m # n /\ e[m].kind # "dir")
    PROVE  e[n] = Absent
<1> DEFINE S == {k \in Node : k = m \/ e[k] = Absent}
<1>1. ASSUME NEW k \in Node, Parent[k] \in S
      PROVE  k \in S
  <2>1. CASE m = n
    BY <1>1, <2>1
  <2>2. CASE m # n
    BY <1>1, <2>2
  <2> QED BY <2>1, <2>2
<1>2. Downward(S)
  BY <1>1 DEF Downward
<1>3. m \in S /\ S \in SUBSET Node
  BY IsNode
<1>4. n \in S
  <2> HIDE DEF S
  <2> QED BY <1>2, <1>3, Below
<1> QED BY <1>4

LEMMA FirstRooted ==
    ASSUME first \in Trees, NEW s \in Side, NEW k \in Node, first[s][k] # Absent
    PROVE  first[s][Parent[k]] # Absent /\ first[s][Parent[k]].kind = "dir"
BY TreeAssumption

\* What has a source does not go.
LEMMA SourceKeeps ==
    ASSUME first \in Trees, NEW n \in Node, first["src"][n] # Absent
    PROVE  ~Goes(n)
<1> SUFFICES ASSUME NEW m \in UpFrom[n], Condemned(m)
             PROVE  FALSE
  BY DEF Goes
<1>1. first["src"][m] = Absent
  BY DEF Condemned, SaidToGo
<1>2. \A k \in Node : first["src"][k] # Absent =>
          first["src"][Parent[k]] # Absent /\ first["src"][Parent[k]].kind = "dir"
  BY FirstRooted DEF Side
<1> QED BY <1>1, <1>2, NothingInside

LEMMA ExpectedIs ==
    ASSUME first \in Trees, NEW n \in Node
    PROVE  /\ Goes(n) => Expected(n) = Absent
           /\ Renewed(n) => Expected(n) = first["src"][n]
           /\ Reached[n] /\ first["dst"][n] = Absent =>
                  Expected(n) = [first["src"][n] EXCEPT !.mtime = Now]
           /\ ~Goes(n) /\ ~Renewed(n) /\ ~(Reached[n] /\ first["dst"][n] = Absent) =>
                  Expected(n) = first["dst"][n]
<1>1. Renewed(n) => ~Goes(n) /\ ~Reached[n]
  BY SourceKeeps, ReachedIs DEF Renewed, Fits
<1>2. Reached[n] => ~Goes(n)
  BY SourceKeeps, ReachedIs DEF Fits
<1> QED BY <1>1, <1>2 DEF Expected, Goes

LEMMA ExpectationStays ==
    ASSUME UNCHANGED <<opt, first>>, NEW n \in Node
    PROVE  /\ Expected(n)' = Expected(n)
           /\ Condemned(n)' <=> Condemned(n)
           /\ Goes(n)' <=> Goes(n)
<1>1. Reached' = Reached
  BY ReachedStays
<1>2. \A m \in Node : Condemned(m)' <=> Condemned(m)
  BY <1>1 DEF Condemned, SaidToGo, Prunes
<1>3. Goes(n)' <=> Goes(n)
  BY <1>2, IsNode DEF Goes
<1>4. Renewed(n)' <=> Renewed(n)
  BY <1>1 DEF Renewed
<1>5. Expected(n)' = Expected(n)
  BY <1>1, <1>3, <1>4 DEF Expected, Goes
<1> QED BY <1>2, <1>3, <1>5

\* Below what is neither reached nor goes, nothing is to change.
LEMMA NothingExpectedBelow ==
    ASSUME first \in Trees, NEW d \in Node \ {Root, Above}, ~Reached[d], ~Goes(d),
           NEW n \in Node, d \in UpFrom[n], n # d
    PROVE  Expected(n) = first["dst"][n]
<1>1. ~Reached[n] /\ ~Reached[Parent[n]]
  BY Unreached, ParentBelow, IsNode
<1>2. ~Renewed(n)
  BY <1>1 DEF Renewed
<1>3. ~Goes(n)
  <2> SUFFICES ASSUME NEW m \in UpFrom[n], Condemned(m)
               PROVE  FALSE
    BY DEF Goes
  <2>1. m \in Node /\ Reached[Parent[m]]
    BY IsNode DEF Condemned, SaidToGo
  <2>2. CASE m \in UpFrom[d]
    BY <2>2 DEF Goes
  <2>3. CASE d \in UpFrom[m] /\ d # m
    BY <2>1, <2>3, Unreached, ParentBelow, IsNode
  <2>4. d = m => m \in UpFrom[d]
    BY UpFromItself
  <2> QED BY <2>2, <2>3, <2>4, OneAboveOther
<1> QED BY <1>1, <1>2, <1>3, ExpectedIs

-----------------------------------------------------------------------------
(* The invariant.                                                          *)

\* A run that nobody answers, and in which nothing fails.
Unattended == Faults = {} /\ Keys = {} /\ Dated

Frames(st) == {st[i] : i \in 1..Len(st)}

\* The items of a folder that have no source.
Orphans(d) == {n \in Node : Parent[n] = d /\ n # d /\ first["src"][n] = Absent}

\* The paths that the call c has yet to see to, with all that is below them.
Ahead(c) ==
    {n \in Node :
        /\ c.op = "backup"
        /\ \/ c.pc = "enter" /\ n = c.dir
           \/ c.pc \in {"scan", "recurse"} /\ (n \in c.dirs \/ n \in Orphans(c.dir))
           \/ c.pc = "scan" /\ n \in cursor["src"].left
           \/ c.pc = "check" /\ n \in Orphans(c.dir) /\ Condemned(n) /\ fs["dst"][n] # Absent}

Awaits(n) == \E c \in Frames(stack) : \E m \in Ahead(c) : m \in UpFrom[n]

\* A path is as it was or as it is to be; it is as it is to be, unless some
\* call has yet to see to it.
NothingElse == \A n \in Node : fs["dst"][n] \in {first["dst"][n], Expected(n)}
Complete ==
    status # "aborted" => \A n \in Node : fs["dst"][n] = Expected(n) \/ Awaits(n)

\* BackupThis can be called for d.
May(d) ==
    \/ d = Root
    \/ /\ Reached[Parent[d]]
       /\ Is("dst", Parent[d], "dir")
       /\ Enterable(d)
       /\ first["src"][d] # Absent
       /\ first["src"][d].kind = "dir"

Sound(c) ==
    /\ c.op = "backup" /\ c.pc = "enter" => May(c.dir) /\ c.dirs = {}
    /\ c.op = "backup" /\ c.pc # "enter" =>
           /\ Reached[c.dir]
           /\ Is("dst", c.dir, "dir")
           /\ \A n \in c.dirs : May(n)
    /\ c.pc = "check" => Prunes
    /\ c.op = "delete" => Goes(c.dir) /\ \A n \in c.dirs : Parent[n] = c.dir

\* What the check has passed is not to go.
Checked ==
    In("backup", "check") =>
        \A n \in Orphans(Top.dir) :
            Condemned(n) /\ fs["dst"][n] # Absent => n \in cursor["dst"].left

MirrorInv ==
    /\ TreeInv
    /\ ListedInside
    /\ first \in Trees
    /\ status # "running" => stack = <<>>
    /\ ~Asked
    /\ \A c \in Frames(stack) : Sound(c)
    /\ NothingElse
    /\ Complete
    /\ Checked

-----------------------------------------------------------------------------
(* What the invariant says of the innermost call.                          *)

LEMMA FramesOf ==
    ASSUME NEW st \in Seq(CallType)
    PROVE  /\ st # <<>> => Frames(st) = {Head(st)} \cup Frames(Tail(st))
           /\ \A f \in CallType : Frames(<<f>> \o st) = {f} \cup Frames(st)
<1>1. ASSUME NEW f \in CallType
      PROVE  Frames(<<f>> \o st) = {f} \cup Frames(st)
  <2> DEFINE new == <<f>> \o st
  <2>1. Len(new) = Len(st) + 1 /\ new[1] = f /\ \A i \in 1..Len(st) : new[i + 1] = st[i]
    OBVIOUS
  <2>2. \A j \in 1..Len(new) : j = 1 \/ (j - 1 \in 1..Len(st) /\ new[j] = st[j - 1])
    <3> TAKE j \in 1..Len(new)
    <3>1. j # 1 => j - 1 \in 1..Len(st) /\ (j - 1) + 1 = j
      BY <2>1
    <3> QED BY <2>1, <3>1
  <2>3. \A i \in 1..Len(st) : i + 1 \in 1..Len(new)
    BY <2>1
  <2>4. 1 \in 1..Len(new)
    BY <2>1
  <2> HIDE DEF new
  <2> QED BY <2>1, <2>2, <2>3, <2>4 DEF Frames
<1>2. ASSUME st # <<>>
      PROVE  Frames(st) = {Head(st)} \cup Frames(Tail(st))
  <2> DEFINE new == Tail(st)
  <2>1. /\ Len(st) \in Nat \ {0} /\ Len(new) = Len(st) - 1 /\ Head(st) = st[1]
        /\ \A i \in 1..Len(new) : new[i] = st[i + 1]
    BY <1>2
  <2>2. \A j \in 1..Len(st) : j = 1 \/ (j - 1 \in 1..Len(new) /\ st[j] = new[j - 1])
    <3> TAKE j \in 1..Len(st)
    <3>1. j # 1 => j - 1 \in 1..Len(new) /\ (j - 1) + 1 = j
      BY <2>1
    <3> QED BY <2>1, <3>1
  <2>3. \A i \in 1..Len(new) : i + 1 \in 1..Len(st)
    BY <2>1
  <2>4. 1 \in 1..Len(st)
    BY <2>1
  <2> HIDE DEF new
  <2> QED BY <2>1, <2>2, <2>3, <2>4 DEF Frames
<1> QED BY <1>1, <1>2

LEMMA NoFrames == Frames(<<>>) = {}
BY EmptySeq DEF Frames

LEMMA TopIsSound ==
    ASSUME MirrorInv, stack # <<>>
    PROVE  /\ Top \in CallType /\ Top.op \in {"backup", "delete"}
           /\ Top \in Frames(stack) /\ Sound(Top)
           /\ Tail(stack) \in Seq(CallType)
           /\ Frames(stack) = {Top} \cup Frames(Tail(stack))
<1>1. Stacked(stack) /\ ~Restoring(stack) /\ \A c \in Frames(stack) : Sound(c)
  BY DEF MirrorInv, TreeInv
<1>2. Top \in CallType /\ Top = stack[1] /\ Tail(stack) \in Seq(CallType)
  BY <1>1, TopIsCall DEF Top
<1>3. Frames(stack) = {Top} \cup Frames(Tail(stack))
  BY <1>1, FramesOf DEF Stacked, Top
<1>4. Top.op # "restore"
  <2>1. 1 \in 1..Len(stack)
    BY <1>1 DEF Stacked
  <2> QED BY <1>1, <1>2, <2>1 DEF Restoring
<1>5. Top.op \in {"backup", "delete"}
  BY <1>2, <1>4 DEF CallType
<1> QED BY <1>1, <1>2, <1>3, <1>5

\* The callers are past their scans.
LEMMA CallersWait ==
    ASSUME MirrorInv, stack # <<>>, NEW c \in Frames(Tail(stack))
    PROVE  c \in CallType /\ c.pc \in {"recurse", "check"}
<1>1. Stacked(stack)
  BY DEF MirrorInv, TreeInv
<1>2. PICK i \in 1..Len(Tail(stack)) : c = Tail(stack)[i]
  BY DEF Frames
<1>3. i \in 1..(Len(stack) - 1) /\ c = stack[i + 1] /\ i + 1 \in 1..Len(stack)
  BY <1>1, <1>2 DEF Stacked
<1>4. Calls(stack[i + 1], stack[i]) /\ stack[i + 1] \in CallType
  BY <1>1, <1>3 DEF Stacked
<1> QED BY <1>3, <1>4 DEF Calls

LEMMA SourceIsFirst ==
    ASSUME MirrorInv
    PROVE  fs["src"] = first["src"]
BY DEF MirrorInv, TreeInv, SourceKeptUnlessAsked, Asked

LEMMA FirstEntries ==
    ASSUME MirrorInv, Unattended, NEW s \in Side, NEW n \in Node
    PROVE  /\ first[s][n] \in TreeEntry
           /\ first[s][n] # Absent => first[s][n].mtime # 0
BY TreeAssumption DEF MirrorInv, Unattended, Dated

\* The item of the source folder that the scan is at.
LEMMA Scanned ==
    ASSUME MirrorInv, NEW n \in Node, NEW k, ScanOf(n, k)
    PROVE  /\ stack # <<>> /\ Top.op = "backup" /\ Top.pc = "scan" /\ Parent[n] = Top.dir
           /\ Reached[Parent[n]] /\ Is("dst", Parent[n], "dir")
           /\ n \notin {Root, Above}
           /\ first["src"][n] # Absent /\ first["src"][n].kind = k
           /\ ~Goes(n)
<1>1. stack # <<>> /\ Top.op = "backup" /\ Top.pc = "scan" /\ n \in cursor["src"].left
  BY DEF ScanOf, In
<1>2. Parent[n] = Top.dir
  BY <1>1 DEF ScanOf, MirrorInv, ListedInside, TreeInv, CursorIsMine, Side
<1>3. Reached[Parent[n]] /\ Is("dst", Parent[n], "dir")
  BY <1>1, <1>2, TopIsSound DEF Sound
<1>4. first["src"][n] # Absent /\ first["src"][n].kind = k
  BY SourceIsFirst DEF ScanOf, Is
<1>5. ~Goes(n)
  BY <1>4, SourceKeeps DEF MirrorInv
<1> QED BY <1>1, <1>2, <1>3, <1>4, <1>5, ItemOfReached

-----------------------------------------------------------------------------
(* What is right of one path.                                              *)

\* What the status calls say, when none fails.
LEMMA TrueViews ==
    ASSUME Unattended, NEW e
    PROVE  /\ \A v : Answers(v) = {v}
           /\ Views(e) = {[size |-> getFileSize(e), mtime |-> getModTime(e)]}
<1>1. \A v : Answers(v) = {v}
  BY DEF Unattended, Answers
<1> QED BY <1>1 DEF Views

\* Where neither the options nor the trees have anything to change.
LEMMA RightAsItIs ==
    ASSUME MirrorInv, NEW n \in Node, ~Goes(n), ~Renewed(n),
           ~(Reached[n] /\ first["dst"][n] = Absent)
    PROVE  fs["dst"][n] = Expected(n) /\ Expected(n) = first["dst"][n]
BY ExpectedIs DEF MirrorInv, NothingElse

\* A file that BackupThis leaves as it is, is as it is to be.
LEMMA PassedFile ==
    ASSUME MirrorInv, Unattended, NEW n \in Node, FileToScan(n),
           \E s \in SrcViews(n), d \in DstViews(n) : UpToDate(s, d) \/ NewerBackup(s, d)
    PROVE  fs["dst"][n] = Expected(n) /\ ~Reached[n]
<1>1. ~Reached[n] /\ ~Goes(n)
  BY Scanned, ReachedIs DEF FileToScan, Fits
<1>2. CASE Renewed(n) /\ fs["dst"][n] = first["dst"][n]
  <2>1. PICK v \in Views(first["src"][n]), w \in Views(first["dst"][n]) : NeedsCopy(v, w)
    BY <1>2 DEF Renewed
  <2>2. PICK s \in Views(first["src"][n]), d \in Views(first["dst"][n]) :
            UpToDate(s, d) \/ NewerBackup(s, d)
    BY <1>2, SourceIsFirst DEF SrcViews, DstViews
  <2>3. v = s /\ w = d
    BY <2>1, <2>2, TrueViews
  <2> QED BY <2>1, <2>2, <2>3 DEF NeedsCopy
<1>3. CASE ~Renewed(n)
  BY <1>1, <1>3, RightAsItIs
<1>4. fs["dst"][n] \in {first["dst"][n], Expected(n)}
  BY DEF MirrorInv, NothingElse
<1> QED BY <1>1, <1>2, <1>3, <1>4

\* A copy that nothing disturbs, to a place where a file can be.
LEMMA WholeCopy ==
    ASSUME Unattended, NEW n \in Node, NEW o \in Outcomes("src", n),
           fs["src"][n] \in [kind: Kind, data: Seq(Version), mtime: Nat],
           fs["src"][n].kind = "file"
    PROVE  /\ o.result \in {CFD_SUCCESS, CFD_CREATE_FAIL}
           /\ o.entry \in {fs["dst"][n], fs["src"][n]}
           /\ /\ CanList("dst", Parent[n])
              /\ ~Is("dst", n, "dir") /\ ~Is("dst", n, "link")
              => o.entry = fs["src"][n]
           /\ Is("dst", n, "dir") \/ Is("dst", n, "link") => o.entry = fs["dst"][n]
<1> DEFINE e == fs["src"][n]
           t == fs["dst"][n]
           writable == CanList("dst", Parent[n]) /\ ~Is("dst", n, "dir")
           link == Is("dst", n, "link")
<1>1. FileEntry(e.data, e.mtime) = e
  BY DEF FileEntry
<1>2. Opposite("src") = "dst" /\ Faults = {}
  BY DEF Opposite, Unattended
<1>3. o \in (IF link \/ ~writable THEN {Refused(t, CFD_CREATE_FAIL)} ELSE {})
           \cup (IF ~writable THEN {}
                 ELSE {[entry |-> IF link THEN t ELSE e, result |-> CFD_SUCCESS]})
  BY <1>1, <1>2 DEF Outcomes
<1>4. \/ /\ o.entry = t /\ o.result = CFD_CREATE_FAIL /\ (link \/ ~writable)
      \/ /\ o.result = CFD_SUCCESS /\ writable
         /\ o.entry = IF link THEN t ELSE e
  BY <1>3 DEF Refused
<1> QED BY <1>4

\* A file that BackupThis copies is afterwards as it is to be, or cannot be
\* copied, and nothing else changes.
LEMMA CopiedFile ==
    ASSUME MirrorInv, Unattended, NEW n \in Node, UpdateFile(n)
    PROVE  /\ stack' = Assigned /\ cursor' = Advanced("src", n) /\ UNCHANGED status
           /\ fs'["dst"] = [fs["dst"] EXCEPT ![n] = Expected(n)]
           /\ ~Is("dst", n, "dir") \/ Expected(n) = fs["dst"][n]
           /\ ~Reached[n]
<1>1. FileToScan(n) /\ Transfer("src", n, "src", Assigned)
  BY DEF UpdateFile
<1>2. /\ fs["src"][n] = first["src"][n] /\ first["src"][n] # Absent
      /\ first["src"][n].kind = "file" /\ n \notin {Root, Above} /\ Reached[Parent[n]]
      /\ CanList("dst", Parent[n]) /\ ~Goes(n) /\ n \notin opt.excluded
  BY <1>1, Scanned, SourceIsFirst DEF FileToScan, CanList
<1>3. fs["src"][n] \in [kind: Kind, data: Seq(Version), mtime: Nat]
  BY <1>2, FirstEntries DEF TreeEntry, Side
<1>4. PICK o \in Outcomes("src", n) :
          /\ fs' = [fs EXCEPT !["dst"][n] = o.entry]
          /\ IF Fatal(o.result)
             THEN Abort
             ELSE /\ stack' = Assigned
                  /\ cursor' = Advanced("src", n)
                  /\ UNCHANGED status
  BY <1>1 DEF Transfer, Opposite
<1>5. /\ o.result \in {CFD_SUCCESS, CFD_CREATE_FAIL}
      /\ o.entry \in {fs["dst"][n], fs["src"][n]}
      /\ ~Is("dst", n, "dir") /\ ~Is("dst", n, "link") => o.entry = fs["src"][n]
      /\ Is("dst", n, "dir") \/ Is("dst", n, "link") => o.entry = fs["dst"][n]
  BY <1>2, <1>3, WholeCopy
<1>6. ~Fatal(o.result)
  BY <1>5 DEF Fatal, CFD_SUCCESS, CFD_CREATE_FAIL
<1>7. ~Reached[n]
  BY <1>2, ReachedIs DEF Fits
<1>8. fs["dst"][n] \in {first["dst"][n], Expected(n)}
  BY DEF MirrorInv, NothingElse
<1>9. o.entry = Expected(n)
  <2>1. CASE Is("dst", n, "dir") \/ Is("dst", n, "link")
    <3>1. Renewed(n) => fs["dst"][n] # first["dst"][n]
      BY <2>1 DEF Renewed, Is
    <3>2. ~Renewed(n) => fs["dst"][n] = Expected(n)
      BY <1>2, <1>7, RightAsItIs
    <3> QED BY <1>5, <1>8, <2>1, <3>1, <3>2
  <2>2. CASE ~Is("dst", n, "dir") /\ ~Is("dst", n, "link")
    <3>1. fs["dst"][n] = Absent \/ fs["dst"][n].kind = "file"
      BY <2>2 DEF MirrorInv, TreeInv, TypeOK, TreeEntry, Kind, Is, Side
    <3>2. fs["dst"][n] = first["dst"][n] => Renewed(n)
      BY <1>2, <3>1 DEF UpdateFile, SrcViews, DstViews, Renewed
    <3>3. Renewed(n) => Expected(n) = first["src"][n]
      BY ExpectedIs DEF MirrorInv
    <3>4. ~Renewed(n) => Expected(n) = first["dst"][n] /\ fs["dst"][n] = Expected(n)
      BY <1>2, <1>7, RightAsItIs
    <3> QED BY <1>2, <1>5, <1>8, <2>2, <3>2, <3>3, <3>4
  <2> QED BY <2>1, <2>2
<1>10. fs \in [Side -> [Node -> TreeEntry]]
  BY DEF MirrorInv, TreeInv, TypeOK
<1>11. fs'["dst"] = [fs["dst"] EXCEPT ![n] = Expected(n)]
  BY <1>4, <1>9, <1>10 DEF Side
<1> QED BY <1>4, <1>5, <1>6, <1>7, <1>9, <1>11

-----------------------------------------------------------------------------
(* What a step writes.                                                     *)

\* A step leaves a path of the destination as it is or makes it as it is to
\* be, and takes no folder away that has a source.
Written ==
    \A n \in Node :
        /\ fs'["dst"][n] \in {fs["dst"][n], Expected(n)}
        /\ first["src"][n] # Absent /\ Is("dst", n, "dir") =>
               fs'["dst"][n] # Absent /\ fs'["dst"][n].kind = "dir"

LEMMA WrittenAt ==
    ASSUME MirrorInv, NEW n \in Node, fs'["dst"] = [fs["dst"] EXCEPT ![n] = Expected(n)],
           first["src"][n] = Absent \/ ~Is("dst", n, "dir") \/ Expected(n) = fs["dst"][n]
    PROVE  Written
<1>1. fs["dst"] \in [Node -> TreeEntry]
  BY DEF MirrorInv, TreeInv, TypeOK, Side
<1> QED BY <1>1 DEF Written, Is

LEMMA NothingWritten ==
    ASSUME UNCHANGED fs
    PROVE  Written
BY DEF Written, Is

LEMMA OrphanAsItWas ==
    ASSUME MirrorInv, NEW n \in Node, first["src"][n] = Absent
    PROVE  fs["dst"][n] \in {Absent, first["dst"][n]}
<1>1. ~Renewed(n) /\ ~Reached[n]
  BY ReachedIs DEF Renewed, Fits
<1> QED BY <1>1, ExpectedIs DEF MirrorInv, NothingElse

\* An item of the destination's folder that the check is at.
LEMMA CheckedItem ==
    ASSUME MirrorInv, NEW n \in Node, CheckOf(n)
    PROVE  /\ stack # <<>> /\ Top.op = "backup" /\ Top.pc = "check"
           /\ Parent[n] = Top.dir /\ Reached[Top.dir] /\ Prunes
           /\ n \notin {Root, Above}
<1>1. stack # <<>> /\ Top.op = "backup" /\ Top.pc = "check" /\ n \in cursor["dst"].left
  BY DEF CheckOf, In
<1>2. Parent[n] = cursor["dst"].dir /\ cursor["dst"].dir \in {Top.dir, Absent}
  BY <1>1 DEF CheckOf, MirrorInv, ListedInside, TreeInv, CursorIsMine, Side
<1>3. Parent[n] = Top.dir
  BY <1>2, IsNode, TreeAssumption
<1>4. Reached[Top.dir] /\ Prunes
  BY <1>1, TopIsSound DEF Sound
<1> QED BY <1>1, <1>3, <1>4, ItemOfReached

\* A date of 0 is that of no source.
LEMMA OrphanHasNone ==
    ASSUME MirrorInv, Unattended, NEW n \in Node, NEW k, Orphan(n, k)
    PROVE  /\ first["src"][n] = Absent
           /\ fs["dst"][n] = first["dst"][n] /\ first["dst"][n] # Absent
           /\ first["dst"][n].kind = k
<1>1. getModTime(first["src"][n]) = 0
  BY TrueViews, SourceIsFirst DEF Orphan
<1>2. first["src"][n] = Absent
  BY <1>1, FirstEntries DEF getModTime, Side
<1> QED BY <1>2, OrphanAsItWas DEF Orphan, Is

LEMMA OrphanIsCondemned ==
    ASSUME MirrorInv, Unattended, NEW n \in Node,
           \/ Orphan(n, "file") /\ Deletes(n, opt.file)
           \/ Orphan(n, "dir") /\ Deletes(n, opt.folder)
    PROVE  Condemned(n) /\ Goes(n) /\ first["src"][n] = Absent
<1>1. CheckOf(n)
  BY DEF Orphan
<1>2. Prunes /\ n \notin {Root, Above} /\ Reached[Parent[n]]
  BY <1>1, CheckedItem
<1>3. /\ first["src"][n] = Absent /\ first["dst"][n] # Absent
      /\ \/ first["dst"][n].kind = "file" /\ opt.file = "delete"
         \/ first["dst"][n].kind = "dir" /\ opt.folder = "delete"
  BY OrphanHasNone DEF Deletes, Unattended
<1>4. Condemned(n)
  BY <1>2, <1>3 DEF Condemned, SaidToGo
<1> QED BY <1>3, <1>4, UpFromItself DEF Goes

LEMMA GoesInside ==
    ASSUME NEW n \in Node, Goes(Parent[n])
    PROVE  Goes(n)
BY UpFromParent DEF Goes

\* What deleteFolder removes is to go.
LEMMA DeletionIsRight ==
    ASSUME MirrorInv, Unattended, NEW n \in Node, DeleteItem(n) \/ RemoveFolder
    PROVE  UNCHANGED fs \/ \E m \in Node : Goes(m) /\ fs' = [fs EXCEPT !["dst"][m] = Absent]
<1>1. stack # <<>> /\ Top.op = "delete"
  BY DEF DeleteItem, RemoveFolder, In
<1>2. Top.dir \in Node /\ Goes(Top.dir)
  BY <1>1, TopIsSound DEF Sound, CallType
<1>3. CASE DeleteItem(n)
  <2>1. Parent[n] = Top.dir
    BY <1>3 DEF DeleteItem, In, MirrorInv, ListedInside, TreeInv, CursorIsMine, Side
  <2>2. Goes(n)
    BY <1>2, <2>1, GoesInside
  <2> QED BY <1>3, <2>2 DEF DeleteItem
<1>4. CASE RemoveFolder
  BY <1>2, <1>4 DEF RemoveFolder, Rmdir
<1> QED BY <1>3, <1>4

\* BackupThis enters a folder only if it is reached, and afterwards the folder
\* is as it is to be.
LEMMA Entered ==
    ASSUME MirrorInv, Unattended, EnterFolder
    PROVE  /\ Top.dir \in Node /\ Reached[Top.dir] /\ Written
           /\ fs'["dst"][Top.dir] = Expected(Top.dir)
           /\ fs'["dst"][Top.dir] # Absent /\ fs'["dst"][Top.dir].kind = "dir"
<1> DEFINE d == Top.dir
<1>1. stack # <<>> /\ Top.op = "backup" /\ Top.pc = "enter" /\ CanList("src", d)
  BY DEF EnterFolder, In
<1>2. d \in Node /\ May(d)
  BY <1>1, TopIsSound DEF Sound, CallType
<1>3. first["src"][d] # Absent /\ first["src"][d].kind = "dir" /\ fs["src"][d] = first["src"][d]
  BY <1>1, SourceIsFirst DEF CanList, Is
<1>4. ~Goes(d) /\ ~Renewed(d)
  BY <1>2, <1>3, SourceKeeps DEF MirrorInv, Renewed
<1>5. d = Root \/ (d # Above /\ Reached[Parent[d]] /\ Enterable(d))
  BY <1>2, ItemOfReached DEF May
<1>6. first["dst"][d] = Absent \/ first["dst"][d].kind = "dir" => Reached[d]
  BY <1>2, <1>3, <1>5, ReachedIs DEF Fits
<1>7. fs["dst"][d] \in {first["dst"][d], Expected(d)}
  BY <1>2 DEF MirrorInv, NothingElse
<1>8. \/ Reached[d] /\ first["dst"][d] = Absent
      \/ fs["dst"][d] = first["dst"][d] /\ Expected(d) = first["dst"][d]
  BY <1>2, <1>4, RightAsItIs
<1>9. CASE Is("dst", d, "dir") /\ UNCHANGED fs
  <2>1. Reached[d]
    BY <1>6, <1>8, <1>9 DEF Is
  <2>2. fs["dst"][d] = Expected(d)
    <3>1. first["dst"][d] = Absent => fs["dst"][d] = Expected(d)
      BY <1>7, <1>9 DEF Is
    <3> QED BY <1>8, <3>1
  <2> QED BY <1>2, <1>9, <2>1, <2>2, NothingWritten DEF Is
<1>10. CASE /\ fs["dst"][d] = Absent
            /\ fs' = [fs EXCEPT !["dst"][d] = [fs["src"][d] EXCEPT !.mtime = Now]]
  <2>1. first["dst"][d] = Absent /\ Reached[d]
    BY <1>6, <1>8, <1>10
  <2>2. Expected(d) = [first["src"][d] EXCEPT !.mtime = Now]
    BY <1>2, <2>1, ExpectedIs DEF MirrorInv
  <2>3. fs \in [Side -> [Node -> TreeEntry]]
    BY DEF MirrorInv, TreeInv, TypeOK
  <2>4. fs'["dst"] = [fs["dst"] EXCEPT ![d] = Expected(d)]
    BY <1>3, <1>10, <2>2, <2>3 DEF Side
  <2>5. first["src"][d] \in [kind: Kind, data: Seq(Version), mtime: Nat]
    BY <1>2, <1>3, <2>3 DEF TreeEntry, Side
  <2>6. Expected(d).kind = "dir" /\ Expected(d) \in [kind: Kind, data: Seq(Version), mtime: Nat]
    BY <1>3, <2>2, <2>5, TreeAssumption
  <2>7. Expected(d) # Absent
    BY <2>6, TreeAssumption
  <2>8. ~Is("dst", d, "dir")
    BY <1>10 DEF Is
  <2>9. Written
    BY <1>2, <2>4, <2>8, WrittenAt
  <2>10. fs'["dst"][d] = Expected(d)
    BY <1>2, <2>3, <2>4 DEF Side
  <2> QED BY <1>2, <2>1, <2>6, <2>7, <2>9, <2>10
<1> QED BY <1>9, <1>10 DEF EnterFolder

LEMMA StepWritten ==
    ASSUME MirrorInv, Unattended, Next
    PROVE  Written
<1>1. ~In("restore", "enter") /\ ~In("restore", "scan")
  BY TopIsSound DEF In
<1>2. fs \in [Side -> [Node -> TreeEntry]]
  BY DEF MirrorInv, TreeInv, TypeOK
<1>3. ASSUME NEW m \in Node, Goes(m), fs' = [fs EXCEPT !["dst"][m] = Absent]
      PROVE  Written
  <2>1. Expected(m) = Absent /\ first["src"][m] = Absent
    BY <1>3, ExpectedIs, SourceKeeps DEF MirrorInv
  <2>2. fs'["dst"] = [fs["dst"] EXCEPT ![m] = Expected(m)]
    BY <1>2, <1>3, <2>1 DEF Side
  <2> QED BY <2>1, <2>2, WrittenAt
<1>4. ASSUME NEW n \in Node, Item(n)
      PROVE  Written
  <2>1. CASE UpdateFile(n)
    BY <2>1, CopiedFile, WrittenAt
  <2>2. CASE BackupNewer(n) \/ RestoreNewer(n) \/ RestoreOrphan(n) \/ RestoreFile(n)
    BY <1>1, <2>2 DEF BackupNewer, RestoreNewer, RestoreOrphan, RestoreFile, Unattended
  <2>3. CASE DeleteOrphan(n)
    <3>1. Goes(n)
      BY <2>3, OrphanIsCondemned DEF DeleteOrphan
    <3> QED BY <1>3, <2>3, <3>1, NothingWritten DEF DeleteOrphan
  <2>4. CASE DeleteItem(n)
    BY <1>3, <2>4, DeletionIsRight, NothingWritten
  <2>5. CASE \/ LeaveNewer(n) \/ LeaveNewerAndAbort(n) \/ LeaveOrphan(n)
             \/ DeleteOrphanFolder(n) \/ RestoreOrphanFolder(n)
             \/ PassItem(n) \/ NoteFolder(n) \/ PassChecked(n) \/ RestoreOther(n)
    BY <2>5, NothingWritten
    DEF LeaveNewer, LeaveNewerAndAbort, LeaveOrphan, DeleteOrphanFolder,
        RestoreOrphanFolder, PassItem, NoteFolder, PassChecked, RestoreOther
  <2> QED BY <1>4, <2>1, <2>2, <2>3, <2>4, <2>5 DEF Item
<1>5. CASE EnterFolder
  BY <1>5, Entered
<1>6. CASE RemoveFolder
  BY <1>3, <1>6, DeletionIsRight, NothingWritten, TreeAssumption
<1>7. CASE \/ EnterUnlisted \/ EnterRefused \/ EndScan \/ Recurse \/ BeginCheck \/ EndFolder
           \/ EnterDelete \/ EndDeleteScan \/ DeleteRecurse
           \/ EnterRestoreFails \/ EndRestoreScan \/ RestoreRecurse \/ EndRestore \/ Done
  BY <1>7, NothingWritten
  DEF EnterUnlisted, EnterRefused, EndScan, Recurse, BeginCheck, EndFolder, EnterDelete,
      EndDeleteScan, DeleteRecurse, EnterRestoreFails, EndRestoreScan, RestoreRecurse,
      EndRestore, Done
<1>8. ~EnterRestore
  BY <1>1 DEF EnterRestore
<1> QED BY <1>4, <1>5, <1>6, <1>7, <1>8 DEF Next

-----------------------------------------------------------------------------
(* What is still ahead after a step.                                       *)

LEMMA MayStays ==
    ASSUME MirrorInv, Written, UNCHANGED <<opt, first>>, NEW d \in Node, May(d)
    PROVE  May(d)'
<1>1. Reached' = Reached
  BY ReachedStays
<1>2. ASSUME Reached[Parent[d]], Is("dst", Parent[d], "dir")
      PROVE  Is("dst", Parent[d], "dir")'
  <2>1. first["src"][Parent[d]] # Absent /\ Parent[d] \in Node
    BY <1>2, IsNode, ReachedIs DEF Fits
  <2> QED BY <1>2, <2>1 DEF Written, Is
<1> QED BY <1>1, <1>2 DEF May, Enterable

LEMMA SoundStays ==
    ASSUME MirrorInv, Written, UNCHANGED <<opt, first>>, NEW c \in CallType, Sound(c)
    PROVE  Sound(c)'
<1>1. Reached' = Reached /\ Prunes' = Prunes
  BY ReachedStays DEF Prunes
<1>2. c.dir \in Node /\ c.dirs \subseteq Node
  BY DEF CallType
<1>3. Reached[c.dir] /\ Is("dst", c.dir, "dir") => Is("dst", c.dir, "dir")'
  <2>1. Reached[c.dir] => first["src"][c.dir] # Absent
    BY <1>2, ReachedIs DEF Fits
  <2> QED BY <1>2, <2>1 DEF Written, Is
<1>4. Goes(c.dir) => Goes(c.dir)'
  BY <1>2, ExpectationStays
<1>5. May(c.dir) => May(c.dir)'
  BY <1>2, MayStays
<1>6. \A n \in c.dirs : May(n) => May(n)'
  BY <1>2, MayStays
<1> QED BY <1>1, <1>3, <1>4, <1>5, <1>6 DEF Sound

\* Below what is gone, all is gone.
LEMMA GoneBelow ==
    ASSUME MirrorInv, TreeInv', NEW m \in Node, Condemned(m), fs'["dst"][m] = Absent,
           NEW n \in Node, m \in UpFrom[n]
    PROVE  fs'["dst"][n] = Expected(n)
<1>1. \A k \in Node : fs'["dst"][k] # Absent =>
          fs'["dst"][Parent[k]] # Absent /\ fs'["dst"][Parent[k]].kind = "dir"
  BY DEF TreeInv, TypeOK, CanList, Is, Side
<1>2. fs'["dst"][n] = Absent
  BY <1>1, NothingInside
<1>3. Goes(n)
  BY DEF Goes
<1> QED BY <1>2, <1>3, ExpectedIs DEF MirrorInv

\* Below what is neither reached nor goes, all is as it was.
LEMMA RightBelow ==
    ASSUME MirrorInv, Written, NEW d \in Node \ {Root, Above}, ~Reached[d], ~Goes(d),
           fs["dst"][d] = Expected(d) \/ fs'["dst"][d] = Expected(d),
           NEW n \in Node, d \in UpFrom[n]
    PROVE  fs'["dst"][n] = Expected(n)
<1>1. CASE n = d
  BY <1>1 DEF Written
<1>2. CASE n # d
  <2>1. Expected(n) = first["dst"][n]
    BY <1>2, NothingExpectedBelow DEF MirrorInv
  <2> QED BY <2>1 DEF MirrorInv, NothingElse, Written
<1> QED BY <1>1, <1>2

\* A caller's paths are still ahead of it, or gone.
LEMMA AheadStays ==
    ASSUME MirrorInv, Written, UNCHANGED <<opt, first>>,
           NEW c \in CallType, c.pc # "scan", NEW m \in Ahead(c)
    PROVE  m \in Ahead(c)' \/ (Condemned(m) /\ fs'["dst"][m] = Absent)
<1>1. m \in Node /\ Orphans(c.dir)' = Orphans(c.dir)
  BY DEF Ahead, Orphans
<1>2. Condemned(m)' <=> Condemned(m)
  BY <1>1, ExpectationStays
<1> QED BY <1>1, <1>2 DEF Ahead

\* The innermost call is replaced by the calls in New, and all that was ahead
\* of it is ahead of them, or right.
LEMMA FrameStep ==
    ASSUME MirrorInv, Written, UNCHANGED <<opt, first>>, TreeInv', stack # <<>>,
           NEW New \in SUBSET CallType,
           Frames(stack') = New \cup Frames(Tail(stack)),
           \A c \in New : Sound(c)',
           status # "aborted",
           \A m \in Ahead(Top), n \in Node : m \in UpFrom[n] =>
               fs'["dst"][n] = Expected(n) \/ \E c \in New : \E k \in Ahead(c)' : k \in UpFrom[n]
    PROVE  Complete' /\ \A c \in Frames(stack') : Sound(c)'
<1>1. ASSUME NEW c \in Frames(Tail(stack))
      PROVE  Sound(c)'
  <2>1. c \in CallType
    BY CallersWait
  <2>2. Sound(c)
    BY TopIsSound DEF MirrorInv
  <2> QED BY <2>1, <2>2, SoundStays
<1>2. ASSUME NEW n \in Node
      PROVE  (fs["dst"][n] = Expected(n) \/ Awaits(n))'
  <2>1. Expected(n)' = Expected(n)
    BY ExpectationStays
  <2>2. CASE fs["dst"][n] = Expected(n)
    BY <2>1, <2>2 DEF Written
  <2>3. ASSUME NEW c \in Frames(stack), NEW m \in Ahead(c), m \in UpFrom[n]
        PROVE  fs'["dst"][n] = Expected(n) \/ Awaits(n)'
    <3>1. CASE c = Top
      BY <2>3, <3>1 DEF Awaits
    <3>2. CASE c \in Frames(Tail(stack))
      <4>1. c \in CallType /\ c.pc # "scan" /\ c \in Frames(stack')
        BY <3>2, CallersWait
      <4>2. m \in Ahead(c)' \/ (Condemned(m) /\ fs'["dst"][m] = Absent)
        BY <4>1, AheadStays
      <4>3. m \in Node
        BY DEF Ahead
      <4>4. Condemned(m) /\ fs'["dst"][m] = Absent => fs'["dst"][n] = Expected(n)
        BY <2>3, <4>3, GoneBelow
      <4>5. m \in Ahead(c)' => Awaits(n)'
        BY <2>3, <4>1 DEF Awaits
      <4> QED BY <4>2, <4>4, <4>5
    <3> QED BY <3>1, <3>2, TopIsSound
  <2>4. fs["dst"][n] = Expected(n) \/ Awaits(n)
    BY DEF MirrorInv, Complete
  <2> QED BY <2>1, <2>2, <2>3, <2>4 DEF Awaits
<1>3. Complete'
  BY <1>2 DEF Complete
<1> QED BY <1>1, <1>3

-----------------------------------------------------------------------------
(* BackupThis goes on.                                                     *)

\* The invariant's part that speaks of calls.
CallsRight == Complete /\ \A c \in Frames(stack) : Sound(c)

LEMMA AbortStep ==
    ASSUME Abort
    PROVE  CallsRight'
<1>1. Complete'
  BY DEF Abort, Complete
<1>2. Frames(stack') = {}
  BY NoFrames DEF Abort
<1> QED BY <1>1, <1>2 DEF CallsRight

\* The innermost call goes on as f.
LEMMA TopGoesOn ==
    ASSUME MirrorInv, Written, UNCHANGED <<opt, first>>, TreeInv', stack # <<>>,
           NEW f \in CallType, stack' = WithTop(f), Sound(f)', status # "aborted",
           \A m \in Ahead(Top), n \in Node : m \in UpFrom[n] =>
               fs'["dst"][n] = Expected(n) \/ \E k \in Ahead(f)' : k \in UpFrom[n]
    PROVE  CallsRight'
<1>1. Frames(stack') = {f} \cup Frames(Tail(stack))
  BY TopIsSound, FramesOf DEF WithTop
<1> DEFINE New == {f}
<1>2. New \in SUBSET CallType /\ f \in New /\ \A c \in New : Sound(c)'
  OBVIOUS
<1>3. Frames(stack') = New \cup Frames(Tail(stack))
  BY <1>1
<1>4. ASSUME NEW m \in Ahead(Top), NEW n \in Node, m \in UpFrom[n]
      PROVE  fs'["dst"][n] = Expected(n) \/ \E c \in New : \E k \in Ahead(c)' : k \in UpFrom[n]
  BY <1>2, <1>4
<1> HIDE DEF New
<1>5. Complete' /\ \A c \in Frames(stack') : Sound(c)'
  BY <1>2, <1>3, <1>4, FrameStep
<1> QED BY <1>5 DEF CallsRight

LEMMA TopStays ==
    ASSUME MirrorInv, Written, UNCHANGED <<opt, first>>, TreeInv', stack # <<>>,
           UNCHANGED stack, status # "aborted",
           \A m \in Ahead(Top), n \in Node : m \in UpFrom[n] =>
               fs'["dst"][n] = Expected(n) \/ \E k \in Ahead(Top)' : k \in UpFrom[n]
    PROVE  CallsRight'
<1>1. \A f \in CallType : f = Top => stack = WithTop(f)
  BY DEF MirrorInv, TreeInv, Stacked, WithTop, Top
<1>2. PICK f \in CallType : f = Top
  BY TopIsSound
<1>3. Sound(f)'
  BY <1>2, TopIsSound, SoundStays
<1>4. Top' = f
  BY <1>2 DEF Top
<1> QED BY <1>1, <1>2, <1>3, <1>4, TopGoesOn

\* The innermost call goes on as g, and calls b.
LEMMA CallStep ==
    ASSUME MirrorInv, Written, UNCHANGED <<opt, first>>, TreeInv', stack # <<>>,
           status # "aborted",
           NEW b \in CallType, NEW g \in CallType, stack' = <<b>> \o WithTop(g),
           Sound(b), Sound(g),
           \A m \in Ahead(Top) :
               m \in Ahead(g)' \/ m \in Ahead(b)' \/ (Condemned(m) /\ fs'["dst"][m] = Absent)
    PROVE  CallsRight'
<1> DEFINE New == {b, g}
<1>1. New \in SUBSET CallType /\ b \in New /\ g \in New /\ \A c \in New : Sound(c)'
  BY SoundStays
<1>2. Frames(stack') = New \cup Frames(Tail(stack))
  <2>1. Tail(stack) \in Seq(CallType) /\ WithTop(g) = <<g>> \o Tail(stack)
    BY TopIsSound DEF WithTop
  <2>2. WithTop(g) \in Seq(CallType)
    BY <2>1
  <2>3. Frames(WithTop(g)) = {g} \cup Frames(Tail(stack))
    BY <2>1, FramesOf
  <2>4. Frames(stack') = {b} \cup Frames(WithTop(g))
    BY <2>2, FramesOf
  <2> QED BY <2>3, <2>4
<1>3. ASSUME NEW m \in Ahead(Top), NEW n \in Node, m \in UpFrom[n]
      PROVE  fs'["dst"][n] = Expected(n) \/ \E c \in New : \E k \in Ahead(c)' : k \in UpFrom[n]
  <2>1. CASE m \in Ahead(g)' \/ m \in Ahead(b)'
    BY <1>1, <1>3, <2>1
  <2>2. CASE Condemned(m) /\ fs'["dst"][m] = Absent
    <3>1. m \in Node
      BY DEF Ahead
    <3> QED BY <1>3, <2>2, <3>1, GoneBelow
  <2> QED BY <2>1, <2>2
<1> HIDE DEF New
<1>4. Complete' /\ \A c \in Frames(stack') : Sound(c)'
  BY <1>1, <1>2, <1>3, FrameStep
<1> QED BY <1>4 DEF CallsRight

\* The innermost call returns, and nothing is ahead of it that is not right.
LEMMA CallReturns ==
    ASSUME MirrorInv, Written, UNCHANGED <<opt, first>>, TreeInv', stack # <<>>,
           status # "aborted", stack' = Tail(stack),
           \A m \in Ahead(Top), n \in Node : m \in UpFrom[n] => fs'["dst"][n] = Expected(n)
    PROVE  CallsRight'
<1>1. {} \in SUBSET CallType /\ Frames(stack') = {} \cup Frames(Tail(stack))
  OBVIOUS
<1>2. Complete' /\ \A c \in Frames(stack') : Sound(c)'
  BY <1>1, FrameStep
<1> QED BY <1>2 DEF CallsRight

\* An item of the source folder has been seen to: it is right, or in the list.
LEMMA ItemSeenTo ==
    ASSUME MirrorInv, Written, UNCHANGED <<opt, first>>, TreeInv', stack # <<>>,
           NEW n \in Node, NEW j, ScanOf(n, j), cursor' = Advanced("src", n),
           NEW f \in CallType, stack' = WithTop(f),
           f.op = Top.op, f.pc = Top.pc, f.dir = Top.dir,
           f.dirs = Top.dirs \/ (f.dirs = Top.dirs \cup {n} /\ May(n)),
           \/ n \in f.dirs
           \/ ~Reached[n] /\ (fs["dst"][n] = Expected(n) \/ fs'["dst"][n] = Expected(n))
    PROVE  CallsRight'
<1>1. /\ Top.op = "backup" /\ Top.pc = "scan" /\ n \notin {Root, Above} /\ ~Goes(n)
      /\ status # "aborted"
  BY Scanned DEF MirrorInv
<1>2. Sound(f)'
  <2>1. Top \in CallType /\ Sound(Top)
    BY TopIsSound
  <2>2. Sound(f)
    BY <1>1, <2>1 DEF Sound
  <2> QED BY <2>2, SoundStays
<1>3. cursor \in CursorType
  BY DEF MirrorInv, TreeInv, TypeOK, CursorType
<1>4. \A m \in cursor["src"].left : m = n \/ m \in cursor'["src"].left
  BY <1>3 DEF Advanced, CursorType, Side
<1>5. Orphans(f.dir)' = Orphans(Top.dir)
  BY DEF Orphans
<1>6. ASSUME NEW m \in Ahead(Top)
      PROVE  m \in Ahead(f)' \/ (m = n /\ n \notin f.dirs)
  <2>1. m \in Node /\ (m \in Top.dirs \/ m \in Orphans(Top.dir) \/ m \in cursor["src"].left)
    BY <1>1 DEF Ahead
  <2>2. m \in f.dirs \/ m \in Orphans(f.dir)' \/ m = n \/ m \in cursor'["src"].left
    BY <1>4, <1>5, <2>1
  <2> QED BY <1>1, <2>1, <2>2 DEF Ahead
<1>7. ASSUME NEW m \in Ahead(Top), NEW x \in Node, m \in UpFrom[x]
      PROVE  fs'["dst"][x] = Expected(x) \/ \E k \in Ahead(f)' : k \in UpFrom[x]
  BY <1>1, <1>6, <1>7, RightBelow
<1> QED BY <1>1, <1>2, <1>7, TopGoesOn

LEMMA ScanStep ==
    ASSUME MirrorInv, Unattended, Written, UNCHANGED <<opt, first>>, TreeInv',
           NEW n \in Node, PassItem(n) \/ UpdateFile(n) \/ LeaveNewer(n) \/ NoteFolder(n)
    PROVE  CallsRight'
<1> DEFINE Right == ~Reached[n] /\ (fs["dst"][n] = Expected(n) \/ fs'["dst"][n] = Expected(n))
<1>1. PICK j : ScanOf(n, j)
  BY DEF PassItem, UpdateFile, LeaveNewer, NoteFolder, QuestionNewer, FileToScan
<1>2. /\ stack # <<>> /\ n \notin {Root, Above} /\ Reached[Parent[n]]
      /\ first["src"][n] # Absent /\ first["src"][n].kind = j /\ ~Goes(n)
      /\ Is("dst", Parent[n], "dir")
  BY <1>1, Scanned
<1>3. PICK f \in CallType : f = Top
  BY <1>2, TopIsSound
<1>4. CASE NoteFolder(n)
  <2> DEFINE g == [f EXCEPT !.dirs = @ \cup {n}]
  <2>1. /\ g \in CallType /\ g.op = Top.op /\ g.pc = Top.pc /\ g.dir = Top.dir
        /\ g.dirs = Top.dirs \cup {n}
    BY <1>3 DEF CallType
  <2>2. May(n)
    BY <1>2, <1>4, Scanned DEF NoteFolder, May, Enterable
  <2>3. stack' = WithTop(g) /\ cursor' = Advanced("src", n)
    BY <1>3, <1>4 DEF NoteFolder, Noted
  <2> HIDE DEF g
  <2> QED BY <1>1, <1>2, <2>1, <2>2, <2>3, ItemSeenTo
<1>5. CASE UpdateFile(n)
  <2> DEFINE g == [f EXCEPT !.assigned = TRUE]
  <2>1. /\ g \in CallType /\ g.op = Top.op /\ g.pc = Top.pc /\ g.dir = Top.dir
        /\ g.dirs = Top.dirs
    BY <1>3 DEF CallType
  <2>2. stack' = WithTop(g) /\ cursor' = Advanced("src", n)
    BY <1>3, <1>5, CopiedFile DEF Assigned
  <2>3. fs'["dst"][n] = Expected(n) /\ ~Reached[n]
    BY <1>5, CopiedFile DEF MirrorInv, TreeInv, TypeOK, Side
  <2> HIDE DEF g
  <2> QED BY <1>1, <1>2, <2>1, <2>2, <2>3, ItemSeenTo
<1>6. CASE PassItem(n) \/ LeaveNewer(n)
  <2>1. UNCHANGED stack /\ cursor' = Advanced("src", n)
    BY <1>6 DEF PassItem, LeaveNewer
  <2>2. stack' = WithTop(f)
    BY <1>2, <1>3, <2>1 DEF MirrorInv, TreeInv, Stacked, WithTop, Top
  <2>3. CASE /\ FileToScan(n)
             /\ \E s \in SrcViews(n), d \in DstViews(n) : UpToDate(s, d) \/ NewerBackup(s, d)
    <3>1. fs["dst"][n] = Expected(n) /\ ~Reached[n]
      BY <2>3, PassedFile
    <3> QED BY <1>1, <1>2, <1>3, <2>1, <2>2, <3>1, ItemSeenTo
  <2>4. CASE \/ ScanOf(n, "file") /\ n \in opt.excluded
             \/ ScanOf(n, "dir") /\ (n \in opt.excluded \/ ~opt.recursive)
             \/ ScanOf(n, "link")
    <3>1. ~Reached[n] /\ ~Renewed(n)
      BY <1>2, <2>4, Scanned, ReachedIs DEF Fits, Enterable, Renewed
    <3>2. fs["dst"][n] = Expected(n)
      BY <1>2, <3>1, RightAsItIs
    <3> QED BY <1>1, <1>2, <1>3, <2>1, <2>2, <3>1, <3>2, ItemSeenTo
  <2> QED BY <1>6, <2>3, <2>4 DEF PassItem, LeaveNewer, QuestionNewer
<1> QED BY <1>4, <1>5, <1>6

\* What has no source in a folder that is reached, and is not to go or is gone.
LEMMA OrphanSettled ==
    ASSUME MirrorInv, Written, TreeInv', NEW d \in Node, Reached[d],
           NEW m \in Orphans(d), ~Condemned(m) \/ fs'["dst"][m] = Absent,
           NEW n \in Node, m \in UpFrom[n]
    PROVE  fs'["dst"][n] = Expected(n)
<1>1. m \in Node /\ Parent[m] = d /\ first["src"][m] = Absent
  BY DEF Orphans
<1>2. m \notin {Root, Above} /\ ~Reached[m] /\ ~Renewed(m)
  BY <1>1, ItemOfReached, ReachedIs DEF Fits, Renewed
<1>3. CASE Condemned(m)
  BY <1>1, <1>3, GoneBelow
<1>4. CASE ~Condemned(m)
  <2>1. ~Goes(d)
    BY SourceKeeps, ReachedIs DEF MirrorInv, Fits
  <2>2. ~Goes(m)
    BY <1>1, <1>4, <2>1, ParentBelow DEF Goes
  <2>3. fs["dst"][m] = Expected(m)
    BY <1>1, <1>2, <2>2, RightAsItIs
  <2> QED BY <1>1, <1>2, <2>2, <2>3, RightBelow
<1> QED BY <1>3, <1>4

\* The places in BackupThis at which it enters, has scanned, and begins to check.
LEMMA PhaseStep ==
    ASSUME MirrorInv, Unattended, Written, UNCHANGED <<opt, first>>, TreeInv',
           EnterFolder \/ EnterUnlisted \/ EndScan \/ BeginCheck
    PROVE  CallsRight'
<1>1. stack # <<>> /\ Top.op = "backup" /\ status # "aborted"
  BY DEF EnterFolder, EnterUnlisted, EndScan, BeginCheck, In, MirrorInv
<1>2. PICK f \in CallType : f = Top
  BY <1>1, TopIsSound
<1> DEFINE d == f.dir
<1>3. Sound(f) /\ d \in Node
  BY <1>1, <1>2, TopIsSound DEF CallType
<1>4. Orphans(d)' = Orphans(d)
  BY DEF Orphans
<1>5. CASE EnterFolder
  <2> DEFINE g == [f EXCEPT !.pc = "scan"]
  <2>1. /\ g \in CallType /\ g.op = "backup" /\ g.pc = "scan" /\ g.dir = d
        /\ g.dirs = {}
    BY <1>1, <1>2, <1>3, <1>5 DEF CallType, EnterFolder, In, Sound
  <2>2. /\ Reached[d] /\ fs'["dst"][d] = Expected(d)
        /\ fs'["dst"][d] # Absent /\ fs'["dst"][d].kind = "dir"
        /\ first["src"][d] # Absent
    BY <1>2, <1>3, <1>5, Entered, ReachedIs DEF Fits
  <2>3. stack' = WithTop(g) /\ cursor' = [cursor EXCEPT !["src"] = Opened("src", d)]
    BY <1>2, <1>5 DEF EnterFolder, At
  <2>4. Sound(g)'
    BY <2>1, <2>2, ReachedStays DEF Sound, Is
  <2>5. \A c \in Node : c # d /\ Parent[c] = d /\ c \notin Orphans(d) => c \in cursor'["src"].left
    BY <2>3, SourceIsFirst DEF MirrorInv, TreeInv, TypeOK, Opened, Listing, Orphans, Side
  <2>6. ASSUME NEW m \in Ahead(Top), NEW n \in Node, m \in UpFrom[n]
        PROVE  fs'["dst"][n] = Expected(n) \/ \E k \in Ahead(g)' : k \in UpFrom[n]
    <3>1. m = d
      BY <1>2, <1>5 DEF Ahead, EnterFolder, In
    <3>2. CASE n = d
      BY <2>2, <3>2
    <3>3. CASE n # d
      <4>1. PICK c \in Node : c # d /\ Parent[c] = d /\ c \in UpFrom[n]
        BY <2>6, <3>1, <3>3, ItemBetween
      <4>2. c \in Orphans(d)' \/ c \in cursor'["src"].left
        BY <1>4, <2>5, <4>1
      <4>3. c \in Ahead(g)'
        BY <2>1, <4>1, <4>2 DEF Ahead
      <4> QED BY <4>1, <4>3
    <3> QED BY <3>2, <3>3
  <2> HIDE DEF g
  <2> QED BY <1>1, <2>1, <2>3, <2>4, <2>6, TopGoesOn
<1>6. CASE EnterUnlisted
  <2>1. ~CanList("src", d)
    BY <1>2, <1>6 DEF EnterUnlisted, Unattended
  <2>2. d = Root
    <3>1. May(d)
      BY <1>1, <1>2, <1>3, <1>6 DEF EnterUnlisted, In, Sound
    <3> QED BY <2>1, <3>1, SourceIsFirst DEF May, CanList, Is
  <2> QED BY <1>2, <1>6, <2>2, AbortStep DEF EnterUnlisted
<1>7. CASE EndScan
  <2> DEFINE g == [f EXCEPT !.pc = "recurse"]
  <2>1. /\ g \in CallType /\ g.op = "backup" /\ g.pc = "recurse" /\ g.dir = d
        /\ g.dirs = f.dirs /\ f.pc = "scan" /\ f.op = "backup"
    BY <1>1, <1>2, <1>7 DEF CallType, EndScan, In
  <2>2. stack' = WithTop(g) /\ cursor["src"].left = {}
    BY <1>2, <1>7 DEF EndScan, At
  <2>3. Sound(g)
    BY <1>2, <1>3, <2>1 DEF Sound
  <2>4. Sound(g)'
    BY <2>1, <2>3, SoundStays
  <2>5. \A m \in Ahead(Top) : m \in Ahead(g)'
    BY <1>2, <1>4, <2>1, <2>2 DEF Ahead
  <2> HIDE DEF g
  <2> QED BY <1>1, <2>1, <2>2, <2>4, <2>5, TopGoesOn
<1>8. CASE BeginCheck
  <2> DEFINE g == [f EXCEPT !.pc = "check"]
  <2>1. /\ g \in CallType /\ g.op = "backup" /\ g.pc = "check" /\ g.dir = d
        /\ g.dirs = f.dirs /\ f.pc = "recurse" /\ f.op = "backup" /\ f.dirs = {}
    BY <1>1, <1>2, <1>8 DEF CallType, BeginCheck, In
  <2>2. stack' = WithTop(g) /\ Prunes
    BY <1>2, <1>8 DEF BeginCheck, At
  <2>3. Sound(g) /\ Reached[d]
    BY <1>2, <1>3, <2>1, <2>2 DEF Sound
  <2>4. Sound(g)'
    BY <2>1, <2>3, SoundStays
  <2>5. ASSUME NEW m \in Ahead(Top), NEW n \in Node, m \in UpFrom[n]
        PROVE  fs'["dst"][n] = Expected(n) \/ \E k \in Ahead(g)' : k \in UpFrom[n]
    <3>1. m \in Orphans(d) /\ m \in Node
      BY <1>2, <2>1 DEF Ahead
    <3>2. CASE Condemned(m) /\ fs'["dst"][m] # Absent
      <4>1. Condemned(m)'
        BY <3>1, <3>2, ExpectationStays
      <4>2. m \in Ahead(g)'
        BY <1>4, <2>1, <3>1, <3>2, <4>1 DEF Ahead
      <4> QED BY <2>5, <4>2
    <3>3. CASE ~(Condemned(m) /\ fs'["dst"][m] # Absent)
      BY <1>3, <2>3, <2>5, <3>1, <3>3, OrphanSettled
    <3> QED BY <3>2, <3>3
  <2> HIDE DEF g
  <2> QED BY <1>1, <2>1, <2>2, <2>4, <2>5, TopGoesOn
<1> QED BY <1>5, <1>6, <1>7, <1>8

LEMMA RecurseStep ==
    ASSUME MirrorInv, Written, UNCHANGED <<opt, first>>, TreeInv', Recurse
    PROVE  CallsRight'
<1>1. /\ stack # <<>> /\ Top.op = "backup" /\ Top.pc = "recurse" /\ status # "aborted"
      /\ \E d \in Top.dirs : Descend(d)
  BY DEF Recurse, In, MirrorInv
<1>2. PICK f \in CallType : f = Top
  BY <1>1, TopIsSound
<1>3. PICK d \in f.dirs : Descend(d)
  BY <1>1, <1>2
<1>4. Sound(f) /\ d \in Node /\ May(d)
  BY <1>1, <1>2, TopIsSound DEF Sound, CallType
<1> DEFINE g == [f EXCEPT !.dirs = @ \ {d}]
           b == Call("backup", d, f.len + 1)
<1>5. /\ g \in CallType /\ g.op = "backup" /\ g.pc = "recurse" /\ g.dir = f.dir
      /\ g.dirs = f.dirs \ {d}
      /\ b \in CallType /\ b.op = "backup" /\ b.pc = "enter" /\ b.dir = d /\ b.dirs = {}
  BY <1>1, <1>2, <1>4 DEF CallType, Call
<1>6. stack' = <<b>> \o WithTop(g)
  BY <1>1, <1>2, <1>3 DEF Descend
<1> HIDE DEF g, b
<1>7. Sound(g) /\ Sound(b)
  BY <1>1, <1>2, <1>4, <1>5 DEF Sound
<1>8. Orphans(f.dir)' = Orphans(f.dir)
  BY DEF Orphans
<1>9. \A m \in Ahead(Top) : m \in Ahead(g)' \/ m \in Ahead(b)'
  BY <1>1, <1>2, <1>5, <1>8 DEF Ahead
<1>10. \A m \in Ahead(Top) :
        m \in Ahead(g)' \/ m \in Ahead(b)' \/ (Condemned(m) /\ fs'["dst"][m] = Absent)
  BY <1>9
<1> QED BY <1>1, <1>5, <1>6, <1>7, <1>10, CallStep

\* BackupThis returns.
LEMMA ReturnStep ==
    ASSUME MirrorInv, Unattended, Written, UNCHANGED <<opt, first>>, TreeInv',
           EnterRefused \/ EndFolder
    PROVE  CallsRight'
<1> DEFINE d == Top.dir
<1>1. stack # <<>> /\ Top.op = "backup" /\ status # "aborted"
  BY DEF EnterRefused, EndFolder, In, MirrorInv
<1>2. Top \in CallType /\ Sound(Top) /\ d \in Node
  BY <1>1, TopIsSound DEF CallType
<1>3. ASSUME stack' = Tail(stack),
             \A m \in Ahead(Top), n \in Node : m \in UpFrom[n] => fs'["dst"][n] = Expected(n)
      PROVE  CallsRight'
  BY <1>1, <1>3, CallReturns
<1>4. CASE EnterRefused
  <2>1. Top.pc = "enter" /\ CanList("src", d) /\ May(d)
    BY <1>1, <1>2, <1>4 DEF EnterRefused, In, Sound
  <2>2. CASE d = Root
    BY <1>4, <2>2, AbortStep DEF EnterRefused
  <2>3. CASE d # Root
    <3>1. /\ Reached[Parent[d]] /\ Is("dst", Parent[d], "dir")
          /\ first["src"][d] # Absent /\ first["src"][d].kind = "dir"
      BY <2>1, <2>3 DEF May
    <3>2. fs["dst"][d] # Absent /\ ~Is("dst", d, "dir")
      BY <1>4, <3>1 DEF EnterRefused, Unattended, CanList
    <3>3. d \in Node \ {Root, Above} /\ ~Goes(d) /\ ~Renewed(d)
      BY <1>2, <3>1, ItemOfReached, SourceKeeps DEF MirrorInv, Renewed
    <3>4. fs["dst"][d] \in {first["dst"][d], Expected(d)}
      BY <1>2 DEF MirrorInv, NothingElse
    <3>5. ~Reached[d]
      <4> SUFFICES ASSUME Reached[d]
                   PROVE  FALSE
        OBVIOUS
      <4>1. first["dst"][d] # Absent => first["dst"][d].kind = "dir"
        BY <1>2, ReachedIs DEF Fits
      <4>2. CASE first["dst"][d] = Absent
        <5>1. Expected(d) = [first["src"][d] EXCEPT !.mtime = Now]
          BY <1>2, <4>2, ExpectedIs DEF MirrorInv
        <5>2. first["src"][d] \in [kind: Kind, data: Seq(Version), mtime: Nat]
          BY <1>2, <3>1, FirstEntries DEF TreeEntry, Side
        <5>3. Expected(d).kind = "dir"
          BY <3>1, <5>1, <5>2
        <5> QED BY <3>2, <3>4, <4>2, <5>3 DEF Is
      <4>3. CASE first["dst"][d] # Absent
        BY <1>2, <3>2, <3>3, <4>1, <4>3, RightAsItIs DEF Is
      <4> QED BY <4>2, <4>3
    <3>6. fs["dst"][d] = Expected(d)
      BY <1>2, <3>3, <3>5, RightAsItIs
    <3>7. \A m \in Ahead(Top) : m = d
      BY <2>1 DEF Ahead
    <3>8. stack' = Tail(stack)
      BY <1>4, <2>3 DEF EnterRefused
    <3>9. \A n \in Node : d \in UpFrom[n] => fs'["dst"][n] = Expected(n)
      BY <3>3, <3>5, <3>6, RightBelow
    <3> QED BY <1>3, <3>7, <3>8, <3>9
  <2> QED BY <2>2, <2>3
<1>5. CASE EndFolder
  <2>1. Top.pc \in {"recurse", "check"} /\ Reached[d] /\ stack' = Tail(stack)
    BY <1>1, <1>2, <1>5 DEF EndFolder, In, Sound
  <2>2. CASE Top.pc = "recurse"
    <3>1. Top.dirs = {} /\ ~Prunes
      BY <1>5, <2>2 DEF EndFolder, In
    <3>2. \A m \in Ahead(Top) : m \in Orphans(d) /\ ~Condemned(m)
      BY <2>2, <3>1 DEF Ahead, Condemned, SaidToGo
    <3> QED BY <1>2, <1>3, <2>1, <3>2, OrphanSettled
  <2>3. CASE Top.pc = "check"
    <3>1. cursor["dst"].left = {} /\ In("backup", "check")
      BY <1>5, <2>3 DEF EndFolder, In
    <3>2. Ahead(Top) = {}
      BY <2>3, <3>1 DEF Ahead, MirrorInv, Checked
    <3> QED BY <1>3, <2>1, <3>2
  <2> QED BY <2>1, <2>2, <2>3
<1> QED BY <1>4, <1>5

\* The check of the destination's folder goes on.
LEMMA CheckStep ==
    ASSUME MirrorInv, Written, UNCHANGED <<opt, first>>, TreeInv',
           NEW n \in Node, CheckOf(n), UNCHANGED stack
    PROVE  CallsRight'
<1>1. stack # <<>> /\ Top.pc = "check" /\ status # "aborted"
  BY CheckedItem DEF MirrorInv
<1>2. PICK f \in CallType : f = Top
  BY <1>1, TopIsSound
<1>3. Top' = f
  BY <1>2 DEF Top
<1>4. ASSUME NEW m \in Ahead(Top), NEW x \in Node, m \in UpFrom[x]
      PROVE  fs'["dst"][x] = Expected(x) \/ \E k \in Ahead(Top)' : k \in UpFrom[x]
  <2>1. m \in Node /\ m \in Ahead(f) /\ f.pc # "scan"
    BY <1>1, <1>2 DEF Ahead
  <2>2. m \in Ahead(f)' \/ (Condemned(m) /\ fs'["dst"][m] = Absent)
    BY <2>1, AheadStays
  <2>3. CASE m \in Ahead(f)'
    BY <1>3, <1>4, <2>3 DEF Ahead
  <2>4. CASE Condemned(m) /\ fs'["dst"][m] = Absent
    BY <1>4, <2>1, <2>4, GoneBelow
  <2> QED BY <2>2, <2>3, <2>4
<1> QED BY <1>1, <1>4, TopStays

LEMMA DeleteFolderStep ==
    ASSUME MirrorInv, Unattended, Written, UNCHANGED <<opt, first>>, TreeInv',
           NEW n \in Node, DeleteOrphanFolder(n)
    PROVE  CallsRight'
<1>1. /\ stack # <<>> /\ Top.pc = "check" /\ status # "aborted"
      /\ stack' = <<Call("delete", n, 1)>> \o stack
  BY CheckedItem DEF DeleteOrphanFolder, Orphan, MirrorInv
<1>2. PICK f \in CallType : f = Top
  BY <1>1, TopIsSound
<1> DEFINE b == Call("delete", n, 1)
<1>3. /\ b \in CallType /\ b.op = "delete" /\ b.pc = "enter" /\ b.dir = n /\ b.dirs = {}
      /\ stack' = <<b>> \o stack
  BY <1>1 DEF Call, CallType
<1> HIDE DEF b
<1>4. stack' = <<b>> \o WithTop(f)
  BY <1>1, <1>2, <1>3 DEF MirrorInv, TreeInv, Stacked, WithTop, Top
<1>5. Goes(n)
  BY OrphanIsCondemned DEF DeleteOrphanFolder
<1>6. Sound(b) /\ Sound(f)
  BY <1>1, <1>2, <1>3, <1>5, TopIsSound DEF Sound
<1>7. \A m \in Ahead(f) : m \in Ahead(f)' \/ (Condemned(m) /\ fs'["dst"][m] = Absent)
  BY <1>1, <1>2, AheadStays
<1>8. \A m \in Ahead(Top) :
        m \in Ahead(f)' \/ m \in Ahead(b)' \/ (Condemned(m) /\ fs'["dst"][m] = Absent)
  BY <1>2, <1>7
<1> QED BY <1>1, <1>3, <1>4, <1>6, <1>8, CallStep

LEMMA DeleteStep ==
    ASSUME MirrorInv, Unattended, Written, UNCHANGED <<opt, first>>, TreeInv', NEW n \in Node,
           \/ EnterDelete \/ EndDeleteScan \/ DeleteItem(n) \/ DeleteRecurse \/ RemoveFolder
    PROVE  CallsRight'
<1>1. stack # <<>> /\ Top.op = "delete" /\ status # "aborted"
  BY DEF EnterDelete, EndDeleteScan, DeleteItem, DeleteRecurse, RemoveFolder, In, MirrorInv
<1>2. PICK f \in CallType : f = Top
  BY <1>1, TopIsSound
<1>3. /\ Sound(f) /\ f.op = "delete" /\ f.dirs \subseteq Node
      /\ Goes(f.dir) /\ \A k \in f.dirs : Parent[k] = f.dir
  BY <1>1, <1>2, TopIsSound DEF Sound, CallType
<1>4. Ahead(Top) = {}
  BY <1>1 DEF Ahead
<1>5. ASSUME NEW g \in CallType, stack' = WithTop(g), g.op = "delete", g.pc # "check",
             g.dir = f.dir, \A k \in g.dirs : Parent[k] = f.dir
      PROVE  CallsRight'
  <2>1. Sound(g)
    BY <1>3, <1>5 DEF Sound
  <2>2. Sound(g)'
    BY <2>1, SoundStays
  <2> QED BY <1>1, <1>4, <1>5, <2>2, TopGoesOn
<1>6. ASSUME NEW p \in {"scan", "recurse"}, stack' = At(p)
      PROVE  CallsRight'
  <2> DEFINE g == [f EXCEPT !.pc = p]
  <2>1. g \in CallType /\ g.op = "delete" /\ g.pc = p /\ g.dir = f.dir /\ g.dirs = f.dirs
    BY <1>3 DEF CallType
  <2>2. stack' = WithTop(g)
    BY <1>2, <1>6 DEF At
  <2> HIDE DEF g
  <2> QED BY <1>3, <1>5, <2>1, <2>2
<1>7. CASE DeleteItem(n)
  <2>1. Parent[n] = f.dir
    BY <1>1, <1>2, <1>7
    DEF DeleteItem, In, MirrorInv, ListedInside, TreeInv, CursorIsMine, Side
  <2>2. CASE stack' = Noted(n)
    <3> DEFINE g == [f EXCEPT !.dirs = @ \cup {n}]
    <3>1. /\ g \in CallType /\ g.op = "delete" /\ g.pc = f.pc /\ g.dir = f.dir
          /\ g.dirs = f.dirs \cup {n}
      BY <1>3 DEF CallType
    <3>2. stack' = WithTop(g) /\ f.pc = "scan"
      BY <1>2, <1>7, <2>2 DEF Noted, DeleteItem, In
    <3> HIDE DEF g
    <3> QED BY <1>3, <1>5, <2>1, <3>1, <3>2
  <2>3. CASE UNCHANGED stack
    BY <1>1, <1>4, <2>3, TopStays
  <2> QED BY <1>7, <2>2, <2>3 DEF DeleteItem
<1>8. CASE DeleteRecurse
  <2>1. PICK d \in f.dirs : Descend(d)
    BY <1>2, <1>8 DEF DeleteRecurse
  <2> DEFINE g == [f EXCEPT !.dirs = @ \ {d}]
             b == Call("delete", d, f.len + 1)
  <2>2. /\ g \in CallType /\ g.op = "delete" /\ g.pc = f.pc /\ g.dir = f.dir
        /\ g.dirs = f.dirs \ {d}
        /\ b \in CallType /\ b.op = "delete" /\ b.pc = "enter" /\ b.dir = d /\ b.dirs = {}
    BY <1>3, <2>1 DEF CallType, Call
  <2>3. stack' = <<b>> \o WithTop(g) /\ f.pc = "recurse"
    BY <1>1, <1>2, <1>8, <2>1 DEF Descend, DeleteRecurse, In
  <2>4. Goes(d)
    BY <1>3, <2>1, GoesInside
  <2> HIDE DEF g, b
  <2>5. Sound(b) /\ Sound(g)
    BY <1>3, <2>2, <2>3, <2>4 DEF Sound
  <2> QED BY <1>1, <1>4, <2>2, <2>3, <2>5, CallStep
<1>9. CASE RemoveFolder
  BY <1>1, <1>4, <1>9, CallReturns DEF RemoveFolder
<1> QED BY <1>6, <1>7, <1>8, <1>9 DEF EnterDelete, EndDeleteScan

-----------------------------------------------------------------------------
(* Every step.                                                             *)

\* What nobody answers is not asked for, and is not restored.
LEMMA NothingRestored ==
    ASSUME MirrorInv, Unattended, NEW n \in Node
    PROVE  /\ ~BackupNewer(n) /\ ~RestoreNewer(n) /\ ~RestoreOrphan(n)
           /\ ~RestoreOrphanFolder(n) /\ ~RestoreFile(n) /\ ~RestoreOther(n)
           /\ ~EnterRestore /\ ~EnterRestoreFails /\ ~EndRestoreScan
           /\ ~RestoreRecurse /\ ~EndRestore
<1>1. \A pc : ~In("restore", pc)
  BY TopIsSound DEF In
<1> QED BY <1>1 DEF BackupNewer, RestoreNewer, RestoreOrphan, RestoreOrphanFolder, RestoreFile,
                    RestoreOther, EnterRestore, EnterRestoreFails, EndRestoreScan,
                    RestoreRecurse, EndRestore, Unattended

LEMMA StepCallsRight ==
    ASSUME MirrorInv, Unattended, Written, UNCHANGED <<opt, first>>, TreeInv', Next
    PROVE  CallsRight'
<1>1. ASSUME NEW n \in Node, Item(n)
      PROVE  CallsRight'
  <2>1. CASE PassItem(n) \/ UpdateFile(n) \/ LeaveNewer(n) \/ NoteFolder(n)
    BY <2>1, ScanStep
  <2>2. CASE LeaveNewerAndAbort(n)
    BY <2>2, AbortStep DEF LeaveNewerAndAbort
  <2>3. CASE PassChecked(n) \/ LeaveOrphan(n) \/ DeleteOrphan(n)
    <3>1. CheckOf(n) /\ UNCHANGED stack
      BY <2>3 DEF PassChecked, LeaveOrphan, DeleteOrphan, Orphan
    <3> QED BY <3>1, CheckStep
  <2>4. CASE DeleteOrphanFolder(n)
    BY <2>4, DeleteFolderStep
  <2>5. CASE DeleteItem(n)
    BY <2>5, DeleteStep
  <2> QED BY <1>1, <2>1, <2>2, <2>3, <2>4, <2>5, NothingRestored DEF Item
<1>2. CASE EnterFolder \/ EnterUnlisted \/ EndScan \/ BeginCheck
  BY <1>2, PhaseStep
<1>3. CASE Recurse
  BY <1>3, RecurseStep
<1>4. CASE EnterRefused \/ EndFolder
  BY <1>4, ReturnStep
<1>5. CASE EnterDelete \/ EndDeleteScan \/ DeleteRecurse \/ RemoveFolder
  BY <1>5, DeleteStep, TreeAssumption
<1>6. CASE Done
  <2>1. stack = <<>> /\ UNCHANGED <<fs, stack>> /\ status # "aborted"
    BY <1>6 DEF Done
  <2>2. Frames(stack) = {} /\ Frames(stack') = {}
    BY <2>1, NoFrames
  <2>3. \A n \in Node : fs["dst"][n] = Expected(n) /\ Expected(n)' = Expected(n)
    BY <2>1, <2>2, ExpectationStays DEF MirrorInv, Complete, Awaits
  <2> QED BY <2>1, <2>2, <2>3 DEF CallsRight, Complete
<1> QED BY <1>1, <1>2, <1>3, <1>4, <1>5, <1>6, NothingRestored, TreeAssumption DEF Next

\* After a step that leaves no check under way, there is nothing to say of it.
LEMMA NotChecking ==
    ASSUME stack' # <<>> => Head(stack').op # "backup" \/ Head(stack').pc # "check"
    PROVE  Checked'
BY DEF Checked, In, Top

\* The step changes the innermost call, or calls another.
LEMMA HeadsOf ==
    ASSUME MirrorInv, stack # <<>>
    PROVE  /\ \A pc : Head(At(pc)).pc = pc
           /\ \A n : Head(Noted(n)).op = Top.op /\ Head(Noted(n)).pc = Top.pc
           /\ Head(Assigned).pc = Top.pc
           /\ \A f : Head(<<f>> \o stack) = f
           /\ \A d : Descend(d) => stack' # <<>> /\ Head(stack').pc = "enter"
           /\ stack' = Tail(stack) /\ stack' # <<>> =>
                  Head(stack') = stack[2] /\ Calls(stack[2], Top)
<1>1. Top \in CallType /\ Tail(stack) \in Seq(CallType) /\ stack \in Seq(CallType)
  BY TopIsSound DEF MirrorInv, TreeInv, Stacked
<1>2. \A f : Head(<<f>> \o Tail(stack)) = f /\ Head(<<f>> \o stack) = f
  BY <1>1
<1>3. \A pc : Head(At(pc)).pc = pc
  BY <1>1, <1>2 DEF At, WithTop, CallType
<1>4. \A n : Head(Noted(n)).op = Top.op /\ Head(Noted(n)).pc = Top.pc
  BY <1>1, <1>2 DEF Noted, WithTop, CallType
<1>5. Head(Assigned).pc = Top.pc
  BY <1>1, <1>2 DEF Assigned, WithTop, CallType
<1>6. ASSUME NEW d, Descend(d)
      PROVE  stack' # <<>> /\ Head(stack').pc = "enter"
  <2> DEFINE g == [Top EXCEPT !.dirs = @ \ {d}]
             b == Call(Top.op, d, Top.len + 1)
  <2>1. stack' = <<b>> \o (<<g>> \o Tail(stack)) /\ b.pc = "enter"
    BY <1>6 DEF Descend, WithTop, Call
  <2>2. g \in CallType
    BY <1>1 DEF CallType
  <2> HIDE DEF g, b
  <2>3. <<g>> \o Tail(stack) \in Seq(CallType)
    BY <1>1, <2>2
  <2> DEFINE st == <<g>> \o Tail(stack)
  <2> HIDE DEF st
  <2>4. stack' = <<b>> \o st /\ st \in Seq(CallType)
    BY <2>1, <2>3 DEF st
  <2> QED BY <2>1, <2>4
<1>7. ASSUME stack' = Tail(stack), stack' # <<>>
      PROVE  Head(stack') = stack[2] /\ Calls(stack[2], Top)
  BY <1>7, CallReturned DEF MirrorInv, TreeInv, Top
<1> QED BY <1>2, <1>3, <1>4, <1>5, <1>6, <1>7

\* What the check has passed is not to go, or is gone.
LEMMA StepChecked ==
    ASSUME MirrorInv, Unattended, UNCHANGED <<opt, first>>, Next
    PROVE  Checked'
<1>1. ASSUME NEW d \in Node
      PROVE  /\ Orphans(d)' = Orphans(d)
             /\ \A m \in Node : Condemned(m)' <=> Condemned(m)
  BY ExpectationStays DEF Orphans
<1>2. cursor \in CursorType /\ Faults = {}
  BY DEF MirrorInv, TreeInv, TypeOK, CursorType, Unattended
<1>3. ASSUME NEW n \in Node, CheckOf(n), UNCHANGED stack, cursor' = Advanced("dst", n),
             \/ UNCHANGED fs
             \/ fs' = [fs EXCEPT !["dst"][n] = Absent],
             first["src"][n] = Absent /\ Condemned(n) => fs'["dst"][n] = Absent
      PROVE  Checked'
  <2>1. PICK d \in Node : d = Top.dir
    BY <1>3, CheckedItem, IsNode
  <2>2. Top' = Top /\ In("backup", "check")
    BY <1>3 DEF Top, CheckOf
  <2>3. \A m \in Node \ {n} : fs'["dst"][m] = fs["dst"][m]
    BY <1>3 DEF MirrorInv, TreeInv, TypeOK, Side
  <2>4. \A m \in Node : m \in cursor["dst"].left => m = n \/ m \in cursor'["dst"].left
    BY <1>2, <1>3 DEF Advanced, CursorType, Side
  <2>5. ASSUME NEW m \in Orphans(d), Condemned(m), fs'["dst"][m] # Absent
        PROVE  m \in cursor'["dst"].left
    <3>1. m \in Node /\ first["src"][m] = Absent
      BY DEF Orphans
    <3>2. m # n
      BY <1>3, <2>5, <3>1
    <3>3. m \in cursor["dst"].left
      BY <2>1, <2>2, <2>3, <2>5, <3>1, <3>2 DEF MirrorInv, Checked
    <3> QED BY <2>4, <3>1, <3>2, <3>3
  <2> QED BY <1>1, <2>1, <2>2, <2>5 DEF Checked, Orphans
<1>4. ASSUME NEW d \in Node, Top'.dir = d,
             \A m \in Node \ {d} :
                 Parent[m] = d /\ fs'["dst"][m] # Absent => m \in cursor'["dst"].left
      PROVE  Checked'
  BY <1>1, <1>4 DEF Checked, Orphans
<1>5. ASSUME NEW n \in Node, Item(n)
      PROVE  Checked'
  <2>1. stack # <<>>
    BY <1>5, NothingRestored
    DEF Item, PassItem, UpdateFile, NoteFolder, LeaveNewer, LeaveNewerAndAbort, PassChecked,
        LeaveOrphan, DeleteOrphan, DeleteOrphanFolder, DeleteItem, QuestionNewer, FileToScan,
        ScanOf, Orphan, CheckOf, In
  <2>2. CASE \/ PassItem(n) \/ UpdateFile(n) \/ NoteFolder(n) \/ LeaveNewer(n)
             \/ LeaveNewerAndAbort(n)
    <3>1. Top.pc = "scan"
      BY <2>2 DEF PassItem, UpdateFile, NoteFolder, LeaveNewer, LeaveNewerAndAbort,
                  QuestionNewer, FileToScan, ScanOf, In
    <3>2. \/ stack' = <<>> \/ stack' = stack \/ stack' = Noted(n) \/ stack' = Assigned
      BY <2>2 DEF PassItem, UpdateFile, Transfer, NoteFolder, LeaveNewer, LeaveNewerAndAbort, Abort
    <3> QED BY <2>1, <3>1, <3>2, HeadsOf, NotChecking DEF Top
  <2>3. CASE PassChecked(n)
    <3>1. CheckOf(n) /\ UNCHANGED <<fs, stack>> /\ cursor' = Advanced("dst", n)
      BY <2>3 DEF PassChecked
    <3>2. first["src"][n] = Absent /\ Condemned(n) => fs'["dst"][n] = Absent
      <4> SUFFICES ASSUME first["src"][n] = Absent, Condemned(n), fs["dst"][n] # Absent
                   PROVE  FALSE
        BY <3>1
      <4>1. fs["dst"][n] = first["dst"][n] /\ first["dst"][n].kind # "link"
        BY OrphanAsItWas DEF Condemned, SaidToGo
      <4>2. \A t \in Answers(getModTime(fs["src"][n])) : t = 0
        BY SourceIsFirst, TrueViews DEF getModTime
      <4> QED BY <2>3, <4>1, <4>2 DEF PassChecked, Is
    <3> QED BY <1>3, <3>1, <3>2
  <2>4. CASE LeaveOrphan(n)
    <3>1. CheckOf(n) /\ UNCHANGED <<fs, stack>> /\ cursor' = Advanced("dst", n)
      BY <2>4 DEF LeaveOrphan, Orphan
    <3>2. ~Condemned(n)
      BY <2>4, OrphanHasNone DEF LeaveOrphan, Condemned, SaidToGo
    <3> QED BY <1>3, <3>1, <3>2
  <2>5. CASE DeleteOrphan(n)
    <3>1. /\ CheckOf(n) /\ UNCHANGED stack /\ cursor' = Advanced("dst", n)
          /\ fs' = [fs EXCEPT !["dst"][n] = Absent]
      BY <1>2, <2>5 DEF DeleteOrphan, Orphan
    <3>2. fs'["dst"][n] = Absent
      BY <3>1 DEF MirrorInv, TreeInv, TypeOK, Side
    <3> QED BY <1>3, <3>1, <3>2
  <2>6. CASE DeleteOrphanFolder(n)
    <3>1. stack' = <<Call("delete", n, 1)>> \o stack /\ Call("delete", n, 1).op = "delete"
      BY <2>6 DEF DeleteOrphanFolder, Call
    <3>2. Head(stack') = Call("delete", n, 1)
      BY <2>1, <3>1, HeadsOf
    <3> QED BY <3>1, <3>2, NotChecking
  <2>7. CASE DeleteItem(n)
    <3>1. Top.op = "delete" /\ (stack' = stack \/ stack' = Noted(n))
      BY <2>7 DEF DeleteItem, In
    <3> QED BY <2>1, <3>1, HeadsOf, NotChecking DEF Top
  <2> QED BY <1>5, <2>2, <2>3, <2>4, <2>5, <2>6, <2>7, NothingRestored DEF Item
<1>6. CASE EnterFolder \/ EnterUnlisted \/ EndScan \/ EnterDelete \/ EndDeleteScan
  <2>1. stack # <<>> /\ (stack' = <<>> \/ stack' = At("scan") \/ stack' = At("recurse"))
    BY <1>6 DEF EnterFolder, EnterUnlisted, EndScan, EnterDelete, EndDeleteScan, In, Abort
  <2> QED BY <2>1, HeadsOf, NotChecking
<1>7. CASE Recurse \/ DeleteRecurse
  <2>1. stack # <<>> /\ \E d : Descend(d)
    BY <1>7 DEF Recurse, DeleteRecurse, In
  <2> QED BY <2>1, HeadsOf, NotChecking
<1>8. CASE EnterRefused \/ EndFolder
  <2>1. stack # <<>> /\ Top.op = "backup" /\ (stack' = <<>> \/ stack' = Tail(stack))
    BY <1>8 DEF EnterRefused, EndFolder, In, Abort
  <2>2. stack' # <<>> => Head(stack') = stack[2] /\ Calls(stack[2], Top)
    BY <2>1, HeadsOf
  <2> QED BY <2>1, <2>2, NotChecking DEF Calls
<1>9. CASE BeginCheck
  <2>1. /\ stack # <<>> /\ Top.op = "backup" /\ stack' = At("check")
    BY <1>9 DEF BeginCheck, In
  <2>2. PICK f \in CallType : f = Top
    BY <2>1, TopIsSound
  <2> DEFINE g == [f EXCEPT !.pc = "check"]
  <2>3. stack' = <<g>> \o Tail(stack) /\ g.dir = f.dir /\ f.dir \in Node
    BY <2>1, <2>2 DEF At, WithTop, CallType
  <2>4. Top' = g
    <3> HIDE DEF g
    <3> QED BY <2>1, <2>3, TopIsSound DEF Top
  <2>5. CanList("dst", f.dir)
    BY <1>9, <2>1, <2>2, TopIsSound DEF Sound, BeginCheck, In, CanList
  <2>6. cursor' = [cursor EXCEPT !["dst"] = Opened("dst", f.dir)] /\ UNCHANGED fs
    BY <1>2, <1>9, <2>2, <2>5 DEF BeginCheck
  <2>7. cursor'["dst"].left = Listing("dst", f.dir)
    BY <1>2, <2>6 DEF CursorType, Opened, Side
  <2> QED BY <1>4, <2>3, <2>4, <2>6, <2>7 DEF Listing
<1>10. CASE RemoveFolder
  <2>1. /\ stack # <<>> /\ Top.op = "delete" /\ stack' = Tail(stack)
        /\ IF stack[2].op = "backup" THEN Relist(stack[2].dir) ELSE UNCHANGED cursor
    BY <1>10 DEF RemoveFolder, In
  <2>2. CASE stack' = <<>> \/ stack[2].op # "backup"
    BY <2>1, <2>2, HeadsOf, NotChecking
  <2>3. CASE stack' # <<>> /\ stack[2].op = "backup"
    <3>1. Head(stack') = stack[2] /\ stack[2] \in CallType
      BY <2>1, <2>3, CallReturned DEF MirrorInv, TreeInv
    <3>2. PICK d \in Node : d = stack[2].dir
      BY <3>1 DEF CallType
    <3>3. Top'.dir = d
      BY <3>1, <3>2 DEF Top
    <3>4. cursor' = [cursor EXCEPT !["dst"] =
                        [dir |-> d,
                         left |-> {n \in Node \ {d} : Parent[n] = d /\ fs'["dst"][n] # Absent}]]
      BY <1>2, <2>1, <2>3, <3>2 DEF Relist
    <3>5. cursor'["dst"].left = {n \in Node \ {d} : Parent[n] = d /\ fs'["dst"][n] # Absent}
      BY <1>2, <3>4 DEF CursorType, Side
    <3> QED BY <1>4, <3>3, <3>5
  <2> QED BY <2>2, <2>3
<1>11. CASE Done
  BY <1>11, NotChecking DEF Done
<1> QED BY <1>5, <1>6, <1>7, <1>8, <1>9, <1>10, <1>11, NothingRestored, TreeAssumption DEF Next

LEMMA StepUnasked ==
    ASSUME MirrorInv, Unattended, Next
    PROVE  ~Asked'
<1>1. UNCHANGED answer \/ \E n \in Node, k \in {"1", "l", "d"} : answer' = Said(n, k)
  BY NothingRestored
  DEF Unattended, Next, Item, EnterFolder, EnterUnlisted, EnterRefused, EndScan, Recurse,
      BeginCheck, EndFolder, EnterDelete, EndDeleteScan, DeleteRecurse, RemoveFolder,
      EnterRestore, EnterRestoreFails, EndRestoreScan, RestoreRecurse, EndRestore, Done,
      PassItem, UpdateFile, NoteFolder, LeaveNewer, LeaveNewerAndAbort, PassChecked,
      LeaveOrphan, DeleteOrphan, Deletes, DeleteOrphanFolder, DeleteItem
<1>2. answer \in [Node -> SUBSET {"1", "l", "b", "d", "r"}] /\ ~Asked
  BY DEF MirrorInv, TreeInv, TypeOK
<1> QED BY <1>1, <1>2 DEF Asked, Said

LEMMA StepStops ==
    ASSUME MirrorInv, Unattended, Next
    PROVE  status' # "running" => stack' = <<>>
<1>1. ASSUME NEW n \in Node, Item(n)
      PROVE  (status' # "running" => stack' = <<>>)
  <2>1. stack # <<>>
    BY <1>1, NothingRestored
    DEF Item, PassItem, UpdateFile, NoteFolder, LeaveNewer, LeaveNewerAndAbort, PassChecked,
        LeaveOrphan, DeleteOrphan, DeleteOrphanFolder, DeleteItem, QuestionNewer, FileToScan,
        ScanOf, Orphan, CheckOf, In
  <2>2. status = "running"
    BY <2>1 DEF MirrorInv
  <2> QED BY <1>1, <2>2, NothingRestored
      DEF Item, PassItem, UpdateFile, NoteFolder, LeaveNewer, LeaveNewerAndAbort, PassChecked,
          LeaveOrphan, DeleteOrphan, DeleteOrphanFolder, DeleteItem, Transfer, Abort
<1>2. CASE \/ EnterFolder \/ EnterUnlisted \/ EnterRefused \/ EndScan \/ Recurse \/ BeginCheck
           \/ EndFolder \/ EnterDelete \/ EndDeleteScan \/ DeleteRecurse \/ RemoveFolder
  <2>1. stack # <<>>
    BY <1>2 DEF EnterFolder, EnterUnlisted, EnterRefused, EndScan, Recurse, BeginCheck,
                EndFolder, EnterDelete, EndDeleteScan, DeleteRecurse, RemoveFolder, In
  <2>2. status = "running"
    BY <2>1 DEF MirrorInv
  <2> QED BY <1>2, <2>2
      DEF EnterFolder, EnterUnlisted, EnterRefused, EndScan, Recurse, BeginCheck,
          EndFolder, EnterDelete, EndDeleteScan, DeleteRecurse, RemoveFolder, Abort
<1>3. CASE Done
  BY <1>3 DEF Done
<1> QED BY <1>1, <1>2, <1>3, NothingRestored, TreeAssumption DEF Next

-----------------------------------------------------------------------------
(* The invariant, and the end of the run.                                  *)

LEMMA InitMirrorInv ==
    ASSUME Unattended, Init
    PROVE  MirrorInv
<1> DEFINE c == Call("backup", Root, 0)
<1>1. /\ TreeInv /\ first \in Trees /\ first = fs /\ stack = <<c>> /\ status = "running"
      /\ ListedInside /\ ~Asked
  BY InitTreeInv DEF Init, Closed, ListedInside, Asked
<1>2. c.op = "backup" /\ c.pc = "enter" /\ c.dir = Root /\ c.dirs = {}
  BY DEF Call
<1> HIDE DEF c
<1>3. Frames(stack) = {c} /\ Top = c
  BY <1>1 DEF Frames, Top
<1>4. Sound(c)
  BY <1>2 DEF Sound, May
<1>5. Complete
  <2> SUFFICES ASSUME NEW n \in Node, ~Awaits(n)
               PROVE  first["dst"][n] = Expected(n)
    BY <1>1 DEF Complete
  <2>1. Root \notin UpFrom[n]
    BY <1>2, <1>3, TreeAssumption DEF Awaits, Ahead
  <2>2. ~Reached[n] /\ (n # Root => ~Reached[Parent[n]])
    BY <2>1, ReachedInRoot, UpFromParent, IsNode
  <2>3. ~Goes(n)
    <3> SUFFICES ASSUME NEW m \in UpFrom[n], Condemned(m)
                 PROVE  FALSE
      BY DEF Goes
    <3>1. m \in Node /\ Root \in UpFrom[Parent[m]]
      BY IsNode, ReachedInRoot DEF Condemned, SaidToGo
    <3> QED BY <2>1, <3>1, UpFromParent, UpFromUpFrom
  <2>4. ~Renewed(n)
    BY <2>2 DEF Renewed
  <2> QED BY <1>1, <2>2, <2>3, <2>4, ExpectedIs
<1>6. Checked
  BY <1>2, <1>3 DEF Checked, In
<1> QED BY <1>1, <1>3, <1>4, <1>5, <1>6 DEF MirrorInv, NothingElse

LEMMA StepMirrorInv ==
    ASSUME Unattended, MirrorInv, [Next]_vars
    PROVE  MirrorInv'
<1>1. TreeInv'
  BY StepTreeInv DEF MirrorInv
<1>2. CASE Next
  <2>1. UNCHANGED <<opt, first>>
    BY <1>2, StepKeeps DEF MirrorInv, Kept
  <2>2. Written
    BY <1>2, StepWritten
  <2>3. CallsRight'
    BY <1>1, <1>2, <2>1, <2>2, StepCallsRight
  <2>4. Checked' /\ ~Asked' /\ (status' # "running" => stack' = <<>>)
    BY <1>2, <2>1, StepChecked, StepUnasked, StepStops
  <2>5. ListedInside' /\ first' \in Trees
    BY <1>2, <2>1, CursorStep DEF MirrorInv, TreeInv
  <2>6. NothingElse'
    <3>1. \A n \in Node : Expected(n)' = Expected(n)
      BY <2>1, ExpectationStays
    <3> QED BY <2>1, <2>2, <3>1 DEF MirrorInv, NothingElse, Written
  <2>7. Complete' /\ \A c \in Frames(stack') : Sound(c)'
    BY <2>3 DEF CallsRight
  <2> QED BY <1>1, <2>4, <2>5, <2>6, <2>7 DEF MirrorInv
<1>3. CASE UNCHANGED vars
  <2>1. UNCHANGED <<fs, cursor, stack, opt, answer, status, first>>
    BY <1>3 DEF vars
  <2>2. Reached' = Reached /\ Top' = Top /\ UNCHANGED <<opt, first>>
    BY <2>1, ReachedStays DEF Top
  <2>3. \A n \in Node : Expected(n)' = Expected(n) /\ (Condemned(n)' <=> Condemned(n))
    BY <2>2, ExpectationStays
  <2>4. NothingElse'
    BY <2>1, <2>3 DEF MirrorInv, NothingElse
  <2>5. Checked'
    BY <2>1, <2>2, <2>3 DEF MirrorInv, Checked, In, Orphans
  <2>6. \A c \in Frames(stack) : c \in CallType
    BY DEF MirrorInv, TreeInv, Stacked, Frames
  <2>7. \A c \in Frames(stack') : Sound(c)'
    BY <2>1, <2>2, <2>6, NothingWritten, SoundStays DEF MirrorInv
  <2>8. \A c \in Frames(stack) : Ahead(c)' = Ahead(c)
    BY <2>1, <2>3 DEF Ahead, Orphans
  <2>9. Complete'
    BY <2>1, <2>3, <2>8 DEF MirrorInv, Complete, Awaits
  <2>10. ListedInside' /\ ~Asked' /\ (status' # "running" => stack' = <<>>) /\ first' \in Trees
    BY <2>1 DEF MirrorInv, ListedInside, Asked
  <2> QED BY <1>1, <2>4, <2>5, <2>7, <2>9, <2>10 DEF MirrorInv
<1> QED BY <1>2, <1>3

LEMMA NothingAwaited ==
    ASSUME MirrorInv, status = "done", NEW n \in Node
    PROVE  fs["dst"][n] = Expected(n)
<1>1. stack = <<>>
  BY DEF MirrorInv
<1>2. Frames(stack) = {}
  BY <1>1, NoFrames
<1>3. ~Awaits(n)
  BY <1>2 DEF Awaits
<1> QED BY <1>3 DEF MirrorInv, Complete

-----------------------------------------------------------------------------
(* What the documentation says of it.                                      *)

\* While status calls are true, and no file is dated 0, the decision of BackupThis
\* is to copy what is newer.
LEMMA RenewedIsNewer ==
    ASSUME Unattended, first \in Trees, NEW n \in Node
    PROVE  Renewed(n) <=> Newer(n)
<1> DEFINE s == first["src"][n]
           d == first["dst"][n]
<1>1. s \in TreeEntry /\ d \in TreeEntry
  BY TreeAssumption DEF Side
<1>2. /\ s # Absent => s.mtime \in Nat /\ s.mtime # 0 /\ Len(s.data) \in Nat
      /\ d # Absent => d.mtime \in Nat /\ d.mtime # 0 /\ Len(d.data) \in Nat
  <2>1. /\ s # Absent => s.data \in Seq(Version) /\ s.mtime \in Nat
        /\ d # Absent => d.data \in Seq(Version) /\ d.mtime \in Nat
    BY <1>1 DEF TreeEntry
  <2>2. (s # Absent => s.mtime # 0) /\ (d # Absent => d.mtime # 0)
    BY DEF Unattended, Dated, Side
  <2> QED BY <2>1, <2>2, LenProperties
<1> DEFINE v == [size |-> getFileSize(s), mtime |-> getModTime(s)]
           w == [size |-> getFileSize(d), mtime |-> getModTime(d)]
<1>3. Views(s) = {v} /\ Views(d) = {w}
  BY DEF Unattended, Views, Answers
<1>4. s # Absent => v.size = Len(s.data) /\ v.mtime = s.mtime
  BY DEF getFileSize, getModTime
<1>5. /\ d # Absent => w.size = Len(d.data) /\ w.mtime = d.mtime
      /\ d = Absent => w.mtime = 0
  BY DEF getFileSize, getModTime
<1> DEFINE older == \/ s.mtime >= d.mtime + TwoHours
                    \/ s.mtime >= d.mtime /\ Len(s.data) # Len(d.data)
<1> HIDE DEF v, w
<1>6. d = Absent => NeedsCopy(v, w)
  BY <1>5 DEF NeedsCopy, UpToDate, NewerBackup
<1>7. s # Absent /\ d # Absent => (NeedsCopy(v, w) <=> older)
  <2> SUFFICES ASSUME s # Absent, d # Absent
               PROVE  NeedsCopy(v, w) <=> older
    OBVIOUS
  <2>1. /\ v.mtime = s.mtime /\ w.mtime = d.mtime /\ v.size = Len(s.data) /\ w.size = Len(d.data)
        /\ s.mtime \in Nat /\ d.mtime \in Nat /\ w.mtime # 0 /\ TwoHours \in Nat \ {0}
        /\ Len(s.data) \in Nat /\ Len(d.data) \in Nat
    BY <1>2, <1>4, <1>5, FilesAssumption
  <2> HIDE DEF s, d
  <2> QED BY <2>1 DEF NeedsCopy, UpToDate, NewerBackup, SameDate
<1>8. (\E x \in Views(s), y \in Views(d) : NeedsCopy(x, y)) <=> NeedsCopy(v, w)
  BY <1>3
<1> QED BY <1>6, <1>7, <1>8 DEF Renewed, Newer

\* Where nothing is disputed, the destination that the code leaves is the one that
\* the documentation speaks of.
LEMMA AsDocumented ==
    ASSUME Unattended, first \in Trees, opt \in Option, NEW n \in Node
    PROVE  IF \E m \in UpFrom[n] : Disputed(m)
           THEN Expected(n) \in {first["dst"][n], Absent}
           ELSE Expected(n) = Mirror(n)
<1>1. CASE \E m \in UpFrom[n] : Disputed(m)
  <2>1. PICK m \in UpFrom[n] : first["src"][m] = Absent
    BY <1>1 DEF Disputed, SaidToGo
  <2>2. \A k \in Node : first["src"][k] # Absent =>
            first["src"][Parent[k]] # Absent /\ first["src"][Parent[k]].kind = "dir"
    BY FirstRooted DEF Side
  <2>3. first["src"][n] = Absent
    BY <2>1, <2>2, NothingInside
  <2>4. ~Renewed(n) /\ ~Reached[n]
    BY <2>3, ReachedIs DEF Renewed, Fits
  <2> QED BY <1>1, <2>4, ExpectedIs
<1>2. CASE ~\E m \in UpFrom[n] : Disputed(m)
  <2>1. \A m \in UpFrom[n] : Condemned(m) <=> SaidToGo(m)
    BY <1>2 DEF Disputed, Condemned, Prunes
  <2>2. Renewed(n) <=> Newer(n)
    BY RenewedIsNewer
  <2> QED BY <1>2, <2>1, <2>2 DEF Expected, Mirror
<1> QED BY <1>1, <1>2

\* A run that nobody answers, and in which nothing fails, leaves when it is done
\* exactly the destination that the documentation of its options says of the two
\* trees it found, what is disputed aside: of any depth, with any files, folders
\* and links in them.  BackupThis, deleteFolder and the one cursor they share
\* overlook nothing, and touch nothing else.
THEOREM TreeMirror ==
    ASSUME Unattended
    PROVE  Spec => []MirrorAtEnd
<1>1. Init => MirrorInv
  BY InitMirrorInv
<1>2. MirrorInv /\ [Next]_vars => MirrorInv'
  BY StepMirrorInv
<1>3. MirrorInv => MirrorAtEnd
  <2> SUFFICES ASSUME MirrorInv, status = "done", NEW n \in Node
               PROVE  IF \E m \in UpFrom[n] : Disputed(m)
                      THEN fs["dst"][n] \in {first["dst"][n], Absent}
                      ELSE fs["dst"][n] = Mirror(n)
    BY DEF MirrorAtEnd
  <2>1. first \in Trees /\ opt \in Option
    BY DEF MirrorInv, TreeInv, TypeOK
  <2> QED BY <2>1, NothingAwaited, AsDocumented
<1> QED BY <1>1, <1>2, <1>3, PTL DEF Spec
=============================================================================
