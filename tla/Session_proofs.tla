--------------------------- MODULE Session_proofs ---------------------------
(***************************************************************************)
(* Whole runs, for every set of worlds: when a backup starts, both of its  *)
(* folders have opened; how a run leaves the terminal; and what Query      *)
(* promises holds for the questions of every run.                          *)
(***************************************************************************)
EXTENDS Session, Query_proofs

\* One of the two folders has opened, with its login.
SideOpen(s) ==
    /\ Opens(world.place[PlaceOf(s)])
    /\ world.place[PlaceOf(s)].kind = "ssh" => s \in loggedIn

\* NeverStartsHalfway, and what it is on the way there: the destination is only
\* begun with when the source is open, the root of an SSH server only looked at
\* after the login.
DoorInv ==
    /\ side \in {"src", "dst"}
    /\ at \in {"shell", "parse"} => side = "src"
    /\ at \in {"start", "run"} => side = "dst" /\ SideOpen("dst")
    /\ side = "dst" /\ at \notin {"exit", "failed"} => SideOpen("src")
    /\ at = "access" /\ Place.kind = "ssh" => side \in loggedIn

TerminalInv ==
    /\ at = "parse" => before = tty
    /\ at \notin {"shell", "parse"} /\ Len(opts.folders) = 2 /\ ~opts.refused
          => restores = TRUE /\ g_SavedTerminal = before

-----------------------------------------------------------------------------
(* The folders.                                                            *)

\* A step that leaves the folders, their names and the logins alone.
LEMMA SameDoor ==
    ASSUME DoorInv, UNCHANGED <<world, argVars, loginVars>>,
           at' \in {"shell", "parse"} => at \in {"shell", "parse"},
           at' \in {"start", "run"} => at \in {"start", "run"},
           at' \notin {"exit", "failed"} => at \notin {"exit", "failed"},
           at' = "access" /\ Place.kind = "ssh" => side \in loggedIn
    PROVE  DoorInv'
BY DEF DoorInv, SideOpen, Opens, Credentials, Guest, Place, PlaceOf, argVars, loginVars

LEMMA LogInDoor ==
    ASSUME DoorInv, LogIn, UNCHANGED opts, at \in {"methods", "agent"}
    PROVE  DoorInv'
<1>1. /\ at' = "sftp"
      /\ loggedIn' = loggedIn \cup {side}
      /\ UNCHANGED <<world, side, opts>>
  BY DEF LogIn
<1> QED BY <1>1 DEF DoorInv, SideOpen, Opens, Credentials, Guest, Place, PlaceOf

LEMMA OpenedDoor ==
    ASSUME DoorInv, at = "access", Opens(Place), Opened, UNCHANGED opts
    PROVE  DoorInv'
<1>1. UNCHANGED <<world, loggedIn, opts>>
  BY DEF Opened
<1>2. SideOpen(side)
  BY DEF DoorInv, SideOpen, Place
<1>3. SideOpen("src")' = SideOpen("src") /\ SideOpen("dst")' = SideOpen("dst")
  BY <1>1 DEF SideOpen, Opens, Credentials, Guest, PlaceOf
<1>4. CASE side = "src"
  <2>1. at' = "open" /\ side' = "dst"
    BY <1>4 DEF Opened
  <2> QED BY <1>2, <1>3, <1>4, <2>1 DEF DoorInv
<1>5. CASE side = "dst"
  <2>1. at' = "start" /\ side' = "dst"
    BY <1>5 DEF Opened
  <2> QED BY <1>2, <1>3, <1>5, <2>1 DEF DoorInv
<1> QED BY <1>4, <1>5 DEF DoorInv

LEMMA InitializeDoor ==
    ASSUME DoorInv, Initialize
    PROVE  DoorInv'
<1>0. UNCHANGED argVars /\ UNCHANGED opts
  BY DEF Initialize, argVars
<1>1. CASE OpenLocal \/ OpenSmb
  BY <1>0, <1>1, SameDoor DEF OpenLocal, OpenSmb, GoTo
<1>2. CASE CreateLocal
  <2>1. at' = "exit" /\ UNCHANGED <<side, loggedIn>>
    BY <1>2 DEF CreateLocal, loginVars
  <2> QED BY <2>1 DEF DoorInv
<1>3. CASE Split \/ UnknownMethod \/ WithoutLogin
  BY <1>0, <1>3, SameDoor DEF Split, UnknownMethod, WithoutLogin, Refuse, GoTo
<1>4. CASE Reach
  <2>1. /\ at \in {"resolve", "connect", "handshake"}
        /\ at' \in {"connect", "handshake", "methods"}
        /\ UNCHANGED <<world, loginVars>>
    BY <1>4 DEF Reach, Connected, GoTo
  <2> QED BY <1>0, <2>1, SameDoor
<1>5. CASE WithPassword
  <2>1. at = "methods" /\ (LogIn \/ Refuse)
    BY <1>5 DEF WithPassword
  <2>2. CASE LogIn
    BY <1>0, <2>1, <2>2, LogInDoor
  <2>3. CASE Refuse
    BY <1>0, <2>1, <2>3, SameDoor DEF Refuse, GoTo
  <2> QED BY <2>1, <2>2, <2>3
<1>6. CASE WithPublicKey
  <2>1. at = "methods" /\ at' = "agent" /\ UNCHANGED <<world, side, loggedIn>>
    BY <1>6 DEF WithPublicKey
  <2> QED
    BY <1>0, <2>1 DEF DoorInv, SideOpen, Opens, Credentials, Guest, Place, PlaceOf
<1>7. CASE TryIdentity
  <2>1. at = "agent"
    BY <1>7 DEF TryIdentity
  <2>2. CASE LogIn
    BY <1>0, <2>1, <2>2, LogInDoor
  <2>3. CASE Refuse
    BY <1>0, <2>1, <2>3, SameDoor DEF Refuse, GoTo
  <2>4. CASE UNCHANGED <<at, world, side, loggedIn>>
    BY <1>0, <2>1, <2>4 DEF DoorInv, SideOpen, Opens, Credentials, Guest, Place, PlaceOf
  <2> QED BY <1>7, <2>2, <2>3, <2>4 DEF TryIdentity
<1>8. CASE OpenSftp
  BY <1>0, <1>8, SameDoor DEF OpenSftp, Refuse, GoTo
<1>9. CASE ensureRootAccess
  <2>1. CASE Opens(Place)
    BY <1>0, <1>9, <2>1, OpenedDoor DEF ensureRootAccess
  <2>2. CASE ~Opens(Place)
    BY <1>0, <1>9, <2>2, SameDoor DEF ensureRootAccess, Refuse, GoTo
  <2> QED BY <2>1, <2>2
<1> QED
  BY <1>1, <1>2, <1>3, <1>4, <1>5, <1>6, <1>7, <1>8, <1>9 DEF Initialize

LEMMA GoneDoor ==
    ASSUME Gone
    PROVE  DoorInv'
BY DEF Gone, DoorInv

LEMMA DoorStep ==
    ASSUME DoorInv, [Next]_sessionVars
    PROVE  DoorInv'
<1>1. CASE Launch \/ Parse
  <2>1. /\ at \in {"shell", "parse"} /\ at' \in {"exit", "parse"}
        /\ UNCHANGED <<world, side, loggedIn>>
    BY <1>1 DEF Launch, Parse, loginVars
  <2> QED BY <2>1 DEF DoorInv
<1>2. CASE Prepare
  BY <1>2, SameDoor DEF Prepare
<1>3. CASE Initialize
  BY <1>3, InitializeDoor
<1>4. CASE StartBackup
  BY <1>4, SameDoor DEF StartBackup, GoTo
<1>5. CASE AskUser \/ Wait \/ UserTypes
  BY <1>5, SameDoor DEF AskUser, Wait, UserTypes
<1>6. CASE Finish
  BY <1>6, SameDoor DEF Finish
<1>7. CASE Exit \/ Kill
  BY <1>7, GoneDoor DEF Exit, Kill
<1>8. CASE Fails
  BY <1>8, SameDoor DEF Fails, GoTo
<1>9. CASE UNCHANGED sessionVars
  BY <1>9, SameDoor DEF sessionVars, DoorInv
<1> QED
  BY <1>1, <1>2, <1>3, <1>4, <1>5, <1>6, <1>7, <1>8, <1>9 DEF Next, main, Failing

\* A backup only begins when both of its folders have opened, with the login
\* that they need: it deletes what it does not see in the source.
THEOREM SessionStarts == Spec => []NeverStartsHalfway
<1>1. Init => DoorInv
  BY DEF Init, DoorInv
<1>2. DoorInv /\ [Next]_sessionVars => DoorInv'
  BY DoorStep
<1>3. DoorInv => NeverStartsHalfway
  BY DEF DoorInv, SideOpen, NeverStartsHalfway
<1> QED BY <1>1, <1>2, <1>3, PTL DEF Spec

-----------------------------------------------------------------------------
(* The terminal.                                                           *)

\* Between the options and the end of a run.
LEMMA OnTheWay ==
    ASSUME \/ Initialize \/ StartBackup \/ AskUser \/ Wait \/ UserTypes \/ Finish \/ Fails
    PROVE  /\ at \notin {"shell", "parse", "exit", "failed"}
           /\ at' \notin {"shell", "parse"}
<1>1. CASE Initialize
  <2>1. at \in {"open", "resolve", "connect", "handshake", "methods", "agent", "sftp", "access"}
    BY <1>1 DEF Initialize, OpenLocal, CreateLocal, OpenSmb, Split, Reach, Connected,
        WithPassword, WithoutLogin, WithPublicKey, UnknownMethod, TryIdentity, OpenSftp,
        ensureRootAccess
  <2>2. at' \in {"open", "resolve", "connect", "handshake", "methods", "agent", "sftp",
                 "access", "start", "exit"}
    BY <1>1, <2>1 DEF Initialize, OpenLocal, CreateLocal, OpenSmb, Split, Reach, Connected,
        WithPassword, WithoutLogin, WithPublicKey, UnknownMethod, TryIdentity, OpenSftp,
        ensureRootAccess, GoTo, Refuse, LogIn, Opened
  <2> QED BY <2>1, <2>2
<1>2. CASE StartBackup \/ Finish
  BY <1>2 DEF StartBackup, Finish, GoTo
<1>3. CASE AskUser \/ Wait \/ UserTypes
  BY <1>3 DEF AskUser, Wait, UserTypes
<1>4. CASE Fails
  BY <1>4 DEF Fails, GoTo, Connected
<1> QED BY <1>1, <1>2, <1>3, <1>4

LEMMA TerminalStep ==
    ASSUME TerminalInv, [Next]_sessionVars
    PROVE  TerminalInv'
<1>1. CASE Launch
  BY <1>1 DEF Launch, TerminalInv
<1>6. CASE Parse
  <2>1. /\ at = "parse" /\ UNCHANGED <<tty, before>>
        /\ at' = IF opts'.refused THEN "exit" ELSE "parse"
    BY <1>6 DEF Parse, ttyVars, argVars
  <2>2. CASE opts'.refused
    BY <2>1, <2>2 DEF TerminalInv
  <2>3. CASE ~opts'.refused
    BY <2>1, <2>3 DEF TerminalInv
  <2> QED BY <2>2, <2>3
<1>2. CASE Prepare
  <2>1. /\ at = "parse" /\ at' \in {"open", "exit"}
        /\ g_SavedTerminal' = tty /\ before' = before /\ opts' = opts
    BY <1>2 DEF Prepare, argVars
  <2>2. restores' = (Len(opts.folders) = 2)
    BY <1>2 DEF Prepare
  <2>3. Len(opts.folders) = 2 => restores' = TRUE
    BY <2>2
  <2> QED BY <2>1, <2>3 DEF TerminalInv
<1>3. CASE \/ Initialize \/ StartBackup \/ AskUser \/ Wait \/ UserTypes \/ Finish \/ Fails
  <2>1. UNCHANGED <<opts, tty, g_SavedTerminal, restores, before>>
    BY <1>3 DEF Initialize, StartBackup, AskUser, Wait, UserTypes, Finish, Fails, ttyVars, argVars
  <2>2. at \notin {"shell", "parse"} /\ at' \notin {"shell", "parse"}
    BY <1>3, OnTheWay
  <2> QED BY <2>1, <2>2 DEF TerminalInv
<1>4. CASE Exit \/ Kill
  BY <1>4 DEF Exit, Kill, Gone, TerminalInv
<1>5. CASE UNCHANGED sessionVars
  BY <1>5 DEF sessionVars, argVars, ttyVars, TerminalInv
<1> QED BY <1>1, <1>2, <1>3, <1>4, <1>5, <1>6 DEF Next, main, Failing

\* The terminal is left in the mode it was found in by every run that names two
\* folders and is not killed.
THEOREM SessionTerminal == Spec => TerminalRestored
<1>1. Init => TerminalInv
  BY DEF Init, TerminalInv
<1>2. TerminalInv /\ [Next]_sessionVars => TerminalInv'
  BY TerminalStep
<1>3. TerminalInv /\ [Next]_sessionVars
          => [Exit /\ Len(opts.folders) = 2 /\ ~opts.refused => tty' = before]_sessionVars
  BY DEF TerminalInv, Exit
<1> QED BY <1>1, <1>2, <1>3, PTL DEF Spec, TerminalRestored

-----------------------------------------------------------------------------
(* The questions.                                                          *)

\* To the questions a step of a run is one of theirs, or a new beginning.
LEMMA QuestionStep ==
    ASSUME [Next]_sessionVars
    PROVE  [QueryNext]_queryVars \/ FreshAgain
<1>1. CASE Launch \/ Parse \/ Prepare \/ Initialize \/ StartBackup \/ Finish \/ Fails
  BY <1>1 DEF Launch, Parse, Prepare, Initialize, StartBackup, Finish, Fails
<1>2. CASE AskUser \/ Wait \/ UserTypes
  BY <1>2 DEF AskUser, Wait, UserTypes, QueryNext
<1>3. CASE Exit \/ Kill
  BY <1>3 DEF Exit, Kill, Gone
<1>4. CASE UNCHANGED sessionVars
  BY <1>4 DEF sessionVars
<1> QED BY <1>1, <1>2, <1>3, <1>4 DEF Next, main, Failing

LEMMA RunInv == Spec => []QueryInv
<1>1. Fresh => QueryInv
  BY FreshInv
<1>2. Fresh' => QueryInv'
  BY <1>1, PTL
<1>3. FreshAgain => Fresh'
  BY DEF FreshAgain, Fresh, Default
<1>4. QueryInv /\ [Next]_sessionVars => QueryInv'
  BY <1>2, <1>3, QuestionStep, QueryStep
<1>5. Init => QueryInv
  BY <1>1 DEF Init
<1> QED BY <1>4, <1>5, PTL DEF Spec

\* A run that nobody answers is not held up for longer than twice the full
\* time, and the least time for each of its questions.
THEOREM SessionSilence == Spec => []SilenceIsShort
<1>1. QueryInv => SilenceIsShort
  BY InvImplies
<1> QED BY <1>1, RunInv, PTL

\* A key that comes alone, at a question and in time, answers that question and
\* no other, in every run.
THEOREM SessionAnswers == Spec => OneKeyAnswers
<1>1. QueryInv => [Answer /\ ~hasty => NextKey.at = number]_queryVars
  BY OneAnswer
<1> QED BY <1>1, RunInv, PTL DEF OneKeyAnswers

-----------------------------------------------------------------------------
(* The options.                                                            *)

\* What is known of the world: it stays one of those that are assumed.
WorldInv ==
    /\ DOMAIN world = {"args", "place", "questions"}
    /\ world.args \in Seq(STRING)
    /\ DOMAIN world.place \cap Letter = {}
    /\ \A p \in DOMAIN world.place : world.place[p] \in LocalPlace \cup SmbPlace \cup SshPlace

Options ==
    [file : Choice, folder : Choice, recursive : BOOLEAN, anonymous : BOOLEAN,
     noLinks : BOOLEAN, folders : Seq(DOMAIN world.place), refused : BOOLEAN]

\* What the options say after the first n arguments.
FileTold(c, n) ==
    /\ \A k \in 1..n : world.args[k] \in DOMAIN FileOption => c.file = FileOption[world.args[k]]
    /\ c.file # "notSet" =>
           \E k \in 1..n : /\ world.args[k] \in DOMAIN FileOption
                           /\ c.file = FileOption[world.args[k]]

FolderTold(c, n) ==
    /\ \A k \in 1..n :
           world.args[k] \in DOMAIN FolderOption => c.folder = FolderOption[world.args[k]]
    /\ c.folder # "notSet" =>
           \E k \in 1..n : /\ world.args[k] \in DOMAIN FolderOption
                           /\ c.folder = FolderOption[world.args[k]]

RecursiveTold(c, n) == c.recursive <=> \E k \in 1..n : world.args[k] = "r"

PlacesTold(c, n) ==
    \/ /\ c.folders = <<>>
       /\ \A k \in 1..n : ~IsPlace(world.args[k])
    \/ \E i \in 1..n :
          /\ c.folders = <<world.args[i]>>
          /\ \A k \in 1..n : IsPlace(world.args[k]) <=> k = i
    \/ \E i \in 1..n, j \in 1..n :
          /\ i < j
          /\ c.folders = <<world.args[i], world.args[j]>>
          /\ \A k \in 1..n : IsPlace(world.args[k]) <=> k = i \/ k = j

AsTold(c, n) == FileTold(c, n) /\ FolderTold(c, n) /\ RecursiveTold(c, n) /\ PlacesTold(c, n)

\* RunIsAsTold, and what it is on the way there.
ToldInv ==
    /\ WorldInv
    /\ opts \in Options
    /\ arg \in 1..(Len(world.args) + 1)
    /\ at \notin {"shell", "exit", "failed"} => ~opts.refused /\ AsTold(opts, arg - 1)
    /\ at \notin {"shell", "parse", "exit", "failed"} =>
           arg = Len(world.args) + 1 /\ Len(opts.folders) = 2
    /\ at = "shell" => arg = 1 /\ opts = Unset

LEMMA WithType ==
    ASSUME WorldInv, NEW c \in Options, NEW t \in STRING
    PROVE  With(c, t) \in Options
<1>1. IsPlace(t) => Append(c.folders, t) \in Seq(DOMAIN world.place)
  BY AppendProperties DEF IsPlace, Options
<1>2. t \in DOMAIN FileOption => FileOption[t] \in Choice
  BY DEF FileOption, Choice
<1>3. t \in DOMAIN FolderOption => FolderOption[t] \in Choice
  BY DEF FolderOption, Choice
<1>4. LastOne(c, t) \in Options
  BY <1>1, <1>2, <1>3 DEF LastOne, Options
<1> QED BY <1>4 DEF With, Options

\* The next argument says nothing of the files, or is the first to do so.
LEMMA FileNext ==
    ASSUME NEW c, NEW d, NEW n \in Nat, FileTold(c, n),
           IF world.args[n + 1] \in DOMAIN FileOption
           THEN c.file = "notSet" /\ d.file = FileOption[world.args[n + 1]]
           ELSE d.file = c.file
    PROVE  FileTold(d, n + 1)
<1>0. \A o \in DOMAIN FileOption : FileOption[o] # "notSet"
  BY DEF FileOption
<1>1. \A k \in 1..(n + 1) : k \in 1..n \/ k = n + 1
  OBVIOUS
<1>2. 1..n \subseteq 1..(n + 1) /\ n + 1 \in 1..(n + 1)
  OBVIOUS
<1>3. CASE world.args[n + 1] \in DOMAIN FileOption
  <2>1. \A k \in 1..n : world.args[k] \notin DOMAIN FileOption
    BY <1>0, <1>3 DEF FileTold
  <2> QED BY <1>1, <1>2, <1>3, <2>1 DEF FileTold
<1>4. CASE world.args[n + 1] \notin DOMAIN FileOption
  BY <1>1, <1>2, <1>4 DEF FileTold
<1> QED BY <1>3, <1>4

LEMMA FolderNext ==
    ASSUME NEW c, NEW d, NEW n \in Nat, FolderTold(c, n),
           IF world.args[n + 1] \in DOMAIN FolderOption
           THEN c.folder = "notSet" /\ d.folder = FolderOption[world.args[n + 1]]
           ELSE d.folder = c.folder
    PROVE  FolderTold(d, n + 1)
<1>0. \A o \in DOMAIN FolderOption : FolderOption[o] # "notSet"
  BY DEF FolderOption
<1>1. \A k \in 1..(n + 1) : k \in 1..n \/ k = n + 1
  OBVIOUS
<1>2. 1..n \subseteq 1..(n + 1) /\ n + 1 \in 1..(n + 1)
  OBVIOUS
<1>3. CASE world.args[n + 1] \in DOMAIN FolderOption
  <2>1. \A k \in 1..n : world.args[k] \notin DOMAIN FolderOption
    BY <1>0, <1>3 DEF FolderTold
  <2> QED BY <1>1, <1>2, <1>3, <2>1 DEF FolderTold
<1>4. CASE world.args[n + 1] \notin DOMAIN FolderOption
  BY <1>1, <1>2, <1>4 DEF FolderTold
<1> QED BY <1>3, <1>4

LEMMA RecursiveNext ==
    ASSUME NEW c, NEW d, NEW n \in Nat, RecursiveTold(c, n),
           d.recursive <=> c.recursive \/ world.args[n + 1] = "r"
    PROVE  RecursiveTold(d, n + 1)
<1>1. \A k \in 1..(n + 1) : k \in 1..n \/ k = n + 1
  OBVIOUS
<1>2. 1..n \subseteq 1..(n + 1) /\ n + 1 \in 1..(n + 1)
  OBVIOUS
<1> QED BY <1>1, <1>2 DEF RecursiveTold

LEMMA PlacesNext ==
    ASSUME NEW c, NEW d, NEW n \in Nat, PlacesTold(c, n),
           IF IsPlace(world.args[n + 1])
           THEN Len(c.folders) # 2 /\ d.folders = Append(c.folders, world.args[n + 1])
           ELSE d.folders = c.folders
    PROVE  PlacesTold(d, n + 1)
<1>1. \A k \in 1..(n + 1) : k \in 1..n \/ k = n + 1
  OBVIOUS
<1>2. /\ 1..n \subseteq 1..(n + 1) /\ n + 1 \in 1..(n + 1)
      /\ \A k \in 1..n : k < n + 1 /\ k # n + 1
  OBVIOUS
<1>3. CASE ~IsPlace(world.args[n + 1])
  <2>1. CASE /\ c.folders = <<>>
             /\ \A k \in 1..n : ~IsPlace(world.args[k])
    BY <1>1, <1>3, <2>1 DEF PlacesTold
  <2>2. CASE \E i \in 1..n :
                /\ c.folders = <<world.args[i]>>
                /\ \A k \in 1..n : IsPlace(world.args[k]) <=> k = i
    <3>1. PICK i \in 1..n : /\ c.folders = <<world.args[i]>>
                            /\ \A k \in 1..n : IsPlace(world.args[k]) <=> k = i
      BY <2>2
    <3>2. i \in 1..(n + 1) /\ \A k \in 1..(n + 1) : IsPlace(world.args[k]) <=> k = i
      BY <1>1, <1>2, <1>3, <3>1
    <3> QED BY <1>3, <3>1, <3>2 DEF PlacesTold
  <2>3. CASE \E i \in 1..n, j \in 1..n :
                /\ i < j
                /\ c.folders = <<world.args[i], world.args[j]>>
                /\ \A k \in 1..n : IsPlace(world.args[k]) <=> k = i \/ k = j
    <3>1. PICK i \in 1..n, j \in 1..n :
                /\ i < j
                /\ c.folders = <<world.args[i], world.args[j]>>
                /\ \A k \in 1..n : IsPlace(world.args[k]) <=> k = i \/ k = j
      BY <2>3
    <3>2. /\ i \in 1..(n + 1) /\ j \in 1..(n + 1)
          /\ \A k \in 1..(n + 1) : IsPlace(world.args[k]) <=> k = i \/ k = j
      BY <1>1, <1>2, <1>3, <3>1
    <3> QED BY <1>3, <3>1, <3>2 DEF PlacesTold
  <2> QED BY <2>1, <2>2, <2>3 DEF PlacesTold
<1>4. CASE IsPlace(world.args[n + 1])
  <2>1. CASE /\ c.folders = <<>>
             /\ \A k \in 1..n : ~IsPlace(world.args[k])
    <3>1. d.folders = <<world.args[n + 1]>>
      BY <1>4, <2>1
    <3>2. \A k \in 1..(n + 1) : IsPlace(world.args[k]) <=> k = n + 1
      BY <1>1, <1>2, <1>4, <2>1
    <3> QED BY <1>2, <3>1, <3>2 DEF PlacesTold
  <2>2. CASE \E i \in 1..n :
                /\ c.folders = <<world.args[i]>>
                /\ \A k \in 1..n : IsPlace(world.args[k]) <=> k = i
    <3>1. PICK i \in 1..n : /\ c.folders = <<world.args[i]>>
                            /\ \A k \in 1..n : IsPlace(world.args[k]) <=> k = i
      BY <2>2
    <3>2. d.folders = <<world.args[i], world.args[n + 1]>>
      BY <1>4, <3>1
    <3>3. i \in 1..(n + 1) /\ i < n + 1
          /\ \A k \in 1..(n + 1) : IsPlace(world.args[k]) <=> k = i \/ k = n + 1
      BY <1>1, <1>2, <1>4, <3>1
    <3> QED BY <1>2, <3>2, <3>3 DEF PlacesTold
  <2>3. CASE \E i \in 1..n, j \in 1..n :
                /\ i < j
                /\ c.folders = <<world.args[i], world.args[j]>>
                /\ \A k \in 1..n : IsPlace(world.args[k]) <=> k = i \/ k = j
    BY <1>4, <2>3
  <2> QED BY <2>1, <2>2, <2>3 DEF PlacesTold
<1> QED BY <1>3, <1>4

\* An argument that is not refused is taken for what it is, and nothing else is
\* touched.
LEMMA WithTold ==
    ASSUME WorldInv, NEW c \in Options, NEW n \in Nat, n + 1 \in 1..Len(world.args),
           AsTold(c, n), ~c.refused, ~With(c, world.args[n + 1]).refused
    PROVE  AsTold(With(c, world.args[n + 1]), n + 1)
<1> DEFINE t == world.args[n + 1]
           d == With(c, t)
<1>1. /\ d = LastOne(c, t)
      /\ t \in DOMAIN FileOption => c.file = "notSet"
      /\ t \in DOMAIN FolderOption => c.folder = "notSet"
      /\ IsPlace(t) => Len(c.folders) # 2
  BY DEF With, Options
<1>2. /\ DOMAIN FileOption = {"l", "a", "d"} /\ DOMAIN FolderOption = {"m", "b", "e"}
      /\ IsPlace(t) => t \notin {"l", "a", "d", "m", "b", "e", "r", "u", "n"}
  BY DEF FileOption, FolderOption, IsPlace, WorldInv, Letter
<1>3. /\ t \in DOMAIN FileOption => d = [c EXCEPT !.file = FileOption[t]]
      /\ t \in DOMAIN FolderOption => d = [c EXCEPT !.folder = FolderOption[t]]
      /\ t = "r" => d = [c EXCEPT !.recursive = TRUE]
      /\ t = "u" => d = [c EXCEPT !.anonymous = TRUE]
      /\ t = "n" => d = [c EXCEPT !.noLinks = TRUE]
      /\ IsPlace(t) => d = [c EXCEPT !.folders = Append(@, t)]
      /\ t \notin {"l", "a", "d", "m", "b", "e", "r", "u", "n"} /\ ~IsPlace(t) => d = c
  BY <1>1, <1>2 DEF LastOne
<1> HIDE DEF d, t
<1>4. IF t \in DOMAIN FileOption THEN c.file = "notSet" /\ d.file = FileOption[t]
                                 ELSE d.file = c.file
  BY <1>1, <1>2, <1>3 DEF Options
<1>5. IF t \in DOMAIN FolderOption THEN c.folder = "notSet" /\ d.folder = FolderOption[t]
                                   ELSE d.folder = c.folder
  BY <1>1, <1>2, <1>3 DEF Options
<1>6. d.recursive <=> c.recursive \/ t = "r"
  BY <1>2, <1>3 DEF Options
<1>7. IF IsPlace(t) THEN Len(c.folders) # 2 /\ d.folders = Append(c.folders, t)
                    ELSE d.folders = c.folders
  BY <1>1, <1>2, <1>3 DEF Options
<1>8. FileTold(d, n + 1)
  BY <1>4, FileNext DEF AsTold, t
<1>9. FolderTold(d, n + 1)
  BY <1>5, FolderNext DEF AsTold, t
<1>10. RecursiveTold(d, n + 1)
  BY <1>6, RecursiveNext DEF AsTold, t
<1>11. PlacesTold(d, n + 1)
  BY <1>7, PlacesNext DEF AsTold, t
<1>12. AsTold(d, n + 1)
  BY <1>8, <1>9, <1>10, <1>11 DEF AsTold
<1> QED BY <1>12 DEF d, t

LEMMA ToldSame ==
    ASSUME UNCHANGED <<world, opts>>, NEW n \in Nat, AsTold(opts, n)
    PROVE  AsTold(opts, n)'
BY DEF AsTold, FileTold, FolderTold, RecursiveTold, PlacesTold, IsPlace

LEMMA ToldStep ==
    ASSUME ToldInv, [Next]_sessionVars
    PROVE  ToldInv'
<1>0. Len(world.args) \in Nat /\ DOMAIN world.args = 1..Len(world.args) /\ arg - 1 \in Nat
  BY LenProperties DEF ToldInv, WorldInv
<1>1. CASE Launch
  <2>1. at = "shell" /\ at' = "parse" /\ UNCHANGED <<world, arg, opts>>
    BY <1>1 DEF Launch, argVars
  <2>2. arg - 1 = 0 /\ opts = Unset
    BY <2>1 DEF ToldInv
  <2>3. AsTold(opts, 0)
    BY <2>2 DEF AsTold, FileTold, FolderTold, RecursiveTold, PlacesTold, Unset
  <2>4. AsTold(opts, arg - 1)' /\ ~opts'.refused
    BY <2>1, <2>2, <2>3, ToldSame DEF Unset
  <2> QED BY <2>1, <2>4 DEF ToldInv, WorldInv, Options
<1>2. CASE Parse
  <2>1. /\ at = "parse" /\ arg \in 1..Len(world.args)
        /\ opts' = With(opts, world.args[arg]) /\ arg' = arg + 1
        /\ at' = IF opts'.refused THEN "exit" ELSE "parse"
        /\ UNCHANGED world
    BY <1>0, <1>2 DEF Parse
  <2>2. world.args[arg] \in STRING
    BY <2>1, ElementOfSeq DEF ToldInv, WorldInv
  <2>3. opts' \in Options
    BY <2>1, <2>2, WithType DEF ToldInv
  <2>4. ASSUME ~opts'.refused
        PROVE  AsTold(opts, arg - 1)'
    <3> DEFINE n == arg - 1
    <3>1. n \in Nat /\ n + 1 = arg /\ arg' - 1 = arg
      BY <1>0, <2>1
    <3>2. AsTold(With(opts, world.args[n + 1]), n + 1)
      BY <2>1, <2>4, <3>1, WithTold DEF ToldInv
    <3>3. AsTold(opts', arg)
      BY <2>1, <3>1, <3>2
    <3> QED
      BY <2>1, <3>1, <3>3 DEF AsTold, FileTold, FolderTold, RecursiveTold, PlacesTold, IsPlace
  <2>5. CASE opts'.refused
    BY <1>0, <2>1, <2>3, <2>5 DEF ToldInv, WorldInv, Options
  <2>6. CASE ~opts'.refused
    BY <1>0, <2>1, <2>3, <2>4, <2>6 DEF ToldInv, WorldInv, Options
  <2> QED BY <2>5, <2>6
<1>3. CASE Prepare
  <2>1. /\ at = "parse" /\ arg = Len(world.args) + 1
        /\ at' = IF Len(opts.folders) = 2 THEN "open" ELSE "exit"
        /\ UNCHANGED <<world, arg, opts>>
    BY <1>0, <1>3 DEF Prepare, argVars, ToldInv
  <2>2. AsTold(opts, arg - 1)'
    BY <1>0, <2>1, ToldSame DEF ToldInv
  <2> QED BY <2>1, <2>2 DEF ToldInv, WorldInv, Options
<1>4. CASE CreateLocal /\ UNCHANGED argVars
  <2>1. at' = "exit" /\ UNCHANGED <<arg, opts>>
    BY <1>4 DEF CreateLocal, argVars
  <2>2. /\ DOMAIN world' = {"args", "place", "questions"}
        /\ world'.args = world.args
        /\ DOMAIN world'.place = DOMAIN world.place
    BY <1>4 DEF CreateLocal, ToldInv, WorldInv
  <2>3. ASSUME NEW p \in DOMAIN world.place
        PROVE  world'.place[p] \in LocalPlace \cup SmbPlace \cup SshPlace
    <3>1. world.place[p] \in LocalPlace \cup SmbPlace \cup SshPlace
      BY DEF ToldInv, WorldInv
    <3>2. CASE world'.place[p] = world.place[p]
      BY <3>1, <3>2
    <3>3. CASE world'.place[p] # world.place[p]
      <4>1. p = PlaceOf(side) /\ world'.place[p] = [world.place[p] EXCEPT !.root = "folder"]
        BY <1>4, <3>3 DEF CreateLocal, ToldInv, WorldInv
      <4>2. world.place[p].kind = "local"
        BY <1>4, <4>1 DEF CreateLocal, Place
      <4>3. world.place[p] \in LocalPlace
        BY <3>1, <4>2 DEF LocalPlace, SmbPlace, SshPlace
      <4>4. ASSUME NEW l \in LocalPlace
            PROVE  [l EXCEPT !.root = "folder"] \in LocalPlace
        BY DEF LocalPlace, Root
      <4> QED BY <4>1, <4>3, <4>4
    <3> QED BY <3>2, <3>3
  <2> QED BY <2>1, <2>2, <2>3 DEF ToldInv, WorldInv, Options
<1>5. CASE \/ Initialize /\ ~CreateLocal
           \/ StartBackup \/ AskUser \/ Wait \/ UserTypes \/ Finish \/ Fails
  <2>1. UNCHANGED <<world, arg, opts>>
    <3>1. CASE Initialize /\ ~CreateLocal
      BY <3>1 DEF Initialize, OpenLocal, OpenSmb, Split, Reach, WithPassword, WithoutLogin,
          WithPublicKey, UnknownMethod, TryIdentity, OpenSftp, ensureRootAccess,
          GoTo, Refuse, LogIn, Opened, argVars
    <3>2. CASE StartBackup \/ AskUser \/ Wait \/ UserTypes \/ Finish \/ Fails
      BY <3>2 DEF StartBackup, AskUser, Wait, UserTypes, Finish, Fails, GoTo, argVars
    <3> QED BY <1>5, <3>1, <3>2
  <2>2. /\ at \notin {"shell", "parse", "exit", "failed"} /\ at' \notin {"shell", "parse"}
    BY <1>5, OnTheWay
  <2>3. AsTold(opts, arg - 1)'
    BY <1>0, <2>1, <2>2, ToldSame DEF ToldInv
  <2> QED BY <2>1, <2>2, <2>3 DEF ToldInv, WorldInv, Options
<1>6. CASE Exit \/ Kill
  <2>1. at' = "shell" /\ arg' = 1 /\ opts' = Unset /\ UNCHANGED world
    BY <1>6 DEF Exit, Kill, Gone
  <2>2. Unset \in Options
    BY EmptySeq DEF Unset, Options, Choice
  <2> QED BY <1>0, <2>1, <2>2 DEF ToldInv, WorldInv, Options
<1>7. CASE UNCHANGED sessionVars
  <2>1. UNCHANGED <<at, world, arg, opts>>
    BY <1>7 DEF sessionVars, argVars
  <2>2. AsTold(opts, arg - 1) => AsTold(opts, arg - 1)'
    BY <1>0, <2>1, ToldSame
  <2> QED BY <2>1, <2>2 DEF ToldInv, WorldInv, Options
<1>8. Initialize => UNCHANGED argVars
  BY DEF Initialize, argVars
<1> QED
  BY <1>1, <1>2, <1>3, <1>4, <1>5, <1>6, <1>7, <1>8 DEF Next, main, Failing

LEMMA ToldImplies ==
    ASSUME ToldInv
    PROVE  RunIsAsTold
<1> SUFFICES ASSUME at = "run"
             PROVE  RunIsAsTold
  BY DEF RunIsAsTold
<1> DEFINE n == Len(world.args)
<1>1. DOMAIN world.args = 1..n /\ n \in Nat /\ arg - 1 = n
  BY LenProperties DEF ToldInv, WorldInv
<1>2. AsTold(opts, n) /\ Len(opts.folders) = 2
  BY <1>1 DEF ToldInv
<1>3. \A o \in Told : \E k \in 1..n : o = world.args[k]
  BY <1>1 DEF Told
<1>4. \A k \in 1..n : world.args[k] \in Told
  BY <1>1 DEF Told
<1> HIDE DEF n
<1>5. \A o \in DOMAIN FileOption \cap Told : eFileOption = FileOption[o]
  <2> TAKE o \in DOMAIN FileOption \cap Told
  <2>1. opts.file = FileOption[o] /\ FileOption[o] # "notSet"
    BY <1>2, <1>3 DEF AsTold, FileTold, FileOption
  <2> QED BY <2>1 DEF eFileOption
<1>6. \A o \in DOMAIN FolderOption \cap Told : eFolderOption = FolderOption[o]
  <2> TAKE o \in DOMAIN FolderOption \cap Told
  <2>1. opts.folder = FolderOption[o] /\ FolderOption[o] # "notSet"
    BY <1>2, <1>3 DEF AsTold, FolderTold, FolderOption
  <2> QED BY <2>1 DEF eFolderOption
<1>7. eFileOption = "delete" => "d" \in Told
  <2> SUFFICES ASSUME opts.file = "delete"
               PROVE  "d" \in Told
    BY DEF eFileOption
  <2>1. PICK k \in 1..n : world.args[k] \in DOMAIN FileOption /\ FileOption[world.args[k]] = "delete"
    BY <1>2 DEF AsTold, FileTold
  <2>2. world.args[k] = "d"
    BY <2>1 DEF FileOption
  <2> QED BY <1>4, <2>2
<1>8. eFolderOption = "delete" => "e" \in Told
  <2> SUFFICES ASSUME opts.folder = "delete"
               PROVE  "e" \in Told
    BY DEF eFolderOption
  <2>1. PICK k \in 1..n :
            world.args[k] \in DOMAIN FolderOption /\ FolderOption[world.args[k]] = "delete"
    BY <1>2 DEF AsTold, FolderTold
  <2>2. world.args[k] = "e"
    BY <2>1 DEF FolderOption
  <2> QED BY <1>4, <2>2
<1>9. opts.recursive = ("r" \in Told)
  <2>1. opts.recursive <=> "r" \in Told
    BY <1>2, <1>3, <1>4 DEF AsTold, RecursiveTold
  <2>2. opts.recursive \in BOOLEAN
    BY DEF ToldInv, Options
  <2> QED BY <2>1, <2>2
<1>10. \E i, j \in DOMAIN world.args :
           /\ i < j
           /\ {k \in DOMAIN world.args : IsPlace(world.args[k])} = {i, j}
           /\ opts.folders = <<world.args[i], world.args[j]>>
  <2>1. PICK i \in 1..n, j \in 1..n :
            /\ i < j
            /\ opts.folders = <<world.args[i], world.args[j]>>
            /\ \A k \in 1..n : IsPlace(world.args[k]) <=> k = i \/ k = j
    BY <1>2 DEF AsTold, PlacesTold
  <2>2. {k \in DOMAIN world.args : IsPlace(world.args[k])} = {i, j}
    BY <1>1, <2>1
  <2> QED BY <1>1, <2>1, <2>2
<1> QED BY <1>5, <1>6, <1>7, <1>8, <1>9, <1>10 DEF RunIsAsTold

LEMMA ToldAlways == Spec => []ToldInv
<1>1. Init => ToldInv
  <2> SUFFICES ASSUME Init
               PROVE  ToldInv
    OBVIOUS
  <2>1. WorldInv /\ Len(world.args) \in Nat
    BY WorldAssumption, LenProperties DEF Init, WorldInv
  <2>2. Unset \in Options
    BY EmptySeq DEF Unset, Options, Choice
  <2> QED BY <2>1, <2>2 DEF Init, ToldInv
<1>2. ToldInv /\ [Next]_sessionVars => ToldInv'
  BY ToldStep
<1> QED BY <1>1, <1>2, PTL DEF Spec

\* A run that starts does what its arguments say, whatever they are and in
\* whatever order they come.
THEOREM SessionTold == Spec => []RunIsAsTold
<1>1. ToldInv => RunIsAsTold
  BY ToldImplies
<1> QED BY <1>1, ToldAlways, PTL

-----------------------------------------------------------------------------
(* Types.                                                                  *)

\* The types of what is neither the options' nor the questions'.
StepType ==
    /\ at \in {"shell", "parse", "open", "resolve", "connect", "handshake", "methods",
               "agent", "sftp", "access", "start", "run", "exit", "failed"}
    /\ side \in {"src", "dst"}
    /\ next \in Nat
    /\ loggedIn \subseteq {"src", "dst"}
    /\ tty \in {"none", "lines", "keys"}
    /\ g_SavedTerminal \in {"none", "lines", "keys"}
    /\ before \in {"none", "lines", "keys"}
    /\ restores \in BOOLEAN

LEMMA StepTypeStep ==
    ASSUME StepType, [Next]_sessionVars
    PROVE  StepType'
<1>1. CASE Launch \/ Parse
  BY <1>1 DEF Launch, Parse, StepType, loginVars, ttyVars
<1>2. CASE Prepare
  <2>1. restores' \in BOOLEAN
    BY <1>2 DEF Prepare
  <2>2. at' \in {"open", "exit"}
    BY <1>2 DEF Prepare
  <2> QED BY <1>2, <2>1, <2>2 DEF Prepare, StepType, loginVars
<1>3. CASE Initialize
  <2>1. UNCHANGED <<tty, g_SavedTerminal, restores, before>>
    BY <1>3 DEF Initialize, ttyVars
  <2>2. CASE OpenLocal \/ OpenSmb \/ Split \/ WithoutLogin \/ UnknownMethod \/ OpenSftp
    <3>1. at' \in {"access", "resolve", "exit", "sftp"} /\ UNCHANGED loginVars
      BY <2>2 DEF OpenLocal, OpenSmb, Split, WithoutLogin, UnknownMethod, OpenSftp, GoTo, Refuse
    <3> QED BY <2>1, <3>1 DEF StepType, loginVars
  <2>3. CASE CreateLocal
    BY <2>1, <2>3 DEF CreateLocal, StepType, loginVars
  <2>4. CASE Reach
    <3>1. at' \in {"connect", "handshake", "methods"} /\ UNCHANGED loginVars
      BY <2>4 DEF Reach, GoTo, Connected
    <3> QED BY <2>1, <3>1 DEF StepType, loginVars
  <2>5. CASE WithPassword
    BY <2>1, <2>5 DEF WithPassword, LogIn, GoTo, Refuse, StepType, loginVars
  <2>6. CASE WithPublicKey
    BY <2>1, <2>6 DEF WithPublicKey, StepType
  <2>7. CASE TryIdentity
    <3>1. CASE Refuse \/ LogIn
      BY <2>1, <3>1 DEF LogIn, GoTo, Refuse, StepType, loginVars
    <3>2. CASE next' = next + 1 /\ UNCHANGED <<at, world, side, loggedIn>>
      BY <2>1, <3>2 DEF StepType
    <3> QED BY <2>7, <3>1, <3>2 DEF TryIdentity
  <2>8. CASE ensureRootAccess
    BY <2>1, <2>8 DEF ensureRootAccess, Opened, GoTo, Refuse, StepType, loginVars
  <2> QED
    BY <1>3, <2>2, <2>3, <2>4, <2>5, <2>6, <2>7, <2>8 DEF Initialize
<1>4. CASE StartBackup \/ AskUser \/ Wait \/ UserTypes \/ Finish \/ Fails
  BY <1>4 DEF StartBackup, AskUser, Wait, UserTypes, Finish, Fails, GoTo, StepType,
      loginVars, ttyVars
<1>5. CASE Exit \/ Kill
  <2>1. /\ at' = "shell" /\ side' = "src" /\ next' = 0 /\ loggedIn' = {}
        /\ g_SavedTerminal' = "none" /\ restores' = FALSE /\ before' = "none"
    BY <1>5 DEF Exit, Kill, Gone
  <2>2. tty' \in {tty, g_SavedTerminal}
    BY <1>5 DEF Exit, Kill
  <2> QED BY <2>1, <2>2 DEF StepType
<1>6. CASE UNCHANGED sessionVars
  BY <1>6 DEF sessionVars, loginVars, ttyVars, StepType
<1> QED BY <1>1, <1>2, <1>3, <1>4, <1>5, <1>6 DEF Next, main, Failing

\* The types of a run's state.
THEOREM SessionType == Spec => []SessionTypeOK
<1>1. Init => StepType
  <2> SUFFICES ASSUME Init
               PROVE  StepType
    OBVIOUS
  <2>1. /\ at = "shell" /\ side = "src" /\ next = 0 /\ loggedIn = {}
        /\ tty = "lines" /\ g_SavedTerminal = "none" /\ before = "none" /\ restores = FALSE
    BY DEF Init
  <2> QED BY <2>1 DEF StepType
<1>2. StepType /\ [Next]_sessionVars => StepType'
  BY StepTypeStep
<1>3. StepType /\ ToldInv /\ QueryInv => SessionTypeOK
  <2> SUFFICES ASSUME StepType, ToldInv, QueryInv
               PROVE  SessionTypeOK
    OBVIOUS
  <2>1. QueryTypeOK
    BY InvImplies
  <2>2. at \in {"shell", "parse", "open", "methods", "agent", "sftp", "access",
               "start", "run", "exit", "failed"} \cup DOMAIN Connected
    BY DEF StepType, Connected
  <2>3. /\ arg \in 1..(Len(world.args) + 1)
        /\ opts \in Options
    BY DEF ToldInv
  <2>4. {tty, g_SavedTerminal, before} \subseteq {"none", "lines", "keys"}
    BY DEF StepType
  <2> QED BY <2>1, <2>2, <2>3, <2>4 DEF StepType, Options, SessionTypeOK
<1> QED BY <1>1, <1>2, <1>3, ToldAlways, RunInv, PTL DEF Spec

-----------------------------------------------------------------------------
(* The URL.                                                                *)

Symbol == Word \cup {":", "@", "/"}

AWord == {<<>>} \cup {<<x>> : x \in Word}

\* What is left of u from i on.
From(u, i) == SubSeq(u, i, Len(u))

LEMMA Assoc ==
    ASSUME NEW a \in Seq(Symbol), NEW b \in Seq(Symbol), NEW c \in Seq(Symbol)
    PROVE  (a \o b) \o c = a \o (b \o c) /\ a \o b \in Seq(Symbol)
BY ConcatAssociative, ConcatProperties

LEMMA SymbolIsNotEnd == End \notin Symbol
BY PathAssumption DEF Symbol, End

\* Reading behind p is reading what follows p.
LEMMA AtBehind ==
    ASSUME NEW p \in Seq(Symbol), NEW v \in Seq(Symbol), NEW i \in Nat \ {0}
    PROVE  At(p \o v, Len(p) + i) = At(v, i)
<1>1. p \o v \in Seq(Symbol) /\ Len(p \o v) = Len(p) + Len(v) /\ Len(p) \in Nat /\ Len(v) \in Nat
  BY ConcatProperties, LenProperties
<1>2. DOMAIN (p \o v) = 1..(Len(p) + Len(v)) /\ DOMAIN v = 1..Len(v)
  BY <1>1, LenProperties
<1>3. CASE i <= Len(v)
  <2>1. (p \o v)[Len(p) + i] = v[i]
    BY <1>1, <1>3, ConcatProperties
  <2> QED BY <1>1, <1>2, <1>3, <2>1 DEF At
<1>4. CASE ~(i <= Len(v))
  BY <1>1, <1>2, <1>4 DEF At
<1> QED BY <1>3, <1>4

\* A word behind p, with no word behind it, is read, and reading goes on there.
LEMMA WordBehind ==
    ASSUME NEW p \in Seq(Symbol), NEW w \in AWord, NEW v \in Seq(Symbol), At(v, 1) \notin Word
    PROVE  /\ WordAt(p \o (w \o v), Len(p) + 1) = w
           /\ Behind(p \o (w \o v), Len(p) + 1) = Len(p \o w) + 1
           /\ p \o (w \o v) = (p \o w) \o v
           /\ p \o w \in Seq(Symbol)
<1> DEFINE u == p \o (w \o v)
<1>0. w \in Seq(Symbol)
  <2>1. w = <<>> \/ \E x \in Symbol : w = <<x>>
    BY DEF AWord, Symbol
  <2>2. CASE w = <<>>
    BY <2>2, EmptySeq
  <2>3. CASE \E x \in Symbol : w = <<x>>
    BY <2>3
  <2> QED BY <2>1, <2>2, <2>3
<1>1. w \in Seq(Symbol) /\ Len(p) \in Nat /\ Len(w) \in Nat
  BY <1>0, LenProperties
<1>2. w \o v \in Seq(Symbol) /\ u \in Seq(Symbol) /\ p \o w \in Seq(Symbol)
      /\ Len(p \o w) = Len(p) + Len(w)
  BY <1>1, ConcatProperties
<1>3. At(u, Len(p) + 1) = At(w \o v, 1)
  <2>1. w \o v \in Seq(Symbol) /\ 1 \in Nat \ {0}
    BY <1>2
  <2> QED BY <2>1, AtBehind
<1>4. WordAt(u, Len(p) + 1) = w
  <2>1. CASE w = <<>>
    <3>1. w \o v = v
      BY <2>1, ConcatEmptySeq
    <3> QED BY <1>3, <2>1, <3>1 DEF WordAt
  <2>2. CASE w # <<>>
    <3>1. PICK x \in Word : w = <<x>>
      BY <2>2 DEF AWord
    <3>2. Len(w) = 1 /\ w[1] = x
      BY <3>1
    <3>3. (w \o v)[1] = x /\ 1 \in DOMAIN (w \o v)
      BY <1>1, <1>2, <3>2, ConcatProperties, LenProperties
    <3>4. At(w \o v, 1) = x
      BY <3>3 DEF At
    <3>5. Len(p) + 1 \in DOMAIN u
      BY <1>1, <1>2, <3>2, ConcatProperties, LenProperties
    <3>6. u[Len(p) + 1] = x
      BY <1>3, <3>4, <3>5 DEF At
    <3> QED BY <1>3, <3>1, <3>4, <3>6 DEF WordAt
  <2> QED BY <2>1, <2>2
<1>5. Behind(u, Len(p) + 1) = Len(p \o w) + 1
  BY <1>1, <1>2, <1>4 DEF Behind
<1>6. u = (p \o w) \o v
  <2>1. (p \o w) \o v = p \o (w \o v)
    BY <1>0, ConcatAssociative
  <2> QED BY <2>1
<1> QED BY <1>2, <1>4, <1>5, <1>6

\* From i on there is a word, which may be empty, and what is behind it.
LEMMA WordThenRest ==
    ASSUME NEW u \in Seq(Symbol), NEW i \in 1..(Len(u) + 1)
    PROVE  /\ From(u, i) = WordAt(u, i) \o From(u, Behind(u, i))
           /\ WordAt(u, i) \in AWord
           /\ Behind(u, i) \in i..(Len(u) + 1)
<1>1. DOMAIN u = 1..Len(u) /\ Len(u) \in Nat
  BY LenProperties
<1>2. CASE At(u, i) \in Word
  <2>1. i \in DOMAIN u
    BY <1>2, PathAssumption DEF At, End
  <2>2. WordAt(u, i) = <<u[i]>> /\ u[i] \in Word /\ Behind(u, i) = i + 1
    BY <1>2, <2>1 DEF WordAt, Behind, At
  <2>3. From(u, i) = <<u[i]>> \o From(u, i + 1)
    <3>1. i \in 1..Len(u) /\ Len(u) \in i..Len(u)
      BY <1>1, <2>1
    <3> QED BY <3>1, SubSeqRecursiveFirst DEF From
  <2> QED BY <1>1, <2>1, <2>2, <2>3 DEF AWord
<1>3. CASE At(u, i) \notin Word
  <2>1. WordAt(u, i) = <<>> /\ Behind(u, i) = i
    BY <1>3 DEF WordAt, Behind
  <2>2. From(u, i) \in Seq(Symbol)
    BY <1>1, SubSeqProperties DEF From
  <2>3. <<>> \o From(u, i) = From(u, i)
    BY <2>2, ConcatEmptySeq
  <2> QED BY <1>1, <2>1, <2>3 DEF AWord
<1> QED BY <1>2, <1>3

LEMMA SymbolThenRest ==
    ASSUME NEW u \in Seq(Symbol), NEW i \in 1..(Len(u) + 1), At(u, i) # End
    PROVE  /\ From(u, i) = <<At(u, i)>> \o From(u, i + 1)
           /\ i + 1 \in 1..(Len(u) + 1)
<1>1. DOMAIN u = 1..Len(u) /\ Len(u) \in Nat
  BY LenProperties
<1>2. i \in 1..Len(u) /\ At(u, i) = u[i]
  BY <1>1 DEF At
<1>3. From(u, i) = <<u[i]>> \o From(u, i + 1)
  <2>1. i \in 1..Len(u) /\ Len(u) \in i..Len(u)
    BY <1>1, <1>2
  <2> QED BY <2>1, SubSeqRecursiveFirst DEF From
<1> QED BY <1>1, <1>2, <1>3

\* A password or a port, as a URL has them.
Part == {<<>>} \cup {<<":">> \o w : w \in AWord}

LEMMA AWordIsSeq == AWord \subseteq Seq(Symbol)
<1> SUFFICES ASSUME NEW w \in AWord
             PROVE  w \in Seq(Symbol)
  OBVIOUS
<1>1. CASE w = <<>>
  BY <1>1, EmptySeq
<1>2. CASE \E x \in Symbol : w = <<x>>
  BY <1>2
<1> QED BY <1>1, <1>2 DEF AWord, Symbol

LEMMA OneSymbol ==
    ASSUME NEW x \in Symbol, NEW v \in Seq(Symbol)
    PROVE  /\ <<x>> \in Seq(Symbol) /\ Len(<<x>>) = 1
           /\ <<x>> \o v \in Seq(Symbol) /\ <<x>> \o v # <<>>
           /\ At(<<x>> \o v, 1) = x
<1>1. <<x>> \in Seq(Symbol) /\ Len(<<x>>) = 1 /\ <<x>>[1] = x /\ Len(v) \in Nat
  BY LenProperties
<1>2. <<x>> \o v \in Seq(Symbol) /\ Len(<<x>> \o v) = 1 + Len(v) /\ (<<x>> \o v)[1] = x
  BY <1>1, ConcatProperties
<1>3. 1 \in DOMAIN (<<x>> \o v)
  BY <1>1, <1>2, LenProperties
<1> QED BY <1>1, <1>2, <1>3 DEF At

LEMMA GlueColon ==
    ASSUME NEW w \in Seq(Symbol), NEW r \in Seq(Symbol)
    PROVE  <<":">> \o (w \o r) = (<<":">> \o w) \o r
<1>1. <<":">> \in Seq(Symbol)
  BY DEF Symbol
<1> QED BY <1>1, Assoc

LEMMA BehindColon ==
    ASSUME NEW w \in Seq(Symbol)
    PROVE  /\ Tail(<<":">> \o w) = w
           /\ Len(w) = 1 => (<<":">> \o w)[2] = w[1]
OBVIOUS

\* The part that is at i, if there is one.
PartAt(u, i) == IF At(u, i) = ":" THEN <<":">> \o WordAt(u, i + 1) ELSE <<>>

\* What splitSshPath makes of it.
LEMMA PartRead ==
    ASSUME NEW u, NEW i, WordAt(u, i + 1) \in AWord
    PROVE  /\ At(u, i) = ":" <=> PartAt(u, i) # <<>>
           /\ (IF At(u, i) = ":" THEN WordAt(u, i + 1) ELSE <<>>) = Rest(PartAt(u, i))
           /\ Len(IF At(u, i) = ":" THEN WordAt(u, i + 1) ELSE <<>>)
                + (IF At(u, i) = ":" THEN 1 ELSE 0) = Len(PartAt(u, i))
<1>1. CASE At(u, i) = ":"
  <2>1. PICK w \in Seq(Symbol) : w = WordAt(u, i + 1)
    BY AWordIsSeq
  <2>2. PartAt(u, i) = <<":">> \o w /\ PartAt(u, i) # <<>>
    BY <1>1, <2>1 DEF PartAt
  <2>3. Len(<<":">> \o w) = Len(w) + 1 /\ Tail(<<":">> \o w) = w
    BY <2>1
  <2> QED BY <1>1, <2>1, <2>2, <2>3 DEF Rest
<1>2. CASE At(u, i) # ":"
  <2>1. PartAt(u, i) = <<>> /\ Len(<<>>) = 0
    BY <1>2 DEF PartAt
  <2> QED BY <1>2, <2>1 DEF Rest
<1> QED BY <1>1, <1>2

\* A part behind p, with neither a word nor a colon behind it, is read.
LEMMA PartBehind ==
    ASSUME NEW p \in Seq(Symbol), NEW q \in Part, NEW v \in Seq(Symbol),
           At(v, 1) \notin Word \cup {":"}
    PROVE  PartAt(p \o (q \o v), Len(p) + 1) = q
<1> DEFINE u == p \o (q \o v)
<1>0. Len(p) \in Nat /\ 1 \in Nat \ {0}
  BY LenProperties
<1>1. CASE q = <<>>
  <2>1. q \o v = v
    BY <1>1, ConcatEmptySeq
  <2>2. At(u, Len(p) + 1) = At(v, 1)
    BY <1>0, <2>1, AtBehind
  <2> QED BY <1>1, <2>2 DEF PartAt
<1>2. CASE q # <<>>
  <2>1. PICK w \in AWord : q = <<":">> \o w
    BY <1>2 DEF Part
  <2>2. w \in Seq(Symbol) /\ ":" \in Symbol
    BY AWordIsSeq DEF Symbol
  <2>3. q \o v = <<":">> \o (w \o v) /\ w \o v \in Seq(Symbol)
    BY <2>1, <2>2, GlueColon, Assoc
  <2>4. At(q \o v, 1) = ":" /\ q \o v \in Seq(Symbol)
    BY <2>2, <2>3, OneSymbol
  <2>5. At(u, Len(p) + 1) = ":"
    BY <1>0, <2>4, AtBehind
  <2>6. PICK p1 : p1 = p \o <<":">>
    OBVIOUS
  <2>7. p1 \in Seq(Symbol) /\ Len(p1) = Len(p) + 1
    <3>1. <<":">> \in Seq(Symbol) /\ Len(<<":">>) = 1
      BY <2>2
    <3> QED BY <2>6, <3>1, ConcatProperties
  <2>8. u = p1 \o (w \o v)
    <3>1. <<":">> \in Seq(Symbol)
      BY <2>2
    <3>2. p1 \o (w \o v) = p \o (<<":">> \o (w \o v))
      BY <2>3, <2>6, <3>1, Assoc
    <3> QED BY <2>3, <3>2
  <2>9. WordAt(p1 \o (w \o v), Len(p1) + 1) = w
    BY <2>2, <2>7, WordBehind
  <2>10. WordAt(u, Len(p) + 1 + 1) = w
    BY <1>0, <2>7, <2>8, <2>9
  <2> QED BY <2>1, <2>5, <2>10 DEF PartAt
<1> QED BY <1>1, <1>2

\* From i on there is a part, which may be empty, and what is behind it.
LEMMA PartThenRest ==
    ASSUME NEW u \in Seq(Symbol), NEW i \in 1..(Len(u) + 1)
    PROVE  /\ From(u, i) = PartAt(u, i) \o From(u, i + Len(PartAt(u, i)))
           /\ PartAt(u, i) \in Part
           /\ WordAt(u, i + 1) \in AWord
           /\ i + Len(PartAt(u, i)) \in 1..(Len(u) + 1)
<1>0. Len(u) \in Nat /\ <<>> \in AWord /\ Len(<<>>) = 0
  BY LenProperties DEF AWord
<1>1. CASE At(u, i) # ":"
  <2>1. PartAt(u, i) = <<>> /\ i + Len(PartAt(u, i)) = i
    BY <1>0, <1>1 DEF PartAt
  <2>2. From(u, i) \in Seq(Symbol)
    BY SubSeqProperties, <1>0, LenProperties, ElementOfSeq DEF From
  <2>3. <<>> \o From(u, i) = From(u, i)
    BY <2>2, ConcatEmptySeq
  <2>4. WordAt(u, i + 1) \in AWord
    BY <1>0, LenProperties, PathAssumption DEF WordAt, AWord, At, End
  <2> QED BY <2>1, <2>3, <2>4 DEF Part
<1>2. CASE At(u, i) = ":"
  <2>1. PICK w : w = WordAt(u, i + 1)
    OBVIOUS
  <2>2. From(u, i) = <<":">> \o From(u, i + 1) /\ i + 1 \in 1..(Len(u) + 1)
    BY <1>2, SymbolThenRest DEF End
  <2>3. /\ From(u, i + 1) = w \o From(u, Behind(u, i + 1))
        /\ w \in AWord
        /\ Behind(u, i + 1) \in (i + 1)..(Len(u) + 1)
    BY <2>1, <2>2, WordThenRest
  <2>4. w \in Seq(Symbol) /\ Len(w) \in Nat
    BY <2>3, AWordIsSeq, LenProperties
  <2>5. PartAt(u, i) = <<":">> \o w /\ PartAt(u, i) \in Part /\ Len(<<":">> \o w) = Len(w) + 1
    BY <1>2, <2>1, <2>3, <2>4 DEF PartAt, Part
  <2>6. Behind(u, i + 1) = i + Len(PartAt(u, i))
    BY <2>1, <2>4, <2>5 DEF Behind
  <2>7. From(u, i + Len(PartAt(u, i))) \in Seq(Symbol)
    BY SubSeqProperties, <1>0, <2>3, <2>6, LenProperties, ElementOfSeq DEF From
  <2>8. <<":">> \o (w \o From(u, i + Len(PartAt(u, i))))
            = (<<":">> \o w) \o From(u, i + Len(PartAt(u, i)))
    BY <2>4, <2>7, GlueColon
  <2>9. From(u, i) = PartAt(u, i) \o From(u, i + Len(PartAt(u, i)))
    BY <2>2, <2>3, <2>5, <2>6, <2>8
  <2> QED BY <1>0, <2>1, <2>3, <2>5, <2>6, <2>9
<1> QED BY <1>1, <1>2

LEMMA WordAtIsAWord ==
    ASSUME NEW u, NEW i
    PROVE  WordAt(u, i) \in AWord
<1>1. At(u, i) \in Word => i \in DOMAIN u
  BY PathAssumption DEF At, End
<1> QED BY <1>1 DEF WordAt, AWord, At

\* The places at which splitSshPath stands, and the parts it finds there.
UserEnd(u) == Behind(u, 1)
PasswordPart(u) == PartAt(u, UserEnd(u))
AtSign(u) == UserEnd(u) + Len(PasswordPart(u))
ServerEnd(u) == Behind(u, AtSign(u) + 1)
PortPart(u) == PartAt(u, ServerEnd(u))
PathStart(u) == ServerEnd(u) + Len(PortPart(u))

LEMMA PartIsSeq == Part \subseteq Seq(Symbol)
<1> SUFFICES ASSUME NEW q \in Part
             PROVE  q \in Seq(Symbol)
  OBVIOUS
<1>1. CASE q = <<>>
  BY <1>1, EmptySeq
<1>2. CASE \E w \in AWord : q = <<":">> \o w
  <2>1. PICK w \in AWord : q = <<":">> \o w
    BY <1>2
  <2>2. <<":">> \in Seq(Symbol) /\ w \in Seq(Symbol)
    BY AWordIsSeq DEF Symbol
  <2> QED BY <2>1, <2>2, Assoc
<1> QED BY <1>1, <1>2 DEF Part

LEMMA Places ==
    ASSUME NEW u
    PROVE  /\ UserEnd(u) \in Nat /\ AtSign(u) \in Nat /\ ServerEnd(u) \in Nat
           /\ PathStart(u) \in Nat
           /\ PasswordPart(u) \in Part /\ PortPart(u) \in Part
<1>1. \A w \in AWord : Len(w) \in Nat
  BY AWordIsSeq, LenProperties
<1>2. \A q \in Part : Len(q) \in Nat
  BY PartIsSeq, LenProperties
<1>3. \A i \in Nat : Behind(u, i) \in Nat
  BY <1>1, WordAtIsAWord DEF Behind
<1>4. \A i \in Nat : PartAt(u, i) \in Part
  BY WordAtIsAWord DEF PartAt, Part
<1>5. UserEnd(u) \in Nat
  BY <1>3 DEF UserEnd
<1>6. PasswordPart(u) \in Part /\ AtSign(u) \in Nat
  BY <1>2, <1>4, <1>5 DEF PasswordPart, AtSign
<1>7. ServerEnd(u) \in Nat
  BY <1>3, <1>6 DEF ServerEnd
<1>8. PortPart(u) \in Part /\ PathStart(u) \in Nat
  BY <1>2, <1>4, <1>7 DEF PortPart, PathStart
<1> QED BY <1>5, <1>6, <1>7, <1>8

LEMMA SplitOf ==
    ASSUME NEW u
    PROVE  splitSshPath(u) =
             CASE At(u, UserEnd(u)) \in {"/", End} -> [error |-> "initErrorNoUsername"]
               [] PasswordPart(u) # <<>> /\ At(u, AtSign(u)) # "@"
                    -> [error |-> "initErrorNoServername"]
               [] PortPart(u) # <<>> /\ ~PortIsValid(Rest(PortPart(u)))
                    -> [error |-> "initErrorInvalidPort"]
               [] At(u, PathStart(u)) \notin {"/", End} -> [error |-> "initErrorInvalidChar"]
               [] OTHER ->
                    [error    |-> "initSuccess",
                     user     |-> WordAt(u, 1),
                     password |-> Rest(PasswordPart(u)),
                     server   |-> WordAt(u, AtSign(u) + 1),
                     port     |-> IF PortPart(u) # <<>> THEN PortOf[Rest(PortPart(u))[1]]
                                                        ELSE DefaultPort,
                     path     |-> SubSeq(u, PathStart(u) + 1, Len(u))]
<1> DEFINE user == Behind(u, 1)
           colon == At(u, user) = ":"
           password == IF colon THEN WordAt(u, user + 1) ELSE <<>>
           sign == user + Len(password) + (IF colon THEN 1 ELSE 0)
           server == Behind(u, sign + 1)
           hasPort == At(u, server) = ":"
           port == IF hasPort THEN WordAt(u, server + 1) ELSE <<>>
           path == server + Len(port) + (IF hasPort THEN 1 ELSE 0)
           refused(e) == [error |-> e]
<1>1. splitSshPath(u) =
        CASE At(u, user) \in {"/", End}      -> refused("initErrorNoUsername")
          [] colon /\ At(u, sign) # "@"        -> refused("initErrorNoServername")
          [] hasPort /\ ~PortIsValid(port)   -> refused("initErrorInvalidPort")
          [] At(u, path) \notin {"/", End}   -> refused("initErrorInvalidChar")
          [] OTHER -> [error    |-> "initSuccess",
                       user     |-> WordAt(u, 1),
                       password |-> password,
                       server   |-> WordAt(u, sign + 1),
                       port     |-> IF hasPort THEN PortOf[port[1]] ELSE DefaultPort,
                       path     |-> SubSeq(u, path + 1, Len(u))]
  BY DEF splitSshPath
<1> HIDE DEF user, colon, password, sign, server, hasPort, port, path
<1>2. user = UserEnd(u)
  BY DEF user, UserEnd
<1>3. (colon <=> PasswordPart(u) # <<>>) /\ password = Rest(PasswordPart(u))
  BY <1>2, WordAtIsAWord, PartRead DEF colon, password, PasswordPart
<1>4. sign = AtSign(u)
  BY <1>2, WordAtIsAWord, PartRead, Places DEF sign, colon, password, PasswordPart, AtSign
<1>5. server = ServerEnd(u)
  BY <1>4 DEF server, ServerEnd
<1>6. (hasPort <=> PortPart(u) # <<>>) /\ port = Rest(PortPart(u))
  BY <1>5, WordAtIsAWord, PartRead DEF hasPort, port, PortPart
<1>7. path = PathStart(u)
  BY <1>5, WordAtIsAWord, PartRead, Places DEF path, hasPort, port, PortPart, PathStart
<1> QED BY <1>1, <1>2, <1>3, <1>4, <1>5, <1>6, <1>7

\* Of what a reading is made.
LEMMA ReadingType ==
    ASSUME NEW u \in Url, NEW f \in Loose(u)
    PROVE  /\ f.user \in AWord /\ f.server \in AWord
           /\ f.password \in Part /\ f.port \in Part
           /\ f.port # <<>> => \E x \in Word : f.port = <<":">> \o <<x>>
           /\ f.path \in Seq(Symbol)
           /\ f.path # <<>> => f.path[1] = "/"
           /\ Written(f) = u
           /\ PortNumber(f) # 0 /\ PortNumber(f) <= MaxPort
           /\ DOMAIN f = {"user", "password", "server", "port", "path"}
<1> DEFINE words == {<<>>} \cup {<<u[i]>> : i \in {j \in DOMAIN u : u[j] \in Word}}
<1>1. words \subseteq AWord
  BY DEF AWord
<1>2. /\ f.user \in words /\ f.server \in words
      /\ f.password \in {<<>>} \cup {<<":">> \o w : w \in words}
      /\ f.port \in {<<>>} \cup {<<":">> \o w : w \in words \ {<<>>}}
      /\ f.path \in {<<>>} \cup {SubSeq(u, i, Len(u)) : i \in {j \in DOMAIN u : u[j] = "/"}}
      /\ Written(f) = u /\ PortNumber(f) # 0 /\ PortNumber(f) <= MaxPort
      /\ DOMAIN f = {"user", "password", "server", "port", "path"}
  BY DEF Loose
<1> HIDE DEF words
<1>3. f.password \in Part /\ f.port \in Part
  BY <1>1, <1>2 DEF Part
<1>4. f.port # <<>> => \E x \in Word : f.port = <<":">> \o <<x>>
  <2> SUFFICES ASSUME f.port # <<>>
               PROVE  \E x \in Word : f.port = <<":">> \o <<x>>
    OBVIOUS
  <2>1. PICK w \in words \ {<<>>} : f.port = <<":">> \o w
    BY <1>2
  <2>2. PICK x \in Word : w = <<x>>
    BY <1>1, <2>1 DEF AWord
  <2> QED BY <2>1, <2>2
<1>5. f.path \in Seq(Symbol) /\ (f.path # <<>> => f.path[1] = "/")
  <2>1. CASE f.path = <<>>
    BY <2>1, EmptySeq
  <2>2. CASE f.path # <<>>
    <3>1. PICK i \in DOMAIN u : u[i] = "/" /\ f.path = SubSeq(u, i, Len(u))
      BY <1>2, <2>2
    <3>2. u \in Seq(Symbol) /\ DOMAIN u = 1..Len(u) /\ Len(u) \in Nat
      BY LenProperties DEF Url, Symbol
    <3>3. f.path \in Seq(Symbol) /\ f.path[1] = u[i]
      BY <3>1, <3>2, SubSeqProperties, ElementOfSeq
    <3> QED BY <3>1, <3>3
  <2> QED BY <2>1, <2>2
<1> QED BY <1>1, <1>2, <1>3, <1>4, <1>5

LEMMA AtFirst ==
    ASSUME NEW w \in AWord, NEW v \in Seq(Symbol)
    PROVE  At(w \o v, 1) \in Word \cup {At(v, 1)}
<1>1. CASE w = <<>>
  BY <1>1, ConcatEmptySeq
<1>2. CASE \E x \in Word : w = <<x>>
  <2>1. PICK x \in Word : w = <<x>>
    BY <1>2
  <2> QED BY <2>1, OneSymbol DEF Symbol
<1> QED BY <1>1, <1>2 DEF AWord

LEMMA PartFirst ==
    ASSUME NEW q \in Part, NEW v \in Seq(Symbol)
    PROVE  At(q \o v, 1) \in {":", At(v, 1)}
<1>1. CASE q = <<>>
  BY <1>1, ConcatEmptySeq
<1>2. CASE \E w \in AWord : q = <<":">> \o w
  <2>1. PICK w \in AWord : q = <<":">> \o w
    BY <1>2
  <2>2. w \in Seq(Symbol) /\ ":" \in Symbol
    BY AWordIsSeq DEF Symbol
  <2>3. q \o v = <<":">> \o (w \o v) /\ w \o v \in Seq(Symbol)
    BY <2>1, <2>2, GlueColon, Assoc
  <2> QED BY <2>2, <2>3, OneSymbol
<1> QED BY <1>1, <1>2 DEF Part

\* What is read of a URL that can be read are the parts of that reading.
LEMMA ReadingIsRead ==
    ASSUME NEW u \in Url, NEW f \in Loose(u)
    PROVE  splitSshPath(u) = PartsOf(f)
<1>1. /\ f.user \in AWord /\ f.server \in AWord
      /\ f.password \in Part /\ f.port \in Part
      /\ f.path \in Seq(Symbol)
  BY ReadingType
<1>2. f.user \o f.password \o <<"@">> \o f.server \o f.port \o f.path = u
  BY ReadingType DEF Written
<1>3. PICK a, b, c, d, e, g :
          /\ a = f.user /\ b = f.password /\ c = <<"@">> /\ d = f.server /\ e = f.port
          /\ g = f.path
  OBVIOUS
<1>4. PICK x2, x3, x4, x5 : x2 = a \o b /\ x3 = x2 \o c /\ x4 = x3 \o d /\ x5 = x4 \o e
  OBVIOUS
<1>5. PICK v4, v3, v2, v1 : v4 = e \o g /\ v3 = d \o v4 /\ v2 = c \o v3 /\ v1 = b \o v2
  OBVIOUS
<1>6. u = x5 \o g
  BY <1>2, <1>3, <1>4
<1>7. a \in Seq(Symbol)
  BY <1>1, <1>3, AWordIsSeq
<1>8. b \in Seq(Symbol)
  BY <1>1, <1>3, PartIsSeq
<1>9. c \in Seq(Symbol)
  BY <1>3 DEF Symbol
<1>10. d \in Seq(Symbol)
  BY <1>1, <1>3, AWordIsSeq
<1>11. e \in Seq(Symbol)
  BY <1>1, <1>3, PartIsSeq
<1>12. g \in Seq(Symbol)
  BY <1>1, <1>3
<1>13. x2 \in Seq(Symbol)
  BY <1>7, <1>8, <1>4, Assoc, Zenon
<1>14. x3 \in Seq(Symbol)
  BY <1>13, <1>9, <1>4, Assoc, Zenon
<1>15. x4 \in Seq(Symbol)
  BY <1>14, <1>10, <1>4, Assoc, Zenon
<1>16. u = x4 \o v4 /\ v4 \in Seq(Symbol)
  <2>1. (x4 \o e) \o g = x4 \o (e \o g)
    BY <1>15, <1>11, <1>12, Assoc, Zenon
  <2>2. e \o g \in Seq(Symbol)
    BY <1>11, <1>12, Assoc, Zenon
  <2>3. u = x5 \o g /\ x5 = x4 \o e /\ v4 = e \o g
    BY <1>4, <1>5, <1>6
  <2> QED BY <2>1, <2>2, <2>3
<1>17. u = x3 \o v3 /\ v3 \in Seq(Symbol)
  <2>1. (x3 \o d) \o v4 = x3 \o (d \o v4)
    BY <1>14, <1>10, <1>16, Assoc, Zenon
  <2>2. d \o v4 \in Seq(Symbol)
    BY <1>10, <1>16, Assoc, Zenon
  <2>3. u = x4 \o v4 /\ x4 = x3 \o d /\ v3 = d \o v4
    BY <1>4, <1>5, <1>16
  <2> QED BY <2>1, <2>2, <2>3
<1>18. u = x2 \o v2 /\ v2 \in Seq(Symbol)
  <2>1. (x2 \o c) \o v3 = x2 \o (c \o v3)
    BY <1>13, <1>9, <1>17, Assoc, Zenon
  <2>2. c \o v3 \in Seq(Symbol)
    BY <1>9, <1>17, Assoc, Zenon
  <2>3. u = x3 \o v3 /\ x3 = x2 \o c /\ v2 = c \o v3
    BY <1>4, <1>5, <1>17
  <2> QED BY <2>1, <2>2, <2>3
<1>19. u = a \o v1 /\ v1 \in Seq(Symbol)
  <2>1. (a \o b) \o v2 = a \o (b \o v2)
    BY <1>7, <1>8, <1>18, Assoc, Zenon
  <2>2. b \o v2 \in Seq(Symbol)
    BY <1>8, <1>18, Assoc, Zenon
  <2>3. u = x2 \o v2 /\ x2 = a \o b /\ v1 = b \o v2
    BY <1>4, <1>5, <1>18
  <2> QED BY <2>1, <2>2, <2>3
<1>20. At(g, 1) \in {"/", End}
  <2>1. CASE g = <<>>
    BY <2>1 DEF At
  <2>2. CASE g # <<>>
    <3>1. g[1] = "/"
      BY <1>3, <2>2, ReadingType
    <3>2. 1 \in DOMAIN g
      BY <1>12, <2>2, LenProperties, EmptySeq
    <3> QED BY <3>1, <3>2 DEF At
  <2> QED BY <2>1, <2>2
<1>21. At(v4, 1) \in {":", "/", End}
  <2>1. At(e \o g, 1) \in {":", At(g, 1)}
    BY <1>1, <1>3, <1>12, PartFirst
  <2> QED BY <1>5, <1>20, <2>1
<1>22. At(v2, 1) = "@"
  <2>1. "@" \in Symbol
    BY DEF Symbol
  <2>2. v2 = <<"@">> \o v3
    BY <1>3, <1>5
  <2> QED BY <1>17, <2>1, <2>2, OneSymbol
<1>23. At(v1, 1) \in {":", "@"}
  <2>1. At(b \o v2, 1) \in {":", At(v2, 1)}
    BY <1>1, <1>3, <1>18, PartFirst
  <2> QED BY <1>5, <1>22, <2>1
<1>24. WordAt(u, 1) = a /\ Behind(u, 1) = Len(a) + 1
  <2>1. <<>> \in Seq(Symbol) /\ Len(<<>>) = 0 /\ a \in AWord /\ At(v1, 1) \notin Word
    BY <1>1, <1>3, <1>23, EmptySeq, PathAssumption
  <2>2. /\ WordAt(<<>> \o (a \o v1), Len(<<>>) + 1) = a
        /\ Behind(<<>> \o (a \o v1), Len(<<>>) + 1) = Len(<<>> \o a) + 1
    BY <1>19, <2>1, WordBehind
  <2>3. <<>> \o (a \o v1) = u /\ <<>> \o a = a
    BY <1>7, <1>19, ConcatEmptySeq, ConcatProperties
  <2>4. Len(<<>>) + 1 = 1
    BY <2>1
  <2>5. WordAt(u, 1) = a
    BY <2>2, <2>3, <2>4
  <2>6. Behind(u, 1) = Len(a) + 1
    BY <2>2, <2>3, <2>4
  <2> QED BY <2>5, <2>6
<1>25. PartAt(u, Len(a) + 1) = b
  <2>1. At(v2, 1) \notin Word \cup {":"}
    BY <1>22, PathAssumption
  <2>2. u = a \o (b \o v2) /\ b \in Part
    BY <1>1, <1>3, <1>5, <1>19
  <2>3. PartAt(a \o (b \o v2), Len(a) + 1) = b
    BY <1>7, <1>18, <2>1, <2>2, PartBehind
  <2> QED BY <2>2, <2>3
<1>26. At(u, Len(x2) + 1) = "@" /\ Len(x3) = Len(x2) + 1
  <2>1. At(x2 \o v2, Len(x2) + 1) = At(v2, 1)
    BY <1>13, <1>18, AtBehind
  <2>2. Len(x2 \o c) = Len(x2) + Len(c) /\ Len(c) = 1
    BY <1>13, <1>3, <1>9, ConcatProperties
  <2> QED BY <1>4, <1>18, <1>22, <2>1, <2>2
<1>27. WordAt(u, Len(x3) + 1) = d /\ Behind(u, Len(x3) + 1) = Len(x4) + 1
  <2>1. d \in AWord /\ At(v4, 1) \notin Word
    BY <1>1, <1>3, <1>21, PathAssumption DEF End
  <2>2. /\ WordAt(x3 \o (d \o v4), Len(x3) + 1) = d
        /\ Behind(x3 \o (d \o v4), Len(x3) + 1) = Len(x3 \o d) + 1
    BY <1>14, <1>16, <2>1, WordBehind
  <2> QED BY <1>4, <1>5, <1>17, <2>2
<1>28. PartAt(u, Len(x4) + 1) = e
  <2>1. At(g, 1) \notin Word \cup {":"}
    BY <1>20, PathAssumption DEF End
  <2>2. u = x4 \o (e \o g) /\ e \in Part
    BY <1>1, <1>3, <1>5, <1>16
  <2>3. PartAt(x4 \o (e \o g), Len(x4) + 1) = e
    BY <1>15, <1>12, <2>1, <2>2, PartBehind
  <2> QED BY <2>2, <2>3
<1>29. At(u, Len(x5) + 1) \in {"/", End} /\ SubSeq(u, Len(x5) + 2, Len(u)) = Rest(g)
  <2>1. x5 \in Seq(Symbol) /\ Len(x5) \in Nat /\ Len(g) \in Nat
    BY <1>15, <1>11, <1>4, <1>12, Assoc, LenProperties
  <2>2. At(x5 \o g, Len(x5) + 1) = At(g, 1)
    BY <1>12, <2>1, AtBehind
  <2>3. Len(u) = Len(x5) + Len(g) /\ \A i \in 1..Len(g) : u[Len(x5) + i] = g[i]
    BY <1>6, <1>12, <2>1, ConcatProperties
  <2>4. ASSUME g = <<>>
        PROVE  SubSeq(u, Len(x5) + 2, Len(u)) = Rest(g)
    BY <2>1, <2>3, <2>4, SubSeqEmpty DEF Rest
  <2>5. ASSUME g # <<>>
        PROVE  SubSeq(u, Len(x5) + 2, Len(u)) = Rest(g)
    <3>1. Tail(g) = SubSeq(g, 2, Len(g))
      BY <1>12, <2>5, TailIsSubSeq
    <3>2. SubSeq(u, Len(x5) + 2, Len(u)) = SubSeq(g, 2, Len(g))
      BY <1>12, <2>1, <2>3
    <3> QED BY <2>5, <3>1, <3>2 DEF Rest
  <2> QED BY <1>6, <1>20, <2>2, <2>4, <2>5
<1>30. UserEnd(u) = Len(a) + 1 /\ PasswordPart(u) = b
  BY <1>24, <1>25 DEF UserEnd, PasswordPart
<1>31. Len(x2) = Len(a) + Len(b) /\ Len(x4) \in Nat /\ Len(x5) = Len(x4) + Len(e)
      /\ Len(a) \in Nat /\ Len(b) \in Nat /\ Len(e) \in Nat /\ Len(x3) \in Nat
  <2>1. Len(a \o b) = Len(a) + Len(b)
    BY <1>7, <1>8, ConcatProperties
  <2>2. Len(x4 \o e) = Len(x4) + Len(e)
    BY <1>15, <1>11, ConcatProperties
  <2> QED BY <1>4, <1>7, <1>8, <1>11, <1>14, <1>15, <2>1, <2>2, LenProperties
<1>32. AtSign(u) = Len(x2) + 1 /\ AtSign(u) + 1 = Len(x3) + 1
  BY <1>26, <1>30, <1>31 DEF AtSign
<1>33. ServerEnd(u) = Len(x4) + 1 /\ WordAt(u, AtSign(u) + 1) = d /\ PortPart(u) = e
  BY <1>27, <1>28, <1>32 DEF ServerEnd, PortPart
<1>34. PathStart(u) = Len(x5) + 1 /\ PathStart(u) + 1 = Len(x5) + 2
  BY <1>31, <1>33 DEF PathStart
<1>35. At(u, UserEnd(u)) \in {":", "@"}
  <2>1. At(a \o v1, Len(a) + 1) = At(v1, 1)
    BY <1>7, <1>19, AtBehind
  <2> QED BY <1>19, <1>23, <1>30, <2>1
<1>36. PortPart(u) # <<>> =>
          PortIsValid(Rest(PortPart(u))) /\ PortNumber(f) = PortOf[Rest(PortPart(u))[1]]
  <2> SUFFICES ASSUME e # <<>>
               PROVE  PortIsValid(Rest(e)) /\ PortNumber(f) = PortOf[Rest(e)[1]]
    BY <1>33
  <2>1. PICK x \in Word : e = <<":">> \o <<x>>
    BY <1>3, ReadingType
  <2>2. PICK w : w = <<x>>
    OBVIOUS
  <2>3. Rest(e) = w /\ w[1] = x /\ e[2] = x
    <3>1. w \in Seq(Symbol) /\ Len(w) = 1
      BY <2>2, EmptySeq, OneSymbol DEF Symbol
    <3>2. e = <<":">> \o w /\ w[1] = x
      BY <2>1, <2>2
    <3> QED BY <3>1, <3>2, BehindColon DEF Rest
  <2>4. PortNumber(f) = PortOf[x]
    BY <1>3, <2>3 DEF PortNumber
  <2>5. PortNumber(f) # 0 /\ PortNumber(f) <= MaxPort
    BY ReadingType
  <2> QED BY <2>2, <2>3, <2>4, <2>5 DEF PortIsValid
<1>37. PortPart(u) = <<>> => PortNumber(f) = DefaultPort
  BY <1>3, <1>33 DEF PortNumber
<1>38. UserEnd(u) \in Nat /\ AtSign(u) \in Nat /\ ServerEnd(u) \in Nat /\ PathStart(u) \in Nat
  BY <1>30, <1>31, <1>32, <1>33, <1>34
<1>39. At(u, AtSign(u)) = "@" /\ At(u, PathStart(u)) \in {"/", End}
  BY <1>26, <1>29, <1>32, <1>34
<1>40. splitSshPath(u) = [error    |-> "initSuccess",
                     user     |-> WordAt(u, 1),
                     password |-> Rest(PasswordPart(u)),
                     server   |-> WordAt(u, AtSign(u) + 1),
                     port     |-> IF PortPart(u) # <<>> THEN PortOf[Rest(PortPart(u))[1]]
                                                        ELSE DefaultPort,
                     path     |-> SubSeq(u, PathStart(u) + 1, Len(u))]
  <2>1. At(u, UserEnd(u)) \notin {"/", End}
    BY <1>35 DEF End
  <2> QED BY <1>36, <1>38, <1>39, <2>1, SplitOf
<1> QED
  BY <1>3, <1>24, <1>29, <1>30, <1>33, <1>34, <1>36, <1>37, <1>40 DEF PartsOf

\* A URL that is accepted can be read.
LEMMA AcceptedHasReading ==
    ASSUME NEW u \in Url, splitSshPath(u).error = "initSuccess"
    PROVE  Loose(u) # {}
<1>0. u \in Seq(Symbol) /\ Len(u) \in Nat /\ DOMAIN u = 1..Len(u)
  BY LenProperties DEF Url, Symbol
<1>1. /\ From(u, 1) = WordAt(u, 1) \o From(u, UserEnd(u))
      /\ UserEnd(u) \in 1..(Len(u) + 1)
  BY <1>0, WordThenRest DEF UserEnd
<1>2. /\ From(u, UserEnd(u)) = PasswordPart(u) \o From(u, AtSign(u))
      /\ PasswordPart(u) \in Part
      /\ AtSign(u) \in 1..(Len(u) + 1)
  BY <1>0, <1>1, PartThenRest DEF PasswordPart, AtSign
<1>3. At(u, UserEnd(u)) \notin Word
  <2>1. CASE At(u, 1) \in Word
    <3>1. 1 \in DOMAIN u /\ u[1] \in Word
      BY <2>1, PathAssumption DEF At, End
    <3>2. UserEnd(u) = 1 + 1
      BY <2>1, <3>1 DEF UserEnd, Behind, WordAt, At
    <3> QED BY <3>1, <3>2 DEF Url
  <2>2. CASE At(u, 1) \notin Word
    BY <2>2 DEF UserEnd, Behind, WordAt
  <2> QED BY <2>1, <2>2
<1>4. /\ At(u, UserEnd(u)) \notin {"/", End}
      /\ PasswordPart(u) # <<>> => At(u, AtSign(u)) = "@"
      /\ PortPart(u) # <<>> => PortIsValid(Rest(PortPart(u)))
      /\ At(u, PathStart(u)) \in {"/", End}
  BY SplitOf
<1>5. At(u, AtSign(u)) = "@"
  <2>1. CASE PasswordPart(u) # <<>>
    BY <1>4, <2>1
  <2>2. CASE PasswordPart(u) = <<>>
    <3>1. AtSign(u) = UserEnd(u)
      BY <1>1, <2>2 DEF AtSign
    <3>2. At(u, UserEnd(u)) # ":"
      BY <2>2, WordAtIsAWord, PartRead DEF PasswordPart
    <3>3. At(u, UserEnd(u)) \in Symbol \cup {End}
      BY <1>0, ElementOfSeq DEF At
    <3> QED BY <1>3, <1>4, <3>1, <3>2, <3>3 DEF Symbol
  <2> QED BY <2>1, <2>2
<1>6. /\ From(u, AtSign(u)) = <<"@">> \o From(u, AtSign(u) + 1)
      /\ AtSign(u) + 1 \in 1..(Len(u) + 1)
  BY <1>0, <1>2, <1>5, SymbolThenRest DEF End
<1>7. /\ From(u, AtSign(u) + 1) = WordAt(u, AtSign(u) + 1) \o From(u, ServerEnd(u))
      /\ ServerEnd(u) \in 1..(Len(u) + 1)
  <2>1. PICK i \in 1..(Len(u) + 1) : i = AtSign(u) + 1
    BY <1>6
  <2>2. /\ From(u, i) = WordAt(u, i) \o From(u, Behind(u, i))
        /\ Behind(u, i) \in i..(Len(u) + 1)
    BY <1>0, WordThenRest
  <2>3. Behind(u, i) = ServerEnd(u)
    BY <2>1 DEF ServerEnd
  <2> QED BY <1>0, <2>1, <2>2, <2>3
<1>8. /\ From(u, ServerEnd(u)) = PortPart(u) \o From(u, PathStart(u))
      /\ PathStart(u) \in 1..(Len(u) + 1)
  BY <1>0, <1>7, PartThenRest DEF PortPart, PathStart
<1>9. PICK f : f = [user |-> WordAt(u, 1), password |-> PasswordPart(u),
                    server |-> WordAt(u, AtSign(u) + 1), port |-> PortPart(u),
                    path |-> From(u, PathStart(u))]
  OBVIOUS
<1>10. Written(f) = u
  <2>1. PICK a, b, c, d, e, g :
            /\ a = f.user /\ b = f.password /\ c = <<"@">> /\ d = f.server /\ e = f.port
            /\ g = f.path
    OBVIOUS
  <2>2. PICK r1, r2, r3, r4 :
            /\ r1 = From(u, UserEnd(u)) /\ r2 = From(u, AtSign(u))
            /\ r3 = From(u, AtSign(u) + 1) /\ r4 = From(u, ServerEnd(u))
    OBVIOUS
  <2>3. u = a \o r1 /\ r1 = b \o r2 /\ r2 = c \o r3 /\ r3 = d \o r4 /\ r4 = e \o g
    <3>1. u = From(u, 1)
      BY <1>0, SubSeqFull DEF From
    <3> QED BY <1>1, <1>2, <1>6, <1>7, <1>8, <1>9, <2>1, <2>2, <3>1
  <2>4. \A i \in 1..(Len(u) + 1) : From(u, i) \in Seq(Symbol)
    BY <1>0, SubSeqProperties, ElementOfSeq DEF From
  <2>5. r2 \in Seq(Symbol)
    BY <1>2, <2>2, <2>4
  <2>6. r3 \in Seq(Symbol)
    BY <1>6, <2>2, <2>4
  <2>7. r4 \in Seq(Symbol)
    BY <1>7, <2>2, <2>4
  <2>8. g \in Seq(Symbol)
    BY <1>8, <1>9, <2>1, <2>4
  <2>9. a \in Seq(Symbol)
    BY <1>9, <2>1, WordAtIsAWord, AWordIsSeq
  <2>10. b \in Seq(Symbol)
    BY <1>9, <2>1, Places, PartIsSeq
  <2>11. c \in Seq(Symbol)
    BY <2>1 DEF Symbol
  <2>12. d \in Seq(Symbol)
    BY <1>9, <2>1, WordAtIsAWord, AWordIsSeq
  <2>13. e \in Seq(Symbol)
    BY <1>9, <2>1, Places, PartIsSeq
  <2>14. PICK x2, x3, x4 : x2 = a \o b /\ x3 = x2 \o c /\ x4 = x3 \o d
    OBVIOUS
  <2>15. x2 \in Seq(Symbol)
    BY <2>9, <2>10, <2>14, Assoc, Zenon
  <2>16. x3 \in Seq(Symbol)
    BY <2>11, <2>14, <2>15, Assoc, Zenon
  <2>17. x4 \in Seq(Symbol)
    BY <2>12, <2>14, <2>16, Assoc, Zenon
  <2>18. u = x2 \o r2
    <3>1. (a \o b) \o r2 = a \o (b \o r2)
      BY <2>5, <2>9, <2>10, Assoc, Zenon
    <3> QED BY <2>3, <2>14, <3>1
  <2>19. u = x3 \o r3
    <3>1. (x2 \o c) \o r3 = x2 \o (c \o r3)
      BY <2>6, <2>11, <2>15, Assoc, Zenon
    <3> QED BY <2>3, <2>14, <2>18, <3>1
  <2>20. u = x4 \o r4
    <3>1. (x3 \o d) \o r4 = x3 \o (d \o r4)
      BY <2>7, <2>12, <2>16, Assoc, Zenon
    <3> QED BY <2>3, <2>14, <2>19, <3>1
  <2>21. u = (x4 \o e) \o g
    <3>1. (x4 \o e) \o g = x4 \o (e \o g)
      BY <2>8, <2>13, <2>17, Assoc, Zenon
    <3> QED BY <2>3, <2>20, <3>1
  <2>22. Written(f) = (x4 \o e) \o g
    BY <2>1, <2>14 DEF Written
  <2> QED BY <2>21, <2>22
<1> DEFINE words == {<<>>} \cup {<<u[i]>> : i \in {j \in DOMAIN u : u[j] \in Word}}
<1>11. \A i : WordAt(u, i) \in words
  <2> TAKE i
  <2>1. CASE At(u, i) \in Word
    <3>1. i \in DOMAIN u /\ u[i] \in Word
      BY <2>1, PathAssumption DEF At, End
    <3> QED BY <2>1, <3>1 DEF WordAt
  <2>2. CASE At(u, i) \notin Word
    BY <2>2 DEF WordAt
  <2> QED BY <2>1, <2>2
<1> HIDE DEF words
<1>12. f.user \in words /\ f.server \in words
  BY <1>9, <1>11
<1>13. f.password \in {<<>>} \cup {<<":">> \o w : w \in words}
  BY <1>9, <1>11 DEF PasswordPart, PartAt
<1>14. /\ f.port \in {<<>>} \cup {<<":">> \o w : w \in words \ {<<>>}}
       /\ PortNumber(f) # 0 /\ PortNumber(f) <= MaxPort
  <2>1. CASE PortPart(u) = <<>>
    BY <1>9, <2>1 DEF PortNumber, DefaultPort, MaxPort
  <2>2. CASE PortPart(u) # <<>>
    <3>1. PICK w : w = WordAt(u, ServerEnd(u) + 1)
      OBVIOUS
    <3>2. w \in words /\ w \in AWord /\ w \in Seq(Symbol)
      BY <1>11, <3>1, WordAtIsAWord, AWordIsSeq
    <3>3. f.port = <<":">> \o w /\ Rest(f.port) = w
      BY <1>9, <2>2, <3>1, WordAtIsAWord, PartRead DEF PortPart, PartAt
    <3>4. w # <<>> /\ PortOf[w[1]] # 0 /\ PortOf[w[1]] <= MaxPort
      BY <1>4, <1>9, <2>2, <3>3 DEF PortIsValid
    <3>5. Len(w) = 1
      BY <3>2, <3>4 DEF AWord
    <3>6. f.port[2] = w[1] /\ f.port # <<>>
      BY <1>9, <2>2, <3>2, <3>3, <3>5, BehindColon
    <3> QED BY <3>2, <3>3, <3>4, <3>6 DEF PortNumber
  <2> QED BY <2>1, <2>2
<1>15. f.path \in {<<>>} \cup {SubSeq(u, i, Len(u)) : i \in {j \in DOMAIN u : u[j] = "/"}}
  <2>1. f.path = SubSeq(u, PathStart(u), Len(u))
    BY <1>9 DEF From
  <2>2. CASE PathStart(u) \in DOMAIN u
    <3>1. u[PathStart(u)] \in Symbol
      BY <1>0, <2>2, ElementOfSeq
    <3>2. u[PathStart(u)] = "/"
      BY <1>4, <2>2, <3>1, SymbolIsNotEnd DEF At
    <3> QED BY <2>1, <2>2, <3>2
  <2>3. CASE PathStart(u) \notin DOMAIN u
    <3>1. PathStart(u) = Len(u) + 1
      BY <1>0, <1>8, <2>3
    <3> QED BY <1>0, <2>1, <3>1, SubSeqEmpty
  <2> QED BY <2>2, <2>3
<1>16. f \in Loose(u)
  <2>1. f \in [user : words, password : {<<>>} \cup {<<":">> \o w : w \in words},
               server : words, port : {<<>>} \cup {<<":">> \o w : w \in words \ {<<>>}},
               path : {<<>>} \cup {SubSeq(u, i, Len(u)) : i \in {j \in DOMAIN u : u[j] = "/"}}]
    BY <1>9, <1>12, <1>13, <1>14, <1>15
  <2> QED BY <1>10, <1>14, <2>1 DEF Loose, words
<1> QED BY <1>16

\* A URL of the documented form is accepted and taken apart as that form has it;
\* whatever is accepted has the form but for an empty name or password, a path
\* left out or a port below 0.
THEOREM SessionUrl == Spec => []UrlIsRead
<1>1. ToldInv => UrlIsRead
  <2> SUFFICES ASSUME ToldInv, at = "open", Place.kind = "ssh"
               PROVE  UrlIsRead
    BY DEF UrlIsRead
  <2> DEFINE u == Place.url
  <2>1. u \in Url
    <3>1. opts.folders \in Seq(DOMAIN world.place) /\ Len(opts.folders) = 2
      BY DEF ToldInv, Options
    <3>2. PlaceOf(side) \in DOMAIN world.place
      BY <3>1, ElementOfSeq DEF PlaceOf
    <3>3. Place \in LocalPlace \cup SmbPlace \cup SshPlace
      BY <3>2 DEF ToldInv, WorldInv, Place
    <3> QED BY <3>3 DEF LocalPlace, SmbPlace, SshPlace
  <2> HIDE DEF u
  <2>2. \A r \in Loose(u) : splitSshPath(u) = PartsOf(r)
    BY <2>1, ReadingIsRead
  <2>3. \A r \in Readings(u) : splitSshPath(u) = PartsOf(r)
    BY <2>2 DEF Readings
  <2>4. splitSshPath(u).error = "initSuccess" => \E r \in Loose(u) : splitSshPath(u) = PartsOf(r)
    BY <2>1, <2>2, AcceptedHasReading
  <2> QED BY <2>3, <2>4 DEF UrlIsRead, u
<1> QED BY <1>1, ToldAlways, PTL
=============================================================================
