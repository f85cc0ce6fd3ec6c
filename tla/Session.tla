------------------------------- MODULE Session -------------------------------
(***************************************************************************)
(* A run of ztbackup from the command line to its end: main with its       *)
(* options and the terminal, Initialize of the two folders (a local one, a *)
(* samba share, a login to an SSH server), StartBackup, and the questions  *)
(* of the backup, taken from Query.  What the backup does to the files is  *)
(* BackupTree's and FileSync's.                                            *)
(*                                                                         *)
(* A run meets a world: its arguments, and what is at the places that they *)
(* name.  Any step outside the program may fail, the user or the system    *)
(* may kill it anywhere, and the shell (or cron) starts it again.          *)
(***************************************************************************)
EXTENDS Query, SshPath

LOCAL INSTANCE Functions
LOCAL INSTANCE SequencesExt

CONSTANT World
\* Of a world w: w.args is a sequence of option letters and of places,
\* w.place[p] is what is at the place p, w.questions how many questions the
\* files call for.

\* The letters that mean something, from among those of the options; no place
\* has the name of an option.
Letter == {"l", "a", "d", "m", "b", "e", "r", "u", "n"}

\* What there is at a place: a root, or why there is none ("nowhere" also refuses
\* to create one; "locked" is a root that does not let the user in, "epoch" one
\* with a modification time of 0).  For a samba share its sections in .smbcreds
\* and the login it asks for; for an SSH server the URL, the methods it offers,
\* its password, and which of the agent's identities it lets in.
Root == {"folder", "link", "file", "locked", "absent", "nowhere", "epoch"}
Login == [username : Seq(STRING), password : Seq(STRING)]
LocalPlace == [kind : {"local"}, root : Root]
SmbPlace == [kind : {"smb"}, root : Root, share : Login, server : Login, account : Login]
SshPlace == [kind : {"ssh"}, root : Root, url : Url, methods : SUBSET STRING,
             password : Seq(Word), agent : Seq(BOOLEAN)]

ASSUME WorldAssumption ==
    \A w \in World :
        /\ DOMAIN w = {"args", "place", "questions"}
        /\ w.args \in Seq(STRING)
        /\ DOMAIN w.place \cap Letter = {}
        /\ \A p \in DOMAIN w.place : w.place[p] \in LocalPlace \cup SmbPlace \cup SshPlace

VARIABLES
    at,         \* the step of the run
    world,
    arg,        \* the argument that comes next, i
    opts,       \* the options, as far as they are parsed
    side,       \* the folder being initialized, "src" or "dst"
    next,       \* the identity that the agent is asked for
    loggedIn,   \* the sides at which an SSH server takes the user for logged in
    tty,        \* the mode of the terminal
    g_SavedTerminal,
    restores,   \* whether RestoreSavedTerminal is registered with atexit
    before      \* for a property: tty at the start of the run

argVars == <<arg, opts>>
loginVars == <<side, next, loggedIn>>
ttyVars == <<tty, g_SavedTerminal, restores, before>>
sessionVars == <<at, world, argVars, loginVars, ttyVars, queryVars>>

-----------------------------------------------------------------------------
(* The options.                                                            *)

FileOption == [l |-> "leave", a |-> "ask", d |-> "delete"]
FolderOption == [m |-> "leave", b |-> "ask", e |-> "delete"]

Unset == [file |-> "notSet", folder |-> "notSet", recursive |-> FALSE,
          anonymous |-> FALSE, noLinks |-> FALSE, folders |-> <<>>, refused |-> FALSE]

IsPlace(t) == t \in DOMAIN world.place

\* Mutant: of two options of a kind the later one counts.
LastOne(c, t) ==
    CASE t \in DOMAIN FileOption   -> [c EXCEPT !.file = FileOption[t]]
      [] t \in DOMAIN FolderOption -> [c EXCEPT !.folder = FolderOption[t]]
      [] t = "r"                   -> [c EXCEPT !.recursive = TRUE]
      [] t = "u"                   -> [c EXCEPT !.anonymous = TRUE]
      [] t = "n"                   -> [c EXCEPT !.noLinks = TRUE]
      [] IsPlace(t)                -> [c EXCEPT !.folders = Append(@, t)]
      [] OTHER                     -> c

\* A second option of a kind ends the run, and so does a third folder.
With(c, t) ==
    IF \/ c.refused
       \/ t \in DOMAIN FileOption /\ c.file # "notSet"
       \/ t \in DOMAIN FolderOption /\ c.folder # "notSet"
       \/ IsPlace(t) /\ Len(c.folders) = 2
    THEN [c EXCEPT !.refused = TRUE]
    ELSE LastOne(c, t)

Launch ==
    /\ at = "shell"
    /\ at' = "parse"
    /\ before' = tty
    /\ UNCHANGED <<world, argVars, loginVars, tty, g_SavedTerminal, restores, queryVars>>

Parse ==
    /\ at = "parse"
    /\ arg \in DOMAIN world.args
    /\ opts' = With(opts, world.args[arg])
    /\ arg' = arg + 1
    /\ at' = IF opts'.refused THEN "exit" ELSE "parse"
    /\ UNCHANGED <<world, loginVars, ttyVars, queryVars>>

\* Mutant: the mode is saved only after it has been changed.
SavedTooLate ==
    /\ at = "parse"
    /\ arg \notin DOMAIN world.args
    /\ tty' = "keys"
    /\ g_SavedTerminal' = tty'
    /\ restores' = (Len(opts.folders) = 2)
    /\ at' = IF Len(opts.folders) = 2 THEN "open" ELSE "exit"
    /\ UNCHANGED <<world, argVars, loginVars, before, queryVars>>

\* ModTerminal comes before the folders are asked for, atexit after that.
Prepare ==
    /\ at = "parse"
    /\ arg \notin DOMAIN world.args
    /\ g_SavedTerminal' = tty
    /\ tty' = "keys"
    /\ restores' = (Len(opts.folders) = 2)
    /\ at' = IF Len(opts.folders) = 2 THEN "open" ELSE "exit"
    /\ UNCHANGED <<world, argVars, loginVars, before, queryVars>>

-----------------------------------------------------------------------------
(* Initialize, for each of the two folders.                                *)

PlaceOf(s) == opts.folders[IF s = "src" THEN 1 ELSE 2]
Place == world.place[PlaceOf(side)]

GoTo(step) == at' = step /\ UNCHANGED <<world, loginVars>>
Refuse == GoTo("exit")

\* getModTime of the root finds nothing, or a time of 0.
HasModTime(root) == root \notin {"absent", "nowhere", "epoch"}

OpenLocal ==
    /\ at = "open"
    /\ Place.kind = "local"
    /\ HasModTime(Place.root)
    /\ GoTo("access")

\* Mutant: a missing folder is refused and stays missing.
RefuseLocal ==
    /\ at = "open"
    /\ Place.kind = "local"
    /\ ~HasModTime(Place.root)
    /\ Refuse

\* A missing destination folder is created, and refused all the same.
CreateLocal ==
    /\ at = "open"
    /\ Place.kind = "local"
    /\ ~HasModTime(Place.root)
    /\ at' = "exit"
    /\ world' = IF side = "dst" /\ Place.root = "absent"
                THEN [world EXCEPT !.place[PlaceOf(side)].root = "folder"]
                ELSE world
    /\ UNCHANGED loginVars

OpenSmb ==
    /\ at = "open"
    /\ Place.kind = "smb"
    /\ GoTo("access")

Guest == [username |-> <<>>, password |-> <<>>]

\* Mutant: a password is looked for in the share's section first, whichever
\* has the user name.
PasswordOfShare(p, anonymous) ==
    LET section(item) == IF p.share[item] # <<>> THEN "share" ELSE "server"
        pName == p[section("username")].username
        pPass == p[section("password")].password
    IN  IF anonymous \/ <<>> \in {pName, pPass}
        THEN Guest ELSE [username |-> pName, password |-> pPass]

\* What sbf_get_auth_data_fn finds in .smbcreds. The user name is looked up in
\* the section of the share, and SectionName becomes the server's if there is
\* none; the password is looked up after that. One without the other is no login.
Credentials(p, anonymous) ==
    LET SectionName == IF p.share.username # <<>> THEN "share" ELSE "server"
        pName == p[SectionName].username
        pPass == p[SectionName].password
    IN  IF anonymous \/ <<>> \in {pName, pPass}
        THEN Guest ELSE [username |-> pName, password |-> pPass]

Split ==
    /\ at = "open"
    /\ Place.kind = "ssh"
    /\ IF splitSshPath(Place.url).error = "initSuccess" THEN GoTo("resolve") ELSE Refuse

\* gethostbyname, connect and the handshake.
Connected == [resolve |-> "connect", connect |-> "handshake", handshake |-> "methods"]

Reach ==
    /\ at \in DOMAIN Connected
    /\ GoTo(Connected[at])

Password == splitSshPath(Place.url).password
Offered(method) == method \in Place.methods

LogIn ==
    /\ loggedIn' = loggedIn \cup {side}
    /\ at' = "sftp"
    /\ UNCHANGED <<world, side, next>>

WithPassword ==
    /\ at = "methods"
    /\ Password # <<>>
    /\ Offered("password")
    /\ IF Password = Place.password THEN LogIn ELSE Refuse

\* A password that the server does not ask for: the call that would use a key
\* is commented out, and the session goes on without a login.
WithoutLogin ==
    /\ at = "methods"
    /\ Password # <<>>
    /\ ~Offered("password")
    /\ Offered("publickey")
    /\ GoTo("sftp")

WithPublicKey ==
    /\ at = "methods"
    /\ Password = <<>>
    /\ Offered("publickey")
    /\ at' = "agent"
    /\ next' = 1
    /\ UNCHANGED <<world, side, loggedIn>>

UnknownMethod ==
    /\ at = "methods"
    /\ Password = <<>> \/ ~Offered("password")
    /\ ~Offered("publickey")
    /\ Refuse

\* Mutant: the first identity that the server refuses is the last one.
FirstIdentity ==
    /\ at = "agent"
    /\ IF next \in DOMAIN Place.agent /\ Place.agent[next] THEN LogIn ELSE Refuse

\* A turn of AuthenticateWithPublicKey: the agent's identities, one by one.
TryIdentity ==
    /\ at = "agent"
    /\ \/ next \notin DOMAIN Place.agent /\ Refuse
       \/ next \in DOMAIN Place.agent /\ Place.agent[next] /\ LogIn
       \/ /\ next \in DOMAIN Place.agent
          /\ ~Place.agent[next]
          /\ next' = next + 1
          /\ UNCHANGED <<at, world, side, loggedIn>>

OpenSftp ==
    /\ at = "sftp"
    /\ IF side \in loggedIn THEN GoTo("access") ELSE Refuse

Opens(p) ==
    /\ p.root \in {"folder", "link"}
    /\ p.kind = "smb" => Credentials(p, opts.anonymous) = p.account

Opened ==
    /\ IF side = "src" THEN at' = "open" /\ side' = "dst" ELSE at' = "start" /\ UNCHANGED side
    /\ UNCHANGED <<world, next, loggedIn>>

\* Mutant: what InitializeToPath returns is all that counts.
AccessForGranted ==
    /\ at = "access"
    /\ Opened

ensureRootAccess ==
    /\ at = "access"
    /\ IF Opens(Place) THEN Opened ELSE Refuse

\* A server, the network or a file system fails a call: an exit of its own, for
\* the properties to tell it from what the code decides.
Fails ==
    /\ \/ at \in DOMAIN Connected \cup {"agent", "sftp", "access", "start"}
       \/ at = "open" /\ Place.kind = "smb"
    /\ GoTo("failed")
    /\ UNCHANGED <<argVars, ttyVars, queryVars>>

-----------------------------------------------------------------------------
(* StartBackup, the questions of the run, and its end.                     *)

\* createFolder("") of the destination: a link to a folder is none, except to
\* libsmbclient.
MakesRoot == Place.root = "folder" \/ Place.kind = "smb"

StartBackup ==
    /\ at = "start"
    /\ GoTo(IF MakesRoot THEN "run" ELSE "exit")
    /\ UNCHANGED <<argVars, ttyVars, queryVars>>

\* The options that BackupThis gets: to ask is the default.
eFileOption == IF opts.file = "notSet" THEN "ask" ELSE opts.file
eFolderOption == IF opts.folder = "notSet" THEN "ask" ELSE opts.folder

\* The deletion of a file or a folder is only asked about if the options say so.
MayAsk(question) == question = "restore" \/ "ask" \in {eFileOption, eFolderOption}

AskUser ==
    /\ at = "run"
    /\ number < world.questions
    /\ \E question \in {"delete", "restore"} : MayAsk(question) /\ Ask(question)
    /\ UNCHANGED <<at, world, argVars, loginVars, ttyVars>>

Wait == at = "run" /\ Round /\ UNCHANGED <<at, world, argVars, loginVars, ttyVars>>

UserTypes ==
    /\ at = "run"
    /\ world.questions > 0
    /\ \E k \in Key : Type(k)
    /\ UNCHANGED <<at, world, argVars, loginVars, ttyVars>>

Finish ==
    /\ at = "run"
    /\ asking = "none"
    /\ at' = "exit"
    /\ UNCHANGED <<world, argVars, loginVars, ttyVars, queryVars>>

\* The process is no more.
Gone ==
    /\ at' = "shell"
    /\ arg' = 1 /\ opts' = Unset
    /\ side' = "src" /\ next' = 0 /\ loggedIn' = {}
    /\ g_SavedTerminal' = "none" /\ restores' = FALSE /\ before' = "none"
    /\ FreshAgain
    /\ UNCHANGED world

Exit ==
    /\ at \in {"exit", "failed"}
    /\ tty' = IF restores THEN g_SavedTerminal ELSE tty
    /\ Gone

\* Ctrl-C, a signal, or the NULL that libssh2_userauth_list returns on an error
\* and that strstr does not bear: no atexit.
Kill ==
    /\ at \notin {"shell", "exit", "failed"}
    /\ UNCHANGED tty
    /\ Gone

Initialize ==
    /\ \/ OpenLocal \/ CreateLocal \/ OpenSmb \/ Split \/ Reach
       \/ WithPassword \/ WithoutLogin \/ WithPublicKey \/ UnknownMethod
       \/ TryIdentity \/ OpenSftp \/ ensureRootAccess
    /\ UNCHANGED <<argVars, ttyVars, queryVars>>

Failing == Kill \/ Fails

main == Launch \/ Parse \/ Prepare \/ Initialize \/ StartBackup \/ AskUser \/ Wait \/ Finish \/ Exit

Init ==
    /\ at = "shell"
    /\ world \in World
    /\ arg = 1 /\ opts = Unset
    /\ side = "src" /\ next = 0 /\ loggedIn = {}
    /\ tty = "lines" /\ g_SavedTerminal = "none" /\ restores = FALSE /\ before = "none"
    /\ Fresh

Next == main \/ UserTypes \/ Failing

\* The program goes on, and the shell starts it again and again.
Spec == Init /\ [][Next]_sessionVars /\ WF_sessionVars(main)

-----------------------------------------------------------------------------
(* Properties.                                                             *)

Choice == {"notSet", "leave", "ask", "delete"}

SessionTypeOK ==
    /\ at \in {"shell", "parse", "open", "methods", "agent", "sftp", "access",
               "start", "run", "exit", "failed"} \cup DOMAIN Connected
    /\ arg \in 1..(Len(world.args) + 1)
    /\ opts \in [file : Choice, folder : Choice,
                 recursive : BOOLEAN, anonymous : BOOLEAN, noLinks : BOOLEAN,
                 folders : Seq(DOMAIN world.place), refused : BOOLEAN]
    /\ side \in {"src", "dst"}
    /\ next \in Nat
    /\ loggedIn \subseteq {"src", "dst"}
    /\ {tty, g_SavedTerminal, before} \subseteq {"none", "lines", "keys"}
    /\ restores \in BOOLEAN
    /\ QueryTypeOK

Told == {world.args[i] : i \in DOMAIN world.args}

\* A run that starts does what its arguments say, in whatever order they come:
\* of two options of a kind neither wins, and nothing is deleted that no option
\* says to delete. Its folders are the only two that it is given, in their order.
RunIsAsTold ==
    at = "run" =>
        /\ \A o \in DOMAIN FileOption \cap Told : eFileOption = FileOption[o]
        /\ \A o \in DOMAIN FolderOption \cap Told : eFolderOption = FolderOption[o]
        /\ eFileOption = "delete" => "d" \in Told
        /\ eFolderOption = "delete" => "e" \in Told
        /\ opts.recursive = ("r" \in Told)
        /\ \E i, j \in DOMAIN world.args :
               /\ i < j
               /\ {k \in DOMAIN world.args : IsPlace(world.args[k])} = {i, j}
               /\ opts.folders = <<world.args[i], world.args[j]>>

\* A backup only begins when both of its folders have opened, with the login
\* that they need: it deletes what it does not see in the source.
NeverStartsHalfway ==
    at \in {"start", "run"} =>
        \A s \in {"src", "dst"} :
            LET p == world.place[PlaceOf(s)]
            IN  Opens(p) /\ (p.kind = "ssh" => s \in loggedIn)

\* Said of the world alone: what it takes to log in to an SSH server.
CanLogIn(p) ==
    LET password == splitSshPath(p.url).password
    IN  /\ splitSshPath(p.url).error = "initSuccess"
        /\ \/ password # <<>> /\ "password" \in p.methods /\ password = p.password
           \/ password = <<>> /\ "publickey" \in p.methods /\ TRUE \in Range(p.agent)

\* And to a samba share: a guest gets in if nothing names a user, or by -u; the
\* section of the share comes before that of the server.
HasAccount(p, anonymous) ==
    IF p.account = Guest
    THEN anonymous \/ {p.share, p.server} = {Guest}
    ELSE /\ ~anonymous
         /\ <<>> \notin {p.account.username, p.account.password}
         /\ p.account = IF p.share.username # <<>> THEN p.share ELSE p.server

\* The roots that will do; a missing one only as a local destination.
Usable ==
    [src |-> [local |-> {"folder", "link"}, smb |-> {"folder"}, ssh |-> {"folder", "link"}],
     dst |-> [local |-> {"folder", "absent"}, smb |-> {"folder"}, ssh |-> {"folder"}]]

Parsed == FoldLeft(With, Unset, world.args)

AllInPlace ==
    LET folder(s) == Parsed.folders[IF s = "src" THEN 1 ELSE 2]
    IN  /\ ~Parsed.refused
        /\ Len(Parsed.folders) = 2
        /\ \A s \in {"src", "dst"} :
               LET p == world.place[folder(s)]
               IN  /\ p.root \in Usable[s][p.kind]
                   /\ p.kind = "ssh" => CanLogIn(p)
                   /\ p.kind = "smb" => HasAccount(p, Parsed.anonymous)

\* Once calls stop failing, a backup whose folders and logins are in place
\* starts, if not at the first attempt: a destination that the first run
\* creates and refuses is there for the next one.
StartsInTheEnd == <>[][~Failing]_sessionVars => (AllInPlace ~> at = "run")

\* The terminal is left in the mode it was found in by every run that names two
\* folders and is not killed.
TerminalRestored ==
    [][Exit /\ Len(opts.folders) = 2 /\ ~opts.refused => tty' = before]_sessionVars

\* A URL of the form that the documentation gives is accepted, and splitSshPath
\* finds the parts it has in that form. Of the other URLs only those are accepted
\* that would have the form but for an empty name or password, a path left out or
\* a port below 0, and they too are taken for the parts that they have.
UrlIsRead ==
    at = "open" /\ Place.kind = "ssh" =>
        LET s == splitSshPath(Place.url)
        IN  /\ \A r \in Readings(Place.url) : s = PartsOf(r)
            /\ s.error = "initSuccess" => \E r \in Loose(Place.url) : s = PartsOf(r)

\* Every run comes to its end, whatever is typed at its questions.
RunsEnd == at # "shell" ~> at = "shell"
=============================================================================
