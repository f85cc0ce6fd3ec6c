# A TLA+ model of ztbackup

ztbackup copies what is new or newer from a *source* folder to a *destination* folder, each of them local, on a Samba
share or behind SFTP, and then looks for files and folders of the destination whose source is gone, to leave, delete or
restore them as its options or the user say. It is one thread without a database: all it knows of earlier runs is what
it sees in the two file systems. This project models the part of it that decides and copies, checks the model with TLC
and proves theorems about it with TLAPS. Source paths below are under `src/` of the repository.

## The system

| Part | State | Operations | Hard about it |
|---|---|---|---|
| `BackupThis` (BackupFolder.cpp:148-417) | `iResult`, the lists of sub-folders, one frame for each folder | scan of the source folder (compare, then skip, copy, ask), recursion, check of the destination folder (leave, delete, restore, ask) | all decisions are made from sizes and dates; status calls that fail; cursors shared by nested calls; runs that find what an interrupted run left |
| `CopyFileToDest` (462-541) | `fSize`, `copied`, two handles | open, create (truncates), read and write in chunks, close, mode, date; five early returns | crash or failure between any two steps; short writes; handles kept on early returns |
| `CopyNewFolderToDest` (419-459) | list of sub-folders | restores a folder | "." and ".."; moves its caller's cursor |
| `deleteFolder` (543-588) | list of sub-folders | deletes a folder from the inside | failures half-way; moves its caller's cursor |
| `AskTimed...Question` (602-701) | `g_uiQueryTimeout`, stdin's buffer | ask, wait, time out | nobody answers; keys typed ahead and read late |
| `StartBackup`, `Initialize` (107-147) | options, status | start of a run | destination root created, then refused; a folder that opens only half |
| `main` (main.cpp) | options, the terminal's mode, the two folder objects | options, choice of adapter | contradictory options; exits on which the terminal is not restored |
| Adapters (Local/Smb/Ssh2BackupFolder.cpp) | root, one directory cursor; SFTP: a table of 20 handles | getFirst/getNext, status calls, file calls | every status call answers 0 for "failed" as for "does not exist"; table full; result codes |
| `ExcludeList` (ExcludeList.cpp) | patterns | read `.ztexclude`, match | buffered line parser at its limits |
| `CStringSink`, `CLogFile`, Util, `printStats` | list, log, counters | | |
| SSH connection and keys (Ssh2BackupFolder.cpp:47-361), SMB credentials (SmbBackupFolder.cpp:348-445) | session, `.smbcreds` | set-up | every step may fail; which login is used, and whether there was one |

`BackupThis` of the source object calls methods of both objects, and `CopyFileToDest` of either one (a restore is the
same function called on the destination). The user changes files on both sides at any time, and the process may be
killed at any step: these are the concurrency of the system. What makes each part correct:

- a copy is a first part of its source at every moment and whole when it reports success; what it reads, it never writes;
- what a later run will skip is a faithful copy, whatever happened to earlier runs;
- the source is written to only in a restore; a newer backup is cut, and a backup deleted, only on an answer or for
  the right reason;
- the destination of an undisturbed run is what the two trees and the options say;
- runs end, and what is out of date is eventually copied;
- a backup starts only if both folders have opened, logged in to with the right name and password, and does what its
  arguments say;
- a question waits a bounded time and is answered by a key that was meant for it.

## The modules

| Module | Models | |
|---|---|---|
| `Files` | a file as the engine sees it, the status calls, the four-way decision (skip, copy, ask) | no state |
| `CopyFile` | `CopyFileToDest`, one action for each step and each early return; the user around it | `CopySpec` |
| `CopyPromise` | abstract specification: refused calls touch nothing, a cut target only grows along the source, success means all | `Spec` |
| `FileSync` | the life of one file over any number of runs: `BackupThis` for this file, with `CopyFile` inside, user, crashes | `SyncSpec`, `FairSpec` |
| `BackupTree` | one run over a tree: `BackupThis`, `CopyNewFolderToDest`, `deleteFolder` with their stack and the two cursors | `Spec` |
| `ExcludeParser` | `ExcludeList`: the constructor's reading loop, `processBuffer`, `addToList` | `Spec` |
| `Query` | the timed questions: timer, halving and reset, the keys on their way through terminal and stdin | `QuerySpec` |
| `SshPath` | `splitSshPath` of the SFTP adapter, and the form its URLs are documented to have | no state |
| `Session` | a run from the command line to its end: `main`, `Initialize` through each adapter, `StartBackup`; the questions are those of `Query` | `Spec` |
| `CopyFile_proofs`, `CopyPromise_proofs`, `FileSync_proofs`, `ExcludeParser_proofs`, `Query_proofs`, `Session_proofs`, `BackupTree_proofs`, `BackupTreeMirror_proofs` | theorems | |
| `MCCopyFile`, `MCFileSync`, `MCBackupTree`, `MCExcludeParser`, `MCQuery`, `MCSession` | small instances for TLC | |

`FileSync` composes `CopyFile` (its actions are the steps of a copy), `Session` composes `Query` and `SshPath`;
`BackupTree` takes a copy as one step, with the outcomes that `CopyPromise` allows, and an answer as one step, which is
what `Query` shows a question to come to.

**Files.** A file is `[data, mtime, mode]`; data is a sequence of units, each a version number, so that a copy that
mixes versions, or that stops, can be told from a whole one. `Answers(v)` is what a status call may return for the
true value `v`: also 0, if `"stat"` is one of the `Faults`. All three adapters do this. `Views` gives size and date
independently, as they are separate calls.

**CopyFile.** `pc` follows the function: `open` (getFileSize, openFile), `create` (createFile), `copy` (the loop),
`stamp` (after closing and setFileMode: setModTime), `returned`. `from` is the object the function is called on. The
set `Faults` names the calls that may fail; each failure is an action with the return code of the code (`OpenFails`,
`CreateFails`, `ReadFails`, `WriteFails`, `DiskFull`). `handles` counts what each adapter holds open against `Slots`:
early returns leave it up. `CreateOverflows` is the SFTP adapter with its table full: the file is truncated on the
server, then the call fails. A read returns any number of units up to `BufLen`, none only at the end of the file.

**FileSync.** `phase` is where `BackupThis` is with this file; its value fixes which statements come next. The scan
(`Skip`, `Update`, `AskRestore`, `PassOver`), the questions (`KeepBoth`, `BackupAnyway`, `RestoreNewer`; `KeepOrphan`,
`DeleteOrphan`, `RestoreOrphan`) and the check (`CheckPasses`, `Prune`, `AskDelete`) are one action per branch; a copy
is `CopyFile`'s actions in phase `update` or `restore`. A time-out is the answer `"1"`, as in the code. `KeepBoth` may
end the run after a question about a file of another size: line 235 tests `iResult`, which nothing may have assigned
(an uninitialised read, so both outcomes are allowed). `said` is the last answer of the run. Two variables belong to
the properties only: `diverged` (has the user touched a side since a copy last began?) and `want` (the backup the user
asked to have restored).

**BackupTree.** `stack` holds a record for each call under way, innermost first: function, folder, where it is, the
sub-folders it has collected, whether `iResult` was assigned. `cursor` has one directory cursor per side, as each
adapter object has, so a nested call closes or moves its caller's. A listing returns its names in any order. A copy of
one file is one step with every outcome `CopyPromise` allows (`Outcomes`). `first` remembers the trees at the start.
`EnterRestore` puts "." and ".." in the list, as the code does; a path longer than `MaxPath` names cannot be listed,
which is what ends that recursion.

**ExcludeParser.** `pc` is `open` (openFile, getFileSize), `read` (one turn of the constructor's loop up to the call of
`processBuffer`), `scan` (its loop, one action per line or for its end) or `done`. The variables are the code's; `Buffer`
keeps old bytes where the code does, which is what finding 5 is about. `readFile` may return fewer bytes than asked for,
or any of `ReadErrors`: over SFTP these are libssh2's own codes (Ssh2BackupFolder.cpp:647-649), so that `iBufSize` may be
far below 0 and the 0 of ExcludeList.cpp:33 may fall in front of `Buffer`. `outside` collects, for the properties, the
places outside of `Buffer` that are written to. `Names(text)` says of the whole file at once which names it holds. `kept` belongs to the properties only: has the
leftover always been that of the last buffer? It turns false at the step where finding 5 begins (`Consumed`), and
`NothingLost` and `ListIsExact` speak of the behaviours, nearly all, in which it stays true. `isExcluded` is seen by
`BackupTree` as a set of names.

**Query.** `iCur` counts the time of a question as the code does, in steps of the sleep. A key waits in `terminal`, where
`select` sees it; `getchar` moves all of `terminal` to `stdin`, where `select` does not, and returns the first. `Answer`,
`OtherKey` and `Quiet` are the three ways a turn of the loop goes, `TimeOut` its end. Keys are told apart as far as the
questions do ("l" stands for what both take, "d" and "b" for what one of them takes). `hasty`, `waited` and `silent`
belong to the properties; `hasty` is whether the user has ever typed a key between the questions, on top of another, or
so late that its question timed out before it was read.

**SshPath.** A URL is a sequence of delimiters and words, since nothing in `splitSshPath` looks into a word, `atoi`
aside (`PortOf`). `Url` is the set of what can be between "ssh://" and the end. `Readings` says which ways there are to
read the URL as the form in README.md:13-14 and the comment at line 62, with nothing in it empty and a port in the range of
the message at line 95; `Loose` lets through what the code lets through beyond that. The code is compared with both.

**Session.** `at` is the step of the run; `Parse` takes one argument (a letter of an option, or a folder), and each
further step of `main`, `Initialize` and the adapters' `InitializeToPath` is an
action, each early return an alternative of one. A run meets a `world`: its arguments and what is at the two places
they name (the kind of root; for SSH the URL, the methods the server offers, its password and the identities of the
agent; for SMB the sections of `.smbcreds` and the login that the share asks for): `WorldAssumption` says what a world is
made of. `CreateLocal` changes the world: the folder it has created is there for the next run. Any call to the outside may fail (`Fails`), the process may be killed anywhere (`Kill`), and the shell starts
it again. In the `run` the files call for at most `world.questions` questions; what the answers do is the other modules'.

Definitions with a comment that begins with *Mutant* are plausible mistakes. They are used nowhere in a specification:
each takes the place of the definition after it to see that a property notices.

## What is checked

| Run | Properties | What it shows |
|---|---|---|
| `copy.cfg` | `CopyTypeOK`, `TargetIsPrefix`, `SuccessMeansCopied`, `SourceOnlyRead`, `CallReturns`, `KeepsPromise` | `CopyFileToDest` alone, both directions, all faults it looks at; it implements `CopyPromise` |
| `sync.cfg` | `SyncTypeOK`, `SkippedIsCopied`, `SuccessIsWhole`, `SourceOnlyByRestore`, `NewerBackupOnlyByAnswer`, `DeletedOnlyIfSourceGone`, `RunEnds`, `NewerIsBackedUp` | any number of runs with all faults but failing status calls, crashes, all options and keys, the source rewritten during the copy; every run ends, and once calls stop failing what is out of date is copied |
| `tree.cfg` | `MirrorAtEnd`, `Terminates` | an unattended run leaves exactly the destination that the documentation says of the two trees, what is `Disputed` aside |
| `tree_ask.cfg` | `TypeOK`, `CursorIsMine`, `RemovedWithConsent`, `SourceKeptUnlessAsked`, `Terminates` | faults and any answers |
| `exclude.cfg` | `TypeOK`, `OutsideOnlyIfReadFails`, `NothingLost`, `ListIsExact`, `ReadingEnds` | the parser of `.ztexclude`: every file of up to six bytes, every short read and reads that fail with codes of any size |
| `session.cfg` | `SessionTypeOK`, `RunIsAsTold`, `NeverStartsHalfway`, `UrlIsRead`, `SilenceIsShort`, `OneKeyAnswers`, `TerminalRestored`, `StartsInTheEnd`, `RunsEnd` | whole runs in 3,515 worlds, with failing calls, kills and any keys |
| `late_answer.cfg` | `AnswerIsToThisQuestion` is **violated** | finding 6 |
| `exclude_stale.cfg` | `NamesAreExcluded` is **violated** | finding 5 |
| `stat_delete.cfg` | `DeletedOnlyIfSourceGone` is **violated** | finding 1 |
| `restore_cut.cfg` | `RestoreKeepsBackup` is **violated** | finding 2 |
| `slots.cfg` | `RefusalKeepsTarget` is **violated** | finding 3 |
| `dots.cfg` | `RestoreStaysInside` is **violated** | finding 4 |

### Findings

1. *A failing status call deletes a backup* (`stat_delete.cfg`). `getModTime() == 0` is all that says "no longer
   exists" (BackupFolder.cpp:332); every adapter returns 0 for any error. README.md:43 promises -d deletes "when the
   source for that file no longer exists".
2. *A restore that is cut short destroys the backup* (`restore_cut.cfg`). The stump in the source has the current
   date, the failure is "non-fatal" (BackupFolder.h:131), and a later run copies the stump over the only whole copy.
3. *Lost handles end in truncated backups* (`slots.cfg`). Early returns of `CopyFileToDest` close nothing; once the
   SFTP table is full, `createFile` truncates on the server and then reports a "non-fatal" failure.
4. *Restoring a folder leaves the folder* (`dots.cfg`). `CopyNewFolderToDest` follows "." and ".." (438-441), so files
   nobody was asked about are restored over newer sources, and the recursion ends only where paths get too long.
5. *A stale leftover spoils a pattern* (`exclude_stale.cfg`). `iLeftoverCount` is set only where a buffer ends inside a
   line (ExcludeList.cpp:88, 91). After a buffer that ends in a complete line it keeps its old value, and the next
   buffer is read behind that many old bytes: they are joined to the next name, which is then not excluded, against
   README.md:68-70. If they leave no room for the rest of that name, it becomes part of the leftover, which then fills the
   buffer: `iToRead` is 0, and the constructor reads nothing for ever. (So it is in the trace, with names
   of two bytes and a buffer of three. A last name of one byte would fit: the list then ends, with a wrong pattern in its
   place.)
6. *A key answers a later question* (`late_answer.cfg`). `KeyPressWaiting` ("returns whether a keypress is waiting",
   BackupFolder.h:147) asks `select` about the file descriptor, `getchar` reads a buffered stream. Of two keys typed at
   one question it takes both and returns one; the other waits in the buffer, unseen, until some later key makes
   `select` return, and is then the answer to the question on the screen. A "d" typed at one file deletes another.

Without a finding, since no document speaks of them: a source that shrinks while it is copied makes the loop at 486-509
endless (`CopyChunk` with no units; `Shrunk` in `RunEnds`). A missing destination folder is created and the run refused
all the same (LocalBackupFolder.cpp:29-35), so that the second run is the first to back up (`StartsInTheEnd`). A password
that the server does not ask for leaves the session without a login (Ssh2BackupFolder.cpp:197-201); the run is stopped
by the next call (`OpenSftp`). A run without two folders, or one that is killed, leaves the terminal without its line mode
(`TerminalRestored` excepts them). After a read that fails with a code lower than the leftover is long, ExcludeList.cpp:33
puts its 0 in front of `Buffer`: the one write outside of it (`OutsideOnlyIfReadFails`); what the place belongs to is up to
the compiler, and the model changes nothing else by it. `main` returns 0 however the run ended. A source and a backup of equal size less
than two hours apart are never synchronised: `SkippedIsCopied` and `NewerIsBackedUp` leave this tolerance, which the
comment at 241 intends, to the user. A
line of `.ztexclude` as long as the buffer makes the constructor read nothing for ever (`LinesFit` in `ReadingEnds`). The
timed questions return `'1'` where the comment at 600 has `'l'`; the only difference is that such a skip is
not counted in the statistics.

Three disagreements between the code and its documentation have no run of their own; the properties leave them aside, and
say so. README.md:72 says that an excluded name that is already in the destination "will not be deleted". That holds while
the source has it; without a source it is deleted like any other, since the check at 324 does not ask the exclude list.
BackupFolder.cpp:317 speaks of "and/or" and README.md:43 of -d alone, but step 3 is entered only if neither option is
"leave" (321): -d with -m, or -e with -l, deletes nothing. `MirrorAtEnd` says of both (`Disputed`) only that they stay as
they were or go. And `splitSshPath` takes URLs that do not have the form of README.md:13-14 and of its own comment at 62:
with an empty user name, password or server name, or without a path; and a port below 0, against the message at 95
("Must be between 0 and 65534", which refuses a 0). `UrlIsRead` claims of these (`Loose`) that nothing worse is taken.

### Bounds

- *Contents*: two versions, up to two units, in all combinations of "same size", "other size", "longer, with a common
  part". `BufLen` 1 or 2 (2 where a read could ask for too much): copies of several chunks, short reads. The code looks at sizes only, so longer files add
  no case.
- *Dates*: `MaxClock` 2 to 4 with `TwoHours` 2: differences below, at and above the tolerance, in both directions.
  In `sync.cfg` a source may be newer than its backup by the whole tolerance, by less, or have none.
- *Modes*: 0 (never set, 532) and two others in `copy.cfg`, where a property tells them apart; one elsewhere.
- *Slots*: 1 or 2 in place of 19: with 1, the second call after an early return meets a full table.
- *Trees*: the root with a file `f` and a folder `d` with one item `g`, beside the root a place `x`. Each is absent,
  older, newer, of another size or of another kind on each side, under all options, with and without -r, with `f` or
  `d` excluded; `g` may itself be a folder of the destination. Two entries in the root are what the cursor properties need (one deleted or restored, one after it),
  two levels are what the recursion needs.
- *Patterns*: a buffer of 3 bytes in place of 2000, files of up to six bytes: up to three
  buffers, lines that end before, at and behind a buffer's end, empty and blank lines, lines too long for it, a file
  that ends without a line end. Two letters show a torn or a joined name. Failing reads return -1, -2 or -5: the 0 falls on
  a leftover, just in front of `Buffer`, and farther from it.
- *Questions*: three in a run and three keys: one question to type at, one that is answered late, one in between;
  two halvings from a `DEFAULT_QUERY_TIMER_LENGTH` of 11 with a sleep of 2 reach the minimum of 2, over odd numbers
  and times that are no multiple of the sleep.
- *Worlds* (`MCSession`): each set varies one part in full while the others are as a backup needs them: options (every
  sequence of up to three of five letters, and odd ones), both roots (each of seven kinds), URLs (every sequence of up
  to five delimiters and words without two words in a row, and every port), logins (methods, passwords, up to two
  identities, on either side), sections of `.smbcreds` (each with or without a name and a password), and one with
  questions. The parts meet only in the two sides of a run, which `StartBackup` needs both of.
- *Runs*: unbounded in `FileSync`. Its behaviours go on until every reachable state was seen.
- `CHECK_DEADLOCK FALSE` in the tree and parser runs and in `late_answer.cfg` only: a run over a tree, the parser
  and the questions of a run end.

### Fairness

`CopyFairness` and `Fairness` are weak fairness of the program's own steps: it is one thread, and its only waits time
out. `WF_vars(Start)` says that runs are started again and again, as from cron (README.md:53-60). Nothing is assumed
of the user, of faults, of the clock, or of which answer is given. `BackupTree` has `WF_vars(Next)`: all its steps are
the program's. `Terminates` has one exception, as the code has: a folder that cannot be removed is listed, asked about
and tried again for ever (391-410). `ExcludeParser` has `WF_vars(Next)` for the same reason; `ReadingEnds` needs
`LinesFit`, and its one exception is the stale leftover of finding 5 that fills the buffer.
In `Session`, `WF_sessionVars(main)` says that the program goes on, a question included (each turn of its loop sleeps for a
fixed time), and that the shell starts the next run. `StartsInTheEnd` and `NewerIsBackedUp` assume in their statement that
failures and kills stop some day; neither failures nor keys are ever forced. Fairness is of the whole program, so none of
its choices between actions (which question a file calls for, which outcome a call has) is assumed to be made fairly.

## What is proved

All theorems hold for every value of the constants that satisfies `FilesAssumption`, `CopyAssumption`,
`SyncAssumption`, `ExcludeAssumption`, `QueryAssumption`, `PathAssumption`, `WorldAssumption`, `TreeAssumption` and `TreeShape`: any
contents, dates, buffers, number of handles, faults, options, patterns, timers, keys, command lines, URLs, servers and
trees.

| Theorem | States |
|---|---|
| `CopyType` | `CopySpec => []CopyTypeOK` |
| `CopySource` | `CopySpec => SourceOnlyRead` |
| `CopyWhole` | `CopySpec => []SuccessIsWhole` |
| `CopyPrefix` | `CopySpec => []TargetIsPrefix` |
| `CopySuccess` | `"stat" \notin Faults` gives `CopySpec => []SuccessMeansCopied` |
| `CopyImplements` | `"stat" \notin Faults` gives `CopySpec => KeepsPromise`, the refinement of `CopyPromise` |
| `SyncType` | `SyncSpec => []SyncTypeOK` |
| `SyncWhole` | `SyncSpec => []SuccessIsWhole` |
| `SyncSkipped` | `SyncSpec => []SkippedIsCopied` |
| `SyncSource` | `SyncSpec => SourceOnlyByRestore` |
| `SyncNewer` | `"stat" \notin Faults` gives `SyncSpec => NewerBackupOnlyByAnswer` |
| `SyncDeleted` | `"stat" \notin Faults` gives `SyncSpec => DeletedOnlyIfSourceGone` |
| `QueryTypeCorrect` | `QuerySpec => []QueryTypeOK` |
| `SessionSilence` | `Spec => []SilenceIsShort` (`Session`) |
| `SessionAnswers` | `Spec => OneKeyAnswers` (`Session`) |
| `SessionStarts` | `Spec => []NeverStartsHalfway` (`Session`) |
| `SessionTerminal` | `Spec => TerminalRestored` (`Session`) |
| `SessionTold` | `Spec => []RunIsAsTold` (`Session`) |
| `SessionUrl` | `Spec => []UrlIsRead` (`Session`) |
| `SessionType` | `Spec => []SessionTypeOK` (`Session`) |
| `TreeTypeCorrect` | `Spec => []TypeOK` (`BackupTree`) |
| `TreeCursor` | `Spec => []CursorIsMine` (`BackupTree`) |
| `TreeSourceKept` | `Spec => []SourceKeptUnlessAsked` (`BackupTree`) |
| `TreeRemoved` | `"stat" \notin Faults` and `Dated` give `Spec => []RemovedWithConsent` (`BackupTree`) |
| `TreeMirror` | `Unattended` (no faults, no keys, `Dated`) gives `Spec => []MirrorAtEnd` (`BackupTree`) |
| `ExcludeOutside` | `Spec => []OutsideOnlyIfReadFails` (`ExcludeParser`) |
| `ExcludeType` | `Spec => []TypeOK` (`ExcludeParser`) |
| `ExcludeNothingLost` | `Spec => []NothingLost` (`ExcludeParser`) |
| `ExcludeExact` | `Spec => []ListIsExact` (`ExcludeParser`) |

*The invariant.* Types alone are not inductive: that a handle count never goes below 0 in `Finish` needs that both
handles are open while a copy is under way, that the target is a file needs that it was created. `Underway` says this,
and that dates lie within `1..clock`; `CopyTyped` is both. In a run, `RunShape` ties `pc` to `phase` and a copy from
the destination to the answer "r": with it, `Shape` is inductive and gives `SyncType` and `SyncSource`.

*The promise.* `PrefixInv` is what the refinement needs: in the loop the target is the first `copied` units of the source
(`WrittenPrefix` carries it over a write, `PrefixGrows` is the fact about sequences), when the date is set it is the
whole source. From it each action of `CopyFile` is one of `CopyPromise`, or none (`OpenSource`, `Tick`): one lemma for
each, and `StepKeepsPromise` for all. With failing status calls the theorem does not hold: a size of 0 makes an empty copy a success.

*Whole under a race.* `SuccessIsWhole` speaks of the end of a call; `WholeSoFar` is its inductive form: in the loop the
target has `copied` units and `copied <= fSize`, after it exactly `fSize`. It needs that a read is never asked for more
than is missing (`toRead`), which is the bug that its mutant in `sync.cfg` makes. In `SyncSpec` the user
may rewrite the source during the copy (`Rewrite`): the invariant stands, because it never speaks of what the source is
now (`SyncWhole`).

*Skipped is copied.* Sizes are compared when no copy is under way, but equality of data comes from the copy. The
inductive form is `Torn`: while a copy runs the target is the first `copied` units of the source (`TargetIsRead`), and
at all times one of two sides the user left alone is a first part of the other (`OnePartOfOther`). Two such sides of
the same length are equal (`WholePrefix`). The lemmas on sequences (`PrefixGrows`, `UnitsAreUnits`) say that appending
the next units of the source to a first part of it gives a longer first part.

*Dates.* `CutIsMeant`: if a copy is about to cut a backup that is newer than its source, the user said "b". It needs
that a view is the truth (`ViewsAreTrue`, hence the assumption on `Faults`), and survives the user's hand because
whatever the user writes is as late as the clock. Finding 1 shows that the assumption cannot be dropped.

*Inside the buffer.* `BufferInv` adds to `OutsideOnlyIfReadFails`, with the bounds of leftover and `iCur`, that a read which came up to its count did not pass the end of the
file: only after such a read does the loop go on, and the next one is again of bytes that are there (`ReadFits`). The
loop over line ends at ExcludeList.cpp:101 has no bound of its own: it cannot pass `iBufSize`, since the byte there is 0
and a 0 ends no line (`LineBuffer`). This holds with a stale leftover too. What is written in front of `Buffer` is `Written`
by a read that failed: the loop does not go on after it, so it happens at most once.

*Nothing lost.* `NameInv` splits the names of the file at each moment into three: the patterns found, those of what the
buffer still holds (`Rest`), and those of what was not read. A line that ends in the buffer gives its name to the
patterns (`LineName`), the last piece of a buffer is joined to the next one (`KeepName`), and the last piece of the file
is a line too (`LastName`). That a text and its first line make the names they do (`NamesOfFirst`) is a fact about the
positions of line ends, not a recursion. Where an argument needs "the first position at which", `Least` gives it: every
set of naturals has a least member, from the library's theorem that `<` is well-founded; this is how far induction goes
without a theorem that takes an operator. `kept` excepts what finding 5 breaks, and nothing else.

*Silence.* The sum of the waits is not inductive. `TimeInv` balances it: what the unanswered questions have cost is at
most twice what has been cut off the time, plus the least time and one sleep for each (`HalvedBounds`). `OneKeyAnswers` is
not inductive either: `OneKey` says of every moment that, unless the user was `hasty`, stdin's buffer is empty and the
terminal holds no key but one of the question on the screen. To the questions a step of a run is one of theirs or the beginning of a new process
(`QuestionStep`), so both invariants carry over to `Session` (`RunInv`).

*Both doors.* `DoorInv` follows a run through `Initialize`: the destination is only begun with when the source is open,
and the root of an SSH server only looked at after a login. It survives `CreateLocal`, which changes the world, because
that run ends there. `TerminalInv` does the same for the mode of the terminal and its exit handler.

*As told.* `AsTold(opts, n)` says what the options are after the first `n` arguments: an option is set if and only if one of
them set it, and the folders are those of them that are places, in their order. `Parse` carries it from `n` to `n + 1` or
refuses (`WithTold`, from one lemma for each kind of option); after the last argument it is `RunIsAsTold`. This needs that
no place has the name of an option letter, which `WorldAssumption` says: in the code the one begins with "-".

*The URL.* `splitSshPath` walks over the URL once. `Places` and `SplitOf` say where it stands after each word and each part
with a colon. If the URL is `user password @ server port path`, as a reading has it, then it stands at the joints of that
concatenation (`WordBehind`, `PartBehind`), so it finds those parts and no error (`ReadingIsRead`); hence a URL that is
refused has no reading, not even a loose one. If it finds no error, then what it found, put together, is the URL, so there
is a loose reading of it (`WordThenRest`, `PartThenRest`, `AcceptedHasReading`). URLs of any length, where the run has up to five parts.

*The calls over a tree.* `TreeInv` has two layers. `Stacked`: each call on the stack is one its caller makes from where it
is, itself from the end of its loop, the other two functions only from the check in `BackupThis`. So only the innermost
call can be in a loop over a listing (`Mine`), and a return leads to a call that either lists again (`deleteFolder`) or
finds the cursor closed (a restore). The four ways a step treats the stack (it goes on, calls, returns, gives up) have one
lemma each (`CallMoves`, `CallMakes`, `ReturnsToCaller`, `AbortsCalls`). Of the files, `EntryChanged` says which single change
keeps every entry in a folder, and `Respected` that the source only changes with an answer "r": a restore is on the stack
only after one. That every entry is in a folder at the start is part of `TreeAssumption`. The theorems speak of any
`Parent`, so of any depth, where the runs have two levels.

*Removed with consent.* `RemovalInv` follows what is to go. A call of `deleteFolder` is for a folder that is, or is in, one
that was condemned by name (`Meant`), and its listing and its list of sub-folders stay inside (`ListedInside`,
`DoomStays`); `UpFrom`, the folders above a path, is defined by closed sets, so no depth is assumed. Whether the
check of `BackupThis` is right to condemn needs to know that what has no source now had none at the start
(`SourceStays`: the run only adds to the source), and that a date of 0 means that there is none. The code takes 0 for
"does not exist", so the theorem assumes that no status call fails (finding 1) and that nothing is dated 0 (`Dated`): a
file of 1 January 1970 is taken for missing, and its backup deleted.

*The mirror.* `MirrorAtEnd` speaks of the documentation. The proof first finds what the code leaves behind (`Expected`, of
`Condemned` and `Renewed`, in `BackupTreeMirror_proofs`), and then that outside of what is `Disputed` the two are the same
(`RenewedIsNewer`, `AsDocumented`). Both speak of the end only, and a run is seldom close to it. `MirrorInv` says of every moment that
each path of the destination is as it was or as it is to be (`NothingElse`), and that one that is not yet as it is to be
still awaits some call on the stack (`Complete`). What a call has ahead of it is a set of paths, each with all that is
below it, read off where the call is (`Ahead`): its folder when it enters; in the scan what the cursor has left, what it
has put in its list, and the items of its folder without a source; after the recursion only those of them that are to go
and are still there. That the check's cursor has passed none of these is `Checked`: it would fail if `BackupThis` went on
with `getNext` after `deleteFolder` (which is the mutant of `tree`). The callers' part of `Ahead` stays as it is or is
deleted by a call they made (`AheadStays`, `GoneBelow`); of the innermost call each step settles a path or hands it to
the call it makes (`FrameStep`, with one lemma each for the ways a step treats the stack). What a step writes is `Written`:
a path stays as it is or becomes what it is to be. Below a folder that is neither entered nor deleted nothing is to change
(`NothingExpectedBelow`), which is why a folder that cannot be entered may be passed over. `Reached` is a recursive
function, and that it satisfies its equation is proved from the least set that is closed under it (`ReachedIs`).
`TreeShape` says that every path is in `Above`, however deep, and takes the place of an induction over the tree (`AllOf`).

The attempt to prove this found the model wrong where a *link* of the destination has a file's name: it made a file
of it, which TLC had not met because no such tree was in `AutoTrees`. In the code the copy is written to where the link
leads, and the link stays (`Outcomes`, `put`). The trees of `tree` now have a link there.

*Only model-checked:* liveness (`CallReturns`, `RunEnds`, `NewerIsBackedUp`, `Terminates`, `ReadingEnds`, `StartsInTheEnd`,
`RunsEnd`), which is out of the prover's reach. Every invariant and
action property of a passing run is also a theorem.

## Not modelled

- The log, the statistics, messages and progress output: nothing in the program reads them. `CStringSink` beyond being a list.
- What libssh2, libsmbclient, glib and the C library do inside a call: a call answers or fails. The Kerberos fall-back of
  `sbf_get_auth_data_fn`, workgroups, and the server's fingerprint, which the code does not look at.
- Failures of status calls inside `BackupTree`'s runs beyond those in `Outcomes` (they are in `FileSync`'s).
- Access times, owners, what a link leads to (a link is passed over in the source and
  written through in the destination), and entries that are neither file, folder nor link. The modes of
  folders: a folder that is created is taken to let its owner in.
- Code that is not compiled: everything without `USE_AGENT_CODE`, in `#if 0` or in comments.

## Plan

1. `Files`, `CopyFile`, `FileSync` with their runs, then `BackupTree` and `ExcludeParser`, then the first theorems: done.
2. `Query` and `Session` with `SshPath`: done.
3. `KeepsPromise` as a refinement, proved step by step: done.
4. Types, `CursorIsMine` and `SourceKeptUnlessAsked` of `BackupTree`, proved for trees of any depth: done.
5. `RunIsAsTold` and `UrlIsRead` of `Session`, `NothingLost` and `ListIsExact` of the parser, and
   `RemovedWithConsent` for trees of any depth, proved: done.
6. `MirrorAtEnd`: what is still to do at each moment of a run, as a set of paths, and its proof for trees of any depth: done.
7. That the outcomes of a copy that `BackupTree` takes as one step (`Outcomes`) are those that `CopyPromise` comes to:
   stated in words above, to be made a theorem.
