\* One file over many runs, with every fault but a failing status call, and
\* the source rewritten while it is copied.
SPECIFICATION FairSpec
CONSTANTS
    Version <- MCVersion
    Absent = Absent
    Mode <- MCMode
    CreateMode = 6
    TwoHours = 2
    Data <- MCData
    BufLen = 2
    Slots <- MCSlots
    FileOptions <- AllOptions
    FolderOptions <- AllOptions
    Keys <- AllKeys
    Faults <- AllButStat
    EditWhileCopying = TRUE
    MaxClock = 3
INVARIANTS
    SyncTypeOK
    SkippedIsCopied
    SuccessIsWhole
PROPERTIES
    SourceOnlyByRestore
    NewerBackupOnlyByAnswer
    DeletedOnlyIfSourceGone
    RunEnds
    NewerIsBackedUp
