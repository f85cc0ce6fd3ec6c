\* A status call on the source fails: option -d deletes the backup of a file
\* that is there.
SPECIFICATION SyncSpec
CONSTANTS
    Version <- MCVersion
    Absent = Absent
    Mode <- MCMode
    CreateMode = 6
    TwoHours = 2
    Data <- MCData
    BufLen = 1
    Slots <- MCSlots
    FileOptions <- AllOptions
    FolderOptions <- AllOptions
    Keys <- NoKeys
    Faults <- AnswersLost
    EditWhileCopying = FALSE
    MaxClock = 3
PROPERTIES
    DeletedOnlyIfSourceGone
