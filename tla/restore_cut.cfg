\* A restore cut short by a failing write is followed by a run that copies what
\* it left over the backup.
SPECIFICATION SyncSpec
CONSTANTS
    Version <- MCVersion
    Absent = Absent
    Mode <- MCMode
    CreateMode = 6
    TwoHours = 2
    Data <- MCData
    BufLen = 1
    Slots <- MCSlots
    FileOptions <- AllOptions
    FolderOptions <- AllOptions
    Keys <- AllKeys
    Faults <- WriteFault
    EditWhileCopying = FALSE
    MaxClock = 3
INVARIANTS
    RestoreKeepsBackup
