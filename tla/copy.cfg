\* CopyFileToDest alone: every fault the function looks at, calls in
\* either direction, a user who edits between the calls.
SPECIFICATION CopySpec
CONSTANTS
    Version <- MCVersion
    Absent = Absent
    Mode <- MCMode
    CreateMode = 6
    TwoHours = 2
    Faults <- Reported
    Data <- MCData
    BufLen = 2
    Slots <- MCSlots
    MaxClock = 2
INVARIANTS
    CopyTypeOK
    TargetIsPrefix
    SuccessMeansCopied
PROPERTIES
    SourceOnlyRead
    CallReturns
    KeepsPromise
