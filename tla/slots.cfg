\* The handles lost by failed copies add up, until creating a file fails after
\* the server has cut it.
SPECIFICATION CopySpec
CONSTANTS
    Version <- MCVersion
    Absent = Absent
    Mode <- MCMode
    CreateMode = 6
    TwoHours = 2
    Faults <- ReadFault
    Data <- MCData
    BufLen = 2
    Slots <- MCSlots
    MaxClock = 2
PROPERTIES
    RefusalKeepsTarget
