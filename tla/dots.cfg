\* A folder is restored: the restore goes on to the folders that "." and ".." name,
\* and overwrites a file of the source nobody was asked about.
SPECIFICATION Spec
CONSTANTS
    Version <- MCVersion
    Absent = Absent
    Mode <- MCMode
    CreateMode = 6
    TwoHours = 2
    Faults <- NoFaults
    Node <- MCNode
    Root = "root"
    Above = "above"
    Parent <- MCParent
    Trees <- DotTrees
    Options <- AskOptions
    Keys <- AllKeys
    Now = 5
    MaxPath = 2
\* The run ends.
CHECK_DEADLOCK FALSE
INVARIANTS
    RestoreStaysInside
