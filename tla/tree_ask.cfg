\* One run with faults and a user who answers anything: what it may delete and
\* restore, and that it ends.
SPECIFICATION Spec
CONSTANTS
    Version <- MCVersion
    Absent = Absent
    Mode <- MCMode
    CreateMode = 6
    TwoHours = 2
    Faults <- AllFaults
    Node <- MCNode
    Root = "root"
    Above = "above"
    Parent <- MCParent
    Trees <- AskTrees
    Options <- AskOptions
    Keys <- AllKeys
    Now = 5
    MaxPath = 2
\* The run ends.
CHECK_DEADLOCK FALSE
INVARIANTS
    TypeOK
    CursorIsMine
    RemovedWithConsent
    SourceKeptUnlessAsked
PROPERTIES
    Terminates
