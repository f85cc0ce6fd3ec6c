\* One unattended run without faults, from every pair of small trees and with
\* every option: the destination it leaves.
SPECIFICATION Spec
CONSTANTS
    Version <- MCVersion
    Absent = Absent
    Mode <- MCMode
    CreateMode = 6
    TwoHours = 2
    Faults <- NoFaults
    Node <- MCNode
    Root = "root"
    Above = "above"
    Parent <- MCParent
    Trees <- AutoTrees
    Options <- AutoOptions
    Keys <- NoKeys
    Now = 5
    MaxPath = 2
\* The run ends.
CHECK_DEADLOCK FALSE
INVARIANTS
    MirrorAtEnd
PROPERTIES
    Terminates
