\* Whole runs, from the command line to the end.
SPECIFICATION Spec
CONSTANTS
    DEFAULT_QUERY_TIMER_LENGTH = 11
    MIN_QUERY_TIMER_LENGTH = 2
    SleepLen = 2
    MaxQuestions = 3
    MaxKeys = 3
    Word <- MCWord
    PortOf <- MCPortOf
    World <- MCWorld
INVARIANTS
    SessionTypeOK
    RunIsAsTold
    NeverStartsHalfway
    UrlIsRead
    SilenceIsShort
PROPERTIES
    OneKeyAnswers
    TerminalRestored
    StartsInTheEnd
    RunsEnd
