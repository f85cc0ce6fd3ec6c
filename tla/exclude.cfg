\* The parser of .ztexclude, with every file of up to six bytes and every failure.
SPECIFICATION Spec
CONSTANTS
    Char <- MCChar
    EOL <- MCEOL
    Blank <- MCBlank
    NUL = NUL
    Cap = 3
    Texts <- SixBytes
    Failing <- AllFailing
    ReadErrors <- MCReadErrors
\* The parser ends.
CHECK_DEADLOCK FALSE
INVARIANTS
    TypeOK
    OutsideOnlyIfReadFails
    NothingLost
    ListIsExact
PROPERTIES
    ReadingEnds
