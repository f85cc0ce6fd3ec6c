\* A buffer that ends in a complete line leaves iLeftover as it was: old bytes
\* are put before the next name, and here leave no room for all of it, so that
\* the constructor reads nothing for ever.
SPECIFICATION Spec
CONSTANTS
    Char <- MCChar
    EOL <- MCEOL
    Blank <- MCBlank
    NUL = NUL
    Cap = 3
    Texts <- NamesOfTwo
    Failing <- NoneFailing
    ReadErrors <- MCReadErrors
\* The parser ends.
CHECK_DEADLOCK FALSE
PROPERTIES
    NamesAreExcluded
