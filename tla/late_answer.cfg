\* A key typed as one question times out answers the next one.
SPECIFICATION QuerySpec
CONSTANTS
    DEFAULT_QUERY_TIMER_LENGTH = 11
    MIN_QUERY_TIMER_LENGTH = 2
    SleepLen = 2
    MaxQuestions = 3
    MaxKeys = 3
\* The run has no more questions.
CHECK_DEADLOCK FALSE
PROPERTIES
    AnswerIsToThisQuestion
