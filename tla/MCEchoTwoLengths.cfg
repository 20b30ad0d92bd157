SPECIFICATION Spec
CONSTANTS
    Streams <- TwoLengths
    HeadLen = 2
    BufLen = 6
INVARIANTS
    AnswersExact
CHECK_DEADLOCK FALSE
