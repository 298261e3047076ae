SPECIFICATION Spec
CONSTANTS
    Sources <- MCSources
    Limit = 2
    MAX_BUCKET_SIZE = 4
    NoKey = NoKey
    Word = 65536
    Log2 <- MCLog2
INVARIANTS TypeOK BucketsWhole Perfect DefinedElsewhere
PROPERTIES AnswersKept Terminates
