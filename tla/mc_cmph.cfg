SPECIFICATION Spec
CONSTANTS
    Sources <- MCSources
    Limit = 2
    Word = 65536
    Log2 <- MCLog2
    STEP_SELECT_TABLE = 2
INVARIANTS TypeOK Perfect DefinedElsewhere
PROPERTIES AnswersKept AttemptsJudged Terminates
