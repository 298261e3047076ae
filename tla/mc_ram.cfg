SPECIFICATION FairSpec
CONSTANTS
    Addr = {0, 1, 4}
    Value = {0, 1}
    None = None
    Size2 = 2
    Size1 = 4
INVARIANTS AnswersRequest
PROPERTIES WritesAsAsked RequestsAnswered Refinement
