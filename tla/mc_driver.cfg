SPECIFICATION FairSpec
CONSTANTS
    KV_NUM = 4
    testcycles = 2
    Limit = 2
    NoKV = NoKV
INVARIANTS ExpandedLoadToLimit QueriesSeeLosses OnlyOneRepeated
PROPERTIES Ends
CHECK_DEADLOCK FALSE
