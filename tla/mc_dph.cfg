SPECIFICATION FairSpec
CONSTANTS
    Key = {1, 2, 3, 4}
    DELETED = 0
    c = 1
    SM = 1
    MinCount = 2
    Quadratic = 4
    Linear = 4
    TopHashes <- MCTop
    SubHashes <- MCSub
    Heap = {4}
    Deletes = TRUE
    MaxLate = 1
INVARIANTS Exact SpaceBound
PROPERTIES OperationsReturn
