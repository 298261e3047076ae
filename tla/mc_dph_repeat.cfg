SPECIFICATION FairSpec
CONSTANTS
    Key = {1, 2, 3}
    DELETED = 0
    c = 1
    SM = 1
    MinCount = 2
    Quadratic = 4
    Linear = 4
    TopHashes <- MCTop
    SubHashes <- MCSub
    Heap = {}
    Deletes = FALSE
    MaxLate = 1
PROPERTIES LoopsEnd
