SPECIFICATION Spec
CONSTANTS
    Once = {q2, q3}
    Twice = {q1}
    Copy = {n1, n2}
    Key <- MCKeys
    KV <- MCPairs
    KeyOf <- MCKeyOf
    NoKV = NoKV
    cell_layer = 2
    cell_number <- MCCells12
    cell_hash = 4
    N = 2
    Page = 1
    Hashes <- MCTwoGuides
    LazyModes = {TRUE, FALSE}
    MaxBuckets = 8
SYMMETRY MCSymmetry
INVARIANTS TypeOK NothingLost CollectsLiveOnly IInv WalksTakeAll BitmapsTurn
PROPERTIES ClosedForEver OthersStay Refinement
