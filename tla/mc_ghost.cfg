SPECIFICATION Spec
CONSTANTS
    Once = {q1, q2, q3, q4}
    Twice = {}
    Copy = {}
    Key <- MCKeys
    KV <- MCPairs
    KeyOf <- MCKeyOf
    NoKV = NoKV
    cell_layer = 2
    cell_number <- MCCells11
    cell_hash = 4
    N = 1
    Page = 1
    Hashes <- MCHashes
    LazyModes = {TRUE}
    MaxBuckets = 8
SYMMETRY MCSymmetry
INVARIANTS CountIsItems
