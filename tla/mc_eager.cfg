SPECIFICATION FairSpec
CONSTANTS
    Once = {q1, q2, q3}
    Twice = {}
    Copy = {}
    Key <- MCKeys
    KV <- MCPairs
    KeyOf <- MCKeyOf
    NoKV = NoKV
    cell_layer = 3
    cell_number <- MCCells211
    cell_hash = 4
    N = 1
    Page = 1
    Hashes <- MCTwoGuides
    LazyModes = {FALSE}
    MaxBuckets = 16
INVARIANTS SlotsExact
PROPERTIES InsertReturns
