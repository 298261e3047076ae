SPECIFICATION Spec
CONSTANTS
    NoHash = NoHash
    k_ = 4
    Key <- MCKey
    DefaultKey = 0
    Data = {0, 1}
    DefaultData = 0
    Hash <- MCHash
    Hashes <- MCHashes
    MinPack = 2
    MaxCells = 10
CHECK_DEADLOCK FALSE
INVARIANTS FindExact OneCellEach StopsOnlyWhen
PROPERTIES Refinement
