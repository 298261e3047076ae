SPECIFICATION Spec
CONSTANTS
    k1 = k1
    k2 = k2
    Key <- MCKeys
    NoKey = NoKey
    None = None
    Value = {0, 15}
    cell_full = 15
    Addr1 = {0, 1}
    Addr2 = {0}
    Addr3 = {0}
    Hash_add1 <- MCTwo
    Hash_add2 <- MCOne
    Hash_add3 <- MCOne
    ResetClocks = 3
    Nets = {"low"}
INVARIANTS ResultComesOut
