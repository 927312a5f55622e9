SPECIFICATION Spec
CONSTANTS
    d1 = d1
    d2 = d2
    n1 = n1
    k1 = k1
    w1 = w1
    Keys = {k1}
    Domains = {d1, d2}
    Names = {n1}
    NameOf <- OneName
    Workers = {w1}
    MaxStalls = 1
    None = None
CHECK_DEADLOCK FALSE
INVARIANTS
    KeysAgree
    SignsWithRow
    ChainEndsVerified
PROPERTIES
    MarkedAfterLookup
    CheckedUntilVerified
