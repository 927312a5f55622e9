SPECIFICATION SafeSpec
CONSTANTS
    c1 = c1
    c2 = c2
    c3 = c3
    r1 = r1
    r2 = r2
    r3 = r3
    a1 = a1
    a2 = a2
    Requests = {r1, r2}
    Contacts = {}
    Audiences = {a1, a2}
    HomeOf <- AllInOneAudience
    Steady = {}
    BatchSize = 1
    Attempts = 1
    NumWorkers = 1
    MaxStalled = 1
SYMMETRY RequestSymmetry
CHECK_DEADLOCK FALSE
INVARIANTS
    AcceptedIsQueued
    DoubleSendNeedsRace
