SPECIFICATION Spec
CONSTANTS
    c1 = c1
    c2 = c2
    c3 = c3
    r1 = r1
    r2 = r2
    r3 = r3
    a1 = a1
    a2 = a2
    Requests = {r1}
    Contacts = {c1, c2, c3}
    Audiences = {a1}
    HomeOf <- AllInOneAudience
    Steady = {c1, c2, c3}
    BatchSize = 1
    Attempts = 1
    NumWorkers = 1
    MaxStalled = 0
CHECK_DEADLOCK FALSE
INVARIANTS
    EveryContactQueued
