SPECIFICATION SafeSpec
CONSTANTS
    c1 = c1
    c2 = c2
    c3 = c3
    r1 = r1
    r2 = r2
    r3 = r3
    a1 = a1
    a2 = a2
    Requests = {r1}
    Contacts = {c1}
    Audiences = {a1}
    HomeOf <- AllInOneAudience
    Steady = {c1}
    BatchSize = 1
    Attempts = 2
    NumWorkers = 1
    MaxStalled = 1
CHECK_DEADLOCK FALSE
INVARIANTS
    MailsBounded
    GivenUpWhenExhausted
    DeleteStopsSending
PROPERTIES
    SettledIsFinal
    RunsDown
