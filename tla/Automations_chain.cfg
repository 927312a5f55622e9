SPECIFICATION Spec
CONSTANTS
    s1 = s1
    s2 = s2
    s3 = s3
    t1 = t1
    t2 = t2
    a1 = a1
    a2 = a2
    Steps = {s1, s2, s3}
    Bodies <- TwoChains
    Automations = {a1, a2}
    Triggers = {t1}
    AutomationOf <- OneAutomation
    ContactOf <- OneContact
    Contacts = {1, 2, 3}
    BatchSize = 2
    NumWorkers = 2
    MaxStalled = 1
    None = None
CHECK_DEADLOCK FALSE
INVARIANTS
    ForkNeedsOverlap
    AnnouncedIsQueued
    RepeatNeedsLoss
    PendingQueuedOnce
PROPERTIES
    OnlyUncommittedRun
