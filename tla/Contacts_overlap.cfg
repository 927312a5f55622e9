SPECIFICATION Spec
CONSTANTS
    e1 = e1
    e2 = e2
    a1 = a1
    a2 = a2
    t1 = t1
    t2 = t2
    t3 = t3
    n1 = n1
    n2 = n2
    r1 = r1
    r2 = r2
    r3 = r3
    i1 = i1
    w1 = w1
    w2 = w2
    Emails = {e1, e2}
    Attributes = {a1, a2}
    Tags = {t1, t2, t3}
    Names = {n1, n2}
    NameOf <- SecondNameTwice
    Filters <- TwoSegments
    PerPage = 1
    Requests = {r1, r2, r3}
    Imports = {i1}
    Files <- ThreeFiles
    Payloads <- FourSettings
    Columns = {a1}
    Workers = {w1, w2}
    MaxStalls = 1
    Existing = {e1}
    Given = {t1}
    None = None
SYMMETRY RequestSymmetry
CHECK_DEADLOCK FALSE
INVARIANTS
    UpdatesKept
    AttachedStays
    ErrorNeedsOverlap
    PageIsWhole
    ProcessingHasRun
PROPERTIES
    SuccessIsWhole
