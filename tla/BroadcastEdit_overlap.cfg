SPECIFICATION Spec
CONSTANTS
    u1 = u1
    u2 = u2
    u3 = u3
    Updates = {u1, u2, u3}
    Bodies <- ThreeBodies
    MaxNew = 1
    Hundred = 5
    None = None
SYMMETRY UpdateSymmetry
CHECK_DEADLOCK FALSE
INVARIANTS
    NoOrphanWhenAlone
    AcknowledgedStays
    AbTestStays
