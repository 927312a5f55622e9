SPECIFICATION Spec
CONSTANTS
    t1 = t1
    t2 = t2
    t3 = t3
    p1 = p1
    p2 = p2
    Transactional = {t1, t2, t3}
    Plain = {p1, p2}
    NumWrites = 2
SYMMETRY SessionSymmetry
CHECK_DEADLOCK FALSE
INVARIANTS
    AtomicWhenAlone
    LossNeedsRollback
