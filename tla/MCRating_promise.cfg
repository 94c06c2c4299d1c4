\* Three requests at a time on two database threads, everything may fail.
SPECIFICATION Spec
CONSTANTS
    Request = {r1, r2, r3}
    Thread = {t1, t2}
    Faults = {"loss", "call", "select", "row"}
    NULL = NULL
SYMMETRY Symmetry
INVARIANTS
    TypeOK
    RequestsAreNotDuplicated
    VerdictsAreNotMixedUp
PROPERTIES
    KeepsThePromise
