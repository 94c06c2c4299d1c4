\* Three requests of one sub-session, opened again at any time, on two database threads.
\* Verdicts can be read.
SPECIFICATION Spec
CONSTANTS
    Request = {r1, r2, r3}
    SessionId = {s1}
    SubSessionId = {1}
    ServiceId = {1, 3}
    Thread = {t1, t2}
    Faults = {"memory", "event", "send", "append", "call", "row", "uninit"}
    EarlyReopen = TRUE
    NULL = NULL
SYMMETRY Symmetry
CHECK_DEADLOCK FALSE
INVARIANTS
    AnswersFollowTheVerdict
PROPERTIES
    ImplementsOCF
