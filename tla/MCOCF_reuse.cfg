\* Clients may open a sub-session again at any time; every fault but a failing event system.
SPECIFICATION Spec
CONSTANTS
    Request = {r1, r2, r3, r4}
    SessionId = {s1}
    SubSessionId = {1}
    ServiceId = {1, 3}
    TariffResults = {"OCS_SUCCESS", "OCS_FAILURE"}
    PriceResults = {"OCS_SUCCESS", "OCS_FAILURE"}
    Faults = {"extract", "memory", "send", "append", "loss", "row", "freedKey", "uninit"}
    EarlyReopen = TRUE
    NULL = NULL
SYMMETRY Symmetry
CHECK_DEADLOCK FALSE
INVARIANTS
    GrantIsFinal
    AnswersReachTheAsker
