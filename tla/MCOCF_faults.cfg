\* Every fault at once, two sub-sessions that share a session.
SPECIFICATION Spec
CONSTANTS
    Request = {r1, r2, r3}
    SessionId = {s1}
    SubSessionId = {1, 2}
    ServiceId = {1, 3}
    TariffResults = {"OCS_SUCCESS", "OCS_FAILURE"}
    PriceResults = {"OCS_SUCCESS", "OCS_FAILURE"}
    Faults = {"extract", "memory", "event", "send", "append", "loss", "row",
              "freedKey", "uninit"}
    EarlyReopen = TRUE
    NULL = NULL
SYMMETRY Symmetry
CHECK_DEADLOCK FALSE
INVARIANTS
    TimersPointToLiveSessions
    FreeSessionsAreTimed
PROPERTIES
    ProgressIsNotDisplaced
