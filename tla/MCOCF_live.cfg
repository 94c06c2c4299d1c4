\* Nothing fails and the scheduler is fair; responses of both results, in any order.
SPECIFICATION FairSpec
CONSTANTS
    Request = {r1, r2, r3}
    SessionId = {s1}
    SubSessionId = {1}
    ServiceId = {1, 3}
    TariffResults = {"OCS_SUCCESS", "OCS_FAILURE"}
    PriceResults = {"OCS_SUCCESS", "OCS_FAILURE"}
    Faults = {}
    EarlyReopen = FALSE
    NULL = NULL
CHECK_DEADLOCK FALSE
INVARIANTS
    OnlyTurnedDownRequestsStick
PROPERTIES
    EveryRequestSettles
    OpenSessionsEnd
