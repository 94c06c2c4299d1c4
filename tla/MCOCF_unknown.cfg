\* A Terminate for a sub-session nobody opened.
SPECIFICATION Spec
CONSTANTS
    Request = {r1, r2}
    SessionId = {s1}
    SubSessionId = {1}
    ServiceId = {1, 3}
    TariffResults = {"OCS_SUCCESS", "OCS_FAILURE"}
    PriceResults = {"OCS_SUCCESS", "OCS_FAILURE"}
    Faults = {}
    EarlyReopen = FALSE
    NULL = NULL
CHECK_DEADLOCK FALSE
PROPERTIES
    UnknownSessionIsSaid
