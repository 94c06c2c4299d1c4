\* Only answers fail to be sent, and no rating is turned down.
SPECIFICATION Spec
CONSTANTS
    Request = {r1, r2}
    SessionId = {s1}
    SubSessionId = {1}
    ServiceId = {1, 3}
    TariffResults = {"OCS_SUCCESS"}
    PriceResults = {"OCS_SUCCESS"}
    Faults = {"send"}
    EarlyReopen = FALSE
    NULL = NULL
SYMMETRY Symmetry
CHECK_DEADLOCK FALSE
INVARIANTS
    IdleSessionsAwaitRating
