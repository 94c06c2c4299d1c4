\* The database may fail, the event system and the OCF's answers do not.
SPECIFICATION FairSpec
CONSTANTS
    Request = {r1, r2}
    SessionId = {s1}
    SubSessionId = {1}
    ServiceId = {1, 3}
    Thread = {t1, t2}
    Faults = {"call", "select"}
    EarlyReopen = FALSE
    NULL = NULL
CHECK_DEADLOCK FALSE
PROPERTIES
    EveryRequestSettles
    EveryRequestIsRated
