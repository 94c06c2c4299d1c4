\* Clients reopen a sub-session only when its former life left no response
\* behind.  Everything around the handlers may fail, but memory is safe.
SPECIFICATION Spec
CONSTANTS
    Request = {r1, r2, r3, r4}
    SessionId = {s1}
    SubSessionId = {1}
    ServiceId = {1, 3}
    TariffResults = {"OCS_SUCCESS", "OCS_FAILURE"}
    PriceResults = {"OCS_SUCCESS", "OCS_FAILURE"}
    Faults = {"extract", "memory", "event", "send", "append", "loss"}
    EarlyReopen = FALSE
    NULL = NULL
SYMMETRY Symmetry
CHECK_DEADLOCK FALSE
INVARIANTS
    TypeOK
    ResponseFindsItsRequest
    OneRatingPerSubSession
    AtMostOneAnswer
    AnswerOfOwnRating
    MisreadOnlyAfterServiceSwitch
    NeverCrashes
