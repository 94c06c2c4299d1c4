\* Two requests, each with any of 20 contents, and answers from which any of 7
\* sets of AVPs is missing.  Strings hold two octets, a request
\* two services, a service one report.
SPECIFICATION ChargingSpec
CONSTANTS
    Request = {r1, r2}
    Wire <- MCWire
    AVP <- MCAVP
    Losses <- MCLosses
    SessionId <- MCSessionId
    SubSessionId <- MCSubSessionId
    ServiceId <- MCServiceId
    TariffResults = {"OCS_SUCCESS", "OCS_FAILURE"}
    PriceResults = {"OCS_SUCCESS"}
    EarlyReopen = FALSE
    TariffQuota <- MCQuota
    Faults = {"event", "send", "loss"}
    OCS_MAX_FIXED_LEN_UTF8STRING_SIZE = 3
    OCS_MAX_MULTI_SERVICE_CC = 2
    OCS_MAX_USED_SERVICE_UNIT = 1
    MaxUnsigned = 255
    NULL = NULL
SYMMETRY Symmetry
CHECK_DEADLOCK FALSE
INVARIANTS
    TheLastValueCounts
    ArraysTakeTheFirst
    KeysTellSessionsApart
    AnswersEchoTheirRequest
    AnsweredServiceWasRated
    GrantsSurviveTheWire
    EventsDoWhatTheyAsk
    RefusalsGrantNothing
