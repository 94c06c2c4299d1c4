\* Two requests, two threads and every failure of the start.  The process may
\* end, and requests may stay at events nobody registered for.
SPECIFICATION FairSpec
CONSTANTS
    Request = {r1, r2}
    Thread = {t1, t2}
    Faults = {"main", "register", "table", "agents", "context", "connect",
              "queries", "undefined"}
    NULL = NULL
CHECK_DEADLOCK FALSE
INVARIANTS
    RatedRequestsCanBeAnswered
    NoTariffWithoutTheDatabase
PROPERTIES
    LoadedServersAnswer
