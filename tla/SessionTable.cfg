\* Two sessions of up to three sub-sessions.  Once both session objects are freed
\* and still in the hash table, nothing can be done: the next use crashes.
SPECIFICATION Spec
CONSTANTS
    SessionId = {s1, s2}
    SubSessionId = {i1, i2, i3}
    Object = {o1, o2, o3, o4}
    Faults = {"memory", "append", "freedKey"}
    NULL = NULL
CHECK_DEADLOCK FALSE
INVARIANTS
    TypeOK
    CountsAreRight
    ObjectsAreListedOnce
PROPERTIES
    IsAMap
