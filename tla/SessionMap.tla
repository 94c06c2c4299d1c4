----------------------------- MODULE SessionMap -----------------------------
(***************************************************************************)
(* What the session table is to the handlers of the OCF: a map from        *)
(* Session-Id and CC-Sub-Session-Id to sub-session objects, and the        *)
(* Session-Ids under which a removal left a freed session object behind.   *)
(***************************************************************************)
CONSTANTS
    SessionId,      \* values of the Session-Id AVP
    SubSessionId,   \* values of the CC-Sub-Session-Id AVP
    Faults,         \* what may go wrong, see AllFaults of module OCF
    NULL            \* the null pointer

VARIABLES
    sub,       \* hSessionTable: the sub-session object of each key, or NULL
    dangling   \* Session-Ids whose hash entry points to a freed session object

Key == SessionId \X SubSessionId

mapVars == <<sub, dangling>>

EmptyMap == sub = [k \in Key |-> NULL] /\ dangling = {}

\* No other sub-session of the session is left, so unSubSessionCount drops to 0,
\* unless it counts one that the list could not take.
LastOfSession(k) == \A j \in Key : j[1] = k[1] /\ j # k => sub[j] = NULL

\* OCF_InsertSubSessionObject with a new object that the session's list takes.
InsertSubSession(k, o) ==
    /\ sub[k] = NULL
    /\ sub' = [sub EXCEPT ![k] = o]
    /\ UNCHANGED dangling

\* OCF_RemoveSubSessionObject called with a key that outlives the object.
RemoveSubSession(k) ==
    /\ sub' = [sub EXCEPT ![k] = NULL]
    /\ dangling' = IF LastOfSession(k) THEN dangling \ {k[1]} ELSE dangling

\* ... and called with the Session-Id stored in the object it frees: when the
\* freed key no longer matches, the hash entry survives its session object.
RemoveSubSessionByOwnId(k) ==
    \/ RemoveSubSession(k)
    \/ /\ "freedKey" \in Faults
       /\ LastOfSession(k)
       /\ sub' = [sub EXCEPT ![k] = NULL]
       /\ dangling' = dangling \cup {k[1]}

\* A step of the table: a handler never gets at a session that was freed.
MapNext(Object) ==
    \E k \in Key :
        /\ k[1] \notin dangling
        /\ \/ \E o \in Object : InsertSubSession(k, o)
           \/ RemoveSubSessionByOwnId(k)
=============================================================================
