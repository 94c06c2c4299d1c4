---------------------------- MODULE SessionTable ----------------------------
(***************************************************************************)
(* The session table (src/src/ocf/ocf_session.c): a hash table of session  *)
(* objects, each with a list of sub-session objects and a count of them.   *)
(*                                                                         *)
(* A sub-session object is its address and its CC-Sub-Session-Id; what the *)
(* handlers keep in it is in module OCF.                                   *)
(***************************************************************************)
EXTENDS Naturals, Sequences, SequencesExt

CONSTANTS SessionId, SubSessionId, Faults, NULL,   \* see SessionMap
          Object   \* addresses of sub-session objects

VARIABLES
    hSessionTable,   \* the hash table: the session object of each Session-Id
    allocated,       \* the sub-session objects that are allocated
    leaked           \* ... and those of them that no list got to hold

vars == <<hSessionTable, allocated, leaked>>

SubSession == [object: Object, ullCCSubSessionId: SubSessionId]

\* t_OCSSessionObjet; unlisted: how many sub-sessions were counted although the
\* list could not take them; freed: whether its memory was given back.
Session == [poSubSessionList: Seq(SubSession), unSubSessionCount: Nat,
            unlisted: Nat, freed: BOOLEAN]

NewSession ==
    [poSubSessionList |-> <<>>, unSubSessionCount |-> 0, unlisted |-> 0, freed |-> FALSE]

ASSUME SessionTableAssumption == NULL \notin Session \cup Object

TypeOK ==
    /\ hSessionTable \in [SessionId -> Session \cup {NULL}]
    /\ allocated \subseteq Object
    /\ leaked \subseteq Object

Init ==
    /\ hSessionTable = [s \in SessionId |-> NULL]
    /\ allocated = {}
    /\ leaked = {}
----------------------------------------------------------------------------
(* Operations *)

\* The places of a list that hold a sub-session with the given id.
Places(list, id) == {i \in DOMAIN list : list[i].ullCCSubSessionId = id}

\* The search that OCF_InsertSubSessionObject leaves out.
Nowhere(list, id) == {}

\* The walk over the list that comes before an insertion.
Taken(list, id) == Places(list, id)

\* OCF_LookUpSubSessionObject: the first match.
OCF_LookUpSubSessionObject(s, id) ==
    LET session == hSessionTable[s]
        matches == IF session = NULL THEN {} ELSE Places(session.poSubSessionList, id)
    IN IF matches = {} THEN NULL
       ELSE session.poSubSessionList[CHOOSE i \in matches : \A j \in matches : i <= j].object

\* A session object that is freed is still found; what happens then is module
\* OCF's crash, so here no operation touches it.
Usable(s) == hSessionTable[s] # NULL => ~hSessionTable[s].freed

\* A counter that is not kept.
Uncounted(session, x) ==
    [session EXCEPT !.poSubSessionList = Append(@, x)]

Appended(session, x) ==
    [session EXCEPT !.poSubSessionList = Append(@, x), !.unSubSessionCount = @ + 1]

\* The list cannot take the object, which nobody notices.
Unlisted(session) ==
    [session EXCEPT !.unSubSessionCount = @ + 1, !.unlisted = @ + 1]

\* OCF_InsertSubSessionObject of an object the caller just created; on failure
\* the caller frees the object.  The result of DMBase_AppendSList is ignored.
OCF_InsertSubSessionObject(s, id, o) ==
    LET session == IF hSessionTable[s] = NULL THEN NewSession ELSE hSessionTable[s]
    IN /\ Usable(s)
       /\ o \notin allocated
       /\ \/ /\ Taken(session.poSubSessionList, id) = {}
             /\ hSessionTable' = [hSessionTable EXCEPT ![s] =
                    Appended(session, [object |-> o, ullCCSubSessionId |-> id])]
             /\ allocated' = allocated \cup {o}
             /\ UNCHANGED leaked
          \/ /\ Taken(session.poSubSessionList, id) = {}
             /\ "append" \in Faults
             /\ hSessionTable' = [hSessionTable EXCEPT ![s] = Unlisted(session)]
             /\ allocated' = allocated \cup {o}
             /\ leaked' = leaked \cup {o}
          \/ /\ Taken(session.poSubSessionList, id) # {}
             /\ UNCHANGED vars

\* No memory for a new session object, or no room for it in the hash table.
InsertionFails(s) ==
    /\ "memory" \in Faults
    /\ hSessionTable[s] = NULL
    /\ UNCHANGED vars

\* The list loses its first node, wherever the search stopped.
WithoutFirst(session, i) ==
    [session EXCEPT !.poSubSessionList = Tail(@), !.unSubSessionCount = @ - 1]

\* The session without the sub-session at place i of its list.
WithoutPlace(session, i) ==
    [session EXCEPT !.poSubSessionList = RemoveAt(@, i), !.unSubSessionCount = @ - 1]

\* A removal that keeps empty sessions.
KeepsEmpty(session) == FALSE

Emptied(session) == session.unSubSessionCount = 0

\* OCF_RemoveSubSessionObject.  When the caller passed the Session-Id of the
\* object that is freed here, the hash entry may not be found any more.
OCF_RemoveSubSessionObject(s, id, ownId) ==
    /\ Usable(s)
    /\ hSessionTable[s] # NULL
    /\ UNCHANGED leaked
    /\ \E i \in Places(hSessionTable[s].poSubSessionList, id) :
          LET session == WithoutPlace(hSessionTable[s], i)
          IN /\ allocated' = allocated \ {hSessionTable[s].poSubSessionList[i].object}
             /\ \A j \in Places(hSessionTable[s].poSubSessionList, id) : i <= j
             /\ \/ /\ ~Emptied(session)
                   /\ hSessionTable' = [hSessionTable EXCEPT ![s] = session]
                \/ /\ Emptied(session)
                   /\ hSessionTable' = [hSessionTable EXCEPT ![s] = NULL]
                \/ /\ Emptied(session)
                   /\ ownId /\ "freedKey" \in Faults
                   /\ hSessionTable' = [hSessionTable EXCEPT ![s] =
                          [session EXCEPT !.freed = TRUE]]

Next ==
    \E s \in SessionId :
        \/ \E id \in SubSessionId :
              \/ \E o \in Object : OCF_InsertSubSessionObject(s, id, o)
              \/ \E ownId \in BOOLEAN : OCF_RemoveSubSessionObject(s, id, ownId)
        \/ InsertionFails(s)

Spec == Init /\ [][Next]_vars
----------------------------------------------------------------------------
(* Properties *)

\* The count of a session is the length of its list and the number of sub-sessions
\* the list could not take, and is not zero: freeing on count zero never frees a
\* session that is still in use, and frees too late only one to which a failed
\* DMBase_AppendSList was counted (ocf_session.c:66-80, 206-221).
CountsAreRight ==
    \A s \in SessionId : hSessionTable[s] # NULL /\ ~hSessionTable[s].freed =>
        LET session == hSessionTable[s]
        IN /\ session.unSubSessionCount = Len(session.poSubSessionList) + session.unlisted
           /\ session.unSubSessionCount > 0

\* The places of the list of s, and the object in one of them.
Nodes(s) ==
    IF hSessionTable[s] = NULL THEN {} ELSE DOMAIN hSessionTable[s].poSubSessionList

ObjectAt(s, i) == hSessionTable[s].poSubSessionList[i].object

\* Every allocated sub-session object is in exactly one list, once, or in none
\* because DMBase_AppendSList failed on it; every object in a list is allocated:
\* no other object is leaked and none is freed early (ocf_session.c:66-80, 140-221).
ObjectsAreListedOnce ==
    /\ \A o \in Object \ leaked :
          o \in allocated <=> \E s \in SessionId : \E i \in Nodes(s) : ObjectAt(s, i) = o
    /\ \A s \in SessionId : \A i \in Nodes(s) : ObjectAt(s, i) \notin leaked
    /\ leaked \subseteq allocated
    /\ \A s, u \in SessionId : \A i \in Nodes(s), j \in Nodes(u) :
          ObjectAt(s, i) = ObjectAt(u, j) => s = u /\ i = j

\* The table is the map the handlers take it for (module SessionMap).
Map == INSTANCE SessionMap WITH
    sub <- [k \in SessionId \X SubSessionId |-> OCF_LookUpSubSessionObject(k[1], k[2])],
    dangling <- {s \in SessionId : hSessionTable[s] # NULL /\ hSessionTable[s].freed}

IsAMap ==
    Map!EmptyMap /\ [][Map!MapNext(Object)]_(Map!mapVars)
=============================================================================
