------------------------- MODULE SessionTable_proofs -------------------------
(***************************************************************************)
(* Proofs about the session table, for any numbers of sessions,            *)
(* sub-sessions and objects, and whatever memory fails: the counts match   *)
(* the lists and what the lists could not take, and the table is the map   *)
(* its callers take it for.                                                *)
(***************************************************************************)
EXTENDS SessionTable, SequenceTheorems, TLAPS

-----------------------------------------------------------------------------
(* Lists *)

\* Removing the element at place i moves those behind it one place ahead.
LEMMA RemoveAtProperties ==
    ASSUME NEW S, NEW list \in Seq(S), NEW i \in 1..Len(list)
    PROVE  /\ RemoveAt(list, i) \in Seq(S)
           /\ Len(RemoveAt(list, i)) = Len(list) - 1
           /\ \A j \in 1..(Len(list) - 1) :
                 RemoveAt(list, i)[j] = IF j < i THEN list[j] ELSE list[j + 1]
<1>. DEFINE front == SubSeq(list, 1, i - 1)
            back  == SubSeq(list, i + 1, Len(list))
<1>1. Len(list) \in Nat
  OBVIOUS
<1>2. /\ front \in Seq(S)
      /\ Len(front) = i - 1
      /\ \A j \in 1..(i - 1) : front[j] = list[j]
  <2>1. i - 1 \in 0..Len(list) /\ \A k \in 1..(i - 1) : list[k] \in S
    BY <1>1
  <2>. QED
    BY <1>1, <2>1, SubSeqProperties
<1>3. /\ back \in Seq(S)
      /\ Len(back) = Len(list) - i
      /\ \A j \in 1..(Len(list) - i) : back[j] = list[i + j]
  <2>1. \A k \in (i + 1)..Len(list) : list[k] \in S
    BY <1>1
  <2>. QED
    BY <1>1, <2>1, SubSeqProperties
<1>4. RemoveAt(list, i) = front \o back
  BY DEF RemoveAt
<1>. HIDE DEF front, back
<1>5. /\ front \o back \in Seq(S)
      /\ Len(front \o back) = Len(list) - 1
      /\ \A j \in 1..(Len(list) - 1) :
            (front \o back)[j] = IF j <= i - 1 THEN front[j] ELSE back[j - (i - 1)]
  <2>1. /\ front \o back \in Seq(S)
        /\ Len(front \o back) = Len(front) + Len(back)
        /\ \A j \in 1..(Len(front) + Len(back)) :
              (front \o back)[j] =
                  IF j <= Len(front) THEN front[j] ELSE back[j - Len(front)]
    BY <1>2, <1>3, ConcatProperties
  <2>2. Len(front) + Len(back) = Len(list) - 1
    BY <1>1, <1>2, <1>3
  <2>. QED
    BY <1>2, <2>1, <2>2
<1>. QED
  BY <1>1, <1>2, <1>3, <1>4, <1>5

\* The elements of a list after an insertion and after a removal.
InList(list, x) == \E i \in DOMAIN list : list[i] = x

OncePerId(list) ==
    \A i, j \in DOMAIN list : list[i].ullCCSubSessionId = list[j].ullCCSubSessionId => i = j

LEMMA ListGrows ==
    ASSUME NEW list \in Seq(SubSession), OncePerId(list),
           NEW x \in SubSession, Places(list, x.ullCCSubSessionId) = {}
    PROVE  /\ Append(list, x) \in Seq(SubSession)
           /\ Len(Append(list, x)) = Len(list) + 1
           /\ OncePerId(Append(list, x))
           /\ \A y : InList(Append(list, x), y) <=> InList(list, y) \/ y = x
<1>1. /\ DOMAIN list = 1..Len(list) /\ Len(list) \in Nat
      /\ Append(list, x) \in Seq(SubSession)
      /\ DOMAIN Append(list, x) = 1..(Len(list) + 1)
      /\ Len(Append(list, x)) = Len(list) + 1
      /\ \A i \in 1..Len(list) : Append(list, x)[i] = list[i]
      /\ Append(list, x)[Len(list) + 1] = x
  OBVIOUS
<1>2. \A i \in DOMAIN list : list[i].ullCCSubSessionId # x.ullCCSubSessionId
  BY DEF Places
<1>3. OncePerId(Append(list, x))
  BY <1>1, <1>2 DEF OncePerId
<1>4. ASSUME NEW y PROVE InList(Append(list, x), y) <=> InList(list, y) \/ y = x
  BY <1>1 DEF InList
<1>. QED
  BY <1>1, <1>3, <1>4

LEMMA ListShrinks ==
    ASSUME NEW list \in Seq(SubSession), OncePerId(list), NEW i \in DOMAIN list
    PROVE  /\ RemoveAt(list, i) \in Seq(SubSession)
           /\ Len(RemoveAt(list, i)) = Len(list) - 1
           /\ OncePerId(RemoveAt(list, i))
           /\ \A y : InList(RemoveAt(list, i), y) <=> InList(list, y) /\ y # list[i]
<1>1. DOMAIN list = 1..Len(list) /\ Len(list) \in Nat
  OBVIOUS
<1>. DEFINE rest == RemoveAt(list, i)
<1>2. /\ rest \in Seq(SubSession)
      /\ Len(rest) = Len(list) - 1
      /\ DOMAIN rest = 1..(Len(list) - 1)
      /\ \A j \in 1..(Len(list) - 1) : rest[j] = IF j < i THEN list[j] ELSE list[j + 1]
  <2>1. rest \in Seq(SubSession) /\ Len(rest) = Len(list) - 1
    BY <1>1, RemoveAtProperties
  <2>2. \A j \in 1..(Len(list) - 1) : rest[j] = IF j < i THEN list[j] ELSE list[j + 1]
    BY <1>1, RemoveAtProperties
  <2>3. DOMAIN rest = 1..Len(rest)
    BY <2>1
  <2>. QED
    BY <2>1, <2>2, <2>3
<1>. HIDE DEF rest
<1>3. OncePerId(rest)
  <2>. SUFFICES ASSUME NEW j \in DOMAIN rest, NEW k \in DOMAIN rest,
                       rest[j].ullCCSubSessionId = rest[k].ullCCSubSessionId
                PROVE  j = k
    BY DEF OncePerId
  <2>1. PICK m \in DOMAIN list : rest[j] = list[m] /\ m = IF j < i THEN j ELSE j + 1
    BY <1>1, <1>2
  <2>2. PICK n \in DOMAIN list : rest[k] = list[n] /\ n = IF k < i THEN k ELSE k + 1
    BY <1>1, <1>2
  <2>3. m = n
    BY <2>1, <2>2 DEF OncePerId
  <2>. QED
    BY <1>1, <1>2, <2>1, <2>2, <2>3
<1>4. ASSUME NEW y PROVE InList(rest, y) <=> InList(list, y) /\ y # list[i]
  <2>1. ASSUME NEW j \in DOMAIN rest PROVE InList(list, rest[j]) /\ rest[j] # list[i]
    <3>1. PICK m \in DOMAIN list : rest[j] = list[m] /\ m # i
      <4>1. CASE j < i
        BY <1>1, <1>2, <4>1
      <4>2. CASE j >= i
        <5>1. j + 1 \in DOMAIN list /\ rest[j] = list[j + 1] /\ j + 1 # i
          BY <1>1, <1>2, <4>2
        <5>. QED
          BY <5>1
      <4>. QED
        BY <1>1, <1>2, <4>1, <4>2
    <3>. QED
      BY <3>1 DEF InList, OncePerId
  <2>2. ASSUME NEW m \in DOMAIN list, list[m] # list[i] PROVE InList(rest, list[m])
    <3>1. PICK j \in DOMAIN rest : rest[j] = list[m]
      <4>1. CASE m < i
        BY <1>1, <1>2, <4>1
      <4>2. CASE m > i
        <5>1. m - 1 \in DOMAIN rest /\ rest[m - 1] = list[m]
          BY <1>1, <1>2, <4>2
        <5>. QED
          BY <5>1
      <4>. QED
        BY <1>1, <2>2, <4>1, <4>2
    <3>. QED
      BY <3>1 DEF InList
  <2>. QED
    BY <2>1, <2>2 DEF InList
<1>. QED
  BY <1>2, <1>3, <1>4 DEF rest

-----------------------------------------------------------------------------
(***************************************************************************)
(* The inductive invariant.  That a sub-session id occurs once in a list   *)
(* is what makes the first match the only one; that a session object that  *)
(* was freed has an empty list is what keeps it out of every lookup.       *)
(***************************************************************************)
WellFormed(session) ==
    /\ session \in Session
    /\ OncePerId(session.poSubSessionList)
    /\ session.freed => Len(session.poSubSessionList) = 0
    /\ ~session.freed =>
          /\ session.unSubSessionCount = Len(session.poSubSessionList) + session.unlisted
          /\ session.unSubSessionCount > 0

TableInv ==
    /\ TypeOK
    /\ \A s \in SessionId : hSessionTable[s] # NULL => WellFormed(hSessionTable[s])

LEMMA SessionTypes ==
    /\ NewSession \in Session
    /\ OncePerId(NewSession.poSubSessionList)
    /\ NewSession.unSubSessionCount = 0
    /\ Len(NewSession.poSubSessionList) = 0
    /\ NewSession.unlisted = 0
    /\ ~NewSession.freed
    /\ \A session \in Session :
          /\ session.poSubSessionList \in Seq(SubSession)
          /\ session.unSubSessionCount \in Nat
          /\ session.unlisted \in Nat
          /\ session.freed \in BOOLEAN
    /\ \A o \in Object, id \in SubSessionId :
          LET x == [object |-> o, ullCCSubSessionId |-> id]
          IN x \in SubSession /\ x.object = o /\ x.ullCCSubSessionId = id
  BY DEF NewSession, Session, OncePerId, SubSession

LEMMA SessionGrows ==
    ASSUME NEW session \in Session, OncePerId(session.poSubSessionList), ~session.freed,
           session.unSubSessionCount = Len(session.poSubSessionList) + session.unlisted,
           NEW x \in SubSession,
           Places(session.poSubSessionList, x.ullCCSubSessionId) = {}
    PROVE  /\ WellFormed(Appended(session, x))
           /\ ~Appended(session, x).freed
           /\ \A y : InList(Appended(session, x).poSubSessionList, y)
                       <=> InList(session.poSubSessionList, y) \/ y = x
<1>1. /\ session.poSubSessionList \in Seq(SubSession)
      /\ Len(session.poSubSessionList) \in Nat
      /\ session.unlisted \in Nat
  BY SessionTypes
<1>2. /\ Append(session.poSubSessionList, x) \in Seq(SubSession)
      /\ Len(Append(session.poSubSessionList, x)) = Len(session.poSubSessionList) + 1
      /\ OncePerId(Append(session.poSubSessionList, x))
      /\ \A y : InList(Append(session.poSubSessionList, x), y)
                  <=> InList(session.poSubSessionList, y) \/ y = x
  BY <1>1, ListGrows
<1>3. /\ Appended(session, x).poSubSessionList = Append(session.poSubSessionList, x)
      /\ Appended(session, x).unSubSessionCount = session.unSubSessionCount + 1
      /\ Appended(session, x).unlisted = session.unlisted
      /\ Appended(session, x).freed = session.freed
      /\ Appended(session, x) \in Session
  <2>1. Appended(session, x).poSubSessionList = Append(session.poSubSessionList, x)
    BY DEF Appended, Session
  <2>2. Appended(session, x).unSubSessionCount = session.unSubSessionCount + 1
    BY DEF Appended, Session
  <2>3. Appended(session, x).freed = session.freed /\ Appended(session, x).unlisted = session.unlisted
    BY DEF Appended, Session
  <2>4. session.unSubSessionCount + 1 \in Nat
    BY SessionTypes
  <2>5. Appended(session, x) \in Session
    BY <1>2, <2>4 DEF Appended, Session
  <2>. QED
    BY <2>1, <2>2, <2>3, <2>5
<1>. QED
  BY <1>1, <1>2, <1>3 DEF WellFormed

\* A session that counts a sub-session its list could not take.
LEMMA SessionMisses ==
    ASSUME NEW session \in Session, OncePerId(session.poSubSessionList), ~session.freed,
           session.unSubSessionCount = Len(session.poSubSessionList) + session.unlisted
    PROVE  /\ WellFormed(Unlisted(session))
           /\ ~Unlisted(session).freed
           /\ Unlisted(session).poSubSessionList = session.poSubSessionList
<1>1. /\ session.poSubSessionList \in Seq(SubSession)
      /\ Len(session.poSubSessionList) \in Nat
      /\ session.unSubSessionCount \in Nat
      /\ session.unlisted \in Nat
  BY SessionTypes
<1>2. /\ Unlisted(session).poSubSessionList = session.poSubSessionList
      /\ Unlisted(session).unSubSessionCount = session.unSubSessionCount + 1
      /\ Unlisted(session).unlisted = session.unlisted + 1
      /\ Unlisted(session).freed = session.freed
  BY DEF Unlisted, Session
<1>3. Unlisted(session) \in Session
  <2>1. session.unSubSessionCount + 1 \in Nat /\ session.unlisted + 1 \in Nat
    BY <1>1
  <2>2. Unlisted(session) =
            [session EXCEPT !.unSubSessionCount = session.unSubSessionCount + 1,
                            !.unlisted = session.unlisted + 1]
    BY DEF Unlisted
  <2>. QED
    BY <2>1, <2>2 DEF Session
<1>. QED
  BY <1>1, <1>2, <1>3 DEF WellFormed

LEMMA SessionShrinks ==
    ASSUME NEW session, WellFormed(session), ~session.freed,
           NEW i \in DOMAIN session.poSubSessionList
    PROVE  LET rest == WithoutPlace(session, i)
           IN /\ rest \in Session
              /\ ~rest.freed
              /\ OncePerId(rest.poSubSessionList)
              /\ rest.unSubSessionCount = Len(rest.poSubSessionList) + rest.unlisted
              /\ \A y : InList(rest.poSubSessionList, y)
                          <=> InList(session.poSubSessionList, y)
                                  /\ y # session.poSubSessionList[i]
<1>. DEFINE list == session.poSubSessionList
<1>1. /\ list \in Seq(SubSession)
      /\ Len(list) \in Nat /\ Len(list) > 0
      /\ session \in Session
      /\ session.unlisted \in Nat
      /\ session.unSubSessionCount = Len(list) + session.unlisted
  BY SessionTypes DEF WellFormed
<1>2. /\ RemoveAt(list, i) \in Seq(SubSession)
      /\ Len(RemoveAt(list, i)) = Len(list) - 1
      /\ OncePerId(RemoveAt(list, i))
      /\ \A y : InList(RemoveAt(list, i), y) <=> InList(list, y) /\ y # list[i]
  BY <1>1, ListShrinks DEF WellFormed
<1>3. /\ WithoutPlace(session, i).poSubSessionList = RemoveAt(list, i)
      /\ WithoutPlace(session, i).unSubSessionCount = session.unSubSessionCount - 1
      /\ WithoutPlace(session, i).unlisted = session.unlisted
      /\ WithoutPlace(session, i).freed = session.freed
      /\ WithoutPlace(session, i) \in Session
  <2>1. WithoutPlace(session, i).poSubSessionList = RemoveAt(list, i)
    BY <1>1 DEF WithoutPlace, Session
  <2>2. WithoutPlace(session, i).unSubSessionCount = session.unSubSessionCount - 1
    BY <1>1 DEF WithoutPlace, Session
  <2>3. /\ WithoutPlace(session, i).freed = session.freed
        /\ WithoutPlace(session, i).unlisted = session.unlisted
    BY <1>1 DEF WithoutPlace, Session
  <2>4. session.unSubSessionCount - 1 \in Nat
    BY <1>1
  <2>5. WithoutPlace(session, i) \in Session
    BY <1>1, <1>2, <2>4 DEF WithoutPlace, Session
  <2>. QED
    BY <2>1, <2>2, <2>3, <2>5
<1>. QED
  BY <1>1, <1>2, <1>3

LEMMA TableStarts == Init => TableInv
  BY DEF Init, TableInv, TypeOK

\* A step changes one session at most, and leaves a well-formed one, or none.
LEMMA OneSessionChanges ==
    ASSUME TableInv, NEW s \in SessionId, NEW session \in Session \cup {NULL},
           session # NULL => WellFormed(session),
           hSessionTable' = [hSessionTable EXCEPT ![s] = session],
           allocated' \subseteq Object, leaked' \subseteq Object
    PROVE  TableInv'
  BY DEF TableInv, TypeOK

\* The session an insertion works on.
LEMMA UsableSession ==
    ASSUME TableInv, NEW s \in SessionId, Usable(s)
    PROVE  LET session == IF hSessionTable[s] = NULL THEN NewSession ELSE hSessionTable[s]
           IN /\ session \in Session /\ OncePerId(session.poSubSessionList) /\ ~session.freed
              /\ session.unSubSessionCount = Len(session.poSubSessionList) + session.unlisted
<1>1. CASE hSessionTable[s] = NULL
  <2>1. 0 = 0 + 0
    OBVIOUS
  <2>2. NewSession.unSubSessionCount = Len(NewSession.poSubSessionList) + NewSession.unlisted
    BY <2>1, SessionTypes
  <2>. QED
    BY <1>1, <2>2, SessionTypes
<1>2. CASE hSessionTable[s] # NULL
  BY <1>2 DEF TableInv, Usable, WellFormed
<1>. QED
  BY <1>1, <1>2

LEMMA InsertKeepsTable ==
    ASSUME TableInv, NEW s \in SessionId, NEW id \in SubSessionId, NEW o \in Object,
           OCF_InsertSubSessionObject(s, id, o)
    PROVE  TableInv'
<1>. DEFINE session == IF hSessionTable[s] = NULL THEN NewSession ELSE hSessionTable[s]
            x == [object |-> o, ullCCSubSessionId |-> id]
<1>1. CASE UNCHANGED vars
  BY <1>1 DEF vars, TableInv, TypeOK
<1>2. CASE ~UNCHANGED vars
  <2>1. /\ Places(session.poSubSessionList, id) = {}
        /\ \/ hSessionTable' = [hSessionTable EXCEPT ![s] = Appended(session, x)]
           \/ hSessionTable' = [hSessionTable EXCEPT ![s] = Unlisted(session)]
        /\ allocated' \subseteq allocated \cup {o}
        /\ leaked' \subseteq leaked \cup {o}
        /\ Usable(s)
    BY <1>2 DEF OCF_InsertSubSessionObject, Taken
  <2>2. /\ session \in Session /\ OncePerId(session.poSubSessionList) /\ ~session.freed
        /\ session.unSubSessionCount = Len(session.poSubSessionList) + session.unlisted
    BY <2>1, UsableSession
  <2>3. x \in SubSession /\ x.ullCCSubSessionId = id
    BY SessionTypes
  <2>. HIDE DEF session, x
  <2>4. WellFormed(Appended(session, x)) /\ WellFormed(Unlisted(session))
    BY <2>1, <2>2, <2>3, SessionGrows, SessionMisses
  <2>5. Appended(session, x) \in Session /\ Unlisted(session) \in Session
    BY <2>4 DEF WellFormed
  <2>. QED
    BY <2>1, <2>4, <2>5, OneSessionChanges DEF TableInv, TypeOK
<1>. QED
  BY <1>1, <1>2

LEMMA RemoveKeepsTable ==
    ASSUME TableInv, NEW s \in SessionId, NEW id \in SubSessionId, NEW ownId \in BOOLEAN,
           OCF_RemoveSubSessionObject(s, id, ownId)
    PROVE  TableInv'
<1>. DEFINE session == hSessionTable[s]
<1>1. session # NULL /\ WellFormed(session) /\ ~session.freed
  BY DEF OCF_RemoveSubSessionObject, Usable, TableInv
<1>2. PICK i \in Places(session.poSubSessionList, id) :
         LET rest == WithoutPlace(session, i)
         IN /\ allocated' = allocated \ {session.poSubSessionList[i].object}
            /\ \/ /\ ~Emptied(rest)
                  /\ hSessionTable' = [hSessionTable EXCEPT ![s] = rest]
               \/ hSessionTable' = [hSessionTable EXCEPT ![s] = NULL]
               \/ /\ Emptied(rest)
                  /\ hSessionTable' = [hSessionTable EXCEPT ![s] =
                         [rest EXCEPT !.freed = TRUE]]
  BY DEF OCF_RemoveSubSessionObject
<1>. DEFINE rest == WithoutPlace(session, i)
<1>3. /\ rest \in Session
      /\ ~rest.freed
      /\ OncePerId(rest.poSubSessionList)
      /\ rest.unSubSessionCount = Len(rest.poSubSessionList) + rest.unlisted
  BY <1>1, <1>2, SessionShrinks DEF Places
<1>4. allocated' \subseteq Object /\ leaked' \subseteq Object
  BY <1>2 DEF OCF_RemoveSubSessionObject, TableInv, TypeOK
<1>. HIDE DEF rest
<1>5. /\ rest.unSubSessionCount \in Nat
      /\ rest.unlisted \in Nat
      /\ Len(rest.poSubSessionList) \in Nat
  BY <1>3, SessionTypes
<1>6. CASE ~Emptied(rest) /\ hSessionTable' = [hSessionTable EXCEPT ![s] = rest]
  <2>1. WellFormed(rest)
    BY <1>3, <1>5, <1>6 DEF WellFormed, Emptied
  <2>. QED
    BY <1>3, <1>4, <1>6, <2>1, OneSessionChanges
<1>7. CASE hSessionTable' = [hSessionTable EXCEPT ![s] = NULL]
  BY <1>4, <1>7, OneSessionChanges
<1>8. CASE /\ Emptied(rest)
           /\ hSessionTable' = [hSessionTable EXCEPT ![s] = [rest EXCEPT !.freed = TRUE]]
  <2>1. /\ [rest EXCEPT !.freed = TRUE] \in Session
        /\ [rest EXCEPT !.freed = TRUE].freed
        /\ [rest EXCEPT !.freed = TRUE].poSubSessionList = rest.poSubSessionList
    BY <1>3 DEF Session
  <2>2. WellFormed([rest EXCEPT !.freed = TRUE])
    BY <1>3, <1>5, <1>8, <2>1 DEF WellFormed, Emptied
  <2>. QED
    BY <1>4, <1>8, <2>1, <2>2, OneSessionChanges
<1>. QED
  BY <1>2, <1>6, <1>7, <1>8 DEF rest

LEMMA TableStays == TableInv /\ [Next]_vars => TableInv'
<1>. SUFFICES ASSUME TableInv, [Next]_vars PROVE TableInv'
  OBVIOUS
<1>1. CASE UNCHANGED vars
  BY <1>1 DEF vars, TableInv, TypeOK
<1>2. CASE Next
  BY <1>1, <1>2, InsertKeepsTable, RemoveKeepsTable DEF Next, InsertionFails
<1>. QED
  BY <1>1, <1>2

LEMMA TableInvariant == Spec => []TableInv
  BY TableStarts, TableStays, PTL DEF Spec

\* Every reachable table is well typed; no count drops below zero
\* (ocf_session.c:206-221).
THEOREM SessionTableTypeCorrect == Spec => []TypeOK
<1>1. TableInv => TypeOK
  BY DEF TableInv
<1>. QED
  BY <1>1, TableInvariant, PTL

\* The count of a session is the length of its list and the number of sub-sessions
\* the list could not take, so that it is never freed before its last sub-session,
\* and with it unless an append failed (ocf_session.c:66-80, 206-221).
THEOREM CountsMatchLists == Spec => []CountsAreRight
<1>1. TableInv => CountsAreRight
  BY DEF TableInv, WellFormed, CountsAreRight
<1>. QED
  BY <1>1, TableInvariant, PTL

-----------------------------------------------------------------------------
(***************************************************************************)
(* What the table lists.  From here on a list is the set of its elements:  *)
(* an insertion adds one and a removal takes one away.                     *)
(***************************************************************************)
Lists(session, x) == session # NULL /\ InList(session.poSubSessionList, x)

Entry(o, id) == [object |-> o, ullCCSubSessionId |-> id]

Freed(session) == session # NULL /\ session.freed

\* An insertion of x into the session s.
Inserted(s, x) ==
    /\ x \in SubSession /\ x.object \notin allocated
    /\ allocated' = allocated \cup {x.object}
    /\ leaked' = leaked
    /\ \A y : Lists(hSessionTable[s], y) => y.ullCCSubSessionId # x.ullCCSubSessionId
    /\ \A y : Lists(hSessionTable'[s], y) <=> Lists(hSessionTable[s], y) \/ y = x
    /\ ~Freed(hSessionTable[s]) /\ ~Freed(hSessionTable'[s])
    /\ \A u \in SessionId : u # s => hSessionTable'[u] = hSessionTable[u]

\* An object that the list of the session s could not take.
Missed(s, o) ==
    /\ o \notin allocated
    /\ allocated' = allocated \cup {o}
    /\ leaked' = leaked \cup {o}
    /\ \A y : Lists(hSessionTable'[s], y) <=> Lists(hSessionTable[s], y)
    /\ ~Freed(hSessionTable[s]) /\ ~Freed(hSessionTable'[s])
    /\ \A u \in SessionId : u # s => hSessionTable'[u] = hSessionTable[u]

\* A removal of x from the session s.
Removed(s, x, ownId) ==
    /\ Lists(hSessionTable[s], x)
    /\ allocated' = allocated \ {x.object}
    /\ leaked' = leaked
    /\ \A y : Lists(hSessionTable'[s], y) <=> Lists(hSessionTable[s], y) /\ y # x
    /\ ~Freed(hSessionTable[s])
    /\ Freed(hSessionTable'[s]) =>
          /\ ownId /\ "freedKey" \in Faults
          /\ \A y : Lists(hSessionTable[s], y) => y = x
    /\ \A u \in SessionId : u # s => hSessionTable'[u] = hSessionTable[u]

LEMMA InsertShape ==
    ASSUME TableInv, NEW s \in SessionId, NEW id \in SubSessionId, NEW o \in Object,
           OCF_InsertSubSessionObject(s, id, o), ~UNCHANGED vars
    PROVE  Inserted(s, Entry(o, id)) \/ Missed(s, o)
<1>. DEFINE session == IF hSessionTable[s] = NULL THEN NewSession ELSE hSessionTable[s]
            x == Entry(o, id)
<1>1. /\ Places(session.poSubSessionList, id) = {}
      /\ \/ /\ hSessionTable' = [hSessionTable EXCEPT ![s] = Appended(session, x)]
            /\ leaked' = leaked
         \/ /\ hSessionTable' = [hSessionTable EXCEPT ![s] = Unlisted(session)]
            /\ leaked' = leaked \cup {o}
      /\ allocated' = allocated \cup {o} /\ o \notin allocated
      /\ Usable(s)
  BY DEF OCF_InsertSubSessionObject, Taken, Entry
<1>2. /\ session \in Session /\ OncePerId(session.poSubSessionList) /\ ~session.freed
      /\ session.unSubSessionCount = Len(session.poSubSessionList) + session.unlisted
  BY <1>1, UsableSession
<1>3. x \in SubSession /\ x.ullCCSubSessionId = id /\ x.object = o
  BY SessionTypes DEF Entry
<1>4. \A y : InList(session.poSubSessionList, y) <=> Lists(hSessionTable[s], y)
  BY DEF Lists, InList, NewSession
<1>5. \A y : Lists(hSessionTable[s], y) => y.ullCCSubSessionId # id
  BY <1>1, <1>4 DEF Places, InList
<1>6. ~Freed(hSessionTable[s])
  BY <1>1 DEF Freed, Usable
<1>. HIDE DEF session, x
<1>7. \A u \in SessionId : u # s => hSessionTable'[u] = hSessionTable[u]
  BY <1>1 DEF TableInv, TypeOK
<1>8. CASE /\ hSessionTable' = [hSessionTable EXCEPT ![s] = Appended(session, x)]
           /\ leaked' = leaked
  <2>1. /\ WellFormed(Appended(session, x))
        /\ ~Appended(session, x).freed
        /\ \A y : InList(Appended(session, x).poSubSessionList, y)
                    <=> InList(session.poSubSessionList, y) \/ y = x
    BY <1>1, <1>2, <1>3, SessionGrows
  <2>2. Appended(session, x) # NULL
    BY <2>1, SessionTableAssumption DEF WellFormed
  <2>3. hSessionTable'[s] = Appended(session, x)
    BY <1>8 DEF TableInv, TypeOK
  <2>4. \A y : Lists(hSessionTable'[s], y) <=> Lists(hSessionTable[s], y) \/ y = x
    BY <1>4, <2>1, <2>2, <2>3 DEF Lists
  <2>. QED
    BY <1>1, <1>3, <1>5, <1>6, <1>7, <1>8, <2>1, <2>3, <2>4 DEF Inserted, Freed, x
<1>9. CASE /\ hSessionTable' = [hSessionTable EXCEPT ![s] = Unlisted(session)]
           /\ leaked' = leaked \cup {o}
  <2>1. /\ WellFormed(Unlisted(session))
        /\ ~Unlisted(session).freed
        /\ Unlisted(session).poSubSessionList = session.poSubSessionList
    BY <1>2, SessionMisses
  <2>2. Unlisted(session) # NULL
    BY <2>1, SessionTableAssumption DEF WellFormed
  <2>3. hSessionTable'[s] = Unlisted(session)
    BY <1>9 DEF TableInv, TypeOK
  <2>4. \A y : Lists(hSessionTable'[s], y) <=> Lists(hSessionTable[s], y)
    BY <1>4, <2>1, <2>2, <2>3 DEF Lists
  <2>. QED
    BY <1>1, <1>6, <1>7, <1>9, <2>1, <2>3, <2>4 DEF Missed, Freed
<1>. QED
  BY <1>1, <1>8, <1>9

LEMMA RemoveShape ==
    ASSUME TableInv, NEW s \in SessionId, NEW id \in SubSessionId, NEW ownId \in BOOLEAN,
           OCF_RemoveSubSessionObject(s, id, ownId)
    PROVE  \E o \in Object : Removed(s, Entry(o, id), ownId)
<1>. DEFINE session == hSessionTable[s]
            rest(i) == WithoutPlace(session, i)
<1>1. session # NULL /\ WellFormed(session) /\ ~session.freed
  BY DEF OCF_RemoveSubSessionObject, Usable, TableInv
<1>2. PICK i \in Places(session.poSubSessionList, id) :
         /\ allocated' = allocated \ {session.poSubSessionList[i].object}
         /\ leaked' = leaked
         /\ \/ /\ ~Emptied(rest(i))
               /\ hSessionTable' = [hSessionTable EXCEPT ![s] = rest(i)]
            \/ /\ Emptied(rest(i))
               /\ hSessionTable' = [hSessionTable EXCEPT ![s] = NULL]
            \/ /\ Emptied(rest(i))
               /\ ownId /\ "freedKey" \in Faults
               /\ hSessionTable' = [hSessionTable EXCEPT ![s] = [rest(i) EXCEPT !.freed = TRUE]]
  BY DEF OCF_RemoveSubSessionObject
<1>3. i \in DOMAIN session.poSubSessionList
      /\ session.poSubSessionList[i].ullCCSubSessionId = id
  BY <1>2 DEF Places
<1>. DEFINE x == session.poSubSessionList[i]
            left == rest(i)
<1>4. x \in SubSession /\ x = Entry(x.object, id) /\ x.object \in Object
  <2>1. session.poSubSessionList \in Seq(SubSession)
    BY <1>1, SessionTypes DEF WellFormed
  <2>2. x \in SubSession
    BY <1>3, <2>1
  <2>. QED
    BY <1>3, <2>2 DEF SubSession, Entry
<1>5. /\ left \in Session
      /\ ~left.freed
      /\ left.unSubSessionCount = Len(left.poSubSessionList) + left.unlisted
      /\ \A y : InList(left.poSubSessionList, y) <=> InList(session.poSubSessionList, y) /\ y # x
  BY <1>1, <1>3, SessionShrinks
<1>6. Lists(session, x)
  BY <1>1, <1>3 DEF Lists, InList
<1>7. /\ allocated' = allocated \ {x.object} /\ leaked' = leaked
      /\ \/ /\ ~Emptied(left)
            /\ hSessionTable' = [hSessionTable EXCEPT ![s] = left]
         \/ /\ Emptied(left)
            /\ hSessionTable' = [hSessionTable EXCEPT ![s] = NULL]
         \/ /\ Emptied(left)
            /\ ownId /\ "freedKey" \in Faults
            /\ hSessionTable' = [hSessionTable EXCEPT ![s] = [left EXCEPT !.freed = TRUE]]
  BY <1>2
<1>8. \A y : InList(session.poSubSessionList, y) <=> Lists(session, y)
  BY <1>1 DEF Lists
<1>. HIDE DEF left, x, session, rest
<1>9. Emptied(left) => \A y : ~InList(left.poSubSessionList, y)
  <2>1. left.poSubSessionList \in Seq(SubSession) /\ left.unlisted \in Nat
    BY <1>5, SessionTypes
  <2>2. Emptied(left) => Len(left.poSubSessionList) = 0
    <3>1. Len(left.poSubSessionList) \in Nat
      BY <2>1
    <3>. QED
      BY <1>5, <2>1, <3>1 DEF Emptied
  <2>3. DOMAIN left.poSubSessionList = 1..Len(left.poSubSessionList)
    BY <2>1
  <2>. QED
    BY <2>2, <2>3 DEF InList
<1>10. /\ left # NULL
       /\ [left EXCEPT !.freed = TRUE] # NULL
       /\ [left EXCEPT !.freed = TRUE].poSubSessionList = left.poSubSessionList
  BY <1>5, SessionTableAssumption DEF Session
<1>11. \A u \in SessionId : u # s => hSessionTable'[u] = hSessionTable[u]
  BY <1>7 DEF TableInv, TypeOK
<1>12. \/ /\ hSessionTable'[s] = left
       \/ /\ Emptied(left)
          /\ hSessionTable'[s] = NULL
       \/ /\ Emptied(left)
          /\ ownId /\ "freedKey" \in Faults
          /\ hSessionTable'[s] = [left EXCEPT !.freed = TRUE]
  BY <1>7 DEF TableInv, TypeOK
<1>13. \A y : Lists(hSessionTable'[s], y) <=> Lists(session, y) /\ y # x
  BY <1>5, <1>8, <1>9, <1>10, <1>12 DEF Lists
<1>14. Freed(hSessionTable'[s]) =>
          /\ ownId /\ "freedKey" \in Faults
          /\ \A y : Lists(session, y) => y = x
  BY <1>5, <1>8, <1>9, <1>12 DEF Freed
<1>15. ~Freed(session)
  BY <1>1 DEF Freed
<1>16. Removed(s, x, ownId)
  BY <1>6, <1>7, <1>11, <1>13, <1>14, <1>15 DEF Removed, session
<1>. QED
  BY <1>4, <1>16

-----------------------------------------------------------------------------
(* Objects *)

EntriesAreAllocated ==
    \A o \in Object \ leaked :
        o \in allocated <=> \E s \in SessionId, id \in SubSessionId :
                               Lists(hSessionTable[s], Entry(o, id))

EntriesDiffer ==
    \A s, u \in SessionId : \A x, y \in SubSession :
        Lists(hSessionTable[s], x) /\ Lists(hSessionTable[u], y) /\ x.object = y.object
            => s = u /\ x = y

NoneIsLeaked ==
    /\ leaked \subseteq allocated
    /\ \A s \in SessionId : \A x \in SubSession :
          Lists(hSessionTable[s], x) => x.object \notin leaked

ObjectsInv == TableInv /\ EntriesAreAllocated /\ EntriesDiffer /\ NoneIsLeaked

LEMMA EntryTypes ==
    /\ \A x \in SubSession : /\ x.object \in Object /\ x.ullCCSubSessionId \in SubSessionId
                             /\ x = Entry(x.object, x.ullCCSubSessionId)
    /\ \A o \in Object, id \in SubSessionId :
          /\ Entry(o, id) \in SubSession
          /\ Entry(o, id).object = o
          /\ Entry(o, id).ullCCSubSessionId = id
  BY DEF SubSession, Entry

LEMMA ListedTypes ==
    ASSUME TableInv, NEW s \in SessionId, NEW x, Lists(hSessionTable[s], x)
    PROVE  x \in SubSession
<1>1. hSessionTable[s].poSubSessionList \in Seq(SubSession)
  BY SessionTypes DEF Lists, TableInv, WellFormed
<1>. QED
  BY <1>1 DEF Lists, InList

LEMMA InsertKeepsObjects ==
    ASSUME ObjectsInv, NEW s \in SessionId, NEW x, Inserted(s, x)
    PROVE  EntriesAreAllocated' /\ EntriesDiffer' /\ NoneIsLeaked'
<1>. USE DEF ObjectsInv
<1>1. /\ x \in SubSession /\ x.object \notin allocated
      /\ allocated' = allocated \cup {x.object} /\ leaked' = leaked
      /\ \A u \in SessionId : \A y : Lists(hSessionTable'[u], y) <=>
                                  Lists(hSessionTable[u], y) \/ (u = s /\ y = x)
  BY DEF Inserted
<1>2. \A u \in SessionId, y \in SubSession :
         Lists(hSessionTable[u], y) => y.object \in allocated
  BY EntryTypes DEF EntriesAreAllocated, NoneIsLeaked
<1>3. EntriesDiffer'
  BY <1>1, <1>2 DEF EntriesDiffer
<1>4. EntriesAreAllocated'
  <2>. SUFFICES ASSUME NEW o \in Object \ leaked
                PROVE  o \in allocated' <=> \E u \in SessionId, id \in SubSessionId :
                                              Lists(hSessionTable'[u], Entry(o, id))
    BY <1>1 DEF EntriesAreAllocated
  <2>1. CASE o = x.object
    BY <1>1, <2>1, EntryTypes
  <2>2. CASE o # x.object
    <3>1. \A u \in SessionId, id \in SubSessionId :
             Lists(hSessionTable'[u], Entry(o, id)) <=> Lists(hSessionTable[u], Entry(o, id))
      BY <1>1, <2>2, EntryTypes
    <3>. QED
      BY <1>1, <2>2, <3>1 DEF EntriesAreAllocated
  <2>. QED
    BY <2>1, <2>2
<1>5. NoneIsLeaked'
  BY <1>1 DEF NoneIsLeaked
<1>. QED
  BY <1>3, <1>4, <1>5

LEMMA MissKeepsObjects ==
    ASSUME ObjectsInv, NEW s \in SessionId, NEW o \in Object, Missed(s, o)
    PROVE  EntriesAreAllocated' /\ EntriesDiffer' /\ NoneIsLeaked'
<1>. USE DEF ObjectsInv
<1>1. /\ o \notin allocated
      /\ allocated' = allocated \cup {o} /\ leaked' = leaked \cup {o}
      /\ \A u \in SessionId : \A y : Lists(hSessionTable'[u], y) <=> Lists(hSessionTable[u], y)
  BY DEF Missed
<1>2. \A u \in SessionId, y \in SubSession :
         Lists(hSessionTable[u], y) => y.object \in allocated
  BY EntryTypes DEF EntriesAreAllocated, NoneIsLeaked
<1>3. EntriesDiffer'
  BY <1>1 DEF EntriesDiffer
<1>4. EntriesAreAllocated'
  BY <1>1 DEF EntriesAreAllocated
<1>5. NoneIsLeaked'
  BY <1>1, <1>2 DEF NoneIsLeaked
<1>. QED
  BY <1>3, <1>4, <1>5

LEMMA RemoveKeepsObjects ==
    ASSUME ObjectsInv, NEW s \in SessionId, NEW x, NEW ownId, Removed(s, x, ownId)
    PROVE  EntriesAreAllocated' /\ EntriesDiffer' /\ NoneIsLeaked'
<1>. USE DEF ObjectsInv
<1>1. /\ x \in SubSession /\ Lists(hSessionTable[s], x)
      /\ allocated' = allocated \ {x.object} /\ leaked' = leaked
      /\ \A u \in SessionId, y \in SubSession :
            Lists(hSessionTable'[u], y) <=> Lists(hSessionTable[u], y) /\ ~(u = s /\ y = x)
  BY ListedTypes DEF Removed
<1>2. EntriesDiffer'
  BY <1>1 DEF EntriesDiffer
<1>3. EntriesAreAllocated'
  <2>. SUFFICES ASSUME NEW o \in Object \ leaked
                PROVE  o \in allocated' <=> \E u \in SessionId, id \in SubSessionId :
                                              Lists(hSessionTable'[u], Entry(o, id))
    BY <1>1 DEF EntriesAreAllocated
  <2>1. CASE o = x.object
    BY <1>1, <2>1, EntryTypes DEF EntriesDiffer
  <2>2. CASE o # x.object
    <3>1. \A u \in SessionId, id \in SubSessionId :
             Lists(hSessionTable'[u], Entry(o, id)) <=> Lists(hSessionTable[u], Entry(o, id))
      BY <1>1, <2>2, EntryTypes
    <3>. QED
      BY <1>1, <2>2, <3>1 DEF EntriesAreAllocated
  <2>. QED
    BY <2>1, <2>2
<1>4. NoneIsLeaked'
  BY <1>1 DEF NoneIsLeaked
<1>. QED
  BY <1>2, <1>3, <1>4

LEMMA TableSteps ==
    ASSUME TableInv, Next, ~UNCHANGED vars
    PROVE  \E s \in SessionId, id \in SubSessionId, o \in Object :
               \/ Inserted(s, Entry(o, id))
               \/ Missed(s, o)
               \/ \E ownId \in BOOLEAN : Removed(s, Entry(o, id), ownId)
  BY InsertShape, RemoveShape DEF Next, InsertionFails

LEMMA ObjectsInvariant == Spec => []ObjectsInv
<1>1. Init => ObjectsInv
  BY TableStarts DEF Init, ObjectsInv, EntriesAreAllocated, EntriesDiffer, NoneIsLeaked, Lists
<1>2. ObjectsInv /\ [Next]_vars => ObjectsInv'
  <2>. SUFFICES ASSUME ObjectsInv, [Next]_vars PROVE ObjectsInv'
    OBVIOUS
  <2>1. TableInv'
    BY TableStays DEF ObjectsInv
  <2>2. CASE UNCHANGED vars
    BY <2>1, <2>2 DEF ObjectsInv, vars, EntriesAreAllocated, EntriesDiffer, NoneIsLeaked
  <2>3. CASE Next /\ ~UNCHANGED vars
    <3>1. PICK s \in SessionId, id \in SubSessionId, o \in Object :
             \/ Inserted(s, Entry(o, id))
             \/ Missed(s, o)
             \/ \E ownId \in BOOLEAN : Removed(s, Entry(o, id), ownId)
      BY <2>3, TableSteps DEF ObjectsInv
    <3>2. EntriesAreAllocated' /\ EntriesDiffer' /\ NoneIsLeaked'
      BY <3>1, InsertKeepsObjects, MissKeepsObjects, RemoveKeepsObjects
    <3>. QED
      BY <2>1, <3>2 DEF ObjectsInv
  <2>. QED
    BY <2>2, <2>3
<1>. QED
  BY <1>1, <1>2, PTL DEF Spec

\* Every allocated sub-session object is in exactly one list, once, unless
\* DMBase_AppendSList failed on it, and every listed object is allocated
\* (ocf_session.c:66-80, 140-221).
THEOREM NoObjectIsLeaked == Spec => []ObjectsAreListedOnce
<1>1. ASSUME ObjectsInv PROVE ObjectsAreListedOnce
  <2>. USE <1>1 DEF ObjectsInv
  <2>1. \A s \in SessionId : \A i \in Nodes(s) :
           /\ Lists(hSessionTable[s], hSessionTable[s].poSubSessionList[i])
           /\ hSessionTable[s].poSubSessionList[i] \in SubSession
    BY ListedTypes DEF Nodes, Lists, InList
  <2>2. ASSUME NEW o \in Object \ leaked
        PROVE  o \in allocated <=>
                   \E s \in SessionId : \E i \in Nodes(s) : ObjectAt(s, i) = o
    <3>1. ASSUME o \in allocated
          PROVE  \E s \in SessionId : \E i \in Nodes(s) : ObjectAt(s, i) = o
      BY <3>1, EntryTypes DEF EntriesAreAllocated, Lists, InList, Nodes, ObjectAt
    <3>2. ASSUME NEW s \in SessionId, NEW i \in Nodes(s), ObjectAt(s, i) = o
          PROVE  o \in allocated
      BY <2>1, <3>2, EntryTypes DEF EntriesAreAllocated, ObjectAt
    <3>. QED
      BY <3>1, <3>2
  <2>3. ASSUME NEW s \in SessionId, NEW u \in SessionId, NEW i \in Nodes(s), NEW j \in Nodes(u),
               ObjectAt(s, i) = ObjectAt(u, j)
        PROVE  s = u /\ i = j
    <3>1. s = u /\ hSessionTable[s].poSubSessionList[i] = hSessionTable[u].poSubSessionList[j]
      BY <2>1, <2>3 DEF EntriesDiffer, ObjectAt
    <3>2. OncePerId(hSessionTable[s].poSubSessionList)
      BY DEF Nodes, TableInv, WellFormed
    <3>. QED
      BY <3>1, <3>2 DEF OncePerId, Nodes
  <2>4. \A s \in SessionId : \A i \in Nodes(s) : ObjectAt(s, i) \notin leaked
    BY <2>1 DEF NoneIsLeaked, ObjectAt
  <2>. QED
    BY <2>2, <2>3, <2>4 DEF ObjectsAreListedOnce, NoneIsLeaked
<1>. QED
  BY <1>1, ObjectsInvariant, PTL

-----------------------------------------------------------------------------
(***************************************************************************)
(* The map.  A lookup finds the entry that is listed under its id, so that *)
(* an insertion and a removal change the map at one key, and a freed       *)
(* session is left behind only with nothing in it.                         *)
(***************************************************************************)

\* OCF_LookUpSubSessionObject in the session object of a Session-Id.
Found(session, id) ==
    LET matches == IF session = NULL THEN {} ELSE Places(session.poSubSessionList, id)
    IN IF matches = {} THEN NULL
       ELSE session.poSubSessionList[CHOOSE i \in matches : \A j \in matches : i <= j].object

LEMMA FoundIsListed ==
    ASSUME NEW session, session # NULL => WellFormed(session), NEW id \in SubSessionId
    PROVE  /\ Found(session, id) \in Object \cup {NULL}
           /\ \A o \in Object : Found(session, id) = o <=> Lists(session, Entry(o, id))
<1>1. CASE session = NULL
  BY <1>1, SessionTableAssumption DEF Found, Lists
<1>2. CASE session # NULL
  <2>. DEFINE list == session.poSubSessionList
  <2>1. list \in Seq(SubSession) /\ OncePerId(list)
    BY <1>2, SessionTypes DEF WellFormed
  <2>2. \A i \in DOMAIN list : i \in Nat /\ list[i] \in SubSession
    BY <2>1
  <2>. HIDE DEF list
  <2>3. CASE Places(list, id) = {}
    <3>1. Found(session, id) = NULL
      BY <1>2, <2>3 DEF Found, list
    <3>2. \A o \in Object : ~Lists(session, Entry(o, id))
      BY <2>3, EntryTypes DEF Lists, InList, Places, list
    <3>. QED
      BY <3>1, <3>2, SessionTableAssumption
  <2>4. ASSUME NEW i \in Places(list, id)
        PROVE  /\ Found(session, id) \in Object
               /\ \A o \in Object : Found(session, id) = o <=> Lists(session, Entry(o, id))
    <3>1. i \in DOMAIN list /\ list[i].ullCCSubSessionId = id /\ list[i] \in SubSession /\ i \in Nat
      BY <2>2 DEF Places
    <3>2. Places(list, id) = {i}
      BY <2>1, <3>1 DEF Places, OncePerId
    <3>3. (CHOOSE m \in {i} : \A j \in {i} : m <= j) = i
      BY <3>1
    <3>4. Found(session, id) = list[i].object
      BY <1>2, <3>2, <3>3 DEF Found, list
    <3>5. list[i] = Entry(list[i].object, id) /\ list[i].object \in Object
      BY <3>1, EntryTypes
    <3>6. \A o \in Object : Lists(session, Entry(o, id)) <=> list[i] = Entry(o, id)
      <4>1. ASSUME NEW o \in Object, NEW j \in DOMAIN list, list[j] = Entry(o, id)
            PROVE  j = i
        BY <2>1, <3>1, <4>1, EntryTypes DEF OncePerId
      <4>. QED
        BY <1>2, <3>1, <4>1 DEF Lists, InList, list
    <3>. QED
      BY <3>4, <3>5, <3>6, EntryTypes
  <2>. QED
    BY <2>3, <2>4
<1>. QED
  BY <1>1, <1>2

\* The substitutions of Map.
TableMap == [k \in SessionId \X SubSessionId |-> OCF_LookUpSubSessionObject(k[1], k[2])]

FreedIds == {s \in SessionId : hSessionTable[s] # NULL /\ hSessionTable[s].freed}

LEMMA LookUps ==
    /\ \A s \in SessionId, id \in SubSessionId :
          /\ TableMap[<<s, id>>] = Found(hSessionTable[s], id)
          /\ TableMap'[<<s, id>>] = Found(hSessionTable'[s], id)
    /\ TableMap = [k \in SessionId \X SubSessionId |-> TableMap[k]]
    /\ TableMap' = [k \in SessionId \X SubSessionId |-> TableMap'[k]]
<1>1. ASSUME NEW s \in SessionId, NEW id \in SubSessionId
      PROVE  /\ OCF_LookUpSubSessionObject(s, id) = Found(hSessionTable[s], id)
             /\ OCF_LookUpSubSessionObject(s, id)' = Found(hSessionTable'[s], id)
  BY DEF OCF_LookUpSubSessionObject, Found
<1>. QED
  BY <1>1 DEF TableMap

\* A map that changes at one key.
LEMMA OneKeyChanges ==
    ASSUME NEW s \in SessionId, NEW id \in SubSessionId, NEW o,
           Found(hSessionTable'[s], id) = o,
           \A u \in SessionId, v \in SubSessionId :
               <<u, v>> # <<s, id>> => Found(hSessionTable'[u], v) = Found(hSessionTable[u], v)
    PROVE  TableMap' = [TableMap EXCEPT ![<<s, id>>] = o]
<1>1. ASSUME NEW u \in SessionId, NEW v \in SubSessionId
      PROVE  TableMap'[<<u, v>>] = IF <<u, v>> = <<s, id>> THEN o ELSE TableMap[<<u, v>>]
  <2>1. CASE <<u, v>> = <<s, id>>
    <3>1. u = s /\ v = id
      BY <2>1
    <3>. QED
      BY <3>1, LookUps
  <2>2. CASE <<u, v>> # <<s, id>>
    <3>1. TableMap'[<<u, v>>] = Found(hSessionTable'[u], v)
      BY LookUps
    <3>2. TableMap[<<u, v>>] = Found(hSessionTable[u], v)
      BY LookUps
    <3>3. Found(hSessionTable'[u], v) = Found(hSessionTable[u], v)
      BY <2>2
    <3>. QED
      BY <2>2, <3>1, <3>2, <3>3
  <2>. QED
    BY <2>1, <2>2
<1>2. \A k \in SessionId \X SubSessionId :
         TableMap'[k] = IF k = <<s, id>> THEN o ELSE TableMap[k]
  BY <1>1
<1>. QED
  BY <1>2, LookUps

LEMMA FreedNow ==
    \A s \in SessionId : /\ s \in FreedIds <=> Freed(hSessionTable[s])
                         /\ s \in FreedIds' <=> Freed(hSessionTable'[s])
  BY DEF FreedIds, Freed

LEMMA InsertIsOnTheMap ==
    ASSUME TableInv, TableInv', NEW s \in SessionId, NEW id \in SubSessionId,
           NEW o \in Object, Inserted(s, Entry(o, id))
    PROVE  s \notin FreedIds /\ Map!InsertSubSession(<<s, id>>, o)
<1>1. \A u \in SessionId : /\ hSessionTable[u] # NULL => WellFormed(hSessionTable[u])
                           /\ hSessionTable'[u] # NULL => WellFormed(hSessionTable'[u])
  BY DEF TableInv
<1>2. \A y : Lists(hSessionTable'[s], y) <=> Lists(hSessionTable[s], y) \/ y = Entry(o, id)
  BY DEF Inserted
<1>3. Found(hSessionTable[s], id) = NULL
  <2>1. \A p \in Object : ~Lists(hSessionTable[s], Entry(p, id))
    BY EntryTypes DEF Inserted
  <2>. QED
    BY <1>1, <2>1, FoundIsListed
<1>4. Found(hSessionTable'[s], id) = o
  BY <1>1, <1>2, FoundIsListed
<1>5. \A u \in SessionId, v \in SubSessionId :
         <<u, v>> # <<s, id>> => Found(hSessionTable'[u], v) = Found(hSessionTable[u], v)
  <2>. SUFFICES ASSUME NEW u \in SessionId, NEW v \in SubSessionId, <<u, v>> # <<s, id>>
                PROVE  Found(hSessionTable'[u], v) = Found(hSessionTable[u], v)
    OBVIOUS
  <2>1. CASE u # s
    BY <2>1 DEF Inserted
  <2>2. CASE u = s
    <3>1. v # id
      BY <2>2
    <3>2. \A p \in Object : Entry(p, v) # Entry(o, id)
      BY <3>1, EntryTypes
    <3>3. \A p \in Object : Found(hSessionTable'[s], v) = p <=> Found(hSessionTable[s], v) = p
      BY <1>1, <1>2, <3>2, FoundIsListed
    <3>4. Found(hSessionTable'[s], v) \in Object \cup {NULL}
          /\ Found(hSessionTable[s], v) \in Object \cup {NULL}
      BY <1>1, FoundIsListed
    <3>. QED
      BY <2>2, <3>3, <3>4
  <2>. QED
    BY <2>1, <2>2
<1>6. TableMap[<<s, id>>] = NULL /\ TableMap' = [TableMap EXCEPT ![<<s, id>>] = o]
  <2>1. TableMap[<<s, id>>] = NULL
    BY <1>3, LookUps
  <2>2. TableMap' = [TableMap EXCEPT ![<<s, id>>] = o]
    BY <1>4, <1>5, OneKeyChanges
  <2>. QED
    BY <2>1, <2>2
<1>7. FreedIds' = FreedIds /\ s \notin FreedIds
  <2>1. \A u \in SessionId : u \in FreedIds' <=> u \in FreedIds
    BY FreedNow DEF Inserted
  <2>2. FreedIds' \subseteq SessionId /\ FreedIds \subseteq SessionId
    BY DEF FreedIds
  <2>. QED
    BY <2>1, <2>2, FreedNow DEF Inserted
<1>. QED
  BY <1>6, <1>7 DEF Map!InsertSubSession, TableMap, FreedIds

\* What no list holds is not found: the map stays.
LEMMA MissIsOffTheMap ==
    ASSUME TableInv, TableInv', NEW s \in SessionId, NEW o \in Object, Missed(s, o)
    PROVE  UNCHANGED Map!mapVars
<1>1. \A u \in SessionId : /\ hSessionTable[u] # NULL => WellFormed(hSessionTable[u])
                           /\ hSessionTable'[u] # NULL => WellFormed(hSessionTable'[u])
  BY DEF TableInv
<1>2. \A u \in SessionId : \A y : Lists(hSessionTable'[u], y) <=> Lists(hSessionTable[u], y)
  BY DEF Missed
<1>3. ASSUME NEW u \in SessionId, NEW v \in SubSessionId
      PROVE  Found(hSessionTable'[u], v) = Found(hSessionTable[u], v)
  <2>1. \A p \in Object : Found(hSessionTable'[u], v) = p <=> Found(hSessionTable[u], v) = p
    BY <1>1, <1>2, FoundIsListed
  <2>2. Found(hSessionTable'[u], v) \in Object \cup {NULL}
        /\ Found(hSessionTable[u], v) \in Object \cup {NULL}
    BY <1>1, FoundIsListed
  <2>. QED
    BY <2>1, <2>2
<1>4. TableMap' = TableMap
  <2>1. \A u \in SessionId, v \in SubSessionId : TableMap'[<<u, v>>] = TableMap[<<u, v>>]
    <3>1. ASSUME NEW u \in SessionId, NEW v \in SubSessionId
          PROVE  TableMap'[<<u, v>>] = TableMap[<<u, v>>]
      <4>1. TableMap'[<<u, v>>] = Found(hSessionTable'[u], v)
        BY LookUps
      <4>2. TableMap[<<u, v>>] = Found(hSessionTable[u], v)
        BY LookUps
      <4>. QED
        BY <1>3, <4>1, <4>2
    <3>. QED
      BY <3>1
  <2>2. \A k \in SessionId \X SubSessionId : TableMap'[k] = TableMap[k]
    BY <2>1
  <2>. QED
    BY <2>2, LookUps
<1>5. FreedIds' = FreedIds
  <2>1. \A u \in SessionId : u \in FreedIds' <=> u \in FreedIds
    BY FreedNow DEF Missed
  <2>. QED
    BY <2>1 DEF FreedIds
<1>. QED
  BY <1>4, <1>5 DEF Map!mapVars, TableMap, FreedIds

LEMMA RemoveIsOnTheMap ==
    ASSUME TableInv, TableInv', NEW s \in SessionId, NEW id \in SubSessionId,
           NEW o \in Object, NEW ownId \in BOOLEAN, Removed(s, Entry(o, id), ownId)
    PROVE  s \notin FreedIds /\ Map!RemoveSubSessionByOwnId(<<s, id>>)
<1>1. \A u \in SessionId : /\ hSessionTable[u] # NULL => WellFormed(hSessionTable[u])
                           /\ hSessionTable'[u] # NULL => WellFormed(hSessionTable'[u])
  BY DEF TableInv
<1>2. /\ Lists(hSessionTable[s], Entry(o, id))
      /\ \A y : Lists(hSessionTable'[s], y) <=> Lists(hSessionTable[s], y) /\ y # Entry(o, id)
  BY DEF Removed
<1>3. Found(hSessionTable'[s], id) = NULL
  <2>1. \A p \in Object : ~Lists(hSessionTable'[s], Entry(p, id))
    <3>1. Found(hSessionTable[s], id) = o
      BY <1>1, <1>2, FoundIsListed
    <3>. QED
      BY <1>1, <1>2, <3>1, FoundIsListed
  <2>. QED
    BY <1>1, <2>1, FoundIsListed
<1>4. \A u \in SessionId, v \in SubSessionId :
         <<u, v>> # <<s, id>> => Found(hSessionTable'[u], v) = Found(hSessionTable[u], v)
  <2>. SUFFICES ASSUME NEW u \in SessionId, NEW v \in SubSessionId, <<u, v>> # <<s, id>>
                PROVE  Found(hSessionTable'[u], v) = Found(hSessionTable[u], v)
    OBVIOUS
  <2>1. CASE u # s
    BY <2>1 DEF Removed
  <2>2. CASE u = s
    <3>1. v # id
      BY <2>2
    <3>2. \A p \in Object : Entry(p, v) # Entry(o, id)
      BY <3>1, EntryTypes
    <3>3. \A p \in Object : Found(hSessionTable'[s], v) = p <=> Found(hSessionTable[s], v) = p
      BY <1>1, <1>2, <3>2, FoundIsListed
    <3>4. Found(hSessionTable'[s], v) \in Object \cup {NULL}
          /\ Found(hSessionTable[s], v) \in Object \cup {NULL}
      BY <1>1, FoundIsListed
    <3>. QED
      BY <2>2, <3>3, <3>4
  <2>. QED
    BY <2>1, <2>2
<1>5. TableMap' = [TableMap EXCEPT ![<<s, id>>] = NULL]
  BY <1>3, <1>4, OneKeyChanges
<1>6. s \notin FreedIds /\ FreedIds \subseteq SessionId /\ FreedIds' \subseteq SessionId
  BY FreedNow DEF Removed, FreedIds
<1>7. \A u \in SessionId : u # s => (u \in FreedIds' <=> u \in FreedIds)
  BY FreedNow DEF Removed
<1>8. CASE ~Freed(hSessionTable'[s])
  <2>1. FreedIds' = FreedIds /\ FreedIds \ {s} = FreedIds
    BY <1>6, <1>7, <1>8, FreedNow
  <2>2. Map!RemoveSubSession(<<s, id>>)
    BY <1>5, <2>1 DEF Map!RemoveSubSession, TableMap, FreedIds
  <2>. QED
    BY <1>6, <2>2 DEF Map!RemoveSubSessionByOwnId
<1>9. CASE Freed(hSessionTable'[s])
  <2>1. FreedIds' = FreedIds \cup {s}
    BY <1>6, <1>7, <1>9, FreedNow
  <2>2. \A v \in SubSessionId : v # id => Found(hSessionTable[s], v) = NULL
    <3>1. \A v \in SubSessionId, p \in Object :
             v # id => ~Lists(hSessionTable[s], Entry(p, v))
      BY <1>9, EntryTypes DEF Removed
    <3>. QED
      BY <1>1, <3>1, FoundIsListed
  <2>3. Map!LastOfSession(<<s, id>>)
    <3>1. \A j \in SessionId \X SubSessionId :
             j[1] = s /\ j # <<s, id>> => TableMap[j] = NULL
      <4>1. ASSUME NEW u \in SessionId, NEW v \in SubSessionId, u = s, <<u, v>> # <<s, id>>
            PROVE  TableMap[<<u, v>>] = NULL
        BY <2>2, <4>1, LookUps
      <4>. QED
        BY <4>1
    <3>. QED
      BY <3>1 DEF Map!LastOfSession, Map!Key, TableMap
  <2>4. "freedKey" \in Faults
    BY <1>9 DEF Removed
  <2>. QED
    BY <1>5, <1>6, <2>1, <2>3, <2>4 DEF Map!RemoveSubSessionByOwnId, TableMap, FreedIds
<1>. QED
  BY <1>8, <1>9

\* The table implements the map that the handlers of module OCF work with, freed
\* session objects included (ocf_session.c:24-221).
THEOREM TableIsAMap == Spec => IsAMap
<1>1. Init => Map!EmptyMap
  <2>. SUFFICES ASSUME Init PROVE Map!EmptyMap
    OBVIOUS
  <2>1. \A s \in SessionId : hSessionTable[s] = NULL
    BY DEF Init
  <2>2. \A k \in SessionId \X SubSessionId : OCF_LookUpSubSessionObject(k[1], k[2]) = NULL
    BY <2>1 DEF OCF_LookUpSubSessionObject
  <2>. QED
    BY <2>1, <2>2 DEF Map!EmptyMap, Map!Key
<1>2. TableInv /\ TableInv' /\ [Next]_vars => [Map!MapNext(Object)]_(Map!mapVars)
  <2>. SUFFICES ASSUME TableInv, TableInv', [Next]_vars
                PROVE  [Map!MapNext(Object)]_(Map!mapVars)
    OBVIOUS
  <2>1. CASE UNCHANGED vars
    BY <2>1 DEF vars, Map!mapVars, OCF_LookUpSubSessionObject
  <2>2. CASE Next /\ ~UNCHANGED vars
    <3>1. PICK s \in SessionId, id \in SubSessionId, o \in Object :
             \/ Inserted(s, Entry(o, id))
             \/ Missed(s, o)
             \/ \E ownId \in BOOLEAN : Removed(s, Entry(o, id), ownId)
      BY <2>2, TableSteps
    <3>2. CASE Missed(s, o)
      BY <3>2, MissIsOffTheMap
    <3>3. CASE ~Missed(s, o)
      <4>1. /\ s \notin FreedIds
            /\ Map!InsertSubSession(<<s, id>>, o) \/ Map!RemoveSubSessionByOwnId(<<s, id>>)
        BY <3>1, <3>3, InsertIsOnTheMap, RemoveIsOnTheMap
      <4>2. <<s, id>> \in Map!Key /\ <<s, id>>[1] = s
        BY DEF Map!Key
      <4>. QED
        BY <4>1, <4>2 DEF Map!MapNext, FreedIds
    <3>. QED
      BY <3>2, <3>3
  <2>. QED
    BY <2>1, <2>2
<1>. QED
  BY <1>1, <1>2, TableInvariant, PTL DEF Spec, IsAMap
=============================================================================
