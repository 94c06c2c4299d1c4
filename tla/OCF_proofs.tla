----------------------------- MODULE OCF_proofs -----------------------------
(***************************************************************************)
(* Proofs about the Online Charging Function, for every set of requests,   *)
(* sessions and services, every fault and every behaviour of the clients   *)
(* unless an assumption of the theorem says otherwise.                     *)
(***************************************************************************)
EXTENDS OCFProperties, TLAPS

(***************************************************************************)
(* The inductive invariant behind the timer properties.  It adds to them   *)
(* that an object is reachable from the request that named it, and that    *)
(* oTccTimerId is set exactly while the timer runs.                        *)
(***************************************************************************)
RatedRequestsArrived == \A r \in rating : ccr[r] # NULL

TimersAreOwned ==
    \A o \in Request : armed[o] > 0 =>
        /\ armed[o] = 1
        /\ ccr[o] # NULL
        /\ SubOf(o) # NULL
        /\ SubOf(o).object = o
        /\ SubOf(o).state = "OPEN"
        /\ SubOf(o).tcc

SubSessionOK(k, s) ==
    /\ ccr[s.object] # NULL
    /\ ccr[s.object].key = k
    /\ s.poCCR # NULL => ccr[s.poCCR] # NULL
    /\ s.tcc => armed[s.object] = 1
    /\ s.state = "IDLE" => s.busy /\ ~s.tcc
    /\ ~s.busy => s.poCCR = NULL /\ s.tcc

SubSessionsAreSound == \A k \in Key : sub[k] # NULL => SubSessionOK(k, sub[k])

SessionInv ==
    /\ TypeOK
    /\ RatedRequestsArrived
    /\ TimersAreOwned
    /\ SubSessionsAreSound

-----------------------------------------------------------------------------
(* What the operators of OCF return *)

LEMMA AnswerTypes ==
    ASSUME NEW r \in Request
    PROVE  /\ \A code \in ResultCode : ErrorAnswer(r, code) \in Answer
           /\ \A s \in SubSession, code \in ResultCode,
                 p \in {"unused", "read", "misread"} :
                    RatedAnswer(s, code, r, p) \in Answer
  BY DEF ErrorAnswer, RatedAnswer, Answer, SubSession

LEMMA EmitType ==
    ASSUME TypeOK, NEW q \in Request, NEW a \in Answer, Emit(q, a) \/ AnswerSent(q, a)
    PROVE  answers' \in [Request -> Seq(Answer)]
<1>1. answers \in [Request -> Seq(Answer)]
  BY DEF TypeOK
<1>2. Append(answers[q], a) \in Seq(Answer)
  BY <1>1
<1>. QED
  BY <1>1, <1>2 DEF Emit, AnswerSent

LEMMA RejectType ==
    ASSUME TypeOK, NEW r \in Request, NEW code \in ResultCode, Reject(r, code)
    PROVE  /\ answers' \in [Request -> Seq(Answer)]
           /\ mem' \in [Request -> {"none", "held", "freed"}]
  BY AnswerTypes, EmitType DEF TypeOK, Reject

LEMMA NewSubSessionTypes ==
    ASSUME NEW r \in Request
    PROVE  /\ \A c \in {"SCUR", "ECUR"} : NewSubSession(r, c) \in SubSession
           /\ \A s \in SubSession : /\ TakeOver(s, r) \in SubSession
                                    /\ Opened(s) \in SubSession
                                    /\ Renewed(s) \in SubSession
                                    /\ Untimed(s) \in SubSession
  BY DEF NewSubSession, TakeOver, Opened, Renewed, Untimed, SubSession

LEMMA TakeOverFields ==
    ASSUME NEW s \in SubSession, NEW r \in Request
    PROVE  /\ TakeOver(s, r).object = s.object
           /\ TakeOver(s, r).poCCR = r
           /\ TakeOver(s, r).hPeer = r
           /\ TakeOver(s, r).state = s.state
           /\ TakeOver(s, r).busy
           /\ TakeOver(s, r).tcc = s.tcc
<1>1. TakeOver(s, r).busy
  BY DEF TakeOver, SubSession
<1>. QED
  BY <1>1 DEF TakeOver, SubSession

LEMMA NullIsNothing ==
    /\ \A m \in Message : m # NULL
    /\ \A s \in SubSession : s # NULL
    /\ \A r \in Request : r # NULL
  BY OCFAssumption

LEMMA DerefType ==
    ASSUME TypeOK, NEW p \in Request \cup {NULL}, NEW q \in Deref(p)
    PROVE  q \in Request /\ p \in Request
  BY NullIsNothing DEF Deref

-----------------------------------------------------------------------------
(* Types are kept by every step *)

LEMMA OpenSubSessionTypes ==
    ASSUME SessionInv, NEW r \in Request, NEW m \in Message,
           NEW c \in {"SCUR", "ECUR"}, OpenSubSession(r, m, c)
    PROVE  TypeOK'
<1>. USE DEF SessionInv
<1>1. m.key \in Key
  BY DEF Message
<1>2. ccr' \in [Request -> Message \cup {NULL}]
  BY DEF TypeOK, OpenSubSession, Arrives
<1>3. sub' \in [Key -> SubSession \cup {NULL}]
  BY <1>1, NewSubSessionTypes DEF TypeOK, OpenSubSession
<1>4. /\ mem' \in [Request -> {"none", "held", "freed"}]
      /\ rating' \subseteq Request
      /\ answers' \in [Request -> Seq(Answer)]
  <2>1. "UNABLE_TO_COMPLY" \in ResultCode
    BY DEF ResultCode
  <2>. QED
    BY <2>1, RejectType DEF TypeOK, OpenSubSession, SendRatingRequest
<1>5. UNCHANGED <<up, dangling, armed>>
  BY DEF OpenSubSession
<1>. QED
  BY <1>2, <1>3, <1>4, <1>5 DEF TypeOK

LEMMA UseSubSessionTypes ==
    ASSUME SessionInv, NEW r \in Request, NEW m \in Message,
           NEW code \in ResultCode, UseSubSession(r, m, code)
    PROVE  TypeOK'
<1>. USE DEF SessionInv
<1>1. m.key \in Key
  BY DEF Message
<1>2. ccr' \in [Request -> Message \cup {NULL}]
  BY DEF TypeOK, UseSubSession, Arrives
<1>3. sub' \in [Key -> SubSession \cup {NULL}]
  BY <1>1, NewSubSessionTypes DEF TypeOK, UseSubSession
<1>4. /\ mem' \in [Request -> {"none", "held", "freed"}]
      /\ rating' \subseteq Request
      /\ answers' \in [Request -> Seq(Answer)]
  <2>1. "UNABLE_TO_COMPLY" \in ResultCode
    BY DEF ResultCode
  <2>. QED
    BY <2>1, RejectType DEF TypeOK, UseSubSession, SendRatingRequest
<1>5. UNCHANGED <<up, dangling, armed>>
  BY DEF UseSubSession
<1>. QED
  BY <1>2, <1>3, <1>4, <1>5 DEF TypeOK

LEMMA RequestTypes ==
    ASSUME SessionInv, NEW r \in Request, RequestArrives(r)
    PROVE  TypeOK'
<1>. USE DEF SessionInv
<1>0. {"UNABLE_TO_COMPLY", "UNKNOWN_SESSION_ID", "COMMAND_UNSUPPORTED"} \subseteq ResultCode
  BY DEF ResultCode
<1>1. CASE UnsupportedCommand(r)
  <2>1. PICK m \in Message : Arrives(r, m)
                             /\ Emit(r, ErrorAnswer(r, "COMMAND_UNSUPPORTED"))
                             /\ UNCHANGED <<up, mem, sub, dangling, armed, rating>>
    BY <1>1 DEF UnsupportedCommand
  <2>2. answers' \in [Request -> Seq(Answer)]
    BY <1>0, <2>1, AnswerTypes, EmitType
  <2>. QED
    BY <2>1, <2>2 DEF TypeOK, Arrives
<1>2. CASE ExtractionFails(r)
  BY <1>2 DEF TypeOK, ExtractionFails, Arrives
<1>3. CASE UnknownRequestType(r)
  <2>1. PICK m \in Message : Arrives(r, m)
                             /\ Reject(r, "UNABLE_TO_COMPLY")
                             /\ UNCHANGED <<up, sub, dangling, armed, rating>>
    BY <1>3 DEF UnknownRequestType
  <2>. QED
    BY <1>0, <2>1, RejectType DEF TypeOK, Arrives
<1>4. CASE InitialRequest(r)
  BY <1>4, OpenSubSessionTypes DEF InitialRequest, OCF_CheckChargingType
<1>5. CASE EventRequest(r)
  BY <1>5, OpenSubSessionTypes DEF EventRequest
<1>6. CASE UpdateRequest(r)
  BY <1>0, <1>6, UseSubSessionTypes DEF UpdateRequest
<1>7. CASE TerminateRequest(r)
  BY <1>0, <1>7, UseSubSessionTypes DEF TerminateRequest
<1>. QED
  BY <1>1, <1>2, <1>3, <1>4, <1>5, <1>6, <1>7 DEF RequestArrives

\* What a handler knows of the response it is given.
LEMMA DeliveredFacts ==
    ASSUME SessionInv, NEW r \in Request, r \in rating, sub[ccr[r].key] # NULL
    PROVE  /\ ccr[r] \in Message
           /\ ccr[r].key \in Key
           /\ sub[ccr[r].key] \in SubSession
           /\ sub[ccr[r].key].object \in Request
           /\ sub[ccr[r].key].poCCR \in Request \cup {NULL}
<1>1. ccr[r] \in Message
  BY DEF SessionInv, TypeOK, RatedRequestsArrived
<1>2. ccr[r].key \in Key
  BY <1>1 DEF Message
<1>3. sub[ccr[r].key] \in SubSession
  BY <1>2 DEF SessionInv, TypeOK
<1>. QED
  BY <1>1, <1>2, <1>3 DEF SubSession

\* oTccTimerId is set while the timer runs, so KillTimer stops the only one.
LEMMA KillTimerStops ==
    ASSUME SessionInv, NEW k \in Key, sub[k] # NULL
    PROVE  KillTimer(sub[k]) = [armed EXCEPT ![sub[k].object] = 0]
<1>. DEFINE s == sub[k]
<1>1. /\ s \in SubSession
      /\ s.object \in Request
      /\ s.tcc \in BOOLEAN
  BY DEF SessionInv, TypeOK, SubSession
<1>2. /\ ccr[s.object].key = k
      /\ s.tcc => armed[s.object] = 1
  BY DEF SessionInv, SubSessionsAreSound, SubSessionOK
<1>3. armed \in [Request -> Nat]
  BY DEF SessionInv, TypeOK
<1>4. CASE s.tcc
  <2>1. armed[s.object] - 1 = 0
    BY <1>2, <1>4
  <2>2. KillTimer(s) = [armed EXCEPT ![s.object] = armed[s.object] - 1]
    BY <1>4 DEF KillTimer
  <2>. QED
    BY <2>1, <2>2
<1>5. CASE ~s.tcc
  <2>1. armed[s.object] = 0
    BY <1>1, <1>2, <1>3, <1>5 DEF SessionInv, TimersAreOwned, SubOf
  <2>. QED
    BY <1>1, <1>3, <1>5, <2>1 DEF KillTimer
<1>. QED
  BY <1>1, <1>4, <1>5

LEMMA ResponseTypes ==
    ASSUME SessionInv, NEW r \in Request, HandleResponse(r)
    PROVE  TypeOK'
<1>. DEFINE k == ccr[r].key
            s == sub[k]
<1>0. {"SUCCESS", "RATING_FAILED", "NONE", "ARBITRARY"} \subseteq ResultCode
  BY DEF ResultCode
<1>1. CASE ResponseWithoutSession(r)
  BY <1>1 DEF SessionInv, TypeOK, ResponseWithoutSession
<1>2. CASE CCRReadFaults(r)
  BY <1>2 DEF SessionInv, TypeOK, CCRReadFaults, Crash
<1>3. ASSUME NEW q \in Request, UninitialisedAnswerFaults(r, q)
      PROVE  TypeOK'
  BY <1>3 DEF SessionInv, TypeOK, UninitialisedAnswerFaults, Crash
<1>4. ASSUME NEW q \in Request, NoHandler(r, q)
      PROVE  TypeOK'
  BY <1>4 DEF SessionInv, TypeOK, NoHandler, Delivered
<1>5. ASSUME NEW q \in Request, NEW state, Delivered(r, q, state)
      PROVE  /\ TypeOK
             /\ up' \in BOOLEAN
             /\ ccr' \in [Request -> Message \cup {NULL}]
             /\ rating' \subseteq Request
             /\ k \in Key
             /\ s \in SubSession
             /\ s.object \in Request
             /\ [mem EXCEPT ![q] = "freed"] \in [Request -> {"none", "held", "freed"}]
             /\ KillTimer(s) \in [Request -> Nat]
             /\ StartTimer(armed, s.object) \in [Request -> Nat]
             /\ StartTimer(KillTimer(s), s.object) \in [Request -> Nat]
  <2>1. /\ TypeOK
        /\ r \in rating
        /\ s # NULL
        /\ rating' = rating \ {r}
        /\ up' = up
        /\ ccr' = ccr
    BY <1>5 DEF SessionInv, Delivered
  <2>2. /\ k \in Key
        /\ s \in SubSession
        /\ s.object \in Request
    BY <2>1, DeliveredFacts
  <2>3. KillTimer(s) = [armed EXCEPT ![s.object] = 0]
    BY <2>1, <2>2, KillTimerStops
  <2>. QED
    BY <2>1, <2>2, <2>3 DEF TypeOK, StartTimer
<1>6. ASSUME NEW q \in Request, NEW code \in ResultCode, NEW state,
             NEW p \in {"unused", "read", "misread"},
             Delivered(r, q, state), AnswerSent(q, RatedAnswer(s, code, r, p))
      PROVE  answers' \in [Request -> Seq(Answer)]
  BY <1>5, <1>6, AnswerTypes, EmitType
<1>7. /\ Read(PayloadOf(s), r) \in {"unused", "read", "misread"}
      /\ Read("Price", r) \in {"unused", "read", "misread"}
      /\ Read("Tariff", r) \in {"unused", "read", "misread"}
  BY DEF Read
<1>8. ASSUME NEW q \in Request, NEW state, Delivered(r, q, state), AnswerFails
      PROVE  TypeOK'
  BY <1>5, <1>8 DEF TypeOK, AnswerFails
<1>9. ASSUME RemoveSubSession(k) \/ RemoveSubSessionByOwnId(k),
             TypeOK, k \in Key
      PROVE  /\ sub' \in [Key -> SubSession \cup {NULL}]
             /\ dangling' \subseteq SessionId
  <2>1. k[1] \in SessionId
    BY <1>9 DEF Key
  <2>. QED
    BY <1>9, <2>1 DEF TypeOK, RemoveSubSession, RemoveSubSessionByOwnId
<1>10. ASSUME NEW q \in Request, OCF_Idle_InitReqProcessingSuccessful(r, q)
       PROVE  TypeOK'
  <2>1. Delivered(r, q, "IDLE")
    BY <1>10 DEF OCF_Idle_InitReqProcessingSuccessful, Dispatched
  <2>2. CASE AnswerFails
    BY <1>8, <2>1, <2>2
  <2>3. CASE /\ AnswerSent(q, RatedAnswer(s, "SUCCESS", r, Read(PayloadOf(s), r)))
             /\ FreeCCR(q)
             /\ sub' = [sub EXCEPT ![k] = Opened(s)]
             /\ armed' = StartTimer(armed, s.object)
             /\ UNCHANGED dangling
    <3>1. answers' \in [Request -> Seq(Answer)]
      BY <1>0, <1>6, <1>7, <2>1, <2>3
    <3>. QED
      BY <1>5, <2>1, <2>3, <3>1, NewSubSessionTypes DEF TypeOK, FreeCCR
  <2>. QED
    BY <1>10, <2>2, <2>3 DEF OCF_Idle_InitReqProcessingSuccessful
<1>11. ASSUME NEW q \in Request, OCF_Idle_InitReqProcessingUnSuccessful(r, q)
       PROVE  TypeOK'
  <2>. DEFINE code == IF s.charging = "SCUR" THEN "RATING_FAILED" ELSE "ARBITRARY"
  <2>1. Delivered(r, q, "IDLE")
    BY <1>11 DEF OCF_Idle_InitReqProcessingUnSuccessful, Dispatched
  <2>2. CASE AnswerFails
    BY <1>8, <2>1, <2>2
  <2>3. CASE /\ AnswerSent(q, RatedAnswer(s, code, r, "unused"))
             /\ FreeCCR(q)
             /\ RemoveSubSession(k)
             /\ UNCHANGED armed
    <3>1. code \in ResultCode
      BY <1>0
    <3>2. answers' \in [Request -> Seq(Answer)]
      BY <1>6, <2>1, <2>3, <3>1
    <3>. QED
      BY <1>5, <1>9, <2>1, <2>3, <3>2 DEF TypeOK, FreeCCR
  <2>. QED
    BY <1>11, <2>2, <2>3 DEF OCF_Idle_InitReqProcessingUnSuccessful
<1>12. ASSUME NEW q \in Request, OCF_Idle_EventReqProcessingSuccessful(r, q)
       PROVE  TypeOK'
  <2>1. Delivered(r, q, "IDLE")
    BY <1>12 DEF OCF_Idle_EventReqProcessingSuccessful, Dispatched
  <2>2. CASE AnswerFails
    BY <1>8, <2>1, <2>2
  <2>3. CASE /\ AnswerSent(q, RatedAnswer(s, "SUCCESS", r, Read("Price", r)))
             /\ FreeCCR(q)
             /\ RemoveSubSession(k)
             /\ UNCHANGED armed
    <3>1. answers' \in [Request -> Seq(Answer)]
      BY <1>0, <1>6, <1>7, <2>1, <2>3
    <3>. QED
      BY <1>5, <1>9, <2>1, <2>3, <3>1 DEF TypeOK, FreeCCR
  <2>. QED
    BY <1>12, <2>2, <2>3 DEF OCF_Idle_EventReqProcessingSuccessful
<1>13. ASSUME NEW q \in Request, OCF_Idle_EventReqProcessingUnSuccessful(r, q)
       PROVE  TypeOK'
  BY <1>5, <1>13 DEF TypeOK, OCF_Idle_EventReqProcessingUnSuccessful, Dispatched
<1>14. ASSUME NEW q \in Request, OCF_Open_UpdateReqProcessingSuccessful(r, q)
       PROVE  TypeOK'
  <2>1. Delivered(r, q, "OPEN")
    BY <1>14 DEF OCF_Open_UpdateReqProcessingSuccessful, Dispatched
  <2>2. CASE AnswerFails
    BY <1>8, <2>1, <2>2
  <2>3. CASE /\ AnswerSent(q, RatedAnswer(s, "SUCCESS", r, Read("Tariff", r)))
             /\ FreeCCR(q)
             /\ sub' = [sub EXCEPT ![k] = Renewed(s)]
             /\ armed' = StartTimer(KillTimer(s), s.object)
             /\ UNCHANGED dangling
    <3>1. answers' \in [Request -> Seq(Answer)]
      BY <1>0, <1>6, <1>7, <2>1, <2>3
    <3>. QED
      BY <1>5, <2>1, <2>3, <3>1, NewSubSessionTypes DEF TypeOK, FreeCCR
  <2>. QED
    BY <1>14, <2>2, <2>3 DEF OCF_Open_UpdateReqProcessingSuccessful
<1>15. ASSUME NEW q \in Request, OCF_Open_UpdateReqProcessingUnSuccessful(r, q)
       PROVE  TypeOK'
  <2>. DEFINE code == IF s.charging = "SCUR" THEN "RATING_FAILED" ELSE "NONE"
  <2>1. Delivered(r, q, "OPEN")
    BY <1>15 DEF OCF_Open_UpdateReqProcessingUnSuccessful, Dispatched
  <2>2. CASE AnswerFails
    BY <1>8, <2>1, <2>2
  <2>3. CASE /\ AnswerSent(q, RatedAnswer(s, code, r, "unused"))
             /\ sub' = [sub EXCEPT ![k] = Untimed(s)]
             /\ armed' = KillTimer(s)
             /\ UNCHANGED <<mem, dangling>>
    <3>1. code \in ResultCode
      BY <1>0
    <3>2. answers' \in [Request -> Seq(Answer)]
      BY <1>6, <2>1, <2>3, <3>1
    <3>. QED
      BY <1>5, <2>1, <2>3, <3>2, NewSubSessionTypes DEF TypeOK
  <2>. QED
    BY <1>15, <2>2, <2>3 DEF OCF_Open_UpdateReqProcessingUnSuccessful
<1>16. ASSUME NEW q \in Request, OCF_Open_TerminateReqProcessingSuccessful(r, q)
       PROVE  TypeOK'
  <2>1. Delivered(r, q, "OPEN")
    BY <1>16 DEF OCF_Open_TerminateReqProcessingSuccessful, Dispatched
  <2>2. CASE AnswerFails
    BY <1>8, <2>1, <2>2
  <2>3. CASE /\ AnswerSent(q, RatedAnswer(s, "SUCCESS", r, Read(PayloadOf(s), r)))
             /\ FreeCCR(q)
             /\ armed' = KillTimer(s)
             /\ RemoveSubSession(k)
    <3>1. answers' \in [Request -> Seq(Answer)]
      BY <1>0, <1>6, <1>7, <2>1, <2>3
    <3>. QED
      BY <1>5, <1>9, <2>1, <2>3, <3>1 DEF TypeOK, FreeCCR
  <2>. QED
    BY <1>16, <2>2, <2>3 DEF OCF_Open_TerminateReqProcessingSuccessful
<1>17. ASSUME NEW q \in Request, OCF_Open_TerminateReqProcessingUnSuccessful(r, q)
       PROVE  TypeOK'
  <2>. DEFINE code == IF s.charging = "SCUR" THEN "RATING_FAILED" ELSE "NONE"
  <2>1. Delivered(r, q, "OPEN")
    BY <1>17 DEF OCF_Open_TerminateReqProcessingUnSuccessful, Dispatched
  <2>2. CASE AnswerFails
    BY <1>8, <2>1, <2>2
  <2>3. CASE /\ AnswerSent(q, RatedAnswer(s, code, r, "unused"))
             /\ FreeCCR(q)
             /\ armed' = KillTimer(s)
             /\ RemoveSubSessionByOwnId(k)
    <3>1. code \in ResultCode
      BY <1>0
    <3>2. answers' \in [Request -> Seq(Answer)]
      BY <1>6, <2>1, <2>3, <3>1
    <3>. QED
      BY <1>5, <1>9, <2>1, <2>3, <3>2 DEF TypeOK, FreeCCR
  <2>. QED
    BY <1>17, <2>2, <2>3 DEF OCF_Open_TerminateReqProcessingUnSuccessful
<1>. QED
  BY <1>1, <1>2, <1>3, <1>4, <1>10, <1>11, <1>12, <1>13, <1>14, <1>15, <1>16, <1>17
     DEF HandleResponse, Granted, Refused, Unhandled

LEMMA OtherTypes ==
    ASSUME SessionInv, NEW r \in Request,
           \/ ResponseLost(r) \/ FreedSessionFaults(r)
           \/ DatabaseFaults(r) \/ TimerExpires(r)
    PROVE  TypeOK'
<1>. DEFINE k == ccr[r].key
<1>1. CASE ResponseLost(r)
  BY <1>1 DEF SessionInv, TypeOK, ResponseLost
<1>2. CASE FreedSessionFaults(r)
  <2>1. ccr' \in [Request -> Message \cup {NULL}]
    BY <1>2 DEF SessionInv, TypeOK, FreedSessionFaults, Arrives
  <2>. QED
    BY <1>2, <2>1 DEF SessionInv, TypeOK, FreedSessionFaults, Crash
<1>3. CASE TimerExpires(r)
  <2>1. armed[r] > 0
    BY <1>3 DEF TimerExpires
  <2>2. /\ ccr[r] # NULL
        /\ sub[k] # NULL
        /\ sub[k].object = r
        /\ sub[k].state = "OPEN"
        /\ armed[r] = 1
    BY <2>1 DEF SessionInv, TimersAreOwned, SubOf
  <2>3. k[1] \in SessionId
    BY <2>2 DEF SessionInv, TypeOK, Message, Key
  <2>4. /\ armed' = [armed EXCEPT ![r] = @ - 1]
        /\ RemoveSubSession(k)
        /\ UNCHANGED <<up, ccr, mem, rating, answers>>
    BY <1>3, <2>2 DEF TimerExpires
  <2>5. armed' \in [Request -> Nat]
    BY <2>2, <2>4 DEF SessionInv, TypeOK
  <2>. QED
    BY <2>3, <2>4, <2>5 DEF SessionInv, TypeOK, RemoveSubSession
<1>4. CASE DatabaseFaults(r)
  BY <1>4 DEF SessionInv, TypeOK, DatabaseFaults, Crash
<1>. QED
  BY <1>1, <1>2, <1>3, <1>4

-----------------------------------------------------------------------------
(* The session invariant is kept by every step *)

\* A step that touches one sub-session, and timers of its object only, keeps the
\* invariant when what it leaves at that key is sound.
LEMMA LocalStep ==
    ASSUME SessionInv, TypeOK', RatedRequestsArrived', NEW k \in Key,
           \A q \in Request : ccr[q] # NULL => ccr'[q] = ccr[q],
           \A j \in Key : j # k => sub'[j] = sub[j],
           \A o \in Request : (ccr[o] = NULL \/ ccr[o].key # k) => armed'[o] = armed[o],
           \A o \in Request : (armed'[o] > 0 /\ ccr'[o] # NULL /\ ccr'[o].key = k) =>
                /\ armed'[o] = 1
                /\ sub'[k] # NULL
                /\ sub'[k].object = o
                /\ sub'[k].state = "OPEN"
                /\ sub'[k].tcc,
           sub'[k] # NULL =>
                /\ ccr'[sub'[k].object] # NULL
                /\ ccr'[sub'[k].object].key = k
                /\ sub'[k].poCCR # NULL => ccr'[sub'[k].poCCR] # NULL
                /\ sub'[k].tcc => armed'[sub'[k].object] = 1
                /\ sub'[k].state = "IDLE" => sub'[k].busy /\ ~sub'[k].tcc
                /\ ~sub'[k].busy => sub'[k].poCCR = NULL /\ sub'[k].tcc
    PROVE  SessionInv'
<1>1. TimersAreOwned'
  <2>. SUFFICES ASSUME NEW o \in Request, armed'[o] > 0
                PROVE  /\ armed'[o] = 1
                       /\ ccr'[o] # NULL
                       /\ sub'[ccr'[o].key] # NULL
                       /\ sub'[ccr'[o].key].object = o
                       /\ sub'[ccr'[o].key].state = "OPEN"
                       /\ sub'[ccr'[o].key].tcc
    BY DEF TimersAreOwned, SubOf
  <2>1. CASE ccr[o] = NULL
    BY <2>1 DEF SessionInv, TimersAreOwned
  <2>2. CASE ccr[o] # NULL /\ ccr[o].key = k
    BY <2>2
  <2>3. CASE ccr[o] # NULL /\ ccr[o].key # k
    <3>1. ccr[o].key \in Key
      BY <2>3 DEF SessionInv, TypeOK, Message
    <3>. QED
      BY <2>3, <3>1 DEF SessionInv, TimersAreOwned, SubOf
  <2>. QED
    BY <2>1, <2>2, <2>3
<1>2. SubSessionsAreSound'
  <2>. SUFFICES ASSUME NEW j \in Key, sub'[j] # NULL
                PROVE  /\ ccr'[sub'[j].object] # NULL
                       /\ ccr'[sub'[j].object].key = j
                       /\ sub'[j].poCCR # NULL => ccr'[sub'[j].poCCR] # NULL
                       /\ sub'[j].tcc => armed'[sub'[j].object] = 1
                       /\ sub'[j].state = "IDLE" => sub'[j].busy /\ ~sub'[j].tcc
                       /\ ~sub'[j].busy => sub'[j].poCCR = NULL /\ sub'[j].tcc
    BY DEF SubSessionsAreSound, SubSessionOK
  <2>1. CASE j = k
    BY <2>1
  <2>2. CASE j # k
    <3>1. /\ sub'[j] = sub[j]
          /\ sub[j].object \in Request
          /\ sub[j].poCCR \in Request \cup {NULL}
      BY <2>2 DEF SessionInv, TypeOK, SubSession
    <3>2. SubSessionOK(j, sub[j])
      BY <3>1 DEF SessionInv, SubSessionsAreSound
    <3>. QED
      BY <2>2, <3>1, <3>2 DEF SubSessionOK
  <2>. QED
    BY <2>1, <2>2
<1>. QED
  BY <1>1, <1>2 DEF SessionInv

\* A step that leaves the table and the timers alone keeps the invariant.
LEMMA TableUntouched ==
    ASSUME SessionInv, TypeOK', RatedRequestsArrived',
           \A q \in Request : ccr[q] # NULL => ccr'[q] = ccr[q],
           UNCHANGED <<sub, armed>>
    PROVE  SessionInv'
<1>1. TimersAreOwned'
  BY DEF SessionInv, TimersAreOwned, SubOf
<1>2. SubSessionsAreSound'
  <2>. SUFFICES ASSUME NEW j \in Key, sub[j] # NULL
                PROVE  /\ ccr'[sub[j].object] # NULL
                       /\ ccr'[sub[j].object].key = j
                       /\ sub[j].poCCR # NULL => ccr'[sub[j].poCCR] # NULL
                       /\ sub[j].tcc => armed[sub[j].object] = 1
                       /\ sub[j].state = "IDLE" => sub[j].busy /\ ~sub[j].tcc
                       /\ ~sub[j].busy => sub[j].poCCR = NULL /\ sub[j].tcc
    BY DEF SubSessionsAreSound, SubSessionOK
  <2>1. /\ sub[j].object \in Request
        /\ sub[j].poCCR \in Request \cup {NULL}
    BY DEF SessionInv, TypeOK, SubSession
  <2>2. SubSessionOK(j, sub[j])
    BY DEF SessionInv, SubSessionsAreSound
  <2>. QED
    BY <2>1, <2>2 DEF SubSessionOK
<1>. QED
  BY <1>1, <1>2 DEF SessionInv

LEMMA CrashIsSound ==
    ASSUME Crash, TypeOK'
    PROVE  SessionInv'
<1>1. /\ \A k \in Key : sub'[k] = NULL
      /\ \A o \in Request : armed'[o] = 0
      /\ rating' = {}
  BY DEF Crash
<1>. QED
  BY <1>1 DEF SessionInv, RatedRequestsArrived, TimersAreOwned, SubSessionsAreSound

\* What every request leaves as it was, and what it records.
LEMMA ArrivalFacts ==
    ASSUME TypeOK, NEW r \in Request, NEW m \in Message, Arrives(r, m)
    PROVE  /\ ccr[r] = NULL
           /\ ccr'[r] = m
           /\ ccr'[r] # NULL
           /\ m.key \in Key
           /\ \A q \in Request : ccr[q] # NULL => q # r /\ ccr'[q] = ccr[q]
  BY NullIsNothing DEF TypeOK, Arrives, Message

LEMMA OpenSubSessionIsSound ==
    ASSUME SessionInv, NEW r \in Request, NEW m \in Message,
           NEW c \in {"SCUR", "ECUR"}, OpenSubSession(r, m, c)
    PROVE  SessionInv'
<1>. DEFINE k == m.key
<1>1. /\ TypeOK
      /\ TypeOK'
      /\ Arrives(r, m)
      /\ armed' = armed
  BY OpenSubSessionTypes DEF SessionInv, OpenSubSession
<1>2. /\ ccr[r] = NULL
      /\ ccr'[r] = m
      /\ ccr'[r] # NULL
      /\ k \in Key
      /\ \A q \in Request : ccr[q] # NULL => q # r /\ ccr'[q] = ccr[q]
  BY <1>1, ArrivalFacts
<1>3. RatedRequestsArrived'
  <2>1. rating' \subseteq rating \cup {r}
    BY DEF OpenSubSession, SendRatingRequest
  <2>2. \A q \in rating : q \in Request /\ ccr[q] # NULL
    BY DEF SessionInv, TypeOK, RatedRequestsArrived
  <2>. QED
    BY <1>2, <2>1, <2>2 DEF RatedRequestsArrived
<1>4. CASE UNCHANGED sub
  BY <1>1, <1>2, <1>3, <1>4, TableUntouched
<1>5. CASE sub[k] = NULL /\ sub' = [sub EXCEPT ![k] = NewSubSession(r, c)]
  <2>1. /\ sub'[k] = NewSubSession(r, c)
        /\ \A j \in Key : j # k => sub'[j] = sub[j]
    BY <1>1, <1>2, <1>5 DEF TypeOK
  <2>2. /\ sub'[k].object = r
        /\ sub'[k].poCCR = r
        /\ sub'[k].state = "IDLE"
        /\ sub'[k].busy
        /\ ~sub'[k].tcc
    BY <2>1 DEF NewSubSession
  <2>3. \A o \in Request : armed'[o] > 0 => ccr'[o].key # k
    BY <1>1, <1>2, <1>5 DEF SessionInv, TimersAreOwned, SubOf
  <2>4. /\ sub'[k].tcc => armed'[sub'[k].object] = 1
        /\ ~sub'[k].busy => sub'[k].poCCR = NULL /\ sub'[k].tcc
    BY <2>2
  <2>. QED
    BY <1>1, <1>2, <1>3, <2>1, <2>2, <2>3, <2>4, LocalStep
<1>. QED
  BY <1>4, <1>5 DEF OpenSubSession

LEMMA UseSubSessionIsSound ==
    ASSUME SessionInv, NEW r \in Request, NEW m \in Message,
           NEW code \in ResultCode, UseSubSession(r, m, code)
    PROVE  SessionInv'
<1>. DEFINE k == m.key
<1>1. /\ TypeOK
      /\ TypeOK'
      /\ Arrives(r, m)
      /\ armed' = armed
  BY UseSubSessionTypes DEF SessionInv, UseSubSession
<1>2. /\ ccr[r] = NULL
      /\ ccr'[r] = m
      /\ ccr'[r] # NULL
      /\ k \in Key
      /\ \A q \in Request : ccr[q] # NULL => q # r /\ ccr'[q] = ccr[q]
  BY <1>1, ArrivalFacts
<1>3. RatedRequestsArrived'
  <2>1. rating' \subseteq rating \cup {r}
    BY DEF UseSubSession, SendRatingRequest
  <2>2. \A q \in rating : q \in Request /\ ccr[q] # NULL
    BY DEF SessionInv, TypeOK, RatedRequestsArrived
  <2>. QED
    BY <1>2, <2>1, <2>2 DEF RatedRequestsArrived
<1>4. CASE UNCHANGED sub
  BY <1>1, <1>2, <1>3, <1>4, TableUntouched
<1>5. CASE sub[k] # NULL /\ ~InProgress(sub[k]) /\ sub' = [sub EXCEPT ![k] = TakeOver(@, r)]
  <2>1. /\ sub[k] \in SubSession
        /\ sub'[k] = TakeOver(sub[k], r)
        /\ \A j \in Key : j # k => sub'[j] = sub[j]
    BY <1>1, <1>2, <1>5 DEF TypeOK
  <2>2. /\ sub'[k] \in SubSession
        /\ sub'[k].object = sub[k].object
        /\ sub'[k].poCCR = r
        /\ sub'[k].state = sub[k].state
        /\ sub'[k].busy
        /\ sub'[k].tcc = sub[k].tcc
    <3>1. TakeOver(sub[k], r) \in SubSession
      BY <2>1, NewSubSessionTypes
    <3>. QED
      BY <2>1, <3>1, TakeOverFields
  <2>3. /\ sub[k].object \in Request
        /\ ccr[sub[k].object] # NULL
        /\ ccr[sub[k].object].key = k
        /\ sub[k].tcc
        /\ armed[sub[k].object] = 1
        /\ sub[k].state # "IDLE"
    BY <1>2, <1>5, <2>1 DEF SessionInv, SubSessionsAreSound, SubSessionOK, InProgress, SubSession
  <2>4. sub'[k] # NULL
    BY <2>2, NullIsNothing
  <2>5. /\ ccr'[sub'[k].object] # NULL
        /\ ccr'[sub'[k].object].key = k
        /\ sub'[k].poCCR # NULL => ccr'[sub'[k].poCCR] # NULL
        /\ sub'[k].tcc => armed'[sub'[k].object] = 1
        /\ sub'[k].state = "IDLE" => sub'[k].busy /\ ~sub'[k].tcc
        /\ ~sub'[k].busy => sub'[k].poCCR = NULL /\ sub'[k].tcc
    BY <1>1, <1>2, <2>2, <2>3
  <2>6. ASSUME NEW o \in Request, armed'[o] > 0, ccr'[o] # NULL, ccr'[o].key = k
        PROVE  /\ armed'[o] = 1
               /\ sub'[k] # NULL
               /\ sub'[k].object = o
               /\ sub'[k].state = "OPEN"
               /\ sub'[k].tcc
    <3>1. /\ armed[o] > 0
          /\ ccr[o] # NULL
          /\ ccr[o].key = k
      BY <1>1, <1>2, <2>6 DEF SessionInv, TimersAreOwned
    <3>. QED
      BY <1>1, <2>2, <2>3, <2>4, <3>1 DEF SessionInv, TimersAreOwned, SubOf
  <2>. QED
    BY <1>1, <1>2, <1>3, <2>1, <2>5, <2>6, LocalStep
<1>. QED
  BY <1>4, <1>5 DEF UseSubSession

LEMMA RequestIsSound ==
    ASSUME SessionInv, NEW r \in Request, RequestArrives(r)
    PROVE  SessionInv'
<1>0. {"UNABLE_TO_COMPLY", "UNKNOWN_SESSION_ID", "COMMAND_UNSUPPORTED"} \subseteq ResultCode
  BY DEF ResultCode
<1>1. ASSUME UnsupportedCommand(r) \/ ExtractionFails(r) \/ UnknownRequestType(r)
      PROVE  SessionInv'
  <2>1. PICK m \in Message : Arrives(r, m) /\ UNCHANGED <<sub, armed, rating>>
    BY <1>1 DEF UnsupportedCommand, ExtractionFails, UnknownRequestType
  <2>2. \A q \in Request : ccr[q] # NULL => ccr'[q] = ccr[q]
    BY <2>1, ArrivalFacts DEF SessionInv
  <2>3. RatedRequestsArrived'
    BY <2>1, <2>2 DEF SessionInv, TypeOK, RatedRequestsArrived
  <2>. QED
    BY <2>1, <2>2, <2>3, RequestTypes, TableUntouched
<1>2. CASE InitialRequest(r)
  BY <1>2, OpenSubSessionIsSound DEF InitialRequest, OCF_CheckChargingType
<1>3. CASE EventRequest(r)
  BY <1>3, OpenSubSessionIsSound DEF EventRequest
<1>4. CASE UpdateRequest(r)
  BY <1>0, <1>4, UseSubSessionIsSound DEF UpdateRequest
<1>5. CASE TerminateRequest(r)
  BY <1>0, <1>5, UseSubSessionIsSound DEF TerminateRequest
<1>. QED
  BY <1>1, <1>2, <1>3, <1>4, <1>5 DEF RequestArrives

\* Freeing a sub-session whose timer has been stopped.
LEMMA RemovalIsSound ==
    ASSUME SessionInv, TypeOK', RatedRequestsArrived', NEW k \in Key, sub[k] # NULL,
           UNCHANGED ccr,
           sub' = [sub EXCEPT ![k] = NULL],
           armed' = [armed EXCEPT ![sub[k].object] = 0]
    PROVE  SessionInv'
<1>1. /\ sub'[k] = NULL
      /\ \A j \in Key : j # k => sub'[j] = sub[j]
  BY DEF SessionInv, TypeOK
<1>2. /\ sub[k].object \in Request
      /\ ccr[sub[k].object] # NULL
      /\ ccr[sub[k].object].key = k
  BY DEF SessionInv, TypeOK, SubSession, SubSessionsAreSound, SubSessionOK
<1>3. ASSUME NEW o \in Request
      PROVE  /\ armed'[o] = IF o = sub[k].object THEN 0 ELSE armed[o]
             /\ ccr[o] # NULL /\ ccr[o].key = k => armed'[o] = 0
             /\ ccr[o] = NULL \/ ccr[o].key # k => armed'[o] = armed[o]
  <2>1. armed'[o] = IF o = sub[k].object THEN 0 ELSE armed[o]
    BY DEF SessionInv, TypeOK
  <2>2. ccr[o].key = k /\ o # sub[k].object => ~(armed[o] > 0)
    BY DEF SessionInv, TimersAreOwned, SubOf
  <2>3. armed[o] \in Nat
    BY DEF SessionInv, TypeOK
  <2>. QED
    BY <1>2, <2>1, <2>2, <2>3
<1>4. \A o \in Request : ccr'[o] # NULL /\ ccr'[o].key = k => ~(armed'[o] > 0)
  BY <1>3
<1>. QED
  BY <1>1, <1>3, <1>4, LocalStep

\* Replacing a sub-session by t, with its timer as t says.
LEMMA ReplacementIsSound ==
    ASSUME SessionInv, TypeOK', RatedRequestsArrived', NEW k \in Key, sub[k] # NULL,
           UNCHANGED ccr,
           NEW t \in SubSession,
           t.object = sub[k].object,
           t.poCCR # NULL => t.poCCR = sub[k].poCCR /\ t.busy,
           t.state = "OPEN",
           ~t.busy => t.tcc,
           NEW n \in {0, 1},
           t.tcc <=> n = 1,
           sub' = [sub EXCEPT ![k] = t],
           armed' = [armed EXCEPT ![sub[k].object] = n]
    PROVE  SessionInv'
<1>1. /\ sub'[k] = t
      /\ \A j \in Key : j # k => sub'[j] = sub[j]
  BY DEF SessionInv, TypeOK
<1>2. /\ sub[k].object \in Request
      /\ ccr[sub[k].object] # NULL
      /\ ccr[sub[k].object].key = k
      /\ sub[k].poCCR # NULL => ccr[sub[k].poCCR] # NULL
  BY DEF SessionInv, TypeOK, SubSession, SubSessionsAreSound, SubSessionOK
<1>3. t # NULL
  BY NullIsNothing
<1>4. ASSUME NEW o \in Request
      PROVE  /\ armed'[o] = IF o = sub[k].object THEN n ELSE armed[o]
             /\ ccr[o] # NULL /\ ccr[o].key = k /\ armed'[o] > 0
                    => o = sub[k].object /\ armed'[o] = 1 /\ n = 1
             /\ ccr[o] = NULL \/ ccr[o].key # k => armed'[o] = armed[o]
  <2>1. armed'[o] = IF o = sub[k].object THEN n ELSE armed[o]
    BY DEF SessionInv, TypeOK
  <2>2. ccr[o].key = k /\ o # sub[k].object => ~(armed[o] > 0)
    BY DEF SessionInv, TimersAreOwned, SubOf
  <2>. QED
    BY <1>2, <2>1, <2>2
<1>5. ASSUME NEW o \in Request, armed'[o] > 0, ccr'[o] # NULL, ccr'[o].key = k
      PROVE  /\ armed'[o] = 1
             /\ sub'[k] # NULL
             /\ sub'[k].object = o
             /\ sub'[k].state = "OPEN"
             /\ sub'[k].tcc
  <2>1. o = sub[k].object /\ armed'[o] = 1 /\ n = 1
    BY <1>4, <1>5
  <2>. QED
    BY <1>1, <1>3, <2>1
<1>6. /\ ccr'[sub'[k].object] # NULL
      /\ ccr'[sub'[k].object].key = k
      /\ sub'[k].poCCR # NULL => ccr'[sub'[k].poCCR] # NULL
      /\ sub'[k].state = "IDLE" => sub'[k].busy /\ ~sub'[k].tcc
  BY <1>1, <1>2
<1>7. sub'[k].tcc => armed'[sub'[k].object] = 1
  BY <1>1, <1>2, <1>4
<1>8. ~sub'[k].busy => sub'[k].poCCR = NULL /\ sub'[k].tcc
  BY <1>1
<1>9. \A o \in Request : (ccr[o] = NULL \/ ccr[o].key # k) => armed'[o] = armed[o]
  BY <1>4
<1>. QED
  BY <1>1, <1>5, <1>6, <1>7, <1>8, <1>9, LocalStep

LEMMA GrantedFields ==
    ASSUME NEW s \in SubSession, NEW t \in {Opened(s), Renewed(s)},
           t = Renewed(s) => s.state = "OPEN"
    PROVE  /\ t \in SubSession
           /\ t.object = s.object
           /\ t.poCCR = NULL
           /\ t.state = "OPEN"
           /\ t.tcc
<1>1. t \in SubSession
  <2>1. s.object \in Request
    BY DEF SubSession
  <2>. QED
    BY <2>1, NewSubSessionTypes
<1>2. CASE t = Opened(s)
  <2>1. t.tcc
    BY <1>2 DEF Opened, SubSession
  <2>. QED
    BY <1>1, <1>2, <2>1 DEF Opened, SubSession
<1>3. CASE t = Renewed(s)
  <2>1. t.tcc
    BY <1>3 DEF Renewed, SubSession
  <2>. QED
    BY <1>1, <1>3, <2>1 DEF Renewed, SubSession
<1>. QED
  BY <1>2, <1>3

LEMMA UntimedFields ==
    ASSUME NEW s \in SubSession
    PROVE  /\ Untimed(s) \in SubSession
           /\ Untimed(s).object = s.object
           /\ Untimed(s).poCCR = s.poCCR
           /\ Untimed(s).state = s.state
           /\ Untimed(s).busy = s.busy
           /\ ~Untimed(s).tcc
<1>1. ~Untimed(s).tcc
  BY DEF Untimed, SubSession
<1>. QED
  BY <1>1, NewSubSessionTypes DEF Untimed, SubSession

LEMMA ResponseIsSound ==
    ASSUME SessionInv, NEW r \in Request, HandleResponse(r)
    PROVE  SessionInv'
<1>. DEFINE k == ccr[r].key
            s == sub[k]
<1>1. TypeOK'
  BY ResponseTypes
<1>2. CASE ResponseWithoutSession(r)
  <2>1. RatedRequestsArrived'
    BY <1>2 DEF SessionInv, RatedRequestsArrived, ResponseWithoutSession
  <2>. QED
    BY <1>1, <1>2, <2>1, TableUntouched DEF ResponseWithoutSession
<1>3. CASE Crash
  BY <1>1, <1>3, CrashIsSound
<1>4. ASSUME NEW q \in Request, NEW state, Delivered(r, q, state)
      PROVE  /\ RatedRequestsArrived'
             /\ ccr' = ccr
             /\ k \in Key
             /\ s # NULL
             /\ s \in SubSession
             /\ s.state = state
             /\ s.poCCR # NULL
             /\ s.busy
             /\ s.object \in Request
             /\ KillTimer(s) = [armed EXCEPT ![s.object] = 0]
             /\ state = "IDLE" => armed[s.object] = 0
  <2>1. /\ r \in rating
        /\ s # NULL
        /\ s.state = state
        /\ q \in Deref(s.poCCR)
        /\ rating' = rating \ {r}
        /\ ccr' = ccr
    BY <1>4 DEF Delivered
  <2>2. RatedRequestsArrived'
    BY <2>1 DEF SessionInv, RatedRequestsArrived
  <2>3. /\ k \in Key
        /\ s \in SubSession
        /\ s.object \in Request
    BY <2>1, DeliveredFacts
  <2>4. s.poCCR # NULL
    BY <2>1 DEF Deref
  <2>5. /\ s.busy
        /\ ccr[s.object].key = k
    BY <2>1, <2>3, <2>4 DEF SessionInv, SubSessionsAreSound, SubSessionOK
  <2>6. KillTimer(s) = [armed EXCEPT ![s.object] = 0]
    BY <2>1, <2>3, KillTimerStops
  <2>7. ASSUME state = "IDLE"
        PROVE  armed[s.object] = 0
    <3>1. armed[s.object] \in Nat
      BY <2>3 DEF SessionInv, TypeOK
    <3>. QED
      BY <2>1, <2>3, <2>5, <2>7, <3>1 DEF SessionInv, TimersAreOwned, SubOf
  <2>. QED
    BY <2>1, <2>2, <2>3, <2>4, <2>5, <2>6, <2>7
<1>5. ASSUME NEW q \in Request, NEW state, Delivered(r, q, state), UNCHANGED <<sub, armed>>
      PROVE  SessionInv'
  BY <1>1, <1>4, <1>5, TableUntouched
<1>6. ASSUME NEW q \in Request, NEW state, Delivered(r, q, state),
             RemoveSubSession(k) \/ RemoveSubSessionByOwnId(k),
             armed' = KillTimer(s) \/ (state = "IDLE" /\ armed' = armed)
      PROVE  SessionInv'
  <2>1. sub' = [sub EXCEPT ![k] = NULL]
    BY <1>6 DEF RemoveSubSession, RemoveSubSessionByOwnId
  <2>2. armed' = [armed EXCEPT ![s.object] = 0]
    BY <1>4, <1>6 DEF SessionInv, TypeOK
  <2>. QED
    BY <1>1, <1>4, <1>6, <2>1, <2>2, RemovalIsSound
<1>7. ASSUME NEW q \in Request, OCF_Idle_InitReqProcessingSuccessful(r, q)
      PROVE  SessionInv'
  <2>1. Delivered(r, q, "IDLE")
    BY <1>7 DEF OCF_Idle_InitReqProcessingSuccessful, Dispatched
  <2>2. CASE AnswerFails
    BY <1>5, <2>1, <2>2 DEF AnswerFails
  <2>3. CASE /\ sub' = [sub EXCEPT ![k] = Opened(s)]
             /\ armed' = StartTimer(armed, s.object)
    <3>1. armed' = [armed EXCEPT ![s.object] = 1]
      <4>1. armed[s.object] + 1 = 1
        BY <1>4, <2>1
      <4>2. StartTimer(armed, s.object) = [armed EXCEPT ![s.object] = armed[s.object] + 1]
        BY DEF StartTimer
      <4>. QED
        BY <2>3, <4>1, <4>2
    <3>2. Opened(s) = Renewed(s) => s.state = "OPEN"
      BY <1>4, <2>1 DEF Opened, Renewed, SubSession
    <3>3. /\ Opened(s) \in SubSession
          /\ Opened(s).object = s.object
          /\ Opened(s).poCCR = NULL
          /\ Opened(s).state = "OPEN"
          /\ Opened(s).tcc
      BY <1>4, <2>1, <3>2, GrantedFields
    <3>. QED
      BY <1>1, <1>4, <2>1, <2>3, <3>1, <3>3, ReplacementIsSound
  <2>. QED
    BY <1>7, <2>2, <2>3 DEF OCF_Idle_InitReqProcessingSuccessful
<1>8. ASSUME NEW q \in Request, OCF_Idle_InitReqProcessingUnSuccessful(r, q)
      PROVE  SessionInv'
  BY <1>5, <1>6, <1>8 DEF OCF_Idle_InitReqProcessingUnSuccessful, Dispatched, AnswerFails
<1>9. ASSUME NEW q \in Request, OCF_Idle_EventReqProcessingSuccessful(r, q)
      PROVE  SessionInv'
  BY <1>5, <1>6, <1>9 DEF OCF_Idle_EventReqProcessingSuccessful, Dispatched, AnswerFails
<1>10. ASSUME NEW q \in Request, OCF_Idle_EventReqProcessingUnSuccessful(r, q)
       PROVE  SessionInv'
  BY <1>5, <1>10 DEF OCF_Idle_EventReqProcessingUnSuccessful, Dispatched
<1>11. ASSUME NEW q \in Request, OCF_Open_UpdateReqProcessingSuccessful(r, q)
       PROVE  SessionInv'
  <2>1. Delivered(r, q, "OPEN")
    BY <1>11 DEF OCF_Open_UpdateReqProcessingSuccessful, Dispatched
  <2>2. CASE AnswerFails
    BY <1>5, <2>1, <2>2 DEF AnswerFails
  <2>3. CASE /\ sub' = [sub EXCEPT ![k] = Renewed(s)]
             /\ armed' = StartTimer(KillTimer(s), s.object)
    <3>1. armed' = [armed EXCEPT ![s.object] = 1]
      <4>1. KillTimer(s) = [armed EXCEPT ![s.object] = 0]
        BY <1>4, <2>1
      <4>2. /\ armed \in [Request -> Nat]
            /\ s.object \in Request
        BY <1>4, <2>1 DEF SessionInv, TypeOK
      <4>3. KillTimer(s)[s.object] + 1 = 1
        BY <4>1, <4>2
      <4>4. StartTimer(KillTimer(s), s.object)
              = [KillTimer(s) EXCEPT ![s.object] = KillTimer(s)[s.object] + 1]
        BY DEF StartTimer
      <4>. QED
        BY <2>3, <4>1, <4>2, <4>3, <4>4
    <3>2. /\ Renewed(s) \in SubSession
          /\ Renewed(s).object = s.object
          /\ Renewed(s).poCCR = NULL
          /\ Renewed(s).state = "OPEN"
          /\ Renewed(s).tcc
      BY <1>4, <2>1, GrantedFields
    <3>. QED
      BY <1>1, <1>4, <2>1, <2>3, <3>1, <3>2, ReplacementIsSound
  <2>. QED
    BY <1>11, <2>2, <2>3 DEF OCF_Open_UpdateReqProcessingSuccessful
<1>12. ASSUME NEW q \in Request, OCF_Open_UpdateReqProcessingUnSuccessful(r, q)
       PROVE  SessionInv'
  <2>1. Delivered(r, q, "OPEN")
    BY <1>12 DEF OCF_Open_UpdateReqProcessingUnSuccessful, Dispatched
  <2>2. CASE AnswerFails
    BY <1>5, <2>1, <2>2 DEF AnswerFails
  <2>3. CASE /\ sub' = [sub EXCEPT ![k] = Untimed(s)]
             /\ armed' = KillTimer(s)
    <3>1. armed' = [armed EXCEPT ![s.object] = 0]
      BY <1>4, <2>1, <2>3
    <3>2. /\ Untimed(s) \in SubSession
          /\ Untimed(s).object = s.object
          /\ Untimed(s).poCCR = s.poCCR
          /\ Untimed(s).state = "OPEN"
          /\ Untimed(s).busy
          /\ ~Untimed(s).tcc
      BY <1>4, <2>1, UntimedFields
    <3>3. Untimed(s).tcc <=> 0 = 1
      BY <3>2
    <3>. QED
      BY <1>1, <1>4, <2>1, <2>3, <3>1, <3>2, <3>3, ReplacementIsSound
  <2>. QED
    BY <1>12, <2>2, <2>3 DEF OCF_Open_UpdateReqProcessingUnSuccessful
<1>13. ASSUME NEW q \in Request, OCF_Open_TerminateReqProcessingSuccessful(r, q)
       PROVE  SessionInv'
  BY <1>5, <1>6, <1>13 DEF OCF_Open_TerminateReqProcessingSuccessful, Dispatched, AnswerFails
<1>14. ASSUME NEW q \in Request, OCF_Open_TerminateReqProcessingUnSuccessful(r, q)
       PROVE  SessionInv'
  BY <1>5, <1>6, <1>14 DEF OCF_Open_TerminateReqProcessingUnSuccessful, Dispatched, AnswerFails
<1>15. ASSUME NEW q \in Request, NoHandler(r, q)
       PROVE  SessionInv'
  BY <1>5, <1>15 DEF NoHandler
<1>. QED
  BY <1>2, <1>3, <1>7, <1>8, <1>9, <1>10, <1>11, <1>12, <1>13, <1>14, <1>15
     DEF HandleResponse, Granted, Refused, Unhandled, CCRReadFaults, UninitialisedAnswerFaults

LEMMA OtherIsSound ==
    ASSUME SessionInv, NEW r \in Request,
           \/ ResponseLost(r) \/ FreedSessionFaults(r)
           \/ DatabaseFaults(r) \/ TimerExpires(r)
    PROVE  SessionInv'
<1>. DEFINE k == ccr[r].key
<1>1. TypeOK'
  BY OtherTypes
<1>2. CASE ResponseLost(r)
  <2>1. RatedRequestsArrived'
    BY <1>2 DEF SessionInv, RatedRequestsArrived, ResponseLost
  <2>. QED
    BY <1>1, <1>2, <2>1, TableUntouched DEF ResponseLost
<1>3. CASE FreedSessionFaults(r) \/ DatabaseFaults(r)
  BY <1>1, <1>3, CrashIsSound DEF FreedSessionFaults, DatabaseFaults
<1>4. CASE TimerExpires(r)
  <2>1. /\ ccr[r] # NULL
        /\ sub[k] # NULL
        /\ sub[k].object = r
        /\ sub[k].state = "OPEN"
        /\ armed[r] = 1
    BY <1>4 DEF SessionInv, TimersAreOwned, SubOf, TimerExpires
  <2>2. k \in Key
    BY <2>1 DEF SessionInv, TypeOK, Message
  <2>3. /\ armed' = [armed EXCEPT ![r] = @ - 1]
        /\ RemoveSubSession(k)
        /\ UNCHANGED <<up, ccr, mem, rating, answers>>
    BY <1>4, <2>1 DEF TimerExpires
  <2>4. armed' = [armed EXCEPT ![sub[k].object] = 0]
    BY <2>1, <2>3
  <2>5. RatedRequestsArrived'
    BY <2>3 DEF SessionInv, RatedRequestsArrived
  <2>. QED
    BY <1>1, <2>1, <2>2, <2>3, <2>4, <2>5, RemovalIsSound DEF RemoveSubSession
<1>. QED
  BY <1>2, <1>3, <1>4

LEMMA SessionInvStarts ==
    ASSUME Init
    PROVE  SessionInv
<1>1. TypeOK
  BY DEF Init, TypeOK
<1>2. RatedRequestsArrived /\ TimersAreOwned /\ SubSessionsAreSound
  BY DEF Init, RatedRequestsArrived, TimersAreOwned, SubSessionsAreSound
<1>. QED
  BY <1>1, <1>2 DEF SessionInv

LEMMA SessionInvStutters ==
    ASSUME SessionInv, UNCHANGED vars
    PROVE  SessionInv'
<1>1. TypeOK' /\ RatedRequestsArrived'
  BY DEF vars, SessionInv, TypeOK, RatedRequestsArrived
<1>. QED
  BY <1>1, TableUntouched DEF vars

LEMMA SessionInvHolds == Spec => []SessionInv
<1>1. Init => SessionInv
  BY SessionInvStarts
<1>2. SessionInv /\ [Next]_vars => SessionInv'
  <2>. SUFFICES ASSUME SessionInv, [Next]_vars PROVE SessionInv'
    OBVIOUS
  <2>1. CASE Restart
    <3>1. TypeOK'
      BY <2>1 DEF SessionInv, TypeOK, Restart
    <3>. QED
      BY <2>1, <3>1, TableUntouched DEF SessionInv, RatedRequestsArrived, Restart
  <2>2. ASSUME NEW r \in Request, RequestArrives(r)
        PROVE  SessionInv'
    BY <2>2, RequestIsSound
  <2>3. ASSUME NEW r \in Request, HandleResponse(r)
        PROVE  SessionInv'
    BY <2>3, ResponseIsSound
  <2>4. ASSUME NEW r \in Request,
               \/ ResponseLost(r) \/ FreedSessionFaults(r)
               \/ DatabaseFaults(r) \/ TimerExpires(r)
        PROVE  SessionInv'
    BY <2>4, OtherIsSound
  <2>5. CASE UNCHANGED vars
    BY <2>5, SessionInvStutters
  <2>. QED
    BY <2>1, <2>2, <2>3, <2>4, <2>5 DEF Next
<1>. QED
  BY <1>1, <1>2, PTL DEF Spec

-----------------------------------------------------------------------------
(* What follows for every execution *)

\* The state of the Online Charging Function is well typed in every reachable
\* state: no handler leaves a field unset or a timer count negative.
THEOREM TypeCorrect == Spec => []TypeOK
<1>1. SessionInv => TypeOK
  BY DEF SessionInv
<1>. QED
  BY <1>1, SessionInvHolds, PTL

\* Whatever fails and whatever clients do, a Tcc timer that runs belongs to an
\* open sub-session that is still in the table, so OCF_TimeOutNotification
\* never gets a freed object (ocf_statemachine.c:76-95).
THEOREM NoTimerOfAFreedSession == Spec => []TimersPointToLiveSessions
<1>1. SessionInv => TimersPointToLiveSessions
  BY DEF SessionInv, TimersAreOwned, TimersPointToLiveSessions
<1>. QED
  BY <1>1, SessionInvHolds, PTL

\* Whatever fails and whatever clients do, a sub-session that works on no
\* request is open and has its Tcc timer running (ocf_statemachine.c:182-188,
\* 409-418).
THEOREM NoUntimedFreeSession == Spec => []FreeSessionsAreTimed
<1>1. ASSUME SessionInv, NEW k \in Key, sub[k] # NULL, ~sub[k].busy
      PROVE  /\ sub[k].state = "OPEN"
             /\ sub[k].poCCR = NULL
             /\ armed[sub[k].object] = 1
  BY <1>1 DEF SessionInv, TypeOK, SubSession, SubSessionsAreSound, SubSessionOK
<1>2. SessionInv => FreeSessionsAreTimed
  BY <1>1 DEF FreeSessionsAreTimed
<1>. QED
  BY <1>2, SessionInvHolds, PTL

-----------------------------------------------------------------------------
(* No request displaces the one in progress *)

KeepsItsRequest(k) ==
    (sub[k] # NULL /\ sub'[k] # NULL /\ sub[k].busy /\ sub'[k].busy) =>
        /\ sub'[k].object = sub[k].object
        /\ sub'[k].poCCR = sub[k].poCCR
        /\ sub'[k].hPeer = sub[k].hPeer

LEMMA RequestKeeps ==
    ASSUME SessionInv, NEW r \in Request, RequestArrives(r), NEW k \in Key
    PROVE  KeepsItsRequest(k)
<1>0. sub \in [Key -> SubSession \cup {NULL}]
  BY DEF SessionInv, TypeOK
<1>1. CASE UNCHANGED sub
  BY <1>1 DEF KeepsItsRequest
<1>2. ASSUME NEW m \in Message, NEW c, OpenSubSession(r, m, c)
      PROVE  KeepsItsRequest(k)
  <2>1. sub'[k] = sub[k] \/ sub[k] = NULL
    BY <1>0, <1>2 DEF OpenSubSession
  <2>. QED
    BY <2>1 DEF KeepsItsRequest
<1>3. ASSUME NEW m \in Message, NEW c, UseSubSession(r, m, c)
      PROVE  KeepsItsRequest(k)
  <2>1. sub'[k] = sub[k] \/ ~sub[k].busy
    BY <1>0, <1>3 DEF UseSubSession, InProgress
  <2>. QED
    BY <2>1 DEF KeepsItsRequest
<1>. QED
  BY <1>1, <1>2, <1>3 DEF RequestArrives, UnsupportedCommand, ExtractionFails,
     UnknownRequestType, InitialRequest, EventRequest, UpdateRequest, TerminateRequest

\* A handler leaves the table alone, frees the sub-session, frees it for the next
\* request, or stops its timer.
LEMMA ResponseKeeps ==
    ASSUME SessionInv, NEW r \in Request, HandleResponse(r), NEW k \in Key
    PROVE  KeepsItsRequest(k)
<1>. DEFINE j == ccr[r].key
            s == sub[j]
<1>0. /\ sub \in [Key -> SubSession \cup {NULL}]
      /\ r \in rating
  BY DEF SessionInv, TypeOK, HandleResponse, Granted, Refused, Unhandled, ResponseWithoutSession, CCRReadFaults,
     UninitialisedAnswerFaults, NoHandler, Dispatched, Delivered,
     OCF_Idle_InitReqProcessingSuccessful, OCF_Idle_InitReqProcessingUnSuccessful,
     OCF_Idle_EventReqProcessingSuccessful, OCF_Idle_EventReqProcessingUnSuccessful,
     OCF_Open_UpdateReqProcessingSuccessful, OCF_Open_UpdateReqProcessingUnSuccessful,
     OCF_Open_TerminateReqProcessingSuccessful, OCF_Open_TerminateReqProcessingUnSuccessful
<1>1. CASE UNCHANGED sub
  BY <1>1 DEF KeepsItsRequest
<1>2. CASE sub' = [i \in Key |-> NULL] \/ sub' = [sub EXCEPT ![j] = NULL]
  <2>1. sub'[k] = NULL \/ sub'[k] = sub[k]
    BY <1>0, <1>2
  <2>. QED
    BY <2>1 DEF KeepsItsRequest
<1>3. ASSUME NEW t \in {Opened(s), Renewed(s), Untimed(s)}, s # NULL,
             sub' = [sub EXCEPT ![j] = t]
      PROVE  KeepsItsRequest(k)
  <2>1. s \in SubSession
    BY <1>0, <1>3, DeliveredFacts
  <2>2. sub'[k] = sub[k] \/ (sub[k] = s /\ sub'[k] = t)
    BY <1>0, <1>3
  <2>3. t = Untimed(s) => /\ t.object = s.object
                          /\ t.poCCR = s.poCCR
                          /\ t.hPeer = s.hPeer
    BY DEF Untimed
  <2>4. ~Opened(s).busy /\ ~Renewed(s).busy
    BY <2>1 DEF Opened, Renewed, SubSession
  <2>. QED
    BY <1>3, <2>2, <2>3, <2>4 DEF KeepsItsRequest
<1>4. ASSUME NEW q, OCF_Idle_InitReqProcessingSuccessful(r, q)
             \/ OCF_Open_UpdateReqProcessingSuccessful(r, q)
             \/ OCF_Open_UpdateReqProcessingUnSuccessful(r, q)
      PROVE  KeepsItsRequest(k)
  BY <1>1, <1>3, <1>4 DEF OCF_Idle_InitReqProcessingSuccessful,
     OCF_Open_UpdateReqProcessingSuccessful, OCF_Open_UpdateReqProcessingUnSuccessful,
     Dispatched, Delivered, AnswerFails
<1>5. ASSUME NEW q, OCF_Idle_InitReqProcessingUnSuccessful(r, q)
             \/ OCF_Idle_EventReqProcessingSuccessful(r, q)
             \/ OCF_Open_TerminateReqProcessingSuccessful(r, q)
             \/ OCF_Open_TerminateReqProcessingUnSuccessful(r, q)
      PROVE  KeepsItsRequest(k)
  BY <1>1, <1>2, <1>5 DEF OCF_Idle_InitReqProcessingUnSuccessful,
     OCF_Idle_EventReqProcessingSuccessful, OCF_Open_TerminateReqProcessingSuccessful,
     OCF_Open_TerminateReqProcessingUnSuccessful, AnswerFails, RemoveSubSession,
     RemoveSubSessionByOwnId
<1>6. ASSUME NEW q, OCF_Idle_EventReqProcessingUnSuccessful(r, q) \/ NoHandler(r, q)
      PROVE  KeepsItsRequest(k)
  BY <1>1, <1>6 DEF OCF_Idle_EventReqProcessingUnSuccessful, NoHandler
<1>7. CASE ResponseWithoutSession(r)
  BY <1>1, <1>7 DEF ResponseWithoutSession
<1>8. CASE Crash
  BY <1>2, <1>8 DEF Crash
<1>. QED
  BY <1>4, <1>5, <1>6, <1>7, <1>8
     DEF HandleResponse, Granted, Refused, Unhandled, CCRReadFaults, UninitialisedAnswerFaults

LEMMA OtherKeeps ==
    ASSUME SessionInv, NEW r \in Request, NEW k \in Key,
           \/ ResponseLost(r) \/ FreedSessionFaults(r)
           \/ DatabaseFaults(r) \/ TimerExpires(r)
    PROVE  KeepsItsRequest(k)
<1>1. sub \in [Key -> SubSession \cup {NULL}]
  BY DEF SessionInv, TypeOK
<1>2. \/ UNCHANGED sub
      \/ sub' = [i \in Key |-> NULL]
      \/ sub' = [sub EXCEPT ![ccr[r].key] = NULL]
  BY DEF ResponseLost, FreedSessionFaults, DatabaseFaults, TimerExpires, Crash,
     RemoveSubSession
<1>3. sub'[k] = sub[k] \/ sub'[k] = NULL
  BY <1>1, <1>2
<1>. QED
  BY <1>3 DEF KeepsItsRequest

\* Whatever fails and whatever clients do, no request takes a sub-session over
\* while another one is in progress (ocf_sbcf.c:122-135, 174-182).
THEOREM NoRequestIsDisplaced == Spec => ProgressIsNotDisplaced
<1>1. SessionInv /\ [Next]_vars => \A k \in Key : KeepsItsRequest(k)
  <2>. SUFFICES ASSUME SessionInv, [Next]_vars, NEW k \in Key
                PROVE  KeepsItsRequest(k)
    OBVIOUS
  <2>1. CASE Restart \/ UNCHANGED vars
    BY <2>1 DEF Restart, vars, KeepsItsRequest
  <2>2. ASSUME NEW r \in Request, RequestArrives(r)
        PROVE  KeepsItsRequest(k)
    BY <2>2, RequestKeeps
  <2>3. ASSUME NEW r \in Request, HandleResponse(r)
        PROVE  KeepsItsRequest(k)
    BY <2>3, ResponseKeeps
  <2>4. ASSUME NEW r \in Request,
               \/ ResponseLost(r) \/ FreedSessionFaults(r)
               \/ DatabaseFaults(r) \/ TimerExpires(r)
        PROVE  KeepsItsRequest(k)
    BY <2>4, OtherKeeps
  <2>. QED
    BY <2>1, <2>2, <2>3, <2>4 DEF Next
<1>2. SessionInv /\ [Next]_vars =>
        [\A k \in Key :
          (sub[k] # NULL /\ sub'[k] # NULL /\ sub[k].busy /\ sub'[k].busy) =>
              /\ sub'[k].object = sub[k].object
              /\ sub'[k].poCCR = sub[k].poCCR
              /\ sub'[k].hPeer = sub[k].hPeer]_vars
  BY <1>1 DEF KeepsItsRequest
<1>. QED
  BY <1>2, SessionInvHolds, PTL DEF Spec, ProgressIsNotDisplaced

-----------------------------------------------------------------------------
(***************************************************************************)
(* Proofs about clients that reopen a sub-session at any time, so that a   *)
(* response may reach a later life of its sub-session: whatever fails but  *)
(* the sends of events, an answer goes to the peer that asked, and nothing *)
(* follows a granted one.                                                  *)
(***************************************************************************)

EventsLeave == "event" \notin Faults

(***************************************************************************)
(* The inductive invariant.  A sub-session points to a CCR that is there,  *)
(* of a request of its own, and sends answers to the peer of that request. *)
(***************************************************************************)
PointerIsSound(k, s) ==
    s.poCCR # NULL =>
        /\ mem[s.poCCR] = "held"
        /\ s.hPeer = s.poCCR
        /\ ccr[s.poCCR].key = k

PointersAreSound == \A k \in Key : sub[k] # NULL => PointerIsSound(k, sub[k])

NewcomersAreBlank == \A q \in Request : ccr[q] = NULL => answers[q] = <<>>

Ungranted(q) == \A i \in DOMAIN answers[q] : answers[q][i].code # "SUCCESS"

\* What the properties say of the answers to q.
AnswersEndWell(q) ==
    \A i \in DOMAIN answers[q] :
        /\ answers[q][i].to = q
        /\ answers[q][i].code = "SUCCESS" => i = Len(answers[q]) /\ mem[q] # "held"

ReopeningInv ==
    /\ SessionInv
    /\ PointersAreSound
    /\ NewcomersAreBlank
    /\ \A q \in Request : AnswersEndWell(q)

-----------------------------------------------------------------------------
(* Answers *)

\* An answer to q after none that granted.
LEMMA OneMoreAnswer ==
    ASSUME TypeOK, NEW q \in Request, NEW a \in Answer, AnswerSent(q, a),
           AnswersEndWell(q), Ungranted(q), a.to = q,
           a.code = "SUCCESS" => mem'[q] # "held"
    PROVE  AnswersEndWell(q)'
<1>1. /\ answers[q] \in Seq(Answer)
      /\ answers'[q] = Append(answers[q], a)
  BY DEF TypeOK, AnswerSent
<1>. DEFINE old == answers[q]
<1>2. /\ Len(old) \in Nat
      /\ Len(answers'[q]) = Len(old) + 1
      /\ DOMAIN answers'[q] = 1..(Len(old) + 1)
      /\ DOMAIN old = 1..Len(old)
      /\ \A i \in 1..Len(old) : answers'[q][i] = old[i]
      /\ answers'[q][Len(old) + 1] = a
  BY <1>1
<1>. HIDE DEF old
<1>3. ASSUME NEW i \in DOMAIN answers'[q]
      PROVE  /\ answers'[q][i].to = q
             /\ answers'[q][i].code = "SUCCESS" => i = Len(answers'[q]) /\ mem'[q] # "held"
  <2>1. CASE i = Len(old) + 1
    BY <1>2, <2>1
  <2>2. CASE i # Len(old) + 1
    <3>1. i \in DOMAIN old /\ answers'[q][i] = old[i]
      BY <1>2, <2>2
    <3>. QED
      BY <3>1 DEF old, AnswersEndWell, Ungranted
  <2>. QED
    BY <2>1, <2>2
<1>. QED
  BY <1>3 DEF AnswersEndWell

LEMMA OtherAnswersStay ==
    ASSUME TypeOK, NEW q \in Request, NEW a, AnswerSent(q, a)
    PROVE  \A x \in Request : x # q => answers'[x] = answers[x]
  BY DEF TypeOK, AnswerSent

\* A request whose CCR is still there was not granted.
LEMMA HeldIsUngranted ==
    ASSUME NEW q \in Request, AnswersEndWell(q), mem[q] = "held"
    PROVE  Ungranted(q)
  BY DEF AnswersEndWell, Ungranted

-----------------------------------------------------------------------------
(* Arrivals *)

\* What the arrival of r may do: at most one error answer, and at most one
\* sub-session that works on r, with its CCR kept.
JustArrived(r) ==
    /\ ccr[r] = NULL
    /\ \A x \in Request : x # r => ccr'[x] = ccr[x] /\ mem'[x] = mem[x]
    /\ \/ UNCHANGED answers
       \/ \E code \in ResultCode \ {"SUCCESS"} : AnswerSent(r, ErrorAnswer(r, code))
    /\ ccr'[r] # NULL
    /\ \A k \in Key : \/ sub'[k] = sub[k]
                      \/ /\ sub'[k].poCCR = r /\ sub'[k].hPeer = r
                         /\ mem'[r] = "held" /\ ccr'[r].key = k

LEMMA ErrorCodes ==
    {"UNKNOWN_SESSION_ID", "UNABLE_TO_COMPLY", "COMMAND_UNSUPPORTED"}
        \subseteq ResultCode \ {"SUCCESS"}
  BY DEF ResultCode

LEMMA ArrivesChanges ==
    ASSUME TypeOK, NEW r \in Request, NEW m \in Message, Arrives(r, m)
    PROVE  /\ ccr[r] = NULL /\ ccr'[r] = m /\ ccr'[r] # NULL /\ m.key \in Key
           /\ \A x \in Request : x # r => ccr'[x] = ccr[x]
  BY NullIsNothing DEF TypeOK, Arrives, Message

LEMMA RejectChanges ==
    ASSUME TypeOK, NEW r \in Request, NEW code \in ResultCode \ {"SUCCESS"}, Reject(r, code)
    PROVE  /\ \A x \in Request : x # r => mem'[x] = mem[x]
           /\ \/ UNCHANGED answers
              \/ \E c \in ResultCode \ {"SUCCESS"} : AnswerSent(r, ErrorAnswer(r, c))
  BY DEF TypeOK, Reject, Emit, AnswerSent

LEMMA OpenArrives ==
    ASSUME TypeOK, EventsLeave, NEW r \in Request, NEW m \in Message, NEW c,
           OpenSubSession(r, m, c)
    PROVE  JustArrived(r)
<1>1. Arrives(r, m)
  BY DEF OpenSubSession
<1>2. CASE Reject(r, "UNABLE_TO_COMPLY") /\ UNCHANGED sub
  BY <1>1, <1>2, ArrivesChanges, RejectChanges, ErrorCodes DEF JustArrived
<1>3. CASE sub' = [sub EXCEPT ![m.key] = NewSubSession(r, c)] /\ SendRatingRequest(r)
  <2>1. mem' = [mem EXCEPT ![r] = "held"] /\ UNCHANGED answers
    BY <1>3 DEF SendRatingRequest, EventsLeave
  <2>2. NewSubSession(r, c).poCCR = r /\ NewSubSession(r, c).hPeer = r
    BY DEF NewSubSession
  <2>3. \A k \in Key : sub'[k] = sub[k] \/ (k = m.key /\ sub'[k] = NewSubSession(r, c))
    BY <1>3 DEF TypeOK
  <2>4. mem'[r] = "held" /\ \A x \in Request : x # r => mem'[x] = mem[x]
    BY <2>1 DEF TypeOK
  <2>. QED
    BY <1>1, <2>1, <2>2, <2>3, <2>4, ArrivesChanges DEF JustArrived
<1>4. CASE UNCHANGED sub /\ SendRatingRequest(r)
  <2>1. mem' = [mem EXCEPT ![r] = "held"] /\ UNCHANGED answers
    BY <1>4 DEF SendRatingRequest, EventsLeave
  <2>2. \A x \in Request : x # r => mem'[x] = mem[x]
    BY <2>1 DEF TypeOK
  <2>. QED
    BY <1>1, <1>4, <2>1, <2>2, ArrivesChanges DEF JustArrived
<1>. QED
  BY <1>2, <1>3, <1>4 DEF OpenSubSession

LEMMA UseArrives ==
    ASSUME TypeOK, EventsLeave, NEW r \in Request, NEW m \in Message,
           NEW code \in ResultCode \ {"SUCCESS"}, UseSubSession(r, m, code)
    PROVE  JustArrived(r)
<1>1. Arrives(r, m)
  BY DEF UseSubSession
<1>2. ASSUME NEW e \in ResultCode \ {"SUCCESS"}, Reject(r, e), UNCHANGED sub
      PROVE  JustArrived(r)
  BY <1>1, <1>2, ArrivesChanges, RejectChanges DEF JustArrived
<1>3. CASE /\ sub[m.key] # NULL
           /\ sub' = [sub EXCEPT ![m.key] = TakeOver(@, r)]
           /\ SendRatingRequest(r)
  <2>. DEFINE t == TakeOver(sub[m.key], r)
  <2>1. mem' = [mem EXCEPT ![r] = "held"] /\ UNCHANGED answers
    BY <1>3 DEF SendRatingRequest, EventsLeave
  <2>2. t.poCCR = r /\ t.hPeer = r
    <3>1. m.key \in Key /\ sub[m.key] \in SubSession
      BY <1>3 DEF TypeOK, Message
    <3>. QED
      BY <3>1, TakeOverFields
  <2>3. \A k \in Key : sub'[k] = sub[k] \/ (k = m.key /\ sub'[k] = t)
    BY <1>3 DEF TypeOK
  <2>4. mem'[r] = "held" /\ \A x \in Request : x # r => mem'[x] = mem[x]
    BY <2>1 DEF TypeOK
  <2>. HIDE DEF t
  <2>. QED
    BY <1>1, <2>1, <2>2, <2>3, <2>4, ArrivesChanges DEF JustArrived
<1>. QED
  BY <1>2, <1>3, ErrorCodes DEF UseSubSession

LEMMA RequestArrived ==
    ASSUME TypeOK, EventsLeave, NEW r \in Request, RequestArrives(r)
    PROVE  JustArrived(r)
<1>1. CASE UnsupportedCommand(r)
  <2>. PICK m \in Message :
          /\ Arrives(r, m)
          /\ Emit(r, ErrorAnswer(r, "COMMAND_UNSUPPORTED"))
          /\ UNCHANGED <<mem, sub>>
    BY <1>1 DEF UnsupportedCommand
  <2>. QED
    BY ArrivesChanges, ErrorCodes DEF JustArrived, Emit, AnswerSent
<1>2. CASE ExtractionFails(r)
  BY <1>2, ArrivesChanges DEF ExtractionFails, JustArrived
<1>3. CASE UnknownRequestType(r)
  BY <1>3, ArrivesChanges, RejectChanges, ErrorCodes DEF UnknownRequestType, JustArrived
<1>4. CASE InitialRequest(r) \/ EventRequest(r)
  BY <1>4, OpenArrives DEF InitialRequest, EventRequest
<1>5. CASE UpdateRequest(r) \/ TerminateRequest(r)
  BY <1>5, UseArrives, ErrorCodes DEF UpdateRequest, TerminateRequest
<1>. QED
  BY <1>1, <1>2, <1>3, <1>4, <1>5 DEF RequestArrives

LEMMA ArrivalEndsWell ==
    ASSUME ReopeningInv, SessionInv', NEW r \in Request, JustArrived(r)
    PROVE  ReopeningInv'
<1>. USE DEF ReopeningInv
<1>1. TypeOK
  BY DEF SessionInv
<1>2. answers[r] = <<>>
  BY DEF JustArrived, NewcomersAreBlank
<1>3. \A x \in Request : x # r => answers'[x] = answers[x]
  BY <1>1, OtherAnswersStay DEF JustArrived
<1>4. NewcomersAreBlank'
  BY <1>3 DEF JustArrived, NewcomersAreBlank
<1>5. ASSUME NEW q \in Request PROVE AnswersEndWell(q)'
  <2>1. CASE q # r
    BY <1>3, <2>1 DEF JustArrived, AnswersEndWell
  <2>2. CASE q = r /\ UNCHANGED answers
    BY <1>2, <2>2 DEF AnswersEndWell
  <2>3. ASSUME q = r, NEW code \in ResultCode \ {"SUCCESS"}, AnswerSent(r, ErrorAnswer(r, code))
        PROVE  AnswersEndWell(q)'
    <3>1. /\ ErrorAnswer(r, code) \in Answer
          /\ ErrorAnswer(r, code).to = r
          /\ ErrorAnswer(r, code).code # "SUCCESS"
      BY AnswerTypes DEF ErrorAnswer
    <3>2. AnswersEndWell(r) /\ Ungranted(r)
      BY <1>2 DEF AnswersEndWell, Ungranted
    <3>. QED
      BY <1>1, <2>3, <3>1, <3>2, OneMoreAnswer
  <2>. QED
    BY <2>1, <2>2, <2>3 DEF JustArrived
<1>6. PointersAreSound'
  <2>. SUFFICES ASSUME NEW k \in Key, sub'[k] # NULL
                PROVE  PointerIsSound(k, sub[k])'
    BY DEF PointersAreSound
  <2>1. CASE sub'[k] = sub[k]
    <3>1. sub[k].poCCR # NULL => sub[k].poCCR \in Request /\ ccr[sub[k].poCCR] # NULL
      BY <1>1, <2>1 DEF TypeOK, SubSession, SessionInv, SubSessionsAreSound, SubSessionOK
    <3>. QED
      BY <2>1, <3>1 DEF JustArrived, PointersAreSound, PointerIsSound
  <2>2. CASE sub'[k] # sub[k]
    BY <2>2 DEF JustArrived, PointerIsSound
  <2>. QED
    BY <2>1, <2>2
<1>. QED
  BY <1>4, <1>5, <1>6

-----------------------------------------------------------------------------
(* Responses *)

\* A response that reaches a sub-session finds the CCR it points to.
LEMMA DeliveryFacts ==
    ASSUME ReopeningInv, NEW r \in Request, NEW q, NEW state, Delivered(r, q, state)
    PROVE  LET k == ccr[r].key
               s == sub[k]
           IN /\ UNCHANGED ccr
              /\ k \in Key
              /\ s # NULL
              /\ s \in SubSession
              /\ q \in Request
              /\ s.poCCR = q
              /\ s.hPeer = q
              /\ mem[q] = "held"
              /\ ccr[q].key = k
<1>. DEFINE k == ccr[r].key
            s == sub[k]
<1>1. /\ UNCHANGED ccr
      /\ r \in rating
      /\ s # NULL
      /\ q \in Deref(s.poCCR)
  BY DEF Delivered
<1>2. /\ k \in Key
      /\ s \in SubSession
      /\ s.poCCR \in Request \cup {NULL}
  BY <1>1, DeliveredFacts DEF ReopeningInv
<1>3. s.poCCR # NULL
  BY <1>1 DEF Deref
<1>4. PointerIsSound(k, s)
  BY <1>1, <1>2 DEF ReopeningInv, PointersAreSound
<1>5. q = s.poCCR
  BY <1>1, <1>3, <1>4 DEF Deref, PointerIsSound
<1>. QED
  BY <1>1, <1>2, <1>3, <1>4, <1>5 DEF PointerIsSound

\* A step that leaves the CCRs, their answers and the sub-sessions alone.
LEMMA QuietStepEndsWell ==
    ASSUME ReopeningInv, SessionInv', UNCHANGED <<ccr, mem, answers>>,
           \A k \in Key : sub'[k] # NULL => sub'[k] = sub[k]
    PROVE  ReopeningInv'
<1>1. PointersAreSound' /\ NewcomersAreBlank'
  BY DEF ReopeningInv, PointersAreSound, PointerIsSound, NewcomersAreBlank
<1>2. \A q \in Request : AnswersEndWell(q)'
  BY DEF ReopeningInv, AnswersEndWell
<1>. QED
  BY <1>1, <1>2 DEF ReopeningInv

\* A crash forgets every CCR and every sub-session.
LEMMA CrashEndsWell ==
    ASSUME ReopeningInv, SessionInv', Crash,
           \A q \in Request : ccr[q] # NULL => ccr'[q] # NULL
    PROVE  ReopeningInv'
<1>1. PointersAreSound' /\ NewcomersAreBlank'
  BY DEF ReopeningInv, Crash, PointersAreSound, NewcomersAreBlank
<1>2. \A q \in Request : AnswersEndWell(q)'
  BY DEF ReopeningInv, Crash, AnswersEndWell
<1>. QED
  BY <1>1, <1>2 DEF ReopeningInv

\* What a handler that answers leaves of the sub-session s at k: one that no
\* longer points to the answered CCR, or, after a refusal that keeps the CCR,
\* one without a timer.
Disposed(k, s, q, code) ==
    \/ /\ FreeCCR(q)
       /\ \A j \in Key : sub'[j] = sub[j] \/ sub'[j] = NULL \/ sub'[j].poCCR = NULL
       /\ sub'[k] = NULL \/ sub'[k].poCCR = NULL
    \/ /\ UNCHANGED mem
       /\ code # "SUCCESS"
       /\ sub' = [sub EXCEPT ![k] = Untimed(s)]

LEMMA AnswerEndsWell ==
    ASSUME ReopeningInv, SessionInv', NEW r \in Request, NEW q, NEW state,
           Delivered(r, q, state),
           NEW code \in ResultCode, NEW p \in {"unused", "read", "misread"},
           AnswerSent(q, RatedAnswer(sub[ccr[r].key], code, r, p)),
           Disposed(ccr[r].key, sub[ccr[r].key], q, code)
    PROVE  ReopeningInv'
<1>. DEFINE k == ccr[r].key
            s == sub[k]
            a == RatedAnswer(s, code, r, p)
<1>1. /\ UNCHANGED ccr
      /\ k \in Key
      /\ s # NULL
      /\ s \in SubSession
      /\ q \in Request
      /\ s.poCCR = q
      /\ s.hPeer = q
      /\ mem[q] = "held"
      /\ ccr[q].key = k
  BY DeliveryFacts
<1>2. TypeOK
  BY DEF ReopeningInv, SessionInv
<1>3. ccr[q] # NULL
  BY <1>1, NullIsNothing DEF ReopeningInv, SessionInv, SubSessionsAreSound, SubSessionOK
<1>4. /\ a \in Answer
      /\ a.to = q
      /\ a.code = code
  BY <1>1, AnswerTypes DEF RatedAnswer
<1>5. \A x \in Request : x # q => answers'[x] = answers[x] /\ mem'[x] = mem[x]
  <2>1. \A x \in Request : x # q => answers'[x] = answers[x]
    BY <1>1, <1>2, OtherAnswersStay
  <2>2. \A x \in Request : x # q => mem'[x] = mem[x]
    BY <1>2 DEF Disposed, FreeCCR, TypeOK
  <2>. QED
    BY <2>1, <2>2
<1>6. NewcomersAreBlank'
  BY <1>1, <1>3, <1>5 DEF ReopeningInv, NewcomersAreBlank
<1>7. ASSUME NEW x \in Request PROVE AnswersEndWell(x)'
  <2>1. CASE x # q
    BY <1>5, <2>1 DEF ReopeningInv, AnswersEndWell
  <2>2. CASE x = q
    <3>1. AnswersEndWell(q) /\ Ungranted(q)
      BY <1>1, HeldIsUngranted DEF ReopeningInv
    <3>2. code = "SUCCESS" => mem'[q] # "held"
      BY <1>1, <1>2 DEF Disposed, FreeCCR, TypeOK
    <3>. HIDE DEF a
    <3>. QED
      BY <1>1, <1>2, <1>4, <2>2, <3>1, <3>2, OneMoreAnswer DEF a
  <2>. QED
    BY <2>1, <2>2
<1>8. PointersAreSound'
  <2>. SUFFICES ASSUME NEW j \in Key, sub'[j] # NULL
                PROVE  PointerIsSound(j, sub[j])'
    BY DEF PointersAreSound
  <2>1. CASE j # k /\ sub'[j] = sub[j]
    <3>1. sub[j].poCCR \in Request \cup {NULL} /\ PointerIsSound(j, sub[j])
      BY <1>2, <2>1 DEF ReopeningInv, PointersAreSound, TypeOK, SubSession
    <3>. QED
      BY <1>1, <1>5, <2>1, <3>1 DEF PointerIsSound
  <2>2. CASE sub'[j].poCCR = NULL
    BY <2>2 DEF PointerIsSound
  <2>3. CASE j = k /\ sub'[k] = Untimed(s) /\ UNCHANGED mem
    <3>1. Untimed(s).poCCR = q /\ Untimed(s).hPeer = q
      BY <1>1 DEF Untimed, SubSession
    <3>. QED
      BY <1>1, <2>3, <3>1 DEF PointerIsSound
  <2>4. \/ j # k /\ sub'[j] = sub[j]
        \/ sub'[j].poCCR = NULL
        \/ j = k /\ sub'[k] = Untimed(s) /\ UNCHANGED mem
    BY <1>1, <1>2 DEF Disposed, TypeOK
  <2>. QED
    BY <2>1, <2>2, <2>3, <2>4
<1>. QED
  BY <1>6, <1>7, <1>8 DEF ReopeningInv

LEMMA ResponseEndsWell ==
    ASSUME ReopeningInv, NEW r \in Request, HandleResponse(r)
    PROVE  ReopeningInv'
<1>. DEFINE k == ccr[r].key
            s == sub[k]
<1>1. SessionInv'
  BY ResponseIsSound DEF ReopeningInv
<1>2. sub \in [Key -> SubSession \cup {NULL}]
  BY DEF ReopeningInv, SessionInv, TypeOK
<1>3. CASE ResponseWithoutSession(r)
  BY <1>1, <1>3, QuietStepEndsWell DEF ResponseWithoutSession
<1>4. CASE Crash /\ UNCHANGED ccr
  BY <1>1, <1>4, CrashEndsWell
<1>5. ASSUME NEW q, NEW state, Delivered(r, q, state), UNCHANGED <<mem, sub, answers>>
      PROVE  ReopeningInv'
  BY <1>1, <1>5, QuietStepEndsWell DEF Delivered
<1>6. /\ {"SUCCESS", "RATING_FAILED", "NONE", "ARBITRARY"} \subseteq ResultCode
      /\ \A kind \in {"Price", "Tariff"} : Read(kind, r) \in {"unused", "read", "misread"}
      /\ PayloadOf(s) \in {"Price", "Tariff"}
  BY DEF ResultCode, Read, PayloadOf
<1>7. ASSUME NEW q, NEW state, Delivered(r, q, state),
             NEW code \in ResultCode, NEW p \in {"unused", "read", "misread"},
             AnswerSent(q, RatedAnswer(s, code, r, p)), FreeCCR(q),
             \/ RemoveSubSession(k)
             \/ RemoveSubSessionByOwnId(k)
             \/ \E t \in {Opened(s), Renewed(s)} :
                    sub' = [sub EXCEPT ![k] = t] /\ t.poCCR = NULL
      PROVE  ReopeningInv'
  <2>1. k \in Key
    BY <1>7, DeliveryFacts
  <2>2. Disposed(k, s, q, code)
    BY <1>2, <1>7, <2>1 DEF Disposed, RemoveSubSession, RemoveSubSessionByOwnId
  <2>. QED
    BY <1>1, <1>7, <2>2, AnswerEndsWell
<1>8. ASSUME NEW q, NEW state, Delivered(r, q, state)
      PROVE  Opened(s).poCCR = NULL /\ Renewed(s).poCCR = NULL
  <2>1. s \in SubSession
    BY <1>8, DeliveryFacts
  <2>. QED
    BY <2>1 DEF Opened, Renewed, SubSession
<1>9. ASSUME NEW q \in Request, OCF_Idle_InitReqProcessingSuccessful(r, q)
      PROVE  ReopeningInv'
  <2>1. Delivered(r, q, "IDLE")
    BY <1>9 DEF OCF_Idle_InitReqProcessingSuccessful, Dispatched
  <2>. QED
    BY <1>5, <1>6, <1>7, <1>8, <1>9, <2>1
       DEF OCF_Idle_InitReqProcessingSuccessful, AnswerFails
<1>10. ASSUME NEW q \in Request, OCF_Idle_InitReqProcessingUnSuccessful(r, q)
       PROVE  ReopeningInv'
  <2>. DEFINE code == IF s.charging = "SCUR" THEN "RATING_FAILED" ELSE "ARBITRARY"
  <2>1. Delivered(r, q, "IDLE")
    BY <1>10 DEF OCF_Idle_InitReqProcessingUnSuccessful, Dispatched
  <2>2. code \in ResultCode
    BY <1>6
  <2>3. \/ AnswerFails
        \/ AnswerSent(q, RatedAnswer(s, code, r, "unused")) /\ FreeCCR(q) /\ RemoveSubSession(k)
    BY <1>10 DEF OCF_Idle_InitReqProcessingUnSuccessful
  <2>. HIDE DEF code
  <2>. QED
    BY <1>5, <1>7, <2>1, <2>2, <2>3 DEF AnswerFails
<1>11. ASSUME NEW q \in Request, OCF_Idle_EventReqProcessingSuccessful(r, q)
       PROVE  ReopeningInv'
  <2>1. Delivered(r, q, "IDLE")
    BY <1>11 DEF OCF_Idle_EventReqProcessingSuccessful, Dispatched
  <2>. QED
    BY <1>5, <1>6, <1>7, <1>11, <2>1 DEF OCF_Idle_EventReqProcessingSuccessful, AnswerFails
<1>12. ASSUME NEW q \in Request, OCF_Idle_EventReqProcessingUnSuccessful(r, q)
       PROVE  ReopeningInv'
  BY <1>5, <1>12 DEF OCF_Idle_EventReqProcessingUnSuccessful, Dispatched
<1>13. ASSUME NEW q \in Request, OCF_Open_UpdateReqProcessingSuccessful(r, q)
       PROVE  ReopeningInv'
  <2>1. Delivered(r, q, "OPEN")
    BY <1>13 DEF OCF_Open_UpdateReqProcessingSuccessful, Dispatched
  <2>. QED
    BY <1>5, <1>6, <1>7, <1>8, <1>13, <2>1
       DEF OCF_Open_UpdateReqProcessingSuccessful, AnswerFails
<1>14. ASSUME NEW q \in Request, OCF_Open_UpdateReqProcessingUnSuccessful(r, q)
       PROVE  ReopeningInv'
  <2>. DEFINE code == IF s.charging = "SCUR" THEN "RATING_FAILED" ELSE "NONE"
  <2>1. Delivered(r, q, "OPEN")
    BY <1>14 DEF OCF_Open_UpdateReqProcessingUnSuccessful, Dispatched
  <2>2. code \in ResultCode /\ code # "SUCCESS"
    BY <1>6
  <2>3. \/ AnswerFails
        \/ /\ AnswerSent(q, RatedAnswer(s, code, r, "unused"))
           /\ Disposed(k, s, q, code)
    BY <1>14, <2>2 DEF OCF_Open_UpdateReqProcessingUnSuccessful, Disposed
  <2>. HIDE DEF code
  <2>4. CASE AnswerFails
    BY <1>5, <2>1, <2>4 DEF AnswerFails
  <2>. QED
    BY <1>1, <2>1, <2>2, <2>3, <2>4, AnswerEndsWell
<1>15. ASSUME NEW q \in Request, OCF_Open_TerminateReqProcessingSuccessful(r, q)
       PROVE  ReopeningInv'
  <2>1. Delivered(r, q, "OPEN")
    BY <1>15 DEF OCF_Open_TerminateReqProcessingSuccessful, Dispatched
  <2>. QED
    BY <1>5, <1>6, <1>7, <1>15, <2>1 DEF OCF_Open_TerminateReqProcessingSuccessful, AnswerFails
<1>16. ASSUME NEW q \in Request, OCF_Open_TerminateReqProcessingUnSuccessful(r, q)
       PROVE  ReopeningInv'
  <2>. DEFINE code == IF s.charging = "SCUR" THEN "RATING_FAILED" ELSE "NONE"
  <2>1. Delivered(r, q, "OPEN")
    BY <1>16 DEF OCF_Open_TerminateReqProcessingUnSuccessful, Dispatched
  <2>2. code \in ResultCode
    BY <1>6
  <2>3. \/ AnswerFails
        \/ /\ AnswerSent(q, RatedAnswer(s, code, r, "unused"))
           /\ FreeCCR(q)
           /\ RemoveSubSessionByOwnId(k)
    BY <1>16 DEF OCF_Open_TerminateReqProcessingUnSuccessful
  <2>. HIDE DEF code
  <2>. QED
    BY <1>5, <1>7, <2>1, <2>2, <2>3 DEF AnswerFails
<1>17. ASSUME NEW q \in Request, NoHandler(r, q)
       PROVE  ReopeningInv'
  BY <1>5, <1>17 DEF NoHandler
<1>. QED
  BY <1>3, <1>4, <1>9, <1>10, <1>11, <1>12, <1>13, <1>14, <1>15, <1>16, <1>17
     DEF HandleResponse, Granted, Refused, Unhandled, CCRReadFaults, UninitialisedAnswerFaults

-----------------------------------------------------------------------------
(* Every step keeps the invariant *)

LEMMA OtherEndsWell ==
    ASSUME ReopeningInv, NEW r \in Request,
           \/ ResponseLost(r) \/ FreedSessionFaults(r)
           \/ DatabaseFaults(r) \/ TimerExpires(r)
    PROVE  ReopeningInv'
<1>1. SessionInv'
  BY OtherIsSound DEF ReopeningInv
<1>2. TypeOK
  BY DEF ReopeningInv, SessionInv
<1>3. CASE ResponseLost(r)
  BY <1>1, <1>3, QuietStepEndsWell DEF ResponseLost
<1>4. CASE FreedSessionFaults(r)
  <2>1. \A q \in Request : ccr[q] # NULL => ccr'[q] # NULL
    <3>1. CASE UNCHANGED ccr
      BY <3>1
    <3>2. ASSUME NEW m \in Message, Arrives(r, m)
          PROVE  \A q \in Request : ccr[q] # NULL => ccr'[q] # NULL
      BY <1>2, <3>2, ArrivesChanges
    <3>. QED
      BY <1>4, <3>1, <3>2 DEF FreedSessionFaults
  <2>. QED
    BY <1>1, <1>4, <2>1, CrashEndsWell DEF FreedSessionFaults
<1>5. CASE TimerExpires(r)
  <2>1. CASE Crash /\ UNCHANGED ccr
    BY <1>1, <2>1, CrashEndsWell
  <2>2. CASE /\ UNCHANGED <<ccr, mem, answers>>
             /\ \A k \in Key : sub'[k] # NULL => sub'[k] = sub[k]
    BY <1>1, <2>2, QuietStepEndsWell
  <2>3. ASSUME NEW k, RemoveSubSession(k)
        PROVE  \A j \in Key : sub'[j] # NULL => sub'[j] = sub[j]
    BY <1>2, <2>3 DEF RemoveSubSession, TypeOK
  <2>. QED
    BY <1>5, <2>1, <2>2, <2>3 DEF TimerExpires
<1>6. CASE DatabaseFaults(r)
  BY <1>1, <1>6, CrashEndsWell DEF DatabaseFaults
<1>. QED
  BY <1>3, <1>4, <1>5, <1>6

LEMMA ReopeningInvHolds ==
    ASSUME EventsLeave
    PROVE  Spec => []ReopeningInv
<1>1. Init => ReopeningInv
  <2>. SUFFICES ASSUME Init PROVE ReopeningInv
    OBVIOUS
  <2>1. SessionInv
    BY SessionInvStarts
  <2>. QED
    BY <2>1 DEF Init, ReopeningInv, PointersAreSound, NewcomersAreBlank, AnswersEndWell
<1>2. ReopeningInv /\ [Next]_vars => ReopeningInv'
  <2>. SUFFICES ASSUME ReopeningInv, [Next]_vars PROVE ReopeningInv'
    OBVIOUS
  <2>1. CASE Restart
    <3>1. SessionInv'
      <4>1. TypeOK'
        BY <2>1 DEF ReopeningInv, SessionInv, TypeOK, Restart
      <4>. QED
        BY <2>1, <4>1, TableUntouched
           DEF ReopeningInv, SessionInv, RatedRequestsArrived, Restart
    <3>. QED
      BY <2>1, <3>1, QuietStepEndsWell DEF Restart
  <2>2. ASSUME NEW r \in Request, RequestArrives(r)
        PROVE  ReopeningInv'
    <3>1. SessionInv' /\ TypeOK
      BY <2>2, RequestIsSound DEF ReopeningInv, SessionInv
    <3>2. JustArrived(r)
      BY <2>2, <3>1, RequestArrived
    <3>. QED
      BY <3>1, <3>2, ArrivalEndsWell
  <2>3. ASSUME NEW r \in Request, HandleResponse(r)
        PROVE  ReopeningInv'
    BY <2>3, ResponseEndsWell
  <2>4. ASSUME NEW r \in Request,
               \/ ResponseLost(r) \/ FreedSessionFaults(r)
               \/ DatabaseFaults(r) \/ TimerExpires(r)
        PROVE  ReopeningInv'
    BY <2>4, OtherEndsWell
  <2>5. CASE UNCHANGED vars
    <3>1. SessionInv'
      BY <2>5, SessionInvStutters DEF ReopeningInv
    <3>. QED
      BY <2>5, <3>1, QuietStepEndsWell DEF vars
  <2>. QED
    BY <2>1, <2>2, <2>3, <2>4, <2>5 DEF Next
<1>. QED
  BY <1>1, <1>2, PTL DEF Spec

-----------------------------------------------------------------------------
(* What follows, whenever clients reopen their sub-sessions *)

\* A granted answer is the last its request gets, and the CCR goes with it: no
\* later response can reach the sub-session through it (ocf_statemachine.c:165-188,
\* 340-351, 409-418, 536-552).
THEOREM NothingFollowsAGrant ==
    ASSUME EventsLeave
    PROVE  Spec => []GrantIsFinal
<1>1. ReopeningInv => GrantIsFinal
  BY DEF ReopeningInv, AnswersEndWell, GrantIsFinal
<1>. QED
  BY <1>1, ReopeningInvHolds, PTL

\* An answer goes to the peer its request came from, even when a response finds
\* a later life of its sub-session (ocf_sbcf.c:135, 182, ocf_statemachine.c:129).
THEOREM NoAnswerGoesAstray ==
    ASSUME EventsLeave
    PROVE  Spec => []AnswersReachTheAsker
<1>1. ReopeningInv => AnswersReachTheAsker
  BY DEF ReopeningInv, AnswersEndWell, AnswersReachTheAsker
<1>. QED
  BY <1>1, ReopeningInvHolds, PTL
=============================================================================
