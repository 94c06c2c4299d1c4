------------------------- MODULE OCFResponses_proofs -------------------------
(***************************************************************************)
(* Proofs that responses and requests belong together, for every set of    *)
(* requests, sessions and services and every failing send, allocation and  *)
(* event, when clients do not reopen a sub-session too early, freed or     *)
(* uninitialised memory is not overwritten and no tariff is without a row. *)
(***************************************************************************)
EXTENDS OCF_proofs

ClientsWait == EarlyReopen = FALSE

\* No pointer is followed that is dangling, uninitialised or null.
MemoryIsSafe == {"freedKey", "uninit", "row"} \cap Faults = {}

(***************************************************************************)
(* The inductive invariant.  What the properties leave out is that a       *)
(* request keeps its CCR and gets no answer while its rating is            *)
(* outstanding, and which request opened a sub-session.                    *)
(***************************************************************************)
NothingWentWrong == up /\ dangling = {}

RatedRequestsAreHeld == \A r \in rating : mem[r] = "held" /\ answers[r] = <<>>

OpenedByInitial(s) ==
    /\ s.state = "OPEN" => ccr[s.object].type = "INITIAL"
    /\ s.state = "IDLE" => s.poCCR = s.object
    /\ ccr[s.object].type = "INITIAL" => s.charging = OCF_CheckChargingType(ccr[s.object])

SubSessionsHaveOpeners == \A k \in Key : sub[k] # NULL => OpenedByInitial(sub[k])

\* The payload of an answer to q may be misread.
ServiceSwitched(q) ==
    /\ ccr[q].type = "TERMINATION"
    /\ \E p \in Request : /\ ccr[p] # NULL
                          /\ ccr[p].key = ccr[q].key
                          /\ ccr[p].type = "INITIAL"
                          /\ OCF_CheckChargingType(ccr[p]) # OCF_CheckChargingType(ccr[q])

SoundAnswer(q, a) ==
    /\ a.from \in {q, NULL}
    /\ a.payload = "misread" => ServiceSwitched(q)

\* What the answers to q may be.
SoundAnswers(q) ==
    \/ answers[q] = <<>>
    \/ ccr[q] # NULL /\ \E a \in Answer : answers[q] = <<a>> /\ SoundAnswer(q, a)

AnswersAreSound == \A q \in Request : SoundAnswers(q)

ResponseInv ==
    /\ SessionInv
    /\ NothingWentWrong
    /\ RatedRequestsAreHeld
    /\ SubSessionsHaveOpeners
    /\ AnswersAreSound
    /\ ResponseFindsItsRequest
    /\ OneRatingPerSubSession

-----------------------------------------------------------------------------
(* The response to r, in a state of the invariant *)

\* The sub-session of a response works on its request, and its CCR is there.
LEMMA ResponseFacts ==
    ASSUME ResponseInv, NEW r \in Request, r \in rating, sub[ccr[r].key] # NULL
    PROVE  LET k == ccr[r].key
               s == sub[k]
           IN /\ k \in Key
              /\ s \in SubSession
              /\ s.poCCR = r
              /\ s.hPeer = r
              /\ s.busy
              /\ mem[r] = "held"
              /\ Deref(s.poCCR) = {r}
              /\ s.object \in Request
              /\ ccr[s.object] # NULL
              /\ ccr[s.object].key = k
              /\ OpenedByInitial(s)
<1>. DEFINE k == ccr[r].key
            s == sub[k]
<1>1. /\ k \in Key
      /\ s \in SubSession
      /\ s.object \in Request
  BY DeliveredFacts DEF ResponseInv
<1>2. /\ s.poCCR = r
      /\ s.hPeer = r
      /\ s.busy
      /\ mem[r] = "held"
  BY DEF ResponseInv, ResponseFindsItsRequest, RatedRequestsAreHeld, SubOf
<1>3. Deref(s.poCCR) = {r}
  BY <1>2, NullIsNothing DEF Deref
<1>4. /\ ccr[s.object] # NULL
      /\ ccr[s.object].key = k
      /\ OpenedByInitial(s)
  BY <1>1 DEF ResponseInv, SessionInv, SubSessionsAreSound, SubSessionOK, SubSessionsHaveOpeners
<1>. QED
  BY <1>1, <1>2, <1>3, <1>4

\* What a step that consumes the response to r may change.
Consumed(r) ==
    /\ r \in rating
    /\ rating' = rating \ {r}
    /\ UNCHANGED <<up, ccr, dangling>>
    /\ \A x \in Request : x # r => mem'[x] = mem[x] /\ answers'[x] = answers[x]
    /\ \A j \in Key : j # ccr[r].key => sub'[j] = sub[j]

\* The sub-session of r is gone, or remembers who opened it.
KeepsOpener(k) ==
    sub'[k] # NULL => /\ sub'[k].object \in Request
                      /\ OpenedByInitial(sub'[k])

\* An answer to r of the given payload, or none.
AnswersOnce(r, s, payload) ==
    \/ UNCHANGED answers
    \/ \E code \in ResultCode : AnswerSent(r, RatedAnswer(s, code, r, payload))

LEMMA AnswersOnceIsSound ==
    ASSUME ResponseInv, NEW r \in rating, NEW s \in SubSession, UNCHANGED ccr,
           NEW payload \in {"unused", "read", "misread"},
           payload = "misread" => ServiceSwitched(r),
           AnswersOnce(r, s, payload)
    PROVE  SoundAnswers(r)'
<1>1. /\ r \in Request
      /\ answers[r] = <<>>
      /\ ccr[r] # NULL
      /\ answers \in [Request -> Seq(Answer)]
  BY DEF ResponseInv, SessionInv, TypeOK, RatedRequestsArrived, RatedRequestsAreHeld
<1>2. CASE UNCHANGED answers
  BY <1>1, <1>2 DEF SoundAnswers
<1>3. ASSUME NEW code \in ResultCode, AnswerSent(r, RatedAnswer(s, code, r, payload))
      PROVE  SoundAnswers(r)'
  <2>. DEFINE a == RatedAnswer(s, code, r, payload)
  <2>1. a \in Answer
    BY <1>1, AnswerTypes
  <2>2. a.from = r /\ a.payload = payload
    BY DEF RatedAnswer
  <2>3. answers'[r] = <<a>>
    BY <1>1, <1>3, <2>1 DEF AnswerSent
  <2>4. (a.payload = "misread" => ServiceSwitched(r))'
    BY <2>2 DEF ServiceSwitched
  <2>5. ccr'[r] # NULL
    BY <1>1
  <2>. QED
    BY <2>1, <2>2, <2>3, <2>4, <2>5 DEF SoundAnswers, SoundAnswer
<1>. QED
  BY <1>2, <1>3 DEF AnswersOnce

\* A step that consumes a response touches nothing of any other request.
LEMMA ConsumedIsSound ==
    ASSUME ResponseInv, SessionInv', NEW r \in Request, Consumed(r),
           KeepsOpener(ccr[r].key), SoundAnswers(r)'
    PROVE  ResponseInv'
<1>. DEFINE k == ccr[r].key
<1>1. \A x \in rating' : x \in Request /\ x \in rating /\ x # r /\ ccr[x].key # k
  BY DEF Consumed, ResponseInv, OneRatingPerSubSession, SessionInv, TypeOK
<1>2. NothingWentWrong' /\ RatedRequestsAreHeld' /\ OneRatingPerSubSession'
  BY <1>1 DEF Consumed, ResponseInv, NothingWentWrong, RatedRequestsAreHeld, OneRatingPerSubSession
<1>3. \A x \in rating' : ccr[x] # NULL /\ ccr[x].key \in Key /\ SubOf(x)' = SubOf(x)
  <2>1. \A x \in rating' : ccr[x] # NULL /\ ccr[x].key \in Key
    BY <1>1 DEF ResponseInv, SessionInv, TypeOK, RatedRequestsArrived, Message
  <2>. QED
    BY <1>1, <2>1 DEF SubOf, Consumed
<1>4. ResponseFindsItsRequest'
  BY <1>1, <1>3 DEF Consumed, ResponseInv, ResponseFindsItsRequest
<1>5. SubSessionsHaveOpeners'
  <2>. SUFFICES ASSUME NEW j \in Key, sub'[j] # NULL
                PROVE  OpenedByInitial(sub[j])'
    BY DEF SubSessionsHaveOpeners
  <2>1. CASE j = k
    BY <2>1 DEF KeepsOpener, OpenedByInitial, Consumed
  <2>2. CASE j # k
    BY <2>2 DEF Consumed, ResponseInv, SubSessionsHaveOpeners, OpenedByInitial
  <2>. QED
    BY <2>1, <2>2
<1>6. AnswersAreSound'
  <2>. SUFFICES ASSUME NEW q \in Request, q # r
                PROVE  SoundAnswers(q)'
    BY DEF AnswersAreSound
  <2>1. SoundAnswers(q) /\ answers'[q] = answers[q] /\ ccr' = ccr
    BY DEF ResponseInv, AnswersAreSound, Consumed
  <2>. QED
    BY <2>1 DEF SoundAnswers, SoundAnswer, ServiceSwitched
<1>. QED
  BY <1>2, <1>4, <1>5, <1>6 DEF ResponseInv

\* What a handler may put in the place of sub-session s.
KeptFields(s, t) ==
    /\ t.object = s.object
    /\ t.charging = s.charging
    /\ \/ t.state = s.state /\ t.poCCR = s.poCCR
       \/ t.state = "OPEN" /\ ccr[s.object].type = "INITIAL"

\* The common course of the handlers of a response.
LEMMA HandlerIsSound ==
    ASSUME ResponseInv, SessionInv', NEW r \in Request, NEW q, NEW state,
           Delivered(r, q, state),
           mem' = mem \/ FreeCCR(r),
           dangling' = {},
           NEW t \in SubSession \cup {NULL, sub[ccr[r].key]},
           sub' = [sub EXCEPT ![ccr[r].key] = t],
           t # NULL => KeptFields(sub[ccr[r].key], t),
           NEW payload \in {"unused", "read", "misread"},
           payload = "misread" => ServiceSwitched(r),
           AnswersOnce(r, sub[ccr[r].key], payload)
    PROVE  ResponseInv'
<1>. DEFINE k == ccr[r].key
            s == sub[k]
<1>1. /\ r \in rating
      /\ s # NULL
      /\ rating' = rating \ {r}
      /\ UNCHANGED <<up, ccr>>
  BY DEF Delivered
<1>2. /\ k \in Key
      /\ s \in SubSession
      /\ s.object \in Request
      /\ OpenedByInitial(s)
  BY <1>1, ResponseFacts
<1>3. /\ sub \in [Key -> SubSession \cup {NULL}]
      /\ answers \in [Request -> Seq(Answer)]
      /\ mem \in [Request -> {"none", "held", "freed"}]
      /\ dangling' = dangling
  BY DEF ResponseInv, NothingWentWrong, SessionInv, TypeOK
<1>4. Consumed(r)
  <2>1. \A j \in Key : j # k => sub'[j] = sub[j]
    BY <1>3
  <2>2. \A x \in Request : x # r => mem'[x] = mem[x]
    BY <1>3 DEF FreeCCR
  <2>3. \A x \in Request : x # r => answers'[x] = answers[x]
    BY <1>3 DEF AnswersOnce, AnswerSent
  <2>. QED
    BY <1>1, <1>3, <2>1, <2>2, <2>3 DEF Consumed
<1>5. KeepsOpener(k)
  <2>1. sub'[k] = t
    BY <1>2, <1>3
  <2>2. t # NULL => OpenedByInitial(t)
    BY <1>2 DEF KeptFields, OpenedByInitial
  <2>. QED
    BY <1>2, <2>1, <2>2 DEF KeepsOpener, KeptFields
<1>6. SoundAnswers(r)'
  BY <1>1, <1>2, AnswersOnceIsSound
<1>. QED
  BY <1>4, <1>5, <1>6, ConsumedIsSound

-----------------------------------------------------------------------------
(* The payload of a response *)

\* What a handler reads is what the rating function sent, unless a Terminate
\* names a service of the other charging type.
LEMMA PayloadIsSound ==
    ASSUME ResponseInv, NEW r \in Request, r \in rating, sub[ccr[r].key] # NULL
    PROVE  LET s == sub[ccr[r].key]
           IN /\ \A kind \in {"Price", "Tariff"} : Read(kind, r) \in {"read", "misread"}
              /\ PayloadOf(s) \in {"Price", "Tariff"}
              /\ ccr[r].type = "EVENT" => Read("Price", r) = "read"
              /\ ccr[r].type = "UPDATE" => Read("Tariff", r) = "read"
              /\ s.state = "IDLE" /\ ccr[r].type = "INITIAL"
                     => Read(PayloadOf(s), r) = "read"
              /\ s.state = "OPEN" /\ ccr[r].type = "TERMINATION"
                     /\ Read(PayloadOf(s), r) = "misread" => ServiceSwitched(r)
<1>. DEFINE s == sub[ccr[r].key]
<1>1. /\ s \in SubSession
      /\ s.poCCR = r
      /\ s.object \in Request
      /\ ccr[s.object] # NULL
      /\ ccr[s.object].key = ccr[r].key
      /\ OpenedByInitial(s)
  BY ResponseFacts
<1>2. s.charging \in {"SCUR", "ECUR"}
  BY <1>1 DEF SubSession
<1>3. \A m : OCF_CheckChargingType(m) \in {"SCUR", "ECUR"}
  BY DEF OCF_CheckChargingType
<1>4. ASSUME s.state = "IDLE", ccr[r].type = "INITIAL"
      PROVE  Read(PayloadOf(s), r) = "read"
  BY <1>1, <1>3, <1>4 DEF OpenedByInitial, Read, PayloadOf, RatingKind
<1>5. ASSUME s.state = "OPEN", ccr[r].type = "TERMINATION", Read(PayloadOf(s), r) = "misread"
      PROVE  ServiceSwitched(r)
  <2>1. s.charging # OCF_CheckChargingType(ccr[r])
    BY <1>2, <1>3, <1>5 DEF Read, PayloadOf, RatingKind
  <2>. QED
    BY <1>1, <1>5, <2>1 DEF OpenedByInitial, ServiceSwitched
<1>. QED
  BY <1>4, <1>5 DEF Read, PayloadOf, RatingKind

-----------------------------------------------------------------------------
(* Every step keeps the invariant *)

LEMMA ResponseKeepsMatch ==
    ASSUME ResponseInv, MemoryIsSafe, NEW r \in Request, HandleResponse(r)
    PROVE  ResponseInv'
<1>. DEFINE k == ccr[r].key
            s == sub[k]
<1>1. SessionInv'
  BY ResponseIsSound DEF ResponseInv
<1>2. /\ sub \in [Key -> SubSession \cup {NULL}]
      /\ dangling = {}
  BY DEF ResponseInv, NothingWentWrong, SessionInv, TypeOK
<1>3. \A j : RemoveSubSession(j) \/ RemoveSubSessionByOwnId(j)
                 => dangling' = {} /\ sub' = [sub EXCEPT ![j] = NULL]
  BY <1>2 DEF RemoveSubSession, RemoveSubSessionByOwnId, MemoryIsSafe
<1>4. ASSUME NEW q, NEW state, Delivered(r, q, state)
      PROVE  /\ q = r
             /\ r \in rating
             /\ s # NULL
             /\ k \in Key
             /\ s \in SubSession
             /\ s.state = state
             /\ s.poCCR = r
             /\ OpenedByInitial(s)
  <2>1. /\ r \in rating
        /\ s # NULL
        /\ s.state = state
        /\ q \in Deref(s.poCCR)
    BY <1>4 DEF Delivered
  <2>. QED
    BY <2>1, ResponseFacts
<1>5. ASSUME NEW q, NEW state, Delivered(r, q, state), UNCHANGED <<mem, sub, dangling, answers>>
      PROVE  ResponseInv'
  <2>1. sub' = [sub EXCEPT ![k] = s]
    BY <1>2, <1>4, <1>5
  <2>2. KeptFields(s, s) /\ AnswersOnce(r, s, "unused")
    BY <1>5 DEF KeptFields, AnswersOnce
  <2>. QED
    BY <1>1, <1>2, <1>5, <2>1, <2>2, HandlerIsSound
<1>6. ASSUME NEW q, NEW state, Delivered(r, q, state),
             mem' = mem \/ FreeCCR(r),
             NEW payload \in {"unused", "read", "misread"},
             payload = "misread" => ServiceSwitched(r),
             NEW code \in ResultCode,
             AnswerSent(r, RatedAnswer(s, code, r, payload)),
             \/ RemoveSubSession(k)
             \/ RemoveSubSessionByOwnId(k)
             \/ /\ UNCHANGED dangling
                /\ \E t \in {Opened(s), Renewed(s), Untimed(s)} :
                       /\ sub' = [sub EXCEPT ![k] = t]
                       /\ t \in SubSession
                       /\ KeptFields(s, t)
      PROVE  ResponseInv'
  <2>1. AnswersOnce(r, s, payload)
    BY <1>6 DEF AnswersOnce
  <2>2. CASE sub' = [sub EXCEPT ![k] = NULL] /\ dangling' = {}
    BY <1>1, <1>6, <2>1, <2>2, HandlerIsSound
  <2>3. ASSUME dangling' = {}, NEW t \in SubSession, sub' = [sub EXCEPT ![k] = t], KeptFields(s, t)
        PROVE  ResponseInv'
    BY <1>1, <1>6, <2>1, <2>3, HandlerIsSound
  <2>. QED
    BY <1>2, <1>3, <1>6, <2>2, <2>3
<1>7. /\ {"SUCCESS", "RATING_FAILED", "NONE", "ARBITRARY"} \subseteq ResultCode
      /\ \A code \in ResultCode, c \in ResultCode :
             (IF s.charging = "SCUR" THEN code ELSE c) \in ResultCode
  BY DEF ResultCode
<1>8. ASSUME NEW q, NEW state, Delivered(r, q, state)
      PROVE  /\ \A t \in {Opened(s), Renewed(s), Untimed(s)} : t \in SubSession
             /\ KeptFields(s, Untimed(s))
             /\ ccr[s.object].type = "INITIAL" =>
                    KeptFields(s, Opened(s)) /\ (state = "OPEN" => KeptFields(s, Renewed(s)))
  <2>1. s \in SubSession /\ s.state = state
    BY <1>4, <1>8
  <2>2. \A t \in {Opened(s), Renewed(s), Untimed(s)} : t \in SubSession
    BY <2>1, NewSubSessionTypes
  <2>3. KeptFields(s, Untimed(s))
    BY <2>1, UntimedFields DEF KeptFields, Untimed, SubSession
  <2>4. ASSUME ccr[s.object].type = "INITIAL"
        PROVE  KeptFields(s, Opened(s))
    BY <2>1, <2>4, GrantedFields DEF KeptFields, Opened, SubSession
  <2>5. ASSUME ccr[s.object].type = "INITIAL", state = "OPEN"
        PROVE  KeptFields(s, Renewed(s))
    BY <2>1, <2>5, GrantedFields DEF KeptFields, Renewed, SubSession
  <2>. QED
    BY <2>2, <2>3, <2>4, <2>5
<1>9. CASE \E q \in Request : OCF_Idle_InitReqProcessingSuccessful(r, q)
  <2>1. PICK q \in Request : OCF_Idle_InitReqProcessingSuccessful(r, q)
    BY <1>9
  <2>2. Delivered(r, q, "IDLE") /\ ccr[q].type = "INITIAL"
    BY <2>1 DEF OCF_Idle_InitReqProcessingSuccessful, Dispatched
  <2>3. /\ q = r
        /\ ccr[s.object].type = "INITIAL"
        /\ Read(PayloadOf(s), r) = "read"
    BY <1>4, <2>2, PayloadIsSound DEF OpenedByInitial
  <2>4. CASE AnswerFails
    BY <1>5, <2>2, <2>4 DEF AnswerFails
  <2>5. CASE /\ AnswerSent(r, RatedAnswer(s, "SUCCESS", r, "read"))
             /\ FreeCCR(r)
             /\ sub' = [sub EXCEPT ![k] = Opened(s)]
             /\ UNCHANGED dangling
    BY <1>6, <1>7, <1>8, <2>2, <2>3, <2>5
  <2>. QED
    BY <2>1, <2>3, <2>4, <2>5 DEF OCF_Idle_InitReqProcessingSuccessful
<1>10. CASE \E q \in Request : OCF_Idle_InitReqProcessingUnSuccessful(r, q)
  <2>1. PICK q \in Request : OCF_Idle_InitReqProcessingUnSuccessful(r, q)
    BY <1>10
  <2>2. Delivered(r, q, "IDLE") /\ q = r
    BY <1>4, <2>1 DEF OCF_Idle_InitReqProcessingUnSuccessful, Dispatched
  <2>3. CASE AnswerFails
    BY <1>5, <2>2, <2>3 DEF AnswerFails
  <2>4. ASSUME NEW code \in ResultCode, AnswerSent(r, RatedAnswer(s, code, r, "unused")),
               FreeCCR(r), RemoveSubSession(k)
        PROVE  ResponseInv'
    BY <1>6, <2>2, <2>4
  <2>. QED
    BY <1>7, <2>1, <2>2, <2>3, <2>4 DEF OCF_Idle_InitReqProcessingUnSuccessful
<1>11. CASE \E q \in Request : OCF_Idle_EventReqProcessingSuccessful(r, q)
  <2>1. PICK q \in Request : OCF_Idle_EventReqProcessingSuccessful(r, q)
    BY <1>11
  <2>2. Delivered(r, q, "IDLE") /\ ccr[q].type = "EVENT"
    BY <2>1 DEF OCF_Idle_EventReqProcessingSuccessful, Dispatched
  <2>3. q = r /\ Read("Price", r) = "read"
    BY <1>4, <2>2, PayloadIsSound
  <2>4. CASE AnswerFails
    BY <1>5, <2>2, <2>4 DEF AnswerFails
  <2>5. CASE /\ AnswerSent(r, RatedAnswer(s, "SUCCESS", r, "read"))
             /\ FreeCCR(r)
             /\ RemoveSubSession(k)
    BY <1>6, <1>7, <2>2, <2>5
  <2>. QED
    BY <2>1, <2>3, <2>4, <2>5 DEF OCF_Idle_EventReqProcessingSuccessful
<1>12. CASE \E q \in Request : \/ OCF_Idle_EventReqProcessingUnSuccessful(r, q)
                               \/ NoHandler(r, q)
  BY <1>5, <1>12 DEF OCF_Idle_EventReqProcessingUnSuccessful, NoHandler, Dispatched
<1>13. CASE \E q \in Request : OCF_Open_UpdateReqProcessingSuccessful(r, q)
  <2>1. PICK q \in Request : OCF_Open_UpdateReqProcessingSuccessful(r, q)
    BY <1>13
  <2>2. Delivered(r, q, "OPEN") /\ ccr[q].type = "UPDATE"
    BY <2>1 DEF OCF_Open_UpdateReqProcessingSuccessful, Dispatched
  <2>3. /\ q = r
        /\ ccr[s.object].type = "INITIAL"
        /\ Read("Tariff", r) = "read"
    BY <1>4, <2>2, PayloadIsSound DEF OpenedByInitial
  <2>4. CASE AnswerFails
    BY <1>5, <2>2, <2>4 DEF AnswerFails
  <2>5. CASE /\ AnswerSent(r, RatedAnswer(s, "SUCCESS", r, "read"))
             /\ FreeCCR(r)
             /\ sub' = [sub EXCEPT ![k] = Renewed(s)]
             /\ UNCHANGED dangling
    BY <1>6, <1>7, <1>8, <2>2, <2>3, <2>5
  <2>. QED
    BY <2>1, <2>3, <2>4, <2>5 DEF OCF_Open_UpdateReqProcessingSuccessful
<1>14. CASE \E q \in Request : OCF_Open_UpdateReqProcessingUnSuccessful(r, q)
  <2>1. PICK q \in Request : OCF_Open_UpdateReqProcessingUnSuccessful(r, q)
    BY <1>14
  <2>2. Delivered(r, q, "OPEN") /\ q = r
    BY <1>4, <2>1 DEF OCF_Open_UpdateReqProcessingUnSuccessful, Dispatched
  <2>3. CASE AnswerFails
    BY <1>5, <2>2, <2>3 DEF AnswerFails
  <2>4. ASSUME NEW code \in ResultCode, AnswerSent(r, RatedAnswer(s, code, r, "unused")),
               sub' = [sub EXCEPT ![k] = Untimed(s)], UNCHANGED <<mem, dangling>>
        PROVE  ResponseInv'
    BY <1>6, <1>8, <2>2, <2>4
  <2>. QED
    BY <1>7, <2>1, <2>2, <2>3, <2>4 DEF OCF_Open_UpdateReqProcessingUnSuccessful
<1>15. CASE \E q \in Request : OCF_Open_TerminateReqProcessingSuccessful(r, q)
  <2>1. PICK q \in Request : OCF_Open_TerminateReqProcessingSuccessful(r, q)
    BY <1>15
  <2>2. Delivered(r, q, "OPEN") /\ ccr[q].type = "TERMINATION"
    BY <2>1 DEF OCF_Open_TerminateReqProcessingSuccessful, Dispatched
  <2>. DEFINE payload == Read(PayloadOf(s), r)
  <2>3. /\ q = r
        /\ payload \in {"unused", "read", "misread"}
        /\ payload = "misread" => ServiceSwitched(r)
    BY <1>4, <2>2, PayloadIsSound
  <2>4. CASE AnswerFails
    BY <1>5, <2>2, <2>4 DEF AnswerFails
  <2>5. CASE /\ AnswerSent(r, RatedAnswer(s, "SUCCESS", r, payload))
             /\ FreeCCR(r)
             /\ RemoveSubSession(k)
    <3>. HIDE DEF payload
    <3>. QED
      BY <1>6, <1>7, <2>2, <2>3, <2>5
  <2>. QED
    BY <2>1, <2>3, <2>4, <2>5 DEF OCF_Open_TerminateReqProcessingSuccessful
<1>16. CASE \E q \in Request : OCF_Open_TerminateReqProcessingUnSuccessful(r, q)
  <2>1. PICK q \in Request : OCF_Open_TerminateReqProcessingUnSuccessful(r, q)
    BY <1>16
  <2>2. Delivered(r, q, "OPEN") /\ q = r
    BY <1>4, <2>1 DEF OCF_Open_TerminateReqProcessingUnSuccessful, Dispatched
  <2>3. CASE AnswerFails
    BY <1>5, <2>2, <2>3 DEF AnswerFails
  <2>4. ASSUME NEW code \in ResultCode, AnswerSent(r, RatedAnswer(s, code, r, "unused")),
               FreeCCR(r), RemoveSubSessionByOwnId(k)
        PROVE  ResponseInv'
    BY <1>6, <2>2, <2>4
  <2>. QED
    BY <1>7, <2>1, <2>2, <2>3, <2>4 DEF OCF_Open_TerminateReqProcessingUnSuccessful
<1>17. CASE ResponseWithoutSession(r)
  <2>1. Consumed(r) /\ KeepsOpener(k)
    BY <1>17 DEF Consumed, KeepsOpener, ResponseWithoutSession
  <2>2. SoundAnswers(r)'
    BY <1>17 DEF ResponseInv, AnswersAreSound, SoundAnswers, SoundAnswer, ServiceSwitched,
       ResponseWithoutSession
  <2>. QED
    BY <1>1, <2>1, <2>2, ConsumedIsSound
<1>18. ~CCRReadFaults(r)
  <2>1. ASSUME CCRReadFaults(r)
        PROVE  FALSE
    BY <2>1, ResponseFacts, NullIsNothing DEF CCRReadFaults
  <2>. QED
    BY <2>1
<1>19. \A q : ~UninitialisedAnswerFaults(r, q)
  BY DEF UninitialisedAnswerFaults, MemoryIsSafe
<1>. QED
  BY <1>9, <1>10, <1>11, <1>12, <1>13, <1>14, <1>15, <1>16, <1>17, <1>18, <1>19
     DEF HandleResponse, Granted, Refused, Unhandled

-----------------------------------------------------------------------------
(* The arrival of a request *)

\* An arriving request is new: nothing is outstanding for it, nothing was sent.
LEMMA NewcomerFacts ==
    ASSUME ResponseInv, NEW r \in Request, NEW m \in Message, Arrives(r, m)
    PROVE  /\ r \notin rating
           /\ answers[r] = <<>>
           /\ ccr'[r] = m
           /\ m.key \in Key
           /\ \A x \in Request : ccr[x] # NULL => (x # r /\ ccr'[x] = ccr[x])
           /\ \A x \in rating : (x \in Request /\ x # r /\ ccr[x] # NULL /\ ccr'[x] = ccr[x])
<1>1. ccr \in [Request -> Message \cup {NULL}] /\ rating \subseteq Request
  BY DEF ResponseInv, SessionInv, TypeOK
<1>2. ccr[r] = NULL /\ ccr' = [ccr EXCEPT ![r] = m]
  BY DEF Arrives
<1>3. \A x \in Request : ccr[x] # NULL => x # r /\ ccr'[x] = ccr[x]
  BY <1>1, <1>2
<1>4. \A x \in rating : ccr[x] # NULL
  BY DEF ResponseInv, SessionInv, RatedRequestsArrived
<1>5. answers[r] = <<>>
  BY <1>2 DEF ResponseInv, AnswersAreSound, SoundAnswers
<1>6. r \notin rating
  BY <1>2, <1>4
<1>7. ccr'[r] = m /\ m.key \in Key
  BY <1>1, <1>2 DEF Message
<1>8. \A x \in rating : x \in Request /\ x # r /\ ccr[x] # NULL /\ ccr'[x] = ccr[x]
  BY <1>1, <1>3, <1>4
<1>9. r \notin rating /\ answers[r] = <<>>
  BY <1>5, <1>6
<1>. QED
  BY <1>3, <1>7, <1>8, <1>9

\* What an arriving request may change of the requests before it.
ArrivalFrame(r) ==
    /\ UNCHANGED <<up, dangling>>
    /\ \A x \in Request : x # r => mem'[x] = mem[x] /\ answers'[x] = answers[x]
    /\ \/ answers'[r] = <<>>
       \/ \E code \in ResultCode : answers'[r] = <<ErrorAnswer(r, code)>>

LEMMA ArrivalKeepsAnswers ==
    ASSUME ResponseInv, NEW r \in Request, NEW m \in Message, Arrives(r, m), ArrivalFrame(r)
    PROVE  AnswersAreSound'
<1>. SUFFICES ASSUME NEW q \in Request
              PROVE  SoundAnswers(q)'
  BY DEF AnswersAreSound
<1>1. CASE q = r
  <2>1. ASSUME NEW code \in ResultCode, answers'[r] = <<ErrorAnswer(r, code)>>
        PROVE  SoundAnswers(q)'
    <3>1. ErrorAnswer(r, code) \in Answer
      BY AnswerTypes
    <3>2. ErrorAnswer(r, code).from = NULL /\ ErrorAnswer(r, code).payload = "unused"
      BY DEF ErrorAnswer
    <3>3. ccr'[r] # NULL
      <4>1. ccr'[r] = m
        BY NewcomerFacts
      <4>. QED
        BY <4>1, NullIsNothing
    <3>. QED
      BY <1>1, <2>1, <3>1, <3>2, <3>3 DEF SoundAnswers, SoundAnswer
  <2>2. CASE answers'[r] = <<>>
    BY <1>1, <2>2 DEF SoundAnswers
  <2>. QED
    BY <2>1, <2>2 DEF ArrivalFrame
<1>2. CASE q # r
  <2>1. SoundAnswers(q) /\ answers'[q] = answers[q]
    BY <1>2 DEF ResponseInv, AnswersAreSound, ArrivalFrame
  <2>2. ASSUME ccr[q] # NULL, ServiceSwitched(q)
        PROVE  ServiceSwitched(q)'
    BY <2>2, NewcomerFacts DEF ServiceSwitched
  <2>. QED
    BY <2>1, <2>2, NewcomerFacts DEF SoundAnswers, SoundAnswer
<1>. QED
  BY <1>1, <1>2

\* A request that leaves the table alone: it is turned down, or its sub-session
\* was not listed and its rating is the only one of that sub-session.
LEMMA UnlistedIsSound ==
    ASSUME ResponseInv, SessionInv', NEW r \in Request, NEW m \in Message, Arrives(r, m),
           ArrivalFrame(r), UNCHANGED sub,
           \/ UNCHANGED rating
           \/ /\ rating' = rating \cup {r} /\ mem'[r] = "held" /\ answers'[r] = <<>>
              /\ sub[m.key] = NULL
              /\ \A x \in rating : ccr[x].key # m.key
    PROVE  ResponseInv'
<1>1. /\ \A x \in rating : x \in Request /\ x # r /\ ccr'[x] = ccr[x] /\ ccr[x] # NULL
      /\ ccr'[r] = m
  BY NewcomerFacts
<1>2. NothingWentWrong' /\ RatedRequestsAreHeld'
  BY <1>1 DEF ArrivalFrame, ResponseInv, NothingWentWrong, RatedRequestsAreHeld
<1>3. OneRatingPerSubSession'
  BY <1>1 DEF ResponseInv, OneRatingPerSubSession
<1>4. ResponseFindsItsRequest'
  <2>1. \A x \in rating : SubOf(x)' = SubOf(x)
    BY <1>1 DEF SubOf
  <2>2. r \in rating' => SubOf(r)' = NULL
    BY <1>1 DEF SubOf
  <2>3. m # NULL
    BY NullIsNothing
  <2>4. \A x \in rating' : x \in rating \/ x = r
    OBVIOUS
  <2>. QED
    BY <1>1, <2>1, <2>2, <2>3, <2>4 DEF ResponseInv, ResponseFindsItsRequest
<1>5. SubSessionsHaveOpeners'
  <2>. SUFFICES ASSUME NEW j \in Key, sub[j] # NULL
                PROVE  OpenedByInitial(sub[j])'
    BY DEF SubSessionsHaveOpeners
  <2>1. sub[j].object \in Request /\ ccr[sub[j].object] # NULL
    BY DEF ResponseInv, SessionInv, TypeOK, SubSession, SubSessionsAreSound, SubSessionOK
  <2>2. ccr'[sub[j].object] = ccr[sub[j].object]
    BY <2>1, NewcomerFacts
  <2>. QED
    BY <2>2 DEF ResponseInv, SubSessionsHaveOpeners, OpenedByInitial
<1>. QED
  BY <1>2, <1>3, <1>4, <1>5, ArrivalKeepsAnswers DEF ResponseInv

\* A request that is turned down leaves the table and the ratings alone.
LEMMA TurnedAwayIsSound ==
    ASSUME ResponseInv, SessionInv', NEW r \in Request, NEW m \in Message, Arrives(r, m),
           ArrivalFrame(r), UNCHANGED <<sub, rating>>
    PROVE  ResponseInv'
  BY UnlistedIsSound

\* A request that is accepted puts sub-session t, which works on it, in its place;
\* its rating request leaves, or the handler fails.
LEMMA AcceptedIsSound ==
    ASSUME ResponseInv, SessionInv', NEW r \in Request, NEW m \in Message, Arrives(r, m),
           ArrivalFrame(r),
           NEW t \in SubSession, sub' = [sub EXCEPT ![m.key] = t],
           t.poCCR = r, t.hPeer = r, t.busy,
           t.state = IF m.type \in {"INITIAL", "EVENT"} THEN "IDLE" ELSE "OPEN",
           OpenedByInitial(sub[m.key])',
           \A x \in rating : ccr[x].key # m.key,
           \/ UNCHANGED rating
           \/ rating' = rating \cup {r} /\ mem'[r] = "held" /\ answers'[r] = <<>>
    PROVE  ResponseInv'
<1>. DEFINE k == m.key
<1>1. /\ \A x \in rating : x \in Request /\ x # r /\ ccr'[x] = ccr[x] /\ ccr[x] # NULL
      /\ ccr'[r] = m
      /\ k \in Key
  BY NewcomerFacts
<1>2. /\ sub'[k] = t
      /\ \A j \in Key : j # k => sub'[j] = sub[j]
  BY <1>1 DEF ResponseInv, SessionInv, TypeOK
<1>3. NothingWentWrong' /\ RatedRequestsAreHeld'
  BY <1>1 DEF ArrivalFrame, ResponseInv, NothingWentWrong, RatedRequestsAreHeld
<1>4. OneRatingPerSubSession'
  BY <1>1 DEF ResponseInv, OneRatingPerSubSession
<1>5. ResponseFindsItsRequest'
  <2>1. ASSUME NEW x \in rating
        PROVE  SubOf(x)' = SubOf(x)
    <3>1. ccr[x].key \in Key /\ ccr[x].key # k
      BY <1>1, <2>1 DEF ResponseInv, SessionInv, TypeOK, Message
    <3>. QED
      BY <1>1, <1>2, <2>1, <3>1 DEF SubOf
  <2>2. SubOf(r)' = t
    BY <1>1, <1>2 DEF SubOf
  <2>3. m # NULL
    BY NullIsNothing
  <2>. QED
    BY <1>1, <2>1, <2>2, <2>3 DEF ResponseInv, ResponseFindsItsRequest
<1>6. SubSessionsHaveOpeners'
  <2>. SUFFICES ASSUME NEW j \in Key, sub'[j] # NULL
                PROVE  OpenedByInitial(sub[j])'
    BY DEF SubSessionsHaveOpeners
  <2>1. CASE j = k
    BY <2>1
  <2>2. CASE j # k
    <3>1. sub'[j] = sub[j]
      BY <1>2, <2>2
    <3>2. sub[j].object \in Request /\ ccr[sub[j].object] # NULL
      BY <3>1 DEF ResponseInv, SessionInv, TypeOK, SubSession, SubSessionsAreSound, SubSessionOK
    <3>3. ccr'[sub[j].object] = ccr[sub[j].object]
      BY <3>2, NewcomerFacts
    <3>. QED
      BY <3>1, <3>3 DEF ResponseInv, SubSessionsHaveOpeners, OpenedByInitial
  <2>. QED
    BY <2>1, <2>2
<1>. QED
  BY <1>3, <1>4, <1>5, <1>6, ArrivalKeepsAnswers DEF ResponseInv

\* An error answer, or none at all, disturbs no other request.
LEMMA ErrorFrame ==
    ASSUME ResponseInv, NEW r \in Request, NEW m \in Message, Arrives(r, m),
           UNCHANGED <<up, dangling>>,
           NEW code \in ResultCode,
           mem' = mem \/ mem' = [mem EXCEPT ![r] = "freed"] \/ mem' = [mem EXCEPT ![r] = "held"],
           Emit(r, ErrorAnswer(r, code)) \/ UNCHANGED answers
    PROVE  ArrivalFrame(r)
<1>1. /\ answers \in [Request -> Seq(Answer)]
      /\ mem \in [Request -> {"none", "held", "freed"}]
  BY DEF ResponseInv, SessionInv, TypeOK
<1>2. answers[r] = <<>>
  BY NewcomerFacts
<1>3. CASE UNCHANGED answers
  BY <1>1, <1>2, <1>3 DEF ArrivalFrame
<1>4. CASE answers' = [answers EXCEPT ![r] = Append(@, ErrorAnswer(r, code))]
  <2>1. ErrorAnswer(r, code) \in Answer
    BY AnswerTypes
  <2>2. answers'[r] = <<ErrorAnswer(r, code)>>
    BY <1>1, <1>2, <1>4, <2>1
  <2>. QED
    BY <1>1, <1>4, <2>2 DEF ArrivalFrame
<1>. QED
  BY <1>3, <1>4 DEF Emit

\* Both ways to go on once the sub-session is in its place.
LEMMA SendFrame ==
    ASSUME ResponseInv, NEW r \in Request, NEW m \in Message, Arrives(r, m),
           UNCHANGED <<up, dangling>>, SendRatingRequest(r)
    PROVE  /\ ArrivalFrame(r)
           /\ \/ UNCHANGED rating
              \/ rating' = rating \cup {r} /\ mem'[r] = "held" /\ answers'[r] = <<>>
<1>1. "UNABLE_TO_COMPLY" \in ResultCode
  BY DEF ResultCode
<1>2. CASE Reject(r, "UNABLE_TO_COMPLY") /\ UNCHANGED rating
  BY <1>1, <1>2, ErrorFrame DEF Reject
<1>3. CASE /\ rating' = rating \cup {r}
           /\ mem' = [mem EXCEPT ![r] = "held"]
           /\ UNCHANGED answers
  <2>1. ArrivalFrame(r)
    BY <1>1, <1>3, ErrorFrame
  <2>2. answers[r] = <<>>
    BY NewcomerFacts
  <2>3. mem'[r] = "held"
    BY <1>3 DEF ResponseInv, SessionInv, TypeOK
  <2>. QED
    BY <1>3, <2>1, <2>2, <2>3
<1>. QED
  BY <1>2, <1>3 DEF SendRatingRequest

LEMMA OpeningKeepsMatch ==
    ASSUME ResponseInv, SessionInv', ClientsWait, NEW r \in Request, NEW m \in Message,
           NEW c \in {"SCUR", "ECUR"}, OpenSubSession(r, m, c),
           m.type \in {"INITIAL", "EVENT"},
           m.type = "INITIAL" => c = OCF_CheckChargingType(m)
    PROVE  ResponseInv'
<1>1. Arrives(r, m) /\ UNCHANGED <<up, dangling>>
  BY DEF OpenSubSession
<1>2. CASE Reject(r, "UNABLE_TO_COMPLY") /\ UNCHANGED <<sub, rating>>
  <2>1. ArrivalFrame(r)
    BY <1>1, <1>2, ErrorFrame DEF Reject, ResultCode
  <2>. QED
    BY <1>1, <1>2, <2>1, TurnedAwayIsSound
<1>3. ASSUME sub[m.key] = NULL, sub' = [sub EXCEPT ![m.key] = NewSubSession(r, c)],
             SendRatingRequest(r)
      PROVE  ResponseInv'
  <2>. DEFINE t == NewSubSession(r, c)
  <2>1. /\ t \in SubSession
        /\ t.object = r
        /\ t.poCCR = r
        /\ t.hPeer = r
        /\ t.busy
        /\ t.state = "IDLE"
        /\ t.charging = c
    BY NewSubSessionTypes DEF NewSubSession
  <2>2. \A x \in rating : ccr[x].key # m.key
    BY <1>1, <1>3 DEF ClientsWait, Arrives, TooEarly
  <2>3. ccr'[r] = m
    BY <1>1, NewcomerFacts
  <2>4. OpenedByInitial(sub[m.key])'
    <3>1. sub'[m.key] = t
      BY <1>1, <1>3, NewcomerFacts DEF ResponseInv, SessionInv, TypeOK
    <3>. HIDE DEF t
    <3>. QED
      BY <2>1, <2>3, <3>1 DEF OpenedByInitial
  <2>5. /\ ArrivalFrame(r)
        /\ \/ UNCHANGED rating
           \/ rating' = rating \cup {r} /\ mem'[r] = "held" /\ answers'[r] = <<>>
    BY <1>1, <1>3, SendFrame
  <2>. HIDE DEF t
  <2>. QED
    BY <1>1, <1>3, <2>1, <2>2, <2>4, <2>5, AcceptedIsSound DEF t
<1>4. ASSUME sub[m.key] = NULL, UNCHANGED sub, SendRatingRequest(r)
      PROVE  ResponseInv'
  <2>1. \A x \in rating : ccr[x].key # m.key
    BY <1>1, <1>4 DEF ClientsWait, Arrives, TooEarly
  <2>2. /\ ArrivalFrame(r)
        /\ \/ UNCHANGED rating
           \/ rating' = rating \cup {r} /\ mem'[r] = "held" /\ answers'[r] = <<>>
    BY <1>1, <1>4, SendFrame
  <2>. QED
    BY <1>1, <1>4, <2>1, <2>2, UnlistedIsSound
<1>. QED
  BY <1>2, <1>3, <1>4 DEF OpenSubSession

LEMMA UseKeepsMatch ==
    ASSUME ResponseInv, SessionInv', NEW r \in Request, NEW m \in Message,
           NEW code \in ResultCode, UseSubSession(r, m, code),
           m.type \in {"UPDATE", "TERMINATION"}
    PROVE  ResponseInv'
<1>1. Arrives(r, m) /\ UNCHANGED <<up, dangling>>
  BY DEF UseSubSession
<1>2. ASSUME NEW e \in ResultCode, Reject(r, e), UNCHANGED <<sub, rating>>
      PROVE  ResponseInv'
  <2>1. ArrivalFrame(r)
    BY <1>1, <1>2, ErrorFrame DEF Reject
  <2>. QED
    BY <1>1, <1>2, <2>1, TurnedAwayIsSound
<1>3. ASSUME sub[m.key] # NULL, ~sub[m.key].busy,
             sub' = [sub EXCEPT ![m.key] = TakeOver(@, r)],
             SendRatingRequest(r)
      PROVE  ResponseInv'
  <2>. DEFINE s == sub[m.key]
              t == TakeOver(s, r)
  <2>1. m.key \in Key
    BY <1>1, NewcomerFacts
  <2>2. /\ s \in SubSession
        /\ s.state = "OPEN"
        /\ ccr[s.object] # NULL
        /\ s.object \in Request
        /\ OpenedByInitial(s)
    <3>1. s \in SubSession
      BY <1>3, <2>1 DEF ResponseInv, SessionInv, TypeOK
    <3>2. SubSessionOK(m.key, s) /\ OpenedByInitial(s)
      BY <1>3, <2>1 DEF ResponseInv, SessionInv, SubSessionsAreSound, SubSessionsHaveOpeners
    <3>. QED
      BY <1>3, <3>1, <3>2 DEF SubSession, SubSessionOK
  <2>3. /\ t \in SubSession
        /\ t.object = s.object
        /\ t.poCCR = r
        /\ t.hPeer = r
        /\ t.busy
        /\ t.state = "OPEN"
        /\ t.charging = s.charging
    BY <2>2, NewSubSessionTypes, TakeOverFields DEF TakeOver, SubSession
  <2>4. \A x \in rating : ccr[x].key # m.key
    BY <1>3 DEF ResponseInv, ResponseFindsItsRequest, SubOf
  <2>5. ccr'[s.object] = ccr[s.object]
    BY <1>1, <2>2, NewcomerFacts
  <2>6. OpenedByInitial(sub[m.key])'
    <3>1. sub'[m.key] = t
      BY <1>3, <2>1 DEF ResponseInv, SessionInv, TypeOK
    <3>. HIDE DEF t
    <3>. QED
      BY <2>2, <2>3, <2>5, <3>1 DEF OpenedByInitial
  <2>7. /\ ArrivalFrame(r)
        /\ \/ UNCHANGED rating
           \/ rating' = rating \cup {r} /\ mem'[r] = "held" /\ answers'[r] = <<>>
    BY <1>1, <1>3, SendFrame
  <2>8. sub' = [sub EXCEPT ![m.key] = t]
    BY <1>3
  <2>. HIDE DEF t
  <2>. QED
    BY <1>1, <2>3, <2>4, <2>6, <2>7, <2>8, AcceptedIsSound
<1>. QED
  BY <1>2, <1>3 DEF UseSubSession, InProgress, ResultCode

LEMMA RequestKeepsMatch ==
    ASSUME ResponseInv, ClientsWait, NEW r \in Request, RequestArrives(r)
    PROVE  ResponseInv'
<1>1. SessionInv'
  BY RequestIsSound DEF ResponseInv
<1>2. {"UNABLE_TO_COMPLY", "UNKNOWN_SESSION_ID", "COMMAND_UNSUPPORTED"} \subseteq ResultCode
  BY DEF ResultCode
<1>3. ASSUME NEW m \in Message, Arrives(r, m), UNCHANGED <<up, sub, dangling, rating>>,
             NEW code \in ResultCode,
             \/ mem' = mem /\ Emit(r, ErrorAnswer(r, code))
             \/ Reject(r, code)
             \/ UNCHANGED <<mem, answers>>
      PROVE  ResponseInv'
  <2>1. ArrivalFrame(r)
    BY <1>3, ErrorFrame DEF Reject
  <2>. QED
    BY <1>1, <1>3, <2>1, TurnedAwayIsSound
<1>4. CASE UnsupportedCommand(r) \/ ExtractionFails(r) \/ UnknownRequestType(r)
  BY <1>2, <1>3, <1>4 DEF UnsupportedCommand, ExtractionFails, UnknownRequestType
<1>5. CASE InitialRequest(r)
  BY <1>1, <1>5, OpeningKeepsMatch DEF InitialRequest, OCF_CheckChargingType
<1>6. CASE EventRequest(r)
  BY <1>1, <1>6, OpeningKeepsMatch DEF EventRequest
<1>7. CASE UpdateRequest(r) \/ TerminateRequest(r)
  BY <1>1, <1>2, <1>7, UseKeepsMatch DEF UpdateRequest, TerminateRequest
<1>. QED
  BY <1>4, <1>5, <1>6, <1>7 DEF RequestArrives

LEMMA OtherKeepsMatch ==
    ASSUME ResponseInv, MemoryIsSafe, NEW r \in Request,
           \/ ResponseLost(r) \/ FreedSessionFaults(r)
           \/ DatabaseFaults(r) \/ TimerExpires(r)
    PROVE  ResponseInv'
<1>1. SessionInv'
  BY OtherIsSound DEF ResponseInv
<1>2. CASE ResponseLost(r)
  <2>1. Consumed(r) /\ KeepsOpener(ccr[r].key)
    <3>1. Consumed(r) /\ ccr[r].key \in Key /\ UNCHANGED <<sub, ccr>>
      BY <1>2 DEF Consumed, ResponseLost, ResponseInv, SessionInv, TypeOK,
         RatedRequestsArrived, Message
    <3>2. sub[ccr[r].key] # NULL =>
              sub[ccr[r].key].object \in Request /\ OpenedByInitial(sub[ccr[r].key])
      BY <1>2, ResponseFacts DEF ResponseLost
    <3>. QED
      BY <3>1, <3>2 DEF KeepsOpener
  <2>2. SoundAnswers(r)'
    BY <1>2 DEF ResponseInv, AnswersAreSound, SoundAnswers, SoundAnswer, ServiceSwitched,
       ResponseLost
  <2>. QED
    BY <1>1, <2>1, <2>2, ConsumedIsSound
<1>3. ~FreedSessionFaults(r) /\ ~DatabaseFaults(r)
  BY DEF FreedSessionFaults, DatabaseFaults, MemoryIsSafe, ResponseInv, NothingWentWrong
<1>4. CASE TimerExpires(r)
  <2>. DEFINE k == ccr[r].key
  <2>1. /\ ccr[r] # NULL
        /\ sub[k] # NULL
        /\ sub[k].object = r
        /\ sub[k].state = "OPEN"
    BY <1>4 DEF ResponseInv, SessionInv, TimersAreOwned, SubOf, TimerExpires
  <2>2. /\ RemoveSubSession(k)
        /\ UNCHANGED <<up, ccr, mem, rating, answers>>
    BY <1>4, <2>1 DEF TimerExpires
  <2>3. /\ dangling' = {}
        /\ \A j \in Key : sub'[j] = NULL \/ sub'[j] = sub[j]
    BY <2>2 DEF RemoveSubSession, ResponseInv, NothingWentWrong, SessionInv, TypeOK
  <2>4. NothingWentWrong' /\ RatedRequestsAreHeld' /\ OneRatingPerSubSession'
    BY <2>2, <2>3 DEF ResponseInv, NothingWentWrong, RatedRequestsAreHeld,
       OneRatingPerSubSession
  <2>5. SubSessionsHaveOpeners'
    BY <2>2, <2>3 DEF ResponseInv, SubSessionsHaveOpeners, OpenedByInitial
  <2>6. AnswersAreSound'
    BY <2>2 DEF ResponseInv, AnswersAreSound, SoundAnswers, SoundAnswer, ServiceSwitched
  <2>7. ResponseFindsItsRequest'
    <3>1. \A x \in rating : ccr[x].key \in Key
      BY DEF ResponseInv, SessionInv, TypeOK, RatedRequestsArrived, Message
    <3>. QED
      BY <2>2, <2>3, <3>1 DEF ResponseInv, ResponseFindsItsRequest, SubOf
  <2>. QED
    BY <1>1, <2>4, <2>5, <2>6, <2>7 DEF ResponseInv
<1>. QED
  BY <1>2, <1>3, <1>4

LEMMA ResponseInvHolds ==
    ASSUME ClientsWait, MemoryIsSafe
    PROVE  Spec => []ResponseInv
<1>1. Init => ResponseInv
  <2>. SUFFICES ASSUME Init PROVE ResponseInv
    OBVIOUS
  <2>1. SessionInv
    BY SessionInvStarts
  <2>. QED
    BY <2>1 DEF Init, ResponseInv, NothingWentWrong, RatedRequestsAreHeld,
       SubSessionsHaveOpeners, AnswersAreSound, SoundAnswers, ResponseFindsItsRequest,
       OneRatingPerSubSession
<1>2. ResponseInv /\ [Next]_vars => ResponseInv'
  <2>. SUFFICES ASSUME ResponseInv, [Next]_vars PROVE ResponseInv'
    OBVIOUS
  <2>1. ~Restart
    BY DEF Restart, ResponseInv, NothingWentWrong
  <2>2. ASSUME NEW r \in Request, RequestArrives(r)
        PROVE  ResponseInv'
    BY <2>2, RequestKeepsMatch
  <2>3. ASSUME NEW r \in Request, HandleResponse(r)
        PROVE  ResponseInv'
    BY <2>3, ResponseKeepsMatch
  <2>4. ASSUME NEW r \in Request,
               \/ ResponseLost(r) \/ FreedSessionFaults(r)
               \/ DatabaseFaults(r) \/ TimerExpires(r)
        PROVE  ResponseInv'
    BY <2>4, OtherKeepsMatch
  <2>5. CASE UNCHANGED vars
    <3>1. SessionInv'
      BY <2>5, SessionInvStutters DEF ResponseInv
    <3>. QED
      BY <2>5, <3>1 DEF vars, ResponseInv, NothingWentWrong, RatedRequestsAreHeld,
         SubSessionsHaveOpeners, OpenedByInitial, AnswersAreSound, SoundAnswers, SoundAnswer,
         ServiceSwitched, ResponseFindsItsRequest, SubOf, OneRatingPerSubSession
  <2>. QED
    BY <2>1, <2>2, <2>3, <2>4, <2>5 DEF Next
<1>. QED
  BY <1>1, <1>2, PTL DEF Spec

-----------------------------------------------------------------------------
(* What follows for every execution in which clients wait *)

\* Whatever is lost or fails to be sent, a response finds the sub-session working
\* on the request it was asked for, or no sub-session (ocf_sbcf.c:30-39,
\* ocf_ebcf.c:20-27).
THEOREM ResponsesMatch ==
    ASSUME ClientsWait, MemoryIsSafe
    PROVE  Spec => []ResponseFindsItsRequest
<1>1. ResponseInv => ResponseFindsItsRequest
  BY DEF ResponseInv
<1>. QED
  BY <1>1, ResponseInvHolds, PTL

\* A sub-session never has two rating requests under way (ocf_sbcf.c:122, 174).
THEOREM RatingsDoNotOverlap ==
    ASSUME ClientsWait, MemoryIsSafe
    PROVE  Spec => []OneRatingPerSubSession
<1>1. ResponseInv => OneRatingPerSubSession
  BY DEF ResponseInv
<1>. QED
  BY <1>1, ResponseInvHolds, PTL

\* No request is answered twice (ocf.c:1107-1195 and the handlers of
\* ocf_statemachine.c).
THEOREM NoSecondAnswer ==
    ASSUME ClientsWait, MemoryIsSafe
    PROVE  Spec => []AtMostOneAnswer
<1>1. ASSUME ResponseInv, NEW q \in Request
      PROVE  Len(answers[q]) <= 1
  <2>1. SoundAnswers(q)
    BY <1>1 DEF ResponseInv, AnswersAreSound
  <2>2. CASE answers[q] = <<>>
    BY <2>2
  <2>3. ASSUME NEW a \in Answer, answers[q] = <<a>>
        PROVE  Len(answers[q]) <= 1
    BY <2>3
  <2>. QED
    BY <2>1, <2>2, <2>3 DEF SoundAnswers
<1>2. ResponseInv => AtMostOneAnswer
  BY <1>1 DEF AtMostOneAnswer
<1>. QED
  BY <1>2, ResponseInvHolds, PTL

\* An answer is made of the response to the rating request of the very request
\* it answers (ocf_statemachine.c:129-188, 305-351, 370-418, 494-624).
THEOREM AnswersAreOwn ==
    ASSUME ClientsWait, MemoryIsSafe
    PROVE  Spec => []AnswerOfOwnRating
<1>1. ASSUME ResponseInv, NEW q \in Request, NEW i \in DOMAIN answers[q]
      PROVE  answers[q][i].from \in {q, NULL}
  <2>1. SoundAnswers(q)
    BY <1>1 DEF ResponseInv, AnswersAreSound
  <2>. QED
    BY <1>1, <2>1 DEF SoundAnswers, SoundAnswer
<1>2. ResponseInv => AnswerOfOwnRating
  BY <1>1 DEF AnswerOfOwnRating
<1>. QED
  BY <1>2, ResponseInvHolds, PTL

\* A price structure is read as a tariff structure, or the reverse, only for a
\* Terminate that names a service of the other charging type than the Initial of
\* its sub-session (ocf.c:1043, ocf_statemachine.c:503).
THEOREM MisreadsAreServiceSwitches ==
    ASSUME ClientsWait, MemoryIsSafe
    PROVE  Spec => []MisreadOnlyAfterServiceSwitch
<1>1. ASSUME ResponseInv, NEW q \in Request, NEW i \in DOMAIN answers[q],
             answers[q][i].payload = "misread"
      PROVE  ServiceSwitched(q)
  <2>1. SoundAnswers(q)
    BY <1>1 DEF ResponseInv, AnswersAreSound
  <2>. QED
    BY <1>1, <2>1 DEF SoundAnswers, SoundAnswer
<1>2. ResponseInv => MisreadOnlyAfterServiceSwitch
  BY <1>1 DEF MisreadOnlyAfterServiceSwitch, ServiceSwitched
<1>. QED
  BY <1>2, ResponseInvHolds, PTL

\* No handler follows a pointer to a freed CCR or a freed session object
\* (ocf.c:176-187, ocf_statemachine.c:76-95).
THEOREM NoHandlerCrashes ==
    ASSUME ClientsWait, MemoryIsSafe
    PROVE  Spec => []NeverCrashes
<1>1. ResponseInv => NeverCrashes
  BY DEF ResponseInv, NothingWentWrong, NeverCrashes
<1>. QED
  BY <1>1, ResponseInvHolds, PTL

-----------------------------------------------------------------------------
(***************************************************************************)
(* Proofs about executions in which nothing fails and clients do not       *)
(* reopen a sub-session too early: no sub-session waits for a response     *)
(* that is not on its way, unless the rating function turned its request   *)
(* down.                                                                   *)
(***************************************************************************)

NothingFails == Faults = {}

Rated == {"INITIAL", "UPDATE", "TERMINATION", "EVENT"}

(***************************************************************************)
(* The inductive invariant.  A busy sub-session works on a request of its  *)
(* own, so that no step of another sub-session disturbs it, and only       *)
(* requests for which a handler is registered are rated.                   *)
(***************************************************************************)
RatedTypes == \A r \in rating : ccr[r].type \in Rated

WaitsOrIsTurnedDown(k, s) ==
    s.busy => /\ s.poCCR \in Request
              /\ ccr[s.poCCR] # NULL
              /\ ccr[s.poCCR].key = k
              /\ s.poCCR \in rating \/ TurnedDown(s)

NoneIsStuck == \A k \in Key : sub[k] # NULL => WaitsOrIsTurnedDown(k, sub[k])

QuietInv == ResponseInv /\ RatedTypes /\ NoneIsStuck

-----------------------------------------------------------------------------
(* Steps of other sub-sessions *)

\* A sub-session stays as it is while its own requests do.
LEMMA UndisturbedStays ==
    ASSUME QuietInv, NEW k \in Key, sub[k] # NULL, sub'[k] = sub[k],
           \A x \in Request : ccr[x] # NULL /\ ccr[x].key = k =>
               /\ ccr'[x] = ccr[x]
               /\ answers'[x] = answers[x]
               /\ x \in rating => x \in rating'
    PROVE  WaitsOrIsTurnedDown(k, sub[k])'
<1>. SUFFICES ASSUME sub[k].busy
              PROVE  WaitsOrIsTurnedDown(k, sub[k])'
  BY DEF WaitsOrIsTurnedDown
<1>. DEFINE p == sub[k].poCCR
<1>1. /\ p \in Request
      /\ ccr[p] # NULL
      /\ ccr[p].key = k
      /\ p \in rating \/ TurnedDown(sub[k])
  BY DEF QuietInv, NoneIsStuck, WaitsOrIsTurnedDown
<1>2. /\ ccr'[p] = ccr[p]
      /\ answers'[p] = answers[p]
      /\ p \in rating => p \in rating'
  BY <1>1
<1>3. TurnedDown(sub[k]) => TurnedDown(sub[k])'
  BY <1>2 DEF TurnedDown, Codes
<1>. QED
  BY <1>1, <1>2, <1>3 DEF WaitsOrIsTurnedDown

-----------------------------------------------------------------------------
(* Arrivals *)

LEMMA AcceptedWaits ==
    ASSUME QuietInv, NothingFails, NEW r \in Request, NEW m \in Message, Arrives(r, m),
           m.type \in Rated, NEW t, t.poCCR = r,
           \/ \E code : Reject(r, code) /\ UNCHANGED <<sub, rating>>
           \/ sub' = [sub EXCEPT ![m.key] = t] /\ SendRatingRequest(r)
    PROVE  RatedTypes' /\ NoneIsStuck'
<1>1. /\ m.key \in Key
      /\ ccr'[r] = m
      /\ m # NULL
      /\ \A x \in Request : ccr[x] # NULL => x # r /\ ccr'[x] = ccr[x]
      /\ \A x \in rating : x \in Request /\ ccr[x] # NULL /\ ccr'[x] = ccr[x]
  <2>1. ResponseInv
    BY DEF QuietInv
  <2>. QED
    BY <2>1, NewcomerFacts, NullIsNothing
<1>2. /\ sub \in [Key -> SubSession \cup {NULL}]
      /\ answers \in [Request -> Seq(Answer)]
  BY DEF QuietInv, ResponseInv, SessionInv, TypeOK
<1>3. /\ \A x \in Request : x # r => answers'[x] = answers[x]
      /\ rating' = rating \cup {r} \/ (UNCHANGED <<rating, sub>>)
      /\ \A j \in Key : sub'[j] = sub[j] \/ (j = m.key /\ sub'[j] = t /\ r \in rating')
  BY <1>1, <1>2 DEF Reject, Emit, SendRatingRequest, NothingFails
<1>4. RatedTypes'
  BY <1>1, <1>3 DEF QuietInv, RatedTypes
<1>5. ASSUME NEW j \in Key, sub'[j] # NULL
      PROVE  WaitsOrIsTurnedDown(j, sub[j])'
  <2>1. CASE sub'[j] = sub[j]
    BY <1>1, <1>3, <1>5, <2>1, UndisturbedStays
  <2>2. CASE j = m.key /\ sub'[j] = t /\ r \in rating'
    BY <1>1, <2>2 DEF WaitsOrIsTurnedDown
  <2>. QED
    BY <1>3, <2>1, <2>2
<1>. QED
  BY <1>4, <1>5 DEF NoneIsStuck

LEMMA ArrivalIsQuiet ==
    ASSUME QuietInv, NothingFails, NEW r \in Request, RequestArrives(r)
    PROVE  RatedTypes' /\ NoneIsStuck'
<1>1. sub \in [Key -> SubSession \cup {NULL}]
  BY DEF QuietInv, ResponseInv, SessionInv, TypeOK
<1>2. ASSUME NEW m \in Message, Arrives(r, m), UNCHANGED <<sub, rating>>,
             \A x \in Request : x # r => answers'[x] = answers[x]
      PROVE  RatedTypes' /\ NoneIsStuck'
  <2>1. /\ \A x \in Request : ccr[x] # NULL => x # r /\ ccr'[x] = ccr[x]
        /\ \A x \in rating : x \in Request /\ ccr[x] # NULL
    BY <1>2, NewcomerFacts DEF QuietInv
  <2>2. RatedTypes'
    BY <1>2, <2>1 DEF QuietInv, RatedTypes
  <2>3. NoneIsStuck'
    BY <1>2, <2>1, UndisturbedStays DEF NoneIsStuck
  <2>. QED
    BY <2>2, <2>3
<1>3. \A code : Emit(r, ErrorAnswer(r, code))
                    => \A x \in Request : x # r => answers'[x] = answers[x]
  BY DEF QuietInv, ResponseInv, SessionInv, TypeOK, Emit
<1>4. CASE UnsupportedCommand(r) \/ ExtractionFails(r) \/ UnknownRequestType(r)
  BY <1>2, <1>3, <1>4
     DEF UnsupportedCommand, ExtractionFails, UnknownRequestType, Reject
<1>5. ASSUME NEW m \in Message, NEW c, m.type \in {"INITIAL", "EVENT"},
             OpenSubSession(r, m, c)
      PROVE  RatedTypes' /\ NoneIsStuck'
  <2>. DEFINE t == NewSubSession(r, c)
  <2>1. t.poCCR = r
    BY DEF NewSubSession
  <2>2. /\ Arrives(r, m)
        /\ m.type \in Rated
        /\ \/ \E code : Reject(r, code) /\ UNCHANGED <<sub, rating>>
           \/ sub' = [sub EXCEPT ![m.key] = t] /\ SendRatingRequest(r)
    BY <1>5 DEF OpenSubSession, NothingFails, Rated
  <2>. HIDE DEF t
  <2>. QED
    BY <2>1, <2>2, AcceptedWaits
<1>6. ASSUME NEW m \in Message, NEW code, m.type \in {"UPDATE", "TERMINATION"},
             UseSubSession(r, m, code)
      PROVE  RatedTypes' /\ NoneIsStuck'
  <2>. DEFINE t == TakeOver(sub[m.key], r)
  <2>1. CASE \E e : Reject(r, e) /\ UNCHANGED <<sub, rating>>
    BY <1>2, <1>3, <1>6, <2>1 DEF UseSubSession, Reject
  <2>2. CASE sub[m.key] # NULL /\ sub' = [sub EXCEPT ![m.key] = t] /\ SendRatingRequest(r)
    <3>1. t.poCCR = r
      <4>1. m.key \in Key /\ sub[m.key] \in SubSession
        BY <1>1, <2>2 DEF Message
      <4>. QED
        BY <4>1, TakeOverFields
    <3>. HIDE DEF t
    <3>. QED
      BY <1>6, <2>2, <3>1, AcceptedWaits DEF UseSubSession, Rated
  <2>. QED
    BY <1>6, <2>1, <2>2 DEF UseSubSession
<1>. QED
  BY <1>4, <1>5, <1>6
     DEF RequestArrives, InitialRequest, EventRequest, UpdateRequest, TerminateRequest

-----------------------------------------------------------------------------
(* Responses *)

\* A handler leaves its sub-session gone, free for the next request, or turned
\* down.
Settles(k) ==
    sub'[k] # NULL => ~sub'[k].busy \/ WaitsOrIsTurnedDown(k, sub[k])'

LEMMA SettledIsQuiet ==
    ASSUME QuietInv, NEW r \in Request, r \in rating, rating' = rating \ {r}, UNCHANGED ccr,
           \A x \in Request : x # r => answers'[x] = answers[x],
           \A j \in Key : j # ccr[r].key => sub'[j] = sub[j],
           Settles(ccr[r].key)
    PROVE  RatedTypes' /\ NoneIsStuck'
<1>1. RatedTypes'
  BY DEF QuietInv, RatedTypes
<1>2. ASSUME NEW j \in Key, sub'[j] # NULL
      PROVE  WaitsOrIsTurnedDown(j, sub[j])'
  <2>1. CASE j = ccr[r].key
    BY <1>2, <2>1 DEF Settles, WaitsOrIsTurnedDown
  <2>2. CASE j # ccr[r].key
    BY <1>2, <2>2, UndisturbedStays
  <2>. QED
    BY <2>1, <2>2
<1>. QED
  BY <1>1, <1>2 DEF NoneIsStuck

LEMMA ResponseIsQuiet ==
    ASSUME QuietInv, NothingFails, NEW r \in Request, HandleResponse(r)
    PROVE  RatedTypes' /\ NoneIsStuck'
<1>. DEFINE k == ccr[r].key
            s == sub[k]
<1>1. /\ sub \in [Key -> SubSession \cup {NULL}]
      /\ answers \in [Request -> Seq(Answer)]
      /\ ResponseInv
  BY DEF QuietInv, ResponseInv, SessionInv, TypeOK
<1>2. CASE ResponseWithoutSession(r)
  <2>1. Settles(k)
    BY <1>2 DEF ResponseWithoutSession, Settles
  <2>. QED
    BY <1>2, <2>1, SettledIsQuiet DEF ResponseWithoutSession
<1>3. ~CCRReadFaults(r)
  BY <1>1, ResponseFacts, NullIsNothing DEF CCRReadFaults
<1>4. \A q : ~UninitialisedAnswerFaults(r, q)
  BY DEF NothingFails, UninitialisedAnswerFaults
<1>5. ~AnswerFails
  BY DEF NothingFails, AnswerFails
<1>6. ASSUME NEW q, NEW state, Delivered(r, q, state)
      PROVE  /\ q = r
             /\ r \in rating
             /\ rating' = rating \ {r}
             /\ UNCHANGED ccr
             /\ k \in Key
             /\ s # NULL
             /\ s \in SubSession
             /\ s.state = state
             /\ s.poCCR = r
             /\ state = IF ccr[r].type \in {"INITIAL", "EVENT"} THEN "IDLE" ELSE "OPEN"
             /\ ccr[r].type \in Rated
             /\ ccr[r] # NULL
             /\ answers[r] = <<>>
  <2>1. /\ r \in rating
        /\ rating' = rating \ {r}
        /\ UNCHANGED ccr
        /\ s # NULL
        /\ s.state = state
        /\ q \in Deref(s.poCCR)
    BY <1>6 DEF Delivered
  <2>2. /\ q = r
        /\ k \in Key
        /\ s \in SubSession
        /\ s.poCCR = r
    <3>1. ResponseInv
      BY <1>1
    <3>2. Deref(s.poCCR) = {r}
      BY <2>1, <3>1, ResponseFacts
    <3>. QED
      BY <2>1, <3>1, <3>2, ResponseFacts
  <2>3. /\ s.state = IF ccr[r].type \in {"INITIAL", "EVENT"} THEN "IDLE" ELSE "OPEN"
        /\ ccr[r] # NULL
    BY <1>1, <2>1 DEF ResponseInv, ResponseFindsItsRequest, SubOf
  <2>4. ccr[r].type \in Rated /\ answers[r] = <<>>
    BY <2>1 DEF QuietInv, RatedTypes, ResponseInv, RatedRequestsAreHeld
  <2>. QED
    BY <2>1, <2>2, <2>3, <2>4
<1>7. ASSUME NEW q \in Request PROVE ~NoHandler(r, q)
  BY <1>6 DEF NoHandler, HasHandler, Rated
<1>8. ASSUME NEW q, NEW state, Delivered(r, q, state),
             UNCHANGED answers \/ \E a : AnswerSent(r, a),
             NEW t, sub' = [sub EXCEPT ![k] = t], t # NULL => Settles(k)
      PROVE  RatedTypes' /\ NoneIsStuck'
  <2>1. \A x \in Request : x # r => answers'[x] = answers[x]
    BY <1>1, <1>8 DEF AnswerSent
  <2>2. sub'[k] = t /\ \A j \in Key : j # k => sub'[j] = sub[j]
    BY <1>1, <1>6, <1>8
  <2>3. Settles(k)
    BY <1>8, <2>2 DEF Settles
  <2>. QED
    BY <1>6, <1>8, <2>1, <2>2, <2>3, SettledIsQuiet
<1>9. ASSUME NEW q \in Request,
             \/ OCF_Idle_InitReqProcessingUnSuccessful(r, q)
             \/ OCF_Idle_EventReqProcessingSuccessful(r, q)
             \/ OCF_Open_TerminateReqProcessingSuccessful(r, q)
             \/ OCF_Open_TerminateReqProcessingUnSuccessful(r, q)
      PROVE  RatedTypes' /\ NoneIsStuck'
  <2>1. \E state \in {"IDLE", "OPEN"} : Delivered(r, q, state)
    BY <1>9 DEF OCF_Idle_InitReqProcessingUnSuccessful, OCF_Idle_EventReqProcessingSuccessful,
       OCF_Open_TerminateReqProcessingSuccessful, OCF_Open_TerminateReqProcessingUnSuccessful,
       Dispatched
  <2>2. sub' = [sub EXCEPT ![k] = NULL] /\ \E a : AnswerSent(q, a)
    BY <1>5, <1>9 DEF OCF_Idle_InitReqProcessingUnSuccessful,
       OCF_Idle_EventReqProcessingSuccessful, OCF_Open_TerminateReqProcessingSuccessful,
       OCF_Open_TerminateReqProcessingUnSuccessful, RemoveSubSession, RemoveSubSessionByOwnId
  <2>. QED
    BY <1>6, <1>8, <2>1, <2>2
<1>10. ASSUME NEW q \in Request,
              \/ OCF_Idle_InitReqProcessingSuccessful(r, q)
              \/ OCF_Open_UpdateReqProcessingSuccessful(r, q)
       PROVE  RatedTypes' /\ NoneIsStuck'
  <2>1. \E state \in {"IDLE", "OPEN"} : Delivered(r, q, state)
    BY <1>10 DEF OCF_Idle_InitReqProcessingSuccessful, OCF_Open_UpdateReqProcessingSuccessful,
       Dispatched
  <2>2. /\ sub' = [sub EXCEPT ![k] = Opened(s)] \/ sub' = [sub EXCEPT ![k] = Renewed(s)]
        /\ \E a : AnswerSent(q, a)
    BY <1>5, <1>10 DEF OCF_Idle_InitReqProcessingSuccessful,
       OCF_Open_UpdateReqProcessingSuccessful
  <2>3. ~Opened(s).busy /\ ~Renewed(s).busy
    BY <1>6, <2>1 DEF Opened, Renewed, SubSession
  <2>4. Settles(k)
    BY <1>1, <1>6, <2>1, <2>2, <2>3 DEF Settles
  <2>. QED
    BY <1>6, <1>8, <2>1, <2>2, <2>4
<1>11. ASSUME NEW q \in Request, OCF_Idle_EventReqProcessingUnSuccessful(r, q)
       PROVE  RatedTypes' /\ NoneIsStuck'
  <2>1. Delivered(r, q, "IDLE") /\ ccr[q].type = "EVENT" /\ UNCHANGED <<sub, answers>>
    BY <1>11 DEF OCF_Idle_EventReqProcessingUnSuccessful, Dispatched
  <2>2. TurnedDown(s)'
    BY <1>6, <2>1 DEF TurnedDown
  <2>3. Settles(k)
    BY <1>6, <2>1, <2>2 DEF Settles, WaitsOrIsTurnedDown
  <2>4. sub' = [sub EXCEPT ![k] = s]
    BY <1>1, <1>6, <2>1
  <2>. QED
    BY <1>8, <2>1, <2>3, <2>4
<1>12. ASSUME NEW q \in Request, OCF_Open_UpdateReqProcessingUnSuccessful(r, q)
       PROVE  RatedTypes' /\ NoneIsStuck'
  <2>. DEFINE code == IF s.charging = "SCUR" THEN "RATING_FAILED" ELSE "NONE"
              a == RatedAnswer(s, code, r, "unused")
              t == Untimed(s)
  <2>1. /\ Delivered(r, q, "OPEN")
        /\ AnswerSent(q, a)
        /\ sub' = [sub EXCEPT ![k] = t]
    BY <1>5, <1>12 DEF OCF_Open_UpdateReqProcessingUnSuccessful, Dispatched
  <2>2. /\ t.poCCR = r
        /\ t.state = "OPEN"
        /\ ~t.tcc
    BY <1>6, <2>1, UntimedFields
  <2>3. a \in Answer /\ a.code \in {"RATING_FAILED", "NONE"}
    <3>1. code \in ResultCode /\ code \in {"RATING_FAILED", "NONE"}
      BY DEF ResultCode
    <3>. QED
      BY <1>6, <2>1, <3>1, AnswerTypes DEF RatedAnswer
  <2>. HIDE DEF a, t
  <2>4. sub'[k] = t /\ answers'[r] = <<a>>
    <3>1. q = r /\ k \in Key /\ answers[r] = <<>>
      BY <1>6, <2>1
    <3>2. answers'[r] = Append(<<>>, a)
      BY <1>1, <2>1, <3>1 DEF AnswerSent
    <3>3. Append(<<>>, a) = <<a>>
      BY <2>3
    <3>. QED
      BY <1>1, <2>1, <3>1, <3>2, <3>3
  <2>5. a.code \in {answers'[r][i].code : i \in DOMAIN answers'[r]}
    BY <2>4
  <2>6. TurnedDown(sub[k])'
    <3>1. {answers'[r][i].code : i \in DOMAIN answers'[r]} \cap {"RATING_FAILED", "NONE"} # {}
      BY <2>3, <2>5
    <3>2. /\ sub'[k].poCCR = r
          /\ sub'[k].state = "OPEN"
          /\ ~sub'[k].tcc
          /\ UNCHANGED ccr
      BY <1>6, <2>1, <2>2, <2>4
    <3>. QED
      BY <3>1, <3>2 DEF TurnedDown, Codes
  <2>7. Settles(k)
    BY <1>6, <2>1, <2>2, <2>4, <2>6 DEF Settles, WaitsOrIsTurnedDown
  <2>. QED
    BY <1>6, <1>8, <2>1, <2>7
<1>. QED
  BY <1>2, <1>3, <1>4, <1>7, <1>9, <1>10, <1>11, <1>12
     DEF HandleResponse, Unhandled, Granted, Refused

-----------------------------------------------------------------------------
(* Every step keeps the invariant *)

LEMMA OtherIsQuiet ==
    ASSUME QuietInv, NothingFails, NEW r \in Request,
           \/ ResponseLost(r) \/ FreedSessionFaults(r)
           \/ DatabaseFaults(r) \/ TimerExpires(r)
    PROVE  RatedTypes' /\ NoneIsStuck'
<1>1. ~ResponseLost(r) /\ ~FreedSessionFaults(r) /\ ~DatabaseFaults(r)
  BY DEF NothingFails, ResponseLost, FreedSessionFaults, DatabaseFaults, QuietInv,
     ResponseInv, NothingWentWrong
<1>2. TimerExpires(r)
  BY <1>1
<1>3. /\ sub[ccr[r].key] # NULL
      /\ sub[ccr[r].key].object = r
      /\ sub[ccr[r].key].state = "OPEN"
  BY <1>2 DEF TimerExpires, QuietInv, ResponseInv, SessionInv, TimersAreOwned, SubOf
<1>4. /\ RemoveSubSession(ccr[r].key)
      /\ UNCHANGED <<ccr, rating, answers>>
  BY <1>2, <1>3 DEF TimerExpires
<1>5. \A j \in Key : sub'[j] # NULL => sub'[j] = sub[j]
  BY <1>4 DEF RemoveSubSession, QuietInv, ResponseInv, SessionInv, TypeOK
<1>6. RatedTypes'
  BY <1>4 DEF QuietInv, RatedTypes
<1>7. NoneIsStuck'
  BY <1>4, <1>5, UndisturbedStays DEF NoneIsStuck
<1>. QED
  BY <1>6, <1>7

LEMMA QuietInvHolds ==
    ASSUME ClientsWait, NothingFails
    PROVE  Spec => []QuietInv
<1>1. MemoryIsSafe
  BY DEF MemoryIsSafe, NothingFails
<1>2. Spec => []ResponseInv
  BY <1>1, ResponseInvHolds
<1>3. Init => RatedTypes /\ NoneIsStuck
  BY DEF Init, RatedTypes, NoneIsStuck
<1>4. ResponseInv /\ RatedTypes /\ NoneIsStuck /\ [Next]_vars => (RatedTypes /\ NoneIsStuck)'
  <2>. SUFFICES ASSUME QuietInv, [Next]_vars PROVE RatedTypes' /\ NoneIsStuck'
    BY DEF QuietInv
  <2>1. ~Restart
    BY DEF Restart, QuietInv, ResponseInv, NothingWentWrong
  <2>2. ASSUME NEW r \in Request, RequestArrives(r)
        PROVE  RatedTypes' /\ NoneIsStuck'
    BY <2>2, ArrivalIsQuiet
  <2>3. ASSUME NEW r \in Request, HandleResponse(r)
        PROVE  RatedTypes' /\ NoneIsStuck'
    BY <2>3, ResponseIsQuiet
  <2>4. ASSUME NEW r \in Request,
               \/ ResponseLost(r) \/ FreedSessionFaults(r)
               \/ DatabaseFaults(r) \/ TimerExpires(r)
        PROVE  RatedTypes' /\ NoneIsStuck'
    BY <2>4, OtherIsQuiet
  <2>5. CASE UNCHANGED vars
    <3>1. UNCHANGED <<ccr, sub, rating, answers>>
      BY <2>5 DEF vars
    <3>. QED
      BY <3>1, UndisturbedStays DEF QuietInv, RatedTypes, NoneIsStuck
  <2>. QED
    BY <2>1, <2>2, <2>3, <2>4, <2>5 DEF Next
<1>. QED
  BY <1>2, <1>3, <1>4, PTL DEF Spec, QuietInv

-----------------------------------------------------------------------------
(* What follows when nothing fails *)

\* A sub-session in progress waits for a rating response that is on its way, or
\* is one of the two the handlers of refusals leave behind: an update whose
\* sub-session stays marked, and an event that is never answered
\* (ocf_statemachine.c:353-361, 421-491).
THEOREM OnlyRefusalsStick ==
    ASSUME ClientsWait, NothingFails
    PROVE  Spec => []OnlyTurnedDownRequestsStick
<1>1. QuietInv => OnlyTurnedDownRequestsStick
  BY DEF QuietInv, NoneIsStuck, WaitsOrIsTurnedDown, OnlyTurnedDownRequestsStick
<1>. QED
  BY <1>1, QuietInvHolds, PTL
=============================================================================
