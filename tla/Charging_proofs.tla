-------------------------- MODULE Charging_proofs ---------------------------
(***************************************************************************)
(* Proofs about module Charging: what the server extracts of a request,    *)
(* and what a client reads of the answer.                                  *)
(*                                                                         *)
(* The invariant ContentInv relates each request, its rating request and   *)
(* its answer: an answer was made, by a handler of the granting or the     *)
(* refusing events, of the t_OCSCCR of its own request and a response to   *)
(* its own rating request.  It is inductive with ResponseInv of module     *)
(* OCFResponses_proofs, which keeps the CCR of a response in place.        *)
(*                                                                         *)
(* What a request says is read by theorem ExtractionReads; what an answer  *)
(* says is read back here, part by part: each AVP of an answer is alone    *)
(* with its code, so that reading it gives the field it was made of, or    *)
(* nothing where the AVP is lost.                                          *)
(***************************************************************************)
EXTENDS ChargingProperties, OCFResponses_proofs, Extraction_proofs

-----------------------------------------------------------------------------
(* The inductive invariant *)

\* A value for each request.
Family(f) == \E S : f \in [Request -> S]

\* What module OCF knows of a request is what its AVPs say.
RequestsAreTheirAVPs ==
    /\ wire \in [Request -> Seq(AVP)]
    /\ \A r \in Request : ccr[r] # NULL => wire[r] \in Wire /\ ccr[r] = Summaries[wire[r]]

\* The rating request made for q is that of its own AVPs.
AskedOwn(q) == asked[q] = <<RatingRequest(ccr[q], wire[q])>>

RatingsAreAsked ==
    /\ Family(asked)
    /\ \A r \in rating : AskedOwn(r)

\* What the handlers of the granting, and of the refusing events may answer to q.
GrantsOf(q, cca) ==
    \/ /\ ccr[q].type = "INITIAL"
       /\ \E a \in Responses(q, RatingKind(ccr[q])) :
             cca = GrantedInitial(CCROf(q), OCF_CheckChargingType(ccr[q]), a)
    \/ /\ ccr[q].type = "EVENT"
       /\ \E a \in Responses(q, "Price") : cca = GrantedEvent(CCROf(q), a)
    \/ /\ ccr[q].type = "UPDATE"
       /\ \E a \in Responses(q, "Tariff") : cca = GrantedUpdate(CCROf(q), a)
    \/ /\ ccr[q].type = "TERMINATION"
       /\ \E kind \in {"Price", "Tariff"} : \E a \in Responses(q, kind) :
             cca = GrantedTerminate(CCROf(q), a)

RefusalsOf(q, cca) ==
    \E charging \in {"SCUR", "ECUR"} :
        \/ /\ ccr[q].type = "INITIAL"
           /\ cca \in RefusedInitials(CCROf(q), charging)
        \/ /\ ccr[q].type \in {"UPDATE", "TERMINATION"}
           /\ cca = Refusal(CCROf(q), charging)

\* What was told may be an answer with this code.
Says(q, code, told) ==
    \E cca : /\ IF code = "SUCCESS" THEN GrantsOf(q, cca) ELSE RefusalsOf(q, cca)
             /\ told.avps = OCF_CreatCCADiamMsg(CCROf(q), cca, told.lost)

AnsweredWell(q) ==
    \/ answers[q] = <<>> /\ said[q] = <<>>
    \/ /\ ccr[q] # NULL
       /\ \E a \in Answer : \E told :
             /\ answers[q] = <<a>>
             /\ said[q] = <<told>>
             /\ a.from # NULL => AskedOwn(q) /\ Says(q, a.code, told)

AnswersSayWell ==
    /\ Family(said)
    /\ \A q \in Request : AnsweredWell(q)

ContentInv == RequestsAreTheirAVPs /\ RatingsAreAsked /\ AnswersSayWell

-----------------------------------------------------------------------------
(* Steps of module OCF *)

\* The initial states are those of module OCF, and nothing was said yet.
LEMMA ChargingStarts == ChargingInit => Init /\ ContentInv
<1> SUFFICES ASSUME ChargingInit PROVE Init /\ ContentInv
    OBVIOUS
<1>1. /\ Init
      /\ wire = [r \in Request |-> <<>>]
      /\ asked = [r \in Request |-> <<>>]
      /\ said = [r \in Request |-> <<>>]
      /\ ccr = [r \in Request |-> NULL]
      /\ rating = {}
      /\ answers = [r \in Request |-> <<>>]
    BY DEF ChargingInit, Init
<1>2. RequestsAreTheirAVPs
    BY <1>1 DEF RequestsAreTheirAVPs
<1>3. RatingsAreAsked
  <2>1. asked \in [Request -> {<<>>}]
      BY <1>1
  <2> QED
      BY <1>1, <2>1 DEF RatingsAreAsked, Family
<1>4. AnswersSayWell
  <2>1. said \in [Request -> {<<>>}]
      BY <1>1
  <2> QED
      BY <1>1, <2>1 DEF AnswersSayWell, Family, AnsweredWell
<1> QED
    BY <1>1, <1>2, <1>3, <1>4 DEF ContentInv

\* Every step is a step of module OCF.
LEMMA ChargingSteps == [ChargingNext]_chargingVars => [Next]_vars
<1>1. ASSUME NEW r \in Request, MessageArrives(r) PROVE Next
    BY <1>1 DEF MessageArrives, Next
<1>2. ASSUME NEW r \in Request, NEW q \in Request, GrantTold(r, q) PROVE Next
    BY <1>2 DEF GrantTold, Next, HandleResponse, Granted
<1>3. ASSUME NEW r \in Request, NEW q \in Request, RefusalTold(r, q) PROVE Next
    BY <1>3 DEF RefusalTold, Next, HandleResponse, Refused
<1>4. ASSUME NEW r \in Request, Silent(r) PROVE Next
    BY <1>4 DEF Silent, Next, HandleResponse
<1>5. ASSUME UNCHANGED chargingVars PROVE UNCHANGED vars
    BY <1>5 DEF chargingVars
<1> QED
    BY <1>1, <1>2, <1>3, <1>4, <1>5 DEF ChargingNext

\* What an arriving request changes.
CameWith(r, m) ==
    /\ Arrives(r, m)
    /\ ArrivalFrame(r)
    /\ rating' \in {rating, rating \cup {r}}

\* An arriving request is answered at once by the stack, or its rating is under way.
LEMMA ArrivalShape ==
    ASSUME ResponseInv, NEW r \in Request, RequestArrives(r)
    PROVE  \E m \in Message : CameWith(r, m)
<1>1. {"UNABLE_TO_COMPLY", "UNKNOWN_SESSION_ID", "COMMAND_UNSUPPORTED"} \subseteq ResultCode
    BY DEF ResultCode
<1>2. ASSUME NEW m \in Message, Arrives(r, m), UNCHANGED <<up, dangling, rating>>,
             NEW code \in ResultCode,
             \/ mem' = mem /\ Emit(r, ErrorAnswer(r, code))
             \/ Reject(r, code)
             \/ UNCHANGED <<mem, answers>>
      PROVE  CameWith(r, m)
    BY <1>2, ErrorFrame DEF Reject, CameWith
<1>3. ASSUME NEW m \in Message, Arrives(r, m), UNCHANGED <<up, dangling>>, SendRatingRequest(r)
      PROVE  CameWith(r, m)
    BY <1>3, SendFrame DEF CameWith
<1>4. CASE UnsupportedCommand(r) \/ ExtractionFails(r) \/ UnknownRequestType(r)
    BY <1>1, <1>2, <1>4 DEF UnsupportedCommand, ExtractionFails, UnknownRequestType
<1>5. ASSUME NEW m \in Message, NEW c, OpenSubSession(r, m, c)
      PROVE  CameWith(r, m)
    BY <1>1, <1>2, <1>3, <1>5 DEF OpenSubSession
<1>6. ASSUME NEW m \in Message, NEW code \in ResultCode, UseSubSession(r, m, code)
      PROVE  CameWith(r, m)
    BY <1>1, <1>2, <1>3, <1>6 DEF UseSubSession
<1>7. CASE InitialRequest(r) \/ EventRequest(r)
    BY <1>5, <1>7 DEF InitialRequest, EventRequest
<1>8. CASE UpdateRequest(r) \/ TerminateRequest(r)
    BY <1>1, <1>6, <1>8 DEF UpdateRequest, TerminateRequest
<1> QED
    BY <1>4, <1>5, <1>7, <1>8 DEF RequestArrives

\* Of a request that stays as it is, everything that may be said about it stays.
LEMMA Undisturbed ==
    ASSUME NEW q, ccr'[q] = ccr[q], wire'[q] = wire[q], asked'[q] = asked[q]
    PROVE  /\ AskedOwn(q)' = AskedOwn(q)
           /\ \A code, told : Says(q, code, told)' = Says(q, code, told)
<1>1. AskedOwn(q)' = AskedOwn(q)
    BY DEF AskedOwn
<1>2. CCROf(q)' = CCROf(q)
    BY DEF CCROf
<1>3. \A kind : Responses(q, kind)' = Responses(q, kind)
    BY DEF Responses
<1>4. \A cca : GrantsOf(q, cca)' = GrantsOf(q, cca) /\ RefusalsOf(q, cca)' = RefusalsOf(q, cca)
    BY <1>2, <1>3 DEF GrantsOf, RefusalsOf
<1> QED
    BY <1>1, <1>2, <1>4 DEF Says

\* A request that no step touches keeps what is known of it.
LEMMA UndisturbedIsWell ==
    ASSUME NEW q, AnsweredWell(q), ccr'[q] = ccr[q], wire'[q] = wire[q], asked'[q] = asked[q],
           answers'[q] = answers[q], said'[q] = said[q]
    PROVE  AnsweredWell(q)'
BY Undisturbed DEF AnsweredWell

\* A request arrives with AVPs that its t_OCSCCR is made of.
LEMMA ArrivalKeepsContent ==
    ASSUME ResponseInv, ResponseInv', ContentInv, NEW r \in Request, MessageArrives(r)
    PROVE  ContentInv'
<1>1. PICK m \in Message : CameWith(r, m)
    BY ArrivalShape DEF MessageArrives
<1>2. PICK avps \in Wire :
          /\ Summaries[avps] = ccr'[r]
          /\ wire' = [wire EXCEPT ![r] = avps]
          /\ asked' = IF r \in rating'
                      THEN [asked EXCEPT ![r] = <<RatingRequest(ccr'[r], avps)>>] ELSE asked
          /\ said' = IF answers' = answers THEN said ELSE [said EXCEPT ![r] = Append(@, MadeByStack)]
    BY DEF MessageArrives
<1>3. /\ ccr[r] = NULL
      /\ ccr'[r] = m /\ m # NULL
      /\ r \notin rating /\ answers[r] = <<>>
      /\ \A x \in Request : x # r => ccr'[x] = ccr[x] /\ answers'[x] = answers[x]
      /\ rating' \in {rating, rating \cup {r}}
      /\ answers'[r] = <<>> \/ \E code \in ResultCode : answers'[r] = <<ErrorAnswer(r, code)>>
  <2>1. ccr \in [Request -> Message \cup {NULL}]
      BY DEF ResponseInv, SessionInv, TypeOK
  <2>2. ccr[r] = NULL /\ ccr' = [ccr EXCEPT ![r] = m]
      BY <1>1 DEF CameWith, Arrives
  <2>3. r \notin rating /\ answers[r] = <<>>
      BY <1>1, NewcomerFacts DEF CameWith
  <2> QED
      BY <1>1, <2>1, <2>2, <2>3, NullIsNothing DEF CameWith, ArrivalFrame
<1>4. /\ wire \in [Request -> Seq(AVP)] /\ Wire \subseteq Seq(AVP) /\ rating \subseteq Request
      /\ answers \in [Request -> Seq(Answer)] /\ answers' \in [Request -> Seq(Answer)]
    BY ChargingAssumption DEF ContentInv, RequestsAreTheirAVPs, ResponseInv, SessionInv, TypeOK
<1>5. PICK S : asked \in [Request -> S]
    BY DEF ContentInv, RatingsAreAsked, Family
<1>6. PICK T : said \in [Request -> T]
    BY DEF ContentInv, AnswersSayWell, Family
<1>7. \A x \in Request : x # r =>
          wire'[x] = wire[x] /\ asked'[x] = asked[x] /\ said'[x] = said[x]
    BY <1>2, <1>4, <1>5, <1>6
<1>8. RequestsAreTheirAVPs'
  <2>1. wire'[r] = avps /\ wire' \in [Request -> Seq(AVP)]
      BY <1>2, <1>4
  <2> QED
      BY <1>2, <1>3, <1>7, <2>1 DEF ContentInv, RequestsAreTheirAVPs
<1>9. RatingsAreAsked'
  <2> DEFINE x == <<RatingRequest(ccr'[r], avps)>>
  <2>1. asked' \in [Request -> S \cup {x}] /\ (r \in rating' => asked'[r] = x)
      BY <1>2, <1>5
  <2>2. wire'[r] = avps
      BY <1>2, <1>4
  <2>3. r \in rating' => AskedOwn(r)'
      BY <2>1, <2>2 DEF AskedOwn
  <2>4. ASSUME NEW q \in rating', q # r PROVE AskedOwn(q)'
    <3>1. q \in rating /\ q \in Request /\ AskedOwn(q)
        BY <1>3, <1>4, <2>4 DEF ContentInv, RatingsAreAsked
    <3> QED
        BY <1>3, <1>7, <2>4, <3>1, Undisturbed
  <2>5. Family(asked')
    <3> HIDE DEF x
    <3> QED
        BY <2>1 DEF Family
  <2> QED
      BY <2>3, <2>4, <2>5 DEF RatingsAreAsked
<1>10. said[r] = <<>>
    BY <1>3 DEF ContentInv, AnswersSayWell, AnsweredWell
<1>11. AnsweredWell(r)'
  <2>1. CASE answers' = answers
      BY <1>2, <1>3, <1>10, <2>1 DEF AnsweredWell
  <2>2. CASE answers' # answers
    <3>1. answers'[r] # <<>>
        BY <1>3, <1>4, <2>2
    <3>2. PICK code \in ResultCode : answers'[r] = <<ErrorAnswer(r, code)>>
        BY <1>3, <3>1
    <3>3. ErrorAnswer(r, code) \in Answer /\ ErrorAnswer(r, code).from = NULL
        BY AnswerTypes DEF ErrorAnswer
    <3>4. said'[r] = <<MadeByStack>>
      <4>1. said'[r] = Append(<<>>, MadeByStack)
          BY <1>2, <1>6, <1>10, <2>2
      <4> QED
          BY <4>1
    <3>5. ccr'[r] # NULL
        BY <1>3
    <3> QED
        BY <3>2, <3>3, <3>4, <3>5 DEF AnsweredWell
  <2> QED
      BY <2>1, <2>2
<1>12. AnswersSayWell'
  <2>1. ASSUME NEW q \in Request, q # r PROVE AnsweredWell(q)'
      BY <1>3, <1>7, <2>1, UndisturbedIsWell DEF ContentInv, AnswersSayWell
  <2>2. Family(said')
    <3>1. said' \in [Request -> T \cup {Append(said[r], MadeByStack)}]
        BY <1>2, <1>6
    <3> QED
        BY <3>1 DEF Family
  <2> QED
      BY <1>11, <2>1, <2>2 DEF AnswersSayWell
<1> QED
    BY <1>8, <1>9, <1>12 DEF ContentInv

\* A response is consumed without an answer.
LEMMA UnansweredKeepsContent ==
    ASSUME ContentInv, UNCHANGED <<ccr, answers, wire, asked, said>>, rating' \subseteq rating
    PROVE  ContentInv'
<1>1. RequestsAreTheirAVPs'
    BY DEF ContentInv, RequestsAreTheirAVPs
<1>2. RatingsAreAsked'
    BY Undisturbed DEF ContentInv, RatingsAreAsked
<1>3. AnswersSayWell'
    BY UndisturbedIsWell DEF ContentInv, AnswersSayWell
<1> QED
    BY <1>1, <1>2, <1>3 DEF ContentInv

\* The response to r is answered, or the answer is lost.
LEMMA AnswerKeepsContent ==
    ASSUME ResponseInv, ContentInv, NEW r \in rating, UNCHANGED ccr, rating' = rating \ {r},
           NEW a \in Answer, UNCHANGED answers \/ AnswerSent(r, a),
           NEW contents, Tells(r, contents),
           \A cca \in contents :
               IF a.code = "SUCCESS" THEN GrantsOf(r, cca) ELSE RefusalsOf(r, cca)
    PROVE  ContentInv'
<1>1. UNCHANGED <<wire, asked>>
    BY DEF Tells
<1>2. /\ r \in Request /\ ccr[r] # NULL /\ answers[r] = <<>>
      /\ answers \in [Request -> Seq(Answer)]
    BY DEF ResponseInv, SessionInv, TypeOK, RatedRequestsArrived, RatedRequestsAreHeld
<1>3. CASE answers' = answers
  <2>1. UNCHANGED said
      BY <1>3 DEF Tells
  <2> QED
      BY <1>1, <1>3, <2>1, UnansweredKeepsContent
<1>4. CASE answers' # answers
  <2>1. answers' = [answers EXCEPT ![r] = Append(@, a)]
      BY <1>4 DEF AnswerSent
  <2>2. PICK cca \in contents, lost \in Losses :
            said' = [said EXCEPT ![r] = Append(@, Told(r, cca, lost))]
      BY <1>4 DEF Tells
  <2>a. PICK told : told = Told(r, cca, lost)
      OBVIOUS
  <2>3. PICK T : said \in [Request -> T]
      BY DEF ContentInv, AnswersSayWell, Family
  <2>4. said[r] = <<>>
      BY <1>2 DEF ContentInv, AnswersSayWell, AnsweredWell
  <2>5. answers'[r] = <<a>>
      BY <1>2, <2>1
  <2>6. said'[r] = <<told>>
    <3>1. said'[r] = Append(<<>>, told)
        BY <1>2, <2>2, <2>3, <2>4, <2>a
    <3> QED
        BY <3>1
  <2>7. Says(r, a.code, told)
      BY <2>2, <2>a DEF Says, Told
  <2>8. AskedOwn(r)
      BY DEF ContentInv, RatingsAreAsked
  <2>9. Says(r, a.code, told)' /\ AskedOwn(r)'
    <3>1. Says(r, a.code, told)' = Says(r, a.code, told) /\ AskedOwn(r)' = AskedOwn(r)
        BY <1>1, Undisturbed
    <3> QED
        BY <2>7, <2>8, <3>1
  <2>10. AnsweredWell(r)'
      BY <1>2, <2>5, <2>6, <2>9 DEF AnsweredWell
  <2>11. ASSUME NEW q \in Request, q # r PROVE AnsweredWell(q)'
    <3>1. answers'[q] = answers[q] /\ said'[q] = said[q]
        BY <1>2, <2>1, <2>2, <2>3, <2>11
    <3> QED
        BY <1>1, <3>1, UndisturbedIsWell DEF ContentInv, AnswersSayWell
  <2>12. Family(said')
    <3>1. said' \in [Request -> T \cup {Append(said[r], told)}]
        BY <2>2, <2>3, <2>a
    <3> QED
        BY <3>1 DEF Family
  <2>13. AnswersSayWell'
      BY <2>10, <2>11, <2>12 DEF AnswersSayWell
  <2>14. RequestsAreTheirAVPs'
      BY <1>1 DEF ContentInv, RequestsAreTheirAVPs
  <2>15. RatingsAreAsked'
      BY <1>1, Undisturbed DEF ContentInv, RatingsAreAsked
  <2> QED
      BY <2>13, <2>14, <2>15 DEF ContentInv
<1> QED
    BY <1>3, <1>4

\* The handler of a response works on the request the response is for.
LEMMA HandledFacts ==
    ASSUME ResponseInv, NEW r \in Request, NEW q, NEW state, NEW type, NEW result,
           Dispatched(r, q, state, type, result)
    PROVE  LET s == sub[ccr[r].key]
           IN /\ q = r
              /\ r \in rating
              /\ rating' = rating \ {r}
              /\ UNCHANGED ccr
              /\ ccr[r].type = type
              /\ s.charging \in {"SCUR", "ECUR"}
              /\ ReadAs(r) \in {"Price", "Tariff"}
              /\ state = "IDLE" /\ type = "INITIAL" =>
                     /\ Charged(r) = OCF_CheckChargingType(ccr[r])
                     /\ ReadAs(r) = RatingKind(ccr[r])
              /\ \A code \in ResultCode, payload \in {"unused", "read", "misread"} :
                     RatedAnswer(s, code, r, payload) \in Answer
              /\ \A kind \in {"Price", "Tariff"} :
                    Read(kind, r) \in {"unused", "read", "misread"}
<1> DEFINE s == sub[ccr[r].key]
<1>1. /\ r \in rating /\ s # NULL /\ s.state = state
      /\ q \in Deref(s.poCCR)
      /\ rating' = rating \ {r} /\ UNCHANGED ccr
      /\ ccr[q].type = type
    BY DEF Dispatched, Delivered
<1>2. /\ s \in SubSession /\ s.poCCR = r /\ OpenedByInitial(s) /\ q = r
  <2>1. Deref(s.poCCR) = {r}
      BY <1>1, ResponseFacts
  <2> QED
      BY <1>1, <2>1, ResponseFacts
<1>3. s.charging \in {"SCUR", "ECUR"}
    BY <1>2 DEF SubSession
<1>4. ASSUME state = "IDLE", type = "INITIAL"
      PROVE  Charged(r) = OCF_CheckChargingType(ccr[r]) /\ ReadAs(r) = RatingKind(ccr[r])
  <2>1. s.charging = OCF_CheckChargingType(ccr[r])
      BY <1>1, <1>2, <1>4 DEF OpenedByInitial
  <2> QED
      BY <1>1, <1>2, <1>3, <1>4, <2>1 DEF Charged, ReadAs, PayloadOf, RatingKind
<1>5. \A code \in ResultCode, payload \in {"unused", "read", "misread"} :
          RatedAnswer(s, code, r, payload) \in Answer
    BY <1>2, AnswerTypes
<1>6. \A kind \in {"Price", "Tariff"} : Read(kind, r) \in {"unused", "read", "misread"}
    BY DEF Read
<1> QED
    BY <1>1, <1>2, <1>3, <1>4, <1>5, <1>6 DEF ReadAs, PayloadOf

\* A granted rating is answered with what was granted for that very request.
LEMMA GrantKeepsContent ==
    ASSUME ResponseInv, ContentInv, NEW r \in Request, NEW q \in Request, GrantTold(r, q)
    PROVE  ContentInv'
<1> DEFINE s == sub[ccr[r].key]
<1>1. "SUCCESS" \in ResultCode
    BY DEF ResultCode
<1>2. ASSUME NEW state, NEW type, Dispatched(r, q, state, type, "OCS_SUCCESS"),
             NEW payload \in {"unused", "read", "misread"},
             UNCHANGED answers \/ AnswerSent(q, RatedAnswer(s, "SUCCESS", r, payload)),
             NEW contents, Tells(q, contents), \A cca \in contents : GrantsOf(r, cca)
      PROVE  ContentInv'
  <2>1. PICK a \in Answer : a = RatedAnswer(s, "SUCCESS", r, payload)
      BY <1>1, <1>2, HandledFacts
  <2>2. a.code = "SUCCESS"
      BY <2>1 DEF RatedAnswer
  <2> HIDE DEF s
  <2>3. /\ q = r /\ r \in rating /\ rating' = rating \ {r} /\ UNCHANGED ccr
      BY <1>2, HandledFacts
  <2> QED
      BY <1>2, <2>1, <2>2, <2>3, AnswerKeepsContent
<1>3. ASSUME OCF_Idle_InitReqProcessingSuccessful(r, q),
             Tells(q, {GrantedInitial(CCROf(q), Charged(r), a) :
                              a \in Responses(r, ReadAs(r))})
      PROVE  ContentInv'
  <2> DEFINE contents == {GrantedInitial(CCROf(q), Charged(r), a) :
                             a \in Responses(r, ReadAs(r))}
             payload == Read(PayloadOf(s), r)
  <2>1. Dispatched(r, q, "IDLE", "INITIAL", "OCS_SUCCESS")
      BY <1>3 DEF OCF_Idle_InitReqProcessingSuccessful
  <2>2. UNCHANGED answers \/ AnswerSent(q, RatedAnswer(s, "SUCCESS", r, payload))
      BY <1>3 DEF OCF_Idle_InitReqProcessingSuccessful, AnswerFails
  <2>3. payload \in {"unused", "read", "misread"}
      BY <2>1, HandledFacts DEF ReadAs
  <2>4. \A cca \in contents : GrantsOf(r, cca)
      BY <2>1, HandledFacts DEF GrantsOf
  <2> HIDE DEF contents, payload, s
  <2>5. Tells(q, contents)
      BY <1>3 DEF contents
  <2> QED
      BY <1>2, <2>1, <2>2, <2>3, <2>4, <2>5 DEF s
<1>4. ASSUME OCF_Idle_EventReqProcessingSuccessful(r, q),
             Tells(q, {GrantedEvent(CCROf(q), a) : a \in Responses(r, "Price")})
      PROVE  ContentInv'
  <2> DEFINE contents == {GrantedEvent(CCROf(q), a) : a \in Responses(r, "Price")}
             payload == Read("Price", r)
  <2>1. Dispatched(r, q, "IDLE", "EVENT", "OCS_SUCCESS")
      BY <1>4 DEF OCF_Idle_EventReqProcessingSuccessful
  <2>2. UNCHANGED answers \/ AnswerSent(q, RatedAnswer(s, "SUCCESS", r, payload))
      BY <1>4 DEF OCF_Idle_EventReqProcessingSuccessful, AnswerFails
  <2>3. payload \in {"unused", "read", "misread"}
      BY DEF Read
  <2>4. \A cca \in contents : GrantsOf(r, cca)
      BY <2>1, HandledFacts DEF GrantsOf
  <2> HIDE DEF contents, payload, s
  <2>5. Tells(q, contents)
      BY <1>4 DEF contents
  <2> QED
      BY <1>2, <2>1, <2>2, <2>3, <2>4, <2>5 DEF s
<1>5. ASSUME OCF_Open_UpdateReqProcessingSuccessful(r, q),
             Tells(q, {GrantedUpdate(CCROf(q), a) : a \in Responses(r, "Tariff")})
      PROVE  ContentInv'
  <2> DEFINE contents == {GrantedUpdate(CCROf(q), a) : a \in Responses(r, "Tariff")}
             payload == Read("Tariff", r)
  <2>1. Dispatched(r, q, "OPEN", "UPDATE", "OCS_SUCCESS")
      BY <1>5 DEF OCF_Open_UpdateReqProcessingSuccessful
  <2>2. UNCHANGED answers \/ AnswerSent(q, RatedAnswer(s, "SUCCESS", r, payload))
      BY <1>5 DEF OCF_Open_UpdateReqProcessingSuccessful, AnswerFails
  <2>3. payload \in {"unused", "read", "misread"}
      BY DEF Read
  <2>4. \A cca \in contents : GrantsOf(r, cca)
      BY <2>1, HandledFacts DEF GrantsOf
  <2> HIDE DEF contents, payload, s
  <2>5. Tells(q, contents)
      BY <1>5 DEF contents
  <2> QED
      BY <1>2, <2>1, <2>2, <2>3, <2>4, <2>5 DEF s
<1>6. ASSUME OCF_Open_TerminateReqProcessingSuccessful(r, q),
             Tells(q, {GrantedTerminate(CCROf(q), a) : a \in Responses(r, ReadAs(r))})
      PROVE  ContentInv'
  <2> DEFINE contents == {GrantedTerminate(CCROf(q), a) : a \in Responses(r, ReadAs(r))}
             payload == Read(PayloadOf(s), r)
  <2>1. Dispatched(r, q, "OPEN", "TERMINATION", "OCS_SUCCESS")
      BY <1>6 DEF OCF_Open_TerminateReqProcessingSuccessful
  <2>2. UNCHANGED answers \/ AnswerSent(q, RatedAnswer(s, "SUCCESS", r, payload))
      BY <1>6 DEF OCF_Open_TerminateReqProcessingSuccessful, AnswerFails
  <2>3. payload \in {"unused", "read", "misread"}
      BY DEF Read
  <2>4. \A cca \in contents : GrantsOf(r, cca)
    <3>1. ReadAs(r) \in {"Price", "Tariff"} /\ q = r /\ ccr[r].type = "TERMINATION"
        BY <2>1, HandledFacts
    <3> QED
        BY <3>1 DEF GrantsOf
  <2> HIDE DEF contents, payload, s
  <2>5. Tells(q, contents)
      BY <1>6 DEF contents
  <2> QED
      BY <1>2, <2>1, <2>2, <2>3, <2>4, <2>5 DEF s
<1> QED
    BY <1>3, <1>4, <1>5, <1>6 DEF GrantTold

\* A refused rating is answered with the refusal of that very request.
LEMMA RefusalKeepsContent ==
    ASSUME ResponseInv, ContentInv, NEW r \in Request, NEW q \in Request, RefusalTold(r, q)
    PROVE  ContentInv'
<1> DEFINE s == sub[ccr[r].key]
<1>1. {"RATING_FAILED", "ARBITRARY", "NONE"} \subseteq ResultCode
    BY DEF ResultCode
<1>2. ASSUME NEW state, NEW type, Dispatched(r, q, state, type, "OCS_FAILURE"),
             NEW code \in {"RATING_FAILED", "ARBITRARY", "NONE"},
             UNCHANGED answers \/ AnswerSent(q, RatedAnswer(s, code, r, "unused")),
             NEW contents, Tells(q, contents), \A cca \in contents : RefusalsOf(r, cca)
      PROVE  ContentInv'
  <2>1. PICK a \in Answer : a = RatedAnswer(s, code, r, "unused")
      BY <1>1, <1>2, HandledFacts
  <2>2. a.code # "SUCCESS"
      BY <1>2, <2>1 DEF RatedAnswer
  <2> HIDE DEF s
  <2>3. /\ q = r /\ r \in rating /\ rating' = rating \ {r} /\ UNCHANGED ccr
      BY <1>2, HandledFacts
  <2> QED
      BY <1>2, <2>1, <2>2, <2>3, AnswerKeepsContent
<1>3. ASSUME OCF_Idle_InitReqProcessingUnSuccessful(r, q),
             Tells(q, RefusedInitials(CCROf(q), Charged(r)))
      PROVE  ContentInv'
  <2> DEFINE code == IF s.charging = "SCUR" THEN "RATING_FAILED" ELSE "ARBITRARY"
             contents == RefusedInitials(CCROf(q), Charged(r))
  <2>1. Dispatched(r, q, "IDLE", "INITIAL", "OCS_FAILURE")
      BY <1>3 DEF OCF_Idle_InitReqProcessingUnSuccessful
  <2>2. UNCHANGED answers \/ AnswerSent(q, RatedAnswer(s, code, r, "unused"))
      BY <1>3 DEF OCF_Idle_InitReqProcessingUnSuccessful, AnswerFails
  <2>3. code \in {"RATING_FAILED", "ARBITRARY", "NONE"}
      OBVIOUS
  <2>4. \A cca \in contents : RefusalsOf(r, cca)
    <3>1. Charged(r) \in {"SCUR", "ECUR"} /\ q = r /\ ccr[r].type = "INITIAL"
        BY <2>1, HandledFacts DEF Charged
    <3> QED
        BY <3>1 DEF RefusalsOf
  <2> HIDE DEF contents, code, s
  <2>5. Tells(q, contents)
      BY <1>3 DEF contents
  <2> QED
      BY <1>2, <2>1, <2>2, <2>3, <2>4, <2>5 DEF s
<1>4. ASSUME NEW type \in {"UPDATE", "TERMINATION"},
             Dispatched(r, q, "OPEN", type, "OCS_FAILURE"),
             UNCHANGED answers
                 \/ AnswerSent(q, RatedAnswer(s, IF s.charging = "SCUR" THEN "RATING_FAILED"
                                                 ELSE "NONE", r, "unused")),
             Tells(q, {Refusal(CCROf(q), Charged(r))})
      PROVE  ContentInv'
  <2> DEFINE code == IF s.charging = "SCUR" THEN "RATING_FAILED" ELSE "NONE"
             contents == {Refusal(CCROf(q), Charged(r))}
  <2>3. code \in {"RATING_FAILED", "ARBITRARY", "NONE"}
      OBVIOUS
  <2>4. \A cca \in contents : RefusalsOf(r, cca)
    <3>1. Charged(r) \in {"SCUR", "ECUR"} /\ q = r /\ ccr[r].type = type
        BY <1>4, HandledFacts DEF Charged
    <3> QED
        BY <3>1 DEF RefusalsOf
  <2>2. UNCHANGED answers \/ AnswerSent(q, RatedAnswer(s, code, r, "unused"))
      BY <1>4
  <2> HIDE DEF contents, code, s
  <2>5. Tells(q, contents)
      BY <1>4 DEF contents
  <2> QED
      BY <1>2, <1>4, <2>2, <2>3, <2>4, <2>5 DEF s
<1>5. ASSUME OCF_Open_UpdateReqProcessingUnSuccessful(r, q)
      PROVE  /\ Dispatched(r, q, "OPEN", "UPDATE", "OCS_FAILURE")
             /\ UNCHANGED answers
                    \/ AnswerSent(q, RatedAnswer(s, IF s.charging = "SCUR" THEN "RATING_FAILED"
                                                    ELSE "NONE", r, "unused"))
    BY <1>5 DEF OCF_Open_UpdateReqProcessingUnSuccessful, AnswerFails
<1>6. ASSUME OCF_Open_TerminateReqProcessingUnSuccessful(r, q)
      PROVE  /\ Dispatched(r, q, "OPEN", "TERMINATION", "OCS_FAILURE")
             /\ UNCHANGED answers
                    \/ AnswerSent(q, RatedAnswer(s, IF s.charging = "SCUR" THEN "RATING_FAILED"
                                                    ELSE "NONE", r, "unused"))
    BY <1>6 DEF OCF_Open_TerminateReqProcessingUnSuccessful, AnswerFails
<1>7. ASSUME \/ OCF_Open_UpdateReqProcessingUnSuccessful(r, q)
             \/ OCF_Open_TerminateReqProcessingUnSuccessful(r, q),
             Tells(q, {Refusal(CCROf(q), Charged(r))})
      PROVE  ContentInv'
    BY <1>4, <1>5, <1>6, <1>7
<1> QED
    BY <1>3, <1>7 DEF RefusalTold

\* A step without an answer leaves the contents alone.
LEMMA SilentKeepsContent ==
    ASSUME ResponseInv, ContentInv, NEW r \in Request, Silent(r)
    PROVE  ContentInv'
<1>1. UNCHANGED <<wire, asked, said>>
    BY DEF Silent
<1>2. UNCHANGED <<ccr, answers>> /\ rating' \subseteq rating
  <2>1. CASE Unhandled(r)
    <3>1. ~CCRReadFaults(r)
        BY ResponseFacts, NullIsNothing DEF CCRReadFaults
    <3> QED
        BY <2>1, <3>1 DEF Unhandled, ResponseWithoutSession, NoHandler, Delivered
  <2>2. CASE ResponseLost(r)
      BY <2>2 DEF ResponseLost
  <2>3. CASE TimerExpires(r)
      BY <2>3 DEF TimerExpires, Crash
  <2> QED
      BY <2>1, <2>2, <2>3 DEF Silent
<1> QED
    BY <1>1, <1>2, UnansweredKeepsContent

\* The invariant of module OCF and that of the contents hold in every execution.
LEMMA ContentInvHolds == ChargingSpec => [](ResponseInv /\ ContentInv)
<1>1. ClientsWait /\ MemoryIsSafe
    BY ChargingAssumption DEF ClientsWait, MemoryIsSafe
<1>2. ChargingSpec => Spec
    BY ChargingStarts, ChargingSteps, PTL DEF ChargingSpec, Spec
<1>3. Spec => []ResponseInv
    BY <1>1, ResponseInvHolds
<1>4. ResponseInv /\ ResponseInv' /\ ContentInv /\ [ChargingNext]_chargingVars => ContentInv'
  <2> SUFFICES ASSUME ResponseInv, ResponseInv', ContentInv, [ChargingNext]_chargingVars
               PROVE  ContentInv'
      OBVIOUS
  <2>1. CASE UNCHANGED chargingVars
    <3>1. UNCHANGED <<ccr, answers, rating, wire, asked, said>>
        BY <2>1 DEF chargingVars, vars
    <3> QED
        BY <3>1, UnansweredKeepsContent
  <2>2. ASSUME NEW r \in Request, MessageArrives(r) PROVE ContentInv'
      BY <2>2, ArrivalKeepsContent
  <2>3. ASSUME NEW r \in Request, NEW q \in Request, GrantTold(r, q) PROVE ContentInv'
      BY <2>3, GrantKeepsContent
  <2>4. ASSUME NEW r \in Request, NEW q \in Request, RefusalTold(r, q) PROVE ContentInv'
      BY <2>4, RefusalKeepsContent
  <2>5. ASSUME NEW r \in Request, Silent(r) PROVE ContentInv'
      BY <2>5, SilentKeepsContent
  <2> QED
      BY <2>1, <2>2, <2>3, <2>4, <2>5 DEF ChargingNext
<1> QED
    BY <1>2, <1>3, <1>4, ChargingStarts, PTL DEF ChargingSpec

-----------------------------------------------------------------------------
(* What was extracted from a request that arrived *)

\* The t_OCSCCR of a request that arrived is what its AVPs say.
LEMMA ArrivedFacts ==
    ASSUME ContentInv, NEW r \in Request, ccr[r] # NULL
    PROVE  /\ wire[r] \in Wire /\ wire[r] \in Seq(AVP)
           /\ AreAVPs(AVP)
           /\ ccr[r] = Summary(CCROf(r))
           /\ CCROf(r) = CCRIn(wire[r])
           /\ CCROf(r) \in CCRs
<1>1. /\ wire[r] \in Wire /\ wire[r] \in Seq(AVP) /\ AreAVPs(AVP)
      /\ ccr[r] = Summaries[wire[r]]
    BY ChargingAssumption DEF ContentInv, RequestsAreTheirAVPs
<1>2. CCROf(r) = OCF_ExtractCCRAttributes(wire[r])
    BY <1>1 DEF CCROf, Extracted
<1>3. CCROf(r) = CCRIn(wire[r]) /\ CCROf(r) \in CCRs
    BY <1>1, <1>2, ExtractionReads, CCRInType
<1>4. ccr[r] = Summary(CCROf(r))
    BY <1>1 DEF Summaries, CCROf
<1> QED
    BY <1>1, <1>3, <1>4

\* The first service of a request, also of one that names none.
LEMMA FirstServiceIn ==
    ASSUME NEW A, AreAVPs(A), NEW s \in Seq(A)
    PROVE  /\ FirstService(CCRIn(s)) = ServiceIn(Service(s))
           /\ Service(s) \in Seq(A)
<1> DEFINE g == Having(s, "MULTIPLE_SERVICES_CREDIT_CONTROL")
           kept == ServicesOf(g)
<1>1. g \in Seq(A) /\ Len(g) \in Nat
    BY HavingType
<1>2. CCRIn(s).oMultiServicesCC = kept
    BY DEF CCRIn
<1>3. kept \in Seq(Services) /\ Len(kept) = Room(Len(g), OCS_MAX_MULTI_SERVICE_CC)
    BY <1>1, ServicesOfType
<1>4. CASE g = <<>>
  <2>1. Len(kept) = 0
      BY <1>3, <1>4, DefinesAssumption DEF Room
  <2>2. kept = <<>>
    <3> HIDE DEF kept
    <3> QED
        BY <1>3, <2>1
  <2>3. FirstService(CCRIn(s)) = RequestedService
      BY <1>2, <2>2 DEF FirstService
  <2>4. Service(s) = <<>>
      BY <1>4 DEF Service
  <2> QED
      BY <2>3, <2>4, ServiceInEmpty
<1>5. CASE g # <<>>
  <2>1. 1 \in 1 .. Room(Len(g), OCS_MAX_MULTI_SERVICE_CC) /\ g[1] \in A
      BY <1>1, <1>5, DefinesAssumption DEF Room
  <2>2. kept[1] = ServiceIn(g[1].members)
      BY <2>1 DEF ServicesOf
  <2>3. kept # <<>>
    <3> HIDE DEF kept
    <3> QED
        BY <1>3, <2>1
  <2>4. FirstService(CCRIn(s)) = ServiceIn(g[1].members)
      BY <1>2, <2>2, <2>3 DEF FirstService
  <2>5. Service(s) = g[1].members
      BY <1>5 DEF Service
  <2> QED
      BY <2>1, <2>4, <2>5, MembersAreAVPs
<1> QED
    BY <1>4, <1>5

\* What the loops of the extraction store is what the last AVPs say.
LEMMA LastValueFollows == ContentInv => TheLastValueCounts
<1> SUFFICES ASSUME ContentInv, NEW r \in Arrived
    PROVE  /\ CCROf(r).oReqServiceUnit = UnitsIn(Within(wire[r], "REQUESTED_SERVICE_UNIT"))
           /\ FirstService(CCROf(r)).oReqServiceUnit =
                  UnitsIn(Within(Service(wire[r]), "REQUESTED_SERVICE_UNIT"))
           /\ CCROf(r).unCCRequestNum = LastNumber(wire[r], "CC_REQUEST_NUMBER", 0)
           /\ CCROf(r).unTerminationCause =
                  Unsigned(LastNumber(wire[r], "TERMINATION_CAUSE", -1))
           /\ CCROf(r).unRequestedAction =
                  Unsigned(LastNumber(wire[r], "REQUESTED_ACTION", 0))
    BY DEF TheLastValueCounts
<1>1. CCROf(r) = CCRIn(wire[r]) /\ wire[r] \in Seq(AVP) /\ AreAVPs(AVP)
    BY ArrivedFacts DEF Arrived
<1>2. FirstService(CCROf(r)) = ServiceIn(Service(wire[r]))
    BY <1>1, FirstServiceIn
<1> QED
    BY <1>1, <1>2 DEF CCRIn, ServiceIn

\* The arrays hold what the first groups say.
LEMMA FirstOnesFollow == ContentInv => ArraysTakeTheFirst
<1> SUFFICES ASSUME ContentInv, NEW r \in Arrived
    PROVE  LET services == Having(wire[r], "MULTIPLE_SERVICES_CREDIT_CONTROL")
               kept == CCROf(r).oMultiServicesCC
               Used(i) == Having(services[i].members, "USED_SERVICE_UNIT")
           IN /\ Len(kept) <= OCS_MAX_MULTI_SERVICE_CC
              /\ Len(kept) < Len(services) => Len(kept) = OCS_MAX_MULTI_SERVICE_CC
              /\ \A i \in DOMAIN kept :
                    /\ kept[i].unServiceId =
                           LastNumber(services[i].members, "SERVICE_IDENTIFIER", 0)
                    /\ Len(kept[i].oUsedServiceUnit) <= OCS_MAX_USED_SERVICE_UNIT
                    /\ Len(kept[i].oUsedServiceUnit) < Len(Used(i)) =>
                           Len(kept[i].oUsedServiceUnit) = OCS_MAX_USED_SERVICE_UNIT
                    /\ \A j \in DOMAIN kept[i].oUsedServiceUnit :
                          kept[i].oUsedServiceUnit[j].unCCTime =
                              LastNumber(Used(i)[j].members, "CC_TIME", 0)
    BY DEF ArraysTakeTheFirst
<1> DEFINE services == Having(wire[r], "MULTIPLE_SERVICES_CREDIT_CONTROL")
           kept == CCROf(r).oMultiServicesCC
           Used(i) == Having(services[i].members, "USED_SERVICE_UNIT")
<1>1. CCROf(r) = CCRIn(wire[r]) /\ wire[r] \in Seq(AVP) /\ AreAVPs(AVP)
    BY ArrivedFacts DEF Arrived
<1>2. services \in Seq(AVP) /\ Len(services) \in Nat
    BY <1>1, HavingType
<1>3. kept = ServicesOf(services)
    BY <1>1 DEF CCRIn
<1>4. kept \in Seq(Services) /\ Len(kept) = Room(Len(services), OCS_MAX_MULTI_SERVICE_CC)
    BY <1>1, <1>2, <1>3, ServicesOfType
<1>5. /\ Len(kept) <= OCS_MAX_MULTI_SERVICE_CC
      /\ Len(kept) < Len(services) => Len(kept) = OCS_MAX_MULTI_SERVICE_CC
    BY <1>2, <1>4, DefinesAssumption DEF Room
<1>6. ASSUME NEW i \in DOMAIN kept
      PROVE  /\ kept[i].unServiceId = LastNumber(services[i].members, "SERVICE_IDENTIFIER", 0)
             /\ Len(kept[i].oUsedServiceUnit) <= OCS_MAX_USED_SERVICE_UNIT
             /\ Len(kept[i].oUsedServiceUnit) < Len(Used(i)) =>
                    Len(kept[i].oUsedServiceUnit) = OCS_MAX_USED_SERVICE_UNIT
             /\ \A j \in DOMAIN kept[i].oUsedServiceUnit :
                   kept[i].oUsedServiceUnit[j].unCCTime =
                       LastNumber(Used(i)[j].members, "CC_TIME", 0)
  <2> DEFINE u == Used(i)
             v == kept[i].oUsedServiceUnit
  <2>1. i \in 1 .. Room(Len(services), OCS_MAX_MULTI_SERVICE_CC)
      BY <1>4
  <2>2. i \in 1 .. Len(services)
      BY <1>2, <2>1, DefinesAssumption DEF Room
  <2>3. kept[i] = ServiceIn(services[i].members)
      BY <1>3, <2>1 DEF ServicesOf
  <2>4. services[i].members \in Seq(AVP)
      BY <1>1, <1>2, <2>2, MembersAreAVPs
  <2>5. u \in Seq(AVP) /\ Len(u) \in Nat
      BY <2>4, HavingType
  <2>6. v = UsedOf(u)
      BY <2>3 DEF ServiceIn
  <2>7. v \in Seq(UsedUnits) /\ Len(v) = Room(Len(u), OCS_MAX_USED_SERVICE_UNIT)
      BY <1>1, <2>5, <2>6, UsedOfType
  <2>8. kept[i].unServiceId = LastNumber(services[i].members, "SERVICE_IDENTIFIER", 0)
      BY <2>3 DEF ServiceIn
  <2>9. ASSUME NEW j \in DOMAIN v PROVE v[j].unCCTime = LastNumber(u[j].members, "CC_TIME", 0)
    <3>1. j \in 1 .. Room(Len(u), OCS_MAX_USED_SERVICE_UNIT)
      <4> HIDE DEF v, u
      <4> QED
          BY <2>7, <2>9
    <3>2. v[j] = UsedIn(u[j].members)
      <4> HIDE DEF v, u
      <4> QED
          BY <2>6, <3>1 DEF UsedOf
    <3> QED
        BY <3>2 DEF UsedIn
  <2>10. /\ Len(v) <= OCS_MAX_USED_SERVICE_UNIT
         /\ Len(v) < Len(u) => Len(v) = OCS_MAX_USED_SERVICE_UNIT
      BY <2>5, <2>7, DefinesAssumption DEF Room
  <2> QED
      BY <2>8, <2>9, <2>10
<1> QED
    BY <1>5, <1>6

\* Texts that are copied alike are alike, or one of them was cut.
LEMMA CopiedAlike ==
    ASSUME NEW s \in Seq(STRING), NEW t \in Seq(STRING),
           Fitting(s) = Fitting(t)
    PROVE  \/ s = t
           \/ ~Fits(s) /\ IsPrefix(Fitting(s), t)
           \/ ~Fits(t) /\ IsPrefix(Fitting(t), s)
<1> DEFINE n == OCS_MAX_FIXED_LEN_UTF8STRING_SIZE
           Cut(x) == SubSeq(x, 1, n - 1)
<1>1. n \in Nat \ {0} /\ Len(s) \in Nat /\ Len(t) \in Nat
    BY DefinesAssumption
<1>2. ASSUME NEW x \in Seq(STRING)
      PROVE  Fitting(x) = IF Fits(x) THEN x ELSE Cut(x)
    BY DEF Fitting, Fits
<1>3. ASSUME NEW x \in Seq(STRING), ~Fits(x)
      PROVE  IsPrefix(Cut(x), x) /\ Cut(x) \in Seq(STRING)
  <2>1. n <= Len(x) /\ Len(x) \in Nat
      BY <1>1, <1>3 DEF Fits
  <2>2. Cut(x) \in Seq(STRING) /\ Len(Cut(x)) = n - 1
      BY <1>1, <2>1
  <2>3. SubSeq(Cut(x), 1, Len(Cut(x))) = Cut(x)
    <3> HIDE DEF Cut
    <3> QED
        BY <2>2, SubSeqFull
  <2>4. Len(Cut(x)) <= Len(x) /\ SubSeq(x, 1, Len(Cut(x))) = Cut(x)
      BY <1>1, <2>1, <2>2
  <2> QED
      BY <2>2, <2>3, <2>4 DEF IsPrefix
<1>4. CASE Fits(s) /\ Fits(t)
    BY <1>2, <1>4
<1>5. CASE ~Fits(s)
  <2>1. IsPrefix(Fitting(t), t)
    <3>1. CASE ~Fits(t)
        BY <1>2, <1>3, <3>1
    <3>2. CASE Fits(t)
      <4>1. IsPrefix(t, t)
          BY <1>1 DEF IsPrefix
      <4> QED
          BY <1>2, <3>2, <4>1
    <3> QED
        BY <3>1, <3>2
  <2> QED
      BY <1>5, <2>1
<1>6. CASE Fits(s) /\ ~Fits(t)
  <2>1. Fitting(t) = s
      BY <1>2, <1>6
  <2>2. IsPrefix(s, s)
      BY <1>1 DEF IsPrefix
  <2> QED
      BY <1>6, <2>1, <2>2
<1> QED
    BY <1>4, <1>5, <1>6

\* The key is a copy of what tells the sessions apart.
LEMMA KeysFollow == ContentInv => KeysTellSessionsApart
<1> SUFFICES ASSUME ContentInv, NEW q \in Arrived, NEW r \in Arrived, ccr[q].key = ccr[r].key
    PROVE  LET session(p) == LastText(wire[p], "SESSION_ID")
               subSession(p) == LastNumber(wire[p], "SUB_SESSION_ID", OCS_UNSUED_VALUE)
           IN /\ subSession(q) = subSession(r)
              /\ \/ session(q) = session(r)
                 \/ ~Fits(session(q)) /\ IsPrefix(ccr[q].key[1], session(r))
                 \/ ~Fits(session(r)) /\ IsPrefix(ccr[r].key[1], session(q))
    BY DEF KeysTellSessionsApart
<1>1. ASSUME NEW p \in Arrived
      PROVE  /\ ccr[p].key[1] = Fitting(LastText(wire[p], "SESSION_ID"))
             /\ ccr[p].key[2] = LastNumber(wire[p], "SUB_SESSION_ID", OCS_UNSUED_VALUE)
             /\ LastText(wire[p], "SESSION_ID") \in Seq(STRING)
  <2>1. /\ CCROf(p) = CCRIn(wire[p]) /\ ccr[p] = Summary(CCROf(p))
        /\ wire[p] \in Seq(AVP) /\ AreAVPs(AVP)
      BY ArrivedFacts DEF Arrived
  <2>2. ccr[p].key = <<CCROf(p).oSessionId, CCROf(p).ullCCSubSessionId>>
      BY <2>1 DEF Summary
  <2>3. /\ CCROf(p).oSessionId = Fitting(LastText(wire[p], "SESSION_ID"))
        /\ CCROf(p).ullCCSubSessionId = LastNumber(wire[p], "SUB_SESSION_ID", OCS_UNSUED_VALUE)
      BY <2>1 DEF CCRIn
  <2> QED
      BY <2>1, <2>2, <2>3, TextType
<1> QED
    BY <1>1, CopiedAlike

-----------------------------------------------------------------------------
(* The AVPs of an answer *)

\* The codes of the AVPs of an answer, and their texts.
SentCodes ==
    {"SESSION_ID", "RESULT_CODE", "AUTH_APPLICATION_ID", "CC_REQUEST_TYPE",
     "CC_REQUEST_NUMBER", "SUB_SESSION_ID", "GRANTED_SERVICE_UNIT",
     "MULTIPLE_SERVICES_CREDIT_CONTROL", "COST_INFORMATION", "LOW_BALANCE_INDICATION",
     "REMAINING_BALANCE", "CHECK_BALANCE_RESULT", "SERVICE_IDENTIFIER", "RATING_GROUP",
     "VALIDITY_TIME", "TARIFF_TIME_CHANGE", "CC_TIME", "CC_MONEY", "CC_INPUT_OCTETS",
     "CC_OUTPUT_OCTETS", "CC_SERVICE_SPECIFIC_UNITS", "UNIT_VALUE", "CURRENCY_CODE",
     "COST_UNIT", "VALUE_DIGITS", "EXPONENT"}

SentTexts == Seq(STRING) \cup {<<"R", "s", ".">>}

\* An array or a text that has one element or none.
AtMostOne(S) == {<<>>} \cup {<<x>> : x \in S}

\* AVPs with such members.
Over(S) == [code : SentCodes, number : Int, text : AtMostOne(SentTexts), members : Seq(S)]

\* What is made of numbers, texts and AVPs with such members.
LEMMA MadeOver ==
    ASSUME NEW S, NEW code \in SentCodes
    PROVE  /\ \A n \in Int : Number(code, n) \in Over(S)
           /\ \A s \in SentTexts : Text(code, s) \in Over(S)
           /\ \A avps \in Seq(S) : Group(code, avps) \in Over(S)
           /\ Groups(Over(S), S)
<1>1. <<>> \in AtMostOne(SentTexts) /\ \A s \in SentTexts : <<s>> \in AtMostOne(SentTexts)
    BY DEF AtMostOne
<1> QED
    BY <1>1 DEF Number, Text, Group, Over, Groups

\* At most one AVP, of this code.
Part(S, t, code) == t = <<>> \/ \E a \in S : a.code = code /\ t = <<a>>

\* A part that may be lost is still a part.
LEMMA AddedPart ==
    ASSUME NEW S, NEW t, NEW code, Part(S, t, code), NEW lost
    PROVE  Part(S, Added(code, t, lost), code)
BY DEF Part, Added

\* The AVP of a number is a part of its code.
LEMMA MadeParts ==
    ASSUME NEW S, NEW code \in SentCodes, NEW n \in Int, NEW lost
    PROVE  /\ Part(Over(S), Positive(code, n, lost), code)
           /\ Part(Over(S), Always(code, n, lost), code)
<1>1. Number(code, n) \in Over(S) /\ Number(code, n).code = code
    BY MadeOver DEF Number
<1>2. PICK t : t = IF 0 < n THEN <<Number(code, n)>> ELSE <<>>
    OBVIOUS
<1>3. PICK u : u = <<Number(code, n)>>
    OBVIOUS
<1>4. Part(Over(S), t, code) /\ Part(Over(S), u, code)
    BY <1>1, <1>2, <1>3 DEF Part
<1>5. Positive(code, n, lost) = Added(code, t, lost) /\ Always(code, n, lost) = Added(code, u, lost)
    BY <1>2, <1>3 DEF Positive, Always
<1> QED
    BY <1>4, <1>5, AddedPart

\* A part is a message.
LEMMA PartType ==
    ASSUME NEW S, NEW t, NEW c, Part(S, t, c)
    PROVE  t \in Seq(S)
<1>1. \A a \in S : <<a>> \in Seq(S)
    OBVIOUS
<1>2. <<>> \in Seq(S)
    OBVIOUS
<1> QED
    BY <1>1, <1>2 DEF Part

\* The empty message, as a fact the provers can use.
LEMMA EmptyMessage ==
    ASSUME NEW S, NEW e, e = <<>>
    PROVE  /\ e \in Seq(S)
           /\ \A a : Append(e, a) = <<a>>
           /\ \A code : Having(e, code) = <<>> /\ Within(e, code) = <<>>
BY ReadingEmpty

\* What a part adds to what is read.
LEMMA PartReads ==
    ASSUME NEW S, NEW s \in Seq(S), NEW t, NEW c, Part(S, t, c)
    PROVE  /\ t \in Seq(S)
           /\ s \o t \in Seq(S)
           /\ \A code : Having(t, code) = IF code = c THEN t ELSE <<>>
           /\ \A code : Having(s \o t, code) =
                            IF code = c THEN Having(s, code) \o t ELSE Having(s, code)
           /\ \A code, default : LastNumber(s \o t, code, default) =
                  IF code = c /\ t # <<>> THEN t[1].number ELSE LastNumber(s, code, default)
<1>1. t \in Seq(S)
    BY PartType
<1>e. PICK e : e = <<>>
    OBVIOUS
<1>2. ASSUME NEW code PROVE Having(t, code) = IF code = c THEN t ELSE <<>>
  <2>1. CASE t = <<>>
      BY <2>1, ReadingEmpty
  <2>2. ASSUME NEW a \in S, a.code = c, t = <<a>>
        PROVE  Having(t, code) = IF code = c THEN t ELSE <<>>
    <3>0. e \in Seq(S)
        BY <1>e, EmptyMessage
    <3>1. Append(e, a) = t /\ Having(e, code) = e
        BY <1>e, <2>2, EmptyMessage
    <3>2. Having(Append(e, a), code) =
              IF a.code = code THEN Append(Having(e, code), a) ELSE Having(e, code)
        BY <3>0, HavingAppend
    <3> QED
        BY <1>e, <2>2, <3>1, <3>2
  <2> QED
      BY <2>1, <2>2 DEF Part
<1>3. ASSUME NEW code
      PROVE  Having(s \o t, code) = IF code = c THEN Having(s, code) \o t ELSE Having(s, code)
  <2>1. Having(s \o t, code) = Having(s, code) \o Having(t, code)
      BY <1>1, HavingConcat
  <2>3. Having(s, code) \in Seq(S)
      BY HavingType
  <2>2. Having(s, code) \o <<>> = Having(s, code)
      BY <2>3, ConcatEmptySeq
  <2> QED
      BY <1>2, <2>1, <2>2
<1>4. ASSUME NEW code, NEW default
      PROVE  LastNumber(s \o t, code, default) =
                 IF code = c /\ t # <<>> THEN t[1].number ELSE LastNumber(s, code, default)
  <2>1. LastNumber(s \o t, code, default) =
            LastNumber(t, code, LastNumber(s, code, default))
      BY <1>1, LastConcat
  <2>2. t # <<>> => Last(t) = t[1]
      BY DEF Part, Last
  <2> QED
      BY <1>2, <2>1, <2>2 DEF LastNumber
<1> QED
    BY <1>1, <1>2, <1>3, <1>4

\* The same of what is read of the members of groups.
LEMMA PartWithin ==
    ASSUME NEW S, NEW T, Groups(S, T), NEW s \in Seq(S), NEW t, NEW c, Part(S, t, c)
    PROVE  /\ \A code : Within(t, code) =
                            IF code = c /\ t # <<>> THEN t[1].members ELSE <<>>
           /\ \A code : Within(s \o t, code) = Within(s, code) \o Within(t, code)
           /\ \A code : code # c => Within(s \o t, code) = Within(s, code)
<1>1. t \in Seq(S)
    BY PartType
<1>e. PICK e : e = <<>>
    OBVIOUS
<1>2. ASSUME NEW code
      PROVE  Within(t, code) = IF code = c /\ t # <<>> THEN t[1].members ELSE <<>>
  <2>1. CASE t = <<>>
      BY <2>1, ReadingEmpty
  <2>2. ASSUME NEW a \in S, a.code = c, t = <<a>>
        PROVE  Within(t, code) = IF code = c /\ t # <<>> THEN t[1].members ELSE <<>>
    <3>0. e \in Seq(S)
        BY <1>e, EmptyMessage
    <3>1. Append(e, a) = t /\ Within(e, code) = e /\ a.members \in Seq(T)
        BY <1>e, <2>2, EmptyMessage DEF Groups
    <3>2. Within(Append(e, a), code) =
              IF a.code = code THEN Within(e, code) \o a.members ELSE Within(e, code)
        BY <3>0, WithinAppend
    <3>3. e \o a.members = a.members
        BY <1>e, <3>1, ConcatEmptySeq
    <3>4. t # <<>> /\ t[1] = a
        BY <2>2
    <3> QED
        BY <1>e, <2>2, <3>1, <3>2, <3>3, <3>4
  <2> QED
      BY <2>1, <2>2 DEF Part
<1>3. \A code : Within(s \o t, code) = Within(s, code) \o Within(t, code)
    BY <1>1, WithinConcat
<1>4. ASSUME NEW code, code # c PROVE Within(s \o t, code) = Within(s, code)
  <2>1. Within(s, code) \in Seq(T)
      BY WithinType
  <2>2. Within(s, code) \o <<>> = Within(s, code)
      BY <2>1, ConcatEmptySeq
  <2> QED
      BY <1>2, <1>3, <1>4, <2>2
<1> QED
    BY <1>2, <1>3, <1>4

-----------------------------------------------------------------------------
(* Money and units on their way out *)

\* What is left of a number, which may be lost.
Sent(n) == IF 0 < n THEN n ELSE 0

Kept(code, n, lost) == IF <<code>> \in lost THEN 0 ELSE Sent(n)

\* AVPs without members, and the levels of groups above them.
Nothing == {}
Leaf == Over(Nothing)
Level1 == Over(Leaf)
Level2 == Over(Level1)
Level3 == Over(Level2)
Level4 == Over(Level3)

\* The members of the groups of a code are those of the AVPs of the code.
LEMMA WithinHaving ==
    ASSUME NEW S, NEW T, Groups(S, T), NEW s \in Seq(S), NEW code
    PROVE  /\ Having(s, code) = <<>> => Within(s, code) = <<>>
           /\ \A a \in S : Having(s, code) = <<a>> => Within(s, code) = a.members
<1> DEFINE n == Len(s)
           Alike(t) == /\ Within(t, code) = Within(Having(t, code), code)
                       /\ Having(t, code) = Having(Having(t, code), code)
           K == {k \in 0 .. n : Alike(Begin(s, k))}
<1>1. n \in Nat
    OBVIOUS
<1>2. 0 \in K
  <2>1. Begin(s, 0) = <<>> /\ Alike(<<>>)
      BY BeginSteps, ReadingEmpty
  <2>2. 0 \in 0 .. n
      BY <1>1
  <2> QED
      BY <2>1, <2>2
<1>3. ASSUME NEW k \in 1 .. n, k-1 \in K PROVE k \in K
  <2>1. PICK b : b = Begin(s, k-1)
      OBVIOUS
  <2>2. PICK a \in S : Begin(s, k) = Append(b, a)
    <3>1. s[k] \in S /\ Begin(s, k) = Append(Begin(s, k-1), s[k])
        BY BeginSteps
    <3> QED
        BY <2>1, <3>1
  <2>3. b \in Seq(S) /\ Alike(b)
      BY <1>3, <2>1, BeginSteps
  <2>4. PICK h : h = Having(b, code)
      OBVIOUS
  <2>5. /\ h \in Seq(S)
        /\ Having(Append(b, a), code) = IF a.code = code THEN Append(h, a) ELSE h
        /\ Within(Append(b, a), code) =
               IF a.code = code THEN Within(b, code) \o a.members ELSE Within(b, code)
    <3>1. b \in Seq(S)
        BY <2>3
    <3>2. /\ Having(b, code) \in Seq(S)
          /\ Having(Append(b, a), code) =
                 IF a.code = code THEN Append(Having(b, code), a) ELSE Having(b, code)
        BY <3>1, HavingAppend
    <3>3. Within(Append(b, a), code) =
               IF a.code = code THEN Within(b, code) \o a.members ELSE Within(b, code)
        BY <3>1, WithinAppend
    <3> QED
        BY <2>4, <3>2, <3>3
  <2>6. Within(Append(h, a), code) =
            IF a.code = code THEN Within(h, code) \o a.members ELSE Within(h, code)
      BY <2>5, WithinAppend
  <2>9. Having(Append(h, a), code) =
            IF a.code = code THEN Append(Having(h, code), a) ELSE Having(h, code)
      BY <2>5, HavingAppend
  <2>7. Alike(Append(b, a))
      BY <2>3, <2>4, <2>5, <2>6, <2>9
  <2>8. k \in 0 .. n
      BY <1>1
  <2> HIDE DEF Alike
  <2> QED
      BY <2>2, <2>7, <2>8
<1>4. n \in K
  <2>1. 0 .. n \subseteq K
    <3> HIDE DEF K
    <3> QED
        BY <1>1, <1>2, <1>3, UpTo
  <2> QED
      BY <1>1, <2>1
<1>5. /\ Within(s, code) = Within(Having(s, code), code)
      /\ Having(s, code) = Having(Having(s, code), code)
  <2>1. Begin(s, n) = s
      BY BeginSteps
  <2> QED
      BY <1>4, <2>1
<1>6. ASSUME NEW a \in S, Having(s, code) = <<a>> PROVE Within(s, code) = a.members
  <2>1. PICK t : t = <<a>>
      OBVIOUS
  <2>2. a.code = code
    <3>1. Part(S, t, a.code)
        BY <2>1 DEF Part
    <3>2. Having(t, code) = IF code = a.code THEN t ELSE <<>>
      <4>1. <<>> \in Seq(S)
          OBVIOUS
      <4> QED
          BY <3>1, <4>1, PartReads
    <3>3. Having(t, code) = t
      <4>1. Having(s, code) = Having(Having(s, code), code)
          BY <1>5
      <4> QED
          BY <1>6, <2>1, <4>1
    <3> QED
        BY <2>1, <3>2, <3>3
  <2>3. Part(S, t, code)
      BY <2>1, <2>2 DEF Part
  <2>4. Within(t, code) = IF t # <<>> THEN t[1].members ELSE <<>>
    <3>1. <<>> \in Seq(S)
        OBVIOUS
    <3> QED
        BY <2>3, <3>1, PartWithin
  <2> QED
      BY <1>5, <1>6, <2>1, <2>4
<1> QED
    BY <1>5, <1>6, ReadingEmpty

\* A message that begins with a part, and one that goes on with a part of a new code.
LEMMA Beginning ==
    ASSUME NEW S, NEW t, NEW c, Part(S, t, c)
    PROVE  /\ t \in Seq(S)
           /\ Having(t, c) = t
           /\ \A code : code # c => Having(t, code) = <<>>
<1>1. PICK e : e = <<>>
    OBVIOUS
<1>2. e \in Seq(S)
    BY <1>1
<1>3. t \in Seq(S) /\ \A code : Having(t, code) = IF code = c THEN t ELSE <<>>
    BY <1>2, PartReads
<1> QED
    BY <1>3

Joined(S, m, s, t, c) ==
    /\ m \in Seq(S)
    /\ Having(m, c) = t
    /\ \A code : code # c => Having(m, code) = Having(s, code)

\* A part of a new code at the end of a message.
LEMMA Joining ==
    ASSUME NEW S, NEW s \in Seq(S), NEW t, NEW c, Part(S, t, c), Having(s, c) = <<>>
    PROVE  Joined(S, s \o t, s, t, c)
<1>1. /\ t \in Seq(S)
      /\ s \o t \in Seq(S)
      /\ \A code : Having(s \o t, code) =
                       IF code = c THEN Having(s, code) \o t ELSE Having(s, code)
    BY PartReads
<1>2. <<>> \o t = t
    BY <1>1, ConcatEmptySeq
<1> QED
    BY <1>1, <1>2 DEF Joined

\* The value of what was read.
LEMMA ValueRead ==
    ASSUME NEW s, NEW c, NEW n \in Int, NEW lost, Having(s, c) = Positive(c, n, lost)
    PROVE  LastNumber(s, c, 0) = Kept(c, n, lost)
<1>1. PICK a : a = Number(c, n)
    OBVIOUS
<1>2. a.number = n
    BY <1>1 DEF Number
<1>3. Positive(c, n, lost) = IF 0 < n /\ <<c>> \notin lost THEN <<a>> ELSE <<>>
    BY <1>1 DEF Positive, Added
<1>4. Last(<<a>>) = a /\ <<a>> # <<>>
    BY DEF Last
<1> QED
    BY <1>2, <1>3, <1>4 DEF LastNumber, Kept, Sent

-----------------------------------------------------------------------------
(* Money and units *)

\* What is read of a unit value, and of an amount, that was sent.
ReceivedValue(u, lost) ==
    [llValueDigits |-> Kept("VALUE_DIGITS", u.llValueDigits, lost),
     nExponent |-> Kept("EXPONENT", u.nExponent, lost)]

Received(m, lost) ==
    [oUnitValue |-> IF <<"UNIT_VALUE">> \in lost THEN UnitValue
                    ELSE ReceivedValue(m.oUnitValue, Inside("UNIT_VALUE", lost)),
     unCurrencyCode |-> Kept("CURRENCY_CODE", m.unCurrencyCode, lost)]

\* A unit value is read back as far as its fields are positive and not lost.
LEMMA UnitValueSent ==
    ASSUME NEW u \in UnitValues, NEW lost
    PROVE  /\ OCF_CreateUnitValueAVP(u, lost) \in Level1
           /\ OCF_CreateUnitValueAVP(u, lost).code = "UNIT_VALUE"
           /\ UnitValueIn(OCF_CreateUnitValueAVP(u, lost).members) = ReceivedValue(u, lost)
<1>0. {"VALUE_DIGITS", "EXPONENT", "UNIT_VALUE"} \subseteq SentCodes
    BY DEF SentCodes
<1>1. u.llValueDigits \in Int /\ u.nExponent \in Int
    BY DEF UnitValues
<1>2. PICK s : s = Positive("VALUE_DIGITS", u.llValueDigits, lost)
    OBVIOUS
<1>3. PICK t : t = Positive("EXPONENT", u.nExponent, lost)
    OBVIOUS
<1>4. Part(Leaf, s, "VALUE_DIGITS") /\ Part(Leaf, t, "EXPONENT")
    BY <1>0, <1>1, <1>2, <1>3, MadeParts DEF Leaf
<1>5. /\ s \in Seq(Leaf) /\ Having(s, "VALUE_DIGITS") = s
      /\ Having(s, "EXPONENT") = <<>>
    BY <1>4, Beginning
<1>6. PICK m : m = s \o t
    OBVIOUS
<1>7. m \in Seq(Leaf) /\ Having(m, "VALUE_DIGITS") = s /\ Having(m, "EXPONENT") = t
  <2>1. Joined(Leaf, s \o t, s, t, "EXPONENT")
      BY <1>4, <1>5, Joining
  <2> QED
      BY <1>5, <1>6, <2>1 DEF Joined
<1>8. /\ LastNumber(m, "VALUE_DIGITS", 0) = Kept("VALUE_DIGITS", u.llValueDigits, lost)
      /\ LastNumber(m, "EXPONENT", 0) = Kept("EXPONENT", u.nExponent, lost)
    BY <1>1, <1>2, <1>3, <1>7, ValueRead
<1>9. OCF_CreateUnitValueAVP(u, lost) = Group("UNIT_VALUE", m)
    BY <1>2, <1>3, <1>6 DEF OCF_CreateUnitValueAVP
<1>10. /\ Group("UNIT_VALUE", m) \in Level1
       /\ Group("UNIT_VALUE", m).code = "UNIT_VALUE"
       /\ Group("UNIT_VALUE", m).members = m
    BY <1>0, <1>7, MadeOver DEF Group, Level1
<1> QED
    BY <1>8, <1>9, <1>10 DEF UnitValueIn, ReceivedValue

\* A group of one AVP or none, depending on what is lost.
LEMMA AddedGroup ==
    ASSUME NEW S, NEW code, NEW a \in S, a.code = code, NEW lost
    PROVE  /\ Part(S, Added(code, <<a>>, lost), code)
           /\ Added(code, <<a>>, lost) = IF <<code>> \in lost THEN <<>> ELSE <<a>>
BY DEF Part, Added

\* A unit value in a group.
LEMMA UnitValueGiven ==
    ASSUME NEW u \in UnitValues, NEW lost
    PROVE  Part(Level1, UnitValueAdded(u, lost), "UNIT_VALUE")
<1>1. PICK a \in Level1 : /\ a = OCF_CreateUnitValueAVP(u, Inside("UNIT_VALUE", lost))
                          /\ a.code = "UNIT_VALUE"
    BY UnitValueSent
<1> QED
    BY <1>1, AddedGroup DEF UnitValueAdded

\* An amount is read as it was sent, but for what is lost or not positive.
LEMMA MoneySent ==
    ASSUME NEW m \in Moneys, NEW lost
    PROVE  /\ OCF_CreateCCMoneyAVP(m, lost) \in Level2
           /\ OCF_CreateCCMoneyAVP(m, lost).code = "CC_MONEY"
           /\ MoneyIn(OCF_CreateCCMoneyAVP(m, lost).members) = Received(m, lost)
<1>0. {"UNIT_VALUE", "CURRENCY_CODE", "CC_MONEY"} \subseteq SentCodes
    BY DEF SentCodes
<1>1. m.oUnitValue \in UnitValues /\ m.unCurrencyCode \in Int
    BY DEF Moneys
<1>2. PICK u : u = OCF_CreateUnitValueAVP(m.oUnitValue, Inside("UNIT_VALUE", lost))
    OBVIOUS
<1>3. /\ u \in Level1 /\ u.code = "UNIT_VALUE"
      /\ UnitValueIn(u.members) = ReceivedValue(m.oUnitValue, Inside("UNIT_VALUE", lost))
    BY <1>1, <1>2, UnitValueSent
<1>4. PICK s : s = UnitValueAdded(m.oUnitValue, lost)
    OBVIOUS
<1>v. s = IF <<"UNIT_VALUE">> \in lost THEN <<>> ELSE <<u>>
    BY <1>2, <1>4 DEF UnitValueAdded, Added
<1>5. /\ s \in Seq(Level1) /\ Having(s, "UNIT_VALUE") = s
      /\ Having(s, "CURRENCY_CODE") = <<>>
  <2>1. Part(Level1, s, "UNIT_VALUE")
      BY <1>1, <1>4, UnitValueGiven
  <2> QED
      BY <2>1, Beginning
<1>6. PICK t : t = Positive("CURRENCY_CODE", m.unCurrencyCode, lost)
    OBVIOUS
<1>7. Part(Level1, t, "CURRENCY_CODE")
    BY <1>0, <1>1, <1>6, MadeParts DEF Level1
<1>8. PICK all : all = s \o t
    OBVIOUS
<1>9. /\ all \in Seq(Level1)
      /\ Having(all, "UNIT_VALUE") = s
      /\ Having(all, "CURRENCY_CODE") = t
  <2>1. Joined(Level1, s \o t, s, t, "CURRENCY_CODE")
      BY <1>5, <1>7, Joining
  <2>2. /\ all \in Seq(Level1)
        /\ Having(all, "CURRENCY_CODE") = t
        /\ \A code : code # "CURRENCY_CODE" => Having(all, code) = Having(s, code)
      BY <1>8, <2>1 DEF Joined
  <2> QED
      BY <1>5, <2>2
<1>g. Groups(Level1, Leaf)
    BY <1>0, MadeOver DEF Level1
<1>10. UnitValueIn(Within(all, "UNIT_VALUE")) = Received(m, lost).oUnitValue
  <2>1. CASE <<"UNIT_VALUE">> \in lost
    <3>1. Within(all, "UNIT_VALUE") = <<>>
        BY <1>g, <1>v, <1>9, <2>1, WithinHaving
    <3>2. UnitValueIn(<<>>) = UnitValue
        BY LastEmpty DEF UnitValueIn, UnitValue
    <3> QED
        BY <2>1, <3>1, <3>2 DEF Received
  <2>2. CASE <<"UNIT_VALUE">> \notin lost
    <3>1. Within(all, "UNIT_VALUE") = u.members
        BY <1>g, <1>v, <1>3, <1>9, <2>2, WithinHaving
    <3> QED
        BY <1>3, <2>2, <3>1 DEF Received
  <2> QED
      BY <2>1, <2>2
<1>11. LastNumber(all, "CURRENCY_CODE", 0) = Kept("CURRENCY_CODE", m.unCurrencyCode, lost)
    BY <1>1, <1>6, <1>9, ValueRead
<1>12. MoneyIn(all) = Received(m, lost)
    BY <1>10, <1>11 DEF MoneyIn, Received
<1>13. OCF_CreateCCMoneyAVP(m, lost) = Group("CC_MONEY", all)
    BY <1>4, <1>6, <1>8 DEF OCF_CreateCCMoneyAVP
<1>14. /\ Group("CC_MONEY", all) \in Level2
       /\ Group("CC_MONEY", all).code = "CC_MONEY"
       /\ Group("CC_MONEY", all).members = all
    BY <1>0, <1>9, MadeOver DEF Group, Level2
<1> QED
    BY <1>12, <1>13, <1>14

GrantedUnits ==
    [unTariffTimeChange : Int, unCCTime : Int, oCCMoney : Moneys, ullCCTotalOctets : Int,
     ullCCInputOctets : Int, ullCCOutputOctets : Int, ullCCServiceSpecificUnits : Int]

\* What is read of units that were granted.
Granting(g, lost) ==
    [unCCTime |-> Kept("CC_TIME", g.unCCTime, lost),
     oCCMoney |-> IF 0 < g.oCCMoney.oUnitValue.llValueDigits /\ <<"CC_MONEY">> \notin lost
                  THEN Received(g.oCCMoney, Inside("CC_MONEY", lost)) ELSE CCMoney,
     ullCCTotalOctets |-> 0,
     ullCCInputOctets |-> Kept("CC_INPUT_OCTETS", g.ullCCInputOctets, lost),
     ullCCOutputOctets |-> Kept("CC_OUTPUT_OCTETS", g.ullCCOutputOctets, lost)]

\* Units without money.
LEMMA NoMoney ==
    ASSUME NEW s, Within(s, "CC_MONEY") = <<>>
    PROVE  MoneyIn(Within(s, "CC_MONEY")) = CCMoney
BY LastEmpty, ReadingEmpty DEF MoneyIn, UnitValueIn, CCMoney, UnitValue

\* Granted units are read as they were sent.
LEMMA UnitsSent ==
    ASSUME NEW g \in GrantedUnits, NEW lost
    PROVE  /\ OCF_CreatGrantedServiceUnitAVP(g, lost) \in Level3
           /\ OCF_CreatGrantedServiceUnitAVP(g, lost).code = "GRANTED_SERVICE_UNIT"
           /\ UnitsIn(OCF_CreatGrantedServiceUnitAVP(g, lost).members) = Granting(g, lost)
<1>0. {"TARIFF_TIME_CHANGE", "CC_TIME", "CC_MONEY", "CC_INPUT_OCTETS", "CC_OUTPUT_OCTETS",
       "CC_SERVICE_SPECIFIC_UNITS", "GRANTED_SERVICE_UNIT"} \subseteq SentCodes
    BY DEF SentCodes
<1>1. /\ g.unTariffTimeChange \in Int /\ g.unCCTime \in Int /\ g.oCCMoney \in Moneys
      /\ g.ullCCInputOctets \in Int /\ g.ullCCOutputOctets \in Int
      /\ g.ullCCServiceSpecificUnits \in Int
    BY DEF GrantedUnits
<1>2. PICK a : a = OCF_CreateCCMoneyAVP(g.oCCMoney, Inside("CC_MONEY", lost))
    OBVIOUS
<1>3. /\ a \in Level2 /\ a.code = "CC_MONEY"
      /\ MoneyIn(a.members) = Received(g.oCCMoney, Inside("CC_MONEY", lost))
    BY <1>1, <1>2, MoneySent
<1>p1. PICK p1 : p1 = Positive("TARIFF_TIME_CHANGE", g.unTariffTimeChange, lost)
    OBVIOUS
<1>p2. PICK p2 : p2 = Positive("CC_TIME", g.unCCTime, lost)
    OBVIOUS
<1>p3. PICK p3 : p3 =
            IF 0 < g.oCCMoney.oUnitValue.llValueDigits /\ <<"CC_MONEY">> \notin lost
            THEN <<a>> ELSE <<>>
    OBVIOUS
<1>p4. PICK p4 : p4 = Positive("CC_INPUT_OCTETS", g.ullCCInputOctets, lost)
    OBVIOUS
<1>p5. PICK p5 : p5 = Positive("CC_OUTPUT_OCTETS", g.ullCCOutputOctets, lost)
    OBVIOUS
<1>p6. PICK p6 : p6 = Positive("CC_SERVICE_SPECIFIC_UNITS", g.ullCCServiceSpecificUnits, lost)
    OBVIOUS
<1>4. Groups(Level2, Level1)
    BY <1>0, MadeOver DEF Level2
<1>q1. Part(Level2, p1, "TARIFF_TIME_CHANGE")
    BY <1>0, <1>1, <1>p1, MadeParts DEF Level2
<1>q2. Part(Level2, p2, "CC_TIME")
    BY <1>0, <1>1, <1>p2, MadeParts DEF Level2
<1>q3. Part(Level2, p3, "CC_MONEY")
    BY <1>3, <1>p3 DEF Part
<1>q4. Part(Level2, p4, "CC_INPUT_OCTETS")
    BY <1>0, <1>1, <1>p4, MadeParts DEF Level2
<1>q5. Part(Level2, p5, "CC_OUTPUT_OCTETS")
    BY <1>0, <1>1, <1>p5, MadeParts DEF Level2
<1>q6. Part(Level2, p6, "CC_SERVICE_SPECIFIC_UNITS")
    BY <1>0, <1>1, <1>p6, MadeParts DEF Level2
<1>j1. /\ p1 \in Seq(Level2)
      /\ \A code : code # "TARIFF_TIME_CHANGE" => Having(p1, code) = <<>>
    BY <1>q1, Beginning
<1>m2. PICK m2 : m2 = p1 \o p2
    OBVIOUS
<1>j2. /\ m2 \in Seq(Level2)
      /\ Having(m2, "CC_TIME") = p2
      /\ \A code : code # "CC_TIME" => Having(m2, code) = Having(p1, code)
  <2>1. Having(p1, "CC_TIME") = <<>>
      BY <1>j1
  <2>2. p1 \in Seq(Level2)
      BY <1>j1
  <2>3. Joined(Level2, p1 \o p2, p1, p2, "CC_TIME")
      BY <1>q2, <2>1, <2>2, Joining
  <2> QED
      BY <1>m2, <2>3 DEF Joined
<1>m3. PICK m3 : m3 = m2 \o p3
    OBVIOUS
<1>j3. /\ m3 \in Seq(Level2)
      /\ Having(m3, "CC_MONEY") = p3
      /\ \A code : code # "CC_MONEY" => Having(m3, code) = Having(m2, code)
  <2>1. Having(m2, "CC_MONEY") = <<>>
      BY <1>j1, <1>j2
  <2>2. m2 \in Seq(Level2)
      BY <1>j2
  <2>3. Joined(Level2, m2 \o p3, m2, p3, "CC_MONEY")
      BY <1>q3, <2>1, <2>2, Joining
  <2> QED
      BY <1>m3, <2>3 DEF Joined
<1>m4. PICK m4 : m4 = m3 \o p4
    OBVIOUS
<1>j4. /\ m4 \in Seq(Level2)
      /\ Having(m4, "CC_INPUT_OCTETS") = p4
      /\ \A code : code # "CC_INPUT_OCTETS" => Having(m4, code) = Having(m3, code)
  <2>1. Having(m3, "CC_INPUT_OCTETS") = <<>>
      BY <1>j1, <1>j2, <1>j3
  <2>2. m3 \in Seq(Level2)
      BY <1>j3
  <2>3. Joined(Level2, m3 \o p4, m3, p4, "CC_INPUT_OCTETS")
      BY <1>q4, <2>1, <2>2, Joining
  <2> QED
      BY <1>m4, <2>3 DEF Joined
<1>m5. PICK m5 : m5 = m4 \o p5
    OBVIOUS
<1>j5. /\ m5 \in Seq(Level2)
      /\ Having(m5, "CC_OUTPUT_OCTETS") = p5
      /\ \A code : code # "CC_OUTPUT_OCTETS" => Having(m5, code) = Having(m4, code)
  <2>1. Having(m4, "CC_OUTPUT_OCTETS") = <<>>
      BY <1>j1, <1>j2, <1>j3, <1>j4
  <2>2. m4 \in Seq(Level2)
      BY <1>j4
  <2>3. Joined(Level2, m4 \o p5, m4, p5, "CC_OUTPUT_OCTETS")
      BY <1>q5, <2>1, <2>2, Joining
  <2> QED
      BY <1>m5, <2>3 DEF Joined
<1>m6. PICK m6 : m6 = m5 \o p6
    OBVIOUS
<1>j6. /\ m6 \in Seq(Level2)
      /\ Having(m6, "CC_SERVICE_SPECIFIC_UNITS") = p6
      /\ \A code : code # "CC_SERVICE_SPECIFIC_UNITS" => Having(m6, code) = Having(m5, code)
  <2>1. Having(m5, "CC_SERVICE_SPECIFIC_UNITS") = <<>>
      BY <1>j1, <1>j2, <1>j3, <1>j4, <1>j5
  <2>2. m5 \in Seq(Level2)
      BY <1>j5
  <2>3. Joined(Level2, m5 \o p6, m5, p6, "CC_SERVICE_SPECIFIC_UNITS")
      BY <1>q6, <2>1, <2>2, Joining
  <2> QED
      BY <1>m6, <2>3 DEF Joined
<1>10. m6 \in Seq(Level2)
    BY <1>j6
<1>11. /\ Having(m6, "CC_TIME") = p2
       /\ Having(m6, "CC_MONEY") = p3
       /\ Having(m6, "CC_TOTAL_OCTETS") = <<>>
       /\ Having(m6, "CC_INPUT_OCTETS") = p4
       /\ Having(m6, "CC_OUTPUT_OCTETS") = p5
    BY <1>j1, <1>j2, <1>j3, <1>j4, <1>j5, <1>j6
<1>12. MoneyIn(Within(m6, "CC_MONEY")) = Granting(g, lost).oCCMoney
  <2>1. Groups(Level2, Level1)
      BY <1>4
  <2>2. CASE p3 = <<>>
    <3>1. Within(m6, "CC_MONEY") = <<>>
        BY <1>10, <1>11, <2>1, <2>2, WithinHaving
    <3> QED
        BY <1>p3, <2>2, <3>1, NoMoney DEF Granting
  <2>3. CASE p3 = <<a>>
    <3>1. Within(m6, "CC_MONEY") = a.members
        BY <1>3, <1>10, <1>11, <2>1, <2>3, WithinHaving
    <3>2. 0 < g.oCCMoney.oUnitValue.llValueDigits /\ <<"CC_MONEY">> \notin lost
        BY <1>p3, <2>3
    <3> QED
        BY <1>3, <3>1, <3>2 DEF Granting
  <2> QED
      BY <1>p3, <2>2, <2>3
<1>13. /\ LastNumber(m6, "CC_TIME", 0) = Kept("CC_TIME", g.unCCTime, lost)
       /\ LastNumber(m6, "CC_TOTAL_OCTETS", 0) = 0
       /\ LastNumber(m6, "CC_INPUT_OCTETS", 0) = Kept("CC_INPUT_OCTETS", g.ullCCInputOctets, lost)
       /\ LastNumber(m6, "CC_OUTPUT_OCTETS", 0) = Kept("CC_OUTPUT_OCTETS", g.ullCCOutputOctets, lost)
    BY <1>1, <1>11, <1>p2, <1>p4, <1>p5, ValueRead DEF LastNumber
<1>14. UnitsIn(m6) = Granting(g, lost)
    BY <1>12, <1>13 DEF UnitsIn, Granting
<1>15. OCF_CreatGrantedServiceUnitAVP(g, lost) = Group("GRANTED_SERVICE_UNIT", m6)
    BY <1>2, <1>p1, <1>p2, <1>p3, <1>p4, <1>p5, <1>p6, <1>m2, <1>m3, <1>m4, <1>m5, <1>m6
       DEF OCF_CreatGrantedServiceUnitAVP, MoneyAdded, Added
<1>16. /\ Group("GRANTED_SERVICE_UNIT", m6) \in Level3
       /\ Group("GRANTED_SERVICE_UNIT", m6).code = "GRANTED_SERVICE_UNIT"
       /\ Group("GRANTED_SERVICE_UNIT", m6).members = m6
    BY <1>0, <1>10, MadeOver DEF Group, Level3
<1> QED
    BY <1>14, <1>15, <1>16

-----------------------------------------------------------------------------
(* Services *)

\* The AVPs of granted units.
LEMMA GrantsMapped ==
    ASSUME NEW lost, NEW p, NEW t \in AtMostOne(GrantedUnits), p = GrantsAdded(t, lost)
    PROVE  /\ Part(Level3, p, "GRANTED_SERVICE_UNIT")
           /\ p # <<>> <=> t # <<>> /\ <<"GRANTED_SERVICE_UNIT">> \notin lost
           /\ t # <<>> /\ <<"GRANTED_SERVICE_UNIT">> \notin lost =>
                 /\ t[1] \in GrantedUnits
                 /\ p = <<OCF_CreatGrantedServiceUnitAVP(t[1], Inside("GRANTED_SERVICE_UNIT", lost))>>
<1>1. PICK all : all = [i \in DOMAIN t |-> OCF_CreatGrantedServiceUnitAVP(t[i], Inside("GRANTED_SERVICE_UNIT", lost))]
    OBVIOUS
<1>2. p = Added("GRANTED_SERVICE_UNIT", all, lost)
    BY <1>1 DEF GrantsAdded
<1>3. CASE t = <<>>
  <2>1. all = <<>>
      BY <1>1, <1>3
  <2>2. p = <<>>
      BY <1>2, <2>1 DEF Added
  <2> QED
      BY <1>3, <2>2 DEF Part
<1>4. ASSUME NEW x \in GrantedUnits, t = <<x>>
      PROVE  /\ Part(Level3, p, "GRANTED_SERVICE_UNIT")
             /\ p # <<>> <=> <<"GRANTED_SERVICE_UNIT">> \notin lost
             /\ <<"GRANTED_SERVICE_UNIT">> \notin lost =>
                   /\ t[1] \in GrantedUnits
                   /\ p = <<OCF_CreatGrantedServiceUnitAVP(t[1], Inside("GRANTED_SERVICE_UNIT", lost))>>
             /\ t # <<>>
  <2>1. PICK a : a = OCF_CreatGrantedServiceUnitAVP(x, Inside("GRANTED_SERVICE_UNIT", lost))
      OBVIOUS
  <2>2. a \in Level3 /\ a.code = "GRANTED_SERVICE_UNIT"
      BY <2>1, UnitsSent
  <2>3. all = <<a>>
    <3>1. DOMAIN t = 1 .. 1 /\ t[1] = x
        BY <1>4
    <3>2. all = [i \in 1 .. 1 |-> a]
        BY <1>1, <2>1, <3>1
    <3> QED
        BY <3>2
  <2>4. t[1] = x /\ t # <<>>
      BY <1>4
  <2>5. p = IF <<"GRANTED_SERVICE_UNIT">> \in lost THEN <<>> ELSE <<a>>
      BY <1>2, <2>3 DEF Added
  <2>7. p # <<>> <=> <<"GRANTED_SERVICE_UNIT">> \notin lost
      BY <2>5
  <2>6. Part(Level3, p, "GRANTED_SERVICE_UNIT")
      BY <2>2, <2>5 DEF Part
  <2> QED
      BY <2>1, <2>4, <2>5, <2>6, <2>7
<1> QED
    BY <1>3, <1>4 DEF AtMostOne

AnsweredServices ==
    [unServiceId : Int, unRatingGroup : Int, poGrantedServiceUnits : AtMostOne(GrantedUnits),
     unValidityTime : Int, unResultCode : Int]

\* A service is read back with its identifier and its grant.
LEMMA ServiceSent ==
    ASSUME NEW s \in AnsweredServices, NEW lost
    PROVE  LET a == OCF_CreatMultipleServiceCCAVP(s, lost)
               units == s.poGrantedServiceUnits
               kept == units # <<>> /\ <<"GRANTED_SERVICE_UNIT">> \notin lost
           IN /\ a \in Level4
              /\ a.code = "MULTIPLE_SERVICES_CREDIT_CONTROL"
              /\ LastNumber(a.members, "SERVICE_IDENTIFIER", 0) =
                     Kept("SERVICE_IDENTIFIER", s.unServiceId, lost)
              /\ Having(a.members, "GRANTED_SERVICE_UNIT") # <<>> <=> kept
              /\ ~kept => Within(a.members, "GRANTED_SERVICE_UNIT") = <<>>
              /\ kept => UnitsIn(Within(a.members, "GRANTED_SERVICE_UNIT")) =
                             Granting(units[1], Inside("GRANTED_SERVICE_UNIT", lost))
<1> DEFINE units == s.poGrantedServiceUnits
           kept == units # <<>> /\ <<"GRANTED_SERVICE_UNIT">> \notin lost
           inside == Inside("GRANTED_SERVICE_UNIT", lost)
<1>0. {"GRANTED_SERVICE_UNIT", "SERVICE_IDENTIFIER", "RATING_GROUP", "VALIDITY_TIME",
       "RESULT_CODE", "MULTIPLE_SERVICES_CREDIT_CONTROL"} \subseteq SentCodes
    BY DEF SentCodes
<1>1. /\ s.unServiceId \in Int /\ s.unRatingGroup \in Int
      /\ s.unValidityTime \in Int /\ s.unResultCode \in Int
      /\ units \in AtMostOne(GrantedUnits)
    BY DEF AnsweredServices
<1>p1. PICK p1 : p1 = GrantsAdded(units, lost)
    OBVIOUS
<1>p2. PICK p2 : p2 = Positive("SERVICE_IDENTIFIER", s.unServiceId, lost)
    OBVIOUS
<1>p3. PICK p3 : p3 = Positive("RATING_GROUP", s.unRatingGroup, lost)
    OBVIOUS
<1>p4. PICK p4 : p4 = Positive("VALIDITY_TIME", s.unValidityTime, lost)
    OBVIOUS
<1>p5. PICK p5 : p5 = Positive("RESULT_CODE", s.unResultCode, lost)
    OBVIOUS
<1>2. /\ Part(Level3, p1, "GRANTED_SERVICE_UNIT")
      /\ p1 # <<>> <=> kept
      /\ kept =>
            p1 = <<OCF_CreatGrantedServiceUnitAVP(units[1], inside)>> /\ units[1] \in GrantedUnits
    BY <1>1, <1>p1, GrantsMapped
<1>q1. Part(Level3, p1, "GRANTED_SERVICE_UNIT")
    BY <1>2
<1>q2. Part(Level3, p2, "SERVICE_IDENTIFIER")
    BY <1>0, <1>1, <1>p2, MadeParts DEF Level3
<1>q3. Part(Level3, p3, "RATING_GROUP")
    BY <1>0, <1>1, <1>p3, MadeParts DEF Level3
<1>q4. Part(Level3, p4, "VALIDITY_TIME")
    BY <1>0, <1>1, <1>p4, MadeParts DEF Level3
<1>q5. Part(Level3, p5, "RESULT_CODE")
    BY <1>0, <1>1, <1>p5, MadeParts DEF Level3
<1>j1. /\ p1 \in Seq(Level3)
      /\ Having(p1, "GRANTED_SERVICE_UNIT") = p1
      /\ \A code : code # "GRANTED_SERVICE_UNIT" => Having(p1, code) = <<>>
    BY <1>q1, Beginning
<1>m2. PICK m2 : m2 = p1 \o p2
    OBVIOUS
<1>j2. /\ m2 \in Seq(Level3)
      /\ Having(m2, "SERVICE_IDENTIFIER") = p2
      /\ \A code : code # "SERVICE_IDENTIFIER" => Having(m2, code) = Having(p1, code)
  <2>1. Having(p1, "SERVICE_IDENTIFIER") = <<>>
      BY <1>j1
  <2>2. p1 \in Seq(Level3)
      BY <1>j1
  <2>3. Joined(Level3, p1 \o p2, p1, p2, "SERVICE_IDENTIFIER")
      BY <1>q2, <2>1, <2>2, Joining
  <2> QED
      BY <1>m2, <2>3 DEF Joined
<1>m3. PICK m3 : m3 = m2 \o p3
    OBVIOUS
<1>j3. /\ m3 \in Seq(Level3)
      /\ Having(m3, "RATING_GROUP") = p3
      /\ \A code : code # "RATING_GROUP" => Having(m3, code) = Having(m2, code)
  <2>1. Having(m2, "RATING_GROUP") = <<>>
      BY <1>j1, <1>j2
  <2>2. m2 \in Seq(Level3)
      BY <1>j2
  <2>3. Joined(Level3, m2 \o p3, m2, p3, "RATING_GROUP")
      BY <1>q3, <2>1, <2>2, Joining
  <2> QED
      BY <1>m3, <2>3 DEF Joined
<1>m4. PICK m4 : m4 = m3 \o p4
    OBVIOUS
<1>j4. /\ m4 \in Seq(Level3)
      /\ Having(m4, "VALIDITY_TIME") = p4
      /\ \A code : code # "VALIDITY_TIME" => Having(m4, code) = Having(m3, code)
  <2>1. Having(m3, "VALIDITY_TIME") = <<>>
      BY <1>j1, <1>j2, <1>j3
  <2>2. m3 \in Seq(Level3)
      BY <1>j3
  <2>3. Joined(Level3, m3 \o p4, m3, p4, "VALIDITY_TIME")
      BY <1>q4, <2>1, <2>2, Joining
  <2> QED
      BY <1>m4, <2>3 DEF Joined
<1>m5. PICK m5 : m5 = m4 \o p5
    OBVIOUS
<1>j5. /\ m5 \in Seq(Level3)
      /\ Having(m5, "RESULT_CODE") = p5
      /\ \A code : code # "RESULT_CODE" => Having(m5, code) = Having(m4, code)
  <2>1. Having(m4, "RESULT_CODE") = <<>>
      BY <1>j1, <1>j2, <1>j3, <1>j4
  <2>2. m4 \in Seq(Level3)
      BY <1>j4
  <2>3. Joined(Level3, m4 \o p5, m4, p5, "RESULT_CODE")
      BY <1>q5, <2>1, <2>2, Joining
  <2> QED
      BY <1>m5, <2>3 DEF Joined
<1>3. /\ Having(m5, "GRANTED_SERVICE_UNIT") = p1
      /\ Having(m5, "SERVICE_IDENTIFIER") = p2
      /\ m5 \in Seq(Level3)
    BY <1>j1, <1>j2, <1>j3, <1>j4, <1>j5
<1>4. Groups(Level3, Level2)
    BY <1>0, MadeOver DEF Level3
<1>5. ~kept => Within(m5, "GRANTED_SERVICE_UNIT") = <<>>
    BY <1>2, <1>3, <1>4, WithinHaving
<1>6. ASSUME kept
      PROVE  UnitsIn(Within(m5, "GRANTED_SERVICE_UNIT")) = Granting(units[1], inside)
  <2>1. PICK a : a = OCF_CreatGrantedServiceUnitAVP(units[1], inside)
      OBVIOUS
  <2>2. a \in Level3 /\ UnitsIn(a.members) = Granting(units[1], inside)
      BY <1>2, <1>6, <2>1, UnitsSent
  <2>3. Having(m5, "GRANTED_SERVICE_UNIT") = <<a>>
      BY <1>2, <1>3, <1>6, <2>1
  <2>4. Within(m5, "GRANTED_SERVICE_UNIT") = a.members
      BY <1>3, <1>4, <2>2, <2>3, WithinHaving
  <2> QED
      BY <2>2, <2>4
<1>7. Having(m5, "GRANTED_SERVICE_UNIT") # <<>> <=> kept
    BY <1>2, <1>3
<1>8. LastNumber(m5, "SERVICE_IDENTIFIER", 0) = Kept("SERVICE_IDENTIFIER", s.unServiceId, lost)
    BY <1>1, <1>3, <1>p2, ValueRead
<1>9. OCF_CreatMultipleServiceCCAVP(s, lost) = Group("MULTIPLE_SERVICES_CREDIT_CONTROL", m5)
    BY <1>p1, <1>p2, <1>p3, <1>p4, <1>p5, <1>m2, <1>m3, <1>m4, <1>m5
       DEF OCF_CreatMultipleServiceCCAVP
<1>10. /\ Group("MULTIPLE_SERVICES_CREDIT_CONTROL", m5) \in Level4
       /\ Group("MULTIPLE_SERVICES_CREDIT_CONTROL", m5).code =
              "MULTIPLE_SERVICES_CREDIT_CONTROL"
       /\ Group("MULTIPLE_SERVICES_CREDIT_CONTROL", m5).members = m5
    BY <1>0, <1>3, MadeOver DEF Group, Level4
<1> QED
    BY <1>5, <1>6, <1>7, <1>8, <1>9, <1>10

\* The AVPs of services.
LEMMA ServicesMapped ==
    ASSUME NEW lost, NEW p, NEW t \in AtMostOne(AnsweredServices), p = ServicesAdded(t, lost)
    PROVE  /\ Part(Level4, p, "MULTIPLE_SERVICES_CREDIT_CONTROL")
           /\ p # <<>> <=> t # <<>> /\ <<"MULTIPLE_SERVICES_CREDIT_CONTROL">> \notin lost
           /\ t # <<>> /\ <<"MULTIPLE_SERVICES_CREDIT_CONTROL">> \notin lost =>
                 /\ t[1] \in AnsweredServices
                 /\ p = <<OCF_CreatMultipleServiceCCAVP(t[1], Inside("MULTIPLE_SERVICES_CREDIT_CONTROL", lost))>>
<1>1. PICK all : all = [i \in DOMAIN t |-> OCF_CreatMultipleServiceCCAVP(t[i], Inside("MULTIPLE_SERVICES_CREDIT_CONTROL", lost))]
    OBVIOUS
<1>2. p = Added("MULTIPLE_SERVICES_CREDIT_CONTROL", all, lost)
    BY <1>1 DEF ServicesAdded
<1>3. CASE t = <<>>
  <2>1. all = <<>>
      BY <1>1, <1>3
  <2>2. p = <<>>
      BY <1>2, <2>1 DEF Added
  <2> QED
      BY <1>3, <2>2 DEF Part
<1>4. ASSUME NEW x \in AnsweredServices, t = <<x>>
      PROVE  /\ Part(Level4, p, "MULTIPLE_SERVICES_CREDIT_CONTROL")
             /\ p # <<>> <=> <<"MULTIPLE_SERVICES_CREDIT_CONTROL">> \notin lost
             /\ <<"MULTIPLE_SERVICES_CREDIT_CONTROL">> \notin lost =>
                   /\ t[1] \in AnsweredServices
                   /\ p = <<OCF_CreatMultipleServiceCCAVP(t[1], Inside("MULTIPLE_SERVICES_CREDIT_CONTROL", lost))>>
             /\ t # <<>>
  <2>1. PICK a : a = OCF_CreatMultipleServiceCCAVP(x, Inside("MULTIPLE_SERVICES_CREDIT_CONTROL", lost))
      OBVIOUS
  <2>2. a \in Level4 /\ a.code = "MULTIPLE_SERVICES_CREDIT_CONTROL"
      BY <2>1, ServiceSent
  <2>3. all = <<a>>
    <3>1. DOMAIN t = 1 .. 1 /\ t[1] = x
        BY <1>4
    <3>2. all = [i \in 1 .. 1 |-> a]
        BY <1>1, <2>1, <3>1
    <3> QED
        BY <3>2
  <2>4. t[1] = x /\ t # <<>>
      BY <1>4
  <2>5. p = IF <<"MULTIPLE_SERVICES_CREDIT_CONTROL">> \in lost THEN <<>> ELSE <<a>>
      BY <1>2, <2>3 DEF Added
  <2>7. p # <<>> <=> <<"MULTIPLE_SERVICES_CREDIT_CONTROL">> \notin lost
      BY <2>5
  <2>6. Part(Level4, p, "MULTIPLE_SERVICES_CREDIT_CONTROL")
      BY <2>2, <2>5 DEF Part
  <2> QED
      BY <2>1, <2>4, <2>5, <2>6, <2>7
<1> QED
    BY <1>3, <1>4 DEF AtMostOne

CostInformations ==
    [oUnitValue : UnitValues, unCurrencyCode : Int, oCostUnit : {<<>>, <<"R", "s", ".">>}]

\* A cost, and a balance, are AVPs.
LEMMA CostSent ==
    ASSUME NEW c \in CostInformations, NEW lost
    PROVE  /\ OCF_CreatCostInformationAVP(c, lost) \in Level2
           /\ OCF_CreatCostInformationAVP(c, lost).code = "COST_INFORMATION"
<1>0. {"UNIT_VALUE", "CURRENCY_CODE", "COST_UNIT", "COST_INFORMATION"} \subseteq SentCodes
    BY DEF SentCodes
<1>1. c.oUnitValue \in UnitValues /\ c.unCurrencyCode \in Int
    BY DEF CostInformations
<1>2. PICK u : u = UnitValueAdded(c.oUnitValue, lost)
    OBVIOUS
<1>3. u \in Seq(Level1)
    BY <1>1, <1>2, UnitValueGiven, PartType
<1>4. PICK t : t = Positive("CURRENCY_CODE", c.unCurrencyCode, lost)
    OBVIOUS
<1>5. t \in Seq(Level1)
  <2>1. Part(Level1, t, "CURRENCY_CODE")
      BY <1>0, <1>1, <1>4, MadeParts DEF Level1
  <2> QED
      BY <2>1, PartType
<1>6. PICK w : w =
            IF c.oCostUnit # <<>> THEN Added("COST_UNIT", <<Text("COST_UNIT", c.oCostUnit)>>, lost)
                                  ELSE <<>>
    OBVIOUS
<1>7. w \in Seq(Level1)
  <2>1. c.oCostUnit \in SentTexts
    <3>1. c.oCostUnit \in {<<>>, <<"R", "s", ".">>}
        BY DEF CostInformations
    <3>2. PICK r : r = <<"R", "s", ".">>
        OBVIOUS
    <3>3. <<>> \in Seq(STRING)
        OBVIOUS
    <3>4. \A x \in {<<>>, r} : x \in Seq(STRING) \cup {r}
        BY <3>3
    <3> QED
        BY <3>1, <3>2, <3>4 DEF SentTexts
  <2>2. Text("COST_UNIT", c.oCostUnit) \in Level1
      BY <1>0, <2>1, MadeOver DEF Level1
  <2> QED
      BY <1>6, <2>2 DEF Added
<1>8. PICK m : m = u \o t \o w
    OBVIOUS
<1>9. m \in Seq(Level1)
    BY <1>3, <1>5, <1>7, <1>8
<1>10. OCF_CreatCostInformationAVP(c, lost) = Group("COST_INFORMATION", m)
    BY <1>2, <1>4, <1>6, <1>8 DEF OCF_CreatCostInformationAVP
<1>11. /\ Group("COST_INFORMATION", m) \in Level2
       /\ Group("COST_INFORMATION", m).code = "COST_INFORMATION"
    BY <1>0, <1>9, MadeOver DEF Group, Level2
<1> QED
    BY <1>10, <1>11

\* The AVPs of a cost.
LEMMA CostsMapped ==
    ASSUME NEW lost, NEW p, NEW t \in AtMostOne(CostInformations), p = CostsAdded(t, lost)
    PROVE  /\ Part(Level2, p, "COST_INFORMATION")
           /\ p # <<>> <=> t # <<>> /\ <<"COST_INFORMATION">> \notin lost
           /\ t # <<>> /\ <<"COST_INFORMATION">> \notin lost =>
                 /\ t[1] \in CostInformations
                 /\ p = <<OCF_CreatCostInformationAVP(t[1], Inside("COST_INFORMATION", lost))>>
<1>1. PICK all : all = [i \in DOMAIN t |-> OCF_CreatCostInformationAVP(t[i], Inside("COST_INFORMATION", lost))]
    OBVIOUS
<1>2. p = Added("COST_INFORMATION", all, lost)
    BY <1>1 DEF CostsAdded
<1>3. CASE t = <<>>
  <2>1. all = <<>>
      BY <1>1, <1>3
  <2>2. p = <<>>
      BY <1>2, <2>1 DEF Added
  <2> QED
      BY <1>3, <2>2 DEF Part
<1>4. ASSUME NEW x \in CostInformations, t = <<x>>
      PROVE  /\ Part(Level2, p, "COST_INFORMATION")
             /\ p # <<>> <=> <<"COST_INFORMATION">> \notin lost
             /\ <<"COST_INFORMATION">> \notin lost =>
                   /\ t[1] \in CostInformations
                   /\ p = <<OCF_CreatCostInformationAVP(t[1], Inside("COST_INFORMATION", lost))>>
             /\ t # <<>>
  <2>1. PICK a : a = OCF_CreatCostInformationAVP(x, Inside("COST_INFORMATION", lost))
      OBVIOUS
  <2>2. a \in Level2 /\ a.code = "COST_INFORMATION"
      BY <2>1, CostSent
  <2>3. all = <<a>>
    <3>1. DOMAIN t = 1 .. 1 /\ t[1] = x
        BY <1>4
    <3>2. all = [i \in 1 .. 1 |-> a]
        BY <1>1, <2>1, <3>1
    <3> QED
        BY <3>2
  <2>4. t[1] = x /\ t # <<>>
      BY <1>4
  <2>5. p = IF <<"COST_INFORMATION">> \in lost THEN <<>> ELSE <<a>>
      BY <1>2, <2>3 DEF Added
  <2>7. p # <<>> <=> <<"COST_INFORMATION">> \notin lost
      BY <2>5
  <2>6. Part(Level2, p, "COST_INFORMATION")
      BY <2>2, <2>5 DEF Part
  <2> QED
      BY <2>1, <2>4, <2>5, <2>6, <2>7
<1> QED
    BY <1>3, <1>4 DEF AtMostOne

\* The same of a balance.
LEMMA BalanceSent ==
    ASSUME NEW b \in Moneys, NEW lost
    PROVE  /\ OCF_CreatRemainingBalanceAVP(b, lost) \in Level2
           /\ OCF_CreatRemainingBalanceAVP(b, lost).code = "REMAINING_BALANCE"
<1>0. {"UNIT_VALUE", "CURRENCY_CODE", "COST_UNIT", "REMAINING_BALANCE"} \subseteq SentCodes
    BY DEF SentCodes
<1>1. b.oUnitValue \in UnitValues /\ b.unCurrencyCode \in Int
    BY DEF Moneys
<1>2. PICK u : u = UnitValueAdded(b.oUnitValue, lost)
    OBVIOUS
<1>3. u \in Seq(Level1)
    BY <1>1, <1>2, UnitValueGiven, PartType
<1>4. PICK t : t = Positive("CURRENCY_CODE", b.unCurrencyCode, lost)
    OBVIOUS
<1>5. t \in Seq(Level1)
  <2>1. Part(Level1, t, "CURRENCY_CODE")
      BY <1>0, <1>1, <1>4, MadeParts DEF Level1
  <2> QED
      BY <2>1, PartType
<1>8. PICK m : m = u \o t
    OBVIOUS
<1>9. m \in Seq(Level1)
    BY <1>3, <1>5, <1>8
<1>10. OCF_CreatRemainingBalanceAVP(b, lost) = Group("REMAINING_BALANCE", m)
    BY <1>2, <1>4, <1>8 DEF OCF_CreatRemainingBalanceAVP
<1>11. /\ Group("REMAINING_BALANCE", m) \in Level2
       /\ Group("REMAINING_BALANCE", m).code = "REMAINING_BALANCE"
    BY <1>0, <1>9, MadeOver DEF Group, Level2
<1> QED
    BY <1>10, <1>11

\* The AVPs of a balance.
LEMMA BalancesMapped ==
    ASSUME NEW lost, NEW p, NEW t \in AtMostOne(Moneys), p = BalancesAdded(t, lost)
    PROVE  /\ Part(Level2, p, "REMAINING_BALANCE")
           /\ p # <<>> <=> t # <<>> /\ <<"REMAINING_BALANCE">> \notin lost
           /\ t # <<>> /\ <<"REMAINING_BALANCE">> \notin lost =>
                 /\ t[1] \in Moneys
                 /\ p = <<OCF_CreatRemainingBalanceAVP(t[1], Inside("REMAINING_BALANCE", lost))>>
<1>1. PICK all : all = [i \in DOMAIN t |-> OCF_CreatRemainingBalanceAVP(t[i], Inside("REMAINING_BALANCE", lost))]
    OBVIOUS
<1>2. p = Added("REMAINING_BALANCE", all, lost)
    BY <1>1 DEF BalancesAdded
<1>3. CASE t = <<>>
  <2>1. all = <<>>
      BY <1>1, <1>3
  <2>2. p = <<>>
      BY <1>2, <2>1 DEF Added
  <2> QED
      BY <1>3, <2>2 DEF Part
<1>4. ASSUME NEW x \in Moneys, t = <<x>>
      PROVE  /\ Part(Level2, p, "REMAINING_BALANCE")
             /\ p # <<>> <=> <<"REMAINING_BALANCE">> \notin lost
             /\ <<"REMAINING_BALANCE">> \notin lost =>
                   /\ t[1] \in Moneys
                   /\ p = <<OCF_CreatRemainingBalanceAVP(t[1], Inside("REMAINING_BALANCE", lost))>>
             /\ t # <<>>
  <2>1. PICK a : a = OCF_CreatRemainingBalanceAVP(x, Inside("REMAINING_BALANCE", lost))
      OBVIOUS
  <2>2. a \in Level2 /\ a.code = "REMAINING_BALANCE"
      BY <2>1, BalanceSent
  <2>3. all = <<a>>
    <3>1. DOMAIN t = 1 .. 1 /\ t[1] = x
        BY <1>4
    <3>2. all = [i \in 1 .. 1 |-> a]
        BY <1>1, <2>1, <3>1
    <3> QED
        BY <3>2
  <2>4. t[1] = x /\ t # <<>>
      BY <1>4
  <2>5. p = IF <<"REMAINING_BALANCE">> \in lost THEN <<>> ELSE <<a>>
      BY <1>2, <2>3 DEF Added
  <2>7. p # <<>> <=> <<"REMAINING_BALANCE">> \notin lost
      BY <2>5
  <2>6. Part(Level2, p, "REMAINING_BALANCE")
      BY <2>2, <2>5 DEF Part
  <2> QED
      BY <2>1, <2>4, <2>5, <2>6, <2>7
<1> QED
    BY <1>3, <1>4 DEF AtMostOne

-----------------------------------------------------------------------------
(* The whole answer *)

CCAs ==
    [unResultCode : Int, oMultiServicesCC : AtMostOne(AnsweredServices),
     poCostInfo : AtMostOne(CostInformations), oLowBalanceIndication : Int,
     poRemainingBalance : AtMostOne(Moneys), oCheckBalanceResult : Int,
     poGrantedServiceUnits : AtMostOne(GrantedUnits)]

\* What a client reads in the answer m to request that was made of cca, but for
\* what is lost of it.
SaysOf(m, request, cca, lost) ==
    LET Has(code) == Having(m, code) # <<>>
        Keeps(field, code) == field # <<>> /\ <<code>> \notin lost
    IN /\ Having(m, "SESSION_ID") =
              IF request.oSessionId # <<>>
              THEN Added("SESSION_ID", <<Text("SESSION_ID", request.oSessionId)>>, lost) ELSE <<>>
       /\ Having(m, "CC_REQUEST_TYPE") = Always("CC_REQUEST_TYPE", request.oCCRequestType, lost)
       /\ Having(m, "CC_REQUEST_NUMBER") =
              Always("CC_REQUEST_NUMBER", request.unCCRequestNum, lost)
       /\ Having(m, "SUB_SESSION_ID") = UsedSubSession(request, lost)
       /\ Has("GRANTED_SERVICE_UNIT") <=>
              Keeps(cca.poGrantedServiceUnits, "GRANTED_SERVICE_UNIT")
       /\ Having(m, "MULTIPLE_SERVICES_CREDIT_CONTROL") =
              IF Keeps(cca.oMultiServicesCC, "MULTIPLE_SERVICES_CREDIT_CONTROL")
              THEN <<OCF_CreatMultipleServiceCCAVP(cca.oMultiServicesCC[1],
                         Inside("MULTIPLE_SERVICES_CREDIT_CONTROL", lost))>>
              ELSE <<>>
       /\ Has("COST_INFORMATION") <=> Keeps(cca.poCostInfo, "COST_INFORMATION")
       /\ Has("REMAINING_BALANCE") <=> Keeps(cca.poRemainingBalance, "REMAINING_BALANCE")
       /\ Has("CHECK_BALANCE_RESULT") <=>
              cca.oCheckBalanceResult # OCS_NOT_USED /\ <<"CHECK_BALANCE_RESULT">> \notin lost

\* The AVPs of an answer.
Sending == Level2 \cup Level3 \cup Level4

\* A part of some level is a part of an answer.
LEMMA PartsOfAnswers ==
    ASSUME NEW t, NEW c, Part(Level2, t, c) \/ Part(Level3, t, c) \/ Part(Level4, t, c)
    PROVE  Part(Sending, t, c)
BY DEF Part, Sending

\* Each field of an answer is read as it was filled.
LEMMA AnswerReads ==
    ASSUME NEW request \in CCRs, NEW cca \in CCAs, NEW lost
    PROVE  SaysOf(OCF_CreatCCADiamMsg(request, cca, lost), request, cca, lost)
<1>0. {"SESSION_ID",
       "RESULT_CODE",
       "AUTH_APPLICATION_ID",
       "CC_REQUEST_TYPE",
       "CC_REQUEST_NUMBER",
       "SUB_SESSION_ID",
       "GRANTED_SERVICE_UNIT",
       "MULTIPLE_SERVICES_CREDIT_CONTROL",
       "COST_INFORMATION",
       "LOW_BALANCE_INDICATION",
       "REMAINING_BALANCE",
       "CHECK_BALANCE_RESULT"} \subseteq SentCodes
    BY DEF SentCodes
<1>1. /\ request.oSessionId \in SentTexts /\ request.oCCRequestType \in Int
      /\ request.unCCRequestNum \in Int /\ request.ullCCSubSessionId \in Int
      /\ cca.unResultCode \in Int /\ cca.oLowBalanceIndication \in Int
      /\ cca.oCheckBalanceResult \in Int /\ OCS_APPLICATION_ID \in Int
      /\ cca.poGrantedServiceUnits \in AtMostOne(GrantedUnits)
      /\ cca.oMultiServicesCC \in AtMostOne(AnsweredServices)
      /\ cca.poCostInfo \in AtMostOne(CostInformations)
      /\ cca.poRemainingBalance \in AtMostOne(Moneys)
    BY DEF CCRs, CCAs, SentTexts, OCS_APPLICATION_ID
<1>p1. PICK p1 : p1 =
        IF request.oSessionId # <<>>
        THEN Added("SESSION_ID", <<Text("SESSION_ID", request.oSessionId)>>, lost) ELSE <<>>
    OBVIOUS
<1>p2. PICK p2 : p2 =
        Positive("RESULT_CODE", cca.unResultCode, lost)
    OBVIOUS
<1>p3. PICK p3 : p3 =
        Always("AUTH_APPLICATION_ID", OCS_APPLICATION_ID, lost)
    OBVIOUS
<1>p4. PICK p4 : p4 =
        Always("CC_REQUEST_TYPE", request.oCCRequestType, lost)
    OBVIOUS
<1>p5. PICK p5 : p5 =
        Always("CC_REQUEST_NUMBER", request.unCCRequestNum, lost)
    OBVIOUS
<1>p6. PICK p6 : p6 =
        UsedSubSession(request, lost)
    OBVIOUS
<1>p7. PICK p7 : p7 =
        GrantsAdded(cca.poGrantedServiceUnits, lost)
    OBVIOUS
<1>p8. PICK p8 : p8 =
        ServicesAdded(cca.oMultiServicesCC, lost)
    OBVIOUS
<1>p9. PICK p9 : p9 =
        CostsAdded(cca.poCostInfo, lost)
    OBVIOUS
<1>p10. PICK p10 : p10 =
        Always("LOW_BALANCE_INDICATION", cca.oLowBalanceIndication, lost)
    OBVIOUS
<1>p11. PICK p11 : p11 =
        BalancesAdded(cca.poRemainingBalance, lost)
    OBVIOUS
<1>p12. PICK p12 : p12 =
        IF cca.oCheckBalanceResult # OCS_NOT_USED
              THEN Always("CHECK_BALANCE_RESULT", cca.oCheckBalanceResult, lost) ELSE <<>>
    OBVIOUS
<1>t1. Part(Level2, p1, "SESSION_ID")
  <2>1. PICK a : a = Text("SESSION_ID", request.oSessionId)
      OBVIOUS
  <2>2. a \in Level2 /\ a.code = "SESSION_ID"
      BY <1>0, <1>1, <2>1, MadeOver DEF Level2, Text
  <2> QED
      BY <1>p1, <2>1, <2>2 DEF Part, Added
<1>t6. Part(Level2, p6, "SUB_SESSION_ID")
  <2>1. Part(Level2, Always("SUB_SESSION_ID", request.ullCCSubSessionId, lost), "SUB_SESSION_ID")
      BY <1>0, <1>1, MadeParts DEF Level2
  <2> QED
      BY <1>p6, <2>1 DEF Part, UsedSubSession
<1>t7. /\ Part(Level3, p7, "GRANTED_SERVICE_UNIT")
       /\ p7 # <<>> <=>
             cca.poGrantedServiceUnits # <<>> /\ <<"GRANTED_SERVICE_UNIT">> \notin lost
    BY <1>1, <1>p7, GrantsMapped
<1>t8. /\ Part(Level4, p8, "MULTIPLE_SERVICES_CREDIT_CONTROL")
       /\ p8 = IF /\ cca.oMultiServicesCC # <<>>
                  /\ <<"MULTIPLE_SERVICES_CREDIT_CONTROL">> \notin lost
               THEN <<OCF_CreatMultipleServiceCCAVP(cca.oMultiServicesCC[1],
                          Inside("MULTIPLE_SERVICES_CREDIT_CONTROL", lost))>>
               ELSE <<>>
    BY <1>1, <1>p8, ServicesMapped
<1>t9. /\ Part(Level2, p9, "COST_INFORMATION")
       /\ p9 # <<>> <=> cca.poCostInfo # <<>> /\ <<"COST_INFORMATION">> \notin lost
    BY <1>1, <1>p9, CostsMapped
<1>t11. /\ Part(Level2, p11, "REMAINING_BALANCE")
        /\ p11 # <<>> <=> cca.poRemainingBalance # <<>> /\ <<"REMAINING_BALANCE">> \notin lost
    BY <1>1, <1>p11, BalancesMapped
<1>t12. /\ Part(Level2, p12, "CHECK_BALANCE_RESULT")
        /\ p12 # <<>> <=> /\ cca.oCheckBalanceResult # OCS_NOT_USED
                          /\ <<"CHECK_BALANCE_RESULT">> \notin lost
  <2>1. PICK t : t = Always("CHECK_BALANCE_RESULT", cca.oCheckBalanceResult, lost)
      OBVIOUS
  <2>2. Part(Level2, t, "CHECK_BALANCE_RESULT")
      BY <1>0, <1>1, <2>1, MadeParts DEF Level2
  <2>3. t # <<>> <=> <<"CHECK_BALANCE_RESULT">> \notin lost
      BY <2>1 DEF Always, Added
  <2> QED
      BY <1>p12, <2>1, <2>2, <2>3 DEF Part
<1>q1. Part(Sending, p1, "SESSION_ID")
    BY <1>t1, PartsOfAnswers
<1>q2. Part(Sending, p2, "RESULT_CODE")
  <2>1. Part(Level2, p2, "RESULT_CODE")
      BY <1>0, <1>1, <1>p2, MadeParts DEF Level2
  <2> QED
      BY <2>1, PartsOfAnswers
<1>q3. Part(Sending, p3, "AUTH_APPLICATION_ID")
  <2>1. Part(Level2, p3, "AUTH_APPLICATION_ID")
      BY <1>0, <1>1, <1>p3, MadeParts DEF Level2
  <2> QED
      BY <2>1, PartsOfAnswers
<1>q4. Part(Sending, p4, "CC_REQUEST_TYPE")
  <2>1. Part(Level2, p4, "CC_REQUEST_TYPE")
      BY <1>0, <1>1, <1>p4, MadeParts DEF Level2
  <2> QED
      BY <2>1, PartsOfAnswers
<1>q5. Part(Sending, p5, "CC_REQUEST_NUMBER")
  <2>1. Part(Level2, p5, "CC_REQUEST_NUMBER")
      BY <1>0, <1>1, <1>p5, MadeParts DEF Level2
  <2> QED
      BY <2>1, PartsOfAnswers
<1>q6. Part(Sending, p6, "SUB_SESSION_ID")
    BY <1>t6, PartsOfAnswers
<1>q7. Part(Sending, p7, "GRANTED_SERVICE_UNIT")
    BY <1>t7, PartsOfAnswers
<1>q8. Part(Sending, p8, "MULTIPLE_SERVICES_CREDIT_CONTROL")
    BY <1>t8, PartsOfAnswers
<1>q9. Part(Sending, p9, "COST_INFORMATION")
    BY <1>t9, PartsOfAnswers
<1>q10. Part(Sending, p10, "LOW_BALANCE_INDICATION")
  <2>1. Part(Level2, p10, "LOW_BALANCE_INDICATION")
      BY <1>0, <1>1, <1>p10, MadeParts DEF Level2
  <2> QED
      BY <2>1, PartsOfAnswers
<1>q11. Part(Sending, p11, "REMAINING_BALANCE")
    BY <1>t11, PartsOfAnswers
<1>q12. Part(Sending, p12, "CHECK_BALANCE_RESULT")
    BY <1>t12, PartsOfAnswers
<1>j1. /\ p1 \in Seq(Sending)
      /\ Having(p1, "SESSION_ID") = p1
      /\ \A code : code # "SESSION_ID" => Having(p1, code) = <<>>
    BY <1>q1, Beginning
<1>m2. PICK m2 : m2 = p1 \o p2
    OBVIOUS
<1>j2. /\ m2 \in Seq(Sending)
      /\ Having(m2, "RESULT_CODE") = p2
      /\ \A code : code # "RESULT_CODE" => Having(m2, code) = Having(p1, code)
  <2>1. Having(p1, "RESULT_CODE") = <<>>
      BY <1>j1
  <2>2. p1 \in Seq(Sending)
      BY <1>j1
  <2>3. Joined(Sending, p1 \o p2, p1, p2, "RESULT_CODE")
      BY <1>q2, <2>1, <2>2, Joining
  <2> QED
      BY <1>m2, <2>3 DEF Joined
<1>m3. PICK m3 : m3 = m2 \o p3
    OBVIOUS
<1>j3. /\ m3 \in Seq(Sending)
      /\ Having(m3, "AUTH_APPLICATION_ID") = p3
      /\ \A code : code # "AUTH_APPLICATION_ID" => Having(m3, code) = Having(m2, code)
  <2>1. Having(m2, "AUTH_APPLICATION_ID") = <<>>
      BY <1>j1, <1>j2
  <2>2. m2 \in Seq(Sending)
      BY <1>j2
  <2>3. Joined(Sending, m2 \o p3, m2, p3, "AUTH_APPLICATION_ID")
      BY <1>q3, <2>1, <2>2, Joining
  <2> QED
      BY <1>m3, <2>3 DEF Joined
<1>m4. PICK m4 : m4 = m3 \o p4
    OBVIOUS
<1>j4. /\ m4 \in Seq(Sending)
      /\ Having(m4, "CC_REQUEST_TYPE") = p4
      /\ \A code : code # "CC_REQUEST_TYPE" => Having(m4, code) = Having(m3, code)
  <2>1. Having(m3, "CC_REQUEST_TYPE") = <<>>
      BY <1>j1, <1>j2, <1>j3
  <2>2. m3 \in Seq(Sending)
      BY <1>j3
  <2>3. Joined(Sending, m3 \o p4, m3, p4, "CC_REQUEST_TYPE")
      BY <1>q4, <2>1, <2>2, Joining
  <2> QED
      BY <1>m4, <2>3 DEF Joined
<1>s4. /\ \A code : code \notin {"SESSION_ID", "RESULT_CODE",
                                 "AUTH_APPLICATION_ID", "CC_REQUEST_TYPE"} =>
              Having(m4, code) = <<>>
       /\ Having(m4, "SESSION_ID") = p1
       /\ Having(m4, "CC_REQUEST_TYPE") = p4
    BY <1>j1, <1>j2, <1>j3, <1>j4
<1>m5. PICK m5 : m5 = m4 \o p5
    OBVIOUS
<1>j5. /\ m5 \in Seq(Sending)
      /\ Having(m5, "CC_REQUEST_NUMBER") = p5
      /\ \A code : code # "CC_REQUEST_NUMBER" => Having(m5, code) = Having(m4, code)
  <2>1. Having(m4, "CC_REQUEST_NUMBER") = <<>>
      BY <1>s4
  <2>2. m4 \in Seq(Sending)
      BY <1>j4
  <2>3. Joined(Sending, m4 \o p5, m4, p5, "CC_REQUEST_NUMBER")
      BY <1>q5, <2>1, <2>2, Joining
  <2> QED
      BY <1>m5, <2>3 DEF Joined
<1>m6. PICK m6 : m6 = m5 \o p6
    OBVIOUS
<1>j6. /\ m6 \in Seq(Sending)
      /\ Having(m6, "SUB_SESSION_ID") = p6
      /\ \A code : code # "SUB_SESSION_ID" => Having(m6, code) = Having(m5, code)
  <2>1. Having(m5, "SUB_SESSION_ID") = <<>>
      BY <1>s4, <1>j5
  <2>2. m5 \in Seq(Sending)
      BY <1>j5
  <2>3. Joined(Sending, m5 \o p6, m5, p6, "SUB_SESSION_ID")
      BY <1>q6, <2>1, <2>2, Joining
  <2> QED
      BY <1>m6, <2>3 DEF Joined
<1>m7. PICK m7 : m7 = m6 \o p7
    OBVIOUS
<1>j7. /\ m7 \in Seq(Sending)
      /\ Having(m7, "GRANTED_SERVICE_UNIT") = p7
      /\ \A code : code # "GRANTED_SERVICE_UNIT" => Having(m7, code) = Having(m6, code)
  <2>1. Having(m6, "GRANTED_SERVICE_UNIT") = <<>>
      BY <1>s4, <1>j5, <1>j6
  <2>2. m6 \in Seq(Sending)
      BY <1>j6
  <2>3. Joined(Sending, m6 \o p7, m6, p7, "GRANTED_SERVICE_UNIT")
      BY <1>q7, <2>1, <2>2, Joining
  <2> QED
      BY <1>m7, <2>3 DEF Joined
<1>m8. PICK m8 : m8 = m7 \o p8
    OBVIOUS
<1>j8. /\ m8 \in Seq(Sending)
      /\ Having(m8, "MULTIPLE_SERVICES_CREDIT_CONTROL") = p8
      /\ \A code : code # "MULTIPLE_SERVICES_CREDIT_CONTROL" =>
            Having(m8, code) = Having(m7, code)
  <2>1. Having(m7, "MULTIPLE_SERVICES_CREDIT_CONTROL") = <<>>
      BY <1>s4, <1>j5, <1>j6, <1>j7
  <2>2. m7 \in Seq(Sending)
      BY <1>j7
  <2>3. Joined(Sending, m7 \o p8, m7, p8, "MULTIPLE_SERVICES_CREDIT_CONTROL")
      BY <1>q8, <2>1, <2>2, Joining
  <2> QED
      BY <1>m8, <2>3 DEF Joined
<1>s8. /\ \A code : code \notin {"SESSION_ID", "RESULT_CODE",
                                 "AUTH_APPLICATION_ID", "CC_REQUEST_TYPE",
                                 "CC_REQUEST_NUMBER", "SUB_SESSION_ID",
                                 "GRANTED_SERVICE_UNIT",
                                 "MULTIPLE_SERVICES_CREDIT_CONTROL"} =>
              Having(m8, code) = <<>>
       /\ Having(m8, "SESSION_ID") = p1
       /\ Having(m8, "CC_REQUEST_TYPE") = p4
       /\ Having(m8, "CC_REQUEST_NUMBER") = p5
       /\ Having(m8, "SUB_SESSION_ID") = p6
       /\ Having(m8, "GRANTED_SERVICE_UNIT") = p7
       /\ Having(m8, "MULTIPLE_SERVICES_CREDIT_CONTROL") = p8
    BY <1>s4, <1>j5, <1>j6, <1>j7, <1>j8
<1>m9. PICK m9 : m9 = m8 \o p9
    OBVIOUS
<1>j9. /\ m9 \in Seq(Sending)
      /\ Having(m9, "COST_INFORMATION") = p9
      /\ \A code : code # "COST_INFORMATION" => Having(m9, code) = Having(m8, code)
  <2>1. Having(m8, "COST_INFORMATION") = <<>>
      BY <1>s8
  <2>2. m8 \in Seq(Sending)
      BY <1>j8
  <2>3. Joined(Sending, m8 \o p9, m8, p9, "COST_INFORMATION")
      BY <1>q9, <2>1, <2>2, Joining
  <2> QED
      BY <1>m9, <2>3 DEF Joined
<1>m10. PICK m10 : m10 = m9 \o p10
    OBVIOUS
<1>j10. /\ m10 \in Seq(Sending)
      /\ Having(m10, "LOW_BALANCE_INDICATION") = p10
      /\ \A code : code # "LOW_BALANCE_INDICATION" => Having(m10, code) = Having(m9, code)
  <2>1. Having(m9, "LOW_BALANCE_INDICATION") = <<>>
      BY <1>s8, <1>j9
  <2>2. m9 \in Seq(Sending)
      BY <1>j9
  <2>3. Joined(Sending, m9 \o p10, m9, p10, "LOW_BALANCE_INDICATION")
      BY <1>q10, <2>1, <2>2, Joining
  <2> QED
      BY <1>m10, <2>3 DEF Joined
<1>m11. PICK m11 : m11 = m10 \o p11
    OBVIOUS
<1>j11. /\ m11 \in Seq(Sending)
      /\ Having(m11, "REMAINING_BALANCE") = p11
      /\ \A code : code # "REMAINING_BALANCE" => Having(m11, code) = Having(m10, code)
  <2>1. Having(m10, "REMAINING_BALANCE") = <<>>
      BY <1>s8, <1>j9, <1>j10
  <2>2. m10 \in Seq(Sending)
      BY <1>j10
  <2>3. Joined(Sending, m10 \o p11, m10, p11, "REMAINING_BALANCE")
      BY <1>q11, <2>1, <2>2, Joining
  <2> QED
      BY <1>m11, <2>3 DEF Joined
<1>m12. PICK m12 : m12 = m11 \o p12
    OBVIOUS
<1>j12. /\ m12 \in Seq(Sending)
      /\ Having(m12, "CHECK_BALANCE_RESULT") = p12
      /\ \A code : code # "CHECK_BALANCE_RESULT" => Having(m12, code) = Having(m11, code)
  <2>1. Having(m11, "CHECK_BALANCE_RESULT") = <<>>
      BY <1>s8, <1>j9, <1>j10, <1>j11
  <2>2. m11 \in Seq(Sending)
      BY <1>j11
  <2>3. Joined(Sending, m11 \o p12, m11, p12, "CHECK_BALANCE_RESULT")
      BY <1>q12, <2>1, <2>2, Joining
  <2> QED
      BY <1>m12, <2>3 DEF Joined
<1>2. /\ Having(m12, "SESSION_ID") = p1
      /\ Having(m12, "CC_REQUEST_TYPE") = p4
      /\ Having(m12, "CC_REQUEST_NUMBER") = p5
      /\ Having(m12, "SUB_SESSION_ID") = p6
      /\ Having(m12, "GRANTED_SERVICE_UNIT") = p7
      /\ Having(m12, "MULTIPLE_SERVICES_CREDIT_CONTROL") = p8
      /\ Having(m12, "COST_INFORMATION") = p9
      /\ Having(m12, "REMAINING_BALANCE") = p11
      /\ Having(m12, "CHECK_BALANCE_RESULT") = p12
    BY <1>s8, <1>j9, <1>j10, <1>j11, <1>j12
<1>3. OCF_CreatCCADiamMsg(request, cca, lost) = m12
    BY <1>p1, <1>p2, <1>p3, <1>p4, <1>p5, <1>p6, <1>p7, <1>p8, <1>p9, <1>p10, <1>p11, <1>p12,
       <1>m2, <1>m3, <1>m4, <1>m5, <1>m6, <1>m7, <1>m8, <1>m9, <1>m10, <1>m11, <1>m12
       DEF OCF_CreatCCADiamMsg
<1>4. SaysOf(m12, request, cca, lost)
    BY <1>2, <1>p1, <1>p4, <1>p5, <1>p6, <1>t7, <1>t8, <1>t9, <1>t11, <1>t12 DEF SaysOf
<1> QED
    BY <1>3, <1>4

-----------------------------------------------------------------------------
(* What the handlers fill in *)

\* None or one.
LEMMA FewElements ==
    ASSUME NEW S
    PROVE  <<>> \in AtMostOne(S) /\ \A x \in S : <<x>> \in AtMostOne(S)
BY DEF AtMostOne

\* The first service of a request, also of one that has none.
LEMMA FirstServiceType ==
    ASSUME NEW m \in CCRs
    PROVE  /\ FirstService(m) \in Services
           /\ FirstService(m).unServiceId \in Int
           /\ FirstService(m).unRatingGroup \in Int
           /\ FirstService(m).oReqServiceUnit \in Units
<1>1. FirstService(m) \in Services
  <2>1. m.oMultiServicesCC \in Seq(Services)
      BY DEF CCRs
  <2>2. CASE m.oMultiServicesCC = <<>>
    <3>1. <<>> \in Seq(UsedUnits)
        OBVIOUS
    <3> QED
        BY <2>2, <3>1, FreshUnits DEF FirstService, RequestedService, Services
  <2>3. CASE m.oMultiServicesCC # <<>>
      BY <2>1, <2>3 DEF FirstService
  <2> QED
      BY <2>2, <2>3
<1> QED
    BY <1>1 DEF Services

\* Amounts that the code writes down.
LEMMA MoneyTypes ==
    /\ CCMoney \in Moneys
    /\ RemainingBalance \in Moneys
    /\ \A n \in Int : Rupees(n) \in Moneys
    /\ CostInformation \in CostInformations
BY DEF CCMoney, RemainingBalance, Rupees, CostInformation, Moneys, UnitValue, UnitValues,
       CostInformations

\* Cleared units, with and without money.
LEMMA BlankUnits ==
    /\ GrantedServiceUnit \in GrantedUnits
    /\ \A m \in Moneys : [GrantedServiceUnit EXCEPT !.oCCMoney = m] \in GrantedUnits
BY MoneyTypes DEF GrantedServiceUnit, GrantedUnits

\* A cleared answer.
LEMMA BlankAnswer ==
    /\ CCA \in CCAs
    /\ CCA.poGrantedServiceUnits = <<>> /\ CCA.oMultiServicesCC = <<>>
    /\ CCA.poCostInfo = <<>> /\ CCA.poRemainingBalance = <<>>
<1>1. /\ <<>> \in AtMostOne(AnsweredServices) /\ <<>> \in AtMostOne(CostInformations)
      /\ <<>> \in AtMostOne(Moneys) /\ <<>> \in AtMostOne(GrantedUnits)
    BY FewElements
<1> QED
    BY <1>1 DEF CCA, CCAs

\* A service is answered under the number it was asked by.
LEMMA AnsweredFirstType ==
    ASSUME NEW m \in CCRs, NEW code \in Int
    PROVE  /\ AnsweredFirst(m, code) \in AnsweredServices
           /\ AnsweredFirst(m, code).unServiceId = FirstService(m).unServiceId
           /\ AnsweredFirst(m, code).poGrantedServiceUnits = <<>>
<1>1. FirstService(m).unServiceId \in Int /\ FirstService(m).unRatingGroup \in Int
    BY FirstServiceType
<1>2. PICK s : s = AnsweredService
    OBVIOUS
<1>3. s \in AnsweredServices /\ s.poGrantedServiceUnits = <<>>
  <2>1. <<>> \in AtMostOne(GrantedUnits)
      BY FewElements
  <2> QED
      BY <1>2, <2>1 DEF AnsweredService, AnsweredServices
<1>4. AnsweredFirst(m, code) =
          [s EXCEPT !.unServiceId = FirstService(m).unServiceId,
                    !.unRatingGroup = FirstService(m).unRatingGroup,
                    !.unResultCode = code]
    BY <1>2 DEF AnsweredFirst
<1> QED
    BY <1>1, <1>3, <1>4 DEF AnsweredServices

\* The balance of a response can be sent.
Balanced(a) == a.oRemainingBalance \in Moneys /\ a.oLowBalanceIndication \in Int

\* A successful answer shows the service and the balance it is given.
LEMMA SuccessType ==
    ASSUME NEW s \in AnsweredServices, NEW a, Balanced(a)
    PROVE  /\ Success(s, a) \in CCAs
           /\ Success(s, a).oMultiServicesCC = <<s>>
           /\ Success(s, a).poGrantedServiceUnits = <<>>
<1>1. PICK c : c = CCA
    OBVIOUS
<1>2. c \in CCAs /\ c.poGrantedServiceUnits = <<>>
    BY <1>1, BlankAnswer
<1>3. /\ <<s>> \in AtMostOne(AnsweredServices)
      /\ <<a.oRemainingBalance>> \in AtMostOne(Moneys)
      /\ a.oLowBalanceIndication \in Int
      /\ DIAMETER_SUCCESS \in Int /\ OCS_NOT_USED \in Int
    BY FewElements DEF Balanced, DIAMETER_SUCCESS, OCS_NOT_USED
<1>4. Success(s, a) =
          [c EXCEPT !.unResultCode = DIAMETER_SUCCESS,
                    !.oMultiServicesCC = <<s>>,
                    !.poRemainingBalance = <<a.oRemainingBalance>>,
                    !.oLowBalanceIndication = a.oLowBalanceIndication,
                    !.oCheckBalanceResult = OCS_NOT_USED]
    BY <1>1 DEF Success
<1> QED
    BY <1>2, <1>3, <1>4 DEF CCAs

\* A granted service has the units it is given.
LEMMA QuotaType ==
    ASSUME NEW m \in CCRs, NEW units \in GrantedUnits, NEW expiry \in Int
    PROVE  /\ GrantedQuota(m, units, expiry) \in AnsweredServices
           /\ GrantedQuota(m, units, expiry).unServiceId = FirstService(m).unServiceId
           /\ GrantedQuota(m, units, expiry).poGrantedServiceUnits = <<units>>
<1>1. PICK s : s = AnsweredFirst(m, DIAMETER_SUCCESS)
    OBVIOUS
<1>2. s \in AnsweredServices /\ s.unServiceId = FirstService(m).unServiceId
    BY <1>1, AnsweredFirstType DEF DIAMETER_SUCCESS
<1>3. GrantedQuota(m, units, expiry) =
          [s EXCEPT !.unValidityTime = expiry, !.poGrantedServiceUnits = <<units>>]
    BY <1>1 DEF GrantedQuota
<1> QED
    BY <1>2, <1>3 DEF AnsweredServices, AtMostOne

\* The response to a price request.
LEMMA PriceResponseType ==
    ASSUME NEW m \in CCRs, NEW subType
    PROVE  LET a == OCSDB_PriceResponse(OCF_PopulatePriceRequest(m, subType))
           IN /\ a.oRequestSubType = subType
              /\ a.unRatingFuncResultCode \in Int /\ a.unExpiryTime \in Int
              /\ a.oGrantedServiceUnit \in GrantedUnits
              /\ subType = "Reservation" =>
                    a.oGrantedServiceUnit =
                        [GrantedServiceUnit EXCEPT
                            !.oCCMoney = FirstService(m).oReqServiceUnit.oCCMoney]
              /\ a.oCostInfo \in CostInformations
              /\ a.oCheckBalanceResult = 0
              /\ Balanced(a)
<1>1. PICK p : p = OCF_PopulatePriceRequest(m, subType)
    OBVIOUS
<1>2. /\ p.oRequestSubType = subType
      /\ subType = "Reservation" => p.oReqServiceUnit = FirstService(m).oReqServiceUnit
      /\ subType = "Reservation" => p.oReqServiceUnit.oCCMoney \in Moneys
  <2>1. subType = "Reservation" => RequestedUnits(m, subType) = FirstService(m).oReqServiceUnit
      BY DEF RequestedUnits
  <2>2. FirstService(m).oReqServiceUnit.oCCMoney \in Moneys
      BY FirstServiceType DEF Units
  <2> QED
      BY <1>1, <2>1, <2>2 DEF OCF_PopulatePriceRequest
<1>3. PICK money \in Moneys :
          /\ money = CASE subType = "Reservation" -> p.oReqServiceUnit.oCCMoney
                       [] subType = "Direct_Debiting" -> Rupees(50)
                       [] OTHER -> CCMoney
  <2>1. CASE subType = "Reservation"
      BY <1>2, <2>1
  <2>2. CASE subType = "Direct_Debiting"
      BY <2>2, MoneyTypes
  <2>3. CASE subType \notin {"Reservation", "Direct_Debiting"}
      BY <2>3, MoneyTypes
  <2> QED
      BY <2>1, <2>2, <2>3
<1>4. PICK cost \in CostInformations :
          cost = IF subType \in {"Refund_Account", "Price_Enquiry"}
                 THEN [oUnitValue |-> Rupees(50).oUnitValue, unCurrencyCode |-> 1,
                       oCostUnit |-> <<"R", "s", ".">>]
                 ELSE CostInformation
  <2>1. Rupees(50).oUnitValue \in UnitValues
      BY MoneyTypes DEF Moneys
  <2>2. [oUnitValue |-> Rupees(50).oUnitValue, unCurrencyCode |-> 1,
         oCostUnit |-> <<"R", "s", ".">>] \in CostInformations
      BY <2>1 DEF CostInformations
  <2> QED
      BY <2>2, MoneyTypes
<1>5. PICK a : a = OCSDB_PriceResponse(p)
    OBVIOUS
<1>6. /\ a.oRequestSubType = subType
      /\ a.unRatingFuncResultCode = 10 /\ a.unExpiryTime = 0
      /\ a.oGrantedServiceUnit = [GrantedServiceUnit EXCEPT !.oCCMoney = money]
      /\ a.oCostInfo = cost
      /\ a.oCheckBalanceResult = 0
      /\ a.oRemainingBalance = Balance /\ a.oLowBalanceIndication = 0
    BY <1>2, <1>3, <1>4, <1>5 DEF OCSDB_PriceResponse
<1>7. Balanced(a)
    BY <1>6, MoneyTypes DEF Balanced, Balance
<1>8. a.oGrantedServiceUnit \in GrantedUnits
    BY <1>6, BlankUnits
<1>9. subType = "Reservation" => money = FirstService(m).oReqServiceUnit.oCCMoney
    BY <1>2, <1>3
<1> QED
    BY <1>1, <1>5, <1>6, <1>7, <1>8, <1>9

\* The responses to a tariff request: the quota of the database, or none.
LEMMA TariffResponseType ==
    ASSUME NEW a \in OCSDB_TariffResponses
    PROVE  /\ Balanced(a) /\ a.unExpiryTime \in Int
           /\ TariffUnits(a) \in GrantedUnits
           /\ \E quota \in TariffQuota \cup {[units |-> 0, price |-> 0]} :
                 /\ quota \in [units : Int, price : Int]
                 /\ TariffUnits(a) =
                     [GrantedServiceUnit EXCEPT !.unCCTime = Unsigned(quota.units),
                                                !.oCCMoney = Rupees(Unsigned(quota.price))]
<1>1. PICK quota \in TariffQuota \cup {[units |-> 0, price |-> 0]} :
          /\ quota \in [units : Int, price : Int]
          /\ a.unValidUnits = Unsigned(quota.units)
          /\ a.unPrice = Unsigned(quota.price)
          /\ a.oRemainingBalance = Balance /\ a.oLowBalanceIndication = 0
          /\ a.unExpiryTime \in Int
  <2>1. ASSUME NEW quota \in TariffQuota, a = TariffGrant(quota)
        PROVE  /\ quota \in [units : Int, price : Int]
               /\ a.unValidUnits = Unsigned(quota.units)
               /\ a.unPrice = Unsigned(quota.price)
               /\ a.oRemainingBalance = Balance /\ a.oLowBalanceIndication = 0
               /\ a.unExpiryTime \in Int
      BY <2>1, QuotaAssumption DEF TariffGrant
  <2>2. CASE a = BlankTariff
    <3>1. PICK quota : quota = [units |-> 0, price |-> 0]
        OBVIOUS
    <3>2. /\ quota \in [units : Int, price : Int]
          /\ a.unValidUnits = Unsigned(quota.units)
          /\ a.unPrice = Unsigned(quota.price)
          /\ a.oRemainingBalance = Balance /\ a.oLowBalanceIndication = 0
          /\ a.unExpiryTime \in Int
        BY <2>2, <3>1 DEF BlankTariff, TariffGrant
    <3> QED
        BY <3>1, <3>2
  <2> QED
      BY <2>1, <2>2 DEF OCSDB_TariffResponses
<1>2. Balanced(a)
    BY <1>1, MoneyTypes DEF Balanced, Balance
<1>3. /\ Unsigned(quota.units) \in Int /\ Unsigned(quota.price) \in Int
      /\ Rupees(Unsigned(quota.price)) \in Moneys
  <2>1. 0 .. MaxUnsigned \subseteq Int
      OBVIOUS
  <2>2. quota.units \in Int /\ quota.price \in Int
      BY <1>1
  <2> QED
      BY <2>1, <2>2, UnsignedType, MoneyTypes
<1>4. /\ TariffUnits(a) =
             [GrantedServiceUnit EXCEPT !.unCCTime = Unsigned(quota.units),
                                        !.oCCMoney = Rupees(Unsigned(quota.price))]
      /\ TariffUnits(a) \in GrantedUnits
  <2>1. PICK g : g = GrantedServiceUnit
      OBVIOUS
  <2>2. /\ g \in GrantedUnits
        /\ g.oCCMoney \in Moneys /\ g.oCCMoney.oUnitValue \in UnitValues
        /\ g.oCCMoney.oUnitValue.nExponent = 0
    <3>1. g \in GrantedUnits /\ g.oCCMoney = CCMoney
        BY <2>1, BlankUnits DEF GrantedServiceUnit
    <3>2. CCMoney.oUnitValue.nExponent = 0
        BY DEF CCMoney, UnitValue
    <3> QED
        BY <3>1, <3>2, MoneyTypes DEF Moneys
  <2>3. PICK price \in Int : price = Unsigned(quota.price)
      BY <1>1, <1>3
  <2>v. PICK u : u = [g.oCCMoney.oUnitValue EXCEPT !.llValueDigits = price]
      OBVIOUS
  <2>u. u \in UnitValues /\ u.llValueDigits = price /\ u.nExponent = 0
      BY <2>2, <2>3, <2>v DEF UnitValues
  <2>4. PICK money : money = [g.oCCMoney EXCEPT !.oUnitValue = u, !.unCurrencyCode = 1]
      OBVIOUS
  <2>5. money \in Moneys /\ money = Rupees(price)
    <3>1. /\ money \in Moneys
          /\ money.unCurrencyCode = 1
          /\ money.oUnitValue.llValueDigits = price
          /\ money.oUnitValue.nExponent = 0
      <4>1. PICK c : c = g.oCCMoney
          OBVIOUS
      <4>o. PICK one \in Int : one = 1
          OBVIOUS
      <4>2. c \in Moneys /\ money = [c EXCEPT !.oUnitValue = u, !.unCurrencyCode = one]
          BY <2>2, <2>4, <4>1, <4>o
      <4>3. u \in UnitValues
          BY <2>u
      <4>4. money \in Moneys /\ money.unCurrencyCode = one /\ money.oUnitValue = u
          BY <4>2, <4>3 DEF Moneys
      <4> QED
          BY <2>u, <4>4, <4>o
    <3>2. /\ Rupees(price) \in Moneys
          /\ Rupees(price).unCurrencyCode = 1
          /\ Rupees(price).oUnitValue.llValueDigits = price
          /\ Rupees(price).oUnitValue.nExponent = 0
        BY <2>3, MoneyTypes DEF Rupees, UnitValue
    <3>3. PICK r : r = Rupees(price)
        OBVIOUS
    <3>4. r.oUnitValue = money.oUnitValue
        BY <3>1, <3>2, <3>3 DEF Moneys, UnitValues
    <3> QED
        BY <3>1, <3>2, <3>3, <3>4 DEF Moneys
  <2>6. PICK t : t = [g EXCEPT !.unCCTime = Unsigned(quota.units), !.oCCMoney = money]
      OBVIOUS
  <2>7. t \in GrantedUnits
      BY <1>3, <2>2, <2>5, <2>6 DEF GrantedUnits
  <2>8. TariffUnits(a) = t
    <3>1. TariffUnits(a) = [g EXCEPT !.unCCTime = Unsigned(quota.units),
                                     !.oCCMoney.oUnitValue.llValueDigits = price,
                                     !.oCCMoney.unCurrencyCode = 1]
        BY <1>1, <2>1, <2>3 DEF TariffUnits
    <3> QED
        BY <2>2, <2>v, <2>4, <2>6, <3>1 DEF GrantedUnits, Moneys
  <2> QED
      BY <2>1, <2>3, <2>5, <2>6, <2>7, <2>8
<1> QED
    BY <1>1, <1>2, <1>4

\* A response that is read as one of the other kind has a balance.
LEMMA MisreadType ==
    ASSUME NEW a \in Misread
    PROVE  Balanced(a)
BY MoneyTypes DEF Misread, Balanced

\* A refusal of an Update or a Terminate grants nothing.
LEMMA RefusalTypes ==
    ASSUME NEW m \in CCRs, NEW charging
    PROVE  /\ Refusal(m, charging) \in CCAs
           /\ Refusal(m, charging).poGrantedServiceUnits = <<>>
           /\ Refusal(m, charging).poCostInfo = <<>>
           /\ Refusal(m, charging).poRemainingBalance = <<>>
           /\ \/ Refusal(m, charging).oMultiServicesCC = <<>>
              \/ Refusal(m, charging).oMultiServicesCC =
                     <<AnsweredFirst(m, DIAMETER_RATING_FAILED)>>
<1>1. PICK s \in AnsweredServices : s = AnsweredFirst(m, DIAMETER_RATING_FAILED)
    BY AnsweredFirstType DEF DIAMETER_RATING_FAILED
<1>2. PICK c : c = CCA
    OBVIOUS
<1>3. /\ c \in CCAs
      /\ c.poGrantedServiceUnits = <<>> /\ c.oMultiServicesCC = <<>>
      /\ c.poCostInfo = <<>> /\ c.poRemainingBalance = <<>>
    BY <1>2, BlankAnswer
<1>4. CASE charging = "SCUR"
  <2>1. Refusal(m, charging) = [c EXCEPT !.unResultCode = DIAMETER_RATING_FAILED,
                                         !.oMultiServicesCC = <<s>>]
      BY <1>1, <1>2, <1>4 DEF Refusal
  <2>2. <<s>> \in AtMostOne(AnsweredServices) /\ DIAMETER_RATING_FAILED \in Int
      BY FewElements DEF DIAMETER_RATING_FAILED
  <2> QED
      BY <1>1, <1>3, <2>1, <2>2 DEF CCAs
<1>5. CASE charging # "SCUR"
    BY <1>2, <1>3, <1>5 DEF Refusal
<1> QED
    BY <1>4, <1>5

\* A refusal of an Initial is an answer, whatever the stack held.
LEMMA RefusedInitialTypes ==
    ASSUME NEW m \in CCRs, NEW charging, NEW cca \in RefusedInitials(m, charging)
    PROVE  /\ cca \in CCAs
           /\ \/ cca.oMultiServicesCC = <<>>
              \/ cca.oMultiServicesCC = <<AnsweredFirst(m, DIAMETER_RATING_FAILED)>>
<1>1. PICK s \in AnsweredServices : s = AnsweredFirst(m, DIAMETER_RATING_FAILED)
    BY AnsweredFirstType DEF DIAMETER_RATING_FAILED
<1>2. PICK Stray : Stray =
          [unResultCode : {0, 1}, oMultiServicesCC : {<<>>},
           poCostInfo : {<<>>, <<CostInformation>>},
           oLowBalanceIndication : {0},
           poRemainingBalance : {<<>>, <<RemainingBalance>>},
           oCheckBalanceResult : {0, OCS_NOT_USED},
           poGrantedServiceUnits : {<<>>, <<GrantedServiceUnit>>}]
    OBVIOUS
<1>3. ASSUME NEW x \in Stray
      PROVE  /\ x \in CCAs /\ x.oMultiServicesCC = <<>>
             /\ [x EXCEPT !.unResultCode = DIAMETER_RATING_FAILED,
                          !.oMultiServicesCC = <<s>>] \in CCAs
             /\ [x EXCEPT !.unResultCode = DIAMETER_RATING_FAILED,
                          !.oMultiServicesCC = <<s>>].oMultiServicesCC = <<s>>
  <2>1. x \in CCAs /\ x.oMultiServicesCC = <<>>
      BY <1>2, MoneyTypes, BlankUnits DEF CCAs, AtMostOne, OCS_NOT_USED
  <2> QED
    <3>1. <<s>> \in AtMostOne(AnsweredServices)
        BY FewElements
    <3>2. PICK y : y = [x EXCEPT !.unResultCode = DIAMETER_RATING_FAILED,
                                 !.oMultiServicesCC = <<s>>]
        OBVIOUS
    <3>4. y \in CCAs /\ y.oMultiServicesCC = <<s>>
      <4>1. DIAMETER_RATING_FAILED \in Int
          BY DEF DIAMETER_RATING_FAILED
      <4> QED
          BY <2>1, <3>1, <3>2, <4>1 DEF CCAs
    <3> QED
        BY <2>1, <3>2, <3>4
<1>4. cca \in Stray \/ \E x \in Stray :
          cca = [x EXCEPT !.unResultCode = DIAMETER_RATING_FAILED, !.oMultiServicesCC = <<s>>]
    BY <1>1, <1>2 DEF RefusedInitials
<1> QED
    BY <1>1, <1>3, <1>4

\* What an Event is answered by, for each action.
LEMMA EventType ==
    ASSUME NEW m \in CCRs, NEW a, a.oGrantedServiceUnit \in GrantedUnits,
           a.oCostInfo \in CostInformations, a.oCheckBalanceResult = 0,
           a.unRatingFuncResultCode \in Int, Balanced(a)
    PROVE  LET cca == GrantedEvent(m, a)
               own == m.unServiceId # OCS_UNSUED_VALUE
               subType == a.oRequestSubType
           IN /\ cca \in CCAs
              /\ own => /\ cca.oMultiServicesCC = <<>>
                        /\ cca.poGrantedServiceUnits = <<>> <=> subType # "Direct_Debiting"
              /\ ~own => /\ cca.poGrantedServiceUnits = <<>>
                         /\ \E s \in AnsweredServices :
                               /\ cca.oMultiServicesCC = <<s>>
                               /\ s.unServiceId = FirstService(m).unServiceId
                               /\ s.poGrantedServiceUnits = <<>> <=>
                                      subType # "Direct_Debiting"
              /\ cca.poCostInfo = <<>> <=> subType \notin {"Refund_Account", "Price_Enquiry"}
              /\ cca.oCheckBalanceResult = OCS_NOT_USED <=> subType # "Check_Balance"
<1> DEFINE subType == a.oRequestSubType
           own == m.unServiceId # OCS_UNSUED_VALUE
<1>1. PICK code \in Int : code = a.unRatingFuncResultCode
    OBVIOUS
<1>u. PICK units \in AtMostOne(GrantedUnits) :
          units = IF subType = "Direct_Debiting" THEN <<a.oGrantedServiceUnit>> ELSE <<>>
    BY FewElements
<1>2. /\ units = IF subType = "Direct_Debiting" THEN <<a.oGrantedServiceUnit>> ELSE <<>>
      /\ units = <<>> <=> subType # "Direct_Debiting"
      /\ units \in AtMostOne(GrantedUnits)
    BY <1>u
<1>3. PICK f : f = AnsweredFirst(m, code)
    OBVIOUS
<1>4. f \in AnsweredServices /\ f.unServiceId = FirstService(m).unServiceId
    BY <1>1, <1>3, AnsweredFirstType
<1>5. PICK s : s = [f EXCEPT !.poGrantedServiceUnits = units]
    OBVIOUS
<1>6. /\ s \in AnsweredServices
      /\ s.unServiceId = FirstService(m).unServiceId /\ s.poGrantedServiceUnits = units
    BY <1>2, <1>4, <1>5 DEF AnsweredServices
<1>7. PICK c : c = Success(s, a)
    OBVIOUS
<1>8. /\ c \in CCAs /\ c.oMultiServicesCC = <<s>>
      /\ c.oCheckBalanceResult = OCS_NOT_USED
      /\ c.unResultCode \in Int
  <2>1. c.oCheckBalanceResult = OCS_NOT_USED
      BY <1>7 DEF Success, CCA
  <2> QED
      BY <1>6, <1>7, <2>1, SuccessType DEF CCAs
<1>9. PICK result \in Int : result = IF own THEN code ELSE c.unResultCode
    BY <1>1, <1>8
<1>10. PICK services \in AtMostOne(AnsweredServices) :
           services = IF own THEN <<>> ELSE c.oMultiServicesCC
    BY <1>6, <1>8, FewElements
<1>11. PICK direct \in AtMostOne(GrantedUnits) : direct = IF own THEN units ELSE <<>>
    BY <1>2, FewElements
<1>12. PICK cost \in AtMostOne(CostInformations) :
           cost = IF subType \in {"Refund_Account", "Price_Enquiry"}
                  THEN <<a.oCostInfo>> ELSE <<>>
    BY FewElements
<1>13. PICK check \in Int :
           /\ check = IF subType = "Check_Balance" THEN a.oCheckBalanceResult
                                                   ELSE c.oCheckBalanceResult
           /\ check = OCS_NOT_USED <=> subType # "Check_Balance"
  <2>1. OCS_NOT_USED \in Int /\ OCS_NOT_USED # 0
      BY DEF OCS_NOT_USED
  <2> QED
      BY <1>8, <2>1
<1>14. PICK z : z = [c EXCEPT !.unResultCode = result, !.oMultiServicesCC = services,
                              !.poGrantedServiceUnits = direct, !.poCostInfo = cost,
                              !.oCheckBalanceResult = check]
    OBVIOUS
<1>15. /\ z \in CCAs /\ z.oMultiServicesCC = services /\ z.poGrantedServiceUnits = direct
       /\ z.poCostInfo = cost /\ z.oCheckBalanceResult = check
    BY <1>8, <1>9, <1>10, <1>11, <1>12, <1>13, <1>14 DEF CCAs
<1>16. GrantedEvent(m, a) = z
  <2>1. GrantedEvent(m, a) =
            [c EXCEPT !.unResultCode = IF own THEN code ELSE @,
                      !.oMultiServicesCC = IF own THEN <<>> ELSE @,
                      !.poGrantedServiceUnits = IF own THEN units ELSE <<>>,
                      !.poCostInfo = IF subType \in {"Refund_Account", "Price_Enquiry"}
                                     THEN <<a.oCostInfo>> ELSE <<>>,
                      !.oCheckBalanceResult = IF subType = "Check_Balance"
                                              THEN a.oCheckBalanceResult ELSE @]
      BY <1>1, <1>2, <1>3, <1>5, <1>7 DEF GrantedEvent
  <2> QED
      BY <1>9, <1>10, <1>11, <1>12, <1>13, <1>14, <2>1
<1>17. cost = <<>> <=> subType \notin {"Refund_Account", "Price_Enquiry"}
    BY <1>12
<1>18. own => services = <<>> /\ direct = units
    BY <1>10, <1>11
<1>19. ~own => services = <<s>> /\ direct = <<>>
    BY <1>8, <1>10, <1>11
<1> QED
    BY <1>2, <1>6, <1>13, <1>15, <1>16, <1>17, <1>18, <1>19

-----------------------------------------------------------------------------
(* The contents of an answer *)

\* The units that are granted to q in a session.
UnitsFor(q, units) ==
    IF RatingKind(ccr[q]) = "Price"
    THEN units = [GrantedServiceUnit EXCEPT
                     !.oCCMoney = FirstService(CCROf(q)).oReqServiceUnit.oCCMoney]
    ELSE \E quota \in TariffQuota \cup {[units |-> 0, price |-> 0]} :
            /\ quota \in [units : Int, price : Int]
            /\ units = [GrantedServiceUnit EXCEPT !.unCCTime = Unsigned(quota.units),
                                                  !.oCCMoney = Rupees(Unsigned(quota.price))]

\* The rating request of a request that is charged per event.
LEMMA AskedPrice ==
    ASSUME NEW q, AskedOwn(q), RatingKind(ccr[q]) = "Price"
    PROVE  asked[q][1] = OCF_PopulatePriceRequest(CCROf(q), SubTypeOf(CCROf(q), ccr[q].type))
BY DEF AskedOwn, RatingRequest, CCROf

\* The rating request of a request that is charged by a tariff.
LEMMA AskedTariff ==
    ASSUME NEW q, AskedOwn(q), RatingKind(ccr[q]) # "Price"
    PROVE  asked[q][1] = OCF_CreateTariffRequest(CCROf(q), SubTypeOf(CCROf(q), ccr[q].type))
BY DEF AskedOwn, RatingRequest, CCROf

\* The price response to a request is made of its own rating request.
LEMMA PriceResponseTo ==
    ASSUME NEW q, AskedOwn(q), RatingKind(ccr[q]) = "Price", NEW a \in Responses(q, "Price")
    PROVE  a = OCSDB_PriceResponse(OCF_PopulatePriceRequest(CCROf(q),
                                       SubTypeOf(CCROf(q), ccr[q].type)))
BY AskedPrice DEF Responses

\* Every response has a balance, however it is read.
LEMMA AnyResponseIsBalanced ==
    ASSUME NEW q, AskedOwn(q), CCROf(q) \in CCRs, NEW kind \in {"Price", "Tariff"},
           NEW a \in Responses(q, kind)
    PROVE  Balanced(a)
<1>1. CASE RatingKind(ccr[q]) # kind
    BY <1>1, MisreadType DEF Responses
<1>2. CASE RatingKind(ccr[q]) = kind /\ kind = "Price"
    BY <1>2, PriceResponseTo, PriceResponseType
<1>3. CASE RatingKind(ccr[q]) = kind /\ kind = "Tariff"
  <2>1. a \in OCSDB_TariffResponses
      BY <1>3 DEF Responses
  <2> QED
      BY <2>1, TariffResponseType
<1> QED
    BY <1>1, <1>2, <1>3

\* A grant of a session.
LEMMA SessionGrant ==
    ASSUME NEW q, AskedOwn(q), CCROf(q) \in CCRs, NEW cca, GrantsOf(q, cca),
           ccr[q].type \in {"INITIAL", "UPDATE"}
    PROVE  /\ cca \in CCAs
           /\ cca.poGrantedServiceUnits = <<>>
           /\ \E s \in AnsweredServices : \E units \in GrantedUnits :
                 /\ cca.oMultiServicesCC = <<s>>
                 /\ s.unServiceId = FirstService(CCROf(q)).unServiceId
                 /\ s.poGrantedServiceUnits = <<units>>
                 /\ UnitsFor(q, units)
<1>1. ASSUME NEW units \in GrantedUnits, UnitsFor(q, units), NEW expiry \in Int,
             NEW a, Balanced(a), cca = Success(GrantedQuota(CCROf(q), units, expiry), a)
      PROVE  /\ cca \in CCAs
             /\ cca.poGrantedServiceUnits = <<>>
             /\ \E s \in AnsweredServices : \E u \in GrantedUnits :
                   /\ cca.oMultiServicesCC = <<s>>
                   /\ s.unServiceId = FirstService(CCROf(q)).unServiceId
                   /\ s.poGrantedServiceUnits = <<u>>
                   /\ UnitsFor(q, u)
  <2>1. PICK s : s = GrantedQuota(CCROf(q), units, expiry)
      OBVIOUS
  <2>2. /\ s \in AnsweredServices
        /\ s.unServiceId = FirstService(CCROf(q)).unServiceId
        /\ s.poGrantedServiceUnits = <<units>>
      BY <2>1, QuotaType
  <2>3. cca = Success(s, a)
      BY <1>1, <2>1
  <2>4. cca \in CCAs /\ cca.poGrantedServiceUnits = <<>> /\ cca.oMultiServicesCC = <<s>>
      BY <1>1, <2>2, <2>3, SuccessType
  <2> QED
      BY <1>1, <2>2, <2>4
<1>2. ASSUME NEW a \in Responses(q, "Tariff"), RatingKind(ccr[q]) = "Tariff"
      PROVE  /\ TariffUnits(a) \in GrantedUnits /\ UnitsFor(q, TariffUnits(a))
             /\ Balanced(a) /\ a.unExpiryTime \in Int
  <2>1. a \in OCSDB_TariffResponses
      BY <1>2 DEF Responses
  <2>2. \E quota \in TariffQuota \cup {[units |-> 0, price |-> 0]} :
            /\ quota \in [units : Int, price : Int]
            /\ TariffUnits(a) =
                  [GrantedServiceUnit EXCEPT !.unCCTime = Unsigned(quota.units),
                                             !.oCCMoney = Rupees(Unsigned(quota.price))]
      BY <2>1, TariffResponseType
  <2>3. UnitsFor(q, TariffUnits(a))
      BY <1>2, <2>2 DEF UnitsFor
  <2> QED
      BY <2>1, <2>3, TariffResponseType
<1>3. CASE ccr[q].type = "UPDATE"
  <2>1. PICK a \in Responses(q, "Tariff") : cca = GrantedUpdate(CCROf(q), a)
      BY <1>3 DEF GrantsOf
  <2>2. RatingKind(ccr[q]) = "Tariff"
      BY <1>3 DEF RatingKind
  <2>3. cca = Success(GrantedQuota(CCROf(q), TariffUnits(a), a.unExpiryTime), a)
      BY <2>1 DEF GrantedUpdate
  <2> QED
      BY <1>1, <1>2, <2>2, <2>3
<1>4. CASE ccr[q].type = "INITIAL" /\ OCF_CheckChargingType(ccr[q]) = "SCUR"
  <2>1. RatingKind(ccr[q]) = "Tariff"
      BY <1>4 DEF RatingKind
  <2>2. PICK a \in Responses(q, "Tariff") : cca = GrantedInitial(CCROf(q), "SCUR", a)
      BY <1>4, <2>1 DEF GrantsOf
  <2>3. cca = Success(GrantedQuota(CCROf(q), TariffUnits(a), a.unExpiryTime), a)
      BY <2>2 DEF GrantedInitial
  <2> QED
      BY <1>1, <1>2, <2>1, <2>3
<1>5. CASE ccr[q].type = "INITIAL" /\ OCF_CheckChargingType(ccr[q]) = "ECUR"
  <2>1. RatingKind(ccr[q]) = "Price"
      BY <1>5 DEF RatingKind
  <2>2. PICK a \in Responses(q, "Price") : cca = GrantedInitial(CCROf(q), "ECUR", a)
      BY <1>5, <2>1 DEF GrantsOf
  <2>3. cca = Success(GrantedQuota(CCROf(q), a.oGrantedServiceUnit, a.unExpiryTime), a)
      BY <2>2 DEF GrantedInitial
  <2>4. SubTypeOf(CCROf(q), ccr[q].type) = "Reservation"
      BY <1>5 DEF SubTypeOf
  <2>5. a = OCSDB_PriceResponse(OCF_PopulatePriceRequest(CCROf(q), "Reservation"))
      BY <2>1, <2>4, PriceResponseTo
  <2>6. /\ a.unExpiryTime \in Int /\ Balanced(a)
        /\ a.oGrantedServiceUnit \in GrantedUnits
        /\ a.oGrantedServiceUnit =
               [GrantedServiceUnit EXCEPT
                   !.oCCMoney = FirstService(CCROf(q)).oReqServiceUnit.oCCMoney]
      BY <2>5, PriceResponseType
  <2>7. UnitsFor(q, a.oGrantedServiceUnit)
      BY <2>1, <2>6 DEF UnitsFor
  <2> QED
      BY <1>1, <2>3, <2>6, <2>7
<1>6. OCF_CheckChargingType(ccr[q]) \in {"SCUR", "ECUR"}
    BY DEF OCF_CheckChargingType
<1> QED
    BY <1>3, <1>4, <1>5, <1>6

\* A grant of an event.
LEMMA EventGrant ==
    ASSUME NEW q, AskedOwn(q), CCROf(q) \in CCRs, NEW cca, GrantsOf(q, cca),
           ccr[q].type = "EVENT"
    PROVE  \E a : /\ a.oRequestSubType = OCF_GetRequestType(CCROf(q))
                  /\ a.oGrantedServiceUnit \in GrantedUnits
                  /\ a.oCostInfo \in CostInformations
                  /\ a.oCheckBalanceResult = 0
                  /\ a.unRatingFuncResultCode \in Int
                  /\ Balanced(a)
                  /\ cca = GrantedEvent(CCROf(q), a)
<1>1. PICK a \in Responses(q, "Price") : cca = GrantedEvent(CCROf(q), a)
    BY DEF GrantsOf
<1>2. RatingKind(ccr[q]) = "Price"
    BY DEF RatingKind
<1>3. SubTypeOf(CCROf(q), ccr[q].type) = OCF_GetRequestType(CCROf(q))
    BY DEF SubTypeOf
<1>4. a = OCSDB_PriceResponse(OCF_PopulatePriceRequest(CCROf(q), OCF_GetRequestType(CCROf(q))))
    BY <1>2, <1>3, PriceResponseTo
<1>5. PICK subType : subType = OCF_GetRequestType(CCROf(q))
    OBVIOUS
<1>6. /\ a.oRequestSubType = subType
      /\ a.oGrantedServiceUnit \in GrantedUnits
      /\ a.oCostInfo \in CostInformations
      /\ a.oCheckBalanceResult = 0
      /\ a.unRatingFuncResultCode \in Int
      /\ Balanced(a)
    BY <1>4, <1>5, PriceResponseType
<1> QED
    BY <1>1, <1>5, <1>6

\* The services of an answer: one, the first of the request, or none.
AboutTheFirst(q, cca) ==
    \/ cca.oMultiServicesCC = <<>>
    \/ \E s \in AnsweredServices :
          /\ cca.oMultiServicesCC = <<s>>
          /\ s.unServiceId = FirstService(CCROf(q)).unServiceId

\* An answer is about the first service of its request, or about none.
LEMMA AnswerShape ==
    ASSUME NEW q, AskedOwn(q), CCROf(q) \in CCRs, NEW cca,
           GrantsOf(q, cca) \/ RefusalsOf(q, cca)
    PROVE  cca \in CCAs /\ AboutTheFirst(q, cca)
<1>1. CASE GrantsOf(q, cca) /\ ccr[q].type \in {"INITIAL", "UPDATE"}
    BY <1>1, SessionGrant DEF AboutTheFirst
<1>2. CASE GrantsOf(q, cca) /\ ccr[q].type = "EVENT"
  <2>1. PICK a : /\ a.oGrantedServiceUnit \in GrantedUnits
                 /\ a.oCostInfo \in CostInformations
                 /\ a.oCheckBalanceResult = 0
                 /\ a.unRatingFuncResultCode \in Int
                 /\ Balanced(a)
                 /\ cca = GrantedEvent(CCROf(q), a)
      BY <1>2, EventGrant
  <2> QED
      BY <2>1, EventType DEF AboutTheFirst
<1>3. CASE GrantsOf(q, cca) /\ ccr[q].type = "TERMINATION"
  <2>k. PICK kind \in {"Price", "Tariff"} :
            \E a \in Responses(q, kind) : cca = GrantedTerminate(CCROf(q), a)
      BY <1>3 DEF GrantsOf
  <2>1. PICK a \in Responses(q, kind) : cca = GrantedTerminate(CCROf(q), a)
      BY <2>k
  <2>2. Balanced(a)
      BY <2>1, AnyResponseIsBalanced
  <2>3. PICK s : s = AnsweredFirst(CCROf(q), DIAMETER_SUCCESS)
      OBVIOUS
  <2>4. s \in AnsweredServices /\ s.unServiceId = FirstService(CCROf(q)).unServiceId
      BY <2>3, AnsweredFirstType DEF DIAMETER_SUCCESS
  <2>5. cca = Success(s, a)
      BY <2>1, <2>3 DEF GrantedTerminate
  <2> QED
      BY <2>2, <2>4, <2>5, SuccessType DEF AboutTheFirst
<1>4. ASSUME NEW s, s = AnsweredFirst(CCROf(q), DIAMETER_RATING_FAILED), cca \in CCAs,
             cca.oMultiServicesCC = <<>> \/ cca.oMultiServicesCC = <<s>>
      PROVE  cca \in CCAs /\ AboutTheFirst(q, cca)
  <2>1. s \in AnsweredServices /\ s.unServiceId = FirstService(CCROf(q)).unServiceId
      BY <1>4, AnsweredFirstType DEF DIAMETER_RATING_FAILED
  <2> QED
      BY <1>4, <2>1 DEF AboutTheFirst
<1>5. CASE RefusalsOf(q, cca)
  <2>1. PICK charging \in {"SCUR", "ECUR"} :
            \/ cca \in RefusedInitials(CCROf(q), charging)
            \/ cca = Refusal(CCROf(q), charging)
      BY <1>5 DEF RefusalsOf
  <2> QED
      BY <1>4, <2>1, RefusedInitialTypes, RefusalTypes
<1>6. GrantsOf(q, cca) => ccr[q].type \in {"INITIAL", "UPDATE", "EVENT", "TERMINATION"}
    BY DEF GrantsOf
<1> QED
    BY <1>1, <1>2, <1>3, <1>5, <1>6

\* An answer of the OCF's own is what some grant or refusal of its request says.
LEMMA RatedFacts ==
    ASSUME ContentInv, NEW q \in Request, NEW i \in RatedAnswers(q)
    PROVE  /\ ccr[q] # NULL
           /\ AskedOwn(q)
           /\ wire[q] \in Seq(AVP) /\ AreAVPs(AVP)
           /\ ccr[q] = Summary(CCROf(q))
           /\ CCROf(q) = CCRIn(wire[q]) /\ CCROf(q) \in CCRs
           /\ FirstService(CCROf(q)) = ServiceIn(Service(wire[q]))
           /\ Service(wire[q]) \in Seq(AVP)
           /\ \E cca \in CCAs :
                 /\ IF answers[q][i].code = "SUCCESS" THEN GrantsOf(q, cca)
                                                      ELSE RefusalsOf(q, cca)
                 /\ AboutTheFirst(q, cca)
                 /\ SaysOf(said[q][i].avps, CCROf(q), cca, said[q][i].lost)
<1>1. AnsweredWell(q)
    BY DEF ContentInv, AnswersSayWell
<1>2. answers[q] # <<>>
    BY DEF RatedAnswers
<1>3. PICK a \in Answer : \E told :
          /\ ccr[q] # NULL
          /\ answers[q] = <<a>>
          /\ said[q] = <<told>>
          /\ a.from # NULL => AskedOwn(q) /\ Says(q, a.code, told)
    BY <1>1, <1>2 DEF AnsweredWell
<1>4. PICK told :
          /\ ccr[q] # NULL
          /\ answers[q] = <<a>>
          /\ said[q] = <<told>>
          /\ a.from # NULL => AskedOwn(q) /\ Says(q, a.code, told)
    BY <1>3
<1>5. i = 1
    BY <1>4 DEF RatedAnswers
<1>6. /\ answers[q][i] = a /\ said[q][i] = told
      /\ AskedOwn(q) /\ Says(q, a.code, told)
    BY <1>4, <1>5 DEF RatedAnswers
<1>7. PICK cca : /\ IF a.code = "SUCCESS" THEN GrantsOf(q, cca) ELSE RefusalsOf(q, cca)
                 /\ told.avps = OCF_CreatCCADiamMsg(CCROf(q), cca, told.lost)
    BY <1>6 DEF Says
<1>8. /\ wire[q] \in Seq(AVP) /\ AreAVPs(AVP)
      /\ ccr[q] = Summary(CCROf(q))
      /\ CCROf(q) = CCRIn(wire[q]) /\ CCROf(q) \in CCRs
    BY <1>4, ArrivedFacts
<1>9. FirstService(CCROf(q)) = ServiceIn(Service(wire[q])) /\ Service(wire[q]) \in Seq(AVP)
    BY <1>8, FirstServiceIn
<1>10. cca \in CCAs /\ AboutTheFirst(q, cca)
    BY <1>6, <1>7, <1>8, AnswerShape
<1>11. SaysOf(told.avps, CCROf(q), cca, told.lost)
    BY <1>7, <1>8, <1>10, AnswerReads
<1> QED
    BY <1>4, <1>6, <1>7, <1>8, <1>9, <1>10, <1>11

\* The value of an AVP without a sign.
LEMMA UnsignedRead ==
    ASSUME NEW s \in Seq(AVP), NEW code \in UnsignedAVPs
    PROVE  LastNumber(s, code, 0) \in Nat
<1> DEFINE n == Len(s)
           K == {k \in 0 .. n : LastNumber(Begin(s, k), code, 0) \in Nat}
<1>1. n \in Nat
    OBVIOUS
<1>2. 0 \in K
  <2>1. Begin(s, 0) = <<>> /\ LastNumber(<<>>, code, 0) = 0
      BY BeginSteps, LastEmpty
  <2> QED
      BY <1>1, <2>1
<1>3. ASSUME NEW k \in 1 .. n, k-1 \in K PROVE k \in K
  <2>1. PICK b : b = Begin(s, k-1)
      OBVIOUS
  <2>2. PICK a \in AVP : Begin(s, k) = Append(b, a)
    <3>1. s[k] \in AVP /\ Begin(s, k) = Append(Begin(s, k-1), s[k])
        BY BeginSteps
    <3> QED
        BY <2>1, <3>1
  <2>3. b \in Seq(AVP) /\ LastNumber(b, code, 0) \in Nat
      BY <1>3, <2>1, BeginSteps
  <2>4. LastNumber(Append(b, a), code, 0) =
            IF a.code = code THEN a.number ELSE LastNumber(b, code, 0)
      BY <2>3, LastAppend
  <2>5. a.code = code => a.number \in Nat
      BY ChargingAssumption
  <2>6. k \in 0 .. n
      BY <1>1
  <2> QED
      BY <2>2, <2>3, <2>4, <2>5, <2>6
<1>4. n \in K
  <2>1. 0 .. n \subseteq K
    <3> HIDE DEF K
    <3> QED
        BY <1>1, <1>2, <1>3, UpTo
  <2> QED
      BY <1>1, <2>1
<1>5. Begin(s, n) = s
    BY BeginSteps
<1> QED
    BY <1>4, <1>5

-----------------------------------------------------------------------------
(* The properties of answers *)

\* The number, the type and the session of an answer are its request's.
LEMMA EchoFollows == ContentInv => AnswersEchoTheirRequest
<1> SUFFICES ASSUME ContentInv, NEW q \in Request, NEW i \in RatedAnswers(q)
    PROVE  LET session == LastText(wire[q], "SESSION_ID")
               Same(code) ==
                   Echoes(said[q][i], code, <<Number(code, LastNumber(wire[q], code, 0))>>)
           IN /\ Same("CC_REQUEST_TYPE")
              /\ Same("CC_REQUEST_NUMBER")
              /\ Telling(wire[q]) =>
                    /\ Echoes(said[q][i], "SESSION_ID",
                              IF session = <<>> THEN <<>> ELSE <<Text("SESSION_ID", session)>>)
                    /\ IF Having(wire[q], "SUB_SESSION_ID") = <<>>
                       THEN Having(said[q][i].avps, "SUB_SESSION_ID") = <<>>
                       ELSE Same("SUB_SESSION_ID")
    BY DEF AnswersEchoTheirRequest
<1> DEFINE answer == said[q][i]
           session == LastText(wire[q], "SESSION_ID")
           Same(code) == Echoes(answer, code, <<Number(code, LastNumber(wire[q], code, 0))>>)
<1>1. /\ CCROf(q) = CCRIn(wire[q])
      /\ \E cca \in CCAs : SaysOf(answer.avps, CCROf(q), cca, answer.lost)
    BY RatedFacts
<1>2. /\ CCROf(q).oSessionId = Fitting(session)
      /\ CCROf(q).oCCRequestType = LastNumber(wire[q], "CC_REQUEST_TYPE", 0)
      /\ CCROf(q).unCCRequestNum = LastNumber(wire[q], "CC_REQUEST_NUMBER", 0)
      /\ CCROf(q).ullCCSubSessionId = LastNumber(wire[q], "SUB_SESSION_ID", OCS_UNSUED_VALUE)
    BY <1>1 DEF CCRIn
<1>3. /\ Having(answer.avps, "SESSION_ID") =
             IF CCROf(q).oSessionId # <<>>
             THEN Added("SESSION_ID", <<Text("SESSION_ID", CCROf(q).oSessionId)>>, answer.lost)
             ELSE <<>>
      /\ Having(answer.avps, "CC_REQUEST_TYPE") =
             Always("CC_REQUEST_TYPE", CCROf(q).oCCRequestType, answer.lost)
      /\ Having(answer.avps, "CC_REQUEST_NUMBER") =
             Always("CC_REQUEST_NUMBER", CCROf(q).unCCRequestNum, answer.lost)
      /\ Having(answer.avps, "SUB_SESSION_ID") = UsedSubSession(CCROf(q), answer.lost)
    BY <1>1 DEF SaysOf
<1>a. ASSUME NEW code, NEW meant, Having(answer.avps, code) = Added(code, meant, answer.lost)
      PROVE  Echoes(answer, code, meant)
    BY <1>a DEF Echoes, Complete, Added
<1>4. Same("CC_REQUEST_TYPE") /\ Same("CC_REQUEST_NUMBER")
    BY <1>2, <1>3, <1>a DEF Always
<1>5. ASSUME Telling(wire[q])
      PROVE  Echoes(answer, "SESSION_ID",
                    IF session = <<>> THEN <<>> ELSE <<Text("SESSION_ID", session)>>)
  <2>1. CCROf(q).oSessionId = session
      BY <1>2, <1>5 DEF Telling, Fits, Fitting
  <2>2. CASE session = <<>>
      BY <1>3, <2>1, <2>2 DEF Echoes
  <2>3. CASE session # <<>>
      BY <1>3, <1>a, <2>1, <2>3
  <2> QED
      BY <2>2, <2>3
<1>6. ASSUME Telling(wire[q])
      PROVE  IF Having(wire[q], "SUB_SESSION_ID") = <<>>
             THEN Having(answer.avps, "SUB_SESSION_ID") = <<>>
             ELSE Same("SUB_SESSION_ID")
  <2>1. CASE Having(wire[q], "SUB_SESSION_ID") = <<>>
    <3>1. CCROf(q).ullCCSubSessionId = OCS_UNSUED_VALUE
        BY <1>2, <2>1 DEF LastNumber
    <3> QED
        BY <1>3, <2>1, <3>1 DEF UsedSubSession
  <2>2. CASE Having(wire[q], "SUB_SESSION_ID") # <<>>
    <3>1. /\ CCROf(q).ullCCSubSessionId = LastNumber(wire[q], "SUB_SESSION_ID", 0)
          /\ CCROf(q).ullCCSubSessionId # OCS_UNSUED_VALUE
        BY <1>2, <1>6, <2>2 DEF LastNumber, Telling
    <3> QED
        BY <1>3, <1>a, <2>2, <3>1 DEF UsedSubSession, Always
  <2> QED
      BY <2>1, <2>2
<1> QED
    BY <1>4, <1>5, <1>6

\* The grant in the first service of an answer.
GrantIn(m) == UnitsIn(Within(Service(m), "GRANTED_SERVICE_UNIT"))

\* The first service of an answer.
LEMMA ServiceOfAnswer ==
    ASSUME NEW m, NEW s \in AnsweredServices, NEW lost,
           Having(m, "MULTIPLE_SERVICES_CREDIT_CONTROL") =
               <<OCF_CreatMultipleServiceCCAVP(s, lost)>>
    PROVE  LET units == s.poGrantedServiceUnits
               kept == units # <<>> /\ <<"GRANTED_SERVICE_UNIT">> \notin lost
           IN /\ LastNumber(Service(m), "SERVICE_IDENTIFIER", 0) =
                     Kept("SERVICE_IDENTIFIER", s.unServiceId, lost)
              /\ Having(Service(m), "GRANTED_SERVICE_UNIT") # <<>> <=> kept
              /\ ~kept => Within(Service(m), "GRANTED_SERVICE_UNIT") = <<>>
              /\ kept => GrantIn(m) = Granting(units[1], Inside("GRANTED_SERVICE_UNIT", lost))
<1>1. PICK a : a = OCF_CreatMultipleServiceCCAVP(s, lost)
    OBVIOUS
<1>2. Service(m) = a.members
    BY <1>1 DEF Service
<1> QED
    BY <1>1, <1>2, ServiceSent DEF GrantIn

\* An answer without services.
LEMMA NoServiceOfAnswer ==
    ASSUME NEW m, Having(m, "MULTIPLE_SERVICES_CREDIT_CONTROL") = <<>>
    PROVE  /\ Having(Service(m), "GRANTED_SERVICE_UNIT") = <<>>
           /\ Within(Service(m), "GRANTED_SERVICE_UNIT") = <<>>
BY ReadingEmpty DEF Service

\* A refusal is made of a cleared structure.
LEMMA RefusalsFollow == ContentInv => RefusalsGrantNothing
<1> SUFFICES ASSUME ContentInv, NEW q \in Request, NEW i \in RatedAnswers(q),
                    answers[q][i].code \in {"RATING_FAILED", "NONE"}, ccr[q].type # "INITIAL"
    PROVE  /\ Within(Service(said[q][i].avps), "GRANTED_SERVICE_UNIT") = <<>>
           /\ \A code \in {"GRANTED_SERVICE_UNIT", "COST_INFORMATION", "REMAINING_BALANCE"} :
                 Having(said[q][i].avps, code) = <<>>
    BY DEF RefusalsGrantNothing
<1>1. PICK m : m = said[q][i].avps
    OBVIOUS
<1>l. PICK lost : lost = said[q][i].lost
    OBVIOUS
<1>2. PICK cca \in CCAs : RefusalsOf(q, cca) /\ SaysOf(m, CCROf(q), cca, lost)
    BY <1>1, <1>l, RatedFacts
<1>3. PICK charging \in {"SCUR", "ECUR"} : cca = Refusal(CCROf(q), charging)
    BY <1>2 DEF RefusalsOf
<1>4. CCROf(q) \in CCRs
    BY RatedFacts
<1>5. PICK s : s = AnsweredFirst(CCROf(q), DIAMETER_RATING_FAILED)
    OBVIOUS
<1>6. s \in AnsweredServices /\ s.poGrantedServiceUnits = <<>>
    BY <1>4, <1>5, AnsweredFirstType DEF DIAMETER_RATING_FAILED
<1>7. /\ cca.poGrantedServiceUnits = <<>> /\ cca.poCostInfo = <<>>
      /\ cca.poRemainingBalance = <<>>
      /\ cca.oMultiServicesCC = <<>> \/ cca.oMultiServicesCC = <<s>>
    BY <1>3, <1>4, <1>5, RefusalTypes
<1>i. PICK inside : inside = Inside("MULTIPLE_SERVICES_CREDIT_CONTROL", lost)
    OBVIOUS
<1>8. /\ Having(m, "GRANTED_SERVICE_UNIT") = <<>>
      /\ Having(m, "COST_INFORMATION") = <<>>
      /\ Having(m, "REMAINING_BALANCE") = <<>>
      /\ \/ Having(m, "MULTIPLE_SERVICES_CREDIT_CONTROL") = <<>>
         \/ /\ cca.oMultiServicesCC = <<s>>
            /\ Having(m, "MULTIPLE_SERVICES_CREDIT_CONTROL") =
                   <<OCF_CreatMultipleServiceCCAVP(s, inside)>>
    BY <1>2, <1>7, <1>i DEF SaysOf
<1>9. Within(Service(m), "GRANTED_SERVICE_UNIT") = <<>>
    BY <1>6, <1>8, NoServiceOfAnswer, ServiceOfAnswer
<1> QED
    BY <1>1, <1>8, <1>9

\* The rated service is the answered one.
LEMMA RatedServiceFollows == ContentInv => AnsweredServiceWasRated
<1> SUFFICES ASSUME ContentInv, NEW q \in Request, NEW i \in RatedAnswers(q)
    PROVE  LET services == Having(said[q][i].avps, "MULTIPLE_SERVICES_CREDIT_CONTROL")
               first == LastNumber(Service(wire[q]), "SERVICE_IDENTIFIER", 0)
           IN /\ Len(services) <= 1
              /\ \A j \in DOMAIN services :
                    LET answered == LastNumber(services[j].members, "SERVICE_IDENTIFIER", 0)
                    IN /\ answered \in {0, first}
                       /\ Complete(said[q][i]) => answered = first
                       /\ \/ first = asked[q][1].unServiceId
                          \/ /\ RatingKind(ccr[q]) = "Price"
                             /\ Having(wire[q], "SERVICE_IDENTIFIER") # <<>>
    BY DEF AnsweredServiceWasRated
<1>1. PICK services : services = Having(said[q][i].avps, "MULTIPLE_SERVICES_CREDIT_CONTROL")
    OBVIOUS
<1>2. PICK id : id = LastNumber(Service(wire[q]), "SERVICE_IDENTIFIER", 0)
    OBVIOUS
<1>l. PICK lost : lost = said[q][i].lost
    OBVIOUS
<1>3. PICK cca \in CCAs : /\ AboutTheFirst(q, cca)
                          /\ SaysOf(said[q][i].avps, CCROf(q), cca, lost)
    BY <1>l, RatedFacts
<1>4. /\ CCROf(q) = CCRIn(wire[q]) /\ AskedOwn(q)
      /\ FirstService(CCROf(q)).unServiceId = id
    BY <1>2, RatedFacts DEF ServiceIn
<1>5. id \in Nat
  <2>1. "SERVICE_IDENTIFIER" \in UnsignedAVPs
      BY DEF UnsignedAVPs
  <2>2. Service(wire[q]) \in Seq(AVP)
      BY RatedFacts
  <2> QED
      BY <1>2, <2>1, <2>2, UnsignedRead
<1> DEFINE Answers(a) == LET n == LastNumber(a.members, "SERVICE_IDENTIFIER", 0)
                        IN n \in {0, id} /\ (lost = {} => n = id)
<1>6. services = <<>> \/ \E a : services = <<a>> /\ Answers(a)
  <2>1. CASE cca.oMultiServicesCC = <<>>
      BY <1>1, <1>3, <2>1 DEF SaysOf
  <2>2. ASSUME NEW s \in AnsweredServices, cca.oMultiServicesCC = <<s>>,
               s.unServiceId = FirstService(CCROf(q)).unServiceId
        PROVE  services = <<>> \/ \E a : services = <<a>> /\ Answers(a)
    <3>i. PICK inside : inside = Inside("MULTIPLE_SERVICES_CREDIT_CONTROL", lost)
        OBVIOUS
    <3>1. PICK a : a = OCF_CreatMultipleServiceCCAVP(s, inside)
        OBVIOUS
    <3>2. services = <<>> \/ services = <<a>>
        BY <1>1, <1>3, <2>2, <3>1, <3>i DEF SaysOf
    <3>3. LastNumber(a.members, "SERVICE_IDENTIFIER", 0) =
              Kept("SERVICE_IDENTIFIER", s.unServiceId, inside)
        BY <3>1, ServiceSent
    <3>4. /\ Kept("SERVICE_IDENTIFIER", s.unServiceId, inside) \in {0, id}
          /\ inside = {} => Kept("SERVICE_IDENTIFIER", s.unServiceId, inside) = id
        BY <1>4, <1>5, <2>2 DEF Sent, Kept
    <3>5. lost = {} => inside = {}
        BY <3>i DEF Inside
    <3> QED
        BY <3>2, <3>3, <3>4, <3>5
  <2> QED
      BY <1>3, <2>1, <2>2 DEF AboutTheFirst
<1>7. \/ id = asked[q][1].unServiceId
      \/ /\ RatingKind(ccr[q]) = "Price"
         /\ Having(wire[q], "SERVICE_IDENTIFIER") # <<>>
  <2>1. CASE RatingKind(ccr[q]) # "Price"
    <3>1. PICK request :
              request = OCF_CreateTariffRequest(CCROf(q), SubTypeOf(CCROf(q), ccr[q].type))
        OBVIOUS
    <3>2. request.unServiceId = FirstService(CCROf(q)).unServiceId
        BY <3>1 DEF OCF_CreateTariffRequest
    <3>3. asked[q][1] = request
        BY <1>4, <2>1, <3>1, AskedTariff
    <3> QED
        BY <1>4, <3>2, <3>3
  <2>2. CASE RatingKind(ccr[q]) = "Price"
    <3>r. PICK request :
              request = OCF_PopulatePriceRequest(CCROf(q), SubTypeOf(CCROf(q), ccr[q].type))
        OBVIOUS
    <3>s. request.unServiceId =
              IF CCROf(q).unServiceId # OCS_UNSUED_VALUE
              THEN CCROf(q).unServiceId ELSE FirstService(CCROf(q)).unServiceId
        BY <3>r DEF OCF_PopulatePriceRequest
    <3>1. asked[q][1] = request
        BY <1>4, <2>2, <3>r, AskedPrice
    <3>2. CCROf(q).unServiceId = LastNumber(wire[q], "SERVICE_IDENTIFIER", OCS_UNSUED_VALUE)
        BY <1>4 DEF CCRIn
    <3>3. CCROf(q).unServiceId # OCS_UNSUED_VALUE =>
              Having(wire[q], "SERVICE_IDENTIFIER") # <<>>
        BY <3>2 DEF LastNumber
    <3> QED
        BY <1>4, <2>2, <3>s, <3>1, <3>3
  <2> QED
      BY <2>1, <2>2
<1>8. Len(services) <= 1 /\ \A j \in DOMAIN services : Answers(services[j])
  <2> HIDE DEF Answers
  <2>1. CASE services = <<>>
      BY <2>1
  <2>2. ASSUME NEW a, services = <<a>>, Answers(a)
        PROVE  Len(services) <= 1 /\ \A j \in DOMAIN services : Answers(services[j])
    <3>1. Len(services) = 1 /\ DOMAIN services = {1} /\ services[1] = a
        BY <2>2
    <3> QED
        BY <2>2, <3>1
  <2> QED
      BY <1>6, <2>1, <2>2
<1>9. Complete(said[q][i]) <=> lost = {}
    BY <1>l DEF Complete
<1> QED
    BY <1>1, <1>2, <1>7, <1>8, <1>9

-----------------------------------------------------------------------------
(* Grants *)

\* What of an amount that was granted is read, if nothing is lost.
LEMMA SendableIsReceived ==
    ASSUME NEW m \in Moneys, m.unCurrencyCode \in Nat
    PROVE  Sendable(m) = IF 0 < m.oUnitValue.llValueDigits THEN Received(m, {}) ELSE CCMoney
<1>1. PICK u : u = m.oUnitValue
    OBVIOUS
<1>2. u \in UnitValues /\ u.llValueDigits \in Int /\ u.nExponent \in Int
    BY <1>1 DEF Moneys, UnitValues
<1>3. CASE ~(0 < u.llValueDigits)
    BY <1>1, <1>2, <1>3 DEF Sendable
<1>4. CASE 0 < u.llValueDigits
  <2>1. PICK exponent \in Int : exponent = Sent(u.nExponent)
      BY <1>2 DEF Sent
  <2>2. PICK v : v = [u EXCEPT !.nExponent = exponent]
      OBVIOUS
  <2>3. v \in UnitValues /\ v.llValueDigits = u.llValueDigits /\ v.nExponent = exponent
      BY <1>2, <2>1, <2>2 DEF UnitValues
  <2>4. Sendable(m) = [m EXCEPT !.oUnitValue = v]
      BY <1>1, <1>2, <1>4, <2>1, <2>2 DEF Sendable, Sent, Moneys
  <2>5. PICK s : s = [m EXCEPT !.oUnitValue = v]
      OBVIOUS
  <2>6. s \in Moneys /\ s.oUnitValue = v /\ s.unCurrencyCode = m.unCurrencyCode
      BY <2>3, <2>5 DEF Moneys
  <2>7. PICK w : w = ReceivedValue(u, {})
      OBVIOUS
  <2>8. w = v
    <3>1. w = [llValueDigits |-> u.llValueDigits, nExponent |-> exponent]
        BY <1>2, <1>4, <2>1, <2>7 DEF ReceivedValue, Kept, Sent
    <3> QED
        BY <2>3, <3>1 DEF UnitValues
  <2>i. Inside("UNIT_VALUE", {}) = {}
      BY DEF Inside
  <2>c. Kept("CURRENCY_CODE", m.unCurrencyCode, {}) = m.unCurrencyCode
      BY DEF Kept, Sent
  <2>9. Received(m, {}) = [oUnitValue |-> v, unCurrencyCode |-> m.unCurrencyCode]
      BY <1>1, <2>7, <2>8, <2>i, <2>c DEF Received
  <2>10. s = Received(m, {})
      BY <2>6, <2>9 DEF Moneys
  <2> QED
      BY <1>1, <1>4, <2>4, <2>5, <2>10
<1> QED
    BY <1>1, <1>3, <1>4

\* What is lost takes numbers away, and puts none in their place.
LEMMA FewerReceived ==
    ASSUME NEW m \in Moneys, NEW lost
    PROVE  LET got == Received(m, lost)
               all == Received(m, {})
           IN /\ got.unCurrencyCode \in {0, all.unCurrencyCode}
              /\ got.oUnitValue.llValueDigits \in {0, all.oUnitValue.llValueDigits}
              /\ got.oUnitValue.nExponent \in {0, all.oUnitValue.nExponent}
<1>1. \A c, n : Kept(c, n, lost) \in {0, Kept(c, n, {})}
    BY DEF Kept
<1>2. \A c, n, l : Kept(c, n, l) \in {0, Kept(c, n, {})}
    BY DEF Kept
<1>3. Inside("UNIT_VALUE", {}) = {}
    BY DEF Inside
<1>4. Received(m, {}).oUnitValue = ReceivedValue(m.oUnitValue, {})
    BY <1>3 DEF Received
<1>5. PICK inside : inside = Inside("UNIT_VALUE", lost)
    OBVIOUS
<1>6. \/ Received(m, lost).oUnitValue = UnitValue
      \/ Received(m, lost).oUnitValue = ReceivedValue(m.oUnitValue, inside)
    BY <1>5 DEF Received
<1>7. UnitValue.llValueDigits = 0 /\ UnitValue.nExponent = 0
    BY DEF UnitValue
<1>8. /\ Received(m, lost).oUnitValue.llValueDigits \in
             {0, ReceivedValue(m.oUnitValue, {}).llValueDigits}
      /\ Received(m, lost).oUnitValue.nExponent \in
             {0, ReceivedValue(m.oUnitValue, {}).nExponent}
    BY <1>2, <1>6, <1>7 DEF ReceivedValue
<1>9. Received(m, lost).unCurrencyCode \in {0, Received(m, {}).unCurrencyCode}
    BY <1>1 DEF Received
<1> QED
    BY <1>4, <1>8, <1>9

\* No units are read where some were granted.
LEMMA NoUnits == \A units : Fewer(UnitsIn(<<>>), units)
<1>1. \A code : LastNumber(<<>>, code, 0) = 0
    BY LastEmpty
<1>2. MoneyIn(Within(<<>>, "CC_MONEY")) = CCMoney
    BY ReadingEmpty, NoMoney
<1>3. /\ UnitsIn(<<>>).oCCMoney = CCMoney
      /\ UnitsIn(<<>>).unCCTime = 0 /\ UnitsIn(<<>>).ullCCTotalOctets = 0
      /\ UnitsIn(<<>>).ullCCInputOctets = 0 /\ UnitsIn(<<>>).ullCCOutputOctets = 0
    BY <1>1, <1>2 DEF UnitsIn
<1>4. /\ CCMoney.unCurrencyCode = 0
      /\ CCMoney.oUnitValue.llValueDigits = 0 /\ CCMoney.oUnitValue.nExponent = 0
    BY DEF CCMoney, UnitValue
<1> QED
    BY <1>3, <1>4 DEF Fewer

\* Units are read as they were granted, or some of their numbers are lost.
LEMMA FewerGranted ==
    ASSUME NEW g \in GrantedUnits, NEW lost
    PROVE  Fewer(Granting(g, lost), Granting(g, {}))
<1>1. \A c, n : Kept(c, n, lost) \in {0, Kept(c, n, {})}
    BY DEF Kept
<1>2. /\ Granting(g, lost).unCCTime \in {0, Granting(g, {}).unCCTime}
      /\ Granting(g, lost).ullCCTotalOctets \in {0, Granting(g, {}).ullCCTotalOctets}
      /\ Granting(g, lost).ullCCInputOctets \in {0, Granting(g, {}).ullCCInputOctets}
      /\ Granting(g, lost).ullCCOutputOctets \in {0, Granting(g, {}).ullCCOutputOctets}
    BY <1>1 DEF Granting
<1>3. PICK got : got = Granting(g, lost).oCCMoney
    OBVIOUS
<1>4. PICK all : all = Granting(g, {}).oCCMoney
    OBVIOUS
<1>5. PICK inside : inside = Inside("CC_MONEY", lost)
    OBVIOUS
<1>6. Inside("CC_MONEY", {}) = {} /\ <<"CC_MONEY">> \notin {}
    BY DEF Inside
<1>7. \/ got = CCMoney
      \/ got = Received(g.oCCMoney, inside) /\ all = Received(g.oCCMoney, {})
    BY <1>3, <1>4, <1>5, <1>6 DEF Granting
<1>8. g.oCCMoney \in Moneys
    BY DEF GrantedUnits
<1>9. /\ CCMoney.unCurrencyCode = 0
      /\ CCMoney.oUnitValue.llValueDigits = 0 /\ CCMoney.oUnitValue.nExponent = 0
    BY DEF CCMoney, UnitValue
<1>10. /\ got.unCurrencyCode \in {0, all.unCurrencyCode}
       /\ got.oUnitValue.llValueDigits \in {0, all.oUnitValue.llValueDigits}
       /\ got.oUnitValue.nExponent \in {0, all.oUnitValue.nExponent}
    BY <1>7, <1>8, <1>9, FewerReceived
<1> QED
    BY <1>2, <1>3, <1>4, <1>10 DEF Fewer

\* Units of nothing but time and money.
LEMMA UnitsOf ==
    ASSUME NEW time \in Nat, NEW money \in Moneys
    PROVE  [ReqServiceUnit EXCEPT !.unCCTime = time, !.oCCMoney = money] =
               [unCCTime |-> time, oCCMoney |-> money, ullCCTotalOctets |-> 0,
                ullCCInputOctets |-> 0, ullCCOutputOctets |-> 0]
<1>1. PICK zero \in Int : zero = 0
    OBVIOUS
<1>2. PICK base \in Units : base = ReqServiceUnit
    BY FreshUnits
<1>3. /\ base.ullCCTotalOctets = zero /\ base.ullCCInputOctets = zero
      /\ base.ullCCOutputOctets = zero
    BY <1>1, <1>2 DEF ReqServiceUnit
<1>4. PICK z : z = [base EXCEPT !.unCCTime = time, !.oCCMoney = money]
    OBVIOUS
<1>y. PICK y : y = [base EXCEPT !.unCCTime = time]
    OBVIOUS
<1>t. /\ y \in Units /\ y.unCCTime = time
      /\ y.ullCCTotalOctets = zero /\ y.ullCCInputOctets = zero
      /\ y.ullCCOutputOctets = zero
    BY <1>3, <1>y DEF Units
<1>z. z = [y EXCEPT !.oCCMoney = money]
    BY <1>4, <1>y
<1>5. /\ z \in Units /\ z.unCCTime = time /\ z.oCCMoney = money
      /\ z.ullCCTotalOctets = zero /\ z.ullCCInputOctets = zero
      /\ z.ullCCOutputOctets = zero
    BY <1>t, <1>z DEF Units
<1>6. PICK w : w = [unCCTime |-> time, oCCMoney |-> money, ullCCTotalOctets |-> zero,
                    ullCCInputOctets |-> zero, ullCCOutputOctets |-> zero]
    OBVIOUS
<1>7. /\ w \in Units /\ w.unCCTime = time /\ w.oCCMoney = money
      /\ w.ullCCTotalOctets = zero /\ w.ullCCInputOctets = zero
      /\ w.ullCCOutputOctets = zero
    BY <1>6 DEF Units
<1>8. z = w
    BY <1>5, <1>7 DEF Units
<1> QED
    BY <1>1, <1>2, <1>4, <1>6, <1>8

\* What a client reads of a grant of money and time.
LEMMA GrantReads ==
    ASSUME NEW money \in Moneys, money.unCurrencyCode \in Nat, NEW time \in Nat,
           NEW g \in GrantedUnits, g.unCCTime = time, g.oCCMoney = money,
           g.ullCCInputOctets = 0, g.ullCCOutputOctets = 0
    PROVE  Granting(g, {}) =
               [ReqServiceUnit EXCEPT !.unCCTime = time, !.oCCMoney = Sendable(money)]
<1>1. PICK sendable : sendable = Sendable(money)
    OBVIOUS
<1>i. Inside("CC_MONEY", {}) = {} /\ <<"CC_MONEY">> \notin {}
    BY DEF Inside
<1>2. Granting(g, {}).oCCMoney = sendable
    BY <1>1, <1>i, SendableIsReceived DEF Granting
<1>3. Granting(g, {}) = [unCCTime |-> time, oCCMoney |-> sendable, ullCCTotalOctets |-> 0,
                     ullCCInputOctets |-> 0, ullCCOutputOctets |-> 0]
    BY <1>2 DEF Granting, Kept, Sent
<1>4. sendable \in Moneys
  <2>1. sendable = Received(money, {}) \/ sendable = CCMoney
      BY <1>1, SendableIsReceived
  <2>2. CCMoney \in Moneys
      BY MoneyTypes
  <2>3. Received(money, {}) \in Moneys
    <3>1. ReceivedValue(money.oUnitValue, Inside("UNIT_VALUE", {})) \in UnitValues
        BY DEF ReceivedValue, Kept, Sent, Moneys, UnitValues
    <3>2. Kept("CURRENCY_CODE", money.unCurrencyCode, {}) \in Int
        BY DEF Kept, Sent
    <3> QED
        BY <3>1, <3>2 DEF Received, Moneys
  <2> QED
      BY <2>1, <2>2, <2>3
<1> QED
    BY <1>1, <1>3, <1>4, UnitsOf

\* The answer of a grant names one service, and grants units meant for its request.
LEMMA GrantAnswered ==
    ASSUME ContentInv, NEW q \in Request, NEW i \in RatedAnswers(q),
           ccr[q].type \in {"INITIAL", "UPDATE"}, answers[q][i].code = "SUCCESS"
    PROVE  \E g \in GrantedUnits : UnitsFor(q, g) /\ Grants(said[q][i], Granting(g, {}))
<1>1. PICK m : m = said[q][i].avps
    OBVIOUS
<1>l. PICK lost : lost = said[q][i].lost
    OBVIOUS
<1>2. PICK cca \in CCAs : GrantsOf(q, cca) /\ SaysOf(m, CCROf(q), cca, lost)
    BY <1>1, <1>l, RatedFacts
<1>3. AskedOwn(q) /\ CCROf(q) \in CCRs
    BY RatedFacts
<1>4. PICK s \in AnsweredServices : \E units \in GrantedUnits :
          /\ cca.oMultiServicesCC = <<s>>
          /\ s.poGrantedServiceUnits = <<units>>
          /\ UnitsFor(q, units)
    BY <1>2, <1>3, SessionGrant
<1>5. PICK units \in GrantedUnits : /\ cca.oMultiServicesCC = <<s>>
                                    /\ s.poGrantedServiceUnits = <<units>>
                                    /\ UnitsFor(q, units)
    BY <1>4
<1>6. PICK inService : inService = Inside("MULTIPLE_SERVICES_CREDIT_CONTROL", lost)
    OBVIOUS
<1>7. PICK inGrant : inGrant = Inside("GRANTED_SERVICE_UNIT", inService)
    OBVIOUS
<1>8. lost = {} => inService = {} /\ inGrant = {}
    BY <1>6, <1>7 DEF Inside
<1>9. Having(m, "MULTIPLE_SERVICES_CREDIT_CONTROL") =
          IF <<"MULTIPLE_SERVICES_CREDIT_CONTROL">> \in lost THEN <<>>
          ELSE <<OCF_CreatMultipleServiceCCAVP(s, inService)>>
    BY <1>2, <1>5, <1>6 DEF SaysOf
<1>10. s.poGrantedServiceUnits # <<>> /\ s.poGrantedServiceUnits[1] = units
    BY <1>5
<1>11. CASE /\ <<"MULTIPLE_SERVICES_CREDIT_CONTROL">> \notin lost
            /\ <<"GRANTED_SERVICE_UNIT">> \notin inService
  <2>1. GrantIn(m) = Granting(units, inGrant)
      BY <1>7, <1>9, <1>10, <1>11, ServiceOfAnswer
  <2>2. Fewer(GrantIn(m), Granting(units, {}))
      BY <2>1, FewerGranted
  <2>3. lost = {} => GrantIn(m) = Granting(units, {})
      BY <1>8, <2>1
  <2> QED
      BY <1>1, <1>l, <1>5, <2>2, <2>3 DEF Grants, Complete, GrantIn
<1>12. CASE \/ <<"MULTIPLE_SERVICES_CREDIT_CONTROL">> \in lost
            \/ <<"GRANTED_SERVICE_UNIT">> \in inService
  <2>1. Within(Service(m), "GRANTED_SERVICE_UNIT") = <<>>
      BY <1>9, <1>12, NoServiceOfAnswer, ServiceOfAnswer
  <2>2. Fewer(GrantIn(m), Granting(units, {}))
      BY <2>1, NoUnits DEF GrantIn
  <2>3. lost # {}
      BY <1>8, <1>12
  <2> QED
      BY <1>1, <1>l, <1>5, <2>2, <2>3 DEF Grants, Complete, GrantIn
<1> QED
    BY <1>11, <1>12

\* The money a request asks for.
LEMMA AskedMoney ==
    ASSUME AreAVPs(AVP), NEW s \in Seq(AVP)
    PROVE  LET money == UnitsIn(Within(s, "REQUESTED_SERVICE_UNIT")).oCCMoney
           IN money \in Moneys /\ money.unCurrencyCode \in Nat
<1>1. PICK t : t = Within(s, "REQUESTED_SERVICE_UNIT")
    OBVIOUS
<1>2. Groups(AVP, AVP)
    BY MembersAreAVPs
<1>3. t \in Seq(AVP)
    BY <1>1, <1>2, WithinType
<1>4. PICK c : c = Within(t, "CC_MONEY")
    OBVIOUS
<1>5. c \in Seq(AVP)
    BY <1>2, <1>3, <1>4, WithinType
<1>6. "CURRENCY_CODE" \in UnsignedAVPs
    BY DEF UnsignedAVPs
<1>7. LastNumber(c, "CURRENCY_CODE", 0) \in Nat
    BY <1>5, <1>6, UnsignedRead
<1>8. MoneyIn(c).unCurrencyCode = LastNumber(c, "CURRENCY_CODE", 0)
    BY DEF MoneyIn
<1>9. UnitsIn(t).oCCMoney = MoneyIn(c)
    BY <1>4 DEF UnitsIn
<1>10. UnitsIn(t).oCCMoney \in Moneys
  <2>1. UnitsIn(t) \in Units
      BY <1>3, UnitsInType
  <2> QED
      BY <2>1 DEF Units
<1> QED
    BY <1>1, <1>7, <1>8, <1>9, <1>10

\* Units of nothing but money.
LEMMA NoTime ==
    ASSUME NEW money
    PROVE  [ReqServiceUnit EXCEPT !.unCCTime = 0, !.oCCMoney = money] =
               [ReqServiceUnit EXCEPT !.oCCMoney = money]
<1>1. PICK zero \in Int : zero = 0
    OBVIOUS
<1>2. PICK base \in Units : base = ReqServiceUnit
    BY FreshUnits
<1>3. base.unCCTime = zero
    BY <1>1, <1>2 DEF ReqServiceUnit
<1>4. PICK y : y = [base EXCEPT !.unCCTime = zero]
    OBVIOUS
<1>5. y = base
  <2>1. y \in Units /\ y.unCCTime = base.unCCTime /\ y.oCCMoney = base.oCCMoney
        /\ y.ullCCTotalOctets = base.ullCCTotalOctets
        /\ y.ullCCInputOctets = base.ullCCInputOctets
        /\ y.ullCCOutputOctets = base.ullCCOutputOctets
      BY <1>3, <1>4 DEF Units
  <2> QED
      BY <2>1 DEF Units
<1>6. [y EXCEPT !.oCCMoney = money] =
          [ReqServiceUnit EXCEPT !.unCCTime = 0, !.oCCMoney = money]
    BY <1>1, <1>2, <1>4
<1> QED
    BY <1>2, <1>5, <1>6

\* Units of time and money that are granted.
Given(time, money) == [GrantedServiceUnit EXCEPT !.unCCTime = time, !.oCCMoney = money]

\* The units that are granted have the fields a client reads.
LEMMA FieldsGiven ==
    ASSUME NEW money \in Moneys, NEW time \in Int
    PROVE  /\ Given(time, money).unCCTime = time /\ Given(time, money).oCCMoney = money
           /\ Given(time, money).ullCCInputOctets = 0
           /\ Given(time, money).ullCCOutputOctets = 0
<1>1. PICK zero \in Int : zero = 0
    OBVIOUS
<1>2. PICK base \in GrantedUnits : base = GrantedServiceUnit
    BY BlankUnits
<1>3. base.ullCCInputOctets = zero /\ base.ullCCOutputOctets = zero
    BY <1>1, <1>2 DEF GrantedServiceUnit
<1>4. PICK y : y = [base EXCEPT !.unCCTime = time]
    OBVIOUS
<1>5. /\ y \in GrantedUnits /\ y.unCCTime = time
      /\ y.ullCCInputOctets = zero /\ y.ullCCOutputOctets = zero
    BY <1>3, <1>4 DEF GrantedUnits
<1>6. PICK z : z = [y EXCEPT !.oCCMoney = money]
    OBVIOUS
<1>7. /\ z.unCCTime = time /\ z.oCCMoney = money
      /\ z.ullCCInputOctets = zero /\ z.ullCCOutputOctets = zero
    BY <1>5, <1>6 DEF GrantedUnits
<1>8. z = Given(time, money)
    BY <1>2, <1>4, <1>6 DEF Given
<1> QED
  <2> HIDE <1>6
  <2> QED
      BY <1>1, <1>7, <1>8

\* Units of nothing but money that are granted.
LEMMA PriceFields ==
    ASSUME NEW money \in Moneys
    PROVE  \A g : g = [GrantedServiceUnit EXCEPT !.oCCMoney = money] =>
              /\ g.unCCTime = 0 /\ g.oCCMoney = money
              /\ g.ullCCInputOctets = 0 /\ g.ullCCOutputOctets = 0
BY DEF GrantedServiceUnit

\* The units that are granted are read as they were meant.
LEMMA GrantsFollow == ContentInv => GrantsSurviveTheWire
<1> SUFFICES ASSUME ContentInv, NEW q \in Request, NEW i \in RatedAnswers(q),
                    ccr[q].type \in {"INITIAL", "UPDATE"}, answers[q][i].code = "SUCCESS"
    PROVE  IF RatingKind(ccr[q]) = "Price"
           THEN LET units == UnitsIn(Within(Service(wire[q]), "REQUESTED_SERVICE_UNIT"))
                IN Grants(said[q][i],
                          [ReqServiceUnit EXCEPT !.oCCMoney = Sendable(units.oCCMoney)])
           ELSE \E quota \in TariffQuota \cup {[units |-> 0, price |-> 0]} :
                   Grants(said[q][i],
                          [ReqServiceUnit EXCEPT
                              !.unCCTime = Unsigned(quota.units),
                              !.oCCMoney = Sendable(Rupees(Unsigned(quota.price)))])
    BY DEF GrantsSurviveTheWire
<1>1. PICK g \in GrantedUnits : UnitsFor(q, g) /\ Grants(said[q][i], Granting(g, {}))
    BY GrantAnswered
<1>2. CASE RatingKind(ccr[q]) = "Price"
  <2>1. PICK money :
            money = UnitsIn(Within(Service(wire[q]), "REQUESTED_SERVICE_UNIT")).oCCMoney
      OBVIOUS
  <2>2. money \in Moneys /\ money.unCurrencyCode \in Nat
      BY <2>1, RatedFacts, AskedMoney
  <2>3. money = FirstService(CCROf(q)).oReqServiceUnit.oCCMoney
      BY <2>1, RatedFacts DEF ServiceIn
  <2>4. g = [GrantedServiceUnit EXCEPT !.oCCMoney = money]
      BY <1>1, <1>2, <2>3 DEF UnitsFor
  <2>5. /\ g.unCCTime = 0 /\ g.oCCMoney = money
        /\ g.ullCCInputOctets = 0 /\ g.ullCCOutputOctets = 0
      BY <2>2, <2>4, PriceFields
  <2>6. 0 \in Nat
      OBVIOUS
  <2>7. Granting(g, {}) = [ReqServiceUnit EXCEPT !.unCCTime = 0, !.oCCMoney = Sendable(money)]
      BY <1>1, <2>2, <2>5, <2>6, GrantReads
  <2>8. Granting(g, {}) = [ReqServiceUnit EXCEPT !.oCCMoney = Sendable(money)]
      BY <2>7, NoTime
  <2> QED
      BY <1>1, <1>2, <2>1, <2>8
<1>3. CASE RatingKind(ccr[q]) # "Price"
  <2>1. PICK quota \in TariffQuota \cup {[units |-> 0, price |-> 0]} :
            /\ quota \in [units : Int, price : Int]
            /\ g = [GrantedServiceUnit EXCEPT !.unCCTime = Unsigned(quota.units),
                                              !.oCCMoney = Rupees(Unsigned(quota.price))]
      BY <1>1, <1>3 DEF UnitsFor
  <2>2. quota.units \in Int /\ quota.price \in Int
      BY <2>1
  <2>3. PICK time \in Nat : time = Unsigned(quota.units)
    <3>1. Unsigned(quota.units) \in 0 .. MaxUnsigned
        BY <2>2, UnsignedType
    <3> QED
        BY <3>1
  <2>4. PICK money \in Moneys :
            money = Rupees(Unsigned(quota.price)) /\ money.unCurrencyCode \in Nat
    <3>1. Unsigned(quota.price) \in 0 .. MaxUnsigned
        BY <2>2, UnsignedType
    <3>2. PICK n \in Int : n = Unsigned(quota.price)
        BY <3>1
    <3>3. Rupees(n) \in Moneys
        BY MoneyTypes
    <3>4. Rupees(n).unCurrencyCode \in Nat
        BY DEF Rupees
    <3> QED
        BY <3>2, <3>3, <3>4
  <2>5. g = Given(time, money)
      BY <2>1, <2>3, <2>4 DEF Given
  <2>6. /\ g.unCCTime = time /\ g.oCCMoney = money
        /\ g.ullCCInputOctets = 0 /\ g.ullCCOutputOctets = 0
    <3>1. time \in Int
        OBVIOUS
    <3> QED
        BY <2>5, <3>1, FieldsGiven
  <2>7. Granting(g, {}) = [ReqServiceUnit EXCEPT !.unCCTime = time, !.oCCMoney = Sendable(money)]
      BY <1>1, <2>4, <2>6, GrantReads
  <2>8. Granting(g, {}) = [ReqServiceUnit EXCEPT
                              !.unCCTime = Unsigned(quota.units),
                              !.oCCMoney = Sendable(Rupees(Unsigned(quota.price)))]
      BY <2>3, <2>4, <2>7
  <2>9. Grants(said[q][i], Granting(g, {}))
      BY <1>1
  <2>10. \E x \in TariffQuota \cup {[units |-> 0, price |-> 0]} :
             Grants(said[q][i],
                    [ReqServiceUnit EXCEPT
                        !.unCCTime = Unsigned(x.units),
                        !.oCCMoney = Sendable(Rupees(Unsigned(x.price)))])
      BY <2>1, <2>8, <2>9, Zenon
  <2> QED
      BY <1>3, <2>10
<1> QED
    BY <1>2, <1>3

-----------------------------------------------------------------------------
(* Events *)

\* What each Requested-Action is called.
LEMMA ActionNames ==
    ASSUME NEW m, m.unRequestedAction \in Int
    PROVE  LET action == m.unRequestedAction
               name == OCF_GetRequestType(m)
           IN /\ name = "Direct_Debiting" <=> action = 0
              /\ name = "Refund_Account" <=> action = 1
              /\ name = "Check_Balance" <=> action = 2
              /\ name = "Price_Enquiry" <=> action = 3
<1>1. PICK t : t = <<"Direct_Debiting", "Refund_Account", "Check_Balance", "Price_Enquiry">>
    OBVIOUS
<1>2. PICK n \in Int : n = m.unRequestedAction
    OBVIOUS
<1>3. /\ DOMAIN t = 1 .. 4
      /\ t[1] = "Direct_Debiting" /\ t[2] = "Refund_Account"
      /\ t[3] = "Check_Balance" /\ t[4] = "Price_Enquiry"
    BY <1>1
<1>4. PICK name : name = OCF_GetRequestType(m)
    OBVIOUS
<1>5. name = IF n + 1 \in 1 .. 4 THEN t[n + 1] ELSE "Invalid_Request_Type"
    BY <1>1, <1>2, <1>3, <1>4 DEF OCF_GetRequestType
<1>6. CASE n = 0
    BY <1>2, <1>3, <1>4, <1>5, <1>6
<1>7. CASE n = 1
    BY <1>2, <1>3, <1>4, <1>5, <1>7
<1>8. CASE n = 2
    BY <1>2, <1>3, <1>4, <1>5, <1>8
<1>9. CASE n = 3
    BY <1>2, <1>3, <1>4, <1>5, <1>9
<1>10. CASE n \notin {0, 1, 2, 3}
  <2>1. n + 1 \notin 1 .. 4
      BY <1>10
  <2> QED
      BY <1>2, <1>4, <1>5, <1>10, <2>1
<1> QED
    BY <1>6, <1>7, <1>8, <1>9, <1>10

\* The action of an Event decides what its answer has.
LEMMA EventsFollow == ContentInv => EventsDoWhatTheyAsk
<1> SUFFICES ASSUME ContentInv, NEW q \in Request, NEW i \in RatedAnswers(q),
                    ccr[q].type = "EVENT"
    PROVE  LET action == Unsigned(LastNumber(wire[q], "REQUESTED_ACTION", 0))
               own == LastNumber(wire[q], "SERVICE_IDENTIFIER", OCS_UNSUED_VALUE)
                          # OCS_UNSUED_VALUE
               answer == said[q][i].avps
               Only(avps, code, reason) ==
                   /\ Having(avps, code) # <<>> => reason
                   /\ Complete(said[q][i]) /\ reason => Having(avps, code) # <<>>
           IN /\ Only(answer, "GRANTED_SERVICE_UNIT", action = 0 /\ own)
              /\ Only(Service(answer), "GRANTED_SERVICE_UNIT", action = 0 /\ ~own)
              /\ Only(answer, "COST_INFORMATION", action \in {1, 3})
              /\ Only(answer, "CHECK_BALANCE_RESULT", action = 2)
    BY DEF EventsDoWhatTheyAsk
<1>1. PICK m : m = said[q][i].avps
    OBVIOUS
<1>l. PICK lost : lost = said[q][i].lost
    OBVIOUS
<1>2. PICK cca \in CCAs : GrantsOf(q, cca) /\ SaysOf(m, CCROf(q), cca, lost)
  <2>1. \A c : ~RefusalsOf(q, c)
      BY DEF RefusalsOf
  <2> QED
      BY <1>1, <1>l, <2>1, RatedFacts
<1>3. AskedOwn(q) /\ CCROf(q) \in CCRs /\ CCROf(q) = CCRIn(wire[q])
    BY RatedFacts
<1>4. PICK r \in CCRs : r = CCROf(q)
    BY <1>3
<1>5. /\ r.unRequestedAction = Unsigned(LastNumber(wire[q], "REQUESTED_ACTION", 0))
      /\ r.unServiceId = LastNumber(wire[q], "SERVICE_IDENTIFIER", OCS_UNSUED_VALUE)
    BY <1>3, <1>4 DEF CCRIn
<1>6. PICK action \in Int : action = r.unRequestedAction
    BY DEF CCRs
<1>7. PICK name : name = OCF_GetRequestType(r)
    OBVIOUS
<1>8. /\ name = "Direct_Debiting" <=> action = 0
      /\ name = "Refund_Account" <=> action = 1
      /\ name = "Check_Balance" <=> action = 2
      /\ name = "Price_Enquiry" <=> action = 3
    BY <1>6, <1>7, ActionNames
<1>9. PICK a : /\ a.oRequestSubType = name
               /\ a.oGrantedServiceUnit \in GrantedUnits
               /\ a.oCostInfo \in CostInformations
               /\ a.oCheckBalanceResult = 0
               /\ a.unRatingFuncResultCode \in Int
               /\ Balanced(a)
               /\ cca = GrantedEvent(r, a)
    BY <1>2, <1>3, <1>4, <1>7, EventGrant
<1>10. PICK own \in BOOLEAN : own <=> r.unServiceId # OCS_UNSUED_VALUE
    OBVIOUS
<1>11. /\ own => /\ cca.oMultiServicesCC = <<>>
                 /\ cca.poGrantedServiceUnits = <<>> <=> name # "Direct_Debiting"
       /\ ~own => /\ cca.poGrantedServiceUnits = <<>>
                  /\ \E s \in AnsweredServices :
                        /\ cca.oMultiServicesCC = <<s>>
                        /\ s.poGrantedServiceUnits = <<>> <=> name # "Direct_Debiting"
       /\ cca.poCostInfo = <<>> <=> name \notin {"Refund_Account", "Price_Enquiry"}
       /\ cca.oCheckBalanceResult = OCS_NOT_USED <=> name # "Check_Balance"
    BY <1>9, <1>10, EventType
<1>i. PICK inside : inside = Inside("MULTIPLE_SERVICES_CREDIT_CONTROL", lost)
    OBVIOUS
<1>e. lost = {} => inside = {}
    BY <1>i DEF Inside
<1>12. /\ Having(m, "GRANTED_SERVICE_UNIT") # <<>> <=>
              cca.poGrantedServiceUnits # <<>> /\ <<"GRANTED_SERVICE_UNIT">> \notin lost
       /\ Having(m, "MULTIPLE_SERVICES_CREDIT_CONTROL") =
              IF /\ cca.oMultiServicesCC # <<>>
                 /\ <<"MULTIPLE_SERVICES_CREDIT_CONTROL">> \notin lost
              THEN <<OCF_CreatMultipleServiceCCAVP(cca.oMultiServicesCC[1], inside)>>
              ELSE <<>>
       /\ Having(m, "COST_INFORMATION") # <<>> <=>
              cca.poCostInfo # <<>> /\ <<"COST_INFORMATION">> \notin lost
       /\ Having(m, "CHECK_BALANCE_RESULT") # <<>> <=>
              /\ cca.oCheckBalanceResult # OCS_NOT_USED
              /\ <<"CHECK_BALANCE_RESULT">> \notin lost
    BY <1>2, <1>i DEF SaysOf
<1> DEFINE Only(avps, code, reason) ==
               /\ Having(avps, code) # <<>> => reason
               /\ lost = {} /\ reason => Having(avps, code) # <<>>
<1>13. Only(Service(m), "GRANTED_SERVICE_UNIT", action = 0 /\ ~own)
  <2>1. CASE own
    <3>1. Having(m, "MULTIPLE_SERVICES_CREDIT_CONTROL") = <<>>
        BY <1>11, <1>12, <2>1
    <3> QED
        BY <2>1, <3>1, NoServiceOfAnswer
  <2>2. CASE ~own
    <3>1. PICK s \in AnsweredServices :
              /\ cca.oMultiServicesCC = <<s>>
              /\ s.poGrantedServiceUnits = <<>> <=> name # "Direct_Debiting"
        BY <1>11, <2>2
    <3>2. Having(m, "MULTIPLE_SERVICES_CREDIT_CONTROL") =
              IF <<"MULTIPLE_SERVICES_CREDIT_CONTROL">> \in lost THEN <<>>
              ELSE <<OCF_CreatMultipleServiceCCAVP(s, inside)>>
        BY <1>12, <3>1
    <3>3. CASE <<"MULTIPLE_SERVICES_CREDIT_CONTROL">> \in lost
      <4>1. lost # {}
          BY <3>3
      <4> QED
          BY <3>2, <3>3, <4>1, NoServiceOfAnswer
    <3>4. CASE <<"MULTIPLE_SERVICES_CREDIT_CONTROL">> \notin lost
      <4>1. Having(Service(m), "GRANTED_SERVICE_UNIT") # <<>> <=>
                s.poGrantedServiceUnits # <<>> /\ <<"GRANTED_SERVICE_UNIT">> \notin inside
          BY <3>2, <3>4, ServiceOfAnswer
      <4> QED
          BY <1>8, <1>e, <2>2, <3>1, <4>1
    <3> QED
        BY <3>3, <3>4
  <2> QED
      BY <2>1, <2>2
<1>14. Only(m, "GRANTED_SERVICE_UNIT", action = 0 /\ own)
    BY <1>8, <1>11, <1>12
<1>15. Only(m, "COST_INFORMATION", action \in {1, 3})
    BY <1>8, <1>11, <1>12
<1>16. Only(m, "CHECK_BALANCE_RESULT", action = 2)
    BY <1>8, <1>11, <1>12
<1>17. Complete(said[q][i]) <=> lost = {}
    BY <1>l DEF Complete
<1> QED
    BY <1>1, <1>5, <1>6, <1>10, <1>13, <1>14, <1>15, <1>16, <1>17

-----------------------------------------------------------------------------
(* Theorems *)

\* With the contents of its messages the OCF is still that of module OCF, so that
\* what is proved of sessions and answers there holds here.
THEOREM ChargingIsOCF == ChargingSpec => Spec
BY ChargingStarts, ChargingSteps, PTL DEF ChargingSpec, Spec

\* Of a repeated AVP of a request the last value counts, in every message of any
\* length and depth (ocf_msgextractor.c:9-261).
THEOREM LastValueIsExtracted == ChargingSpec => []TheLastValueCounts
BY ContentInvHolds, LastValueFollows, PTL

\* The arrays of the t_OCSCCR hold the first services and reports, however many a
\* request has (ocf_msgextractor.c:70-75, 125-130).
THEOREM FirstOnesAreExtracted == ChargingSpec => []ArraysTakeTheFirst
BY ContentInvHolds, FirstOnesFollow, PTL

\* Different sub-sessions have different keys, but for Session-Ids that do not
\* fit (ocf_msgextractor.c:311-331, 23).
THEOREM KeysAreDistinct == ChargingSpec => []KeysTellSessionsApart
BY ContentInvHolds, KeysFollow, PTL

\* However many CCRs were freed, kept or replaced while a rating was under way, its
\* answer repeats the type, number and session of its own request, or lacks some
\* of them, but never those of another (ocf.c:221-341).
THEOREM AnswersEcho == ChargingSpec => []AnswersEchoTheirRequest
BY ContentInvHolds, EchoFollows, PTL

\* The service an answer is about is the one that was rated, but for a session
\* charged per event whose request names a service itself (ocf_ebcf.c:117-124,
\* ocf_statemachine.c:148-149).
THEOREM RatedServiceIsAnswered == ChargingSpec => []AnsweredServiceWasRated
BY ContentInvHolds, RatedServiceFollows, PTL

\* Whatever AVPs the code fails to add, a client finds no other number in the grant
\* of a session than one that was granted; in an answer to which all were added
\* it finds all of them, for every quota and every amount (ocf.c:367-368, 437-655,
\* ocf_statemachine.c:118-165).
THEOREM GrantsAreReadAsMeant == ChargingSpec => []GrantsSurviveTheWire
BY ContentInvHolds, GrantsFollow, PTL

\* An Event is never answered by what its Requested-Action does not ask for, and,
\* when every AVP could be added, by what it does (ocf.c:367-368, 376-381,
\* ocf_ebcf.c:77-94, ocsdb.c:202-231, ocf_statemachine.c:275-308).
THEOREM EventsAreAnswered == ChargingSpec => []EventsDoWhatTheyAsk
BY ContentInvHolds, EventsFollow, PTL

\* A refused Update or Terminate grants nothing (ocf_statemachine.c:424-475,
\* 567-620).
THEOREM RefusalsAreEmpty == ChargingSpec => []RefusalsGrantNothing
BY ContentInvHolds, RefusalsFollow, PTL
=============================================================================
