---------------------------- MODULE Rating_proofs ----------------------------
(***************************************************************************)
(* Proofs about the rating function and the database threads, for any      *)
(* number of requests and threads, and whatever sends and queries fail:    *)
(* requests are not duplicated, verdicts are not mixed up, and module      *)
(* Rating implements RatingService.                                        *)
(***************************************************************************)
EXTENDS Rating, TLAPS

-----------------------------------------------------------------------------
(* The events that stand for a request, now and after a step *)

LEMMA OutstandingMembers ==
    ASSUME NEW e
    PROVE  e \in Outstanding <=>
               \/ e \in requests
               \/ e \in dbRequests
               \/ \E t \in Thread : work[t] # NULL /\ work[t] = e
               \/ \E a \in dbResponses \cup responses : a.event = e
  BY DEF Outstanding, Working

LEMMA OutstandingMembersNext ==
    ASSUME NEW e
    PROVE  e \in Outstanding' <=>
               \/ e \in requests'
               \/ e \in dbRequests'
               \/ \E t \in Thread : work'[t] # NULL /\ work'[t] = e
               \/ \E a \in dbResponses' \cup responses' : a.event = e
  BY DEF Outstanding, Working

LEMMA ResultTypes ==
    /\ Service!Blank \in Service!Outcome
    /\ Service!Refusal \in Service!Outcome
    /\ Service!Quota \in Service!Outcome
    /\ \A code : OutcomeOf(code) \in Service!Outcome
    /\ \A a \in Response : a.event \in Event /\ a.outcome \in Service!Outcome
    /\ \A e \in Event, outcome \in Service!Outcome :
          /\ [event |-> e, outcome |-> outcome] \in Response
          /\ [event |-> e, outcome |-> outcome].event = e
          /\ [event |-> e, outcome |-> outcome].outcome = outcome
    /\ \A e \in Event : e.request \in Request /\ e.kind \in Service!Kind
    /\ \A e, f \in Event : e.request = f.request /\ e.kind = f.kind => e = f
  BY DEF Service!Blank, Service!Refusal, Service!Quota, Service!Outcome, OutcomeOf,
         Response, Event, Service!Event

LEMMA SentIsOneMore ==
    ASSUME NEW queue, NEW e, NEW next \in Sent(queue, e)
    PROVE  /\ queue \subseteq next
           /\ next \subseteq queue \cup {e}
           /\ e \notin next => "loss" \in Faults
  BY DEF Sent

-----------------------------------------------------------------------------
(* Types *)

LEMMA TypesStart == Init => TypeOK
  BY DEF Init, TypeOK, Service!Verdict

LEMMA AskType == ASSUME TypeOK, NEW e \in Event, Ask(e) PROVE TypeOK'
  BY ResultTypes DEF Ask, TypeOK, Service!Verdict

LEMMA RelayTypes ==
    ASSUME TypeOK, NEW e \in Event, HandleRequest(e) \/ HandleDBResponse(e)
    PROVE  TypeOK'
<1>1. CASE HandleRequest(e)
  BY <1>1, ResultTypes, SentIsOneMore
     DEF HandleRequest, RatingFunc_ProcessRequest, TypeOK, Without
<1>2. CASE HandleDBResponse(e)
  <2>. PICK a \in dbResponses : RatingFunc_ProcessDBResponse(a)
    BY <1>2 DEF HandleDBResponse
  <2>. QED
    BY ResultTypes, SentIsOneMore DEF RatingFunc_ProcessDBResponse, TypeOK, Without
<1>. QED
  BY <1>1, <1>2

LEMMA RespondType ==
    ASSUME TypeOK, NEW e \in Event, NEW outcome \in Service!Outcome, Respond(e, outcome)
    PROVE  dbResponses' \subseteq Response
<1>1. [event |-> e, outcome |-> outcome] \in Response
  BY ResultTypes
<1>. QED
  BY <1>1, SentIsOneMore DEF Respond, TypeOK

LEMMA DatabaseTypes ==
    ASSUME TypeOK, NEW e \in Event, HandleDBRequest(e)
    PROVE  TypeOK'
<1>. PICK t \in Thread : OCSDB_ProcessPriceRequest(t, e) \/ ProcessTariffRequest(t, e)
  BY DEF HandleDBRequest
<1>1. CASE OCSDB_ProcessPriceRequest(t, e)
  BY <1>1, ResultTypes, RespondType DEF OCSDB_ProcessPriceRequest, Takes, TypeOK, Without
<1>2. CASE CallFails(t, e)
  BY <1>2, ResultTypes, RespondType DEF CallFails, Takes, TypeOK, Without
<1>3. ASSUME NEW verdict \in Service!Verdict \ {"open"}, CallProcedure(t, e, verdict)
      PROVE  TypeOK'
  BY <1>3, ResultTypes DEF CallProcedure, Connection, Takes, TypeOK, Without
<1>. QED
  BY <1>1, <1>2, <1>3 DEF ProcessTariffRequest

LEMMA SelectTypes == ASSUME TypeOK, NEW t \in Thread, SelectResults(t) PROVE TypeOK'
<1>1. work[t] \in Event
  BY DEF TypeOK, SelectResults
<1>2. dbResponses' \subseteq Response
  BY <1>1, ResultTypes, RespondType DEF SelectResults
<1>. QED
  BY <1>1, <1>2 DEF SelectResults, TypeOK

LEMMA DeliverTypes == ASSUME TypeOK, NEW a \in responses, Deliver(a) PROVE TypeOK'
  BY ResultTypes DEF Deliver, TypeOK, Without

\* The same holds when the process ends (ocsdb.c:319-323).
LEMMA LossTypes == ASSUME TypeOK, LoseAll PROVE TypeOK'
  BY DEF LoseAll, TypeOK

LEMMA TypesStay == TypeOK /\ [Next]_vars => TypeOK'
<1>. SUFFICES ASSUME TypeOK, [Next]_vars PROVE TypeOK'
  OBVIOUS
<1>1. CASE UNCHANGED vars
  BY <1>1 DEF vars, TypeOK
<1>2. CASE Next
  BY <1>2, AskType, RelayTypes, DatabaseTypes, SelectTypes, DeliverTypes, LossTypes
     DEF Next, Internal, ResultMissing
<1>. QED
  BY <1>1, <1>2

\* Every reachable state of the rating function and the database threads is
\* well typed: no response is sent without a result, and no code but those of
\* the procedure is kept (ocsdb.c:256-360).
THEOREM RatingTypeCorrect == Spec => []TypeOK
  BY TypesStart, TypesStay, PTL DEF Spec

-----------------------------------------------------------------------------
(* One event at a time for each request *)

\* RequestsAreNotDuplicated says it of the queues, of the threads and of their
\* union; each part is kept by itself.
OneEventEach == \A e, f \in Outstanding : e.request = f.request => e = f

OneThreadEach == \A t, u \in Thread : work[t] # NULL /\ work[t] = work[u] => t = u

OneResponseEach == \A a, b \in dbResponses \cup responses : a.event = b.event => a = b

\* The queue of an event, or its thread, is the only place it is at.
PlacesAreDisjoint ==
    /\ requests \cap dbRequests = {}
    /\ dbResponses \cap responses = {}
    /\ \A t \in Thread : work[t] # NULL => work[t] \notin requests \cup dbRequests
    /\ \A a \in dbResponses \cup responses :
          /\ a.event \notin requests \cup dbRequests
          /\ \A t \in Thread : work[t] # a.event

LEMMA DuplicationParts ==
    ASSUME TypeOK
    PROVE  RequestsAreNotDuplicated <=>
               OneEventEach /\ OneThreadEach /\ OneResponseEach /\ PlacesAreDisjoint
<1>1. \A a \in dbResponses \cup responses : a.event # NULL
  BY ResultTypes, RatingAssumption DEF TypeOK
<1>. QED
  BY <1>1 DEF RequestsAreNotDuplicated, OneEventEach, OneThreadEach, OneResponseEach,
              PlacesAreDisjoint, Working

Apart == OneEventEach /\ OneThreadEach /\ OneResponseEach /\ PlacesAreDisjoint

LEMMA ApartStarts == Init => Apart
  BY OutstandingMembers
     DEF Init, Apart, OneEventEach, OneThreadEach, OneResponseEach, PlacesAreDisjoint

LEMMA AskApart == ASSUME TypeOK, Apart, NEW e \in Event, Ask(e) PROVE Apart'
<1>1. e \notin Outstanding /\ \A p \in Outstanding : p.request # e.request
  BY DEF Ask
<1>2. OneEventEach'
  BY <1>1, OutstandingMembers, OutstandingMembersNext DEF Ask, Apart, OneEventEach
<1>3. PlacesAreDisjoint'
  BY <1>1, OutstandingMembers DEF Ask, Apart, PlacesAreDisjoint
<1>. QED
  BY <1>2, <1>3 DEF Ask, Apart, OneThreadEach, OneResponseEach

\* After any other step no event is new, so that none meets another one.
LEMMA FewerEvents ==
    ASSUME OneEventEach, Outstanding' \subseteq Outstanding
    PROVE  OneEventEach'
  BY DEF OneEventEach

LEMMA RelayApart ==
    ASSUME TypeOK, Apart, NEW e \in Event, HandleRequest(e) \/ HandleDBResponse(e)
    PROVE  Apart' /\ Outstanding' \subseteq Outstanding
<1>1. CASE HandleRequest(e)
  <2>. USE <1>1 DEF HandleRequest, RatingFunc_ProcessRequest, Without, Apart
  <2>1. dbRequests' \subseteq dbRequests \cup {e}
    BY SentIsOneMore
  <2>2. Outstanding' \subseteq Outstanding
    BY <2>1, OutstandingMembers, OutstandingMembersNext
  <2>3. OneEventEach'
    BY <2>2, FewerEvents
  <2>4. PlacesAreDisjoint'
    BY <2>1 DEF PlacesAreDisjoint
  <2>. QED
    BY <2>2, <2>3, <2>4 DEF OneThreadEach, OneResponseEach
<1>2. CASE HandleDBResponse(e)
  <2>. PICK a \in dbResponses : RatingFunc_ProcessDBResponse(a)
    BY <1>2 DEF HandleDBResponse
  <2>. USE DEF RatingFunc_ProcessDBResponse, Without, Apart
  <2>1. responses' \subseteq responses \cup {a}
    BY SentIsOneMore
  <2>2. Outstanding' \subseteq Outstanding
    BY <2>1, OutstandingMembers, OutstandingMembersNext
  <2>3. OneEventEach'
    BY <2>2, FewerEvents
  <2>4. PlacesAreDisjoint'
    BY <2>1 DEF PlacesAreDisjoint
  <2>5. OneResponseEach'
    BY <2>1 DEF OneResponseEach
  <2>. QED
    BY <2>2, <2>3, <2>4, <2>5 DEF OneThreadEach
<1>. QED
  BY <1>1, <1>2

\* A response takes the place of the event that left its own.
LEMMA ResponsesGrow ==
    ASSUME NEW e \in Event, NEW outcome \in Service!Outcome, Respond(e, outcome)
    PROVE  \A a \in dbResponses' :
               \/ a \in dbResponses
               \/ a.event = e /\ a = [event |-> e, outcome |-> outcome]
  BY ResultTypes, SentIsOneMore DEF Respond

LEMMA AnsweredApart ==
    ASSUME TypeOK, Apart, NEW t \in Thread, NEW e \in Event,
           NEW outcome \in Service!Outcome,
           Takes(t, e, e.kind), Respond(e, outcome), UNCHANGED work
    PROVE  Apart' /\ Outstanding' \subseteq Outstanding
<1>. USE DEF Takes, Without, Apart
<1>1. \A a \in dbResponses' :
         \/ a \in dbResponses
         \/ a.event = e /\ a = [event |-> e, outcome |-> outcome]
  BY ResponsesGrow
<1>2. Outstanding' \subseteq Outstanding
  BY <1>1, OutstandingMembers, OutstandingMembersNext
<1>3. OneEventEach'
  BY <1>2, FewerEvents
<1>4. PlacesAreDisjoint'
  BY <1>1, RatingAssumption DEF PlacesAreDisjoint
<1>5. OneResponseEach'
  BY <1>1 DEF OneResponseEach, PlacesAreDisjoint
<1>. QED
  BY <1>2, <1>3, <1>4, <1>5 DEF OneThreadEach

LEMMA DatabaseApart ==
    ASSUME TypeOK, Apart, NEW e \in Event, HandleDBRequest(e)
    PROVE  Apart' /\ Outstanding' \subseteq Outstanding
<1>. PICK t \in Thread : OCSDB_ProcessPriceRequest(t, e) \/ ProcessTariffRequest(t, e)
  BY DEF HandleDBRequest
<1>1. CASE OCSDB_ProcessPriceRequest(t, e) \/ CallFails(t, e)
  BY <1>1, AnsweredApart, ResultTypes DEF OCSDB_ProcessPriceRequest, CallFails, Takes
<1>2. ASSUME NEW verdict, CallProcedure(t, e, verdict)
      PROVE  Apart' /\ Outstanding' \subseteq Outstanding
  <2>. USE <1>2 DEF CallProcedure, Takes, Without, Apart
  <2>1. \A u \in Thread : work'[u] = IF u = t THEN e ELSE work[u]
    BY DEF TypeOK
  <2>2. Outstanding' \subseteq Outstanding
    BY <2>1, OutstandingMembers, OutstandingMembersNext
  <2>3. OneEventEach'
    BY <2>2, FewerEvents
  <2>4. PlacesAreDisjoint'
    BY <2>1 DEF PlacesAreDisjoint
  <2>5. OneThreadEach'
    BY <2>1 DEF OneThreadEach, PlacesAreDisjoint
  <2>. QED
    BY <2>2, <2>3, <2>4, <2>5 DEF OneResponseEach
<1>. QED
  BY <1>1, <1>2 DEF ProcessTariffRequest

LEMMA SelectApart ==
    ASSUME TypeOK, Apart, NEW t \in Thread, SelectResults(t)
    PROVE  Apart' /\ Outstanding' \subseteq Outstanding
<1>. USE DEF SelectResults, Apart
<1>1. work[t] \in Event /\ work[t] # NULL
  BY DEF TypeOK
<1>2. PICK outcome \in Service!Outcome : Respond(work[t], outcome)
  BY ResultTypes
<1>3. \A a \in dbResponses' :
         \/ a \in dbResponses
         \/ a.event = work[t] /\ a = [event |-> work[t], outcome |-> outcome]
  BY <1>1, <1>2, ResponsesGrow
<1>4. \A u \in Thread : work'[u] = IF u = t THEN NULL ELSE work[u]
  BY DEF TypeOK
<1>5. Outstanding' \subseteq Outstanding
  BY <1>1, <1>3, <1>4, OutstandingMembers, OutstandingMembersNext
<1>6. OneEventEach'
  BY <1>5, FewerEvents
<1>7. PlacesAreDisjoint'
  <2>1. \A a \in responses : a.event # NULL
    BY ResultTypes, RatingAssumption DEF TypeOK
  <2>2. \A a \in dbResponses : a.event # NULL
    BY ResultTypes, RatingAssumption DEF TypeOK
  <2>. QED
    BY <1>1, <1>3, <1>4, <2>1, <2>2 DEF PlacesAreDisjoint, OneThreadEach
<1>8. OneResponseEach'
  BY <1>1, <1>3 DEF OneResponseEach, PlacesAreDisjoint
<1>9. OneThreadEach'
  BY <1>4 DEF OneThreadEach
<1>. QED
  BY <1>5, <1>6, <1>7, <1>8, <1>9

LEMMA DeliverApart ==
    ASSUME TypeOK, Apart, NEW a \in responses, Deliver(a)
    PROVE  Apart' /\ Outstanding' \subseteq Outstanding
<1>. USE DEF Deliver, Without, Apart
<1>1. Outstanding' \subseteq Outstanding
  BY OutstandingMembers, OutstandingMembersNext
<1>2. OneEventEach'
  BY <1>1, FewerEvents
<1>. QED
  BY <1>1, <1>2 DEF OneThreadEach, OneResponseEach, PlacesAreDisjoint

LEMMA LossApart == ASSUME LoseAll PROVE Apart' /\ Outstanding' = {}
<1>1. Outstanding' = {}
  BY OutstandingMembersNext DEF LoseAll
<1>. QED
  BY <1>1 DEF LoseAll, Apart, OneEventEach, OneThreadEach, OneResponseEach, PlacesAreDisjoint

LEMMA ApartStays == TypeOK /\ Apart /\ [Next]_vars => Apart'
<1>. SUFFICES ASSUME TypeOK, Apart, [Next]_vars PROVE Apart'
  OBVIOUS
<1>1. CASE UNCHANGED vars
  <2>1. Outstanding' \subseteq Outstanding
    BY <1>1, OutstandingMembers, OutstandingMembersNext DEF vars
  <2>. QED
    BY <1>1, <2>1, FewerEvents
       DEF vars, Apart, OneThreadEach, OneResponseEach, PlacesAreDisjoint
<1>2. CASE Next
  BY <1>2, AskApart, RelayApart, DatabaseApart, SelectApart, DeliverApart, LossApart
     DEF Next, Internal, ResultMissing
<1>. QED
  BY <1>1, <1>2

LEMMA TypedAndApart == Spec => [](TypeOK /\ Apart)
  BY TypesStart, TypesStay, ApartStarts, ApartStays, PTL DEF Spec

\* Two events never stand for the same request and no two threads work for it,
\* however events are delayed, reordered and lost (ratingfunc.c:121-200).
THEOREM NoRequestIsDuplicated == Spec => []RequestsAreNotDuplicated
<1>1. TypeOK /\ Apart => RequestsAreNotDuplicated
  BY DuplicationParts DEF Apart
<1>. QED
  BY <1>1, TypedAndApart, PTL

-----------------------------------------------------------------------------
(***************************************************************************)
(* Verdicts.  What ties an event to the verdict on its request: there is   *)
(* none while the request waits, the one in the connection while a thread  *)
(* works for it, and one that justifies the response afterwards.           *)
(***************************************************************************)
WaitingIsUndecided == \A e \in requests \cup dbRequests : verdicts[e.request] = "open"

WorkIsForTariffs == \A t \in Thread : work[t] # NULL => work[t].kind = "Tariff"

JustifiedBy(a, verdict) == Service!Justified(a.event.kind, verdict, a.outcome)

ResponsesAreJustified ==
    \A a \in dbResponses \cup responses : JustifiedBy(a, verdicts[a.event.request])

VerdictsMatch ==
    /\ VerdictsAreNotMixedUp
    /\ WaitingIsUndecided
    /\ WorkIsForTariffs
    /\ ResponsesAreJustified

LEMMA VerdictsStart == Init => VerdictsMatch
  BY DEF Init, VerdictsMatch, VerdictsAreNotMixedUp, WaitingIsUndecided,
         WorkIsForTariffs, ResponsesAreJustified

LEMMA AskVerdicts ==
    ASSUME TypeOK, Apart, VerdictsMatch, NEW e \in Event, Ask(e)
    PROVE  VerdictsMatch'
<1>1. \A p \in Outstanding : p.request # e.request
  BY DEF Ask
<1>2. \A p \in Event : p.request # e.request => verdicts'[p.request] = verdicts[p.request]
  BY ResultTypes DEF Ask, TypeOK
<1>3. verdicts'[e.request] = "open"
  BY ResultTypes DEF Ask, TypeOK
<1>4. WaitingIsUndecided'
  BY <1>1, <1>2, <1>3, OutstandingMembers DEF Ask, TypeOK, VerdictsMatch, WaitingIsUndecided
<1>5. VerdictsAreNotMixedUp'
  BY <1>1, <1>2, OutstandingMembers
     DEF Ask, TypeOK, VerdictsMatch, VerdictsAreNotMixedUp, Connection
<1>6. ResponsesAreJustified'
  <2>1. \A a \in dbResponses \cup responses : a.event \in Event /\ a.event \in Outstanding
    BY ResultTypes, OutstandingMembers DEF TypeOK
  <2>. QED
    BY <1>1, <1>2, <2>1 DEF Ask, VerdictsMatch, ResponsesAreJustified
<1>. QED
  BY <1>4, <1>5, <1>6 DEF Ask, VerdictsMatch, WorkIsForTariffs

LEMMA RelayVerdicts ==
    ASSUME TypeOK, VerdictsMatch, NEW e \in Event, HandleRequest(e) \/ HandleDBResponse(e)
    PROVE  VerdictsMatch'
<1>. USE DEF VerdictsMatch, VerdictsAreNotMixedUp, WaitingIsUndecided, WorkIsForTariffs,
             ResponsesAreJustified, Without, Connection
<1>1. CASE HandleRequest(e)
  BY <1>1, SentIsOneMore DEF HandleRequest, RatingFunc_ProcessRequest
<1>2. CASE HandleDBResponse(e)
  <2>. PICK a \in dbResponses : RatingFunc_ProcessDBResponse(a)
    BY <1>2 DEF HandleDBResponse
  <2>1. responses' \subseteq responses \cup {a}
    BY SentIsOneMore DEF RatingFunc_ProcessDBResponse
  <2>. QED
    BY <2>1 DEF RatingFunc_ProcessDBResponse
<1>. QED
  BY <1>1, <1>2

\* A new response must be justified; the older ones stay so.
LEMMA RespondJustified ==
    ASSUME TypeOK, ResponsesAreJustified, NEW e \in Event, NEW outcome \in Service!Outcome,
           Respond(e, outcome), Service!Justified(e.kind, verdicts[e.request], outcome),
           UNCHANGED <<responses, verdicts>>
    PROVE  ResponsesAreJustified'
<1>1. \A a \in dbResponses' :
         \/ a \in dbResponses
         \/ a.event = e /\ a = [event |-> e, outcome |-> outcome]
  BY ResponsesGrow
<1>2. JustifiedBy([event |-> e, outcome |-> outcome], verdicts[e.request])
  BY DEF JustifiedBy
<1>. QED
  BY <1>1, <1>2 DEF ResponsesAreJustified

LEMMA DatabaseVerdicts ==
    ASSUME TypeOK, Apart, VerdictsMatch, NEW e \in Event, HandleDBRequest(e)
    PROVE  VerdictsMatch'
<1>. PICK t \in Thread : OCSDB_ProcessPriceRequest(t, e) \/ ProcessTariffRequest(t, e)
  BY DEF HandleDBRequest
<1>1. e \in dbRequests /\ verdicts[e.request] = "open"
  BY DEF OCSDB_ProcessPriceRequest, ProcessTariffRequest, CallFails, CallProcedure, Takes,
         VerdictsMatch, WaitingIsUndecided
<1>2. CASE OCSDB_ProcessPriceRequest(t, e)
  <2>1. Service!Justified(e.kind, verdicts[e.request], Service!Blank)
    BY <1>2 DEF OCSDB_ProcessPriceRequest, Takes, Service!Justified
  <2>2. ResponsesAreJustified'
    BY <1>2, <2>1, ResultTypes, RespondJustified
       DEF OCSDB_ProcessPriceRequest, Takes, VerdictsMatch
  <2>. QED
    BY <1>2, <2>2
       DEF OCSDB_ProcessPriceRequest, Takes, Without, VerdictsMatch, VerdictsAreNotMixedUp,
           WaitingIsUndecided, WorkIsForTariffs, Connection
<1>3. CASE CallFails(t, e)
  <2>1. Service!Justified(e.kind, verdicts[e.request], Service!Refusal)
    BY <1>1, <1>3 DEF CallFails, Takes, Service!Justified
  <2>2. ResponsesAreJustified'
    BY <1>3, <2>1, ResultTypes, RespondJustified DEF CallFails, Takes, VerdictsMatch
  <2>. QED
    BY <1>3, <2>2
       DEF CallFails, Takes, Without, VerdictsMatch, VerdictsAreNotMixedUp,
           WaitingIsUndecided, WorkIsForTariffs, Connection
<1>4. ASSUME NEW verdict \in Service!Verdict \ {"open"}, CallProcedure(t, e, verdict)
      PROVE  VerdictsMatch'
  <2>. USE <1>4 DEF CallProcedure, Takes, Without, Connection, VerdictsMatch
  <2>1. \A p \in Outstanding : p # e => p.request # e.request
    BY <1>1, OutstandingMembers DEF Apart, OneEventEach
  <2>2. \A p \in Event : p.request # e.request => verdicts'[p.request] = verdicts[p.request]
    BY ResultTypes DEF TypeOK
  <2>3. verdicts'[e.request] = verdict /\ nRetCode'[t] = verdict
    BY ResultTypes DEF TypeOK
  <2>4. \A u \in Thread : work'[u] = IF u = t THEN e ELSE work[u]
    BY DEF TypeOK
  <2>5. WaitingIsUndecided'
    <3>1. \A p \in requests' \cup dbRequests' :
             p # e /\ p \in Event /\ p \in requests \cup dbRequests
      BY <1>1 DEF TypeOK, Apart, PlacesAreDisjoint
    <3>. QED
      BY <2>1, <2>2, <3>1, OutstandingMembers DEF WaitingIsUndecided
  <2>6. VerdictsAreNotMixedUp'
    <3>. SUFFICES ASSUME NEW u \in Thread, work'[u] # NULL
                  PROVE  nRetCode'[u] = verdicts'[work'[u].request]
                         /\ verdicts'[work'[u].request] # "open"
      BY DEF VerdictsAreNotMixedUp
    <3>1. CASE u = t
      BY <2>3, <2>4, <3>1
    <3>2. CASE u # t
      <4>1. nRetCode'[u] = nRetCode[u] /\ work'[u] = work[u] /\ work[u] \in Event
        BY <2>4, <3>2 DEF TypeOK
      <4>2. work[u] # e /\ work[u] \in Outstanding
        BY <1>1, <4>1, OutstandingMembers DEF Apart, PlacesAreDisjoint
      <4>. QED
        BY <2>1, <2>2, <4>1, <4>2 DEF VerdictsAreNotMixedUp
    <3>. QED
      BY <3>1, <3>2
  <2>7. WorkIsForTariffs'
    BY <2>4 DEF WorkIsForTariffs
  <2>8. ResponsesAreJustified'
    <3>1. \A a \in dbResponses \cup responses :
             a.event \in Event /\ a.event \in Outstanding /\ a.event # e
      BY <1>1, ResultTypes, OutstandingMembers DEF TypeOK, Apart, PlacesAreDisjoint
    <3>. QED
      BY <2>1, <2>2, <3>1 DEF ResponsesAreJustified
  <2>. QED
    BY <2>5, <2>6, <2>7, <2>8
<1>. QED
  BY <1>2, <1>3, <1>4 DEF ProcessTariffRequest

LEMMA SelectVerdicts ==
    ASSUME TypeOK, Apart, VerdictsMatch, NEW t \in Thread, SelectResults(t)
    PROVE  VerdictsMatch'
<1>. USE DEF SelectResults, VerdictsMatch
<1>1. work[t] \in Event /\ work[t] # NULL
  BY DEF TypeOK
<1>2. /\ work[t].kind = "Tariff"
      /\ nRetCode[t] = verdicts[work[t].request]
      /\ verdicts[work[t].request] \in {"grant", "deny", "other"}
  BY <1>1, ResultTypes
     DEF TypeOK, VerdictsAreNotMixedUp, WorkIsForTariffs, Connection, Service!Verdict
<1>3. PICK outcome \in Service!Outcome :
         /\ Respond(work[t], outcome)
         /\ \/ outcome = OutcomeOf(nRetCode[t])
            \/ outcome = Service!Blank /\ "select" \in Faults
  BY ResultTypes DEF Connection
<1>4. Service!Justified(work[t].kind, verdicts[work[t].request], outcome)
  BY <1>2, <1>3 DEF OutcomeOf, Service!Justified
<1>5. ResponsesAreJustified'
  BY <1>1, <1>3, <1>4, RespondJustified
<1>6. \A u \in Thread : work'[u] = IF u = t THEN NULL ELSE work[u]
  BY DEF TypeOK
<1>. QED
  BY <1>5, <1>6 DEF VerdictsAreNotMixedUp, WaitingIsUndecided, WorkIsForTariffs, Connection

LEMMA DeliverVerdicts ==
    ASSUME VerdictsMatch, NEW a \in responses, Deliver(a)
    PROVE  VerdictsMatch'
  BY DEF Deliver, Without, VerdictsMatch, VerdictsAreNotMixedUp, WaitingIsUndecided,
         WorkIsForTariffs, ResponsesAreJustified, Connection

LEMMA LossVerdicts == ASSUME LoseAll PROVE VerdictsMatch'
  BY DEF LoseAll, VerdictsMatch, VerdictsAreNotMixedUp, WaitingIsUndecided,
         WorkIsForTariffs, ResponsesAreJustified

LEMMA VerdictsStay == TypeOK /\ Apart /\ VerdictsMatch /\ [Next]_vars => VerdictsMatch'
<1>. SUFFICES ASSUME TypeOK, Apart, VerdictsMatch, [Next]_vars PROVE VerdictsMatch'
  OBVIOUS
<1>1. CASE UNCHANGED vars
  BY <1>1 DEF vars, VerdictsMatch, VerdictsAreNotMixedUp, WaitingIsUndecided,
              WorkIsForTariffs, ResponsesAreJustified, Connection
<1>2. CASE Next
  BY <1>2, AskVerdicts, RelayVerdicts, DatabaseVerdicts, SelectVerdicts, DeliverVerdicts,
     LossVerdicts
     DEF Next, Internal, ResultMissing
<1>. QED
  BY <1>1, <1>2

\* The inductive invariant.
RatingInv == TypeOK /\ Apart /\ VerdictsMatch

LEMMA RatingInvariant == Spec => []RatingInv
<1>1. Init => RatingInv
  BY TypesStart, ApartStarts, VerdictsStart DEF RatingInv
<1>2. RatingInv /\ [Next]_vars => RatingInv'
  BY TypesStay, ApartStays, VerdictsStay DEF RatingInv
<1>. QED
  BY <1>1, <1>2, PTL DEF Spec

\* A thread reads back the verdict on the request it works for, however many
\* threads run their queries at the same time (ocsdb.c:297-319).
THEOREM NoVerdictIsMixedUp == Spec => []VerdictsAreNotMixedUp
<1>1. RatingInv => VerdictsAreNotMixedUp
  BY DEF RatingInv, VerdictsMatch
<1>. QED
  BY <1>1, RatingInvariant, PTL

-----------------------------------------------------------------------------
(***************************************************************************)
(* The refinement.  What is outstanding is what RatingService calls        *)
(* pending: asking adds to it, a delivered response and a lost event take  *)
(* away from it, and every other step only moves an event.                 *)
(***************************************************************************)
PromiseStep == [Service!Next]_Service!serviceVars

\* A step that at most loses the event e.
LEMMA MoveKeepsPromise ==
    ASSUME NEW e \in Event,
           Outstanding' \subseteq Outstanding,
           \A p \in Outstanding : p # e => p \in Outstanding',
           e \notin Outstanding' => "loss" \in Faults,
           UNCHANGED <<verdicts, replies>>
    PROVE  PromiseStep
<1>1. CASE e \in Outstanding => e \in Outstanding'
  <2>1. Outstanding' = Outstanding
    BY <1>1
  <2>. QED
    BY <2>1 DEF PromiseStep, Service!serviceVars
<1>2. CASE e \in Outstanding /\ e \notin Outstanding'
  <2>1. Outstanding' = Outstanding \ {e}
    BY <1>2
  <2>2. Service!Lose(e)
    BY <1>2, <2>1 DEF Service!Lose
  <2>. QED
    BY <2>2 DEF PromiseStep, Service!Next, Event
<1>. QED
  BY <1>1, <1>2

LEMMA AskKeepsPromise == ASSUME NEW e \in Event, Ask(e) PROVE PromiseStep
<1>1. Outstanding' = Outstanding \cup {e}
  <2>1. \A p : p \in Outstanding' <=> p \in Outstanding \/ p = e
    BY OutstandingMembers, OutstandingMembersNext DEF Ask
  <2>. QED
    BY <2>1
<1>2. Service!Ask(e)
  BY <1>1 DEF Ask, Service!Ask
<1>. QED
  BY <1>2 DEF PromiseStep, Service!Next, Event

LEMMA RelayKeepsPromise ==
    ASSUME TypeOK, Apart, NEW e \in Event, HandleRequest(e) \/ HandleDBResponse(e)
    PROVE  PromiseStep
<1>0. Outstanding' \subseteq Outstanding
  BY RelayApart
<1>1. CASE HandleRequest(e)
  <2>. USE <1>1 DEF HandleRequest, RatingFunc_ProcessRequest, Without
  <2>1. dbRequests \subseteq dbRequests' /\ (e \notin dbRequests' => "loss" \in Faults)
    BY SentIsOneMore
  <2>2. \A p \in Outstanding : p # e => p \in Outstanding'
    BY <2>1, OutstandingMembers, OutstandingMembersNext
  <2>3. e \notin Outstanding' => "loss" \in Faults
    BY <2>1, OutstandingMembersNext
  <2>. QED
    BY <1>0, <2>2, <2>3, MoveKeepsPromise
<1>2. CASE HandleDBResponse(e)
  <2>. PICK a \in dbResponses : a.event = e /\ RatingFunc_ProcessDBResponse(a)
    BY <1>2 DEF HandleDBResponse
  <2>. USE DEF RatingFunc_ProcessDBResponse, Without
  <2>1. responses \subseteq responses' /\ (a \notin responses' => "loss" \in Faults)
    BY SentIsOneMore
  <2>2. \A p \in Outstanding : p # e => p \in Outstanding'
    BY <2>1, OutstandingMembers, OutstandingMembersNext
  <2>3. e \notin Outstanding' => "loss" \in Faults
    BY <2>1, OutstandingMembersNext
  <2>. QED
    BY <1>0, <2>2, <2>3, MoveKeepsPromise
<1>. QED
  BY <1>1, <1>2

LEMMA ResponsesKept ==
    ASSUME NEW e \in Event, NEW outcome \in Service!Outcome, Respond(e, outcome)
    PROVE  /\ dbResponses \subseteq dbResponses'
           /\ (\A a \in dbResponses' : a.event # e) => "loss" \in Faults
  BY ResultTypes, SentIsOneMore DEF Respond

LEMMA AnsweredKeepsPromise ==
    ASSUME TypeOK, Apart, NEW t \in Thread, NEW e \in Event,
           NEW outcome \in Service!Outcome,
           Takes(t, e, e.kind), Respond(e, outcome), UNCHANGED <<work, verdicts>>
    PROVE  PromiseStep
<1>. USE DEF Takes, Without
<1>1. Outstanding' \subseteq Outstanding
  BY AnsweredApart
<1>2. \A p \in Outstanding : p # e => p \in Outstanding'
  BY ResponsesKept, OutstandingMembers, OutstandingMembersNext
<1>3. e \notin Outstanding' => "loss" \in Faults
  BY ResponsesKept, OutstandingMembersNext
<1>. QED
  BY <1>1, <1>2, <1>3, MoveKeepsPromise

LEMMA DatabaseKeepsPromise ==
    ASSUME TypeOK, Apart, VerdictsMatch, NEW e \in Event, HandleDBRequest(e)
    PROVE  PromiseStep
<1>. PICK t \in Thread : OCSDB_ProcessPriceRequest(t, e) \/ ProcessTariffRequest(t, e)
  BY DEF HandleDBRequest
<1>1. CASE OCSDB_ProcessPriceRequest(t, e) \/ CallFails(t, e)
  BY <1>1, AnsweredKeepsPromise, ResultTypes
     DEF OCSDB_ProcessPriceRequest, CallFails, Takes
<1>2. ASSUME NEW verdict \in Service!Verdict \ {"open"}, CallProcedure(t, e, verdict)
      PROVE  PromiseStep
  <2>. USE <1>2 DEF CallProcedure, Takes, Without
  <2>1. \A u \in Thread : work'[u] = IF u = t THEN e ELSE work[u]
    BY DEF TypeOK
  <2>2. e # NULL
    BY RatingAssumption
  <2>3. \A p : p \in Outstanding' <=> p \in Outstanding
    BY <2>1, <2>2, OutstandingMembers, OutstandingMembersNext
  <2>4. Outstanding' = Outstanding /\ e \in Outstanding
    BY <2>3, OutstandingMembers
  <2>5. verdicts[e.request] = "open" /\ e.kind = "Tariff"
    BY DEF VerdictsMatch, WaitingIsUndecided
  <2>6. Service!Decide(e, verdict)
    BY <2>4, <2>5 DEF Service!Decide
  <2>. QED
    BY <2>6 DEF PromiseStep, Service!Next, Event
<1>. QED
  BY <1>1, <1>2 DEF ProcessTariffRequest

LEMMA SelectKeepsPromise ==
    ASSUME TypeOK, Apart, NEW t \in Thread, SelectResults(t)
    PROVE  PromiseStep
<1>. USE DEF SelectResults
<1>1. work[t] \in Event /\ work[t] # NULL
  BY DEF TypeOK
<1>2. PICK outcome \in Service!Outcome : Respond(work[t], outcome)
  BY ResultTypes
<1>3. Outstanding' \subseteq Outstanding
  BY SelectApart
<1>4. \A u \in Thread : work'[u] = IF u = t THEN NULL ELSE work[u]
  BY DEF TypeOK
<1>5. dbResponses \subseteq dbResponses'
      /\ ((\A a \in dbResponses' : a.event # work[t]) => "loss" \in Faults)
  BY <1>1, <1>2, ResponsesKept
<1>6. \A p \in Outstanding : p # work[t] => p \in Outstanding'
  BY <1>4, <1>5, OutstandingMembers, OutstandingMembersNext
<1>7. work[t] \notin Outstanding' => "loss" \in Faults
  BY <1>5, OutstandingMembersNext
<1>. QED
  BY <1>1, <1>3, <1>6, <1>7, MoveKeepsPromise

LEMMA DeliverKeepsPromise ==
    ASSUME TypeOK, Apart, VerdictsMatch, NEW a \in responses, Deliver(a)
    PROVE  PromiseStep
<1>. USE DEF Deliver, Without
<1>1. a.event \in Event /\ a.outcome \in Service!Outcome /\ a.event # NULL
  BY ResultTypes, RatingAssumption DEF TypeOK
<1>2. \A p : p \in Outstanding' <=> p \in Outstanding /\ p # a.event
  <2>1. a.event \notin Outstanding'
    BY <1>1, OutstandingMembersNext DEF Apart, PlacesAreDisjoint, OneResponseEach
  <2>2. \A p \in Outstanding : p # a.event => p \in Outstanding'
    BY OutstandingMembers, OutstandingMembersNext
  <2>3. Outstanding' \subseteq Outstanding
    BY DeliverApart
  <2>. QED
    BY <2>1, <2>2, <2>3
<1>3. Outstanding' = Outstanding \ {a.event} /\ a.event \in Outstanding
  BY <1>2, OutstandingMembers
<1>4. Service!Justified(a.event.kind, verdicts[a.event.request], a.outcome)
  BY DEF VerdictsMatch, ResponsesAreJustified, JustifiedBy
<1>5. Service!Reply(a.event, a.outcome)
  BY <1>3, <1>4 DEF Service!Reply
<1>. QED
  BY <1>1, <1>5 DEF PromiseStep, Service!Next, Event

\* The request a thread works for is outstanding, and there is a verdict on it.
LEMMA LossKeepsPromise ==
    ASSUME TypeOK, VerdictsMatch, NEW t \in Thread, ResultMissing(t)
    PROVE  PromiseStep
<1>1. work[t] # NULL /\ "row" \in Faults /\ LoseAll
  BY DEF ResultMissing
<1>2. work[t] \in Outstanding
  BY <1>1, OutstandingMembers
<1>3. work[t].kind = "Tariff" /\ verdicts[work[t].request] # "open"
  BY <1>1 DEF VerdictsMatch, WorkIsForTariffs, VerdictsAreNotMixedUp
<1>4. Outstanding' = {} /\ UNCHANGED <<verdicts, replies>>
  BY <1>1, LossApart DEF LoseAll
<1>5. Service!LoseAll
  BY <1>1, <1>2, <1>3, <1>4 DEF Service!LoseAll
<1>. QED
  BY <1>5 DEF PromiseStep, Service!Next

LEMMA StepKeepsPromise == RatingInv /\ [Next]_vars => PromiseStep
<1>. SUFFICES ASSUME RatingInv, [Next]_vars PROVE PromiseStep
  OBVIOUS
<1>. USE DEF RatingInv
<1>1. CASE UNCHANGED vars
  <2>1. Outstanding' = Outstanding
    <3>1. \A p : p \in Outstanding' <=> p \in Outstanding
      BY <1>1, OutstandingMembers, OutstandingMembersNext DEF vars
    <3>. QED
      BY <3>1
  <2>. QED
    BY <1>1, <2>1 DEF vars, PromiseStep, Service!serviceVars
<1>2. CASE Next
  BY <1>2, AskKeepsPromise, RelayKeepsPromise, DatabaseKeepsPromise, SelectKeepsPromise,
     DeliverKeepsPromise, LossKeepsPromise
     DEF Next, Internal
<1>. QED
  BY <1>1, <1>2

\* The rating function and the database threads implement RatingService: each
\* request gets at most one response, and one that the verdict on that very
\* request justifies (ratingfunc.c:121-200, ocsdb.c:167-360).
THEOREM RatingKeepsThePromise == Spec => KeepsThePromise
<1>1. Init => Service!Init
  <2>1. ASSUME Init PROVE Outstanding = {}
    BY <2>1, OutstandingMembers DEF Init
  <2>. QED
    BY <2>1 DEF Init, Service!Init
<1>2. RatingInv /\ [Next]_vars => [Service!Next]_Service!serviceVars
  BY StepKeepsPromise DEF PromiseStep
<1>. QED
  BY <1>1, <1>2, RatingInvariant, PTL DEF Spec, KeepsThePromise, Service!Spec
=============================================================================
