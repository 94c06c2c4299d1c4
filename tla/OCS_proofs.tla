----------------------------- MODULE OCS_proofs -----------------------------
(***************************************************************************)
(* Proofs about the whole server, for any number of requests, sessions and *)
(* database threads.  Whatever fails, it implements module OCF: what the   *)
(* rating function and the database threads do is, for the OCF, a set of   *)
(* ratings from which responses are taken in any order or lost.  When      *)
(* verdicts can be read, its answers follow the verdicts.  And since it    *)
(* implements module OCF, what is proved there holds of it.                *)
(***************************************************************************)
EXTENDS OCS, Sequences, TLAPS

(***************************************************************************)
(* The inductive invariant: the events under way stand for requests of the *)
(* OCF, every database thread is known, and a process that ended left      *)
(* nothing under way.                                                      *)
(***************************************************************************)
EventsAreOfRequests == \A e \in Rating!Outstanding : e.request \in Request

ThreadsAreTyped == work \in [Thread -> Rating!Event \cup {NULL}]

NothingOutlivesTheProcess == ~up => Rating!Outstanding = {}

ServerInv == EventsAreOfRequests /\ ThreadsAreTyped /\ NothingOutlivesTheProcess

-----------------------------------------------------------------------------
(* The events under way *)

LEMMA OutstandingMembers ==
    ASSUME NEW e
    PROVE  /\ e \in Rating!Outstanding <=>
                  \/ e \in requests
                  \/ e \in dbRequests
                  \/ \E t \in Thread : work[t] # NULL /\ work[t] = e
                  \/ \E a \in dbResponses \cup responses : a.event = e
           /\ e \in Rating!Outstanding' <=>
                  \/ e \in requests'
                  \/ e \in dbRequests'
                  \/ \E t \in Thread : work'[t] # NULL /\ work'[t] = e
                  \/ \E a \in dbResponses' \cup responses' : a.event = e
  BY DEF Rating!Outstanding, Rating!Working

LEMMA SentIsOneMore ==
    ASSUME NEW queue, NEW e, NEW next \in Rating!Sent(queue, e)
    PROVE  /\ queue \subseteq next
           /\ next \subseteq queue \cup {e}
           /\ e \notin next => "loss" \in Faults
  BY DEF Rating!Sent

\* What a step between request and response does to the events under way.
Handled(e) ==
    /\ Rating!Outstanding' \subseteq Rating!Outstanding
    /\ Rating!Outstanding \ {e} \subseteq Rating!Outstanding'
    /\ e \notin Rating!Outstanding' => "loss" \in Faults

LEMMA RelayHandles ==
    ASSUME NEW e, Rating!RatingFunc_ProcessRequest(e)
    PROVE  Handled(e) /\ UNCHANGED work
<1>1. /\ e \in requests
      /\ requests' = requests \ {e}
      /\ dbRequests' \in Rating!Sent(dbRequests, e)
      /\ UNCHANGED <<work, dbResponses, responses>>
  BY DEF Rating!RatingFunc_ProcessRequest, Rating!Without
<1>2. /\ dbRequests \subseteq dbRequests'
      /\ dbRequests' \subseteq dbRequests \cup {e}
      /\ e \notin dbRequests' => "loss" \in Faults
  BY <1>1, SentIsOneMore
<1>. QED
  BY <1>1, <1>2, OutstandingMembers DEF Handled

LEMMA ResponseRelayHandles ==
    ASSUME NEW a, Rating!RatingFunc_ProcessDBResponse(a)
    PROVE  Handled(a.event) /\ UNCHANGED work
<1>1. /\ a \in dbResponses
      /\ dbResponses' = dbResponses \ {a}
      /\ responses' \in Rating!Sent(responses, a)
      /\ UNCHANGED <<work, requests, dbRequests>>
  BY DEF Rating!RatingFunc_ProcessDBResponse, Rating!Without
<1>2. /\ responses \subseteq responses'
      /\ responses' \subseteq responses \cup {a}
      /\ a \notin responses' => "loss" \in Faults
  BY <1>1, SentIsOneMore
<1>. QED
  BY <1>1, <1>2, OutstandingMembers DEF Handled

LEMMA RespondIsOneMore ==
    ASSUME NEW e, NEW outcome, Rating!Respond(e, outcome)
    PROVE  /\ dbResponses \subseteq dbResponses'
           /\ \A a \in dbResponses' : a \in dbResponses \/ a.event = e
           /\ (~\E a \in dbResponses' : a.event = e) => "loss" \in Faults
<1>. DEFINE a == [event |-> e, outcome |-> outcome]
<1>1. a.event = e
  OBVIOUS
<1>2. dbResponses' \in Rating!Sent(dbResponses, a)
  BY DEF Rating!Respond
<1>. HIDE DEF a
<1>. QED
  BY <1>1, <1>2, SentIsOneMore

LEMMA DatabaseHandles ==
    ASSUME ThreadsAreTyped, NEW e \in Rating!Event, Rating!HandleDBRequest(e)
    PROVE  Handled(e) /\ ThreadsAreTyped'
<1>. PICK t \in Thread :
        Rating!OCSDB_ProcessPriceRequest(t, e) \/ Rating!ProcessTariffRequest(t, e)
  BY DEF Rating!HandleDBRequest
<1>1. ASSUME NEW kind, Rating!Takes(t, e, kind)
      PROVE  /\ work[t] = NULL
             /\ e \in dbRequests
             /\ dbRequests' = dbRequests \ {e}
             /\ UNCHANGED <<requests, responses>>
  BY <1>1 DEF Rating!Takes, Rating!Without
<1>2. ASSUME NEW kind, Rating!Takes(t, e, kind), NEW outcome, Rating!Respond(e, outcome),
             UNCHANGED work
      PROVE  Handled(e) /\ ThreadsAreTyped'
  <2>1. ThreadsAreTyped'
    BY <1>2 DEF ThreadsAreTyped
  <2>2. Handled(e)
    BY <1>1, <1>2, RespondIsOneMore, OutstandingMembers DEF Handled
  <2>. QED
    BY <2>1, <2>2
<1>3. CASE Rating!OCSDB_ProcessPriceRequest(t, e)
  BY <1>2, <1>3 DEF Rating!OCSDB_ProcessPriceRequest
<1>4. CASE Rating!CallFails(t, e)
  BY <1>2, <1>4 DEF Rating!CallFails
<1>5. ASSUME NEW verdict, Rating!CallProcedure(t, e, verdict)
      PROVE  Handled(e) /\ ThreadsAreTyped'
  <2>1. /\ work[t] = NULL
        /\ e \in dbRequests
        /\ dbRequests' = dbRequests \ {e}
        /\ UNCHANGED <<requests, responses, dbResponses>>
        /\ work' = [work EXCEPT ![t] = e]
    BY <1>1, <1>5 DEF Rating!CallProcedure
  <2>2. ThreadsAreTyped'
    BY <2>1 DEF ThreadsAreTyped
  <2>3. /\ work'[t] = e
        /\ \A u \in Thread : u # t => work'[u] = work[u]
    BY <2>1 DEF ThreadsAreTyped
  <2>4. e # NULL
    BY OCSAssumption
  <2>5. Handled(e)
    BY <2>1, <2>3, <2>4, OutstandingMembers DEF Handled
  <2>. QED
    BY <2>2, <2>5
<1>. QED
  BY <1>3, <1>4, <1>5 DEF Rating!ProcessTariffRequest

LEMMA SelectHandles ==
    ASSUME ThreadsAreTyped, NEW t \in Thread, Rating!SelectResults(t)
    PROVE  Handled(work[t]) /\ ThreadsAreTyped'
<1>. DEFINE e == work[t]
<1>1. /\ e # NULL
      /\ work' = [work EXCEPT ![t] = NULL]
      /\ \E outcome : Rating!Respond(e, outcome)
      /\ UNCHANGED <<requests, dbRequests, responses>>
  BY DEF Rating!SelectResults
<1>2. ThreadsAreTyped'
  BY <1>1 DEF ThreadsAreTyped
<1>3. /\ work'[t] = NULL
      /\ \A u \in Thread : u # t => work'[u] = work[u]
  BY <1>1 DEF ThreadsAreTyped
<1>4. Handled(e)
  BY <1>1, <1>3, RespondIsOneMore, OutstandingMembers DEF Handled
<1>. QED
  BY <1>2, <1>4

LEMMA InternalHandles ==
    ASSUME ThreadsAreTyped, Rating!Internal
    PROVE  ThreadsAreTyped' /\ \E e : Handled(e)
<1>1. ASSUME NEW e \in Rating!Event, Rating!HandleRequest(e)
      PROVE  ThreadsAreTyped' /\ Handled(e)
  BY <1>1, RelayHandles DEF Rating!HandleRequest, ThreadsAreTyped
<1>2. ASSUME NEW e \in Rating!Event, Rating!HandleDBResponse(e)
      PROVE  ThreadsAreTyped' /\ \E f : Handled(f)
  BY <1>2, ResponseRelayHandles DEF Rating!HandleDBResponse, ThreadsAreTyped
<1>3. ASSUME NEW e \in Rating!Event, Rating!HandleDBRequest(e)
      PROVE  ThreadsAreTyped' /\ Handled(e)
  BY <1>3, DatabaseHandles
<1>4. ASSUME NEW t \in Thread, Rating!SelectResults(t)
      PROVE  ThreadsAreTyped' /\ Handled(work[t])
  BY <1>4, SelectHandles
<1>. QED
  BY <1>1, <1>2, <1>3, <1>4 DEF Rating!Internal

-----------------------------------------------------------------------------
(* The invariant *)

LEMMA InitiallyIdle == Init => rating = {} /\ ServerInv
<1>. SUFFICES ASSUME Init PROVE rating = {} /\ ServerInv
  OBVIOUS
<1>1. /\ requests = {} /\ dbRequests = {} /\ dbResponses = {} /\ responses = {}
      /\ work = [t \in Thread |-> NULL]
  BY DEF Init, Rating!Init
<1>2. Rating!Outstanding = {}
  BY <1>1, OutstandingMembers
<1>. QED
  BY <1>1, <1>2 DEF rating, ServerInv, EventsAreOfRequests, ThreadsAreTyped,
     NothingOutlivesTheProcess

LEMMA CrashIsClean ==
    ASSUME Rating!LoseAll
    PROVE  Rating!Outstanding' = {} /\ ThreadsAreTyped'
<1>1. /\ requests' = {} /\ dbRequests' = {} /\ dbResponses' = {} /\ responses' = {}
      /\ work' = [t \in Thread |-> NULL]
  BY DEF Rating!LoseAll
<1>. QED
  BY <1>1, OutstandingMembers DEF ThreadsAreTyped

LEMMA ArrivalRuns ==
    ASSUME NEW r \in Request, OCF!RequestArrives(r)
    PROVE  up'
  BY DEF OCF!RequestArrives, OCF!UnsupportedCommand, OCF!ExtractionFails,
     OCF!UnknownRequestType, OCF!InitialRequest, OCF!EventRequest, OCF!UpdateRequest,
     OCF!TerminateRequest, OCF!OpenSubSession, OCF!UseSubSession, OCF!Arrives

\* Nothing of the rating function changes, and the process runs, or has nothing
\* under way.
LEMMA UnratedKeeps ==
    ASSUME ServerInv, UNCHANGED ratingVars, up' \/ rating' = {}
    PROVE  ServerInv'
<1>1. Rating!Outstanding' = Rating!Outstanding /\ ThreadsAreTyped'
  BY OutstandingMembers DEF ratingVars, ServerInv, ThreadsAreTyped
<1>2. rating' = {} => Rating!Outstanding' = {}
  BY DEF rating
<1>. QED
  BY <1>1, <1>2 DEF ServerInv, EventsAreOfRequests, NothingOutlivesTheProcess

LEMMA ArrivalKeepsServer ==
    ASSUME ServerInv, NEW r \in Request, RequestArrives(r)
    PROVE  ServerInv'
<1>1. up'
  BY ArrivalRuns DEF RequestArrives
<1>2. CASE UNCHANGED ratingVars
  BY <1>1, <1>2, UnratedKeeps
<1>3. ASSUME NEW e \in Rating!Event, e.request = r, Rating!Ask(e)
      PROVE  ServerInv'
  <2>1. requests' = requests \cup {e} /\ UNCHANGED <<dbRequests, work, dbResponses, responses>>
    BY <1>3 DEF Rating!Ask
  <2>2. \A f \in Rating!Outstanding' : f \in Rating!Outstanding \/ f = e
    BY <2>1, OutstandingMembers
  <2>3. ThreadsAreTyped'
    BY <2>1 DEF ServerInv, ThreadsAreTyped
  <2>. QED
    BY <1>1, <1>3, <2>2, <2>3 DEF ServerInv, EventsAreOfRequests, NothingOutlivesTheProcess
<1>. QED
  BY <1>2, <1>3 DEF RequestArrives

LEMMA AnswerKeepsServer ==
    ASSUME ServerInv, NEW a \in responses, HandleResponse(a)
    PROVE  ServerInv'
<1>1. CASE Rating!Deliver(a) /\ up'
  <2>1. responses' \subseteq responses /\ UNCHANGED <<requests, dbRequests, work, dbResponses>>
    BY <1>1 DEF Rating!Deliver, Rating!Without
  <2>2. \A e \in Rating!Outstanding' : e \in Rating!Outstanding
    BY <2>1, OutstandingMembers
  <2>3. ThreadsAreTyped'
    BY <2>1 DEF ServerInv, ThreadsAreTyped
  <2>. QED
    BY <1>1, <2>2, <2>3 DEF ServerInv, EventsAreOfRequests, NothingOutlivesTheProcess
<1>2. CASE Rating!LoseAll
  BY <1>2, CrashIsClean DEF ServerInv, EventsAreOfRequests, NothingOutlivesTheProcess
<1>. QED
  BY <1>1, <1>2 DEF HandleResponse

LEMMA FaultKeepsServer ==
    ASSUME NEW t \in Thread, DatabaseFaults(t)
    PROVE  ServerInv'
  BY CrashIsClean DEF DatabaseFaults, Rating!ResultMissing, ServerInv, EventsAreOfRequests,
     NothingOutlivesTheProcess

LEMMA RatingStepKeepsServer ==
    ASSUME ServerInv, RatingStep
    PROVE  ServerInv'
<1>1. ThreadsAreTyped' /\ Rating!Outstanding' \subseteq Rating!Outstanding /\ UNCHANGED up
  BY InternalHandles DEF RatingStep, ocfVars, ServerInv, Handled
<1>. QED
  BY <1>1 DEF ServerInv, EventsAreOfRequests, NothingOutlivesTheProcess

LEMMA TimerKeepsServer ==
    ASSUME ServerInv, NEW o \in Request, TimerExpires(o)
    PROVE  ServerInv'
<1>1. UNCHANGED ratingVars
  BY DEF TimerExpires
<1>2. up' \/ rating' = {}
  BY DEF TimerExpires, OCF!TimerExpires, OCF!Crash
<1>. QED
  BY <1>1, <1>2, UnratedKeeps

LEMMA ServerInvStays == ServerInv /\ [Next]_vars => ServerInv'
<1>. SUFFICES ASSUME ServerInv, [Next]_vars PROVE ServerInv'
  OBVIOUS
<1>1. CASE Restart
  BY <1>1, UnratedKeeps DEF Restart, OCF!Restart
<1>2. CASE UNCHANGED vars
  <2>1. UNCHANGED ratingVars /\ UNCHANGED up
    BY <1>2 DEF vars, ocfVars
  <2>2. rating' = rating
    BY <2>1, OutstandingMembers DEF rating, ratingVars
  <2>3. up \/ rating = {}
    BY DEF ServerInv, NothingOutlivesTheProcess, rating
  <2>. QED
    BY <2>1, <2>2, <2>3, UnratedKeeps
<1>. QED
  BY <1>1, <1>2, ArrivalKeepsServer, AnswerKeepsServer, RatingStepKeepsServer,
     TimerKeepsServer, FaultKeepsServer
     DEF Next

-----------------------------------------------------------------------------
(* The steps of the server are steps of the OCF *)

\* At most one rating is lost between the request and the response.
LEMMA RatingStepIsSeen ==
    ASSUME ServerInv, RatingStep
    PROVE  UNCHANGED OCF!vars \/ \E r \in Request : OCF!ResponseLost(r)
<1>. PICK e : Handled(e)
  BY InternalHandles DEF RatingStep, ServerInv
<1>1. UNCHANGED ocfVars
  BY DEF RatingStep
<1>2. CASE rating' = rating
  BY <1>1, <1>2 DEF OCF!vars, ocfVars
<1>3. CASE rating' # rating
  <2>1. rating' \subseteq rating
    BY DEF rating, Handled
  <2>2. PICK r \in rating : r \notin rating'
    BY <1>3, <2>1
  <2>3. PICK f \in Rating!Outstanding : f.request = r
    BY <2>2 DEF rating
  <2>4. f \notin Rating!Outstanding'
    BY <2>2, <2>3 DEF rating
  <2>5. f = e /\ "loss" \in Faults
    BY <2>3, <2>4 DEF Handled
  <2>6. rating \ {r} \subseteq rating'
    <3>. SUFFICES ASSUME NEW q \in rating, q # r
                  PROVE  q \in rating'
      OBVIOUS
    <3>1. PICK g \in Rating!Outstanding : g.request = q
      BY DEF rating
    <3>2. g \in Rating!Outstanding'
      BY <2>3, <2>5, <3>1 DEF Handled
    <3>. QED
      BY <3>1, <3>2 DEF rating
  <2>7. rating' = rating \ {r}
    BY <2>1, <2>2, <2>6
  <2>8. r \in Request /\ up
    BY <2>3 DEF ServerInv, EventsAreOfRequests, NothingOutlivesTheProcess
  <2>9. "loss" \in Faults \ RatingFaults
    BY <2>5 DEF RatingFaults
  <2>. QED
    BY <1>1, <2>2, <2>7, <2>8, <2>9 DEF OCF!ResponseLost, ocfVars
<1>. QED
  BY <1>2, <1>3

\* The OCF does not see the difference between a set of ratings and the rating
\* function with its database threads (ratingfunc.c:121-200, ocsdb.c:167-360).
THEOREM ServerImplementsOCF == Spec => ImplementsOCF
<1>1. Init => OCF!Init
  BY DEF Init
<1>2. ServerInv /\ [Next]_vars => [OCF!Next]_(OCF!vars)
  <2>. SUFFICES ASSUME ServerInv, [Next]_vars
                PROVE  OCF!Next \/ UNCHANGED OCF!vars
    OBVIOUS
  <2>1. CASE Restart
    BY <2>1 DEF Restart, OCF!Next
  <2>2. CASE RatingStep
    BY <2>2, RatingStepIsSeen DEF OCF!Next
  <2>3. ASSUME NEW r \in Request, RequestArrives(r)
        PROVE  OCF!Next
    BY <2>3 DEF RequestArrives, OCF!Next
  <2>4. ASSUME NEW r \in Request, TimerExpires(r)
        PROVE  OCF!Next
    BY <2>4 DEF TimerExpires, OCF!Next
  <2>5. ASSUME NEW a \in responses, HandleResponse(a)
        PROVE  OCF!Next
    <3>1. a.event \in Rating!Outstanding
      BY OutstandingMembers
    <3>2. a.event.request \in Request
      BY <3>1 DEF ServerInv, EventsAreOfRequests
    <3>3. OCF!HandleResponse(a.event.request)
      BY <2>5 DEF HandleResponse, Answers, OCF!HandleResponse
    <3>. QED
      BY <3>2, <3>3 DEF OCF!Next
  <2>6. ASSUME NEW t \in Thread, DatabaseFaults(t)
        PROVE  OCF!Next
    <3>1. work[t] \in Rating!Outstanding
      BY <2>6, OutstandingMembers DEF DatabaseFaults, Rating!ResultMissing
    <3>2. work[t].request \in Request
      BY <3>1 DEF ServerInv, EventsAreOfRequests
    <3>. QED
      BY <2>6, <3>2 DEF DatabaseFaults, OCF!Next
  <2>7. CASE UNCHANGED vars
    <3>1. UNCHANGED <<ocfVars, ratingVars>>
      BY <2>7 DEF vars
    <3>2. rating' = rating
      BY <3>1, OutstandingMembers DEF rating, ratingVars
    <3>. QED
      BY <3>1, <3>2 DEF OCF!vars, ocfVars
  <2>. QED
    BY <2>1, <2>2, <2>3, <2>4, <2>5, <2>6, <2>7 DEF Next
<1>. QED
  BY <1>1, <1>2, InitiallyIdle, ServerInvStays, PTL DEF Spec, ImplementsOCF, OCF!Spec
-----------------------------------------------------------------------------
(***************************************************************************)
(* Verdicts.  When verdicts can be read, an answer says what the database  *)
(* decided: the verdict on a request is given once, while it is under way, *)
(* and is what its response and then the answer made of it say.            *)
(***************************************************************************)
VerdictsAreRead == "select" \notin Faults

Grants(verdict) == verdict \in {"grant", "other"}

Refuses(verdict) == verdict = "deny" \/ (verdict = "open" /\ "call" \in Faults)

Waiting == requests \cup dbRequests

Given == dbResponses \cup responses

VerdictTypes ==
    /\ verdicts \in [Request -> {"open", "grant", "deny", "other"}]
    /\ nRetCode \in [Thread -> {"open", "grant", "deny", "other", NULL}]
    /\ ccr = [r \in Request |-> ccr[r]]
    /\ \E S : answers \in [Request -> Seq(S)]

EventsAreAskedFor ==
    \A e \in Rating!Outstanding :
        /\ e \in Rating!Event
        /\ ccr[e.request] # NULL
        /\ e.kind = OCF!RatingKind(ccr[e.request])

\* An event is in one place, and one thread works for it.
EventsAreApart ==
    /\ requests \cap dbRequests = {}
    /\ \A t \in Thread : work[t] # NULL => work[t] \notin Waiting
    /\ \A t, u \in Thread : work[t] # NULL /\ work[t] = work[u] => t = u
    /\ \A a \in Given : a.event \notin Waiting /\ \A t \in Thread : work[t] # a.event

WaitingIsOpen == \A e \in Waiting : verdicts[e.request] = "open"

WorkIsDecided ==
    \A t \in Thread : work[t] # NULL =>
        /\ nRetCode[t] = verdicts[work[t].request]
        /\ nRetCode[t] \in {"grant", "deny", "other"}
        /\ work[t].kind = "Tariff"

Due(a) ==
    a.event.kind = "Tariff" =>
        /\ a.outcome.result = "OCS_SUCCESS" => Grants(verdicts[a.event.request])
        /\ a.outcome.result # "OCS_SUCCESS" => Refuses(verdicts[a.event.request])

ResponsesAreDue == \A a \in Given : Due(a)

\* A request that an answer was made of is not under way any more.
AnswerIsDue(a) ==
    a.from # NULL =>
        /\ a.from \in Request
        /\ ccr[a.from] # NULL
        /\ a.from \notin rating
        /\ OCF!RatingKind(ccr[a.from]) = "Tariff" =>
               /\ a.code = "SUCCESS" => Grants(verdicts[a.from])
               /\ a.code = "RATING_FAILED" => Refuses(verdicts[a.from])

AnswersAreDue == \A q \in Request : \A i \in DOMAIN answers[q] : AnswerIsDue(answers[q][i])

EventsInv == EventsAreAskedFor /\ EventsAreApart

VerdictInv ==
    /\ VerdictTypes
    /\ EventsInv
    /\ WaitingIsOpen
    /\ WorkIsDecided
    /\ ResponsesAreDue
    /\ AnswersAreDue

\* Two events under way never stand for the same request.
LEMMA OneEventOfARequest ==
    ASSUME EventsAreAskedFor, NEW d \in Rating!Outstanding, NEW e \in Rating!Outstanding,
           d.request = e.request
    PROVE  d = e
  BY DEF EventsAreAskedFor, Rating!Event, Rating!Service!Event

LEMMA VerdictsStart == Init => VerdictInv
<1>. SUFFICES ASSUME Init PROVE VerdictInv
  OBVIOUS
<1>1. /\ requests = {} /\ dbRequests = {} /\ dbResponses = {} /\ responses = {}
      /\ work = [t \in Thread |-> NULL]
      /\ nRetCode = [t \in Thread |-> NULL]
      /\ verdicts = [r \in Request |-> "open"]
  BY DEF Init, Rating!Init
<1>2. ccr = [r \in Request |-> NULL] /\ answers = [r \in Request |-> <<>>]
  BY DEF Init, OCF!Init
<1>3. Rating!Outstanding = {} /\ Waiting = {} /\ Given = {}
  BY <1>1, OutstandingMembers DEF Waiting, Given
<1>4. VerdictTypes
  <2>1. \E S : answers \in [Request -> Seq(S)]
    <3>1. answers \in [Request -> Seq({})]
      BY <1>2
    <3>. QED
      BY <3>1
  <2>. QED
    BY <1>1, <1>2, <2>1 DEF VerdictTypes
<1>5. AnswersAreDue
  BY <1>2 DEF AnswersAreDue
<1>. QED
  BY <1>1, <1>3, <1>4, <1>5
     DEF VerdictInv, EventsInv, EventsAreAskedFor, EventsAreApart, WaitingIsOpen,
         WorkIsDecided, ResponsesAreDue

-----------------------------------------------------------------------------
(* Steps of the rating function and of the database threads *)

\* What the steps between request and response leave of the events and answers.
LEMMA FewerEvents ==
    ASSUME EventsAreAskedFor, Rating!Outstanding' \subseteq Rating!Outstanding, UNCHANGED ccr
    PROVE  EventsAreAskedFor' /\ rating' \subseteq rating
  BY DEF EventsAreAskedFor, rating, OCF!RatingKind, OCF!OCF_CheckChargingType

LEMMA AnswersStayDue ==
    ASSUME AnswersAreDue, UNCHANGED <<ccr, answers>>, rating' \subseteq rating,
           \A r \in Request \ rating : verdicts'[r] = verdicts[r]
    PROVE  AnswersAreDue'
<1>. SUFFICES ASSUME NEW q \in Request, NEW i \in DOMAIN answers[q],
                     answers[q][i].from # NULL
              PROVE  AnswerIsDue(answers[q][i])'
  BY DEF AnswersAreDue, AnswerIsDue
<1>1. AnswerIsDue(answers[q][i])
  BY DEF AnswersAreDue
<1>. QED
  BY <1>1 DEF AnswerIsDue, Grants, Refuses, OCF!RatingKind, OCF!OCF_CheckChargingType

LEMMA ResponseIsAdded ==
    ASSUME NEW e, NEW outcome, Rating!Respond(e, outcome)
    PROVE  \A a \in dbResponses' :
              a \in dbResponses \/ (a.event = e /\ a.outcome = outcome)
<1>. DEFINE b == [event |-> e, outcome |-> outcome]
<1>1. b.event = e /\ b.outcome = outcome
  OBVIOUS
<1>2. dbResponses' \in Rating!Sent(dbResponses, b)
  BY DEF Rating!Respond
<1>. HIDE DEF b
<1>. QED
  BY <1>1, <1>2, SentIsOneMore

LEMMA RelayKeepsVerdicts ==
    ASSUME VerdictInv, NEW e \in Rating!Event, Rating!RatingFunc_ProcessRequest(e),
           UNCHANGED <<ccr, answers>>
    PROVE  VerdictInv'
<1>. USE DEF VerdictInv, EventsInv
<1>1. /\ e \in requests
      /\ requests' = requests \ {e}
      /\ UNCHANGED <<work, nRetCode, dbResponses, responses, verdicts>>
      /\ dbRequests' \subseteq dbRequests \cup {e}
  BY SentIsOneMore DEF Rating!RatingFunc_ProcessRequest, Rating!Without
<1>2. EventsAreAskedFor' /\ rating' \subseteq rating
  BY RelayHandles, FewerEvents DEF Handled
<1>3. Waiting' \subseteq Waiting /\ Given' = Given
  BY <1>1 DEF Waiting, Given
<1>4. EventsAreApart'
  BY <1>1, <1>3 DEF EventsAreApart
<1>5. AnswersAreDue'
  BY <1>1, <1>2, AnswersStayDue
<1>6. VerdictTypes'
  BY <1>1 DEF VerdictTypes
<1>. QED
  BY <1>1, <1>2, <1>3, <1>4, <1>5, <1>6 DEF WaitingIsOpen, WorkIsDecided, ResponsesAreDue, Due,
     Grants, Refuses

LEMMA ResponseRelayKeepsVerdicts ==
    ASSUME VerdictInv, NEW a, Rating!RatingFunc_ProcessDBResponse(a),
           UNCHANGED <<ccr, answers>>
    PROVE  VerdictInv'
<1>. USE DEF VerdictInv, EventsInv
<1>1. /\ a \in dbResponses
      /\ dbResponses' = dbResponses \ {a}
      /\ responses' \subseteq responses \cup {a}
      /\ UNCHANGED <<requests, dbRequests, work, nRetCode, verdicts>>
  BY SentIsOneMore DEF Rating!RatingFunc_ProcessDBResponse, Rating!Without
<1>2. EventsAreAskedFor' /\ rating' \subseteq rating
  BY ResponseRelayHandles, FewerEvents DEF Handled
<1>3. Given' \subseteq Given /\ Waiting' = Waiting
  BY <1>1 DEF Waiting, Given
<1>4. EventsAreApart'
  BY <1>1, <1>3 DEF EventsAreApart
<1>5. AnswersAreDue'
  BY <1>1, <1>2, AnswersStayDue
<1>6. VerdictTypes'
  BY <1>1 DEF VerdictTypes
<1>. QED
  BY <1>1, <1>2, <1>3, <1>4, <1>5, <1>6 DEF WaitingIsOpen, WorkIsDecided, ResponsesAreDue, Due,
     Grants, Refuses

\* A thread responds to a database request without asking the database, or
\* because it could not be asked.
LEMMA UndecidedKeepsVerdicts ==
    ASSUME VerdictInv, ThreadsAreTyped, NEW t \in Thread, NEW e \in Rating!Event, NEW outcome,
           Rating!Takes(t, e, e.kind), Rating!Respond(e, outcome),
           UNCHANGED <<work, nRetCode, verdicts, ccr, answers>>,
           Rating!HandleDBRequest(e),
           e.kind = "Tariff" => outcome.result # "OCS_SUCCESS" /\ "call" \in Faults
    PROVE  VerdictInv'
<1>. USE DEF VerdictInv, EventsInv
<1>1. /\ e \in dbRequests
      /\ dbRequests' = dbRequests \ {e}
      /\ UNCHANGED <<requests, responses>>
  BY DEF Rating!Takes, Rating!Without
<1>2. EventsAreAskedFor' /\ rating' \subseteq rating
  BY DatabaseHandles, FewerEvents DEF Handled
<1>3. Waiting' \subseteq Waiting
  BY <1>1 DEF Waiting
<1>4. \A a \in Given' : a \in Given \/ (a.event = e /\ a.outcome = outcome)
  BY <1>1, ResponseIsAdded DEF Given
<1>5. e \notin Waiting' /\ \A u \in Thread : work[u] # e
  <2>1. e \in Waiting /\ e # NULL
    BY <1>1, OCSAssumption DEF Waiting
  <2>. QED
    BY <1>1, <2>1 DEF Waiting, EventsAreApart
<1>6. EventsAreApart'
  BY <1>1, <1>3, <1>4, <1>5 DEF EventsAreApart
<1>7. AnswersAreDue'
  BY <1>2, AnswersStayDue
<1>8. ResponsesAreDue'
  <2>1. verdicts[e.request] = "open"
    BY <1>1 DEF WaitingIsOpen, Waiting
  <2>. SUFFICES ASSUME NEW a \in Given' PROVE Due(a)'
    BY DEF ResponsesAreDue
  <2>2. CASE a \in Given
    BY <2>2 DEF ResponsesAreDue, Due, Grants, Refuses
  <2>3. CASE a.event = e /\ a.outcome = outcome
    BY <2>1, <2>3 DEF Due, Grants, Refuses
  <2>. QED
    BY <1>4, <2>2, <2>3
<1>9. VerdictTypes'
  BY DEF VerdictTypes
<1>. QED
  BY <1>2, <1>3, <1>6, <1>7, <1>8, <1>9 DEF WaitingIsOpen, WorkIsDecided

\* The database decides: the only step that changes the verdict on a request that
\* is under way.
LEMMA DecisionKeepsVerdicts ==
    ASSUME VerdictInv, ThreadsAreTyped, EventsAreOfRequests,
           NEW t \in Thread, NEW e \in Rating!Event,
           NEW verdict \in {"grant", "deny", "other"},
           Rating!CallProcedure(t, e, verdict), Rating!HandleDBRequest(e),
           UNCHANGED <<ccr, answers>>
    PROVE  VerdictInv'
<1>. USE DEF VerdictInv, EventsInv
<1>1. /\ work[t] = NULL
      /\ e \in dbRequests
      /\ e.kind = "Tariff"
      /\ dbRequests' = dbRequests \ {e}
      /\ work' = [work EXCEPT ![t] = e]
      /\ nRetCode' = [nRetCode EXCEPT ![t] = verdict]
      /\ verdicts' = [verdicts EXCEPT ![e.request] = verdict]
      /\ UNCHANGED <<requests, responses, dbResponses>>
  BY DEF Rating!CallProcedure, Rating!Takes, Rating!Without, Rating!Connection
<1>2. EventsAreAskedFor' /\ rating' \subseteq rating
  BY DatabaseHandles, FewerEvents DEF Handled
<1>3. Waiting' \subseteq Waiting /\ Given' = Given
  BY <1>1 DEF Waiting, Given
<1>4. e \in Rating!Outstanding /\ e \in Waiting /\ e \notin Waiting' /\ e # NULL
  BY <1>1, OutstandingMembers, OCSAssumption DEF Waiting, EventsAreApart
<1>5. \A u \in Thread : work'[u] = IF u = t THEN e ELSE work[u]
  BY <1>1 DEF ThreadsAreTyped
<1>6. EventsAreApart'
  BY <1>1, <1>3, <1>4, <1>5 DEF EventsAreApart
<1>7. e.request \in Request /\ e.request \in rating
  BY <1>4 DEF EventsAreOfRequests, rating
<1>8. \A r \in Request : r # e.request => verdicts'[r] = verdicts[r]
  BY <1>1 DEF VerdictTypes
<1>9. AnswersAreDue'
  BY <1>2, <1>7, <1>8, AnswersStayDue
<1>10. \A f \in Rating!Outstanding : f # e =>
           f.request \in Request /\ verdicts'[f.request] = verdicts[f.request]
  BY <1>4, <1>8, OneEventOfARequest DEF EventsAreOfRequests
<1>11. WaitingIsOpen'
  <2>1. \A f \in Waiting : f \in Rating!Outstanding
    BY OutstandingMembers DEF Waiting
  <2>. QED
    BY <1>3, <1>4, <1>10, <2>1 DEF WaitingIsOpen
<1>12. WorkIsDecided'
  <2>. SUFFICES ASSUME NEW u \in Thread, work'[u] # NULL
                PROVE  /\ nRetCode'[u] = verdicts'[work'[u].request]
                       /\ nRetCode'[u] \in {"grant", "deny", "other"}
                       /\ work'[u].kind = "Tariff"
    BY DEF WorkIsDecided
  <2>1. CASE u = t
    <3>1. work'[u] = e /\ nRetCode'[u] = verdict /\ verdicts'[e.request] = verdict
      BY <1>1, <1>5, <1>7, <2>1 DEF VerdictTypes
    <3>. QED
      BY <1>1, <3>1
  <2>2. CASE u # t
    <3>1. work'[u] = work[u] /\ nRetCode'[u] = nRetCode[u]
      BY <1>1, <1>5, <2>2 DEF VerdictTypes
    <3>2. work[u] \in Rating!Outstanding /\ work[u] # e
      BY <1>4, <3>1, OutstandingMembers DEF EventsAreApart
    <3>. QED
      BY <1>10, <3>1, <3>2 DEF WorkIsDecided
  <2>. QED
    BY <2>1, <2>2
<1>13. ResponsesAreDue'
  <2>. SUFFICES ASSUME NEW a \in Given PROVE Due(a)'
    BY <1>3 DEF ResponsesAreDue
  <2>1. a.event \in Rating!Outstanding /\ a.event # e
    BY <1>4, OutstandingMembers DEF Given, EventsAreApart
  <2>. QED
    BY <1>10, <2>1 DEF ResponsesAreDue, Due, Grants, Refuses
<1>14. VerdictTypes'
  BY <1>1 DEF VerdictTypes
<1>. QED
  BY <1>2, <1>6, <1>9, <1>11, <1>12, <1>13, <1>14

\* A thread reads the verdict back and responds.
LEMMA SelectKeepsVerdicts ==
    ASSUME VerdictsAreRead, VerdictInv, ThreadsAreTyped, NEW t \in Thread,
           Rating!SelectResults(t), UNCHANGED <<ccr, answers>>
    PROVE  VerdictInv'
<1>. USE DEF VerdictInv, EventsInv
<1>. DEFINE e == work[t]
            outcome == Rating!OutcomeOf(nRetCode[t])
<1>1. /\ e # NULL
      /\ work' = [work EXCEPT ![t] = NULL]
      /\ Rating!Respond(e, outcome)
      /\ UNCHANGED <<requests, dbRequests, responses, nRetCode, verdicts>>
  BY DEF Rating!SelectResults, Rating!Connection, VerdictsAreRead
<1>2. /\ nRetCode[t] = verdicts[e.request]
      /\ nRetCode[t] \in {"grant", "deny", "other"}
  BY <1>1 DEF WorkIsDecided
<1>3. outcome.result = IF nRetCode[t] = "deny" THEN "OCS_FAILURE" ELSE "OCS_SUCCESS"
  BY <1>2 DEF Rating!OutcomeOf, Rating!Service!Quota, Rating!Service!Blank,
              Rating!Service!Refusal
<1>4. EventsAreAskedFor' /\ rating' \subseteq rating
  BY SelectHandles, FewerEvents DEF Handled
<1>5. Waiting' = Waiting
  BY <1>1 DEF Waiting
<1>6. \A a \in Given' : a \in Given \/ (a.event = e /\ a.outcome = outcome)
  BY <1>1, ResponseIsAdded DEF Given
<1>7. \A u \in Thread : work'[u] = IF u = t THEN NULL ELSE work[u]
  BY <1>1 DEF ThreadsAreTyped
<1>8. EventsAreApart'
  <2>1. e \notin Waiting
    BY <1>1 DEF EventsAreApart
  <2>2. \A u \in Thread : work'[u] # e
    BY <1>1, <1>7 DEF EventsAreApart
  <2>3. \A a \in Given : \A u \in Thread : work'[u] # a.event
    <3>1. \A a \in Given : a.event # NULL
      BY OutstandingMembers, OCSAssumption DEF Given, EventsAreAskedFor
    <3>. QED
      BY <1>7, <3>1 DEF EventsAreApart
  <2>. HIDE DEF e, outcome
  <2>. QED
    BY <1>1, <1>5, <1>6, <1>7, <2>1, <2>2, <2>3 DEF EventsAreApart
<1>9. AnswersAreDue'
  BY <1>1, <1>4, AnswersStayDue
<1>10. WorkIsDecided' /\ WaitingIsOpen' /\ VerdictTypes'
  BY <1>1, <1>5, <1>7 DEF WorkIsDecided, WaitingIsOpen, VerdictTypes
<1>11. ResponsesAreDue'
  <2>. SUFFICES ASSUME NEW a \in Given' PROVE Due(a)'
    BY DEF ResponsesAreDue
  <2>1. CASE a \in Given
    BY <1>1, <2>1 DEF ResponsesAreDue, Due, Grants, Refuses
  <2>2. CASE a.event = e /\ a.outcome = outcome
    BY <1>1, <1>2, <1>3, <2>2 DEF Due, Grants, Refuses
  <2>. QED
    BY <1>6, <2>1, <2>2
<1>. QED
  BY <1>4, <1>8, <1>9, <1>10, <1>11

LEMMA DatabaseKeepsVerdicts ==
    ASSUME VerdictInv, ServerInv, NEW e \in Rating!Event, Rating!HandleDBRequest(e),
           UNCHANGED <<ccr, answers>>
    PROVE  VerdictInv'
<1>. USE DEF ServerInv
<1>. PICK t \in Thread :
        Rating!OCSDB_ProcessPriceRequest(t, e) \/ Rating!ProcessTariffRequest(t, e)
  BY DEF Rating!HandleDBRequest
<1>1. CASE Rating!OCSDB_ProcessPriceRequest(t, e)
  <2>1. /\ Rating!Takes(t, e, "Price")
        /\ Rating!Respond(e, Rating!Service!Blank)
        /\ UNCHANGED <<work, nRetCode, verdicts>>
    BY <1>1 DEF Rating!OCSDB_ProcessPriceRequest
  <2>2. e.kind = "Price"
    BY <2>1 DEF Rating!Takes
  <2>. QED
    BY <2>1, <2>2, UndecidedKeepsVerdicts
<1>2. CASE Rating!CallFails(t, e)
  <2>1. /\ Rating!Takes(t, e, "Tariff")
        /\ Rating!Respond(e, Rating!Service!Refusal)
        /\ UNCHANGED <<work, nRetCode, verdicts>>
        /\ "call" \in Faults
    BY <1>2 DEF Rating!CallFails
  <2>2. e.kind = "Tariff" /\ Rating!Service!Refusal.result # "OCS_SUCCESS"
    BY <2>1 DEF Rating!Takes, Rating!Service!Refusal
  <2>. QED
    BY <2>1, <2>2, UndecidedKeepsVerdicts
<1>3. ASSUME NEW verdict \in Rating!Service!Verdict \ {"open"},
             Rating!CallProcedure(t, e, verdict)
      PROVE  VerdictInv'
  <2>1. verdict \in {"grant", "deny", "other"}
    BY DEF Rating!Service!Verdict
  <2>. QED
    BY <1>3, <2>1, DecisionKeepsVerdicts
<1>. QED
  BY <1>1, <1>2, <1>3 DEF Rating!ProcessTariffRequest

LEMMA RatingStepKeepsVerdicts ==
    ASSUME VerdictsAreRead, VerdictInv, ServerInv, RatingStep
    PROVE  VerdictInv'
<1>1. UNCHANGED <<ccr, answers>> /\ Rating!Internal
  BY DEF RatingStep, ocfVars
<1>2. ASSUME NEW e \in Rating!Event, Rating!HandleRequest(e)
      PROVE  VerdictInv'
  BY <1>1, <1>2, RelayKeepsVerdicts DEF Rating!HandleRequest
<1>3. ASSUME NEW e \in Rating!Event, Rating!HandleDBResponse(e)
      PROVE  VerdictInv'
  BY <1>1, <1>3, ResponseRelayKeepsVerdicts DEF Rating!HandleDBResponse
<1>4. ASSUME NEW e \in Rating!Event, Rating!HandleDBRequest(e)
      PROVE  VerdictInv'
  BY <1>1, <1>4, DatabaseKeepsVerdicts
<1>5. ASSUME NEW t \in Thread, Rating!SelectResults(t)
      PROVE  VerdictInv'
  BY <1>1, <1>5, SelectKeepsVerdicts DEF ServerInv
<1>. QED
  BY <1>1, <1>2, <1>3, <1>4, <1>5 DEF Rating!Internal

-----------------------------------------------------------------------------
(* Steps of the OCF *)

\* The answer to q, if one is sent, is made of the response to r, or of none.
Answering(q, r, codes) ==
    \/ answers' = answers
    \/ \E a : /\ answers' = [answers EXCEPT ![q] = Append(@, a)]
              /\ a.from = r
              /\ a.code \in codes

LEMMA ArrivalAnswers ==
    ASSUME NEW r \in Request, OCF!RequestArrives(r)
    PROVE  /\ ccr[r] = NULL
           /\ \E m : m # NULL /\ ccr' = [ccr EXCEPT ![r] = m]
           /\ rating' \subseteq rating \cup {r}
           /\ \/ answers' = answers
              \/ \E a : a.from = NULL /\ answers' = [answers EXCEPT ![r] = Append(@, a)]
<1>1. ASSUME NEW code, OCF!Emit(r, OCF!ErrorAnswer(r, code))
      PROVE  \/ answers' = answers
             \/ \E a : a.from = NULL /\ answers' = [answers EXCEPT ![r] = Append(@, a)]
  <2>1. OCF!ErrorAnswer(r, code).from = NULL
    BY DEF OCF!ErrorAnswer
  <2>. QED
    BY <1>1, <2>1 DEF OCF!Emit
<1>2. ASSUME NEW m \in OCF!Message, OCF!Arrives(r, m)
      PROVE  /\ ccr[r] = NULL
             /\ \E n : n # NULL /\ ccr' = [ccr EXCEPT ![r] = n]
  BY <1>2, OCSAssumption DEF OCF!Arrives
<1>3. ASSUME NEW code, OCF!Reject(r, code)
      PROVE  OCF!Emit(r, OCF!ErrorAnswer(r, code))
  BY <1>3 DEF OCF!Reject
<1>4. ASSUME OCF!SendRatingRequest(r)
      PROVE  /\ rating' \subseteq rating \cup {r}
             /\ \/ answers' = answers
                \/ OCF!Emit(r, OCF!ErrorAnswer(r, "UNABLE_TO_COMPLY"))
  BY <1>3, <1>4 DEF OCF!SendRatingRequest
<1>5. CASE OCF!UnsupportedCommand(r)
  BY <1>1, <1>2, <1>5 DEF OCF!UnsupportedCommand
<1>6. CASE OCF!ExtractionFails(r)
  BY <1>2, <1>6 DEF OCF!ExtractionFails
<1>7. CASE OCF!UnknownRequestType(r)
  BY <1>1, <1>2, <1>3, <1>7 DEF OCF!UnknownRequestType
<1>8. ASSUME NEW m \in OCF!Message, NEW charging, OCF!OpenSubSession(r, m, charging)
      PROVE  /\ OCF!Arrives(r, m)
             /\ rating' \subseteq rating \cup {r}
             /\ \/ answers' = answers
                \/ OCF!Emit(r, OCF!ErrorAnswer(r, "UNABLE_TO_COMPLY"))
  BY <1>3, <1>4, <1>8 DEF OCF!OpenSubSession
<1>9. ASSUME NEW m \in OCF!Message, NEW unknown, OCF!UseSubSession(r, m, unknown)
      PROVE  /\ OCF!Arrives(r, m)
             /\ rating' \subseteq rating \cup {r}
             /\ \/ answers' = answers
                \/ OCF!Emit(r, OCF!ErrorAnswer(r, "UNABLE_TO_COMPLY"))
                \/ OCF!Emit(r, OCF!ErrorAnswer(r, unknown))
  BY <1>3, <1>4, <1>9 DEF OCF!UseSubSession
<1>10. CASE OCF!InitialRequest(r)
  BY <1>1, <1>2, <1>8, <1>10 DEF OCF!InitialRequest
<1>11. CASE OCF!EventRequest(r)
  BY <1>1, <1>2, <1>8, <1>11 DEF OCF!EventRequest
<1>12. CASE OCF!UpdateRequest(r)
  BY <1>1, <1>2, <1>9, <1>12 DEF OCF!UpdateRequest
<1>13. CASE OCF!TerminateRequest(r)
  BY <1>1, <1>2, <1>9, <1>13 DEF OCF!TerminateRequest
<1>. QED
  BY <1>5, <1>6, <1>7, <1>10, <1>11, <1>12, <1>13 DEF OCF!RequestArrives

LEMMA RatedAnswerIsSent ==
    ASSUME NEW q, NEW r, NEW codes, NEW s, NEW code \in codes, NEW payload,
           OCF!AnswerFails \/ OCF!AnswerSent(q, OCF!RatedAnswer(s, code, r, payload))
    PROVE  Answering(q, r, codes)
<1>. DEFINE a == OCF!RatedAnswer(s, code, r, payload)
<1>1. a.from = r /\ a.code = code
  BY DEF OCF!RatedAnswer
<1>2. answers' = answers \/ answers' = [answers EXCEPT ![q] = Append(@, a)]
  BY DEF OCF!AnswerFails, OCF!AnswerSent
<1>. HIDE DEF a
<1>. QED
  BY <1>1, <1>2 DEF Answering

LEMMA GrantAnswers ==
    ASSUME NEW r \in Request, NEW q \in Request, OCF!Granted(r, q)
    PROVE  /\ r \notin rating'
           /\ rating' \subseteq rating
           /\ UNCHANGED ccr
           /\ Answering(q, r, {"SUCCESS"})
<1>1. ASSUME NEW s, NEW payload,
             \/ OCF!AnswerFails
             \/ OCF!AnswerSent(q, OCF!RatedAnswer(s, "SUCCESS", r, payload))
      PROVE  Answering(q, r, {"SUCCESS"})
  <2>1. "SUCCESS" \in {"SUCCESS"}
    OBVIOUS
  <2>. QED
    BY <1>1, <2>1, RatedAnswerIsSent
<1>2. ASSUME NEW state, NEW type, NEW result, OCF!Dispatched(r, q, state, type, result)
      PROVE  r \notin rating' /\ rating' \subseteq rating /\ UNCHANGED ccr
  BY <1>2 DEF OCF!Dispatched, OCF!Delivered
<1>3. CASE OCF!OCF_Idle_InitReqProcessingSuccessful(r, q)
  BY <1>1, <1>2, <1>3 DEF OCF!OCF_Idle_InitReqProcessingSuccessful
<1>4. CASE OCF!OCF_Idle_EventReqProcessingSuccessful(r, q)
  BY <1>1, <1>2, <1>4 DEF OCF!OCF_Idle_EventReqProcessingSuccessful
<1>5. CASE OCF!OCF_Open_UpdateReqProcessingSuccessful(r, q)
  BY <1>1, <1>2, <1>5 DEF OCF!OCF_Open_UpdateReqProcessingSuccessful
<1>6. CASE OCF!OCF_Open_TerminateReqProcessingSuccessful(r, q)
  BY <1>1, <1>2, <1>6 DEF OCF!OCF_Open_TerminateReqProcessingSuccessful
<1>. QED
  BY <1>3, <1>4, <1>5, <1>6 DEF OCF!Granted

RefusalCodes == {"RATING_FAILED", "ARBITRARY", "NONE"}

LEMMA RefusalAnswers ==
    ASSUME NEW r \in Request, NEW q \in Request, OCF!Refused(r, q)
    PROVE  /\ r \notin rating'
           /\ rating' \subseteq rating
           /\ UNCHANGED ccr
           /\ Answering(q, r, RefusalCodes)
<1>1. ASSUME NEW s, NEW payload, NEW code \in RefusalCodes,
             \/ OCF!AnswerFails
             \/ OCF!AnswerSent(q, OCF!RatedAnswer(s, code, r, payload))
      PROVE  Answering(q, r, RefusalCodes)
  BY <1>1, RatedAnswerIsSent
<1>2. ASSUME NEW state, NEW type, NEW result, OCF!Dispatched(r, q, state, type, result)
      PROVE  r \notin rating' /\ rating' \subseteq rating /\ UNCHANGED ccr
  BY <1>2 DEF OCF!Dispatched, OCF!Delivered
<1>3. CASE OCF!OCF_Idle_InitReqProcessingUnSuccessful(r, q)
  BY <1>1, <1>2, <1>3 DEF OCF!OCF_Idle_InitReqProcessingUnSuccessful, RefusalCodes
<1>4. CASE OCF!OCF_Idle_EventReqProcessingUnSuccessful(r, q)
  BY <1>2, <1>4 DEF OCF!OCF_Idle_EventReqProcessingUnSuccessful, Answering
<1>5. CASE OCF!OCF_Open_UpdateReqProcessingUnSuccessful(r, q)
  BY <1>1, <1>2, <1>5 DEF OCF!OCF_Open_UpdateReqProcessingUnSuccessful, RefusalCodes
<1>6. CASE OCF!OCF_Open_TerminateReqProcessingUnSuccessful(r, q)
  BY <1>1, <1>2, <1>6 DEF OCF!OCF_Open_TerminateReqProcessingUnSuccessful, RefusalCodes
<1>7. CASE OCF!UninitialisedAnswerFaults(r, q)
  BY <1>7 DEF OCF!UninitialisedAnswerFaults, OCF!Crash, Answering
<1>. QED
  BY <1>3, <1>4, <1>5, <1>6, <1>7 DEF OCF!Refused

LEMMA DroppedAnswers ==
    ASSUME NEW r \in Request, OCF!Unhandled(r)
    PROVE  /\ r \notin rating'
           /\ rating' \subseteq rating
           /\ UNCHANGED <<ccr, answers>>
  BY DEF OCF!Unhandled, OCF!ResponseWithoutSession, OCF!CCRReadFaults, OCF!Crash,
         OCF!NoHandler, OCF!Delivered

LEMMA AnswerIsAppended ==
    ASSUME NEW S, answers \in [Request -> Seq(S)], NEW q \in Request, NEW a,
           answers' = [answers EXCEPT ![q] = Append(@, a)]
    PROVE  /\ answers' \in [Request -> Seq(S \cup {a})]
           /\ \A p \in Request : \A i \in DOMAIN answers'[p] :
                 \/ answers'[p][i] = a
                 \/ i \in DOMAIN answers[p] /\ answers'[p][i] = answers[p][i]
<1>1. \A p \in Request : answers[p] \in Seq(S) /\ answers[p] \in Seq(S \cup {a})
  OBVIOUS
<1>2. \A p \in Request : answers'[p] = IF p = q THEN Append(answers[p], a) ELSE answers[p]
  OBVIOUS
<1>3. \A p \in Request : Append(answers[p], a) \in Seq(S \cup {a})
  BY <1>1
<1>4. answers' \in [Request -> Seq(S \cup {a})]
  BY <1>1, <1>3
<1>5. ASSUME NEW p \in Request, NEW i \in DOMAIN answers'[p]
      PROVE  \/ answers'[p][i] = a
             \/ i \in DOMAIN answers[p] /\ answers'[p][i] = answers[p][i]
  <2>1. answers[p] \in Seq(S)
    BY <1>1
  <2>2. CASE p = q
    BY <1>2, <1>5, <2>1, <2>2
  <2>3. CASE p # q
    BY <1>2, <1>5, <2>3
  <2>. QED
    BY <2>2, <2>3
<1>. QED
  BY <1>4, <1>5

LEMMA ArrivalKeepsVerdicts ==
    ASSUME VerdictInv, ServerInv, NEW r \in Request, RequestArrives(r)
    PROVE  VerdictInv'
<1>. USE DEF VerdictInv, EventsInv
<1>1. OCF!RequestArrives(r)
  BY DEF RequestArrives
<1>2. /\ ccr[r] = NULL
      /\ rating' \subseteq rating \cup {r}
  BY <1>1, ArrivalAnswers
<1>3. PICK m : m # NULL /\ ccr' = [ccr EXCEPT ![r] = m]
  BY <1>1, ArrivalAnswers
<1>4. \A x \in Request : ccr'[x] = IF x = r THEN m ELSE ccr[x]
  BY <1>3 DEF VerdictTypes
<1>5. \A e \in Rating!Outstanding :
         e.request \in Request /\ e.request # r /\ ccr'[e.request] = ccr[e.request]
  BY <1>2, <1>4 DEF ServerInv, EventsAreOfRequests, EventsAreAskedFor
<1>6. /\ verdicts' \in [Request -> {"open", "grant", "deny", "other"}]
      /\ \A x \in Request : x # r => verdicts'[x] = verdicts[x]
      /\ UNCHANGED <<dbRequests, work, nRetCode, dbResponses, responses>>
  <2>1. CASE UNCHANGED ratingVars
    BY <2>1 DEF ratingVars, VerdictTypes
  <2>2. ASSUME NEW e \in Rating!Event, e.request = r, Rating!Ask(e)
        PROVE  /\ verdicts' = [verdicts EXCEPT ![r] = "open"]
               /\ UNCHANGED <<dbRequests, work, nRetCode, dbResponses, responses>>
    BY <2>2 DEF Rating!Ask
  <2>. QED
    BY <2>1, <2>2 DEF RequestArrives, VerdictTypes
<1>7. /\ \E S : answers' \in [Request -> Seq(S)]
      /\ AnswersAreDue'
  <2>1. ASSUME NEW q \in Request, NEW i \in DOMAIN answers[q], answers'[q][i] = answers[q][i]
        PROVE  AnswerIsDue(answers[q][i])'
    <3>1. AnswerIsDue(answers[q][i])
      BY DEF AnswersAreDue
    <3>2. CASE answers[q][i].from = NULL
      BY <2>1, <3>2 DEF AnswerIsDue
    <3>3. CASE answers[q][i].from # NULL
      <4>. DEFINE x == answers[q][i].from
      <4>1. x \in Request /\ ccr[x] # NULL /\ x \notin rating
        BY <3>1, <3>3 DEF AnswerIsDue
      <4>2. x # r /\ ccr'[x] = ccr[x] /\ x \notin rating' /\ verdicts'[x] = verdicts[x]
        BY <1>2, <1>4, <1>6, <4>1
      <4>. QED
        BY <2>1, <3>1, <3>3, <4>1, <4>2
           DEF AnswerIsDue, Grants, Refuses, OCF!RatingKind, OCF!OCF_CheckChargingType
    <3>. QED
      BY <3>2, <3>3
  <2>2. CASE answers' = answers
    BY <2>1, <2>2 DEF AnswersAreDue, VerdictTypes
  <2>3. ASSUME NEW a, a.from = NULL, answers' = [answers EXCEPT ![r] = Append(@, a)]
        PROVE  (\E S : answers' \in [Request -> Seq(S)]) /\ AnswersAreDue'
    <3>. PICK S : answers \in [Request -> Seq(S)]
      BY DEF VerdictTypes
    <3>1. /\ answers' \in [Request -> Seq(S \cup {a})]
          /\ \A p \in Request : \A i \in DOMAIN answers'[p] :
                \/ answers'[p][i] = a
                \/ i \in DOMAIN answers[p] /\ answers'[p][i] = answers[p][i]
      BY <2>3, AnswerIsAppended
    <3>2. ASSUME NEW p \in Request, NEW i \in DOMAIN answers'[p]
          PROVE  AnswerIsDue(answers[p][i])'
      <4>1. CASE answers'[p][i] = a
        BY <2>3, <4>1 DEF AnswerIsDue
      <4>2. CASE i \in DOMAIN answers[p] /\ answers'[p][i] = answers[p][i]
        BY <2>1, <4>2
      <4>. QED
        BY <3>1, <4>1, <4>2
    <3>. QED
      BY <3>1, <3>2 DEF AnswersAreDue
  <2>. QED
    BY <1>1, <2>2, <2>3, ArrivalAnswers
<1>8. VerdictTypes'
  BY <1>3, <1>6, <1>7 DEF VerdictTypes
<1>9. /\ WorkIsDecided'
      /\ ResponsesAreDue'
  <2>1. \A t \in Thread : work[t] # NULL => work[t] \in Rating!Outstanding
    BY OutstandingMembers
  <2>2. \A a \in Given : a.event \in Rating!Outstanding
    BY OutstandingMembers DEF Given
  <2>3. Given' = Given
    BY <1>6 DEF Given
  <2>4. WorkIsDecided'
    BY <1>5, <1>6, <2>1 DEF WorkIsDecided
  <2>5. ResponsesAreDue'
    BY <1>5, <1>6, <2>2, <2>3 DEF ResponsesAreDue, Due, Grants, Refuses
  <2>. QED
    BY <2>4, <2>5
<1>10. EventsAreAskedFor' /\ EventsAreApart' /\ WaitingIsOpen'
  <2>1. \A f \in Waiting : f \in Rating!Outstanding
    BY OutstandingMembers DEF Waiting
  <2>2. ASSUME NEW f \in Rating!Outstanding
        PROVE  /\ f \in Rating!Event
               /\ ccr'[f.request] # NULL
               /\ f.kind = OCF!RatingKind(ccr'[f.request])
    BY <1>5 DEF EventsAreAskedFor
  <2>3. CASE UNCHANGED ratingVars
    <3>1. Rating!Outstanding' = Rating!Outstanding /\ Waiting' = Waiting /\ Given' = Given
      BY <2>3, OutstandingMembers DEF ratingVars, Waiting, Given
    <3>2. EventsAreAskedFor'
      BY <2>2, <3>1 DEF EventsAreAskedFor, OCF!RatingKind, OCF!OCF_CheckChargingType
    <3>. QED
      BY <1>6, <2>3, <3>1, <3>2 DEF EventsAreApart, WaitingIsOpen, ratingVars
  <2>4. ASSUME NEW e \in Rating!Event, e.request = r, Rating!Ask(e),
               e.kind = OCF!RatingKind(ccr'[r])
        PROVE  EventsAreAskedFor' /\ EventsAreApart' /\ WaitingIsOpen'
    <3>1. /\ requests' = requests \cup {e}
          /\ verdicts' = [verdicts EXCEPT ![r] = "open"]
          /\ UNCHANGED <<dbRequests, work, dbResponses, responses>>
      BY <2>4 DEF Rating!Ask
    <3>2. /\ \A f \in Rating!Outstanding' : f \in Rating!Outstanding \/ f = e
          /\ Waiting' = Waiting \cup {e}
          /\ Given' = Given
      BY <3>1, OutstandingMembers DEF Waiting, Given
    <3>3. e \notin Rating!Outstanding /\ e # NULL
      BY <1>5, <2>4, OCSAssumption
    <3>4. EventsAreAskedFor'
      BY <1>3, <1>4, <2>2, <2>4, <3>2
         DEF EventsAreAskedFor, OCF!RatingKind, OCF!OCF_CheckChargingType
    <3>5. EventsAreApart'
      <4>1. /\ e \notin dbRequests
            /\ \A t \in Thread : work[t] # e
            /\ \A a \in Given : a.event # e
        BY <3>3, OutstandingMembers DEF Given
      <4>. QED
        BY <3>1, <3>2, <4>1 DEF EventsAreApart
    <3>6. WaitingIsOpen'
      <4>1. verdicts'[r] = "open"
        BY <3>1 DEF VerdictTypes
      <4>. QED
        BY <1>5, <1>6, <2>1, <2>4, <3>2, <4>1 DEF WaitingIsOpen
    <3>. QED
      BY <3>4, <3>5, <3>6
  <2>. QED
    BY <2>3, <2>4 DEF RequestArrives
<1>. QED
  BY <1>7, <1>8, <1>9, <1>10

\* What is said of a response that was handled.
LEMMA AnswersToResponseAreDue ==
    ASSUME VerdictInv, ServerInv, NEW a \in responses, Answers(a), UNCHANGED verdicts
    PROVE  /\ UNCHANGED ccr
           /\ AnswersAreDue'
           /\ \E S : answers' \in [Request -> Seq(S)]
<1>. USE DEF VerdictInv, EventsInv
<1>. DEFINE r == a.event.request
<1>1. a.event \in Rating!Outstanding /\ r \in Request
  BY OutstandingMembers DEF ServerInv, EventsAreOfRequests
<1>2. ccr[r] # NULL /\ a.event.kind = OCF!RatingKind(ccr[r])
  BY <1>1 DEF EventsAreAskedFor
<1>3. Due(a)
  BY DEF ResponsesAreDue, Given
<1>. HIDE DEF r
<1>4. \/ OCF!Unhandled(r)
      \/ \E q \in Request :
            IF a.outcome.result = "OCS_SUCCESS" THEN OCF!Granted(r, q) ELSE OCF!Refused(r, q)
  BY DEF Answers, r
<1>5. r \notin rating' /\ rating' \subseteq rating /\ UNCHANGED ccr
  BY <1>1, <1>4, DroppedAnswers, GrantAnswers, RefusalAnswers
<1>. DEFINE OneMore ==
               \E q \in Request : \E b :
                  /\ answers' = [answers EXCEPT ![q] = Append(@, b)]
                  /\ b.from = r
                  /\ b.code = "SUCCESS" => a.outcome.result = "OCS_SUCCESS"
                  /\ b.code = "RATING_FAILED" => a.outcome.result # "OCS_SUCCESS"
<1>6. answers' = answers \/ OneMore
  <2>1. CASE OCF!Unhandled(r)
    BY <1>1, <2>1, DroppedAnswers
  <2>2. ASSUME NEW q \in Request, OCF!Granted(r, q), a.outcome.result = "OCS_SUCCESS"
        PROVE  answers' = answers \/ OneMore
    BY <1>1, <2>2, GrantAnswers DEF Answering
  <2>3. ASSUME NEW q \in Request, OCF!Refused(r, q), a.outcome.result # "OCS_SUCCESS"
        PROVE  answers' = answers \/ OneMore
    BY <1>1, <2>3, RefusalAnswers DEF Answering, RefusalCodes
  <2>. QED
    BY <1>4, <2>1, <2>2, <2>3
<1>7. ASSUME NEW q \in Request, NEW i \in DOMAIN answers[q], answers'[q][i] = answers[q][i]
      PROVE  AnswerIsDue(answers[q][i])'
  <2>1. AnswerIsDue(answers[q][i])
    BY DEF AnswersAreDue
  <2>. QED
    BY <1>5, <1>7, <2>1
       DEF AnswerIsDue, Grants, Refuses, OCF!RatingKind, OCF!OCF_CheckChargingType
<1>8. CASE answers' = answers
  BY <1>5, <1>7, <1>8 DEF AnswersAreDue, VerdictTypes
<1>9. ASSUME NEW q \in Request, NEW b,
             answers' = [answers EXCEPT ![q] = Append(@, b)],
             b.from = r,
             b.code = "SUCCESS" => a.outcome.result = "OCS_SUCCESS",
             b.code = "RATING_FAILED" => a.outcome.result # "OCS_SUCCESS"
      PROVE  AnswersAreDue' /\ \E S : answers' \in [Request -> Seq(S)]
  <2>. PICK S : answers \in [Request -> Seq(S)]
    BY DEF VerdictTypes
  <2>1. /\ answers' \in [Request -> Seq(S \cup {b})]
        /\ \A p \in Request : \A i \in DOMAIN answers'[p] :
              \/ answers'[p][i] = b
              \/ i \in DOMAIN answers[p] /\ answers'[p][i] = answers[p][i]
    BY <1>9, AnswerIsAppended
  <2>2. OCF!RatingKind(ccr[r]) = "Tariff" =>
           /\ b.code = "SUCCESS" => Grants(verdicts[r])
           /\ b.code = "RATING_FAILED" => Refuses(verdicts[r])
    BY <1>2, <1>3, <1>9 DEF Due, r
  <2>3. ASSUME NEW p \in Request, NEW i \in DOMAIN answers'[p]
        PROVE  AnswerIsDue(answers[p][i])'
    <3>1. CASE answers'[p][i] = b
      BY <1>1, <1>2, <1>5, <1>9, <2>2, <3>1
         DEF AnswerIsDue, Grants, Refuses, OCF!RatingKind, OCF!OCF_CheckChargingType
    <3>2. CASE i \in DOMAIN answers[p] /\ answers'[p][i] = answers[p][i]
      BY <1>7, <3>2
    <3>. QED
      BY <2>1, <3>1, <3>2
  <2>. QED
    BY <2>1, <2>3 DEF AnswersAreDue
<1>. QED
  BY <1>5, <1>6, <1>8, <1>9

\* The process ends: what is answered stays, and nothing else is left.
LEMMA LossKeepsVerdicts ==
    ASSUME VerdictInv, Rating!LoseAll, UNCHANGED ccr, AnswersAreDue',
           \E S : answers' \in [Request -> Seq(S)]
    PROVE  VerdictInv'
<1>1. /\ requests' = {} /\ dbRequests' = {} /\ dbResponses' = {} /\ responses' = {}
      /\ work' = [t \in Thread |-> NULL]
      /\ nRetCode' = [t \in Thread |-> NULL]
      /\ UNCHANGED verdicts
  BY DEF Rating!LoseAll
<1>2. Rating!Outstanding' = {} /\ Waiting' = {} /\ Given' = {}
  BY <1>1, CrashIsClean DEF Waiting, Given
<1>3. VerdictTypes'
  BY <1>1 DEF VerdictInv, VerdictTypes
<1>. QED
  BY <1>1, <1>2, <1>3
     DEF VerdictInv, EventsInv, EventsAreAskedFor, EventsAreApart, WaitingIsOpen,
         WorkIsDecided, ResponsesAreDue

LEMMA AnswerKeepsVerdicts ==
    ASSUME VerdictInv, ServerInv, NEW a \in responses, HandleResponse(a)
    PROVE  VerdictInv'
<1>. USE DEF VerdictInv, EventsInv
<1>1. Answers(a) /\ UNCHANGED verdicts
  BY DEF HandleResponse, Rating!Deliver, Rating!LoseAll
<1>2. /\ UNCHANGED ccr
      /\ AnswersAreDue'
      /\ \E S : answers' \in [Request -> Seq(S)]
  BY <1>1, AnswersToResponseAreDue
<1>3. CASE Rating!Deliver(a)
  <2>1. /\ responses' \subseteq responses
        /\ UNCHANGED <<requests, dbRequests, work, nRetCode, dbResponses>>
    BY <1>3 DEF Rating!Deliver, Rating!Without
  <2>2. /\ Rating!Outstanding' \subseteq Rating!Outstanding
        /\ Waiting' = Waiting
        /\ Given' \subseteq Given
    BY <2>1, OutstandingMembers DEF Waiting, Given
  <2>3. EventsAreAskedFor' /\ EventsAreApart'
    BY <1>2, <2>1, <2>2, FewerEvents DEF EventsAreApart
  <2>4. VerdictTypes' /\ WaitingIsOpen' /\ WorkIsDecided'
    BY <1>1, <1>2, <2>1, <2>2 DEF VerdictTypes, WaitingIsOpen, WorkIsDecided
  <2>5. ResponsesAreDue'
    BY <1>1, <2>2 DEF ResponsesAreDue, Due, Grants, Refuses
  <2>. QED
    BY <1>2, <2>3, <2>4, <2>5
<1>4. CASE Rating!LoseAll
  BY <1>2, <1>4, LossKeepsVerdicts
<1>. QED
  BY <1>3, <1>4 DEF HandleResponse

\* Steps that rate and answer nothing.
LEMMA OthersKeepVerdicts ==
    ASSUME VerdictInv, UNCHANGED ratingVars, UNCHANGED <<ccr, answers>>
    PROVE  VerdictInv'
<1>. USE DEF VerdictInv, EventsInv
<1>1. UNCHANGED <<requests, dbRequests, work, nRetCode, dbResponses, responses, verdicts>>
  BY DEF ratingVars
<1>2. /\ Rating!Outstanding' = Rating!Outstanding
      /\ Waiting' = Waiting
      /\ Given' = Given
  BY <1>1, OutstandingMembers DEF Waiting, Given
<1>3. EventsAreAskedFor' /\ AnswersAreDue'
  BY <1>1, <1>2, FewerEvents, AnswersStayDue
<1>. QED
  BY <1>1, <1>2, <1>3
     DEF VerdictTypes, EventsAreApart, WaitingIsOpen, WorkIsDecided, ResponsesAreDue, Due,
         Grants, Refuses

LEMMA FaultKeepsVerdicts ==
    ASSUME VerdictInv, NEW t \in Thread, DatabaseFaults(t)
    PROVE  VerdictInv'
<1>1. Rating!LoseAll /\ UNCHANGED <<ccr, answers>> /\ rating' = {}
  BY DEF DatabaseFaults, Rating!ResultMissing, OCF!DatabaseFaults, OCF!Crash
<1>2. UNCHANGED verdicts
  BY <1>1 DEF Rating!LoseAll
<1>3. AnswersAreDue'
  BY <1>1, <1>2, AnswersStayDue DEF VerdictInv
<1>. QED
  BY <1>1, <1>3, LossKeepsVerdicts DEF VerdictInv, VerdictTypes

LEMMA VerdictInvStays ==
    ASSUME VerdictsAreRead
    PROVE  VerdictInv /\ ServerInv /\ [Next]_vars => VerdictInv'
<1>. SUFFICES ASSUME VerdictInv, ServerInv, [Next]_vars PROVE VerdictInv'
  OBVIOUS
<1>1. CASE Restart
  BY <1>1, OthersKeepVerdicts DEF Restart, OCF!Restart
<1>2. ASSUME NEW o \in Request, TimerExpires(o)
      PROVE  VerdictInv'
  BY <1>2, OthersKeepVerdicts DEF TimerExpires, OCF!TimerExpires, OCF!Crash
<1>3. CASE UNCHANGED vars
  BY <1>3, OthersKeepVerdicts DEF vars, ocfVars
<1>. QED
  BY <1>1, <1>2, <1>3, RatingStepKeepsVerdicts, ArrivalKeepsVerdicts, AnswerKeepsVerdicts,
     FaultKeepsVerdicts
     DEF Next

\* When verdicts can be read, a session is granted only if the database granted
\* that very request, or returned a code the database module does not know, and
\* refused only if it denied it or could not be asked, however late a response is
\* and whichever request it answers (ocsdb.c:297-341, ocf_statemachine.c:98-565).
THEOREM AnswersSayTheVerdict ==
    ASSUME VerdictsAreRead
    PROVE  Spec => []AnswersFollowTheVerdict
<1>1. VerdictInv => AnswersFollowTheVerdict
  <2>. SUFFICES ASSUME VerdictInv, NEW q \in Request, NEW i \in DOMAIN answers[q],
                       answers[q][i].from # NULL,
                       OCF!RatingKind(ccr[answers[q][i].from]) = "Tariff"
                PROVE  LET a == answers[q][i]
                       IN /\ a.code = "SUCCESS" => verdicts[a.from] \in {"grant", "other"}
                          /\ a.code = "RATING_FAILED" =>
                                \/ verdicts[a.from] = "deny"
                                \/ verdicts[a.from] = "open" /\ "call" \in Faults
    BY DEF AnswersFollowTheVerdict
  <2>1. AnswerIsDue(answers[q][i])
    BY DEF VerdictInv, AnswersAreDue
  <2>. QED
    BY <2>1 DEF AnswerIsDue, Grants, Refuses
<1>. QED
  BY <1>1, VerdictsStart, InitiallyIdle, VerdictInvStays, ServerInvStays, PTL DEF Spec
-----------------------------------------------------------------------------
(***************************************************************************)
(* What is proved of module OCF, for the whole server: the theorems of     *)
(* modules OCF_proofs and OCFResponses_proofs are read with "rating" as    *)
(* what the rating function and the database threads have outstanding.     *)
(* Their definitions are those of the instance in module OCS under         *)
(* another name, so that expanding both shows that they are the same.      *)
(***************************************************************************)
Proofs == INSTANCE OCFResponses_proofs WITH
              Faults <- Faults \ RatingFaults,
              TariffResults <- {"OCS_SUCCESS", "OCS_FAILURE"},
              PriceResults <- {"OCS_SUCCESS"}

LEMMA OCFAssumptionHolds == Proofs!OCFAssumption
  BY OCSAssumption
  DEF Proofs!OCFAssumption, Proofs!RatingResult, RatingFaults,
      OCF!AllFaults, Proofs!AllFaults, OCF!Message, Proofs!Message,
      OCF!SubSession, Proofs!SubSession, OCF!RequestType, Proofs!RequestType,
      OCF!Key, Proofs!Key

LEMMA SameStart == OCF!Init => Proofs!Init
  BY DEF OCF!Init, Proofs!Init, OCF!Key, Proofs!Key

LEMMA SameArrivals ==
    ASSUME NEW r, OCF!RequestArrives(r)
    PROVE  Proofs!RequestArrives(r)
  BY DEF OCF!RequestArrives, Proofs!RequestArrives, OCF!UnsupportedCommand,
         Proofs!UnsupportedCommand, OCF!ExtractionFails, Proofs!ExtractionFails,
         OCF!UnknownRequestType, Proofs!UnknownRequestType, OCF!InitialRequest,
         Proofs!InitialRequest, OCF!EventRequest, Proofs!EventRequest,
         OCF!UpdateRequest, Proofs!UpdateRequest, OCF!TerminateRequest,
         Proofs!TerminateRequest, OCF!Message, Proofs!Message, OCF!Arrives,
         Proofs!Arrives, OCF!Emit, Proofs!Emit, OCF!ErrorAnswer, Proofs!ErrorAnswer,
         OCF!Reject, Proofs!Reject, OCF!OpenSubSession, Proofs!OpenSubSession,
         OCF!OCF_CheckChargingType, Proofs!OCF_CheckChargingType, OCF!UseSubSession,
         Proofs!UseSubSession, OCF!RequestType, Proofs!RequestType, OCF!Key,
         Proofs!Key, OCF!TooEarly, Proofs!TooEarly, OCF!NewSubSession,
         Proofs!NewSubSession, OCF!SendRatingRequest, Proofs!SendRatingRequest,
         OCF!InProgress, Proofs!InProgress, OCF!TakeOver, Proofs!TakeOver

LEMMA SameGrants ==
    ASSUME NEW r, NEW q, OCF!Granted(r, q)
    PROVE  Proofs!Granted(r, q)
  BY DEF OCF!Granted, Proofs!Granted, OCF!OCF_Idle_InitReqProcessingSuccessful,
         Proofs!OCF_Idle_InitReqProcessingSuccessful,
         OCF!OCF_Idle_EventReqProcessingSuccessful,
         Proofs!OCF_Idle_EventReqProcessingSuccessful,
         OCF!OCF_Open_UpdateReqProcessingSuccessful,
         Proofs!OCF_Open_UpdateReqProcessingSuccessful,
         OCF!OCF_Open_TerminateReqProcessingSuccessful,
         Proofs!OCF_Open_TerminateReqProcessingSuccessful, OCF!Dispatched,
         Proofs!Dispatched, OCF!AnswerFails, Proofs!AnswerFails, OCF!AnswerSent,
         Proofs!AnswerSent, OCF!RatedAnswer, Proofs!RatedAnswer, OCF!Read,
         Proofs!Read, OCF!PayloadOf, Proofs!PayloadOf, OCF!FreeCCR, Proofs!FreeCCR,
         OCF!Opened, Proofs!Opened, OCF!StartTimer, Proofs!StartTimer,
         OCF!RemoveSubSession, Proofs!RemoveSubSession, OCF!Renewed, Proofs!Renewed,
         OCF!KillTimer, Proofs!KillTimer, OCF!Delivered, Proofs!Delivered,
         OCF!RatingResults, Proofs!RatingResults, OCF!RatingKind, Proofs!RatingKind,
         OCF!LastOfSession, Proofs!LastOfSession, OCF!Deref, Proofs!Deref,
         OCF!OCF_CheckChargingType, Proofs!OCF_CheckChargingType, OCF!Key,
         Proofs!Key

LEMMA SameRefusals ==
    ASSUME NEW r, NEW q, OCF!Refused(r, q)
    PROVE  Proofs!Refused(r, q)
  BY DEF OCF!Refused, Proofs!Refused, OCF!OCF_Idle_InitReqProcessingUnSuccessful,
         Proofs!OCF_Idle_InitReqProcessingUnSuccessful,
         OCF!OCF_Idle_EventReqProcessingUnSuccessful,
         Proofs!OCF_Idle_EventReqProcessingUnSuccessful,
         OCF!OCF_Open_UpdateReqProcessingUnSuccessful,
         Proofs!OCF_Open_UpdateReqProcessingUnSuccessful,
         OCF!OCF_Open_TerminateReqProcessingUnSuccessful,
         Proofs!OCF_Open_TerminateReqProcessingUnSuccessful,
         OCF!UninitialisedAnswerFaults, Proofs!UninitialisedAnswerFaults,
         OCF!Dispatched, Proofs!Dispatched, OCF!AnswerFails, Proofs!AnswerFails,
         OCF!AnswerSent, Proofs!AnswerSent, OCF!RatedAnswer, Proofs!RatedAnswer,
         OCF!FreeCCR, Proofs!FreeCCR, OCF!RemoveSubSession, Proofs!RemoveSubSession,
         OCF!Untimed, Proofs!Untimed, OCF!KillTimer, Proofs!KillTimer,
         OCF!RemoveSubSessionByOwnId, Proofs!RemoveSubSessionByOwnId,
         OCF!RatingResults, Proofs!RatingResults, OCF!Deref, Proofs!Deref,
         OCF!Crash, Proofs!Crash, OCF!Delivered, Proofs!Delivered,
         OCF!LastOfSession, Proofs!LastOfSession, OCF!RatingKind, Proofs!RatingKind,
         OCF!Key, Proofs!Key, OCF!OCF_CheckChargingType,
         Proofs!OCF_CheckChargingType

LEMMA SameUnhandled ==
    ASSUME NEW r, OCF!Unhandled(r)
    PROVE  Proofs!Unhandled(r)
  BY DEF OCF!Unhandled, Proofs!Unhandled, OCF!ResponseWithoutSession,
         Proofs!ResponseWithoutSession, OCF!CCRReadFaults, Proofs!CCRReadFaults,
         OCF!NoHandler, Proofs!NoHandler, OCF!Crash, Proofs!Crash, OCF!Delivered,
         Proofs!Delivered, OCF!HasHandler, Proofs!HasHandler, OCF!Key, Proofs!Key,
         OCF!Deref, Proofs!Deref

LEMMA SameFaults ==
    ASSUME NEW r,
           OCF!ResponseLost(r) \/ OCF!FreedSessionFaults(r) \/ OCF!DatabaseFaults(r)
    PROVE  Proofs!ResponseLost(r) \/ Proofs!FreedSessionFaults(r) \/ Proofs!DatabaseFaults(r)
  BY DEF OCF!ResponseLost, Proofs!ResponseLost, OCF!FreedSessionFaults,
         Proofs!FreedSessionFaults, OCF!DatabaseFaults, Proofs!DatabaseFaults,
         OCF!RatingKind, Proofs!RatingKind, OCF!OCF_CheckChargingType,
         Proofs!OCF_CheckChargingType, OCF!Message, Proofs!Message, OCF!Arrives,
         Proofs!Arrives, OCF!Crash, Proofs!Crash, OCF!RequestType,
         Proofs!RequestType, OCF!Key, Proofs!Key, OCF!TooEarly, Proofs!TooEarly

LEMMA SameTimers ==
    ASSUME NEW r, OCF!TimerExpires(r)
    PROVE  Proofs!TimerExpires(r)
  BY DEF OCF!TimerExpires, Proofs!TimerExpires, OCF!Crash, Proofs!Crash,
         OCF!RemoveSubSession, Proofs!RemoveSubSession, OCF!Key, Proofs!Key,
         OCF!LastOfSession, Proofs!LastOfSession

LEMMA SameSteps == [OCF!Next]_(OCF!vars) => [Proofs!Next]_(Proofs!vars)
<1>1. OCF!Restart => Proofs!Restart
  BY DEF OCF!Restart, Proofs!Restart
<1>2. ASSUME NEW r, OCF!HandleResponse(r)
      PROVE  Proofs!HandleResponse(r)
  BY <1>2, SameUnhandled, SameGrants, SameRefusals
  DEF OCF!HandleResponse, Proofs!HandleResponse
<1>3. OCF!Next => Proofs!Next
  BY <1>1, <1>2, SameArrivals, SameFaults, SameTimers DEF OCF!Next, Proofs!Next
<1>. QED
  BY <1>3 DEF OCF!vars, Proofs!vars

\* The server is a behaviour the theorems are about.
LEMMA ServerIsOCF == Spec => Proofs!Spec
  BY ServerImplementsOCF, SameStart, SameSteps, PTL
  DEF ImplementsOCF, OCF!Spec, Proofs!Spec

\* Whatever fails in the OCF, the rating function and the database, a timer never
\* gets a freed object, and a sub-session that works on no request is timed
\* (ocf_statemachine.c:76-95, 182-188, 409-418).
THEOREM ServerKeepsTimers ==
    Spec => [](OCF!TimersPointToLiveSessions /\ OCF!FreeSessionsAreTimed)
<1>1. Proofs!Spec => []Proofs!TimersPointToLiveSessions
  BY OCFAssumptionHolds, Proofs!NoTimerOfAFreedSession, PTL
  DEF Proofs!NoTimerOfAFreedSession
<1>2. Proofs!Spec => []Proofs!FreeSessionsAreTimed
  BY OCFAssumptionHolds, Proofs!NoUntimedFreeSession, PTL
  DEF Proofs!NoUntimedFreeSession
<1>3. Proofs!TimersPointToLiveSessions => OCF!TimersPointToLiveSessions
  BY DEF OCF!TimersPointToLiveSessions, Proofs!TimersPointToLiveSessions, OCF!SubOf,
         Proofs!SubOf
<1>4. Proofs!FreeSessionsAreTimed => OCF!FreeSessionsAreTimed
  BY DEF OCF!FreeSessionsAreTimed, Proofs!FreeSessionsAreTimed, OCF!Key, Proofs!Key
<1>. QED
  BY <1>1, <1>2, <1>3, <1>4, ServerIsOCF, PTL

\* While a request is rated, however long the database takes and whatever fails, no
\* other request takes over its sub-session (ocf_sbcf.c:122-135, 174-182).
THEOREM ServerKeepsProgress == Spec => OCF!ProgressIsNotDisplaced
<1>1. Proofs!Spec => Proofs!ProgressIsNotDisplaced
  BY OCFAssumptionHolds, Proofs!NoRequestIsDisplaced, PTL
  DEF Proofs!NoRequestIsDisplaced
<1>. QED
  BY <1>1, ServerIsOCF, PTL
  DEF OCF!ProgressIsNotDisplaced, Proofs!ProgressIsNotDisplaced,
      OCF!Key, Proofs!Key, OCF!vars, Proofs!vars

-----------------------------------------------------------------------------
(* When clients reopen no sub-session early, memory is safe, and no tariff   *)
(* is without a row                                                         *)

ClientsWait == EarlyReopen = FALSE

\* No pointer is followed that is dangling, uninitialised or null.
MemoryIsSafe == {"uninit", "row"} \cap Faults = {}

LEMMA ClientsAreCareful ==
    ASSUME ClientsWait, MemoryIsSafe
    PROVE  Proofs!ClientsWait /\ Proofs!MemoryIsSafe
  BY OCSAssumption
  DEF ClientsWait, MemoryIsSafe, RatingFaults, Proofs!ClientsWait, Proofs!MemoryIsSafe

\* However the database threads overtake one another and whatever they lose, a
\* response finds the request it was asked for or no sub-session, and no two
\* ratings of a sub-session are under way (ocf_sbcf.c:30-39, ocf_ebcf.c:20-27).
THEOREM ServerMatchesResponses ==
    ASSUME ClientsWait, MemoryIsSafe
    PROVE  Spec => [](OCF!ResponseFindsItsRequest /\ OCF!OneRatingPerSubSession)
<1>1. Proofs!Spec => []Proofs!ResponseFindsItsRequest
  BY OCFAssumptionHolds, ClientsAreCareful, Proofs!ResponsesMatch, PTL
  DEF Proofs!ResponsesMatch
<1>2. Proofs!Spec => []Proofs!OneRatingPerSubSession
  BY OCFAssumptionHolds, ClientsAreCareful, Proofs!RatingsDoNotOverlap, PTL
  DEF Proofs!RatingsDoNotOverlap
<1>3. Proofs!ResponseFindsItsRequest => OCF!ResponseFindsItsRequest
  BY DEF OCF!ResponseFindsItsRequest, Proofs!ResponseFindsItsRequest, OCF!SubOf,
         Proofs!SubOf
<1>4. Proofs!OneRatingPerSubSession => OCF!OneRatingPerSubSession
  BY DEF OCF!OneRatingPerSubSession, Proofs!OneRatingPerSubSession
<1>. QED
  BY <1>1, <1>2, <1>3, <1>4, ServerIsOCF, PTL

\* No request is answered twice, and its answer is made of its own rating; the
\* server does not crash (ocf_statemachine.c:98-620).
THEOREM ServerAnswersOnce ==
    ASSUME ClientsWait, MemoryIsSafe
    PROVE  Spec => [](OCF!AtMostOneAnswer /\ OCF!AnswerOfOwnRating /\ OCF!NeverCrashes)
<1>1. Proofs!Spec => []Proofs!AtMostOneAnswer
  BY OCFAssumptionHolds, ClientsAreCareful, Proofs!NoSecondAnswer, PTL
  DEF Proofs!NoSecondAnswer
<1>2. Proofs!Spec => []Proofs!AnswerOfOwnRating
  BY OCFAssumptionHolds, ClientsAreCareful, Proofs!AnswersAreOwn, PTL
  DEF Proofs!AnswersAreOwn
<1>3. Proofs!Spec => []Proofs!NeverCrashes
  BY OCFAssumptionHolds, ClientsAreCareful, Proofs!NoHandlerCrashes, PTL
  DEF Proofs!NoHandlerCrashes
<1>4. Proofs!AtMostOneAnswer => OCF!AtMostOneAnswer
  BY DEF OCF!AtMostOneAnswer, Proofs!AtMostOneAnswer
<1>5. Proofs!AnswerOfOwnRating => OCF!AnswerOfOwnRating
  BY DEF OCF!AnswerOfOwnRating, Proofs!AnswerOfOwnRating
<1>6. Proofs!NeverCrashes => OCF!NeverCrashes
  BY DEF OCF!NeverCrashes, Proofs!NeverCrashes
<1>. QED
  BY <1>1, <1>2, <1>3, <1>4, <1>5, <1>6, ServerIsOCF, PTL

\* What the answer to a request says of it, from the OCF through the rating
\* function and the database thread to the verdict: a grant was authorised for
\* this very request, a refusal denied to it.
AnswersFollowTheirOwnVerdict ==
    \A q \in Request : \A i \in DOMAIN answers[q] :
        LET a == answers[q][i]
        IN a.from # NULL /\ OCF!RatingKind(ccr[q]) = "Tariff" =>
               /\ a.code = "SUCCESS" => verdicts[q] \in {"grant", "other"}
               /\ a.code = "RATING_FAILED" =>
                      \/ verdicts[q] = "deny"
                      \/ verdicts[q] = "open" /\ "call" \in Faults

\* A client that waits is granted what the database authorised for its request,
\* and refused what it denied, however many requests are rated at once and
\* whatever is lost (ocf_sbcf.c:14-47, ocsdb.c:297-341, ocf_statemachine.c:98-565).
THEOREM AnswersSayTheirOwnVerdict ==
    ASSUME VerdictsAreRead, ClientsWait, MemoryIsSafe
    PROVE  Spec => []AnswersFollowTheirOwnVerdict
<1>1. OCF!AnswerOfOwnRating /\ AnswersFollowTheVerdict => AnswersFollowTheirOwnVerdict
  <2>. SUFFICES ASSUME OCF!AnswerOfOwnRating, AnswersFollowTheVerdict,
                       NEW q \in Request, NEW i \in DOMAIN answers[q],
                       answers[q][i].from # NULL
                PROVE  answers[q][i].from = q
    BY DEF AnswersFollowTheVerdict, AnswersFollowTheirOwnVerdict
  <2>. QED
    BY DEF OCF!AnswerOfOwnRating
<1>. QED
  BY <1>1, ServerAnswersOnce, AnswersSayTheVerdict, PTL

-----------------------------------------------------------------------------
(* When clients reopen at any time *)

\* When the sends of events succeed and whatever else fails, however early clients
\* reopen, a grant is the last answer to its request, and answers go to the peer
\* that asked (ocf_statemachine.c:165-188, 340-351, 409-418, 536-552).
THEOREM ServerKeepsItsGrants ==
    ASSUME "event" \notin Faults
    PROVE  Spec => [](OCF!GrantIsFinal /\ OCF!AnswersReachTheAsker)
<1>1. Proofs!EventsLeave
  BY DEF Proofs!EventsLeave
<1>2. Proofs!Spec => []Proofs!GrantIsFinal
  BY <1>1, OCFAssumptionHolds, Proofs!NothingFollowsAGrant, PTL
  DEF Proofs!NothingFollowsAGrant
<1>3. Proofs!Spec => []Proofs!AnswersReachTheAsker
  BY <1>1, OCFAssumptionHolds, Proofs!NoAnswerGoesAstray, PTL
  DEF Proofs!NoAnswerGoesAstray
<1>4. Proofs!GrantIsFinal => OCF!GrantIsFinal
  BY DEF OCF!GrantIsFinal, Proofs!GrantIsFinal
<1>5. Proofs!AnswersReachTheAsker => OCF!AnswersReachTheAsker
  BY DEF OCF!AnswersReachTheAsker, Proofs!AnswersReachTheAsker
<1>. QED
  BY <1>2, <1>3, <1>4, <1>5, ServerIsOCF, PTL
=============================================================================
