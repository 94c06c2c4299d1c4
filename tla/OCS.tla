-------------------------------- MODULE OCS --------------------------------
(***************************************************************************)
(* The whole server: the OCF on top of the rating function and the         *)
(* database threads.  The set "rating" of module OCF is what module Rating *)
(* has outstanding, and a response grants or refuses as the database said. *)
(***************************************************************************)
CONSTANTS
    Request, SessionId, SubSessionId, ServiceId, EarlyReopen, \* see OCF
    Thread,   \* see Rating
    Faults,   \* what may fail in the OCF, the rating function and the database
    NULL

RatingFaults == {"call", "select"}

VARIABLES
    up, ccr, mem, sub, dangling, armed, answers,    \* see OCF
    requests, dbRequests, work, nRetCode,           \* see Rating
    dbResponses, responses, verdicts, replies

Rating == INSTANCE Rating WITH Faults <- Faults \cap (RatingFaults \cup {"loss", "row"})

rating == {e.request : e \in Rating!Outstanding}

OCF == INSTANCE OCFProperties WITH
           Faults <- Faults \ RatingFaults,
           TariffResults <- {"OCS_SUCCESS", "OCS_FAILURE"},
           PriceResults <- {"OCS_SUCCESS"}

ASSUME OCSAssumption ==
    /\ Faults \subseteq (OCF!AllFaults \cup RatingFaults) \ {"freedKey"}
    /\ EarlyReopen \in BOOLEAN
    /\ NULL \notin Rating!Event \cup Request \cup OCF!Message \cup OCF!SubSession

ocfVars == <<up, ccr, mem, sub, dangling, armed, answers>>
ratingVars ==
    <<requests, dbRequests, work, nRetCode, dbResponses, responses, verdicts, replies>>
vars == <<ocfVars, ratingVars>>

Init == Rating!Init /\ OCF!Init

\* A handler that rates nothing, or that does and sends the request.
RequestArrives(r) ==
    \/ UNCHANGED ratingVars /\ OCF!RequestArrives(r)
    \/ \E e \in Rating!Event :
          /\ e.request = r
          /\ Rating!Ask(e)
          /\ OCF!RequestArrives(r)
          /\ e.kind = OCF!RatingKind(ccr'[r])

\* The kind of answer the OCF gives to a response.
Answers(a) ==
    LET r == a.event.request
    IN \/ OCF!Unhandled(r)
       \/ \E q \in Request :
             IF a.outcome.result = "OCS_SUCCESS" THEN OCF!Granted(r, q)
                                                 ELSE OCF!Refused(r, q)

HandleResponse(a) ==
    \/ Rating!Deliver(a) /\ Answers(a) /\ up'
    \/ a \in responses /\ Rating!LoseAll /\ Answers(a) /\ ~up'

RatingStep == Rating!Internal /\ UNCHANGED ocfVars

\* A database thread takes the whole process down.
DatabaseFaults(t) == Rating!ResultMissing(t) /\ OCF!DatabaseFaults(work[t].request)

\* A timer never gets a freed object (TimersPointToLiveSessions), so it does not
\* end the process.
TimerExpires(o) == UNCHANGED ratingVars /\ OCF!TimerExpires(o)

Restart == UNCHANGED ratingVars /\ OCF!Restart

Next ==
    \/ Restart
    \/ RatingStep
    \/ \E r \in Request : RequestArrives(r) \/ TimerExpires(r)
    \/ \E a \in responses : HandleResponse(a)
    \/ \E t \in Thread : DatabaseFaults(t)

Spec == Init /\ [][Next]_vars

\* The scheduler dispatches every event it holds, timers run out, database
\* threads finish their queries, and no event is passed over for ever while
\* threads get free.
Fairness ==
    /\ \A r \in Request :
          /\ WF_vars(TimerExpires(r))
          /\ WF_vars(\E a \in responses : a.event.request = r /\ HandleResponse(a))
    /\ \A e \in Rating!Event :
          /\ WF_vars(Rating!HandleRequest(e) /\ UNCHANGED ocfVars)
          /\ SF_vars(Rating!HandleDBRequest(e) /\ UNCHANGED ocfVars)
          /\ WF_vars(Rating!HandleDBResponse(e) /\ UNCHANGED ocfVars)
    /\ \A t \in Thread : WF_vars(Rating!SelectResults(t) /\ UNCHANGED ocfVars)

FairSpec == Spec /\ Fairness
----------------------------------------------------------------------------
(* Properties *)

\* Whatever the order in which the rating function and the database threads
\* work, the OCF sees a set of outstanding requests whose responses come in
\* any order, or never: everything that is shown of module OCF holds here
\* (ratingfunc.c:121-200, ocsdb.c:167-360).
ImplementsOCF == OCF!Spec

\* An answer that grants a session was made of the response to a rating request
\* the database authorised, or for which it returned a code the database module
\* does not know; one that refuses it, of a request the database denied or could
\* not be asked.  This is so even when a client reopens a sub-session early and
\* the answer goes to another request than the one that was rated
\* (ocsdb.c:319-341, ocf_statemachine.c:98-565).
AnswersFollowTheVerdict ==
    \A q \in Request : \A i \in DOMAIN answers[q] :
        LET a == answers[q][i]
        IN a.from # NULL /\ OCF!RatingKind(ccr[a.from]) = "Tariff" =>
               /\ a.code = "SUCCESS" => verdicts[a.from] \in {"grant", "other"}
               /\ a.code = "RATING_FAILED" =>
                      \/ verdicts[a.from] = "deny"
                      \/ verdicts[a.from] = "open" /\ "call" \in Faults

\* With the rating function and the database threads in between, every request
\* still settles (see OCFProperties).
EveryRequestSettles == OCF!EveryRequestSettles

\* ... and every rating request gets its response when no event is lost (see
\* Rating), however slow the database threads are.
EveryRequestIsRated == Rating!EveryRequestIsRated
=============================================================================
