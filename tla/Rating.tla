------------------------------- MODULE Rating -------------------------------
(***************************************************************************)
(* The rating function (src/src/ratingfunc) and the database module        *)
(* (src/src/db_module): a rating request of the OCF goes through the       *)
(* rating function to one of the database threads, and its response back.  *)
(*                                                                         *)
(* Events are kept in sets, since the event system promises no order.  They *)
(* are copies that name a sub-session; the request they were made for is   *)
(* carried along to tell the copies apart.                                 *)
(***************************************************************************)
CONSTANTS
    Request,   \* identities of rating requests
    Thread,    \* the database threads
    Faults,    \* what may fail
    NULL       \* no response, no job, a session variable that was never set

VARIABLES
    requests,     \* OCS_RATING_FUNCTION_PRICE/TARIFF_REQUEST_EVENTs
    dbRequests,   \* OCS_DB_PRICE/TARIFF_REQUEST_EVENTs
    work,         \* the tariff request each thread is working on, or NULL
    nRetCode,     \* @nRetCode of each database connection
    dbResponses,  \* OCS_DB_PRICE/TARIFF_RESPONSE_EVENTs
    responses,    \* OCS_RATING_FUNCTION_PRICE/TARIFF_RESPONE_EVENTs
    verdicts,     \* what the database decided about each request
    replies       \* what the OCF was told about each request

queues == <<requests, dbRequests, dbResponses, responses>>
vars == <<requests, dbRequests, work, nRetCode, dbResponses, responses, verdicts, replies>>

Working == {work[t] : t \in {u \in Thread : work[u] # NULL}}

\* The events that stand for a request without a response.
Outstanding ==
    requests \cup dbRequests \cup Working
        \cup {a.event : a \in dbResponses \cup responses}

Service == INSTANCE RatingService WITH pending <- Outstanding

Event == Service!Event
Response == [event: Event, outcome: Service!Outcome]

ASSUME RatingAssumption ==
    /\ Thread # {}
    /\ Faults \subseteq Service!AllRatingFaults
    /\ NULL \notin Event \cup Service!Outcome

TypeOK ==
    /\ requests \subseteq Event
    /\ dbRequests \subseteq Event
    /\ work \in [Thread -> Event \cup {NULL}]
    /\ nRetCode \in [Thread -> Service!Verdict \cup {NULL}]
    /\ dbResponses \subseteq Response
    /\ responses \subseteq Response
    /\ verdicts \in [Request -> Service!Verdict]
    /\ replies \in [Request -> Service!Outcome \cup {NULL}]

Init ==
    /\ requests = {}
    /\ dbRequests = {}
    /\ work = [t \in Thread |-> NULL]
    /\ nRetCode = [t \in Thread |-> NULL]
    /\ dbResponses = {}
    /\ responses = {}
    /\ verdicts = [r \in Request |-> "open"]
    /\ replies = [r \in Request |-> NULL]
----------------------------------------------------------------------------
(* The rating function *)

\* The events of a queue after e is sent to it: sending may fail, and nobody
\* looks.
Sent(queue, e) == {queue \cup {e}} \cup (IF "loss" \in Faults THEN {queue} ELSE {})

\* The OCF asks for the rating of a request that has none under way.
Ask(e) ==
    /\ \A p \in Outstanding : p.request # e.request
    /\ requests' = requests \cup {e}
    /\ verdicts' = [verdicts EXCEPT ![e.request] = "open"]
    /\ replies' = [replies EXCEPT ![e.request] = NULL]
    /\ UNCHANGED <<dbRequests, work, nRetCode, dbResponses, responses>>

\* An event taken off its queue; one that stays there.
Remains(queue, e) == queue

Without(queue, e) == queue \ {e}

\* RatingFunc_ProcessPriceRequest, RatingFunc_ProcessTarrifRequest: the payload
\* is passed on as it is.
RatingFunc_ProcessRequest(e) ==
    /\ e \in requests
    /\ requests' = Without(requests, e)
    /\ dbRequests' \in Sent(dbRequests, e)
    /\ UNCHANGED <<work, nRetCode, dbResponses, responses, verdicts, replies>>

RatingFunc_ProcessDBResponse(a) ==
    /\ a \in dbResponses
    /\ dbResponses' = Without(dbResponses, a)
    /\ responses' \in Sent(responses, a)
    /\ UNCHANGED <<requests, dbRequests, work, nRetCode, verdicts, replies>>

\* The OCF takes a response.
Deliver(a) ==
    /\ a \in responses
    /\ responses' = Without(responses, a)
    /\ replies' = [replies EXCEPT ![a.event.request] = a.outcome]
    /\ UNCHANGED <<requests, dbRequests, work, nRetCode, dbResponses, verdicts>>
----------------------------------------------------------------------------
(* The database threads *)

\* Every thread opens a connection of its own; one connection for all.
SharedConnection(t) == CHOOSE u \in Thread : TRUE

Connection(t) == t

\* A free thread gets a database request of the given kind.
Takes(t, e, kind) ==
    /\ work[t] = NULL
    /\ e \in dbRequests
    /\ e.kind = kind
    /\ dbRequests' = Without(dbRequests, e)
    /\ UNCHANGED <<requests, responses, replies>>

\* A handler that returns early when there is nothing good to say.
OnlyGoodNews(e, outcome) ==
    IF outcome = Service!Refusal THEN UNCHANGED dbResponses
    ELSE dbResponses' \in Sent(dbResponses, [event |-> e, outcome |-> outcome])

Respond(e, outcome) == dbResponses' \in Sent(dbResponses, [event |-> e, outcome |-> outcome])

\* A price is made up without the database.
OCSDB_ProcessPriceRequest(t, e) ==
    /\ Takes(t, e, "Price")
    /\ Respond(e, Service!Blank)
    /\ UNCHANGED <<work, nRetCode, verdicts>>

\* OCSDB_ProcessTariffRequest up to its first query, which runs the
\* authorization procedure and leaves its verdict in the connection, ...
CallProcedure(t, e, verdict) ==
    /\ Takes(t, e, "Tariff")
    /\ work' = [work EXCEPT ![t] = e]
    /\ nRetCode' = [nRetCode EXCEPT ![Connection(t)] = verdict]
    /\ verdicts' = [verdicts EXCEPT ![e.request] = verdict]
    /\ UNCHANGED dbResponses

\* ... or fails, ...
CallFails(t, e) ==
    /\ "call" \in Faults
    /\ Takes(t, e, "Tariff")
    /\ Respond(e, Service!Refusal)
    /\ UNCHANGED <<work, nRetCode, verdicts>>

\* Any code but 1 taken for a grant.
UnlessDenied(code) == IF code = "deny" THEN Service!Refusal ELSE Service!Quota

\* A response that is not cleared before its result is set.
Uncleared(code) ==
    CASE code = "grant" -> Service!Quota
      [] code = "deny"  -> Service!Refusal
      [] OTHER          -> [result |-> NULL, quota |-> FALSE]

\* What the handler makes of the code it reads back: oResult is OCS_SUCCESS
\* unless it is set.
OutcomeOf(code) ==
    CASE code = "grant" -> Service!Quota
      [] code = "deny"  -> Service!Refusal
      [] OTHER          -> Service!Blank

\* ... and from there on, with what the second query reads from the connection.
SelectResults(t) ==
    /\ work[t] # NULL
    /\ work' = [work EXCEPT ![t] = NULL]
    /\ \/ Respond(work[t], OutcomeOf(nRetCode[Connection(t)]))
       \/ "select" \in Faults /\ Respond(work[t], Service!Blank)
    /\ UNCHANGED <<requests, dbRequests, nRetCode, responses, verdicts, replies>>

\* The rating function and the database threads are gone with the process; what
\* the database decided and what was said is not undone.
LoseAll ==
    /\ requests' = {}
    /\ dbRequests' = {}
    /\ work' = [t \in Thread |-> NULL]
    /\ nRetCode' = [t \in Thread |-> NULL]
    /\ dbResponses' = {}
    /\ responses' = {}
    /\ UNCHANGED <<verdicts, replies>>

\* The second query succeeds without a row, or with a NULL in a column that is
\* read: the handler follows a null pointer.
ResultMissing(t) ==
    /\ "row" \in Faults
    /\ work[t] # NULL
    /\ LoseAll
----------------------------------------------------------------------------
ProcessTariffRequest(t, e) ==
    \/ \E verdict \in Service!Verdict \ {"open"} : CallProcedure(t, e, verdict)
    \/ CallFails(t, e)

\* An event is handled: by the scheduler, or by one of the threads.
HandleRequest(e) == RatingFunc_ProcessRequest(e)

HandleDBRequest(e) ==
    \E t \in Thread : OCSDB_ProcessPriceRequest(t, e) \/ ProcessTariffRequest(t, e)

HandleDBResponse(e) == \E a \in dbResponses : a.event = e /\ RatingFunc_ProcessDBResponse(a)

\* What goes on between the OCF's request and its response.
Internal ==
    \/ \E e \in Event : \/ HandleRequest(e)
                        \/ HandleDBRequest(e)
                        \/ HandleDBResponse(e)
    \/ \E t \in Thread : SelectResults(t)

Next ==
    \/ \E e \in Event : Ask(e)
    \/ Internal
    \/ \E a \in responses : Deliver(a)
    \/ \E t \in Thread : ResultMissing(t)

Spec == Init /\ [][Next]_vars
----------------------------------------------------------------------------
(* Properties *)

\* Two events never stand for the same request, in one queue or in two, and no
\* two threads work for it: a request is charged and answered once, although
\* its payload is copied from queue to queue (ratingfunc.c:121-153, 184-200).
RequestsAreNotDuplicated ==
    /\ \A e, f \in Outstanding : e.request = f.request => e = f
    /\ \A t, u \in Thread : work[t] # NULL /\ work[t] = work[u] => t = u
    /\ \A a, b \in dbResponses \cup responses : a.event = b.event => a = b
    /\ requests \cap dbRequests = {}
    /\ Working \cap (requests \cup dbRequests) = {}
    /\ dbResponses \cap responses = {}
    /\ {a.event : a \in dbResponses \cup responses}
           \cap (requests \cup dbRequests \cup Working) = {}

\* While a thread is between its two queries, its connection holds the verdict
\* on the request it works for, whatever the other threads do to theirs: the
\* result is read back by name only (config/db_ocs_queries.xml, ocsdb.c:297-319).
VerdictsAreNotMixedUp ==
    \A t \in Thread : work[t] # NULL =>
        /\ nRetCode[Connection(t)] = verdicts[work[t].request]
        /\ verdicts[work[t].request] # "open"

\* The rating function and the database threads keep the promise of
\* RatingService: at most one response, justified by the verdict on the very
\* request it answers.
KeepsThePromise == Service!Spec

\* A request gets its response when no event is lost: no path through the two
\* queries ends without one (ocsdb.c:297-357).
EveryRequestIsRated ==
    \A e \in Event : (e \in Outstanding) ~> (replies[e.request] # NULL)
=============================================================================
