------------------------------ MODULE Startup ------------------------------
(***************************************************************************)
(* The start of the server (src/src/onlinecharging.c) and what becomes of  *)
(* requests when a part of it failed.  main gives up when the libraries,   *)
(* the configuration or the modules cannot be loaded.  The initialisation  *)
(* of a module stops at its first failure, but the module counts as loaded *)
(* (ocf.c:29-37, ratingfunc.c:21-29, ocsdb.c:29-38), so that the server    *)
(* may run with some of its events unregistered, without a session table,  *)
(* without queries, or with database threads that have no connection.      *)
(*                                                                         *)
(* A request is followed on its way through the events, each named by a    *)
(* stage and a kind; one that reaches an event nobody registered for stays *)
(* there.                                                                  *)
(***************************************************************************)
EXTENDS Naturals, Sequences, SequencesExt

CONSTANTS
    Request,   \* identities of requests
    Thread,    \* the database threads
    Faults,    \* what may fail, see AllStartupFaults
    NULL       \* no thread, no result

AllStartupFaults == {
    "main",       \* the libraries, the configuration or the modules are not loaded
    "register",   \* an event or a callback cannot be registered
    "table",      \* the session table cannot be created
    "agents",     \* the database threads cannot be started
    "context",    \* a thread gets no memory for its context
    "connect",    \* a thread cannot connect to the database
    "queries",    \* the file of the queries cannot be read
    "undefined"}  \* what was never initialised may end the process when used

ASSUME StartupAssumption ==
    /\ Faults \subseteq AllStartupFaults
    /\ NULL \notin Thread \cup {"OCS_SUCCESS", "OCS_FAILURE"}

VARIABLES
    main,        \* what main does
    toLoad,      \* modules that are not loaded
    registered,  \* events with a handler, and the callback for requests
    table,       \* whether the OCF has a session table
    queries,     \* whether the queries are loaded
    thread,      \* state of each database thread
    at,          \* the event a request waits at, or what became of it
    kind,        \* how a request is charged
    servedBy,    \* the database thread that worked for a request
    result       \* what the rating of a request said

vars == <<main, toLoad, registered, table, queries, thread, at, kind, servedBy, result>>
server == <<main, toLoad, registered, table, queries, thread>>

Module == {"ratingfunc", "onlinecharg_db", "ocf"}

Kind == {"Price", "Tariff"}

Stage == {"RFRequest", "DBRequest", "DBResponse", "RFResponse"}

\* The registrations of each module in their order.  Nobody sends the events
\* of the kinds "Any" and "ServiceUsage".
RatingRegistrations == <<
    <<"RFRequest", "Any">>, <<"RFRequest", "Price">>, <<"RFRequest", "Tariff">>,
    <<"RFRequest", "ServiceUsage">>, <<"DBResponse", "Price">>, <<"DBResponse", "Tariff">> >>

DBRegistrations == << <<"DBRequest", "Price">>, <<"DBRequest", "Tariff">> >>

Application == <<"Application", "CCR">>

ResponseRegistrations == <<
    <<"RFResponse", "Any">>, <<"RFResponse", "Price">>, <<"RFResponse", "Tariff">>,
    <<"RFResponse", "ServiceUsage">> >>

OCFRegistrations == ResponseRegistrations \o <<Application>>

TypeOK ==
    /\ main \in {"booting", "loading", "running", "ended", "crashed"}
    /\ toLoad \subseteq Module
    /\ registered \subseteq
           ToSet(RatingRegistrations \o DBRegistrations \o OCFRegistrations)
    /\ table \in BOOLEAN
    /\ queries \in BOOLEAN
    /\ thread \in [Thread -> {"none", "starting", "empty", "unconnected", "connected"}]
    /\ at \in [Request -> Stage \cup {"new", "turned down", "answered"}]
    /\ kind \in [Request -> Kind]
    /\ servedBy \in [Request -> Thread \cup {NULL}]
    /\ result \in [Request -> {"OCS_SUCCESS", "OCS_FAILURE", NULL}]

Init ==
    /\ main = "booting"
    /\ toLoad = Module
    /\ registered = {}
    /\ table = FALSE
    /\ queries = FALSE
    /\ thread = [t \in Thread |-> "none"]
    /\ at = [r \in Request |-> "new"]
    /\ kind \in [Request -> Kind]
    /\ servedBy = [r \in Request |-> NULL]
    /\ result = [r \in Request |-> NULL]
----------------------------------------------------------------------------
(* main *)

requestVars == <<at, kind, servedBy, result>>

\* The framework, the scheduler, the Diameter context, the configuration and
\* the Diameter stack, in this order.
Boots ==
    /\ main = "booting"
    /\ main' = "loading"
    /\ UNCHANGED <<toLoad, registered, table, queries, thread, requestVars>>

\* main returns: one of these failed, or the modules cannot be loaded.
Fails ==
    /\ "main" \in Faults
    /\ main \in {"booting", "loading"}
    /\ main' = "ended"
    /\ UNCHANGED <<toLoad, registered, table, queries, thread, requestVars>>

\* Using what was never initialised ends the process.
Crashes ==
    /\ "undefined" \in Faults
    /\ main' = "crashed"
    /\ UNCHANGED <<toLoad, registered, table, queries, thread, requestVars>>

\* main takes a path from arguments that may not be there (onlinecharging.c:122),
\* and nobody looks whether a module got the memory for its context.
StartCrashes ==
    /\ main \in {"booting", "loading"}
    /\ Crashes

\* AMPS_Main, the scheduler, never returns.
Runs ==
    /\ main = "loading"
    /\ toLoad = {}
    /\ main' = "running"
    /\ UNCHANGED <<toLoad, registered, table, queries, thread, requestVars>>

Loads(module) ==
    /\ main = "loading"
    /\ module \in toLoad
    /\ toLoad' = toLoad \ {module}
    /\ UNCHANGED <<main, requestVars>>

\* How many of some registrations succeed before the first one that does not.
Successes(registrations) ==
    IF "register" \in Faults THEN 0..Len(registrations) ELSE {Len(registrations)}

First(n, registrations) == ToSet(SubSeq(registrations, 1, n))

RatingFunc_Init ==
    /\ Loads("ratingfunc")
    /\ \E n \in Successes(RatingRegistrations) :
           registered' = registered \cup First(n, RatingRegistrations)
    /\ UNCHANGED <<table, queries, thread>>

\* The threads are started first and initialise themselves; the file of the
\* queries is read last, and only a message tells when it is missing.
OCSDB_Init ==
    /\ Loads("onlinecharg_db")
    /\ thread' = [t \in Thread |-> "starting"]
    /\ \E n \in Successes(DBRegistrations) :
           /\ registered' = registered \cup First(n, DBRegistrations)
           /\ queries' \in {n = Len(DBRegistrations)}
                               \cup (IF "queries" \in Faults THEN {FALSE} ELSE {})
    /\ UNCHANGED table

OCSDB_InitFails ==
    /\ "agents" \in Faults
    /\ Loads("onlinecharg_db")
    /\ UNCHANGED <<registered, table, queries, thread>>

\* The session table comes last, after the callback that brings requests.
OCF_Init ==
    /\ Loads("ocf")
    /\ \E n \in Successes(OCFRegistrations) :
           /\ registered' = registered \cup First(n, OCFRegistrations)
           /\ table' \in {n = Len(OCFRegistrations)}
                             \cup (IF "table" \in Faults THEN {FALSE} ELSE {})
    /\ UNCHANGED <<queries, thread>>

\* A thread without memory returns no context; one without a connection only
\* says so.
OCSDB_ThreadInit(t) ==
    /\ thread[t] = "starting"
    /\ main \in {"loading", "running"}
    /\ \E state \in {"connected"}
                        \cup (IF "context" \in Faults THEN {"empty"} ELSE {})
                        \cup (IF "connect" \in Faults THEN {"unconnected"} ELSE {}) :
           thread' = [thread EXCEPT ![t] = state]
    /\ UNCHANGED <<main, toLoad, registered, table, queries, requestVars>>
----------------------------------------------------------------------------
(* Requests *)

\* A request whose session cannot be stored is rated all the same.
Regardless(r) == "RFRequest"

\* Where a request goes when the session table could take its session, or not.
SessionStored(r) == IF table THEN "RFRequest" ELSE "turned down"

RequestArrives(r) ==
    /\ main = "running"
    /\ Application \in registered
    /\ at[r] = "new"
    /\ \/ /\ at' = [at EXCEPT ![r] = SessionStored(r)]
          /\ UNCHANGED <<server, kind, servedBy, result>>
       \/ ~table /\ Crashes

\* The event r waits for at the given stage has a handler, which takes it.
Dispatched(r, stage) ==
    /\ main = "running"
    /\ at[r] = stage
    /\ <<stage, kind[r]>> \in registered

RatingFunc_ProcessRequest(r) ==
    /\ Dispatched(r, "RFRequest")
    /\ at' = [at EXCEPT ![r] = "DBRequest"]
    /\ UNCHANGED <<server, kind, servedBy, result>>

\* A query needs a connection, and a text to send.
CanQuery(t) == thread[t] = "connected" /\ queries

\* A failed query that leaves the zeroed result.
Zeroed(t, r) == {"OCS_SUCCESS"}

\* A price is made up without the database; a tariff whose query fails is
\* refused, and what the database says of one is not this module's matter.
ResultsFrom(t, r) ==
    IF kind[r] = "Price" THEN {"OCS_SUCCESS"}
    ELSE IF CanQuery(t) THEN {"OCS_SUCCESS", "OCS_FAILURE"}
    ELSE {"OCS_FAILURE"}

\* A handler that gives up when its query fails.
RespondsIfAble(t, r) == kind[r] = "Price" \/ CanQuery(t)

\* Whether a request gets a response: it does, whatever its queries did.
Responds(t, r) == TRUE

OCSDB_RequestHandler(t, r) ==
    /\ Dispatched(r, "DBRequest")
    /\ thread[t] \in {"unconnected", "connected"}
    /\ Responds(t, r)
    /\ at' = [at EXCEPT ![r] = "DBResponse"]
    /\ servedBy' = [servedBy EXCEPT ![r] = t]
    /\ \E oResult \in ResultsFrom(t, r) : result' = [result EXCEPT ![r] = oResult]
    /\ UNCHANGED <<server, kind>>

\* The handle of a connection that failed, or a query that was never read, is
\* whatever the memory held.
QueryCrashes(t, r) ==
    /\ Dispatched(r, "DBRequest")
    /\ thread[t] \in {"unconnected", "connected"}
    /\ kind[r] = "Tariff" /\ ~CanQuery(t)
    /\ Crashes

\* A thread without a context follows it all the same (ocsdb.c:172-175).
NoContext(t, r) ==
    /\ Dispatched(r, "DBRequest")
    /\ thread[t] = "empty"
    /\ main' = "crashed"
    /\ UNCHANGED <<toLoad, registered, table, queries, thread, requestVars>>

RatingFunc_ProcessDBResponse(r) ==
    /\ Dispatched(r, "DBResponse")
    /\ at' = [at EXCEPT ![r] = "RFResponse"]
    /\ UNCHANGED <<server, kind, servedBy, result>>

\* The OCF finds the session of the response and answers its request.
OCF_ProcessResponse(r) ==
    /\ Dispatched(r, "RFResponse")
    /\ at' = [at EXCEPT ![r] = "answered"]
    /\ UNCHANGED <<server, kind, servedBy, result>>
----------------------------------------------------------------------------
Start ==
    \/ Boots
    \/ Fails
    \/ StartCrashes
    \/ RatingFunc_Init
    \/ OCSDB_Init
    \/ OCSDB_InitFails
    \/ OCF_Init
    \/ Runs

\* The scheduler hands the events of r to the rating function and to the OCF.
Scheduler(r) ==
    \/ RatingFunc_ProcessRequest(r)
    \/ RatingFunc_ProcessDBResponse(r)
    \/ OCF_ProcessResponse(r)

Database(t, r) == OCSDB_RequestHandler(t, r) \/ NoContext(t, r)

Next ==
    \/ Start
    \/ \E t \in Thread : OCSDB_ThreadInit(t)
    \/ \E r \in Request : RequestArrives(r) \/ Scheduler(r)
    \/ \E t \in Thread, r \in Request : Database(t, r) \/ QueryCrashes(t, r)

Spec == Init /\ [][Next]_vars

\* The scheduler gets to every event, each thread finishes its start, and some
\* thread takes every database request.
Fairness ==
    /\ \A t \in Thread : WF_vars(OCSDB_ThreadInit(t))
    /\ \A r \in Request : WF_vars(Scheduler(r))
    /\ \A r \in Request : WF_vars(\E t \in Thread : Database(t, r))

FairSpec == Spec /\ Fairness
----------------------------------------------------------------------------
(* Properties *)

\* A request that is being rated has its session in a table, and its response
\* will find a handler, however far the OCF's own initialisation came: the
\* table is made after the responses are registered, and a request without a
\* session is not sent on (ocf.c:62-117, ocf_sbcf.c:78-98).
RatedRequestsCanBeAnswered ==
    \A r \in Request : at[r] \in Stage =>
        /\ table
        /\ <<"RFResponse", kind[r]>> \in registered

\* A tariff is never granted by a thread without a connection or without the
\* queries, although such a thread takes requests (ocsdb.c:78-81, 150-156).
NoTariffWithoutTheDatabase ==
    \A r \in Request : kind[r] = "Tariff" /\ result[r] = "OCS_SUCCESS" =>
        servedBy[r] # NULL /\ CanQuery(servedBy[r])

\* With every event registered each request that is being rated is answered,
\* whatever connections, queries and contexts are missing, unless the process
\* ends (ocsdb.c:336-357).
LoadedServersAnswer ==
    \A r \in Request :
        (/\ at[r] \in Stage
         /\ {<<stage, kind[r]>> : stage \in Stage} \subseteq registered)
            ~> (at[r] = "answered" \/ main = "crashed")
=============================================================================
