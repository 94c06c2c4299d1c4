--------------------------- MODULE Startup_proofs ---------------------------
(***************************************************************************)
(* Proofs about the start of the server, for any number of requests and of *)
(* database threads, and whatever of the start fails.                      *)
(***************************************************************************)
EXTENDS Startup, SequenceTheorems, TLAPS

Names == Stage \cup Kind \cup {"Any", "ServiceUsage", "Application", "CCR"}

Pairs == Names \X Names

Registrations == ToSet(RatingRegistrations \o DBRegistrations \o OCFRegistrations)

-----------------------------------------------------------------------------
(* Registrations *)

\* Lists of the lengths that occur, with any elements.
LEMMA Lists ==
    ASSUME NEW S, NEW a \in S, NEW b \in S, NEW c \in S, NEW d \in S, NEW e \in S, NEW f \in S
    PROVE  /\ <<a>> \in Seq(S) /\ Len(<<a>>) = 1
           /\ <<a, b>> \in Seq(S)
           /\ <<a, b, c, d>> \in Seq(S)
           /\ Len(<<a, b, c, d>>) = 4
           /\ <<a, b, c, d>>[2] = b
           /\ <<a, b, c, d>>[3] = c
           /\ <<a, b, c, d, e, f>> \in Seq(S)
  OBVIOUS

LEMMA RegistrationSequences ==
    /\ RatingRegistrations \in Seq(Pairs)
    /\ DBRegistrations \in Seq(Pairs)
    /\ OCFRegistrations \in Seq(Pairs)
<1>0. \A a, b \in Names : <<a, b>> \in Pairs
  BY DEF Pairs
<1>1. RatingRegistrations \in Seq(Pairs)
  <2>1. /\ <<"RFRequest", "Any">> \in Pairs
        /\ <<"RFRequest", "Price">> \in Pairs
        /\ <<"RFRequest", "Tariff">> \in Pairs
        /\ <<"RFRequest", "ServiceUsage">> \in Pairs
        /\ <<"DBResponse", "Price">> \in Pairs
        /\ <<"DBResponse", "Tariff">> \in Pairs
    BY <1>0 DEF Names, Stage, Kind
  <2>. QED
    BY <2>1, Lists DEF RatingRegistrations
<1>2. DBRegistrations \in Seq(Pairs)
  <2>1. <<"DBRequest", "Price">> \in Pairs /\ <<"DBRequest", "Tariff">> \in Pairs
    BY <1>0 DEF Names, Stage, Kind
  <2>. QED
    BY <2>1, Lists DEF DBRegistrations
<1>3. ResponseRegistrations \in Seq(Pairs) /\ <<Application>> \in Seq(Pairs)
  <2>1. /\ <<"RFResponse", "Any">> \in Pairs
        /\ <<"RFResponse", "Price">> \in Pairs
        /\ <<"RFResponse", "Tariff">> \in Pairs
        /\ <<"RFResponse", "ServiceUsage">> \in Pairs
        /\ <<"Application", "CCR">> \in Pairs
    BY <1>0 DEF Names, Stage, Kind
  <2>. QED
    BY <2>1, Lists DEF ResponseRegistrations, Application
<1>4. OCFRegistrations \in Seq(Pairs)
  BY <1>3, ConcatProperties DEF OCFRegistrations
<1>. QED
  BY <1>1, <1>2, <1>4

\* The first registrations of a module are among all of them.
LEMMA FirstAreSome ==
    ASSUME NEW regs \in Seq(Pairs), NEW n \in Successes(regs)
    PROVE  First(n, regs) \subseteq ToSet(regs)
<1>1. n \in 0..Len(regs) /\ Len(regs) \in Nat
  BY LenProperties DEF Successes
<1>2. /\ \A i \in 1..n : regs[i] \in Pairs
      /\ Len(SubSeq(regs, 1, n)) = n
      /\ SubSeq(regs, 1, n) \in Seq(Pairs)
      /\ \A i \in 1..n : SubSeq(regs, 1, n)[i] = regs[i]
  BY <1>1
<1>3. DOMAIN regs = 1..Len(regs) /\ DOMAIN SubSeq(regs, 1, n) = 1..n
  BY <1>1, <1>2
<1>. QED
  BY <1>1, <1>2, <1>3 DEF First, ToSet

LEMMA ToSetOfConcat ==
    ASSUME NEW s \in Seq(Pairs), NEW t \in Seq(Pairs)
    PROVE  ToSet(s) \cup ToSet(t) \subseteq ToSet(s \o t)
<1>1. /\ s \o t \in Seq(Pairs)
      /\ Len(s \o t) = Len(s) + Len(t)
      /\ \A i \in 1..Len(s) : (s \o t)[i] = s[i]
      /\ \A i \in 1..Len(t) : (s \o t)[Len(s) + i] = t[i]
  BY ConcatProperties
<1>2. Len(s) \in Nat /\ Len(t) \in Nat
  BY LenProperties
<1>3. /\ DOMAIN s = 1..Len(s)
      /\ DOMAIN t = 1..Len(t)
      /\ DOMAIN (s \o t) = 1..(Len(s) + Len(t))
  BY <1>1
<1>4. ASSUME NEW i \in DOMAIN t PROVE t[i] \in ToSet(s \o t)
  <2>1. Len(s) + i \in DOMAIN (s \o t) /\ (s \o t)[Len(s) + i] = t[i]
    BY <1>1, <1>2, <1>3
  <2>. QED
    BY <2>1 DEF ToSet
<1>5. ASSUME NEW i \in DOMAIN s PROVE s[i] \in ToSet(s \o t)
  <2>1. i \in DOMAIN (s \o t) /\ (s \o t)[i] = s[i]
    BY <1>1, <1>2, <1>3
  <2>. QED
    BY <2>1 DEF ToSet
<1>. QED
  BY <1>4, <1>5 DEF ToSet

\* Whatever a module's initialisation registers is a registration of the server.
LEMMA SomeAreRegistrations ==
    /\ \A n \in Successes(RatingRegistrations) : First(n, RatingRegistrations) \subseteq Registrations
    /\ \A n \in Successes(DBRegistrations) : First(n, DBRegistrations) \subseteq Registrations
    /\ \A n \in Successes(OCFRegistrations) : First(n, OCFRegistrations) \subseteq Registrations
<1>1. RatingRegistrations \o DBRegistrations \in Seq(Pairs)
  BY RegistrationSequences, ConcatProperties
<1>2. /\ ToSet(RatingRegistrations) \subseteq Registrations
      /\ ToSet(DBRegistrations) \subseteq Registrations
      /\ ToSet(OCFRegistrations) \subseteq Registrations
  BY <1>1, RegistrationSequences, ToSetOfConcat DEF Registrations
<1>. QED
  BY <1>2, RegistrationSequences, FirstAreSome

\* A module that registered everything registered the responses of the rating
\* function among them.
LEMMA AllResponsesRegistered ==
    ASSUME NEW k \in Kind
    PROVE  <<"RFResponse", k>> \in First(Len(OCFRegistrations), OCFRegistrations)
<1>0. \A x, y \in Names : <<x, y>> \in Pairs
  BY DEF Pairs
<1>1. /\ ResponseRegistrations \in Seq(Pairs)
      /\ Len(ResponseRegistrations) = 4
      /\ ResponseRegistrations[2] = <<"RFResponse", "Price">>
      /\ ResponseRegistrations[3] = <<"RFResponse", "Tariff">>
  <2>1. /\ <<"RFResponse", "Any">> \in Pairs
        /\ <<"RFResponse", "Price">> \in Pairs
        /\ <<"RFResponse", "Tariff">> \in Pairs
        /\ <<"RFResponse", "ServiceUsage">> \in Pairs
    BY <1>0 DEF Names, Stage, Kind
  <2>. QED
    BY <2>1, Lists DEF ResponseRegistrations
<1>2. <<Application>> \in Seq(Pairs) /\ Len(<<Application>>) = 1
  <2>1. Application \in Pairs
    BY <1>0 DEF Application, Names
  <2>. QED
    BY <2>1, Lists
<1>3. /\ Len(OCFRegistrations) = 5
      /\ OCFRegistrations[2] = <<"RFResponse", "Price">>
      /\ OCFRegistrations[3] = <<"RFResponse", "Tariff">>
  <2>1. ASSUME NEW s \in Seq(Pairs), NEW t \in Seq(Pairs), Len(s) = 4, Len(t) = 1
        PROVE  /\ Len(s \o t) = 5
               /\ (s \o t)[2] = s[2]
               /\ (s \o t)[3] = s[3]
    <3>1. /\ Len(s \o t) = Len(s) + Len(t)
          /\ \A i \in 1..Len(s) : (s \o t)[i] = s[i]
      BY ConcatProperties
    <3>. QED
      BY <2>1, <3>1
  <2>. QED
    BY <1>1, <1>2, <2>1 DEF OCFRegistrations
<1>4. SubSeq(OCFRegistrations, 1, Len(OCFRegistrations)) = OCFRegistrations
  BY RegistrationSequences, SubSeqFull
<1>5. DOMAIN OCFRegistrations = 1..5
  BY <1>3, RegistrationSequences
<1>. QED
  BY <1>3, <1>4, <1>5 DEF Kind, First, ToSet

-----------------------------------------------------------------------------
(* Types *)

LEMMA StartupTypesStart == Init => TypeOK
  BY DEF Init, TypeOK

LEMMA LoadTypes ==
    ASSUME TypeOK, RatingFunc_Init \/ OCSDB_Init \/ OCSDB_InitFails \/ OCF_Init
    PROVE  TypeOK'
<1>. USE SomeAreRegistrations DEF Registrations
<1>1. CASE RatingFunc_Init
  BY <1>1 DEF RatingFunc_Init, Loads, requestVars, TypeOK
<1>2. CASE OCSDB_Init
  BY <1>2 DEF OCSDB_Init, Loads, requestVars, TypeOK
<1>3. CASE OCSDB_InitFails
  BY <1>3 DEF OCSDB_InitFails, Loads, requestVars, TypeOK
<1>4. CASE OCF_Init
  BY <1>4 DEF OCF_Init, Loads, requestVars, TypeOK
<1>. QED
  BY <1>1, <1>2, <1>3, <1>4

LEMMA MainTypes ==
    ASSUME TypeOK, Boots \/ Fails \/ StartCrashes \/ Runs
    PROVE  TypeOK'
  BY DEF Boots, Fails, StartCrashes, Crashes, Runs, requestVars, TypeOK

LEMMA ThreadTypes ==
    ASSUME TypeOK, NEW t \in Thread, OCSDB_ThreadInit(t)
    PROVE  TypeOK'
  BY DEF OCSDB_ThreadInit, requestVars, TypeOK

LEMMA RequestTypes ==
    ASSUME TypeOK, NEW r \in Request, RequestArrives(r) \/ Scheduler(r)
    PROVE  TypeOK'
<1>1. CASE RequestArrives(r)
  BY <1>1 DEF RequestArrives, SessionStored, Crashes, server, requestVars, TypeOK, Stage
<1>2. CASE Scheduler(r)
  BY <1>2 DEF Scheduler, RatingFunc_ProcessRequest, RatingFunc_ProcessDBResponse,
              OCF_ProcessResponse, server, TypeOK, Stage
<1>. QED
  BY <1>1, <1>2

LEMMA StartupDatabaseTypes ==
    ASSUME TypeOK, NEW t \in Thread, NEW r \in Request, Database(t, r) \/ QueryCrashes(t, r)
    PROVE  TypeOK'
<1>1. ResultsFrom(t, r) \subseteq {"OCS_SUCCESS", "OCS_FAILURE"}
  BY DEF ResultsFrom
<1>2. CASE OCSDB_RequestHandler(t, r)
  BY <1>1, <1>2 DEF OCSDB_RequestHandler, server, TypeOK, Stage
<1>3. CASE NoContext(t, r) \/ QueryCrashes(t, r)
  BY <1>3 DEF NoContext, QueryCrashes, Crashes, requestVars, TypeOK
<1>. QED
  BY <1>2, <1>3 DEF Database

LEMMA StartupTypesStay == TypeOK /\ [Next]_vars => TypeOK'
<1>. SUFFICES ASSUME TypeOK, [Next]_vars PROVE TypeOK'
  OBVIOUS
<1>1. CASE UNCHANGED vars
  BY <1>1 DEF vars, TypeOK
<1>2. CASE Next
  BY <1>2, LoadTypes, MainTypes, ThreadTypes, RequestTypes, StartupDatabaseTypes DEF Next, Start
<1>. QED
  BY <1>1, <1>2

\* Every reachable state of the start is well typed: nothing is registered that
\* no module registers, and no request waits at an event of another kind
\* (ocf.c:62-117, ratingfunc.c:41-109, ocsdb.c:52-76).
THEOREM StartupTypeCorrect == Spec => []TypeOK
  BY StartupTypesStart, StartupTypesStay, PTL DEF Spec

-----------------------------------------------------------------------------
(***************************************************************************)
(* Requests that can be answered.  The table is the last thing the OCF     *)
(* makes, so that it stands for all its registrations, and a request       *)
(* enters a stage only when there is a table; neither is ever undone.      *)
(***************************************************************************)
TableComesLast ==
    table => \A k \in Kind : <<"RFResponse", k>> \in registered

RatedHaveSessions == \A r \in Request : at[r] \in Stage => table

TableIsMadeOnce == table => "ocf" \notin toLoad

Answerable == TableComesLast /\ RatedHaveSessions /\ TableIsMadeOnce

LEMMA AnswerableStarts == Init => Answerable
  BY DEF Init, Answerable, TableComesLast, RatedHaveSessions, TableIsMadeOnce, Stage

LEMMA LoadAnswerable ==
    ASSUME TypeOK, Answerable, RatingFunc_Init \/ OCSDB_Init \/ OCSDB_InitFails \/ OCF_Init
    PROVE  Answerable'
<1>. USE DEF Answerable, TableComesLast, RatedHaveSessions, TableIsMadeOnce, Loads, requestVars
<1>1. CASE RatingFunc_Init
  BY <1>1 DEF RatingFunc_Init
<1>2. CASE OCSDB_Init
  BY <1>2 DEF OCSDB_Init
<1>3. CASE OCSDB_InitFails
  BY <1>3 DEF OCSDB_InitFails
<1>4. CASE OCF_Init
  <2>1. ~table
    BY <1>4 DEF OCF_Init
  <2>2. PICK n \in Successes(OCFRegistrations) :
           /\ registered' = registered \cup First(n, OCFRegistrations)
           /\ table' => n = Len(OCFRegistrations)
    BY <1>4 DEF OCF_Init
  <2>3. table' => \A k \in Kind : <<"RFResponse", k>> \in registered'
    BY <2>2, AllResponsesRegistered
  <2>. QED
    BY <1>4, <2>1, <2>3 DEF OCF_Init
<1>. QED
  BY <1>1, <1>2, <1>3, <1>4

LEMMA OthersAnswerable ==
    ASSUME TypeOK, Answerable,
           \/ Boots \/ Fails \/ StartCrashes \/ Runs
           \/ \E t \in Thread : OCSDB_ThreadInit(t)
    PROVE  Answerable'
  BY DEF Answerable, TableComesLast, RatedHaveSessions, TableIsMadeOnce, requestVars,
         Boots, Fails, StartCrashes, Crashes, Runs, OCSDB_ThreadInit

LEMMA RequestAnswerable ==
    ASSUME TypeOK, Answerable, NEW r \in Request, RequestArrives(r) \/ Scheduler(r)
    PROVE  Answerable'
<1>. USE DEF Answerable, TableComesLast, RatedHaveSessions, TableIsMadeOnce
<1>1. CASE RequestArrives(r)
  <2>1. CASE at' = [at EXCEPT ![r] = SessionStored(r)] /\ UNCHANGED server
    <3>1. at'[r] \in Stage => table
      BY <2>1 DEF SessionStored, TypeOK, Stage
    <3>2. \A q \in Request : q # r => at'[q] = at[q]
      BY <2>1 DEF TypeOK
    <3>. QED
      BY <2>1, <3>1, <3>2 DEF server
  <2>2. CASE Crashes
    BY <2>2 DEF Crashes, requestVars
  <2>. QED
    BY <1>1, <2>1, <2>2 DEF RequestArrives
<1>2. CASE Scheduler(r)
  BY <1>2 DEF Scheduler, Dispatched, RatingFunc_ProcessRequest, RatingFunc_ProcessDBResponse,
              OCF_ProcessResponse, server, TypeOK, Stage
<1>. QED
  BY <1>1, <1>2

LEMMA DatabaseAnswerable ==
    ASSUME TypeOK, Answerable, NEW t \in Thread, NEW r \in Request,
           Database(t, r) \/ QueryCrashes(t, r)
    PROVE  Answerable'
<1>. USE DEF Answerable, TableComesLast, RatedHaveSessions, TableIsMadeOnce
<1>1. CASE OCSDB_RequestHandler(t, r)
  BY <1>1 DEF OCSDB_RequestHandler, Dispatched, server, TypeOK, Stage
<1>2. CASE NoContext(t, r) \/ QueryCrashes(t, r)
  BY <1>2 DEF NoContext, QueryCrashes, Crashes, requestVars
<1>. QED
  BY <1>1, <1>2 DEF Database

LEMMA AnswerableStays == TypeOK /\ Answerable /\ [Next]_vars => Answerable'
<1>. SUFFICES ASSUME TypeOK, Answerable, [Next]_vars PROVE Answerable'
  OBVIOUS
<1>1. CASE UNCHANGED vars
  BY <1>1 DEF vars, Answerable, TableComesLast, RatedHaveSessions, TableIsMadeOnce
<1>2. CASE Next
  BY <1>2, LoadAnswerable, OthersAnswerable, RequestAnswerable, DatabaseAnswerable
     DEF Next, Start
<1>. QED
  BY <1>1, <1>2

\* However far the initialisation of each module came, a request that is being
\* rated has its session in a table and a handler for its response
\* (ocf.c:62-117, ocf_sbcf.c:78-98).
THEOREM RatedRequestsAreAnswerable == Spec => []RatedRequestsCanBeAnswered
<1>1. TypeOK /\ Answerable => RatedRequestsCanBeAnswered
  BY DEF Answerable, TableComesLast, RatedHaveSessions, RatedRequestsCanBeAnswered, TypeOK
<1>. QED
  BY <1>1, StartupTypesStart, StartupTypesStay, AnswerableStarts, AnswerableStays, PTL DEF Spec

-----------------------------------------------------------------------------
(***************************************************************************)
(* Tariffs.  Requests come when nothing is left to load, and from then on  *)
(* neither the queries nor the connection of a thread change.              *)
(***************************************************************************)
RunningIsLoaded == main = "running" => toLoad = {}

RatedAfterLoading == \A r \in Request : result[r] # NULL => toLoad = {}

Grounded == RunningIsLoaded /\ RatedAfterLoading /\ NoTariffWithoutTheDatabase

LEMMA GroundedStarts == Init => Grounded
  BY StartupAssumption
     DEF Init, Grounded, RunningIsLoaded, RatedAfterLoading, NoTariffWithoutTheDatabase

LEMMA LoadGrounded ==
    ASSUME TypeOK, Grounded, NEW module, Loads(module)
    PROVE  Grounded'
<1>1. \A r \in Request : result'[r] = NULL
  BY DEF Loads, requestVars, Grounded, RatedAfterLoading
<1>2. NoTariffWithoutTheDatabase'
  BY <1>1, StartupAssumption DEF NoTariffWithoutTheDatabase
<1>. QED
  BY <1>1, <1>2 DEF Loads, Grounded, RunningIsLoaded, RatedAfterLoading

\* A thread that finishes its start keeps what the others can do.
LEMMA ThreadGrounded ==
    ASSUME TypeOK, Grounded, NEW t \in Thread, OCSDB_ThreadInit(t)
    PROVE  Grounded'
<1>. USE DEF OCSDB_ThreadInit, requestVars
<1>1. \A u \in Thread : CanQuery(u) => CanQuery(u)'
  BY DEF CanQuery, TypeOK
<1>2. NoTariffWithoutTheDatabase'
  <2>. SUFFICES ASSUME NEW r \in Request, kind'[r] = "Tariff", result'[r] = "OCS_SUCCESS"
                PROVE  servedBy'[r] # NULL /\ CanQuery(servedBy[r])'
    BY DEF NoTariffWithoutTheDatabase
  <2>1. servedBy[r] # NULL /\ CanQuery(servedBy[r])
    BY DEF Grounded, NoTariffWithoutTheDatabase
  <2>. QED
    BY <1>1, <2>1 DEF TypeOK
<1>. QED
  BY <1>2 DEF Grounded, RunningIsLoaded, RatedAfterLoading

LEMMA MainGrounded ==
    ASSUME TypeOK, Grounded, Boots \/ Fails \/ Crashes \/ Runs
    PROVE  Grounded'
  BY DEF Grounded, RunningIsLoaded, RatedAfterLoading, NoTariffWithoutTheDatabase, CanQuery,
         requestVars, Boots, Fails, Crashes, Runs

\* The requests move on and keep what was decided about them.
LEMMA RequestGrounded ==
    ASSUME TypeOK, Grounded, UNCHANGED <<server, kind, servedBy, result>>
    PROVE  Grounded'
  BY DEF Grounded, RunningIsLoaded, RatedAfterLoading, NoTariffWithoutTheDatabase, CanQuery,
         server

LEMMA HandlerGrounded ==
    ASSUME TypeOK, Grounded, NEW t \in Thread, NEW r \in Request, OCSDB_RequestHandler(t, r)
    PROVE  Grounded'
<1>. USE DEF OCSDB_RequestHandler, Dispatched, server
<1>1. servedBy'[r] = t /\ kind'[r] = kind[r] /\ result'[r] \in ResultsFrom(t, r)
  BY DEF TypeOK
<1>2. \A q \in Request : q # r =>
         servedBy'[q] = servedBy[q] /\ kind'[q] = kind[q] /\ result'[q] = result[q]
  BY DEF TypeOK
<1>3. kind'[r] = "Tariff" /\ result'[r] = "OCS_SUCCESS" => CanQuery(t)
  BY <1>1 DEF ResultsFrom
<1>4. \A u : CanQuery(u)' <=> CanQuery(u)
  BY DEF CanQuery
<1>5. NoTariffWithoutTheDatabase'
  <2>. SUFFICES ASSUME NEW q \in Request, kind'[q] = "Tariff", result'[q] = "OCS_SUCCESS"
                PROVE  servedBy'[q] # NULL /\ CanQuery(servedBy[q])'
    BY DEF NoTariffWithoutTheDatabase
  <2>1. CASE q = r
    BY <1>1, <1>3, <2>1, StartupAssumption DEF CanQuery
  <2>2. CASE q # r
    BY <1>2, <2>2 DEF CanQuery, Grounded, NoTariffWithoutTheDatabase
  <2>. QED
    BY <2>1, <2>2
<1>6. toLoad' = {}
  BY DEF Grounded, RunningIsLoaded
<1>. QED
  BY <1>5, <1>6 DEF Grounded, RunningIsLoaded, RatedAfterLoading

LEMMA GroundedStays == TypeOK /\ Grounded /\ [Next]_vars => Grounded'
<1>. SUFFICES ASSUME TypeOK, Grounded, [Next]_vars PROVE Grounded'
  OBVIOUS
<1>1. CASE UNCHANGED vars
  BY <1>1, RequestGrounded DEF vars, server
<1>2. CASE Start
  BY <1>2, MainGrounded, LoadGrounded
     DEF Start, StartCrashes, RatingFunc_Init, OCSDB_Init, OCSDB_InitFails, OCF_Init
<1>3. ASSUME NEW t \in Thread, OCSDB_ThreadInit(t) PROVE Grounded'
  BY <1>3, ThreadGrounded
<1>4. ASSUME NEW r \in Request, RequestArrives(r) \/ Scheduler(r) PROVE Grounded'
  BY <1>4, RequestGrounded, MainGrounded
     DEF RequestArrives, Scheduler, RatingFunc_ProcessRequest, RatingFunc_ProcessDBResponse,
         OCF_ProcessResponse
<1>5. ASSUME NEW t \in Thread, NEW r \in Request, Database(t, r) \/ QueryCrashes(t, r)
      PROVE  Grounded'
  <2>1. CASE OCSDB_RequestHandler(t, r)
    BY <2>1, HandlerGrounded
  <2>2. CASE NoContext(t, r)
    BY <2>2
       DEF NoContext, Grounded, RunningIsLoaded, RatedAfterLoading,
           NoTariffWithoutTheDatabase, CanQuery, requestVars
  <2>3. CASE QueryCrashes(t, r)
    BY <2>3, MainGrounded DEF QueryCrashes
  <2>. QED
    BY <1>5, <2>1, <2>2, <2>3 DEF Database
<1>. QED
  BY <1>1, <1>2, <1>3, <1>4, <1>5 DEF Next

\* No tariff is ever granted by a thread that has no connection or no queries,
\* however many such threads take requests (ocsdb.c:78-81, 150-156, 297-357).
THEOREM TariffsAreGrounded == Spec => []NoTariffWithoutTheDatabase
<1>1. Grounded => NoTariffWithoutTheDatabase
  BY DEF Grounded
<1>. QED
  BY <1>1, StartupTypesStart, StartupTypesStay, GroundedStarts, GroundedStays, PTL DEF Spec
=============================================================================
