-------------------------------- MODULE OCF --------------------------------
(***************************************************************************)
(* The Online Charging Function (src/src/ocf): the credit-control sessions *)
(* it keeps, the requests it answers, the rating requests it sends and the *)
(* Tcc timers it runs.  The session table is the map of module SessionMap. *)
(*                                                                         *)
(* The AMPS scheduler runs one handler at a time, so each action is one    *)
(* whole handler.  What lies between the rating request and its response   *)
(* (module Rating) is here a set: responses come in any order, or never.   *)
(***************************************************************************)
EXTENDS Naturals, Sequences, FiniteSets, SessionMap

CONSTANTS
    Request,        \* identities of the Diameter requests that may arrive
    ServiceId,      \* service ids of the first Multiple-Services-CC AVP
    TariffResults,  \* results a tariff response may carry
    PriceResults,   \* results a price response may carry
    EarlyReopen     \* whether a sub-session may be opened again too early

AllFaults == {
    "extract",   \* no memory for the CCR, or its AVPs cannot be read
    "memory",    \* the (sub-)session object cannot be allocated or inserted
    "event",     \* DMBASE_EvtSysSendIntEvt fails
    "send",      \* an answer cannot be built or sent
    "append",    \* a sub-session object cannot be put in its session's list
    "loss",      \* a response is lost between the DB threads and the OCF
    "row",       \* the database returns no row, or a NULL, for the result of a tariff request
    "freedKey",  \* freed memory is overwritten before it is read again
    "uninit"}    \* the uninitialised t_OCSCCA holds wild pointers

RatingResult == {"OCS_SUCCESS", "OCS_FAILURE"}

RequestType == {"INITIAL", "UPDATE", "TERMINATION", "EVENT",
                "OTHER",    \* a CC-Request-Type outside the enumeration
                "NOT_CCR"}  \* another command code

\* What the handlers read of a t_OCSCCR.
Message == [type: RequestType, key: Key, service: ServiceId]

\* t_OCSCCSubSessionObjet.  object is the address of the allocation, named by
\* the request that made it; hPeer is the peer a request came from, named by
\* that request; tcc says whether oTccTimerId is set.
SubSession == [object: Request, hPeer: Request, tcc: BOOLEAN,
               poCCR: Request \cup {NULL},
               state: {"OPEN", "IDLE"}, charging: {"SCUR", "ECUR"},
               busy: BOOLEAN]

\* The Result-Code of an answer, "NONE" when the AVP is left out.  SUCCESS also
\* stands for the rating function's own code in the answer to an EVENT.
ResultCode == {"SUCCESS", "RATING_FAILED", "UNKNOWN_SESSION_ID",
               "UNABLE_TO_COMPLY", "COMMAND_UNSUPPORTED", "NONE", "ARBITRARY"}

\* from: the rating request whose response the answer was made of;
\* payload: whether that response was read, and as the structure it is;
\* to: the request whose peer it was sent to.
Answer == [code: ResultCode, from: Request \cup {NULL}, to: Request,
           payload: {"unused", "read", "misread"}]

ASSUME OCFAssumption ==
    /\ NULL \notin Request \cup Message \cup SubSession
    /\ TariffResults \subseteq RatingResult
    /\ PriceResults \subseteq RatingResult
    /\ Faults \subseteq AllFaults
    /\ EarlyReopen \in BOOLEAN

VARIABLES
    up,        \* the process runs
    ccr,       \* the message each request carried, NULL before it arrives
    mem,       \* the memory of each request's t_OCSCCR
    armed,     \* running timers, by the sub-session object they point to
    rating,    \* requests whose rating request has no response yet
    answers    \* what was sent back for each request

vars == <<up, ccr, mem, sub, dangling, armed, rating, answers>>

TypeOK ==
    /\ up \in BOOLEAN
    /\ ccr \in [Request -> Message \cup {NULL}]
    /\ mem \in [Request -> {"none", "held", "freed"}]
    /\ sub \in [Key -> SubSession \cup {NULL}]
    /\ dangling \subseteq SessionId
    /\ armed \in [Request -> Nat]
    /\ rating \subseteq Request
    /\ answers \in [Request -> Seq(Answer)]

Init ==
    /\ up = TRUE
    /\ ccr = [r \in Request |-> NULL]
    /\ mem = [r \in Request |-> "none"]
    /\ sub = [k \in Key |-> NULL]
    /\ dangling = {}
    /\ armed = [r \in Request |-> 0]
    /\ rating = {}
    /\ answers = [r \in Request |-> <<>>]
----------------------------------------------------------------------------
(* Charging types and rating request kinds *)

\* Services 1 and 2 are charged per event, all others per session.
OCF_CheckChargingType(m) == IF m.service \in {1, 2} THEN "ECUR" ELSE "SCUR"

\* Which of the two rating requests the handler of message m sends.
RatingKind(m) ==
    IF \/ m.type = "EVENT"
       \/ m.type \in {"INITIAL", "TERMINATION"} /\ OCF_CheckChargingType(m) = "ECUR"
    THEN "Price" ELSE "Tariff"

RatingResults(m) == IF RatingKind(m) = "Price" THEN PriceResults ELSE TariffResults
----------------------------------------------------------------------------
(* Answers *)

\* An answer to request q leaves, unless sending it fails unnoticed.
Emit(q, a) ==
    \/ answers' = [answers EXCEPT ![q] = Append(@, a)]
    \/ "send" \in Faults /\ UNCHANGED answers

ErrorAnswer(r, code) == [code |-> code, from |-> NULL, to |-> r, payload |-> "unused"]

\* OCF_ProcessMessage drops its CCR and answers with a permanent failure.
Reject(r, code) ==
    /\ mem' = [mem EXCEPT ![r] = "freed"]
    /\ Emit(r, ErrorAnswer(r, code))

\* The answer a state machine handler makes of the response to r.
RatedAnswer(s, code, r, payload) ==
    [code |-> code, from |-> r, to |-> s.hPeer, payload |-> payload]

\* What a handler that takes the response to r for one of the given kind reads.
Read(kind, r) == IF RatingKind(ccr[r]) = kind THEN "read" ELSE "misread"

\* Every payload taken for a tariff response.
AlwaysTariff(s) == "Tariff"

\* The structure the granting and terminating handlers take the payload for.
PayloadOf(s) == IF s.charging = "SCUR" THEN "Tariff" ELSE "Price"
----------------------------------------------------------------------------
(* Timers and sub-session objects *)

\* A timer that is never started; one that is never stopped.
NoTimer(f, o) == f
LeftRunning(s) == armed

\* DMBase_StartTimer and DMBase_KillTimer on the object's own Tcc timer.
StartTimer(f, o) == [f EXCEPT ![o] = @ + 1]

KillTimer(s) == IF s.tcc THEN [armed EXCEPT ![s.object] = @ - 1] ELSE armed

\* A new object without its peer.
WithoutPeer(r, charging) ==
    [object |-> r, hPeer |-> NULL, tcc |-> FALSE, poCCR |-> r,
     state |-> "IDLE", charging |-> charging, busy |-> TRUE]

\* OCF_CreateSubSessionObject as the three opening requests call it.
NewSubSession(r, charging) ==
    [object |-> r, hPeer |-> r, tcc |-> FALSE, poCCR |-> r,
     state |-> "IDLE", charging |-> charging, busy |-> TRUE]

\* A take-over that does not mark the sub-session, one that keeps the old peer.
Unmarked(s, r) == [s EXCEPT !.hPeer = r, !.poCCR = r]
OldPeer(s, r) == [s EXCEPT !.busy = TRUE, !.poCCR = r]

\* An accepted request takes over the sub-session.
TakeOver(s, r) == [s EXCEPT !.busy = TRUE, !.hPeer = r, !.poCCR = r]
----------------------------------------------------------------------------
(* Requests: OCF_ProcessMessage and the handlers it calls *)

\* A client opens a sub-session that is gone while the response to a request of
\* its former life is still on the way.
TooEarly(m) ==
    /\ m.type \in {"INITIAL", "EVENT"}
    /\ sub[m.key] = NULL
    /\ \E q \in rating : ccr[q].key = m.key

Arrives(r, m) ==
    /\ up
    /\ ccr[r] = NULL
    /\ EarlyReopen \/ ~TooEarly(m)
    /\ ccr' = [ccr EXCEPT ![r] = m]

\* A command other than a credit-control request.
UnsupportedCommand(r) ==
    \E m \in Message :
        /\ m.type = "NOT_CCR"
        /\ Arrives(r, m)
        /\ Emit(r, ErrorAnswer(r, "COMMAND_UNSUPPORTED"))
        /\ UNCHANGED <<up, mem, sub, dangling, armed, rating>>

\* No t_OCSCCR can be made of the message: it is dropped without an answer.
ExtractionFails(r) ==
    \E m \in Message :
        /\ "extract" \in Faults
        /\ m.type # "NOT_CCR"
        /\ Arrives(r, m)
        /\ UNCHANGED <<up, mem, sub, dangling, armed, rating, answers>>

\* A request type the dispatch does not know.
UnknownRequestType(r) ==
    \E m \in Message :
        /\ m.type = "OTHER"
        /\ Arrives(r, m)
        /\ Reject(r, "UNABLE_TO_COMPLY")
        /\ UNCHANGED <<up, sub, dangling, armed, rating>>

\* The rating request leaves, or the handler fails after the sub-session is set
\* up: the caller then frees the CCR the sub-session still points to.
SendRatingRequest(r) ==
    \/ /\ rating' = rating \cup {r}
       /\ mem' = [mem EXCEPT ![r] = "held"]
       /\ UNCHANGED answers
    \/ /\ "event" \in Faults
       /\ Reject(r, "UNABLE_TO_COMPLY")
       /\ UNCHANGED rating

\* OCF_ProcessSCURInitialRequest, OCF_ProcessECURInitialRequest and
\* OCF_EventBasedCharging: create, insert, then ask for the rating.  A sub-session
\* that its session's list cannot take is counted there and never found.
OpenSubSession(r, m, charging) ==
    /\ Arrives(r, m)
    /\ UNCHANGED <<up, dangling, armed>>
    /\ \/ /\ sub[m.key] # NULL \/ "memory" \in Faults
          /\ Reject(r, "UNABLE_TO_COMPLY")
          /\ UNCHANGED <<sub, rating>>
       \/ /\ sub[m.key] = NULL
          /\ sub' = [sub EXCEPT ![m.key] = NewSubSession(r, charging)]
          /\ SendRatingRequest(r)
       \/ /\ sub[m.key] = NULL
          /\ "append" \in Faults
          /\ UNCHANGED sub
          /\ SendRatingRequest(r)

InitialRequest(r) ==
    \E m \in Message : /\ m.type = "INITIAL"
                       /\ OpenSubSession(r, m, OCF_CheckChargingType(m))

EventRequest(r) ==
    \E m \in Message : /\ m.type = "EVENT"
                       /\ OpenSubSession(r, m, "SCUR")

\* The check of bProcessingInProgress left out.
NotChecked(s) == FALSE

InProgress(s) == s.busy

\* The common course of an Update and of both Terminates.
UseSubSession(r, m, unknown) ==
    /\ Arrives(r, m)
    /\ UNCHANGED <<up, dangling, armed>>
    /\ \/ /\ sub[m.key] = NULL
          /\ Reject(r, unknown)
          /\ UNCHANGED <<sub, rating>>
       \/ /\ sub[m.key] # NULL
          /\ InProgress(sub[m.key])
          /\ Reject(r, "UNABLE_TO_COMPLY")
          /\ UNCHANGED <<sub, rating>>
       \/ /\ sub[m.key] # NULL
          /\ ~InProgress(sub[m.key])
          /\ sub' = [sub EXCEPT ![m.key] = TakeOver(@, r)]
          /\ SendRatingRequest(r)

UpdateRequest(r) ==
    \E m \in Message : /\ m.type = "UPDATE"
                       /\ UseSubSession(r, m, "UNKNOWN_SESSION_ID")

\* An ECUR Terminate returns OCS_Retval_Failure for a missing sub-session.
TerminateRequest(r) ==
    \E m \in Message :
        /\ m.type = "TERMINATION"
        /\ UseSubSession(r, m, IF OCF_CheckChargingType(m) = "ECUR"
                               THEN "UNABLE_TO_COMPLY" ELSE "UNKNOWN_SESSION_ID")
----------------------------------------------------------------------------
(* Responses: OCF_ProcessTariffResponse, OCF_ProcessPriceResponse and the    *)
(* state machine.  A response names its sub-session, not its request: the    *)
(* event is made of the type of the CCR the sub-session points to now.       *)

\* The CCRs a read through pointer p may find.  Freed memory holds what it
\* held, or the CCR of a request that was given the same memory since.
Deref(p) ==
    IF p = NULL THEN {}
    ELSE IF mem[p] = "held" THEN {p}
    ELSE {p} \cup {q \in Request : mem[q] = "held"}

\* OCF_CheckEventType and the state and event for which OCF_InitStateMachine
\* registers a handler.
HasHandler(state, type) ==
    <<state, type>> \in {<<"IDLE", "INITIAL">>, <<"IDLE", "EVENT">>,
                         <<"OPEN", "UPDATE">>, <<"OPEN", "TERMINATION">>}

\* The response to r reaches its sub-session, which is in the given state and
\* whose CCR pointer leads to q.
Delivered(r, q, state) ==
    /\ up
    /\ r \in rating
    /\ sub[ccr[r].key] # NULL
    /\ sub[ccr[r].key].state = state
    /\ q \in Deref(sub[ccr[r].key].poCCR)
    /\ rating' = rating \ {r}
    /\ UNCHANGED <<up, ccr>>

\* ... and with that result it is an event of a request of the given type.
Dispatched(r, q, state, type, result) ==
    /\ Delivered(r, q, state)
    /\ ccr[q].type = type
    /\ result \in RatingResults(ccr[r])

\* Building or sending the answer fails: the handler returns at once.
AnswerFails ==
    /\ "send" \in Faults
    /\ UNCHANGED <<mem, sub, dangling, armed, answers>>

\* An answer that is built and not sent.
Unsent(q, a) == UNCHANGED answers

AnswerSent(q, a) == answers' = [answers EXCEPT ![q] = Append(@, a)]

\* A CCR that is never freed.
KeptCCR(q) == UNCHANGED mem

FreeCCR(q) == mem' = [mem EXCEPT ![q] = "freed"]

\* The session is granted: the sub-session opens and its timer starts.
Opened(s) == [s EXCEPT !.busy = FALSE, !.state = "OPEN", !.poCCR = NULL, !.tcc = TRUE]

OCF_Idle_InitReqProcessingSuccessful(r, q) ==
    /\ Dispatched(r, q, "IDLE", "INITIAL", "OCS_SUCCESS")
    /\ LET k == ccr[r].key
           s == sub[k]
       IN \/ AnswerFails
          \/ /\ AnswerSent(q, RatedAnswer(s, "SUCCESS", r, Read(PayloadOf(s), r)))
             /\ FreeCCR(q)
             /\ sub' = [sub EXCEPT ![k] = Opened(s)]
             /\ armed' = StartTimer(armed, s.object)
             /\ UNCHANGED dangling

\* oCCA is not cleared: the ECUR branch sends whatever code the stack holds.
OCF_Idle_InitReqProcessingUnSuccessful(r, q) ==
    /\ Dispatched(r, q, "IDLE", "INITIAL", "OCS_FAILURE")
    /\ LET k == ccr[r].key
           s == sub[k]
           code == IF s.charging = "SCUR" THEN "RATING_FAILED" ELSE "ARBITRARY"
       IN \/ AnswerFails
          \/ /\ AnswerSent(q, RatedAnswer(s, code, r, "unused"))
             /\ FreeCCR(q)
             /\ RemoveSubSession(k)
             /\ UNCHANGED armed

OCF_Idle_EventReqProcessingSuccessful(r, q) ==
    /\ Dispatched(r, q, "IDLE", "EVENT", "OCS_SUCCESS")
    /\ LET k == ccr[r].key
           s == sub[k]
       IN \/ AnswerFails
          \/ /\ AnswerSent(q, RatedAnswer(s, "SUCCESS", r, Read("Price", r)))
             /\ FreeCCR(q)
             /\ RemoveSubSession(k)
             /\ UNCHANGED armed

\* An empty handler: no answer, and the sub-session stays.
OCF_Idle_EventReqProcessingUnSuccessful(r, q) ==
    /\ Dispatched(r, q, "IDLE", "EVENT", "OCS_FAILURE")
    /\ UNCHANGED <<mem, sub, dangling, armed, answers>>

\* A renewal that leaves the sub-session in progress.
StillBusy(s) == [s EXCEPT !.poCCR = NULL, !.tcc = TRUE]

\* The granted quota is renewed: the timer starts over.
Renewed(s) == [s EXCEPT !.busy = FALSE, !.poCCR = NULL, !.tcc = TRUE]

OCF_Open_UpdateReqProcessingSuccessful(r, q) ==
    /\ Dispatched(r, q, "OPEN", "UPDATE", "OCS_SUCCESS")
    /\ LET k == ccr[r].key
           s == sub[k]
       IN \/ AnswerFails
          \/ /\ AnswerSent(q, RatedAnswer(s, "SUCCESS", r, Read("Tariff", r)))
             /\ FreeCCR(q)
             /\ sub' = [sub EXCEPT ![k] = Renewed(s)]
             /\ armed' = StartTimer(KillTimer(s), s.object)
             /\ UNCHANGED dangling

\* The timer is stopped and nothing else: the CCR is kept and the sub-session
\* stays in progress.
Untimed(s) == [s EXCEPT !.tcc = FALSE]

OCF_Open_UpdateReqProcessingUnSuccessful(r, q) ==
    /\ Dispatched(r, q, "OPEN", "UPDATE", "OCS_FAILURE")
    /\ LET k == ccr[r].key
           s == sub[k]
           code == IF s.charging = "SCUR" THEN "RATING_FAILED" ELSE "NONE"
       IN \/ AnswerFails
          \/ /\ AnswerSent(q, RatedAnswer(s, code, r, "unused"))
             /\ sub' = [sub EXCEPT ![k] = Untimed(s)]
             /\ armed' = KillTimer(s)
             /\ UNCHANGED <<mem, dangling>>

OCF_Open_TerminateReqProcessingSuccessful(r, q) ==
    /\ Dispatched(r, q, "OPEN", "TERMINATION", "OCS_SUCCESS")
    /\ LET k == ccr[r].key
           s == sub[k]
       IN \/ AnswerFails
          \/ /\ AnswerSent(q, RatedAnswer(s, "SUCCESS", r, Read(PayloadOf(s), r)))
             /\ FreeCCR(q)
             /\ armed' = KillTimer(s)
             /\ RemoveSubSession(k)

OCF_Open_TerminateReqProcessingUnSuccessful(r, q) ==
    /\ Dispatched(r, q, "OPEN", "TERMINATION", "OCS_FAILURE")
    /\ LET k == ccr[r].key
           s == sub[k]
           code == IF s.charging = "SCUR" THEN "RATING_FAILED" ELSE "NONE"
       IN \/ AnswerFails
          \/ /\ AnswerSent(q, RatedAnswer(s, code, r, "unused"))
             /\ FreeCCR(q)
             /\ armed' = KillTimer(s)
             /\ RemoveSubSessionByOwnId(k)

\* OCF_ExecStateMachine finds no handler for the event.
NoHandler(r, q) ==
    \E state \in {"IDLE", "OPEN"} :
        /\ Delivered(r, q, state)
        /\ ~HasHandler(state, ccr[q].type)
        /\ UNCHANGED <<mem, sub, dangling, armed, answers>>

\* The sub-session is gone: the response is dropped.
ResponseWithoutSession(r) ==
    /\ up
    /\ r \in rating
    /\ sub[ccr[r].key] = NULL
    /\ rating' = rating \ {r}
    /\ UNCHANGED <<up, ccr, mem, sub, dangling, armed, answers>>

\* One of the sends on the way to the DB threads and back fails unnoticed.
ResponseLost(r) ==
    /\ "loss" \in Faults
    /\ up
    /\ r \in rating
    /\ rating' = rating \ {r}
    /\ UNCHANGED <<up, ccr, mem, sub, dangling, armed, answers>>
----------------------------------------------------------------------------
(* Crashes: nothing is persisted *)

Crash ==
    /\ up' = FALSE
    /\ mem' = [r \in Request |-> "none"]
    /\ sub' = [k \in Key |-> NULL]
    /\ dangling' = {}
    /\ armed' = [r \in Request |-> 0]
    /\ rating' = {}
    /\ UNCHANGED answers

\* The response reads the type of a CCR that is gone.
CCRReadFaults(r) ==
    /\ up
    /\ r \in rating
    /\ LET s == sub[ccr[r].key]
       IN s # NULL /\ (s.poCCR # NULL => mem[s.poCCR] = "freed")
    /\ Crash
    /\ UNCHANGED ccr

\* OCF_CreatCCADiamMsg follows a pointer of the uninitialised t_OCSCCA.
UninitialisedAnswerFaults(r, q) ==
    /\ "uninit" \in Faults
    /\ up
    /\ r \in rating
    /\ "OCS_FAILURE" \in RatingResults(ccr[r])
    /\ LET s == sub[ccr[r].key]
       IN s # NULL /\ s.state = "IDLE" /\ q \in Deref(s.poCCR)
    /\ ccr[q].type = "INITIAL"
    /\ Crash
    /\ UNCHANGED ccr

\* A request, response or timer of a session whose object was freed: the process
\* ends here, and goes on in the handlers above as if the memory were untouched.
\* That the memory may by then hold the session of another client, whose
\* sub-sessions the handler would work on, is not modelled.
FreedSessionFaults(r) ==
    /\ up
    /\ \/ \E m \in Message :
             /\ m.type \notin {"NOT_CCR", "OTHER"}
             /\ Arrives(r, m)
             /\ m.key[1] \in dangling
       \/ /\ r \in rating \/ armed[r] > 0
          /\ ccr[r].key[1] \in dangling
          /\ UNCHANGED ccr
    /\ Crash

\* A database thread reads a result of the tariff request that is not there.
DatabaseFaults(r) ==
    /\ "row" \in Faults
    /\ up
    /\ r \in rating
    /\ RatingKind(ccr[r]) = "Tariff"
    /\ Crash
    /\ UNCHANGED ccr

Restart ==
    /\ ~up
    /\ up' = TRUE
    /\ UNCHANGED <<ccr, mem, sub, dangling, armed, rating, answers>>
----------------------------------------------------------------------------
(* Timers *)

\* OCF_TimeOutNotification on the object it was given, and, in state OPEN,
\* OCF_Open_TccTimerExpires.  A freed object is undefined behaviour.
TimerExpires(o) ==
    /\ up
    /\ armed[o] > 0
    /\ LET k == ccr[o].key
       IN IF sub[k] = NULL \/ sub[k].object # o
          THEN Crash /\ UNCHANGED ccr
          ELSE /\ armed' = [armed EXCEPT ![o] = @ - 1]
               /\ IF sub[k].state = "OPEN"
                  THEN RemoveSubSession(k)
                  ELSE UNCHANGED <<sub, dangling>>
               /\ UNCHANGED <<up, ccr, mem, rating, answers>>
----------------------------------------------------------------------------
RequestArrives(r) ==
    \/ UnsupportedCommand(r)
    \/ ExtractionFails(r)
    \/ UnknownRequestType(r)
    \/ InitialRequest(r)
    \/ EventRequest(r)
    \/ UpdateRequest(r)
    \/ TerminateRequest(r)

\* What a response that says OCS_SUCCESS makes the OCF do, ...
Granted(r, q) ==
    \/ OCF_Idle_InitReqProcessingSuccessful(r, q)
    \/ OCF_Idle_EventReqProcessingSuccessful(r, q)
    \/ OCF_Open_UpdateReqProcessingSuccessful(r, q)
    \/ OCF_Open_TerminateReqProcessingSuccessful(r, q)

\* ... one that says OCS_FAILURE, ...
Refused(r, q) ==
    \/ OCF_Idle_InitReqProcessingUnSuccessful(r, q)
    \/ OCF_Idle_EventReqProcessingUnSuccessful(r, q)
    \/ OCF_Open_UpdateReqProcessingUnSuccessful(r, q)
    \/ OCF_Open_TerminateReqProcessingUnSuccessful(r, q)
    \/ UninitialisedAnswerFaults(r, q)

\* ... and any response.
Unhandled(r) ==
    \/ ResponseWithoutSession(r)
    \/ CCRReadFaults(r)
    \/ \E q \in Request : NoHandler(r, q)

HandleResponse(r) == Unhandled(r) \/ \E q \in Request : Granted(r, q) \/ Refused(r, q)

Next ==
    \/ Restart
    \/ \E r \in Request :
          \/ RequestArrives(r)
          \/ HandleResponse(r)
          \/ ResponseLost(r)
          \/ FreedSessionFaults(r)
          \/ DatabaseFaults(r)
          \/ TimerExpires(r)

Spec == Init /\ [][Next]_vars

\* The scheduler dispatches every event it holds, and a timer that nobody stops
\* runs out.
Fairness == \A r \in Request : WF_vars(HandleResponse(r)) /\ WF_vars(TimerExpires(r))

FairSpec == Spec /\ Fairness
=============================================================================
