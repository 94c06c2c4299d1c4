------------------------------ MODULE Charging ------------------------------
(***************************************************************************)
(* The contents of the messages: module OCF, with the AVPs each request    *)
(* carried, the rating request made of them, and the AVPs of each answer.  *)
(* Extraction, rating requests and answers are those of the three modules  *)
(* it extends; every step is a step of module OCF, which says when and to  *)
(* whom an answer is sent.                                                 *)
(*                                                                         *)
(* Only credit-control requests arrive, memory is safe, no tariff is       *)
(* without a row, and clients wait for a response before they reopen a     *)
(* sub-session: under these conditions a response always meets its own     *)
(* request (see OCFProperties).                                            *)
(***************************************************************************)
EXTENDS OCFProperties, MessageExtractor, RatingRequests, AnswerBuilder

CONSTANTS
    AVP,     \* the AVPs there may be, with those that are members of others
    Wire,    \* the AVPs a request may carry
    Losses   \* the sets of AVPs that may be missing from an answer, see AnswerBuilder

VARIABLES
    wire,    \* the AVPs of each request
    asked,   \* the rating request made for each request, if any
    said     \* the AVPs of each answer, and those that are missing

chargingVars == <<vars, wire, asked, said>>

\* AVPs whose value is of a type of the Diameter stack that has no sign.
UnsignedAVPs ==
    {"CC_REQUEST_NUMBER", "SUB_SESSION_ID", "SERVICE_IDENTIFIER", "RATING_GROUP",
     "CC_TIME", "CC_TOTAL_OCTETS", "CC_INPUT_OCTETS", "CC_OUTPUT_OCTETS", "CURRENCY_CODE"}

\* What the control flow of the OCF reads of a t_OCSCCR.
Summary(m) ==
    [type |-> CASE m.oCCRequestType = 1 -> "INITIAL"
                [] m.oCCRequestType = 2 -> "UPDATE"
                [] m.oCCRequestType = 3 -> "TERMINATION"
                [] m.oCCRequestType = 4 -> "EVENT"
                [] OTHER -> "OTHER",
     key |-> <<m.oSessionId, m.ullCCSubSessionId>>,
     service |-> FirstService(m).unServiceId]

\* What is extracted from each message, and what remains of it in module OCF.
Extracted == [avps \in Wire |-> OCF_ExtractCCRAttributes(avps)]

Summaries == [avps \in Wire |-> Summary(Extracted[avps])]

ASSUME ChargingAssumption ==
    /\ AreAVPs(AVP)
    /\ \A a \in AVP : a.code \in UnsignedAVPs => a.number \in Nat
    /\ Wire \subseteq Seq(AVP)
    /\ \A avps \in Wire : Summaries[avps] \in Message
    /\ PriceResults = {"OCS_SUCCESS"}
    /\ {"freedKey", "uninit", "row"} \cap Faults = {}
    /\ EarlyReopen = FALSE

ChargingInit ==
    /\ Init
    /\ wire = [r \in Request |-> <<>>]
    /\ asked = [r \in Request |-> <<>>]
    /\ said = [r \in Request |-> <<>>]

CCROf(r) == Extracted[wire[r]]

\* The rating request the handler of message m makes of its AVPs.
RatingRequest(m, avps) ==
    LET request == Extracted[avps]
        subType == SubTypeOf(request, m.type)
    IN IF RatingKind(m) = "Price" THEN OCF_PopulatePriceRequest(request, subType)
                                  ELSE OCF_CreateTariffRequest(request, subType)

\* The AVPs of an answer, and what was lost of it; no content is given to the
\* answer the Diameter stack makes itself.
Told(q, cca, lost) == [avps |-> OCF_CreatCCADiamMsg(CCROf(q), cca, lost), lost |-> lost]

MadeByStack == [avps |-> <<>>, lost |-> {}]

\* A request arrives with these AVPs.  The Diameter stack makes the answer to one
\* that is rejected at once.
MessageArrives(r) ==
    /\ RequestArrives(r)
    /\ \E avps \in Wire :
          /\ Summaries[avps] = ccr'[r]
          /\ wire' = [wire EXCEPT ![r] = avps]
          /\ asked' = IF r \in rating'
                      THEN [asked EXCEPT ![r] = <<RatingRequest(ccr'[r], avps)>>] ELSE asked
          /\ said' = IF answers' = answers THEN said ELSE [said EXCEPT ![r] = Append(@, MadeByStack)]

\* The answer to q has one of these contents, but for what is lost of it, if it
\* is sent.
Tells(q, contents) ==
    /\ UNCHANGED <<wire, asked>>
    /\ IF answers' = answers THEN UNCHANGED said
       ELSE \E cca \in contents, lost \in Losses :
               said' = [said EXCEPT ![q] = Append(@, Told(q, cca, lost))]

\* What the balance of a response looks like that is read as a response of the
\* other kind; no handler that may do so reads more of it.
Misread == [oRemainingBalance : {RemainingBalance, Rupees(500)}, oLowBalanceIndication : {0, 1}]

\* The response to r, read as one of the given kind.
Responses(r, kind) ==
    IF RatingKind(ccr[r]) # kind THEN Misread
    ELSE IF kind = "Price" THEN {OCSDB_PriceResponse(asked[r][1])}
    ELSE OCSDB_TariffResponses

Charged(r) == sub[ccr[r].key].charging

ReadAs(r) == PayloadOf(sub[ccr[r].key])

\* Each handler of the state machine with what it answers.
GrantTold(r, q) ==
    \/ /\ OCF_Idle_InitReqProcessingSuccessful(r, q)
       /\ Tells(q, {GrantedInitial(CCROf(q), Charged(r), a) : a \in Responses(r, ReadAs(r))})
    \/ /\ OCF_Idle_EventReqProcessingSuccessful(r, q)
       /\ Tells(q, {GrantedEvent(CCROf(q), a) : a \in Responses(r, "Price")})
    \/ /\ OCF_Open_UpdateReqProcessingSuccessful(r, q)
       /\ Tells(q, {GrantedUpdate(CCROf(q), a) : a \in Responses(r, "Tariff")})
    \/ /\ OCF_Open_TerminateReqProcessingSuccessful(r, q)
       /\ Tells(q, {GrantedTerminate(CCROf(q), a) : a \in Responses(r, ReadAs(r))})

RefusalTold(r, q) ==
    \/ /\ OCF_Idle_InitReqProcessingUnSuccessful(r, q)
       /\ Tells(q, RefusedInitials(CCROf(q), Charged(r)))
    \/ /\ \/ OCF_Open_UpdateReqProcessingUnSuccessful(r, q)
          \/ OCF_Open_TerminateReqProcessingUnSuccessful(r, q)
       /\ Tells(q, {Refusal(CCROf(q), Charged(r))})

\* Steps without an answer.
Silent(r) ==
    /\ UNCHANGED <<wire, asked, said>>
    /\ \/ Unhandled(r)
       \/ ResponseLost(r)
       \/ TimerExpires(r)

ChargingNext ==
    \E r \in Request :
        \/ MessageArrives(r)
        \/ \E q \in Request : GrantTold(r, q) \/ RefusalTold(r, q)
        \/ Silent(r)

ChargingSpec == ChargingInit /\ [][ChargingNext]_chargingVars
=============================================================================
