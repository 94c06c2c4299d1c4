------------------------- MODULE ChargingProperties -------------------------
(***************************************************************************)
(* What the messages of module Charging must say, read as in module        *)
(* MessageReading.                                                         *)
(***************************************************************************)
EXTENDS Charging, MessageReading

Arrived == {r \in Request : ccr[r] # NULL}

\* The answers to q the OCF made itself, of the response to a rating request.
RatedAnswers(q) == {i \in DOMAIN answers[q] : answers[q][i].from # NULL}
----------------------------------------------------------------------------
(* Extraction *)

\* Of a repeated AVP the last value counts, and repeated groups count as one: a
\* value a later group does not repeat stays what an earlier group said, so that
\* what was asked for may be put together of several of them
\* (ocf_msgextractor.c:9-261).
TheLastValueCounts ==
    \A r \in Arrived :
        /\ CCROf(r).oReqServiceUnit = UnitsIn(Within(wire[r], "REQUESTED_SERVICE_UNIT"))
        /\ FirstService(CCROf(r)).oReqServiceUnit =
               UnitsIn(Within(Service(wire[r]), "REQUESTED_SERVICE_UNIT"))
        /\ CCROf(r).unCCRequestNum = LastNumber(wire[r], "CC_REQUEST_NUMBER", 0)
        /\ CCROf(r).unTerminationCause =
               Unsigned(LastNumber(wire[r], "TERMINATION_CAUSE", -1))
        /\ CCROf(r).unRequestedAction =
               Unsigned(LastNumber(wire[r], "REQUESTED_ACTION", 0))

\* However many services a request names and however many used units they
\* report, the arrays of the t_OCSCCR take the first ones and no more than they
\* have room for (ocf_msgextractor.c:70-75, 125-130).
ArraysTakeTheFirst ==
    \A r \in Arrived :
        LET services == Having(wire[r], "MULTIPLE_SERVICES_CREDIT_CONTROL")
            kept == CCROf(r).oMultiServicesCC
            Used(i) == Having(services[i].members, "USED_SERVICE_UNIT")
        IN /\ Len(kept) <= OCS_MAX_MULTI_SERVICE_CC
           /\ Len(kept) < Len(services) => Len(kept) = OCS_MAX_MULTI_SERVICE_CC
           /\ \A i \in DOMAIN kept :
                 /\ kept[i].unServiceId =
                        LastNumber(services[i].members, "SERVICE_IDENTIFIER", 0)
                 /\ Len(kept[i].oUsedServiceUnit) <= OCS_MAX_USED_SERVICE_UNIT
                 /\ Len(kept[i].oUsedServiceUnit) < Len(Used(i)) =>
                        Len(kept[i].oUsedServiceUnit) = OCS_MAX_USED_SERVICE_UNIT
                 /\ \A j \in DOMAIN kept[i].oUsedServiceUnit :
                       kept[i].oUsedServiceUnit[j].unCCTime =
                           LastNumber(Used(i)[j].members, "CC_TIME", 0)

\* A Session-Id that fits the t_OCSFixedLenUTF8String with its final zero, and a
\* CC-Sub-Session-Id that is not taken for an absent one.
Fits(text) == Len(text) < OCS_MAX_FIXED_LEN_UTF8STRING_SIZE

Telling(avps) ==
    /\ Fits(LastText(avps, "SESSION_ID"))
    /\ LastNumber(avps, "SUB_SESSION_ID", 0) # OCS_UNSUED_VALUE

\* Requests of different sub-sessions meet in the session table only when a
\* Session-Id is too long for the table, and then only with one that begins
\* alike, or a CC-Sub-Session-Id is the value that stands for an absent one
\* (ocf_msgextractor.c:311-331, 23).
KeysTellSessionsApart ==
    \A q, r \in Arrived : ccr[q].key = ccr[r].key =>
        LET session(p) == LastText(wire[p], "SESSION_ID")
            subSession(p) == LastNumber(wire[p], "SUB_SESSION_ID", OCS_UNSUED_VALUE)
        IN /\ subSession(q) = subSession(r)
           /\ \/ session(q) = session(r)
              \/ ~Fits(session(q)) /\ IsPrefix(ccr[q].key[1], session(r))
              \/ ~Fits(session(r)) /\ IsPrefix(ccr[r].key[1], session(q))
----------------------------------------------------------------------------
(* Answers *)

\* An AVP may be missing from an answer (see AnswerBuilder).  What an answer says
\* is then less than was meant, but never something else; an answer that is
\* complete says all of it.
Complete(answer) == answer.lost = {}

\* Of the AVPs of that code an answer has those that are meant, unless they are
\* missing.
Echoes(answer, code, meant) ==
    /\ Having(answer.avps, code) \in {<<>>, meant}
    /\ Complete(answer) => Having(answer.avps, code) = meant

\* An answer is matched to no other request than the one it is sent for: it
\* repeats its type and number, and its Session-Id and CC-Sub-Session-Id unless
\* they are too long or stand for an absent one - whatever CCRs were freed,
\* kept or replaced while the rating was under way (ocf.c:221-341).
AnswersEchoTheirRequest ==
    \A q \in Request : \A i \in RatedAnswers(q) :
        LET session == LastText(wire[q], "SESSION_ID")
            Same(code) ==
                Echoes(said[q][i], code, <<Number(code, LastNumber(wire[q], code, 0))>>)
        IN /\ Same("CC_REQUEST_TYPE")
           /\ Same("CC_REQUEST_NUMBER")
           /\ Telling(wire[q]) =>
                 /\ Echoes(said[q][i], "SESSION_ID",
                           IF session = <<>> THEN <<>> ELSE <<Text("SESSION_ID", session)>>)
                 /\ IF Having(wire[q], "SUB_SESSION_ID") = <<>>
                    THEN Having(said[q][i].avps, "SUB_SESSION_ID") = <<>>
                    ELSE Same("SUB_SESSION_ID")

\* An answer is about at most one service, the first of its request, and this is
\* the service that was rated; except that a session charged per event rates
\* the service the request itself names, if it names one, and still answers
\* about the first (ocf_ebcf.c:117-124 against ocf_statemachine.c:148-149).
AnsweredServiceWasRated ==
    \A q \in Request : \A i \in RatedAnswers(q) :
        LET services == Having(said[q][i].avps, "MULTIPLE_SERVICES_CREDIT_CONTROL")
            first == LastNumber(Service(wire[q]), "SERVICE_IDENTIFIER", 0)
        IN /\ Len(services) <= 1
           /\ \A j \in DOMAIN services :
                 LET answered == LastNumber(services[j].members, "SERVICE_IDENTIFIER", 0)
                 IN /\ answered \in {0, first}
                    /\ Complete(said[q][i]) => answered = first
                    /\ \/ first = asked[q][1].unServiceId
                       \/ /\ RatingKind(ccr[q]) = "Price"
                          /\ Having(wire[q], "SERVICE_IDENTIFIER") # <<>>

\* Units of which some numbers may be missing.
Fewer(read, units) ==
    /\ \A f \in {"unCCTime", "ullCCTotalOctets", "ullCCInputOctets", "ullCCOutputOctets"} :
          read[f] \in {0, units[f]}
    /\ read.oCCMoney.unCurrencyCode \in {0, units.oCCMoney.unCurrencyCode}
    /\ \A f \in {"llValueDigits", "nExponent"} :
          read.oCCMoney.oUnitValue[f] \in {0, units.oCCMoney.oUnitValue[f]}

\* The units an answer grants in a session are these, unless some are missing.
Grants(answer, units) ==
    LET read == UnitsIn(Within(Service(answer.avps), "GRANTED_SERVICE_UNIT"))
    IN /\ Fewer(read, units)
       /\ Complete(answer) => read = units

\* What is left of money on its way out: digits above zero, and an exponent if it
\* is above zero.
Sendable(money) ==
    IF money.oUnitValue.llValueDigits <= 0 THEN CCMoney
    ELSE [money EXCEPT !.oUnitValue.nExponent = IF @ > 0 THEN @ ELSE 0]

\* A client that reads the grant of a session finds no number in it but, of a
\* reservation, those of the money it asked for, and of a tariff, the time and
\* price the database returned.  If the answer is complete they are all there,
\* but for amounts that are not positive and negative exponents
\* (ocf.c:437-655, ocf_statemachine.c:118-165).
GrantsSurviveTheWire ==
    \A q \in Request : \A i \in RatedAnswers(q) :
        ccr[q].type \in {"INITIAL", "UPDATE"} /\ answers[q][i].code = "SUCCESS" =>
            IF RatingKind(ccr[q]) = "Price"
            THEN LET units == UnitsIn(Within(Service(wire[q]), "REQUESTED_SERVICE_UNIT"))
                 IN Grants(said[q][i],
                           [ReqServiceUnit EXCEPT !.oCCMoney = Sendable(units.oCCMoney)])
            ELSE \E quota \in TariffQuota \cup {[units |-> 0, price |-> 0]} :
                    Grants(said[q][i],
                           [ReqServiceUnit EXCEPT
                               !.unCCTime = Unsigned(quota.units),
                               !.oCCMoney = Sendable(Rupees(Unsigned(quota.price)))])

\* An Event is answered by nothing but what its Requested-Action asks for: a
\* debit by a grant, placed where the request named its service, a refund or a
\* price enquiry by a cost, a balance check by its result, and an action the
\* code does not know by none of them.  A missing action is a debit.  If the
\* answer is complete it has what was asked for
\* (ocf_ebcf.c:77-94, ocsdb.c:202-231, ocf_statemachine.c:275-308).
EventsDoWhatTheyAsk ==
    \A q \in Request : \A i \in RatedAnswers(q) :
        ccr[q].type = "EVENT" =>
            LET action == Unsigned(LastNumber(wire[q], "REQUESTED_ACTION", 0))
                own == LastNumber(wire[q], "SERVICE_IDENTIFIER", OCS_UNSUED_VALUE)
                           # OCS_UNSUED_VALUE
                answer == said[q][i].avps
                Only(avps, code, reason) ==
                    /\ Having(avps, code) # <<>> => reason
                    /\ Complete(said[q][i]) /\ reason => Having(avps, code) # <<>>
            IN /\ Only(answer, "GRANTED_SERVICE_UNIT", action = 0 /\ own)
               /\ Only(Service(answer), "GRANTED_SERVICE_UNIT", action = 0 /\ ~own)
               /\ Only(answer, "COST_INFORMATION", action \in {1, 3})
               /\ Only(answer, "CHECK_BALANCE_RESULT", action = 2)

\* A refused Update or Terminate grants no units, costs nothing and shows no
\* balance, whatever an earlier grant of the session left behind.  A refused
\* Initial is left out: its answer is made of a structure that was never
\* cleared (ocf_statemachine.c:205-238).
RefusalsGrantNothing ==
    \A q \in Request : \A i \in RatedAnswers(q) :
        answers[q][i].code \in {"RATING_FAILED", "NONE"} /\ ccr[q].type # "INITIAL" =>
            /\ Within(Service(said[q][i].avps), "GRANTED_SERVICE_UNIT") = <<>>
            /\ \A code \in {"GRANTED_SERVICE_UNIT", "COST_INFORMATION", "REMAINING_BALANCE"} :
                  Having(said[q][i].avps, code) = <<>>
=============================================================================
