--------------------------- MODULE AnswerBuilder ----------------------------
(***************************************************************************)
(* Answer construction: the t_OCSCCA each state machine handler fills, and *)
(* the AVPs OCF_CreatCCADiamMsg makes of it (ocf_statemachine.c, ocf.c).   *)
(* Header, Origin-Host and Origin-Realm are left out: the first is copied  *)
(* from the request, the others are constants.                             *)
(*                                                                         *)
(* An AVP that cannot be created makes its caller fail, up to the handler, *)
(* which is the failure "send" of module OCF - but nobody looks at the     *)
(* results of OCF_CreateUnitValueAVP, of the creation of a service, a cost *)
(* or a balance, and of adding an AVP to its group or to the message.  So  *)
(* any AVP may be missing from an answer that is sent.  Which ones is the  *)
(* parameter "lost" of the operators below: a set of paths, each the codes *)
(* that lead from the group that is made to the AVP that is missing.       *)
(* The stack is assumed to pass over the NULL that is appended in place of *)
(* a service.                                                              *)
(***************************************************************************)
EXTENDS OCSDefines, SequencesExt

DIAMETER_SUCCESS == 2001
DIAMETER_RATING_FAILED == 5031

OCS_NOT_USED == 2   \* of t_OCSCheckBalanceResult
----------------------------------------------------------------------------
(* AVPs.  Most are made only of a value above zero. *)

\* AVPs of this code, unless they are lost; what is lost inside of them.
Added(code, avps, lost) == IF <<code>> \in lost THEN <<>> ELSE avps

Inside(code, lost) == {Tail(path) : path \in {p \in lost : Len(p) > 1 /\ Head(p) = code}}

\* The AVP only if the value is positive; the AVP of any value.
Positive(code, n, lost) ==
    Added(code, IF 0 < n THEN <<Number(code, n)>> ELSE <<>>, lost)

Always(code, n, lost) == Added(code, <<Number(code, n)>>, lost)

OCF_CreateUnitValueAVP(u, lost) ==
    Group("UNIT_VALUE",
          Positive("VALUE_DIGITS", u.llValueDigits, lost)
              \o Positive("EXPONENT", u.nExponent, lost))

\* A unit value in the group that is made.
UnitValueAdded(u, lost) ==
    Added("UNIT_VALUE", <<OCF_CreateUnitValueAVP(u, Inside("UNIT_VALUE", lost))>>, lost)

OCF_CreateCCMoneyAVP(m, lost) ==
    Group("CC_MONEY",
          UnitValueAdded(m.oUnitValue, lost)
              \o Positive("CURRENCY_CODE", m.unCurrencyCode, lost))

MoneyAdded(m, lost) ==
    Added("CC_MONEY", <<OCF_CreateCCMoneyAVP(m, Inside("CC_MONEY", lost))>>, lost)

\* Money that is left out when its exponent is 0.
MoneyWithExponent(g, lost) ==
    Group("GRANTED_SERVICE_UNIT",
          IF 0 < g.oCCMoney.oUnitValue.nExponent THEN MoneyAdded(g.oCCMoney, lost) ELSE <<>>)

\* The total octets have no AVP, and money needs digits to get one.
OCF_CreatGrantedServiceUnitAVP(g, lost) ==
    Group("GRANTED_SERVICE_UNIT",
          Positive("TARIFF_TIME_CHANGE", g.unTariffTimeChange, lost)
              \o Positive("CC_TIME", g.unCCTime, lost)
              \o (IF 0 < g.oCCMoney.oUnitValue.llValueDigits
                  THEN MoneyAdded(g.oCCMoney, lost) ELSE <<>>)
              \o Positive("CC_INPUT_OCTETS", g.ullCCInputOctets, lost)
              \o Positive("CC_OUTPUT_OCTETS", g.ullCCOutputOctets, lost)
              \o Positive("CC_SERVICE_SPECIFIC_UNITS", g.ullCCServiceSpecificUnits, lost))

GrantsAdded(units, lost) ==
    Added("GRANTED_SERVICE_UNIT",
          [i \in DOMAIN units |->
              OCF_CreatGrantedServiceUnitAVP(units[i], Inside("GRANTED_SERVICE_UNIT", lost))],
          lost)

\* The thresholds, which no handler sets, are left out.
OCF_CreatMultipleServiceCCAVP(s, lost) ==
    Group("MULTIPLE_SERVICES_CREDIT_CONTROL",
          GrantsAdded(s.poGrantedServiceUnits, lost)
              \o Positive("SERVICE_IDENTIFIER", s.unServiceId, lost)
              \o Positive("RATING_GROUP", s.unRatingGroup, lost)
              \o Positive("VALIDITY_TIME", s.unValidityTime, lost)
              \o Positive("RESULT_CODE", s.unResultCode, lost))

\* An answer is about at most one service.
ServicesAdded(services, lost) ==
    Added("MULTIPLE_SERVICES_CREDIT_CONTROL",
          [i \in DOMAIN services |->
              OCF_CreatMultipleServiceCCAVP(services[i],
                                            Inside("MULTIPLE_SERVICES_CREDIT_CONTROL", lost))],
          lost)

OCF_CreatCostInformationAVP(c, lost) ==
    Group("COST_INFORMATION",
          UnitValueAdded(c.oUnitValue, lost)
              \o Positive("CURRENCY_CODE", c.unCurrencyCode, lost)
              \o (IF c.oCostUnit # <<>>
                  THEN Added("COST_UNIT", <<Text("COST_UNIT", c.oCostUnit)>>, lost) ELSE <<>>))

CostsAdded(costs, lost) ==
    Added("COST_INFORMATION",
          [i \in DOMAIN costs |->
              OCF_CreatCostInformationAVP(costs[i], Inside("COST_INFORMATION", lost))],
          lost)

OCF_CreatRemainingBalanceAVP(b, lost) ==
    Group("REMAINING_BALANCE",
          UnitValueAdded(b.oUnitValue, lost)
              \o Positive("CURRENCY_CODE", b.unCurrencyCode, lost))

BalancesAdded(balances, lost) ==
    Added("REMAINING_BALANCE",
          [i \in DOMAIN balances |->
              OCF_CreatRemainingBalanceAVP(balances[i], Inside("REMAINING_BALANCE", lost))],
          lost)

\* A CC-Sub-Session-Id that is sent back only when it is positive; any but the
\* value that marks an absent one.
PositiveSubSession(ccr, lost) == Positive("SUB_SESSION_ID", ccr.ullCCSubSessionId, lost)

UsedSubSession(ccr, lost) ==
    IF ccr.ullCCSubSessionId = OCS_UNSUED_VALUE THEN <<>>
    ELSE Always("SUB_SESSION_ID", ccr.ullCCSubSessionId, lost)

\* The answer cca to the request ccr, but for the AVPs that are lost.
OCF_CreatCCADiamMsg(ccr, cca, lost) ==
    (IF ccr.oSessionId # <<>>
     THEN Added("SESSION_ID", <<Text("SESSION_ID", ccr.oSessionId)>>, lost) ELSE <<>>)
        \o Positive("RESULT_CODE", cca.unResultCode, lost)
        \o Always("AUTH_APPLICATION_ID", OCS_APPLICATION_ID, lost)
        \o Always("CC_REQUEST_TYPE", ccr.oCCRequestType, lost)
        \o Always("CC_REQUEST_NUMBER", ccr.unCCRequestNum, lost)
        \o UsedSubSession(ccr, lost)
        \o GrantsAdded(cca.poGrantedServiceUnits, lost)
        \o ServicesAdded(cca.oMultiServicesCC, lost)
        \o CostsAdded(cca.poCostInfo, lost)
        \o Always("LOW_BALANCE_INDICATION", cca.oLowBalanceIndication, lost)
        \o BalancesAdded(cca.poRemainingBalance, lost)
        \o (IF cca.oCheckBalanceResult # OCS_NOT_USED
            THEN Always("CHECK_BALANCE_RESULT", cca.oCheckBalanceResult, lost) ELSE <<>>)
----------------------------------------------------------------------------
(* What the handlers fill in *)

\* An answer about the service the request names itself.
AnsweredOwn(ccr, code) ==
    [AnsweredService EXCEPT !.unServiceId = ccr.unServiceId, !.unResultCode = code]

\* The only service an answer is about is the first one of its request.
AnsweredFirst(ccr, code) ==
    [AnsweredService EXCEPT !.unServiceId = FirstService(ccr).unServiceId,
                            !.unRatingGroup = FirstService(ccr).unRatingGroup,
                            !.unResultCode = code]

\* An answer that says DIAMETER_SUCCESS and shows the balance of the response.
Success(service, response) ==
    [CCA EXCEPT !.unResultCode = DIAMETER_SUCCESS,
                !.oMultiServicesCC = <<service>>,
                !.poRemainingBalance = <<response.oRemainingBalance>>,
                !.oLowBalanceIndication = response.oLowBalanceIndication,
                !.oCheckBalanceResult = OCS_NOT_USED]

GrantedQuota(ccr, units, expiry) ==
    [AnsweredFirst(ccr, DIAMETER_SUCCESS) EXCEPT !.unValidityTime = expiry,
                                                 !.poGrantedServiceUnits = <<units>>]

TariffUnits(response) ==
    [GrantedServiceUnit EXCEPT !.unCCTime = response.unValidUnits,
                               !.oCCMoney.oUnitValue.llValueDigits = response.unPrice,
                               !.oCCMoney.unCurrencyCode = 1]

\* OCF_Idle_InitReqProcessingSuccessful
GrantedInitial(ccr, charging, response) ==
    LET units == IF charging = "SCUR" THEN TariffUnits(response)
                                      ELSE response.oGrantedServiceUnit
    IN Success(GrantedQuota(ccr, units, response.unExpiryTime), response)

\* OCF_Open_UpdateReqProcessingSuccessful
GrantedUpdate(ccr, response) ==
    Success(GrantedQuota(ccr, TariffUnits(response), response.unExpiryTime), response)

\* OCF_Open_TerminateReqProcessingSuccessful
GrantedTerminate(ccr, response) == Success(AnsweredFirst(ccr, DIAMETER_SUCCESS), response)

\* OCF_Idle_EventReqProcessingSuccessful.  A request that names a service itself
\* is answered without a service of its own.
GrantedEvent(ccr, response) ==
    LET subType == response.oRequestSubType
        own == ccr.unServiceId # OCS_UNSUED_VALUE
        code == response.unRatingFuncResultCode
        units == IF subType = "Direct_Debiting" THEN <<response.oGrantedServiceUnit>>
                                                ELSE <<>>
        service == [AnsweredFirst(ccr, code) EXCEPT !.poGrantedServiceUnits = units]
    IN [Success(service, response) EXCEPT
            !.unResultCode = IF own THEN code ELSE @,
            !.oMultiServicesCC = IF own THEN <<>> ELSE @,
            !.poGrantedServiceUnits = IF own THEN units ELSE <<>>,
            !.poCostInfo = IF subType \in {"Refund_Account", "Price_Enquiry"}
                           THEN <<response.oCostInfo>> ELSE <<>>,
            !.oCheckBalanceResult = IF subType = "Check_Balance"
                                    THEN response.oCheckBalanceResult ELSE @]

\* A refusal whose service keeps the quota it was going to get.
RefusalWithQuota(ccr, charging) ==
    [CCA EXCEPT !.unResultCode = DIAMETER_RATING_FAILED,
                !.oMultiServicesCC =
                    <<GrantedQuota(ccr, [GrantedServiceUnit EXCEPT !.unCCTime = 1], 0)>>]

\* OCF_Open_UpdateReqProcessingUnSuccessful and its Terminate twin: nothing but
\* the failure is set, and not even that in a session charged per event.
Refusal(ccr, charging) ==
    IF charging = "SCUR"
    THEN [CCA EXCEPT !.unResultCode = DIAMETER_RATING_FAILED,
                     !.oMultiServicesCC = <<AnsweredFirst(ccr, DIAMETER_RATING_FAILED)>>]
    ELSE CCA

\* OCF_Idle_InitReqProcessingUnSuccessful, which does not clear the structure:
\* what it does not set is what the stack held, of which a few values are taken.
RefusedInitials(ccr, charging) ==
    LET Stray == [unResultCode : {0, 1}, oMultiServicesCC : {<<>>},
                  poCostInfo : {<<>>, <<CostInformation>>},
                  oLowBalanceIndication : {0},
                  poRemainingBalance : {<<>>, <<RemainingBalance>>},
                  oCheckBalanceResult : {0, OCS_NOT_USED},
                  poGrantedServiceUnits : {<<>>, <<GrantedServiceUnit>>}]
        Refused(cca) ==
            [cca EXCEPT !.unResultCode = DIAMETER_RATING_FAILED,
                        !.oMultiServicesCC = <<AnsweredFirst(ccr, DIAMETER_RATING_FAILED)>>]
    IN IF charging = "SCUR" THEN {Refused(cca) : cca \in Stray} ELSE Stray
=============================================================================
