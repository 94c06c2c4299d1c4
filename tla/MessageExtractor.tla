-------------------------- MODULE MessageExtractor --------------------------
(***************************************************************************)
(* Message extraction (src/src/ocf/ocf_msgextractor.c): the t_OCSCCR made  *)
(* of the AVPs of a Credit-Control-Request.  Each function goes through    *)
(* the AVPs of one group in their order and stores those it knows, so that *)
(* the value of a repeated AVP is overwritten and a repeated group is      *)
(* merged into the structure that is there.                                *)
(*                                                                         *)
(* A function ends early when an AVP cannot be taken from its list.  For   *)
(* the request itself this is the failure "extract" of module OCF.  Nobody *)
(* looks at the result for a group: it is kept with what was read of it.   *)
(* The members of a group are therefore those that can be read.            *)
(***************************************************************************)
EXTENDS OCSDefines, SequencesExt

\* The field an AVP is stored in, if the table names one.
Stored(field, struct, avp) ==
    IF avp.code \in DOMAIN field THEN [struct EXCEPT ![field[avp.code]] = avp.number]
                                 ELSE struct

\* As above, for enumerated AVPs that go to unsigned fields.
StoredUnsigned(field, struct, avp) ==
    Stored(field, struct, [avp EXCEPT !.number = Unsigned(@)])

StoredAll(field, struct, avps) ==
    FoldLeft(LAMBDA s, a : Stored(field, s, a), struct, avps)

Amount == [VALUE_DIGITS |-> "llValueDigits", EXPONENT |-> "nExponent"]

OCF_ExtractUnitValue(avp, unitValue) == StoredAll(Amount, unitValue, avp.members)

Currency == [CURRENCY_CODE |-> "unCurrencyCode"]

StoredMoney(money, avp) ==
    IF avp.code = "UNIT_VALUE"
    THEN [money EXCEPT !.oUnitValue = OCF_ExtractUnitValue(avp, @)]
    ELSE Stored(Currency, money, avp)

OCF_ExtractCCMoney(avp, money) == FoldLeft(StoredMoney, money, avp.members)

Quantity ==
    [CC_TIME |-> "unCCTime", CC_TOTAL_OCTETS |-> "ullCCTotalOctets",
     CC_INPUT_OCTETS |-> "ullCCInputOctets", CC_OUTPUT_OCTETS |-> "ullCCOutputOctets"]

\* One AVP of the units of a service stored.
StoredQuantity(units, avp) ==
    IF avp.code = "CC_MONEY" THEN [units EXCEPT !.oCCMoney = OCF_ExtractCCMoney(avp, @)]
                             ELSE Stored(Quantity, units, avp)

\* A structure that is cleared before a repeated group is read.
RestartedReqServiceUnit(avp, units) ==
    FoldLeft(StoredQuantity, ReqServiceUnit, avp.members)

OCF_ExtractReqServiceUnit(avp, units) == FoldLeft(StoredQuantity, units, avp.members)

\* CC-Money among the used units is passed over.
OCF_ExtractUsedServiceUnit(avp, units) == StoredAll(Quantity, units, avp.members)

\* A limit that is checked one element too late.
OneTooMany(array, size, extracted) ==
    IF Len(array) <= size THEN Append(array, extracted) ELSE array

\* What is filled of an array of the given size: one structure for each AVP of
\* the code that finds room.
Filled(array, size, extracted) ==
    IF Len(array) < size THEN Append(array, extracted) ELSE array

ServiceNumbers == [SERVICE_IDENTIFIER |-> "unServiceId", RATING_GROUP |-> "unRatingGroup"]

StoredService(service, avp) ==
    CASE avp.code = "REQUESTED_SERVICE_UNIT" ->
             [service EXCEPT !.oReqServiceUnit = OCF_ExtractReqServiceUnit(avp, @)]
      [] avp.code = "USED_SERVICE_UNIT" ->
             [service EXCEPT !.oUsedServiceUnit =
                 Filled(@, OCS_MAX_USED_SERVICE_UNIT,
                        OCF_ExtractUsedServiceUnit(avp, UsedServiceUnit))]
      [] OTHER -> Stored(ServiceNumbers, service, avp)

OCF_ExtractMultiServiceCC(avp, service) == FoldLeft(StoredService, service, avp.members)

\* A text cut one octet too short.
CutShort(s) ==
    IF Len(s) < OCS_MAX_FIXED_LEN_UTF8STRING_SIZE - 1
    THEN s ELSE SubSeq(s, 1, OCS_MAX_FIXED_LEN_UTF8STRING_SIZE - 2)

\* What there is room for of a text, with the final zero.
Fitting(s) ==
    IF Len(s) < OCS_MAX_FIXED_LEN_UTF8STRING_SIZE
    THEN s ELSE SubSeq(s, 1, OCS_MAX_FIXED_LEN_UTF8STRING_SIZE - 1)

\* An AVP without octets leaves the string as it was.
OCS_CopyDiamUTF8String(dest, text) == IF text = <<>> THEN dest ELSE Fitting(text[1])

Numbers ==
    [CC_REQUEST_TYPE |-> "oCCRequestType", CC_REQUEST_NUMBER |-> "unCCRequestNum",
     SUB_SESSION_ID |-> "ullCCSubSessionId", SERVICE_IDENTIFIER |-> "unServiceId"]

Enumerations ==
    [TERMINATION_CAUSE |-> "unTerminationCause",
     REQUESTED_ACTION |-> "unRequestedAction",
     MULTIPLE_SERVICES_INDICATOR |-> "unMultiServiceIndicator"]

Texts ==
    [SESSION_ID |-> "oSessionId", SERVICE_CONTEXT_ID |-> "oServiceContextId",
     USER_NAME |-> "oUserName"]

StoredAttribute(ccr, avp) ==
    CASE avp.code \in DOMAIN Numbers -> Stored(Numbers, ccr, avp)
      [] avp.code \in DOMAIN Enumerations -> StoredUnsigned(Enumerations, ccr, avp)
      [] avp.code \in DOMAIN Texts ->
             [ccr EXCEPT ![Texts[avp.code]] = OCS_CopyDiamUTF8String(@, avp.text)]
      [] avp.code = "MULTIPLE_SERVICES_CREDIT_CONTROL" ->
             [ccr EXCEPT !.oMultiServicesCC =
                 Filled(@, OCS_MAX_MULTI_SERVICE_CC,
                        OCF_ExtractMultiServiceCC(avp, RequestedService))]
      [] avp.code = "REQUESTED_SERVICE_UNIT" ->
             [ccr EXCEPT !.oReqServiceUnit = OCF_ExtractReqServiceUnit(avp, @)]
      [] OTHER -> ccr

\* The structure is zeroed but for three fields that are marked as unused.
FreshCCR ==
    [CCR EXCEPT !.unServiceId = OCS_UNSUED_VALUE,
                !.unTerminationCause = OCS_UNSUED_VALUE,
                !.ullCCSubSessionId = OCS_UNSUED_VALUE]

OCF_ExtractCCRAttributes(avps) == FoldLeft(StoredAttribute, FreshCCR, avps)
=============================================================================
