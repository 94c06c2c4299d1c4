----------------------------- MODULE OCSDefines -----------------------------
(***************************************************************************)
(* The structures of ocs_defines.h, as far as the server reads or writes   *)
(* them, and the AVPs of the Diameter stack.  An array with its count is a *)
(* sequence; a pointer that may be NULL is a sequence of at most one.      *)
(***************************************************************************)
EXTENDS Integers, Sequences

CONSTANTS
    OCS_MAX_FIXED_LEN_UTF8STRING_SIZE,  \* octets of a string, with the final zero
    OCS_MAX_MULTI_SERVICE_CC,           \* services of a request
    OCS_MAX_USED_SERVICE_UNIT,          \* reports of used units of a service
    MaxUnsigned                         \* the largest value of an unsigned field

ASSUME DefinesAssumption ==
    /\ OCS_MAX_FIXED_LEN_UTF8STRING_SIZE \in Nat \ {0}
    /\ OCS_MAX_MULTI_SERVICE_CC \in Nat \ {0}
    /\ OCS_MAX_USED_SERVICE_UNIT \in Nat \ {0}
    /\ MaxUnsigned \in Nat \ {0}

\* A signed integer stored in an unsigned field, and the value -1 there.
Unsigned(n) == n % (MaxUnsigned + 1)

OCS_UNSUED_VALUE == Unsigned(-1)

OCS_APPLICATION_ID == 4

\* Structures after DMBase_MemsetZero.
UnitValue == [llValueDigits |-> 0, nExponent |-> 0]

CCMoney == [oUnitValue |-> UnitValue, unCurrencyCode |-> 0]

ReqServiceUnit ==
    [unCCTime |-> 0, oCCMoney |-> CCMoney, ullCCTotalOctets |-> 0,
     ullCCInputOctets |-> 0, ullCCOutputOctets |-> 0]

UsedServiceUnit ==
    [unCCTime |-> 0, ullCCTotalOctets |-> 0,
     ullCCInputOctets |-> 0, ullCCOutputOctets |-> 0]

GrantedServiceUnit ==
    [unTariffTimeChange |-> 0, unCCTime |-> 0, oCCMoney |-> CCMoney,
     ullCCTotalOctets |-> 0, ullCCInputOctets |-> 0, ullCCOutputOctets |-> 0,
     ullCCServiceSpecificUnits |-> 0]

\* The two sides of the union in t_OCSMultiServicesCC: of a request, ...
RequestedService ==
    [unServiceId |-> 0, unRatingGroup |-> 0, oReqServiceUnit |-> ReqServiceUnit,
     oUsedServiceUnit |-> <<>>]

\* ... and of an answer.
AnsweredService ==
    [unServiceId |-> 0, unRatingGroup |-> 0, poGrantedServiceUnits |-> <<>>,
     unValidityTime |-> 0, unResultCode |-> 0]

CostInformation == [oUnitValue |-> UnitValue, unCurrencyCode |-> 0, oCostUnit |-> <<>>]

RemainingBalance == [oUnitValue |-> UnitValue, unCurrencyCode |-> 0]

CCR ==
    [oSessionId |-> <<>>, oServiceContextId |-> <<>>, oUserName |-> <<>>,
     oCCRequestType |-> 0, unCCRequestNum |-> 0, ullCCSubSessionId |-> 0,
     unServiceId |-> 0, unTerminationCause |-> 0, unRequestedAction |-> 0,
     unMultiServiceIndicator |-> 0, oReqServiceUnit |-> ReqServiceUnit,
     oMultiServicesCC |-> <<>>]

CCA ==
    [unResultCode |-> 0, oMultiServicesCC |-> <<>>, poCostInfo |-> <<>>,
     oLowBalanceIndication |-> 0, poRemainingBalance |-> <<>>,
     oCheckBalanceResult |-> 0, poGrantedServiceUnits |-> <<>>]

\* oMultiServicesCC[0], whether the request filled it or not.
FirstService(ccr) ==
    IF ccr.oMultiServicesCC = <<>> THEN RequestedService ELSE ccr.oMultiServicesCC[1]
----------------------------------------------------------------------------
(* AVPs, named as in ocs_defines.h.  One has a number, a text or members. *)

\* A set of AVPs, and with each its members.  The text is a pointer to octets.
AreAVPs(avps) ==
    /\ avps \subseteq [code : STRING, number : Int, text : Seq(Seq(STRING)),
                       members : Seq(avps)]
    /\ \A a \in avps : Len(a.text) <= 1

Number(code, n) == [code |-> code, number |-> n, text |-> <<>>, members |-> <<>>]

Text(code, s) == [code |-> code, number |-> 0, text |-> <<s>>, members |-> <<>>]

\* A text AVP without octets.
NoText(code) == Number(code, 0)

Group(code, avps) == [code |-> code, number |-> 0, text |-> <<>>, members |-> avps]
=============================================================================
