--------------------------- MODULE RatingRequests ---------------------------
(***************************************************************************)
(* What the OCF asks the rating function about a request, and what the     *)
(* database module answers (ocf_ebcf.c, ocf_sbcf.c, ocsdb.c).  The copies  *)
(* of the Session-Id and the user name, which the answer is not made of,   *)
(* are left out; so is what only OCSDB_DumpTariffRequest reads.            *)
(***************************************************************************)
EXTENDS OCSDefines

CONSTANT TariffQuota   \* units and price the authorization procedure may return

ASSUME QuotaAssumption == TariffQuota \subseteq [units : Int, price : Int]

RequestSubType ==
    {"AoC", "Reservation", "Debit", "Release", "Direct_Debiting",
     "Refund_Account", "Check_Balance", "Price_Enquiry", "Invalid_Request_Type"}

\* The upper end of the table tested one entry early.
ShortTable(ccr) ==
    IF ccr.unRequestedAction \in 0..2
    THEN <<"Direct_Debiting", "Refund_Account", "Check_Balance">>[ccr.unRequestedAction + 1]
    ELSE "Invalid_Request_Type"

\* Requested-Action is unsigned, and 0 when the AVP is absent.
OCF_GetRequestType(ccr) ==
    LET oRequestType ==
            <<"Direct_Debiting", "Refund_Account", "Check_Balance", "Price_Enquiry">>
    IN IF ccr.unRequestedAction + 1 \in DOMAIN oRequestType
       THEN oRequestType[ccr.unRequestedAction + 1] ELSE "Invalid_Request_Type"

\* A request of the given CC-Request-Type is about: an Event, its action; a
\* Terminate, the debit of what was used, or its release if it has a cause; an
\* Initial or an Update, a reservation.
SubTypeOf(ccr, type) ==
    CASE type = "EVENT" -> OCF_GetRequestType(ccr)
      [] type = "TERMINATION" ->
             IF ccr.unTerminationCause = OCS_UNSUED_VALUE THEN "Debit" ELSE "Release"
      [] OTHER -> "Reservation"

\* The units a price request asks for: debits and refunds take them from where
\* the service is named, reservations from the first service.
RequestedUnits(ccr, subType) ==
    CASE subType \in {"Direct_Debiting", "Refund_Account"} ->
             IF ccr.unServiceId # OCS_UNSUED_VALUE
             THEN ccr.oReqServiceUnit ELSE FirstService(ccr).oReqServiceUnit
      [] subType = "Reservation" -> FirstService(ccr).oReqServiceUnit
      [] OTHER -> ReqServiceUnit

OCF_PopulatePriceRequest(ccr, subType) ==
    [oRequestSubType |-> subType,
     unServiceId |-> IF ccr.unServiceId # OCS_UNSUED_VALUE
                     THEN ccr.unServiceId ELSE FirstService(ccr).unServiceId,
     oReqServiceUnit |-> RequestedUnits(ccr, subType),
     unTerminationCause |-> IF subType = "Release" THEN ccr.unTerminationCause ELSE 0]

\* A tariff request is about the first service, whatever service the request
\* itself names.
OCF_CreateTariffRequest(ccr, subType) ==
    [oRequestSubType |-> subType,
     unServiceId |-> FirstService(ccr).unServiceId,
     oReqServiceUnit |-> FirstService(ccr).oReqServiceUnit,
     unTerminationCause |-> ccr.unTerminationCause]
----------------------------------------------------------------------------
(* Responses *)

\* An amount in the only currency there is.
Rupees(digits) ==
    [oUnitValue |-> [UnitValue EXCEPT !.llValueDigits = digits], unCurrencyCode |-> 1]

Balance == Rupees(500)

\* Neither the service nor the units asked for enter the price, except that a
\* reservation is granted in full.
OCSDB_PriceResponse(request) ==
    LET subType == request.oRequestSubType
    IN [oRequestSubType |-> subType,
        unRatingFuncResultCode |-> 10,
        unExpiryTime |-> 0,
        oGrantedServiceUnit |->
            [GrantedServiceUnit EXCEPT !.oCCMoney =
                CASE subType = "Reservation" -> request.oReqServiceUnit.oCCMoney
                  [] subType = "Direct_Debiting" -> Rupees(50)
                  [] OTHER -> CCMoney],
        oCostInfo |-> IF subType \in {"Refund_Account", "Price_Enquiry"}
                      THEN [oUnitValue |-> Rupees(50).oUnitValue, unCurrencyCode |-> 1,
                            oCostUnit |-> <<"R", "s", ".">>]
                      ELSE CostInformation,
        oCheckBalanceResult |-> 0,
        oRemainingBalance |-> Balance,
        oLowBalanceIndication |-> 0]

\* The units are read from text that may have a sign, and stored unsigned.
TariffGrant(quota) ==
    [unExpiryTime |-> 10000,
     unValidUnits |-> Unsigned(quota.units),
     unPrice |-> Unsigned(quota.price),
     oRemainingBalance |-> Balance,
     oLowBalanceIndication |-> 0]

\* What is sent when the verdict is neither of the two known ones.
BlankTariff == [TariffGrant([units |-> 0, price |-> 0]) EXCEPT !.unExpiryTime = 0]

OCSDB_TariffResponses == {TariffGrant(quota) : quota \in TariffQuota} \cup {BlankTariff}
=============================================================================
