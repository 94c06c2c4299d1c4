--------------------------- MODULE MessageReading ---------------------------
(***************************************************************************)
(* A message read the way its sender means it: one AVP at a time, without  *)
(* the loops of the extraction.                                            *)
(***************************************************************************)
EXTENDS OCSDefines, SequencesExt

\* The AVPs of that code, in their order; the members of all of them.
Having(avps, code) ==
    FlattenSeq([i \in DOMAIN avps |-> IF avps[i].code = code THEN <<avps[i]>> ELSE <<>>])

Within(avps, code) ==
    FlattenSeq([i \in DOMAIN avps |-> IF avps[i].code = code THEN avps[i].members ELSE <<>>])

\* The value of the last AVP of that code.
LastNumber(avps, code, default) ==
    IF Having(avps, code) = <<>> THEN default ELSE Last(Having(avps, code)).number

\* The texts of the AVPs of that code, and the last one.
TextsOf(avps, code) ==
    FlattenSeq([i \in DOMAIN avps |-> IF avps[i].code = code THEN avps[i].text ELSE <<>>])

LastText(avps, code) ==
    IF TextsOf(avps, code) = <<>> THEN <<>> ELSE Last(TextsOf(avps, code))

\* The members of the first service of a message.
Service(avps) ==
    LET services == Having(avps, "MULTIPLE_SERVICES_CREDIT_CONTROL")
    IN IF services = <<>> THEN <<>> ELSE services[1].members

UnitValueIn(avps) ==
    [llValueDigits |-> LastNumber(avps, "VALUE_DIGITS", 0),
     nExponent |-> LastNumber(avps, "EXPONENT", 0)]

MoneyIn(avps) ==
    [oUnitValue |-> UnitValueIn(Within(avps, "UNIT_VALUE")),
     unCurrencyCode |-> LastNumber(avps, "CURRENCY_CODE", 0)]

UnitsIn(avps) ==
    [unCCTime |-> LastNumber(avps, "CC_TIME", 0),
     oCCMoney |-> MoneyIn(Within(avps, "CC_MONEY")),
     ullCCTotalOctets |-> LastNumber(avps, "CC_TOTAL_OCTETS", 0),
     ullCCInputOctets |-> LastNumber(avps, "CC_INPUT_OCTETS", 0),
     ullCCOutputOctets |-> LastNumber(avps, "CC_OUTPUT_OCTETS", 0)]
=============================================================================
