----------------------------- MODULE MCCharging -----------------------------
(* A small instance of Charging for TLC. *)
EXTENDS ChargingProperties, TLC

Symmetry == Permutations(Request)

CCRWith(session, type, rest) ==
    <<Text("SESSION_ID", session), Number("CC_REQUEST_TYPE", type),
      Number("CC_REQUEST_NUMBER", 10 + type)>> \o rest

Service1(id, rest) ==
    <<Group("MULTIPLE_SERVICES_CREDIT_CONTROL",
            <<Number("SERVICE_IDENTIFIER", id), Number("RATING_GROUP", 9)>> \o rest)>>

Money(digits, exponent) ==
    Group("REQUESTED_SERVICE_UNIT",
          <<Group("CC_MONEY",
                  <<Group("UNIT_VALUE",
                          <<Number("VALUE_DIGITS", digits), Number("EXPONENT", exponent)>>),
                    Number("CURRENCY_CODE", 4)>>)>>)

InSubSession(n) == <<Number("SUB_SESSION_ID", n)>>

Used(n) == Group("USED_SERVICE_UNIT", <<Number("CC_TIME", n), Number("CC_TIME", n + 1)>>)

\* A session charged by tariff, with repeated AVPs, repeated groups, a service and
\* a report too many, and another one whose Session-Id differs in the last octet.
BySession == {
    CCRWith(<<"a", "b">>, 1, InSubSession(0)
        \o Service1(3, <<Group("REQUESTED_SERVICE_UNIT",
                               <<Number("CC_TIME", 5), Number("CC_INPUT_OCTETS", 6)>>),
                         Group("REQUESTED_SERVICE_UNIT",
                               <<Number("CC_TIME", 7), Number("CC_TIME", 8)>>)>>)
        \o Service1(4, <<>>) \o Service1(5, <<>>)),
    CCRWith(<<"a", "b">>, 2, InSubSession(0) \o Service1(3, <<Used(1), Used(3)>>)),
    CCRWith(<<"a", "b">>, 3, InSubSession(0) \o Service1(3, <<>>)),
    CCRWith(<<"a", "c">>, 2, InSubSession(0)),
    CCRWith(<<"a", "b">>, 3,
        InSubSession(0) \o Service1(1, <<>>) \o <<Number("TERMINATION_CAUSE", 4)>>)}

\* Sessions charged per event.  The Session-Ids are too long and begin alike, the
\* sub-session looks absent, the money is given in two parts.
ByEvent == {
    CCRWith(<<"a", "b", "c">>, 1, InSubSession(255)
        \o Service1(1, <<Money(7, 2), Money(6, -2), Number("RATING_GROUP", 8)>>)),
    CCRWith(<<"a", "b", "d">>, 2, Service1(2, <<>>)),
    CCRWith(<<"a", "b", "d">>, 3, Service1(2, <<>>)),
    CCRWith(<<"a">>, 1,
        <<Number("SERVICE_IDENTIFIER", 6)>> \o Service1(1, <<Money(0, 1)>>)),
    CCRWith(<<"a">>, 1, Service1(2,
        <<Group("REQUESTED_SERVICE_UNIT",
                <<Group("CC_MONEY", <<Group("UNIT_VALUE", <<Number("VALUE_DIGITS", 7)>>)>>)>>),
          Group("REQUESTED_SERVICE_UNIT",
                <<Group("CC_MONEY", <<Group("UNIT_VALUE", <<Number("EXPONENT", 3)>>),
                                      Number("CURRENCY_CODE", 2)>>),
                  Number("CC_TOTAL_OCTETS", 9)>>)>>)),
    CCRWith(<<"a">>, 3, Service1(3, <<>>))}

\* Events with every action, and one that is no action; the last request is of a
\* type that is none.
Events ==
    {CCRWith(<<"e">>, 4,
             <<Number("REQUESTED_ACTION", action)>> \o Service1(7, <<Money(5, 0)>>)) :
        action \in -1 .. 4}
    \cup {CCRWith(<<"e">>, 4, <<Number("SERVICE_IDENTIFIER", 7), Money(5, 0)>>),
          CCRWith(<<"e">>, 4, InSubSession(1) \o <<NoText("SESSION_ID")>>),
          CCRWith(<<"e">>, 7, <<>>)}

MCWire == BySession \cup ByEvent \cup Events

\* The AVPs of these requests; groups are at most three deep.
WithMembers(avps) == avps \cup UNION {ToSet(a.members) : a \in avps}

MCAVP == WithMembers(WithMembers(WithMembers(WithMembers(
             UNION {ToSet(avps) : avps \in MCWire}))))

\* What module OCF tells apart in them.
MCSessionId == {Summaries[avps].key[1] : avps \in MCWire}

MCSubSessionId == {Summaries[avps].key[2] : avps \in MCWire}

MCServiceId == {Summaries[avps].service : avps \in MCWire}

\* What is missing from an answer: nothing, a service, a price, the code of its
\* currency, the grant of a service, a cost, a balance check, or the request's names.
InService(path) == <<"MULTIPLE_SERVICES_CREDIT_CONTROL">> \o path

MCLosses == {
    {},
    {InService(<<>>), <<"REMAINING_BALANCE">>},
    {InService(<<"GRANTED_SERVICE_UNIT", "CC_MONEY", "UNIT_VALUE">>)},
    {InService(<<"GRANTED_SERVICE_UNIT", "CC_MONEY", "UNIT_VALUE", "EXPONENT">>),
     InService(<<"GRANTED_SERVICE_UNIT", "CC_MONEY", "CURRENCY_CODE">>)},
    {InService(<<"GRANTED_SERVICE_UNIT">>), InService(<<"SERVICE_IDENTIFIER">>)},
    {<<"COST_INFORMATION">>, <<"CHECK_BALANCE_RESULT">>, <<"GRANTED_SERVICE_UNIT">>},
    {<<"SESSION_ID">>, <<"CC_REQUEST_NUMBER">>, <<"SUB_SESSION_ID">>}}

\* A quota, and one that was returned as text with a minus sign.
MCQuota == {[units |-> 10, price |-> 3], [units |-> -1, price |-> 0]}
=============================================================================
