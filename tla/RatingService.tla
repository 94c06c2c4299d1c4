--------------------------- MODULE RatingService ---------------------------
(***************************************************************************)
(* What the OCF is promised when it asks for a rating: each request it     *)
(* sends gets at most one response, in any order, with an outcome that the *)
(* database's verdict on that very request justifies.  Only an event that  *)
(* cannot be sent loses a request, unless the process ends.                *)
(***************************************************************************)
CONSTANTS
    Request,   \* identities of rating requests
    Faults,    \* what may fail, see AllRatingFaults
    NULL       \* no response

AllRatingFaults == {
    "loss",    \* an event or a response cannot be sent
    "call",    \* the authorization procedure cannot be called
    "select",  \* its results cannot be read
    "row"}     \* ... are not among those the query returns

Kind == {"Price", "Tariff"}

\* The request of an event, which the events name by its sub-session.
Event == [request: Request, kind: Kind]

\* The @nRetCode the authorization procedure returned for a request: 0, 1 or
\* another value; "open" while it returned nothing.
Verdict == {"open", "grant", "deny", "other"}

\* What a response says.  quota: whether its units, price and expiry are those
\* the database gave.
Outcome == [result: {"OCS_SUCCESS", "OCS_FAILURE"}, quota: BOOLEAN]

Quota   == [result |-> "OCS_SUCCESS", quota |-> TRUE]
Blank   == [result |-> "OCS_SUCCESS", quota |-> FALSE]
Refusal == [result |-> "OCS_FAILURE", quota |-> FALSE]

\* The outcomes a verdict justifies.  A price is not looked up, and a verdict
\* that could not be read counts as success.
Justified(kind, verdict, outcome) ==
    \/ /\ outcome = Quota
       /\ kind = "Tariff" /\ verdict = "grant"
    \/ /\ outcome = Refusal
       /\ kind = "Tariff"
       /\ verdict = "deny" \/ (verdict = "open" /\ "call" \in Faults)
    \/ /\ outcome = Blank
       /\ \/ kind = "Price"
          \/ verdict = "other"
          \/ verdict # "open" /\ "select" \in Faults

VARIABLES
    pending,   \* requests without a response
    verdicts,  \* the verdict on each request
    replies    \* the response each request got last

serviceVars == <<pending, verdicts, replies>>

Init ==
    /\ pending = {}
    /\ verdicts = [r \in Request |-> "open"]
    /\ replies = [r \in Request |-> NULL]

Ask(e) ==
    /\ \A p \in pending : p.request # e.request
    /\ pending' = pending \cup {e}
    /\ verdicts' = [verdicts EXCEPT ![e.request] = "open"]
    /\ replies' = [replies EXCEPT ![e.request] = NULL]

\* The database decides about a request, once.
Decide(e, verdict) ==
    /\ e \in pending
    /\ e.kind = "Tariff"
    /\ verdicts[e.request] = "open"
    /\ verdicts' = [verdicts EXCEPT ![e.request] = verdict]
    /\ UNCHANGED <<pending, replies>>

Reply(e, outcome) ==
    /\ e \in pending
    /\ Justified(e.kind, verdicts[e.request], outcome)
    /\ pending' = pending \ {e}
    /\ replies' = [replies EXCEPT ![e.request] = outcome]
    /\ UNCHANGED verdicts

Lose(e) ==
    /\ "loss" \in Faults
    /\ e \in pending
    /\ pending' = pending \ {e}
    /\ UNCHANGED <<verdicts, replies>>

\* A result that is not there ends the process, and with it every request.
LoseAll ==
    /\ "row" \in Faults
    /\ \E e \in pending : e.kind = "Tariff" /\ verdicts[e.request] # "open"
    /\ pending' = {}
    /\ UNCHANGED <<verdicts, replies>>

Next ==
    \/ LoseAll
    \/ \E e \in Event :
          \/ Ask(e)
          \/ \E verdict \in Verdict \ {"open"} : Decide(e, verdict)
          \/ \E outcome \in Outcome : Reply(e, outcome)
          \/ Lose(e)

Spec == Init /\ [][Next]_serviceVars
=============================================================================
