--------------------------- MODULE OCFProperties ---------------------------
(***************************************************************************)
(* What the Online Charging Function of module OCF must keep true.         *)
(***************************************************************************)
EXTENDS OCF

\* The sub-session request r addresses.
SubOf(r) == sub[ccr[r].key]

Codes(q) == {answers[q][i].code : i \in DOMAIN answers[q]}
----------------------------------------------------------------------------
(* Timers and the session table, whatever fails and whatever clients do *)

\* A running Tcc timer belongs to a sub-session object that is still in the
\* table and open, and no object has two: OCF_TimeOutNotification never gets a
\* pointer to a freed object, since every handler that frees one has stopped
\* its timer or is the timer (ocf_statemachine.c:76-95, 552, 619, 643).
TimersPointToLiveSessions ==
    \A o \in Request : armed[o] > 0 =>
        /\ armed[o] = 1
        /\ SubOf(o) # NULL
        /\ SubOf(o).object = o
        /\ SubOf(o).state = "OPEN"
        /\ SubOf(o).tcc

\* A sub-session that processes no request is open, holds no CCR and has its
\* timer running: a client that vanishes never leaks a session this way
\* (ocf_statemachine.c:182-188, 409-418).
FreeSessionsAreTimed ==
    \A k \in Key : sub[k] # NULL /\ ~sub[k].busy =>
        /\ sub[k].state = "OPEN"
        /\ sub[k].poCCR = NULL
        /\ armed[sub[k].object] = 1

\* While a request is in progress no other request takes its sub-session over,
\* neither its CCR nor the peer the answer goes to: bProcessingInProgress is
\* read before anything is assigned (ocf_sbcf.c:122-135, 174-182).
ProgressIsNotDisplaced ==
    [][\A k \in Key :
          (sub[k] # NULL /\ sub'[k] # NULL /\ sub[k].busy /\ sub'[k].busy) =>
              /\ sub'[k].object = sub[k].object
              /\ sub'[k].poCCR = sub[k].poCCR
              /\ sub'[k].hPeer = sub[k].hPeer]_vars
----------------------------------------------------------------------------
(* Clients that reopen a sub-session only after the responses of its former life *)

\* A response finds the request it belongs to: whenever the rating of r is
\* outstanding, its sub-session is gone or still works on r.  The code relies
\* on this, since a response names only the sub-session (ocf_sbcf.c:30-39,
\* ocf_ebcf.c:20-27).
ResponseFindsItsRequest ==
    \A r \in rating :
        /\ ccr[r] # NULL
        /\ SubOf(r) # NULL =>
              /\ SubOf(r).poCCR = r
              /\ SubOf(r).hPeer = r
              /\ SubOf(r).busy
              /\ SubOf(r).state = IF ccr[r].type \in {"INITIAL", "EVENT"}
                                  THEN "IDLE" ELSE "OPEN"

\* At most one rating request of a sub-session is outstanding, so two DB threads
\* never work for the same sub-session at once.
OneRatingPerSubSession ==
    \A r, q \in rating : ccr[r].key = ccr[q].key => r = q

\* No request is answered twice, however sends fail, responses get lost, timers
\* fire and CCRs are freed in between.
AtMostOneAnswer == \A q \in Request : Len(answers[q]) <= 1

\* The answer to a request is made of the response to its own rating request.
AnswerOfOwnRating ==
    \A q \in Request : \A i \in DOMAIN answers[q] :
        answers[q][i].from \in {q, NULL}

\* The price structure is read as a tariff structure, or the reverse, only when
\* a Terminate names a service of the other charging type than the request
\* that opened the sub-session (ocf.c:1043 against ocf_statemachine.c:503).
MisreadOnlyAfterServiceSwitch ==
    \A q \in Request : \A i \in DOMAIN answers[q] :
        answers[q][i].payload = "misread" =>
            /\ ccr[q].type = "TERMINATION"
            /\ \E p \in Request : /\ ccr[p] # NULL
                                  /\ ccr[p].key = ccr[q].key
                                  /\ ccr[p].type = "INITIAL"
                                  /\ OCF_CheckChargingType(ccr[p]) # OCF_CheckChargingType(ccr[q])

\* No handler follows the CCR pointer of a sub-session to freed memory or to
\* NULL, although a failed send leaves such pointers behind (ocf.c:176-187).
NeverCrashes == up
----------------------------------------------------------------------------
(* Clients that reopen a sub-session at any time, by a retransmission say *)

\* A granted answer is the last one its request gets: the CCR is freed with it.
GrantIsFinal ==
    \A q \in Request : \A i \in DOMAIN answers[q] :
        answers[q][i].code = "SUCCESS" =>
            /\ i = Len(answers[q])
            /\ mem[q] # "held"

\* Every answer goes to the peer that sent the request.
AnswersReachTheAsker ==
    \A q \in Request : \A i \in DOMAIN answers[q] : answers[q][i].to = q
----------------------------------------------------------------------------
(* Nothing fails *)

\* The rating function turned down the update, or the event, s works on.
TurnedDown(s) ==
    \/ s.state = "OPEN" /\ ~s.tcc /\ Codes(s.poCCR) \cap {"RATING_FAILED", "NONE"} # {}
    \/ s.state = "IDLE" /\ ccr[s.poCCR].type = "EVENT" /\ answers[s.poCCR] = <<>>

\* A sub-session in progress waits for its rating response, unless the rating
\* function turned its update or event down: no other sub-session is stuck.
OnlyTurnedDownRequestsStick ==
    \A k \in Key : sub[k] # NULL /\ sub[k].busy =>
        sub[k].poCCR \in rating \/ TurnedDown(sub[k])

\* A request is answered, its sub-session went away and left its CCR behind, or
\* it is an event that was turned down.
Settled(q) ==
    \/ answers[q] # <<>>
    \/ /\ mem[q] = "held"
       /\ \A k \in Key : sub[k] # NULL /\ sub[k].poCCR = q => TurnedDown(sub[k])

\* Every request that was accepted is answered, loses its sub-session to the
\* Tcc timer, or is a refused event, which the code never answers
\* (ocf_statemachine.c:353-361, 643); it does not wait for a rating for ever.
EveryRequestSettles == \A q \in Request : (ccr[q] # NULL) ~> Settled(q)

\* Every open sub-session ends, by a Terminate or by its timer, unless a failed
\* update took its timer away.
OpenSessionsEnd ==
    \A k \in Key : (sub[k] # NULL /\ sub[k].state = "OPEN" /\ sub[k].tcc)
                      ~> (sub[k] = NULL \/ TurnedDown(sub[k]))
----------------------------------------------------------------------------
(* What comments in the code say *)

\* "generate unknown session error." (ocf_ebcf.c:230): a Terminate for a
\* sub-session that does not exist is answered with UNKNOWN_SESSION_ID.
UnknownSessionIsSaid ==
    [][\A r \in Request :
          (ccr[r] = NULL /\ ccr'[r] # NULL /\ ccr'[r].type = "TERMINATION"
              /\ sub[ccr'[r].key] = NULL) =>
          Codes(r)' = {"UNKNOWN_SESSION_ID"}]_vars

\* "Delete session object" (ocf_statemachine.c:171, 179): when the answer to an
\* Initial cannot be sent the session is deleted, so a sub-session that is not
\* open yet always waits for its rating response.
IdleSessionsAwaitRating ==
    \A k \in Key : sub[k] # NULL /\ sub[k].state = "IDLE" => sub[k].poCCR \in rating
=============================================================================
