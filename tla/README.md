# Verification of the Online Charging System

TLA+ models, TLC configurations and TLAPS proofs for the Online Charging System
(OCS) under `src/src`: a Diameter credit-control server (RFC 4006).  An Online
Charging Function (OCF), a rating function and a database module are loaded as
plug-ins of one process and exchange events through the AMPS event system.
Paths below are relative to `src/src`; there are no tests in the repository.

## 1. The system

| component | source | state | operations |
| --- | --- | --- | --- |
| OCF: dispatch | `ocf/ocf.c` | none of its own | `OCF_ProcessMessage` for every Diameter request |
| OCF: session and event charging | `ocf/ocf_sbcf.c`, `ocf/ocf_ebcf.c` | sub-session objects: peer, CCR, state, charging type, in-progress flag, timer id | Initial, Update, Terminate, Event; tariff and price responses |
| rating requests | `ocf/ocf_ebcf.c:77-142`, `ocf/ocf_sbcf.c:10-24` | none | from a `t_OCSCCR` to a price or a tariff request |
| OCF: state machine | `ocf/ocf_statemachine.c` | the same objects | eight handlers for (state, request type, result), the Tcc timer |
| session table | `ocf/ocf_session.c` | hash table of session objects, each with a list of sub-sessions and a count | look up, insert, remove |
| message extraction | `ocf/ocf_msgextractor.c` | none | from a Diameter message to a `t_OCSCCR` |
| answer construction | `ocf/ocf.c:199-978` | none | from a `t_OCSCCA` to a Diameter message |
| rating function | `ratingfunc/ratingfunc.c` | none | relays rating requests to the database and responses back |
| database module | `db_module/ocsdb.c` | ten threads, each with a database connection | one handler per request, two queries for a tariff request |
| start-up | `onlinecharging.c`, the `ModuleInit` functions | registered events, session table, query texts, thread contexts | loads the stack and the modules, then runs the scheduler |
| AMPS, libdiameter, libxml2 | `src/include`, `src/lib` (headers, binaries) | events, timers, hash tables, peers | external |

### How they interact

A request reaches `OCF_ProcessMessage` on the scheduler's thread.  It becomes a
`t_OCSCCR` on the heap.  An Initial or an Event creates a sub-session object
that points to the CCR and to the peer; an Update or a Terminate looks one up,
turns the request down if another is in progress, and otherwise takes it over.
The handler then sends a tariff or a price request, and returns.  The rating
function relays it to the database threads, one of which handles it; its
response is relayed to the OCF.  The response carries Session-Id and
CC-Sub-Session-Id and nothing else to find its request by: the OCF looks up the
sub-session, reads the *current* CCR's type, and the state machine runs the
handler for the state, that type and the result.  The handler answers the peer
kept in the sub-session, frees the CCR, and opens, renews or removes the
sub-session.  The Tcc timer of an open sub-session is handed the address of the
object and removes it.

### What is hard

- *Stale responses.*  A response finds its sub-session, not its request.
- *The timer races* with a request in progress, and holds a raw pointer.
- *Partial failures.*  A handler that fails half-way returns at once: after the
  sub-session was taken over, after the response was consumed, after the answer
  was built.  Nothing is rolled back.
- *Results nobody looks at.*  An AVP of an answer that cannot be made is left
  out and the answer is sent, a SUCCESS without its grant included
  (`ocf/ocf.c:367,377,401,515,880,950`); a sub-session its list cannot take is
  counted there all the same (`ocf/ocf_session.c:79`); a group of a request that
  cannot be read to its end is kept as far as it was read
  (`ocf/ocf_msgextractor.c:73,77,123,128`).
- *Lost events.*  The results of most internal sends are ignored, and a
  sub-session whose response is lost has no timer that covers the wait, unless
  it was open before.
- *Ten database threads* finish in any order, and carry the verdict from one
  query to the next in a session variable of the connection.
- *Memory.*  A removal gets its key from the object it frees, an answer is built
  from an uninitialised structure, a price response may be read as a tariff
  response.
- *Retransmissions.*  CC-Request-Number is ignored, so the same Initial may open
  a sub-session twice.
- *Half a start.*  A module whose initialisation stopped at its first failure is
  loaded all the same: events have no handler, the session table does not exist,
  a database thread has no connection or no context, and requests arrive.
- *Contents.*  AVPs repeat in any number and order, arrays and strings have fixed
  sizes, signed values go into unsigned fields, a field that is absent has a
  value that may also be sent, and an AVP is made of a value only if it is
  positive.

### What makes each component correct

- OCF: a response is used for the request it belongs to; nobody is answered
  twice or in another's place; no pointer is followed to freed memory; a request
  in progress is not displaced; no session is left without timer; every request
  settles and every session ends, as far as the code sees to it.
- Session table: a map from keys to objects; counts match lists; nothing leaks
  but what a failed append lost.
- Rating function and database: each request has at most one response, and one
  that the verdict on that very request justifies.
- Contents: the last value of a repeated AVP counts; an answer repeats what
  identifies its request, is about the service that was rated, and grants what
  the rating granted and nothing else; different sessions have different keys.
- Start-up: whatever failed, a request is rated only if its response can be
  used, and nothing is granted without the database.
- The whole: the OCF sees nothing but a set of outstanding requests whose
  responses come in any order, and answers follow verdicts.

## 2. The modules

| module | models | state and actions |
| --- | --- | --- |
| `OCF` | OCF dispatch, charging and state machine | `ccr`, `mem` (messages and the memory of their `t_OCSCCR`), `sub`, `dangling` (session table), `armed` (timers), `rating` (requests without a response), `answers`, `up`.  One action per handler. |
| `OCFProperties` | | its properties |
| `MCOCF` | | instances of `OCFProperties` |
| `OCF_proofs` | | theorems about `OCF` under every fault and every client, and when clients reopen at any time |
| `OCFResponses_proofs` | | theorems about `OCF` when clients wait and memory is safe, and when, besides, nothing fails |
| `SessionMap` | the table as `OCF` sees it | `sub`, `dangling`; insert and remove |
| `SessionTable` | `ocf_session.c` | `hSessionTable`, `allocated`, `leaked` (what a failed append lost); look-up, insertion and removal with list and count; implements `SessionMap` |
| `SessionTable_proofs` | | theorems about `SessionTable`, and that it implements `SessionMap` |
| `Rating` | `ratingfunc.c`, `ocsdb.c` | one set per event type, `work` and `nRetCode` of each thread; one action per relay, one per query, and the crash on a missing row |
| `RatingService` | what the OCF is promised | `pending`, `verdicts`, `replies`; `Ask`, `Decide`, `Reply`, `Lose`, and `LoseAll` for the end of the process |
| `MCRating` | | instances of `Rating` |
| `Rating_proofs` | | theorems about `Rating`, and that it implements `RatingService` |
| `OCS` | the server | `OCF` with `rating` replaced by what `Rating` has outstanding; joint actions for asking and answering |
| `MCOCS` | | instances of `OCS` |
| `OCS_proofs` | | that `OCS` implements `OCF` and has its properties, and that answers follow verdicts |
| `OCSDefines` | `ocs_defines.h` | the structures and constants the server uses; AVPs |
| `MessageExtractor` | `ocf_msgextractor.c` | one operator per function, a fold over the AVPs of its group |
| `RatingRequests` | `OCF_GetRequestType`, `OCF_PopulatePriceRequest`, `OCF_CreateTariffRequest`, the database's responses | operators on `t_OCSCCR` and requests |
| `AnswerBuilder` | the `t_OCSCCA` of each handler, the AVP creators and `OCF_CreatCCADiamMsg` | operators on `t_OCSCCA`, with the set of AVPs that are lost as a parameter |
| `Charging` | `OCF` with the contents of its messages | the variables of `OCF`, and `wire` (the AVPs of a request), `asked` (its rating request), `said` (the AVPs of its answers, and those that were lost).  Each step is a step of `OCF`. |
| `MessageReading` | | what a message says, read one AVP at a time and without loops |
| `ChargingProperties`, `MCCharging` | | the properties of `Charging` and its instance |
| `Extraction_proofs` | | that the loops of `MessageExtractor` compute what a message says |
| `Charging_proofs` | | that `Charging` implements `OCF`, and theorems about contents |
| `Startup` | `onlinecharging.c`, the `ModuleInit` and `Init` functions, the start of the threads | `main`, `toLoad`, `registered`, `table`, `queries`, `thread`; of a request: `at`, `kind`, `servedBy`, `result`.  One action per step of `main`, per module, per thread, and per event handler a request passes |
| `Startup_proofs` | | theorems about `Startup` |

`SessionTable` implements `SessionMap` (property `IsAMap`), `Rating` implements
`RatingService` (`KeepsThePromise`), and `OCS` implements `OCF`
(`ImplementsOCF`), each by a refinement mapping that TLC checks and TLAPS
proves.  `Charging` adds contents to the steps of `OCF`, which keeps deciding
when and to whom an answer is sent (theorem `ChargingIsOCF`).

### Abstractions

- The scheduler runs one handler at a time to its end, so a handler is one
  action.  Only the database threads run concurrently; each of their two
  queries is a step.
- A message is its type, its key and the service id of its first
  Multiple-Services-CC.  A request is an identity: it names the request's peer
  and the allocation made for it, too, so that an answer to the wrong peer and a
  timer of a dead object can be told from the right ones.  An address that is
  reused counts as a different one in `armed`.  `Deref` has what a read of a
  freed CCR can find, another request's CCR in the same memory included.  A freed
  *session* object that is still in the hash table is modelled less: a handler
  that finds it crashes (`FreedSessionFaults`) or finds it as it was left.  That
  its memory may by then be the session of another client, whose sub-sessions
  the handler would work on, is not modelled.
- Result codes are kept; in `OCF`, `SUCCESS` also stands for the rating
  function's own code 10 that answers to an Event carry.  Amounts, identifiers
  and the sub-type (reservation, debit, release) of a rating request are in
  `Charging` and not in `OCF`.  A timer may run out at any moment after its
  start, which covers the zero expiry of event-charged sessions
  (`ocf/ocf_statemachine.c:161`).
- In `Charging`, an AVP is a code with a number, a text or members; texts are
  sequences of octets.  Integers have the range `0..MaxUnsigned`, and what is
  stored unsigned wraps.  Only credit-control requests arrive, memory is safe
  and clients wait, so a response meets its own request (theorem
  `ResponsesMatch`) and is made of `asked`.  Any AVP of an answer may be missing
  from it: `Losses` are the sets of AVPs that may be, each AVP named by the codes
  that lead to it.  Where the code does look at a result, the whole answer fails
  (`send`).  Members of a group that cannot be read end the reading of that group,
  and nobody notices; the members in the model are those that can be read.  A text
  without octets leaves the string as it was.  What the code sends of a structure it
  never cleared is any of several contents (`RefusedInitials`, `Misread`).
- `Startup` does not follow sessions, threads at work or lost events: `OCF` and
  `Rating` do, under a complete start.  A use of what was never initialised may
  end the process (`undefined`).
- Failures are in `Faults` (see `AllFaults` and `AllRatingFaults`): each run
  says which ones it allows.  A crash loses all state but what was sent.  `append`
  is a list that cannot take a sub-session, `row` a query that succeeds without
  the row, or the value, that is read from it (`db_module/ocsdb.c:319`).
- `TooEarly` is the one assumption about clients, made when `EarlyReopen` is
  FALSE: nobody opens a sub-session again while a response of its former life
  is on the way.  Retransmissions break it; section 3 says what holds then.
- Events are kept in sets, which is every order of delivery.  In `MCRating` the
  name of a request is used again once it has a response.

External code is assumed to do what the server counts on: `DMBase_Malloc`
returns zeroed memory (the server never initialises `oTccTimerId`,
`poSubSessionList` and `unSubSessionCount`), `DMBase_StartTimer` succeeds,
`DMBase_Free` sets its pointer to NULL, `DMBase_SListRemove` unlinks one node,
`DMBase_KillTimer` of NULL does nothing, and a killed timer does not fire.

## 3. The runs

`ServiceId = {1, 3}` has one event-charged and one session-charged service.
Requests are interchangeable (symmetry), except where liveness is checked.
Deadlock is not checked where a run ends by itself, when the bounded set of
requests is used up or a freed session blocks the table.

| run | what it asks | bounds |
| --- | --- | --- |
| `ocf_unique` | With clients that do not reopen early and memory that is safe, and every send, allocation, append and event failing: `ResponseFindsItsRequest`, `OneRatingPerSubSession`, `AtMostOneAnswer`, `AnswerOfOwnRating`, `MisreadOnlyAfterServiceSwitch`, `NeverCrashes`, `TypeOK` | 4 requests, 1 sub-session |
| `ocf_reuse` | With clients that reopen at any time: stale responses may be used for a newer request and it may even crash, but `GrantIsFinal` and `AnswersReachTheAsker` hold | 4 requests, 1 sub-session, all faults but failing events |
| `ocf_faults` | Every fault, freed and uninitialised memory, failing appends and missing rows included: `TimersPointToLiveSessions`, `FreeSessionsAreTimed`, `ProgressIsNotDisplaced` | 3 requests, 2 sub-sessions of a session |
| `ocf_live` | Nothing fails, fair scheduler: `EveryRequestSettles`, `OpenSessionsEnd`, and `OnlyTurnedDownRequestsStick` | 3 requests, 1 sub-session |
| `session_table` | `CountsAreRight`, `ObjectsAreListedOnce`, `IsAMap`, `TypeOK` with failing allocations and appends, and freed keys | 2 sessions, 3 ids, 4 objects |
| `rating_promise` | `RequestsAreNotDuplicated`, `VerdictsAreNotMixedUp`, `KeepsThePromise`, `TypeOK` with every send and query failing, and rows missing | 3 requests, 2 threads |
| `ocs_refine` | `ImplementsOCF`, `AnswersFollowTheVerdict` with early reopening, failing allocations, appends, sends and first queries, missing rows and uninitialised memory | 3 requests, 1 sub-session, 2 threads |
| `ocs_live` | `EveryRequestSettles`, `EveryRequestIsRated` with failing queries | 2 requests, 2 threads |
| `charging_contents` | `TheLastValueCounts`, `ArraysTakeTheFirst`, `KeysTellSessionsApart`, `AnswersEchoTheirRequest`, `AnsweredServiceWasRated`, `GrantsSurviveTheWire`, `EventsDoWhatTheyAsk`, `RefusalsGrantNothing` with failing events, answers and lost responses, and AVPs missing from answers | 2 requests, each with any of 20 contents; 7 sets of missing AVPs; strings of 2 octets, 2 services, 1 report, integers to 255, 2 quotas |
| `startup` | Every failure of the start: `RatedRequestsCanBeAnswered`, `NoTariffWithoutTheDatabase`, `LoadedServersAnswer` | 2 requests, 2 threads |
| `ocf_unknown` | fails: see findings | 2 requests |
| `ocf_delete` | fails: see findings | 2 requests |

Why the bounds are enough.  The life of a sub-session takes three requests
(Initial, Update, Terminate); the fourth of `ocf_unique` and `ocf_reuse` is one
too many at any moment of it: a competitor, a retransmission, or the Initial of
a second life.  Sub-sessions meet only in the count of their session, so two of
them need one request each and a third to end one of them.  Two threads are
enough to reverse an order and to overwrite each other's verdict; a third
request waits while both are busy.

In `charging_contents` each limit of the code is one below what the messages
hold: Session-Ids of three octets that differ in the last, three services, two
reports, and values at both ends of the integers.  The messages repeat AVPs and
groups, leave out optional AVPs the answers depend on, and carry every
Requested-Action, one below and one above.  The sets of missing AVPs are none, and
one for each place where a result is ignored: a service, a balance, a grant, the
price in it, the parts of that price, a cost, and what names the request.  Two
requests are enough for an
answer about another request's contents, and make every pair of an Initial with
a later request of its session.  In `startup` requests do not share state, and
two threads are one that lacks something and one that does not.

What the properties of answers say is in two parts.  Whatever AVPs are missing, an
answer says nothing *else* than what identifies its request, what was rated and
what was granted: a number that is read in it is the right one, or it is not
there.  An answer from which nothing is missing (`Complete`) says all of it.  That
a client gets the grant when an AVP could not be made is not claimed, because it
is not so.  Nor is it claimed that what was asked for comes from one group: of
repeated groups the last value of each *field* counts, and one message of the run
has its digits in one group and its exponent in another.

All invariants and action properties of the passing runs and the refinements are
also proved for all values of the constants (section 4).

`ocs_refine` leaves out the fault `loss`: with it a lost event would be allowed
by `OCF`, and a handler that forgets to respond would go unnoticed.  It leaves
out `select`, too: when a verdict cannot be read the code answers with the zeroed
response, which is a grant (`db_module/ocsdb.c:304`); `rating_promise` covers
that.  The proof of `ImplementsOCF` covers both faults.  `OCS` leaves
out `freedKey`, as `dangling` would add nothing to the interplay.

**Fairness.**  `OCF`: a response that waits is handled, and a timer that nobody
stops runs out (weak fairness, per request): the AMPS scheduler dispatches every
event it holds, and there is no priority between them.  `OCS` adds that the
relays run, that a thread finishes its query, and that a database request is
not passed over for ever by threads that get free again and again (strong
fairness, since another request may take the only free thread each time).
`Startup` assumes that events with a handler are dispatched, that a thread
finishes its start, and that a database request is taken; weak fairness
suffices where threads do not block one another.  Using what was never
initialised is never fair: it may end the process or not.  No
fairness is assumed of clients, faults or restarts.

**Findings.**  Two runs end in a counterexample, where a comment says what the code does not do.

- `ocf_unknown`: `ocf/ocf_ebcf.c:230` says "generate unknown session error.",
  but a Terminate of an event-charged service without a sub-session returns
  `OCS_Retval_Failure` and is answered with UNABLE_TO_COMPLY.
- `ocf_delete`: `ocf/ocf_statemachine.c:171,179` say "Delete session object",
  but when an answer cannot be built or sent the sub-session stays, busy and
  without a timer, and all later requests for it are turned down.

The runs also delimit what the code does *not* promise.  With early reopening
each property of `ocf_unique` but the types fails; a refused Update or Event leaves a sub-session stuck for
ever (`TurnedDown`); a request whose sub-session the timer removes is never
answered (the second case of `Settled`).  No comment or test promises the
contrary, so these are exceptions in the properties, not findings.

Of the contents, these are the exceptions the properties of `charging_contents`
state.  Session-Ids that do not fit are cut and may share a key, and the largest
CC-Sub-Session-Id is taken for an absent one; answers then do not repeat them.
Negative exponents and amounts that are not positive vanish, and of a
reservation nothing but money is granted.  AVPs that could not be made are missing
from answers that are sent, SUCCESS without its grant included.  A session charged per event rates the
service its request names itself but answers about the first of its services;
only that one is answered.  A refused Initial is answered with a structure that
was never cleared, and a refusal says ENOUGH_CREDIT, which is zero.  Reported
units and the quota a request asks for are extracted but have no part in the
rating of a tariff.

## 4. The proofs

Everything below is proved with TLAPS for all values of the constants: any sets
of requests, sessions, sub-sessions, services, objects and threads, finite or
not, and any results of the rating function.  Each module's own assumption says
only that the null pointer is nothing else and that faults and results are among
those the model knows; where a theorem needs more, it names it.

**Under every fault and every client** (`OCF_proofs`): `TypeCorrect`,
`NoTimerOfAFreedSession`, `NoUntimedFreeSession` and `NoRequestIsDisplaced`.

`TimersPointToLiveSessions` is not inductive: a step that removes sub-session
`k` must be known to stop the one timer that points to its object, which takes
that `oTccTimerId` is set whenever such a timer runs and that only one runs.  The
invariant `SessionInv` adds what is missing, in both directions:

- `TimersAreOwned`: a running timer is the only one of its object, the object is
  found through the key of the request that made it, it is open and its
  `oTccTimerId` is set;
- `SubSessionsAreSound`: an object sits under the key of the request that made
  it; `oTccTimerId` is set only while the timer runs; an idle one is busy and has
  none; one that is not busy holds no CCR and has one;
- `RatedRequestsArrived`: a response names a key;
- `TypeOK`.

Each step either leaves the table and the timers alone (`TableUntouched`),
inserts an object of its own, takes one over, removes one and its timer
(`RemovalIsSound`), or replaces one and its timer (`ReplacementIsSound`).  The
action property follows from the invariant and one lemma per kind of step.

**When clients wait and memory is safe** (`OCFResponses_proofs`): the six
invariants of `ocf_unique`.  `ClientsWait` says `EarlyReopen = FALSE`;
`MemoryIsSafe` excludes the faults `freedKey`, `uninit` and `row`, with which a
pointer is followed that is dangling, uninitialised or null.  Failing extractions,
allocations, appends, events and sends and lost responses are all allowed.
Without `ClientsWait` TLC finds each of the six violated, without `MemoryIsSafe`
it finds crashes.

`ResponseFindsItsRequest` is kept by a new request only if no other one of the
same key has its rating outstanding, and by a response only if it is the last of
its key: it needs `OneRatingPerSubSession`, which in turn needs it, because it
is the busy flag of the sub-session that turns a second request away.  The
other properties need more, and `ResponseInv` collects it:

- `RatedRequestsAreHeld`: a request keeps its CCR and has no answer while its
  rating is outstanding, so that the one read of the CCR is safe and an answer
  is the first;
- `SubSessionsHaveOpeners`: an open sub-session was opened by an Initial and
  charges as that Initial's service does; an idle one still holds the CCR of its
  opener.  This is what makes a misread payload impossible but for a Terminate;
- `AnswersAreSound`: the answers to a request are none, or one that is made of
  its own rating and misread only after a change of service;
- `NothingWentWrong`: no crash and no session object freed under a hash entry;
- `SessionInv`, `ResponseFindsItsRequest`, `OneRatingPerSubSession`.

A response changes nothing but its own sub-session, CCR and answer
(`Consumed`), so `ConsumedIsSound` and `HandlerIsSound` leave one short step for
each handler; a request is turned away (`TurnedAwayIsSound`), accepted
(`AcceptedIsSound`), or rated although its sub-session was put in no list
(`UnlistedIsSound`), where the response finds nothing.

**When clients reopen at any time** (`OCF_proofs`): `NothingFollowsAGrant`
(`GrantIsFinal`) and `NoAnswerGoesAstray` (`AnswersReachTheAsker`), under every
fault but a failing send of an event (`EventsLeave`): with it, TLC finds a handler
that rejected its request and left it in the sub-session, where a stale response
answers it again.  A response may be somebody else's here, so the argument is not
about responses but about what the sub-session points to:

- `PointersAreSound`: a CCR a sub-session points to is still allocated, belongs to
  a request of its key, and its peer is the one in the sub-session;
- `AnswersEndWell`: an answer goes to the peer of its request, and a grant is the
  last one and freed the CCR.  So a request that is answered now had no grant.

It needs `SessionInv` and that a request that has not arrived has no answer.

**When clients wait and nothing fails** (`OCFResponses_proofs`): `OnlyRefusalsStick`
(`OnlyTurnedDownRequestsStick`).  `QuietInv` adds to `ResponseInv` that a busy
sub-session works on a request of its own key whose response is under way or was
a refusal, and that only requests with a handler are rated; without the latter a
response could be dropped.

**The session table** (`SessionTable_proofs`), for lists of any length and
whatever allocation or append fails.  A count is the length of its list and the
number of sub-sessions the list could not take (`unlisted`).  `CountsMatchLists` needs that an id is listed
once, since a removal takes out one node and decrements once, and that a session
that was freed but not unhashed has an empty list (`TableInv`).
`NoObjectIsLeaked` adds that the entries of all lists are the allocated objects
but those a failed append lost (`leaked`), and differ (`ObjectsInv`).  With both, look-up, insertion and removal map to
those of `SessionMap`, or to a stutter (`TableIsAMap`).

**Rating** (`Rating_proofs`), for any number of threads and every fault.
`NoRequestIsDuplicated` needs `Apart`: the queues, the threads and the responses
hold different events, in pairs.  `NoVerdictIsMixedUp` follows from
`VerdictsMatch`, which ties the session variable of a connection to the event of
its thread.  Then each step is one of `RatingService`, or none
(`RatingKeepsThePromise`): the second query replies from the verdict on its own
event.  A missing row ends the process and with it every request under way, which
the promise allows only while a thread has a verdict to read (`LossKeepsPromise`).

**The server** (`OCS_proofs`), under every fault of either part (`freedKey` is
excluded by `OCSAssumption`): `ServerImplementsOCF`.  `ServerInv` says that the
events under way are those of requests, and that none is left when the process
ended.  A relay or a query keeps the events under way (a stutter of `OCF`) or
loses one (`ResponseLost`), a thread that misses a row ends the process
(`DatabaseFaults`, `FaultKeepsServer`), and a response that is handled takes its own event
out.

With it, theorems about `OCF` become theorems about the server, `rating` being
what the rating function and the database threads have outstanding: `Proofs` is
the instance of `OCFResponses_proofs` for this mapping, `OCSAssumption` implies the
assumption of `OCF` (`OCFAssumptionHolds`), and the two instances of `OCF` are shown
to be the same specification (`SameStart`, `SameSteps`).  This gives
`ServerKeepsTimers` and `ServerKeepsProgress` under every fault,
`ServerMatchesResponses` and `ServerAnswersOnce` when clients wait and memory is
safe (here, too, `MemoryIsSafe` excludes `uninit` and `row`), and `ServerKeepsItsGrants` when events can be sent.

`AnswersSayTheVerdict` (`AnswersFollowTheVerdict`) holds when verdicts can be read
(`VerdictsAreRead` excludes `select`) and whatever else fails, with any clients.
`VerdictInv` follows a verdict from the query to the answer: an event is in one
place (`EventsAreApart`) and the only one of its request (`EventsAreAskedFor`); its
verdict is open while it waits, in the connection while a thread works, and what
its response says afterwards; and a request an answer was made of is not under
way, so that its verdict does not change any more (`AnswersAreDue`).  A response
that answers another request still carries the verdict on its own, which is why
no assumption on clients is needed.  When clients wait, the answer is made of its
own rating (`ServerAnswersOnce`), and both together say what holds from end to end
(`AnswersSayTheirOwnVerdict`): a request is granted only if the database authorised
this very request.

**Start-up** (`Startup_proofs`), whatever fails: `RatedRequestsAreAnswerable` and
`TariffsAreGrounded`.  The first holds because the session table is made last
(`TableComesLast`: a table implies that every response is registered) and only once
(`TableIsMadeOnce`), so that no later initialisation takes it away from a request
that is rated.
The second holds because modules load before the first request
(`RunningIsLoaded`, `RatedAfterLoading`), and what a thread lacks does not change
after it took one.

**Extraction** (`Extraction_proofs`).  The extraction is five nested loops over
AVPs, here `FoldLeft`s; `TheLastValueCounts` and `ArraysTakeTheFirst` describe its
result without loops.  `ExtractionReads` says that for every message, of any
length and with groups of any depth, and for every size of strings and arrays,
the two agree: the loops compute `CCRIn(avps)`, where a field is the last number
or text of its code, a repeated group is read as one long group (`Within`), and
an array is a function of the first AVPs of its code (`UsedOf`, `ServicesOf`).

- `FoldLeft`, `FlattenSeq` and `Max` of the community modules are recursive
  functions inside; `StoredFold` and its kin, `FlattenSteps` and `SubsetRecursion`
  derive their recursion equations once.  The induction principle of the library
  takes an operator, which the provers cannot instantiate, so `SetInduction` and
  `UpTo` state it for a *set* of indices: the set of lengths up to which the
  statement holds.
- For each structure, one lemma says what reading an empty message gives
  (`...Empty`), one what one more AVP changes (`...Append`), one that this is what
  the loop's body does (`Stored...`), and one concludes by induction
  (`...Extracted`).  Groups that are merged need that reading two groups one after
  the other is reading their concatenation (`...Concat`).

**Contents** (`Charging_proofs`): `ChargingIsOCF` and the eight invariants of
`charging_contents`.  `ChargingAssumption` is what they assume: the AVPs of a
request are well formed and those of an unsigned type are not negative (the
Diameter stack parses them), requests are credit-control requests, a price
response is always a success (`db_module/ocsdb.c:189-254` returns nothing else),
clients wait, memory is safe and no row is missing.  Of the sets of AVPs that may
be missing (`Losses`) nothing is assumed.  `ChargingIsOCF` carries `ResponseInv` over from
`OCF`.  `ContentInv` is inductive with it:

- `RequestsAreTheirAVPs`: what `OCF` knows of a request is what its AVPs say;
- `RatingsAreAsked`: an outstanding rating request was made of the AVPs of its own
  request;
- `AnswersSayWell`: a request has at most one answer, and one that a response led
  to says what one of the granting, or of the refusing handlers fills in for this
  request and a response to its own rating request (`Says`).

An answer belongs to its own request only because a response finds its own
request (`ResponseFindsItsRequest`), the CCR is still there (`RatedRequestsAreHeld`)
and the sub-session charges as its opener's service does
(`SubSessionsHaveOpeners`).  `LastValueIsExtracted`, `FirstOnesAreExtracted` and
`KeysAreDistinct` then follow from `ExtractionReads`.  For the others an answer is
read back: each part of it has a code of its own, so that reading a code gives
the field it was made of or nothing, and the field if nothing is missing
(`AnswerReads`), and the kinds of answers are compared
with what was asked and returned (`AnswersEcho`, `RatedServiceIsAnswered`,
`GrantsAreReadAsMeant`, `EventsAreAnswered`, `RefusalsAreEmpty`).

**Only model-checked:** liveness (`EveryRequestSettles`, `OpenSessionsEnd`,
`EveryRequestIsRated`, `LoadedServersAnswer`), which is out of the prover's reach,
and the two properties that fail.

## 5. What is not modelled

- AMPS, libdiameter and libxml2: third-party, in the repository as headers and
  binaries.  What the server uses of them is modelled as external (section 2).
  About three quarters of the lines under `src/src` and `src/include` are these
  headers.  Of the functions of the server itself the modules leave out only what
  is named below.
- The header of a message, Origin-Host, Origin-Realm, unparsed AVPs, user names
  and other fields that are copied and then not used for an answer.
- The declarations of `ocs_defines.h` that no function uses (redirection,
  envelopes, AF correlation, tariff switches), and the dictionary, which configures
  the Diameter library.
- `RatingFunc_ProcessRequest` and `RatingFunc_ProcessServiceUsageRequest`: no
  module sends the events they are registered for.
- The text of the SQL queries: the database decides, and a verdict and a quota
  are all the server sees.
- A freed session object whose memory another session was given (section 2).
- The columns of a result row that no handler reads.
- The console's output and the dump functions.

## 6. Plan

Every part of the server's own code with a state or a decision is modelled.  What
is left, in this order:

1. `Charging` with clients that reopen at any time, where an answer may be made of
   another request's `asked`.
2. Sessions of a response whose registration failed (`Startup`) that end by their
   timer: a product of `Startup` with `OCF`.
