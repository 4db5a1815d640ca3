# A verification development of the Northstar agent

TLA+ modules, TLC runs and TLAPS proofs for the FastAPI service under `src/app`:
a chat agent that qualifies property leads, books site visits, and keeps one
in-memory session per conversation. `PROJECT.json` is the machine-readable side of
this page: components, runs, mutants, hazards, theorems, and the map from every
definition to the source lines it models.

## 1. Inventory

### 1.1 Components

| Component (source) | State it keeps | Operations | What makes it correct |
|---|---|---|---|
| Session store (`infrastructure/memory.py`) | `_sessions`, `_session_locks`, an index lock, one `asyncio.Lock` per session | `create`, `get`, `transaction`, `delete`, `count`, `_purge_expired_unlocked` | one body at a time per session, no lost update, an expired session is found by nobody who comes later, locks bounded by the capacity, no request stuck |
| Booking tool (`services/booking.py`) | `_booked`: slot -> (session, reference), the fixed set of unavailable slots | `book`, `_failure_reason`, `_alternatives` | a slot has one owner for ever; a retry returns the same reference; only visit slots are booked; what is offered can be had |
| Agent service (`services/agent.py`) | none of its own: it edits the working copy of a session inside a store transaction | `create_session`, `chat` (stop request, provider, guard, lead updates, actions, transcript, interest level), `analytics`, `delete_session` | a session tells one story; sessions, calendar and counters agree; nothing is made up about a lead, and nothing untrue is told to a customer; an ended conversation stays ended |
| Response guard (`services/guardrails.py`) | none | `enforce`, `_money_allowed` | a reply that claims a visit, unsupported facts or an amount nobody confirmed takes no action and is replaced |
| Domain model (`domain/models.py`), stop recognition (`domain/safety.py`) | none | enumerations, validators, one regular expression | see the agent |
| Routes, error mapping, wiring (`api/routes.py`, `main.py`, `container.py`) | none | one endpoint per service operation | each endpoint is one of the agent's actions |
| Remote provider client (`infrastructure/llm.py`) and the fallback in `_provider_turn` | the loop counter of a call; error and fallback counters | `generate_turn` with retries and back-off | only transient failures are repeated, nobody gives up early, every turn ends |
| Demo provider (`infrastructure/demo_provider.py`) | none | `generate_turn`: a decision chain over what is found in the message; dates and times resolved against the clock | every turn is one the guard passes and the service can handle; a customer gets the time the customer asked for |
| Lead analytics (`services/analytics.py`) | none | score, completeness and interest level of one session | the score falls only for a reason; the level kept with a session is up to date |
| Rate limiter and request middlewares (`core/middleware.py`) | `_events`: per address, a deque of admission times | `dispatch` of three middlewares | no window sees too many admissions; refused only when full; Retry-After is honest |
| Metrics (`core/metrics.py`) | counters, a deque of at most 2000 latencies | `increment`, `observe_latency`, `snapshot` | every request is counted once; percentiles agree with the samples, up to the rounding they are reported with |
| Browser client (`static/app.js`) | session id, ended, busy (and what it awaits), the message list, the analytics dialog | start, send, new chat, analytics, reload | an answer is shown below its own message; the form comes back; the end of a conversation is heard of; no session is left behind without a mishap |
| Prompt, settings, logging, evaluation, tests, packaging | - | - | not modelled: text, constants read at start, or no part of the running service |

### 1.2 How they interact

A request passes `RequestContextMiddleware` (outermost), the body-size check, the
rate limiter, Starlette's host and CORS middlewares, and reaches a route. The route
calls the agent service. A chat opens a store transaction: check under the index lock
that the session exists and is young enough, look up its lock, wait for the lock, read
the session again, copy it, run the body, write the copy back, release. The body of an
open conversation awaits the provider, then guards the answer, updates the lead, may
call the booking tool, and ends. Everything is shared memory of one process on one
event loop; a restart loses all of it. The page in the browser calls the routes over a
network; one guarded function at a time awaits an answer, analytics are not guarded, and
a call whose fetch failed may still be served.

### 1.3 Where control can change hands

There is one asyncio loop, so a stretch of code without a real suspension is atomic:

- the section under the store's index lock and the one under the booking lock never
  suspend, so these locks are never contended and each section is part of one step;
- `async with lock` of a session suspends only when the lock is held or has waiters;
  `asyncio.Lock` queues first in, first out, and does not let newcomers barge in;
- the remote provider suspends at each HTTP call and at each back-off sleep. The demo
  provider suspends nowhere: its runs are a subset of the modelled behaviours;
- after the provider's answer, guard, updates, booking, write-back and release run
  without suspension and are one action (`FinishTurn`);
- `create_session` (create, then add the greeting) suspends nowhere: one action;
- a closed conversation, or a stop request, never reaches the provider; such a chat
  runs in the very step that gets the lock (and still refreshes `updated_at`).

### 1.4 Hard behaviours

`PROJECT.json` lists each hazard at its line, with the properties that cover it or the
reason why none does. The main groups: deletes and purges under a running turn, checks
made before a wait and used after it (age of the session, status of the conversation),
requests that queue behind a slow provider, failures after the lead was updated, retries
of a booking, single comparisons at the edges of the calendar and
of the rate window, the last attempt of the retry loop, long sequences of turns that
leave flags of an earlier turn behind, copies that must follow what they are copied from
(the interest level, the transcript's cut), midnight, and answers that are lost or late
on their way to the page.

## 2. Modules

```
AtomicStore <== SessionStore <------------- AgentService ==> BookingContract
  (abstract)     (memory.py)                  | (agent.py)      (abstract)
                                              v                     ^
Domain <- LeadRules <- LeadAnalytics <- Conversation <- DemoProvider|
   ^          ^                           |                         |
   |          +------- CustomerText <-----+                         |
   +- BookingRules <------+                                         |
            ^---------- BookingService =============================+
RateLimiter <= RequestPipeline        ProviderClient        BrowserClient
     "<-" EXTENDS     "<==", "==>" implements (refinement)   "<=" both
```

| Module | Models | State and actions, against the code |
|---|---|---|
| `Domain` | enumerations of `models.py` | - |
| `AtomicStore` | what the store promises: a map changed by atomic transactions | `Create`, `Update`, `Remove`, and `Reinstate`, which names the one thing that weakens the promise: a session removed under a running turn may come back |
| `SessionStore` | `memory.py` | `sessions` = `_sessions`, `lockKeys` = keys of `_session_locks`, `holder`/`waiters` = the session locks, `pc`/`target`/`working` = the suspended requests; `Create`, `CreateRefused`, `Get`, `Delete`, `Count`, and for a transaction `Begin...` (index-lock section, and the acquisition if the lock is free), `Wake...` (after a wait), `Commit`, `Abort` |
| `SessionAge` | the age check of `transaction` against what comes after it | `SessionStore` with a history variable, `since`: when each request looked its session up |
| `BookingRules` | the pure part of `booking.py` | `SlotKey`, validation, `Alternatives`, `Outcome` (the answer) and `Booking` (the claim); instants are seconds of a local calendar in which day 0 is a Monday |
| `BookingContract` | what the tool promises | a free slot may be claimed, a claim never changes |
| `BookingService` | the tool on its own, any caller | `Book`, time passing |
| `LeadRules` | the checks and updates of a lead in `agent.py` | `SafeUpdates`, `ApplyUpdates`, `Noted` |
| `LeadAnalytics` | `analytics.py` | pure operators: `Completeness`, `LeadScore`, `Interest` |
| `CustomerText` | what the patterns find in a message, and what `_extract_date` and `_extract_time` make of it | `Message`, `SaidDay`, `SaidTime`, `NamedAt` |
| `Conversation` | one session and one turn: `chat`, `_execute_booking`, `enforce` | pure operators: `Stopped`, `Guarded` (with the money rule), `Learned`, `AfterAction`, `Said` (what the reply claims in the end), `Recorded` (transcript and interest level), `Coherent`, `Honest` |
| `DemoProvider` | the local provider | `Intent`, the first branch of `_respond` that matches; `DemoTurn`, the turn it answers |
| `AgentService` | every request on sessions, any number at once | the store's actions, strengthened with what a chat does: `ChatRefused/Waits/Closed/Stops/Asks`, `WokenMissing/Closed/Stops/Asks`, `ProviderAnswers`, `FallbackAnswers`, `TurnFails`, and the sessions endpoints |
| `RateLimiter` | the sliding window | `Admit`, `Refuse`; time in ticks, so that Retry-After's rounding to seconds is modelled |
| `RequestPipeline` | the three middlewares and the metrics | `Arrive`, `RefuseBody`, `PassHealth`, `PassLimiter`, `RefuseRate`, `Handle`, `Answer`; `Percentile` and `Largest` are what a snapshot reports, rounded by `Reported` |
| `ProviderClient` | `OpenAICompatibleProvider.generate_turn` and `_provider_turn` | `Ask`, `Meet`, `Retry`, `PauseEnds`, `Answer`, `Break`, `Unavailable`, `FallBack` |
| `BrowserClient` | the page, the network, and the service as the page sees it | `sessionId`, `ended`, `doing` (what the busy function awaits), `shown` (the message list), `dialog`; `calls` = what is on its way or at the service. `NewChat`, `SendMessage`, `AnswerArrives`, `FetchFails`, `OpenAnalytics`, `AnalyticsArrive`, `CloseDialog`, `DialogNewChat`, `Reload`, `CallLost`; of the service `CreateSession`, `DeleteSession`, `GetAnalytics`, a chat in its three steps `AdmitChat`, `BeginChat`, `FinishChat`, `Refuse`, `Expire` |
| `MC...` | instances for TLC | sets of model values, messages, turns, instants |
| `...Proofs` | theorems, one module per component | - |

Composition. `AgentService` extends `SessionStore` and `DemoProvider` (and with it
`Conversation`); each of its actions is a store action conjoined with its effect on
calendar, counter and history, and `AgentImplementsStore` proves that nothing is lost:
whatever is proved of the store holds of the agent. The fallback is no free choice: it is
`DemoTurn` of the message, the lead and the clock. `ProviderClient` shows what
`AgentService` takes as one await: every call ends, as the provider's turn
(`ProviderAnswers`), the fallback's (`FallbackAnswers`), or an error (`TurnFails`).
`RequestPipeline` extends `RateLimiter` and implements it (`PipelineImplementsLimiter`).
`BrowserClient` keeps of a conversation only whether it is open; its service behaves like
the store: removal takes the lock along, a waiting chat looks again, a running one is
written back after a removal, and a session without a lock answers every chat with an
error (finding 1, seen from the page).

A latency is a number of ticks, and a report a number of steps of the precision it is
given with (hundredths of a millisecond in the code), half a step to the even one. In the
code the last bit of a float decides on which side of the half such a sample lies;
`SnapshotIsOrdered` leaves room for both.

Definitions named like another one with a suffix and commented "Mutant of" are not
part of the models: they are the bugs each property is tested against.

### What the data became

A message is what the service finds in it: whether it matches the stop pattern, which
values of which fields and which amounts it literally mentions, the text kept as a
question; and for the demo provider the patterns that match, the lead it extracts, the
day ("tomorrow", a weekday, a date) and the time of day as spoken. A reply is the set of
its claims: a booked visit, something unsupported, amounts of money, and which of the
words the guard looks for stand by. Left out because no transition reads them: wording,
language, channel.
`TurnFails` may happen at any provider call, fallback or not: a provider that stays
unavailable without a fallback, a response that breaks the client (`usage: null`), a
fallback that breaks (a budget over a thousand crore does not fit `LeadUpdates`), or a
follow-up time without a zone, whose comparison with the clock raises `TypeError`.
In each case the session is not written back and its lock is released.

## 3. What TLC checks

| Run | Module | Shows | Bounds |
|---|---|---|---|
| `store_safety` | `MCSessionStore` | the store's type invariant, `MutualExclusion`, `WorkingCopyCurrent`, `QueueExact`, `LocksWithinCapacity`, `OrphanFrozen`, `ExpiredServesEarlierOnly`, and the refinement of `AtomicStore` | 3 handlers, 2 ids, capacity 1, lifetime 1, 4 instants, contents are sequences of at most 2 turns |
| `store_removed` | `MCSessionStore` | expected violation, finding 1 | 2 handlers, 1 session |
| `booking` | `MCBookingService` | `OnlyVisitSlotsBooked`, `AnswerMatchesBooking`, `AlternativesAreNext` (valid, in order, none skipped), the refinement of `BookingContract` | 2 sessions, 2 references, 11 requests on every edge of the calendar, 3 instants |
| `agent_booking` | `MCAgentService` | `AskedFor`, `BookedVisitIsClaimed`, `ClaimsAreShown`, `SuccessesCounted` | 2 overlapping chats on 2 sessions answered by the demo provider around midnight, deletes and expiry; visits "tomorrow" and "on Tuesday", callbacks; the transcript is cut to 1 entry |
| `agent_lifecycle` | same, `AgentFairSpec` | `StoredCoherent`, `NothingMadeUp`, `TranscriptHonest`, `InterestIsCurrent`, `ProviderAskedWhenOpen`, `StopIsHeeded`, `EndedStaysEnded`, `FactsNeverErased`, `ScoreFallsForAReason`, and the liveness properties `StopTakesEffect`, `EveryTransactionEnds` | 2 overlapping chats on 1 session, 17 kinds of provider turn and the fallback, transcripts of 3 entries |
| `rate_limiter` | `MCRateLimiter` | `WindowRespected`, `RefusedOnlyWhenFull`, `RetryAfterIsEnough` | 2 addresses, 2 requests per 3 s of 4 ticks, 8 instants |
| `pipeline` | `MCRequestPipeline` | `RequestsAccounted`, `SnapshotIsOrdered` | 4 requests, 2 at a time, 1 admitted per second, 3 samples kept, reported in 3 steps to 4 ticks |
| `provider_client` | `MCProviderClient` | `OutcomeExplained`, `BackoffDoubles`, `EveryTurnEnds` | 2 callers, 2 retries, at most 3 counted errors, fallback on or off |
| `browser` | `MCBrowserClient` | `AnswersInPlace`, `EndedIsTrue`, `EndedIsTold`, `OrphansNeedAMishap`, `EveryCallSettles` | 5 calls, 2 mishaps (failed fetch, refused delete, reload), 3 sessions |
| `agent_stop` | `MCAgentService` | expected violation, finding 2 | as `agent_lifecycle`, without the fallback |
| `agent_reason` | `MCAgentService` | expected violation, finding 3 | as `agent_lifecycle`, without the fallback |
| `agent_callback` | `MCAgentService` | expected violation, finding 4 | 1 session, demo provider, a customer who is busy and one who names a time |

The one type invariant among the runs is the store's. Those of the agent, the limiter,
the pipeline and the page are theorems or parts of the inductive invariants; for the rest
a value out of its type would show in the properties above.

Deadlock is checked in all runs but `browser`, where the customer may stop for good; where
another bounded model comes to rest (all requests answered, all errors used up) an explicit
`Rest` action says so.

Why the bounds are enough to mean something:

- three handlers are the least that give a holder, a head of the queue and somebody
  behind it; with capacity 1 and two ids, `Create` meets a full store, an expired one,
  and a store whose only session was removed under a running turn; lifetime 1 over four
  instants lets a session expire before, during and after a wait, with deletes, purges
  and write-backs in between;
- contents that are sequences of turns make a lost update visible: the write-back
  would not extend what it replaces;
- the booking requests sit on the second before, at and after each comparison in the
  code: the present, the half hour, lunch, closing, Saturday evening, Sunday, midnight,
  an unavailable slot, a date beyond the horizon of the alternatives;
- two chats on one session overlap in every order of wait, answer, stop request and
  delete; the liveness properties are checked with these two only, since a third handler
  adds positions in a queue that `QueueExact` describes for any number;
- `agent_lifecycle`'s three instants put the slot's start between them, and the session
  lifetime between the second and third, so a slot can pass, and a session expire,
  while a chat waits for its lock or for the provider;
- the limiter's instants leave every remainder of a second to be rounded, halves to
  both sides included, and hit the exact end of a window;
- three samples are the least with one strictly between the others, so that half of them
  on either side is not true of any choice, and the fourth request makes the oldest fall
  out; 0 to 4 ticks are reported as 0, 1, 2, 2, 3 steps: exact, rounded up, rounded down,
  and from half way;
- `agent_booking` starts in the last minute of a Monday: "tomorrow" means Tuesday, then
  Wednesday, "Tuesday" means the next day and then the day a week later, between a
  message and its answer; a transcript of one entry makes every cut happen;
- five calls are a creation, a message, a second one or a deletion, and what a repeated
  start makes of it; two mishaps combine a lost answer with a refused delete or a reload,
  and three sessions are as many as such a page can have created and still lose;
- MaxRetries 2 is the value the repository configures.

Symmetry is used over interchangeable handlers, sessions and addresses, only in runs
without liveness.

### Fairness

- Store: weak fairness of `Wake` (the loop runs a task whose future is set) and of
  `End` per task and session. `End` rests on the bodies ending: a body suspends only at
  the provider, which is what the next two say.
- Agent: weak fairness of `ChatGoesOn` and of `TurnFails`. The latter does not say that
  turns must fail: `TurnFails` is enabled as long as a turn awaits its provider, and
  fairness only forbids that it waits for ever. A call has a bounded number of attempts,
  each with a timeout, at the end of which it fails; an answer that comes before that ends
  the turn as well and disables `TurnFails`. Fairness of `TurnEnds` would say the same and
  costs TLC more.
- Provider: weak fairness of `Meet`, per attempt, and of `Proceed`. An attempt ends by
  a response or by httpx's timeout. That timeout bounds each connect, read or write, not
  the whole call, so a server that trickles bytes for ever would escape it; the
  assumption is that none does. Fairness of `Ask` is not assumed: nobody has to chat.

- Browser: weak fairness of serving each call, which rests on `EveryTransactionEnds` and
  the event loop, and of `AnswerArrives`: an answer is delivered, or its fetch fails.
  Fairness of the customer's actions is not assumed.

No request is ever assumed to be made, and time is never assumed to pass. Cancellation
of a handler is not modelled: no code of the repository cancels one. Inside a body its
effect would be that of `TurnFails` (nothing written, lock released); while a task is
queued it would leave the queue, which no action here does.

## 4. What is proved

TLAPS checks the following for every value of the constants that satisfies the named
assumptions (any number of sessions, tasks, references, messages and turns; any clock).

| Module | Theorems | Argument |
|---|---|---|
| `SessionStoreProofs` | `StoreTypeCorrect`, `StoreMutualExclusion`, `StoreWorkingCopyCurrent` | `StoreInv` is inductive: beyond the type it says that stored ids were issued (so no `create` can overwrite a session in use), that a suspended task knows its session, and that a held lock belongs to a task inside a body. Without the last one mutual exclusion is not inductive: a stale holder could be replaced |
| | `StoreQueueExact`, `StoreLocksWithinCapacity` | each inductive with `StoreInv`; the capacity needs the finite set of ids and counts through `create` purging first |
| | `StoreOrphanFrozen` | an action property, with `StoreInv`: whoever wants to change a session without a lock fails at the lookup |
| | `StoreExpiredServesEarlierOnly` | `AgeInv`: every request under way on a stored session looked it up within the lifetime of its last write. Inductive because a write-back only makes the session younger, and a new session has an id that nobody waits for |
| | `StoreImplementsAtomicStore` | each step maps to a step of `AtomicStore` or a stutter; `WorkingCopyCurrent` makes the write-back an update of the current content |
| `BookingRulesProofs` | `OutcomeMatchesBooking` | a lemma about the pure answer: success exactly when the slot is the caller's afterwards |
| | `WalkFindsTheFirstFree` | the walk for alternatives is a recursive function; that it exists (`WalkIsDefined`: walks that are exact up to more and more steps agree) and what it returns (`InOrder`, `NoneMissed`) is shown by induction, see below |
| `BookingServiceProofs` | `BookingOnlyVisitSlots`, `BookingAnswerMatches`, `BookingImplementsContract` | `BookedInv` is inductive |
| | `BookingAlternativesAreNext` | a free slot is one the checks let through; the rest is `WalkFindsTheFirstFree` |
| `ConversationProofs` | lemmas | what a turn keeps, learns, says and may end with; what its score may do; used by the agent |
| | `SpokenWeekdayIsAhead`, `SpokenTimeIsOfTheDay`, `DemoTurnIsATurn`, `DemoIsNeverBlocked` | about pure operators, by cases on `Intent`: every branch is a turn, and what it claims is a confirmed price with the words the guard asks for |
| `AgentServiceProofs` | `AgentImplementsStore`, `AgentImplementsAtomicStore` | each agent step is a store step |
| | `AgentTypeCorrect`, `AgentStoredCoherent`, `AgentProviderAskedWhenOpen`, `AgentEndedStaysEnded` | `ConversationInv`: coherence has to hold of the working copies of running chats as well as of stored sessions, and a running chat works on an active conversation with a message that is no stop request; together with `StoreInv` it is inductive. `AgentStepKinds` reduces the actions to six kinds of step, `TurnOutcome` says what a finished turn may do |
| | `AgentStopIsHeeded` | `HeedInv`: a running turn works on a session that was answered no stop request, or a session removed under it could come back open; the lock keeps everybody else from answering one meanwhile, and an id that is not issued has no past |
| | `AgentMakesNothingUp`, `AgentTranscriptHonest`, `AgentInterestIsCurrent` | `RecordsInv`: the working copy of a running chat is a true record of what was heard, too, and what was heard only grows. A cut transcript keeps its last entry and adds none |
| | `AgentFactsNeverErased`, `AgentScoreFallsForAReason` | action properties from `TurnOutcome`: what a turn replaces is what it worked on (`FinishedTurnIsCurrent`), an open coherent conversation has neither a visit nor a follow-up nor a hand-off to lose points for, and known facts stay |
| | `AgentVisitIsClaimed`, `AgentClaimsAreShown`, `AgentSuccessesCounted`, `AgentKeepsContract` | `CalendarInv`: the calendar is finite, claims are made for issued sessions only, so that a new session never finds a claim of its own, and the session of a running chat has no claim, so that a booking turn gives it its first |
| | `AgentTimesAccounted`, `AgentAskedFor` | every time a conversation holds is one its customer named at some moment up to now, or one the remote provider chose; `AskedFor` follows where the demo provider is the only one (`ProviderTurns = {}`), which is how the service runs without an API key |
| `RequestPipelineProofs` | `LimiterWindowRespected`, `LimiterRefusesOnlyWhenFull` | the deque is an end of the history (`EndOfHistory`), what was popped is out of the window (`PoppedIsOver`), the history is ordered and spaced |
| | `LimiterRetryAfterIsEnough` | `ToldInv`: what a client was told reaches to the moment its blocker leaves the window, the rounding to seconds (halves to even) taken off by at most half a second; it stands as long as no other request of the address is admitted |
| | `PipelineAccountsRequests` | `PipelineInv`: the busy handlers are finitely many; an arrival and an answer change their number and exactly one counter by one |
| | `PipelineImplementsLimiter`, `PipelineWindowRespected` | a request under way comes from an address (`PipelineInv`), so that each step is one of the limiter's or leaves it alone |
| | `PipelineTypes`, `PipelineSnapshotIsOrdered` | `SampleInv`: a request under way arrived no later than now, so that latencies are naturals. `Sorted` puts each sample at its place, the number of samples up to it: places are a bijection of the indices (`PlacesTaken`), so that the sorted samples are in order and each of them has as many on either side as its place says. Rounding keeps the order (`ReportedKeepsOrder`) and moves a sample by half a step at most (`SidesOfAReport`) |
| `ProviderClientProofs` | `ClientOutcomeExplained` | the log of a call agrees with its attempt counter and phase |
| | `ClientBackoffDoubles` | `SleptInv`: the time slept so far is given by the number of failures; the powers of two are a recursive function (`PowersOfTwo`), shown to exist by induction |
| `BrowserClientProofs` | `PageAwaitsTheRightCall` | `CallInv`: call numbers are fresh, and what the page awaits in each of its phases is a call of that kind, about the session on the screen |
| | `PageEndedIsTrue` | `EndInv`: at most one turn runs on a session, and an answer that says "over" speaks of a session that no running turn can open again |
| | `PageEndedIsTold` | `TellInv`: a turn that may end the conversation on the screen is the one the page awaits, or one it apologised for; a session in an answer to a creation is open and nobody writes to it yet |
| | `PageAnswersInPlace` | `ScreenInv`: while a chat is awaited, the last line on the screen is its message |
| | `PageOrphansNeedAMishap` | `DebtInv`: a session is abandoned before it is an orphan (its deletion failed, a chat nobody listens to may store it again, its creation is on its way to nobody). Each abandoned session and forgotten creation is a debt, and each step adds no more debts than mishaps |

The assumptions are named where the constants are declared: sentinels are outside the
sets they mark the absence in, ids are finitely many, limits and windows are positive,
instants are natural numbers, a transcript keeps at least one entry, confirmed prices are
amounts, the demo provider's one objection is among the objections.

Induction. The library's induction theorems take an operator as a parameter, which the
installed provers cannot instantiate. What they can use is that the naturals are well
founded: `NaturalsByInduction` derives from it that a set of naturals with 0 and with the
successor of each of its elements is `Nat`, and the lemmas about recursive functions name
the set of the naturals for which they hold. Two models are written for that: the walk of
`Alternatives` is a function of one argument (a pair), and `Sorted` says of the result of
a sort where each element stands, since the provers cannot expand `SortSeq`.

Every invariant and every action property of the passing runs is proved. Only
model-checked are:

- liveness (`EveryTransactionEnds`, `StopTakesEffect`, `EveryTurnEnds`,
  `EveryCallSettles`): fairness and ENABLED are out of the prover's reach. Of
  `StopTakesEffect` the safe half is proved: once answered, a stop request is heeded for
  good (`AgentStopIsHeeded`);
- the four expected violations, which are not theorems.

## 5. Findings

1. `store_removed`. A session deleted while a turn awaits the provider is back when the
   turn commits (`memory.py:108` stores the copy unconditionally), without a lock, so
   that every later chat on it fails with `KeyError`. `docs/SECURITY.md:133`: "Deleting a
   session removes it from the current process." `OrphanFrozen` says what becomes of it.
2. `agent_stop`. A stop request to a conversation that ended with a scheduled callback
   gets the closed reply (`agent.py:298`); the callback stays. `docs/ARCHITECTURE.md:150`
   says a recognised stop message clears pending follow-up.
3. `agent_reason`. A provider that ends a conversation with the reason
   `site_visit_booked` is believed (`agent.py:392`), visit or not. `README.md:230` says
   booking and state transitions do not depend on model obedience.
4. `agent_callback`. The demo provider looks for a busy or call word in the current message
   only (`demo_provider.py:342`). It asks a busy customer for a date and time, and an
   answer that names just these is taken for an enquiry and answered with the next
   qualifying question; no callback is recorded. `docs/PRODUCT_AND_BUSINESS.md:53`: "Gives
   future callback time | Record follow-up | `follow_up_scheduled` and end".

Everything else that was stated holds. Observations that no document contradicts: claims
of deleted or expired sessions are never released; the limiter never forgets an address;
references are two random bytes per day and may repeat; analytics that arrive after a new
conversation has begun open a dialog about the old one.

## 6. Not modelled

- `scripts/run_evaluation.py`, the tests, the evaluation cases, Docker and packaging: no
  part of the running service. `core/config.py` and `core/logging.py`: constants read at
  start, and formatting. The prompt and its builder: text for the model.
- Regular expressions: what they find is data of a message or a reply, whether they find
  it is not checked. The same for phone redaction, language detection and every sentence.
- The summary of the analytics and the counts of messages; the profile panel, the channel
  switch, quick replies, toasts, HTML and CSS of the page.
- Of the error mapping in `main.py` only what the page tells apart (404 or 410, any other
  error) and the class a request is counted under.
- The counters that no property relates to anything (sessions, chat turns, follow-ups,
  hand-offs, guard interventions), security headers, request ids.
- Cancellation of handlers, see Fairness; restarts, which lose all state at once.

## 7. Plan

Done, in this order: `AtomicStore` and `SessionStore`; `BookingRules`, `BookingContract`,
`BookingService`; `LeadRules`, `Conversation`, `AgentService`; `RateLimiter` and
`RequestPipeline`; `ProviderClient`; `LeadAnalytics`, transcript and interest level inside
`Conversation`; `CustomerText` and `DemoProvider`, in place of a free set of fallback turns;
`BrowserClient`. Each has its proofs, and every safety property of the runs a theorem.

Next: what the proofs made visible as reasons of correctness and no run states yet, such
as a bound on the sessions that come back after their removal, and the type invariants of
the booking tool and the provider client as theorems of their own.
