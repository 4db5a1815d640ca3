---------------------------- MODULE AgentService ----------------------------
(***************************************************************************)
(* The agent service (app/services/agent.py) on top of the session store   *)
(* and the booking tool: every request that touches a session, from any    *)
(* number of handlers at once.                                             *)
(*                                                                         *)
(* A chat waits in two places only: for the lock of its session, and for   *)
(* the remote model provider.  Everything after the provider's answer, the *)
(* guard, the updates of the lead, the booking, the write-back and the     *)
(* release of the lock, is one step.  A message to a closed conversation   *)
(* and a recognised stop request do not reach the provider: they run in    *)
(* the very step that gets the lock.                                       *)
(***************************************************************************)
EXTENDS DemoProvider, SessionStore

CONSTANTS Messages,        \* what customers may write
          ProviderTurns,   \* what the remote provider may answer
          FallbackEnabled  \* whether the demo provider answers when it fails

ASSUME MessagesAssumption == Messages \subseteq Message /\ None \notin Messages
ASSUME TurnsAssumption ==
    /\ ProviderTurns \subseteq Turn
    /\ FallbackEnabled \in BOOLEAN

VARIABLES
    booked,        \* _booked of the booking tool
    message,       \* message[t]: what the chat of task t was called with
    succeeded,     \* the counter bookings_succeeded_total
    heard          \* heard[s]: the messages of s answered so far (a history)

agentVars == <<booked, message, succeeded, heard>>
allVars == <<vars, agentVars>>

Claim == [session : SessionIds, reference : References]

AgentTypeOK ==
    /\ TypeOK
    /\ \A s \in Present : sessions[s].content \in Conversation
    /\ \A k \in DOMAIN booked : k \in Nat /\ booked[k] \in Claim
    /\ message \in [Tasks -> Messages \cup {None}]
    /\ succeeded \in Nat
    /\ heard \in [SessionIds -> SUBSET Messages]

AgentInit ==
    /\ Init
    /\ booked = [k \in {} |-> k]
    /\ message = [t \in Tasks |-> None]
    /\ succeeded = 0
    /\ heard = [s \in SessionIds |-> {}]

-----------------------------------------------------------------------------
(* Requests that are one step: the sessions endpoints and the metrics.     *)

CreateSession(s) == Create(s, NewConversation) /\ UNCHANGED agentVars

CreateSessionRefused == CreateRefused /\ UNCHANGED agentVars

CountSessions == Count /\ UNCHANGED agentVars

Analytics(s) == Get(s) /\ UNCHANGED agentVars

DeleteSession(s) == Delete(s) /\ UNCHANGED agentVars

Later == Tick /\ UNCHANGED agentVars

-----------------------------------------------------------------------------
(* A chat.                                                                 *)

Content(s) == sessions[s].content

Open(s) == sessions[s] # Absent /\ Active(Content(s))

Closed(s) == sessions[s] # Absent /\ ~Active(Content(s))

Answered(s, m) == heard' = [heard EXCEPT ![s] = @ \cup {m}]

Remember(t, m) == message' = [message EXCEPT ![t] = m]

(* What a stop request makes of an open conversation: the reply is fixed.  *)
StoppedTurn(conv) == Recorded(Stopped(conv), {})

ChatRefused(t, s) == BeginRefused(t, s) /\ UNCHANGED agentVars

ChatWaits(t, s, m) ==
    /\ BeginWait(t, s)
    /\ Remember(t, m)
    /\ UNCHANGED <<booked, succeeded, heard>>

(* The conversation has ended: a fixed reply, whatever the message says.   *)
ChatClosed(t, s, m) ==
    /\ Closed(s)
    /\ BeginThrough(t, s, Content(s))
    /\ Answered(s, m)
    /\ UNCHANGED <<booked, message, succeeded>>

ChatStops(t, s, m) ==
    /\ Open(s)
    /\ m.stop
    /\ BeginThrough(t, s, StoppedTurn(Content(s)))
    /\ Answered(s, m)
    /\ UNCHANGED <<booked, message, succeeded>>

ChatAsks(t, s, m) ==
    /\ Open(s)
    /\ ~m.stop
    /\ BeginAcquire(t, s)
    /\ Remember(t, m)
    /\ UNCHANGED <<booked, succeeded, heard>>

(* The outcomes of a chat that waited for the lock.                        *)

WokenMissing(t, s) ==
    /\ WakeMissing(t, s)
    /\ Remember(t, None)
    /\ UNCHANGED <<booked, succeeded, heard>>

WokenClosed(t, s) ==
    /\ Closed(s)
    /\ WakeThrough(t, s, Content(s))
    /\ Answered(s, message[t])
    /\ Remember(t, None)
    /\ UNCHANGED <<booked, succeeded>>

WokenStops(t, s) ==
    /\ Open(s)
    /\ WakeThrough(t, s, StoppedTurn(Content(s)))
    /\ message[t].stop
    /\ Answered(s, message[t])
    /\ Remember(t, None)
    /\ UNCHANGED <<booked, succeeded>>

(* Mutant of WokenAsks: nothing is checked again after the wait. *)
WokenAsksUnchecked(t, s) ==
    /\ WakeAcquire(t, s)
    /\ UNCHANGED agentVars

WokenAsks(t, s) ==
    /\ Open(s)
    /\ WakeAcquire(t, s)
    /\ ~message[t].stop
    /\ UNCHANGED agentVars

(* The rest of a turn, once the guard has passed it: reference is what the *)
(* booking tool would draw.                                                *)
HandleTurn(t, s, turn, reference) ==
    \E result \in {Outcome(booked, clock, s, turn.slot, reference)} :
    \E learned \in {Learned(working[t], turn, message[t])} :
    \E after \in {AfterAction(learned, turn, clock, result)} :
    \E conv \in {Recorded(after, Said(turn, clock, result))} :
        /\ Commit(t, s, conv)
        /\ IF turn.action = "book_site_visit"
              THEN /\ booked' = Booking(booked, clock, s, turn.slot, reference)
                   /\ succeeded' = IF result.success THEN succeeded + 1
                                                     ELSE succeeded
              ELSE UNCHANGED <<booked, succeeded>>

(* The provider's answer, and the rest of the turn. *)
FinishTurn(t, s, answer) ==
    /\ pc[t] = "inside"
    /\ \E turn \in {Guarded(answer, message[t], working[t])},
          reference \in References :
           ~Raises(turn) /\ HandleTurn(t, s, turn, reference)
    /\ Answered(s, message[t])
    /\ Remember(t, None)

ProviderAnswers(t, s) ==
    \E answer \in ProviderTurns : FinishTurn(t, s, answer)

(* The remote provider failed for good and the local one answers at once.  *)
(* Without a remote provider, the local one is the only provider.          *)
FallbackAnswers(t, s) ==
    /\ FallbackEnabled
    /\ FinishTurn(t, s, DemoTurn(message[t], working[t].lead, clock))

(* The turn raises: the provider is unavailable and there is no fallback,  *)
(* the client or the fallback breaks (ProviderClient tells the cases), or  *)
(* the code that handles the answer does (Raises).                         *)
TurnFails(t, s) ==
    /\ Abort(t, s)
    /\ Remember(t, None)
    /\ UNCHANGED <<booked, succeeded, heard>>

SessionRequest(s) == CreateSession(s) \/ Analytics(s) \/ DeleteSession(s)

Chat(t, s) ==
    \/ ChatRefused(t, s)
    \/ \E m \in Messages : \/ ChatWaits(t, s, m) \/ ChatClosed(t, s, m)
                           \/ ChatStops(t, s, m) \/ ChatAsks(t, s, m)

ChatGoesOn(t, s) ==
    \/ WokenMissing(t, s) \/ WokenClosed(t, s)
    \/ WokenStops(t, s) \/ WokenAsks(t, s)

TurnEnds(t, s) ==
    ProviderAnswers(t, s) \/ FallbackAnswers(t, s) \/ TurnFails(t, s)

AgentNext ==
    \/ CreateSessionRefused
    \/ CountSessions
    \/ Later
    \/ \E s \in SessionIds : SessionRequest(s)
    \/ \E t \in Tasks, s \in SessionIds :
           Chat(t, s) \/ ChatGoesOn(t, s) \/ TurnEnds(t, s)

AgentSpec == AgentInit /\ [][AgentNext]_allVars

(* The loop runs ready tasks, and a provider call that does not answer     *)
(* times out: a turn fails at the latest when its bounded number of        *)
(* attempts is used up, and every other end of it comes before that.       *)
AgentFairness ==
    \A t \in Tasks, s \in SessionIds :
        WF_allVars(ChatGoesOn(t, s)) /\ WF_allVars(TurnFails(t, s))

AgentFairSpec == AgentSpec /\ AgentFairness

-----------------------------------------------------------------------------
(* Properties.                                                             *)

(* Every stored conversation tells one story: its status, its end reason,  *)
(* the do-not-contact flag, the follow-up, the escalation and the visit    *)
(* agree, whatever turns the provider made and in whatever order requests, *)
(* stop messages and failed turns reached it.                              *)
StoredCoherent == \A s \in Present : Coherent(Content(s))

(* A conversation never tells its customer of a visit that is not in the   *)
(* calendar: a booked visit is a claim of that very session, under the     *)
(* reference the session shows, at the time it shows.                      *)
BookedVisitIsClaimed ==
    \A s \in Present :
        Content(s).visit = "booked" =>
            /\ OwnedBy(booked, s, Content(s).visitAt)
            /\ booked[SlotKey(Content(s).visitAt)].reference = Content(s).reference

(* And the other way round: a claim in the calendar is shown by the session *)
(* that owns it as long as that session exists, and no session owns two    *)
(* slots.  A turn that fails, or a turn that overlaps another one or a     *)
(* deletion, leaves no half booking behind.                                *)
ClaimsAreShown ==
    /\ \A k \in DOMAIN booked :
           LET s == booked[k].session IN
           s \in Present =>
               Content(s).visit = "booked" /\ SlotKey(Content(s).visitAt) = k
    /\ \A j, k \in DOMAIN booked : booked[j].session = booked[k].session => j = k

(* The counter of successful bookings counts the claims of the calendar:   *)
(* no booking is counted twice and none is missed.                         *)
SuccessesCounted == succeeded = Cardinality(DOMAIN booked)

(* Nothing is made up about a lead: a phone number, a configuration or a   *)
(* budget in a profile was mentioned in a message this session was sent.   *)
NothingMadeUp == \A s \in Present : Supported(Content(s), heard[s])

(* What the replies in a transcript claim is true of the conversation: no  *)
(* unconfirmed fact, no amount of money but a confirmed price or one that  *)
(* the customer named, no booked visit unless there is one, and then the   *)
(* confirmation is the last word, never cut off nor followed by another.   *)
TranscriptHonest == \A s \in Present : Honest(Content(s), heard[s])

(* The interest level kept with a session is the one its facts and its     *)
(* outcome give: no turn ends without bringing it up to date.              *)
InterestIsCurrent ==
    \A s \in Present : Content(s).interest = Interest(Content(s))

(* The provider is only ever asked about an open conversation, and for a   *)
(* message that is no stop request.                                        *)
ProviderAskedWhenOpen ==
    \A t \in Tasks :
        pc[t] = "inside" => Active(working[t]) /\ ~message[t].stop

(* A conversation that has ended stays as it is, until it is removed: no   *)
(* overlapping turn, no late answer of the provider changes its outcome.   *)
EndedStaysEnded ==
    [][\A s \in SessionIds :
           Closed(s) /\ sessions'[s] # Absent
               => sessions'[s].content = Content(s)]_allVars

(* What is known of a lead is added to or replaced, never erased: not by a *)
(* turn that does not mention it, and not by a turn that began before it   *)
(* was learned.                                                            *)
FactsNeverErased ==
    [][\A s \in Present, f \in Fields :
           Content(s).lead[f] # None /\ sessions'[s] # Absent
               => sessions'[s].content.lead[f] # None]_allVars

(* The score of a lead falls only for a new objection, or because the      *)
(* customer asked not to be contacted or is not interested; and what the   *)
(* analytics report as known is never less than before.                    *)
ScoreFallsForAReason ==
    [][\A s \in Present :
           LET before == Content(s)
               after == sessions'[s].content
           IN  sessions'[s] # Absent =>
                   /\ \/ LeadScore(after) >= LeadScore(before)
                      \/ Len(after.objections) > Len(before.objections)
                      \/ Disqualified(after)
                   /\ Completeness(after) >= Completeness(before)]_allVars

(* A stop request that waits behind another turn takes effect: in the end  *)
(* the conversation is closed, or it is gone.                              *)
StopTakesEffect ==
    \A t \in Tasks, s \in SessionIds :
        (pc[t] = "waiting" /\ target[t] = s /\ message[t].stop) ~> ~Open(s)

(* Whoever was answered a stop request is left alone from then on: no turn *)
(* that began before it, no late answer and no write-back of a removed     *)
(* session opens the conversation again.                                   *)
HeardAStop(s) == \E m \in heard[s] : m.stop

StopIsHeeded == \A s \in Present : HeardAStop(s) => ~Open(s)

(* With the demo provider a customer gets the time the customer asked for: *)
(* a booked visit and a callback are at an instant which a message to this *)
(* very session named, read at some moment up to now.                      *)
AskedFor ==
    \A s \in Present :
        \A at \in {Content(s).visitAt, Content(s).followUpAt} \ {None} :
            \E m \in heard[s], now \in Instants : now <= clock /\ NamedAt(m, now) = at

(* The calendar, seen through the agent, keeps the booking contract.       *)
NamedInstants ==
    {NamedAt(m, now) : m \in Messages, now \in Instants} \ {None}

AskedSlots ==
    {SlotKey(i) : i \in NamedInstants
                        \cup ({turn.slot : turn \in ProviderTurns} \ {Malformed})}

Contract == INSTANCE BookingContract WITH
                claims <- booked, Sessions <- SessionIds,
                Slots <- AskedSlots

ImplementsContract == Contract!Spec

(* What the documentation says of a stop request, at every step of the     *)
(* conversation: it clears a pending follow-up.                            *)
StopClearsFollowUp ==
    \A s \in Present :
        (\E m \in heard[s] : m.stop) => ~Content(s).followUp

(* What the documentation says of bookings: whether a visit was booked     *)
(* does not depend on the model's obedience.  A conversation that ended    *)
(* with the reason site_visit_booked has a booked visit.                   *)
BookedReasonIsEarned ==
    \A s \in Present :
        Content(s).endReason = "site_visit_booked" => Content(s).visit = "booked"

(* What the documentation says of a customer who was asked for a callback  *)
(* time: "Gives future callback time | Record follow-up | end".  A message *)
(* that names a future time after such a question schedules the callback.  *)
AsksCallback(m) == Intent(m) = "callback" /\ NamedAt(m, clock) = None

CallbackTimeRecorded ==
    [][\A s \in SessionIds, m \in Messages :
           (/\ Open(s) /\ m \in heard'[s] \ heard[s] /\ Intent(m) = "enquiry"
            /\ \E b \in heard[s] : AsksCallback(b)
            /\ InTheFuture(NamedAt(m, clock), clock))
           => sessions'[s].content.followUp]_allVars

=============================================================================
