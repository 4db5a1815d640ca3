--------------------------- MODULE ProviderClient ---------------------------
(***************************************************************************)
(* One turn from the providers: the calls of a remote model with their     *)
(* retries and back-off (app/infrastructure/llm.py,                        *)
(* OpenAICompatibleProvider.generate_turn) and the fallback around them    *)
(* (AgentService._provider_turn).  AgentService sees all of this as one    *)
(* await that ends with ProviderAnswers, FallbackAnswers or TurnFails.     *)
(***************************************************************************)
EXTENDS Integers, Sequences, FiniteSets, SequencesExt

CONSTANTS Callers,     \* the chats that may ask at the same time
          MaxRetries,  \* how often a failed attempt is repeated
          MaxErrors    \* how many errors are counted (a bound of the model)

ASSUME RetriesAssumption == MaxRetries \in Nat

(* What an attempt may meet: no response at all (httpx.HTTPError, timeouts *)
(* among them), a status that is worth a retry, one that is not, a body    *)
(* that is no turn, one that breaks the client itself (a usage that is     *)
(* null, a body that is no text), and a turn.                              *)
Transient == {"unreachable", "busy"}
Definite == {"rejected", "unreadable"}
Replies == Transient \cup Definite \cup {"breaking", "turn"}

(* How a turn ends: with the provider's turn, with the fallback's, with    *)
(* AgentUnavailableError, or with an error nobody expects.                 *)
Endings == {"provider", "fallback", "unavailable", "raised"}
Stages == {"asking", "answered", "pausing"}

VARIABLES
    fallbackEnabled,  \* fallback_enabled, and the provider is not the fallback
    phase,            \* phase[c]: "idle", a stage, or how the turn ended
    attempt,          \* attempt[c]: the loop's counter
    log,              \* log[c]: what each attempt met (a history)
    paused,           \* paused[c]: quarter seconds slept so far (a history)
    errors,           \* the counter provider_errors_total
    fallbacks         \* the counter provider_fallbacks_total

counters == <<errors, fallbacks>>
vars == <<fallbackEnabled, phase, attempt, log, paused, counters>>

Init ==
    /\ fallbackEnabled \in BOOLEAN
    /\ phase = [c \in Callers |-> "idle"]
    /\ attempt = [c \in Callers |-> 0]
    /\ log = [c \in Callers |-> <<>>]
    /\ paused = [c \in Callers |-> 0]
    /\ errors = 0
    /\ fallbacks = 0

UnderWay == {c \in Callers : phase[c] \in Stages}

(* Every turn under way may still be counted as an error. *)
RoomForErrors == errors + Cardinality(UnderWay) < MaxErrors

Ask(c) ==
    /\ c \notin UnderWay
    /\ RoomForErrors
    /\ phase' = [phase EXCEPT ![c] = "asking"]
    /\ attempt' = [attempt EXCEPT ![c] = 0]
    /\ log' = [log EXCEPT ![c] = <<>>]
    /\ paused' = [paused EXCEPT ![c] = 0]
    /\ UNCHANGED <<fallbackEnabled, counters>>

(* The response arrives, or the client's timeout takes its place. *)
Meet(c) ==
    /\ phase[c] = "asking"
    /\ phase' = [phase EXCEPT ![c] = "answered"]
    /\ \E reply \in Replies : log' = [log EXCEPT ![c] = Append(@, reply)]
    /\ UNCHANGED <<fallbackEnabled, attempt, paused, counters>>

Met(c, replies) == phase[c] = "answered" /\ Last(log[c]) \in replies

Move(c, to) ==
    /\ phase' = [phase EXCEPT ![c] = to]
    /\ UNCHANGED <<fallbackEnabled, attempt, log>>

(* Mutant of LastAttempt: the loop runs once less often. *)
LastAttemptEarly(c) == attempt[c] + 1 >= MaxRetries

LastAttempt(c) == attempt[c] >= MaxRetries

(* 2**n, by recursion: the provers know no law about the operator ^. *)
PowerOfTwo[n \in Nat] == IF n = 0 THEN 1 ELSE 2 * PowerOfTwo[n - 1]

(* Mutant of Pause: it does not grow. *)
PauseConstant(n) == 1

Pause(n) == PowerOfTwo[n]

Retry(c) ==
    /\ Met(c, Transient)
    /\ ~LastAttempt(c)
    /\ Move(c, "pausing")
    /\ paused' = [paused EXCEPT ![c] = @ + Pause(attempt[c])]
    /\ UNCHANGED counters

PauseEnds(c) ==
    /\ phase[c] = "pausing"
    /\ phase' = [phase EXCEPT ![c] = "asking"]
    /\ attempt' = [attempt EXCEPT ![c] = @ + 1]
    /\ UNCHANGED <<fallbackEnabled, log, paused, counters>>

Answer(c) ==
    /\ Met(c, {"turn"})
    /\ Move(c, "provider")
    /\ UNCHANGED <<paused, counters>>

(* Only LLMProviderError is caught: this goes through to the caller. *)
Break(c) ==
    /\ Met(c, {"breaking"})
    /\ Move(c, "raised")
    /\ UNCHANGED <<paused, counters>>

(* Mutant of GivesUp: the loop ends without a result and nobody notices. *)
GivesUpSilently(c) == Met(c, Definite)

(* LLMProviderError: the attempts are used up, or another one is of no use. *)
GivesUp(c) == Met(c, Definite) \/ (Met(c, Transient) /\ LastAttempt(c))

Unavailable(c) ==
    /\ GivesUp(c)
    /\ ~fallbackEnabled
    /\ Move(c, "unavailable")
    /\ errors' = errors + 1
    /\ UNCHANGED <<paused, fallbacks>>

(* The fallback answers without suspending; it raises when what it found   *)
(* in the message does not fit the fields of a turn (a budget of more than *)
(* a thousand crore), and then it is not counted.                          *)
FallBack(c) ==
    /\ GivesUp(c)
    /\ fallbackEnabled
    /\ errors' = errors + 1
    /\ \/ Move(c, "fallback") /\ fallbacks' = fallbacks + 1
       \/ Move(c, "raised") /\ UNCHANGED fallbacks
    /\ UNCHANGED paused

Proceed(c) ==
    Retry(c) \/ PauseEnds(c) \/ Answer(c) \/ Break(c) \/ Unavailable(c) \/ FallBack(c)

(* The errors of this model are used up. *)
Rest == ~RoomForErrors /\ UNCHANGED vars

Next == Rest \/ \E c \in Callers : Ask(c) \/ Meet(c) \/ Proceed(c)

Spec == Init /\ [][Next]_vars

(* An attempt that gets no response is ended by the client's timeout, and  *)
(* the loop wakes a task whose response is there or whose sleep is over.   *)
FairSpec == Spec /\ \A c \in Callers : WF_vars(Meet(c)) /\ WF_vars(Proceed(c))

-----------------------------------------------------------------------------
(* Properties.                                                             *)

Ended(c) == phase[c] \in Endings

(* Nothing but a transient failure is ever repeated; a turn of the model   *)
(* is used if and only if the last attempt brought it; and nobody gives up *)
(* on a transient failure while an attempt is left.                        *)
OutcomeExplained ==
    \A c \in Callers : Ended(c) =>
        /\ \A i \in 1 .. Len(log[c]) - 1 : log[c][i] \in Transient
        /\ (phase[c] = "provider") <=> (Last(log[c]) = "turn")
        /\ Last(log[c]) \in Transient => Len(log[c]) = MaxRetries + 1

(* The time slept doubles from one failure to the next, starting at a      *)
(* quarter of a second, and a chat, which holds the lock of its session    *)
(* all the while, never sleeps when no attempt follows.                    *)
BackoffDoubles ==
    \A c \in Callers :
        /\ Ended(c) => paused[c] = PowerOfTwo[Len(log[c]) - 1] - 1
        /\ phase[c] = "pausing" => Len(log[c]) <= MaxRetries

(* Every turn that is asked for ends, however the service behaves.         *)
EveryTurnEnds == \A c \in Callers : phase[c] = "asking" ~> Ended(c)

=============================================================================
