---------------------------- MODULE RateLimiter ----------------------------
(***************************************************************************)
(* The sliding-window rate limiter (app/core/middleware.py,                *)
(* SlidingWindowRateLimitMiddleware): per client address, the times of the *)
(* requests it let through.  The section under its lock never suspends and *)
(* the clock is read just before it, so a decision is one step.            *)
(*                                                                         *)
(* Time is counted in ticks, so many to the second; a client is told to    *)
(* retry after a whole number of seconds.                                  *)
(***************************************************************************)
EXTENDS Integers, Sequences

CONSTANTS Addresses,       \* the client addresses
          Requests,        \* how many requests a window lets through
          WindowSeconds,   \* its length, a whole number of seconds
          TicksPerSecond,  \* the resolution of the clock
          Instants,        \* the moments the clock may show (a bound of the model)
          Start            \* the moment the process starts

ASSUME LimitAssumption == Requests \in Nat \ {0}
ASSUME WindowAssumption ==
    /\ WindowSeconds \in Nat \ {0}
    /\ TicksPerSecond \in Nat \ {0}
ASSUME InstantsAssumption == Instants \subseteq Nat /\ Start \in Instants

VARIABLES
    events,    \* _events: per address, the admissions still in the window
    now,       \* time.monotonic()
    admitted,  \* per address, every admission so far (a history)
    told       \* per address, the refusals since the last admission (a history)

limiterVars == <<events, now, admitted, told>>

Refusal == [at : Instants, after : Nat]

LimiterTypeOK ==
    /\ events \in [Addresses -> Seq(Instants)]
    /\ now \in Instants
    /\ admitted \in [Addresses -> Seq(Instants)]
    /\ told \in [Addresses -> SUBSET Refusal]

Window == WindowSeconds * TicksPerSecond

(* How many events are popped from the left: all those up to the first one *)
(* that is later than the cutoff.                                          *)
Stale(q, cutoff) ==
    CHOOSE n \in 0..Len(q) :
        /\ \A i \in 1..n : q[i] <= cutoff
        /\ n < Len(q) => q[n + 1] > cutoff

(* Mutant of Live: an event exactly one window old still counts. *)
LiveInclusive(q, cutoff) == SubSeq(q, Stale(q, cutoff - 1) + 1, Len(q))

Live(q, cutoff) == SubSeq(q, Stale(q, cutoff) + 1, Len(q))

InWindow(a) == Live(events[a], now - Window)

(* Mutant of RoundedSeconds: fractions are cut off. *)
RoundedSecondsDown(ticks) == ticks \div TicksPerSecond

(* round: to the nearest second, and halves to the even one. *)
RoundedSeconds(ticks) ==
    LET whole == ticks \div TicksPerSecond
        rest == 2 * (ticks % TicksPerSecond)
    IN  IF rest > TicksPerSecond \/ (rest = TicksPerSecond /\ whole % 2 = 1)
            THEN whole + 1 ELSE whole

RetryAfter(q) ==
    LET seconds == RoundedSeconds(q[1] + Window - now)
    IN  IF seconds < 1 THEN 1 ELSE seconds

LimiterInit ==
    /\ events = [a \in Addresses |-> <<>>]
    /\ now = Start
    /\ admitted = [a \in Addresses |-> <<>>]
    /\ told = [a \in Addresses |-> {}]

(* Mutant of Full: one request too many fits. *)
FullLate(a) == Len(InWindow(a)) > Requests

Full(a) == Len(InWindow(a)) >= Requests

Refuse(a) ==
    /\ Full(a)
    /\ events' = [events EXCEPT ![a] = InWindow(a)]
    /\ told' = [told EXCEPT
                  ![a] = @ \cup {[at |-> now, after |-> RetryAfter(InWindow(a))]}]
    /\ UNCHANGED <<now, admitted>>

Admit(a) ==
    /\ ~Full(a)
    /\ events' = [events EXCEPT ![a] = Append(InWindow(a), now)]
    /\ admitted' = [admitted EXCEPT ![a] = Append(@, now)]
    /\ told' = [told EXCEPT ![a] = {}]
    /\ UNCHANGED now

LaterOn ==
    /\ now' \in {later \in Instants : later > now}
    /\ UNCHANGED <<events, admitted, told>>

LimiterNext == LaterOn \/ \E a \in Addresses : Admit(a) \/ Refuse(a)

LimiterSpec == LimiterInit /\ [][LimiterNext]_limiterVars

-----------------------------------------------------------------------------
(* Properties.                                                             *)

(* No window of the configured length, wherever it starts, sees more       *)
(* admissions of an address than the limit: the events that were popped    *)
(* are really out of every window that a later admission belongs to.       *)
WindowRespected ==
    \A a \in Addresses : \A i \in 1 .. Len(admitted[a]) - Requests :
        admitted[a][i + Requests] - admitted[a][i] >= Window

(* The admission that has to leave the window before the next one fits.    *)
Blocker(a) == admitted[a][Len(admitted[a]) + 1 - Requests]

(* A request is refused only when the limit is really used up: as many     *)
(* admissions as the limit allows lie less than one window back.           *)
RefusedOnlyWhenFull ==
    [][\A a \in Addresses :
           Refuse(a) => /\ Len(admitted[a]) >= Requests
                        /\ Blocker(a) > now - Window]_limiterVars

(* A client that was told to retry, waits as long as it was told and half  *)
(* a second more (the answer is rounded), and finds that no other request  *)
(* from its address was let through, is not refused again.                 *)
RetryAfterIsEnough ==
    [][\A a \in Addresses :
           Refuse(a) =>
               \A r \in told[a] :
                   2 * (now - r.at) < (2 * r.after + 1) * TicksPerSecond
      ]_limiterVars

=============================================================================
