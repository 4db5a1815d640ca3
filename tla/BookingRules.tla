---------------------------- MODULE BookingRules ----------------------------
(***************************************************************************)
(* The rules of app/services/booking.py as operators: which instants are   *)
(* visit slots, why a request fails, which alternatives a failed request   *)
(* is offered, and what one call of book returns and records.              *)
(*                                                                         *)
(* An instant is the number of seconds since a Monday midnight, local time *)
(* (the time zone of the service has no daylight saving).  The map of      *)
(* booked slots is a function from slot keys to claims, as _booked is.     *)
(***************************************************************************)
EXTENDS Domain, Sequences

CONSTANTS UnavailableSlots,  \* slot keys the calendar closes (_unavailable_slots)
          Malformed          \* a request without a usable date or time

ASSUME UnavailableAssumption == UnavailableSlots \subseteq Nat
ASSUME MalformedAssumption == Malformed \notin Nat

Minute == 60
Hour == 60 * Minute
Day == 24 * Hour
Sunday == 6

OpeningTime == 10 * Hour
ClosingTime == 17 * Hour
LunchStart == 13 * Hour
LunchEnd == 14 * Hour
SlotLength == 30 * Minute
Horizon == 14 * Day
MaxAlternatives == 3

TimeOfDay(i) == i % Day
Weekday(i) == (i \div Day) % 7

(* isoformat(timespec="minutes") drops the seconds. *)
SlotKey(i) == i - (i % Minute)

(* Mutant of OutsideHours: closing time itself is let through. *)
OutsideHoursLate(i) == TimeOfDay(i) < OpeningTime \/ TimeOfDay(i) > ClosingTime

OutsideHours(i) == TimeOfDay(i) < OpeningTime \/ TimeOfDay(i) >= ClosingTime

OverLunch(i) == LunchStart <= TimeOfDay(i) /\ TimeOfDay(i) < LunchEnd

(* Mutant of Taken: the slots booked so far are not looked up. *)
TakenIgnoresBooked(booked, i) == SlotKey(i) \in UnavailableSlots

Taken(booked, i) == SlotKey(i) \in UnavailableSlots \cup DOMAIN booked

(* _failure_reason: the checks in the order the code makes them.  A minute *)
(* other than 0 and 30, or a second other than 0, is no slot.              *)
FailureReason(booked, now, i) ==
    IF i <= now THEN "past_slot"
    ELSE IF Weekday(i) = Sunday THEN "closed_day"
    ELSE IF i % SlotLength # 0 THEN "invalid_slot"
    ELSE IF OutsideHours(i) THEN "outside_business_hours"
    ELSE IF OverLunch(i) \/ Taken(booked, i) THEN "slot_unavailable"
    ELSE None

(* Mutant of Advance: the day is given up at lunch time. *)
AdvanceMorningsOnly(i) ==
    LET next == i + SlotLength
    IN  IF TimeOfDay(next) >= LunchStart
            THEN (next \div Day + 1) * Day + OpeningTime
            ELSE next

(* The candidate after i: half an hour later or, when that is at closing   *)
(* time or after, the opening of the next day.                             *)
Advance(i) ==
    LET next == i + SlotLength
    IN  IF TimeOfDay(next) >= ClosingTime
            THEN (next \div Day + 1) * Day + OpeningTime
            ELSE next

(* _alternatives: walk the candidates and keep the first free ones.  A     *)
(* place of the walk is a candidate and how many slots are still wanted.   *)
Alternatives(booked, now, requested) ==
    LET walk[place \in Nat \X (0..MaxAlternatives)] ==
            LET i == place[1]
                wanted == place[2]
            IN  IF i > requested + Horizon \/ wanted = 0 THEN <<>>
                ELSE IF FailureReason(booked, now, i) = None
                    THEN <<i>> \o walk[<<Advance(i), wanted - 1>>]
                    ELSE walk[<<Advance(i), wanted>>]
    IN  walk[<<requested + SlotLength, MaxAlternatives>>]

-----------------------------------------------------------------------------
(* One call of book, for a session and a requested instant.                *)

Refused(reason, alternatives) ==
    [success |-> FALSE, confirmedAt |-> None, reference |-> None,
     reason |-> reason, alternatives |-> alternatives]

Confirmed(i, reference) ==
    [success |-> TRUE, confirmedAt |-> i, reference |-> reference,
     reason |-> None, alternatives |-> <<>>]

OwnedBy(booked, session, i) ==
    SlotKey(i) \in DOMAIN booked /\ booked[SlotKey(i)].session = session

(* Mutant of Outcome: the checks come before the look at the owner. *)
OutcomeChecksFirst(booked, now, session, requested, reference) ==
    IF requested = Malformed THEN Refused("invalid_slot", <<>>)
    ELSE LET reason == FailureReason(booked, now, requested)
         IN  IF reason = None THEN Confirmed(requested, reference)
             ELSE Refused(reason, Alternatives(booked, now, requested))

(* A slot the session owns is confirmed again, before any other check. *)
Outcome(booked, now, session, requested, reference) ==
    IF requested = Malformed THEN Refused("invalid_slot", <<>>)
    ELSE IF OwnedBy(booked, session, requested)
        THEN Confirmed(requested, booked[SlotKey(requested)].reference)
    ELSE LET reason == FailureReason(booked, now, requested)
         IN  IF reason = None THEN Confirmed(requested, reference)
             ELSE Refused(reason, Alternatives(booked, now, requested))

WithClaim(booked, slot, session, reference) ==
    [k \in DOMAIN booked \cup {slot} |->
        IF k = slot THEN [session |-> session, reference |-> reference]
                    ELSE booked[k]]

(* What the call leaves in _booked: one more claim when the slot was free. *)
Booking(booked, now, session, requested, reference) ==
    IF /\ requested # Malformed
       /\ ~OwnedBy(booked, session, requested)
       /\ FailureReason(booked, now, requested) = None
    THEN WithClaim(booked, SlotKey(requested), session, reference)
    ELSE booked

=============================================================================
