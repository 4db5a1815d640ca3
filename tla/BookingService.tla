--------------------------- MODULE BookingService ---------------------------
(***************************************************************************)
(* The booking tool of app/services/booking.py on its own: any session may *)
(* ask for any instant, any number of times.  The section under _lock      *)
(* never suspends, so a call is one atomic step.                           *)
(***************************************************************************)
EXTENDS BookingRules

CONSTANTS Sessions,    \* the sessions that call the tool
          Requests,    \* the instants they may ask for, and Malformed
          References,  \* the references secrets.token_hex may yield
          Instants,    \* the moments the clock may show (a bound of the model)
          Start        \* the moment the process starts

ASSUME RequestsAssumption == Requests \subseteq Nat \cup {Malformed}
ASSUME MomentsAssumption == Instants \subseteq Nat /\ Start \in Instants
ASSUME NoneAssumption == None \notin Sessions \cup References

VARIABLES booked,  \* _booked: slot key -> who owns it, under which reference
          now,     \* the clock of the service
          last     \* the call that was just made and what it returned

vars == <<booked, now, last>>

NoCall == [session |-> None, requested |-> None, result |-> None]

Init ==
    /\ booked = [k \in {} |-> k]
    /\ now = Start
    /\ last = NoCall

(* book(session_id, booking_date, booking_time) *)
Book(session, requested) ==
    \E reference \in References :
        /\ last' = [session |-> session, requested |-> requested,
                    result |-> Outcome(booked, now, session, requested, reference)]
        /\ booked' = Booking(booked, now, session, requested, reference)
        /\ UNCHANGED now

Tick ==
    /\ now' \in {later \in Instants : later > now}
    /\ last' = NoCall
    /\ UNCHANGED booked

Next ==
    \/ Tick
    \/ \E session \in Sessions, requested \in Requests : Book(session, requested)

Spec == Init /\ [][Next]_vars

-----------------------------------------------------------------------------
(* Properties.                                                             *)

Claim == [session : Sessions, reference : References]

(* The slots of the visiting calendar: half hours within opening hours,    *)
(* not over lunch, not on a Sunday, not closed.                            *)
VisitSlot(i) ==
    /\ i % SlotLength = 0
    /\ Weekday(i) # Sunday
    /\ OpeningTime <= TimeOfDay(i) /\ TimeOfDay(i) < ClosingTime
    /\ TimeOfDay(i) < LunchStart \/ LunchEnd <= TimeOfDay(i)
    /\ i \notin UnavailableSlots

(* Only visit slots are ever booked, whatever path confirmed them.         *)
OnlyVisitSlotsBooked == \A k \in DOMAIN booked : VisitSlot(k)

(* A call reports success exactly when the slot it asked for is the        *)
(* caller's, and under the reference it reports: a retry by the owner is   *)
(* confirmed with the original reference, even after the slot has passed,  *)
(* and nobody else is ever told the slot is theirs.                        *)
AnswerMatchesBooking ==
    last # NoCall /\ last.requested # Malformed =>
        LET slot == SlotKey(last.requested) IN
        /\ last.result.success <=> OwnedBy(booked, last.session, last.requested)
        /\ last.result.success =>
               booked[slot].reference = last.result.reference

Bookable(i) == VisitSlot(i) /\ i > now /\ i \notin DOMAIN booked

(* The alternatives of a refused request are slots the caller can have at  *)
(* once, in order.  For a request on the half hour they are the next free  *)
(* ones: no free slot between the request and the last one offered is      *)
(* passed over, and fewer than three are offered only when the horizon     *)
(* holds no more.  (A request off the half hour skips to the next day.)    *)
AlternativesAreNext ==
    /\ last # NoCall
    /\ last.requested # Malformed
    /\ ~last.result.success
    => LET offered == last.result.alternatives
           end == IF Len(offered) = MaxAlternatives
                      THEN offered[MaxAlternatives]
                      ELSE last.requested + Horizon
           between == {last.requested + n * SlotLength :
                          n \in 1..((end - last.requested) \div SlotLength)}
       IN  /\ \A n \in DOMAIN offered :
                  /\ Bookable(offered[n])
                  /\ (IF n = 1 THEN last.requested ELSE offered[n - 1]) < offered[n]
                  /\ offered[n] <= last.requested + Horizon
           /\ last.requested % SlotLength = 0 =>
                  {i \in between : Bookable(i)} = {offered[n] : n \in DOMAIN offered}

(* The tool implements the contract of module BookingContract.             *)
RequestedSlots == {SlotKey(i) : i \in Requests \ {Malformed}}

Contract == INSTANCE BookingContract WITH claims <- booked,
                                          Slots <- RequestedSlots

ImplementsContract == Contract!Spec

=============================================================================
