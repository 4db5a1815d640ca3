------------------------ MODULE BookingServiceProofs ------------------------
(***************************************************************************)
(* Theorems about BookingService, for every set of sessions, requests,     *)
(* references, closed slots and moments.                                   *)
(***************************************************************************)
EXTENDS BookingService, BookingRulesProofs

(* A slot the checks let through is a visit slot that nobody has booked. *)
LEMMA AcceptedSlotIsFree ==
  ASSUME NEW i \in Nat, FailureReason(booked, now, i) = None
  PROVE  /\ SlotKey(i) = i
         /\ VisitSlot(i)
         /\ i \notin DOMAIN booked
<1> USE NoneIsNoValue DEF FailureReasons
<1>1. /\ ~(i <= now) /\ Weekday(i) # Sunday /\ i % SlotLength = 0
      /\ ~OutsideHours(i) /\ ~OverLunch(i) /\ ~Taken(booked, i)
  BY DEF FailureReason
<1>2. SlotKey(i) = i
  BY <1>1, HalfHourIsItsKey
<1>3. i \notin UnavailableSlots /\ i \notin DOMAIN booked
  BY <1>1, <1>2 DEF Taken
<1>4. TimeOfDay(i) \in Int
  BY DEF TimeOfDay, Day, Hour, Minute
<1>5. /\ OpeningTime <= TimeOfDay(i) /\ TimeOfDay(i) < ClosingTime
      /\ TimeOfDay(i) < LunchStart \/ LunchEnd <= TimeOfDay(i)
  BY <1>1, <1>4
  DEF OutsideHours, OverLunch, OpeningTime, ClosingTime, LunchStart, LunchEnd,
      Hour, Minute
<1> QED
  BY <1>1, <1>2, <1>3, <1>5 DEF VisitSlot

(* The invariant of _booked: visit slots, each with a claim, and a map     *)
(* with no other content.                                                  *)
BookedInv ==
    /\ booked = [k \in DOMAIN booked |-> booked[k]]
    /\ \A k \in DOMAIN booked :
           k \in RequestedSlots /\ VisitSlot(k) /\ booked[k] \in Claim

(* What one call does to _booked: nothing, or one new claim for the caller *)
(* on a slot nobody owned.                                                 *)
LEMMA BookClaimsOrKeeps ==
  ASSUME BookedInv,
         NEW session \in Sessions, NEW requested \in Requests,
         NEW reference \in References,
         booked' = Booking(booked, now, session, requested, reference)
  PROVE  \/ UNCHANGED booked
         \/ /\ requested \in Nat /\ SlotKey(requested) = requested
            /\ requested \in RequestedSlots \ DOMAIN booked
            /\ VisitSlot(requested)
            /\ booked' = [k \in DOMAIN booked \cup {requested} |->
                            IF k = requested
                            THEN [session |-> session, reference |-> reference]
                            ELSE booked[k]]
<1>1. CASE /\ requested # Malformed
           /\ ~OwnedBy(booked, session, requested)
           /\ FailureReason(booked, now, requested) = None
  <2>1. requested \in Nat
    BY <1>1, RequestsAssumption
  <2>2. /\ SlotKey(requested) = requested /\ VisitSlot(requested)
        /\ requested \notin DOMAIN booked
    BY <1>1, <2>1, AcceptedSlotIsFree
  <2>3. requested \in RequestedSlots
    BY <1>1, <2>2 DEF RequestedSlots
  <2> QED
    BY <1>1, <2>1, <2>2, <2>3 DEF Booking, WithClaim
<1>2. CASE ~ /\ requested # Malformed
             /\ ~OwnedBy(booked, session, requested)
             /\ FailureReason(booked, now, requested) = None
  BY <1>2 DEF Booking
<1> QED
  BY <1>1, <1>2

(* Every call keeps the map in order. *)
LEMMA BookedInvInductive == BookedInv /\ [Next]_vars => BookedInv'
<1> SUFFICES ASSUME BookedInv, [Next]_vars PROVE BookedInv'
  OBVIOUS
<1>1. ASSUME UNCHANGED booked PROVE BookedInv'
  BY <1>1 DEF BookedInv, VisitSlot
<1>2. ASSUME NEW session \in Sessions, NEW requested \in Requests,
             Book(session, requested)
      PROVE  BookedInv'
  <2>1. PICK reference \in References :
           booked' = Booking(booked, now, session, requested, reference)
    BY <1>2 DEF Book
  <2>2. CASE UNCHANGED booked
    BY <1>1, <2>2
  <2>3. CASE ~UNCHANGED booked
    <3>1. /\ requested \in RequestedSlots /\ VisitSlot(requested)
          /\ booked' = [k \in DOMAIN booked \cup {requested} |->
                          IF k = requested
                          THEN [session |-> session, reference |-> reference]
                          ELSE booked[k]]
      BY <2>1, <2>3, BookClaimsOrKeeps
    <3>2. [session |-> session, reference |-> reference] \in Claim
      BY DEF Claim
    <3> QED
      BY <3>1, <3>2 DEF BookedInv
  <2> QED
    BY <2>2, <2>3
<1> QED
  BY <1>1, <1>2 DEF Next, Tick, vars

(* The map is in order throughout. *)
LEMMA BookedInvCorrect == Spec => []BookedInv
<1>1. Init => BookedInv
  BY DEF Init, BookedInv
<1> QED
  BY <1>1, BookedInvInductive, PTL DEF Spec

(* Whatever is asked for and whenever, only slots of the visiting calendar *)
(* are ever booked.                                                        *)
THEOREM BookingOnlyVisitSlots == Spec => []OnlyVisitSlotsBooked
<1>1. BookedInv => OnlyVisitSlotsBooked
  BY DEF BookedInv, OnlyVisitSlotsBooked
<1> QED
  BY <1>1, BookedInvCorrect, PTL

(* A success is reported exactly to the owner of the slot, under the       *)
(* reference of the claim.                                                 *)
THEOREM BookingAnswerMatches == Spec => []AnswerMatchesBooking
<1>1. Init => AnswerMatchesBooking
  BY DEF Init, AnswerMatchesBooking
<1>2. BookedInv /\ AnswerMatchesBooking /\ [Next]_vars => AnswerMatchesBooking'
  <2> SUFFICES ASSUME BookedInv, AnswerMatchesBooking, [Next]_vars
               PROVE  AnswerMatchesBooking'
    OBVIOUS
  <2>1. CASE Tick
    BY <2>1 DEF Tick, AnswerMatchesBooking
  <2>2. CASE UNCHANGED vars
    BY <2>2 DEF vars, AnswerMatchesBooking, OwnedBy
  <2>3. ASSUME NEW session \in Sessions, NEW requested \in Requests,
               Book(session, requested), requested # Malformed
        PROVE  AnswerMatchesBooking'
    <3>1. PICK reference \in References :
            /\ last' = [session |-> session, requested |-> requested,
                        result |-> Outcome(booked, now, session, requested,
                                           reference)]
            /\ booked' = Booking(booked, now, session, requested, reference)
      BY <2>3 DEF Book
    <3> DEFINE answer == Outcome(booked, now, session, requested, reference)
    <3>2. CASE OwnedBy(booked, session, requested)
      <4>1. /\ answer.success
            /\ answer.reference = booked[SlotKey(requested)].reference
        BY <2>3, <3>2 DEF Outcome, Confirmed
      <4>2. UNCHANGED booked
        BY <3>1, <3>2 DEF Booking
      <4> QED
        BY <3>1, <3>2, <4>1, <4>2 DEF AnswerMatchesBooking, OwnedBy
    <3>3. CASE /\ ~OwnedBy(booked, session, requested)
               /\ FailureReason(booked, now, requested) = None
      <4>1. answer.success /\ answer.reference = reference
        BY <2>3, <3>3 DEF Outcome, Confirmed
      <4>2. /\ SlotKey(requested) \in DOMAIN booked'
            /\ booked'[SlotKey(requested)]
                 = [session |-> session, reference |-> reference]
        BY <2>3, <3>1, <3>3 DEF Booking, WithClaim
      <4> QED
        BY <3>1, <4>1, <4>2 DEF AnswerMatchesBooking, OwnedBy
    <3>4. CASE /\ ~OwnedBy(booked, session, requested)
               /\ FailureReason(booked, now, requested) # None
      <4>1. ~answer.success
        BY <2>3, <3>4 DEF Outcome, Refused
      <4>2. UNCHANGED booked
        BY <3>1, <3>4 DEF Booking
      <4> QED
        BY <3>1, <3>4, <4>1, <4>2 DEF AnswerMatchesBooking, OwnedBy
    <3> QED
      BY <3>2, <3>3, <3>4
  <2>4. ASSUME NEW session \in Sessions, Book(session, Malformed)
        PROVE  AnswerMatchesBooking'
    BY <2>4 DEF Book, AnswerMatchesBooking
  <2> QED
    BY <2>1, <2>2, <2>3, <2>4 DEF Next
<1> QED
  BY <1>1, <1>2, BookedInvCorrect, PTL DEF Spec

(* The tool implements its contract: one owner per slot, for ever. *)
THEOREM BookingImplementsContract == Spec => ImplementsContract
<1>1. Init => Contract!Init
  BY DEF Init, Contract!Init
<1>2. BookedInv /\ [Next]_vars => [Contract!Next]_booked
  <2> SUFFICES ASSUME BookedInv, [Next]_vars
               PROVE  Contract!Next \/ UNCHANGED booked
    OBVIOUS
  <2>1. ASSUME NEW session \in Sessions, NEW requested \in Requests,
               Book(session, requested), ~UNCHANGED booked
        PROVE  Contract!Next
    <3>1. PICK reference \in References :
             booked' = Booking(booked, now, session, requested, reference)
      BY <2>1 DEF Book
    <3>2. /\ requested \in RequestedSlots \ DOMAIN booked
          /\ booked' = [k \in DOMAIN booked \cup {requested} |->
                          IF k = requested
                          THEN [session |-> session, reference |-> reference]
                          ELSE booked[k]]
      BY <2>1, <3>1, BookClaimsOrKeeps
    <3>3. Contract!ClaimSlot(requested)
      BY <3>2 DEF Contract!ClaimSlot, Contract!Claim
    <3> QED
      BY <3>2, <3>3 DEF Contract!Next
  <2> QED
    BY <2>1 DEF Next, Tick, vars
<1> QED
  BY <1>1, <1>2, BookedInvCorrect, PTL
  DEF Spec, ImplementsContract, Contract!Spec

-----------------------------------------------------------------------------
(* The slots the checks let through are the ones the customer can have.    *)
LEMMA FreeIsBookable ==
  ASSUME NEW i \in Nat, now \in Nat
  PROVE  Free(booked, now, i) <=> Bookable(i)
<1>1. ASSUME Free(booked, now, i) PROVE Bookable(i)
  <2>1. FailureReason(booked, now, i) = None
    BY <1>1 DEF Free
  <2>2. i > now
    BY <2>1, NoneIsNoValue DEF FailureReason, FailureReasons
  <2> QED
    BY <2>1, <2>2, AcceptedSlotIsFree DEF Bookable
<1>2. ASSUME Bookable(i) PROVE Free(booked, now, i)
  <2>1. /\ i > now /\ Weekday(i) # Sunday /\ i % SlotLength = 0
        /\ i \notin UnavailableSlots /\ i \notin DOMAIN booked
    BY <1>2 DEF Bookable, VisitSlot
  <2>2. ~Taken(booked, i)
    BY <2>1, HalfHourIsItsKey DEF Taken
  <2>3. TimeOfDay(i) \in Int
    BY DEF TimeOfDay, Day, Hour, Minute
  <2>4. /\ OpeningTime <= TimeOfDay(i) /\ TimeOfDay(i) < ClosingTime
        /\ TimeOfDay(i) < LunchStart \/ LunchEnd <= TimeOfDay(i)
    BY <1>2 DEF Bookable, VisitSlot
  <2>5. ~OutsideHours(i) /\ ~OverLunch(i)
    BY <2>3, <2>4
    DEF OutsideHours, OverLunch, OpeningTime, ClosingTime, LunchStart, LunchEnd,
        Hour, Minute
  <2> QED
    BY <2>1, <2>2, <2>5 DEF Free, FailureReason
<1> QED
  BY <1>1, <1>2

(* The half hours after an instant on the half hour, up to an end. *)
OnTheWay(x, from, end) ==
    \E n \in 1..((end - from) \div 1800) : x = from + n * 1800

LEMMA HalfHoursBetween ==
  ASSUME NEW from \in Nat, from % 1800 = 0, NEW end \in Nat, from <= end,
         NEW x \in Nat, x % 1800 = 0, from < x, x <= end
  PROVE  OnTheWay(x, from, end)
<1> DEFINE n == (x - from) \div 1800
<1>1. from = 1800 * (from \div 1800) /\ x = 1800 * (x \div 1800)
  OBVIOUS
<1>2. x = from + n * 1800
  BY <1>1
<1>3. n \in 1..((end - from) \div 1800)
  BY <1>2
<1> QED
  BY <1>2, <1>3 DEF OnTheWay

LEMMA BetweenIsWithin ==
  ASSUME NEW from \in Nat, NEW end \in Nat, from <= end,
         NEW n \in 1..((end - from) \div 1800)
  PROVE  /\ from + n * 1800 \in Nat
         /\ from + 1800 <= from + n * 1800
         /\ from + n * 1800 <= end
<1>1. n * 1800 <= end - from
  OBVIOUS
<1> QED
  BY <1>1

(* The offer of AlternativesAreNext, for one call. *)
OffersTheNext(offered, requested) ==
    LET end == IF Len(offered) = MaxAlternatives
                   THEN offered[MaxAlternatives]
                   ELSE requested + Horizon
        between == {requested + n * SlotLength :
                       n \in 1..((end - requested) \div SlotLength)}
    IN  /\ \A n \in DOMAIN offered :
               /\ Bookable(offered[n])
               /\ (IF n = 1 THEN requested ELSE offered[n - 1]) < offered[n]
               /\ offered[n] <= requested + Horizon
        /\ requested % SlotLength = 0 =>
               {i \in between : Bookable(i)} = {offered[n] : n \in DOMAIN offered}

LEMMA AlternativesOfferTheNext ==
  ASSUME now \in Nat, NEW requested \in Nat
  PROVE  OffersTheNext(Alternatives(booked, now, requested), requested)
<1> DEFINE offered == Alternatives(booked, now, requested)
           first == requested + SlotLength
           horizon == requested + Horizon
           end == IF Len(offered) = MaxAlternatives
                      THEN offered[MaxAlternatives] ELSE horizon
<1>1. /\ InOrder(offered, booked, now, first, MaxAlternatives, horizon)
      /\ requested % SlotLength = 0
            => NoneMissed(offered, booked, now, first, MaxAlternatives, horizon)
  BY AlternativesAreTheFirstFree
<1> HIDE DEF offered
<1>2. /\ SlotLength = 1800 /\ MaxAlternatives = 3
      /\ horizon \in Nat /\ first = requested + 1800 /\ requested <= horizon
  BY DEF SlotLength, MaxAlternatives, Horizon, Day, Hour, Minute
<1>3. /\ offered \in Seq(Nat) /\ Len(offered) \in Nat /\ Len(offered) <= 3
      /\ DOMAIN offered = 1..Len(offered)
  BY <1>1, <1>2 DEF InOrder
<1>4. \A n \in 1..Len(offered) :
        /\ offered[n] \in Nat /\ Free(booked, now, offered[n])
        /\ first <= offered[n] /\ offered[n] <= horizon
  BY <1>1, <1>3 DEF InOrder
<1>5. \A m, n \in 1..Len(offered) : m < n => offered[m] < offered[n]
  BY <1>1 DEF InOrder
<1> HIDE DEF first, horizon
<1>6. \A n \in 1..Len(offered) : Bookable(offered[n])
  BY <1>4, FreeIsBookable
<1>7. ASSUME NEW n \in 1..Len(offered)
      PROVE  (IF n = 1 THEN requested ELSE offered[n - 1]) < offered[n]
  <2>1. CASE n = 1
    BY <1>2, <1>4, <2>1
  <2>2. CASE n # 1
    <3>1. n - 1 \in 1..Len(offered) /\ n - 1 < n
      BY <1>3, <2>2
    <3> QED
      BY <1>5, <2>2, <3>1
  <2> QED
    BY <2>1, <2>2
<1>8. end \in Nat /\ requested <= end /\ end <= horizon
  BY <1>2, <1>3, <1>4
<1>9. \A n \in 1..Len(offered) : offered[n] <= end
  <2>1. CASE Len(offered) = 3
    <3> SUFFICES ASSUME NEW n \in 1..Len(offered) PROVE offered[n] <= offered[3]
      BY <1>2, <2>1
    <3>1. CASE n = 3
      BY <1>4, <3>1
    <3>2. CASE n # 3
      <4>1. n < 3 /\ 3 \in 1..Len(offered)
        BY <2>1, <3>2
      <4>2. offered[n] < offered[3] /\ offered[n] \in Nat /\ offered[3] \in Nat
        BY <1>4, <1>5, <4>1
      <4> QED
        BY <4>2
    <3> QED
      BY <3>1, <3>2
  <2>2. CASE Len(offered) # 3
    BY <1>2, <1>4, <2>2
  <2> QED
    BY <2>1, <2>2
<1> DEFINE steps == 1..((end - requested) \div SlotLength)
           between == {requested + n * SlotLength : n \in steps}
<1>10. ASSUME requested % SlotLength = 0
       PROVE  {i \in between : Bookable(i)} = {offered[n] : n \in DOMAIN offered}
  <2>1. NoneMissed(offered, booked, now, first, MaxAlternatives, horizon)
    BY <1>1, <1>10
  <2>2. ASSUME NEW x \in between, Bookable(x)
        PROVE  \E n \in 1..Len(offered) : offered[n] = x
    <3>1. PICK n \in steps : x = requested + n * SlotLength
      OBVIOUS
    <3> HIDE DEF end
    <3>2. x \in Nat /\ first <= x /\ x <= end
      BY <1>2, <1>8, <3>1, BetweenIsWithin
    <3>3. Free(booked, now, x)
      BY <2>2, <3>2, FreeIsBookable
    <3>4. x <= horizon
      BY <1>2, <1>8, <3>2
    <3>5. CASE Len(offered) = 3 /\ \A m \in 1..Len(offered) : offered[m] < x
      <4>1. end = offered[3] /\ 3 \in 1..Len(offered)
        BY <1>2, <3>5 DEF end
      <4>2. offered[3] < x
        BY <3>5, <4>1
      <4> QED
        BY <1>8, <3>2, <4>1, <4>2
    <3> QED
      BY <1>2, <2>1, <3>2, <3>3, <3>4, <3>5 DEF NoneMissed
  <2>3. ASSUME NEW n \in 1..Len(offered)
        PROVE  offered[n] \in between /\ Bookable(offered[n])
    <3> DEFINE x == offered[n]
    <3>1. /\ x \in Nat /\ Free(booked, now, x) /\ first <= x /\ x <= end
      BY <1>4, <1>9
    <3>2. x % 1800 = 0
      BY <1>2, <3>1, FreeIsAHalfHour
    <3> HIDE DEF x, end
    <3>3. requested < x
      BY <1>2, <3>1
    <3>4. OnTheWay(x, requested, end)
      <4>1. requested % 1800 = 0 /\ end \in Nat /\ requested <= end
        BY <1>2, <1>8, <1>10
      <4> HIDE DEF steps, between
      <4> QED
        BY <3>1, <3>2, <3>3, <4>1, HalfHoursBetween
    <3>5. x \in between
      BY <1>2, <3>4 DEF OnTheWay
    <3> QED
      BY <1>6, <3>5 DEF x
  <2> HIDE DEF between
  <2> QED
    BY <1>3, <2>2, <2>3
<1>11. OffersTheNext(offered, requested)
  BY <1>3, <1>4, <1>6, <1>7, <1>10 DEF OffersTheNext, horizon
<1> QED
  BY <1>11 DEF offered

(* A refused request is offered the next slots the caller can have, and    *)
(* none of them is passed over.                                            *)
THEOREM BookingAlternativesAreNext == Spec => []AlternativesAreNext
<1> DEFINE Inv == now \in Nat /\ AlternativesAreNext
<1>1. Init => Inv
  BY MomentsAssumption DEF Init, AlternativesAreNext
<1>2. Inv /\ [Next]_vars => Inv'
  <2> SUFFICES ASSUME now \in Nat, AlternativesAreNext, [Next]_vars
               PROVE  Inv'
    OBVIOUS
  <2>1. CASE Tick
    BY <2>1, MomentsAssumption DEF Tick, AlternativesAreNext
  <2>2. CASE UNCHANGED vars
    BY <2>2 DEF vars, AlternativesAreNext, Bookable, VisitSlot
  <2>3. ASSUME NEW session \in Sessions, NEW requested \in Requests,
               Book(session, requested)
        PROVE  Inv'
    <3>1. UNCHANGED now
      BY <2>3 DEF Book
    <3>2. PICK reference \in References :
            /\ last' = [session |-> session, requested |-> requested,
                        result |-> Outcome(booked, now, session, requested,
                                           reference)]
            /\ booked' = Booking(booked, now, session, requested, reference)
      BY <2>3 DEF Book
    <3> DEFINE answer == Outcome(booked, now, session, requested, reference)
    <3>3. CASE requested = Malformed \/ answer.success
      <4>1. AlternativesAreNext'
        BY <3>2, <3>3 DEF AlternativesAreNext
      <4> QED
        BY <3>1, <4>1
    <3>4. CASE requested # Malformed /\ ~answer.success
      <4>1. requested \in Nat
        BY <3>4, RequestsAssumption
      <4>2. /\ ~OwnedBy(booked, session, requested)
            /\ FailureReason(booked, now, requested) # None
        BY <3>4 DEF Outcome, Confirmed
      <4>3. answer.alternatives = Alternatives(booked, now, requested)
        BY <3>4, <4>2 DEF Outcome, Refused
      <4>4. UNCHANGED booked
        BY <3>2, <4>2 DEF Booking
      <4> DEFINE offered == Alternatives(booked, now, requested)
      <4>5. OffersTheNext(offered, requested)
        BY <4>1, AlternativesOfferTheNext
      <4>6. /\ last'.requested = requested
            /\ last'.result.alternatives = offered
        BY <3>2, <4>3
      <4> HIDE DEF offered
      <4>7. AlternativesAreNext'
        BY <3>1, <4>4, <4>5, <4>6
        DEF AlternativesAreNext, OffersTheNext, Bookable, VisitSlot
      <4> QED
        BY <3>1, <4>7
    <3> QED
      BY <3>3, <3>4
  <2> QED
    BY <2>1, <2>2, <2>3 DEF Next
<1> QED
  BY <1>1, <1>2, PTL DEF Spec

=============================================================================
