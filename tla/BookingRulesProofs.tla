------------------------- MODULE BookingRulesProofs -------------------------
(***************************************************************************)
(* Lemmas about the booking rules, shared by the proofs about the booking  *)
(* tool and about the agent service: what is accepted, what is answered,   *)
(* and what the walk for alternatives returns.                             *)
(***************************************************************************)
EXTENDS BookingRules, SequenceTheorems, WellFoundedInduction, TLAPS

(* An instant on the half hour is its own slot key. *)
LEMMA HalfHourIsItsKey ==
  ASSUME NEW i \in Nat, i % SlotLength = 0
  PROVE  SlotKey(i) = i
<1>1. SlotLength = 1800 /\ Minute = 60
  BY DEF SlotLength, Minute
<1>2. i = 1800 * (i \div 1800)
  BY <1>1
<1>3. i = 60 * (30 * (i \div 1800))
  BY <1>2
<1>4. i % 60 = 0
  BY <1>3
<1> QED
  BY <1>1, <1>4 DEF SlotKey

(* The checks let through only a slot that nobody has booked, on the half  *)
(* hour.                                                                   *)
LEMMA AcceptedSlotIsUnclaimed ==
  ASSUME NEW claims, NEW at, NEW i \in Nat,
         FailureReason(claims, at, i) = None
  PROVE  SlotKey(i) = i /\ i \notin DOMAIN claims
<1>1. i % SlotLength = 0 /\ ~Taken(claims, i)
  BY NoneIsNoValue DEF FailureReason, FailureReasons
<1>2. SlotKey(i) = i
  BY <1>1, HalfHourIsItsKey
<1> QED
  BY <1>1, <1>2 DEF Taken

(* What one call answers goes with what it records: it is refused and      *)
(* records nothing, or confirms the caller's claim and records nothing, or *)
(* confirms a slot nobody owned and records the claim it reports.          *)
LEMMA OutcomeMatchesBooking ==
  ASSUME NEW claims, NEW at, NEW s, NEW i \in Nat \cup {Malformed}, NEW r
  PROVE  LET result == Outcome(claims, at, s, i, r)
             after == Booking(claims, at, s, i, r)
         IN  \/ ~result.success /\ after = claims
             \/ /\ result.success /\ i \in Nat /\ OwnedBy(claims, s, i)
                /\ result.confirmedAt = i
                /\ result.reference = claims[SlotKey(i)].reference
                /\ after = claims
             \/ /\ result.success /\ i \in Nat
                /\ SlotKey(i) = i /\ i \notin DOMAIN claims
                /\ result.confirmedAt = i /\ result.reference = r
                /\ after = WithClaim(claims, i, s, r)
<1> DEFINE result == Outcome(claims, at, s, i, r)
           after == Booking(claims, at, s, i, r)
<1>1. CASE i = Malformed
  <2>1. result = Refused("invalid_slot", <<>>)
    BY <1>1 DEF Outcome
  <2>2. ~result.success
    BY <2>1 DEF Refused
  <2> QED
    BY <1>1, <2>2 DEF Booking
<1>2. CASE i # Malformed /\ OwnedBy(claims, s, i)
  <2>1. result = Confirmed(i, claims[SlotKey(i)].reference)
    BY <1>2 DEF Outcome
  <2> QED
    BY <1>2, <2>1 DEF Booking, Confirmed
<1>3. CASE /\ i # Malformed /\ ~OwnedBy(claims, s, i)
           /\ FailureReason(claims, at, i) # None
  <2>1. result = Refused(FailureReason(claims, at, i), Alternatives(claims, at, i))
    BY <1>3 DEF Outcome
  <2>2. ~result.success
    BY <2>1 DEF Refused
  <2> QED
    BY <1>3, <2>2 DEF Booking
<1>4. CASE /\ i # Malformed /\ ~OwnedBy(claims, s, i)
           /\ FailureReason(claims, at, i) = None
  <2>1. result = Confirmed(i, r)
    BY <1>4 DEF Outcome
  <2>2. SlotKey(i) = i /\ i \notin DOMAIN claims
    BY <1>4, AcceptedSlotIsUnclaimed
  <2>3. after = WithClaim(claims, i, s, r)
    BY <1>4, <2>2 DEF Booking
  <2> QED
    BY <1>4, <2>1, <2>2, <2>3 DEF Confirmed
<1> QED
  BY <1>1, <1>2, <1>3, <1>4

(* Success is a yes or a no. *)
LEMMA OutcomeIsYesOrNo ==
  ASSUME NEW claims, NEW at, NEW s, NEW i, NEW r
  PROVE  Outcome(claims, at, s, i, r).success \in BOOLEAN
BY DEF Outcome, Refused, Confirmed

-----------------------------------------------------------------------------
(* The walk of Alternatives.  It is defined by recursion, and the library  *)
(* has no theorem that the provers can use for it: that the function       *)
(* exists, and what it returns, is shown by induction over sets of         *)
(* naturals.                                                               *)

(* A set of naturals with 0 and with the successor of each of its elements *)
(* is Nat.                                                                 *)
LEMMA NaturalsByInduction ==
  ASSUME NEW T \in SUBSET Nat, 0 \in T, \A k \in T : k + 1 \in T
  PROVE  T = Nat
<1> SUFFICES ASSUME Nat \ T # {} PROVE FALSE
  OBVIOUS
<1> DEFINE Below == {ss \in Nat \X Nat : ss[1] < ss[2]}
           Rest == Nat \ T
<1>1. IsWellFoundedOn(Below, Nat)
  BY NatLessThanWellFounded DEF OpToRel
<1>2. \A x, y \in Nat : <<y, x>> \in Below <=> y < x
  OBVIOUS
<1>3. Rest \in SUBSET Nat /\ Rest # {}
  OBVIOUS
<1> HIDE DEF Below, Rest
<1>4. PICK least \in Rest : \A y \in Rest : ~ (<<y, least>> \in Below)
  BY <1>1, <1>3, WFMin
<1>5. least \in Nat /\ least # 0 /\ least \notin T
  BY <1>4 DEF Rest
<1>6. least - 1 \in Nat /\ least - 1 < least /\ (least - 1) + 1 = least
  BY <1>5
<1>7. least - 1 \in T
  BY <1>2, <1>4, <1>5, <1>6 DEF Rest
<1> QED
  BY <1>5, <1>6, <1>7

(* The candidate after one is later, and between two candidates on the     *)
(* half hour no slot lies within opening hours.                            *)
LEMMA AdvanceGoesOn ==
  ASSUME NEW i \in Nat
  PROVE  Advance(i) \in Nat /\ i + 1 <= Advance(i)
<1>1. Day = 86400 /\ SlotLength = 1800 /\ OpeningTime = 36000
  BY DEF Day, Hour, Minute, SlotLength, OpeningTime
<1> DEFINE next == i + 1800
<1>2. next < (next \div 86400 + 1) * 86400
  OBVIOUS
<1>3. Advance(i) = next \/ Advance(i) = (next \div 86400 + 1) * 86400 + 36000
  BY <1>1 DEF Advance
<1> QED
  BY <1>2, <1>3

(* From closing time to the opening of the next day it is outside hours:   *)
(* in terms of days and times of the day, and in terms of instants.        *)
LEMMA TimeOvernight ==
  ASSUME NEW d \in Nat, NEW day \in Nat, NEW time \in Nat, time < 86400,
         d * 86400 + 61200 <= 86400 * day + time,
         86400 * day + time < (d + 1) * 86400 + 36000
  PROVE  time >= 61200 \/ time < 36000
<1>1. day = d \/ day = d + 1
  OBVIOUS
<1> QED
  BY <1>1

LEMMA ClosedOvernight ==
  ASSUME NEW d \in Nat, NEW x \in Nat,
         d * 86400 + 61200 <= x, x < (d + 1) * 86400 + 36000
  PROVE  OutsideHours(x)
<1>1. Day = 86400 /\ OpeningTime = 36000 /\ ClosingTime = 61200
  BY DEF Day, Hour, Minute, OpeningTime, ClosingTime
<1>2. PICK day \in Nat, time \in Nat :
        time = x % 86400 /\ time < 86400 /\ x = 86400 * day + time
  <2>1. x \div 86400 \in Nat /\ x % 86400 \in Nat
    OBVIOUS
  <2>2. x % 86400 < 86400
    OBVIOUS
  <2>3. x = 86400 * (x \div 86400) + (x % 86400)
    OBVIOUS
  <2> QED
    BY <2>1, <2>2, <2>3
<1>3. time >= 61200 \/ time < 36000
  BY <1>2, TimeOvernight
<1>4. TimeOfDay(x) = time
  BY <1>1, <1>2 DEF TimeOfDay
<1> QED
  BY <1>1, <1>3, <1>4 DEF OutsideHours

LEMMA AdvanceSkipsNothing ==
  ASSUME NEW i \in Nat, i % SlotLength = 0,
         NEW x \in Nat, x % SlotLength = 0, i < x, x < Advance(i)
  PROVE  OutsideHours(x)
<1>1. /\ Day = 86400 /\ SlotLength = 1800 /\ OpeningTime = 36000
      /\ ClosingTime = 61200
  BY DEF Day, Hour, Minute, SlotLength, OpeningTime, ClosingTime
<1> DEFINE next == i + 1800
           day == next \div 86400
<1>2. next <= x
  <2>1. i = 1800 * (i \div 1800) /\ x = 1800 * (x \div 1800)
    BY <1>1
  <2> QED
    BY <2>1
<1>3. TimeOfDay(next) >= 61200 /\ Advance(i) = (day + 1) * 86400 + 36000
  BY <1>1, <1>2 DEF Advance
<1>4. TimeOfDay(next) = next % 86400
  BY <1>1 DEF TimeOfDay
<1>5. day \in Nat /\ day * 86400 + 61200 <= next
  BY <1>3, <1>4
<1> HIDE DEF day
<1> QED
  BY <1>2, <1>3, <1>5, ClosedOvernight

LEMMA AdvanceKeepsTheHalfHour ==
  ASSUME NEW i \in Nat, i % SlotLength = 0
  PROVE  Advance(i) % SlotLength = 0
<1>1. Day = 86400 /\ SlotLength = 1800 /\ OpeningTime = 36000
  BY DEF Day, Hour, Minute, SlotLength, OpeningTime
<1> DEFINE next == i + 1800
           day == next \div 86400
<1>2. next % 1800 = 0
  BY <1>1
<1>3. day \in Nat
  OBVIOUS
<1> HIDE DEF day
<1>4. ((day + 1) * 86400 + 36000) % 1800 = 0
  <2>1. (day + 1) * 86400 + 36000 = 1800 * ((day + 1) * 48 + 20)
    BY <1>3
  <2> QED
    BY <1>3, <2>1
<1>5. Advance(i) = next \/ Advance(i) = (day + 1) * 86400 + 36000
  BY <1>1 DEF Advance, day
<1> QED
  BY <1>1, <1>2, <1>4, <1>5

Places == Nat \X (0..MaxAlternatives)

(* One step of the walk, given what the walk returns further on. *)
WalkOn(walk, claims, at, end) ==
    [place \in Places |->
        LET i == place[1]
            wanted == place[2]
        IN  IF i > end \/ wanted = 0 THEN <<>>
            ELSE IF FailureReason(claims, at, i) = None
                THEN <<i>> \o walk[<<Advance(i), wanted - 1>>]
                ELSE walk[<<Advance(i), wanted>>]]

Walk(claims, at, end) == CHOOSE walk : walk = WalkOn(walk, claims, at, end)

LEMMA AlternativesWalk ==
  ASSUME NEW claims, NEW at, NEW requested
  PROVE  Alternatives(claims, at, requested)
           = Walk(claims, at, requested + Horizon)
                 [<<requested + SlotLength, MaxAlternatives>>]
BY DEF Alternatives, Walk, WalkOn, Places

(* What a walk returns from a place on. *)
From(walk, i, wanted) == walk[<<i, wanted>>]

(* What one step returns, place by place. *)
Over(i, wanted, end) == i > end \/ wanted = 0

Free(claims, at, i) == FailureReason(claims, at, i) = None

LEMMA WalkEnds ==
  ASSUME NEW claims, NEW at, NEW end \in Nat, NEW walk,
         NEW i \in Nat, NEW wanted \in 0..MaxAlternatives,
         Over(i, wanted, end)
  PROVE  From(WalkOn(walk, claims, at, end), i, wanted) = <<>>
BY DEF WalkOn, Places, From, Over, Free

Prefixed(i, rest) == <<i>> \o rest

LEMMA WalkTakesTheFree ==
  ASSUME NEW claims, NEW at, NEW end \in Nat, NEW walk,
         NEW i \in Nat, NEW wanted \in 0..MaxAlternatives,
         NEW left \in 0..MaxAlternatives, left = wanted - 1,
         ~Over(i, wanted, end), Free(claims, at, i)
  PROVE  From(WalkOn(walk, claims, at, end), i, wanted)
           = Prefixed(i, From(walk, Advance(i), left))
BY DEF Prefixed, WalkOn, Places, From, Over, Free

LEMMA WalkPassesTheRest ==
  ASSUME NEW claims, NEW at, NEW end \in Nat, NEW walk,
         NEW i \in Nat, NEW wanted \in 0..MaxAlternatives,
         ~Over(i, wanted, end), ~Free(claims, at, i)
  PROVE  From(WalkOn(walk, claims, at, end), i, wanted)
           = From(walk, Advance(i), wanted)
BY DEF WalkOn, Places, From, Over, Free

(* Two walks that agree further on make the same step. *)
Agree(f, g, i) ==
    \A w \in 0..MaxAlternatives : From(f, i, w) = From(g, i, w)

LEMMA WalksAgree ==
  ASSUME NEW claims, NEW at, NEW end \in Nat, NEW f, NEW g,
         NEW i \in Nat, NEW wanted \in 0..MaxAlternatives
  PROVE  Agree(f, g, Advance(i))
            => From(WalkOn(f, claims, at, end), i, wanted)
                 = From(WalkOn(g, claims, at, end), i, wanted)
<1>1. CASE Over(i, wanted, end)
  <2>1. /\ From(WalkOn(f, claims, at, end), i, wanted) = <<>>
        /\ From(WalkOn(g, claims, at, end), i, wanted) = <<>>
    BY <1>1, WalkEnds, Zenon
  <2> QED
    BY <2>1, Zenon
<1>2. CASE ~Over(i, wanted, end) /\ Free(claims, at, i)
  <2>1. PICK left \in 0..MaxAlternatives : left = wanted - 1
    BY <1>2 DEF Over, MaxAlternatives
  <2>2. /\ From(WalkOn(f, claims, at, end), i, wanted)
             = Prefixed(i, From(f, Advance(i), left))
        /\ From(WalkOn(g, claims, at, end), i, wanted)
             = Prefixed(i, From(g, Advance(i), left))
    BY <1>2, <2>1, WalkTakesTheFree
  <2> QED
    BY <2>2, Zenon DEF Agree
<1>3. CASE ~Over(i, wanted, end) /\ ~Free(claims, at, i)
  <2>1. /\ From(WalkOn(f, claims, at, end), i, wanted)
             = From(f, Advance(i), wanted)
        /\ From(WalkOn(g, claims, at, end), i, wanted)
             = From(g, Advance(i), wanted)
    BY <1>3, WalkPassesTheRest
  <2> QED
    BY <2>1, Zenon DEF Agree
<1> QED
  BY <1>1, <1>2, <1>3, Zenon

(* f is a solution of the walk's equation from a place on. *)
Solves(f, claims, at, end, k) ==
    \A i \in Nat, wanted \in 0..MaxAlternatives :
        i + k > end =>
            From(f, i, wanted) = From(WalkOn(f, claims, at, end), i, wanted)

(* One step more solves it for one candidate more. *)
LEMMA StepSolves ==
  ASSUME NEW claims, NEW at, NEW end \in Nat, NEW k \in Nat, NEW f,
         Solves(f, claims, at, end, k)
  PROVE  Solves(WalkOn(f, claims, at, end), claims, at, end, k + 1)
<1> DEFINE g == WalkOn(f, claims, at, end)
<1> SUFFICES ASSUME NEW i \in Nat, NEW wanted \in 0..MaxAlternatives,
                    i + (k + 1) > end
             PROVE  From(g, i, wanted) = From(WalkOn(g, claims, at, end), i, wanted)
  BY DEF Solves
<1>1. Advance(i) \in Nat /\ Advance(i) + k > end
  BY AdvanceGoesOn
<1>2. Agree(f, g, Advance(i))
  BY <1>1 DEF Solves, Agree
<1> QED
  BY <1>2, WalksAgree

(* The walk is what its definition says. *)
LEMMA WalkIsDefined ==
  ASSUME NEW claims, NEW at, NEW end \in Nat
  PROVE  Walk(claims, at, end)
           = WalkOn(Walk(claims, at, end), claims, at, end)
<1> DEFINE T == {k \in Nat : \E f : Solves(f, claims, at, end, k)}
<1>1. 0 \in T
  <2> DEFINE f == [place \in Places |-> <<>>]
  <2>1. ASSUME NEW i \in Nat, NEW wanted \in 0..MaxAlternatives, i > end
        PROVE  From(f, i, wanted) = From(WalkOn(f, claims, at, end), i, wanted)
    <3>1. From(f, i, wanted) = <<>>
      BY DEF Places, From
    <3>2. Over(i, wanted, end)
      BY <2>1 DEF Over
    <3> QED
      BY <3>1, <3>2, WalkEnds, Zenon
  <2> HIDE DEF f
  <2>2. Solves(f, claims, at, end, 0)
    BY <2>1 DEF Solves
  <2> QED
    BY <2>2
<1>2. \A k \in T : k + 1 \in T
  BY StepSolves
<1> HIDE DEF T
<1>3. T \in SUBSET Nat
  BY DEF T
<1>4. end + 1 \in T
  BY <1>1, <1>2, <1>3, NaturalsByInduction
<1>5. PICK f : Solves(f, claims, at, end, end + 1)
  BY <1>4 DEF T
<1> DEFINE g == WalkOn(f, claims, at, end)
<1>6. ASSUME NEW i \in Nat, NEW wanted \in 0..MaxAlternatives
      PROVE  From(g, i, wanted) = From(WalkOn(g, claims, at, end), i, wanted)
  <2>1. Advance(i) \in Nat /\ Advance(i) + (end + 1) > end
    BY AdvanceGoesOn
  <2>2. Agree(f, g, Advance(i))
    BY <1>5, <2>1 DEF Solves, Agree
  <2> QED
    BY <2>2, WalksAgree
<1>7. \A place \in Places : g[place] = WalkOn(g, claims, at, end)[place]
  BY <1>6 DEF Places, From
<1>8. g = WalkOn(g, claims, at, end)
  BY <1>7 DEF WalkOn
<1> HIDE DEF g
<1> QED
  BY <1>8 DEF Walk

-----------------------------------------------------------------------------
(* What the walk returns: free slots in order, and the first ones.         *)

(* slots are free slots from i to end, in order, and at most as many as    *)
(* are wanted.                                                             *)
InOrder(slots, claims, at, i, wanted, end) ==
    /\ slots \in Seq(Nat) /\ Len(slots) <= wanted
    /\ \A n \in 1..Len(slots) :
           Free(claims, at, slots[n]) /\ i <= slots[n] /\ slots[n] <= end
    /\ \A m, n \in 1..Len(slots) : m < n => slots[m] < slots[n]

(* Every free slot from i to end is one of slots, or comes after all of    *)
(* them when there are as many as are wanted.                              *)
NoneMissed(slots, claims, at, i, wanted, end) ==
    \A x \in Nat :
        Free(claims, at, x) /\ i <= x /\ x <= end =>
            \/ \E n \in 1..Len(slots) : slots[n] = x
            \/ Len(slots) = wanted /\ \A n \in 1..Len(slots) : slots[n] < x

LEMMA PrefixedIsLonger ==
  ASSUME NEW i \in Nat, NEW rest \in Seq(Nat)
  PROVE  /\ Prefixed(i, rest) \in Seq(Nat)
         /\ Len(Prefixed(i, rest)) = Len(rest) + 1
         /\ Prefixed(i, rest)[1] = i
         /\ \A n \in 1..Len(rest) : Prefixed(i, rest)[n + 1] = rest[n]
<1>1. <<i>> \in Seq(Nat) /\ Len(<<i>>) = 1 /\ <<i>>[1] = i
  OBVIOUS
<1> DEFINE one == <<i>>
<1> HIDE DEF one
<1>2. one \in Seq(Nat) /\ Len(one) = 1 /\ one[1] = i
  BY <1>1 DEF one
<1>3. /\ one \o rest \in Seq(Nat)
      /\ Len(one \o rest) = Len(one) + Len(rest)
      /\ \A n \in 1..(Len(one) + Len(rest)) :
             (one \o rest)[n] = IF n <= Len(one) THEN one[n] ELSE rest[n - Len(one)]
  BY <1>2, ConcatProperties
<1>4. Len(rest) \in Nat
  OBVIOUS
<1>5. (one \o rest)[1] = i
  BY <1>2, <1>3, <1>4
<1>6. \A n \in 1..Len(rest) : (one \o rest)[n + 1] = rest[n]
  BY <1>2, <1>3, <1>4
<1> QED
  BY <1>2, <1>3, <1>4, <1>5, <1>6 DEF Prefixed, one

(* A free slot lies on the half hour and within opening hours. *)
LEMMA FreeIsAHalfHour ==
  ASSUME NEW claims, NEW at, NEW i \in Nat, Free(claims, at, i)
  PROVE  i % SlotLength = 0 /\ ~OutsideHours(i)
BY NoneIsNoValue DEF Free, FailureReason, FailureReasons

(* No free slot lies between two candidates on the half hour. *)
LEMMA NothingFreeBetween ==
  ASSUME NEW claims, NEW at, NEW i \in Nat, i % SlotLength = 0,
         NEW x \in Nat, Free(claims, at, x), i < x
  PROVE  Advance(i) <= x
BY FreeIsAHalfHour, AdvanceSkipsNothing, AdvanceGoesOn

LEMMA EndsInOrder ==
  ASSUME NEW claims, NEW at, NEW end \in Nat,
         NEW i \in Nat, NEW wanted \in 0..MaxAlternatives,
         Over(i, wanted, end)
  PROVE  /\ InOrder(<<>>, claims, at, i, wanted, end)
         /\ NoneMissed(<<>>, claims, at, i, wanted, end)
<1>1. MaxAlternatives = 3
  BY DEF MaxAlternatives
<1>2. InOrder(<<>>, claims, at, i, wanted, end)
  BY <1>1 DEF InOrder
<1>3. NoneMissed(<<>>, claims, at, i, wanted, end)
  BY <1>1 DEF NoneMissed, Over
<1> QED
  BY <1>2, <1>3

LEMMA PassesInOrder ==
  ASSUME NEW claims, NEW at, NEW end \in Nat,
         NEW i \in Nat, NEW wanted \in 0..MaxAlternatives,
         ~Free(claims, at, i), NEW rest
  PROVE  /\ InOrder(rest, claims, at, Advance(i), wanted, end)
               => InOrder(rest, claims, at, i, wanted, end)
         /\ /\ i % SlotLength = 0
            /\ NoneMissed(rest, claims, at, Advance(i), wanted, end)
            => NoneMissed(rest, claims, at, i, wanted, end)
<1>1. Advance(i) \in Nat /\ i + 1 <= Advance(i)
  BY AdvanceGoesOn
<1>2. ASSUME InOrder(rest, claims, at, Advance(i), wanted, end)
      PROVE  InOrder(rest, claims, at, i, wanted, end)
  <2>1. \A n \in 1..Len(rest) : rest[n] \in Nat
    BY <1>2 DEF InOrder
  <2> QED
    BY <1>1, <1>2, <2>1 DEF InOrder
<1>3. ASSUME i % SlotLength = 0,
             NoneMissed(rest, claims, at, Advance(i), wanted, end)
      PROVE  NoneMissed(rest, claims, at, i, wanted, end)
  <2> SUFFICES ASSUME NEW x \in Nat, Free(claims, at, x), i <= x, x <= end
               PROVE  \/ \E n \in 1..Len(rest) : rest[n] = x
                      \/ /\ Len(rest) = wanted
                         /\ \A n \in 1..Len(rest) : rest[n] < x
    BY DEF NoneMissed
  <2>1. i # x
    OBVIOUS
  <2>2. Advance(i) <= x
    BY <1>3, <2>1, NothingFreeBetween
  <2> QED
    BY <1>3, <2>2 DEF NoneMissed
<1> QED
  BY <1>2, <1>3

LEMMA TakesInOrder ==
  ASSUME NEW claims, NEW at, NEW end \in Nat,
         NEW i \in Nat, NEW wanted \in 0..MaxAlternatives,
         NEW left \in 0..MaxAlternatives, left = wanted - 1,
         i <= end, Free(claims, at, i), NEW rest,
         InOrder(rest, claims, at, Advance(i), left, end)
  PROVE  /\ InOrder(Prefixed(i, rest), claims, at, i, wanted, end)
         /\ NoneMissed(rest, claims, at, Advance(i), left, end)
            => NoneMissed(Prefixed(i, rest), claims, at, i, wanted, end)
<1> DEFINE all == Prefixed(i, rest)
<1>1. Advance(i) \in Nat /\ i + 1 <= Advance(i)
  BY AdvanceGoesOn
<1>2. rest \in Seq(Nat) /\ Len(rest) \in Nat /\ Len(rest) <= left
  BY DEF InOrder
<1>3. /\ all \in Seq(Nat) /\ Len(all) = Len(rest) + 1 /\ all[1] = i
      /\ \A n \in 1..Len(rest) : all[n + 1] = rest[n]
  BY <1>2, PrefixedIsLonger
<1> HIDE DEF all
<1>4. \A n \in 1..Len(all) : n # 1 => n - 1 \in 1..Len(rest) /\ all[n] = rest[n - 1]
  <2> SUFFICES ASSUME NEW n \in 1..Len(all), n # 1
               PROVE  n - 1 \in 1..Len(rest) /\ all[n] = rest[n - 1]
    OBVIOUS
  <2>1. n - 1 \in 1..Len(rest) /\ (n - 1) + 1 = n
    BY <1>2, <1>3
  <2> QED
    BY <1>3, <2>1
<1>5. \A n \in 1..Len(rest) :
        /\ rest[n] \in Nat /\ Free(claims, at, rest[n])
        /\ Advance(i) <= rest[n] /\ rest[n] <= end
  BY <1>2 DEF InOrder
<1>6. InOrder(all, claims, at, i, wanted, end)
  <2>1. Len(all) <= wanted
    BY <1>2, <1>3
  <2>2. ASSUME NEW n \in 1..Len(all)
        PROVE  Free(claims, at, all[n]) /\ i <= all[n] /\ all[n] <= end
    <3>1. CASE n = 1
      BY <1>3, <3>1
    <3>2. CASE n # 1
      <4>1. n - 1 \in 1..Len(rest) /\ all[n] = rest[n - 1]
        BY <1>4, <3>2
      <4>2. /\ all[n] \in Nat /\ Free(claims, at, all[n])
            /\ Advance(i) <= all[n] /\ all[n] <= end
        BY <1>5, <4>1
      <4>3. i <= all[n]
        BY <1>1, <4>2
      <4> QED
        BY <4>2, <4>3
    <3> QED
      BY <3>1, <3>2
  <2>3. ASSUME NEW m \in 1..Len(all), NEW n \in 1..Len(all), m < n
        PROVE  all[m] < all[n]
    <3>1. n # 1 /\ n - 1 \in 1..Len(rest) /\ all[n] = rest[n - 1]
      BY <1>4, <2>3
    <3>2. CASE m = 1
      <4>1. all[m] = i /\ all[n] \in Nat /\ Advance(i) <= all[n]
        BY <1>3, <1>5, <3>1, <3>2
      <4> QED
        BY <1>1, <4>1
    <3>3. CASE m # 1
      <4>1. m - 1 \in 1..Len(rest) /\ all[m] = rest[m - 1] /\ m - 1 < n - 1
        BY <1>4, <2>3, <3>3
      <4> QED
        BY <3>1, <4>1 DEF InOrder
    <3> QED
      BY <3>2, <3>3
  <2> QED
    BY <1>3, <2>1, <2>2, <2>3 DEF InOrder
<1>7. ASSUME NoneMissed(rest, claims, at, Advance(i), left, end)
      PROVE  NoneMissed(all, claims, at, i, wanted, end)
  <2> SUFFICES ASSUME NEW x \in Nat, Free(claims, at, x), i <= x, x <= end
               PROVE  \/ \E n \in 1..Len(all) : all[n] = x
                      \/ Len(all) = wanted /\ \A n \in 1..Len(all) : all[n] < x
    BY DEF NoneMissed
  <2>1. CASE x = i
    BY <1>2, <1>3, <2>1
  <2>2. CASE x # i
    <3>1. Advance(i) <= x
      BY <2>2, NothingFreeBetween, FreeIsAHalfHour
    <3>2. CASE \E n \in 1..Len(rest) : rest[n] = x
      <4>1. PICK n \in 1..Len(rest) : rest[n] = x
        BY <3>2
      <4>2. all[n + 1] = x
        BY <1>3, <4>1
      <4>3. n + 1 \in 1..Len(all)
        <5>1. Len(rest) \in Nat /\ Len(all) = Len(rest) + 1
          BY <1>2, <1>3
        <5> QED
          BY <5>1
      <4> QED
        BY <4>2, <4>3
    <3>3. CASE Len(rest) = left /\ \A n \in 1..Len(rest) : rest[n] < x
      <4>1. Len(all) = wanted
        BY <1>3, <3>3
      <4>2. \A n \in 1..Len(all) : all[n] < x
        <5> SUFFICES ASSUME NEW n \in 1..Len(all) PROVE all[n] < x
          OBVIOUS
        <5>1. CASE n = 1
          BY <1>3, <2>2, <5>1
        <5>2. CASE n # 1
          <6>1. n - 1 \in 1..Len(rest) /\ all[n] = rest[n - 1]
            BY <1>4, <5>2
          <6> QED
            BY <3>3, <6>1
        <5> QED
          BY <5>1, <5>2
      <4> QED
        BY <4>1, <4>2
    <3> QED
      BY <1>7, <3>1, <3>2, <3>3 DEF NoneMissed
  <2> QED
    BY <2>1, <2>2
<1> QED
  BY <1>6, <1>7 DEF all

(* What is true of a walk from a place on. *)
FirstFree(walk, claims, at, i, wanted, end) ==
    /\ InOrder(From(walk, i, wanted), claims, at, i, wanted, end)
    /\ i % SlotLength = 0
          => NoneMissed(From(walk, i, wanted), claims, at, i, wanted, end)

AllFirstFree(walk, claims, at, end, k) ==
    \A i \in Nat, wanted \in 0..MaxAlternatives :
        i + k > end => FirstFree(walk, claims, at, i, wanted, end)

(* A step carries it from the next candidate to the one before. *)
LEMMA StepFirstFree ==
  ASSUME NEW claims, NEW at, NEW end \in Nat,
         NEW walk, walk = WalkOn(walk, claims, at, end),
         NEW i \in Nat, NEW wanted \in 0..MaxAlternatives,
         \A w \in 0..MaxAlternatives :
             FirstFree(walk, claims, at, Advance(i), w, end)
  PROVE  FirstFree(walk, claims, at, i, wanted, end)
<1> DEFINE made == From(WalkOn(walk, claims, at, end), i, wanted)
<1>1. CASE Over(i, wanted, end)
  <2>1. made = <<>>
    BY <1>1, WalkEnds
  <2> QED
    BY <1>1, <2>1, EndsInOrder DEF FirstFree
<1>2. CASE ~Over(i, wanted, end) /\ Free(claims, at, i)
  <2>1. PICK left \in 0..MaxAlternatives : left = wanted - 1
    BY <1>2 DEF Over, MaxAlternatives
  <2> DEFINE rest == From(walk, Advance(i), left)
  <2>2. made = Prefixed(i, rest)
    BY <1>2, <2>1, WalkTakesTheFree
  <2>3. FirstFree(walk, claims, at, Advance(i), left, end)
    OBVIOUS
  <2>4. InOrder(rest, claims, at, Advance(i), left, end)
    BY <2>3 DEF FirstFree
  <2>5. i % SlotLength = 0 => NoneMissed(rest, claims, at, Advance(i), left, end)
    BY <2>3, AdvanceKeepsTheHalfHour DEF FirstFree
  <2>6. i <= end
    BY <1>2 DEF Over
  <2> HIDE DEF rest
  <2>7. /\ InOrder(Prefixed(i, rest), claims, at, i, wanted, end)
        /\ NoneMissed(rest, claims, at, Advance(i), left, end)
           => NoneMissed(Prefixed(i, rest), claims, at, i, wanted, end)
    BY <1>2, <2>1, <2>4, <2>6, TakesInOrder
  <2> QED
    BY <2>2, <2>5, <2>7 DEF FirstFree
<1>3. CASE ~Over(i, wanted, end) /\ ~Free(claims, at, i)
  <2> DEFINE rest == From(walk, Advance(i), wanted)
  <2>1. made = rest
    BY <1>3, WalkPassesTheRest
  <2>2. FirstFree(walk, claims, at, Advance(i), wanted, end)
    OBVIOUS
  <2>3. InOrder(rest, claims, at, Advance(i), wanted, end)
    BY <2>2 DEF FirstFree
  <2>4. i % SlotLength = 0 => NoneMissed(rest, claims, at, Advance(i), wanted, end)
    BY <2>2, AdvanceKeepsTheHalfHour DEF FirstFree
  <2> HIDE DEF rest
  <2>5. /\ InOrder(rest, claims, at, i, wanted, end)
        /\ i % SlotLength = 0 => NoneMissed(rest, claims, at, i, wanted, end)
    BY <1>3, <2>3, <2>4, PassesInOrder
  <2> QED
    BY <2>1, <2>5 DEF FirstFree
<1> QED
  BY <1>1, <1>2, <1>3

(* What the walk returns from any place: the free slots from there to the  *)
(* end, in order, as many as are wanted; and, from a candidate on the half *)
(* hour, the first of them.                                                *)
LEMMA WalkFindsTheFirstFree ==
  ASSUME NEW claims, NEW at, NEW end \in Nat,
         NEW i \in Nat, NEW wanted \in 0..MaxAlternatives
  PROVE  FirstFree(Walk(claims, at, end), claims, at, i, wanted, end)
<1> DEFINE walk == Walk(claims, at, end)
           T == {k \in Nat : AllFirstFree(walk, claims, at, end, k)}
<1>1. walk = WalkOn(walk, claims, at, end)
  BY WalkIsDefined
<1> HIDE DEF walk
<1>2. 0 \in T
  <2> SUFFICES ASSUME NEW j \in Nat, NEW w \in 0..MaxAlternatives, j > end
               PROVE  FirstFree(walk, claims, at, j, w, end)
    BY DEF AllFirstFree
  <2>1. Over(j, w, end)
    BY DEF Over
  <2>2. From(WalkOn(walk, claims, at, end), j, w) = <<>>
    BY <2>1, WalkEnds
  <2>3. From(walk, j, w) = <<>>
    BY <1>1, <2>2
  <2> QED
    BY <2>1, <2>3, EndsInOrder DEF FirstFree
<1>3. ASSUME NEW k \in T PROVE k + 1 \in T
  <2>1. k \in Nat /\ AllFirstFree(walk, claims, at, end, k)
    BY <1>3
  <2> SUFFICES ASSUME NEW j \in Nat, NEW w \in 0..MaxAlternatives,
                      j + (k + 1) > end
               PROVE  FirstFree(walk, claims, at, j, w, end)
    BY <2>1 DEF AllFirstFree
  <2>2. Advance(j) \in Nat /\ Advance(j) + k > end
    BY <2>1, AdvanceGoesOn
  <2>3. \A v \in 0..MaxAlternatives :
          FirstFree(walk, claims, at, Advance(j), v, end)
    BY <2>1, <2>2 DEF AllFirstFree
  <2> QED
    BY <1>1, <2>3, StepFirstFree
<1> HIDE DEF T
<1>4. T \in SUBSET Nat
  BY DEF T
<1>5. end + 1 \in T
  BY <1>2, <1>3, <1>4, NaturalsByInduction
<1>6. AllFirstFree(walk, claims, at, end, end + 1)
  BY <1>5 DEF T
<1>7. i + (end + 1) > end
  OBVIOUS
<1> QED
  BY <1>6, <1>7 DEF AllFirstFree, walk

(* The alternatives of a request: free slots after it and within the       *)
(* horizon, in order, at most three; and, for a request on the half hour,  *)
(* the first of them.                                                      *)
LEMMA AlternativesAreTheFirstFree ==
  ASSUME NEW claims, NEW at, NEW requested \in Nat
  PROVE  LET offered == Alternatives(claims, at, requested)
             first == requested + SlotLength
             end == requested + Horizon
         IN  /\ InOrder(offered, claims, at, first, MaxAlternatives, end)
             /\ requested % SlotLength = 0
                   => NoneMissed(offered, claims, at, first, MaxAlternatives, end)
<1> DEFINE first == requested + SlotLength
           end == requested + Horizon
<1>1. first \in Nat /\ end \in Nat /\ MaxAlternatives \in 0..MaxAlternatives
  BY DEF SlotLength, Horizon, Day, Hour, Minute, MaxAlternatives
<1>2. requested % SlotLength = 0 => first % SlotLength = 0
  BY DEF SlotLength, Minute
<1>3. Alternatives(claims, at, requested)
        = From(Walk(claims, at, end), first, MaxAlternatives)
  BY AlternativesWalk, Zenon DEF From
<1> HIDE DEF first, end
<1>4. FirstFree(Walk(claims, at, end), claims, at, first, MaxAlternatives, end)
  BY <1>1, WalkFindsTheFirstFree
<1>5. /\ InOrder(Alternatives(claims, at, requested), claims, at, first,
                 MaxAlternatives, end)
      /\ requested % SlotLength = 0
            => NoneMissed(Alternatives(claims, at, requested), claims, at,
                          first, MaxAlternatives, end)
  BY <1>2, <1>3, <1>4 DEF FirstFree
<1> QED
  BY <1>5 DEF first, end

=============================================================================
