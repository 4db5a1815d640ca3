----------------------- MODULE RequestPipelineProofs -----------------------
(***************************************************************************)
(* Theorems about the rate limiter, for any limit, window and clock, and   *)
(* about the pipeline it is a layer of, for any number of requests.        *)
(*                                                                         *)
(* The deque of an address holds the latest admissions of its history, and *)
(* what was popped is out of the window for good (LimiterInv), and what a  *)
(* client was told outlasts what blocked it (ToldInv).  The pipeline only  *)
(* ever moves the limiter by the limiter's own steps, and finitely many    *)
(* requests are under way (PipelineInv).  The samples are naturals         *)
(* (SampleInv), and putting them in order gives each of them a place of    *)
(* its own.                                                                *)
(***************************************************************************)
EXTENDS RequestPipeline, SequenceTheorems, FiniteSetTheorems, FunctionTheorems,
        WellFoundedInduction, TLAPS

(* The window is a positive number of ticks. *)
LEMMA WindowType == Window \in Nat
BY WindowAssumption DEF Window

(* A nonempty set of naturals has a least element. *)
LEMMA LeastNatural ==
  ASSUME NEW T \in SUBSET Nat, T # {}
  PROVE  \E x \in T : \A y \in T : x <= y
<1> DEFINE Below == {ss \in Nat \X Nat : ss[1] < ss[2]}
<1>1. IsWellFoundedOn(Below, Nat)
  BY NatLessThanWellFounded DEF OpToRel
<1>2. \A x, y \in T : <<y, x>> \in Below <=> y < x
  OBVIOUS
<1> HIDE DEF Below
<1>3. \E x \in T : \A y \in T : ~ (<<y, x>> \in Below)
  BY <1>1, WFMin
<1>4. \A x, y \in T : ~ (y < x) => x <= y
  OBVIOUS
<1> QED
  BY <1>2, <1>3, <1>4, Zenon

(* A sequence over a set of naturals is one of naturals. *)
LEMMA SeqOfNaturals ==
  ASSUME NEW T \in SUBSET Nat, NEW q \in Seq(T)
  PROVE  q \in Seq(Nat)
<1>1. q \in [1..Len(q) -> T] /\ Len(q) \in Nat
  BY SeqDef, LenProperties
<1>2. q \in [1..Len(q) -> Nat]
  BY <1>1
<1> QED
  BY <1>1, <1>2, SeqDef

(* Popping stops at the first event that is later than the cutoff.         *)
LEMMA StaleStops ==
  ASSUME NEW q \in Seq(Nat), NEW cutoff \in Int
  PROVE  /\ Stale(q, cutoff) \in 0..Len(q)
         /\ \A i \in 1..Stale(q, cutoff) : q[i] <= cutoff
         /\ Stale(q, cutoff) < Len(q) => q[Stale(q, cutoff) + 1] > cutoff
<1> DEFINE Fits(n) == /\ \A i \in 1..n : q[i] <= cutoff
                      /\ n < Len(q) => q[n + 1] > cutoff
           later == {i \in 1..Len(q) : q[i] > cutoff}
<1>1. \E n \in 0..Len(q) : Fits(n)
  <2>1. CASE later = {}
    <3>1. Len(q) \in 0..Len(q) /\ \A i \in 1..Len(q) : q[i] <= cutoff
      BY <2>1
    <3> QED
      BY <3>1
  <2>2. CASE later # {}
    <3>1. later \in SUBSET Nat /\ Len(q) \in Nat
      OBVIOUS
    <3>2. PICK first \in later : \A i \in later : first <= i
      <4> HIDE DEF later
      <4> QED
        BY <2>2, <3>1, LeastNatural
    <3>3. first \in 1..Len(q) /\ q[first] > cutoff
      OBVIOUS
    <3>4. \A i \in 1 .. first - 1 : i \in 1..Len(q) /\ i \notin later
      BY <3>1, <3>2, <3>3
    <3>5. \A i \in 1 .. first - 1 : q[i] <= cutoff
      BY <3>4
    <3>6. first - 1 \in 0..Len(q) /\ (first - 1) + 1 = first
      BY <3>1, <3>3
    <3>7. q[(first - 1) + 1] > cutoff
      BY <3>3, <3>6
    <3>8. Fits(first - 1)
      BY <3>5, <3>7
    <3> QED
      BY <3>6, <3>8
  <2> QED
    BY <2>1, <2>2
<1>2. Stale(q, cutoff) \in 0..Len(q) /\ Fits(Stale(q, cutoff))
  BY <1>1 DEF Stale
<1> QED
  BY <1>2

(* What is left is the end of the deque: none of it, or all of it from an  *)
(* event on that is later than the cutoff.                                 *)
LEMMA LiveIsTheEnd ==
  ASSUME NEW T \in SUBSET Nat, NEW q \in Seq(T), NEW cutoff \in Int
  PROVE  LET n == Stale(q, cutoff) IN
         /\ Live(q, cutoff) \in Seq(T)
         /\ Len(Live(q, cutoff)) = Len(q) - n
         /\ \A i \in 1 .. Len(q) - n : Live(q, cutoff)[i] = q[n + i]
<1> DEFINE n == Stale(q, cutoff)
<1>1. q \in Seq(Nat)
  BY SeqOfNaturals
<1>2. n \in 0..Len(q)
  BY <1>1, StaleStops
<1>3. \A i \in n + 1 .. Len(q) : q[i] \in T
  BY <1>2
<1>4. /\ SubSeq(q, n + 1, Len(q)) \in Seq(T)
      /\ Len(SubSeq(q, n + 1, Len(q))) =
             IF n + 1 <= Len(q) THEN Len(q) - (n + 1) + 1 ELSE 0
      /\ \A i \in 1 .. Len(q) - (n + 1) + 1 :
             SubSeq(q, n + 1, Len(q))[i] = q[n + 1 + i - 1]
  BY <1>2, <1>3, SubSeqProperties, SMTT(30)
<1> HIDE DEF n
<1>5. /\ Live(q, cutoff) \in Seq(T)
      /\ Len(Live(q, cutoff)) = Len(q) - n
      /\ \A i \in 1 .. Len(q) - n : Live(q, cutoff)[i] = q[n + i]
  BY <1>2, <1>4 DEF Live, n
<1> QED
  BY <1>5 DEF n

(* What holds of the history h of an address and its deque q at the time   *)
(* t: the deque is the end of the history, and what came before it is out  *)
(* of the window for good.                                                 *)
EndOfHistory(h, q) ==
    /\ Len(q) <= Len(h)
    /\ \A i \in 1..Len(q) : q[i] = h[Len(h) - Len(q) + i]

PoppedIsOver(h, q, t) ==
    \A i \in 1 .. Len(h) - Len(q) : h[i] + Window <= t

InOrder(h, t) ==
    /\ \A i \in 1..Len(h) : h[i] <= t
    /\ \A i, j \in 1..Len(h) : i <= j => h[i] <= h[j]

Spaced(h) == \A i \in 1 .. Len(h) - Requests : h[i + Requests] - h[i] >= Window

Sound(h, q, t) ==
    /\ EndOfHistory(h, q)
    /\ Len(q) <= Requests
    /\ PoppedIsOver(h, q, t)
    /\ InOrder(h, t)
    /\ Spaced(h)

LimiterInv ==
    /\ LimiterTypeOK
    /\ \A a \in Addresses : Sound(admitted[a], events[a], now)

(* Time may pass. *)
LEMMA SoundLater ==
  ASSUME NEW h \in Seq(Nat), NEW q \in Seq(Nat), NEW t \in Nat, NEW later \in Nat,
         t <= later, Sound(h, q, t)
  PROVE  Sound(h, q, later)
<1>1. \A i \in 1..Len(h) : h[i] \in Nat
  OBVIOUS
<1>2. Len(h) \in Nat /\ Len(q) \in Nat /\ Window \in Nat
  BY WindowType
<1>3. PoppedIsOver(h, q, later)
  BY <1>1, <1>2 DEF Sound, PoppedIsOver
<1>4. InOrder(h, later)
  BY <1>1 DEF Sound, InOrder
<1> QED
  BY <1>3, <1>4 DEF Sound

(* Popping keeps all of it, and leaves only events inside the window.      *)
LEMMA SoundPopped ==
  ASSUME NEW h \in Seq(Nat), NEW q \in Seq(Nat), NEW t \in Nat, Sound(h, q, t)
  PROVE  LET w == Live(q, t - Window)
         IN  Sound(h, w, t) /\ \A i \in 1..Len(w) : w[i] > t - Window
<1> DEFINE cutoff == t - Window
           n == Stale(q, cutoff)
           w == Live(q, cutoff)
           gone == Len(h) - Len(q)
<1>1. cutoff \in Int /\ Window \in Nat /\ t = cutoff + Window
  BY WindowType
<1>2. /\ n \in 0..Len(q)
      /\ \A i \in 1..n : q[i] <= cutoff
      /\ n < Len(q) => q[n + 1] > cutoff
  BY <1>1, StaleStops
<1>3. /\ w \in Seq(Nat) /\ Len(w) \in Nat
      /\ Len(w) = Len(q) - n
      /\ \A i \in 1 .. Len(q) - n : w[i] = q[n + i]
  <2>1. /\ w \in Seq(Nat)
        /\ Len(w) = Len(q) - n
        /\ \A i \in 1 .. Len(q) - n : w[i] = q[n + i]
    BY <1>1, LiveIsTheEnd
  <2> HIDE DEF w, n
  <2> QED
    BY <2>1
<1>4. /\ \A i \in 1..Len(q) : q[i] = h[gone + i]
      /\ \A i \in 1..gone : h[i] + Window <= t
      /\ \A i, j \in 1..Len(h) : i <= j => h[i] <= h[j]
      /\ \A i \in 1..Len(h) : h[i] \in Nat
      /\ Len(q) <= Requests
  BY DEF Sound, EndOfHistory, PoppedIsOver, InOrder
<1>5. /\ Len(q) \in Nat /\ Len(h) \in Nat /\ n \in Nat /\ gone \in Nat
      /\ gone + Len(q) = Len(h) /\ n <= Len(q)
  BY <1>2 DEF Sound, EndOfHistory
<1> HIDE DEF cutoff, n, w, gone
<1>6. /\ Len(w) <= Len(q) /\ Len(w) <= Len(h)
      /\ Len(h) - Len(w) = gone + n
  <2>1. Len(w) <= Len(q)
    BY <1>3, <1>5
  <2>2. Len(q) <= Len(h)
    BY <1>5
  <2>3. (gone + Len(q)) - (Len(q) - n) = gone + n
    BY <1>5
  <2>4. Len(h) - Len(w) = gone + n
    BY <1>3, <1>5, <2>3, Zenon
  <2> QED
    BY <1>3, <1>5, <2>1, <2>2, <2>4
<1>7. EndOfHistory(h, w)
  <2> SUFFICES ASSUME NEW i \in 1..Len(w) PROVE w[i] = h[gone + n + i]
    BY <1>6 DEF EndOfHistory
  <2>1. i \in 1 .. Len(q) - n /\ n + i \in 1..Len(q) /\ gone + (n + i) = gone + n + i
    BY <1>3, <1>5
  <2>2. w[i] = q[n + i] /\ q[n + i] = h[gone + (n + i)]
    BY <1>3, <1>4, <2>1
  <2> QED
    BY <2>1, <2>2
<1>8. PoppedIsOver(h, w, t)
  <2> SUFFICES ASSUME NEW i \in 1 .. gone + n PROVE h[i] + Window <= t
    BY <1>6 DEF PoppedIsOver
  <2>1. i \in Int /\ 1 <= i /\ i <= gone + n
    BY <1>5
  <2>2. CASE i <= gone
    BY <1>4, <1>5, <2>1, <2>2
  <2>3. CASE i > gone
    <3> DEFINE k == i - gone
    <3>1. k \in 1..n /\ k \in 1..Len(q) /\ gone + k = i /\ i \in 1..Len(h)
      BY <1>5, <2>1, <2>3
    <3> HIDE DEF k
    <3>2. q[k] <= cutoff /\ q[k] = h[i] /\ h[i] \in Nat
      BY <1>2, <1>4, <3>1
    <3> QED
      BY <1>1, <3>2
  <2> QED
    BY <1>5, <2>1, <2>2, <2>3
<1>9. \A i \in 1..Len(w) : w[i] > cutoff
  <2> TAKE i \in 1..Len(w)
  <2> DEFINE first == gone + (n + 1)
             this == gone + (n + i)
  <2>1. i \in Int /\ 1 <= i /\ n + i <= Len(q)
    BY <1>3, <1>5
  <2>2. n < Len(q) /\ n + 1 \in 1..Len(q) /\ n + i \in 1..Len(q)
    BY <1>5, <2>1, SMTT(30)
  <2>3. q[n + 1] > cutoff /\ q[n + 1] = h[first]
    BY <1>2, <1>4, <2>2
  <2>4. w[i] = q[n + i] /\ q[n + i] = h[this]
    BY <1>3, <1>4, <2>2
  <2>5. first \in 1..Len(h) /\ this \in 1..Len(h) /\ first <= this
    <3>1. first \in Nat /\ this \in Nat /\ 1 <= first /\ first <= this
      BY <1>5, <2>1
    <3>2. this <= gone + Len(q)
      BY <1>5, <2>1
    <3> HIDE DEF first, this
    <3> QED
      BY <1>5, <3>1, <3>2
  <2> HIDE DEF first, this
  <2>6. h[first] <= h[this] /\ h[first] \in Nat /\ h[this] \in Nat
    BY <1>4, <2>5
  <2> QED
    BY <1>1, <2>3, <2>4, <2>6
<1>10. Len(w) <= Requests
  BY <1>4, <1>5, <1>6, LimitAssumption
<1> QED
  BY <1>7, <1>8, <1>9, <1>10 DEF Sound, w, cutoff

(* A request that is let through while there is room keeps all of it.      *)
LEMMA SoundAdmitted ==
  ASSUME NEW h \in Seq(Nat), NEW w \in Seq(Nat), NEW t \in Nat,
         Sound(h, w, t), Len(w) < Requests
  PROVE  Sound(Append(h, t), Append(w, t), t)
<1> DEFINE h1 == Append(h, t)
           w1 == Append(w, t)
           gone == Len(h) - Len(w)
<1>1. /\ Len(h1) = Len(h) + 1 /\ h1[Len(h) + 1] = t
      /\ \A i \in 1..Len(h) : h1[i] = h[i]
  BY AppendProperties
<1>2. /\ Len(w1) = Len(w) + 1 /\ w1[Len(w) + 1] = t
      /\ \A i \in 1..Len(w) : w1[i] = w[i]
  BY AppendProperties
<1>3. /\ Len(h) \in Nat /\ Len(w) \in Nat /\ gone \in Nat
      /\ gone + Len(w) = Len(h) /\ Requests \in Nat /\ Window \in Nat
  BY LimitAssumption, WindowType DEF Sound, EndOfHistory
<1>4. /\ \A i \in 1..Len(w) : w[i] = h[gone + i]
      /\ \A i \in 1..gone : h[i] + Window <= t
      /\ \A i \in 1..Len(h) : h[i] <= t
      /\ \A i, j \in 1..Len(h) : i <= j => h[i] <= h[j]
      /\ \A i \in 1..Len(h) : h[i] \in Nat
      /\ \A i \in 1 .. Len(h) - Requests : h[i + Requests] - h[i] >= Window
  BY DEF Sound, EndOfHistory, PoppedIsOver, InOrder, Spaced
<1> HIDE DEF h1, w1, gone
<1>5. Len(h1) - Len(w1) = gone /\ Len(w1) <= Len(h1) /\ Len(w1) <= Requests
  <2>1. Len(h1) \in Nat /\ Len(w1) \in Nat /\ Len(w1) <= Requests
    BY <1>1, <1>2, <1>3
  <2>2. Len(w) <= Len(h)
    BY <1>3
  <2>3. Len(w1) <= Len(h1)
    BY <1>1, <1>2, <1>3, <2>2
  <2>4. ((gone + Len(w)) + 1) - (Len(w) + 1) = gone
    BY <1>3
  <2>5. Len(h1) - Len(w1) = gone
    BY <1>1, <1>2, <1>3, <2>4, Zenon
  <2> QED
    BY <2>1, <2>3, <2>5
<1>6. EndOfHistory(h1, w1)
  <2> SUFFICES ASSUME NEW i \in 1..Len(w1) PROVE w1[i] = h1[gone + i]
    BY <1>5 DEF EndOfHistory
  <2>1. CASE i \in 1..Len(w)
    <3>1. gone + i \in 1..Len(h)
      BY <1>3, <2>1
    <3> QED
      BY <1>1, <1>2, <1>4, <2>1, <3>1
  <2>2. CASE i = Len(w) + 1
    <3>1. gone + (Len(w) + 1) = (gone + Len(w)) + 1
      BY <1>3
    <3>2. (gone + Len(w)) + 1 = Len(h) + 1
      BY <1>3, Zenon
    <3>3. gone + i = Len(h) + 1
      BY <2>2, <3>1, <3>2, Zenon
    <3> QED
      BY <1>1, <1>2, <2>2, <3>3
  <2> QED
    BY <1>2, <1>3, <2>1, <2>2
<1>7. PoppedIsOver(h1, w1, t)
  <2> SUFFICES ASSUME NEW i \in 1..gone PROVE h1[i] + Window <= t
    BY <1>5 DEF PoppedIsOver
  <2>1. i \in 1..Len(h)
    BY <1>3
  <2> QED
    BY <1>1, <1>4, <2>1
<1>8. InOrder(h1, t)
  <2>1. \A i \in 1..Len(h1) : i \in 1..Len(h) \/ i = Len(h) + 1
    BY <1>1, <1>3
  <2>2. \A i \in 1..Len(h1) : h1[i] <= t
    BY <1>1, <1>4, <2>1, SMTT(30)
  <2>3. ASSUME NEW i \in 1..Len(h1), NEW j \in 1..Len(h1), i <= j
        PROVE  h1[i] <= h1[j]
    <3>1. CASE j = Len(h) + 1
      BY <1>1, <2>2, <3>1
    <3>2. CASE j \in 1..Len(h)
      <4>1. i \in 1..Len(h)
        BY <1>3, <2>3, <3>2
      <4> QED
        BY <1>1, <1>4, <2>3, <3>2, <4>1
    <3> QED
      BY <2>1, <3>1, <3>2
  <2> QED
    BY <2>2, <2>3 DEF InOrder
<1>9. Spaced(h1)
  <2> SUFFICES ASSUME NEW i \in 1 .. Len(h1) - Requests
               PROVE  h1[i + Requests] - h1[i] >= Window
    BY DEF Spaced
  <2>1. i \in Int /\ 1 <= i /\ i + Requests <= Len(h) + 1
    BY <1>1, <1>3
  <2> DEFINE last == i + Requests
  <2>2. CASE i + Requests <= Len(h)
    <3>1. /\ i \in 1 .. Len(h) - Requests /\ i \in 1..Len(h)
          /\ i + Requests \in 1..Len(h)
      BY <1>3, <2>1, <2>2
    <3> QED
      BY <1>1, <1>4, <3>1
  <2>3. CASE i + Requests = Len(h) + 1
    <3>1. i \in 1..gone /\ i \in 1..Len(h)
      BY <1>3, <2>1, <2>3, LimitAssumption
    <3>2. h1[i + Requests] = t /\ h1[i] = h[i] /\ h[i] + Window <= t /\ h[i] \in Nat
      BY <1>1, <1>4, <2>3, <3>1
    <3> QED
      BY <1>3, <3>2, SMTT(30)
  <2>4. last \in Int /\ last <= Len(h) + 1
    BY <1>3, <2>1
  <2>5. last <= Len(h) \/ last = Len(h) + 1
    <3> HIDE DEF last
    <3> QED
      BY <1>3, <2>4
  <2> QED
    BY <2>2, <2>3, <2>5
<1> QED
  BY <1>5, <1>6, <1>7, <1>8, <1>9 DEF Sound, h1, w1

-----------------------------------------------------------------------------
(* The invariant is established, and every step keeps it.                  *)

LEMMA LimiterInit_Inv == LimiterInit => LimiterInv
<1> SUFFICES ASSUME LimiterInit PROVE LimiterInv
  OBVIOUS
<1>1. LimiterTypeOK
  BY InstantsAssumption DEF LimiterInit, LimiterTypeOK
<1>2. ASSUME NEW a \in Addresses PROVE Sound(admitted[a], events[a], now)
  <2>1. admitted[a] = <<>> /\ events[a] = <<>>
    BY DEF LimiterInit
  <2> QED
    BY <2>1, LimitAssumption
    DEF Sound, EndOfHistory, PoppedIsOver, InOrder, Spaced
<1> QED
  BY <1>1, <1>2 DEF LimiterInv

(* What the limiter decides on is sound, and inside the window.            *)
LEMMA WindowNow ==
  ASSUME LimiterInv, NEW a \in Addresses
  PROVE  /\ InWindow(a) \in Seq(Instants) /\ InWindow(a) \in Seq(Nat)
         /\ admitted[a] \in Seq(Instants) /\ admitted[a] \in Seq(Nat)
         /\ now \in Instants /\ now \in Nat
         /\ Sound(admitted[a], InWindow(a), now)
         /\ \A i \in 1..Len(InWindow(a)) : InWindow(a)[i] > now - Window
<1>1. /\ events[a] \in Seq(Instants) /\ admitted[a] \in Seq(Instants)
      /\ now \in Instants /\ Instants \in SUBSET Nat
  BY InstantsAssumption DEF LimiterInv, LimiterTypeOK
<1>2. events[a] \in Seq(Nat) /\ admitted[a] \in Seq(Nat) /\ now \in Nat
  BY <1>1, SeqOfNaturals
<1>3. now - Window \in Int
  BY <1>2, WindowType
<1>4. InWindow(a) \in Seq(Instants)
  BY <1>1, <1>3, LiveIsTheEnd DEF InWindow
<1>5. InWindow(a) \in Seq(Nat)
  BY <1>1, <1>4, SeqOfNaturals
<1>6. /\ Sound(admitted[a], InWindow(a), now)
      /\ \A i \in 1..Len(InWindow(a)) : InWindow(a)[i] > now - Window
  BY <1>2, SoundPopped DEF LimiterInv, InWindow
<1> QED
  BY <1>1, <1>2, <1>4, <1>5, <1>6

LEMMA RetryAfterType ==
  ASSUME NEW q \in Seq(Nat), q # <<>>, now \in Nat
  PROVE  RetryAfter(q) \in Nat
<1>1. q[1] \in Nat /\ Window \in Nat
  BY WindowType
<1>2. RoundedSeconds(q[1] + Window - now) \in Int
  BY <1>1, WindowAssumption DEF RoundedSeconds
<1> QED
  BY <1>2 DEF RetryAfter

LEMMA RefuseKeepsInv ==
  ASSUME LimiterInv, NEW a \in Addresses, Refuse(a)
  PROVE  LimiterInv'
<1>1. /\ events' = [events EXCEPT ![a] = InWindow(a)]
      /\ told' = [told EXCEPT
                    ![a] = @ \cup {[at |-> now, after |-> RetryAfter(InWindow(a))]}]
      /\ now' = now /\ admitted' = admitted
      /\ Len(InWindow(a)) >= Requests
  BY DEF Refuse, Full
<1>2. /\ InWindow(a) \in Seq(Instants) /\ InWindow(a) \in Seq(Nat)
      /\ now \in Instants /\ now \in Nat
      /\ Sound(admitted[a], InWindow(a), now)
  BY WindowNow
<1>3. [at |-> now, after |-> RetryAfter(InWindow(a))] \in Refusal
  <2>1. InWindow(a) # <<>>
    BY <1>1, LimitAssumption
  <2> QED
    BY <1>2, <2>1, RetryAfterType DEF Refusal
<1>4. LimiterTypeOK'
  BY <1>1, <1>2, <1>3 DEF LimiterInv, LimiterTypeOK
<1>5. ASSUME NEW b \in Addresses PROVE Sound(admitted[b], events[b], now)'
  BY <1>1, <1>2 DEF LimiterInv, LimiterTypeOK
<1> QED
  BY <1>4, <1>5 DEF LimiterInv

LEMMA AdmitKeepsInv ==
  ASSUME LimiterInv, NEW a \in Addresses, Admit(a)
  PROVE  LimiterInv'
<1>1. /\ events' = [events EXCEPT ![a] = Append(InWindow(a), now)]
      /\ admitted' = [admitted EXCEPT ![a] = Append(admitted[a], now)]
      /\ told' = [told EXCEPT ![a] = {}]
      /\ now' = now
      /\ ~ (Len(InWindow(a)) >= Requests)
  BY DEF Admit, Full
<1>2. /\ InWindow(a) \in Seq(Instants) /\ InWindow(a) \in Seq(Nat)
      /\ admitted[a] \in Seq(Instants) /\ admitted[a] \in Seq(Nat)
      /\ now \in Instants /\ now \in Nat
      /\ Sound(admitted[a], InWindow(a), now)
  BY WindowNow
<1>3. Len(InWindow(a)) < Requests
  BY <1>1, <1>2, LimitAssumption
<1>4. LimiterTypeOK'
  <2>1. /\ Append(InWindow(a), now) \in Seq(Instants)
        /\ Append(admitted[a], now) \in Seq(Instants)
    BY <1>2
  <2> QED
    BY <1>1, <1>2, <2>1 DEF LimiterInv, LimiterTypeOK
<1>5. Sound(Append(admitted[a], now), Append(InWindow(a), now), now)
  BY <1>2, <1>3, SoundAdmitted
<1>6. ASSUME NEW b \in Addresses PROVE Sound(admitted[b], events[b], now)'
  <2>1. CASE b = a
    <3>1. admitted'[b] = Append(admitted[a], now) /\ events'[b] = Append(InWindow(a), now)
      BY <1>1, <2>1 DEF LimiterInv, LimiterTypeOK
    <3> QED
      BY <1>1, <1>5, <3>1
  <2>2. CASE b # a
    <3>1. admitted'[b] = admitted[b] /\ events'[b] = events[b]
      BY <1>1, <2>2 DEF LimiterInv, LimiterTypeOK
    <3> QED
      BY <1>1, <3>1 DEF LimiterInv
  <2> QED
    BY <2>1, <2>2
<1> QED
  BY <1>4, <1>6 DEF LimiterInv

LEMMA LaterKeepsInv ==
  ASSUME LimiterInv, LaterOn
  PROVE  LimiterInv'
<1>1. /\ now' \in Instants /\ now' > now
      /\ events' = events /\ admitted' = admitted /\ told' = told
  BY DEF LaterOn
<1>2. LimiterTypeOK'
  BY <1>1 DEF LimiterInv, LimiterTypeOK
<1>3. ASSUME NEW b \in Addresses PROVE Sound(admitted[b], events[b], now)'
  <2>1. /\ events[b] \in Seq(Instants) /\ admitted[b] \in Seq(Instants)
        /\ Instants \in SUBSET Nat
    BY InstantsAssumption DEF LimiterInv, LimiterTypeOK
  <2>2. /\ events[b] \in Seq(Nat) /\ admitted[b] \in Seq(Nat)
        /\ now \in Nat /\ now' \in Nat /\ now <= now'
    BY <1>1, <2>1, SeqOfNaturals DEF LimiterInv, LimiterTypeOK
  <2>3. Sound(admitted[b], events[b], now')
    BY <2>2, SoundLater DEF LimiterInv
  <2> QED
    BY <1>1, <2>3
<1> QED
  BY <1>2, <1>3 DEF LimiterInv

LEMMA LimiterNext_Inv == LimiterInv /\ [LimiterNext]_limiterVars => LimiterInv'
<1> SUFFICES ASSUME LimiterInv, [LimiterNext]_limiterVars PROVE LimiterInv'
  OBVIOUS
<1>1. CASE LaterOn
  BY <1>1, LaterKeepsInv
<1>2. ASSUME NEW a \in Addresses, Admit(a) PROVE LimiterInv'
  BY <1>2, AdmitKeepsInv
<1>3. ASSUME NEW a \in Addresses, Refuse(a) PROVE LimiterInv'
  BY <1>3, RefuseKeepsInv
<1>4. CASE UNCHANGED limiterVars
  BY <1>4 DEF limiterVars, LimiterInv, LimiterTypeOK
<1> QED
  BY <1>1, <1>2, <1>3, <1>4 DEF LimiterNext

-----------------------------------------------------------------------------

(* The invariant, and with it the type of the limiter's state, holds in    *)
(* every state.                                                            *)
THEOREM LimiterAlwaysSound == LimiterSpec => []LimiterInv
BY LimiterInit_Inv, LimiterNext_Inv, PTL DEF LimiterSpec

(* No window of the configured length, wherever it starts, sees more       *)
(* admissions of an address than the limit.                                *)
THEOREM LimiterWindowRespected == LimiterSpec => []WindowRespected
<1>1. LimiterInv => WindowRespected
  BY DEF LimiterInv, Sound, Spaced, WindowRespected
<1> QED
  BY <1>1, LimiterAlwaysSound, PTL

(* The blocker is the first of a full window. *)
LEMMA FullWindow ==
  ASSUME LimiterInv, NEW a \in Addresses, Full(a)
  PROVE  /\ Len(admitted[a]) >= Requests
         /\ InWindow(a) # <<>> /\ InWindow(a) \in Seq(Nat)
         /\ InWindow(a)[1] = Blocker(a)
         /\ Blocker(a) \in Nat
         /\ Blocker(a) > now - Window
<1> DEFINE w == InWindow(a)
           h == admitted[a]
<1>1. /\ w \in Seq(Nat) /\ h \in Seq(Nat)
      /\ Sound(h, w, now)
      /\ \A i \in 1..Len(w) : w[i] > now - Window
  BY WindowNow
<1>2. Len(w) >= Requests
  BY DEF Full
<1> HIDE DEF w, h
<1>3. /\ Len(w) <= Requests /\ Len(w) <= Len(h)
      /\ \A i \in 1..Len(w) : w[i] = h[Len(h) - Len(w) + i]
  BY <1>1 DEF Sound, EndOfHistory
<1>4. Len(w) \in Nat /\ Len(h) \in Nat /\ Len(w) = Requests /\ 1 \in 1..Len(w)
  BY <1>1, <1>2, <1>3, LimitAssumption
<1>a. Len(h) - Requests + 1 = Len(h) + 1 - Requests
  BY <1>4, LimitAssumption
<1>b. w[1] = h[Len(h) - Requests + 1]
  BY <1>3, <1>4
<1>5. /\ w # <<>> /\ w[1] > now - Window /\ w[1] \in Nat
      /\ w[1] = h[Len(h) + 1 - Requests]
      /\ Len(h) >= Requests
  BY <1>1, <1>3, <1>4, <1>a, <1>b
<1> QED
  BY <1>1, <1>5 DEF w, h, Blocker

(* A refusal means that the limit is used up at that moment.               *)
THEOREM LimiterRefusesOnlyWhenFull == LimiterSpec => RefusedOnlyWhenFull
<1>1. ASSUME LimiterInv, NEW a \in Addresses, Refuse(a)
      PROVE  Len(admitted[a]) >= Requests /\ Blocker(a) > now - Window
  BY <1>1, FullWindow DEF Refuse
<1>2. LimiterInv =>
          [\A a \in Addresses :
              Refuse(a) => /\ Len(admitted[a]) >= Requests
                           /\ Blocker(a) > now - Window]_limiterVars
  BY <1>1
<1> QED
  BY <1>2, LimiterAlwaysSound, PTL DEF RefusedOnlyWhenFull

-----------------------------------------------------------------------------
(* What a refused client is told.                                          *)

(* Rounding takes off half a second at most.                               *)
LEMMA RoundedByHalf ==
  ASSUME NEW ticks \in Int
  PROVE  /\ RoundedSeconds(ticks) \in Int
         /\ 2 * ticks <= (2 * RoundedSeconds(ticks) + 1) * TicksPerSecond
<1> DEFINE whole == ticks \div TicksPerSecond
           part == ticks % TicksPerSecond
<1>0. TicksPerSecond \in Nat /\ TicksPerSecond > 0
  BY WindowAssumption
<1>1. /\ whole \in Int /\ part \in Int /\ part < TicksPerSecond
      /\ ticks = TicksPerSecond * whole + part
  BY <1>0
<1>2. RoundedSeconds(ticks) =
          IF 2 * part > TicksPerSecond \/ (2 * part = TicksPerSecond /\ whole % 2 = 1)
              THEN whole + 1 ELSE whole
  BY DEF RoundedSeconds
<1> HIDE DEF whole, part
<1> DEFINE product == TicksPerSecond * whole
<1>3. product \in Int /\ ticks = product + part
  BY <1>0, <1>1
<1>4. (2 * whole + 1) * TicksPerSecond = 2 * product + TicksPerSecond
  BY <1>0, <1>1
<1>5. (2 * (whole + 1) + 1) * TicksPerSecond = 2 * product + 3 * TicksPerSecond
  BY <1>0, <1>1
<1> HIDE DEF product
<1>6. CASE RoundedSeconds(ticks) = whole + 1
  <2>1. 2 * ticks <= 2 * product + 3 * TicksPerSecond
    BY <1>0, <1>1, <1>3
  <2> QED
    BY <1>1, <1>5, <1>6, <2>1
<1>7. CASE RoundedSeconds(ticks) = whole /\ 2 * part <= TicksPerSecond
  <2>1. 2 * ticks <= 2 * product + TicksPerSecond
    BY <1>0, <1>1, <1>3, <1>7
  <2> QED
    BY <1>1, <1>4, <1>7, <2>1
<1>8. \/ RoundedSeconds(ticks) = whole + 1
      \/ RoundedSeconds(ticks) = whole /\ 2 * part <= TicksPerSecond
  BY <1>0, <1>1, <1>2
<1>9. RoundedSeconds(ticks) \in Int
  BY <1>1, <1>8
<1> QED
  BY <1>6, <1>7, <1>8, <1>9

(* Who waits as long as RetryAfter says, and half a second more, waits     *)
(* until the oldest event has left the window.                             *)
LEMMA RetryAfterReaches ==
  ASSUME NEW q \in Seq(Nat), q # <<>>, now \in Nat
  PROVE  2 * (q[1] + Window - now) <= (2 * RetryAfter(q) + 1) * TicksPerSecond
<1> DEFINE ticks == q[1] + Window - now
           seconds == RoundedSeconds(ticks)
<1>1. ticks \in Int
  BY WindowType
<1>2. seconds \in Int /\ 2 * ticks <= (2 * seconds + 1) * TicksPerSecond
  BY <1>1, RoundedByHalf
<1>3. RetryAfter(q) = IF seconds < 1 THEN 1 ELSE seconds
  BY DEF RetryAfter
<1>4. TicksPerSecond \in Nat
  BY WindowAssumption
<1> HIDE DEF ticks, seconds
<1>5. (2 * seconds + 1) * TicksPerSecond <= (2 * RetryAfter(q) + 1) * TicksPerSecond
  <2>1. RetryAfter(q) \in Int /\ 2 * seconds + 1 <= 2 * RetryAfter(q) + 1
    BY <1>2, <1>3
  <2>2. \A x, y \in Int : x <= y => x * TicksPerSecond <= y * TicksPerSecond
    BY <1>4
  <2>3. 2 * seconds + 1 \in Int /\ 2 * RetryAfter(q) + 1 \in Int
    BY <1>2, <2>1
  <2> QED
    BY <2>1, <2>2, <2>3
<1>6. 2 * ticks <= (2 * RetryAfter(q) + 1) * TicksPerSecond
  <2>1. /\ 2 * ticks \in Int /\ (2 * seconds + 1) * TicksPerSecond \in Int
        /\ (2 * RetryAfter(q) + 1) * TicksPerSecond \in Int
    BY <1>1, <1>2, <1>3, <1>4
  <2> QED
    BY <1>2, <1>5, <2>1
<1> QED
  BY <1>6 DEF ticks

(* What a client was told reaches to the moment its blocker has left the   *)
(* window, as long as no other request takes the place.                    *)
Kept(a, r) ==
    /\ Len(admitted[a]) >= Requests
    /\ 2 * (Blocker(a) + Window - r.at) <= (2 * r.after + 1) * TicksPerSecond

ToldInv == \A a \in Addresses : \A r \in told[a] : Kept(a, r)

LEMMA ToldInit == LimiterInit => ToldInv
BY DEF LimiterInit, ToldInv

LEMMA ToldNext == LimiterInv /\ ToldInv /\ [LimiterNext]_limiterVars => ToldInv'
<1> SUFFICES ASSUME LimiterInv, ToldInv, [LimiterNext]_limiterVars PROVE ToldInv'
  OBVIOUS
<1>1. CASE LaterOn \/ UNCHANGED limiterVars
  BY <1>1 DEF LaterOn, limiterVars, ToldInv, Kept, Blocker
<1>2. ASSUME NEW a \in Addresses, Admit(a) PROVE ToldInv'
  <2>1. ASSUME NEW b \in Addresses, NEW r \in told'[b] PROVE Kept(b, r)'
    <3>1. b # a
      BY <1>2, <2>1 DEF Admit, LimiterInv, LimiterTypeOK
    <3>2. admitted'[b] = admitted[b] /\ told'[b] = told[b]
      BY <1>2, <3>1 DEF Admit, LimiterInv, LimiterTypeOK
    <3> QED
      BY <2>1, <3>2 DEF ToldInv, Kept, Blocker
  <2> QED
    BY <2>1 DEF ToldInv
<1>3. ASSUME NEW a \in Addresses, Refuse(a) PROVE ToldInv'
  <2> DEFINE refusal == [at |-> now, after |-> RetryAfter(InWindow(a))]
  <2>1. /\ told' = [told EXCEPT ![a] = @ \cup {refusal}]
        /\ admitted' = admitted /\ Full(a)
    BY <1>3 DEF Refuse
  <2>2. ASSUME NEW b \in Addresses, NEW r \in told'[b] PROVE Kept(b, r)'
    <3>1. r \in told[b] \/ (b = a /\ r = refusal)
      BY <2>1, <2>2 DEF LimiterInv, LimiterTypeOK
    <3>2. CASE r \in told[b]
      BY <2>1, <3>2 DEF ToldInv, Kept, Blocker
    <3>3. CASE b = a /\ r = refusal
      <4>1. /\ Len(admitted[a]) >= Requests
            /\ InWindow(a) # <<>> /\ InWindow(a) \in Seq(Nat)
            /\ InWindow(a)[1] = Blocker(a)
        BY <2>1, FullWindow
      <4>2. now \in Nat
        BY InstantsAssumption DEF LimiterInv, LimiterTypeOK
      <4>3. 2 * (Blocker(a) + Window - now)
                <= (2 * RetryAfter(InWindow(a)) + 1) * TicksPerSecond
        BY <4>1, <4>2, RetryAfterReaches
      <4> QED
        BY <2>1, <3>3, <4>1, <4>3 DEF Kept, Blocker
    <3> QED
      BY <3>1, <3>2, <3>3
  <2> QED
    BY <2>2 DEF ToldInv
<1> QED
  BY <1>1, <1>2, <1>3 DEF LimiterNext

(* A client that was told to retry and waits as long as it was told, and   *)
(* half a second more, is not refused again while no other request of its  *)
(* address was let through: the Retry-After of the middleware is enough,   *)
(* whatever the window, the limit and the resolution of the clock.         *)
THEOREM LimiterRetryAfterIsEnough == LimiterSpec => RetryAfterIsEnough
<1>1. ASSUME LimiterInv, ToldInv, NEW a \in Addresses, Refuse(a), NEW r \in told[a]
      PROVE  2 * (now - r.at) < (2 * r.after + 1) * TicksPerSecond
  <2>1. Blocker(a) \in Nat /\ Blocker(a) > now - Window
    BY <1>1, FullWindow DEF Refuse
  <2>2. 2 * (Blocker(a) + Window - r.at) <= (2 * r.after + 1) * TicksPerSecond
    BY <1>1 DEF ToldInv, Kept
  <2>3. r \in Refusal /\ now \in Instants
    BY <1>1 DEF LimiterInv, LimiterTypeOK
  <2>4. /\ r.at \in Nat /\ r.after \in Nat /\ now \in Nat /\ Window \in Nat
        /\ TicksPerSecond \in Nat
    BY <2>3, InstantsAssumption, WindowAssumption, WindowType DEF Refusal
  <2> DEFINE reach == (2 * r.after + 1) * TicksPerSecond
  <2>5. reach \in Nat /\ 2 * (Blocker(a) + Window - r.at) <= reach
    BY <2>2, <2>4
  <2> HIDE DEF reach
  <2>6. 2 * (now - r.at) < reach
    BY <2>1, <2>4, <2>5
  <2> QED
    BY <2>6 DEF reach
<1>2. LimiterInv /\ ToldInv /\ [LimiterNext]_limiterVars =>
          [\A a \in Addresses :
               Refuse(a) =>
                   \A r \in told[a] :
                       2 * (now - r.at) < (2 * r.after + 1) * TicksPerSecond]_limiterVars
  BY <1>1
<1> QED
  BY <1>2, LimiterInit_Inv, LimiterNext_Inv, ToldInit, ToldNext, PTL
     DEF LimiterSpec, RetryAfterIsEnough

-----------------------------------------------------------------------------
(* The pipeline.                                                           *)

StageNames == {"idle", "arrived", "inside"} \cup Outcomes

(* The requests that arrived are those under way and those counted.        *)
PipelineInv ==
    /\ stage \in [Handlers -> StageNames]
    /\ DOMAIN request = Handlers
    /\ \A h \in Busy : request[h].from \in Addresses
    /\ counters \in [Counted -> Nat]
    /\ succeeded \in Nat
    /\ IsFiniteSet(Busy)
    /\ RequestsAccounted

LEMMA PipelineInit_Inv == Init => PipelineInv
<1> SUFFICES ASSUME Init PROVE PipelineInv
  OBVIOUS
<1>1. Busy = {}
  BY DEF Init, Busy
<1>2. IsFiniteSet(Busy) /\ Cardinality(Busy) = 0
  BY <1>1, FS_EmptySet
<1> QED
  BY <1>1, <1>2 DEF Init, PipelineInv, StageNames, Counted, RequestsAccounted

(* A request that moves on from one layer to another stays under way.      *)
LEMMA ProceedKeepsInv ==
  ASSUME PipelineInv, NEW h \in Handlers, NEW to \in StageNames \ {"idle"},
         stage[h] # "idle", Proceed(h, to)
  PROVE  PipelineInv'
<1>1. /\ stage' = [stage EXCEPT ![h] = to]
      /\ request' = request /\ counters' = counters /\ succeeded' = succeeded
  BY DEF Proceed
<1>2. stage' \in [Handlers -> StageNames]
  BY <1>1 DEF PipelineInv
<1>3. Busy' = Busy
  BY <1>1 DEF PipelineInv, Busy
<1> QED
  BY <1>1, <1>2, <1>3 DEF PipelineInv, RequestsAccounted

LEMMA ArriveKeepsInv ==
  ASSUME PipelineInv, NEW h \in Handlers, NEW a \in Addresses, NEW kind \in Kinds,
         Arrive(h, a, kind)
  PROVE  PipelineInv'
<1>1. /\ stage[h] = "idle" /\ stage' = [stage EXCEPT ![h] = "arrived"]
      /\ request' = [request EXCEPT
                        ![h] = [from |-> a, kind |-> kind, since |-> now]]
      /\ counters' = [counters EXCEPT
                         !["http_requests_total"] = counters["http_requests_total"] + 1]
      /\ succeeded' = succeeded
  BY DEF Arrive
<1>2. stage' \in [Handlers -> StageNames]
  BY <1>1 DEF PipelineInv, StageNames
<1>3. Busy' = Busy \cup {h} /\ h \notin Busy
  BY <1>1 DEF PipelineInv, Busy
<1>4. IsFiniteSet(Busy') /\ Cardinality(Busy') = Cardinality(Busy) + 1
  BY <1>3, FS_AddElement DEF PipelineInv
<1>5. Cardinality(Busy) \in Nat
  BY FS_CardinalityType DEF PipelineInv
<1>6. /\ counters' \in [Counted -> Nat]
      /\ counters'["http_requests_total"] = counters["http_requests_total"] + 1
      /\ counters'["http_4xx_total"] = counters["http_4xx_total"]
      /\ counters'["http_5xx_total"] = counters["http_5xx_total"]
      /\ counters'["http_unhandled_errors_total"]
             = counters["http_unhandled_errors_total"]
  BY <1>1 DEF PipelineInv, Counted
<1>7. RequestsAccounted'
  BY <1>1, <1>4, <1>5, <1>6 DEF PipelineInv, RequestsAccounted, Counted
<1>8. DOMAIN request' = Handlers
  BY <1>1 DEF PipelineInv
<1>9. ASSUME NEW g \in Busy' PROVE request'[g].from \in Addresses
  <2>1. CASE g = h
    <3>1. request'[g] = [from |-> a, kind |-> kind, since |-> now]
      BY <1>1, <2>1 DEF PipelineInv
    <3> QED
      BY <3>1
  <2>2. CASE g # h
    <3>1. g \in Busy /\ g \in Handlers
      BY <1>3, <2>2 DEF Busy
    <3>2. request'[g] = request[g]
      BY <1>1, <2>2, <3>1 DEF PipelineInv
    <3> QED
      BY <3>1, <3>2 DEF PipelineInv
  <2> QED
    BY <2>1, <2>2
<1> QED
  BY <1>1, <1>2, <1>4, <1>6, <1>7, <1>8, <1>9 DEF PipelineInv

(* An answer is counted under its outcome as its request leaves.           *)
LEMMA AnswerKeepsInv ==
  ASSUME PipelineInv, NEW h \in Handlers, Answer(h)
  PROVE  PipelineInv'
<1>1. /\ stage[h] \in Outcomes /\ stage' = [stage EXCEPT ![h] = "idle"]
      /\ request' = [request EXCEPT ![h] = NoRequest]
      /\ counters' = IF stage[h] = "ok" THEN counters
                     ELSE [counters EXCEPT
                             ![CounterOf[stage[h]]] =
                                 counters[CounterOf[stage[h]]] + 1]
      /\ succeeded' = IF stage[h] = "ok" THEN succeeded + 1 ELSE succeeded
  BY DEF Answer
<1>2. stage' \in [Handlers -> StageNames]
  BY <1>1 DEF PipelineInv, StageNames
<1>3. Busy' = Busy \ {h} /\ h \in Busy
  BY <1>1 DEF PipelineInv, Busy, Outcomes
<1>4. IsFiniteSet(Busy') /\ Cardinality(Busy') = Cardinality(Busy) - 1
  BY <1>3, FS_RemoveElement DEF PipelineInv
<1>5. Cardinality(Busy) \in Nat
  BY FS_CardinalityType DEF PipelineInv
<1>6. DOMAIN request' = Handlers
  BY <1>1 DEF PipelineInv
<1>7. ASSUME NEW g \in Busy' PROVE request'[g].from \in Addresses
  <2>1. g \in Busy /\ g # h /\ g \in Handlers
    BY <1>3 DEF Busy
  <2>2. request'[g] = request[g]
    BY <1>1, <2>1 DEF PipelineInv
  <2> QED
    BY <2>1, <2>2 DEF PipelineInv
<1>8. /\ counters' \in [Counted -> Nat] /\ succeeded' \in Nat
      /\ counters'["http_requests_total"] = counters["http_requests_total"]
      /\ succeeded' + counters'["http_4xx_total"] + counters'["http_5xx_total"]
             + counters'["http_unhandled_errors_total"]
         = succeeded + counters["http_4xx_total"] + counters["http_5xx_total"]
             + counters["http_unhandled_errors_total"] + 1
  <2>1. counters \in [Counted -> Nat] /\ succeeded \in Nat
    BY DEF PipelineInv
  <2>2. CASE stage[h] = "ok"
    BY <1>1, <2>1, <2>2 DEF Counted
  <2>3. CASE stage[h] = "4xx"
    <3>1. CounterOf[stage[h]] = "http_4xx_total"
      BY <2>3 DEF CounterOf, Outcomes
    <3> QED
      BY <1>1, <2>1, <2>3, <3>1 DEF Counted
  <2>4. CASE stage[h] = "5xx"
    <3>1. CounterOf[stage[h]] = "http_5xx_total"
      BY <2>4 DEF CounterOf, Outcomes
    <3> QED
      BY <1>1, <2>1, <2>4, <3>1 DEF Counted
  <2>5. CASE stage[h] = "raised"
    <3>1. CounterOf[stage[h]] = "http_unhandled_errors_total"
      BY <2>5 DEF CounterOf, Outcomes
    <3> QED
      BY <1>1, <2>1, <2>5, <3>1 DEF Counted
  <2> QED
    BY <1>1, <2>2, <2>3, <2>4, <2>5 DEF Outcomes
<1>9. RequestsAccounted'
  BY <1>4, <1>5, <1>8 DEF PipelineInv, RequestsAccounted, Counted
<1> QED
  BY <1>2, <1>4, <1>6, <1>7, <1>8, <1>9 DEF PipelineInv

LEMMA Next_PipelineInv == PipelineInv /\ [Next]_vars => PipelineInv'
<1> SUFFICES ASSUME PipelineInv, [Next]_vars PROVE PipelineInv'
  OBVIOUS
<1>1. CASE UNCHANGED pipelineVars
  <2>1. Busy' = Busy
    BY <1>1 DEF pipelineVars, Busy
  <2> QED
    BY <1>1, <2>1 DEF pipelineVars, PipelineInv, RequestsAccounted
<1>2. ASSUME NEW h \in Handlers, NEW a \in Addresses, NEW kind \in Kinds,
             Arrive(h, a, kind)
      PROVE  PipelineInv'
  BY <1>2, ArriveKeepsInv
<1>3. ASSUME NEW h \in Handlers,
             RefuseBody(h) \/ PassHealth(h) \/ PassLimiter(h) \/ RefuseRate(h)
      PROVE  PipelineInv'
  <2>1. stage[h] # "idle" /\ (Proceed(h, "4xx") \/ Proceed(h, "inside"))
    BY <1>3 DEF RefuseBody, PassHealth, PassLimiter, RefuseRate
  <2> QED
    BY <2>1, ProceedKeepsInv DEF StageNames, Outcomes
<1>4. ASSUME NEW h \in Handlers, NEW outcome \in Outcomes, Handle(h, outcome)
      PROVE  PipelineInv'
  <2>1. stage[h] # "idle" /\ Proceed(h, outcome) /\ outcome \in StageNames \ {"idle"}
    BY <1>4 DEF Handle, StageNames, Outcomes
  <2> QED
    BY <2>1, ProceedKeepsInv
<1>5. ASSUME NEW h \in Handlers, Answer(h) PROVE PipelineInv'
  BY <1>5, AnswerKeepsInv
<1> QED
  BY <1>1, <1>2, <1>3, <1>4, <1>5 DEF Next, PassTime, Rest, vars

(* However many requests are under way, and whichever layer answers them,  *)
(* every request that arrived is under way or counted exactly once.        *)
THEOREM PipelineAccountsRequests == Spec => []RequestsAccounted
<1>1. PipelineInv => RequestsAccounted
  BY DEF PipelineInv
<1> QED
  BY <1>1, PipelineInit_Inv, Next_PipelineInv, PTL DEF Spec

(* Inside the pipeline the limiter makes the limiter's own steps only: no  *)
(* other layer touches its deques, and nobody passes or is refused who is  *)
(* no client.  So all that is proved of the limiter holds in the pipeline. *)
THEOREM PipelineImplementsLimiter == Spec => LimiterSpec
<1>1. Init => LimiterInit
  BY DEF Init
<1>2. PipelineInv /\ [Next]_vars => [LimiterNext]_limiterVars
  <2> SUFFICES ASSUME PipelineInv, [Next]_vars PROVE [LimiterNext]_limiterVars
    OBVIOUS
  <2>1. CASE UNCHANGED limiterVars
    BY <2>1
  <2>2. CASE PassTime
    BY <2>2 DEF PassTime, LimiterNext
  <2>3. ASSUME NEW h \in Handlers, PassLimiter(h) \/ RefuseRate(h)
        PROVE  [LimiterNext]_limiterVars
    <3>1. h \in Busy
      BY <2>3 DEF PassLimiter, RefuseRate, Busy
    <3>2. request[h].from \in Addresses
      BY <3>1 DEF PipelineInv
    <3>3. Admit(request[h].from) \/ Refuse(request[h].from)
      BY <2>3 DEF PassLimiter, RefuseRate
    <3> QED
      BY <3>2, <3>3 DEF LimiterNext
  <2>4. ASSUME NEW h \in Handlers, NEW a \in Addresses, NEW kind \in Kinds,
               Arrive(h, a, kind)
        PROVE  UNCHANGED limiterVars
    BY <2>4 DEF Arrive
  <2>5. ASSUME NEW h \in Handlers,
               \/ RefuseBody(h) \/ PassHealth(h) \/ Answer(h)
               \/ \E outcome \in Outcomes : Handle(h, outcome)
        PROVE  UNCHANGED limiterVars
    BY <2>5 DEF RefuseBody, PassHealth, Answer, Handle
  <2> QED
    BY <2>1, <2>2, <2>3, <2>4, <2>5 DEF Next, Rest, vars
<1> QED
  BY <1>1, <1>2, PipelineInit_Inv, Next_PipelineInv, PTL DEF Spec, LimiterSpec

(* The limit holds of every pipeline of requests.                          *)
THEOREM PipelineWindowRespected == Spec => []WindowRespected
BY PipelineImplementsLimiter, LimiterWindowRespected, PTL

-----------------------------------------------------------------------------
(* What the snapshot reports.                                              *)

(* The samples up to one, in order. *)
UpTo(s, i) == {j \in DOMAIN s : \/ s[j] < s[i]
                                \/ s[j] = s[i] /\ j <= i}

LEMMA PlaceCounts == \A s, i : Place(s, i) = Cardinality(UpTo(s, i))
BY DEF Place, UpTo

LEMMA Positions ==
  ASSUME NEW s \in Seq(Nat)
  PROVE  IsFiniteSet(1..Len(s)) /\ Cardinality(1..Len(s)) = Len(s)
<1>1. Len(s) \in Nat
  OBVIOUS
<1>2. \A n \in Nat : IsFiniteSet(1..n) /\ Cardinality(1..n) = n
  BY FS_Interval
<1> QED
  BY <1>1, <1>2, Zenon

(* Every sample has a place of its own, and the places keep the order of   *)
(* the values.                                                             *)
LEMMA PlacesInOrder ==
  ASSUME NEW s \in Seq(Nat)
  PROVE  /\ \A i \in 1..Len(s) : Place(s, i) \in 1..Len(s)
         /\ \A i, j \in 1..Len(s) :
                i # j /\ i \in UpTo(s, j) => Place(s, i) < Place(s, j)
         /\ \A i, j \in 1..Len(s) : Place(s, i) = Place(s, j) => i = j
<1> DEFINE All == 1..Len(s)
<1>1. /\ Len(s) \in Nat /\ DOMAIN s = All /\ \A i \in All : s[i] \in Nat
  OBVIOUS
<1>2. IsFiniteSet(All) /\ Cardinality(All) = Len(s)
  BY Positions
<1>3. \A i \in All : UpTo(s, i) \in SUBSET All /\ i \in UpTo(s, i)
  BY <1>1 DEF UpTo
<1> HIDE DEF All
<1>4. ASSUME NEW i \in All
      PROVE  IsFiniteSet(UpTo(s, i)) /\ Place(s, i) \in 1..Len(s)
  <2> DEFINE T == UpTo(s, i)
  <2>1. T \in SUBSET All /\ i \in T
    BY <1>3
  <2> HIDE DEF T
  <2>2. IsFiniteSet(T) /\ Cardinality(T) <= Len(s)
    BY <1>2, <2>1, FS_Subset
  <2>3. Cardinality(T) \in Nat /\ Cardinality(T) # 0
    BY <2>1, <2>2, FS_CardinalityType, FS_EmptySet
  <2>4. Place(s, i) = Cardinality(T)
    BY PlaceCounts DEF T
  <2>5. Cardinality(T) \in 1..Len(s)
    BY <1>1, <2>2, <2>3
  <2> QED
    BY <2>2, <2>4, <2>5 DEF T
<1>5. ASSUME NEW i \in All, NEW j \in All, i # j, i \in UpTo(s, j)
      PROVE  Place(s, i) < Place(s, j)
  <2> DEFINE S == UpTo(s, i)
             T == UpTo(s, j)
  <2>1. i \in Nat /\ j \in Nat
    BY DEF All
  <2>2. s[i] < s[j] \/ (s[i] = s[j] /\ i < j)
    BY <1>1, <1>5, <2>1 DEF UpTo
  <2>3. S \subseteq T
    BY <1>1, <2>1, <2>2 DEF UpTo, All
  <2>4. j \in T /\ j \notin S
    BY <1>1, <2>1, <2>2 DEF UpTo
  <2>5. IsFiniteSet(T) /\ IsFiniteSet(S)
    BY <1>4
  <2>6. Place(s, i) = Cardinality(S) /\ Place(s, j) = Cardinality(T)
    BY PlaceCounts
  <2> HIDE DEF S, T
  <2>7. Cardinality(S) <= Cardinality(T) /\ Cardinality(S) # Cardinality(T)
    BY <2>3, <2>4, <2>5, FS_Subset
  <2>8. Cardinality(S) \in Nat /\ Cardinality(T) \in Nat
    BY <2>5, FS_CardinalityType
  <2> QED
    BY <2>6, <2>7, <2>8
<1>6. ASSUME NEW i \in All, NEW j \in All, Place(s, i) = Place(s, j)
      PROVE  i = j
  <2> SUFFICES ASSUME i # j PROVE FALSE
    OBVIOUS
  <2>1. i \in UpTo(s, j) \/ j \in UpTo(s, i)
    BY <1>1 DEF UpTo, All
  <2>2. Place(s, i) \in Nat /\ Place(s, j) \in Nat
    BY <1>4
  <2>3. Place(s, i) < Place(s, j) \/ Place(s, j) < Place(s, i)
    BY <1>5, <2>1
  <2> QED
    BY <1>6, <2>2, <2>3
<1> QED
  BY <1>4, <1>5, <1>6 DEF All

(* Every place is taken. *)
LEMMA PlacesTaken ==
  ASSUME NEW s \in Seq(Nat), NEW k \in 1..Len(s)
  PROVE  \E i \in 1..Len(s) : Place(s, i) = k
<1> DEFINE All == 1..Len(s)
           place == [i \in All |-> Place(s, i)]
<1>1. IsFiniteSet(All)
  BY FS_Interval
<1>2. place \in [All -> All]
  BY PlacesInOrder
<1>3. \A i, j \in All : place[i] = place[j] => i = j
  BY PlacesInOrder
<1> HIDE DEF All, place
<1>4. place \in Injection(All, All)
  BY <1>2, <1>3, Fun_IsInj
<1>5. place \in Surjection(All, All)
  BY <1>1, <1>4, FS_Injection
<1>6. \A t \in All : \E i \in All : place[i] = t
  BY <1>5, Fun_SurjectionProperties
<1> QED
  BY <1>6 DEF All, place

(* Where the k-th sample in order is. *)
At(s, k) == CHOOSE i \in DOMAIN s : Place(s, i) = k

LEMMA SortedIsInOrder ==
  ASSUME NEW s \in Seq(Nat)
  PROVE  /\ \A k \in 1..Len(s) :
                /\ At(s, k) \in 1..Len(s) /\ Place(s, At(s, k)) = k
                /\ Sorted(s)[k] = s[At(s, k)]
         /\ \A i \in 1..Len(s) : Sorted(s)[Place(s, i)] = s[i]
         /\ \A j, k \in 1..Len(s) : j <= k => Sorted(s)[j] <= Sorted(s)[k]
<1>1. DOMAIN s = 1..Len(s) /\ \A i \in 1..Len(s) : s[i] \in Nat
  OBVIOUS
<1>2. ASSUME NEW k \in 1..Len(s)
      PROVE  /\ At(s, k) \in 1..Len(s) /\ Place(s, At(s, k)) = k
             /\ Sorted(s)[k] = s[At(s, k)]
  <2>1. \E i \in DOMAIN s : Place(s, i) = k
    BY <1>1, PlacesTaken
  <2>2. At(s, k) \in DOMAIN s /\ Place(s, At(s, k)) = k
    BY <2>1 DEF At
  <2>3. Sorted(s)[k] = s[At(s, k)]
    BY <1>1 DEF Sorted, At
  <2> QED
    BY <1>1, <2>2, <2>3
<1>3. ASSUME NEW i \in 1..Len(s) PROVE Sorted(s)[Place(s, i)] = s[i]
  <2> DEFINE k == Place(s, i)
  <2>1. k \in 1..Len(s)
    BY PlacesInOrder
  <2>2. At(s, k) \in 1..Len(s) /\ Place(s, At(s, k)) = Place(s, i)
    BY <1>2, <2>1
  <2>3. At(s, k) = i
    BY <2>2, PlacesInOrder
  <2> QED
    BY <1>2, <2>1, <2>3
<1>4. ASSUME NEW j \in 1..Len(s), NEW k \in 1..Len(s), j <= k
      PROVE  Sorted(s)[j] <= Sorted(s)[k]
  <2> DEFINE a == At(s, j)
             b == At(s, k)
  <2>1. /\ a \in 1..Len(s) /\ b \in 1..Len(s)
        /\ Place(s, a) = j /\ Place(s, b) = k
        /\ Sorted(s)[j] = s[a] /\ Sorted(s)[k] = s[b]
    BY <1>2
  <2> HIDE DEF a, b
  <2> SUFFICES ASSUME s[b] < s[a] PROVE FALSE
    BY <1>1, <2>1
  <2>2. b \in UpTo(s, a) /\ a # b
    BY <1>1, <2>1 DEF UpTo
  <2>3. k < j
    BY <2>1, <2>2, PlacesInOrder
  <2> QED
    BY <1>4, <2>3
<1> QED
  BY <1>2, <1>3, <1>4

LEMMA MinOfTwo ==
  ASSUME NEW a \in Int, NEW b \in Int
  PROVE  Min({a, b}) = IF a <= b THEN a ELSE b
<1> DEFINE m == IF a <= b THEN a ELSE b
<1>1. m \in {a, b} /\ \A y \in {a, b} : m <= y
  OBVIOUS
<1>2. \A x \in {a, b} : (\A y \in {a, b} : x <= y) => x = m
  OBVIOUS
<1> HIDE DEF m
<1>3. Min({a, b}) = m
  BY <1>1, <1>2 DEF Min
<1> QED
  BY <1>3 DEF m

(* The place a percentile is read at. *)
Index(n, percent) == Min({Rounded((n - 1) * percent, 100), n - 1})

LEMMA IndicesInOrder ==
  ASSUME NEW n \in Nat, n > 0
  PROVE  /\ Index(n, 50) \in 0 .. n - 1 /\ Index(n, 95) \in 0 .. n - 1
         /\ Index(n, 50) <= Index(n, 95)
         /\ n <= 2 * (Index(n, 50) + 1)
         /\ n <= 2 * (n - Index(n, 50))
<1> DEFINE half == Rounded((n - 1) * 50, 100)
           most == Rounded((n - 1) * 95, 100)
<1>1. half \in Nat /\ n - 2 <= 2 * half /\ 2 * half <= n
  BY DEF Rounded
<1>2. most \in Nat /\ half <= most
  BY DEF Rounded
<1> HIDE DEF half, most
<1>3. /\ Index(n, 50) = IF half <= n - 1 THEN half ELSE n - 1
      /\ Index(n, 95) = IF most <= n - 1 THEN most ELSE n - 1
  BY <1>1, <1>2, MinOfTwo DEF Index, half, most
<1> QED
  BY <1>1, <1>2, <1>3

LEMMA PercentileIs ==
  ASSUME NEW s, s # <<>>, NEW percent
  PROVE  Percentile(s, percent) = Reported(Sorted(s)[Index(Len(s), percent) + 1])
BY DEF Percentile, Index

(* The last of the samples in order is the largest. *)
LEMMA LargestIsLast ==
  ASSUME NEW s \in Seq(Nat), s # <<>>
  PROVE  \E top \in Nat : /\ Largest(s) = Reported(top)
                          /\ \A k \in 1..Len(s) : Sorted(s)[k] <= top
<1>1. DOMAIN s = 1..Len(s) /\ \A i \in 1..Len(s) : s[i] \in Nat
  OBVIOUS
<1>2. Len(s) \in Nat /\ Len(s) > 0
  OBVIOUS
<1> DEFINE top == s[At(s, Len(s))]
<1>3. /\ Len(s) \in 1..Len(s) /\ At(s, Len(s)) \in 1..Len(s)
      /\ Sorted(s)[Len(s)] = top
  BY <1>2, SortedIsInOrder
<1>4. top \in ToSet(s)
  BY <1>1, <1>3 DEF ToSet
<1>5. \A y \in ToSet(s) : top >= y
  <2> SUFFICES ASSUME NEW i \in 1..Len(s) PROVE top >= s[i]
    BY <1>1 DEF ToSet
  <2>1. Place(s, i) \in 1..Len(s) /\ Sorted(s)[Place(s, i)] = s[i]
    BY PlacesInOrder, SortedIsInOrder
  <2>2. Place(s, i) <= Len(s)
    BY <2>1
  <2>3. s[i] <= top
    BY <1>3, <2>1, <2>2, SortedIsInOrder
  <2> QED
    BY <1>1, <1>3, <2>3
<1>6. \A x \in ToSet(s) : x \in Nat
  BY <1>1 DEF ToSet
<1> HIDE DEF top
<1>7. Max(ToSet(s)) \in ToSet(s) /\ \A y \in ToSet(s) : Max(ToSet(s)) >= y
  BY <1>4, <1>5 DEF Max
<1>8. Largest(s) = Reported(Max(ToSet(s))) /\ Max(ToSet(s)) \in Nat
  BY <1>6, <1>7 DEF Largest
<1> SUFFICES ASSUME NEW k \in 1..Len(s) PROVE Sorted(s)[k] <= Max(ToSet(s))
  BY <1>8
<1>9. At(s, k) \in 1..Len(s) /\ Sorted(s)[k] = s[At(s, k)]
  BY SortedIsInOrder
<1>10. s[At(s, k)] \in ToSet(s)
  BY <1>1, <1>9 DEF ToSet
<1> QED
  BY <1>6, <1>7, <1>8, <1>9, <1>10

(* Rounding moves a fraction by half at most. *)
LEMMA RoundedNear ==
  ASSUME NEW n \in Nat, NEW d \in Nat, d > 0
  PROVE  /\ Rounded(n, d) \in Nat
         /\ 2 * n <= (2 * Rounded(n, d) + 1) * d
         /\ 2 * n >= (2 * Rounded(n, d) - 1) * d
<1> DEFINE whole == n \div d
           part == n % d
           up == whole + 1
<1>1. whole \in Nat /\ part \in Nat /\ part < d /\ n = d * whole + part
  OBVIOUS
<1>2. Rounded(n, d) =
          IF 2 * part > d \/ (2 * part = d /\ whole % 2 = 1) THEN up ELSE whole
  BY DEF Rounded
<1> HIDE DEF whole, part
<1>3. \/ Rounded(n, d) = up /\ 2 * part >= d
      \/ Rounded(n, d) = whole /\ 2 * part <= d
  BY <1>1, <1>2
<1> DEFINE product == d * whole
<1>4. product \in Nat /\ n = product + part
  BY <1>1
<1>5. /\ (2 * whole + 1) * d = 2 * product + d
      /\ (2 * whole - 1) * d = 2 * product - d
      /\ (2 * up + 1) * d = 2 * product + 3 * d
      /\ (2 * up - 1) * d = 2 * product + d
  BY <1>1
<1> HIDE DEF product
<1>6. CASE Rounded(n, d) = up /\ 2 * part >= d
  <2>1. 2 * n <= 2 * product + 3 * d /\ 2 * n >= 2 * product + d
    BY <1>1, <1>4, <1>6
  <2> QED
    BY <1>1, <1>5, <1>6, <2>1
<1>7. CASE Rounded(n, d) = whole /\ 2 * part <= d
  <2>1. 2 * n <= 2 * product + d /\ 2 * n >= 2 * product - d
    BY <1>1, <1>4, <1>7
  <2> QED
    BY <1>1, <1>5, <1>7, <2>1
<1> QED
  BY <1>3, <1>6, <1>7

(* ... and keeps the order of two fractions. *)
LEMMA RoundedInOrder ==
  ASSUME NEW m \in Nat, NEW n \in Nat, m <= n, NEW d \in Nat, d > 0
  PROVE  Rounded(m, d) <= Rounded(n, d)
<1> DEFINE a == Rounded(m, d)
           b == Rounded(n, d)
<1>1. /\ a \in Nat /\ b \in Nat
      /\ 2 * m >= (2 * a - 1) * d /\ 2 * n <= (2 * b + 1) * d
  BY RoundedNear
<1>2. CASE m = n
  BY <1>1, <1>2
<1>3. CASE m < n
  <2> HIDE DEF a, b
  <2> SUFFICES ASSUME b + 1 <= a PROVE FALSE
    BY <1>1 DEF a, b
  <2>1. \A x, y \in Int : x <= y => x * d <= y * d
    OBVIOUS
  <2>2. 2 * b + 1 \in Int /\ 2 * a - 1 \in Int /\ 2 * b + 1 <= 2 * a - 1
    BY <1>1
  <2>3. (2 * b + 1) * d <= (2 * a - 1) * d
    BY <2>1, <2>2
  <2>4. (2 * b + 1) * d \in Int /\ (2 * a - 1) * d \in Int
    BY <1>1
  <2> QED
    BY <1>1, <1>3, <2>3, <2>4
<1> QED
  BY <1>2, <1>3

(* A reported latency is a number of steps, no more than half a step from  *)
(* the latency, and the larger latency is never reported as the smaller.   *)
LEMMA ReportedKeepsOrder ==
  /\ \A x \in Nat : /\ Reported(x) \in Nat
                   /\ AtMost(x, Reported(x)) /\ AtLeast(x, Reported(x))
  /\ \A x, y \in Nat : x <= y => Reported(x) <= Reported(y)
<1>1. /\ ReportsPerSecond \in Nat
      /\ TicksPerSecond \in Nat /\ TicksPerSecond > 0
  BY ReportsAssumption, WindowAssumption
<1>2. \A x \in Nat : x * ReportsPerSecond \in Nat
  BY <1>1
<1>3. \A x, y \in Nat : x <= y => x * ReportsPerSecond <= y * ReportsPerSecond
  BY <1>1
<1>4. ASSUME NEW x \in Nat
      PROVE  /\ Reported(x) \in Nat
             /\ AtMost(x, Reported(x)) /\ AtLeast(x, Reported(x))
  BY <1>1, <1>2, RoundedNear DEF Reported, AtMost, AtLeast
<1>5. ASSUME NEW x \in Nat, NEW y \in Nat, x <= y
      PROVE  Reported(x) <= Reported(y)
  BY <1>1, <1>2, <1>3, <1>5, RoundedInOrder DEF Reported
<1> QED
  BY <1>4, <1>5

(* What is at most a latency is at most its report, up to half a step, and *)
(* likewise for what is at least.                                          *)
LEMMA SidesOfAReport ==
  ASSUME NEW x \in Nat, NEW y \in Nat
  PROVE  /\ x <= y => AtMost(x, Reported(y))
         /\ x >= y => AtLeast(x, Reported(y))
<1> DEFINE p == x * ReportsPerSecond
           q == y * ReportsPerSecond
           low == (2 * Reported(y) - 1) * TicksPerSecond
           high == (2 * Reported(y) + 1) * TicksPerSecond
<1>1. ReportsPerSecond \in Nat /\ TicksPerSecond \in Nat
  BY ReportsAssumption, WindowAssumption
<1>2. /\ x <= y => p <= q
      /\ x >= y => p >= q
      /\ p \in Nat /\ q \in Nat
  BY <1>1
<1>3. Reported(y) \in Nat /\ 2 * q <= high /\ 2 * q >= low
  BY ReportedKeepsOrder DEF AtMost, AtLeast
<1>4. low \in Int /\ high \in Int
  BY <1>1, <1>3
<1>5. /\ AtMost(x, Reported(y)) <=> 2 * p <= high
      /\ AtLeast(x, Reported(y)) <=> 2 * p >= low
  BY DEF AtMost, AtLeast
<1> HIDE DEF p, q, low, high
<1> QED
  BY <1>2, <1>3, <1>4, <1>5

(* The number of samples on each side of a place in order. *)
LEMMA SidesOfAPlace ==
  ASSUME NEW s \in Seq(Nat), NEW k \in 1..Len(s)
  PROVE  /\ Cardinality({i \in DOMAIN s : s[i] <= Sorted(s)[k]}) >= k
         /\ Cardinality({i \in DOMAIN s : s[i] >= Sorted(s)[k]}) >= Len(s) + 1 - k
<1> DEFINE All == 1..Len(s)
           c == At(s, k)
           value == Sorted(s)[k]
           T == UpTo(s, c)
           less == T \ {c}
           rest == All \ less
           atMost == {i \in DOMAIN s : s[i] <= value}
           atLeast == {i \in DOMAIN s : s[i] >= value}
<1>1. Len(s) \in Nat /\ DOMAIN s = All /\ \A i \in All : s[i] \in Nat
  OBVIOUS
<1>2. c \in All /\ Place(s, c) = k /\ value = s[c]
  BY SortedIsInOrder
<1>3. k \in Nat
  OBVIOUS
<1>4. IsFiniteSet(All) /\ Cardinality(All) = Len(s)
  BY Positions
<1>5. Cardinality(T) = k
  BY <1>2, PlaceCounts
<1> HIDE DEF c, value
<1>6. T \in SUBSET All /\ c \in T /\ T \subseteq atMost
  BY <1>1, <1>2 DEF UpTo
<1>7. rest \subseteq atLeast
  BY <1>1, <1>2 DEF UpTo
<1>8. atMost \in SUBSET All /\ atLeast \in SUBSET All
  BY <1>1
<1>9. T \cap {c} = {c} /\ less \in SUBSET All /\ All \cap less = less
  BY <1>6
<1> HIDE DEF All, T, atMost, atLeast
<1>10. IsFiniteSet(T) /\ IsFiniteSet(atMost) /\ IsFiniteSet(atLeast)
  BY <1>4, <1>6, <1>8, FS_Subset
<1>11. Cardinality(T) <= Cardinality(atMost)
  BY <1>6, <1>10, FS_Subset
<1>12. IsFiniteSet(less) /\ Cardinality(less) = k - 1
  BY <1>5, <1>6, <1>10, FS_RemoveElement
<1> HIDE DEF less
<1>13. Cardinality(rest) = Len(s) - (k - 1)
  <2>1. Cardinality(All \ less) = Cardinality(All) - Cardinality(All \cap less)
    BY <1>4, FS_Difference
  <2>2. Cardinality(All \ less) = Cardinality(All) - Cardinality(less)
    BY <1>9, <2>1
  <2>3. Cardinality(All \ less) = Len(s) - (k - 1)
    BY <1>4, <1>12, <2>2
  <2> QED
    BY <2>3
<1> HIDE DEF rest
<1>14. Cardinality(rest) <= Cardinality(atLeast)
  BY <1>7, <1>10, FS_Subset
<1>15. Cardinality(atMost) \in Nat /\ Cardinality(atLeast) \in Nat
  BY <1>10, FS_CardinalityType
<1>16. Cardinality(atMost) >= k /\ Cardinality(atLeast) >= Len(s) + 1 - k
  BY <1>1, <1>3, <1>5, <1>11, <1>13, <1>14, <1>15
<1> QED
  BY <1>16 DEF atMost, atLeast, value

(* What the snapshot says of any samples. *)
LEMMA SnapshotOfSamples ==
  ASSUME latencies \in Seq(Nat)
  PROVE  SnapshotIsOrdered
<1> DEFINE n == Len(latencies)
           p50 == Percentile(latencies, 50)
           p95 == Percentile(latencies, 95)
           below == {i \in DOMAIN latencies : AtMost(latencies[i], p50)}
           above == {i \in DOMAIN latencies : AtLeast(latencies[i], p50)}
<1>1. DOMAIN latencies = 1..n /\ n \in Nat /\ \A i \in 1..n : latencies[i] \in Nat
  OBVIOUS
<1>2. Cardinality(below) \in Nat /\ Cardinality(above) \in Nat
  <2>1. IsFiniteSet(DOMAIN latencies)
    BY <1>1, FS_Interval
  <2>2. below \in SUBSET DOMAIN latencies /\ above \in SUBSET DOMAIN latencies
    OBVIOUS
  <2> HIDE DEF below, above
  <2> QED
    BY <2>1, <2>2, FS_Subset, FS_CardinalityType
<1>3. CASE latencies = <<>>
  <2>1. p50 = 0 /\ p95 = 0 /\ Largest(latencies) = 0 /\ n = 0
    BY <1>3 DEF Percentile, Largest
  <2> HIDE DEF n, p50, p95, below, above
  <2>2. 2 * Cardinality(below) >= n /\ 2 * Cardinality(above) >= n
    BY <1>2, <2>1
  <2> QED
    BY <2>1, <2>2 DEF SnapshotIsOrdered, n, p50, p95, below, above
<1>4. CASE latencies # <<>>
  <2> DEFINE i50 == Index(n, 50) + 1
             i95 == Index(n, 95) + 1
             median == Sorted(latencies)[i50]
             tail == Sorted(latencies)[i95]
  <2>1. n > 0
    BY <1>4
  <2>2. p50 = Reported(median) /\ p95 = Reported(tail)
    BY <1>4, PercentileIs
  <2>3. /\ i50 \in 1..n /\ i95 \in 1..n /\ i50 <= i95
        /\ n <= 2 * i50 /\ n <= 2 * (n + 1 - i50)
    <3> HIDE DEF n, p50, p95, below, above
    <3> DEFINE a == Index(n, 50)
               b == Index(n, 95)
    <3>1. /\ a \in 0 .. n - 1 /\ b \in 0 .. n - 1 /\ a <= b
          /\ n <= 2 * (a + 1) /\ n <= 2 * (n - a)
      BY <1>1, <2>1, IndicesInOrder
    <3> HIDE DEF a, b
    <3>2. /\ a + 1 \in 1..n /\ b + 1 \in 1..n /\ a + 1 <= b + 1
          /\ n <= 2 * (n + 1 - (a + 1))
      BY <1>1, <2>1, <3>1
    <3> QED
      BY <3>1, <3>2 DEF a, b
  <2> HIDE DEF i50, i95
  <2>4. median \in Nat /\ tail \in Nat /\ median <= tail
    BY <1>1, <2>3, SortedIsInOrder
  <2>5. PICK top \in Nat : /\ Largest(latencies) = Reported(top)
                          /\ \A k \in 1..n : Sorted(latencies)[k] <= top
    BY <1>4, LargestIsLast
  <2>6. tail <= top
    BY <2>3, <2>5
  <2> DEFINE lower == {i \in DOMAIN latencies : latencies[i] <= median}
             upper == {i \in DOMAIN latencies : latencies[i] >= median}
  <2>7. Cardinality(lower) >= i50 /\ Cardinality(upper) >= n + 1 - i50
    BY <2>3, SidesOfAPlace
  <2> HIDE DEF median, tail
  <2>8. lower \subseteq below /\ upper \subseteq above
    BY <1>1, <2>2, <2>4, SidesOfAReport
  <2>9. IsFiniteSet(below) /\ IsFiniteSet(above)
    <3>1. below \in SUBSET (1..n) /\ above \in SUBSET (1..n)
      BY <1>1
    <3>2. IsFiniteSet(1..n)
      BY Positions
    <3> HIDE DEF below, above
    <3> QED
      BY <3>1, <3>2, FS_Subset
  <2> HIDE DEF n, p50, p95, below, above, lower, upper
  <2>10. /\ Cardinality(lower) <= Cardinality(below) /\ Cardinality(lower) \in Nat
         /\ Cardinality(upper) <= Cardinality(above) /\ Cardinality(upper) \in Nat
    BY <2>8, <2>9, FS_Subset, FS_CardinalityType
  <2>11. 2 * Cardinality(below) >= n /\ 2 * Cardinality(above) >= n
    <3>1. i50 \in Nat
      BY <1>1, <2>3
    <3> QED
      BY <1>1, <1>2, <2>3, <2>7, <2>10, <3>1, SMTT(30)
  <2>12. p50 <= p95 /\ p95 <= Largest(latencies)
    BY <2>2, <2>4, <2>5, <2>6, ReportedKeepsOrder
  <2> QED
    BY <2>11, <2>12 DEF SnapshotIsOrdered, n, p50, p95, below, above
<1> QED
  BY <1>3, <1>4

(* What is known of the samples and of the requests under way: a request   *)
(* arrived no later than now, so the latency it leaves is a natural.       *)
SampleInv ==
    /\ latencies \in Seq(Nat) /\ Len(latencies) <= MaxSamples
    /\ \A h \in Busy : request[h] \in Request /\ request[h].since <= now

LEMMA SampleInit == Init => SampleInv
<1> SUFFICES ASSUME Init PROVE SampleInv
  OBVIOUS
<1>1. Busy = {}
  BY DEF Init, Busy
<1>2. latencies \in Seq(Nat) /\ Len(latencies) = 0
  BY DEF Init
<1> QED
  BY <1>1, <1>2, SamplesAssumption DEF SampleInv

(* The deque of samples keeps to its length. *)
LEMMA ObservedType ==
  ASSUME NEW s \in Seq(Nat), Len(s) <= MaxSamples, NEW d \in Nat
  PROVE  Observed(s, d) \in Seq(Nat) /\ Len(Observed(s, d)) <= MaxSamples
<1> DEFINE longer == Append(s, d)
<1>1. longer \in Seq(Nat) /\ longer # <<>> /\ Len(longer) = Len(s) + 1
  BY AppendProperties
<1>2. Len(s) \in Nat /\ MaxSamples \in Nat
  BY SamplesAssumption
<1> HIDE DEF longer
<1>3. Tail(longer) \in Seq(Nat) /\ Len(Tail(longer)) = Len(longer) - 1
  BY <1>1, HeadTailProperties
<1>4. Observed(s, d) = IF Len(longer) > MaxSamples THEN Tail(longer) ELSE longer
  BY DEF Observed, longer
<1> QED
  BY <1>1, <1>2, <1>3, <1>4

LEMMA SampleNext ==
  ASSUME PipelineInv, LimiterTypeOK, SampleInv, [Next]_vars
  PROVE  SampleInv'
<1>1. now \in Nat /\ now \in Instants
  BY InstantsAssumption DEF LimiterTypeOK
<1>2. \A h \in Busy : request[h] \in Request /\ request[h].since \in Nat
  BY InstantsAssumption DEF SampleInv, Request
<1>3. CASE PassTime
  <2>1. /\ latencies' = latencies /\ Busy' = Busy /\ request' = request
        /\ now' \in Nat /\ now < now'
    BY <1>3, InstantsAssumption DEF PassTime, LaterOn, pipelineVars, Busy
  <2>2. ASSUME NEW h \in Busy PROVE request[h].since <= now'
    <3>1. request[h].since \in Nat /\ request[h].since <= now
      BY <1>2 DEF SampleInv
    <3> QED
      BY <1>1, <2>1, <3>1
  <2> QED
    BY <2>1, <2>2 DEF SampleInv
<1>4. CASE UNCHANGED vars
  BY <1>4 DEF vars, limiterVars, pipelineVars, SampleInv, Busy
<1>5. ASSUME NEW h \in Handlers, NEW a \in Addresses, NEW kind \in Kinds,
             Arrive(h, a, kind)
      PROVE  SampleInv'
  <2>1. /\ stage' = [stage EXCEPT ![h] = "arrived"]
        /\ request' = [request EXCEPT
                          ![h] = [from |-> a, kind |-> kind, since |-> now]]
        /\ latencies' = latencies /\ now' = now
    BY <1>5 DEF Arrive, limiterVars
  <2>2. ASSUME NEW g \in Busy'
        PROVE  request'[g] \in Request /\ request'[g].since <= now
    <3>1. CASE g = h
      <4>1. request'[g] = [from |-> a, kind |-> kind, since |-> now]
        BY <2>1, <3>1 DEF PipelineInv
      <4> QED
        BY <1>1, <4>1 DEF Request
    <3>2. CASE g # h
      <4>1. g \in Busy /\ request'[g] = request[g]
        BY <2>1, <3>2 DEF PipelineInv, Busy
      <4> QED
        BY <4>1 DEF SampleInv
    <3> QED
      BY <3>1, <3>2
  <2> QED
    BY <2>1, <2>2 DEF SampleInv
<1>6. ASSUME NEW h \in Handlers, stage[h] # "idle", NEW to, Proceed(h, to),
             now' = now
      PROVE  SampleInv'
  <2>1. /\ stage' = [stage EXCEPT ![h] = to]
        /\ request' = request /\ latencies' = latencies
    BY <1>6 DEF Proceed
  <2>2. ASSUME NEW g \in Busy' PROVE g \in Busy
    BY <1>6, <2>1 DEF PipelineInv, Busy
  <2> QED
    BY <1>6, <2>1, <2>2 DEF SampleInv
<1>7. ASSUME NEW h \in Handlers,
             RefuseBody(h) \/ PassHealth(h) \/ PassLimiter(h) \/ RefuseRate(h)
      PROVE  SampleInv'
  <2>1. /\ stage[h] # "idle" /\ now' = now
        /\ Proceed(h, "4xx") \/ Proceed(h, "inside")
    BY <1>7 DEF RefuseBody, PassHealth, PassLimiter, RefuseRate, limiterVars,
                Admit, Refuse
  <2> QED
    BY <1>6, <2>1
<1>8. ASSUME NEW h \in Handlers, NEW outcome \in Outcomes, Handle(h, outcome)
      PROVE  SampleInv'
  <2>1. stage[h] # "idle" /\ now' = now /\ Proceed(h, outcome)
    BY <1>8 DEF Handle, limiterVars
  <2> QED
    BY <1>6, <2>1
<1>9. ASSUME NEW h \in Handlers, Answer(h) PROVE SampleInv'
  <2>1. /\ stage[h] \in Outcomes /\ stage' = [stage EXCEPT ![h] = "idle"]
        /\ request' = [request EXCEPT ![h] = NoRequest] /\ now' = now
        /\ latencies' = Observed(latencies, now - request[h].since)
    BY <1>9 DEF Answer, limiterVars
  <2>2. h \in Busy
    BY <2>1 DEF Busy, Outcomes
  <2>3. request[h].since \in Nat /\ request[h].since <= now
    BY <1>2, <2>2 DEF SampleInv
  <2>4. now - request[h].since \in Nat
    BY <1>1, <2>3
  <2>5. latencies' \in Seq(Nat) /\ Len(latencies') <= MaxSamples
    BY <2>1, <2>4, ObservedType DEF SampleInv
  <2>6. ASSUME NEW g \in Busy' PROVE g \in Busy /\ request'[g] = request[g]
    BY <2>1 DEF PipelineInv, Busy
  <2> QED
    BY <2>1, <2>5, <2>6 DEF SampleInv
<1> QED
  BY <1>3, <1>4, <1>5, <1>7, <1>8, <1>9 DEF Next, Rest

(* Everything together, for the properties that need more than one part.   *)
LEMMA PipelineSound == Spec => [](PipelineInv /\ LimiterTypeOK /\ SampleInv)
<1>1. LimiterInv => LimiterTypeOK
  BY DEF LimiterInv
<1>2. Spec => []LimiterTypeOK
  BY <1>1, PipelineImplementsLimiter, LimiterAlwaysSound, PTL
<1>3. PipelineInv /\ LimiterTypeOK /\ SampleInv /\ [Next]_vars => SampleInv'
  BY SampleNext
<1> QED
  BY <1>2, <1>3, PipelineInit_Inv, Next_PipelineInv, SampleInit, PTL DEF Spec

(* Every variable keeps its type: no latency is ever negative, and the     *)
(* samples never exceed the length of the deque.                           *)
THEOREM PipelineTypes == Spec => []TypeOK
<1>1. PipelineInv /\ LimiterTypeOK /\ SampleInv => TypeOK
  BY DEF PipelineInv, SampleInv, TypeOK, StageNames
<1> QED
  BY <1>1, PipelineSound, PTL

(* Whatever the samples, the resolution of the clock and the steps of the  *)
(* report are, the rounded percentiles are in order, and half of the       *)
(* samples lie on each side of the median as it is reported, up to half a  *)
(* step.                                                                   *)
THEOREM PipelineSnapshotIsOrdered == Spec => []SnapshotIsOrdered
<1>1. SampleInv => SnapshotIsOrdered
  BY SnapshotOfSamples DEF SampleInv
<1> QED
  BY <1>1, PipelineSound, PTL

=============================================================================
