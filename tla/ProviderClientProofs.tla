------------------------ MODULE ProviderClientProofs ------------------------
(***************************************************************************)
(* Theorems about the provider client, for any number of retries and any   *)
(* number of chats that ask at the same time: the log of a call agrees     *)
(* with its attempt counter and phase (ClientInv), and the time it slept   *)
(* with the number of its failures (SleptInv).                             *)
(***************************************************************************)
EXTENDS ProviderClient, SequenceTheorems, WellFoundedInduction, TLAPS

(* What the loop keeps: as many replies as attempts, all but the one that  *)
(* is being looked at transient.                                           *)
Logged(c) ==
    /\ phase[c] \in {"idle"} \cup Stages \cup Endings
    /\ attempt[c] \in 0..MaxRetries
    /\ log[c] \in Seq(Replies)
    /\ phase[c] \in Stages =>
           Len(log[c]) = IF phase[c] = "asking" THEN attempt[c] ELSE attempt[c] + 1
    /\ phase[c] = "asking" => \A i \in 1..Len(log[c]) : log[c][i] \in Transient
    /\ phase[c] = "pausing" =>
           /\ attempt[c] < MaxRetries
           /\ \A i \in 1..Len(log[c]) : log[c][i] \in Transient
    /\ phase[c] = "answered" =>
           \A i \in 1 .. Len(log[c]) - 1 : log[c][i] \in Transient
    /\ Ended(c) =>
           /\ Len(log[c]) \in 1 .. MaxRetries + 1
           /\ \A i \in 1 .. Len(log[c]) - 1 : log[c][i] \in Transient
           /\ (phase[c] = "provider") <=> (Last(log[c]) = "turn")
           /\ Last(log[c]) \in Transient => Len(log[c]) = MaxRetries + 1

ClientInv ==
    /\ phase \in [Callers -> {"idle"} \cup Stages \cup Endings]
    /\ attempt \in [Callers -> 0..MaxRetries]
    /\ log \in [Callers -> Seq(Replies)]
    /\ \A c \in Callers : Logged(c)

LEMMA Init_ClientInv == Init => ClientInv
BY RetriesAssumption DEF Init, ClientInv, Logged, Ended, Stages, Endings

(* What a step does to the others. *)
LEMMA OthersKeep ==
  ASSUME ClientInv, NEW c \in Callers, NEW d \in Callers, d # c,
         phase'[d] = phase[d], attempt'[d] = attempt[d], log'[d] = log[d]
  PROVE  Logged(d)'
BY DEF ClientInv, Logged, Ended

LEMMA AskKeeps ==
  ASSUME ClientInv, NEW c \in Callers, Ask(c)
  PROVE  ClientInv'
<1>1. /\ phase' = [phase EXCEPT ![c] = "asking"]
      /\ attempt' = [attempt EXCEPT ![c] = 0]
      /\ log' = [log EXCEPT ![c] = <<>>]
  BY DEF Ask
<1>2. /\ phase' \in [Callers -> {"idle"} \cup Stages \cup Endings]
      /\ attempt' \in [Callers -> 0..MaxRetries]
      /\ log' \in [Callers -> Seq(Replies)]
  BY <1>1, RetriesAssumption DEF ClientInv, Stages
<1>3. phase'[c] = "asking" /\ attempt'[c] = 0 /\ log'[c] = <<>>
  BY <1>1 DEF ClientInv
<1>4. Logged(c)'
  BY <1>3, RetriesAssumption DEF Logged, Ended, Stages, Endings
<1>5. ASSUME NEW d \in Callers, d # c PROVE Logged(d)'
  BY <1>1, <1>5, OthersKeep DEF ClientInv
<1> QED
  BY <1>2, <1>4, <1>5 DEF ClientInv

LEMMA MeetKeeps ==
  ASSUME ClientInv, NEW c \in Callers, Meet(c)
  PROVE  ClientInv'
<1>1. PICK reply \in Replies : log' = [log EXCEPT ![c] = Append(log[c], reply)]
  BY DEF Meet
<1>2. /\ phase[c] = "asking" /\ attempt' = attempt
      /\ phase' = [phase EXCEPT ![c] = "answered"]
  BY DEF Meet
<1>3. log[c] \in Seq(Replies) /\ Append(log[c], reply) \in Seq(Replies)
  BY DEF ClientInv
<1>4. /\ phase' \in [Callers -> {"idle"} \cup Stages \cup Endings]
      /\ attempt' \in [Callers -> 0..MaxRetries]
      /\ log' \in [Callers -> Seq(Replies)]
  BY <1>1, <1>2, <1>3 DEF ClientInv, Stages
<1>5. /\ phase'[c] = "answered" /\ attempt'[c] = attempt[c]
      /\ log'[c] = Append(log[c], reply)
  BY <1>1, <1>2 DEF ClientInv
<1>6. /\ attempt[c] \in 0..MaxRetries /\ Len(log[c]) = attempt[c]
      /\ \A i \in 1..Len(log[c]) : log[c][i] \in Transient
  BY <1>2 DEF ClientInv, Logged, Stages
<1>7. /\ Len(log'[c]) = attempt[c] + 1
      /\ \A i \in 1..Len(log[c]) : log'[c][i] = log[c][i]
  BY <1>3, <1>5, <1>6, AppendProperties
<1>8. \A i \in 1 .. Len(log'[c]) - 1 : log'[c][i] \in Transient
  <2>1. Len(log'[c]) - 1 = Len(log[c])
    BY <1>6, <1>7
  <2> QED
    BY <1>6, <1>7, <2>1
<1>9. Logged(c)'
  BY <1>3, <1>5, <1>6, <1>7, <1>8 DEF Logged, Ended, Stages, Endings
<1>10. ASSUME NEW d \in Callers, d # c PROVE Logged(d)'
  BY <1>1, <1>2, <1>10, OthersKeep DEF ClientInv
<1> QED
  BY <1>4, <1>9, <1>10 DEF ClientInv

LEMMA PauseEndsKeeps ==
  ASSUME ClientInv, NEW c \in Callers, PauseEnds(c)
  PROVE  ClientInv'
<1>1. /\ phase[c] = "pausing" /\ log' = log
      /\ phase' = [phase EXCEPT ![c] = "asking"]
      /\ attempt' = [attempt EXCEPT ![c] = attempt[c] + 1]
  BY DEF PauseEnds
<1>2. /\ attempt[c] \in 0..MaxRetries /\ attempt[c] < MaxRetries
      /\ log[c] \in Seq(Replies) /\ Len(log[c]) = attempt[c] + 1
      /\ \A i \in 1..Len(log[c]) : log[c][i] \in Transient
  BY <1>1 DEF ClientInv, Logged, Stages
<1>3. attempt[c] + 1 \in 0..MaxRetries
  BY <1>2, RetriesAssumption
<1>4. /\ phase' \in [Callers -> {"idle"} \cup Stages \cup Endings]
      /\ attempt' \in [Callers -> 0..MaxRetries]
      /\ log' \in [Callers -> Seq(Replies)]
  BY <1>1, <1>3 DEF ClientInv, Stages
<1>5. phase'[c] = "asking" /\ attempt'[c] = attempt[c] + 1 /\ log'[c] = log[c]
  BY <1>1 DEF ClientInv
<1>6. Logged(c)'
  BY <1>2, <1>3, <1>5 DEF Logged, Ended, Stages, Endings
<1>7. ASSUME NEW d \in Callers, d # c PROVE Logged(d)'
  BY <1>1, <1>7, OthersKeep DEF ClientInv
<1> QED
  BY <1>4, <1>6, <1>7 DEF ClientInv

(* The steps that look at the latest reply and go on elsewhere.            *)
LEMMA MoveKeeps ==
  ASSUME ClientInv, NEW c \in Callers, NEW to \in {"pausing"} \cup Endings,
         phase[c] = "answered", Move(c, to),
         to = "pausing" => Met(c, Transient) /\ ~LastAttempt(c),
         to \in Endings => \/ Met(c, {"turn"}) /\ to = "provider"
                           \/ Met(c, {"breaking"}) /\ to = "raised"
                           \/ GivesUp(c) /\ to # "provider"
  PROVE  ClientInv'
<1>1. phase' = [phase EXCEPT ![c] = to] /\ attempt' = attempt /\ log' = log
  BY DEF Move
<1>2. /\ attempt[c] \in 0..MaxRetries
      /\ log[c] \in Seq(Replies) /\ Len(log[c]) = attempt[c] + 1
      /\ \A i \in 1 .. Len(log[c]) - 1 : log[c][i] \in Transient
  BY DEF ClientInv, Logged, Stages
<1>3. /\ phase' \in [Callers -> {"idle"} \cup Stages \cup Endings]
      /\ attempt' \in [Callers -> 0..MaxRetries]
      /\ log' \in [Callers -> Seq(Replies)]
  BY <1>1 DEF ClientInv, Stages
<1>4. phase'[c] = to /\ attempt'[c] = attempt[c] /\ log'[c] = log[c]
  BY <1>1 DEF ClientInv
<1>5. Last(log[c]) = log[c][Len(log[c])] /\ Len(log[c]) \in 1 .. MaxRetries + 1
  BY <1>2, RetriesAssumption DEF Last
<1>6. ASSUME to = "pausing" PROVE Logged(c)'
  <2>1. Last(log[c]) \in Transient /\ attempt[c] < MaxRetries
    BY <1>2, <1>6, RetriesAssumption DEF Met, LastAttempt
  <2>2. \A i \in 1..Len(log[c]) : log[c][i] \in Transient
    BY <1>2, <1>5, <2>1
  <2>3. /\ phase'[c] \in Stages /\ phase'[c] \notin Endings
        /\ phase'[c] = "pausing" /\ phase'[c] # "asking" /\ phase'[c] # "answered"
    BY <1>4, <1>6 DEF Stages, Endings
  <2> QED
    BY <1>2, <1>4, <2>1, <2>2, <2>3 DEF Logged, Ended
<1>7. ASSUME to \in Endings PROVE Logged(c)'
  <2>1. (to = "provider") <=> (Last(log[c]) = "turn")
    BY <1>7 DEF Met, GivesUp, Transient, Definite, Endings
  <2>2. Last(log[c]) \in Transient => Len(log[c]) = MaxRetries + 1
    <3>1. Last(log[c]) \in Transient => LastAttempt(c)
      BY <1>7 DEF Met, GivesUp, Transient, Definite, Endings
    <3> QED
      BY <1>2, <3>1, RetriesAssumption DEF LastAttempt
  <2>3. /\ phase'[c] \notin Stages /\ phase'[c] \in Endings
        /\ phase'[c] # "pausing" /\ phase'[c] # "asking" /\ phase'[c] # "answered"
    BY <1>4, <1>7 DEF Stages, Endings
  <2>4. /\ (phase'[c] = "provider") <=> (Last(log'[c]) = "turn")
        /\ Last(log'[c]) \in Transient => Len(log'[c]) = MaxRetries + 1
    BY <1>4, <2>1, <2>2, Zenon
  <2> QED
    BY <1>2, <1>4, <1>5, <2>3, <2>4 DEF Logged, Ended
<1>8. Logged(c)'
  BY <1>6, <1>7
<1>9. ASSUME NEW d \in Callers, d # c PROVE Logged(d)'
  BY <1>1, <1>9, OthersKeep DEF ClientInv
<1> QED
  BY <1>3, <1>8, <1>9 DEF ClientInv

LEMMA ProceedKeeps ==
  ASSUME ClientInv, NEW c \in Callers, Proceed(c)
  PROVE  ClientInv'
<1>1. CASE Retry(c)
  BY <1>1, MoveKeeps DEF Retry, Met, Endings
<1>2. CASE PauseEnds(c)
  BY <1>2, PauseEndsKeeps
<1>3. CASE Answer(c)
  BY <1>3, MoveKeeps DEF Answer, Met, Endings
<1>4. CASE Break(c)
  BY <1>4, MoveKeeps DEF Break, Met, Endings
<1>5. CASE Unavailable(c)
  BY <1>5, MoveKeeps DEF Unavailable, GivesUp, Met, Endings
<1>6. CASE FallBack(c)
  BY <1>6, MoveKeeps DEF FallBack, GivesUp, Met, Endings
<1> QED
  BY <1>1, <1>2, <1>3, <1>4, <1>5, <1>6 DEF Proceed

LEMMA Next_ClientInv == ClientInv /\ [Next]_vars => ClientInv'
<1> SUFFICES ASSUME ClientInv, [Next]_vars PROVE ClientInv'
  OBVIOUS
<1>1. CASE UNCHANGED vars
  BY <1>1 DEF vars, ClientInv, Logged, Ended
<1>2. CASE Rest
  BY <1>1, <1>2 DEF Rest
<1>3. ASSUME NEW c \in Callers, Ask(c) PROVE ClientInv'
  BY <1>3, AskKeeps
<1>4. ASSUME NEW c \in Callers, Meet(c) PROVE ClientInv'
  BY <1>4, MeetKeeps
<1>5. ASSUME NEW c \in Callers, Proceed(c) PROVE ClientInv'
  BY <1>5, ProceedKeeps
<1> QED
  BY <1>1, <1>2, <1>3, <1>4, <1>5 DEF Next

(* Nothing but a transient failure is ever repeated; a turn of the model   *)
(* is used if and only if the last attempt brought it; and nobody gives up *)
(* on a transient failure while an attempt is left.                        *)
THEOREM ClientOutcomeExplained == Spec => []OutcomeExplained
<1>1. ClientInv => OutcomeExplained
  BY DEF ClientInv, Logged, OutcomeExplained
<1> QED
  BY <1>1, Init_ClientInv, Next_ClientInv, PTL DEF Spec

-----------------------------------------------------------------------------
(* The back-off.                                                           *)

(* A set of naturals with 0 and with the successor of each of its elements *)
(* is Nat: what the provers can use of induction.                          *)
LEMMA NaturalsByInduction ==
  ASSUME NEW T \in SUBSET Nat, 0 \in T, \A k \in T : k + 1 \in T
  PROVE  T = Nat
<1> SUFFICES ASSUME Nat \ T # {} PROVE FALSE
  OBVIOUS
<1> DEFINE Below == {pair \in Nat \X Nat : pair[1] < pair[2]}
           Rejected == Nat \ T
<1>1. IsWellFoundedOn(Below, Nat)
  BY NatLessThanWellFounded DEF OpToRel
<1>2. \A x, y \in Nat : <<y, x>> \in Below <=> y < x
  OBVIOUS
<1>3. Rejected \in SUBSET Nat /\ Rejected # {}
  OBVIOUS
<1> HIDE DEF Below, Rejected
<1>4. PICK least \in Rejected : \A y \in Rejected : ~ (<<y, least>> \in Below)
  BY <1>1, <1>3, WFMin
<1>5. least \in Nat /\ least # 0 /\ least \notin T
  BY <1>4 DEF Rejected
<1>6. least - 1 \in Nat /\ least - 1 < least /\ (least - 1) + 1 = least
  BY <1>5
<1>7. least - 1 \in T
  BY <1>2, <1>4, <1>5, <1>6 DEF Rejected
<1> QED
  BY <1>5, <1>6, <1>7

(* f doubles from 1, up to the n-th value. *)
DoublesTo(f, n) ==
    /\ f \in [Nat -> Nat]
    /\ \A k \in 0..n : f[k] = IF k = 0 THEN 1 ELSE 2 * f[k - 1]

(* There is such a function for every n ... *)
LEMMA DoublingExists ==
  ASSUME NEW n \in Nat
  PROVE  \E f : DoublesTo(f, n)
<1> DEFINE T == {m \in Nat : \E f : DoublesTo(f, m)}
<1>1. 0 \in T
  <2> DEFINE f == [k \in Nat |-> 1]
  <2>1. DoublesTo(f, 0)
    BY DEF DoublesTo
  <2> QED
    BY <2>1
<1>2. ASSUME NEW m \in T PROVE m + 1 \in T
  <2>1. PICK f : DoublesTo(f, m)
    OBVIOUS
  <2> DEFINE g == [k \in Nat |-> IF k = m + 1 THEN 2 * f[m] ELSE f[k]]
  <2>2. g \in [Nat -> Nat]
    BY <2>1 DEF DoublesTo
  <2>3. ASSUME NEW k \in 0..(m + 1)
        PROVE  g[k] = IF k = 0 THEN 1 ELSE 2 * g[k - 1]
    <3>1. CASE k = m + 1
      BY <3>1
    <3>2. CASE k # m + 1
      <4>1. k \in 0..m
        BY <3>2
      <4>2. f[k] = IF k = 0 THEN 1 ELSE 2 * f[k - 1]
        BY <2>1, <4>1 DEF DoublesTo
      <4>3. /\ g[k] = f[k]
            /\ k # 0 => g[k - 1] = f[k - 1]
        BY <4>1
      <4> QED
        BY <4>2, <4>3
    <3> QED
      BY <3>1, <3>2
  <2>4. DoublesTo(g, m + 1)
    BY <2>2, <2>3 DEF DoublesTo
  <2> QED
    BY <2>4
<1>3. T \in SUBSET Nat
  OBVIOUS
<1> HIDE DEF T
<1>4. T = Nat
  BY <1>1, <1>2, <1>3, NaturalsByInduction
<1> QED
  BY <1>4 DEF T

(* ... and two of them agree. *)
LEMMA DoublingIsUnique ==
  ASSUME NEW n \in Nat, NEW f, DoublesTo(f, n), NEW g, DoublesTo(g, n)
  PROVE  f[n] = g[n]
<1> DEFINE T == {m \in Nat : m <= n => f[m] = g[m]}
<1>1. 0 \in T
  BY DEF DoublesTo
<1>2. ASSUME NEW m \in T PROVE m + 1 \in T
  <2> SUFFICES ASSUME m + 1 <= n PROVE f[m + 1] = g[m + 1]
    OBVIOUS
  <2>1. f[m] = g[m] /\ m + 1 \in 0..n /\ (m + 1) - 1 = m
    OBVIOUS
  <2> QED
    BY <2>1 DEF DoublesTo
<1>3. T \in SUBSET Nat
  OBVIOUS
<1> HIDE DEF T
<1>4. T = Nat
  BY <1>1, <1>2, <1>3, NaturalsByInduction
<1> QED
  BY <1>4 DEF T

(* So the recursion of PowerOfTwo defines a function. *)
LEMMA PowersOfTwo ==
  /\ PowerOfTwo[0] = 1
  /\ \A n \in Nat : /\ PowerOfTwo[n] \in Nat
                    /\ PowerOfTwo[n + 1] = 2 * PowerOfTwo[n]
<1> DEFINE upTo(n) == CHOOSE f : DoublesTo(f, n)
           power == [n \in Nat |-> upTo(n)[n]]
<1>1. ASSUME NEW n \in Nat PROVE DoublesTo(upTo(n), n)
  BY DoublingExists
<1> HIDE DEF upTo
<1>2. ASSUME NEW n \in Nat
      PROVE  power[n] = IF n = 0 THEN 1 ELSE 2 * power[n - 1]
  <2>1. CASE n = 0
    <3>1. \A f : DoublesTo(f, n) => f[n] = 1
      BY <2>1 DEF DoublesTo
    <3> QED
      BY <1>1, <2>1, <3>1
  <2>2. CASE n # 0
    <3>1. n - 1 \in Nat
      BY <2>2
    <3>2. DoublesTo(upTo(n), n - 1)
      BY <1>1, <3>1 DEF DoublesTo
    <3>3. upTo(n)[n - 1] = upTo(n - 1)[n - 1]
      BY <1>1, <3>1, <3>2, DoublingIsUnique
    <3>4. upTo(n)[n] = 2 * upTo(n)[n - 1]
      BY <1>1, <2>2 DEF DoublesTo
    <3> QED
      BY <2>2, <3>1, <3>3, <3>4
  <2> QED
    BY <2>1, <2>2
<1> DEFINE Defines(f) == f = [n \in Nat |-> IF n = 0 THEN 1 ELSE 2 * f[n - 1]]
<1>3. Defines(power)
  BY <1>2
<1> HIDE DEF power
<1>4. Defines(PowerOfTwo)
  BY <1>3 DEF PowerOfTwo
<1>5. /\ PowerOfTwo[0] = 1
      /\ \A n \in Nat : PowerOfTwo[n + 1] = 2 * PowerOfTwo[n]
  BY <1>4
<1> DEFINE T == {n \in Nat : PowerOfTwo[n] \in Nat}
<1>6. 0 \in T /\ \A n \in T : n + 1 \in T
  BY <1>5
<1>7. T \in SUBSET Nat
  OBVIOUS
<1> HIDE DEF T
<1>8. T = Nat
  BY <1>6, <1>7, NaturalsByInduction
<1> QED
  BY <1>5, <1>8 DEF T

(* The time slept after so many failures. *)
SleptAfter(n) == PowerOfTwo[n] - 1

LEMMA SleepsAddUp ==
  ASSUME NEW n \in Nat
  PROVE  /\ SleptAfter(n) \in Int
         /\ SleptAfter(0) = 0
         /\ SleptAfter(n) + Pause(n) = SleptAfter(n + 1)
BY PowersOfTwo DEF SleptAfter, Pause

(* Every failure but the last has been slept off. *)
Slept(c) ==
    /\ phase[c] \in {"asking", "answered"} => paused[c] = SleptAfter(attempt[c])
    /\ phase[c] = "pausing" => paused[c] = SleptAfter(attempt[c] + 1)
    /\ Ended(c) => paused[c] = SleptAfter(Len(log[c]) - 1)

SleptInv ==
    /\ paused \in [Callers -> Int]
    /\ \A c \in Callers : Slept(c)

LEMMA Next_SleptInv ==
  ASSUME ClientInv, SleptInv, [Next]_vars
  PROVE  SleptInv'
<1>1. ASSUME NEW c \in Callers, NEW d \in Callers, d # c,
             phase'[d] = phase[d], attempt'[d] = attempt[d], log'[d] = log[d],
             paused'[d] = paused[d]
      PROVE  Slept(d)'
  BY <1>1 DEF SleptInv, Slept, Ended
<1>2. CASE UNCHANGED vars \/ Rest
  BY <1>2 DEF Rest, vars, SleptInv, Slept, Ended
<1>3. ASSUME NEW c \in Callers, Ask(c) PROVE SleptInv'
  <2>1. /\ phase' = [phase EXCEPT ![c] = "asking"]
        /\ attempt' = [attempt EXCEPT ![c] = 0]
        /\ log' = [log EXCEPT ![c] = <<>>]
        /\ paused' = [paused EXCEPT ![c] = 0]
    BY <1>3 DEF Ask
  <2>2. phase'[c] = "asking" /\ attempt'[c] = 0 /\ paused'[c] = 0
    BY <2>1 DEF ClientInv, SleptInv
  <2>3. Slept(c)'
    BY <2>2, SleepsAddUp DEF Slept, Ended, Endings
  <2>4. ASSUME NEW d \in Callers, d # c PROVE Slept(d)'
    BY <1>1, <2>1, <2>4 DEF ClientInv, SleptInv
  <2> QED
    BY <2>1, <2>3, <2>4 DEF SleptInv
<1>4. ASSUME NEW c \in Callers, Meet(c) PROVE SleptInv'
  <2>1. /\ phase[c] = "asking" /\ attempt' = attempt /\ paused' = paused
        /\ phase' = [phase EXCEPT ![c] = "answered"]
        /\ \E reply : log' = [log EXCEPT ![c] = Append(log[c], reply)]
    BY <1>4 DEF Meet
  <2>2. Slept(c)'
    BY <2>1 DEF ClientInv, SleptInv, Slept, Ended, Endings
  <2>3. ASSUME NEW d \in Callers, d # c PROVE Slept(d)'
    BY <1>1, <2>1, <2>3 DEF ClientInv, SleptInv
  <2> QED
    BY <2>1, <2>2, <2>3 DEF SleptInv
<1>5. ASSUME NEW c \in Callers, PauseEnds(c) PROVE SleptInv'
  <2>1. /\ phase[c] = "pausing" /\ log' = log /\ paused' = paused
        /\ phase' = [phase EXCEPT ![c] = "asking"]
        /\ attempt' = [attempt EXCEPT ![c] = attempt[c] + 1]
    BY <1>5 DEF PauseEnds
  <2>2. Slept(c)'
    BY <2>1 DEF ClientInv, SleptInv, Slept, Ended, Endings
  <2>3. ASSUME NEW d \in Callers, d # c PROVE Slept(d)'
    BY <1>1, <2>1, <2>3 DEF ClientInv, SleptInv
  <2> QED
    BY <2>1, <2>2, <2>3 DEF SleptInv
<1>6. ASSUME NEW c \in Callers, Retry(c) PROVE SleptInv'
  <2>1. /\ phase[c] = "answered" /\ log' = log /\ attempt' = attempt
        /\ phase' = [phase EXCEPT ![c] = "pausing"]
        /\ paused' = [paused EXCEPT ![c] = paused[c] + Pause(attempt[c])]
    BY <1>6 DEF Retry, Met, Move
  <2>2. paused[c] = SleptAfter(attempt[c]) /\ attempt[c] \in Nat
    BY <2>1, RetriesAssumption DEF ClientInv, SleptInv, Slept
  <2>3. /\ paused[c] + Pause(attempt[c]) = SleptAfter(attempt[c] + 1)
        /\ SleptAfter(attempt[c] + 1) \in Int
    <3>1. attempt[c] + 1 \in Nat
      BY <2>2
    <3> QED
      BY <2>2, <3>1, SleepsAddUp
  <2>4. paused' \in [Callers -> Int] /\ paused'[c] = SleptAfter(attempt[c] + 1)
    BY <2>1, <2>3 DEF SleptInv
  <2>5. phase'[c] = "pausing" /\ attempt'[c] = attempt[c]
    BY <2>1 DEF ClientInv
  <2>6. Slept(c)'
    BY <2>4, <2>5 DEF Slept, Ended, Endings
  <2>7. ASSUME NEW d \in Callers, d # c PROVE Slept(d)'
    BY <1>1, <2>1, <2>7 DEF ClientInv, SleptInv
  <2> QED
    BY <2>4, <2>6, <2>7 DEF SleptInv
<1>7. ASSUME NEW c \in Callers, NEW to \in Endings, phase[c] = "answered",
             Move(c, to), paused' = paused
      PROVE  SleptInv'
  <2>1. /\ phase' = [phase EXCEPT ![c] = to] /\ log' = log /\ attempt' = attempt
    BY <1>7 DEF Move
  <2>2. /\ paused[c] = SleptAfter(attempt[c])
        /\ Len(log[c]) - 1 = attempt[c]
    <3>1. Len(log[c]) = attempt[c] + 1 /\ attempt[c] \in Nat
      BY <1>7, RetriesAssumption DEF ClientInv, Logged, Stages
    <3> QED
      BY <1>7, <3>1 DEF SleptInv, Slept
  <2>3. phase'[c] = to /\ to \notin Stages
    BY <2>1 DEF ClientInv, Stages, Endings
  <2>4. Slept(c)'
    BY <1>7, <2>1, <2>2, <2>3 DEF Slept, Ended, Stages
  <2>5. ASSUME NEW d \in Callers, d # c PROVE Slept(d)'
    BY <1>1, <1>7, <2>1, <2>5 DEF ClientInv
  <2> QED
    BY <1>7, <2>4, <2>5 DEF SleptInv
<1>8. ASSUME NEW c \in Callers,
             \/ Answer(c) \/ Break(c) \/ Unavailable(c) \/ FallBack(c)
      PROVE  SleptInv'
  <2>1. \E to \in Endings :
          Move(c, to) /\ paused' = paused /\ phase[c] = "answered"
    BY <1>8 DEF Answer, Break, Unavailable, FallBack, GivesUp, Met, Endings
  <2> QED
    BY <1>7, <2>1
<1> QED
  BY <1>2, <1>3, <1>4, <1>5, <1>6, <1>8 DEF Next, Proceed

(* However many retries there are, the time slept doubles from one failure *)
(* to the next, and nobody sleeps when no attempt follows.                 *)
THEOREM ClientBackoffDoubles == Spec => []BackoffDoubles
<1>1. Init => SleptInv
  BY DEF Init, SleptInv, Slept, Ended, Endings
<1>2. ClientInv /\ SleptInv /\ [Next]_vars => SleptInv'
  BY Next_SleptInv
<1>3. ClientInv /\ SleptInv => BackoffDoubles
  <2> SUFFICES ASSUME ClientInv, SleptInv, NEW c \in Callers
               PROVE  /\ Ended(c) => paused[c] = PowerOfTwo[Len(log[c]) - 1] - 1
                      /\ phase[c] = "pausing" => Len(log[c]) <= MaxRetries
    BY DEF BackoffDoubles
  <2>1. Ended(c) => paused[c] = PowerOfTwo[Len(log[c]) - 1] - 1
    BY DEF SleptInv, Slept, SleptAfter
  <2>2. phase[c] = "pausing" => Len(log[c]) <= MaxRetries
    BY RetriesAssumption DEF ClientInv, Logged, Stages
  <2> QED
    BY <2>1, <2>2
<1> QED
  BY <1>1, <1>2, <1>3, Init_ClientInv, Next_ClientInv, PTL DEF Spec

=============================================================================
