------------------------- MODULE AgentServiceProofs -------------------------
(***************************************************************************)
(* Theorems about AgentService, for every set of sessions, tasks, messages *)
(* and provider turns.  The agent is a refinement of the session store, so *)
(* what SessionStoreProofs establishes holds of it; on top of that come:   *)
(*                                                                         *)
(*   ConversationInv  what is stored, and what a turn edits, is coherent,  *)
(*   RecordsInv       and a true record of what the customer was answered, *)
(*   HeedInv          and was answered no stop request if it is open,      *)
(*   CalendarInv      the calendar and the sessions agree,                 *)
(*   TimesAccounted   every time in a conversation comes from somewhere.   *)
(***************************************************************************)
EXTENDS AgentService, SessionStoreProofs, ConversationProofs

(* Every step of the agent is a step of the session store or leaves it     *)
(* alone.                                                                  *)
LEMMA AgentStepIsStoreStep == [AgentNext]_allVars => [Next]_vars
<1> SUFFICES ASSUME [AgentNext]_allVars PROVE Next \/ UNCHANGED vars
  BY DEF allVars
<1>1. CASE CreateSessionRefused \/ CountSessions \/ Later
  BY <1>1 DEF CreateSessionRefused, CountSessions, Later, Next
<1>2. ASSUME NEW s \in SessionIds, SessionRequest(s) PROVE Next
  <2>1. Index(s)
    BY <1>2 DEF SessionRequest, CreateSession, Analytics, DeleteSession, Index,
       Create
  <2> QED
    BY <2>1 DEF Next
<1>3. ASSUME NEW t \in Tasks, NEW s \in SessionIds, Chat(t, s) PROVE Next
  <2>1. Begin(t, s)
    BY <1>3 DEF Chat, ChatRefused, ChatWaits, ChatClosed, ChatStops, ChatAsks,
       Begin, BeginThrough, Makes
  <2> QED
    BY <2>1 DEF Next
<1>4. ASSUME NEW t \in Tasks, NEW s \in SessionIds, ChatGoesOn(t, s) PROVE Next
  <2>1. Wake(t, s)
    BY <1>4 DEF ChatGoesOn, WokenMissing, WokenClosed, WokenStops, WokenAsks,
       Wake, WakeThrough, Makes
  <2> QED
    BY <2>1 DEF Next
<1>5. ASSUME NEW t \in Tasks, NEW s \in SessionIds, TurnEnds(t, s) PROVE Next
  <2>1. ASSUME NEW answer, FinishTurn(t, s, answer) PROVE End(t, s)
    <3>1. PICK c : Commit(t, s, c)
      BY <2>1 DEF FinishTurn, HandleTurn
    <3> QED
      BY <3>1 DEF End, Commit, Makes
  <2>2. End(t, s)
    BY <1>5, <2>1
    DEF TurnEnds, ProviderAnswers, FallbackAnswers, TurnFails, End
  <2> QED
    BY <2>2 DEF Next
<1>6. CASE UNCHANGED allVars
  BY <1>6 DEF allVars
<1> QED
  BY <1>1, <1>2, <1>3, <1>4, <1>5, <1>6 DEF AgentNext

(* The agent implements the session store: its transactions never step     *)
(* outside what the store allows, so mutual exclusion, the absence of lost *)
(* updates and the atomic map below the store hold of it as well.          *)
THEOREM AgentImplementsStore == AgentSpec => Spec
<1>1. AgentInit => Init
  BY DEF AgentInit
<1> QED
  BY <1>1, AgentStepIsStoreStep, PTL DEF AgentSpec, Spec

(* The invariant of the store holds of the agent. *)
LEMMA AgentStoreInv == AgentSpec => []StoreInv
BY AgentImplementsStore, StoreInvCorrect, PTL

(* The agent's chats are atomic updates of the map of sessions.            *)
THEOREM AgentImplementsAtomicStore == AgentSpec => ImplementsAtomicStore
BY AgentImplementsStore, StoreImplementsAtomicStore, PTL

-----------------------------------------------------------------------------
(* Conversations.                                                          *)

(* A task in a transaction has a message to answer. *)
BusyTasksHaveMessages ==
    \A t \in Tasks : pc[t] # "idle" => message[t] \in Messages

(* What a provider is asked about is an open, coherent conversation. *)
AskedAreCoherent ==
    \A t \in Tasks :
        pc[t] = "inside" =>
            /\ working[t] \in Conversation /\ Coherent(working[t])
            /\ Active(working[t]) /\ ~message[t].stop

ConversationInv ==
    /\ AgentTypeOK
    /\ BusyTasksHaveMessages
    /\ AskedAreCoherent
    /\ StoredCoherent

(* Steps that only remove sessions. *)
LEMMA RemovalKeepsConversations ==
  ASSUME ConversationInv, TypeOK', UNCHANGED <<taskVars, agentVars>>,
         \A s \in SessionIds : sessions'[s] \in {sessions[s], Absent}
  PROVE  ConversationInv'
<1> USE DEF ConversationInv, AgentTypeOK, Present, agentVars, taskVars
<1>1. AgentTypeOK'
  OBVIOUS
<1>2. BusyTasksHaveMessages' /\ AskedAreCoherent'
  BY DEF BusyTasksHaveMessages, AskedAreCoherent
<1>3. StoredCoherent'
  BY DEF StoredCoherent, Content
<1> QED
  BY <1>1, <1>2, <1>3

(* Steps of one task that touch no session and enter no body. *)
LEMMA OtherTasksKeepConversations ==
  ASSUME ConversationInv, TypeOK', NEW t \in Tasks, NEW m \in Messages \cup {None},
         UNCHANGED <<sessions, booked, succeeded, heard>>, Remember(t, m),
         pc'[t] = "idle" \/ (pc'[t] = "waiting" /\ m \in Messages),
         \A u \in Tasks \ {t} : /\ pc'[u] = pc[u] /\ target'[u] = target[u]
                                /\ working'[u] = working[u]
  PROVE  ConversationInv'
<1> USE DEF ConversationInv, AgentTypeOK, Present, Remember
<1>1. AgentTypeOK'
  OBVIOUS
<1>2. BusyTasksHaveMessages' /\ AskedAreCoherent'
  BY DEF BusyTasksHaveMessages, AskedAreCoherent
<1>3. StoredCoherent'
  BY DEF StoredCoherent, Content
<1> QED
  BY <1>1, <1>2, <1>3

(* A task enters the body of an open session with a message to ask about.  *)
LEMMA AskingKeepsConversations ==
  ASSUME ConversationInv, TypeOK', NEW t \in Tasks, NEW s \in SessionIds,
         NEW m \in Messages, ~m.stop, Open(s), Acquire(t, s), Remember(t, m),
         UNCHANGED <<sessions, booked, succeeded, heard>>
  PROVE  ConversationInv'
<1> USE DEF ConversationInv, AgentTypeOK, TypeOK, Present, Remember, Acquire
<1>1. AgentTypeOK'
  OBVIOUS
<1>2. s \in Present /\ Content(s) \in Conversation /\ Coherent(Content(s))
      /\ Active(Content(s))
  BY DEF Open, StoredCoherent, Content
<1>3. BusyTasksHaveMessages'
  BY DEF BusyTasksHaveMessages
<1>4. AskedAreCoherent'
  BY <1>2 DEF AskedAreCoherent, Content
<1>5. StoredCoherent'
  BY DEF StoredCoherent, Content
<1> QED
  BY <1>1, <1>3, <1>4, <1>5

(* A step that writes a coherent conversation back and leaves its task     *)
(* idle.                                                                   *)
LEMMA WritingKeepsConversations ==
  ASSUME ConversationInv, TypeOK', NEW t \in Tasks, NEW s \in SessionIds,
         NEW c \in Conversation, Coherent(c), WriteBack(s, c),
         NEW m \in Messages, Answered(s, m),
         \A k \in DOMAIN booked' : k \in Nat /\ booked'[k] \in Claim,
         succeeded' \in Nat,
         \/ Leave(t) /\ Remember(t, None)
         \/ UNCHANGED <<taskVars, message>>
  PROVE  ConversationInv'
<1> USE DEF ConversationInv, AgentTypeOK, TypeOK, Present, taskVars
<1>1. /\ sessions'[s].content = c
      /\ \A i \in SessionIds \ {s} : sessions'[i] = sessions[i]
  BY DEF WriteBack
<1>2. AgentTypeOK'
  <2>1. \A i \in SessionIds :
          sessions'[i] # Absent => sessions'[i].content \in Conversation
    BY <1>1
  <2>2. heard' \in [SessionIds -> SUBSET Messages]
    BY DEF Answered
  <2>3. message' \in [Tasks -> Messages \cup {None}]
    BY DEF Remember
  <2> QED
    BY <2>1, <2>2, <2>3
<1>3. \A u \in Tasks : pc'[u] # "idle" =>
        /\ pc'[u] = pc[u] /\ working'[u] = working[u] /\ message'[u] = message[u]
  BY DEF Leave, Remember
<1>4. BusyTasksHaveMessages' /\ AskedAreCoherent'
  BY <1>3 DEF BusyTasksHaveMessages, AskedAreCoherent
<1>5. StoredCoherent'
  <2>1. \A i \in SessionIds :
          sessions'[i] # Absent => Coherent(sessions'[i].content)
    BY <1>1 DEF StoredCoherent, Content
  <2> QED
    BY <2>1 DEF StoredCoherent, Content
<1> QED
  BY <1>2, <1>4, <1>5

(* A stop request makes a conversation of a conversation. *)
LEMMA StoppedTurnType ==
  ASSUME NEW conv \in Conversation, Coherent(conv), Active(conv)
  PROVE  StoppedTurn(conv) \in Conversation /\ Coherent(StoppedTurn(conv))
<1>1. Stopped(conv) \in Conversation /\ Coherent(Stopped(conv))
  BY StoppedIsCoherent
<1> QED
  BY <1>1, RecordedKeepsOutcome DEF StoppedTurn

(* Who may answer: the remote provider, or the local one. *)
Answers(t) ==
    ProviderTurns \cup {DemoTurn(message[t], working[t].lead, clock)}

(* A time that the remote provider may come up with. *)
Proposed(at) == \E turn \in ProviderTurns : at \in {turn.slot, turn.followUpAt}

(* An answer is a turn, names no slot that was not asked for, and no time  *)
(* but one of the remote provider's or the one the message names.          *)
LEMMA AnswersAreTurns ==
  ASSUME NEW t \in Tasks, message[t] \in Messages, clock \in Instants,
         NEW answer \in Answers(t)
  PROVE  /\ answer \in Turn
         /\ answer.slot \in Nat => SlotKey(answer.slot) \in AskedSlots
         /\ \A at \in Nat \cap {answer.slot, answer.followUpAt} :
                Proposed(at) \/ NamedAt(message[t], clock) = at
<1>1. CASE answer \in ProviderTurns
  BY <1>1, TurnsAssumption, MalformedAssumption DEF AskedSlots, Proposed
<1>2. CASE answer = DemoTurn(message[t], working[t].lead, clock)
  <2>1. message[t] \in Message /\ clock \in Nat
    BY MessagesAssumption, ClockAssumption
  <2>2. /\ answer \in Turn
        /\ answer.slot # Malformed =>
               answer.slot = NamedAt(message[t], clock) /\ answer.slot # None
        /\ answer.followUpAt \in {None, NamedAt(message[t], clock)}
    BY <1>2, <2>1, DemoTurnIsATurn
  <2>3. answer.slot \in Nat => answer.slot \in NamedInstants
    BY <2>2, MalformedAssumption DEF NamedInstants
  <2>4. None \notin Nat
    BY NoneIsNoValue
  <2> QED
    BY <2>2, <2>3, <2>4, MalformedAssumption DEF AskedSlots
<1> QED
  BY <1>1, <1>2 DEF Answers

(* What a finished turn does: it commits a coherent conversation that      *)
(* makes nothing up and erases nothing, and the visit it shows, the claim  *)
(* it makes and the booking it counts go together.                         *)
LEMMA TurnOutcome ==
  ASSUME StoreInv, ConversationInv, NEW t \in Tasks, NEW s \in SessionIds,
         NEW answer \in Answers(t), FinishTurn(t, s, answer)
  PROVE  \E c \in Conversation :
           /\ Coherent(c) /\ Commit(t, s, c)
           /\ \A M : Truthful(working[t], M) => Truthful(c, M \cup {message[t]})
           /\ \A f \in Fields : working[t].lead[f] # None => c.lead[f] # None
           /\ {c.visitAt, c.followUpAt} \ {None}
                 \subseteq Nat \cap {answer.slot, answer.followUpAt}
           /\ \/ c.visit # "booked" /\ UNCHANGED <<booked, succeeded>>
              \/ /\ c.visit = "booked" /\ c.visitAt \in Nat
                 /\ succeeded' = succeeded + 1
                 /\ \/ OwnedBy(booked, s, c.visitAt) /\ UNCHANGED booked
                    \/ /\ SlotKey(c.visitAt) = c.visitAt
                       /\ c.visitAt \in AskedSlots \ DOMAIN booked
                       /\ c.reference \in References
                       /\ booked' = WithClaim(booked, c.visitAt, s, c.reference)
<1>1. /\ pc[t] = "inside"
      /\ working[t] \in Conversation /\ Coherent(working[t])
      /\ Active(working[t]) /\ message[t] \in Message /\ message[t] \in Messages
  BY MessagesAssumption
  DEF FinishTurn, ConversationInv, AskedAreCoherent, BusyTasksHaveMessages
<1> DEFINE turn == Guarded(answer, message[t], working[t])
           learned == Learned(working[t], turn, message[t])
           books == turn.action = "book_site_visit"
<1>2. /\ answer \in Turn /\ turn \in Turn /\ turn.slot = answer.slot
      /\ turn.followUpAt = answer.followUpAt
      /\ answer.slot \in Nat => SlotKey(answer.slot) \in AskedSlots
  BY <1>1, AnswersAreTurns, GuardedType DEF StoreInv, TypeOK
<1>3. /\ learned \in Conversation /\ Coherent(learned) /\ Active(learned)
      /\ learned.transcript = working[t].transcript
      /\ learned.lead = ApplyUpdates(working[t].lead,
             SafeUpdates(turn.updates, message[t].mentions, working[t].lead))
  BY <1>2, <1>1, LearnedKeepsOutcome
<1>4. ~Raises(turn)
  BY DEF FinishTurn
<1>5. PICK r \in References :
        LET result == Outcome(booked, clock, s, turn.slot, r)
            after == AfterAction(learned, turn, clock, result)
        IN  /\ Commit(t, s, Recorded(after, Said(turn, clock, result)))
            /\ booked' = IF books THEN Booking(booked, clock, s, turn.slot, r)
                                  ELSE booked
            /\ succeeded' = IF books /\ result.success
                              THEN succeeded + 1 ELSE succeeded
  BY DEF FinishTurn, HandleTurn
<1> DEFINE result == Outcome(booked, clock, s, turn.slot, r)
           acted == AfterAction(learned, turn, clock, result)
           said == Said(turn, clock, result)
           c == Recorded(acted, said)
           after == Booking(booked, clock, s, turn.slot, r)
<1>6. turn.slot \in Nat \cup {Malformed}
  BY <1>2 DEF Turn
<1>7. /\ result = Outcome(booked, clock, s, turn.slot, r)
       /\ after = Booking(booked, clock, s, turn.slot, r)
  OBVIOUS
<1> HIDE DEF result, after
<1>8. \/ ~result.success /\ after = booked
      \/ /\ result.success /\ turn.slot \in Nat
         /\ OwnedBy(booked, s, turn.slot)
         /\ result.confirmedAt = turn.slot
         /\ result.reference = booked[SlotKey(turn.slot)].reference
         /\ after = booked
      \/ /\ result.success /\ turn.slot \in Nat
         /\ SlotKey(turn.slot) = turn.slot /\ turn.slot \notin DOMAIN booked
         /\ result.confirmedAt = turn.slot /\ result.reference = r
         /\ after = WithClaim(booked, turn.slot, s, r)
  <2>1. ASSUME NEW i \in Nat \cup {Malformed}
        PROVE  LET res == Outcome(booked, clock, s, i, r)
                   aft == Booking(booked, clock, s, i, r)
               IN  \/ ~res.success /\ aft = booked
                   \/ /\ res.success /\ i \in Nat /\ OwnedBy(booked, s, i)
                      /\ res.confirmedAt = i
                      /\ res.reference = booked[SlotKey(i)].reference
                      /\ aft = booked
                   \/ /\ res.success /\ i \in Nat
                      /\ SlotKey(i) = i /\ i \notin DOMAIN booked
                      /\ res.confirmedAt = i /\ res.reference = r
                      /\ aft = WithClaim(booked, i, s, r)
    BY OutcomeMatchesBooking
  <2> QED
    BY <1>6, <1>7, <2>1
<1>9. result.success \in BOOLEAN
  BY <1>7, OutcomeIsYesOrNo
<1>10. result.success => /\ result.confirmedAt \in Nat
                        /\ result.reference \in References
  BY <1>8 DEF ConversationInv, AgentTypeOK, Claim, OwnedBy
<1>11. clock \in Nat
  BY ClockAssumption DEF StoreInv, TypeOK
<1>12. /\ acted \in Conversation /\ Coherent(acted)
       /\ acted.lead = learned.lead /\ acted.transcript = learned.transcript
       /\ acted.visit = "booked" <=> books /\ result.success
       /\ acted.visit = "booked" => /\ acted.visitAt = result.confirmedAt
                                    /\ acted.reference = result.reference
       /\ acted.followUpAt \in {None, turn.followUpAt}
  BY <1>2, <1>3, <1>4, <1>9, <1>10, <1>11, AfterActionIsCoherent
<1>13. /\ Commit(t, s, c)
       /\ booked' = IF books THEN after ELSE booked
       /\ succeeded' = IF books /\ result.success
                         THEN succeeded + 1 ELSE succeeded
  BY <1>5 DEF result, after
<1>14. said \in SUBSET Claims
  BY <1>2, SaidType
<1>15. \A M : Truthful(working[t], M) => Truthful(c, M \cup {message[t]})
  BY <1>2, <1>1, <1>3, <1>4, <1>9, <1>12, TurnIsTruthful
<1> HIDE DEF acted, said
<1>16. /\ c \in Conversation /\ Coherent(c) /\ c.lead = learned.lead
       /\ c.visit = "booked" <=> books /\ result.success
       /\ c.visit = "booked" => /\ c.visitAt = result.confirmedAt
                                /\ c.reference = result.reference
       /\ c.followUpAt \in {None, turn.followUpAt}
  BY <1>12, <1>14, RecordedKeepsOutcome
<1> HIDE DEF c, turn, learned
<1>17. \A f \in Fields : working[t].lead[f] # None => c.lead[f] # None
  BY <1>3, <1>16, LearnedKeepsFacts
<1>18. turn.slot \in Nat => SlotKey(turn.slot) \in AskedSlots
  BY <1>2
<1>19. c.followUpAt \in {None, answer.followUpAt} \cap (Nat \cup {None})
  BY <1>2, <1>16 DEF Conversation
<1>20. CASE ~(books /\ result.success)
  <2>1. c.visit # "booked" /\ UNCHANGED <<booked, succeeded>>
    BY <1>8, <1>16, <1>13, <1>20
  <2>2. {c.visitAt, c.followUpAt} \ {None}
          \subseteq Nat \cap {answer.slot, answer.followUpAt}
    BY <1>16, <1>19, <2>1 DEF Coherent
  <2> QED
    BY <1>16, <1>13, <1>15, <1>17, <2>1, <2>2
<1>21. CASE books /\ result.success
  <2>1. /\ c.visit = "booked" /\ c.visitAt = turn.slot /\ c.visitAt \in Nat
        /\ c.reference = result.reference
        /\ succeeded' = succeeded + 1 /\ booked' = after
    BY <1>8, <1>16, <1>13, <1>21
  <2>2. {c.visitAt, c.followUpAt} \ {None}
          \subseteq Nat \cap {answer.slot, answer.followUpAt}
    BY <1>2, <1>19, <2>1
  <2>3. CASE OwnedBy(booked, s, turn.slot)
    <3>1. UNCHANGED booked
      BY <1>8, <1>21, <2>1, <2>3 DEF OwnedBy
    <3> QED
      BY <1>16, <1>13, <1>15, <1>17, <2>1, <2>2, <2>3, <3>1
  <2>4. CASE ~OwnedBy(booked, s, turn.slot)
    <3>1. /\ SlotKey(c.visitAt) = c.visitAt /\ c.visitAt \notin DOMAIN booked
          /\ c.reference = r
          /\ after = WithClaim(booked, c.visitAt, s, c.reference)
      BY <1>8, <1>21, <2>1, <2>4
    <3>2. c.visitAt \in AskedSlots \ DOMAIN booked /\ c.reference \in References
      BY <1>5, <1>18, <2>1, <3>1
    <3> QED
      BY <1>16, <1>13, <1>15, <1>17, <2>1, <2>2, <3>1, <3>2
  <2> QED
    BY <2>3, <2>4
<1> QED
  BY <1>20, <1>21

-----------------------------------------------------------------------------
(* The five kinds of steps of the agent, besides the creation of a session. *)

(* Sessions may go, nothing else happens. *)
Removes ==
    /\ \A s \in SessionIds : sessions'[s] \in {sessions[s], Absent}
    /\ UNCHANGED <<taskVars, agentVars, issued>>

(* A task starts to wait, or gives up. *)
TaskMoves ==
    \E t \in Tasks, m \in Messages \cup {None} :
        /\ UNCHANGED <<sessions, issued, booked, succeeded, heard>>
        /\ Remember(t, m)
        /\ pc'[t] = "idle" \/ (pc'[t] = "waiting" /\ m \in Messages)
        /\ \A u \in Tasks \ {t} : /\ pc'[u] = pc[u] /\ target'[u] = target[u]
                                  /\ working'[u] = working[u]

(* A task starts to ask the provider about an open session. *)
Asks ==
    \E t \in Tasks, s \in SessionIds, m \in Messages :
        /\ ~m.stop /\ Open(s) /\ pc[t] # "inside"
        /\ Acquire(t, s)
        /\ Remember(t, m)
        /\ UNCHANGED <<sessions, issued, booked, succeeded, heard>>

(* A session is answered without the provider. *)
AnswersAlone ==
    \E t \in Tasks, s \in SessionIds, m \in Messages, c \in Contents :
        /\ \/ Closed(s) /\ c = Content(s)
           \/ Open(s) /\ m.stop /\ c = StoppedTurn(Content(s))
        /\ holder[s] = NoTask /\ pc[t] # "inside"
        /\ WriteBack(s, c)
        /\ Answered(s, m)
        /\ UNCHANGED <<issued, booked, succeeded>>
        /\ \/ Leave(t) /\ Remember(t, None)
           \/ UNCHANGED <<taskVars, message>>

(* The provider has answered. *)
Finishes ==
    \E t \in Tasks, s \in SessionIds : \E answer \in Answers(t) :
        FinishTurn(t, s, answer)

(* There is no other kind of step. *)
LEMMA AgentStepKinds ==
  ASSUME StoreInv, ConversationInv, [AgentNext]_allVars
  PROVE  \/ Removes \/ TaskMoves \/ Asks \/ AnswersAlone \/ Finishes
         \/ \E s \in SessionIds : CreateSession(s)
<1> USE DEF StoreInv, ConversationInv, AgentTypeOK, TypeOK
<1>0. ASSUME NEW ids, Forget(ids), UNCHANGED <<taskVars, agentVars, issued>>
      PROVE  Removes
  BY <1>0 DEF Forget, Without, Removes
<1>1. CASE CreateSessionRefused \/ CountSessions
  BY <1>0, <1>1 DEF CreateSessionRefused, CountSessions, CreateRefused, Count
<1>2. CASE Later \/ UNCHANGED allVars
  BY <1>2 DEF Later, Tick, allVars, vars, Removes, taskVars, agentVars
<1>3. ASSUME NEW s \in SessionIds, Analytics(s) \/ DeleteSession(s)
      PROVE  Removes
  BY <1>0, <1>3 DEF Analytics, DeleteSession, Get, Delete
<1>4. ASSUME NEW t \in Tasks, NEW s \in SessionIds, ChatRefused(t, s)
      PROVE  Removes
  BY <1>0, <1>4 DEF ChatRefused, BeginRefused
<1>5. ASSUME NEW t \in Tasks, NEW s \in SessionIds, NEW m \in Messages,
             ChatWaits(t, s, m)
      PROVE  TaskMoves
  BY <1>5 DEF ChatWaits, BeginWait, TaskMoves
<1>6. ASSUME NEW t \in Tasks, NEW s \in SessionIds,
             WokenMissing(t, s) \/ TurnFails(t, s)
      PROVE  TaskMoves
  BY <1>6 DEF WokenMissing, WakeMissing, Woken, TurnFails, Abort, Leave, TaskMoves
<1>7. ASSUME NEW t \in Tasks, NEW s \in SessionIds, NEW m \in Messages,
             ChatAsks(t, s, m)
      PROVE  Asks
  BY <1>7 DEF ChatAsks, BeginAcquire, Asks
<1>8. ASSUME NEW t \in Tasks, NEW s \in SessionIds, WokenAsks(t, s)
      PROVE  Asks
  <2>1. message[t] \in Messages /\ pc[t] # "inside"
    BY <1>8 DEF WokenAsks, WakeAcquire, Woken, BusyTasksHaveMessages
  <2>2. Remember(t, message[t])
    BY <1>8 DEF WokenAsks, agentVars, Remember
  <2> QED
    BY <1>8, <2>1, <2>2 DEF WokenAsks, WakeAcquire, agentVars, Asks
<1>9. ASSUME NEW t \in Tasks, NEW s \in SessionIds, NEW m \in Messages,
             ChatClosed(t, s, m) \/ ChatStops(t, s, m)
      PROVE  AnswersAlone
  <2>1. PICK c \in Contents :
          /\ BeginThrough(t, s, c)
          /\ \/ Closed(s) /\ c = Content(s)
             \/ Open(s) /\ m.stop /\ c = StoppedTurn(Content(s))
    BY <1>9 DEF ChatClosed, ChatStops, BeginThrough, Makes
  <2>2. /\ Answered(s, m) /\ UNCHANGED <<booked, succeeded, message>>
    BY <1>9 DEF ChatClosed, ChatStops
  <2>3. /\ holder[s] = NoTask /\ pc[t] # "inside" /\ WriteBack(s, c)
        /\ UNCHANGED <<issued, taskVars>>
    BY <2>1 DEF BeginThrough, LockFree
  <2> QED
    BY <2>1, <2>2, <2>3 DEF AnswersAlone
<1>10. ASSUME NEW t \in Tasks, NEW s \in SessionIds,
              WokenClosed(t, s) \/ WokenStops(t, s)
       PROVE  AnswersAlone
  <2>1. PICK c \in Contents :
          /\ WakeThrough(t, s, c)
          /\ \/ Closed(s) /\ c = Content(s)
             \/ Open(s) /\ message[t].stop /\ c = StoppedTurn(Content(s))
    BY <1>10 DEF WokenClosed, WokenStops, WakeThrough, Makes
  <2>2. /\ Answered(s, message[t]) /\ UNCHANGED <<booked, succeeded>>
        /\ Remember(t, None)
    BY <1>10 DEF WokenClosed, WokenStops
  <2>3. /\ holder[s] = NoTask /\ pc[t] # "inside" /\ WriteBack(s, c)
        /\ Leave(t) /\ UNCHANGED issued /\ message[t] \in Messages
    BY <2>1 DEF WakeThrough, Woken, BusyTasksHaveMessages
  <2> QED
    BY <2>1, <2>2, <2>3 DEF AnswersAlone
<1>11. ASSUME NEW t \in Tasks, NEW s \in SessionIds,
              ProviderAnswers(t, s) \/ FallbackAnswers(t, s)
       PROVE  Finishes
  BY <1>11 DEF ProviderAnswers, FallbackAnswers, Finishes, Answers
<1> QED
  BY <1>1, <1>2, <1>3, <1>4, <1>5, <1>6, <1>7, <1>8, <1>9, <1>10, <1>11
  DEF AgentNext, SessionRequest, Chat, ChatGoesOn, TurnEnds

(* Every step keeps the invariant of the conversations. *)
LEMMA ConversationInductive ==
  StoreInv /\ ConversationInv /\ [AgentNext]_allVars => ConversationInv'
<1> SUFFICES ASSUME StoreInv, ConversationInv, [AgentNext]_allVars
             PROVE  ConversationInv'
  OBVIOUS
<1>0. TypeOK'
  BY AgentStepIsStoreStep, StoreInvInductive DEF StoreInv
<1>1. CASE Removes
  BY <1>0, <1>1, RemovalKeepsConversations DEF Removes
<1>2. CASE TaskMoves
  BY <1>0, <1>2, OtherTasksKeepConversations DEF TaskMoves
<1>3. CASE Asks
  BY <1>0, <1>3, AskingKeepsConversations DEF Asks
<1>4. CASE AnswersAlone
  <2>1. PICK t \in Tasks, s \in SessionIds, m \in Messages, c \in Contents :
          /\ \/ Closed(s) /\ c = Content(s)
             \/ Open(s) /\ m.stop /\ c = StoppedTurn(Content(s))
          /\ WriteBack(s, c)
          /\ Answered(s, m)
          /\ UNCHANGED <<booked, succeeded>>
          /\ \/ Leave(t) /\ Remember(t, None)
           \/ UNCHANGED <<taskVars, message>>
    BY <1>4 DEF AnswersAlone
  <2>2. Content(s) \in Conversation /\ Coherent(Content(s))
    BY <2>1 DEF Closed, Open, ConversationInv, AgentTypeOK, StoredCoherent,
       Present, Content
  <2>3. c \in Conversation /\ Coherent(c)
    BY <2>1, <2>2, StoppedTurnType DEF Open, Content
  <2>4. /\ succeeded' \in Nat
        /\ \A k \in DOMAIN booked' : k \in Nat /\ booked'[k] \in Claim
    BY <2>1 DEF ConversationInv, AgentTypeOK
  <2> QED
    BY <1>0, <2>1, <2>3, <2>4, WritingKeepsConversations
<1>5. CASE Finishes
  <2>1. PICK t \in Tasks, s \in SessionIds :
          \E answer \in Answers(t) : FinishTurn(t, s, answer)
    BY <1>5 DEF Finishes
  <2>2. PICK c \in Conversation :
          /\ Coherent(c) /\ Commit(t, s, c)
          /\ \/ UNCHANGED <<booked, succeeded>>
             \/ UNCHANGED booked /\ succeeded' = succeeded + 1
             \/ /\ succeeded' = succeeded + 1
                /\ c.visitAt \in Nat /\ c.reference \in References
                /\ booked' = WithClaim(booked, c.visitAt, s, c.reference)
    BY <2>1, TurnOutcome
  <2>3. succeeded' \in Nat
    BY <2>2 DEF ConversationInv, AgentTypeOK
  <2>4. \A k \in DOMAIN booked' : k \in Nat /\ booked'[k] \in Claim
    BY <2>2 DEF ConversationInv, AgentTypeOK, WithClaim, Claim
  <2>5. message[t] \in Messages /\ Answered(s, message[t]) /\ Remember(t, None)
    BY <2>1, <2>2 DEF FinishTurn, Commit, ConversationInv, BusyTasksHaveMessages
  <2> QED
    BY <1>0, <2>2, <2>3, <2>4, <2>5, WritingKeepsConversations DEF Commit
<1>6. ASSUME NEW s \in SessionIds, CreateSession(s) PROVE ConversationInv'
  <2> USE DEF ConversationInv, AgentTypeOK, StoreInv, TypeOK
  <2>1. /\ sessions'[s].content = NewConversation
        /\ \A i \in SessionIds \ {s} : sessions'[i] \in {sessions[i], Absent}
        /\ UNCHANGED <<taskVars, agentVars>>
    BY <1>6 DEF CreateSession, Create, Without
  <2>2. AgentTypeOK'
    BY <1>0, <2>1, NewConversationIsCoherent DEF agentVars, Present
  <2>3. BusyTasksHaveMessages' /\ AskedAreCoherent'
    BY <2>1 DEF BusyTasksHaveMessages, AskedAreCoherent, taskVars, agentVars
  <2>4. StoredCoherent'
    BY <2>1, NewConversationIsCoherent DEF StoredCoherent, Content, Present
  <2> QED
    BY <2>2, <2>3, <2>4
<1> QED
  BY <1>1, <1>2, <1>3, <1>4, <1>5, <1>6, AgentStepKinds

(* The two invariants hold throughout. *)
LEMMA AgentInvCorrect == AgentSpec => [](StoreInv /\ ConversationInv)
<1>1. AgentInit => ConversationInv
  BY ClockAssumption
  DEF AgentInit, Init, ConversationInv, AgentTypeOK, TypeOK, Present,
      BusyTasksHaveMessages, AskedAreCoherent, StoredCoherent
<1> QED
  BY <1>1, ConversationInductive, AgentStoreInv, PTL DEF AgentSpec

(* The agent's variables keep their types: every turn of every provider    *)
(* makes a conversation of a conversation and a claim of a booking.        *)
THEOREM AgentTypeCorrect == AgentSpec => []AgentTypeOK
<1>1. ConversationInv => AgentTypeOK
  BY DEF ConversationInv
<1> QED
  BY <1>1, AgentInvCorrect, PTL

(* Whatever the provider answers, and in whatever order requests overlap,  *)
(* the status, the end reason and the flags of a conversation agree.       *)
THEOREM AgentStoredCoherent == AgentSpec => []StoredCoherent
<1>1. ConversationInv => StoredCoherent
  BY DEF ConversationInv
<1> QED
  BY <1>1, AgentInvCorrect, PTL

(* The provider is never asked about a conversation that has ended, nor    *)
(* about a stop request.                                                   *)
THEOREM AgentProviderAskedWhenOpen == AgentSpec => []ProviderAskedWhenOpen
<1>1. ConversationInv => ProviderAskedWhenOpen
  BY DEF ConversationInv, AskedAreCoherent, ProviderAskedWhenOpen
<1> QED
  BY <1>1, AgentInvCorrect, PTL

(* What a finishing turn replaces is what it worked on. *)
LEMMA FinishedTurnIsCurrent ==
  ASSUME StoreInv, ConversationInv, NEW t \in Tasks, NEW s \in SessionIds,
         NEW c, Commit(t, s, c), sessions[s] # Absent
  PROVE  Content(s) = working[t] /\ Open(s)
BY DEF StoreInv, WorkingCopyCurrent, Commit, Content, Open, ConversationInv,
   AskedAreCoherent

(* A conversation that has ended keeps its outcome, although turns,        *)
(* deletions and late answers overlap.                                     *)
THEOREM AgentEndedStaysEnded == AgentSpec => EndedStaysEnded
<1>1. ASSUME StoreInv, ConversationInv, [AgentNext]_allVars,
             NEW s \in SessionIds, Closed(s), sessions'[s] # Absent
      PROVE  sessions'[s].content = Content(s)
  <2>1. CASE Removes \/ TaskMoves \/ Asks
    BY <1>1, <2>1 DEF Removes, TaskMoves, Asks, Content
  <2>2. CASE AnswersAlone
    <3>1. PICK i \in SessionIds, c \in Contents :
            /\ (Closed(i) /\ c = Content(i)) \/ Open(i)
            /\ WriteBack(i, c)
      BY <2>2 DEF AnswersAlone
    <3>2. CASE i = s
      BY <1>1, <3>1, <3>2 DEF WriteBack, Open, Closed, StoreInv, TypeOK
    <3>3. CASE i # s
      BY <1>1, <3>1, <3>3 DEF WriteBack, Content, StoreInv, TypeOK
    <3> QED
      BY <3>2, <3>3
  <2>3. CASE Finishes
    <3>1. PICK t \in Tasks, i \in SessionIds, c \in Conversation :
             Commit(t, i, c)
      BY <1>1, <2>3, TurnOutcome DEF Finishes
    <3>2. i # s
      BY <1>1, <3>1, FinishedTurnIsCurrent DEF Open, Closed
    <3> QED
      BY <1>1, <3>1, <3>2 DEF Commit, WriteBack, Content, StoreInv, TypeOK
  <2>4. ASSUME NEW i \in SessionIds, CreateSession(i)
        PROVE  sessions'[s].content = Content(s)
    <3>1. i # s
      BY <1>1, <2>4 DEF CreateSession, Create, Closed, StoreInv, StoredIdsIssued,
         Present
    <3> QED
      BY <1>1, <2>4, <3>1 DEF CreateSession, Create, Without, Content, StoreInv,
         TypeOK
  <2> QED
    BY <1>1, <2>1, <2>2, <2>3, <2>4, AgentStepKinds
<1>2. StoreInv /\ ConversationInv /\ [AgentNext]_allVars =>
        [\A s \in SessionIds :
           Closed(s) /\ sessions'[s] # Absent
               => sessions'[s].content = Content(s)]_allVars
  BY <1>1
<1> QED
  BY <1>2, AgentInvCorrect, PTL DEF AgentSpec, EndedStaysEnded

-----------------------------------------------------------------------------
(* What is kept of a conversation.                                         *)

(* What is stored, and what a turn works on, is a true record of what the  *)
(* customer was answered so far.                                           *)
RecordsInv ==
    /\ \A s \in Present : Truthful(Content(s), heard[s])
    /\ \A t \in Tasks : pc[t] = "inside" => Truthful(working[t], heard[target[t]])

(* Writing a true record back. *)
LEMMA WritingKeepsRecords ==
  ASSUME StoreInv, ConversationInv, RecordsInv,
         NEW t \in Tasks, NEW s \in SessionIds, NEW m \in Messages,
         NEW c, Truthful(c, heard[s] \cup {m}), WriteBack(s, c), Answered(s, m),
         Leave(t) \/ UNCHANGED taskVars
  PROVE  RecordsInv'
<1> USE DEF StoreInv, TypeOK, ConversationInv, AgentTypeOK
<1>1. /\ sessions'[s].content = c
      /\ \A i \in SessionIds \ {s} : sessions'[i] = sessions[i]
  BY DEF WriteBack
<1>2. /\ heard'[s] = heard[s] \cup {m}
      /\ \A i \in SessionIds : heard[i] \subseteq heard'[i]
  BY DEF Answered
<1>3. \A i \in Present' : Truthful(sessions'[i].content, heard'[i])
  <2> SUFFICES ASSUME NEW i \in SessionIds, sessions'[i] # Absent
               PROVE  Truthful(sessions'[i].content, heard'[i])
    BY DEF Present
  <2>1. CASE i = s
    BY <1>1, <1>2, <2>1
  <2>2. CASE i # s
    <3>1. Truthful(sessions[i].content, heard[i])
      BY <1>1, <2>2 DEF RecordsInv, Present, Content
    <3> QED
      BY <1>1, <1>2, <2>2, <3>1, TruthGrows
  <2> QED
    BY <2>1, <2>2
<1>4. ASSUME NEW u \in Tasks, pc'[u] = "inside"
      PROVE  Truthful(working'[u], heard'[target'[u]])
  <2>1. /\ pc[u] = "inside" /\ working'[u] = working[u]
        /\ target'[u] = target[u] /\ target[u] \in SessionIds
    BY <1>4 DEF Leave, taskVars, TasksKnowTheirSession
  <2>2. Truthful(working[u], heard[target[u]])
    BY <2>1 DEF RecordsInv
  <2> QED
    BY <1>2, <2>1, <2>2, TruthGrows
<1> QED
  BY <1>3, <1>4 DEF RecordsInv, Content

(* Every step keeps the records true. *)
LEMMA RecordsInductive ==
  StoreInv /\ ConversationInv /\ RecordsInv /\ [AgentNext]_allVars => RecordsInv'
<1> SUFFICES ASSUME StoreInv, ConversationInv, RecordsInv, [AgentNext]_allVars
             PROVE  RecordsInv'
  OBVIOUS
<1> USE DEF StoreInv, TypeOK, ConversationInv, AgentTypeOK
<1>1. CASE Removes
  BY <1>1 DEF Removes, taskVars, agentVars, RecordsInv, Present, Content
<1>2. CASE TaskMoves
  <2>1. \A u \in Tasks : pc'[u] = "inside" =>
          /\ pc[u] = "inside" /\ working'[u] = working[u] /\ target'[u] = target[u]
    BY <1>2 DEF TaskMoves
  <2> QED
    BY <1>2, <2>1 DEF TaskMoves, RecordsInv, Present, Content
<1>3. CASE Asks
  <2>1. PICK t \in Tasks, s \in SessionIds :
          Open(s) /\ Acquire(t, s) /\ UNCHANGED <<sessions, heard>>
    BY <1>3 DEF Asks
  <2>2. Truthful(Content(s), heard[s])
    BY <2>1 DEF Open, RecordsInv, Present
  <2>3. ASSUME NEW u \in Tasks, pc'[u] = "inside"
        PROVE  Truthful(working'[u], heard'[target'[u]])
    <3>1. CASE u = t
      BY <2>1, <2>2, <3>1 DEF Acquire, Content
    <3>2. CASE u # t
      BY <2>1, <2>3, <3>2 DEF Acquire, RecordsInv
    <3> QED
      BY <3>1, <3>2
  <2> QED
    BY <2>1, <2>3 DEF RecordsInv, Present, Content
<1>4. CASE AnswersAlone
  <2>1. PICK t \in Tasks, s \in SessionIds, m \in Messages, c \in Contents :
          /\ \/ Closed(s) /\ c = Content(s)
             \/ Open(s) /\ m.stop /\ c = StoppedTurn(Content(s))
          /\ WriteBack(s, c)
          /\ Answered(s, m)
          /\ Leave(t) \/ UNCHANGED taskVars
    BY <1>4 DEF AnswersAlone
  <2>2. /\ Content(s) \in Conversation /\ Coherent(Content(s))
        /\ Truthful(Content(s), heard[s])
    BY <2>1 DEF Closed, Open, StoredCoherent, RecordsInv, Present, Content
  <2>3. Truthful(c, heard[s])
    BY <2>1, <2>2, StoppedIsTruthful DEF Open, StoppedTurn, Content
  <2>4. Truthful(c, heard[s] \cup {m})
    BY <2>3, TruthGrows
  <2> QED
    BY <2>1, <2>4, WritingKeepsRecords
<1>5. CASE Finishes
  <2>1. PICK t \in Tasks, s \in SessionIds :
          \E answer \in Answers(t) : FinishTurn(t, s, answer)
    BY <1>5 DEF Finishes
  <2>2. PICK c \in Conversation :
          /\ Commit(t, s, c)
          /\ \A M : Truthful(working[t], M) => Truthful(c, M \cup {message[t]})
    BY <2>1, TurnOutcome
  <2>3. /\ message[t] \in Messages /\ Answered(s, message[t])
        /\ pc[t] = "inside" /\ target[t] = s
    BY <2>1, <2>2 DEF FinishTurn, Commit, BusyTasksHaveMessages
  <2>4. Truthful(c, heard[s] \cup {message[t]})
    BY <2>2, <2>3 DEF RecordsInv
  <2> QED
    BY <2>2, <2>3, <2>4, WritingKeepsRecords DEF Commit
<1>6. ASSUME NEW s \in SessionIds, CreateSession(s) PROVE RecordsInv'
  <2>1. /\ sessions'[s].content = NewConversation
        /\ \A i \in SessionIds \ {s} : sessions'[i] \in {sessions[i], Absent}
        /\ UNCHANGED <<taskVars, heard>>
    BY <1>6 DEF CreateSession, Create, Without, agentVars
  <2>2. Truthful(NewConversation, heard[s])
    BY NewConversationIsHonest DEF Truthful
  <2> QED
    BY <2>1, <2>2 DEF RecordsInv, Present, Content, taskVars
<1> QED
  BY <1>1, <1>2, <1>3, <1>4, <1>5, <1>6, AgentStepKinds

LEMMA RecordsCorrect == AgentSpec => []RecordsInv
<1>1. AgentInit => RecordsInv
  BY DEF AgentInit, Init, RecordsInv, Present
<1> QED
  BY <1>1, RecordsInductive, AgentInvCorrect, PTL DEF AgentSpec

(* Nothing is made up about a lead: what a profile says of the phone, the  *)
(* configuration and the budget, the customer of that session wrote.       *)
THEOREM AgentMakesNothingUp == AgentSpec => []NothingMadeUp
<1>1. RecordsInv => NothingMadeUp
  BY DEF RecordsInv, Truthful, NothingMadeUp
<1> QED
  BY <1>1, RecordsCorrect, PTL

(* No transcript holds a claim that is not true of its conversation,       *)
(* however long the conversation and whatever the provider answers.        *)
THEOREM AgentTranscriptHonest == AgentSpec => []TranscriptHonest
<1>1. RecordsInv => TranscriptHonest
  BY DEF RecordsInv, Truthful, TranscriptHonest
<1> QED
  BY <1>1, RecordsCorrect, PTL

(* The interest level kept with a session is always up to date.            *)
THEOREM AgentInterestIsCurrent == AgentSpec => []InterestIsCurrent
<1>1. RecordsInv => InterestIsCurrent
  BY DEF RecordsInv, Truthful, InterestIsCurrent
<1> QED
  BY <1>1, RecordsCorrect, PTL

(* No turn, late or early, erases what is known of a lead.                 *)
THEOREM AgentFactsNeverErased == AgentSpec => FactsNeverErased
<1>1. ASSUME StoreInv, ConversationInv, [AgentNext]_allVars,
             NEW s \in Present, NEW f \in Fields,
             Content(s).lead[f] # None, sessions'[s] # Absent
      PROVE  sessions'[s].content.lead[f] # None
  <2> USE DEF StoreInv, TypeOK, Present, Content
  <2>1. CASE Removes \/ TaskMoves \/ Asks
    BY <1>1, <2>1 DEF Removes, TaskMoves, Asks
  <2>2. CASE AnswersAlone
    <3>1. PICK i \in SessionIds, c \in Contents :
            /\ \/ Closed(i) /\ c = Content(i)
               \/ Open(i) /\ c = StoppedTurn(Content(i))
            /\ WriteBack(i, c)
      BY <2>2 DEF AnswersAlone
    <3>2. CASE i = s
      <4>1. Content(s) \in Conversation /\ Coherent(Content(s))
        BY <1>1 DEF ConversationInv, AgentTypeOK, StoredCoherent
      <4>2. c.lead = Content(s).lead
        <5>1. CASE Closed(i)
          BY <3>1, <3>2, <5>1 DEF Open, Closed
        <5>2. CASE Open(i)
          <6>1. /\ Stopped(Content(s)) \in Conversation
                /\ Stopped(Content(s)).lead = Content(s).lead
            BY <3>2, <4>1, <5>2, StoppedIsCoherent DEF Open
          <6>2. StoppedTurn(Content(s)).lead = Stopped(Content(s)).lead
            BY <6>1, RecordedKeepsOutcome DEF StoppedTurn
          <6> QED
            BY <3>1, <3>2, <5>2, <6>1, <6>2 DEF Open, Closed
        <5> QED
          BY <3>1, <5>1, <5>2
      <4> QED
        BY <1>1, <3>1, <3>2, <4>2 DEF WriteBack
    <3>3. CASE i # s
      BY <1>1, <3>1, <3>3 DEF WriteBack
    <3> QED
      BY <3>2, <3>3
  <2>3. CASE Finishes
    <3>1. PICK t \in Tasks, i \in SessionIds, c \in Conversation :
            /\ Commit(t, i, c)
            /\ working[t].lead[f] # None => c.lead[f] # None
      BY <1>1, <2>3, TurnOutcome DEF Finishes
    <3>2. CASE i = s
      BY <1>1, <3>1, <3>2, FinishedTurnIsCurrent DEF Commit, WriteBack
    <3>3. CASE i # s
      BY <1>1, <3>1, <3>3 DEF Commit, WriteBack
    <3> QED
      BY <3>2, <3>3
  <2>4. ASSUME NEW i \in SessionIds, CreateSession(i)
        PROVE  sessions'[s].content.lead[f] # None
    <3>1. i # s
      BY <1>1, <2>4 DEF CreateSession, Create, StoredIdsIssued
    <3> QED
      BY <1>1, <2>4, <3>1 DEF CreateSession, Create, Without
  <2> QED
    BY <1>1, <2>1, <2>2, <2>3, <2>4, AgentStepKinds
<1>2. StoreInv /\ ConversationInv /\ [AgentNext]_allVars =>
        [\A s \in Present, f \in Fields :
           Content(s).lead[f] # None /\ sessions'[s] # Absent
               => sessions'[s].content.lead[f] # None]_allVars
  BY <1>1
<1> QED
  BY <1>2, AgentInvCorrect, PTL DEF AgentSpec, FactsNeverErased

(* The score of a lead falls for a reason only, and what is known of it is *)
(* never less, whatever turns overlap.                                     *)
THEOREM AgentScoreFallsForAReason == AgentSpec => ScoreFallsForAReason
<1>1. ASSUME StoreInv, ConversationInv, [AgentNext]_allVars,
             NEW s \in Present, sessions'[s] # Absent
      PROVE  ScoreHolds(Content(s), sessions'[s].content)
  <2> USE DEF StoreInv, TypeOK, Present, Content
  <2>1. Content(s) \in Conversation /\ Coherent(Content(s))
    BY <1>1 DEF ConversationInv, AgentTypeOK, StoredCoherent
  <2>2. ScoreHolds(Content(s), Content(s))
    <3>1. LeadScore(Content(s)) \in Int
      BY <2>1, ScoreType
    <3>2. Completeness(Content(s)) >= Completeness(Content(s))
      BY CompletenessGrows
    <3> QED
      BY <3>1, <3>2 DEF ScoreHolds
  <2>3. CASE Removes \/ TaskMoves \/ Asks
    <3>1. sessions'[s].content = Content(s)
      BY <1>1, <2>3 DEF Removes, TaskMoves, Asks
    <3> QED
      BY <2>2, <3>1
  <2>4. CASE AnswersAlone
    <3>1. PICK i \in SessionIds, c \in Contents :
            /\ \/ Closed(i) /\ c = Content(i)
               \/ Open(i) /\ c = StoppedTurn(Content(i))
            /\ WriteBack(i, c)
      BY <2>4 DEF AnswersAlone
    <3>2. CASE i = s /\ Open(s)
      <4> DEFINE stopped == Stopped(Content(s))
                 after == StoppedTurn(Content(s))
      <4>1. /\ stopped \in Conversation /\ stopped.lead = Content(s).lead
            /\ after \in Conversation /\ Coherent(after)
        BY <2>1, <3>2, StoppedIsCoherent, StoppedTurnType DEF Open
      <4>2. after.lead = Content(s).lead
        BY <4>1, RecordedKeepsOutcome DEF StoppedTurn
      <4>3. sessions'[s].content = after
        BY <1>1, <3>1, <3>2 DEF WriteBack, Open, Closed
      <4> HIDE DEF after, stopped
      <4> QED
        BY <2>1, <3>2, <4>1, <4>2, <4>3, TurnKeepsScore DEF Open
    <3>3. CASE ~(i = s /\ Open(s))
      <4>1. sessions'[s].content = Content(s)
        BY <1>1, <3>1, <3>3 DEF WriteBack
      <4> QED
        BY <2>2, <4>1
    <3> QED
      BY <3>2, <3>3
  <2>5. CASE Finishes
    <3>1. PICK t \in Tasks, i \in SessionIds, c \in Conversation :
            /\ Commit(t, i, c) /\ Coherent(c)
            /\ \A f \in Fields : working[t].lead[f] # None => c.lead[f] # None
      BY <1>1, <2>5, TurnOutcome DEF Finishes
    <3>2. CASE i = s
      <4>1. Content(s) = working[t] /\ Active(Content(s))
        BY <1>1, <3>1, <3>2, FinishedTurnIsCurrent DEF Open
      <4>2. sessions'[s].content = c
        BY <1>1, <3>1, <3>2 DEF Commit, WriteBack
      <4> QED
        BY <2>1, <3>1, <4>1, <4>2, TurnKeepsScore
    <3>3. CASE i # s
      <4>1. sessions'[s].content = Content(s)
        BY <1>1, <3>1, <3>3 DEF Commit, WriteBack
      <4> QED
        BY <2>2, <4>1
    <3> QED
      BY <3>2, <3>3
  <2>6. ASSUME NEW i \in SessionIds, CreateSession(i)
        PROVE  ScoreHolds(Content(s), sessions'[s].content)
    <3>1. i # s
      BY <1>1, <2>6 DEF CreateSession, Create, StoredIdsIssued
    <3>2. sessions'[s].content = Content(s)
      BY <1>1, <2>6, <3>1 DEF CreateSession, Create, Without
    <3> QED
      BY <2>2, <3>2
  <2> QED
    BY <1>1, <2>3, <2>4, <2>5, <2>6, AgentStepKinds
<1>2. StoreInv /\ ConversationInv /\ [AgentNext]_allVars =>
        [\A s \in Present :
           LET before == Content(s)
               after == sessions'[s].content
           IN  sessions'[s] # Absent =>
                   /\ \/ LeadScore(after) >= LeadScore(before)
                      \/ Len(after.objections) > Len(before.objections)
                      \/ Disqualified(after)
                   /\ Completeness(after) >= Completeness(before)]_allVars
  BY <1>1 DEF ScoreHolds
<1> QED
  BY <1>2, AgentInvCorrect, PTL DEF AgentSpec, ScoreFallsForAReason

-----------------------------------------------------------------------------
(* The calendar.                                                           *)

Unclaimed(s) == \A k \in DOMAIN booked : booked[k].session # s

(* Conversations and calendar agree.  It takes in addition that nobody     *)
(* works on a conversation whose session has a claim: such a turn could    *)
(* claim a second slot, or write the booked visit away.                    *)
CalendarInv ==
    /\ BookedVisitIsClaimed
    /\ ClaimsAreShown
    /\ SuccessesCounted
    /\ IsFiniteSet(DOMAIN booked)
    /\ booked = [k \in DOMAIN booked |-> booked[k]]
    /\ \A k \in DOMAIN booked : booked[k].session \in issued
    /\ \A t \in Tasks : pc[t] = "inside" => Unclaimed(target[t])

(* A conversation without a visit has no claim. *)
LEMMA NoVisitNoClaim ==
  ASSUME CalendarInv, NEW s \in Present, Content(s).visit # "booked"
  PROVE  Unclaimed(s)
BY DEF CalendarInv, ClaimsAreShown, Unclaimed

LEMMA OpenIsUnclaimed ==
  ASSUME ConversationInv, CalendarInv, NEW s \in SessionIds, Open(s)
  PROVE  s \in Present /\ Content(s).visit # "booked" /\ Unclaimed(s)
<1>1. s \in Present /\ Coherent(Content(s)) /\ Active(Content(s))
  BY DEF Open, Present, ConversationInv, StoredCoherent
<1>2. Content(s).visit # "booked"
  BY <1>1, OpenHasNoVisit
<1> QED
  BY <1>1, <1>2, NoVisitNoClaim

(* Steps that leave the calendar alone, and enter the body of a session    *)
(* without a claim at most.                                                *)
LEMMA OtherStepsKeepCalendar ==
  ASSUME CalendarInv, UNCHANGED <<booked, succeeded>>, issued \subseteq issued',
         \A i \in Present' :
             \/ i \in Present /\ sessions'[i].content = Content(i)
             \/ sessions'[i].content.visit # "booked" /\ Unclaimed(i),
         \A u \in Tasks : pc'[u] = "inside" =>
             \/ pc[u] = "inside" /\ target'[u] = target[u]
             \/ Unclaimed(target'[u])
  PROVE  CalendarInv'
<1> USE DEF CalendarInv, Unclaimed
<1>1. BookedVisitIsClaimed'
  BY DEF BookedVisitIsClaimed, OwnedBy, Content
<1>2. ClaimsAreShown'
  BY DEF ClaimsAreShown, Content
<1>3. SuccessesCounted'
  BY DEF SuccessesCounted
<1> QED
  BY <1>1, <1>2, <1>3

(* A booking puts the visit into the conversation and the claim into the   *)
(* calendar.                                                               *)
LEMMA BookingKeepsCalendar ==
  ASSUME StoreInv, ConversationInv, CalendarInv,
         NEW t \in Tasks, NEW s \in SessionIds, NEW c, Commit(t, s, c),
         c.visit = "booked", NEW slot \in Nat, SlotKey(slot) = slot,
         c.visitAt = slot, slot \notin DOMAIN booked,
         booked' = WithClaim(booked, slot, s, c.reference),
         succeeded' = succeeded + 1
  PROVE  CalendarInv'
<1> USE DEF StoreInv, TypeOK
<1>1. /\ sessions'[s].content = c
      /\ \A i \in SessionIds \ {s} : sessions'[i] = sessions[i]
      /\ issued' = issued /\ s \in issued /\ Unclaimed(s)
  BY DEF Commit, WriteBack, TasksKnowTheirSession, CalendarInv
<1>2. /\ DOMAIN booked' = DOMAIN booked \cup {slot}
      /\ booked'[slot] = [session |-> s, reference |-> c.reference]
      /\ \A k \in DOMAIN booked : booked'[k] = booked[k]
      /\ booked' = [k \in DOMAIN booked' |-> booked'[k]]
  BY DEF WithClaim
<1>3. BookedVisitIsClaimed'
  <2> SUFFICES ASSUME NEW i \in SessionIds, sessions'[i] # Absent,
                      sessions'[i].content.visit = "booked"
               PROVE  LET at == sessions'[i].content.visitAt
                      IN  /\ SlotKey(at) \in DOMAIN booked'
                          /\ booked'[SlotKey(at)].session = i
                          /\ booked'[SlotKey(at)].reference
                               = sessions'[i].content.reference
    BY DEF BookedVisitIsClaimed, OwnedBy, Content, Present
  <2>1. CASE i = s
    BY <1>1, <1>2, <2>1
  <2>2. CASE i # s
    <3>1. LET at == sessions[i].content.visitAt
          IN  /\ SlotKey(at) \in DOMAIN booked
              /\ booked[SlotKey(at)].session = i
              /\ booked[SlotKey(at)].reference = sessions[i].content.reference
      BY <1>1, <2>2 DEF CalendarInv, BookedVisitIsClaimed, OwnedBy, Content, Present
    <3> QED
      BY <1>1, <1>2, <2>2, <3>1
  <2> QED
    BY <2>1, <2>2
<1>4. ClaimsAreShown'
  <2>1. ASSUME NEW k \in DOMAIN booked', sessions'[booked'[k].session] # Absent,
               booked'[k].session \in SessionIds
        PROVE  /\ sessions'[booked'[k].session].content.visit = "booked"
               /\ SlotKey(sessions'[booked'[k].session].content.visitAt) = k
    <3>1. CASE k = slot
      BY <1>1, <1>2, <3>1
    <3>2. CASE k # slot
      <4>1. k \in DOMAIN booked /\ booked'[k] = booked[k] /\ booked[k].session # s
        BY <1>1, <1>2, <3>2 DEF Unclaimed
      <4> QED
        BY <1>1, <2>1, <4>1 DEF CalendarInv, ClaimsAreShown, Content, Present
    <3> QED
      BY <3>1, <3>2
  <2>2. \A j, k \in DOMAIN booked' : booked'[j].session = booked'[k].session => j = k
    BY <1>1, <1>2 DEF CalendarInv, ClaimsAreShown, Unclaimed
  <2> QED
    BY <2>1, <2>2 DEF ClaimsAreShown, Content, Present
<1>5. IsFiniteSet(DOMAIN booked') /\ SuccessesCounted'
  <2>1. /\ IsFiniteSet(DOMAIN booked \cup {slot})
        /\ Cardinality(DOMAIN booked \cup {slot}) = Cardinality(DOMAIN booked) + 1
    BY FS_AddElement DEF CalendarInv
  <2> QED
    BY <1>2, <2>1 DEF CalendarInv, SuccessesCounted
<1>6. \A k \in DOMAIN booked' : booked'[k].session \in issued'
  BY <1>1, <1>2 DEF CalendarInv
<1>7. ASSUME NEW u \in Tasks, pc'[u] = "inside" PROVE Unclaimed(target[u])'
  <2>1. pc[u] = "inside" /\ target'[u] = target[u] /\ u # t
    BY <1>7 DEF Commit, Leave
  <2>2. target[u] # s
    BY <2>1 DEF MutualExclusion, Commit
  <2> QED
    BY <1>2, <2>1, <2>2 DEF CalendarInv, Unclaimed
<1> QED
  BY <1>2, <1>3, <1>4, <1>5, <1>6, <1>7 DEF CalendarInv

(* Every step keeps the calendar in order. *)
LEMMA CalendarInductive ==
  StoreInv /\ ConversationInv /\ CalendarInv /\ [AgentNext]_allVars => CalendarInv'
<1> SUFFICES ASSUME StoreInv, ConversationInv, CalendarInv, [AgentNext]_allVars
             PROVE  CalendarInv'
  OBVIOUS
<1> USE DEF StoreInv, TypeOK
<1>1. CASE Removes
  <2>1. /\ UNCHANGED <<booked, succeeded, issued, pc, target>>
        /\ \A i \in Present' : i \in Present /\ sessions'[i].content = Content(i)
    BY <1>1 DEF Removes, taskVars, agentVars, Present, Content
  <2> QED
    BY <2>1, OtherStepsKeepCalendar
<1>2. CASE TaskMoves
  <2>1. /\ UNCHANGED <<booked, succeeded, issued>>
        /\ \A i \in Present' : i \in Present /\ sessions'[i].content = Content(i)
        /\ \A u \in Tasks : pc'[u] = "inside" =>
               pc[u] = "inside" /\ target'[u] = target[u]
    BY <1>2 DEF TaskMoves, Present, Content
  <2> QED
    BY <2>1, OtherStepsKeepCalendar
<1>3. CASE Asks
  <2>1. PICK t \in Tasks, s \in SessionIds :
          /\ Open(s) /\ Acquire(t, s)
          /\ UNCHANGED <<sessions, issued, booked, succeeded>>
    BY <1>3 DEF Asks
  <2>2. Unclaimed(s)
    BY <2>1, OpenIsUnclaimed
  <2>3. \A i \in Present' : i \in Present /\ sessions'[i].content = Content(i)
    BY <2>1 DEF Present, Content
  <2>4. \A u \in Tasks : pc'[u] = "inside" =>
          \/ pc[u] = "inside" /\ target'[u] = target[u]
          \/ Unclaimed(target'[u])
    BY <2>1, <2>2 DEF Acquire
  <2> QED
    BY <2>1, <2>3, <2>4, OtherStepsKeepCalendar
<1>4. CASE AnswersAlone
  <2>1. PICK t \in Tasks, s \in SessionIds, c \in Contents :
          /\ \/ Closed(s) /\ c = Content(s)
             \/ Open(s) /\ c = StoppedTurn(Content(s))
          /\ WriteBack(s, c)
          /\ Leave(t) \/ UNCHANGED taskVars
          /\ UNCHANGED <<issued, booked, succeeded>>
    BY <1>4 DEF AnswersAlone
  <2>2. \/ s \in Present /\ c = Content(s)
        \/ c.visit # "booked" /\ Unclaimed(s)
    <3>1. CASE Closed(s) /\ c = Content(s)
      BY <3>1 DEF Closed, Present
    <3>2. CASE Open(s) /\ c = StoppedTurn(Content(s))
      <4>1. /\ Content(s) \in Conversation /\ Coherent(Content(s))
            /\ Active(Content(s)) /\ Content(s).visit # "booked" /\ Unclaimed(s)
        BY <3>2, OpenIsUnclaimed
        DEF Open, ConversationInv, AgentTypeOK, StoredCoherent, Content
      <4>2. /\ Stopped(Content(s)) \in Conversation
            /\ Stopped(Content(s)).visit = Content(s).visit
        BY <4>1, StoppedIsCoherent
      <4>3. c.visit = Content(s).visit
        BY <3>2, <4>2, RecordedKeepsOutcome DEF StoppedTurn
      <4> QED
        BY <4>1, <4>3
    <3> QED
      BY <2>1, <3>1, <3>2
  <2>3. \A i \in Present' :
          \/ i \in Present /\ sessions'[i].content = Content(i)
          \/ sessions'[i].content.visit # "booked" /\ Unclaimed(i)
    BY <2>1, <2>2 DEF WriteBack, Present, Content
  <2>4. \A u \in Tasks : pc'[u] = "inside" =>
          pc[u] = "inside" /\ target'[u] = target[u]
    BY <2>1 DEF Leave, taskVars
  <2> QED
    BY <2>1, <2>3, <2>4, OtherStepsKeepCalendar
<1>5. CASE Finishes
  <2>1. PICK t \in Tasks, s \in SessionIds :
          \E answer \in Answers(t) : FinishTurn(t, s, answer)
    BY <1>5 DEF Finishes
  <2>2. PICK c \in Conversation :
          /\ Commit(t, s, c)
          /\ \/ c.visit # "booked" /\ UNCHANGED <<booked, succeeded>>
             \/ /\ c.visit = "booked" /\ c.visitAt \in Nat
                /\ succeeded' = succeeded + 1
                /\ \/ OwnedBy(booked, s, c.visitAt)
                   \/ /\ SlotKey(c.visitAt) = c.visitAt
                      /\ c.visitAt \notin DOMAIN booked
                      /\ booked' = WithClaim(booked, c.visitAt, s, c.reference)
    BY <2>1, TurnOutcome
  <2>3. Unclaimed(s)
    BY <2>2 DEF Commit, CalendarInv
  <2>4. CASE c.visit # "booked" /\ UNCHANGED <<booked, succeeded>>
    <3>1. /\ issued' = issued
          /\ \A i \in Present' :
                 \/ i \in Present /\ sessions'[i].content = Content(i)
                 \/ sessions'[i].content.visit # "booked" /\ Unclaimed(i)
          /\ \A u \in Tasks : pc'[u] = "inside" =>
                 pc[u] = "inside" /\ target'[u] = target[u]
      BY <2>2, <2>3, <2>4 DEF Commit, WriteBack, Leave, Present, Content
    <3> QED
      BY <2>4, <3>1, OtherStepsKeepCalendar
  <2>5. CASE c.visit = "booked"
    BY <2>2, <2>3, <2>5, BookingKeepsCalendar DEF OwnedBy, Unclaimed
  <2> QED
    BY <2>2, <2>4, <2>5
<1>6. ASSUME NEW s \in SessionIds, CreateSession(s) PROVE CalendarInv'
  <2>1. /\ s \notin issued /\ issued \subseteq issued'
        /\ sessions'[s].content = NewConversation
        /\ \A i \in SessionIds \ {s} : sessions'[i] \in {sessions[i], Absent}
        /\ UNCHANGED <<pc, target, booked, succeeded>>
    BY <1>6 DEF CreateSession, Create, Without, taskVars, agentVars
  <2>2. Unclaimed(s) /\ NewConversation.visit # "booked"
    BY <2>1 DEF CalendarInv, Unclaimed, NewConversation
  <2>3. \A i \in Present' :
          \/ i \in Present /\ sessions'[i].content = Content(i)
          \/ sessions'[i].content.visit # "booked" /\ Unclaimed(i)
    BY <2>1, <2>2 DEF Present, Content
  <2> QED
    BY <2>1, <2>3, OtherStepsKeepCalendar
<1> QED
  BY <1>1, <1>2, <1>3, <1>4, <1>5, <1>6, AgentStepKinds

LEMMA CalendarCorrect == AgentSpec => []CalendarInv
<1>1. AgentInit => CalendarInv
  <2> SUFFICES ASSUME AgentInit PROVE CalendarInv
    OBVIOUS
  <2>1. DOMAIN booked = {} /\ Present = {} /\ succeeded = 0
        /\ booked = [k \in DOMAIN booked |-> booked[k]]
    BY DEF AgentInit, Init, Present
  <2>2. IsFiniteSet(DOMAIN booked) /\ Cardinality(DOMAIN booked) = 0
    BY <2>1, FS_EmptySet
  <2> QED
    BY <2>1, <2>2
    DEF AgentInit, Init, CalendarInv, BookedVisitIsClaimed, ClaimsAreShown,
        SuccessesCounted
<1> QED
  BY <1>1, CalendarInductive, AgentInvCorrect, PTL DEF AgentSpec

(* No customer is told of a visit that is not in the calendar.             *)
THEOREM AgentVisitIsClaimed == AgentSpec => []BookedVisitIsClaimed
<1>1. CalendarInv => BookedVisitIsClaimed
  BY DEF CalendarInv
<1> QED
  BY <1>1, CalendarCorrect, PTL

(* No claim is left behind by a turn that failed, overlapped another or    *)
(* outlived its session, and no session has two.                           *)
THEOREM AgentClaimsAreShown == AgentSpec => []ClaimsAreShown
<1>1. CalendarInv => ClaimsAreShown
  BY DEF CalendarInv
<1> QED
  BY <1>1, CalendarCorrect, PTL

(* The counter of bookings counts the claims.                              *)
THEOREM AgentSuccessesCounted == AgentSpec => []SuccessesCounted
<1>1. CalendarInv => SuccessesCounted
  BY DEF CalendarInv
<1> QED
  BY <1>1, CalendarCorrect, PTL

(* Through the agent, too, the calendar keeps the booking contract.        *)
THEOREM AgentKeepsContract == AgentSpec => ImplementsContract
<1>1. AgentInit => Contract!Init
  BY DEF AgentInit, Contract!Init
<1>2. StoreInv /\ ConversationInv /\ CalendarInv /\ [AgentNext]_allVars
        => [Contract!Next]_booked
  <2> SUFFICES ASSUME StoreInv, ConversationInv, CalendarInv, [AgentNext]_allVars
               PROVE  Contract!Next \/ UNCHANGED booked
    OBVIOUS
  <2>1. CASE Removes \/ TaskMoves \/ Asks \/ AnswersAlone
    BY <2>1 DEF Removes, TaskMoves, Asks, AnswersAlone, agentVars
  <2>2. CASE Finishes
    <3>1. PICK t \in Tasks, s \in SessionIds, c \in Conversation :
            \/ UNCHANGED booked
            \/ /\ c.visitAt \in AskedSlots \ DOMAIN booked
               /\ c.reference \in References
               /\ booked' = WithClaim(booked, c.visitAt, s, c.reference)
      BY <2>2, TurnOutcome DEF Finishes
    <3>2. ASSUME c.visitAt \in AskedSlots \ DOMAIN booked,
                 c.reference \in References,
                 booked' = WithClaim(booked, c.visitAt, s, c.reference)
          PROVE  Contract!Next
      <4> DEFINE k == c.visitAt
                 claim == [session |-> s, reference |-> c.reference]
      <4>1. claim \in [session : SessionIds, reference : References]
        BY <3>2
      <4>2. booked' = [j \in DOMAIN booked \cup {k} |->
                          IF j = k THEN claim ELSE booked[j]]
        BY <3>2 DEF WithClaim
      <4> HIDE DEF claim, k
      <4>3. DOMAIN booked' = DOMAIN booked \cup {k} /\ booked'[k] = claim
        BY <4>2
      <4>4. booked' = [j \in DOMAIN booked' |->
                          IF j = k THEN booked'[k] ELSE booked[j]]
        BY <4>2, <4>3
      <4>5. k \in AskedSlots /\ k \notin DOMAIN booked
        BY <3>2 DEF k
      <4>6. Contract!ClaimSlot(k)
        BY <4>1, <4>3, <4>4, <4>5 DEF Contract!ClaimSlot, Contract!Claim
      <4> QED
        BY <4>5, <4>6 DEF Contract!Next
    <3> QED
      BY <3>1, <3>2
  <2>3. ASSUME NEW s \in SessionIds, CreateSession(s) PROVE UNCHANGED booked
    BY <2>3 DEF CreateSession, agentVars
  <2> QED
    BY <2>1, <2>2, <2>3, AgentStepKinds
<1> QED
  BY <1>1, <1>2, CalendarCorrect, AgentInvCorrect, PTL
  DEF AgentSpec, ImplementsContract, Contract!Spec

-----------------------------------------------------------------------------
(* The times a customer gets.                                              *)

(* One of these messages names that time, read at a moment up to this one. *)
Named(at, messages, upTo) ==
    \E m \in messages, now \in Instants : now <= upTo /\ NamedAt(m, now) = at

(* The visit and the callback of a conversation are at a time which the    *)
(* customer named or which the remote provider came up with.               *)
Accounted(conv, messages, upTo) ==
    \A at \in {conv.visitAt, conv.followUpAt} \ {None} :
        Proposed(at) \/ Named(at, messages, upTo)

(* AskedFor with the remote provider in the picture. *)
TimesAccounted ==
    \A s \in Present : Accounted(Content(s), heard[s], clock)

LEMMA AccountsStand ==
  ASSUME NEW conv, NEW M, NEW N, M \subseteq N,
         NEW upTo \in Instants, NEW later \in Instants, upTo <= later,
         Accounted(conv, M, upTo)
  PROVE  Accounted(conv, N, later)
<1>1. \A now \in Instants : now <= upTo => now <= later
  BY ClockAssumption
<1> QED
  BY <1>1 DEF Accounted, Named

(* The clock of the store is never put back. *)
LEMMA ClockAdvances ==
  ASSUME TypeOK, [Next]_vars
  PROVE  clock' \in Instants /\ clock <= clock'
<1>1. clock \in Nat
  BY ClockAssumption DEF TypeOK
<1>2. CASE Tick
  BY <1>1, <1>2, ClockAssumption DEF Tick
<1>3. CASE clock' = clock
  BY <1>1, <1>3 DEF TypeOK
<1>4. CASE CreateRefused \/ Count \/ UNCHANGED vars
  BY <1>3, <1>4 DEF CreateRefused, Count, vars
<1>5. ASSUME NEW s \in SessionIds, Index(s) PROVE clock' = clock
  BY <1>5 DEF Index, Get, Delete, Create
<1>6. ASSUME NEW t \in Tasks, NEW s \in SessionIds, Begin(t, s)
      PROVE  clock' = clock
  BY <1>6 DEF Begin, BeginRefused, BeginAcquire, BeginWait, BeginThrough
<1>7. ASSUME NEW t \in Tasks, NEW s \in SessionIds, Wake(t, s) \/ End(t, s)
      PROVE  clock' = clock
  BY <1>7 DEF Wake, WakeAcquire, WakeMissing, WakeThrough, End, Abort, Commit
<1> QED
  BY <1>2, <1>3, <1>4, <1>5, <1>6, <1>7 DEF Next

(* An account stands when each stored conversation either was there before *)
(* or is accounted for now.                                                *)
LEMMA AccountsAreKept ==
  ASSUME StoreInv, ConversationInv, TimesAccounted, [AgentNext]_allVars,
         \A i \in SessionIds : heard[i] \subseteq heard'[i],
         \A i \in Present' :
             \/ i \in Present /\ sessions'[i].content = Content(i)
             \/ Accounted(sessions'[i].content, heard'[i], clock')
  PROVE  TimesAccounted'
<1>1. /\ clock \in Instants /\ clock' \in Instants /\ clock <= clock'
  BY AgentStepIsStoreStep, ClockAdvances DEF StoreInv, TypeOK
<1>2. ASSUME NEW i \in Present'
      PROVE  Accounted(sessions'[i].content, heard'[i], clock')
  BY <1>1, <1>2, AccountsStand DEF TimesAccounted, Present
<1> QED
  BY <1>2 DEF TimesAccounted, Content

LEMMA TimesInductive ==
  StoreInv /\ ConversationInv /\ TimesAccounted /\ [AgentNext]_allVars
    => TimesAccounted'
<1> SUFFICES ASSUME StoreInv, ConversationInv, TimesAccounted, [AgentNext]_allVars
             PROVE  TimesAccounted'
  OBVIOUS
<1> USE DEF StoreInv, TypeOK, ConversationInv, AgentTypeOK
<1>1. CASE Removes \/ TaskMoves \/ Asks
  <2>1. /\ \A i \in SessionIds : heard[i] \subseteq heard'[i]
        /\ \A i \in Present' : i \in Present /\ sessions'[i].content = Content(i)
    BY <1>1 DEF Removes, TaskMoves, Asks, agentVars, Present, Content
  <2> QED
    BY <2>1, AccountsAreKept
<1>2. ASSUME NEW s \in SessionIds, NEW m \in Messages, NEW c,
             WriteBack(s, c), Answered(s, m),
             \/ s \in Present /\ c = Content(s)
             \/ Accounted(c, heard[s] \cup {m}, clock')
      PROVE  TimesAccounted'
  <2>1. /\ heard'[s] = heard[s] \cup {m}
        /\ \A i \in SessionIds : heard[i] \subseteq heard'[i]
    BY <1>2 DEF Answered
  <2>2. \A i \in Present' :
          \/ i \in Present /\ sessions'[i].content = Content(i)
          \/ Accounted(sessions'[i].content, heard'[i], clock')
    BY <1>2, <2>1 DEF WriteBack, Present, Content
  <2> QED
    BY <2>1, <2>2, AccountsAreKept
<1>3. CASE AnswersAlone
  <2>1. PICK t \in Tasks, s \in SessionIds, m \in Messages, c \in Contents :
          /\ \/ Closed(s) /\ c = Content(s)
             \/ Open(s) /\ c = StoppedTurn(Content(s))
          /\ WriteBack(s, c)
          /\ Answered(s, m)
    BY <1>3 DEF AnswersAlone
  <2>2. CASE Closed(s) /\ c = Content(s)
    BY <1>2, <2>1, <2>2 DEF Closed, Present
  <2>3. CASE Open(s) /\ c = StoppedTurn(Content(s))
    <3>1. /\ Content(s) \in Conversation /\ Coherent(Content(s))
          /\ Active(Content(s))
      BY <2>3 DEF Open, StoredCoherent, Present, Content
    <3>2. /\ Coherent(c) /\ c.visit # "booked" /\ c.followUpAt = None
      <4>1. /\ Stopped(Content(s)) \in Conversation
            /\ Stopped(Content(s)).visit = Content(s).visit
        BY <3>1, StoppedIsCoherent
      <4>2. Stopped(Content(s)).followUpAt = None
        BY <3>1 DEF Stopped, Conversation
      <4> QED
        BY <2>3, <3>1, <4>1, <4>2, StoppedTurnType, RecordedKeepsOutcome,
           OpenHasNoVisit DEF StoppedTurn
    <3>3. {c.visitAt, c.followUpAt} \ {None} = {}
      BY <3>2 DEF Coherent
    <3> QED
      BY <1>2, <2>1, <3>3 DEF Accounted
  <2> QED
    BY <2>1, <2>2, <2>3
<1>4. CASE Finishes
  <2>0. PICK t \in Tasks, s \in SessionIds :
          \E answer \in Answers(t) : FinishTurn(t, s, answer)
    BY <1>4 DEF Finishes
  <2>1. PICK answer \in Answers(t) : FinishTurn(t, s, answer)
    BY <2>0
  <2>2. PICK c \in Conversation :
          /\ Commit(t, s, c)
          /\ {c.visitAt, c.followUpAt} \ {None}
                \subseteq Nat \cap {answer.slot, answer.followUpAt}
    BY <2>1, TurnOutcome
  <2>3. message[t] \in Messages /\ Answered(s, message[t])
    BY <2>1, <2>2 DEF FinishTurn, Commit, BusyTasksHaveMessages
  <2>4. WriteBack(s, c) /\ clock' = clock /\ clock \in Nat
    BY <2>2, ClockAssumption DEF Commit
  <2>5. ASSUME NEW at \in {c.visitAt, c.followUpAt} \ {None}
        PROVE  Proposed(at) \/ Named(at, heard[s] \cup {message[t]}, clock')
    <3>1. Proposed(at) \/ NamedAt(message[t], clock) = at
      BY <2>2, <2>3, <2>5, AnswersAreTurns
    <3>2. /\ message[t] \in heard[s] \cup {message[t]}
          /\ clock \in Instants /\ clock <= clock'
      BY <2>4
    <3> QED
      BY <3>1, <3>2 DEF Named
  <2>6. Accounted(c, heard[s] \cup {message[t]}, clock')
    BY <2>5 DEF Accounted
  <2> QED
    BY <1>2, <2>3, <2>4, <2>6
<1>5. ASSUME NEW s \in SessionIds, CreateSession(s) PROVE TimesAccounted'
  <2>1. /\ sessions'[s].content = NewConversation
        /\ \A i \in SessionIds \ {s} : sessions'[i] \in {sessions[i], Absent}
        /\ heard' = heard
    BY <1>5 DEF CreateSession, Create, Without, agentVars
  <2>2. Accounted(NewConversation, heard'[s], clock')
    BY DEF Accounted, NewConversation
  <2>3. \A i \in Present' :
          \/ i \in Present /\ sessions'[i].content = Content(i)
          \/ Accounted(sessions'[i].content, heard'[i], clock')
    BY <2>1, <2>2 DEF Present, Content
  <2> QED
    BY <2>1, <2>3, AccountsAreKept
<1> QED
  BY <1>1, <1>3, <1>4, <1>5, AgentStepKinds

(* Whatever providers there are, the visit and the callback of a           *)
(* conversation are at a time the customer named to this very session or   *)
(* the remote provider chose: no other code invents, shifts or swaps one.  *)
THEOREM AgentTimesAccounted == AgentSpec => []TimesAccounted
<1>1. AgentInit => TimesAccounted
  BY DEF AgentInit, Init, TimesAccounted, Present
<1> QED
  BY <1>1, TimesInductive, AgentInvCorrect, PTL DEF AgentSpec

(* With the demo provider as the only one, a customer gets the time the    *)
(* customer asked for.                                                     *)
THEOREM AgentAskedFor ==
  ASSUME ProviderTurns = {}
  PROVE  AgentSpec => []AskedFor
<1>1. TimesAccounted => AskedFor
  BY DEF TimesAccounted, Accounted, Proposed, Named, AskedFor
<1> QED
  BY <1>1, AgentTimesAccounted, PTL

-----------------------------------------------------------------------------
(* Stop requests.                                                          *)

(* A turn never works on a session that was answered a stop request, and   *)
(* an id that was not handed out yet has nothing to be answered.           *)
HeedInv ==
    /\ StopIsHeeded
    /\ \A t \in Tasks : pc[t] = "inside" => ~HeardAStop(target[t])
    /\ \A s \in SessionIds \ issued : heard[s] = {}

(* The answer to one session, which leaves it closed unless it never heard *)
(* of a stop.                                                              *)
LEMMA WritingHeedsStops ==
  ASSUME StoreInv, ConversationInv, HeedInv,
         NEW t \in Tasks, NEW s \in issued, NEW m \in Messages, NEW c,
         WriteBack(s, c), Answered(s, m), UNCHANGED issued,
         Leave(t) \/ UNCHANGED taskVars,
         \A u \in Tasks : pc'[u] = "inside" => target[u] # s,
         Active(c) => ~HeardAStop(s) /\ ~m.stop
  PROVE  HeedInv'
<1> USE DEF StoreInv, TypeOK, ConversationInv, AgentTypeOK, HeedInv, HeardAStop
<1>1. /\ heard'[s] = heard[s] \cup {m}
      /\ \A i \in SessionIds \ {s} : heard'[i] = heard[i]
  BY DEF Answered
<1>2. /\ sessions'[s].content = c
      /\ \A i \in SessionIds \ {s} : sessions'[i] = sessions[i]
  BY DEF WriteBack
<1>3. ASSUME NEW i \in SessionIds, sessions'[i] # Absent, HeardAStop(i)'
      PROVE  ~Active(sessions'[i].content)
  <2>1. CASE i = s
    BY <1>1, <1>2, <1>3, <2>1
  <2>2. CASE i # s
    BY <1>1, <1>2, <1>3, <2>2 DEF StopIsHeeded, Open, Present, Content
  <2> QED
    BY <2>1, <2>2
<1>4. StopIsHeeded'
  BY <1>3 DEF StopIsHeeded, Open, Present, Content
<1>5. ASSUME NEW u \in Tasks, pc'[u] = "inside" PROVE ~HeardAStop(target[u])'
  <2>1. /\ pc[u] = "inside" /\ target'[u] = target[u]
        /\ target[u] \in SessionIds \ {s}
    BY <1>5 DEF Leave, taskVars, TasksKnowTheirSession
  <2> QED
    BY <1>1, <2>1
<1>6. \A i \in SessionIds \ issued' : heard'[i] = {}
  BY <1>1
<1> QED
  BY <1>4, <1>5, <1>6

(* Every step heeds the stop requests. *)
LEMMA HeedInductive ==
  StoreInv /\ ConversationInv /\ HeedInv /\ [AgentNext]_allVars => HeedInv'
<1> SUFFICES ASSUME StoreInv, ConversationInv, HeedInv, [AgentNext]_allVars
             PROVE  HeedInv'
  OBVIOUS
<1> USE DEF StoreInv, TypeOK, ConversationInv, AgentTypeOK
<1>1. CASE Removes
  BY <1>1 DEF Removes, taskVars, agentVars, HeedInv, HeardAStop, StopIsHeeded,
     Open, Present, Content
<1>2. CASE TaskMoves
  <2>1. \A u \in Tasks : pc'[u] = "inside" =>
          pc[u] = "inside" /\ target'[u] = target[u]
    BY <1>2 DEF TaskMoves
  <2>2. UNCHANGED <<sessions, issued, heard>>
    BY <1>2 DEF TaskMoves
  <2> QED
    BY <2>1, <2>2 DEF HeedInv, HeardAStop, StopIsHeeded, Open, Present, Content
<1>3. CASE Asks
  <2>1. PICK t \in Tasks, s \in SessionIds :
          Open(s) /\ Acquire(t, s) /\ UNCHANGED <<sessions, issued, heard>>
    BY <1>3 DEF Asks
  <2>2. ~HeardAStop(s)
    BY <2>1 DEF Open, HeedInv, StopIsHeeded, Present
  <2>3. ASSUME NEW u \in Tasks, pc'[u] = "inside"
        PROVE  ~HeardAStop(target[u])'
    <3>1. CASE u = t
      BY <2>1, <2>2, <3>1 DEF Acquire, HeardAStop
    <3>2. CASE u # t
      BY <2>1, <2>3, <3>2 DEF Acquire, HeedInv, HeardAStop
    <3> QED
      BY <3>1, <3>2
  <2> QED
    BY <2>1, <2>3 DEF HeedInv, HeardAStop, StopIsHeeded, Open, Present, Content
<1>4. CASE AnswersAlone
  <2>1. PICK t \in Tasks, s \in SessionIds, m \in Messages, c \in Contents :
          /\ \/ Closed(s) /\ c = Content(s)
             \/ Open(s) /\ m.stop /\ c = StoppedTurn(Content(s))
          /\ holder[s] = NoTask /\ pc[t] # "inside"
          /\ WriteBack(s, c) /\ Answered(s, m) /\ UNCHANGED issued
          /\ Leave(t) \/ UNCHANGED taskVars
    BY <1>4 DEF AnswersAlone
  <2>2. s \in issued
    BY <2>1 DEF Closed, Open, StoredIdsIssued, Present
  <2>3. ~Active(c)
    <3>1. CASE Closed(s) /\ c = Content(s)
      BY <3>1 DEF Closed
    <3>2. CASE Open(s) /\ c = StoppedTurn(Content(s))
      <4>1. /\ Content(s) \in Conversation /\ Coherent(Content(s))
            /\ Active(Content(s))
        BY <3>2 DEF Open, StoredCoherent, Present, Content
      <4>2. Stopped(Content(s)) \in Conversation /\ ~Active(Stopped(Content(s)))
        BY <4>1, StoppedIsCoherent
      <4> QED
        BY <3>2, <4>2, RecordedKeepsOutcome DEF StoppedTurn
    <3> QED
      BY <2>1, <3>1, <3>2
  <2>4. \A u \in Tasks : pc'[u] = "inside" => target[u] # s
    BY <2>1, SentinelsAssumption DEF Leave, taskVars, MutualExclusion
  <2> QED
    BY <2>1, <2>2, <2>3, <2>4, WritingHeedsStops
<1>5. CASE Finishes
  <2>0. PICK t \in Tasks, s \in SessionIds :
          \E answer \in Answers(t) : FinishTurn(t, s, answer)
    BY <1>5 DEF Finishes
  <2>1. PICK answer \in Answers(t) : FinishTurn(t, s, answer)
    BY <2>0
  <2>2. PICK c \in Conversation : Commit(t, s, c)
    BY <2>1, TurnOutcome
  <2>3. /\ message[t] \in Messages /\ Answered(s, message[t])
        /\ pc[t] = "inside" /\ target[t] = s /\ s \in issued
    BY <2>1, <2>2 DEF FinishTurn, Commit, BusyTasksHaveMessages,
       TasksKnowTheirSession
  <2>4. ~HeardAStop(s) /\ ~message[t].stop
    BY <2>3 DEF HeedInv, AskedAreCoherent
  <2>5. \A u \in Tasks : pc'[u] = "inside" => target[u] # s
    BY <2>2, <2>3 DEF Commit, Leave, MutualExclusion
  <2>6. WriteBack(s, c) /\ UNCHANGED issued /\ Leave(t)
    BY <2>2 DEF Commit
  <2> QED
    BY <2>3, <2>4, <2>5, <2>6, WritingHeedsStops
<1>6. ASSUME NEW s \in SessionIds, CreateSession(s) PROVE HeedInv'
  <2>1. /\ s \notin issued /\ issued' = issued \cup {s}
        /\ \A i \in SessionIds \ {s} : sessions'[i] \in {sessions[i], Absent}
        /\ UNCHANGED <<taskVars, heard>>
    BY <1>6 DEF CreateSession, Create, Without, agentVars
  <2>2. heard[s] = {}
    BY <2>1 DEF HeedInv
  <2> QED
    BY <2>1, <2>2 DEF HeedInv, HeardAStop, StopIsHeeded, Open, Present, Content,
       taskVars
<1> QED
  BY <1>1, <1>2, <1>3, <1>4, <1>5, <1>6, AgentStepKinds

(* Whoever asked to be left alone, and was answered, is left alone: no     *)
(* overlapping turn and no late answer of the provider opens that          *)
(* conversation again.                                                     *)
THEOREM AgentStopIsHeeded == AgentSpec => []StopIsHeeded
<1>1. AgentInit => HeedInv
  BY DEF AgentInit, Init, HeedInv, HeardAStop, StopIsHeeded, Present
<1>2. HeedInv => StopIsHeeded
  BY DEF HeedInv
<1> QED
  BY <1>1, <1>2, HeedInductive, AgentInvCorrect, PTL DEF AgentSpec

=============================================================================
