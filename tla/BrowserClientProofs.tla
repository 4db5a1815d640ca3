------------------------- MODULE BrowserClientProofs -------------------------
(***************************************************************************)
(* Theorems about the page, for any number of calls, mishaps and sessions, *)
(* and every order in which calls are served and answers arrive:           *)
(*                                                                         *)
(*   CallInv    which call the page awaits in each of its phases,          *)
(*   EndInv     an answer that says "over" speaks of a closed session,     *)
(*   ScreenInv  the last line on the screen waits for the awaited call,    *)
(*   DebtInv    every session or creation that was lost has its mishap,    *)
(*   TellInv    the turns that may end the page's conversation are those   *)
(*              it awaits and those it apologised for.                     *)
(***************************************************************************)
EXTENDS BrowserClient, SequenceTheorems, FiniteSetTheorems, TLAPS

(* What a call, and what a line on the screen, is made of. *)
Kinds == {"create", "chat", "delete", "analytics"}
Phases == {"sent", "queued", "running"} \cup Outcomes

Calls ==
    [id : Nat, kind : Kinds, session : SessionIds \cup {NoSession},
     phase : Phases, over : BOOLEAN]

Entry == [role : {"user", "assistant", "sorry", "greeting"},
          session : SessionIds \cup {NoSession}, id : Nat]

PageTypeOK ==
    /\ sessionId \in SessionIds \cup {NoSession}
    /\ ended \in BOOLEAN
    /\ doing \in {"nothing", "deleting", "creating", "creatingToSend", "chatting"}
    /\ awaits \in Nat
    /\ asking \in SUBSET Nat
    /\ shown \in Seq(Entry)
    /\ calls \in SUBSET Calls
    /\ sent \in Nat
    /\ server \in [SessionIds -> {"absent", "active", "ended"}]
    /\ issued \in SUBSET SessionIds
    /\ mishaps \in Nat

(* Calls are told apart by their numbers, and numbers are not used twice.  *)
NumbersAreFresh ==
    /\ \A c \in calls : c.id \in 1..sent
    /\ \A c, d \in calls : c.id = d.id => c = d
    /\ awaits <= sent
    /\ \A n \in asking : n \in 1..sent /\ n # awaits

(* What a call may say. *)
CallsMakeSense ==
    \A c \in calls :
        /\ c.kind = "create" /\ c.phase = "ok" => c.session \in issued
        /\ c.kind # "create" => c.session \in issued
        /\ c.phase \in {"queued", "running"} => c.kind = "chat"
        /\ c.id \in asking => c.kind = "analytics"

(* The page awaits the call that its function made last. *)
AwaitedKind ==
    IF doing = "deleting" THEN "delete"
    ELSE IF doing = "chatting" THEN "chat" ELSE "create"

AwaitsTheRightCall ==
    /\ doing = "nothing" <=> awaits = 0
    /\ \A c \in calls :
           c.id = awaits => /\ c.kind = AwaitedKind
                            /\ c.kind # "create" => c.session = sessionId
    /\ sessionId # NoSession => sessionId \in issued
    /\ doing = "chatting" => sessionId # NoSession /\ ~ended
    /\ doing = "creatingToSend" => sessionId = NoSession

CallInv == PageTypeOK /\ NumbersAreFresh /\ CallsMakeSense /\ AwaitsTheRightCall

(* A session without a turn under way that is not active stays so. *)
Closed(s) ==
    /\ s \in issued
    /\ server[s] # "active"
    /\ \A c \in calls : c.phase = "running" => c.session # s

OneTurnAtATime ==
    \A c, d \in calls :
        /\ c.phase = "running" => server[c.session] # "ended"
        /\ c.phase = "running" /\ d.phase = "running" /\ c.session = d.session => c = d

EndInv ==
    /\ OneTurnAtATime
    /\ \A c \in calls : c.over => c.phase = "ok" /\ c.kind = "chat" /\ Closed(c.session)
    /\ ended => sessionId # NoSession /\ Closed(sessionId)

ScreenInv ==
    /\ AnswersInPlace
    /\ sessionId # NoSession => shown # <<>>
    /\ doing = "chatting" => /\ shown # <<>>
                             /\ shown[Len(shown)].role = "user"
                             /\ shown[Len(shown)].id = awaits

(* A session is abandoned when the page does not know it, or will forget   *)
(* it.  It is stored, not on the page, and not in the answer to the        *)
(* creation the page awaits:                                               *)
Unknown(s) ==
    /\ Stored(s)
    /\ s # sessionId
    /\ ~\E c \in calls :
           c.id = awaits /\ c.kind = "create" /\ c.phase = "ok" /\ c.session = s

(* or a chat that nobody listens to may store it again:                    *)
MayComeBack(s) == \E c \in calls : c.kind = "chat" /\ c.session = s /\ ~Listened(c)

(* or it is on the page, which is about to replace it: its deletion failed, *)
(* or it was gone and has come back.                                       *)
Leaving(s) ==
    /\ Stored(s)
    /\ s = sessionId
    /\ \/ doing = "creating"
       \/ \E c \in calls :
              /\ c.id = awaits
              /\ \/ c.kind = "delete" /\ Answered(c)
                 \/ c.kind = "chat" /\ c.phase = "gone"

Abandoned(s) == Unknown(s) \/ MayComeBack(s) \/ Leaving(s)

(* A creation nobody listens to. *)
Forgotten(n) == \E c \in calls : c.id = n /\ c.kind = "create" /\ ~Listened(c)

Debts ==
    {<<"session", s>> : s \in {s \in SessionIds : Abandoned(s)}} \cup
    {<<"call", n>> : n \in {m \in 1..sent : Forgotten(m)}}

DebtInv == IsFiniteSet(Debts) /\ Cardinality(Debts) <= mishaps

-----------------------------------------------------------------------------
(* The numbers and the meaning of the calls.                               *)

LEMMA CallFields ==
  ASSUME PageTypeOK, NEW c \in calls
  PROVE  /\ c.id \in Nat /\ c.kind \in Kinds /\ c.phase \in Phases
         /\ c.session \in SessionIds \cup {NoSession} /\ c.over \in BOOLEAN
         /\ c \in Calls
BY DEF PageTypeOK, Calls

LEMMA NewCallFields ==
  ASSUME NEW kind, NEW s
  PROVE  /\ NewCall(kind, s).id = sent + 1 /\ NewCall(kind, s).kind = kind
         /\ NewCall(kind, s).session = s /\ NewCall(kind, s).phase = "sent"
         /\ NewCall(kind, s).over = FALSE
         /\ PageTypeOK /\ kind \in Kinds /\ s \in SessionIds \cup {NoSession}
                => NewCall(kind, s) \in Calls
BY DEF NewCall, Calls, Phases, PageTypeOK

(* The guarded function makes its next call. *)
LEMMA FetchKeepsCalls ==
  ASSUME CallInv, PageTypeOK',
         NEW rest \in SUBSET calls, NEW kind \in {"create", "chat", "delete"}, NEW s,
         Fetch(rest, kind, s),
         kind # "create" => s = sessionId' /\ s # NoSession,
         AwaitedKind' = kind, doing' # "nothing",
         asking' \in SUBSET asking, issued' = issued,
         sessionId' # NoSession => sessionId' \in issued,
         doing' = "chatting" => sessionId' # NoSession /\ ~ended',
         doing' = "creatingToSend" => sessionId' = NoSession
  PROVE  CallInv'
<1> DEFINE new == NewCall(kind, s)
<1>1. /\ calls' = rest \cup {new} /\ sent' = sent + 1 /\ awaits' = sent + 1
  BY DEF Fetch
<1>2. /\ new.id = sent + 1 /\ new.kind = kind /\ new.session = s
      /\ new.phase = "sent"
  BY NewCallFields, ZenonT(40)
<1> HIDE DEF new
<1>3. sent \in Nat /\ asking \subseteq 1..sent /\ \A c \in rest : c.id \in 1..sent
  BY DEF CallInv, PageTypeOK, NumbersAreFresh
<1>4. NumbersAreFresh'
  BY <1>1, <1>2, <1>3 DEF CallInv, NumbersAreFresh
<1>5. CallsMakeSense'
  BY <1>1, <1>2, <1>3 DEF CallInv, CallsMakeSense
<1>6. AwaitsTheRightCall'
  <2>1. \A c \in calls' : c.id = awaits' => c = new
    BY <1>1, <1>3
  <2> QED
    BY <2>1, <1>1, <1>2, <1>3 DEF AwaitsTheRightCall
<1> QED
  BY <1>4, <1>5, <1>6 DEF CallInv

(* The guarded function ends. *)
LEMMA IdleKeepsCalls ==
  ASSUME CallInv, PageTypeOK', NEW rest \in SUBSET calls, Idle(rest),
         asking' = asking, issued' = issued,
         sessionId' # NoSession => sessionId' \in issued
  PROVE  CallInv'
<1>1. doing' = "nothing" /\ awaits' = 0 /\ calls' = rest /\ sent' = sent
  BY DEF Idle
<1>2. sent \in Nat /\ asking \subseteq 1..sent /\ \A c \in rest : c.id \in 1..sent
  BY DEF CallInv, PageTypeOK, NumbersAreFresh
<1>3. NumbersAreFresh'
  BY <1>1, <1>2 DEF CallInv, NumbersAreFresh
<1>4. CallsMakeSense'
  BY <1>1 DEF CallInv, CallsMakeSense
<1>5. AwaitsTheRightCall'
  BY <1>1, <1>2 DEF AwaitsTheRightCall
<1> QED
  BY <1>3, <1>4, <1>5 DEF CallInv

(* The page stays as it is, but for the dialog and the analytics it asked  *)
(* for; calls may leave.                                                   *)
LEMMA FewerCallsKeepCalls ==
  ASSUME CallInv, PageTypeOK', calls' \in SUBSET calls, sent' = sent,
         awaits' = awaits, doing' = doing, sessionId' = sessionId, ended' = ended,
         asking' \in SUBSET asking, issued' = issued
  PROVE  CallInv'
<1>1. NumbersAreFresh'
  BY DEF CallInv, NumbersAreFresh
<1>2. CallsMakeSense'
  BY DEF CallInv, CallsMakeSense
<1>3. AwaitsTheRightCall'
  BY DEF CallInv, AwaitsTheRightCall, AwaitedKind
<1> QED
  BY <1>1, <1>2, <1>3 DEF CallInv

(* The service works on a call, which moves on or leaves. *)
LEMMA ServiceKeepsCalls ==
  ASSUME CallInv, PageTypeOK', UNCHANGED <<pageVars, sent>>,
         issued \subseteq issued',
         NEW c \in calls, NEW d \in Calls, d.id = c.id, d.kind = c.kind,
         c.kind # "create" => d.session = c.session,
         d.kind = "create" /\ d.phase = "ok" => d.session \in issued',
         d.phase \in {"queued", "running"} => d.kind = "chat",
         calls' = (calls \ {c}) \cup {d} \/ calls' = calls \ {c}
  PROVE  CallInv'
<1>1. /\ sessionId' = sessionId /\ ended' = ended /\ doing' = doing
      /\ awaits' = awaits /\ asking' = asking /\ sent' = sent
  BY DEF pageVars
<1>2. \A e \in calls' : e = d \/ e \in calls \ {c}
  OBVIOUS
<1>3. NumbersAreFresh'
  BY <1>1, <1>2 DEF CallInv, NumbersAreFresh
<1>4. CallsMakeSense'
  BY <1>1, <1>2 DEF CallInv, CallsMakeSense
<1>5. AwaitsTheRightCall'
  BY <1>1, <1>2 DEF CallInv, AwaitsTheRightCall, AwaitedKind
<1> QED
  BY <1>3, <1>4, <1>5 DEF CallInv

-----------------------------------------------------------------------------
(* Each step of the page keeps them.                                       *)

LEMMA EntryType ==
  ASSUME PageTypeOK, NEW before \in Seq(Entry),
         NEW role \in {"user", "assistant", "sorry", "greeting"},
         NEW s \in SessionIds \cup {NoSession}, NEW n \in Nat
  PROVE  Append(before, [role |-> role, session |-> s, id |-> n]) \in Seq(Entry)
<1>1. [role |-> role, session |-> s, id |-> n] \in Entry
  BY DEF Entry
<1> QED
  BY <1>1, AppendProperties

LEMMA GreetingType ==
  ASSUME NEW s \in SessionIds \cup {NoSession}
  PROVE  <<Greeting(s)>> \in Seq(Entry)
BY DEF Greeting, Entry

(* The type after a call was made, or none. *)
LEMMA FetchType ==
  ASSUME PageTypeOK, NEW rest \in SUBSET calls, NEW kind \in Kinds,
         NEW s \in SessionIds \cup {NoSession}, Fetch(rest, kind, s)
  PROVE  calls' \in SUBSET Calls /\ sent' \in Nat /\ awaits' \in Nat
<1>1. NewCall(kind, s) \in Calls
  BY NewCallFields
<1> QED
  BY <1>1 DEF Fetch, PageTypeOK

LEMMA IdleType ==
  ASSUME PageTypeOK, NEW rest \in SUBSET calls, Idle(rest)
  PROVE  /\ calls' \in SUBSET Calls /\ sent' \in Nat /\ awaits' \in Nat
         /\ doing' = "nothing"
BY DEF Idle, PageTypeOK

LEMMA StartsKeepsCalls ==
  ASSUME CallInv, NEW deleteExisting \in BOOLEAN, NEW next \in {"creating", "creatingToSend"},
         Starts(next, deleteExisting),
         next = "creatingToSend" => sessionId = NoSession,
         UNCHANGED <<sessionId, ended, asking, analysable, shown, serverVars, mishaps>>
  PROVE  CallInv'
<1>1. CASE deleteExisting /\ sessionId # NoSession
  <2>1. doing' = "deleting" /\ Fetch(calls, "delete", sessionId)
    BY <1>1 DEF Starts
  <2>2. PageTypeOK'
    BY <2>1, FetchType DEF CallInv, PageTypeOK, Kinds, serverVars
  <2>3. AwaitedKind' = "delete"
    BY <2>1 DEF AwaitedKind
  <2> QED
    BY <1>1, <2>1, <2>2, <2>3, FetchKeepsCalls DEF CallInv, AwaitsTheRightCall, serverVars
<1>2. CASE ~(deleteExisting /\ sessionId # NoSession)
  <2>1. doing' = next /\ Fetch(calls, "create", NoSession)
    BY <1>2 DEF Starts
  <2>2. PageTypeOK'
    BY <2>1, FetchType DEF CallInv, PageTypeOK, Kinds, serverVars
  <2>3. AwaitedKind' = "create"
    BY <2>1 DEF AwaitedKind
  <2> QED
    BY <2>1, <2>2, <2>3, FetchKeepsCalls DEF CallInv, AwaitsTheRightCall, serverVars
<1> QED
  BY <1>1, <1>2

LEMMA SaysKeepsCalls ==
  ASSUME CallInv, NEW rest \in SUBSET calls, NEW s \in issued,
         NEW before \in Seq(Entry), Says(rest, s, before),
         sessionId' = s, ~ended', ended' \in BOOLEAN,
         UNCHANGED <<asking, serverVars>>, mishaps' \in Nat
  PROVE  CallInv'
<1>1. /\ doing' = "chatting" /\ Fetch(rest, "chat", s)
      /\ shown' = Append(before, [role |-> "user", session |-> s, id |-> sent + 1])
  BY DEF Says
<1>2. s \in SessionIds /\ s # NoSession /\ sent + 1 \in Nat
  BY NoSessionAssumption DEF CallInv, PageTypeOK
<1>3. shown' \in Seq(Entry)
  BY <1>1, <1>2, EntryType DEF CallInv
<1>4. PageTypeOK'
  BY <1>1, <1>2, <1>3, FetchType DEF CallInv, PageTypeOK, Kinds, serverVars
<1>5. AwaitedKind' = "chat"
  BY <1>1 DEF AwaitedKind
<1> QED
  BY <1>1, <1>2, <1>4, <1>5, FetchKeepsCalls DEF serverVars

LEMMA NewChatKeepsCalls == CallInv /\ NewChat => CallInv'
BY StartsKeepsCalls DEF NewChat

LEMMA DialogNewChatKeepsCalls == CallInv /\ DialogNewChat => CallInv'
BY StartsKeepsCalls DEF DialogNewChat

LEMMA SendMessageKeepsCalls ==
  ASSUME CallInv, SendMessage
  PROVE  CallInv'
<1>1. CASE sessionId = NoSession
  BY <1>1, StartsKeepsCalls DEF SendMessage
<1>2. CASE sessionId # NoSession
  <2>1. Says(calls, sessionId, shown) /\ ~ended
    BY <1>2 DEF SendMessage
  <2>2. sessionId \in issued /\ shown \in Seq(Entry)
    BY <1>2 DEF CallInv, AwaitsTheRightCall, PageTypeOK
  <2> QED
    BY <2>1, <2>2, SaysKeepsCalls DEF SendMessage, CallInv, PageTypeOK
<1> QED
  BY <1>1, <1>2

(* What the awaited call was, when it has settled. *)
Settles(outcome, c, rest) ==
    /\ c \in calls
    /\ c.id = awaits
    /\ GoesOn(outcome, c, rest)
    /\ outcome \in Outcomes
    /\ outcome = c.phase \/ outcome = "error"
    /\ rest = calls \/ rest = calls \ {c}

LEMMA SettledStep ==
  ASSUME CallInv, AnswerArrives \/ FetchFails
  PROVE  \E c \in calls, outcome \in Outcomes, rest \in SUBSET calls :
             /\ Settles(outcome, c, rest)
             /\ \/ outcome = c.phase /\ rest = calls \ {c} /\ mishaps' = mishaps
                \/ /\ outcome = "error" /\ mishaps' = mishaps + 1
                   /\ rest = IF Answered(c) THEN calls \ {c} ELSE calls
<1>1. CASE AnswerArrives
  BY <1>1 DEF AnswerArrives, Settles, Answered
<1>2. CASE FetchFails
  BY <1>2 DEF FetchFails, Mishap, Settles, Answered, Outcomes
<1> QED
  BY <1>1, <1>2

LEMMA GoesOnKeepsCalls ==
  ASSUME CallInv, NEW c \in calls, NEW outcome \in Outcomes, NEW rest \in SUBSET calls,
         Settles(outcome, c, rest), mishaps' \in Nat
  PROVE  CallInv'
<1>1. /\ c.id = awaits /\ UNCHANGED <<asking, dialog, serverVars>>
      /\ outcome = c.phase \/ outcome = "error"
  BY DEF Settles, GoesOn
<1>2. c.kind = AwaitedKind
  BY <1>1 DEF CallInv, AwaitsTheRightCall
<1>3. CASE AfterDelete(rest)
  <2>1. /\ doing' = "creating" /\ Fetch(rest, "create", NoSession)
        /\ UNCHANGED <<sessionId, ended, analysable, shown>>
    BY <1>3 DEF AfterDelete
  <2>2. PageTypeOK'
    BY <1>1, <2>1, FetchType DEF CallInv, PageTypeOK, Kinds, serverVars
  <2>3. AwaitedKind' = "create"
    BY <2>1 DEF AwaitedKind
  <2> QED
    BY <1>1, <2>1, <2>2, <2>3, FetchKeepsCalls
       DEF CallInv, AwaitsTheRightCall, serverVars
<1>4. CASE AfterCreate(outcome, c.session, rest) /\ outcome # "ok"
  <2>1. Idle(rest) /\ UNCHANGED <<sessionId, ended, analysable, shown>>
    BY <1>4 DEF AfterCreate
  <2>2. PageTypeOK'
    BY <1>1, <2>1, IdleType DEF CallInv, PageTypeOK, serverVars
  <2> QED
    BY <1>1, <2>1, <2>2, IdleKeepsCalls DEF CallInv, AwaitsTheRightCall, serverVars
<1>5. CASE AfterCreate(outcome, c.session, rest) /\ outcome = "ok"
  <2>1. doing \in {"creating", "creatingToSend"} /\ sessionId' = c.session /\ ended' = FALSE
    BY <1>5 DEF AfterCreate
  <2>2. c.phase = "ok" /\ c.kind = "create"
    BY <1>1, <1>2, <1>5, <2>1 DEF AwaitedKind
  <2>3. c.session \in issued /\ c.session \in SessionIds
    BY <2>2 DEF CallInv, CallsMakeSense, PageTypeOK
  <2>4. <<Greeting(c.session)>> \in Seq(Entry)
    BY <2>3, GreetingType
  <2>5. CASE doing = "creatingToSend"
    <3>1. Says(rest, c.session, <<Greeting(c.session)>>)
      BY <1>5, <2>5 DEF AfterCreate
    <3>2. UNCHANGED <<asking, serverVars>>
      BY <1>1
    <3> QED
      BY <2>1, <2>3, <2>4, <3>1, <3>2, SaysKeepsCalls
  <2>6. CASE doing # "creatingToSend"
    <3>1. shown' = <<Greeting(c.session)>> /\ Idle(rest)
      BY <1>5, <2>6 DEF AfterCreate
    <3>2. PageTypeOK'
      BY <1>1, <2>1, <2>3, <2>4, <3>1, IdleType DEF CallInv, PageTypeOK, serverVars
    <3> QED
      BY <1>1, <2>1, <2>3, <3>1, <3>2, IdleKeepsCalls DEF serverVars
  <2> QED
    BY <2>5, <2>6
<1>6. CASE AfterChat(outcome, c.over, rest)
  <2>1. /\ Idle(rest)
        /\ \E role \in {"assistant", "sorry"} : Shows(role)
        /\ ended' \in {ended, c.over} /\ sessionId' \in {sessionId, NoSession}
    BY <1>6 DEF AfterChat
  <2>2. shown' \in Seq(Entry)
    BY <2>1, EntryType DEF Shows, CallInv, PageTypeOK
  <2>3. c.over \in BOOLEAN
    BY CallFields DEF CallInv
  <2>4. PageTypeOK'
    BY <1>1, <2>1, <2>2, <2>3, IdleType DEF CallInv, PageTypeOK, serverVars
  <2> QED
    BY <1>1, <2>1, <2>4, IdleKeepsCalls DEF CallInv, AwaitsTheRightCall, serverVars
<1> QED
  BY <1>3, <1>4, <1>5, <1>6 DEF Settles, GoesOn

LEMMA OpenAnalyticsKeepsCalls ==
  ASSUME CallInv, OpenAnalytics
  PROVE  CallInv'
<1> DEFINE new == NewCall("analytics", sessionId)
<1>1. /\ calls' = calls \cup {new} /\ sent' = sent + 1 /\ asking' = asking \cup {sent + 1}
      /\ sessionId # NoSession
      /\ UNCHANGED <<sessionId, ended, doing, awaits, shown, serverVars, mishaps>>
  BY DEF OpenAnalytics
<1>2. /\ new.id = sent + 1 /\ new.kind = "analytics" /\ new.session = sessionId
      /\ new.phase = "sent"
  BY DEF NewCall
<1>3. new \in Calls
  BY NewCallFields DEF CallInv, PageTypeOK, Kinds
<1> HIDE DEF new
<1>4. PageTypeOK'
  BY <1>1, <1>3 DEF CallInv, PageTypeOK, serverVars
<1>5. NumbersAreFresh'
  BY <1>1, <1>2 DEF CallInv, NumbersAreFresh, PageTypeOK
<1>6. CallsMakeSense'
  BY <1>1, <1>2 DEF CallInv, CallsMakeSense, NumbersAreFresh, AwaitsTheRightCall,
                    PageTypeOK, serverVars
<1>7. AwaitsTheRightCall'
  BY <1>1, <1>2 DEF CallInv, AwaitsTheRightCall, NumbersAreFresh, PageTypeOK,
                    AwaitedKind, serverVars
<1> QED
  BY <1>4, <1>5, <1>6, <1>7 DEF CallInv

LEMMA AnalyticsArriveKeepsCalls == CallInv /\ AnalyticsArrive => CallInv'
<1> SUFFICES ASSUME CallInv, AnalyticsArrive PROVE CallInv'
  OBVIOUS
<1>1. /\ calls' \in SUBSET calls /\ asking' \in SUBSET asking
      /\ UNCHANGED <<sessionId, ended, doing, awaits, shown, sent, serverVars, mishaps>>
  BY DEF AnalyticsArrive
<1>2. PageTypeOK'
  BY <1>1 DEF CallInv, PageTypeOK, serverVars
<1> QED
  BY <1>1, <1>2, FewerCallsKeepCalls DEF serverVars

LEMMA CloseDialogKeepsCalls == CallInv /\ CloseDialog => CallInv'
<1> SUFFICES ASSUME CallInv, CloseDialog PROVE CallInv'
  OBVIOUS
<1>1. UNCHANGED <<sessionId, ended, doing, awaits, asking, shown, calls, sent,
                  serverVars, mishaps>>
  BY DEF CloseDialog
<1>2. PageTypeOK'
  BY <1>1 DEF CallInv, PageTypeOK, serverVars
<1> QED
  BY <1>1, <1>2, FewerCallsKeepCalls DEF serverVars

LEMMA ReloadKeepsCalls ==
  ASSUME CallInv, Reload
  PROVE  CallInv'
<1> DEFINE rest == {c \in calls : ~Answered(c)}
<1>1. /\ sessionId' = NoSession /\ ended' = FALSE /\ doing' = "creating"
      /\ asking' = {} /\ shown' = <<>> /\ Fetch(rest, "create", NoSession)
      /\ UNCHANGED serverVars /\ mishaps' = mishaps + 1 /\ rest \in SUBSET calls
  BY DEF Reload, Mishap
<1> HIDE DEF rest
<1>2. PageTypeOK'
  <2>1. "create" \in Kinds /\ NoSession \in SessionIds \cup {NoSession}
    BY DEF Kinds
  <2>2. calls' \in SUBSET Calls /\ sent' \in Nat /\ awaits' \in Nat
    BY <1>1, <2>1, FetchType DEF CallInv
  <2>3. server' = server /\ issued' = issued
    BY <1>1 DEF serverVars
  <2>4. /\ mishaps \in Nat /\ issued \in SUBSET SessionIds
        /\ server \in [SessionIds -> {"absent", "active", "ended"}]
    BY DEF CallInv, PageTypeOK
  <2>5. /\ sessionId' = NoSession /\ ended' \in BOOLEAN /\ doing' = "creating"
        /\ asking' \in SUBSET Nat /\ mishaps' = mishaps + 1
    BY <1>1
  <2>6. shown' \in Seq(Entry)
    BY <1>1, EmptySeq, Zenon
  <2> QED
    BY <2>2, <2>3, <2>4, <2>5, <2>6 DEF PageTypeOK
<1>3. AwaitedKind' = "create"
  BY <1>1 DEF AwaitedKind
<1> QED
  BY <1>1, <1>2, <1>3, FetchKeepsCalls DEF serverVars

LEMMA CallLostKeepsCalls == CallInv /\ CallLost => CallInv'
<1> SUFFICES ASSUME CallInv, CallLost PROVE CallInv'
  OBVIOUS
<1>1. /\ calls' \in SUBSET calls
      /\ UNCHANGED <<sessionId, ended, doing, awaits, asking, shown, sent, serverVars, mishaps>>
  BY DEF CallLost, pageVars
<1>2. PageTypeOK'
  BY <1>1 DEF CallInv, PageTypeOK, serverVars
<1> QED
  BY <1>1, <1>2, FewerCallsKeepCalls DEF serverVars

-----------------------------------------------------------------------------
(* Each step of the service keeps them.                                    *)

(* An answered call, and one that moved on. *)
Settled(c, outcome, s, over) ==
    [c EXCEPT !.phase = outcome, !.session = s, !.over = over]

LEMMA SettledFields ==
  ASSUME PageTypeOK, NEW c \in calls, NEW outcome \in Phases,
         NEW s \in SessionIds \cup {NoSession}, NEW over \in BOOLEAN
  PROVE  LET d == Settled(c, outcome, s, over) IN
         /\ d \in Calls /\ d.id = c.id /\ d.kind = c.kind /\ d.phase = outcome
         /\ d.session = s /\ d.over = over
BY DEF PageTypeOK, Calls, Settled

LEMMA MovedFields ==
  ASSUME PageTypeOK, NEW c \in calls, NEW phase \in Phases
  PROVE  LET d == [c EXCEPT !.phase = phase] IN
         /\ d \in Calls /\ d.id = c.id /\ d.kind = c.kind /\ d.phase = phase
         /\ d.session = c.session /\ d.over = c.over
BY DEF PageTypeOK, Calls

(* What an answer, or a step of a chat, does to the calls. *)
LEMMA AnswerEffect ==
  ASSUME NEW c, NEW outcome, NEW s, NEW over, Answer(c, outcome, s, over)
  PROVE  /\ calls' = IF Listened(c)
                       THEN (calls \ {c}) \cup {Settled(c, outcome, s, over)}
                       ELSE calls \ {c}
         /\ UNCHANGED <<pageVars, sent>>
BY DEF Answer, Settled

LEMMA AnswerKeepsCalls ==
  ASSUME CallInv, NEW c \in calls, NEW outcome \in Outcomes,
         NEW s \in SessionIds \cup {NoSession}, NEW over \in BOOLEAN,
         Answer(c, outcome, s, over), c.kind # "create" => s = c.session,
         c.kind = "create" /\ outcome = "ok" => s \in issued',
         issued \subseteq issued', issued' \in SUBSET SessionIds, mishaps' \in Nat,
         server' \in [SessionIds -> {"absent", "active", "ended"}]
  PROVE  CallInv'
<1> DEFINE d == Settled(c, outcome, s, over)
<1>1. /\ calls' = (calls \ {c}) \cup {d} \/ calls' = calls \ {c}
      /\ UNCHANGED <<pageVars, sent>>
  BY AnswerEffect
<1>2. outcome \in Phases /\ outcome \notin {"queued", "running"}
  BY DEF Phases, Outcomes
<1>3. /\ d \in Calls /\ d.id = c.id /\ d.kind = c.kind /\ d.phase = outcome
      /\ d.session = s
  BY <1>2, SettledFields DEF CallInv
<1> HIDE DEF d
<1>4. PageTypeOK'
  BY <1>1, <1>3 DEF CallInv, PageTypeOK, pageVars
<1> QED
  BY <1>1, <1>2, <1>3, <1>4, ServiceKeepsCalls

LEMMA MovedKeepsCalls ==
  ASSUME CallInv, NEW c \in calls, NEW phase \in {"queued", "running"}, c.kind = "chat",
         Moved(c, phase), UNCHANGED <<serverVars, mishaps>>
  PROVE  CallInv'
<1> DEFINE d == [c EXCEPT !.phase = phase]
<1>1. calls' = (calls \ {c}) \cup {d} /\ UNCHANGED <<pageVars, sent>>
  BY DEF Moved
<1>2. /\ d \in Calls /\ d.id = c.id /\ d.kind = c.kind /\ d.session = c.session
      /\ d.phase = phase
  BY MovedFields DEF CallInv, Phases
<1> HIDE DEF d
<1>3. PageTypeOK'
  BY <1>1, <1>2 DEF CallInv, PageTypeOK, pageVars, serverVars
<1> QED
  BY <1>1, <1>2, <1>3, ServiceKeepsCalls DEF serverVars

LEMMA ServeKeepsCalls ==
  ASSUME CallInv, NEW c \in calls, Serve(c)
  PROVE  CallInv'
<1>0. /\ c.kind # "create" => c.session \in SessionIds
      /\ c.session \in SessionIds \cup {NoSession}
      /\ mishaps \in Nat /\ issued \in SUBSET SessionIds
      /\ server \in [SessionIds -> {"absent", "active", "ended"}]
      /\ c.phase \in {"queued", "running"} => c.kind = "chat"
  BY CallFields DEF CallInv, CallsMakeSense, PageTypeOK
<1>1. CASE CreateSession(c)
  <2>1. PICK s \in SessionIds \ issued :
            /\ server' = [server EXCEPT ![s] = "active"]
            /\ issued' = issued \cup {s}
            /\ Answer(c, "ok", s, FALSE) /\ mishaps' = mishaps
    BY <1>1 DEF CreateSession
  <2>2. c.kind = "create"
    BY <1>1 DEF CreateSession
  <2> QED
    BY <1>0, <2>1, <2>2, AnswerKeepsCalls DEF Outcomes
<1>2. CASE DeleteSession(c)
  BY <1>0, <1>2, AnswerKeepsCalls DEF DeleteSession, Removed, Outcomes
<1>3. CASE GetAnalytics(c)
  BY <1>0, <1>3, AnswerKeepsCalls DEF GetAnalytics, Outcomes, serverVars
<1>4. CASE AdmitChat(c)
  <2>1. c.kind = "chat" /\ UNCHANGED <<serverVars, mishaps>>
    BY <1>4 DEF AdmitChat
  <2>2. CASE Moved(c, "queued")
    BY <2>1, <2>2, MovedKeepsCalls
  <2>3. CASE \E outcome \in Outcomes : Answer(c, outcome, c.session, FALSE)
    BY <1>0, <2>1, <2>3, AnswerKeepsCalls DEF serverVars
  <2> QED
    BY <1>4, <2>2, <2>3 DEF AdmitChat, Outcomes
<1>5. CASE BeginChat(c)
  <2>1. c.kind = "chat" /\ UNCHANGED <<serverVars, mishaps>>
    BY <1>0, <1>5 DEF BeginChat
  <2>2. CASE Moved(c, "running")
    BY <2>1, <2>2, MovedKeepsCalls
  <2>3. CASE \E outcome \in Outcomes, over \in BOOLEAN : Answer(c, outcome, c.session, over)
    BY <1>0, <2>1, <2>3, AnswerKeepsCalls DEF serverVars
  <2> QED
    BY <1>5, <2>2, <2>3 DEF BeginChat, Outcomes
<1>6. CASE FinishChat(c)
  <2>1. PICK after \in {"active", "ended"} :
            /\ server' = [server EXCEPT ![c.session] = after]
            /\ Answer(c, "ok", c.session, after = "ended")
            /\ issued' = issued /\ mishaps' = mishaps
    BY <1>6 DEF FinishChat
  <2>2. c.kind = "chat" /\ (after = "ended") \in BOOLEAN
    BY <1>0, <1>6 DEF FinishChat
  <2>3. server' \in [SessionIds -> {"absent", "active", "ended"}]
    BY <1>0, <2>1
  <2> QED
    BY <1>0, <2>1, <2>2, <2>3, AnswerKeepsCalls DEF Outcomes
<1>7. CASE Refuse(c)
  <2>1. mishaps' = mishaps + 1 \/ mishaps' = mishaps
    BY <1>7 DEF Refuse, Mishap
  <2>2. Answer(c, "error", c.session, FALSE) /\ server' = server /\ issued' = issued
    BY <1>7 DEF Refuse, serverVars
  <2>3. mishaps' \in Nat
    BY <1>0, <2>1
  <2> QED
    BY <1>0, <2>2, <2>3, AnswerKeepsCalls DEF Outcomes
<1> QED
  BY <1>1, <1>2, <1>3, <1>4, <1>5, <1>6, <1>7 DEF Serve

LEMMA ExpireKeepsCalls ==
  ASSUME CallInv, NEW s \in SessionIds, Expire(s)
  PROVE  CallInv'
<1>1. /\ server' = [server EXCEPT ![s] = "absent"]
      /\ UNCHANGED <<sessionId, ended, doing, awaits, asking, shown, calls, sent, issued,
                     mishaps>>
  BY DEF Expire, Removed, pageVars
<1>2. PageTypeOK'
  BY <1>1 DEF CallInv, PageTypeOK
<1> QED
  BY <1>1, <1>2, FewerCallsKeepCalls

LEMMA IdlePageKeepsCalls ==
  ASSUME CallInv, UNCHANGED vars
  PROVE  CallInv'
<1>1. /\ UNCHANGED <<sessionId, ended, doing, awaits, asking, shown, calls, sent, issued,
                     mishaps>>
      /\ server' = server
  BY DEF vars, pageVars, serverVars
<1>2. PageTypeOK'
  BY <1>1 DEF CallInv, PageTypeOK
<1> QED
  BY <1>1, <1>2, FewerCallsKeepCalls

LEMMA Init_CallInv == Init => CallInv
<1> SUFFICES ASSUME Init PROVE CallInv
  OBVIOUS
<1>1. PageTypeOK
  <2>1. calls \in SUBSET Calls
    BY DEF Init, Calls, Kinds, Phases
  <2>2. shown \in Seq(Entry)
    BY EmptySeq DEF Init
  <2>3. server \in [SessionIds -> {"absent", "active", "ended"}]
    BY DEF Init
  <2> QED
    BY <2>1, <2>2, <2>3 DEF Init, PageTypeOK
<1> QED
  BY <1>1, NoSessionAssumption
     DEF Init, CallInv, NumbersAreFresh, CallsMakeSense, AwaitsTheRightCall, AwaitedKind

LEMMA Next_CallInv == CallInv /\ [Next]_vars => CallInv'
<1> SUFFICES ASSUME CallInv, [Next]_vars PROVE CallInv'
  OBVIOUS
<1>1. CASE AnswerArrives \/ FetchFails
  <2>1. PICK c \in calls, outcome \in Outcomes, rest \in SUBSET calls :
            Settles(outcome, c, rest) /\ mishaps' \in {mishaps, mishaps + 1}
    BY <1>1, SettledStep
  <2> QED
    BY <2>1, GoesOnKeepsCalls DEF CallInv, PageTypeOK
<1>2. CASE \E c \in calls : Serve(c)
  BY <1>2, ServeKeepsCalls
<1>3. CASE \E s \in SessionIds : Expire(s)
  BY <1>3, ExpireKeepsCalls
<1> QED
  BY <1>1, <1>2, <1>3, NewChatKeepsCalls, SendMessageKeepsCalls, OpenAnalyticsKeepsCalls,
     AnalyticsArriveKeepsCalls, CloseDialogKeepsCalls, DialogNewChatKeepsCalls,
     ReloadKeepsCalls, CallLostKeepsCalls, IdlePageKeepsCalls DEF Next

(* What the page awaits is the call it made last, numbers are not used     *)
(* twice, and nothing on its way names a session that was never issued.    *)
THEOREM PageAwaitsTheRightCall == Spec => []CallInv
BY Init_CallInv, Next_CallInv, PTL DEF Spec

-----------------------------------------------------------------------------
(* What any step of the page leaves alone: the service, and the calls that *)
(* are there already.  The screen's conversation is kept, dropped, new, or *)
(* takes over what an answer says of its end.                              *)
PageMoves ==
    /\ server' = server /\ issued' = issued
    /\ \A d \in calls' : d \in calls \/ (d.phase = "sent" /\ ~d.over)
    /\ \/ ~ended'
       \/ ended' = ended /\ sessionId' = sessionId
       \/ \E c \in calls : /\ c.over /\ ended' = c.over
                           /\ c.session = sessionId /\ sessionId' = sessionId
                           /\ sessionId # NoSession

PageStep ==
    \/ NewChat \/ SendMessage \/ AnswerArrives \/ FetchFails
    \/ OpenAnalytics \/ AnalyticsArrive \/ CloseDialog \/ DialogNewChat
    \/ Reload \/ CallLost

LEMMA FetchMoves ==
  ASSUME NEW rest \in SUBSET calls, NEW kind, NEW s, Fetch(rest, kind, s)
  PROVE  \A d \in calls' : d \in calls \/ (d.phase = "sent" /\ ~d.over)
BY DEF Fetch, NewCall

LEMMA StartsMoves ==
  ASSUME NEW next, NEW deleteExisting, Starts(next, deleteExisting),
         UNCHANGED <<sessionId, ended, serverVars>>
  PROVE  PageMoves
<1>1. \E kind, s : Fetch(calls, kind, s)
  BY DEF Starts
<1>2. \A d \in calls' : d \in calls \/ (d.phase = "sent" /\ ~d.over)
  BY <1>1, FetchMoves
<1> QED
  BY <1>2 DEF PageMoves, serverVars

LEMMA PageStepMoves ==
  ASSUME CallInv, PageStep
  PROVE  PageMoves
<1>1. CASE NewChat
  BY <1>1, StartsMoves DEF NewChat
<1>2. CASE DialogNewChat
  BY <1>2, StartsMoves DEF DialogNewChat
<1>3. CASE SendMessage
  <2>1. UNCHANGED <<sessionId, ended, serverVars>>
    BY <1>3 DEF SendMessage
  <2>2. \E kind, s : Fetch(calls, kind, s)
    BY <1>3 DEF SendMessage, Starts, Says
  <2> QED
    BY <2>1, <2>2, FetchMoves DEF PageMoves, serverVars
<1>4. CASE AnswerArrives \/ FetchFails
  <2>1. PICK c \in calls, outcome \in Outcomes, rest \in SUBSET calls :
            Settles(outcome, c, rest)
    BY <1>4, SettledStep
  <2>2. c.id = awaits /\ server' = server /\ issued' = issued
    BY <2>1 DEF Settles, GoesOn, serverVars
  <2>3. c.kind = AwaitedKind /\ (c.kind # "create" => c.session = sessionId)
    BY <2>2 DEF CallInv, AwaitsTheRightCall
  <2>4. CASE AfterDelete(rest)
    <3>1. Fetch(rest, "create", NoSession) /\ ended' = ended /\ sessionId' = sessionId
      BY <2>4 DEF AfterDelete
    <3> QED
      BY <2>2, <3>1, FetchMoves DEF PageMoves
  <2>5. CASE AfterCreate(outcome, c.session, rest)
    <3>1. ~ended' \/ (ended' = ended /\ sessionId' = sessionId)
      BY <2>5 DEF AfterCreate
    <3>2. CASE \E s : Says(rest, s, <<Greeting(s)>>)
      <4>1. \E s : Fetch(rest, "chat", s)
        BY <3>2 DEF Says
      <4> QED
        BY <2>2, <3>1, <4>1, FetchMoves DEF PageMoves
    <3>3. CASE Idle(rest)
      BY <2>2, <3>1, <3>3 DEF Idle, PageMoves
    <3> QED
      BY <2>5, <3>2, <3>3 DEF AfterCreate
  <2>6. CASE AfterChat(outcome, c.over, rest)
    <3>1. doing = "chatting" /\ Idle(rest)
      BY <2>6 DEF AfterChat
    <3>2. sessionId # NoSession /\ ~ended /\ c.session = sessionId
      BY <2>3, <3>1 DEF CallInv, AwaitsTheRightCall, AwaitedKind
    <3>3. \/ ended' = c.over /\ sessionId' = sessionId
          \/ ended' = ended
      BY <2>6 DEF AfterChat
    <3> QED
      BY <2>2, <3>1, <3>2, <3>3 DEF Idle, PageMoves
  <2> QED
    BY <2>1, <2>4, <2>5, <2>6 DEF Settles, GoesOn
<1>5. CASE OpenAnalytics
  BY <1>5 DEF OpenAnalytics, NewCall, PageMoves, serverVars
<1>6. CASE AnalyticsArrive
  BY <1>6 DEF AnalyticsArrive, PageMoves, serverVars
<1>7. CASE CloseDialog
  BY <1>7 DEF CloseDialog, PageMoves, serverVars
<1>8. CASE Reload
  <2>1. /\ Fetch({c \in calls : ~Answered(c)}, "create", NoSession)
        /\ ended' = FALSE /\ UNCHANGED serverVars
    BY <1>8 DEF Reload
  <2>2. {c \in calls : ~Answered(c)} \in SUBSET calls
    OBVIOUS
  <2>3. \A d \in calls' : d \in calls \/ (d.phase = "sent" /\ ~d.over)
    BY <2>1, <2>2, FetchMoves
  <2> QED
    BY <2>1, <2>3 DEF PageMoves, serverVars
<1>9. CASE CallLost
  BY <1>9 DEF CallLost, PageMoves, serverVars, pageVars
<1> QED
  BY <1>1, <1>2, <1>3, <1>4, <1>5, <1>6, <1>7, <1>8, <1>9 DEF PageStep

-----------------------------------------------------------------------------
(* The end of a conversation.                                              *)

LEMMA PageKeepsEnds ==
  ASSUME CallInv, EndInv, PageMoves
  PROVE  EndInv'
<1>1. server' = server /\ issued' = issued
  BY DEF PageMoves
<1>2. \A d \in calls' : d.phase = "running" \/ d.over => d \in calls
  BY DEF PageMoves
<1>3. ASSUME NEW s, Closed(s) PROVE Closed(s)'
  BY <1>1, <1>2, <1>3 DEF Closed
<1>4. OneTurnAtATime'
  BY <1>1, <1>2 DEF EndInv, OneTurnAtATime
<1>5. \A c \in calls' : c.over => c.phase = "ok" /\ c.kind = "chat" /\ Closed(c.session)'
  BY <1>2, <1>3 DEF EndInv
<1>6. ended' => sessionId' # NoSession /\ Closed(sessionId)'
  <2>1. ended' => sessionId' # NoSession /\ Closed(sessionId')
    BY DEF PageMoves, EndInv
  <2>2. Closed(sessionId') => Closed(sessionId)'
    BY <1>1, <1>2 DEF Closed
  <2> QED
    BY <2>1, <2>2
<1> QED
  BY <1>4, <1>5, <1>6 DEF EndInv

(* One call is answered, leaves, or moves on; turns do not begin. *)
LEMMA ServedKeepsEnds ==
  ASSUME CallInv, EndInv, UNCHANGED pageVars, NEW c \in calls,
         \A d \in calls' : d \in calls \ {c} \/ (d.phase # "running" /\ ~d.over),
         \A s \in issued : server'[s] = server[s] \/ server'[s] = "absent",
         issued \subseteq issued'
  PROVE  EndInv'
<1>1. ended' = ended /\ sessionId' = sessionId
  BY DEF pageVars
<1>2. \A d \in calls' : d.phase = "running" \/ d.over => d \in calls /\ d.session \in issued
  BY DEF CallInv, CallsMakeSense, EndInv
<1>3. ASSUME NEW s, Closed(s) PROVE Closed(s)'
  BY <1>2, <1>3 DEF Closed
<1>4. OneTurnAtATime'
  BY <1>2 DEF EndInv, OneTurnAtATime
<1>5. \A d \in calls' : d.over => d.phase = "ok" /\ d.kind = "chat" /\ Closed(d.session)'
  BY <1>2, <1>3 DEF EndInv
<1>6. ended' => sessionId' # NoSession /\ Closed(sessionId)'
  BY <1>1, <1>3 DEF EndInv
<1> QED
  BY <1>4, <1>5, <1>6 DEF EndInv

LEMMA AnsweredFields ==
  ASSUME CallInv, NEW c \in calls, NEW outcome, NEW s, NEW over
  PROVE  LET d == Settled(c, outcome, s, over) IN
         /\ d.phase = outcome /\ d.kind = c.kind /\ d.session = s /\ d.id = c.id
         /\ d.over = over
BY DEF CallInv, PageTypeOK, Calls, Settled

(* What an answer leaves of the other calls, and of its own. *)
LEMMA AnswerLeaves ==
  ASSUME CallInv, NEW c \in calls, NEW outcome \in Outcomes, NEW s, NEW over,
         Answer(c, outcome, s, over)
  PROVE  /\ \A d \in calls' : d \in calls \ {c} \/
                (d.phase = outcome /\ d.kind = c.kind /\ d.session = s)
         /\ UNCHANGED pageVars
         /\ outcome # "running"
<1>1. outcome # "running"
  BY DEF Outcomes
<1>2. LET d == Settled(c, outcome, s, over) IN
      d.phase = outcome /\ d.kind = c.kind /\ d.session = s
  BY AnsweredFields
<1> QED
  BY <1>1, <1>2, AnswerEffect

(* An answer that does not say that the conversation is over. *)
LEMMA PlainAnswerLeaves ==
  ASSUME CallInv, NEW c \in calls, NEW outcome \in Outcomes, NEW s,
         Answer(c, outcome, s, FALSE)
  PROVE  /\ \A d \in calls' : d \in calls \ {c} \/ (d.phase # "running" /\ ~d.over)
         /\ UNCHANGED pageVars
<1> DEFINE d == [c EXCEPT !.phase = outcome, !.session = s, !.over = FALSE]
<1>1. calls' \subseteq (calls \ {c}) \cup {d} /\ UNCHANGED pageVars
  BY DEF Answer
<1>2. d.phase = outcome /\ d.over = FALSE
  BY DEF CallInv, PageTypeOK, Calls
<1> HIDE DEF d
<1>3. d.phase # "running" /\ ~d.over
  BY <1>2 DEF Outcomes
<1> QED
  BY <1>1, <1>3

LEMMA ServeKeepsEnds ==
  ASSUME CallInv, EndInv, NEW c \in calls, Serve(c)
  PROVE  EndInv'
<1>0. /\ c.kind # "create" => c.session \in issued
      /\ c.session \in SessionIds \cup {NoSession}
      /\ issued \in SUBSET SessionIds
      /\ server \in [SessionIds -> {"absent", "active", "ended"}]
      /\ c.phase \in {"queued", "running"} => c.kind = "chat"
  BY CallFields DEF CallInv, CallsMakeSense, PageTypeOK
<1>1. CASE CreateSession(c)
  <2>1. PICK s \in SessionIds \ issued :
            /\ server' = [server EXCEPT ![s] = "active"]
            /\ issued' = issued \cup {s}
            /\ Answer(c, "ok", s, FALSE)
    BY <1>1 DEF CreateSession
  <2>2. \A t \in issued : server'[t] = server[t]
    BY <1>0, <2>1
  <2>3. /\ \A d \in calls' : d \in calls \ {c} \/ (d.phase # "running" /\ ~d.over)
        /\ UNCHANGED pageVars
    BY <2>1, PlainAnswerLeaves DEF Outcomes
  <2> QED
    BY <2>1, <2>2, <2>3, ServedKeepsEnds
<1>2. CASE DeleteSession(c)
  <2>1. /\ server' = [server EXCEPT ![c.session] = "absent"] /\ issued' = issued
        /\ Answer(c, "ok", c.session, FALSE)
    BY <1>2 DEF DeleteSession, Removed
  <2>2. \A t \in issued : server'[t] = server[t] \/ server'[t] = "absent"
    BY <1>0, <2>1
  <2>3. /\ \A d \in calls' : d \in calls \ {c} \/ (d.phase # "running" /\ ~d.over)
        /\ UNCHANGED pageVars
    BY <1>0, <2>1, PlainAnswerLeaves DEF Outcomes
  <2> QED
    BY <2>1, <2>2, <2>3, ServedKeepsEnds
<1>3. CASE \/ GetAnalytics(c)
           \/ AdmitChat(c) /\ ~Moved(c, "queued")
           \/ BeginChat(c) /\ ~Stored(c.session)
           \/ Refuse(c)
  <2>1. server' = server /\ issued' = issued
    BY <1>3 DEF GetAnalytics, AdmitChat, BeginChat, Refuse, serverVars
  <2>2. PICK outcome \in Outcomes : Answer(c, outcome, c.session, FALSE)
    BY <1>3 DEF GetAnalytics, AdmitChat, BeginChat, Refuse, Outcomes, Stored
  <2>3. /\ \A d \in calls' : d \in calls \ {c} \/ (d.phase # "running" /\ ~d.over)
        /\ UNCHANGED pageVars
    BY <1>0, <2>2, PlainAnswerLeaves
  <2> QED
    BY <2>1, <2>3, ServedKeepsEnds
<1>4. CASE AdmitChat(c) /\ Moved(c, "queued")
  <2> DEFINE new == [c EXCEPT !.phase = "queued"]
  <2>1. /\ server' = server /\ issued' = issued /\ c.phase = "sent"
        /\ calls' = (calls \ {c}) \cup {new}
        /\ UNCHANGED pageVars
    BY <1>4 DEF AdmitChat, Moved, serverVars
  <2>2. new.phase = "queued" /\ new.over = c.over
    BY MovedFields DEF CallInv, Phases
  <2> HIDE DEF new
  <2>3. ~c.over
    BY <2>1 DEF EndInv
  <2>4. ~new.over /\ new.phase # "running"
    BY <2>2, <2>3
  <2> QED
    BY <2>1, <2>4, ServedKeepsEnds
<1>5. CASE BeginChat(c) /\ server[c.session] = "ended"
  <2>1. /\ c.kind = "chat" /\ c.session \in issued
        /\ server' = server /\ issued' = issued /\ Answer(c, "ok", c.session, TRUE)
    BY <1>0, <1>5 DEF BeginChat, serverVars, Stored
  <2>2. /\ \A d \in calls' : d \in calls \ {c} \/
               (d.phase = "ok" /\ d.kind = "chat" /\ d.session = c.session)
        /\ ended' = ended /\ sessionId' = sessionId
    <3>1. Answer(c, "ok", c.session, TRUE)
      BY <2>1
    <3>2. /\ \A d \in calls' : d \in calls \ {c} \/
                 (d.phase = "ok" /\ d.kind = c.kind /\ d.session = c.session)
          /\ UNCHANGED pageVars
      BY <3>1, AnswerLeaves DEF Outcomes
    <3> QED
      BY <2>1, <3>2 DEF pageVars
  <2>3. \A d \in calls' : d.phase = "running" => d \in calls
    BY <2>2
  <2>4. ASSUME NEW s, Closed(s) PROVE Closed(s)'
    BY <2>1, <2>3, <2>4 DEF Closed
  <2>5. Closed(c.session)'
    BY <1>5, <2>1, <2>3 DEF Closed, EndInv, OneTurnAtATime
  <2>6. OneTurnAtATime'
    BY <2>1, <2>3 DEF EndInv, OneTurnAtATime
  <2>7. \A d \in calls' : d.over => d.phase = "ok" /\ d.kind = "chat" /\ Closed(d.session)'
    BY <2>2, <2>4, <2>5 DEF EndInv
  <2>8. ended' => sessionId' # NoSession /\ Closed(sessionId)'
    BY <2>2, <2>4 DEF EndInv
  <2> QED
    BY <2>6, <2>7, <2>8 DEF EndInv
<1>6. CASE BeginChat(c) /\ server[c.session] = "active"
  <2> DEFINE new == [c EXCEPT !.phase = "running"]
  <2>1. /\ server' = server /\ issued' = issued /\ c.phase = "queued"
        /\ calls' = (calls \ {c}) \cup {new}
        /\ UNCHANGED pageVars
        /\ \A d \in calls : d.phase = "running" => d.session # c.session
    BY <1>6 DEF BeginChat, Moved, serverVars, Stored
  <2>2. new.phase = "running" /\ new.over = c.over /\ new.session = c.session
    BY MovedFields DEF CallInv, Phases
  <2> HIDE DEF new
  <2>3. ~c.over /\ ~new.over /\ ended' = ended /\ sessionId' = sessionId
    BY <2>1, <2>2 DEF EndInv, pageVars
  <2>4. /\ \A d \in calls' : d.over => d \in calls
        /\ \A d \in calls' : d = new \/ d \in calls
    BY <2>1, <2>2, <2>3
  <2>5. ASSUME NEW s, Closed(s) PROVE Closed(s)'
    BY <1>6, <2>1, <2>2, <2>4, <2>5 DEF Closed
  <2>6. OneTurnAtATime'
    BY <1>6, <2>1, <2>2, <2>4 DEF EndInv, OneTurnAtATime
  <2>7. \A d \in calls' : d.over => d.phase = "ok" /\ d.kind = "chat" /\ Closed(d.session)'
    BY <2>4, <2>5 DEF EndInv
  <2>8. ended' => sessionId' # NoSession /\ Closed(sessionId)'
    BY <2>3, <2>5 DEF EndInv
  <2> QED
    BY <2>6, <2>7, <2>8 DEF EndInv
<1>7. CASE FinishChat(c)
  <2>1. PICK after \in {"active", "ended"} :
            /\ server' = [server EXCEPT ![c.session] = after]
            /\ Answer(c, "ok", c.session, after = "ended")
    BY <1>7 DEF FinishChat
  <2>2. c.phase = "running" /\ issued' = issued /\ c.kind = "chat" /\ c.session \in issued
    BY <1>0, <1>7 DEF FinishChat
  <2>3. /\ \A d \in calls' : d \in calls \ {c} \/
               (/\ d.phase = "ok" /\ d.kind = "chat" /\ d.session = c.session
                /\ d.over => after = "ended")
        /\ ended' = ended /\ sessionId' = sessionId
    <3>1. /\ \A d \in calls' : d \in calls \ {c} \/
                 (d.phase = "ok" /\ d.kind = c.kind /\ d.session = c.session)
          /\ UNCHANGED pageVars
      BY <2>1, AnswerLeaves DEF Outcomes
    <3>2. CASE after # "ended"
      <4>1. (after = "ended") = FALSE
        BY <3>2
      <4>2. Answer(c, "ok", c.session, FALSE)
        BY <2>1, <4>1, Zenon
      <4>3. \A d \in calls' : d \in calls \ {c} \/ ~d.over
        BY <4>2, PlainAnswerLeaves DEF Outcomes
      <4> QED
        BY <2>2, <3>1, <4>3 DEF pageVars
    <3> QED
      BY <2>2, <3>1, <3>2 DEF pageVars
  <2>4. \A d \in calls' : d.phase = "running" => d \in calls /\ d.session # c.session
    BY <2>2, <2>3 DEF EndInv, OneTurnAtATime
  <2>5. \A s \in issued : s # c.session => server'[s] = server[s]
    BY <1>0, <2>1
  <2>6. ASSUME NEW s, Closed(s) PROVE Closed(s)'
    BY <2>2, <2>4, <2>5, <2>6 DEF Closed
  <2>7. after = "ended" => Closed(c.session)'
    BY <1>0, <2>1, <2>2, <2>4 DEF Closed
  <2>8. OneTurnAtATime'
    BY <2>4, <2>5 DEF EndInv, OneTurnAtATime, CallInv, CallsMakeSense
  <2>9. \A d \in calls' : d.over => d.phase = "ok" /\ d.kind = "chat" /\ Closed(d.session)'
    BY <2>3, <2>6, <2>7 DEF EndInv
  <2>10. ended' => sessionId' # NoSession /\ Closed(sessionId)'
    BY <2>3, <2>6 DEF EndInv
  <2> QED
    BY <2>8, <2>9, <2>10 DEF EndInv
<1> QED
  BY <1>1, <1>2, <1>3, <1>4, <1>5, <1>6, <1>7 DEF Serve, BeginChat

LEMMA ExpireKeepsEnds ==
  ASSUME CallInv, EndInv, NEW s \in SessionIds, Expire(s)
  PROVE  EndInv'
<1>1. /\ server' = [server EXCEPT ![s] = "absent"] /\ issued' = issued /\ calls' = calls
      /\ ended' = ended /\ sessionId' = sessionId
  BY DEF Expire, Removed, pageVars
<1>2. \A t \in issued : server'[t] = server[t] \/ server'[t] = "absent"
  BY <1>1 DEF CallInv, PageTypeOK
<1>3. ASSUME NEW t, Closed(t) PROVE Closed(t)'
  BY <1>1, <1>2, <1>3 DEF Closed
<1>4. OneTurnAtATime'
  BY <1>1, <1>2 DEF EndInv, OneTurnAtATime, CallInv, CallsMakeSense
<1> QED
  BY <1>1, <1>3, <1>4 DEF EndInv

LEMMA Init_EndInv == Init => EndInv
BY DEF Init, EndInv, OneTurnAtATime

LEMMA Next_EndInv == CallInv /\ EndInv /\ [Next]_vars => EndInv'
<1> SUFFICES ASSUME CallInv, EndInv, [Next]_vars PROVE EndInv'
  OBVIOUS
<1>1. CASE PageStep
  BY <1>1, PageStepMoves, PageKeepsEnds
<1>2. CASE UNCHANGED vars
  <2>1. PageMoves
    BY <1>2 DEF PageMoves, vars, pageVars, serverVars
  <2> QED
    BY <2>1, PageKeepsEnds
<1>3. CASE \E c \in calls : Serve(c)
  BY <1>3, ServeKeepsEnds
<1>4. CASE \E s \in SessionIds : Expire(s)
  BY <1>4, ExpireKeepsEnds
<1> QED
  BY <1>1, <1>2, <1>3, <1>4 DEF Next, PageStep

(* EndedIsTrue: the page refuses further messages only when the            *)
(* conversation on the screen is over at the service.  An answer that says *)
(* so speaks of a session without a turn under way, so nothing that is     *)
(* still to come can open it again.                                        *)
THEOREM PageEndedIsTrue == Spec => []EndedIsTrue
<1>1. EndInv => EndedIsTrue
  BY DEF EndInv, EndedIsTrue, Closed
<1> QED
  BY <1>1, Init_CallInv, Next_CallInv, Init_EndInv, Next_EndInv, PTL DEF Spec

-----------------------------------------------------------------------------
(* The screen.                                                             *)

(* A screen about session s on which every message has its answer. *)
Complete(screen, s) ==
    /\ \A i \in DOMAIN screen : screen[i].session = s
    /\ \A i \in DOMAIN screen :
           screen[i].role = "user" => /\ i # Len(screen)
                                      /\ screen[i + 1].role # "user"
                                      /\ screen[i + 1].id = screen[i].id

LEMMA GreetingIsComplete ==
  ASSUME NEW s
  PROVE  Complete(<<Greeting(s)>>, s) /\ <<Greeting(s)>> # <<>>
BY DEF Complete, Greeting

(* Without a message under way the screen is complete. *)
LEMMA QuietScreenIsComplete ==
  ASSUME CallInv, ScreenInv, doing # "chatting", sessionId # NoSession
  PROVE  Complete(shown, sessionId) /\ shown # <<>>
BY DEF ScreenInv, AnswersInPlace, Complete

LEMMA SaysOnScreen ==
  ASSUME CallInv, NEW rest, NEW s, NEW before \in Seq(Entry), before # <<>>,
         Complete(before, s), Says(rest, s, before), sessionId' = s
  PROVE  ScreenInv'
<1> DEFINE entry == [role |-> "user", session |-> s, id |-> sent + 1]
<1>1. shown' = Append(before, entry) /\ doing' = "chatting" /\ awaits' = sent + 1
  BY DEF Says, Fetch
<1>2. Len(before) \in Nat /\ Len(before) # 0 /\ DOMAIN before = 1..Len(before)
  BY EmptySeq, LenProperties
<1>3. /\ Len(shown') = Len(before) + 1 /\ DOMAIN shown' = 1 .. Len(before) + 1
      /\ \A i \in 1..Len(before) : shown'[i] = before[i]
      /\ shown'[Len(before) + 1] = entry
  BY <1>1, <1>2
<1>4. entry.role = "user" /\ entry.session = s /\ entry.id = sent + 1
  OBVIOUS
<1> HIDE DEF entry
<1>5. \A i \in DOMAIN shown' : shown'[i].session = s
  BY <1>2, <1>3, <1>4 DEF Complete
<1>6. ASSUME NEW i \in DOMAIN shown', shown'[i].role = "user"
      PROVE  IF i = Len(shown') THEN doing' = "chatting" /\ shown'[i].id = awaits'
             ELSE shown'[i + 1].role # "user" /\ shown'[i + 1].id = shown'[i].id
  <2>1. CASE i = Len(shown')
    BY <1>1, <1>3, <1>4, <2>1
  <2>2. CASE i # Len(shown')
    <3>1. i \in 1..Len(before) /\ before[i].role = "user"
      BY <1>2, <1>3, <1>6, <2>2
    <3>2. i # Len(before) /\ before[i + 1].role # "user" /\ before[i + 1].id = before[i].id
      BY <1>2, <3>1 DEF Complete
    <3>3. i + 1 \in 1..Len(before)
      BY <1>2, <3>1, <3>2
    <3> QED
      BY <1>3, <2>2, <3>1, <3>2, <3>3
  <2> QED
    BY <2>1, <2>2
<1>7. 1 \in DOMAIN shown' /\ Len(shown') \in DOMAIN shown' /\ shown' # <<>>
  BY <1>1, <1>2, <1>3
<1>8. AnswersInPlace'
  BY <1>5, <1>6, <1>7 DEF AnswersInPlace
<1> QED
  BY <1>1, <1>3, <1>4, <1>7, <1>8 DEF ScreenInv

LEMMA CompleteOnScreen ==
  ASSUME doing' # "chatting", NEW s, Complete(shown', s), shown' \in Seq(Entry),
         shown' # <<>>, sessionId' \in {s, NoSession}
  PROVE  ScreenInv'
<1>1. 1 \in DOMAIN shown' /\ \A i \in DOMAIN shown' : shown'[i].session = s
  BY EmptySeq, LenProperties DEF Complete
<1>2. AnswersInPlace'
  BY <1>1 DEF AnswersInPlace, Complete
<1> QED
  BY <1>2 DEF ScreenInv

LEMMA AnswerOnScreen ==
  ASSUME CallInv, ScreenInv, doing = "chatting",
         NEW role \in {"assistant", "sorry"}, Shows(role), doing' = "nothing",
         sessionId' \in {sessionId, NoSession}
  PROVE  ScreenInv'
<1> DEFINE entry == [role |-> role, session |-> sessionId, id |-> awaits]
<1>1. shown' = Append(shown, entry)
  BY DEF Shows
<1>2. /\ shown \in Seq(Entry) /\ shown # <<>> /\ sessionId # NoSession
      /\ awaits \in Nat /\ sessionId \in SessionIds \cup {NoSession}
  BY DEF CallInv, PageTypeOK, AwaitsTheRightCall, ScreenInv
<1>3. Len(shown) \in Nat /\ Len(shown) # 0 /\ DOMAIN shown = 1..Len(shown)
  BY <1>2, EmptySeq, LenProperties
<1>4. /\ Len(shown') = Len(shown) + 1 /\ DOMAIN shown' = 1 .. Len(shown) + 1
      /\ \A i \in 1..Len(shown) : shown'[i] = shown[i]
      /\ shown'[Len(shown) + 1] = entry /\ shown' # <<>>
  BY <1>1, <1>2, <1>3
<1>5. entry.role # "user" /\ entry.session = sessionId /\ entry.id = awaits
  OBVIOUS
<1>6. shown' \in Seq(Entry)
  BY <1>1, <1>2, EntryType DEF CallInv
<1> HIDE DEF entry
<1>7. \A i \in DOMAIN shown' : shown'[i].session = sessionId
  BY <1>2, <1>3, <1>4, <1>5 DEF ScreenInv, AnswersInPlace
<1>8. ASSUME NEW i \in DOMAIN shown', shown'[i].role = "user"
      PROVE  /\ i # Len(shown') /\ shown'[i + 1].role # "user"
             /\ shown'[i + 1].id = shown'[i].id
  <2>1. i \in 1..Len(shown) /\ shown[i].role = "user"
    BY <1>3, <1>4, <1>5, <1>8
  <2>2. CASE i = Len(shown)
    <3>1. shown[i].id = awaits
      BY <1>3, <2>1, <2>2 DEF ScreenInv, AnswersInPlace
    <3> QED
      BY <1>3, <1>4, <1>5, <2>1, <2>2, <3>1
  <2>3. CASE i # Len(shown)
    <3>1. shown[i + 1].role # "user" /\ shown[i + 1].id = shown[i].id
      BY <1>3, <2>1, <2>3 DEF ScreenInv, AnswersInPlace
    <3>2. i + 1 \in 1..Len(shown)
      BY <1>3, <2>1, <2>3
    <3> QED
      BY <1>3, <1>4, <2>1, <3>1, <3>2
  <2> QED
    BY <2>2, <2>3
<1>9. Complete(shown', sessionId)
  BY <1>7, <1>8 DEF Complete
<1> QED
  BY <1>4, <1>6, <1>9, CompleteOnScreen

(* Most steps leave the screen alone. *)
LEMMA SameScreen ==
  ASSUME ScreenInv, shown' = shown, sessionId' = sessionId,
         \/ doing' = doing /\ awaits' = awaits
         \/ doing # "chatting" /\ doing' # "chatting"
  PROVE  ScreenInv'
<1>1. AnswersInPlace'
  BY DEF ScreenInv, AnswersInPlace
<1> QED
  BY <1>1 DEF ScreenInv

LEMMA GoesOnOnScreen ==
  ASSUME CallInv, ScreenInv, NEW c \in calls, NEW outcome \in Outcomes,
         NEW rest \in SUBSET calls, Settles(outcome, c, rest)
  PROVE  ScreenInv'
<1>1. CASE AfterDelete(rest)
  BY <1>1, SameScreen DEF AfterDelete
<1>2. CASE AfterCreate(outcome, c.session, rest) /\ outcome # "ok"
  BY <1>2, SameScreen DEF AfterCreate, Idle
<1>3. CASE AfterCreate(outcome, c.session, rest) /\ outcome = "ok"
  <2>1. doing \in {"creating", "creatingToSend"} /\ sessionId' = c.session
    BY <1>3 DEF AfterCreate
  <2>2. c.session \in SessionIds \cup {NoSession}
    BY CallFields DEF CallInv
  <2>3. <<Greeting(c.session)>> \in Seq(Entry)
    BY <2>2, GreetingType
  <2>4. CASE doing = "creatingToSend"
    BY <1>3, <2>1, <2>3, <2>4, GreetingIsComplete, SaysOnScreen DEF AfterCreate
  <2>5. CASE doing = "creating"
    <3>1. shown' = <<Greeting(c.session)>> /\ doing' = "nothing"
      BY <1>3, <2>5 DEF AfterCreate, Idle
    <3>2. Complete(shown', c.session) /\ shown' # <<>> /\ shown' \in Seq(Entry)
      BY <2>3, <3>1, GreetingIsComplete
    <3> QED
      BY <2>1, <3>1, <3>2, CompleteOnScreen
  <2> QED
    BY <2>1, <2>4, <2>5
<1>4. CASE AfterChat(outcome, c.over, rest)
  <2>1. doing = "chatting" /\ doing' = "nothing" /\ sessionId' \in {sessionId, NoSession}
    BY <1>4 DEF AfterChat, Idle
  <2>2. PICK role \in {"assistant", "sorry"} : Shows(role)
    BY <1>4 DEF AfterChat
  <2> QED
    BY <2>1, <2>2, AnswerOnScreen
<1> QED
  BY <1>1, <1>2, <1>3, <1>4 DEF Settles, GoesOn

LEMMA Init_ScreenInv == Init => ScreenInv
BY EmptySeq DEF Init, ScreenInv, AnswersInPlace

LEMMA Next_ScreenInv == CallInv /\ ScreenInv /\ [Next]_vars => ScreenInv'
<1> SUFFICES ASSUME CallInv, ScreenInv, [Next]_vars PROVE ScreenInv'
  OBVIOUS
<1>1. CASE NewChat \/ DialogNewChat
  <2>1. /\ shown' = shown /\ sessionId' = sessionId /\ doing = "nothing"
        /\ doing' \in {"deleting", "creating"}
    BY <1>1 DEF NewChat, DialogNewChat, Busy, Starts
  <2> QED
    BY <2>1, SameScreen
<1>2. CASE SendMessage
  <2>1. doing = "nothing" /\ sessionId' = sessionId
    BY <1>2 DEF SendMessage, Busy
  <2>2. CASE sessionId = NoSession
    <3>1. shown' = shown /\ doing' \in {"deleting", "creatingToSend"}
      BY <1>2, <2>2 DEF SendMessage, Starts
    <3> QED
      BY <2>1, <3>1, SameScreen
  <2>3. CASE sessionId # NoSession
    <3>1. Says(calls, sessionId, shown)
      BY <1>2, <2>3 DEF SendMessage
    <3>2. Complete(shown, sessionId) /\ shown # <<>> /\ shown \in Seq(Entry)
      BY <2>1, <2>3, QuietScreenIsComplete DEF CallInv, PageTypeOK
    <3> QED
      BY <2>1, <3>1, <3>2, SaysOnScreen
  <2> QED
    BY <2>2, <2>3
<1>3. CASE AnswerArrives \/ FetchFails
  <2>1. PICK c \in calls, outcome \in Outcomes, rest \in SUBSET calls :
            Settles(outcome, c, rest)
    BY <1>3, SettledStep
  <2> QED
    BY <2>1, GoesOnOnScreen
<1>4. CASE Reload
  <2>1. shown' = <<>> /\ sessionId' = NoSession /\ doing' = "creating"
    BY <1>4 DEF Reload
  <2>2. AnswersInPlace'
    BY <2>1 DEF AnswersInPlace
  <2> QED
    BY <2>1, <2>2 DEF ScreenInv
<1>5. CASE UNCHANGED <<shown, sessionId, doing, awaits>>
  BY <1>5, SameScreen
<1>6. CASE OpenAnalytics \/ AnalyticsArrive \/ CloseDialog \/ CallLost
  BY <1>6, <1>5 DEF OpenAnalytics, AnalyticsArrive, CloseDialog, CallLost, pageVars
<1>7. CASE \E c \in calls : Serve(c)
  <2>1. UNCHANGED pageVars
    BY <1>7 DEF Serve, CreateSession, DeleteSession, GetAnalytics, AdmitChat, BeginChat,
                FinishChat, Refuse, Answer, Moved
  <2> QED
    BY <2>1, <1>5 DEF pageVars
<1>8. CASE \E s \in SessionIds : Expire(s)
  BY <1>8, <1>5 DEF Expire, pageVars
<1>9. CASE UNCHANGED vars
  BY <1>9, <1>5 DEF vars, pageVars
<1> QED
  BY <1>1, <1>2, <1>3, <1>4, <1>6, <1>7, <1>8, <1>9 DEF Next

(* AnswersInPlace: the screen shows one conversation, and every message is *)
(* followed by the answer to that very message, whatever else arrives, and *)
(* however late.                                                           *)
THEOREM PageAnswersInPlace == Spec => []AnswersInPlace
<1>1. ScreenInv => AnswersInPlace
  BY DEF ScreenInv
<1> QED
  BY <1>1, Init_CallInv, Next_CallInv, Init_ScreenInv, Next_ScreenInv, PTL DEF Spec

-----------------------------------------------------------------------------
(* Debts: what a mishap leaves behind, or may still leave behind.          *)

(* A step abandons no session, and forgets no creation. *)
NoNewSession == \A s \in SessionIds : Abandoned(s)' => Abandoned(s)
NoNewCall == \A n \in Nat : Forgotten(n)' => Forgotten(n)

(* One more session, one more call, or a session in the place of a call. *)
OneMoreSession == NoNewCall /\ \E t : \A s \in SessionIds :
                      Abandoned(s)' => Abandoned(s) \/ s = t
OneMoreCall == NoNewSession /\ \E m : \A n \in Nat :
                      Forgotten(n)' => Forgotten(n) \/ n = m
SessionForCall ==
    \E t \in SessionIds, m \in Nat :
        /\ Forgotten(m)
        /\ ~Forgotten(m)'
        /\ \A s \in SessionIds : Abandoned(s)' => Abandoned(s) \/ s = t
        /\ NoNewCall

(* What a step may do: it leaves nothing behind, or one thing at the price *)
(* of a mishap, or a forgotten creation becomes the session it creates.    *)
DebtChange ==
    \/ NoNewSession /\ NoNewCall /\ mishaps' \in {mishaps, mishaps + 1}
    \/ (OneMoreSession \/ OneMoreCall) /\ mishaps' = mishaps + 1
    \/ SessionForCall /\ mishaps' = mishaps

(* The set, member by member. *)
LEMMA DebtMembers ==
  ASSUME CallInv, NEW d
  PROVE  /\ d \in Debts <=> \/ \E s \in SessionIds : d = <<"session", s>> /\ Abandoned(s)
                            \/ \E n \in Nat : d = <<"call", n>> /\ Forgotten(n)
<1>1. \A n \in Nat : Forgotten(n) => n \in 1..sent
  BY DEF Forgotten, CallInv, NumbersAreFresh
<1>2. \A n \in 1..sent : n \in Nat
  BY DEF CallInv, PageTypeOK
<1> QED
  BY <1>1, <1>2 DEF Debts

(* An element more counts for one at most. *)
LEMMA OneMoreElement ==
  ASSUME NEW E, IsFiniteSet(E), NEW y
  PROVE  /\ IsFiniteSet(E \cup {y})
         /\ Cardinality(E) \in Nat
         /\ Cardinality(E \cup {y}) \in Nat
         /\ Cardinality(E \cup {y}) <= Cardinality(E) + 1
<1>1. /\ IsFiniteSet(E \cup {y})
      /\ Cardinality(E \cup {y}) = Cardinality(E) \/ Cardinality(E \cup {y}) = Cardinality(E) + 1
  BY FS_AddElement
<1>2. Cardinality(E) \in Nat
  BY FS_CardinalityType
<1> QED
  BY <1>1, <1>2

(* Such a step keeps the debts within the mishaps. *)
LEMMA DebtSteps ==
  ASSUME CallInv, CallInv', DebtInv, DebtChange
  PROVE  DebtInv'
<1>0. mishaps \in Nat /\ IsFiniteSet(Debts) /\ Cardinality(Debts) <= mishaps
      /\ Cardinality(Debts) \in Nat
  BY FS_CardinalityType DEF CallInv, PageTypeOK, DebtInv
<1>a. \A d : d \in Debts <=> \/ \E s \in SessionIds : d = <<"session", s>> /\ Abandoned(s)
                             \/ \E n \in Nat : d = <<"call", n>> /\ Forgotten(n)
  BY DebtMembers
<1>b. \A d : d \in Debts' <=> \/ \E s \in SessionIds : d = <<"session", s>> /\ Abandoned(s)'
                              \/ \E n \in Nat : d = <<"call", n>> /\ Forgotten(n)'
  <2>1. ASSUME NEW d PROVE d \in Debts' <=>
             \/ \E s \in SessionIds : d = <<"session", s>> /\ Abandoned(s)'
             \/ \E n \in Nat : d = <<"call", n>> /\ Forgotten(n)'
    <3>1. \A n \in Nat : Forgotten(n)' => n \in 1..sent'
      BY DEF Forgotten, CallInv, NumbersAreFresh
    <3>2. \A n \in 1..sent' : n \in Nat
      BY DEF CallInv, PageTypeOK
    <3> QED
      BY <3>1, <3>2 DEF Debts
  <2> QED
    BY <2>1
<1>1. CASE NoNewSession /\ NoNewCall /\ mishaps' \in {mishaps, mishaps + 1}
  <2>1. Debts' \in SUBSET Debts
    BY <1>1, <1>a, <1>b DEF NoNewSession, NoNewCall
  <2>2. IsFiniteSet(Debts') /\ Cardinality(Debts') <= Cardinality(Debts)
        /\ Cardinality(Debts') \in Nat
    BY <1>0, <2>1, FS_Subset, FS_CardinalityType
  <2> QED
    BY <1>0, <1>1, <2>2 DEF DebtInv
<1>2. ASSUME mishaps' = mishaps + 1, NEW y, Debts' \subseteq Debts \cup {y} PROVE DebtInv'
  <2>1. IsFiniteSet(Debts \cup {y}) /\ Cardinality(Debts \cup {y}) <= Cardinality(Debts) + 1
        /\ Cardinality(Debts \cup {y}) \in Nat
    BY <1>0, OneMoreElement
  <2>2. /\ IsFiniteSet(Debts') /\ Cardinality(Debts') <= Cardinality(Debts \cup {y})
        /\ Cardinality(Debts') \in Nat
    BY <1>2, <2>1, FS_Subset, FS_CardinalityType
  <2> QED
    BY <1>0, <1>2, <2>1, <2>2 DEF DebtInv
<1>3. CASE OneMoreSession /\ mishaps' = mishaps + 1
  <2>1. PICK t : \A s \in SessionIds : Abandoned(s)' => Abandoned(s) \/ s = t
    BY <1>3 DEF OneMoreSession
  <2>2. Debts' \subseteq Debts \cup {<<"session", t>>}
    BY <1>3, <1>a, <1>b, <2>1 DEF OneMoreSession, NoNewCall
  <2> QED
    BY <1>2, <1>3, <2>2
<1>4. CASE OneMoreCall /\ mishaps' = mishaps + 1
  <2>1. PICK m : \A n \in Nat : Forgotten(n)' => Forgotten(n) \/ n = m
    BY <1>4 DEF OneMoreCall
  <2>2. Debts' \subseteq Debts \cup {<<"call", m>>}
    BY <1>4, <1>a, <1>b, <2>1 DEF OneMoreCall, NoNewSession
  <2> QED
    BY <1>2, <1>4, <2>2
<1>5. CASE SessionForCall /\ mishaps' = mishaps
  <2>1. PICK t \in SessionIds, m \in Nat :
            /\ Forgotten(m)
            /\ ~Forgotten(m)'
            /\ \A s \in SessionIds : Abandoned(s)' => Abandoned(s) \/ s = t
            /\ NoNewCall
    BY <1>5 DEF SessionForCall
  <2> DEFINE x == <<"call", m>>
             y == <<"session", t>>
  <2>2. x \in Debts
    BY <1>a, <2>1
  <2>3. Debts' \subseteq (Debts \ {x}) \cup {y}
    BY <1>a, <1>b, <2>1 DEF NoNewCall
  <2> HIDE DEF x, y
  <2>4. /\ IsFiniteSet(Debts \ {x}) /\ Cardinality(Debts \ {x}) = Cardinality(Debts) - 1
        /\ Cardinality(Debts \ {x}) \in Nat
    BY <1>0, <2>2, FS_RemoveElement, FS_CardinalityType
  <2>5. /\ IsFiniteSet((Debts \ {x}) \cup {y})
        /\ Cardinality((Debts \ {x}) \cup {y}) <= Cardinality(Debts)
        /\ Cardinality((Debts \ {x}) \cup {y}) \in Nat
    <3> DEFINE E == Debts \ {x}
    <3>1. IsFiniteSet(E) /\ Cardinality(E) = Cardinality(Debts) - 1
      BY <2>4
    <3> HIDE DEF E
    <3>2. /\ IsFiniteSet(E \cup {y}) /\ Cardinality(E) \in Nat
          /\ Cardinality(E \cup {y}) \in Nat
          /\ Cardinality(E \cup {y}) <= Cardinality(E) + 1
      BY <3>1, OneMoreElement
    <3>3. Cardinality(E \cup {y}) <= Cardinality(Debts)
      BY <1>0, <3>1, <3>2
    <3> QED
      BY <3>2, <3>3 DEF E
  <2>6. /\ IsFiniteSet(Debts')
        /\ Cardinality(Debts') <= Cardinality((Debts \ {x}) \cup {y})
        /\ Cardinality(Debts') \in Nat
    BY <2>3, <2>5, FS_Subset, FS_CardinalityType
  <2> QED
    BY <1>0, <1>5, <2>5, <2>6 DEF DebtInv
<1> QED
  BY <1>1, <1>3, <1>4, <1>5 DEF DebtChange

-----------------------------------------------------------------------------
(* What the steps of the page leave behind.                                *)

(* Only analytics are listened to without being awaited. *)
LEMMA ListenedIsAwaited ==
  ASSUME CallInv, NEW c \in calls, c.kind # "analytics"
  PROVE  Listened(c) <=> c.id = awaits
BY DEF CallInv, CallsMakeSense, Listened

(* The page awaits a call it has just made, or none. *)
Quiet(rest) ==
    \A c \in calls' : IF c.id = awaits' THEN c.phase = "sent"
                      ELSE c.kind # "analytics" => c \in rest

LEMMA QuietFetch ==
  ASSUME CallInv, NEW rest \in SUBSET calls, NEW kind, NEW s, Fetch(rest, kind, s)
  PROVE  Quiet(rest)
<1> DEFINE new == NewCall(kind, s)
<1>1. calls' = rest \cup {new} /\ awaits' = sent + 1
  BY DEF Fetch
<1>2. new.id = sent + 1 /\ new.phase = "sent"
  BY DEF NewCall
<1> HIDE DEF new
<1>3. sent \in Nat /\ \A c \in rest : c.id \in 1..sent
  BY DEF CallInv, PageTypeOK, NumbersAreFresh
<1> QED
  BY <1>1, <1>2, <1>3 DEF Quiet

LEMMA QuietIdle ==
  ASSUME CallInv, NEW rest \in SUBSET calls, Idle(rest)
  PROVE  Quiet(rest)
<1>1. calls' = rest /\ awaits' = 0 /\ sent \in Nat
  BY DEF Idle, CallInv, PageTypeOK
<1>2. \A c \in rest : c.id \in 1..sent
  BY DEF CallInv, NumbersAreFresh
<1> QED
  BY <1>1, <1>2 DEF Quiet

(* Then whatever is new belongs to the call that was awaited before, to    *)
(* the session the page has left, or to the one it is leaving.             *)
LEMMA QuietSessions ==
  ASSUME CallInv, CallInv', NEW rest \in SUBSET calls, Quiet(rest), server' = server,
         NEW s \in SessionIds, Abandoned(s)'
  PROVE  \/ Stored(s) /\ s # sessionId'
         \/ MayComeBack(s)
         \/ \E c \in rest : c.id = awaits /\ c.kind = "chat" /\ c.session = s
         \/ Stored(s) /\ s = sessionId' /\ doing' = "creating"
<1>1. CASE Unknown(s)'
  BY <1>1 DEF Unknown, Stored
<1>2. CASE MayComeBack(s)'
  <2>1. PICK c \in calls' : c.kind = "chat" /\ c.session = s /\ ~Listened(c)'
    BY <1>2 DEF MayComeBack
  <2>2. c \in rest
    BY <2>1 DEF Quiet, Listened
  <2>3. Listened(c) <=> c.id = awaits
    BY <2>1, <2>2, ListenedIsAwaited
  <2> QED
    BY <2>1, <2>2, <2>3 DEF MayComeBack
<1>3. CASE Leaving(s)'
  <2>1. \A c \in calls' : c.id = awaits' => ~Answered(c)' /\ c.phase # "gone"
    BY DEF Quiet, Answered, Outcomes
  <2> QED
    BY <1>3, <2>1 DEF Leaving, Stored
<1> QED
  BY <1>1, <1>2, <1>3 DEF Abandoned

LEMMA QuietCalls ==
  ASSUME CallInv, CallInv', NEW rest \in SUBSET calls, Quiet(rest),
         NEW n \in Nat, Forgotten(n)'
  PROVE  Forgotten(n) \/ \E c \in rest : c.id = n /\ c.id = awaits /\ c.kind = "create"
<1>1. PICK c \in calls' : c.id = n /\ c.kind = "create" /\ ~Listened(c)'
  BY DEF Forgotten
<1>2. c \in rest
  BY <1>1 DEF Quiet, Listened
<1>3. Listened(c) <=> c.id = awaits
  BY <1>1, <1>2, ListenedIsAwaited
<1> QED
  BY <1>1, <1>2, <1>3 DEF Forgotten

(* A session that is stored and not on the page, unless it is the one the  *)
(* page is about to learn of.                                              *)
LEMMA StoredElsewhere ==
  ASSUME CallInv, NEW s \in SessionIds, Stored(s), s # sessionId
  PROVE  \/ Abandoned(s)
         \/ \E c \in calls :
                c.id = awaits /\ c.kind = "create" /\ c.phase = "ok" /\ c.session = s
BY DEF Abandoned, Unknown

(* Nothing was awaited, and one call is made. *)
LEMMA FetchFromIdle ==
  ASSUME CallInv, CallInv', ~Busy, NEW kind, NEW t, Fetch(calls, kind, t),
         UNCHANGED <<sessionId, server, mishaps>>,
         doing' = "creating" => sessionId = NoSession
  PROVE  DebtChange
<1>1. awaits = 0 /\ \A c \in calls : c.id # awaits
  <2>1. awaits = 0 /\ sent \in Nat /\ \A c \in calls : c.id \in 1..sent
    BY DEF CallInv, AwaitsTheRightCall, Busy, NumbersAreFresh, PageTypeOK
  <2> QED
    BY <2>1
<1>2. Quiet(calls)
  BY QuietFetch
<1>3. NoNewSession
  <2>1. ASSUME NEW s \in SessionIds, Abandoned(s)' PROVE Abandoned(s)
    <3>1. \/ Stored(s) /\ s # sessionId
          \/ MayComeBack(s)
      BY <1>1, <1>2, <2>1, QuietSessions, NoSessionAssumption
    <3> QED
      BY <1>1, <3>1, StoredElsewhere DEF Abandoned
  <2> QED
    BY <2>1 DEF NoNewSession
<1>4. NoNewCall
  BY <1>1, <1>2, QuietCalls DEF NoNewCall
<1> QED
  BY <1>3, <1>4 DEF DebtChange

LEMMA StartsDebts ==
  ASSUME CallInv, CallInv', ~Busy, NEW next \in {"creating", "creatingToSend"},
         NEW deleteExisting \in BOOLEAN, Starts(next, deleteExisting),
         next = "creating" => deleteExisting,
         UNCHANGED <<sessionId, server, mishaps>>
  PROVE  DebtChange
<1>1. CASE deleteExisting /\ sessionId # NoSession
  <2>1. doing' = "deleting" /\ Fetch(calls, "delete", sessionId)
    BY <1>1 DEF Starts
  <2> QED
    BY <2>1, FetchFromIdle
<1>2. CASE ~(deleteExisting /\ sessionId # NoSession)
  <2>1. doing' = next /\ Fetch(calls, "create", NoSession)
    BY <1>2 DEF Starts
  <2> QED
    BY <1>2, <2>1, FetchFromIdle
<1> QED
  BY <1>1, <1>2

LEMMA CustomerDebts ==
  ASSUME CallInv, CallInv', NewChat \/ SendMessage \/ DialogNewChat
  PROVE  DebtChange
<1>1. CASE NewChat
  BY <1>1, StartsDebts DEF NewChat, serverVars
<1>2. CASE DialogNewChat
  BY <1>2, StartsDebts DEF DialogNewChat, serverVars
<1>3. CASE SendMessage /\ Starts("creatingToSend", FALSE)
  BY <1>3, StartsDebts DEF SendMessage, serverVars
<1>4. CASE SendMessage /\ Says(calls, sessionId, shown)
  BY <1>4, FetchFromIdle DEF SendMessage, Says, serverVars
<1> QED
  BY <1>1, <1>2, <1>3, <1>4 DEF SendMessage

(* The awaited deletion has settled, one way or the other. *)
LEMMA DeletedDebts ==
  ASSUME CallInv, CallInv', NEW c \in calls, NEW rest \in SUBSET calls, c.id = awaits,
         AfterDelete(rest), server' = server,
         \/ Answered(c) /\ mishaps' \in {mishaps, mishaps + 1}
         \/ mishaps' = mishaps + 1
  PROVE  DebtChange
<1>1. /\ doing = "deleting" /\ Fetch(rest, "create", NoSession) /\ sessionId' = sessionId
  BY DEF AfterDelete
<1>2. c.kind = "delete" /\ \A d \in calls : d.id = awaits => d = c
  BY <1>1 DEF CallInv, AwaitsTheRightCall, AwaitedKind, NumbersAreFresh
<1>3. Quiet(rest)
  BY <1>1, QuietFetch
<1>4. NoNewCall
  BY <1>2, <1>3, QuietCalls DEF NoNewCall
<1>5. \A s \in SessionIds : Abandoned(s)' => Abandoned(s) \/ (Stored(s) /\ s = sessionId)
  <2>1. ASSUME NEW s \in SessionIds, Abandoned(s)'
        PROVE  Abandoned(s) \/ (Stored(s) /\ s = sessionId)
    <3>1. Stored(s) \/ MayComeBack(s)
      BY <1>2, <1>3, <2>1, QuietSessions
    <3> QED
      BY <1>2, <3>1, StoredElsewhere DEF Abandoned
  <2> QED
    BY <2>1
<1>6. CASE Answered(c)
  <2>1. \A s \in SessionIds : Stored(s) /\ s = sessionId => Leaving(s)
    BY <1>2, <1>6 DEF Leaving
  <2> QED
    BY <1>4, <1>5, <2>1 DEF NoNewSession, DebtChange, Abandoned
<1>7. CASE mishaps' = mishaps + 1
  BY <1>4, <1>5, <1>7 DEF OneMoreSession, DebtChange
<1> QED
  BY <1>6, <1>7

(* The new session takes the place of the one that was to be left. *)
LEMMA CreatedDebts ==
  ASSUME CallInv, CallInv', NEW c \in calls, c.id = awaits,
         AfterCreate("ok", c.session, calls \ {c}), c.phase = "ok",
         server' = server, mishaps' = mishaps
  PROVE  DebtChange
<1>1. doing \in {"creating", "creatingToSend"} /\ sessionId' = c.session
  BY DEF AfterCreate
<1>2. Idle(calls \ {c}) \/ (Fetch(calls \ {c}, "chat", c.session) /\ doing' = "chatting")
  BY DEF AfterCreate, Says
<1>3. Quiet(calls \ {c}) /\ doing' # "creating"
  BY <1>2, QuietFetch, QuietIdle DEF Idle
<1>4. c.kind = "create" /\ \A d \in calls : d.id = awaits => d = c
  BY <1>1 DEF CallInv, AwaitsTheRightCall, AwaitedKind, NumbersAreFresh
<1>5. NoNewCall
  BY <1>3, <1>4, QuietCalls DEF NoNewCall
<1>6. NoNewSession
  <2>1. ASSUME NEW s \in SessionIds, Abandoned(s)' PROVE Abandoned(s)
    <3>1. MayComeBack(s) \/ (Stored(s) /\ s # c.session)
      BY <1>1, <1>3, <1>4, <2>1, QuietSessions
    <3>2. CASE Stored(s) /\ s = sessionId
      <4>1. doing = "creating"
        BY <1>1, <3>2, NoSessionAssumption DEF CallInv, AwaitsTheRightCall
      <4> QED
        BY <3>2, <4>1 DEF Abandoned, Leaving
    <3> QED
      BY <1>4, <3>1, <3>2, StoredElsewhere DEF Abandoned
  <2> QED
    BY <2>1 DEF NoNewSession
<1> QED
  BY <1>5, <1>6 DEF DebtChange

(* The answer, or the creation itself, is lost to the page. *)
LEMMA NotCreatedDebts ==
  ASSUME CallInv, CallInv', NEW c \in calls, NEW rest \in SUBSET calls, c.id = awaits,
         NEW outcome, outcome # "ok", AfterCreate(outcome, c.session, rest),
         server' = server,
         \/ outcome = c.phase /\ rest = calls \ {c} /\ mishaps' = mishaps
         \/ Answered(c) /\ rest = calls \ {c} /\ mishaps' = mishaps + 1
         \/ ~Answered(c) /\ mishaps' = mishaps + 1
  PROVE  DebtChange
<1>1. /\ doing \in {"creating", "creatingToSend"} /\ sessionId' = sessionId
      /\ Idle(rest)
  BY DEF AfterCreate
<1>2. c.kind = "create" /\ \A d \in calls : d.id = awaits => d = c
  BY <1>1 DEF CallInv, AwaitsTheRightCall, AwaitedKind, NumbersAreFresh
<1>3. Quiet(rest) /\ doing' # "creating"
  BY <1>1, QuietIdle DEF Idle
<1>4. \A s \in SessionIds :
          Abandoned(s)' => Abandoned(s) \/ (c.phase = "ok" /\ s = c.session)
  <2>1. ASSUME NEW s \in SessionIds, Abandoned(s)'
        PROVE  Abandoned(s) \/ (c.phase = "ok" /\ s = c.session)
    <3>1. MayComeBack(s) \/ (Stored(s) /\ s # sessionId)
      BY <1>1, <1>2, <1>3, <2>1, QuietSessions
    <3> QED
      BY <1>2, <3>1, StoredElsewhere DEF Abandoned
  <2> QED
    BY <2>1
<1>5. \A n \in Nat : Forgotten(n)' => Forgotten(n) \/ (c \in rest /\ n = c.id)
  BY <1>2, <1>3, QuietCalls
<1>6. CASE rest = calls \ {c}
  <2>1. NoNewCall
    BY <1>5, <1>6 DEF NoNewCall
  <2>2. CASE outcome = c.phase /\ mishaps' = mishaps
    BY <1>4, <2>1, <2>2 DEF NoNewSession, DebtChange
  <2>3. CASE mishaps' = mishaps + 1
    BY <1>4, <2>1, <2>3 DEF OneMoreSession, DebtChange
  <2> QED
    BY <2>2, <2>3
<1>7. CASE ~Answered(c) /\ mishaps' = mishaps + 1
  <2>1. NoNewSession
    BY <1>4, <1>7 DEF NoNewSession, Answered, Outcomes
  <2> QED
    BY <1>5, <1>7, <2>1 DEF OneMoreCall, DebtChange
<1> QED
  BY <1>6, <1>7

(* A chat whose fetch failed may still store its session. *)
LEMMA ChattedDebts ==
  ASSUME CallInv, CallInv', NEW c \in calls, NEW rest \in SUBSET calls, c.id = awaits,
         NEW outcome, AfterChat(outcome, c.over, rest), server' = server,
         \/ outcome = c.phase /\ rest = calls \ {c} /\ mishaps' = mishaps
         \/ outcome = "error" /\ mishaps' = mishaps + 1
  PROVE  DebtChange
<1>1. /\ doing = "chatting" /\ Idle(rest)
      /\ sessionId' # sessionId => outcome = "gone"
  BY DEF AfterChat
<1>2. /\ c.kind = "chat" /\ c.session = sessionId
      /\ \A d \in calls : d.id = awaits => d = c
  BY <1>1 DEF CallInv, AwaitsTheRightCall, AwaitedKind, NumbersAreFresh
<1>3. Quiet(rest) /\ doing' # "creating"
  BY <1>1, QuietIdle DEF Idle
<1>4. NoNewCall
  BY <1>2, <1>3, QuietCalls DEF NoNewCall
<1>5. \A s \in SessionIds :
          Abandoned(s)' => \/ Abandoned(s)
                           \/ Stored(s) /\ s = sessionId /\ sessionId' # sessionId
                           \/ c \in rest /\ s = sessionId
  <2>1. ASSUME NEW s \in SessionIds, Abandoned(s)'
        PROVE  \/ Abandoned(s)
               \/ Stored(s) /\ s = sessionId /\ sessionId' # sessionId
               \/ c \in rest /\ s = sessionId
    <3>1. \/ MayComeBack(s)
          \/ Stored(s) /\ s # sessionId'
          \/ c \in rest /\ s = sessionId
      BY <1>2, <1>3, <2>1, QuietSessions
    <3> QED
      BY <1>2, <3>1, StoredElsewhere DEF Abandoned
  <2> QED
    BY <2>1
<1>6. CASE outcome = c.phase /\ rest = calls \ {c} /\ mishaps' = mishaps
  <2>1. \A s \in SessionIds :
            Stored(s) /\ s = sessionId /\ sessionId' # sessionId => Leaving(s)
    BY <1>1, <1>2, <1>6 DEF Leaving
  <2> QED
    BY <1>4, <1>5, <1>6, <2>1 DEF NoNewSession, DebtChange, Abandoned
<1>7. CASE outcome = "error" /\ mishaps' = mishaps + 1
  BY <1>1, <1>4, <1>5, <1>7 DEF OneMoreSession, DebtChange
<1> QED
  BY <1>6, <1>7

LEMMA SettledDebts ==
  ASSUME CallInv, CallInv', AnswerArrives \/ FetchFails
  PROVE  DebtChange
<1>1. PICK c \in calls, outcome \in Outcomes, rest \in SUBSET calls :
          /\ Settles(outcome, c, rest)
          /\ \/ outcome = c.phase /\ rest = calls \ {c} /\ mishaps' = mishaps
             \/ /\ outcome = "error" /\ mishaps' = mishaps + 1
                /\ rest = IF Answered(c) THEN calls \ {c} ELSE calls
  BY SettledStep
<1>2. c.id = awaits /\ server' = server
  BY <1>1 DEF Settles, GoesOn, serverVars
<1>3. outcome = c.phase => Answered(c)
  BY DEF Answered
<1>4. CASE AfterDelete(rest)
  BY <1>1, <1>2, <1>3, <1>4, DeletedDebts
<1>5. CASE AfterCreate(outcome, c.session, rest) /\ outcome = "ok"
  BY <1>1, <1>2, <1>5, CreatedDebts
<1>6. CASE AfterCreate(outcome, c.session, rest) /\ outcome # "ok"
  BY <1>1, <1>2, <1>6, NotCreatedDebts
<1>7. CASE AfterChat(outcome, c.over, rest)
  BY <1>1, <1>2, <1>7, ChattedDebts
<1> QED
  BY <1>1, <1>4, <1>5, <1>6, <1>7 DEF Settles, GoesOn

(* A reload forgets one thing: the conversation on the page, the one that  *)
(* was just created, or the call that was to create it.                    *)
LEMMA ReloadDebts ==
  ASSUME CallInv, CallInv', Reload
  PROVE  DebtChange
<1> DEFINE rest == {c \in calls : ~Answered(c)}
<1>1. /\ Fetch(rest, "create", NoSession) /\ sessionId' = NoSession
      /\ server' = server /\ mishaps' = mishaps + 1
  BY DEF Reload, Mishap, serverVars
<1>2. Quiet(rest)
  BY <1>1, QuietFetch
<1>3. \A s \in SessionIds : s # NoSession
  BY NoSessionAssumption
<1>4. \A s \in SessionIds :
          Abandoned(s)' =>
              \/ Abandoned(s)
              \/ s = sessionId /\ (Stored(s) \/ \E c \in calls : c.id = awaits /\ c.kind = "chat")
              \/ \E c \in calls :
                     c.id = awaits /\ c.kind = "create" /\ c.phase = "ok" /\ c.session = s
  <2>1. ASSUME NEW s \in SessionIds, Abandoned(s)'
        PROVE  \/ Abandoned(s)
               \/ s = sessionId /\ (Stored(s) \/ \E c \in calls : c.id = awaits /\ c.kind = "chat")
               \/ \E c \in calls :
                      c.id = awaits /\ c.kind = "create" /\ c.phase = "ok" /\ c.session = s
    <3>1. \/ Stored(s) \/ MayComeBack(s)
          \/ \E c \in rest : c.id = awaits /\ c.kind = "chat" /\ c.session = s
      BY <1>1, <1>2, <2>1, QuietSessions
    <3>2. \A c \in calls : c.id = awaits /\ c.kind = "chat" => c.session = sessionId
      BY DEF CallInv, AwaitsTheRightCall
    <3> QED
      BY <3>1, <3>2, StoredElsewhere DEF Abandoned
  <2> QED
    BY <2>1
<1>5. \A n \in Nat : Forgotten(n)' =>
          Forgotten(n) \/ \E c \in rest : c.id = n /\ c.id = awaits /\ c.kind = "create"
  BY <1>2, QuietCalls
<1>6. \A c, d \in calls : c.id = awaits /\ d.id = awaits => c = d
  BY DEF CallInv, NumbersAreFresh
<1>7. CASE \E c \in calls : c.id = awaits /\ c.kind = "create"
  <2>1. PICK c \in calls : c.id = awaits /\ c.kind = "create"
    BY <1>7
  <2>2. \A s \in SessionIds : s = sessionId /\ Stored(s) => Abandoned(s)
    <3>1. doing = "creating" \/ doing = "creatingToSend"
      BY <2>1 DEF CallInv, AwaitsTheRightCall, AwaitedKind, PageTypeOK, NumbersAreFresh
    <3>2. doing = "creatingToSend" => sessionId = NoSession
      BY DEF CallInv, AwaitsTheRightCall
    <3> QED
      BY <1>3, <3>1, <3>2 DEF Abandoned, Leaving
  <2>3. \A s \in SessionIds :
            Abandoned(s)' => Abandoned(s) \/ (c.phase = "ok" /\ s = c.session)
    BY <1>4, <1>6, <2>1, <2>2
  <2>4. \A n \in Nat : Forgotten(n)' => Forgotten(n) \/ (~Answered(c) /\ n = awaits)
    BY <1>5, <1>6, <2>1
  <2>5. CASE c.phase = "ok"
    BY <1>1, <2>3, <2>4, <2>5 DEF Answered, Outcomes, OneMoreSession, NoNewCall, DebtChange
  <2>6. CASE c.phase # "ok"
    BY <1>1, <2>3, <2>4, <2>6 DEF OneMoreCall, NoNewSession, DebtChange
  <2> QED
    BY <2>5, <2>6
<1>8. CASE ~\E c \in calls : c.id = awaits /\ c.kind = "create"
  <2>1. NoNewCall
    BY <1>5, <1>8 DEF NoNewCall
  <2>2. \A s \in SessionIds : Abandoned(s)' => Abandoned(s) \/ s = sessionId
    BY <1>4, <1>8
  <2> QED
    BY <1>1, <2>1, <2>2 DEF OneMoreSession, DebtChange
<1> QED
  BY <1>7, <1>8

-----------------------------------------------------------------------------
(* What the work of the service, and of time, leaves behind.               *)

(* The page stays, but for the dialog and its analytics; calls leave that  *)
(* nobody awaits, and the service stores nothing new.                      *)
LEMMA QuietPageDebts ==
  ASSUME CallInv, CallInv', UNCHANGED <<sessionId, doing, awaits, mishaps>>,
         \A c \in calls' : c \in calls \/ c.kind = "analytics",
         \A c \in calls : c.id = awaits => c \in calls',
         \A s \in SessionIds : Stored(s)' => Stored(s)
  PROVE  DebtChange
<1>1. \A c \in calls' : c.kind # "analytics" => c \in calls /\ (Listened(c)' <=> Listened(c))
  BY DEF CallInv, CallsMakeSense, Listened
<1>2. NoNewCall
  BY <1>1 DEF NoNewCall, Forgotten
<1>3. NoNewSession
  <2>1. ASSUME NEW s \in SessionIds, Abandoned(s)' PROVE Abandoned(s)
    <3>1. CASE Unknown(s)'
      BY <3>1 DEF Unknown, Abandoned
    <3>2. CASE MayComeBack(s)'
      BY <1>1, <3>2 DEF MayComeBack, Abandoned
    <3>3. CASE Leaving(s)'
      BY <1>1, <3>3 DEF Leaving, Abandoned, Answered
    <3> QED
      BY <2>1, <3>1, <3>2, <3>3 DEF Abandoned
  <2> QED
    BY <2>1 DEF NoNewSession
<1> QED
  BY <1>2, <1>3 DEF DebtChange

LEMMA IdlePageDebts ==
  ASSUME CallInv, CallInv', OpenAnalytics \/ AnalyticsArrive \/ CloseDialog \/ CallLost
  PROVE  DebtChange
<1>1. CASE OpenAnalytics
  BY <1>1, QuietPageDebts DEF OpenAnalytics, NewCall, Stored, serverVars
<1>2. CASE AnalyticsArrive
  <2>1. PICK c \in calls : c.id \in asking /\ calls' = calls \ {c}
    BY <1>2 DEF AnalyticsArrive
  <2>2. c.id # awaits
    BY <2>1 DEF CallInv, NumbersAreFresh
  <2> QED
    BY <1>2, <2>1, <2>2, QuietPageDebts DEF AnalyticsArrive, Stored, serverVars
<1>3. CASE CloseDialog
  BY <1>3, QuietPageDebts DEF CloseDialog, Stored, serverVars
<1>4. CASE CallLost
  <2>1. PICK c \in calls : ~Listened(c) /\ calls' = calls \ {c}
    BY <1>4 DEF CallLost
  <2> QED
    BY <1>4, <2>1, QuietPageDebts DEF CallLost, Listened, Stored, serverVars, pageVars
<1> QED
  BY <1>1, <1>2, <1>3, <1>4

LEMMA ExpireDebts ==
  ASSUME CallInv, CallInv', NEW s \in SessionIds, Expire(s)
  PROVE  DebtChange
<1>1. \A t \in SessionIds : Stored(t)' => Stored(t)
  BY DEF Expire, Removed, Stored, CallInv, PageTypeOK
<1>2. UNCHANGED <<sessionId, doing, awaits, mishaps, calls>>
  BY DEF Expire, pageVars
<1> QED
  BY <1>1, <1>2, QuietPageDebts

(* The service works on c, which becomes d or leaves. *)
Works(c, d) ==
    /\ c \in calls
    /\ ~Answered(c)
    /\ d.id = c.id
    /\ d.kind = c.kind
    /\ c.kind # "create" => d.session = c.session
    /\ \/ calls' = (calls \ {c}) \cup {d}
       \/ ~Listened(c) /\ calls' = calls \ {c}
    /\ UNCHANGED pageVars

(* The page learns from d that its session will be left. *)
BadNews(d) == (d.kind = "delete" /\ Answered(d)) \/ (d.kind = "chat" /\ d.phase = "gone")

(* The service makes no creation forgotten, and sends no chat of its own. *)
LEMMA WorksOnCalls ==
  ASSUME CallInv, CallInv', NEW c, NEW d, Works(c, d)
  PROVE  /\ NoNewCall
         /\ \A s \in SessionIds : MayComeBack(s)' => MayComeBack(s)
<1>1. \A e : Listened(e)' <=> Listened(e)
  BY DEF Listened, Works, pageVars
<1>2. Listened(c) <=> Listened(d)
  BY DEF Listened, Works
<1>3. \A e \in calls' : e \in calls \/ e = d
  BY DEF Works
<1>4. NoNewCall
  BY <1>1, <1>2, <1>3 DEF Works, NoNewCall, Forgotten
<1>5. \A s \in SessionIds : MayComeBack(s)' => MayComeBack(s)
  BY <1>1, <1>2, <1>3 DEF Works, MayComeBack
<1> QED
  BY <1>4, <1>5

(* Nor does it abandon a session it does not store, unless the page is told *)
(* bad news of it.                                                         *)
LEMMA WorksOnSession ==
  ASSUME CallInv, CallInv', NEW c, NEW d, Works(c, d), NEW s \in SessionIds,
         Stored(s)' => Stored(s),
         c.id = awaits /\ s = sessionId /\ Stored(s)' => ~BadNews(d),
         Abandoned(s)'
  PROVE  Abandoned(s)
<1>1. /\ sessionId' = sessionId /\ doing' = doing /\ awaits' = awaits
      /\ \A e \in calls' : e \in calls \/ e = d
      /\ c \in calls /\ d.id = c.id
  BY DEF Works, pageVars
<1>2. CASE Unknown(s)'
  <2>1. ASSUME NEW e \in calls, e.id = awaits, e.kind = "create", e.phase = "ok"
        PROVE  e \in calls'
    BY <2>1 DEF Works, Answered, Outcomes
  <2> QED
    BY <1>1, <1>2, <2>1 DEF Unknown, Abandoned
<1>3. CASE MayComeBack(s)'
  BY <1>3, WorksOnCalls DEF Abandoned
<1>4. CASE Leaving(s)'
  <2>1. CASE doing' = "creating"
    BY <1>1, <1>4, <2>1 DEF Leaving, Abandoned
  <2>2. CASE doing' # "creating"
    <3>1. PICK e \in calls' : e.id = awaits /\ BadNews(e)
      BY <1>1, <1>4, <2>2 DEF Leaving, BadNews, Answered
    <3>2. e # d /\ s = sessionId /\ Stored(s)'
      BY <1>1, <1>4, <3>1 DEF Leaving
    <3> QED
      BY <1>1, <3>1, <3>2 DEF Leaving, Abandoned, BadNews
  <2> QED
    BY <2>1, <2>2
<1> QED
  BY <1>2, <1>3, <1>4 DEF Abandoned

AnsweredWith(c, outcome, s) == \E over : Answer(c, outcome, s, over)

LEMMA AnswerWorks ==
  ASSUME CallInv, NEW c \in calls, NEW outcome, NEW s,
         AnsweredWith(c, outcome, s), ~Answered(c), c.kind # "create" => s = c.session
  PROVE  \E d :
             /\ Works(c, d)
             /\ d.kind = c.kind /\ d.phase = outcome /\ d.session = s /\ d.id = c.id
             /\ calls' = IF Listened(c) THEN (calls \ {c}) \cup {d} ELSE calls \ {c}
<1>1. PICK over : Answer(c, outcome, s, over)
  BY DEF AnsweredWith
<1> DEFINE d == Settled(c, outcome, s, over)
<1>2. /\ d.kind = c.kind /\ d.phase = outcome /\ d.session = s /\ d.id = c.id
  BY AnsweredFields
<1>3. /\ calls' = IF Listened(c) THEN (calls \ {c}) \cup {d} ELSE calls \ {c}
      /\ UNCHANGED pageVars
  BY <1>1, AnswerEffect
<1> HIDE DEF d
<1>4. Works(c, d)
  BY <1>2, <1>3 DEF Works
<1> QED
  BY <1>2, <1>3, <1>4

LEMMA MovedWorks ==
  ASSUME CallInv, NEW c \in calls, NEW phase \in {"queued", "running"}, Moved(c, phase),
         c.phase \in {"sent", "queued"}
  PROVE  \E d : Works(c, d) /\ d.kind = c.kind /\ d.phase = phase
<1> DEFINE d == [c EXCEPT !.phase = phase]
<1>1. /\ d.kind = c.kind /\ d.phase = phase /\ d.session = c.session /\ d.id = c.id
  BY MovedFields DEF CallInv, Phases
<1>2. calls' = (calls \ {c}) \cup {d} /\ UNCHANGED pageVars
  BY DEF Moved
<1>3. ~Answered(c)
  BY DEF Answered, Outcomes
<1> HIDE DEF d
<1> QED
  BY <1>1, <1>2, <1>3 DEF Works

(* A listened create, delete or chat is the one the page awaits. *)
LEMMA AwaitedSession ==
  ASSUME CallInv, NEW c \in calls, c.id = awaits
  PROVE  /\ c.kind # "create" => c.session = sessionId
         /\ c.kind = "chat" => doing = "chatting"
         /\ c.kind = "create" => doing \in {"creating", "creatingToSend"}
BY DEF CallInv, AwaitsTheRightCall, AwaitedKind, PageTypeOK, NumbersAreFresh

(* A forgotten creation becomes an abandoned session. *)
LEMMA CreateSessionDebts ==
  ASSUME CallInv, CallInv', NEW c \in calls, CreateSession(c)
  PROVE  DebtChange
<1>1. PICK t \in SessionIds \ issued :
          /\ server' = [server EXCEPT ![t] = "active"]
          /\ AnsweredWith(c, "ok", t) /\ UNCHANGED pageVars
  BY Zenon DEF CreateSession, AnsweredWith, Answer
<1>2. c.kind = "create" /\ ~Answered(c) /\ mishaps' = mishaps /\ c.id \in Nat
  BY DEF CreateSession, Answered, Outcomes, CallInv, PageTypeOK, Calls
<1>3. PICK d :
          /\ Works(c, d) /\ d.kind = "create" /\ d.phase = "ok" /\ d.session = t /\ d.id = c.id
          /\ calls' = IF Listened(c) THEN (calls \ {c}) \cup {d} ELSE calls \ {c}
  BY <1>1, <1>2, AnswerWorks
<1>4. \A s \in SessionIds : s # t => (Abandoned(s)' => Abandoned(s))
  <2>1. ASSUME NEW s \in SessionIds, s # t, Abandoned(s)' PROVE Abandoned(s)
    <3>1. Stored(s)' => Stored(s)
      BY <1>1, <2>1 DEF Stored, CallInv, PageTypeOK
    <3> QED
      BY <1>3, <2>1, <3>1, WorksOnSession DEF BadNews
  <2> QED
    BY <2>1
<1>5. NoNewCall /\ \A s \in SessionIds : MayComeBack(s)' => MayComeBack(s)
  BY <1>3, WorksOnCalls
<1>6. sessionId' = sessionId /\ awaits' = awaits /\ sessionId # t
  BY <1>1, NoSessionAssumption DEF pageVars, CallInv, AwaitsTheRightCall
<1>7. CASE Listened(c)
  <2>1. c.id = awaits /\ d \in calls'
    BY <1>2, <1>3, <1>7, ListenedIsAwaited
  <2>2. ~Unknown(t)' /\ ~Leaving(t)'
    BY <1>3, <1>6, <2>1 DEF Unknown, Leaving
  <2>3. NoNewSession
    BY <1>1, <1>4, <1>5, <2>2 DEF NoNewSession, Abandoned
  <2> QED
    BY <1>2, <1>5, <2>3 DEF DebtChange
<1>8. CASE ~Listened(c)
  <2>1. Forgotten(c.id)
    BY <1>2, <1>8 DEF Forgotten
  <2>2. ~Forgotten(c.id)'
    BY <1>3, <1>8 DEF Forgotten, CallInv, NumbersAreFresh
  <2>3. SessionForCall
    BY <1>1, <1>2, <1>4, <1>5, <2>1, <2>2 DEF SessionForCall
  <2> QED
    BY <1>2, <2>3 DEF DebtChange
<1> QED
  BY <1>7, <1>8

(* Nothing is stored anew, and no bad news reaches the page. *)
LEMMA HarmlessWork ==
  ASSUME CallInv, CallInv', NEW c, NEW d, Works(c, d), mishaps' \in {mishaps, mishaps + 1},
         \A s \in SessionIds : Stored(s)' => Stored(s),
         \A s \in SessionIds : c.id = awaits /\ s = sessionId /\ Stored(s)' => ~BadNews(d)
  PROVE  DebtChange
<1>1. NoNewSession
  <2>1. ASSUME NEW s \in SessionIds, Abandoned(s)' PROVE Abandoned(s)
    BY <2>1, WorksOnSession
  <2> QED
    BY <2>1 DEF NoNewSession
<1>2. NoNewCall
  BY WorksOnCalls
<1> QED
  BY <1>1, <1>2 DEF DebtChange

(* A turn may store its session again after its removal: either the page   *)
(* still waits for it, or it was counted as one that may come back.        *)
LEMMA FinishChatDebts ==
  ASSUME CallInv, CallInv', NEW c \in calls, FinishChat(c)
  PROVE  DebtChange
<1>1. PICK after \in {"active", "ended"} :
          /\ server' = [server EXCEPT ![c.session] = after]
          /\ AnsweredWith(c, "ok", c.session) /\ UNCHANGED pageVars
  BY Zenon DEF FinishChat, AnsweredWith, Answer
<1>2. c.kind = "chat" /\ ~Answered(c) /\ mishaps' = mishaps
  BY DEF FinishChat, Answered, Outcomes, CallInv, CallsMakeSense
<1>3. PICK d :
          /\ Works(c, d) /\ d.kind = "chat" /\ d.phase = "ok" /\ d.session = c.session
          /\ d.id = c.id
          /\ calls' = IF Listened(c) THEN (calls \ {c}) \cup {d} ELSE calls \ {c}
  BY <1>1, <1>2, AnswerWorks
<1>4. \A s \in SessionIds : s # c.session => (Abandoned(s)' => Abandoned(s))
  <2>1. ASSUME NEW s \in SessionIds, s # c.session, Abandoned(s)' PROVE Abandoned(s)
    <3>1. Stored(s)' => Stored(s)
      BY <1>1, <2>1 DEF Stored, CallInv, PageTypeOK
    <3> QED
      BY <1>3, <2>1, <3>1, WorksOnSession DEF BadNews
  <2> QED
    BY <2>1
<1>5. NoNewCall /\ \A s \in SessionIds : MayComeBack(s)' => MayComeBack(s)
  BY <1>3, WorksOnCalls
<1>6. sessionId' = sessionId /\ awaits' = awaits /\ doing' = doing
  BY <1>1 DEF pageVars
<1>7. c.session \in SessionIds /\ Abandoned(c.session)' => Abandoned(c.session)
  <2>1. CASE Listened(c)
    <3>1. c.id = awaits /\ c.session = sessionId /\ doing = "chatting"
      BY <1>2, <2>1, ListenedIsAwaited, AwaitedSession
    <3>2. \A e \in calls' : e.id = awaits => e = d
      BY <1>3, <3>1 DEF CallInv, NumbersAreFresh
    <3>3. ~Unknown(c.session)' /\ ~Leaving(c.session)'
      BY <1>3, <1>6, <3>1, <3>2 DEF Unknown, Leaving
    <3> QED
      BY <1>5, <3>3 DEF Abandoned
  <2>2. CASE ~Listened(c)
    BY <1>2, <2>2 DEF Abandoned, MayComeBack
  <2> QED
    BY <2>1, <2>2
<1> QED
  BY <1>2, <1>4, <1>5, <1>7 DEF NoNewSession, DebtChange

LEMMA RefuseDebts ==
  ASSUME CallInv, CallInv', NEW c \in calls, Refuse(c)
  PROVE  DebtChange
<1>0. AnsweredWith(c, "error", c.session) /\ ~Answered(c)
  BY Zenon DEF Refuse, AnsweredWith
<1>1. PICK d : Works(c, d) /\ d.kind = c.kind /\ d.phase = "error"
  BY <1>0, AnswerWorks
<1>2. server' = server
  BY DEF Refuse, serverVars
<1>3. CASE c.kind = "delete"
  <2>1. ASSUME NEW s \in SessionIds, Abandoned(s)', s # sessionId PROVE Abandoned(s)
    BY <1>1, <1>2, <2>1, WorksOnSession DEF Stored
  <2>2. OneMoreSession
    BY <1>1, <2>1, WorksOnCalls DEF OneMoreSession
  <2>3. mishaps' = mishaps + 1
    BY <1>3 DEF Refuse, Mishap
  <2> QED
    BY <2>2, <2>3 DEF DebtChange
<1>4. CASE c.kind # "delete"
  BY <1>1, <1>2, <1>4, HarmlessWork DEF Refuse, BadNews, Stored
<1> QED
  BY <1>3, <1>4

LEMMA ServeDebts ==
  ASSUME CallInv, CallInv', NEW c \in calls, Serve(c)
  PROVE  DebtChange
<1>1. CASE DeleteSession(c)
  <2>1. /\ c.kind = "delete" /\ ~Answered(c) /\ mishaps' = mishaps
        /\ server' = [server EXCEPT ![c.session] = "absent"]
    BY <1>1 DEF DeleteSession, Answered, Outcomes, Removed
  <2>0. AnsweredWith(c, "ok", c.session)
    BY <1>1, Zenon DEF DeleteSession, AnsweredWith
  <2>2. PICK d : Works(c, d)
    BY <2>0, <2>1, AnswerWorks
  <2>3. \A s \in SessionIds : Stored(s)' => Stored(s) /\ s # c.session
    BY <2>1 DEF Stored, CallInv, PageTypeOK
  <2>4. c.id = awaits => c.session = sessionId
    BY <2>1, AwaitedSession
  <2> QED
    BY <2>1, <2>2, <2>3, <2>4, HarmlessWork
<1>2. ASSUME NEW outcome \in Outcomes, AnsweredWith(c, outcome, c.session),
             c.kind \in {"analytics", "chat"}, ~Answered(c), UNCHANGED <<server, mishaps>>,
             c.kind = "chat" /\ outcome = "gone" => ~Stored(c.session)
      PROVE  DebtChange
  <2>1. PICK d : Works(c, d) /\ d.kind = c.kind /\ d.phase = outcome
    BY <1>2, AnswerWorks
  <2>2. c.id = awaits => c.session = sessionId
    BY <1>2, AwaitedSession
  <2> QED
    BY <1>2, <2>1, <2>2, HarmlessWork DEF BadNews, Stored
<1>3. ASSUME NEW phase \in {"queued", "running"}, Moved(c, phase),
             c.phase \in {"sent", "queued"}, UNCHANGED <<server, mishaps>>
      PROVE  DebtChange
  <2>1. PICK d : Works(c, d) /\ d.phase = phase
    BY <1>3, MovedWorks
  <2>2. ~BadNews(d)
    BY <2>1 DEF BadNews, Answered, Outcomes
  <2> QED
    BY <1>3, <2>1, <2>2, HarmlessWork DEF Stored
<1>4. CASE GetAnalytics(c)
  <2>1. PICK outcome \in {"ok", "gone"} : AnsweredWith(c, outcome, c.session)
    BY <1>4, Zenon DEF GetAnalytics, AnsweredWith
  <2> QED
    BY <1>2, <1>4, <2>1 DEF GetAnalytics, Answered, Outcomes, serverVars
<1>5. CASE AdmitChat(c)
  <2>1. /\ c.kind = "chat" /\ c.phase = "sent" /\ UNCHANGED <<server, mishaps>>
        /\ ~Answered(c)
    BY <1>5 DEF AdmitChat, serverVars, Answered, Outcomes
  <2>2. CASE Moved(c, "queued")
    BY <1>3, <2>1, <2>2
  <2>3. CASE ~Stored(c.session) /\ AnsweredWith(c, "gone", c.session)
    BY <1>2, <2>1, <2>3 DEF Outcomes
  <2>4. CASE AnsweredWith(c, "error", c.session)
    BY <1>2, <2>1, <2>4 DEF Outcomes
  <2> QED
    BY <1>5, <2>2, <2>3, <2>4, Zenon DEF AdmitChat, AnsweredWith
<1>6. CASE BeginChat(c)
  <2>1. /\ c.kind = "chat" /\ c.phase = "queued" /\ UNCHANGED <<server, mishaps>>
        /\ ~Answered(c)
    BY <1>6 DEF BeginChat, serverVars, Answered, Outcomes, CallInv, CallsMakeSense
  <2>2. CASE Moved(c, "running")
    BY <1>3, <2>1, <2>2
  <2>3. CASE ~Stored(c.session) /\ AnsweredWith(c, "gone", c.session)
    BY <1>2, <2>1, <2>3 DEF Outcomes
  <2>4. CASE AnsweredWith(c, "ok", c.session)
    BY <1>2, <2>1, <2>4 DEF Outcomes
  <2> QED
    BY <1>6, <2>2, <2>3, <2>4, Zenon DEF BeginChat, AnsweredWith
<1> QED
  BY <1>1, <1>4, <1>5, <1>6, CreateSessionDebts, FinishChatDebts, RefuseDebts DEF Serve

-----------------------------------------------------------------------------
(* A mishap for every debt.                                                *)

LEMMA Init_DebtInv == Init => DebtInv
<1> SUFFICES ASSUME Init PROVE DebtInv
  OBVIOUS
<1>1. \A s \in SessionIds : ~Abandoned(s)
  <2>1. \A s \in SessionIds : server[s] = "absent"
    BY DEF Init
  <2>2. \A c \in calls : c.kind = "create"
    BY DEF Init
  <2> QED
    BY <2>1, <2>2 DEF Abandoned, Unknown, MayComeBack, Leaving, Stored
<1>2. \A n : ~Forgotten(n)
  <2>1. \A c \in calls : Listened(c)
    BY DEF Init, Listened
  <2> QED
    BY <2>1 DEF Forgotten
<1>3. Debts = {}
  BY <1>1, <1>2 DEF Debts
<1> QED
  BY <1>3, FS_EmptySet DEF DebtInv, Init

LEMMA Next_DebtInv == CallInv /\ CallInv' /\ DebtInv /\ [Next]_vars => DebtInv'
<1> SUFFICES ASSUME CallInv, CallInv', DebtInv, [Next]_vars PROVE DebtInv'
  OBVIOUS
<1>1. CASE UNCHANGED vars
  BY <1>1, QuietPageDebts, DebtSteps DEF vars, pageVars, serverVars, Stored
<1> QED
  BY <1>1, CustomerDebts, SettledDebts, IdlePageDebts, ReloadDebts, ServeDebts,
     ExpireDebts, DebtSteps
     DEF Next

(* Every orphan is an abandoned session. *)
LEMMA OrphansAreDebts ==
  ASSUME CallInv, DebtInv
  PROVE  IsFiniteSet(Orphans) /\ Cardinality(Orphans) <= Cardinality(Debts)
<1> DEFINE f == [s \in Orphans |-> <<"session", s>>]
<1>1. \A s \in Orphans : f[s] \in Debts
  <2>1. \A s \in Orphans : s \in SessionIds /\ Abandoned(s)
    BY DEF Orphans, Abandoned, Unknown, Listened
  <2> QED
    BY <2>1, DebtMembers
<1>2. f \in Injection(Orphans, Debts)
  BY <1>1 DEF Injection, IsInjective
<1> QED
  BY <1>2, FS_Injection DEF DebtInv

(* OrphansNeedAMishap: every session that the service keeps and no page    *)
(* knows is paid for by a failed fetch, a refused deletion or a reload,    *)
(* one for one, in whatever order calls, answers and expiry interleave.    *)
THEOREM PageOrphansNeedAMishap == Spec => []OrphansNeedAMishap
<1>1. CallInv /\ DebtInv => OrphansNeedAMishap
  <2> SUFFICES ASSUME CallInv, DebtInv PROVE OrphansNeedAMishap
    OBVIOUS
  <2>1. /\ Cardinality(Orphans) <= Cardinality(Debts) /\ Cardinality(Debts) <= mishaps
        /\ Cardinality(Orphans) \in Nat /\ Cardinality(Debts) \in Nat
    BY OrphansAreDebts, FS_CardinalityType DEF DebtInv
  <2>2. mishaps \in Nat
    BY DEF CallInv, PageTypeOK
  <2> QED
    BY <2>1, <2>2 DEF OrphansNeedAMishap
<1> QED
  BY <1>1, Init_CallInv, Next_CallInv, Init_DebtInv, Next_DebtInv, PTL DEF Spec

-----------------------------------------------------------------------------
(* The page hears of the end.  A session it is about to learn of is open,  *)
(* nobody having written to it; and the chats under way in its own session *)
(* are the one it awaits and those it apologised for.                      *)
NewsOfSessions ==
    \A c \in calls : c.kind = "create" /\ c.phase = "ok" =>
        /\ c.id = awaits
        /\ server[c.session] # "ended"
        /\ \A d \in calls : d.kind = "chat" => d.session # c.session

OldChats ==
    sessionId # NoSession =>
        \A c \in calls : c.kind = "chat" /\ c.session = sessionId =>
            c.id = awaits \/ Apologised

TellInv == NewsOfSessions /\ OldChats /\ EndedIsTold

(* An apology stays as long as nothing clears the screen. *)
LEMMA AppendKeepsApologies ==
  ASSUME PageTypeOK, NEW entry \in Entry, shown' = Append(shown, entry)
  PROVE  /\ Apologised => Apologised'
         /\ entry.role = "sorry" => Apologised'
<1>1. /\ Len(shown') = Len(shown) + 1 /\ shown'[Len(shown) + 1] = entry
      /\ \A i \in 1..Len(shown) : shown'[i] = shown[i]
      /\ DOMAIN shown = 1..Len(shown) /\ DOMAIN shown' = 1..Len(shown')
      /\ Len(shown) \in Nat
  BY AppendProperties DEF PageTypeOK
<1> QED
  BY <1>1 DEF Apologised

(* The page makes its next call, awaiting none or a deletion so far. *)
LEMMA FetchTells ==
  ASSUME CallInv, EndInv, TellInv, NEW rest \in SUBSET calls, NEW kind, NEW s,
         Fetch(rest, kind, s), \A c \in calls : c.id = awaits => c.kind = "delete",
         server' = server, sessionId' = sessionId, ended' = ended,
         Apologised => Apologised'
  PROVE  TellInv'
<1> DEFINE new == NewCall(kind, s)
<1>1. calls' = rest \cup {new} /\ awaits' = sent + 1
  BY DEF Fetch
<1>0. new.id = sent + 1 /\ new.phase = "sent"
  BY DEF NewCall
<1> HIDE DEF new
<1>2. NewsOfSessions'
  BY <1>0, <1>1 DEF TellInv, NewsOfSessions
<1>3. OldChats'
  BY <1>0, <1>1 DEF TellInv, OldChats
<1>4. EndedIsTold'
  <2>1. \A c \in calls : ~(c.id = awaits /\ c.over)
    BY DEF EndInv
  <2> QED
    BY <2>1 DEF TellInv, EndedIsTold
<1> QED
  BY <1>2, <1>3, <1>4 DEF TellInv

(* The page stays as it is; calls that nobody awaits come and go, but no   *)
(* chat comes, and sessions may expire.                                    *)
LEMMA AsideTells ==
  ASSUME TellInv, UNCHANGED <<sessionId, ended, awaits, shown>>,
         \A s : server'[s] = "ended" => server[s] = "ended",
         \A c \in calls' : c \in calls \/ c.kind = "analytics",
         \A c \in calls : c.id = awaits => c \in calls'
  PROVE  TellInv'
<1>1. NewsOfSessions'
  BY DEF TellInv, NewsOfSessions
<1>2. Apologised' <=> Apologised
  BY DEF Apologised
<1>3. OldChats'
  BY <1>2 DEF TellInv, OldChats
<1>4. EndedIsTold'
  BY <1>2 DEF TellInv, EndedIsTold
<1> QED
  BY <1>1, <1>3, <1>4 DEF TellInv

LEMMA CustomerTells ==
  ASSUME CallInv, EndInv, TellInv, NewChat \/ DialogNewChat \/ SendMessage
  PROVE  TellInv'
<1>0. doing = "nothing" /\ UNCHANGED <<sessionId, ended, server>>
  BY DEF NewChat, DialogNewChat, SendMessage, Busy, serverVars
<1>1. \A c \in calls : c.id # awaits
  <2>1. awaits = 0 /\ sent \in Nat
    BY <1>0 DEF CallInv, AwaitsTheRightCall, PageTypeOK
  <2> QED
    BY <2>1 DEF CallInv, NumbersAreFresh
<1>2. \E kind, s : Fetch(calls, kind, s)
  BY DEF NewChat, DialogNewChat, SendMessage, Starts, Says
<1>3. Apologised => Apologised'
  <2>1. CASE shown' = shown
    BY <2>1 DEF Apologised
  <2>2. CASE Says(calls, sessionId, shown)
    <3>1. [role |-> "user", session |-> sessionId, id |-> sent + 1] \in Entry
      BY DEF Entry, CallInv, PageTypeOK
    <3> QED
      BY <2>2, <3>1, AppendKeepsApologies DEF Says, CallInv
  <2> QED
    BY <2>1, <2>2 DEF NewChat, DialogNewChat, SendMessage
<1> QED
  BY <1>0, <1>1, <1>2, <1>3, FetchTells

LEMMA SettledTells ==
  ASSUME CallInv, EndInv, TellInv, AnswerArrives \/ FetchFails
  PROVE  TellInv'
<1>1. PICK c \in calls, outcome \in Outcomes, rest \in SUBSET calls :
          /\ Settles(outcome, c, rest)
          /\ \/ outcome = c.phase /\ rest = calls \ {c}
             \/ outcome = "error" /\ rest = IF Answered(c) THEN calls \ {c} ELSE calls
  BY SettledStep
<1>2. /\ c.id = awaits /\ c.kind = AwaitedKind
      /\ c.kind # "create" => c.session = sessionId
      /\ \A d \in calls : d.id = awaits => d = c
      /\ server' = server
      /\ Answered(c) => rest = calls \ {c}
  BY <1>1 DEF Settles, GoesOn, serverVars, CallInv, AwaitsTheRightCall, NumbersAreFresh
<1>3. CASE AfterDelete(rest)
  <2>1. c.kind = "delete"
    BY <1>2, <1>3 DEF AfterDelete, AwaitedKind
  <2>2. /\ Fetch(rest, "create", NoSession) /\ sessionId' = sessionId /\ ended' = ended
        /\ Apologised' <=> Apologised
    BY <1>3 DEF AfterDelete, Apologised
  <2> QED
    BY <1>2, <2>1, <2>2, FetchTells
\* Nothing of a creation is left that was answered.
<1>4. \A d \in rest : ~(d.kind = "create" /\ d.phase = "ok")
  BY <1>2 DEF TellInv, NewsOfSessions, Answered, Outcomes
<1>5. CASE AfterCreate(outcome, c.session, rest) /\ outcome = "ok"
  <2>1. /\ c.kind = "create" /\ c.phase = "ok" /\ sessionId' = c.session
    BY <1>1, <1>2, <1>5 DEF AfterCreate, AwaitedKind
  <2>2. \A d \in calls' : \/ d \in rest
                          \/ d.id = awaits' /\ d.phase = "sent"
    BY <1>5 DEF AfterCreate, Says, Fetch, Idle, NewCall
  <2>3. /\ server[c.session] # "ended"
        /\ \A d \in calls : d.kind = "chat" => d.session # c.session
    BY <2>1 DEF TellInv, NewsOfSessions
  <2>4. NewsOfSessions'
    BY <1>4, <2>2 DEF NewsOfSessions
  <2>5. OldChats'
    BY <2>1, <2>2, <2>3 DEF OldChats
  <2>6. EndedIsTold'
    BY <1>2, <2>1, <2>3 DEF EndedIsTold
  <2> QED
    BY <2>4, <2>5, <2>6 DEF TellInv
<1>6. CASE Idle(rest) /\ Apologised'
  BY <1>4, <1>6 DEF Idle, TellInv, NewsOfSessions, OldChats, EndedIsTold
<1>7. CASE AfterCreate(outcome, c.session, rest) /\ outcome # "ok"
  <2>1. /\ c.kind = "create" /\ Idle(rest) /\ sessionId' = sessionId /\ ended' = ended
        /\ Apologised' <=> Apologised
    BY <1>2, <1>7 DEF AfterCreate, AwaitedKind, Apologised
  <2>2. NewsOfSessions'
    BY <1>4, <2>1 DEF NewsOfSessions, Idle
  <2>3. OldChats'
    BY <1>2, <2>1 DEF OldChats, Idle, TellInv
  <2>4. EndedIsTold'
    BY <1>2, <2>1 DEF EndedIsTold, TellInv, EndInv
  <2> QED
    BY <2>2, <2>3, <2>4 DEF TellInv
<1>8. CASE AfterChat(outcome, c.over, rest) /\ outcome # "ok"
  <2>1. Idle(rest) /\ Shows("sorry")
    BY <1>8 DEF AfterChat
  <2>2. [role |-> "sorry", session |-> sessionId, id |-> awaits] \in Entry
    BY DEF Entry, CallInv, PageTypeOK
  <2>3. Apologised'
    BY <2>1, <2>2, AppendKeepsApologies DEF Shows, CallInv
  <2> QED
    BY <1>6, <2>1, <2>3
<1>9. CASE AfterChat(outcome, c.over, rest) /\ outcome = "ok"
  <2>1. /\ c.kind = "chat" /\ Idle(rest) /\ sessionId' = sessionId
        /\ ended' = c.over /\ ~ended /\ Shows("assistant")
    BY <1>2, <1>9 DEF AfterChat, AwaitedKind, CallInv, AwaitsTheRightCall
  <2>2. [role |-> "assistant", session |-> sessionId, id |-> awaits] \in Entry
    BY DEF Entry, CallInv, PageTypeOK
  <2>3. Apologised => Apologised'
    BY <2>1, <2>2, AppendKeepsApologies DEF Shows, CallInv
  <2>4. \A d \in rest : d.id # awaits
    BY <1>1, <1>2, <1>9 DEF Answered, Outcomes
  <2>5. NewsOfSessions'
    BY <1>4, <2>1 DEF NewsOfSessions, Idle
  <2>6. OldChats'
    BY <2>1, <2>3, <2>4 DEF OldChats, Idle, TellInv
  <2>7. EndedIsTold'
    BY <1>2, <2>1, <2>3 DEF EndedIsTold, TellInv
  <2> QED
    BY <2>5, <2>6, <2>7 DEF TellInv
<1> QED
  BY <1>1, <1>3, <1>5, <1>7, <1>8, <1>9 DEF Settles, GoesOn

LEMMA ReloadTells ==
  ASSUME Reload
  PROVE  TellInv'
<1>1. sessionId' = NoSession
  BY DEF Reload
<1>2. \A d \in calls' : d.phase # "ok"
  BY DEF Reload, Fetch, NewCall, Answered, Outcomes
<1> QED
  BY <1>1, <1>2 DEF TellInv, NewsOfSessions, OldChats, EndedIsTold

(* The service works on a call without ending a conversation.              *)
LEMMA WorksTells ==
  ASSUME CallInv, EndInv, TellInv, NEW c, NEW d, Works(c, d),
         ~(d.kind = "create" /\ d.phase = "ok"),
         \A s \in issued : server'[s] = "ended" => server[s] = "ended"
  PROVE  TellInv'
<1>1. /\ c \in calls /\ d.id = c.id /\ d.kind = c.kind
      /\ c.kind # "create" => d.session = c.session
      /\ \A e \in calls' : e = d \/ e \in calls
      /\ \A e \in calls : e = c \/ e \in calls'
      /\ UNCHANGED <<sessionId, ended, awaits, shown>>
  BY DEF Works, pageVars
<1>2. Apologised' <=> Apologised
  BY <1>1 DEF Apologised
<1>3. NewsOfSessions'
  BY <1>1 DEF TellInv, NewsOfSessions, CallInv, CallsMakeSense
<1>4. OldChats'
  BY <1>1, <1>2 DEF TellInv, OldChats
<1>5. EndedIsTold'
  <2>1. \A e \in calls : e.over => e \in calls'
    BY <1>1 DEF Works, EndInv, Answered, Outcomes
  <2> QED
    BY <1>1, <1>2, <2>1 DEF TellInv, EndedIsTold, CallInv, AwaitsTheRightCall
<1> QED
  BY <1>3, <1>4, <1>5 DEF TellInv

(* A new session is open, and no call speaks of it yet. *)
LEMMA CreateSessionTells ==
  ASSUME CallInv, EndInv, TellInv, NEW c \in calls, CreateSession(c)
  PROVE  TellInv'
<1>1. PICK t \in SessionIds \ issued :
          /\ server' = [server EXCEPT ![t] = "active"] /\ AnsweredWith(c, "ok", t)
  BY Zenon DEF CreateSession, AnsweredWith
<1>2. c.kind = "create" /\ ~Answered(c)
  BY DEF CreateSession, Answered, Outcomes
<1>3. PICK d :
          /\ Works(c, d) /\ d.kind = "create" /\ d.phase = "ok" /\ d.session = t /\ d.id = c.id
          /\ calls' = IF Listened(c) THEN (calls \ {c}) \cup {d} ELSE calls \ {c}
  BY <1>1, <1>2, AnswerWorks
<1>4. /\ UNCHANGED <<sessionId, ended, awaits, shown>>
      /\ Apologised' <=> Apologised
  BY <1>3 DEF Works, pageVars, Apologised
<1>5. /\ server[t]' # "ended"
      /\ \A s \in issued : server'[s] = server[s]
      /\ \A e \in calls : e.kind = "chat" => e.session # t
  BY <1>1 DEF CallInv, PageTypeOK, CallsMakeSense
<1>6. NewsOfSessions'
  <2>1. d \in calls' => d.id = awaits
    BY <1>2, <1>3, ListenedIsAwaited DEF CallInv, NumbersAreFresh
  <2> QED
    BY <1>1, <1>3, <1>4, <1>5, <2>1 DEF TellInv, NewsOfSessions, CallInv, CallsMakeSense
<1>7. OldChats'
  BY <1>3, <1>4 DEF TellInv, OldChats
<1>8. EndedIsTold'
  <2>1. \A e \in calls : e.over => e \in calls'
    BY <1>2, <1>3 DEF EndInv, Answered, Outcomes
  <2> QED
    BY <1>4, <1>5, <2>1 DEF TellInv, EndedIsTold, CallInv, AwaitsTheRightCall
<1> QED
  BY <1>6, <1>7, <1>8 DEF TellInv

(* The turn that ends a conversation tells the page that awaits it; if it  *)
(* awaits another call, it apologised for this one.                        *)
LEMMA FinishChatTells ==
  ASSUME CallInv, EndInv, TellInv, NEW c \in calls, FinishChat(c)
  PROVE  TellInv'
<1>1. PICK after \in {"active", "ended"} :
          /\ server' = [server EXCEPT ![c.session] = after]
          /\ Answer(c, "ok", c.session, after = "ended")
  BY DEF FinishChat
<1>2. /\ c.kind = "chat" /\ ~Answered(c) /\ c.session \in issued
  BY DEF FinishChat, Answered, Outcomes, CallInv, CallsMakeSense
<1> DEFINE d == Settled(c, "ok", c.session, after = "ended")
<1>3. /\ d.kind = "chat" /\ d.session = c.session /\ d.id = c.id
      /\ d.over = (after = "ended")
  BY <1>2, AnsweredFields
<1>4. /\ calls' = IF Listened(c) THEN (calls \ {c}) \cup {d} ELSE calls \ {c}
      /\ UNCHANGED pageVars
  BY <1>1, AnswerEffect
<1> HIDE DEF d
<1>5. /\ UNCHANGED <<sessionId, ended, awaits, shown>>
      /\ Apologised' <=> Apologised
  BY <1>4 DEF pageVars, Apologised
<1>6. \A s \in issued : server'[s] = IF s = c.session THEN after ELSE server[s]
  BY <1>1 DEF CallInv, PageTypeOK
<1>7. NewsOfSessions'
  BY <1>2, <1>3, <1>4, <1>5, <1>6 DEF TellInv, NewsOfSessions, CallInv, CallsMakeSense
<1>8. OldChats'
  BY <1>2, <1>3, <1>4, <1>5 DEF TellInv, OldChats
<1>9. EndedIsTold'
  <2>1. \A e \in calls : e.over => e \in calls'
    BY <1>2, <1>4 DEF EndInv, Answered, Outcomes
  <2>2. CASE sessionId = c.session /\ after = "ended"
    <3>1. CASE c.id = awaits
      <4>1. d \in calls' /\ d.id = awaits' /\ d.over
        BY <1>3, <1>4, <1>5, <2>2, <3>1 DEF Listened
      <4> QED
        BY <4>1 DEF EndedIsTold
    <3>2. CASE c.id # awaits
      <4>1. sessionId # NoSession
        BY <1>2, <2>2, NoSessionAssumption DEF CallInv, PageTypeOK
      <4>2. Apologised'
        BY <1>2, <1>5, <2>2, <3>2, <4>1 DEF TellInv, OldChats
      <4> QED
        BY <4>2 DEF EndedIsTold
    <3> QED
      BY <3>1, <3>2
  <2>3. CASE ~(sessionId = c.session /\ after = "ended")
    BY <1>5, <1>6, <2>1, <2>3 DEF TellInv, EndedIsTold, CallInv, AwaitsTheRightCall
  <2> QED
    BY <2>2, <2>3
<1> QED
  BY <1>7, <1>8, <1>9 DEF TellInv

LEMMA ServeTells ==
  ASSUME CallInv, EndInv, TellInv, NEW c \in calls, Serve(c)
  PROVE  TellInv'
<1>0. server \in [SessionIds -> {"absent", "active", "ended"}]
  BY DEF CallInv, PageTypeOK
<1>1. CASE CreateSession(c)
  BY <1>1, CreateSessionTells
<1>2. CASE FinishChat(c)
  BY <1>2, FinishChatTells
<1>3. ASSUME NEW outcome, AnsweredWith(c, outcome, c.session), ~Answered(c),
             ~(c.kind = "create" /\ outcome = "ok"),
             \A s \in issued : server'[s] = "ended" => server[s] = "ended"
      PROVE  TellInv'
  <2>1. PICK d : Works(c, d) /\ d.kind = c.kind /\ d.phase = outcome
    BY <1>3, AnswerWorks
  <2> QED
    BY <1>3, <2>1, WorksTells
<1>4. ASSUME NEW phase \in {"queued", "running"}, Moved(c, phase),
             c.phase \in {"sent", "queued"}, server' = server
      PROVE  TellInv'
  <2>1. PICK d : Works(c, d) /\ d.phase = phase
    BY <1>4, MovedWorks
  <2> QED
    BY <1>4, <2>1, WorksTells
<1>5. CASE DeleteSession(c)
  <2>1. /\ AnsweredWith(c, "ok", c.session) /\ ~Answered(c) /\ c.kind # "create"
        /\ server' = [server EXCEPT ![c.session] = "absent"]
    BY <1>5, Zenon DEF DeleteSession, AnsweredWith, Answered, Outcomes, Removed
  <2>2. \A s \in issued : server'[s] = "ended" => server[s] = "ended"
    BY <1>0, <2>1 DEF CallInv, PageTypeOK
  <2> QED
    BY <1>3, <2>1, <2>2
<1>6. CASE GetAnalytics(c)
  <2>1. PICK outcome : AnsweredWith(c, outcome, c.session)
    BY <1>6, Zenon DEF GetAnalytics, AnsweredWith
  <2>2. c.kind = "analytics" /\ ~Answered(c) /\ server' = server
    BY <1>6 DEF GetAnalytics, serverVars, Answered, Outcomes
  <2> QED
    BY <1>3, <2>1, <2>2
<1>9. CASE Refuse(c)
  <2>1. AnsweredWith(c, "error", c.session)
    BY <1>9, Zenon DEF Refuse, AnsweredWith
  <2>2. ~Answered(c) /\ server' = server
    BY <1>9 DEF Refuse, serverVars
  <2> QED
    BY <1>3, <2>1, <2>2
<1>7. CASE AdmitChat(c)
  <2>1. /\ c.kind = "chat" /\ c.phase = "sent" /\ server' = server /\ ~Answered(c)
    BY <1>7 DEF AdmitChat, serverVars, Answered, Outcomes
  <2>2. Moved(c, "queued") \/ \E outcome : AnsweredWith(c, outcome, c.session)
    BY <1>7, Zenon DEF AdmitChat, AnsweredWith
  <2> QED
    BY <1>3, <1>4, <2>1, <2>2
<1>8. CASE BeginChat(c)
  <2>1. /\ c.kind = "chat" /\ c.phase = "queued" /\ server' = server /\ ~Answered(c)
    BY <1>8 DEF BeginChat, serverVars, Answered, Outcomes, CallInv, CallsMakeSense
  <2>2. Moved(c, "running") \/ \E outcome : AnsweredWith(c, outcome, c.session)
    BY <1>8, Zenon DEF BeginChat, AnsweredWith
  <2> QED
    BY <1>3, <1>4, <2>1, <2>2
<1> QED
  BY <1>1, <1>2, <1>5, <1>6, <1>7, <1>8, <1>9 DEF Serve

LEMMA Next_TellInv == CallInv /\ EndInv /\ TellInv /\ [Next]_vars => TellInv'
<1> SUFFICES ASSUME CallInv, EndInv, TellInv, [Next]_vars PROVE TellInv'
  OBVIOUS
<1>1. CASE OpenAnalytics
  <2>1. \A c \in calls' : c \in calls \/ c.kind = "analytics"
    BY <1>1 DEF OpenAnalytics, NewCall
  <2> QED
    BY <1>1, <2>1, AsideTells DEF OpenAnalytics, serverVars
<1>2. CASE AnalyticsArrive
  <2>1. \A c \in calls : c.id = awaits => c \in calls'
    BY <1>2 DEF AnalyticsArrive, CallInv, NumbersAreFresh
  <2> QED
    BY <1>2, <2>1, AsideTells DEF AnalyticsArrive, serverVars
<1>3. CASE CallLost
  BY <1>3, AsideTells DEF CallLost, Listened, pageVars, serverVars
<1>4. CASE CloseDialog \/ UNCHANGED vars
  BY <1>4, AsideTells DEF CloseDialog, vars, pageVars, serverVars
<1>5. CASE \E s \in SessionIds : Expire(s)
  <2>1. PICK t \in SessionIds : server' = [server EXCEPT ![t] = "absent"]
    BY <1>5 DEF Expire, Removed
  <2>2. \A s : server'[s] = "ended" => server[s] = "ended"
    BY <2>1 DEF CallInv, PageTypeOK
  <2> QED
    BY <1>5, <2>2, AsideTells DEF Expire, pageVars
<1> QED
  BY <1>1, <1>2, <1>3, <1>4, <1>5, CustomerTells, SettledTells, ReloadTells, ServeTells
     DEF Next

(* EndedIsTold: the page takes messages for a conversation that is over    *)
(* only until the answer that says so arrives, or after an apology: every  *)
(* turn that may end it is the one the page awaits, or one it gave up.     *)
THEOREM PageEndedIsTold == Spec => []EndedIsTold
<1>1. Init => TellInv
  BY DEF Init, TellInv, NewsOfSessions, OldChats, EndedIsTold
<1>2. TellInv => EndedIsTold
  BY DEF TellInv
<1> QED
  BY <1>1, <1>2, Init_CallInv, Next_CallInv, Init_EndInv, Next_EndInv, Next_TellInv, PTL
     DEF Spec

=============================================================================
