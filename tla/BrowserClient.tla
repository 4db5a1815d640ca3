---------------------------- MODULE BrowserClient ----------------------------
(***************************************************************************)
(* The page in the customer's browser (app/static/app.js), the network     *)
(* between it and the service, and what the service does with its calls    *)
(* (app/api/routes.py).                                                    *)
(*                                                                         *)
(* The page runs one asynchronous function at a time that is guarded by    *)
(* state.busy, startSession or sendMessage; openAnalytics is not guarded,  *)
(* and answers of it arrive at any moment.  A fetch may fail although the  *)
(* service handles the call, now or later: the page then goes on, and      *)
(* nobody listens to the answer.                                           *)
(*                                                                         *)
(* Of a conversation the service knows here only whether it is open.       *)
(***************************************************************************)
EXTENDS Integers, Sequences, FiniteSets

CONSTANTS SessionIds,   \* every id the service may hand out
          NoSession,    \* null
          MaxCalls,     \* bound: the customer acts while fewer calls were made
          MaxMishaps    \* bound: failed fetches, refused deletes and reloads

ASSUME NoSessionAssumption == NoSession \notin SessionIds
ASSUME BoundsAssumption == MaxCalls \in Nat \ {0} /\ MaxMishaps \in Nat

VARIABLES
    sessionId,   \* state.sessionId
    ended,       \* state.ended
    doing,       \* what the function behind state.busy awaits
    awaits,      \* the number of the call it awaits, 0 for none
    asking,      \* the numbers of the analytics calls that are awaited
    analysable,  \* whether the analytics button is enabled
    dialog,      \* the session the open dialog is about, or NoSession
    shown,       \* the message list: who says it, in which session, and
                 \* which call it belongs to
    calls,       \* the calls on their way, at the service or on the way back:
                 \* id, kind, session, phase (or outcome), conversation_ended
    sent,        \* how many calls were made
    server,      \* what the service keeps of every session
    locks,       \* the sessions that have a lock
    issued,      \* the ids handed out so far
    mishaps      \* how many mishaps there were

pageVars == <<sessionId, ended, doing, awaits, asking, analysable, dialog, shown>>
serverVars == <<server, locks, issued>>
vars == <<pageVars, calls, sent, serverVars, mishaps>>

Ids == 1..(MaxCalls + 1)

(* How the service answers: as asked, with 404 or 410, with another error. *)
Outcomes == {"ok", "gone", "error"}

-----------------------------------------------------------------------------
(* Calls.                                                                  *)

NewCall(kind, s) ==
    [id |-> sent + 1, kind |-> kind, session |-> s, phase |-> "sent", over |-> FALSE]

(* A call is added to those of rest, and awaited by the guarded function.  *)
Fetch(rest, kind, s) ==
    /\ calls' = rest \cup {NewCall(kind, s)}
    /\ sent' = sent + 1
    /\ awaits' = sent + 1

Busy == doing # "nothing"

(* finally: setBusy(false). *)
Idle(rest) ==
    /\ doing' = "nothing"
    /\ awaits' = 0
    /\ calls' = rest
    /\ UNCHANGED sent

Mishap == mishaps < MaxMishaps /\ mishaps' = mishaps + 1

(* The customer can reach the page only while no modal dialog covers it.   *)
CustomerActs == dialog = NoSession /\ sent < MaxCalls

-----------------------------------------------------------------------------
(* startSession and sendMessage, up to their first await.                  *)

(* Mutant of Starts: the old session is not deleted. *)
StartsAfresh(next, deleteExisting) ==
    doing' = next /\ Fetch(calls, "create", NoSession)

Starts(next, deleteExisting) ==
    IF deleteExisting /\ sessionId # NoSession
        THEN doing' = "deleting" /\ Fetch(calls, "delete", sessionId)
        ELSE doing' = next /\ Fetch(calls, "create", NoSession)

NewChat ==
    /\ CustomerActs
    /\ ~Busy
    /\ Starts("creating", TRUE)
    /\ UNCHANGED <<sessionId, ended, asking, analysable, dialog, shown, serverVars,
                   mishaps>>

(* The message is shown at once, below what was shown before. *)
Says(rest, s, before) ==
    /\ doing' = "chatting"
    /\ Fetch(rest, "chat", s)
    /\ shown' = Append(before, [role |-> "user", session |-> s, id |-> sent + 1])

(* Mutant of SendMessage: a message may follow before the last is answered. *)
SendMessageAtOnce ==
    /\ CustomerActs
    /\ ~ended
    /\ sessionId # NoSession
    /\ Says(calls, sessionId, shown)
    /\ UNCHANGED <<sessionId, ended, asking, analysable, dialog, serverVars, mishaps>>

(* Without a session one is started first. *)
SendMessage ==
    /\ CustomerActs
    /\ ~Busy
    /\ ~ended
    /\ \/ /\ sessionId = NoSession
          /\ Starts("creatingToSend", FALSE)
          /\ UNCHANGED shown
       \/ /\ sessionId # NoSession
          /\ Says(calls, sessionId, shown)
    /\ UNCHANGED <<sessionId, ended, asking, analysable, dialog, serverVars, mishaps>>

-----------------------------------------------------------------------------
(* The rest of them, once the awaited fetch has settled; rest is what      *)
(* remains of the calls.                                                   *)

(* Whatever came of the deletion, a session is created. *)
AfterDelete(rest) ==
    /\ doing = "deleting"
    /\ doing' = "creating"
    /\ Fetch(rest, "create", NoSession)
    /\ UNCHANGED <<sessionId, ended, analysable, shown>>

Greeting(s) == [role |-> "greeting", session |-> s, id |-> 0]

(* Mutant of AfterCreate: the end of the last conversation is remembered. *)
AfterCreateStaysEnded(outcome, s, rest) ==
    /\ doing = "creating"
    /\ outcome = "ok"
    /\ sessionId' = s
    /\ analysable' = FALSE
    /\ shown' = <<Greeting(s)>>
    /\ Idle(rest)
    /\ UNCHANGED ended

(* The screen is cleared for the new conversation, and the message that    *)
(* waited for it is sent.  After a failure the old id stays.               *)
AfterCreate(outcome, s, rest) ==
    /\ doing \in {"creating", "creatingToSend"}
    /\ IF outcome = "ok"
          THEN /\ sessionId' = s
               /\ ended' = FALSE
               /\ analysable' = FALSE
               /\ IF doing = "creatingToSend"
                     THEN Says(rest, s, <<Greeting(s)>>)
                     ELSE shown' = <<Greeting(s)>> /\ Idle(rest)
          ELSE Idle(rest) /\ UNCHANGED <<sessionId, ended, analysable, shown>>

Shows(role) ==
    shown' = Append(shown, [role |-> role, session |-> sessionId, id |-> awaits])

(* Mutant of AfterChat: busy is reset after an answer only. *)
AfterChatStaysBusy(outcome, over, rest) ==
    /\ doing = "chatting"
    /\ IF outcome = "ok"
          THEN /\ Shows("assistant")
               /\ ended' = over
               /\ Idle(rest)
          ELSE /\ Shows("sorry")
               /\ calls' = rest
               /\ UNCHANGED <<ended, doing, awaits, sent>>
    /\ UNCHANGED <<sessionId, analysable>>

(* Mutant of AfterChat: the page does not look at conversation_ended. *)
AfterChatNeverEnds(outcome, over, rest) ==
    /\ doing = "chatting"
    /\ IF outcome = "ok"
          THEN Shows("assistant") /\ analysable' = TRUE /\ UNCHANGED sessionId
          ELSE /\ Shows("sorry")
               /\ sessionId' = IF outcome = "gone" THEN NoSession ELSE sessionId
               /\ UNCHANGED analysable
    /\ UNCHANGED ended
    /\ Idle(rest)

AfterChat(outcome, over, rest) ==
    /\ doing = "chatting"
    /\ IF outcome = "ok"
          THEN /\ Shows("assistant")
               /\ ended' = over
               /\ analysable' = TRUE
               /\ UNCHANGED sessionId
          ELSE /\ Shows("sorry")
               /\ sessionId' = IF outcome = "gone" THEN NoSession ELSE sessionId
               /\ UNCHANGED <<ended, analysable>>
    /\ Idle(rest)

GoesOn(outcome, c, rest) ==
    /\ \/ AfterDelete(rest)
       \/ AfterCreate(outcome, c.session, rest)
       \/ AfterChat(outcome, c.over, rest)
    /\ UNCHANGED <<asking, dialog, serverVars>>

Answered(c) == c.phase \in Outcomes

AnswerArrives ==
    \E c \in calls :
        /\ c.id = awaits
        /\ Answered(c)
        /\ GoesOn(c.phase, c, calls \ {c})
        /\ UNCHANGED mishaps

(* fetch rejects: an answer on its way is lost, a call on its way or at    *)
(* the service may still be handled.                                       *)
FetchFails ==
    \E c \in calls :
        /\ c.id = awaits
        /\ Mishap
        /\ GoesOn("error", c, IF Answered(c) THEN calls \ {c} ELSE calls)

-----------------------------------------------------------------------------
(* Analytics.                                                              *)

OpenAnalytics ==
    /\ CustomerActs
    /\ analysable
    /\ sessionId # NoSession
    /\ calls' = calls \cup {NewCall("analytics", sessionId)}
    /\ sent' = sent + 1
    /\ asking' = asking \cup {sent + 1}
    /\ UNCHANGED <<sessionId, ended, doing, awaits, analysable, dialog, shown,
                   serverVars, mishaps>>

(* An answer opens the dialog about the session that was asked about, or   *)
(* replaces what it shows; a failure is a banner.                          *)
AnalyticsArrive ==
    \E c \in calls :
        /\ c.id \in asking
        /\ Answered(c)
        /\ dialog' = IF c.phase = "ok" THEN c.session ELSE dialog
        /\ asking' = asking \ {c.id}
        /\ calls' = calls \ {c}
        /\ UNCHANGED <<sessionId, ended, doing, awaits, analysable, shown, sent,
                       serverVars, mishaps>>

CloseDialog ==
    /\ dialog # NoSession
    /\ dialog' = NoSession
    /\ UNCHANGED <<sessionId, ended, doing, awaits, asking, analysable, shown, calls,
                   sent, serverVars, mishaps>>

(* "Start new conversation" in the dialog. *)
DialogNewChat ==
    /\ dialog # NoSession
    /\ ~Busy
    /\ sent < MaxCalls
    /\ dialog' = NoSession
    /\ Starts("creating", TRUE)
    /\ UNCHANGED <<sessionId, ended, asking, analysable, shown, serverVars, mishaps>>

-----------------------------------------------------------------------------
(* The page is loaded again: nothing is remembered, nothing is awaited.    *)
Reload ==
    /\ sent < MaxCalls
    /\ Mishap
    /\ sessionId' = NoSession
    /\ ended' = FALSE
    /\ doing' = "creating"
    /\ asking' = {}
    /\ analysable' = FALSE
    /\ dialog' = NoSession
    /\ shown' = <<>>
    /\ Fetch({c \in calls : ~Answered(c)}, "create", NoSession)
    /\ UNCHANGED serverVars

(* A call that nobody waits for may never reach the service. *)
Listened(c) == c.id = awaits \/ c.id \in asking

CallLost ==
    \E c \in calls :
        /\ c.phase = "sent"
        /\ ~Listened(c)
        /\ calls' = calls \ {c}
        /\ UNCHANGED <<pageVars, sent, serverVars, mishaps>>

-----------------------------------------------------------------------------
(* The service.                                                            *)

Answer(c, outcome, s, over) ==
    /\ calls' = (calls \ {c}) \cup
                (IF Listened(c) THEN {[c EXCEPT !.phase = outcome, !.session = s,
                                                !.over = over]}
                                ELSE {})
    /\ UNCHANGED <<pageVars, sent>>

Stored(s) == server[s] # "absent"

CreateSession(c) ==
    /\ c.kind = "create" /\ c.phase = "sent"
    /\ \E s \in SessionIds \ issued :
           /\ server' = [server EXCEPT ![s] = "active"]
           /\ locks' = locks \cup {s}
           /\ issued' = issued \cup {s}
           /\ Answer(c, "ok", s, FALSE)
    /\ UNCHANGED mishaps

(* A session is removed together with its lock. *)
Removed(s) ==
    /\ server' = [server EXCEPT ![s] = "absent"]
    /\ locks' = locks \ {s}
    /\ UNCHANGED issued

DeleteSession(c) ==
    /\ c.kind = "delete" /\ c.phase = "sent"
    /\ Removed(c.session)
    /\ Answer(c, "ok", c.session, FALSE)
    /\ UNCHANGED mishaps

GetAnalytics(c) ==
    /\ c.kind = "analytics" /\ c.phase = "sent"
    /\ Answer(c, IF Stored(c.session) THEN "ok" ELSE "gone", c.session, FALSE)
    /\ UNCHANGED <<serverVars, mishaps>>

(* A call remains at the service. *)
Moved(c, phase) ==
    /\ calls' = (calls \ {c}) \cup {[c EXCEPT !.phase = phase]}
    /\ UNCHANGED <<pageVars, sent>>

(* A chat waits for the lock of its session; a session that was stored     *)
(* again after its removal has none, which is an internal error.           *)
AdmitChat(c) ==
    /\ c.kind = "chat" /\ c.phase = "sent"
    /\ \/ c.session \in locks /\ Moved(c, "queued")
       \/ ~Stored(c.session) /\ Answer(c, "gone", c.session, FALSE)
       \/ c.session \notin locks /\ Stored(c.session)
              /\ Answer(c, "error", c.session, FALSE)
    /\ UNCHANGED <<serverVars, mishaps>>

(* With the lock in hand it looks again; a closed conversation is answered. *)
BeginChat(c) ==
    /\ c.phase = "queued"
    /\ ~\E other \in calls : other.phase = "running" /\ other.session = c.session
    /\ \/ ~Stored(c.session) /\ Answer(c, "gone", c.session, FALSE)
       \/ server[c.session] = "ended" /\ Answer(c, "ok", c.session, TRUE)
       \/ server[c.session] = "active" /\ Moved(c, "running")
    /\ UNCHANGED <<serverVars, mishaps>>

(* Its turn is written back, even if the session was removed meanwhile.    *)
FinishChat(c) ==
    /\ c.phase = "running"
    /\ \E after \in {"active", "ended"} :
           /\ server' = [server EXCEPT ![c.session] = after]
           /\ Answer(c, "ok", c.session, after = "ended")
    /\ UNCHANGED <<locks, issued, mishaps>>

(* Rate limit, capacity, an unavailable provider: nothing is changed.  A   *)
(* refused deletion counts as a mishap.                                    *)
Refuse(c) ==
    /\ ~Answered(c)
    /\ IF c.kind = "delete" THEN Mishap ELSE UNCHANGED mishaps
    /\ Answer(c, "error", c.session, FALSE)
    /\ UNCHANGED serverVars

Expire(s) ==
    /\ Stored(s)
    /\ Removed(s)
    /\ UNCHANGED <<pageVars, calls, sent, mishaps>>

Serve(c) ==
    \/ CreateSession(c) \/ DeleteSession(c) \/ GetAnalytics(c)
    \/ AdmitChat(c) \/ BeginChat(c) \/ FinishChat(c) \/ Refuse(c)

-----------------------------------------------------------------------------
(* The page starts a session when it is loaded. *)
Init ==
    /\ sessionId = NoSession
    /\ ended = FALSE
    /\ doing = "creating"
    /\ awaits = 1
    /\ asking = {}
    /\ analysable = FALSE
    /\ dialog = NoSession
    /\ shown = <<>>
    /\ calls = {[id |-> 1, kind |-> "create", session |-> NoSession,
                 phase |-> "sent", over |-> FALSE]}
    /\ sent = 1
    /\ server = [s \in SessionIds |-> "absent"]
    /\ locks = {}
    /\ issued = {}
    /\ mishaps = 0

Next ==
    \/ NewChat \/ SendMessage \/ AnswerArrives \/ FetchFails
    \/ OpenAnalytics \/ AnalyticsArrive \/ CloseDialog \/ DialogNewChat
    \/ Reload \/ CallLost
    \/ \E c \in calls : Serve(c)
    \/ \E s \in SessionIds : Expire(s)

Spec == Init /\ [][Next]_vars

(* The service answers every call (AgentService, EveryTransactionEnds), and *)
(* answers arrive or their fetch fails.  The customer need not do anything. *)
ServeCall(n) == \E c \in calls : c.id = n /\ Serve(c)

Fairness ==
    /\ \A n \in Ids : WF_vars(ServeCall(n))
    /\ WF_vars(AnswerArrives)

FairSpec == Spec /\ Fairness

-----------------------------------------------------------------------------
(* Properties.                                                             *)

(* The screen shows one conversation, and every message of the customer is *)
(* followed by the answer to that very message, or by an apology, before   *)
(* the next: a late answer to an earlier message, or of an earlier         *)
(* conversation, is never taken for it.                                    *)
AnswersInPlace ==
    /\ \A i \in DOMAIN shown : shown[i].session = shown[1].session
    /\ \A i \in DOMAIN shown :
           shown[i].role = "user" =>
               IF i = Len(shown) THEN doing = "chatting" /\ shown[i].id = awaits
               ELSE shown[i + 1].role # "user" /\ shown[i + 1].id = shown[i].id
    /\ sessionId # NoSession /\ shown # <<>> => shown[1].session = sessionId

(* The page refuses further messages only when the conversation on the     *)
(* screen is over at the service.                                          *)
EndedIsTrue ==
    ended => sessionId # NoSession /\ server[sessionId] # "active"

(* The other way round: the page takes further messages for a conversation *)
(* that is over at the service only while the answer that says so is on    *)
(* its way, or after it had to apologise for a message of the conversation *)
(* on the screen, whose turn may have ended it unheard.                    *)
Apologised == \E i \in DOMAIN shown : shown[i].role = "sorry"

EndedIsTold ==
    sessionId # NoSession /\ server[sessionId] = "ended" /\ ~ended
        => Apologised \/ \E c \in calls : c.id = awaits /\ c.over

(* A session that the service keeps and that no page knows is the trace of *)
(* a mishap: a failed fetch, a refused deletion or a reload leaves one at  *)
(* most, and nothing else leaves any.                                      *)
Orphans ==
    {s \in SessionIds :
        Stored(s) /\ s # sessionId /\ ~\E c \in calls : c.session = s /\ Listened(c)}

OrphansNeedAMishap == Cardinality(Orphans) <= mishaps

(* The page never hangs: whatever fails, the form is usable again.         *)
EveryCallSettles == Busy ~> ~Busy

=============================================================================
