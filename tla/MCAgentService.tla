--------------------------- MODULE MCAgentService ---------------------------
(***************************************************************************)
(* Instances of AgentService for TLC.  It is a Monday morning, shortly     *)
(* before the half past ten slot and then just after it; the session       *)
(* lifetime lies between the second and the third instant.                 *)
(***************************************************************************)
EXTENDS AgentService, TLC

CONSTANTS s1, s2, t1, t2, r1, v1, v2, q1

MCSession1 == {s1}
MCSessions2 == {s1, s2}
MCTasks == {t1, t2}
MCNewContents == {NewConversation}
MCStep == Conversation \X Conversation
MCReferences == {r1}
MCValues == {v1, v2}
MCPrices == {v2}
MCQuestions == {q1}
MCObjections == {"price"}

SessionSymmetry == Permutations(SessionIds) \cup Permutations(Tasks)

HalfPastTen == 10 * Hour + 30 * Minute
Eleven == 11 * Hour

MCStart == HalfPastTen - 50
MCInstants == {MCStart, HalfPastTen - 10, HalfPastTen + 50}
MCTtl == 60
MCUnavailable == {Eleven}

-----------------------------------------------------------------------------
(* Messages.                                                               *)

Greets == [stop |-> FALSE, mentions |-> {}, amounts |-> {}, question |-> q1,
           patterns |-> {}, extracts |-> NothingKnown, day |-> None, time |-> None]
GivesBudget == [Greets EXCEPT !.mentions = {<<"budget_crore", v1>>}, !.amounts = {v1},
                              !.patterns = {"expensive"},
                              !.extracts["budget_crore"] = v1,
                              !.extracts["budget_raw"] = v1]
Stops == [Greets EXCEPT !.stop = TRUE, !.patterns = {"stop"}]

(* What the demo provider understands. *)
OnDay(word) == [word |-> word, on |-> None, again |-> None]
OnWeekday(n) == [word |-> "weekday", on |-> n]
At(hour, minute, marker) == [hour |-> hour, minute |-> minute, marker |-> marker]

Asks(pattern, day, time) ==
    [Greets EXCEPT !.patterns = {pattern}, !.day = day, !.time = time]

VisitsTomorrow == Asks("visit", OnDay("tomorrow"), At(10, 30, "am"))
VisitsTuesday == Asks("visit", OnWeekday(1), At(10, 30, "baje"))
IsBusy == Asks("busy", None, None)
CallsTomorrow == Asks("call", OnDay("tomorrow"), At(3, 0, "baje"))
SaysTomorrow == [CallsTomorrow EXCEPT !.patterns = {}]

-----------------------------------------------------------------------------
(* Turns.                                                                  *)

Replies == [claims |-> {}, wording |-> {}, action |-> "none", slot |-> Malformed,
            followUpAt |-> None, shouldEnd |-> FALSE, endReason |-> None,
            unknown |-> FALSE, updates |-> NothingKnown, objection |-> None]

Acts(action) == [Replies EXCEPT !.action = action]

Books(slot) == [Acts("book_site_visit") EXCEPT !.slot = slot, !.claims = {"booked"}]
CallsBack(at) == [Acts("schedule_follow_up") EXCEPT !.followUpAt = at]
EndsWith(reason) == [Replies EXCEPT !.shouldEnd = TRUE, !.endReason = reason]

NotesPhone == [Replies EXCEPT !.updates["phone"] = v2, !.objection = "price"]
NotesBudget == [Replies EXCEPT !.updates["budget_crore"] = v1,
                               !.updates["budget_raw"] = v1]
NamesBudget == [Replies EXCEPT !.claims = {v1}, !.wording = {"budget"}]
NamesPrice == [Replies EXCEPT !.claims = {v2}, !.wording = {"price"}]
ClaimsVisit == [EndsWith("site_visit_booked") EXCEPT !.claims = {"booked"}]
EndsBadly == [EndsWith("do_not_contact") EXCEPT !.claims = {"unsupported"},
                                                !.action = "end_conversation"]

(* Many conversations compete for the calendar around midnight, with the   *)
(* demo provider alone.                                                    *)
BookingMessages == {VisitsTomorrow, VisitsTuesday, CallsTomorrow}
BookingTurns == {}
MidnightStart == Day - 50
MidnightInstants == {MidnightStart, Day - 10, Day + 50}
MidnightUnavailable == {Day + Eleven}

(* A customer is asked when to be called back, and answers.                *)
CallbackMessages == {IsBusy, SaysTomorrow, CallsTomorrow}

(* One conversation with everything a provider may answer. *)
LifecycleMessages == {GivesBudget, Stops}
LifecycleTurns ==
    {Replies, NotesPhone, NotesBudget, NamesBudget, NamesPrice,
     Books(HalfPastTen), Books(Malformed),
     CallsBack(Eleven), CallsBack(HalfPastTen), CallsBack(Naive),
     Acts("escalate_to_human"), Acts("end_conversation"),
     EndsWith("do_not_contact"), EndsWith("not_interested"),
     EndsWith("site_visit_booked"), EndsBadly, ClaimsVisit}

=============================================================================
