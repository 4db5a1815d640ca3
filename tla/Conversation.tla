---------------------------- MODULE Conversation ----------------------------
(***************************************************************************)
(* One conversation: what a session records about it, and what one chat    *)
(* turn makes of it (app/services/agent.py, chat, with the response guard  *)
(* of app/services/guardrails.py).  Pure operators, no state of its own.   *)
(*                                                                         *)
(* Of a reply the model keeps what it claims: that a visit is booked, that *)
(* something is a fact which is not confirmed, and the amounts of money it *)
(* names.  The language and the channel are left out.                      *)
(***************************************************************************)
EXTENDS CustomerText, LeadAnalytics

CONSTANTS References,  \* the references secrets.token_hex may yield
          Naive,       \* a follow-up time without a time zone
          Prices,      \* the confirmed starting prices: 1.35 and 1.75 crore
          MaxMessages  \* how much of a transcript is kept: 80

ASSUME ReferencesAssumption == None \notin References
ASSUME NaiveAssumption == Naive \notin Nat \cup {None}
ASSUME PricesAssumption == Prices \subseteq Values
ASSUME MaxMessagesAssumption == MaxMessages \in Nat \ {0}
ASSUME ClaimsAreNoAmounts == {"booked", "unsupported"} \cap Values = {}

(* What a reply may claim, and one entry of the transcript.                *)
Claims == {"booked", "unsupported"} \cup Values

Entry == [role : {"user", "assistant"}, claims : SUBSET Claims]

FromUser == [role |-> "user", claims |-> {}]

FromAssistant(claims) == [role |-> "assistant", claims |-> claims]

(* ConversationSession and its LeadProfile. *)
Conversation ==
    [status : Statuses,
     endReason : EndReasons \cup {None},
     doNotContact : BOOLEAN,
     followUp : BOOLEAN,
     followUpAt : Nat \cup {None},
     escalated : BOOLEAN,
     visit : VisitStatuses,
     visitAt : Nat \cup {None},
     reference : References \cup {None},
     lead : Lead,
     objections : Seq(Objections),
     questions : Seq(Questions),
     interest : InterestLevels,
     transcript : Seq(Entry)]

(* A new session has greeted its customer. *)
NewConversation ==
    [status |-> "active", endReason |-> None, doNotContact |-> FALSE,
     followUp |-> FALSE, followUpAt |-> None, escalated |-> FALSE,
     visit |-> "not_requested", visitAt |-> None, reference |-> None,
     lead |-> NothingKnown, objections |-> <<>>, questions |-> <<>>,
     interest |-> "unknown", transcript |-> <<FromAssistant({})>>]

(* What a provider answers (AgentTurn): what its reply claims, and the     *)
(* words the guard looks for around an amount of money.                    *)
Turn == [claims : SUBSET Claims,
         wording : SUBSET {"budget", "price", "onwards"},
         action : ActionTypes,
         slot : Nat \cup {Malformed},
         followUpAt : Nat \cup {None, Naive},
         shouldEnd : BOOLEAN,
         endReason : EndReasons \cup {None},
         unknown : BOOLEAN,
         updates : Lead,
         objection : Objections \cup {None}]

-----------------------------------------------------------------------------
(* The response guard (enforce).                                           *)

(* _money_allowed: a confirmed price, or the customer's own budget called  *)
(* a budget.                                                               *)
MoneyAllowed(amount, turn, message, conv) ==
    \/ amount \in Prices
    \/ /\ amount \in message.amounts \/ amount = conv.lead["budget_crore"]
       /\ "budget" \in turn.wording

Violates(turn, message, conv) ==
    LET amounts == turn.claims \cap Values
    IN  \/ "unsupported" \in turn.claims
        \/ "booked" \in turn.claims /\ turn.action # "book_site_visit"
        \/ \E v \in amounts : ~MoneyAllowed(v, turn, message, conv)
        \/ amounts # {} /\ "price" \in turn.wording /\ "onwards" \notin turn.wording

(* A blocked reply becomes the one that quotes the confirmed prices. *)
Guarded(turn, message, conv) ==
    IF Violates(turn, message, conv)
        THEN [turn EXCEPT !.claims = Prices, !.wording = {"price", "onwards"},
                          !.unknown = TRUE, !.action = "none",
                          !.shouldEnd = FALSE, !.endReason = None]
        ELSE turn

-----------------------------------------------------------------------------
(* What a turn does to the conversation.                                   *)

Active(conv) == conv.status = "active"

(* Mutants of Stopped: the conversation stays open, and the preference is  *)
(* not recorded.                                                           *)
StoppedStaysOpen(conv) ==
    [conv EXCEPT !.doNotContact = TRUE, !.followUp = FALSE, !.followUpAt = None]

StoppedUnrecorded(conv) ==
    [conv EXCEPT !.followUp = FALSE, !.followUpAt = None,
                 !.status = "do_not_contact", !.endReason = "do_not_contact"]

(* A recognised stop request on an active conversation. *)
Stopped(conv) ==
    [conv EXCEPT !.doNotContact = TRUE,
                 !.followUp = FALSE, !.followUpAt = None,
                 !.status = "do_not_contact", !.endReason = "do_not_contact"]

Learned(conv, turn, message) ==
    [conv EXCEPT
        !.lead = ApplyUpdates(@, SafeUpdates(turn.updates, message.mentions, @)),
        !.objections = IF turn.objection = None THEN @ ELSE Noted(@, turn.objection),
        !.questions = IF turn.unknown THEN Noted(@, message.question) ELSE @]

(* Mutant of Visited: a confirmed visit leaves the conversation open. *)
VisitedStaysOpen(conv, result) ==
    IF result.success
        THEN [conv EXCEPT !.visit = "booked", !.visitAt = result.confirmedAt,
                          !.reference = result.reference]
        ELSE [conv EXCEPT !.visit = "failed"]

(* _execute_booking, given what the booking tool answered. *)
Visited(conv, result) ==
    IF result.success
        THEN [conv EXCEPT !.visit = "booked", !.visitAt = result.confirmedAt,
                          !.reference = result.reference,
                          !.status = "completed",
                          !.endReason = "site_visit_booked"]
        ELSE [conv EXCEPT !.visit = "failed"]

InTheFuture(at, now) == at # None /\ at > now

(* A callback in the future; any other time changes nothing. *)
FollowedUp(conv, turn, now) ==
    IF InTheFuture(turn.followUpAt, now)
        THEN [conv EXCEPT !.followUp = TRUE, !.followUpAt = turn.followUpAt,
                          !.status = "follow_up_scheduled",
                          !.endReason = "follow_up_requested"]
        ELSE conv

Escalated(conv) ==
    [conv EXCEPT !.escalated = TRUE, !.status = "escalated",
                 !.endReason = "human_handoff"]

(* The provider ends the conversation, for the reason it gives. *)
Ended(conv, turn) ==
    LET reason == IF turn.endReason = None THEN "customer_ended"
                                           ELSE turn.endReason
    IN  IF reason = "do_not_contact"
            THEN [conv EXCEPT !.endReason = reason, !.doNotContact = TRUE,
                              !.status = "do_not_contact"]
            ELSE [conv EXCEPT !.endReason = reason, !.status = "completed"]

Ends(turn) ==
    \/ turn.action = "end_conversation"
    \/ turn.action = "none" /\ turn.shouldEnd

(* The conversation after the action of a guarded turn; result is what the *)
(* booking tool answers if it is called.                                   *)
AfterAction(conv, turn, now, result) ==
    CASE turn.action = "book_site_visit" -> Visited(conv, result)
      [] turn.action = "schedule_follow_up" -> FollowedUp(conv, turn, now)
      [] turn.action = "escalate_to_human" -> Escalated(conv)
      [] Ends(turn) -> Ended(conv, turn)
      [] OTHER -> conv

(* Mutant of Said: the provider's words stand. *)
SaidUnchecked(turn, now, result) == turn.claims

(* What the reply of a guarded turn claims in the end: the booking tool's  *)
(* answer and the demand for another callback time replace the provider's  *)
(* words.                                                                  *)
Said(turn, now, result) ==
    IF turn.action = "book_site_visit"
        THEN IF result.success THEN {"booked"} ELSE {}
    ELSE IF turn.action = "schedule_follow_up" /\ ~InTheFuture(turn.followUpAt, now)
        THEN {}
    ELSE turn.claims

(* messages[-n:] *)
LastOf(n, entries) ==
    IF Len(entries) <= n THEN entries
    ELSE SubSeq(entries, Len(entries) - n + 1, Len(entries))

(* Mutant of Recorded: the interest level is forgotten. *)
RecordedStale(conv, claims) ==
    [conv EXCEPT !.transcript = LastOf(MaxMessages,
                     @ \o <<FromUser, FromAssistant(claims)>>)]

(* The end of every turn of an open conversation: the transcript grows by  *)
(* the message and the reply, and loses its oldest entries; the interest   *)
(* level follows the facts.                                                *)
Recorded(conv, claims) ==
    [conv EXCEPT !.transcript = LastOf(MaxMessages,
                     @ \o <<FromUser, FromAssistant(claims)>>),
                 !.interest = Interest(conv)]

(* Comparing a time without a zone with the clock raises TypeError. *)
Raises(turn) ==
    turn.action = "schedule_follow_up" /\ turn.followUpAt = Naive

-----------------------------------------------------------------------------
(* What a conversation may look like between two turns: exactly one story  *)
(* is told by the status, the reason and the flags of the profile, and the *)
(* transient "requested" of a running booking is never stored.             *)
Coherent(conv) ==
    /\ Active(conv) <=> conv.endReason = None
    /\ conv.status = "do_not_contact" <=> conv.doNotContact
    /\ conv.status = "do_not_contact" <=> conv.endReason = "do_not_contact"
    /\ conv.status = "follow_up_scheduled" <=> conv.followUp
    /\ conv.followUp <=> conv.followUpAt # None
    /\ conv.status = "escalated" <=> conv.escalated
    /\ conv.visit = "booked" =>
           /\ conv.status = "completed"
           /\ conv.endReason = "site_visit_booked"
    /\ conv.visit = "booked" <=> conv.visitAt # None
    /\ conv.visit = "booked" <=> conv.reference # None
    /\ conv.visit # "requested"

(* What the replies in a transcript claim is true of the conversation with *)
(* a customer who sent these messages: no unconfirmed fact, no amount of   *)
(* money but a confirmed price or one the customer named, no booked visit  *)
(* unless there is one, and then the confirmation is the last word.        *)
Heard(messages, f, value) == \E m \in messages : <<f, value>> \in m.mentions

Backed(claims, conv, messages) ==
    /\ "unsupported" \notin claims
    /\ "booked" \in claims => conv.visit = "booked"
    /\ \A v \in claims \cap Values :
           \/ v \in Prices \/ Heard(messages, "budget_crore", v)
           \/ \E m \in messages : v \in m.amounts

Honest(conv, messages) ==
    LET replies == conv.transcript
    IN  /\ replies # <<>>
        /\ \A i \in DOMAIN replies : Backed(replies[i].claims, conv, messages)
        /\ conv.visit = "booked" => "booked" \in replies[Len(replies)].claims

(* What is known of the lead was said by its customer.                     *)
Supported(conv, messages) ==
    \A f \in CheckedFields :
        conv.lead[f] # None => Heard(messages, f, conv.lead[f])

=============================================================================
