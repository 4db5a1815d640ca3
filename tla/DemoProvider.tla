---------------------------- MODULE DemoProvider ----------------------------
(***************************************************************************)
(* The local provider (app/infrastructure/demo_provider.py): it answers    *)
(* when no remote model is configured, and instead of one that fails.  Its *)
(* answer depends on the message, on what is known of the lead and on the  *)
(* clock; it keeps no state between two messages.                          *)
(***************************************************************************)
EXTENDS Conversation

(* The one objection it knows. *)
ASSUME DemoObjection == "price" \in Objections

(* What a message is taken for: the first of the checks of _respond that   *)
(* matches.  A call is asked for unless a visit is.                        *)
Intent(m) ==
    IF "stop" \in m.patterns THEN "stop"
    ELSE IF "injection" \in m.patterns THEN "injection"
    ELSE IF "goodbye" \in m.patterns THEN "goodbye"
    ELSE IF "busy" \in m.patterns THEN "callback"
    ELSE IF "call" \in m.patterns /\ "visit" \notin m.patterns THEN "callback"
    ELSE IF "not_interested" \in m.patterns THEN "not_interested"
    ELSE IF "human" \in m.patterns THEN "human"
    ELSE IF "visit" \in m.patterns THEN "visit"
    ELSE IF "unknown" \in m.patterns THEN "unknown"
    ELSE IF "expensive" \in m.patterns THEN "expensive"
    ELSE "enquiry"

(* An answer that only speaks, and keeps what the message says. *)
Speaks(m) ==
    [claims |-> {}, wording |-> {}, action |-> "none", slot |-> Malformed,
     followUpAt |-> None, shouldEnd |-> FALSE, endReason |-> None,
     unknown |-> FALSE, updates |-> m.extracts, objection |-> None]

Bids(m, reason) ==
    [Speaks(m) EXCEPT !.action = "end_conversation", !.shouldEnd = TRUE,
                      !.endReason = reason]

Given(m, lead, f) == m.extracts[f] # None \/ lead[f] # None

(* The answers that quote prices: to the question, and before the question *)
(* for the budget.                                                         *)
QuotesPrices(m, lead) ==
    \/ "price" \in m.patterns
    \/ /\ m.patterns \cap {"location", "greeting"} = {}
       /\ Given(m, lead, "configuration") /\ ~Given(m, lead, "budget_raw")

(* Mutant of AnswersCallback: the time of day is lost. *)
AnswersCallbackByDay(m, at) ==
    IF at = None THEN Speaks(m)
    ELSE [Speaks(m) EXCEPT !.action = "schedule_follow_up",
                           !.followUpAt = at - TimeOfDay(at) + 1,
                           !.shouldEnd = TRUE, !.endReason = "follow_up_requested"]

(* Without a day or a time the customer is asked for it, and the           *)
(* conversation goes on.                                                   *)
AnswersCallback(m, at) ==
    IF at = None THEN Speaks(m)
    ELSE [Speaks(m) EXCEPT !.action = "schedule_follow_up", !.followUpAt = at,
                           !.shouldEnd = TRUE, !.endReason = "follow_up_requested"]

AnswersVisit(m, at) ==
    IF at = None THEN Speaks(m)
    ELSE [Speaks(m) EXCEPT !.action = "book_site_visit", !.slot = at]

AnswersEnquiry(m, lead) ==
    IF QuotesPrices(m, lead)
        THEN [Speaks(m) EXCEPT !.claims = Prices, !.wording = {"price", "onwards",
                                                               "budget"}]
        ELSE Speaks(m)

(* generate_turn. *)
DemoTurn(m, lead, now) ==
    LET intent == Intent(m)
    IN  CASE intent = "stop" -> Bids(m, "do_not_contact")
          [] intent = "injection" -> [Speaks(m) EXCEPT !.updates = NothingKnown]
          [] intent = "goodbye" -> Bids(m, "customer_ended")
          [] intent = "callback" -> AnswersCallback(m, NamedAt(m, now))
          [] intent = "not_interested" -> Bids(m, "not_interested")
          [] intent = "human" ->
                 [Speaks(m) EXCEPT !.action = "escalate_to_human",
                                   !.shouldEnd = TRUE, !.endReason = "human_handoff"]
          [] intent = "visit" -> AnswersVisit(m, NamedAt(m, now))
          [] intent = "unknown" -> [Speaks(m) EXCEPT !.unknown = TRUE]
          [] intent = "expensive" -> [Speaks(m) EXCEPT !.objection = "price"]
          [] intent = "enquiry" -> AnswersEnquiry(m, lead)

=============================================================================
