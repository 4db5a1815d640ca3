------------------------------ MODULE Domain ------------------------------
(***************************************************************************)
(* The enumerations of app/domain/models.py.                               *)
(***************************************************************************)
EXTENDS Integers

CONSTANT None   \* Python's None

Statuses == {"active", "follow_up_scheduled", "escalated", "completed",
             "do_not_contact"}

EndReasons == {"site_visit_booked", "follow_up_requested", "not_interested",
               "do_not_contact", "human_handoff", "customer_ended"}

VisitStatuses == {"not_requested", "requested", "booked", "failed"}

FailureReasons == {"past_slot", "closed_day", "invalid_slot",
                   "outside_business_hours", "slot_unavailable"}

ActionTypes == {"none", "book_site_visit", "schedule_follow_up",
                "escalate_to_human", "end_conversation"}

ASSUME NoneIsNoValue ==
    None \notin Nat \cup Statuses \cup EndReasons \cup VisitStatuses
                    \cup FailureReasons \cup ActionTypes

=============================================================================
