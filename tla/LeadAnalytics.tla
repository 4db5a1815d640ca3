---------------------------- MODULE LeadAnalytics ----------------------------
(***************************************************************************)
(* How promising a lead looks (app/services/analytics.py): pure operators  *)
(* over what a session records of its conversation.                        *)
(***************************************************************************)
EXTENDS LeadRules, FiniteSets

InterestLevels == {"unknown", "low", "medium", "high", "disqualified"}

(* The fields a sales adviser wants to know. *)
QualifyingFields == {"configuration", "budget_raw", "purchase_purpose",
                     "purchase_timeline", "preferred_location"}

(* In percent of the qualifying fields. *)
Completeness(conv) ==
    20 * Cardinality({f \in QualifyingFields : conv.lead[f] # None})

Points(condition, n) == IF condition THEN n ELSE 0

Known(conv, f) == conv.lead[f] # None

LeastOf(m, n) == IF m <= n THEN m ELSE n

Disqualified(conv) == conv.doNotContact \/ conv.endReason = "not_interested"

(* What is earned, before it is cut to 0..100. *)
Earned(conv) ==
    5 + Points(Known(conv, "configuration"), 10)
      + Points(Known(conv, "budget_raw"), 15)
      + Points(Known(conv, "purchase_purpose"), 10)
      + Points(Known(conv, "purchase_timeline"), 15)
      + Points(Known(conv, "preferred_location"), 5)
      + Points(conv.visit = "booked", 30)
      + Points(conv.visit = "requested", 12)
      + Points(conv.followUp, 10)
      + Points(conv.escalated, 5)
      - LeastOf(10, 3 * Len(conv.objections))

(* _lead_score. *)
LeadScore(conv) ==
    IF conv.doNotContact \/ conv.status = "do_not_contact" THEN 0
    ELSE IF conv.endReason = "not_interested" THEN 5
    ELSE IF Earned(conv) < 0 THEN 0 ELSE LeastOf(Earned(conv), 100)

Interest(conv) ==
    IF Disqualified(conv) THEN "disqualified"
    ELSE IF LeadScore(conv) >= 70 THEN "high"
    ELSE IF LeadScore(conv) >= 40 THEN "medium"
    ELSE IF LeadScore(conv) > 5 THEN "low" ELSE "unknown"

=============================================================================
