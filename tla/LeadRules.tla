----------------------------- MODULE LeadRules -----------------------------
(***************************************************************************)
(* How a turn changes what is known about the lead: _safe_updates and      *)
(* _apply_updates of app/services/agent.py.                                *)
(*                                                                         *)
(* A lead is a function from the fields of the profile to what is known.   *)
(* A message is what the rules see of a customer's text: the values it     *)
(* literally mentions, and the text as it is kept in unknown_questions     *)
(* (phone numbers redacted, cut to 160 characters).                        *)
(***************************************************************************)
EXTENDS Domain, Sequences

CONSTANTS Values,     \* what a field may hold
          Questions,  \* the texts kept of unanswered questions
          Objections, \* the objections a provider may name
          NoteLimit   \* how many objections and questions are kept: 10

ASSUME NoteLimitAssumption == NoteLimit \in Nat
ASSUME ValuesAssumption == None \notin Values

(* The fields a provider may only fill with what the customer said, and    *)
(* the fields it may fill freely.                                          *)
CheckedFields == {"phone", "configuration", "budget_crore"}
FreeFields == {"name", "budget_raw", "purchase_purpose", "purchase_timeline",
               "preferred_location"}
Fields == CheckedFields \cup FreeFields

Lead == [Fields -> Values \cup {None}]

NothingKnown == [f \in Fields |-> None]

Mentions == SUBSET (CheckedFields \X Values)

(* A value for a checked field that is neither what the profile holds nor  *)
(* in the message.                                                         *)
Unsupported(f, update, mentions, lead) ==
    /\ f \in CheckedFields
    /\ update # None
    /\ update # lead[f]
    /\ <<f, update>> \notin mentions

(* Mutant of SafeUpdates: the provider is believed. *)
SafeUpdatesTrusting(updates, mentions, lead) == updates

(* _safe_updates: unsupported values are dropped; the wording of a budget  *)
(* goes with its amount.                                                   *)
SafeUpdates(updates, mentions, lead) ==
    [f \in Fields |->
        LET amount == IF f = "budget_raw" THEN "budget_crore" ELSE f
        IN  IF Unsupported(amount, updates[amount], mentions, lead)
                THEN None
                ELSE updates[f]]

(* Mutant of ApplyUpdates: the absence of a value overwrites, too. *)
ApplyUpdatesErasing(lead, updates) == updates

(* _apply_updates: a value overwrites, its absence does not.  The purpose  *)
(* "unknown" counts as absent.                                             *)
ApplyUpdates(lead, updates) ==
    [f \in Fields |-> IF updates[f] = None THEN lead[f] ELSE updates[f]]

(* Objections and questions: new ones go to the end, the oldest fall out.  *)
Noted(notes, note) ==
    IF \E i \in DOMAIN notes : notes[i] = note THEN notes
    ELSE LET longer == Append(notes, note)
         IN  IF Len(longer) > NoteLimit THEN Tail(longer) ELSE longer

=============================================================================
