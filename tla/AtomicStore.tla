---------------------------- MODULE AtomicStore ----------------------------
(***************************************************************************)
(* What the session store promises its callers, without locks, queues,     *)
(* working copies or clocks: a map from session ids to contents in which   *)
(* every committed transaction looks like ONE atomic step that takes the   *)
(* content the map holds at that moment to a content the transaction body  *)
(* may produce from it.  No update is computed from a stale content.       *)
(*                                                                         *)
(* The abstraction is honest about what the code does not promise: an      *)
(* entry that was removed while a transaction was running on it comes back *)
(* when that transaction commits (Reinstate).                              *)
(***************************************************************************)
CONSTANTS SessionIds,   \* every id that may ever be handed out
          Contents,     \* what a session may hold
          NewContents,  \* what a session may hold when it is created
          Step,         \* <<before, after>>: what a transaction body may do
          Absent        \* the sentinel for "no entry"; not one of Contents

VARIABLES content,   \* content[s]: what the map holds under s, or Absent
          issued     \* the ids handed out so far; an id is handed out once

vars == <<content, issued>>

TypeOK ==
    /\ content \in [SessionIds -> Contents \cup {Absent}]
    /\ issued \subseteq SessionIds

Init ==
    /\ content = [s \in SessionIds |-> Absent]
    /\ issued = {}

(* Removing entries: a delete, or the expiry of one or of several of them. *)
Survivors(removed) ==
    [s \in SessionIds |-> IF s \in removed THEN Absent ELSE content[s]]

Remove ==
    /\ \E removed \in SUBSET SessionIds : content' = Survivors(removed)
    /\ UNCHANGED issued

(* A new session under a fresh id; expired ones may be swept away by it. *)
Create(s) ==
    /\ s \notin issued
    /\ issued' = issued \cup {s}
    /\ \E removed \in SUBSET SessionIds, c \in NewContents :
           content' = [Survivors(removed) EXCEPT ![s] = c]

(* A committed transaction, computed from the content it replaces. *)
Update(s) ==
    /\ content[s] # Absent
    /\ \E c \in Contents :
           /\ <<content[s], c>> \in Step
           /\ content' = [content EXCEPT ![s] = c]
    /\ UNCHANGED issued

(* A transaction that commits after its entry was removed. *)
Reinstate(s) ==
    /\ s \in issued
    /\ content[s] = Absent
    /\ \E before, c \in Contents :
           /\ <<before, c>> \in Step
           /\ content' = [content EXCEPT ![s] = c]
    /\ UNCHANGED issued

Next ==
    \/ Remove
    \/ \E s \in SessionIds : Create(s) \/ Update(s) \/ Reinstate(s)

Spec == Init /\ [][Next]_vars

=============================================================================
