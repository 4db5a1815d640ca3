----------------------------- MODULE SessionAge -----------------------------
(***************************************************************************)
(* How old the session is that a request works on.                         *)
(*                                                                         *)
(* transaction (app/infrastructure/memory.py) compares the age of the      *)
(* session with its lifetime once, when it looks the session up; the wait  *)
(* for the lock and the body come after that, and the clock goes on.  To   *)
(* say what this leaves open, the specification of the store gets a        *)
(* history variable: the moment at which a request looked its session up.  *)
(***************************************************************************)
EXTENDS SessionStore

VARIABLE
    since   \* since[t]: when t looked up the session it is about; of an idle
            \* task the present moment (a history)

ageVars == <<vars, since>>

AgeInit == Init /\ since = [t \in Tasks |-> Start]

AgeNext ==
    /\ Next
    /\ since' = [t \in Tasks |->
                   IF pc[t] = "idle" \/ pc'[t] = "idle" THEN clock' ELSE since[t]]

AgeSpec == AgeInit /\ [][AgeNext]_ageVars

-----------------------------------------------------------------------------
(* Properties.                                                             *)

(* In this step a body starts on the session, or its result is stored.     *)
Used(s) ==
    \/ holder'[s] \notin {holder[s], NoTask}
    \/ sessions'[s] \notin {sessions[s], Absent}

(* A session that has expired is used by those requests only that looked   *)
(* it up while it was young, and then waited for it or were held up in     *)
(* their body: a request that comes later never gets hold of it, whatever  *)
(* is deleted, stored again or refreshed by others meanwhile.              *)
ExpiredServesEarlierOnly ==
    [][\A s \in ExpiredIds :
           Used(s) =>
               \E t \in Tasks :
                   /\ target[t] = s /\ pc'[t] # pc[t]
                   /\ since[t] <= sessions[s].updatedAt + Ttl]_ageVars

(* The inductive invariant behind it: every request under way on a stored  *)
(* session came within the lifetime of the last write.                     *)
YoungWhenLookedUp ==
    \A t \in Tasks :
        pc[t] # "idle" /\ sessions[target[t]] # Absent
            => since[t] <= sessions[target[t]].updatedAt + Ttl

AgeInv ==
    /\ since \in [Tasks -> Nat]
    /\ \A t \in Tasks : since[t] <= clock
    /\ YoungWhenLookedUp

=============================================================================
