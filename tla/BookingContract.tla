-------------------------- MODULE BookingContract --------------------------
(***************************************************************************)
(* What the booking tool promises: a slot has at most one owner, and a     *)
(* claim, once made, is never taken back, never changes owner and never    *)
(* changes its reference.                                                  *)
(***************************************************************************)
CONSTANTS Slots,       \* the keys of the slots that may be claimed
          Sessions,    \* who may claim them
          References   \* what confirms a claim

VARIABLE claims   \* claims[k]: who owns slot k, for the slots that are owned

Claim == [session : Sessions, reference : References]

Init == claims = [k \in {} |-> k]

ClaimSlot(k) ==
    /\ k \notin DOMAIN claims
    /\ DOMAIN claims' = DOMAIN claims \cup {k}
    /\ claims'[k] \in Claim
    /\ claims' = [j \in DOMAIN claims' |->
                     IF j = k THEN claims'[k] ELSE claims[j]]

Next == \E k \in Slots : ClaimSlot(k)

Spec == Init /\ [][Next]_claims

=============================================================================
