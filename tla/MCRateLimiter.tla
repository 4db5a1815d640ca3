--------------------------- MODULE MCRateLimiter ---------------------------
(***************************************************************************)
(* An instance of RateLimiter for TLC.  The window is three seconds of     *)
(* four ticks; the instants leave every remainder of a second as the wait  *)
(* that is rounded, halves to either side among them, and the very end of  *)
(* a window.                                                               *)
(***************************************************************************)
EXTENDS RateLimiter, TLC

CONSTANTS a1, a2

MCAddresses == {a1, a2}

AddressSymmetry == Permutations(Addresses)

MCInstants == {0, 1, 2, 4, 6, 11, 12, 13}

=============================================================================
