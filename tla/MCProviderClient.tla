-------------------------- MODULE MCProviderClient --------------------------
(***************************************************************************)
(* An instance of ProviderClient for TLC: two chats ask at the same time,  *)
(* with the configured two retries.                                        *)
(***************************************************************************)
EXTENDS ProviderClient

CONSTANTS c1, c2

MCCallers == {c1, c2}

=============================================================================
