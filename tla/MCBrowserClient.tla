--------------------------- MODULE MCBrowserClient ---------------------------
(***************************************************************************)
(* An instance of BrowserClient for TLC.                                   *)
(***************************************************************************)
EXTENDS BrowserClient

CONSTANTS s1, s2, s3

MCSessions == {s1, s2, s3}

=============================================================================
