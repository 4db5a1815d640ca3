------------------------- MODULE MCRequestPipeline -------------------------
(***************************************************************************)
(* An instance of RequestPipeline for TLC: four requests, two at a time,   *)
(* of which the limiter lets one through in a second, and a window of      *)
(* three samples, so that the oldest falls out.  Three steps of a report   *)
(* to four ticks of the clock: latencies of 0 to 4 ticks are reported as   *)
(* 0, 1, 2, 2 and 3, rounded up, from half way, down and not at all.       *)
(***************************************************************************)
EXTENDS RequestPipeline

CONSTANTS a1, h1, h2

MCAddresses == {a1}
MCHandlers == {h1, h2}

PipelineSymmetry == Permutations(Handlers)

MCInstants == {0, 1, 3, 4}

=============================================================================
