----------------------------- MODULE MCSimulate -----------------------------
(* Time in units of five seconds (a pause of the enricher is one unit).    *)
(* Two functions; the log group of the second ends in the id of the first. *)
EXTENDS Simulate

CONSTANTS resize, thumbResize

MCEndsIn == {<<thumbResize, resize>>}
=============================================================================
