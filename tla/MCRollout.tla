----------------------------- MODULE MCRollout ------------------------------
(* Two requests; the times keep the order of the real ones: 2 s + 25 s are *)
(* within the grace of 30 s, and 5 s more for the metrics server are not.  *)
EXTENDS Rollout

CONSTANTS r1, r2

MCRequest == {r1, r2}
=============================================================================
