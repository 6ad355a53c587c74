--------------------------- MODULE MCOptimizePlan ---------------------------
(* Four algorithms; two values of cost and latency make every tie and      *)
(* every dominance.  NoFusion never fails.                                 *)
EXTENDS OptimizePlan

CONSTANTS NoFusion, Singleton, GreedyTP, CostlessCSP

MCAlgorithms == <<NoFusion, Singleton, GreedyTP, CostlessCSP>>

MCOutcomes(name) ==
    {[cost |-> c, latency |-> l, feasible |-> b, error |-> FALSE] :
        c \in 1..2, l \in 1..2, b \in BOOLEAN}
    \cup
    IF name \in {GreedyTP, CostlessCSP}
    THEN {[cost |-> 0, latency |-> l, feasible |-> FALSE, error |-> TRUE] : l \in {0, 2}}
    ELSE {}
=============================================================================
