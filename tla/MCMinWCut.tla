----------------------------- MODULE MCMinWCut ------------------------------
(* Every call graph of three functions, cycles included, with every choice *)
(* of parents the wiring order can leave, and two sizes of function.       *)
EXTENDS MinWCut, TLC

CONSTANTS f1, f2, f3

MCFn == {f1, f2, f3}

Pairs == {<<f, g>> \in MCFn \X MCFn : f # g}

(* Parent is what the last AddChild wrote: any caller. *)
MCParents(E) ==
    {p \in [MCFn -> MCFn \cup {NoFn}] :
        \A f \in MCFn : IF \E g \in MCFn : <<g, f>> \in E
                        THEN <<p[f], f>> \in E
                        ELSE p[f] = NoFn}

(* Without telemetry, or with a handler that runs three times as often     *)
(* and as long as its timeout; transfer free, or each edge its price.      *)
MCApps ==
    UNION {{[functions |-> <<f1, f2, f3>>, edges |-> E, parent |-> p,
             bytes |-> [e \in E |-> IF e[2] = f3 THEN 2 ELSE 1],
             mem |-> m, timeout |-> [f \in MCFn |-> 1],
             avgDuration |-> [f \in MCFn |-> IF f = f2 THEN x[1] ELSE 0],
             rate |-> [f \in MCFn |-> IF f = f2 THEN x[1] ELSE 0],
             critPath |-> <<f1, f2, f3>>, maxMem |-> 2, maxLat |-> 5,
             hop |-> 1, transferPrice |-> x[2]] :
               p \in MCParents(E), m \in [MCFn -> {1, 2}] \cup [MCFn -> {1, 3}],
               x \in {<<0, 0>>, <<3, 0>>, <<0, 1>>}} :
           E \in SUBSET Pairs}
=============================================================================
