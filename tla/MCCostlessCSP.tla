--------------------------- MODULE MCCostlessCSP ---------------------------
(* Paths of up to three functions, with and without the calls between      *)
(* them, next to a function off the path that may call into it.            *)
EXTENDS CostlessCSP

CONSTANTS f1, f2, f3, f4

MCFn == {f1, f2, f3, f4}

Calls == {<<f1, f2>>, <<f2, f3>>, <<f4, f2>>, <<f3, f4>>, <<f3, f2>>}

MCParents(E) ==
    {p \in [MCFn -> MCFn \cup {NoFn}] :
        \A f \in MCFn : IF \E g \in MCFn : <<g, f>> \in E
                        THEN <<p[f], f>> \in E
                        ELSE p[f] = NoFn}

MCPaths == {<<>>, <<f1>>, <<f1, f2, f3>>}

(* One function may be larger than the others, or than the limit; one may  *)
(* be slow or called more often than the entry; transfer may be charged.   *)
MCApps ==
    UNION {{[functions |-> <<f1, f2, f3, f4>>, edges |-> E, parent |-> p,
             bytes |-> [e \in E |-> IF e[2] = f3 THEN 3 ELSE 1],
             mem |-> [f \in MCFn |-> IF f = m[1] THEN m[2] ELSE 1],
             timeout |-> [f \in MCFn |-> 1],
             avgDuration |-> [f \in MCFn |-> IF f = f2 THEN x ELSE 0],
             rate |-> [f \in MCFn |-> IF f = f3 THEN x ELSE 0],
             critPath |-> c, maxMem |-> 3, maxLat |-> 5,
             hop |-> 1, transferPrice |-> t] :
               p \in MCParents(E), m \in {f1, f2, f3} \X {2, 3, 4},
               x \in {0, 2}, t \in {0, 1}, c \in MCPaths} :
           E \in SUBSET Calls}
=============================================================================
