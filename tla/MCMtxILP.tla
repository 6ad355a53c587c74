------------------------------ MODULE MCMtxILP ------------------------------
(* Every call graph of three functions up to four calls with every choice  *)
(* of parents, and critical paths that follow the calls or do not.         *)
EXTENDS MtxILP, TLC

CONSTANTS f1, f2, f3

MCFn == {f1, f2, f3}

Pairs == {<<f, g>> \in MCFn \X MCFn : f # g}

MCGraphs == {E \in SUBSET Pairs : Cardinality(E) <= 4}

MCParents(E) ==
    {p \in [MCFn -> MCFn \cup {NoFn}] :
        \A f \in MCFn : IF \E g \in MCFn : <<g, f>> \in E
                        THEN <<p[f], f>> \in E
                        ELSE p[f] = NoFn}

MCPaths == {<<f1, f2, f3>>, <<f1, f3>>, <<f2>>}

(* The second function is the large one or the small one, and slow or not; *)
(* the budget is too small, or leaves room for no hop or for one; calls    *)
(* may have a price.                                                       *)
MCApps ==
    UNION {{[functions |-> <<f1, f2, f3>>, edges |-> E, parent |-> p,
             bytes |-> [e \in E |-> 1],
             mem |-> [f \in MCFn |-> IF f = f2 THEN m2 ELSE 2],
             timeout |-> [f \in MCFn |-> 1],
             avgDuration |-> [f \in MCFn |-> IF f = f2 THEN x[1] ELSE 0],
             rate |-> [f \in MCFn |-> IF f = f2 THEN x[1] ELSE 0],
             critPath |-> path, maxMem |-> 3, maxLat |-> lat,
             hop |-> 1, transferPrice |-> x[2]] :
               p \in MCParents(E), m2 \in {1, 3}, path \in MCPaths,
               lat \in {2, 4}, x \in {<<0, 0>>, <<2, 1>>}} :
           E \in MCGraphs}
=============================================================================
