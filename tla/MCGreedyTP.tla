----------------------------- MODULE MCGreedyTP -----------------------------
(* A path of three functions and one function off it, every subset of six  *)
(* calls that run along the path, off it and back.                         *)
EXTENDS GreedyTP

CONSTANTS f1, f2, f3, f4

MCFn == {f1, f2, f3, f4}

MCIdRank == (f1 :> 2) @@ (f2 :> 1) @@ (f3 :> 4) @@ (f4 :> 3)

Calls == {<<f1, f2>>, <<f2, f3>>, <<f2, f4>>, <<f3, f4>>, <<f4, f2>>, <<f3, f1>>}

MCParents(E) ==
    {p \in [MCFn -> MCFn \cup {NoFn}] :
        \A f \in MCFn : IF \E g \in MCFn : <<g, f>> \in E
                        THEN <<p[f], f>> \in E
                        ELSE p[f] = NoFn}

(* No path, a path too slow without a cut, and paths of three functions    *)
(* whose limit allows every cut, one and none.                             *)
MCPaths == {[path |-> <<>>,           max |-> 9, transfer |-> 0],
            [path |-> <<f1, f2>>,     max |-> 1, transfer |-> 0],
            [path |-> <<f1, f2, f3>>, max |-> 5, transfer |-> 1],
            [path |-> <<f1, f2, f3>>, max |-> 4, transfer |-> 0],
            [path |-> <<f1, f2, f3>>, max |-> 3, transfer |-> 1]}

(* 128 MB each, but for one that may have 1 GB, or more than the limit.    *)
MCMemories == {[f \in MCFn |-> IF f = big THEN m ELSE 1] : big \in {f1, f2, f4}, m \in {1, 8, 9}}

MCApps ==
    UNION {{[functions |-> <<f1, f2, f3, f4>>, edges |-> E, parent |-> p,
             bytes |-> [e \in E |-> IF e[2] = f3 THEN 2 ELSE 1],
             mem |-> m, timeout |-> [f \in MCFn |-> 1],
             avgDuration |-> [f \in MCFn |-> 0], rate |-> [f \in MCFn |-> 0],
             critPath |-> c.path, maxMem |-> 8, maxLat |-> c.max,
             hop |-> 1, transferPrice |-> c.transfer] :
               p \in MCParents(E), m \in MCMemories, c \in MCPaths} :
           E \in SUBSET Calls}
=============================================================================
