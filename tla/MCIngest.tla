------------------------------ MODULE MCIngest ------------------------------
(* Three functions and an id that names none.                              *)
EXTENDS Ingest, TLC

CONSTANTS a, b, c

MCFn == {a, b, c}

Chain == {<<a, b>>, <<b, c>>}
Star == {<<a, b>>, <<a, c>>, <<a, Unknown>>}
Diamond == {<<a, b>>, <<a, c>>, <<b, c>>}
Cycle == {<<a, b>>, <<b, a>>, <<c, c>>, <<Unknown, a>>}

MCPaths == {<<>>, <<a, b, c>>, <<c, Unknown, a>>, <<b, b>>}

(* Memory of its own or the provider's or neither; estimates for all or    *)
(* for some.                                                               *)
MCYamls ==
    {[mem |-> [f \in MCFn |-> IF f = b THEN 8 ELSE 0], providerMem |-> size,
      providerTimeout |-> 0,
      timeout |-> [f \in MCFn |-> 0],
      avgDuration |-> [f \in MCFn |-> IF f = a THEN 0 ELSE 3],
      count |-> counts, calls |-> E, path |-> path,
      endsIn |-> ids, maxMem |-> 0, maxLat |-> 20, hop |-> 0, price |-> 0] :
        size \in {0, 2}, E \in {{}, Chain, Star, Diamond, Cycle}, path \in MCPaths,
        ids \in {{}, {<<b, a>>, <<c, a>>}},
        counts \in {[f \in MCFn |-> 0], [f \in MCFn |-> IF f = a THEN 2 ELSE 4]}}

(* 512 MB, 30 s, 1024 MB, 30 s and 20 ms in units of 128 MB and 100 ms,    *)
(* the hop rounded up.                                                     *)
MCDefaults == [mem |-> 4, timeout |-> 300, maxMem |-> 8, maxLat |-> 300, hop |-> 1]

MCTelemetry ==
    [f \in MCFn |-> CASE f = a -> [avgDuration |-> 2, count |-> 2]
                      [] f = b -> [avgDuration |-> 4, count |-> 2]
                      [] f = c -> [avgDuration |-> 5, count |-> 6]]
=============================================================================
