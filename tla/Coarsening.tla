----------------------------- MODULE Coarsening -----------------------------
(***************************************************************************)
(* What a greedy fusion promises, without the order it works in: starting  *)
(* from one block per function it only ever fuses two whole blocks, and    *)
(* only two that a call joins, that both fit the memory limit and whose    *)
(* fusion pays for itself.                                                 *)
(***************************************************************************)
EXTENDS FusionCost

VARIABLES app, blocks

vars == <<app, blocks>>

Fits(a, G) == \A f \in G : a.mem[f] <= a.maxMem

Init ==
    /\ Application(app)
    /\ blocks = {{f} : f \in Fn}

Fuse(G, H) ==
    /\ G # H
    /\ JoinedByCall(app, G, H)
    /\ Fits(app, G \cup H)
    /\ MergeIsProfitable(app, G, H)
    /\ blocks' = (blocks \ {G, H}) \cup {G \cup H}
    /\ UNCHANGED app

Next == \E G, H \in blocks : Fuse(G, H)

Spec == Init /\ [][Next]_vars
=============================================================================
