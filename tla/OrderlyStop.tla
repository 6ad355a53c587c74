---------------------------- MODULE OrderlyStop -----------------------------
(***************************************************************************)
(* What a process of OptiFuse promises about being stopped: it accepts     *)
(* work until it closes, then nothing more; what it has accepted by then   *)
(* is given a bounded time, and only work that used it all is cut off.     *)
(* GrpcServer and GatewayProcess implement it, each in its own way.        *)
(***************************************************************************)
EXTENDS Naturals

CONSTANTS
    Work,       \* calls or requests
    Patience    \* how long accepted work may go on after the closing, a number

VARIABLES
    stage,   \* open, closing or closed
    left,    \* of the patience
    fate     \* of each piece of work: none, waiting, answered, left, refused, lost

vars == <<stage, left, fate>>

Init ==
    /\ stage = "open" /\ left = 0
    /\ fate = [w \in Work |-> "none"]

Becomes(w, f) == fate' = [fate EXCEPT ![w] = f] /\ UNCHANGED <<stage, left>>

Lost == [w \in Work |-> IF fate[w] = "waiting" THEN "lost" ELSE fate[w]]

Accept(w) == stage = "open" /\ fate[w] = "none" /\ Becomes(w, "waiting")

(* Nobody listens any more, or not yet: it has never been accepted. *)
Refuse(w) == fate[w] = "none" /\ Becomes(w, "refused")

Answer(w) ==
    /\ stage # "closed" /\ fate[w] = "waiting"
    /\ Becomes(w, "answered")

(* Who asked is gone, perhaps for several at once: nobody waits for the    *)
(* answer.                                                                 *)
Leave(S) ==
    /\ \A w \in S : fate[w] = "waiting"
    /\ fate' = [w \in Work |-> IF w \in S THEN "left" ELSE fate[w]]
    /\ UNCHANGED <<stage, left>>

Close ==
    /\ stage = "open"
    /\ stage' = "closing" /\ left' = Patience
    /\ UNCHANGED fate

Wait ==
    /\ stage = "closing" /\ left > 0
    /\ left' = left - 1
    /\ UNCHANGED <<stage, fate>>

(* Everybody is answered, or the patience is at its end. *)
Closed ==
    /\ stage = "closing"
    /\ (\E w \in Work : fate[w] = "waiting") => left = 0
    /\ stage' = "closed" /\ left' = 0 /\ fate' = Lost

(* A process that still accepts may fail. *)
Fail ==
    /\ stage = "open"
    /\ stage' = "closed" /\ left' = 0 /\ fate' = Lost

Next ==
    \/ \E w \in Work : Accept(w) \/ Refuse(w) \/ Answer(w)
    \/ \E S \in SUBSET Work : Leave(S)
    \/ Close \/ Wait \/ Closed \/ Fail

Spec == Init /\ [][Next]_vars

(* Closing comes to its end. *)
FairSpec == Spec /\ WF_vars(Wait \/ Closed)
=============================================================================
