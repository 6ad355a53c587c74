------------------------------ MODULE MinWCut -------------------------------
(***************************************************************************)
(* MinWCut.Optimize (services/optimizer/internal/algo/minwcut.go): start   *)
(* from singletons and merge along call edges, the dearest transfer first. *)
(* Transfer is free by default, so all edges tie and, as sort.Slice is not *)
(* stable, the order among equals is any.                                  *)
(***************************************************************************)
EXTENDS FusionCost

CONSTANT Apps
ASSUME AppsAssumption == \A a \in Apps : Application(a)

VARIABLES
    app,          \* the *domain.Application, never written
    groups,       \* the partition under construction
    candidates,   \* the call edges not considered yet
    metrics       \* AlgorithmResult.Metrics, NoMetrics until Optimize returns

vars == <<app, groups, candidates, metrics>>

NoMetrics == <<>>

Init ==
    /\ app \in Apps
    /\ groups = Singletons(app)
    /\ candidates = app.edges
    /\ metrics = NoMetrics

(* sort.Slice by descending transfer cost. *)
First(c) ==
    \A d \in candidates :
        DataTransferCost(app, d[1], d[2]) <= DataTransferCost(app, c[1], c[2])

(* Mistakes: the caller's group not asked for its memory; a merge allowed  *)
(* that gains nothing.                                                     *)
MergeableByOneMemory(p, k) ==
    /\ p # k
    /\ GroupMemory(app, groups[k]) <= app.maxMem
    /\ MergeIsProfitable(app, groups[p], groups[k])

MergeableWithoutProfit(p, k) ==
    /\ p # k
    /\ GroupMemory(app, groups[p]) <= app.maxMem
    /\ GroupMemory(app, groups[k]) <= app.maxMem
    /\ ~MergeIsHarmful(app, groups[p], groups[k])

(* The two gates, for the groups at slots p and k. *)
Mergeable(p, k) ==
    /\ p # k
    /\ GroupMemory(app, groups[p]) <= app.maxMem
    /\ GroupMemory(app, groups[k]) <= app.maxMem
    /\ MergeIsProfitable(app, groups[p], groups[k])

(* A mistake: only the callee changes groups. *)
ConsiderTheCalleeAlone(c) ==
    /\ First(c)
    /\ candidates' = candidates \ {c}
    /\ \E p, k \in 1..Len(groups) :
          /\ c[1] \in groups[p]
          /\ c[2] \in groups[k]
          /\ groups' = IF Mergeable(p, k)
                       THEN [groups EXCEPT ![p] = @ \cup {c[2]}, ![k] = @ \ {c[2]}]
                       ELSE groups
    /\ UNCHANGED <<app, metrics>>

Consider(c) ==
    /\ First(c)
    /\ candidates' = candidates \ {c}
    /\ \E p, k \in 1..Len(groups) :
          /\ c[1] \in groups[p]
          /\ c[2] \in groups[k]
          /\ groups' = IF Mergeable(p, k) THEN MergeGroups(groups, p, k) ELSE groups
    /\ UNCHANGED <<app, metrics>>

(* A mistake: the metrics taken before the last merge. *)
ReturnEarly ==
    /\ metrics = NoMetrics
    /\ metrics' = CalculateMetrics(app, groups)
    /\ UNCHANGED <<app, groups, candidates>>

Return ==
    /\ candidates = {}
    /\ metrics = NoMetrics
    /\ metrics' = CalculateMetrics(app, groups)
    /\ UNCHANGED <<app, groups, candidates>>

Terminating == metrics # NoMetrics /\ UNCHANGED vars

Next ==
    \/ \E c \in candidates : Consider(c)
    \/ Return
    \/ Terminating

Spec == Init /\ [][Next]_vars

-----------------------------------------------------------------------------

(* The types of the state. *)
TypeOK ==
    /\ Application(app)
    /\ groups \in Seq(SUBSET Fn)
    /\ candidates \subseteq app.edges
    /\ metrics = NoMetrics \/ metrics = CalculateMetrics(app, groups)

(* The groups partition the functions after every merge: extending one     *)
(* slot and moving the last into the other's place (minwcut.go:91-92)      *)
(* loses no function, doubles none and leaves no empty group behind.       *)
Partition == IsPartition(groups)

(* A group of several functions fits the memory limit (minwcut.go:88).  A  *)
(* function alone may exceed it: it was deployed that way.                 *)
FusedGroupsFit ==
    \A i \in 1..Len(groups) :
        \A f, g \in groups[i] : f # g => app.mem[f] <= app.maxMem

(* The members of a group are connected by calls: no cut through a group   *)
(* would have been free of a call it makes in-process.                     *)
ConnectedByCalls ==
    \A i \in 1..Len(groups) : IsConnected(app, groups[i])

(* The local estimate the gate uses (MergeProfitUSD) is the exact change   *)
(* of the global objective (CalculateMetrics), whichever groups there are, *)
(* so every merge lowers the total: the gate never lets through one that   *)
(* the ranking then regrets.                                               *)
MergesLowerTheTotalCost ==
    [][groups' # groups =>
         \E p, k \in 1..Len(groups) :
            /\ p # k
            /\ groups' = MergeGroups(groups, p, k)
            /\ TotalCost(app, groups') =
                  TotalCost(app, groups) - MergeProfit(app, groups[p], groups[k])
            /\ TotalCost(app, groups') < TotalCost(app, groups)]_vars

(* What the user is told: fusing never costs more than deploying every     *)
(* function on its own.                                                    *)
NeverWorseThanNoFusion ==
    metrics # NoMetrics => metrics.totalCost <= TotalCost(app, Singletons(app))

(* A merge may only remove hops from the critical path, never add one,     *)
(* although the algorithm does not look at latency (minwcut.go:20-21).     *)
HopsNeverAdded ==
    [][CutPairs(app, groups') \subseteq CutPairs(app, groups)]_vars

(* The explanation CalculateTradeoff gives agrees with the totals: with    *)
(* free transfer the request and execution deltas are the whole change of  *)
(* cost, fusing removes invocations, and the hops removed are the latency  *)
(* saved.                                                                  *)
TradeoffExplainsTheChange ==
    LET t == CalculateTradeoff(app, groups)
        base == Singletons(app)
    IN /\ t.invocationsRemoved >= 0
       /\ t.executionDelta >= 0
       /\ app.transferPrice = 0 =>
             TotalCost(app, groups) - TotalCost(app, base)
                 = t.requestDelta + t.executionDelta
       /\ Latency(app, base) - Latency(app, groups) = app.hop * t.hopsRemoved

(* MinWCut is one way to carry out the abstract fusion.                    *)
Fusion == INSTANCE Coarsening WITH blocks <- Range(groups)

RefinesCoarsening == Fusion!Spec
=============================================================================
