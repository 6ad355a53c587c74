---------------------------- MODULE CostlessCSP ----------------------------
(***************************************************************************)
(* CostlessCSP.Optimize (services/optimizer/internal/algo/csp.go): a label *)
(* search along the critical path.  A label is a way to split the path up  *)
(* to some function; from it the next function is merged into the last     *)
(* group or starts a group of its own, and a label is dropped when another *)
(* at the same function is as cheap and as fast.                           *)
(*                                                                         *)
(* heap.Pop returns a cheapest item; which one of several is left open.    *)
(***************************************************************************)
EXTENDS FusionCost, SequencesExt

CONSTANT Apps
ASSUME CSPAssumption == \A a \in Apps : Application(a)

VARIABLES
    app,
    labels,     \* labels[i]: the labels kept at the i-th path function
    pq,         \* the items <<i, label>> of the priority queue
    result      \* AlgorithmResult with its groups, NoResult until it returns

vars == <<app, labels, pq, result>>

NoResult == <<>>

Chain == app.critPath

Label(cost, latency, mem, part) ==
    [cost |-> cost, latency |-> latency, mem |-> mem, part |-> part]

InitialLabel(a) ==
    LET f == a.critPath[1] IN Label(0, RuntimeMs(a, f), a.mem[f], <<{f}>>)

Init ==
    /\ app \in Apps
    /\ IF Chain = <<>>
       THEN labels = <<>> /\ pq = {}
       ELSE /\ labels = [i \in 1..Len(Chain) |->
                            IF i = 1 THEN {InitialLabel(app)} ELSE {}]
            /\ pq = {<<1, InitialLabel(app)>>}
    /\ result = NoResult

-----------------------------------------------------------------------------
(* A mistake: better on both counts asked for. *)
DominatesStrictly(l, m) == l.cost < m.cost /\ l.latency < m.latency

Dominates(l, m) == l.cost <= m.cost /\ l.latency <= m.latency

(* isDominated, then pruneDominated and append. *)
Insert(frontier, l) ==
    IF \E m \in frontier : Dominates(m, l)
    THEN frontier
    ELSE {m \in frontier : ~Dominates(l, m)} \cup {l}

(* A mistake: the profit gate left out. *)
MayMergeAtAnyPrice(u, v) == u.mem <= app.maxMem /\ app.mem[v] <= app.maxMem

MayMerge(u, v) ==
    /\ u.mem <= app.maxMem
    /\ app.mem[v] <= app.maxMem
    /\ MergeIsProfitable(app, Last(u.part), {v})

(* Option A: v joins the last group. *)
MergeLabel(u, v) ==
    Label(u.cost, u.latency + RuntimeMs(app, v), Max({u.mem, app.mem[v]}),
          Front(u.part) \o <<Last(u.part) \cup {v}>>)

(* Mistakes: the closed group's memory kept; the hop forgotten. *)
CutLabelKeepingMemory(i, u, v) ==
    Label(u.cost + DataTransferCost(app, Chain[i], v),
          u.latency + RuntimeMs(app, v) + app.hop, Max({u.mem, app.mem[v]}),
          Append(u.part, {v}))

CutLabelWithoutHop(i, u, v) ==
    Label(u.cost + DataTransferCost(app, Chain[i], v),
          u.latency + RuntimeMs(app, v), app.mem[v], Append(u.part, {v}))

(* Option B: v starts a group, one transfer and one hop later. *)
CutLabel(i, u, v) ==
    Label(u.cost + DataTransferCost(app, Chain[i], v),
          u.latency + RuntimeMs(app, v) + app.hop, app.mem[v],
          Append(u.part, {v}))

Cheapest(item) == \A other \in pq : item[2].cost <= other[2].cost

(* One turn of the loop on an item that is not at the end of the path: the *)
(* merge is tried first, then the cut against the frontier that leaves.    *)
Extend(item) ==
    LET i == item[1]
        u == item[2]
        v == Chain[i + 1]
        merged == IF MayMerge(u, v) THEN Insert(labels[i + 1], MergeLabel(u, v))
                                    ELSE labels[i + 1]
        both == Insert(merged, CutLabel(i, u, v))
    IN /\ Cheapest(item)
       /\ i < Len(Chain)
       /\ labels' = [labels EXCEPT ![i + 1] = both]
       /\ pq' = (pq \ {item})
                  \cup {<<i + 1, l>> : l \in (merged \cup both) \ labels[i + 1]}
       /\ UNCHANGED <<app, result>>

Skip(item) ==
    /\ Cheapest(item)
    /\ item[1] = Len(Chain)
    /\ pq' = pq \ {item}
    /\ UNCHANGED <<app, labels, result>>

NoCriticalPath ==
    /\ result = NoResult
    /\ Chain = <<>>
    /\ result' = [error |-> "critical_path_is_empty"]
    /\ UNCHANGED <<app, labels, pq>>

Feasible == {l \in labels[Len(Chain)] : l.latency <= app.maxLat}

(* "no partition satisfies latency constraint". *)
Infeasible ==
    /\ result = NoResult
    /\ Chain # <<>>
    /\ pq = {}
    /\ Feasible = {}
    /\ result' = [error |-> "infeasible_on_critical_path"]
    /\ UNCHANGED <<app, labels, pq>>

(* Who is in no group of l yet: ~assignedIDs. *)
Unassigned(l) == Fn \ UNION Range(l.part)

(* The groups of the best label, and a group of its own for everyone else. *)
FinalGroups(l, rest) == l.part \o [i \in 1..Len(rest) |-> {rest[i]}]

Return ==
    /\ result = NoResult
    /\ Chain # <<>>
    /\ pq = {}
    /\ \E best \in Feasible : \E rest \in SetToSeqs(Unassigned(best)) :
          /\ \A l \in Feasible : best.cost <= l.cost
          /\ InOrderOfFunctions(app, rest)
          /\ result' = [error |-> "", label |-> best,
                        groups |-> FinalGroups(best, rest),
                        metrics |-> CalculateMetrics(app, FinalGroups(best, rest))]
    /\ UNCHANGED <<app, labels, pq>>

Terminating == result # NoResult /\ UNCHANGED vars

Next ==
    \/ \E item \in pq : Extend(item) \/ Skip(item)
    \/ NoCriticalPath \/ Infeasible \/ Return
    \/ Terminating

Spec == Init /\ [][Next]_vars

-----------------------------------------------------------------------------
Succeeded == result # NoResult /\ result.error = ""

(* Path functions i and i+1 are in different groups of a split. *)
SplitAt(part, i) ==
    ~\E j \in 1..Len(part) : {Chain[i], Chain[i + 1]} \subseteq part[j]

(* What a label carries along is what its split would be priced at from    *)
(* scratch: the transfers it cuts, its runtime and hops, and the memory of *)
(* the group that is still open, which the next memory gate reads.         *)
LabelsAreHonest ==
    \A i \in 1..Len(labels) : \A l \in labels[i] :
        LET cuts == {j \in 1..(i - 1) : SplitAt(l.part, j)}
        IN /\ UNION Range(l.part) = {Chain[j] : j \in 1..i}
           /\ l.mem = GroupMemory(app, Last(l.part))
           /\ l.cost = SumFunctionOnSet(
                          [j \in 1..(Len(Chain) - 1) |->
                              DataTransferCost(app, Chain[j], Chain[j + 1])], cuts)
           /\ l.latency = app.hop * Cardinality(cuts)
                          + SumFunction([j \in 1..i |-> RuntimeMs(app, Chain[j])])

(* A merge costs nothing and saves the hop, so it dominates the cut from   *)
(* the same label whenever it is allowed: the search has one label per     *)
(* function and never has two splits to compare, nor does pruning leave an *)
(* item in the queue whose label is no longer kept.                        *)
SearchNeverBranches ==
    /\ \A i \in 1..Len(labels) : Cardinality(labels[i]) <= 1
    /\ Cardinality(pq) <= 1
    /\ \A item \in pq : item[2] \in labels[item[1]]

(* What the search looked for is what is returned: every function in one   *)
(* group that fits, on the path or off it, and the latency the search      *)
(* limited is the latency then reported, so that a label taken as feasible *)
(* gives a feasible partition unless a function is too large on its own.   *)
SplitReturned ==
    Succeeded =>
        /\ IsPartition(result.groups)
        /\ \A i \in 1..Len(result.groups) : \A f, g \in result.groups[i] :
              f # g => app.mem[f] <= app.maxMem
        /\ result.metrics.latency = result.label.latency
        /\ MemoryOK(app, Singletons(app)) => result.metrics.feasible

(* "they never make things worse" (algo_test.go:372).                      *)
NeverWorseThanNoFusion ==
    Succeeded => result.metrics.totalCost <= TotalCost(app, Singletons(app))

-----------------------------------------------------------------------------
(* What the repository says of CostlessCSP. *)

(* The splits of the path into runs of consecutive functions that fit and  *)
(* meet the latency limit, each with a group per function off the path.    *)
Splits ==
    LET Run(cuts, i) == {Chain[j] : j \in {j \in 1..Len(Chain) :
                           \A c \in cuts : (c < i) = (c < j)}}
        Groups(cuts) == {Run(cuts, i) : i \in 1..Len(Chain)}
                          \cup {{f} : f \in Fn \ Range(Chain)}
    IN {p \in {SetToSeq(Groups(cuts)) : cuts \in SUBSET (1..(Len(Chain) - 1))} :
            MemoryOK(app, p) /\ LatencyOK(app, p)}

(* csp.go:24: "It guarantees optimality on the critical path under memory  *)
(* constraints."                                                           *)
OptimalOnTheCriticalPath ==
    Succeeded => \A p \in Splits : result.metrics.totalCost <= TotalCost(app, p)
=============================================================================
