----------------------------- MODULE FusionCost -----------------------------
(***************************************************************************)
(* The cost model every fusion algorithm of the optimizer reads            *)
(* (services/optimizer/internal/domain/types.go).                          *)
(*                                                                         *)
(* An application is a record:                                             *)
(*   functions    the functions in Application.Functions order             *)
(*   edges        the call edges <<caller, callee>>                        *)
(*   parent       LambdaFunction.Parent: one caller, or NoFn               *)
(*   bytes        DataOutBytes of every edge                               *)
(*   mem, timeout, avgDuration, rate    per function                       *)
(*   critPath     CriticalPath(): the ids of CriticalPathIDs that exist    *)
(*   maxMem, maxLat, hop, transferPrice the constraints                    *)
(*                                                                         *)
(* A group ([]*LambdaFunction) is the set of its members: no sum or        *)
(* maximum depends on their order.  A partition is the sequence of groups. *)
(*                                                                         *)
(* Money is an integer.  Take 128 MB as the unit of memory and 100 ms as   *)
(* the unit of time: one unit of execution is then within 5% of one        *)
(* request charge, so small integers are prices the platform really has.   *)
(***************************************************************************)
EXTENDS Integers, Sequences, FiniteSets, FiniteSetsExt

CONSTANTS
    Fn,               \* the function ids of an application
    NoFn,             \* the nil parent
    RequestPrice,     \* RequestPriceUSD
    ExecutionPrice    \* ExecutionPriceUSDPerGBSecond

ASSUME FnAssumption == IsFiniteSet(Fn) /\ NoFn \notin Fn
ASSUME PriceAssumption == RequestPrice \in Nat /\ ExecutionPrice \in Nat

(* What graphToApp builds when no id is repeated on the critical path: the *)
(* slice holds every function once, and Parent is one of the callers.      *)
Application(a) ==
    /\ a.functions \in Seq(Fn)
    /\ \A f \in Fn : \E i \in 1..Len(a.functions) : a.functions[i] = f
    /\ \A i, j \in 1..Len(a.functions) :
          a.functions[i] = a.functions[j] => i = j
    /\ a.edges \subseteq Fn \X Fn
    /\ a.parent \in [Fn -> Fn \cup {NoFn}]
    /\ \A f \in Fn :
          IF \E g \in Fn : <<g, f>> \in a.edges
          THEN <<a.parent[f], f>> \in a.edges
          ELSE a.parent[f] = NoFn
    /\ a.bytes \in [a.edges -> Nat]
    /\ a.mem \in [Fn -> Nat]
    /\ a.timeout \in [Fn -> Nat]
    /\ a.avgDuration \in [Fn -> Nat]
    /\ a.rate \in [Fn -> Nat]
    /\ a.critPath \in Seq(Fn)
    /\ \A i, j \in 1..Len(a.critPath) : a.critPath[i] = a.critPath[j] => i = j
    /\ a.maxMem \in Nat /\ a.maxLat \in Nat
    /\ a.hop \in Nat /\ a.transferPrice \in Nat

-----------------------------------------------------------------------------
(* One function *)

RuntimeMs(a, f) ==
    IF a.avgDuration[f] > 0 THEN a.avgDuration[f] ELSE a.timeout[f]

Rate(a, f) == IF a.rate[f] = 0 THEN 1 ELSE a.rate[f]

DataTransferCost(a, f, g) ==
    IF <<f, g>> \in a.edges THEN a.bytes[<<f, g>>] * a.transferPrice ELSE 0

-----------------------------------------------------------------------------
(* One group *)

GroupMemory(a, G) == Max({0} \cup {a.mem[f] : f \in G})

GroupRuntimeMs(a, G) == SumFunctionOnSet([f \in Fn |-> RuntimeMs(a, f)], G)

GroupExecutionCost(a, G) ==
    ExecutionPrice * GroupMemory(a, G) * GroupRuntimeMs(a, G)

(* Only a member called from outside the group is invoked by the platform. *)
Entries(a, G) == {f \in G : a.parent[f] \notin G}

BlockInvocationRate(a, G) ==
    SumFunctionOnSet([f \in Fn |-> Rate(a, f)], Entries(a, G))

RequestCost(a, G) == RequestPrice * BlockInvocationRate(a, G)

(* What the platform charges to run G: the summand of CalculateMetrics. *)
GroupCost(a, G) == GroupExecutionCost(a, G) + RequestCost(a, G)

(* Mistakes: the re-tiering forgotten; the calls from H back to G forgotten. *)
MergeProfitWithoutExecution(a, G, H) ==
    RequestCost(a, G) + RequestCost(a, H) - RequestCost(a, G \cup H)

MergeProfitOneWay(a, G, H) ==
    SumFunctionOnSet([p \in Fn \X Fn |-> DataTransferCost(a, p[1], p[2])], G \X H)
    + RequestCost(a, G) + RequestCost(a, H) - RequestCost(a, G \cup H)
    - (GroupExecutionCost(a, G \cup H)
       - GroupExecutionCost(a, G) - GroupExecutionCost(a, H))

MergeProfit(a, G, H) ==
    LET executionAdded == GroupExecutionCost(a, G \cup H)
                          - GroupExecutionCost(a, G) - GroupExecutionCost(a, H)
        requestSaved   == RequestCost(a, G) + RequestCost(a, H)
                          - RequestCost(a, G \cup H)
        transferSaved  == SumFunctionOnSet(
                            [p \in Fn \X Fn |-> DataTransferCost(a, p[1], p[2])
                                              + DataTransferCost(a, p[2], p[1])],
                            G \X H)
    IN transferSaved + requestSaved - executionAdded

MergeIsProfitable(a, G, H) == MergeProfit(a, G, H) > 0

MergeIsHarmful(a, G, H) == MergeProfit(a, G, H) < 0

-----------------------------------------------------------------------------
(* A partition *)

Singletons(a) == [i \in 1..Len(a.functions) |-> {a.functions[i]}]

(* Of the functions in s an earlier one comes first in Functions, too. *)
InOrderOfFunctions(a, s) ==
    \A i, j \in 1..Len(s) : i < j =>
        \E p, q \in 1..Len(a.functions) :
            p < q /\ a.functions[p] = s[i] /\ a.functions[q] = s[j]

(* funcToGroup and FuncToGroupIndex: two functions share a group.  A       *)
(* function in no group is absent from the map.                            *)
Assigned(groups, f) == \E i \in 1..Len(groups) : f \in groups[i]

Together(groups, f, g) ==
    \E i \in 1..Len(groups) : f \in groups[i] /\ g \in groups[i]

(* A mistake: the last element is cut off whichever was to go. *)
RemoveLast(s, k) == SubSeq(s, 1, Len(s) - 1)

(* The last element takes the removed one's place. *)
RemoveIndex(s, k) ==
    [i \in 1..(Len(s) - 1) |-> IF i = k THEN s[Len(s)] ELSE s[i]]

(* A mistake: the slot filled before its group is read. *)
MergeGroupsAfterTheMove(groups, p, k) ==
    RemoveIndex([groups EXCEPT ![p] = @ \cup groups[Len(groups)]], k)

(* groups[p] takes in groups[k], whose slot goes. *)
MergeGroups(groups, p, k) ==
    RemoveIndex([groups EXCEPT ![p] = @ \cup groups[k]], k)

Apart(groups, f, g) ==
    Assigned(groups, f) /\ Assigned(groups, g) /\ ~Together(groups, f, g)

CutEdges(a, groups) == {e \in a.edges : Apart(groups, e[1], e[2])}

TotalCost(a, groups) ==
    SumFunction([i \in 1..Len(groups) |-> GroupCost(a, groups[i])])
    + SumFunctionOnSet([e \in Fn \X Fn |-> DataTransferCost(a, e[1], e[2])],
                       CutEdges(a, groups))

(* Consecutive critical path functions in different groups.  The pair is   *)
(* charged a hop whether or not one calls the other.                       *)
CutPairs(a, groups) ==
    {i \in 1..(Len(a.critPath) - 1) :
        Apart(groups, a.critPath[i], a.critPath[i + 1])}

CriticalPathRuntimeMs(a) ==
    SumFunction([i \in 1..Len(a.critPath) |-> RuntimeMs(a, a.critPath[i])])

Latency(a, groups) ==
    CriticalPathRuntimeMs(a) + a.hop * Cardinality(CutPairs(a, groups))

LatencyOK(a, groups) ==
    a.critPath = <<>> \/ Latency(a, groups) <= a.maxLat

MemoryOK(a, groups) ==
    \A i \in 1..Len(groups) : GroupMemory(a, groups[i]) <= a.maxMem

CalculateMetrics(a, groups) ==
    [totalCost |-> TotalCost(a, groups),
     latency   |-> Latency(a, groups),
     feasible  |-> MemoryOK(a, groups) /\ LatencyOK(a, groups)]

(* What CalculateTradeoff reports next to the total.  criticalPathCuts     *)
(* reads a Go map by key: a function in no group counts as in the first.   *)
GroupIndex(groups, f) ==
    IF Assigned(groups, f)
    THEN CHOOSE i \in 1..Len(groups) : f \in groups[i]
    ELSE 1

CriticalPathCuts(a, groups) ==
    Cardinality({i \in 1..(Len(a.critPath) - 1) :
        GroupIndex(groups, a.critPath[i]) # GroupIndex(groups, a.critPath[i + 1])})

(* A mistake: one invocation for every group. *)
InvocationsPerGroup(a, groups) == Len(groups)

Invocations(a, groups) ==
    SumFunction([i \in 1..Len(groups) |-> BlockInvocationRate(a, groups[i])])

Execution(a, groups) ==
    SumFunction([i \in 1..Len(groups) |-> GroupExecutionCost(a, groups[i])])

CalculateTradeoff(a, groups) ==
    LET base == Singletons(a)
        removed == Invocations(a, base) - Invocations(a, groups)
    IN [invocationsRemoved |-> removed,
        requestDelta       |-> -(RequestPrice * removed),
        executionDelta     |-> Execution(a, groups) - Execution(a, base),
        hopsRemoved        |-> CriticalPathCuts(a, base)
                               - CriticalPathCuts(a, groups)]
-----------------------------------------------------------------------------
(* Properties of a partition, shared by the algorithms' invariants. *)

(* No function in two groups. *)
PairwiseDisjoint(groups) ==
    \A i, j \in 1..Len(groups) : groups[i] \cap groups[j] # {} => i = j

(* Every function in exactly one group, and no group without a function. *)
IsPartition(groups) ==
    /\ \A f \in Fn : Assigned(groups, f)
    /\ \A i \in 1..Len(groups) : groups[i] # {}
    /\ PairwiseDisjoint(groups)

JoinedByCall(a, G, H) ==
    \E f \in G, g \in H : <<f, g>> \in a.edges \/ <<g, f>> \in a.edges

(* G cannot be cut in two without cutting a call between its members. *)
IsConnected(a, G) ==
    \A S \in SUBSET G : S # {} /\ S # G => JoinedByCall(a, S, G \ S)

=============================================================================
