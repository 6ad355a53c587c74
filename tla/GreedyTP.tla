------------------------------ MODULE GreedyTP ------------------------------
(***************************************************************************)
(* GreedyTP.Optimize (services/optimizer/internal/algo/greedytp.go): pick  *)
(* the calls of the critical path to cut, grow a group from the far end of *)
(* every cut by a breadth-first search, eject what does not fit, then      *)
(* merge as MinWCut does, but in an order that IDs make reproducible.      *)
(*                                                                         *)
(* Go maps are iterated in any order: the order of the barriers in the     *)
(* search's queue and the order of the groups are chosen freely.           *)
(***************************************************************************)
EXTENDS FusionCost, SequencesExt

CONSTANTS
    Apps,
    IdRank        \* where an id comes in the alphabetical order of ids

ASSUME GreedyAssumption ==
    /\ \A a \in Apps : Application(a)
    /\ IdRank \in [Fn -> Nat]
    /\ \A f, g \in Fn : IdRank[f] = IdRank[g] => f = g

VARIABLES
    app,          \* the *domain.Application
    phase,        \* "start", "claim", "merge", "done"
    barrier,      \* nodeToBarrier, NoFn where there is no entry
    queue,        \* bfsQueue from bfsHead on
    groups,       \* the partition under construction
    candidates,   \* the call edges not considered yet
    result        \* AlgorithmResult

vars == <<app, phase, barrier, queue, groups, candidates, result>>

NoResult == <<>>

Init ==
    /\ app \in Apps
    /\ phase = "start"
    /\ barrier = [f \in Fn |-> NoFn]
    /\ queue = <<>>
    /\ groups = <<>>
    /\ candidates = {}
    /\ result = NoResult

-----------------------------------------------------------------------------
(* Steps 1 and 2: the cuts, and the search from the far end of each *)

PathCalls(a) == Len(a.critPath) - 1

(* A mistake: one hop too few counted. *)
CallsKeptOffByOne(a) ==
    Min({k \in 0..PathCalls(a) :
            CriticalPathRuntimeMs(a) + a.hop * (PathCalls(a) - k - 1) <= a.maxLat})

(* The loop merges k = 0, 1, ... calls and takes the first combination     *)
(* that meets the limit.  Every combination of k calls costs the same, so  *)
(* that is the first k calls; all of them always do, the base latency fits.*)
CallsKept(a) ==
    Min({k \in 0..PathCalls(a) :
            CriticalPathRuntimeMs(a) + a.hop * (PathCalls(a) - k) <= a.maxLat})

RootFunction(a) ==
    LET i == SelectInSeq(a.functions, LAMBDA f : a.parent[f] = NoFn)
    IN IF i = 0 THEN NoFn ELSE a.functions[i]

Barriers(a) ==
    {RootFunction(a)}
        \cup {a.critPath[i + 1] : i \in (CallsKept(a) + 1)..PathCalls(a)}

Fail(error) ==
    /\ phase = "start"
    /\ phase' = "done"
    /\ result' = [error |-> error]
    /\ UNCHANGED <<app, barrier, queue, groups, candidates>>

NoCriticalPath == app.critPath = <<>> /\ Fail("critical_path_is_empty")

TooSlowUncut ==
    /\ app.critPath # <<>>
    /\ CriticalPathRuntimeMs(app) > app.maxLat
    /\ Fail("base_latency_exceeds_max")

NoRoot ==
    /\ app.critPath # <<>>
    /\ CriticalPathRuntimeMs(app) <= app.maxLat
    /\ RootFunction(app) = NoFn
    /\ Fail("topology_has_no_root_function")

ChooseBarriers ==
    /\ phase = "start"
    /\ app.critPath # <<>>
    /\ CriticalPathRuntimeMs(app) <= app.maxLat
    /\ RootFunction(app) # NoFn
    /\ phase' = "claim"
    /\ barrier' = [f \in Fn |-> IF f \in Barriers(app) THEN f ELSE NoFn]
    /\ queue' \in SetToSeqs(Barriers(app))
    /\ UNCHANGED <<app, groups, candidates, result>>

Callees(a, f) == {g \in Fn : <<f, g>> \in a.edges}

(* Mistakes: depth first; the head of the queue not advanced. *)
VisitDepthFirst ==
    /\ phase = "claim"
    /\ queue # <<>>
    /\ LET f == Head(queue)
           fresh == {g \in Callees(app, f) : barrier[g] = NoFn}
       IN /\ barrier' = [g \in Fn |-> IF g \in fresh THEN barrier[f] ELSE barrier[g]]
          /\ \E s \in SetToSeqs(fresh) : queue' = s \o Tail(queue)
    /\ UNCHANGED <<app, phase, groups, candidates, result>>

VisitForever ==
    /\ phase = "claim"
    /\ queue # <<>>
    /\ LET f == Head(queue)
           fresh == {g \in Callees(app, f) : barrier[g] = NoFn}
       IN /\ barrier' = [g \in Fn |-> IF g \in fresh THEN barrier[f] ELSE barrier[g]]
          /\ \E s \in SetToSeqs(fresh) : queue' = queue \o s
    /\ UNCHANGED <<app, phase, groups, candidates, result>>

(* The callees nobody claimed go to the barrier of the function visited. *)
Visit ==
    /\ phase = "claim"
    /\ queue # <<>>
    /\ LET f == Head(queue)
           fresh == {g \in Callees(app, f) : barrier[g] = NoFn}
       IN /\ barrier' = [g \in Fn |-> IF g \in fresh THEN barrier[f] ELSE barrier[g]]
          /\ \E s \in SetToSeqs(fresh) : queue' = Tail(queue) \o s
    /\ UNCHANGED <<app, phase, groups, candidates, result>>

-----------------------------------------------------------------------------
(* The groups of the search, without the members above the memory limit.   *)
(* Slot <<b, NoFn>> is what is left of the group of barrier b: perhaps     *)
(* nobody, but the empty group stays in the list.  Slot <<b, f>> is that   *)
(* of f alone, ejected from there.                                         *)

(* A mistake: the ejected functions dropped. *)
SafeSlotsDropping(a, owner) == {<<b, NoFn>> : b \in Range(owner) \ {NoFn}}

SafeSlots(a, owner) ==
    {<<b, NoFn>> : b \in Range(owner) \ {NoFn}}
        \cup {<<owner[f], f>> :
                f \in {g \in Fn : owner[g] # NoFn /\ a.mem[g] > a.maxMem}}

SafeGroup(a, owner, slot) ==
    IF slot[2] = NoFn
    THEN {f \in Fn : owner[f] = slot[1] /\ a.mem[f] <= a.maxMem}
    ELSE {slot[2]}

(* Those ejected come right behind the group they are from. *)
BarrierByBarrier(slots) ==
    \A i \in 1..Len(slots) :
        slots[i][2] # NoFn => i > 1 /\ slots[i - 1][1] = slots[i][1]

BuildGroups ==
    /\ phase = "claim"
    /\ queue = <<>>
    /\ phase' = "merge"
    /\ \E slots \in SetToSeqs(SafeSlots(app, barrier)) :
          /\ BarrierByBarrier(slots)
          /\ groups' = [i \in 1..Len(slots) |-> SafeGroup(app, barrier, slots[i])]
    /\ candidates' = app.edges
    /\ UNCHANGED <<app, barrier, queue, result>>

-----------------------------------------------------------------------------
(* Step 3: the merges of MinWCut *)

(* sort.SliceStable: dearest first, then by the caller's and callee's ids. *)
Before(c, d) ==
    LET cost(e) == DataTransferCost(app, e[1], e[2])
    IN \/ cost(c) > cost(d)
       \/ /\ cost(c) = cost(d)
          /\ \/ IdRank[c[1]] < IdRank[d[1]]
             \/ c[1] = d[1] /\ IdRank[c[2]] < IdRank[d[2]]

(* A mistake: the profit gate left out. *)
MergeableAtAnyPrice(p, k) ==
    /\ p # k
    /\ GroupMemory(app, groups[p]) <= app.maxMem
    /\ GroupMemory(app, groups[k]) <= app.maxMem

Mergeable(p, k) ==
    /\ p # k
    /\ GroupMemory(app, groups[p]) <= app.maxMem
    /\ GroupMemory(app, groups[k]) <= app.maxMem
    /\ MergeIsProfitable(app, groups[p], groups[k])

MergedWith(c) ==
    {MergeGroups(groups, q[1], q[2]) :
        q \in {r \in (1..Len(groups)) \X (1..Len(groups)) :
                  c[1] \in groups[r[1]] /\ c[2] \in groups[r[2]]
                  /\ Mergeable(r[1], r[2])}}

(* A call whose caller or callee is in no group is skipped. *)
Consider(c) ==
    /\ phase = "merge"
    /\ \A d \in candidates \ {c} : Before(c, d)
    /\ candidates' = candidates \ {c}
    /\ groups' \in IF MergedWith(c) = {} THEN {groups} ELSE MergedWith(c)
    /\ UNCHANGED <<app, phase, barrier, queue, result>>

Return ==
    /\ phase = "merge"
    /\ candidates = {}
    /\ phase' = "done"
    /\ result' = [error |-> "", metrics |-> CalculateMetrics(app, groups)]
    /\ UNCHANGED <<app, barrier, queue, groups, candidates>>

Terminating == phase = "done" /\ UNCHANGED vars

Next ==
    \/ NoCriticalPath \/ TooSlowUncut \/ NoRoot
    \/ ChooseBarriers \/ Visit \/ BuildGroups
    \/ \E c \in candidates : Consider(c)
    \/ Return
    \/ Terminating

Spec == Init /\ [][Next]_vars

(* Optimize is one goroutine that never blocks. *)
FairSpec == Spec /\ WF_vars(Next)

-----------------------------------------------------------------------------
Succeeded == phase = "done" /\ result.error = ""

(* The functions at most n calls away from S. *)
Ball(a, S) ==
    LET ball[n \in Nat] ==
            IF n = 0 THEN S
            ELSE ball[n - 1] \cup UNION {Callees(a, f) : f \in ball[n - 1]}
    IN ball

(* "assigns non-barrier nodes to their nearest barrier" (greedytp.go:19):  *)
(* a function belongs to a barrier as near as any, whatever the order in   *)
(* which the map handed the barriers out, and only the functions that no   *)
(* barrier reaches belong to none.                                         *)
NearestBarrier ==
    phase = "claim" /\ queue = <<>> =>
        \A f \in Fn, n \in 0..Cardinality(Fn) :
            f \in Ball(app, Barriers(app))[n] =>
                barrier[f] # NoFn /\ f \in Ball(app, {barrier[f]})[n]

(* Ejecting and merging neither lose a claimed function nor double one,    *)
(* and leave no group of several functions above the memory limit, though  *)
(* the groups of the search were grown without looking at memory.          *)
ClaimedOnce ==
    phase = "merge" =>
        /\ {f \in Fn : Assigned(groups, f)} = {f \in Fn : barrier[f] # NoFn}
        /\ PairwiseDisjoint(groups)
        /\ \A i \in 1..Len(groups) : \A f, g \in groups[i] :
              f # g => app.mem[f] <= app.maxMem

(* The calls of the critical path are the only ones into its functions:    *)
(* its first function is the root and the others have one caller.          *)
PathIsCalledInOrder(a) ==
    /\ a.critPath # <<>>
    /\ RootFunction(a) = a.critPath[1]
    /\ \A i \in 1..PathCalls(a) :
          {f \in Fn : <<f, a.critPath[i + 1]>> \in a.edges} = {a.critPath[i]}

(* The cuts of step 1 keep their promise where the critical path is a      *)
(* chain of calls and every function fits: the partition is feasible.      *)
ChainsStayWithinTheLimit ==
    Succeeded /\ PathIsCalledInOrder(app) /\ MemoryOK(app, Singletons(app)) =>
        result.metrics.feasible

(* "any merge leaves latency equal or lower" (greedytp.go:215), and lowers *)
(* the total by what the profit gate computed.                             *)
MergesHelp ==
    [][phase = "merge" /\ groups' # groups =>
         /\ CutPairs(app, groups') \subseteq CutPairs(app, groups)
         /\ TotalCost(app, groups') < TotalCost(app, groups)]_vars

(* The search ends although the topology may have cycles: Optimize returns.*)
Terminates == <>(phase = "done")

-----------------------------------------------------------------------------
(* What the repository says of GreedyTP. *)

(* A partition that is returned has every function in it                  *)
(* (algo_test.go:252, TestGreedyTP_AllFunctionsAssigned).                  *)
AllFunctionsAssigned == Succeeded => \A f \in Fn : Assigned(groups, f)

=============================================================================
