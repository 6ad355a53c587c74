---------------------------- MODULE OptimizePlan ----------------------------
(***************************************************************************)
(* The Optimize handler (services/optimizer/cmd/main.go): run the six      *)
(* algorithms one after the other, mark what other results dominate        *)
(* (algo/frontier.go) and put together the plan the user sees.             *)
(*                                                                         *)
(* What an algorithm may return is a constant: its cost, its latency and   *)
(* whether it is feasible or failed.  The algorithms have modules of their *)
(* own.                                                                    *)
(***************************************************************************)
EXTENDS Integers, Sequences, FiniteSets, SequencesExt

CONSTANTS
    Algorithms,    \* the names in the order of the optimizers slice
    Outcomes(_)    \* what each may return: [cost, latency, feasible, error]

ASSUME AlgorithmsAssumption ==
    /\ Len(Algorithms) \in Nat
    /\ \A i, j \in 1..Len(Algorithms) : Algorithms[i] = Algorithms[j] => i = j

(* No algorithm returns both an error and a feasible partition. *)
ASSUME OutcomesAssumption ==
    \A i \in 1..Len(Algorithms) : \A r \in Outcomes(Algorithms[i]) :
        /\ r.cost \in Nat /\ r.latency \in Nat
        /\ r.error \in BOOLEAN /\ r.feasible \in BOOLEAN
        /\ ~(r.error /\ r.feasible)

VARIABLES
    domainResults,  \* []algo.AlgorithmResult
    plan            \* OptimizationPlan, NoPlan until the handler returns

planVars == <<domainResults, plan>>

NoPlan == <<>>
Nil == 0            \* the nil *AlgorithmResult; otherwise an index

PlanInit == domainResults = <<>> /\ plan = NoPlan

Run ==
    LET name == Algorithms[Len(domainResults) + 1]
    IN /\ Len(domainResults) < Len(Algorithms)
       /\ \E r \in Outcomes(name) :
             domainResults' = Append(domainResults, [name |-> name, result |-> r])
       /\ UNCHANGED plan

-----------------------------------------------------------------------------
Eligible(r) == r.result.feasible /\ ~r.result.error

(* A mistake: ties dominate each other. *)
DominatesOnTies(a, b) ==
    a.feasible /\ b.feasible /\ a.cost <= b.cost /\ a.latency <= b.latency

Dominates(a, b) ==
    /\ a.feasible /\ b.feasible
    /\ a.cost <= b.cost /\ a.latency <= b.latency
    /\ a.cost < b.cost \/ a.latency < b.latency

(* For every result the first that dominates it, Nil on the frontier.      *)
MarkFrontier(rs) ==
    [i \in 1..Len(rs) |->
        IF Eligible(rs[i])
        THEN SelectInSeq(rs, LAMBDA r : ~r.result.error
                                        /\ Dominates(r.result, rs[i].result))
        ELSE Nil]

(* A mistake: infeasible results not left out. *)
FirstLeastOfAll(rs, field) ==
    SelectInSeq(rs, LAMBDA r :
        \A j \in 1..Len(rs) : r.result[field] <= rs[j].result[field])

(* The first of the eligible results with the least field. *)
FirstLeast(rs, field) ==
    SelectInSeq(rs, LAMBDA r :
        /\ Eligible(r)
        /\ \A j \in 1..Len(rs) :
              Eligible(rs[j]) => r.result[field] <= rs[j].result[field])

Extremes(rs) ==
    LET cheapest == FirstLeast(rs, "cost")
        fastest  == FirstLeast(rs, "latency")
    IN [cheapest |-> cheapest, fastest |-> fastest,
        unambiguous |->
            /\ cheapest # Nil /\ fastest # Nil
            /\ rs[cheapest].result.cost = rs[fastest].result.cost
            /\ rs[cheapest].result.latency = rs[fastest].result.latency]

(* The response names the extremes by algorithm, and recommends the        *)
(* cheapest.                                                               *)
Respond ==
    /\ plan = NoPlan
    /\ Len(domainResults) = Len(Algorithms)
    /\ LET e == Extremes(domainResults)
           named(i) == IF i = Nil THEN Nil
                       ELSE SelectInSeq(domainResults,
                              LAMBDA r : r.name = domainResults[i].name)
       IN plan' = [dominatedBy |-> MarkFrontier(domainResults),
                   recommended |-> named(e.cheapest),
                   fastest     |-> named(e.fastest),
                   unambiguous |-> e.unambiguous]
    /\ UNCHANGED domainResults

PlanTerminating == plan # NoPlan /\ UNCHANGED planVars

PlanNext == Run \/ Respond \/ PlanTerminating

PlanSpec == PlanInit /\ [][PlanNext]_planVars

-----------------------------------------------------------------------------
Result(i) == domainResults[i].result

Candidates == {i \in 1..Len(domainResults) : Eligible(domainResults[i])}

Frontier == {i \in Candidates : plan.dominatedBy[i] = Nil}

(* MarkFrontier leaves a choice for every dislike: whatever is marked is   *)
(* beaten by something that is not, and no option on the frontier beats    *)
(* another, however many results tie or fail.  The recommendation, which   *)
(* Extremes takes from the results without a look at the marks, is there   *)
(* exactly when the frontier is, and costs no more than anything on it.    *)
FrontierCoversTheRest ==
    plan # NoPlan =>
        /\ \A i \in Candidates \ Frontier :
              \E j \in Frontier : Dominates(Result(j), Result(i))
        /\ \A i, j \in Frontier : ~Dominates(Result(i), Result(j))
        /\ IF Frontier = {}
           THEN plan.recommended = Nil
           ELSE /\ plan.recommended \in Candidates
                /\ \A i \in Frontier : Result(plan.recommended).cost <= Result(i).cost

(* "When one candidate is both cheapest and fastest there is no trade to   *)
(* present" (frontier.go:65): an unambiguous plan has a frontier without a *)
(* trade, and recommends from it.                                          *)
UnambiguousMeansNoTrade ==
    plan # NoPlan /\ plan.unambiguous =>
        /\ plan.recommended \in Frontier
        /\ \A i, j \in Frontier :
              /\ Result(i).cost = Result(j).cost
              /\ Result(i).latency = Result(j).latency

=============================================================================
