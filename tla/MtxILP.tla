------------------------------- MODULE MtxILP -------------------------------
(***************************************************************************)
(* MtxILP: fusion as a mixed integer program (algo/ilp.go, ilp/solver.go). *)
(*                                                                         *)
(* A solution of the program is x: x[b][f] = 1 puts f in the group rooted  *)
(* at b.  The other variables (c_e, edge e is cut; m_b, the memory of b's  *)
(* group; y_b_f, m_b when f is in it) occur in constraints that bound them *)
(* from below, and in the objective and the latency constraint with        *)
(* coefficients that are not negative: an optimal solution may take each   *)
(* at its least value, which is what the operators of their names give.    *)
(*                                                                         *)
(* glpsol is external.  It is taken at its word: "OPTIMAL" comes with a    *)
(* solution no other beats; it may also run out of time or fail.           *)
(***************************************************************************)
EXTENDS FusionCost, SequencesExt

CONSTANT Apps

ASSUME IlpAssumption == \A a \in Apps : Application(a)

VARIABLES
    app,       \* the *domain.Application
    at,        \* what Optimize does next
    status,    \* Result.Status and AlgorithmResult.Error
    groups     \* Result.Groups

vars == <<app, at, status, groups>>

Init ==
    /\ app \in Apps
    /\ at = "check" /\ status = "none" /\ groups = <<>>

-----------------------------------------------------------------------------
(* buildLP *)

Edges == {e \in app.edges : e[1] # e[2]}

(* One group per function, and only under a root. *)
Assignments ==
    {x \in [Fn -> [Fn -> 0..1]] :
        /\ \A f \in Fn : \E b \in Fn :
              {r \in Fn : x[r][f] = 1} = {b}
        /\ \A b, f \in Fn : x[b][f] <= x[b][b]}

c(x, e) == Max({0} \cup {x[b][e[1]] - x[b][e[2]] : b \in Fn}
                   \cup {x[b][e[2]] - x[b][e[1]] : b \in Fn})

m(x, b) == Max({0} \cup {app.mem[f] * x[b][f] : f \in Fn})

BigM == Max({0} \cup {app.mem[f] : f \in Fn})

y(x, b, f) == Max({0, m(x, b) - BigM * (1 - x[b][f])})

(* A mistake: a charge on every edge cut, not on the parent's alone. *)
EdgePriceOfEvery(e) ==
    DataTransferCost(app, e[1], e[2]) + RequestPrice * Rate(app, e[2])

EdgePrice(e) ==
    DataTransferCost(app, e[1], e[2])
    + IF app.parent[e[2]] = e[1] THEN RequestPrice * Rate(app, e[2]) ELSE 0

Objective(x) ==
    SumFunction([e \in Edges |-> EdgePrice(e) * c(x, e)])
    + SumFunction([p \in Fn \X Fn |->
          ExecutionPrice * RuntimeMs(app, p[2]) * y(x, p[1], p[2])])

(* A mistake: the budget not reduced by the runtime of the path. *)
WithinLatencyOfHops(x) ==
    LET hops == {i \in 1..(Len(app.critPath) - 1) :
                    <<app.critPath[i], app.critPath[i + 1]>> \in Edges}
    IN SumFunction([i \in hops |->
           app.hop * c(x, <<app.critPath[i], app.critPath[i + 1]>>)]) <= app.maxLat

(* Only the pairs that are calls have a term, and without one there is no  *)
(* constraint: an expression drops its zero coefficients.                  *)
WithinLatency(x) ==
    LET hops == {i \in 1..(Len(app.critPath) - 1) :
                    <<app.critPath[i], app.critPath[i + 1]>> \in Edges}
    IN \/ hops = {} \/ app.hop = 0
       \/ SumFunction([i \in hops |->
              app.hop * c(x, <<app.critPath[i], app.critPath[i + 1]>>)])
          <= app.maxLat - CriticalPathRuntimeMs(app)

Solutions == {x \in Assignments : WithinLatency(x)}

OptimalSolutions ==
    {x \in Solutions : \A z \in Solutions : Objective(x) <= Objective(z)}

-----------------------------------------------------------------------------
Fail(s) == at' = "done" /\ status' = s /\ UNCHANGED <<app, groups>>

CheckSolver ==
    /\ at = "check"
    /\ \/ Fail("no_solver")
       \/ at' = "build" /\ UNCHANGED <<app, status, groups>>

(* Without an edge no solver is asked. *)
SolveAlone ==
    /\ at = "build" /\ Edges = {}
    /\ groups' = Singletons(app)
    /\ at' = "done" /\ status' = "optimal" /\ UNCHANGED app

RootsOf(x) == {b \in Fn : x[b][b] = 1}

(* The roots in the order of the functions, each with its members. *)
GroupsOf(x, roots) ==
    [i \in 1..Len(roots) |-> {f \in Fn : x[roots[i]][f] = 1}]

SolveWithGLPK ==
    /\ at = "build" /\ Edges # {}
    /\ LET optimal == OptimalSolutions
       IN \/ \E x \in optimal : \E roots \in SetToSeqs(RootsOf(x)) :
                /\ InOrderOfFunctions(app, roots)
                /\ groups' = GroupsOf(x, roots)
                /\ at' = "done" /\ status' = "optimal" /\ UNCHANGED app
          \/ optimal = {} /\ Fail("infeasible")

(* The process fails, or 60 seconds go by: with an incumbent the report    *)
(* says NON-OPTIMAL, without one it names no optimum at all.               *)
SolverGivesUp ==
    /\ at = "build" /\ Edges # {}
    /\ \/ Fail("solver_error")
       \/ Solutions # {} /\ Fail("not_proved_optimal")
       \/ Fail("infeasible")

Terminating == at = "done" /\ UNCHANGED vars

Next ==
    \/ CheckSolver \/ SolveAlone \/ SolveWithGLPK \/ SolverGivesUp
    \/ Terminating

Spec == Init /\ [][Next]_vars

-----------------------------------------------------------------------------
(* Every partition of the functions, with the groups in some order. *)
Partitions ==
    {P \in UNION {[1..n -> SUBSET Fn] : n \in 1..Cardinality(Fn)} : IsPartition(P)}

(* "The only algorithm that guarantees an optimal solution under the cost  *)
(* model in domain.CalculateMetrics" (ilp.go:18): the linear objective and *)
(* the bill are the same up to a constant, so that no partition within the *)
(* latency budget, however it came about, costs less.  It is read back as  *)
(* a partition, and a run of the solver that proved nothing returns none.  *)
NoneCheaper ==
    /\ status # "optimal" => groups = <<>>
    /\ status = "optimal" =>
          /\ IsPartition(groups)
          /\ \A P \in Partitions :
                LatencyOK(app, P) => TotalCost(app, groups) <= TotalCost(app, P)

(* Every consecutive pair of the critical path is a call. *)
PathOfCalls ==
    \A i \in 1..(Len(app.critPath) - 1) :
        <<app.critPath[i], app.critPath[i + 1]>> \in Edges

(* On a critical path of calls the linear constraint is the latency budget *)
(* of CalculateMetrics: what is returned meets it whenever anything does.  *)
MeetsTheCapOnCalls ==
    status = "optimal" /\ PathOfCalls =>
        \A P \in Partitions : LatencyOK(app, P) => LatencyOK(app, groups)
=============================================================================
