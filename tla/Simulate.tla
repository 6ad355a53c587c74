------------------------------ MODULE Simulate ------------------------------
(***************************************************************************)
(* POST /api/simulate/live/ (handlers/simulate.go): one request through    *)
(* GitHub, the parser, the enricher and the optimizer, each hop under its  *)
(* own budget and all of them under one cap, with a client that may hang   *)
(* up at any moment.                                                       *)
(*                                                                         *)
(* Time is a counter.  A hop answers or fails at any moment up to its      *)
(* deadline, when its context expires; time does not pass beyond a         *)
(* deadline somebody waits for.  The optimizer does not read its context:  *)
(* it works on until its solver is done or out of time.                    *)
(***************************************************************************)
EXTENDS Enricher

CONSTANTS
    GitHubTimeout,     \* of githubClient
    OverallBudget, ParseBudget, EnrichBudget, OptimizeBudget,
    SolverTimeout,     \* glpsol's --tmlim
    HeuristicsTime     \* what the other five algorithms may take

ASSUME BudgetAssumption ==
    {GitHubTimeout, OverallBudget, ParseBudget, EnrichBudget, OptimizeBudget,
     SolverTimeout, HeuristicsTime} \subseteq Nat

(* optimizeBudget "must exceed MtxILP's own 60s glpsol deadline", by what  *)
(* the other algorithms take; and the optimizer has its time within the    *)
(* cap behind the slowest parser and enricher: 10 + 45 + 60 of 120.        *)
ASSUME BudgetsNest ==
    /\ HeuristicsTime + SolverTimeout < OptimizeBudget
    /\ ParseBudget + EnrichBudget + HeuristicsTime + SolverTimeout <= OverallBudget

VARIABLES
    at,          \* what the handler does
    hopEnd,      \* when the context of the call in flight expires
    cap,         \* when reqCtx expires
    role,        \* whether the profile has an AWSRoleARN
    gone,        \* the client has hung up
    telemetry,   \* "estimates" or "cloudwatch"
    graph,       \* the measurements in the graph passed on
    warned,      \* a warning says that estimates are used
    answer,      \* what the client is told
    optimizer,   \* idle, heuristics, solving or done
    busyUntil    \* the latest the optimizer's present stage ends

handlerVars == <<at, hopEnd, cap, role, gone, telemetry, graph, warned, answer>>
simulateVars == <<now, enricherVars, handlerVars, optimizer, busyUntil>>

Least(a, b) == IF a < b THEN a ELSE b

SimulateInit ==
    /\ now = 0 /\ EnricherInit
    /\ at = "profile" /\ hopEnd = 0 /\ cap = 0
    /\ role \in BOOLEAN
    /\ gone = FALSE /\ telemetry = "estimates" /\ graph = Unmeasured
    /\ warned = FALSE /\ answer = "none"
    /\ optimizer = "idle" /\ busyUntil = 0

Answered(a) ==
    /\ at' = "answered" /\ answer' = a
    /\ UNCHANGED <<hopEnd, cap, role, gone, telemetry, graph, warned>>

Waiting == at \in {"fetch", "parse", "enrich", "optimize"}

-----------------------------------------------------------------------------
(* GetProfileByUserID, and the checks before the first hop. *)
ProfileRead ==
    /\ at = "profile"
    /\ \/ Answered("profile_not_found")
       \/ Answered("no_GitHub_token")
       \/ /\ at' = "fetch" /\ hopEnd' = now + GitHubTimeout
          /\ UNCHANGED <<cap, role, gone, telemetry, graph, warned, answer>>
    /\ UNCHANGED <<now, enricherVars, optimizer, busyUntil>>

(* The fetch has the client's timeout alone: no context reaches it.        *)
Fetched ==
    /\ at = "fetch"
    /\ \/ Answered("fetch_failed")
       \/ /\ now < hopEnd
          /\ at' = "parse"
          /\ cap' = now + OverallBudget
          /\ hopEnd' = now + Least(OverallBudget, ParseBudget)
          /\ UNCHANGED <<role, gone, telemetry, graph, warned, answer>>
    /\ UNCHANGED <<now, enricherVars, optimizer, busyUntil>>

(* What follows the parser's answer and the enricher's. *)
CallEnricher ==
    LET end == Least(cap, now + EnrichBudget)
    IN at' = "enrich" /\ hopEnd' = end /\ Call(end)

(* A mistake: the enricher's budget for the optimizer too. *)
CallOptimizerWithEnrichBudget ==
    /\ at' = "optimize"
    /\ hopEnd' = Least(cap, now + EnrichBudget)
    /\ optimizer' = "heuristics" /\ busyUntil' = now + HeuristicsTime

(* A call on a context that has ended fails before it is sent. *)
CallOptimizer ==
    /\ at' = "optimize"
    /\ hopEnd' = Least(cap, now + OptimizeBudget)
    /\ IF gone \/ now >= cap THEN UNCHANGED <<optimizer, busyUntil>>
       ELSE optimizer' = "heuristics" /\ busyUntil' = now + HeuristicsTime

Parsed ==
    /\ at = "parse"
    /\ \/ /\ Answered("parse_failed")
          /\ UNCHANGED <<enricherVars, optimizer, busyUntil>>
       \/ /\ now < hopEnd /\ ~gone
          /\ role /\ CallEnricher
          /\ UNCHANGED <<cap, role, gone, telemetry, graph, warned, answer,
                         optimizer, busyUntil>>
       \/ /\ now < hopEnd /\ ~gone
          /\ ~role /\ CallOptimizer /\ warned' = TRUE
          /\ UNCHANGED <<cap, role, gone, telemetry, graph, answer, enricherVars>>
    /\ UNCHANGED now

(* Enrichment that fails, is late or is cut off is not fatal. *)
Enriched ==
    /\ at = "enrich"
    /\ \/ /\ enricher = "ok" /\ now < hopEnd /\ ~gone
          /\ graph' = measured /\ telemetry' = "cloudwatch" /\ UNCHANGED warned
       \/ /\ enricher = "error" \/ now = hopEnd \/ gone
          /\ warned' = TRUE /\ UNCHANGED <<graph, telemetry>>
    /\ CallOptimizer
    /\ UNCHANGED <<now, cap, role, gone, answer, enricherVars>>

(* A mistake: the handler does not look at its context. *)
OptimizedWithoutContext ==
    /\ at = "optimize"
    /\ \/ optimizer = "done" /\ Answered("plan")
       \/ optimizer = "failed" /\ Answered("optimization_failed")
    /\ UNCHANGED <<now, enricherVars, optimizer, busyUntil>>

Optimized ==
    /\ at = "optimize"
    /\ \/ optimizer = "done" /\ now < hopEnd /\ ~gone /\ Answered("plan")
       \/ optimizer = "failed" /\ now < hopEnd /\ ~gone /\ Answered("optimization_failed")
       \/ (now = hopEnd \/ gone) /\ Answered("optimization_cut_off")
    /\ UNCHANGED <<now, enricherVars, optimizer, busyUntil>>

Handler == ProfileRead \/ Fetched \/ Parsed \/ Enriched \/ Optimized

(* The optimizer converts the graph and runs its algorithms, MtxILP last.  *)
Optimizing ==
    /\ \/ /\ optimizer = "heuristics"
          /\ optimizer' = "solving" /\ busyUntil' = now + SolverTimeout
       \/ /\ optimizer = "heuristics"
          /\ optimizer' = "failed" /\ UNCHANGED busyUntil
       \/ /\ optimizer = "solving"
          /\ optimizer' = "done" /\ UNCHANGED busyUntil
    /\ UNCHANGED <<now, enricherVars, handlerVars>>

(* The client hangs up: every context derived from the request's ends. *)
HangUp ==
    /\ ~gone /\ at # "answered"
    /\ gone' = TRUE
    /\ deadline' = IF Working THEN Least(deadline, now) ELSE deadline
    /\ UNCHANGED <<now, enricher, wake, measured, at, hopEnd, cap, role,
                   telemetry, graph, warned, answer, optimizer, busyUntil>>

EnricherStep == EnricherNext /\ UNCHANGED <<handlerVars, optimizer, busyUntil>>

AnswerArrived ==
    \/ at = "enrich" /\ enricher \in {"ok", "error"}
    \/ at = "optimize" /\ optimizer \in {"done", "failed"}

(* Nobody waits beyond a deadline, for an answer that is there or on a     *)
(* context that has ended.                                                 *)
Tick ==
    /\ \/ at # "answered" \/ Working \/ optimizer \in {"heuristics", "solving"}
    /\ at # "profile"
    /\ Waiting => now < hopEnd /\ (gone => at = "fetch") /\ ~AnswerArrived
    /\ EnricherLetsTimePass
    /\ optimizer \in {"heuristics", "solving"} => now < busyUntil
    /\ now' = now + 1
    /\ UNCHANGED <<enricherVars, handlerVars, optimizer, busyUntil>>

SimulateNext == Handler \/ EnricherStep \/ Optimizing \/ HangUp \/ Tick

SimulateSpec == SimulateInit /\ [][SimulateNext]_simulateVars

(* The handler has nothing left to wait for, nor has the enricher, nor the *)
(* optimizer.                                                              *)
HandlerDue ==
    /\ Waiting => now = hopEnd \/ (gone /\ at # "fetch") \/ AnswerArrived
    /\ Handler
EnricherDue == EnricherStep /\ (enricher = "sleep" \/ now >= deadline)
OptimizerDue == Optimizing /\ now = busyUntil

(* The database answers, timers fire and goroutines run.  That GitHub, the *)
(* services, CloudWatch or the client ever do anything is not assumed.     *)
FairSpec ==
    /\ SimulateSpec
    /\ WF_simulateVars(HandlerDue) /\ WF_simulateVars(EnricherDue)
    /\ WF_simulateVars(OptimizerDue) /\ WF_simulateVars(Tick)

-----------------------------------------------------------------------------
(* The types of the state. *)
SimulateTypeOK ==
    /\ EnricherTypeOK
    /\ at \in {"profile", "fetch", "parse", "enrich", "optimize", "answered"}
    /\ hopEnd \in Nat /\ cap \in Nat /\ busyUntil \in Nat
    /\ role \in BOOLEAN /\ gone \in BOOLEAN /\ warned \in BOOLEAN
    /\ telemetry \in {"estimates", "cloudwatch"}
    /\ graph \in {Unmeasured, measured}
    /\ warned => telemetry = "estimates" /\ graph = Unmeasured
    /\ answer \in {"none", "profile_not_found", "no_GitHub_token",
                   "fetch_failed", "parse_failed", "optimization_failed",
                   "optimization_cut_off", "plan"}
    /\ answer = "none" <=> at # "answered"
    /\ optimizer \in {"idle", "heuristics", "solving", "done", "failed"}

(* The budgets nest: a request is answered by the end of the cap, and with *)
(* every hop before it at its slowest the optimizer still has the time its *)
(* solver may take (simulate.go:32): nobody who waits loses a plan.        *)
BudgetsHold ==
    /\ at # "answered" => now <= GitHubTimeout + OverallBudget
    /\ answer = "optimization_cut_off" => gone

(* Every request is answered, although any service may hang. *)
EveryRequestIsAnswered == <>(at = "answered")

=============================================================================
