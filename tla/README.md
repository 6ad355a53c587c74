# OptiFuse in TLA+

OptiFuse reads the `serverless.yml` of a repository, measures its Lambda
functions, and looks for groups of functions to deploy as one. This directory
models the parts of it that decide something: TLC checks them on small
instances, and TLAPS proves every safety property of those runs for every
instance.

Line numbers are those of the files under `src/`.

## 1. Inventory

| part | state | operations | what is hard |
| --- | --- | --- | --- |
| cost model (`domain/types.go`) | an `Application`: functions, call edges, parents, memory, rates, limits | cost of a group and of a partition, latency, `MergeProfitUSD`, `CalculateTradeoff` | a local price of a merge next to a global bill; the two must agree |
| MinWCut (`algo/minwcut.go`) | groups, candidate edges | merge along the dearest call | an unstable sort, slots removed by swapping, long sequences of merges |
| GreedyTP (`algo/greedytp.go`) | barriers, breadth-first queue, owners, groups | choose cuts, search, eject, merge | map order seeds the queue; cycles; unreachable functions |
| CostlessCSP (`algo/csp.go`) | labels, priority queue, frontiers | extend a label by a merge or a cut | pruning of labels still queued; what dominance leaves out |
| NoFusion, Singleton (`algo/trivial.go`) | none | one partition each | nothing |
| MtxILP (`algo/ilp.go`, `algo/ilp/solver.go`) | a linear program, a solution | build, solve with glpsol, read back | whether the program is the cost model; a solver that gives up |
| frontier and plan (`algo/frontier.go`, optimizer `cmd/main.go`) | results | run six algorithms, dominance, extremes | ties, failures, infeasible results |
| parser, graph conversion (`parser.go`, both `cmd/main.go`) | graph, application | defaults, wiring, order, rates | three maps walked in any order; repeated and unknown ids |
| enricher (`enricher.go`) | one CloudWatch query | start, poll, attribute rows | a query that never ends, a caller that is gone, partial rows |
| simulation pipeline (`handlers/simulate.go`) | contexts and deadlines | fetch, parse, enrich, optimize, answer | every service may hang or fail, the client may hang up |
| accounts (`db/queries.go`, `handlers/auth.go`, `auth/middleware.go`, `handlers/profile.go`) | tables users, profiles, tokens | log in, authenticate, read and save the profile | separate statements of concurrent handlers, lost answers |
| gRPC lifecycle (`grpcserver/server.go`) | health status, in-flight calls, timers | serve, drain, stop gracefully or by force | a signal that comes early; handlers that nobody waits for; time that adds up |
| gateway process (gateway `cmd/main.go`, `grpcclient`) | listener, requests, gRPC connections, timers | listen, drain, shut down, close, exit | requests longer than the shutdown; what is closed first |
| rollout (`deploy/base/*.yaml`) | pods, endpoints, grace | ready, terminate, remove, kill | endpoints that are stale; two processes replaced at once |
| repositories, GitHub client (`handlers/repos.go`, `auth/github.go`) | none | read a token, ask GitHub | whose token is shown; a GitHub that hangs |
| logging, metrics, request ids, protocol buffers, deployer, Terraform | none | I/O | not modelled, but for the end of the metrics server |

The gateway calls the parser, the enricher and the optimizer over gRPC, one
after the other, with a deadline for each. The services keep nothing between
calls. What flows is one graph: the parser builds it, the enricher writes
measurements over the estimates, the optimizer turns it into an application and
runs its algorithms on it one after the other. Shared state is in Postgres only.
When Kubernetes replaces a pod, what the gateway and a service have accepted
meets two drains, two timeouts and a kill.

## 2. Modules

| module | models | main correspondence |
| --- | --- | --- |
| `FusionCost` | `domain/types.go` | operators named as the Go functions, on a record for `Application`. A group is the set of its members; a partition is a sequence of sets, because slots matter (`RemoveIndex`) |
| `Coarsening` | abstract specification | a set of blocks, a step unites some of them |
| `MinWCut` | `algo/minwcut.go` | `Consider(c)` is one turn of the loop, `First` any edge that may come first in an unstable sort, `Return` the metrics |
| `GreedyTP` | `algo/greedytp.go` | phases of `Optimize`: `ChooseBarriers` (or an error), `Visit` per dequeued function, `BuildGroups`, `Consider` per pair, `Return` |
| `CostlessCSP` | `algo/csp.go` | `Extend` pops the cheapest label and pushes the merge and the cut, `Skip` drops one popped past the end, `Return` |
| `MtxILP` | `algo/ilp.go`, `ilp/solver.go` | `Assignments`, `c`, `m`, `y`, `Objective`, `WithinLatency` are the constraint families of `buildLP`; `GroupsOf` reads a solution back |
| `OptimizePlan` | optimizer `cmd/main.go`, `algo/frontier.go` | `Run` is one algorithm, `Respond` the frontier, the extremes and the response |
| `Ingest` | `parser.go`, parser and optimizer `cmd/main.go` | `Parse`, `BuildGraph`, `Enrich`, `GraphToApp`, with the walk of each map chosen freely; `Enrich` writes what an instance of `Attribution` gives it |
| `Attribution` | the end of `enricher.go` | `Attributions` is every way the rows of a query may be matched to functions |
| `Enricher` | `enricher.go` | `StartQuery`, `Poll`, `Wake`, over `Attribution` |
| `Simulate` | `handlers/simulate.go` | composes the handler, `Enricher`, the optimizer's stages, the client and the clock |
| `Accounts` | the gateway's tables and handlers | one action per SQL statement, each of which may fail, applied or not, and the call to GitHub behind it |
| `OrderlyStop` | abstract specification | work accepted until a closing, a bounded patience, nothing lost before it is used up |
| `Pods` | what `deploy/base/*.yaml` asks of Kubernetes | `Ready`, `Terminate`, `Removed`, `Ends`, the grace as a countdown |
| `GrpcServer` | `grpcserver/server.go` | two goroutines (`acceptor`, `server`), a timer, the calls and the handlers that run; `Drain`, `GracefulStop`, `Stopped`, `ForceStop`, `Exit` are the stages of `shutdown` and `Serve` |
| `GatewayProcess` | gateway `cmd/main.go`, `grpcclient` | `main` (`gateway`), `ListenAndServe` (`listener`) and a handler per request; `Shutdown`, `ShutdownDone`, `ShutdownTimesOut`, `GatewayExits` |
| `Rollout` | the cluster | composes `Pods`, `GrpcServer` and `GatewayProcess` with a clock |
| `FusionCostProofs` | lemmas | sums over finite sets; what a merge does to groups, costs, latency and calls |
| `MinWCutProofs`, `GreedyTPProofs`, `CostlessCSPProofs`, `IngestProofs`, `RolloutProofs` | proofs | the safety properties of the module named, see section 5 |
| `OptimizerProofs` | proofs | those of `MtxILP` and of `OptimizePlan` |
| `GatewayProofs` | proofs | those of `Accounts` and of `Simulate` |
| `MC...` | instances | constants for TLC |

Conventions. Money and time are integers: with 128 MB and 100 ms as units, a
unit of execution is within 5% of a request charge, so small integers are
realistic prices. Rounding of floats is not modelled. The operators introduced
by "A mistake" are what a definition could have been by a slip (a forgotten
reset, a wrong index, a dropped guard); no specification uses them, and
`PROJECT.json` names the property that tells each from the definition.

## 3. Runs

| run | instance | shows |
| --- | --- | --- |
| `min_w_cut` | all 64 call graphs of 3 functions, all choices of parent, sizes {1,2} and {1,3} against a limit of 2, with and without telemetry and transfer prices | `Partition`, `FusedGroupsFit`, `ConnectedByCalls` hold at every step; each merge lowers the bill by what the gate computed (`MergesLowerTheTotalCost`) and adds no hop (`HopsNeverAdded`); the explanation agrees with the totals; the result is never dearer than no fusion; `RefinesCoarsening` |
| `greedy_tp` | the subsets of 6 calls of 4 functions, several paths and limits | a claimed function belongs to a nearest barrier, once; groups fit; on chains of calls the latency promise is kept; merges help; `Optimize` returns although calls may form cycles |
| `costless_csp` | paths of up to 3 functions, on and off the path, limits tight and loose | labels are worth what they say; a search never holds two labels; the split returned is a partition that fits and has the latency searched for (`SplitReturned`), and is not dearer than no fusion |
| `mtx_ilp` | all graphs of up to 4 calls of 3 functions, three critical paths, budgets from impossible to one hop | `NoneCheaper`: no partition within the latency budget is cheaper than the program's optimum; `MeetsTheCapOnCalls` |
| `optimize_plan` | 4 algorithms with every combination of costs, latencies, failures | the frontier covers the rest, and there is a recommendation, as cheap as anything on it, exactly when it is not empty; "unambiguous" leaves no trade |
| `ingest` | chain, star, diamond, cycle and no topology, 4 critical paths with unknown and repeated ids, estimates and rows for any subset of functions, ids that end one another or do not | an application with the calls of the file is built as the algorithms assume it (`Application`) and each call is wired once, unless an id is repeated; a function carries the measurements of another only if its id ends the other's log group; the request charge of any group is that of the calls entering it when each function has one caller at most and the counts have one source |
| `simulate` | one request, units of 5 seconds, the real budgets | the optimizer always has the 60 seconds of its solver; a request is answered within 15 + 120 seconds and always is; the enricher stops one pause after its deadline |
| `accounts` | 2 users, 3 logins, 2 requests, any statement failing | rows behind every key; a request is taken for who logged in, and GitHub is shown a token of the same user; a saved role is kept |
| `rollout` | a gateway and an optimizer, 2 requests, any order of signals; drain 2, shutdown 1, metrics server 2, grace 4, propagation 1 | `NoneRefused`: while the endpoints are stale the pod still answers; `KilledBehindTheWork`: SIGKILL never finds anybody waiting, and never the gateway; `DrainIsAnnounced`; `CallsOutliveTheirRequests`: closing the clients costs nobody a plan; both processes implement `OrderlyStop` |

Three runs end in a violation: what the repository says is not what the code does.

| run | said | done |
| --- | --- | --- |
| `greedy_tp_all_assigned` | "AllFunctionsAssigned" (algo_test.go:252) | a function that neither the root nor the far end of a cut reaches is in no group |
| `csp_optimal` | "guarantees optimality on the critical path" (csp.go:24) | the first profitable merge dominates the cut, and a better split is never seen |
| `accounts_token_replaced` | "returns the existing token" (queries.go:181) | a racing login, or a failed lookup, replaces it |

Other disagreements met while modelling, each reproduced with TLC on the
modules here and not kept as a run:

- MtxILP may return as optimal a partition above the latency budget although
  another is within it (ilp.go:34 says "the cheapest partition that meets the
  latency cap"): a pair of the critical path that is not a call has no term in
  the constraint (solver.go:329), and without calls there is no constraint at
  all (solver.go:371). `MeetsTheCapOnCalls` is what remains; without its
  condition `PathOfCalls` TLC finds such a path in `mtx_ilp`'s instance.
- "In-flight requests finish during the 2 s drain. That is the
  zero-dropped-requests rollout" (docs/DEPLOYMENT_GUIDE.md:322). A solver may take 60
  seconds and a request 120; what is left after 2 + 25 is cut off, by `Close` in
  the gateway and `Stop` in a service. `OrderlyStop` is what is promised.
- A rate divides counts of CloudWatch and of the file by one another when some
  functions have rows and others do not (main.go:307), although a comment there
  says a rate stays at 1 without telemetry and never invents savings.
- The list of repositories is fetched with `http.DefaultClient` (repos.go:80),
  which auth/github.go:14 says was replaced because it has no timeout.
- A service that is told to stop before the goroutine of `serve` has run reports
  SERVING while it drains (server.go:134). `DrainIsAnnounced` shows that no
  endpoint ever led to such a process.
- GreedyTP may return a partition dearer than no fusion (algo_test.go:371 says
  the algorithms never make things worse): the groups of its search pass no
  profit gate. It may return an empty group, although the first id of a group
  is canonical (optimizer.proto:27), and it keeps the fewest merges, not the
  fewest cuts (greedytp.go:17).
- The plan may recommend a result marked as dominated (frontier.go:20):
  `Extremes` keeps the first of the cheapest although a later one costs the
  same and is faster. For the same reason `unambiguous` may be false although
  one result is best on both.
- A request is answered with `telemetry: "cloudwatch"` although nothing was
  measured (simulate.go:115), when a log group does not exist or the query
  has no rows.
- The row of a log group that ends in another function's id may be attributed
  to that function (enricher.go:217), in map order.
- CostlessCSP's "no partition satisfies latency constraint" (csp.go:221) may
  be untrue: merges that would satisfy it did not pass the profit gate.
- optimizer.proto:28 and the known limitations 1 to 3 in the optimizer's
  documentation describe an earlier cost model (sum of memories, transfer only).

### Bounds

Three functions give every shape the algorithms distinguish: a group of two and
a group of one, a call within, into and across, two callers of one function, a
cycle. GreedyTP has four, so that two barriers can compete for a function that
is not on the path. Sizes are two, small and large, the limit between them or
above both. The prices 2 (request) and 1 (execution) make some merges pay and
others not; every property of costs has runs of both. `Simulate` counts in
units of 5 seconds, so that all budgets are whole; the pause between polls, one
second, is rounded up to a unit, and the time of the heuristics, milliseconds,
down to none: what `BudgetsHold` says is that they have 5 seconds
(120 - 10 - 45 - 60) and not more. `Accounts` needs two logins of one user for a
race and a third for one that comes after it. Its steps are symmetric in users,
logins, requests and roles, and only invariants are checked with the symmetry.

In `rollout` only the order of the times matters: the propagation ends within
the drain (1 < 2), drain and shutdown within the grace (2 + 1 < 4, in the code
2 + 25 < 30), and the metrics server may go on after it (2 + 1 + 2 > 4, in the
code 2 + 25 + 5 > 30). Two requests are needed for one to hold a stop up while
the other waits. `RolloutAssumption` names what the order must be; its last
conjunct, that the metrics server's timeout alone is within the grace, came out
of the proof: a service whose `Serve` fails goes straight to the end of its
metrics server, with its callers still waiting, and with a longer timeout
SIGKILL would find them there. The code has 5 seconds of 30. `BudgetsNest`
in `Simulate` is the order of the budgets in the same way.

An invocation rate is a quotient, in `ingest` in units of 1/12, which is whole
for the counts there. `RateUnitAssumption`, that the unit is fine enough for no
rate to come out as 0, was found by the proof: `Rate` takes 0 for a rate never
set and charges 1 instead, and with a coarser unit `ChargeIsThatOfOneSource`
would be false of the model. In the code rates are floating point numbers, and a
quotient of two positive counts is not 0.

`CHECK_DEADLOCK FALSE` is set for `accounts`, `simulate` and `rollout`, where
every process ends; the algorithms end in a step that repeats.

### Fairness

`GreedyTP!FairSpec` has weak fairness of `Next`: `Optimize` is one goroutine
that waits for nobody. `Simulate!FairSpec` has weak fairness of time, of the
handler when its context has expired or an answer has arrived, of the enricher
when its pause or its deadline is over, and of the optimizer when its solver's
time is up (`--tmlim`). Nothing is assumed of GitHub, CloudWatch, the client, or
of a service that answers: `EveryRequestIsAnswered` holds although all of them
hang. That the database answers is assumed; its queries have no deadline.
`Rollout!FairSpec` has weak fairness of time, of the kill and the endpoints, and
of the two `main` goroutines when they are due: a timer has fired, a signal or
the end of the last handler has been delivered. Handlers and clients may hang for
ever, and the goroutines that accept may never be scheduled.

## 4. Abstract specifications

`Coarsening` is what fusion is: blocks partition the functions, and steps only
unite whole blocks. `MinWCut` implements it under `blocks <- Range(groups)`.
`Ingest` promises `Application`, which the algorithm modules take as their
assumption on `Apps`. `OptimizePlan` assumes of an algorithm that it does not
return a feasible partition and an error; the algorithm modules satisfy it by
their `Return` and error actions.

`OrderlyStop` is what a process promises about being stopped: it accepts until
it closes, then what it accepted has a bounded time, closing comes to an end,
and only work that used all of the time is lost. `GrpcServer` implements it
with `stage` read off the stage of `shutdown`, `left` off its timer and `fate`
off its calls (`ServerStops`), `GatewayProcess` in the same way with its
requests (`GatewayStops`). That every step of the rollout is a step of
`OrderlyStop` or a stutter is proved for both; that stopping comes to an end
(`FairSpec`) is checked with TLC. A process that fails before the signal loses its work
at once (`Fail`). After `Stop` the service may wait for handlers, the metrics
server and SIGKILL: nobody waits for it by then, which is `KilledBehindTheWork`.

## 5. Proofs

Each theorem holds for every value of the constants that the named assumptions
of the modules allow: finitely many functions, natural prices, every application
in `Apps` is one (`Application`), files and telemetry of natural numbers
(`YamlsAssumption`, `TelemetryAssumption`, `RateUnitAssumption`), distinct ids,
and the orders of the times (`RolloutAssumption`, `BudgetsNest`). TLC evaluates
the assumptions in the runs. The rule for all of them is the same: an inductive
invariant `IInv` (`IlpIInv`, `PlanIInv`, `AccountsIInv`, `SimulateIInv` where two
components share a module), shown to hold at first and to be kept by every
action, and the property as one of its consequences.

**Sums** (in `FusionCostProofs`). What is needed of sums over finite sets and intervals,
which the libraries define and do not state: splitting off an element, disjoint
unions, pointwise order, factors; and least and greatest members. Each is proved
from the definition of the fold through a smallest counterexample among finite
sets, which needs no induction theorem.

**Cost model** (`FusionCostProofs`). `MergeProfitIsExact`: for any disjoint
groups of any application, merging two changes the total by exactly
`MergeProfit`. The gate in MinWCut, GreedyTP and CostlessCSP is local, the
ranking global; this theorem is why they agree, and since it does not ask for
every function to be in a group it holds of GreedyTP's partial results too. The
argument splits the total into the groups not touched, the two that are, and the
calls, of which exactly those between the two groups are no longer cut. The
other lemmas say what a merge does to cut pairs of the critical path, to the
invocations billed and to the execution charged at the size of a group.

**MinWCut** (`MinWCutProofs`): every safety property of the run.

- `IInv`: the types, `Partition`, and no candidates left once the metrics are
  there. `Partition` alone is not inductive, because `Return` must not be
  followed by a merge; the types carry `Application(app)`, without which a
  candidate need not be in a group.
- `FusedGroupsFit` and `ConnectedByCalls` are inductive next to `IInv`: the
  union of two groups joined by a call has a call across every cut, and the
  gate compares its memory with the limit.
- `MergesLowerTheTotalCost` is `MergeProfitIsExact` at a step; with it the bound
  "never above no fusion" is inductive (`NeverWorseThanNoFusion`).
- `TradeoffExplainsTheChange`: without a transfer price the total is the request
  charge of the invocations billed and the execution charge, so that the two
  deltas are the change for any partition; their signs are an invariant, since a
  merge removes invocations and never lowers the size a member runs at.
- `HopsNeverAdded`: two functions together stay together.
- `RefinesCoarsening`: a merge unites two blocks, everything else stutters.

**GreedyTP** (`GreedyTPProofs`): every safety property of the run.

- `NearestBarrier` is about the end of a breadth-first search that starts from
  several barriers in map order. The invariant is that of its queue (`Levelled`):
  there are a k and an m such that the first m entries are k calls from a barrier
  and the rest k + 1, everything within k calls is claimed, and whoever is k
  calls away and not among the m has been visited; with it, that every claim is
  inherited along a call and is as near as any. `Ball`, the functions within n
  calls, is a recursive function of n: its unfolding is proved by tables that
  agree up to n, by a smallest counterexample, and not by an induction theorem.
- `ClaimedOnce`: the groups hold exactly what was claimed, they are disjoint and
  fit. Ejection is shown on the slots of `BuildGroups`, one for what a barrier
  keeps and one for each that does not fit, in any order of the map.
- `ChainsStayWithinTheLimit`: on a chain that fits, the groups are runs of the
  path between the cuts chosen, so only those are cut (`CutsAsChosen`), merges
  remove cuts, and the latency with them is the one `CallsKept` compared.
- `MergesHelp` is `MergeProfitIsExact` where the search left functions out.

**CostlessCSP** (`CostlessCSPProofs`): every safety property of the run.

- `SearchNeverBranches` is the shape of the search (`OneLabel`): it has come to
  some function k, with one label at each function up to k, none behind it, and
  only that of k in the queue. An extension keeps it because the merge costs
  nothing and saves the hop (`MergeDominatesCut`): whenever it is allowed, the
  cut is dominated before it is kept. It is also why the other properties can be
  shown by following a single label.
- `LabelsAreHonest`: extending a label by a merge adds no cut between
  consecutive functions of the path, extending it by a cut adds one
  (`MergeKeepsSplit`, `CutKeepsSplit`), and the sums grow by what the label does.
- `NeverWorseThanNoFusion`: the gate of a merge is local, its profit that of a
  whole partition. So the invariant carries a partition along (`NotDearer`): the
  groups of the label, and everyone else alone, in any order. A cut does not
  change it, a merge unites two of its blocks, which `MergeProfitIsExact` prices;
  that the order does not matter is `SameBlocksSamePrice`.
- `SplitReturned`: the final groups are those blocks (`FinalPartition`), and the
  pairs of the path they cut are those the label counted (`FinalLatency`).

**MtxILP** (`OptimizerProofs`): `NoneCheaper` and `MeetsTheCapOnCalls`.
`ObjectiveIsTheBill` is the heart of it: the objective of an assignment is the
bill of the groups read from it, less the request charge of the functions nobody
calls, which no partition changes.

- The bill is a sum over groups, the objective one over functions and calls. So
  the bill is first rewritten function by function (`TotalCostByFunction`), with
  sums over the classes of a partition (`SumFiberwise`), and then each family of
  variables of `buildLP` is worth what it stands for: `CutVariable`,
  `MemoryVariables`, `RunningIsLinear`, `TransferIsLinear`, `RequestsAreLinear`.
  The last uses that a parent is a caller, which is part of `Application`.
- Assignments and partitions are the same thing (`AssignmentIsPartition`,
  `PartitionIsAssigned`, with a member of each group for its root). A partition
  within the latency budget is a solution (`BudgetMetIsWithin`), so the optimum is
  no dearer than it (`OptimumIsCheapest`); the converse needs `PathOfCalls`
  (`WithinMeetsTheBudget`), which is why that condition is in
  `MeetsTheCapOnCalls` and not in `NoneCheaper`.
- Without a call no solver is asked, and `SingletonsAreCheapest`: a group costs
  at least what its members cost alone, when they save no call.

**Ingest** (`IngestProofs`): the three invariants, for every file, every order of
the three maps and every set of rows. They are about the last stage and not
inductive on their own; `IInv` says at each stage what it has made of the file:
`ParsedInOrder`, `NodesOfTheFile`, `CallsWired`, `NodesMeasured`. It was checked
with TLC first, on the instance of `ingest`.

- `WalkShape`: the critical path, then the rest, names every function, and once
  if the path does. The path and the calls are flattened with `FlattenSeq`, a
  recursive function over the indices; that it is what it should be
  (`FlattenShape`) is proved by tables up to n and a smallest counterexample.
- `CallsAreWired`: the calls of each function in the order of the map, of the
  functions in the order of the parser, are the calls of the file between known
  functions, and each once if the path names no function twice
  (`FlattenKeepsApart`), which is why `Application` may have a set of them.
  `ParentShape` and `EntryShape` are what is read back from them.
- `OwnRow`: a row goes to a function whose id ends its log group, and to its own
  if no other id does.
- `ApplicationIsBuilt` yields the `Application` which `AppsAssumption`,
  `CSPAssumption`, `IlpAssumption` and `GreedyAssumption` ask for, so that the
  theorems about the algorithms hold of what the pipeline builds.
- `ChargeIsBuilt`: with one caller at most the parent of a function is that
  caller, in whatever order the calls were wired.

**Frontier and plan** (`OptimizerProofs`): `FrontierCoversTheRest` and
`UnambiguousMeansNoTrade`. `PlanIInv` says that the results are those of the
algorithms run so far, in order. Dominance lowers the sum of cost and latency,
so among finitely many results a dominated one has one on the frontier that
dominates it.

**Accounts** (`GatewayProofs`): the four invariants, for any number of users,
logins and requests. A step reads one row; what `AccountsIInv` adds is what the stage of
a login says of the statements behind it, that keys and GitHub tokens are in the
rows of their login's user, and what a request carries at which stage.

**Pipeline** (`GatewayProofs`): `SimulateTypeOK`, `BudgetsHold` and
`EnricherStops` for all budgets that nest. Each hop starts within the budget of the one before it
(`HopsAreInTime`), so that at the call of the optimizer what has been spent is
at most ParseBudget + EnrichBudget of the overall budget, and its stages end
before its caller's deadline (`OptimizerIsInTime`).

**Rollout** (`RolloutProofs`): the type invariant, the four safety properties
and both refinements, for any number of requests and all times in order. A timer
of a process and the grace of its pod count the same time (`GatewayIsInTime`,
`ServerIsInTime`): the grace left is the whole grace less the stages over, plus
what the timer has left. So a draining process has refused nobody while its
endpoint was stale, and SIGKILL comes behind the timeouts. The service's part of
the invariant has one stage with a bound of its own, `failing`, which is where
`MetricsTimeout < Grace` is needed. `ServerImplementsOrderlyStop` and
`GatewayImplementsOrderlyStop` take each action of the composition to a step or
a stutter of `OrderlyStop`.

Only model-checked is what must happen in the end: `Terminates`,
`EveryRequestIsAnswered` and the fairness of `OrderlyStop` (`ServerStopsOrderly`,
`GatewayStopsOrderly`), which is out of the prover's reach. Every invariant and
every property of steps that a passing run checks is a theorem.

## 6. Not modelled

YAML and LP syntax, HTTP, logging, metrics, request ids: they decide nothing.
Floating point: prices are integers, and ties the code decides within an
epsilon are decided exactly. Singleton is the one group of all functions. The
deployer is a README, the infrastructure configuration, the protocol buffers
generated.

Of the processes: crashes and out-of-memory kills before a signal, restarts of a
container, a failed bind, the readiness of the gateway's database, and the
database itself. What grpc-go and net/http do is taken from their documentation
and source: `GracefulStop` waits for every handler, also for those whose caller
is gone; `Stop` closes the connections and may then wait behind it; `Shutdown`
waits for active connections and does not cancel them. The solver is glpsol,
which the optimizer's Dockerfile installs and which ends by its `--tmlim`. The
fallback cbc (solver.go:403) runs without a limit: with it the deadline of the
hop would still answer the request, but that no plan is lost (`BudgetsHold`) is
not shown. How Postgres runs the
schema of two gateways that start at once is left to its advisory lock.

## 7. Plan

Done: the modules above, in the order cost model, MinWCut and its proofs,
GreedyTP, CostlessCSP, plan, MtxILP, accounts, pipeline with enricher, ingest
with telemetry, rollout of the gateway and a service; then the proofs of
accounts, rollout, pipeline, plan, the trade-off, GreedyTP, CostlessCSP, MtxILP
and ingest.

What could come next are models of what section 6 leaves out: restarts of a
container in the rollout, and the readiness of the gateway's database.
