------------------------------- MODULE Ingest -------------------------------
(***************************************************************************)
(* From serverless.yml to the application the algorithms see: Parse and    *)
(* the handler of the parser service, the telemetry of the enricher, and   *)
(* graphToApp of the optimizer.                                            *)
(*                                                                         *)
(* Three Go maps are walked on the way (functions, the calls of a function, *)
(* the nodes of the graph), each in an order of its own every time.        *)
(*                                                                         *)
(* An invocation rate is a quotient: it is kept in units of 1/RateUnit.    *)
(***************************************************************************)
EXTENDS FusionCost, SequencesExt, Functions

CONSTANTS
    Unknown,       \* an id that names no function
    Yamls,         \* what is read from serverless.yml
    Telemetry,     \* the REPORT records of each function: [avgDuration, count]
    Defaults,      \* [mem, timeout, maxMem, maxLat, hop]
    RateUnit

(* A number that is 0 stands for a field that is absent. *)
ASSUME YamlsAssumption ==
    /\ Fn # {} /\ Unknown \notin Fn \cup {NoFn}
    /\ Defaults \in [mem : Nat, timeout : Nat, maxMem : Nat, maxLat : Nat, hop : Nat]
    /\ \A y \in Yamls :
          /\ {y.mem, y.timeout, y.avgDuration, y.count} \subseteq [Fn -> Nat]
          /\ y.calls \subseteq (Fn \cup {Unknown}) \X (Fn \cup {Unknown})
          /\ y.path \in Seq(Fn \cup {Unknown})
          /\ y.endsIn \subseteq Fn \X Fn
          /\ {y.providerMem, y.providerTimeout, y.maxMem, y.maxLat, y.hop, y.price} \subseteq Nat

ASSUME TelemetryAssumption == Telemetry \in [Fn -> [avgDuration : Nat, count : Nat]]

(* The unit is fine enough for every rate: in the code a rate is a         *)
(* floating point number, which is 0 only where it was never set.          *)
ASSUME RateUnitAssumption ==
    /\ RateUnit \in Nat \ {0}
    /\ \A f \in Fn : /\ Telemetry[f].count <= RateUnit
                    /\ \A y \in Yamls : y.count[f] <= RateUnit

VARIABLES
    yaml,     \* ServerlessYAML
    at,       \* yaml, parsed, graph, enriched or app: the last stage done
    parsed,   \* ParsedGraph.Functions
    nodes,    \* Graph.Nodes
    edges,    \* Graph.Edges
    rows,     \* the functions CloudWatch returned a row for
    app       \* *domain.Application

vars == <<yaml, at, parsed, nodes, edges, rows, app>>

None == <<>>

(* The ids of the file decide which log group ends in which id. *)
Rows == INSTANCE Attribution WITH EndsIn <- yaml.endsIn, NoRow <- NoFn

Init ==
    /\ yaml \in Yamls /\ at = "yaml"
    /\ parsed = None /\ nodes = None /\ edges = None /\ app = None
    /\ rows = {}

-----------------------------------------------------------------------------
Orders(S) == Bijection(1..Cardinality(S), S)

Default(x, default) == IF x = 0 THEN default ELSE x

(* The path without the ids that name no function. *)
Known(path) ==
    FlattenSeq([i \in 1..Len(path) |->
        IF path[i] \in Fn THEN <<path[i]>> ELSE <<>>])

(* A mistake: the functions of the critical path listed again. *)
PathThenAll(path) == {Known(path) \o rest : rest \in Orders(Fn)}

(* Critical path first, then the rest in map order. *)
PathThenRest(path) ==
    {Known(path) \o rest : rest \in Orders(Fn \ ToSet(path))}

(* The own value of a function, the provider's, the default. *)
Node(f) ==
    [mem     |-> Default(yaml.mem[f], Default(yaml.providerMem, Defaults.mem)),
     timeout |-> Default(yaml.timeout[f],
                         Default(yaml.providerTimeout, Defaults.timeout)),
     avgDuration |-> yaml.avgDuration[f], count |-> yaml.count[f]]

Constraints ==
    [maxMem |-> Default(yaml.maxMem, Defaults.maxMem),
     maxLat |-> Default(yaml.maxLat, Defaults.maxLat),
     hop    |-> Default(yaml.hop, Defaults.hop)]

(* An id the functions block does not have is skipped, with a warning. *)
Parse ==
    /\ at = "yaml"
    /\ at' = "parsed"
    /\ \E order \in PathThenRest(yaml.path) :
          parsed' = [i \in DOMAIN order |-> [id |-> order[i], node |-> Node(order[i])]]
    /\ UNCHANGED <<yaml, nodes, edges, rows, app>>

Children(f) == {g \in Fn : <<f, g>> \in yaml.calls}

(* The calls of each function as the map gives them, a function listed     *)
(* twice being asked twice.                                                *)
BuildGraph ==
    /\ at = "parsed"
    /\ at' = "graph"
    /\ nodes' = [f \in Fn |->
          parsed[SelectInSeq(parsed, LAMBDA p : p.id = f)].node]
    /\ LET CallsOf(f) == {[j \in DOMAIN s |-> <<f, s[j]>>] : s \in Orders(Children(f))}
       IN \E walks \in [DOMAIN parsed -> UNION {CallsOf(f) : f \in Fn}] :
             /\ \A i \in DOMAIN parsed : walks[i] \in CallsOf(parsed[i].id)
             /\ edges' = FlattenSeq(walks)
    /\ UNCHANGED <<yaml, parsed, rows, app>>

(* What the row of r makes of a node. *)
Measured(node, r) ==
    [node EXCEPT !.avgDuration = Telemetry[r].avgDuration, !.count = Telemetry[r].count]

(* Enricher.Enrich writes over the nodes it has rows for; without a role,  *)
(* or when it fails, there are none.                                       *)
Enrich ==
    /\ at = "graph"
    /\ at' = "enriched"
    /\ \E measured \in SUBSET Fn : \E given \in Rows!Attributions(measured) :
          /\ rows' = measured
          /\ nodes' = [f \in Fn |-> IF given[f] = NoFn THEN nodes[f]
                                    ELSE Measured(nodes[f], given[f])]
    /\ UNCHANGED <<yaml, parsed, edges, app>>

(* A mistake: caller and callee confused. *)
ParentOfReversed(f) ==
    LET last == SelectLastInSeq(edges, LAMBDA e : e[1] = f)
    IN IF last = 0 THEN NoFn ELSE edges[last][2]

(* AddChild: the caller wired last. *)
ParentOf(f) ==
    LET last == SelectLastInSeq(edges, LAMBDA e : e[2] = f)
    IN IF last = 0 THEN NoFn ELSE edges[last][1]

(* A mistake: the entry is the first function. *)
FirstFunction(functions) == functions[1]

(* The first function nothing calls, if there is one. *)
EntryFunction(functions) ==
    LET i == SelectInSeq(functions, LAMBDA f : ParentOf(f) = NoFn)
    IN IF i = 0 THEN NoFn ELSE functions[i]

InvocationRate(entry, f) ==
    IF entry # NoFn /\ nodes[entry].count > 0 /\ nodes[f].count > 0
    THEN (nodes[f].count * RateUnit) \div nodes[entry].count
    ELSE RateUnit

GraphToApp ==
    /\ at = "enriched"
    /\ at' = "app"
    /\ \E functions \in PathThenRest(yaml.path) :
          app' = [functions |-> functions, edges |-> ToSet(edges),
                  parent |-> [f \in Fn |-> ParentOf(f)],
                  bytes |-> [e \in ToSet(edges) |-> 1],
                  mem |-> [f \in Fn |-> nodes[f].mem],
                  timeout |-> [f \in Fn |-> nodes[f].timeout],
                  avgDuration |-> [f \in Fn |-> nodes[f].avgDuration],
                  rate |-> [f \in Fn |-> InvocationRate(EntryFunction(functions), f)],
                  critPath |-> Known(yaml.path),
                  maxMem |-> Constraints.maxMem, maxLat |-> Constraints.maxLat,
                  hop |-> Constraints.hop, transferPrice |-> yaml.price]
    /\ UNCHANGED <<yaml, parsed, nodes, edges, rows>>

Terminating == at = "app" /\ UNCHANGED vars

Next == Parse \/ BuildGraph \/ Enrich \/ GraphToApp \/ Terminating

Spec == Init /\ [][Next]_vars

-----------------------------------------------------------------------------
Distinct(s) == \A i, j \in DOMAIN s : s[i] = s[j] => i = j

KnownCalls == {e \in yaml.calls : e[1] \in Fn /\ e[2] \in Fn}

Callers(f) == {g \in Fn : <<g, f>> \in yaml.calls}

Roots == {f \in Fn : Callers(f) = {}}

(* Whatever the file says and however the maps are walked, what the        *)
(* algorithms get has the calls of the file between known functions.  As   *)
(* long as no function is named twice on the critical path it is an        *)
(* application as they assume it, and no call is wired twice: AddChild     *)
(* appends, so that a second time would be charged as a call of its own.   *)
BuildsAnApplication ==
    at = "app" =>
        /\ app.edges = KnownCalls
        /\ Distinct(Known(yaml.path)) => Application(app) /\ Distinct(edges)

(* A function whose id ends no other log group never carries the           *)
(* measurements of another; if its own ends in no other id either, it      *)
(* carries its own whenever there are any.                                 *)
TelemetryIsItsOwn ==
    at \in {"enriched", "app"} =>
        \A f \in Fn : (\A g \in Fn : <<g, f>> \notin yaml.endsIn) =>
            LET file == Node(f)
            IN /\ f \notin rows => nodes[f] = file
               /\ nodes[f] \in {file, Measured(file, f)}
               /\ f \in rows /\ (\A g \in Fn : <<f, g>> \notin yaml.endsIn)
                  => nodes[f] = Measured(file, f)

(* The request charge does not depend on the walks where the file says who *)
(* invokes whom and the counts are all of one source, the file or          *)
(* CloudWatch: with one caller at most for each function and one entry,    *)
(* the charge of every group is that of the calls that enter it, at that   *)
(* source's rates.                                                         *)
ChargeIsThatOfOneSource ==
    at = "app" /\ Cardinality(Roots) = 1 /\ (\A f \in Fn : Cardinality(Callers(f)) <= 1)
    /\ (rows = {} \/ (rows = Fn /\ yaml.endsIn = {}))
    => LET count == IF rows = {} THEN yaml.count ELSE [f \in Fn |-> Telemetry[f].count]
           base == count[CHOOSE r \in Roots : TRUE]
           rate == [f \in Fn |-> IF base > 0 /\ count[f] > 0
                                  THEN (count[f] * RateUnit) \div base ELSE RateUnit]
       IN \A G \in SUBSET Fn :
             BlockInvocationRate(app, G) =
                 SumFunctionOnSet(rate, {f \in G : Callers(f) \cap G = {}})
=============================================================================
