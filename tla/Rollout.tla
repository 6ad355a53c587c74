------------------------------ MODULE Rollout -------------------------------
(***************************************************************************)
(* Kubernetes replaces a gateway and an optimizer, together or one after   *)
(* the other, while requests arrive and call the optimizer.                *)
(***************************************************************************)
EXTENDS GatewayProcess

(* The two promises of the comments at defaultDrainDelay and               *)
(* defaultShutdownTimeout: the drain outlasts the propagation, and the     *)
(* shutdown the grace does not.  The 5 s of stopMetrics are within the     *)
(* grace: behind a listener that failed, calls wait for it.                *)
ASSUME RolloutAssumption ==
    /\ Propagation < DrainDelay
    /\ DrainDelay + ShutdownTimeout < Grace
    /\ MetricsTimeout < Grace

vars == <<podVars, serverVars, gatewayVars>>

Init == PodsInit /\ ServerInit /\ GatewayInit

-----------------------------------------------------------------------------
(* Kubelet and endpoint controller.  A process that has ended is no longer *)
(* sent SIGTERM.                                                           *)
Cluster ==
    /\ \/ acceptor = "accepting" /\ health = "SERVING" /\ Ready("optimizer")
       \/ listener = "accepting" /\ Ready("gateway")
       \/ \E p \in Pod : Terminate(p) \/ Removed(p)
    /\ UNCHANGED <<serverVars, gatewayVars>>

(* SIGKILL *)
Kill ==
    IF GraceIsOver("gateway") THEN GatewayEnds("killed", "killed")
    ELSE /\ GraceIsOver("optimizer")
         /\ ServerEnds("killed", "killed") /\ UNCHANGED gatewayVars

Server ==
    /\ ServerStep \/ \E r \in Request : HandlerReturns(r)
    /\ UNCHANGED gatewayVars

Gateway == GatewayStep \/ Requests

Decrement(timer) == IF timer > 0 THEN timer - 1 ELSE 0

Tick ==
    /\ \E p \in Pod : pod[p] = "terminating"
    /\ ~ServerDue /\ ~GatewayDue /\ PodsLetTimePass
    /\ PodsTick
    /\ serverTimer' = Decrement(serverTimer)
    /\ gatewayTimer' = Decrement(gatewayTimer)
    /\ UNCHANGED <<server, acceptor, health, connected, call, handling,
                   gateway, listener, fate, handler>>

Next == Cluster \/ Kill \/ Server \/ Gateway \/ Tick

Spec == Init /\ [][Next]_vars

EndpointsDue ==
    \E p \in Pod : Removed(p) /\ UNCHANGED <<serverVars, gatewayVars>>

(* Timers fire, goroutines that are due run, Kubernetes keeps its times.   *)
(* Nothing is assumed of handlers, clients or the goroutines that accept.  *)
FairSpec ==
    /\ Spec
    /\ WF_vars(Tick) /\ WF_vars(Kill) /\ WF_vars(EndpointsDue)
    /\ WF_vars(ServerDue /\ ServerStep /\ UNCHANGED gatewayVars)
    /\ WF_vars(GatewayDue /\ GatewayStep)

-----------------------------------------------------------------------------
(* The types of the state. *)
TypeOK == PodsTypeOK /\ ServerTypeOK /\ GatewayTypeOK

(* While the endpoints are out of date the pod they lead to still answers: *)
(* no request and no call is refused, except by a process whose listener   *)
(* failed or that a signal found without a handler.                        *)
NoneRefused ==
    \A r \in Request :
        /\ fate[r] = "refused" => gateway = "died"
        /\ call[r] = "refused" => acceptor = "failed"

(* The grace outlasts every shutdown of the gateway, and although the      *)
(* metrics server of the service, or a handler that nobody waits for, may  *)
(* outlast the grace, SIGKILL finds nobody who waits for an answer.        *)
KilledBehindTheWork ==
    /\ gateway # "killed"
    /\ \A r \in Request : call[r] # "killed"

(* Both implement OrderlyStop. *)
ServerStopsOrderly == ServerStops!FairSpec
GatewayStopsOrderly == GatewayStops!FairSpec
=============================================================================
