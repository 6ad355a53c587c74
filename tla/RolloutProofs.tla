--------------------------- MODULE RolloutProofs ----------------------------
(***************************************************************************)
(* What Rollout promises of a replacement holds for any number of          *)
(* requests and for all times in the order of RolloutAssumption.  The      *)
(* invariant ties the timers of the two processes to what is left of the   *)
(* graces of their pods: both count the same time, so that the sums of     *)
(* the timeouts bound what Kubernetes may see of them.                     *)
(***************************************************************************)
EXTENDS Rollout, TLAPS

(* What the goroutine of main of the gateway does, and since when.  It     *)
(* reacts to the signal before time passes; the end of the drain and the   *)
(* timeout of Shutdown are counted from there, the metrics within the      *)
(* same timeout.                                                           *)
GatewayIsInTime ==
    /\ gateway \in {"starting", "serving"} => grace["gateway"] = Grace
    /\ gateway \in {"draining", "stopping", "metrics"}
          => pod["gateway"] = "terminating"
    /\ gateway = "draining" =>
          /\ gatewayTimer <= DrainDelay
          /\ grace["gateway"] = Grace - DrainDelay + gatewayTimer
    /\ gateway \in {"stopping", "metrics"} =>
          /\ gatewayTimer <= ShutdownTimeout
          /\ grace["gateway"] = Grace - DrainDelay - ShutdownTimeout + gatewayTimer

(* So it is with the service, but nothing bounds Stop and its metrics      *)
(* server outlasts the grace; a service that fails may be anywhere in its  *)
(* grace.                                                                  *)
ServerIsInTime ==
    /\ pod["optimizer"] = "running" \/ server = "listening"
          => grace["optimizer"] = Grace
    /\ server \in {"draining", "stopping", "forcing", "metrics"}
          => pod["optimizer"] = "terminating"
    /\ server = "draining" =>
          /\ serverTimer <= DrainDelay
          /\ grace["optimizer"] = Grace - DrainDelay + serverTimer
    /\ server = "stopping" =>
          /\ serverTimer <= ShutdownTimeout
          /\ grace["optimizer"] = Grace - DrainDelay - ShutdownTimeout + serverTimer
    /\ server \in {"forcing", "metrics"} => grace["optimizer"] <= Grace - DrainDelay
    /\ server = "failing"
          => grace["optimizer"] >= Grace - MetricsTimeout + serverTimer

(* Kubernetes leads nobody to a process before its listener accepts, nor   *)
(* to one that has closed it.                                              *)
EndpointsAreRight ==
    /\ \A p \in Pod : pod[p] = "terminating" /\ endpoint[p] = "in"
          => grace[p] >= Grace - Propagation
    /\ endpoint["gateway"] # "not_yet" => listener # "starting"
    /\ endpoint["optimizer"] # "not_yet" => acceptor # "starting"
    /\ gateway \in {"stopping", "metrics", "exited"} => endpoint["gateway"] # "in"
    /\ server \in {"stopping", "forcing", "metrics"} \cup Ended /\ acceptor # "failed"
          => endpoint["optimizer"] # "in"

(* The goroutines that accept follow those of main.                        *)
SocketsFollow ==
    /\ listener = "closed" <=> gateway \in {"stopping", "metrics"} \cup Dead
    /\ acceptor = "accepting" => server \in {"listening", "draining"}
    /\ acceptor = "closed" => server \in {"stopping", "forcing", "metrics"} \cup Ended
    /\ server = "failing" => acceptor = "failed"
    /\ connected => server \in {"listening", "draining", "failing"}

(* Who waits, and for whom.                                                *)
WaitingIsForSomebody ==
    \A r \in Request :
        /\ call[r] = "waiting" =>
              /\ handler[r] = "optimizing"
              /\ server \in {"listening", "draining", "failing", "stopping"}
        /\ Active(r) => fate[r] \in {"waiting", "left", "cut"} /\ gateway \notin Dead
        /\ fate[r] = "waiting" => gateway \notin Dead \cup {"metrics"}

IInv ==
    /\ TypeOK
    /\ GatewayIsInTime
    /\ ServerIsInTime
    /\ EndpointsAreRight
    /\ SocketsFollow
    /\ WaitingIsForSomebody
    /\ NoneRefused
    /\ KilledBehindTheWork
    /\ DrainIsAnnounced
    /\ CallsOutliveTheirRequests

(* The times are numbers, the drain outlasts the propagation, and every    *)
(* shutdown is within the grace.                                           *)
LEMMA TimesInOrder ==
    /\ Grace \in Nat /\ Propagation \in Nat /\ DrainDelay \in Nat
    /\ ShutdownTimeout \in Nat /\ MetricsTimeout \in Nat
    /\ Propagation < DrainDelay
    /\ DrainDelay + ShutdownTimeout < Grace
    /\ MetricsTimeout < Grace
  BY GraceAssumption, TimesAssumption, RolloutAssumption

(* Nothing has happened.                                                   *)
LEMMA InitIInv == Init => IInv
<1> SUFFICES ASSUME Init PROVE IInv
  OBVIOUS
<1> USE DEF Init, PodsInit, ServerInit, GatewayInit
<1>1. TypeOK
  <2>1. PodsTypeOK
    BY TimesInOrder DEF PodsTypeOK, Pod
  <2>2. connected \in BOOLEAN
    OBVIOUS
  <2>3. ServerTypeOK
    BY TimesInOrder, <2>2 DEF ServerTypeOK, Pod, Ended
  <2>4. GatewayTypeOK
    BY TimesInOrder DEF GatewayTypeOK, Pod, Dead, Active
  <2> QED
    BY <2>1, <2>3, <2>4 DEF TypeOK
<1>2. GatewayIsInTime /\ ServerIsInTime
  BY DEF GatewayIsInTime, ServerIsInTime, Pod
<1>3. EndpointsAreRight /\ SocketsFollow
  BY DEF EndpointsAreRight, SocketsFollow, Pod, Ended, Dead
<1>4. WaitingIsForSomebody /\ NoneRefused /\ KilledBehindTheWork
      /\ DrainIsAnnounced /\ CallsOutliveTheirRequests
  BY DEF WaitingIsForSomebody, NoneRefused, KilledBehindTheWork, DrainIsAnnounced,
         CallsOutliveTheirRequests, Active
<1> QED
  BY <1>1, <1>2, <1>3, <1>4 DEF IInv

USE DEF podVars, serverVars, gatewayVars, Pod, Ended, Dead, Active

(* SIGKILL never meets the gateway, and the service only where it waits    *)
(* for its metrics server or for handlers that nobody waits for.           *)
LEMMA KilledLast ==
  ASSUME IInv, Kill
  PROVE  /\ server \in {"forcing", "metrics"}
         /\ ServerEnds("killed", "killed") /\ UNCHANGED gatewayVars
<1>1. ~GraceIsOver("gateway")
  BY TimesInOrder
     DEF IInv, TypeOK, PodsTypeOK, GatewayTypeOK, GatewayIsInTime, GraceIsOver
<1>2. GraceIsOver("optimizer") => server \in {"forcing", "metrics"}
  BY TimesInOrder
     DEF IInv, TypeOK, PodsTypeOK, ServerTypeOK, ServerIsInTime, GraceIsOver
<1> QED
  BY <1>1, <1>2 DEF Kill

-----------------------------------------------------------------------------
(* Kubernetes *)

(* The probe finds the optimizer accepting, not yet draining.              *)
LEMMA ReadyOptimizerIInv ==
  ASSUME IInv, acceptor = "accepting", health = "SERVING", Ready("optimizer"),
         UNCHANGED serverVars, UNCHANGED gatewayVars
  PROVE  IInv'
<1>1. PodsTypeOK'
  BY TimesInOrder DEF IInv, TypeOK, PodsTypeOK, Ready
<1>2. EndpointsAreRight'
  BY TimesInOrder
     DEF IInv, TypeOK, EndpointsAreRight, PodsTypeOK, GatewayTypeOK,
         ServerTypeOK, GatewayIsInTime, ServerIsInTime, SocketsFollow, Ready
<1>3. DrainIsAnnounced'
  BY TimesInOrder
     DEF IInv, TypeOK, DrainIsAnnounced, EndpointsAreRight, ServerIsInTime,
         Ready
<1>4. (ServerTypeOK /\ GatewayTypeOK /\ GatewayIsInTime /\ ServerIsInTime
      /\ SocketsFollow /\ WaitingIsForSomebody /\ NoneRefused
      /\ KilledBehindTheWork /\ CallsOutliveTheirRequests)'
  BY DEF IInv, TypeOK, ServerTypeOK, GatewayTypeOK, GatewayIsInTime,
         ServerIsInTime, SocketsFollow, WaitingIsForSomebody, NoneRefused,
         KilledBehindTheWork, CallsOutliveTheirRequests, Ready
<1> QED
  BY <1>1, <1>2, <1>3, <1>4 DEF IInv, TypeOK

(* The probe finds the gateway accepting.                                  *)
LEMMA ReadyGatewayIInv ==
  ASSUME IInv, listener = "accepting", Ready("gateway"),
         UNCHANGED serverVars, UNCHANGED gatewayVars
  PROVE  IInv'
<1>1. PodsTypeOK'
  BY TimesInOrder DEF IInv, TypeOK, PodsTypeOK, Ready
<1>2. EndpointsAreRight'
  BY TimesInOrder
     DEF IInv, TypeOK, EndpointsAreRight, PodsTypeOK, GatewayTypeOK,
         ServerTypeOK, GatewayIsInTime, ServerIsInTime, SocketsFollow, Ready
<1>3. DrainIsAnnounced'
  BY TimesInOrder
     DEF IInv, TypeOK, DrainIsAnnounced, EndpointsAreRight, ServerIsInTime,
         Ready
<1>4. (ServerTypeOK /\ GatewayTypeOK /\ GatewayIsInTime /\ ServerIsInTime
      /\ SocketsFollow /\ WaitingIsForSomebody /\ NoneRefused
      /\ KilledBehindTheWork /\ CallsOutliveTheirRequests)'
  BY DEF IInv, TypeOK, ServerTypeOK, GatewayTypeOK, GatewayIsInTime,
         ServerIsInTime, SocketsFollow, WaitingIsForSomebody, NoneRefused,
         KilledBehindTheWork, CallsOutliveTheirRequests, Ready
<1> QED
  BY <1>1, <1>2, <1>3, <1>4 DEF IInv, TypeOK

(* SIGTERM starts the grace.                                               *)
LEMMA TerminateIInv ==
  ASSUME IInv, NEW p \in Pod, Terminate(p),
         UNCHANGED serverVars, UNCHANGED gatewayVars
  PROVE  IInv'
<1>1. PodsTypeOK'
  BY TimesInOrder DEF IInv, TypeOK, PodsTypeOK, Terminate
<1>2. ServerTypeOK'
  BY TimesInOrder
     DEF IInv, TypeOK, ServerTypeOK, PodsTypeOK, SocketsFollow,
         WaitingIsForSomebody, ServerIsInTime, Terminate
<1>3. GatewayTypeOK'
  BY TimesInOrder
     DEF IInv, TypeOK, GatewayTypeOK, PodsTypeOK, GatewayIsInTime, Terminate
<1>4. GatewayIsInTime'
  BY TimesInOrder
     DEF IInv, TypeOK, GatewayIsInTime, PodsTypeOK, GatewayTypeOK, Terminate
<1>5. ServerIsInTime'
  BY TimesInOrder
     DEF IInv, TypeOK, ServerIsInTime, PodsTypeOK, ServerTypeOK,
         SocketsFollow, Terminate
<1>6. EndpointsAreRight'
  BY TimesInOrder
     DEF IInv, TypeOK, EndpointsAreRight, PodsTypeOK, GatewayTypeOK,
         ServerTypeOK, GatewayIsInTime, ServerIsInTime, SocketsFollow,
         Terminate
<1>7. (SocketsFollow /\ WaitingIsForSomebody /\ NoneRefused
      /\ KilledBehindTheWork /\ DrainIsAnnounced
      /\ CallsOutliveTheirRequests)'
  BY DEF IInv, TypeOK, SocketsFollow, WaitingIsForSomebody, NoneRefused,
         KilledBehindTheWork, DrainIsAnnounced, CallsOutliveTheirRequests,
         Terminate
<1> QED
  BY <1>1, <1>2, <1>3, <1>4, <1>5, <1>6, <1>7 DEF IInv, TypeOK

(* A pod that is out stays out.                                            *)
LEMMA RemovedIInv ==
  ASSUME IInv, NEW p \in Pod, Removed(p),
         UNCHANGED serverVars, UNCHANGED gatewayVars
  PROVE  IInv'
<1>1. PodsTypeOK'
  BY TimesInOrder DEF IInv, TypeOK, PodsTypeOK, Removed
<1>2. EndpointsAreRight'
  BY TimesInOrder
     DEF IInv, TypeOK, EndpointsAreRight, PodsTypeOK, GatewayTypeOK,
         ServerTypeOK, GatewayIsInTime, ServerIsInTime, SocketsFollow, Removed
<1>3. DrainIsAnnounced'
  BY TimesInOrder
     DEF IInv, TypeOK, DrainIsAnnounced, EndpointsAreRight, ServerIsInTime,
         Removed
<1>4. (ServerTypeOK /\ GatewayTypeOK /\ GatewayIsInTime /\ ServerIsInTime
      /\ SocketsFollow /\ WaitingIsForSomebody /\ NoneRefused
      /\ KilledBehindTheWork /\ CallsOutliveTheirRequests)'
  BY DEF IInv, TypeOK, ServerTypeOK, GatewayTypeOK, GatewayIsInTime,
         ServerIsInTime, SocketsFollow, WaitingIsForSomebody, NoneRefused,
         KilledBehindTheWork, CallsOutliveTheirRequests, Removed
<1> QED
  BY <1>1, <1>2, <1>3, <1>4 DEF IInv, TypeOK

(* SIGKILL behind the last caller.                                         *)
LEMMA KillIInv ==
  ASSUME IInv, server \in {"forcing", "metrics"}, ServerEnds("killed", "killed"),
         UNCHANGED gatewayVars
  PROVE  IInv'
<1>1. PodsTypeOK'
  BY TimesInOrder DEF IInv, TypeOK, PodsTypeOK, ServerEnds, Ends, CallsBecome
<1>2. ServerTypeOK'
  <2>1. connected' \in BOOLEAN
    BY DEF ServerEnds
  <2>2. /\ server' \in {"listening", "draining", "stopping", "forcing", "metrics",
                       "failing", "exited", "killed"}
        /\ serverTimer' \in 0..(DrainDelay + ShutdownTimeout + MetricsTimeout)
        /\ acceptor' \in {"starting", "accepting", "closed", "failed"}
        /\ health' \in {"SERVING", "NOT_SERVING"}
        /\ call' \in [Request -> {"none", "waiting", "answered", "left", "refused",
                                  "elsewhere", "cut", "killed"}]
        /\ handling' \subseteq Request
        /\ \A r \in Request : call'[r] = "waiting" => r \in handling'
        /\ server' \in {"exited", "killed"} <=> pod'["optimizer"] = "gone"
    BY TimesInOrder
       DEF IInv, TypeOK, ServerTypeOK, PodsTypeOK, SocketsFollow,
           WaitingIsForSomebody, ServerIsInTime, ServerEnds, Ends, CallsBecome
  <2> QED
    BY <2>1, <2>2 DEF ServerTypeOK
<1>3. GatewayTypeOK'
  BY TimesInOrder
     DEF IInv, TypeOK, GatewayTypeOK, PodsTypeOK, GatewayIsInTime, ServerEnds,
         Ends, CallsBecome
<1>4. GatewayIsInTime'
  BY TimesInOrder
     DEF IInv, TypeOK, GatewayIsInTime, PodsTypeOK, GatewayTypeOK, ServerEnds,
         Ends, CallsBecome
<1>5. ServerIsInTime'
  BY TimesInOrder
     DEF IInv, TypeOK, ServerIsInTime, PodsTypeOK, ServerTypeOK,
         SocketsFollow, ServerEnds, Ends, CallsBecome
<1>6. EndpointsAreRight'
  BY TimesInOrder
     DEF IInv, TypeOK, EndpointsAreRight, PodsTypeOK, GatewayTypeOK,
         ServerTypeOK, GatewayIsInTime, ServerIsInTime, SocketsFollow,
         ServerEnds, Ends, CallsBecome
<1>7. SocketsFollow'
  BY TimesInOrder
     DEF IInv, TypeOK, SocketsFollow, PodsTypeOK, GatewayTypeOK, ServerTypeOK,
         ServerIsInTime, ServerEnds, Ends, CallsBecome
<1>8. WaitingIsForSomebody'
  BY TimesInOrder
     DEF IInv, TypeOK, WaitingIsForSomebody, GatewayTypeOK, ServerTypeOK,
         SocketsFollow, ServerEnds, Ends, CallsBecome
<1>9. NoneRefused'
  BY TimesInOrder
     DEF IInv, TypeOK, NoneRefused, GatewayTypeOK, ServerTypeOK,
         EndpointsAreRight, SocketsFollow, KilledBehindTheWork, ServerEnds,
         Ends, CallsBecome
<1>10. KilledBehindTheWork'
  BY TimesInOrder
     DEF IInv, TypeOK, KilledBehindTheWork, GatewayTypeOK, ServerTypeOK,
         WaitingIsForSomebody, ServerIsInTime, GatewayIsInTime, ServerEnds,
         Ends, CallsBecome
<1>11. DrainIsAnnounced'
  BY TimesInOrder
     DEF IInv, TypeOK, DrainIsAnnounced, EndpointsAreRight, ServerIsInTime,
         ServerEnds, Ends, CallsBecome
<1>12. CallsOutliveTheirRequests'
  BY TimesInOrder
     DEF IInv, TypeOK, CallsOutliveTheirRequests, WaitingIsForSomebody,
         GatewayTypeOK, ServerTypeOK, ServerEnds, Ends, CallsBecome
<1> QED
  BY <1>1, <1>2, <1>3, <1>4, <1>5, <1>6, <1>7, <1>8, <1>9, <1>10, <1>11, <1>12
     DEF IInv, TypeOK

-----------------------------------------------------------------------------
(* The service *)

(* A late accept goroutine sets SERVING, before any probe.                 *)
LEMMA AcceptCallsIInv ==
  ASSUME IInv, AcceptCalls, UNCHANGED podVars, UNCHANGED gatewayVars
  PROVE  IInv'
<1>1. ServerTypeOK'
  BY TimesInOrder
     DEF IInv, TypeOK, ServerTypeOK, PodsTypeOK, SocketsFollow,
         WaitingIsForSomebody, ServerIsInTime, AcceptCalls
<1>2. EndpointsAreRight'
  BY TimesInOrder
     DEF IInv, TypeOK, EndpointsAreRight, PodsTypeOK, GatewayTypeOK,
         ServerTypeOK, GatewayIsInTime, ServerIsInTime, SocketsFollow,
         AcceptCalls
<1>3. SocketsFollow'
  BY TimesInOrder
     DEF IInv, TypeOK, SocketsFollow, PodsTypeOK, GatewayTypeOK, ServerTypeOK,
         ServerIsInTime, AcceptCalls
<1>4. NoneRefused'
  BY TimesInOrder
     DEF IInv, TypeOK, NoneRefused, GatewayTypeOK, ServerTypeOK,
         EndpointsAreRight, SocketsFollow, KilledBehindTheWork, AcceptCalls
<1>5. DrainIsAnnounced'
  BY TimesInOrder
     DEF IInv, TypeOK, DrainIsAnnounced, EndpointsAreRight, ServerIsInTime,
         AcceptCalls
<1>6. (PodsTypeOK /\ GatewayTypeOK /\ GatewayIsInTime /\ ServerIsInTime
      /\ WaitingIsForSomebody /\ KilledBehindTheWork
      /\ CallsOutliveTheirRequests)'
  BY DEF IInv, TypeOK, PodsTypeOK, GatewayTypeOK, GatewayIsInTime,
         ServerIsInTime, WaitingIsForSomebody, KilledBehindTheWork,
         CallsOutliveTheirRequests, AcceptCalls
<1> QED
  BY <1>1, <1>2, <1>3, <1>4, <1>5, <1>6 DEF IInv, TypeOK

(* Calls are refused by a listener that failed.                            *)
LEMMA AcceptFailsIInv ==
  ASSUME IInv, AcceptFails, UNCHANGED podVars, UNCHANGED gatewayVars
  PROVE  IInv'
<1>1. ServerTypeOK'
  BY TimesInOrder
     DEF IInv, TypeOK, ServerTypeOK, PodsTypeOK, SocketsFollow,
         WaitingIsForSomebody, ServerIsInTime, AcceptFails
<1>2. EndpointsAreRight'
  BY TimesInOrder
     DEF IInv, TypeOK, EndpointsAreRight, PodsTypeOK, GatewayTypeOK,
         ServerTypeOK, GatewayIsInTime, ServerIsInTime, SocketsFollow,
         AcceptFails
<1>3. SocketsFollow'
  BY TimesInOrder
     DEF IInv, TypeOK, SocketsFollow, PodsTypeOK, GatewayTypeOK, ServerTypeOK,
         ServerIsInTime, AcceptFails
<1>4. NoneRefused'
  BY TimesInOrder
     DEF IInv, TypeOK, NoneRefused, GatewayTypeOK, ServerTypeOK,
         EndpointsAreRight, SocketsFollow, KilledBehindTheWork, AcceptFails
<1>5. (PodsTypeOK /\ GatewayTypeOK /\ GatewayIsInTime /\ ServerIsInTime
      /\ WaitingIsForSomebody /\ KilledBehindTheWork /\ DrainIsAnnounced
      /\ CallsOutliveTheirRequests)'
  BY DEF IInv, TypeOK, PodsTypeOK, GatewayTypeOK, GatewayIsInTime,
         ServerIsInTime, WaitingIsForSomebody, KilledBehindTheWork,
         DrainIsAnnounced, CallsOutliveTheirRequests, AcceptFails
<1> QED
  BY <1>1, <1>2, <1>3, <1>4, <1>5 DEF IInv, TypeOK

(* A service that fails ends within its metrics timeout.                   *)
LEMMA ServeFailsIInv ==
  ASSUME IInv, ServeFails, UNCHANGED podVars, UNCHANGED gatewayVars
  PROVE  IInv'
<1>1. ServerTypeOK'
  BY TimesInOrder
     DEF IInv, TypeOK, ServerTypeOK, PodsTypeOK, SocketsFollow,
         WaitingIsForSomebody, ServerIsInTime, ServeFails
<1>2. ServerIsInTime'
  BY TimesInOrder
     DEF IInv, TypeOK, ServerIsInTime, PodsTypeOK, ServerTypeOK,
         SocketsFollow, ServeFails
<1>3. EndpointsAreRight'
  BY TimesInOrder
     DEF IInv, TypeOK, EndpointsAreRight, PodsTypeOK, GatewayTypeOK,
         ServerTypeOK, GatewayIsInTime, ServerIsInTime, SocketsFollow,
         ServeFails
<1>4. SocketsFollow'
  BY TimesInOrder
     DEF IInv, TypeOK, SocketsFollow, PodsTypeOK, GatewayTypeOK, ServerTypeOK,
         ServerIsInTime, ServeFails
<1>5. WaitingIsForSomebody'
  BY TimesInOrder
     DEF IInv, TypeOK, WaitingIsForSomebody, GatewayTypeOK, ServerTypeOK,
         SocketsFollow, ServeFails
<1>6. DrainIsAnnounced'
  BY TimesInOrder
     DEF IInv, TypeOK, DrainIsAnnounced, EndpointsAreRight, ServerIsInTime,
         ServeFails
<1>7. (PodsTypeOK /\ GatewayTypeOK /\ GatewayIsInTime /\ NoneRefused
      /\ KilledBehindTheWork /\ CallsOutliveTheirRequests)'
  BY DEF IInv, TypeOK, PodsTypeOK, GatewayTypeOK, GatewayIsInTime,
         NoneRefused, KilledBehindTheWork, CallsOutliveTheirRequests,
         ServeFails
<1> QED
  BY <1>1, <1>2, <1>3, <1>4, <1>5, <1>6, <1>7 DEF IInv, TypeOK

(* Readiness is failed at the signal.                                      *)
LEMMA DrainIInv ==
  ASSUME IInv, Drain, UNCHANGED podVars, UNCHANGED gatewayVars
  PROVE  IInv'
<1>1. ServerTypeOK'
  BY TimesInOrder
     DEF IInv, TypeOK, ServerTypeOK, PodsTypeOK, SocketsFollow,
         WaitingIsForSomebody, ServerIsInTime, Drain
<1>2. ServerIsInTime'
  BY TimesInOrder
     DEF IInv, TypeOK, ServerIsInTime, PodsTypeOK, ServerTypeOK,
         SocketsFollow, Drain
<1>3. EndpointsAreRight'
  BY TimesInOrder
     DEF IInv, TypeOK, EndpointsAreRight, PodsTypeOK, GatewayTypeOK,
         ServerTypeOK, GatewayIsInTime, ServerIsInTime, SocketsFollow, Drain
<1>4. SocketsFollow'
  BY TimesInOrder
     DEF IInv, TypeOK, SocketsFollow, PodsTypeOK, GatewayTypeOK, ServerTypeOK,
         ServerIsInTime, Drain
<1>5. WaitingIsForSomebody'
  BY TimesInOrder
     DEF IInv, TypeOK, WaitingIsForSomebody, GatewayTypeOK, ServerTypeOK,
         SocketsFollow, Drain
<1>6. DrainIsAnnounced'
  BY TimesInOrder
     DEF IInv, TypeOK, DrainIsAnnounced, EndpointsAreRight, ServerIsInTime,
         Drain
<1>7. (PodsTypeOK /\ GatewayTypeOK /\ GatewayIsInTime /\ NoneRefused
      /\ KilledBehindTheWork /\ CallsOutliveTheirRequests)'
  BY DEF IInv, TypeOK, PodsTypeOK, GatewayTypeOK, GatewayIsInTime,
         NoneRefused, KilledBehindTheWork, CallsOutliveTheirRequests, Drain
<1> QED
  BY <1>1, <1>2, <1>3, <1>4, <1>5, <1>6, <1>7 DEF IInv, TypeOK

(* The listener closes when the endpoints know of it.                      *)
LEMMA GracefulStopIInv ==
  ASSUME IInv, GracefulStop, UNCHANGED podVars, UNCHANGED gatewayVars
  PROVE  IInv'
<1>1. ServerTypeOK'
  <2>1. connected' \in BOOLEAN
    BY DEF GracefulStop
  <2>2. /\ server' \in {"listening", "draining", "stopping", "forcing", "metrics",
                       "failing", "exited", "killed"}
        /\ serverTimer' \in 0..(DrainDelay + ShutdownTimeout + MetricsTimeout)
        /\ acceptor' \in {"starting", "accepting", "closed", "failed"}
        /\ health' \in {"SERVING", "NOT_SERVING"}
        /\ call' \in [Request -> {"none", "waiting", "answered", "left", "refused",
                                  "elsewhere", "cut", "killed"}]
        /\ handling' \subseteq Request
        /\ \A r \in Request : call'[r] = "waiting" => r \in handling'
        /\ server' \in {"exited", "killed"} <=> pod'["optimizer"] = "gone"
    BY TimesInOrder
       DEF IInv, TypeOK, ServerTypeOK, PodsTypeOK, SocketsFollow,
           WaitingIsForSomebody, ServerIsInTime, GracefulStop
  <2> QED
    BY <2>1, <2>2 DEF ServerTypeOK
<1>2. ServerIsInTime'
  BY TimesInOrder
     DEF IInv, TypeOK, ServerIsInTime, PodsTypeOK, ServerTypeOK,
         SocketsFollow, GracefulStop
<1>3. EndpointsAreRight'
  BY TimesInOrder
     DEF IInv, TypeOK, EndpointsAreRight, PodsTypeOK, GatewayTypeOK,
         ServerTypeOK, GatewayIsInTime, ServerIsInTime, SocketsFollow,
         GracefulStop
<1>4. SocketsFollow'
  BY TimesInOrder
     DEF IInv, TypeOK, SocketsFollow, PodsTypeOK, GatewayTypeOK, ServerTypeOK,
         ServerIsInTime, GracefulStop
<1>5. WaitingIsForSomebody'
  BY TimesInOrder
     DEF IInv, TypeOK, WaitingIsForSomebody, GatewayTypeOK, ServerTypeOK,
         SocketsFollow, GracefulStop
<1>6. NoneRefused'
  BY TimesInOrder
     DEF IInv, TypeOK, NoneRefused, GatewayTypeOK, ServerTypeOK,
         EndpointsAreRight, SocketsFollow, KilledBehindTheWork, GracefulStop
<1>7. DrainIsAnnounced'
  BY TimesInOrder
     DEF IInv, TypeOK, DrainIsAnnounced, EndpointsAreRight, ServerIsInTime,
         GracefulStop
<1>8. (PodsTypeOK /\ GatewayTypeOK /\ GatewayIsInTime
      /\ KilledBehindTheWork /\ CallsOutliveTheirRequests)'
  BY DEF IInv, TypeOK, PodsTypeOK, GatewayTypeOK, GatewayIsInTime,
         KilledBehindTheWork, CallsOutliveTheirRequests, GracefulStop
<1> QED
  BY <1>1, <1>2, <1>3, <1>4, <1>5, <1>6, <1>7, <1>8 DEF IInv, TypeOK

(* Without handlers nobody waits.                                          *)
LEMMA StoppedIInv ==
  ASSUME IInv, Stopped, UNCHANGED podVars, UNCHANGED gatewayVars
  PROVE  IInv'
<1>1. ServerTypeOK'
  BY TimesInOrder
     DEF IInv, TypeOK, ServerTypeOK, PodsTypeOK, SocketsFollow,
         WaitingIsForSomebody, ServerIsInTime, Stopped, StopMetrics
<1>2. ServerIsInTime'
  BY TimesInOrder
     DEF IInv, TypeOK, ServerIsInTime, PodsTypeOK, ServerTypeOK,
         SocketsFollow, Stopped, StopMetrics
<1>3. EndpointsAreRight'
  BY TimesInOrder
     DEF IInv, TypeOK, EndpointsAreRight, PodsTypeOK, GatewayTypeOK,
         ServerTypeOK, GatewayIsInTime, ServerIsInTime, SocketsFollow,
         Stopped, StopMetrics
<1>4. SocketsFollow'
  BY TimesInOrder
     DEF IInv, TypeOK, SocketsFollow, PodsTypeOK, GatewayTypeOK, ServerTypeOK,
         ServerIsInTime, Stopped, StopMetrics
<1>5. WaitingIsForSomebody'
  BY TimesInOrder
     DEF IInv, TypeOK, WaitingIsForSomebody, GatewayTypeOK, ServerTypeOK,
         SocketsFollow, Stopped, StopMetrics
<1>6. DrainIsAnnounced'
  BY TimesInOrder
     DEF IInv, TypeOK, DrainIsAnnounced, EndpointsAreRight, ServerIsInTime,
         Stopped, StopMetrics
<1>7. (PodsTypeOK /\ GatewayTypeOK /\ GatewayIsInTime /\ NoneRefused
      /\ KilledBehindTheWork /\ CallsOutliveTheirRequests)'
  BY DEF IInv, TypeOK, PodsTypeOK, GatewayTypeOK, GatewayIsInTime,
         NoneRefused, KilledBehindTheWork, CallsOutliveTheirRequests, Stopped,
         StopMetrics
<1> QED
  BY <1>1, <1>2, <1>3, <1>4, <1>5, <1>6, <1>7 DEF IInv, TypeOK

(* Stop cuts off whoever waits.                                            *)
LEMMA ForceStopIInv ==
  ASSUME IInv, ForceStop, UNCHANGED podVars, UNCHANGED gatewayVars
  PROVE  IInv'
<1>1. ServerTypeOK'
  BY TimesInOrder
     DEF IInv, TypeOK, ServerTypeOK, PodsTypeOK, SocketsFollow,
         WaitingIsForSomebody, ServerIsInTime, ForceStop, StopMetrics,
         CallsBecome
<1>2. ServerIsInTime'
  BY TimesInOrder
     DEF IInv, TypeOK, ServerIsInTime, PodsTypeOK, ServerTypeOK,
         SocketsFollow, ForceStop, StopMetrics, CallsBecome
<1>3. EndpointsAreRight'
  BY TimesInOrder
     DEF IInv, TypeOK, EndpointsAreRight, PodsTypeOK, GatewayTypeOK,
         ServerTypeOK, GatewayIsInTime, ServerIsInTime, SocketsFollow,
         ForceStop, StopMetrics, CallsBecome
<1>4. SocketsFollow'
  BY TimesInOrder
     DEF IInv, TypeOK, SocketsFollow, PodsTypeOK, GatewayTypeOK, ServerTypeOK,
         ServerIsInTime, ForceStop, StopMetrics, CallsBecome
<1>5. WaitingIsForSomebody'
  BY TimesInOrder
     DEF IInv, TypeOK, WaitingIsForSomebody, GatewayTypeOK, ServerTypeOK,
         SocketsFollow, ForceStop, StopMetrics, CallsBecome
<1>6. NoneRefused'
  BY TimesInOrder
     DEF IInv, TypeOK, NoneRefused, GatewayTypeOK, ServerTypeOK,
         EndpointsAreRight, SocketsFollow, KilledBehindTheWork, ForceStop,
         StopMetrics, CallsBecome
<1>7. KilledBehindTheWork'
  BY TimesInOrder
     DEF IInv, TypeOK, KilledBehindTheWork, GatewayTypeOK, ServerTypeOK,
         WaitingIsForSomebody, ServerIsInTime, GatewayIsInTime, ForceStop,
         StopMetrics, CallsBecome
<1>8. DrainIsAnnounced'
  BY TimesInOrder
     DEF IInv, TypeOK, DrainIsAnnounced, EndpointsAreRight, ServerIsInTime,
         ForceStop, StopMetrics, CallsBecome
<1>9. CallsOutliveTheirRequests'
  BY TimesInOrder
     DEF IInv, TypeOK, CallsOutliveTheirRequests, WaitingIsForSomebody,
         GatewayTypeOK, ServerTypeOK, ForceStop, StopMetrics, CallsBecome
<1>10. (PodsTypeOK /\ GatewayTypeOK /\ GatewayIsInTime)'
  BY DEF IInv, TypeOK, PodsTypeOK, GatewayTypeOK, GatewayIsInTime, ForceStop,
         StopMetrics, CallsBecome
<1> QED
  BY <1>1, <1>2, <1>3, <1>4, <1>5, <1>6, <1>7, <1>8, <1>9, <1>10
     DEF IInv, TypeOK

(* Behind Stop nobody waits.                                               *)
LEMMA ForcedIInv ==
  ASSUME IInv, Forced, UNCHANGED podVars, UNCHANGED gatewayVars
  PROVE  IInv'
<1>1. ServerTypeOK'
  BY TimesInOrder
     DEF IInv, TypeOK, ServerTypeOK, PodsTypeOK, SocketsFollow,
         WaitingIsForSomebody, ServerIsInTime, Forced, StopMetrics
<1>2. ServerIsInTime'
  BY TimesInOrder
     DEF IInv, TypeOK, ServerIsInTime, PodsTypeOK, ServerTypeOK,
         SocketsFollow, Forced, StopMetrics
<1>3. EndpointsAreRight'
  BY TimesInOrder
     DEF IInv, TypeOK, EndpointsAreRight, PodsTypeOK, GatewayTypeOK,
         ServerTypeOK, GatewayIsInTime, ServerIsInTime, SocketsFollow, Forced,
         StopMetrics
<1>4. SocketsFollow'
  BY TimesInOrder
     DEF IInv, TypeOK, SocketsFollow, PodsTypeOK, GatewayTypeOK, ServerTypeOK,
         ServerIsInTime, Forced, StopMetrics
<1>5. WaitingIsForSomebody'
  BY TimesInOrder
     DEF IInv, TypeOK, WaitingIsForSomebody, GatewayTypeOK, ServerTypeOK,
         SocketsFollow, Forced, StopMetrics
<1>6. DrainIsAnnounced'
  BY TimesInOrder
     DEF IInv, TypeOK, DrainIsAnnounced, EndpointsAreRight, ServerIsInTime,
         Forced, StopMetrics
<1>7. (PodsTypeOK /\ GatewayTypeOK /\ GatewayIsInTime /\ NoneRefused
      /\ KilledBehindTheWork /\ CallsOutliveTheirRequests)'
  BY DEF IInv, TypeOK, PodsTypeOK, GatewayTypeOK, GatewayIsInTime,
         NoneRefused, KilledBehindTheWork, CallsOutliveTheirRequests, Forced,
         StopMetrics
<1> QED
  BY <1>1, <1>2, <1>3, <1>4, <1>5, <1>6, <1>7 DEF IInv, TypeOK

(* A service that fails cuts its callers off, no other does.               *)
LEMMA ExitIInv ==
  ASSUME IInv, Exit, UNCHANGED gatewayVars
  PROVE  IInv'
<1>1. PodsTypeOK'
  BY TimesInOrder
     DEF IInv, TypeOK, PodsTypeOK, Exit, ServerEnds, CallsBecome, Ends
<1>2. ServerTypeOK'
  <2>1. connected' \in BOOLEAN
    BY DEF Exit, ServerEnds
  <2>2. /\ server' \in {"listening", "draining", "stopping", "forcing", "metrics",
                       "failing", "exited", "killed"}
        /\ serverTimer' \in 0..(DrainDelay + ShutdownTimeout + MetricsTimeout)
        /\ acceptor' \in {"starting", "accepting", "closed", "failed"}
        /\ health' \in {"SERVING", "NOT_SERVING"}
        /\ call' \in [Request -> {"none", "waiting", "answered", "left", "refused",
                                  "elsewhere", "cut", "killed"}]
        /\ handling' \subseteq Request
        /\ \A r \in Request : call'[r] = "waiting" => r \in handling'
        /\ server' \in {"exited", "killed"} <=> pod'["optimizer"] = "gone"
    BY TimesInOrder
       DEF IInv, TypeOK, ServerTypeOK, PodsTypeOK, SocketsFollow,
           WaitingIsForSomebody, ServerIsInTime, Exit, ServerEnds,
           CallsBecome, Ends
  <2> QED
    BY <2>1, <2>2 DEF ServerTypeOK
<1>3. GatewayTypeOK'
  BY TimesInOrder
     DEF IInv, TypeOK, GatewayTypeOK, PodsTypeOK, GatewayIsInTime, Exit,
         ServerEnds, CallsBecome, Ends
<1>4. GatewayIsInTime'
  BY TimesInOrder
     DEF IInv, TypeOK, GatewayIsInTime, PodsTypeOK, GatewayTypeOK, Exit,
         ServerEnds, CallsBecome, Ends
<1>5. ServerIsInTime'
  BY TimesInOrder
     DEF IInv, TypeOK, ServerIsInTime, PodsTypeOK, ServerTypeOK,
         SocketsFollow, Exit, ServerEnds, CallsBecome, Ends
<1>6. EndpointsAreRight'
  BY TimesInOrder
     DEF IInv, TypeOK, EndpointsAreRight, PodsTypeOK, GatewayTypeOK,
         ServerTypeOK, GatewayIsInTime, ServerIsInTime, SocketsFollow, Exit,
         ServerEnds, CallsBecome, Ends
<1>7. SocketsFollow'
  BY TimesInOrder
     DEF IInv, TypeOK, SocketsFollow, PodsTypeOK, GatewayTypeOK, ServerTypeOK,
         ServerIsInTime, Exit, ServerEnds, CallsBecome, Ends
<1>8. WaitingIsForSomebody'
  BY TimesInOrder
     DEF IInv, TypeOK, WaitingIsForSomebody, GatewayTypeOK, ServerTypeOK,
         SocketsFollow, Exit, ServerEnds, CallsBecome, Ends
<1>9. NoneRefused'
  BY TimesInOrder
     DEF IInv, TypeOK, NoneRefused, GatewayTypeOK, ServerTypeOK,
         EndpointsAreRight, SocketsFollow, KilledBehindTheWork, Exit,
         ServerEnds, CallsBecome, Ends
<1>10. KilledBehindTheWork'
  BY TimesInOrder
     DEF IInv, TypeOK, KilledBehindTheWork, GatewayTypeOK, ServerTypeOK,
         WaitingIsForSomebody, ServerIsInTime, GatewayIsInTime, Exit,
         ServerEnds, CallsBecome, Ends
<1>11. DrainIsAnnounced'
  BY TimesInOrder
     DEF IInv, TypeOK, DrainIsAnnounced, EndpointsAreRight, ServerIsInTime,
         Exit, ServerEnds, CallsBecome, Ends
<1>12. CallsOutliveTheirRequests'
  BY TimesInOrder
     DEF IInv, TypeOK, CallsOutliveTheirRequests, WaitingIsForSomebody,
         GatewayTypeOK, ServerTypeOK, Exit, ServerEnds, CallsBecome, Ends
<1> QED
  BY <1>1, <1>2, <1>3, <1>4, <1>5, <1>6, <1>7, <1>8, <1>9, <1>10, <1>11, <1>12
     DEF IInv, TypeOK

(* A handler answers who still waits.                                      *)
LEMMA HandlerReturnsIInv ==
  ASSUME IInv, NEW r \in Request, HandlerReturns(r), UNCHANGED gatewayVars
  PROVE  IInv'
<1>1. ServerTypeOK'
  BY TimesInOrder
     DEF IInv, TypeOK, ServerTypeOK, PodsTypeOK, SocketsFollow,
         WaitingIsForSomebody, ServerIsInTime, HandlerReturns
<1>2. WaitingIsForSomebody'
  BY TimesInOrder
     DEF IInv, TypeOK, WaitingIsForSomebody, GatewayTypeOK, ServerTypeOK,
         SocketsFollow, HandlerReturns
<1>3. NoneRefused'
  BY TimesInOrder
     DEF IInv, TypeOK, NoneRefused, GatewayTypeOK, ServerTypeOK,
         EndpointsAreRight, SocketsFollow, KilledBehindTheWork, HandlerReturns
<1>4. KilledBehindTheWork'
  BY TimesInOrder
     DEF IInv, TypeOK, KilledBehindTheWork, GatewayTypeOK, ServerTypeOK,
         WaitingIsForSomebody, ServerIsInTime, GatewayIsInTime, HandlerReturns
<1>5. CallsOutliveTheirRequests'
  BY TimesInOrder
     DEF IInv, TypeOK, CallsOutliveTheirRequests, WaitingIsForSomebody,
         GatewayTypeOK, ServerTypeOK, HandlerReturns
<1>6. (PodsTypeOK /\ GatewayTypeOK /\ GatewayIsInTime /\ ServerIsInTime
      /\ EndpointsAreRight /\ SocketsFollow /\ DrainIsAnnounced)'
  BY DEF IInv, TypeOK, PodsTypeOK, GatewayTypeOK, GatewayIsInTime,
         ServerIsInTime, EndpointsAreRight, SocketsFollow, DrainIsAnnounced,
         HandlerReturns
<1> QED
  BY <1>1, <1>2, <1>3, <1>4, <1>5, <1>6 DEF IInv, TypeOK

-----------------------------------------------------------------------------
(* The gateway *)

(* The gateway accepts as long as it is not stopping.                      *)
LEMMA ListensIInv ==
  ASSUME IInv, Listens
  PROVE  IInv'
<1>1. GatewayTypeOK'
  BY TimesInOrder
     DEF IInv, TypeOK, GatewayTypeOK, PodsTypeOK, GatewayIsInTime, Listens
<1>2. EndpointsAreRight'
  BY TimesInOrder
     DEF IInv, TypeOK, EndpointsAreRight, PodsTypeOK, GatewayTypeOK,
         ServerTypeOK, GatewayIsInTime, ServerIsInTime, SocketsFollow, Listens
<1>3. SocketsFollow'
  BY TimesInOrder
     DEF IInv, TypeOK, SocketsFollow, PodsTypeOK, GatewayTypeOK, ServerTypeOK,
         ServerIsInTime, Listens
<1>4. (PodsTypeOK /\ ServerTypeOK /\ GatewayIsInTime /\ ServerIsInTime
      /\ WaitingIsForSomebody /\ NoneRefused /\ KilledBehindTheWork
      /\ DrainIsAnnounced /\ CallsOutliveTheirRequests)'
  BY DEF IInv, TypeOK, PodsTypeOK, ServerTypeOK, GatewayIsInTime,
         ServerIsInTime, WaitingIsForSomebody, NoneRefused,
         KilledBehindTheWork, DrainIsAnnounced, CallsOutliveTheirRequests,
         Listens
<1> QED
  BY <1>1, <1>2, <1>3, <1>4 DEF IInv, TypeOK

(* The gateway ends by itself, and its calls with their requests.          *)
LEMMA GatewayEndsIInv ==
  ASSUME IInv, NEW how \in {"exited", "died"}, GatewayEnds(how, "cut"),
         how = "exited" => gateway = "metrics"
  PROVE  IInv'
<1>1. PodsTypeOK'
  BY TimesInOrder
     DEF IInv, TypeOK, PodsTypeOK, GatewayEnds, FatesBecome, Hangup, Ends
<1>2. ServerTypeOK'
  BY TimesInOrder
     DEF IInv, TypeOK, ServerTypeOK, PodsTypeOK, SocketsFollow,
         WaitingIsForSomebody, ServerIsInTime, GatewayEnds, FatesBecome,
         Hangup, Ends
<1>3. GatewayTypeOK'
  BY TimesInOrder
     DEF IInv, TypeOK, GatewayTypeOK, PodsTypeOK, GatewayIsInTime,
         GatewayEnds, FatesBecome, Hangup, Ends
<1>4. GatewayIsInTime'
  BY TimesInOrder
     DEF IInv, TypeOK, GatewayIsInTime, PodsTypeOK, GatewayTypeOK,
         GatewayEnds, FatesBecome, Hangup, Ends
<1>5. ServerIsInTime'
  BY TimesInOrder
     DEF IInv, TypeOK, ServerIsInTime, PodsTypeOK, ServerTypeOK,
         SocketsFollow, GatewayEnds, FatesBecome, Hangup, Ends
<1>6. EndpointsAreRight'
  BY TimesInOrder
     DEF IInv, TypeOK, EndpointsAreRight, PodsTypeOK, GatewayTypeOK,
         ServerTypeOK, GatewayIsInTime, ServerIsInTime, SocketsFollow,
         GatewayEnds, FatesBecome, Hangup, Ends
<1>7. SocketsFollow'
  BY TimesInOrder
     DEF IInv, TypeOK, SocketsFollow, PodsTypeOK, GatewayTypeOK, ServerTypeOK,
         ServerIsInTime, GatewayEnds, FatesBecome, Hangup, Ends
<1>8. WaitingIsForSomebody'
  BY TimesInOrder
     DEF IInv, TypeOK, WaitingIsForSomebody, GatewayTypeOK, ServerTypeOK,
         SocketsFollow, GatewayEnds, FatesBecome, Hangup, Ends
<1>9. NoneRefused'
  BY TimesInOrder
     DEF IInv, TypeOK, NoneRefused, GatewayTypeOK, ServerTypeOK,
         EndpointsAreRight, SocketsFollow, KilledBehindTheWork, GatewayEnds,
         FatesBecome, Hangup, Ends
<1>10. KilledBehindTheWork'
  BY TimesInOrder
     DEF IInv, TypeOK, KilledBehindTheWork, GatewayTypeOK, ServerTypeOK,
         WaitingIsForSomebody, ServerIsInTime, GatewayIsInTime, GatewayEnds,
         FatesBecome, Hangup, Ends
<1>11. CallsOutliveTheirRequests'
  BY TimesInOrder
     DEF IInv, TypeOK, CallsOutliveTheirRequests, WaitingIsForSomebody,
         GatewayTypeOK, ServerTypeOK, GatewayEnds, FatesBecome, Hangup, Ends
<1>12. (DrainIsAnnounced)'
  BY DEF IInv, TypeOK, DrainIsAnnounced, GatewayEnds, FatesBecome, Hangup, Ends
<1> QED
  BY <1>1, <1>2, <1>3, <1>4, <1>5, <1>6, <1>7, <1>8, <1>9, <1>10, <1>11, <1>12
     DEF IInv, TypeOK

(* From here the signal is caught.                                         *)
LEMMA NotifiedIInv ==
  ASSUME IInv, Notified
  PROVE  IInv'
<1>1. GatewayTypeOK'
  BY TimesInOrder
     DEF IInv, TypeOK, GatewayTypeOK, PodsTypeOK, GatewayIsInTime, Notified
<1>2. GatewayIsInTime'
  BY TimesInOrder
     DEF IInv, TypeOK, GatewayIsInTime, PodsTypeOK, GatewayTypeOK, Notified
<1>3. EndpointsAreRight'
  BY TimesInOrder
     DEF IInv, TypeOK, EndpointsAreRight, PodsTypeOK, GatewayTypeOK,
         ServerTypeOK, GatewayIsInTime, ServerIsInTime, SocketsFollow, Notified
<1>4. SocketsFollow'
  BY TimesInOrder
     DEF IInv, TypeOK, SocketsFollow, PodsTypeOK, GatewayTypeOK, ServerTypeOK,
         ServerIsInTime, Notified
<1>5. WaitingIsForSomebody'
  BY TimesInOrder
     DEF IInv, TypeOK, WaitingIsForSomebody, GatewayTypeOK, ServerTypeOK,
         SocketsFollow, Notified
<1>6. NoneRefused'
  BY TimesInOrder
     DEF IInv, TypeOK, NoneRefused, GatewayTypeOK, ServerTypeOK,
         EndpointsAreRight, SocketsFollow, KilledBehindTheWork, Notified
<1>7. KilledBehindTheWork'
  BY TimesInOrder
     DEF IInv, TypeOK, KilledBehindTheWork, GatewayTypeOK, ServerTypeOK,
         WaitingIsForSomebody, ServerIsInTime, GatewayIsInTime, Notified
<1>8. (PodsTypeOK /\ ServerTypeOK /\ ServerIsInTime /\ DrainIsAnnounced
      /\ CallsOutliveTheirRequests)'
  BY DEF IInv, TypeOK, PodsTypeOK, ServerTypeOK, ServerIsInTime,
         DrainIsAnnounced, CallsOutliveTheirRequests, Notified
<1> QED
  BY <1>1, <1>2, <1>3, <1>4, <1>5, <1>6, <1>7, <1>8 DEF IInv, TypeOK

(* The drain starts with the grace.                                        *)
LEMMA DrainGatewayIInv ==
  ASSUME IInv, DrainGateway
  PROVE  IInv'
<1>1. GatewayTypeOK'
  BY TimesInOrder
     DEF IInv, TypeOK, GatewayTypeOK, PodsTypeOK, GatewayIsInTime, DrainGateway
<1>2. GatewayIsInTime'
  BY TimesInOrder
     DEF IInv, TypeOK, GatewayIsInTime, PodsTypeOK, GatewayTypeOK, DrainGateway
<1>3. EndpointsAreRight'
  BY TimesInOrder
     DEF IInv, TypeOK, EndpointsAreRight, PodsTypeOK, GatewayTypeOK,
         ServerTypeOK, GatewayIsInTime, ServerIsInTime, SocketsFollow,
         DrainGateway
<1>4. SocketsFollow'
  BY TimesInOrder
     DEF IInv, TypeOK, SocketsFollow, PodsTypeOK, GatewayTypeOK, ServerTypeOK,
         ServerIsInTime, DrainGateway
<1>5. WaitingIsForSomebody'
  BY TimesInOrder
     DEF IInv, TypeOK, WaitingIsForSomebody, GatewayTypeOK, ServerTypeOK,
         SocketsFollow, DrainGateway
<1>6. NoneRefused'
  BY TimesInOrder
     DEF IInv, TypeOK, NoneRefused, GatewayTypeOK, ServerTypeOK,
         EndpointsAreRight, SocketsFollow, KilledBehindTheWork, DrainGateway
<1>7. KilledBehindTheWork'
  BY TimesInOrder
     DEF IInv, TypeOK, KilledBehindTheWork, GatewayTypeOK, ServerTypeOK,
         WaitingIsForSomebody, ServerIsInTime, GatewayIsInTime, DrainGateway
<1>8. (PodsTypeOK /\ ServerTypeOK /\ ServerIsInTime /\ DrainIsAnnounced
      /\ CallsOutliveTheirRequests)'
  BY DEF IInv, TypeOK, PodsTypeOK, ServerTypeOK, ServerIsInTime,
         DrainIsAnnounced, CallsOutliveTheirRequests, DrainGateway
<1> QED
  BY <1>1, <1>2, <1>3, <1>4, <1>5, <1>6, <1>7, <1>8 DEF IInv, TypeOK

(* The listener closes when the endpoints know of it.                      *)
LEMMA ShutdownIInv ==
  ASSUME IInv, Shutdown
  PROVE  IInv'
<1>1. GatewayTypeOK'
  BY TimesInOrder
     DEF IInv, TypeOK, GatewayTypeOK, PodsTypeOK, GatewayIsInTime, Shutdown
<1>2. GatewayIsInTime'
  BY TimesInOrder
     DEF IInv, TypeOK, GatewayIsInTime, PodsTypeOK, GatewayTypeOK, Shutdown
<1>3. EndpointsAreRight'
  BY TimesInOrder
     DEF IInv, TypeOK, EndpointsAreRight, PodsTypeOK, GatewayTypeOK,
         ServerTypeOK, GatewayIsInTime, ServerIsInTime, SocketsFollow, Shutdown
<1>4. SocketsFollow'
  BY TimesInOrder
     DEF IInv, TypeOK, SocketsFollow, PodsTypeOK, GatewayTypeOK, ServerTypeOK,
         ServerIsInTime, Shutdown
<1>5. WaitingIsForSomebody'
  BY TimesInOrder
     DEF IInv, TypeOK, WaitingIsForSomebody, GatewayTypeOK, ServerTypeOK,
         SocketsFollow, Shutdown
<1>6. NoneRefused'
  BY TimesInOrder
     DEF IInv, TypeOK, NoneRefused, GatewayTypeOK, ServerTypeOK,
         EndpointsAreRight, SocketsFollow, KilledBehindTheWork, Shutdown
<1>7. KilledBehindTheWork'
  BY TimesInOrder
     DEF IInv, TypeOK, KilledBehindTheWork, GatewayTypeOK, ServerTypeOK,
         WaitingIsForSomebody, ServerIsInTime, GatewayIsInTime, Shutdown
<1>8. (PodsTypeOK /\ ServerTypeOK /\ ServerIsInTime /\ DrainIsAnnounced
      /\ CallsOutliveTheirRequests)'
  BY DEF IInv, TypeOK, PodsTypeOK, ServerTypeOK, ServerIsInTime,
         DrainIsAnnounced, CallsOutliveTheirRequests, Shutdown
<1> QED
  BY <1>1, <1>2, <1>3, <1>4, <1>5, <1>6, <1>7, <1>8 DEF IInv, TypeOK

(* Without handlers no client waits.                                       *)
LEMMA ShutdownDoneIInv ==
  ASSUME IInv, ShutdownDone
  PROVE  IInv'
<1>1. GatewayTypeOK'
  BY TimesInOrder
     DEF IInv, TypeOK, GatewayTypeOK, PodsTypeOK, GatewayIsInTime, ShutdownDone
<1>2. GatewayIsInTime'
  BY TimesInOrder
     DEF IInv, TypeOK, GatewayIsInTime, PodsTypeOK, GatewayTypeOK, ShutdownDone
<1>3. EndpointsAreRight'
  BY TimesInOrder
     DEF IInv, TypeOK, EndpointsAreRight, PodsTypeOK, GatewayTypeOK,
         ServerTypeOK, GatewayIsInTime, ServerIsInTime, SocketsFollow,
         ShutdownDone
<1>4. SocketsFollow'
  BY TimesInOrder
     DEF IInv, TypeOK, SocketsFollow, PodsTypeOK, GatewayTypeOK, ServerTypeOK,
         ServerIsInTime, ShutdownDone
<1>5. WaitingIsForSomebody'
  BY TimesInOrder
     DEF IInv, TypeOK, WaitingIsForSomebody, GatewayTypeOK, ServerTypeOK,
         SocketsFollow, ShutdownDone
<1>6. NoneRefused'
  BY TimesInOrder
     DEF IInv, TypeOK, NoneRefused, GatewayTypeOK, ServerTypeOK,
         EndpointsAreRight, SocketsFollow, KilledBehindTheWork, ShutdownDone
<1>7. KilledBehindTheWork'
  BY TimesInOrder
     DEF IInv, TypeOK, KilledBehindTheWork, GatewayTypeOK, ServerTypeOK,
         WaitingIsForSomebody, ServerIsInTime, GatewayIsInTime, ShutdownDone
<1>8. (PodsTypeOK /\ ServerTypeOK /\ ServerIsInTime /\ DrainIsAnnounced
      /\ CallsOutliveTheirRequests)'
  BY DEF IInv, TypeOK, PodsTypeOK, ServerTypeOK, ServerIsInTime,
         DrainIsAnnounced, CallsOutliveTheirRequests, ShutdownDone
<1> QED
  BY <1>1, <1>2, <1>3, <1>4, <1>5, <1>6, <1>7, <1>8 DEF IInv, TypeOK

(* Close cuts off whoever waits.                                           *)
LEMMA ShutdownTimesOutIInv ==
  ASSUME IInv, ShutdownTimesOut
  PROVE  IInv'
<1>1. GatewayTypeOK'
  BY TimesInOrder
     DEF IInv, TypeOK, GatewayTypeOK, PodsTypeOK, GatewayIsInTime,
         ShutdownTimesOut, FatesBecome
<1>2. GatewayIsInTime'
  BY TimesInOrder
     DEF IInv, TypeOK, GatewayIsInTime, PodsTypeOK, GatewayTypeOK,
         ShutdownTimesOut, FatesBecome
<1>3. EndpointsAreRight'
  BY TimesInOrder
     DEF IInv, TypeOK, EndpointsAreRight, PodsTypeOK, GatewayTypeOK,
         ServerTypeOK, GatewayIsInTime, ServerIsInTime, SocketsFollow,
         ShutdownTimesOut, FatesBecome
<1>4. SocketsFollow'
  BY TimesInOrder
     DEF IInv, TypeOK, SocketsFollow, PodsTypeOK, GatewayTypeOK, ServerTypeOK,
         ServerIsInTime, ShutdownTimesOut, FatesBecome
<1>5. WaitingIsForSomebody'
  BY TimesInOrder
     DEF IInv, TypeOK, WaitingIsForSomebody, GatewayTypeOK, ServerTypeOK,
         SocketsFollow, ShutdownTimesOut, FatesBecome
<1>6. NoneRefused'
  BY TimesInOrder
     DEF IInv, TypeOK, NoneRefused, GatewayTypeOK, ServerTypeOK,
         EndpointsAreRight, SocketsFollow, KilledBehindTheWork,
         ShutdownTimesOut, FatesBecome
<1>7. KilledBehindTheWork'
  BY TimesInOrder
     DEF IInv, TypeOK, KilledBehindTheWork, GatewayTypeOK, ServerTypeOK,
         WaitingIsForSomebody, ServerIsInTime, GatewayIsInTime,
         ShutdownTimesOut, FatesBecome
<1>8. CallsOutliveTheirRequests'
  BY TimesInOrder
     DEF IInv, TypeOK, CallsOutliveTheirRequests, WaitingIsForSomebody,
         GatewayTypeOK, ServerTypeOK, ShutdownTimesOut, FatesBecome
<1>9. (PodsTypeOK /\ ServerTypeOK /\ ServerIsInTime /\ DrainIsAnnounced)'
  BY DEF IInv, TypeOK, PodsTypeOK, ServerTypeOK, ServerIsInTime,
         DrainIsAnnounced, ShutdownTimesOut, FatesBecome
<1> QED
  BY <1>1, <1>2, <1>3, <1>4, <1>5, <1>6, <1>7, <1>8, <1>9 DEF IInv, TypeOK

-----------------------------------------------------------------------------
(* Requests *)

(* A client is led to a listener that accepts.                             *)
LEMMA ArriveIInv ==
  ASSUME IInv, NEW r \in Request, Arrive(r)
  PROVE  IInv'
<1>1. GatewayTypeOK'
  BY TimesInOrder
     DEF IInv, TypeOK, GatewayTypeOK, PodsTypeOK, GatewayIsInTime, Arrive
<1>2. WaitingIsForSomebody'
  BY TimesInOrder
     DEF IInv, TypeOK, WaitingIsForSomebody, GatewayTypeOK, ServerTypeOK,
         SocketsFollow, Arrive
<1>3. NoneRefused'
  BY TimesInOrder
     DEF IInv, TypeOK, NoneRefused, GatewayTypeOK, ServerTypeOK,
         EndpointsAreRight, SocketsFollow, KilledBehindTheWork, Arrive
<1>4. CallsOutliveTheirRequests'
  BY TimesInOrder
     DEF IInv, TypeOK, CallsOutliveTheirRequests, WaitingIsForSomebody,
         GatewayTypeOK, ServerTypeOK, Arrive
<1>5. (PodsTypeOK /\ ServerTypeOK /\ GatewayIsInTime /\ ServerIsInTime
      /\ EndpointsAreRight /\ SocketsFollow /\ KilledBehindTheWork
      /\ DrainIsAnnounced)'
  BY DEF IInv, TypeOK, PodsTypeOK, ServerTypeOK, GatewayIsInTime,
         ServerIsInTime, EndpointsAreRight, SocketsFollow,
         KilledBehindTheWork, DrainIsAnnounced, Arrive
<1> QED
  BY <1>1, <1>2, <1>3, <1>4, <1>5 DEF IInv, TypeOK

(* A call is led to a service that accepts.                                *)
LEMMA CallOptimizerIInv ==
  ASSUME IInv, NEW r \in Request, CallOptimizer(r)
  PROVE  IInv'
<1>1. ServerTypeOK'
  BY TimesInOrder
     DEF IInv, TypeOK, ServerTypeOK, PodsTypeOK, SocketsFollow,
         WaitingIsForSomebody, ServerIsInTime, CallOptimizer, SendCall,
         ContextEnded, SocketOpen
<1>2. GatewayTypeOK'
  BY TimesInOrder
     DEF IInv, TypeOK, GatewayTypeOK, PodsTypeOK, GatewayIsInTime,
         CallOptimizer, SendCall, ContextEnded, SocketOpen
<1>3. SocketsFollow'
  BY TimesInOrder
     DEF IInv, TypeOK, SocketsFollow, PodsTypeOK, GatewayTypeOK, ServerTypeOK,
         ServerIsInTime, CallOptimizer, SendCall, ContextEnded, SocketOpen
<1>4. WaitingIsForSomebody'
  BY TimesInOrder
     DEF IInv, TypeOK, WaitingIsForSomebody, GatewayTypeOK, ServerTypeOK,
         SocketsFollow, CallOptimizer, SendCall, ContextEnded, SocketOpen
<1>5. NoneRefused'
  BY TimesInOrder
     DEF IInv, TypeOK, NoneRefused, GatewayTypeOK, ServerTypeOK,
         EndpointsAreRight, SocketsFollow, KilledBehindTheWork, CallOptimizer,
         SendCall, ContextEnded, SocketOpen
<1>6. KilledBehindTheWork'
  BY TimesInOrder
     DEF IInv, TypeOK, KilledBehindTheWork, GatewayTypeOK, ServerTypeOK,
         WaitingIsForSomebody, ServerIsInTime, GatewayIsInTime, CallOptimizer,
         SendCall, ContextEnded, SocketOpen
<1>7. CallsOutliveTheirRequests'
  BY TimesInOrder
     DEF IInv, TypeOK, CallsOutliveTheirRequests, WaitingIsForSomebody,
         GatewayTypeOK, ServerTypeOK, CallOptimizer, SendCall, ContextEnded,
         SocketOpen
<1>8. (PodsTypeOK /\ GatewayIsInTime /\ ServerIsInTime
      /\ EndpointsAreRight /\ DrainIsAnnounced)'
  BY DEF IInv, TypeOK, PodsTypeOK, GatewayIsInTime, ServerIsInTime,
         EndpointsAreRight, DrainIsAnnounced, CallOptimizer, SendCall,
         ContextEnded, SocketOpen
<1> QED
  BY <1>1, <1>2, <1>3, <1>4, <1>5, <1>6, <1>7, <1>8 DEF IInv, TypeOK

(* Who is answered waits for no call.                                      *)
LEMMA RespondIInv ==
  ASSUME IInv, NEW r \in Request, Respond(r)
  PROVE  IInv'
<1>1. GatewayTypeOK'
  BY TimesInOrder
     DEF IInv, TypeOK, GatewayTypeOK, PodsTypeOK, GatewayIsInTime, Respond,
         Returns
<1>2. WaitingIsForSomebody'
  BY TimesInOrder
     DEF IInv, TypeOK, WaitingIsForSomebody, GatewayTypeOK, ServerTypeOK,
         SocketsFollow, Respond, Returns
<1>3. NoneRefused'
  BY TimesInOrder
     DEF IInv, TypeOK, NoneRefused, GatewayTypeOK, ServerTypeOK,
         EndpointsAreRight, SocketsFollow, KilledBehindTheWork, Respond,
         Returns
<1>4. CallsOutliveTheirRequests'
  BY TimesInOrder
     DEF IInv, TypeOK, CallsOutliveTheirRequests, WaitingIsForSomebody,
         GatewayTypeOK, ServerTypeOK, Respond, Returns
<1>5. (PodsTypeOK /\ ServerTypeOK /\ GatewayIsInTime /\ ServerIsInTime
      /\ EndpointsAreRight /\ SocketsFollow /\ KilledBehindTheWork
      /\ DrainIsAnnounced)'
  BY DEF IInv, TypeOK, PodsTypeOK, ServerTypeOK, GatewayIsInTime,
         ServerIsInTime, EndpointsAreRight, SocketsFollow,
         KilledBehindTheWork, DrainIsAnnounced, Respond, Returns
<1> QED
  BY <1>1, <1>2, <1>3, <1>4, <1>5 DEF IInv, TypeOK

(* Who is answered waits for no call.                                      *)
LEMMA OptimizedIInv ==
  ASSUME IInv, NEW r \in Request, Optimized(r)
  PROVE  IInv'
<1>1. GatewayTypeOK'
  BY TimesInOrder
     DEF IInv, TypeOK, GatewayTypeOK, PodsTypeOK, GatewayIsInTime, Optimized,
         Returns
<1>2. WaitingIsForSomebody'
  BY TimesInOrder
     DEF IInv, TypeOK, WaitingIsForSomebody, GatewayTypeOK, ServerTypeOK,
         SocketsFollow, Optimized, Returns
<1>3. NoneRefused'
  BY TimesInOrder
     DEF IInv, TypeOK, NoneRefused, GatewayTypeOK, ServerTypeOK,
         EndpointsAreRight, SocketsFollow, KilledBehindTheWork, Optimized,
         Returns
<1>4. CallsOutliveTheirRequests'
  BY TimesInOrder
     DEF IInv, TypeOK, CallsOutliveTheirRequests, WaitingIsForSomebody,
         GatewayTypeOK, ServerTypeOK, Optimized, Returns
<1>5. (PodsTypeOK /\ ServerTypeOK /\ GatewayIsInTime /\ ServerIsInTime
      /\ EndpointsAreRight /\ SocketsFollow /\ KilledBehindTheWork
      /\ DrainIsAnnounced)'
  BY DEF IInv, TypeOK, PodsTypeOK, ServerTypeOK, GatewayIsInTime,
         ServerIsInTime, EndpointsAreRight, SocketsFollow,
         KilledBehindTheWork, DrainIsAnnounced, Optimized, Returns
<1> QED
  BY <1>1, <1>2, <1>3, <1>4, <1>5 DEF IInv, TypeOK

(* The call ends with its request.                                         *)
LEMMA CancelledIInv ==
  ASSUME IInv, NEW r \in Request, Cancelled(r)
  PROVE  IInv'
<1>1. ServerTypeOK'
  BY TimesInOrder
     DEF IInv, TypeOK, ServerTypeOK, PodsTypeOK, SocketsFollow,
         WaitingIsForSomebody, ServerIsInTime, Cancelled, Returns, Hangup,
         ContextEnded
<1>2. GatewayTypeOK'
  BY TimesInOrder
     DEF IInv, TypeOK, GatewayTypeOK, PodsTypeOK, GatewayIsInTime, Cancelled,
         Returns, Hangup, ContextEnded
<1>3. WaitingIsForSomebody'
  BY TimesInOrder
     DEF IInv, TypeOK, WaitingIsForSomebody, GatewayTypeOK, ServerTypeOK,
         SocketsFollow, Cancelled, Returns, Hangup, ContextEnded
<1>4. NoneRefused'
  BY TimesInOrder
     DEF IInv, TypeOK, NoneRefused, GatewayTypeOK, ServerTypeOK,
         EndpointsAreRight, SocketsFollow, KilledBehindTheWork, Cancelled,
         Returns, Hangup, ContextEnded
<1>5. KilledBehindTheWork'
  BY TimesInOrder
     DEF IInv, TypeOK, KilledBehindTheWork, GatewayTypeOK, ServerTypeOK,
         WaitingIsForSomebody, ServerIsInTime, GatewayIsInTime, Cancelled,
         Returns, Hangup, ContextEnded
<1>6. CallsOutliveTheirRequests'
  BY TimesInOrder
     DEF IInv, TypeOK, CallsOutliveTheirRequests, WaitingIsForSomebody,
         GatewayTypeOK, ServerTypeOK, Cancelled, Returns, Hangup, ContextEnded
<1>7. (PodsTypeOK /\ GatewayIsInTime /\ ServerIsInTime
      /\ EndpointsAreRight /\ SocketsFollow /\ DrainIsAnnounced)'
  BY DEF IInv, TypeOK, PodsTypeOK, GatewayIsInTime, ServerIsInTime,
         EndpointsAreRight, SocketsFollow, DrainIsAnnounced, Cancelled,
         Returns, Hangup, ContextEnded
<1> QED
  BY <1>1, <1>2, <1>3, <1>4, <1>5, <1>6, <1>7 DEF IInv, TypeOK

(* The call of a client that left goes on.                                 *)
LEMMA ClientLeavesIInv ==
  ASSUME IInv, NEW r \in Request, ClientLeaves(r)
  PROVE  IInv'
<1>1. GatewayTypeOK'
  BY TimesInOrder
     DEF IInv, TypeOK, GatewayTypeOK, PodsTypeOK, GatewayIsInTime, ClientLeaves
<1>2. WaitingIsForSomebody'
  BY TimesInOrder
     DEF IInv, TypeOK, WaitingIsForSomebody, GatewayTypeOK, ServerTypeOK,
         SocketsFollow, ClientLeaves
<1>3. NoneRefused'
  BY TimesInOrder
     DEF IInv, TypeOK, NoneRefused, GatewayTypeOK, ServerTypeOK,
         EndpointsAreRight, SocketsFollow, KilledBehindTheWork, ClientLeaves
<1>4. CallsOutliveTheirRequests'
  BY TimesInOrder
     DEF IInv, TypeOK, CallsOutliveTheirRequests, WaitingIsForSomebody,
         GatewayTypeOK, ServerTypeOK, ClientLeaves
<1>5. (PodsTypeOK /\ ServerTypeOK /\ GatewayIsInTime /\ ServerIsInTime
      /\ EndpointsAreRight /\ SocketsFollow /\ KilledBehindTheWork
      /\ DrainIsAnnounced)'
  BY DEF IInv, TypeOK, PodsTypeOK, ServerTypeOK, GatewayIsInTime,
         ServerIsInTime, EndpointsAreRight, SocketsFollow,
         KilledBehindTheWork, DrainIsAnnounced, ClientLeaves
<1> QED
  BY <1>1, <1>2, <1>3, <1>4, <1>5 DEF IInv, TypeOK

-----------------------------------------------------------------------------
(* Time *)

(* Every timer counts the same time.                                       *)
LEMMA TickIInv ==
  ASSUME IInv, Tick
  PROVE  IInv'
<1>1. PodsTypeOK'
  BY TimesInOrder
     DEF IInv, TypeOK, PodsTypeOK, Tick, PodsTick, PodsLetTimePass, ServerDue,
         GatewayDue, Decrement
<1>2. ServerTypeOK'
  BY TimesInOrder
     DEF IInv, TypeOK, ServerTypeOK, PodsTypeOK, SocketsFollow,
         WaitingIsForSomebody, ServerIsInTime, Tick, PodsTick,
         PodsLetTimePass, ServerDue, GatewayDue, Decrement
<1>3. GatewayTypeOK'
  BY TimesInOrder
     DEF IInv, TypeOK, GatewayTypeOK, PodsTypeOK, GatewayIsInTime, Tick,
         PodsTick, PodsLetTimePass, ServerDue, GatewayDue, Decrement
<1>4. GatewayIsInTime'
  BY TimesInOrder
     DEF IInv, TypeOK, GatewayIsInTime, PodsTypeOK, GatewayTypeOK, Tick,
         PodsTick, PodsLetTimePass, ServerDue, GatewayDue, Decrement
<1>5. ServerIsInTime'
  BY TimesInOrder
     DEF IInv, TypeOK, ServerIsInTime, PodsTypeOK, ServerTypeOK,
         SocketsFollow, Tick, PodsTick, PodsLetTimePass, ServerDue,
         GatewayDue, Decrement
<1>6. EndpointsAreRight'
  BY TimesInOrder
     DEF IInv, TypeOK, EndpointsAreRight, PodsTypeOK, GatewayTypeOK,
         ServerTypeOK, GatewayIsInTime, ServerIsInTime, SocketsFollow, Tick,
         PodsTick, PodsLetTimePass, ServerDue, GatewayDue, Decrement
<1>7. (SocketsFollow /\ WaitingIsForSomebody /\ NoneRefused
      /\ KilledBehindTheWork /\ DrainIsAnnounced
      /\ CallsOutliveTheirRequests)'
  BY DEF IInv, TypeOK, SocketsFollow, WaitingIsForSomebody, NoneRefused,
         KilledBehindTheWork, DrainIsAnnounced, CallsOutliveTheirRequests,
         Tick, PodsTick, PodsLetTimePass, ServerDue, GatewayDue, Decrement
<1> QED
  BY <1>1, <1>2, <1>3, <1>4, <1>5, <1>6, <1>7 DEF IInv, TypeOK

-----------------------------------------------------------------------------
(* Every step keeps the invariant.                                         *)
LEMMA NextIInv == IInv /\ [Next]_vars => IInv'
<1> SUFFICES ASSUME IInv, [Next]_vars PROVE IInv'
  OBVIOUS
<1>1. CASE Cluster
  BY <1>1, ReadyOptimizerIInv, ReadyGatewayIInv, TerminateIInv, RemovedIInv
     DEF Cluster
<1>2. CASE Kill
  BY <1>2, KilledLast, KillIInv
<1>3. CASE Server
  BY <1>3, AcceptCallsIInv, AcceptFailsIInv, ServeFailsIInv, DrainIInv,
     GracefulStopIInv, StoppedIInv, ForceStopIInv, ForcedIInv, ExitIInv,
     HandlerReturnsIInv DEF Server, ServerStep
<1>4. CASE GatewayStep
  BY <1>4, ListensIInv, GatewayEndsIInv, NotifiedIInv, DrainGatewayIInv,
     ShutdownIInv, ShutdownDoneIInv, ShutdownTimesOutIInv
     DEF GatewayStep, ListenFails, DiesOfSignal, GatewayExits
<1>5. CASE Requests
  BY <1>5, ArriveIInv, CallOptimizerIInv, RespondIInv, OptimizedIInv,
     CancelledIInv, ClientLeavesIInv DEF Requests
<1>6. CASE Tick
  BY <1>6, TickIInv
<1>7. CASE UNCHANGED vars
  BY <1>7 DEF vars, IInv, TypeOK, PodsTypeOK, ServerTypeOK, GatewayTypeOK,
     GatewayIsInTime, ServerIsInTime, EndpointsAreRight, SocketsFollow,
     WaitingIsForSomebody, NoneRefused, KilledBehindTheWork, DrainIsAnnounced,
     CallsOutliveTheirRequests
<1> QED
  BY <1>1, <1>2, <1>3, <1>4, <1>5, <1>6, <1>7 DEF Next, Gateway

HIDE DEF podVars, serverVars, gatewayVars, Pod, Ended, Dead, Active

(* The invariant holds in every state.                                     *)
LEMMA Invariance == Spec => []IInv
  BY InitIInv, NextIInv, PTL DEF Spec

-----------------------------------------------------------------------------
(* Every value of the state has its type; a process has ended exactly when *)
(* its pod is gone, and who waits is served by a handler.                  *)
THEOREM TypeCorrect == Spec => []TypeOK
<1>1. IInv => TypeOK
  BY DEF IInv
<1> QED
  BY <1>1, Invariance, PTL

(* The drain of grpcserver.Serve and of the main of the gateway outlasts   *)
(* the propagation of the endpoints: a rollout refuses nobody.             *)
THEOREM RolloutRefusesNobody == Spec => []NoneRefused
<1>1. IInv => NoneRefused
  BY DEF IInv
<1> QED
  BY <1>1, Invariance, PTL

(* The shutdown is within the grace: SIGKILL ends no gateway and no call   *)
(* that somebody waits for.                                                *)
THEOREM GraceOutlastsTheWork == Spec => []KilledBehindTheWork
<1>1. IInv => KilledBehindTheWork
  BY DEF IInv
<1> QED
  BY <1>1, Invariance, PTL

(* A service that calls were sent to reports NOT_SERVING while it drains   *)
(* and stops, although the goroutine of serve may set SERVING late.        *)
THEOREM DrainsAreAnnounced == Spec => []DrainIsAnnounced
<1>1. IInv => DrainIsAnnounced
  BY DEF IInv
<1> QED
  BY <1>1, Invariance, PTL

(* The gateway gives up a call only when its client is gone or cut off:    *)
(* clients.Close, at the end of main, finds no request in flight.          *)
THEOREM CallsLastLongEnough == Spec => []CallsOutliveTheirRequests
<1>1. IInv => CallsOutliveTheirRequests
  BY DEF IInv
<1> QED
  BY <1>1, Invariance, PTL

-----------------------------------------------------------------------------
(* The service stops orderly.                                              *)

(* Before anything happens the stop is open and nobody has called.         *)
LEMMA ServerStopsInit == Init => ServerStops!Init
  BY DEF Init, ServerInit, ServerStops!Init, ServerStage, ServerPatience, CallFate

(* A step that changes neither the stage nor a call is a stutter.          *)
LEMMA ServerStutters ==
  ASSUME UNCHANGED <<server, call>>,
         server = "stopping" => UNCHANGED serverTimer
  PROVE  UNCHANGED ServerStops!vars
  BY DEF ServerStops!vars, ServerStage, ServerPatience, CallFate

(* So is one within a stage.                                               *)
LEMMA ServerStaysInStage ==
  ASSUME UNCHANGED call,
         \/ {server, server'} \subseteq {"listening", "draining", "failing"}
         \/ {server, server'} \subseteq {"forcing", "metrics", "exited", "killed"}
  PROVE  UNCHANGED ServerStops!vars
  BY DEF ServerStops!vars, ServerStage, ServerPatience, CallFate

(* Nobody waits behind Stop: the calls do not change when the process ends. *)
LEMMA NobodyIsCutOff ==
  ASSUME ServerTypeOK, NEW verdict, CallsBecome("waiting", verdict),
         \A r \in Request : call[r] # "waiting"
  PROVE  call' = call
  BY DEF ServerTypeOK, CallsBecome

(* A call that changes is one step of the stop.                            *)
LEMMA CallChanges ==
  ASSUME ServerTypeOK, UNCHANGED <<server, serverTimer>>, NEW r \in Request,
         NEW f \in {"waiting", "answered", "refused", "elsewhere"},
         call' = [call EXCEPT ![r] = f]
  PROVE  ServerStops!Becomes(r, IF f = "elsewhere" THEN "refused" ELSE f)
  BY DEF ServerTypeOK, ServerStops!Becomes, ServerStage, ServerPatience, CallFate

(* Hangup is the leaving of those who wait.                                *)
LEMMA HangupLeaves ==
  ASSUME ServerTypeOK, UNCHANGED <<server, serverTimer>>,
         NEW S \in SUBSET Request, Hangup(S)
  PROVE  \E T \in SUBSET Request : ServerStops!Leave(T)
<1> DEFINE T == {r \in S : call[r] = "waiting"}
<1>1. \A r \in T : CallFate(r) = "waiting"
  BY DEF CallFate
<1>2. UNCHANGED <<ServerStage, ServerPatience>>
  BY DEF ServerStage, ServerPatience
<1>3. \A r \in Request : CallFate(r)' = IF r \in T THEN "left" ELSE CallFate(r)
  BY DEF Hangup, CallFate
<1>4. ServerStops!Leave(T)
  BY <1>1, <1>2, <1>3 DEF ServerStops!Leave
<1> QED
  BY <1>4

(* Cutting off whoever waits is the end of the stop.                       *)
LEMMA CutOffIsLost ==
  ASSUME ServerTypeOK, CallsBecome("waiting", "cut")
  PROVE  [r \in Request |-> CallFate(r)]' = ServerStops!Lost
  BY DEF ServerTypeOK, CallsBecome, CallFate, ServerStops!Lost

(* What the service does by itself.                                        *)
LEMMA ServerStepStops ==
  ASSUME IInv, ServerStep
  PROVE  [ServerStops!Next]_(ServerStops!vars)
<1>0. ServerTypeOK /\ SocketsFollow /\ WaitingIsForSomebody
  BY DEF IInv, TypeOK
<1>1. CASE AcceptCalls \/ AcceptFails
  BY <1>1, ServerStutters DEF AcceptCalls, AcceptFails
<1>2. CASE ServeFails \/ Drain
  BY <1>2, ServerStaysInStage DEF ServeFails, Drain
<1>3. CASE GracefulStop
  <2>1. ServerStops!Close
    BY <1>3 DEF GracefulStop, ServerStops!Close, ServerStage, ServerPatience,
                CallFate
  <2> QED
    BY <2>1 DEF ServerStops!Next
<1>4. CASE Stopped
  <2>1. \A r \in Request : CallFate(r) # "waiting"
    BY <1>0, <1>4 DEF Stopped, ServerTypeOK, CallFate
  <2>2. [r \in Request |-> CallFate(r)]' = [r \in Request |-> CallFate(r)]
    BY <1>4 DEF Stopped, CallFate
  <2>3. ServerStops!Closed
    BY <1>4, <2>1, <2>2 DEF Stopped, StopMetrics, ServerStops!Closed,
       ServerStops!Lost, ServerStage, ServerPatience
  <2> QED
    BY <2>3 DEF ServerStops!Next
<1>5. CASE ForceStop
  <2>1. [r \in Request |-> CallFate(r)]' = ServerStops!Lost
    BY <1>0, <1>5, CutOffIsLost DEF ForceStop
  <2>2. /\ ServerStage = "closing" /\ ServerPatience = 0
        /\ ServerStage' = "closed" /\ ServerPatience' = 0
    BY <1>5 DEF ForceStop, StopMetrics, ServerStage, ServerPatience
  <2>3. ServerStops!Closed
    BY <2>1, <2>2 DEF ServerStops!Closed
  <2> QED
    BY <2>3 DEF ServerStops!Next
<1>6. CASE Forced
  BY <1>6, ServerStaysInStage DEF Forced, StopMetrics
<1>7. CASE Exit
  <2>1. CASE server = "metrics"
    <3>1. \A r \in Request : call[r] # "waiting"
      BY <1>0, <2>1 DEF WaitingIsForSomebody
    <3>2. call' = call /\ server' = "exited"
      BY <1>0, <1>7, <3>1, NobodyIsCutOff DEF Exit, ServerEnds
    <3> QED
      BY <2>1, <3>2, ServerStaysInStage
  <2>2. CASE server = "failing"
    <3>1. [r \in Request |-> CallFate(r)]' = ServerStops!Lost
      BY <1>0, <1>7, CutOffIsLost DEF Exit, ServerEnds
    <3>2. ServerStops!Fail
      BY <1>7, <2>2, <3>1 DEF Exit, ServerEnds, ServerStops!Fail, ServerStage,
         ServerPatience
    <3> QED
      BY <3>2 DEF ServerStops!Next
  <2> QED
    BY <1>7, <2>1, <2>2 DEF Exit
<1> QED
  BY <1>1, <1>2, <1>3, <1>4, <1>5, <1>6, <1>7 DEF ServerStep

(* A new call is accepted, or refused here, or goes elsewhere.             *)
LEMMA SendCallStops ==
  ASSUME IInv, NEW r \in Request, SendCall(r)
  PROVE  ServerStops!Accept(r) \/ ServerStops!Refuse(r)
<1>0. ServerTypeOK /\ SocketsFollow
  BY DEF IInv, TypeOK
<1>1. UNCHANGED <<server, serverTimer>> /\ CallFate(r) = "none"
  BY DEF SendCall, CallFate
<1>2. CASE call' = [call EXCEPT ![r] = "waiting"]
           /\ server \in {"listening", "draining", "failing"}
  <2>1. ServerStops!Becomes(r, "waiting")
    BY <1>0, <1>1, <1>2, CallChanges
  <2> QED
    BY <1>1, <1>2, <2>1 DEF ServerStops!Accept, ServerStage
<1>3. ASSUME NEW f \in {"refused", "elsewhere"}, call' = [call EXCEPT ![r] = f]
      PROVE  ServerStops!Refuse(r)
  <2>1. ServerStops!Becomes(r, "refused")
    BY <1>0, <1>1, <1>3, CallChanges
  <2> QED
    BY <1>1, <2>1 DEF ServerStops!Refuse
<1> QED
  BY <1>0, <1>2, <1>3 DEF SendCall, SocketOpen, SocketsFollow

(* A handler that returns answers who waits for it.                        *)
LEMMA HandlerReturnsStops ==
  ASSUME IInv, NEW r \in Request, HandlerReturns(r)
  PROVE  [ServerStops!Next]_(ServerStops!vars)
<1>0. ServerTypeOK /\ WaitingIsForSomebody
  BY DEF IInv, TypeOK
<1>1. CASE call[r] = "waiting"
  <2>1. call' = [call EXCEPT ![r] = "answered"]
    BY <1>1 DEF HandlerReturns
  <2>2. ServerStops!Becomes(r, "answered")
    BY <1>0, <2>1, CallChanges DEF HandlerReturns
  <2>3. ServerStage # "closed" /\ CallFate(r) = "waiting"
    BY <1>0, <1>1 DEF WaitingIsForSomebody, ServerStage, CallFate
  <2>4. ServerStops!Answer(r)
    BY <2>2, <2>3 DEF ServerStops!Answer
  <2> QED
    BY <2>4 DEF ServerStops!Next
<1>2. CASE call[r] # "waiting"
  <2>1. call' = call
    BY <1>0, <1>2 DEF HandlerReturns, ServerTypeOK
  <2> QED
    BY <2>1, ServerStutters DEF HandlerReturns
<1> QED
  BY <1>1, <1>2

(* A caller that hangs up leaves.                                          *)
LEMMA HangupStops ==
  ASSUME IInv, NEW S \in SUBSET Request, Hangup(S),
         UNCHANGED <<server, serverTimer>>
  PROVE  [ServerStops!Next]_(ServerStops!vars)
<1>1. ServerTypeOK
  BY DEF IInv, TypeOK
<1> QED
  BY <1>1, HangupLeaves DEF ServerStops!Next

(* While the service closes, time is patience.                             *)
LEMMA TickStops ==
  ASSUME IInv, Tick
  PROVE  [ServerStops!Next]_(ServerStops!vars)
<1>1. CASE server = "stopping"
  <2>1. serverTimer > 0 /\ serverTimer' = serverTimer - 1
    BY <1>1, TimesInOrder DEF IInv, TypeOK, ServerTypeOK, Tick, ServerDue, Decrement
  <2>2. ServerStops!Wait
    BY <1>1, <2>1 DEF Tick, ServerStops!Wait, ServerStage, ServerPatience, CallFate
  <2> QED
    BY <2>2 DEF ServerStops!Next
<1>2. CASE server # "stopping"
  BY <1>2, ServerStutters DEF Tick
<1> QED
  BY <1>1, <1>2

(* Every step of a rollout is a step of the stop of the service, or none.  *)
LEMMA ServerStopsNext ==
  ASSUME IInv, [Next]_vars
  PROVE  [ServerStops!Next]_(ServerStops!vars)
<1>0. ServerTypeOK /\ WaitingIsForSomebody
  BY DEF IInv, TypeOK
<1>1. ASSUME UNCHANGED serverVars
      PROVE  [ServerStops!Next]_(ServerStops!vars)
  BY <1>1, ServerStutters DEF serverVars
<1>2. CASE Cluster
  BY <1>1, <1>2 DEF Cluster
<1>3. CASE Kill
  <2>1. server \in {"forcing", "metrics"} /\ ServerEnds("killed", "killed")
    BY <1>3, KilledLast
  <2>2. \A r \in Request : call[r] # "waiting"
    BY <1>0, <2>1 DEF WaitingIsForSomebody
  <2>3. call' = call /\ server' = "killed"
    BY <1>0, <2>1, <2>2, NobodyIsCutOff DEF ServerEnds
  <2> QED
    BY <2>1, <2>3, ServerStaysInStage
<1>4. CASE Server
  BY <1>4, ServerStepStops, HandlerReturnsStops DEF Server
<1>5. ASSUME NEW how, NEW verdict, GatewayEnds(how, verdict)
      PROVE  [ServerStops!Next]_(ServerStops!vars)
  BY <1>5, HangupStops DEF GatewayEnds
<1>6. CASE GatewayStep
  BY <1>1, <1>5, <1>6 DEF GatewayStep, Listens, ListenFails, Notified,
     DiesOfSignal, DrainGateway, Shutdown, ShutdownDone, ShutdownTimesOut,
     GatewayExits
<1>7. CASE Requests
  <2>1. ASSUME NEW r \in Request, CallOptimizer(r)
        PROVE  [ServerStops!Next]_(ServerStops!vars)
    BY <2>1, SendCallStops DEF CallOptimizer, ServerStops!Next
  <2>2. ASSUME NEW r \in Request, Cancelled(r)
        PROVE  [ServerStops!Next]_(ServerStops!vars)
    BY <2>2, HangupStops DEF Cancelled
  <2> QED
    BY <1>1, <1>7, <2>1, <2>2 DEF Requests, Arrive, Respond, Optimized,
       ClientLeaves
<1>8. CASE Tick
  BY <1>8, TickStops
<1>9. CASE UNCHANGED vars
  BY <1>1, <1>9 DEF vars
<1> QED
  BY <1>2, <1>3, <1>4, <1>6, <1>7, <1>8, <1>9 DEF Next, Gateway

(* The service implements an orderly stop: after GracefulStop it accepts   *)
(* no call, and it cuts none off before the shutdown timeout.              *)
THEOREM ServerImplementsOrderlyStop == Spec => ServerStops!Spec
<1>1. IInv /\ [Next]_vars => [ServerStops!Next]_(ServerStops!vars)
  BY ServerStopsNext
<1> QED
  BY <1>1, ServerStopsInit, Invariance, PTL DEF Spec, ServerStops!Spec

-----------------------------------------------------------------------------
(* The gateway stops orderly.                                              *)

(* Before anything happens the stop is open and nobody has asked.          *)
LEMMA GatewayStopsInit == Init => GatewayStops!Init
  BY DEF Init, GatewayInit, GatewayStops!Init, GatewayStage, GatewayPatience,
         RequestFate

(* A step that changes neither the stage nor a request is a stutter.       *)
LEMMA GatewayStutters ==
  ASSUME UNCHANGED <<gateway, fate>>,
         gateway = "stopping" => UNCHANGED gatewayTimer
  PROVE  UNCHANGED GatewayStops!vars
  BY DEF GatewayStops!vars, GatewayStage, GatewayPatience, RequestFate

(* So is one within a stage.                                               *)
LEMMA GatewayStaysInStage ==
  ASSUME UNCHANGED fate,
         \/ {gateway, gateway'} \subseteq {"starting", "serving", "draining"}
         \/ {gateway, gateway'} \subseteq {"metrics", "exited", "killed", "died"}
  PROVE  UNCHANGED GatewayStops!vars
  BY DEF GatewayStops!vars, GatewayStage, GatewayPatience, RequestFate

(* A request that changes is one step of the stop.                         *)
LEMMA RequestChanges ==
  ASSUME GatewayTypeOK, UNCHANGED <<gateway, gatewayTimer>>, NEW r \in Request,
         NEW f \in {"waiting", "answered", "refused"}, fate' = [fate EXCEPT ![r] = f]
  PROVE  GatewayStops!Becomes(r, f)
  BY DEF GatewayTypeOK, GatewayStops!Becomes, GatewayStage, GatewayPatience,
         RequestFate

(* Closing the connections cuts off whoever waits.                         *)
LEMMA CloseIsLost ==
  ASSUME GatewayTypeOK, FatesBecome("waiting", "cut")
  PROVE  [r \in Request |-> RequestFate(r)]' = GatewayStops!Lost
  BY DEF GatewayTypeOK, FatesBecome, RequestFate, GatewayStops!Lost

(* The end of the process while it accepts.                                *)
LEMMA GatewayDies ==
  ASSUME IInv, gateway \in {"starting", "serving", "draining"},
         GatewayEnds("died", "cut")
  PROVE  [GatewayStops!Next]_(GatewayStops!vars)
<1>1. [r \in Request |-> RequestFate(r)]' = GatewayStops!Lost
  BY CloseIsLost DEF IInv, TypeOK, GatewayEnds
<1>2. GatewayStops!Fail
  BY <1>1 DEF GatewayEnds, GatewayStops!Fail, GatewayStage, GatewayPatience
<1> QED
  BY <1>2 DEF GatewayStops!Next

(* What the gateway does by itself.                                        *)
LEMMA GatewayStepStops ==
  ASSUME IInv, GatewayStep
  PROVE  [GatewayStops!Next]_(GatewayStops!vars)
<1>0. GatewayTypeOK /\ SocketsFollow /\ WaitingIsForSomebody
  BY DEF IInv, TypeOK
<1>1. CASE Listens
  BY <1>1, GatewayStutters DEF Listens
<1>2. CASE ListenFails \/ DiesOfSignal
  BY <1>2, GatewayDies DEF ListenFails, DiesOfSignal
<1>3. CASE Notified \/ DrainGateway
  BY <1>3, GatewayStaysInStage DEF Notified, DrainGateway
<1>4. CASE Shutdown
  <2>1. GatewayStops!Close
    BY <1>4 DEF Shutdown, GatewayStops!Close, GatewayStage, GatewayPatience,
                RequestFate
  <2> QED
    BY <2>1 DEF GatewayStops!Next
<1>5. CASE ShutdownDone
  <2>1. \A r \in Request : RequestFate(r) # "waiting"
    BY <1>0, <1>5 DEF ShutdownDone, GatewayTypeOK, RequestFate
  <2>2. [r \in Request |-> RequestFate(r)]' = [r \in Request |-> RequestFate(r)]
    BY <1>5 DEF ShutdownDone, RequestFate
  <2>3. GatewayStops!Closed
    BY <1>5, <2>1, <2>2 DEF ShutdownDone, GatewayStops!Closed,
       GatewayStops!Lost, GatewayStage, GatewayPatience
  <2> QED
    BY <2>3 DEF GatewayStops!Next
<1>6. CASE ShutdownTimesOut
  <2>1. [r \in Request |-> RequestFate(r)]' = GatewayStops!Lost
    BY <1>0, <1>6, CloseIsLost DEF ShutdownTimesOut
  <2>2. /\ GatewayStage = "closing" /\ GatewayPatience = 0
        /\ GatewayStage' = "closed" /\ GatewayPatience' = 0
    BY <1>6 DEF ShutdownTimesOut, GatewayStage, GatewayPatience
  <2>3. GatewayStops!Closed
    BY <2>1, <2>2 DEF GatewayStops!Closed
  <2> QED
    BY <2>3 DEF GatewayStops!Next
<1>7. CASE GatewayExits
  <2>1. \A r \in Request : fate[r] # "waiting"
    BY <1>0, <1>7 DEF GatewayExits, WaitingIsForSomebody
  <2>2. fate' = fate
    BY <1>0, <1>7, <2>1
       DEF GatewayExits, GatewayEnds, FatesBecome, GatewayTypeOK
  <2> QED
    BY <1>7, <2>2, GatewayStaysInStage DEF GatewayExits, GatewayEnds
<1> QED
  BY <1>1, <1>2, <1>3, <1>4, <1>5, <1>6, <1>7 DEF GatewayStep

(* A handler that returns answers who waits for it.                        *)
LEMMA ReturnsStops ==
  ASSUME IInv, NEW r \in Request, Returns(r)
  PROVE  [GatewayStops!Next]_(GatewayStops!vars)
<1>0. GatewayTypeOK /\ WaitingIsForSomebody
  BY DEF IInv, TypeOK
<1>1. CASE fate[r] = "waiting"
  <2>1. fate' = [fate EXCEPT ![r] = "answered"]
    BY <1>1 DEF Returns
  <2>2. GatewayStops!Becomes(r, "answered")
    BY <1>0, <2>1, RequestChanges DEF Returns
  <2>3. GatewayStage # "closed" /\ RequestFate(r) = "waiting"
    BY <1>0, <1>1 DEF WaitingIsForSomebody, GatewayTypeOK, Dead, GatewayStage,
                      RequestFate
  <2>4. GatewayStops!Answer(r)
    BY <2>2, <2>3 DEF GatewayStops!Answer
  <2> QED
    BY <2>4 DEF GatewayStops!Next
<1>2. CASE fate[r] # "waiting"
  <2>1. fate' = fate
    BY <1>0, <1>2 DEF Returns, GatewayTypeOK
  <2> QED
    BY <2>1, GatewayStutters DEF Returns
<1> QED
  BY <1>1, <1>2

(* A request is accepted as long as the stop is open.                      *)
LEMMA ArriveStops ==
  ASSUME IInv, NEW r \in Request, Arrive(r)
  PROVE  GatewayStops!Accept(r) \/ GatewayStops!Refuse(r)
<1>0. GatewayTypeOK /\ SocketsFollow
  BY DEF IInv, TypeOK
<1>1. UNCHANGED <<gateway, gatewayTimer>> /\ RequestFate(r) = "none"
  BY DEF Arrive, RequestFate
<1>2. CASE listener = "accepting"
  <2>1. GatewayStops!Becomes(r, "waiting")
    BY <1>0, <1>1, <1>2, RequestChanges DEF Arrive
  <2>2. GatewayStage = "open"
    BY <1>0, <1>2 DEF GatewayTypeOK, SocketsFollow, Dead, GatewayStage
  <2> QED
    BY <1>1, <2>1, <2>2 DEF GatewayStops!Accept
<1>3. CASE listener # "accepting"
  <2>1. GatewayStops!Becomes(r, "refused")
    BY <1>0, <1>1, <1>3, RequestChanges DEF Arrive
  <2> QED
    BY <1>1, <2>1 DEF GatewayStops!Refuse
<1> QED
  BY <1>2, <1>3

(* A client that closes its connection leaves.                             *)
LEMMA ClientLeavesStops ==
  ASSUME IInv, NEW r \in Request, ClientLeaves(r)
  PROVE  GatewayStops!Leave({r})
  BY DEF IInv, TypeOK, GatewayTypeOK, ClientLeaves, GatewayStops!Leave,
         GatewayStage, GatewayPatience, RequestFate

(* Every step of a rollout is a step of the stop of the gateway, or none.  *)
LEMMA GatewayStopsNext ==
  ASSUME IInv, [Next]_vars
  PROVE  [GatewayStops!Next]_(GatewayStops!vars)
<1>1. ASSUME UNCHANGED gatewayVars
      PROVE  [GatewayStops!Next]_(GatewayStops!vars)
  BY <1>1, GatewayStutters DEF gatewayVars
<1>2. CASE Cluster \/ Server
  BY <1>1, <1>2 DEF Cluster, Server
<1>3. CASE Kill
  BY <1>1, <1>3, KilledLast
<1>4. CASE GatewayStep
  BY <1>4, GatewayStepStops
<1>5. CASE Requests
  <2>1. ASSUME NEW r \in Request, Arrive(r)
        PROVE  [GatewayStops!Next]_(GatewayStops!vars)
    BY <2>1, ArriveStops DEF GatewayStops!Next
  <2>2. ASSUME NEW r \in Request, CallOptimizer(r)
        PROVE  [GatewayStops!Next]_(GatewayStops!vars)
    BY <2>2, GatewayStutters DEF CallOptimizer
  <2>3. ASSUME NEW r \in Request, ClientLeaves(r)
        PROVE  [GatewayStops!Next]_(GatewayStops!vars)
    BY <2>3, ClientLeavesStops DEF GatewayStops!Next
  <2> QED
    BY <1>5, <2>1, <2>2, <2>3, ReturnsStops
       DEF Requests, Respond, Optimized, Cancelled
<1>6. CASE Tick
  <2>1. CASE gateway = "stopping"
    <3>1. gatewayTimer > 0 /\ gatewayTimer' = gatewayTimer - 1
      BY <1>6, <2>1, TimesInOrder
         DEF IInv, TypeOK, GatewayTypeOK, Tick, GatewayDue, Decrement
    <3>2. GatewayStops!Wait
      BY <1>6, <2>1, <3>1 DEF Tick, GatewayStops!Wait, GatewayStage,
         GatewayPatience, RequestFate
    <3> QED
      BY <3>2 DEF GatewayStops!Next
  <2>2. CASE gateway # "stopping"
    BY <1>6, <2>2, GatewayStutters DEF Tick
  <2> QED
    BY <2>1, <2>2
<1>7. CASE UNCHANGED vars
  BY <1>1, <1>7 DEF vars
<1> QED
  BY <1>2, <1>3, <1>4, <1>5, <1>6, <1>7 DEF Next, Gateway

(* The gateway implements an orderly stop: Shutdown lets every request it  *)
(* has accepted go on for the shutdown timeout, and accepts no other.      *)
THEOREM GatewayImplementsOrderlyStop == Spec => GatewayStops!Spec
<1>1. IInv /\ [Next]_vars => [GatewayStops!Next]_(GatewayStops!vars)
  BY GatewayStopsNext
<1> QED
  BY <1>1, GatewayStopsInit, Invariance, PTL DEF Spec, GatewayStops!Spec
=============================================================================
