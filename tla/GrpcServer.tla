----------------------------- MODULE GrpcServer -----------------------------
(***************************************************************************)
(* The life of a gRPC service (shared/grpcserver/server.go), here of the   *)
(* optimizer: Serve starts a goroutine that accepts, waits for SIGTERM,    *)
(* drains, stops gracefully or by force, and ends behind its metrics       *)
(* server.  A call is named by the request of the gateway it belongs to.   *)
(*                                                                         *)
(* Time passes in Rollout.  A handler may run as long as it likes, and     *)
(* goes on when nobody waits for it any more: Optimize does not look at    *)
(* its context.                                                            *)
(***************************************************************************)
EXTENDS Pods

CONSTANTS
    Request,
    DrainDelay,        \* defaultDrainDelay, drainDelay
    ShutdownTimeout,   \* defaultShutdownTimeout, shutdownTimeout
    MetricsTimeout     \* of stopMetrics in Serve

ASSUME TimesAssumption == {DrainDelay, ShutdownTimeout, MetricsTimeout} \subseteq Nat

VARIABLES
    server,       \* what the goroutine of main does
    serverTimer,  \* how long it does so at most
    acceptor,     \* the goroutine of serve: starting, accepting, closed or failed
    health,       \* the status of the service ""
    connected,    \* the gateway has a connection to this process
    call,         \* what its caller knows of a call
    handling      \* the calls whose handlers run

serverVars == <<server, serverTimer, acceptor, health, connected, call, handling>>

(* health.NewServer begins with SERVING; lis is open, SIGTERM is caught.   *)
ServerInit ==
    /\ server = "listening" /\ serverTimer = 0
    /\ acceptor = "starting" /\ health = "SERVING"
    /\ connected = FALSE
    /\ call = [r \in Request |-> "none"] /\ handling = {}

CallsBecome(from, to) ==
    call' = [r \in Request |-> IF call[r] = from THEN to ELSE call[r]]

-----------------------------------------------------------------------------
(* The goroutine of serve *)

(* It may run late; Serve of grpc returns at once when the stop was faster. *)
AcceptCalls ==
    /\ acceptor = "starting" /\ pod["optimizer"] # "gone"
    /\ health' = "SERVING"
    /\ acceptor' = IF server \in {"listening", "draining"} THEN "accepting" ELSE "closed"
    /\ UNCHANGED <<server, serverTimer, connected, call, handling>>

(* Accept fails for good; connections there are go on. *)
AcceptFails ==
    /\ acceptor = "accepting"
    /\ acceptor' = "failed"
    /\ UNCHANGED <<server, serverTimer, health, connected, call, handling>>

(* The goroutine of main *)

(* errCh: Serve returns, its deferred stopMetrics first. *)
ServeFails ==
    /\ server = "listening" /\ acceptor = "failed"
    /\ server' = "failing" /\ serverTimer' = MetricsTimeout
    /\ UNCHANGED <<acceptor, health, connected, call, handling>>

(* A mistake: readiness is failed after the wait. *)
DrainInSilence ==
    /\ server = "listening" /\ pod["optimizer"] = "terminating"
    /\ server' = "draining" /\ serverTimer' = DrainDelay
    /\ UNCHANGED <<acceptor, health, connected, call, handling>>

(* ctx.Done: readiness is failed first. *)
Drain ==
    /\ server = "listening" /\ pod["optimizer"] = "terminating"
    /\ health' = "NOT_SERVING"
    /\ server' = "draining" /\ serverTimer' = DrainDelay
    /\ UNCHANGED <<acceptor, connected, call, handling>>

(* Mistakes: nobody waits for the endpoints; the metrics server has its    *)
(* time first.                                                             *)
StopAtOnce ==
    /\ server = "draining"
    /\ server' = "stopping" /\ serverTimer' = ShutdownTimeout
    /\ acceptor' = IF acceptor = "accepting" THEN "closed" ELSE acceptor
    /\ connected' = FALSE
    /\ UNCHANGED <<health, call, handling>>

GracefulStopBehindTheMetrics ==
    /\ server = "draining" /\ serverTimer = 0
    /\ server' = "stopping" /\ serverTimer' = MetricsTimeout + ShutdownTimeout
    /\ acceptor' = IF acceptor = "accepting" THEN "closed" ELSE acceptor
    /\ connected' = FALSE
    /\ UNCHANGED <<health, call, handling>>

(* GracefulStop closes the listener and tells the clients to go away: what *)
(* is in flight goes on, new calls take another connection.                *)
GracefulStop ==
    /\ server = "draining" /\ serverTimer = 0
    /\ server' = "stopping" /\ serverTimer' = ShutdownTimeout
    /\ acceptor' = IF acceptor = "accepting" THEN "closed" ELSE acceptor
    /\ connected' = FALSE
    /\ UNCHANGED <<health, call, handling>>

StopMetrics ==
    /\ server' = "metrics" /\ serverTimer' = MetricsTimeout
    /\ UNCHANGED <<acceptor, health, connected, handling>>

(* A mistake: Stop at the end of the drain. *)
StopGracelessly ==
    /\ server = "stopping"
    /\ StopMetrics /\ CallsBecome("waiting", "cut")

(* GracefulStop waits for the handlers, for those nobody waits for too. *)
Stopped ==
    /\ server = "stopping" /\ handling = {}
    /\ StopMetrics /\ UNCHANGED call

(* time.After: Stop closes the connections.  It may itself wait for the    *)
(* handlers GracefulStop is waiting for.                                   *)
ForceStop ==
    /\ server = "stopping" /\ serverTimer = 0
    /\ CallsBecome("waiting", "cut")
    /\ \/ StopMetrics
       \/ /\ handling # {}
          /\ server' = "forcing" /\ serverTimer' = 0
          /\ UNCHANGED <<acceptor, health, connected, handling>>

Forced == server = "forcing" /\ StopMetrics /\ UNCHANGED call

(* The process ends, and with it its connections and handlers. *)
ServerEnds(how, verdict) ==
    /\ server' = how /\ serverTimer' = 0
    /\ handling' = {} /\ connected' = FALSE
    /\ CallsBecome("waiting", verdict)
    /\ UNCHANGED <<acceptor, health>>
    /\ Ends("optimizer")

(* stopMetrics returns when no scrape is in flight, or with an error. *)
Exit ==
    /\ server \in {"metrics", "failing"}
    /\ ServerEnds("exited", "cut")

-----------------------------------------------------------------------------
(* Calls *)

Ended == {"exited", "killed"}

SocketOpen == acceptor = "accepting" /\ server \in {"listening", "draining"}

(* A new call: on the connection there is, on a new one to where the       *)
(* Service sends it, or refused there; out of the endpoints, another pod   *)
(* has it.                                                                 *)
SendCall(r) ==
    /\ call[r] = "none"
    /\ \/ /\ connected \/ (endpoint["optimizer"] = "in" /\ SocketOpen)
          /\ connected' = TRUE
          /\ call' = [call EXCEPT ![r] = "waiting"]
          /\ handling' = handling \cup {r}
       \/ /\ ~connected /\ endpoint["optimizer"] = "in" /\ ~SocketOpen
          /\ call' = [call EXCEPT ![r] = "refused"]
          /\ UNCHANGED <<connected, handling>>
       \/ /\ ~connected /\ endpoint["optimizer"] # "in"
          /\ call' = [call EXCEPT ![r] = "elsewhere"]
          /\ UNCHANGED <<connected, handling>>
    /\ UNCHANGED <<server, serverTimer, acceptor, health>>

(* A mistake: a panic nobody recovers from leaves its caller waiting. *)
HandlerPanics(r) ==
    /\ r \in handling
    /\ handling' = handling \ {r}
    /\ UNCHANGED <<call, server, serverTimer, acceptor, health, connected, podVars>>

(* The handler returns, or panics and recoveryInterceptor answers for it.  *)
HandlerReturns(r) ==
    /\ r \in handling
    /\ handling' = handling \ {r}
    /\ call' = [call EXCEPT ![r] = IF @ = "waiting" THEN "answered" ELSE @]
    /\ UNCHANGED <<server, serverTimer, acceptor, health, connected, podVars>>

(* Who called does not wait any more, the handler is not stopped. *)
Hangup(S) ==
    call' = [r \in Request |->
                IF r \in S /\ call[r] = "waiting" THEN "left" ELSE call[r]]

ServerStep ==
    \/ /\ AcceptCalls \/ AcceptFails \/ ServeFails \/ Drain
          \/ GracefulStop \/ Stopped \/ ForceStop \/ Forced
       /\ UNCHANGED podVars
    \/ Exit

(* What the goroutines have to do at once. *)
ServerDue ==
    \/ server = "listening" /\ (pod["optimizer"] = "terminating" \/ acceptor = "failed")
    \/ server \in {"draining", "metrics", "failing"} /\ serverTimer = 0
    \/ server = "stopping" /\ (serverTimer = 0 \/ handling = {})
    \/ server = "forcing" /\ handling = {}

-----------------------------------------------------------------------------
(* The types of the state. *)
ServerTypeOK ==
    /\ server \in {"listening", "draining", "stopping", "forcing", "metrics",
                   "failing"} \cup Ended
    /\ serverTimer \in 0..(DrainDelay + ShutdownTimeout + MetricsTimeout)
    /\ acceptor \in {"starting", "accepting", "closed", "failed"}
    /\ health \in {"SERVING", "NOT_SERVING"}
    /\ connected \in BOOLEAN
    /\ call \in [Request -> {"none", "waiting", "answered", "left", "refused",
                             "elsewhere", "cut", "killed"}]
    /\ handling \subseteq Request
    /\ \A r \in Request : call[r] = "waiting" => r \in handling
    /\ server \in Ended <=> pod["optimizer"] = "gone"

(* A service that calls were sent to reports NOT_SERVING while it drains   *)
(* and while GracefulStop waits: the goroutine that reports SERVING may be *)
(* late, but not after a probe has found it ready.                         *)
DrainIsAnnounced ==
    server \in {"draining", "stopping"} /\ endpoint["optimizer"] # "not_yet"
    => health = "NOT_SERVING"

(* The service, from GracefulStop to the end of Stop, as an orderly stop.  *)
ServerStage ==
    CASE server \in {"listening", "draining", "failing"} -> "open"
      [] server = "stopping" -> "closing"
      [] OTHER -> "closed"

ServerPatience == IF server = "stopping" THEN serverTimer ELSE 0

CallFate(r) ==
    IF call[r] \in {"cut", "killed"} THEN "lost"
    ELSE IF call[r] = "elsewhere" THEN "refused" ELSE call[r]

ServerStops == INSTANCE OrderlyStop WITH
    Work <- Request,
    Patience <- ShutdownTimeout,
    stage <- ServerStage,
    left <- ServerPatience,
    fate <- [r \in Request |-> CallFate(r)]
=============================================================================
