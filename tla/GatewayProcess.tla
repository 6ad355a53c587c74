--------------------------- MODULE GatewayProcess ---------------------------
(***************************************************************************)
(* The life of the gateway (services/gateway/cmd/main.go): main starts the *)
(* HTTP server in a goroutine, waits for SIGTERM, drains, shuts down or    *)
(* closes the server, stops the metrics server in what is left of the same *)
(* timeout, closes its clients and ends.                                   *)
(*                                                                         *)
(* A handler works (database, GitHub, answer) or waits for the optimizer.  *)
(* When its client is gone, or the server closed, the context of its       *)
(* request has ended: it does not go on waiting for the optimizer, but the *)
(* GitHub client does not look at the context.                             *)
(***************************************************************************)
EXTENDS GrpcServer

VARIABLES
    gateway,       \* what the goroutine of main does
    gatewayTimer,  \* how long it does so at most
    listener,      \* the goroutine of ListenAndServe: starting, accepting, closed
    fate,          \* what its client knows of a request
    handler        \* what the handler of a request does: none, working,
                   \* optimizing or over

gatewayVars == <<gateway, gatewayTimer, listener, fate, handler>>

GatewayInit ==
    /\ gateway = "starting" /\ gatewayTimer = 0 /\ listener = "starting"
    /\ fate = [r \in Request |-> "none"]
    /\ handler = [r \in Request |-> "none"]

(* "died" is os.Exit or the default action of a signal. *)
Dead == {"exited", "killed", "died"}

Active(r) == handler[r] \in {"working", "optimizing"}

FatesBecome(from, to) ==
    fate' = [r \in Request |-> IF fate[r] = from THEN to ELSE fate[r]]

-----------------------------------------------------------------------------
(* The goroutine of ListenAndServe *)

Listens ==
    /\ listener = "starting" /\ gateway \in {"starting", "serving", "draining"}
    /\ listener' = "accepting"
    /\ UNCHANGED <<gateway, gatewayTimer, fate, handler, podVars, serverVars>>

(* The process ends: connections, clients and handlers with it. *)
GatewayEnds(how, verdict) ==
    /\ gateway' = how /\ gatewayTimer' = 0 /\ listener' = "closed"
    /\ FatesBecome("waiting", verdict)
    /\ handler' = [r \in Request |-> IF Active(r) THEN "over" ELSE handler[r]]
    /\ Hangup(Request) /\ connected' = FALSE
    /\ UNCHANGED <<server, serverTimer, acceptor, health, handling>>
    /\ Ends("gateway")

(* Listen or Accept fails for good: os.Exit from the goroutine. *)
ListenFails ==
    /\ listener \in {"starting", "accepting"}
    /\ gateway \in {"starting", "serving", "draining"}
    /\ GatewayEnds("died", "cut")

(* The goroutine of main *)

Notified ==
    /\ gateway = "starting"
    /\ gateway' = "serving"
    /\ UNCHANGED <<gatewayTimer, listener, fate, handler, podVars, serverVars>>

(* SIGTERM before NotifyContext *)
DiesOfSignal ==
    /\ gateway = "starting" /\ pod["gateway"] = "terminating"
    /\ GatewayEnds("died", "cut")

DrainGateway ==
    /\ gateway = "serving" /\ pod["gateway"] = "terminating"
    /\ gateway' = "draining" /\ gatewayTimer' = DrainDelay
    /\ UNCHANGED <<listener, fate, handler, podVars, serverVars>>

(* A mistake: the clients are closed before the server is shut down. *)
ShutdownBehindTheClients ==
    /\ gateway = "draining" /\ gatewayTimer = 0
    /\ gateway' = "stopping" /\ gatewayTimer' = ShutdownTimeout
    /\ listener' = "closed"
    /\ Hangup(Request) /\ connected' = FALSE
    /\ UNCHANGED <<fate, handler, podVars, server, serverTimer, acceptor, health, handling>>

(* Shutdown closes the listener and the idle connections. *)
Shutdown ==
    /\ gateway = "draining" /\ gatewayTimer = 0
    /\ gateway' = "stopping" /\ gatewayTimer' = ShutdownTimeout
    /\ listener' = "closed"
    /\ UNCHANGED <<fate, handler, podVars, serverVars>>

(* A mistake: the handlers are not waited for. *)
CloseAtOnce ==
    /\ gateway = "stopping"
    /\ gateway' = "metrics" /\ FatesBecome("waiting", "cut")
    /\ UNCHANGED <<gatewayTimer, listener, handler, podVars, serverVars>>

(* Every handler has returned; stopMetrics has what is left of the time. *)
ShutdownDone ==
    /\ gateway = "stopping" /\ \A r \in Request : ~Active(r)
    /\ gateway' = "metrics"
    /\ UNCHANGED <<gatewayTimer, listener, fate, handler, podVars, serverVars>>

(* shutdownCtx has expired: srv.Close. *)
ShutdownTimesOut ==
    /\ gateway = "stopping" /\ gatewayTimer = 0
    /\ gateway' = "metrics" /\ FatesBecome("waiting", "cut")
    /\ UNCHANGED <<gatewayTimer, listener, handler, podVars, serverVars>>

(* stopMetrics has returned; clients.Close, and the end of main. *)
GatewayExits == gateway = "metrics" /\ GatewayEnds("exited", "cut")

-----------------------------------------------------------------------------
(* Requests *)

(* A new connection, where the Service still sends one. *)
Arrive(r) ==
    /\ fate[r] = "none" /\ endpoint["gateway"] = "in"
    /\ IF listener = "accepting"
       THEN /\ fate' = [fate EXCEPT ![r] = "waiting"]
            /\ handler' = [handler EXCEPT ![r] = "working"]
       ELSE fate' = [fate EXCEPT ![r] = "refused"] /\ UNCHANGED handler
    /\ UNCHANGED <<gateway, gatewayTimer, listener, podVars, serverVars>>

ContextEnded(r) == fate[r] \in {"left", "cut"}

(* Optimize of the gRPC client, which fails at once on an ended context.   *)
CallOptimizer(r) ==
    /\ handler[r] = "working" /\ ~ContextEnded(r)
    /\ handler' = [handler EXCEPT ![r] = "optimizing"]
    /\ SendCall(r)
    /\ UNCHANGED <<gateway, gatewayTimer, listener, fate, podVars>>

Returns(r) ==
    /\ handler' = [handler EXCEPT ![r] = "over"]
    /\ fate' = [fate EXCEPT ![r] = IF @ = "waiting" THEN "answered" ELSE @]
    /\ UNCHANGED <<gateway, gatewayTimer, listener, podVars>>

(* A handler that needs no optimizer, or failed before it. *)
Respond(r) ==
    /\ handler[r] = "working" /\ Returns(r)
    /\ UNCHANGED serverVars

(* The optimizer's plan, or a 500 if the call was refused or cut off. *)
Optimized(r) ==
    /\ handler[r] = "optimizing" /\ call[r] # "waiting"
    /\ Returns(r)
    /\ UNCHANGED serverVars

(* The RPC ends with the context. *)
Cancelled(r) ==
    /\ handler[r] = "optimizing" /\ ContextEnded(r)
    /\ Returns(r) /\ Hangup({r})
    /\ UNCHANGED <<server, serverTimer, acceptor, health, connected, handling>>

(* The client closes its connection. *)
ClientLeaves(r) ==
    /\ fate[r] = "waiting"
    /\ fate' = [fate EXCEPT ![r] = "left"]
    /\ UNCHANGED <<gateway, gatewayTimer, listener, handler, podVars, serverVars>>

Requests ==
    \E r \in Request :
        \/ Arrive(r) \/ CallOptimizer(r) \/ Respond(r) \/ Optimized(r)
        \/ Cancelled(r) \/ ClientLeaves(r)

GatewayStep ==
    \/ Listens \/ ListenFails \/ Notified \/ DiesOfSignal \/ DrainGateway
    \/ Shutdown \/ ShutdownDone \/ ShutdownTimesOut \/ GatewayExits

GatewayDue ==
    \/ gateway \in {"starting", "serving"} /\ pod["gateway"] = "terminating"
    \/ gateway \in {"draining", "metrics"} /\ gatewayTimer = 0
    \/ gateway = "stopping" /\ (gatewayTimer = 0 \/ \A r \in Request : ~Active(r))

-----------------------------------------------------------------------------
(* The types of the state of the gateway. *)
GatewayTypeOK ==
    /\ gateway \in {"starting", "serving", "draining", "stopping", "metrics"} \cup Dead
    /\ gatewayTimer \in 0..(DrainDelay + ShutdownTimeout)
    /\ listener \in {"starting", "accepting", "closed"}
    /\ fate \in [Request -> {"none", "waiting", "answered", "left", "refused",
                             "cut", "killed"}]
    /\ handler \in [Request -> {"none", "working", "optimizing", "over"}]
    /\ \A r \in Request : fate[r] = "waiting" => Active(r)
    /\ gateway \in Dead <=> pod["gateway"] = "gone"

(* A client loses its plan to a shutdown of the gateway only with its own  *)
(* connection: the calls of the gateway outlive every request somebody     *)
(* waits for, although closing the clients cancels them all.               *)
CallsOutliveTheirRequests ==
    \A r \in Request : call[r] = "left" => fate[r] \in {"left", "cut", "killed"}

(* The gateway, from Shutdown to Close, as an orderly stop. *)
GatewayStage ==
    CASE gateway \in {"starting", "serving", "draining"} -> "open"
      [] gateway = "stopping" -> "closing"
      [] OTHER -> "closed"

GatewayPatience == IF gateway = "stopping" THEN gatewayTimer ELSE 0

RequestFate(r) == IF fate[r] \in {"cut", "killed"} THEN "lost" ELSE fate[r]

GatewayStops == INSTANCE OrderlyStop WITH
    Work <- Request,
    Patience <- ShutdownTimeout,
    stage <- GatewayStage,
    left <- GatewayPatience,
    fate <- [r \in Request |-> RequestFate(r)]
=============================================================================
