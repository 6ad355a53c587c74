-------------------------------- MODULE Pods --------------------------------
(***************************************************************************)
(* What Kubernetes does to a pod that it replaces (deploy/base/*.yaml): it *)
(* sends SIGTERM, takes the pod out of the endpoints of its Service at the *)
(* same time and not before, and kills it when its grace is over.          *)
(***************************************************************************)
EXTENDS Integers

CONSTANTS
    Grace,        \* terminationGracePeriodSeconds
    Propagation   \* until every kube-proxy knows that a pod is out

ASSUME GraceAssumption == Grace \in Nat /\ Propagation \in Nat

Pod == {"gateway", "optimizer"}

VARIABLES
    pod,        \* running, terminating or gone
    grace,      \* what is left of the grace
    endpoint    \* whether the Service sends work here: not yet, in or out

podVars == <<pod, grace, endpoint>>

PodsInit ==
    /\ pod = [p \in Pod |-> "running"]
    /\ grace = [p \in Pod |-> Grace]
    /\ endpoint = [p \in Pod |-> "not_yet"]

(* The readiness probe succeeds. *)
Ready(p) ==
    /\ pod[p] = "running" /\ endpoint[p] = "not_yet"
    /\ endpoint' = [endpoint EXCEPT ![p] = "in"]
    /\ UNCHANGED <<pod, grace>>

(* SIGTERM *)
Terminate(p) ==
    /\ pod[p] = "running"
    /\ pod' = [pod EXCEPT ![p] = "terminating"]
    /\ UNCHANGED <<grace, endpoint>>

(* A terminating pod leaves the endpoints, and so does one that has ended. *)
Removed(p) ==
    /\ pod[p] # "running" /\ endpoint[p] = "in"
    /\ endpoint' = [endpoint EXCEPT ![p] = "out"]
    /\ UNCHANGED <<pod, grace>>

(* The process has ended, by itself or by SIGKILL. *)
Ends(p) ==
    /\ pod' = [pod EXCEPT ![p] = "gone"]
    /\ grace' = [grace EXCEPT ![p] = 0]
    /\ UNCHANGED endpoint

GraceIsOver(p) == pod[p] = "terminating" /\ grace[p] = 0

PodsLetTimePass ==
    \A p \in Pod : pod[p] = "terminating" =>
        /\ grace[p] > 0
        /\ endpoint[p] = "in" => grace[p] > Grace - Propagation

PodsTick ==
    /\ grace' = [p \in Pod |-> IF pod[p] = "terminating" THEN grace[p] - 1 ELSE grace[p]]
    /\ UNCHANGED <<pod, endpoint>>

(* The types of the state of the pods. *)
PodsTypeOK ==
    /\ pod \in [Pod -> {"running", "terminating", "gone"}]
    /\ grace \in [Pod -> 0..Grace]
    /\ endpoint \in [Pod -> {"not_yet", "in", "out"}]
=============================================================================
