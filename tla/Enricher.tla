------------------------------ MODULE Enricher ------------------------------
(***************************************************************************)
(* One call of the enricher (services/enricher/internal/enricher.go): ask  *)
(* CloudWatch for the REPORT records of every function, poll until the     *)
(* query is over, and attribute the rows to the functions.                 *)
(*                                                                         *)
(* The caller's deadline travels with the call, and CloudWatch calls fail  *)
(* once it has passed; the pause between two polls does not look at it.    *)
(***************************************************************************)
EXTENDS Attribution

CONSTANT PollInterval   \* one second

ASSUME EnricherAssumption == PollInterval \in Nat \ {0}

VARIABLES
    now,         \* the time
    enricher,    \* what the call does: idle, start, poll, sleep, ok or error
    deadline,    \* of the call
    wake,        \* when the pause ends
    measured     \* per function, the function whose row it was given

enricherVars == <<enricher, deadline, wake, measured>>

Unmeasured == [f \in Fn |-> NoRow]

EnricherInit ==
    /\ enricher = "idle" /\ deadline = 0 /\ wake = 0 /\ measured = Unmeasured

Call(d) ==
    /\ enricher' = "start" /\ deadline' = d
    /\ UNCHANGED <<wake, measured>>

Working == enricher \in {"start", "poll", "sleep"}

-----------------------------------------------------------------------------
Over(result) == enricher' = result /\ UNCHANGED <<deadline, wake, measured>>

(* A log group that does not exist is no error: there is nothing to read.  *)
StartQuery ==
    /\ enricher = "start"
    /\ \/ now < deadline /\ enricher' = "poll" /\ UNCHANGED <<deadline, wake, measured>>
       \/ now < deadline /\ Over("ok")
       \/ Over("error")
    /\ UNCHANGED now

(* Mistakes: the rows of a query that is still running are kept; the poll  *)
(* does not carry the deadline.                                            *)
PollKeepingPartialRows ==
    /\ enricher = "poll"
    /\ \/ /\ now < deadline
          /\ \E rows \in SUBSET Fn : measured' \in Attributions(rows)
          /\ enricher' \in {"ok", "sleep"} /\ wake' = now + PollInterval
          /\ UNCHANGED deadline
       \/ Over("error")
    /\ UNCHANGED now

PollWithoutDeadline ==
    /\ enricher = "poll"
    /\ \/ \E rows \in SUBSET Fn :
             /\ measured' \in Attributions(rows)
             /\ enricher' = "ok" /\ UNCHANGED <<deadline, wake>>
       \/ /\ enricher' = "sleep" /\ wake' = now + PollInterval
          /\ UNCHANGED <<deadline, measured>>
       \/ Over("error")
    /\ UNCHANGED now

(* Complete gives rows for the functions that have records.  Failed and    *)
(* Cancelled are errors; any other status, Timeout included, is waited out. *)
Poll ==
    /\ enricher = "poll"
    /\ \/ /\ now < deadline
          /\ \E rows \in SUBSET Fn :
                /\ measured' \in Attributions(rows)
                /\ enricher' = "ok" /\ UNCHANGED <<deadline, wake>>
       \/ /\ now < deadline
          /\ enricher' = "sleep" /\ wake' = now + PollInterval
          /\ UNCHANGED <<deadline, measured>>
       \/ Over("error")
    /\ UNCHANGED now

Wake ==
    /\ enricher = "sleep" /\ now = wake
    /\ enricher' = "poll"
    /\ UNCHANGED <<now, deadline, wake, measured>>

EnricherNext == StartQuery \/ Poll \/ Wake

(* Calls to CloudWatch end at the deadline, pauses when they are due. *)
EnricherLetsTimePass ==
    /\ enricher \in {"start", "poll"} => now < deadline
    /\ enricher = "sleep" => now < wake

-----------------------------------------------------------------------------
(* The types of the enricher's state. *)
EnricherTypeOK ==
    /\ now \in Nat /\ deadline \in Nat /\ wake \in Nat
    /\ enricher \in {"idle", "start", "poll", "sleep", "ok", "error"}
    /\ measured \in [Fn -> Fn \cup {NoRow}]
    /\ enricher # "ok" => measured = Unmeasured

(* A query CloudWatch never finishes does not keep the enricher polling    *)
(* for a caller that is gone: it stops one pause after the deadline.       *)
EnricherStops == Working => now <= deadline + PollInterval
=============================================================================
