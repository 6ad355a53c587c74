---------------------------- MODULE Attribution -----------------------------
(***************************************************************************)
(* Which function the enricher gives a row of its query to (the end of     *)
(* queryCloudWatch in enricher.go).  A row is named by the function whose  *)
(* log group it is of.                                                     *)
(***************************************************************************)
EXTENDS Naturals, FiniteSets, Functions

CONSTANTS
    Fn,       \* the function ids of the graph
    EndsIn,   \* <<f, g>> when the log group of f ends in "-" and g's id
    NoRow

ASSUME AttributionAssumption == NoRow \notin Fn /\ EndsIn \subseteq Fn \X Fn

(* A mistake: prefix and suffix confused. *)
MatchesReversed(row, f) == f = row \/ <<f, row>> \in EndsIn

Matches(row, f) == f = row \/ <<row, f>> \in EndsIn

(* Ids are tried in map order, by suffix: a row goes to the first function *)
(* its log group ends in.                                                  *)
Matched(order, row) ==
    CHOOSE f \in Fn :
        /\ Matches(row, f)
        /\ \A g \in Fn : Matches(row, g) => order[f] <= order[g]

(* Of two rows matched to one function the last read stays. *)
Attributions(rows) ==
    {given \in [Fn -> Fn \cup {NoRow}] :
        \E order \in Bijection(Fn, 1..Cardinality(Fn)) :
            \A f \in Fn :
                LET mine == {row \in rows : Matched(order, row) = f}
                IN IF mine = {} THEN given[f] = NoRow ELSE given[f] \in mine}
=============================================================================
