----------------------------- MODULE MCAccounts -----------------------------
(* Two users, three logins, two requests. *)
EXTENDS Accounts, TLC

CONSTANTS u1, u2, l1, l2, l3, r1, r2, arn1, arn2

MCSymmetry ==
    Permutations({u1, u2}) \cup Permutations({l1, l2, l3})
    \cup Permutations({r1, r2}) \cup Permutations({arn1, arn2})
=============================================================================
