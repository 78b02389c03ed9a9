------------------------------ MODULE MCHolder ------------------------------
(* Four requests, one of them for the A2A endpoint, and two readiness checks. *)
EXTENDS ClientHolder, TLC

CONSTANTS r1, r2, r3, a2a, p1, p2

MCRefreshing == {r1, r2, r3}
MCRequests == MCRefreshing \cup {a2a}
MCProbes == {p1, p2}

Symmetry == Permutations(MCRefreshing) \cup Permutations(MCProbes)
=============================================================================
