------------------------------- MODULE MCA2A -------------------------------
(* Instances of A2AExecutor for TLC. *)
EXTENDS A2AExecutor, TLC

CONSTANTS m1, m2, m3, w1, w2

TwoAndOne == (m1 :> w1) @@ (m2 :> w1) @@ (m3 :> w2)
=============================================================================
