---------------------------- MODULE MCCompaction ----------------------------
(***************************************************************************)
(* Instances of ConversationCompaction for TLC.                            *)
(***************************************************************************)
EXTENDS ConversationCompaction, TLC

CONSTANTS r1, r2, r3, r4, w1, w2, u1

OneWorker == (r1 :> w1) @@ (r2 :> w1) @@ (r3 :> w1) @@ (r4 :> w1)
TwoWorkers == (r1 :> w1) @@ (r2 :> w2) @@ (r3 :> w1) @@ (r4 :> w2)
OneUser == (r1 :> u1) @@ (r2 :> u1) @@ (r3 :> u1) @@ (r4 :> u1)

PlainTurns == {<<"message", "message">>}
ToolTurn == {<<"message", "tool", "message">>}
=============================================================================
