------------------------------- MODULE MCLock -------------------------------
(* Values for the constants of ConversationLock.                            *)
EXTENDS ConversationLock, TLC

CONSTANTS t1, t2, t3, t4, c1, c2

TwoConversations == t1 :> c1 @@ t2 :> c1 @@ t3 :> c1 @@ t4 :> c2
=============================================================================
