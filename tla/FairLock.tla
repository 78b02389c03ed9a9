------------------------------- MODULE FairLock -------------------------------
(***************************************************************************)
(* What the per-conversation locks promise: one task at a time is inside   *)
(* the section of a conversation, and tasks that wait enter in the order   *)
(* they came.  There are no entries, no counts and no futures here.        *)
(***************************************************************************)
CONSTANTS Tasks, ConversationOf

VARIABLES
  phase,   \* "away", "waiting", "inside", or "withdrawn" after waiting
  before   \* those who wait for the same conversation and came earlier

vars == <<phase, before>>

Rivals(t) == {u \in Tasks \ {t} : ConversationOf[u] = ConversationOf[t]}
WaitingFor(t) == {u \in Rivals(t) : phase[u] = "waiting"}
Free(t) == \A u \in Rivals(t) : phase[u] # "inside"

Init ==
  /\ phase = [t \in Tasks |-> "away"]
  /\ before = [t \in Tasks |-> {}]

Move(t, from, to) == phase[t] = from /\ phase' = [phase EXCEPT ![t] = to]
Forget(t) == before' = [u \in Tasks |-> IF u = t THEN {} ELSE before[u] \ {t}]

(* Nobody is there: the task enters at once.                               *)
Enter(t) ==
  /\ Move(t, "away", "inside")
  /\ Free(t) /\ WaitingFor(t) = {}
  /\ UNCHANGED before

Wait(t) ==
  /\ Move(t, "away", "waiting")
  /\ before' = [before EXCEPT ![t] = WaitingFor(t)]

(* Its turn comes: nobody is inside and nobody came earlier.               *)
Take(t) ==
  /\ Move(t, "waiting", "inside")
  /\ Free(t) /\ before[t] = {}
  /\ Forget(t)

Leave(t) == Move(t, "inside", "away") /\ UNCHANGED before

Withdraw(t) == Move(t, "waiting", "withdrawn") /\ Forget(t)
Return(t) == Move(t, "withdrawn", "away") /\ UNCHANGED before

Next ==
  \E t \in Tasks :
    Enter(t) \/ Wait(t) \/ Take(t) \/ Leave(t) \/ Withdraw(t) \/ Return(t)

Spec == Init /\ [][Next]_vars
=============================================================================
