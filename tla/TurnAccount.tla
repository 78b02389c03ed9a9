------------------------------ MODULE TurnAccount ------------------------------
(***************************************************************************)
(* What a streamed answer promises its user, whoever finishes the turn: it *)
(* is settled first, that is in the conversation or known to have failed;  *)
(* only then is it listed, once, and charged; and a turn the user stopped  *)
(* is never charged.  There are no tasks, guards or cancellations here.    *)
(***************************************************************************)
EXTENDS Naturals

CONSTANT Requests

VARIABLES
  stopped,  \* an interrupt of the user was accepted
  fate,     \* "open", "kept" in the conversation, or "lost"
  listed,   \* times the turn was added to the user's conversations
  charged   \* the tokens of the answer were consumed

vars == <<stopped, fate, listed, charged>>

Init ==
  /\ stopped = [r \in Requests |-> FALSE]
  /\ fate = [r \in Requests |-> "open"]
  /\ listed = [r \in Requests |-> 0]
  /\ charged = [r \in Requests |-> FALSE]

Stop(r) ==
  /\ ~charged[r]
  /\ stopped' = [stopped EXCEPT ![r] = TRUE]
  /\ UNCHANGED <<fate, listed, charged>>

(* What is kept stays; what this service lost, OGX may store all the same. *)
Settled(r) ==
  /\ \E f \in {"kept", "lost"} : fate' = [fate EXCEPT ![r] = f]
  /\ fate[r] = "kept" => fate'[r] = "kept"
Settle(r) == Settled(r) /\ UNCHANGED <<stopped, listed, charged>>

(* The write of an interrupted turn ends in the step that lists it.        *)
List(r) ==
  /\ listed[r] = 0
  /\ listed' = [listed EXCEPT ![r] = 1]
  /\ Settled(r)
  /\ UNCHANGED <<stopped, charged>>

Charge(r) ==
  /\ ~stopped[r] /\ fate[r] # "open"
  /\ charged' = [charged EXCEPT ![r] = TRUE]
  /\ UNCHANGED <<stopped, fate, listed>>

Next == \E r \in Requests : Stop(r) \/ Settle(r) \/ List(r) \/ Charge(r)

Spec == Init /\ [][Next]_vars
=============================================================================
