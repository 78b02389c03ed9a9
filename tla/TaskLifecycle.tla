----------------------------- MODULE TaskLifecycle -----------------------------
(***************************************************************************)
(* What a client of the A2A protocol is promised of the task of a message: *)
(* its status goes one way and ends once, it is completed only with an     *)
(* answer, and only after it is settled whether the turn is kept in the    *)
(* history.  There are no contexts, stores, conversations and workers here.*)
(***************************************************************************)

CONSTANT Messages

VARIABLES
  status,  \* the last status the client was told, "none" before the first
  answer,  \* the messages whose answer was sent
  turn     \* what became of their turn

vars == <<status, answer, turn>>

Init ==
  /\ status = [m \in Messages |-> "none"]
  /\ answer = {}
  /\ turn = [m \in Messages |-> "open"]

Unstarted == {"none", "submitted"}

Tell(m, s) == status' = [status EXCEPT ![m] = s] /\ UNCHANGED <<answer, turn>>

Submit(m) == status[m] = "none" /\ Tell(m, "submitted")
Work(m) == status[m] \in Unstarted /\ Tell(m, "working")
Ask(m) == status[m] \in Unstarted /\ Tell(m, "input required")
Fail(m) == status[m] \in Unstarted \cup {"working"} /\ m \notin answer /\ Tell(m, "failed")

(* The turn may have been kept by then.                                    *)
Answer(m) ==
  /\ status[m] = "working" /\ m \notin answer
  /\ answer' = answer \cup {m}
  /\ \E t \in {"open", "kept"} : turn' = [turn EXCEPT ![m] = t]
  /\ UNCHANGED status

Settle(m) ==
  /\ status[m] = "working" /\ m \in answer /\ turn[m] = "open"
  /\ \E t \in {"kept", "lost"} : turn' = [turn EXCEPT ![m] = t]
  /\ UNCHANGED <<status, answer>>

Complete(m) ==
  /\ status[m] = "working" /\ m \in answer /\ turn[m] # "open"
  /\ Tell(m, "completed")

Next ==
  \E m \in Messages :
    \/ Submit(m) \/ Work(m) \/ Ask(m) \/ Fail(m)
    \/ Answer(m) \/ Settle(m) \/ Complete(m)

Spec == Init /\ [][Next]_vars
=============================================================================
