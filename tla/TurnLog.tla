------------------------------- MODULE TurnLog --------------------------------
(***************************************************************************)
(* What the tables of conversations and turns promise: the turns of a      *)
(* conversation are a log.  A turn is appended to it in one step, once and *)
(* at the end; the last response is that of the answer appended last.      *)
(* There are no sessions, no numbers and no workers here.                  *)
(***************************************************************************)
EXTENDS Sequences

CONSTANTS Requests, Conversations, None

VARIABLES
  log,   \* the turns of each conversation, in order
  last   \* the last answer of each conversation, or None

vars == <<log, last>>

Recorded(c, r) == \E i \in DOMAIN log[c] : log[c][i].request = r

Init ==
  /\ log = [c \in Conversations |-> <<>>]
  /\ last = [c \in Conversations |-> None]

(* A refusal is a turn, but no response that can be continued.             *)
Record(c, r, refused) ==
  /\ log' = [log EXCEPT ![c] =
               Append(@, [request |-> r, refused |-> refused])]
  /\ last' = IF refused THEN last ELSE [last EXCEPT ![c] = r]
  /\ \A d \in Conversations : ~Recorded(d, r)

(* A conversation is deleted, with its turns or without them.              *)
Delete(c) ==
  /\ log' = [log EXCEPT ![c] = <<>>]
  /\ last' = [last EXCEPT ![c] = None]
Forget(c) ==
  /\ last' = [last EXCEPT ![c] = None]
  /\ UNCHANGED log

(* A step changes one conversation.                                        *)
Changes(c) == log'[c] # log[c] \/ last'[c] # last[c]
Next ==
  \E c \in Conversations :
    /\ Changes(c)
    /\ \/ \E r \in Requests, refused \in BOOLEAN : Record(c, r, refused)
       \/ Delete(c) \/ Forget(c)

Spec == Init /\ [][Next]_vars
=============================================================================
