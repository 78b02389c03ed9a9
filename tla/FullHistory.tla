----------------------------- MODULE FullHistory -----------------------------
(***************************************************************************)
(* What conversation compaction promises: it is invisible.  Each request   *)
(* on a conversation is answered by a model that was told about every      *)
(* message stored when the request arrived, and about nothing that was not *)
(* stored, as if the whole history were replayed every time; afterwards    *)
(* the request's own turn joins the history, at most once.                 *)
(***************************************************************************)
EXTENDS Naturals

CONSTANTS Requests

VARIABLES history, phase, asked, told

vars == <<history, phase, asked, told>>

Init ==
  /\ history = {}
  /\ phase = [r \in Requests |-> "new"]
  /\ asked = [r \in Requests |-> {}]
  /\ told = [r \in Requests |-> {}]

Move(r, from, to) == phase[r] = from /\ phase' = [phase EXCEPT ![r] = to]

Ask(r) ==
  /\ Move(r, "new", "asked")
  /\ asked' = [asked EXCEPT ![r] = history]
  /\ UNCHANGED <<history, told>>

Answer(r) ==
  /\ Move(r, "asked", "answered")
  /\ \E known \in SUBSET history :
       asked[r] \subseteq known /\ told' = [told EXCEPT ![r] = known]
  /\ UNCHANGED <<history, asked>>

Store(r) ==
  /\ Move(r, "answered", "stored")
  /\ history \subseteq history'
  /\ (history' \ history) \subseteq {r} \X (Nat \ {0})
  /\ UNCHANGED <<asked, told>>

GiveUp(r) ==
  /\ Move(r, "asked", "gone") \/ Move(r, "answered", "gone")
  /\ UNCHANGED <<history, asked, told>>

Next == \E r \in Requests : Ask(r) \/ Answer(r) \/ Store(r) \/ GiveUp(r)

Spec == Init /\ [][Next]_vars
=============================================================================
