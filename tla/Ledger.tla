-------------------------------- MODULE Ledger ---------------------------------
(***************************************************************************)
(* What the quotas promise: accounts that are not overdrawn by more than   *)
(* what was granted.  Whoever finds a positive balance holds a credit, and *)
(* what is charged is taken from the holder's credit and from the balance  *)
(* at once.  There are no limiters, calls, statements and scheduler here.  *)
(***************************************************************************)
EXTENDS Integers

CONSTANTS
  Subjects, Requests,
  Credit  \* what a request may hold of a subject

VARIABLES
  accounts,  \* subjects that have an account
  balance,
  hold       \* what a request may still be charged to a subject

vars == <<accounts, balance, hold>>

Init ==
  /\ accounts = {}
  /\ balance = [s \in Subjects |-> 0]
  /\ hold = [r \in Requests |-> [s \in Subjects |-> 0]]

Nothing == [s \in Subjects |-> 0]

(* The first request of a subject opens its account: with a balance it     *)
(* gets its credit there, without one it is turned away.                   *)
Open(r, s) ==
  /\ s \notin accounts /\ accounts' = accounts \cup {s}
  /\ \A q \in Requests : hold[q][s] = 0
  /\ balance'[s] >= 0 /\ balance' = [balance EXCEPT ![s] = balance'[s]]
  /\ hold' = IF balance'[s] > 0 THEN [hold EXCEPT ![r][s] = Credit[s]]
             ELSE [hold EXCEPT ![r] = Nothing]

Grant(r, s) ==
  /\ s \in accounts /\ balance[s] > 0
  /\ hold' = [hold EXCEPT ![r][s] = Credit[s]]
  /\ UNCHANGED <<accounts, balance>>

Spend(r, s) ==
  /\ s \in accounts
  /\ \E n \in 0..hold[r][s] :
       /\ balance' = [balance EXCEPT ![s] = @ - n]
       /\ hold' = [hold EXCEPT ![r][s] = @ - n]
  /\ UNCHANGED accounts

(* A call cost less than it could, or the request ends.                    *)
Release(r) ==
  /\ \A s \in Subjects : hold'[r][s] \in 0..hold[r][s]
  /\ hold' = [hold EXCEPT ![r] = [s \in Subjects |-> hold'[r][s]]]
  /\ UNCHANGED <<accounts, balance>>

(* Balances grow, or are set to a quota whatever they were.                *)
Renew ==
  /\ \A s \in Subjects :
       \/ balance'[s] = balance[s]
       \/ s \in accounts /\ (balance'[s] > balance[s] \/ balance'[s] > 0)
  /\ balance' = [s \in Subjects |-> balance'[s]]
  /\ UNCHANGED <<accounts, hold>>

Next ==
  \/ \E r \in Requests :
       \/ \E s \in Subjects : Open(r, s) \/ Grant(r, s) \/ Spend(r, s)
       \/ Release(r)
  \/ Renew

Spec == Init /\ [][Next]_vars
=============================================================================
