------------------------------- MODULE MCQuota -------------------------------
(* Values for the constants of Quota.                                       *)
EXTENDS Quota, TLC

CONSTANTS alice, service

(* A user limiter that is reset, and a cluster limiter that is increased.   *)
UserAndCluster ==
  << [type |-> "u", initial |-> 2, increase |-> 0, period |-> 2],
     [type |-> "c", initial |-> 1, increase |-> 1, period |-> 1] >>
=============================================================================
