\* Two requests of one user under a user limiter and a cluster limiter.
SPECIFICATION FairSpec
CONSTANTS
  alice = alice
  service = service
  Limiters <- UserAndCluster
  Requests = {r1, r2}
  Users = {alice}
  Cluster = service
  MaxCost = 1
  MaxCharges = 2
  MaxQuota = 2
  LongestPeriod = 2
  Faults = TRUE
INVARIANT TypeOK
INVARIANT ChargesFindRows
INVARIANT OverspendBounded
PROPERTY ImplementsLedger
PROPERTY ExhaustionEnds
