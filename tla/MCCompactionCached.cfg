\* One worker and one user with a persisting cache: reads and deletions may fail.
SPECIFICATION FairSpec
CONSTANTS
  r1 = r1
  r2 = r2
  r3 = r3
  r4 = r4
  w1 = w1
  w2 = w2
  u1 = u1
  Requests = {r1, r2, r3, r4}
  Workers = {w1}
  WorkerOf <- OneWorker
  Users = {u1}
  UserOf <- OneUser
  CacheUsers = {r1, r2, r3, r4}
  Streaming = {r1}
  CacheFaults = {"read", "delete"}
  AbortPoints = {"lock", "fetch", "summarize", "mark", "fold", "answered"}
  BufferTurns = 1
  TurnShapes <- PlainTurns
  NoRequest = NoRequest
CHECK_DEADLOCK FALSE
INVARIANT NothingTwice
INVARIANT CacheAgreesWithMarkers
PROPERTY BoundaryNeverMovesBack
PROPERTY ImplementsFullHistory
PROPERTY EveryRequestEnds
