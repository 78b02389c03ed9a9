\* One worker, one user: a cache write that fails after the marker was written.
SPECIFICATION Spec
CONSTANTS
  r1 = r1
  r2 = r2
  r3 = r3
  r4 = r4
  w1 = w1
  w2 = w2
  u1 = u1
  Requests = {r1, r2, r3, r4}
  Workers = {w1}
  WorkerOf <- OneWorker
  Users = {u1}
  UserOf <- OneUser
  CacheUsers = {r1, r2, r3, r4}
  Streaming = {}
  CacheFaults = {"write"}
  AbortPoints = {}
  BufferTurns = 1
  TurnShapes <- PlainTurns
  NoRequest = NoRequest
CHECK_DEADLOCK FALSE
INVARIANT ContextComplete
