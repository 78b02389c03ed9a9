\* Marker-only mode, two uvicorn workers, tool calls in the turns, failures anywhere.
SPECIFICATION Spec
CONSTANTS
  r1 = r1
  r2 = r2
  r3 = r3
  r4 = r4
  w1 = w1
  w2 = w2
  u1 = u1
  Requests = {r1, r2, r3, r4}
  Workers = {w1, w2}
  WorkerOf <- TwoWorkers
  Users = {u1}
  UserOf <- OneUser
  CacheUsers = {}
  Streaming = {r1}
  CacheFaults = {}
  AbortPoints = {"probe", "lock", "fetch", "summarize", "mark", "record", "fold", "replace", "infer", "answered"}
  BufferTurns = 1
  TurnShapes <- ToolTurn
  NoRequest = NoRequest
CHECK_DEADLOCK FALSE
INVARIANT TypeOK
INVARIANT MarkersAuthoritative
PROPERTY ImplementsFullHistory
