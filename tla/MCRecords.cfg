\* Three requests on two workers, two conversations, and one deletion.
SPECIFICATION Spec
CONSTANTS
  Requests = {r1, r2, r3}
  Conversations = {c1, c2}
  Workers = {w1, w2}
  Deletions = {d1}
  None = None
  NoRow = NoRow
SYMMETRY Symmetry
INVARIANT TypeOK
INVARIANT TurnsNumberedInOrder
INVARIANT CountWithinTurns
PROPERTY ImplementsTurnLog
INVARIANT ContinuesLatest
INVARIANT CachedIsRecorded
CHECK_DEADLOCK FALSE
