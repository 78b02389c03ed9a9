\* Three messages of two contexts, the last one of a task that exists, on two
\* workers: two on one, the third on the other.
SPECIFICATION FairSpec
CONSTANTS
  m1 = m1
  m2 = m2
  m3 = m3
  w1 = w1
  w2 = w2
  Messages = {m1, m2, m3}
  Contexts = {c1, c2}
  Workers = {w1, w2}
  WorkerOf <- TwoAndOne
  NewTasks = {m1, m2}
  None = None
CHECK_DEADLOCK FALSE
INVARIANT TypeOK
INVARIANT FinalOnceAndLast
INVARIANT ContextContinues
INVARIANT HistoryPreserved
PROPERTY ImplementsTaskLifecycle
PROPERTY EveryTaskEnds
