\* A compacting stream and one that starts a conversation; every fault, two interrupts each.
SPECIFICATION Spec
CONSTANTS
  plain = plain
  compacting = compacting
  fresh = fresh
  Requests = {compacting, fresh}
  Compacting = {compacting}
  NewConversations = {fresh}
  MaxInterrupts = 2
  Disconnects = TRUE
  Faults = TRUE
INVARIANT TypeOK
INVARIANT StoredOnce
INVARIANT InterruptedNotCharged
PROPERTY ImplementsTurnAccount
CHECK_DEADLOCK FALSE
