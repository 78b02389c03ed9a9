\* Clients that read to the end and interrupt at most once; a database that works.
SPECIFICATION FairSpec
CONSTANTS
  plain = plain
  compacting = compacting
  fresh = fresh
  Requests = {compacting, fresh}
  Compacting = {compacting}
  NewConversations = {fresh}
  MaxInterrupts = 1
  Disconnects = FALSE
  Faults = FALSE
PROPERTY EveryStreamEnds
PROPERTY RegistryDrains
PROPERTY InterruptKeepsTheTurn
CHECK_DEADLOCK FALSE
