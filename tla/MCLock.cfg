\* Four tasks on two conversations, cancelled and returning at will.
SPECIFICATION FairSpec
CONSTANTS
  t1 = t1
  t2 = t2
  t3 = t3
  t4 = t4
  c1 = c1
  c2 = c2
  Tasks = {t1, t2, t3, t4}
  Conversations = {c1, c2}
  ConversationOf <- TwoConversations
  Entries = {e1, e2, e3}
  NoEntry = NoEntry
INVARIANT TypeOK
INVARIANT MutualExclusion
INVARIANT RegisteredWhileUsed
PROPERTY ImplementsFairLock
PROPERTY WaitersAreServed
