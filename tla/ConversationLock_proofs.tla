----------------------- MODULE ConversationLock_proofs -----------------------
(***************************************************************************)
(* Theorems about ConversationLock, for every finite set of tasks and any  *)
(* conversations and entries.                                              *)
(***************************************************************************)
EXTENDS ConversationLock, FiniteSetTheorems, WellFoundedInduction, TLAPS

LEMMA UsersFinite ==
  ASSUME NEW e
  PROVE  IsFiniteSet(Users(e)) /\ Cardinality(Users(e)) \in Nat
<1>1. Users(e) \subseteq Tasks
  BY DEF Users
<1>2. QED
  BY <1>1, LockAssumption, FS_Subset, FS_CardinalityType

LEMMA InitInv == Init => LockInv
<1> SUFFICES ASSUME Init PROVE LockInv
  OBVIOUS
<1>1. TypeOK
  BY DEF Init, TypeOK
<1>2. EntriesInUse
  BY LockAssumption DEF Init, EntriesInUse, RegisteredWhileUsed
<1>3. HeldByOne /\ OrderedQueue
  BY DEF Init, HeldByOne, OrderedQueue, Promised, Queued
<1>4. QED
  BY <1>1, <1>2, <1>3 DEF LockInv

(* The conversation of a task in use, and its entry.                       *)
LEMMA UsedEntry ==
  ASSUME LockInv, NEW t \in Tasks, state[t] # "idle"
  PROVE  /\ entry[t] \in Entries /\ ConversationOf[t] \in Conversations
         /\ registry[ConversationOf[t]] = entry[t]
         /\ t \in Users(entry[t])
         /\ waiters[entry[t]] = Cardinality(Users(entry[t]))
<1>1. entry[t] \in Entries
  BY DEF LockInv, TypeOK, EntriesInUse
<1>2. entry[t] # NoEntry /\ ConversationOf[t] \in Conversations
  BY <1>1, LockAssumption
<1>3. QED
  BY <1>1, <1>2 DEF LockInv, EntriesInUse, RegisteredWhileUsed, Users

(* Whoever leaves an entry keeps the registry sound.                       *)
LEMMA DeregisterKeepsEntries ==
  ASSUME LockInv, NEW t \in Tasks, state[t] # "idle", Deregister(t),
         state'[t] = "idle",
         \A u \in Tasks \ {t} : state'[u] = "idle" <=> state[u] = "idle"
  PROVE  /\ EntriesInUse'
         /\ registry' \in [Conversations -> Entries \cup {NoEntry}]
         /\ waiters' \in [Entries -> Nat]
         /\ entry' \in [Tasks -> Entries \cup {NoEntry}]
<1> DEFINE c == ConversationOf[t]
<1> PICK e \in Entries : e = entry[t]
  BY UsedEntry
<1>1. /\ e \in Entries /\ c \in Conversations /\ registry[c] = e
      /\ t \in Users(e) /\ waiters[e] = Cardinality(Users(e)) /\ e # NoEntry
  BY UsedEntry, LockAssumption
<1>2. /\ IsFiniteSet(Users(e)) /\ Cardinality(Users(e)) \in Nat
      /\ Cardinality(Users(e)) # 0
  BY <1>1, UsersFinite, FS_EmptySet
<1>3. /\ entry' = [entry EXCEPT ![t] = NoEntry]
      /\ waiters' = [waiters EXCEPT ![e] = @ - 1]
      /\ registry' = IF waiters[e] = 1 THEN [registry EXCEPT ![c] = NoEntry]
                     ELSE registry
  BY DEF Deregister
<1>4. /\ registry' \in [Conversations -> Entries \cup {NoEntry}]
      /\ entry' \in [Tasks -> Entries \cup {NoEntry}]
  BY <1>1, <1>3 DEF LockInv, TypeOK
<1>5. waiters' \in [Entries -> Nat] /\ waiters'[e] = waiters[e] - 1
      /\ \A d \in Entries \ {e} : waiters'[d] = waiters[d]
  BY <1>1, <1>2, <1>3 DEF LockInv, TypeOK
<1>6. /\ entry'[t] = NoEntry /\ \A u \in Tasks \ {t} : entry'[u] = entry[u]
      /\ Users(e)' = Users(e) \ {t}
      /\ \A d \in Entries \ {e} : Users(d)' = Users(d)
  <2>1. entry'[t] = NoEntry /\ \A u \in Tasks \ {t} : entry'[u] = entry[u]
    BY <1>3 DEF LockInv, TypeOK
  <2>2. Users(e)' = Users(e) \ {t}
    BY <1>1, <2>1 DEF Users
  <2>3. ASSUME NEW d \in Entries \ {e} PROVE Users(d)' = Users(d)
    <3>1. t \notin Users(d)' /\ t \notin Users(d)
      BY <2>1, LockAssumption DEF Users
    <3>2. QED
      BY <2>1, <3>1 DEF Users
  <2>4. QED
    BY <2>1, <2>2, <2>3
<1>7. /\ Cardinality(Users(e)') = waiters'[e]
      /\ waiters[e] = 1 <=> Users(e)' = {}
  <2>1. Cardinality(Users(e) \ {t}) = Cardinality(Users(e)) - 1
        /\ IsFiniteSet(Users(e) \ {t})
    BY <1>1, <1>2, FS_RemoveElement
  <2>2. Cardinality(Users(e) \ {t}) = 0 <=> Users(e) \ {t} = {}
    BY <2>1, FS_EmptySet
  <2>3. QED
    BY <1>1, <1>2, <1>5, <1>6, <2>1, <2>2
<1>8. \A u \in Tasks \ {t} : entry[u] = e => u \in Users(e)'
  BY <1>6 DEF Users
<1>9. \A d \in Conversations \ {c} : registry[d] # e /\ registry'[d] = registry[d]
  BY <1>1, <1>3 DEF LockInv, EntriesInUse, TypeOK
<1>10. RegisteredWhileUsed'
  <2>1. ASSUME NEW u \in Tasks, entry'[u] # NoEntry
        PROVE  registry'[ConversationOf[u]] = entry'[u]
    <3>1. u # t /\ entry'[u] = entry[u] /\ entry[u] # NoEntry
      BY <1>6, <2>1
    <3>2. registry[ConversationOf[u]] = entry[u] /\ ConversationOf[u] \in Conversations
      BY <3>1, LockAssumption DEF LockInv, EntriesInUse, RegisteredWhileUsed
    <3>3. CASE entry[u] # e
      BY <1>1, <1>9, <3>1, <3>2, <3>3
    <3>4. CASE entry[u] = e
      <4>1. waiters[e] # 1
        BY <1>7, <1>8, <3>1, <3>4
      <4>2. QED
        BY <1>3, <3>1, <3>2, <4>1
    <3>5. QED
      BY <3>3, <3>4
  <2>2. ASSUME NEW d \in Conversations, NEW x \in Entries, registry'[d] = x
        PROVE  waiters'[x] = Cardinality(Users(x)') /\ Users(x)' # {}
    <3>1. CASE d = c
      <4>1. waiters[e] # 1 /\ x = e
        BY <1>1, <1>3, <2>2, <3>1, LockAssumption DEF LockInv, TypeOK
      <4>2. QED
        BY <1>7, <4>1
    <3>2. CASE d # c
      <4>1. registry[d] = x /\ x # e /\ x # NoEntry
        BY <1>9, <2>2, <3>2, LockAssumption
      <4>2. waiters[x] = Cardinality(Users(x)) /\ Users(x) # {}
        BY <4>1 DEF LockInv, EntriesInUse, RegisteredWhileUsed
      <4>3. QED
        BY <1>5, <1>6, <4>1, <4>2
    <3>3. QED
      BY <3>1, <3>2
  <2>3. \A d \in Conversations : registry'[d] # NoEntry =>
          \E x \in Entries :
            /\ registry'[d] = x /\ waiters'[x] = Cardinality(Users(x)')
            /\ Users(x)' # {}
    BY <1>4, <2>2
  <2>4. \A d \in Conversations : registry'[d] # NoEntry =>
          /\ waiters'[registry'[d]] =
               Cardinality({u \in Tasks : entry'[u] = registry'[d]})
          /\ {u \in Tasks : entry'[u] = registry'[d]} # {}
    BY <2>3 DEF Users
  <2>5. QED
    BY <2>1, <2>4 DEF RegisteredWhileUsed, Users
<1>11. \A u \in Tasks : entry'[u] = NoEntry <=> state'[u] = "idle"
  BY <1>6 DEF LockInv, EntriesInUse
<1>12. \A b, d \in Conversations :
         registry'[b] = registry'[d] /\ registry'[b] # NoEntry => b = d
  <2>1. registry'[c] = NoEntry \/ registry'[c] = registry[c]
    BY <1>1, <1>3 DEF LockInv, TypeOK
  <2>2. \A d \in Conversations : registry'[d] = NoEntry \/ registry'[d] = registry[d]
    BY <1>9, <2>1
  <2>3. QED
    BY <2>2 DEF LockInv, EntriesInUse
<1>13. QED
  BY <1>4, <1>5, <1>10, <1>11, <1>12 DEF EntriesInUse

(* Whoever joins a conversation keeps the registry sound.                  *)
LEMMA JoinKeepsEntries ==
  ASSUME LockInv, NEW t \in Tasks, Join(t)
  PROVE  /\ EntriesInUse'
         /\ registry' = registry
         /\ waiters' \in [Entries -> Nat]
         /\ entry' \in [Tasks -> Entries \cup {NoEntry}]
<1> DEFINE c == ConversationOf[t]
<1>1. PICK e \in Entries : e = registry[c]
  BY LockAssumption DEF Join, LockInv, TypeOK
<1>2. /\ entry' = [entry EXCEPT ![t] = e]
      /\ waiters' = [waiters EXCEPT ![e] = @ + 1]
      /\ registry' = registry /\ state[t] = "idle" /\ c \in Conversations
      /\ state' = [state EXCEPT ![t] = "inside"]
         \/ state' = [state EXCEPT ![t] = "pending"]
  BY <1>1, LockAssumption DEF Join
<1>3. /\ entry[t] = NoEntry /\ entry'[t] = e /\ e # NoEntry
      /\ \A u \in Tasks \ {t} : entry'[u] = entry[u]
      /\ waiters' \in [Entries -> Nat] /\ waiters'[e] = waiters[e] + 1
      /\ \A d \in Entries \ {e} : waiters'[d] = waiters[d]
      /\ entry' \in [Tasks -> Entries \cup {NoEntry}]
  BY <1>2, LockAssumption DEF LockInv, EntriesInUse, TypeOK
<1>4. Users(e)' = Users(e) \cup {t} /\ t \notin Users(e)
  BY <1>3 DEF Users
<1>5. ASSUME NEW d \in Entries \ {e} PROVE Users(d)' = Users(d)
  <2>1. t \notin Users(d)' /\ t \notin Users(d)
    BY <1>3, LockAssumption DEF Users
  <2>2. QED
    BY <1>3, <2>1 DEF Users
<1>6. waiters[e] = Cardinality(Users(e)) /\ waiters'[e] = Cardinality(Users(e)')
  <2>1. waiters[e] = Cardinality(Users(e))
    BY <1>1, <1>2, <1>3 DEF LockInv, EntriesInUse, RegisteredWhileUsed
  <2>2. IsFiniteSet(Users(e))
    BY UsersFinite
  <2>3. Cardinality(Users(e) \cup {t}) = Cardinality(Users(e)) + 1
    BY <1>4, <2>2, FS_AddElement
  <2>4. QED
    BY <1>3, <1>4, <2>1, <2>3
<1>7. RegisteredWhileUsed'
  <2>1. \A u \in Tasks : entry'[u] # NoEntry => registry'[ConversationOf[u]] = entry'[u]
    BY <1>1, <1>2, <1>3 DEF LockInv, EntriesInUse, RegisteredWhileUsed
  <2>2. ASSUME NEW d \in Conversations, NEW x \in Entries, registry[d] = x
        PROVE  waiters'[x] = Cardinality(Users(x)') /\ Users(x)' # {}
    <3>1. CASE x = e
      BY <1>4, <1>6, <3>1
    <3>2. CASE x # e
      <4>1. waiters[x] = Cardinality(Users(x)) /\ Users(x) # {}
        BY <2>2, LockAssumption DEF LockInv, EntriesInUse, RegisteredWhileUsed
      <4>2. QED
        BY <1>3, <1>5, <3>2, <4>1
    <3>3. QED
      BY <3>1, <3>2
  <2>3. \A d \in Conversations : registry'[d] # NoEntry =>
          \E x \in Entries :
            /\ registry'[d] = x /\ waiters'[x] = Cardinality(Users(x)')
            /\ Users(x)' # {}
    <3>1. \A d \in Conversations : registry[d] # NoEntry => registry[d] \in Entries
      BY DEF LockInv, TypeOK
    <3>2. QED
      BY <1>2, <2>2, <3>1
  <2>4. \A d \in Conversations : registry'[d] # NoEntry =>
          /\ waiters'[registry'[d]] =
               Cardinality({u \in Tasks : entry'[u] = registry'[d]})
          /\ {u \in Tasks : entry'[u] = registry'[d]} # {}
    BY <2>3 DEF Users
  <2>5. QED
    BY <2>1, <2>4 DEF RegisteredWhileUsed, Users
<1>8. \A u \in Tasks : entry'[u] = NoEntry <=> state'[u] = "idle"
  BY <1>2, <1>3 DEF LockInv, EntriesInUse, TypeOK
<1>9. QED
  BY <1>2, <1>3, <1>7, <1>8 DEF LockInv, EntriesInUse

(* The request that creates an entry keeps the registry sound.             *)
LEMMA CreateKeepsEntries ==
  ASSUME LockInv, NEW t \in Tasks, Create(t)
  PROVE  /\ EntriesInUse'
         /\ registry' \in [Conversations -> Entries \cup {NoEntry}]
         /\ waiters' \in [Entries -> Nat]
         /\ entry' \in [Tasks -> Entries \cup {NoEntry}]
<1> DEFINE c == ConversationOf[t]
<1>1. PICK e \in Entries :
        /\ Users(e) = {} /\ \A d \in Conversations : registry[d] # e
        /\ registry' = [registry EXCEPT ![c] = e]
        /\ waiters' = [waiters EXCEPT ![e] = 1]
        /\ entry' = [entry EXCEPT ![t] = e]
  BY DEF Create
<1>2. /\ state[t] = "idle" /\ c \in Conversations /\ registry[c] = NoEntry
      /\ state' = [state EXCEPT ![t] = "inside"] /\ e # NoEntry
  BY LockAssumption DEF Create
<1>3. /\ entry[t] = NoEntry /\ entry'[t] = e
      /\ \A u \in Tasks \ {t} : entry'[u] = entry[u] /\ entry[u] # e
      /\ waiters' \in [Entries -> Nat] /\ waiters'[e] = 1
      /\ \A d \in Entries \ {e} : waiters'[d] = waiters[d]
      /\ entry' \in [Tasks -> Entries \cup {NoEntry}]
      /\ registry' \in [Conversations -> Entries \cup {NoEntry}]
      /\ registry'[c] = e /\ \A d \in Conversations \ {c} : registry'[d] = registry[d]
  BY <1>1, <1>2 DEF LockInv, EntriesInUse, TypeOK, Users
<1>4. Users(e)' = {t} /\ Cardinality(Users(e)') = 1
  <2>1. Users(e)' = {t}
    BY <1>3 DEF Users
  <2>2. QED
    BY <2>1, FS_Singleton
<1>5. ASSUME NEW d \in Entries \ {e} PROVE Users(d)' = Users(d)
  <2>1. t \notin Users(d)' /\ t \notin Users(d)
    BY <1>3, LockAssumption DEF Users
  <2>2. QED
    BY <1>3, <2>1 DEF Users
<1>6. RegisteredWhileUsed'
  <2>1. ASSUME NEW u \in Tasks, entry'[u] # NoEntry
        PROVE  registry'[ConversationOf[u]] = entry'[u]
    <3>1. CASE u = t
      BY <1>3, <3>1
    <3>2. CASE u # t
      <4>1. entry'[u] = entry[u] /\ registry[ConversationOf[u]] = entry[u]
        BY <1>3, <2>1, <3>2 DEF LockInv, EntriesInUse, RegisteredWhileUsed
      <4>2. ConversationOf[u] # c /\ ConversationOf[u] \in Conversations
        BY <1>2, <2>1, <4>1, LockAssumption
      <4>3. QED
        BY <1>3, <4>1, <4>2
    <3>3. QED
      BY <3>1, <3>2
  <2>2. ASSUME NEW d \in Conversations, NEW x \in Entries, registry'[d] = x
        PROVE  waiters'[x] = Cardinality(Users(x)') /\ Users(x)' # {}
    <3>1. CASE d = c
      BY <1>3, <1>4, <2>2, <3>1
    <3>2. CASE d # c
      <4>1. registry[d] = x /\ x # e
        BY <1>1, <1>3, <2>2, <3>2
      <4>2. waiters[x] = Cardinality(Users(x)) /\ Users(x) # {}
        BY <4>1, LockAssumption DEF LockInv, EntriesInUse, RegisteredWhileUsed
      <4>3. QED
        BY <1>3, <1>5, <4>1, <4>2
    <3>3. QED
      BY <3>1, <3>2
  <2>3. \A d \in Conversations : registry'[d] # NoEntry =>
          \E x \in Entries :
            /\ registry'[d] = x /\ waiters'[x] = Cardinality(Users(x)')
            /\ Users(x)' # {}
    BY <1>3, <2>2
  <2>4. \A d \in Conversations : registry'[d] # NoEntry =>
          /\ waiters'[registry'[d]] =
               Cardinality({u \in Tasks : entry'[u] = registry'[d]})
          /\ {u \in Tasks : entry'[u] = registry'[d]} # {}
    BY <2>3 DEF Users
  <2>5. QED
    BY <2>1, <2>4 DEF RegisteredWhileUsed, Users
<1>7. \A u \in Tasks : entry'[u] = NoEntry <=> state'[u] = "idle"
  BY <1>2, <1>3 DEF LockInv, EntriesInUse, TypeOK
<1>8. \A b, d \in Conversations :
        registry'[b] = registry'[d] /\ registry'[b] # NoEntry => b = d
  BY <1>1, <1>3 DEF LockInv, EntriesInUse
<1>9. QED
  BY <1>3, <1>6, <1>7, <1>8 DEF EntriesInUse

-----------------------------------------------------------------------------
(* One lemma per action: the registry part is above, the rest is about who *)
(* holds the lock and the order of the queue.                              *)
LEMMA CreateStep ==
  ASSUME LockInv, NEW t \in Tasks, Create(t)
  PROVE  LockInv'
<1>1. PICK e \in Entries :
        /\ Users(e) = {}
        /\ locked' = [locked EXCEPT ![e] = TRUE]
        /\ entry' = [entry EXCEPT ![t] = e]
  BY DEF Create
<1>2. /\ state[t] = "idle" /\ state' = [state EXCEPT ![t] = "inside"]
      /\ ahead' = ahead
  BY DEF Create
<1>3. TypeOK'
  BY <1>1, <1>2, CreateKeepsEntries DEF LockInv, TypeOK
<1>4. /\ state'[t] = "inside" /\ entry'[t] = e /\ locked'[e] = TRUE
      /\ \A u \in Tasks \ {t} :
           entry'[u] = entry[u] /\ state'[u] = state[u] /\ entry[u] # e
      /\ \A d \in Entries \ {e} : locked'[d] = locked[d]
  BY <1>1, <1>2 DEF LockInv, TypeOK, Users
<1>5. \A u \in Tasks : state[u] # "idle" => entry[u] \in Entries
  BY UsedEntry
<1>6. HeldByOne'
  BY <1>4, <1>5 DEF LockInv, HeldByOne
<1>7. OrderedQueue'
  <2>1. \A u, v \in Tasks : v \in ahead'[u] =>
          /\ state'[u] \in Queued /\ state'[v] \in Queued
          /\ entry'[v] = entry'[u]
    BY <1>2, <1>4 DEF LockInv, OrderedQueue, Queued
  <2>2. \A u \in Tasks : Promised(u)' => ~locked'[entry'[u]] /\ ahead'[u] = {}
    BY <1>2, <1>4, <1>5 DEF LockInv, OrderedQueue, Promised
  <2>3. \A u, v \in Tasks :
          /\ state'[u] \in Queued /\ state'[v] \in Queued
          /\ entry'[u] = entry'[v] /\ u # v
          => u \in ahead'[v] \/ v \in ahead'[u]
    BY <1>2, <1>4 DEF LockInv, OrderedQueue, Queued
  <2>4. QED
    BY <2>1, <2>2, <2>3 DEF OrderedQueue, Promised
<1>8. QED
  BY <1>3, <1>6, <1>7, CreateKeepsEntries DEF LockInv

LEMMA JoinStep ==
  ASSUME LockInv, NEW t \in Tasks, Join(t)
  PROVE  LockInv'
<1>1. PICK e \in Entries : e = registry[ConversationOf[t]]
  BY LockAssumption DEF Join, LockInv, TypeOK
<1>2. /\ state[t] = "idle" /\ entry' = [entry EXCEPT ![t] = e]
      /\ \A u \in Tasks \ {t} : entry'[u] = entry[u]
      /\ entry'[t] = e /\ ahead[t] = {}
  BY <1>1 DEF Join, LockInv, TypeOK, OrderedQueue, Queued
<1>3. \A u \in Tasks : state[u] # "idle" => entry[u] \in Entries
  BY UsedEntry
<1>4. CASE MayTake(e) /\ state' = [state EXCEPT ![t] = "inside"]
  <2>1. /\ MayTake(e) /\ locked' = [locked EXCEPT ![e] = TRUE]
        /\ state' = [state EXCEPT ![t] = "inside"] /\ ahead' = ahead
    BY <1>1, <1>4 DEF Join, LockInv, TypeOK
  <2>2. /\ ~locked[e] /\ locked'[e] = TRUE /\ state'[t] = "inside"
        /\ \A d \in Entries \ {e} : locked'[d] = locked[d]
        /\ \A u \in Tasks \ {t} : state'[u] = state[u]
    BY <2>1 DEF LockInv, TypeOK, MayTake
  <2>3. TypeOK'
    BY <2>1, JoinKeepsEntries DEF LockInv, TypeOK
  <2>4. HeldByOne'
    BY <1>2, <1>3, <2>2 DEF LockInv, HeldByOne
  <2>5. \A u \in Tasks \ {t} : Promised(u) => entry[u] # e
    BY <2>1 DEF MayTake, Promised, Queue, Queued
  <2>6. OrderedQueue'
    <3>1. \A u, v \in Tasks : v \in ahead'[u] =>
            /\ state'[u] \in Queued /\ state'[v] \in Queued
            /\ entry'[v] = entry'[u]
      BY <1>2, <2>1, <2>2 DEF LockInv, OrderedQueue, Queued
    <3>2. \A u \in Tasks : Promised(u)' => ~locked'[entry'[u]] /\ ahead'[u] = {}
      BY <1>2, <1>3, <2>1, <2>2, <2>5 DEF LockInv, OrderedQueue, Promised
    <3>3. \A u, v \in Tasks :
            /\ state'[u] \in Queued /\ state'[v] \in Queued
            /\ entry'[u] = entry'[v] /\ u # v
            => u \in ahead'[v] \/ v \in ahead'[u]
      BY <1>2, <2>1, <2>2 DEF LockInv, OrderedQueue, Queued
    <3>4. QED
      BY <3>1, <3>2, <3>3 DEF OrderedQueue, Promised
  <2>7. QED
    BY <2>3, <2>4, <2>6, JoinKeepsEntries DEF LockInv
<1>5. CASE state' = [state EXCEPT ![t] = "pending"]
  <2>1. /\ locked' = locked /\ state' = [state EXCEPT ![t] = "pending"]
        /\ ahead' = [ahead EXCEPT ![t] = Queue(e)]
    BY <1>1, <1>5 DEF Join, LockInv, TypeOK
  <2>2. /\ state'[t] = "pending" /\ ahead'[t] = Queue(e)
        /\ \A u \in Tasks \ {t} : state'[u] = state[u] /\ ahead'[u] = ahead[u]
    BY <2>1 DEF LockInv, TypeOK
  <2>3. TypeOK'
    <3>1. Queue(e) \subseteq Tasks
      BY DEF Queue
    <3>2. ahead' \in [Tasks -> SUBSET Tasks]
      BY <2>1, <3>1 DEF LockInv, TypeOK
    <3>3. state' \in [Tasks -> Queued \cup {"idle", "inside"}]
      BY <2>1 DEF LockInv, TypeOK, Queued
    <3>4. QED
      BY <2>1, <3>2, <3>3, JoinKeepsEntries DEF LockInv, TypeOK
  <2>4. HeldByOne'
    BY <1>2, <2>1, <2>2 DEF LockInv, HeldByOne
  <2>5. OrderedQueue'
    <3>1. \A u, v \in Tasks : v \in ahead'[u] =>
            /\ state'[u] \in Queued /\ state'[v] \in Queued
            /\ entry'[v] = entry'[u]
      BY <1>2, <2>2 DEF LockInv, OrderedQueue, Queued, Queue
    <3>2. \A u \in Tasks : Promised(u)' => ~locked'[entry'[u]] /\ ahead'[u] = {}
      BY <1>2, <2>1, <2>2 DEF LockInv, OrderedQueue, Promised
    <3>3. \A u, v \in Tasks :
            /\ state'[u] \in Queued /\ state'[v] \in Queued
            /\ entry'[u] = entry'[v] /\ u # v
            => u \in ahead'[v] \/ v \in ahead'[u]
      BY <1>2, <2>2 DEF LockInv, OrderedQueue, Queued, Queue
    <3>4. QED
      BY <3>1, <3>2, <3>3 DEF OrderedQueue, Promised
  <2>6. QED
    BY <2>3, <2>4, <2>5, JoinKeepsEntries DEF LockInv
<1>6. QED
  BY <1>1, <1>4, <1>5 DEF Join

LEMMA ResumeStep ==
  ASSUME LockInv, NEW t \in Tasks, Resume(t)
  PROVE  LockInv'
<1>1. PICK e \in Entries : e = entry[t] /\ state[t] = "resolved"
  BY UsedEntry DEF Resume
<1>2. /\ locked' = [locked EXCEPT ![e] = TRUE]
      /\ state' = [state EXCEPT ![t] = "inside"]
      /\ ahead' = [u \in Tasks |-> ahead[u] \ {t}]
      /\ registry' = registry /\ waiters' = waiters /\ entry' = entry
  BY <1>1 DEF Resume
<1>3. /\ state'[t] = "inside" /\ locked'[e] = TRUE /\ ~locked[e] /\ ahead[t] = {}
      /\ \A u \in Tasks \ {t} : state'[u] = state[u]
      /\ \A d \in Entries \ {e} : locked'[d] = locked[d]
      /\ \A u \in Tasks : ahead'[u] = ahead[u] \ {t}
  BY <1>1, <1>2 DEF LockInv, TypeOK, OrderedQueue, Promised
<1>4. TypeOK'
  <2>1. ahead' \in [Tasks -> SUBSET Tasks]
    BY <1>2 DEF LockInv, TypeOK
  <2>2. QED
    BY <1>2, <2>1 DEF LockInv, TypeOK
<1>5. EntriesInUse'
  <2>1. \A u \in Tasks : state'[u] = "idle" <=> state[u] = "idle"
    BY <1>1, <1>3
  <2>2. RegisteredWhileUsed'
    BY <1>2 DEF LockInv, EntriesInUse, RegisteredWhileUsed, Users
  <2>3. QED
    BY <1>2, <2>1, <2>2 DEF LockInv, EntriesInUse
<1>6. \A u \in Tasks : state[u] # "idle" => entry[u] \in Entries
  BY UsedEntry
<1>7. HeldByOne'
  BY <1>1, <1>2, <1>3, <1>6 DEF LockInv, HeldByOne
<1>8. \A u \in Tasks \ {t} : Promised(u) => entry[u] # e
  BY <1>1, <1>3 DEF LockInv, OrderedQueue, Promised, Queued
<1>9. OrderedQueue'
  <2>1. \A u, v \in Tasks : v \in ahead'[u] =>
          /\ state'[u] \in Queued /\ state'[v] \in Queued
          /\ entry'[v] = entry'[u]
    BY <1>2, <1>3 DEF LockInv, OrderedQueue
  <2>2. \A u \in Tasks : Promised(u)' => ~locked'[entry'[u]] /\ ahead'[u] = {}
    BY <1>2, <1>3, <1>6, <1>8 DEF LockInv, OrderedQueue, Promised
  <2>3. \A u, v \in Tasks :
          /\ state'[u] \in Queued /\ state'[v] \in Queued
          /\ entry'[u] = entry'[v] /\ u # v
          => u \in ahead'[v] \/ v \in ahead'[u]
    BY <1>2, <1>3 DEF LockInv, OrderedQueue, Queued
  <2>4. QED
    BY <2>1, <2>2, <2>3 DEF OrderedQueue, Promised
<1>10. QED
  BY <1>4, <1>5, <1>7, <1>9 DEF LockInv

(* Leaving the lock or the queue, with or without a wakeup.                *)
LEMMA StateAfterLeaving ==
  ASSUME LockInv, NEW t \in Tasks, NEW wake \in BOOLEAN,
         state[t] # "idle", state' = StateAfter(t, wake)
  PROVE  /\ state' \in [Tasks -> Queued \cup {"idle", "inside"}]
         /\ state'[t] = "idle"
         /\ \A u \in Tasks \ {t} :
              \/ state'[u] = state[u]
              \/ /\ wake /\ state[u] = "pending" /\ state'[u] = "resolved"
                 /\ ahead[u] \subseteq {t} /\ entry[u] = entry[t]
  BY DEF StateAfter, LockInv, TypeOK, Queue, Queued

LEMMA LeaveStep ==
  ASSUME LockInv, NEW t \in Tasks, Leave(t)
  PROVE  LockInv'
<1>1. PICK e \in Entries : e = entry[t] /\ state[t] = "inside"
  BY UsedEntry DEF Leave
<1>2. /\ locked' = [locked EXCEPT ![e] = FALSE]
      /\ state' = StateAfter(t, TRUE) /\ ahead' = ahead
      /\ entry' = [entry EXCEPT ![t] = NoEntry] /\ Deregister(t)
  BY <1>1 DEF Leave, Deregister
<1>3. /\ state' \in [Tasks -> Queued \cup {"idle", "inside"}]
      /\ state'[t] = "idle"
      /\ \A u \in Tasks \ {t} :
           \/ state'[u] = state[u]
           \/ /\ state[u] = "pending" /\ state'[u] = "resolved"
              /\ ahead[u] \subseteq {t} /\ entry[u] = e
  BY <1>1, <1>2, StateAfterLeaving
<1>4. /\ locked[e] = TRUE /\ locked'[e] = FALSE
      /\ \A d \in Entries \ {e} : locked'[d] = locked[d]
      /\ \A u \in Tasks \ {t} : entry'[u] = entry[u]
      /\ ahead[t] = {} /\ \A u \in Tasks : t \notin ahead[u]
  BY <1>1, <1>2 DEF LockInv, TypeOK, HeldByOne, OrderedQueue, Queued
<1>5. \A u \in Tasks \ {t} : state'[u] = "idle" <=> state[u] = "idle"
  BY <1>3
<1>6. /\ EntriesInUse'
      /\ registry' \in [Conversations -> Entries \cup {NoEntry}]
      /\ waiters' \in [Entries -> Nat]
      /\ entry' \in [Tasks -> Entries \cup {NoEntry}]
  BY <1>1, <1>2, <1>3, <1>5, DeregisterKeepsEntries
<1>7. TypeOK'
  <2>1. locked' \in [Entries -> BOOLEAN]
    BY <1>2 DEF LockInv, TypeOK
  <2>2. QED
    BY <1>2, <1>3, <1>6, <2>1 DEF LockInv, TypeOK
<1>8. \A u \in Tasks : state[u] # "idle" => entry[u] \in Entries
  BY UsedEntry
<1>9. HeldByOne'
  BY <1>1, <1>3, <1>4, <1>8 DEF LockInv, HeldByOne
<1>10. OrderedQueue'
  <2>0. /\ state'[t] \notin Queued /\ state[t] \notin Queued
        /\ \A u \in Tasks \ {t} : state'[u] \in Queued <=> state[u] \in Queued
    BY <1>1, <1>3 DEF Queued
  <2>1. \A u, v \in Tasks : v \in ahead'[u] =>
          /\ state'[u] \in Queued /\ state'[v] \in Queued
          /\ entry'[v] = entry'[u]
    <3>1. SUFFICES ASSUME NEW u \in Tasks, NEW v \in Tasks, v \in ahead'[u]
                   PROVE  /\ state'[u] \in Queued /\ state'[v] \in Queued
                          /\ entry'[v] = entry'[u]
      OBVIOUS
    <3>2. state[u] \in Queued /\ state[v] \in Queued /\ entry[v] = entry[u]
      BY <1>2, <3>1 DEF LockInv, OrderedQueue
    <3>3. u # t /\ v # t
      BY <2>0, <3>2
    <3>4. QED
      BY <1>4, <2>0, <3>2, <3>3
  <2>2. \A u \in Tasks : Promised(u)' => ~locked'[entry'[u]] /\ ahead'[u] = {}
    <3>1. SUFFICES ASSUME NEW u \in Tasks, Promised(u)'
                   PROVE  ~locked'[entry'[u]] /\ ahead'[u] = {}
      OBVIOUS
    <3>2. u # t /\ entry'[u] = entry[u] /\ ahead'[u] = ahead[u]
      BY <1>2, <1>3, <1>4, <3>1 DEF Promised
    <3>3. CASE Promised(u)
      BY <1>4, <1>8, <3>2, <3>3 DEF LockInv, OrderedQueue, Promised
    <3>4. CASE ~Promised(u)
      BY <1>3, <1>4, <3>1, <3>2, <3>4 DEF Promised
    <3>5. QED
      BY <3>3, <3>4
  <2>3. \A u, v \in Tasks :
          /\ state'[u] \in Queued /\ state'[v] \in Queued
          /\ entry'[u] = entry'[v] /\ u # v
          => u \in ahead'[v] \/ v \in ahead'[u]
    <3>1. SUFFICES ASSUME NEW u \in Tasks, NEW v \in Tasks, u # v,
                          state'[u] \in Queued, state'[v] \in Queued,
                          entry'[u] = entry'[v]
                   PROVE  u \in ahead'[v] \/ v \in ahead'[u]
      OBVIOUS
    <3>2. u # t /\ v # t
      BY <2>0, <3>1
    <3>3. /\ state[u] \in Queued /\ state[v] \in Queued /\ entry[u] = entry[v]
          /\ ahead'[u] = ahead[u] /\ ahead'[v] = ahead[v]
      BY <1>2, <1>4, <2>0, <3>1, <3>2
    <3>4. QED
      BY <3>1, <3>3 DEF LockInv, OrderedQueue
  <2>4. QED
    BY <2>1, <2>2, <2>3 DEF OrderedQueue, Promised
<1>11. QED
  BY <1>6, <1>7, <1>9, <1>10 DEF LockInv

LEMMA CancelStep ==
  ASSUME LockInv, NEW t \in Tasks, Cancel(t)
  PROVE  LockInv'
<1>1. /\ registry' = registry /\ waiters' = waiters /\ locked' = locked
      /\ entry' = entry /\ ahead' = ahead
      /\ \A u \in Tasks \ {t} : state'[u] = state[u]
      /\ \/ state[t] = "pending" /\ state'[t] = "cancelled"
         \/ state[t] = "resolved" /\ state'[t] = "revoked"
      /\ state' \in [Tasks -> Queued \cup {"idle", "inside"}]
  BY DEF Cancel, LockInv, TypeOK, Queued
<1>2. TypeOK'
  BY <1>1 DEF LockInv, TypeOK
<1>3. EntriesInUse'
  <2>1. RegisteredWhileUsed'
    BY <1>1 DEF LockInv, EntriesInUse, RegisteredWhileUsed, Users
  <2>2. QED
    BY <1>1, <2>1 DEF LockInv, EntriesInUse
<1>4. HeldByOne'
  BY <1>1 DEF LockInv, HeldByOne
<1>5. OrderedQueue'
  BY <1>1 DEF LockInv, OrderedQueue, Promised, Queued
<1>6. QED
  BY <1>2, <1>3, <1>4, <1>5 DEF LockInv

LEMMA GiveUpStep ==
  ASSUME LockInv, NEW t \in Tasks, GiveUp(t)
  PROVE  LockInv'
<1>1. PICK e \in Entries : e = entry[t] /\ state[t] \in {"cancelled", "revoked"}
  BY UsedEntry DEF GiveUp
<1>2. /\ locked' = locked /\ state' = StateAfter(t, ~locked[e])
      /\ ahead' = [u \in Tasks |-> IF u = t THEN {} ELSE ahead[u] \ {t}]
      /\ entry' = [entry EXCEPT ![t] = NoEntry] /\ Deregister(t)
  BY <1>1 DEF GiveUp, Deregister
<1>3. /\ state' \in [Tasks -> Queued \cup {"idle", "inside"}]
      /\ state'[t] = "idle"
      /\ \A u \in Tasks \ {t} :
           \/ state'[u] = state[u]
           \/ /\ state[u] = "pending" /\ state'[u] = "resolved" /\ ~locked[e]
              /\ ahead[u] \subseteq {t} /\ entry[u] = e
  BY <1>1, <1>2, StateAfterLeaving
<1>4. /\ \A u \in Tasks \ {t} : entry'[u] = entry[u] /\ ahead'[u] = ahead[u] \ {t}
      /\ ahead'[t] = {} /\ ahead' \in [Tasks -> SUBSET Tasks]
  BY <1>2 DEF LockInv, TypeOK
<1>5. \A u \in Tasks \ {t} : state'[u] = "idle" <=> state[u] = "idle"
  BY <1>3
<1>6. /\ EntriesInUse'
      /\ registry' \in [Conversations -> Entries \cup {NoEntry}]
      /\ waiters' \in [Entries -> Nat]
      /\ entry' \in [Tasks -> Entries \cup {NoEntry}]
  BY <1>1, <1>2, <1>3, <1>5, DeregisterKeepsEntries
<1>7. TypeOK'
  BY <1>2, <1>3, <1>4, <1>6 DEF LockInv, TypeOK
<1>8. HeldByOne'
  BY <1>2, <1>3, <1>4 DEF LockInv, HeldByOne
<1>9. OrderedQueue'
  <2>1. \A u, v \in Tasks : v \in ahead'[u] =>
          /\ state'[u] \in Queued /\ state'[v] \in Queued
          /\ entry'[v] = entry'[u]
    BY <1>3, <1>4 DEF LockInv, OrderedQueue, Queued
  <2>2. \A u \in Tasks : Promised(u)' => ~locked'[entry'[u]] /\ ahead'[u] = {}
    BY <1>1, <1>2, <1>3, <1>4 DEF LockInv, OrderedQueue, Promised
  <2>3. \A u, v \in Tasks :
          /\ state'[u] \in Queued /\ state'[v] \in Queued
          /\ entry'[u] = entry'[v] /\ u # v
          => u \in ahead'[v] \/ v \in ahead'[u]
    BY <1>3, <1>4 DEF LockInv, OrderedQueue, Queued
  <2>4. QED
    BY <2>1, <2>2, <2>3 DEF OrderedQueue, Promised
<1>10. QED
  BY <1>6, <1>7, <1>8, <1>9 DEF LockInv

-----------------------------------------------------------------------------
(* The invariant is inductive.                                             *)
LEMMA LockInvHolds == Spec => []LockInv
<1>1. LockInv /\ [Next]_vars => LockInv'
  <2>1. SUFFICES ASSUME LockInv, [Next]_vars PROVE LockInv'
    OBVIOUS
  <2>2. CASE UNCHANGED vars
    <3>1. /\ registry' = registry /\ waiters' = waiters /\ locked' = locked
          /\ entry' = entry /\ state' = state /\ ahead' = ahead
      BY <2>2 DEF vars
    <3>2. RegisteredWhileUsed'
      BY <2>1, <3>1 DEF LockInv, EntriesInUse, RegisteredWhileUsed, Users
    <3>3. TypeOK' /\ EntriesInUse' /\ HeldByOne' /\ OrderedQueue'
      BY <2>1, <3>1, <3>2 DEF LockInv, TypeOK, EntriesInUse, HeldByOne,
         OrderedQueue, Promised
    <3>4. QED
      BY <3>2, <3>3 DEF LockInv
  <2>3. CASE Next
    BY <2>1, <2>3, CreateStep, JoinStep, ResumeStep, LeaveStep, CancelStep,
       GiveUpStep DEF Next
  <2>4. QED
    BY <2>1, <2>2, <2>3
<1>2. QED
  BY InitInv, <1>1, PTL DEF Spec

(* Every variable keeps its type: a count of users never becomes negative. *)
THEOREM LockTypeCorrect == Spec => []TypeOK
<1>1. LockInv => TypeOK
  BY DEF LockInv
<1>2. QED
  BY <1>1, LockInvHolds, PTL

(* _conversation_lock admits one request per conversation and process, for *)
(* any number of tasks, cancellations and entries.                         *)
THEOREM LockExcludes == Spec => []MutualExclusion
<1>1. LockInv => MutualExclusion
  <2>1. SUFFICES ASSUME LockInv, NEW t \in Tasks, NEW u \in Tasks,
                        state[t] = "inside", state[u] = "inside",
                        ConversationOf[t] = ConversationOf[u]
                 PROVE  t = u
    BY DEF MutualExclusion
  <2>2. entry[t] = entry[u]
    BY <2>1, UsedEntry
  <2>3. QED
    BY <2>1, <2>2 DEF LockInv, HeldByOne
<1>2. QED
  BY <1>1, LockInvHolds, PTL

(* An entry is registered as long as it is used, and no longer.            *)
THEOREM EntriesAreCounted == Spec => []RegisteredWhileUsed
<1>1. LockInv => RegisteredWhileUsed
  BY DEF LockInv, EntriesInUse
<1>2. QED
  BY <1>1, LockInvHolds, PTL

(* Whoever enters the section passes only tasks that were cancelled.       *)
THEOREM LockIsFair == Spec => NoOvertaking
<1> DEFINE Passes ==
      \A t \in Tasks :
        state[t] # "inside" /\ state'[t] = "inside" =>
          \A q \in Queue(entry'[t]) \ {t} :
            state[q] = "cancelled" \/ t \in ahead[q]
<1>1. LockInv /\ [Next]_vars => Passes
  <2>1. SUFFICES ASSUME LockInv, Next, NEW t \in Tasks,
                        state[t] # "inside", state'[t] = "inside",
                        NEW q \in Queue(entry'[t]), q # t
                 PROVE  state[q] = "cancelled" \/ t \in ahead[q]
    BY DEF vars
  <2>2. q \in Tasks /\ entry[q] = entry'[t] /\ state[q] \in Queued
    BY <2>1 DEF Queue
  <2>3. PICK s \in Tasks :
          Create(s) \/ Join(s) \/ Resume(s) \/ Leave(s) \/ Cancel(s) \/ GiveUp(s)
    BY <2>1 DEF Next
  <2>4. CASE Create(s)
    <3>1. s = t
      BY <2>1, <2>4 DEF Create, LockInv, TypeOK
    <3>2. PICK e \in Entries : Users(e) = {} /\ entry' = [entry EXCEPT ![t] = e]
      BY <2>4, <3>1 DEF Create
    <3>3. QED
      BY <2>1, <2>2, <3>2 DEF LockInv, TypeOK, Users
  <2>5. CASE Join(s)
    <3>1. s = t /\ MayTake(registry[ConversationOf[t]])
          /\ entry'[t] = registry[ConversationOf[t]]
      BY <2>1, <2>5 DEF Join, LockInv, TypeOK
    <3>2. QED
      BY <2>2, <3>1 DEF MayTake, Queue
  <2>6. CASE Resume(s)
    <3>1. s = t /\ state[t] = "resolved" /\ entry'[t] = entry[t]
      BY <2>1, <2>6 DEF Resume, LockInv, TypeOK
    <3>2. QED
      BY <2>1, <2>2, <3>1 DEF LockInv, OrderedQueue, Promised, Queued
  <2>7. CASE Leave(s)
    BY <2>1, <2>7, StateAfterLeaving DEF Leave
  <2>8. CASE Cancel(s)
    BY <2>1, <2>8 DEF Cancel, LockInv, TypeOK
  <2>9. CASE GiveUp(s)
    BY <2>1, <2>9 DEF GiveUp, StateAfter, LockInv, TypeOK
  <2>10. QED
    BY <2>3, <2>4, <2>5, <2>6, <2>7, <2>8, <2>9
<1>2. QED
  BY <1>1, LockInvHolds, PTL DEF Spec, NoOvertaking

-----------------------------------------------------------------------------
(* The registry implements one lock per conversation.                      *)

Earlier(t) == IF Waits(t) THEN {u \in ahead[t] : Waits(u)} ELSE {}

LEMMA PhaseIs ==
  ASSUME TypeOK, NEW t \in Tasks
  PROVE  /\ Phase(state[t]) = "away" <=> state[t] = "idle"
         /\ Phase(state[t]) = "inside" <=> state[t] = "inside"
         /\ Phase(state[t]) = "waiting" <=> Waits(t)
         /\ Phase(state[t]) = "withdrawn" <=> state[t] \in {"cancelled", "revoked"}
<1>1. state[t] \in {"idle", "inside", "pending", "resolved", "cancelled", "revoked"}
  BY DEF TypeOK, Queued
<1>2. QED
  BY <1>1 DEF Phase, Waits

(* A step of one task moves its phase.                                     *)
LEMMA PhaseMoves ==
  ASSUME NEW t \in Tasks, NEW from, NEW to,
         Phase(state[t]) = from, Phase(state'[t]) = to,
         \A u \in Tasks \ {t} : Phase(state'[u]) = Phase(state[u])
  PROVE  Lock!Move(t, from, to)
<1> DEFINE p == [u \in Tasks |-> Phase(state[u])]
           pp == [u \in Tasks |-> Phase(state'[u])]
<1>1. pp = [p EXCEPT ![t] = to] /\ p[t] = from
  OBVIOUS
<1>2. QED
  BY <1>1 DEF Lock!Move

LEMMA BeforeStays ==
  ASSUME \A u \in Tasks : Earlier(u)' = Earlier(u)
  PROVE  UNCHANGED [u \in Tasks |-> Earlier(u)]
OBVIOUS

(* Whoever of the same conversation is there shares the entry, and a free  *)
(* entry has nobody inside.                                                *)
LEMMA RivalsShareEntry ==
  ASSUME LockInv, NEW t \in Tasks, NEW u \in Lock!Rivals(t),
         state[u] # "idle"
  PROVE  /\ u \in Tasks /\ u # t
         /\ entry[u] = registry[ConversationOf[t]] /\ entry[u] \in Entries
BY UsedEntry DEF Lock!Rivals

LEMMA FreeForEntry ==
  ASSUME LockInv, NEW t \in Tasks, NEW e,
         \A u \in Lock!Rivals(t) : state[u] = "inside" => entry[u] = e,
         ~ locked[e]
  PROVE  Lock!Free(t)
<1>1. ASSUME NEW u \in Lock!Rivals(t) PROVE Phase(state[u]) # "inside"
  <2>1. u \in Tasks
    BY DEF Lock!Rivals
  <2>2. state[u] # "inside"
    BY <2>1 DEF LockInv, HeldByOne
  <2>3. QED
    BY <2>1, <2>2, PhaseIs DEF LockInv
<1>2. QED
  BY <1>1 DEF Lock!Free, Lock!Rivals

LEMMA WaitingForIs ==
  ASSUME TypeOK, NEW t \in Tasks
  PROVE  Lock!WaitingFor(t) = {u \in Lock!Rivals(t) : Waits(u)}
<1>1. \A u \in Lock!Rivals(t) : u \in Tasks
  BY DEF Lock!Rivals
<1>2. \A u \in Lock!Rivals(t) : Phase(state[u]) = "waiting" <=> Waits(u)
  BY <1>1, PhaseIs
<1>3. QED
  BY <1>1, <1>2 DEF Lock!WaitingFor

LEMMA Forgotten ==
  ASSUME NEW t \in Tasks,
         \A u \in Tasks : Earlier(u)' = IF u = t THEN {} ELSE Earlier(u) \ {t}
  PROVE  Lock!Forget(t)
BY DEF Lock!Forget, Earlier

(* The queue of a task is the same if it is and the same tasks wait.       *)
LEMMA EarlierStays ==
  ASSUME TypeOK, NEW u \in Tasks, ahead'[u] = ahead[u],
         \A v \in Tasks : Waits(v)' <=> Waits(v)
  PROVE  Earlier(u)' = Earlier(u)
BY DEF Earlier, TypeOK

LEMMA EarlierLoses ==
  ASSUME TypeOK, NEW u \in Tasks, NEW t \in Tasks,
         ahead'[u] = ahead[u] \/ ahead'[u] = ahead[u] \ {t},
         \A v \in Tasks \ {t} : Waits(v)' <=> Waits(v),
         ~Waits(t)'
  PROVE  Earlier(u)' = IF u = t THEN {} ELSE Earlier(u) \ {t}
BY DEF Earlier, TypeOK

LEMMA CreateEnters ==
  ASSUME LockInv, NEW t \in Tasks, Create(t)
  PROVE  Lock!Enter(t)
<1>1. /\ state[t] = "idle" /\ state' = [state EXCEPT ![t] = "inside"]
      /\ ahead' = ahead /\ registry[ConversationOf[t]] = NoEntry
  BY DEF Create
<1>2. TypeOK
  BY DEF LockInv
<1>3. state'[t] = "inside" /\ \A u \in Tasks \ {t} : state'[u] = state[u]
  BY <1>1, <1>2 DEF TypeOK
<1>4. \A u \in Lock!Rivals(t) : u \in Tasks /\ state[u] = "idle"
  BY <1>1, RivalsShareEntry, LockAssumption DEF Lock!Rivals
<1>5. Lock!Move(t, "away", "inside")
  BY <1>1, <1>3, PhaseMoves DEF Phase
<1>6. Lock!Free(t) /\ Lock!WaitingFor(t) = {}
  BY <1>4 DEF Lock!Free, Lock!WaitingFor, Phase
<1>7. \A v \in Tasks : Waits(v)' <=> Waits(v)
  BY <1>1, <1>3 DEF Waits
<1>8. \A u \in Tasks : Earlier(u)' = Earlier(u)
  BY <1>1, <1>2, <1>7, EarlierStays
<1>9. QED
  BY <1>5, <1>6, <1>8 DEF Lock!Enter, Earlier

LEMMA JoinEntersOrWaits ==
  ASSUME LockInv, NEW t \in Tasks, Join(t)
  PROVE  Lock!Enter(t) \/ Lock!Wait(t)
<1> DEFINE e == registry[ConversationOf[t]]
<1>1. /\ state[t] = "idle" /\ e # NoEntry
      /\ \/ /\ MayTake(e) /\ ahead' = ahead
            /\ state' = [state EXCEPT ![t] = "inside"]
         \/ /\ ~MayTake(e) /\ ahead' = [ahead EXCEPT ![t] = Queue(e)]
            /\ state' = [state EXCEPT ![t] = "pending"]
  BY DEF Join
<1>2. TypeOK
  BY DEF LockInv
<1>3. \A u \in Tasks \ {t} : state'[u] = state[u]
  BY <1>1, <1>2 DEF TypeOK
<1>4. \A u \in Lock!Rivals(t) :
        /\ u \in Tasks \ {t}
        /\ state[u] # "idle" => entry[u] = e
  BY RivalsShareEntry DEF Lock!Rivals
<1>5. \A u \in Tasks : u \in Queue(e) => u \in Lock!Rivals(t)
  <2>1. SUFFICES ASSUME NEW u \in Tasks, u \in Queue(e) PROVE u \in Lock!Rivals(t)
    OBVIOUS
  <2>2. entry[u] = e /\ state[u] # "idle" /\ u # t
    BY <1>1, <2>1 DEF Queue, Queued
  <2>3. registry[ConversationOf[u]] = e
    BY <2>2, UsedEntry
  <2>4. ConversationOf[u] = ConversationOf[t]
    BY <1>1, <2>3, LockAssumption DEF LockInv, EntriesInUse
  <2>5. QED
    BY <2>2, <2>4 DEF Lock!Rivals
<1>6. \A u \in Lock!Rivals(t) : Waits(u) => u \in Queue(e)
  BY <1>4 DEF Queue, Queued, Waits
<1>7. CASE MayTake(e)
  <2>1. state'[t] = "inside" /\ ahead' = ahead
    BY <1>1, <1>2, <1>7 DEF TypeOK
  <2>2. Lock!Move(t, "away", "inside")
    BY <1>1, <1>3, <2>1, PhaseMoves DEF Phase
  <2>3. Lock!Free(t)
    BY <1>4, <1>7, FreeForEntry DEF MayTake
  <2>4. Lock!WaitingFor(t) = {}
    <3>1. \A u \in Lock!Rivals(t) : ~Waits(u)
      BY <1>6, <1>7 DEF MayTake, Waits
    <3>2. QED
      BY <1>2, <3>1, WaitingForIs
  <2>5. \A v \in Tasks : Waits(v)' <=> Waits(v)
    BY <1>1, <1>3, <2>1 DEF Waits
  <2>6. \A u \in Tasks : Earlier(u)' = Earlier(u)
    BY <1>2, <2>1, <2>5, EarlierStays
  <2>7. QED
    BY <2>2, <2>3, <2>4, <2>6 DEF Lock!Enter, Earlier
<1>8. CASE ~MayTake(e)
  <2>1. /\ state'[t] = "pending" /\ ahead'[t] = Queue(e)
        /\ \A u \in Tasks \ {t} : ahead'[u] = ahead[u]
    BY <1>1, <1>2, <1>8 DEF TypeOK
  <2>2. Lock!Move(t, "away", "waiting")
    BY <1>1, <1>3, <2>1, PhaseMoves DEF Phase
  <2>3. Earlier(t)' = {u \in Lock!Rivals(t) : Waits(u)}
    <3>1. Waits(t)' /\ \A u \in Tasks \ {t} : Waits(u)' <=> Waits(u)
      BY <1>3, <2>1 DEF Waits
    <3>2. Queue(e) \subseteq Tasks
      BY DEF Queue
    <3>3. Earlier(t)' = {u \in Queue(e) : Waits(u)'}
      BY <2>1, <3>1 DEF Earlier
    <3>4. \A u : u \in Queue(e) /\ Waits(u)' <=> u \in Lock!Rivals(t) /\ Waits(u)
      BY <1>4, <1>5, <1>6, <3>1, <3>2
    <3>5. QED
      BY <3>3, <3>4
  <2>4. \A u \in Tasks \ {t} : Earlier(u)' = Earlier(u)
    <3>1. SUFFICES ASSUME NEW u \in Tasks \ {t} PROVE Earlier(u)' = Earlier(u)
      OBVIOUS
    <3>2. t \notin ahead[u] /\ ahead[u] \subseteq Tasks
      BY <1>1, <1>2 DEF LockInv, OrderedQueue, Queued, TypeOK
    <3>3. \A v \in Tasks \ {t} : Waits(v)' <=> Waits(v)
      BY <1>3 DEF Waits
    <3>4. QED
      BY <2>1, <3>2, <3>3 DEF Earlier
  <2>5. Earlier(t)' = Lock!WaitingFor(t)
    BY <1>2, <2>3, WaitingForIs
  <2>6. QED
    BY <2>2, <2>4, <2>5 DEF Lock!Wait, Earlier
<1>9. QED
  BY <1>7, <1>8

LEMMA ResumeTakes ==
  ASSUME LockInv, NEW t \in Tasks, Resume(t)
  PROVE  Lock!Take(t)
<1>1. /\ state[t] = "resolved" /\ state' = [state EXCEPT ![t] = "inside"]
      /\ ahead' = [u \in Tasks |-> ahead[u] \ {t}]
  BY DEF Resume
<1>2. TypeOK
  BY DEF LockInv
<1>3. state'[t] = "inside" /\ \A u \in Tasks \ {t} : state'[u] = state[u]
  BY <1>1, <1>2 DEF TypeOK
<1>4. ahead[t] = {} /\ ~locked[entry[t]]
  BY <1>1 DEF LockInv, OrderedQueue, Promised
<1>5. Lock!Move(t, "waiting", "inside")
  BY <1>1, <1>3, PhaseMoves DEF Phase
<1>6. Lock!Free(t)
  <2>1. entry[t] = registry[ConversationOf[t]]
    BY <1>1, UsedEntry
  <2>2. \A u \in Lock!Rivals(t) : state[u] = "inside" => entry[u] = entry[t]
    BY <2>1, RivalsShareEntry
  <2>3. QED
    BY <1>4, <2>2, FreeForEntry
<1>7. Earlier(t) = {}
  BY <1>4 DEF Earlier
<1>8. /\ \A v \in Tasks \ {t} : Waits(v)' <=> Waits(v)
      /\ ~Waits(t)'
  BY <1>3 DEF Waits
<1>9. Lock!Forget(t)
  BY <1>1, <1>2, <1>8, EarlierLoses, Forgotten
<1>10. QED
  BY <1>5, <1>6, <1>7, <1>9 DEF Lock!Take, Earlier

LEMMA LeaveLeaves ==
  ASSUME LockInv, NEW t \in Tasks, Leave(t)
  PROVE  Lock!Leave(t)
<1>1. state[t] = "inside" /\ state' = StateAfter(t, TRUE) /\ ahead' = ahead
  BY DEF Leave
<1>2. TypeOK
  BY DEF LockInv
<1>3. /\ state'[t] = "idle"
      /\ \A u \in Tasks \ {t} :
           \/ state'[u] = state[u]
           \/ state[u] = "pending" /\ state'[u] = "resolved"
  BY <1>1, StateAfterLeaving
<1>4. \A u \in Tasks \ {t} : Phase(state'[u]) = Phase(state[u])
  BY <1>3 DEF Phase
<1>5. Lock!Move(t, "inside", "away")
  BY <1>1, <1>3, <1>4, PhaseMoves DEF Phase
<1>6. \A v \in Tasks : Waits(v)' <=> Waits(v)
  BY <1>1, <1>3 DEF Waits
<1>7. \A u \in Tasks : Earlier(u)' = Earlier(u)
  BY <1>1, <1>2, <1>6, EarlierStays
<1>8. QED
  BY <1>5, <1>7 DEF Lock!Leave, Earlier

LEMMA CancelWithdraws ==
  ASSUME LockInv, NEW t \in Tasks, Cancel(t)
  PROVE  Lock!Withdraw(t)
<1>1. /\ TypeOK /\ ahead' = ahead
      /\ \A u \in Tasks \ {t} : state'[u] = state[u]
      /\ state[t] \in {"pending", "resolved"}
      /\ state'[t] \in {"cancelled", "revoked"}
  BY DEF Cancel, LockInv, TypeOK
<1>2. Lock!Move(t, "waiting", "withdrawn")
  BY <1>1, PhaseMoves DEF Phase
<1>3. /\ \A v \in Tasks \ {t} : Waits(v)' <=> Waits(v)
      /\ ~Waits(t)'
  BY <1>1 DEF Waits
<1>4. Lock!Forget(t)
  BY <1>1, <1>3, EarlierLoses, Forgotten
<1>5. QED
  BY <1>2, <1>4 DEF Lock!Withdraw

LEMMA GiveUpReturns ==
  ASSUME LockInv, NEW t \in Tasks, GiveUp(t)
  PROVE  Lock!Return(t)
<1>1. /\ state[t] \in {"cancelled", "revoked"}
      /\ state' = StateAfter(t, ~locked[entry[t]])
      /\ ahead' = [u \in Tasks |-> IF u = t THEN {} ELSE ahead[u] \ {t}]
  BY DEF GiveUp
<1>2. TypeOK
  BY DEF LockInv
<1>3. /\ state'[t] = "idle"
      /\ \A u \in Tasks \ {t} :
           \/ state'[u] = state[u]
           \/ state[u] = "pending" /\ state'[u] = "resolved"
  BY <1>1, StateAfterLeaving
<1>4. \A u \in Tasks \ {t} : Phase(state'[u]) = Phase(state[u])
  BY <1>3 DEF Phase
<1>5. Lock!Move(t, "withdrawn", "away")
  BY <1>1, <1>3, <1>4, PhaseMoves DEF Phase
<1>6. /\ \A v \in Tasks : Waits(v)' <=> Waits(v)
      /\ ~Waits(t)
  BY <1>1, <1>3 DEF Waits
<1>7. \A u \in Tasks : Earlier(u)' = Earlier(u)
  <2>1. Earlier(t)' = {} /\ Earlier(t) = {}
    BY <1>6 DEF Earlier
  <2>2. ASSUME NEW u \in Tasks \ {t} PROVE Earlier(u)' = Earlier(u)
    BY <1>1, <1>2, <1>6 DEF Earlier, TypeOK
  <2>3. QED
    BY <2>1, <2>2
<1>8. QED
  BY <1>5, <1>7 DEF Lock!Return, Earlier

(* The registry of counted entries implements one fair lock per            *)
(* conversation: every step of a task is a step of the abstract lock.      *)
THEOREM RegistryImplementsFairLock == Spec => ImplementsFairLock
<1>1. Init => Lock!Init
  BY DEF Init, Lock!Init, Phase, Waits
<1>2. LockInv /\ [Next]_vars => [Lock!Next]_(Lock!vars)
  <2>1. SUFFICES ASSUME LockInv, [Next]_vars PROVE [Lock!Next]_(Lock!vars)
    OBVIOUS
  <2>2. CASE UNCHANGED vars
    <3>1. state' = state /\ ahead' = ahead
      BY <2>2 DEF vars
    <3>2. QED
      BY <3>1 DEF Lock!vars, Waits
  <2>3. CASE Next
    <3>1. PICK t \in Tasks :
            Create(t) \/ Join(t) \/ Resume(t) \/ Leave(t) \/ Cancel(t) \/ GiveUp(t)
      BY <2>3 DEF Next
    <3>2. \/ Lock!Enter(t) \/ Lock!Wait(t) \/ Lock!Take(t)
          \/ Lock!Leave(t) \/ Lock!Withdraw(t) \/ Lock!Return(t)
      BY <2>1, <3>1, CreateEnters, JoinEntersOrWaits, ResumeTakes, LeaveLeaves,
         CancelWithdraws, GiveUpReturns
    <3>3. QED
      BY <3>2 DEF Lock!Next
  <2>4. QED
    BY <2>1, <2>2, <2>3
<1>3. QED
  BY <1>1, <1>2, LockInvHolds, PTL DEF Spec, ImplementsFairLock, Lock!Spec

-----------------------------------------------------------------------------
(* No wakeup is lost: the safety half of WaitersAreServed.                 *)

(* A locked entry has its task inside, who waits first for a free lock was *)
(* woken, and the queue is an order.                                       *)
QueueIsServed ==
  /\ \A e \in Entries : locked[e] => \E u \in Users(e) : state[u] = "inside"
  /\ \A t \in Tasks : state[t] = "pending" /\ ahead[t] = {} => locked[entry[t]]
  /\ \A t \in Tasks :
       /\ t \notin ahead[t]
       /\ \A u \in ahead[t] : ahead[u] \subseteq ahead[t]

(* While a task waits, another one of its conversation is in the section,  *)
(* or was woken or cancelled and is going to be resumed.                   *)
NobodyStalls ==
  \A t \in Tasks : state[t] = "pending" =>
    \E u \in Tasks \ {t} :
      /\ ConversationOf[u] = ConversationOf[t]
      /\ state[u] \in {"inside", "resolved", "cancelled", "revoked"}

LEMMA QueueHasHead ==
  ASSUME LockInv, QueueIsServed, NEW e, NEW t \in Queue(e)
  PROVE  \E h \in Queue(e) : ahead[h] = {}
<1> DEFINE T == {Cardinality(ahead[u]) : u \in Queue(e)}
<1>1. \A u \in Queue(e) :
        /\ u \in Tasks /\ ahead[u] \subseteq Queue(e)
        /\ IsFiniteSet(ahead[u]) /\ Cardinality(ahead[u]) \in Nat
  <2>1. SUFFICES ASSUME NEW u \in Queue(e)
                 PROVE  /\ u \in Tasks /\ ahead[u] \subseteq Queue(e)
                        /\ IsFiniteSet(ahead[u]) /\ Cardinality(ahead[u]) \in Nat
    OBVIOUS
  <2>2. u \in Tasks /\ entry[u] = e /\ ahead[u] \subseteq Tasks
    BY DEF Queue, LockInv, TypeOK
  <2>3. ahead[u] \subseteq Queue(e)
    BY <2>2 DEF LockInv, OrderedQueue, Queue
  <2>4. IsFiniteSet(ahead[u]) /\ Cardinality(ahead[u]) \in Nat
    BY <2>2, LockAssumption, FS_Subset, FS_CardinalityType
  <2>5. QED
    BY <2>2, <2>3, <2>4
<1>2. T \subseteq Nat /\ T # {}
  BY <1>1
<1> HIDE DEF T
<1>3. PICK n \in T : \A y \in T : ~ (<<y, n>> \in OpToRel(<, Nat))
  BY <1>2, NatLessThanWellFounded, WFMin
<1>4. PICK h \in Queue(e) : n = Cardinality(ahead[h])
  BY <1>3 DEF T
<1>5. ASSUME NEW v \in ahead[h] PROVE FALSE
  <2>1. v \in Queue(e) /\ h \in Tasks /\ v \in Tasks
    BY <1>1, <1>4
  <2>2. ahead[v] \subseteq ahead[h] /\ ahead[v] # ahead[h]
    BY <2>1 DEF QueueIsServed
  <2>3. Cardinality(ahead[v]) < Cardinality(ahead[h])
    BY <1>1, <1>4, <2>2, FS_Subset
  <2>4. Cardinality(ahead[v]) \in T
    BY <2>1 DEF T
  <2>5. QED
    BY <1>2, <1>3, <1>4, <2>3, <2>4 DEF OpToRel
<1>6. QED
  BY <1>5

LEMMA ServedCreate ==
  ASSUME LockInv, QueueIsServed, NEW t \in Tasks, Create(t)
  PROVE  QueueIsServed'
<1>1. PICK e \in Entries :
        /\ Users(e) = {} /\ locked' = [locked EXCEPT ![e] = TRUE]
        /\ entry' = [entry EXCEPT ![t] = e]
  BY DEF Create
<1>2. state[t] = "idle" /\ state' = [state EXCEPT ![t] = "inside"] /\ ahead' = ahead
  BY DEF Create
<1>3. /\ state'[t] = "inside" /\ entry'[t] = e /\ locked'[e] = TRUE
      /\ \A u \in Tasks \ {t} : state'[u] = state[u] /\ entry'[u] = entry[u]
      /\ \A d \in Entries \ {e} : locked'[d] = locked[d]
  BY <1>1, <1>2 DEF LockInv, TypeOK
<1>4. \A d \in Entries : locked'[d] => \E u \in Users(d)' : state'[u] = "inside"
  BY <1>2, <1>3 DEF QueueIsServed, Users
<1>5. \A u \in Tasks : state'[u] = "pending" /\ ahead'[u] = {} => locked'[entry'[u]]
  BY <1>2, <1>3, UsedEntry DEF QueueIsServed
<1>6. QED
  BY <1>2, <1>4, <1>5 DEF QueueIsServed

LEMMA ServedJoin ==
  ASSUME LockInv, QueueIsServed, NEW t \in Tasks, Join(t)
  PROVE  QueueIsServed'
<1> DEFINE e == registry[ConversationOf[t]]
<1>1. /\ e \in Entries /\ state[t] = "idle" /\ entry' = [entry EXCEPT ![t] = e]
      /\ \/ /\ MayTake(e) /\ ahead' = ahead
            /\ locked' = [locked EXCEPT ![e] = TRUE]
            /\ state' = [state EXCEPT ![t] = "inside"]
         \/ /\ ~MayTake(e) /\ ahead' = [ahead EXCEPT ![t] = Queue(e)]
            /\ locked' = locked
            /\ state' = [state EXCEPT ![t] = "pending"]
  BY LockAssumption DEF Join, LockInv, TypeOK
<1>2. /\ entry'[t] = e /\ entry[t] = NoEntry
      /\ \A u \in Tasks \ {t} : state'[u] = state[u] /\ entry'[u] = entry[u]
  BY <1>1 DEF LockInv, TypeOK, EntriesInUse
<1>3. t \notin Queue(e) /\ \A u \in Tasks : t \notin ahead[u]
  BY <1>1 DEF Queue, Queued, LockInv, OrderedQueue
<1>4. CASE MayTake(e)
  <2>1. /\ ahead' = ahead /\ state'[t] = "inside" /\ locked'[e] = TRUE
        /\ \A d \in Entries \ {e} : locked'[d] = locked[d]
    BY <1>1, <1>4 DEF LockInv, TypeOK
  <2>2. \A d \in Entries : locked'[d] => \E u \in Users(d)' : state'[u] = "inside"
    BY <1>1, <1>2, <2>1 DEF QueueIsServed, Users
  <2>3. \A u \in Tasks : state'[u] = "pending" /\ ahead'[u] = {} => locked'[entry'[u]]
    BY <1>2, <2>1, UsedEntry DEF QueueIsServed
  <2>4. QED
    BY <2>1, <2>2, <2>3 DEF QueueIsServed
<1>5. CASE ~MayTake(e)
  <2>1. /\ locked' = locked /\ state'[t] = "pending" /\ ahead'[t] = Queue(e)
        /\ \A u \in Tasks \ {t} : ahead'[u] = ahead[u]
    BY <1>1, <1>5 DEF LockInv, TypeOK
  <2>2. \A d \in Entries : locked'[d] => \E u \in Users(d)' : state'[u] = "inside"
    BY <1>1, <1>2, <2>1 DEF QueueIsServed, Users
  <2>3. Queue(e) = {} => locked[e]
    BY <1>5 DEF MayTake
  <2>4. \A u \in Tasks : state'[u] = "pending" /\ ahead'[u] = {} => locked'[entry'[u]]
    BY <1>2, <2>1, <2>3 DEF QueueIsServed
  <2>5. ASSUME NEW u \in Tasks
        PROVE  u \notin ahead'[u] /\ \A v \in ahead'[u] : ahead'[v] \subseteq ahead'[u]
    <3>1. CASE u = t
      <4>1. \A v \in Queue(e) : v \in Tasks \ {t} /\ ahead[v] \subseteq Queue(e)
        BY <1>3 DEF Queue, LockInv, OrderedQueue, TypeOK
      <4>2. QED
        BY <1>3, <2>1, <3>1, <4>1
    <3>2. CASE u # t
      <4>1. \A v \in ahead[u] : v \in Tasks \ {t}
        BY <1>3 DEF LockInv, TypeOK
      <4>2. QED
        BY <2>1, <3>2, <4>1 DEF QueueIsServed
    <3>3. QED
      BY <3>1, <3>2
  <2>6. QED
    BY <2>2, <2>4, <2>5 DEF QueueIsServed
<1>6. QED
  BY <1>4, <1>5

LEMMA ServedResume ==
  ASSUME LockInv, QueueIsServed, NEW t \in Tasks, Resume(t)
  PROVE  QueueIsServed'
<1>1. PICK e \in Entries : e = entry[t] /\ state[t] = "resolved"
  BY UsedEntry DEF Resume
<1>2. /\ locked' = [locked EXCEPT ![e] = TRUE] /\ entry' = entry
      /\ state' = [state EXCEPT ![t] = "inside"]
      /\ \A u \in Tasks : ahead'[u] = ahead[u] \ {t}
  BY <1>1 DEF Resume
<1>3. /\ state'[t] = "inside" /\ locked'[e] = TRUE
      /\ \A u \in Tasks \ {t} : state'[u] = state[u]
      /\ \A d \in Entries \ {e} : locked'[d] = locked[d]
  BY <1>2 DEF LockInv, TypeOK
<1>4. \A d \in Entries : locked'[d] => \E u \in Users(d)' : state'[u] = "inside"
  BY <1>1, <1>2, <1>3 DEF QueueIsServed, Users
<1>5. ASSUME NEW u \in Tasks, state'[u] = "pending", ahead'[u] = {}
      PROVE  locked'[entry'[u]]
  <2>1. state[u] = "pending" /\ u # t /\ entry[u] \in Entries
    BY <1>3, <1>5, UsedEntry
  <2>2. CASE t \in ahead[u]
    BY <1>1, <1>2, <1>3, <2>2 DEF LockInv, OrderedQueue
  <2>3. CASE t \notin ahead[u]
    BY <1>2, <1>3, <1>5, <2>1, <2>3 DEF QueueIsServed
  <2>4. QED
    BY <2>2, <2>3
<1>6. \A u \in Tasks :
        u \notin ahead'[u] /\ \A v \in ahead'[u] : ahead'[v] \subseteq ahead'[u]
  BY <1>2 DEF QueueIsServed, LockInv, TypeOK
<1>7. QED
  BY <1>4, <1>5, <1>6 DEF QueueIsServed

(* Whoever leaves a free lock behind wakes the next of the queue.          *)
LEMMA NextIsWoken ==
  ASSUME LockInv, NEW t \in Tasks, state' = StateAfter(t, TRUE),
         NEW u \in Tasks, state'[u] = "pending"
  PROVE  state[u] = "pending" /\ u # t
         /\ (entry[u] = entry[t] => ~(ahead[u] \subseteq {t}))
  BY DEF StateAfter, Queue, Queued

LEMMA ServedLeave ==
  ASSUME LockInv, QueueIsServed, NEW t \in Tasks, Leave(t)
  PROVE  QueueIsServed'
<1>1. PICK e \in Entries : e = entry[t] /\ state[t] = "inside"
  BY UsedEntry DEF Leave
<1>2. /\ locked' = [locked EXCEPT ![e] = FALSE]
      /\ state' = StateAfter(t, TRUE) /\ ahead' = ahead
      /\ entry' = [entry EXCEPT ![t] = NoEntry]
  BY <1>1 DEF Leave, Deregister
<1>3. /\ \A u \in Tasks \ {t} : entry'[u] = entry[u]
      /\ locked'[e] = FALSE /\ \A d \in Entries \ {e} : locked'[d] = locked[d]
      /\ \A u \in Tasks \ {t} : state[u] = "inside" => state'[u] = "inside"
  <2>1. \A u \in Tasks \ {t} : state[u] = "inside" => state'[u] = "inside"
    BY <1>1, <1>2, StateAfterLeaving
  <2>2. QED
    BY <1>2, <2>1 DEF LockInv, TypeOK
<1>4. \A d \in Entries : locked'[d] => \E u \in Users(d)' : state'[u] = "inside"
  BY <1>1, <1>3 DEF QueueIsServed, Users
<1>5. ASSUME NEW u \in Tasks, state'[u] = "pending", ahead'[u] = {}
      PROVE  locked'[entry'[u]]
  <2>1. /\ state[u] = "pending" /\ u # t /\ ahead[u] = {}
        /\ entry[u] \in Entries \ {e}
    BY <1>1, <1>2, <1>5, NextIsWoken, UsedEntry
  <2>2. QED
    BY <1>3, <2>1 DEF QueueIsServed
<1>6. QED
  BY <1>2, <1>4, <1>5 DEF QueueIsServed

LEMMA ServedCancel ==
  ASSUME LockInv, QueueIsServed, NEW t \in Tasks, Cancel(t)
  PROVE  QueueIsServed'
<1>1. /\ locked' = locked /\ entry' = entry /\ ahead' = ahead
      /\ \A u \in Tasks \ {t} : state'[u] = state[u]
      /\ state[t] \in {"pending", "resolved"} /\ state'[t] # "pending"
  BY DEF Cancel, LockInv, TypeOK
<1>2. \A d \in Entries : locked'[d] => \E u \in Users(d)' : state'[u] = "inside"
  BY <1>1 DEF QueueIsServed, Users
<1>3. QED
  BY <1>1, <1>2 DEF QueueIsServed

LEMMA ServedGiveUp ==
  ASSUME LockInv, QueueIsServed, NEW t \in Tasks, GiveUp(t)
  PROVE  QueueIsServed'
<1>1. PICK e \in Entries : e = entry[t] /\ state[t] \in {"cancelled", "revoked"}
  BY UsedEntry DEF GiveUp
<1>2. /\ locked' = locked /\ state' = StateAfter(t, ~locked[e])
      /\ ahead' = [u \in Tasks |-> IF u = t THEN {} ELSE ahead[u] \ {t}]
      /\ entry' = [entry EXCEPT ![t] = NoEntry]
  BY <1>1 DEF GiveUp, Deregister
<1>3. /\ \A u \in Tasks \ {t} : entry'[u] = entry[u] /\ ahead'[u] = ahead[u] \ {t}
      /\ ahead'[t] = {}
      /\ \A u \in Tasks \ {t} :
           /\ state[u] = "inside" => state'[u] = "inside"
           /\ state'[u] = "pending" => state[u] = "pending"
      /\ state'[t] = "idle"
  <2>1. /\ \A u \in Tasks \ {t} :
             \/ state'[u] = state[u]
             \/ state[u] = "pending" /\ state'[u] = "resolved"
        /\ state'[t] = "idle"
    BY <1>1, <1>2, StateAfterLeaving
  <2>2. QED
    BY <1>2, <2>1 DEF LockInv, TypeOK
<1>4. \A d \in Entries : locked'[d] => \E u \in Users(d)' : state'[u] = "inside"
  BY <1>1, <1>2, <1>3 DEF QueueIsServed, Users
<1>5. ASSUME NEW u \in Tasks, state'[u] = "pending", ahead'[u] = {}
      PROVE  locked'[entry'[u]]
  <2>1. u # t /\ state[u] = "pending" /\ ahead[u] \subseteq {t}
    BY <1>3, <1>5
  <2>2. CASE ahead[u] = {}
    BY <1>2, <1>3, <2>1, <2>2 DEF QueueIsServed
  <2>3. CASE ahead[u] # {}
    <3>1. entry[u] = e
      BY <1>1, <2>1, <2>3 DEF LockInv, OrderedQueue
    <3>2. ASSUME locked[e] = FALSE PROVE FALSE
      BY <1>1, <1>2, <1>5, <2>1, <3>1, <3>2, NextIsWoken
    <3>3. locked[e] = TRUE
      BY <3>2 DEF LockInv, TypeOK
    <3>4. entry'[u] = e
      BY <1>3, <2>1, <3>1
    <3>5. QED
      BY <1>2, <3>3, <3>4
  <2>4. QED
    BY <2>2, <2>3
<1>6. \A u \in Tasks :
        u \notin ahead'[u] /\ \A v \in ahead'[u] : ahead'[v] \subseteq ahead'[u]
  BY <1>3 DEF QueueIsServed, LockInv, TypeOK
<1>7. QED
  BY <1>4, <1>5, <1>6 DEF QueueIsServed

(* asyncio.Lock hands nothing over, and the first of the queue is resumed  *)
(* or cancelled later: no task is left waiting for a lock that nobody holds*)
(* and nobody was promised, for any number of tasks and cancellations.     *)
THEOREM NoWakeupIsLost == Spec => []NobodyStalls
<1>1. Init => QueueIsServed
  BY DEF Init, QueueIsServed
<1>2. LockInv /\ QueueIsServed /\ [Next]_vars => QueueIsServed'
  <2>1. SUFFICES ASSUME LockInv, QueueIsServed, [Next]_vars PROVE QueueIsServed'
    OBVIOUS
  <2>2. CASE UNCHANGED vars
    BY <2>1, <2>2 DEF vars, QueueIsServed, Users
  <2>3. CASE Next
    BY <2>1, <2>3, ServedCreate, ServedJoin, ServedResume, ServedLeave,
       ServedCancel, ServedGiveUp DEF Next
  <2>4. QED
    BY <2>1, <2>2, <2>3
<1>3. LockInv /\ QueueIsServed => NobodyStalls
  <2>1. SUFFICES ASSUME LockInv, QueueIsServed, NEW t \in Tasks, state[t] = "pending"
                 PROVE  \E u \in Tasks \ {t} :
                          /\ ConversationOf[u] = ConversationOf[t]
                          /\ state[u] \in {"inside", "resolved", "cancelled", "revoked"}
    BY DEF NobodyStalls
  <2>2. entry[t] \in Entries /\ t \in Queue(entry[t])
    BY <2>1, UsedEntry DEF Queue, Queued
  <2>3. PICK u \in Tasks :
          /\ entry[u] = entry[t] /\ u # t
          /\ state[u] \in {"inside", "resolved", "cancelled", "revoked"}
    <3>1. CASE locked[entry[t]]
      BY <2>1, <2>2, <3>1 DEF QueueIsServed, Users
    <3>2. CASE ~locked[entry[t]]
      <4>1. PICK h \in Queue(entry[t]) : ahead[h] = {}
        BY <2>1, <2>2, QueueHasHead
      <4>2. state[h] # "pending" /\ state[h] \in Queued /\ entry[h] = entry[t] /\ h \in Tasks
        BY <2>1, <3>2, <4>1 DEF QueueIsServed, Queue
      <4>3. QED
        BY <2>1, <4>2 DEF Queued
    <3>3. QED
      BY <3>1, <3>2
  <2>4. registry[ConversationOf[u]] = registry[ConversationOf[t]]
        /\ registry[ConversationOf[t]] # NoEntry
    BY <2>1, <2>2, <2>3, LockAssumption, UsedEntry
  <2>5. QED
    BY <2>1, <2>3, <2>4, LockAssumption DEF LockInv, EntriesInUse
<1>4. QED
  BY <1>1, <1>2, <1>3, LockInvHolds, PTL DEF Spec
=============================================================================
