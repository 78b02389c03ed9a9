--------------------------- MODULE ConversationLock ---------------------------
(***************************************************************************)
(* The per-conversation locks of compaction (_conversation_lock in         *)
(* src/src/utils/conversation_compaction.py): a registry of asyncio locks, *)
(* one entry per conversation in use, counted by its users and removed     *)
(* with the last of them.                                                  *)
(*                                                                         *)
(* The registry mutex is never contended: its two critical sections have   *)
(* no await, so on the event loop a task enters and leaves them within one *)
(* step.  A step is what a task does up to its next suspension: entering   *)
(* runs up to the lock or to the end of the wait queue, leaving runs from  *)
(* the release to the removal of the entry.                                *)
(*                                                                         *)
(* asyncio.Lock (external) keeps a queue of futures.  A released lock is   *)
(* not handed over: the first future is resolved, and its task takes the   *)
(* lock when the event loop resumes it; it may be cancelled before that.   *)
(***************************************************************************)
EXTENDS Integers, FiniteSets

CONSTANTS
  Tasks,           \* tasks of one process, each serving requests in turn
  Conversations,
  ConversationOf,  \* the conversation a task's requests are about
  Entries,         \* identities of _LockEntry objects
  NoEntry

ASSUME LockAssumption ==
  /\ IsFiniteSet(Tasks)
  /\ ConversationOf \in [Tasks -> Conversations]
  /\ NoEntry \notin Entries

VARIABLES
  registry,  \* _conversation_locks
  waiters,   \* _LockEntry.waiters
  locked,    \* _LockEntry.lock.locked()
  entry,     \* local: the entry a task uses
  state,     \* where a task is, and what became of its future
  ahead      \* the futures queued before a task's own

vars == <<registry, waiters, locked, entry, state, ahead>>

(* A future in the queue is pending, resolved, cancelled, or resolved when *)
(* its task was cancelled before it could resume.                          *)
Queued == {"pending", "resolved", "cancelled", "revoked"}

Queue(e) == {t \in Tasks : entry[t] = e /\ state[t] \in Queued}
Users(e) == {t \in Tasks : entry[t] = e}

Init ==
  /\ registry = [c \in Conversations |-> NoEntry]
  /\ waiters = [e \in Entries |-> 0]
  /\ locked = [e \in Entries |-> FALSE]
  /\ entry = [t \in Tasks |-> NoEntry]
  /\ state = [t \in Tasks |-> "idle"]
  /\ ahead = [t \in Tasks |-> {}]

\* Mutant: the request that creates the entry does not count itself.
CreateUncounted(t) ==
  /\ state[t] = "idle" /\ registry[ConversationOf[t]] = NoEntry
  /\ \E e \in Entries :
       /\ Users(e) = {} /\ \A c \in Conversations : registry[c] # e
       /\ registry' = [registry EXCEPT ![ConversationOf[t]] = e]
       /\ waiters' = [waiters EXCEPT ![e] = 0]
       /\ locked' = [locked EXCEPT ![e] = TRUE]
       /\ entry' = [entry EXCEPT ![t] = e]
  /\ state' = [state EXCEPT ![t] = "inside"]
  /\ UNCHANGED ahead
(* The first request on a conversation creates its entry and gets the lock.*)
Create(t) ==
  /\ state[t] = "idle" /\ registry[ConversationOf[t]] = NoEntry
  /\ \E e \in Entries :
       /\ Users(e) = {} /\ \A c \in Conversations : registry[c] # e
       /\ registry' = [registry EXCEPT ![ConversationOf[t]] = e]
       /\ waiters' = [waiters EXCEPT ![e] = 1]
       /\ locked' = [locked EXCEPT ![e] = TRUE]
       /\ entry' = [entry EXCEPT ![t] = e]
  /\ state' = [state EXCEPT ![t] = "inside"]
  /\ UNCHANGED ahead

(* Lock.acquire takes a free lock at once, unless somebody waits for it.   *)
\* Mutant: a free lock is taken although a resolved future is queued.
MayBarge(e) == ~locked[e]
MayTake(e) == ~locked[e] /\ \A q \in Queue(e) : state[q] = "cancelled"

(* A later request joins the entry; it takes the lock or queues for it.    *)
Join(t) ==
  /\ state[t] = "idle" /\ registry[ConversationOf[t]] # NoEntry
  /\ LET e == registry[ConversationOf[t]]
     IN  /\ waiters' = [waiters EXCEPT ![e] = @ + 1]
         /\ entry' = [entry EXCEPT ![t] = e]
         /\ \/ /\ MayTake(e)
               /\ locked' = [locked EXCEPT ![e] = TRUE]
               /\ state' = [state EXCEPT ![t] = "inside"]
               /\ UNCHANGED ahead
            \/ /\ ~MayTake(e)
               /\ state' = [state EXCEPT ![t] = "pending"]
               /\ ahead' = [ahead EXCEPT ![t] = Queue(e)]
               /\ UNCHANGED locked
  /\ UNCHANGED registry

(* A task whose future was resolved is resumed and takes the lock.         *)
Resume(t) ==
  /\ state[t] = "resolved"
  /\ locked' = [locked EXCEPT ![entry[t]] = TRUE]
  /\ state' = [state EXCEPT ![t] = "inside"]
  /\ ahead' = [u \in Tasks |-> ahead[u] \ {t}]
  /\ UNCHANGED <<registry, waiters, entry>>

(* The state after t left the lock and the first of the queue, unless its  *)
(* future is done already, is resolved (_wake_up_first).                   *)
StateAfter(t, wake) ==
  [u \in Tasks |->
     IF u = t THEN "idle"
     ELSE IF /\ wake /\ u \in Queue(entry[t])
             /\ state[u] = "pending" /\ ahead[u] \subseteq {t}
          THEN "resolved"
     ELSE state[u]]

(* The finally clause: the last user removes the entry.                    *)
\* Mutants: the entry is removed by whoever leaves, or never.
RemoveAlways(t) ==
  /\ waiters' = [waiters EXCEPT ![entry[t]] = @ - 1]
  /\ entry' = [entry EXCEPT ![t] = NoEntry]
  /\ registry' = [registry EXCEPT ![ConversationOf[t]] = NoEntry]
RemoveNever(t) ==
  /\ waiters' = [waiters EXCEPT ![entry[t]] = @ - 1]
  /\ entry' = [entry EXCEPT ![t] = NoEntry]
  /\ UNCHANGED registry
Deregister(t) ==
  /\ waiters' = [waiters EXCEPT ![entry[t]] = @ - 1]
  /\ entry' = [entry EXCEPT ![t] = NoEntry]
  /\ registry' = IF waiters[entry[t]] = 1
                 THEN [registry EXCEPT ![ConversationOf[t]] = NoEntry]
                 ELSE registry

(* The section ends, normally or with an error.                            *)
Leave(t) ==
  /\ state[t] = "inside"
  /\ locked' = [locked EXCEPT ![entry[t]] = FALSE]
  /\ state' = StateAfter(t, TRUE)
  /\ ahead' = ahead
  /\ Deregister(t)

(* A task is cancelled while it waits: a pending future is cancelled, a    *)
(* resolved one stays resolved and the task finds out when it resumes.     *)
Cancel(t) ==
  /\ \/ state[t] = "pending" /\ state' = [state EXCEPT ![t] = "cancelled"]
     \/ state[t] = "resolved" /\ state' = [state EXCEPT ![t] = "revoked"]
  /\ UNCHANGED <<registry, waiters, locked, entry, ahead>>

(* The cancelled task resumes: its future leaves the queue, and if the     *)
(* lock is free the next one is woken in its place.                        *)
\* Mutant: the wakeup of a cancelled task is lost.
GiveUpSilently(t) ==
  /\ state[t] \in {"cancelled", "revoked"}
  /\ state' = StateAfter(t, FALSE)
  /\ ahead' = [u \in Tasks |-> IF u = t THEN {} ELSE ahead[u] \ {t}]
  /\ UNCHANGED locked
  /\ Deregister(t)
GiveUp(t) ==
  /\ state[t] \in {"cancelled", "revoked"}
  /\ state' = StateAfter(t, ~locked[entry[t]])
  /\ ahead' = [u \in Tasks |-> IF u = t THEN {} ELSE ahead[u] \ {t}]
  /\ UNCHANGED locked
  /\ Deregister(t)

Next ==
  \E t \in Tasks :
    Create(t) \/ Join(t) \/ Resume(t) \/ Leave(t) \/ Cancel(t) \/ GiveUp(t)

(* The event loop resumes every task that is ready, and the section ends:  *)
(* every call in it returns or raises.  Nobody has to be cancelled.        *)
Spec == Init /\ [][Next]_vars
FairSpec ==
  Spec /\ \A t \in Tasks : WF_vars(Resume(t) \/ Leave(t) \/ GiveUp(t))

-----------------------------------------------------------------------------
TypeOK ==
  /\ registry \in [Conversations -> Entries \cup {NoEntry}]
  /\ waiters \in [Entries -> Nat]
  /\ locked \in [Entries -> BOOLEAN]
  /\ entry \in [Tasks -> Entries \cup {NoEntry}]
  /\ state \in [Tasks -> Queued \cup {"idle", "inside"}]
  /\ ahead \in [Tasks -> SUBSET Tasks]

(* At most one request of a process is in the section of a conversation,   *)
(* whatever is cancelled and whenever entries come and go (R11).           *)
MutualExclusion ==
  \A t, u \in Tasks :
    /\ state[t] = "inside" /\ state[u] = "inside"
    /\ ConversationOf[t] = ConversationOf[u]
    => t = u

(* "The entry cannot be evicted out from under concurrent waiters" and     *)
(* "the registry does not grow": an entry is registered exactly as long as *)
(* somebody uses it, under the conversation of everybody who uses it.      *)
RegisteredWhileUsed ==
  /\ \A t \in Tasks : entry[t] # NoEntry => registry[ConversationOf[t]] = entry[t]
  /\ \A c \in Conversations :
       registry[c] # NoEntry =>
         /\ waiters[registry[c]] = Cardinality(Users(registry[c]))
         /\ Users(registry[c]) # {}

(* Requests get the lock in the order they asked for it: whoever enters    *)
(* passes nobody but tasks that were cancelled.                            *)
NoOvertaking ==
  [][\A t \in Tasks :
       state[t] # "inside" /\ state'[t] = "inside" =>
         \A q \in Queue(entry'[t]) \ {t} :
           state[q] = "cancelled" \/ t \in ahead[q]]_vars

(* A waiting request gets the lock or is cancelled.                        *)
WaitersAreServed ==
  \A t \in Tasks : state[t] = "pending" ~> state[t] \in {"inside", "cancelled", "idle"}

(* The abstract view: entries, counts and wakeups are invisible, and a     *)
(* future that was cancelled no longer waits although it is still queued.  *)
Phase(point) ==
  CASE point = "idle" -> "away"
    [] point = "inside" -> "inside"
    [] point \in {"pending", "resolved"} -> "waiting"
    [] OTHER -> "withdrawn"
Waits(t) == state[t] \in {"pending", "resolved"}

Lock == INSTANCE FairLock WITH
  phase <- [t \in Tasks |-> Phase(state[t])],
  before <- [t \in Tasks |-> IF Waits(t) THEN {u \in ahead[t] : Waits(u)} ELSE {}]
(* The registry of counted asyncio locks implements one lock per           *)
(* conversation that is granted in the order of arrival.                   *)
ImplementsFairLock == Lock!Spec

(* Inductive strengthening.  Who uses an entry finds it registered; who is *)
(* in the section holds the lock; and a free lock may have been promised   *)
(* to the first of the queue, and to nobody else.                          *)
Promised(t) == state[t] \in {"resolved", "revoked"}
EntriesInUse ==
  /\ RegisteredWhileUsed
  /\ \A t \in Tasks : entry[t] = NoEntry <=> state[t] = "idle"
  /\ \A c, d \in Conversations :
       registry[c] = registry[d] /\ registry[c] # NoEntry => c = d
HeldByOne ==
  /\ \A t \in Tasks : state[t] = "inside" => locked[entry[t]]
  /\ \A t, u \in Tasks :
       state[t] = "inside" /\ state[u] = "inside" /\ entry[t] = entry[u] => t = u
OrderedQueue ==
  /\ \A t, u \in Tasks : u \in ahead[t] =>
       state[t] \in Queued /\ state[u] \in Queued /\ entry[u] = entry[t]
  /\ \A t, u \in Tasks :
       /\ state[t] \in Queued /\ state[u] \in Queued
       /\ entry[t] = entry[u] /\ t # u
       => t \in ahead[u] \/ u \in ahead[t]
  /\ \A t \in Tasks : Promised(t) => ~locked[entry[t]] /\ ahead[t] = {}
LockInv == TypeOK /\ EntriesInUse /\ HeldByOne /\ OrderedQueue
=============================================================================
