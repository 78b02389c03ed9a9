---------------------------- MODULE A2AExecutor ----------------------------
(***************************************************************************)
(* A2AAgentExecutor of src/src/app/endpoints/a2a.py: a message of an A2A   *)
(* context is answered in the OGX conversation the context is mapped to,   *)
(* and its task is told through events (execute,                           *)
(* _process_task_streaming), with the stores of src/src/a2a_storage, the   *)
(* in-memory one of each worker and the database one all workers share.    *)
(*                                                                         *)
(* Everything between two awaits is one action.  Messages run              *)
(* concurrently: nothing orders those of one context.                      *)
(***************************************************************************)
EXTENDS Sequences

CONSTANTS
  Messages,    \* a conversation is named by the message it was created for
  Contexts,
  Workers,     \* Uvicorn worker processes
  WorkerOf,    \* the process that gets a message
  NewTasks,    \* the messages that do not continue a task
  None

ASSUME A2AAssumption ==
  /\ None \notin Messages \cup Contexts
  /\ WorkerOf \in [Messages -> Workers]

VARIABLES
  shared,     \* the context store is a database
  mapping,    \* the conversation of a context, as a worker sees it
  phase,      \* where a message is
  context,    \* its context
  found,      \* the conversation it found for its context
  conv,       \* the conversation it is answered in
  compacted,  \* OGX does not store its turn, the executor does
  stored,     \* the messages whose turn is in OGX
  events,     \* the events published for its task
  unwritten,  \* observer: the messages whose turn could not be written
  answered,   \* observer: the contexts with a completed message in the store
              \* of a worker
  knew,       \* observer: its context had one when the message looked it up
  raced       \* observer: contexts that two messages of a store found
              \* unmapped together

request == <<context, conv, compacted>>
observers == <<unwritten, answered, knew, raced>>
vars == <<shared, mapping, phase, request, found, stored, events,
          observers>>

Final == {"completed", "failed", "input required"}

\* In execution, before the stream ended.
Running == {"received", "preparing", "mapping", "starting", "streaming"}

Publish(m, e) == events' = [events EXCEPT ![m] = Append(@, e)]

\* Worker w and message m use one context store.
Shares(w, m) == shared \/ w = WorkerOf[m]

\* A message of context c that found no conversation and has set none yet.
Founding(c, m) ==
  context[m] = c /\ found[m] = None /\ phase[m] \in {"preparing", "mapping"}

\* What the workers see of a write for message m.
Seen(f, m, k) ==
  [w \in Workers |-> IF Shares(w, m) THEN [f[w] EXCEPT ![context[m]] = k]
                                    ELSE f[w]]

Init ==
  /\ shared \in BOOLEAN
  /\ mapping = [w \in Workers |-> [c \in Contexts |-> None]]
  /\ phase = [m \in Messages |-> "idle"]
  /\ context = [m \in Messages |-> None]
  /\ found = [m \in Messages |-> None]
  /\ conv = [m \in Messages |-> None]
  /\ compacted = [m \in Messages |-> FALSE]
  /\ stored = {}
  /\ events = [m \in Messages |-> <<>>]
  /\ unwritten = {}
  /\ answered = [w \in Workers |-> {}]
  /\ knew = [m \in Messages |-> FALSE]
  /\ raced = {}
-----------------------------------------------------------------------------
(***************************************************************************)
(* A message is received and its conversation resolved.                    *)
(***************************************************************************)

\* execute: a new task is announced, a message that continues one is not.
Receive(m, c) ==
  /\ phase[m] = "idle"
  /\ phase' = [phase EXCEPT ![m] = "received"]
  /\ context' = [context EXCEPT ![m] = c]
  /\ IF m \in NewTasks THEN Publish(m, "submitted") ELSE UNCHANGED events
  /\ UNCHANGED <<shared, mapping, found, conv, compacted, stored,
                 observers>>

\* Mutant: a message without input is left to the client.
WaitForInput(m) ==
  /\ phase[m] = "received"
  /\ phase' = [phase EXCEPT ![m] = "waiting"]
  /\ Publish(m, "input required")
  /\ UNCHANGED <<shared, mapping, request, found, stored, observers>>

NoInput(m) ==
  /\ phase[m] = "received"
  /\ phase' = [phase EXCEPT ![m] = "done"]
  /\ Publish(m, "input required")
  /\ UNCHANGED <<shared, mapping, request, found, stored, observers>>

\* context_store.get
Lookup(m) ==
  /\ phase[m] = "received"
  /\ phase' = [phase EXCEPT ![m] = "preparing"]
  /\ found' = [found EXCEPT ![m] = mapping[WorkerOf[m]][context[m]]]
  /\ knew' = [knew EXCEPT ![m] = context[m] \in answered[WorkerOf[m]]]
  /\ raced' = IF /\ found'[m] = None
                 /\ \E q \in Messages :
                      Shares(WorkerOf[m], q) /\ Founding(context[m], q)
              THEN raced \cup {context[m]} ELSE raced
  /\ UNCHANGED <<shared, mapping, request, stored, events, unwritten,
                 answered>>

\* Mutant: the conversation of the context is not passed on.
NeverContinues(m) == FALSE

Continues(m) == found[m] # None

\* prepare_responses_params: OGX creates a conversation if none was found.  A
\* conversation with a history may be compacted.
Prepare(m) ==
  /\ phase[m] = "preparing"
  /\ phase' = [phase EXCEPT ![m] = "mapping"]
  /\ conv' = [conv EXCEPT ![m] = IF Continues(m) THEN found[m] ELSE m]
  /\ \E b \in BOOLEAN :
       /\ b => Continues(m)
       /\ compacted' = [compacted EXCEPT ![m] = b]
  /\ UNCHANGED <<shared, mapping, context, found, stored, events,
                 observers>>

\* Mutant: the mapping is refreshed but never made.
KeepContext(m) ==
  /\ phase[m] = "mapping"
  /\ phase' = [phase EXCEPT ![m] = "starting"]
  /\ mapping' = IF found[m] = None THEN mapping
                ELSE Seen(mapping, m, conv[m])
  /\ UNCHANGED <<shared, request, found, stored, events, observers>>

\* context_store.set, also when the mapping was found.
SetContext(m) ==
  /\ phase[m] = "mapping"
  /\ phase' = [phase EXCEPT ![m] = "starting"]
  /\ mapping' = Seen(mapping, m, conv[m])
  /\ UNCHANGED <<shared, request, found, stored, events, observers>>
-----------------------------------------------------------------------------
(***************************************************************************)
(* The agent runs, and its events are forwarded.                           *)
(***************************************************************************)

\* The "working" events of the stream itself repeat this one.
Start(m) ==
  /\ phase[m] = "starting"
  /\ phase' = [phase EXCEPT ![m] = "streaming"]
  /\ Publish(m, "working")
  /\ UNCHANGED <<shared, mapping, request, found, stored, observers>>

\* The response is complete, and OGX has stored the turn unless compacted.
StreamEnds(m) ==
  /\ phase[m] = "streaming"
  /\ phase' = [phase EXCEPT ![m] = "storing"]
  /\ Publish(m, "artifact")
  /\ stored' = IF compacted[m] THEN stored ELSE stored \cup {m}
  /\ UNCHANGED <<shared, mapping, request, found, observers>>

\* Mutant: compacted turns are not persisted.
StoreNothing(m) ==
  /\ phase[m] = "storing"
  /\ phase' = [phase EXCEPT ![m] = "completing"]
  /\ UNCHANGED <<shared, mapping, request, found, stored, events,
                 observers>>

\* _persist_compacted_a2a_turn: a failing write is logged.
Store(m) ==
  /\ phase[m] = "storing"
  /\ phase' = [phase EXCEPT ![m] = "completing"]
  /\ \/ stored' = stored \cup {m} /\ UNCHANGED unwritten
     \/ compacted[m] /\ unwritten' = unwritten \cup {m} /\ UNCHANGED stored
  /\ UNCHANGED <<shared, mapping, request, found, events, answered,
                 knew, raced>>

Complete(m) ==
  /\ phase[m] = "completing"
  /\ phase' = [phase EXCEPT ![m] = "done"]
  /\ Publish(m, "completed")
  /\ answered' = [w \in Workers |->
                    IF Shares(w, m)
                    THEN answered[w] \cup {context[m]} ELSE answered[w]]
  /\ UNCHANGED <<shared, mapping, request, found, stored, unwritten,
                 knew, raced>>

\* Mutant: no return after an error of the agent was reported.
FailAndGoOn(m) ==
  /\ phase[m] \in Running
  /\ phase' = [phase EXCEPT ![m] = IF @ = "streaming" THEN "storing" ELSE "done"]
  /\ Publish(m, "failed")
  /\ UNCHANGED <<shared, mapping, request, found, stored, observers>>

\* Mutant: an exception ends the message and is only logged.
FailUnpublished(m) ==
  /\ phase[m] \in Running
  /\ phase' = [phase EXCEPT ![m] = "done"]
  /\ UNCHANGED <<shared, mapping, request, found, stored, events,
                 observers>>

\* The store, the preparation or the agent fails.
Fail(m) ==
  /\ phase[m] \in Running
  /\ phase' = [phase EXCEPT ![m] = "done"]
  /\ Publish(m, "failed")
  /\ UNCHANGED <<shared, mapping, request, found, stored, observers>>

\* The client goes away or waits for a chunk longer than 300 s, and the
\* application is cancelled with whatever it executes.
Cancelled(m) ==
  /\ phase[m] \in Running \cup {"storing", "completing"}
  /\ phase' = [phase EXCEPT ![m] = "gone"]
  /\ UNCHANGED <<shared, mapping, request, found, stored, events,
                 observers>>

\* A worker is restarted: what it executes ends, what it has in memory is lost.
Restart(w) ==
  /\ phase' = [m \in Messages |->
                 IF WorkerOf[m] = w /\ phase[m] \notin {"idle", "done"}
                 THEN "gone" ELSE phase[m]]
  /\ mapping' = IF shared THEN mapping
                ELSE [mapping EXCEPT ![w] = [c \in Contexts |-> None]]
  /\ answered' = IF shared THEN answered ELSE [answered EXCEPT ![w] = {}]
  /\ UNCHANGED <<shared, request, found, stored, events, unwritten,
                 knew, raced>>
-----------------------------------------------------------------------------
\* What goes on without the client.
Proceed(m) ==
  \/ NoInput(m) \/ Lookup(m) \/ Prepare(m) \/ SetContext(m)
  \/ Start(m) \/ StreamEnds(m) \/ Store(m) \/ Complete(m) \/ Fail(m)

Next ==
  \/ \E m \in Messages :
       \/ \E c \in Contexts : Receive(m, c)
       \/ Proceed(m)
       \/ Cancelled(m)
  \/ \E w \in Workers : Restart(w)

Spec == Init /\ [][Next]_vars

\* Every await returns or raises, and the stream of the agent ends.
FairSpec == Spec /\ \A m \in Messages : WF_vars(Proceed(m))
-----------------------------------------------------------------------------
TypeOK ==
  /\ shared \in BOOLEAN
  /\ mapping \in [Workers -> [Contexts -> Messages \cup {None}]]
  /\ phase \in [Messages -> Running \cup {"idle", "storing", "completing",
                                          "done", "gone"}]
  /\ context \in [Messages -> Contexts \cup {None}]
  /\ found \in [Messages -> Messages \cup {None}]
  /\ conv \in [Messages -> Messages \cup {None}]
  /\ compacted \in [Messages -> BOOLEAN]
  /\ stored \in SUBSET Messages
  /\ events \in [Messages -> Seq(Final \cup {"submitted", "working", "artifact"})]
  /\ unwritten \in SUBSET Messages
  /\ answered \in [Workers -> SUBSET Contexts]
  /\ knew \in [Messages -> BOOLEAN]
  /\ raced \in SUBSET Contexts

Completed(m) == \E i \in DOMAIN events[m] : events[m][i] = "completed"
Answered == {m \in Messages : \E i \in DOMAIN events[m] : events[m][i] = "artifact"}

\* A task gets one final event at most, and nothing after it, whichever of
\* the error paths its message takes; a message that ended in its worker has
\* told so.
FinalOnceAndLast ==
  \A m \in Messages :
    /\ \A i \in DOMAIN events[m] : events[m][i] \in Final => i = Len(events[m])
    /\ phase[m] = "done" =>
         events[m] # <<>> /\ events[m][Len(events[m])] \in Final

\* Once a client was told that a message is completed, its turn is in OGX, for
\* the next message of the context to see, unless its write failed.
CompletedIsStored ==
  \A m \in Messages : Completed(m) => m \in stored \cup unwritten

Told(m) ==
  IF events[m] = <<>> THEN "none"
  ELSE LET e == events[m][Len(events[m])] IN IF e = "artifact" THEN "working" ELSE e
Turn(m) == IF m \in stored THEN "kept" ELSE IF m \in unwritten THEN "lost" ELSE "open"

Task == INSTANCE TaskLifecycle WITH
  status <- [m \in Messages |-> Told(m)],
  answer <- Answered,
  turn <- [m \in Messages |-> Turn(m)]

\* The events, and the writes that go on behind them, implement the life of a
\* task of the A2A protocol: one way through its states, completed once it is
\* answered and its turn settled, whatever fails, is cancelled or restarted.
ImplementsTaskLifecycle == Task!Spec

\* "Subsequent messages with the same contextId continue the conversation":
\* a message that looks its context up after one was completed there finds a
\* conversation, and unless two messages had found the context unmapped at the
\* same time, it is one in which another message of the context was completed:
\* never that of a message that failed or was cancelled on its way.  In memory
\* this is said of the messages of a worker since its start.
ContextContinues ==
  \A m \in Messages : knew[m] =>
    /\ found[m] # None
    /\ context[m] \notin raced =>
         \E q \in Messages \ {m} :
           context[q] = context[m] /\ Completed(q) /\ conv[q] = found[m]

\* "Conversation history is preserved across turns": with a database, all
\* completed messages of a context are in the conversation it is mapped to,
\* unless two messages found it unmapped at the same time.
HistoryPreserved ==
  shared => \A m \in Messages :
    Completed(m) /\ context[m] \notin raced =>
      \A w \in Workers : mapping[w][context[m]] = conv[m]

\* The task of every message gets a final event, unless the message is
\* cancelled or its worker restarted.
EveryTaskEnds ==
  \A m \in Messages :
    phase[m] = "received" ~>
      \/ phase[m] = "gone"
      \/ \E i \in DOMAIN events[m] : events[m][i] \in Final
=============================================================================
