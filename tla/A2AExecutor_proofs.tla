-------------------------- MODULE A2AExecutor_proofs --------------------------
(***************************************************************************)
(* Proofs about the A2A executor, for any messages, contexts and workers.  *)
(* The inductive invariant has four parts: what is published, which        *)
(* contexts are mapped, what the messages of a store know of a context     *)
(* that was never raced, and in which conversation it was answered.        *)
(***************************************************************************)
EXTENDS A2AExecutor, Naturals, TLAPS

Kinds == Final \cup {"submitted", "working", "artifact"}

IsOpen(m) == \A i \in DOMAIN events[m] : events[m][i] \notin Final

\* What is published: a message that is not done has no final event.
EventsInv ==
  /\ FinalOnceAndLast
  /\ CompletedIsStored
  /\ \A m \in Messages : phase[m] # "done" => IsOpen(m)
  /\ \A m \in Messages : phase[m] = "completing" => m \in stored \cup unwritten

\* Its mapping is in the store.
Past(m) == phase[m] \in {"starting", "streaming", "storing", "completing"}

\* Which contexts are mapped.
ContextInv ==
  /\ \A m \in Messages : phase[m] \in {"idle", "received"} => ~knew[m]
  /\ \A m \in Messages : phase[m] # "idle" => context[m] \in Contexts
  /\ \A m \in Messages : phase[m] = "mapping" => conv[m] \in Messages
  /\ \A m \in Messages : Past(m) =>
       \A w \in Workers : Shares(w, m) => mapping[w][context[m]] # None
  /\ \A w \in Workers : \A c \in answered[w] : mapping[w][c] # None
  /\ \A m \in Messages : knew[m] => found[m] # None

\* What message m knows of its context, never raced, is what its store has.
Knows(w, m) ==
  /\ phase[m] \in {"preparing", "mapping"} /\ found[m] # None =>
       mapping[w][context[m]] = found[m]
  /\ Past(m) \/ (shared /\ Completed(m)) => mapping[w][context[m]] = conv[m]
  /\ Founding(context[m], m) =>
       /\ mapping[w][context[m]] = None
       /\ \A q \in Messages : Shares(w, q) /\ Founding(context[m], q) => q = m

HistoryInv ==
  /\ \A m \in Messages : phase[m] \in {"idle", "received"} =>
       found[m] = None /\ ~Completed(m)
  /\ \A m \in Messages : phase[m] = "mapping" /\ found[m] # None =>
       conv[m] = found[m]
  /\ \A m \in Messages : Past(m) \/ Completed(m) => conv[m] \in Messages
  /\ shared => \A v, w \in Workers : mapping[v] = mapping[w]
  /\ \A m \in Messages, w \in Workers :
       Shares(w, m) /\ context[m] \in Contexts \ raced => Knows(w, m)

\* Message q of context c was completed in conversation k.
AnsweredIn(c, k, q) == context[q] = c /\ Completed(q) /\ conv[q] = k

NextAnswered(c, k, q) == context'[q] = c /\ Completed(q)' /\ conv'[q] = k

\* Where the contexts that were never raced were answered.
AnswersInv ==
  /\ \A w \in Workers : \A c \in answered[w] \ raced :
       \E q \in Messages : AnsweredIn(c, mapping[w][c], q)
  /\ \A m \in Messages : knew[m] /\ context[m] \notin raced =>
       \E q \in Messages \ {m} : AnsweredIn(context[m], found[m], q)

A2AInv == TypeOK /\ EventsInv /\ ContextInv /\ HistoryInv /\ AnswersInv
-----------------------------------------------------------------------------
LEMMA PublishTypes ==
  ASSUME TypeOK, NEW m \in Messages, NEW e \in Kinds, Publish(m, e)
  PROVE  events' \in [Messages -> Seq(Kinds)]
  BY DEF TypeOK, Publish, Kinds

LEMMA SeenTypes ==
  ASSUME TypeOK, NEW m \in Messages, NEW k \in Messages
  PROVE  Seen(mapping, m, k) \in [Workers -> [Contexts -> Messages \cup {None}]]
  BY DEF TypeOK, Seen

LEMMA ReceiveTypes ==
  ASSUME TypeOK, NEW m \in Messages, NEW c \in Contexts, Receive(m, c)
  PROVE  TypeOK'
<1>1. events' \in [Messages -> Seq(Kinds)]
  BY PublishTypes DEF Receive, TypeOK, Kinds
<1>2. QED
  BY <1>1 DEF Receive, TypeOK, observers, Running, Kinds

LEMMA ProceedTypes ==
  ASSUME TypeOK, ContextInv, NEW m \in Messages, Proceed(m)
  PROVE  TypeOK'
<1> USE DEF request, observers, Running
<1>1. CASE NoInput(m)
  <2>1. events' \in [Messages -> Seq(Kinds)]
    BY <1>1, PublishTypes DEF NoInput, Kinds, Final
  <2>2. QED
    BY <1>1, <2>1 DEF NoInput, TypeOK, Kinds
<1>2. CASE Lookup(m)
  <2>1. context[m] \in Contexts /\ WorkerOf[m] \in Workers
    BY <1>2, A2AAssumption DEF Lookup, ContextInv
  <2>2. mapping[WorkerOf[m]][context[m]] \in Messages \cup {None}
    BY <2>1 DEF TypeOK
  <2>3. found' \in [Messages -> Messages \cup {None}]
    BY <1>2, <2>2 DEF Lookup, TypeOK
  <2>4. raced' \in SUBSET Contexts
    BY <1>2, <2>1 DEF Lookup, TypeOK
  <2>5. (context[m] \in answered[WorkerOf[m]]) \in BOOLEAN
    OBVIOUS
  <2>6. knew' \in [Messages -> BOOLEAN]
    BY <1>2, <2>5 DEF Lookup, TypeOK
  <2>7. QED
    BY <1>2, <2>3, <2>4, <2>6 DEF Lookup, TypeOK
<1>3. CASE Prepare(m)
  BY <1>3 DEF Prepare, Continues, TypeOK
<1>4. CASE SetContext(m)
  <2>1. context[m] \in Contexts /\ WorkerOf[m] \in Workers /\ conv[m] \in Messages
    BY <1>4, A2AAssumption DEF SetContext, ContextInv
  <2>2. mapping' \in [Workers -> [Contexts -> Messages \cup {None}]]
    BY <1>4, <2>1, SeenTypes DEF SetContext
  <2>3. QED
    BY <1>4, <2>2 DEF SetContext, TypeOK
<1>5. CASE Start(m)
  <2>1. events' \in [Messages -> Seq(Kinds)]
    BY <1>5, PublishTypes DEF Start, Kinds
  <2>2. QED
    BY <1>5, <2>1 DEF Start, TypeOK, Kinds
<1>6. CASE StreamEnds(m)
  <2>1. events' \in [Messages -> Seq(Kinds)]
    BY <1>6, PublishTypes DEF StreamEnds, Kinds
  <2>2. QED
    BY <1>6, <2>1 DEF StreamEnds, TypeOK, Kinds
<1>7. CASE Store(m)
  BY <1>7 DEF Store, TypeOK
<1>8. CASE Complete(m)
  <2>1. events' \in [Messages -> Seq(Kinds)]
    BY <1>8, PublishTypes DEF Complete, Kinds, Final
  <2>2. context[m] \in Contexts
    BY <1>8 DEF Complete, ContextInv
  <2>3. answered' \in [Workers -> SUBSET Contexts]
    BY <1>8, <2>2 DEF Complete, TypeOK
  <2>4. QED
    BY <1>8, <2>1, <2>3 DEF Complete, TypeOK, Kinds
<1>9. CASE Fail(m)
  <2>1. events' \in [Messages -> Seq(Kinds)]
    BY <1>9, PublishTypes DEF Fail, Kinds, Final
  <2>2. QED
    BY <1>9, <2>1 DEF Fail, TypeOK, Kinds
<1>10. QED
  BY <1>1, <1>2, <1>3, <1>4, <1>5, <1>6, <1>7, <1>8, <1>9 DEF Proceed

LEMMA EndTypes ==
  /\ \A m \in Messages : TypeOK /\ Cancelled(m) => TypeOK'
  /\ \A w \in Workers : TypeOK /\ Restart(w) => TypeOK'
  /\ TypeOK /\ UNCHANGED vars => TypeOK'
<1>1. ASSUME TypeOK, NEW m \in Messages, Cancelled(m) PROVE TypeOK'
  BY <1>1 DEF Cancelled, TypeOK, request, observers, Running
<1>2. ASSUME TypeOK, NEW w \in Workers, Restart(w) PROVE TypeOK'
  BY <1>2 DEF Restart, TypeOK, request, observers
<1>3. ASSUME TypeOK, UNCHANGED vars PROVE TypeOK'
  BY <1>3 DEF vars, TypeOK, request, observers
<1>4. QED
  BY <1>1, <1>2, <1>3

LEMMA TypesStep == TypeOK /\ ContextInv /\ [Next]_vars => TypeOK'
  BY ReceiveTypes, ProceedTypes, EndTypes DEF Next
-----------------------------------------------------------------------------
LEMMA AfterPublish ==
  ASSUME TypeOK, NEW m \in Messages, NEW e \in Kinds, Publish(m, e), IsOpen(m)
  PROVE  /\ \A q \in Messages : q # m => events'[q] = events[q]
         /\ events'[m] # <<>> /\ events'[m][Len(events'[m])] = e
         /\ \A i \in DOMAIN events'[m] :
              events'[m][i] \in Final => i = Len(events'[m])
         /\ e \notin Final => IsOpen(m)'
         /\ Completed(m)' => e = "completed"
<1>1. events'[m] = Append(events[m], e) /\ events[m] \in Seq(Kinds)
  BY DEF TypeOK, Publish, Kinds
<1>2. /\ Len(events'[m]) = Len(events[m]) + 1
      /\ DOMAIN events'[m] = 1..Len(events[m]) + 1
      /\ \A i \in 1..Len(events[m]) :
           events'[m][i] = events[m][i] /\ events[m][i] \notin Final
      /\ events'[m][Len(events[m]) + 1] = e
  BY <1>1 DEF IsOpen
<1>3. events'[m] # <<>>
  BY <1>1, <1>2
<1>4. \A i \in DOMAIN events'[m] : events'[m][i] \in Final => i = Len(events'[m])
  BY <1>1, <1>2
<1>5. e \notin Final => IsOpen(m)'
  BY <1>1, <1>2 DEF IsOpen
<1>6. Completed(m)' => e = "completed"
  <2>1. SUFFICES ASSUME NEW i \in DOMAIN events'[m], events'[m][i] = "completed"
                 PROVE  e = "completed"
    BY DEF Completed
  <2>2. i = Len(events[m]) + 1
    BY <1>1, <1>4, <1>2, <2>1 DEF Final
  <2>3. QED
    BY <1>2, <2>1, <2>2
<1>7. QED
  BY <1>1, <1>2, <1>3, <1>4, <1>5, <1>6 DEF Publish, TypeOK

(* A step of one message that publishes a final event exactly when it is   *)
(* done, and "completed" only with its turn accounted for.                 *)
LEMMA MessageStep ==
  ASSUME TypeOK, EventsInv, NEW m \in Messages, phase[m] # "done", NEW p,
         phase' = [phase EXCEPT ![m] = p],
         stored \subseteq stored', unwritten \subseteq unwritten',
         \/ UNCHANGED events /\ p # "done"
         \/ \E e \in Kinds \ Final : Publish(m, e) /\ p # "done"
         \/ \E e \in Final : Publish(m, e) /\ p = "done"
              /\ (e = "completed" => m \in stored \cup unwritten),
         p = "completing" => m \in stored' \cup unwritten'
  PROVE  EventsInv'
<1> USE DEF EventsInv
<1>1. phase'[m] = p /\ \A q \in Messages : q # m => phase'[q] = phase[q]
  BY DEF TypeOK
<1>2. IsOpen(m) /\ ~Completed(m)
  BY DEF IsOpen, Completed, Final
<1>3. \A q \in Messages : q # m => events'[q] = events[q]
  BY <1>2, AfterPublish DEF Kinds
<1> DEFINE Published ==
  /\ \A i \in DOMAIN events'[m] : events'[m][i] \in Final => i = Len(events'[m])
  /\ p = "done" => events'[m] # <<>> /\ events'[m][Len(events'[m])] \in Final
  /\ p # "done" => IsOpen(m)'
  /\ Completed(m)' => m \in stored \cup unwritten
<1>4. Published
  <2>1. CASE UNCHANGED events /\ p # "done"
    BY <1>2, <2>1 DEF IsOpen, Completed, FinalOnceAndLast
  <2>2. ASSUME NEW e \in Kinds \ Final, Publish(m, e), p # "done"
        PROVE  Published
    BY <1>2, <2>2, AfterPublish DEF Final
  <2>3. ASSUME NEW e \in Final, Publish(m, e), p = "done",
               e = "completed" => m \in stored \cup unwritten
        PROVE  Published
    BY <1>2, <2>3, AfterPublish DEF Kinds
  <2>4. QED
    BY <2>1, <2>2, <2>3
<1>5. FinalOnceAndLast'
  BY <1>1, <1>3, <1>4 DEF FinalOnceAndLast
<1>6. CompletedIsStored'
  BY <1>3, <1>4 DEF CompletedIsStored, Completed
<1>7. \A q \in Messages : phase'[q] # "done" => IsOpen(q)'
  BY <1>1, <1>3, <1>4 DEF IsOpen
<1>8. \A q \in Messages : phase'[q] = "completing" => q \in stored' \cup unwritten'
  BY <1>1
<1>9. QED
  BY <1>5, <1>6, <1>7, <1>8

LEMMA EventsStep ==
  ASSUME TypeOK, EventsInv, [Next]_vars
  PROVE  EventsInv'
<1> USE DEF request, observers, Running
<1>1. ASSUME NEW m \in Messages, NEW c \in Contexts, Receive(m, c)
      PROVE  EventsInv'
  <2>1. phase[m] # "done" /\ phase' = [phase EXCEPT ![m] = "received"]
        /\ UNCHANGED <<stored, unwritten>>
        /\ (UNCHANGED events \/ Publish(m, "submitted"))
    BY <1>1 DEF Receive
  <2>2. QED
    BY <2>1, MessageStep DEF Kinds, Final
<1>2. ASSUME NEW m \in Messages, NoInput(m) PROVE EventsInv'
  <2>1. phase[m] # "done" /\ phase' = [phase EXCEPT ![m] = "done"]
        /\ UNCHANGED <<stored, unwritten>> /\ Publish(m, "input required")
    BY <1>2 DEF NoInput
  <2>2. QED
    BY <2>1, MessageStep DEF Kinds, Final
<1>3. ASSUME NEW m \in Messages, Lookup(m) PROVE EventsInv'
  <2>1. phase[m] # "done" /\ phase' = [phase EXCEPT ![m] = "preparing"]
        /\ UNCHANGED <<stored, unwritten, events>>
    BY <1>3 DEF Lookup
  <2>2. QED
    BY <2>1, MessageStep
<1>4. ASSUME NEW m \in Messages, Prepare(m) PROVE EventsInv'
  <2>1. phase[m] # "done" /\ phase' = [phase EXCEPT ![m] = "mapping"]
        /\ UNCHANGED <<stored, unwritten, events>>
    BY <1>4 DEF Prepare
  <2>2. QED
    BY <2>1, MessageStep
<1>5. ASSUME NEW m \in Messages, SetContext(m) PROVE EventsInv'
  <2>1. phase[m] # "done" /\ phase' = [phase EXCEPT ![m] = "starting"]
        /\ UNCHANGED <<stored, unwritten, events>>
    BY <1>5 DEF SetContext
  <2>2. QED
    BY <2>1, MessageStep
<1>6. ASSUME NEW m \in Messages, Start(m) PROVE EventsInv'
  <2>1. phase[m] # "done" /\ phase' = [phase EXCEPT ![m] = "streaming"]
        /\ UNCHANGED <<stored, unwritten>> /\ Publish(m, "working")
    BY <1>6 DEF Start
  <2>2. QED
    BY <2>1, MessageStep DEF Kinds, Final
<1>7. ASSUME NEW m \in Messages, StreamEnds(m) PROVE EventsInv'
  <2>1. phase[m] # "done" /\ phase' = [phase EXCEPT ![m] = "storing"]
        /\ UNCHANGED unwritten /\ stored \subseteq stored'
        /\ Publish(m, "artifact")
    BY <1>7 DEF StreamEnds
  <2>2. QED
    BY <2>1, MessageStep DEF Kinds, Final
<1>8. ASSUME NEW m \in Messages, Store(m) PROVE EventsInv'
  <2>1. phase[m] # "done" /\ phase' = [phase EXCEPT ![m] = "completing"]
        /\ unwritten \subseteq unwritten' /\ stored \subseteq stored'
        /\ m \in stored' \cup unwritten' /\ UNCHANGED events
    BY <1>8 DEF Store
  <2>2. QED
    BY <2>1, MessageStep
<1>9. ASSUME NEW m \in Messages, Complete(m) PROVE EventsInv'
  <2>1. phase[m] # "done" /\ phase' = [phase EXCEPT ![m] = "done"]
        /\ m \in stored \cup unwritten
        /\ UNCHANGED <<stored, unwritten>> /\ Publish(m, "completed")
    BY <1>9 DEF Complete, EventsInv
  <2>2. QED
    BY <2>1, MessageStep DEF Kinds, Final
<1>10. ASSUME NEW m \in Messages, Fail(m) PROVE EventsInv'
  <2>1. phase[m] # "done" /\ phase' = [phase EXCEPT ![m] = "done"]
        /\ UNCHANGED <<stored, unwritten>> /\ Publish(m, "failed")
    BY <1>10 DEF Fail
  <2>2. QED
    BY <2>1, MessageStep DEF Kinds, Final
<1>11. ASSUME NEW m \in Messages, Cancelled(m) PROVE EventsInv'
  <2>1. phase[m] # "done" /\ phase' = [phase EXCEPT ![m] = "gone"]
        /\ UNCHANGED <<stored, unwritten, events>>
    BY <1>11 DEF Cancelled
  <2>2. QED
    BY <2>1, MessageStep
<1>12. ASSUME NEW w \in Workers, Restart(w) PROVE EventsInv'
  <2>1. UNCHANGED <<stored, unwritten, events>>
    BY <1>12 DEF Restart
  <2>2. \A m \in Messages :
          \/ phase'[m] = phase[m]
          \/ phase[m] # "done" /\ phase'[m] = "gone"
    BY <1>12 DEF Restart
  <2>3. QED
    BY <2>1, <2>2 DEF EventsInv, FinalOnceAndLast, CompletedIsStored, Completed, IsOpen
<1>13. CASE UNCHANGED vars
  BY <1>13 DEF vars, EventsInv, FinalOnceAndLast, CompletedIsStored, Completed,
               IsOpen
<1>14. QED
  BY <1>1, <1>2, <1>3, <1>4, <1>5, <1>6, <1>7, <1>8, <1>9, <1>10, <1>11, <1>12,
     <1>13 DEF Next, Proceed
-----------------------------------------------------------------------------
(* A step that neither reads nor writes the store and moves messages       *)
(* forward keeps what the workers know.                                    *)
LEMMA QuietContext ==
  ASSUME ContextInv,
         UNCHANGED <<shared, mapping, answered, context, conv, found, knew>>,
         \A m \in Messages :
           /\ phase'[m] \in {"idle", "received"} => phase[m] = phase'[m]
           /\ phase'[m] # "idle" => phase[m] # "idle"
           /\ phase'[m] = "mapping" => phase[m] = "mapping"
           /\ Past(m)' => Past(m)
  PROVE  ContextInv'
  BY DEF ContextInv, Shares

LEMMA ReceiveContext ==
  ASSUME TypeOK, ContextInv, NEW m \in Messages, NEW c \in Contexts, Receive(m, c)
  PROVE  ContextInv'
<1>1. /\ UNCHANGED <<shared, mapping, answered, conv, found, knew>>
      /\ phase[m] = "idle" /\ phase'[m] = "received" /\ context'[m] = c
      /\ \A q \in Messages : q # m =>
           phase'[q] = phase[q] /\ context'[q] = context[q]
  BY DEF Receive, TypeOK, observers
<1>2. ~Past(m)' /\ \A q \in Messages : q # m => (Past(q)' <=> Past(q))
  BY <1>1 DEF Past
<1>3. QED
  BY <1>1, <1>2 DEF ContextInv, Shares

LEMMA LookupContext ==
  ASSUME TypeOK, ContextInv, NEW m \in Messages, Lookup(m)
  PROVE  ContextInv'
<1>1. /\ UNCHANGED <<shared, mapping, answered, conv, context>>
      /\ phase[m] = "received" /\ phase'[m] = "preparing"
      /\ found'[m] = mapping[WorkerOf[m]][context[m]]
      /\ knew'[m] <=> context[m] \in answered[WorkerOf[m]]
      /\ \A q \in Messages : q # m =>
           phase'[q] = phase[q] /\ found'[q] = found[q] /\ knew'[q] = knew[q]
  BY DEF Lookup, TypeOK, request
<1>2. \A q \in Messages : (Past(q)' <=> Past(q))
  BY <1>1 DEF Past
<1>3. knew'[m] => found'[m] # None
  BY <1>1, A2AAssumption DEF ContextInv
<1>4. QED
  BY <1>1, <1>2, <1>3 DEF ContextInv, Shares

LEMMA PrepareContext ==
  ASSUME TypeOK, ContextInv, NEW m \in Messages, Prepare(m)
  PROVE  ContextInv'
<1>1. /\ UNCHANGED <<shared, mapping, answered, context, found, knew>>
      /\ phase[m] = "preparing" /\ phase'[m] = "mapping"
      /\ conv'[m] \in Messages
      /\ \A q \in Messages : q # m =>
           phase'[q] = phase[q] /\ conv'[q] = conv[q]
  BY DEF Prepare, Continues, TypeOK, observers
<1>2. \A q \in Messages : (Past(q)' <=> Past(q))
  BY <1>1 DEF Past
<1>3. QED
  BY <1>1, <1>2 DEF ContextInv, Shares

\* What SetContext writes is seen by the workers of the store.
LEMMA MappingWritten ==
  ASSUME TypeOK, ContextInv, NEW m \in Messages, SetContext(m)
  PROVE  /\ context[m] \in Contexts /\ conv[m] \in Messages /\ conv[m] # None
         /\ \A w \in Workers, c \in Contexts :
              mapping'[w][c] = IF Shares(w, m) /\ c = context[m]
                               THEN conv[m] ELSE mapping[w][c]
<1>1. context[m] \in Contexts /\ conv[m] \in Messages /\ conv[m] # None
  BY A2AAssumption DEF SetContext, ContextInv
<1>2. QED
  BY <1>1 DEF SetContext, Seen, TypeOK

LEMMA SetContextContext ==
  ASSUME TypeOK, ContextInv, NEW m \in Messages, SetContext(m)
  PROVE  ContextInv'
<1>1. /\ UNCHANGED <<shared, answered, context, conv, found, knew>>
      /\ phase[m] = "mapping" /\ phase'[m] = "starting"
      /\ \A q \in Messages : q # m => phase'[q] = phase[q]
  BY DEF SetContext, TypeOK, observers, request
<1>2. \A q \in Messages : q # m => (Past(q)' <=> Past(q))
  BY <1>1 DEF Past
<1>3. context[m] \in Contexts
  BY MappingWritten
<1>4. \A w \in Workers, c \in Contexts : mapping[w][c] # None => mapping'[w][c] # None
  BY MappingWritten
<1>5. \A w \in Workers : Shares(w, m) => mapping'[w][context[m]] # None
  BY MappingWritten
<1>6. \A q \in Messages : Past(q)' =>
        \A w \in Workers : Shares(w, q)' => mapping'[w][context'[q]] # None
  <2>1. ASSUME NEW q \in Messages, q # m, Past(q)
        PROVE  context[q] \in Contexts
    BY <2>1 DEF ContextInv, Past
  <2>2. QED
    BY <1>1, <1>2, <1>4, <1>5, <2>1 DEF ContextInv, Shares
<1>7. \A w \in Workers : \A c \in answered[w] : mapping'[w][c] # None
  BY <1>4 DEF ContextInv, TypeOK
<1>8. QED
  BY <1>1, <1>3, <1>6, <1>7 DEF ContextInv

LEMMA CompleteContext ==
  ASSUME TypeOK, ContextInv, NEW m \in Messages, Complete(m)
  PROVE  ContextInv'
<1>1. /\ UNCHANGED <<shared, mapping, context, conv, found, knew>>
      /\ phase[m] = "completing" /\ phase'[m] = "done"
      /\ \A q \in Messages : q # m => phase'[q] = phase[q]
  BY DEF Complete, TypeOK, request
<1>2. \A q \in Messages : Past(q)' => Past(q)
  BY <1>1 DEF Past
<1>3. \A w \in Workers : \A c \in answered'[w] : mapping[w][c] # None
  BY <1>1 DEF Complete, ContextInv, Past, Shares
<1>4. QED
  BY <1>1, <1>2, <1>3 DEF ContextInv, Shares

\* A restart clears what its worker has in memory.
LEMMA StoreRestarted ==
  ASSUME TypeOK, NEW w \in Workers, Restart(w)
  PROVE  /\ UNCHANGED <<shared, context, conv, found, knew, raced, events>>
         /\ \A q \in Messages :
              phase'[q] = IF WorkerOf[q] = w /\ phase[q] \notin {"idle", "done"}
                          THEN "gone" ELSE phase[q]
         /\ \A v \in Workers :
              \/ mapping'[v] = mapping[v] /\ answered'[v] = answered[v]
              \/ v = w /\ ~shared /\ answered'[v] = {}
  BY DEF Restart, TypeOK, request

LEMMA RestartContext ==
  ASSUME TypeOK, ContextInv, NEW w \in Workers, Restart(w)
  PROVE  ContextInv'
<1>1. \A q \in Messages : Past(q)' => Past(q) /\ WorkerOf[q] # w
  BY StoreRestarted DEF Past
<1>2. \A v \in Workers : \A c \in answered'[v] : mapping'[v][c] # None
  BY StoreRestarted DEF ContextInv
<1>3. \A q \in Messages : Past(q)' =>
        \A v \in Workers : Shares(v, q)' => mapping'[v][context'[q]] # None
  BY <1>1, StoreRestarted DEF ContextInv, Shares
<1>4. /\ \A q \in Messages : phase'[q] \in {"idle", "received"} => ~knew'[q]
      /\ \A q \in Messages : phase'[q] # "idle" => context'[q] \in Contexts
      /\ \A q \in Messages : phase'[q] = "mapping" => conv'[q] \in Messages
      /\ \A q \in Messages : knew'[q] => found'[q] # None
  BY StoreRestarted DEF ContextInv
<1>5. QED
  BY <1>2, <1>3, <1>4 DEF ContextInv

LEMMA ContextStep ==
  ASSUME TypeOK, ContextInv, [Next]_vars
  PROVE  ContextInv'
<1> USE DEF request, observers, Running
<1>1. ASSUME NEW m \in Messages,
             \/ NoInput(m) \/ Start(m) \/ StreamEnds(m) \/ Store(m)
             \/ Fail(m) \/ Cancelled(m)
      PROVE  ContextInv'
  <2>1. /\ UNCHANGED <<shared, mapping, answered, context, conv, found, knew>>
        /\ phase[m] # "idle"
        /\ phase'[m] \in {"streaming", "storing", "completing", "done", "gone"}
        /\ phase'[m] \in {"streaming", "storing", "completing"} => Past(m)
        /\ \A q \in Messages : q # m => phase'[q] = phase[q]
    BY <1>1 DEF NoInput, Start, StreamEnds, Store, Fail, Cancelled, TypeOK, Past
  <2>2. \A q \in Messages : Past(q)' => Past(q)
    BY <2>1 DEF Past
  <2>3. QED
    BY <2>1, <2>2, QuietContext
<1>2. CASE UNCHANGED vars
  BY <1>2, QuietContext DEF vars, Past
<1>3. QED
  BY <1>1, <1>2, ReceiveContext, LookupContext, PrepareContext, SetContextContext,
     CompleteContext, RestartContext DEF Next, Proceed
-----------------------------------------------------------------------------
LEMMA NotCompletedYet ==
  ASSUME EventsInv, NEW m \in Messages, phase[m] # "done"
  PROVE  ~Completed(m)
  BY DEF EventsInv, IsOpen, Completed, Final

LEMMA OthersPublished ==
  ASSUME TypeOK, EventsInv, NEW m \in Messages, NEW e \in Kinds, Publish(m, e),
         phase[m] # "done"
  PROVE  /\ \A q \in Messages : q # m => (Completed(q)' <=> Completed(q))
         /\ Completed(m)' => e = "completed"
<1>1. IsOpen(m)
  BY DEF EventsInv
<1>2. QED
  BY <1>1, AfterPublish DEF Completed

(* A step that moves messages forward and, if it leaves a store in memory, *)
(* takes those of its worker out of their executions.                      *)
LEMMA QuietHistory ==
  ASSUME HistoryInv,
         UNCHANGED <<shared, context, conv, found, raced>>,
         \A w \in Workers :
           \/ mapping'[w] = mapping[w]
           \/ /\ ~shared
              /\ \A q \in Messages : WorkerOf[q] = w =>
                   phase'[q] \in {"idle", "done", "gone"},
         \A q \in Messages :
           /\ phase'[q] \in {"idle", "received"} => phase[q] = phase'[q] /\ ~Completed(q)'
           /\ phase'[q] = "mapping" => phase[q] = "mapping"
           /\ phase'[q] = "preparing" => phase[q] = "preparing"
           /\ Past(q)' => Past(q)
           /\ Completed(q)' => Past(q) \/ Completed(q)
  PROVE  HistoryInv'
<1>1. \A m, q \in Messages :
        Founding(context[m], q)' => Founding(context[m], q)
  BY DEF Founding
<1>2. \A m \in Messages : phase'[m] \in {"idle", "received"} =>
        found'[m] = None /\ ~Completed(m)'
  BY DEF HistoryInv
<1>3. \A m \in Messages : phase'[m] = "mapping" /\ found'[m] # None =>
        conv'[m] = found'[m]
  BY DEF HistoryInv
<1>4. \A m \in Messages : Past(m)' \/ Completed(m)' => conv'[m] \in Messages
  BY DEF HistoryInv
<1>5. shared' => \A v, w \in Workers : mapping'[v] = mapping'[w]
  BY DEF HistoryInv
<1>6. ASSUME NEW m \in Messages, NEW w \in Workers,
             Shares(w, m)', context'[m] \in Contexts \ raced'
      PROVE  Knows(w, m)'
  <2>1. Shares(w, m) /\ Knows(w, m)
    BY <1>6 DEF HistoryInv, Shares
  <2>2. CASE mapping'[w] = mapping[w]
    <3>1. \A q \in Messages : Shares(w, q)' <=> Shares(w, q)
      BY DEF Shares
    <3>2. Founding(context[m], m)' =>
            /\ mapping'[w][context'[m]] = None
            /\ \A q \in Messages : Shares(w, q)' /\ Founding(context[m], q)' => q = m
      BY <1>1, <2>1, <2>2, <3>1 DEF Knows
    <3>3. QED
      BY <2>1, <2>2, <3>2 DEF Knows
  <2>3. CASE mapping'[w] # mapping[w]
    <3>1. ~shared /\ phase'[m] \in {"idle", "done", "gone"}
      BY <1>6, <2>1, <2>3 DEF Shares
    <3>2. QED
      BY <3>1 DEF Knows, Past, Founding
  <2>4. QED
    BY <2>2, <2>3
<1>7. QED
  BY <1>2, <1>3, <1>4, <1>5, <1>6 DEF HistoryInv

LEMMA ReceiveHistory ==
  ASSUME TypeOK, EventsInv, HistoryInv, NEW m \in Messages, NEW c \in Contexts,
         Receive(m, c)
  PROVE  HistoryInv'
<1>1. /\ UNCHANGED <<shared, mapping, conv, found, raced>>
      /\ phase[m] = "idle" /\ phase'[m] = "received"
      /\ \A q \in Messages : q # m =>
           phase'[q] = phase[q] /\ context'[q] = context[q]
  BY DEF Receive, TypeOK, observers
<1>2. /\ \A q \in Messages : q # m => (Completed(q)' <=> Completed(q))
      /\ ~Completed(m)'
  <2>1. CASE UNCHANGED events
    BY <1>1, <2>1, NotCompletedYet DEF Completed
  <2>2. CASE Publish(m, "submitted")
    BY <1>1, <2>2, OthersPublished DEF Kinds
  <2>3. QED
    BY <2>1, <2>2 DEF Receive
<1>3. ~Past(m)' /\ ~Past(m) /\ \A q \in Messages : q # m => (Past(q)' <=> Past(q))
  BY <1>1 DEF Past
<1>4. /\ \A n, q \in Messages : n # m /\ Founding(context[n], q)' =>
           q # m /\ Founding(context[n], q)
      /\ ~Founding(context[m], m)'
  BY <1>1 DEF Founding
<1>5. ASSUME NEW q \in Messages, NEW w \in Workers,
             Shares(w, q)', context'[q] \in Contexts \ raced'
      PROVE  Knows(w, q)'
  <2>1. CASE q = m
    BY <1>1, <1>2, <1>3, <1>4, <2>1 DEF Knows, Founding
  <2>2. CASE q # m
    <3>1. context'[q] = context[q] /\ Knows(w, q)
      BY <1>1, <1>5, <2>2 DEF HistoryInv, Shares
    <3>2. Founding(context[q], q)' =>
            /\ mapping[w][context[q]] = None
            /\ \A n \in Messages : Shares(w, n)' /\ Founding(context[q], n)' => n = q
      BY <1>1, <1>4, <3>1 DEF Knows, Shares
    <3>3. QED
      BY <1>1, <1>2, <1>3, <2>2, <3>1, <3>2 DEF Knows, Founding
  <2>3. QED
    BY <2>1, <2>2
<1>6. \A q \in Messages : phase'[q] \in {"idle", "received"} =>
        found'[q] = None /\ ~Completed(q)'
  BY <1>1, <1>2 DEF HistoryInv
<1>7. QED
  BY <1>1, <1>2, <1>3, <1>5, <1>6 DEF HistoryInv

LEMMA LookupHistory ==
  ASSUME TypeOK, ContextInv, EventsInv, HistoryInv, NEW m \in Messages, Lookup(m)
  PROVE  HistoryInv'
<1>1. /\ UNCHANGED <<shared, mapping, context, conv, events>>
      /\ phase[m] = "received" /\ phase'[m] = "preparing"
      /\ found'[m] = mapping[WorkerOf[m]][context[m]]
      /\ \A q \in Messages : q # m => phase'[q] = phase[q] /\ found'[q] = found[q]
      /\ raced \subseteq raced'
      /\ found'[m] = None /\ (\E q \in Messages :
              Shares(WorkerOf[m], q) /\ Founding(context[m], q)) =>
           context[m] \in raced'
  BY DEF Lookup, TypeOK, request
<1>2. WorkerOf[m] \in Workers /\ context[m] \in Contexts
  BY <1>1, A2AAssumption DEF ContextInv
<1>3. ~Completed(m) /\ \A q \in Messages : (Completed(q)' <=> Completed(q))
  BY <1>1, NotCompletedYet DEF Completed
<1>4. ~Past(m) /\ \A q \in Messages : (Past(q)' <=> Past(q))
  BY <1>1 DEF Past
<1>5. \A n, q \in Messages : q # m =>
        (Founding(context[n], q)' <=> Founding(context[n], q))
  BY <1>1 DEF Founding
<1>6. \A n \in Messages :
        Founding(context[n], m)' <=> context[m] = context[n] /\ found'[m] = None
  BY <1>1 DEF Founding
<1>7. \A w, q : Shares(w, q)' <=> Shares(w, q)
  BY <1>1 DEF Shares
<1>8. ASSUME NEW q \in Messages, NEW w \in Workers,
             Shares(w, q)', context'[q] \in Contexts \ raced'
      PROVE  Knows(w, q)'
  <2>1. CASE q = m
    <3>1. mapping[w][context[m]] = found'[m]
      BY <1>1, <1>2, <1>7, <1>8, <2>1 DEF HistoryInv, Shares
    <3>2. ASSUME found'[m] = None, NEW n \in Messages, Shares(w, n),
                 Founding(context[m], n)'
          PROVE  n = m
      <4>1. Shares(WorkerOf[m], n)
        BY <1>7, <1>8, <2>1, <3>2 DEF Shares
      <4>2. QED
        BY <1>1, <1>5, <1>8, <2>1, <3>2, <4>1
    <3>3. QED
      BY <1>1, <1>3, <1>4, <1>6, <1>7, <2>1, <3>1, <3>2 DEF Knows
  <2>2. CASE q # m
    <3>1. Knows(w, q)
      BY <1>1, <1>7, <1>8 DEF HistoryInv
    <3>2. ASSUME Founding(context[q], q)', NEW n \in Messages, Shares(w, n),
                 Founding(context[q], n)'
          PROVE  n = q
      <4>1. Founding(context[q], q)
        BY <1>5, <2>2, <3>2
      <4>2. CASE n = m
        <5>1. context[m] = context[q] /\ found'[m] = None
          BY <1>6, <3>2, <4>2
        <5>2. Shares(WorkerOf[m], q)
          BY <1>7, <1>8, <3>2, <4>2 DEF Shares
        <5>3. context[m] \in raced'
          BY <1>1, <4>1, <5>1, <5>2
        <5>4. QED
          BY <1>1, <1>8, <5>1, <5>3
      <4>3. CASE n # m
        BY <1>5, <3>1, <3>2, <4>1, <4>3 DEF Knows
      <4>4. QED
        BY <4>2, <4>3
    <3>3. Founding(context[q], q)' => mapping[w][context[q]] = None
      BY <1>5, <2>2, <3>1 DEF Knows
    <3>4. QED
      BY <1>1, <1>3, <1>4, <1>7, <2>2, <3>1, <3>2, <3>3 DEF Knows
  <2>3. QED
    BY <2>1, <2>2
<1>9. \A q \in Messages : phase'[q] \in {"idle", "received"} =>
        found'[q] = None /\ ~Completed(q)'
  BY <1>1, <1>3 DEF HistoryInv
<1>10. QED
  BY <1>1, <1>3, <1>4, <1>8, <1>9 DEF HistoryInv

LEMMA PrepareHistory ==
  ASSUME TypeOK, EventsInv, HistoryInv, NEW m \in Messages, Prepare(m)
  PROVE  HistoryInv'
<1>1. /\ UNCHANGED <<shared, mapping, context, found, events, raced>>
      /\ phase[m] = "preparing" /\ phase'[m] = "mapping"
      /\ found[m] # None => conv'[m] = found[m]
      /\ \A q \in Messages : q # m => phase'[q] = phase[q] /\ conv'[q] = conv[q]
  BY DEF Prepare, Continues, TypeOK, observers
<1>2. ~Completed(m) /\ \A q \in Messages : (Completed(q)' <=> Completed(q))
  BY <1>1, NotCompletedYet DEF Completed
<1>3. ~Past(m) /\ \A q \in Messages : (Past(q)' <=> Past(q))
  BY <1>1 DEF Past
<1>4. \A n, q \in Messages :
        Founding(context[n], q)' <=> Founding(context[n], q)
  BY <1>1 DEF Founding
<1>5. \A w, q : Shares(w, q)' <=> Shares(w, q)
  BY <1>1 DEF Shares
<1>6. ASSUME NEW q \in Messages, NEW w \in Workers,
             Shares(w, q)', context'[q] \in Contexts \ raced'
      PROVE  Knows(w, q)'
  <2>1. Knows(w, q)
    BY <1>1, <1>5, <1>6 DEF HistoryInv
  <2>2. Founding(context[q], q)' =>
          /\ mapping[w][context[q]] = None
          /\ \A n \in Messages : Shares(w, n)' /\ Founding(context[q], n)' => n = q
    BY <1>4, <1>5, <2>1 DEF Knows
  <2>3. QED
    BY <1>1, <1>2, <1>3, <2>1, <2>2 DEF Knows, Founding
<1>7. /\ \A q \in Messages : phase'[q] \in {"idle", "received"} =>
           found'[q] = None /\ ~Completed(q)'
      /\ \A q \in Messages : phase'[q] = "mapping" /\ found'[q] # None =>
           conv'[q] = found'[q]
      /\ \A q \in Messages : Past(q)' \/ Completed(q)' => conv'[q] \in Messages
  BY <1>1, <1>2, <1>3 DEF HistoryInv
<1>8. QED
  BY <1>1, <1>6, <1>7 DEF HistoryInv

LEMMA SetContextHistory ==
  ASSUME TypeOK, ContextInv, EventsInv, HistoryInv, NEW m \in Messages, SetContext(m)
  PROVE  HistoryInv'
<1>1. /\ UNCHANGED <<shared, context, conv, found, events, raced>>
      /\ phase[m] = "mapping" /\ phase'[m] = "starting"
      /\ \A q \in Messages : q # m => phase'[q] = phase[q]
  BY DEF SetContext, TypeOK, observers, request
<1>2. /\ context[m] \in Contexts /\ conv[m] \in Messages /\ conv[m] # None
      /\ \A w \in Workers, c \in Contexts :
           mapping'[w][c] = IF Shares(w, m) /\ c = context[m]
                            THEN conv[m] ELSE mapping[w][c]
  BY MappingWritten
<1>3. ~Completed(m) /\ \A q \in Messages : (Completed(q)' <=> Completed(q))
  BY <1>1, NotCompletedYet DEF Completed
<1>4. Past(m)' /\ \A q \in Messages : q # m => (Past(q)' <=> Past(q))
  BY <1>1 DEF Past
<1>5. \A n, q \in Messages :
        Founding(context[n], q)' <=> Founding(context[n], q) /\ q # m
  BY <1>1 DEF Founding
<1>6. \A w, q : Shares(w, q)' <=> Shares(w, q)
  BY <1>1 DEF Shares
<1>7. ASSUME NEW q \in Messages, NEW w \in Workers,
             Shares(w, q), context[q] \in Contexts \ raced
      PROVE  Knows(w, q)'
  <2>1. Knows(w, q)
    BY <1>7 DEF HistoryInv
  <2>2. CASE ~(Shares(w, m) /\ context[q] = context[m])
    <3>1. mapping'[w][context[q]] = mapping[w][context[q]] /\ q # m
      BY <1>2, <1>7, <2>2
    <3>2. QED
      BY <1>1, <1>3, <1>4, <1>5, <1>6, <2>1, <3>1 DEF Knows
  <2>3. CASE Shares(w, m) /\ context[q] = context[m] /\ found[m] # None
    <3>1. mapping[w][context[m]] = found[m] /\ conv[m] = found[m]
      BY <1>1, <1>7, <2>3 DEF HistoryInv, Knows
    <3>2. mapping'[w][context[q]] = mapping[w][context[q]]
      BY <1>2, <2>3, <3>1
    <3>3. QED
      BY <1>1, <1>3, <1>4, <1>5, <1>6, <2>1, <2>3, <3>1, <3>2 DEF Knows
  <2>4. CASE Shares(w, m) /\ context[q] = context[m] /\ found[m] = None
    <3>1. Founding(context[m], m)
      BY <1>1, <2>4 DEF Founding
    <3>2. Knows(w, m)
      BY <1>7, <2>4 DEF HistoryInv
    <3>3. /\ mapping[w][context[q]] = None
          /\ \A n \in Messages : Shares(w, n) /\ Founding(context[q], n) => n = m
      BY <2>4, <3>1, <3>2 DEF Knows
    <3>4. mapping'[w][context[q]] = conv[m]
      BY <1>2, <2>4
    <3>5. phase[q] \in {"preparing", "mapping"} => found[q] = None
      BY <2>1, <3>3 DEF Knows
    <3>6. ~Past(q) /\ ~(shared /\ Completed(q))
      <4>1. Past(q) \/ (shared /\ Completed(q)) => conv[q] = None /\ conv[q] \in Messages
        BY <2>1, <3>3 DEF HistoryInv, Knows
      <4>2. QED
        BY <4>1, A2AAssumption
    <3>7. ~Founding(context[q], q)'
      BY <1>5, <1>7, <3>3
    <3>8. phase'[q] \in {"preparing", "mapping"} => phase[q] = phase'[q]
      BY <1>1
    <3>9. QED
      BY <1>1, <1>3, <1>4, <3>4, <3>5, <3>6, <3>7, <3>8 DEF Knows
  <2>5. QED
    BY <2>2, <2>3, <2>4
<1>8. shared' => \A v, w \in Workers : mapping'[v] = mapping'[w]
  BY <1>1 DEF SetContext, Seen, Shares, HistoryInv
<1>9. /\ \A q \in Messages : phase'[q] \in {"idle", "received"} =>
           found'[q] = None /\ ~Completed(q)'
      /\ \A q \in Messages : phase'[q] = "mapping" /\ found'[q] # None =>
           conv'[q] = found'[q]
      /\ \A q \in Messages : Past(q)' \/ Completed(q)' => conv'[q] \in Messages
  BY <1>1, <1>2, <1>3, <1>4 DEF HistoryInv
<1>10. \A q \in Messages, w \in Workers :
         Shares(w, q)' /\ context'[q] \in Contexts \ raced' => Knows(w, q)'
  BY <1>1, <1>6, <1>7
<1>11. QED
  BY <1>8, <1>9, <1>10 DEF HistoryInv

LEMMA HistoryStep ==
  ASSUME TypeOK, ContextInv, EventsInv, HistoryInv, [Next]_vars
  PROVE  HistoryInv'
<1> USE DEF request, observers, Running
<1>1. ASSUME NEW m \in Messages, NEW e \in {"input required", "working", "artifact", "failed"},
             Publish(m, e), phase[m] \notin {"idle", "done"},
             UNCHANGED <<shared, mapping, context, conv, found, raced>>,
             NEW p \in {"streaming", "storing", "done"},
             phase' = [phase EXCEPT ![m] = p], p # "done" => Past(m)
      PROVE  HistoryInv'
  <2>1. /\ phase'[m] = p
        /\ \A q \in Messages : q # m => phase'[q] = phase[q]
    BY <1>1 DEF TypeOK
  <2>2. /\ \A q \in Messages : q # m => (Completed(q)' <=> Completed(q))
        /\ ~Completed(m)'
    BY <1>1, OthersPublished DEF Kinds, Final
  <2>3. \A q \in Messages : Past(q)' => Past(q)
    BY <1>1, <2>1 DEF Past
  <2>4. \A q \in Messages : phase'[q] \in {"idle", "received"} => ~Completed(q)'
    BY <1>1, <2>1, <2>2 DEF HistoryInv
  <2>5. QED
    BY <1>1, <2>1, <2>2, <2>3, <2>4, QuietHistory
<1>2. ASSUME NEW m \in Messages, NoInput(m) \/ Start(m) \/ StreamEnds(m) \/ Fail(m)
      PROVE  HistoryInv'
  <2>1. CASE NoInput(m)
    BY <1>1, <2>1 DEF NoInput
  <2>2. CASE Start(m)
    BY <1>1, <2>2 DEF Start, Past
  <2>3. CASE StreamEnds(m)
    BY <1>1, <2>3 DEF StreamEnds, Past
  <2>4. CASE Fail(m)
    BY <1>1, <2>4 DEF Fail
  <2>5. QED
    BY <1>2, <2>1, <2>2, <2>3, <2>4
<1>3. ASSUME NEW m \in Messages, Complete(m) PROVE HistoryInv'
  <2>1. /\ UNCHANGED <<shared, mapping, context, conv, found, raced>>
        /\ phase[m] = "completing" /\ phase'[m] = "done"
        /\ \A q \in Messages : q # m => phase'[q] = phase[q]
    BY <1>3 DEF Complete, TypeOK
  <2>2. \A q \in Messages : q # m => (Completed(q)' <=> Completed(q))
    BY <1>3, <2>1, OthersPublished DEF Complete, Kinds, Final
  <2>3. Past(m) /\ \A q \in Messages : Past(q)' => Past(q)
    BY <2>1 DEF Past
  <2>4. \A q \in Messages : phase'[q] \in {"idle", "received"} => ~Completed(q)'
    BY <2>1, <2>2 DEF HistoryInv
  <2>5. QED
    BY <2>1, <2>2, <2>3, <2>4, QuietHistory
<1>4. ASSUME UNCHANGED <<shared, context, conv, found, raced, events>>,
             \A w \in Workers :
               \/ mapping'[w] = mapping[w]
               \/ /\ ~shared
                  /\ \A q \in Messages : WorkerOf[q] = w =>
                       phase'[q] \in {"idle", "done", "gone"},
             \A q \in Messages :
               /\ phase'[q] \in {"idle", "received", "preparing", "mapping"} =>
                    phase[q] = phase'[q]
               /\ Past(q)' => Past(q)
      PROVE  HistoryInv'
  <2>1. \A q \in Messages : (Completed(q)' <=> Completed(q))
    BY <1>4 DEF Completed
  <2>2. \A q \in Messages : phase'[q] \in {"idle", "received"} => ~Completed(q)'
    BY <1>4, <2>1 DEF HistoryInv
  <2>3. QED
    BY <1>4, <2>1, <2>2, QuietHistory
<1>5. ASSUME NEW m \in Messages, Store(m) \/ Cancelled(m) PROVE HistoryInv'
  BY <1>4, <1>5 DEF Store, Cancelled, TypeOK, Past
<1>6. ASSUME NEW w \in Workers, Restart(w) PROVE HistoryInv'
  BY <1>4, <1>6, StoreRestarted DEF Past
<1>7. CASE UNCHANGED vars
  BY <1>4, <1>7 DEF vars, Past
<1>8. QED
  BY <1>2, <1>3, <1>5, <1>6, <1>7, ReceiveHistory, LookupHistory, PrepareHistory,
     SetContextHistory DEF Next, Proceed
-----------------------------------------------------------------------------
(* What was completed stays completed in its conversation.                 *)
LEMMA AnswersStay ==
  ASSUME TypeOK, EventsInv, [Next]_vars, NEW q \in Messages, Completed(q)
  PROVE  Completed(q)' /\ context'[q] = context[q] /\ conv'[q] = conv[q]
<1>1. phase[q] = "done"
  BY NotCompletedYet
<1>2. ASSUME events'[q] = events[q] PROVE Completed(q)'
  BY <1>2 DEF Completed
<1>3. CASE \E m \in Messages : (\E c \in Contexts : Receive(m, c)) \/ Proceed(m)
  <2>1. PICK m \in Messages : (\E c \in Contexts : Receive(m, c)) \/ Proceed(m)
    BY <1>3
  <2>2. q # m
    BY <1>1, <2>1 DEF Receive, Proceed, NoInput, Lookup, Prepare, SetContext, Start,
       StreamEnds, Store, Complete, Fail, Running
  <2>3. events'[q] = events[q]
    BY <2>1, <2>2 DEF Receive, Proceed, NoInput, Lookup, Prepare, SetContext, Start,
       StreamEnds, Store, Complete, Fail, Publish, TypeOK, request, observers
  <2>4. context'[q] = context[q] /\ conv'[q] = conv[q]
    BY <2>1, <2>2 DEF Receive, Proceed, NoInput, Lookup, Prepare, SetContext, Start,
       StreamEnds, Store, Complete, Fail, TypeOK, request, observers
  <2>5. QED
    BY <1>2, <2>3, <2>4
<1>4. CASE \/ \E m \in Messages : Cancelled(m)
           \/ \E w \in Workers : Restart(w)
           \/ UNCHANGED vars
  BY <1>2, <1>4 DEF Cancelled, Restart, vars, request
<1>5. QED
  BY <1>3, <1>4 DEF Next

LEMMA AnswersKept ==
  ASSUME TypeOK, EventsInv, [Next]_vars
  PROVE  /\ \A c, k : \A q \in Messages : AnsweredIn(c, k, q) => NextAnswered(c, k, q)
         /\ raced \subseteq raced'
<1>1. \A c, k : \A q \in Messages : AnsweredIn(c, k, q) => NextAnswered(c, k, q)
  BY AnswersStay DEF AnsweredIn, NextAnswered
<1>2. raced \subseteq raced'
  BY DEF Next, Receive, Proceed, NoInput, Lookup, Prepare, SetContext, Start,
     StreamEnds, Store, Complete, Fail, Cancelled, Restart, vars, observers
<1>3. QED
  BY <1>1, <1>2

(* An answered context keeps the conversation it was answered in: a later  *)
(* message of the store found it, and writes what it found.                *)
LEMMA AnsweredContexts ==
  ASSUME TypeOK, EventsInv, ContextInv, HistoryInv, AnswersInv, [Next]_vars,
         NEW w \in Workers, NEW c \in answered'[w] \ raced'
  PROVE  \E q \in Messages : NextAnswered(c, mapping'[w][c], q)
<1>1. c \notin raced
  BY AnswersKept
<1>2. ASSUME c \in answered[w], mapping'[w][c] = mapping[w][c]
      PROVE  \E q \in Messages : NextAnswered(c, mapping'[w][c], q)
  BY <1>1, <1>2, AnswersKept DEF AnswersInv
<1>3. ASSUME NEW m \in Messages, SetContext(m)
      PROVE  \E q \in Messages : NextAnswered(c, mapping'[w][c], q)
  <2>1. c \in answered[w] /\ c \in Contexts /\ phase[m] = "mapping"
    BY <1>3 DEF SetContext, observers, TypeOK
  <2>2. mapping'[w][c] = IF Shares(w, m) /\ c = context[m] THEN conv[m] ELSE mapping[w][c]
    BY <1>3, <2>1, MappingWritten
  <2>3. CASE Shares(w, m) /\ c = context[m]
    <3>1. mapping[w][c] # None
      BY <2>1 DEF ContextInv
    <3>2. Knows(w, m)
      BY <1>1, <2>1, <2>3 DEF HistoryInv
    <3>3. found[m] # None
      BY <2>1, <2>3, <3>1, <3>2 DEF Knows, Founding
    <3>4. mapping[w][c] = found[m] /\ conv[m] = found[m]
      BY <2>1, <2>3, <3>2, <3>3 DEF Knows, HistoryInv
    <3>5. QED
      BY <1>2, <2>1, <2>2, <2>3, <3>4
  <2>4. QED
    BY <1>2, <2>1, <2>2, <2>3
<1>4. ASSUME NEW m \in Messages, Complete(m)
      PROVE  \E q \in Messages : NextAnswered(c, mapping'[w][c], q)
  <2>1. /\ phase[m] = "completing" /\ UNCHANGED <<mapping, context, conv, raced>>
        /\ c \in answered[w] \/ (Shares(w, m) /\ c = context[m])
        /\ Publish(m, "completed")
    BY <1>4 DEF Complete, request, TypeOK
  <2>2. CASE c \in answered[w]
    BY <1>2, <2>1, <2>2
  <2>3. CASE Shares(w, m) /\ c = context[m]
    <3>1. c \in Contexts
      BY <2>1, <2>3 DEF ContextInv
    <3>2. mapping[w][c] = conv[m]
      BY <1>1, <2>1, <2>3, <3>1 DEF HistoryInv, Knows, Past
    <3>3. Completed(m)'
      <4>1. events'[m] = Append(events[m], "completed") /\ events[m] \in Seq(Kinds)
        BY <2>1 DEF Publish, TypeOK, Kinds
      <4>2. /\ Len(events[m]) + 1 \in DOMAIN events'[m]
            /\ events'[m][Len(events[m]) + 1] = "completed"
        BY <4>1
      <4>3. QED
        BY <4>2 DEF Completed
    <3>4. QED
      BY <2>1, <2>3, <3>2, <3>3 DEF NextAnswered
  <2>4. QED
    BY <2>1, <2>2, <2>3
<1>5. ASSUME NEW v \in Workers, Restart(v)
      PROVE  \E q \in Messages : NextAnswered(c, mapping'[w][c], q)
  <2>1. mapping'[w] = mapping[w] /\ answered'[w] = answered[w]
    BY <1>5, StoreRestarted
  <2>2. QED
    BY <1>2, <2>1
<1>6. CASE UNCHANGED <<mapping, answered>>
  BY <1>2, <1>6
<1>7. UNCHANGED <<mapping, answered>>
        \/ (\E m \in Messages : SetContext(m) \/ Complete(m))
        \/ (\E v \in Workers : Restart(v))
  BY DEF Next, Receive, Proceed, NoInput, Lookup, Prepare, Start, StreamEnds,
     Store, Fail, Cancelled, vars, observers
<1>8. QED
  BY <1>3, <1>4, <1>5, <1>6, <1>7

LEMMA AnswersStep ==
  ASSUME TypeOK, EventsInv, ContextInv, HistoryInv, AnswersInv, [Next]_vars
  PROVE  AnswersInv'
<1>1. ASSUME NEW m \in Messages, knew'[m], context'[m] \notin raced'
      PROVE  \E q \in Messages \ {m} : NextAnswered(context'[m], found'[m], q)
  <2>1. CASE UNCHANGED <<context, knew, found>>
    BY <1>1, <2>1, AnswersKept DEF AnswersInv
  <2>2. ASSUME NEW n \in Messages, Lookup(n)
        PROVE  \E q \in Messages \ {m} : NextAnswered(context'[m], found'[m], q)
    <3>1. /\ UNCHANGED context /\ phase[n] = "received"
          /\ found'[n] = mapping[WorkerOf[n]][context[n]]
          /\ knew'[n] <=> context[n] \in answered[WorkerOf[n]]
          /\ \A q \in Messages : q # n => found'[q] = found[q] /\ knew'[q] = knew[q]
      BY <2>2 DEF Lookup, request, TypeOK
    <3>2. CASE m # n
      BY <1>1, <3>1, <3>2, AnswersKept DEF AnswersInv
    <3>3. CASE m = n
      <4>1. WorkerOf[m] \in Workers /\ context[m] \in answered[WorkerOf[m]] \ raced
        BY <1>1, <3>1, <3>3, AnswersKept, A2AAssumption
      <4>2. PICK q \in Messages : AnsweredIn(context[m], found'[m], q)
        BY <3>1, <3>3, <4>1 DEF AnswersInv
      <4>3. q # m
        BY <3>1, <3>3, <4>2, NotCompletedYet DEF AnsweredIn
      <4>4. QED
        BY <3>1, <4>2, <4>3, AnswersKept
    <3>4. QED
      BY <3>2, <3>3
  <2>3. ASSUME NEW n \in Messages, NEW c \in Contexts, Receive(n, c)
        PROVE  \E q \in Messages \ {m} : NextAnswered(context'[m], found'[m], q)
    <3>1. /\ phase[n] = "idle" /\ UNCHANGED <<found, knew>>
          /\ \A q \in Messages : q # n => context'[q] = context[q]
      BY <2>3 DEF Receive, observers, TypeOK
    <3>2. m # n
      BY <1>1, <3>1 DEF ContextInv
    <3>3. QED
      BY <1>1, <3>1, <3>2, AnswersKept DEF AnswersInv
  <2>4. UNCHANGED <<context, knew, found>>
          \/ (\E n \in Messages : Lookup(n) \/ \E c \in Contexts : Receive(n, c))
    BY DEF Next, Proceed, NoInput, Prepare, SetContext, Start, StreamEnds, Store,
       Complete, Fail, Cancelled, Restart, vars, request, observers
  <2>5. QED
    BY <2>1, <2>2, <2>3, <2>4
<1>2. QED
  BY <1>1, AnsweredContexts DEF AnswersInv, AnsweredIn, NextAnswered
-----------------------------------------------------------------------------
LEMMA InitA2A == Init => A2AInv
<1> SUFFICES ASSUME Init PROVE A2AInv
  OBVIOUS
<1>1. TypeOK
  <2>1. events \in [Messages -> Seq(Kinds)]
    <3>1. <<>> \in Seq(Kinds)
      OBVIOUS
    <3>2. QED
      BY <3>1 DEF Init
  <2>2. mapping \in [Workers -> [Contexts -> Messages \cup {None}]]
        /\ answered \in [Workers -> SUBSET Contexts]
    BY DEF Init
  <2>3. /\ shared \in BOOLEAN
        /\ phase \in [Messages -> Running \cup {"idle", "storing", "completing",
                                                "done", "gone"}]
        /\ context \in [Messages -> Contexts \cup {None}]
        /\ found \in [Messages -> Messages \cup {None}]
        /\ conv \in [Messages -> Messages \cup {None}]
    BY DEF Init
  <2>4. /\ compacted \in [Messages -> BOOLEAN]
        /\ knew \in [Messages -> BOOLEAN]
        /\ stored \in SUBSET Messages
        /\ unwritten \in SUBSET Messages
        /\ raced \in SUBSET Contexts
    BY DEF Init
  <2>5. QED
    BY <2>1, <2>2, <2>3, <2>4 DEF TypeOK, Kinds
<1>2. \A m \in Messages : phase[m] = "idle" /\ DOMAIN events[m] = {}
  <2>1. \A m \in Messages : phase[m] = "idle" /\ events[m] = <<>>
    BY DEF Init
  <2>2. DOMAIN <<>> = {}
    OBVIOUS
  <2>3. QED
    BY <2>1, <2>2
<1>3. EventsInv
  BY <1>2 DEF EventsInv, FinalOnceAndLast, CompletedIsStored, Completed, IsOpen
<1>4. ContextInv
  BY <1>2 DEF Init, ContextInv, Past
<1>5. HistoryInv
  <2>1. ASSUME NEW m \in Messages, NEW w \in Workers PROVE Knows(w, m)
    BY <1>2 DEF Knows, Past, Completed, Founding
  <2>2. QED
    BY <1>2, <2>1 DEF Init, HistoryInv, Past, Completed
<1>6. AnswersInv
  BY DEF Init, AnswersInv
<1>7. QED
  BY <1>1, <1>3, <1>4, <1>5, <1>6 DEF A2AInv

LEMMA NextA2A == A2AInv /\ [Next]_vars => A2AInv'
  BY TypesStep, EventsStep, ContextStep, HistoryStep, AnswersStep DEF A2AInv

LEMMA A2AInvariant == Spec => []A2AInv
  BY InitA2A, NextA2A, PTL DEF Spec

(* Whatever the messages of a context do and whichever worker restarts,    *)
(* the executor's state keeps its types.                                   *)
THEOREM A2ATypeCorrect == Spec => []TypeOK
<1>1. A2AInv => TypeOK
  BY DEF A2AInv
<1>2. QED
  BY <1>1, A2AInvariant, PTL

(* The error paths of _process_task_streaming and of execute never give a  *)
(* task two final events, nor an event after its final one.                *)
THEOREM FinalEventIsLast == Spec => []FinalOnceAndLast
<1>1. A2AInv => FinalOnceAndLast
  BY DEF A2AInv, EventsInv
<1>2. QED
  BY <1>1, A2AInvariant, PTL

(* _persist_compacted_a2a_turn comes before the "completed" event: the     *)
(* turn is in OGX by then, or its write was tried and failed.              *)
THEOREM CompletedTurnsAreStored == Spec => []CompletedIsStored
<1>1. A2AInv => CompletedIsStored
  BY DEF A2AInv, EventsInv
<1>2. QED
  BY <1>1, A2AInvariant, PTL

(* A message that looks its context up after one was completed there finds *)
(* a conversation; unless two messages of the store had found the context  *)
(* unmapped at once, another message of the context was completed in it.   *)
THEOREM ContextsContinue == Spec => []ContextContinues
<1>1. A2AInv => ContextContinues
  BY DEF A2AInv, ContextInv, AnswersInv, AnsweredIn, ContextContinues
<1>2. QED
  BY <1>1, A2AInvariant, PTL

(* With a database, the completed messages of a context that no two        *)
(* messages found unmapped at once are all in the conversation it is       *)
(* mapped to, in every worker.                                             *)
THEOREM HistoryIsPreserved == Spec => []HistoryPreserved
<1>1. ContextInv /\ HistoryInv /\ EventsInv => HistoryPreserved
  <2>1. SUFFICES ASSUME ContextInv, HistoryInv, EventsInv, shared,
                        NEW m \in Messages, Completed(m), context[m] \notin raced,
                        NEW w \in Workers
                 PROVE  mapping[w][context[m]] = conv[m]
    BY DEF HistoryPreserved
  <2>2. phase[m] # "idle"
    BY <2>1, NotCompletedYet
  <2>3. context[m] \in Contexts \ raced
    BY <2>1, <2>2 DEF ContextInv
  <2>4. QED
    BY <2>1, <2>3 DEF HistoryInv, Knows, Shares
<1>2. A2AInv => HistoryPreserved
  BY <1>1 DEF A2AInv
<1>3. QED
  BY <1>2, A2AInvariant, PTL
-----------------------------------------------------------------------------
(* The life of a task.  How far it is depends on where its message is; of  *)
(* a message that is done or gone nothing more is told.                    *)
Before == {"received", "preparing", "mapping", "starting"}
Unanswered(m) == m \notin Answered /\ Turn(m) = "open"
TaskInv(m) ==
  /\ phase[m] = "idle" => Told(m) = "none" /\ Unanswered(m)
  /\ phase[m] \in Before => Told(m) \in {"none", "submitted"} /\ Unanswered(m)
  /\ phase[m] = "streaming" => Told(m) = "working" /\ Unanswered(m)
  /\ phase[m] = "storing" =>
       /\ Told(m) = "working" /\ m \in Answered
       /\ Turn(m) = IF compacted[m] THEN "open" ELSE "kept"
  /\ phase[m] = "completing" =>
       Told(m) = "working" /\ m \in Answered /\ Turn(m) # "open"
LifeInv == \A m \in Messages : TaskInv(m)

\* What a step leaves as it is of the task of q.
SameTask(q) ==
  Told(q)' = Told(q) /\ (q \in Answered)' = (q \in Answered) /\ Turn(q)' = Turn(q)

LEMMA SameEvents ==
  ASSUME NEW q \in Messages, events'[q] = events[q]
  PROVE  Told(q)' = Told(q) /\ (q \in Answered)' = (q \in Answered)
  BY DEF Told, Answered

\* An event becomes the status that is told, unless it is the answer.
LEMMA PublishTells ==
  ASSUME TypeOK, NEW m \in Messages, NEW e \in Kinds, Publish(m, e)
  PROVE  /\ Told(m)' = IF e = "artifact" THEN "working" ELSE e
         /\ (m \in Answered)' = (m \in Answered \/ e = "artifact")
         /\ \A q \in Messages \ {m} :
              Told(q)' = Told(q) /\ (q \in Answered)' = (q \in Answered)
<1>1. events'[m] = Append(events[m], e) /\ events[m] \in Seq(Kinds)
  BY DEF TypeOK, Publish, Kinds
<1>2. /\ Len(events'[m]) = Len(events[m]) + 1 /\ events'[m][Len(events'[m])] = e
      /\ DOMAIN events'[m] = DOMAIN events[m] \cup {Len(events[m]) + 1}
      /\ \A i \in DOMAIN events[m] : events'[m][i] = events[m][i]
  BY <1>1
<1>3. events'[m] # <<>>
  BY <1>1
<1>4. Told(m)' = IF e = "artifact" THEN "working" ELSE e
  BY <1>2, <1>3 DEF Told
<1>5. (m \in Answered)' = (m \in Answered \/ e = "artifact")
  BY <1>2 DEF Answered
<1>6. \A q \in Messages \ {m} : events'[q] = events[q]
  BY DEF Publish, TypeOK
<1>7. QED
  BY <1>4, <1>5, <1>6, SameEvents

\* The steps of the task of m.
LEMMA TaskTold ==
  ASSUME NEW m \in Messages, NEW s, Told(m)' = s,
         (m \in Answered)' = (m \in Answered), Turn(m)' = Turn(m),
         \A q \in Messages \ {m} : SameTask(q)
  PROVE  Task!Tell(m, s)
<1>1. Answered' = Answered
  <2>1. \A q \in Messages : (q \in Answered)' = (q \in Answered)
    BY DEF SameTask
  <2>2. Answered \subseteq Messages /\ Answered' \subseteq Messages
    BY DEF Answered
  <2>3. QED
    BY <2>1, <2>2
<1>2. QED
  BY <1>1 DEF Task!Tell, SameTask

LEMMA TaskIdle ==
  ASSUME \A q \in Messages : SameTask(q)
  PROVE  UNCHANGED Task!vars
<1>1. Answered' = Answered
  <2>1. \A q \in Messages : (q \in Answered)' = (q \in Answered)
    BY DEF SameTask
  <2>2. Answered \subseteq Messages /\ Answered' \subseteq Messages
    BY DEF Answered
  <2>3. QED
    BY <2>1, <2>2
<1>2. QED
  BY <1>1 DEF Task!vars, SameTask

LEMMA OneTask ==
  ASSUME LifeInv, NEW m \in Messages, TaskInv(m)',
         \A q \in Messages \ {m} :
           phase'[q] = phase[q] /\ compacted'[q] = compacted[q] /\ SameTask(q)
  PROVE  LifeInv'
<1>1. ASSUME NEW q \in Messages \ {m} PROVE TaskInv(q)'
  BY DEF LifeInv, TaskInv, Unanswered, SameTask
<1>2. QED
  BY <1>1 DEF LifeInv

\* A step that publishes and writes nothing.
LEMMA QuietTask ==
  ASSUME LifeInv, UNCHANGED <<events, stored, unwritten>>,
         \A q \in Messages :
           \/ phase'[q] = phase[q] /\ compacted'[q] = compacted[q]
           \/ phase'[q] = "gone"
           \/ phase[q] \in Before /\ phase'[q] \in Before
  PROVE  LifeInv' /\ UNCHANGED Task!vars
<1>1. \A q \in Messages : SameTask(q)
  BY SameEvents DEF SameTask, Turn
<1>2. ASSUME NEW q \in Messages PROVE TaskInv(q)'
  <2>1. TaskInv(q) /\ SameTask(q)
    BY <1>1 DEF LifeInv
  <2>2. CASE phase'[q] = phase[q] /\ compacted'[q] = compacted[q]
    BY <2>1, <2>2 DEF TaskInv, Unanswered, SameTask
  <2>3. CASE phase'[q] = "gone"
    BY <2>3 DEF TaskInv, Before
  <2>4. CASE phase[q] \in Before /\ phase'[q] \in Before
    BY <2>1, <2>4 DEF TaskInv, Unanswered, SameTask, Before
  <2>5. QED
    BY <2>2, <2>3, <2>4
<1>3. QED
  BY <1>1, <1>2, TaskIdle DEF LifeInv

\* A step that tells a status and moves its message on.
LEMMA TellingTask ==
  ASSUME TypeOK, LifeInv, NEW m \in Messages, NEW e \in Kinds \ {"artifact"},
         NEW p, Publish(m, e), phase' = [phase EXCEPT ![m] = p],
         UNCHANGED <<compacted, stored, unwritten>>,
         p = "received" => e = "submitted" /\ Unanswered(m),
         p = "streaming" => e = "working" /\ Unanswered(m),
         p \in {"received", "streaming", "done"}
  PROVE  LifeInv' /\ Task!Tell(m, e)
<1>1. /\ Told(m)' = e /\ (m \in Answered)' = (m \in Answered) /\ Turn(m)' = Turn(m)
      /\ \A q \in Messages \ {m} : SameTask(q)
  BY PublishTells DEF SameTask, Turn
<1>2. phase'[m] = p /\ \A q \in Messages \ {m} : phase'[q] = phase[q]
  BY DEF TypeOK
<1>3. TaskInv(m)'
  <2>1. Unanswered(m) => Unanswered(m)'
    BY <1>1 DEF Unanswered
  <2>2. QED
    BY <1>1, <1>2, <2>1 DEF TaskInv, Before
<1>4. Task!Tell(m, e)
  BY <1>1, TaskTold
<1>5. QED
  BY <1>1, <1>2, <1>3, <1>4, OneTask

LEMMA ReceiveTask ==
  ASSUME TypeOK, LifeInv, NEW m \in Messages, NEW c \in Contexts, Receive(m, c)
  PROVE  LifeInv' /\ [Task!Next]_(Task!vars)
<1>1. /\ phase[m] = "idle" /\ phase' = [phase EXCEPT ![m] = "received"]
      /\ UNCHANGED <<compacted, stored, unwritten>>
      /\ phase'[m] = "received" /\ \A q \in Messages \ {m} : phase'[q] = phase[q]
  BY DEF Receive, observers, TypeOK
<1>2. Told(m) = "none" /\ Unanswered(m)
  BY <1>1 DEF LifeInv, TaskInv
<1>3. CASE Publish(m, "submitted")
  <2>1. "submitted" \in Kinds \ {"artifact"}
    BY DEF Kinds
  <2>2. LifeInv' /\ Task!Tell(m, "submitted")
    BY <1>1, <1>2, <1>3, <2>1, TellingTask
  <2>3. Task!Submit(m)
    BY <1>2, <2>2 DEF Task!Submit
  <2>4. QED
    BY <2>2, <2>3 DEF Task!Next
<1>4. CASE UNCHANGED events
  <2>1. \A q \in Messages : SameTask(q)
    BY <1>1, <1>4, SameEvents DEF SameTask, Turn
  <2>2. TaskInv(m)'
    BY <1>1, <1>2, <2>1 DEF TaskInv, Unanswered, SameTask, Before
  <2>3. QED
    BY <1>1, <2>1, <2>2, OneTask, TaskIdle
<1>5. QED
  BY <1>3, <1>4 DEF Receive

LEMMA EndingTask ==
  ASSUME TypeOK, LifeInv, NEW m \in Messages,
         NoInput(m) \/ Fail(m) \/ Complete(m) \/ Start(m)
  PROVE  LifeInv' /\ Task!Next
<1>1. CASE NoInput(m)
  <2>1. /\ phase[m] = "received" /\ phase' = [phase EXCEPT ![m] = "done"]
        /\ UNCHANGED <<compacted, stored, unwritten>> /\ Publish(m, "input required")
    BY <1>1 DEF NoInput, request, observers
  <2>2. "input required" \in Kinds \ {"artifact"}
    BY DEF Kinds, Final
  <2>3. LifeInv' /\ Task!Tell(m, "input required")
    BY <2>1, <2>2, TellingTask
  <2>4. Told(m) \in {"none", "submitted"}
    BY <2>1 DEF LifeInv, TaskInv, Before
  <2>5. Task!Ask(m)
    BY <2>3, <2>4 DEF Task!Ask, Task!Unstarted
  <2>6. QED
    BY <2>3, <2>5 DEF Task!Next
<1>2. CASE Fail(m)
  <2>1. /\ phase[m] \in Running /\ phase' = [phase EXCEPT ![m] = "done"]
        /\ UNCHANGED <<compacted, stored, unwritten>> /\ Publish(m, "failed")
    BY <1>2 DEF Fail, request, observers
  <2>2. "failed" \in Kinds \ {"artifact"}
    BY DEF Kinds, Final
  <2>3. LifeInv' /\ Task!Tell(m, "failed")
    BY <2>1, <2>2, TellingTask
  <2>4. Told(m) \in {"none", "submitted", "working"} /\ m \notin Answered
    BY <2>1 DEF LifeInv, TaskInv, Before, Running, Unanswered
  <2>5. Task!Fail(m)
    BY <2>3, <2>4 DEF Task!Fail, Task!Unstarted
  <2>6. QED
    BY <2>3, <2>5 DEF Task!Next
<1>3. CASE Complete(m)
  <2>1. /\ phase[m] = "completing" /\ phase' = [phase EXCEPT ![m] = "done"]
        /\ UNCHANGED <<compacted, stored, unwritten>> /\ Publish(m, "completed")
    BY <1>3 DEF Complete, request
  <2>2. "completed" \in Kinds \ {"artifact"}
    BY DEF Kinds, Final
  <2>3. LifeInv' /\ Task!Tell(m, "completed")
    BY <2>1, <2>2, TellingTask
  <2>4. Told(m) = "working" /\ m \in Answered /\ Turn(m) # "open"
    BY <2>1 DEF LifeInv, TaskInv
  <2>5. Task!Complete(m)
    BY <2>3, <2>4 DEF Task!Complete
  <2>6. QED
    BY <2>3, <2>5 DEF Task!Next
<1>4. CASE Start(m)
  <2>1. /\ phase[m] = "starting" /\ phase' = [phase EXCEPT ![m] = "streaming"]
        /\ UNCHANGED <<compacted, stored, unwritten>> /\ Publish(m, "working")
    BY <1>4 DEF Start, request, observers
  <2>2. "working" \in Kinds \ {"artifact"}
    BY DEF Kinds
  <2>3. Told(m) \in {"none", "submitted"} /\ Unanswered(m)
    BY <2>1 DEF LifeInv, TaskInv, Before
  <2>4. LifeInv' /\ Task!Tell(m, "working")
    BY <2>1, <2>2, <2>3, TellingTask
  <2>5. Task!Work(m)
    BY <2>3, <2>4 DEF Task!Work, Task!Unstarted
  <2>6. QED
    BY <2>4, <2>5 DEF Task!Next
<1>5. QED
  BY <1>1, <1>2, <1>3, <1>4

LEMMA AnsweringTask ==
  ASSUME TypeOK, LifeInv, NEW m \in Messages, StreamEnds(m)
  PROVE  LifeInv' /\ Task!Next
<1>1. /\ phase[m] = "streaming" /\ phase'[m] = "storing"
      /\ \A q \in Messages \ {m} : phase'[q] = phase[q]
      /\ compacted' = compacted /\ unwritten' = unwritten /\ Publish(m, "artifact")
      /\ stored' = IF compacted[m] THEN stored ELSE stored \cup {m}
  BY DEF StreamEnds, request, observers, TypeOK
<1>2. Told(m) = "working" /\ m \notin Answered /\ Turn(m) = "open"
  BY <1>1 DEF LifeInv, TaskInv, Unanswered
<1>3. "artifact" \in Kinds
  BY DEF Kinds
<1>4. /\ Told(m)' = "working" /\ (m \in Answered)' = TRUE
      /\ \A q \in Messages \ {m} :
           Told(q)' = Told(q) /\ (q \in Answered)' = (q \in Answered)
  BY <1>1, <1>3, PublishTells
<1>5. Turn(m)' = IF compacted[m] THEN "open" ELSE "kept"
  BY <1>1, <1>2 DEF Turn
<1>6. \A q \in Messages \ {m} : SameTask(q)
  BY <1>1, <1>4 DEF SameTask, Turn
<1>7. TaskInv(m)'
  BY <1>1, <1>4, <1>5 DEF TaskInv, Before
<1>8. Task!Answer(m)
  <2>1. \A q \in Messages : (q \in Answered)' = (q \in Answered \/ q = m)
    BY <1>4
  <2>2. Answered \subseteq Messages /\ Answered' \subseteq Messages
    BY DEF Answered
  <2>3. Answered' = Answered \cup {m}
    BY <2>1, <2>2
  <2>4. \A q \in Messages : Told(q)' = Told(q)
    BY <1>2, <1>4
  <2>5. Turn(m)' \in {"open", "kept"} /\ \A q \in Messages \ {m} : Turn(q)' = Turn(q)
    BY <1>5, <1>6 DEF SameTask
  <2>6. QED
    BY <1>2, <2>3, <2>4, <2>5 DEF Task!Answer
<1>9. QED
  BY <1>1, <1>6, <1>7, <1>8, OneTask DEF Task!Next

LEMMA StoringTask ==
  ASSUME TypeOK, LifeInv, NEW m \in Messages, Store(m)
  PROVE  LifeInv' /\ [Task!Next]_(Task!vars)
<1>1. /\ phase[m] = "storing" /\ phase'[m] = "completing"
      /\ \A q \in Messages \ {m} : phase'[q] = phase[q]
      /\ compacted' = compacted /\ events' = events
      /\ \/ stored' = stored \cup {m} /\ unwritten' = unwritten
         \/ compacted[m] /\ unwritten' = unwritten \cup {m} /\ stored' = stored
  BY DEF Store, request, TypeOK
<1>2. /\ Told(m) = "working" /\ m \in Answered
      /\ Turn(m) = IF compacted[m] THEN "open" ELSE "kept"
  BY <1>1 DEF LifeInv, TaskInv
<1>3. \A q \in Messages : Told(q)' = Told(q) /\ (q \in Answered)' = (q \in Answered)
  BY <1>1, SameEvents
<1>4. \A q \in Messages \ {m} : SameTask(q)
  BY <1>1, <1>3 DEF SameTask, Turn
<1>5. Turn(m)' \in {"kept", "lost"}
  <2>1. CASE stored' = stored \cup {m}
    BY <2>1 DEF Turn
  <2>2. CASE compacted[m] /\ unwritten' = unwritten \cup {m}
    BY <2>2 DEF Turn
  <2>3. QED
    BY <1>1, <2>1, <2>2
<1>6. LifeInv'
  <2>1. Told(m)' = "working" /\ (m \in Answered)' = TRUE /\ Turn(m)' # "open"
    BY <1>2, <1>3, <1>5
  <2>2. TaskInv(m)'
    BY <1>1, <2>1 DEF TaskInv, Before
  <2>3. QED
    BY <1>1, <1>4, <2>2, OneTask
<1>7. CASE compacted[m]
  <2>1. Answered' = Answered
    <3>1. Answered \subseteq Messages /\ Answered' \subseteq Messages
      BY DEF Answered
    <3>2. QED
      BY <1>3, <3>1
  <2>2. Task!Settle(m)
    BY <1>2, <1>3, <1>4, <1>5, <1>7, <2>1 DEF Task!Settle, SameTask
  <2>3. QED
    BY <1>6, <2>2 DEF Task!Next
<1>8. CASE ~compacted[m]
  <2>1. m \in stored /\ stored' = stored /\ unwritten' = unwritten
    BY <1>1, <1>2, <1>8 DEF Turn
  <2>2. \A q \in Messages : SameTask(q)
    BY <1>3, <2>1 DEF SameTask, Turn
  <2>3. QED
    BY <1>6, <2>2, TaskIdle
<1>9. QED
  BY <1>7, <1>8

\* Everything else goes on behind the task.
LEMMA UntoldSteps ==
  ASSUME TypeOK, LifeInv,
         \/ \E m \in Messages :
              Lookup(m) \/ Prepare(m) \/ SetContext(m) \/ Cancelled(m)
         \/ \E w \in Workers : Restart(w)
         \/ UNCHANGED vars
  PROVE  LifeInv' /\ UNCHANGED Task!vars
<1>1. ASSUME NEW m \in Messages, Lookup(m) \/ SetContext(m) \/ Prepare(m)
      PROVE  LifeInv' /\ UNCHANGED Task!vars
  <2>1. /\ UNCHANGED <<events, stored, unwritten>>
        /\ phase[m] \in Before /\ phase'[m] \in Before
        /\ \A q \in Messages \ {m} : phase'[q] = phase[q] /\ compacted'[q] = compacted[q]
    BY <1>1 DEF Lookup, SetContext, Prepare, request, observers, Before, TypeOK
  <2>2. QED
    BY <2>1, QuietTask
<1>2. ASSUME NEW m \in Messages, Cancelled(m)
      PROVE  LifeInv' /\ UNCHANGED Task!vars
  <2>1. /\ UNCHANGED <<events, stored, unwritten, compacted>>
        /\ \A q \in Messages : phase'[q] = phase[q] \/ phase'[q] = "gone"
    BY <1>2 DEF Cancelled, request, observers, TypeOK
  <2>2. QED
    BY <2>1, QuietTask
<1>3. ASSUME NEW w \in Workers, Restart(w)
      PROVE  LifeInv' /\ UNCHANGED Task!vars
  <2>1. /\ UNCHANGED <<events, stored, unwritten, compacted>>
        /\ \A q \in Messages : phase'[q] = phase[q] \/ phase'[q] = "gone"
    BY <1>3 DEF Restart, request
  <2>2. QED
    BY <2>1, QuietTask
<1>4. CASE UNCHANGED vars
  BY <1>4, QuietTask DEF vars, request, observers
<1>5. QED
  BY <1>1, <1>2, <1>3, <1>4

LEMMA LifeStep ==
  ASSUME TypeOK, LifeInv, [Next]_vars
  PROVE  LifeInv' /\ [Task!Next]_(Task!vars)
<1>1. ASSUME NEW m \in Messages, NEW c \in Contexts, Receive(m, c)
      PROVE  LifeInv' /\ [Task!Next]_(Task!vars)
  BY <1>1, ReceiveTask
<1>2. ASSUME NEW m \in Messages, Proceed(m)
      PROVE  LifeInv' /\ [Task!Next]_(Task!vars)
  <2>1. CASE NoInput(m) \/ Fail(m) \/ Complete(m) \/ Start(m)
    BY <2>1, EndingTask
  <2>2. CASE StreamEnds(m)
    BY <2>2, AnsweringTask
  <2>3. CASE Store(m)
    BY <2>3, StoringTask
  <2>4. CASE Lookup(m) \/ Prepare(m) \/ SetContext(m)
    BY <2>4, UntoldSteps
  <2>5. QED
    BY <1>2, <2>1, <2>2, <2>3, <2>4 DEF Proceed
<1>3. QED
  BY <1>1, <1>2, UntoldSteps DEF Next

(* The executor implements the life of an A2A task, for any messages,      *)
(* contexts and workers: a status that was told is never taken back, a     *)
(* task ends once, and it is completed only with an answer and after its   *)
(* turn was stored or its write had failed.                                *)
THEOREM TasksLiveOnce == Spec => ImplementsTaskLifecycle
<1>1. Init => LifeInv /\ Task!Init
  <2>1. SUFFICES ASSUME Init PROVE LifeInv /\ Task!Init
    OBVIOUS
  <2>2. \A m \in Messages : Told(m) = "none" /\ m \notin Answered /\ Turn(m) = "open"
    <3>1. ASSUME NEW m \in Messages
          PROVE  Told(m) = "none" /\ m \notin Answered /\ Turn(m) = "open"
      <4>1. events[m] = <<>> /\ m \notin stored /\ m \notin unwritten
        BY <2>1 DEF Init
      <4>2. DOMAIN events[m] = {}
        BY <4>1
      <4>3. QED
        BY <4>1, <4>2 DEF Told, Answered, Turn
    <3>2. QED
      BY <3>1
  <2>3. Answered = {}
    BY <2>2 DEF Answered
  <2>4. QED
    BY <2>1, <2>2, <2>3 DEF Init, LifeInv, TaskInv, Unanswered, Before, Task!Init
<1>2. TypeOK /\ LifeInv /\ [Next]_vars => LifeInv' /\ [Task!Next]_(Task!vars)
  BY LifeStep
<1>3. QED
  BY <1>1, <1>2, A2ATypeCorrect, PTL DEF Spec, ImplementsTaskLifecycle, Task!Spec
=============================================================================
