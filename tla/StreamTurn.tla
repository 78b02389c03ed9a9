------------------------------ MODULE StreamTurn ------------------------------
(***************************************************************************)
(* The turn of a streamed answer: who stores it, records it and charges    *)
(* for it when the stream completes, fails, is interrupted by its user or  *)
(* loses its client.                                                       *)
(*                                                                         *)
(* Three tasks may want to finish a turn: the task that streams (its       *)
(* normal end and its CancelledError handler, generate_agent_response) and *)
(* the callback that cancel_stream schedules for every interrupt           *)
(* (register_interrupt_callback).  They share a guard and the PendingTurn. *)
(* A step is what a task does between two suspensions; a cancellation is   *)
(* requested in one step and delivered when the task next runs.            *)
(***************************************************************************)
EXTENDS Integers, FiniteSets

CONSTANTS
  Requests,
  Compacting,        \* requests served by generate_response_with_compaction
  NewConversations,  \* requests that start a conversation: they get a topic
  MaxInterrupts,     \* bound: interrupts a user sends per request
  Disconnects,       \* may clients stop reading?
  Faults             \* may the database, the quota or the topic call fail?

ASSUME StreamAssumption ==
  /\ Compacting \cap NewConversations = {}
  /\ NewConversations \subseteq Requests
  /\ MaxInterrupts \in Nat /\ Disconnects \in BOOLEAN /\ Faults \in BOOLEAN

VARIABLES
  stage,       \* where the streaming task is
  registered,  \* the request is in the StreamInterruptRegistry
  interrupts,  \* interrupts that were answered "cancelled"
  cancelled,   \* a cancellation to be delivered: once, or again and again
  scheduled,   \* interrupt callbacks that did not run yet
  persisting,  \* who is inside persist_interrupted_turn
  guard,       \* persist_guard[0]
  omitted,     \* params.omit_conversation: OGX does not see the conversation
  leftToOgx,   \* PendingTurn.left_to_ogx
  outcome,     \* PendingTurn.outcome
  writing,     \* appends to the conversation whose answer is awaited
  stored,      \* copies of the turn in the OGX conversation
  answered,    \* OGX stored the turn it was handed the conversation for
  recorded,    \* times store_query_results recorded the turn
  charged,     \* the tokens of the answer were consumed
  topic        \* the background topic summary of an interrupted turn

callVars == <<registered, interrupts, scheduled>>
turnVars == <<omitted, leftToOgx>>
storeVars == <<guard, outcome, writing, stored>>
bookVars == <<recorded, charged, topic>>
vars == <<stage, cancelled, persisting, answered, callVars, turnVars, storeVars, bookVars>>

Writers == {"handler", "callback", "completion"}

\* Suspended at a yield, while Starlette sends an event.
Sending == {"starting", "sending", "failing", "farewell", "ending"}
\* The task is over; an abandoned generator is still to be closed.
Done == {"abandoned", "ended"}
Outcomes == {"pending", "completed", "interrupted",
             "failed: completed", "failed: interrupted"}

Init ==
  /\ stage = [r \in Requests |-> "new"]
  /\ registered = [r \in Requests |-> FALSE]
  /\ interrupts = [r \in Requests |-> 0]
  /\ cancelled = [r \in Requests |-> "no"]
  /\ scheduled = [r \in Requests |-> 0]
  /\ persisting = [r \in Requests |-> {}]
  /\ guard = [r \in Requests |-> FALSE]
  /\ omitted = [r \in Requests |-> FALSE]
  /\ leftToOgx = [r \in Requests |-> TRUE]
  /\ outcome = [r \in Requests |-> "pending"]
  /\ writing = [r \in Requests |-> {}]
  /\ stored = [r \in Requests |-> 0]
  /\ answered = [r \in Requests |-> FALSE]
  /\ recorded = [r \in Requests |-> 0]
  /\ charged = [r \in Requests |-> FALSE]
  /\ topic = [r \in Requests |-> "none"]

Goto(r, s) == stage' = [stage EXCEPT ![r] = s]
Deregister(r) == registered' = [registered EXCEPT ![r] = FALSE]

-----------------------------------------------------------------------------
(* PendingTurn.                                                            *)

(* for_request: who stores a completed turn.                               *)
\* Mutants: every turn is left to OGX, or none is.
EveryTurnIsLeft(conversationOmitted) == TRUE
NoTurnIsLeft(conversationOmitted) == FALSE
LeftToOgx(conversationOmitted) == ~conversationOmitted

(* _store: the first caller settles the turn and starts the write.         *)
\* Mutant: the outcome and the writer are swapped.
StartWriteSwapped(r, who, how) ==
  IF outcome[r] = "pending"
  THEN /\ outcome' = [outcome EXCEPT ![r] = who]
       /\ writing' = [writing EXCEPT ![r] = @ \cup {how}]
  ELSE UNCHANGED <<outcome, writing>>
StartWrite(r, who, how) ==
  IF outcome[r] = "pending"
  THEN /\ outcome' = [outcome EXCEPT ![r] = how]
       /\ writing' = [writing EXCEPT ![r] = @ \cup {who}]
  ELSE UNCHANGED <<outcome, writing>>

Failed(how) ==
  CASE how = "completed" -> "failed: completed"
    [] how = "interrupted" -> "failed: interrupted"
    [] OTHER -> how

(* A write fails although OGX may have applied it, and is not repeated.    *)
WriteFails(r, who) ==
  /\ outcome' = [outcome EXCEPT ![r] = Failed(@)]
  /\ UNCHANGED guard
  /\ writing' = [writing EXCEPT ![r] = @ \ {who}]
  /\ \E n \in 0..1 : stored' = [stored EXCEPT ![r] = @ + n]

WriteEnds(r, who) ==
  IF who \in writing[r]
  THEN \/ /\ stored' = [stored EXCEPT ![r] = @ + 1]
          /\ writing' = [writing EXCEPT ![r] = @ \ {who}]
          /\ UNCHANGED <<guard, outcome>>
       \/ WriteFails(r, who)
  ELSE UNCHANGED storeVars

-----------------------------------------------------------------------------
(* What both the handler and the callback do.                              *)

(* persist_interrupted_turn up to its await; the caller checked the guard. *)
Persist(r, who) ==
  /\ guard' = [guard EXCEPT ![r] = TRUE]
  /\ StartWrite(r, who, "interrupted")
  /\ persisting' = [persisting EXCEPT ![r] = @ \cup {who}]
  /\ UNCHANGED stored

(* store_query_results: no suspension, but it may raise.                   *)
Record(r) ==
  \/ recorded' = [recorded EXCEPT ![r] = @ + 1]
  \/ Faults /\ UNCHANGED recorded

(* persist_interrupted_turn after its await: results, then the topic of a  *)
(* new conversation in the background.                                     *)
FinishPersist(r, who) ==
  /\ who \in persisting[r]
  /\ WriteEnds(r, who)
  /\ persisting' = [persisting EXCEPT ![r] = @ \ {who}]
  /\ Record(r)
  /\ topic' = IF recorded'[r] # recorded[r] /\ r \in NewConversations
              THEN [topic EXCEPT ![r] = "pending"] ELSE topic
  /\ UNCHANGED charged

-----------------------------------------------------------------------------
(* The streaming task, as long as no cancellation is due.                  *)
Runs(r) == cancelled[r] = "no"

(* The start event.  A plain stream registers before it, outside the try   *)
(* that deregisters; a compacting one registers after compaction only.     *)
Start(r) ==
  /\ stage[r] = "new" /\ Goto(r, "starting")
  /\ IF r \in Compacting
     THEN UNCHANGED <<registered, leftToOgx>>
     ELSE /\ registered' = [registered EXCEPT ![r] = TRUE]
          /\ leftToOgx' = [leftToOgx EXCEPT ![r] = LeftToOgx(FALSE)]
  /\ UNCHANGED <<interrupts, scheduled, omitted, cancelled, persisting, answered, storeVars, bookVars>>

StartSent(r) ==
  /\ stage[r] = "starting" /\ Runs(r)
  /\ Goto(r, IF r \in Compacting THEN "compacting" ELSE "streaming")
  /\ UNCHANGED <<callVars, turnVars, cancelled, persisting, answered, storeVars, bookVars>>

(* apply_compaction rewrote the input, or found nothing to do.             *)
Compact(r) ==
  /\ stage[r] = "compacting" /\ Runs(r) /\ Goto(r, "streaming")
  /\ \E rewritten \in BOOLEAN :
       /\ omitted' = [omitted EXCEPT ![r] = rewritten]
       /\ leftToOgx' = [leftToOgx EXCEPT ![r] = LeftToOgx(rewritten)]
  /\ registered' = [registered EXCEPT ![r] = TRUE]
  /\ UNCHANGED <<interrupts, scheduled, cancelled, persisting, answered, storeVars, bookVars>>

CompactionFails(r) ==
  /\ stage[r] = "compacting" /\ Runs(r) /\ Goto(r, "ended")
  /\ UNCHANGED <<callVars, turnVars, cancelled, persisting, answered, storeVars, bookVars>>

(* An event of the answer is passed on to the client.                      *)
Forward(r) ==
  /\ \/ stage[r] = "streaming" /\ Goto(r, "sending")
     \/ stage[r] = "sending" /\ Goto(r, "streaming")
  /\ Runs(r)
  /\ UNCHANGED <<callVars, turnVars, cancelled, persisting, answered, storeVars, bookVars>>

(* OGX (external) completes the response and stores the turn of the        *)
(* conversation it was handed; the last events are still to be forwarded.  *)
OgxAnswers(r) ==
  /\ stage[r] \in {"streaming", "sending"} /\ ~omitted[r] /\ ~answered[r]
  /\ answered' = [answered EXCEPT ![r] = TRUE]
  /\ stored' = [stored EXCEPT ![r] = @ + 1]
  /\ UNCHANGED <<stage, cancelled, persisting, callVars, turnVars, guard, outcome, writing, bookVars>>

(* The stream ran to its end: finally, then _persist_compacted_turn and    *)
(* ensure_settled.                                                         *)
AnswerEnds(r) ==
  /\ stage[r] = "streaming" /\ Runs(r) /\ (omitted[r] \/ answered[r])
  /\ Deregister(r)
  /\ IF ~leftToOgx[r] /\ ~guard[r]
     THEN /\ guard' = [guard EXCEPT ![r] = TRUE]
          /\ StartWrite(r, "completion", "completed")
          /\ Goto(r, "storing")
     ELSE /\ Goto(r, IF ~leftToOgx[r] /\ outcome[r] = "pending" THEN "ended" ELSE "summing")
          /\ UNCHANGED <<guard, outcome, writing>>
  /\ UNCHANGED <<interrupts, scheduled, turnVars, cancelled, persisting, answered, stored, bookVars>>

(* A failed write is logged; the stream goes on.                           *)
StoreEnds(r) ==
  /\ stage[r] = "storing" /\ Runs(r) /\ Goto(r, "summing")
  /\ WriteEnds(r, "completion")
  /\ UNCHANGED <<callVars, turnVars, cancelled, persisting, answered, bookVars>>

(* An error of the model: its event is sent while the stream is still      *)
(* registered, then the request is over.                                   *)
ModelFails(r) ==
  /\ stage[r] = "streaming" /\ Runs(r) /\ Goto(r, "failing")
  /\ UNCHANGED <<callVars, turnVars, cancelled, persisting, answered, storeVars, bookVars>>

(* The last event of a failed or interrupted stream was sent.              *)
\* Mutant: an interrupted stream goes on to the accounting.
LastSentUnchecked(r) ==
  /\ stage[r] \in {"failing", "farewell"} /\ Runs(r) /\ Deregister(r)
  /\ Goto(r, IF stage[r] = "farewell" THEN "summing" ELSE "ended")
  /\ UNCHANGED <<interrupts, scheduled, turnVars, cancelled, persisting, answered, storeVars, bookVars>>
LastSent(r) ==
  /\ stage[r] \in {"failing", "farewell"} /\ Runs(r) /\ Deregister(r)
  /\ Goto(r, "ended")
  /\ UNCHANGED <<interrupts, scheduled, turnVars, cancelled, persisting, answered, storeVars, bookVars>>

(* Topic summary, then consume_query_tokens and the end event; any of them *)
(* may end the stream early.                                               *)
TopicFails(r) ==
  /\ stage[r] = "summing" /\ Runs(r) /\ r \in NewConversations /\ Faults
  /\ Goto(r, "ended")
  /\ UNCHANGED <<callVars, turnVars, cancelled, persisting, answered, storeVars, bookVars>>

Charge(r) ==
  /\ stage[r] = "summing" /\ Runs(r)
  /\ \/ Goto(r, "ending") /\ charged' = [charged EXCEPT ![r] = TRUE]
     \/ Faults /\ Goto(r, "ended") /\ \E b \in BOOLEAN : charged' = [charged EXCEPT ![r] = b]
  /\ UNCHANGED <<callVars, turnVars, cancelled, persisting, answered, storeVars, recorded, topic>>

EndSent(r) ==
  /\ stage[r] = "ending" /\ Runs(r) /\ Goto(r, "ended")
  /\ Record(r)
  /\ UNCHANGED <<callVars, turnVars, cancelled, persisting, answered, storeVars, charged, topic>>

-----------------------------------------------------------------------------
(* cancel_stream, with the lookup and the cancel under the registry lock.  *)
(* Every other answer (not found, another owner, done) changes nothing.    *)
Interrupt(r) ==
  /\ interrupts[r] < MaxInterrupts
  /\ stage[r] \notin {"new", "starting"}  \* the client knows the request id
  /\ registered[r] /\ stage[r] \notin Done
  /\ interrupts' = [interrupts EXCEPT ![r] = @ + 1]
  /\ scheduled' = [scheduled EXCEPT ![r] = @ + 1]
  /\ cancelled' = [cancelled EXCEPT ![r] = IF @ = "no" THEN "once" ELSE @]
  /\ UNCHANGED <<stage, registered, persisting, answered, turnVars, storeVars, bookVars>>

(* _on_interrupt runs as a task of its own.                                *)
\* Mutant: the callback does nothing for a stream that is not registered.
CallbackIfRegistered(r) ==
  /\ scheduled[r] > 0
  /\ scheduled' = [scheduled EXCEPT ![r] = @ - 1]
  /\ IF guard[r] \/ ~registered[r]
     THEN UNCHANGED <<persisting, storeVars>> ELSE Persist(r, "callback")
  /\ UNCHANGED <<stage, registered, interrupts, cancelled, answered, turnVars, bookVars>>
Callback(r) ==
  /\ scheduled[r] > 0
  /\ scheduled' = [scheduled EXCEPT ![r] = @ - 1]
  /\ IF guard[r] THEN UNCHANGED <<persisting, storeVars>> ELSE Persist(r, "callback")
  /\ UNCHANGED <<stage, registered, interrupts, cancelled, answered, turnVars, bookVars>>

CallbackEnds(r) ==
  /\ FinishPersist(r, "callback")
  /\ UNCHANGED <<stage, cancelled, answered, callVars, turnVars>>

(* background_update_topic_summary, which gives up after a timeout.        *)
TopicEnds(r) ==
  /\ topic[r] = "pending"
  /\ \E how \in {"updated", "failed"} : topic' = [topic EXCEPT ![r] = how]
  /\ UNCHANGED <<stage, cancelled, persisting, answered, callVars, turnVars, storeVars, recorded, charged>>

(* The client stops reading: Starlette (external) cancels the task, and    *)
(* again at each later suspension.                                         *)
Disconnect(r) ==
  /\ Disconnects /\ stage[r] \notin Done \cup {"new"} /\ cancelled[r] # "forever"
  /\ cancelled' = [cancelled EXCEPT ![r] = "forever"]
  /\ UNCHANGED <<stage, persisting, answered, callVars, turnVars, storeVars, bookVars>>

-----------------------------------------------------------------------------
(* The cancellation is delivered where the task is suspended.              *)
Delivered(r) == cancelled' = [cancelled EXCEPT ![r] = IF @ = "once" THEN "no" ELSE @]

(* While it waits for the answer: the handler takes the exception back and *)
(* persists, unless the callback did.                                      *)
\* Mutant: a handler that comes second waits for a write it did not start.
HandleCancelWaiting(r) ==
  /\ stage[r] = "streaming" /\ ~Runs(r) /\ Delivered(r) /\ Goto(r, "persisting")
  /\ IF guard[r] THEN UNCHANGED <<persisting, storeVars>> ELSE Persist(r, "handler")
  /\ UNCHANGED <<answered, callVars, turnVars, bookVars>>
HandleCancel(r) ==
  /\ stage[r] = "streaming" /\ ~Runs(r) /\ Delivered(r)
  /\ IF guard[r]
     THEN Goto(r, "farewell") /\ UNCHANGED <<persisting, storeVars>>
     ELSE Goto(r, "persisting") /\ Persist(r, "handler")
  /\ UNCHANGED <<answered, callVars, turnVars, bookVars>>

HandlerEnds(r) ==
  /\ stage[r] = "persisting" /\ Runs(r) /\ Goto(r, "farewell")
  /\ FinishPersist(r, "handler")
  /\ UNCHANGED <<cancelled, answered, callVars, turnVars>>

(* While it sends: the task dies, the generator is abandoned at its yield. *)
(* At the start event, closing it deregisters nothing.                     *)
DieSending(r) ==
  /\ stage[r] \in Sending /\ ~Runs(r) /\ Delivered(r)
  /\ Goto(r, IF stage[r] = "starting" THEN "ended" ELSE "abandoned")
  /\ UNCHANGED <<persisting, answered, callVars, turnVars, storeVars, bookVars>>

(* The abandoned generator is closed: GeneratorExit, then finally.         *)
\* Mutant: the generator is dropped without running its finally clause.
CloseSilently(r) ==
  /\ stage[r] = "abandoned" /\ Goto(r, "ended") /\ UNCHANGED registered
  /\ UNCHANGED <<interrupts, scheduled, turnVars, cancelled, persisting, answered, storeVars, bookVars>>
Close(r) ==
  /\ stage[r] = "abandoned" /\ Goto(r, "ended") /\ Deregister(r)
  /\ UNCHANGED <<interrupts, scheduled, turnVars, cancelled, persisting, answered, storeVars, bookVars>>

(* While it writes or waits elsewhere: nothing catches the exception.      *)
Killed(r) ==
  /\ stage[r] \in {"compacting", "persisting", "storing", "summing"}
  /\ ~Runs(r) /\ Delivered(r) /\ Goto(r, "ended") /\ Deregister(r)
  /\ persisting' = [persisting EXCEPT ![r] = @ \ {"handler"}]
  /\ \/ \E who \in writing[r] \ {"callback"} : WriteFails(r, who)
     \/ writing[r] \subseteq {"callback"} /\ UNCHANGED storeVars
  /\ UNCHANGED <<interrupts, scheduled, turnVars, answered, bookVars>>

Answering(r) == AnswerEnds(r) \/ ModelFails(r)
TaskStep(r) ==
  \/ StartSent(r) \/ Compact(r) \/ CompactionFails(r) \/ Forward(r) \/ Answering(r)
  \/ StoreEnds(r) \/ LastSent(r) \/ TopicFails(r) \/ Charge(r) \/ EndSent(r)
  \/ HandleCancel(r) \/ HandlerEnds(r) \/ DieSending(r) \/ Killed(r) \/ Close(r)
BackgroundStep(r) == Callback(r) \/ CallbackEnds(r) \/ TopicEnds(r)

Next ==
  \E r \in Requests :
    Start(r) \/ TaskStep(r) \/ BackgroundStep(r)
      \/ OgxAnswers(r) \/ Interrupt(r) \/ Disconnect(r)

Spec == Init /\ [][Next]_vars

(* The event loop runs every task that is ready, every call returns or     *)
(* raises, an abandoned generator is closed, and an answer has finitely    *)
(* many events.                                                            *)
FairSpec ==
  Spec /\ \A r \in Requests :
            WF_vars(TaskStep(r)) /\ SF_vars(Answering(r)) /\ WF_vars(BackgroundStep(r))
-----------------------------------------------------------------------------
TypeOK ==
  /\ stage \in [Requests -> Sending \cup Done \cup
                  {"new", "compacting", "streaming", "persisting", "storing", "summing"}]
  /\ registered \in [Requests -> BOOLEAN]
  /\ interrupts \in [Requests -> 0..MaxInterrupts]
  /\ cancelled \in [Requests -> {"no", "once", "forever"}]
  /\ scheduled \in [Requests -> 0..MaxInterrupts]
  /\ persisting \in [Requests -> SUBSET Writers]
  /\ guard \in [Requests -> BOOLEAN]
  /\ omitted \in [Requests -> BOOLEAN]
  /\ leftToOgx \in [Requests -> BOOLEAN]
  /\ outcome \in [Requests -> Outcomes]
  /\ writing \in [Requests -> SUBSET Writers]
  /\ stored \in [Requests -> Nat]
  /\ answered \in [Requests -> BOOLEAN]
  /\ recorded \in [Requests -> Nat]
  /\ charged \in [Requests -> BOOLEAN]
  /\ topic \in [Requests -> {"none", "pending", "updated", "failed"}]

Interrupted(r) == outcome[r] \in {"interrupted", "failed: interrupted"}

(* However many paths want to store the turn, whatever fails or is         *)
(* cancelled, a turn is in the conversation at most once, except one       *)
(* that was interrupted after OGX had stored it: persist_interrupted_turn  *)
(* appends that one again.                                                 *)
StoredOnce ==
  \A r \in Requests : omitted[r] \/ ~Interrupted(r) => stored[r] <= 1

(* The guard lets one of stream, handler and callback record the turn.     *)
RecordedOnce == \A r \in Requests : recorded[r] <= 1

(* An interrupt that was answered "cancelled" spares the user the tokens   *)
(* of the answer, wherever the cancellation lands.                         *)
InterruptedNotCharged ==
  \A r \in Requests : interrupts[r] > 0 => ~charged[r]

(* What the user paid for or finds in the list of conversations is in the  *)
(* conversation the model will see, unless its write failed.               *)
AccountedTurnsKept ==
  \A r \in Requests :
    charged[r] \/ recorded[r] > 0 =>
      stored[r] > 0 \/ outcome[r] \in {"failed: completed", "failed: interrupted"}

(* The turn as its user sees it.                                           *)
Fate(r) ==
  CASE stored[r] > 0 -> "kept"
    [] stored[r] = 0 /\ outcome[r] \in {"failed: completed", "failed: interrupted"} -> "lost"
    [] OTHER -> "open"

Account == INSTANCE TurnAccount WITH
  stopped <- [r \in Requests |-> interrupts[r] > 0],
  fate <- [r \in Requests |-> Fate(r)],
  listed <- recorded,
  charged <- charged

(* Stream, handler and callbacks share one account of the turn: whoever    *)
(* lists or charges it finds it settled, it is listed once, and one that   *)
(* was interrupted is not charged, wherever tasks are cancelled.           *)
ImplementsTurnAccount == Account!Spec

(* Every stream ends, and with it everything scheduled on its behalf.      *)
EveryStreamEnds ==
  \A r \in Requests :
    stage[r] # "new" ~>
      /\ stage[r] = "ended" /\ scheduled[r] = 0 /\ persisting[r] = {}
      /\ topic[r] # "pending"

(* deregister_stream runs on every way out of a stream.                    *)
RegistryDrains == \A r \in Requests : registered[r] ~> ~registered[r]

(* "When a stream is interrupted, any partial response is persisted."      *)
InterruptKeepsTheTurn ==
  \A r \in Requests : interrupts[r] > 0 ~> recorded[r] > 0
-----------------------------------------------------------------------------
(* Inductive strengthening, request by request.                            *)

OgxCopies(r) == IF answered[r] THEN 1 ELSE 0
Accounting == {"storing", "summing", "ending"}

(* Before the answer is asked for, nobody can have interrupted it.         *)
Untouched(r) ==
  stage[r] \in {"new", "starting", "compacting"} =>
    /\ interrupts[r] = 0 /\ scheduled[r] = 0 /\ persisting[r] = {} /\ ~guard[r]
    /\ ~answered[r] /\ ~omitted[r] /\ outcome[r] = "pending"
    /\ recorded[r] = 0 /\ ~charged[r]
    /\ registered[r] => r \notin Compacting /\ stage[r] = "starting"
    /\ stage[r] = "compacting" => r \in Compacting

(* An interrupted stream is cancelled before it goes on, so whoever gets   *)
(* to the accounting was not interrupted and no longer can be.             *)
CancelledFirst(r) ==
  /\ stage[r] \in {"streaming", "sending", "failing"} /\ interrupts[r] > 0 => ~Runs(r)
  /\ stage[r] \in Accounting =>
       ~registered[r] /\ interrupts[r] = 0 /\ recorded[r] = 0
  /\ scheduled[r] <= interrupts[r]
  /\ charged[r] => interrupts[r] = 0 /\ stage[r] \in {"ending"} \cup Done

(* Our write is started by whoever settles the turn, and counts once.      *)
OneWrite(r) ==
  /\ leftToOgx[r] = ~omitted[r]
  /\ omitted[r] => ~answered[r]
  /\ outcome[r] = "pending" => writing[r] = {} /\ stored[r] = OgxCopies(r)
  /\ writing[r] # {} => stored[r] = OgxCopies(r)
  /\ stored[r] <= OgxCopies(r) + 1
  /\ \A u, w \in writing[r] : u = w
  /\ outcome[r] \in {"completed", "failed: completed"} => omitted[r]

(* One of the three records the turn.                                      *)
OneRecorder(r) ==
  /\ recorded[r] <= 1
  /\ \A u, w \in persisting[r] : u = w
  /\ persisting[r] # {} => guard[r] /\ recorded[r] = 0 /\ stage[r] \notin Accounting
  /\ stage[r] \in {"streaming", "sending"} /\ (persisting[r] # {} \/ recorded[r] > 0)
       => interrupts[r] > 0
  /\ recorded[r] > 0 => guard[r] \/ (stage[r] = "ended" /\ scheduled[r] = 0)

StreamInv ==
  /\ TypeOK
  /\ \A r \in Requests :
       Untouched(r) /\ CancelledFirst(r) /\ OneWrite(r) /\ OneRecorder(r)
=============================================================================
