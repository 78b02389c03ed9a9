----------------------- MODULE ConversationCompaction -----------------------
(***************************************************************************)
(* One conversation, served by concurrent requests, whose older turns are  *)
(* replaced by summaries when it grows (src/src/utils/conversation_        *)
(* compaction.py and the callers that serve and store the turn).           *)
(*                                                                         *)
(* The conversation is the list of items kept by OGX, which only grows:    *)
(* turns are appended whole, and a summary is appended as a marker item    *)
(* that records how many leading items it covers.  Summaries are also rows *)
(* of the conversation cache, keyed by user.  What the model is told       *)
(* (summaries and verbatim turns) is abstracted to the set of stored       *)
(* messages it speaks for.                                                 *)
(*                                                                         *)
(* A step is what a request does between two awaits.  Every call that can  *)
(* suspend (fetch of the items, summarization, marker write, fold,         *)
(* inference, turn write) ends a step, so other requests interleave there, *)
(* and so does the first of the two statements that store a fold: another  *)
(* process may run, or this one stop, between them.                        *)
(***************************************************************************)
EXTENDS Integers, Sequences, FiniteSets

CONSTANTS
  Requests,      \* requests on the conversation; each is served once
  Workers,       \* uvicorn worker processes, each with its own lock registry
  WorkerOf,      \* the worker a request is routed to
  Users,         \* users that may continue the conversation
  UserOf,        \* the user of a request
  CacheUsers,    \* requests whose endpoint hands compaction a persisting cache
  Streaming,     \* requests of the streaming endpoint, which probe first
  CacheFaults,   \* statements on the cache that may raise CacheError
  AbortPoints,   \* places where a request may end early
  BufferTurns,   \* compaction.buffer_turns
  TurnShapes,    \* item kinds of a turn, e.g. <<"message", "tool", "message">>
  NoRequest      \* the lock is free

Points == {"probe", "lock", "fetch", "summarize", "mark", "record", "fold",
           "replace", "infer", "answered"}

Messages == Requests \X (Nat \ {0})

ASSUME ConstantsAssumption ==
  /\ WorkerOf \in [Requests -> Workers]
  /\ UserOf \in [Requests -> Users]
  /\ CacheUsers \subseteq Requests
  /\ Streaming \subseteq Requests
  /\ CacheFaults \subseteq {"read", "write", "delete", "insert"}
  /\ AbortPoints \subseteq Points
  /\ BufferTurns \in Nat
  /\ TurnShapes \subseteq Seq({"message", "tool"})
  /\ NoRequest \notin Requests

VARIABLES
  items,   \* the conversation items in OGX
  cached,  \* summary rows of the conversation cache, by user
  holder,  \* the request holding the conversation's lock, by worker
  pc,      \* where each request is
  asked,   \* messages stored when the request arrived
  snap,    \* local: the items the request fetched
  sums,    \* local: summaries
  rows,    \* local: cached_summaries
  recent,  \* local: recent_items, as positions in snap
  chunk,   \* local: the new summary, with its summarized_through_turn
  ctx      \* messages the model was told about for the request

locals == <<snap, sums, rows, recent, chunk>>
vars == <<items, cached, holder, pc, asked, locals, ctx>>

(* A summary, wherever it is kept, is the set of messages it speaks for.   *)
Item == {i \in [kind : {"message", "tool", "marker"},
                about : SUBSET Messages, covers : Nat] :
           i.kind = "tool" => i.about = {}}
NoChunk == [about |-> {}, covers |-> 0]

-----------------------------------------------------------------------------
(* What the code reads off a list of items.                                *)

Markers(s) == {i \in DOMAIN s : s[i].kind = "marker"}          \* is_marker_item
MessagePositions(s) == {i \in DOMAIN s : s[i].kind = "message"} \* is_message_item
MarkerSummaries(s) == {s[i].about : i \in Markers(s)}

About(s, positions) == UNION {s[i].about : i \in positions}
StoredMessages(s) == About(s, MessagePositions(s))

(* The count of the last marker is the boundary; markers are never turns.  *)
IsLastMarker(s, m) == m \in Markers(s) /\ \A k \in Markers(s) : k <= m
ItemsAfterLastMarker(s) ==
  {i \in DOMAIN s \ Markers(s) :
     \A m \in Markers(s) : IsLastMarker(s, m) => i > s[m].covers}

(* partition_conversation: the buffer is the last 2n messages for some     *)
(* n <= buffer_turns that the budget admits, or nothing.  Token budgets    *)
(* are abstracted: any n may be the first that fits.  A split at p keeps   *)
(* the items from p on; the summary then covers the p - 1 items before it. *)
SplitPoints(s, positions) ==
  LET msgs == positions \cap MessagePositions(s)
  IN  {p \in msgs : \E n \in 1 .. BufferTurns :
                      Cardinality({q \in msgs : q >= p}) = 2 * n}
      \cup (IF msgs = {} THEN {} ELSE {Len(s) + 1})
Old(positions, split) == {i \in positions : i < split}
Keep(positions, split) == {i \in positions : i >= split}
\* Mutants: the count is one too large, one too small.
CoveredOneTooMany(split) == split
CoveredOneTooFew(split) == split - 2
CoveredItemCount(split) == split - 1

\* Mutant: the marker text carries no count.
MarkerWithoutCount(c) == [kind |-> "marker", about |-> c.about, covers |-> -1]
MarkerItem(c) == [kind |-> "marker", about |-> c.about, covers |-> c.covers]

(* The items of a turn: user input and LLM output in one create call.      *)
TurnItems(r, shape) ==
  [k \in DOMAIN shape |->
     [kind |-> shape[k], covers |-> 0,
      about |-> IF shape[k] = "message" THEN {<<r, k>>} ELSE {}]]

SummarySet(rs) == {rs[i] : i \in DOMAIN rs}

-----------------------------------------------------------------------------
Init ==
  /\ items = <<>>
  /\ cached = [u \in Users |-> <<>>]
  /\ holder = [w \in Workers |-> NoRequest]
  /\ pc = [r \in Requests |-> "idle"]
  /\ asked = [r \in Requests |-> {}]
  /\ snap = [r \in Requests |-> <<>>]
  /\ sums = [r \in Requests |-> {}]
  /\ rows = [r \in Requests |-> <<>>]
  /\ recent = [r \in Requests |-> {}]
  /\ chunk = [r \in Requests |-> NoChunk]
  /\ ctx = [r \in Requests |-> {}]

Goto(r, point) == pc' = [pc EXCEPT ![r] = point]
Release(r) == holder' = [holder EXCEPT ![WorkerOf[r]] = NoRequest]
DropLocals(r) ==
  /\ snap' = [snap EXCEPT ![r] = <<>>]
  /\ sums' = [sums EXCEPT ![r] = {}]
  /\ rows' = [rows EXCEPT ![r] = <<>>]
  /\ recent' = [recent EXCEPT ![r] = {}]
  /\ chunk' = [chunk EXCEPT ![r] = NoChunk]

(* A request arrives; the streaming endpoint first probes without a lock.  *)
Arrive(r) ==
  /\ pc[r] = "idle"
  /\ Goto(r, IF r \in Streaming THEN "probe" ELSE "lock")
  /\ asked' = [asked EXCEPT ![r] = StoredMessages(items)]
  /\ UNCHANGED <<items, cached, holder, locals, ctx>>

(* needs_compaction_path: a marker always needs it; otherwise the token    *)
(* estimate decides.                                                       *)
Probe(r) ==
  /\ pc[r] = "probe"
  /\ \/ Goto(r, "lock")
     \/ Markers(items) = {} /\ Goto(r, "infer")
  /\ UNCHANGED <<items, cached, holder, asked, locals, ctx>>

\* Mutant: nobody waits for the holder of the lock.
AcquireWithoutWaiting(r) ==
  /\ pc[r] = "lock"
  /\ holder' = [holder EXCEPT ![WorkerOf[r]] = r]
  /\ Goto(r, "fetch")
  /\ UNCHANGED <<items, cached, asked, locals, ctx>>

(* The per-conversation lock of the request's own process.                 *)
Acquire(r) ==
  /\ pc[r] = "lock"
  /\ holder[WorkerOf[r]] = NoRequest
  /\ holder' = [holder EXCEPT ![WorkerOf[r]] = r]
  /\ Goto(r, "fetch")
  /\ UNCHANGED <<items, cached, asked, locals, ctx>>

\* Mutant: the buffer is not replayed.
ConcludeWithoutRecent(r, s, ss, rec) ==
  /\ IF ss = {}
     THEN Goto(r, "infer") /\ UNCHANGED ctx
     ELSE /\ Goto(r, "answered")
          /\ ctx' = [ctx EXCEPT ![r] = UNION ss]
  /\ Release(r)
  /\ DropLocals(r)
(* The end of apply_compaction: without a summary the request goes on with *)
(* the conversation parameter, otherwise its input is built explicitly.    *)
(* The generator ends here, so the lock is released before inference.      *)
Conclude(r, s, ss, rec) ==
  /\ IF ss = {}
     THEN Goto(r, "infer") /\ UNCHANGED ctx
     ELSE /\ Goto(r, "answered")
          /\ ctx' = [ctx EXCEPT ![r] = (UNION ss) \cup About(s, rec)]
  /\ Release(r)
  /\ DropLocals(r)

(* _maybe_persist_fold up to its LLM call: a persisting cache and at least *)
(* two summaries are required, and their tokens have to exceed the share   *)
(* of the context window (either outcome is possible).                     *)
StartFold(r, s, ss, rs, rec) ==
  /\ r \in CacheUsers /\ Len(rs) >= 2
  /\ Goto(r, "fold")
  /\ snap' = [snap EXCEPT ![r] = s]
  /\ sums' = [sums EXCEPT ![r] = ss]
  /\ rows' = [rows EXCEPT ![r] = rs]
  /\ recent' = [recent EXCEPT ![r] = rec]
  /\ chunk' = [chunk EXCEPT ![r] = NoChunk]
  /\ UNCHANGED <<holder, ctx>>
FoldOrConclude(r, s, ss, rs, rec) ==
  StartFold(r, s, ss, rs, rec) \/ Conclude(r, s, ss, rec)

(* The old turns are told from the recent ones; without old turns nothing  *)
(* is summarized.                                                          *)
StartSummary(r, ss, rs, rec, split) ==
  /\ Old(rec, split) # {}
  /\ Goto(r, "summarize")
  /\ snap' = [snap EXCEPT ![r] = items]
  /\ sums' = [sums EXCEPT ![r] = ss]
  /\ rows' = [rows EXCEPT ![r] = rs]
  /\ recent' = [recent EXCEPT ![r] = Keep(rec, split)]
  /\ chunk' = [chunk EXCEPT ![r] = [about |-> About(items, Old(rec, split)),
                                    covers |-> CoveredItemCount(split)]]
  /\ UNCHANGED <<holder, ctx>>

(* What cache.get_summaries yields; a CacheError reads as no summaries.    *)
CacheReads(r) ==
  IF r \notin CacheUsers THEN {<<>>}
  ELSE {cached[UserOf[r]]} \cup (IF "read" \in CacheFaults THEN {<<>>} ELSE {})

(* The items arrive, and without another await the summaries are loaded,   *)
(* the tokens estimated and the old turns told from the recent ones.       *)
Evaluate(r) ==
  /\ pc[r] = "fetch"
  /\ \E rs \in CacheReads(r) :
       LET ss  == IF rs # <<>> THEN SummarySet(rs) ELSE MarkerSummaries(items)
           rec == ItemsAfterLastMarker(items)
       IN  \/ FoldOrConclude(r, items, ss, rs, rec)
           \/ \E split \in SplitPoints(items, rec) :
                StartSummary(r, ss, rs, rec, split)
  /\ UNCHANGED <<items, cached, asked>>

(* summarize_chunk returned a summary.                                     *)
Summarize(r) ==
  /\ pc[r] = "summarize"
  /\ Goto(r, "mark")
  /\ UNCHANGED <<items, cached, holder, asked, locals, ctx>>

\* Mutant: the count is taken when the marker is written.
WriteMarkerCountingNow(r) ==
  /\ pc[r] = "mark"
  /\ items' = Append(items, MarkerItem([chunk[r] EXCEPT !.covers = Len(items)]))
  /\ Goto(r, "record")
  /\ UNCHANGED <<cached, holder, asked, locals, ctx>>

(* OGX appends the marker at the end, behind whatever was appended since.  *)
WriteMarker(r) ==
  /\ pc[r] = "mark"
  /\ items' = Append(items, MarkerItem(chunk[r]))
  /\ Goto(r, "record")
  /\ UNCHANGED <<cached, holder, asked, locals, ctx>>

(* The marker write was acknowledged: the chunk is stored in the cache     *)
(* (a CacheError is logged and forgotten) and joins the local summaries.   *)
RecordChunk(r) ==
  /\ pc[r] = "record"
  /\ \/ /\ r \in CacheUsers
        /\ cached' = [cached EXCEPT ![UserOf[r]] = Append(@, chunk[r].about)]
     \/ /\ r \notin CacheUsers \/ "write" \in CacheFaults
        /\ UNCHANGED cached
  /\ FoldOrConclude(r, snap[r], sums[r] \cup {chunk[r].about},
                    Append(rows[r], chunk[r].about), recent[r])
  /\ UNCHANGED <<items, asked>>

(* The fold replaces every row of the conversation by one, in two SQL      *)
(* statements that autocommit makes two commits.  A statement that fails   *)
(* leaves the request with the unfolded summaries.                         *)
GoOnUnfolded(r, statement) ==
  /\ statement \in CacheFaults
  /\ Conclude(r, snap[r], sums[r], recent[r])
  /\ UNCHANGED cached

(* DELETE of every row.                                                    *)
DeleteRows(r) ==
  /\ cached' = [cached EXCEPT ![UserOf[r]] = <<>>]
  /\ Goto(r, "replace")
  /\ UNCHANGED <<holder, locals, ctx>>
Fold(r) ==
  /\ pc[r] = "fold"
  /\ DeleteRows(r) \/ GoOnUnfolded(r, "delete")
  /\ UNCHANGED <<items, asked>>

\* Mutant: the row that replaces the others is the last of them.
InsertLastRow(r) ==
  /\ pc[r] = "replace"
  /\ LET last == rows[r][Len(rows[r])]
     IN  /\ cached' = [cached EXCEPT ![UserOf[r]] = Append(@, last)]
         /\ Conclude(r, snap[r], {last}, recent[r])
  /\ UNCHANGED <<items, asked>>

(* INSERT of the fold.  When it fails the rows are gone all the same.      *)
InsertFold(r) ==
  /\ pc[r] = "replace"
  /\ LET folded == UNION SummarySet(rows[r])
     IN  \/ /\ cached' = [cached EXCEPT ![UserOf[r]] = Append(@, folded)]
            /\ Conclude(r, snap[r], {folded}, recent[r])
         \/ GoOnUnfolded(r, "insert")
  /\ UNCHANGED <<items, asked>>

(* With the conversation parameter OGX replays every stored item.          *)
Infer(r) ==
  /\ pc[r] = "infer"
  /\ ctx' = [ctx EXCEPT ![r] = StoredMessages(items)]
  /\ Goto(r, "answered")
  /\ UNCHANGED <<items, cached, holder, asked, locals>>

(* The turn is appended in one write, by OGX or by PendingTurn.            *)
StoreTurn(r) ==
  /\ pc[r] = "answered"
  /\ \E shape \in TurnShapes : items' = items \o TurnItems(r, shape)
  /\ Goto(r, "done")
  /\ UNCHANGED <<cached, holder, asked, locals, ctx>>

\* Mutant: a request that fails does not release the lock.
AbortHoldingLock(r) ==
  /\ pc[r] \in AbortPoints
  /\ Goto(r, "failed")
  /\ DropLocals(r)
  /\ UNCHANGED <<items, cached, holder, asked, ctx>>

(* The request ends early where it stands: a failed call, a cancelled      *)
(* task, a client that went away.  In "record" the marker was stored and   *)
(* its acknowledgement was not seen; in "fold" and "replace" a statement   *)
(* failed with an error that SQLiteCache does not wrap in a CacheError.    *)
(* Leaving the lock's scope releases it.                                   *)
Abort(r) ==
  /\ pc[r] \in AbortPoints
  /\ Goto(r, "failed")
  /\ IF holder[WorkerOf[r]] = r THEN Release(r) ELSE UNCHANGED holder
  /\ DropLocals(r)
  /\ UNCHANGED <<items, cached, asked, ctx>>

Next ==
  \E r \in Requests :
    \/ Arrive(r) \/ Probe(r) \/ Acquire(r) \/ Evaluate(r) \/ Summarize(r)
    \/ WriteMarker(r) \/ RecordChunk(r) \/ Fold(r) \/ InsertFold(r) \/ Infer(r)
    \/ StoreTurn(r) \/ Abort(r)

(* Every call a request waits for returns or raises, and the event loop    *)
(* resumes it: weak fairness of each request's own steps.  Nobody has to   *)
(* send a request.                                                         *)
Progress(r) ==
  \/ Probe(r) \/ Acquire(r) \/ Evaluate(r) \/ Summarize(r) \/ WriteMarker(r)
  \/ RecordChunk(r) \/ Fold(r) \/ InsertFold(r) \/ Infer(r) \/ StoreTurn(r)

Spec == Init /\ [][Next]_vars
FairSpec == Spec /\ \A r \in Requests : WF_vars(Progress(r))

-----------------------------------------------------------------------------
LocalsOK ==
  /\ snap \in [Requests -> Seq(Item)]
  /\ sums \in [Requests -> SUBSET SUBSET Messages]
  /\ rows \in [Requests -> Seq(SUBSET Messages)]
  /\ recent \in [Requests -> SUBSET Nat]
  /\ \A r \in Requests : recent[r] \subseteq DOMAIN snap[r]
  /\ chunk \in [Requests -> [about : SUBSET Messages, covers : Nat]]
TypeOK ==
  /\ items \in Seq(Item)
  /\ cached \in [Users -> Seq(SUBSET Messages)]
  /\ holder \in [Workers -> Requests \cup {NoRequest}]
  /\ pc \in [Requests -> Points \cup {"idle", "done", "failed"}]
  /\ asked \in [Requests -> SUBSET Messages]
  /\ ctx \in [Requests -> SUBSET Messages]
  /\ LocalsOK

(* No turn is lost to the model: whoever is answered was told about every  *)
(* message stored when the request arrived, verbatim or in a summary       *)
(* (LCORE-4219; _items_after_last_marker, _covered_item_count).            *)
ContextComplete ==
  \A r \in Requests : pc[r] \in {"answered", "done"} => asked[r] \subseteq ctx[r]

(* Everything that a marker counts as covered is in the text of some       *)
(* marker, so the markers stay a valid fallback source of truth.           *)
MarkersSound(s) ==
  \A m \in Markers(s) : \A i \in MessagePositions(s) :
     i <= s[m].covers => s[i].about \subseteq About(s, Markers(s))
MarkersAuthoritative == MarkersSound(items)

(* Inductive strengthening.  A marker counts only items before it; a       *)
(* request works on an earlier state of the conversation; and the chunk it *)
(* is about to write, with the markers it saw, speaks for all it counts.   *)
Prefix(s, t) == Len(s) <= Len(t) /\ \A i \in DOMAIN s : s[i] = t[i]
ChunkSound(r) ==
  /\ chunk[r].covers <= Len(snap[r])
  /\ \A i \in MessagePositions(snap[r]) :
       i <= chunk[r].covers =>
         snap[r][i].about \subseteq
           (chunk[r].about \cup About(snap[r], Markers(snap[r])))
CompactionInv ==
  /\ \A m \in Markers(items) : items[m].covers < m
  /\ MarkersSound(items)
  /\ \A r \in Requests : Prefix(snap[r], items)
  /\ \A r \in Requests : pc[r] \in {"summarize", "mark"} => ChunkSound(r)

(* What a request holds, on its way to the model, speaks for all that was  *)
(* stored when it arrived, and for nothing else.                           *)
Known(r) ==
  (UNION sums[r]) \cup chunk[r].about \cup About(snap[r], recent[r])
KnowledgeOf(r) ==
  /\ asked[r] \subseteq StoredMessages(items)
  /\ Known(r) \subseteq StoredMessages(items)
  /\ ctx[r] \subseteq StoredMessages(items)
  /\ pc[r] \in {"summarize", "mark", "record", "fold", "replace"} =>
       asked[r] \subseteq Known(r)
  /\ pc[r] \in {"fold", "replace"} => r \in CacheUsers /\ chunk[r] = NoChunk
  /\ pc[r] \in {"answered", "done"} => asked[r] \subseteq ctx[r]
KnowledgeInv ==
  /\ About(items, Markers(items)) \subseteq StoredMessages(items)
  /\ \A r \in Requests : KnowledgeOf(r)

(* It does as long as the summaries a request reads from the cache, and    *)
(* those it folds, speak for the same messages as the markers.  A request  *)
(* without a cache reads none.                                             *)
ReadsFaithfully(r) ==
  /\ pc[r] = "fetch" =>
       \A rs \in CacheReads(r) : rs # <<>> =>
         UNION SummarySet(rs) = About(items, Markers(items))
  /\ pc[r] \in {"fold", "replace"} => UNION SummarySet(rows[r]) = UNION sums[r]

Unlocked == \A w \in Workers : holder[w] = NoRequest

(* Double compaction: no message is told twice.  When nobody is            *)
(* compacting, no two markers speak for the same message, and no message   *)
(* that is replayed verbatim is in a summary as well (R11).                *)
NothingTwice ==
  /\ \A m, k \in Markers(items) : m # k => items[m].about \cap items[k].about = {}
  /\ Unlocked => About(items, ItemsAfterLastMarker(items))
                   \cap About(items, Markers(items)) = {}

(* The cache, which is preferred whenever it has a row, tells no less and  *)
(* no more than the markers do once the lock is free                       *)
(* (_load_compaction_state reads one or the other, never both): get_       *)
(* summaries yields the fold, followed by the chunks appended afterwards,  *)
(* as replace_summaries promises.  It holds as long as no INSERT fails.    *)
CacheAgreesWithMarkers ==
  Unlocked => \A u \in Users : cached[u] # <<>> =>
                UNION SummarySet(cached[u]) = About(items, Markers(items))

(* A message that was summarized is never again replayed verbatim: the     *)
(* boundary recorded by the newest marker does not move back.              *)
BoundaryNeverMovesBack ==
  [][\A i \in DOMAIN items :
       i \notin ItemsAfterLastMarker(items) =>
         i \notin ItemsAfterLastMarker(items)']_items

(* Every request that was sent ends: whoever had the lock before it gave it *)
(* up on its way out of the section, whichever that was.                   *)
EveryRequestEnds ==
  \A r \in Requests : pc[r] # "idle" ~> pc[r] \in {"done", "failed"}

(* The abstract view: markers and rows are invisible, a request is being   *)
(* asked until the model has its context.                                  *)
Phase(point) ==
  CASE point = "idle" -> "new"
    [] point = "answered" -> "answered"
    [] point = "done" -> "stored"
    [] point = "failed" -> "gone"
    [] OTHER -> "asked"

Abstract == INSTANCE FullHistory WITH
  history <- StoredMessages(items),
  phase <- [r \in Requests |-> Phase(pc[r])],
  told <- ctx
(* Compaction implements the conversation that replays its whole history.  *)
ImplementsFullHistory == Abstract!Spec
=============================================================================
